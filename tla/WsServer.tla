------------------------------ MODULE WsServer ------------------------------
(***************************************************************************)
(* network/Server.cpp: the websocket server of the browser plugin.         *)
(*                                                                         *)
(* Server::start runs in a pool task and lends its threads to an           *)
(* io_context until that has no work left.  Server::stop is called by the  *)
(* GUI thread (another account or wallet) or by the pool task of           *)
(* setWebSocketAPI; it dispatches session::close and listener::stop to the *)
(* io_context and waits on the mutex "running" for start to return.        *)
(* handleServer answers from pool threads of its own, or closes the        *)
(* session of a website that has no permission.                            *)
(*                                                                         *)
(* Asio and Beast are external: an asynchronous operation is pending until *)
(* its handler runs on one of the io_context's threads.                    *)
(***************************************************************************)
EXTENDS Naturals, FiniteSets

CONSTANTS
    Session,   \* connections a plugin may make
    Task,      \* startWSServer tasks, each with the listener it creates
    Caller,    \* threads that call Server::stop
    Gui,       \* the one that loads the wallet
    Handler,   \* runs of handleServer
    Threads,   \* Server::threads
    Nobody     \* owner of a free mutex

ASSUME WsAssumption ==
    /\ IsFiniteSet(Session) /\ IsFiniteSet(Caller)
    /\ Threads \in Nat \ {0}
    /\ Gui \in Caller /\ Nobody \notin Task \cup Caller \cup Handler
    /\ Task \cap Caller = {}
    /\ Session \cap {"none", "accepting", "failing", "done"} = {}

VARIABLES
    start,      \* where each startWSServer task is
    stop,       \* where each caller of Server::stop is
    running,    \* owner of the mutex Server::running
    stopped,    \* io_context::stopped
    sessions_, listeners_,  \* the two unprotected lists
    posted,     \* dispatched session::close calls, <<session, caller>>
    blocked,    \* those that hold an io thread and wait for m_lock
    stops,      \* dispatched listener::stop calls, <<listener, caller>>
    listener,   \* the accept operation of each listener: pending, its outcome
    acceptor,   \* listeners whose acceptor_ is open
    conn,       \* each connection
    is_running, \* session::is_running
    m_lock,     \* sessions whose m_lock is held
    writing,    \* sessions with an async_write in flight
    posRequest, \* owner of the mutex posRequest of QmlSystem
    handler,    \* where each handleServer is
    asked,      \* the session each handleServer answers
    terminated, \* an exception left io_context::run
    late,       \* history: sessions and listeners that began during a stop
    overlap     \* history: two calls of Server::stop were under way at once

lists == <<sessions_, listeners_>>
ioc == <<stopped, posted, blocked, stops>>
listening == <<listener, acceptor>>
streams == <<conn, is_running, m_lock, writing>>
answers == <<posRequest, handler, asked>>
history == <<late, overlap>>
wsVars == <<start, stop, running, lists, ioc, listening, streams, answers,
            terminated, history>>

WsInit ==
    /\ start = [t \in Task |-> "none"] 
    /\ stop = [c \in Caller |-> IF c = Gui THEN "stopped" ELSE "idle"]
    /\ running = Nobody /\ stopped = FALSE
    /\ sessions_ = {} /\ listeners_ = {}
    /\ posted = {} /\ blocked = {} /\ stops = {}
    /\ listener = [t \in Task |-> "none"] /\ acceptor = {}
    /\ conn = [s \in Session |-> "new"]
    /\ is_running = [s \in Session |-> FALSE]
    /\ m_lock = {} /\ writing = {}
    /\ posRequest = Nobody
    /\ handler = [h \in Handler |-> "idle"] /\ asked = [h \in Handler |-> Nobody]
    /\ terminated = FALSE /\ late = {} /\ overlap = FALSE

Stopping(c) == stop[c] \notin {"idle", "stopped"}
SomeoneStops == \E c \in Caller : Stopping(c)
-----------------------------------------------------------------------------
\* Server::start

StartLock_NoMutex(t) ==
    /\ start[t] = "queued"
    /\ start' = [start EXCEPT ![t] = "listen"]
    /\ stopped' = FALSE
    /\ UNCHANGED <<stop, running, lists, posted, blocked, stops, listening,
                   streams, answers, terminated, history>>

StartLock(t) ==
    /\ start[t] = "queued" /\ running = Nobody
    /\ running' = t
    /\ stopped' = FALSE
    /\ start' = [start EXCEPT ![t] = "listen"]
    /\ UNCHANGED <<stop, lists, posted, blocked, stops, listening, streams,
                   answers, terminated, history>>

\* The listener's constructor may fail to bind: its accept then fails at once.
StartListen(t) ==
    /\ start[t] = "listen"
    /\ start' = [start EXCEPT ![t] = "run"]
    /\ listeners_' = listeners_ \cup {t}
    /\ acceptor' = acceptor \cup {t}
    /\ \E outcome \in {"accepting", "failing"} :
          listener' = [listener EXCEPT ![t] = outcome]
    /\ late' = IF SomeoneStops THEN late \cup {t} ELSE late
    /\ UNCHANGED <<stop, running, sessions_, ioc, streams, answers, terminated,
                   overlap>>

Pending(s) == conn[s] \in {"accepted", "handshake", "open", "closing"}
Work ==
    \/ posted # {} \/ blocked # {} \/ stops # {} \/ writing # {}
    \/ \E t \in Task : listener[t] \notin {"none", "done"}
    \/ \E s \in Session : Pending(s)

Serving == \E t \in Task : start[t] = "run"

\* The io_context runs out of work, its threads end and start() returns.
RunEnds(t) ==
    /\ start[t] = "run" /\ ~Work
    /\ stopped' = TRUE
    /\ running' = Nobody
    /\ start' = [start EXCEPT ![t] = "done"]
    /\ UNCHANGED <<stop, lists, posted, blocked, stops, listening, streams,
                   answers, terminated, history>>
-----------------------------------------------------------------------------
\* Server::stop and startWSServer

StopDispatch_ListenersOnly(c) ==
    /\ stop[c] = "idle"
    /\ stops' = IF stopped THEN stops ELSE stops \cup (listeners_ \X {c})
    /\ stop' = [stop EXCEPT ![c] = "dispatched"]
    /\ overlap' = (overlap \/ SomeoneStops)
    /\ UNCHANGED <<start, running, lists, stopped, posted, blocked, listening,
                   streams, answers, terminated, late>>

\* The two loops.  sessions_ is cleared between them, here with listeners_ after
\* both: an io thread takes what was dispatched at any later time anyway.
StopDispatch(c) ==
    /\ stop[c] = "idle"
    /\ posted' = IF stopped THEN posted ELSE posted \cup (sessions_ \X {c})
    /\ stops' = IF stopped THEN stops ELSE stops \cup (listeners_ \X {c})
    /\ stop' = [stop EXCEPT ![c] = "dispatched"]
    /\ overlap' = (overlap \/ SomeoneStops)
    /\ UNCHANGED <<start, running, lists, stopped, blocked, listening, streams,
                   answers, terminated, late>>

StopClear(c) ==
    /\ stop[c] = "dispatched"
    /\ sessions_' = {} /\ listeners_' = {}
    /\ stop' = [stop EXCEPT ![c] = "lock"]
    /\ UNCHANGED <<start, running, ioc, listening, streams, answers, terminated,
                   history>>

\* Only here is the io_context told to stop.
StopLock(c) ==
    /\ stop[c] = "lock" /\ running = Nobody
    /\ running' = c
    /\ stopped' = TRUE
    /\ stop' = [stop EXCEPT ![c] = "unlock"]
    /\ UNCHANGED <<start, lists, posted, blocked, stops, listening, streams,
                   answers, terminated, history>>

StopUnlock(c) ==
    /\ stop[c] = "unlock"
    /\ running' = Nobody
    /\ stop' = [stop EXCEPT ![c] = "stopped"]
    /\ UNCHANGED <<start, lists, ioc, listening, streams, answers, terminated,
                   history>>

\* Whoever stopped the server starts it again, in a task of its own.
StartWSServer(c, t) ==
    /\ stop[c] = "stopped" /\ start[t] = "none"
    /\ start' = [start EXCEPT ![t] = "queued"]
    /\ stop' = [stop EXCEPT ![c] = "idle"]
    /\ UNCHANGED <<running, lists, ioc, listening, streams, answers, terminated,
                   history>>
-----------------------------------------------------------------------------
\* The listener, on an io thread

FreeThread == Serving /\ Cardinality(blocked) < Threads

PeerConnects(t, s) ==
    /\ listener[t] = "accepting" /\ conn[s] = "new"
    /\ listener' = [listener EXCEPT ![t] = s]
    /\ conn' = [conn EXCEPT ![s] = "accepted"]
    /\ UNCHANGED <<start, stop, running, lists, ioc, acceptor, is_running, m_lock,
                   writing, answers, terminated, history>>

\* A connection from this host becomes a session: run and on_run put it on the
\* list and start the handshake.  is_running is not initialised.
OnAcceptTcp(t, s) ==
    /\ FreeThread /\ listener[t] = s
    /\ listener' = [listener EXCEPT ![t] =
                       IF t \in acceptor THEN "accepting" ELSE "failing"]
    /\ \/ /\ conn' = [conn EXCEPT ![s] = "handshake"]
          /\ sessions_' = sessions_ \cup {s}
          /\ \E b \in BOOLEAN : is_running' = [is_running EXCEPT ![s] = b]
       \/ /\ conn' = [conn EXCEPT ![s] = "closed"]  \* not from 127.0.0.1
          /\ UNCHANGED <<sessions_, is_running>>
    /\ UNCHANGED <<start, stop, running, listeners_, ioc, acceptor, m_lock, writing,
                   answers, terminated, history>>

\* Any error ends the listener; the acceptor stays open unless it was closed.
OnAcceptError(t) ==
    /\ FreeThread /\ listener[t] = "failing"
    /\ listener' = [listener EXCEPT ![t] = "done"]
    /\ UNCHANGED <<start, stop, running, lists, ioc, acceptor, streams, answers,
                   terminated, history>>

\* acceptor_.cancel() throws if the acceptor is closed, and nothing catches it.
ListenerStop(t, c) ==
    /\ FreeThread /\ <<t, c>> \in stops
    /\ stops' = stops \ {<<t, c>>}
    /\ acceptor' = acceptor \ {t}
    /\ terminated' = (t \notin acceptor)
    /\ listener' = [listener EXCEPT ![t] = IF @ = "accepting" THEN "failing" ELSE @]
    /\ UNCHANGED <<start, stop, running, lists, stopped, posted, blocked, streams,
                   answers, history>>
-----------------------------------------------------------------------------
\* Sessions, on an io thread

OnAccept(s) ==
    /\ FreeThread /\ conn[s] = "handshake"
    /\ conn' = [conn EXCEPT ![s] = "open"]
    /\ is_running' = [is_running EXCEPT ![s] = TRUE]
    /\ late' = IF SomeoneStops THEN late \cup {s} ELSE late
    /\ UNCHANGED <<start, stop, running, lists, ioc, listening, m_lock, writing,
                   answers, terminated, overlap>>

\* The handshake fails, or the plugin closes the connection: on_accept or
\* on_read returns and no other operation follows.
PeerLeaves(s) ==
    /\ FreeThread /\ conn[s] \in {"handshake", "open"}
    /\ conn' = [conn EXCEPT ![s] = "closed"]
    /\ UNCHANGED <<start, stop, running, lists, ioc, listening, is_running, m_lock,
                   writing, answers, terminated, history>>

OnRead_NoSession(s, h) ==
    /\ FreeThread /\ conn[s] = "open" /\ handler[h] = "idle"
    /\ handler' = [handler EXCEPT ![h] = "answer"]
    /\ UNCHANGED <<start, stop, running, lists, ioc, listening, streams, posRequest,
                   asked, terminated, history>>

\* on_read: a run of handleServer is queued, and the next message is awaited.
OnRead(s, h) ==
    /\ FreeThread /\ conn[s] = "open" /\ handler[h] = "idle"
    /\ handler' = [handler EXCEPT ![h] = "answer"]
    /\ asked' = [asked EXCEPT ![h] = s]
    /\ UNCHANGED <<start, stop, running, lists, ioc, listening, streams, posRequest,
                   terminated, history>>

Close_EarlyReturn(s, c) ==
    /\ \/ <<s, c>> \in posted /\ FreeThread
       \/ <<s, c>> \in blocked
    /\ s \notin m_lock
    /\ posted' = posted \ {<<s, c>>} /\ blocked' = blocked \ {<<s, c>>}
    /\ is_running' = [is_running EXCEPT ![s] = FALSE]
    /\ conn' = [conn EXCEPT ![s] = IF @ = "open" THEN "closing" ELSE @]
    /\ m_lock' = m_lock \cup {s}
    /\ UNCHANGED <<start, stop, running, lists, stopped, stops, listening, writing,
                   answers, terminated, history>>

\* session::close, when it gets m_lock: with async_close under way m_lock stays
\* locked until on_closed.
CloseSession(s) ==
    /\ s \notin m_lock
    /\ is_running' = [is_running EXCEPT ![s] = FALSE]
    /\ IF conn[s] = "open"
       THEN /\ conn' = [conn EXCEPT ![s] = "closing"]
            /\ m_lock' = m_lock \cup {s}
       ELSE UNCHANGED <<conn, m_lock>>
    /\ UNCHANGED writing

\* Server::stop told it to close.
Close(s, c) ==
    /\ \/ <<s, c>> \in posted /\ FreeThread
       \/ <<s, c>> \in blocked
    /\ CloseSession(s)
    /\ posted' = posted \ {<<s, c>>} /\ blocked' = blocked \ {<<s, c>>}
    /\ UNCHANGED <<start, stop, running, lists, stopped, stops, listening, answers,
                   terminated, history>>

CloseBlocks(s, c) ==
    /\ <<s, c>> \in posted /\ FreeThread /\ s \in m_lock
    /\ posted' = posted \ {<<s, c>>} /\ blocked' = blocked \cup {<<s, c>>}
    /\ UNCHANGED <<start, stop, running, lists, stopped, stops, listening, streams,
                   answers, terminated, history>>

\* on_closed unlocks m_lock only if there was no error.
OnClosed(s) ==
    /\ FreeThread /\ conn[s] = "closing"
    /\ conn' = [conn EXCEPT ![s] = "closed"]
    /\ \/ m_lock' = m_lock \ {s}
       \/ m_lock' = m_lock
    /\ UNCHANGED <<start, stop, running, lists, ioc, listening, is_running, writing,
                   answers, terminated, history>>

OnWrite(s) ==
    /\ FreeThread /\ s \in writing
    /\ writing' = writing \ {s}
    /\ m_lock' = m_lock \ {s}
    /\ UNCHANGED <<start, stop, running, lists, ioc, listening, conn, is_running,
                   answers, terminated, history>>
-----------------------------------------------------------------------------
\* The end of handleServer, on a pool thread

\* A website without permission gets no answer: the pool thread closes its session.
CloseRefused(h) ==
    /\ handler[h] = "answer"
    /\ CloseSession(asked[h])
    /\ handler' = [handler EXCEPT ![h] = "done"]
    /\ UNCHANGED <<start, stop, running, lists, ioc, listening, posRequest, asked,
                   terminated, history>>

\* posRequest is locked and is_running read; nothing happens between the two.
CheckRunning(h) ==
    /\ handler[h] = "answer" /\ posRequest = Nobody
    /\ IF is_running[asked[h]]
       THEN /\ posRequest' = h
            /\ handler' = [handler EXCEPT ![h] = "write"]
       ELSE /\ handler' = [handler EXCEPT ![h] = "done"]
            /\ UNCHANGED posRequest
    /\ UNCHANGED <<start, stop, running, lists, ioc, listening, streams, asked,
                   terminated, history>>

DoWrite_Unlocks(h) ==
    LET s == asked[h] IN
    /\ handler[h] = "write" /\ s \notin m_lock
    /\ writing' = IF conn[s] = "open" THEN writing \cup {s} ELSE writing
    /\ handler' = [handler EXCEPT ![h] = "done"]
    /\ posRequest' = Nobody
    /\ UNCHANGED <<start, stop, running, lists, ioc, listening, conn, is_running,
                   m_lock, asked, terminated, history>>

\* do_write: m_lock stays locked until on_write if the stream is open.
DoWrite(h) ==
    LET s == asked[h] IN
    /\ handler[h] = "write" /\ s \notin m_lock
    /\ IF conn[s] = "open"
       THEN writing' = writing \cup {s} /\ m_lock' = m_lock \cup {s}
       ELSE UNCHANGED <<writing, m_lock>>
    /\ handler' = [handler EXCEPT ![h] = "done"]
    /\ posRequest' = Nobody
    /\ UNCHANGED <<start, stop, running, lists, ioc, listening, conn, is_running,
                   asked, terminated, history>>
-----------------------------------------------------------------------------
StartStep(t) == StartLock(t) \/ StartListen(t) \/ RunEnds(t)
StopStep(c) == StopClear(c) \/ StopLock(c) \/ StopUnlock(c)
ListenerStep(t) ==
    \/ OnAcceptError(t) \/ \E c \in Caller : ListenerStop(t, c)
    \/ \E s \in Session : OnAcceptTcp(t, s)
SessionStep(s) ==
    \/ OnClosed(s) \/ OnWrite(s)
    \/ \E c \in Caller : Close(s, c) \/ CloseBlocks(s, c)
HandshakeEnds(s) == conn[s] = "handshake" /\ (OnAccept(s) \/ PeerLeaves(s))
HandlerStep(h) == CloseRefused(h) \/ CheckRunning(h) \/ DoWrite(h)

WsNext ==
    /\ ~terminated
    /\ \/ \E t \in Task : StartStep(t) \/ ListenerStep(t)
       \/ \E c \in Caller : StopDispatch(c) \/ StopStep(c)
       \/ \E c \in Caller, t \in Task : StartWSServer(c, t)
       \/ \E t \in Task, s \in Session : PeerConnects(t, s)
       \/ \E s \in Session : SessionStep(s) \/ OnAccept(s) \/ PeerLeaves(s)
       \/ \E s \in Session, h \in Handler : OnRead(s, h)
       \/ \E h \in Handler : HandlerStep(h)

WsSpec == WsInit /\ [][WsNext]_wsVars

\* Threads that can run do run, and every asynchronous operation but a read or
\* an accept ends: Beast's timeouts bound handshakes, writes and closes.
WsFairness ==
    /\ \A t \in Task : WF_wsVars(~terminated /\ StartStep(t))
                      /\ WF_wsVars(~terminated /\ ListenerStep(t))
    /\ \A c \in Caller : WF_wsVars(~terminated /\ StopStep(c))
    /\ \A s \in Session : WF_wsVars(~terminated /\ SessionStep(s))
                         /\ WF_wsVars(~terminated /\ HandshakeEnds(s))
    /\ \A h \in Handler : WF_wsVars(~terminated /\ HandlerStep(h))

WsFairSpec == WsSpec /\ WsFairness
-----------------------------------------------------------------------------
\* Properties

\* Types of the server, of its sessions and of the answering handlers; in
\* particular a write is only in flight on a session that exists.
WsTypeOK ==
    /\ start \in [Task -> {"none", "queued", "listen", "run", "done"}]
    /\ stop \in [Caller -> {"idle", "dispatched", "lock", "unlock", "stopped"}]
    /\ running \in Task \cup Caller \cup {Nobody}
    /\ stopped \in BOOLEAN /\ terminated \in BOOLEAN /\ overlap \in BOOLEAN
    /\ sessions_ \subseteq Session /\ listeners_ \subseteq Task
    /\ posted \subseteq Session \X Caller /\ blocked \subseteq Session \X Caller
    /\ stops \subseteq Task \X Caller
    /\ listener \in [Task -> {"none", "accepting", "failing", "done"} \cup Session]
    /\ acceptor \subseteq Task
    /\ conn \in [Session -> {"new", "accepted", "handshake", "open", "closing",
                             "closed"}]
    /\ is_running \in [Session -> BOOLEAN]
    /\ m_lock \subseteq Session /\ writing \subseteq Session
    /\ posRequest \in Handler \cup {Nobody}
    /\ handler \in [Handler -> {"idle", "answer", "write", "done"}]
    /\ asked \in [Handler -> Session \cup {Nobody}]
    /\ \A h \in Handler : handler[h] # "idle" => asked[h] \in Session
    /\ late \subseteq Session \cup Task

\* Mutex "running": once stop() holds it the server is really at rest, with no
\* connection left on which an answer could still go out and no listener left
\* that could take one.  Another account is only set after that.
StopQuiesces ==
    \A c \in Caller : stop[c] = "unlock" =>
       /\ \A s \in Session : conn[s] \in {"new", "closed"}
       /\ \A t \in Task : listener[t] \in {"none", "done"}
       /\ writing = {}

\* m_lock travels from do_write to on_write and from close to on_closed, across
\* threads: a stream never has a write in flight while it is being closed, and
\* answerBuffer_ is never refilled while it is being sent.
OneOperation ==
    \A s \in Session : s \in writing => s \in m_lock /\ conn[s] # "closing"

\* A listener is stopped once: the exception of acceptor_.cancel() takes the
\* program down only if two threads call Server::stop at the same time.
StopsOnce == terminated => overlap

\* All io threads wait in session::close for writes that need an io thread.
Choked == Cardinality(blocked) >= Threads

\* Sessions whose m_lock stays locked because async_close failed.
Leaked == {s \in m_lock \ writing : conn[s] = "closed"}

\* Server::stop returns, unless a handshake ended or a server was started while
\* it was under way (it will never tell that one to close), as many sessions as
\* there are io threads had a write in flight, or a second close of a session
\* waits for the m_lock that its failed first one kept.
StopReturns ==
    \A c \in Caller : stop[c] = "lock" ~>
       \/ stop[c] = "stopped" \/ terminated \/ Choked
       \/ \E s \in late \cap Session : conn[s] = "open"
       \/ \E t \in late \cap Task : start[t] = "run"
       \/ \E p \in blocked : p[1] \in Leaked

\* "so QmlSystem::handleServer can return properly": a handler that found the
\* session running returns, unless async_close failed meanwhile and so left
\* m_lock locked for good.
WriterReturns ==
    \A h \in Handler : handler[h] = "write" ~>
       \/ handler[h] = "done" \/ terminated \/ Choked
       \/ asked[h] \in Leaked
=============================================================================
