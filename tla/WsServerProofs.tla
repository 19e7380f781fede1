--------------------------- MODULE WsServerProofs ---------------------------
(***************************************************************************)
(* Stopping the plugin server, for any number of connections, handlers,    *)
(* io threads and threads that stop and start it.                          *)
(***************************************************************************)
EXTENDS WsServer, TLAPS

\* Every step keeps the types.
LEMMA WsTypeStep == WsTypeOK /\ [WsNext]_wsVars => WsTypeOK'
<1> SUFFICES ASSUME WsTypeOK, [WsNext]_wsVars PROVE WsTypeOK'
    OBVIOUS
<1> USE DEF WsTypeOK, lists, ioc, listening, streams, answers, history
<1>1. ASSUME NEW t \in Task, StartLock(t) PROVE WsTypeOK'
    BY <1>1 DEF StartLock
<1>2. ASSUME NEW t \in Task, StartListen(t) PROVE WsTypeOK'
    BY <1>2 DEF StartListen
<1>3. ASSUME NEW t \in Task, RunEnds(t) PROVE WsTypeOK'
    BY <1>3 DEF RunEnds
<1>4. ASSUME NEW c \in Caller, StopDispatch(c) PROVE WsTypeOK'
    BY <1>4 DEF StopDispatch, SomeoneStops
<1>5. ASSUME NEW c \in Caller, StopClear(c) PROVE WsTypeOK'
    BY <1>5 DEF StopClear
<1>6. ASSUME NEW c \in Caller, StopLock(c) PROVE WsTypeOK'
    BY <1>6 DEF StopLock
<1>7. ASSUME NEW c \in Caller, StopUnlock(c) PROVE WsTypeOK'
    BY <1>7 DEF StopUnlock
<1>8. ASSUME NEW c \in Caller, NEW t \in Task, StartWSServer(c, t) PROVE WsTypeOK'
    BY <1>8 DEF StartWSServer
<1>9. ASSUME NEW t \in Task, NEW s \in Session, PeerConnects(t, s) PROVE WsTypeOK'
    BY <1>9 DEF PeerConnects
<1>10. ASSUME NEW t \in Task, NEW s \in Session, OnAcceptTcp(t, s) PROVE WsTypeOK'
    BY <1>10 DEF OnAcceptTcp
<1>11. ASSUME NEW t \in Task, OnAcceptError(t) PROVE WsTypeOK'
    BY <1>11 DEF OnAcceptError
<1>12. ASSUME NEW t \in Task, NEW c \in Caller, ListenerStop(t, c) PROVE WsTypeOK'
    BY <1>12 DEF ListenerStop
<1>13. ASSUME NEW s \in Session, OnAccept(s) PROVE WsTypeOK'
    BY <1>13 DEF OnAccept
<1>14. ASSUME NEW s \in Session, PeerLeaves(s) PROVE WsTypeOK'
    BY <1>14 DEF PeerLeaves
<1>15. ASSUME NEW s \in Session, NEW h \in Handler, OnRead(s, h) PROVE WsTypeOK'
    BY <1>15 DEF OnRead
<1>16. ASSUME NEW s \in Session, NEW c \in Caller, Close(s, c) PROVE WsTypeOK'
    BY <1>16 DEF Close, CloseSession
<1>17. ASSUME NEW s \in Session, NEW c \in Caller, CloseBlocks(s, c) PROVE WsTypeOK'
    BY <1>17 DEF CloseBlocks
<1>18. ASSUME NEW s \in Session, OnClosed(s) PROVE WsTypeOK'
    BY <1>18 DEF OnClosed
<1>19. ASSUME NEW s \in Session, OnWrite(s) PROVE WsTypeOK'
    BY <1>19 DEF OnWrite
<1>20. ASSUME NEW h \in Handler, CheckRunning(h) PROVE WsTypeOK'
    BY <1>20 DEF CheckRunning
<1>21. ASSUME NEW h \in Handler, DoWrite(h) PROVE WsTypeOK'
    BY <1>21 DEF DoWrite
<1>22. ASSUME NEW h \in Handler, CloseRefused(h) PROVE WsTypeOK'
    BY <1>22 DEF CloseRefused, CloseSession
<1>23. CASE UNCHANGED wsVars
    BY <1>23 DEF wsVars
<1> QED
    BY <1>1, <1>2, <1>3, <1>4, <1>5, <1>6, <1>7, <1>8, <1>9, <1>10,
       <1>11, <1>12, <1>13, <1>14, <1>15, <1>16, <1>17, <1>18, <1>19,
       <1>20, <1>21, <1>22, <1>23
       DEF WsNext, StartStep, StopStep, ListenerStep, SessionStep, HandlerStep

\* The types of the server hold in every state.
THEOREM WsTypeCorrect == WsSpec => []WsTypeOK
<1>1. ASSUME WsInit PROVE WsTypeOK
  <2>1. stop \in [Caller -> {"idle", "dispatched", "lock", "unlock", "stopped"}]
      BY <1>1 DEF WsInit
  <2>2. listener \in [Task -> {"none", "accepting", "failing", "done"} \cup Session]
      BY <1>1 DEF WsInit
  <2>3. stopped \in BOOLEAN /\ terminated \in BOOLEAN /\ overlap \in BOOLEAN
      BY <1>1 DEF WsInit
  <2> QED BY <1>1, <2>1, <2>2, <2>3, WsAssumption DEF WsInit, WsTypeOK
<1> QED BY <1>1, WsTypeStep, PTL DEF WsSpec
-----------------------------------------------------------------------------
\* The mutex "running" is owned by the start() or stop() that is inside it.
Owners ==
    /\ \A t \in Task : start[t] \in {"listen", "run"} <=> running = t
    /\ \A c \in Caller : stop[c] = "unlock" <=> running = c

\* While no thread runs the io_context there is nothing for it to do.
Quiet ==
    ~Serving => /\ \A s \in Session : conn[s] \in {"new", "closed"}
                /\ \A t \in Task : listener[t] \in {"none", "done"}
                /\ writing = {}

\* start() and stop() lock and unlock "running" in pairs.
LEMMA OwnersStep == WsTypeOK /\ Owners /\ [WsNext]_wsVars => Owners'
<1> SUFFICES ASSUME WsTypeOK, Owners, [WsNext]_wsVars PROVE Owners'
    OBVIOUS
<1> USE WsAssumption DEF WsTypeOK, Owners, lists, ioc, listening, streams, answers, history
<1>1. ASSUME NEW t \in Task, StartLock(t) PROVE Owners'
    BY <1>1 DEF StartLock
<1>2. ASSUME NEW t \in Task, StartListen(t) PROVE Owners'
    BY <1>2 DEF StartListen
<1>3. ASSUME NEW t \in Task, RunEnds(t) PROVE Owners'
    BY <1>3 DEF RunEnds
<1>4. ASSUME NEW c \in Caller, StopDispatch(c) PROVE Owners'
    BY <1>4 DEF StopDispatch
<1>5. ASSUME NEW c \in Caller, StopClear(c) PROVE Owners'
    BY <1>5 DEF StopClear
<1>6. ASSUME NEW c \in Caller, StopLock(c) PROVE Owners'
    BY <1>6 DEF StopLock
<1>7. ASSUME NEW c \in Caller, StopUnlock(c) PROVE Owners'
    BY <1>7 DEF StopUnlock
<1>8. ASSUME NEW c \in Caller, NEW t \in Task, StartWSServer(c, t) PROVE Owners'
    BY <1>8 DEF StartWSServer
<1>9. ASSUME NEW t \in Task, NEW s \in Session, PeerConnects(t, s) PROVE Owners'
    BY <1>9 DEF PeerConnects
<1>10. ASSUME NEW t \in Task, NEW s \in Session, OnAcceptTcp(t, s) PROVE Owners'
    BY <1>10 DEF OnAcceptTcp
<1>11. ASSUME NEW t \in Task, OnAcceptError(t) PROVE Owners'
    BY <1>11 DEF OnAcceptError
<1>12. ASSUME NEW t \in Task, NEW c \in Caller, ListenerStop(t, c) PROVE Owners'
    BY <1>12 DEF ListenerStop
<1>13. ASSUME NEW s \in Session, OnAccept(s) PROVE Owners'
    BY <1>13 DEF OnAccept
<1>14. ASSUME NEW s \in Session, PeerLeaves(s) PROVE Owners'
    BY <1>14 DEF PeerLeaves
<1>15. ASSUME NEW s \in Session, NEW h \in Handler, OnRead(s, h) PROVE Owners'
    BY <1>15 DEF OnRead
<1>16. ASSUME NEW s \in Session, NEW c \in Caller, Close(s, c) PROVE Owners'
    BY <1>16 DEF Close, CloseSession
<1>17. ASSUME NEW s \in Session, NEW c \in Caller, CloseBlocks(s, c) PROVE Owners'
    BY <1>17 DEF CloseBlocks
<1>18. ASSUME NEW s \in Session, OnClosed(s) PROVE Owners'
    BY <1>18 DEF OnClosed
<1>19. ASSUME NEW s \in Session, OnWrite(s) PROVE Owners'
    BY <1>19 DEF OnWrite
<1>20. ASSUME NEW h \in Handler, CheckRunning(h) PROVE Owners'
    BY <1>20 DEF CheckRunning
<1>21. ASSUME NEW h \in Handler, DoWrite(h) PROVE Owners'
    BY <1>21 DEF DoWrite
<1>22. ASSUME NEW h \in Handler, CloseRefused(h) PROVE Owners'
    BY <1>22 DEF CloseRefused, CloseSession
<1>23. CASE UNCHANGED wsVars
    BY <1>23 DEF wsVars
<1> QED
    BY <1>1, <1>2, <1>3, <1>4, <1>5, <1>6, <1>7, <1>8, <1>9, <1>10,
       <1>11, <1>12, <1>13, <1>14, <1>15, <1>16, <1>17, <1>18, <1>19,
       <1>20, <1>21, <1>22, <1>23
       DEF WsNext, StartStep, StopStep, ListenerStep, SessionStep, HandlerStep

\* An operation is only begun by a thread of the io_context, by a peer it
\* listens to, or by do_write on an open stream.
LEMMA QuietStep == WsTypeOK /\ Quiet /\ [WsNext]_wsVars => Quiet'
<1> SUFFICES ASSUME WsTypeOK, Quiet, [WsNext]_wsVars PROVE Quiet'
    OBVIOUS
<1> USE DEF WsTypeOK, Quiet, Serving, lists, ioc, listening, streams, answers, history
<1>1. ASSUME NEW t \in Task, StartLock(t) PROVE Quiet'
    BY <1>1 DEF StartLock
<1>2. ASSUME NEW t \in Task, StartListen(t) PROVE Quiet'
    BY <1>2 DEF StartListen
<1>3. ASSUME NEW t \in Task, RunEnds(t) PROVE Quiet'
    BY <1>3 DEF RunEnds, Work, Pending
<1>4. ASSUME NEW c \in Caller, StopDispatch(c) PROVE Quiet'
    BY <1>4 DEF StopDispatch
<1>5. ASSUME NEW c \in Caller, StopClear(c) PROVE Quiet'
    BY <1>5 DEF StopClear
<1>6. ASSUME NEW c \in Caller, StopLock(c) PROVE Quiet'
    BY <1>6 DEF StopLock
<1>7. ASSUME NEW c \in Caller, StopUnlock(c) PROVE Quiet'
    BY <1>7 DEF StopUnlock
<1>8. ASSUME NEW c \in Caller, NEW t \in Task, StartWSServer(c, t) PROVE Quiet'
    BY <1>8 DEF StartWSServer
<1>9. ASSUME NEW t \in Task, NEW s \in Session, PeerConnects(t, s) PROVE Quiet'
    BY <1>9 DEF PeerConnects
<1>10. ASSUME NEW t \in Task, NEW s \in Session, OnAcceptTcp(t, s) PROVE Quiet'
    BY <1>10 DEF OnAcceptTcp, FreeThread
<1>11. ASSUME NEW t \in Task, OnAcceptError(t) PROVE Quiet'
    BY <1>11 DEF OnAcceptError, FreeThread
<1>12. ASSUME NEW t \in Task, NEW c \in Caller, ListenerStop(t, c) PROVE Quiet'
    BY <1>12 DEF ListenerStop, FreeThread
<1>13. ASSUME NEW s \in Session, OnAccept(s) PROVE Quiet'
    BY <1>13 DEF OnAccept, FreeThread
<1>14. ASSUME NEW s \in Session, PeerLeaves(s) PROVE Quiet'
    BY <1>14 DEF PeerLeaves, FreeThread
<1>15. ASSUME NEW s \in Session, NEW h \in Handler, OnRead(s, h) PROVE Quiet'
    BY <1>15 DEF OnRead, FreeThread
<1>16. ASSUME NEW s \in Session, NEW c \in Caller, Close(s, c) PROVE Quiet'
    BY <1>16 DEF Close, CloseSession, FreeThread
<1>17. ASSUME NEW s \in Session, NEW c \in Caller, CloseBlocks(s, c) PROVE Quiet'
    BY <1>17 DEF CloseBlocks, FreeThread
<1>18. ASSUME NEW s \in Session, OnClosed(s) PROVE Quiet'
    BY <1>18 DEF OnClosed, FreeThread
<1>19. ASSUME NEW s \in Session, OnWrite(s) PROVE Quiet'
    BY <1>19 DEF OnWrite, FreeThread
<1>20. ASSUME NEW h \in Handler, CheckRunning(h) PROVE Quiet'
    BY <1>20 DEF CheckRunning
<1>21. ASSUME NEW h \in Handler, DoWrite(h) PROVE Quiet'
    BY <1>21 DEF DoWrite
<1>22. ASSUME NEW h \in Handler, CloseRefused(h) PROVE Quiet'
    BY <1>22 DEF CloseRefused, CloseSession
<1>23. CASE UNCHANGED wsVars
    BY <1>23 DEF wsVars
<1> QED
    BY <1>1, <1>2, <1>3, <1>4, <1>5, <1>6, <1>7, <1>8, <1>9, <1>10,
       <1>11, <1>12, <1>13, <1>14, <1>15, <1>16, <1>17, <1>18, <1>19,
       <1>20, <1>21, <1>22, <1>23
       DEF WsNext, StartStep, StopStep, ListenerStep, SessionStep, HandlerStep

\* When Server::stop has the mutex the server is at rest: every connection is
\* closed, every listener has ended and no write is in flight.
THEOREM StopLeavesNothing == WsSpec => []StopQuiesces
<1>1. WsInit => Owners /\ Quiet
    BY WsAssumption DEF WsInit, Owners, Quiet
<1>2. WsSpec => []Owners
    BY <1>1, WsTypeCorrect, OwnersStep, PTL DEF WsSpec
<1>3. WsSpec => []Quiet
    BY <1>1, WsTypeCorrect, QuietStep, PTL DEF WsSpec
<1>4. Owners /\ Quiet => StopQuiesces
    BY WsAssumption DEF Owners, Quiet, StopQuiesces, Serving
<1> QED BY <1>2, <1>3, <1>4, PTL
-----------------------------------------------------------------------------
\* m_lock is handed from the call that starts an operation to its handler.
LEMMA OperationStep == WsTypeOK /\ OneOperation /\ [WsNext]_wsVars => OneOperation'
<1> SUFFICES ASSUME WsTypeOK, OneOperation, [WsNext]_wsVars PROVE OneOperation'
    OBVIOUS
<1> USE DEF WsTypeOK, OneOperation, lists, ioc, listening, streams, answers, history
<1>1. ASSUME NEW t \in Task, StartLock(t) PROVE OneOperation'
    BY <1>1 DEF StartLock
<1>2. ASSUME NEW t \in Task, StartListen(t) PROVE OneOperation'
    BY <1>2 DEF StartListen
<1>3. ASSUME NEW t \in Task, RunEnds(t) PROVE OneOperation'
    BY <1>3 DEF RunEnds
<1>4. ASSUME NEW c \in Caller, StopDispatch(c) PROVE OneOperation'
    BY <1>4 DEF StopDispatch
<1>5. ASSUME NEW c \in Caller, StopClear(c) PROVE OneOperation'
    BY <1>5 DEF StopClear
<1>6. ASSUME NEW c \in Caller, StopLock(c) PROVE OneOperation'
    BY <1>6 DEF StopLock
<1>7. ASSUME NEW c \in Caller, StopUnlock(c) PROVE OneOperation'
    BY <1>7 DEF StopUnlock
<1>8. ASSUME NEW c \in Caller, NEW t \in Task, StartWSServer(c, t) PROVE OneOperation'
    BY <1>8 DEF StartWSServer
<1>9. ASSUME NEW t \in Task, NEW s \in Session, PeerConnects(t, s) PROVE OneOperation'
    BY <1>9 DEF PeerConnects
<1>10. ASSUME NEW t \in Task, NEW s \in Session, OnAcceptTcp(t, s) PROVE OneOperation'
    BY <1>10 DEF OnAcceptTcp
<1>11. ASSUME NEW t \in Task, OnAcceptError(t) PROVE OneOperation'
    BY <1>11 DEF OnAcceptError
<1>12. ASSUME NEW t \in Task, NEW c \in Caller, ListenerStop(t, c) PROVE OneOperation'
    BY <1>12 DEF ListenerStop
<1>13. ASSUME NEW s \in Session, OnAccept(s) PROVE OneOperation'
    BY <1>13 DEF OnAccept
<1>14. ASSUME NEW s \in Session, PeerLeaves(s) PROVE OneOperation'
    BY <1>14 DEF PeerLeaves
<1>15. ASSUME NEW s \in Session, NEW h \in Handler, OnRead(s, h) PROVE OneOperation'
    BY <1>15 DEF OnRead
<1>16. ASSUME NEW s \in Session, NEW c \in Caller, Close(s, c) PROVE OneOperation'
    BY <1>16 DEF Close, CloseSession
<1>17. ASSUME NEW s \in Session, NEW c \in Caller, CloseBlocks(s, c) PROVE OneOperation'
    BY <1>17 DEF CloseBlocks
<1>18. ASSUME NEW s \in Session, OnClosed(s) PROVE OneOperation'
    BY <1>18 DEF OnClosed
<1>19. ASSUME NEW s \in Session, OnWrite(s) PROVE OneOperation'
    BY <1>19 DEF OnWrite
<1>20. ASSUME NEW h \in Handler, CheckRunning(h) PROVE OneOperation'
    BY <1>20 DEF CheckRunning
<1>21. ASSUME NEW h \in Handler, DoWrite(h) PROVE OneOperation'
    BY <1>21 DEF DoWrite
<1>22. ASSUME NEW h \in Handler, CloseRefused(h) PROVE OneOperation'
    BY <1>22 DEF CloseRefused, CloseSession
<1>23. CASE UNCHANGED wsVars
    BY <1>23 DEF wsVars
<1> QED
    BY <1>1, <1>2, <1>3, <1>4, <1>5, <1>6, <1>7, <1>8, <1>9, <1>10,
       <1>11, <1>12, <1>13, <1>14, <1>15, <1>16, <1>17, <1>18, <1>19,
       <1>20, <1>21, <1>22, <1>23
       DEF WsNext, StartStep, StopStep, ListenerStep, SessionStep, HandlerStep

\* Writes and closes of one stream never overlap, however many handlers answer
\* on it and however often it is told to close.
THEOREM OperationsExclude == WsSpec => []OneOperation
<1>1. WsInit => OneOperation
    BY DEF WsInit, OneOperation
<1> QED BY <1>1, WsTypeCorrect, OperationStep, PTL DEF WsSpec
-----------------------------------------------------------------------------
\* listener::stop is only dispatched to an io_context that is being run, or is
\* about to be: without one the list is empty or the io_context is stopped.
\* A listener that does not exist yet is not told to stop.
Dispatched ==
    /\ stops # {} => running \in Task
    /\ running \notin Task => stopped \/ listeners_ = {}
    /\ \A t \in Task : start[t] \in {"none", "queued", "listen"} =>
          t \notin listeners_ /\ \A c \in Caller : <<t, c>> \notin stops

\* As long as calls of stop() do not overlap, a listener that may still be told
\* to stop has not been told yet: neither the one that waits in the io_context
\* nor, unless a call is between its loop and its clear, any on the list.
Once ==
    ~overlap =>
       /\ ~terminated
       /\ \A c, d \in Caller : Stopping(c) /\ Stopping(d) => c = d
       /\ \A t \in Task, c \in Caller : <<t, c>> \in stops =>
             t \in acceptor /\ stop[c] \in {"dispatched", "lock"}
       /\ (\A c \in Caller : stop[c] # "dispatched") =>
             \A t \in listeners_ : t \in acceptor /\ \A c \in Caller : <<t, c>> \notin stops

\* What is dispatched will be run.
LEMMA DispatchedStep == WsTypeOK /\ Owners /\ Dispatched /\ [WsNext]_wsVars => Dispatched'
<1> SUFFICES ASSUME WsTypeOK, Owners, Dispatched, [WsNext]_wsVars PROVE Dispatched'
    OBVIOUS
<1> USE WsAssumption DEF WsTypeOK, Owners, Dispatched, lists, ioc, listening, streams, answers, history
<1>1. ASSUME NEW t \in Task, StartLock(t) PROVE Dispatched'
    BY <1>1 DEF StartLock
<1>2. ASSUME NEW t \in Task, StartListen(t) PROVE Dispatched'
    BY <1>2 DEF StartListen
<1>3. ASSUME NEW t \in Task, RunEnds(t) PROVE Dispatched'
    BY <1>3 DEF RunEnds, Work
<1>4. ASSUME NEW c \in Caller, StopDispatch(c) PROVE Dispatched'
    BY <1>4 DEF StopDispatch
<1>5. ASSUME NEW c \in Caller, StopClear(c) PROVE Dispatched'
    BY <1>5 DEF StopClear
<1>6. ASSUME NEW c \in Caller, StopLock(c) PROVE Dispatched'
    BY <1>6 DEF StopLock
<1>7. ASSUME NEW c \in Caller, StopUnlock(c) PROVE Dispatched'
    BY <1>7 DEF StopUnlock
<1>8. ASSUME NEW c \in Caller, NEW t \in Task, StartWSServer(c, t) PROVE Dispatched'
    BY <1>8 DEF StartWSServer
<1>9. ASSUME NEW t \in Task, NEW s \in Session, PeerConnects(t, s) PROVE Dispatched'
    BY <1>9 DEF PeerConnects
<1>10. ASSUME NEW t \in Task, NEW s \in Session, OnAcceptTcp(t, s) PROVE Dispatched'
    BY <1>10 DEF OnAcceptTcp
<1>11. ASSUME NEW t \in Task, OnAcceptError(t) PROVE Dispatched'
    BY <1>11 DEF OnAcceptError
<1>12. ASSUME NEW t \in Task, NEW c \in Caller, ListenerStop(t, c) PROVE Dispatched'
    BY <1>12 DEF ListenerStop
<1>13. ASSUME NEW s \in Session, OnAccept(s) PROVE Dispatched'
    BY <1>13 DEF OnAccept
<1>14. ASSUME NEW s \in Session, PeerLeaves(s) PROVE Dispatched'
    BY <1>14 DEF PeerLeaves
<1>15. ASSUME NEW s \in Session, NEW h \in Handler, OnRead(s, h) PROVE Dispatched'
    BY <1>15 DEF OnRead
<1>16. ASSUME NEW s \in Session, NEW c \in Caller, Close(s, c) PROVE Dispatched'
    BY <1>16 DEF Close, CloseSession
<1>17. ASSUME NEW s \in Session, NEW c \in Caller, CloseBlocks(s, c) PROVE Dispatched'
    BY <1>17 DEF CloseBlocks
<1>18. ASSUME NEW s \in Session, OnClosed(s) PROVE Dispatched'
    BY <1>18 DEF OnClosed
<1>19. ASSUME NEW s \in Session, OnWrite(s) PROVE Dispatched'
    BY <1>19 DEF OnWrite
<1>20. ASSUME NEW h \in Handler, CheckRunning(h) PROVE Dispatched'
    BY <1>20 DEF CheckRunning
<1>21. ASSUME NEW h \in Handler, DoWrite(h) PROVE Dispatched'
    BY <1>21 DEF DoWrite
<1>22. ASSUME NEW h \in Handler, CloseRefused(h) PROVE Dispatched'
    BY <1>22 DEF CloseRefused, CloseSession
<1>23. CASE UNCHANGED wsVars
    BY <1>23 DEF wsVars
<1> QED
    BY <1>1, <1>2, <1>3, <1>4, <1>5, <1>6, <1>7, <1>8, <1>9, <1>10,
       <1>11, <1>12, <1>13, <1>14, <1>15, <1>16, <1>17, <1>18, <1>19,
       <1>20, <1>21, <1>22, <1>23
       DEF WsNext, StartStep, StopStep, ListenerStep, SessionStep, HandlerStep

\* A listener is told once.
LEMMA OnceStep == WsTypeOK /\ Owners /\ Dispatched /\ Once /\ [WsNext]_wsVars => Once'
<1> SUFFICES ASSUME WsTypeOK, Owners, Dispatched, Once, [WsNext]_wsVars PROVE Once'
    OBVIOUS
<1> USE DEF WsTypeOK, Once, Stopping, lists, ioc, listening, streams, answers, history
<1>1. ASSUME NEW t \in Task, StartLock(t) PROVE Once'
    BY <1>1 DEF StartLock
<1>2. ASSUME NEW t \in Task, StartListen(t) PROVE Once'
    BY <1>2 DEF StartListen, Dispatched
<1>3. ASSUME NEW t \in Task, RunEnds(t) PROVE Once'
    BY <1>3 DEF RunEnds, Work
<1>4. ASSUME NEW c \in Caller, StopDispatch(c) PROVE Once'
    BY <1>4 DEF StopDispatch, SomeoneStops
<1>5. ASSUME NEW c \in Caller, StopClear(c) PROVE Once'
    BY <1>5 DEF StopClear
<1>6. ASSUME NEW c \in Caller, StopLock(c) PROVE Once'
    BY <1>6, WsAssumption DEF StopLock, Dispatched
<1>7. ASSUME NEW c \in Caller, StopUnlock(c) PROVE Once'
    BY <1>7 DEF StopUnlock
<1>8. ASSUME NEW c \in Caller, NEW t \in Task, StartWSServer(c, t) PROVE Once'
    BY <1>8 DEF StartWSServer
<1>9. ASSUME NEW t \in Task, NEW s \in Session, PeerConnects(t, s) PROVE Once'
    BY <1>9 DEF PeerConnects
<1>10. ASSUME NEW t \in Task, NEW s \in Session, OnAcceptTcp(t, s) PROVE Once'
    BY <1>10 DEF OnAcceptTcp
<1>11. ASSUME NEW t \in Task, OnAcceptError(t) PROVE Once'
    BY <1>11 DEF OnAcceptError
<1>12. ASSUME NEW t \in Task, NEW c \in Caller, ListenerStop(t, c) PROVE Once'
    BY <1>12 DEF ListenerStop
<1>13. ASSUME NEW s \in Session, OnAccept(s) PROVE Once'
    BY <1>13 DEF OnAccept
<1>14. ASSUME NEW s \in Session, PeerLeaves(s) PROVE Once'
    BY <1>14 DEF PeerLeaves
<1>15. ASSUME NEW s \in Session, NEW h \in Handler, OnRead(s, h) PROVE Once'
    BY <1>15 DEF OnRead
<1>16. ASSUME NEW s \in Session, NEW c \in Caller, Close(s, c) PROVE Once'
    BY <1>16 DEF Close, CloseSession
<1>17. ASSUME NEW s \in Session, NEW c \in Caller, CloseBlocks(s, c) PROVE Once'
    BY <1>17 DEF CloseBlocks
<1>18. ASSUME NEW s \in Session, OnClosed(s) PROVE Once'
    BY <1>18 DEF OnClosed
<1>19. ASSUME NEW s \in Session, OnWrite(s) PROVE Once'
    BY <1>19 DEF OnWrite
<1>20. ASSUME NEW h \in Handler, CheckRunning(h) PROVE Once'
    BY <1>20 DEF CheckRunning
<1>21. ASSUME NEW h \in Handler, DoWrite(h) PROVE Once'
    BY <1>21 DEF DoWrite
<1>22. ASSUME NEW h \in Handler, CloseRefused(h) PROVE Once'
    BY <1>22 DEF CloseRefused, CloseSession
<1>23. CASE UNCHANGED wsVars
    BY <1>23 DEF wsVars
<1> QED
    BY <1>1, <1>2, <1>3, <1>4, <1>5, <1>6, <1>7, <1>8, <1>9, <1>10,
       <1>11, <1>12, <1>13, <1>14, <1>15, <1>16, <1>17, <1>18, <1>19,
       <1>20, <1>21, <1>22, <1>23
       DEF WsNext, StartStep, StopStep, ListenerStep, SessionStep, HandlerStep

\* The uncaught exception of a second listener::stop needs two calls of
\* Server::stop that overlap.
THEOREM ListenersStopOnce == WsSpec => []StopsOnce
<1>1. WsInit => Owners /\ Dispatched /\ Once
    BY WsAssumption DEF WsInit, Owners, Dispatched, Once, Stopping
<1>2. WsSpec => []Owners
    BY <1>1, WsTypeCorrect, OwnersStep, PTL DEF WsSpec
<1>3. WsSpec => []Dispatched
    BY <1>1, <1>2, WsTypeCorrect, DispatchedStep, PTL DEF WsSpec
<1>4. WsSpec => []Once
    BY <1>1, <1>2, <1>3, WsTypeCorrect, OnceStep, PTL DEF WsSpec
<1>5. Once => StopsOnce
    BY DEF Once, StopsOnce
<1> QED BY <1>4, <1>5, PTL
=============================================================================
