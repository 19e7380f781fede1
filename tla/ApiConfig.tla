------------------------------ MODULE ApiConfig -----------------------------
(***************************************************************************)
(* Which node the wallet talks to: the setting in the config database, the *)
(* live host, port and target that every request copies, and the GUI       *)
(* thread that opens the database again and loads them while pool tasks    *)
(* change and use them.  apiMutex is a static of a header: QmlSystem.cpp   *)
(* and API.cpp have one each, and a setter takes both.                     *)
(***************************************************************************)
EXTENDS Naturals, Sequences

CONSTANTS
    Task,             \* pool tasks
    GUI,              \* the GUI thread
    Node,             \* settings a user may enter
    Public, Legacy,   \* the default node, and one that is no more
    Unset,            \* no setting, nothing loaded
    MaxCalls          \* bound: calls of all threads

ASSUME ApiConfigAssumption ==
    /\ MaxCalls \in Nat /\ GUI \notin Task
    /\ Unset \notin Task \cup {GUI} \cup Node \cup {Public, Legacy}

Worker == Task \cup {GUI}
Setting == Node \cup {Public, Legacy}
Parts == <<"host", "port", "target">>
Part == {"host", "port", "target"}

VARIABLES
    configDB,   \* open, or NULL
    stored,     \* walletAPI in the database
    live,       \* apiHost, apiPort, apiTarget
    owner,      \* who holds the apiMutex of each file
    at,         \* where each thread is: [pc, value, left, copy]
    calls,      \* calls so far
    ready,      \* the wallet was loaded
    refused,    \* history: the database could not be opened or written
    raced,      \* history: the GUI loaded while a setter was at work
    broken      \* a closed database was used

apiVars == <<configDB, stored, live, owner, at, calls, ready, refused, raced, broken>>

NoParts == [p \in Part |-> Unset]
Idle == [pc |-> "idle", value |-> Unset, left |-> <<>>, copy |-> NoParts]

ApiInit ==
    /\ configDB = "NULL" /\ stored \in Setting \cup {Unset}
    /\ live = NoParts
    /\ owner = [f \in {"QmlSystem", "API"} |-> Unset]
    /\ at = [t \in Worker |-> Idle]
    /\ calls = 0 /\ ready = FALSE
    /\ refused = FALSE /\ raced = FALSE /\ broken = FALSE

GoOn(t, pc) == at' = [at EXCEPT ![t].pc = pc]

\* The mutex that the code of a file calls apiMutex.
ApiMutex_Shared(file) == "API"
ApiMutex(file) == file
Lock(file, t) == owner[ApiMutex(file)] = Unset /\ owner' = [owner EXCEPT ![ApiMutex(file)] = t]
Unlock(file) == owner' = [owner EXCEPT ![ApiMutex(file)] = Unset]

Call(t, pc, value) ==
    /\ at[t].pc = "idle" /\ ~broken /\ calls < MaxCalls
    /\ calls' = calls + 1
    /\ at' = [at EXCEPT ![t] = [Idle EXCEPT !.pc = pc, !.value = value]]
-----------------------------------------------------------------------------
\* setDefaultAPI, called by both: one part after the other.
Enter_Unlocked(t) ==
    /\ at[t].pc = "enter"
    /\ at' = [at EXCEPT ![t].pc = "write", ![t].left = Parts]
    /\ UNCHANGED <<configDB, stored, live, owner, calls, ready, refused, raced, broken>>

Enter(t) ==
    /\ at[t].pc = "enter"
    /\ Lock("API", t)
    /\ at' = [at EXCEPT ![t].pc = "write", ![t].left = Parts]
    /\ UNCHANGED <<configDB, stored, live, calls, ready, refused, raced, broken>>

WritePart(t) ==
    /\ at[t].pc = "write"
    /\ live' = [live EXCEPT ![Head(at[t].left)] = at[t].value]
    /\ at' = [at EXCEPT ![t].left = Tail(@),
                        ![t].pc = IF Len(at[t].left) = 1 THEN "leave" ELSE "write"]
    /\ IF Len(at[t].left) = 1 THEN Unlock("API") ELSE UNCHANGED owner
    /\ UNCHANGED <<configDB, stored, calls, ready, refused, raced, broken>>

Leave(t) ==
    /\ at[t].pc = "leave"
    /\ Unlock("QmlSystem")
    /\ at' = [at EXCEPT ![t] = Idle]
    /\ ready' = (ready \/ t = GUI)
    /\ UNCHANGED <<configDB, stored, live, calls, refused, raced, broken>>
-----------------------------------------------------------------------------
\* setWalletAPI posts a pool task.  Nobody looks at the result of setConfigValue.
SetWalletAPI(t, v) ==
    /\ ready /\ at[GUI].pc = "idle"
    /\ Call(t, "lock", v)
    /\ UNCHANGED <<configDB, stored, live, owner, ready, refused, raced, broken>>

AfterLock(t) == IF t = GUI THEN "enter" ELSE "store"

LockSetter_Not(t) ==
    /\ at[t].pc = "lock"
    /\ GoOn(t, AfterLock(t))
    /\ UNCHANGED <<configDB, stored, live, owner, calls, ready, refused, raced, broken>>

LockSetter(t) ==
    /\ at[t].pc = "lock"
    /\ Lock("QmlSystem", t)
    /\ GoOn(t, AfterLock(t))
    /\ UNCHANGED <<configDB, stored, live, calls, ready, refused, raced, broken>>

SetConfigValue(t) ==
    /\ at[t].pc = "store"
    /\ \/ /\ configDB = "open" /\ stored' = at[t].value
          /\ GoOn(t, "enter") /\ UNCHANGED <<refused, broken>>
       \/ /\ configDB = "open" /\ refused' = TRUE
          /\ GoOn(t, "enter") /\ UNCHANGED <<stored, broken>>
       \/ /\ configDB = "NULL" /\ broken' = TRUE
          /\ at' = [u \in Worker |-> Idle] /\ UNCHANGED <<stored, refused>>
    /\ UNCHANGED <<configDB, live, owner, calls, ready, raced>>
-----------------------------------------------------------------------------
\* httpGetRequest copies the parts.
Request(t) ==
    /\ ready /\ Call(t, "request", Unset)
    /\ UNCHANGED <<configDB, stored, live, owner, ready, refused, raced, broken>>

CopyStart(t) ==
    /\ at[t].pc = "request"
    /\ Lock("API", t)
    /\ at' = [at EXCEPT ![t].pc = "copy", ![t].left = Parts]
    /\ UNCHANGED <<configDB, stored, live, calls, ready, refused, raced, broken>>

CopyPart(t) ==
    LET p == Head(at[t].left) IN
    /\ at[t].pc = "copy"
    /\ at' = [at EXCEPT ![t].left = Tail(@), ![t].copy[p] = live[p],
                        ![t].pc = IF Len(at[t].left) = 1 THEN "send" ELSE "copy"]
    /\ IF Len(at[t].left) = 1 THEN Unlock("API") ELSE UNCHANGED owner
    /\ UNCHANGED <<configDB, stored, live, calls, ready, refused, raced, broken>>

Send(t) ==
    /\ at[t].pc = "send"
    /\ at' = [at EXCEPT ![t] = Idle]
    /\ UNCHANGED <<configDB, stored, live, owner, calls, ready, refused, raced, broken>>
-----------------------------------------------------------------------------
\* loadConfigDB: the wallet is opened, or the accounts screen is.
LoadConfigDB ==
    /\ Call(GUI, "open", Unset)
    /\ configDB' = "NULL"
    /\ raced' = (raced \/ \E t \in Task : at[t].value # Unset)
    /\ UNCHANGED <<stored, live, owner, ready, refused, broken>>

\* A wallet whose setting is missing gets the default.
OpenConfigDB ==
    /\ at[GUI].pc = "open"
    /\ \/ /\ configDB' = "open"
          /\ stored' = (IF stored = Unset THEN Public ELSE stored)
          /\ GoOn(GUI, "read") /\ UNCHANGED refused
       \/ /\ refused' = TRUE /\ GoOn(GUI, "idle")
          /\ UNCHANGED <<configDB, stored>>
    /\ UNCHANGED <<live, owner, calls, ready, raced, broken>>

\* The old node is replaced by the default, in the database too.
ReadConfig ==
    LET v == IF stored = Legacy THEN Public ELSE stored IN
    /\ at[GUI].pc = "read"
    /\ stored' = v
    /\ at' = [at EXCEPT ![GUI].pc = "lock", ![GUI].value = v]
    /\ UNCHANGED <<configDB, live, owner, calls, ready, refused, raced, broken>>

ThreadStep(t) ==
    \/ LockSetter(t) \/ SetConfigValue(t) \/ Enter(t) \/ WritePart(t) \/ Leave(t)
    \/ CopyStart(t) \/ CopyPart(t) \/ Send(t)
    \/ t = GUI /\ (OpenConfigDB \/ ReadConfig)

ApiNext ==
    \/ LoadConfigDB
    \/ \E t \in Task : Request(t) \/ \E v \in Node : SetWalletAPI(t, v)
    \/ \E t \in Worker : ThreadStep(t)

ApiSpec == ApiInit /\ [][ApiNext]_apiVars
-----------------------------------------------------------------------------
\* Properties

\* Types; who writes or copies the parts holds the apiMutex of API.cpp.
ApiTypeOK ==
    /\ stored \in Setting \cup {Unset} /\ live \in [Part -> Setting \cup {Unset}]
    /\ \A t \in Worker : at[t].pc \in {"write", "copy"} => owner[ApiMutex("API")] = t

\* "Mutex to prevent concurrent threads to access the static members above at the same
\* time": a request goes to host, port and target of one setting, although the setter
\* of QmlSystem.cpp locks another mutex of that name.
EndpointWhole ==
    \A t \in Worker : at[t].pc = "send" => \E v \in Setting : \A p \in Part : at[t].copy[p] = v

\* Loading does not wait for the setters under way.  Unless one is, or the database
\* fails, no task uses a closed database, and at rest the live node is the one in the
\* database, however setters interleave.
LiveIsStored ==
    ~refused /\ ~raced =>
       /\ ~broken
       /\ ready /\ (\A t \in Worker : at[t].value = Unset) => \A p \in Part : live[p] = stored

\* A setter comes to its end: it holds both mutexes named apiMutex at once, which only
\* works because they are two.
SetterEnds == \A t \in Worker : at[t].pc = "lock" ~> at[t].pc = "idle"
=============================================================================
