------------------------------ MODULE Requests ------------------------------
(***************************************************************************)
(* The request builder of panels and DApps: requestList of one requestID,  *)
(* the timer of the panel that clears it, builds its requests one by one   *)
(* and posts doAPIRequests to the pool, and the replies, which the panel   *)
(* puts into its fields by their ids.  A task takes the list when it comes *)
(* to run: that may be in the middle of what a later tick of the timer     *)
(* builds.  Every access of the list holds requestListLock.                *)
(***************************************************************************)
EXTENDS Naturals, Sequences

CONSTANTS
    Panel,      \* what a tick builds: the number of requests of each build call
    MaxTicks    \* bound: ticks of the timer

ASSUME RequestsAssumption == MaxTicks \in Nat /\ Panel \in Seq({1, 2, 3}) /\ Panel # <<>>

VARIABLES
    requestList,  \* requests [id, call, tick]
    ticks,        \* ticks so far
    call,         \* build call the GUI thread is at, 0 between ticks
    posted,       \* tasks of doAPIRequests, by tick: [pc, batch]
    field,        \* call whose reply stands where each call's reply belongs
    overtaken     \* history: a task ran in the middle of a tick

reqVars == <<requestList, ticks, call, posted, field, overtaken>>

Calls == 1..Len(Panel)
Ticks == 1..MaxTicks
NoReply == 0
NotPosted == [pc |-> "none", batch |-> <<>>]

\* The id under which the panel looks for the reply to a call.
place[k \in Calls] == IF k = 1 THEN 1 ELSE place[k - 1] + Panel[k - 1]

ReqInit ==
    /\ requestList = <<>> /\ ticks = 0 /\ call = 0
    /\ posted = [t \in Ticks |-> NotPosted]
    /\ field = [k \in Calls |-> NoReply]
    /\ overtaken = FALSE

ClearAPIRequests_Not ==
    /\ call = 0 /\ ticks < MaxTicks
    /\ ticks' = ticks + 1 /\ call' = 1
    /\ UNCHANGED <<requestList, posted, field, overtaken>>

ClearAPIRequests ==
    /\ call = 0 /\ ticks < MaxTicks
    /\ requestList' = <<>>
    /\ ticks' = ticks + 1 /\ call' = 1
    /\ UNCHANGED <<posted, field, overtaken>>

\* All requests of one call get the same id, the next one.
NextId == Len(requestList) + 1

Build ==
    /\ call \in Calls
    /\ requestList' = requestList \o
          [j \in 1..Panel[call] |-> [id |-> NextId, call |-> call, tick |-> ticks]]
    /\ call' = call + 1
    /\ UNCHANGED <<ticks, posted, field, overtaken>>

DoAPIRequests ==
    /\ call = Len(Panel) + 1
    /\ posted' = [posted EXCEPT ![ticks].pc = "queued"]
    /\ call' = 0
    /\ UNCHANGED <<requestList, ticks, field, overtaken>>

\* The pool task.  Without requests the batch is "null".
Take_Keeps(t) ==
    /\ posted[t].pc = "queued"
    /\ posted' = [posted EXCEPT ![t] = [pc |-> "sent", batch |-> requestList]]
    /\ overtaken' = (overtaken \/ call # 0)
    /\ UNCHANGED <<requestList, ticks, call, field>>

Take(t) ==
    /\ posted[t].pc = "queued"
    /\ posted' = [posted EXCEPT ![t] = [pc |-> "sent", batch |-> requestList]]
    /\ requestList' = <<>>
    /\ overtaken' = (overtaken \/ call # 0)
    /\ UNCHANGED <<ticks, call, field>>

\* A request that cannot be written as JSON: the list stays.
TakeThrows(t) ==
    /\ posted[t].pc = "queued" /\ requestList # <<>>
    /\ posted' = [posted EXCEPT ![t].pc = "thrown"]
    /\ UNCHANGED <<requestList, ticks, call, field, overtaken>>

\* httpGetRequest returns the reply, or nothing.
HttpGetRequest(t) ==
    /\ posted[t].pc = "sent"
    /\ \E pc \in {"replied", "failed"} : posted' = [posted EXCEPT ![t].pc = pc]
    /\ UNCHANGED <<requestList, ticks, call, field, overtaken>>

\* onApiRequestAnswered, between two ticks; replies come in any order of the batch.
Answered(t) ==
    LET replies == {posted[t].batch[i] : i \in 1..Len(posted[t].batch)} IN
    /\ call = 0 /\ posted[t].pc \in {"replied", "failed", "thrown"}
    /\ posted' = [posted EXCEPT ![t].pc = IF @ = "thrown" THEN "error" ELSE "ended"]
    /\ IF posted[t].pc = "replied"
       THEN field' = [k \in Calls |->
               IF \E r \in replies : r.id = place[k]
               THEN (CHOOSE r \in replies : r.id = place[k]).call ELSE field[k]]
       ELSE UNCHANGED field
    /\ UNCHANGED <<requestList, ticks, call, overtaken>>

ReqNext ==
    \/ ClearAPIRequests \/ Build \/ DoAPIRequests
    \/ \E t \in Ticks : Take(t) \/ TakeThrows(t) \/ HttpGetRequest(t) \/ Answered(t)

ReqSpec == ReqInit /\ [][ReqNext]_reqVars
-----------------------------------------------------------------------------
\* Properties

\* Types; the list holds requests of one tick only.
ReqTypeOK ==
    /\ ticks \in 0..MaxTicks /\ call \in 0..Len(Panel) + 1
    /\ \A i \in 1..Len(requestList) : requestList[i].call \in Calls /\ requestList[i].tick = ticks
    /\ \A k \in Calls : field[k] \in Calls \cup {NoReply}

\* However ticks and tasks interleave, no request is sent twice, and the ids of a batch
\* tell its calls apart.  "filter the requests appropriately through QML to avoid writing
\* in the wrong places": a reply is put into the field of its call unless a task of an
\* earlier tick took the list in the middle of a later one, whose other requests then
\* start again at id 1.
RightPlaces ==
    /\ \A t, u \in Ticks : \A i \in DOMAIN posted[t].batch, j \in DOMAIN posted[u].batch :
          LET a == posted[t].batch[i]  b == posted[u].batch[j] IN
          IF t = u THEN a.id = b.id <=> a.call = b.call
          ELSE <<a.call, a.tick>> # <<b.call, b.tick>>
    /\ overtaken \/ \A k \in Calls : field[k] \in {k, NoReply}
=============================================================================
