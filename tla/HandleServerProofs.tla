------------------------- MODULE HandleServerProofs -------------------------
(***************************************************************************)
(* handleServer with any number of requests, connections, websites and     *)
(* accounts, under a GUI that may call any entry point at any time.        *)
(***************************************************************************)
EXTENDS HandleServer, SequenceTheorems, TLAPS

\* The mutexes each kind of prompt uses.
LEMMA Names ==
    /\ InputRequest["PL"] = "PLuserInputRequest"
    /\ InputRequest["RT"] = "RTuserInputRequest"
    /\ InputRequest["RS"] = "RSuserInputRequest"
    /\ InputAnswer["PL"] = "PLuserInputAnswer"
    /\ InputAnswer["RT"] = "RTuserInputAnswer"
    /\ InputAnswer["RS"] = "RSuserInputAnswer"
    /\ RequestMutex["RT"] = "requestTransactionMutex"
    /\ RequestMutex["RS"] = "requestSignMutex"
    /\ \A r \in Req : KindOf(r) \in {"RT", "RS"}
BY DEF InputRequest, InputAnswer, RequestMutex, KindOf

\* Locking a mutex keeps the owner table well formed.
LEMMA AcquireType ==
    ASSUME TypeOK, NEW r \in Req, NEW m \in Mutex, Acquire(r, m)
    PROVE  owner' \in [Mutex -> Req \cup {Nobody}]
BY DEF TypeOK, Acquire

\* Unlocking mutexes keeps the owner table well formed.
LEMMA ReleaseType ==
    ASSUME TypeOK, NEW ms, Release(ms)
    PROVE  owner' \in [Mutex -> Req \cup {Nobody}]
BY DEF TypeOK, Release

\* A step that only locks keeps the types.
LEMMA LockStepType ==
    ASSUME TypeOK, NEW r \in Req, NEW from, from # "idle", NEW m \in Mutex, NEW to \in Label,
           LockStep(r, from, m, to)
    PROVE  TypeOK'
<1>1. owner' \in [Mutex -> Req \cup {Nobody}]
    BY AcquireType DEF LockStep
<1>2. pc' \in [Req -> Label] /\ \A q \in Req : pc'[q] # "idle" => pc[q] # "idle"
    BY DEF TypeOK, LockStep, Goto
<1> QED BY <1>1, <1>2 DEF TypeOK, LockStep, gui, accounts

\* Leaving the permission block keeps the types.
LEMMA PermittedType ==
    ASSUME TypeOK, NEW r \in Req, pc[r] # "idle", NEW yes \in BOOLEAN,
           Permitted(r, yes)
    PROVE  /\ pc' \in [Req -> Label]
           /\ \A q \in Req : pc'[q] # "idle" => pc[q] # "idle"
           /\ session' \in [Session -> {"new", "open", "closed"}]
BY ConstantsAssumption DEF TypeOK, Permitted, Goto, Label

\* The part of TypeOK that is about the handlers.
LEMMA HandlerType ==
    ASSUME TypeOK, NEW r \in Req, Handler(r)
    PROVE  TypeOK'
<1> USE Names DEF Mutex, OwnedMutex, AnswerMutex, Label, Thrown
<1>1. CASE AnswerDirectly(r)
  <2>1. DirectAnswer[req[r].method] \in Response
      BY <1>1 DEF AnswerDirectly, DirectAnswer, Response, Plain, Error, None
  <2> QED BY <1>1, <2>1 DEF TypeOK, AnswerDirectly, Goto, gui, accounts
<1>2. CASE NeedPermission(r)
  <2>1. Result(account) \in Response /\ None \in Response
      BY DEF TypeOK, Response, Result
  <2> QED BY <1>2, <2>1 DEF TypeOK, NeedPermission, Goto, gui, accounts
<1>3. CASE ForwardToApi(r)
    BY <1>3 DEF TypeOK, ForwardToApi, Goto, gui, accounts
<1>4. CASE ApiReply(r)
  <2>1. Plain("api") \in Response
      BY DEF Response
  <2>2. pc' \in [Req -> Label] /\ \A q \in Req : pc'[q] # "idle" => pc[q] # "idle"
      BY <1>4 DEF TypeOK, ApiReply, Goto
  <2>3. response' \in [Req -> Response]
      BY <1>4, <2>1 DEF TypeOK, ApiReply
  <2>4. UNCHANGED <<req, sent, session, owner, signals, gui>>
      BY <1>4 DEF ApiReply
  <2> QED BY <2>2, <2>3, <2>4 DEF TypeOK, gui, accounts
<1>5. CASE LockPermissionList(r)
    BY <1>5, LockStepType DEF LockPermissionList
<1>6. CASE ScanPermissionList(r)
  <2>1. CASE Known(r) = "unset"
      BY <1>6, <2>1 DEF TypeOK, ScanPermissionList, Goto, gui, accounts
  <2>2. CASE Known(r) # "unset"
    <3>1. owner' \in [Mutex -> Req \cup {Nobody}]
        BY <1>6, <2>2, ReleaseType DEF ScanPermissionList
    <3>2. /\ pc' \in [Req -> Label]
          /\ \A q \in Req : pc'[q] # "idle" => pc[q] # "idle"
          /\ session' \in [Session -> {"new", "open", "closed"}]
        BY <1>6, <2>2, PermittedType DEF ScanPermissionList
    <3> QED BY <1>6, <3>1, <3>2 DEF TypeOK, ScanPermissionList, gui, accounts
  <2> QED BY <2>1, <2>2
<1>7. CASE LockGlobalForPermission(r)
    BY <1>7, LockStepType DEF LockGlobalForPermission
<1>8. CASE LockPermissionRequest(r)
    BY <1>8, LockStepType DEF LockPermissionRequest
<1>9. CASE AskForPermission(r)
  <2>1. signals' \in Seq([kind : Kind, req : Req])
      BY <1>9 DEF TypeOK, AskForPermission, Emit, Kind
  <2> QED BY <1>9, <2>1 DEF TypeOK, AskForPermission, Goto, gui, accounts
<1>10. CASE LockPermissionAnswer(r)
  <2>1. owner' \in [Mutex -> Req \cup {Nobody}]
      BY <1>10, AcquireType DEF LockPermissionAnswer, ArmAnswer
  <2> QED BY <1>10, <2>1 DEF TypeOK, LockPermissionAnswer, ArmAnswer, Goto, accounts
<1>11. CASE WaitPermissionAnswer(r)
    BY <1>11, LockStepType DEF WaitPermissionAnswer
<1>12. CASE RescanPermissionList(r)
  <2>1. owner' \in [Mutex -> Req \cup {Nobody}]
      BY <1>12, ReleaseType DEF RescanPermissionList
  <2>2. /\ pc' \in [Req -> Label]
        /\ \A q \in Req : pc'[q] # "idle" => pc[q] # "idle"
        /\ session' \in [Session -> {"new", "open", "closed"}]
      BY <1>12, PermittedType DEF RescanPermissionList
  <2> QED BY <1>12, <2>1, <2>2 DEF TypeOK, RescanPermissionList, gui, accounts
<1>13. CASE LockGlobal(r)
    BY <1>13, LockStepType DEF LockGlobal
<1>14. CASE LockRequestMutex(r)
    BY <1>14, LockStepType DEF LockRequestMutex
<1>15. CASE LockInputRequest(r)
    BY <1>15, LockStepType DEF LockInputRequest
<1>16. CASE LockInputAnswer(r)
  <2>1. owner' \in [Mutex -> Req \cup {Nobody}]
      BY <1>16, AcquireType DEF LockInputAnswer, ArmAnswer
  <2> QED BY <1>16, <2>1 DEF TypeOK, LockInputAnswer, ArmAnswer, Goto, accounts
<1>17. CASE AskUser(r)
  <2>1. signals' \in Seq([kind : Kind, req : Req])
      BY <1>17 DEF TypeOK, AskUser, Emit, Kind
  <2> QED BY <1>17, <2>1 DEF TypeOK, AskUser, Goto, gui, accounts
<1>18. CASE MissingField(r)
    BY <1>18 DEF TypeOK, MissingField, Goto, gui, accounts
<1>19. CASE WaitInputAnswer(r)
    BY <1>19, LockStepType DEF WaitInputAnswer
<1>20. CASE ReadStatus(r)
  <2>1. owner' \in [Mutex -> Req \cup {Nobody}]
      BY <1>20, ReleaseType DEF ReadStatus
  <2>2. /\ Error(4001) \in Response
        /\ \A v \in Answer : Result(v) \in Response
      BY DEF Response, Result
  <2>3. response' \in [Req -> Response]
      BY <1>20, <2>2 DEF TypeOK, ReadStatus
  <2> QED BY <1>20, <2>1, <2>3 DEF TypeOK, ReadStatus, Goto, gui, accounts
<1>21. CASE LockPosRequest(r)
    BY <1>21, LockStepType DEF LockPosRequest
<1>22. CASE WriteResponse(r)
  <2>1. owner' \in [Mutex -> Req \cup {Nobody}]
      BY <1>22, ReleaseType DEF WriteResponse
  <2> QED BY <1>22, <2>1 DEF TypeOK, WriteResponse, Goto, gui, accounts
<1>23. CASE ScanThrows(r)
    BY <1>23 DEF TypeOK, gui, accounts, ScanThrows, Goto
<1>24. CASE AskThrows(r)
    BY <1>24 DEF TypeOK, gui, accounts, AskThrows, Goto
<1> QED
    BY <1>1, <1>2, <1>3, <1>4, <1>5, <1>6, <1>7, <1>8, <1>9, <1>10, <1>11, <1>12,
       <1>13, <1>14, <1>15, <1>16, <1>17, <1>18, <1>19, <1>20, <1>21, <1>22, <1>23, <1>24
       DEF Handler

\* The entry points the GUI calls keep the types.
LEMMA GuiType ==
    ASSUME TypeOK, GuiStep
    PROVE  TypeOK'
<1> USE ConstantsAssumption, Names DEF gui, accounts
<1>l. /\ EmptyList \in PermissionList
      /\ \A w \in Wallet : LoadPermissionList(w) \in PermissionList
    BY DEF TypeOK, EmptyList, PermissionList, LoadPermissionList
<1>s. ASSUME NEW list \in PermissionList, SetPermissionList(list)
      PROVE  permissionList' \in PermissionList /\ consented' \subseteq Req
    BY <1>s DEF TypeOK, SetPermissionList
<1>1. ASSUME NEW o \in Origin, NEW b \in BOOLEAN, AddToPermissionList(o, b),
             UNCHANGED <<session, signals>>, UNCHANGED <<pc, req, response, sent>>
      PROVE  TypeOK'
  <2> DEFINE stored == IF config[wallet] = NotFound THEN EmptyList ELSE config[wallet]
             new == [stored EXCEPT ![o] = IF b THEN "allow" ELSE "deny"]
  <2>1. stored \in PermissionList
      BY <1>l DEF TypeOK
  <2>2. new \in PermissionList
      BY <2>1 DEF PermissionList
  <2>3. config' \in [Wallet -> PermissionList \cup {NotFound}]
      BY <1>1, <2>2 DEF TypeOK, AddToPermissionList
  <2>4. permissionList' \in PermissionList /\ consented' \subseteq Req
      BY <1>1, <1>s, <2>2 DEF AddToPermissionList
  <2>5. owner' \in [Mutex -> Req \cup {Nobody}]
      BY <1>1, ReleaseType DEF AddToPermissionList
  <2> QED BY <1>1, <2>3, <2>4, <2>5 DEF TypeOK, AddToPermissionList, Kind
<1>2. CASE /\ ClearWebsitePermissionList
           /\ UNCHANGED <<session, owner, signals, pc, req, response, sent>>
    BY <1>2, <1>l, <1>s DEF TypeOK, ClearWebsitePermissionList
<1>3. ASSUME NEW k \in {"RT", "RS"}, NEW v \in Answer \cup {Refused},
             RequestedStatus(k, v),
             UNCHANGED <<session, signals>>, UNCHANGED <<pc, req, response, sent>>
      PROVE  TypeOK'
  <2>1. owner' \in [Mutex -> Req \cup {Nobody}]
      BY <1>3, ReleaseType DEF RequestedStatus
  <2> QED BY <1>3, <2>1 DEF TypeOK, RequestedStatus, Kind
<1>4. ASSUME NEW a \in Account, ChooseAccount(a),
             UNCHANGED <<owner, signals>>, UNCHANGED <<pc, req, response, sent>>
      PROVE  TypeOK'
    BY <1>4 DEF TypeOK, ChooseAccount, StopServer
<1>5. ASSUME NEW w \in Wallet, LoadWallet(w),
             UNCHANGED <<owner, signals>>, UNCHANGED <<pc, req, response, sent>>
      PROVE  TypeOK'
  <2>1. permissionList' \in PermissionList /\ consented' \subseteq Req
      BY <1>5, <1>l, <1>s DEF LoadWallet
  <2>2. /\ account' \in Account \cup {NoAccount} /\ chosen' \in Account
        /\ serving' \in BOOLEAN
      BY <1>5 DEF TypeOK, LoadWallet
  <2> QED BY <1>5, <2>1, <2>2 DEF TypeOK, LoadWallet
<1>7. CASE /\ CloseWallet
           /\ UNCHANGED <<session, owner, signals, serving, status, permissionList, config,
                          wallet, chosen, answered, consented, pc, req, response, sent>>
    BY <1>7 DEF TypeOK, CloseWallet
<1>8. CASE StopForWallet /\ UNCHANGED <<owner, signals, pc, req, response, sent>>
    BY <1>8 DEF TypeOK, StopForWallet, StopServer
<1>6. CASE /\ signals # <<>> /\ signals' = Tail(signals)
           /\ UNCHANGED <<session, owner, gui>> /\ UNCHANGED <<pc, req, response, sent>>
    BY <1>6 DEF TypeOK
<1> QED BY <1>1, <1>2, <1>3, <1>4, <1>5, <1>6, <1>7, <1>8 DEF GuiStep

\* Every step keeps the types.
LEMMA TypeStep == TypeOK /\ [Next]_vars => TypeOK'
<1> SUFFICES ASSUME TypeOK, [Next]_vars PROVE TypeOK'
    OBVIOUS
<1>1. ASSUME NEW s \in Session, Connect(s) PROVE TypeOK'
    BY <1>1 DEF TypeOK, Connect, server, gui, accounts
<1>2. ASSUME NEW r \in Req, NEW q \in Message, Receive(r, q) PROVE TypeOK'
    BY <1>2, ConstantsAssumption DEF TypeOK, Receive, Message, Goto, Label, accounts
<1>3. ASSUME NEW r \in Req, Handler(r) PROVE TypeOK'
    BY <1>3, HandlerType
<1>4. CASE GuiStep
    BY <1>4, GuiType
<1>5. CASE UNCHANGED vars
    BY <1>5 DEF TypeOK, vars, server, gui, accounts
<1> QED BY <1>1, <1>2, <1>3, <1>4, <1>5 DEF Next

\* The types hold at the start.
LEMMA TypeInit == Init => TypeOK
<1> SUFFICES ASSUME Init PROVE TypeOK
    OBVIOUS
<1>1. EmptyList \in PermissionList /\ None \in Response
    BY DEF EmptyList, PermissionList, Response
<1>2. config \in [Wallet -> PermissionList \cup {NotFound}]
    BY ConstantsAssumption DEF Init, PermissionList
<1> QED BY <1>1, <1>2 DEF Init, TypeOK, Label, Thrown, NoMessage

\* handleServer, QmlSystem's fields and its mutexes keep their types, and a
\* refusal never reaches the plugin as a result.
THEOREM TypeCorrect == Spec => []TypeOK
BY TypeInit, TypeStep, PTL DEF Spec

\* A handler keeps its books: whatever it locks or unlocks matches the region
\* of handleServer it enters or leaves.
LEMMA HandlerLocks ==
    ASSUME TypeOK, LockOwnership, NEW r \in Req, Handler(r)
    PROVE  LockOwnership'
<1> USE ConstantsAssumption, Names
    DEF TypeOK, LockOwnership, Held, KindOf, Mutex, OwnedMutex, AnswerMutex,
        InPermission, InPermissionPrompt, InPrompt
<1>1. CASE AnswerDirectly(r)
    BY <1>1 DEF AnswerDirectly, Goto
<1>2. CASE NeedPermission(r)
    BY <1>2 DEF NeedPermission, Goto
<1>3. CASE ForwardToApi(r)
    BY <1>3 DEF ForwardToApi, Goto
<1>4. CASE ApiReply(r)
    BY <1>4 DEF ApiReply, Goto
<1>5. CASE LockPermissionList(r)
    BY <1>5 DEF LockPermissionList, LockStep, Acquire, Goto
<1>6. CASE ScanPermissionList(r)
    BY <1>6 DEF ScanPermissionList, Known, Permitted, Release, Goto
<1>7. CASE LockGlobalForPermission(r)
    BY <1>7 DEF LockGlobalForPermission, LockStep, Acquire, Goto
<1>8. CASE LockPermissionRequest(r)
    BY <1>8 DEF LockPermissionRequest, LockStep, Acquire, Goto
<1>9. CASE AskForPermission(r)
    BY <1>9 DEF AskForPermission, Goto
<1>10. CASE LockPermissionAnswer(r)
    BY <1>10 DEF LockPermissionAnswer, ArmAnswer, Acquire, Goto
<1>11. CASE WaitPermissionAnswer(r)
    BY <1>11 DEF WaitPermissionAnswer, LockStep, Acquire, Goto
<1>12. CASE RescanPermissionList(r)
    BY <1>12 DEF RescanPermissionList, Permitted, Release, Goto
<1>13. CASE LockGlobal(r)
    BY <1>13 DEF LockGlobal, LockStep, Acquire, Goto
<1>14. CASE LockRequestMutex(r)
    BY <1>14 DEF LockRequestMutex, LockStep, Acquire, Goto
<1>15. CASE LockInputRequest(r)
    BY <1>15 DEF LockInputRequest, LockStep, Acquire, Goto
<1>16. CASE LockInputAnswer(r)
    BY <1>16 DEF LockInputAnswer, ArmAnswer, Acquire, Goto
<1>17. CASE AskUser(r)
    BY <1>17 DEF AskUser, Goto
<1>18. CASE MissingField(r)
    BY <1>18 DEF MissingField, Goto
<1>19. CASE WaitInputAnswer(r)
    BY <1>19 DEF WaitInputAnswer, LockStep, Acquire, Goto
<1>20. CASE ReadStatus(r)
    BY <1>20 DEF ReadStatus, Release, Goto
<1>21. CASE LockPosRequest(r)
    BY <1>21 DEF LockPosRequest, LockStep, Acquire, Goto
<1>22. CASE WriteResponse(r)
    BY <1>22 DEF WriteResponse, Release, Goto
<1>23. CASE ScanThrows(r)
    BY <1>23 DEF ScanThrows, Goto
<1>24. CASE AskThrows(r)
    BY <1>24 DEF AskThrows, Goto
<1> QED
    BY <1>1, <1>2, <1>3, <1>4, <1>5, <1>6, <1>7, <1>8, <1>9, <1>10, <1>11, <1>12,
       <1>13, <1>14, <1>15, <1>16, <1>17, <1>18, <1>19, <1>20, <1>21, <1>22, <1>23, <1>24
       DEF Handler

\* What the GUI may do to the mutexes: it unlocks answer mutexes only, and
\* leaves an answer for each one it unlocks.
LEMMA GuiUnlocks ==
    ASSUME TypeOK, GuiStep
    PROVE  /\ pc' = pc /\ req' = req /\ response' = response /\ sent' = sent
           /\ \A m \in OwnedMutex : owner'[m] = owner[m]
           /\ \A k \in Kind : owner'[InputAnswer[k]] # owner[InputAnswer[k]]
                               => k \in answered'
           /\ answered \subseteq answered'
<1> USE DEF Mutex, OwnedMutex, AnswerMutex, InputAnswer, Kind
<1> DEFINE Same == UNCHANGED <<pc, req, response, sent>>
<1>0. Same
    BY DEF GuiStep
<1>1. ASSUME NEW o \in Origin, NEW b \in BOOLEAN, AddToPermissionList(o, b)
      PROVE  /\ owner' = [m \in Mutex |-> IF m = InputAnswer["PL"] THEN Nobody ELSE owner[m]]
             /\ answered' = answered \cup {"PL"}
    BY <1>1 DEF AddToPermissionList, Release
<1>2. ASSUME NEW k \in {"RT", "RS"}, NEW v \in Answer \cup {Refused},
             RequestedStatus(k, v)
      PROVE  /\ owner' = [m \in Mutex |-> IF m = InputAnswer[k] THEN Nobody ELSE owner[m]]
             /\ answered' = answered \cup {k}
    BY <1>2 DEF RequestedStatus, Release
<1>3. CASE UNCHANGED <<owner, answered>>
    BY <1>0, <1>3
<1>4. ASSUME NEW k \in Kind, answered' = answered \cup {k},
             owner' = [m \in Mutex |-> IF m = InputAnswer[k] THEN Nobody ELSE owner[m]]
      PROVE  /\ \A m \in OwnedMutex : owner'[m] = owner[m]
             /\ \A j \in Kind : owner'[InputAnswer[j]] # owner[InputAnswer[j]]
                                 => j \in answered'
             /\ answered \subseteq answered'
    BY <1>4 DEF TypeOK
<1>5. \/ UNCHANGED <<owner, answered>>
      \/ \E o \in Origin, b \in BOOLEAN : AddToPermissionList(o, b)
      \/ \E k \in {"RT", "RS"}, v \in Answer \cup {Refused} : RequestedStatus(k, v)
    BY DEF GuiStep, ClearWebsitePermissionList, ChooseAccount, CloseWallet, StopForWallet,
       LoadWallet, gui, accounts
<1> QED BY <1>0, <1>1, <1>2, <1>3, <1>4, <1>5

\* So nobody loses a mutex to the GUI.
LEMMA GuiLocks ==
    ASSUME TypeOK, LockOwnership, GuiStep
    PROVE  LockOwnership'
BY GuiUnlocks DEF LockOwnership, Held, KindOf

\* Every step keeps locks and regions in agreement.
LEMMA LocksStep == TypeOK /\ LockOwnership /\ [Next]_vars => LockOwnership'
<1> SUFFICES ASSUME TypeOK, LockOwnership, [Next]_vars PROVE LockOwnership'
    OBVIOUS
<1>1. ASSUME NEW s \in Session, Connect(s) PROVE LockOwnership'
    BY <1>1 DEF Connect, server, LockOwnership, Held, KindOf
<1>2. ASSUME NEW r \in Req, NEW q \in Message, Receive(r, q) PROVE LockOwnership'
    BY <1>2 DEF Receive, Goto, TypeOK, LockOwnership, Held, KindOf,
       InPermission, InPermissionPrompt, InPrompt
<1>3. ASSUME NEW r \in Req, Handler(r) PROVE LockOwnership'
    BY <1>3, HandlerLocks
<1>4. CASE GuiStep
    BY <1>4, GuiLocks
<1>5. CASE UNCHANGED vars
    BY <1>5 DEF vars, server, LockOwnership, Held, KindOf
<1> QED BY <1>1, <1>2, <1>3, <1>4, <1>5 DEF Next

\* On every path through handleServer a handler owns exactly the mutexes of the
\* regions it is in, whatever the GUI does.
THEOREM LocksMatch == Spec => []LockOwnership
<1>1. Init => LockOwnership
    BY ConstantsAssumption DEF Init, LockOwnership, Held, Mutex, OwnedMutex,
       InPermission, InPermissionPrompt, InPrompt
<1> QED BY <1>1, TypeInit, TypeStep, LocksStep, PTL DEF Spec

\* Two handlers in front of the user would both own globalUserInputRequest.
LEMMA OnePrompt == LockOwnership => PromptExclusion
<1> SUFFICES ASSUME LockOwnership, NEW r \in Req, NEW q \in Req,
                    Prompting(r), Prompting(q)
             PROVE  r = q
    BY DEF PromptExclusion
<1>1. Held(r, "globalUserInputRequest") /\ Held(q, "globalUserInputRequest")
    BY DEF Prompting, Held, InPermissionPrompt, InPrompt
<1> QED BY <1>1 DEF LockOwnership, OwnedMutex

\* At most one handler has a question in front of the user at any time.
THEOREM PromptsExclude == Spec => []PromptExclusion
BY LocksMatch, OnePrompt, PTL
-----------------------------------------------------------------------------
\* Between its two locks of an answer mutex a handler either still owns the
\* mutex or has been answered.
Armed ==
    \A r \in Req :
       /\ pc[r] \in {"ask", "wait"} =>
             KindOf(r) \in answered \/ owner[InputAnswer[KindOf(r)]] = r
       /\ pc[r] = "plWait" => "PL" \in answered \/ owner[InputAnswer["PL"]] = r

Waiting == Armed /\ NoStaleAnswer

\* A handler between "request" and "read" excludes every other one.
LEMMA Alone ==
    ASSUME LockOwnership, NEW r \in Req, NEW q \in Req,
           pc[r] \in InPermissionPrompt \cup InPrompt,
           pc[q] \in InPermissionPrompt \cup InPrompt
    PROVE  r = q
<1>1. Held(r, "globalUserInputRequest") /\ Held(q, "globalUserInputRequest")
    BY DEF Held
<1> QED BY <1>1 DEF LockOwnership, OwnedMutex

\* A handler's step leaves nobody waiting without an owner or an answer.
LEMMA HandlerWaits ==
    ASSUME TypeOK, LockOwnership, Waiting, NEW r \in Req, Handler(r)
    PROVE  Waiting'
<1> USE ConstantsAssumption, Names, Alone
    DEF TypeOK, Waiting, Armed, NoStaleAnswer, KindOf, Mutex, OwnedMutex,
        AnswerMutex, InPermission, InPermissionPrompt, InPrompt, gui, accounts
<1>1. CASE AnswerDirectly(r)
    BY <1>1 DEF AnswerDirectly, Goto
<1>2. CASE NeedPermission(r)
    BY <1>2 DEF NeedPermission, Goto
<1>3. CASE ForwardToApi(r)
    BY <1>3 DEF ForwardToApi, Goto
<1>4. CASE ApiReply(r)
    BY <1>4 DEF ApiReply, Goto
<1>5. CASE LockPermissionList(r)
    BY <1>5 DEF LockPermissionList, LockStep, Acquire, Goto
<1>6. CASE ScanPermissionList(r)
    BY <1>6 DEF ScanPermissionList, Known, Permitted, Release, Goto
<1>7. CASE LockGlobalForPermission(r)
    BY <1>7 DEF LockGlobalForPermission, LockStep, Acquire, Goto
<1>8. CASE LockPermissionRequest(r)
    BY <1>8 DEF LockPermissionRequest, LockStep, Acquire, Goto
<1>9. CASE AskForPermission(r)
    BY <1>9 DEF AskForPermission, Goto
<1>10. CASE LockPermissionAnswer(r)
    BY <1>10 DEF LockPermissionAnswer, ArmAnswer, Acquire, Goto
<1>11. CASE WaitPermissionAnswer(r)
    BY <1>11 DEF WaitPermissionAnswer, LockStep, Acquire, Goto
<1>12. CASE RescanPermissionList(r)
    BY <1>12 DEF RescanPermissionList, Permitted, Release, Goto
<1>13. CASE LockGlobal(r)
    BY <1>13 DEF LockGlobal, LockStep, Acquire, Goto
<1>14. CASE LockRequestMutex(r)
    BY <1>14 DEF LockRequestMutex, LockStep, Acquire, Goto
<1>15. CASE LockInputRequest(r)
    BY <1>15 DEF LockInputRequest, LockStep, Acquire, Goto
<1>16. CASE LockInputAnswer(r)
    BY <1>16 DEF LockInputAnswer, ArmAnswer, Acquire, Goto
<1>17. CASE AskUser(r)
    BY <1>17 DEF AskUser, Goto
<1>18. CASE MissingField(r)
    BY <1>18 DEF MissingField, Goto
<1>19. CASE WaitInputAnswer(r)
    BY <1>19 DEF WaitInputAnswer, LockStep, Acquire, Goto
<1>20. CASE ReadStatus(r)
    BY <1>20 DEF ReadStatus, Release, Goto
<1>21. CASE LockPosRequest(r)
    BY <1>21 DEF LockPosRequest, LockStep, Acquire, Goto
<1>22. CASE WriteResponse(r)
    BY <1>22 DEF WriteResponse, Release, Goto
<1>23. CASE ScanThrows(r)
    BY <1>23 DEF ScanThrows, Goto
<1>24. CASE AskThrows(r)
    BY <1>24 DEF AskThrows, Goto
<1> QED
    BY <1>1, <1>2, <1>3, <1>4, <1>5, <1>6, <1>7, <1>8, <1>9, <1>10, <1>11, <1>12,
       <1>13, <1>14, <1>15, <1>16, <1>17, <1>18, <1>19, <1>20, <1>21, <1>22, <1>23, <1>24
       DEF Handler

\* Every step keeps what waiting handlers rely on.
LEMMA WaitsStep ==
    TypeOK /\ LockOwnership /\ Waiting /\ [Next]_vars => Waiting'
<1> SUFFICES ASSUME TypeOK, LockOwnership, Waiting, [Next]_vars PROVE Waiting'
    OBVIOUS
<1> USE DEF Waiting, Armed, NoStaleAnswer, KindOf
<1>1. ASSUME NEW s \in Session, Connect(s) PROVE Waiting'
    BY <1>1 DEF Connect, server, gui, accounts
<1>2. ASSUME NEW r \in Req, NEW q \in Message, Receive(r, q) PROVE Waiting'
    BY <1>2 DEF Receive, Goto, TypeOK
<1>3. ASSUME NEW r \in Req, Handler(r) PROVE Waiting'
    BY <1>3, HandlerWaits
<1>4. CASE GuiStep
    BY <1>4, GuiUnlocks, Names DEF Kind
<1>5. CASE UNCHANGED vars
    BY <1>5 DEF vars, server, gui, accounts
<1> QED BY <1>1, <1>2, <1>3, <1>4, <1>5 DEF Next

\* A handler reads RTtxid, RSmsg or the permission list after the wait only when
\* the GUI has answered since the handler locked its answer mutex for the first time.
THEOREM AnswersAreFresh == Spec => []NoStaleAnswer
<1>1. Init => Waiting
    BY DEF Init, Waiting, Armed, NoStaleAnswer
<1>2. Spec => []Waiting
    BY <1>1, TypeCorrect, LocksMatch, WaitsStep, PTL DEF Spec
<1>3. Waiting => NoStaleAnswer
    BY DEF Waiting
<1> QED BY <1>2, <1>3, PTL
-----------------------------------------------------------------------------
\* Where a handler can be, by the method it serves.
Routes ==
    \A r \in Req :
       /\ pc[r] = "api" => req[r].method = "other"
       /\ pc[r] \in InPermission \cup {"listLock"} => Protected(req[r].method)
       /\ pc[r] \in InPrompt \cup {"global"} =>
             req[r].method \in {"eth_sendTransaction", "eth_sign"}
       /\ r \in sent => pc[r] = "done"
       /\ pc[r] \in {"plLock", "plWait", "plRescan"} => req[r].origin \in Origin

\* Past the permission block the website had been allowed while the handler ran;
\* "allow" on the list is noticed for every handler that runs.
Consent ==
    /\ \A r \in Req : Running(r) /\ Allows(permissionList, req[r].origin)
                       => r \in consented
    /\ \A r \in Req : /\ pc[r] \in InPrompt \cup {"global", "posLock", "write"}
                       /\ Protected(req[r].method)
                       => r \in consented
    /\ ConsentBeforeDisclosure

\* A handler's step stays on its route.
LEMMA HandlerRoutes ==
    ASSUME TypeOK, Routes, NEW r \in Req, Handler(r)
    PROVE  Routes'
<1> USE DEF TypeOK, Routes, Protected, InPermission, InPermissionPrompt, InPrompt
<1>1. CASE AnswerDirectly(r)
    BY <1>1 DEF AnswerDirectly, Goto, DirectAnswer
<1>2. CASE NeedPermission(r)
    BY <1>2 DEF NeedPermission, Goto
<1>3. CASE ForwardToApi(r)
    BY <1>3 DEF ForwardToApi, Goto
<1>4. CASE ApiReply(r)
    BY <1>4 DEF ApiReply, Goto
<1>5. CASE LockPermissionList(r)
    BY <1>5 DEF LockPermissionList, LockStep, Acquire, Goto
<1>6. CASE ScanPermissionList(r)
    BY <1>6 DEF ScanPermissionList, Known, Permitted, Release, Goto
<1>7. CASE LockGlobalForPermission(r)
    BY <1>7 DEF LockGlobalForPermission, LockStep, Acquire, Goto
<1>8. CASE LockPermissionRequest(r)
    BY <1>8 DEF LockPermissionRequest, LockStep, Acquire, Goto
<1>9. CASE AskForPermission(r)
    BY <1>9 DEF AskForPermission, Goto
<1>10. CASE LockPermissionAnswer(r)
    BY <1>10 DEF LockPermissionAnswer, ArmAnswer, Acquire, Goto
<1>11. CASE WaitPermissionAnswer(r)
    BY <1>11 DEF WaitPermissionAnswer, LockStep, Acquire, Goto
<1>12. CASE RescanPermissionList(r)
    BY <1>12 DEF RescanPermissionList, Permitted, Release, Goto
<1>13. CASE LockGlobal(r)
    BY <1>13 DEF LockGlobal, LockStep, Acquire, Goto
<1>14. CASE LockRequestMutex(r)
    BY <1>14 DEF LockRequestMutex, LockStep, Acquire, Goto
<1>15. CASE LockInputRequest(r)
    BY <1>15 DEF LockInputRequest, LockStep, Acquire, Goto
<1>16. CASE LockInputAnswer(r)
    BY <1>16 DEF LockInputAnswer, ArmAnswer, Acquire, Goto
<1>17. CASE AskUser(r)
    BY <1>17 DEF AskUser, Goto
<1>18. CASE MissingField(r)
    BY <1>18 DEF MissingField, Goto
<1>19. CASE WaitInputAnswer(r)
    BY <1>19 DEF WaitInputAnswer, LockStep, Acquire, Goto
<1>20. CASE ReadStatus(r)
    BY <1>20 DEF ReadStatus, Release, Goto
<1>21. CASE LockPosRequest(r)
    BY <1>21 DEF LockPosRequest, LockStep, Acquire, Goto
<1>22. CASE WriteResponse(r)
    BY <1>22 DEF WriteResponse, Release, Goto
<1>23. CASE ScanThrows(r)
    BY <1>23 DEF ScanThrows, Goto
<1>24. CASE AskThrows(r)
    BY <1>24 DEF AskThrows, Goto
<1> QED
    BY <1>1, <1>2, <1>3, <1>4, <1>5, <1>6, <1>7, <1>8, <1>9, <1>10, <1>11, <1>12,
       <1>13, <1>14, <1>15, <1>16, <1>17, <1>18, <1>19, <1>20, <1>21, <1>22, <1>23, <1>24
       DEF Handler

\* Every step keeps handlers on their routes.
LEMMA RoutesStep == TypeOK /\ Routes /\ [Next]_vars => Routes'
<1> SUFFICES ASSUME TypeOK, Routes, [Next]_vars PROVE Routes'
    OBVIOUS
<1>1. ASSUME NEW s \in Session, Connect(s) PROVE Routes'
    BY <1>1 DEF Connect, server, Routes
<1>2. ASSUME NEW r \in Req, NEW q \in Message, Receive(r, q) PROVE Routes'
    BY <1>2 DEF Receive, Goto, TypeOK, Routes, InPermission, InPermissionPrompt, InPrompt
<1>3. ASSUME NEW r \in Req, Handler(r) PROVE Routes'
    BY <1>3, HandlerRoutes
<1>4. CASE GuiStep
    BY <1>4, GuiUnlocks DEF Routes
<1>5. CASE UNCHANGED vars
    BY <1>5 DEF vars, server, Routes
<1> QED BY <1>1, <1>2, <1>3, <1>4, <1>5 DEF Next

\* A handler passes the permission block only on an entry that says "allow".
LEMMA HandlerConsents ==
    ASSUME TypeOK, Routes, Consent, NEW r \in Req, Handler(r)
    PROVE  Consent'
<1> USE DEF TypeOK, Routes, Consent, ConsentBeforeDisclosure, Running, Allows, Thrown, Protected,
        InPermission, InPrompt, gui, accounts
<1>1. CASE AnswerDirectly(r)
    BY <1>1 DEF AnswerDirectly, Goto, DirectAnswer
<1>2. CASE NeedPermission(r)
    BY <1>2 DEF NeedPermission, Goto
<1>3. CASE ForwardToApi(r)
    BY <1>3 DEF ForwardToApi, Goto
<1>4. CASE ApiReply(r)
    BY <1>4 DEF ApiReply, Goto
<1>5. CASE LockPermissionList(r)
    BY <1>5 DEF LockPermissionList, LockStep, Acquire, Goto
<1>6. CASE ScanPermissionList(r)
    BY <1>6 DEF ScanPermissionList, Known, Permitted, Release, Goto
<1>7. CASE LockGlobalForPermission(r)
    BY <1>7 DEF LockGlobalForPermission, LockStep, Acquire, Goto
<1>8. CASE LockPermissionRequest(r)
    BY <1>8 DEF LockPermissionRequest, LockStep, Acquire, Goto
<1>9. CASE AskForPermission(r)
    BY <1>9 DEF AskForPermission, Goto
<1>10. CASE LockPermissionAnswer(r)
    BY <1>10 DEF LockPermissionAnswer, ArmAnswer, Acquire, Goto
<1>11. CASE WaitPermissionAnswer(r)
    BY <1>11 DEF WaitPermissionAnswer, LockStep, Acquire, Goto
<1>12. CASE RescanPermissionList(r)
    BY <1>12 DEF RescanPermissionList, Permitted, Release, Goto
<1>13. CASE LockGlobal(r)
    BY <1>13 DEF LockGlobal, LockStep, Acquire, Goto
<1>14. CASE LockRequestMutex(r)
    BY <1>14 DEF LockRequestMutex, LockStep, Acquire, Goto
<1>15. CASE LockInputRequest(r)
    BY <1>15 DEF LockInputRequest, LockStep, Acquire, Goto
<1>16. CASE LockInputAnswer(r)
    BY <1>16 DEF LockInputAnswer, ArmAnswer, Acquire, Goto
<1>17. CASE AskUser(r)
    BY <1>17 DEF AskUser, Goto
<1>18. CASE MissingField(r)
    BY <1>18 DEF MissingField, Goto
<1>19. CASE WaitInputAnswer(r)
    BY <1>19 DEF WaitInputAnswer, LockStep, Acquire, Goto
<1>20. CASE ReadStatus(r)
    BY <1>20 DEF ReadStatus, Release, Goto
<1>21. CASE LockPosRequest(r)
    BY <1>21 DEF LockPosRequest, LockStep, Acquire, Goto
<1>22. CASE WriteResponse(r)
    BY <1>22 DEF WriteResponse, Release, Goto
<1>23. CASE ScanThrows(r)
    BY <1>23 DEF ScanThrows, Goto
<1>24. CASE AskThrows(r)
    BY <1>24 DEF AskThrows, Goto
<1> QED
    BY <1>1, <1>2, <1>3, <1>4, <1>5, <1>6, <1>7, <1>8, <1>9, <1>10, <1>11, <1>12,
       <1>13, <1>14, <1>15, <1>16, <1>17, <1>18, <1>19, <1>20, <1>21, <1>22, <1>23, <1>24
       DEF Handler

\* Whatever list the GUI installs, the handlers it allows are noted.
LEMMA GuiConsents ==
    ASSUME TypeOK, Consent, GuiStep
    PROVE  Consent'
<1>1. /\ consented \subseteq consented'
      /\ \A r \in Req : Running(r) /\ Allows(permissionList', req[r].origin)
                         => r \in consented'
  <2>1. \/ UNCHANGED <<permissionList, consented>>
        \/ \E list : SetPermissionList(list)
      BY DEF GuiStep, AddToPermissionList, ClearWebsitePermissionList,
         RequestedStatus, ChooseAccount, StopForWallet, LoadWallet, gui, accounts
  <2> QED BY <2>1 DEF Consent, SetPermissionList
<1> QED BY <1>1, GuiUnlocks DEF Consent, ConsentBeforeDisclosure, Running

\* Every step keeps track of consent.
LEMMA ConsentStep ==
    TypeOK /\ Routes /\ Consent /\ [Next]_vars => Consent'
<1> SUFFICES ASSUME TypeOK, Routes, Consent, [Next]_vars PROVE Consent'
    OBVIOUS
<1>1. ASSUME NEW s \in Session, Connect(s) PROVE Consent'
    BY <1>1 DEF Connect, server, gui, accounts, Consent, ConsentBeforeDisclosure, Running
<1>2. ASSUME NEW r \in Req, NEW q \in Message, Receive(r, q) PROVE Consent'
    BY <1>2 DEF Receive, Goto, TypeOK, Routes, Consent, ConsentBeforeDisclosure,
       Running, Allows, InPrompt
<1>3. ASSUME NEW r \in Req, Handler(r) PROVE Consent'
    BY <1>3, HandlerConsents
<1>4. CASE GuiStep
    BY <1>4, GuiConsents
<1>5. CASE UNCHANGED vars
    BY <1>5 DEF vars, server, gui, accounts, Consent, ConsentBeforeDisclosure, Running
<1> QED BY <1>1, <1>2, <1>3, <1>4, <1>5 DEF Next

\* The routes are kept from the start.
LEMMA RoutesKept == Spec => []Routes
<1>1. Init => Routes
    BY DEF Init, Routes, InPermission, InPermissionPrompt, InPrompt
<1> QED BY <1>1, TypeCorrect, RoutesStep, PTL DEF Spec

\* No account, transaction id or signature is written to a website that was not
\* on the list as allowed at some time while its request ran.
THEOREM DisclosureNeedsConsent == Spec => []ConsentBeforeDisclosure
<1>1. Init => Consent
    BY DEF Init, Consent, ConsentBeforeDisclosure, Running, InPrompt
<1>2. Spec => []Consent
    BY <1>1, TypeCorrect, RoutesKept, ConsentStep, PTL DEF Spec
<1>3. Consent => ConsentBeforeDisclosure
    BY DEF Consent
<1> QED BY <1>2, <1>3, PTL
-----------------------------------------------------------------------------
\* What eth_accounts may write: the current account, or the last one of a wallet that
\* was closed.
NamesAccount(r) ==
    \/ response[r] = Result(account)
    \/ account = NoAccount /\ response[r] = Result(chosen)

\* A connection that can still be written to has seen no account chosen since its
\* handlers started.
Current ==
    /\ account \in {chosen, NoAccount}
    /\ ~serving => \A s \in Session : session[s] # "open"
    /\ \A r \in Req :
          /\ pc[r] # "idle" => session[SessionOf[r]] # "new"
          /\ /\ Live(r) /\ req[r].method = "eth_accounts"
             /\ pc[r] \notin {"idle", "start"}
             => NamesAccount(r)

\* A handler's step keeps the account it will write current.
LEMMA HandlerCurrent ==
    ASSUME TypeOK, Routes, Current, NEW r \in Req, Handler(r)
    PROVE  Current'
<1> USE ConstantsAssumption
    DEF TypeOK, Routes, Current, NamesAccount, Live, Protected, InPermission,
        InPermissionPrompt, InPrompt, gui, accounts
<1>1. CASE AnswerDirectly(r)
    BY <1>1 DEF AnswerDirectly, Goto, DirectAnswer
<1>2. CASE NeedPermission(r)
    BY <1>2 DEF NeedPermission, Goto
<1>3. CASE ForwardToApi(r)
    BY <1>3 DEF ForwardToApi, Goto
<1>4. CASE ApiReply(r)
    BY <1>4 DEF ApiReply, Goto
<1>5. CASE LockPermissionList(r)
    BY <1>5 DEF LockPermissionList, LockStep, Acquire, Goto
<1>6. CASE ScanPermissionList(r)
  <2>1. CASE Known(r) = "unset"
      BY <1>6, <2>1 DEF ScanPermissionList, Goto
  <2>2. CASE Known(r) # "unset"
    <3>1. Permitted(r, Known(r) = "allow")
        BY <1>6, <2>2 DEF ScanPermissionList
    <3>2. UNCHANGED <<req, response, serving, accounts>> /\ pc[r] = "scan"
        BY <1>6 DEF ScanPermissionList
    <3>3. \A s \in Session : session'[s] \in {session[s], "closed"}
        BY <3>1 DEF Permitted
    <3>4. \A q \in Req : q # r => pc'[q] = pc[q]
        BY <3>1 DEF Permitted, Goto
    <3>5. \A q \in Req : SessionOf[q] \in Session
        OBVIOUS
    <3> QED BY <3>2, <3>3, <3>4, <3>5
  <2> QED BY <2>1, <2>2
<1>7. CASE LockGlobalForPermission(r)
    BY <1>7 DEF LockGlobalForPermission, LockStep, Acquire, Goto
<1>8. CASE LockPermissionRequest(r)
    BY <1>8 DEF LockPermissionRequest, LockStep, Acquire, Goto
<1>9. CASE AskForPermission(r)
    BY <1>9 DEF AskForPermission, Goto
<1>10. CASE LockPermissionAnswer(r)
    BY <1>10 DEF LockPermissionAnswer, ArmAnswer, Acquire, Goto
<1>11. CASE WaitPermissionAnswer(r)
    BY <1>11 DEF WaitPermissionAnswer, LockStep, Acquire, Goto
<1>12. CASE RescanPermissionList(r)
    BY <1>12 DEF RescanPermissionList, Permitted, Release, Goto
<1>13. CASE LockGlobal(r)
    BY <1>13 DEF LockGlobal, LockStep, Acquire, Goto
<1>14. CASE LockRequestMutex(r)
    BY <1>14 DEF LockRequestMutex, LockStep, Acquire, Goto
<1>15. CASE LockInputRequest(r)
    BY <1>15 DEF LockInputRequest, LockStep, Acquire, Goto
<1>16. CASE LockInputAnswer(r)
    BY <1>16 DEF LockInputAnswer, ArmAnswer, Acquire, Goto
<1>17. CASE AskUser(r)
    BY <1>17 DEF AskUser, Goto
<1>18. CASE MissingField(r)
    BY <1>18 DEF MissingField, Goto
<1>19. CASE WaitInputAnswer(r)
    BY <1>19 DEF WaitInputAnswer, LockStep, Acquire, Goto
<1>20. CASE ReadStatus(r)
    BY <1>20 DEF ReadStatus, Release, Goto
<1>21. CASE LockPosRequest(r)
    BY <1>21 DEF LockPosRequest, LockStep, Acquire, Goto
<1>22. CASE WriteResponse(r)
    BY <1>22 DEF WriteResponse, Release, Goto
<1>23. CASE ScanThrows(r)
    BY <1>23 DEF ScanThrows, Goto
<1>24. CASE AskThrows(r)
    BY <1>24 DEF AskThrows, Goto
<1> QED
    BY <1>1, <1>2, <1>3, <1>4, <1>5, <1>6, <1>7, <1>8, <1>9, <1>10, <1>11, <1>12,
       <1>13, <1>14, <1>15, <1>16, <1>17, <1>18, <1>19, <1>20, <1>21, <1>22, <1>23, <1>24
       DEF Handler

\* Choosing an account leaves no connection open, closing the wallet leaves no account.
LEMMA GuiCurrent ==
    ASSUME TypeOK, Current, GuiStep
    PROVE  Current'
<1>1. \/ UNCHANGED <<session, serving, account, chosen>>
      \/ StopServer /\ (serving' = TRUE \/ UNCHANGED serving \/ serving' = FALSE)
           /\ (account' = chosen' \/ UNCHANGED accounts)
      \/ CloseWallet /\ UNCHANGED <<session, serving, chosen>>
      \/ /\ ~serving /\ UNCHANGED session
         /\ ((account' = chosen' /\ serving' = TRUE) \/ UNCHANGED <<accounts, serving>>)
    BY DEF GuiStep, AddToPermissionList, ClearWebsitePermissionList,
       RequestedStatus, ChooseAccount, StopForWallet, LoadWallet, gui, accounts
<1>2. CASE UNCHANGED <<session, serving, account, chosen>>
    BY <1>2, GuiUnlocks DEF Current, NamesAccount, Live
<1>3. ASSUME StopServer, account' = chosen' \/ UNCHANGED accounts
      PROVE  Current'
  <2>1. /\ \A s \in Session : session'[s] # "open"
        /\ \A s \in Session : session'[s] = "new" => session[s] = "new"
      BY <1>3 DEF StopServer, TypeOK
  <2>2. \A r \in Req : SessionOf[r] \in Session
      BY ConstantsAssumption
  <2>3. account' \in {chosen', NoAccount}
      BY <1>3 DEF Current, accounts
  <2> QED BY <2>1, <2>2, <2>3, GuiUnlocks DEF Current, Live
<1>4. CASE CloseWallet /\ UNCHANGED <<session, serving, chosen>>
    BY <1>4, GuiUnlocks DEF CloseWallet, Current, NamesAccount, Live
<1>5. CASE /\ ~serving /\ UNCHANGED session
           /\ ((account' = chosen' /\ serving' = TRUE) \/ UNCHANGED <<accounts, serving>>)
  <2>1. \A s \in Session : session'[s] = session[s] /\ session[s] # "open"
      BY <1>5 DEF Current
  <2>2. \A r \in Req : SessionOf[r] \in Session
      BY ConstantsAssumption
  <2>3. account' \in {chosen', NoAccount}
      BY <1>5 DEF Current, accounts
  <2> QED BY <2>1, <2>2, <2>3, GuiUnlocks DEF Current, Live
<1> QED BY <1>1, <1>2, <1>3, <1>4, <1>5

\* Every step keeps the accounts that may still be written current.
LEMMA CurrentStep ==
    TypeOK /\ Routes /\ Current /\ [Next]_vars => Current'
<1> SUFFICES ASSUME TypeOK, Routes, Current, [Next]_vars PROVE Current'
    OBVIOUS
<1> USE ConstantsAssumption
<1>1. ASSUME NEW s \in Session, Connect(s) PROVE Current'
  <2>1. \A r \in Req : SessionOf[r] \in Session
      OBVIOUS
  <2>2. \A r \in Req : pc[r] # "idle" => session'[SessionOf[r]] = session[SessionOf[r]]
      BY <1>1, <2>1 DEF Connect, TypeOK, Current
  <2> QED BY <1>1, <2>2 DEF Connect, server, gui, accounts, Current, NamesAccount, Live
<1>2. ASSUME NEW r \in Req, NEW q \in Message, Receive(r, q) PROVE Current'
    BY <1>2 DEF Receive, Goto, TypeOK, accounts, Current, NamesAccount, Live
<1>3. ASSUME NEW r \in Req, Handler(r) PROVE Current'
    BY <1>3, HandlerCurrent
<1>4. CASE GuiStep
    BY <1>4, GuiCurrent
<1>5. CASE UNCHANGED vars
    BY <1>5 DEF vars, server, gui, accounts, Current, NamesAccount, Live
<1> QED BY <1>1, <1>2, <1>3, <1>4, <1>5 DEF Next

\* Only WriteResponse writes, and only to a connection that is still open.
LEMMA WritesCurrent ==
    TypeOK /\ Routes /\ Current /\ [Next]_vars
      => [\A r \in sent' \ sent : req[r].method = "eth_accounts" => NamesAccount(r)]_vars
<1> SUFFICES ASSUME TypeOK, Routes, Current, Next,
                    NEW r \in sent' \ sent, req[r].method = "eth_accounts"
             PROVE  NamesAccount(r)
    OBVIOUS
<1>1. \/ sent' = sent
      \/ \E q \in Req : WriteResponse(q)
    BY GuiUnlocks DEF Next, Connect, Receive, Handler, server,
       AnswerDirectly, NeedPermission, ForwardToApi, ApiReply,
       LockPermissionList, ScanPermissionList, ScanThrows, AskThrows,
       LockGlobalForPermission, LockPermissionRequest, AskForPermission, LockPermissionAnswer,
       WaitPermissionAnswer, RescanPermissionList, LockGlobal, LockRequestMutex,
       LockInputRequest, LockInputAnswer, AskUser, MissingField,
       WaitInputAnswer, ReadStatus, LockPosRequest, LockStep, ArmAnswer
<1>2. PICK q \in Req : WriteResponse(q)
    BY <1>1
<1>3. r = q /\ Live(q) /\ pc[q] = "write"
    BY <1>2 DEF WriteResponse
<1> QED BY <1>3 DEF Current

\* eth_accounts never writes an account that the user has replaced by another one: what it
\* writes is current, or was the last before the wallet was closed.
THEOREM AccountsAreCurrent == Spec => FreshAccount
<1>1. Init => Current
    BY DEF Init, Current
<1>2. Spec => []Current
    BY <1>1, TypeCorrect, RoutesKept, CurrentStep, PTL DEF Spec
<1> QED BY <1>2, TypeCorrect, RoutesKept, WritesCurrent, PTL DEF Spec, FreshAccount, NamesAccount
-----------------------------------------------------------------------------
\* A signal in the queue was emitted by a handler that has started, and a question for a
\* permission names the website.
SignalsReal ==
    \A i \in 1..Len(signals) :
       /\ pc[signals[i].req] # "idle"
       /\ signals[i].kind = "PL" => req[signals[i].req].origin \in Origin

\* A handler never becomes idle again, and signals only for itself.
LEMMA HandlerSignals ==
    ASSUME TypeOK, NEW r \in Req, Handler(r)
    PROVE  /\ UNCHANGED req /\ \A q \in Req : pc[q] # "idle" => pc'[q] # "idle"
           /\ \/ signals' = signals
              \/ /\ pc[r] # "idle"
                 /\ \E k \in Kind : /\ signals' = Append(signals, [kind |-> k, req |-> r])
                                    /\ k = "PL" => req[r].origin \in Origin
<1> USE Names DEF TypeOK
<1>1. CASE AnswerDirectly(r)
    BY <1>1 DEF AnswerDirectly, Goto
<1>2. CASE NeedPermission(r)
    BY <1>2 DEF NeedPermission, Goto
<1>3. CASE ForwardToApi(r)
    BY <1>3 DEF ForwardToApi, Goto
<1>4. CASE ApiReply(r)
    BY <1>4 DEF ApiReply, Goto
<1>5. CASE LockPermissionList(r)
    BY <1>5 DEF LockPermissionList, LockStep, Acquire, Goto
<1>6. CASE ScanPermissionList(r)
    BY <1>6 DEF ScanPermissionList, Known, Permitted, Release, Goto
<1>7. CASE LockGlobalForPermission(r)
    BY <1>7 DEF LockGlobalForPermission, LockStep, Acquire, Goto
<1>8. CASE LockPermissionRequest(r)
    BY <1>8 DEF LockPermissionRequest, LockStep, Acquire, Goto
<1>9. CASE AskForPermission(r)
    BY <1>9 DEF AskForPermission, Goto, Emit, Kind
<1>10. CASE LockPermissionAnswer(r)
    BY <1>10 DEF LockPermissionAnswer, ArmAnswer, Acquire, Goto
<1>11. CASE WaitPermissionAnswer(r)
    BY <1>11 DEF WaitPermissionAnswer, LockStep, Acquire, Goto
<1>12. CASE RescanPermissionList(r)
    BY <1>12 DEF RescanPermissionList, Permitted, Release, Goto
<1>13. CASE LockGlobal(r)
    BY <1>13 DEF LockGlobal, LockStep, Acquire, Goto
<1>14. CASE LockRequestMutex(r)
    BY <1>14 DEF LockRequestMutex, LockStep, Acquire, Goto
<1>15. CASE LockInputRequest(r)
    BY <1>15 DEF LockInputRequest, LockStep, Acquire, Goto
<1>16. CASE LockInputAnswer(r)
    BY <1>16 DEF LockInputAnswer, ArmAnswer, Acquire, Goto
<1>17. CASE AskUser(r)
    BY <1>17 DEF AskUser, Goto, Emit, Kind
<1>18. CASE MissingField(r)
    BY <1>18 DEF MissingField, Goto
<1>19. CASE WaitInputAnswer(r)
    BY <1>19 DEF WaitInputAnswer, LockStep, Acquire, Goto
<1>20. CASE ReadStatus(r)
    BY <1>20 DEF ReadStatus, Release, Goto
<1>21. CASE LockPosRequest(r)
    BY <1>21 DEF LockPosRequest, LockStep, Acquire, Goto
<1>22. CASE WriteResponse(r)
    BY <1>22 DEF WriteResponse, Release, Goto
<1>23. CASE ScanThrows(r)
    BY <1>23 DEF ScanThrows, Goto
<1>24. CASE AskThrows(r)
    BY <1>24 DEF AskThrows, Goto
<1> QED
    BY <1>1, <1>2, <1>3, <1>4, <1>5, <1>6, <1>7, <1>8, <1>9, <1>10, <1>11, <1>12,
       <1>13, <1>14, <1>15, <1>16, <1>17, <1>18, <1>19, <1>20, <1>21, <1>22, <1>23, <1>24
       DEF Handler

\* Every step keeps the queue to signals of handlers that have started.
LEMMA SignalsStep == TypeOK /\ SignalsReal /\ [Next]_vars => SignalsReal'
<1> SUFFICES ASSUME TypeOK, SignalsReal, [Next]_vars PROVE SignalsReal'
    OBVIOUS
<1>0. /\ signals \in Seq([kind : Kind, req : Req])
      /\ \A i \in 1..Len(signals) : signals[i].req \in Req
  <2>1. signals \in Seq([kind : Kind, req : Req])
      BY DEF TypeOK
  <2>2. ASSUME NEW i \in 1..Len(signals) PROVE signals[i].req \in Req
    <3>1. signals[i] \in [kind : Kind, req : Req]
        BY <2>1, <2>2, ElementOfSeq
    <3> QED BY <3>1
  <2> QED BY <2>1, <2>2
<1>1. ASSUME NEW s \in Session, Connect(s) PROVE SignalsReal'
    BY <1>1 DEF Connect, server, SignalsReal
<1>2. ASSUME NEW r \in Req, NEW q \in Message, Receive(r, q) PROVE SignalsReal'
  <2>1. \A p \in Req : pc[p] # "idle" => pc'[p] # "idle" /\ req'[p] = req[p]
      BY <1>2 DEF Receive, Goto, TypeOK
  <2>2. signals' = signals
      BY <1>2 DEF Receive
  <2> QED BY <1>0, <2>1, <2>2 DEF SignalsReal
<1>3. ASSUME NEW r \in Req, Handler(r) PROVE SignalsReal'
  <2>1. CASE signals' = signals
      BY <1>0, <1>3, <2>1, HandlerSignals DEF SignalsReal
  <2>2. ASSUME NEW k \in Kind, pc[r] # "idle", k = "PL" => req[r].origin \in Origin,
               signals' = Append(signals, [kind |-> k, req |-> r])
        PROVE  SignalsReal'
    <3>1. UNCHANGED req /\ \A q \in Req : pc[q] # "idle" => pc'[q] # "idle"
        BY <1>3, HandlerSignals
    <3>2. [kind |-> k, req |-> r] \in [kind : Kind, req : Req]
        OBVIOUS
    <3>3. /\ Len(signals') = Len(signals) + 1
          /\ \A i \in 1..Len(signals) : signals'[i] = signals[i]
          /\ signals'[Len(signals) + 1] = [kind |-> k, req |-> r]
        BY <1>0, <2>2, <3>2, AppendProperties
    <3>4. Len(signals) \in Nat
        BY <1>0
    <3>5. ASSUME NEW i \in 1..Len(signals')
          PROVE  /\ pc'[signals'[i].req] # "idle"
                 /\ signals'[i].kind = "PL" => req'[signals'[i].req].origin \in Origin
      <4>1. CASE i \in 1..Len(signals)
          BY <1>0, <3>1, <3>3, <4>1 DEF SignalsReal
      <4>2. CASE i = Len(signals) + 1
          BY <2>2, <3>1, <3>3, <4>2
      <4> QED BY <3>3, <3>4, <4>1, <4>2
    <3> QED BY <3>5 DEF SignalsReal
  <2> QED BY <1>3, <2>1, <2>2, HandlerSignals
<1>4. CASE GuiStep
  <2>1. pc' = pc /\ req' = req
      BY <1>4, GuiUnlocks
  <2>2. signals' = signals \/ (signals # <<>> /\ signals' = Tail(signals))
      BY <1>4 DEF GuiStep
  <2>3. CASE signals' = signals
      BY <2>1, <2>3 DEF SignalsReal
  <2>4. CASE signals # <<>> /\ signals' = Tail(signals)
    <3>1. /\ Len(signals') = Len(signals) - 1
          /\ \A i \in 1..Len(signals') : signals'[i] = signals[i + 1]
        BY <1>0, <2>4, HeadTailProperties
    <3>2. Len(signals) \in Nat
        BY <1>0
    <3> QED BY <2>1, <3>1, <3>2 DEF SignalsReal
  <2> QED BY <2>2, <2>3, <2>4
<1>5. CASE UNCHANGED vars
    BY <1>5 DEF vars, server, SignalsReal
<1> QED BY <1>1, <1>2, <1>3, <1>4, <1>5 DEF Next
=============================================================================
