-------------------------- MODULE WebPromptsProofs --------------------------
(***************************************************************************)
(* The popups implement HandleServer, for any number of requests, websites *)
(* and transactions and any size of the pool.                              *)
(***************************************************************************)
EXTENDS WebPrompts, HandleServerProofs

\* A step of the GUI is a step of HandleServer's GUI, or changes nothing there.
GuiStutter == GuiStep \/ UNCHANGED vars

\* Calling requestedTransactionStatus or requestedSignStatus, or neither.
LEMMA StatusOrNot ==
    ASSUME NEW k \in {"RT", "RS"}, NEW v \in Answer \cup {Refused},
           RequestedStatus(k, v) \/ UNCHANGED <<owner, gui>>,
           UNCHANGED <<session, signals>>, UNCHANGED <<pc, req, response, sent>>
    PROVE  GuiStutter
BY DEF GuiStutter, GuiStep, vars, server

\* The next-state relation of the popups, action by action: what each one does
\* to HandleServer's variables.
LEMMA PopupSteps ==
    ASSUME WebTypeOK, UNCHANGED <<pc, req, response, sent>>
    PROVE  /\ ShowPrompt => GuiStutter
           /\ \A yes \in BOOLEAN : AnswerAllowance(yes) => GuiStutter
           /\ RefuseTransaction => GuiStutter
           /\ ConfirmTransaction => GuiStutter
           /\ OwnTransaction => GuiStutter
           /\ CloseProgress => GuiStutter
           /\ AutoClose => GuiStutter
           /\ RetryTransaction => GuiStutter
           /\ RefuseSign => GuiStutter
           /\ RefuseSignEnd => GuiStutter
           /\ ConfirmSign => GuiStutter
           /\ ClearPermissions => GuiStutter
           /\ LoadWalletClick => GuiStutter
           /\ LoadWalletEnd => GuiStutter
<1>1. ShowPrompt => GuiStutter
    BY DEF ShowPrompt, GuiStutter, GuiStep
<1>2. ASSUME NEW yes \in BOOLEAN, AnswerAllowance(yes) PROVE GuiStutter
    BY <1>2 DEF AnswerAllowance, GuiStutter, GuiStep, WebTypeOK
<1>3. RefuseTransaction => GuiStutter
    BY StatusOrNot DEF RefuseTransaction
<1>4. ConfirmTransaction => GuiStutter
    BY DEF ConfirmTransaction, GuiStutter, vars, server, gui, accounts
<1>5. OwnTransaction => GuiStutter
    BY DEF OwnTransaction, GuiStutter, vars, server, gui, accounts
<1>6. CloseProgress => GuiStutter
    BY StatusOrNot DEF CloseProgress
<1>7. AutoClose => GuiStutter
    BY DEF AutoClose, GuiStutter, vars, server, gui, accounts
<1>8. RetryTransaction => GuiStutter
    BY DEF RetryTransaction, GuiStutter, vars, server, gui, accounts
<1>9. RefuseSign => GuiStutter
    BY StatusOrNot DEF RefuseSign
<1>10. RefuseSignEnd => GuiStutter
    BY StatusOrNot DEF RefuseSignEnd
<1>11. ConfirmSign => GuiStutter
    BY DEF ConfirmSign, GuiStutter, vars, server, gui, accounts
<1>12. ClearPermissions => GuiStutter
    BY DEF ClearPermissions, GuiStutter, GuiStep
<1>13. LoadWalletClick => GuiStutter
    BY DEF LoadWalletClick, GuiStutter, GuiStep
<1>14. LoadWalletEnd => GuiStutter
    BY DEF LoadWalletEnd, GuiStutter, GuiStep
<1> QED BY <1>1, <1>2, <1>3, <1>4, <1>5, <1>6, <1>7, <1>8, <1>9, <1>10, <1>11,
           <1>12, <1>13, <1>14

\* The same for the slots of the signals that pool tasks emit.
LEMMA SlotSteps ==
    ASSUME WebTypeOK, UNCHANGED <<pc, req, response, sent>>, NEW t \in tasks,
           TxStepFailed(t) \/ Slot(t)
    PROVE  GuiStutter
<1>0. t.tx \in Answer
    BY WebPromptsAssumption DEF WebTypeOK, Task
<1>1. CASE TxStepFailed(t)
    BY <1>1 DEF TxStepFailed, GuiStutter, vars, server, gui, accounts
<1>2. CASE TxSent(t)
    BY <1>2 DEF TxSent, GuiStutter, vars, server, gui, accounts
<1>3. CASE TxNotSent(t)
    BY <1>3 DEF TxNotSent, GuiStutter, vars, server, gui, accounts
<1>4. CASE TxConfirmed(t)
    BY <1>0, <1>4, StatusOrNot DEF TxConfirmed
<1>5. CASE TxNotConfirmed(t)
    BY <1>5 DEF TxNotConfirmed, GuiStutter, vars, server, gui, accounts
<1>6. CASE MessageSigned(t)
    BY <1>0, <1>6, StatusOrNot DEF MessageSigned
<1>7. CASE WalletNotLoaded(t)
    BY <1>7 DEF WalletNotLoaded, GuiStutter, vars, server, gui, accounts
<1>8. CASE WalletLoaded(t)
    BY <1>8 DEF WalletLoaded, GuiStutter, GuiStep
<1> QED BY <1>1, <1>2, <1>3, <1>4, <1>5, <1>6, <1>7, <1>8 DEF Slot

\* Every step of the popups, the pool and the handlers is a step of HandleServer
\* or leaves its variables alone.
LEMMA StepImplements == WebTypeOK /\ [WebNext]_webVars => [Next]_vars
<1> SUFFICES ASSUME WebTypeOK, [WebNext]_webVars PROVE Next \/ UNCHANGED vars
    OBVIOUS
<1>1. CASE Arrive
    BY <1>1 DEF Arrive, Next
<1>2. ASSUME NEW r \in Req, HandlerStep(r) PROVE Next \/ UNCHANGED vars
    BY <1>2 DEF HandlerStep, Next
<1>3. ASSUME NEW t, StartTask(t) \/ TaskThrows(t) PROVE Next \/ UNCHANGED vars
    BY <1>3 DEF StartTask, TaskThrows
<1>4. CASE GuiEvent
  <2>1. UNCHANGED <<pc, req, response, sent>>
      BY <1>4 DEF GuiEvent, Prompt, Timer, Allowance, ConfirmRT, Progress, Sign,
         GuiReturns, Emitted, OnGui
  <2>2. GuiStutter
      BY <1>4, <2>1, PopupSteps, SlotSteps
         DEF GuiEvent, Prompt, Timer, Allowance, ConfirmRT, Progress, Sign,
             GuiReturns, Emitted, OnGui
  <2> QED BY <2>2 DEF GuiStutter, Next
<1>5. CASE UNCHANGED webVars
    BY <1>5 DEF webVars
<1> QED BY <1>1, <1>2, <1>3, <1>4, <1>5 DEF WebNext
-----------------------------------------------------------------------------
\* The part of WebTypeOK that is about the popups and the pool.
PopupTypes ==
    /\ allowance \in Origin \cup {Closed}
    /\ confirmRT \in Req \cup {Closed} /\ confirmSign \in Req \cup {Closed}
    /\ userHasSigned \in BOOLEAN
    /\ progress \in [open : BOOLEAN, by : Req \cup {Own}, close : BOOLEAN,
                     retry : BOOLEAN, alreadyTransmitted : BOOLEAN,
                     autoClose : BOOLEAN]
    /\ guiThread \in {"idle", "back", "closing"}

PoolTypes ==
    /\ queued \subseteq Task /\ tasks \subseteq Task
    /\ doomed \subseteq {t \in tasks : t.type = "make"}
    /\ made \in [Req \cup {Own} -> 0..MaxTx]

\* txStart queues one more well-formed task.
LEMMA TxStartTypes ==
    ASSUME PoolTypes, NEW b \in Req \cup {Own}, TxStart(b)
    PROVE  PoolTypes'
<1>1. made[b] \in 0..MaxTx /\ made[b] + 1 \in 1..MaxTx
    BY WebPromptsAssumption DEF PoolTypes, TxStart
<1>2. MakeTask(b) \in Task
    BY <1>1 DEF MakeTask, Task, Tx
<1>3. made' \in [Req \cup {Own} -> 0..MaxTx]
    BY <1>1, WebPromptsAssumption DEF PoolTypes, TxStart
<1> QED BY <1>2, <1>3 DEF PoolTypes, TxStart

\* The popup as txStart leaves it is well formed.
LEMMA FreshTypes ==
    ASSUME PopupTypes, NEW b \in Req \cup {Own}
    PROVE  FreshProgress(b) \in [open : BOOLEAN, by : Req \cup {Own}, close : BOOLEAN,
                                 retry : BOOLEAN, alreadyTransmitted : BOOLEAN,
                                 autoClose : BOOLEAN]
BY DEF PopupTypes, FreshProgress

\* Prompts and buttons keep the types of popups and pool.
LEMMA ButtonTypes ==
    ASSUME TypeOK, SignalsReal, PopupTypes, PoolTypes,
           \/ ShowPrompt \/ RefuseTransaction \/ ConfirmTransaction
           \/ OwnTransaction \/ CloseProgress \/ AutoClose \/ RetryTransaction
           \/ RefuseSign \/ RefuseSignEnd \/ ConfirmSign \/ ClearPermissions
           \/ LoadWalletClick \/ LoadWalletEnd
           \/ \E yes \in BOOLEAN : AnswerAllowance(yes)
    PROVE  PopupTypes' /\ PoolTypes'
<1> USE WebPromptsAssumption DEF popups, pool
<1>1. CASE ShowPrompt
  <2>1. Head(signals) \in [kind : Kind, req : Req]
      BY <1>1, HeadTailProperties DEF ShowPrompt, TypeOK
  <2>2. Head(signals).kind = "PL" => req[Head(signals).req].origin \in Origin
    <3>1. Len(signals) \in Nat /\ Len(signals) # 0
        BY <1>1 DEF ShowPrompt, TypeOK
    <3>2. Head(signals) = signals[1]
        BY <1>1 DEF ShowPrompt, TypeOK
    <3> QED BY <3>1, <3>2 DEF SignalsReal
  <2> QED BY <1>1, <2>1, <2>2 DEF ShowPrompt, PopupTypes, PoolTypes
<1>2. CASE RefuseTransaction
    BY <1>2 DEF RefuseTransaction, PopupTypes, PoolTypes
<1>3. CASE ConfirmTransaction
    BY <1>3, TxStartTypes, FreshTypes DEF ConfirmTransaction, PopupTypes
<1>4. CASE OwnTransaction
    BY <1>4, TxStartTypes DEF OwnTransaction, PopupTypes
<1>5. CASE CloseProgress
    BY <1>5 DEF CloseProgress, PopupTypes, PoolTypes
<1>6. CASE AutoClose
    BY <1>6 DEF AutoClose, PopupTypes, PoolTypes
<1>7. CASE RetryTransaction
  <2>1. progress.by \in Req \cup {Own}
      BY DEF PopupTypes
  <2> QED BY <1>7, <2>1, TxStartTypes, FreshTypes DEF RetryTransaction, PopupTypes
<1>8. CASE RefuseSign
    BY <1>8 DEF RefuseSign, PopupTypes, PoolTypes
<1>9. CASE RefuseSignEnd
    BY <1>9 DEF RefuseSignEnd, PopupTypes, PoolTypes
<1>10. CASE ConfirmSign
    BY <1>10 DEF ConfirmSign, PopupTypes, PoolTypes, Task, Tx
<1>11. CASE ClearPermissions
    BY <1>11 DEF ClearPermissions, PopupTypes, PoolTypes
<1>12. CASE LoadWalletClick
    BY <1>12 DEF LoadWalletClick, LoadTask, PopupTypes, PoolTypes, Task, Tx
<1>13. CASE LoadWalletEnd
    BY <1>13 DEF LoadWalletEnd, PopupTypes, PoolTypes
<1>14. ASSUME NEW yes \in BOOLEAN, AnswerAllowance(yes)
       PROVE  PopupTypes' /\ PoolTypes'
    BY <1>14 DEF AnswerAllowance, PopupTypes, PoolTypes
<1> QED BY <1>1, <1>2, <1>3, <1>4, <1>5, <1>6, <1>7, <1>8, <1>9, <1>10, <1>11,
           <1>12, <1>13, <1>14

\* Tasks and the slots of their signals keep them too.
LEMMA TaskTypes ==
    ASSUME PopupTypes, PoolTypes, NEW t,
           \/ t \in queued /\ StartTask(t)
           \/ t \in tasks /\ (TaskThrows(t) \/ TxStepFailed(t) \/ Slot(t))
    PROVE  PopupTypes' /\ PoolTypes'
<1> USE WebPromptsAssumption DEF popups, pool, EndTask
<1>0. t \in Task
    BY DEF PoolTypes
<1>1. CASE StartTask(t)
    BY <1>0, <1>1 DEF StartTask, PopupTypes, PoolTypes
<1>2. CASE TaskThrows(t)
    BY <1>2 DEF TaskThrows, PopupTypes, PoolTypes
<1>3. CASE TxStepFailed(t)
    BY <1>3 DEF TxStepFailed, PopupTypes, PoolTypes
<1>4. CASE TxSent(t)
  <2>1. t.tx \in Tx /\ 0..ScreenPopup \subseteq {0, 1}
      BY <1>0 DEF Task
  <2>2. {[type |-> "check", tx |-> t.tx, copy |-> c] : c \in 0..ScreenPopup} \subseteq Task
      BY <2>1 DEF Task
  <2> QED BY <1>4, <2>1, <2>2 DEF TxSent, PopupTypes, PoolTypes
<1>5. CASE TxNotSent(t)
    BY <1>5 DEF TxNotSent, PopupTypes, PoolTypes
<1>6. CASE TxConfirmed(t)
    BY <1>6 DEF TxConfirmed, PopupTypes, PoolTypes
<1>7. CASE TxNotConfirmed(t)
    BY <1>7 DEF TxNotConfirmed, PopupTypes, PoolTypes
<1>8. CASE MessageSigned(t)
    BY <1>8 DEF MessageSigned, PopupTypes, PoolTypes
<1>9. CASE WalletNotLoaded(t)
    BY <1>9 DEF WalletNotLoaded, PopupTypes, PoolTypes
<1>10. CASE WalletLoaded(t)
    BY <1>10 DEF WalletLoaded, PopupTypes, PoolTypes
<1> QED BY <1>1, <1>2, <1>3, <1>4, <1>5, <1>6, <1>7, <1>8, <1>9, <1>10 DEF Slot

\* Every step of the wallet keeps WebTypeOK.  SignalsReal is needed because the
\* popup takes the website's name from the request of the signal.
LEMMA WebTypeStep ==
    WebTypeOK /\ SignalsReal /\ [WebNext]_webVars => WebTypeOK'
<1> SUFFICES ASSUME WebTypeOK, SignalsReal, [WebNext]_webVars PROVE WebTypeOK'
    OBVIOUS
<1>1. TypeOK /\ PopupTypes /\ PoolTypes
    BY DEF WebTypeOK, PopupTypes, PoolTypes
<1>2. TypeOK'
    BY <1>1, StepImplements, TypeStep
<1>3. PopupTypes' /\ PoolTypes'
  <2>1. CASE UNCHANGED <<popups, pool, guiThread>>
      BY <1>1, <2>1 DEF popups, pool, PopupTypes, PoolTypes
  <2>2. CASE GuiEvent
      BY <1>1, <2>2, ButtonTypes, TaskTypes
         DEF GuiEvent, Prompt, Timer, Allowance, ConfirmRT, Progress, Sign,
             GuiReturns, Emitted, OnGui
  <2>3. ASSUME NEW t \in queued, StartTask(t) PROVE PopupTypes' /\ PoolTypes'
      BY <1>1, <2>3, TaskTypes
  <2>4. ASSUME NEW t \in tasks, TaskThrows(t) PROVE PopupTypes' /\ PoolTypes'
      BY <1>1, <2>4, TaskTypes
  <2> QED BY <2>1, <2>2, <2>3, <2>4 DEF WebNext, Arrive, HandlerStep, webVars
<1> QED BY <1>2, <1>3 DEF WebTypeOK, PopupTypes, PoolTypes

\* The initial state has the types, and no signal is queued in it.
LEMMA WebStart == WebInit => WebTypeOK /\ SignalsReal
<1> SUFFICES ASSUME WebInit PROVE WebTypeOK /\ SignalsReal
    OBVIOUS
<1>1. TypeOK
    BY TypeInit DEF WebInit
<1>2. SignalsReal
    BY DEF WebInit, Init, SignalsReal
<1>3. made \in [Req \cup {Own} -> 0..MaxTx]
    BY WebPromptsAssumption DEF WebInit
<1> QED BY <1>1, <1>2, <1>3 DEF WebInit, WebTypeOK

\* The popups and the pool keep their types: in particular no popup ever shows
\* a request that does not exist and only makeTransaction tasks are doomed.
THEOREM WebTypeCorrect == WebSpec => []WebTypeOK
<1>1. WebTypeOK => TypeOK
    BY DEF WebTypeOK
<1> QED BY <1>1, WebStart, WebTypeStep, StepImplements, SignalsStep, PTL DEF WebSpec

\* The wallet with its popups, its pool and its slots implements handleServer
\* with an arbitrary GUI: every theorem about HandleServer holds of it.
THEOREM PopupsImplement == WebSpec => ImplementsHandleServer
<1>1. WebInit => Init
    BY DEF WebInit
<1> QED BY <1>1, WebTypeCorrect, StepImplements, PTL
        DEF WebSpec, Spec, ImplementsHandleServer
-----------------------------------------------------------------------------
PLAnswer == InputAnswer["PL"]
Asking(r) == pc[r] \in {"plLock", "plWait"}
Asked(i) == i \in 1..Len(signals) /\ signals[i].kind = "PL"
Pending == allowance # Closed \/ \E i \in 1..Len(signals) : signals[i].kind = "PL"

\* The question on its way to the screen or on it is the only one, its handler has not
\* been answered yet, and nobody else unlocks the mutex that handler waits for.
OneAsks ==
    /\ \A i \in 1..Len(signals) : Asked(i) => Asking(signals[i].req) /\ allowance = Closed
    /\ \A i, j \in 1..Len(signals) : Asked(i) /\ Asked(j) => i = j
    /\ AllowanceNamesAsker
    /\ \A r \in Req : Pending /\ pc[r] = "plWait" => owner[PLAnswer] = r

\* The queue of signals names requests.
LEMMA SignalTypes ==
    TypeOK => /\ signals \in Seq([kind : Kind, req : Req]) /\ Len(signals) \in Nat
              /\ \A i \in 1..Len(signals) : signals[i].req \in Req
<1> SUFFICES ASSUME TypeOK PROVE signals \in Seq([kind : Kind, req : Req]) /\ Len(signals) \in Nat
                                  /\ \A i \in 1..Len(signals) : signals[i].req \in Req
    OBVIOUS
<1>1. signals \in Seq([kind : Kind, req : Req]) /\ Len(signals) \in Nat
    BY DEF TypeOK
<1>2. ASSUME NEW i \in 1..Len(signals) PROVE signals[i].req \in Req
    <2>1. signals[i] \in [kind : Kind, req : Req]
        BY <1>1, ElementOfSeq
    <2> QED BY <2>1
<1> QED BY <1>1, <1>2

\* While a question is pending, its handler is the one that asks.
LEMMA PendingAsks == TypeOK /\ OneAsks /\ Pending => \E r \in Req : Asking(r)
BY SignalTypes DEF OneAsks, Pending, AllowanceNamesAsker, Asked, Asking

\* A handler's step that has nothing to do with permissions.
Elsewhere(r) ==
    /\ {pc[r], pc'[r]} \cap {"plLock", "plWait"} = {}
    /\ owner'[PLAnswer] = owner[PLAnswer]
    /\ \/ signals' = signals
       \/ \E k \in {"RT", "RS"} : signals' = Append(signals, [kind |-> k, req |-> r])

\* Four steps of a handler belong to a permission question.
LEMMA HandlerDelta ==
    ASSUME TypeOK, NEW r \in Req, Handler(r)
    PROVE  /\ UNCHANGED req /\ \A q \in Req : q # r => pc'[q] = pc[q]
           /\ \/ AskForPermission(r) \/ LockPermissionAnswer(r)
              \/ WaitPermissionAnswer(r) \/ RescanPermissionList(r)
              \/ Elsewhere(r)
<1> USE Names
   DEF TypeOK, Goto, Elsewhere, PLAnswer, InputAnswer, RequestMutex, InputRequest, KindOf,
       Mutex, OwnedMutex, AnswerMutex
<1>1. CASE AnswerDirectly(r)
    BY <1>1 DEF AnswerDirectly
<1>2. CASE NeedPermission(r)
    BY <1>2 DEF NeedPermission
<1>3. CASE ForwardToApi(r)
    BY <1>3 DEF ForwardToApi
<1>4. CASE ApiReply(r)
    BY <1>4 DEF ApiReply
<1>5. CASE LockPermissionList(r)
    BY <1>5 DEF LockPermissionList, LockStep, Acquire
<1>6. CASE ScanPermissionList(r)
    BY <1>6 DEF ScanPermissionList, Permitted, Release
<1>7. CASE LockGlobalForPermission(r)
    BY <1>7 DEF LockGlobalForPermission, LockStep, Acquire
<1>8. CASE LockPermissionRequest(r)
    BY <1>8 DEF LockPermissionRequest, LockStep, Acquire
<1>9. CASE LockGlobal(r)
    BY <1>9 DEF LockGlobal, LockStep, Acquire
<1>10. CASE LockRequestMutex(r)
    BY <1>10 DEF LockRequestMutex, LockStep, Acquire
<1>11. CASE LockInputRequest(r)
    BY <1>11 DEF LockInputRequest, LockStep, Acquire
<1>12. CASE LockInputAnswer(r)
    BY <1>12 DEF LockInputAnswer, ArmAnswer, Acquire
<1>13. CASE AskUser(r)
    BY <1>13 DEF AskUser, Emit
<1>14. CASE MissingField(r)
    BY <1>14 DEF MissingField
<1>15. CASE WaitInputAnswer(r)
    BY <1>15 DEF WaitInputAnswer, LockStep, Acquire
<1>16. CASE ReadStatus(r)
    BY <1>16 DEF ReadStatus, Release
<1>17. CASE LockPosRequest(r)
    BY <1>17 DEF LockPosRequest, LockStep, Acquire
<1>18. CASE WriteResponse(r)
    BY <1>18 DEF WriteResponse, Release
<1>19. CASE \/ AskForPermission(r)
              \/ LockPermissionAnswer(r)
              \/ WaitPermissionAnswer(r)
              \/ RescanPermissionList(r)
    BY <1>19
       DEF AskForPermission, LockPermissionAnswer, WaitPermissionAnswer,
           RescanPermissionList, ArmAnswer, LockStep, Permitted
<1>20. CASE ScanThrows(r)
    BY <1>20 DEF ScanThrows
<1>21. CASE AskThrows(r)
    BY <1>21 DEF AskThrows
<1> QED BY <1>1, <1>2, <1>3, <1>4, <1>5, <1>6, <1>7, <1>8, <1>9, <1>10, <1>11,
           <1>12, <1>13, <1>14, <1>15, <1>16, <1>17, <1>18, <1>19, <1>20, <1>21
       DEF Handler

\* A handler's step leaves one question at most.
LEMMA HandlerAsks ==
    ASSUME TypeOK, LockOwnership, OneAsks, NEW r \in Req, Handler(r), UNCHANGED allowance
    PROVE  OneAsks'
<1>0. /\ UNCHANGED req /\ \A q \in Req : q # r => pc'[q] = pc[q]
      /\ pc \in [Req -> Label] /\ signals \in Seq([kind : Kind, req : Req]) /\ Len(signals) \in Nat
    BY HandlerDelta DEF TypeOK
<1>s. \A i \in 1..Len(signals) : signals[i].req \in Req
    BY SignalTypes
<1>a. ASSUME NEW q \in Req, Asking(q), pc[r] \in InPermissionPrompt
      PROVE  q = r
    BY <1>a, Alone DEF Asking, InPermissionPrompt
<1>1. CASE AskForPermission(r)
    <2>1. pc[r] = "plAsk" /\ ~Pending
        BY <1>1, <1>a, PendingAsks DEF AskForPermission, Asking, InPermissionPrompt
    <2>2. /\ pc'[r] = "plLock" /\ UNCHANGED owner
          /\ signals' = Append(signals, [kind |-> "PL", req |-> r])
        BY <1>1, <1>0 DEF AskForPermission, Emit, Goto
    <2>3. /\ Len(signals') = Len(signals) + 1 /\ signals'[Len(signals) + 1] = [kind |-> "PL", req |-> r]
          /\ \A i \in 1..Len(signals) : signals'[i] = signals[i]
        BY <2>2, <1>0
    <2>4. \A i \in 1..Len(signals') : signals'[i].kind = "PL" => i = Len(signals) + 1
        BY <2>1, <2>3, <1>0 DEF Pending
    <2>5. \A q \in Req : pc'[q] # "plWait"
        <3> SUFFICES ASSUME NEW q \in Req, pc'[q] = "plWait" PROVE FALSE
            OBVIOUS
        <3> QED BY <1>0, <1>a, <2>1, <2>2 DEF Asking, InPermissionPrompt
    <2> QED BY <2>1, <2>2, <2>3, <2>4, <2>5
            DEF OneAsks, Asked, Asking, AllowanceNamesAsker, Pending
<1>2. CASE LockPermissionAnswer(r)
    <2>1. pc[r] = "plLock" /\ pc'[r] = "plWait" /\ owner'[PLAnswer] = r /\ UNCHANGED signals
        BY <1>2, <1>0, Names
           DEF LockPermissionAnswer, ArmAnswer, Acquire, Goto, PLAnswer, TypeOK, Mutex,
               AnswerMutex, InputAnswer
    <2>2. \A q \in Req : Asking(q) => q = r
        BY <1>a, <2>1 DEF InPermissionPrompt
    <2> QED BY <2>1, <2>2, <1>0, <1>s DEF OneAsks, Asked, Asking, AllowanceNamesAsker, Pending
<1>3. CASE WaitPermissionAnswer(r)
    <2>1. pc[r] = "plWait" /\ owner[PLAnswer] = Nobody /\ pc'[r] = "plRescan" /\ UNCHANGED signals
        BY <1>3, <1>0 DEF WaitPermissionAnswer, LockStep, Acquire, Goto, PLAnswer
    <2>2. ~Pending
        BY <2>1, ConstantsAssumption DEF OneAsks
    <2> QED BY <2>1, <2>2, <1>0 DEF OneAsks, Asked, Asking, AllowanceNamesAsker, Pending
<1>4. CASE RescanPermissionList(r)
    <2>1. pc[r] = "plRescan" /\ UNCHANGED signals
        BY <1>4 DEF RescanPermissionList
    <2>2. ~Pending
        BY <2>1, <1>a, PendingAsks DEF Asking, InPermissionPrompt
    <2> QED BY <2>1, <2>2, <1>0 DEF OneAsks, Asked, Asking, AllowanceNamesAsker, Pending
<1>5. CASE Elsewhere(r)
    <2>1. /\ \A q \in Req : Asking(q) => pc'[q] = pc[q]
          /\ \A q \in Req : pc'[q] = "plWait" => pc[q] = "plWait"
          /\ owner'[PLAnswer] = owner[PLAnswer]
        BY <1>5, <1>0 DEF Elsewhere, Asking
    <2>2. /\ \A i \in 1..Len(signals') : signals'[i].kind = "PL" =>
                 i \in 1..Len(signals) /\ signals'[i] = signals[i]
        <3>1. CASE signals' = signals
            BY <3>1
        <3>2. ASSUME NEW k \in {"RT", "RS"}, signals' = Append(signals, [kind |-> k, req |-> r])
              PROVE  \A i \in 1..Len(signals') : signals'[i].kind = "PL" =>
                        i \in 1..Len(signals) /\ signals'[i] = signals[i]
            <4>1. /\ Len(signals') = Len(signals) + 1 /\ signals'[Len(signals) + 1].kind = k
                  /\ \A i \in 1..Len(signals) : signals'[i] = signals[i]
                BY <3>2, <1>0
            <4> QED BY <4>1, <1>0
        <3> QED BY <3>1, <3>2, <1>5 DEF Elsewhere
    <2>3. Pending' => Pending
        BY <2>2 DEF Pending
    <2> QED BY <2>1, <2>2, <2>3, <1>0, <1>s DEF OneAsks, Asked, Asking, AllowanceNamesAsker
<1> QED BY <1>1, <1>2, <1>3, <1>4, <1>5, HandlerDelta

\* The GUI shows the question, answers it, or does something else.
LEMMA GuiDelta ==
    ASSUME WebTypeOK, GuiEvent
    PROVE  /\ UNCHANGED <<pc, req>>
           /\ \/ ShowPrompt
              \/ \E yes \in BOOLEAN : AnswerAllowance(yes)
              \/ UNCHANGED <<allowance, signals>> /\ owner'[PLAnswer] = owner[PLAnswer]
<1> USE Names DEF RequestedStatus, Release, InputAnswer, PLAnswer, Mutex, AnswerMutex
<1>1. UNCHANGED <<pc, req>>
    BY
       DEF GuiEvent, Prompt, Timer, Allowance, ConfirmRT, Progress, Sign, GuiReturns,
           Emitted, OnGui
<1>2. owner \in [Mutex -> Req \cup {Nobody}]
    BY DEF WebTypeOK, TypeOK
<1> DEFINE Else == UNCHANGED <<allowance, signals>> /\ owner'[PLAnswer] = owner[PLAnswer]
<1>3. RefuseTransaction => Else
    BY <1>2 DEF RefuseTransaction, popups
<1>4. ConfirmTransaction => Else
    BY <1>2 DEF ConfirmTransaction, popups
<1>5. OwnTransaction => Else
    BY <1>2 DEF OwnTransaction, popups
<1>6. CloseProgress => Else
    BY <1>2 DEF CloseProgress, popups
<1>7. AutoClose => Else
    BY <1>2 DEF AutoClose, popups
<1>8. RetryTransaction => Else
    BY <1>2 DEF RetryTransaction, popups
<1>9. RefuseSign => Else
    BY <1>2 DEF RefuseSign, popups
<1>10. RefuseSignEnd => Else
    BY <1>2 DEF RefuseSignEnd, popups
<1>11. ConfirmSign => Else
    BY <1>2 DEF ConfirmSign, popups
<1>12. ClearPermissions => Else
    BY <1>2 DEF ClearPermissions, popups, ClearWebsitePermissionList
<1>13. LoadWalletClick => Else
    BY <1>2 DEF LoadWalletClick, popups
<1>14. LoadWalletEnd => Else
    BY <1>2 DEF LoadWalletEnd, popups
<1>15. \A t \in tasks : TxStepFailed(t) => Else
    BY <1>2 DEF TxStepFailed, popups
<1>16. \A t \in tasks : TxSent(t) => Else
    BY <1>2 DEF TxSent, popups
<1>17. \A t \in tasks : TxNotSent(t) => Else
    BY <1>2 DEF TxNotSent, popups
<1>18. \A t \in tasks : TxConfirmed(t) => Else
    BY <1>2 DEF TxConfirmed, popups
<1>19. \A t \in tasks : TxNotConfirmed(t) => Else
    BY <1>2 DEF TxNotConfirmed, popups
<1>20. \A t \in tasks : MessageSigned(t) => Else
    BY <1>2 DEF MessageSigned, popups
<1>21. \A t \in tasks : WalletNotLoaded(t) \/ WalletLoaded(t) => Else
    BY <1>2 DEF WalletNotLoaded, WalletLoaded, popups
<1> HIDE DEF Else
<1>q. ShowPrompt \/ (\E yes \in BOOLEAN : AnswerAllowance(yes)) \/ Else
    BY <1>3, <1>4, <1>5, <1>6, <1>7, <1>8, <1>9, <1>10, <1>11,
       <1>12, <1>13, <1>14, <1>15, <1>16, <1>17, <1>18, <1>19, <1>20, <1>21
    DEF GuiEvent, Prompt, Timer, Allowance, ConfirmRT, Progress, Sign, GuiReturns,
        Emitted, OnGui, Slot
<1> QED BY <1>1, <1>q DEF Else

\* Every step of the wallet leaves one question at most.
LEMMA AskStep ==
    WebTypeOK /\ LockOwnership /\ OneAsks /\ [WebNext]_webVars => OneAsks'
<1> SUFFICES ASSUME WebTypeOK, LockOwnership, OneAsks, [WebNext]_webVars PROVE OneAsks'
    OBVIOUS
<1>0. TypeOK
    BY DEF WebTypeOK
<1>s. /\ signals \in Seq([kind : Kind, req : Req]) /\ Len(signals) \in Nat
      /\ \A i \in 1..Len(signals) : signals[i].req \in Req
    BY <1>0, SignalTypes
<1>1. ASSUME UNCHANGED <<pc, req, signals, allowance>>, owner'[PLAnswer] = owner[PLAnswer]
      PROVE  OneAsks'
    BY <1>1 DEF OneAsks, Asked, Asking, AllowanceNamesAsker, Pending
<1>2. CASE Arrive
    <2>1. ASSUME NEW c \in Session, Connect(c), UNCHANGED popups PROVE OneAsks'
        BY <1>1, <2>1 DEF Connect, server, gui, accounts, popups
    <2>2. ASSUME NEW r \in Req, NEW q \in Message, Receive(r, q), UNCHANGED popups PROVE OneAsks'
        <3>1. /\ pc[r] = "idle" /\ pc'[r] = "start" /\ UNCHANGED <<signals, owner, allowance>>
              /\ \A p \in Req : p # r => pc'[p] = pc[p] /\ req'[p] = req[p]
            BY <1>0, <2>2 DEF Receive, Goto, TypeOK, popups
        <3> QED BY <3>1, <1>s DEF OneAsks, Asked, Asking, AllowanceNamesAsker, Pending
    <2> QED BY <1>2, <2>1, <2>2 DEF Arrive
<1>3. ASSUME NEW r \in Req, HandlerStep(r) PROVE OneAsks'
    BY <1>0, <1>3, HandlerAsks DEF HandlerStep, popups
<1>4. ASSUME NEW t, StartTask(t) \/ TaskThrows(t) PROVE OneAsks'
    BY <1>1, <1>4 DEF StartTask, TaskThrows, vars, server, popups
<1>5. CASE GuiEvent
    <2>0. UNCHANGED <<pc, req>>
        BY <1>5, GuiDelta
    <2>1. CASE ShowPrompt
        <3>1. /\ signals # <<>> /\ signals' = Tail(signals) /\ UNCHANGED owner
            BY <2>1 DEF ShowPrompt
        <3>2. /\ Len(signals') = Len(signals) - 1 /\ Len(signals) \in Nat \ {0}
              /\ \A i \in 1..Len(signals') : signals'[i] = signals[i + 1] /\ i + 1 \in 1..Len(signals)
              /\ Head(signals) = signals[1]
            BY <1>s, <3>1
        <3>3. CASE Head(signals).kind = "PL"
            <4>1. /\ allowance' = req[signals[1].req].origin /\ Asked(1) /\ Asking(signals[1].req)
                BY <2>1, <3>2, <3>3 DEF ShowPrompt, Asked, OneAsks
            <4>2. \A i \in 1..Len(signals') : signals'[i].kind # "PL"
                <5> SUFFICES ASSUME NEW i \in 1..Len(signals'), signals'[i].kind = "PL" PROVE FALSE
                    OBVIOUS
                <5>1. i + 1 \in 1..Len(signals) /\ Asked(i + 1) /\ 1 \in 1..Len(signals)
                    BY <3>2 DEF Asked
                <5>2. i + 1 = 1
                    BY <4>1, <5>1 DEF OneAsks
                <5> QED BY <5>2, <3>2
            <4>3. Pending
                BY <3>2, <3>3 DEF Pending
            <4> QED BY <4>1, <4>2, <4>3, <2>0, <3>1, <3>2, <1>s
                    DEF OneAsks, Asked, Asking, AllowanceNamesAsker
        <3>4. CASE Head(signals).kind # "PL"
            <4>1. UNCHANGED allowance
                BY <2>1, <3>4 DEF ShowPrompt
            <4>2. Pending' => Pending
                BY <4>1, <3>2 DEF Pending
            <4>3. \A i \in 1..Len(signals') : Asked(i)' => Asked(i + 1) /\ signals'[i] = signals[i + 1]
                BY <3>2 DEF Asked
            <4>4. \A i, j \in 1..Len(signals') : Asked(i)' /\ Asked(j)' => i = j
                <5> SUFFICES ASSUME NEW i \in 1..Len(signals'), NEW j \in 1..Len(signals'),
                                    Asked(i)', Asked(j)'
                             PROVE  i = j
                    OBVIOUS
                <5>1. i + 1 = j + 1
                    BY <4>3, <3>2 DEF OneAsks
                <5> QED BY <5>1, <3>2
            <4>5. \A i \in 1..Len(signals') : Asked(i)' => Asking(signals[i].req)' /\ allowance' = Closed
                <5> SUFFICES ASSUME NEW i \in 1..Len(signals'), Asked(i)'
                             PROVE  Asking(signals[i].req)' /\ allowance' = Closed
                    OBVIOUS
                <5>1. i + 1 \in 1..Len(signals) /\ Asked(i + 1) /\ signals'[i] = signals[i + 1]
                    BY <4>3, <3>2
                <5>2. Asking(signals[i + 1].req) /\ allowance = Closed
                    BY <5>1 DEF OneAsks
                <5> QED BY <5>1, <5>2, <4>1, <2>0 DEF Asking
            <4>6. AllowanceNamesAsker'
                BY <4>1, <2>0 DEF OneAsks, AllowanceNamesAsker
            <4>7. \A r \in Req : Pending' /\ pc'[r] = "plWait" => owner'[PLAnswer] = r
                BY <4>2, <2>0, <3>1 DEF OneAsks
            <4> QED BY <4>4, <4>5, <4>6, <4>7 DEF OneAsks
        <3> QED BY <3>3, <3>4
    <2>2. ASSUME NEW yes \in BOOLEAN, AnswerAllowance(yes) PROVE OneAsks'
        <3>1. allowance # Closed /\ allowance' = Closed /\ UNCHANGED signals
            BY <2>2 DEF AnswerAllowance
        <3>2. ~Pending'
            BY <3>1, <1>s DEF Pending, OneAsks, Asked
        <3> QED BY <3>1, <3>2, <2>0 DEF OneAsks, Asked, AllowanceNamesAsker, Pending
    <2> QED BY <1>1, <1>5, <2>0, <2>1, <2>2, GuiDelta
<1>6. CASE UNCHANGED webVars
    BY <1>1, <1>6 DEF webVars, vars, server, popups
<1> QED BY <1>2, <1>3, <1>4, <1>5, <1>6 DEF WebNext

\* handleServer's lock chain with the one permission popup of the header: however many
\* websites ask at once, the popup names the one whose handler its buttons will wake.
THEOREM AskerIsNamed == WebSpec => []AllowanceNamesAsker
<1>1. WebInit => OneAsks
    BY DEF WebInit, Init, OneAsks, Asked, AllowanceNamesAsker, Pending
<1>2. OneAsks => AllowanceNamesAsker
    BY DEF OneAsks
<1>3. WebSpec => []LockOwnership
    BY PopupsImplement, LocksMatch DEF ImplementsHandleServer
<1> QED BY <1>1, <1>2, <1>3, WebTypeCorrect, AskStep, PTL DEF WebSpec
-----------------------------------------------------------------------------
\* Between the scan of the list and the question nobody adds the website to it: the one
\* entry point that does answers a question, and the handler that asked it holds
\* permissionListMutex.
Deciding(r) == pc[r] \in {"plGlobal", "plRequest", "plAsk"}
StillUnset ==
    \A r \in Req : Deciding(r) /\ req[r].origin \in Origin
                     => permissionList[req[r].origin] = "unset"

\* permissionListMutex has one owner.
LEMMA OneScans ==
    ASSUME LockOwnership, NEW r \in Req, NEW q \in Req,
           pc[r] \in InPermission, pc[q] \in InPermission
    PROVE  r = q
<1>1. Held(r, "permissionListMutex") /\ Held(q, "permissionListMutex")
    BY DEF Held
<1> QED BY <1>1 DEF LockOwnership, OwnedMutex

\* A handler decides only about a website it did not find, and changes no entry.
LEMMA HandlerDecides ==
    ASSUME TypeOK, NEW r \in Req, Handler(r)
    PROVE  /\ UNCHANGED <<permissionList, req>> /\ \A q \in Req : q # r => pc'[q] = pc[q]
           /\ Deciding(r)' => Deciding(r) \/ Known(r) = "unset"
           /\ pc[r] = "plAsk" /\ pc'[r] = "plLock" => req[r].origin \in Origin
<1> USE Names DEF TypeOK, Goto, Deciding, gui, accounts
<1>1. CASE AnswerDirectly(r)
    BY <1>1 DEF AnswerDirectly
<1>2. CASE NeedPermission(r)
    BY <1>2 DEF NeedPermission
<1>3. CASE ForwardToApi(r)
    BY <1>3 DEF ForwardToApi
<1>4. CASE ApiReply(r)
    BY <1>4 DEF ApiReply
<1>5. CASE LockPermissionList(r)
    BY <1>5 DEF LockPermissionList, LockStep
<1>6. CASE ScanPermissionList(r)
    BY <1>6 DEF ScanPermissionList, Permitted
<1>7. CASE LockGlobalForPermission(r)
    BY <1>7 DEF LockGlobalForPermission, LockStep
<1>8. CASE LockPermissionRequest(r)
    BY <1>8 DEF LockPermissionRequest, LockStep
<1>9. CASE AskForPermission(r)
    BY <1>9 DEF AskForPermission
<1>10. CASE LockPermissionAnswer(r)
    BY <1>10 DEF LockPermissionAnswer, ArmAnswer
<1>11. CASE WaitPermissionAnswer(r)
    BY <1>11 DEF WaitPermissionAnswer, LockStep
<1>12. CASE RescanPermissionList(r)
    BY <1>12 DEF RescanPermissionList, Permitted
<1>13. CASE LockGlobal(r)
    BY <1>13 DEF LockGlobal, LockStep
<1>14. CASE LockRequestMutex(r)
    BY <1>14 DEF LockRequestMutex, LockStep
<1>15. CASE LockInputRequest(r)
    BY <1>15 DEF LockInputRequest, LockStep
<1>16. CASE LockInputAnswer(r)
    BY <1>16 DEF LockInputAnswer, ArmAnswer
<1>17. CASE AskUser(r)
    BY <1>17 DEF AskUser
<1>18. CASE MissingField(r)
    BY <1>18 DEF MissingField
<1>19. CASE WaitInputAnswer(r)
    BY <1>19 DEF WaitInputAnswer, LockStep
<1>20. CASE ReadStatus(r)
    BY <1>20 DEF ReadStatus
<1>21. CASE LockPosRequest(r)
    BY <1>21 DEF LockPosRequest, LockStep
<1>22. CASE WriteResponse(r)
    BY <1>22 DEF WriteResponse
<1>23. CASE ScanThrows(r)
    BY <1>23 DEF ScanThrows
<1>24. CASE AskThrows(r)
    BY <1>24 DEF AskThrows
<1> QED BY <1>1, <1>2, <1>3, <1>4, <1>5, <1>6, <1>7, <1>8, <1>9, <1>10, <1>11, <1>12,
           <1>13, <1>14, <1>15, <1>16, <1>17, <1>18, <1>19, <1>20, <1>21, <1>22, <1>23, <1>24
        DEF Handler

\* What the GUI thread does to the list: answer the one question, empty it, or load
\* another one while no handler runs.
LEMMA GuiLists ==
    ASSUME WebTypeOK, GuiEvent
    PROVE  \/ UNCHANGED permissionList
           \/ allowance # Closed
           \/ permissionList' = EmptyList
           \/ \A r \in Req : ~Running(r)
<1> DEFINE Lists == \/ UNCHANGED permissionList
                    \/ allowance # Closed
                    \/ permissionList' = EmptyList
                    \/ \A r \in Req : ~Running(r)
<1> USE DEF RequestedStatus, gui, accounts
<1>1. ShowPrompt => Lists
    BY DEF ShowPrompt
<1>2. \A yes \in BOOLEAN : AnswerAllowance(yes) => Lists
    BY DEF AnswerAllowance
<1>3. RefuseTransaction => Lists
    BY DEF RefuseTransaction
<1>4. ConfirmTransaction => Lists
    BY DEF ConfirmTransaction
<1>5. OwnTransaction => Lists
    BY DEF OwnTransaction
<1>6. CloseProgress => Lists
    BY DEF CloseProgress
<1>7. AutoClose => Lists
    BY DEF AutoClose
<1>8. RetryTransaction => Lists
    BY DEF RetryTransaction
<1>9. RefuseSign => Lists
    BY DEF RefuseSign
<1>10. RefuseSignEnd => Lists
    BY DEF RefuseSignEnd
<1>11. ConfirmSign => Lists
    BY DEF ConfirmSign
<1>12. ClearPermissions => Lists
    BY DEF ClearPermissions, ClearWebsitePermissionList, SetPermissionList
<1>13. LoadWalletClick => Lists
    BY DEF LoadWalletClick
<1>14. LoadWalletEnd => Lists
    BY DEF LoadWalletEnd, LoadWallet
<1>15. \A t \in tasks : TxStepFailed(t) => Lists
    BY DEF TxStepFailed
<1>16. \A t \in tasks : Slot(t) => Lists
    BY DEF Slot, TxSent, TxNotSent, TxConfirmed, TxNotConfirmed, MessageSigned,
       WalletNotLoaded, WalletLoaded, StopForWallet
<1> HIDE DEF Lists
<1>q. Lists
    BY <1>1, <1>2, <1>3, <1>4, <1>5, <1>6, <1>7, <1>8, <1>9, <1>10, <1>11,
       <1>12, <1>13, <1>14, <1>15, <1>16
    DEF GuiEvent, Prompt, Timer, Allowance, ConfirmRT, Progress, Sign, GuiReturns,
        Emitted, OnGui
<1> QED BY <1>q DEF Lists

\* Every step of the wallet keeps the website off the list until it is asked about.
LEMMA UnsetStep ==
    WebTypeOK /\ LockOwnership /\ OneAsks /\ StillUnset /\ [WebNext]_webVars => StillUnset'
<1> SUFFICES ASSUME WebTypeOK, LockOwnership, OneAsks, StillUnset, [WebNext]_webVars
             PROVE  StillUnset'
    OBVIOUS
<1>0. TypeOK
    BY DEF WebTypeOK
<1>1. ASSUME UNCHANGED <<pc, req, permissionList>> PROVE StillUnset'
    BY <1>1 DEF StillUnset, Deciding
<1>2. CASE Arrive
    <2>1. ASSUME NEW c \in Session, Connect(c) PROVE StillUnset'
        BY <1>1, <2>1 DEF Connect, server, gui, accounts
    <2>2. ASSUME NEW r \in Req, NEW q \in Message, Receive(r, q) PROVE StillUnset'
        <3>1. /\ pc'[r] = "start" /\ UNCHANGED permissionList
              /\ \A p \in Req : p # r => pc'[p] = pc[p] /\ req'[p] = req[p]
            BY <1>0, <2>2 DEF Receive, Goto, TypeOK
        <3> QED BY <3>1 DEF StillUnset, Deciding
    <2> QED BY <1>2, <2>1, <2>2 DEF Arrive
<1>3. ASSUME NEW r \in Req, HandlerStep(r) PROVE StillUnset'
    <2>1. Handler(r)
        BY <1>3 DEF HandlerStep
    <2>2. req[r].origin \in Origin => Known(r) = permissionList[req[r].origin]
        BY ConstantsAssumption DEF Known
    <2> QED BY <1>0, <2>1, <2>2, HandlerDecides DEF StillUnset, Deciding
<1>4. ASSUME NEW t, StartTask(t) \/ TaskThrows(t) PROVE StillUnset'
    BY <1>1, <1>4 DEF StartTask, TaskThrows, vars, server, gui, accounts
<1>5. CASE GuiEvent
    <2>0. UNCHANGED <<pc, req>>
        BY <1>5, GuiDelta
    <2>1. CASE allowance # Closed
        <3>1. PICK q \in Req : Asking(q)
            BY <1>0, <2>1, PendingAsks DEF Pending
        <3>2. \A r \in Req : ~Deciding(r)
            <4> SUFFICES ASSUME NEW r \in Req, Deciding(r) PROVE FALSE
                OBVIOUS
            <4>1. pc[r] \in InPermission /\ pc[q] \in InPermission /\ pc[r] # pc[q]
                BY <3>1 DEF Asking, Deciding, InPermission, InPermissionPrompt
            <4> QED BY <4>1, OneScans
        <3> QED BY <2>0, <3>2 DEF StillUnset, Deciding
    <2>2. CASE permissionList' = EmptyList
        BY <2>0, <2>2 DEF StillUnset, Deciding, EmptyList
    <2>3. CASE \A r \in Req : ~Running(r)
        BY <2>0, <2>3 DEF StillUnset, Deciding, Running, Thrown
    <2> QED BY <1>1, <1>5, <2>0, <2>1, <2>2, <2>3, GuiLists
<1>6. CASE UNCHANGED webVars
    BY <1>1, <1>6 DEF webVars, vars, server, gui, accounts
<1> QED BY <1>2, <1>3, <1>4, <1>5, <1>6 DEF WebNext

\* Only a handler that knows the website asks about it.
LEMMA AskerKnows ==
    WebTypeOK /\ StillUnset /\ [WebNext]_webVars
      => [\A r \in Req : pc[r] = "plAsk" /\ pc'[r] = "plLock"
                          => permissionList[req[r].origin] = "unset"]_webVars
<1> SUFFICES ASSUME WebTypeOK, StillUnset, WebNext,
                    NEW r \in Req, pc[r] = "plAsk", pc'[r] = "plLock"
             PROVE  permissionList[req[r].origin] = "unset"
    OBVIOUS
<1>1. TypeOK
    BY DEF WebTypeOK
<1>2. req[r].origin \in Origin
  <2>1. CASE Arrive
      BY <1>1, <2>1 DEF Arrive, Connect, Receive, Goto, server, TypeOK
  <2>2. ASSUME NEW q \in Req, HandlerStep(q) PROVE req[r].origin \in Origin
      BY <1>1, <2>2, HandlerDecides DEF HandlerStep
  <2>3. ASSUME NEW t, StartTask(t) \/ TaskThrows(t) PROVE FALSE
      BY <2>3 DEF StartTask, TaskThrows, vars, server
  <2>4. CASE GuiEvent
      BY <2>4, GuiDelta
  <2> QED BY <2>1, <2>2, <2>3, <2>4 DEF WebNext
<1> QED BY <1>2 DEF StillUnset, Deciding

\* However many requests of a website run at the time, it is asked about only while the
\* list has no entry for it.
THEOREM SitesAskedOnce == WebSpec => OneQuestionPerSite
<1> DEFINE Inv == LockOwnership /\ OneAsks /\ StillUnset
<1>1. WebInit => OneAsks /\ StillUnset
    BY DEF WebInit, Init, OneAsks, Asked, AllowanceNamesAsker, Pending, StillUnset, Deciding
<1>2. WebSpec => []LockOwnership
    BY PopupsImplement, LocksMatch DEF ImplementsHandleServer
<1> QED BY <1>1, <1>2, AskerKnows, WebTypeCorrect, AskStep, UnsetStep, PTL
        DEF WebSpec, OneQuestionPerSite
=============================================================================
