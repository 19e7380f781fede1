----------------------------- MODULE WebPrompts -----------------------------
(***************************************************************************)
(* The GUI side of handleServer's questions: the popups of                 *)
(* qml/components/AVMEAccountHeader.qml and the pool tasks they start.     *)
(*                                                                         *)
(* The GUI thread runs one event at a time: it shows the prompt of a       *)
(* queued signal, lets the user press a button of an open popup, or runs   *)
(* the slot of a signal that a pool task emits (the task's last step and   *)
(* that slot are one action here; a signal that waits in the queue cannot  *)
(* be told from a task that has not emitted it yet).  The pool holds       *)
(* handlers and GUI tasks alike and runs at most PoolSize of them.         *)
(***************************************************************************)
EXTENDS HandleServer, FiniteSets

CONSTANTS
    Own,          \* the user's own transactions, made on another screen
    MaxTx,        \* bound: transactions made for one request
    Confirmed,    \* bound: the requests whose transaction the user may confirm
    PoolSize,     \* QThreadPool::maxThreadCount, less the server's own task
    ScreenPopup,  \* 1 if the current screen has a progress popup as well, for
                  \* one transaction of the user's own, else 0
    Faults,       \* which of Fault happen
    Closed        \* a popup that is not shown

\* "step": a transaction cannot be built or signed.  "throw": the node's reply
\* is empty and json::parse throws.  "clear": the user clears the list of
\* permissions.  "wallet": the user loads a wallet.
Fault == {"step", "throw", "clear", "wallet"}

\* A transaction id or a signature, tagged with the request it was made for.
Tx == [by : Req \cup {Own}, n : 1..MaxTx]

ASSUME WebPromptsAssumption ==
    /\ MaxTx \in Nat \ {0} /\ PoolSize \in Nat \ {0} /\ ScreenPopup \in {0, 1}
    /\ Faults \subseteq Fault /\ Confirmed \subseteq Req
    /\ Own \notin Req /\ Closed \notin Req \cup Origin
    /\ Tx \subseteq Answer

VARIABLES
    allowance,      \* confirmWebsiteAllowance: the website it asks about
    confirmRT,      \* the request confirmRT shows
    confirmSign,    \* the request confirmSign shows
    userHasSigned,  \* property of confirmSign
    progress,       \* txProgressPopup of the header and its properties
    queued, tasks,  \* GUI tasks waiting for a pool thread, and running
    doomed,         \* makeTransaction tasks whose build or signature failed
    made,           \* how many transactions were started for each request
    guiThread       \* idle, or inside "back" (confirmSign) or "closing"

popups == <<allowance, confirmRT, confirmSign, userHasSigned, progress>>
pool == <<queued, tasks, doomed, made>>
webVars == <<vars, popups, pool, guiThread>>

WebInit ==
    /\ Init
    /\ allowance = Closed /\ confirmRT = Closed /\ confirmSign = Closed
    /\ userHasSigned = FALSE
    /\ progress = [open |-> FALSE, by |-> Own, close |-> FALSE, retry |-> FALSE,
                   alreadyTransmitted |-> FALSE, autoClose |-> FALSE]
    /\ queued = {} /\ tasks = {} /\ doomed = {}
    /\ made = [b \in Req \cup {Own} |-> 0]
    /\ guiThread = "idle"
-----------------------------------------------------------------------------
\* The thread pool

Busy == Cardinality(tasks)
        + Cardinality({r \in Req : Running(r) /\ pc[r] # "start"})

HandlerStep(r) ==
    /\ pc[r] = "start" => Busy < PoolSize
    /\ Handler(r)
    /\ UNCHANGED <<popups, pool, guiThread>>

StartTask(t) ==
    /\ Busy < PoolSize
    /\ queued' = queued \ {t}
    /\ tasks' = tasks \cup {t}
    /\ UNCHANGED <<vars, popups, doomed, made, guiThread>>

MakeTask(b) == [type |-> "make", tx |-> [by |-> b, n |-> made[b] + 1], copy |-> 0]

\* txStart: the transaction's data is remembered by the popup, randomID_ is not,
\* so every progress popup listens to every transaction.
TxStart(b) ==
    /\ made[b] < MaxTx
    /\ queued' = queued \cup {MakeTask(b)}
    /\ made' = [made EXCEPT ![b] = @ + 1]
    /\ UNCHANGED <<tasks, doomed>>

\* The popup as txStart leaves it: a running autoCloseTimer is not stopped.
FreshProgress(b) ==
    [open |-> TRUE, by |-> b, close |-> FALSE, retry |-> FALSE,
     alreadyTransmitted |-> FALSE, autoClose |-> progress.autoClose]

EndTask(t) == tasks' = tasks \ {t}
-----------------------------------------------------------------------------
\* Prompts and buttons

ShowPrompt ==
    LET s == Head(signals) IN
    /\ signals # <<>>
    /\ signals' = Tail(signals)
    /\ \/ /\ s.kind = "PL"
          /\ allowance' = req[s.req].origin
          /\ UNCHANGED <<confirmRT, confirmSign>>
       \/ /\ s.kind = "RT"
          /\ confirmRT' = s.req
          /\ UNCHANGED <<allowance, confirmSign>>
       \/ /\ s.kind = "RS"
          /\ confirmSign' = s.req
          /\ UNCHANGED <<allowance, confirmRT>>
    /\ UNCHANGED <<session, owner, gui, userHasSigned, progress, pool, guiThread>>

AnswerAllowance_StaysOpen(yes) ==
    /\ allowance # Closed
    /\ AddToPermissionList(allowance, yes)
    /\ UNCHANGED <<session, signals, popups, pool, guiThread>>

AnswerAllowance(yes) ==
    /\ allowance # Closed
    /\ AddToPermissionList(allowance, yes)
    /\ allowance' = Closed
    /\ UNCHANGED <<session, signals, confirmRT, confirmSign, userHasSigned,
                   progress, pool, guiThread>>

RefuseTransaction_WrongMutex ==
    /\ confirmRT # Closed
    /\ confirmRT' = Closed
    /\ status' = [status EXCEPT !["RT"] = Refused]
    /\ Release({InputRequest["RT"]})
    /\ answered' = answered \cup {"RT"}
    /\ UNCHANGED <<serving, permissionList, config, wallet, accounts, consented, session,
                   signals, allowance, confirmSign, userHasSigned, progress,
                   pool, guiThread>>

RefuseTransaction ==
    /\ confirmRT # Closed
    /\ confirmRT' = Closed
    /\ RequestedStatus("RT", Refused)
    /\ UNCHANGED <<session, signals, allowance, confirmSign, userHasSigned,
                   progress, pool, guiThread>>

ConfirmTransaction ==
    /\ confirmRT \in Confirmed
    /\ confirmRT' = Closed
    /\ TxStart(confirmRT)
    /\ progress' = FreshProgress(confirmRT)
    /\ UNCHANGED <<session, signals, owner, gui, allowance, confirmSign,
                   userHasSigned, guiThread>>

\* The user's own transaction starts on its screen, which has its own popup.
OwnTransaction ==
    /\ made[Own] < ScreenPopup
    /\ TxStart(Own)
    /\ UNCHANGED <<session, signals, owner, gui, popups, guiThread>>

CloseProgress ==
    /\ progress.open /\ progress.close
    /\ progress' = [progress EXCEPT !.open = FALSE, !.autoClose = FALSE]
    /\ IF progress.alreadyTransmitted THEN UNCHANGED <<owner, gui>>
       ELSE RequestedStatus("RT", Refused)
    /\ UNCHANGED <<session, signals, allowance, confirmRT, confirmSign,
                   userHasSigned, pool, guiThread>>

\* autoCloseTimer, started by the last confirmation, runs out.
AutoClose ==
    /\ progress.autoClose
    /\ progress' = [progress EXCEPT !.open = FALSE, !.autoClose = FALSE]
    /\ UNCHANGED <<session, signals, owner, gui, allowance, confirmRT,
                   confirmSign, userHasSigned, pool, guiThread>>

RetryTransaction ==
    /\ progress.open /\ progress.retry
    /\ TxStart(progress.by)
    /\ progress' = FreshProgress(progress.by)
    /\ UNCHANGED <<session, signals, owner, gui, allowance, confirmRT,
                   confirmSign, userHasSigned, guiThread>>

\* Back of confirmSign: close() runs clean(), which answers only if no message
\* was ever signed; then the button answers the transaction prompt as well.
RefuseSign ==
    /\ confirmSign # Closed
    /\ confirmSign' = Closed
    /\ IF userHasSigned THEN UNCHANGED <<owner, gui>>
       ELSE RequestedStatus("RS", Refused)
    /\ guiThread' = "back"
    /\ UNCHANGED <<session, signals, allowance, confirmRT, userHasSigned,
                   progress, pool>>

RefuseSignEnd ==
    /\ RequestedStatus("RT", Refused)
    /\ guiThread' = "idle"
    /\ UNCHANGED <<session, signals, popups, pool>>

\* Ok of confirmSign starts signMessage; the popup stays open meanwhile.
ConfirmSign ==
    LET t == [type |-> "sign", tx |-> [by |-> confirmSign, n |-> 1], copy |-> 0] IN
    /\ confirmSign # Closed
    /\ t \notin queued \cup tasks
    /\ queued' = queued \cup {t}
    /\ UNCHANGED <<session, signals, owner, gui, popups, tasks, doomed,
                   made, guiThread>>

ClearPermissions ==
    /\ "clear" \in Faults
    /\ ClearWebsitePermissionList
    /\ UNCHANGED <<session, signals, owner, popups, pool, guiThread>>

LoadTask == [type |-> "load", tx |-> [by |-> Own, n |-> 1], copy |-> 0]

\* loadWallet of the screen: the wallet that is loaded is closed, the next one is opened
\* in a task.  The popups are modal: the screen cannot be used while one is shown.
LoadWalletClick ==
    /\ "wallet" \in Faults
    /\ allowance = Closed /\ confirmRT = Closed /\ confirmSign = Closed /\ ~progress.open
    /\ LoadTask \notin queued \cup tasks
    /\ CloseWallet
    /\ queued' = queued \cup {LoadTask}
    /\ UNCHANGED <<session, owner, signals, serving, status, permissionList, config, wallet,
                   chosen, answered, consented, popups, tasks, doomed, made,
                   guiThread>>

\* walletLoaded(false): the passphrase is wrong, and all stays as it is.
WalletNotLoaded(t) ==
    /\ t \in tasks /\ t.type = "load"
    /\ EndTask(t)
    /\ UNCHANGED <<session, signals, owner, gui, popups, queued, doomed, made,
                   guiThread>>

\* walletLoaded(true): cleanAndCloseWallet stops the server, then the GUI thread itself
\* waits until the pool is empty.
WalletLoaded(t) ==
    /\ t \in tasks /\ t.type = "load"
    /\ EndTask(t)
    /\ StopForWallet
    /\ guiThread' = "closing"
    /\ UNCHANGED <<signals, owner, popups, queued, doomed, made>>

\* The pool is empty when no handler runs: the GUI's own tasks need nobody to
\* end, and the slots of what they emitted run after the GUI thread is back.
LoadWalletEnd ==
    /\ \E w \in Wallet : LoadWallet(w)
    /\ guiThread' = "idle"
    /\ UNCHANGED <<signals, owner, popups, pool>>
-----------------------------------------------------------------------------
\* Slots of the progress and signature popups

\* txBuilt(false) or txSigned(false); makeTransaction goes on regardless.
TxStepFailed(t) ==
    /\ "step" \in Faults
    /\ t \in tasks \ doomed /\ t.type = "make"
    /\ doomed' = doomed \cup {t}
    /\ progress' = [progress EXCEPT !.close = TRUE, !.retry = FALSE]
    /\ UNCHANGED <<session, signals, owner, gui, allowance, confirmRT,
                   confirmSign, userHasSigned, queued, tasks, made,
                   guiThread>>

\* txSent(true): every progress popup starts a checkTransactionFor15s.
TxSent(t) ==
    /\ t \in tasks \ doomed /\ t.type = "make"
    /\ EndTask(t)
    /\ queued' = queued \cup
          {[type |-> "check", tx |-> t.tx, copy |-> c] : c \in 0..ScreenPopup}
    /\ UNCHANGED <<session, signals, owner, gui, popups, doomed, made, guiThread>>

\* txSent(false): the node refused the transaction.
TxNotSent(t) ==
    /\ t \in tasks /\ t.type = "make"
    /\ EndTask(t)
    /\ doomed' = doomed \ {t}
    /\ progress' = [progress EXCEPT !.close = TRUE, !.retry = TRUE]
    /\ UNCHANGED <<session, signals, owner, gui, allowance, confirmRT,
                   confirmSign, userHasSigned, queued, made, guiThread>>

\* txConfirmed(true): the header's popup answers the website's request.
TxConfirmed(t) ==
    /\ t \in tasks /\ t.type = "check"
    /\ EndTask(t)
    /\ RequestedStatus("RT", t.tx)
    /\ progress' = [progress EXCEPT !.close = TRUE, !.alreadyTransmitted = TRUE,
                                    !.autoClose = TRUE]
    /\ UNCHANGED <<session, signals, allowance, confirmRT, confirmSign,
                   userHasSigned, queued, doomed, made, guiThread>>

\* txConfirmed(false): not in a block after 15 seconds.
TxNotConfirmed(t) ==
    /\ t \in tasks /\ t.type = "check"
    /\ EndTask(t)
    /\ progress' = [progress EXCEPT !.close = TRUE, !.retry = TRUE]
    /\ UNCHANGED <<session, signals, owner, gui, allowance, confirmRT,
                   confirmSign, userHasSigned, queued, doomed, made,
                   guiThread>>

MessageSigned(t) ==
    /\ t \in tasks /\ t.type = "sign"
    /\ EndTask(t)
    /\ userHasSigned' = TRUE
    /\ RequestedStatus("RS", t.tx)
    /\ confirmSign' = Closed
    /\ UNCHANGED <<session, signals, allowance, confirmRT, progress, queued,
                   doomed, made, guiThread>>

\* An exception inside a task: it ends and emits nothing.
TaskThrows(t) ==
    /\ "throw" \in Faults
    /\ t \in tasks \ {LoadTask}
    /\ EndTask(t)
    /\ doomed' = doomed \ {t}
    /\ UNCHANGED <<vars, popups, queued, made, guiThread>>

Slot(t) == TxSent(t) \/ TxNotSent(t) \/ TxConfirmed(t) \/ TxNotConfirmed(t)
           \/ MessageSigned(t) \/ WalletNotLoaded(t) \/ WalletLoaded(t)

OnGui(A) == guiThread = "idle" /\ A /\ UNCHANGED <<pc, req, response, sent>>

Allowance == OnGui(\E yes \in BOOLEAN : AnswerAllowance(yes))
ConfirmRT == OnGui(RefuseTransaction \/ ConfirmTransaction)
Progress == OnGui(CloseProgress \/ RetryTransaction)
Sign == OnGui(RefuseSign \/ ConfirmSign)
Timer == OnGui(AutoClose)
Prompt == OnGui(ShowPrompt)
Emitted(t) == OnGui(Slot(t))
GuiReturns ==
    /\ \/ guiThread = "back" /\ RefuseSignEnd
       \/ guiThread = "closing" /\ LoadWalletEnd
    /\ UNCHANGED <<pc, req, response, sent>>

GuiEvent ==
    \/ Prompt \/ Timer \/ Allowance \/ ConfirmRT \/ Progress \/ Sign \/ GuiReturns
    \/ OnGui(OwnTransaction) \/ OnGui(ClearPermissions) \/ OnGui(LoadWalletClick)
    \/ \E t \in tasks : OnGui(TxStepFailed(t)) \/ Emitted(t)

Arrive == /\ \/ \E s \in Session : Connect(s)
             \/ \E r \in Req, q \in Message : Receive(r, q)
          /\ UNCHANGED <<popups, pool, guiThread>>

WebNext ==
    \/ Arrive
    \/ \E r \in Req : HandlerStep(r)
    \/ \E t \in queued : StartTask(t)
    \/ \E t \in tasks : TaskThrows(t)
    \/ GuiEvent

WebSpec == WebInit /\ [][WebNext]_webVars

Task == [type : {"make", "check", "sign", "load"}, tx : Tx, copy : {0, 1}]

\* Threads and tasks that can run do run, the GUI thread serves its queue, and
\* the user answers every popup that is in front of him in some way.
Fairness ==
    /\ \A r \in Req : WF_webVars(HandlerStep(r))
    /\ WF_webVars(\E t \in queued : StartTask(t))
    /\ WF_webVars(\E t \in tasks : Emitted(t))
    /\ WF_webVars(Prompt) /\ WF_webVars(Timer) /\ WF_webVars(GuiReturns)
    /\ WF_webVars(Allowance) /\ WF_webVars(ConfirmRT)
    /\ WF_webVars(Progress) /\ WF_webVars(Sign)

FairSpec == WebSpec /\ Fairness
-----------------------------------------------------------------------------
\* Properties

\* Types of the popups and of the tasks they start.
WebTypeOK ==
    /\ TypeOK
    /\ allowance \in Origin \cup {Closed}
    /\ confirmRT \in Req \cup {Closed} /\ confirmSign \in Req \cup {Closed}
    /\ userHasSigned \in BOOLEAN
    /\ progress \in [open : BOOLEAN, by : Req \cup {Own}, close : BOOLEAN,
                     retry : BOOLEAN, alreadyTransmitted : BOOLEAN,
                     autoClose : BOOLEAN]
    /\ queued \subseteq Task /\ tasks \subseteq Task
    /\ doomed \subseteq {t \in tasks : t.type = "make"}
    /\ made \in [Req \cup {Own} -> 0..MaxTx]
    /\ guiThread \in {"idle", "back", "closing"}

\* The popups only ever do to the mutexes, to RTtxid and RSmsg and to the
\* permission list what QmlSystem's entry points do: this system implements
\* HandleServer, so what holds there for every GUI holds here.
ImplementsHandleServer == Spec

\* A website is asked about once: when the question is emitted the list still
\* has no entry for it, however many of its requests run at the time.
OneQuestionPerSite ==
    [][\A r \in Req : pc[r] = "plAsk" /\ pc'[r] = "plLock"
          => permissionList[req[r].origin] = "unset"]_webVars

\* The website named in the permission popup is the one whose handler waits for
\* the answer, so the user never allows one site and wakes another.
AllowanceNamesAsker ==
    allowance # Closed =>
       \E r \in Req : pc[r] \in {"plLock", "plWait"} /\ req[r].origin = allowance

\* The transaction id or signature a request is answered with was made for it.
AnswerIsOwn ==
    \A r \in Req : response[r].type = "result" /\ KindOf(r) \in {"RT", "RS"}
                     /\ req[r].method # "eth_accounts"
                  => response[r].value.by = r

\* Three ways to strand a handler whose transaction was confirmed.  autoCloseTimer, left
\* running by an earlier transaction, closes the popup and with it the button that would
\* have answered.  A task that throws leaves the popup without any button.  And handlers
\* that wait for each other fill the pool, so that the task never gets a thread.
ClosedByTimer(r) == progress.by = r /\ ~progress.open /\ "RT" \notin answered
LeftByTask(r) == /\ progress.by = r /\ progress.open /\ ~progress.close
                 /\ \A t \in queued \cup tasks : t.tx.by # r
PoolExhausted(r) == tasks = {} /\ Busy = PoolSize /\ \E t \in queued : t.tx.by = r

\* "Unlock the mutex if the transaction was not transmitted to the plugin": a
\* handler that asked for a transaction goes on, if the user reacts to popups,
\* however the transaction fails and however often it is retried, but for the three
\* ways named above.
TransactionAnswered ==
    \A r \in Req : pc[r] = "wait" /\ KindOf(r) = "RT" ~>
       pc[r] = "done" \/ ClosedByTimer(r) \/ LeftByTask(r) \/ []PoolExhausted(r)

\* The same for a signature.
SignAnswered ==
    \A r \in Req : pc[r] = "wait" /\ KindOf(r) = "RS" ~> pc[r] = "done"

\* "which will unlock this thread after user input": the handler that asked for
\* permission goes on.
PermissionAnswered ==
    \A r \in Req : pc[r] = "plLock" ~> pc[r] \notin {"plLock", "plWait"}

\* Loading a wallet does not freeze the GUI.
WalletLoads == guiThread = "closing" ~> guiThread = "idle"
=============================================================================
