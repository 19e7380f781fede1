------------------------------ MODULE MCOutside -----------------------------
(***************************************************************************)
(* The parts of the wallet that deal with the world outside the web server *)
(* and share no variable with each other: a behaviour is one of one part,  *)
(* chosen at the start, while the others rest in their initial state.      *)
(***************************************************************************)
EXTENDS StoredPass, MCAppInstall, Ledger, Balances, Requests, ApiConfig, Amounts

VARIABLE part

outsideVars == <<passVars, appVars, ledgerVars, balVars, reqVars, apiVars, amountVars, part>>

SomeMessages ==
    [tx : {TRUE}, size : {20, 133, 134, 300}, path : {17}] \cup
    [tx : {TRUE}, size : {129, 130}, path : {21}] \cup
    [tx : {FALSE}, size : {0, 20, 129, 130}, path : {17}] \cup
    [tx : {FALSE}, size : {125, 126, 300}, path : {21}]
SomePanel == <<1, 2, 1>>

AnyWallet == CHOOSE w \in Wallet : TRUE
AnyMessage == CHOOSE m \in Messages : TRUE
AnyAccount == CHOOSE a \in Account : TRUE
AnyInput == [fn |-> "none"]

\* A part that rests has one initial state.
Resting ==
    /\ IF part = "pass" THEN TRUE ELSE wallet = AnyWallet
    /\ IF part = "ledger" THEN TRUE
       ELSE device = "own" /\ device_handle = "null" /\ msg = AnyMessage
    /\ IF part = "balances" THEN TRUE ELSE currentAddress = AnyAccount
    /\ IF part = "api" THEN TRUE ELSE stored = Unset
    /\ IF part = "amounts" THEN AmountInit ELSE input = AnyInput /\ output = NotYet

OutsideInit ==
    /\ part \in {"pass", "app", "ledger", "balances", "requests", "api", "amounts"}
    /\ Resting
    /\ PassInit /\ AppInit /\ LedgerInit /\ BalInit /\ ReqInit /\ ApiInit

Others(p) ==
    /\ part = p /\ UNCHANGED part
    /\ p # "pass" => UNCHANGED passVars
    /\ p # "app" => UNCHANGED appVars
    /\ p # "ledger" => UNCHANGED ledgerVars
    /\ p # "balances" => UNCHANGED balVars
    /\ p # "requests" => UNCHANGED reqVars
    /\ p # "api" => UNCHANGED apiVars
    /\ p # "amounts" => UNCHANGED amountVars

OutsideNext ==
    \/ part = "pass" /\ PassNext /\ Others("pass")
    \/ part = "app" /\ AppNext /\ Others("app")
    \/ part = "ledger" /\ LedgerNext /\ Others("ledger")
    \/ part = "balances" /\ BalNext /\ Others("balances")
    \/ part = "requests" /\ ReqNext /\ Others("requests")
    \/ part = "api" /\ ApiNext /\ Others("api")
    \/ part = "amounts" /\ Compute /\ Others("amounts")

\* Pool tasks and threads go on once started, except in a download of a file; the timer
\* of the header keeps firing; the user of the device answers.
OutsideFairness ==
    /\ WF_appVars(Operation)
    /\ WF_ledgerVars(LedgerStep)
    /\ \A s \in Slot : WF_balVars(TaskStep(s))
    /\ \A type \in {"balances", "nonce"} :
          SF_balVars(part = "balances" /\ \E s \in Slot : Refresh(s, type))
    /\ \A t \in Worker : WF_apiVars(ThreadStep(t))

OutsideSpec == OutsideInit /\ [][OutsideNext]_outsideVars /\ OutsideFairness

\* The types of each part.
OutsideTypeOK ==
    PassTypeOK /\ AppTypeOK /\ LedgerTypeOK /\ BalTypeOK /\ ReqTypeOK /\ ApiTypeOK

\* Once the user rests, the header comes to show balances and nonce of the current
\* account, as the chain has them, and stays so: a late reply for another account, which
\* the nonce signal does not even name, is overwritten by the timer's next one.
HeaderSettles == part = "balances" => <>[]HeaderIsCurrent
=============================================================================
