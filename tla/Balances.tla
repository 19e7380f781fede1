------------------------------ MODULE Balances ------------------------------
(***************************************************************************)
(* What the wallet shows of its accounts: the header with coin, tokens and *)
(* nonce of the current account, and the list of accounts with a balance   *)
(* each.  Pool tasks ask the node and emit what they got; answers come in  *)
(* any order, long after the account was changed.  A value is represented  *)
(* by the account it belongs to, a nonce also by the transactions it saw.  *)
(***************************************************************************)
EXTENDS Naturals, Sequences

CONSTANTS
    Account,
    Slot,        \* bound: pool tasks at a time
    MaxChanges,  \* bound: account changes, transactions and failed requests
    Nobody

ASSUME BalancesAssumption == Nobody \notin Account /\ MaxChanges \in Nat

VARIABLES
    currentAddress,
    coin, tokenList,  \* whose balances the header shows
    accountNonce,     \* [of, value], the nonce of the next transaction
    count,            \* external: transactions of each account on chain
    running,          \* pool tasks
    listed,           \* accounts screen: whose balance stands next to each account
    changes,          \* what happened so far
    unordered         \* history: a batch was answered out of order

balVars == <<currentAddress, coin, tokenList, accountNonce, count, running, listed,
             changes, unordered>>

NoTask == [type |-> "none", of |-> Nobody, got |-> Nobody]

BalInit ==
    /\ currentAddress \in Account
    /\ coin = Nobody /\ tokenList = Nobody
    /\ accountNonce = [of |-> Nobody, value |-> 0]
    /\ count = [a \in Account |-> 0]
    /\ running = [s \in Slot |-> NoTask]
    /\ listed = [a \in Account |-> Nobody]
    /\ changes = 0 /\ unordered = FALSE

Change == changes < MaxChanges /\ changes' = changes + 1

Run(s, type, a) ==
    running[s] = NoTask /\ running' = [running EXCEPT ![s] = [type |-> type, of |-> a, got |-> Nobody]]
End(s) == running' = [running EXCEPT ![s] = NoTask]

\* The user chooses an account: getAddress.  Its refresh is the timer's.
ChooseAccount(a) ==
    /\ Change /\ a # currentAddress
    /\ currentAddress' = a
    /\ UNCHANGED <<coin, tokenList, accountNonce, count, running, listed, unordered>>

\* balancesTimer: getAccountAllBalances, and updateAccountNonce as a task of its own.
Refresh_Once(s, type) ==
    /\ accountNonce.of = Nobody /\ Run(s, type, currentAddress)
    /\ UNCHANGED <<currentAddress, coin, tokenList, accountNonce, count, listed, changes, unordered>>

Refresh(s, type) ==
    /\ Run(s, type, currentAddress)
    /\ UNCHANGED <<currentAddress, coin, tokenList, accountNonce, count, listed, changes, unordered>>

\* fetchAccounts: getAllAVAXBalances for all addresses.
FetchAccounts(s) ==
    /\ Change
    /\ Run(s, "list", Nobody)
    /\ listed' = [a \in Account |-> Nobody]
    /\ UNCHANGED <<currentAddress, coin, tokenList, accountNonce, count, unordered>>

\* The node answers.  "The API can eventually return unordered ID's".
Orders == {f \in [Account -> Account] : \A a, b \in Account : f[a] = f[b] => a = b}

Answer(s) ==
    LET t == running[s]
        replies == CASE t.type = "nonce" -> {count[t.of]}
                     [] t.type = "balances" -> {t.of}
                     [] t.type = "list" -> Orders IN
    /\ t.type # "none" /\ t.got = Nobody
    /\ \E got \in replies :
          /\ running' = [running EXCEPT ![s].got = got]
          /\ unordered' = (unordered \/ (t.type = "list" /\ \E a \in Account : got[a] # a))
    /\ UNCHANGED <<currentAddress, coin, tokenList, accountNonce, count, listed, changes>>

\* No answer, or one without result: the task ends in an exception.
RequestFails(s) ==
    /\ Change
    /\ running[s].type # "none"
    /\ End(s)
    /\ UNCHANGED <<currentAddress, coin, tokenList, accountNonce, count, listed, unordered>>

\* onAccountAllBalancesUpdated: the coin is taken before the address is compared.
TokensFor_Kept(a) == IF a = currentAddress THEN a ELSE tokenList
TokensFor(a) == IF a = currentAddress THEN a ELSE Nobody

BalancesUpdated(s) ==
    /\ running[s].type = "balances" /\ running[s].got # Nobody
    /\ coin' = running[s].got
    /\ tokenList' = TokensFor(running[s].of)
    /\ End(s)
    /\ UNCHANGED <<currentAddress, accountNonce, count, listed, changes, unordered>>

\* onAccountNonceUpdate: the signal does not say whose nonce it is.
NonceUpdated(s) ==
    /\ running[s].type = "nonce" /\ running[s].got # Nobody
    /\ accountNonce' = [of |-> running[s].of, value |-> running[s].got]
    /\ End(s)
    /\ UNCHANGED <<currentAddress, coin, tokenList, count, listed, changes, unordered>>

\* onAccountAVAXBalancesUpdated for each reply, taken by its place in the array.
ListUpdated(s) ==
    /\ running[s].type = "list" /\ running[s].got # Nobody
    /\ listed' = running[s].got
    /\ End(s)
    /\ UNCHANGED <<currentAddress, coin, tokenList, accountNonce, count, changes, unordered>>

\* makeTransaction with accountNonce: used before, it is refused; ahead, it waits.
Transact ==
    /\ Change
    /\ accountNonce.of # Nobody
    /\ count' = [count EXCEPT ![currentAddress] = IF @ = accountNonce.value THEN @ + 1 ELSE @]
    /\ UNCHANGED <<currentAddress, coin, tokenList, accountNonce, running, listed, unordered>>

TaskStep(s) == Answer(s) \/ BalancesUpdated(s) \/ NonceUpdated(s) \/ ListUpdated(s)

BalNext ==
    \/ Transact
    \/ \E a \in Account : ChooseAccount(a)
    \/ \E s \in Slot : \/ TaskStep(s) \/ FetchAccounts(s) \/ RequestFails(s)
                       \/ \E type \in {"balances", "nonce"} : Refresh(s, type)

BalSpec == BalInit /\ [][BalNext]_balVars
-----------------------------------------------------------------------------
\* Properties

\* Types; the header always has an account.
BalTypeOK ==
    /\ currentAddress \in Account /\ {coin, tokenList} \subseteq Account \cup {Nobody}
    /\ accountNonce.of \in Account \cup {Nobody} /\ accountNonce.value \in Nat
    /\ \A s \in Slot : running[s].type \in {"none", "list", "nonce", "balances"}
    /\ changes \in 0..MaxChanges

\* The header never adds up coin and tokens of different accounts, although replies for
\* an account that is no longer the current one still set the coin; the list shows next
\* to each account its own balance unless a batch was answered out of order, as
\* getAllAVAXBalances takes replies by position where getAccountAllBalances looks at
\* their ids.
BalancesMatch ==
    /\ tokenList # Nobody => coin = tokenList
    /\ unordered \/ \A a \in Account : listed[a] \in {a, Nobody}

\* The header shows balances and nonce of the current account, as the chain has them.
HeaderIsCurrent ==
    /\ coin = currentAddress /\ tokenList = currentAddress
    /\ accountNonce = [of |-> currentAddress, value |-> count[currentAddress]]
=============================================================================
