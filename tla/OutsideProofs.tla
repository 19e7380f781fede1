---------------------------- MODULE OutsideProofs ----------------------------
(***************************************************************************)
(* The parts that deal with the world outside the web server: the stored   *)
(* password, the balances on screen, the request builder and the Ledger    *)
(* device, each for any values of its constants; then all parts together.  *)
(***************************************************************************)
EXTENDS MCOutside, ClientProofs, AmountsProofs, FiniteSetTheorems, TLAPS

-----------------------------------------------------------------------------
\* The stored password.

\* What every step preserves: Expires alone is not inductive, because Second needs
\* a thread that is asleep (Guarded) and asleep in time (ExpiresInv).
IInv == PassTypeOK /\ Guarded /\ Expires /\ ExpiresInv

\* The invariant holds when nothing was stored yet.
LEMMA InitIInv == PassInit => IInv
BY StoredPassAssumption DEF PassInit, IInv, PassTypeOK, Guarded, Expires, ExpiresInv

\* Every step of startPassThread, of a clearing thread, of the user and of the
\* clock keeps the types of the fields.
LEMMA TypeStep == PassTypeOK /\ [PassNext]_passVars => PassTypeOK'
<1> SUFFICES ASSUME PassTypeOK, [PassNext]_passVars PROVE PassTypeOK'
    OBVIOUS
<1> USE StoredPassAssumption DEF PassTypeOK
<1>1. CASE StorePass BY <1>1 DEF StorePass
<1>2. CASE SetDeadline BY <1>2 DEF SetDeadline
<1>3. CASE ResetPass BY <1>3 DEF ResetPass
<1>4. CASE Second BY <1>4 DEF Second
<1>5. ASSUME NEW t \in Thread, Spawn(t) PROVE PassTypeOK' BY <1>5 DEF Spawn
<1>6. ASSUME NEW t \in Thread, Check(t) PROVE PassTypeOK' BY <1>6 DEF Check
<1>7. ASSUME NEW t \in Thread, ClearPass(t) PROVE PassTypeOK' BY <1>7 DEF ClearPass
<1>8. ASSUME NEW t \in Thread, ClearDeadline(t) PROVE PassTypeOK'
    BY <1>8 DEF ClearDeadline
<1>9. ASSUME NEW w \in Wallet, LoadWallet(w) PROVE PassTypeOK' BY <1>9 DEF LoadWallet
<1>10. CASE UNCHANGED passVars BY <1>10 DEF passVars
<1> QED BY <1>1, <1>2, <1>3, <1>4, <1>5, <1>6, <1>7, <1>8, <1>9, <1>10 DEF PassNext

\* Guarded, Expires and ExpiresInv carry each other over every step.
LEMMA NextIInv == IInv /\ [PassNext]_passVars => IInv'
<1> SUFFICES ASSUME IInv, [PassNext]_passVars PROVE IInv'
    OBVIOUS
<1> USE StoredPassAssumption
<1>0. PassTypeOK /\ PassTypeOK'
    BY TypeStep DEF IInv
<1>h. Guarded /\ Expires /\ ExpiresInv
    BY DEF IInv
<1>1. CASE StorePass
    BY <1>0, <1>h, <1>1 DEF StorePass, IInv, PassTypeOK, Guarded, Expires, ExpiresInv
<1>2. CASE SetDeadline
    BY <1>0, <1>h, <1>2 DEF SetDeadline, IInv, PassTypeOK, Guarded, Expires, ExpiresInv
<1>3. CASE ResetPass
    BY <1>0, <1>h, <1>3 DEF ResetPass, IInv, PassTypeOK, Guarded, Expires, ExpiresInv
<1>4. CASE Second
  <2>1. storedPass # Empty => now <= due
      BY <1>0, <1>h, <1>4 DEF Second, PassTypeOK, Guarded, ExpiresInv
  <2>2. Expires'
      BY <1>0, <1>4, <2>1 DEF Second, PassTypeOK, Expires
  <2>3. Guarded' /\ ExpiresInv'
      BY <1>0, <1>h, <1>4 DEF Second, PassTypeOK, Guarded, ExpiresInv
  <2> QED BY <1>0, <2>2, <2>3 DEF IInv
<1>5. ASSUME NEW t \in Thread, Spawn(t) PROVE IInv'
    BY <1>0, <1>h, <1>5 DEF Spawn, IInv, PassTypeOK, Guarded, Expires, ExpiresInv
<1>6. ASSUME NEW t \in Thread, Check(t) PROVE IInv'
  <2>1. thread'[t] = "asleep" => now <= storedPassDeadline
      BY <1>0, <1>6 DEF Check, PassTypeOK
  <2>2. Guarded'
      BY <1>0, <1>h, <1>6 DEF Check, PassTypeOK, Guarded
  <2>3. Expires' /\ ExpiresInv'
      BY <1>0, <1>h, <1>6, <2>1 DEF Check, PassTypeOK, Expires, ExpiresInv
  <2> QED BY <1>0, <2>2, <2>3 DEF IInv
<1>7. ASSUME NEW t \in Thread, ClearPass(t) PROVE IInv'
    BY <1>0, <1>h, <1>7 DEF ClearPass, IInv, PassTypeOK, Guarded, Expires, ExpiresInv
<1>8. ASSUME NEW t \in Thread, ClearDeadline(t) PROVE IInv'
  <2>1. Guarded'
      BY <1>0, <1>h, <1>8 DEF ClearDeadline, PassTypeOK, Guarded
  <2>2. Expires' /\ ExpiresInv'
      BY <1>0, <1>h, <1>8 DEF ClearDeadline, PassTypeOK, Expires, ExpiresInv
  <2> QED BY <1>0, <2>1, <2>2 DEF IInv
<1>9. ASSUME NEW w \in Wallet, LoadWallet(w) PROVE IInv'
    BY <1>0, <1>h, <1>9 DEF LoadWallet, IInv, PassTypeOK, Guarded, Expires, ExpiresInv
<1>10. CASE UNCHANGED passVars
    BY <1>0, <1>h, <1>10 DEF passVars, IInv, PassTypeOK, Guarded, Expires, ExpiresInv
<1> QED BY <1>1, <1>2, <1>3, <1>4, <1>5, <1>6, <1>7, <1>8, <1>9, <1>10 DEF PassNext

\* The strengthened invariant of the stored password holds in every run of
\* startPassThread, stopPassThread and storedPassThreadHandler.
LEMMA AlwaysIInv == PassSpec => []IInv
BY InitIInv, NextIInv, PTL DEF PassSpec

\* The fields of the wallet and its threads keep their types.
THEOREM TypeCorrect == PassSpec => []PassTypeOK
<1>1. IInv => PassTypeOK BY DEF IInv
<1> QED BY AlwaysIInv, <1>1, PTL

\* A password that startPassThread has stored never loses the last thread that
\* will remove it, whatever older threads and resets do to the two fields.
THEOREM AlwaysGuarded == PassSpec => []Guarded
<1>1. IInv => Guarded BY DEF IInv
<1> QED BY AlwaysIInv, <1>1, PTL

\* A stored password is gone two seconds after its deadline at the latest.
THEOREM AlwaysExpires == PassSpec => []Expires
<1>1. IInv => Expires BY DEF IInv
<1> QED BY AlwaysIInv, <1>1, PTL
-----------------------------------------------------------------------------
\* The balances on screen.

Owner == Account \cup {Nobody}
Kind == {"none", "list", "nonce", "balances"}
TaskRecord == [type : Kind, of : Owner, got : Owner \cup Nat \cup Orders]

\* A pool task has what it was asked for, or nothing yet.
TaskHolds(r) ==
    /\ r.type \in {"balances", "nonce"} => r.of \in Account
    /\ r.type = "balances" => r.got \in {Nobody, r.of}
    /\ r.type = "nonce" /\ r.got # Nobody => r.got \in Nat
    /\ r.type = "list" /\ r.got # Nobody =>
          r.got \in Orders /\ (unordered \/ \A a \in Account : r.got[a] = a)

BalInv ==
    /\ currentAddress \in Account /\ {coin, tokenList} \subseteq Owner
    /\ accountNonce \in [of : Owner, value : Nat]
    /\ count \in [Account -> Nat]
    /\ listed \in [Account -> Owner]
    /\ changes \in 0..MaxChanges /\ unordered \in BOOLEAN
    /\ running \in [Slot -> TaskRecord] /\ \A s \in Slot : TaskHolds(running[s])
    /\ BalancesMatch

LEMMA BalStart == BalInit => BalInv
<1> SUFFICES ASSUME BalInit PROVE BalInv
    OBVIOUS
<1>1. NoTask \in TaskRecord /\ TaskHolds(NoTask)
    BY DEF NoTask, TaskRecord, TaskHolds, Kind, Owner
<1>2. running \in [Slot -> TaskRecord] /\ \A s \in Slot : TaskHolds(running[s])
    BY <1>1 DEF BalInit
<1>3. /\ accountNonce \in [of : Owner, value : Nat] /\ count \in [Account -> Nat]
      /\ listed \in [Account -> Owner] /\ changes \in 0..MaxChanges
    BY BalancesAssumption DEF BalInit, Owner
<1>4. BalancesMatch
    BY DEF BalInit, BalancesMatch
<1> QED BY <1>2, <1>3, <1>4 DEF BalInit, BalInv, Owner

\* A slot is taken and given back.
LEMMA SlotSteps ==
    ASSUME BalInv, NEW s \in Slot
    PROVE  /\ End(s) => /\ running' \in [Slot -> TaskRecord]
                        /\ \A u \in Slot : running'[u] \in {running[u], NoTask}
           /\ \A type \in Kind, a \in Owner :
                 Run(s, type, a) =>
                    /\ running' \in [Slot -> TaskRecord]
                    /\ \A u \in Slot :
                          running'[u] \in {running[u], [type |-> type, of |-> a, got |-> Nobody]}
           /\ TaskHolds(NoTask)
BY DEF BalInv, End, Run, NoTask, TaskRecord, TaskHolds, Kind, Owner

LEMMA BalStep == BalInv /\ [BalNext]_balVars => BalInv'
<1> SUFFICES ASSUME BalInv, [BalNext]_balVars PROVE BalInv'
    OBVIOUS
<1> USE BalancesAssumption
<1>1. CASE Transact
    <2>1. count' \in [Account -> Nat]
        BY <1>1 DEF Transact, BalInv
    <2>2. UNCHANGED <<currentAddress, coin, tokenList, accountNonce, running, listed, unordered>>
        BY <1>1 DEF Transact
    <2>3. changes' \in 0..MaxChanges
        BY <1>1 DEF Transact, Change, BalInv
    <2> QED BY <2>1, <2>2, <2>3 DEF BalInv, BalancesMatch, TaskHolds
<1>2. ASSUME NEW a \in Account, ChooseAccount(a) PROVE BalInv'
    BY <1>2 DEF ChooseAccount, Change, BalInv, BalancesMatch, TaskHolds
<1>3. ASSUME NEW s \in Slot, NEW type \in {"balances", "nonce"}, Refresh(s, type) PROVE BalInv'
    <2>1. /\ running' \in [Slot -> TaskRecord]
          /\ \A u \in Slot :
                running'[u] \in {running[u], [type |-> type, of |-> currentAddress, got |-> Nobody]}
        BY <1>3, SlotSteps DEF Refresh, BalInv, Owner, Kind
    <2>2. UNCHANGED <<currentAddress, coin, tokenList, accountNonce, count, listed, changes, unordered>>
        BY <1>3 DEF Refresh
    <2>3. \A u \in Slot : TaskHolds(running[u])'
        BY <2>1, <2>2 DEF BalInv, TaskHolds
    <2> QED BY <2>1, <2>2, <2>3 DEF BalInv, BalancesMatch
<1>4. ASSUME NEW s \in Slot, FetchAccounts(s) PROVE BalInv'
    <2>1. /\ running' \in [Slot -> TaskRecord]
          /\ \A u \in Slot : running'[u] \in {running[u], [type |-> "list", of |-> Nobody, got |-> Nobody]}
        BY <1>4, SlotSteps DEF FetchAccounts, Owner, Kind
    <2>2. UNCHANGED <<currentAddress, coin, tokenList, accountNonce, count, unordered>>
        BY <1>4 DEF FetchAccounts
    <2>3. \A u \in Slot : TaskHolds(running[u])'
        BY <2>1, <2>2 DEF BalInv, TaskHolds
    <2> QED BY <1>4, <2>1, <2>2, <2>3 DEF FetchAccounts, Change, BalInv, BalancesMatch, Owner
<1>5. ASSUME NEW s \in Slot, Answer(s) PROVE BalInv'
    <2>1. PICK got : /\ running' = [running EXCEPT ![s].got = got]
                     /\ CASE running[s].type = "nonce" -> got = count[running[s].of]
                          [] running[s].type = "balances" -> got = running[s].of
                          [] running[s].type = "list" -> got \in Orders
                     /\ unordered' = (unordered \/ (running[s].type = "list"
                                                    /\ \E a \in Account : got[a] # a))
        BY <1>5 DEF Answer, BalInv, TaskRecord, Kind
    <2>2. running[s] \in TaskRecord /\ running[s].type \in {"nonce", "balances", "list"}
        BY <1>5 DEF Answer, BalInv, TaskRecord, Kind
    <2>3. TaskHolds(running[s]) /\ count \in [Account -> Nat]
        BY DEF BalInv
    <2>4. got \in Owner \cup Nat \cup Orders
        <3>1. CASE running[s].type = "nonce"
            BY <2>1, <2>3, <3>1 DEF TaskHolds
        <3>2. CASE running[s].type = "balances"
            BY <2>1, <2>3, <3>2 DEF TaskHolds, Owner
        <3>3. CASE running[s].type = "list"
            BY <2>1, <3>3
        <3> QED BY <2>2, <3>1, <3>2, <3>3
    <2>5. /\ running' \in [Slot -> TaskRecord]
          /\ \A u \in Slot \ {s} : running'[u] = running[u]
          /\ running'[s].type = running[s].type /\ running'[s].of = running[s].of /\ running'[s].got = got
        BY <2>1, <2>2, <2>4 DEF BalInv, TaskRecord
    <2>6. TaskHolds(running[s])'
        <3>1. running[s].type = "nonce" => TaskHolds(running[s])'
            BY <2>1, <2>3, <2>5 DEF TaskHolds
        <3>2. running[s].type = "balances" => TaskHolds(running[s])'
            BY <2>1, <2>3, <2>5 DEF TaskHolds
        <3>3. running[s].type = "list" =>
                 got \in Orders /\ (unordered' \/ \A a \in Account : got[a] = a)
            BY <2>1
        <3>4. running[s].type = "list" => TaskHolds(running[s])'
            BY <2>5, <3>3 DEF TaskHolds
        <3> QED BY <2>2, <3>1, <3>2, <3>4
    <2>7. \A u \in Slot : TaskHolds(running[u])'
        BY <2>1, <2>5, <2>6 DEF BalInv, TaskHolds
    <2>8. UNCHANGED <<currentAddress, coin, tokenList, accountNonce, count, listed, changes>>
        BY <1>5 DEF Answer
    <2> QED BY <2>1, <2>5, <2>7, <2>8 DEF BalInv, BalancesMatch
<1>6. ASSUME NEW s \in Slot, RequestFails(s) PROVE BalInv'
    <2>1. /\ running' \in [Slot -> TaskRecord]
          /\ \A u \in Slot : running'[u] \in {running[u], NoTask}
        BY <1>6, SlotSteps DEF RequestFails
    <2>2. UNCHANGED <<currentAddress, coin, tokenList, accountNonce, count, listed, unordered>>
        BY <1>6 DEF RequestFails
    <2>3. \A u \in Slot : TaskHolds(running[u])'
        BY <2>1, <2>2, SlotSteps DEF BalInv, TaskHolds
    <2> QED BY <1>6, <2>1, <2>2, <2>3 DEF RequestFails, Change, BalInv, BalancesMatch
<1>7. ASSUME NEW s \in Slot, BalancesUpdated(s) \/ NonceUpdated(s) \/ ListUpdated(s) PROVE BalInv'
    <2>1. /\ running' \in [Slot -> TaskRecord]
          /\ \A u \in Slot : running'[u] \in {running[u], NoTask}
        BY <1>7, SlotSteps DEF BalancesUpdated, NonceUpdated, ListUpdated
    <2>2. UNCHANGED <<currentAddress, count, changes, unordered>>
        BY <1>7 DEF BalancesUpdated, NonceUpdated, ListUpdated
    <2>3. \A u \in Slot : TaskHolds(running[u])'
        BY <2>1, <2>2, SlotSteps DEF BalInv, TaskHolds
    <2>4. TaskHolds(running[s]) /\ running[s] \in TaskRecord
        BY DEF BalInv
    <2>5. CASE BalancesUpdated(s)
        <3>1. running[s].of \in Account /\ coin' = running[s].of /\ tokenList' \in {coin', Nobody}
            BY <2>4, <2>5 DEF BalancesUpdated, TokensFor, TaskHolds
        <3> QED BY <2>1, <2>2, <2>3, <2>5, <3>1 DEF BalancesUpdated, BalInv, BalancesMatch, Owner
    <2>6. CASE NonceUpdated(s)
        <3>1. running[s].of \in Owner /\ running[s].got \in Nat
            BY <2>4, <2>6 DEF NonceUpdated, TaskHolds, Owner
        <3> QED BY <2>1, <2>2, <2>3, <2>6, <3>1 DEF NonceUpdated, BalInv, BalancesMatch
    <2>7. CASE ListUpdated(s)
        <3>1. listed' \in Orders /\ (unordered \/ \A a \in Account : listed'[a] = a)
            BY <2>4, <2>7 DEF ListUpdated, TaskHolds
        <3> QED BY <2>1, <2>2, <2>3, <2>7, <3>1 DEF ListUpdated, BalInv, BalancesMatch, Orders, Owner
    <2> QED BY <1>7, <2>5, <2>6, <2>7
<1>8. CASE UNCHANGED balVars
    BY <1>8 DEF balVars, BalInv, BalancesMatch, TaskHolds
<1> QED BY <1>1, <1>2, <1>3, <1>4, <1>5, <1>6, <1>7, <1>8 DEF BalNext, TaskStep

\* onAccountAllBalancesUpdated and onAccountAVAXBalancesUpdated: for any number of
\* accounts, tasks and answers in any order, the header never adds up coin and tokens of
\* different accounts, and the list shows a wrong balance only after a batch was answered
\* out of order.
THEOREM BalancesAreConsistent == BalSpec => []BalancesMatch
<1>1. BalInv => BalancesMatch
    BY DEF BalInv
<1> QED BY <1>1, BalStart, BalStep, PTL DEF BalSpec
-----------------------------------------------------------------------------
\* The request builder.

PlaceOf(f, k) == IF k = 1 THEN 1 ELSE f[k - 1] + Panel[k - 1]

LEMMA Panels == /\ Len(Panel) \in Nat /\ \A k \in Calls : k \in Nat /\ Panel[k] \in {1, 2, 3}
                /\ 1 \in Calls
BY RequestsAssumption DEF Calls

\* The ids under which the panel looks are well defined ...
LEMMA PlaceDefined == \A k \in Calls : place[k] \in Nat /\ place[k] = PlaceOf(place, k)
<1> DEFINE Fits(n, g) == \A k \in 1..n : g[k] = PlaceOf(g, k)
           S == {n \in Nat : n <= Len(Panel) => \E g \in [1..n -> Nat] : Fits(n, g)}
<1>1. 0 \in S
    <2>1. [k \in 1..0 |-> 0] \in [1..0 -> Nat] /\ Fits(0, [k \in 1..0 |-> 0])
        OBVIOUS
    <2> QED BY <2>1
<1>2. ASSUME NEW n \in Nat, n \in S PROVE n + 1 \in S
    <2> SUFFICES ASSUME n + 1 <= Len(Panel) PROVE \E g \in [1..n + 1 -> Nat] : Fits(n + 1, g)
        OBVIOUS
    <2>1. PICK g \in [1..n -> Nat] : Fits(n, g)
        BY <1>2, Panels
    <2> DEFINE next == IF n = 0 THEN 1 ELSE g[n] + Panel[n]
               h == [k \in 1..n + 1 |-> IF k = n + 1 THEN next ELSE g[k]]
    <2>2. next \in Nat
        BY <2>1, Panels DEF Calls
    <2>3. h \in [1..n + 1 -> Nat]
        BY <2>1, <2>2
    <2>4. ASSUME NEW k \in 1..n + 1 PROVE h[k] = PlaceOf(h, k)
        BY <2>1, <2>2 DEF PlaceOf
    <2> QED BY <2>3, <2>4
<1>3. Len(Panel) \in S
    <2> HIDE DEF S
    <2> QED BY <1>1, <1>2, EveryNatural, Panels
<1>4. PICK g \in [Calls -> Nat] : \A k \in Calls : g[k] = PlaceOf(g, k)
    BY <1>3, Panels DEF Calls
<1>5. g = [k \in Calls |-> IF k = 1 THEN 1 ELSE g[k - 1] + Panel[k - 1]]
    BY <1>4 DEF PlaceOf
<1>6. place = [k \in Calls |-> IF k = 1 THEN 1 ELSE place[k - 1] + Panel[k - 1]]
    BY <1>5 DEF place
<1>7. \A k \in Calls : place[k] = PlaceOf(place, k)
    BY <1>6 DEF PlaceOf
<1> DEFINE N == {n \in Nat : n + 1 \in Calls => place[n + 1] \in Nat}
<1>8. 0 \in N
    BY <1>7, Panels DEF PlaceOf
<1>9. ASSUME NEW n \in Nat, n \in N PROVE n + 1 \in N
    <2> SUFFICES ASSUME (n + 1) + 1 \in Calls PROVE place[(n + 1) + 1] \in Nat
        OBVIOUS
    <2>1. n + 1 \in Calls /\ (n + 1) + 1 # 1 /\ ((n + 1) + 1) - 1 = n + 1
        BY Panels DEF Calls
    <2>2. place[(n + 1) + 1] = place[n + 1] + Panel[n + 1]
        BY <1>7, <2>1 DEF PlaceOf
    <2> QED BY <1>9, <2>1, <2>2, Panels
<1>10. Nat \subseteq N
    <2> HIDE DEF N
    <2> QED BY <1>8, <1>9, EveryNatural
<1>11. ASSUME NEW k \in Calls PROVE place[k] \in Nat
    <2>1. k - 1 \in N /\ (k - 1) + 1 = k
        BY <1>10, Panels DEF Calls
    <2> QED BY <2>1
<1> QED BY <1>7, <1>11

\* ... and tell its calls apart.
LEMMA PlaceRises == \A j, k \in Calls : place[j] = place[k] => j = k
<1> DEFINE S == {d \in Nat : \A j \in Calls : j + d + 1 \in Calls => place[j] < place[j + d + 1]}
<1>0. ASSUME NEW j \in Calls, j + 1 \in Calls PROVE place[j] < place[j + 1]
    <2>1. place[j + 1] = place[j] + Panel[j]
        BY <1>0, PlaceDefined, Panels DEF PlaceOf, Calls
    <2> QED BY <2>1, PlaceDefined, Panels
<1>1. 0 \in S
    <2>1. \A j \in Calls : j + 0 + 1 = j + 1
        BY Panels
    <2> QED BY <1>0, <2>1
<1>2. ASSUME NEW d \in Nat, d \in S PROVE d + 1 \in S
    <2> SUFFICES ASSUME NEW j \in Calls, j + (d + 1) + 1 \in Calls PROVE place[j] < place[j + (d + 1) + 1]
        OBVIOUS
    <2>1. j + d + 1 \in Calls /\ (j + d + 1) + 1 = j + (d + 1) + 1
        BY Panels DEF Calls
    <2>2. place[j] < place[j + d + 1] /\ place[j + d + 1] < place[j + (d + 1) + 1]
        BY <1>0, <1>2, <2>1
    <2> QED BY <2>1, <2>2, PlaceDefined
<1>3. Nat \subseteq S
    <2> HIDE DEF S
    <2> QED BY <1>1, <1>2, EveryNatural
<1>4. ASSUME NEW j \in Calls, NEW k \in Calls, j < k PROVE place[j] < place[k]
    <2>1. (k - j) - 1 \in S /\ j + ((k - j) - 1) + 1 = k
        BY <1>3, <1>4, Panels
    <2> QED BY <2>1
<1> QED BY <1>4, PlaceDefined, Panels

ApiRequest == [id : Nat \ {0}, call : Calls, tick : Ticks]
Stages == {"none", "queued", "sent", "thrown", "replied", "failed", "error", "ended"}
Posted == [pc : Stages, batch : Seq(ApiRequest)]

ReqTyped ==
    /\ requestList \in Seq(ApiRequest)
    /\ ticks \in 0..MaxTicks /\ call \in 0..Len(Panel) + 1 /\ (call # 0 => ticks \in Ticks)
    /\ posted \in [Ticks -> Posted]
    /\ field \in [Calls -> Calls \cup {NoReply}]
    /\ overtaken \in BOOLEAN

\* Everything built so far is of an earlier tick or of a call before the current one.
Past(b) == \A i \in 1..Len(b) : b[i].tick <= ticks /\ (b[i].tick = ticks /\ call # 0 => b[i].call < call)
\* The ids of a list tell its calls apart; two lists share no request.
Apart(b) == \A i, j \in 1..Len(b) : b[i].id = b[j].id <=> b[i].call = b[j].call
Disjoint(b, c) ==
    \A i \in 1..Len(b), j \in 1..Len(c) : <<b[i].call, b[i].tick>> # <<c[j].call, c[j].tick>>
\* Each request has the id under which the panel looks.
InPlace(b) == \A i \in 1..Len(b) : b[i].id = place[b[i].call]

ListHolds ==
    /\ \A i \in 1..Len(requestList) : requestList[i].tick = ticks /\ requestList[i].id <= Len(requestList)
    /\ Past(requestList) /\ Apart(requestList)
    /\ ~overtaken => InPlace(requestList) /\ (call \in Calls => Len(requestList) = place[call] - 1)
BatchesHold ==
    /\ \A t \in Ticks : /\ Past(posted[t].batch) /\ Apart(posted[t].batch)
                        /\ Disjoint(posted[t].batch, requestList)
                        /\ ~overtaken => InPlace(posted[t].batch)
    /\ \A t, u \in Ticks : t # u => Disjoint(posted[t].batch, posted[u].batch)
FieldsHold == ~overtaken => \A k \in Calls : field[k] \in {k, NoReply}

ReqInv == ReqTyped /\ ListHolds /\ BatchesHold /\ FieldsHold

LEMMA ReqStart == ReqInit => ReqInv
<1> SUFFICES ASSUME ReqInit PROVE ReqInv
    OBVIOUS
<1>1. /\ NotPosted \in Posted /\ Len(NotPosted.batch) = 0 /\ requestList \in Seq(ApiRequest)
      /\ Len(requestList) = 0
    BY DEF ReqInit, NotPosted, Posted, Stages
<1>2. posted \in [Ticks -> Posted] /\ \A t \in Ticks : Len(posted[t].batch) = 0
    BY <1>1 DEF ReqInit
<1>3. ReqTyped
    <2>1. ticks \in 0..MaxTicks /\ call \in 0..Len(Panel) + 1 /\ call = 0
        BY RequestsAssumption, Panels DEF ReqInit
    <2>2. field \in [Calls -> Calls \cup {NoReply}] /\ overtaken \in BOOLEAN
        BY DEF ReqInit
    <2> QED BY <1>1, <1>2, <2>1, <2>2 DEF ReqTyped
<1>4. ListHolds /\ BatchesHold
    BY <1>1, <1>2, Panels DEF ReqInit, ListHolds, BatchesHold, Past, Apart, Disjoint, InPlace, Calls
<1>5. FieldsHold
    BY DEF ReqInit, FieldsHold
<1> QED BY <1>3, <1>4, <1>5 DEF ReqInv

\* Two sequences one after the other.
LEMMA Concatenated ==
    ASSUME NEW S, NEW s \in Seq(S), NEW t \in Seq(S)
    PROVE  /\ s \o t \in Seq(S) /\ Len(s \o t) = Len(s) + Len(t)
           /\ \A i \in 1..Len(s \o t) : (s \o t)[i] = IF i <= Len(s) THEN s[i] ELSE t[i - Len(s)]
OBVIOUS

\* buildRequest appends the requests of a call, all with the next id.
LEMMA Builds ==
    ASSUME ReqTyped, Build
    PROVE  /\ requestList' \in Seq(ApiRequest) /\ call \in Calls /\ Len(requestList) \in Nat
           /\ Len(requestList') = Len(requestList) + Panel[call]
           /\ \A i \in 1..Len(requestList) : i \in 1..Len(requestList') /\ requestList'[i] = requestList[i]
           /\ \A i \in 1..Len(requestList') :
                 i \notin 1..Len(requestList) =>
                    requestList'[i] = [id |-> Len(requestList) + 1, call |-> call, tick |-> ticks]
<1> DEFINE r == [id |-> Len(requestList) + 1, call |-> call, tick |-> ticks]
           built == [j \in 1..Panel[call] |-> r]
<1>1. call \in Calls /\ Panel[call] \in Nat /\ Len(requestList) \in Nat /\ ticks \in Ticks
    BY Panels DEF Build, ReqTyped, Calls
<1>2. r \in ApiRequest
    BY <1>1 DEF ApiRequest
<1> HIDE DEF r
<1>3. built \in [1..Panel[call] -> ApiRequest]
    BY <1>2
<1>4. built \in Seq(ApiRequest) /\ Len(built) = Panel[call] /\ \A j \in 1..Panel[call] : built[j] = r
    BY <1>1, <1>3
<1>5. requestList' = requestList \o built
    BY DEF Build, NextId, r
<1> HIDE DEF built
<1>6. /\ requestList' \in Seq(ApiRequest) /\ Len(requestList') = Len(requestList) + Panel[call]
      /\ \A i \in 1..Len(requestList') :
            requestList'[i] = IF i <= Len(requestList) THEN requestList[i]
                              ELSE built[i - Len(requestList)]
    <2>1. requestList \in Seq(ApiRequest)
        BY DEF ReqTyped
    <2> QED BY <1>4, <1>5, <2>1, Concatenated
<1>7. ASSUME NEW i \in 1..Len(requestList'), i \notin 1..Len(requestList) PROVE requestList'[i] = r
    <2> DEFINE j == i - Len(requestList)
    <2>1. i > Len(requestList) /\ j \in 1..Panel[call]
        BY <1>1, <1>6, <1>7
    <2>2. requestList'[i] = built[j]
        BY <1>1, <1>6, <2>1
    <2> HIDE DEF j
    <2> QED BY <1>4, <2>1, <2>2
<1>8. \A i \in 1..Len(requestList) : i \in 1..Len(requestList') /\ requestList'[i] = requestList[i]
    BY <1>1, <1>6
<1>9. requestList' \in Seq(ApiRequest) /\ Len(requestList') = Len(requestList) + Panel[call]
    BY <1>6
<1> QED BY <1>1, <1>7, <1>8, <1>9, Zenon DEF r

LEMMA TypedReqStep == ReqTyped /\ [ReqNext]_reqVars => ReqTyped'
<1> SUFFICES ASSUME ReqTyped, [ReqNext]_reqVars PROVE ReqTyped'
    OBVIOUS
<1> USE RequestsAssumption, Panels
<1>1. CASE ClearAPIRequests
    BY <1>1 DEF ClearAPIRequests, ReqTyped, Calls, Ticks
<1>2. CASE Build
    BY <1>2, Builds DEF Build, ReqTyped, Calls
<1>3. CASE DoAPIRequests
    <2>1. ticks \in Ticks /\ posted' = [posted EXCEPT ![ticks].pc = "queued"]
        BY <1>3 DEF DoAPIRequests, ReqTyped
    <2>2. posted' \in [Ticks -> Posted]
        BY <2>1 DEF ReqTyped, Posted, Stages
    <2> QED BY <1>3, <2>2 DEF DoAPIRequests, ReqTyped
<1>4. ASSUME NEW t \in Ticks, Take(t) PROVE ReqTyped'
    <2>1. [pc |-> "sent", batch |-> requestList] \in Posted
        BY DEF ReqTyped, Posted, Stages
    <2> QED BY <1>4, <2>1 DEF Take, ReqTyped
<1>5. ASSUME NEW t \in Ticks, TakeThrows(t) \/ HttpGetRequest(t) PROVE ReqTyped'
    BY <1>5 DEF TakeThrows, HttpGetRequest, ReqTyped, Posted, Stages
<1>6. ASSUME NEW t \in Ticks, Answered(t) PROVE ReqTyped'
    <2> DEFINE replies == {posted[t].batch[i] : i \in 1..Len(posted[t].batch)}
    <2>1. posted[t].batch \in Seq(ApiRequest)
        BY DEF ReqTyped, Posted
    <2>2. \A r \in replies : r.call \in Calls
        <3>1. \A i \in 1..Len(posted[t].batch) : posted[t].batch[i] \in ApiRequest
            BY <2>1
        <3>2. \A r \in ApiRequest : r.call \in Calls
            BY DEF ApiRequest
        <3> QED BY <3>1, <3>2
    <2>3. \A k \in Calls : (\E r \in replies : r.id = place[k]) =>
                              (CHOOSE r \in replies : r.id = place[k]).call \in Calls
        <3> HIDE DEF replies
        <3> SUFFICES ASSUME NEW k \in Calls, \E r \in replies : r.id = place[k]
                     PROVE  (CHOOSE r \in replies : r.id = place[k]).call \in Calls
            OBVIOUS
        <3>1. (CHOOSE r \in replies : r.id = place[k]) \in replies
            OBVIOUS
        <3> QED BY <2>2, <3>1
    <2>4. field' \in [Calls -> Calls \cup {NoReply}]
        <3>1. CASE posted[t].pc = "replied"
            <4>1. field' = [k \in Calls |->
                     IF \E r \in replies : r.id = place[k]
                     THEN (CHOOSE r \in replies : r.id = place[k]).call ELSE field[k]]
                BY <1>6, <3>1 DEF Answered
            <4> HIDE DEF replies
            <4> QED BY <2>3, <4>1 DEF ReqTyped
        <3>2. CASE posted[t].pc # "replied"
            BY <1>6, <3>2 DEF Answered, ReqTyped
        <3> QED BY <3>1, <3>2
    <2>5. posted' \in [Ticks -> Posted]
        BY <1>6 DEF Answered, ReqTyped, Posted, Stages
    <2>6. UNCHANGED <<requestList, ticks, call, overtaken>>
        BY <1>6 DEF Answered
    <2> QED BY <2>4, <2>5, <2>6 DEF ReqTyped
<1>7. CASE UNCHANGED reqVars
    BY <1>7 DEF reqVars, ReqTyped
<1> QED BY <1>1, <1>2, <1>3, <1>4, <1>5, <1>6, <1>7 DEF ReqNext

\* Steps that only move tasks on.
LEMMA BatchesKept ==
    ASSUME ReqInv, ReqTyped', UNCHANGED <<requestList, ticks, overtaken>>,
           call' = call \/ call' = 0,
           \A t \in Ticks : posted'[t].batch = posted[t].batch
    PROVE  ListHolds' /\ BatchesHold'
<1>1. ListHolds'
    <2>1. ListHolds /\ (call' # 0 => call' = call) /\ (call' \in Calls => call' = call)
        BY Panels DEF ReqInv, Calls
    <2>2. Past(requestList)' /\ Apart(requestList)' /\ (~overtaken => InPlace(requestList)')
        BY <2>1 DEF ListHolds, Past, Apart, InPlace
    <2> QED BY <2>1, <2>2 DEF ListHolds
<1>2. BatchesHold'
    <2>1. BatchesHold /\ (call' # 0 => call' = call)
        BY DEF ReqInv
    <2>2. ASSUME NEW t \in Ticks
          PROVE  /\ Past(posted[t].batch)' /\ Apart(posted[t].batch)'
                 /\ Disjoint(posted[t].batch, requestList)'
                 /\ ~overtaken => InPlace(posted[t].batch)'
        <3> DEFINE b == posted[t].batch
        <3>1. b' = b
            OBVIOUS
        <3>2. Past(b) /\ Apart(b) /\ Disjoint(b, requestList) /\ (~overtaken => InPlace(b))
            BY <2>1 DEF BatchesHold
        <3> HIDE DEF b
        <3>3. /\ Past(b)' /\ Apart(b)' /\ Disjoint(b, requestList)'
              /\ ~overtaken => InPlace(b)'
            BY <2>1, <3>1, <3>2 DEF Past, Apart, Disjoint, InPlace
        <3> QED BY <3>3 DEF b
    <2>3. ASSUME NEW t \in Ticks, NEW u \in Ticks, t # u
          PROVE  Disjoint(posted[t].batch, posted[u].batch)'
        <3> DEFINE b == posted[t].batch
                   c == posted[u].batch
        <3>1. b' = b /\ c' = c
            OBVIOUS
        <3>2. Disjoint(b, c)
            BY <2>1, <2>3 DEF BatchesHold
        <3> HIDE DEF b, c
        <3>3. Disjoint(b, c)'
            BY <3>1, <3>2 DEF Disjoint
        <3> QED BY <3>3 DEF b, c
    <2> QED BY <2>2, <2>3 DEF BatchesHold
<1> QED BY <1>1, <1>2

LEMMA BuildStep == ReqInv /\ Build => ReqInv'
<1> SUFFICES ASSUME ReqInv, Build PROVE ReqInv'
    OBVIOUS
<1> DEFINE old == 1..Len(requestList)
           new == 1..Len(requestList')
<1>1. ReqTyped'
    BY TypedReqStep DEF ReqInv, ReqNext
<1>2. /\ call \in Calls /\ call \in Nat /\ ticks \in Nat /\ call' = call + 1
      /\ Panel[call] \in {1, 2, 3} /\ Len(requestList) \in Nat
      /\ UNCHANGED <<ticks, posted, field, overtaken>>
    BY Builds, Panels, RequestsAssumption DEF Build, ReqInv, ReqTyped
<1>3. /\ Len(requestList') = Len(requestList) + Panel[call]
      /\ \A i \in old : i \in new /\ requestList'[i] = requestList[i]
      /\ \A i \in new : i \notin old =>
            /\ requestList'[i].id = Len(requestList) + 1
            /\ requestList'[i].call = call /\ requestList'[i].tick = ticks
    BY Builds DEF ReqInv
<1>4. /\ \A i \in old : /\ requestList[i].tick = ticks /\ requestList[i].id <= Len(requestList)
                        /\ requestList[i].call < call
                        /\ requestList[i].id \in Nat /\ requestList[i].call \in Nat
      /\ Apart(requestList)
    <2>1. requestList \in Seq(ApiRequest)
        BY DEF ReqInv, ReqTyped
    <2>2. \A i \in old : requestList[i] \in ApiRequest
        BY <2>1
    <2>3. \A i \in old : requestList[i].id \in Nat /\ requestList[i].call \in Nat
        BY <2>2, Panels DEF ApiRequest
    <2> QED BY <1>2, <2>3, Panels DEF ReqInv, ListHolds, Past, Calls
<1>5. \A i \in new : requestList'[i].tick = ticks /\ requestList'[i].id <= Len(requestList')
    <2>1. ASSUME NEW i \in old PROVE requestList'[i].tick = ticks /\ requestList'[i].id <= Len(requestList')
        BY <1>2, <1>3, <1>4
    <2>2. ASSUME NEW i \in new, i \notin old
          PROVE requestList'[i].tick = ticks /\ requestList'[i].id <= Len(requestList')
        BY <1>2, <1>3, <2>2
    <2> QED BY <2>1, <2>2
<1>6. \A i \in new : requestList'[i].call < call + 1
    <2>1. \A i \in old : requestList'[i].call < call + 1
        BY <1>2, <1>3, <1>4
    <2>2. \A i \in new : i \notin old => requestList'[i].call < call + 1
        BY <1>2, <1>3
    <2> QED BY <2>1, <2>2
<1>7. Apart(requestList)'
    <2> SUFFICES ASSUME NEW i \in new, NEW j \in new
                 PROVE  requestList'[i].id = requestList'[j].id <=> requestList'[i].call = requestList'[j].call
        BY DEF Apart
    <2> HIDE DEF old, new
    <2>1. CASE i \in old /\ j \in old
        BY <1>3, <1>4, <2>1 DEF Apart, old
    <2>2. CASE i \in old /\ j \notin old
        BY <1>2, <1>3, <1>4, <2>2
    <2>3. CASE i \notin old /\ j \in old
        BY <1>2, <1>3, <1>4, <2>3
    <2>4. CASE i \notin old /\ j \notin old
        BY <1>3, <2>4
    <2> QED BY <2>1, <2>2, <2>3, <2>4
<1>8. ~overtaken => InPlace(requestList)' /\ (call' \in Calls => Len(requestList') = place[call'] - 1)
    <2> SUFFICES ASSUME ~overtaken
                 PROVE  /\ \A i \in new : requestList'[i].id = place[requestList'[i].call]
                        /\ call + 1 \in Calls => Len(requestList') = place[call + 1] - 1
        BY <1>2 DEF InPlace
    <2>1. InPlace(requestList) /\ Len(requestList) = place[call] - 1 /\ place[call] \in Nat
        BY <1>2, PlaceDefined DEF ReqInv, ListHolds
    <2>2. \A i \in old : requestList'[i].id = place[requestList'[i].call]
        BY <1>3, <2>1 DEF InPlace
    <2>3. \A i \in new : i \notin old => requestList'[i].id = place[requestList'[i].call]
        BY <1>3, <2>1
    <2>4. ASSUME call + 1 \in Calls PROVE Len(requestList') = place[call + 1] - 1
        <3>1. call + 1 # 1 /\ (call + 1) - 1 = call
            BY <1>2, Panels DEF Calls
        <3>2. place[call + 1] = place[call] + Panel[call]
            BY <2>4, <3>1, PlaceDefined DEF PlaceOf
        <3> QED BY <1>2, <1>3, <2>1, <3>2
    <2> QED BY <2>2, <2>3, <2>4
<1>9. ListHolds'
    BY <1>2, <1>5, <1>6, <1>7, <1>8, <1>1, RequestsAssumption DEF ListHolds, Past, ReqTyped
<1>10. BatchesHold'
    <2>1. ASSUME NEW t \in Ticks PROVE Past(posted[t].batch)' /\ Disjoint(posted[t].batch, requestList)'
        <3> DEFINE b == posted[t].batch
        <3>1. \A i \in 1..Len(b) : b[i] \in ApiRequest
            BY DEF ReqInv, ReqTyped, Posted
        <3>2. \A i \in 1..Len(b) : b[i].call \in Nat
            BY <3>1, Panels DEF ApiRequest
        <3>3. /\ \A i \in 1..Len(b) : b[i].tick <= ticks /\ (b[i].tick = ticks => b[i].call < call)
              /\ Disjoint(b, requestList)
            BY <1>2, Panels DEF ReqInv, BatchesHold, Past, Calls
        <3> HIDE DEF b
        <3>4. \A i \in 1..Len(b) : b[i].tick = ticks => b[i].call < call + 1
            BY <1>2, <3>2, <3>3
        <3>5. ASSUME NEW i \in 1..Len(b), NEW j \in new
              PROVE  <<b[i].call, b[i].tick>> # <<requestList'[j].call, requestList'[j].tick>>
            <4>1. CASE j \in old
                BY <1>3, <3>3, <4>1 DEF Disjoint
            <4>2. CASE j \notin old
                BY <1>2, <1>3, <3>2, <3>3, <4>2
            <4> QED BY <4>1, <4>2
        <3>6. b' = b
            BY <1>2 DEF b
        <3> QED BY <1>2, <3>3, <3>4, <3>5, <3>6 DEF Past, Disjoint, b
    <2> QED BY <1>2, <2>1 DEF ReqInv, BatchesHold, Apart, Disjoint, InPlace
<1>11. FieldsHold'
    BY <1>2 DEF ReqInv, FieldsHold
<1> QED BY <1>1, <1>9, <1>10, <1>11 DEF ReqInv

LEMMA ClearStep == ReqInv /\ ClearAPIRequests => ReqInv'
<1> SUFFICES ASSUME ReqInv, ClearAPIRequests PROVE ReqInv'
    OBVIOUS
<1>1. ReqTyped'
    BY TypedReqStep DEF ReqInv, ReqNext
<1>2. /\ requestList' = <<>> /\ Len(requestList') = 0
      /\ ticks' = ticks + 1 /\ call' = 1 /\ ticks \in Nat /\ UNCHANGED <<posted, field, overtaken>>
    BY RequestsAssumption DEF ClearAPIRequests, ReqInv, ReqTyped
<1>3. ListHolds'
    BY <1>2, PlaceDefined, Panels DEF ListHolds, Past, Apart, InPlace, PlaceOf
<1>4. BatchesHold'
    <2>1. ASSUME NEW t \in Ticks PROVE Past(posted[t].batch)' /\ Disjoint(posted[t].batch, requestList)'
        <3> DEFINE b == posted[t].batch
        <3>1. \A i \in 1..Len(b) : b[i].tick \in Nat /\ b[i].tick <= ticks
            <4>1. \A i \in 1..Len(b) : b[i] \in ApiRequest
                BY DEF ReqInv, ReqTyped, Posted
            <4> QED BY <4>1 DEF ApiRequest, Ticks, ReqInv, BatchesHold, Past
        <3>2. b' = b
            BY <1>2
        <3> HIDE DEF b
        <3>3. Past(b)' /\ Disjoint(b, requestList)'
            BY <1>2, <3>1, <3>2 DEF Past, Disjoint
        <3> QED BY <3>3 DEF b
    <2> QED BY <1>2, <2>1 DEF ReqInv, BatchesHold, Apart, Disjoint, InPlace
<1>5. FieldsHold'
    BY <1>2 DEF ReqInv, FieldsHold
<1> QED BY <1>1, <1>3, <1>4, <1>5 DEF ReqInv

LEMMA TakeStep == ASSUME ReqInv, NEW t \in Ticks, Take(t) PROVE ReqInv'
<1>1. ReqTyped'
    BY TypedReqStep DEF ReqInv, ReqNext
<1>2. /\ requestList' = <<>> /\ Len(requestList') = 0
      /\ overtaken' = (overtaken \/ call # 0) /\ UNCHANGED <<ticks, call, field>>
      /\ posted'[t].batch = requestList
      /\ \A u \in Ticks : u # t => posted'[u] = posted[u]
    BY DEF Take, ReqInv, ReqTyped
<1>3. ListHolds'
    <2>1. ~overtaken' => call' \notin Calls
        <3>1. ~overtaken' => call' = 0
            BY <1>2
        <3>2. 0 \notin Calls
            BY Panels DEF Calls
        <3> QED BY <3>1, <3>2
    <2>2. 1..Len(requestList') = {}
        BY <1>2
    <2>3. Past(requestList)' /\ Apart(requestList)' /\ InPlace(requestList)'
        BY <2>2 DEF Past, Apart, InPlace
    <2> QED BY <2>1, <2>2, <2>3 DEF ListHolds
<1>4. /\ Past(requestList) /\ Apart(requestList) /\ (~overtaken => InPlace(requestList))
      /\ ~overtaken' => ~overtaken
    BY <1>2 DEF ReqInv, ListHolds
<1>5. ASSUME NEW u \in Ticks
      PROVE  /\ Past(posted[u].batch)' /\ Apart(posted[u].batch)'
             /\ Disjoint(posted[u].batch, requestList)'
             /\ ~overtaken' => InPlace(posted[u].batch)'
    <2> DEFINE b == posted[u].batch
    <2>1. b' = requestList \/ b' = b
        BY <1>2
    <2>2. Past(b) /\ Apart(b) /\ (~overtaken => InPlace(b))
        BY DEF ReqInv, BatchesHold
    <2> HIDE DEF b
    <2>3. Past(b)' /\ Apart(b)' /\ Disjoint(b, requestList)' /\ (~overtaken' => InPlace(b)')
        BY <1>2, <1>4, <2>1, <2>2 DEF Past, Apart, Disjoint, InPlace
    <2> QED BY <2>3 DEF b
<1>6. ASSUME NEW u \in Ticks, NEW v \in Ticks, u # v
      PROVE  Disjoint(posted[u].batch, posted[v].batch)'
    <2> DEFINE b == posted[u].batch
               c == posted[v].batch
    <2>1. \/ b' = b /\ c' = c
          \/ b' = requestList /\ c' = c
          \/ b' = b /\ c' = requestList
        BY <1>2, <1>6
    <2>2. Disjoint(b, c) /\ Disjoint(b, requestList) /\ Disjoint(c, requestList)
        BY <1>6 DEF ReqInv, BatchesHold
    <2> HIDE DEF b, c
    <2>3. Disjoint(b, c)'
        BY <2>1, <2>2 DEF Disjoint
    <2> QED BY <2>3 DEF b, c
<1>7. BatchesHold'
    BY <1>5, <1>6 DEF BatchesHold
<1>8. FieldsHold'
    BY <1>2 DEF ReqInv, FieldsHold
<1> QED BY <1>1, <1>3, <1>7, <1>8 DEF ReqInv

\* onApiRequestAnswered finds the field of a reply by its id.
LEMMA ReplyStep == ASSUME ReqInv, NEW t \in Ticks, Answered(t) PROVE ReqInv'
<1> DEFINE replies == {posted[t].batch[i] : i \in 1..Len(posted[t].batch)}
           reply(k) == CHOOSE r \in replies : r.id = place[k]
<1>1. ReqTyped'
    BY TypedReqStep DEF ReqInv, ReqNext
<1>2. UNCHANGED <<requestList, ticks, call, overtaken>>
    BY DEF Answered
<1>3. \A u \in Ticks : posted'[u].batch = posted[u].batch
    BY DEF Answered, ReqInv, ReqTyped, Posted
<1>4. ListHolds' /\ BatchesHold'
    BY <1>1, <1>2, <1>3, BatchesKept
<1>5. FieldsHold'
    <2> SUFFICES ASSUME ~overtaken, NEW k \in Calls PROVE field'[k] \in {k, NoReply}
        BY <1>2 DEF FieldsHold
    <2>1. field[k] \in {k, NoReply}
        BY DEF ReqInv, FieldsHold
    <2>2. \A r \in replies : r.call \in Calls /\ r.id = place[r.call]
        <3>1. \A i \in 1..Len(posted[t].batch) : posted[t].batch[i] \in ApiRequest
            BY DEF ReqInv, ReqTyped, Posted
        <3>2. \A r \in ApiRequest : r.call \in Calls
            BY DEF ApiRequest
        <3>3. InPlace(posted[t].batch)
            BY DEF ReqInv, BatchesHold
        <3> QED BY <3>1, <3>2, <3>3 DEF InPlace
    <2>3. CASE posted[t].pc = "replied"
        <3>1. field'[k] = IF \E r \in replies : r.id = place[k] THEN reply(k).call ELSE field[k]
            BY <2>3 DEF Answered
        <3> HIDE DEF replies
        <3>2. ASSUME \E r \in replies : r.id = place[k] PROVE reply(k).call = k
            <4>1. reply(k) \in replies /\ reply(k).id = place[k]
                BY <3>2
            <4> HIDE DEF reply
            <4> QED BY <2>2, <4>1, PlaceRises
        <3> HIDE DEF reply
        <3> QED BY <2>1, <3>1, <3>2
    <2>4. CASE posted[t].pc # "replied"
        BY <2>1, <2>4 DEF Answered
    <2> QED BY <2>3, <2>4
<1> QED BY <1>1, <1>4, <1>5 DEF ReqInv

LEMMA ReqStep == ReqInv /\ [ReqNext]_reqVars => ReqInv'
<1> SUFFICES ASSUME ReqInv, [ReqNext]_reqVars PROVE ReqInv'
    OBVIOUS
<1>1. ReqTyped'
    BY TypedReqStep DEF ReqInv
<1>2. CASE DoAPIRequests
    <2>1. \A t \in Ticks : posted'[t].batch = posted[t].batch
        BY <1>2 DEF DoAPIRequests, ReqInv, ReqTyped, Posted
    <2>2. ListHolds' /\ BatchesHold'
        BY <1>1, <1>2, <2>1, BatchesKept DEF DoAPIRequests
    <2> QED BY <1>1, <1>2, <2>2 DEF DoAPIRequests, ReqInv, FieldsHold
<1>3. ASSUME NEW t \in Ticks, TakeThrows(t) \/ HttpGetRequest(t) PROVE ReqInv'
    <2>1. \A u \in Ticks : posted'[u].batch = posted[u].batch
        <3>1. PICK pc : posted' = [posted EXCEPT ![t].pc = pc]
            BY <1>3 DEF TakeThrows, HttpGetRequest
        <3> QED BY <3>1 DEF ReqInv, ReqTyped, Posted
    <2>2. ListHolds' /\ BatchesHold'
        BY <1>1, <1>3, <2>1, BatchesKept DEF TakeThrows, HttpGetRequest
    <2> QED BY <1>1, <1>3, <2>2 DEF TakeThrows, HttpGetRequest, ReqInv, FieldsHold
<1>4. CASE UNCHANGED reqVars
    <2>1. UNCHANGED <<requestList, ticks, call, posted, field, overtaken>>
        BY <1>4 DEF reqVars
    <2>2. ListHolds' /\ BatchesHold'
        BY <1>1, <2>1, BatchesKept
    <2> QED BY <1>1, <2>1, <2>2 DEF ReqInv, FieldsHold
<1> QED BY <1>2, <1>3, <1>4, ClearStep, BuildStep, TakeStep, ReplyStep DEF ReqNext

LEMMA ReqRight == ReqInv => RightPlaces
<1> SUFFICES ASSUME ReqInv PROVE RightPlaces
    OBVIOUS
<1>1. \A t \in Ticks : DOMAIN posted[t].batch = 1..Len(posted[t].batch)
    BY DEF ReqInv, ReqTyped, Posted
<1>2. /\ \A t \in Ticks : Apart(posted[t].batch)
      /\ \A t, u \in Ticks : t # u => Disjoint(posted[t].batch, posted[u].batch)
      /\ overtaken \/ \A k \in Calls : field[k] \in {k, NoReply}
    BY DEF ReqInv, ReqTyped, BatchesHold, FieldsHold
<1>3. ASSUME NEW t \in Ticks, NEW u \in Ticks,
             NEW i \in DOMAIN posted[t].batch, NEW j \in DOMAIN posted[u].batch
      PROVE  IF t = u THEN posted[t].batch[i].id = posted[u].batch[j].id
                              <=> posted[t].batch[i].call = posted[u].batch[j].call
             ELSE <<posted[t].batch[i].call, posted[t].batch[i].tick>>
                     # <<posted[u].batch[j].call, posted[u].batch[j].tick>>
    <2> DEFINE b == posted[t].batch
               c == posted[u].batch
    <2>1. i \in 1..Len(b) /\ j \in 1..Len(c)
        BY <1>1
    <2>2. Apart(b) /\ (t = u => c = b) /\ (t # u => Disjoint(b, c))
        BY <1>2
    <2> HIDE DEF b, c
    <2>3. IF t = u THEN b[i].id = c[j].id <=> b[i].call = c[j].call
          ELSE <<b[i].call, b[i].tick>> # <<c[j].call, c[j].tick>>
        BY <2>1, <2>2 DEF Apart, Disjoint
    <2> QED BY <2>3 DEF b, c
<1> QED BY <1>2, <1>3 DEF RightPlaces

\* buildRequest, doAPIRequests and onApiRequestAnswered: for any panel, any number of
\* ticks and however the tasks interleave with them, no request is sent twice, a batch
\* keeps its calls apart, and replies go to their fields unless a task took the list in
\* the middle of a tick.
THEOREM RepliesFindPlaces == ReqSpec => []RightPlaces
BY ReqRight, ReqStart, ReqStep, PTL DEF ReqSpec
-----------------------------------------------------------------------------
\* The Ledger device: how a message is cut.

PayloadRecord == [first : BOOLEAN, from : Nat, to : Nat, LC : Nat]

FromOf(m, f, i) == IF i >= m.size THEN <<>> ELSE <<Payload(m, i)>> \o f[i + Piece(m, i)]

\* A payload takes at least 125 bytes, or all that are left.
LEMMA Pieces ==
    ASSUME NEW m \in Messages, NEW i \in Nat, i < m.size
    PROVE  /\ m.size \in Nat /\ m.path \in {17, 21} /\ m.tx \in BOOLEAN
           /\ Prefix(m, i) \in Nat /\ Piece(m, i) \in Nat
           /\ Payload(m, i) \in PayloadRecord
           /\ 1 <= Piece(m, i) /\ i + Piece(m, i) <= m.size
           /\ Prefix(m, i) + Piece(m, i) <= Capacity
           /\ i + Piece(m, i) < m.size => /\ Prefix(m, i) + Piece(m, i) = Capacity
                                          /\ 125 <= Piece(m, i)
<1>1. m.size \in Nat /\ m.path \in {17, 21} /\ m.tx \in BOOLEAN
    BY LedgerAssumption
<1>2. First(m, i) \in BOOLEAN
    BY DEF First
<1>3. Prefix(m, i) \in Nat /\ Prefix(m, i) <= 25
    BY <1>1, <1>2 DEF Prefix
<1>4. /\ Piece(m, i) \in Nat /\ 1 <= Piece(m, i) /\ i + Piece(m, i) <= m.size
      /\ Prefix(m, i) + Piece(m, i) <= Capacity
      /\ i + Piece(m, i) < m.size => /\ Prefix(m, i) + Piece(m, i) = Capacity
                                     /\ 125 <= Piece(m, i)
    BY <1>1, <1>3 DEF Piece, Shorter, Capacity
<1> QED BY <1>1, <1>2, <1>3, <1>4 DEF Payload, PayloadRecord

\* The recursion of PayloadsFrom has a solution: one for the last n bytes extends to
\* one more.
LEMMA PayloadsDefined ==
    ASSUME NEW m \in Messages, NEW i \in 0..m.size
    PROVE  PayloadsFrom(m)[i] = FromOf(m, PayloadsFrom(m), i)
<1>0. m.size \in Nat
    BY LedgerAssumption
<1> DEFINE size == m.size
           Fits(n, g) == \A j \in (size - n)..size : g[j] = FromOf(m, g, j)
           S == {n \in Nat : n <= size =>
                    \E g \in [(size - n)..size -> Seq(PayloadRecord)] : Fits(n, g)}
<1>1. 0 \in S
    <2> DEFINE g == [j \in (size - 0)..size |-> <<>>]
    <2>1. g \in [(size - 0)..size -> Seq(PayloadRecord)] /\ Fits(0, g)
        BY <1>0 DEF FromOf
    <2> QED BY <2>1
<1>2. ASSUME NEW n \in Nat, n \in S PROVE n + 1 \in S
    <2> SUFFICES ASSUME n + 1 <= size
                 PROVE  \E g \in [(size - (n + 1))..size -> Seq(PayloadRecord)] : Fits(n + 1, g)
        OBVIOUS
    <2>1. PICK g \in [(size - n)..size -> Seq(PayloadRecord)] : Fits(n, g)
        BY <1>0, <1>2
    <2> DEFINE b == size - (n + 1)
               h == [j \in b..size |-> IF j = b THEN <<Payload(m, b)>> \o g[b + Piece(m, b)] ELSE g[j]]
    <2>2. /\ b \in Nat /\ b < size /\ size - n = b + 1
          /\ Payload(m, b) \in PayloadRecord /\ Piece(m, b) \in Nat
          /\ 1 <= Piece(m, b) /\ b + Piece(m, b) <= size
        BY <1>0, Pieces
    <2>3. b + Piece(m, b) \in (size - n)..size
        BY <1>0, <2>2
    <2>4. <<Payload(m, b)>> \o g[b + Piece(m, b)] \in Seq(PayloadRecord)
        BY <2>1, <2>2, <2>3
    <2>5. h \in [b..size -> Seq(PayloadRecord)]
        <3>1. \A j \in b..size : j # b => j \in (size - n)..size
            BY <1>0, <2>2
        <3> QED BY <2>1, <2>4, <3>1
    <2>6. ASSUME NEW j \in b..size PROVE h[j] = FromOf(m, h, j)
        <3>1. CASE j = b
            BY <1>0, <2>2, <2>3, <3>1 DEF FromOf
        <3>2. CASE j # b
            <4>1. j \in (size - n)..size /\ j # b /\ j \in Nat
                BY <1>0, <2>2, <3>2
            <4>2. g[j] = FromOf(m, g, j)
                BY <2>1, <4>1
            <4>3. CASE j >= size
                BY <4>1, <4>2, <4>3 DEF FromOf
            <4>4. CASE j < size
                <5>0. Piece(m, j) \in Nat /\ 1 <= Piece(m, j) /\ j + Piece(m, j) <= size
                    BY <4>1, <4>4, Pieces
                <5>1. j + Piece(m, j) \in (size - n)..size /\ j + Piece(m, j) # b
                    <6> HIDE DEF b
                    <6> QED BY <1>0, <2>2, <4>1, <4>4, <5>0
                <5>2. h[j + Piece(m, j)] = g[j + Piece(m, j)]
                    BY <1>0, <2>2, <5>1
                <5> QED BY <1>0, <4>1, <4>2, <4>4, <5>2 DEF FromOf
            <4> QED BY <1>0, <4>1, <4>3, <4>4
        <3> QED BY <3>1, <3>2
    <2> QED BY <2>5, <2>6
<1>3. size \in S
    <2> HIDE DEF S
    <2> QED BY <1>0, <1>1, <1>2, EveryNatural
<1>4. PICK g \in [0..size -> Seq(PayloadRecord)] : \A j \in 0..size : g[j] = FromOf(m, g, j)
    BY <1>0, <1>3
<1> DEFINE Body(f) == [j \in 0..m.size |-> IF j >= m.size THEN <<>>
                                           ELSE <<Payload(m, j)>> \o f[j + Piece(m, j)]]
<1>5. g = Body(g)
    BY <1>4 DEF FromOf
<1>6. PayloadsFrom(m) = Body(PayloadsFrom(m))
    BY <1>5 DEF PayloadsFrom
<1> QED BY <1>6 DEF FromOf

\* What the payloads from byte i on are like, i being the start of a payload.
Cut(m, i, s) ==
    /\ s \in Seq(PayloadRecord)
    /\ i = m.size => s = <<>>
    /\ i < m.size => s # <<>> /\ s[1].from = i /\ s[Len(s)].to = m.size
    /\ \A k \in 1..Len(s) :
          /\ s[k] = Payload(m, s[k].from) /\ s[k].from < m.size
          /\ k > 1 => s[k].from = s[k - 1].to /\ i + 125 <= s[k].from
          /\ k > 2 => i + 250 <= s[k].from
          /\ k < Len(s) => s[k].LC = Capacity

\* One payload in front of those that follow it.
LEMMA CutOneMore ==
    ASSUME NEW m \in Messages, NEW i \in Nat, i < m.size, NEW t, Cut(m, i + Piece(m, i), t)
    PROVE  Cut(m, i, <<Payload(m, i)>> \o t)
<1> DEFINE p == Payload(m, i)
           j == i + Piece(m, i)
           s == <<p>> \o t
<1>1. /\ m.size \in Nat /\ p \in PayloadRecord /\ j \in Nat /\ i < j /\ j <= m.size
      /\ p.from = i /\ p.to = j /\ (j < m.size => p.LC = Capacity /\ i + 125 <= j)
    BY Pieces DEF Payload
<1>2. /\ t \in Seq(PayloadRecord) /\ (j = m.size => t = <<>>)
      /\ j < m.size => t # <<>> /\ t[1].from = j /\ t[Len(t)].to = m.size
    BY DEF Cut
<1> HIDE DEF p, j
<1>3. /\ s \in Seq(PayloadRecord) /\ Len(s) = Len(t) + 1 /\ s[1] = p /\ Len(t) \in Nat
      /\ \A k \in 1..Len(t) : s[k + 1] = t[k]
      /\ t # <<>> <=> Len(t) > 0
    BY <1>1, <1>2
<1>4. s # <<>> /\ s[1].from = i /\ s[Len(s)].to = m.size
    <2>1. CASE j = m.size
        BY <1>1, <1>2, <1>3, <2>1
    <2>2. CASE j < m.size
        BY <1>1, <1>2, <1>3, <2>2
    <2> QED BY <1>1, <2>1, <2>2
<1>5. ASSUME NEW k \in 1..Len(s)
      PROVE  /\ s[k] = Payload(m, s[k].from) /\ s[k].from < m.size
             /\ k > 1 => s[k].from = s[k - 1].to /\ i + 125 <= s[k].from
             /\ k > 2 => i + 250 <= s[k].from
             /\ k < Len(s) => s[k].LC = Capacity
    <2>1. CASE k = 1
        <3>1. 1 < Len(s) => j < m.size
            BY <1>1, <1>2, <1>3
        <3> QED BY <1>1, <1>3, <2>1, <3>1 DEF p
    <2>2. CASE k > 1
        <3>1. /\ k - 1 \in 1..Len(t) /\ (k - 1) + 1 = k /\ t # <<>> /\ j < m.size
              /\ k < Len(s) => k - 1 < Len(t)
            BY <1>1, <1>2, <1>3, <2>2
        <3>2. s[k] = t[k - 1] /\ s[k].from \in Nat
            <4>1. t[k - 1] \in PayloadRecord
                BY <1>2, <3>1
            <4>2. s[k] = t[k - 1]
                BY <1>3, <3>1
            <4> QED BY <4>1, <4>2 DEF PayloadRecord
        <3>3. /\ t[k - 1] = Payload(m, t[k - 1].from) /\ t[k - 1].from < m.size
              /\ k - 1 > 1 => t[k - 1].from = t[(k - 1) - 1].to /\ j + 125 <= t[k - 1].from
              /\ k - 1 < Len(t) => t[k - 1].LC = Capacity
            BY <3>1 DEF Cut, j
        <3>4. CASE k = 2
            BY <1>1, <1>2, <1>3, <3>1, <3>2, <3>3, <3>4
        <3>5. CASE k > 2
            <4>1. (k - 1) - 1 \in 1..Len(t) /\ ((k - 1) - 1) + 1 = k - 1
                BY <1>3, <3>1, <3>5
            <4>2. s[k - 1] = t[(k - 1) - 1]
                BY <1>3, <4>1
            <4> QED BY <1>1, <3>1, <3>2, <3>3, <3>5, <4>2
        <3> QED BY <2>2, <3>4, <3>5
    <2> QED BY <1>3, <2>1, <2>2
<1> QED BY <1>1, <1>3, <1>4, <1>5 DEF Cut, p

LEMMA PayloadsCut == ASSUME NEW m \in Messages PROVE Cut(m, 0, Payloads(m))
<1>0. m.size \in Nat
    BY LedgerAssumption
<1> DEFINE f == PayloadsFrom(m)
           S == {n \in Nat : \A i \in 0..m.size : m.size - i <= n => Cut(m, i, f[i])}
<1>1. ASSUME NEW i \in 0..m.size
      PROVE  /\ i >= m.size => f[i] = <<>>
             /\ i < m.size => f[i] = <<Payload(m, i)>> \o f[i + Piece(m, i)]
    <2>1. f[i] = IF i >= m.size THEN <<>> ELSE <<Payload(m, i)>> \o f[i + Piece(m, i)]
        BY PayloadsDefined DEF FromOf
    <2>2. i < m.size => ~(i >= m.size)
        BY <1>0
    <2> QED BY ONLY <2>1, <2>2
<1> HIDE DEF f
<1>2. Cut(m, m.size, f[m.size])
    <2>0. m.size \in 0..m.size /\ m.size >= m.size
        BY <1>0
    <2>1. f[m.size] = <<>>
        BY <1>1, <2>0
    <2> QED BY <1>0, <2>1 DEF Cut
<1>3. 0 \in S
    <2>1. \A i \in 0..m.size : m.size - i <= 0 => i = m.size
        BY <1>0
    <2> QED BY <1>2, <2>1
<1>4. ASSUME NEW n \in Nat, n \in S PROVE n + 1 \in S
    <2> SUFFICES ASSUME NEW i \in 0..m.size, m.size - i <= n + 1 PROVE Cut(m, i, f[i])
        OBVIOUS
    <2>1. CASE i = m.size
        BY <1>2, <2>1
    <2>2. CASE i < m.size
        <3>0. /\ i \in Nat /\ Piece(m, i) \in Nat /\ 1 <= Piece(m, i)
              /\ i + Piece(m, i) <= m.size
            BY <1>0, <2>2, Pieces
        <3>1. i + Piece(m, i) \in 0..m.size /\ m.size - (i + Piece(m, i)) <= n
            BY <1>0, <3>0
        <3>2. Cut(m, i + Piece(m, i), f[i + Piece(m, i)])
            BY <1>4, <3>1
        <3>3. f[i] = <<Payload(m, i)>> \o f[i + Piece(m, i)]
            BY <1>0, <1>1, <2>2
        <3> QED BY <2>2, <3>0, <3>2, <3>3, CutOneMore
    <2> QED BY <1>0, <2>1, <2>2
<1>5. m.size \in S
    <2> HIDE DEF S
    <2> QED BY <1>0, <1>3, <1>4, EveryNatural
<1> QED BY <1>0, <1>5 DEF Payloads, f

\* A package is three frames, which is a full payload: so the packages are the payloads,
\* and only the last is the last.
LEMMA PackagesArePayloads ==
    ASSUME NEW m \in Messages
    PROVE  /\ Packages(m) \in Seq(BOOLEAN) /\ Len(Packages(m)) = Len(Payloads(m))
           /\ \A k \in 1..Len(Packages(m)) : Packages(m)[k] <=> k < Len(Packages(m))
<1> DEFINE s == Payloads(m)
           f == FramesUpTo(s)
           Body(g) == [k \in 0..Len(s) |-> IF k = 0 THEN 0 ELSE g[k - 1] + Frames(s[k].LC)]
           last == Len(s)
           Short == IF last = 0 THEN 0 ELSE Frames(s[last].LC)
           Sum == [k \in 0..last |-> IF k < last \/ k = 0 THEN 3 * k ELSE 3 * (k - 1) + Short]
<1>1. s \in Seq(PayloadRecord) /\ last \in Nat
    BY PayloadsCut DEF Cut
<1>2. \A k \in 1..last : k < last => Frames(s[k].LC) = 3
    BY PayloadsCut DEF Cut, Frames, Capacity
<1>3. last > 0 => Short \in 1..3
    BY DEF Frames
<1> HIDE DEF s
<1>4. \A k \in 0..last : Sum[k] = IF k = 0 THEN 0 ELSE Sum[k - 1] + Frames(s[k].LC)
    <2> SUFFICES ASSUME NEW k \in 0..last, k # 0 PROVE Sum[k] = Sum[k - 1] + Frames(s[k].LC)
        OBVIOUS
    <2>1. k - 1 \in 0..last /\ k \in 1..last /\ k - 1 < last /\ Sum[k - 1] = 3 * (k - 1)
        BY <1>1
    <2>2. CASE k < last
        BY <1>1, <1>2, <2>1, <2>2
    <2>3. CASE k = last
        BY <1>1, <1>3, <2>1, <2>3
    <2> QED BY <1>1, <2>2, <2>3
<1>5. Sum = Body(Sum)
    BY <1>4
<1> HIDE DEF Sum
<1>6. f = Body(f)
    BY <1>5 DEF FramesUpTo
<1> HIDE DEF f
<1>7. f[0] = 0 /\ \A k \in 0..last : k # 0 => f[k] = f[k - 1] + Frames(s[k].LC)
    BY <1>1, <1>6
<1> DEFINE S == {n \in Nat : n < last => f[n] = 3 * n}
<1>8. 0 \in S
    BY <1>7
<1>9. ASSUME NEW n \in Nat, n \in S PROVE n + 1 \in S
    <2> SUFFICES ASSUME n + 1 < last PROVE f[n + 1] = 3 * (n + 1)
        OBVIOUS
    <2>1. n + 1 \in 0..last /\ n + 1 # 0 /\ (n + 1) - 1 = n /\ n + 1 \in 1..last /\ n < last
        BY <1>1
    <2>2. f[n + 1] = f[n] + Frames(s[n + 1].LC)
        BY <1>7, <2>1
    <2> QED BY <1>2, <1>9, <2>1, <2>2
<1>10. Nat \subseteq S
    <2> HIDE DEF S
    <2> QED BY <1>8, <1>9, EveryNatural
<1>11. (f[last] + 2) \div 3 = last
    <2>1. CASE last = 0
        BY <1>7, <2>1
    <2>2. CASE last > 0
        <3>1. last - 1 \in S /\ last - 1 < last /\ last \in 0..last /\ last - 1 \in Nat
            BY <1>1, <1>10, <2>2
        <3>2. f[last] = 3 * (last - 1) + Short /\ Short \in 1..3
            BY <1>3, <1>7, <2>2, <3>1
        <3>3. f[last] + 2 = 3 * last + (Short - 1) /\ Short - 1 \in 0..2
            BY <1>1, <3>2
        <3> QED BY <1>1, <3>3
    <2> QED BY <1>1, <2>1, <2>2
<1>12. Packages(m) = [k \in 1..last |-> k < last]
    BY <1>11 DEF Packages, s, f
<1>13. Packages(m) \in [1..last -> BOOLEAN]
    <2>1. \A k \in 1..last : (k < last) \in BOOLEAN
        OBVIOUS
    <2> HIDE DEF last
    <2> QED BY <1>12, <2>1, Zenon
<1>14. Packages(m) \in Seq(BOOLEAN) /\ Len(Packages(m)) = last
    BY <1>1, <1>13
<1>15. \A k \in 1..last : Packages(m)[k] <=> k < last
    BY <1>12, Zenon
<1> QED BY <1>14, <1>15 DEF s

LEMMA PayloadFields ==
    ASSUME NEW m, NEW i
    PROVE  /\ Payload(m, i).first = First(m, i)
           /\ Payload(m, i).LC = Prefix(m, i) + Piece(m, i)
<1>1. Payload(m, i).first = First(m, i)
    BY DEF Payload
<1>2. Payload(m, i).LC = Prefix(m, i) + Piece(m, i)
    BY DEF Payload
<1> QED BY <1>1, <1>2

LEMMA PayloadFits ==
    ASSUME NEW m \in Messages, NEW i \in Nat, i < m.size
    PROVE  Payload(m, i).LC \in 1..Capacity
<1>1. Payload(m, i).LC = Prefix(m, i) + Piece(m, i)
    BY PayloadFields
<1>2. /\ Prefix(m, i) \in Nat /\ Piece(m, i) \in Nat /\ 1 <= Piece(m, i)
      /\ Prefix(m, i) + Piece(m, i) <= 150
    BY Pieces DEF Capacity
<1> QED BY <1>1, <1>2 DEF Capacity

\* The first two payloads of a message start where the path and what goes with it end.
LEMMA FirstOnes ==
    ASSUME NEW m \in Messages, NEW k \in 1..Len(Payloads(m))
    PROVE  Payloads(m)[k].first <=> k = 1 \/ (k = 2 /\ ~m.tx)
<1> DEFINE s == Payloads(m)
<1>0. m.tx \in BOOLEAN /\ m.path \in {17, 21} /\ m.size \in Nat
    BY LedgerAssumption
<1>1. s \in Seq(PayloadRecord) /\ s[k] \in PayloadRecord /\ Len(s) \in Nat /\ k \in Nat
    BY PayloadsCut DEF Cut
<1>2. /\ s[1].from = 0 /\ s[k] = Payload(m, s[k].from) /\ s[k].from < m.size
      /\ k > 2 => 250 <= s[k].from
    BY <1>0, <1>1, PayloadsCut DEF Cut
<1>3. s[k].first <=> s[k].from + m.path < Capacity
    <2>1. s[k].first = First(m, s[k].from)
        BY <1>2, PayloadFields, Zenon
    <2> QED BY <2>1, Zenon DEF First
<1>4. k = 2 => s[k].from = Capacity - (m.path + (IF m.tx THEN 0 ELSE 4))
    <2> SUFFICES ASSUME k = 2 PROVE s[2].from = Capacity - (m.path + (IF m.tx THEN 0 ELSE 4))
        OBVIOUS
    <2>1. 1 \in 1..Len(s) /\ 1 < Len(s) /\ 2 \in 1..Len(s)
        BY <1>1
    <2>2. s[2].from = s[1].to /\ s[1].LC = Capacity /\ s[1] = Payload(m, 0)
        BY <1>2, <2>1, PayloadsCut DEF Cut
    <2>3. First(m, 0) /\ 0 < m.size
        BY <1>0, <1>1, <1>2 DEF First, Capacity, PayloadRecord
    <2>4. s[1].to = 0 + Piece(m, 0) /\ s[1].LC = Prefix(m, 0) + Piece(m, 0)
        BY <2>2 DEF Payload
    <2>5. Prefix(m, 0) = m.path + (IF m.tx THEN 0 ELSE 4)
        BY <2>3 DEF Prefix
    <2> QED BY <1>0, <2>2, <2>3, <2>4, <2>5, Pieces DEF Capacity
<1>5. CASE k = 1
    BY <1>0, <1>2, <1>3, <1>5 DEF Capacity
<1>6. CASE k = 2
    <2>1. s[k].from + m.path < Capacity <=> ~m.tx
        BY <1>0, <1>4, <1>6 DEF Capacity
    <2> QED BY <1>3, <1>6, <2>1
<1>7. CASE k > 2
    <2>1. ~(s[k].from + m.path < Capacity) /\ k # 1 /\ k # 2
        BY <1>0, <1>1, <1>2, <1>7 DEF Capacity, PayloadRecord
    <2> QED BY <1>3, <2>1
<1> QED BY <1>1, <1>5, <1>6, <1>7

\* A transaction or message is cut without gaps into payloads of at most 150 bytes,
\* each of which the device answers as one package.
LEMMA Framed == msg \in Messages => Framing
<1> SUFFICES ASSUME msg \in Messages PROVE Framing
    OBVIOUS
<1> DEFINE s == Payloads(msg)
<1>0. msg.size \in Nat /\ msg.size >= 0
    BY LedgerAssumption
<1>1. Cut(msg, 0, s)
    BY PayloadsCut
<1>2. Len(Packages(msg)) = Len(s)
    BY PackagesArePayloads
<1>3. IF msg.size = 0 THEN s = <<>> ELSE s[1].from = 0 /\ s[Len(s)].to = msg.size
    BY <1>0, <1>1 DEF Cut
<1>4. ASSUME NEW k \in 1..Len(s)
      PROVE  s[k].LC \in 1..Capacity /\ (k > 1 => s[k].from = s[k - 1].to)
    <2>1. /\ s[k] = Payload(msg, s[k].from) /\ s[k].from < msg.size
          /\ k > 1 => s[k].from = s[k - 1].to
        BY <1>1 DEF Cut
    <2>2. s[k] \in PayloadRecord
        BY <1>1 DEF Cut
    <2>3. s[k].from \in Nat
        BY <2>2 DEF PayloadRecord
    <2>4. Payload(msg, s[k].from).LC \in 1..Capacity
        BY <2>1, <2>3, PayloadFits, Zenon
    <2> QED BY <2>1, <2>4, Zenon
<1>5. \A k \in 1..Len(s) : s[k].first <=> k = 1 \/ (k = 2 /\ ~msg.tx)
    BY FirstOnes
<1> QED BY <1>2, <1>3, <1>4, <1>5 DEF Framing

\* The Ledger device: what is done with it.

Frame == {"zero", "err", "ok", "sig1", "sig2", "adr1", "adr2", "adr3"}
Todos == {<<>>, <<"check">>, <<"probe", "list">>, <<"list">>, <<"probe", "address", "sign">>,
          <<"address", "sign">>, <<"sign">>}
Places == {"rest", "open", "write", "first", "more", "close", "decode", "undefined"}
Job == [pc : Places, todo : Todos, left : Seq(BOOLEAN), ret : Seq(Frame)]

LedgerTyped ==
    /\ device \in {"none", "own", "other"} /\ plugs \in 0..MaxPlugs
    /\ device_handle \in {"null", "wild", "open", "dead", "closed"}
    /\ wire \in Seq(Frame) /\ job \in Job /\ msg \in Messages
    /\ signer \in {"none", "own", "other"}
    /\ result \in {"none", "signed", "garbage", "failed", "undefined"}
    /\ late \in BOOLEAN /\ pulled \in BOOLEAN
    /\ job.pc # "rest" => job.todo # <<>>
    /\ job.pc = "write" => job.left # <<>>

\* As long as the device stays plugged in, an exchange has it open.
StaysOpen ==
    /\ device_handle = "open" => device # "none"
    /\ job.pc = "undefined" => pulled
    /\ ~pulled /\ job.pc # "rest" => device # "none"
    /\ ~pulled /\ job.pc \in {"write", "first", "more", "close"} => device_handle = "open"

\* Only the last package of a message is answered with the signature; no frame of it is
\* in front of anything else, nor separated from the other, unless one was late.
Flagged(left) == \A k \in 1..Len(left) : left[k] <=> k < Len(left)
Plain(ret) == \A k \in 1..Len(ret) : ret[k] \notin {"sig1", "sig2"}
EndsIn(ret, f) == Len(ret) > 0 /\ ret[Len(ret)] = f
Signed(ret) == Len(ret) > 1 /\ ret[Len(ret) - 1] = "sig1" /\ ret[Len(ret)] = "sig2"

AsAnswered(pc, w, left, ret) ==
    /\ pc = "write" => Plain(ret) /\ w = <<>>
    /\ pc = "first" => /\ Plain(ret)
                       /\ \/ w \in {<<"err">>, <<"ok">>}
                          \/ w = <<"sig1", "sig2">> /\ left = <<>>
    /\ pc = "more" => \/ Plain(ret) /\ w = <<>>
                      \/ EndsIn(ret, "sig1") /\ w = <<"sig2">> /\ left = <<>>
                      \/ Signed(ret) /\ w = <<>> /\ left = <<>>
    /\ pc \in {"close", "decode"} => Plain(ret) \/ Signed(ret)

InOrder ==
    /\ job.pc \in {"rest", "open", "decode"} => wire = <<>>
    /\ Flagged(job.left)
    /\ ~late /\ ~pulled /\ job.pc # "rest" /\ Head(job.todo) = "sign" =>
          AsAnswered(job.pc, wire, job.left, job.ret)

\* Who is asked for the signature is who gave the address, the sender's.
BySender ==
    ~pulled /\ job.pc # "rest" =>
       /\ Head(job.todo) = "address" /\ job.pc \in {"first", "more", "close", "decode"} =>
             signer = device \/ (job.pc = "decode" /\ job.ret = <<>>)
       /\ Head(job.todo) = "sign" /\ msg.tx => device = "own" /\ signer = "own"

LedgerInv ==
    /\ LedgerTyped /\ StaysOpen /\ InOrder /\ BySender /\ SignatureIsGenuine
    /\ job.pc # "rest" => result = "none"

LEMMA JobFields ==
    ASSUME NEW j \in Job
    PROVE  j.pc \in Places /\ j.todo \in Todos /\ j.left \in Seq(BOOLEAN) /\ j.ret \in Seq(Frame)
BY DEF Job

Fields(j, pc, todo, left, ret) == j = [pc |-> pc, todo |-> todo, left |-> left, ret |-> ret]

LEMMA JobChanges ==
    ASSUME NEW j \in Job, NEW pc, NEW todo, NEW left, NEW ret
    PROVE  /\ Fields([j EXCEPT !.pc = pc], pc, j.todo, j.left, j.ret)
           /\ Fields([j EXCEPT !.ret = ret], j.pc, j.todo, j.left, ret)
           /\ Fields([j EXCEPT !.pc = pc, !.ret = ret], pc, j.todo, j.left, ret)
           /\ Fields([j EXCEPT !.pc = pc, !.left = left], pc, j.todo, left, j.ret)
           /\ Fields([j EXCEPT !.pc = pc, !.todo = todo], pc, todo, j.left, j.ret)
           /\ Fields([j EXCEPT !.pc = pc, !.left = left, !.ret = ret], pc, j.todo, left, ret)
<1>1. ASSUME NEW k, k = [j EXCEPT !.pc = pc] PROVE Fields(k, pc, j.todo, j.left, j.ret)
    BY <1>1 DEF Job, Fields
<1>2. ASSUME NEW k, k = [j EXCEPT !.ret = ret] PROVE Fields(k, j.pc, j.todo, j.left, ret)
    BY <1>2 DEF Job, Fields
<1>3. ASSUME NEW k, k = [j EXCEPT !.pc = pc, !.ret = ret] PROVE Fields(k, pc, j.todo, j.left, ret)
    BY <1>3 DEF Job, Fields
<1>4. ASSUME NEW k, k = [j EXCEPT !.pc = pc, !.left = left] PROVE Fields(k, pc, j.todo, left, j.ret)
    BY <1>4 DEF Job, Fields
<1>5. ASSUME NEW k, k = [j EXCEPT !.pc = pc, !.todo = todo] PROVE Fields(k, pc, todo, j.left, j.ret)
    BY <1>5 DEF Job, Fields
<1>6. ASSUME NEW k, k = [j EXCEPT !.pc = pc, !.left = left, !.ret = ret] PROVE Fields(k, pc, j.todo, left, ret)
    BY <1>6 DEF Job, Fields
<1> QED BY <1>1, <1>2, <1>3, <1>4, <1>5, <1>6

LEMMA JobTyped ==
    ASSUME NEW j, NEW pc \in Places, NEW todo \in Todos, NEW left \in Seq(BOOLEAN),
           NEW ret \in Seq(Frame), Fields(j, pc, todo, left, ret)
    PROVE  j \in Job /\ j.pc = pc /\ j.todo = todo /\ j.left = left /\ j.ret = ret
BY DEF Job, Fields

LEMMA Seqs ==
    ASSUME NEW T, NEW s \in Seq(T)
    PROVE  /\ s # <<>> => /\ Head(s) \in T /\ Tail(s) \in Seq(T) /\ Len(s) > 0
                          /\ Len(Tail(s)) = Len(s) - 1
                          /\ \A k \in 1..Len(Tail(s)) : Tail(s)[k] = s[k + 1]
           /\ \A x \in T : Append(s, x) \in Seq(T)
           /\ \A r \in Seq(T) : s \o r \in Seq(T)
<1>1. s # <<>> => /\ Head(s) \in T /\ Tail(s) \in Seq(T) /\ Len(s) > 0
                  /\ Len(Tail(s)) = Len(s) - 1
                  /\ \A k \in 1..Len(Tail(s)) : Tail(s)[k] = s[k + 1]
    OBVIOUS
<1>2. \A x \in T : Append(s, x) \in Seq(T)
    OBVIOUS
<1>3. \A r \in Seq(T) : s \o r \in Seq(T)
    OBVIOUS
<1> QED BY <1>1, <1>2, <1>3

LEMMA NextTodo ==
    ASSUME NEW todo \in Todos, Len(todo) > 1
    PROVE  /\ Tail(todo) \in Todos \ {<<>>}
           /\ Head(Tail(todo)) = "sign" => Head(todo) = "address"
<1>1. todo \in {<<"probe", "list">>, <<"probe", "address", "sign">>, <<"address", "sign">>}
    <2>1. \A f : ~(Len(<<f>>) > 1)
        OBVIOUS
    <2>2. ~(Len(<<>>) > 1)
        OBVIOUS
    <2> QED BY <2>1, <2>2, Zenon DEF Todos
<1>2. CASE todo = <<"probe", "list">>
    <2>1. Tail(todo) = <<"list">> /\ <<"list">> # <<>> /\ Head(<<"list">>) # "sign"
        BY <1>2
    <2> QED BY <2>1, Zenon DEF Todos
<1>3. CASE todo = <<"probe", "address", "sign">>
    <2>1. Tail(todo) = <<"address", "sign">>
        BY <1>3
    <2>2. <<"address", "sign">> # <<>> /\ Head(<<"address", "sign">>) = "address"
        OBVIOUS
    <2> QED BY <2>1, <2>2 DEF Todos
<1>4. CASE todo = <<"address", "sign">>
    <2>1. Tail(todo) = <<"sign">> /\ <<"sign">> # <<>> /\ Head(todo) = "address"
        BY <1>4
    <2> QED BY <2>1, Zenon DEF Todos
<1> QED BY <1>1, <1>2, <1>3, <1>4

LEMMA AnswersTyped == ASSUME NEW a \in Answers PROVE a \in Seq(Frame)
<1>1. a \in {<<"err">>, <<"ok">>, <<"sig1", "sig2">>, <<"adr1", "adr2", "adr3">>}
    BY Zenon DEF Answers
<1>2. <<"err">> \in Seq(Frame) /\ <<"ok">> \in Seq(Frame) /\ <<"sig1", "sig2">> \in Seq(Frame)
    BY DEF Frame
<1>3. <<"adr1", "adr2", "adr3">> \in Seq(Frame)
    BY DEF Frame
<1> QED BY <1>1, <1>2, <1>3

LEMMA OneFlagged == Flagged(<<FALSE>>)
<1>1. Len(<<FALSE>>) = 1
    OBVIOUS
<1>2. <<FALSE>>[1] = FALSE
    OBVIOUS
<1>3. \A k \in 1..1 : k = 1 /\ ~(k < 1)
    OBVIOUS
<1> QED BY <1>1, <1>2, <1>3, Zenon DEF Flagged

LEMMA LedgerStart == LedgerInit => LedgerInv
<1> SUFFICES ASSUME LedgerInit PROVE LedgerInv
    OBVIOUS
<1> USE LedgerAssumption DEF LedgerInit, Rest
<1>1. LedgerTyped
    <2>1. job \in Job /\ job.pc = "rest"
        BY DEF Job, Places, Todos
    <2>2. wire \in Seq(Frame)
        OBVIOUS
    <2>3. late \in BOOLEAN /\ pulled \in BOOLEAN
        OBVIOUS
    <2>4. /\ device \in {"none", "own", "other"} /\ plugs \in 0..MaxPlugs
          /\ device_handle \in {"null", "wild", "open", "dead", "closed"}
          /\ signer \in {"none", "own", "other"} /\ msg \in Messages
          /\ result \in {"none", "signed", "garbage", "failed", "undefined"}
        OBVIOUS
    <2>5. (job.pc # "rest" => job.todo # <<>>) /\ (job.pc = "write" => job.left # <<>>)
        BY <2>1
    <2> QED BY <2>1, <2>2, <2>3, <2>4, <2>5, Zenon DEF LedgerTyped
<1>2. Flagged(job.left)
    BY DEF Flagged
<1> QED BY <1>1, <1>2 DEF LedgerInv, StaysOpen, InOrder, BySender, SignatureIsGenuine

\* The steps of the device's operations, one by one.
LEMMA LedgerSteps ==
    ASSUME [LedgerNext]_ledgerVars
    PROVE  \/ \E todo \in Todos : todo # <<>> /\ Head(todo) # "address" /\ Head(todo) # "sign" /\ Start(todo)
           \/ OpenDevice \/ WritePackage \/ ReadFirst \/ ReadMore \/ CloseDevice
           \/ Decode \/ UseOfBadHandle
           \/ \E d \in {"none", "own", "other"} : Plug(d)
           \/ UNCHANGED ledgerVars
<1>1. ASSUME NEW todo \in {<<"probe", "address", "sign">>, <<"check">>, <<"probe", "list">>}
      PROVE  todo \in Todos /\ todo # <<>> /\ Head(todo) # "address" /\ Head(todo) # "sign"
    BY DEF Todos
<1>2. Sign \/ CheckForLedger \/ GenerateBip32Account =>
         \E todo \in Todos : todo # <<>> /\ Head(todo) # "address" /\ Head(todo) # "sign" /\ Start(todo)
    BY <1>1 DEF Sign, CheckForLedger, GenerateBip32Account
<1> QED BY <1>2, Zenon DEF LedgerNext, LedgerStep

\* What is sent to the device: something, but for an empty message.
LEMMA Sent ==
    ASSUME LedgerTyped
    PROVE  LET sent == IF Head(job.todo) = "sign" THEN Packages(msg) ELSE <<FALSE>> IN
           sent \in Seq(BOOLEAN) /\ Flagged(sent)
<1>1. <<FALSE>> \in Seq(BOOLEAN) /\ Flagged(<<FALSE>>)
    BY OneFlagged
<1>2. Packages(msg) \in Seq(BOOLEAN) /\ Flagged(Packages(msg))
    BY PackagesArePayloads, Zenon DEF LedgerTyped, Flagged
<1> QED BY <1>1, <1>2

\* What each step does to the operation under way, field by field.
LEMMA NowTyped ==
    ASSUME LedgerTyped
    PROVE  /\ job \in Job /\ wire \in Seq(Frame)
           /\ job.pc \in Places /\ job.todo \in Todos /\ job.left \in Seq(BOOLEAN) /\ job.ret \in Seq(Frame)
           /\ job.pc # "rest" => job.todo # <<>>
           /\ job.pc = "write" => job.left # <<>>
BY JobFields, Zenon DEF LedgerTyped

LEMMA Starts ==
    ASSUME NEW todo \in Todos, Start(todo)
    PROVE  /\ job' \in Job /\ job'.pc = "open" /\ job'.todo = todo /\ job'.left = <<>> /\ job'.ret = <<>>
           /\ job.pc = "rest" /\ device # "none"
           /\ result' = "none" /\ late' = FALSE /\ pulled' = FALSE
           /\ UNCHANGED <<device, plugs, device_handle, wire, msg, signer>>
<1>1. Fields(job', "open", todo, <<>>, <<>>)
    BY DEF Start, Rest, Fields
<1>2. "open" \in Places /\ <<>> \in Seq(BOOLEAN) /\ <<>> \in Seq(Frame)
    BY DEF Places
<1>3. job' \in Job /\ job'.pc = "open" /\ job'.todo = todo /\ job'.left = <<>> /\ job'.ret = <<>>
    BY <1>1, <1>2, JobTyped, Zenon
<1> QED BY <1>3, Zenon DEF Start

LEMMA Opens ==
    ASSUME LedgerTyped, OpenDevice
    PROVE  /\ job.pc = "open" /\ job'.todo = job.todo /\ job'.ret = <<>> /\ job' \in Job
           /\ job'.pc = (IF device_handle' = "null" THEN "decode" ELSE Then(job'.left))
           /\ Flagged(job'.left)
           /\ job'.left # <<>> \/ Head(job.todo) = "sign"
           /\ device_handle' \in Opened
           /\ UNCHANGED <<device, plugs, wire, msg, signer, result, late, pulled>>
<1> DEFINE sent == IF Head(job.todo) = "sign" THEN Packages(msg) ELSE <<FALSE>>
           pc == IF device_handle' = "null" THEN "decode" ELSE Then(sent)
<1>1. sent \in Seq(BOOLEAN) /\ Flagged(sent)
    BY Sent
<1>2. sent # <<>> \/ Head(job.todo) = "sign"
    OBVIOUS
<1> HIDE DEF sent
<1>3. pc \in Places /\ <<>> \in Seq(Frame)
    BY DEF Places, Then
<1> HIDE DEF pc
<1>4. job' = [job EXCEPT !.pc = pc, !.left = sent, !.ret = <<>>]
    BY Zenon DEF OpenDevice, sent, pc
<1>5. Fields(job', pc, job.todo, sent, <<>>)
    BY <1>4, NowTyped, JobChanges, Zenon
<1>6. job' \in Job /\ job'.pc = pc /\ job'.todo = job.todo /\ job'.left = sent /\ job'.ret = <<>>
    BY <1>1, <1>3, <1>5, NowTyped, JobTyped, Zenon
<1>7. job'.pc = (IF device_handle' = "null" THEN "decode" ELSE Then(job'.left))
    BY <1>6 DEF pc
<1> QED BY <1>1, <1>2, <1>6, <1>7, Zenon DEF OpenDevice

LEMMA Writes ==
    ASSUME LedgerTyped, WritePackage
    PROVE  /\ job.pc = "write" /\ job'.pc = "first" /\ job'.todo = job.todo /\ job' \in Job
           /\ job.left # <<>> /\ job'.left = Tail(job.left) /\ job'.ret = job.ret
           /\ \/ device_handle = "dead" /\ UNCHANGED <<wire, signer>>
              \/ device_handle = "open" /\ signer' = device /\ \E a \in Answers : wire' = wire \o a
           /\ wire' \in Seq(Frame)
           /\ UNCHANGED <<device, plugs, device_handle, msg, result, late, pulled>>
<1>1. job' = [job EXCEPT !.pc = "first", !.left = Tail(job.left)] /\ job.pc = "write" /\ job.left # <<>>
    BY NowTyped, Zenon DEF WritePackage
<1>2. "first" \in Places /\ Tail(job.left) \in Seq(BOOLEAN)
    <2>1. Tail(job.left) \in Seq(BOOLEAN)
        BY <1>1, NowTyped, Seqs, Zenon
    <2> QED BY <2>1 DEF Places
<1>3. Fields(job', "first", job.todo, Tail(job.left), job.ret)
    BY <1>1, NowTyped, JobChanges, Zenon
<1>4. /\ job' \in Job /\ job'.pc = "first" /\ job'.todo = job.todo
      /\ job'.left = Tail(job.left) /\ job'.ret = job.ret
    BY <1>2, <1>3, NowTyped, JobTyped, Zenon
<1>5. \A a \in Answers : wire \o a \in Seq(Frame)
    BY AnswersTyped, NowTyped, Seqs, Zenon
<1>6. \/ device_handle = "dead" /\ UNCHANGED <<wire, signer>>
      \/ device_handle = "open" /\ signer' = device /\ \E a \in Answers : wire' = wire \o a
    BY Zenon DEF WritePackage
<1>7. wire' \in Seq(Frame)
    BY <1>5, <1>6, NowTyped, Zenon
<1> QED BY <1>1, <1>4, <1>6, <1>7, Zenon DEF WritePackage

LEMMA Reads ==
    ASSUME LedgerTyped, ReadFirst
    PROVE  LET f == IF device_handle = "dead" THEN "zero" ELSE Head(wire) IN
           /\ job.pc = "first" /\ job'.pc = (IF f = "err" THEN "close" ELSE "more")
           /\ job'.todo = job.todo /\ job' \in Job
           /\ job'.left = job.left /\ job'.ret = Append(job.ret, f)
           /\ device_handle = "dead" \/ (device_handle = "open" /\ wire # <<>>)
           /\ wire' = (IF device_handle = "dead" THEN wire ELSE Tail(wire)) /\ wire' \in Seq(Frame)
           /\ UNCHANGED <<device, plugs, device_handle, msg, signer, result, late, pulled>>
<1> DEFINE f == IF device_handle = "dead" THEN "zero" ELSE Head(wire)
           pc == IF f = "err" THEN "close" ELSE "more"
           ret == Append(job.ret, f)
<1>1. device_handle = "dead" \/ (device_handle = "open" /\ wire # <<>>)
    BY Zenon DEF ReadFirst, Usable
<1>2. f \in Frame /\ (IF device_handle = "dead" THEN wire ELSE Tail(wire)) \in Seq(Frame)
    <2>1. "zero" \in Frame
        BY DEF Frame
    <2> QED BY <1>1, <2>1, NowTyped, Seqs, Zenon
<1>3. job' = [job EXCEPT !.pc = pc, !.ret = ret] /\ job.pc = "first"
    BY Zenon DEF ReadFirst
<1> HIDE DEF f
<1>4. pc \in Places /\ ret \in Seq(Frame)
    <2>1. ret \in Seq(Frame)
        BY <1>2, NowTyped, Seqs, Zenon
    <2> QED BY <2>1 DEF Places
<1> HIDE DEF pc, ret
<1>5. Fields(job', pc, job.todo, job.left, ret)
    BY <1>3, NowTyped, JobChanges, Zenon
<1>6. /\ job' \in Job /\ job'.pc = pc /\ job'.todo = job.todo
      /\ job'.left = job.left /\ job'.ret = ret
    BY <1>4, <1>5, NowTyped, JobTyped, Zenon
<1> QED BY <1>1, <1>2, <1>3, <1>6, Zenon DEF ReadFirst, f, pc, ret

LEMMA ReadsMore ==
    ASSUME LedgerTyped, ReadMore
    PROVE  /\ job.pc = "more" /\ device_handle = "open"
           /\ job'.todo = job.todo /\ job' \in Job /\ job'.left = job.left
           /\ \/ /\ wire # <<>> /\ job'.pc = "more" /\ job'.ret = Append(job.ret, Head(wire))
                 /\ wire' = Tail(wire) /\ late' = late
              \/ /\ job'.pc = Then(job.left) /\ job'.ret = job.ret
                 /\ late' = (late \/ wire # <<>>) /\ wire' = wire
           /\ wire' \in Seq(Frame)
           /\ UNCHANGED <<device, plugs, device_handle, msg, signer, result, pulled>>
<1>1. job.pc = "more" /\ device_handle = "open"
    BY Zenon DEF ReadMore
<1>2. CASE /\ wire # <<>> /\ job' = [job EXCEPT !.ret = Append(job.ret, Head(wire))]
           /\ wire' = Tail(wire) /\ late' = late
    <2> DEFINE ret == Append(job.ret, Head(wire))
    <2>1. ret \in Seq(Frame) /\ wire' \in Seq(Frame)
        BY <1>2, NowTyped, Seqs, Zenon
    <2> HIDE DEF ret
    <2>0. job' = [job EXCEPT !.ret = ret]
        BY <1>2 DEF ret
    <2>2. Fields(job', job.pc, job.todo, job.left, ret)
        BY <2>0, NowTyped, JobChanges, Zenon
    <2>3. /\ job' \in Job /\ job'.pc = job.pc /\ job'.todo = job.todo
          /\ job'.left = job.left /\ job'.ret = ret
        BY <2>1, <2>2, NowTyped, JobTyped, Zenon
    <2> QED BY <1>1, <1>2, <2>1, <2>3, Zenon DEF ReadMore, ret
<1>3. CASE /\ job' = [job EXCEPT !.pc = Then(job.left)]
           /\ late' = (late \/ wire # <<>>) /\ wire' = wire
    <2>1. Then(job.left) \in Places
        BY DEF Then, Places
    <2>2. Fields(job', Then(job.left), job.todo, job.left, job.ret)
        BY <1>3, NowTyped, JobChanges, Zenon
    <2>3. /\ job' \in Job /\ job'.pc = Then(job.left) /\ job'.todo = job.todo
          /\ job'.left = job.left /\ job'.ret = job.ret
        BY <2>1, <2>2, NowTyped, JobTyped, Zenon
    <2> QED BY <1>1, <1>3, <2>3, NowTyped, Zenon DEF ReadMore
<1> QED BY <1>2, <1>3, Zenon DEF ReadMore

LEMMA Closes ==
    ASSUME LedgerTyped, CloseDevice
    PROVE  /\ job.pc = "close" /\ job'.pc = "decode" /\ job'.todo = job.todo /\ job' \in Job
           /\ job'.left = job.left /\ job'.ret = job.ret
           /\ device_handle' = "closed" /\ wire' = <<>>
           /\ UNCHANGED <<device, plugs, msg, signer, result, late, pulled>>
<1>1. job' = [job EXCEPT !.pc = "decode"]
    BY Zenon DEF CloseDevice
<1>2. Fields(job', "decode", job.todo, job.left, job.ret) /\ "decode" \in Places
    BY <1>1, NowTyped, JobChanges DEF Places
<1>3. /\ job' \in Job /\ job'.pc = "decode" /\ job'.todo = job.todo
      /\ job'.left = job.left /\ job'.ret = job.ret
    BY <1>2, NowTyped, JobTyped, Zenon
<1> QED BY <1>3, Zenon DEF CloseDevice

LEMMA Fails ==
    ASSUME LedgerTyped, UseOfBadHandle
    PROVE  /\ job.pc \in {"write", "first", "more", "close"} /\ device_handle # "open"
           /\ job'.pc = "undefined" /\ job'.todo = job.todo /\ job' \in Job
           /\ job'.left = job.left /\ job'.ret = job.ret
           /\ UNCHANGED <<device, plugs, device_handle, wire, msg, signer, result, late, pulled>>
<1>1. job' = [job EXCEPT !.pc = "undefined"]
    BY Zenon DEF UseOfBadHandle
<1>2. Fields(job', "undefined", job.todo, job.left, job.ret) /\ "undefined" \in Places
    BY <1>1, NowTyped, JobChanges DEF Places
<1>3. /\ job' \in Job /\ job'.pc = "undefined" /\ job'.todo = job.todo
      /\ job'.left = job.left /\ job'.ret = job.ret
    BY <1>2, NowTyped, JobTyped, Zenon
<1> QED BY <1>3 DEF UseOfBadHandle, Usable

LEMMA Decodes ==
    ASSUME LedgerTyped, Decode
    PROVE  /\ job.pc = "decode" /\ job' \in Job
           /\ \/ /\ Head(job.todo) # "sign" /\ Len(job.todo) > 1
                 /\ Head(job.todo) = "address" => SameAddress
                 /\ job.ret # <<>>
                 /\ job'.pc = "open" /\ job'.todo = Tail(job.todo) /\ job'.todo # <<>>
                 /\ job'.left = job.left /\ result' = result
              \/ /\ job' = Rest /\ job'.pc = "rest" /\ job'.left = <<>>
                 /\ result' \in {"failed", result} \/ (Head(job.todo) = "sign" /\ result' = Signature(job.ret))
           /\ UNCHANGED <<device, plugs, device_handle, wire, msg, signer, late, pulled>>
<1>1. CASE /\ Head(job.todo) # "sign" /\ (Head(job.todo) = "address" => SameAddress)
           /\ Len(job.todo) > 1 /\ job' = [job EXCEPT !.pc = "open", !.todo = Tail(job.todo)]
           /\ Len(job.ret) > 1 /\ UNCHANGED result
    <2>1. Tail(job.todo) \in Todos \ {<<>>}
        BY <1>1, NowTyped, NextTodo, Zenon
    <2>2. Fields(job', "open", Tail(job.todo), job.left, job.ret) /\ "open" \in Places
        BY <1>1, NowTyped, JobChanges DEF Places
    <2>3. job' \in Job /\ job'.pc = "open" /\ job'.todo = Tail(job.todo) /\ job'.left = job.left
        BY <2>1, <2>2, NowTyped, JobTyped, Zenon
    <2>4. job.ret # <<>>
        BY <1>1
    <2> QED BY <1>1, <2>1, <2>3, <2>4, Zenon DEF Decode
<1>2. CASE /\ job' = Rest
           /\ result' \in {"failed", result} \/ (Head(job.todo) = "sign" /\ result' = Signature(job.ret))
    <2>1. Fields(job', "rest", <<>>, <<>>, <<>>)
        BY <1>2 DEF Rest, Fields
    <2>2. "rest" \in Places /\ <<>> \in Todos /\ <<>> \in Seq(BOOLEAN) /\ <<>> \in Seq(Frame)
        BY DEF Places, Todos
    <2>3. job' \in Job /\ job'.pc = "rest" /\ job'.left = <<>>
        BY <2>1, <2>2, JobTyped, Zenon
    <2> QED BY <1>2, <2>3, Zenon DEF Decode
<1> QED BY <1>1, <1>2, Zenon DEF Decode

LEMMA TypedLedgerStep == LedgerTyped /\ [LedgerNext]_ledgerVars => LedgerTyped'
<1> SUFFICES ASSUME LedgerTyped, [LedgerNext]_ledgerVars PROVE LedgerTyped'
    OBVIOUS
<1>1. ASSUME NEW todo \in Todos, todo # <<>>, Start(todo) PROVE LedgerTyped'
    BY <1>1, Starts DEF LedgerTyped
<1>2. CASE OpenDevice
    <2>1. device_handle' \in {"null", "wild", "open", "dead", "closed"}
        BY <1>2, Opens DEF LedgerTyped, Opened
    <2>2. job'.pc # "rest" /\ (job'.pc = "write" => job'.left # <<>>)
        BY <1>2, Opens DEF Then
    <2>3. job.todo # <<>>
        BY <1>2, Opens, NowTyped
    <2> QED BY <1>2, <2>1, <2>2, <2>3, Opens, Zenon DEF LedgerTyped
<1>3. CASE WritePackage
    <2>1. signer' \in {"none", "own", "other"}
        BY <1>3, Writes, Zenon DEF LedgerTyped
    <2> QED BY <1>3, <2>1, Writes, Zenon DEF LedgerTyped
<1>4. CASE ReadFirst
    BY <1>4, Reads, Zenon DEF LedgerTyped
<1>5. CASE ReadMore
    <2>1. late' \in BOOLEAN /\ (job'.pc = "write" => job'.left # <<>>)
        BY <1>5, ReadsMore DEF LedgerTyped, Then
    <2> QED BY <1>5, <2>1, ReadsMore, Zenon DEF LedgerTyped
<1>6. CASE CloseDevice
    <2>1. wire' \in Seq(Frame)
        BY <1>6, Closes
    <2> QED BY <1>6, <2>1, Closes, Zenon DEF LedgerTyped
<1>7. CASE Decode
    <2>1. result' \in {"none", "signed", "garbage", "failed", "undefined"}
        BY <1>7, Decodes DEF LedgerTyped, Signature
    <2> QED BY <1>7, <2>1, Decodes, Zenon DEF LedgerTyped
<1>8. CASE UseOfBadHandle
    BY <1>8, Fails, Zenon DEF LedgerTyped
<1>9. ASSUME NEW d \in {"none", "own", "other"}, Plug(d) PROVE LedgerTyped'
    <2>1. plugs' \in 0..MaxPlugs /\ wire' \in Seq(Frame) /\ pulled' \in BOOLEAN
        BY <1>9, LedgerAssumption DEF Plug, LedgerTyped
    <2>2. device' \in {"none", "own", "other"} /\ device_handle' \in {"null", "wild", "open", "dead", "closed"}
        BY <1>9 DEF Plug, LedgerTyped
    <2> QED BY <1>9, <2>1, <2>2, Zenon DEF Plug, LedgerTyped
<1>10. CASE UNCHANGED ledgerVars
    BY <1>10, Zenon DEF ledgerVars, LedgerTyped
<1> QED BY <1>1, <1>2, <1>3, <1>4, <1>5, <1>6, <1>7, <1>8, <1>9, <1>10, LedgerSteps

LEMMA StaysOpenStep == LedgerTyped /\ StaysOpen /\ [LedgerNext]_ledgerVars => StaysOpen'
<1> SUFFICES ASSUME LedgerTyped, StaysOpen, [LedgerNext]_ledgerVars PROVE StaysOpen'
    OBVIOUS
<1>1. ASSUME NEW todo \in Todos, Start(todo) PROVE StaysOpen'
    BY <1>1, Starts DEF StaysOpen
<1>2. CASE OpenDevice
    BY <1>2, Opens DEF StaysOpen, Opened, Then
<1>3. CASE WritePackage
    BY <1>3, Writes DEF StaysOpen
<1>4. CASE ReadFirst
    BY <1>4, Reads DEF StaysOpen
<1>5. CASE ReadMore
    BY <1>5, ReadsMore DEF StaysOpen, Then
<1>6. CASE CloseDevice
    BY <1>6, Closes DEF StaysOpen
<1>7. CASE Decode
    BY <1>7, Decodes DEF StaysOpen
<1>8. CASE UseOfBadHandle
    BY <1>8, Fails DEF StaysOpen
<1>9. ASSUME NEW d \in {"none", "own", "other"}, Plug(d) PROVE StaysOpen'
    BY <1>9 DEF StaysOpen, Plug
<1>10. CASE UNCHANGED ledgerVars
    BY <1>10 DEF StaysOpen, ledgerVars
<1> QED BY <1>1, <1>2, <1>3, <1>4, <1>5, <1>6, <1>7, <1>8, <1>9, <1>10, LedgerSteps

LEMMA FlaggedTail ==
    ASSUME NEW left \in Seq(BOOLEAN), left # <<>>, Flagged(left)
    PROVE  Flagged(Tail(left)) /\ (~Head(left) => Tail(left) = <<>>)
<1> DEFINE t == Tail(left)
<1>1. /\ t \in Seq(BOOLEAN) /\ Len(left) \in Nat /\ Len(left) > 0 /\ Len(t) = Len(left) - 1
      /\ \A k \in 1..Len(t) : t[k] = left[k + 1]
    BY Seqs
<1>2. Head(left) = left[1] /\ (Len(t) = 0 => t = <<>>)
    BY <1>1
<1> HIDE DEF t
<1>3. ASSUME NEW k \in 1..Len(t) PROVE t[k] <=> k < Len(t)
    <2>1. k + 1 \in 1..Len(left) /\ (k + 1 < Len(left) <=> k < Len(t))
        BY <1>1
    <2>2. left[k + 1] <=> k + 1 < Len(left)
        BY <2>1, Zenon DEF Flagged
    <2> QED BY <1>1, <2>1, <2>2, Zenon
<1>4. ~left[1] => Len(t) = 0
    <2>1. 1 \in 1..Len(left)
        BY <1>1
    <2>2. left[1] <=> 1 < Len(left)
        BY <2>1, Zenon DEF Flagged
    <2> QED BY <1>1, <2>2
<1>5. Flagged(t)
    BY <1>3, Zenon DEF Flagged
<1>6. ~Head(left) => t = <<>>
    BY <1>2, <1>4, Zenon
<1> QED BY <1>5, <1>6 DEF t

\* What the frames appended to an answer make of it.
LEMMA Appended ==
    ASSUME NEW ret \in Seq(Frame), NEW f \in Frame
    PROVE  /\ Plain(ret) /\ f \notin {"sig1", "sig2"} => Plain(Append(ret, f))
           /\ EndsIn(Append(ret, f), f)
           /\ EndsIn(ret, "sig1") /\ f = "sig2" => Signed(Append(ret, f))
<1> DEFINE r == Append(ret, f)
<1>1. /\ Len(ret) \in Nat /\ Len(r) = Len(ret) + 1 /\ r[Len(r)] = f
      /\ \A k \in 1..Len(ret) : r[k] = ret[k]
    OBVIOUS
<1> HIDE DEF r
<1>2. Plain(ret) /\ f \notin {"sig1", "sig2"} => Plain(r)
    <2>1. \A k \in 1..Len(r) : k = Len(r) \/ k \in 1..Len(ret)
        BY <1>1
    <2> QED BY <1>1, <2>1, Zenon DEF Plain
<1>3. EndsIn(r, f)
    BY <1>1 DEF EndsIn
<1>4. EndsIn(ret, "sig1") /\ f = "sig2" => Signed(r)
    <2>1. Len(ret) > 0 => Len(r) - 1 = Len(ret) /\ Len(ret) \in 1..Len(ret) /\ Len(r) > 1
        BY <1>1
    <2> QED BY <1>1, <2>1 DEF EndsIn, Signed
<1> QED BY <1>2, <1>3, <1>4 DEF r

LEMMA NothingSigned == Plain(<<>>) /\ Flagged(<<>>)
BY DEF Plain, Flagged

LEMMA InOrderStep == LedgerTyped /\ StaysOpen /\ InOrder /\ [LedgerNext]_ledgerVars => InOrder'
<1> SUFFICES ASSUME LedgerTyped, StaysOpen, InOrder, [LedgerNext]_ledgerVars PROVE InOrder'
    OBVIOUS
<1>1. ASSUME NEW todo \in Todos, Head(todo) # "sign", Start(todo) PROVE InOrder'
    BY <1>1, Starts, NothingSigned DEF InOrder
<1>2. CASE OpenDevice
    <2>1. job'.pc \in {"decode", "close", "write"} /\ wire' = <<>>
        BY <1>2, Opens DEF InOrder, Then
    <2>2. Plain(job'.ret)
        BY <1>2, Opens, NothingSigned, Zenon
    <2>3. AsAnswered(job'.pc, wire', job'.left, job'.ret)
        BY <2>1, <2>2 DEF AsAnswered
    <2> QED BY <1>2, <2>1, <2>3, Opens DEF InOrder
<1>3. CASE WritePackage
    <2>1. Flagged(job'.left) /\ (~Head(job.left) => job'.left = <<>>)
        BY <1>3, Writes, NowTyped, FlaggedTail, Zenon DEF InOrder
    <2>2. ASSUME ~late, ~pulled, Head(job.todo) = "sign"
          PROVE  AsAnswered(job'.pc, wire', job'.left, job'.ret)
        <3>1. Plain(job'.ret) /\ wire = <<>>
            BY <1>3, <2>2, Writes DEF InOrder, AsAnswered
        <3>2. device_handle = "open"
            BY <1>3, <2>2, Writes DEF StaysOpen
        <3>3. PICK a \in Answers : wire' = wire \o a
            BY <1>3, <3>2, Writes
        <3>4. wire' = a
            BY <3>1, <3>3, AnswersTyped
        <3>5. a \in {<<"err">>, <<"ok">>} \/ (a = <<"sig1", "sig2">> /\ ~Head(job.left))
            BY <2>2, Zenon DEF Answers
        <3>6. job'.pc = "first"
            BY <1>3, Writes
        <3> QED BY <2>1, <3>1, <3>4, <3>5, <3>6, Zenon DEF AsAnswered
    <2> QED BY <1>3, <2>1, <2>2, Writes DEF InOrder
<1>4. CASE ReadFirst
    <2>1. Flagged(job'.left) /\ job'.pc \in {"close", "more"}
        BY <1>4, Reads DEF InOrder
    <2>2. ASSUME ~late, ~pulled, Head(job.todo) = "sign"
          PROVE  AsAnswered(job'.pc, wire', job'.left, job'.ret)
        <3>1. device_handle = "open"
            BY <1>4, <2>2, Reads DEF StaysOpen
        <3>2. /\ wire' = Tail(wire) /\ job'.ret = Append(job.ret, Head(wire)) /\ job'.left = job.left
              /\ job'.pc = IF Head(wire) = "err" THEN "close" ELSE "more"
            BY <1>4, <3>1, Reads
        <3>3. /\ Plain(job.ret)
              /\ wire \in {<<"err">>, <<"ok">>} \/ (wire = <<"sig1", "sig2">> /\ job.left = <<>>)
            BY <1>4, <2>2, Reads DEF InOrder, AsAnswered
        <3>4. CASE wire \in {<<"err">>, <<"ok">>}
            <4>1. Head(wire) \in Frame \ {"sig1", "sig2"} /\ Tail(wire) = <<>>
                <5>1. CASE wire = <<"err">>
                    BY <5>1 DEF Frame
                <5>2. CASE wire = <<"ok">>
                    BY <5>2 DEF Frame
                <5> QED BY <3>4, <5>1, <5>2
            <4>2. Plain(job'.ret)
                BY <3>2, <3>3, <4>1, NowTyped, Appended
            <4> QED BY <2>1, <3>2, <4>1, <4>2, Zenon DEF AsAnswered
        <3>5. CASE wire = <<"sig1", "sig2">> /\ job.left = <<>>
            <4>1. Head(wire) = "sig1" /\ "sig1" \in Frame /\ Tail(wire) = <<"sig2">>
                BY <3>5 DEF Frame
            <4>2. EndsIn(job'.ret, "sig1")
                BY <3>2, <4>1, NowTyped, Appended
            <4>3. job'.pc = "more"
                BY <3>2, <4>1
            <4> QED BY <3>2, <3>5, <4>1, <4>2, <4>3, Zenon DEF AsAnswered
        <3> QED BY <3>3, <3>4, <3>5
    <2> QED BY <1>4, <2>1, <2>2, Reads DEF InOrder
<1>5. CASE ReadMore
    <2>1. Flagged(job'.left) /\ job'.pc \in {"more", "close", "write"}
        BY <1>5, ReadsMore DEF InOrder, Then
    <2>2. ASSUME ~late', ~pulled, Head(job.todo) = "sign"
          PROVE  AsAnswered(job'.pc, wire', job'.left, job'.ret)
        <3>1. \/ Plain(job.ret) /\ wire = <<>>
              \/ EndsIn(job.ret, "sig1") /\ wire = <<"sig2">> /\ job.left = <<>>
              \/ Signed(job.ret) /\ wire = <<>> /\ job.left = <<>>
            BY <1>5, <2>2, ReadsMore DEF InOrder, AsAnswered
        <3>2. CASE wire = <<>>
            <4>1. job'.pc = Then(job.left) /\ job'.ret = job.ret /\ wire' = <<>>
                BY <1>5, <3>2, ReadsMore
            <4>2. job'.pc = "write" => Plain(job.ret)
                BY <3>1, <3>2, <4>1 DEF Then
            <4> QED BY <2>1, <3>1, <3>2, <4>1, <4>2 DEF AsAnswered, Then
        <3>3. CASE wire = <<"sig2">>
            <4>1. Head(wire) = "sig2" /\ "sig2" \in Frame /\ Tail(wire) = <<>> /\ wire # <<>>
                BY <3>3 DEF Frame
            <4>2. /\ job'.pc = "more" /\ job'.ret = Append(job.ret, Head(wire)) /\ wire' = <<>>
                  /\ job'.left = job.left
                BY <1>5, <2>2, <4>1, ReadsMore
            <4>3. EndsIn(job.ret, "sig1") /\ job.left = <<>>
                BY <3>1, <4>1
            <4>4. Signed(job'.ret)
                BY <4>1, <4>2, <4>3, NowTyped, Appended
            <4> QED BY <4>2, <4>3, <4>4, Zenon DEF AsAnswered
        <3> QED BY <3>1, <3>2, <3>3
    <2> QED BY <1>5, <2>1, <2>2, ReadsMore DEF InOrder
<1>6. CASE CloseDevice
    BY <1>6, Closes DEF InOrder, AsAnswered
<1>7. CASE Decode
    <2>1. wire' = <<>> /\ job'.pc \in {"open", "rest"}
        BY <1>7, Decodes DEF InOrder
    <2>2. Flagged(job'.left)
        BY <1>7, Decodes, NothingSigned, Zenon DEF InOrder
    <2> QED BY <2>1, <2>2 DEF InOrder, AsAnswered
<1>8. CASE UseOfBadHandle
    BY <1>8, Fails DEF InOrder, AsAnswered
<1>9. ASSUME NEW d \in {"none", "own", "other"}, Plug(d) PROVE InOrder'
    BY <1>9 DEF InOrder, Plug
<1>10. CASE UNCHANGED ledgerVars
    BY <1>10, Zenon DEF InOrder, ledgerVars
<1> QED BY <1>1, <1>2, <1>3, <1>4, <1>5, <1>6, <1>7, <1>8, <1>9, <1>10, LedgerSteps

LEMMA Decoded ==
    ASSUME NEW ret \in Seq(Frame)
    PROVE  /\ Plain(ret) => Signature(ret) \in {"undefined", "failed"}
           /\ Signed(ret) => Signature(ret) = "signed"
<1>1. Len(ret) \in Nat
    OBVIOUS
<1>2. ASSUME Plain(ret), ~(Len(ret) < 2) PROVE ret[Len(ret) - 1] \notin {"sig1", "sig2"} /\ ret[Len(ret)] \notin {"sig1", "sig2"}
    <2>1. Len(ret) - 1 \in 1..Len(ret) /\ Len(ret) \in 1..Len(ret)
        BY <1>1, <1>2
    <2> QED BY <1>2, <2>1, Zenon DEF Plain
<1> QED BY <1>1, <1>2 DEF Signature, Signed

GenuineInv == BySender /\ SignatureIsGenuine /\ (job.pc # "rest" => result = "none")

LEMMA GenuineStep ==
    LedgerTyped /\ StaysOpen /\ InOrder /\ GenuineInv /\ [LedgerNext]_ledgerVars => GenuineInv'
<1> SUFFICES ASSUME LedgerTyped, StaysOpen, InOrder, GenuineInv, [LedgerNext]_ledgerVars
             PROVE  GenuineInv'
    OBVIOUS
<1> USE DEF GenuineInv, BySender, SignatureIsGenuine
<1>1. ASSUME NEW todo \in Todos, Head(todo) # "address", Head(todo) # "sign", Start(todo)
      PROVE  GenuineInv'
    BY <1>1, Starts
<1>2. CASE OpenDevice
    <2>1. /\ job'.pc = "decode" => device_handle' = "null"
             \/ job'.left = <<>>
          /\ job'.pc = "close" => job'.left = <<>> /\ Head(job.todo) = "sign"
          /\ job'.pc \in {"write", "close", "decode"}
        BY <1>2, Opens DEF Then
    <2>3. Head(job.todo) = "address" => job'.pc = "write" \/ (job'.pc = "decode" /\ job'.ret = <<>>)
        BY <1>2, <2>1, Opens DEF Then
    <2> QED BY <1>2, <2>1, <2>3, Opens
<1>3. CASE WritePackage
    <2>1. ~pulled => signer' = device
        BY <1>3, Writes DEF StaysOpen
    <2> QED BY <1>3, <2>1, Writes
<1>4. CASE ReadFirst
    BY <1>4, Reads
<1>5. CASE ReadMore
    BY <1>5, ReadsMore
<1>6. CASE CloseDevice
    BY <1>6, Closes
<1>7. CASE Decode
    <2>1. CASE job'.pc = "open"
        <3>1. Head(job.todo) = "address" => SameAddress /\ job.ret # <<>>
            BY <1>7, <2>1, Decodes
        <3>2. Head(job'.todo) = "sign" => Head(job.todo) = "address"
            BY <1>7, <2>1, Decodes, NowTyped, NextTodo
        <3> QED BY <1>7, <2>1, <3>1, <3>2, Decodes DEF SameAddress
    <2>2. CASE job'.pc = "rest"
        <3>1. ~late /\ ~pulled /\ Head(job.todo) = "sign" => Signature(job.ret) # "garbage"
            BY <1>7, Decodes, Decoded, NowTyped DEF InOrder, AsAnswered
        <3>2. result = "none"
            BY <1>7, Decodes
        <3> QED BY <1>7, <2>2, <3>1, <3>2, Decodes
    <2> QED BY <1>7, <2>1, <2>2, Decodes
<1>8. CASE UseOfBadHandle
    BY <1>8, Fails
<1>9. ASSUME NEW d \in {"none", "own", "other"}, Plug(d) PROVE GenuineInv'
    BY <1>9 DEF Plug
<1>10. CASE UNCHANGED ledgerVars
    BY <1>10 DEF ledgerVars
<1> QED BY <1>1, <1>2, <1>3, <1>4, <1>5, <1>6, <1>7, <1>8, <1>9, <1>10, LedgerSteps

LEMMA LedgerInvStep == LedgerInv /\ [LedgerNext]_ledgerVars => LedgerInv'
BY TypedLedgerStep, StaysOpenStep, InOrderStep, GenuineStep, Zenon DEF LedgerInv, GenuineInv

\* For any messages and however often devices are exchanged: what is cut, sent and put
\* together again is the message, as the run shows for some lengths.
THEOREM MessagesAreCutRight == LedgerSpec => []Framing
<1>1. LedgerInv => Framing
    BY Framed DEF LedgerInv, LedgerTyped
<1> QED BY <1>1, LedgerStart, LedgerInvStep, PTL DEF LedgerSpec

\* hidapi is called with an open handle unless the device was pulled out.
THEOREM HandleStaysOpen == LedgerSpec => []HandleIsOpen
<1>1. LedgerInv => HandleIsOpen
    BY DEF LedgerInv, StaysOpen, HandleIsOpen
<1> QED BY <1>1, LedgerStart, LedgerInvStep, PTL DEF LedgerSpec

\* What is passed on as a signature of a transaction is one the sender's device gave, if
\* no frame was late and no device exchanged.
THEOREM SignaturesAreGenuine == LedgerSpec => []SignatureIsGenuine
<1>1. LedgerInv => SignatureIsGenuine
    BY DEF LedgerInv
<1> QED BY <1>1, LedgerStart, LedgerInvStep, PTL DEF LedgerSpec

THEOREM LedgerTypeCorrect == LedgerSpec => []LedgerTypeOK
<1>1. LedgerInv => LedgerTypeOK
    BY Zenon DEF LedgerInv, LedgerTyped, LedgerTypeOK
<1> QED BY <1>1, LedgerStart, LedgerInvStep, PTL DEF LedgerSpec
-----------------------------------------------------------------------------
\* All parts together, as the run has them.

\* Amounts rest with an input of no meaning while another part runs.
AmountHolds == AmountsExact /\ (part = "amounts" => input \in Input)

OutsideInv == IInv /\ AppInv /\ LedgerInv /\ BalInv /\ ReqInv /\ ApiInv /\ AmountHolds

LEMMA OutsideStart == OutsideInit => OutsideInv
<1>1. OutsideInit => AmountHolds
    BY AmountStart DEF OutsideInit, Resting, AmountHolds, AmountsExact
<1> QED BY <1>1, InitIInv, StartHolds, LedgerStart, BalStart, ReqStart, ApiInitInv
        DEF OutsideInit, OutsideInv

\* A step of the whole is a step of each part, or leaves the part alone.
LEMMA OutsideSteps ==
    ASSUME [OutsideNext]_outsideVars
    PROVE  /\ [PassNext]_passVars /\ [AppNext]_appVars /\ [LedgerNext]_ledgerVars
           /\ [BalNext]_balVars /\ [ReqNext]_reqVars /\ [ApiNext]_apiVars
           /\ [part = "amounts" /\ Compute]_amountVars /\ part' = part
<1>1. CASE UNCHANGED outsideVars
    BY <1>1, Zenon DEF outsideVars
<1>2. CASE OutsideNext
    BY <1>2, Zenon DEF OutsideNext, Others
<1> QED BY <1>1, <1>2

LEMMA OutsideStep == OutsideInv /\ [OutsideNext]_outsideVars => OutsideInv'
<1> SUFFICES ASSUME OutsideInv, [OutsideNext]_outsideVars PROVE OutsideInv'
    OBVIOUS
<1> USE OutsideSteps DEF OutsideInv
<1>1. IInv'
    BY NextIInv, Zenon
<1>2. AppInv'
    BY StepKeeps, Zenon
<1>3. LedgerInv'
    BY LedgerInvStep, Zenon
<1>4. BalInv'
    BY BalStep, Zenon
<1>5. ReqInv'
    BY ReqStep, Zenon
<1>6. ApiInv'
    BY ApiStep, Zenon
<1>7. AmountHolds'
    <2>1. part' = part
        BY Zenon
    <2>2. CASE part = "amounts"
        <3>1. input \in Input /\ AmountsExact /\ [Compute]_amountVars
            BY <2>2, Zenon DEF AmountHolds
        <3> QED BY <3>1, AmountStep, Zenon DEF AmountHolds
    <2>3. CASE part # "amounts"
        <3>1. output' = output /\ input' = input
            BY <2>3, Zenon DEF amountVars
        <3>2. AmountsExact'
            BY <3>1, Zenon DEF AmountHolds, AmountsExact
        <3> QED BY <2>1, <2>3, <3>2, Zenon DEF AmountHolds
    <2> QED BY <2>2, <2>3
<1> QED BY <1>1, <1>2, <1>3, <1>4, <1>5, <1>6, <1>7

LEMMA OutsideAlways == OutsideSpec => []OutsideInv
BY OutsideStart, OutsideStep, PTL DEF OutsideSpec

\* The fields of every part keep their types.
THEOREM OutsideTypeCorrect == OutsideSpec => []OutsideTypeOK
<1>1. IInv => PassTypeOK
    BY DEF IInv
<1>2. LedgerInv => LedgerTypeOK
    BY Zenon DEF LedgerInv, LedgerTyped, LedgerTypeOK
<1>3. BalInv => BalTypeOK
    BY DEF BalInv, BalTypeOK, TaskRecord, Owner, Kind
<1>4. ReqInv => ReqTypeOK
    <2> SUFFICES ASSUME ReqInv PROVE ReqTypeOK
        OBVIOUS
    <2>1. ReqTyped /\ ListHolds
        BY DEF ReqInv
    <2>2. ASSUME NEW i \in 1..Len(requestList)
          PROVE  requestList[i].call \in Calls /\ requestList[i].tick = ticks
        <3>1. requestList[i] \in ApiRequest
            BY <2>1 DEF ReqTyped
        <3> QED BY <2>1, <3>1 DEF ListHolds, ApiRequest
    <2> QED BY <2>1, <2>2 DEF ReqTyped, ReqTypeOK
<1>5. OutsideInv => OutsideTypeOK
    BY <1>1, <1>2, <1>3, <1>4, AppTypes, ApiHolds DEF OutsideInv, OutsideTypeOK
<1> QED BY <1>5, OutsideAlways, PTL

\* The promises of the parts hold side by side, whatever the others do: what each part's
\* theorem says of its own specification, the run's specification has as well.
THEOREM PartsDoNotInterfere ==
    OutsideSpec => [](/\ Expires /\ WholeOrNothing /\ OneVersion
                      /\ Framing /\ HandleIsOpen /\ SignatureIsGenuine
                      /\ BalancesMatch /\ RightPlaces /\ EndpointWhole /\ LiveIsStored
                      /\ AmountsExact)
<1>1. IInv => Expires
    BY DEF IInv
<1>2. AppInv => WholeOrNothing /\ OneVersion
    BY DEF AppInv, Accounted, Clean, SameVersion, WholeOrNothing, OneVersion
<1>3. LedgerInv => Framing /\ HandleIsOpen /\ SignatureIsGenuine
    BY Framed, Zenon DEF LedgerInv, LedgerTyped, StaysOpen, HandleIsOpen
<1>4. BalInv => BalancesMatch
    BY DEF BalInv
<1>5. OutsideInv => /\ Expires /\ WholeOrNothing /\ OneVersion
                    /\ Framing /\ HandleIsOpen /\ SignatureIsGenuine
                    /\ BalancesMatch /\ RightPlaces /\ EndpointWhole /\ LiveIsStored
                    /\ AmountsExact
    BY <1>1, <1>2, <1>3, <1>4, ReqRight, ApiHolds, Zenon DEF OutsideInv, AmountHolds
<1> QED BY <1>5, OutsideAlways, PTL
=============================================================================
