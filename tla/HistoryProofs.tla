----------------------------- MODULE HistoryProofs -----------------------------
(***************************************************************************)
(* What the account databases hold, for any accounts, transactions and     *)
(* list tasks.                                                             *)
(***************************************************************************)
EXTENDS History, FiniteSetTheorems, TLAPS

\* An entry that no account or its own account sent.
Own(e, a) == e.hash # None => e.from = a

Working == \E l \in Lister : lister[l].pc \in {"push", "emit"}
Listing == BagToSet(currentAccountHistory)
Pcs == {"idle", "start", "push", "emit"}
Guis == {"idle", "choose", "load", "update"}

Lists == UNION {[S -> Nat] : S \in SUBSET Entry}

\* Types; the open database is that of the current account, unless the wallet was closed,
\* and none while the GUI thread changes the account.
Typed ==
    /\ disk \in [Account -> SUBSET Entry]
    /\ {historyDB, current} \subseteq Account \cup {None}
    /\ lister \in [Lister -> [pc : Pcs, got : SUBSET Entry]]
    /\ \A l \in Lister : lister[l].pc # "push" => lister[l].got = {}
    /\ chain \in [Tx -> {"new", "sent", "mined", "reverted"}]
    /\ sending \in [Tx -> Account \cup {None}]
    /\ currentAccountHistory \in Lists /\ emitted \in Seq(Lists)
    /\ gui \in [type : Guis, acct : Account \cup {None}, entry : Entry \cup {None}]
    /\ gui.type = "update" => gui.entry \in Entry /\ historyDB # None
    /\ IF gui.type \in {"choose", "load"} THEN historyDB = None
       ELSE /\ historyDB = current \/ (current = None /\ screen = "load")
            /\ screen = "history" => current # None
    /\ screen # "history" => shown = EmptyBag
    /\ {overlap, raced} \subseteq BOOLEAN

\* Without overlap nothing else is under way while the account is changed.
Quiet == gui.type \in {"choose", "load"} /\ ~overlap => ~Busy

\* What was read, is listed, copied for refreshing or being sent is of the open database.
AllOwn ==
    ~overlap =>
       /\ \A a \in Account : \A e \in disk[a] : Own(e, a)
       /\ \A t \in Tx : sending[t] \in {historyDB, None}
       /\ \A l \in Lister : \A e \in lister[l].got : Own(e, historyDB)
       /\ historyDB # None /\ (shown # EmptyBag \/ emitted # <<>> \/ Working) =>
             \A e \in Listing : Own(e, historyDB)
       /\ gui.type = "update" => Own(gui.entry, historyDB)

OwnInv == Typed /\ Quiet /\ AllOwn

\* What the screen shows, or will when the lists on their way have arrived, is in the
\* list, unless a task is about to rebuild it.
ShownIsListed ==
    screen = "history" /\ (\A l \in Lister : lister[l].pc = "idle") =>
       IF emitted = <<>> THEN BagToSet(shown) \subseteq Listing
       ELSE BagToSet(emitted[Len(emitted)]) \subseteq Listing

\* No entry without a hash was read, listed, copied or filed.
AllSet ==
    ~raced =>
       /\ \A a \in Account : \A e \in disk[a] : e.hash # None
       /\ \A l \in Lister : \A e \in lister[l].got : e.hash # None
       /\ \A e \in Listing : e.hash # None
       /\ gui.type = "update" => gui.entry.hash # None

SetInv == Typed /\ ShownIsListed /\ AllSet

\* Lists of entries: empty, of what was read, and one appended to the other.
LEMMA ListsOf ==
    /\ EmptyBag \in Lists /\ BagToSet(EmptyBag) = {}
    /\ \A S \in SUBSET Entry : SetToBag(S) \in Lists /\ BagToSet(SetToBag(S)) = S
    /\ \A b \in Lists : BagToSet(b) \subseteq Entry
    /\ \A b, c \in Lists : /\ b (+) c \in Lists
                           /\ BagToSet(b (+) c) = BagToSet(b) \cup BagToSet(c)
<1>1. \A S \in SUBSET Entry : SetToBag(S) \in Lists /\ BagToSet(SetToBag(S)) = S
    BY DEF SetToBag, BagToSet, Lists
<1>2. EmptyBag \in Lists /\ BagToSet(EmptyBag) = {}
    BY <1>1 DEF EmptyBag
<1>3. \A b \in Lists : DOMAIN b \subseteq Entry /\ b \in [DOMAIN b -> Nat]
    BY DEF Lists
<1>4. ASSUME NEW b \in Lists, NEW c \in Lists
      PROVE  b (+) c \in Lists /\ BagToSet(b (+) c) = BagToSet(b) \cup BagToSet(c)
    <2> DEFINE S == DOMAIN b \cup DOMAIN c
               val(e) == (IF e \in DOMAIN b THEN b[e] ELSE 0) + (IF e \in DOMAIN c THEN c[e] ELSE 0)
    <2>1. \A e \in S : val(e) \in Nat
        BY <1>3
    <2>2. b (+) c = [e \in S |-> val(e)]
        BY DEF (+)
    <2> HIDE DEF val
    <2>3. b (+) c \in [S -> Nat] /\ S \in SUBSET Entry
        BY <2>1, <2>2, <1>3
    <2>4. DOMAIN (b (+) c) = S
        BY <2>2
    <2> QED BY <2>3, <2>4 DEF Lists, BagToSet
<1> QED BY <1>1, <1>2, <1>3, <1>4 DEF BagToSet

\* How an entry is filed and refreshed.
LEMMA Filing ==
    /\ \A s \in SUBSET Entry, e \in Entry : Put(s, e) \in SUBSET Entry /\ Put(s, e) \subseteq s \cup {e}
    /\ \A e \in Entry : /\ Refreshed(e) \in Entry /\ Refreshed(e).hash = e.hash
                        /\ Refreshed(e).from = e.from
    /\ Unset \subseteq Entry /\ \A e \in Unset : e.hash = None
    /\ \A t \in Tx, a \in Account :
          LET e == [hash |-> t, from |-> a, confirmed |-> FALSE, invalid |-> FALSE] IN
          e \in Entry /\ e.hash = t /\ e.from = a /\ t # None
BY HistoryAssumption DEF Put, Refreshed, Unset, Entry

\* reloadTransactions starts an idle list task and leaves the others alone.
LEMMA ListTasks ==
    ASSUME Typed, NEW l \in Lister, StartList(l)
    PROVE  /\ lister' \in [Lister -> [pc : Pcs, got : SUBSET Entry]]
           /\ \A k \in Lister : /\ lister'[k].got = lister[k].got
                                /\ lister'[k].pc = IF k = l THEN "start" ELSE lister[k].pc
           /\ lister[l].pc = "idle" /\ Working' = Working
BY DEF StartList, Typed, Pcs, Working

\* A restart keeps the types.
LEMMA StopTyped == Typed /\ Stop => Typed'
BY HistoryAssumption, ListsOf DEF Typed, Stop, Pcs, Guis, IdleGui, IdleLister, marks

\* Types.
LEMMA TypedStep == Typed /\ [HistNext]_histVars => Typed'
<1> SUFFICES ASSUME Typed, [HistNext]_histVars PROVE Typed'
    OBVIOUS
<1> USE HistoryAssumption, ListsOf DEF tasks, screens, marks
<1>1. CASE HistoryLoaded
    BY <1>1 DEF HistoryLoaded, Typed, Pcs, Guis, Busy, IdleGui, IdleLister
<1>2. CASE LeaveHistory
    BY <1>2 DEF LeaveHistory, Click, Typed, Pcs, Guis, Busy, IdleGui, IdleLister
<1>3. CASE UpdateThrows
    BY <1>3 DEF UpdateThrows, Stop, Typed, Pcs, Guis, Busy, IdleGui, IdleLister
<1>4. CASE TxConfirmed
    BY <1>4 DEF TxConfirmed, Typed, Pcs, Guis, Busy, IdleGui, IdleLister
<1>5. CASE CloseProgress
    BY <1>5 DEF CloseProgress, Typed, Pcs, Guis, Busy, IdleGui, IdleLister
<1>6. CASE LoadHistoryDB
    BY <1>6 DEF LoadHistoryDB, Typed, Pcs, Guis, Busy, IdleGui, IdleLister
<1>7. ASSUME NEW l \in Lister, ListRead(l) PROVE Typed'
    <2>1. CASE Stop
        BY <2>1, StopTyped
    <2>2. CASE ~Stop
        <3>1. historyDB \in Account /\ disk[historyDB] \in SUBSET Entry
            BY <1>7, <2>2 DEF ListRead, Typed
        <3>2. /\ lister' = [lister EXCEPT ![l] = [pc |-> "push", got |-> disk[historyDB]]]
              /\ currentAccountHistory' = EmptyBag
              /\ UNCHANGED <<disk, chain, historyDB, current, sending, emitted, gui, screens,
                             overlap, raced, erased>>
            BY <1>7, <2>2 DEF ListRead
        <3> QED BY <3>1, <3>2 DEF Typed, Pcs
    <2> QED BY <2>1, <2>2
<1>8. ASSUME NEW l \in Lister, ListPush(l) PROVE Typed'
    BY <1>8 DEF ListPush, Typed, Pcs, Guis, Busy, IdleGui, IdleLister
<1>9. ASSUME NEW l \in Lister, ListEmit(l) PROVE Typed'
    BY <1>9 DEF ListEmit, Typed, Pcs, Guis, Busy, IdleGui, IdleLister
<1>10. ASSUME NEW l \in Lister, OpenHistory(l) PROVE Typed'
    BY <1>10, ListTasks DEF OpenHistory, Typed
<1>11. ASSUME NEW l \in Lister, UpdateEnd(l) PROVE Typed'
    <2>1. /\ historyDB \in Account /\ gui.entry \in Entry /\ disk[historyDB] \in SUBSET Entry
          /\ disk' = [disk EXCEPT ![historyDB] = Put(disk[historyDB], Refreshed(gui.entry))]
        BY <1>11 DEF UpdateEnd, Typed
    <2>2. disk' \in [Account -> SUBSET Entry]
        BY <2>1, Filing DEF Typed
    <2> QED BY <1>11, <2>2, ListTasks DEF UpdateEnd, Typed, IdleGui, Guis
<1>12. ASSUME NEW l \in Lister, EraseAll(l) PROVE Typed'
    <2>1. disk' \in [Account -> SUBSET Entry]
        BY <1>12 DEF EraseAll, Typed
    <2> QED BY <1>12, <2>1, ListTasks DEF EraseAll, Typed
<1>13. ASSUME NEW e \in Entry, UpdateBegin(e) PROVE Typed'
    <2>1. PICK x \in Entry : gui' = [type |-> "update", acct |-> None, entry |-> x]
        BY <1>13, Filing DEF UpdateBegin, Typed
    <2>2. historyDB # None
        <3>1. shown # EmptyBag
            BY <1>13, ListsOf DEF UpdateBegin, BagIn
        <3> QED BY <1>13, <3>1 DEF UpdateBegin, Click, Free, Typed
    <2> QED BY <1>13, <2>1, <2>2 DEF UpdateBegin, Typed, Guis
<1>14. ASSUME NEW t \in Tx, Send(t) PROVE Typed'
    BY <1>14 DEF Send, Typed, Pcs, Guis, Busy, IdleGui, IdleLister
<1>15. ASSUME NEW t \in Tx, Broadcast(t) PROVE Typed'
    BY <1>15 DEF Broadcast, Typed, Pcs, Guis, Busy, IdleGui, IdleLister
<1>16. ASSUME NEW t \in Tx, Mine(t) PROVE Typed'
    BY <1>16 DEF Mine, Typed, Pcs, Guis, Busy, IdleGui, IdleLister
<1>17. ASSUME NEW t \in Tx, SendEnd(t) PROVE Typed'
    <2>1. CASE Stop
        BY <2>1, StopTyped
    <2>2. CASE ~Stop
        <3>1. historyDB \in Account /\ sending[t] \in Account /\ disk[historyDB] \in SUBSET Entry
            BY <1>17, <2>2 DEF SendEnd, Typed
        <3>2. disk' \in [Account -> SUBSET Entry]
            BY <1>17, <2>2, <3>1, Filing DEF SendEnd, Typed
        <3> QED BY <1>17, <2>2, <3>2 DEF SendEnd, Typed
    <2> QED BY <2>1, <2>2
<1>18. ASSUME NEW t \in Tx, SendFails(t) PROVE Typed'
    BY <1>18 DEF SendFails, Typed, Pcs, Guis, Busy, IdleGui, IdleLister
<1>19. ASSUME NEW a \in Account, ChooseAccount(a) PROVE Typed'
    BY <1>19
       DEF ChooseAccount, CloseHistoryDB, Click, Typed, Pcs, Guis, Busy, IdleGui, IdleLister
<1>20. ASSUME NEW a \in Account \cup {None}, LoadWallet(a) PROVE Typed'
    BY <1>20 DEF LoadWallet, CloseHistoryDB, Click, Typed, Pcs, Guis, Busy, IdleGui, IdleLister
<1>21. CASE CloseWallet
    BY <1>21 DEF CloseWallet, Click, Typed, Pcs, Guis, Busy, IdleGui, IdleLister
<1>22. CASE UNCHANGED histVars
    BY <1>22 DEF histVars, Typed, Pcs, Guis, Busy, IdleGui, IdleLister
<1> QED BY <1>1, <1>2, <1>3, <1>4, <1>5, <1>6, <1>7, <1>8, <1>9, <1>10, <1>11,
           <1>12, <1>13, <1>14, <1>15, <1>16, <1>17, <1>18, <1>19, <1>20, <1>21, <1>22
        DEF HistNext

\* After a restart nothing is open or under way.
LEMMA StopOwn == OwnInv /\ Stop => Quiet' /\ AllOwn'
BY ListsOf DEF OwnInv, AllOwn, Quiet, Stop, IdleGui, IdleLister, Listing, Working, Busy, marks

\* Every step leaves entries with their account.
LEMMA OwnStep == OwnInv /\ [HistNext]_histVars => OwnInv'
<1> SUFFICES ASSUME OwnInv, [HistNext]_histVars PROVE Quiet' /\ AllOwn'
    BY TypedStep DEF OwnInv
<1> USE HistoryAssumption, ListsOf DEF tasks, screens, marks, Free, IdleGui, IdleLister
<1> USE DEF OwnInv
<1>1. CASE HistoryLoaded
    BY <1>1 DEF HistoryLoaded, OwnInv, Typed, Quiet, AllOwn, Busy, Working, Listing
<1>2. CASE LeaveHistory
    BY <1>2 DEF LeaveHistory, Click, OwnInv, Typed, Quiet, AllOwn, Busy, Working, Listing
<1>3. CASE UpdateThrows
    BY <1>3, StopOwn DEF UpdateThrows
<1>4. CASE TxConfirmed
    BY <1>4 DEF TxConfirmed, OwnInv, Typed, Quiet, AllOwn, Busy, Working, Listing
<1>5. CASE CloseProgress
    BY <1>5 DEF CloseProgress, OwnInv, Typed, Quiet, AllOwn, Busy, Working, Listing
<1>6. CASE LoadHistoryDB
    BY <1>6 DEF LoadHistoryDB, OwnInv, Typed, Quiet, AllOwn, Busy, Working, Listing
<1>7. ASSUME NEW l \in Lister, ListRead(l) PROVE (Quiet /\ AllOwn)'
    <2>1. CASE Stop
        BY <2>1, StopOwn
    <2>2. CASE ~Stop
        <3>1. historyDB \in Account /\ disk[historyDB] \in SUBSET Entry
            BY <1>7, <2>2 DEF ListRead, Typed
        <3>2. /\ lister' = [lister EXCEPT ![l] = [pc |-> "push", got |-> disk[historyDB]]]
              /\ currentAccountHistory' = EmptyBag
              /\ UNCHANGED <<disk, chain, historyDB, current, sending, emitted, gui, screens,
                             overlap, raced, erased>>
            BY <1>7, <2>2 DEF ListRead
        <3>3. Busy
            BY <1>7 DEF ListRead, Busy
        <3> QED BY <3>1, <3>2, <3>3 DEF Typed, Quiet, AllOwn, Listing
    <2> QED BY <2>1, <2>2
<1>8. ASSUME NEW l \in Lister, ListPush(l) PROVE (Quiet /\ AllOwn)'
    <2>1. /\ lister' = [lister EXCEPT ![l] = [pc |-> "emit", got |-> {}]]
          /\ Working /\ Busy
          /\ UNCHANGED <<disk, historyDB, sending, emitted, gui, shown, overlap>>
        BY <1>8 DEF ListPush, Working, Busy
    <2>2. Listing' = Listing \cup lister[l].got
        BY <1>8 DEF ListPush, Typed, Listing
    <2>3. ~overlap /\ historyDB # None => \A e \in Listing' : Own(e, historyDB)
        BY <2>1, <2>2 DEF AllOwn
    <2> QED BY <2>1, <2>3 DEF Typed, Quiet, AllOwn
<1>9. ASSUME NEW l \in Lister, ListEmit(l) PROVE (Quiet /\ AllOwn)'
    BY <1>9 DEF ListEmit, OwnInv, Typed, Quiet, AllOwn, Busy, Working, Listing
<1>10. ASSUME NEW l \in Lister, OpenHistory(l) PROVE (Quiet /\ AllOwn)'
    BY <1>10, ListTasks DEF OpenHistory, Click, OwnInv, Quiet, AllOwn, Listing
<1>11. ASSUME NEW l \in Lister, UpdateEnd(l) PROVE (Quiet /\ AllOwn)'
    <2>1. /\ historyDB \in Account /\ gui.entry \in Entry /\ disk[historyDB] \in SUBSET Entry
          /\ disk' = [disk EXCEPT ![historyDB] = Put(disk[historyDB], Refreshed(gui.entry))]
        BY <1>11 DEF UpdateEnd, Typed
    <2>2. ~overlap => \A a \in Account : \A e \in disk'[a] : Own(e, a)
        BY <1>11, <2>1, Filing DEF UpdateEnd, Typed, AllOwn, Own
    <2> QED BY <1>11, <2>2, ListTasks DEF UpdateEnd, Quiet, AllOwn, Listing
<1>12. ASSUME NEW l \in Lister, EraseAll(l) PROVE (Quiet /\ AllOwn)'
    <2>1. \A a \in Account : disk'[a] \subseteq disk[a]
        BY <1>12 DEF EraseAll, Typed
    <2> QED BY <1>12, <2>1, ListTasks DEF EraseAll, Click, Quiet, AllOwn, Listing
<1>13. ASSUME NEW e \in Entry, UpdateBegin(e) PROVE (Quiet /\ AllOwn)'
    <2>1. PICK x \in Entry : /\ gui' = [type |-> "update", acct |-> None, entry |-> x]
                             /\ x \in Listing \/ x.hash = None
        BY <1>13, Filing DEF UpdateBegin, Typed, Listing
    <2>2. shown # EmptyBag /\ historyDB # None
        BY <1>13 DEF UpdateBegin, BagIn, Click, Typed
    <2> QED BY <1>13, <2>1, <2>2 DEF UpdateBegin, Quiet, AllOwn, Listing, Working, Own
<1>14. ASSUME NEW t \in Tx, Send(t) PROVE (Quiet /\ AllOwn)'
    BY <1>14 DEF Send, OwnInv, Typed, Quiet, AllOwn, Busy, Working, Listing
<1>15. ASSUME NEW t \in Tx, Broadcast(t) PROVE (Quiet /\ AllOwn)'
    BY <1>15 DEF Broadcast, OwnInv, Typed, Quiet, AllOwn, Busy, Working, Listing
<1>16. ASSUME NEW t \in Tx, Mine(t) PROVE (Quiet /\ AllOwn)'
    BY <1>16 DEF Mine, OwnInv, Typed, Quiet, AllOwn, Busy, Working, Listing
<1>17. ASSUME NEW t \in Tx, SendEnd(t) PROVE (Quiet /\ AllOwn)'
    <2>1. CASE Stop
        BY <2>1, StopOwn
    <2>2. CASE ~Stop
        <3>1. historyDB \in Account /\ sending[t] \in Account /\ disk[historyDB] \in SUBSET Entry
            BY <1>17, <2>2 DEF SendEnd, Typed
        <3> DEFINE filed == [hash |-> t, from |-> sending[t], confirmed |-> FALSE, invalid |-> FALSE]
        <3>a. disk' = [disk EXCEPT ![historyDB] = Put(disk[historyDB], filed)]
            BY <1>17, <2>2 DEF SendEnd
        <3>b. /\ Put(disk[historyDB], filed) \subseteq disk[historyDB] \cup {filed}
              /\ filed.from = sending[t]
            BY <3>1, Filing
        <3>c. ~overlap => Own(filed, historyDB)
            BY <1>17, <3>1, <3>b DEF AllOwn, Own, SendEnd
        <3>2. ~overlap => \A a \in Account : \A e \in disk'[a] : Own(e, a)
            <4> HIDE DEF filed
            <4> QED BY <3>1, <3>a, <3>b, <3>c DEF Typed, AllOwn
        <3>3. \A u \in Tx : sending'[u] \in {sending[u], None}
            BY <1>17, <2>2 DEF SendEnd, Typed
        <3> QED BY <1>17, <2>2, <3>2, <3>3 DEF SendEnd, Typed, Quiet, AllOwn, Listing, Working, Busy
    <2> QED BY <2>1, <2>2
<1>18. ASSUME NEW t \in Tx, SendFails(t) PROVE (Quiet /\ AllOwn)'
    BY <1>18 DEF SendFails, OwnInv, Typed, Quiet, AllOwn, Busy, Working, Listing
<1>19. ASSUME NEW a \in Account, ChooseAccount(a) PROVE (Quiet /\ AllOwn)'
    BY <1>19
       DEF ChooseAccount, CloseHistoryDB, Click, OwnInv, Typed, Quiet, AllOwn, Busy, Working, Listing
<1>20. ASSUME NEW a \in Account \cup {None}, LoadWallet(a) PROVE (Quiet /\ AllOwn)'
    BY <1>20
       DEF LoadWallet, CloseHistoryDB, Click, OwnInv, Typed, Quiet, AllOwn, Busy, Working, Listing
<1>21. CASE CloseWallet
    BY <1>21 DEF CloseWallet, Click, OwnInv, Typed, Quiet, AllOwn, Busy, Working, Listing
<1>22. CASE UNCHANGED histVars
    BY <1>22 DEF histVars, OwnInv, Typed, Quiet, AllOwn, Busy, Working, Listing
<1> QED BY <1>1, <1>2, <1>3, <1>4, <1>5, <1>6, <1>7, <1>8, <1>9, <1>10, <1>11,
           <1>12, <1>13, <1>14, <1>15, <1>16, <1>17, <1>18, <1>19, <1>20, <1>21, <1>22
        DEF HistNext

\* After a restart the list and the screen are empty.
LEMMA StopSet == SetInv /\ Stop => ShownIsListed' /\ AllSet'
BY ListsOf DEF SetInv, AllSet, ShownIsListed, Stop, IdleGui, IdleLister, Listing, Working, marks

\* No step makes an entry from nothing.
LEMMA SetStep == SetInv /\ [HistNext]_histVars => SetInv'
<1> SUFFICES ASSUME SetInv, [HistNext]_histVars PROVE ShownIsListed' /\ AllSet'
    BY TypedStep DEF SetInv
<1> USE HistoryAssumption, ListsOf DEF tasks, screens, marks, Free, IdleGui, IdleLister
<1> USE DEF SetInv
<1>1. CASE HistoryLoaded
    <2>1. emitted \in Seq(Lists) /\ emitted # <<>>
        BY <1>1 DEF HistoryLoaded, Typed
    <2>2. CASE Tail(emitted) = <<>>
        <3>1. Head(emitted) = emitted[Len(emitted)]
            <4>1. /\ Len(Tail(emitted)) = Len(emitted) - 1 /\ Len(emitted) \in Nat
                  /\ Head(emitted) = emitted[1] /\ Len(<<>>) = 0
                BY <2>1
            <4>2. Len(Tail(emitted)) = Len(<<>>)
                BY <2>2
            <4>3. Len(emitted) = 1
                BY <4>1, <4>2
            <4> QED BY <4>1, <4>3
        <3> QED BY <1>1, <2>1, <2>2, <3>1 DEF HistoryLoaded, Typed, ShownIsListed, AllSet, Working, Listing
    <2>3. CASE Tail(emitted) # <<>>
        <3>1. Tail(emitted)[Len(Tail(emitted))] = emitted[Len(emitted)]
            BY <2>1, <2>3
        <3> QED BY <1>1, <2>1, <2>3, <3>1 DEF HistoryLoaded, ShownIsListed, AllSet, Working, Listing
    <2> QED BY <2>2, <2>3
<1>2. CASE LeaveHistory
    BY <1>2 DEF LeaveHistory, Click, SetInv, Typed, ShownIsListed, AllSet, Working, Listing
<1>3. CASE UpdateThrows
    BY <1>3, StopSet DEF UpdateThrows
<1>4. CASE TxConfirmed
    BY <1>4 DEF TxConfirmed, SetInv, Typed, ShownIsListed, AllSet, Working, Listing
<1>5. CASE CloseProgress
    BY <1>5 DEF CloseProgress, SetInv, Typed, ShownIsListed, AllSet, Working, Listing
<1>6. CASE LoadHistoryDB
    BY <1>6 DEF LoadHistoryDB, SetInv, Typed, ShownIsListed, AllSet, Working, Listing
<1>7. ASSUME NEW l \in Lister, ListRead(l) PROVE (ShownIsListed /\ AllSet)'
    <2>1. CASE Stop
        BY <2>1, StopSet
    <2>2. CASE ~Stop
        <3>1. historyDB \in Account /\ disk[historyDB] \in SUBSET Entry
            BY <1>7, <2>2 DEF ListRead, Typed
        <3>2. /\ lister' = [lister EXCEPT ![l] = [pc |-> "push", got |-> disk[historyDB]]]
              /\ currentAccountHistory' = EmptyBag
              /\ UNCHANGED <<disk, chain, historyDB, current, sending, emitted, gui, screens,
                             overlap, raced, erased>>
            BY <1>7, <2>2 DEF ListRead
        <3>3. Working'
            BY <3>2 DEF Working, Typed
        <3> QED BY <3>1, <3>2, <3>3 DEF Typed, ShownIsListed, AllSet, Listing
    <2> QED BY <2>1, <2>2
<1>8. ASSUME NEW l \in Lister, ListPush(l) PROVE (ShownIsListed /\ AllSet)'
    <2>1. /\ lister[l].got \in SUBSET Entry /\ SetToBag(lister[l].got) \in Lists
          /\ BagToSet(SetToBag(lister[l].got)) = lister[l].got
        BY DEF Typed
    <2>2. Listing' = Listing \cup lister[l].got
        BY <1>8, <2>1 DEF ListPush, Listing, Typed
    <2>3. lister'[l].pc # "idle"
        BY <1>8 DEF ListPush, Typed
    <2>4. \A k \in Lister : lister'[k].got \subseteq lister[k].got
        BY <1>8 DEF ListPush, Typed
    <2>5. UNCHANGED <<disk, gui, raced>>
        BY <1>8 DEF ListPush
    <2> QED BY <2>2, <2>3, <2>4, <2>5 DEF ShownIsListed, AllSet
<1>9. ASSUME NEW l \in Lister, ListEmit(l) PROVE (ShownIsListed /\ AllSet)'
    <2>1. emitted' # <<>> /\ emitted'[Len(emitted')] = currentAccountHistory
        <3>1. emitted \in Seq(Lists) /\ emitted' = Append(emitted, currentAccountHistory)
            BY <1>9 DEF ListEmit, Typed
        <3>2. Len(emitted') = Len(emitted) + 1 /\ emitted'[Len(emitted) + 1] = currentAccountHistory
            BY <3>1
        <3>3. Len(emitted) \in Nat /\ Len(<<>>) = 0
            BY <3>1
        <3> QED BY <3>2, <3>3
    <2>2. \A k \in Lister : lister'[k].got \subseteq lister[k].got
        BY <1>9 DEF ListEmit, Typed
    <2> QED BY <1>9, <2>1, <2>2 DEF ListEmit, ShownIsListed, AllSet, Listing
<1>10. ASSUME NEW l \in Lister, OpenHistory(l) PROVE (ShownIsListed /\ AllSet)'
    BY <1>10, ListTasks DEF OpenHistory, Click, ShownIsListed, AllSet, Listing
<1>11. ASSUME NEW l \in Lister, UpdateEnd(l) PROVE (ShownIsListed /\ AllSet)'
    <2>1. /\ historyDB \in Account /\ gui.entry \in Entry /\ disk[historyDB] \in SUBSET Entry
          /\ disk' = [disk EXCEPT ![historyDB] = Put(disk[historyDB], Refreshed(gui.entry))]
        BY <1>11 DEF UpdateEnd, Typed
    <2>2. ~raced => \A a \in Account : \A e \in disk'[a] : e.hash # None
        BY <1>11, <2>1, Filing DEF UpdateEnd, Typed, AllSet
    <2> QED BY <1>11, <2>2, ListTasks DEF UpdateEnd, ShownIsListed, AllSet, Listing
<1>12. ASSUME NEW l \in Lister, EraseAll(l) PROVE (ShownIsListed /\ AllSet)'
    <2>1. \A a \in Account : disk'[a] \subseteq disk[a]
        BY <1>12 DEF EraseAll, Typed
    <2> QED BY <1>12, <2>1, ListTasks DEF EraseAll, Click, ShownIsListed, AllSet, Listing
<1>13. ASSUME NEW e \in Entry, UpdateBegin(e) PROVE (ShownIsListed /\ AllSet)'
    <2>1. /\ UNCHANGED <<disk, currentAccountHistory, lister, emitted, screen, shown>>
          /\ raced' = (raced \/ emitted # <<>> \/ \E l \in Lister : lister[l].pc # "idle")
        BY <1>13 DEF UpdateBegin
    <2>2. Working' = Working /\ Listing' = Listing /\ (~raced' => ~raced)
        BY <2>1 DEF Working, Listing, Typed
    <2>3. ~raced' => e \in Listing
        <3>1. e \in BagToSet(shown) /\ screen = "history"
            BY <1>13 DEF UpdateBegin, BagIn, Typed
        <3>2. ~raced' => emitted = <<>> /\ \A l \in Lister : lister[l].pc = "idle"
            BY <2>1
        <3> QED BY <3>1, <3>2 DEF ShownIsListed
    <2>4. ~raced' => gui'.entry \in Listing
        BY <1>13, <2>3 DEF UpdateBegin, Listing
    <2> QED BY <2>1, <2>2, <2>4 DEF ShownIsListed, AllSet
<1>14. ASSUME NEW t \in Tx, Send(t) PROVE (ShownIsListed /\ AllSet)'
    BY <1>14 DEF Send, SetInv, Typed, ShownIsListed, AllSet, Working, Listing
<1>15. ASSUME NEW t \in Tx, Broadcast(t) PROVE (ShownIsListed /\ AllSet)'
    BY <1>15 DEF Broadcast, SetInv, Typed, ShownIsListed, AllSet, Working, Listing
<1>16. ASSUME NEW t \in Tx, Mine(t) PROVE (ShownIsListed /\ AllSet)'
    BY <1>16 DEF Mine, SetInv, Typed, ShownIsListed, AllSet, Working, Listing
<1>17. ASSUME NEW t \in Tx, SendEnd(t) PROVE (ShownIsListed /\ AllSet)'
    <2>1. CASE Stop
        BY <2>1, StopSet
    <2>2. CASE ~Stop
        <3>1. historyDB \in Account /\ sending[t] \in Account /\ disk[historyDB] \in SUBSET Entry
            BY <1>17, <2>2 DEF SendEnd, Typed
        <3>2. ~raced => \A a \in Account : \A e \in disk'[a] : e.hash # None
            BY <1>17, <2>2, <3>1, Filing DEF SendEnd, Typed, AllSet
        <3> QED BY <1>17, <2>2, <3>2 DEF SendEnd, ShownIsListed, AllSet, Listing, Working
    <2> QED BY <2>1, <2>2
<1>18. ASSUME NEW t \in Tx, SendFails(t) PROVE (ShownIsListed /\ AllSet)'
    BY <1>18 DEF SendFails, SetInv, Typed, ShownIsListed, AllSet, Working, Listing
<1>19. ASSUME NEW a \in Account, ChooseAccount(a) PROVE (ShownIsListed /\ AllSet)'
    BY <1>19
       DEF ChooseAccount, CloseHistoryDB, Click, SetInv, Typed, ShownIsListed, AllSet, Working, Listing
<1>20. ASSUME NEW a \in Account \cup {None}, LoadWallet(a) PROVE (ShownIsListed /\ AllSet)'
    BY <1>20
       DEF LoadWallet, CloseHistoryDB, Click, SetInv, Typed, ShownIsListed, AllSet, Working, Listing
<1>21. CASE CloseWallet
    BY <1>21 DEF CloseWallet, Click, SetInv, Typed, ShownIsListed, AllSet, Working, Listing
<1>22. CASE UNCHANGED histVars
    BY <1>22 DEF histVars, SetInv, Typed, ShownIsListed, AllSet, Working, Listing
<1> QED BY <1>1, <1>2, <1>3, <1>4, <1>5, <1>6, <1>7, <1>8, <1>9, <1>10, <1>11,
           <1>12, <1>13, <1>14, <1>15, <1>16, <1>17, <1>18, <1>19, <1>20, <1>21, <1>22
        DEF HistNext

\* The first start: empty databases, nothing open.
LEMMA HistStart == HistInit => Typed /\ Quiet /\ AllOwn /\ ShownIsListed /\ AllSet
<1> SUFFICES ASSUME HistInit PROVE Typed /\ Quiet /\ AllOwn /\ ShownIsListed /\ AllSet
    OBVIOUS
<1>1. Typed
    <2>1. emitted \in Seq(Lists) /\ currentAccountHistory \in Lists
        BY ListsOf DEF HistInit
    <2>2. /\ lister \in [Lister -> [pc : Pcs, got : SUBSET Entry]]
          /\ \A l \in Lister : lister[l].got = {}
        BY DEF HistInit, IdleLister, Pcs
    <2>3. /\ gui \in [type : Guis, acct : Account \cup {None}, entry : Entry \cup {None}]
          /\ gui.type = "idle"
        BY DEF HistInit, IdleGui, Guis
    <2> QED BY <2>1, <2>2, <2>3 DEF HistInit, Typed
<1>2. Quiet
    BY DEF HistInit, Quiet, IdleGui
<1>3. AllOwn /\ AllSet
    BY ListsOf DEF HistInit, AllOwn, AllSet, IdleGui, IdleLister, Listing
<1>4. ShownIsListed
    BY ListsOf DEF HistInit, ShownIsListed, Listing
<1> QED BY <1>1, <1>2, <1>3, <1>4

\* saveTxToHistory, updateTxStatus and chooseSelectedAccount: an entry lies in the
\* database of its sender, for any number of accounts, transactions and list tasks, as
\* long as the account is only changed while no task sends or lists.
THEOREM EntriesStayHome == HistSpec => []OwnHistory
<1>1. OwnInv => OwnHistory
    BY DEF OwnInv, AllOwn, Own, OwnHistory
<1> QED BY <1>1, HistStart, OwnStep, PTL DEF HistSpec, OwnInv

\* updateTxStatus: it never files an entry without contents if it is only asked for
\* while the list on the screen is the one in memory.
THEOREM NothingUnset == HistSpec => []NoUnsetEntry
<1>1. SetInv => NoUnsetEntry
    BY DEF SetInv, AllSet, NoUnsetEntry
<1> QED BY <1>1, HistStart, SetStep, PTL DEF HistSpec, SetInv
-----------------------------------------------------------------------------
\* What is left of the theorems: what the user erased, what each list on its way to the
\* screen holds, one entry per transaction, and the bounds.

Done(t) == sending[t] = None /\ chain[t] # "new"

\* Where the hash of a transaction occurs.
Recorded(t) ==
    \/ \E a \in Account : \E e \in disk[a] : e.hash = t
    \/ \E p \in erased : p[2] = t
    \/ \E e \in Listing : e.hash = t
    \/ \E l \in Lister : \E e \in lister[l].got : e.hash = t
    \/ gui.type = "update" /\ gui.entry.hash = t

\* A transaction is recorded only after the network has answered.
Answered == \A t \in Tx : Recorded(t) => Done(t)

Starting == \E l \in Lister : lister[l].pc = "start"
Kept(e) == <<historyDB, e.hash>> \notin erased

\* Nothing erased is on disk, in a list that is not about to be reloaded or in the hands
\* of updateTxStatus.
KeepsErased ==
    /\ erased \subseteq Account \X (Tx \cup {None})
    /\ ~raced /\ ~doubled =>
          /\ \A a \in Account : \A e \in disk[a] : <<a, e.hash>> \notin erased
          /\ screen = "history" /\ ~Starting =>
                /\ \A e \in Listing : Kept(e)
                /\ \A l \in Lister : \A e \in lister[l].got : Kept(e)
          /\ gui.type = "update" => Kept(gui.entry) /\ \A l \in Lister : lister[l].pc = "idle"

\* One list task at work, on a list it has cleared.
Alone ==
    ~doubled =>
       /\ \A k, l \in Lister : {lister[k].pc, lister[l].pc} \subseteq {"push", "emit"} => k = l
       /\ (\E l \in Lister : lister[l].pc = "push") => currentAccountHistory = EmptyBag

\* What was stored when the database was last read is in exactly one place on the way to
\* the screen: with the task that read it, in the list, in the last signal or on screen.
Stored == {e \in disk[historyDB] : e.hash \notin unlisted}
OnItsWay ==
    screen = "history" /\ historyDB # None /\ ~Starting /\ ~doubled =>
       IF \E l \in Lister : lister[l].pc = "push"
       THEN \A l \in Lister : lister[l].pc = "push" => lister[l].got = Stored
       ELSE IF \E l \in Lister : lister[l].pc = "emit" THEN currentAccountHistory = SetToBag(Stored)
       ELSE IF emitted # <<>> THEN emitted[Len(emitted)] = SetToBag(Stored)
       ELSE shown = SetToBag(Stored)

FiledInv == SetInv /\ Answered /\ KeepsErased
PipeInv == Typed /\ Answered /\ Alone /\ OnItsWay

\* Steps that leave the databases, the lists and what updateTxStatus holds alone.
Aside ==
    /\ UNCHANGED <<disk, historyDB, lister, emitted, gui, marks>>
    /\ \/ currentAccountHistory' = currentAccountHistory
       \/ currentAccountHistory' = EmptyBag /\ screen' # "history"
    /\ screen' = "history" => screen = "history" /\ shown' = shown
    /\ \A t \in Tx : Done(t) => Done(t)'

LEMMA Asides ==
    ASSUME Typed, [HistNext]_histVars
    PROVE  \/ Aside \/ HistoryLoaded \/ UpdateThrows \/ LoadHistoryDB
           \/ \E l \in Lister : \/ ListRead(l) \/ ListPush(l) \/ ListEmit(l)
                                \/ OpenHistory(l) \/ UpdateEnd(l) \/ EraseAll(l)
           \/ \E e \in Entry : UpdateBegin(e)
           \/ \E t \in Tx : SendEnd(t)
           \/ \E a \in Account \cup {None} : \E type \in {"choose", "load"} : CloseHistoryDB(type, a)
<1> USE DEF Aside, Done, tasks, screens
<1>1. CASE LeaveHistory
    BY <1>1 DEF LeaveHistory
<1>2. CASE TxConfirmed \/ CloseProgress
    BY <1>2 DEF TxConfirmed, CloseProgress
<1>3. ASSUME NEW t \in Tx, Send(t) PROVE Aside
    BY <1>3 DEF Send, Typed
<1>4. ASSUME NEW t \in Tx, Broadcast(t) \/ Mine(t) PROVE Aside
    <2>1. \A u \in Tx : chain[u] # "new" => chain'[u] # "new"
        BY <1>4 DEF Broadcast, Mine, Typed
    <2> QED BY <1>4, <2>1 DEF Broadcast, Mine
<1>5. ASSUME NEW t \in Tx, SendFails(t) PROVE Aside
    BY <1>5 DEF SendFails, Typed
<1>6. CASE UNCHANGED histVars
    BY <1>6 DEF histVars
<1>7. CASE CloseWallet
    BY <1>7 DEF CloseWallet
<1> QED BY <1>1, <1>2, <1>3, <1>4, <1>5, <1>6, <1>7 DEF HistNext, ChooseAccount, LoadWallet

LEMMA AnsweredStep == Typed /\ Answered /\ [HistNext]_histVars => Answered'
<1> SUFFICES ASSUME Typed, Answered, [HistNext]_histVars PROVE Answered'
    OBVIOUS
<1> USE HistoryAssumption, ListsOf DEF Answered, Recorded, Listing, screens, marks
<1>0. Stop => Answered'
    <2> SUFFICES ASSUME Stop PROVE Answered'
        OBVIOUS
    <2>1. \A t \in Tx : Recorded(t)' => Recorded(t)
        BY DEF Stop, IdleGui, IdleLister
    <2>2. \A t \in Tx : Done(t) => Done(t)'
        BY DEF Stop, Done
    <2> QED BY <2>1, <2>2
<1>1. CASE Aside
    BY <1>1 DEF Aside
<1>2. CASE HistoryLoaded
    BY <1>2 DEF HistoryLoaded, Done
<1>3. CASE UpdateThrows
    BY <1>0, <1>3 DEF UpdateThrows
<1>4. CASE LoadHistoryDB
    BY <1>4 DEF LoadHistoryDB, Done, tasks, IdleGui
<1>5. ASSUME NEW l \in Lister, ListRead(l) PROVE Answered'
    <2>1. CASE ~Stop
        <3>1. /\ historyDB \in Account /\ currentAccountHistory' = EmptyBag
              /\ lister' = [lister EXCEPT ![l] = [pc |-> "push", got |-> disk[historyDB]]]
              /\ UNCHANGED <<disk, chain, sending, gui, erased>>
            BY <1>5, <2>1 DEF ListRead, Typed
        <3>2. \A k \in Lister : lister'[k].got \in {lister[k].got, disk[historyDB]}
            BY <3>1 DEF Typed
        <3>3. \A t \in Tx : Recorded(t)' => Recorded(t)
            BY <3>1, <3>2
        <3> QED BY <3>1, <3>3 DEF Done
    <2> QED BY <1>0, <2>1
<1>6. ASSUME NEW l \in Lister, ListPush(l) PROVE Answered'
    <2>1. Listing' = Listing \cup lister[l].got
        BY <1>6 DEF ListPush, Typed
    <2>2. \A k \in Lister : lister'[k].got \subseteq lister[k].got
        BY <1>6 DEF ListPush, Typed
    <2>3. \A t \in Tx : Recorded(t)' => Recorded(t)
        BY <1>6, <2>1, <2>2 DEF ListPush
    <2> QED BY <1>6, <2>3 DEF ListPush, Done
<1>7. ASSUME NEW l \in Lister, ListEmit(l) PROVE Answered'
    <2>1. \A k \in Lister : lister'[k].got \subseteq lister[k].got
        BY <1>7 DEF ListEmit, Typed, IdleLister
    <2> QED BY <1>7, <2>1 DEF ListEmit, Done
<1>8. ASSUME NEW l \in Lister, OpenHistory(l) PROVE Answered'
    BY <1>8, ListTasks DEF OpenHistory, Done
<1>9. ASSUME NEW l \in Lister, UpdateEnd(l) PROVE Answered'
    <2>1. /\ historyDB \in Account /\ gui.entry \in Entry /\ disk[historyDB] \in SUBSET Entry
          /\ disk' = [disk EXCEPT ![historyDB] = Put(disk[historyDB], Refreshed(gui.entry))]
          /\ gui.type = "update" /\ gui'.type = "idle"
        BY <1>9 DEF UpdateEnd, Typed, IdleGui
    <2>2. \A a \in Account : \A e \in disk'[a] : e \in disk[a] \/ e.hash = gui.entry.hash
        BY <2>1, Filing DEF Typed
    <2>3. \A t \in Tx : Recorded(t)' => Recorded(t)
        BY <1>9, <2>1, <2>2, ListTasks DEF UpdateEnd
    <2> QED BY <1>9, <2>3 DEF UpdateEnd, Done
<1>10. ASSUME NEW l \in Lister, EraseAll(l) PROVE Answered'
    <2>1. \A a \in Account : disk'[a] \subseteq disk[a]
        BY <1>10 DEF EraseAll, Typed
    <2>2. historyDB \in Account
        BY <1>10 DEF EraseAll, Click, Free, Typed
    <2>3. \A p \in erased' : p \in erased \/ \E e \in disk[historyDB] : p[2] = e.hash
        BY <1>10 DEF EraseAll
    <2>4. \A t \in Tx : Recorded(t)' => Recorded(t)
        BY <1>10, <2>1, <2>2, <2>3, ListTasks DEF EraseAll
    <2> QED BY <1>10, <2>4 DEF EraseAll, Done
<1>11. ASSUME NEW e \in Entry, UpdateBegin(e) PROVE Answered'
    <2>1. gui'.entry \in Listing \/ gui'.entry.hash = None
        BY <1>11, Filing DEF UpdateBegin
    <2>2. \A t \in Tx : Recorded(t)' => Recorded(t)
        BY <1>11, <2>1 DEF UpdateBegin, tasks
    <2> QED BY <1>11, <2>2 DEF UpdateBegin, Done, tasks
<1>12. ASSUME NEW t \in Tx, SendEnd(t) PROVE Answered'
    <2>1. CASE ~Stop
        <3>1. historyDB \in Account /\ sending[t] \in Account /\ disk[historyDB] \in SUBSET Entry
            BY <1>12, <2>1 DEF SendEnd, Typed
        <3>2. \A a \in Account : \A e \in disk'[a] : e \in disk[a] \/ e.hash = t
            BY <1>12, <2>1, <3>1, Filing DEF SendEnd, Typed
        <3>3. \A u \in Tx : Recorded(u)' => Recorded(u) \/ u = t
            BY <1>12, <2>1, <3>2 DEF SendEnd
        <3>4. \A u \in Tx : Done(u) \/ u = t => Done(u)'
            BY <1>12, <2>1 DEF SendEnd, Done, Typed
        <3> QED BY <3>3, <3>4
    <2> QED BY <1>0, <2>1
<1>13. ASSUME NEW a \in Account \cup {None}, NEW type \in {"choose", "load"}, CloseHistoryDB(type, a)
       PROVE  Answered'
    BY <1>13 DEF CloseHistoryDB, Done, tasks
<1> QED BY <1>1, <1>2, <1>3, <1>4, <1>5, <1>6, <1>7, <1>8, <1>9, <1>10, <1>11, <1>12,
           <1>13, Asides

LEMMA KeptStep == FiledInv /\ [HistNext]_histVars => KeepsErased'
<1> SUFFICES ASSUME FiledInv, [HistNext]_histVars PROVE KeepsErased'
    OBVIOUS
<1>0. Typed /\ ShownIsListed /\ AllSet /\ Answered /\ KeepsErased
    BY DEF FiledInv, SetInv
<1> USE HistoryAssumption, ListsOf, <1>0 DEF KeepsErased, Kept, screens, marks
<1>1. Stop => KeepsErased'
    BY DEF Stop, IdleGui
<1>2. CASE Aside
    BY <1>2 DEF Aside, Starting, Listing
<1>3. CASE HistoryLoaded
    BY <1>3 DEF HistoryLoaded, Starting, Listing
<1>4. CASE UpdateThrows
    BY <1>1, <1>4 DEF UpdateThrows
<1>5. CASE LoadHistoryDB
    BY <1>5 DEF LoadHistoryDB, tasks, IdleGui
<1>6. ASSUME NEW l \in Lister, ListRead(l) PROVE KeepsErased'
    <2>1. CASE ~Stop
        <3>1. /\ historyDB \in Account /\ currentAccountHistory' = EmptyBag
              /\ lister' = [lister EXCEPT ![l] = [pc |-> "push", got |-> disk[historyDB]]]
              /\ doubled' = (doubled \/ \E k \in Lister : lister[k].pc \in {"push", "emit"})
              /\ UNCHANGED <<disk, historyDB, gui, erased, raced>>
              /\ lister[l].pc = "start"
            BY <1>6, <2>1 DEF ListRead, Typed
        <3>2. ~doubled' => \A k \in Lister : lister'[k].got \subseteq disk[historyDB]
            BY <3>1 DEF Typed
        <3>3. Listing' = {}
            BY <3>1 DEF Listing
        <3> QED BY <3>1, <3>2, <3>3
    <2> QED BY <1>1, <2>1
<1>7. ASSUME NEW l \in Lister, ListPush(l) PROVE KeepsErased'
    <2>1. Listing' = Listing \cup lister[l].got
        BY <1>7 DEF ListPush, Listing, Typed
    <2>2. \A k \in Lister : /\ lister'[k].got \subseteq lister[k].got
                            /\ lister[k].pc = "start" => lister'[k].pc = "start"
        BY <1>7 DEF ListPush, Typed
    <2>3. Starting' = Starting
        BY <1>7 DEF ListPush, Typed, Starting
    <2> QED BY <1>7, <2>1, <2>2, <2>3 DEF ListPush
<1>8. ASSUME NEW l \in Lister, ListEmit(l) PROVE KeepsErased'
    <2>1. \A k \in Lister : lister'[k].got \subseteq lister[k].got
        BY <1>8 DEF ListEmit, Typed, IdleLister
    <2>2. Starting' = Starting
        BY <1>8 DEF ListEmit, Typed, Starting, IdleLister
    <2> QED BY <1>8, <2>1, <2>2 DEF ListEmit, Listing
<1>9. ASSUME NEW l \in Lister, OpenHistory(l) PROVE KeepsErased'
    BY <1>9, ListTasks DEF OpenHistory, Starting, Click, Free
<1>10. ASSUME NEW l \in Lister, UpdateEnd(l) PROVE KeepsErased'
    <2>1. /\ historyDB \in Account /\ gui.entry \in Entry /\ disk[historyDB] \in SUBSET Entry
          /\ disk' = [disk EXCEPT ![historyDB] = Put(disk[historyDB], Refreshed(gui.entry))]
          /\ gui.type = "update" /\ gui'.type = "idle"
        BY <1>10 DEF UpdateEnd, Typed, IdleGui
    <2>2. \A a \in Account : \A e \in disk'[a] :
             e \in disk[a] \/ (a = historyDB /\ e.hash = gui.entry.hash)
        BY <2>1, Filing DEF Typed
    <2>3. Starting'
        BY <1>10, ListTasks DEF UpdateEnd, Starting
    <2> QED BY <1>10, <2>1, <2>2, <2>3 DEF UpdateEnd
<1>11. ASSUME NEW l \in Lister, EraseAll(l) PROVE KeepsErased'
    <2>1. historyDB \in Account /\ gui.type = "idle" /\ gui' = gui
        BY <1>11 DEF EraseAll, Click, Free, Typed
    <2>2. /\ disk' = [disk EXCEPT ![historyDB] = {}]
          /\ erased' = erased \cup {<<historyDB, e.hash>> : e \in disk[historyDB]}
        BY <1>11 DEF EraseAll
    <2>3. \A a \in Account : \A e \in disk'[a] : e \in disk[a] /\ a # historyDB
        BY <2>1, <2>2 DEF Typed
    <2>4. erased' \subseteq Account \X (Tx \cup {None})
        BY <2>1, <2>2 DEF Typed, Entry
    <2>5. Starting'
        BY <1>11, ListTasks DEF EraseAll, Starting
    <2> QED BY <1>11, <2>1, <2>2, <2>3, <2>4, <2>5 DEF EraseAll
<1>12. ASSUME NEW e \in Entry, UpdateBegin(e) PROVE KeepsErased'
    <2>1. /\ UNCHANGED <<disk, historyDB, currentAccountHistory, lister, emitted, shown, screen, erased, doubled>>
          /\ raced' = (raced \/ emitted # <<>> \/ \E l \in Lister : lister[l].pc # "idle")
        BY <1>12 DEF UpdateBegin, tasks
    <2>2. ~raced' => ~raced /\ ~Starting /\ emitted = <<>> /\ \A l \in Lister : lister[l].pc = "idle"
        BY <2>1 DEF Typed, Starting
    <2>3. ~raced' => e \in Listing
        <3>1. e \in BagToSet(shown) /\ screen = "history"
            BY <1>12 DEF UpdateBegin, BagIn, Typed
        <3> QED BY <2>2, <3>1 DEF ShownIsListed
    <2>4. ~raced' => gui'.entry \in Listing
        BY <1>12, <2>3 DEF UpdateBegin, Listing
    <2>5. screen = "history"
        BY <1>12 DEF UpdateBegin, BagIn, Typed
    <2> QED BY <2>1, <2>2, <2>4, <2>5 DEF Listing, Starting
<1>13. ASSUME NEW t \in Tx, SendEnd(t) PROVE KeepsErased'
    <2>1. CASE ~Stop
        <3>1. historyDB \in Account /\ sending[t] \in Account /\ disk[historyDB] \in SUBSET Entry
            BY <1>13, <2>1 DEF SendEnd, Typed
        <3>2. \A a \in Account : \A e \in disk'[a] : e \in disk[a] \/ e.hash = t
            BY <1>13, <2>1, <3>1, Filing DEF SendEnd, Typed
        <3>3. \A a \in Account : <<a, t>> \notin erased
            BY <1>13 DEF SendEnd, Answered, Recorded, Done
        <3>4. UNCHANGED <<historyDB, currentAccountHistory, lister, gui, screens, raced, doubled, erased>>
            BY <1>13, <2>1 DEF SendEnd
        <3> QED BY <3>2, <3>3, <3>4 DEF Listing, Starting
    <2> QED BY <1>1, <2>1
<1>14. ASSUME NEW a \in Account \cup {None}, NEW type \in {"choose", "load"}, CloseHistoryDB(type, a)
       PROVE  KeepsErased'
    BY <1>14 DEF CloseHistoryDB, tasks
<1> QED BY <1>2, <1>3, <1>4, <1>5, <1>6, <1>7, <1>8, <1>9, <1>10, <1>11, <1>12, <1>13,
           <1>14, Asides

LEMMA FiledStep == FiledInv /\ [HistNext]_histVars => FiledInv'
BY SetStep, AnsweredStep, KeptStep DEF FiledInv, SetInv

LEMMA FiledStart == HistInit => FiledInv
<1>1. HistInit => Answered
    BY ListsOf DEF HistInit, Answered, Recorded, Listing, IdleGui, IdleLister
<1>2. HistInit => KeepsErased
    BY ListsOf DEF HistInit, KeepsErased, IdleGui
<1> QED BY HistStart, <1>1, <1>2 DEF FiledInv, SetInv

\* A list task that appends to the cleared list leaves what it read, each entry once.
LEMMA OneRead == \A S \in SUBSET Entry : EmptyBag (+) SetToBag(S) = SetToBag(S)
BY DEF EmptyBag, SetToBag, (+)

LEMMA AloneStep == Typed /\ Alone /\ [HistNext]_histVars => Alone'
<1> SUFFICES ASSUME Typed, Alone, [HistNext]_histVars PROVE Alone'
    OBVIOUS
<1> USE DEF Alone, screens, marks
<1>1. Stop => Alone'
    BY DEF Stop, IdleLister
<1>2. CASE Aside
    BY <1>2 DEF Aside
<1>3. CASE HistoryLoaded
    BY <1>3 DEF HistoryLoaded
<1>4. CASE UpdateThrows
    BY <1>1, <1>4 DEF UpdateThrows
<1>5. CASE LoadHistoryDB
    BY <1>5 DEF LoadHistoryDB, tasks
<1>6. ASSUME NEW l \in Lister, ListRead(l) PROVE Alone'
    BY <1>1, <1>6 DEF ListRead, Typed
<1>7. ASSUME NEW l \in Lister, ListPush(l) PROVE Alone'
    BY <1>7 DEF ListPush, Typed
<1>8. ASSUME NEW l \in Lister, ListEmit(l) PROVE Alone'
    BY <1>8 DEF ListEmit, Typed, IdleLister
<1>9. ASSUME NEW l \in Lister, OpenHistory(l) PROVE Alone'
    BY <1>9, ListTasks DEF OpenHistory
<1>10. ASSUME NEW l \in Lister, UpdateEnd(l) PROVE Alone'
    BY <1>10, ListTasks DEF UpdateEnd
<1>11. ASSUME NEW l \in Lister, EraseAll(l) PROVE Alone'
    BY <1>11, ListTasks DEF EraseAll
<1>12. ASSUME NEW e \in Entry, UpdateBegin(e) PROVE Alone'
    BY <1>12 DEF UpdateBegin, tasks
<1>13. ASSUME NEW t \in Tx, SendEnd(t) PROVE Alone'
    BY <1>1, <1>13 DEF SendEnd
<1>14. ASSUME NEW a \in Account \cup {None}, NEW type \in {"choose", "load"}, CloseHistoryDB(type, a)
       PROVE  Alone'
    BY <1>14 DEF CloseHistoryDB, tasks
<1> QED BY <1>2, <1>3, <1>4, <1>5, <1>6, <1>7, <1>8, <1>9, <1>10, <1>11, <1>12, <1>13,
           <1>14, Asides

LEMMA WayStep == PipeInv /\ [HistNext]_histVars => OnItsWay'
<1> SUFFICES ASSUME PipeInv, [HistNext]_histVars PROVE OnItsWay'
    OBVIOUS
<1>0. Typed /\ Answered /\ Alone /\ OnItsWay
    BY DEF PipeInv
<1> USE <1>0 DEF OnItsWay, screens, marks
<1>1. Stop => OnItsWay'
    BY DEF Stop
<1>2. CASE Aside
    BY <1>2 DEF Aside, Starting, Stored
<1>3. CASE HistoryLoaded
    <2>1. emitted \in Seq(Lists) /\ emitted # <<>> /\ emitted' = Tail(emitted)
        BY <1>3 DEF HistoryLoaded, Typed
    <2>2. CASE emitted' = <<>>
        <3>1. /\ Len(Tail(emitted)) = Len(emitted) - 1 /\ Len(emitted) \in Nat
              /\ Head(emitted) = emitted[1] /\ Len(<<>>) = 0
            BY <2>1
        <3>2. Len(Tail(emitted)) = Len(<<>>)
            BY <2>1, <2>2
        <3>3. Len(emitted) = 1
            BY <3>1, <3>2
        <3>4. Head(emitted) = emitted[Len(emitted)]
            BY <3>1, <3>3
        <3> QED BY <1>3, <2>1, <2>2, <3>4 DEF HistoryLoaded, Starting, Stored
    <2>3. CASE emitted' # <<>>
        <3>1. emitted'[Len(emitted')] = emitted[Len(emitted)]
            BY <2>1, <2>3
        <3> QED BY <1>3, <2>1, <2>3, <3>1 DEF HistoryLoaded, Starting, Stored
    <2> QED BY <2>2, <2>3
<1>4. CASE UpdateThrows
    BY <1>1, <1>4 DEF UpdateThrows
<1>5. CASE LoadHistoryDB
    BY <1>5 DEF LoadHistoryDB
<1>6. ASSUME NEW l \in Lister, ListRead(l) PROVE OnItsWay'
    <2>1. CASE ~Stop
        <3>1. /\ historyDB \in Account
              /\ lister' = [lister EXCEPT ![l] = [pc |-> "push", got |-> disk[historyDB]]]
              /\ doubled' = (doubled \/ \E k \in Lister : lister[k].pc \in {"push", "emit"})
              /\ unlisted' = {}
              /\ UNCHANGED <<disk, historyDB>>
            BY <1>6, <2>1 DEF ListRead, Typed
        <3>2. Stored' = disk[historyDB]
            BY <3>1 DEF Stored
        <3>3. ~doubled' => \A k \in Lister : lister'[k].pc = "push" => lister'[k].got = disk[historyDB]
            BY <3>1 DEF Typed
        <3>4. lister'[l].pc = "push"
            BY <3>1 DEF Typed
        <3> QED BY <3>2, <3>3, <3>4
    <2> QED BY <1>1, <2>1
<1>7. ASSUME NEW l \in Lister, ListPush(l) PROVE OnItsWay'
    <2>1. /\ lister[l].pc = "push" /\ lister[l].got \in SUBSET Entry
          /\ lister' = [lister EXCEPT ![l] = [pc |-> "emit", got |-> {}]]
          /\ currentAccountHistory' = currentAccountHistory (+) SetToBag(lister[l].got)
          /\ Stored' = Stored /\ Starting' = Starting
          /\ UNCHANGED <<screen, historyDB, doubled>>
        BY <1>7 DEF ListPush, Stored, Starting, Typed
    <2> SUFFICES ASSUME screen = "history", historyDB # None, ~Starting, ~doubled
                 PROVE  /\ \A k \in Lister : lister'[k].pc # "push"
                        /\ lister'[l].pc = "emit"
                        /\ currentAccountHistory' = SetToBag(Stored)
        BY <2>1
    <2>2. \A k \in Lister : lister[k].pc = "push" => k = l
        BY <2>1 DEF Alone
    <2>3. lister[l].got = Stored /\ currentAccountHistory = EmptyBag
        BY <2>1 DEF Alone
    <2> QED BY <2>1, <2>2, <2>3, OneRead DEF Typed
<1>8. ASSUME NEW l \in Lister, ListEmit(l) PROVE OnItsWay'
    <2>1. /\ lister[l].pc = "emit" /\ emitted' = Append(emitted, currentAccountHistory)
          /\ lister' = [lister EXCEPT ![l] = [pc |-> "idle", got |-> {}]]
          /\ Stored' = Stored /\ Starting' = Starting
          /\ UNCHANGED <<screen, historyDB, doubled>>
        BY <1>8 DEF ListEmit, Stored, Starting, Typed, IdleLister
    <2>2. emitted' # <<>> /\ emitted'[Len(emitted')] = currentAccountHistory
        <3>1. emitted \in Seq(Lists) /\ Len(emitted) \in Nat
            BY DEF Typed
        <3>2. Len(emitted') = Len(emitted) + 1 /\ emitted'[Len(emitted) + 1] = currentAccountHistory
            BY <2>1, <3>1
        <3>3. Len(<<>>) = 0
            OBVIOUS
        <3> QED BY <3>1, <3>2, <3>3
    <2> SUFFICES ASSUME screen = "history", historyDB # None, ~Starting, ~doubled
                 PROVE  /\ \A k \in Lister : lister'[k].pc \notin {"push", "emit"}
                        /\ currentAccountHistory = SetToBag(Stored)
        BY <2>1, <2>2
    <2>3. \A k \in Lister : lister[k].pc \in {"push", "emit"} => k = l
        BY <2>1 DEF Alone
    <2> QED BY <2>1, <2>3 DEF Typed
<1>9. ASSUME NEW l \in Lister, OpenHistory(l) PROVE OnItsWay'
    BY <1>9, ListTasks DEF OpenHistory, Starting
<1>10. ASSUME NEW l \in Lister, UpdateEnd(l) PROVE OnItsWay'
    BY <1>10, ListTasks DEF UpdateEnd, Starting
<1>11. ASSUME NEW l \in Lister, EraseAll(l) PROVE OnItsWay'
    BY <1>11, ListTasks DEF EraseAll, Starting
<1>12. ASSUME NEW e \in Entry, UpdateBegin(e) PROVE OnItsWay'
    BY <1>12 DEF UpdateBegin, tasks, Starting, Stored
<1>13. ASSUME NEW t \in Tx, SendEnd(t) PROVE OnItsWay'
    <2>1. CASE ~Stop
        <3> DEFINE filed == [hash |-> t, from |-> sending[t], confirmed |-> FALSE, invalid |-> FALSE]
        <3>1. historyDB \in Account /\ filed.hash = t
            BY <1>13, <2>1 DEF SendEnd, Typed
        <3>2. /\ disk' = [disk EXCEPT ![historyDB] = Put(disk[historyDB], filed)]
              /\ unlisted' = unlisted \cup {t}
              /\ UNCHANGED <<historyDB, currentAccountHistory, lister, emitted, screen, shown, doubled>>
            BY <1>13, <2>1 DEF SendEnd
        <3>3. \A e \in disk[historyDB] : e.hash # t
            BY <1>13, <3>1 DEF SendEnd, Answered, Recorded, Done
        <3> HIDE DEF filed
        <3>4. Stored' = Stored
            <4>1. disk'[historyDB'] = {x \in disk[historyDB] : x.hash # t} \cup {filed}
                BY <3>1, <3>2 DEF Put, Typed
            <4> QED BY <3>1, <3>2, <3>3, <4>1 DEF Stored
        <3> QED BY <3>2, <3>4 DEF Starting
    <2> QED BY <1>1, <2>1
<1>14. ASSUME NEW a \in Account \cup {None}, NEW type \in {"choose", "load"}, CloseHistoryDB(type, a)
       PROVE  OnItsWay'
    BY <1>14 DEF CloseHistoryDB
<1> QED BY <1>2, <1>3, <1>4, <1>5, <1>6, <1>7, <1>8, <1>9, <1>10, <1>11, <1>12, <1>13,
           <1>14, Asides

LEMMA PipeStep == PipeInv /\ [HistNext]_histVars => PipeInv'
BY TypedStep, AnsweredStep, AloneStep, WayStep DEF PipeInv

LEMMA PipeStart == HistInit => PipeInv
<1>1. HistInit => Alone /\ OnItsWay
    BY DEF HistInit, Alone, OnItsWay, IdleLister
<1> QED BY HistStart, FiledStart, <1>1 DEF FiledInv, PipeInv

-----------------------------------------------------------------------------
\* Bounds: list tasks and signals under way, clicks; one entry per transaction.
AtWork == {l \in Lister : lister[l].pc # "idle"}
OneEach == \A a \in Account : \A x, y \in disk[a] : x.hash = y.hash => x = y
Bounded ==
    /\ Len(emitted) + Cardinality(AtWork) <= MaxLists
    /\ clicks \in Nat /\ clicks <= MaxClicks
    /\ shown \in Lists

CountInv == Typed /\ OneEach /\ Bounded

\* Filing an entry replaces the one of the same transaction.
LEMMA PutOnce ==
    ASSUME NEW s, NEW e, \A x, y \in s : x.hash = y.hash => x = y
    PROVE  \A x, y \in Put(s, e) : x.hash = y.hash => x = y
BY DEF Put

LEMMA OneEachStep == Typed /\ OneEach /\ [HistNext]_histVars => OneEach'
<1> SUFFICES ASSUME Typed, OneEach, [HistNext]_histVars PROVE OneEach'
    OBVIOUS
<1> USE DEF OneEach, marks
<1>1. Stop => OneEach'
    BY DEF Stop
<1>2. ASSUME NEW l \in Lister, ListRead(l) PROVE OneEach'
    BY <1>1, <1>2 DEF ListRead
<1>3. ASSUME NEW l \in Lister, UpdateEnd(l) PROVE OneEach'
    <2>1. /\ historyDB \in Account
          /\ disk' = [disk EXCEPT ![historyDB] = Put(disk[historyDB], Refreshed(gui.entry))]
        BY <1>3 DEF UpdateEnd, Typed
    <2>2. \A a \in Account : disk'[a] = disk[a] \/ disk'[a] = Put(disk[a], Refreshed(gui.entry))
        BY <2>1 DEF Typed
    <2> QED BY <2>2, PutOnce
<1>4. ASSUME NEW l \in Lister, EraseAll(l) PROVE OneEach'
    BY <1>4 DEF EraseAll, Typed
<1>5. ASSUME NEW t \in Tx, SendEnd(t) PROVE OneEach'
    <2>1. CASE ~Stop
        <3> DEFINE filed == [hash |-> t, from |-> sending[t], confirmed |-> FALSE, invalid |-> FALSE]
        <3>1. historyDB \in Account /\ disk' = [disk EXCEPT ![historyDB] = Put(disk[historyDB], filed)]
            BY <1>5, <2>1 DEF SendEnd, Typed
        <3>2. \A a \in Account : disk'[a] = disk[a] \/ disk'[a] = Put(disk[a], filed)
            BY <3>1 DEF Typed
        <3> HIDE DEF filed
        <3> QED BY <3>2, PutOnce
    <2> QED BY <1>1, <2>1
<1>6. CASE UNCHANGED disk
    BY <1>6
<1>7. \/ UNCHANGED disk \/ Stop
      \/ \E l \in Lister : ListRead(l) \/ UpdateEnd(l) \/ EraseAll(l)
      \/ \E t \in Tx : SendEnd(t)
    BY Asides DEF Aside, HistoryLoaded, UpdateThrows, LoadHistoryDB, ListPush, ListEmit, OpenHistory,
                  UpdateBegin, CloseHistoryDB
<1> QED BY <1>1, <1>2, <1>3, <1>4, <1>5, <1>6, <1>7

\* The number of list tasks at work when one starts, stops or is lost.
LEMMA WorkCounts ==
    /\ IsFiniteSet(AtWork) /\ Cardinality(AtWork) \in Nat
    /\ \A W : W = AtWork => Cardinality(W) = Cardinality(AtWork)
    /\ \A W : \A l \in Lister \ AtWork :
          W = AtWork \cup {l} => Cardinality(W) = Cardinality(AtWork) + 1
    /\ \A W : \A l \in AtWork : W = AtWork \ {l} => Cardinality(W) = Cardinality(AtWork) - 1
    /\ \A W : W = {} => Cardinality(W) = 0
<1>1. IsFiniteSet(AtWork)
    BY HistoryAssumption, FS_Subset DEF AtWork
<1>2. Cardinality(AtWork) \in Nat
    BY <1>1, FS_CardinalityType
<1>3. ASSUME NEW l \in Lister \ AtWork PROVE Cardinality(AtWork \cup {l}) = Cardinality(AtWork) + 1
    <2>1. l \notin AtWork
        OBVIOUS
    <2> QED BY <1>1, <2>1, FS_AddElement
<1>4. ASSUME NEW l \in AtWork PROVE Cardinality(AtWork \ {l}) = Cardinality(AtWork) - 1
    BY <1>1, FS_RemoveElement
<1>5. Cardinality({}) = 0
    BY FS_EmptySet
<1> QED BY <1>1, <1>2, <1>3, <1>4, <1>5

\* reloadTransactions fits within the bound.
LEMMA ListRoom ==
    ASSUME Typed, Typed', Bounded, NEW l \in Lister, StartList(l), emitted' = emitted
    PROVE  Len(emitted') + Cardinality(AtWork') <= MaxLists
<1>1. l \in Lister \ AtWork /\ AtWork' = AtWork \cup {l}
    BY DEF StartList, AtWork, Typed
<1>2. Cardinality(AtWork') = Cardinality(AtWork) + 1 /\ Cardinality(AtWork) \in Nat
    BY <1>1, WorkCounts
<1>3. Len(emitted) \in Nat
    BY DEF Typed
<1>4. Len(emitted) + Cardinality(AtWork) < MaxLists
    BY DEF StartList, Room, AtWork
<1> QED BY <1>2, <1>3, <1>4, HistoryAssumption

LEMMA BoundedStep == Typed /\ Bounded /\ [HistNext]_histVars => Bounded'
<1> SUFFICES ASSUME Typed, Bounded, [HistNext]_histVars PROVE Bounded'
    OBVIOUS
<1>0. /\ Typed' /\ Len(emitted) \in Nat /\ emitted \in Seq(Lists) /\ MaxLists \in Nat
      /\ MaxClicks \in Nat /\ Len(emitted) + Cardinality(AtWork) <= MaxLists
      /\ clicks \in Nat /\ clicks <= MaxClicks /\ shown \in Lists /\ EmptyBag \in Lists
      /\ Cardinality(AtWork) \in Nat
    BY TypedStep, HistoryAssumption, ListsOf, WorkCounts DEF Typed, Bounded
<1>1. Stop => Bounded'
    <2> SUFFICES ASSUME Stop PROVE Bounded'
        OBVIOUS
    <2>1. AtWork' = {} /\ emitted' = <<>> /\ clicks' = clicks /\ shown' = EmptyBag
        BY DEF Stop, AtWork, IdleLister
    <2>2. Cardinality(AtWork') = 0 /\ Len(emitted') = 0
        BY <1>0, <2>1, WorkCounts
    <2> QED BY <1>0, <2>1, <2>2 DEF Bounded
<1>2. ASSUME UNCHANGED <<emitted, lister, shown>> \/ (UNCHANGED <<emitted, lister>> /\ shown' = EmptyBag),
             clicks' = clicks \/ Click
      PROVE  Bounded'
    <2>1. AtWork' = AtWork
        BY <1>2 DEF AtWork
    <2>2. Cardinality(AtWork') = Cardinality(AtWork)
        BY <1>0, <2>1, WorkCounts
    <2>3. clicks' \in Nat /\ clicks' <= MaxClicks
        BY <1>0, <1>2 DEF Click
    <2> QED BY <1>0, <1>2, <2>2, <2>3 DEF Bounded
<1>3. CASE HistoryLoaded
    <2>1. AtWork' = AtWork /\ emitted' = Tail(emitted) /\ emitted # <<>> /\ clicks' = clicks
        BY <1>3 DEF HistoryLoaded, AtWork
    <2>2. Cardinality(AtWork') = Cardinality(AtWork)
        BY <1>0, <2>1, WorkCounts
    <2>4. Len(emitted') = Len(emitted) - 1
        BY <1>0, <2>1
    <2>3. Head(emitted) \in Lists
        BY <1>0, <2>1
    <2>5. shown' \in Lists
        BY <1>0, <1>3, <2>3 DEF HistoryLoaded
    <2> QED BY <1>0, <2>1, <2>2, <2>4, <2>5 DEF Bounded
<1>4. ASSUME NEW l \in Lister, ListRead(l) PROVE Bounded'
    <2>1. CASE ~Stop
        <3>1. AtWork' = AtWork /\ UNCHANGED <<emitted, clicks, shown>>
            BY <1>4, <2>1 DEF ListRead, AtWork, Typed, screens
        <3>2. Cardinality(AtWork') = Cardinality(AtWork)
            BY <1>0, <3>1, WorkCounts
        <3> QED BY <1>0, <3>1, <3>2 DEF Bounded
    <2> QED BY <1>1, <2>1
<1>5. ASSUME NEW l \in Lister, ListPush(l) PROVE Bounded'
    <2>1. AtWork' = AtWork /\ UNCHANGED <<emitted, clicks, shown>>
        BY <1>5 DEF ListPush, AtWork, Typed, screens
    <2>2. Cardinality(AtWork') = Cardinality(AtWork)
        BY <1>0, <2>1, WorkCounts
    <2> QED BY <1>0, <2>1, <2>2 DEF Bounded
<1>6. ASSUME NEW l \in Lister, ListEmit(l) PROVE Bounded'
    <2>1. l \in AtWork /\ AtWork' = AtWork \ {l} /\ UNCHANGED <<clicks, shown>>
        BY <1>6 DEF ListEmit, AtWork, Typed, IdleLister, screens
    <2>2. emitted' = Append(emitted, currentAccountHistory)
        BY <1>6 DEF ListEmit
    <2>3. Cardinality(AtWork') = Cardinality(AtWork) - 1
        BY <1>0, <2>1, WorkCounts
    <2>4. Len(emitted') = Len(emitted) + 1
        BY <1>0, <2>2
    <2> QED BY <1>0, <2>1, <2>3, <2>4 DEF Bounded
<1>7. ASSUME NEW l \in Lister, OpenHistory(l) \/ EraseAll(l) PROVE Bounded'
    <2>1. StartList(l) /\ Click /\ emitted' = emitted /\ shown' \in {shown, EmptyBag}
        BY <1>7 DEF OpenHistory, EraseAll
    <2>2. clicks' \in Nat /\ clicks' <= MaxClicks
        BY <1>0, <2>1 DEF Click
    <2> QED BY <1>0, <2>1, <2>2, ListRoom DEF Bounded
<1>8. ASSUME NEW l \in Lister, UpdateEnd(l) PROVE Bounded'
    <2>1. StartList(l) /\ UNCHANGED <<emitted, clicks, shown>>
        BY <1>8 DEF UpdateEnd, screens
    <2> QED BY <1>0, <2>1, ListRoom DEF Bounded
<1>9. ASSUME NEW e \in Entry, UpdateBegin(e) PROVE Bounded'
    BY <1>2, <1>9 DEF UpdateBegin, tasks
<1>10. ASSUME NEW t \in Tx, SendEnd(t) PROVE Bounded'
    BY <1>1, <1>2, <1>10 DEF SendEnd, screens
<1>11. ASSUME NEW a \in Account \cup {None}, ChooseAccount(a) \/ LoadWallet(a)
       PROVE  Bounded'
    BY <1>2, <1>11 DEF ChooseAccount, LoadWallet, CloseHistoryDB, tasks
<1>12. LoadHistoryDB \/ LeaveHistory \/ CloseWallet => Bounded'
    BY <1>2 DEF LoadHistoryDB, LeaveHistory, CloseWallet, tasks
<1>13. TxConfirmed \/ CloseProgress \/ UNCHANGED histVars => Bounded'
    BY <1>2 DEF TxConfirmed, CloseProgress, tasks, screens, histVars
<1>14. ASSUME NEW t \in Tx, Send(t) \/ Broadcast(t) \/ Mine(t) \/ SendFails(t) PROVE Bounded'
    BY <1>2, <1>14 DEF Send, Broadcast, Mine, SendFails, tasks, screens
<1>15. UpdateThrows => Bounded'
    BY <1>1 DEF UpdateThrows
<1> QED BY <1>3, <1>4, <1>5, <1>6, <1>7, <1>8, <1>9, <1>10, <1>11, <1>12, <1>13, <1>14, <1>15
        DEF HistNext

LEMMA CountStep == CountInv /\ [HistNext]_histVars => CountInv'
BY TypedStep, OneEachStep, BoundedStep DEF CountInv

LEMMA CountStart == HistInit => CountInv
<1> SUFFICES ASSUME HistInit PROVE CountInv
    OBVIOUS
<1>1. AtWork = {} /\ emitted = <<>>
    BY DEF HistInit, AtWork, IdleLister
<1>2. Cardinality(AtWork) = 0 /\ Len(emitted) = 0
    BY <1>1, FS_EmptySet
<1> QED BY <1>2, HistStart, HistoryAssumption, ListsOf DEF HistInit, CountInv, OneEach, Bounded
-----------------------------------------------------------------------------
\* eraseHistoryPopup: what the user erased does not come back, for any number of
\* accounts, transactions, list tasks and clicks, unless an entry was refreshed while a
\* list was on its way or two reloads overlapped.
THEOREM ErasedStaysErased == HistSpec => []ErasedForGood
<1>1. FiledInv => ErasedForGood
    BY DEF FiledInv, KeepsErased, ErasedForGood
<1> QED BY <1>1, FiledStart, FiledStep, PTL DEF HistSpec

\* onHistoryLoaded: at rest the History screen shows exactly what the database of the
\* account held when it was last read and still holds, each entry once, whatever was
\* sent, refreshed, erased or changed meanwhile, unless two reloads overlapped.
THEOREM ScreenAgrees == HistSpec => []ShownIsStored
<1>1. PipeInv => ShownIsStored
    <2> SUFFICES ASSUME PipeInv, screen = "history", Free, ~Busy, ~doubled
                 PROVE  shown = SetToBag(Stored)
        BY DEF ShownIsStored, Stored
    <2>1. historyDB # None
        BY DEF PipeInv, Typed, Free
    <2>2. emitted = <<>> /\ \A l \in Lister : lister[l].pc = "idle"
        BY DEF Busy
    <2> QED BY <2>1, <2>2 DEF PipeInv, OnItsWay, Starting
<1> QED BY <1>1, PipeStart, PipeStep, PTL DEF HistSpec

\* Types; a database holds one entry per transaction, whichever tasks file and refresh
\* it, and the bounds of the model hold.
THEOREM HistTypeCorrect == HistSpec => []HistTypeOK
<1>1. CountInv => HistTypeOK
    <2> SUFFICES ASSUME Typed, OneEach, Bounded PROVE HistTypeOK
        BY DEF CountInv
    <2>1. \A l \in Lister : /\ lister[l].pc \in {"idle", "start", "push", "emit"}
                            /\ lister[l].got \subseteq Entry
        BY DEF Typed, Pcs
    <2>2. BagToSet(shown) \cup BagToSet(currentAccountHistory) \subseteq Entry
        BY ListsOf DEF Typed, Bounded
    <2>3. Len(emitted) <= MaxLists
        <3>1. Len(emitted) \in Nat /\ Cardinality(AtWork) \in Nat
            BY HistoryAssumption, FS_Subset, FS_CardinalityType DEF Typed, AtWork
        <3> QED BY <3>1, HistoryAssumption DEF Bounded
    <2> QED BY <2>1, <2>2, <2>3 DEF Typed, OneEach, Bounded, HistTypeOK, Guis
<1> QED BY <1>1, CountStart, CountStep, PTL DEF HistSpec
=============================================================================
