------------------------------- MODULE History -------------------------------
(***************************************************************************)
(* The transaction history: one LevelDB per account on disk, the handle    *)
(* historyDB to the one that is open, the list currentAccountHistory that  *)
(* pool tasks rebuild, and the History screen that shows it.               *)
(*                                                                         *)
(* The GUI thread opens and closes the database, refreshes and erases      *)
(* entries; pool tasks send transactions (and file them in whatever        *)
(* database is open when the network answers) and reload the list.         *)
(* Nothing in the code guards the handle or the list.  Using the handle    *)
(* while it is NULL stops the program, an exception on the GUI thread too. *)
(***************************************************************************)
EXTENDS Naturals, Sequences, FiniteSets, Bags

CONSTANTS
    Account,
    Tx,          \* bound: transactions ever made, each named by its hash
    Lister,      \* bound: list tasks at a time
    MaxLists,    \* bound: list tasks and historyLoaded signals under way
    MaxClicks,   \* bound: what the user does besides sending
    None

ASSUME HistoryAssumption ==
    /\ None \notin Account \cup Tx
    /\ IsFiniteSet(Lister) /\ MaxLists \in Nat /\ MaxClicks \in Nat

VARIABLES
    disk,        \* entries of each account's database
    chain,       \* what the network knows of each transaction
    historyDB,   \* account whose database is open
    current,     \* current account
    currentAccountHistory,
    lister,      \* list tasks
    sending,     \* sender of each transaction a pool task is sending
    emitted,     \* lists on their way to the GUI thread
    gui,         \* what the GUI thread is in the middle of
    screen, shown, progress, autoClose,      \* the screens
    clicks,      \* what the user did so far
    overlap,     \* history: the account was changed while tasks were at work
    raced,       \* history: an entry was refreshed while a list was on its way
    doubled,     \* history: two list tasks overlapped
    erased,      \* history: what the user erased, by account
    unlisted     \* history: transactions filed since the database was last read

tasks == <<lister, sending, emitted>>
screens == <<screen, shown, progress, autoClose, clicks>>
marks == <<overlap, raced, doubled, erased, unlisted>>
histVars == <<disk, chain, historyDB, current, currentAccountHistory, tasks, gui,
              screens, marks>>

Entry == [hash : Tx \cup {None}, from : Account \cup {None},
          confirmed : BOOLEAN, invalid : BOOLEAN]

IdleGui == [type |-> "idle", acct |-> None, entry |-> None]
IdleLister == [pc |-> "idle", got |-> {}]

HistInit ==
    /\ disk = [a \in Account |-> {}]
    /\ chain = [t \in Tx |-> "new"]
    /\ historyDB = None /\ current = None
    /\ currentAccountHistory = EmptyBag
    /\ lister = [l \in Lister |-> IdleLister]
    /\ sending = [t \in Tx |-> None]
    /\ emitted = <<>>
    /\ gui = IdleGui
    /\ screen = "other" /\ shown = EmptyBag
    /\ progress = FALSE /\ autoClose = FALSE
    /\ clicks = 0
    /\ overlap = FALSE /\ raced = FALSE /\ doubled = FALSE
    /\ erased = {} /\ unlisted = {}

\* The program goes down and is started again; what is on disk stays.
Stop ==
    /\ historyDB' = None /\ current' = None
    /\ currentAccountHistory' = EmptyBag
    /\ lister' = [l \in Lister |-> IdleLister]
    /\ sending' = [t \in Tx |-> None]
    /\ emitted' = <<>>
    /\ gui' = IdleGui
    /\ screen' = "other" /\ shown' = EmptyBag
    /\ progress' = FALSE /\ autoClose' = FALSE
    /\ UNCHANGED <<disk, chain, clicks, marks>>

Put_Adds(entries, e) == entries \cup {e}

\* putHistoryDBValue
Put(entries, e) == {x \in entries : x.hash # e.hash} \cup {e}

Busy == \/ \E l \in Lister : lister[l].pc # "idle"
        \/ \E t \in Tx : sending[t] # None
        \/ emitted # <<>>
Free == gui.type = "idle"

\* The user acts, on a GUI that is free and not covered by the progress popup.
Click == /\ Free /\ ~progress
         /\ clicks < MaxClicks /\ clicks' = clicks + 1
-----------------------------------------------------------------------------
\* listAccountTransactions.  The task ignores the address it is given.

Room == Len(emitted) + Cardinality({l \in Lister : lister[l].pc # "idle"}) < MaxLists

StartList(l) ==
    /\ Room /\ lister[l].pc = "idle"
    /\ lister' = [lister EXCEPT ![l].pc = "start"]

ListRead_NoClear(l) ==
    /\ lister[l].pc = "start"
    /\ \/ /\ historyDB = None /\ Stop
       \/ /\ historyDB # None
          /\ currentAccountHistory' = currentAccountHistory
          /\ lister' = [lister EXCEPT ![l] = [pc |-> "push", got |-> disk[historyDB]]]
          /\ doubled' = (doubled \/ \E k \in Lister : lister[k].pc \in {"push", "emit"})
          /\ unlisted' = {}
          /\ UNCHANGED <<disk, chain, historyDB, current, sending, emitted, gui, screens,
                         overlap, raced, erased>>

\* loadTxHistory clears the list and reads the database ...
ListRead(l) ==
    /\ lister[l].pc = "start"
    /\ \/ /\ historyDB = None /\ Stop
       \/ /\ historyDB # None
          /\ currentAccountHistory' = EmptyBag
          /\ lister' = [lister EXCEPT ![l] = [pc |-> "push", got |-> disk[historyDB]]]
          /\ doubled' = (doubled \/ \E k \in Lister : lister[k].pc \in {"push", "emit"})
          /\ unlisted' = {}
          /\ UNCHANGED <<disk, chain, historyDB, current, sending, emitted, gui, screens,
                         overlap, raced, erased>>

\* ... appends what it read ...
ListPush(l) ==
    /\ lister[l].pc = "push"
    /\ currentAccountHistory' = currentAccountHistory (+) SetToBag(lister[l].got)
    /\ lister' = [lister EXCEPT ![l] = [pc |-> "emit", got |-> {}]]
    /\ UNCHANGED <<disk, chain, historyDB, current, sending, emitted, gui, screens, marks>>

\* ... and the task emits a copy of the list.
ListEmit(l) ==
    /\ lister[l].pc = "emit"
    /\ emitted' = Append(emitted, currentAccountHistory)
    /\ lister' = [lister EXCEPT ![l] = IdleLister]
    /\ UNCHANGED <<disk, chain, historyDB, current, currentAccountHistory, sending, gui,
                   screens, marks>>

\* onHistoryLoaded; without the screen nobody listens.
HistoryLoaded ==
    /\ Free /\ emitted # <<>>
    /\ emitted' = Tail(emitted)
    /\ shown' = IF screen = "history" THEN Head(emitted) ELSE shown
    /\ UNCHANGED <<disk, chain, historyDB, current, currentAccountHistory, lister, sending,
                   gui, screen, progress, autoClose, clicks, marks>>

\* The user opens the History screen; reloadTransactions.
OpenHistory(l) ==
    /\ Click /\ current # None
    /\ screen' = "history" /\ shown' = EmptyBag
    /\ StartList(l)
    /\ UNCHANGED <<disk, chain, historyDB, current, currentAccountHistory, sending, emitted,
                   gui, progress, autoClose, marks>>

LeaveHistory ==
    /\ Click /\ screen = "history"
    /\ screen' = "other" /\ shown' = EmptyBag
    /\ UNCHANGED <<disk, chain, historyDB, current, currentAccountHistory, tasks, gui,
                   progress, autoClose, marks>>
-----------------------------------------------------------------------------
\* btnCheckStatus.  updateTxStatus runs on the GUI thread: it copies the entry out
\* of the list, asks the network and files the entry in the open database.

\* No entry: a TxData whose fields nobody set.
Unset == {e \in Entry : e.hash = None /\ e.from = None}

UpdateBegin_WrongField(e) ==
    LET found == {x \in BagToSet(currentAccountHistory) : x.from = e.hash} IN
    /\ Click /\ BagIn(e, shown) /\ Room
    /\ \E x \in IF found = {} THEN Unset ELSE found :
          gui' = [type |-> "update", acct |-> None, entry |-> x]
    /\ raced' = (raced \/ emitted # <<>> \/ \E l \in Lister : lister[l].pc # "idle")
    /\ UNCHANGED <<disk, chain, historyDB, current, currentAccountHistory, tasks, screen, shown, progress, autoClose,
                   overlap, doubled, erased, unlisted>>

UpdateBegin(e) ==
    LET found == {x \in BagToSet(currentAccountHistory) : x.hash = e.hash} IN
    /\ Click /\ BagIn(e, shown) /\ Room
    /\ \E x \in IF found = {} THEN Unset ELSE found :
          gui' = [type |-> "update", acct |-> None, entry |-> x]
    /\ raced' = (raced \/ emitted # <<>> \/ \E l \in Lister : lister[l].pc # "idle")
    /\ UNCHANGED <<disk, chain, historyDB, current, currentAccountHistory, tasks, screen, shown, progress, autoClose,
                   overlap, doubled, erased, unlisted>>

\* A receipt with status 0x1 confirms, none at all makes the entry invalid at once
\* (now + 300 is always past its date); for an unset entry it is anybody's guess.
Refreshed(e) ==
    IF e.hash = None THEN e
    ELSE IF chain[e.hash] = "mined" THEN [e EXCEPT !.confirmed = TRUE]
    ELSE [e EXCEPT !.invalid = TRUE]

UpdateEnd(l) ==
    /\ gui.type = "update"
    /\ gui.entry.hash # None => chain[gui.entry.hash] # "reverted"
    /\ disk' = [disk EXCEPT ![historyDB] = Put(@, Refreshed(gui.entry))]
    /\ gui' = IdleGui
    /\ StartList(l)
    /\ UNCHANGED <<chain, historyDB, current, currentAccountHistory, sending, emitted,
                   screens, marks>>

\* No answer, or a receipt with status 0x0: a json exception on the GUI thread.
UpdateThrows == gui.type = "update" /\ Stop

EraseAll_SkipsFirst(l) ==
    /\ Click /\ screen = "history" /\ shown # EmptyBag
    /\ \E e \in disk[historyDB] : disk' = [disk EXCEPT ![historyDB] = {e}]
    /\ erased' = erased \cup {<<historyDB, e.hash>> : e \in disk[historyDB]}
    /\ StartList(l)
    /\ UNCHANGED <<chain, historyDB, current, currentAccountHistory, sending, emitted, gui,
                   screen, shown, progress, autoClose, overlap, raced, doubled, unlisted>>

\* eraseHistoryPopup
EraseAll(l) ==
    /\ Click /\ screen = "history" /\ shown # EmptyBag
    /\ disk' = [disk EXCEPT ![historyDB] = {}]
    /\ erased' = erased \cup {<<historyDB, e.hash>> : e \in disk[historyDB]}
    /\ StartList(l)
    /\ UNCHANGED <<chain, historyDB, current, currentAccountHistory, sending, emitted, gui,
                   screen, shown, progress, autoClose, overlap, raced, doubled, unlisted>>
-----------------------------------------------------------------------------
\* makeTransaction.  The progress popup is modal, but a website's request can be
\* confirmed on top of it.

Send(t) ==
    /\ Free /\ current # None
    /\ chain[t] = "new" /\ sending[t] = None
    /\ sending' = [sending EXCEPT ![t] = current]
    /\ progress' = TRUE
    /\ UNCHANGED <<disk, chain, historyDB, current, currentAccountHistory, lister, emitted,
                   gui, screen, shown, autoClose, clicks, marks>>

\* The network has the transaction before the wallet has its answer.
Broadcast(t) ==
    /\ sending[t] # None /\ chain[t] = "new"
    /\ chain' = [chain EXCEPT ![t] = "sent"]
    /\ UNCHANGED <<disk, historyDB, current, currentAccountHistory, tasks, gui, screens, marks>>

Mine(t) ==
    /\ chain[t] = "sent"
    /\ \E outcome \in {"mined", "reverted"} : chain' = [chain EXCEPT ![t] = outcome]
    /\ UNCHANGED <<disk, historyDB, current, currentAccountHistory, tasks, gui, screens, marks>>

\* sendTransaction with an answer: saveTxToHistory.
SendEnd(t) ==
    /\ sending[t] # None /\ chain[t] # "new"
    /\ \/ /\ historyDB = None /\ Stop
       \/ /\ historyDB # None
          /\ disk' = [disk EXCEPT ![historyDB] = Put(@, [hash |-> t, from |-> sending[t],
                                              confirmed |-> FALSE, invalid |-> FALSE])]
          /\ sending' = [sending EXCEPT ![t] = None]
          /\ unlisted' = unlisted \cup {t}
          /\ UNCHANGED <<chain, historyDB, current, currentAccountHistory, lister, emitted,
                         gui, screens, overlap, raced, doubled, erased>>

\* The network refuses the transaction, or its answer is lost.
SendFails(t) ==
    /\ sending[t] # None
    /\ sending' = [sending EXCEPT ![t] = None]
    /\ UNCHANGED <<disk, chain, historyDB, current, currentAccountHistory, lister, emitted,
                   gui, screens, marks>>

\* onTxConfirmed starts autoCloseTimer, which nobody stops for the next transaction.
TxConfirmed ==
    /\ Free /\ progress /\ \E t \in Tx : chain[t] = "mined" /\ sending[t] = None
    /\ autoClose' = TRUE
    /\ UNCHANGED <<disk, chain, historyDB, current, currentAccountHistory, tasks, gui,
                   screen, shown, progress, clicks, marks>>

CloseProgress ==
    /\ Free /\ progress
    /\ autoClose \/ \A t \in Tx : sending[t] = None
    /\ progress' = FALSE /\ autoClose' = FALSE
    /\ UNCHANGED <<disk, chain, historyDB, current, currentAccountHistory, tasks, gui,
                   screen, shown, clicks, marks>>
-----------------------------------------------------------------------------
\* chooseSelectedAccount: cleanAndCloseAccount, then loadHistoryDB.  cleanAndCloseWallet
\* closes the database as well, but waits for the pool before it goes on.

CloseHistoryDB(type, a) ==
    /\ gui' = [type |-> type, acct |-> a, entry |-> None]
    /\ historyDB' = None
    /\ overlap' = (overlap \/ Busy)
    /\ UNCHANGED <<disk, chain, current, currentAccountHistory, tasks, screen, shown, progress, autoClose, raced, doubled,
                   erased, unlisted>>

ChooseAccount(a) == Click /\ screen # "load" /\ CloseHistoryDB("choose", a)

\* The user loads a wallet.  The one that is loaded is closed at once: no account is
\* current and the list is empty, the database stays open.
CloseWallet ==
    /\ Click
    /\ current' = None /\ currentAccountHistory' = EmptyBag
    /\ screen' = "load" /\ shown' = EmptyBag
    /\ UNCHANGED <<disk, chain, historyDB, tasks, gui, progress, autoClose, marks>>

\* onWalletLoaded, if the passphrase was right; if not, he can only try again.
LoadWallet(a) ==
    /\ Free /\ screen = "load"
    /\ CloseHistoryDB("load", a)
    /\ UNCHANGED clicks

LoadHistoryDB_Early ==
    /\ \/ gui.type = "choose"
       \/ gui.type = "load" /\ \A l \in Lister : lister[l].pc = "idle"
                            /\ \A t \in Tx : sending[t] = None
    /\ current' = gui.acct
    /\ historyDB' = IF current = None THEN gui.acct ELSE current
    /\ gui' = IdleGui
    /\ screen' = "other" /\ shown' = EmptyBag
    /\ UNCHANGED <<disk, chain, currentAccountHistory, tasks, progress, autoClose, clicks, marks>>

LoadHistoryDB ==
    /\ \/ gui.type = "choose"
       \/ gui.type = "load" /\ \A l \in Lister : lister[l].pc = "idle"
                            /\ \A t \in Tx : sending[t] = None
    /\ current' = gui.acct
    /\ historyDB' = gui.acct
    /\ gui' = IdleGui
    /\ screen' = "other" /\ shown' = EmptyBag
    /\ UNCHANGED <<disk, chain, currentAccountHistory, tasks, progress, autoClose, clicks, marks>>

HistNext ==
    \/ HistoryLoaded \/ LeaveHistory \/ UpdateThrows \/ TxConfirmed \/ CloseProgress
    \/ CloseWallet \/ LoadHistoryDB
    \/ \E l \in Lister : \/ ListRead(l) \/ ListPush(l) \/ ListEmit(l)
                         \/ OpenHistory(l) \/ UpdateEnd(l) \/ EraseAll(l)
    \/ \E e \in Entry : UpdateBegin(e)
    \/ \E t \in Tx : Send(t) \/ Broadcast(t) \/ Mine(t) \/ SendEnd(t) \/ SendFails(t)
    \/ \E a \in Account : ChooseAccount(a)
    \/ \E a \in Account \cup {None} : LoadWallet(a)

HistSpec == HistInit /\ [][HistNext]_histVars
-----------------------------------------------------------------------------
\* Properties

\* Types; a database holds one entry per transaction.
HistTypeOK ==
    /\ disk \in [Account -> SUBSET Entry]
    /\ \A a \in Account : \A x, y \in disk[a] : x.hash = y.hash => x = y
    /\ chain \in [Tx -> {"new", "sent", "mined", "reverted"}]
    /\ historyDB \in Account \cup {None} /\ current \in Account \cup {None}
    /\ \A l \in Lister : /\ lister[l].pc \in {"idle", "start", "push", "emit"}
                         /\ lister[l].got \subseteq Entry
    /\ sending \in [Tx -> Account \cup {None}]
    /\ Len(emitted) <= MaxLists /\ clicks <= MaxClicks
    /\ gui.type \in {"idle", "choose", "load", "update"}
    /\ gui.type = "update" => gui.entry \in Entry /\ historyDB # None
    /\ BagToSet(shown) \cup BagToSet(currentAccountHistory) \subseteq Entry

\* "Store the successful transaction in the Account's history": an entry lies in
\* the database of the account that sent it, unless the account was changed while
\* a task was sending or listing.
OwnHistory ==
    ~overlap => \A a \in Account : \A e \in disk[a] : e.hash # None => e.from = a

\* updateTxStatus files an entry nobody sent only when it looked for one while the
\* list was being rebuilt or a rebuilt list had not reached the screen.
NoUnsetEntry ==
    ~raced => \A a \in Account : \A e \in disk[a] : e.hash # None

\* "All data will be permanently lost": an erased transaction comes back only if it
\* was refreshed before the empty list reached the screen, or if an older reload
\* overtook the one that followed the erasure.
ErasedForGood ==
    ~raced /\ ~doubled => \A a \in Account : \A e \in disk[a] : <<a, e.hash>> \notin erased

\* At rest the screen shows what the database holds, each transaction once, except
\* those filed since it was read: saveTxToHistory does not reload the list.  (Two
\* overlapping reloads list everything twice.)
ShownIsStored ==
    screen = "history" /\ Free /\ ~Busy /\ ~doubled =>
       shown = SetToBag({e \in disk[historyDB] : e.hash \notin unlisted})
=============================================================================
