----------------------------- MODULE StoredPass -----------------------------
(***************************************************************************)
(* The password the wallet may keep in memory (core/Wallet.cpp): who       *)
(* stores it, which detached thread removes it, and when.                  *)
(*                                                                         *)
(* startPassThread runs on the GUI thread and writes two fields before it  *)
(* starts a thread of its own; threads of earlier calls may still be alive *)
(* and write the same two fields.  Nothing is locked.                      *)
(***************************************************************************)
EXTENDS Naturals

CONSTANTS
    Thread,   \* bound: the threads that may be alive at once
    Wallet,   \* the wallets, each with its password
    Empty,    \* "", no password
    Keep,     \* the configured time to keep the password
    MaxNow    \* bound: the last second of the run

ASSUME StoredPassAssumption ==
    Keep \in Nat /\ MaxNow \in Nat /\ Empty \notin Wallet

VARIABLES
    storedPass,          \* Wallet::storedPass, named by the wallet it opens
    storedPassDeadline,  \* Wallet::storedPassDeadline
    thread,              \* each thread: none, awake, asleep, clear, reset
    start,               \* startPassThread: idle, deadline or spawn comes next
    wallet,              \* the wallet that is loaded
    now,                 \* std::time
    due                  \* history: the deadline given with the last password

passVars == <<storedPass, storedPassDeadline, thread, start, wallet, now, due>>

PassInit ==
    /\ storedPass = Empty
    /\ storedPassDeadline = 0
    /\ thread = [t \in Thread |-> "none"]
    /\ start = "idle"
    /\ wallet \in Wallet
    /\ now = 1
    /\ due = 0

\* A popup was confirmed with the right password, none is stored and the
\* configuration asks to keep it: storePass, startPassThread line by line.
StorePass ==
    /\ start = "idle"
    /\ storedPass = Empty
    /\ now + Keep < MaxNow
    /\ storedPass' = wallet
    /\ due' = now + Keep
    /\ start' = "deadline"
    /\ UNCHANGED <<storedPassDeadline, thread, wallet, now>>

SetDeadline ==
    /\ start = "deadline"
    /\ storedPassDeadline' = due
    /\ start' = "spawn"
    /\ UNCHANGED <<storedPass, thread, wallet, now, due>>

Spawn(t) ==
    /\ start = "spawn"
    /\ thread[t] = "none"
    /\ thread' = [thread EXCEPT ![t] = "awake"]
    /\ start' = "idle"
    /\ UNCHANGED <<storedPass, storedPassDeadline, wallet, now, due>>

\* storedPassThreadHandler: one turn of the loop.
Check_Later(t) ==
    /\ thread[t] = "awake"
    /\ thread' = [thread EXCEPT ![t] =
          IF now > storedPassDeadline + 1 THEN "clear" ELSE "asleep"]
    /\ UNCHANGED <<storedPass, storedPassDeadline, start, wallet, now, due>>

Check(t) ==
    /\ thread[t] = "awake"
    /\ thread' = [thread EXCEPT ![t] =
          IF now > storedPassDeadline THEN "clear" ELSE "asleep"]
    /\ UNCHANGED <<storedPass, storedPassDeadline, start, wallet, now, due>>

ClearPass(t) ==
    /\ thread[t] = "clear"
    /\ storedPass' = Empty
    /\ thread' = [thread EXCEPT ![t] = "reset"]
    /\ UNCHANGED <<storedPassDeadline, start, wallet, now, due>>

ClearDeadline(t) ==
    /\ thread[t] = "reset"
    /\ storedPassDeadline' = 0
    /\ thread' = [thread EXCEPT ![t] = "none"]
    /\ UNCHANGED <<storedPass, start, wallet, now, due>>

\* resetPass, stopPassThread: the thread notices at its next turn.
ResetPass ==
    /\ start = "idle"
    /\ storedPass' = Empty
    /\ storedPassDeadline' = 0
    /\ UNCHANGED <<thread, start, wallet, now, due>>

\* Wallet::close and Wallet::load leave the stored password alone.
LoadWallet(w) ==
    /\ start = "idle"
    /\ wallet' = w
    /\ UNCHANGED <<storedPass, storedPassDeadline, thread, start, now, due>>

\* A second passes; sleeping threads wake.  Whatever is ready to run has run
\* before: threads get a processor within a second.
Second ==
    /\ now < MaxNow
    /\ start = "idle"
    /\ \A t \in Thread : thread[t] \in {"none", "asleep"}
    /\ now' = now + 1
    /\ thread' = [t \in Thread |->
          IF thread[t] = "asleep" THEN "awake" ELSE thread[t]]
    /\ UNCHANGED <<storedPass, storedPassDeadline, start, wallet, due>>

PassNext ==
    \/ StorePass \/ SetDeadline \/ ResetPass \/ Second
    \/ \E t \in Thread : Spawn(t) \/ Check(t) \/ ClearPass(t) \/ ClearDeadline(t)
    \/ \E w \in Wallet : LoadWallet(w)

PassSpec == PassInit /\ [][PassNext]_passVars
-----------------------------------------------------------------------------
\* Properties

\* Types of the fields and of the threads.
PassTypeOK ==
    /\ storedPass \in Wallet \cup {Empty}
    /\ storedPassDeadline \in Nat
    /\ thread \in [Thread -> {"none", "awake", "asleep", "clear", "reset"}]
    /\ start \in {"idle", "deadline", "spawn"}
    /\ wallet \in Wallet
    /\ now \in Nat /\ now > 0
    /\ due \in Nat

\* A password that is in memory has a thread that will still remove it, unless
\* startPassThread is about to start one: the unlocked writes of older threads
\* can remove it early but never strand it.
Guarded ==
    storedPass # Empty /\ start = "idle"
       => \E t \in Thread : thread[t] \in {"awake", "asleep", "clear"}

\* "When deadline is reached ... the password is cleaned from memory": it is
\* gone two seconds after its deadline at the latest.
Expires == storedPass # Empty => now <= due + 1

\* What makes Expires inductive: no thread goes to sleep past the deadline.
ExpiresInv ==
    /\ start = "deadline" \/ start = "spawn" => now <= due
    /\ storedPass # Empty /\ start # "deadline" => storedPassDeadline \in {0, due}
    /\ storedPass # Empty /\ start = "idle" =>
          \A t \in Thread : thread[t] = "asleep" => now <= due
=============================================================================
