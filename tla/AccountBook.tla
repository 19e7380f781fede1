----------------------------- MODULE AccountBook ----------------------------
(***************************************************************************)
(* What the files of a wallet promise about its accounts, and all that a   *)
(* restart may rely on: one entry per account, of which at most one is     *)
(* being rewritten.  Only that one can get lost; any other leaves the book *)
(* when the user removes it.  Names are entered together, each once.       *)
(***************************************************************************)
CONSTANTS
    Addr, Name,
    Unnamed,   \* the account is there, its name is not
    None       \* no account, no rewriting

VARIABLES
    entries,   \* name of each account
    open       \* the account whose entry is being rewritten

bookVars == <<entries, open>>

BookInit == entries = [a \in Addr |-> None] /\ open = None

Becomes(a, Entry) == \E e \in Entry : entries' = [entries EXCEPT ![a] = e]

\* What can be left of an entry: a second key of the account may keep it there.
Rest(e) == IF e = None THEN {None} ELSE {None, Unnamed, e}

\* Rewriting takes an entry away, and gives it back or not.
Open(a) == open = None /\ open' = a /\ Becomes(a, Rest(entries[a]))
Written == open # None /\ open' = None /\ Becomes(open, Name \cup {Unnamed})
Abandoned == open # None /\ open' = None /\ UNCHANGED entries

Enter ==
    /\ open = None /\ UNCHANGED open
    /\ entries' \in [Addr -> Name \cup {Unnamed, None}]
    /\ \A a \in Addr : entries'[a] # entries[a] =>
                         entries[a] = Unnamed /\ entries'[a] \in Name
Remove(a) == open = None /\ Becomes(a, Rest(entries[a])) /\ UNCHANGED open

BookNext == \/ Written \/ Abandoned \/ Enter
            \/ \E a \in Addr : Open(a) \/ Remove(a)

BookSpec == BookInit /\ [][BookNext]_bookVars
=============================================================================
