------------------------------- MODULE Ledger -------------------------------
(***************************************************************************)
(* The Ledger device: how a transaction or a message is cut into APDUs and *)
(* USB frames (encoding.cpp), how they are exchanged with the device       *)
(* (comms.cpp) and what the wallet makes of the answer (ledger.cpp).       *)
(*                                                                         *)
(* Operations of the GUI thread (looking for the device) and of the pool   *)
(* (signing) go through the same object and the same device_handle; they   *)
(* are taken one at a time.  The device may be unplugged at any point, and *)
(* another one plugged in.  Frames are reduced to what they carry; an      *)
(* error of hidapi is -1 in an unsigned variable and is never noticed.     *)
(***************************************************************************)
EXTENDS Naturals, Sequences

CONSTANTS
    Messages,   \* bound: [tx, size, path] of what is signed, in bytes
    MaxPlugs    \* bound: times a device is plugged in or out

\* A path is "m/44'/60'/0'/0", with or without an index: one byte and four for each of its
\* four or five derivations.
ASSUME LedgerAssumption ==
    /\ Messages \subseteq [tx : BOOLEAN, size : Nat, path : {17, 21}]
    /\ MaxPlugs \in Nat

VARIABLES
    device,         \* external: none, the user's own, another one
    plugs,          \* plugs and unplugs so far
    device_handle,  \* null, wild (never set), open, dead (its device is gone), closed
    wire,           \* external: frames on their way from the device
    job,            \* the operation under way
    msg,            \* what the wallet signs
    signer,         \* external: the device that answered last
    result,         \* what signing returned, if that was the last operation
    late, pulled    \* history: during this operation a frame came late,
                    \* the device was plugged in or out

ledgerVars == <<device, plugs, device_handle, wire, job, msg, signer, result, late, pulled>>

Rest == [pc |-> "rest", todo |-> <<>>, left |-> <<>>, ret |-> <<>>]
-----------------------------------------------------------------------------
\* encodeSignEthMessage and encodePersonalSignMessage.  A payload of at most 150 bytes
\* goes out in frames of 52, 59 and 39; the first one starts with the path and, for a
\* message, four bytes of length.

Capacity == 150
Frames(n) == IF n <= 52 THEN 1 ELSE IF n <= 52 + 59 THEN 2 ELSE 3
Shorter(a, b) == IF a < b THEN a ELSE b

First_Started(m, i) == i < Capacity
First(m, i) == i + m.path < Capacity

\* The payload that starts with byte i of what is signed.
Prefix(m, i) == IF First(m, i) THEN m.path + (IF m.tx THEN 0 ELSE 4) ELSE 0
Piece(m, i) == Shorter(Capacity - Prefix(m, i), m.size - i)
Payload(m, i) == [first |-> First(m, i), from |-> i, to |-> i + Piece(m, i),
                  LC |-> Prefix(m, i) + Piece(m, i)]

PayloadsFrom(m) ==
    LET from[i \in 0..m.size] ==
           IF i >= m.size THEN <<>> ELSE <<Payload(m, i)>> \o from[i + Piece(m, i)]
    IN from
Payloads(m) == PayloadsFrom(m)[0]

\* exchangeMessage takes the frames three at a time; a package is what the device
\* answers as one.
FramesUpTo(sent) ==
    LET frames[k \in 0..Len(sent)] == IF k = 0 THEN 0 ELSE frames[k - 1] + Frames(sent[k].LC)
    IN frames
Packages(m) ==
    LET sent == Payloads(m)
        n == (FramesUpTo(sent)[Len(sent)] + 2) \div 3
    IN [k \in 1..n |-> k < n]                   \* TRUE: more to come
-----------------------------------------------------------------------------
LedgerInit ==
    /\ device \in {"own", "other"} /\ plugs = 0 /\ signer = "none"
    /\ device_handle \in {"null", "wild"}       \* nobody initializes it
    /\ wire = <<>>
    /\ job = Rest /\ msg \in Messages /\ result = "none"
    /\ late = FALSE /\ pulled = FALSE

Plug(d) ==
    /\ plugs < MaxPlugs /\ d # device /\ (d = "none" \/ device = "none")
    /\ device' = d /\ plugs' = plugs + 1
    /\ device_handle' = IF device_handle = "open" THEN "dead" ELSE device_handle
    /\ wire' = <<>>
    /\ pulled' = TRUE
    /\ UNCHANGED <<job, msg, signer, result, late>>

\* checkForDevice: a device is there, then its app answers a question.  signTransaction
\* and signPersonalMessage do the same first, ask for the address and have it sign;
\* generateBip32Account lists the address.
Start(todo) ==
    /\ job.pc = "rest" /\ device # "none"
    /\ job' = [Rest EXCEPT !.pc = "open", !.todo = todo]
    /\ result' = "none" /\ late' = FALSE /\ pulled' = FALSE
    /\ UNCHANGED <<device, plugs, device_handle, wire, msg, signer>>

Sign == Start(<<"probe", "address", "sign">>)
CheckForLedger == Start(<<"check">>)
GenerateBip32Account == Start(<<"probe", "list">>)

\* exchangeMessage opens the device it finds, or gets null if it is busy or not allowed;
\* without one it goes on with the handle of the last time.
Opened_Reuses ==
    IF device_handle \in {"null", "wild"} /\ device # "none" THEN {"open", "null"} ELSE {device_handle}
Opened == IF device # "none" THEN {"open", "null"} ELSE {device_handle}

\* Of an empty message nothing is sent.
Then(left) == IF left = <<>> THEN "close" ELSE "write"

OpenDevice ==
    /\ job.pc = "open"
    /\ device_handle' \in Opened
    /\ LET sent == IF Head(job.todo) = "sign" THEN Packages(msg) ELSE <<FALSE>> IN
       job' = [job EXCEPT !.pc = IF device_handle' = "null" THEN "decode" ELSE Then(sent),
                          !.left = sent, !.ret = <<>>]
    /\ UNCHANGED <<device, plugs, wire, msg, signer, result, late, pulled>>

\* Any use of a handle that was closed or never set is undefined: all ends there.
Usable == device_handle \in {"open", "dead"}
UseOfBadHandle ==
    /\ job.pc \in {"write", "first", "more", "close"} /\ ~Usable
    /\ job' = [job EXCEPT !.pc = "undefined"]
    /\ UNCHANGED <<device, plugs, device_handle, wire, msg, signer, result, late, pulled>>

\* What the device answers to a package: 9000 while there is more to come, else an
\* address in three frames, a signature in two, or an error in one.
Answers ==
    {<<"err">>} \cup
    (IF Head(job.left) THEN {<<"ok">>}
     ELSE IF Head(job.todo) = "sign" THEN {<<"sig1", "sig2">>}
     ELSE {<<"adr1", "adr2", "adr3">>})

WritePackage ==
    /\ job.pc = "write" /\ Usable
    /\ \/ device_handle = "dead" /\ UNCHANGED <<wire, signer>>
       \/ device_handle = "open" /\ signer' = device /\ \E a \in Answers : wire' = wire \o a
    /\ job' = [job EXCEPT !.pc = "first", !.left = Tail(@)]
    /\ UNCHANGED <<device, plugs, device_handle, msg, result, late, pulled>>

\* hid_read waits for the device, which waits for the user; a dead handle returns at
\* once and leaves the buffer of zeros.
ReadFirst ==
    LET f == IF device_handle = "dead" THEN "zero" ELSE Head(wire) IN
    /\ job.pc = "first" /\ Usable
    /\ device_handle = "open" => wire # <<>>
    /\ job' = [job EXCEPT !.pc = IF f = "err" THEN "close" ELSE "more", !.ret = Append(@, f)]
    /\ wire' = IF device_handle = "dead" THEN wire ELSE Tail(wire)
    /\ UNCHANGED <<device, plugs, device_handle, msg, signer, result, late, pulled>>

ReadMore_Blocks ==
    /\ job.pc = "more" /\ device_handle = "open" /\ wire # <<>>
    /\ job' = [job EXCEPT !.ret = Append(@, Head(wire))]
    /\ wire' = Tail(wire)
    /\ UNCHANGED <<device, plugs, device_handle, msg, signer, result, late, pulled>>

\* hid_read_timeout gives up after 100 ms; a frame that comes later is for the next
\* read.  A dead handle returns -1, which is not 0, for ever: no step.
ReadMore ==
    /\ job.pc = "more" /\ device_handle = "open"
    /\ \/ /\ wire # <<>>
          /\ job' = [job EXCEPT !.ret = Append(@, Head(wire))]
          /\ wire' = Tail(wire) /\ UNCHANGED late
       \/ /\ job' = [job EXCEPT !.pc = Then(job.left)]
          /\ late' = (late \/ wire # <<>>)
          /\ UNCHANGED wire
    /\ UNCHANGED <<device, plugs, device_handle, msg, signer, result, pulled>>

CloseDevice ==
    /\ job.pc = "close" /\ Usable
    /\ device_handle' = "closed" /\ wire' = <<>>
    /\ job' = [job EXCEPT !.pc = "decode"]
    /\ UNCHANGED <<device, plugs, msg, signer, result, late, pulled>>
-----------------------------------------------------------------------------
\* decodeBip32Message looks at the second frame only, decodeSignEthMessage at the last
\* two: with fewer than two it reads in front of the vector.

Signature(ret) ==
    LET n == Len(ret) IN
    IF n < 2 THEN "undefined"
    ELSE IF ret[n - 1] = "sig1" /\ ret[n] = "sig2" THEN "signed"
    ELSE IF "sig1" \in {ret[n - 1], ret[n]} \/ "sig2" \in {ret[n - 1], ret[n]} THEN "garbage"
    ELSE "failed"                                          \* r or s is zero

\* The address must be the sender's; for a message nobody compares.
SameAddress_Never == TRUE
SameAddress == msg.tx => signer = "own"

Decode ==
    LET step == Head(job.todo)
        good == Len(job.ret) > 1 /\ (step = "address" => SameAddress)
        outcome == IF step = "sign" THEN Signature(job.ret) ELSE "failed" IN
    /\ job.pc = "decode"
    /\ IF step # "sign" /\ good /\ Len(job.todo) > 1
       THEN /\ job' = [job EXCEPT !.pc = "open", !.todo = Tail(@)]
            /\ UNCHANGED result
       ELSE /\ job' = Rest
            /\ result' = IF job.todo[Len(job.todo)] = "sign" THEN outcome ELSE result
    /\ UNCHANGED <<device, plugs, device_handle, wire, msg, signer, late, pulled>>

LedgerStep ==
    \/ OpenDevice \/ WritePackage \/ ReadFirst \/ ReadMore \/ CloseDevice
    \/ Decode \/ UseOfBadHandle

LedgerNext ==
    \/ Sign \/ CheckForLedger \/ GenerateBip32Account \/ LedgerStep
    \/ \E d \in {"none", "own", "other"} : Plug(d)

LedgerSpec == LedgerInit /\ [][LedgerNext]_ledgerVars
-----------------------------------------------------------------------------
\* Properties

\* Types; nobody writes without something to send.
LedgerTypeOK ==
    /\ device \in {"none", "own", "other"} /\ plugs \in 0..MaxPlugs
    /\ device_handle \in {"null", "wild", "open", "dead", "closed"}
    /\ job.pc = "write" => job.left # <<>>
    /\ result \in {"none", "signed", "garbage", "failed", "undefined"}

\* The payloads are the message in order and without gaps, each within 150 bytes, and
\* the device answers each as one package.  "0x00 for first message, 0x80 for
\* subsequence messages": so it is for transactions; the second payload of a personal
\* message goes out as another first one, as the four bytes of its length are not
\* counted.
Framing ==
    LET sent == Payloads(msg) IN
    /\ IF msg.size = 0 THEN sent = <<>> ELSE sent[1].from = 0 /\ sent[Len(sent)].to = msg.size
    /\ \A k \in 1..Len(sent) :
          /\ sent[k].LC \in 1..Capacity
          /\ k > 1 => sent[k].from = sent[k - 1].to
          /\ sent[k].first <=> k = 1 \/ (k = 2 /\ ~msg.tx)
    /\ Len(Packages(msg)) = Len(sent)

\* hidapi is called with an open handle unless the device was pulled out: an exchange
\* leaves its closed handle to the next, which uses it when it finds no device.
HandleIsOpen == job.pc = "undefined" => pulled

\* What is passed on as a signature is one that the device gave for this request unless
\* a frame was late or the device pulled out, and of a transaction it is by the device
\* that holds the sender's key unless devices were exchanged meanwhile.  (An error in
\* answer to the first package is a single frame: the decoder reads in front of it.)
SignatureIsGenuine ==
    /\ result = "garbage" => late \/ pulled
    /\ result = "signed" /\ msg.tx /\ ~pulled => signer = "own"

\* Signing ends, whatever the user answers, unless the device is pulled out: then the
\* task reads empty frames for ever.
SigningEnds == job.pc = "open" ~> (job.pc = "rest" \/ pulled)
=============================================================================
