----------------------------- MODULE E82545NvmAbs -----------------------------
(* What the serial EEPROM of the e1000 promises: the guest clocks in a      *)
(* command, an operation and an address, bit by bit.  A write takes effect  *)
(* at once with the last bit of its word; a read answers with the stored    *)
(* word, most significant bit first.                                        *)
EXTENDS Naturals, Sequences

CONSTANTS
    OpBits, AddrBits, DataBits, READ, WRITE,
    ResetImage(_)   \* the words after a reset, from those before

VARIABLES
    words,   \* the stored words, by address
    cmd,     \* the bits clocked in of the command that is under way
    sent,    \* how many bits of the answer have gone out
    do,      \* the data line to the guest
    fresh    \* no bit has been clocked in or out since the last reset

vars == <<words, cmd, sent, do, fresh>>

Bit == {0, 1}
Word == [1 .. DataBits -> Bit]
Addr == [1 .. AddrBits -> Bit]

OpOf(c) == [i \in 1 .. OpBits |-> c[i]]
AddrOf(c) == [i \in 1 .. AddrBits |-> c[OpBits + i]]
WordOf(c) == [i \in 1 .. DataBits |-> c[OpBits + AddrBits + i]]

Decoded(c) == Len(c) >= OpBits + AddrBits
Reading == Decoded(cmd) /\ OpOf(cmd) = READ

Init ==
    /\ words \in [Addr -> Word]
    /\ cmd = <<>> /\ sent = 0 /\ do = 0 /\ fresh = TRUE

(* A bit that leaves the command incomplete.                                *)
More(b) ==
    LET c == Append(cmd, b) IN
    /\ ~ Reading
    /\ \/ ~ Decoded(c)
       \/ OpOf(c) = READ
       \/ OpOf(c) = WRITE /\ Len(c) < OpBits + AddrBits + DataBits
    /\ cmd' = c
    /\ fresh' = FALSE
    /\ UNCHANGED <<words, sent, do>>

Store(b) ==
    LET c == Append(cmd, b) IN
    /\ Decoded(c) /\ OpOf(c) = WRITE /\ Len(c) = OpBits + AddrBits + DataBits
    /\ words' = [words EXCEPT ![AddrOf(c)] = WordOf(c)]
    /\ cmd' = <<>>
    /\ fresh' = FALSE
    /\ UNCHANGED <<sent, do>>

(* Any other command does nothing.                                          *)
Ignore(b) ==
    LET c == Append(cmd, b) IN
    /\ ~ Reading
    /\ Decoded(c) /\ OpOf(c) \notin {READ, WRITE}
    /\ cmd' = <<>>
    /\ fresh' = FALSE
    /\ UNCHANGED <<words, sent, do>>

Answer ==
    /\ Reading
    /\ do' = words[AddrOf(cmd)][sent + 1]
    /\ IF sent + 1 = DataBits
         THEN cmd' = <<>> /\ sent' = 0
         ELSE sent' = sent + 1 /\ UNCHANGED cmd
    /\ fresh' = FALSE
    /\ UNCHANGED words

(* A reset of the device gives up the command and restores the image.  No   *)
(* bit passes for one: fresh tells them apart.                              *)
Reset ==
    /\ words' = ResetImage(words)
    /\ cmd' = <<>> /\ sent' = 0 /\ do' = 0
    /\ fresh' = TRUE

Next ==
    \/ \E b \in Bit : More(b) \/ Store(b) \/ Ignore(b)
    \/ Answer
    \/ Reset

Spec == Init /\ [][Next]_vars
===============================================================================
