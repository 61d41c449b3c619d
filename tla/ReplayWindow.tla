---------------------------- MODULE ReplayWindow ----------------------------
(***************************************************************************)
(* ReplayWindow256 (secure.rs): the newest sequence number and a bitmap,   *)
(* kept as an array of bytes, whose bit d says that the number d below the *)
(* newest was accepted.  The array is shifted by whole bytes and then by   *)
(* bits with a carry.  The code has 32 bytes of 8 bits; both are           *)
(* parameters here, a byte is a number below 2^Bits, and the conversions   *)
(* to usize, 32 bits wide in wasm32, are kept.  Each epoch has a window of *)
(* its own, and the sequence goes on from one epoch to the next: the       *)
(* numbers of an epoch begin anywhere, but span less than 2^32, as both    *)
(* sides rotate after ROTATE_AFTER_PACKETS.                                *)
(***************************************************************************)
EXTENDS Integers

CONSTANTS
    Bytes,       \* bitmap.len()
    Bits,        \* bits of a byte
    UsizeWidth,  \* bits of usize
    MinSeq,      \* the first and the last number of the epoch (u64 in the code)
    MaxSeq

ASSUME WindowAssumption ==
    /\ Bytes \in Nat \ {0} /\ Bits \in Nat \ {0}
    /\ UsizeWidth \in Nat
    /\ MinSeq \in Nat /\ MaxSeq \in Nat /\ MaxSeq - MinSeq < 2^UsizeWidth

Window == Bytes * Bits
Index  == 0..(Bytes - 1)
Byte   == 0..(2^Bits - 1)
Seq64  == MinSeq..MaxSeq

\* the conversion `as usize'
Usize(n) == n % 2^UsizeWidth

VARIABLES
    max_seq, bitmap, valid,  \* the fields of ReplayWindow256
    last,                    \* argument and result of the last accept
    passed                   \* history: the numbers accepted since the last clear

vars == <<max_seq, bitmap, valid, last, passed>>

Zero == [i \in Index |-> 0]

test_bit(bm, idx) == (bm[idx \div Bits] \div 2^(idx % Bits)) % 2 = 1

set_bit(bm, idx) ==
    IF test_bit(bm, idx) THEN bm ELSE [bm EXCEPT ![idx \div Bits] = @ + 2^(idx % Bits)]

\* Mutant: the bytes are copied in ascending order, over the ones still needed
shift_right_Ascending(bm, shift) ==
    LET bitShift == shift % Bits
        moved == IF shift \div Bits > 0 THEN Zero ELSE bm
    IN  IF shift >= Window THEN Zero
        ELSE [i \in Index |-> ((moved[i] * 2^bitShift) % 2^Bits)
                              + (IF i = 0 THEN 0 ELSE moved[i - 1] \div 2^(Bits - bitShift))]

\* shift_right: towards higher indices, first whole bytes and then bits
shift_right(bm, shift) ==
    LET byteShift == shift \div Bits
        bitShift  == shift % Bits
        moved     == [i \in Index |-> IF i >= byteShift THEN bm[i - byteShift] ELSE 0]
        carry(i)  == IF i = 0 THEN 0 ELSE moved[i - 1] \div 2^(Bits - bitShift)
    IN  IF shift >= Window THEN Zero
        ELSE [i \in Index |-> ((moved[i] * 2^bitShift) % 2^Bits) + carry(i)]

can_accept(seq) ==
    \/ ~valid \/ seq > max_seq
    \/ LET delta == Usize(max_seq - seq)
       IN  delta < Window /\ ~test_bit(bitmap, delta)

AcceptFirst(seq) ==
    /\ ~valid
    /\ valid' = TRUE
    /\ max_seq' = seq
    /\ bitmap' = set_bit(bitmap, 0)
    /\ last' = [seq |-> seq, ok |-> TRUE]
    /\ passed' = passed \cup {seq}

AcceptNewer(seq) ==
    /\ valid /\ seq > max_seq
    /\ bitmap' = set_bit(shift_right(bitmap, Usize(seq - max_seq)), 0)
    /\ max_seq' = seq
    /\ last' = [seq |-> seq, ok |-> TRUE]
    /\ passed' = passed \cup {seq}
    /\ UNCHANGED valid

\* Mutant: a late number is only checked against the size of the window
AcceptOlder_Twice(seq) ==
    LET delta == Usize(max_seq - seq)
        fresh == delta < Window /\ ~test_bit(bitmap, delta)
    IN  /\ valid /\ seq <= max_seq
        /\ bitmap' = IF fresh THEN set_bit(bitmap, delta) ELSE bitmap
        /\ last' = [seq |-> seq, ok |-> delta < Window]
        /\ passed' = IF fresh THEN passed \cup {seq} ELSE passed
        /\ UNCHANGED <<max_seq, valid>>

AcceptOlder(seq) ==
    LET delta == Usize(max_seq - seq)
        ok    == delta < Window /\ ~test_bit(bitmap, delta)
    IN  /\ valid /\ seq <= max_seq
        /\ bitmap' = IF ok THEN set_bit(bitmap, delta) ELSE bitmap
        /\ last' = [seq |-> seq, ok |-> ok]
        /\ passed' = IF ok THEN passed \cup {seq} ELSE passed
        /\ UNCHANGED <<max_seq, valid>>

clear ==
    /\ max_seq' = 0
    /\ bitmap' = Zero
    /\ valid' = FALSE
    /\ passed' = {}
    /\ UNCHANGED last

Init ==
    /\ max_seq = 0 /\ bitmap = Zero /\ valid = FALSE
    /\ last = [seq |-> 0, ok |-> FALSE]
    /\ passed = {}

Next ==
    \/ clear
    \/ \E seq \in Seq64 : AcceptFirst(seq) \/ AcceptNewer(seq) \/ AcceptOlder(seq)

Spec == Init /\ [][Next]_vars

-----------------------------------------------------------------------------
\* precheck_replay asks can_accept before the packet is authenticated and
\* commit_replay calls accept after it: the two agree with what was passed.
CanAcceptExact ==
    \A s \in Seq64 :
        can_accept(s) <=> s \notin passed /\ \A t \in passed : t - s < Window

\* The window implements AntiReplay: no number passes twice.
Abstract == INSTANCE AntiReplay WITH Size <- Window
Implements == Abstract!Spec
=============================================================================
