----------------------------- MODULE AntiReplay -----------------------------
(***************************************************************************)
(* What a replay window promises, without saying how it remembers: of the  *)
(* sequence numbers offered to it in any order and any number of times, it *)
(* lets each pass at most once, refuses none that is newer than all it has *)
(* passed, and below that refuses exactly the ones it passed before and    *)
(* those `Size' or more behind the newest.                                 *)
(***************************************************************************)
EXTENDS Integers

CONSTANTS
    Size,   \* how far behind the newest a number may arrive
    MinSeq, \* the first and the last sequence number
    MaxSeq

Seq64 == MinSeq..MaxSeq

VARIABLES
    passed,  \* the numbers passed since the window was last cleared
    last     \* the last number offered and whether it passed

InReach(s) == \A t \in passed : t - s < Size

Offer(s) ==
    LET ok == s \notin passed /\ InReach(s)
    IN  /\ passed' = IF ok THEN passed \cup {s} ELSE passed
        /\ last' = [seq |-> s, ok |-> ok]

\* The epoch is retired and its numbers may be used again
Clear ==
    /\ passed' = {}
    /\ UNCHANGED last

Init == passed = {} /\ last = [seq |-> 0, ok |-> FALSE]

Next == Clear \/ \E s \in Seq64 : Offer(s)

Spec == Init /\ [][Next]_<<passed, last>>
=============================================================================
