---------------------------- MODULE MCRouteSync ----------------------------
(* Instances of RouteSync for TLC.  A run explores the behaviours of every  *)
(* budget of its set: each budget lets another part of the environment act, *)
(* where all of them at once would be out of reach.                         *)
EXTENDS RouteSync, TLC

Limit(inst, sess, ver, row, ticks, top) ==
    [inst |-> inst, sess |-> sess, ver |-> ver, row |-> row, ticks |-> ticks, topo |-> top]

\* Two clients that learn of each other, leave, are restarted and return
Restarts == Limit(1, 0, 0, 0, 0, 7)

\* The same without restarts, but with new versions of known infos, or with a
\* decision of the clock; then rows, sessions and the clock while a room forms
SafetyBudgets ==
    {Restarts, Limit(0, 0, 1, 0, 0, 6), Limit(0, 0, 0, 0, 1, 4), Limit(0, 1, 0, 2, 0, 3),
     Limit(0, 1, 0, 1, 1, 3), Limit(0, 0, 0, 2, 1, 3)}

\* Two clients of which one learns the info of the other and its new version; a new
\* session; a row that is stored; a decision of the clock
LiveBudgets ==
    {Limit(0, 0, 1, 0, 0, 4), Limit(0, 1, 0, 0, 0, 2), Limit(0, 0, 0, 1, 0, 3),
     Limit(0, 0, 0, 0, 1, 2)}

StaleAckBudgets == {Restarts}
GhostBudgets    == {Limit(0, 0, 0, 0, 1, 4)}

\* Peers with the same capabilities are interchangeable
Symmetry == Permutations(Peer)
=============================================================================
