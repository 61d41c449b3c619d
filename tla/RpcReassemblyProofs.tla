------------------------- MODULE RpcReassemblyProofs -------------------------
(***************************************************************************)
(* The accounting of the RPC fragments, for every number of peers and      *)
(* transactions and for all limits: the counters are what the entries      *)
(* hold, an entry is what its pieces are, and a packet has all its pieces  *)
(* from one connection.                                                    *)
(*                                                                         *)
(* The sums over a table are folds, so the first part shows what a sum of  *)
(* naturals does when its function changes at some points: it is the size  *)
(* of a set (SumUnits), and the library has the theorems about those.      *)
(***************************************************************************)
EXTENDS RpcReassembly, Integers, FiniteSetTheorems, TLAPS

\* A set of subsets of a finite set has a minimal element.
LEMMA MinimalSubset ==
    ASSUME NEW S, IsFiniteSet(S), NEW P \in SUBSET SUBSET S, P # {}
    PROVE  \E s \in P : \A x \in s : s \ {x} \notin P
<1>1. IsWellFoundedOn(StrictSubsetOrdering(S), FiniteSubsetsOf(S))
  BY FS_StrictSubsetOrderingWellFounded
<1>2. P \subseteq FiniteSubsetsOf(S)
  BY FS_Subset DEF FiniteSubsetsOf
<1>3. \E s \in P : \A t \in P : ~(<<t, s>> \in StrictSubsetOrdering(S))
  BY <1>1, <1>2, WFMin
<1>4. PICK s \in P : \A t \in P : ~(<<t, s>> \in StrictSubsetOrdering(S))
  BY <1>3
<1>5. ASSUME NEW x \in s, s \ {x} \in P
      PROVE  FALSE
  <2>1. <<s \ {x}, s>> \in StrictSubsetOrdering(S)
    BY DEF StrictSubsetOrdering
  <2> QED
    BY <1>4, <1>5, <2>1
<1> QED
  BY <1>4, <1>5

\* g[x] units for each x of S: a set whose size is the sum of g over S
Units(g, S) == {u \in S \X Nat : u[2] \in 1..g[u[1]]}

Counts(g, S) == IsFiniteSet(S) /\ \A x \in S : g[x] \in Nat

\* A singleton has as many units as its number.
LEMMA UnitsOfOne ==
    ASSUME NEW g, NEW x, g[x] \in Nat
    PROVE  IsFiniteSet(Units(g, {x})) /\ Cardinality(Units(g, {x})) = g[x]
<1>1. Units(g, {x}) = {x} \X (1..g[x])
  BY DEF Units
<1>2. IsFiniteSet({x}) /\ Cardinality({x}) = 1 /\ IsFiniteSet(1..g[x]) /\ Cardinality(1..g[x]) = g[x]
  <2>1. IsFiniteSet({x}) /\ Cardinality({x}) = 1
    BY FS_Singleton
  <2>2. IsFiniteSet(1..g[x]) /\ Cardinality(1..g[x]) = IF 1 > g[x] THEN 0 ELSE g[x] - 1 + 1
    BY FS_Interval
  <2> QED
    BY <2>1, <2>2
<1>3. Cardinality({x} \X (1..g[x])) = 1 * g[x] /\ IsFiniteSet({x} \X (1..g[x]))
  BY <1>2, FS_Product
<1>4. 1 * g[x] = g[x]
  OBVIOUS
<1> QED
  BY <1>1, <1>3, <1>4, Zenon

\* A finite set has finitely many.
LEMMA UnitsFinite ==
    ASSUME NEW g, NEW S, Counts(g, S)
    PROVE  IsFiniteSet(Units(g, S)) /\ Cardinality(Units(g, S)) \in Nat
<1> DEFINE P == {s \in SUBSET S : ~IsFiniteSet(Units(g, s))}
<1>1. ASSUME P # {} PROVE FALSE
  <2>1. IsFiniteSet(S) /\ P \in SUBSET SUBSET S
    BY DEF Counts
  <2>2. PICK s \in P : \A x \in s : s \ {x} \notin P
    <3> HIDE DEF P
    <3> QED
      BY <1>1, <2>1, MinimalSubset
  <2>3. CASE s = {}
    <3>1. Units(g, s) = {}
      BY <2>3 DEF Units
    <3> QED
      BY <2>2, <3>1, FS_EmptySet
  <2>4. CASE s # {}
    <3>1. PICK x : x \in s
      BY <2>4
    <3>2. IsFiniteSet(Units(g, s \ {x}))
      BY <2>2, <3>1
    <3>3. IsFiniteSet(Units(g, {x}))
      BY <3>1, <2>2, UnitsOfOne DEF Counts
    <3>4. Units(g, s) = Units(g, s \ {x}) \cup Units(g, {x})
      BY <3>1 DEF Units
    <3>5. IsFiniteSet(Units(g, s \ {x}) \cup Units(g, {x}))
      BY <3>2, <3>3, FS_Union
    <3>6. ~IsFiniteSet(Units(g, s))
      BY <2>2
    <3> QED
      BY <3>4, <3>5, <3>6, Zenon
  <2> QED
    BY <2>3, <2>4
<1>2. S \notin P
  BY <1>1
<1> QED
  BY <1>2, FS_CardinalityType

\* Disjoint sets have their units apart.
LEMMA UnitsUnion ==
    ASSUME NEW g, NEW S, NEW T, Counts(g, S), Counts(g, T), S \cap T = {}
    PROVE  Cardinality(Units(g, S \cup T)) = Cardinality(Units(g, S)) + Cardinality(Units(g, T))
<1>1. Units(g, S \cup T) = Units(g, S) \cup Units(g, T)
  BY DEF Units
<1>2. Units(g, S) \cap Units(g, T) = {}
  BY DEF Units
<1>3. Cardinality(Units(g, S) \cap Units(g, T)) = 0
  BY <1>2, FS_EmptySet
<1>4. IsFiniteSet(Units(g, S)) /\ IsFiniteSet(Units(g, T))
      /\ Cardinality(Units(g, S)) \in Nat /\ Cardinality(Units(g, T)) \in Nat
  BY UnitsFinite
<1>5. Cardinality(Units(g, S) \cup Units(g, T)) =
         Cardinality(Units(g, S)) + Cardinality(Units(g, T)) - Cardinality(Units(g, S) \cap Units(g, T))
  BY <1>4, FS_Union
<1>6. Cardinality(Units(g, S) \cup Units(g, T)) = Cardinality(Units(g, S)) + Cardinality(Units(g, T))
  BY <1>3, <1>4, <1>5
<1> QED
  BY <1>1, <1>6, Zenon

\* The recursive function that SumFunctionOnSet chooses
IsIter(g, S, f) ==
    f = [s \in SUBSET S |-> IF s = {} THEN 0
                            ELSE LET x == CHOOSE x \in s : TRUE IN g[x] + f[s \ {x}]]

Iter(g, S) ==
    CHOOSE f : f = [s \in SUBSET S |-> IF s = {} THEN 0
                            ELSE LET x == CHOOSE x \in s : TRUE IN g[x] + f[s \ {x}]]

\* The sum is that function at the whole set.
LEMMA SumIter ==
    ASSUME NEW g, NEW S
    PROVE  SumFunctionOnSet(g, S) = Iter(g, S)[S]
  BY Zenon DEF SumFunctionOnSet, FoldFunctionOnSet, MapThenFoldSet, Iter

\* What its recursion says at one subset.
LEMMA IterStep ==
    ASSUME NEW g, NEW S, NEW f, IsIter(g, S, f), NEW s \in SUBSET S
    PROVE  /\ s = {} => f[s] = 0
           /\ s # {} => \E x \in s : f[s] = g[x] + f[s \ {x}]
<1> DEFINE x == CHOOSE x \in s : TRUE
           h == [t \in SUBSET S |-> IF t = {} THEN 0
                            ELSE LET y == CHOOSE y \in t : TRUE IN g[y] + f[t \ {y}]]
<1>1. f = h
  BY Zenon DEF IsIter
<1>2. h[s] = IF s = {} THEN 0 ELSE g[x] + f[s \ {x}]
  OBVIOUS
<1>3. s # {} => x \in s
  OBVIOUS
<1> HIDE DEF x, h
<1> QED
  BY <1>1, <1>2, <1>3

\* A sum of naturals is the number of its units.
LEMMA SumUnits ==
    ASSUME NEW g, NEW S, Counts(g, S)
    PROVE  SumFunctionOnSet(g, S) = Cardinality(Units(g, S))
<1> DEFINE c == [s \in SUBSET S |-> Cardinality(Units(g, s))]
           it == Iter(g, S)
<1>1. ASSUME NEW s \in SUBSET S, NEW x \in s
      PROVE  c[s] = g[x] + c[s \ {x}]
  <2>1. Counts(g, s \ {x}) /\ Counts(g, {x}) /\ s = (s \ {x}) \cup {x} /\ (s \ {x}) \cap {x} = {}
    BY FS_Subset, FS_Singleton DEF Counts
  <2>2. Cardinality(Units(g, s)) = Cardinality(Units(g, s \ {x})) + Cardinality(Units(g, {x}))
    BY <2>1, UnitsUnion
  <2>3. Cardinality(Units(g, {x})) = g[x] /\ g[x] \in Nat /\ Cardinality(Units(g, s \ {x})) \in Nat
    BY <2>1, UnitsOfOne, UnitsFinite DEF Counts
  <2> QED
    BY <2>2, <2>3
<1>2. c[{}] = 0
  <2>1. Units(g, {}) = {}
    BY DEF Units
  <2> QED
    BY <2>1, FS_EmptySet
<1>3. IsIter(g, S, c)
  <2> DEFINE h == [s \in SUBSET S |-> IF s = {} THEN 0
                            ELSE LET x == CHOOSE x \in s : TRUE IN g[x] + c[s \ {x}]]
  <2>1. \A s \in SUBSET S : c[s] = h[s]
    <3> TAKE s \in SUBSET S
    <3> DEFINE x == CHOOSE x \in s : TRUE
    <3>1. h[s] = IF s = {} THEN 0 ELSE g[x] + c[s \ {x}]
      OBVIOUS
    <3>2. s # {} => x \in s
      OBVIOUS
    <3> HIDE DEF x, h, c
    <3> QED
      BY <1>1, <1>2, <3>1, <3>2
  <2>2. c = h
    <3>1. c = [s \in SUBSET S |-> c[s]] /\ h = [s \in SUBSET S |-> h[s]]
      OBVIOUS
    <3> HIDE DEF c, h
    <3> QED
      BY <2>1, <3>1
  <2> HIDE DEF c
  <2> QED
    BY <2>2, Zenon DEF IsIter
<1> HIDE DEF c
<1>4. IsIter(g, S, it)
  BY <1>3, Zenon DEF IsIter, Iter
<1> HIDE DEF it
<1> DEFINE P == {s \in SUBSET S : it[s] # c[s]}
<1>5. ASSUME P # {} PROVE FALSE
  <2>1. IsFiniteSet(S) /\ P \in SUBSET SUBSET S
    BY DEF Counts
  <2>2. PICK s \in P : \A x \in s : s \ {x} \notin P
    <3> HIDE DEF P
    <3> QED
      BY <1>5, <2>1, MinimalSubset
  <2>3. CASE s = {}
    BY <1>2, <1>4, <2>2, <2>3, IterStep
  <2>4. CASE s # {}
    <3>1. PICK x \in s : it[s] = g[x] + it[s \ {x}]
      BY <1>4, <2>2, <2>4, IterStep
    <3>2. it[s \ {x}] = c[s \ {x}]
      BY <2>2
    <3> QED
      BY <1>1, <2>2, <3>1, <3>2
  <2> QED
    BY <2>3, <2>4
<1>6. it[S] = c[S]
  BY <1>5
<1> QED
  BY <1>6, SumIter DEF c, it

-----------------------------------------------------------------------------
(* What a sum does when its function changes *)

\* A sum of naturals is a natural number.
LEMMA SumNat ==
    ASSUME NEW g, NEW S, Counts(g, S)
    PROVE  SumFunctionOnSet(g, S) \in Nat
  BY SumUnits, UnitsFinite

\* Functions that agree on the set have the same sum.
LEMMA SumSame ==
    ASSUME NEW g, NEW h, NEW S, Counts(g, S), \A x \in S : h[x] = g[x]
    PROVE  SumFunctionOnSet(h, S) = SumFunctionOnSet(g, S)
<1>1. Counts(h, S)
  BY DEF Counts
<1>2. Units(h, S) = Units(g, S)
  BY DEF Units
<1>3. SumFunctionOnSet(h, S) = Cardinality(Units(h, S)) /\ SumFunctionOnSet(g, S) = Cardinality(Units(g, S))
  BY <1>1, SumUnits
<1> QED
  BY <1>2, <1>3, Zenon

\* Nothing adds up to nothing.
LEMMA SumZero ==
    ASSUME NEW g, NEW S, IsFiniteSet(S), \A x \in S : g[x] = 0
    PROVE  SumFunctionOnSet(g, S) = 0
<1>1. Counts(g, S)
  BY DEF Counts
<1>2. Units(g, S) = {}
  BY DEF Units
<1>3. SumFunctionOnSet(g, S) = Cardinality(Units(g, S))
  BY <1>1, SumUnits
<1>4. Cardinality({}) = 0
  BY FS_EmptySet
<1> QED
  BY <1>2, <1>3, <1>4, Zenon

\* A sum splits over a subset and the rest.
LEMMA SumSplit ==
    ASSUME NEW g, NEW S, NEW T, Counts(g, S), T \subseteq S
    PROVE  /\ Counts(g, T) /\ Counts(g, S \ T)
           /\ SumFunctionOnSet(g, S) = SumFunctionOnSet(g, T) + SumFunctionOnSet(g, S \ T)
<1> DEFINE R == S \ T
<1>1. Counts(g, T) /\ Counts(g, R) /\ T \cap R = {} /\ S = T \cup R
  BY FS_Subset DEF Counts
<1> HIDE DEF R
<1>2. Cardinality(Units(g, T \cup R)) = Cardinality(Units(g, T)) + Cardinality(Units(g, R))
  BY <1>1, UnitsUnion
<1>3. Cardinality(Units(g, S)) = Cardinality(Units(g, T)) + Cardinality(Units(g, R))
  BY <1>1, <1>2, Zenon
<1>4. /\ SumFunctionOnSet(g, S) = Cardinality(Units(g, S))
      /\ SumFunctionOnSet(g, T) = Cardinality(Units(g, T))
      /\ SumFunctionOnSet(g, R) = Cardinality(Units(g, R))
  BY <1>1, SumUnits
<1>5. SumFunctionOnSet(g, S) = SumFunctionOnSet(g, T) + SumFunctionOnSet(g, R)
  BY <1>3, <1>4
<1> QED
  BY <1>1, <1>5 DEF R

\* Setting a function to 0 on a subset takes the sum of the subset away, and
\* nothing saturates.
LEMMA SumRemoved ==
    ASSUME NEW g, NEW h, NEW S, NEW T, Counts(g, S), T \subseteq S,
           \A x \in T : h[x] = 0, \A x \in S \ T : h[x] = g[x]
    PROVE  /\ SumFunctionOnSet(h, S) = SaturatingSub(SumFunctionOnSet(g, S), SumFunctionOnSet(g, T))
           /\ SumFunctionOnSet(h, S) <= SumFunctionOnSet(g, S)
<1> DEFINE R == S \ T
<1>1. /\ Counts(g, T) /\ Counts(g, R)
      /\ SumFunctionOnSet(g, S) = SumFunctionOnSet(g, T) + SumFunctionOnSet(g, R)
  BY SumSplit
<1>2. Counts(h, S)
  BY DEF Counts
<1>3. SumFunctionOnSet(h, S) = SumFunctionOnSet(h, T) + SumFunctionOnSet(h, R)
  BY <1>2, SumSplit
<1>4. SumFunctionOnSet(h, T) = 0
  BY <1>1, SumZero DEF Counts
<1>5. SumFunctionOnSet(h, R) = SumFunctionOnSet(g, R)
  <2>1. \A x \in R : h[x] = g[x]
    OBVIOUS
  <2> HIDE DEF R
  <2> QED
    BY <1>1, <2>1, SumSame
<1>6. SumFunctionOnSet(g, T) \in Nat /\ SumFunctionOnSet(g, R) \in Nat
  BY <1>1, SumNat
<1> HIDE DEF R
<1> QED
  BY <1>1, <1>3, <1>4, <1>5, <1>6 DEF SaturatingSub

\* Changing a function at one point changes the sum by as much.
LEMMA SumReplaced ==
    ASSUME NEW g, NEW h, NEW S, NEW x, Counts(g, S), x \in S, h[x] \in Nat,
           \A y \in S \ {x} : h[y] = g[y]
    PROVE  /\ g[x] <= SumFunctionOnSet(g, S)
           /\ SumFunctionOnSet(h, S) = (SumFunctionOnSet(g, S) - g[x]) + h[x]
<1> DEFINE T == {x}
           R == S \ T
<1>1. Counts(h, S) /\ T \subseteq S /\ Counts(g, T) /\ Counts(h, T)
  BY FS_Singleton DEF Counts
<1>2. \A y \in R : h[y] = g[y]
  OBVIOUS
<1>3. SumFunctionOnSet(g, T) = g[x] /\ SumFunctionOnSet(h, T) = h[x]
  <2>1. Cardinality(Units(g, T)) = g[x] /\ Cardinality(Units(h, T)) = h[x]
    BY UnitsOfOne DEF Counts
  <2> HIDE DEF T
  <2> QED
    BY <1>1, <2>1, SumUnits
<1> HIDE DEF T
<1>4. /\ Counts(g, R) /\ SumFunctionOnSet(g, S) = SumFunctionOnSet(g, T) + SumFunctionOnSet(g, R)
      /\ Counts(h, R) /\ SumFunctionOnSet(h, S) = SumFunctionOnSet(h, T) + SumFunctionOnSet(h, R)
  BY <1>1, SumSplit
<1> HIDE DEF R
<1>5. SumFunctionOnSet(h, R) = SumFunctionOnSet(g, R) /\ SumFunctionOnSet(g, R) \in Nat
  BY <1>2, <1>4, SumSame, SumNat
<1>6. g[x] \in Nat
  BY DEF Counts
<1> QED
  BY <1>3, <1>4, <1>5, <1>6

-----------------------------------------------------------------------------
(* The inductive invariant *)

Piece == [len : Nat, inst : Nat, total : Nat]

Entry == [total : Nat, pieces : [Pieces -> Piece], first : BOOLEAN,
          received : Nat, bytes : Nat, expired : BOOLEAN]

\* The fields of an entry describe its pieces, and all of those came over
\* connection c
Sound(e, c) ==
    /\ c # 0
    /\ e.total \in 2..MaxRpcPieces
    /\ e.received = Cardinality(Held(e))
    /\ e.bytes = HeldBytes(e)
    /\ e.first <=> 0 \in Held(e)
    /\ \A i \in Held(e) : /\ i < e.total
                          /\ e.pieces[i].inst = c
                          /\ e.pieces[i].total = e.total

\* The keys p has entries for
KeysOf(t, p) == {k \in PendingKeys(t) : k[1] = p}

\* A table while the peers have the connections cs: the entries are sound, the
\* counters are their sums, and the limits hold
TableInv(t, cs) ==
    /\ t = Table(t.entries, t.bytes, t.pieces)
    /\ t.entries \in [Key -> Entry]
    /\ \A k \in PendingKeys(t) : Sound(t.entries[k], cs[k[1]])
    /\ t.bytes = SumFunctionOnSet(BytesOf(t), Key)
    /\ t.pieces = SumFunctionOnSet(PiecesOf(t), Key)
    /\ t.bytes <= MaxPendingBytes /\ t.pieces <= MaxPendingPieces
    /\ \A p \in Peer : Cardinality(KeysOf(t, p)) <= MaxPendingTransactionsPerPeer

\* No packet that is complete stays in the table
Incomplete(t) == \A k \in PendingKeys(t) : t.entries[k].received < t.entries[k].total

TypeOK == conn \in [Peer -> Nat] /\ insts \in [Peer -> Nat]

Inv ==
    /\ TypeOK
    /\ TableInv(Current, conn)
    /\ Incomplete(Current)
    /\ PacketOfOneConnection

-----------------------------------------------------------------------------
(* Operations on a table *)

\* The keys and the piece numbers are finitely many.
LEMMA Finite == IsFiniteSet(Key) /\ IsFiniteSet(Pieces)
<1>1. IsFiniteSet(Tx)
  BY ReassemblyAssumption, FS_Union DEF Tx
<1>2. IsFiniteSet(Key)
  BY <1>1, ReassemblyAssumption, FS_Product DEF Key
<1>3. IsFiniteSet(Pieces)
  BY ReassemblyAssumption, FS_Interval DEF Pieces
<1> QED
  BY <1>2, <1>3

\* The absent entry is an entry, and it accounts for nothing.
LEMMA NoEntryFacts ==
    /\ NoEntry \in Entry /\ NoEntry.total = 0 /\ NoEntry.bytes = 0 /\ NoEntry.received = 0
    /\ NoEntry.pieces = [i \in Pieces |-> NoPiece] /\ NoEntry.first = FALSE
    /\ NoEntry.expired = FALSE
    /\ Held(NoEntry) = {} /\ HeldBytes(NoEntry) = 0
<1>1. NoPiece \in Piece /\ NoPiece.len = 0
  BY DEF NoPiece, Piece
<1>2. NoEntry.pieces = [i \in Pieces |-> NoPiece]
  BY DEF NoEntry
<1>3. Held(NoEntry) = {}
  BY <1>2 DEF Held
<1>4. HeldBytes(NoEntry) = 0
  <2> DEFINE g == [i \in Pieces |-> NoEntry.pieces[i].len]
  <2>1. \A i \in Pieces : g[i] = 0
    BY <1>1, <1>2
  <2> HIDE DEF g
  <2>2. SumFunctionOnSet(g, Pieces) = 0
    BY <2>1, Finite, SumZero
  <2> QED
    BY <2>2 DEF HeldBytes, g
<1>5. NoEntry \in Entry
  BY <1>1 DEF NoEntry, Entry
<1> QED
  BY <1>2, <1>3, <1>4, <1>5 DEF NoEntry

\* What the entries of a table account for are natural numbers.
LEMMA TableCounts ==
    ASSUME NEW t, t.entries \in [Key -> Entry]
    PROVE  Counts(BytesOf(t), Key) /\ Counts(PiecesOf(t), Key)
  BY Finite DEF Counts, BytesOf, PiecesOf, Entry

\* remove_pending and clean_pending keep the table sound, whatever they remove,
\* and leave exactly the other entries.
LEMMA RemovePendingInv ==
    ASSUME NEW t, NEW cs, NEW ks, TableInv(t, cs), ks \subseteq Key
    PROVE  /\ TableInv(RemovePending(t, ks), cs)
           /\ PendingKeys(RemovePending(t, ks)) = PendingKeys(t) \ ks
           /\ \A k \in Key \ ks : RemovePending(t, ks).entries[k] = t.entries[k]
<1> DEFINE r == RemovePending(t, ks)
           es == [k \in Key |-> IF k \in ks THEN NoEntry ELSE t.entries[k]]
<1>1. /\ r.entries = es
      /\ r.bytes = SaturatingSub(t.bytes, SumFunctionOnSet(BytesOf(t), ks))
      /\ r.pieces = SaturatingSub(t.pieces, SumFunctionOnSet(PiecesOf(t), ks))
      /\ r = Table(r.entries, r.bytes, r.pieces)
  BY DEF RemovePending, Table
<1>2. t.entries \in [Key -> Entry]
  BY DEF TableInv
<1>3. /\ \A k \in ks : r.entries[k] = NoEntry
      /\ \A k \in Key \ ks : r.entries[k] = t.entries[k]
      /\ r.entries \in [Key -> Entry]
  BY <1>1, <1>2, NoEntryFacts
<1> HIDE DEF r, es
<1>4. PendingKeys(r) = PendingKeys(t) \ ks
  BY <1>3 DEF PendingKeys
<1>5. /\ \A k \in ks : BytesOf(r)[k] = 0 /\ PiecesOf(r)[k] = 0
      /\ \A k \in Key \ ks : BytesOf(r)[k] = BytesOf(t)[k] /\ PiecesOf(r)[k] = PiecesOf(t)[k]
  BY <1>3, NoEntryFacts DEF BytesOf, PiecesOf
<1>6. Counts(BytesOf(t), Key) /\ Counts(PiecesOf(t), Key)
      /\ Counts(BytesOf(r), Key) /\ Counts(PiecesOf(r), Key)
  BY <1>2, <1>3, TableCounts
<1>7. /\ SumFunctionOnSet(BytesOf(r), Key)
           = SaturatingSub(SumFunctionOnSet(BytesOf(t), Key), SumFunctionOnSet(BytesOf(t), ks))
      /\ SumFunctionOnSet(BytesOf(r), Key) <= SumFunctionOnSet(BytesOf(t), Key)
  BY <1>5, <1>6, SumRemoved
<1>8. /\ SumFunctionOnSet(PiecesOf(r), Key)
           = SaturatingSub(SumFunctionOnSet(PiecesOf(t), Key), SumFunctionOnSet(PiecesOf(t), ks))
      /\ SumFunctionOnSet(PiecesOf(r), Key) <= SumFunctionOnSet(PiecesOf(t), Key)
  BY <1>5, <1>6, SumRemoved
<1>9. /\ SumFunctionOnSet(BytesOf(r), Key) \in Nat /\ SumFunctionOnSet(PiecesOf(r), Key) \in Nat
      /\ SumFunctionOnSet(BytesOf(t), Key) \in Nat /\ SumFunctionOnSet(PiecesOf(t), Key) \in Nat
  BY <1>6, SumNat
<1>10. /\ t.bytes = SumFunctionOnSet(BytesOf(t), Key) /\ t.pieces = SumFunctionOnSet(PiecesOf(t), Key)
       /\ t.bytes <= MaxPendingBytes /\ t.pieces <= MaxPendingPieces
  BY DEF TableInv
<1>11. r.bytes = SumFunctionOnSet(BytesOf(r), Key) /\ r.pieces = SumFunctionOnSet(PiecesOf(r), Key)
  BY <1>1, <1>7, <1>8, <1>10
<1>12. r.bytes <= MaxPendingBytes /\ r.pieces <= MaxPendingPieces
  BY <1>7, <1>8, <1>9, <1>10, <1>11, ReassemblyAssumption
<1>13. \A k \in PendingKeys(r) : Sound(r.entries[k], cs[k[1]])
  <2> TAKE k \in PendingKeys(r)
  <2>1. k \in PendingKeys(t) /\ r.entries[k] = t.entries[k]
    BY <1>3, <1>4 DEF PendingKeys
  <2> QED
    BY <2>1 DEF TableInv
<1>14. ASSUME NEW p \in Peer
       PROVE  Cardinality(KeysOf(r, p)) <= MaxPendingTransactionsPerPeer
  <2>1. KeysOf(r, p) \subseteq KeysOf(t, p) /\ KeysOf(t, p) \subseteq Key
    BY <1>4 DEF KeysOf, PendingKeys
  <2>2. IsFiniteSet(KeysOf(t, p))
    BY <2>1, Finite, FS_Subset
  <2>3. /\ Cardinality(KeysOf(r, p)) <= Cardinality(KeysOf(t, p)) /\ IsFiniteSet(KeysOf(r, p))
    BY <2>1, <2>2, FS_Subset
  <2>4. Cardinality(KeysOf(r, p)) \in Nat /\ Cardinality(KeysOf(t, p)) \in Nat
    BY <2>2, <2>3, FS_CardinalityType
  <2>5. Cardinality(KeysOf(t, p)) <= MaxPendingTransactionsPerPeer
    BY DEF TableInv
  <2> QED
    BY <2>3, <2>4, <2>5, ReassemblyAssumption
<1>15. TableInv(r, cs)
  BY <1>1, <1>3, <1>11, <1>12, <1>13, <1>14 DEF TableInv
<1> QED
  BY <1>3, <1>4, <1>15 DEF r

\* With one more condition on what stays, no complete packet stays.
LEMMA RemovePendingIncomplete ==
    ASSUME NEW t, NEW cs, NEW ks, TableInv(t, cs), ks \subseteq Key,
           \A k \in PendingKeys(t) \ ks : t.entries[k].received < t.entries[k].total
    PROVE  Incomplete(RemovePending(t, ks))
<1> DEFINE r == RemovePending(t, ks)
<1>1. PendingKeys(r) = PendingKeys(t) \ ks /\ \A k \in Key \ ks : r.entries[k] = t.entries[k]
  BY RemovePendingInv
<1> HIDE DEF r
<1>2. Incomplete(r)
  BY <1>1 DEF Incomplete, PendingKeys
<1> QED
  BY <1>2 DEF r

LEMMA CleanPendingInv ==
    ASSUME NEW t, NEW cs, TableInv(t, cs), Incomplete(t)
    PROVE  TableInv(CleanPending(t), cs) /\ Incomplete(CleanPending(t))
<1> DEFINE ks == {k \in Key : t.entries[k].expired}
<1>1. ks \subseteq Key /\ CleanPending(t) = RemovePending(t, ks)
  BY DEF CleanPending
<1> HIDE DEF ks
<1>2. TableInv(RemovePending(t, ks), cs)
  BY <1>1, RemovePendingInv
<1>3. Incomplete(RemovePending(t, ks))
  BY <1>1, RemovePendingIncomplete DEF Incomplete
<1> QED
  BY <1>1, <1>2, <1>3

\* An entry that merge_packet admits is opened within the limits, and nothing
\* else changes.
LEMMA OpenedInv ==
    ASSUME NEW t, NEW cs, NEW k \in Key, NEW total \in 2..MaxRpcPieces,
           TableInv(t, cs), Incomplete(t), cs[k[1]] # 0, Admitted(t, k, total)
    PROVE  /\ TableInv(Opened(t, k, total), cs) /\ Incomplete(Opened(t, k, total))
           /\ k \in PendingKeys(Opened(t, k, total))
           /\ Opened(t, k, total).entries[k].total = total
<1> DEFINE o == Opened(t, k, total)
<1>0. total \in Nat /\ total >= 2 /\ total <= MaxRpcPieces
  BY ReassemblyAssumption
<1>1. CASE k \in PendingKeys(t)
  BY <1>1 DEF Opened, Admitted
<1>2. CASE k \notin PendingKeys(t)
  <2> DEFINE e == [NoEntry EXCEPT !.total = total]
  <2>1. /\ o.entries = [t.entries EXCEPT ![k] = e] /\ o.bytes = t.bytes
        /\ o.pieces = t.pieces + total /\ o = Table(o.entries, o.bytes, o.pieces)
    BY <1>2 DEF Opened, Table
  <2>2. /\ e \in Entry /\ e.total = total /\ e.bytes = 0 /\ e.received = 0
        /\ e.pieces = NoEntry.pieces /\ e.first = FALSE
    BY <1>0, NoEntryFacts DEF Entry, NoEntry
  <2>3. e # NoEntry
    <3> HIDE DEF e
    <3> QED
      BY <1>0, <2>2, NoEntryFacts
  <2>4. Held(e) = {} /\ HeldBytes(e) = 0
    <3>1. e.pieces = NoEntry.pieces
      BY <2>2
    <3>2. Held(e) = Held(NoEntry) /\ HeldBytes(e) = HeldBytes(NoEntry)
      <4> HIDE DEF e
      <4> QED
        BY <3>1, Zenon DEF Held, HeldBytes
    <3> QED
      BY <3>2, NoEntryFacts
  <2> HIDE DEF e, o
  <2>5. Sound(e, cs[k[1]])
    <3>1. Cardinality({}) = 0
      BY FS_EmptySet
    <3>2. Cardinality(Held(e)) = 0
      BY <2>4, <3>1, Zenon
    <3> QED
      BY <2>2, <2>4, <3>2 DEF Sound
  <2>6. t.entries \in [Key -> Entry] /\ t.entries[k] = NoEntry
    BY <1>2 DEF TableInv, PendingKeys
  <2>7. /\ o.entries \in [Key -> Entry] /\ o.entries[k] = e
        /\ \A j \in Key \ {k} : o.entries[j] = t.entries[j]
    BY <2>1, <2>2, <2>6
  <2>8. PendingKeys(o) = PendingKeys(t) \cup {k}
    BY <2>3, <2>7 DEF PendingKeys
  <2>9. Counts(BytesOf(t), Key) /\ Counts(PiecesOf(t), Key)
    BY <2>6, TableCounts
  <2>10. /\ \A j \in Key : BytesOf(o)[j] = BytesOf(t)[j]
         /\ \A j \in Key \ {k} : PiecesOf(o)[j] = PiecesOf(t)[j]
         /\ PiecesOf(t)[k] = 0 /\ PiecesOf(o)[k] = total
    BY <2>2, <2>6, <2>7, NoEntryFacts DEF BytesOf, PiecesOf
  <2>11. SumFunctionOnSet(BytesOf(o), Key) = SumFunctionOnSet(BytesOf(t), Key)
    BY <2>9, <2>10, SumSame
  <2>12. SumFunctionOnSet(PiecesOf(o), Key)
           = (SumFunctionOnSet(PiecesOf(t), Key) - PiecesOf(t)[k]) + PiecesOf(o)[k]
    BY <1>0, <2>9, <2>10, SumReplaced
  <2>13. SumFunctionOnSet(PiecesOf(t), Key) \in Nat
    BY <2>9, SumNat
  <2>14. o.bytes = SumFunctionOnSet(BytesOf(o), Key) /\ o.pieces = SumFunctionOnSet(PiecesOf(o), Key)
    BY <1>0, <2>1, <2>10, <2>11, <2>12, <2>13 DEF TableInv
  <2>15. o.bytes <= MaxPendingBytes /\ o.pieces <= MaxPendingPieces
    BY <1>2, <2>1 DEF TableInv, Admitted
  <2>16. \A j \in PendingKeys(o) : Sound(o.entries[j], cs[j[1]])
    <3> TAKE j \in PendingKeys(o)
    <3>1. CASE j = k
      BY <3>1, <2>5, <2>7
    <3>2. CASE j # k
      <4>1. j \in PendingKeys(t) /\ o.entries[j] = t.entries[j]
        BY <3>2, <2>7, <2>8 DEF PendingKeys
      <4> QED
        BY <4>1 DEF TableInv
    <3> QED
      BY <3>1, <3>2
  <2>17. ASSUME NEW p \in Peer
         PROVE  Cardinality(KeysOf(o, p)) <= MaxPendingTransactionsPerPeer
    <3>1. KeysOf(t, p) \subseteq Key /\ k \notin KeysOf(t, p)
      BY <1>2 DEF KeysOf, PendingKeys
    <3>2. IsFiniteSet(KeysOf(t, p))
      BY <3>1, Finite, FS_Subset
    <3>3. CASE p = k[1]
      <4>1. KeysOf(o, p) = KeysOf(t, p) \cup {k}
        BY <3>3, <2>8 DEF KeysOf
      <4>2. Cardinality(KeysOf(t, p) \cup {k}) = Cardinality(KeysOf(t, p)) + 1
        BY <3>1, <3>2, FS_AddElement
      <4>3. Cardinality(KeysOf(o, p)) = Cardinality(KeysOf(t, p)) + 1
        BY <4>1, <4>2, Zenon
      <4>4. Cardinality(KeysOf(t, p)) \in Nat
        BY <3>2, FS_CardinalityType
      <4>5. Cardinality({j \in PendingKeys(t) : j[1] = k[1]}) < MaxPendingTransactionsPerPeer
        BY <1>2 DEF Admitted
      <4>6. KeysOf(t, p) = {j \in PendingKeys(t) : j[1] = k[1]}
        BY <3>3 DEF KeysOf
      <4>7. Cardinality(KeysOf(t, p)) < MaxPendingTransactionsPerPeer
        BY <4>5, <4>6, Zenon
      <4> QED
        BY <4>3, <4>4, <4>7, ReassemblyAssumption
    <3>4. CASE p # k[1]
      <4>1. KeysOf(o, p) = KeysOf(t, p)
        BY <3>4, <2>8 DEF KeysOf
      <4>2. Cardinality(KeysOf(t, p)) <= MaxPendingTransactionsPerPeer
        BY DEF TableInv
      <4> QED
        BY <4>1, <4>2, Zenon
    <3> QED
      BY <3>3, <3>4
  <2>18. TableInv(o, cs)
    BY <2>1, <2>7, <2>14, <2>15, <2>16, <2>17 DEF TableInv
  <2>19. Incomplete(o)
    BY <1>0, <2>2, <2>7, <2>8 DEF Incomplete, PendingKeys
  <2> QED
    BY <2>2, <2>7, <2>8, <2>18, <2>19 DEF o
<1> QED
  BY <1>1, <1>2

\* A piece of the entry's connection and number of pieces keeps the entry
\* sound, also in place of one that has arrived before; its bytes never
\* saturate.
LEMMA WithPieceSound ==
    ASSUME NEW e, NEW c, NEW idx, NEW pc, e \in Entry, Sound(e, c), pc \in Piece,
           idx \in 0..(e.total - 1), pc.inst = c, pc.total = e.total
    PROVE  /\ WithPiece(e, idx, pc) \in Entry /\ Sound(WithPiece(e, idx, pc), c)
           /\ e.pieces[idx].len \in Nat /\ e.pieces[idx].len <= e.bytes
           /\ WithPiece(e, idx, pc).bytes = (e.bytes - e.pieces[idx].len) + pc.len
           /\ WithPiece(e, idx, pc).total = e.total
           /\ idx \in Pieces
<1> DEFINE w == WithPiece(e, idx, pc)
           old == e.pieces[idx]
           ps == [e.pieces EXCEPT ![idx] = pc]
           g == [i \in Pieces |-> e.pieces[i].len]
           h == [i \in Pieces |-> ps[i].len]
<1>1. /\ e.pieces \in [Pieces -> Piece] /\ e.first \in BOOLEAN /\ e.received \in Nat
      /\ e.bytes \in Nat /\ e.total \in Nat
  BY DEF Entry
<1>2. idx \in Pieces /\ idx \in Nat /\ idx < e.total
  BY <1>1, ReassemblyAssumption DEF Pieces, Sound
<1>3. old \in Piece /\ old.len \in Nat /\ pc.len \in Nat /\ pc # NoPiece
  BY <1>1, <1>2 DEF Piece, NoPiece, Sound
<1>4. /\ ps \in [Pieces -> Piece] /\ ps[idx] = pc
      /\ \A i \in Pieces \ {idx} : ps[i] = e.pieces[i]
  BY <1>1, <1>2
<1>5. /\ w.total = e.total /\ w.pieces = ps /\ w.first = (e.first \/ idx = 0)
      /\ w.received = (IF old = NoPiece THEN e.received + 1 ELSE e.received)
      /\ w.bytes = SaturatingSub(e.bytes, old.len) + pc.len /\ w.expired = FALSE
      /\ w = [total |-> w.total, pieces |-> w.pieces, first |-> w.first,
              received |-> w.received, bytes |-> w.bytes, expired |-> w.expired]
  BY DEF WithPiece
<1>6. /\ Counts(g, Pieces) /\ g[idx] = old.len /\ h[idx] = pc.len
      /\ \A i \in Pieces \ {idx} : h[i] = g[i]
  BY <1>1, <1>2, <1>4, Finite DEF Counts, Piece
<1>7. HeldBytes(e) = SumFunctionOnSet(g, Pieces)
  BY DEF HeldBytes
<1>8. HeldBytes(w) = SumFunctionOnSet(h, Pieces)
  <2>1. [i \in Pieces |-> w.pieces[i].len] = h
    <3> HIDE DEF w
    <3> QED
      BY <1>5
  <2> HIDE DEF h, w
  <2> QED
    BY <2>1, Zenon DEF HeldBytes
<1> HIDE DEF w, old, ps, g, h
<1>9. /\ g[idx] <= SumFunctionOnSet(g, Pieces)
      /\ SumFunctionOnSet(h, Pieces) = (SumFunctionOnSet(g, Pieces) - g[idx]) + h[idx]
  <2>1. Counts(g, Pieces) /\ idx \in Pieces /\ h[idx] \in Nat /\ \A i \in Pieces \ {idx} : h[i] = g[i]
    BY <1>2, <1>3, <1>6
  <2> QED
    BY ONLY <2>1, SumReplaced
<1>10. e.bytes = HeldBytes(e)
  BY DEF Sound
<1>11. old.len <= e.bytes /\ w.bytes = (e.bytes - old.len) + pc.len
  BY <1>1, <1>3, <1>5, <1>6, <1>7, <1>9, <1>10 DEF SaturatingSub
<1>12. w.bytes = HeldBytes(w) /\ w.bytes \in Nat
  BY <1>1, <1>3, <1>6, <1>7, <1>8, <1>9, <1>10, <1>11
<1>13. Held(w) = Held(e) \cup {idx}
  BY <1>2, <1>3, <1>4, <1>5 DEF Held
<1>14. IsFiniteSet(Held(e)) /\ Cardinality(Held(e)) \in Nat
  <2>1. Held(e) \subseteq Pieces
    BY DEF Held
  <2> QED
    BY <2>1, Finite, FS_Subset, FS_CardinalityType
<1>15. w.received = Cardinality(Held(w)) /\ w.received \in Nat
  <2>1. e.received = Cardinality(Held(e))
    BY DEF Sound
  <2>2. Cardinality(Held(e) \cup {idx})
          = IF idx \in Held(e) THEN Cardinality(Held(e)) ELSE Cardinality(Held(e)) + 1
    BY <1>14, FS_AddElement
  <2>3. Cardinality(Held(w)) = Cardinality(Held(e) \cup {idx})
    BY <1>13, Zenon
  <2>4. idx \in Held(e) <=> old # NoPiece
    BY <1>2 DEF Held, old
  <2> QED
    BY <1>5, <1>14, <2>1, <2>2, <2>3, <2>4
<1>16. w.first \in BOOLEAN /\ (w.first <=> 0 \in Held(w))
  BY <1>1, <1>5, <1>13 DEF Sound
<1>17. \A i \in Held(w) : /\ i < w.total
                          /\ w.pieces[i].inst = c
                          /\ w.pieces[i].total = w.total
  <2> TAKE i \in Held(w)
  <2>1. CASE i = idx
    BY <2>1, <1>2, <1>4, <1>5
  <2>2. CASE i # idx
    BY <2>2, <1>4, <1>5, <1>13 DEF Sound, Held
  <2> QED
    BY <2>1, <2>2
<1>18. Sound(w, c)
  BY <1>5, <1>12, <1>15, <1>16, <1>17 DEF Sound
<1>19. w \in Entry
  BY <1>1, <1>4, <1>5, <1>12, <1>15, <1>16 DEF Entry
<1> QED
  BY <1>2, <1>3, <1>5, <1>11, <1>18, <1>19 DEF w, old

\* A sound entry has at most the pieces it declared, and when it has as many it
\* has each of them.
LEMMA Complete ==
    ASSUME NEW e, NEW c, e \in Entry, Sound(e, c)
    PROVE  /\ e.received <= e.total
           /\ e.received = e.total => Held(e) = 0..(e.total - 1)
<1> DEFINE R == 0..(e.total - 1)
<1>1. e.total \in Nat /\ e.received \in Nat /\ e.total >= 2
  BY DEF Entry, Sound
<1>2. IsFiniteSet(R) /\ Cardinality(R) = e.total
  <2> DEFINE m == e.total - 1
  <2>0. m \in Int /\ 0 \in Int
    BY <1>1
  <2>1. IsFiniteSet(0..m) /\ Cardinality(0..m) = IF 0 > m THEN 0 ELSE m - 0 + 1
    <3> HIDE DEF m
    <3> QED
      BY ONLY <2>0, FS_Interval
  <2>2. (IF 0 > m THEN 0 ELSE m - 0 + 1) = e.total
    BY <1>1
  <2> HIDE DEF m
  <2>3. IsFiniteSet(0..m) /\ Cardinality(0..m) = e.total
    BY <2>1, <2>2
  <2> QED
    BY <2>3 DEF m
<1>3. Held(e) \subseteq R
  BY <1>1, ReassemblyAssumption DEF Held, Sound, Pieces
<1> HIDE DEF R
<1>4. /\ Cardinality(Held(e)) <= Cardinality(R)
      /\ Cardinality(Held(e)) = Cardinality(R) => Held(e) = R
  BY <1>2, <1>3, FS_Subset
<1>5. e.received = Cardinality(Held(e))
  BY DEF Sound
<1> QED
  BY <1>2, <1>4, <1>5 DEF R

\* A fragment that fits is stored within the limits, and the counters follow.
LEMMA StoredInv ==
    ASSUME NEW o, NEW cs, NEW k \in PendingKeys(o), NEW idx, NEW pc,
           TableInv(o, cs), pc \in Piece, idx \in 0..(o.entries[k].total - 1),
           pc.inst = cs[k[1]], pc.total = o.entries[k].total,
           SaturatingSub(o.bytes, o.entries[k].pieces[idx].len) + pc.len <= MaxPendingBytes
    PROVE  /\ TableInv(Stored(o, k, idx, pc), cs)
           /\ PendingKeys(Stored(o, k, idx, pc)) = PendingKeys(o)
           /\ \A j \in Key \ {k} : Stored(o, k, idx, pc).entries[j] = o.entries[j]
           /\ Stored(o, k, idx, pc).entries[k] = WithPiece(o.entries[k], idx, pc)
<1> DEFINE n == Stored(o, k, idx, pc)
           e == o.entries[k]
           w == WithPiece(e, idx, pc)
           old == e.pieces[idx].len
<1>1. o.entries \in [Key -> Entry] /\ k \in Key /\ e \in Entry /\ Sound(e, cs[k[1]])
  BY DEF TableInv, PendingKeys
<1>2. /\ w \in Entry /\ Sound(w, cs[k[1]]) /\ old \in Nat /\ old <= e.bytes
      /\ w.bytes = (e.bytes - old) + pc.len /\ w.total = e.total
  <2>1. e \in Entry /\ Sound(e, cs[k[1]]) /\ pc \in Piece /\ idx \in 0..(e.total - 1)
        /\ pc.inst = cs[k[1]] /\ pc.total = e.total
    BY <1>1
  <2> HIDE DEF e
  <2> QED
    BY <2>1, WithPieceSound
<1>3. /\ n.entries = [o.entries EXCEPT ![k] = w] /\ n.bytes = SaturatingSub(o.bytes, old) + pc.len
      /\ n.pieces = o.pieces /\ n = Table(n.entries, n.bytes, n.pieces)
  BY DEF Stored, Table
<1>4. SaturatingSub(o.bytes, old) + pc.len <= MaxPendingBytes /\ pc.len \in Nat
  BY DEF Piece
<1> HIDE DEF n, w, e, old
<1>5. /\ n.entries \in [Key -> Entry] /\ n.entries[k] = w
      /\ \A j \in Key \ {k} : n.entries[j] = o.entries[j]
  BY <1>1, <1>2, <1>3
<1>6. w # NoEntry
  BY <1>2, NoEntryFacts DEF Sound
<1>7. PendingKeys(n) = PendingKeys(o)
  BY <1>1, <1>5, <1>6 DEF PendingKeys
<1>8. Counts(BytesOf(o), Key) /\ Counts(PiecesOf(o), Key)
  BY <1>1, TableCounts
<1>9. /\ BytesOf(o)[k] = e.bytes /\ BytesOf(n)[k] = w.bytes
      /\ \A j \in Key \ {k} : BytesOf(n)[j] = BytesOf(o)[j]
      /\ \A j \in Key : PiecesOf(n)[j] = PiecesOf(o)[j]
  BY <1>1, <1>2, <1>5 DEF BytesOf, PiecesOf, e
<1>10. w.bytes \in Nat /\ e.bytes \in Nat
  BY <1>1, <1>2 DEF Entry
<1>11. SumFunctionOnSet(PiecesOf(n), Key) = SumFunctionOnSet(PiecesOf(o), Key)
  BY <1>8, <1>9, SumSame
<1>12. /\ BytesOf(o)[k] <= SumFunctionOnSet(BytesOf(o), Key)
       /\ SumFunctionOnSet(BytesOf(n), Key)
            = (SumFunctionOnSet(BytesOf(o), Key) - BytesOf(o)[k]) + BytesOf(n)[k]
  <2>1. Counts(BytesOf(o), Key) /\ k \in Key /\ BytesOf(n)[k] \in Nat
        /\ \A j \in Key \ {k} : BytesOf(n)[j] = BytesOf(o)[j]
    BY <1>1, <1>8, <1>9, <1>10
  <2> QED
    BY ONLY <2>1, SumReplaced
<1>13. SumFunctionOnSet(BytesOf(o), Key) \in Nat
  BY <1>8, SumNat
<1>14. /\ o.bytes = SumFunctionOnSet(BytesOf(o), Key) /\ o.pieces = SumFunctionOnSet(PiecesOf(o), Key)
       /\ o.pieces <= MaxPendingPieces
  BY DEF TableInv
<1>15. n.bytes = SumFunctionOnSet(BytesOf(n), Key)
  BY <1>2, <1>3, <1>4, <1>9, <1>10, <1>12, <1>13, <1>14 DEF SaturatingSub
<1>16. n.pieces = SumFunctionOnSet(PiecesOf(n), Key)
  BY <1>3, <1>11, <1>14
<1>17. n.bytes <= MaxPendingBytes /\ n.pieces <= MaxPendingPieces
  BY <1>3, <1>4, <1>14
<1>18. \A j \in PendingKeys(n) : Sound(n.entries[j], cs[j[1]])
  <2> TAKE j \in PendingKeys(n)
  <2>1. CASE j = k
    BY <2>1, <1>2, <1>5
  <2>2. CASE j # k
    <3>1. j \in PendingKeys(o) /\ n.entries[j] = o.entries[j]
      BY <2>2, <1>5, <1>7 DEF PendingKeys
    <3> QED
      BY <3>1 DEF TableInv
  <2> QED
    BY <2>1, <2>2
<1>19. \A p \in Peer : Cardinality(KeysOf(n, p)) <= MaxPendingTransactionsPerPeer
  <2> TAKE p \in Peer
  <2>1. KeysOf(n, p) = KeysOf(o, p)
    BY <1>7 DEF KeysOf
  <2>2. Cardinality(KeysOf(o, p)) <= MaxPendingTransactionsPerPeer
    BY DEF TableInv
  <2> QED
    BY <2>1, <2>2, Zenon
<1>20. TableInv(n, cs)
  BY <1>3, <1>5, <1>15, <1>16, <1>17, <1>18, <1>19 DEF TableInv
<1> QED
  BY <1>5, <1>7, <1>20 DEF n, w, e

\* A table does not depend on the connections of peers without entries.
LEMMA OtherConnections ==
    ASSUME NEW t, NEW cs, NEW ds, TableInv(t, cs), \A k \in PendingKeys(t) : ds[k[1]] = cs[k[1]]
    PROVE  TableInv(t, ds)
  BY DEF TableInv

-----------------------------------------------------------------------------
(* The steps *)

\* What Become makes of the fields.
LEMMA BecomeTable ==
    ASSUME NEW t, NEW cs, TableInv(t, cs), Become(t)
    PROVE  Current' = t
  BY DEF TableInv, Become, Current, Table

\* No packet, nothing to say about it.
LEMMA NothingDelivered ==
    ASSUME delivered' = NoPacket
    PROVE  PacketOfOneConnection'
<1>1. delivered'.total = 0
  BY DEF NoPacket
<1> QED
  BY <1>1 DEF PacketOfOneConnection

\* remove_peer, from the error paths too: whatever sound table it starts from,
\* the entries of the peer go with its connection.
LEMMA FailInv ==
    ASSUME TypeOK, NEW p \in Peer, NEW t, TableInv(t, conn), Incomplete(t), Fail(p, t)
    PROVE  Inv'
<1> DEFINE ks == {k \in PendingKeys(t) : k[1] = p}
           r == RemovePending(t, ks)
<1>1. /\ conn' = [conn EXCEPT ![p] = 0] /\ insts' = insts /\ delivered' = NoPacket
      /\ Become(r)
  BY DEF Fail, RemovePeer
<1>2. ks \subseteq Key
  BY DEF PendingKeys
<1>3. TableInv(r, conn) /\ PendingKeys(r) = PendingKeys(t) \ ks
  <2> HIDE DEF ks
  <2> QED
    BY <1>2, RemovePendingInv
<1>4. Incomplete(r)
  <2>1. \A k \in PendingKeys(t) \ ks : t.entries[k].received < t.entries[k].total
    BY DEF Incomplete
  <2> HIDE DEF ks
  <2> QED
    BY <1>2, <2>1, RemovePendingIncomplete
<1>5. \A k \in PendingKeys(r) : k[1] # p /\ k[1] \in Peer
  BY <1>3 DEF PendingKeys, Key
<1> HIDE DEF r
<1>6. \A k \in PendingKeys(r) : conn'[k[1]] = conn[k[1]]
  BY <1>1, <1>5 DEF TypeOK
<1>7. TableInv(r, conn')
  BY <1>3, <1>6, OtherConnections
<1>8. Current' = r
  BY <1>1, <1>3, BecomeTable
<1>9. TableInv(Current, conn)' /\ Incomplete(Current)'
  BY <1>4, <1>7, <1>8
<1>10. TypeOK'
  BY <1>1 DEF TypeOK
<1>11. PacketOfOneConnection'
  BY <1>1, NothingDelivered
<1> QED
  BY <1>9, <1>10, <1>11 DEF Inv

\* A step that leaves the connections alone, leaves a sound table and delivers
\* nothing.
LEMMA QuietInv ==
    ASSUME TypeOK, UNCHANGED <<conn, insts>>, delivered' = NoPacket,
           NEW t, TableInv(t, conn), Incomplete(t), Current' = t
    PROVE  Inv'
<1>1. TypeOK'
  BY DEF TypeOK
<1>2. PacketOfOneConnection'
  BY NothingDelivered
<1>3. TableInv(Current', conn') /\ Incomplete(Current')
  <2>1. conn' = conn
    OBVIOUS
  <2> QED
    BY <2>1
<1> QED
  BY <1>1, <1>2, <1>3 DEF Inv

LEMMA CleanCurrent ==
    ASSUME Inv
    PROVE  TableInv(CleanPending(Current), conn) /\ Incomplete(CleanPending(Current))
  BY CleanPendingInv DEF Inv

LEMMA MergeStep ==
    ASSUME Inv, NEW k \in Key, NEW total \in 2..MaxRpcPieces, NEW idx \in 0..(total - 1),
           NEW len \in 0..MaxLen, Merge(k, total, idx, len)
    PROVE  Inv'
<1> DEFINE t == CleanPending(Current)
           o == Opened(t, k, total)
           c == conn[k[1]]
           pc == [len |-> len, inst |-> c, total |-> total]
           n == Stored(o, k, idx, pc)
           e == n.entries[k]
<1>1. /\ c # 0 /\ Admitted(t, k, total) /\ conn' = conn /\ insts' = insts
      /\ SaturatingSub(o.bytes, o.entries[k].pieces[idx].len) + len <= MaxPendingBytes
      /\ e.received # total => Become(n) /\ delivered' = NoPacket
      /\ e.received = total =>
           /\ Become(RemovePending(n, {k}))
           /\ delivered' = [inst |-> c, pieces |-> e.pieces, total |-> total]
  BY DEF Merge
<1>2. TableInv(t, conn) /\ Incomplete(t)
  BY CleanCurrent
<1>3. total \in Nat /\ total >= 2 /\ len \in Nat /\ c \in Nat
  BY ReassemblyAssumption DEF Inv, TypeOK, Key
<1>4. pc \in Piece /\ pc.inst = c /\ pc.total = total /\ pc.len = len
  BY <1>3 DEF Piece
<1> HIDE DEF t
<1>5. /\ TableInv(o, conn) /\ Incomplete(o) /\ k \in PendingKeys(o)
      /\ o.entries[k].total = total
  BY <1>1, <1>2, OpenedInv
<1> HIDE DEF o, pc
<1>6. /\ TableInv(n, conn) /\ PendingKeys(n) = PendingKeys(o)
      /\ \A j \in Key \ {k} : n.entries[j] = o.entries[j]
      /\ e = WithPiece(o.entries[k], idx, pc)
  BY <1>1, <1>4, <1>5, StoredInv
<1>7. e.total = total
  BY <1>5, <1>6 DEF WithPiece
<1> HIDE DEF n
<1>8. e \in Entry /\ Sound(e, c)
  BY <1>5, <1>6 DEF TableInv
<1>9. \A j \in PendingKeys(n) \ {k} : n.entries[j].received < n.entries[j].total
  BY <1>5, <1>6 DEF Incomplete, PendingKeys
<1>10. e.received \in Nat /\ e.received <= total /\ (e.received = total => Held(e) = 0..(total - 1))
  <2>1. e.received \in Nat
    BY <1>8 DEF Entry
  <2> HIDE DEF e, c
  <2> QED
    BY <1>7, <1>8, <2>1, Complete
<1>11. TypeOK
  BY DEF Inv
<1>12. CASE e.received # total
  <2>1. Incomplete(n)
    BY <1>3, <1>7, <1>9, <1>10, <1>12 DEF Incomplete
  <2>2. Current' = n
    BY <1>1, <1>6, <1>12, BecomeTable
  <2> QED
    BY <1>1, <1>6, <1>11, <1>12, <2>1, <2>2, QuietInv
<1>13. CASE e.received = total
  <2> DEFINE ks == {k}
             r == RemovePending(n, ks)
  <2>1. ks \subseteq Key /\ PendingKeys(n) \ ks = PendingKeys(n) \ {k}
    OBVIOUS
  <2>2. Become(r)
    BY <1>1, <1>13
  <2> HIDE DEF ks
  <2>3. TableInv(r, conn)
    BY <1>6, <2>1, RemovePendingInv
  <2>4. Incomplete(r)
    BY <1>6, <1>9, <2>1, RemovePendingIncomplete
  <2> HIDE DEF r
  <2>5. Current' = r
    BY <2>2, <2>3, BecomeTable
  <2>6. TableInv(Current, conn)' /\ Incomplete(Current)'
    BY <1>1, <2>3, <2>4, <2>5
  <2>7. TypeOK'
    BY <1>1, <1>11 DEF TypeOK
  <2>8. delivered'.inst = c /\ delivered'.pieces = e.pieces /\ delivered'.total = total
    BY <1>1, <1>13
  <2>9. \A i \in 0..(total - 1) : e.pieces[i].inst = c /\ e.pieces[i].total = total
    BY <1>7, <1>8, <1>10, <1>13 DEF Sound
  <2>10. PacketOfOneConnection'
    BY <2>8, <2>9 DEF PacketOfOneConnection
  <2> QED
    BY <2>6, <2>7, <2>10 DEF Inv
<1> QED
  BY <1>12, <1>13

LEMMA TooBigStep ==
    ASSUME Inv, NEW k \in Key, NEW total \in 2..MaxRpcPieces, NEW idx \in 0..(total - 1),
           NEW len \in 0..MaxLen, TooBig(k, total, idx, len)
    PROVE  Inv'
<1> DEFINE t == CleanPending(Current)
           o == Opened(t, k, total)
           ks == {k}
           r == RemovePending(o, ks)
<1>1. conn[k[1]] # 0 /\ Admitted(t, k, total) /\ Fail(k[1], r)
  BY DEF TooBig
<1>2. TableInv(t, conn) /\ Incomplete(t) /\ ks \subseteq Key /\ k[1] \in Peer
  BY CleanCurrent DEF Key
<1> HIDE DEF t, ks
<1>3. TableInv(o, conn) /\ Incomplete(o)
  BY <1>1, <1>2, OpenedInv
<1> HIDE DEF o
<1>4. TableInv(r, conn) /\ Incomplete(r)
  BY <1>2, <1>3, RemovePendingInv, RemovePendingIncomplete DEF Incomplete
<1> HIDE DEF r
<1> QED
  BY <1>1, <1>2, <1>4, FailInv DEF Inv

LEMMA TooManyStep ==
    ASSUME Inv, NEW k \in Key, NEW total \in 2..MaxRpcPieces, TooMany(k, total)
    PROVE  Inv'
<1>1. Fail(k[1], CleanPending(Current)) /\ k[1] \in Peer
  BY DEF TooMany, Key
<1> QED
  BY <1>1, CleanCurrent, FailInv DEF Inv

LEMMA ChangedCountStep ==
    ASSUME Inv, NEW k \in Key, NEW total \in 2..MaxRpcPieces, ChangedCount(k, total)
    PROVE  Inv'
<1> DEFINE t == CleanPending(Current)
           ks == {k}
           r == RemovePending(t, ks)
<1>1. Fail(k[1], r) /\ k[1] \in Peer /\ ks \subseteq Key
  BY DEF ChangedCount, Key
<1>2. TableInv(t, conn) /\ Incomplete(t)
  BY CleanCurrent
<1> HIDE DEF t, ks
<1>3. TableInv(r, conn) /\ Incomplete(r)
  BY <1>1, <1>2, RemovePendingInv, RemovePendingIncomplete DEF Incomplete
<1> HIDE DEF r
<1> QED
  BY <1>1, <1>3, FailInv DEF Inv

LEMMA MalformedStep ==
    ASSUME Inv, NEW p \in Peer, Malformed(p) \/ Disconnect(p)
    PROVE  Inv'
<1>1. Fail(p, Current) \/ Fail(p, CleanPending(Current))
  BY DEF Malformed, Disconnect
<1>2. TypeOK /\ TableInv(Current, conn) /\ Incomplete(Current)
  BY DEF Inv
<1> QED
  BY <1>1, <1>2, CleanCurrent, FailInv

\* add_peer: a peer without a connection has no entries.
LEMMA ConnectStep ==
    ASSUME Inv, NEW p \in Peer, Connect(p)
    PROVE  Inv'
<1>1. /\ conn[p] = 0 /\ insts' = [insts EXCEPT ![p] = @ + 1]
      /\ conn' = [conn EXCEPT ![p] = insts[p] + 1] /\ delivered' = NoPacket
      /\ UNCHANGED <<pending, pending_bytes, pending_pieces>>
  BY DEF Connect
<1>2. TypeOK /\ TableInv(Current, conn) /\ Incomplete(Current)
  BY DEF Inv
<1>3. TypeOK'
  BY <1>1, <1>2 DEF TypeOK
<1>4. Current' = Current
  BY <1>1 DEF Current
<1>5. \A k \in PendingKeys(Current) : k[1] # p /\ k[1] \in Peer
  <2> TAKE k \in PendingKeys(Current)
  <2>1. k[1] \in Peer
    BY DEF PendingKeys, Key
  <2>2. conn[k[1]] # 0
    BY <1>2 DEF TableInv, Sound
  <2> QED
    BY <1>1, <2>1, <2>2
<1>6. \A k \in PendingKeys(Current) : conn'[k[1]] = conn[k[1]]
  BY <1>1, <1>2, <1>5 DEF TypeOK
<1>7. TableInv(Current, conn')
  BY <1>2, <1>6, OtherConnections
<1>8. TableInv(Current, conn)' /\ Incomplete(Current)'
  BY <1>2, <1>4, <1>7
<1>9. PacketOfOneConnection'
  BY <1>1, NothingDelivered
<1> QED
  BY <1>3, <1>8, <1>9 DEF Inv

\* An entry that has expired is otherwise what it was.
LEMMA ExpireStep ==
    ASSUME Inv, NEW k \in Key, Expire(k)
    PROVE  Inv'
<1> DEFINE t == Current
           e == t.entries[k]
           x == [e EXCEPT !.expired = TRUE]
           n == Table([t.entries EXCEPT ![k] = x], t.bytes, t.pieces)
<1>1. TypeOK /\ TableInv(t, conn) /\ Incomplete(t)
  BY DEF Inv
<1>2. t.entries = pending /\ t.bytes = pending_bytes /\ t.pieces = pending_pieces
  BY DEF Current, Table
<1>3. /\ e # NoEntry /\ delivered' = NoPacket /\ UNCHANGED <<conn, insts>>
      /\ pending' = [t.entries EXCEPT ![k] = x]
      /\ pending_bytes' = t.bytes /\ pending_pieces' = t.pieces
  BY <1>2 DEF Expire
<1>4. Current' = n
  BY <1>3 DEF Current
<1>5. /\ n.entries = [t.entries EXCEPT ![k] = x] /\ n.bytes = t.bytes /\ n.pieces = t.pieces
      /\ n = Table(n.entries, n.bytes, n.pieces)
  BY DEF Table
<1>6. t.entries \in [Key -> Entry] /\ e \in Entry /\ k \in PendingKeys(t) /\ Sound(e, conn[k[1]])
  BY <1>1, <1>3 DEF TableInv, PendingKeys
<1> HIDE DEF t, e
<1>7. /\ x \in Entry /\ x.total = e.total /\ x.pieces = e.pieces /\ x.first = e.first
      /\ x.received = e.received /\ x.bytes = e.bytes
  BY <1>6 DEF Entry
<1> HIDE DEF x, n
<1>8. Held(x) = Held(e) /\ HeldBytes(x) = HeldBytes(e)
  BY <1>7, Zenon DEF Held, HeldBytes
<1>9. Sound(x, conn[k[1]])
  <2>1. Cardinality(Held(x)) = Cardinality(Held(e))
    BY <1>8, Zenon
  <2> QED
    BY <1>6, <1>7, <1>8, <2>1 DEF Sound
<1>10. x # NoEntry
  BY <1>9, NoEntryFacts DEF Sound
<1>11. /\ n.entries \in [Key -> Entry] /\ n.entries[k] = x
       /\ \A j \in Key \ {k} : n.entries[j] = t.entries[j]
  BY <1>5, <1>6, <1>7
<1>12. PendingKeys(n) = PendingKeys(t)
  BY <1>6, <1>10, <1>11 DEF PendingKeys
<1>13. BytesOf(n) = BytesOf(t) /\ PiecesOf(n) = PiecesOf(t)
  BY <1>6, <1>7, <1>11 DEF BytesOf, PiecesOf, e
<1>14. /\ t.bytes = SumFunctionOnSet(BytesOf(t), Key) /\ t.pieces = SumFunctionOnSet(PiecesOf(t), Key)
       /\ t.bytes <= MaxPendingBytes /\ t.pieces <= MaxPendingPieces
  BY <1>1 DEF TableInv
<1>15. n.bytes = SumFunctionOnSet(BytesOf(n), Key) /\ n.pieces = SumFunctionOnSet(PiecesOf(n), Key)
  BY <1>5, <1>13, <1>14, Zenon
<1>16. \A j \in PendingKeys(n) : Sound(n.entries[j], conn[j[1]])
  <2> TAKE j \in PendingKeys(n)
  <2>1. CASE j = k
    BY <2>1, <1>9, <1>11
  <2>2. CASE j # k
    <3>1. j \in PendingKeys(t) /\ n.entries[j] = t.entries[j]
      BY <2>2, <1>11, <1>12 DEF PendingKeys
    <3> QED
      BY <1>1, <3>1 DEF TableInv
  <2> QED
    BY <2>1, <2>2
<1>17. \A p \in Peer : Cardinality(KeysOf(n, p)) <= MaxPendingTransactionsPerPeer
  <2> TAKE p \in Peer
  <2>1. KeysOf(n, p) = KeysOf(t, p)
    BY <1>12 DEF KeysOf
  <2>2. Cardinality(KeysOf(t, p)) <= MaxPendingTransactionsPerPeer
    BY <1>1 DEF TableInv
  <2> QED
    BY <2>1, <2>2, Zenon
<1>18. TableInv(n, conn)
  BY <1>5, <1>11, <1>14, <1>15, <1>16, <1>17 DEF TableInv
<1>19. Incomplete(n)
  BY <1>1, <1>6, <1>7, <1>11, <1>12 DEF Incomplete, PendingKeys, e
<1> QED
  BY <1>1, <1>3, <1>4, <1>18, <1>19, QuietInv

\* clean_pending alone, from build_route_update or from the maintenance timer.
LEMMA CleanStep ==
    ASSUME Inv, CleanExpired \/ \E k \in Key : BuildRouteUpdate(k)
    PROVE  Inv'
<1>1. Become(CleanPending(Current)) /\ delivered' = NoPacket /\ UNCHANGED <<conn, insts>>
  BY DEF CleanExpired, BuildRouteUpdate
<1>2. TableInv(CleanPending(Current), conn) /\ Incomplete(CleanPending(Current)) /\ TypeOK
  BY CleanCurrent DEF Inv
<1>3. Current' = CleanPending(Current)
  BY <1>1, <1>2, BecomeTable
<1> QED
  BY <1>1, <1>2, <1>3, QuietInv

LEMMA WholeStep ==
    ASSUME Inv, NEW k \in Key, Whole(k)
    PROVE  Inv'
<1>1. delivered' = NoPacket /\ UNCHANGED <<conn, insts>> /\ UNCHANGED <<pending, pending_bytes, pending_pieces>>
  BY DEF Whole
<1>2. Current' = Current
  BY <1>1 DEF Current
<1>3. TypeOK /\ TableInv(Current, conn) /\ Incomplete(Current)
  BY DEF Inv
<1> QED
  BY <1>1, <1>2, <1>3, QuietInv

-----------------------------------------------------------------------------
(* The invariants *)

\* At the start the table is empty.
LEMMA InitInv ==
    ASSUME Init
    PROVE  Inv
<1> DEFINE t == Current
<1>1. /\ t.entries = [k \in Key |-> NoEntry] /\ t.bytes = 0 /\ t.pieces = 0
      /\ t = Table(t.entries, t.bytes, t.pieces)
  BY DEF Init, Current, Table
<1> HIDE DEF t
<1>2. PendingKeys(t) = {} /\ t.entries \in [Key -> Entry]
  BY <1>1, NoEntryFacts DEF PendingKeys
<1>3. \A k \in Key : BytesOf(t)[k] = 0 /\ PiecesOf(t)[k] = 0
  BY <1>1, NoEntryFacts DEF BytesOf, PiecesOf
<1>4. SumFunctionOnSet(BytesOf(t), Key) = 0 /\ SumFunctionOnSet(PiecesOf(t), Key) = 0
  BY <1>3, Finite, SumZero
<1>5. \A p \in Peer : Cardinality(KeysOf(t, p)) <= MaxPendingTransactionsPerPeer
  <2> TAKE p \in Peer
  <2>1. KeysOf(t, p) = {}
    BY <1>2 DEF KeysOf
  <2>2. Cardinality({}) = 0
    BY FS_EmptySet
  <2>3. Cardinality(KeysOf(t, p)) = 0
    BY <2>1, <2>2, Zenon
  <2> QED
    BY <2>3, ReassemblyAssumption
<1>6. TableInv(t, conn) /\ Incomplete(t)
  BY <1>1, <1>2, <1>4, <1>5, ReassemblyAssumption DEF TableInv, Incomplete
<1>7. TypeOK
  BY DEF Init, TypeOK
<1>8. PacketOfOneConnection
  <2>1. delivered.total = 0
    BY DEF Init, NoPacket
  <2> QED
    BY <2>1 DEF PacketOfOneConnection
<1> QED
  BY <1>6, <1>7, <1>8 DEF Inv, t

\* Every step keeps the invariant.
LEMMA NextInv ==
    ASSUME Inv, [Next]_vars
    PROVE  Inv'
<1>1. CASE \E p \in Peer : Connect(p) \/ Disconnect(p) \/ Malformed(p)
  BY <1>1, ConnectStep, MalformedStep
<1>2. CASE \E k \in Key : Whole(k) \/ BuildRouteUpdate(k) \/ Expire(k)
  BY <1>2, WholeStep, CleanStep, ExpireStep
<1>3. CASE \E k \in Key, total \in 2..MaxRpcPieces :
              \/ ChangedCount(k, total)
              \/ TooMany(k, total)
              \/ \E idx \in 0..(total - 1), len \in 0..MaxLen :
                    TooBig(k, total, idx, len) \/ Merge(k, total, idx, len)
  BY <1>3, ChangedCountStep, TooManyStep, TooBigStep, MergeStep
<1>4. CASE CleanExpired
  BY <1>4, CleanStep
<1>5. CASE UNCHANGED vars
  <2>1. /\ conn' = conn /\ insts' = insts /\ delivered' = delivered
        /\ UNCHANGED <<pending, pending_bytes, pending_pieces>>
    BY <1>5 DEF vars
  <2>2. Current' = Current
    BY <2>1 DEF Current
  <2>3. TypeOK' /\ PacketOfOneConnection'
    BY <2>1 DEF Inv, TypeOK, PacketOfOneConnection
  <2>4. TableInv(Current, conn)' /\ Incomplete(Current)'
    BY <2>1, <2>2 DEF Inv
  <2> QED
    BY <2>3, <2>4 DEF Inv
<1> QED
  BY <1>1, <1>2, <1>3, <1>4, <1>5 DEF Next

\* The table of fragments stays accounted for: the entries are sound, the
\* counters are their sums, the limits hold and no complete packet stays.
THEOREM Invariance == Spec => []Inv
<1>1. Init => Inv
  BY InitInv
<1>2. Inv /\ [Next]_vars => Inv'
  BY NextInv
<1> QED
  BY <1>1, <1>2, PTL DEF Spec

\* pending_bytes and pending_pieces are exactly what the entries hold, after
\* every order of fragments, replacements, refusals, expiries and departures;
\* no saturating subtraction of remove_pending or merge_packet ever hides an
\* error, and the limits of each peer and of all hold.
THEOREM CountersAreExact == Spec => []CountersExact
<1>1. Inv => CountersExact
  <2> SUFFICES ASSUME Inv
               PROVE  CountersExact
    OBVIOUS
  <2> DEFINE t == Current
             h == [k \in Key |-> HeldBytes(pending[k])]
  <2>1. TableInv(t, conn) /\ t.entries = pending /\ t.bytes = pending_bytes /\ t.pieces = pending_pieces
    BY DEF Inv, Current, Table
  <2>2. \A k \in Key : h[k] = BytesOf(t)[k]
    <3> TAKE k \in Key
    <3>1. CASE k \in PendingKeys(t)
      BY <2>1, <3>1 DEF TableInv, Sound, BytesOf
    <3>2. CASE k \notin PendingKeys(t)
      <4>1. pending[k] = NoEntry
        BY <2>1, <3>2 DEF PendingKeys
      <4>2. HeldBytes(pending[k]) = HeldBytes(NoEntry)
        BY <4>1, Zenon
      <4> QED
        BY <2>1, <4>1, <4>2, NoEntryFacts DEF BytesOf
    <3> QED
      BY <3>1, <3>2
  <2>3. Counts(BytesOf(t), Key)
    BY <2>1, TableCounts DEF TableInv
  <2>4. PiecesOf(t) = [k \in Key |-> pending[k].total]
    BY <2>1 DEF PiecesOf
  <2> HIDE DEF t, h
  <2>5. SumFunctionOnSet(h, Key) = SumFunctionOnSet(BytesOf(t), Key)
    BY <2>2, <2>3, SumSame
  <2>6. pending_bytes = SumFunctionOnSet(h, Key)
    BY <2>1, <2>5 DEF TableInv
  <2>7. pending_pieces = SumFunctionOnSet(PiecesOf(t), Key)
    BY <2>1 DEF TableInv
  <2>8. pending_pieces = SumFunctionOnSet([k \in Key |-> pending[k].total], Key)
    BY <2>4, <2>7, Zenon
  <2>9. pending_bytes <= MaxPendingBytes /\ pending_pieces <= MaxPendingPieces
    BY <2>1 DEF TableInv
  <2>10. \A p \in Peer :
           Cardinality({k \in PendingKeys(Current) : k[1] = p}) <= MaxPendingTransactionsPerPeer
    BY <2>1 DEF TableInv, KeysOf, t
  <2> QED
    BY <2>6, <2>8, <2>9, <2>10 DEF CountersExact, h
<1> QED
  BY <1>1, Invariance, PTL

\* received_pieces, body_bytes and first describe the pieces of every pending
\* packet, and a complete one is never left behind.
THEOREM EntriesAreSound == Spec => []EntrySound
<1>1. Inv => EntrySound
  <2>1. Current.entries = pending
    BY DEF Current, Table
  <2> QED
    BY <2>1 DEF Inv, TableInv, Incomplete, Sound, EntrySound
<1> QED
  BY <1>1, Invariance, PTL

\* A reassembled packet has all its pieces, and all of them came over the
\* connection that completed it.
THEOREM PacketsAreOfOneConnection == Spec => []PacketOfOneConnection
<1>1. Inv => PacketOfOneConnection
  BY DEF Inv
<1> QED
  BY <1>1, Invariance, PTL
=============================================================================
