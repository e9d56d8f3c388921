---------------------------- MODULE PlaylistsProofs ----------------------------
(***************************************************************************)
(* Theorems about Playlists for any tracks, playlists, users, requests and   *)
(* imports, any cap and any length of bodies.                                *)
(***************************************************************************)
EXTENDS Playlists, FiniteSetTheorems, WellFoundedInduction, TLAPS

--------------------------------------------------------------------------------
(* Numbers and finite sets *)

\* A set of naturals that is not empty has a smallest element.
LEMMA Smallest ==
    ASSUME NEW S \in SUBSET Nat, S # {}
    PROVE  \E m \in S : \A s \in S : m =< s
<1>1. \E m \in S : \A s \in S : ~(<<s, m>> \in OpToRel(<, Nat))
  BY WFMin, NatLessThanWellFounded, Zenon
<1>2. PICK m \in S : \A s \in S : ~(s < m)
  BY <1>1, Zenon DEF OpToRel
<1> QED BY <1>2

\* A bounded one also has a largest element.
LEMMA Largest ==
    ASSUME NEW S \in SUBSET Nat, S # {}, NEW b \in Nat, \A s \in S : s =< b
    PROVE  \E m \in S : \A s \in S : s =< m
<1> DEFINE B == {n \in Nat : \A s \in S : s =< n}
<1>1. PICK m \in B : \A n \in B : m =< n
  <2>1. b \in B /\ B \subseteq Nat
    OBVIOUS
  <2> QED BY <2>1, Smallest
<1>2. m \in S
  <2>1. SUFFICES ASSUME m \notin S PROVE FALSE
    OBVIOUS
  <2>2. m \in Nat /\ \A s \in S : s \in Nat /\ s =< m - 1
    BY <1>1, <2>1
  <2>3. PICK s \in S : s =< m - 1
    BY <2>2
  <2>4. m - 1 \in B
    BY <2>2, <2>3
  <2> QED BY <1>1, <2>2, <2>4
<1> QED BY <1>2

\* A set inside another one that it does not fill has fewer elements.
LEMMA Fewer ==
    ASSUME NEW B, IsFiniteSet(B), NEW A \in SUBSET B, NEW x \in B \ A
    PROVE  /\ Cardinality(A) \in Nat
           /\ Cardinality(B) \in Nat
           /\ Cardinality(A) < Cardinality(B)
<1>1. IsFiniteSet(A) /\ Cardinality(A) =< Cardinality(B) /\ Cardinality(A) # Cardinality(B)
  BY FS_Subset
<1> QED BY <1>1, FS_CardinalityType

LEMMA NoMore ==
    ASSUME NEW B, IsFiniteSet(B), NEW A \in SUBSET B
    PROVE  /\ Cardinality(A) \in Nat
           /\ Cardinality(B) \in Nat
           /\ Cardinality(A) =< Cardinality(B)
BY FS_Subset, FS_CardinalityType

LEMMA OneMore ==
    ASSUME NEW A, IsFiniteSet(A), NEW x
    PROVE  /\ IsFiniteSet(A \cup {x})
           /\ Cardinality(A \cup {x}) =< Cardinality(A) + 1
<1>1. Cardinality(A) \in Nat
  BY FS_CardinalityType
<1>2. /\ IsFiniteSet(A \cup {x})
      /\ Cardinality(A \cup {x}) = IF x \in A THEN Cardinality(A) ELSE Cardinality(A) + 1
  BY FS_AddElement
<1>3. CASE x \in A
  BY <1>1, <1>2, <1>3
<1>4. CASE x \notin A
  BY <1>1, <1>2, <1>4
<1> QED BY <1>3, <1>4

--------------------------------------------------------------------------------
(* Keys and positions *)

Column(p) == p \in [DOMAIN p -> Nat] /\ DOMAIN p \subseteq Tracks

Distinct(p) == \A s, t \in DOMAIN p : p[s] = p[t] => s = t

Bounded(p) == \E b \in Nat : \A t \in DOMAIN p : p[t] =< b

LEMMA KeyIndices ==
    ASSUME NEW keys \in KeyLists
    PROVE  /\ DOMAIN keys \subseteq Nat
           /\ \E n \in Nat : \A i \in DOMAIN keys : i =< n
           /\ IsFiniteSet(DOMAIN keys)
           /\ \A i \in DOMAIN keys : keys[i] \in Tracks
<1>1. PICK n \in 0 .. MaxKeys : keys \in [1 .. n -> Tracks]
  BY DEF KeyLists
<1>2. n \in Nat /\ DOMAIN keys = 1 .. n
  BY <1>1, PlaylistsAssumption
<1>3. IsFiniteSet(1 .. n)
  BY <1>2, FS_Interval
<1>4. \A i \in DOMAIN keys : i \in Nat /\ i =< n /\ keys[i] \in Tracks
  BY <1>1, <1>2
<1> QED BY <1>2, <1>3, <1>4

LEMMA FirstMention ==
    ASSUME NEW keys \in KeyLists, NEW k \in DOMAIN keys
    PROVE  /\ FirstAt(keys, keys[k]) \in DOMAIN keys
           /\ FirstAt(keys, keys[k]) \in Nat
           /\ keys[FirstAt(keys, keys[k])] = keys[k]
<1> DEFINE S == {i \in DOMAIN keys : keys[i] = keys[k]}
<1>1. PICK m \in S : \A i \in S : m =< i
  <2>1. S \in SUBSET Nat /\ S # {}
    BY KeyIndices
  <2> QED BY <2>1, Smallest
<1>2. \E i \in DOMAIN keys :
          keys[i] = keys[k] /\ \A j \in DOMAIN keys : keys[j] = keys[k] => i =< j
  BY <1>1
<1>3. /\ FirstAt(keys, keys[k]) \in DOMAIN keys
      /\ keys[FirstAt(keys, keys[k])] = keys[k]
  BY <1>2 DEF FirstAt
<1> QED BY <1>3, KeyIndices

LEMMA LastMention ==
    ASSUME NEW keys \in KeyLists, NEW k \in DOMAIN keys
    PROVE  /\ LastAt(keys, keys[k]) \in DOMAIN keys
           /\ LastAt(keys, keys[k]) \in Nat
           /\ keys[LastAt(keys, keys[k])] = keys[k]
<1> DEFINE S == {i \in DOMAIN keys : keys[i] = keys[k]}
<1>1. PICK m \in S : \A i \in S : i =< m
  <2>1. S \in SUBSET Nat /\ S # {}
    BY KeyIndices
  <2>2. PICK n \in Nat : \A i \in DOMAIN keys : i =< n
    BY KeyIndices
  <2> QED BY <2>1, <2>2, Largest
<1>2. \E i \in DOMAIN keys :
          keys[i] = keys[k] /\ \A j \in DOMAIN keys : keys[j] = keys[k] => j =< i
  BY <1>1
<1>3. /\ LastAt(keys, keys[k]) \in DOMAIN keys
      /\ keys[LastAt(keys, keys[k])] = keys[k]
  BY <1>2 DEF LastAt
<1> QED BY <1>3, KeyIndices

\* The next position is behind all others.
LEMMA NextIsLast ==
    ASSUME NEW p, Column(p), Bounded(p)
    PROVE  /\ NextPosition(p) \in Nat
           /\ \A t \in DOMAIN p : p[t] < NextPosition(p)
<1> DEFINE S == {p[t] : t \in DOMAIN p}
<1>1. CASE DOMAIN p = {}
  BY <1>1 DEF NextPosition
<1>2. CASE DOMAIN p # {}
  <2>1. S \in SUBSET Nat /\ S # {}
    BY <1>2 DEF Column
  <2>2. PICK b \in Nat : \A s \in S : s =< b
    BY DEF Bounded
  <2>3. PICK m \in S : \A s \in S : s =< m
    BY <2>1, <2>2, Largest
  <2>4. \E n \in S : \A t \in DOMAIN p : p[t] =< n
    BY <2>3
  <2> DEFINE top == CHOOSE n \in S : \A t \in DOMAIN p : p[t] =< n
  <2>5. top \in S /\ \A t \in DOMAIN p : p[t] =< top
    BY <2>4
  <2>6. NextPosition(p) = 1 + top
    BY <1>2 DEF NextPosition
  <2>7. top \in Nat
    BY <2>1, <2>5
  <2>8. \A t \in DOMAIN p : p[t] \in Nat
    BY DEF Column
  <2> HIDE DEF top
  <2> QED BY <2>5, <2>6, <2>7, <2>8
<1> QED BY <1>1, <1>2

--------------------------------------------------------------------------------
(* What the writes make of a column *)

LEMMA ColumnFinite ==
    ASSUME NEW p, Column(p), NEW A \in SUBSET Tracks
    PROVE  IsFiniteSet(DOMAIN p) /\ IsFiniteSet(A)
BY PlaylistsAssumption, FS_Subset DEF Column

\* The rank of an appended track among those appended with it.
Rank(p, keys, t) ==
    Cardinality({s \in New(p, keys) : FirstAt(keys, s) < FirstAt(keys, t)})

LEMMA NewTracks ==
    ASSUME NEW p, NEW keys \in KeyLists, NEW t \in New(p, keys)
    PROVE  /\ t \in Tracks
           /\ t \in catalog
           /\ t \notin DOMAIN p
           /\ FirstAt(keys, t) \in Nat
           /\ keys[FirstAt(keys, t)] = t
<1>1. /\ t \in {keys[i] : i \in DOMAIN keys}
      /\ t \in catalog
      /\ t \notin DOMAIN p
  BY DEF New
<1>2. PICK k \in DOMAIN keys : keys[k] = t
  BY <1>1
<1> QED BY <1>1, <1>2, FirstMention, KeyIndices

LEMMA Ranks ==
    ASSUME NEW p, NEW keys \in KeyLists
    PROVE  /\ \A t \in New(p, keys) :
                  /\ Rank(p, keys, t) \in Nat
                  /\ Rank(p, keys, t) =< Cardinality(New(p, keys))
           /\ Cardinality(New(p, keys)) \in Nat
           /\ \A s, t \in New(p, keys) :
                  Rank(p, keys, s) = Rank(p, keys, t) => s = t
<1> DEFINE N == New(p, keys)
           ahead(t) == {s \in N : FirstAt(keys, s) < FirstAt(keys, t)}
<1>1. IsFiniteSet(N)
  <2>1. N \subseteq Tracks
    BY NewTracks
  <2> QED BY <2>1, PlaylistsAssumption, FS_Subset
<1>2. \A t \in N : ahead(t) \subseteq N /\ Rank(p, keys, t) = Cardinality(ahead(t))
  BY DEF Rank
<1>3. \A t \in N : FirstAt(keys, t) \in Nat /\ keys[FirstAt(keys, t)] = t
  BY NewTracks
<1>4. ASSUME NEW s \in N, NEW t \in N, FirstAt(keys, s) < FirstAt(keys, t)
      PROVE  Rank(p, keys, s) < Rank(p, keys, t)
  <2>1. IsFiniteSet(ahead(t))
    BY <1>1, <1>2, FS_Subset
  <2>2. ahead(s) \subseteq ahead(t)
    BY <1>3, <1>4
  <2>3. s \in ahead(t) /\ s \notin ahead(s)
    BY <1>3, <1>4
  <2> HIDE DEF ahead, N
  <2>4. Cardinality(ahead(s)) < Cardinality(ahead(t))
    BY <2>1, <2>2, <2>3, Fewer
  <2> QED BY <2>4, <1>2
<1>5. Cardinality(N) \in Nat
  BY <1>1, FS_CardinalityType
<1>6. \A t \in N : Rank(p, keys, t) \in Nat /\ Rank(p, keys, t) =< Cardinality(N)
  <2> HIDE DEF ahead, N
  <2> QED BY <1>1, <1>2, NoMore
<1>7. ASSUME NEW s \in N, NEW t \in N, Rank(p, keys, s) = Rank(p, keys, t)
      PROVE  s = t
  <2>1. ~(FirstAt(keys, s) < FirstAt(keys, t)) /\ ~(FirstAt(keys, t) < FirstAt(keys, s))
    <3>1. Rank(p, keys, s) \in Nat /\ Rank(p, keys, t) \in Nat
      BY <1>6
    <3> QED BY <1>4, <1>7, <3>1
  <2>2. FirstAt(keys, s) = FirstAt(keys, t)
    BY <2>1, <1>3
  <2> QED BY <2>2, <1>3
<1> QED BY <1>5, <1>6, <1>7

\* An append keeps what was there, and puts the new tracks behind it.
LEMMA AppendedColumn ==
    ASSUME NEW p, Column(p), Distinct(p), Bounded(p), NEW keys \in KeyLists
    PROVE  LET q == Appended(p, keys)
           IN  /\ DOMAIN q = DOMAIN p \cup New(p, keys)
               /\ Column(q) /\ Distinct(q) /\ Bounded(q)
               /\ \A t \in DOMAIN p : q[t] = p[t]
               /\ \A s \in DOMAIN p, t \in New(p, keys) : q[s] < q[t]
<1> DEFINE q == Appended(p, keys)
           N == New(p, keys)
           next == NextPosition(p)
<1>1. q = [t \in DOMAIN p \cup N |-> IF t \in N THEN next + Rank(p, keys, t) ELSE p[t]]
  BY DEF Appended, Rank
<1>2. next \in Nat /\ \A t \in DOMAIN p : p[t] < next
  BY NextIsLast
<1>3. \A t \in DOMAIN p : p[t] \in Nat /\ t \in Tracks /\ t \notin N
  BY NewTracks DEF Column
<1>4. \A t \in N : t \in Tracks /\ t \notin DOMAIN p
  BY NewTracks
<1>5. /\ Cardinality(N) \in Nat
      /\ \A t \in N : Rank(p, keys, t) \in Nat /\ Rank(p, keys, t) =< Cardinality(N)
      /\ \A s, t \in N : Rank(p, keys, s) = Rank(p, keys, t) => s = t
  BY Ranks
<1> HIDE DEF q, N, next
<1>6. /\ DOMAIN q = DOMAIN p \cup N
      /\ \A t \in DOMAIN p : q[t] = p[t]
      /\ \A t \in N : q[t] = next + Rank(p, keys, t)
  BY <1>1, <1>3
<1>7. \A t \in N : q[t] \in Nat /\ next =< q[t] /\ q[t] =< next + Cardinality(N)
  BY <1>2, <1>5, <1>6
<1>8. Column(q)
  <2>1. q \in [DOMAIN q -> Nat]
    BY <1>1, <1>2, <1>3, <1>5
  <2> QED BY <2>1, <1>3, <1>4, <1>6 DEF Column
<1>9. Distinct(q)
  <2>1. SUFFICES ASSUME NEW s \in DOMAIN q, NEW t \in DOMAIN q, q[s] = q[t]
                 PROVE  s = t
    BY DEF Distinct
  <2>2. CASE s \in DOMAIN p /\ t \in DOMAIN p
    BY <2>1, <2>2, <1>6 DEF Distinct
  <2>3. CASE s \in N /\ t \in N
    BY <2>1, <2>3, <1>2, <1>5, <1>6
  <2>4. CASE s \in DOMAIN p /\ t \in N
    BY <2>1, <2>4, <1>2, <1>3, <1>6, <1>7
  <2>5. CASE s \in N /\ t \in DOMAIN p
    BY <2>1, <2>5, <1>2, <1>3, <1>6, <1>7
  <2> QED BY <2>2, <2>3, <2>4, <2>5, <1>6
<1>10. Bounded(q)
  <2>1. next + Cardinality(N) \in Nat
    BY <1>2, <1>5
  <2>2. \A t \in DOMAIN q : q[t] =< next + Cardinality(N)
    BY <1>2, <1>3, <1>5, <1>6, <1>7
  <2> QED BY <2>1, <2>2 DEF Bounded
<1>11. \A s \in DOMAIN p, t \in N : q[s] < q[t]
  BY <1>2, <1>3, <1>6, <1>7
<1> QED BY <1>6, <1>8, <1>9, <1>10, <1>11 DEF q, N

LEMMA WithoutColumn ==
    ASSUME NEW p, Column(p), Distinct(p), Bounded(p), NEW T
    PROVE  LET q == Without(p, T)
           IN  /\ DOMAIN q = DOMAIN p \ T
               /\ Column(q) /\ Distinct(q) /\ Bounded(q)
               /\ \A t \in DOMAIN q : q[t] = p[t]
<1> DEFINE q == Without(p, T)
<1>1. q = [t \in DOMAIN p \ T |-> p[t]]
  BY DEF Without
<1>2. DOMAIN q = DOMAIN p \ T /\ \A t \in DOMAIN q : q[t] = p[t]
  BY <1>1
<1> HIDE DEF q
<1>3. Column(q)
  BY <1>1, <1>2 DEF Column
<1>4. Distinct(q)
  BY <1>2 DEF Distinct
<1>5. Bounded(q)
  BY <1>2 DEF Bounded
<1> QED BY <1>2, <1>3, <1>4, <1>5 DEF q

\* A reorder keeps the tracks, each at a position of its own.
LEMMA ReorderedColumn ==
    ASSUME NEW p, Column(p), Distinct(p), NEW keys \in KeyLists
    PROVE  LET q == Reordered(p, keys)
           IN  /\ DOMAIN q = DOMAIN p
               /\ Column(q) /\ Distinct(q) /\ Bounded(q)
<1> DEFINE asked == {t \in DOMAIN p : \E i \in DOMAIN keys : keys[i] = t}
           valid == {i \in DOMAIN keys : keys[i] \in DOMAIN p}
           ahead(t) == {i \in valid : i < LastAt(keys, t)}
           tail == DOMAIN p \ asked
           tailAhead(t) == {s \in tail : p[s] < p[t]}
           q == Reordered(p, keys)
<1>1. q = [t \in DOMAIN p |-> IF t \in asked THEN Cardinality(ahead(t))
                              ELSE Cardinality(valid) + Cardinality(tailAhead(t))]
  BY DEF Reordered
<1>2. IsFiniteSet(valid) /\ IsFiniteSet(tail)
  <2>1. IsFiniteSet(DOMAIN keys) /\ IsFiniteSet(DOMAIN p)
    BY KeyIndices, ColumnFinite
  <2> QED BY <2>1, FS_Subset
<1>3. \A t \in asked : /\ LastAt(keys, t) \in valid
                       /\ LastAt(keys, t) \in Nat
                       /\ keys[LastAt(keys, t)] = t
  BY LastMention
<1>4. valid \subseteq Nat /\ \A t \in DOMAIN p : p[t] \in Nat
  BY KeyIndices DEF Column
<1>5. \A t \in asked : ahead(t) \subseteq valid /\ LastAt(keys, t) \notin ahead(t)
  BY <1>3
<1>6. \A s, t \in asked : LastAt(keys, s) < LastAt(keys, t) =>
          ahead(s) \subseteq ahead(t) /\ LastAt(keys, s) \in ahead(t)
  BY <1>3, <1>4
<1>7. \A t \in tail : tailAhead(t) \subseteq tail /\ t \notin tailAhead(t)
  BY <1>4
<1>8. \A s, t \in tail : p[s] < p[t] =>
          tailAhead(s) \subseteq tailAhead(t) /\ s \in tailAhead(t)
  BY <1>4
<1>9. asked \subseteq DOMAIN p /\ tail = DOMAIN p \ asked
  OBVIOUS
<1> HIDE DEF asked, valid, ahead, tail, tailAhead, q
<1>10. \A t \in asked : /\ Cardinality(ahead(t)) \in Nat
                        /\ Cardinality(valid) \in Nat
                        /\ Cardinality(ahead(t)) < Cardinality(valid)
  BY <1>2, <1>3, <1>5, Fewer
<1>11. \A t \in tail : /\ Cardinality(tailAhead(t)) \in Nat
                       /\ Cardinality(tail) \in Nat
                       /\ Cardinality(tailAhead(t)) < Cardinality(tail)
  BY <1>2, <1>7, Fewer
<1>12. Cardinality(valid) \in Nat /\ Cardinality(tail) \in Nat
  BY <1>2, FS_CardinalityType
<1>13. \A s, t \in asked : LastAt(keys, s) < LastAt(keys, t) =>
           Cardinality(ahead(s)) < Cardinality(ahead(t))
  <2>1. TAKE s, t \in asked
  <2>2. HAVE LastAt(keys, s) < LastAt(keys, t)
  <2>3. IsFiniteSet(ahead(t))
    BY <1>2, <1>5, FS_Subset
  <2>4. LastAt(keys, s) \in ahead(t) \ ahead(s) /\ ahead(s) \subseteq ahead(t)
    BY <2>2, <1>5, <1>6
  <2> QED BY <2>3, <2>4, Fewer
<1>14. \A s, t \in tail : p[s] < p[t] =>
           Cardinality(tailAhead(s)) < Cardinality(tailAhead(t))
  <2>1. TAKE s, t \in tail
  <2>2. HAVE p[s] < p[t]
  <2>3. IsFiniteSet(tailAhead(t))
    BY <1>2, <1>7, FS_Subset
  <2>4. s \in tailAhead(t) \ tailAhead(s) /\ tailAhead(s) \subseteq tailAhead(t)
    BY <2>2, <1>7, <1>8
  <2> QED BY <2>3, <2>4, Fewer
<1>15. /\ DOMAIN q = DOMAIN p
       /\ \A t \in asked : q[t] = Cardinality(ahead(t))
       /\ \A t \in tail : q[t] = Cardinality(valid) + Cardinality(tailAhead(t))
  BY <1>1, <1>9
<1>16. \A t \in DOMAIN q : q[t] \in Nat /\ q[t] =< Cardinality(valid) + Cardinality(tail)
  BY <1>9, <1>10, <1>11, <1>12, <1>15
<1>17. Column(q)
  <2>1. q = [t \in DOMAIN q |-> q[t]]
    BY <1>1, <1>15
  <2> QED BY <2>1, <1>15, <1>16 DEF Column
<1>18. Distinct(q)
  <2>1. SUFFICES ASSUME NEW s \in DOMAIN q, NEW t \in DOMAIN q, q[s] = q[t]
                 PROVE  s = t
    BY DEF Distinct
  <2>2. CASE s \in asked /\ t \in asked
    <3>1. ~(LastAt(keys, s) < LastAt(keys, t)) /\ ~(LastAt(keys, t) < LastAt(keys, s))
      BY <2>1, <2>2, <1>10, <1>13, <1>15
    <3>2. LastAt(keys, s) = LastAt(keys, t)
      BY <3>1, <2>2, <1>3
    <3> QED BY <3>2, <2>2, <1>3
  <2>3. CASE s \in tail /\ t \in tail
    <3>1. Cardinality(tailAhead(s)) = Cardinality(tailAhead(t))
      BY <2>1, <2>3, <1>11, <1>12, <1>15
    <3>2. ~(p[s] < p[t]) /\ ~(p[t] < p[s])
      BY <2>3, <3>1, <1>11, <1>14
    <3>3. s \in DOMAIN p /\ t \in DOMAIN p /\ p[s] = p[t]
      BY <3>2, <1>4, <1>15
    <3> QED BY <3>3 DEF Distinct
  <2>4. CASE s \in asked /\ t \in tail
    BY <2>1, <2>4, <1>10, <1>11, <1>12, <1>15
  <2>5. CASE s \in tail /\ t \in asked
    BY <2>1, <2>5, <1>10, <1>11, <1>12, <1>15
  <2> QED BY <2>2, <2>3, <2>4, <2>5, <1>9, <1>15
<1>19. Bounded(q)
  <2>1. Cardinality(valid) + Cardinality(tail) \in Nat
    BY <1>12
  <2> QED BY <2>1, <1>16 DEF Bounded
<1> QED BY <1>15, <1>17, <1>18, <1>19 DEF q

--------------------------------------------------------------------------------
(* Type correctness, unique positions and who may write *)

Columns ==
    \A l \in Lists : Column(position[l]) /\ Distinct(position[l]) /\ Bounded(position[l])

\* A request that passed the owner check, and an import, may write the list they
\* name for as long as it exists: its id is not given out again meanwhile.
RequestInv ==
    \A r \in Requests : request[r].op = "edit" =>
        /\ request[r].list \in Lists
        /\ owner[request[r].list] # NoUser =>
               request[r].user \in {owner[request[r].list]} \cup Admins

ImportInv ==
    \A w \in Importers :
        import[w].list # NoList /\ owner[import[w].list] # NoUser =>
            import[w].user = owner[import[w].list]

ListInv == TypeOK /\ Columns /\ RequestInv /\ ImportInv

\* What ListInv says of the columns one by one.
LEMMA ColumnsOf ==
    ASSUME ListInv, NEW l \in Lists
    PROVE  /\ Column(position[l]) /\ Distinct(position[l]) /\ Bounded(position[l])
           /\ DOMAIN position[l] \subseteq catalog
           /\ owner[l] = NoUser => position[l] = Empty
<1>1. owner[l] = NoUser => position[l] = Empty
  BY DEF ListInv, TypeOK, Empty
<1> QED BY <1>1 DEF ListInv, TypeOK, Columns

LEMMA EmptyColumn ==
    /\ Column(Empty) /\ Distinct(Empty) /\ Bounded(Empty)
    /\ DOMAIN Empty = {}
    /\ Empty \in [DOMAIN Empty -> Nat]
<1>1. DOMAIN Empty = {} /\ Empty \in [DOMAIN Empty -> Nat]
  BY DEF Empty
<1>2. Bounded(Empty)
  <2>1. 0 \in Nat
    OBVIOUS
  <2> QED BY <1>1, <2>1 DEF Bounded
<1> QED BY <1>1, <1>2 DEF Column, Distinct

\* A write of a proper column keeps ListInv.
LEMMA WriteKeeps ==
    ASSUME ListInv, NEW r \in Requests,
           NEW q, Column(q), Distinct(q), Bounded(q), DOMAIN q \subseteq catalog,
           Write(r, q)
    PROVE  ListInv'
<1> DEFINE l == request[r].list
<1>1. l \in Lists
  BY DEF ListInv, RequestInv, Write
<1>2. /\ request' = [request EXCEPT ![r] = NoRequest]
      /\ UNCHANGED <<catalog, owner, import, mirrored>>
  BY DEF Write
<1>3. position' = position \/ (owner[l] # NoUser /\ position' = [position EXCEPT ![l] = q])
  BY DEF Write
<1> HIDE DEF l
<1>4. position = [k \in Lists |-> position[k]]
  BY DEF ListInv, TypeOK
<1>5. \A k \in Lists :
          \/ position'[k] = position[k]
          \/ owner[k] # NoUser /\ position'[k] = q
  BY <1>1, <1>3, <1>4
<1>6. position' = [k \in Lists |-> position'[k]]
  BY <1>1, <1>3, <1>4
<1>7. TypeOK'
  <2>1. (request \in [Requests -> RequestRecord])'
    <3>1. NoRequest \in RequestRecord
      BY DEF NoRequest, RequestRecord
    <3> QED BY <1>2, <3>1 DEF ListInv, TypeOK
  <2>2. ASSUME NEW k \in Lists
        PROVE  /\ position'[k] \in [DOMAIN position'[k] -> Nat]
               /\ DOMAIN position'[k] \subseteq catalog'
               /\ owner'[k] = NoUser => DOMAIN position'[k] = {}
    BY <1>2, <1>5 DEF ListInv, TypeOK, Column
  <2> QED BY <1>2, <1>6, <2>1, <2>2 DEF ListInv, TypeOK
<1>8. Columns'
  BY <1>5 DEF ListInv, Columns
<1>9. RequestInv' /\ ImportInv'
  BY <1>2 DEF ListInv, TypeOK, RequestInv, ImportInv, NoRequest
<1> QED BY <1>7, <1>8, <1>9 DEF ListInv

LEMMA EditColumns ==
    ASSUME ListInv, NEW r \in Requests, request[r].op = "edit"
    PROVE  /\ request[r].list \in Lists
           /\ Column(position[request[r].list])
           /\ Distinct(position[request[r].list])
           /\ Bounded(position[request[r].list])
           /\ DOMAIN position[request[r].list] \subseteq catalog
<1>1. request[r].list \in Lists
  BY DEF ListInv, RequestInv
<1> QED BY <1>1, ColumnsOf

\* Each edit writes a proper column.
LEMMA AddTracksWrites ==
    ASSUME ListInv, NEW r \in Requests, AddTracks(r)
    PROVE  \E keys \in KeyLists :
               LET p == position[request[r].list]
                   q == Appended(p, keys)
               IN  /\ Write(r, q)
                   /\ Column(q) /\ Distinct(q) /\ Bounded(q)
                   /\ DOMAIN q \subseteq catalog
<1>1. PICK keys \in KeyLists :
          request[r].op = "edit" /\ Write(r, Appended(position[request[r].list], keys))
  BY DEF AddTracks
<1>2. New(position[request[r].list], keys) \subseteq catalog
  BY DEF New
<1> DEFINE p == position[request[r].list]
           q == Appended(p, keys)
<1>3. Column(p) /\ Distinct(p) /\ Bounded(p) /\ DOMAIN p \subseteq catalog
  BY <1>1, EditColumns
<1> HIDE DEF p
<1>4. Column(q) /\ Distinct(q) /\ Bounded(q) /\ DOMAIN q = DOMAIN p \cup New(p, keys)
  BY <1>3, AppendedColumn
<1> QED BY <1>1, <1>2, <1>3, <1>4 DEF p

LEMMA RemoveTrackWrites ==
    ASSUME ListInv, NEW r \in Requests, RemoveTrack(r)
    PROVE  \E t \in Tracks :
               LET q == Without(position[request[r].list], {t})
               IN  /\ Write(r, q)
                   /\ Column(q) /\ Distinct(q) /\ Bounded(q)
                   /\ DOMAIN q \subseteq catalog
<1>1. PICK t \in Tracks :
          request[r].op = "edit" /\ Write(r, Without(position[request[r].list], {t}))
  BY DEF RemoveTrack
<1> DEFINE p == position[request[r].list]
           q == Without(p, {t})
<1>2. Column(p) /\ Distinct(p) /\ Bounded(p) /\ DOMAIN p \subseteq catalog
  BY <1>1, EditColumns
<1> HIDE DEF p
<1>3. Column(q) /\ Distinct(q) /\ Bounded(q) /\ DOMAIN q = DOMAIN p \ {t}
  BY <1>2, WithoutColumn
<1> QED BY <1>1, <1>2, <1>3 DEF p

LEMMA ReorderWrites ==
    ASSUME ListInv, NEW r \in Requests, ReorderPlaylist(r)
    PROVE  \E keys \in KeyLists :
               LET q == Reordered(position[request[r].list], keys)
               IN  /\ Write(r, q)
                   /\ Column(q) /\ Distinct(q) /\ Bounded(q)
                   /\ DOMAIN q = DOMAIN position[request[r].list]
                   /\ DOMAIN q \subseteq catalog
<1>1. PICK keys \in KeyLists :
          request[r].op = "edit" /\ Write(r, Reordered(position[request[r].list], keys))
  BY DEF ReorderPlaylist
<1> QED BY <1>1, EditColumns, ReorderedColumn

LEMMA ImportTrackWrites ==
    ASSUME ListInv, NEW w \in Importers, ImportTrack(w)
    PROVE  LET l == import[w].list
           IN  /\ l \in Lists
               /\ owner[l] = import[w].user
               /\ owner[l] # NoUser
               /\ \E keys \in KeyLists :
                      LET q == Appended(position[l], keys)
                      IN  /\ position' = [position EXCEPT ![l] = q]
                          /\ Column(q) /\ Distinct(q) /\ Bounded(q)
                          /\ DOMAIN q \subseteq catalog
<1> DEFINE l == import[w].list
           p == position[l]
<1>1. l \in Lists /\ l # NoList /\ owner[l] # NoUser
  BY DEF ImportTrack, ListInv, TypeOK, ImportRecord
<1>2. owner[l] = import[w].user
  BY <1>1 DEF ListInv, ImportInv
<1>3. PICK t \in catalog :
          position' = [position EXCEPT ![l] = Appended(@, [i \in 1 .. 1 |-> t])]
  BY DEF ImportTrack
<1> DEFINE keys == [i \in 1 .. 1 |-> t]
           q == Appended(p, keys)
<1>4. keys \in KeyLists
  <2>1. 1 \in 0 .. MaxKeys
    BY PlaylistsAssumption
  <2>2. keys \in [1 .. 1 -> Tracks]
    BY DEF ListInv, TypeOK
  <2> QED BY <2>1, <2>2 DEF KeyLists
<1>5. Column(p) /\ Distinct(p) /\ Bounded(p) /\ DOMAIN p \subseteq catalog
  BY <1>1, ColumnsOf
<1>6. position' = [position EXCEPT ![l] = q]
  BY <1>1, <1>3 DEF ListInv, TypeOK
<1> HIDE DEF p, keys
<1>7. Column(q) /\ Distinct(q) /\ Bounded(q) /\ DOMAIN q = DOMAIN p \cup New(p, keys)
  BY <1>4, <1>5, AppendedColumn
<1>8. DOMAIN q \subseteq catalog
  BY <1>5, <1>7 DEF New
<1> QED BY <1>1, <1>2, <1>4, <1>6, <1>7, <1>8 DEF p

LEMMA InitHolds == Init => ListInv
<1> SUFFICES ASSUME Init PROVE ListInv
  OBVIOUS
<1>1. \A l \in Lists : position[l] = Empty
  BY DEF Init
<1>2. TypeOK
  <2>1. /\ request \in [Requests -> RequestRecord]
        /\ import \in [Importers -> ImportRecord]
    BY DEF Init, NoRequest, NoImport, RequestRecord, ImportRecord
  <2> QED BY <1>1, <2>1, EmptyColumn DEF Init, TypeOK
<1>3. Columns
  BY <1>1, EmptyColumn DEF Columns
<1>4. RequestInv /\ ImportInv
  BY DEF Init, RequestInv, ImportInv, NoRequest, NoImport
<1> QED BY <1>2, <1>3, <1>4 DEF ListInv

LEMMA NextKeeps == ListInv /\ [Next]_vars => ListInv'
<1> SUFFICES ASSUME ListInv, [Next]_vars PROVE ListInv'
  OBVIOUS
<1> USE DEF ListInv
<1>1. ASSUME NEW r \in Requests, CountPlaylists(r) PROVE ListInv'
  <2>1. PICK u \in Users :
            request' = [request EXCEPT ![r] = [NoRequest EXCEPT !.op = "create", !.user = u]]
    BY <1>1 DEF CountPlaylists
  <2>2. UNCHANGED <<catalog, owner, position, import, mirrored>>
    BY <1>1 DEF CountPlaylists
  <2>3. (request \in [Requests -> RequestRecord])'
    BY <2>1 DEF TypeOK, RequestRecord, NoRequest
  <2>4. TypeOK'
    BY <2>2, <2>3 DEF TypeOK
  <2>5. Columns' /\ ImportInv'
    BY <2>2 DEF Columns, ImportInv
  <2>6. RequestInv'
    BY <2>1, <2>2 DEF TypeOK, RequestInv, NoRequest
  <2> QED BY <2>4, <2>5, <2>6
<1>2. ASSUME NEW r \in Requests, CreatePlaylist(r) PROVE ListInv'
  <2> DEFINE u == request[r].user
  <2>1. PICK l \in Lists : Create(l, u) /\ mirrored' = mirrored \ {l}
    BY <1>2 DEF CreatePlaylist
  <2>2. /\ request' = [request EXCEPT ![r] = NoRequest]
        /\ UNCHANGED <<catalog, position, import>>
    BY <1>2 DEF CreatePlaylist
  <2>3. /\ owner' = [owner EXCEPT ![l] = u]
        /\ owner[l] = NoUser
        /\ \A k \in Requests : request[k].list # l
        /\ \A w \in Importers : import[w].list # l
    BY <2>1 DEF Create, Fresh
  <2>4. u \in Users \cup {NoUser}
    BY DEF TypeOK, RequestRecord
  <2> HIDE DEF u
  <2>5. TypeOK'
    <3>1. (request \in [Requests -> RequestRecord])'
      BY <2>2 DEF TypeOK, RequestRecord, NoRequest
    <3>2. \A k \in Lists : owner'[k] = NoUser => owner[k] = NoUser
      BY <2>3 DEF TypeOK
    <3> QED BY <2>1, <2>2, <2>3, <2>4, <3>1, <3>2 DEF TypeOK
  <2>6. Columns'
    BY <2>2 DEF Columns
  <2>7. \A k \in Lists : k # l => owner'[k] = owner[k]
    BY <2>3 DEF TypeOK
  <2>8. RequestInv'
    BY <2>2, <2>3, <2>7 DEF TypeOK, RequestInv, NoRequest
  <2>9. ImportInv'
    BY <2>2, <2>3, <2>7 DEF TypeOK, ImportInv, ImportRecord
  <2> QED BY <2>5, <2>6, <2>8, <2>9
<1>3. ASSUME NEW r \in Requests, CheckOwner(r) PROVE ListInv'
  <2>1. PICK u \in Users, l \in Lists :
            /\ u \in {owner[l]} \cup Admins
            /\ request' = [request EXCEPT ![r] = [op |-> "edit", user |-> u, list |-> l]]
    BY <1>3 DEF CheckOwner
  <2>2. UNCHANGED <<catalog, owner, position, import, mirrored>>
    BY <1>3 DEF CheckOwner
  <2>3. (request \in [Requests -> RequestRecord])'
    BY <2>1 DEF TypeOK, RequestRecord
  <2>4. TypeOK'
    BY <2>2, <2>3 DEF TypeOK
  <2>5. Columns' /\ ImportInv'
    BY <2>2 DEF Columns, ImportInv
  <2>6. RequestInv'
    BY <2>1, <2>2 DEF TypeOK, RequestInv
  <2> QED BY <2>4, <2>5, <2>6
<1>4. ASSUME NEW r \in Requests, AddTracks(r) PROVE ListInv'
  BY <1>4, AddTracksWrites, WriteKeeps
<1>5. ASSUME NEW r \in Requests, RemoveTrack(r) PROVE ListInv'
  BY <1>5, RemoveTrackWrites, WriteKeeps
<1>6. ASSUME NEW r \in Requests, ReorderPlaylist(r) PROVE ListInv'
  BY <1>6, ReorderWrites, WriteKeeps
<1>7. ASSUME NEW r \in Requests, DeletePlaylist(r) PROVE ListInv'
  <2> DEFINE l == request[r].list
  <2>1. l \in Lists
    BY <1>7 DEF DeletePlaylist, RequestInv
  <2>2. /\ owner' = [owner EXCEPT ![l] = NoUser]
        /\ position' = [position EXCEPT ![l] = Empty]
        /\ request' = [request EXCEPT ![r] = NoRequest]
        /\ UNCHANGED <<catalog, import, mirrored>>
    BY <1>7 DEF DeletePlaylist
  <2> HIDE DEF l
  <2>3. position = [k \in Lists |-> position[k]] /\ owner \in [Lists -> Users \cup {NoUser}]
    BY DEF TypeOK
  <2>4. /\ \A k \in Lists : k # l => position'[k] = position[k] /\ owner'[k] = owner[k]
        /\ position'[l] = Empty /\ owner'[l] = NoUser
        /\ position' = [k \in Lists |-> position'[k]]
    BY <2>1, <2>2, <2>3
  <2>5. TypeOK'
    <3>1. (request \in [Requests -> RequestRecord])'
      BY <2>2 DEF TypeOK, RequestRecord, NoRequest
    <3>2. ASSUME NEW k \in Lists
          PROVE  /\ position'[k] \in [DOMAIN position'[k] -> Nat]
                 /\ DOMAIN position'[k] \subseteq catalog'
                 /\ owner'[k] = NoUser => DOMAIN position'[k] = {}
      BY <2>2, <2>4, EmptyColumn DEF TypeOK
    <3>3. owner' \in [Lists -> Users \cup {NoUser}]
      BY <2>2, <2>3
    <3> QED BY <2>2, <2>4, <3>1, <3>2, <3>3 DEF TypeOK
  <2>6. Columns'
    BY <2>4, EmptyColumn DEF Columns
  <2>7. RequestInv'
    BY <2>2, <2>4 DEF TypeOK, RequestInv, NoRequest
  <2>8. ImportInv'
    BY <2>2, <2>4 DEF TypeOK, ImportInv, ImportRecord
  <2> QED BY <2>5, <2>6, <2>7, <2>8
<1>8. ASSUME NEW w \in Importers, MirrorPlaylist(w) PROVE ListInv'
  <2>1. PICK u \in Users, l \in Lists :
            /\ Create(l, u)
            /\ mirrored' = mirrored \cup {l}
            /\ import' = [import EXCEPT ![w] = [user |-> u, list |-> l]]
    BY <1>8 DEF MirrorPlaylist
  <2>2. UNCHANGED <<catalog, position, request>>
    BY <1>8 DEF MirrorPlaylist
  <2>3. /\ owner' = [owner EXCEPT ![l] = u]
        /\ owner[l] = NoUser
        /\ \A k \in Requests : request[k].list # l
        /\ \A k \in Importers : import[k].list # l
    BY <2>1 DEF Create, Fresh
  <2>4. TypeOK'
    <3>1. (import \in [Importers -> ImportRecord])'
      BY <2>1 DEF TypeOK, ImportRecord
    <3>2. \A k \in Lists : owner'[k] = NoUser => owner[k] = NoUser
      BY <2>3 DEF TypeOK
    <3> QED BY <2>1, <2>2, <2>3, <3>1, <3>2 DEF TypeOK
  <2>5. Columns'
    BY <2>2 DEF Columns
  <2>6. \A k \in Lists : k # l => owner'[k] = owner[k]
    BY <2>3 DEF TypeOK
  <2>7. RequestInv'
    BY <2>2, <2>3, <2>6 DEF TypeOK, RequestInv
  <2>8. ImportInv'
    BY <2>1, <2>3, <2>6 DEF TypeOK, ImportInv, ImportRecord
  <2> QED BY <2>4, <2>5, <2>7, <2>8
<1>9. ASSUME NEW w \in Importers, ImportTrack(w) PROVE ListInv'
  <2> DEFINE l == import[w].list
  <2>1. PICK keys \in KeyLists :
            LET q == Appended(position[l], keys)
            IN  /\ position' = [position EXCEPT ![l] = q]
                /\ Column(q) /\ Distinct(q) /\ Bounded(q)
                /\ DOMAIN q \subseteq catalog
    BY <1>9, ImportTrackWrites
  <2>2. l \in Lists /\ owner[l] # NoUser
    BY <1>9, ImportTrackWrites
  <2>3. UNCHANGED <<catalog, owner, request, import, mirrored>>
    BY <1>9 DEF ImportTrack
  <2> DEFINE q == Appended(position[l], keys)
  <2> HIDE DEF l
  <2>4. /\ position' = [position EXCEPT ![l] = q]
        /\ Column(q) /\ Distinct(q) /\ Bounded(q)
        /\ DOMAIN q \subseteq catalog
    BY <2>1
  <2> HIDE DEF q
  <2>5. position = [k \in Lists |-> position[k]]
    BY DEF TypeOK
  <2>6. /\ \A k \in Lists : k # l => position'[k] = position[k]
        /\ position'[l] = q
        /\ position' = [k \in Lists |-> position'[k]]
    BY <2>2, <2>4, <2>5
  <2>7. TypeOK'
    <3>1. ASSUME NEW k \in Lists
          PROVE  /\ position'[k] \in [DOMAIN position'[k] -> Nat]
                 /\ DOMAIN position'[k] \subseteq catalog'
                 /\ owner'[k] = NoUser => DOMAIN position'[k] = {}
      BY <2>2, <2>3, <2>4, <2>6 DEF TypeOK, Column
    <3> QED BY <2>3, <2>6, <3>1 DEF TypeOK
  <2>8. Columns'
    BY <2>4, <2>6 DEF Columns
  <2>9. RequestInv' /\ ImportInv'
    BY <2>3 DEF RequestInv, ImportInv
  <2> QED BY <2>7, <2>8, <2>9
<1>10. ASSUME NEW w \in Importers, EndImport(w) PROVE ListInv'
  <2>1. /\ import' = [import EXCEPT ![w] = NoImport]
        /\ UNCHANGED <<catalog, owner, position, request, mirrored>>
    BY <1>10 DEF EndImport
  <2>2. (import \in [Importers -> ImportRecord])'
    BY <2>1 DEF TypeOK, ImportRecord, NoImport
  <2>3. TypeOK'
    BY <2>1, <2>2 DEF TypeOK
  <2>4. Columns' /\ RequestInv'
    BY <2>1 DEF Columns, RequestInv
  <2>5. ImportInv'
    BY <2>1 DEF TypeOK, ImportInv, NoImport
  <2> QED BY <2>3, <2>4, <2>5
<1>11. ASSUME RegisterTrack PROVE ListInv'
  <2>1. /\ catalog \subseteq catalog' /\ catalog' \subseteq Tracks
        /\ UNCHANGED <<owner, position, request, import, mirrored>>
    BY <1>11 DEF RegisterTrack, TypeOK
  <2>2. TypeOK'
    BY <2>1 DEF TypeOK
  <2> QED BY <2>1, <2>2 DEF Columns, RequestInv, ImportInv
<1>12. ASSUME NEW t \in Tracks, DeleteTrack(t) PROVE ListInv'
  <2>1. /\ catalog' = catalog \ {t}
        /\ position' = [l \in Lists |-> Without(position[l], {t})]
        /\ UNCHANGED <<owner, request, import, mirrored>>
    BY <1>12 DEF DeleteTrack
  <2>2. ASSUME NEW l \in Lists
        PROVE  /\ DOMAIN position'[l] = DOMAIN position[l] \ {t}
               /\ Column(position'[l]) /\ Distinct(position'[l]) /\ Bounded(position'[l])
    <3>1. position'[l] = Without(position[l], {t})
      BY <2>1
    <3>2. Column(position[l]) /\ Distinct(position[l]) /\ Bounded(position[l])
      BY DEF Columns
    <3> DEFINE p == position[l]
    <3> HIDE DEF p
    <3>3. LET q == Without(p, {t})
          IN  DOMAIN q = DOMAIN p \ {t} /\ Column(q) /\ Distinct(q) /\ Bounded(q)
      BY <3>2, WithoutColumn DEF p
    <3> QED BY <3>1, <3>3 DEF p
  <2>3. TypeOK'
    <3>1. position' = [l \in Lists |-> position'[l]]
      BY <2>1
    <3> QED BY <2>1, <2>2, <3>1 DEF TypeOK, Column
  <2>4. Columns'
    BY <2>2 DEF Columns
  <2> QED BY <2>1, <2>3, <2>4 DEF RequestInv, ImportInv
<1>13. ASSUME Restart PROVE ListInv'
  <2>1. /\ request' = [r \in Requests |-> NoRequest]
        /\ import' = [w \in Importers |-> NoImport]
        /\ UNCHANGED <<catalog, owner, position, mirrored>>
    BY <1>13 DEF Restart
  <2>2. TypeOK'
    BY <2>1 DEF TypeOK, RequestRecord, ImportRecord, NoRequest, NoImport
  <2> QED BY <2>1, <2>2 DEF Columns, RequestInv, ImportInv, NoRequest, NoImport
<1>14. ASSUME UNCHANGED vars PROVE ListInv'
  BY <1>14 DEF vars, TypeOK, Columns, RequestInv, ImportInv
<1> QED BY <1>1, <1>2, <1>3, <1>4, <1>5, <1>6, <1>7, <1>8, <1>9, <1>10,
           <1>11, <1>12, <1>13, <1>14 DEF Next, Edit

LEMMA Invariance == Spec => []ListInv
<1>1. Init => ListInv
  BY InitHolds
<1>2. ListInv /\ [Next]_vars => ListInv'
  BY NextKeeps
<1> QED BY <1>1, <1>2, PTL DEF Spec

\* Types hold: no row of playlist_tracks outlives its playlist or its track (the
\* cascades of delete_playlist and delete_track_master).
THEOREM TypeCorrect == Spec => []TypeOK
<1>1. ListInv => TypeOK
  BY DEF ListInv
<1> QED BY <1>1, Invariance, PTL

\* Appends after removals, reorders with missing, unknown or repeated keys, and
\* deletions in between leave every position of a playlist taken once
\* (add_tracks_to_playlist, reorder_playlist).
THEOREM PositionsCorrect == Spec => []UniquePositions
<1>1. ListInv => UniquePositions
  BY DEF ListInv, Columns, Distinct, UniquePositions
<1> QED BY <1>1, Invariance, PTL

\* The owner checked before the write is still the owner when it is written
\* (_ensure_playlist_owner and the routes behind it).
THEOREM OwnersCorrect == Spec => OwnersOnly
<1> DEFINE Allowed(l) ==
        position'[l] # position[l] =>
            \/ catalog' # catalog
            \/ \E r \in Requests : /\ request'[r] # request[r]
                                   /\ request[r].list = l
                                   /\ request[r].user \in {owner[l]} \cup Admins
            \/ \E w \in Importers : import[w] = [user |-> owner[l], list |-> l]
<1>1. ASSUME ListInv, [Next]_vars, NEW l \in Lists PROVE Allowed(l)
  <2>1. ASSUME NEW r \in Requests, NEW q, Write(r, q) PROVE Allowed(l)
    <3>1. /\ request[r].op = "edit" /\ request' = [request EXCEPT ![r] = NoRequest]
          /\ \/ position' = position
             \/ /\ owner[request[r].list] # NoUser
                /\ position' = [position EXCEPT ![request[r].list] = q]
      BY <2>1 DEF Write
    <3>2. position'[l] # position[l] => l = request[r].list /\ owner[l] # NoUser
      BY <1>1, <3>1 DEF ListInv, TypeOK
    <3>3. request'[r] # request[r]
      BY <1>1, <3>1 DEF ListInv, TypeOK, NoRequest
    <3>4. l = request[r].list /\ owner[l] # NoUser =>
              request[r].user \in {owner[l]} \cup Admins
      BY <1>1, <3>1 DEF ListInv, RequestInv
    <3> QED BY <3>2, <3>3, <3>4
  <2>2. ASSUME NEW r \in Requests, DeletePlaylist(r) PROVE Allowed(l)
    <3>1. /\ request[r].op = "edit" /\ request' = [request EXCEPT ![r] = NoRequest]
          /\ position' = [position EXCEPT ![request[r].list] = Empty]
      BY <2>2 DEF DeletePlaylist
    <3>2. position'[l] # position[l] => l = request[r].list /\ owner[l] # NoUser
      BY <1>1, <3>1, ColumnsOf DEF ListInv, TypeOK
    <3>3. request'[r] # request[r]
      BY <1>1, <3>1 DEF ListInv, TypeOK, NoRequest
    <3>4. l = request[r].list /\ owner[l] # NoUser =>
              request[r].user \in {owner[l]} \cup Admins
      BY <1>1, <3>1 DEF ListInv, RequestInv
    <3> QED BY <3>2, <3>3, <3>4
  <2>3. ASSUME NEW w \in Importers, ImportTrack(w) PROVE Allowed(l)
    <3>1. /\ owner[import[w].list] = import[w].user
          /\ \E q : position' = [position EXCEPT ![import[w].list] = q]
      BY <1>1, <2>3, ImportTrackWrites
    <3>2. position'[l] # position[l] => l = import[w].list
      BY <1>1, <3>1 DEF ListInv, TypeOK
    <3>3. import[w] = [user |-> import[w].user, list |-> import[w].list]
      BY <1>1 DEF ListInv, TypeOK, ImportRecord
    <3> QED BY <3>1, <3>2, <3>3
  <2>4. ASSUME NEW t \in Tracks, DeleteTrack(t) PROVE catalog' # catalog
    BY <2>4 DEF DeleteTrack
  <2>5. ASSUME NEW r \in Requests, Edit(r) PROVE Allowed(l)
    BY <2>1, <2>2, <2>5 DEF Edit, AddTracks, RemoveTrack, ReorderPlaylist
  <2>6. ASSUME \/ UNCHANGED vars
               \/ \E r \in Requests :
                      CountPlaylists(r) \/ CreatePlaylist(r) \/ CheckOwner(r)
               \/ \E w \in Importers : MirrorPlaylist(w) \/ EndImport(w)
               \/ RegisterTrack \/ Restart
        PROVE  position' = position
    BY <2>6 DEF vars, CountPlaylists, CreatePlaylist, CheckOwner, MirrorPlaylist,
                EndImport, RegisterTrack, Restart
  <2> QED BY <1>1, <2>3, <2>4, <2>5, <2>6 DEF Next
<1>2. ListInv /\ [Next]_vars => [\A l \in Lists : Allowed(l)]_vars
  BY <1>1
<1> QED BY <1>2, Invariance, PTL DEF Spec, OwnersOnly

--------------------------------------------------------------------------------
(* The cap on playlists *)

LEMMA CountsFinite ==
    ASSUME NEW A \in SUBSET Lists, NEW C \in SUBSET Requests
    PROVE  /\ IsFiniteSet(A) /\ IsFiniteSet(C)
           /\ Cardinality(A) \in Nat
           /\ Cardinality(C) \in Nat
           /\ Cardinality(Requests) \in Nat
           /\ Cardinality(C) =< Cardinality(Requests)
BY PlaylistsAssumption, FS_Subset, FS_CardinalityType

\* The counts of one user after a step that makes them no larger.
LEMMA CountsShrink ==
    ASSUME TypeOK, CapOvershoot, NEW u \in Users,
           NEW A \in SUBSET (Owned(u) \ mirrored), NEW C \in SUBSET Creating(u)
    PROVE  Cardinality(A) + Cardinality(C) < MaxPlaylists + Cardinality(Requests)
<1>1. Owned(u) \ mirrored \subseteq Lists /\ Creating(u) \subseteq Requests
  BY DEF Owned, Creating
<1>2. Cardinality(Owned(u) \ mirrored) + Cardinality(Creating(u))
          < MaxPlaylists + Cardinality(Requests)
  BY DEF CapOvershoot
<1>3. /\ Cardinality(A) =< Cardinality(Owned(u) \ mirrored)
      /\ Cardinality(C) =< Cardinality(Creating(u))
      /\ Cardinality(Owned(u) \ mirrored) \in Nat
      /\ Cardinality(Creating(u)) \in Nat
      /\ Cardinality(A) \in Nat
      /\ Cardinality(C) \in Nat
  BY <1>1, CountsFinite, NoMore
<1>4. Cardinality(Requests) \in Nat /\ MaxPlaylists \in Nat
  BY PlaylistsAssumption, FS_CardinalityType
<1> QED BY <1>2, <1>3, <1>4

LEMMA CapKept ==
    ASSUME TypeOK, CapOvershoot, [Next]_vars, NEW u \in Users
    PROVE  (Cardinality(Owned(u) \ mirrored) + Cardinality(Creating(u))
                < MaxPlaylists + Cardinality(Requests))'
<1> DEFINE Fine == (Cardinality(Owned(u) \ mirrored) + Cardinality(Creating(u))
                        < MaxPlaylists + Cardinality(Requests))'
<1>1. ASSUME (Owned(u) \ mirrored)' \subseteq Owned(u) \ mirrored,
             Creating(u)' \subseteq Creating(u)
      PROVE  Fine
  BY <1>1, CountsShrink
<1>2. ASSUME NEW r \in Requests, CountPlaylists(r) PROVE Fine
  <2>1. PICK v \in Users :
            /\ Cardinality(Owned(v)) < MaxPlaylists
            /\ request' = [request EXCEPT ![r] = [NoRequest EXCEPT !.op = "create", !.user = v]]
    BY <1>2 DEF CountPlaylists
  <2>2. UNCHANGED <<owner, mirrored>>
    BY <1>2 DEF CountPlaylists
  <2>3. CASE u = v
    <3>1. (Owned(u) \ mirrored)' \subseteq Owned(u) /\ Owned(u) \subseteq Lists
      BY <2>2 DEF Owned
    <3>2. Creating(u)' \subseteq Requests
      BY DEF Creating
    <3>3. /\ Cardinality((Owned(u) \ mirrored)') =< Cardinality(Owned(u))
          /\ Cardinality((Owned(u) \ mirrored)') \in Nat
          /\ Cardinality(Owned(u)) \in Nat
      BY <3>1, CountsFinite, NoMore
    <3>4. /\ Cardinality(Creating(u)') =< Cardinality(Requests)
          /\ Cardinality(Creating(u)') \in Nat
          /\ Cardinality(Requests) \in Nat
      BY <3>2, CountsFinite
    <3>5. MaxPlaylists \in Nat /\ Cardinality(Owned(u)) < MaxPlaylists
      BY <2>1, <2>3, PlaylistsAssumption
    <3> QED BY <3>3, <3>4, <3>5
  <2>4. CASE u # v
    <3>1. Creating(u)' \subseteq Creating(u)
      BY <2>1, <2>4 DEF TypeOK, Creating, NoRequest
    <3> QED BY <2>2, <3>1, <1>1 DEF Owned
  <2> QED BY <2>3, <2>4
<1>3. ASSUME NEW r \in Requests, CreatePlaylist(r) PROVE Fine
  <2>1. PICK l \in Lists : Create(l, request[r].user) /\ mirrored' = mirrored \ {l}
    BY <1>3 DEF CreatePlaylist
  <2>2. /\ request[r].op = "create"
        /\ request' = [request EXCEPT ![r] = NoRequest]
    BY <1>3 DEF CreatePlaylist
  <2>3. owner[l] = NoUser /\ owner' = [owner EXCEPT ![l] = request[r].user]
    BY <2>1 DEF Create, Fresh
  <2>4. CASE request[r].user = u
    <3> DEFINE A == Owned(u) \ mirrored
               C == Creating(u)
    <3>1. A' \subseteq A \cup {l}
      BY <2>1, <2>3 DEF Owned, TypeOK
    <3>2. C' = C \ {r} /\ r \in C
      BY <2>2, <2>4 DEF Creating, TypeOK, NoRequest
    <3>3. A \subseteq Lists /\ C \subseteq Requests
      BY DEF Owned, Creating
    <3>4. Cardinality(A) + Cardinality(C) < MaxPlaylists + Cardinality(Requests)
      BY DEF CapOvershoot
    <3> HIDE DEF A, C
    <3>5. /\ IsFiniteSet(A) /\ IsFiniteSet(C)
          /\ Cardinality(A) \in Nat /\ Cardinality(C) \in Nat
          /\ Cardinality(Requests) \in Nat
      BY <3>3, CountsFinite
    <3>6. /\ IsFiniteSet(A \cup {l})
          /\ Cardinality(A \cup {l}) =< Cardinality(A) + 1
      BY <3>5, OneMore
    <3>7. /\ Cardinality(A') \in Nat
          /\ Cardinality(A \cup {l}) \in Nat
          /\ Cardinality(A') =< Cardinality(A \cup {l})
      BY <3>1, <3>6, NoMore
    <3>8. Cardinality(C') = Cardinality(C) - 1
      BY <3>2, <3>5, FS_RemoveElement
    <3>9. MaxPlaylists \in Nat
      BY PlaylistsAssumption
    <3>10. Cardinality(A') + Cardinality(C') < MaxPlaylists + Cardinality(Requests)
      BY <3>4, <3>5, <3>6, <3>7, <3>8, <3>9
    <3> QED BY <3>10 DEF A, C
  <2>5. CASE request[r].user # u
    <3>1. (Owned(u) \ mirrored)' \subseteq Owned(u) \ mirrored
      BY <2>1, <2>3, <2>5 DEF Owned, TypeOK
    <3>2. Creating(u)' \subseteq Creating(u)
      BY <2>2 DEF Creating, TypeOK, NoRequest
    <3> QED BY <3>1, <3>2, <1>1
  <2> QED BY <2>4, <2>5
<1>4. ASSUME NEW r \in Requests, CheckOwner(r) PROVE Fine
  <2>1. Creating(u)' \subseteq Creating(u)
    BY <1>4 DEF CheckOwner, Creating, TypeOK
  <2> QED BY <2>1, <1>1, <1>4 DEF CheckOwner, Owned
<1>5. ASSUME NEW r \in Requests, Edit(r) PROVE Fine
  <2>1. request' = [request EXCEPT ![r] = NoRequest] /\ mirrored' = mirrored
    BY <1>5 DEF Edit, AddTracks, RemoveTrack, ReorderPlaylist, DeletePlaylist, Write
  <2>2. owner' = owner \/ owner' = [owner EXCEPT ![request[r].list] = NoUser]
    BY <1>5 DEF Edit, AddTracks, RemoveTrack, ReorderPlaylist, DeletePlaylist, Write
  <2>3. Creating(u)' \subseteq Creating(u)
    BY <2>1 DEF Creating, TypeOK, NoRequest
  <2>4. (Owned(u) \ mirrored)' \subseteq Owned(u) \ mirrored
    BY <2>1, <2>2, PlaylistsAssumption DEF Owned, TypeOK
  <2> QED BY <2>3, <2>4, <1>1
<1>6. ASSUME NEW w \in Importers, MirrorPlaylist(w) PROVE Fine
  <2>1. PICK v \in Users, l \in Lists :
            owner' = [owner EXCEPT ![l] = v] /\ mirrored' = mirrored \cup {l}
    BY <1>6 DEF MirrorPlaylist, Create
  <2>2. (Owned(u) \ mirrored)' \subseteq Owned(u) \ mirrored
    BY <2>1 DEF Owned, TypeOK
  <2>3. Creating(u)' = Creating(u)
    BY <1>6 DEF MirrorPlaylist, Creating
  <2> QED BY <2>2, <2>3, <1>1
<1>7. ASSUME Restart PROVE Fine
  <2>1. Creating(u)' \subseteq Creating(u)
    BY <1>7 DEF Restart, Creating, NoRequest
  <2> QED BY <2>1, <1>1, <1>7 DEF Restart, Owned
<1>8. ASSUME \/ UNCHANGED vars \/ RegisterTrack
             \/ \E w \in Importers : ImportTrack(w) \/ EndImport(w)
             \/ \E t \in Tracks : DeleteTrack(t)
      PROVE  Fine
  <2>1. UNCHANGED <<owner, mirrored, request>>
    BY <1>8 DEF vars, RegisterTrack, ImportTrack, EndImport, DeleteTrack
  <2> QED BY <2>1, <1>1 DEF Owned, Creating
<1> QED BY <1>2, <1>3, <1>4, <1>5, <1>6, <1>7, <1>8 DEF Next

\* However requests that create playlists interleave, one user exceeds the cap by
\* less than the number of requests (the create_playlist route, count_playlists).
THEOREM CapCorrect == Spec => []CapOvershoot
<1>1. Init => CapOvershoot
  <2>1. SUFFICES ASSUME Init, NEW u \in Users
                 PROVE  Cardinality(Owned(u) \ mirrored) + Cardinality(Creating(u))
                            < MaxPlaylists + Cardinality(Requests)
    BY DEF CapOvershoot
  <2>2. Owned(u) = {} /\ Creating(u) = {}
    BY <2>1, PlaylistsAssumption DEF Init, Owned, Creating, NoRequest
  <2>3. /\ Cardinality(Owned(u) \ mirrored) = 0
        /\ Cardinality(Creating(u)) = 0
    BY <2>2, FS_EmptySet
  <2>4. MaxPlaylists \in Nat \ {0} /\ Cardinality(Requests) \in Nat
    BY PlaylistsAssumption, FS_CardinalityType
  <2> QED BY <2>3, <2>4
<1>2. TypeOK /\ CapOvershoot /\ [Next]_vars => CapOvershoot'
  BY CapKept DEF CapOvershoot
<1> QED BY <1>1, <1>2, TypeCorrect, PTL DEF Spec

--------------------------------------------------------------------------------
(* Playlists implements OrderedLists *)

\* The pairs of a column in their order.
Pairs(p) == {e \in (DOMAIN p) \X (DOMAIN p) : p[e[1]] < p[e[2]]}

LEMMA SamePairs ==
    ASSUME NEW D, NEW A \in SUBSET (D \X D), NEW B \in SUBSET (D \X D),
           \A s, t \in D : <<s, t>> \in A <=> <<s, t>> \in B
    PROVE  A = B
OBVIOUS

LEMMA PairsOf ==
    ASSUME NEW p
    PROVE  /\ Pairs(p) \in SUBSET ((DOMAIN p) \X (DOMAIN p))
           /\ \A s, t : <<s, t>> \in Pairs(p) <=>
                  s \in DOMAIN p /\ t \in DOMAIN p /\ p[s] < p[t]
BY DEF Pairs

\* Pairs of a column without some of its tracks.
LEMMA PairsWithin ==
    ASSUME NEW p, NEW q, NEW T, DOMAIN q = DOMAIN p \ T,
           \A t \in DOMAIN q : q[t] = p[t]
    PROVE  Pairs(q) = Ordered!Within(Pairs(p), DOMAIN p \ T)
<1> DEFINE W == Ordered!Within(Pairs(p), DOMAIN p \ T)
<1>1. W \in SUBSET ((DOMAIN q) \X (DOMAIN q))
  <2>1. ASSUME NEW e \in W PROVE e \in (DOMAIN q) \X (DOMAIN q)
    BY PairsOf DEF Ordered!Within
  <2> QED BY <2>1
<1>2. \A s, t \in DOMAIN q : <<s, t>> \in W <=> <<s, t>> \in Pairs(p)
  BY DEF Ordered!Within
<1> HIDE DEF W
<1>3. \A s, t \in DOMAIN q : <<s, t>> \in W <=> <<s, t>> \in Pairs(q)
  BY <1>2, PairsOf
<1>4. Pairs(q) \in SUBSET ((DOMAIN q) \X (DOMAIN q))
  BY PairsOf
<1> DEFINE D == DOMAIN q
           A == Pairs(q)
<1>5. /\ W \in SUBSET (D \X D) /\ A \in SUBSET (D \X D)
      /\ \A s, t \in D : <<s, t>> \in W <=> <<s, t>> \in A
  BY <1>1, <1>3, <1>4
<1> HIDE DEF D, A
<1>6. W = A
  BY <1>5, SamePairs
<1> QED BY <1>6 DEF W, A

LEMMA MembersAndBefore ==
    /\ Members = [l \in Lists |-> DOMAIN position[l]]
    /\ Before = [l \in Lists |-> Pairs(position[l])]
BY DEF Members, Before, Pairs

\* Positions that differ put any of the tracks in a line.
LEMMA ColumnLinesUp ==
    ASSUME NEW p, Column(p), Distinct(p), NEW S \in SUBSET DOMAIN p
    PROVE  Ordered!LinesUp({e \in S \X S : p[e[1]] < p[e[2]]}, S)
<1>1. \A t \in S : t \in DOMAIN p /\ p[t] \in Nat
  BY DEF Column
<1>2. \A s, t \in S : s # t => p[s] # p[t]
  BY DEF Distinct
<1> DEFINE R == {e \in S \X S : p[e[1]] < p[e[2]]}
<1>3. \A s, t \in S : <<s, t>> \in R <=> p[s] < p[t]
  OBVIOUS
<1>4. R \subseteq S \X S
  OBVIOUS
<1> HIDE DEF R
<1>5. \A s \in S : <<s, s>> \notin R
  BY <1>1, <1>3
<1>6. \A s, t \in S : s # t => <<s, t>> \in R \/ <<t, s>> \in R
  BY <1>1, <1>2, <1>3
<1>7. \A s, t, u \in S : <<s, t>> \in R /\ <<t, u>> \in R => <<s, u>> \in R
  BY <1>1, <1>3
<1>8. Ordered!LinesUp(R, S)
  BY <1>4, <1>5, <1>6, <1>7 DEF Ordered!LinesUp
<1> QED BY <1>8 DEF R

\* One list gets another column: what the abstract lists see of it.
LEMMA OneColumn ==
    ASSUME ListInv, NEW l \in Lists, NEW q, position' = [position EXCEPT ![l] = q]
    PROVE  /\ Members' = [Members EXCEPT ![l] = DOMAIN q]
           /\ Before' = [Before EXCEPT ![l] = Pairs(q)]
           /\ Members[l] = DOMAIN position[l]
           /\ Before[l] = Pairs(position[l])
<1>1. position = [k \in Lists |-> position[k]]
  BY DEF ListInv, TypeOK
<1>2. position'[l] = q /\ \A k \in Lists : k # l => position'[k] = position[k]
  BY <1>1
<1>3. /\ Members' = [k \in Lists |-> DOMAIN position'[k]]
      /\ Before' = [k \in Lists |-> Pairs(position'[k])]
  BY DEF Members, Before, Pairs
<1>4. Members' = [k \in Lists |-> IF k = l THEN DOMAIN q ELSE DOMAIN position[k]]
  BY <1>2, <1>3
<1>5. Before' = [k \in Lists |-> IF k = l THEN Pairs(q) ELSE Pairs(position[k])]
  BY <1>2, <1>3
<1>6. Members' = [Members EXCEPT ![l] = DOMAIN q] /\ Members[l] = DOMAIN position[l]
  BY <1>4, MembersAndBefore
<1>7. Before' = [Before EXCEPT ![l] = Pairs(q)] /\ Before[l] = Pairs(position[l])
  BY <1>5, MembersAndBefore
<1> QED BY <1>6, <1>7

LEMMA AppendStep ==
    ASSUME ListInv, NEW l \in Lists, NEW keys \in KeyLists,
           position' = [position EXCEPT ![l] = Appended(position[l], keys)]
    PROVE  \E T \in SUBSET Tracks : Ordered!Append(l, T)
<1> DEFINE p == position[l]
           q == Appended(p, keys)
           N == New(p, keys)
           R == {e \in N \X N : q[e[1]] < q[e[2]]}
<1>1. Column(p) /\ Distinct(p) /\ Bounded(p)
  BY ColumnsOf
<1>2. /\ Members' = [Members EXCEPT ![l] = DOMAIN q]
      /\ Before' = [Before EXCEPT ![l] = Pairs(q)]
      /\ Members[l] = DOMAIN p
      /\ Before[l] = Pairs(p)
  BY OneColumn
<1> HIDE DEF p
<1>3. /\ DOMAIN q = DOMAIN p \cup N
      /\ Column(q) /\ Distinct(q)
      /\ \A t \in DOMAIN p : q[t] = p[t]
      /\ \A s \in DOMAIN p, t \in N : q[s] < q[t]
  BY <1>1, AppendedColumn
<1>4. N \subseteq Tracks /\ N \cap DOMAIN p = {}
  BY NewTracks
<1>5. Ordered!LinesUp(R, N)
  BY <1>3, ColumnLinesUp
<1> HIDE DEF q, N
<1>6. \A t \in DOMAIN q : q[t] \in Nat
  BY <1>3 DEF Column
<1>7. R \in SUBSET (N \X N) /\ \A s, t \in N : <<s, t>> \in R <=> q[s] < q[t]
  OBVIOUS
<1> HIDE DEF R
<1> DEFINE M == (DOMAIN p) \X N
           A == (Pairs(p) \cup M) \cup R
<1>8. M \in SUBSET ((DOMAIN q) \X (DOMAIN q)) /\ R \in SUBSET ((DOMAIN q) \X (DOMAIN q))
  BY <1>3, <1>7
<1>9. \A s, t : <<s, t>> \in M <=> s \in DOMAIN p /\ t \in N
  OBVIOUS
<1>10. \A s, t : <<s, t>> \in R => s \in N /\ t \in N
  BY <1>7
<1> HIDE DEF M
<1>11. Pairs(q) = A
  <2>1. Pairs(p) \in SUBSET ((DOMAIN p) \X (DOMAIN p))
    BY PairsOf
  <2>2. Pairs(p) \in SUBSET ((DOMAIN q) \X (DOMAIN q))
    BY <2>1, <1>3
  <2>3. A \in SUBSET ((DOMAIN q) \X (DOMAIN q))
    BY <2>2, <1>8
  <2>4. \A s, t : <<s, t>> \in A <=>
            <<s, t>> \in Pairs(p) \/ <<s, t>> \in M \/ <<s, t>> \in R
    OBVIOUS
  <2> HIDE DEF A
  <2>5. ASSUME NEW s \in DOMAIN q, NEW t \in DOMAIN q
        PROVE  <<s, t>> \in Pairs(q) <=> <<s, t>> \in A
    <3>1. /\ <<s, t>> \in Pairs(q) <=> q[s] < q[t]
          /\ <<s, t>> \in Pairs(p) <=> s \in DOMAIN p /\ t \in DOMAIN p /\ p[s] < p[t]
      BY PairsOf
    <3>2. CASE s \in DOMAIN p /\ t \in DOMAIN p
      BY <3>1, <3>2, <2>4, <1>3, <1>4, <1>9, <1>10
    <3>3. CASE s \in DOMAIN p /\ t \in N
      BY <3>1, <3>3, <2>4, <1>3, <1>4, <1>9, <1>10
    <3>4. CASE s \in N /\ t \in DOMAIN p
      <4>1. ~(q[s] < q[t])
        BY <3>4, <1>3, <1>6
      <4> QED BY <3>1, <3>4, <4>1, <2>4, <1>4, <1>9, <1>10
    <3>5. CASE s \in N /\ t \in N
      BY <3>1, <3>5, <2>4, <1>4, <1>7, <1>9
    <3> QED BY <3>2, <3>3, <3>4, <3>5, <1>3
  <2>6. Pairs(q) \in SUBSET ((DOMAIN q) \X (DOMAIN q))
    BY PairsOf
  <2> QED BY <2>3, <2>5, <2>6, SamePairs
<1>12. Ordered!Append(l, N)
  <2>1. N \cap Members[l] = {}
    BY <1>2, <1>4
  <2>2. Members' = [Members EXCEPT ![l] = @ \cup N]
    BY <1>2, <1>3
  <2>3. Before' = [Before EXCEPT ![l] = @ \cup (Members[l] \X N) \cup R]
    BY <1>2, <1>11 DEF M
  <2>4. R \in SUBSET (N \X N) /\ Ordered!LinesUp(R, N)
    BY <1>5, <1>7
  <2> QED BY <2>1, <2>2, <2>3, <2>4 DEF Ordered!Append
<1> QED BY <1>4, <1>12

LEMMA WithoutStep ==
    ASSUME ListInv, NEW l \in Lists, NEW T \in SUBSET Tracks,
           position' = [position EXCEPT ![l] = Without(position[l], T)]
    PROVE  Ordered!Withdraw(l, T)
<1> DEFINE p == position[l]
           q == Without(p, T)
<1>1. Column(p) /\ Distinct(p) /\ Bounded(p)
  BY ColumnsOf
<1>2. /\ Members' = [Members EXCEPT ![l] = DOMAIN q]
      /\ Before' = [Before EXCEPT ![l] = Pairs(q)]
      /\ Members[l] = DOMAIN p
      /\ Before[l] = Pairs(p)
  BY OneColumn
<1> HIDE DEF p
<1>3. DOMAIN q = DOMAIN p \ T /\ \A t \in DOMAIN q : q[t] = p[t]
  BY <1>1, WithoutColumn
<1> HIDE DEF q
<1>4. Pairs(q) = Ordered!Within(Pairs(p), DOMAIN p \ T)
  BY <1>3, PairsWithin
<1> QED BY <1>2, <1>3, <1>4 DEF Ordered!Withdraw

LEMMA RearrangeStep ==
    ASSUME ListInv, NEW l \in Lists, NEW q, Column(q), Distinct(q),
           DOMAIN q = DOMAIN position[l], position' = [position EXCEPT ![l] = q]
    PROVE  Ordered!Rearrange(l)
<1>1. /\ Members' = [Members EXCEPT ![l] = DOMAIN q]
      /\ Before' = [Before EXCEPT ![l] = Pairs(q)]
      /\ Members[l] = DOMAIN q
  BY OneColumn
<1>2. Members' = Members
  BY <1>1, MembersAndBefore
<1>3. Ordered!LinesUp(Pairs(q), DOMAIN q)
  BY ColumnLinesUp DEF Pairs
<1>4. Pairs(q) \in SUBSET ((DOMAIN q) \X (DOMAIN q))
  BY PairsOf
<1>5. /\ Pairs(q) \in SUBSET (Members[l] \X Members[l])
      /\ Ordered!LinesUp(Pairs(q), Members[l])
  BY <1>1, <1>3, <1>4
<1> QED BY <1>1, <1>2, <1>5 DEF Ordered!Rearrange

LEMMA ForgetStep ==
    ASSUME ListInv, NEW t \in Tracks, DeleteTrack(t)
    PROVE  Ordered!Forget(t)
<1>1. /\ Members' = [l \in Lists |-> DOMAIN position'[l]]
      /\ Before' = [l \in Lists |-> Pairs(position'[l])]
  BY DEF Members, Before, Pairs
<1>2. ASSUME NEW l \in Lists
      PROVE  /\ DOMAIN position'[l] = Members[l] \ {t}
             /\ Pairs(position'[l]) = Ordered!Within(Before[l], Members[l] \ {t})
  <2> DEFINE p == position[l]
             q == Without(p, {t})
  <2>1. Column(p) /\ Distinct(p) /\ Bounded(p)
    BY ColumnsOf
  <2>2. position'[l] = q /\ Members[l] = DOMAIN p /\ Before[l] = Pairs(p)
    BY MembersAndBefore DEF DeleteTrack
  <2> HIDE DEF p
  <2>3. DOMAIN q = DOMAIN p \ {t} /\ \A s \in DOMAIN q : q[s] = p[s]
    BY <2>1, WithoutColumn
  <2> HIDE DEF q
  <2>4. Pairs(q) = Ordered!Within(Pairs(p), DOMAIN p \ {t})
    BY <2>3, PairsWithin
  <2> QED BY <2>2, <2>3, <2>4
<1> QED BY <1>1, <1>2 DEF Ordered!Forget

LEMMA Stutters ==
    ASSUME position' = position
    PROVE  UNCHANGED <<Members, Before>>
BY DEF Members, Before

\* Every playlist behaves as a list without duplicates whose order only a reorder
\* changes, whatever requests, imports and deletions interleave (the writes of
\* playlist_tracks in db.py).
THEOREM ListsCorrect == Spec => ImplementsOrderedLists
<1>1. Init => Ordered!Init
  <2>1. SUFFICES ASSUME Init PROVE Ordered!Init
    OBVIOUS
  <2>2. \A l \in Lists : DOMAIN position[l] = {} /\ Pairs(position[l]) = {}
    BY <2>1, EmptyColumn DEF Init, Pairs
  <2> QED BY <2>2, MembersAndBefore DEF Ordered!Init
<1>2. ListInv /\ [Next]_vars => [Ordered!Next]_<<Members, Before>>
  <2> SUFFICES ASSUME ListInv, [Next]_vars
               PROVE  Ordered!Next \/ UNCHANGED <<Members, Before>>
    OBVIOUS
  <2>1. ASSUME NEW r \in Requests, AddTracks(r)
        PROVE  Ordered!Next \/ UNCHANGED <<Members, Before>>
    <3> DEFINE l == request[r].list
    <3>1. PICK keys \in KeyLists :
              request[r].op = "edit" /\ Write(r, Appended(position[l], keys))
      BY <2>1 DEF AddTracks
    <3>2. l \in Lists
      BY <3>1, EditColumns
    <3>3. \/ position' = position
          \/ position' = [position EXCEPT ![l] = Appended(position[l], keys)]
      BY <3>1 DEF Write
    <3> HIDE DEF l
    <3> QED BY <3>2, <3>3, Stutters, AppendStep DEF Ordered!Next
  <2>2. ASSUME NEW r \in Requests, RemoveTrack(r)
        PROVE  Ordered!Next \/ UNCHANGED <<Members, Before>>
    <3> DEFINE l == request[r].list
    <3>1. PICK t \in Tracks :
              request[r].op = "edit" /\ Write(r, Without(position[l], {t}))
      BY <2>2 DEF RemoveTrack
    <3>2. l \in Lists /\ {t} \in SUBSET Tracks
      BY <3>1, EditColumns
    <3>3. \/ position' = position
          \/ position' = [position EXCEPT ![l] = Without(position[l], {t})]
      BY <3>1 DEF Write
    <3> HIDE DEF l
    <3> QED BY <3>2, <3>3, Stutters, WithoutStep DEF Ordered!Next
  <2>3. ASSUME NEW r \in Requests, ReorderPlaylist(r)
        PROVE  Ordered!Next \/ UNCHANGED <<Members, Before>>
    <3> DEFINE l == request[r].list
    <3>1. PICK keys \in KeyLists :
              LET q == Reordered(position[l], keys)
              IN  /\ Write(r, q) /\ Column(q) /\ Distinct(q)
                  /\ DOMAIN q = DOMAIN position[l]
      BY <2>3, ReorderWrites
    <3> DEFINE q == Reordered(position[l], keys)
    <3>2. /\ Column(q) /\ Distinct(q) /\ DOMAIN q = DOMAIN position[l]
          /\ \/ position' = position
             \/ position' = [position EXCEPT ![l] = q]
      BY <3>1 DEF Write
    <3>3. l \in Lists
      BY <3>1, EditColumns DEF Write
    <3> HIDE DEF l, q
    <3> QED BY <3>2, <3>3, Stutters, RearrangeStep DEF Ordered!Next
  <2>4. ASSUME NEW r \in Requests, DeletePlaylist(r)
        PROVE  Ordered!Next \/ UNCHANGED <<Members, Before>>
    <3> DEFINE l == request[r].list
    <3>1. l \in Lists
      BY <2>4, EditColumns DEF DeletePlaylist
    <3>2. position' = [position EXCEPT ![l] = Empty]
      BY <2>4 DEF DeletePlaylist
    <3> HIDE DEF l
    <3>3. Column(position[l]) /\ DOMAIN position[l] \in SUBSET Tracks
      BY <3>1, ColumnsOf DEF Column
    <3>4. Empty = Without(position[l], DOMAIN position[l])
      BY DEF Empty, Without
    <3>5. position' = [position EXCEPT ![l] = Without(position[l], DOMAIN position[l])]
      BY <3>2, <3>4
    <3> QED BY <3>1, <3>3, <3>5, WithoutStep DEF Ordered!Next
  <2>5. ASSUME NEW w \in Importers, ImportTrack(w)
        PROVE  Ordered!Next \/ UNCHANGED <<Members, Before>>
    <3> DEFINE l == import[w].list
    <3>1. PICK keys \in KeyLists :
              position' = [position EXCEPT ![l] = Appended(position[l], keys)]
      BY <2>5, ImportTrackWrites
    <3>2. l \in Lists
      BY <2>5, ImportTrackWrites
    <3> HIDE DEF l
    <3> QED BY <3>1, <3>2, AppendStep DEF Ordered!Next
  <2>6. ASSUME NEW t \in Tracks, DeleteTrack(t)
        PROVE  Ordered!Next \/ UNCHANGED <<Members, Before>>
    BY <2>6, ForgetStep DEF Ordered!Next
  <2>7. ASSUME \/ UNCHANGED vars
               \/ \E r \in Requests :
                      CountPlaylists(r) \/ CreatePlaylist(r) \/ CheckOwner(r)
               \/ \E w \in Importers : MirrorPlaylist(w) \/ EndImport(w)
               \/ RegisterTrack \/ Restart
        PROVE  UNCHANGED <<Members, Before>>
    BY <2>7, Stutters DEF vars, CountPlaylists, CreatePlaylist, CheckOwner,
                          MirrorPlaylist, EndImport, RegisterTrack, Restart
  <2> QED BY <2>1, <2>2, <2>3, <2>4, <2>5, <2>6, <2>7 DEF Next, Edit
<1> QED BY <1>1, <1>2, Invariance, PTL
        DEF Spec, ImplementsOrderedLists, Ordered!Spec, Ordered!listVars

================================================================================
