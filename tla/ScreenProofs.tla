------------------------------ MODULE ScreenProofs -----------------------------
(***************************************************************************)
(* Theorems about what the web client plays and shows: the audio player    *)
(* for any tracks, queues and feeds, and the pages - a playlist, an album  *)
(* against its edition, the bulk import and the back-button stack - for    *)
(* any contents and any number of gestures, requests, jobs and renders.    *)
(***************************************************************************)
EXTENDS Player, Pages, FiniteSetTheorems, WellFoundedInduction, TLAPS

-------------------------------------------------------------------------------
(* Sequences *)

\* Every arrangement of a finite set is a sequence that names no element twice.
LEMMA Arrangements ==
    ASSUME NEW S, IsFiniteSet(S), NEW s \in SetToSeqs(S)
    PROVE  s \in Seq(S) /\ Len(s) = Cardinality(S) /\ IsInjective(s)
<1>1. Cardinality(S) \in Nat
  BY FS_CardinalityType
<1>2. s \in [1..Cardinality(S) -> S] /\ \A i, j \in 1..Cardinality(S) : i # j => s[i] # s[j]
  BY DEF SetToSeqs
<1> QED BY <1>1, <1>2 DEF IsInjective

LEMMA Joined ==
    ASSUME NEW T, NEW s \in Seq(T), NEW t \in Seq(T)
    PROVE  /\ s \o t \in Seq(T) /\ Len(s \o t) = Len(s) + Len(t)
           /\ \A j \in 1..(Len(s) + Len(t)) :
                 (s \o t)[j] = IF j <= Len(s) THEN s[j] ELSE t[j - Len(s)]
OBVIOUS

LEMMA Once ==
    ASSUME NEW T, NEW s \in Seq(T), IsInjective(s),
           NEW a \in 1..Len(s), NEW b \in 1..Len(s), s[a] = s[b]
    PROVE  a = b
BY DEF IsInjective

\* An element is put between the others.
LEMMA Insertion ==
    ASSUME NEW T, NEW s \in Seq(T), NEW i \in 1..(Len(s) + 1), NEW e \in T
    PROVE  /\ InsertAt(s, i, e) \in Seq(T)
           /\ Len(InsertAt(s, i, e)) = Len(s) + 1
           /\ \A j \in 1..(Len(s) + 1) :
                 InsertAt(s, i, e)[j] = IF j < i THEN s[j] ELSE IF j = i THEN e ELSE s[j - 1]
<1> DEFINE a == SubSeq(s, 1, i - 1)
           b == SubSeq(s, i, Len(s))
           c == a \o <<e>>
<1>1. a \in Seq(T) /\ Len(a) = i - 1 /\ \A j \in 1..(i - 1) : a[j] = s[j]
  OBVIOUS
<1>2. b \in Seq(T) /\ Len(b) = Len(s) - i + 1 /\ \A j \in 1..(Len(s) - i + 1) : b[j] = s[j + i - 1]
  OBVIOUS
<1> HIDE DEF a, b
<1>3. c \in Seq(T) /\ Len(c) = i /\ \A j \in 1..i : c[j] = IF j < i THEN s[j] ELSE e
  BY <1>1
<1> HIDE DEF c
<1>4. /\ c \o b \in Seq(T) /\ Len(c \o b) = Len(s) + 1
      /\ \A j \in 1..(Len(s) + 1) : (c \o b)[j] = IF j <= i THEN c[j] ELSE b[j - i]
  <2>1. i + (Len(s) - i + 1) = Len(s) + 1
    OBVIOUS
  <2> QED BY <1>2, <1>3, <2>1, Joined
<1>5. \A j \in 1..(Len(s) + 1) :
         (c \o b)[j] = IF j < i THEN s[j] ELSE IF j = i THEN e ELSE s[j - 1]
  BY <1>2, <1>3, <1>4
<1> QED BY <1>4, <1>5 DEF InsertAt, a, b, c

\* What is inserted behind an entry leaves that entry in its place.
LEMMA InsertedBehind ==
    ASSUME NEW T, NEW s \in Seq(T), NEW i \in 1..(Len(s) + 1), NEW e \in T,
           NEW j \in 1..Len(s), j < i
    PROVE  j \in DOMAIN InsertAt(s, i, e) /\ InsertAt(s, i, e)[j] = s[j]
<1>1. /\ Len(InsertAt(s, i, e)) = Len(s) + 1
      /\ InsertAt(s, i, e) \in Seq(T)
      /\ \A k \in 1..(Len(s) + 1) :
            InsertAt(s, i, e)[k] = IF k < i THEN s[k] ELSE IF k = i THEN e ELSE s[k - 1]
  BY Insertion
<1> QED BY <1>1

\* One is taken out.
LEMMA Withdrawal ==
    ASSUME NEW T, NEW s \in Seq(T), NEW i \in 1..Len(s)
    PROVE  /\ RemoveAt(s, i) \in Seq(T)
           /\ Len(RemoveAt(s, i)) = Len(s) - 1
           /\ \A j \in 1..(Len(s) - 1) :
                 RemoveAt(s, i)[j] = IF j < i THEN s[j] ELSE s[j + 1]
<1> DEFINE a == SubSeq(s, 1, i - 1)
           b == SubSeq(s, i + 1, Len(s))
<1>1. a \in Seq(T) /\ Len(a) = i - 1 /\ \A j \in 1..(i - 1) : a[j] = s[j]
  OBVIOUS
<1>2. b \in Seq(T) /\ Len(b) = Len(s) - i /\ \A j \in 1..(Len(s) - i) : b[j] = s[j + i]
  OBVIOUS
<1> HIDE DEF a, b
<1>3. /\ a \o b \in Seq(T) /\ Len(a \o b) = Len(s) - 1
      /\ \A j \in 1..(Len(s) - 1) : (a \o b)[j] = IF j <= i - 1 THEN a[j] ELSE b[j - (i - 1)]
  <2>1. (i - 1) + (Len(s) - i) = Len(s) - 1
    OBVIOUS
  <2>2. /\ a \o b \in Seq(T) /\ Len(a \o b) = Len(a) + Len(b)
        /\ \A j \in 1..(Len(a) + Len(b)) :
              (a \o b)[j] = IF j <= Len(a) THEN a[j] ELSE b[j - Len(a)]
    BY <1>1, <1>2, Joined
  <2> QED BY <1>1, <1>2, <2>1, <2>2, Zenon
<1>4. ASSUME NEW j \in 1..(Len(s) - 1)
      PROVE  (a \o b)[j] = IF j < i THEN s[j] ELSE s[j + 1]
  <2>1. CASE j < i
    BY <1>1, <1>3, <2>1
  <2>2. CASE ~(j < i)
    <3>1. j - (i - 1) \in 1..(Len(s) - i) /\ (j - (i - 1)) + i = j + 1
      BY <2>2
    <3>2. (a \o b)[j] = b[j - (i - 1)]
      BY <1>3, <2>2
    <3>3. b[j - (i - 1)] = s[j + 1]
      BY <1>2, <3>1
    <3> QED BY <2>2, <3>2, <3>3
  <2> QED BY <2>1, <2>2
<1> QED BY <1>3, <1>4 DEF RemoveAt, a, b

LEMMA InsertedOnce ==
    ASSUME NEW T, NEW s \in Seq(T), NEW i \in 1..(Len(s) + 1), NEW e \in T,
           IsInjective(s), \A j \in 1..Len(s) : s[j] # e
    PROVE  IsInjective(InsertAt(s, i, e))
<1> DEFINE r == InsertAt(s, i, e)
<1>1. /\ r \in Seq(T) /\ Len(r) = Len(s) + 1
      /\ \A j \in 1..(Len(s) + 1) :
            r[j] = IF j < i THEN s[j] ELSE IF j = i THEN e ELSE s[j - 1]
  BY Insertion
<1> HIDE DEF r
<1>2. SUFFICES ASSUME NEW a \in 1..(Len(s) + 1), NEW b \in 1..(Len(s) + 1), r[a] = r[b]
               PROVE  a = b
  BY <1>1 DEF IsInjective, r
<1> DEFINE x == IF a < i THEN a ELSE a - 1
           y == IF b < i THEN b ELSE b - 1
<1>3. \A k \in 1..(Len(s) + 1) : r[k] = e => k = i
  <2> SUFFICES ASSUME NEW k \in 1..(Len(s) + 1), k # i PROVE r[k] # e
    OBVIOUS
  <2>1. CASE k < i
    BY <1>1, <2>1
  <2>2. CASE ~(k < i)
    <3>1. k - 1 \in 1..Len(s) /\ r[k] = s[k - 1]
      BY <1>1, <2>2
    <3> QED BY <3>1
  <2> QED BY <2>1, <2>2
<1>4. CASE a # i /\ b # i
  <2>1. x \in 1..Len(s) /\ y \in 1..Len(s) /\ r[a] = s[x] /\ r[b] = s[y]
    BY <1>1, <1>4
  <2> HIDE DEF x, y
  <2>2. x = y
    BY <1>2, <2>1, Once
  <2> QED BY <1>4, <2>2 DEF x, y
<1> QED BY <1>1, <1>2, <1>3, <1>4

LEMMA WithdrawnOnce ==
    ASSUME NEW T, NEW s \in Seq(T), NEW i \in 1..Len(s), IsInjective(s)
    PROVE  IsInjective(RemoveAt(s, i))
<1> DEFINE r == RemoveAt(s, i)
<1>1. /\ r \in Seq(T) /\ Len(r) = Len(s) - 1
      /\ \A j \in 1..(Len(s) - 1) : r[j] = IF j < i THEN s[j] ELSE s[j + 1]
  BY Withdrawal
<1> HIDE DEF r
<1>2. SUFFICES ASSUME NEW a \in 1..(Len(s) - 1), NEW b \in 1..(Len(s) - 1), r[a] = r[b]
               PROVE  a = b
  BY <1>1 DEF IsInjective, r
<1> DEFINE x == IF a < i THEN a ELSE a + 1
           y == IF b < i THEN b ELSE b + 1
<1>3. x \in 1..Len(s) /\ y \in 1..Len(s) /\ r[a] = s[x] /\ r[b] = s[y]
  BY <1>1
<1> HIDE DEF x, y
<1>4. x = y
  BY <1>2, <1>3, Once
<1> QED BY <1>4 DEF x, y

\* Two sequences with nothing in common, one after the other.
LEMMA JoinedOnce ==
    ASSUME NEW T, NEW s \in Seq(T), NEW t \in Seq(T), IsInjective(s), IsInjective(t),
           \A i \in 1..Len(s), j \in 1..Len(t) : s[i] # t[j]
    PROVE  s \o t \in Seq(T) /\ IsInjective(s \o t)
<1> DEFINE r == s \o t
<1>1. /\ r \in Seq(T) /\ Len(r) = Len(s) + Len(t)
      /\ \A j \in 1..(Len(s) + Len(t)) : r[j] = IF j <= Len(s) THEN s[j] ELSE t[j - Len(s)]
  BY Joined
<1> HIDE DEF r
<1>2. SUFFICES ASSUME NEW a \in 1..(Len(s) + Len(t)), NEW b \in 1..(Len(s) + Len(t)),
                      r[a] = r[b]
               PROVE  a = b
  BY <1>1 DEF IsInjective, r
<1>3. CASE a <= Len(s) /\ b <= Len(s)
  <2>1. a \in 1..Len(s) /\ b \in 1..Len(s) /\ s[a] = s[b]
    BY <1>1, <1>2, <1>3
  <2> QED BY <2>1, Once
<1>4. CASE a > Len(s) /\ b > Len(s)
  <2>1. a - Len(s) \in 1..Len(t) /\ b - Len(s) \in 1..Len(t)
    BY <1>4
  <2>2. t[a - Len(s)] = t[b - Len(s)]
    BY <1>1, <1>2, <1>4
  <2>3. a - Len(s) = b - Len(s)
    BY <2>1, <2>2, Once
  <2> QED BY <2>3
<1>5. CASE a <= Len(s) /\ b > Len(s)
  <2>1. a \in 1..Len(s) /\ b - Len(s) \in 1..Len(t)
    BY <1>5
  <2> QED BY <1>1, <1>2, <1>5, <2>1
<1>6. CASE a > Len(s) /\ b <= Len(s)
  <2>1. b \in 1..Len(s) /\ a - Len(s) \in 1..Len(t)
    BY <1>6
  <2> QED BY <1>1, <1>2, <1>6, <2>1
<1> QED BY <1>3, <1>4, <1>5, <1>6

LEMMA Prefixed ==
    ASSUME NEW T, NEW s \in Seq(T), NEW t \in Seq(T)
    PROVE  IsPrefix(s, s) /\ IsPrefix(s, s \o t)
<1>1. SubSeq(s \o t, 1, Len(s)) = SubSeq(s, 1, Len(s))
  OBVIOUS
<1>2. Len(s) <= Len(s \o t)
  OBVIOUS
<1> QED BY <1>1, <1>2 DEF IsPrefix

-------------------------------------------------------------------------------
(* The player's line: a queue, an order that names its entries at most once,  *)
(* and a position in it.  Only an order that is not shuffled may end before   *)
(* the position (toggleShuffle after removals).                               *)

Lined ==
    /\ queue \in Seq(Tracks)
    /\ order \in Seq(1..Len(queue)) /\ IsInjective(order) /\ Len(order) <= Len(queue)
    /\ pos \in Nat
    /\ shuffle \in BOOLEAN /\ (shuffle => pos <= Len(order))

\* What is loaded is a line.
Fits(q, o) ==
    /\ q \in Seq(Tracks)
    /\ o \in Seq(1..Len(q)) /\ IsInjective(o) /\ Len(o) <= Len(q)

LEMMA LoadLines ==
    ASSUME NEW q, NEW o, NEW p \in Nat, NEW m, NEW on, Load(q, o, p, m, on), Fits(q, o),
           shuffle' \in BOOLEAN, shuffle' => p <= Len(o)
    PROVE  Lined'
BY DEF Load, Fits, Lined

LEMMA Counted ==
    ASSUME NEW n \in Nat
    PROVE  /\ IsFiniteSet(1..n) /\ Cardinality(1..n) = n
           /\ \A x : IsFiniteSet((1..n) \ {x})
           /\ \A x \in 1..n : Cardinality((1..n) \ {x}) = n - 1
           /\ \A x : x \notin 1..n => Cardinality((1..n) \ {x}) = n
<1>1. IsFiniteSet(1..n) /\ Cardinality(1..n) = n
  <2>1. Cardinality(1..n) = IF 1 > n THEN 0 ELSE n - 1 + 1
    BY FS_Interval
  <2>2. IsFiniteSet(1..n)
    BY FS_Interval
  <2> QED BY <2>1, <2>2
<1>2. \A x \in 1..n : IsFiniteSet((1..n) \ {x}) /\ Cardinality((1..n) \ {x}) = n - 1
  BY <1>1, FS_RemoveElement
<1>3. \A x : x \notin 1..n => (1..n) \ {x} = 1..n
  OBVIOUS
<1> QED BY <1>1, <1>2, <1>3

\* One entry before or behind a shuffle of the others.
LEMMA Reshuffled ==
    ASSUME NEW n \in Nat, NEW m \in Nat, n <= m, NEW x \in 1..m,
           NEW s \in Shuffled((1..n) \ {x})
    PROVE  /\ <<x>> \o s \in Seq(1..m) /\ IsInjective(<<x>> \o s)
           /\ 1 <= Len(<<x>> \o s) /\ Len(<<x>> \o s) <= m
           /\ Append(s, x) \in Seq(1..m) /\ IsInjective(Append(s, x))
           /\ 1 <= Len(Append(s, x)) /\ Len(Append(s, x)) <= m
<1>1. /\ s \in Seq((1..n) \ {x}) /\ IsInjective(s)
      /\ Len(s) = Cardinality((1..n) \ {x})
  BY Arrangements, Counted DEF Shuffled
<1>2. Len(s) \in Nat /\ Len(s) < m
  <2>1. CASE x \in 1..n
    <3>1. Cardinality((1..n) \ {x}) = n - 1 /\ n >= 1
      BY <2>1, Counted
    <3> QED BY <1>1, <3>1
  <2>2. CASE x \notin 1..n
    <3>1. Cardinality((1..n) \ {x}) = n
      BY <2>2, Counted
    <3>2. n < m
      BY <2>2
    <3> QED BY <1>1, <3>1, <3>2
  <2> QED BY <2>1, <2>2
<1>3. s \in Seq(1..m) /\ \A i \in 1..Len(s) : s[i] # x
  BY <1>1
<1>4. <<x>> \in Seq(1..m) /\ Len(<<x>>) = 1 /\ <<x>>[1] = x /\ IsInjective(<<x>>)
  BY DEF IsInjective
<1> DEFINE one == <<x>>
<1>a. \A i \in 1..Len(one), j \in 1..Len(s) : one[i] # s[j] /\ s[j] # one[i]
  BY <1>3, <1>4
<1>b. one \in Seq(1..m) /\ Len(one) = 1 /\ IsInjective(one)
  BY <1>4
<1> HIDE DEF one
<1>5. one \o s \in Seq(1..m) /\ IsInjective(one \o s) /\ Len(one \o s) = Len(s) + 1
  <2>1. one \o s \in Seq(1..m) /\ IsInjective(one \o s)
    BY <1>1, <1>3, <1>a, <1>b, JoinedOnce
  <2>2. Len(one \o s) = Len(one) + Len(s)
    BY <1>3, <1>b, Joined
  <2> QED BY <1>2, <1>b, <2>1, <2>2
<1>6. s \o one \in Seq(1..m) /\ IsInjective(s \o one) /\ Len(s \o one) = Len(s) + 1
  <2>1. s \o one \in Seq(1..m) /\ IsInjective(s \o one)
    BY <1>1, <1>3, <1>a, <1>b, JoinedOnce
  <2>2. Len(s \o one) = Len(s) + Len(one)
    BY <1>3, <1>b, Joined
  <2> QED BY <1>b, <2>1, <2>2
<1>7. Append(s, x) = s \o <<x>>
  BY <1>3
<1> QED BY <1>2, <1>5, <1>6, <1>7 DEF one

\* buildOrder, also around an entry past the length it is given.
LEMMA OrdersFit ==
    ASSUME NEW q \in Seq(Tracks), NEW n \in Nat, n <= Len(q), NEW x \in 1..Len(q),
           NEW on \in BOOLEAN, NEW o \in Orders(n, x, on)
    PROVE  Fits(q, o) /\ (on => 1 <= Len(o)) /\ (~on => Len(o) = n)
<1>1. CASE on
  <2>1. PICK s \in Shuffled((1..n) \ {x}) : o = <<x>> \o s
    BY <1>1 DEF Orders
  <2> QED BY <1>1, <2>1, Reshuffled DEF Fits
<1>2. CASE ~on
  <2>1. o = [i \in 1..n |-> i]
    BY <1>2 DEF Orders
  <2>2. o \in Seq(1..Len(q)) /\ Len(o) = n /\ IsInjective(o)
    BY <2>1 DEF IsInjective
  <2> QED BY <1>2, <2>2 DEF Fits
<1> QED BY <1>1, <1>2

LEMMA LinedInit == Init => Lined
<1> SUFFICES ASSUME Init PROVE Lined
  OBVIOUS
<1>1. queue \in Seq(Tracks)
  BY PlayerAssumption DEF Init, SeqOf
<1>2. /\ order \in Seq(1..Len(queue)) /\ IsInjective(order)
      /\ Len(order) = Len(queue)
  <2>1. DOMAIN queue = 1..Len(queue) /\ Len(queue) \in Nat /\ order \in SetToSeqs(DOMAIN queue)
    BY <1>1 DEF Init
  <2> QED BY <2>1, Arrangements, Counted
<1>3. pos \in Nat /\ (shuffle => pos <= Len(order))
  <2>1. CASE queue = <<>>
    BY <2>1 DEF Init
  <2>2. CASE queue # <<>>
    <3>1. pos \in DOMAIN order
      BY <2>2 DEF Init
    <3> QED BY <1>2, <3>1
  <2> QED BY <2>1, <2>2
<1>4. shuffle \in BOOLEAN
  BY DEF Init
<1>5. Len(order) <= Len(queue)
  BY <1>1, <1>2
<1> QED BY <1>1, <1>2, <1>3, <1>4, <1>5 DEF Lined

LEMMA PlayLines ==
    ASSUME Lined, NEW q \in Seq(Tracks), NEW i \in 1..Len(q), Play(q, i)
    PROVE  Lined'
<1>1. PICK o \in Orders(Len(q), i, shuffle) : SetLine(q, o, IF shuffle THEN 1 ELSE i)
  BY DEF Play
<1>2. shuffle \in BOOLEAN /\ shuffle' = shuffle
  BY DEF Play, Lined, modes
<1>3. Fits(q, o) /\ (shuffle => 1 <= Len(o))
  BY <1>2, OrdersFit
<1>4. (IF shuffle THEN 1 ELSE i) \in Nat
  OBVIOUS
<1> QED BY <1>1, <1>2, <1>3, <1>4, LoadLines DEF SetLine

LEMMA EditLines ==
    ASSUME Lined, NEW t \in Tracks, NEW i, Enqueue(t) \/ PlayNext(t) \/ RemoveFromQueueAt(i)
    PROVE  Lined'
<1> DEFINE n == Len(queue) + 1
<1>0. /\ queue \in Seq(Tracks) /\ order \in Seq(1..Len(queue)) /\ IsInjective(order)
      /\ Len(order) <= Len(queue) /\ pos \in Nat /\ n \in Nat
      /\ shuffle \in BOOLEAN /\ (shuffle => pos <= Len(order))
  BY DEF Lined
<1>1. CASE Play(<<t>>, 1)
  <2>1. <<t>> \in Seq(Tracks) /\ 1 \in 1..Len(<<t>>)
    OBVIOUS
  <2> QED BY <1>1, <2>1, PlayLines
<1>t. Append(queue, t) \in Seq(Tracks) /\ Len(Append(queue, t)) = n
  BY <1>0
<1>o. order \in Seq(1..n) /\ \A j \in 1..Len(order) : order[j] # n
  BY <1>0
<1>2. CASE Enqueue(t) /\ pos # 0
  <2>1. SetLine(Append(queue, t), Append(order, n), pos) /\ shuffle' = shuffle
    BY <1>2 DEF Enqueue, modes
  <2> DEFINE one == <<n>>
  <2>2. one \in Seq(1..n) /\ Len(one) = 1 /\ IsInjective(one)
        /\ \A j \in 1..Len(order), k \in 1..Len(one) : order[j] # one[k]
    BY <1>0, <1>o DEF IsInjective
  <2>3. Append(order, n) = order \o one
    BY <1>0
  <2> HIDE DEF one
  <2>4. order \o one \in Seq(1..n) /\ IsInjective(order \o one)
    BY <1>0, <1>o, <2>2, JoinedOnce
  <2>5. Len(order \o one) = Len(order) + 1
    <3>1. order \in Seq(1..n) /\ one \in Seq(1..n)
      BY <1>o, <2>2
    <3>2. Len(order \o one) = Len(order) + Len(one)
      BY <3>1, Joined
    <3> QED BY <2>2, <3>2
  <2>6. Fits(Append(queue, t), Append(order, n))
    <3>1. Len(Append(order, n)) <= n
      BY <1>0, <2>3, <2>5
    <3> QED BY <1>t, <2>3, <2>4, <3>1 DEF Fits
  <2>7. shuffle => pos <= Len(Append(order, n))
    BY <1>0, <2>3, <2>5
  <2> QED BY <1>0, <2>1, <2>6, <2>7, LoadLines DEF SetLine
<1>3. CASE PlayNext(t) /\ pos # 0
  <2> DEFINE p == IF pos < Len(order) THEN pos + 1 ELSE Len(order) + 1
  <2>1. SetLine(Append(queue, t), Inserted(p), pos) /\ shuffle' = shuffle
    BY <1>3 DEF PlayNext, modes
  <2>2. p \in 1..(Len(order) + 1) /\ n \in 1..n
    BY <1>0, <1>3
  <2> HIDE DEF p
  <2>3. Inserted(p) \in Seq(1..n) /\ Len(Inserted(p)) = Len(order) + 1
    BY <1>o, <2>2, Insertion DEF Inserted
  <2>4. IsInjective(Inserted(p))
    BY <1>0, <1>o, <2>2, InsertedOnce DEF Inserted
  <2>5. Fits(Append(queue, t), Inserted(p))
    BY <1>0, <1>t, <2>3, <2>4 DEF Fits
  <2>6. shuffle => pos <= Len(Inserted(p))
    BY <1>0, <2>3
  <2> QED BY <1>0, <2>1, <2>5, <2>6, LoadLines DEF SetLine
<1>4. CASE RemoveFromQueueAt(i)
  <2>1. /\ i \in 1..Len(order) /\ i # pos /\ shuffle' = shuffle
        /\ SetLine(queue, RemoveAt(order, i), Shift(i))
    BY <1>0, <1>4 DEF RemoveFromQueueAt, modes
  <2>2. /\ RemoveAt(order, i) \in Seq(1..Len(queue)) /\ IsInjective(RemoveAt(order, i))
        /\ Len(RemoveAt(order, i)) = Len(order) - 1
    BY <1>0, <2>1, Withdrawal, WithdrawnOnce
  <2>3. /\ Shift(i) \in Nat
        /\ pos <= Len(order) => Shift(i) <= Len(order) - 1
    BY <1>0, <2>1 DEF Shift
  <2>4. Fits(queue, RemoveAt(order, i))
    BY <1>0, <2>2 DEF Fits
  <2> QED BY <1>0, <2>1, <2>2, <2>3, <2>4, LoadLines DEF SetLine
<1> QED BY <1>1, <1>2, <1>3, <1>4 DEF Enqueue, PlayNext

\* Moves that leave the queue alone.
LEMMA MoveLines ==
    ASSUME Lined, NEW p \in Nat, NEW m, NEW on, Load(queue, order, p, m, on),
           shuffle' = shuffle, shuffle => p <= Len(order)
    PROVE  Lined'
<1>1. Fits(queue, order)
  BY DEF Lined, Fits
<1> QED BY <1>1, LoadLines DEF Lined

LEMMA AdvanceLines ==
    ASSUME Lined, NEW m, NEW on, Advance(m, on), UNCHANGED modes
    PROVE  Lined'
<1>0. /\ queue \in Seq(Tracks) /\ order \in Seq(1..Len(queue)) /\ Len(order) <= Len(queue)
      /\ pos \in Nat /\ shuffle \in BOOLEAN /\ (shuffle => pos <= Len(order))
      /\ shuffle' = shuffle
  BY DEF Lined, modes
<1>1. CASE pos = 0 \/ pos < Len(order)
  <2>1. Load(queue, order, IF pos = 0 THEN 0 ELSE pos + 1, m, on)
    BY <1>1 DEF Advance
  <2> QED BY <1>0, <1>1, <2>1, MoveLines
<1>2. CASE ~(pos = 0 \/ pos < Len(order)) /\ shuffle /\ Len(queue) > 1
  <2>1. PICK s \in Shuffled(DOMAIN queue \ {order[pos]}) :
           Load(queue, Append(s, order[pos]), 1, m, on)
    BY <1>2 DEF Advance
  <2>2. order[pos] \in 1..Len(queue) /\ DOMAIN queue = 1..Len(queue) /\ Len(queue) \in Nat
    BY <1>0, <1>2
  <2> DEFINE x == order[pos]
             k == Len(queue)
  <2>a. s \in Shuffled((1..k) \ {x})
    BY <2>1, <2>2
  <2>b. x \in 1..k /\ k \in Nat /\ k <= k
    BY <2>2
  <2> HIDE DEF x, k
  <2>d. /\ Append(s, x) \in Seq(1..k) /\ IsInjective(Append(s, x))
        /\ 1 <= Len(Append(s, x)) /\ Len(Append(s, x)) <= k
    BY <2>a, <2>b, Reshuffled
  <2>c. /\ Append(s, x) \in Seq(1..Len(queue)) /\ IsInjective(Append(s, x))
        /\ 1 <= Len(Append(s, x)) /\ Len(Append(s, x)) <= Len(queue)
    BY <2>d DEF k
  <2>3. Fits(queue, Append(s, order[pos])) /\ 1 <= Len(Append(s, order[pos]))
    BY <1>0, <2>c DEF Fits, x
  <2> QED BY <1>0, <2>1, <2>3, LoadLines
<1>3. CASE ~(pos = 0 \/ pos < Len(order)) /\ ~(shuffle /\ Len(queue) > 1)
  <2>1. Load(queue, order, IF repeat = "all" THEN 1 ELSE pos, m, on)
    BY <1>3 DEF Advance
  <2>2. shuffle => (IF repeat = "all" THEN 1 ELSE pos) <= Len(order)
    BY <1>0, <1>3
  <2> QED BY <1>0, <2>1, <2>2, MoveLines
<1> QED BY <1>1, <1>2, <1>3

LEMMA PrevLines == Lined /\ Prev => Lined'
<1> SUFFICES ASSUME Lined, Prev PROVE Lined'
  OBVIOUS
<1> DEFINE p == IF pos > 1 THEN pos - 1
                ELSE IF pos = 1 /\ repeat = "all" THEN Len(order) ELSE pos
<1>0. order \in Seq(1..Len(queue)) /\ pos \in Nat /\ (shuffle => pos <= Len(order))
      /\ shuffle' = shuffle
  BY DEF Lined, Prev, modes
<1>1. UNCHANGED lineup \/ SetLine(queue, order, p)
  BY DEF Prev
<1>2. p \in Nat /\ (shuffle => p <= Len(order))
  BY <1>0
<1> HIDE DEF p
<1>3. CASE UNCHANGED lineup
  BY <1>0, <1>3 DEF Lined, lineup
<1> QED BY <1>0, <1>1, <1>2, <1>3, MoveLines DEF SetLine

LEMMA ToggleLines == Lined /\ ToggleShuffle /\ Current # NoTrack => Lined'
<1> SUFFICES ASSUME Lined, ToggleShuffle, Current # NoTrack PROVE Lined'
  OBVIOUS
<1>0. /\ queue \in Seq(Tracks) /\ order \in Seq(1..Len(queue)) /\ Len(order) <= Len(queue)
      /\ shuffle \in BOOLEAN /\ shuffle' = ~shuffle /\ pos \in DOMAIN order
  BY DEF Lined, ToggleShuffle, Current, TrackAt
<1>1. order[pos] \in 1..Len(queue) /\ Len(order) \in Nat
  BY <1>0
<1>2. PICK o \in Orders(Len(order), order[pos], ~shuffle) :
         SetLine(queue, o, IF shuffle THEN order[pos] ELSE 1)
  BY DEF ToggleShuffle
<1>3. (~shuffle) \in BOOLEAN
  BY <1>0
<1>4. Fits(queue, o) /\ (~shuffle => 1 <= Len(o))
  BY <1>0, <1>1, <1>2, <1>3, OrdersFit
<1>5. (IF shuffle THEN order[pos] ELSE 1) \in Nat
  BY <1>1
<1> QED BY <1>0, <1>2, <1>4, <1>5, LoadLines DEF SetLine

\* The new entries of the queue.
Entries(new) == [i \in 1..Len(new) |-> Len(queue) + i]

\* The radio leaves the line alone or appends tracks to it.
LEMMA RadioAppends ==
    ASSUME RadioAnswer
    PROVE  \/ UNCHANGED <<lineup, element>>
           \/ \E new \in Seq(Tracks) :
                 new # <<>> /\ SetLine(queue \o new, order \o Entries(new), Len(order) + 1)
<1>0. LatestQueue = queue
  BY DEF LatestQueue
<1>e. PICK feed \in SUBSET (Tracks \ Previews) :
         \E new \in SetToSeqs(Fresh(LatestQueue, feed)) :
            IF new = <<>> THEN UNCHANGED <<lineup, element>>
            ELSE SetLine(LatestQueue \o new,
                         order \o [i \in 1..Len(new) |-> Len(LatestQueue) + i],
                         Len(order) + 1)
  BY Zenon DEF RadioAnswer
<1>f. PICK new \in SetToSeqs(Fresh(queue, feed)) :
         IF new = <<>> THEN UNCHANGED <<lineup, element>>
         ELSE SetLine(queue \o new, order \o Entries(new), Len(order) + 1)
  BY <1>0, <1>e DEF Entries
<1>2. Fresh(queue, feed) \subseteq Tracks /\ IsFiniteSet(Fresh(queue, feed))
  BY FS_Subset, PlayerAssumption DEF Fresh
<1>3. new \in Seq(Fresh(queue, feed))
  BY <1>2, Arrangements
<1>4. new \in Seq(Tracks)
  BY <1>2, <1>3
<1> QED BY <1>f, <1>4

\* The order the radio hands over: the old one and the new entries behind it.
LEMMA Extended ==
    ASSUME Lined, NEW new \in Seq(Tracks)
    PROVE  /\ Fits(queue \o new, order \o Entries(new))
           /\ Len(order \o Entries(new)) = Len(order) + Len(new)
           /\ IsPrefix(queue, queue \o new) /\ Entries(new) \in Seq(Nat)
<1> DEFINE more == Entries(new)
           n == Len(queue) + Len(new)
<1>0. /\ queue \in Seq(Tracks) /\ order \in Seq(1..Len(queue)) /\ IsInjective(order)
      /\ Len(order) <= Len(queue) /\ Len(new) \in Nat /\ Len(queue) \in Nat
  BY DEF Lined
<1>2. more \in Seq(1..n) /\ Len(more) = Len(new) /\ IsInjective(more)
  <2>1. more \in [1..Len(new) -> 1..n]
    BY <1>0 DEF Entries
  <2> QED BY <1>0, <2>1 DEF IsInjective, Entries
<1>3. \A i \in 1..Len(order), j \in 1..Len(more) : order[i] # more[j]
  BY <1>0 DEF Entries
<1>4. order \in Seq(1..n)
  BY <1>0
<1>5. queue \o new \in Seq(Tracks) /\ Len(queue \o new) = n
  BY <1>0, Joined
<1> HIDE DEF more
<1>6. order \o more \in Seq(1..n) /\ IsInjective(order \o more)
  BY <1>0, <1>2, <1>3, <1>4, JoinedOnce
<1>7. Len(order \o more) = Len(order) + Len(new)
  <2>1. Len(order \o more) = Len(order) + Len(more)
    BY <1>2, <1>4, Joined
  <2> QED BY <1>2, <2>1
<1>8. Fits(queue \o new, order \o more)
  BY <1>0, <1>5, <1>6, <1>7 DEF Fits
<1>9. IsPrefix(queue, queue \o new) /\ more \in Seq(Nat)
  BY <1>0, <1>2, Prefixed
<1> QED BY <1>7, <1>8, <1>9 DEF more

LEMMA RadioLines == Lined /\ RadioAnswer => Lined'
<1> SUFFICES ASSUME Lined, RadioAnswer PROVE Lined'
  OBVIOUS
<1>0. order \in Seq(1..Len(queue)) /\ shuffle \in BOOLEAN /\ shuffle' = shuffle
  BY DEF Lined, RadioAnswer, modes
<1>1. CASE UNCHANGED <<lineup, element>>
  BY <1>0, <1>1 DEF Lined, lineup
<1>2. ASSUME NEW new \in Seq(Tracks), new # <<>>,
             SetLine(queue \o new, order \o Entries(new), Len(order) + 1)
      PROVE  Lined'
  <2> DEFINE more == Entries(new)
  <2>1. Fits(queue \o new, order \o more) /\ Len(order \o more) = Len(order) + Len(new)
    BY Extended
  <2>2. SetLine(queue \o new, order \o more, Len(order) + 1)
    BY <1>2
  <2> HIDE DEF more
  <2>3. Len(order) + 1 <= Len(order \o more) /\ Len(order) + 1 \in Nat
    BY <1>0, <1>2, <2>1
  <2> QED BY <1>0, <2>1, <2>2, <2>3, LoadLines DEF SetLine
<1> QED BY <1>1, <1>2, RadioAppends

LEMMA SilenceLines == Lined /\ Silence /\ shuffle' = shuffle => Lined'
<1> SUFFICES ASSUME Lined, Silence, shuffle' = shuffle PROVE Lined'
  OBVIOUS
<1>1. queue' = <<>> /\ order' = <<>> /\ pos' = 0 /\ shuffle' \in BOOLEAN
  BY DEF Silence, Lined
<1>2. order' \in Seq(1..Len(queue')) /\ IsInjective(order') /\ Len(order') = 0
  BY <1>1 DEF IsInjective
<1> QED BY <1>1, <1>2 DEF Lined

\* One step of whatever drives the player.
LEMMA LinedStep == Lined /\ [Next]_vars => Lined'
<1> SUFFICES ASSUME Lined, [Next]_vars PROVE Lined'
  OBVIOUS
<1>1. CASE UNCHANGED <<lineup, shuffle>>
  BY <1>1 DEF Lined, lineup
<1>2. ASSUME NEW q \in Queues, NEW i \in DOMAIN q, Play(q, i) PROVE Lined'
  <2>1. q \in Seq(Tracks) /\ i \in 1..Len(q)
    BY PlayerAssumption
  <2> QED BY <1>2, <2>1, PlayLines
<1>3. ASSUME NEW t \in Tracks, NEW i, Enqueue(t) \/ PlayNext(t) \/ RemoveFromQueueAt(i)
      PROVE  Lined'
  BY <1>3, EditLines
<1>4. ASSUME NEW i, RemoveFromQueueAt(i) PROVE Lined'
  <2>1. i \in 1..Len(order) /\ order \in Seq(1..Len(queue)) /\ queue \in Seq(Tracks)
    BY <1>4 DEF RemoveFromQueueAt, Lined
  <2>2. Tracks # {}
    BY <2>1
  <2> QED BY <1>4, <2>2, EditLines
<1>5. ASSUME NEW i, JumpTo(i) PROVE Lined'
  <2>1. i \in Nat /\ i <= Len(order) /\ SetLine(queue, order, i) /\ shuffle' = shuffle
    BY <1>5 DEF JumpTo, Lined, modes
  <2> QED BY <2>1, MoveLines DEF SetLine
<1>6. CASE NextTrack
  BY <1>6, AdvanceLines DEF NextTrack
<1>7. CASE Prev
  BY <1>7, PrevLines
<1>8. CASE Stop \/ SignedOut
  BY <1>8, SilenceLines DEF Stop, SignedOut, modes
<1>9. CASE ToggleShuffle /\ Current # NoTrack
  BY <1>9, ToggleLines
<1>10. CASE Ended
  <2>1. UNCHANGED lineup \/ Advance("ended", FALSE)
    BY <1>10 DEF Ended, AskRadio
  <2>2. UNCHANGED modes
    BY <1>10 DEF Ended
  <2> QED BY <1>1, <2>1, <2>2, AdvanceLines DEF modes
<1>11. CASE LoadFailed
  <2>1. UNCHANGED lineup \/ Advance("failed", playing /\ media = "ready")
    BY <1>11 DEF LoadFailed, AskRadio
  <2>2. UNCHANGED modes
    BY <1>11 DEF LoadFailed
  <2> QED BY <1>1, <2>1, <2>2, AdvanceLines DEF modes
<1>12. CASE RadioAnswer
  BY <1>12, RadioLines
<1>13. ASSUME \/ TogglePlay \/ CycleRepeat \/ LoadedMetadata \/ PlayRejected \/ StrayError
              \/ RadioFailed \/ SignedIn \/ UNCHANGED vars
       PROVE  UNCHANGED <<lineup, shuffle>>
  BY <1>13 DEF TogglePlay, CycleRepeat, LoadedMetadata, PlayRejected, StrayError, RadioFailed,
               SignedIn, vars, modes
<1>14. CASE UserAct
  <2>1. CASE Transport \/ Swipe \/ Hotkey \/ MediaKey \/ CloseButton
    BY <1>1, <1>6, <1>7, <1>8, <1>9, <1>13, <2>1
    DEF Transport, Swipe, Hotkey, MediaKey, CloseButton, Bar
  <2>2. CASE QueuePanel \/ Page \/ TrackMenu
    BY <1>2, <1>3, <1>4, <1>5, <2>2 DEF QueuePanel, Page, TrackMenu
  <2> QED BY <1>1, <1>8, <1>13, <1>14, <2>1, <2>2 DEF UserAct
<1> QED BY <1>1, <1>10, <1>11, <1>12, <1>13, <1>14 DEF Next, Browser

\* No shuffle, removal, insertion or answer of the radio puts an entry of the queue
\* twice in the order: nothing is played twice in a round.
THEOREM OrderedOnce == Spec => []NoEntryTwice
<1>1. Lined => NoEntryTwice
  BY DEF Lined, NoEntryTwice
<1> QED BY LinedInit, LinedStep, <1>1, PTL DEF Spec

-------------------------------------------------------------------------------
(* What is heard *)

\* The position lies in the order - or past an order that removals made shorter than
\* the queue, once shuffle is off - and there the element holds the current track.
Loaded ==
    /\ pos = 0 => queue = <<>> /\ order = <<>>
    /\ pos # 0 => 1 <= Len(order)
    /\ pos > Len(order) => ~shuffle /\ Len(order) < Len(queue)
    /\ pos <= Len(order) => src = Current

\* Where a handler puts the position.
Lands(q, o, p) ==
    \/ p \in 1..Len(o)
    \/ p = 0 /\ pos = 0 /\ q = queue /\ o = order
    \/ p > Len(o) /\ ~shuffle' /\ Len(o) < Len(q) /\ 1 <= Len(o)

LEMMA LoadedInit == Init => Loaded
<1> SUFFICES ASSUME Init PROVE Loaded
  OBVIOUS
<1>1. Lined
  BY LinedInit
<1>2. CASE queue = <<>>
  <2>1. order = <<>> /\ pos = 0
    BY <1>1, <1>2 DEF Init, Lined
  <2> QED BY <1>2, <2>1 DEF Init, Loaded
<1>3. CASE queue # <<>>
  <2>1. pos \in 1..Len(order)
    BY <1>1, <1>3 DEF Init, Lined
  <2> QED BY <1>1, <2>1 DEF Init, Loaded, Lined
<1> QED BY <1>2, <1>3

\* Whatever lands there loads what it lands on.
LEMMA LoadedByLoad ==
    ASSUME Lined, Loaded, NEW q, NEW o, NEW p \in Nat, NEW m, NEW on, Load(q, o, p, m, on),
           Fits(q, o), Lands(q, o, p)
    PROVE  Loaded'
<1>0. order \in Seq(1..Len(queue)) /\ pos \in Nat /\ queue \in Seq(Tracks)
  BY DEF Lined
<1>1. queue' = q /\ order' = o /\ pos' = p /\ Current' = TrackAt(q, o, p)
  BY DEF Load, Current
<1>2. Len(o) \in Nat /\ o \in Seq(1..Len(q)) /\ q \in Seq(Tracks)
  BY DEF Fits
<1>3. CASE p \in 1..Len(o)
  <2>1. TrackAt(q, o, p) # NoTrack
    BY <1>2, <1>3, PlayerAssumption DEF TrackAt
  <2>2. CASE Reloads(q, o, p)
    <3>1. src' = Current'
      BY <1>1, <2>2 DEF Load
    <3> QED BY <1>1, <1>2, <1>3, <3>1 DEF Loaded
  <2>3. CASE ~Reloads(q, o, p)
    <3>1. Current # NoTrack /\ Current' = Current /\ src' = src
      BY <1>1, <2>1, <2>3 DEF Load, Reloads
    <3>2. src = Current
      BY <1>0, <3>1 DEF Loaded, Current, TrackAt
    <3> QED BY <1>1, <1>2, <1>3, <3>1, <3>2 DEF Loaded
  <2> QED BY <2>2, <2>3
<1>4. CASE p = 0 /\ pos = 0 /\ q = queue /\ o = order
  <2>1. Current' = Current
    BY <1>1, <1>4 DEF Current
  <2>2. src' = src
    BY <1>1, <1>4, <2>1 DEF Load, Reloads
  <2>3. src = Current
    BY <1>0, <1>4 DEF Loaded
  <2> QED BY <1>1, <1>4, <2>1, <2>2, <2>3 DEF Loaded
<1>5. CASE p > Len(o) /\ ~shuffle' /\ Len(o) < Len(q) /\ 1 <= Len(o)
  BY <1>1, <1>2, <1>5 DEF Loaded
<1> QED BY <1>3, <1>4, <1>5 DEF Lands

LEMMA PlayLoads ==
    ASSUME Lined, Loaded, NEW q \in Seq(Tracks), NEW i \in 1..Len(q), Play(q, i)
    PROVE  Loaded'
<1>1. PICK o \in Orders(Len(q), i, shuffle) : SetLine(q, o, IF shuffle THEN 1 ELSE i)
  BY DEF Play
<1>2. shuffle \in BOOLEAN
  BY DEF Lined
<1>3. Fits(q, o) /\ (shuffle => 1 <= Len(o)) /\ (~shuffle => Len(o) = Len(q))
  BY <1>2, OrdersFit
<1>4. (IF shuffle THEN 1 ELSE i) \in 1..Len(o)
  BY <1>3 DEF Fits
<1> QED BY <1>1, <1>3, <1>4, LoadedByLoad DEF SetLine, Lands

LEMMA EditLoads ==
    ASSUME Lined, Loaded, NEW t \in Tracks, Enqueue(t) \/ PlayNext(t)
    PROVE  Loaded'
<1> DEFINE n == Len(queue) + 1
<1>0. /\ queue \in Seq(Tracks) /\ order \in Seq(1..Len(queue)) /\ pos \in Nat
      /\ shuffle \in BOOLEAN /\ Lined'
  BY EditLines DEF Lined
<1>1. CASE Play(<<t>>, 1)
  <2>1. <<t>> \in Seq(Tracks) /\ 1 \in 1..Len(<<t>>)
    OBVIOUS
  <2> QED BY <1>1, <2>1, PlayLoads
<1>2. ASSUME pos # 0, NEW o, Len(o) = Len(order) + 1, SetLine(Append(queue, t), o, pos),
             shuffle' = shuffle
      PROVE  Loaded'
  <2>1. Fits(Append(queue, t), o)
    BY <1>0, <1>2 DEF Lined, Fits, SetLine, Load
  <2>2. Len(Append(queue, t)) = Len(queue) + 1
    BY <1>0
  <2>3. Lands(Append(queue, t), o, pos)
    BY <1>0, <1>2, <2>2 DEF Lands, Loaded
  <2> QED BY <1>0, <1>2, <2>1, <2>3, LoadedByLoad DEF SetLine
<1>3. CASE Enqueue(t) /\ pos # 0
  <2>1. Len(Append(order, n)) = Len(order) + 1
    BY <1>0
  <2> QED BY <1>2, <1>3, <2>1 DEF Enqueue, modes
<1>4. CASE PlayNext(t) /\ pos # 0
  <2> DEFINE p == IF pos < Len(order) THEN pos + 1 ELSE Len(order) + 1
  <2>1. p \in 1..(Len(order) + 1) /\ order \in Seq(1..n) /\ n \in 1..n
    BY <1>0
  <2>2. SetLine(Append(queue, t), Inserted(p), pos) /\ shuffle' = shuffle
    BY <1>4 DEF PlayNext, modes
  <2> HIDE DEF p
  <2> DEFINE T == 1..n
  <2>4. order \in Seq(T) /\ n \in T
    BY <2>1
  <2> HIDE DEF T, n
  <2>5. /\ InsertAt(order, p, n) \in Seq(T) /\ Len(InsertAt(order, p, n)) = Len(order) + 1
        /\ \A j \in 1..(Len(order) + 1) : InsertAt(order, p, n)[j] =
              IF j < p THEN order[j] ELSE IF j = p THEN n ELSE order[j - 1]
    <3>1. p \in 1..(Len(order) + 1)
      BY <2>1
    <3> QED BY ONLY <2>4, <3>1, Insertion
  <2>3. Len(Inserted(p)) = Len(order) + 1
    BY <2>5 DEF Inserted, n
  <2> QED BY <1>2, <1>4, <2>2, <2>3
<1> QED BY <1>1, <1>3, <1>4 DEF Enqueue, PlayNext

\* The queue panel is there while something is current.
LEMMA RemoveLoads ==
    ASSUME Lined, Loaded, Current # NoTrack, NEW i, RemoveFromQueueAt(i)
    PROVE  Loaded'
<1>0. /\ queue \in Seq(Tracks) /\ order \in Seq(1..Len(queue)) /\ IsInjective(order)
      /\ Len(order) <= Len(queue) /\ pos \in 1..Len(order)
  BY DEF Lined, Current, TrackAt
<1>1. /\ i \in 1..Len(order) /\ i # pos
      /\ SetLine(queue, RemoveAt(order, i), Shift(i))
  BY <1>0 DEF RemoveFromQueueAt
<1>2. /\ RemoveAt(order, i) \in Seq(1..Len(queue)) /\ IsInjective(RemoveAt(order, i))
      /\ Len(RemoveAt(order, i)) = Len(order) - 1
  BY <1>0, <1>1, Withdrawal, WithdrawnOnce
<1>3. Shift(i) \in 1..(Len(order) - 1)
  BY <1>0, <1>1 DEF Shift
<1>4. Fits(queue, RemoveAt(order, i))
  BY <1>0, <1>2 DEF Fits
<1>5. Shift(i) \in Nat /\ Lands(queue, RemoveAt(order, i), Shift(i))
  BY <1>0, <1>2, <1>3 DEF Lands
<1>6. Load(queue, RemoveAt(order, i), Shift(i), media, playing)
  BY <1>1 DEF SetLine
<1> QED BY <1>4, <1>5, <1>6, LoadedByLoad

\* Moves that leave the queue alone.
LEMMA MoveLoads ==
    ASSUME Lined, Loaded, NEW p \in Nat, NEW m, NEW on, Load(queue, order, p, m, on),
           shuffle' = shuffle,
           p \in 1..Len(order) \/ p = pos \/ (p > Len(order) /\ p < pos)
    PROVE  Loaded'
<1>1. Fits(queue, order)
  BY DEF Lined, Fits
<1>2. Lands(queue, order, p)
  BY DEF Lined, Lands, Loaded
<1> QED BY <1>1, <1>2, LoadedByLoad

LEMMA AdvanceLoads ==
    ASSUME Lined, Loaded, NEW m, NEW on, Advance(m, on), UNCHANGED modes
    PROVE  Loaded'
<1>0. /\ queue \in Seq(Tracks) /\ order \in Seq(1..Len(queue))
      /\ pos \in Nat /\ shuffle \in BOOLEAN /\ (shuffle => pos <= Len(order))
      /\ shuffle' = shuffle /\ Lined'
  BY AdvanceLines DEF Lined, modes
<1>1. CASE pos = 0 \/ pos < Len(order)
  <2>1. Load(queue, order, IF pos = 0 THEN 0 ELSE pos + 1, m, on)
    BY <1>1 DEF Advance
  <2> QED BY <1>0, <1>1, <2>1, MoveLoads
<1>2. CASE ~(pos = 0 \/ pos < Len(order)) /\ shuffle /\ Len(queue) > 1
  <2>1. PICK s \in Shuffled(DOMAIN queue \ {order[pos]}) :
           Load(queue, Append(s, order[pos]), 1, m, on)
    BY <1>2 DEF Advance
  <2>2. s \in Seq(1..Len(queue))
    <3>1. IsFiniteSet(DOMAIN queue \ {order[pos]})
      <4>1. DOMAIN queue = 1..Len(queue) /\ Len(queue) \in Nat
        BY <1>0
      <4>2. IsFiniteSet(DOMAIN queue)
        BY <4>1, Counted
      <4> QED BY <4>2, FS_RemoveElement
    <3>2. s \in Seq(DOMAIN queue \ {order[pos]})
      BY <2>1, <3>1, Arrangements DEF Shuffled
    <3> QED BY <1>0, <3>2
  <2>3. Fits(queue, Append(s, order[pos]))
    BY <1>0, <2>1 DEF Lined, Fits, Load
  <2>4. 1 \in 1..Len(Append(s, order[pos]))
    BY <2>2
  <2> QED BY <2>1, <2>3, <2>4, LoadedByLoad DEF Lands
<1>3. CASE ~(pos = 0 \/ pos < Len(order)) /\ ~(shuffle /\ Len(queue) > 1)
  <2>1. Load(queue, order, IF repeat = "all" THEN 1 ELSE pos, m, on)
    BY <1>3 DEF Advance
  <2>2. 1 \in 1..Len(order)
    BY <1>0, <1>3 DEF Loaded
  <2> QED BY <1>0, <2>1, <2>2, MoveLoads
<1> QED BY <1>1, <1>2, <1>3

LEMMA PrevLoads == Lined /\ Loaded /\ Prev => Loaded'
<1> SUFFICES ASSUME Lined, Loaded, Prev PROVE Loaded'
  OBVIOUS
<1> DEFINE p == IF pos > 1 THEN pos - 1
                ELSE IF pos = 1 /\ repeat = "all" THEN Len(order) ELSE pos
<1>0. order \in Seq(1..Len(queue)) /\ pos \in Nat /\ shuffle' = shuffle
  BY DEF Lined, Prev, modes
<1>1. UNCHANGED <<lineup, src>> \/ SetLine(queue, order, p)
  BY DEF Prev
<1>2. p \in Nat /\ (p \in 1..Len(order) \/ p = pos \/ (p > Len(order) /\ p < pos))
  BY <1>0 DEF Loaded
<1> HIDE DEF p
<1>3. CASE UNCHANGED <<lineup, src>>
  BY <1>0, <1>3 DEF Loaded, Current, lineup
<1> QED BY <1>0, <1>1, <1>2, <1>3, MoveLoads DEF SetLine

\* Here a position may come to lie past the order.
LEMMA ToggleLoads == Lined /\ Loaded /\ ToggleShuffle /\ Current # NoTrack => Loaded'
<1> SUFFICES ASSUME Lined, Loaded, ToggleShuffle, Current # NoTrack PROVE Loaded'
  OBVIOUS
<1>0. /\ queue \in Seq(Tracks) /\ order \in Seq(1..Len(queue)) /\ Len(order) <= Len(queue)
      /\ shuffle \in BOOLEAN /\ shuffle' = ~shuffle /\ pos \in DOMAIN order
  BY DEF Lined, ToggleShuffle, Current, TrackAt
<1>1. order[pos] \in 1..Len(queue) /\ Len(order) \in Nat /\ 1 <= Len(order)
  BY <1>0
<1>2. PICK o \in Orders(Len(order), order[pos], ~shuffle) :
         SetLine(queue, o, IF shuffle THEN order[pos] ELSE 1)
  BY DEF ToggleShuffle
<1>3. (~shuffle) \in BOOLEAN
  BY <1>0
<1>4. /\ Fits(queue, o) /\ (~shuffle => 1 <= Len(o)) /\ (shuffle => Len(o) = Len(order))
  BY <1>0, <1>1, <1>2, <1>3, OrdersFit
<1> DEFINE p == IF shuffle THEN order[pos] ELSE 1
<1>5. p \in Nat /\ Lands(queue, o, p)
  <2>1. CASE shuffle
    <3>1. p = order[pos] /\ p \in 1..Len(queue) /\ Len(o) = Len(order) /\ ~shuffle'
      BY <1>0, <1>1, <1>4, <2>1
    <3> HIDE DEF p
    <3> QED BY <1>0, <1>1, <3>1 DEF Lands
  <2>2. CASE ~shuffle
    BY <1>4, <2>2 DEF Lands, Fits
  <2> QED BY <2>1, <2>2
<1>6. SetLine(queue, o, p)
  BY <1>2
<1> HIDE DEF p
<1> QED BY <1>4, <1>5, <1>6, LoadedByLoad DEF SetLine

LEMMA RadioLoads == Lined /\ Loaded /\ RadioAnswer => Loaded'
<1> SUFFICES ASSUME Lined, Loaded, RadioAnswer PROVE Loaded'
  OBVIOUS
<1>0. order \in Seq(1..Len(queue)) /\ shuffle' = shuffle
  BY DEF Lined, RadioAnswer, modes
<1>1. CASE UNCHANGED <<lineup, element>>
  BY <1>0, <1>1 DEF Loaded, Current, lineup, element
<1>2. ASSUME NEW new \in Seq(Tracks), new # <<>>,
             SetLine(queue \o new, order \o Entries(new), Len(order) + 1)
      PROVE  Loaded'
  <2> DEFINE more == Entries(new)
  <2>1. Fits(queue \o new, order \o more) /\ Len(order \o more) = Len(order) + Len(new)
    BY Extended
  <2>2. SetLine(queue \o new, order \o more, Len(order) + 1)
    BY <1>2
  <2> HIDE DEF more
  <2>3. Len(order) + 1 \in 1..Len(order \o more) /\ Len(order) + 1 \in Nat
    BY <1>0, <1>2, <2>1
  <2> QED BY <2>1, <2>2, <2>3, LoadedByLoad DEF SetLine, Lands
<1> QED BY <1>1, <1>2, RadioAppends

LEMMA SilenceLoads == Silence => Loaded'
<1> SUFFICES ASSUME Silence PROVE Loaded'
  OBVIOUS
<1>1. queue' = <<>> /\ order' = <<>> /\ pos' = 0 /\ src' = NoTrack
  BY DEF Silence
<1>2. Current' = NoTrack
  BY <1>1 DEF Current, TrackAt
<1> QED BY <1>1, <1>2 DEF Loaded

LEMMA LoadedStep == Lined /\ Loaded /\ [Next]_vars => Loaded'
<1> SUFFICES ASSUME Lined, Loaded, [Next]_vars PROVE Loaded'
  OBVIOUS
<1>1. CASE UNCHANGED <<lineup, shuffle, src>>
  BY <1>1 DEF Loaded, Current, lineup
<1>2. ASSUME NEW q \in Queues, NEW i \in DOMAIN q, Play(q, i) PROVE Loaded'
  <2>1. q \in Seq(Tracks) /\ i \in 1..Len(q)
    BY PlayerAssumption
  <2> QED BY <1>2, <2>1, PlayLoads
<1>3. ASSUME NEW t \in Tracks, Enqueue(t) \/ PlayNext(t) PROVE Loaded'
  BY <1>3, EditLoads
<1>4. ASSUME NEW i, Bar, RemoveFromQueueAt(i) PROVE Loaded'
  BY <1>4, RemoveLoads DEF Bar
<1>5. ASSUME NEW i, JumpTo(i) PROVE Loaded'
  <2>1. i \in Nat /\ i \in 1..Len(order) /\ SetLine(queue, order, i) /\ shuffle' = shuffle
    BY <1>5 DEF JumpTo, Lined, modes
  <2> QED BY <2>1, MoveLoads DEF SetLine
<1>6. CASE NextTrack
  BY <1>6, AdvanceLoads DEF NextTrack
<1>7. CASE Prev
  BY <1>7, PrevLoads
<1>8. CASE Stop \/ SignedOut
  BY <1>8, SilenceLoads DEF Stop, SignedOut
<1>9. CASE ToggleShuffle /\ Current # NoTrack
  BY <1>9, ToggleLoads
<1>10. CASE Ended
  <2>1. UNCHANGED modes /\ (UNCHANGED <<lineup, src>> \/ Advance("ended", FALSE))
    BY <1>10 DEF Ended, AskRadio, element
  <2> QED BY <1>1, <2>1, AdvanceLoads DEF modes
<1>11. CASE LoadFailed
  <2>1. UNCHANGED modes
        /\ (UNCHANGED <<lineup, src>> \/ Advance("failed", playing /\ media = "ready"))
    BY <1>11 DEF LoadFailed, AskRadio
  <2> QED BY <1>1, <2>1, AdvanceLoads DEF modes
<1>12. CASE RadioAnswer
  BY <1>12, RadioLoads
<1>13. ASSUME \/ TogglePlay \/ CycleRepeat \/ LoadedMetadata \/ PlayRejected \/ StrayError
              \/ RadioFailed \/ SignedIn \/ UNCHANGED vars
       PROVE  UNCHANGED <<lineup, shuffle, src>>
  BY <1>13 DEF TogglePlay, CycleRepeat, LoadedMetadata, PlayRejected, StrayError, RadioFailed,
               SignedIn, vars, modes, element
<1>14. CASE UserAct
  <2>1. CASE Transport \/ Swipe \/ Hotkey \/ MediaKey \/ CloseButton
    BY <1>1, <1>6, <1>7, <1>8, <1>9, <1>13, <2>1
    DEF Transport, Swipe, Hotkey, MediaKey, CloseButton, Bar
  <2>2. CASE QueuePanel \/ Page \/ TrackMenu
    BY <1>2, <1>3, <1>4, <1>5, <2>2 DEF QueuePanel, Page, TrackMenu
  <2> QED BY <1>1, <1>8, <1>13, <1>14, <2>1, <2>2 DEF UserAct
<1> QED BY <1>1, <1>10, <1>11, <1>12, <1>13, <1>14 DEF Next, Browser

\* What is heard is the current track, the one every surface shows, however the line
\* moved under it - unless entries were removed and shuffle was turned off, the one way
\* the position leaves the order.
THEOREM HeardShown == Spec => []HeardIsShown
<1>1. Lined /\ Loaded => HeardIsShown
  BY DEF Lined, Loaded, HeardIsShown
<1>2. Init => Lined /\ Loaded
  BY LinedInit, LoadedInit
<1>3. Lined /\ Loaded /\ [Next]_vars => (Lined /\ Loaded)'
  BY LinedStep, LoadedStep
<1> QED BY <1>1, <1>2, <1>3, PTL DEF Spec

\* Queueing a track, playing it next and removing another leave the one that plays, and
\* how far it is, alone - also in a shuffled order and next to earlier removals.
THEOREM EditsSpareTrack == Spec => EditsKeepTrack
<1> DEFINE Edits(t, i) == Enqueue(t) \/ PlayNext(t) \/ RemoveFromQueueAt(i)
<1>1. ASSUME Lined, NEW t \in Tracks, NEW i \in 1..MaxQueue, Current # NoTrack, Edits(t, i)
      PROVE  Current' = Current /\ UNCHANGED element
  <2>0. /\ queue \in Seq(Tracks) /\ order \in Seq(1..Len(queue)) /\ pos \in 1..Len(order)
        /\ order[pos] \in 1..Len(queue) /\ Current = queue[order[pos]]
    BY <1>1 DEF Lined, Current, TrackAt
  <2>1. SUFFICES ASSUME NEW q, NEW o, NEW p, SetLine(q, o, p),
                        p \in DOMAIN o, q[o[p]] = queue[order[pos]]
                 PROVE  Current' = Current /\ UNCHANGED element
    <3>1. CASE Enqueue(t)
      <4>1. SetLine(Append(queue, t), Append(order, Len(queue) + 1), pos)
        BY <2>0, <3>1 DEF Enqueue
      <4>2. /\ pos \in DOMAIN Append(order, Len(queue) + 1)
            /\ Append(order, Len(queue) + 1)[pos] = order[pos]
        BY <2>0
      <4>3. Append(queue, t)[order[pos]] = queue[order[pos]]
        BY <2>0
      <4> QED BY <2>1, <4>1, <4>2, <4>3
    <3>2. CASE PlayNext(t)
      <4> DEFINE p == IF pos < Len(order) THEN pos + 1 ELSE Len(order) + 1
                 n == Len(queue) + 1
      <4>1. SetLine(Append(queue, t), Inserted(p), pos)
        BY <2>0, <3>2 DEF PlayNext
      <4>2. /\ p \in 1..(Len(order) + 1) /\ pos < p /\ order \in Seq(1..n) /\ n \in 1..n
        BY <2>0
      <4> HIDE DEF p, n
      <4>j. pos \in DOMAIN InsertAt(order, p, n) /\ InsertAt(order, p, n)[pos] = order[pos]
        <5> DEFINE T == 1..n
        <5>1. /\ order \in Seq(T) /\ n \in T /\ p \in 1..(Len(order) + 1)
              /\ pos \in 1..Len(order) /\ pos < p
          BY <2>0, <4>2
        <5> HIDE DEF T
        <5> QED BY ONLY <5>1, InsertedBehind
      <4>3. pos \in DOMAIN Inserted(p) /\ Inserted(p)[pos] = order[pos]
        BY <4>j DEF Inserted, n
      <4>4. Append(queue, t)[order[pos]] = queue[order[pos]]
        BY <2>0
      <4> QED BY <2>1, <4>1, <4>3, <4>4
    <3>3. CASE RemoveFromQueueAt(i)
      <4>1. /\ SetLine(queue, RemoveAt(order, i), Shift(i))
            /\ i \in 1..Len(order) /\ i # pos
        BY <2>0, <3>3 DEF RemoveFromQueueAt
      <4>2. /\ Shift(i) \in 1..(Len(order) - 1)
            /\ Shift(i) < i => Shift(i) = pos
            /\ Shift(i) >= i => Shift(i) + 1 = pos
        BY <2>0, <4>1 DEF Shift
      <4>3. Shift(i) \in DOMAIN RemoveAt(order, i) /\ RemoveAt(order, i)[Shift(i)] = order[pos]
        <5>1. /\ RemoveAt(order, i) \in Seq(1..Len(queue))
              /\ Len(RemoveAt(order, i)) = Len(order) - 1
              /\ \A j \in 1..(Len(order) - 1) :
                    RemoveAt(order, i)[j] = IF j < i THEN order[j] ELSE order[j + 1]
          BY <2>0, <4>1, Withdrawal
        <5>2. Shift(i) \in DOMAIN RemoveAt(order, i)
          BY <2>0, <4>2, <5>1
        <5>3. CASE Shift(i) < i
          BY <4>2, <5>1, <5>3
        <5>4. CASE ~(Shift(i) < i)
          BY <4>1, <4>2, <5>1, <5>4
        <5> QED BY <5>2, <5>3, <5>4
      <4> QED BY <2>1, <4>1, <4>3
    <3> QED BY <1>1, <3>1, <3>2, <3>3
  <2>2. TrackAt(q, o, p) = Current
    BY <2>0, <2>1 DEF TrackAt
  <2> QED BY <2>1, <2>2 DEF SetLine, Load, Reloads, Current, element
<1>2. Lined /\ [Next]_vars =>
        [\/ Current = NoTrack
         \/ Current' = Current /\ UNCHANGED element
         \/ \A t \in Tracks, i \in 1..MaxQueue : ~Edits(t, i)]_vars
  BY <1>1
<1> QED BY <1>2, LinedInit, LinedStep, PTL DEF Spec, EditsKeepTrack

\* No entry left the line.
Keeps == IsPrefix(queue, queue') /\ ToSet(order) \subseteq ToSet(order')

LEMMA Everything ==
    ASSUME NEW S, IsFiniteSet(S), NEW s \in SetToSeqs(S), NEW x \in S
    PROVE  \E i \in 1..Len(s) : s[i] = x
<1> DEFINE D == 1..Cardinality(S)
<1>1. Cardinality(S) \in Nat /\ Cardinality(D) = Cardinality(S)
  BY FS_CardinalityType, Counted
<1>2. s \in [D -> S] /\ \A i, j \in D : i # j => s[i] # s[j]
  BY DEF SetToSeqs
<1>3. s \in Injection(D, S)
  BY <1>2 DEF Injection, IsInjective
<1>4. s \in Surjection(D, S)
  BY <1>1, <1>3, FS_Injection
<1>5. Len(s) = Cardinality(S)
  BY <1>1, <1>2
<1> QED BY <1>4, <1>5 DEF Surjection

LEMMA Unmoved == Lined /\ UNCHANGED <<queue, order>> => Keeps
BY Prefixed DEF Lined, Keeps

\* What is appended or inserted leaves the rest.
LEMMA EditKeeps ==
    ASSUME Lined, Loaded, NEW t \in Tracks, Enqueue(t) \/ PlayNext(t)
    PROVE  Keeps
<1> DEFINE n == Len(queue) + 1
<1>0. queue \in Seq(Tracks) /\ order \in Seq(1..Len(queue)) /\ pos \in Nat
  BY DEF Lined
<1>1. CASE pos = 0
  <2>1. queue = <<>> /\ order = <<>> /\ queue' \in Seq(Tracks)
    BY <1>1, EditLines DEF Loaded, Lined
  <2> QED BY <2>1 DEF Keeps, IsPrefix, ToSet
<1>2. IsPrefix(queue, Append(queue, t))
  <2>1. Append(queue, t) = queue \o <<t>> /\ <<t>> \in Seq(Tracks)
    BY <1>0
  <2> QED BY <1>0, <2>1, Prefixed
<1>3. CASE Enqueue(t) /\ pos # 0
  <2>1. queue' = Append(queue, t) /\ order' = Append(order, n)
    BY <1>3 DEF Enqueue, SetLine, Load
  <2>2. \A j \in DOMAIN order : j \in DOMAIN Append(order, n) /\ Append(order, n)[j] = order[j]
    BY <1>0
  <2>3. ToSet(order) \subseteq ToSet(Append(order, n))
    BY <2>2 DEF ToSet
  <2> QED BY <1>2, <2>1, <2>3 DEF Keeps
<1>4. CASE PlayNext(t) /\ pos # 0
  <2> DEFINE p == IF pos < Len(order) THEN pos + 1 ELSE Len(order) + 1
  <2>1. queue' = Append(queue, t) /\ order' = InsertAt(order, p, n)
    BY <1>4 DEF PlayNext, SetLine, Load, Inserted
  <2>2. p \in 1..(Len(order) + 1) /\ order \in Seq(1..n) /\ n \in 1..n
    BY <1>0
  <2> HIDE DEF p
  <2> DEFINE T == 1..n
  <2>t. order \in Seq(T) /\ n \in T
    BY <2>2
  <2>n. n \in Nat
    BY <1>0
  <2> HIDE DEF T, n
  <2>3. /\ order' \in Seq(T) /\ Len(order') = Len(order) + 1
        /\ \A j \in 1..(Len(order) + 1) :
              order'[j] = IF j < p THEN order[j] ELSE IF j = p THEN n ELSE order[j - 1]
    <3>1. /\ InsertAt(order, p, n) \in Seq(T) /\ Len(InsertAt(order, p, n)) = Len(order) + 1
          /\ \A j \in 1..(Len(order) + 1) : InsertAt(order, p, n)[j] =
                IF j < p THEN order[j] ELSE IF j = p THEN n ELSE order[j - 1]
      <4>1. p \in 1..(Len(order) + 1)
        BY <2>2
      <4> QED BY ONLY <2>t, <4>1, Insertion
    <3> QED BY <2>1, <3>1
  <2>4. ASSUME NEW j \in 1..Len(order) PROVE \E k \in DOMAIN order' : order'[k] = order[j]
    <3>1. CASE j < p
      <4>1. j \in DOMAIN order' /\ order'[j] = order[j]
        BY <1>0, <2>3, <3>1
      <4> QED BY <4>1
    <3>2. CASE ~(j < p)
      <4>1. j + 1 \in 1..(Len(order) + 1) /\ ~(j + 1 < p) /\ j + 1 # p /\ (j + 1) - 1 = j
        BY <2>2, <3>2
      <4>2. j + 1 \in DOMAIN order' /\ order'[j + 1] = order[j]
        BY <2>3, <4>1
      <4> QED BY <4>2
    <3> QED BY <3>1, <3>2
  <2>5. ToSet(order) \subseteq ToSet(order')
    BY <1>0, <2>4 DEF ToSet
  <2> QED BY <1>2, <2>1, <2>5 DEF Keeps
<1> QED BY <1>1, <1>3, <1>4

\* A reshuffle plays every entry of the queue.
LEMMA AdvanceKeeps ==
    ASSUME Lined, NEW m, NEW on, Advance(m, on)
    PROVE  Keeps
<1>0. queue \in Seq(Tracks) /\ order \in Seq(1..Len(queue)) /\ pos \in Nat
      /\ (shuffle => pos <= Len(order))
  BY DEF Lined
<1>1. CASE UNCHANGED <<queue, order>>
  BY <1>1, Unmoved
<1>2. CASE ~UNCHANGED <<queue, order>>
  <2>1. ~(pos = 0 \/ pos < Len(order)) /\ shuffle /\ Len(queue) > 1
    BY <1>2 DEF Advance, Load
  <2>2. PICK s \in Shuffled(DOMAIN queue \ {order[pos]}) :
           Load(queue, Append(s, order[pos]), 1, m, on)
    BY <2>1 DEF Advance
  <2> DEFINE x == order[pos]
             k == Len(queue)
  <2>3. x \in 1..k /\ DOMAIN queue = 1..k /\ k \in Nat
    BY <1>0, <2>1
  <2>4. s \in SetToSeqs((1..k) \ {x}) /\ queue' = queue /\ order' = Append(s, x)
    BY <2>2, <2>3 DEF Shuffled, Load
  <2> HIDE DEF x, k
  <2>5. s \in Seq((1..k) \ {x}) /\ \A y \in (1..k) \ {x} : \E i \in 1..Len(s) : s[i] = y
    BY <2>3, <2>4, Counted, Arrangements, Everything
  <2>6. ASSUME NEW y \in 1..k PROVE y \in ToSet(Append(s, x))
    <3>1. CASE y = x
      <4>1. Len(s) + 1 \in DOMAIN Append(s, x) /\ Append(s, x)[Len(s) + 1] = x
        BY <2>5
      <4> QED BY <3>1, <4>1 DEF ToSet
    <3>2. CASE y # x
      <4>1. PICK i \in 1..Len(s) : s[i] = y
        BY <2>5, <3>2
      <4>2. i \in DOMAIN Append(s, x) /\ Append(s, x)[i] = y
        BY <2>5, <4>1
      <4> QED BY <4>2 DEF ToSet
    <3> QED BY <3>1, <3>2
  <2>7. ToSet(order) \subseteq 1..k
    BY <1>0 DEF ToSet, k
  <2> QED BY <1>0, <2>4, <2>6, <2>7, Prefixed DEF Keeps
<1> QED BY <1>1, <1>2

LEMMA RadioKeeps ==
    ASSUME Lined, RadioAnswer
    PROVE  Keeps
<1>1. CASE UNCHANGED <<lineup, element>>
  BY <1>1, Unmoved DEF lineup
<1>2. ASSUME NEW new \in Seq(Tracks),
             SetLine(queue \o new, order \o Entries(new), Len(order) + 1)
      PROVE  Keeps
  <2> DEFINE more == Entries(new)
  <2>1. IsPrefix(queue, queue \o new) /\ more \in Seq(Nat)
    BY Extended
  <2>2. queue' = queue \o new /\ order' = order \o more
    BY <1>2 DEF SetLine, Load
  <2>3. order \in Seq(1..Len(queue)) /\ queue \in Seq(Tracks)
    BY DEF Lined
  <2> HIDE DEF more
  <2>4. \A j \in DOMAIN order : j \in DOMAIN (order \o more) /\ (order \o more)[j] = order[j]
    BY <2>1, <2>3
  <2>5. ToSet(order) \subseteq ToSet(order \o more)
    BY <2>4 DEF ToSet
  <2> QED BY <2>1, <2>2, <2>5 DEF Keeps
<1> QED BY <1>1, <1>2, RadioAppends

\* Only the listener takes entries out of the line: a reshuffle, a failed load, an
\* insertion and the radio's late answer keep every entry that was to be played.
THEOREM LineKept == Spec => LineSurvives
<1> DEFINE ByListener == \/ Page \/ Stop \/ SignedOut \/ ToggleShuffle
                         \/ \E i \in DOMAIN order : RemoveFromQueueAt(i)
<1>1. Lined /\ Loaded /\ [Next]_vars => [Keeps \/ ByListener]_vars
  <2> SUFFICES ASSUME Lined, Loaded, Next PROVE Keeps \/ ByListener
    OBVIOUS
  <2>1. ASSUME NEW t \in Tracks, Enqueue(t) \/ PlayNext(t) PROVE Keeps
    BY <2>1, EditKeeps
  <2>2. ASSUME \/ TogglePlay \/ CycleRepeat \/ LoadedMetadata \/ PlayRejected \/ StrayError
               \/ RadioFailed \/ SignedIn \/ Prev
        PROVE  Keeps
    <3>1. UNCHANGED <<queue, order>>
      BY <2>2 DEF TogglePlay, CycleRepeat, LoadedMetadata, PlayRejected, StrayError,
                  RadioFailed, SignedIn, Prev, SetLine, Load, lineup
    <3> QED BY <3>1, Unmoved
  <2>3. ASSUME NEW i, JumpTo(i) PROVE Keeps
    <3>1. UNCHANGED <<queue, order>>
      BY <2>3 DEF JumpTo, SetLine, Load
    <3> QED BY <3>1, Unmoved
  <2>4. NextTrack => Keeps
    BY AdvanceKeeps DEF NextTrack
  <2>5. CASE Ended
    <3>1. UNCHANGED <<queue, order>> \/ Advance("ended", FALSE)
      BY <2>5 DEF Ended, AskRadio, lineup
    <3> QED BY <3>1, Unmoved, AdvanceKeeps
  <2>6. CASE LoadFailed
    <3>1. UNCHANGED <<queue, order>> \/ Advance("failed", playing /\ media = "ready")
      BY <2>6 DEF LoadFailed, AskRadio, lineup
    <3> QED BY <3>1, Unmoved, AdvanceKeeps
  <2>7. CASE RadioAnswer
    BY <2>7, RadioKeeps
  <2>8. CASE Transport \/ Swipe \/ Hotkey \/ MediaKey \/ CloseButton
    BY <2>2, <2>4, <2>8 DEF Transport, Swipe, Hotkey, MediaKey, CloseButton
  <2>9. CASE QueuePanel \/ TrackMenu
    BY <2>1, <2>3, <2>9 DEF QueuePanel, TrackMenu
  <2> QED BY <2>2, <2>5, <2>6, <2>7, <2>8, <2>9 DEF Next, UserAct, Browser
<1>2. Init => Lined /\ Loaded
  BY LinedInit, LoadedInit
<1>3. Lined /\ Loaded /\ [Next]_vars => (Lined /\ Loaded)'
  BY LinedStep, LoadedStep
<1>4. [Keeps \/ ByListener]_vars =>
        [\/ IsPrefix(queue, queue') /\ ToSet(order) \subseteq ToSet(order')
         \/ Page \/ Stop \/ SignedOut \/ ToggleShuffle
         \/ \E i \in DOMAIN order : RemoveFromQueueAt(i)]_vars
  BY DEF Keeps
<1> QED BY <1>1, <1>2, <1>3, <1>4, PTL DEF Spec, LineSurvives

-------------------------------------------------------------------------------
(* Filtered sequences *)

\* The numbers of a finite set have the ranks from 1 up, each number its own.
LEMMA Ranks ==
    ASSUME NEW P \in SUBSET Nat, IsFiniteSet(P)
    PROVE  /\ Cardinality(P) \in Nat
           /\ \A i \in P : Rank(P, i) \in 1..Cardinality(P)
           /\ \A i, j \in P : i < j => Rank(P, i) < Rank(P, j)
           /\ \A n \in 1..Cardinality(P) : \E i \in P : Rank(P, i) = n
<1> DEFINE K == 1..Cardinality(P)
           Upto(i) == {j \in P : j <= i}
           rank == [i \in P |-> Rank(P, i)]
<1>1. Cardinality(P) \in Nat
  BY FS_CardinalityType
<1>2. \A i \in P : IsFiniteSet(Upto(i)) /\ Cardinality(Upto(i)) \in Nat
                   /\ Cardinality(Upto(i)) <= Cardinality(P)
  <2> TAKE i \in P
  <2>1. Upto(i) \in SUBSET P
    OBVIOUS
  <2> HIDE DEF Upto
  <2> QED BY <2>1, FS_Subset, FS_CardinalityType
<1>3. \A i \in P : Rank(P, i) \in K
  <2> TAKE i \in P
  <2>1. Cardinality(Upto(i)) # 0
    <3>1. i \in Upto(i)
      OBVIOUS
    <3> HIDE DEF Upto
    <3> QED BY <1>2, <3>1, FS_EmptySet
  <2> HIDE DEF Upto
  <2>2. Cardinality(Upto(i)) \in K
    BY <1>1, <1>2, <2>1
  <2> QED BY <2>2 DEF Rank, Upto
<1>4. ASSUME NEW i \in P, NEW j \in P, i < j
      PROVE  Rank(P, i) < Rank(P, j)
  <2>1. Upto(i) \in SUBSET Upto(j) /\ Upto(i) # Upto(j)
    <3>1. j \in Upto(j) /\ j \notin Upto(i)
      BY <1>4
    <3>2. Upto(i) \subseteq Upto(j)
      <4> SUFFICES ASSUME NEW k \in P, k <= i PROVE k <= j
        OBVIOUS
      <4>1. k \in Nat /\ i \in Nat /\ j \in Nat
        OBVIOUS
      <4> QED BY <1>4, <4>1
    <3> HIDE DEF Upto
    <3> QED BY <3>1, <3>2
  <2> HIDE DEF Upto
  <2>2. Cardinality(Upto(i)) < Cardinality(Upto(j))
    BY <1>2, <2>1, FS_Subset
  <2> QED BY <2>2 DEF Rank, Upto
<1>5. rank \in Surjection(P, K)
  <2>1. rank \in [P -> K]
    BY <1>3
  <2>2. \A i, j \in P : rank[i] = rank[j] => i = j
    <3> SUFFICES ASSUME NEW i \in P, NEW j \in P, i # j PROVE Rank(P, i) # Rank(P, j)
      OBVIOUS
    <3>1. Rank(P, i) \in Nat /\ Rank(P, j) \in Nat
      BY <1>3
    <3>2. i < j \/ j < i
      OBVIOUS
    <3> QED BY <1>4, <3>1, <3>2
  <2> HIDE DEF rank
  <2>3. rank \in Injection(P, K)
    BY <2>1, <2>2 DEF Injection, IsInjective
  <2>4. IsFiniteSet(K) /\ Cardinality(K) = Cardinality(P)
    BY <1>1, FS_Interval
  <2> HIDE DEF K
  <2> QED BY <2>3, <2>4, FS_Injection
<1>6. \A n \in K : \E i \in P : rank[i] = n
  BY <1>5 DEF Surjection
<1> QED BY <1>1, <1>3, <1>4, <1>6

\* The positions a filter keeps, and the one an element of the result is from.
LEMMA Kept ==
    ASSUME NEW T, NEW s \in Seq(T), NEW S
    PROVE  LET P == Places(s, S) IN
           /\ P \in SUBSET Nat /\ IsFiniteSet(P)
           /\ Among(s, S) \in Seq(T) /\ Len(Among(s, S)) = Cardinality(P)
           /\ \A i \in P : Among(s, S)[Rank(P, i)] = s[i]
           /\ \A n \in 1..Cardinality(P) :
                 \E i \in P : Rank(P, i) = n /\ Among(s, S)[n] = s[i]
<1> DEFINE P == Places(s, S)
<1>0. P \subseteq DOMAIN s /\ \A i \in DOMAIN s : i \in P <=> s[i] \in S
  BY DEF Places
<1>1. P \in SUBSET Nat /\ IsFiniteSet(P)
  <2> HIDE DEF P
  <2>1. P \in SUBSET (1..Len(s)) /\ IsFiniteSet(1..Len(s))
    BY <1>0, FS_Interval
  <2>2. 1..Len(s) \subseteq Nat
    OBVIOUS
  <2> QED BY <2>1, <2>2, FS_Subset
<1>2. \A i \in P : s[i] \in T
  BY <1>0
<1> DEFINE At(n) == CHOOSE i \in P : Rank(P, i) = n
           r == [n \in 1..Cardinality(P) |-> s[At(n)]]
<1>3. Among(s, S) = r
  BY DEF Among
<1> HIDE DEF P
<1>4. \A n \in 1..Cardinality(P) : At(n) \in P /\ Rank(P, At(n)) = n
  <2> TAKE n \in 1..Cardinality(P)
  <2>1. \E i \in P : Rank(P, i) = n
    BY <1>1, Ranks
  <2> QED BY <2>1
<1>5. \A i \in P : At(Rank(P, i)) = i
  <2> TAKE i \in P
  <2> DEFINE n == Rank(P, i)
             j == At(n)
  <2>1. n \in 1..Cardinality(P)
    BY <1>1, Ranks
  <2>2. j \in P /\ Rank(P, j) = Rank(P, i)
    BY <1>4, <2>1
  <2> HIDE DEF j
  <2>3. Rank(P, i) \in Nat /\ Rank(P, j) \in Nat
    BY <1>1, <2>2, Ranks
  <2>4. i \in Nat /\ j \in Nat /\ ~(i < j) /\ ~(j < i)
    BY <1>1, <2>2, <2>3, Ranks
  <2>5. i = j
    BY <2>4
  <2> QED BY <2>5 DEF j
<1> HIDE DEF At
<1>6. Cardinality(P) \in Nat /\ \A i \in P : Rank(P, i) \in 1..Cardinality(P)
  BY <1>1, Ranks
<1>7. r \in Seq(T) /\ Len(r) = Cardinality(P)
  BY <1>2, <1>4, <1>6
<1>8. /\ \A i \in P : r[Rank(P, i)] = s[i]
      /\ \A n \in 1..Cardinality(P) : \E i \in P : Rank(P, i) = n /\ r[n] = s[i]
  BY <1>4, <1>5, <1>6
<1> HIDE DEF r
<1> QED BY <1>1, <1>3, <1>7, <1>8 DEF P

\* A filtered sequence has the elements of the sequence that are in the set.
LEMMA Filtered ==
    ASSUME NEW T, NEW s \in Seq(T), NEW S
    PROVE  /\ Among(s, S) \in Seq(T)
           /\ Range(Among(s, S)) = Range(s) \cap S
<1> DEFINE P == Places(s, S)
           r == Among(s, S)
<1>1. /\ P \in SUBSET Nat /\ IsFiniteSet(P)
      /\ r \in Seq(T) /\ Len(r) = Cardinality(P)
      /\ \A i \in P : r[Rank(P, i)] = s[i]
      /\ \A n \in 1..Cardinality(P) : \E i \in P : Rank(P, i) = n /\ r[n] = s[i]
  BY Kept
<1>2. \A i \in P : Rank(P, i) \in 1..Cardinality(P)
  BY <1>1, Ranks
<1>3. P \subseteq DOMAIN s /\ \A i \in DOMAIN s : i \in P <=> s[i] \in S
  BY DEF Places
<1> HIDE DEF P, r
<1>5. DOMAIN r = 1..Cardinality(P)
  BY <1>1
<1>6. Range(r) \subseteq Range(s) \cap S
  BY <1>1, <1>3, <1>5 DEF Range
<1>7. Range(s) \cap S \subseteq Range(r)
  BY <1>1, <1>2, <1>3, <1>5 DEF Range
<1> QED BY <1>1, <1>6, <1>7 DEF r

LEMMA Alike ==
    ASSUME NEW T, NEW s \in Seq(T), NEW t \in Seq(T), Len(s) = Len(t),
           \A i \in 1..Len(s) : s[i] = t[i]
    PROVE  s = t
OBVIOUS

LEMMA FilteredNone == \A S : Among(<<>>, S) = <<>>
<1> TAKE S
<1>1. Places(<<>>, S) = {} /\ Cardinality({}) = 0
  BY FS_EmptySet DEF Places
<1>2. Among(<<>>, S) \in Seq({}) /\ Len(Among(<<>>, S)) = Cardinality(Places(<<>>, S))
  <2>1. <<>> \in Seq({})
    OBVIOUS
  <2> QED BY <2>1, Kept
<1> QED BY <1>1, <1>2

\* What is appended is appended to the filtered sequence, or left out.
LEMMA FilteredMore ==
    ASSUME NEW T, NEW s \in Seq(T), NEW e \in T, NEW S
    PROVE  Among(Append(s, e), S) =
              IF e \in S THEN Append(Among(s, S), e) ELSE Among(s, S)
<1> DEFINE P == Places(s, S)
           u == Append(s, e)
           Q == Places(u, S)
           a == Among(s, S)
           b == Among(u, S)
           z == Len(s) + 1
<1>1. /\ u \in Seq(T) /\ Len(u) = z /\ u[z] = e /\ \A i \in 1..Len(s) : u[i] = s[i]
      /\ z \in Nat /\ DOMAIN s = 1..Len(s)
  OBVIOUS
<1>2. /\ P \in SUBSET (1..Len(s)) /\ P \in SUBSET Nat /\ IsFiniteSet(P)
      /\ a \in Seq(T) /\ Len(a) = Cardinality(P)
      /\ \A i \in P : a[Rank(P, i)] = s[i]
      /\ \A n \in 1..Cardinality(P) : \E i \in P : Rank(P, i) = n /\ a[n] = s[i]
  <2>1. P \in SUBSET (1..Len(s))
    BY DEF Places
  <2> HIDE DEF P, a
  <2> QED BY <2>1, Kept DEF P, a
<1>3. /\ Q \in SUBSET Nat /\ IsFiniteSet(Q)
      /\ b \in Seq(T) /\ Len(b) = Cardinality(Q)
      /\ \A i \in Q : b[Rank(Q, i)] = u[i]
  <2> HIDE DEF u
  <2> QED BY <1>1, Kept
<1>4. Q = IF e \in S THEN P \cup {z} ELSE P
  BY DEF Places
<1> HIDE DEF P, Q, a, b, u
<1>5. \A i \in P : i \in Q /\ Rank(Q, i) = Rank(P, i) /\ u[i] = s[i]
  <2> TAKE i \in P
  <2>1. i \in Nat /\ ~(z <= i) /\ u[i] = s[i]
    BY <1>1, <1>2
  <2>2. {j \in Q : j <= i} = {j \in P : j <= i}
    BY <1>4, <2>1
  <2> QED BY <1>4, <2>1, <2>2 DEF Rank
<1>6. Cardinality(P) \in Nat /\ \A i \in P : Rank(P, i) \in 1..Cardinality(P)
  BY <1>2, Ranks
<1>7. \A n \in 1..Cardinality(P) : b[n] = a[n]
  <2> TAKE n \in 1..Cardinality(P)
  <2>1. PICK i \in P : Rank(P, i) = n /\ a[n] = s[i]
    BY <1>2
  <2> QED BY <1>3, <1>5, <2>1
<1>8. CASE e \notin S
  <2>1. Q = P
    BY <1>4, <1>8
  <2>2. b = a
    BY <1>2, <1>3, <1>7, <2>1, Alike
  <2> QED BY <1>8, <2>2 DEF a, b, u
<1>9. CASE e \in S
  <2>1. z \notin P
    BY <1>1, <1>2
  <2>2. Q = P \cup {z} /\ Cardinality(Q) = Cardinality(P) + 1
    BY <1>2, <1>4, <1>9, <2>1, FS_AddElement
  <2>3. Rank(Q, z) = Cardinality(Q)
    <3>1. {j \in Q : j <= z} = Q
      BY <1>1, <1>2, <2>2
    <3> QED BY <3>1 DEF Rank
  <2>4. b[Cardinality(P) + 1] = e
    <3>1. z \in Q
      BY <2>2
    <3>2. b[Rank(Q, z)] = u[z]
      BY <1>3, <3>1
    <3> QED BY <1>1, <2>2, <2>3, <3>2
  <2> DEFINE c == Append(a, e)
  <2>5. /\ c \in Seq(T) /\ Len(c) = Cardinality(P) + 1 /\ c[Cardinality(P) + 1] = e
        /\ \A n \in 1..Cardinality(P) : c[n] = a[n]
    BY <1>2
  <2> HIDE DEF c
  <2>6. \A n \in 1..Len(b) : b[n] = c[n]
    <3> TAKE n \in 1..Len(b)
    <3>1. n \in 1..Cardinality(P) \/ n = Cardinality(P) + 1
      BY <1>3, <1>6, <2>2
    <3> QED BY <1>7, <2>4, <2>5, <3>1
  <2>7. b = c
    BY <1>3, <2>2, <2>5, <2>6, Alike
  <2> QED BY <1>9, <2>7 DEF a, b, c, u
<1> QED BY <1>8, <1>9

LEMMA JoinedRange ==
    ASSUME NEW T, NEW s \in Seq(T), NEW t \in Seq(T)
    PROVE  s \o t \in Seq(T) /\ Range(s \o t) = Range(s) \cup Range(t)
<1>1. /\ s \o t \in Seq(T) /\ Len(s \o t) = Len(s) + Len(t)
      /\ \A j \in 1..(Len(s) + Len(t)) :
            (s \o t)[j] = IF j <= Len(s) THEN s[j] ELSE t[j - Len(s)]
  BY Joined
<1> DEFINE u == s \o t
<1> HIDE DEF u
<1>2. DOMAIN u = 1..(Len(s) + Len(t)) /\ DOMAIN s = 1..Len(s) /\ DOMAIN t = 1..Len(t)
  BY <1>1 DEF u
<1>3. \A i \in DOMAIN s : i \in DOMAIN u /\ u[i] = s[i]
  BY <1>1, <1>2 DEF u
<1>4. \A i \in DOMAIN t : i + Len(s) \in DOMAIN u /\ u[i + Len(s)] = t[i]
  BY <1>1, <1>2 DEF u
<1>5. \A j \in DOMAIN u : \/ j \in DOMAIN s /\ u[j] = s[j]
                          \/ j - Len(s) \in DOMAIN t /\ u[j] = t[j - Len(s)]
  BY <1>1, <1>2 DEF u
<1>6. Range(u) = Range(s) \cup Range(t)
  BY <1>3, <1>4, <1>5 DEF Range
<1> QED BY <1>1, <1>6 DEF u

-------------------------------------------------------------------------------
(* The back-button stack *)

AllLayers == Range(Layers)

\* A layer whose component has no effect to run has a handler exactly if it is on
\* screen.  Only a component that rendered may differ from the stack.
Registered ==
    /\ open \subseteq AllLayers /\ stack \in Seq(AllLayers)
    /\ \A l \in AllLayers : Owner(l) \notin owed => (l \in Range(stack) <=> l \in Mounted)

LEMMA LayerNames ==
    /\ AllLayers = {"drawer", "menu", "dialog", "drill", "playing"}
    /\ Layers \in Seq(AllLayers)
  BY DEF AllLayers, Layers, Range

\* When the effects have run, the stack is what is on screen.
LEMMA EffectsAgree ==
    ASSUME Registered
    PROVE  Effects \in Seq(AllLayers) /\ Range(Effects) = Mounted
<1> DEFINE away == {l \in Range(stack) : Owner(l) \in owed /\ ~(l = "drill" /\ l \in Mounted)}
           left == Unregister(away)
           due  == {l \in Mounted \ Range(left) : Owner(l) \in owed}
           came == Among(Layers, due)
<1>1. Effects = left \o came
  BY DEF Effects
<1>2. /\ left \in Seq(AllLayers)
      /\ Range(left) = Range(stack) \cap (AllLayers \ away)
  <2> HIDE DEF away
  <2> QED BY Filtered DEF Registered, Unregister, AllLayers
<1>3. came \in Seq(AllLayers) /\ Range(came) = AllLayers \cap due
  <2> HIDE DEF due
  <2> QED BY LayerNames, Filtered DEF AllLayers
<1> HIDE DEF left, came
<1>4. left \o came \in Seq(AllLayers) /\ Range(left \o came) = Range(left) \cup Range(came)
  BY <1>2, <1>3, JoinedRange
<1>5. Mounted \subseteq AllLayers /\ Range(stack) \subseteq AllLayers
  BY DEF Registered, Mounted, Range
<1>6. \A l \in AllLayers : l \in Range(left) \cup Range(came) <=> l \in Mounted
  BY <1>2, <1>3, <1>5 DEF Registered
<1> QED BY <1>1, <1>2, <1>3, <1>4, <1>5, <1>6

LEMMA OverlaysStart == OverlaysInit => Registered
  BY DEF OverlaysInit, Registered, Mounted, Range

\* A commit that changes only what its components render.
LEMMA Committed ==
    ASSUME Registered, NEW layers \in SUBSET AllLayers, NEW owners, Commit(layers, owners),
           \A l \in AllLayers : Owner(l) \notin owners => (l \in Mounted' <=> l \in Mounted)
    PROVE  Registered'
<1>1. stack' \in Seq(AllLayers) /\ Range(stack') = Mounted
  BY EffectsAgree DEF Commit
<1> QED BY <1>1 DEF Commit, Registered

LEMMA OverlaysStep ==
    ASSUME Registered, [OverlaysNext]_overlayVars
    PROVE  Registered'
<1> USE DEF Owner, Mounted, PageRender, RenderedBy
<1>0. open \subseteq AllLayers /\ stack \in Seq(AllLayers)
  BY DEF Registered
<1>1. ASSUME NEW l \in {"drawer", "menu", "dialog", "drill"}, OpenInPage(l) PROVE Registered'
  <2>1. /\ open \cup {l} \in SUBSET AllLayers /\ open' = open \cup {l} /\ music' = music
        /\ Commit(open \cup {l}, IF Owner(l) = "header" THEN {"header"} ELSE PageRender)
    BY <1>0, <1>1, LayerNames DEF OpenInPage, Commit
  <2> QED BY <2>1, Committed, LayerNames
<1>2. CASE OpenPlaying
  <2>1. /\ open \cup {"playing"} \in SUBSET AllLayers /\ open' = open \cup {"playing"}
        /\ music' = music /\ Commit(open \cup {"playing"}, {"bar"})
    BY <1>0, <1>2, LayerNames DEF OpenPlaying, Commit
  <2> QED BY <2>1, Committed, LayerNames
<1>3. ASSUME NEW l \in Range(Layers), CloseLayer(l) PROVE Registered'
  <2>1. /\ open \ {l} \in SUBSET AllLayers /\ open' = open \ {l} /\ music' = music
        /\ Commit(open \ {l}, RenderedBy(l)) /\ l \in AllLayers
    BY <1>0, <1>3 DEF CloseLayer, Commit, AllLayers
  <2> QED BY <2>1, Committed, LayerNames
<1>4. CASE Escape
  <2> DEFINE heard == Mounted \ {"drill"}
             owners == UNION {RenderedBy(l) : l \in heard}
  <2>1. /\ open \ heard \in SUBSET AllLayers /\ open' = open \ heard /\ music' = music
        /\ Commit(open \ heard, owners)
    BY <1>0, <1>4 DEF Escape, Commit
  <2>2. \A l \in AllLayers : Owner(l) \notin owners => l \notin heard
    BY LayerNames
  <2> QED BY <2>1, <2>2, Committed, LayerNames
<1>5. CASE Visit
  <2>1. /\ open \cap {"playing"} \in SUBSET AllLayers /\ open' = open \cap {"playing"}
        /\ music' = music /\ Commit(open \cap {"playing"}, PageRender)
    BY <1>0, <1>5 DEF Visit, Commit
  <2> QED BY <2>1, Committed, LayerNames
<1>6. CASE Back
  <2>1. CASE stack # <<>> /\ Last(stack) \in open
    <3>1. /\ open \ {Last(stack)} \in SUBSET AllLayers /\ open' = open \ {Last(stack)}
          /\ music' = music /\ Commit(open \ {Last(stack)}, RenderedBy(Last(stack)))
      BY <1>0, <1>6, <2>1 DEF Back, Commit
    <3>2. Last(stack) \in AllLayers
      BY <1>0, <2>1
    <3> QED BY <3>1, <3>2, Committed, LayerNames
  <2>2. CASE stack # <<>> /\ Last(stack) \notin open
    BY <1>6, <2>2 DEF Back, Registered
  <2>3. CASE stack = <<>>
    <3>1. /\ open \cap {"playing"} \in SUBSET AllLayers /\ open' = open \cap {"playing"}
          /\ music' = music /\ Commit(open \cap {"playing"}, PageRender)
      BY <1>0, <1>6, <2>3 DEF Back, Commit
    <3> QED BY <3>1, Committed, LayerNames
  <2> QED BY <2>1, <2>2, <2>3
<1>7. CASE RunEffects
  <2>1. stack' \in Seq(AllLayers) /\ Range(stack') = Mounted
    BY <1>7, EffectsAgree DEF RunEffects
  <2> QED BY <1>7, <2>1 DEF RunEffects, Registered
<1>8. ASSUME NEW owners, Render(owners) PROVE Registered'
  <2>1. open' = open /\ music' = music /\ Commit(open, owners) /\ open \in SUBSET AllLayers
    BY <1>0, <1>8 DEF Render, Commit
  <2> QED BY <2>1, Committed
<1>9. CASE TrackChanges
  <2>1. open' = open /\ Commit(open, {"bar"}) /\ open \in SUBSET AllLayers
    BY <1>0, <1>9 DEF TrackChanges, Commit
  <2> QED BY <2>1, Committed, LayerNames
<1>10. CASE UNCHANGED overlayVars
  BY <1>10 DEF overlayVars, Registered
<1> QED BY <1>1, <1>2, <1>3, <1>4, <1>5, <1>6, <1>7, <1>8, <1>9, <1>10
        DEF OverlaysNext, OverlayTap

\* The stack never strays from the layers on screen for longer than the effects owed.
THEOREM BackClosesTop == OverlaysSpec => []StackHoldsOpen
<1>1. Registered => StackHoldsOpen
  <2> SUFFICES ASSUME Registered, owed = {} PROVE ToSet(stack) = Mounted
    BY DEF StackHoldsOpen
  <2>1. ToSet(stack) = Range(stack) /\ Range(stack) \subseteq AllLayers /\ Mounted \subseteq AllLayers
    BY DEF Registered, ToSet, Range, Mounted
  <2> QED BY <2>1 DEF Registered
<1> QED BY <1>1, OverlaysStart, OverlaysStep, PTL DEF OverlaysSpec

-------------------------------------------------------------------------------
(* An owned album against its edition *)

AlbumTypes ==
    /\ library \in Seq(OwnedTrack) /\ owned \in Seq(OwnedTrack)
    /\ edition \in Seq(RemoteTrack)

LEMMA AlbumsStart == AlbumsInit => AlbumTypes
  BY AlbumsAssumption DEF AlbumsInit, AlbumTypes

LEMMA AlbumsStep ==
    ASSUME AlbumTypes, [AlbumsNext]_albumVars
    PROVE  AlbumTypes'
<1>1. ASSUME NEW album, OpenLibrary(album) PROVE AlbumTypes'
  <2>1. GroupOf(album) \in Seq(OwnedTrack)
    BY Filtered DEF AlbumTypes, GroupOf
  <2> QED BY <1>1, <2>1 DEF OpenLibrary, AlbumTypes
<1>2. ASSUME NEW t \in Range(edition), NEW album \in LibraryAlbums, Arrives(t, album)
      PROVE  AlbumTypes'
  <2>1. t \in RemoteTrack
    BY DEF AlbumTypes, Range
  <2>2. album \in STRING
    <3>1. PICK o \in Range(library) : album = o.album
      BY DEF LibraryAlbums
    <3>2. o \in OwnedTrack
      BY <3>1 DEF AlbumTypes, Range
    <3> QED BY <3>1, <3>2 DEF OwnedTrack
  <2> DEFINE new == [id |-> t.id, title |-> t.title, copy |-> "mp3", album |-> album]
  <2>3. new \in OwnedTrack
    <3>1. t.id \in Nat /\ t.title \in STRING
      BY <2>1 DEF RemoteTrack
    <3> QED BY <2>2, <3>1 DEF OwnedTrack, Copies
  <2>4. library' \in {library, Append(library, new)} /\ UNCHANGED <<edition, owned>>
    BY <1>2 DEF Arrives
  <2> HIDE DEF new
  <2> QED BY <2>3, <2>4 DEF AlbumTypes
<1>3. CASE CloseAlbum
  BY <1>3 DEF CloseAlbum, AlbumTypes
<1>4. ASSUME UNCHANGED <<library, edition, owned>> PROVE AlbumTypes'
  BY <1>4 DEF AlbumTypes
<1>5. CASE OpenRemote \/ RetryLookup \/ LookedUp \/ \E outage \in BOOLEAN : LookupFails(outage)
  BY <1>4, <1>5 DEF OpenRemote, RetryLookup, LookedUp, LookupFails
<1>6. CASE DownloadMissing \/ DownloadAlbum \/ \E t \in Range(edition) : DownloadRow(t)
  BY <1>4, <1>6 DEF DownloadMissing, DownloadAlbum, DownloadRow, Download
<1>7. CASE UNCHANGED albumVars
  BY <1>4, <1>7 DEF albumVars
<1> QED BY <1>1, <1>2, <1>3, <1>5, <1>6, <1>7 DEF AlbumsNext

\* The track a row of the edition stands for is owned, and is the same video or has
\* the row's title.
LEMMA MatchIsOwned ==
    ASSUME AlbumTypes, NEW t, Matches(t)
    PROVE  LET o == OwnedMatch(t) IN
           /\ o \in Range(owned)
           /\ o.id = t.id \/ (o.title # Blank /\ o.title = t.title)
<1> DEFINE A == {o \in Range(owned) : o.id = t.id}
           B == {o \in Range(owned) : o.title # Blank /\ o.title = t.title}
           m == Matched(t)
<1>0. owned \in Seq(OwnedTrack)
  BY DEF AlbumTypes
<1>1. m = Among(owned, A) \o Among(owned, B)
  BY DEF Matched, ByTitle
<1>2. /\ Among(owned, A) \in Seq(OwnedTrack) /\ Range(Among(owned, A)) = Range(owned) \cap A
      /\ Among(owned, B) \in Seq(OwnedTrack) /\ Range(Among(owned, B)) = Range(owned) \cap B
  <2> HIDE DEF A, B
  <2> QED BY <1>0, Filtered
<1>3. m \in Seq(OwnedTrack) /\ Range(m) \subseteq A \cup B
  <2> HIDE DEF A, B
  <2> QED BY <1>1, <1>2, JoinedRange
<1>4. m # <<>>
  BY DEF Matches
<1> HIDE DEF m
<1>5. Head(m) \in Range(m)
  BY <1>3, <1>4 DEF Range
<1>6. OwnedMatch(t) \in A \cup B
  BY <1>3, <1>5 DEF OwnedMatch, m
<1> QED BY <1>6

\* A track the user owns does not vanish behind the edition: who took the row it
\* matches is the track itself, or the catalog's copy of it.
THEOREM AlbumKeepsOwned == AlbumsSpec => []NothingLost
<1>1. AlbumTypes => NothingLost
  <2> SUFFICES ASSUME AlbumTypes, NEW o \in Range(owned), o \notin OwnedRows, o \notin StrayOwned
               PROVE  \E t \in CatalogRows : t.id = o.id \/ (t.title = o.title /\ o.title # Blank)
    BY DEF NothingLost
  <2>1. PICK t \in Range(found.tracks) : Matches(t) /\ o = OwnedMatch(t)
    BY DEF StrayOwned, MatchedKeys
  <2>2. o.id = t.id \/ (o.title # Blank /\ o.title = t.title)
    BY <2>1, MatchIsOwned
  <2>3. t.id \in found.db
    BY <2>1 DEF OwnedRows, RowKind
  <2>4. t \in CatalogRows
    BY <2>1, <2>3 DEF CatalogRows, RowKind
  <2> QED BY <2>2, <2>4
<1> QED BY <1>1, AlbumsStart, AlbumsStep, PTL DEF AlbumsSpec

-------------------------------------------------------------------------------
(* The report of a bulk import *)

Verdicts == {"done", "error", "cancelled"}
Standing == {"none", "active", "done", "error", "cancelled", "interrupted"}

\* The job of the page's socket ran when it was subscribed to, and may have ended since.
ImportTypes ==
    /\ status \in [Imports -> Standing] /\ log \in [Imports -> Seq(Results)]
    /\ line \in [job : {0} \cup Imports, at : {"off", "wait", "open"}, events : Seq(Skipping \cup Verdicts)]
    /\ since \in Nat /\ skips \in Seq(Skipping)
    /\ line.job # 0 => status[line.job] # "none" /\ since <= Len(log[line.job])

\* What the socket's job has skipped is what the page has listed and more; what is
\* on the way completes it, and says at the end that the job has ended.
Listed(rest) == rest \in Seq(Skipping) /\ Skipped = skips \o rest

OnTheWay(rest) ==
    /\ Listed(rest)
    /\ IF status[line.job] = "active" THEN line.events = rest
       ELSE \E e \in Verdicts : line.events = Append(rest, e)

\* A socket is followed by a page that shows the import, and before it opens, or
\* while the start is posted, nothing is listed.
Followed ==
    /\ line.job # 0 => \E rest \in Seq(Skipping) : Listed(rest)
    /\ line.at # "off" => line.job # 0 /\ phase = "running" /\ ~posting
    /\ posting => phase = "running" /\ skips = <<>>
    /\ line.at = "wait" => skips = <<>> /\ line.events = <<>>
    /\ line.at = "open" => \E rest \in Seq(Skipping) : OnTheWay(rest)
    /\ phase = "done" => /\ line.job # 0 /\ line.at = "off" /\ status[line.job] # "active"
                         /\ skips = Skipped /\ counts = Tally(line.job)

ImportInv == ImportTypes /\ Followed

LEMMA ImportStart == ImportInit => ImportInv
  BY DEF ImportInit, ImportInv, ImportTypes, Followed, NoSocket, Standing

\* What is skipped from a point on grows at the end, by what is skipped.
SkippedFrom(s, k) == Among(SubSeq(s, k + 1, Len(s)), Skipping)

LEMMA SkippedMore ==
    ASSUME NEW s \in Seq(Results), NEW k \in Nat, k <= Len(s)
    PROVE  /\ SkippedFrom(s, k) \in Seq(Skipping)
           /\ \A r \in Results :
                 SkippedFrom(Append(s, r), k) =
                    IF r \in Skipping THEN Append(SkippedFrom(s, k), r) ELSE SkippedFrom(s, k)
<1> DEFINE t == SubSeq(s, k + 1, Len(s))
<1>1. t \in Seq(Results)
  OBVIOUS
<1>2. Among(t, Skipping) \in Seq(Skipping)
  <2> DEFINE a == Among(t, Skipping)
  <2>1. a \in Seq(Results) /\ Range(a) \subseteq Skipping
    <3> HIDE DEF t
    <3> QED BY <1>1, Filtered
  <2> HIDE DEF a
  <2>2. \A i \in 1..Len(a) : a[i] \in Skipping
    BY <2>1 DEF Range
  <2> QED BY <2>1, <2>2 DEF a
<1>3. ASSUME NEW r \in Results
      PROVE  SkippedFrom(Append(s, r), k) =
                IF r \in Skipping THEN Append(SkippedFrom(s, k), r) ELSE SkippedFrom(s, k)
  <2> DEFINE u == Append(s, r)
  <2>1. SubSeq(u, k + 1, Len(u)) = Append(t, r)
    <3>1. /\ u \in Seq(Results) /\ Len(u) = Len(s) + 1 /\ u[Len(s) + 1] = r
          /\ \A i \in 1..Len(s) : u[i] = s[i]
      OBVIOUS
    <3> DEFINE v == SubSeq(u, k + 1, Len(u))
    <3> HIDE DEF u
    <3>2. /\ v \in Seq(Results) /\ Len(v) = Len(s) + 1 - k
          /\ \A i \in 1..(Len(s) + 1 - k) : v[i] = u[i + k]
      BY <3>1
    <3>3. /\ t \in Seq(Results) /\ Len(t) = Len(s) - k
          /\ \A i \in 1..(Len(s) - k) : t[i] = s[i + k]
      OBVIOUS
    <3> HIDE DEF t, v
    <3> DEFINE w == Append(t, r)
    <3>4. /\ w \in Seq(Results) /\ Len(w) = Len(s) - k + 1 /\ w[Len(s) - k + 1] = r
          /\ \A i \in 1..(Len(s) - k) : w[i] = t[i]
      BY <3>3
    <3> HIDE DEF w
    <3>5. \A i \in 1..(Len(s) + 1 - k) : v[i] = w[i]
      <4> TAKE i \in 1..(Len(s) + 1 - k)
      <4>1. v[i] = u[i + k]
        BY <3>2
      <4>2. CASE i \in 1..(Len(s) - k)
        <5>1. i + k \in 1..Len(s)
          BY <4>2
        <5>2. w[i] = s[i + k]
          BY <3>3, <3>4, <4>2
        <5> QED BY <3>1, <4>1, <5>1, <5>2
      <4>3. CASE i = Len(s) - k + 1
        <5>1. i + k = Len(s) + 1
          BY <4>3
        <5> QED BY <3>1, <3>4, <4>1, <4>3, <5>1
      <4> QED BY <4>2, <4>3
    <3>6. v = w
      BY <3>2, <3>4, <3>5, Alike
    <3> QED BY <3>6 DEF v, w, t
  <2>2. Among(Append(t, r), Skipping) =
           IF r \in Skipping THEN Append(Among(t, Skipping), r) ELSE Among(t, Skipping)
    <3> HIDE DEF t
    <3> QED BY <1>1, FilteredMore
  <2> QED BY <2>1, <2>2 DEF SkippedFrom
<1> QED BY <1>2, <1>3 DEF SkippedFrom

\* What is put is on the way, to the job's socket.
LEMMA PutTyped ==
    ASSUME ImportTypes, NEW j, NEW e \in Skipping \cup Verdicts, Put(j, e)
    PROVE  /\ line' \in [job : {0} \cup Imports, at : {"off", "wait", "open"},
                         events : Seq(Skipping \cup Verdicts)]
           /\ line'.job = line.job /\ line'.at = line.at
<1> DEFINE all == Skipping \cup Verdicts
<1>1. line \in [job : {0} \cup Imports, at : {"off", "wait", "open"}, events : Seq(all)]
  BY DEF ImportTypes
<1>2. e \in all
  OBVIOUS
<1> HIDE DEF all
<1>3. Append(line.events, e) \in Seq(all)
  BY <1>1, <1>2
<1>4. line' = line \/ line' = [line EXCEPT !.events = Append(line.events, e)]
  BY DEF Put
<1>5. /\ line' \in [job : {0} \cup Imports, at : {"off", "wait", "open"}, events : Seq(all)]
      /\ line'.job = line.job /\ line'.at = line.at
  BY <1>1, <1>3, <1>4
<1> QED BY <1>5 DEF all

LEMMA ProcessFollowed ==
    ASSUME ImportInv, NEW j \in Imports, Process(j)
    PROVE  ImportInv'
<1>1. PICK r \in Results : /\ log' = [log EXCEPT ![j] = Append(@, r)]
                           /\ IF r \in Skipping THEN Put(j, r) ELSE UNCHANGED line
  BY DEF Process
<1>2. /\ status[j] = "active"
      /\ UNCHANGED <<status, size, report, posting, since>>
  BY DEF Process
<1>3. ImportTypes
  BY DEF ImportInv
<1>4. line'.job = line.job /\ line'.at = line.at
  BY <1>1, <1>3 DEF Put, ImportTypes
<1>5. log' \in [Imports -> Seq(Results)] /\ log'[j] = Append(log[j], r)
      /\ \A i \in Imports \ {j} : log'[i] = log[i]
  BY <1>1, <1>3 DEF ImportTypes
<1>6. CASE line.job # j
  <2>1. line' = line
    BY <1>1, <1>6 DEF Put
  <2>2. line.job # 0 => Skipped' = Skipped /\ Tally(line.job)' = Tally(line.job)
    BY <1>2, <1>3, <1>5, <1>6, <2>1 DEF Skipped, Tally, ImportTypes
  <2>3. ImportTypes'
    BY <1>2, <1>3, <1>5, <1>6, <2>1 DEF ImportTypes, report
  <2>4. Followed'
    BY <1>2, <1>3, <2>1, <2>2 DEF ImportInv, ImportTypes, Followed, Listed, OnTheWay, report
  <2> QED BY <2>3, <2>4 DEF ImportInv
<1>7. CASE line.job = j
  <2>1. log[j] \in Seq(Results) /\ since \in Nat /\ since <= Len(log[j]) /\ j # 0
    BY <1>3, <1>7 DEF ImportTypes, Imports
  <2>2. /\ Skipped = SkippedFrom(log[j], since)
        /\ Skipped' = SkippedFrom(Append(log[j], r), since)
    BY <1>2, <1>4, <1>5, <1>7 DEF Skipped, SkippedFrom
  <2>3. /\ Skipped \in Seq(Skipping)
        /\ Skipped' = IF r \in Skipping THEN Append(Skipped, r) ELSE Skipped
    BY <2>1, <2>2, SkippedMore
  <2>4. Len(log'[j]) = Len(log[j]) + 1
    BY <1>5, <2>1
  <2>5. line' \in [job : {0} \cup Imports, at : {"off", "wait", "open"},
                   events : Seq(Skipping \cup Verdicts)]
    BY <1>1, <1>3, PutTyped DEF ImportTypes
  <2>6. ImportTypes'
    BY <1>2, <1>3, <1>4, <1>5, <1>7, <2>1, <2>4, <2>5 DEF ImportTypes, report
  <2>7. phase # "done"
    BY <1>2, <1>7 DEF ImportInv, Followed
  <2>8. skips \in Seq(Skipping)
    BY <1>3 DEF ImportTypes
  <2>9. ASSUME NEW rest \in Seq(Skipping), Skipped = skips \o rest
        PROVE  /\ r \in Skipping => Append(rest, r) \in Seq(Skipping)
                                    /\ Skipped' = skips \o Append(rest, r)
               /\ r \notin Skipping => Skipped' = skips \o rest
    <3>1. CASE r \in Skipping
      <4>1. Append(skips \o rest, r) = skips \o Append(rest, r)
        BY <2>8, <3>1
      <4>2. Append(rest, r) \in Seq(Skipping)
        BY <3>1
      <4> QED BY <2>3, <2>9, <3>1, <4>1, <4>2
    <3> QED BY <2>3, <2>9, <3>1
  <2>10. \E rest \in Seq(Skipping) : Listed(rest)'
    <3>1. PICK rest \in Seq(Skipping) : Skipped = skips \o rest
      BY <1>7, <2>1 DEF ImportInv, Followed, Listed
    <3> QED BY <1>2, <2>9, <3>1 DEF Listed, report
  <2>11. line.at = "open" => \E rest \in Seq(Skipping) : OnTheWay(rest)'
    <3> SUFFICES ASSUME line.at = "open" PROVE \E rest \in Seq(Skipping) : OnTheWay(rest)'
      OBVIOUS
    <3>1. PICK rest \in Seq(Skipping) : Skipped = skips \o rest /\ line.events = rest
      BY <1>2, <1>7 DEF ImportInv, Followed, OnTheWay, Listed
    <3>2. CASE r \in Skipping
      <4>1. line'.events = Append(rest, r)
        BY <1>1, <1>3, <1>7, <3>1, <3>2 DEF Put, ImportTypes
      <4> QED BY <1>2, <1>4, <1>7, <2>9, <3>1, <3>2, <4>1 DEF OnTheWay, Listed, report
    <3>3. CASE r \notin Skipping
      <4>1. line' = line
        BY <1>1, <3>3
      <4> QED BY <1>2, <1>7, <2>9, <3>1, <3>3, <4>1 DEF OnTheWay, Listed, report
    <3> QED BY <3>2, <3>3
  <2>12. line.at = "wait" => line' = line
    BY <1>1 DEF Put
  <2>13. Followed'
    BY <1>2, <1>4, <1>7, <2>7, <2>10, <2>11, <2>12 DEF ImportInv, Followed, report
  <2> QED BY <2>6, <2>13 DEF ImportInv
<1> QED BY <1>6, <1>7

\* A job ends, and says so to the socket that has it.
LEMMA EndFollowed ==
    ASSUME ImportInv, NEW j \in Imports, NEW s \in Verdicts, status[j] = "active",
           status' = [status EXCEPT ![j] = s], Put(j, s),
           UNCHANGED <<log, size, report, posting, since>>
    PROVE  ImportInv'
<1>1. ImportTypes
  BY DEF ImportInv
<1>2. /\ line'.job = line.job /\ line'.at = line.at
      /\ line' \in [job : {0} \cup Imports, at : {"off", "wait", "open"},
                    events : Seq(Skipping \cup Verdicts)]
  BY <1>1, PutTyped
<1>3. /\ status' \in [Imports -> Standing] /\ status'[j] = s
      /\ \A i \in Imports \ {j} : status'[i] = status[i]
  BY <1>1 DEF ImportTypes, Verdicts, Standing
<1>4. ImportTypes'
  BY <1>1, <1>2, <1>3 DEF ImportTypes, report, Verdicts
<1>5. Skipped' = Skipped /\ Tally(line.job)' = Tally(line.job)
  BY <1>2 DEF Skipped, Tally
<1>6. line.at = "open" => \E rest \in Seq(Skipping) : OnTheWay(rest)'
  <2> SUFFICES ASSUME line.at = "open" PROVE \E rest \in Seq(Skipping) : OnTheWay(rest)'
    OBVIOUS
  <2>1. PICK rest \in Seq(Skipping) : OnTheWay(rest)
    BY DEF ImportInv, Followed
  <2>2. CASE line.job # j
    <3>1. line' = line /\ status'[line.job] = status[line.job]
      BY <1>1, <1>3, <2>2 DEF Put, ImportTypes, ImportInv, Followed
    <3> QED BY <1>5, <2>1, <3>1 DEF OnTheWay, Listed, report
  <2>3. CASE line.job = j
    <3>1. line.events = rest
      BY <2>1, <2>3 DEF OnTheWay
    <3>2. line'.events = Append(rest, s) /\ status'[line'.job] # "active"
      BY <1>1, <1>2, <1>3, <2>3, <3>1 DEF Put, ImportTypes, Verdicts
    <3> QED BY <1>5, <2>1, <3>2 DEF OnTheWay, Listed, report
  <2> QED BY <2>2, <2>3
<1>7. line.at = "wait" => line' = line
  BY DEF Put
<1>8. line.job # 0 /\ status[line.job] # "active" => status'[line.job] # "active"
  BY <1>1, <1>3 DEF Verdicts, ImportTypes
<1>9. Followed'
  BY <1>1, <1>2, <1>5, <1>6, <1>7, <1>8 DEF ImportInv, Followed, Listed, report
<1> QED BY <1>4, <1>9 DEF ImportInv

\* A job is created; the page's own is not touched.
LEMMA CreatedApart ==
    ASSUME ImportInv, NEW j \in Imports, Created(j)
    PROVE  /\ status' \in [Imports -> Standing] /\ log' = log /\ status'[j] = "active"
           /\ line.job # 0 => status'[line.job] = status[line.job]
<1>1. ImportTypes
  BY DEF ImportInv
<1>2. status' = [status EXCEPT ![j] = "active"] /\ status[j] = "none" /\ log' = log
  BY DEF Created
<1> QED BY <1>1, <1>2 DEF ImportTypes, Standing

LEMMA PostedFollowed ==
    ASSUME ImportInv, Posted
    PROVE  ImportInv'
<1>1. PICK j \in Imports : /\ Created(j) /\ since' = 0
                           /\ line' = [NoSocket EXCEPT !.job = j, !.at = "wait"]
  BY DEF Posted
<1>2. ImportTypes /\ posting /\ posting' = FALSE /\ UNCHANGED report
  BY DEF Posted, ImportInv
<1>3. phase = "running" /\ skips = <<>>
  BY <1>2 DEF ImportInv, Followed
<1>4. line' = [job |-> j, at |-> "wait", events |-> <<>>]
  BY <1>1 DEF NoSocket
<1>5. status' \in [Imports -> Standing] /\ log' = log /\ status'[j] = "active"
  BY <1>1, CreatedApart
<1>6. j \in Nat \ {0} /\ log[j] \in Seq(Results)
  BY <1>2, BulkImportAssumption DEF ImportTypes, Imports
<1>7. ImportTypes'
  <2>1. <<>> \in Seq(Skipping \cup Verdicts)
    OBVIOUS
  <2>2. line' \in [job : {0} \cup Imports, at : {"off", "wait", "open"},
                   events : Seq(Skipping \cup Verdicts)]
    BY <1>4, <2>1
  <2>3. line'.job = j /\ since' = 0 /\ 0 <= Len(log[j]) /\ skips' = skips
    BY <1>1, <1>2, <1>4, <1>6 DEF report
  <2> QED BY <1>2, <1>5, <2>2, <2>3 DEF ImportTypes
<1>8. \E rest \in Seq(Skipping) : Listed(rest)'
  <2>1. Skipped' = SkippedFrom(log[j], 0)
    BY <1>1, <1>4, <1>5 DEF Skipped, SkippedFrom
  <2>2. Skipped' \in Seq(Skipping)
    BY <1>6, <2>1, SkippedMore
  <2>3. Skipped' = <<>> \o Skipped'
    BY <2>2
  <2> QED BY <1>2, <1>3, <2>2, <2>3 DEF Listed, report
<1>9. Followed'
  <2>1. /\ line'.at = "wait" /\ line'.job # 0 /\ line'.events = <<>>
        /\ phase' = "running" /\ skips' = <<>> /\ posting' = FALSE
    BY <1>2, <1>3, <1>4, <1>6 DEF report
  <2> QED BY <1>8, <2>1 DEF Followed
<1> QED BY <1>7, <1>9 DEF ImportInv

LEMMA SockFollowed ==
    ASSUME ImportInv, SockOpens
    PROVE  ImportInv'
<1>1. /\ ImportTypes /\ line.at = "wait" /\ skips = <<>> /\ line.events = <<>>
      /\ line.job # 0 /\ phase = "running" /\ ~posting
      /\ UNCHANGED <<importJobs, counts, skips, posting>>
  BY DEF ImportInv, Followed, SockOpens
<1>2. line.job \in Imports /\ log[line.job] \in Seq(Results)
  BY <1>1 DEF ImportTypes
<1>3. CASE status[line.job] = "active"
  <2>1. /\ line' = [job |-> line.job, at |-> "open", events |-> <<>>]
        /\ since' = Len(log[line.job]) /\ phase' = phase
    BY <1>1, <1>3 DEF SockOpens, ImportTypes
  <2>2. ImportTypes'
    BY <1>1, <1>2, <2>1 DEF ImportTypes, importJobs
  <2>3. Skipped' = <<>>
    <3>1. SubSeq(log[line.job], Len(log[line.job]) + 1, Len(log[line.job])) = <<>>
      BY <1>2
    <3> QED BY <1>1, <2>1, <3>1, FilteredNone DEF Skipped, importJobs
  <2>4. OnTheWay(<<>>)'
    <3>1. <<>> \in Seq(Skipping) /\ <<>> = <<>> \o <<>>
      OBVIOUS
    <3> QED BY <1>1, <1>3, <2>1, <2>3, <3>1 DEF OnTheWay, Listed, importJobs
  <2>5. <<>> \in Seq(Skipping)
    OBVIOUS
  <2>6. Followed'
    BY <1>1, <2>1, <2>4, <2>5 DEF Followed, OnTheWay
  <2> QED BY <2>2, <2>6 DEF ImportInv
<1>4. CASE status[line.job] # "active"
  <2>1. /\ line' = [line EXCEPT !.at = "off"] /\ since' = since /\ phase' = "error"
    BY <1>1, <1>4 DEF SockOpens, Unfollowed
  <2>2. line'.job = line.job /\ line'.at = "off"
    BY <1>1, <2>1 DEF ImportTypes
  <2>3. ImportTypes'
    BY <1>1, <2>1 DEF ImportTypes, importJobs
  <2>4. Skipped' = Skipped
    BY <1>1, <2>1, <2>2 DEF Skipped, importJobs
  <2>5. Followed'
    BY <1>1, <2>1, <2>2, <2>4 DEF ImportInv, Followed, Listed
  <2> QED BY <2>3, <2>5 DEF ImportInv
<1> QED BY <1>3, <1>4

\* An event is taken from the way to the list; the last one closes the socket.
LEMMA ToldFollowed ==
    ASSUME ImportInv, Told
    PROVE  ImportInv'
<1> DEFINE event == Head(line.events)
<1>1. /\ ImportTypes /\ line.at = "open" /\ line.events # <<>> /\ line.job # 0
      /\ phase = "running" /\ ~posting
      /\ UNCHANGED <<importJobs, posting, since>>
  BY DEF ImportInv, Followed, Told
<1>2. PICK rest \in Seq(Skipping) : OnTheWay(rest)
  BY <1>1 DEF ImportInv, Followed
<1>3. skips \in Seq(Skipping) /\ line.events \in Seq(Skipping \cup Verdicts)
  BY <1>1 DEF ImportTypes
<1>4. CASE event \in Skipping
  <2>1. /\ skips' = Append(skips, event) /\ phase' = phase
        /\ line' = [line EXCEPT !.events = Tail(line.events)]
    <3>1. event # "done"
      BY <1>4 DEF Skipping
    <3> QED BY <1>4, <3>1, Zenon DEF Told
  <2>2. line'.job = line.job /\ line'.at = "open" /\ line'.events = Tail(line.events)
    BY <1>1, <2>1 DEF ImportTypes
  <2>3. Skipped' = Skipped
    BY <1>1, <2>2 DEF Skipped, importJobs
  <2>4. /\ rest # <<>> /\ event = Head(rest) /\ Tail(rest) \in Seq(Skipping)
        /\ IF status[line.job] = "active" THEN Tail(line.events) = Tail(rest)
           ELSE \E e \in Verdicts : Tail(line.events) = Append(Tail(rest), e)
    <3>1. CASE status[line.job] = "active"
      <4>1. line.events = rest
        BY <1>2, <3>1 DEF OnTheWay
      <4> QED BY <1>1, <3>1, <4>1
    <3>2. CASE status[line.job] # "active"
      <4>1. PICK e \in Verdicts : line.events = Append(rest, e)
        BY <1>2, <3>2 DEF OnTheWay
      <4>2. rest # <<>>
        <5>1. rest = <<>> => event = e
          BY <4>1
        <5> QED BY <1>4, <5>1 DEF Skipping, Verdicts
      <4>3. /\ Head(line.events) = Head(rest) /\ Tail(rest) \in Seq(Skipping)
            /\ Tail(line.events) = Append(Tail(rest), e)
        BY <4>1, <4>2
      <4> QED BY <3>2, <4>2, <4>3
    <3> QED BY <3>1, <3>2
  <2>5. skips \o rest = Append(skips, event) \o Tail(rest)
    <3>1. event \in Skipping /\ event = rest[1]
      BY <1>4, <2>4
    <3> HIDE DEF event
    <3> QED BY <1>3, <2>4, <3>1
  <2>6. OnTheWay(Tail(rest))'
    BY <1>1, <1>2, <2>1, <2>2, <2>3, <2>4, <2>5 DEF OnTheWay, Listed, importJobs
  <2>7. ImportTypes'
    <3>1. Tail(line.events) \in Seq(Skipping \cup Verdicts) /\ Append(skips, event) \in Seq(Skipping)
      BY <1>1, <1>3, <1>4
    <3>2. line' \in [job : {0} \cup Imports, at : {"off", "wait", "open"},
                     events : Seq(Skipping \cup Verdicts)]
      BY <1>1, <2>1, <3>1 DEF ImportTypes
    <3> QED BY <1>1, <2>1, <2>2, <3>1, <3>2 DEF ImportTypes, importJobs
  <2>8. Followed'
    BY <1>1, <2>1, <2>2, <2>4, <2>6 DEF Followed, OnTheWay
  <2> QED BY <2>7, <2>8 DEF ImportInv
<1>5. CASE event \notin Skipping
  <2>1. /\ Closed /\ skips' = skips
        /\ \/ event = "done" /\ counts' = Tally(line.job) /\ phase' = "done"
           \/ phase' \in {"error", "idle"} /\ counts' = counts
    BY <1>5, Zenon DEF Told, Skipping
  <2>2. /\ line'.job = line.job /\ line'.at = "off"
        /\ line' \in [job : {0} \cup Imports, at : {"off", "wait", "open"},
                      events : Seq(Skipping \cup Verdicts)]
    <3>1. <<>> \in Seq(Skipping \cup Verdicts)
      OBVIOUS
    <3> QED BY <1>1, <2>1, <3>1 DEF Closed, ImportTypes
  <2>3. Skipped' = Skipped /\ Tally(line.job)' = Tally(line.job)
    BY <1>1, <2>2 DEF Skipped, Tally, importJobs
  <2>4. rest = <<>> /\ status[line.job] # "active"
    <3>1. rest # <<>> => event = rest[1]
      <4>1. line.events = rest \/ \E e \in Verdicts : line.events = Append(rest, e)
        BY <1>2 DEF OnTheWay
      <4> QED BY <4>1
    <3>2. rest = <<>>
      <4>1. rest # <<>> => rest[1] \in Skipping
        OBVIOUS
      <4> HIDE DEF event
      <4> QED BY <1>5, <3>1, <4>1
    <3> QED BY <1>1, <1>2, <3>2 DEF OnTheWay
  <2>5. Skipped = skips
    BY <1>2, <1>3, <2>4 DEF OnTheWay, Listed
  <2>6. ImportTypes'
    BY <1>1, <2>1, <2>2 DEF ImportTypes, importJobs
  <2>7. Listed(<<>>)'
    BY <1>2, <2>1, <2>3, <2>4 DEF OnTheWay, Listed
  <2>8. Followed'
    <3>1. <<>> \in Seq(Skipping)
      OBVIOUS
    <3>2. (phase = "done" => skips = Skipped /\ counts = Tally(line.job))'
      BY <2>1, <2>3, <2>5
    <3>3. phase' # "running" /\ line'.job # 0 /\ posting' = FALSE /\ status'[line'.job] # "active"
      BY <1>1, <2>1, <2>2, <2>4 DEF importJobs
    <3> QED BY <2>2, <2>7, <3>1, <3>2, <3>3 DEF Followed
  <2> QED BY <2>6, <2>8 DEF ImportInv
<1> QED BY <1>4, <1>5

\* The other steps close the socket or leave its job alone.
LEMMA ImportStep ==
    ASSUME ImportInv, [ImportNext]_importVars
    PROVE  ImportInv'
<1>0. ImportTypes
  BY DEF ImportInv
<1>n. /\ <<>> \in Seq(Skipping) /\ <<>> \in Seq(Skipping \cup Verdicts)
      /\ NoSocket \in [job : {0} \cup Imports, at : {"off", "wait", "open"},
                       events : Seq(Skipping \cup Verdicts)]
  BY DEF NoSocket
<1>1. ASSUME NEW j \in Imports, Finish(j) \/ Break(j) PROVE ImportInv'
  <2>1. PICK s \in Verdicts : /\ status[j] = "active" /\ status' = [status EXCEPT ![j] = s]
                          /\ Put(j, s) /\ UNCHANGED <<log, size, report, posting, since>>
    BY <1>1 DEF Finish, Break, Verdicts
  <2> QED BY <2>1, EndFollowed
<1>2. CASE Start
  <2>1. /\ phase # "running" /\ counts' = NoCounts /\ skips' = <<>> /\ phase' = "running"
        /\ posting' = TRUE /\ UNCHANGED <<importJobs, line, since>>
    BY <1>2 DEF Start, Reset
  <2>2. line.at = "off"
    BY <1>0, <2>1 DEF ImportInv, Followed, ImportTypes
  <2>3. ImportTypes'
    BY <1>0, <1>n, <2>1 DEF ImportTypes, importJobs
  <2>4. line.job # 0 => \E rest \in Seq(Skipping) : Listed(rest)'
    <3> SUFFICES ASSUME line.job # 0 PROVE \E rest \in Seq(Skipping) : Listed(rest)'
      OBVIOUS
    <3>1. Skipped' = Skipped /\ Skipped = SkippedFrom(log[line.job], since)
      BY <2>1 DEF Skipped, SkippedFrom, importJobs
    <3>2. Skipped \in Seq(Skipping)
      BY <1>0, <3>1, SkippedMore DEF ImportTypes
    <3>3. Skipped = <<>> \o Skipped
      BY <3>2
    <3> QED BY <2>1, <3>1, <3>2, <3>3 DEF Listed
  <2>5. Followed'
    BY <2>1, <2>2, <2>4 DEF Followed
  <2> QED BY <2>3, <2>5 DEF ImportInv
<1>3. CASE PostFails
  <2>1. /\ posting /\ posting' = FALSE /\ phase' = "error"
        /\ UNCHANGED <<counts, skips, line, since>>
        /\ UNCHANGED importJobs \/ \E j \in Imports : Created(j)
    BY <1>3 DEF PostFails
  <2>2. /\ status' \in [Imports -> Standing] /\ log' = log
        /\ line.job # 0 => status'[line.job] = status[line.job]
    BY <1>0, <2>1, CreatedApart DEF importJobs, ImportTypes
  <2>3. line.at = "off"
    BY <1>0, <2>1 DEF ImportInv, Followed, ImportTypes
  <2>4. Skipped' = Skipped
    BY <2>1, <2>2 DEF Skipped
  <2>5. ImportTypes'
    BY <1>0, <2>1, <2>2 DEF ImportTypes
  <2>6. Followed'
    BY <2>1, <2>3, <2>4 DEF ImportInv, Followed, Listed
  <2> QED BY <2>5, <2>6 DEF ImportInv
<1>4. ASSUME Closed, UNCHANGED <<log, skips, counts, posting, since>>,
             status' \in [Imports -> Standing],
             line.job # 0 => \/ status'[line.job] = status[line.job]
                             \/ status[line.job] = "active" /\ status'[line.job] = "interrupted",
             phase' = IF line.at = "off" THEN phase ELSE "error"
      PROVE  ImportInv'
  <2>1. line'.job = line.job /\ line'.at = "off"
    BY <1>0, <1>4 DEF Closed, ImportTypes
  <2>2. Skipped' = Skipped /\ Tally(line.job)' = Tally(line.job)
    BY <1>4, <2>1 DEF Skipped, Tally
  <2>3. ImportTypes'
    <3>1. line' \in [job : {0} \cup Imports, at : {"off", "wait", "open"},
                     events : Seq(Skipping \cup Verdicts)]
      BY <1>0, <1>4, <1>n DEF Closed, ImportTypes
    <3> QED BY <1>0, <1>4, <2>1, <3>1 DEF ImportTypes
  <2>4. Followed'
    BY <1>4, <2>1, <2>2 DEF ImportInv, Followed, Listed
  <2> QED BY <2>3, <2>4 DEF ImportInv
<1>5. CASE SockDrops
  <2>1. line.at # "off" /\ phase = "running"
    BY <1>5 DEF SockDrops, ImportInv, Followed
  <2>2. phase' = "error"
    BY <1>5, <2>1 DEF SockDrops, Unfollowed
  <2> QED BY <1>0, <1>4, <1>5, <2>1, <2>2 DEF SockDrops, importJobs, ImportTypes
<1>6. CASE ServerRestarts
  <2>1. line.at # "off" => phase = "running"
    BY DEF ImportInv, Followed
  <2>2. phase' = IF line.at = "off" THEN phase ELSE "error"
    BY <1>6, <2>1 DEF ServerRestarts, Unfollowed
  <2>3. /\ status' \in [Imports -> Standing]
        /\ \A j \in Imports : \/ status'[j] = status[j]
                              \/ status[j] = "active" /\ status'[j] = "interrupted"
    BY <1>0, <1>6 DEF ServerRestarts, ImportTypes, Standing
  <2> QED BY <1>0, <1>4, <1>6, <2>2, <2>3 DEF ServerRestarts, ImportTypes
<1>7. CASE LeavePage
  <2>1. /\ phase' = "idle" /\ skips' = <<>> /\ posting' = FALSE /\ line' = NoSocket /\ since' = 0
        /\ UNCHANGED importJobs \/ \E j \in Imports : Created(j)
    BY <1>7 DEF LeavePage
  <2>2. status' \in [Imports -> Standing] /\ log' = log
    BY <1>0, <2>1, CreatedApart DEF importJobs, ImportTypes
  <2>3. ImportTypes'
    <3>1. line'.job = 0
      BY <2>1 DEF NoSocket
    <3> QED BY <1>0, <1>n, <2>1, <2>2, <3>1 DEF ImportTypes
  <2>4. Followed'
    BY <2>1 DEF Followed, NoSocket
  <2> QED BY <2>3, <2>4 DEF ImportInv
<1>8. CASE UNCHANGED importVars
  <2>1. Skipped' = Skipped /\ \A j : Tally(j)' = Tally(j)
    BY <1>8 DEF Skipped, Tally, importVars, importJobs
  <2> QED BY <1>8, <2>1 DEF ImportInv, ImportTypes, Followed, Listed, OnTheWay,
                            importVars, importJobs, report
<1>9. ASSUME NEW j \in Imports, Process(j) PROVE ImportInv'
  BY <1>9, ProcessFollowed
<1>10. CASE StrayCloses
  <2>1. Skipped' = Skipped /\ \A j : Tally(j)' = Tally(j)
    BY <1>10 DEF StrayCloses, Skipped, Tally, importJobs
  <2> QED BY <1>10, <2>1 DEF StrayCloses, ImportInv, ImportTypes, Followed, Listed, OnTheWay,
                             importJobs, report
<1> QED BY <1>1, <1>2, <1>3, <1>5, <1>6, <1>7, <1>8, <1>9, <1>10,
           PostedFollowed, SockFollowed, ToldFollowed DEF ImportNext, Answered, Worker

LEMMA InvReports == ImportInv => ReportIsOfThisImport
<1> SUFFICES ASSUME ImportInv, line.job # 0 PROVE IsPrefix(skips, Skipped)
  BY DEF ImportInv, Followed, ReportIsOfThisImport
<1>1. PICK rest \in Seq(Skipping) : Skipped = skips \o rest
  BY DEF ImportInv, Followed, Listed
<1>2. skips \in Seq(Skipping)
  BY DEF ImportInv, ImportTypes
<1>3. IsPrefix(skips, skips \o rest)
  BY <1>2, Prefixed
<1> QED BY <1>1, <1>3

\* Whatever imports, abandoned jobs and lost sockets came before, the page reports
\* the job it follows, and at the end all of it.
THEOREM ImportReported == ImportSpec => []ReportIsOfThisImport
  BY InvReports, ImportStart, ImportStep, PTL DEF ImportSpec

-------------------------------------------------------------------------------
(* The page of a playlist *)

Ops     == {"reorder", "remove", "add", "edit", "delete"}
Request ==
    {r \in [op : Ops, order : Seq(Songs), song : Songs \cup {NoSong},
            st : {"sent", "done", "failed"}, base : Seq(Songs), latest : BOOLEAN] :
        r.op \in {"remove", "add"} => r.song \in Songs}
Answer  == [tracks : Seq(Songs), stamp : Nat]

PageTypes ==
    /\ list \in Seq(Songs) /\ shown \in Seq(Songs) /\ stamp \in Nat
    /\ data \in Answer /\ fetch \in [st : {"idle", "asked", "read", "refused"}, got : Answer]
    /\ drag \in Nat /\ sends \in Seq(Request) /\ undo \subseteq Songs

\* An answer is of an earlier order, or of the one the server has.
Tells(a) == a.stamp <= stamp /\ (a.stamp = stamp => a.tracks = list)

\* A change was made of which the page has not heard.
Unheard == \E i \in DOMAIN sends : sends[i].st = "done"

\* A move of which the page does not know yet whether it was saved.
Hoping ==
    \E i \in DOMAIN sends : /\ sends[i].op = "reorder" /\ sends[i].latest
                            /\ sends[i].st \in {"sent", "failed"}

\* An answer that is out of date is followed by another one, as long as the page is
\* there to ask.  The rows are what was fetched last, but for a move that may fail yet
\* and for one that is to be fetched.  There is none to move where no track was
\* fetched: the reorder that writes nothing finds the page as empty as the list.
Reconciled ==
    /\ fetch.st = "read" => Tells(fetch.got)
    /\ data.stamp <= stamp
    /\ data.stamp = stamp => data.tracks \in {list, <<>>}
    /\ view = "rows" => Tells(data)
    /\ straight =>
          /\ fetch.st = "read" /\ view \notin {"left", "crashed"} =>
                fetch.got.stamp = stamp \/ Unheard
          /\ fetch.st = "idle" /\ view = "rows" => data.stamp = stamp \/ Unheard
          /\ shown = data.tracks \/ Hoping \/ data.stamp < stamp
          /\ data.tracks = <<>> => shown = <<>>

PageInv == PageTypes /\ Reconciled

LEMMA PageStart == PageInit => PageInv
<1> SUFFICES ASSUME PageInit PROVE PageInv
  OBVIOUS
<1>1. \A s \in SetToSeqs(Songs) : s \in Seq(Songs)
  BY PlaylistPageAssumption, Arrangements
<1>2. NoAnswer \in Answer /\ <<>> \in Seq(Songs) /\ <<>> \in Seq(Request)
  BY DEF NoAnswer, Answer
<1>3. PageTypes
  BY <1>1, <1>2 DEF PageInit, PageTypes, Asked
<1>4. Reconciled
  BY DEF PageInit, Reconciled, NoAnswer, Asked
<1> QED BY <1>3, <1>4 DEF PageInv

\* The query.
LEMMA QueryReconciled ==
    ASSUME PageInv, Query
    PROVE  PageInv'
<1>0. PageTypes /\ Reconciled /\ NoAnswer \in Answer
  <2>1. <<>> \in Seq(Songs)
    OBVIOUS
  <2> QED BY <2>1 DEF PageInv, NoAnswer, Answer
<1>u. UNCHANGED sends => Unheard' = Unheard /\ Hoping' = Hoping
  BY DEF Unheard, Hoping
<1>1. CASE Read
  <2>1. UNCHANGED <<stored, data, shown, drag, sends, undo, view, gestures, straight>>
    BY <1>1 DEF Read
  <2>2. CASE gone
    <3>1. fetch' = [st |-> "refused", got |-> NoAnswer]
      BY <1>1, <2>2 DEF Read, Idle
    <3>2. PageTypes'
      BY <1>0, <2>1, <3>1 DEF PageTypes, stored
    <3>3. Reconciled'
      BY <1>0, <1>u, <2>1, <3>1 DEF Reconciled, Tells, stored
    <3> QED BY <3>2, <3>3 DEF PageInv
  <2>3. CASE ~gone
    <3>1. fetch' = [st |-> "read", got |-> [tracks |-> list, stamp |-> stamp]]
      BY <1>1, <2>3 DEF Read
    <3>2. PageTypes'
      BY <1>0, <2>1, <3>1 DEF PageTypes, stored, Answer
    <3>3. Reconciled'
      BY <1>0, <1>u, <2>1, <3>1 DEF Reconciled, PageTypes, Tells, stored
    <3> QED BY <3>2, <3>3 DEF PageInv
  <2> QED BY <2>2, <2>3
<1>2. CASE Fetched
  <2>1. /\ fetch.st = "read" /\ fetch' = [st |-> "idle", got |-> NoAnswer] /\ data' = fetch.got
        /\ \/ shown' = fetch.got.tracks
           \/ shown' = shown /\ fetch.got = data
        /\ view' = "rows" => view \notin {"left", "crashed"}
        /\ UNCHANGED <<stored, drag, sends, undo, gestures, straight>>
    BY <1>2 DEF Fetched, Idle
  <2>2. PageTypes'
    BY <1>0, <2>1 DEF PageTypes, Answer, stored
  <2>3. Reconciled'
    BY <1>0, <1>u, <2>1 DEF Reconciled, Tells, stored
  <2> QED BY <2>2, <2>3 DEF PageInv
<1>3. CASE FetchFailed
  <2>1. /\ fetch' = [st |-> "idle", got |-> NoAnswer] /\ view' # "rows" /\ drag' = 0
        /\ UNCHANGED <<stored, data, shown, sends, undo, gestures, straight>>
    BY <1>3 DEF FetchFailed, Idle
  <2>2. PageTypes'
    BY <1>0, <2>1 DEF PageTypes, stored
  <2>3. Reconciled'
    BY <1>0, <1>u, <2>1 DEF Reconciled, Tells, stored
  <2> QED BY <2>2, <2>3 DEF PageInv
<1>4. CASE Reconnect
  <2>1. /\ fetch' = [st |-> "asked", got |-> NoAnswer]
        /\ UNCHANGED <<stored, data, shown, drag, sends, undo, view, gestures, straight>>
    BY <1>4 DEF Reconnect, Asked
  <2>2. PageTypes'
    BY <1>0, <2>1 DEF PageTypes, stored
  <2>3. Reconciled'
    BY <1>0, <1>u, <2>1 DEF Reconciled, Tells, stored
  <2> QED BY <2>2, <2>3 DEF PageInv
<1> QED BY <1>1, <1>2, <1>3, <1>4 DEF Query

\* A request is sent: a move is shown, any other leaves the moves as they were.
LEMMA Sent ==
    ASSUME PageTypes, NEW op \in Ops, NEW o \in Seq(Songs), NEW s \in Songs \cup {NoSong},
           op \in {"remove", "add"} => s \in Songs, Mutate(op, o, s)
    PROVE  /\ sends' \in Seq(Request)
           /\ Unheard => Unheard'
           /\ op = "reorder" => Hoping'
           /\ op # "reorder" /\ Hoping => Hoping'
<1> DEFINE m == Mutation(op, o, s)
           n == Len(sends)
<1>0. sends \in Seq(Request) /\ data.tracks \in Seq(Songs)
  BY DEF PageTypes, Answer
<1>1. m \in Request /\ m.op = op /\ m.latest /\ m.st = "sent"
  <2>1. <<>> \in Seq(Songs)
    OBVIOUS
  <2> QED BY <2>1 DEF Mutation, Request
<1> HIDE DEF m
<1>2. /\ Superseded(op) \in Seq(Request) /\ Len(Superseded(op)) = n
      /\ \A i \in 1..n : /\ Superseded(op)[i].st = sends[i].st
                         /\ Superseded(op)[i].op = sends[i].op
                         /\ op # "reorder" /\ sends[i].op = "reorder" =>
                               Superseded(op)[i] = sends[i]
  <2>1. \A i \in 1..n : sends[i] \in Request
    BY <1>0
  <2>2. \A r \in Request : LET q == [r EXCEPT !.latest = FALSE, !.base = data.tracks] IN
                              q \in Request /\ q.st = r.st /\ q.op = r.op
    BY <1>0 DEF Request
  <2>3. DOMAIN sends = 1..n /\ n \in Nat
    BY <1>0
  <2> DEFINE t == Superseded(op)
             q(r) == [r EXCEPT !.latest = FALSE, !.base = data.tracks]
  <2>4. t = [i \in 1..n |-> IF sends[i].op = op /\ sends[i].latest
                            THEN q(sends[i]) ELSE sends[i]]
    BY <2>3 DEF Superseded
  <2>5. \A r \in Request : q(r) \in Request /\ q(r).st = r.st /\ q(r).op = r.op
    BY <2>2
  <2> HIDE DEF t, q
  <2>6. \A i \in 1..n : /\ t[i] \in Request /\ t[i].st = sends[i].st /\ t[i].op = sends[i].op
                        /\ op # "reorder" /\ sends[i].op = "reorder" => t[i] = sends[i]
    BY <2>1, <2>4, <2>5
  <2>7. t \in Seq(Request) /\ Len(t) = n
    BY <2>3, <2>4, <2>6
  <2> QED BY <2>6, <2>7 DEF t
<1> DEFINE t == Superseded(op)
<1>3. sends' = Append(t, m)
  BY DEF Mutate, m
<1> HIDE DEF t
<1>4. /\ sends' \in Seq(Request) /\ DOMAIN sends' = 1..(n + 1) /\ sends'[n + 1] = m
      /\ \A i \in 1..n : sends'[i] = t[i]
  BY <1>1, <1>2, <1>3 DEF t
<1>5. DOMAIN sends = 1..n /\ n \in Nat /\ \A i \in 1..n : i \in 1..(n + 1)
  BY <1>0
<1>6. Unheard => Unheard'
  BY <1>2, <1>4, <1>5 DEF Unheard, t
<1>7. op = "reorder" => Hoping'
  <2>1. n + 1 \in DOMAIN sends'
    BY <1>4, <1>5
  <2> QED BY <1>1, <1>4, <2>1 DEF Hoping
<1>8. op # "reorder" /\ Hoping => Hoping'
  BY <1>2, <1>4, <1>5 DEF Hoping, t
<1> QED BY <1>4, <1>6, <1>7, <1>8

\* A row is taken from one place of the list to another.
LEMMA MovedTyped ==
    ASSUME shown \in Seq(Songs), NEW from \in DOMAIN shown, NEW to \in DOMAIN shown
    PROVE  Moved(shown, from, to) \in Seq(Songs)
<1> DEFINE r == RemoveAt(shown, from)
<1>1. from \in 1..Len(shown) /\ to \in 1..Len(shown) /\ shown[from] \in Songs
  OBVIOUS
<1>2. r \in Seq(Songs) /\ Len(r) = Len(shown) - 1
  BY <1>1, Withdrawal
<1> HIDE DEF r
<1>3. to \in 1..(Len(r) + 1)
  BY <1>1, <1>2
<1>4. InsertAt(r, to, shown[from]) \in Seq(Songs)
  BY <1>1, <1>2, <1>3, Insertion
<1> QED BY <1>4 DEF Moved, r

\* A gesture changes nothing of what the server has and what was fetched.
LEMMA GestureReconciled ==
    ASSUME PageInv, Gesture
    PROVE  PageInv'
<1>0. PageTypes /\ Reconciled
  BY DEF PageInv
<1>s. ASSUME UNCHANGED <<stored, cache, straight>>, view' \in {view, "crashed"},
             drag' \in Nat, undo' \subseteq Songs, shown' \in Seq(Songs), sends' \in Seq(Request),
             Unheard => Unheard', (shown' = shown /\ (Hoping => Hoping')) \/ Hoping',
             shown = <<>> => shown' = <<>>
      PROVE  PageInv'
  <2>1. PageTypes'
    BY <1>0, <1>s DEF PageTypes, stored, cache
  <2>2. Reconciled'
    BY <1>0, <1>s DEF Reconciled, Tells, stored, cache
  <2> QED BY <2>1, <2>2 DEF PageInv
<1>u. UNCHANGED sends => Unheard' = Unheard /\ Hoping' = Hoping
  BY DEF Unheard, Hoping
<1>d. ASSUME NEW from \in DOMAIN shown, NEW to \in DOMAIN shown, Drop(from, to)
      PROVE  /\ shown' \in Seq(Songs) /\ sends' \in Seq(Request)
             /\ Unheard => Unheard'
             /\ (shown' = shown /\ (Hoping => Hoping')) \/ Hoping'
             /\ shown # <<>>
  <2>0. shown # <<>>
    BY <1>d
  <2>1. CASE from = to
    BY <1>0, <1>u, <1>d, <2>0, <2>1 DEF Drop, PageTypes
  <2>2. CASE from # to
    <3>1. shown' = Moved(shown, from, to) /\ Mutate("reorder", shown', NoSong)
      BY <1>d, <2>2 DEF Drop
    <3>2. shown' \in Seq(Songs)
      BY <1>0, <3>1, MovedTyped DEF PageTypes
    <3>3. Mutate("reorder", shown', NoSong) /\ "reorder" \in Ops
      BY <3>1 DEF Ops
    <3> QED BY <1>0, <2>0, <3>2, <3>3, Sent
  <2> QED BY <2>1, <2>2
<1>n. <<>> \in Seq(Songs) /\ \A i \in DOMAIN shown : i \in Nat /\ shown[i] \in Songs
  BY <1>0 DEF PageTypes
<1>1. ASSUME NEW i \in DOMAIN shown, MoveBy(i) PROVE PageInv'
  <2>1. PICK to \in DOMAIN shown : Drop(i, to)
    BY <1>1 DEF MoveBy
  <2>2. UNCHANGED <<stored, cache, drag, undo, view, straight>>
    BY <1>1 DEF MoveBy
  <2> QED BY <1>0, <1>d, <1>s, <2>1, <2>2 DEF PageTypes
<1>2. CASE DragStart
  <2>1. /\ drag' \in Nat
        /\ UNCHANGED <<stored, cache, shown, sends, undo, view, gestures, straight>>
    BY <1>2, <1>n DEF DragStart
  <2> QED BY <1>0, <1>s, <1>u, <2>1 DEF PageTypes
<1>3. CASE DragEnd
  <2>1. /\ drag' = 0 /\ UNCHANGED <<stored, cache, undo, straight>>
        /\ \/ UNCHANGED <<shown, sends, view>>
           \/ view' = "crashed" /\ UNCHANGED <<shown, sends>>
           \/ \E to \in DOMAIN shown : drag \in DOMAIN shown /\ Drop(drag, to) /\ view' = view
    BY <1>3, Zenon DEF DragEnd
  <2>2. CASE UNCHANGED <<shown, sends>> /\ (view' = view \/ view' = "crashed")
    BY <1>0, <1>s, <1>u, <2>1, <2>2 DEF PageTypes
  <2>3. CASE \E to \in DOMAIN shown : drag \in DOMAIN shown /\ Drop(drag, to) /\ view' = view
    <3>1. PICK to \in DOMAIN shown : drag \in DOMAIN shown /\ Drop(drag, to) /\ view' = view
      BY <2>3
    <3> QED BY <1>0, <1>d, <1>s, <2>1, <3>1 DEF PageTypes
  <2> QED BY <2>1, <2>2, <2>3
<1>m. ASSUME NEW op \in Ops \ {"reorder"}, NEW s \in Songs \cup {NoSong},
             op \in {"remove", "add"} => s \in Songs, Mutate(op, <<>>, s),
             UNCHANGED <<stored, cache, shown, drag, view, straight>>, undo' \subseteq Songs
      PROVE  PageInv'
  <2>1. /\ sends' \in Seq(Request)
        /\ Unheard => Unheard'
        /\ Hoping => Hoping'
    BY <1>0, <1>m, <1>n, Sent
  <2> QED BY <1>0, <1>m, <1>s, <2>1 DEF PageTypes
<1>4. CASE RemoveRow
  <2>1. PICK i \in DOMAIN shown : Mutate("remove", <<>>, shown[i])
    BY <1>4 DEF RemoveRow
  <2> QED BY <1>0, <1>4, <1>m, <1>n, <2>1 DEF RemoveRow, Ops, PageTypes
<1>5. CASE Undo
  <2>1. PICK s \in undo : Mutate("add", <<>>, s) /\ undo' = undo \ {s}
    BY <1>5 DEF Undo
  <2> QED BY <1>0, <1>5, <1>m, <2>1 DEF Undo, Ops, PageTypes
<1>6. CASE SaveEdit
  BY <1>0, <1>6, <1>m DEF SaveEdit, Ops, PageTypes
<1>7. CASE DeletePlaylist
  BY <1>0, <1>7, <1>m DEF DeletePlaylist, Ops, PageTypes
<1> QED BY <1>1, <1>2, <1>3, <1>4, <1>5, <1>6, <1>7 DEF Gesture

\* The server's order stays a sequence of the songs.
LEMMA AppliedTyped ==
    ASSUME PageTypes, NEW r \in Request
    PROVE  Applied(r) \in Seq(Songs)
<1>0. list \in Seq(Songs) /\ r.order \in Seq(Songs)
  BY DEF PageTypes, Request
<1>1. Reordered(r.order) \in Seq(Songs)
  <2>1. Among(r.order, Range(list)) \in Seq(Songs)
    BY <1>0, Filtered
  <2>2. Among(list, Songs \ Range(r.order)) \in Seq(Songs)
    BY <1>0, Filtered
  <2> QED BY <2>1, <2>2, Joined DEF Reordered
<1>2. Among(list, Songs \ {r.song}) \in Seq(Songs)
  BY <1>0, Filtered
<1>3. r.op = "add" => Append(list, r.song) \in Seq(Songs)
  BY <1>0 DEF Request
<1>4. /\ r.op = "reorder" => Applied(r) = Reordered(r.order)
      /\ r.op = "remove" => Applied(r) = Among(list, Songs \ {r.song})
      /\ r.op = "add" => Applied(r) = Append(list, r.song)
      /\ r.op \in {"edit", "delete"} => Applied(r) = list
  BY Zenon DEF Applied
<1>5. r.op \in Ops
  BY DEF Request
<1> QED BY <1>0, <1>1, <1>2, <1>3, <1>4, <1>5 DEF Ops

\* A request changes its state: the others are as they were.
LEMMA Settled ==
    ASSUME PageTypes, NEW i \in DOMAIN sends, NEW to \in {"sent", "done", "failed"},
           sends' = [sends EXCEPT ![i].st = to]
    PROVE  /\ sends' \in Seq(Request) /\ DOMAIN sends' = DOMAIN sends
           /\ sends'[i].st = to /\ sends'[i].op = sends[i].op /\ sends'[i].latest = sends[i].latest
           /\ \A j \in DOMAIN sends \ {i} : sends'[j] = sends[j]
<1> DEFINE r == [sends[i] EXCEPT !.st = to]
<1>1. sends \in Seq(Request) /\ sends[i] \in Request
  BY DEF PageTypes
<1>2. r \in Request /\ r.st = to /\ r.op = sends[i].op /\ r.latest = sends[i].latest
  BY <1>1 DEF Request
<1> HIDE DEF r
<1>3. sends' = [sends EXCEPT ![i] = r]
  BY DEF r
<1> QED BY <1>1, <1>2, <1>3

\* A request is over: the others stay in flight.
LEMMA Over ==
    ASSUME PageTypes, NEW i \in DOMAIN sends, sends' = Without(i)
    PROVE  /\ sends' \in Seq(Request)
           /\ \A j \in DOMAIN sends \ {i} : \E k \in DOMAIN sends' : sends'[k] = sends[j]
<1>0. sends \in Seq(Request) /\ i \in 1..Len(sends)
  BY DEF PageTypes
<1>1. /\ sends' \in Seq(Request) /\ Len(sends') = Len(sends) - 1
      /\ \A j \in 1..(Len(sends) - 1) :
            sends'[j] = IF j < i THEN sends[j] ELSE sends[j + 1]
  BY <1>0, Withdrawal DEF Without
<1>2. ASSUME NEW j \in DOMAIN sends \ {i}
      PROVE  \E k \in DOMAIN sends' : sends'[k] = sends[j]
  <2>1. DOMAIN sends' = 1..(Len(sends) - 1) /\ j \in 1..Len(sends) /\ j # i
    BY <1>0, <1>1
  <2>2. CASE j < i
    <3>1. j \in 1..(Len(sends) - 1) /\ sends'[j] = sends[j]
      BY <1>0, <1>1, <2>1, <2>2
    <3> QED BY <2>1, <3>1
  <2>3. CASE ~(j < i)
    <3>1. j - 1 \in 1..(Len(sends) - 1) /\ ~(j - 1 < i) /\ (j - 1) + 1 = j
      BY <1>0, <2>1, <2>3
    <3>2. sends'[j - 1] = sends[j]
      BY <1>1, <3>1
    <3> QED BY <2>1, <3>1, <3>2
  <2> QED BY <2>2, <2>3
<1> QED BY <1>1, <1>2

LEMMA NetworkReconciled ==
    ASSUME PageInv, NEW i \in DOMAIN sends,
           Serve(i) \/ Lose(i) \/ Succeeded(i) \/ Failed(i)
    PROVE  PageInv'
<1>0. PageTypes /\ Reconciled
  BY DEF PageInv
<1>t. /\ sends[i] \in Request /\ stamp \in Nat /\ data.stamp \in Nat
      /\ data.tracks \in Seq(Songs) /\ sends[i].base \in Seq(Songs)
      /\ sends[i].st \in {"sent", "done", "failed"}
      /\ sends[i].op \in {"remove", "add"} => sends[i].song \in Songs
  <2>1. sends[i] \in Request /\ data \in Answer
    BY <1>0 DEF PageTypes
  <2> QED BY <1>0, <2>1 DEF Request, Answer, PageTypes
<1>1. CASE Serve(i)
  <2>1. UNCHANGED <<cache, shown, drag, undo, view, gestures, straight>> /\ sends[i].st = "sent"
    BY <1>1 DEF Serve
  <2>2. CASE Refused(sends[i])
    <3>1. sends' = [sends EXCEPT ![i].st = "failed"] /\ UNCHANGED stored
      BY <1>1, <2>2 DEF Serve
    <3>2. sends' \in Seq(Request) /\ (Unheard => Unheard')
      BY <1>0, <2>1, <3>1, Settled DEF Unheard
    <3>3. Hoping => Hoping'
      BY <1>0, <2>1, <3>1, Settled DEF Hoping
    <3>4. PageTypes'
      BY <1>0, <2>1, <3>1, <3>2 DEF PageTypes, stored, cache
    <3>5. Reconciled'
      BY <1>0, <2>1, <3>1, <3>2, <3>3 DEF Reconciled, Tells, stored, cache
    <3> QED BY <3>4, <3>5 DEF PageInv
  <2>3. CASE ~Refused(sends[i]) /\ Moot(sends[i])
    <3>1. sends' = [sends EXCEPT ![i].st = "done"] /\ UNCHANGED stored
      BY <1>1, <2>3 DEF Serve
    <3>2. sends' \in Seq(Request) /\ Unheard'
      BY <1>0, <3>1, Settled DEF Unheard
    <3>3. straight => shown = data.tracks \/ Hoping' \/ data.stamp < stamp
      <4>1. CASE sends[i].op = "add"
        <5>1. Hoping => Hoping'
          BY <1>0, <3>1, <4>1, Settled DEF Hoping
        <5> QED BY <1>0, <5>1 DEF Reconciled
      <4>2. CASE list = <<>>
        BY <1>0, <1>t, <4>2 DEF Reconciled
      <4> QED BY <2>3, <4>1, <4>2 DEF Moot
    <3>4. PageTypes'
      BY <1>0, <2>1, <3>1, <3>2 DEF PageTypes, stored, cache
    <3>5. Reconciled'
      BY <1>0, <2>1, <3>1, <3>2, <3>3 DEF Reconciled, Tells, stored, cache
    <3> QED BY <3>4, <3>5 DEF PageInv
  <2>4. CASE ~Refused(sends[i]) /\ ~Moot(sends[i])
    <3>1. /\ sends' = [sends EXCEPT ![i].st = "done"] /\ stamp' = stamp + 1
          /\ list' = Applied(sends[i])
      BY <1>1, <2>4 DEF Serve
    <3>2. sends' \in Seq(Request) /\ Unheard'
      BY <1>0, <3>1, Settled DEF Unheard
    <3>3. list' \in Seq(Songs)
      BY <1>0, <1>t, <3>1, AppliedTyped
    <3>4. PageTypes'
      BY <1>0, <2>1, <3>1, <3>2, <3>3 DEF PageTypes, cache
    <3>5. data'.stamp < stamp' /\ (fetch.st = "read" => fetch'.got.stamp < stamp')
      <4>1. fetch.got.stamp \in Nat
        BY <1>0 DEF PageTypes, Answer
      <4> QED BY <1>0, <1>t, <2>1, <3>1, <4>1 DEF Reconciled, Tells, cache
    <3>6. Reconciled'
      <4>1. /\ data'.stamp <= stamp' /\ data'.stamp # stamp'
            /\ fetch.st = "read" => fetch'.got.stamp <= stamp' /\ fetch'.got.stamp # stamp'
        <5>1. fetch'.got.stamp \in Nat /\ data'.stamp \in Nat /\ stamp' \in Nat
          BY <3>4 DEF PageTypes, Answer
        <5> QED BY <3>5, <5>1
      <4>2. /\ data' = data /\ fetch' = fetch /\ shown' = shown /\ view' = view
            /\ straight' = straight
        BY <2>1 DEF cache
      <4>3. straight => (data.tracks = <<>> => shown = <<>>)
        BY <1>0 DEF Reconciled
      <4> QED BY <3>2, <3>5, <4>1, <4>2, <4>3 DEF Reconciled, Tells
    <3> QED BY <3>4, <3>6 DEF PageInv
  <2> QED BY <2>2, <2>3, <2>4
<1>2. CASE Lose(i)
  <2>1. /\ UNCHANGED <<stored, cache, shown, drag, undo, view, gestures>>
        /\ sends' = [sends EXCEPT ![i].st = "failed"] /\ sends[i].st \in {"sent", "done"}
        /\ straight' = (straight /\ sends[i].st # "done")
    BY <1>2 DEF Lose
  <2>2. sends' \in Seq(Request)
    BY <1>0, <2>1, Settled
  <2>3. straight' => (Unheard => Unheard') /\ (Hoping => Hoping')
    <3> SUFFICES ASSUME sends[i].st = "sent" PROVE (Unheard => Unheard') /\ (Hoping => Hoping')
      BY <2>1
    <3>1. Unheard => Unheard'
      BY <1>0, <2>1, Settled DEF Unheard
    <3>2. Hoping => Hoping'
      BY <1>0, <2>1, Settled DEF Hoping
    <3> QED BY <3>1, <3>2
  <2>4. PageTypes'
    BY <1>0, <2>1, <2>2 DEF PageTypes, stored, cache
  <2>5. Reconciled'
    BY <1>0, <2>1, <2>3 DEF Reconciled, Tells, stored, cache
  <2> QED BY <2>4, <2>5 DEF PageInv
<1>3. CASE Succeeded(i)
  <2>1. /\ UNCHANGED <<stored, data, shown, drag, gestures, straight>>
        /\ sends[i].st = "done" /\ sends' = Without(i)
        /\ \/ view' = "left" /\ fetch' = fetch
           \/ view' = view /\ fetch' = Invalidated
        /\ undo' \in {undo, undo \cup {sends[i].song}}
        /\ undo' # undo => sends[i].op = "remove"
    BY <1>3 DEF Succeeded
  <2>2. sends' \in Seq(Request)
    BY <1>0, <2>1, Over
  <2>3. Hoping => Hoping'
    BY <1>0, <2>1, Over DEF Hoping
  <2>4. \/ view' \in {"left", "crashed"} /\ fetch' = fetch
        \/ view' = view /\ fetch' = [st |-> "asked", got |-> NoAnswer]
    BY <2>1 DEF Invalidated, Asked
  <2>5. PageTypes'
    <3>1. NoAnswer \in Answer
      <4>1. <<>> \in Seq(Songs)
        OBVIOUS
      <4> QED BY <4>1 DEF NoAnswer, Answer
    <3>2. undo' \subseteq Songs
      BY <1>0, <1>t, <2>1 DEF PageTypes
    <3> QED BY <1>0, <2>1, <2>2, <2>4, <3>1, <3>2 DEF PageTypes, stored
  <2>6. Reconciled'
    BY <1>0, <2>1, <2>3, <2>4 DEF Reconciled, Tells, stored
  <2> QED BY <2>5, <2>6 DEF PageInv
<1>4. CASE Failed(i)
  <2>1. /\ UNCHANGED <<stored, cache, drag, undo, view, gestures>>
        /\ sends[i].st = "failed" /\ sends' = Without(i)
        /\ shown' = SnappedBack(sends[i])
        /\ straight' = (straight /\ (sends[i].op = "reorder" => sends[i].latest))
    BY <1>4 DEF Failed
  <2>2. sends' \in Seq(Request)
    BY <1>0, <2>1, Over
  <2>3. Unheard => Unheard'
    BY <1>0, <2>1, Over DEF Unheard
  <2>4. sends[i].op # "reorder" => shown' = shown /\ (Hoping => Hoping')
    BY <1>0, <2>1, Over DEF Hoping, SnappedBack
  <2>5. straight' /\ sends[i].op = "reorder" => shown' = data.tracks
    BY <2>1 DEF SnappedBack
  <2>6. PageTypes'
    BY <1>0, <1>t, <2>1, <2>2 DEF PageTypes, SnappedBack, stored, cache
  <2>7. Reconciled'
    BY <1>0, <2>1, <2>3, <2>4, <2>5 DEF Reconciled, Tells, stored, cache
  <2> QED BY <2>6, <2>7 DEF PageInv
<1> QED BY <1>1, <1>2, <1>3, <1>4

LEMMA PageStep ==
    ASSUME PageInv, [PageNext]_pageVars
    PROVE  PageInv'
<1>1. CASE UNCHANGED pageVars
  BY <1>1 DEF pageVars, stored, cache, PageInv, PageTypes, Reconciled, Tells, Unheard, Hoping
<1> QED BY <1>1, GestureReconciled, QueryReconciled, NetworkReconciled DEF PageNext, Network

\* The optimistic order does not outlive the requests, for any songs and any number of
\* requests that overlap, fail and are answered out of turn.
THEOREM PlaylistAgrees == PageSpec => []PageAgrees
<1>1. PageInv => PageAgrees
  <2> SUFFICES ASSUME PageInv, Quiet, straight PROVE shown = list
    BY DEF PageAgrees
  <2>1. ~Unheard /\ ~Hoping
    BY DEF Quiet, Unheard, Hoping
  <2>2. data.stamp = stamp /\ data.tracks = list
    BY <2>1 DEF PageInv, Reconciled, Quiet, Tells
  <2>3. stamp \in Nat
    BY DEF PageInv, PageTypes
  <2> QED BY <2>1, <2>2, <2>3 DEF PageInv, Reconciled
<1> QED BY <1>1, PageStart, PageStep, PTL DEF PageSpec

-------------------------------------------------------------------------------
(* The pages under the router *)

\* Each page keeps its promise also next to the others: a step of one leaves what the
\* others hold alone.
THEOREM PagesCorrect ==
    PagesSpec => [](PageAgrees /\ NothingLost /\ ReportIsOfThisImport /\ StackHoldsOpen)
<1>1. PagesInit => PageInit /\ AlbumsInit /\ ImportInit /\ OverlaysInit
  BY DEF PagesInit
<1>2. [PagesNext]_pagesVars => /\ [PageNext]_pageVars
                               /\ [AlbumsNext]_albumVars
                               /\ [ImportNext]_importVars
                               /\ [OverlaysNext]_overlayVars
  <2> SUFFICES ASSUME [PagesNext]_pagesVars
               PROVE  /\ PageNext \/ UNCHANGED pageVars
                      /\ AlbumsNext \/ UNCHANGED albumVars
                      /\ ImportNext \/ UNCHANGED importVars
                      /\ OverlaysNext \/ UNCHANGED overlayVars
    OBVIOUS
  <2>1. CASE UNCHANGED pagesVars
    BY <2>1 DEF pagesVars
  <2>2. CASE Queue(ViewsNext)
    BY <2>2 DEF Queue
  <2>3. CASE Playlist(PageNext)
    BY <2>3 DEF Playlist
  <2>4. CASE AlbumsPage(AlbumsNext)
    BY <2>4 DEF AlbumsPage
  <2>5. CASE Import(ImportNext)
    BY <2>5 DEF Import
  <2>6. CASE Overlays(OverlaysNext)
    BY <2>6 DEF Overlays
  <2> QED BY <2>1, <2>2, <2>3, <2>4, <2>5, <2>6 DEF PagesNext
<1>3. PagesSpec => PageSpec /\ AlbumsSpec /\ OverlaysSpec /\ ImportInit /\ [][ImportNext]_importVars
  BY <1>1, <1>2, PTL DEF PagesSpec, PageSpec, AlbumsSpec, OverlaysSpec
<1>4. ImportInit /\ [][ImportNext]_importVars => []ImportInv
  BY ImportStart, ImportStep, PTL
<1>5. ImportInv => ReportIsOfThisImport
  BY InvReports
<1> QED BY <1>3, <1>4, <1>5, PlaylistAgrees, AlbumKeepsOwned, BackClosesTop, PTL

================================================================================
