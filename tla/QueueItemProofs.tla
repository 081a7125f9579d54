---------------------------- MODULE QueueItemProofs ----------------------------
(***************************************************************************)
(* For any size, blocks and connections, whatever tree and setting come    *)
(* and go: no two downloads of a file fetch the same byte, what is done    *)
(* has been written, and what is done stays done.                          *)
(*                                                                         *)
(* The first half is about the segments alone: what the loop of            *)
(* QueueItem::addSegment() makes of a finite set of them, by induction on  *)
(* the segments that come first, and what getNextSegment() gives for what  *)
(* the loop leaves.                                                        *)
(***************************************************************************)
EXTENDS QueueItem, FiniteSetTheorems, SequenceTheorems, WellFoundedInduction, TLAPS

-----------------------------------------------------------------------------
(* The numbers.                                                            *)

LEMMA LeastExists ==
    ASSUME NEW S, S \subseteq Nat, S # {}
    PROVE  \E m \in S : \A n \in S : m <= n
<1>1. PICK m \in S : \A n \in S : ~ (<<n, m>> \in OpToRel(<, Nat))
  BY NatLessThanWellFounded, WFMin
<1>2. ASSUME NEW n \in S PROVE m <= n
  <2>1. ~ (<<n, m>> \in OpToRel(<, Nat))
    BY <1>1
  <2> QED
    BY <2>1 DEF OpToRel
<1> QED
  BY <1>2

LEMMA GreatestExists ==
    ASSUME NEW w \in Nat, NEW S, S \subseteq 1..w, S # {}
    PROVE  \E m \in S : \A n \in S : n <= m
<1> DEFINE Rest == {w - n : n \in S}
<1>1. Rest \subseteq Nat /\ Rest # {}
  <2>1. \A n \in S : w - n \in Nat
    OBVIOUS
  <2> QED
    BY <2>1
<1>2. PICK r \in Rest : \A q \in Rest : r <= q
  BY <1>1, LeastExists
<1>3. PICK m \in S : r = w - m
  BY <1>2
<1>4. ASSUME NEW n \in S PROVE n <= m
  <2>1. w - m <= w - n
    BY <1>2, <1>3
  <2> QED
    BY <2>1
<1> QED
  BY <1>4

-----------------------------------------------------------------------------
(* Facts about every finite set of segments are proved on a least          *)
(* counterexample: no subset of it with an element less is one.            *)

Segs == Nat \X Nat

LEMMA LeastCounterexample ==
    ASSUME NEW S, IsFiniteSet(S), NEW Bad, Bad \subseteq SUBSET S, Bad # {}
    PROVE  \E T \in Bad : \A x \in T : T \ {x} \notin Bad
<1> DEFINE Sizes == {Cardinality(T) : T \in Bad}
<1>1. ASSUME NEW T \in Bad PROVE IsFiniteSet(T) /\ Cardinality(T) \in Nat
  BY FS_Subset, FS_CardinalityType
<1>2. PICK n \in Sizes : \A k \in Sizes : n <= k
  <2>1. Sizes \subseteq Nat /\ Sizes # {}
    BY <1>1
  <2> HIDE DEF Sizes
  <2> QED
    BY <2>1, LeastExists
<1>3. PICK T \in Bad : n = Cardinality(T)
  BY <1>2
<1>4. ASSUME NEW x \in T, T \ {x} \in Bad PROVE FALSE
  <2>1. Cardinality(T \ {x}) = Cardinality(T) - 1
    BY <1>1, FS_RemoveElement
  <2>2. Cardinality(T) <= Cardinality(T \ {x})
    BY <1>2, <1>3, <1>4
  <2> QED
    BY <1>1, <2>1, <2>2
<1> QED
  BY <1>4

LEMMA LatestExists ==
    ASSUME NEW S, S \subseteq Segs, IsFiniteSet(S), S # {}
    PROVE  /\ Latest(S) \in S
           /\ \A t \in S : t = Latest(S) \/ Before(t, Latest(S))
<1> DEFINE Found(T) == \E m \in T : \A t \in T : t = m \/ Before(t, m)
           Bad == {T \in SUBSET S : T # {} /\ ~Found(T)}
<1>1. SUFFICES ASSUME Bad # {} PROVE FALSE
  <2>1. Found(S)
    BY <1>1
  <2> QED
    BY <2>1 DEF Latest
<1>2. PICK T \in Bad : \A x \in T : T \ {x} \notin Bad
  <2>1. Bad \subseteq SUBSET S
    OBVIOUS
  <2> HIDE DEF Bad
  <2> QED
    BY <1>1, <2>1, LeastCounterexample
<1>3. PICK x \in T : TRUE
  OBVIOUS
<1>4. CASE T \ {x} = {}
  BY <1>3, <1>4
<1>5. CASE T \ {x} # {}
  <2>1. PICK m \in T \ {x} : \A t \in T \ {x} : t = m \/ Before(t, m)
    BY <1>2, <1>3, <1>5
  <2>2. x \in Segs /\ m \in Segs /\ x # m /\ T \subseteq Segs
    BY <1>3, <2>1
  <2>3. x = <<x[1], x[2]>> /\ m = <<m[1], m[2]>>
    BY <2>2 DEF Segs
  <2>4. CASE Before(x, m)
    BY <2>1, <2>4
  <2>5. CASE ~Before(x, m)
    <3>1. Before(m, x)
      BY <2>2, <2>3, <2>5 DEF Before, Segs
    <3>2. ASSUME NEW t \in T, t # x PROVE Before(t, x)
      <4>1. t = m \/ Before(t, m)
        BY <2>1, <3>2
      <4>2. t \in Segs
        BY <2>2
      <4> QED
        BY <3>1, <4>1, <4>2, <2>2 DEF Before, Segs
    <3> QED
      BY <1>3, <3>2
  <2> QED
    BY <2>4, <2>5
<1> QED
  BY <1>4, <1>5

LEMMA LatestIs ==
    ASSUME NEW S, S \subseteq Segs, IsFiniteSet(S), NEW m \in S,
           \A t \in S : t = m \/ Before(t, m)
    PROVE  Latest(S) = m
<1>1. /\ Latest(S) \in S
      /\ m = Latest(S) \/ Before(m, Latest(S))
  BY LatestExists
<1>2. Latest(S) = m \/ Before(Latest(S), m)
  BY <1>1
<1> QED
  BY <1>1, <1>2 DEF Before, Segs

-----------------------------------------------------------------------------
(* Consolidation() does what its loop says, one segment after another.     *)

\* The function that MapThenFoldSet() defines recursively on the subsets of T.
Rec(T, it) ==
    it = [t \in SUBSET T |->
             IF t = {} THEN <<>> ELSE Consolidated(it[t \ {Latest(t)}], Latest(t))]

LEMMA ConsolidationIs ==
    ASSUME NEW S
    PROVE  Consolidation(S) = (CHOOSE it : Rec(S, it))[S]
BY DEF Consolidation, MapThenFoldSet, Rec

LEMMA RecAt ==
    ASSUME NEW S, NEW it, Rec(S, it), NEW T \in SUBSET S
    PROVE  it[T] = IF T = {} THEN <<>> ELSE Consolidated(it[T \ {Latest(T)}], Latest(T))
BY DEF Rec

LEMMA RecExists ==
    ASSUME NEW S, S \subseteq Segs, IsFiniteSet(S)
    PROVE  \E it : Rec(S, it)
<1> DEFINE Bad == {T \in SUBSET S : ~\E it : Rec(T, it)}
<1>1. SUFFICES ASSUME Bad # {} PROVE FALSE
  BY <1>1
<1>2. PICK T \in Bad : \A x \in T : T \ {x} \notin Bad
  <2>1. Bad \subseteq SUBSET S
    OBVIOUS
  <2> HIDE DEF Bad
  <2> QED
    BY <1>1, <2>1, LeastCounterexample
<1>3. T \subseteq S /\ ~\E it : Rec(T, it)
  BY <1>2
<1>4. \A t \in SUBSET T : t \subseteq Segs /\ IsFiniteSet(t)
  BY <1>3, FS_Subset
<1>5. CASE T = {}
  <2> DEFINE it == [t \in SUBSET T |-> <<>>]
  <2>1. \A t \in SUBSET T : t = {}
    BY <1>5
  <2>2. it = [t \in SUBSET T |->
                IF t = {} THEN <<>> ELSE Consolidated(it[t \ {Latest(t)}], Latest(t))]
    BY <2>1
  <2>3. Rec(T, it)
    BY <2>2 DEF Rec
  <2> QED
    BY <1>3, <2>3
<1>6. CASE T # {}
  <2> DEFINE m == Latest(T)
  <2>1. m \in T /\ \A t \in T : t = m \/ Before(t, m)
    BY <1>4, <1>6, LatestExists
  <2> HIDE DEF m
  <2>2. PICK it0 : Rec(T \ {m}, it0)
    <3>1. T \ {m} \notin Bad
      BY <1>2, <2>1
    <3> QED
      BY <3>1, <1>3
  <2> DEFINE it == [t \in SUBSET T |->
                       IF m \in t THEN Consolidated(it0[t \ {m}], m) ELSE it0[t]]
  <2>3. ASSUME NEW t \in SUBSET T
        PROVE  it[t] = IF t = {} THEN <<>> ELSE Consolidated(it[t \ {Latest(t)}], Latest(t))
    <3>1. CASE m \in t
      <4>1. Latest(t) = m
        BY <3>1, <1>4, <2>1, LatestIs
      <4>2. it[t \ {m}] = it0[t \ {m}]
        OBVIOUS
      <4>3. it[t] = Consolidated(it0[t \ {m}], m)
        BY <3>1
      <4> QED
        BY <3>1, <4>1, <4>2, <4>3
    <3>2. CASE m \notin t
      <4>1. it[t] = it0[t]
        BY <3>2
      <4>2. t \in SUBSET (T \ {m})
        BY <3>2
      <4>3. it0[t] = IF t = {} THEN <<>> ELSE Consolidated(it0[t \ {Latest(t)}], Latest(t))
        BY <2>2, <4>2, RecAt
      <4>4. it[t \ {Latest(t)}] = it0[t \ {Latest(t)}]
        BY <3>2
      <4> HIDE DEF it
      <4> QED
        BY <4>1, <4>3, <4>4
    <3> QED
      BY <3>1, <3>2
  <2>4. it = [t \in SUBSET T |-> it[t]]
    OBVIOUS
  <2> HIDE DEF it
  <2>5. Rec(T, it)
    BY <2>3, <2>4 DEF Rec
  <2> QED
    BY <1>3, <2>5
<1> QED
  BY <1>5, <1>6

LEMMA RecAgrees ==
    ASSUME NEW S, S \subseteq Segs, IsFiniteSet(S), NEW T \in SUBSET S,
           NEW f, Rec(S, f), NEW g, Rec(T, g)
    PROVE  f[T] = g[T]
<1> DEFINE Bad == {t \in SUBSET T : f[t] # g[t]}
<1>1. SUFFICES ASSUME Bad # {} PROVE FALSE
  BY <1>1
<1>2. IsFiniteSet(T)
  BY FS_Subset
<1>3. PICK t \in Bad : \A x \in t : t \ {x} \notin Bad
  <2>1. Bad \subseteq SUBSET T
    OBVIOUS
  <2> HIDE DEF Bad
  <2> QED
    BY <1>1, <1>2, <2>1, LeastCounterexample
<1>4. t \in SUBSET T /\ t \in SUBSET S /\ f[t] # g[t]
  BY <1>3
<1>5. /\ f[t] = IF t = {} THEN <<>> ELSE Consolidated(f[t \ {Latest(t)}], Latest(t))
      /\ g[t] = IF t = {} THEN <<>> ELSE Consolidated(g[t \ {Latest(t)}], Latest(t))
  BY <1>4, RecAt
<1>6. t # {}
  BY <1>4, <1>5
<1>7. Latest(t) \in t
  BY <1>4, <1>6, LatestExists, FS_Subset
<1>8. f[t \ {Latest(t)}] = g[t \ {Latest(t)}]
  BY <1>3, <1>4, <1>7
<1> QED
  BY <1>4, <1>5, <1>8

LEMMA ConsolidationUnfolds ==
    ASSUME NEW S, S \subseteq Segs, IsFiniteSet(S)
    PROVE  Consolidation(S) = IF S = {} THEN <<>>
                              ELSE Consolidated(Consolidation(S \ {Latest(S)}), Latest(S))
<1> DEFINE f == CHOOSE it : Rec(S, it)
           T == S \ {Latest(S)}
           g == CHOOSE it : Rec(T, it)
<1>1. Rec(S, f)
  BY RecExists
<1>2. Rec(T, g)
  <2>1. T \subseteq Segs /\ IsFiniteSet(T)
    BY FS_Subset
  <2> QED
    BY <2>1, RecExists
<1>3. Consolidation(S) = f[S] /\ Consolidation(T) = g[T]
  BY ConsolidationIs
<1> HIDE DEF f, g
<1>4. f[S] = IF S = {} THEN <<>> ELSE Consolidated(f[T], Latest(S))
  BY <1>1, RecAt
<1>5. f[T] = g[T]
  BY <1>1, <1>2, RecAgrees
<1> QED
  BY <1>3, <1>4, <1>5

-----------------------------------------------------------------------------
(* What addSegment() makes of the segments that are done.                  *)

\* A segment that is not empty.
Proper == {s \in Segs : s[1] < s[2]}

\* No two segments touch: what addSegment() leaves behind.
Separate(D) == \A d, e \in D : d = e \/ d[2] < e[1] \/ e[2] < d[1]

Within(n, s) == s[1] <= n /\ n < s[2]

Apart(parts) == \A i, j \in 1..Len(parts) : i < j => parts[i][2] < parts[j][1]

LEMMA ConsolidatedIs ==
    ASSUME NEW parts \in Seq(Segs), NEW s \in Segs
    PROVE  /\ parts # <<>> /\ parts[Len(parts)][2] >= s[1] =>
                  /\ Len(Consolidated(parts, s)) = Len(parts)
                  /\ \A i \in 1..(Len(parts) - 1) : Consolidated(parts, s)[i] = parts[i]
                  /\ Consolidated(parts, s)[Len(parts)] = <<parts[Len(parts)][1], s[2]>>
                  /\ Consolidated(parts, s) \in Seq(Segs)
           /\ ~ (parts # <<>> /\ parts[Len(parts)][2] >= s[1]) =>
                  /\ Len(Consolidated(parts, s)) = Len(parts) + 1
                  /\ \A i \in 1..Len(parts) : Consolidated(parts, s)[i] = parts[i]
                  /\ Consolidated(parts, s)[Len(parts) + 1] = s
                  /\ Consolidated(parts, s) \in Seq(Segs)
<1>1. CASE parts # <<>> /\ parts[Len(parts)][2] >= s[1]
  <2> DEFINE front == SubSeq(parts, 1, Len(parts) - 1)
             new == <<parts[Len(parts)][1], s[2]>>
  <2>1. Consolidated(parts, s) = Append(front, new)
    BY <1>1 DEF Consolidated, Last, Front
  <2>2. Len(parts) \in Nat \ {0} /\ parts[Len(parts)] \in Segs
    BY <1>1
  <2>3. new \in Segs
    BY <2>2 DEF Segs
  <2>4. /\ front \in Seq(Segs) /\ Len(front) = Len(parts) - 1
        /\ \A i \in 1..(Len(parts) - 1) : front[i] = parts[i]
    <3> DEFINE k == Len(parts) - 1
    <3>1. k \in Nat /\ \A i \in 1..k : parts[i] \in Segs
      BY <2>2
    <3> HIDE DEF k
    <3>2. /\ SubSeq(parts, 1, k) \in Seq(Segs)
          /\ Len(SubSeq(parts, 1, k)) = IF 1 <= k THEN k - 1 + 1 ELSE 0
          /\ \A i \in 1..(k - 1 + 1) : SubSeq(parts, 1, k)[i] = parts[1 + i - 1]
      BY <3>1, SubSeqProperties
    <3>3. Len(SubSeq(parts, 1, k)) = k
      BY <3>1, <3>2
    <3>4. ASSUME NEW i \in 1..k PROVE SubSeq(parts, 1, k)[i] = parts[i]
      <4>1. i \in 1..(k - 1 + 1) /\ 1 + i - 1 = i
        BY <3>1
      <4> QED
        BY <3>2, <4>1
    <3> QED
      BY <3>2, <3>3, <3>4 DEF k
  <2> HIDE DEF front, new
  <2>5. /\ Append(front, new) \in Seq(Segs) /\ Len(Append(front, new)) = Len(parts)
        /\ \A i \in 1..(Len(parts) - 1) : Append(front, new)[i] = parts[i]
        /\ Append(front, new)[Len(parts)] = new
    BY <2>2, <2>3, <2>4
  <2> QED
    BY <1>1, <2>1, <2>5 DEF new
<1>2. CASE ~ (parts # <<>> /\ parts[Len(parts)][2] >= s[1])
  <2>1. Consolidated(parts, s) = Append(parts, s)
    BY <1>2 DEF Consolidated, Last
  <2> QED
    BY <1>2, <2>1
<1> QED
  BY <1>1, <1>2

LEMMA ProperParts ==
    ASSUME NEW parts \in Seq(Proper)
    PROVE  parts \in Seq(Segs)
  BY DEF Proper

\* One segment later than all so far.
LEMMA ConsolidatedKeeps ==
    ASSUME NEW parts \in Seq(Proper), Apart(parts), NEW s \in Proper,
           parts # <<>> => parts[Len(parts)][1] <= s[1]
    PROVE  LET next == Consolidated(parts, s) IN
           /\ next \in Seq(Proper) /\ Apart(next) /\ next # <<>>
           /\ next[Len(next)][1] <= s[1] /\ next[Len(next)][2] = s[2]
<1> DEFINE next == Consolidated(parts, s)
           n == Len(parts)
<1>1. n \in Nat /\ s \in Segs /\ \A i \in 1..n : parts[i] \in Proper
  BY DEF Proper
<1>2. /\ s[1] \in Nat /\ s[2] \in Nat /\ s[1] < s[2]
      /\ \A i \in 1..n : parts[i][1] \in Nat /\ parts[i][2] \in Nat /\ parts[i][1] < parts[i][2]
  BY <1>1 DEF Proper, Segs
<1>3. CASE parts # <<>> /\ parts[Len(parts)][2] >= s[1]
  <2>1. /\ next \in Seq(Segs) /\ Len(next) = n
        /\ \A i \in 1..(n - 1) : next[i] = parts[i]
        /\ next[n] = <<parts[n][1], s[2]>>
    BY <1>1, <1>3, ProperParts, ConsolidatedIs
  <2> HIDE DEF next
  <2>2. n # 0
    BY <1>3
  <2>3. next[n][1] <= s[1] /\ next[n][2] = s[2] /\ next[n][1] = parts[n][1]
    BY <1>3, <2>1
  <2>4. next[n] \in Proper
    BY <1>1, <1>2, <2>1, <2>2, <2>3 DEF Proper, Segs
  <2>5. \A i \in 1..n : next[i] \in Proper
    <3>1. \A i \in 1..n : i \in 1..(n - 1) \/ i = n
      BY <1>1
    <3> HIDE DEF n
    <3> QED
      BY <1>1, <2>1, <2>4, <3>1
  <2>6. Apart(next)
    <3>1. ASSUME NEW i \in 1..n, NEW j \in 1..n, i < j PROVE next[i][2] < next[j][1]
      <4>1. next[i] = parts[i] /\ next[j][1] = parts[j][1]
        BY <1>1, <2>1, <2>3, <3>1
      <4> QED
        BY <3>1, <4>1 DEF Apart
    <3> QED
      BY <2>1, <3>1 DEF Apart
  <2>7. next \in Seq(Proper)
    BY <2>1, <2>5
  <2>8. next # <<>>
    BY <1>1, <2>1, <2>2
  <2> QED
    BY <2>1, <2>3, <2>6, <2>7, <2>8 DEF next
<1>4. CASE ~ (parts # <<>> /\ parts[Len(parts)][2] >= s[1])
  <2>1. /\ next \in Seq(Segs) /\ Len(next) = n + 1
        /\ \A i \in 1..n : next[i] = parts[i]
        /\ next[n + 1] = s
    BY <1>1, <1>4, ProperParts, ConsolidatedIs
  <2> HIDE DEF next
  <2>2. \A i \in 1..n : parts[i][2] < s[1]
    <3>1. ASSUME NEW i \in 1..n PROVE parts[i][2] < s[1]
      <4>1. parts # <<>> /\ n \in 1..n
        BY <1>1, <3>1
      <4>2. parts[n][2] < s[1]
        BY <1>2, <1>4, <4>1
      <4>3. i < n => parts[i][2] < parts[n][1]
        BY <4>1 DEF Apart
      <4> QED
        BY <1>2, <3>1, <4>1, <4>2, <4>3
    <3> QED
      BY <3>1
  <2>3. \A i \in 1..(n + 1) : next[i] \in Proper
    BY <1>1, <2>1
  <2>4. Apart(next)
    <3>1. ASSUME NEW i \in 1..(n + 1), NEW j \in 1..(n + 1), i < j
          PROVE  next[i][2] < next[j][1]
      <4>1. i \in 1..n /\ next[i] = parts[i]
        BY <1>1, <2>1, <3>1
      <4>2. CASE j = n + 1
        BY <2>1, <2>2, <4>1, <4>2
      <4>3. CASE j # n + 1
        <5>1. j \in 1..n /\ next[j] = parts[j]
          BY <1>1, <2>1, <3>1, <4>3
        <5> QED
          BY <3>1, <4>1, <5>1 DEF Apart
      <4> QED
        BY <4>2, <4>3
    <3> QED
      BY <2>1, <3>1 DEF Apart
  <2>5. next \in Seq(Proper)
    BY <2>1, <2>3
  <2>6. next # <<>> /\ s[1] <= s[1]
    BY <1>1, <1>2, <2>1
  <2> QED
    BY <2>1, <2>4, <2>5, <2>6 DEF next
<1> QED
  BY <1>3, <1>4

\* What Consolidation() makes of a set covers nothing that the set does not.
Listed(T) ==
    LET parts == Consolidation(T) IN
    /\ parts \in Seq(Segs)
    /\ \A i \in 1..Len(parts) : \A n \in Nat : Within(n, parts[i]) => \E t \in T : Within(n, t)

LEMMA AllListed ==
    ASSUME NEW S, S \subseteq Segs, IsFiniteSet(S)
    PROVE  \A T \in SUBSET S : Listed(T)
<1> DEFINE Bad == {T \in SUBSET S : ~Listed(T)}
<1>1. SUFFICES ASSUME Bad # {} PROVE FALSE
  BY <1>1
<1>2. PICK T \in Bad : \A x \in T : T \ {x} \notin Bad
  <2>1. Bad \subseteq SUBSET S
    OBVIOUS
  <2> HIDE DEF Bad
  <2> QED
    BY <1>1, <2>1, LeastCounterexample
<1>3. T \subseteq Segs /\ IsFiniteSet(T) /\ ~Listed(T)
  BY <1>2, FS_Subset
<1>4. CASE T = {}
  <2>1. Consolidation(T) = <<>>
    BY <1>3, <1>4, ConsolidationUnfolds
  <2>2. <<>> \in Seq(Segs) /\ Len(<<>>) = 0
    OBVIOUS
  <2>3. 1..0 = {} /\ Len(Consolidation(T)) = 0 /\ Consolidation(T) \in Seq(Segs)
    BY <2>1, <2>2
  <2>4. Listed(T)
    BY <2>3 DEF Listed
  <2> QED
    BY <1>3, <2>4
<1>5. CASE T # {}
  <2> DEFINE m == Latest(T)
             R == T \ {m}
             old == Consolidation(R)
             parts == Consolidation(T)
  <2>1. m \in T
    BY <1>3, <1>5, LatestExists
  <2>2. Listed(R)
    <3>1. R \notin Bad
      BY <1>2, <2>1
    <3> QED
      BY <1>2, <3>1
  <2>3. parts = Consolidated(old, m)
    BY <1>3, <1>5, ConsolidationUnfolds
  <2> HIDE DEF m
  <2>4. m \in Segs
    BY <1>3, <2>1
  <2>5. /\ old \in Seq(Segs)
        /\ \A j \in 1..Len(old) : \A n \in Nat : Within(n, old[j]) => \E t \in T : Within(n, t)
    BY <2>2 DEF Listed
  <2> HIDE DEF old, parts
  <2>6. parts \in Seq(Segs)
    BY <2>3, <2>4, <2>5, ConsolidatedIs
  <2>7. ASSUME NEW i \in 1..Len(parts), NEW n \in Nat, Within(n, parts[i])
        PROVE  \E t \in T : Within(n, t)
    <3>1. \A j \in 1..Len(old) : Within(n, old[j]) => \E t \in T : Within(n, t)
      BY <2>5
    <3>2. Len(old) \in Nat /\ \A j \in 1..Len(old) : old[j] \in Segs
      BY <2>5
    <3>3. CASE old # <<>> /\ old[Len(old)][2] >= m[1]
      <4>1. /\ Len(parts) = Len(old)
            /\ \A j \in 1..(Len(old) - 1) : parts[j] = old[j]
            /\ parts[Len(old)] = <<old[Len(old)][1], m[2]>>
        BY <2>3, <2>4, <2>5, <3>3, ConsolidatedIs
      <4>2. CASE i = Len(old)
        <5>1. old[Len(old)][1] <= n /\ n < m[2]
          BY <2>7, <4>1, <4>2 DEF Within
        <5>2. Len(old) \in 1..Len(old)
          BY <2>7, <4>1, <4>2
        <5>3. old[Len(old)][2] \in Nat /\ m[1] \in Nat
          BY <2>4, <3>2, <5>2 DEF Segs
        <5>4. Within(n, old[Len(old)]) \/ Within(n, m)
          BY <3>3, <5>1, <5>3 DEF Within
        <5> QED
          BY <2>1, <3>1, <5>2, <5>4
      <4>3. CASE i # Len(old)
        BY <2>7, <3>1, <3>2, <4>1, <4>3
      <4> QED
        BY <4>2, <4>3
    <3>4. CASE ~ (old # <<>> /\ old[Len(old)][2] >= m[1])
      <4>1. /\ Len(parts) = Len(old) + 1
            /\ \A j \in 1..Len(old) : parts[j] = old[j]
            /\ parts[Len(old) + 1] = m
        BY <2>3, <2>4, <2>5, <3>4, ConsolidatedIs
      <4>2. CASE i = Len(old) + 1
        BY <2>1, <2>7, <4>1, <4>2
      <4>3. CASE i # Len(old) + 1
        BY <2>7, <3>1, <3>2, <4>1, <4>3
      <4> QED
        BY <4>2, <4>3
    <3> QED
      BY <3>3, <3>4
  <2>8. Listed(T)
    BY <2>6, <2>7 DEF Listed, parts
  <2> QED
    BY <1>3, <2>8
<1> QED
  BY <1>4, <1>5

\* What it makes of segments that are not empty does not touch.
Folded(T) ==
    LET parts == Consolidation(T) IN
    /\ parts \in Seq(Proper)
    /\ Apart(parts)
    /\ T # {} => /\ parts # <<>>
                 /\ parts[Len(parts)][1] <= Latest(T)[1]
                 /\ parts[Len(parts)][2] = Latest(T)[2]

LEMMA AllFolded ==
    ASSUME NEW S, S \subseteq Proper, IsFiniteSet(S)
    PROVE  \A T \in SUBSET S : Folded(T)
<1> DEFINE Bad == {T \in SUBSET S : ~Folded(T)}
<1>1. SUFFICES ASSUME Bad # {} PROVE FALSE
  BY <1>1
<1>2. PICK T \in Bad : \A x \in T : T \ {x} \notin Bad
  <2>1. Bad \subseteq SUBSET S
    OBVIOUS
  <2> HIDE DEF Bad
  <2> QED
    BY <1>1, <2>1, LeastCounterexample
<1>3. T \subseteq Proper /\ T \subseteq Segs /\ IsFiniteSet(T) /\ ~Folded(T)
  BY <1>2, FS_Subset DEF Proper
<1>4. CASE T = {}
  <2>1. Consolidation(T) = <<>>
    BY <1>3, <1>4, ConsolidationUnfolds
  <2>2. <<>> \in Seq(Proper) /\ Len(<<>>) = 0
    OBVIOUS
  <2>3. 1..0 = {} /\ Len(Consolidation(T)) = 0 /\ Consolidation(T) \in Seq(Proper)
    BY <2>1, <2>2
  <2>4. Folded(T)
    BY <1>4, <2>3 DEF Folded, Apart
  <2> QED
    BY <1>3, <2>4
<1>5. CASE T # {}
  <2> DEFINE m == Latest(T)
             R == T \ {m}
             old == Consolidation(R)
             parts == Consolidation(T)
  <2>1. m \in T /\ \A t \in T : t = m \/ Before(t, m)
    BY <1>3, <1>5, LatestExists
  <2>2. Folded(R)
    <3>1. R \notin Bad
      BY <1>2, <2>1
    <3> QED
      BY <1>2, <3>1
  <2>3. parts = Consolidated(old, m)
    BY <1>3, <1>5, ConsolidationUnfolds
  <2>4. R \subseteq Segs /\ IsFiniteSet(R)
    BY <1>3, FS_Subset
  <2> HIDE DEF m
  <2>5. m \in Proper
    BY <1>3, <2>1
  <2>6. old \in Seq(Proper) /\ Apart(old)
    BY <2>2 DEF Folded
  <2>7. old # <<>> => R # {} /\ old[Len(old)][1] <= m[1] /\ old[Len(old)][2] = Latest(R)[2]
    <3>1. ASSUME old # <<>> PROVE R # {} /\ old[Len(old)][1] <= m[1] /\ old[Len(old)][2] = Latest(R)[2]
      <4>1. R # {}
        BY <2>4, <3>1, ConsolidationUnfolds
      <4>2. Latest(R) \in R
        BY <2>4, <4>1, LatestExists
      <4>3. Latest(R)[1] <= m[1]
        BY <1>3, <2>1, <2>4, <4>2, <2>5 DEF Before, Segs, Proper
      <4>4. old[Len(old)][1] <= Latest(R)[1] /\ old[Len(old)][2] = Latest(R)[2]
        BY <2>2, <4>1 DEF Folded
      <4>5. old[Len(old)] \in Proper
        BY <2>6, <3>1
      <4>6. old[Len(old)][1] \in Nat /\ Latest(R)[1] \in Nat /\ m[1] \in Nat
        BY <4>5, <4>2, <2>4, <2>5 DEF Proper, Segs
      <4> QED
        BY <4>1, <4>3, <4>4, <4>6
    <3> QED
      BY <3>1
  <2> HIDE DEF old, parts
  <2>8. /\ parts \in Seq(Proper) /\ Apart(parts) /\ parts # <<>>
        /\ parts[Len(parts)][1] <= m[1] /\ parts[Len(parts)][2] = m[2]
    BY <2>3, <2>5, <2>6, <2>7, ConsolidatedKeeps
  <2>9. Folded(T)
    BY <2>8 DEF Folded, parts, m
  <2> QED
    BY <1>3, <2>9
<1> QED
  BY <1>4, <1>5

LEMMA PartsOf ==
    ASSUME NEW parts \in Seq(Segs)
    PROVE  ToSet(parts) = {parts[i] : i \in 1..Len(parts)}
<1>1. DOMAIN parts = 1..Len(parts)
  OBVIOUS
<1> QED
  BY <1>1 DEF ToSet

\* What addSegment() leaves is finite, and covers nothing new.
LEMMA Added ==
    ASSUME NEW D, D \subseteq Segs, IsFiniteSet(D), NEW s \in Segs
    PROVE  /\ AddSegment(D, s) \subseteq Segs /\ IsFiniteSet(AddSegment(D, s))
           /\ Units(AddSegment(D, s)) \subseteq Units(D \cup {s})
<1> DEFINE parts == Consolidation(D \cup {s})
           A == AddSegment(D, s)
<1>1. Listed(D \cup {s})
  <2>1. D \cup {s} \subseteq Segs /\ IsFiniteSet(D \cup {s})
    BY FS_AddElement
  <2> QED
    BY <2>1, AllListed
<1>2. /\ parts \in Seq(Segs)
      /\ \A i \in 1..Len(parts) : \A n \in Nat :
             Within(n, parts[i]) => \E t \in D \cup {s} : Within(n, t)
  BY <1>1 DEF Listed
<1>3. A = {parts[i] : i \in 1..Len(parts)}
  BY <1>2, PartsOf DEF AddSegment
<1> HIDE DEF parts, A
<1>4. A \subseteq Segs
  BY <1>2, <1>3
<1>5. IsFiniteSet(A)
  <2>1. [i \in 1..Len(parts) |-> parts[i]] \in Surjection(1..Len(parts), A)
    BY <1>3 DEF Surjection
  <2>2. IsFiniteSet(1..Len(parts))
    BY <1>2, FS_Interval
  <2> QED
    BY <2>1, <2>2, FS_Surjection
<1>6. Units(A) \subseteq Units(D \cup {s})
  <2> SUFFICES ASSUME NEW n \in Units(A) PROVE n \in Units(D \cup {s})
    OBVIOUS
  <2>1. PICK a \in A : n \in a[1]..(a[2] - 1)
    BY DEF Units
  <2>2. PICK i \in 1..Len(parts) : a = parts[i]
    BY <1>3
  <2>3. n \in Nat /\ Within(n, parts[i])
    BY <1>4, <2>1, <2>2 DEF Within, Segs
  <2>4. PICK t \in D \cup {s} : Within(n, t)
    BY <1>2, <2>3
  <2>5. n \in t[1]..(t[2] - 1)
    BY <2>3, <2>4 DEF Within, Segs
  <2> QED
    BY <2>5 DEF Units
<1> QED
  BY <1>4, <1>5, <1>6 DEF A

\* It is separate when no segment was empty.
LEMMA AddedSeparate ==
    ASSUME NEW D, D \subseteq Proper, IsFiniteSet(D), NEW s \in Proper
    PROVE  AddSegment(D, s) \subseteq Proper /\ Separate(AddSegment(D, s))
<1> DEFINE parts == Consolidation(D \cup {s})
           A == AddSegment(D, s)
<1>1. Folded(D \cup {s})
  <2>1. D \cup {s} \subseteq Proper /\ IsFiniteSet(D \cup {s})
    BY FS_AddElement
  <2> QED
    BY <2>1, AllFolded
<1>2. parts \in Seq(Proper) /\ Apart(parts)
  BY <1>1 DEF Folded
<1>3. A = {parts[i] : i \in 1..Len(parts)}
  BY <1>2, ProperParts, PartsOf DEF AddSegment
<1> HIDE DEF parts, A
<1>4. A \subseteq Proper
  BY <1>2, <1>3
<1>5. Separate(A)
  <2> SUFFICES ASSUME NEW d \in A, NEW e \in A
               PROVE  d = e \/ d[2] < e[1] \/ e[2] < d[1]
    BY DEF Separate
  <2>1. PICK i \in 1..Len(parts) : d = parts[i]
    BY <1>3
  <2>2. PICK j \in 1..Len(parts) : e = parts[j]
    BY <1>3
  <2>3. i = j \/ i < j \/ j < i
    OBVIOUS
  <2> QED
    BY <1>2, <2>1, <2>2, <2>3 DEF Apart
<1> QED
  BY <1>4, <1>5 DEF A

\* What is done stays done, unless the new segment lies in one that is there:
\* only then does the loop replace a segment by a shorter one.
LEMMA NoneLost ==
    ASSUME NEW D, D \subseteq Proper, IsFiniteSet(D), Separate(D), NEW s \in Proper,
           \A d \in D : ~ (d[1] <= s[1] /\ s[2] <= d[2])
    PROVE  Units(D) \subseteq Units(AddSegment(D, s))
<1> DEFINE S == D \cup {s}
           Kept(T) == \A d \in T \ {s} : \A n \in Nat : Within(n, d) =>
                          \E i \in 1..Len(Consolidation(T)) : Within(n, Consolidation(T)[i])
           Bad == {T \in SUBSET S : ~Kept(T)}
<1>1. S \subseteq Proper /\ S \subseteq Segs /\ IsFiniteSet(S) /\ s \notin D
  BY FS_AddElement DEF Proper, Segs
<1>2. \A T \in SUBSET S : Folded(T)
  BY <1>1, AllFolded
<1>3. ASSUME Bad # {} PROVE FALSE
  <2>1. PICK T \in Bad : \A x \in T : T \ {x} \notin Bad
    <3>1. Bad \subseteq SUBSET S
      OBVIOUS
    <3> HIDE DEF Bad
    <3> QED
      BY <1>1, <1>3, <3>1, LeastCounterexample
  <2>2. T \in SUBSET S /\ ~Kept(T)
    BY <2>1
  <2>3. T \subseteq Proper /\ T \subseteq Segs /\ IsFiniteSet(T) /\ T # {}
    BY <1>1, <2>2, FS_Subset
  <2> DEFINE m == Latest(T)
             R == T \ {m}
             old == Consolidation(R)
             parts == Consolidation(T)
  <2>4. m \in T /\ m \in Proper /\ \A t \in T : t = m \/ Before(t, m)
    BY <2>3, LatestExists
  <2>5. Kept(R)
    <3>1. R \notin Bad
      BY <2>1, <2>4
    <3> QED
      BY <2>2, <3>1
  <2>6. parts = Consolidated(old, m)
    BY <2>3, ConsolidationUnfolds
  <2>7. R \subseteq Segs /\ IsFiniteSet(R) /\ R \in SUBSET S
    BY <2>2, <2>3, FS_Subset
  <2> HIDE DEF m
  <2>8. /\ old \in Seq(Proper)
        /\ R # {} => /\ old[Len(old)][1] <= Latest(R)[1]
                     /\ old[Len(old)][2] = Latest(R)[2]
    BY <1>2, <2>7 DEF Folded
  <2>9. old # <<>> => R # {}
    BY <2>7, ConsolidationUnfolds
  <2>10. \A d \in R \ {s} : \A n \in Nat : Within(n, d) => \E i \in 1..Len(old) : Within(n, old[i])
    BY <2>5
  <2> SUFFICES ASSUME NEW d \in T \ {s}, NEW n \in Nat, Within(n, d)
               PROVE  \E i \in 1..Len(parts) : Within(n, parts[i])
    BY <2>2
  <2> HIDE DEF old, parts
  <2>11. Len(old) \in Nat /\ \A i \in 1..Len(old) : old[i] \in Proper
    BY <2>8
  <2>12. d = m \/ d \in R
    OBVIOUS
  <2>13. CASE old # <<>> /\ old[Len(old)][2] >= m[1]
    <3>1. /\ Len(parts) = Len(old)
          /\ \A i \in 1..(Len(old) - 1) : parts[i] = old[i]
          /\ parts[Len(old)] = <<old[Len(old)][1], m[2]>>
      BY <2>3, <2>4, <2>6, <2>8, <2>13, ProperParts, ConsolidatedIs
    <3>2. R # {} /\ Len(old) \in 1..Len(old)
      BY <2>8, <2>9, <2>13
    <3> DEFINE e == Latest(R)
               last == old[Len(old)]
    <3>3. e \in R /\ e \in Proper /\ Before(e, m) /\ last \in Proper
      <4>1. e \in R
        BY <2>7, <3>2, LatestExists
      <4> HIDE DEF e
      <4>2. e \in T /\ e # m
        BY <4>1
      <4> QED
        BY <2>3, <2>4, <2>11, <3>2, <4>1, <4>2
    <3>4. last[1] <= e[1] /\ last[2] = e[2]
      BY <2>8, <3>2
    <3> HIDE DEF e, last
    <3>5. CASE d = m
      <4>1. last[1] <= n /\ n < m[2]
        BY <2>4, <3>3, <3>4, <3>5 DEF Within, Before, Proper, Segs
      <4> QED
        BY <3>1, <3>2, <4>1 DEF Within, last
    <3>6. CASE d \in R
      <4>1. PICK j \in 1..Len(old) : Within(n, old[j])
        BY <2>10, <3>6
      <4>2. CASE j # Len(old)
        BY <2>11, <3>1, <4>1, <4>2
      <4>3. CASE j = Len(old)
        <5>1. last[1] <= n /\ n < e[2]
          BY <3>4, <4>1, <4>3 DEF Within, last
        <5>2. n < m[2]
          <6>1. CASE m = s
            <7>1. e \in D
              BY <1>1, <2>2, <3>3, <6>1
            <7>2. ~ (e[1] <= s[1] /\ s[2] <= e[2])
              BY <7>1
            <7> QED
              BY <2>4, <3>3, <5>1, <6>1, <7>2 DEF Before, Proper, Segs
          <6>2. CASE m # s
            <7>1. m \in D /\ d \in D /\ d # m /\ d \in Proper /\ Before(d, m)
              BY <1>1, <2>2, <2>4, <3>6, <6>2
            <7>2. d[2] < m[1] \/ m[2] < d[1]
              BY <7>1 DEF Separate
            <7> QED
              BY <2>4, <7>1, <7>2 DEF Within, Before, Proper, Segs
          <6> QED
            BY <6>1, <6>2
        <5>3. Within(n, parts[Len(old)])
          BY <3>1, <5>1, <5>2 DEF Within, last
        <5> QED
          BY <3>1, <3>2, <5>3
      <4> QED
        BY <4>2, <4>3
    <3> QED
      BY <2>12, <3>5, <3>6
  <2>14. CASE ~ (old # <<>> /\ old[Len(old)][2] >= m[1])
    <3>1. /\ Len(parts) = Len(old) + 1
          /\ \A i \in 1..Len(old) : parts[i] = old[i]
          /\ parts[Len(old) + 1] = m
      BY <2>3, <2>4, <2>6, <2>8, <2>14, ProperParts, ConsolidatedIs
    <3>2. CASE d = m
      <4>1. Len(old) + 1 \in 1..Len(parts)
        BY <2>11, <3>1
      <4> QED
        BY <3>1, <3>2, <4>1
    <3>3. CASE d \in R
      <4>1. PICK j \in 1..Len(old) : Within(n, old[j])
        BY <2>10, <3>3
      <4> QED
        BY <2>11, <3>1, <4>1
    <3> QED
      BY <2>12, <3>2, <3>3
  <2> QED
    BY <2>13, <2>14
<1>4. Kept(S)
  BY <1>3
<1>5. ASSUME NEW n \in Units(D) PROVE n \in Units(AddSegment(D, s))
  <2>1. PICK d \in D : n \in d[1]..(d[2] - 1)
    BY DEF Units
  <2>2. n \in Nat /\ Within(n, d) /\ d \in S \ {s}
    BY <1>1, <2>1 DEF Within, Proper, Segs
  <2>3. PICK i \in 1..Len(Consolidation(S)) : Within(n, Consolidation(S)[i])
    BY <1>4, <2>2
  <2>4. Consolidation(S) \in Seq(Proper)
    BY <1>2 DEF Folded
  <2> DEFINE part == Consolidation(S)[i]
  <2>5. part \in AddSegment(D, s) /\ part \in Proper
    <3>1. part \in ToSet(Consolidation(S))
      BY <2>3, <2>4, ProperParts, PartsOf
    <3>2. AddSegment(D, s) = ToSet(Consolidation(S))
      BY DEF AddSegment
    <3> HIDE DEF part, S
    <3>3. part \in Proper
      BY <2>3, <2>4 DEF part
    <3> QED
      BY <3>1, <3>2, <3>3
  <2>6. Within(n, part)
    BY <2>3
  <2> HIDE DEF part
  <2>7. n \in part[1]..(part[2] - 1)
    BY <2>2, <2>5, <2>6 DEF Within, Proper, Segs
  <2> QED
    BY <2>5, <2>7 DEF Units
<1> QED
  BY <1>5

-----------------------------------------------------------------------------
(* What getNextSegment() gives: a part of the file beside everything that  *)
(* is worked on, with a byte in its first block that is not done yet.      *)

IsNew(n, s, block, D) == Within(n, s) /\ n < s[1] + block /\ n \notin Units(D)

\* The end of a separate segment is not done.
LEMMA EndIsNew ==
    ASSUME NEW D, D \subseteq Proper, Separate(D), NEW d \in D
    PROVE  d[2] \notin Units(D)
<1> SUFFICES ASSUME NEW e \in D, d[2] \in e[1]..(e[2] - 1) PROVE FALSE
  BY DEF Units
<1>1. d = e \/ d[2] < e[1] \/ e[2] < d[1]
  BY DEF Separate
<1>2. d \in Proper /\ e \in Proper
  OBVIOUS
<1> QED
  BY <1>1, <1>2 DEF Proper, Segs

\* The CHOOSEs of SegmentedNext() find what they look for.
LEMMA SegmentedGives ==
    ASSUME NEW size \in Nat, NEW block, NEW wanted \in Nat, NEW dn, NEW busy,
           Length(SegmentedNext(size, block, wanted, dn, busy)) > 0
    PROVE  \E start \in 0..(size - 1), length \in 1..wanted :
               /\ Free(start, length, size, block, dn, busy)
               /\ SegmentedNext(size, block, wanted, dn, busy) =
                      <<start, Lesser(size, start + length)>>
<1> DEFINE starts == {n \in 0..(size - 1) : n % block = 0}
           lengths == {n \in 1..wanted : n % block = 0}
           open == {s \in starts : \E n \in lengths : Free(s, n, size, block, dn, busy)}
           start == CHOOSE s \in open : \A t \in open : s <= t
           fitting == {n \in lengths : Free(start, n, size, block, dn, busy)}
           length == CHOOSE n \in fitting : \A m \in fitting : m <= n
<1> HIDE DEF starts, lengths, open, start, fitting, length
<1>1. SegmentedNext(size, block, wanted, dn, busy) =
          IF open = {} THEN NoSegment ELSE <<start, Lesser(size, start + length)>>
  BY DEF SegmentedNext, starts, lengths, open, start, fitting, length
<1>2. open # {}
  BY <1>1 DEF NoSegment, Length
<1>3. start \in open
  <2>1. open \subseteq Nat
    BY DEF open, starts
  <2>2. \E s \in open : \A t \in open : s <= t
    BY <1>2, <2>1, LeastExists
  <2> QED
    BY <2>2 DEF start
<1>4. length \in fitting
  <2>1. fitting # {}
    BY <1>3 DEF open, fitting
  <2>2. fitting \subseteq 1..wanted
    BY DEF fitting, lengths
  <2>3. \E n \in fitting : \A m \in fitting : m <= n
    BY <2>1, <2>2, GreatestExists
  <2> QED
    BY <2>3 DEF length
<1>5. start \in 0..(size - 1)
  BY <1>3 DEF open, starts
<1>6. length \in 1..wanted /\ Free(start, length, size, block, dn, busy)
  BY <1>4 DEF fitting, lengths
<1> QED
  BY <1>1, <1>2, <1>5, <1>6

LEMMA SegmentedIsFree ==
    ASSUME NEW size \in Nat, NEW block, NEW wanted \in Nat, NEW dn, NEW busy,
           Length(SegmentedNext(size, block, wanted, dn, busy)) > 0
    PROVE  \A b \in busy : ~Overlaps(SegmentedNext(size, block, wanted, dn, busy), b)
<1>1. PICK start \in 0..(size - 1), length \in 1..wanted :
          /\ Free(start, length, size, block, dn, busy)
          /\ SegmentedNext(size, block, wanted, dn, busy) = <<start, Lesser(size, start + length)>>
  BY SegmentedGives
<1> QED
  BY <1>1 DEF Free

LEMMA SegmentedIsNew ==
    ASSUME NEW size \in Nat, NEW block \in Nat \ {0}, NEW wanted \in Nat, NEW busy,
           NEW D, D \subseteq Proper, Separate(D),
           Length(SegmentedNext(size, block, wanted, D, busy)) > 0
    PROVE  LET seg == SegmentedNext(size, block, wanted, D, busy) IN
           /\ seg \in Proper /\ seg[2] <= size
           /\ \E n \in Nat : IsNew(n, seg, block, D)
<1>1. PICK start \in 0..(size - 1), length \in 1..wanted :
          /\ Free(start, length, size, block, D, busy)
          /\ SegmentedNext(size, block, wanted, D, busy) = <<start, Lesser(size, start + length)>>
  BY SegmentedGives
<1> DEFINE end == Lesser(size, start + length)
           seg == <<start, end>>
<1>2. end \in Nat /\ start < end /\ end <= size /\ end <= start + length
  BY DEF Lesser
<1>3. /\ length <= block => \A d \in D : ~ (d[1] <= start /\ end <= d[2])
      /\ ~ (length <= block) => \A d \in D : ~Overlaps(<<start, end>>, d)
  BY <1>1 DEF Free
<1> HIDE DEF end
<1>4. \E n \in Nat : IsNew(n, seg, block, D)
  <2>1. CASE start \notin Units(D)
    BY <1>2, <2>1 DEF IsNew, Within
  <2>2. CASE start \in Units(D)
    <3>1. PICK d \in D : start \in d[1]..(d[2] - 1)
      BY <2>2 DEF Units
    <3>2. d[1] \in Nat /\ d[2] \in Nat /\ d[1] <= start /\ start < d[2]
      BY <3>1 DEF Proper, Segs
    <3>3. length <= block
      BY <1>2, <1>3, <3>2 DEF Overlaps
    <3>4. d[2] < end
      BY <1>2, <1>3, <3>2, <3>3
    <3>5. d[2] \notin Units(D)
      BY EndIsNew
    <3>6. d[2] < start + block
      BY <1>2, <3>2, <3>3, <3>4
    <3>7. IsNew(d[2], seg, block, D)
      BY <3>2, <3>4, <3>5, <3>6 DEF IsNew, Within
    <3> QED
      BY <3>2, <3>7
  <2> QED
    BY <2>1, <2>2
<1>5. seg \in Proper
  BY <1>2 DEF Proper, Segs
<1> QED
  BY <1>1, <1>2, <1>4, <1>5 DEF end

\* With single blocks it finds one that is free if there is one, and gives
\* nothing that is done.
LEMMA BlocksAreFree ==
    ASSUME NEW size \in Nat \ {0}, NEW wanted \in Nat \ {0}, NEW busy, NEW D, D \subseteq Segs
    PROVE  LET seg == SegmentedNext(size, 1, wanted, D, busy) IN
           /\ seg = NoSegment => \A n \in 0..(size - 1) : ~Free(n, 1, size, 1, D, busy)
           /\ seg # NoSegment => /\ seg \in Proper /\ seg[2] <= size
                                 /\ \A n \in Nat : Within(n, seg) => n \notin Units(D)
                                 /\ \A b \in busy : ~Overlaps(seg, b)
<1> DEFINE seg == SegmentedNext(size, 1, wanted, D, busy)
           starts == {n \in 0..(size - 1) : n % 1 = 0}
           lengths == {n \in 1..wanted : n % 1 = 0}
           open == {s \in starts : \E n \in lengths : Free(s, n, size, 1, D, busy)}
           start == CHOOSE s \in open : \A t \in open : s <= t
           fitting == {n \in lengths : Free(start, n, size, 1, D, busy)}
           length == CHOOSE n \in fitting : \A m \in fitting : m <= n
<1> HIDE DEF starts, lengths, open, start, fitting, length
<1>1. seg = IF open = {} THEN NoSegment ELSE <<start, Lesser(size, start + length)>>
  BY DEF SegmentedNext, starts, lengths, open, start, fitting, length
<1> HIDE DEF seg
<1>2. starts = 0..(size - 1) /\ lengths = 1..wanted
  <2>1. \A n \in Nat : n % 1 = 0
    OBVIOUS
  <2> QED
    BY <2>1 DEF starts, lengths
<1>3. ASSUME open # {}
      PROVE  /\ start \in 0..(size - 1) /\ length \in 1..wanted
             /\ Free(start, length, size, 1, D, busy)
  <2>1. open \subseteq Nat
    BY <1>2 DEF open
  <2>2. \E s \in open : \A t \in open : s <= t
    BY <1>3, <2>1, LeastExists
  <2>3. start \in open
    BY <2>2 DEF start
  <2>4. fitting # {} /\ fitting \subseteq 1..wanted
    BY <1>2, <2>3 DEF open, fitting
  <2>5. \E n \in fitting : \A m \in fitting : m <= n
    BY <2>4, GreatestExists
  <2>6. length \in fitting
    BY <2>5 DEF length
  <2> QED
    BY <1>2, <2>3, <2>6 DEF open, fitting
<1> DEFINE end == Lesser(size, start + length)
<1>4. ASSUME open # {}
      PROVE  seg = <<start, end>> /\ end \in Nat /\ start < end /\ end <= size /\ end <= start + length
  BY <1>1, <1>3, <1>4 DEF Lesser
<1> HIDE DEF end
<1>5. ASSUME seg = NoSegment, NEW n \in 0..(size - 1), Free(n, 1, size, 1, D, busy)
      PROVE  FALSE
  <2>1. 1 \in lengths /\ n \in starts
    BY <1>2
  <2>2. open # {}
    BY <1>5, <2>1 DEF open
  <2> QED
    BY <1>3, <1>4, <1>5, <2>2 DEF NoSegment
<1>6. ASSUME seg # NoSegment
      PROVE  /\ seg \in Proper /\ seg[2] <= size
             /\ \A n \in Nat : Within(n, seg) => n \notin Units(D)
             /\ \A b \in busy : ~Overlaps(seg, b)
  <2>1. open # {}
    BY <1>1, <1>6
  <2>2. /\ start \in Nat /\ length \in Nat \ {0} /\ end \in Nat /\ start < end /\ end <= size
        /\ end <= start + length /\ seg = <<start, end>> /\ Free(start, length, size, 1, D, busy)
    BY <1>3, <1>4, <2>1
  <2>3. /\ length <= 1 => \A d \in D : ~ (d[1] <= start /\ end <= d[2])
        /\ ~ (length <= 1) => \A d \in D : ~Overlaps(<<start, end>>, d)
        /\ \A b \in busy : ~Overlaps(<<start, end>>, b)
    BY <2>2 DEF Free, end
  <2>4. seg \in Proper /\ seg[2] <= size /\ \A b \in busy : ~Overlaps(seg, b)
    BY <2>2, <2>3 DEF Proper, Segs
  <2>5. ASSUME NEW n \in Nat, Within(n, seg), NEW d \in D, n \in d[1]..(d[2] - 1) PROVE FALSE
    <3>1. start <= n /\ n < end /\ d[1] \in Nat /\ d[2] \in Nat /\ d[1] <= n /\ n < d[2]
      BY <2>2, <2>5 DEF Within, Segs
    <3>2. CASE length <= 1
      <4>1. n = start /\ end = start + 1
        BY <2>2, <3>1, <3>2
      <4> QED
        BY <2>3, <3>1, <3>2, <4>1
    <3>3. CASE ~ (length <= 1)
      BY <2>2, <2>3, <3>1, <3>3 DEF Overlaps
    <3> QED
      BY <3>2, <3>3
  <2> QED
    BY <2>4, <2>5 DEF Units
<1> QED
  BY <1>5, <1>6 DEF seg

\* Without segments a second download gets nothing at all.
LEMMA SingleIsFree ==
    ASSUME NEW size, NEW block, NEW dn, NEW busy,
           Length(SingleNext(size, block, dn, busy)) > 0
    PROVE  busy = {}
BY DEF SingleNext, NoSegment, Length

LEMMA Rounding ==
    ASSUME NEW n \in Nat, NEW block \in Nat \ {0}
    PROVE  /\ RoundDown(n, block) \in Nat /\ RoundDown(n, block) <= n
           /\ n < RoundDown(n, block) + block
           /\ RoundUp(n, block) \in Nat /\ n <= RoundUp(n, block)
           /\ RoundDown(n, block) > 0 => RoundDown(n, block) >= block
<1>1. n % block \in 0..(block - 1) /\ n % block <= n
  OBVIOUS
<1>2. (n + block - 1) % block \in 0..(block - 1) /\ (n + block - 1) % block <= n + block - 1
  <2>1. n + block - 1 \in Nat
    OBVIOUS
  <2> QED
    BY <2>1
<1>3. n - (n % block) > 0 => n - (n % block) >= block
  OBVIOUS
<1> QED
  BY <1>1, <1>2, <1>3 DEF RoundDown, RoundUp

LEMMA EarliestExists ==
    ASSUME NEW S, S \subseteq Segs, S # {}
    PROVE  /\ Earliest(S) \in S
           /\ \A t \in S : t = Earliest(S) \/ Before(Earliest(S), t)
<1> DEFINE Starts == {s[1] : s \in S}
<1>1. PICK a \in Starts : \A x \in Starts : a <= x
  <2>1. Starts \subseteq Nat /\ Starts # {}
    BY DEF Segs
  <2> HIDE DEF Starts
  <2> QED
    BY <2>1, LeastExists
<1> DEFINE First == {s \in S : s[1] = a}
           Ends == {s[2] : s \in First}
<1>2. PICK b \in Ends : \A x \in Ends : b <= x
  <2>1. Ends \subseteq Nat /\ Ends # {}
    BY <1>1 DEF Segs
  <2> HIDE DEF Ends
  <2> QED
    BY <2>1, LeastExists
<1>3. PICK s \in S : s[1] = a /\ s[2] = b
  BY <1>2
<1>4. ASSUME NEW t \in S, t # s PROVE Before(s, t)
  <2>1. t = <<t[1], t[2]>> /\ s = <<s[1], s[2]>> /\ t[1] \in Nat /\ s[1] \in Nat
        /\ t[2] \in Nat /\ s[2] \in Nat
    BY DEF Segs
  <2>2. a <= t[1]
    BY <1>1
  <2>3. t[1] = a => b <= t[2]
    BY <1>2
  <2> QED
    BY <1>3, <1>4, <2>1, <2>2, <2>3 DEF Before
<1>5. \E m \in S : \A t \in S : t = m \/ Before(m, t)
  BY <1>4
<1> QED
  BY <1>5 DEF Earliest

LEMMA SingleIsNew ==
    ASSUME NEW size \in Nat \ {0}, NEW block \in Nat \ {0}, NEW busy,
           NEW D, D \subseteq Proper, Separate(D), \A d \in D : d[2] <= size,
           ~IsFinished(D, size), Length(SingleNext(size, block, D, busy)) > 0
    PROVE  LET seg == SingleNext(size, block, D, busy) IN
           /\ seg \in Proper /\ seg[2] <= size
           /\ \E n \in Nat : IsNew(n, seg, block, D)
<1> DEFINE seg == SingleNext(size, block, D, busy)
           first == Earliest(D)
           later == D \ {first}
           gap == CASE D = {} -> <<0, size>>
                    [] D # {} /\ first[1] > 0 -> <<0, RoundUp(first[1], block)>>
                    [] OTHER -> <<RoundDown(first[2], block),
                                  IF later # {} THEN RoundUp(Earliest(later)[1], block)
                                                ELSE size>>
<1>1. seg = <<gap[1], Lesser(size, gap[2])>>
  BY SingleIsFree DEF SingleNext
<1>2. D \subseteq Segs
  BY DEF Proper
<1>3. CASE D = {}
  <2>1. seg = <<0, size>>
    BY <1>1, <1>3 DEF Lesser
  <2>2. 0 \notin Units(D)
    BY <1>3 DEF Units
  <2> HIDE DEF seg
  <2>3. seg \in Proper /\ seg[2] <= size /\ IsNew(0, seg, block, D)
    BY <2>1, <2>2 DEF IsNew, Within, Proper, Segs
  <2> QED
    BY <2>3 DEF seg
<1>4. ASSUME D # {}
      PROVE  /\ first \in D /\ first[1] \in Nat /\ first[2] \in Nat /\ first[1] < first[2]
             /\ first[2] <= size
             /\ \A d \in D : first[1] <= d[1]
  <2>1. first \in D /\ \A t \in D : t = first \/ Before(first, t)
    BY <1>2, <1>4, EarliestExists
  <2> HIDE DEF first
  <2>2. first[1] \in Nat /\ first[2] \in Nat /\ first[1] < first[2] /\ first[2] <= size
    BY <2>1 DEF Proper, Segs
  <2>3. ASSUME NEW d \in D PROVE first[1] <= d[1]
    <3>1. d[1] \in Nat /\ (d = first \/ Before(first, d))
      BY <1>2, <2>1 DEF Segs
    <3> QED
      BY <2>2, <3>1 DEF Before
  <2> QED
    BY <2>1, <2>2, <2>3
<1> HIDE DEF first, later
<1>5. CASE D # {} /\ first[1] > 0
  <2>1. gap = <<0, RoundUp(first[1], block)>>
    BY <1>5
  <2>2. RoundUp(first[1], block) \in Nat /\ first[1] <= RoundUp(first[1], block)
    BY <1>4, <1>5, Rounding
  <2>3. /\ seg[1] = 0 /\ seg[2] = Lesser(size, RoundUp(first[1], block))
        /\ seg = <<seg[1], seg[2]>>
    BY <1>1, <2>1
  <2>4. seg[2] \in Nat /\ 0 < seg[2] /\ seg[2] <= size
    BY <1>4, <1>5, <2>2, <2>3 DEF Lesser
  <2>5. 0 \notin Units(D)
    <3> SUFFICES ASSUME NEW d \in D, 0 \in d[1]..(d[2] - 1) PROVE FALSE
      BY DEF Units
    <3>1. first[1] <= d[1] /\ d \in Proper
      BY <1>4, <1>5
    <3> QED
      BY <1>4, <1>5, <3>1 DEF Proper, Segs
  <2> HIDE DEF seg, gap
  <2>6. seg \in Proper /\ IsNew(0, seg, block, D)
    BY <2>3, <2>4, <2>5 DEF IsNew, Within, Proper, Segs
  <2> QED
    BY <2>4, <2>6 DEF seg
<1>6. CASE D # {} /\ ~ (first[1] > 0)
  <2> DEFINE from == RoundDown(first[2], block)
             to == IF later # {} THEN RoundUp(Earliest(later)[1], block) ELSE size
  <2>1. gap = <<from, to>>
    BY <1>6
  <2>2. first[1] = 0 /\ first \in D
    BY <1>4, <1>6
  <2>3. from \in Nat /\ from <= first[2] /\ first[2] < from + block
    BY <1>4, <1>6, Rounding
  <2>4. to \in Nat /\ first[2] < to /\ first[2] < size
    <3>1. CASE later # {}
      <4> DEFINE e == Earliest(later)
      <4>1. e \in later
        <5>1. later \subseteq Segs
          BY <1>2 DEF later
        <5> QED
          BY <3>1, <5>1, EarliestExists
      <4> HIDE DEF e
      <4>2. e \in D /\ e # first /\ e \in Proper
        BY <4>1 DEF later
      <4>3. e[1] \in Nat /\ e[2] \in Nat /\ e[1] < e[2] /\ e[2] <= size
        BY <4>2 DEF Proper, Segs
      <4>4. first[2] < e[1]
        <5>1. first[2] < e[1] \/ e[2] < first[1]
          BY <2>2, <4>2 DEF Separate
        <5> QED
          BY <2>2, <4>3, <5>1
      <4>5. RoundUp(e[1], block) \in Nat /\ e[1] <= RoundUp(e[1], block)
        BY <4>3, Rounding
      <4>6. to = RoundUp(e[1], block)
        BY <3>1 DEF e
      <4> HIDE DEF to
      <4> QED
        BY <1>4, <1>6, <4>3, <4>4, <4>5, <4>6
    <3>2. CASE later = {}
      <4>1. D = {first}
        BY <2>2, <3>2 DEF later
      <4>2. first = <<first[1], first[2]>>
        BY <1>2, <2>2 DEF Segs
      <4>3. first[2] # size
        BY <2>2, <4>1, <4>2 DEF IsFinished
      <4> QED
        BY <1>4, <1>6, <3>2, <4>3
    <3> QED
      BY <3>1, <3>2
  <2>5. first[2] \notin Units(D)
    BY <2>2, EndIsNew
  <2> HIDE DEF from, to
  <2>6. seg = <<from, Lesser(size, to)>>
    BY <1>1, <2>1
  <2> HIDE DEF seg, gap
  <2>7. Lesser(size, to) \in Nat /\ first[2] < Lesser(size, to) /\ Lesser(size, to) <= size
    BY <2>4, <1>4, <1>6 DEF Lesser
  <2>8. from < Lesser(size, to)
    BY <1>4, <1>6, <2>3, <2>7
  <2>9. seg \in Proper /\ seg[2] <= size /\ IsNew(first[2], seg, block, D)
    BY <2>3, <2>5, <2>6, <2>7, <2>8 DEF IsNew, Within, Proper, Segs
  <2> QED
    BY <1>4, <1>6, <2>9 DEF seg
<1> QED
  BY <1>3, <1>5, <1>6

-----------------------------------------------------------------------------
(* The inductive invariant.                                                *)

\* The segments that are done are separate, and in the file.
Item ==
    /\ done \subseteq Ranges /\ IsFiniteSet(done) /\ Separate(done)
    /\ stored \subseteq File /\ Units(done) \subseteq stored

\* What a connection has got is in the file, and the first block of what it
\* was given holds a byte that is not done.
Works(d) ==
    /\ flight[d] \in [seg : Ranges, block : {TreeBlock, Size}, pos : Nat]
    /\ flight[d].pos <= Length(flight[d].seg)
    /\ \A n \in Nat : flight[d].seg[1] <= n /\ n < flight[d].seg[1] + flight[d].pos => n \in stored
    /\ \E n \in Nat : IsNew(n, flight[d].seg, flight[d].block, done)

Inv ==
    /\ Item /\ {hasTree, segmented} \subseteq BOOLEAN
    /\ DOMAIN flight \subseteq Downloaders /\ \A d \in DOMAIN flight : Works(d)
    /\ NoByteTwice

LEMMA RangesAre ==
    /\ Size \in Nat \ {0} /\ Ranges \subseteq Proper
    /\ \A s \in Ranges : s[2] <= Size
    /\ \A s \in Proper : s[2] <= Size => s \in Ranges
BY QueueItemAssumption DEF Ranges, File, Proper, Segs

LEMMA InvTyped == Inv => TypeOK
<1> SUFFICES ASSUME Inv PROVE TypeOK
  OBVIOUS
<1>1. ASSUME NEW d \in DOMAIN flight
      PROVE  /\ flight[d].seg \in Ranges /\ flight[d].block \in {TreeBlock, Size}
             /\ flight[d].pos \in 0..Length(flight[d].seg)
  <2>1. /\ flight[d].seg \in Ranges /\ flight[d].block \in {TreeBlock, Size}
        /\ flight[d].pos \in Nat /\ flight[d].pos <= Length(flight[d].seg)
    BY DEF Inv, Works
  <2>2. Length(flight[d].seg) \in Nat
    BY <2>1, RangesAre DEF Length, Proper, Segs
  <2> QED
    BY <2>1, <2>2
<1> QED
  BY <1>1 DEF Inv, Item, TypeOK

LEMMA InitHolds == Init => Inv
<1> SUFFICES ASSUME Init PROVE Inv
  OBVIOUS
<1>1. PICK n \in 0..(Size - 1) : /\ done = IF n = 0 THEN {} ELSE {<<0, n>>}
                                 /\ stored = 0..(n - 1)
  BY DEF Init
<1>2. n \in Nat /\ n < Size /\ Size \in Nat \ {0}
  BY RangesAre
<1>3. IsFiniteSet(done)
  BY <1>1, FS_EmptySet, FS_Singleton
<1>4. done \subseteq Ranges
  BY <1>1, <1>2 DEF Ranges, File
<1>5. Units(done) \subseteq stored
  BY <1>1, <1>2 DEF Units
<1>6. stored \subseteq File /\ Separate(done)
  BY <1>1, <1>2 DEF File, Separate
<1>7. {hasTree, segmented} \subseteq BOOLEAN
  BY Zenon DEF Init
<1>8. DOMAIN flight = {}
  BY DEF Init
<1> QED
  BY <1>3, <1>4, <1>5, <1>6, <1>7, <1>8 DEF Inv, Item, NoByteTwice

-----------------------------------------------------------------------------
(* The steps.                                                              *)

LEMMA NextIsFree ==
    ASSUME NEW wanted \in Nat, Length(getNextSegment(wanted)) > 0
    PROVE  \A b \in Busy : ~Overlaps(getNextSegment(wanted), b)
<1>1. CASE segmented
  BY <1>1, SegmentedIsFree, QueueItemAssumption DEF getNextSegment
<1>2. CASE ~segmented
  BY <1>2, SingleIsFree DEF getNextSegment
<1> QED
  BY <1>1, <1>2

LEMMA NextIsNew ==
    ASSUME Inv, ~IsFinished(done, Size),
           NEW wanted \in Nat, Length(getNextSegment(wanted)) > 0
    PROVE  /\ getNextSegment(wanted) \in Ranges
           /\ \E n \in Nat : IsNew(n, getNextSegment(wanted), Block, done)
<1>1. Block \in Nat \ {0}
  BY QueueItemAssumption DEF Block
<1>2. done \subseteq Proper /\ Separate(done) /\ \A d \in done : d[2] <= Size
  BY RangesAre DEF Inv, Item
<1>3. CASE segmented
  <2>1. getNextSegment(wanted) = SegmentedNext(Size, Block, wanted, done, Busy)
    BY <1>3 DEF getNextSegment
  <2> QED
    BY <1>1, <1>2, <2>1, SegmentedIsNew, RangesAre
<1>4. CASE ~segmented
  <2>1. getNextSegment(wanted) = SingleNext(Size, Block, done, Busy)
    BY <1>4 DEF getNextSegment
  <2> QED
    BY <1>1, <1>2, <2>1, SingleIsNew, RangesAre
<1> QED
  BY <1>3, <1>4

LEMMA StartKeeps == ASSUME Inv, NEW d \in Downloaders, Start(d) PROVE Inv'
<1>1. PICK k \in Chunks :
          LET seg == getNextSegment(IF hasTree THEN k * Block ELSE Block) IN
          /\ Length(seg) > 0
          /\ flight' = [e \in DOMAIN flight \cup {d} |->
                           IF e = d THEN [seg |-> seg, block |-> Block, pos |-> 0] ELSE flight[e]]
  BY DEF Start
<1> DEFINE seg == getNextSegment(IF hasTree THEN k * Block ELSE Block)
<1>2. Block \in Nat /\ Block \in {TreeBlock, Size}
  BY QueueItemAssumption DEF Block
<1>3. (IF hasTree THEN k * Block ELSE Block) \in Nat
  BY <1>2, QueueItemAssumption
<1>4. \A b \in Busy : ~Overlaps(seg, b)
  BY <1>1, <1>3, NextIsFree
<1>5. seg \in Ranges /\ \E n \in Nat : IsNew(n, seg, Block, done)
  BY <1>1, <1>3, NextIsNew DEF Start
<1> HIDE DEF seg
<1>6. flight' = [e \in DOMAIN flight \cup {d} |->
                    IF e = d THEN [seg |-> seg, block |-> Block, pos |-> 0] ELSE flight[e]]
  BY <1>1 DEF seg
<1>7. d \notin DOMAIN flight /\ UNCHANGED <<done, stored, hasTree, segmented>>
  BY DEF Start, config
<1>8. /\ DOMAIN flight' = DOMAIN flight \cup {d}
      /\ flight'[d] = [seg |-> seg, block |-> Block, pos |-> 0]
      /\ \A e \in DOMAIN flight : flight'[e] = flight[e]
  BY <1>6, <1>7
<1>9. flight'[d].seg = seg /\ flight'[d].block = Block /\ flight'[d].pos = 0
  BY <1>8
<1>10. Works(d)'
  <2>1. seg[1] \in Nat /\ 0 <= Length(seg)
    BY <1>5, RangesAre DEF Length, Proper, Segs
  <2>2. flight'[d] \in [seg : Ranges, block : {TreeBlock, Size}, pos : Nat]
    BY <1>2, <1>5, <1>8
  <2>3. \E n \in Nat : IsNew(n, seg, Block, done')
    BY <1>5, <1>7
  <2>4. \A n \in Nat : ~ (seg[1] <= n /\ n < seg[1] + 0)
    BY <2>1
  <2> QED
    BY <1>9, <2>1, <2>2, <2>3, <2>4 DEF Works
<1>11. ASSUME NEW e \in DOMAIN flight PROVE Works(e)'
  BY <1>7, <1>8 DEF Inv, Works, IsNew, Within, Units
<1>12. NoByteTwice'
  <2>1. ASSUME NEW e \in DOMAIN flight
        PROVE  ~Overlaps(seg, flight[e].seg) /\ ~Overlaps(flight[e].seg, seg)
    BY <1>4, <2>1 DEF Busy, Overlaps
  <2> QED
    BY <1>8, <1>9, <2>1 DEF Inv, NoByteTwice
<1>13. Item'
  BY <1>7 DEF Inv, Item, Units
<1>14. ({hasTree, segmented} \subseteq BOOLEAN)'
  BY <1>7 DEF Inv
<1> QED
  BY <1>8, <1>10, <1>11, <1>12, <1>13, <1>14 DEF Inv

LEMMA DataKeeps == ASSUME Inv, NEW d \in Downloaders, Data(d) PROVE Inv'
<1>1. /\ d \in DOMAIN flight /\ flight[d].pos < Length(flight[d].seg)
      /\ stored' = stored \cup {flight[d].seg[1] + flight[d].pos}
      /\ flight' = [flight EXCEPT ![d].pos = @ + 1]
      /\ UNCHANGED <<done, hasTree, segmented>>
  BY DEF Data, config
<1>2. \A e \in DOMAIN flight : flight[e] \in [seg : Ranges, block : {TreeBlock, Size}, pos : Nat]
  BY DEF Inv, Works
<1>3. /\ DOMAIN flight' = DOMAIN flight
      /\ \A e \in DOMAIN flight \ {d} : flight'[e] = flight[e]
      /\ flight'[d] = [flight[d] EXCEPT !.pos = @ + 1]
  BY <1>1
<1>4. /\ flight'[d].seg = flight[d].seg /\ flight'[d].block = flight[d].block
      /\ flight'[d].pos = flight[d].pos + 1
      /\ flight'[d] \in [seg : Ranges, block : {TreeBlock, Size}, pos : Nat]
  BY <1>1, <1>2, <1>3
<1>5. flight[d].seg \in Ranges /\ flight[d].pos \in Nat
  BY <1>1, <1>2
<1>6. /\ flight[d].seg[1] \in Nat /\ flight[d].seg[2] \in Nat /\ flight[d].seg[2] <= Size
      /\ Length(flight[d].seg) = flight[d].seg[2] - flight[d].seg[1]
  BY <1>5, RangesAre DEF Length, Proper, Segs
<1>7. Works(d)'
  <2>1. flight[d].pos + 1 <= Length(flight[d].seg)
    BY <1>1, <1>5, <1>6
  <2>2. ASSUME NEW n \in Nat, flight[d].seg[1] <= n, n < flight[d].seg[1] + (flight[d].pos + 1)
        PROVE  n \in stored'
    <3>1. n = flight[d].seg[1] + flight[d].pos \/ n < flight[d].seg[1] + flight[d].pos
      BY <1>5, <1>6, <2>2
    <3> QED
      BY <1>1, <2>2, <3>1 DEF Inv, Works
  <2>3. \E n \in Nat : IsNew(n, flight[d].seg, flight[d].block, done')
    BY <1>1 DEF Inv, Works
  <2> QED
    BY <1>4, <2>1, <2>2, <2>3 DEF Works
<1>8. ASSUME NEW e \in DOMAIN flight, e # d PROVE Works(e)'
  <2>1. flight'[e] = flight[e] /\ Works(e)
    BY <1>3, <1>8 DEF Inv
  <2> QED
    BY <1>1, <2>1 DEF Works, IsNew, Within, Units
<1>9. \A e \in DOMAIN flight : flight'[e].seg = flight[e].seg
  BY <1>3, <1>4
<1>10. Item'
  <2>1. flight[d].seg[1] + flight[d].pos \in File
    BY <1>1, <1>5, <1>6, RangesAre DEF File
  <2> QED
    BY <1>1, <2>1 DEF Inv, Item, Units
<1>11. ({hasTree, segmented} \subseteq BOOLEAN)'
  BY <1>1 DEF Inv
<1>12. NoByteTwice'
  BY <1>3, <1>9 DEF Inv, NoByteTwice
<1>13. DOMAIN flight' \subseteq Downloaders /\ \A e \in DOMAIN flight' : Works(e)'
  BY <1>3, <1>7, <1>8 DEF Inv
<1> QED
  BY <1>10, <1>11, <1>12, <1>13 DEF Inv

\* A connection that is through leaves the others what they have; `s` is what
\* it reports, the front of what it was given or nothing.
LEMMA LeavingKeeps ==
    ASSUME Inv, NEW d \in DOMAIN flight, flight' = Without(d),
           UNCHANGED <<stored, hasTree, segmented>>,
           \/ done' = done
           \/ \E s \in Proper : /\ done' = AddSegment(done, s)
                                /\ s[1] = flight[d].seg[1] /\ s[2] <= s[1] + flight[d].pos
                                /\ \/ flight[d].block <= s[2] - s[1]
                                   \/ s[2] = flight[d].seg[2]
    PROVE  Inv' /\ Units(done) \subseteq Units(done')
<1>1. /\ DOMAIN flight' = DOMAIN flight \ {d}
      /\ \A e \in DOMAIN flight \ {d} : flight'[e] = flight[e]
  BY DEF Without
<1>2. NoByteTwice'
  BY <1>1 DEF Inv, NoByteTwice
<1>3. ({hasTree, segmented} \subseteq BOOLEAN)'
  BY DEF Inv
<1>4. CASE done' = done
  <2>1. Item' /\ Units(done) \subseteq Units(done')
    BY <1>4 DEF Inv, Item, Units
  <2>2. \A e \in DOMAIN flight' : Works(e)'
    BY <1>1, <1>4 DEF Inv, Works, IsNew, Within, Units
  <2> QED
    BY <1>1, <1>2, <1>3, <2>1, <2>2 DEF Inv
<1>5. ASSUME NEW s \in Proper, done' = AddSegment(done, s),
             s[1] = flight[d].seg[1], s[2] <= s[1] + flight[d].pos,
             flight[d].block <= s[2] - s[1] \/ s[2] = flight[d].seg[2]
      PROVE  Inv' /\ Units(done) \subseteq Units(done')
  <2>1. /\ flight[d].seg \in Ranges /\ flight[d].block \in Nat /\ flight[d].pos \in Nat
        /\ flight[d].pos <= Length(flight[d].seg)
    BY QueueItemAssumption DEF Inv, Works
  <2>2. /\ flight[d].seg[1] \in Nat /\ flight[d].seg[2] \in Nat /\ flight[d].seg[2] <= Size
        /\ Length(flight[d].seg) = flight[d].seg[2] - flight[d].seg[1]
        /\ s[1] \in Nat /\ s[2] \in Nat /\ s[1] < s[2]
    BY <2>1, RangesAre DEF Length, Proper, Segs
  <2>3. s[2] <= flight[d].seg[2]
    BY <1>5, <2>1, <2>2
  <2>4. done \subseteq Proper /\ IsFiniteSet(done) /\ Separate(done)
    BY RangesAre DEF Inv, Item
  <2>5. /\ done' \subseteq Proper /\ IsFiniteSet(done') /\ Separate(done')
        /\ Units(done') \subseteq Units(done \cup {s})
    <3>1. done \subseteq Segs /\ s \in Segs
      BY <2>4 DEF Proper
    <3> QED
      BY <1>5, <2>4, <3>1, Added, AddedSeparate
  <2>6. ASSUME NEW n \in Units(done') PROVE n \in stored
    <3>1. n \in Units(done) \/ n \in s[1]..(s[2] - 1)
      BY <2>5, <2>6 DEF Units
    <3>2. CASE n \in s[1]..(s[2] - 1)
      <4>1. n \in Nat /\ flight[d].seg[1] <= n /\ n < flight[d].seg[1] + flight[d].pos
        BY <1>5, <2>1, <2>2, <3>2
      <4> QED
        BY <4>1 DEF Inv, Works
    <3> QED
      BY <3>1, <3>2 DEF Inv, Item
  <2>7. done' \subseteq Ranges
    <3> SUFFICES ASSUME NEW a \in done' PROVE a \in Ranges
      OBVIOUS
    <3>1. a \in Proper /\ a[1] \in Nat /\ a[2] \in Nat /\ a[1] < a[2]
      BY <2>5 DEF Proper, Segs
    <3>2. a[2] - 1 \in Units(done')
      BY <3>1 DEF Units
    <3>3. a[2] - 1 \in File
      BY <2>6, <3>2 DEF Inv, Item
    <3> QED
      BY <3>1, <3>3, RangesAre DEF File
  <2>8. Item'
    BY <2>5, <2>6, <2>7 DEF Inv, Item
  <2>9. PICK n \in Nat : IsNew(n, flight[d].seg, flight[d].block, done)
    BY DEF Inv, Works
  <2>10. Units(done) \subseteq Units(done')
    <3>1. Within(n, s)
      BY <1>5, <2>1, <2>2, <2>9 DEF IsNew, Within
    <3>2. ASSUME NEW c \in done, c[1] <= s[1], s[2] <= c[2] PROVE FALSE
      <4>1. c[1] \in Nat /\ c[2] \in Nat
        BY <2>4 DEF Proper, Segs
      <4>2. n \in c[1]..(c[2] - 1)
        BY <2>2, <3>1, <3>2, <4>1 DEF Within
      <4> QED
        BY <2>9, <4>2 DEF IsNew, Units
    <3> QED
      BY <1>5, <2>4, <3>2, NoneLost
  <2>11. ASSUME NEW e \in DOMAIN flight, e # d PROVE Works(e)'
    <3>1. flight'[e] = flight[e] /\ Works(e)
      BY <1>1, <2>11 DEF Inv
    <3>2. PICK k \in Nat : IsNew(k, flight[e].seg, flight[e].block, done)
      BY <3>1 DEF Works
    <3>3. ~Overlaps(flight[d].seg, flight[e].seg)
      BY <2>11 DEF Inv, NoByteTwice
    <3>4. flight[e].seg[1] \in Nat /\ flight[e].seg[2] \in Nat
      BY <3>1, RangesAre DEF Works, Proper, Segs
    <3>5. k \notin s[1]..(s[2] - 1)
      <4> SUFFICES ASSUME k \in s[1]..(s[2] - 1) PROVE FALSE
        OBVIOUS
      <4>1. s[1] <= k /\ k < s[2] /\ flight[e].seg[1] <= k /\ k < flight[e].seg[2]
        BY <2>2, <3>2 DEF IsNew, Within
      <4>2. flight[d].seg[1] < flight[e].seg[2] /\ flight[e].seg[1] < flight[d].seg[2]
        BY <1>5, <2>2, <2>3, <3>4, <4>1
      <4> QED
        BY <3>3, <4>2 DEF Overlaps
    <3>6. k \notin Units(done')
      BY <2>5, <3>2, <3>5 DEF IsNew, Units
    <3>7. IsNew(k, flight[e].seg, flight[e].block, done')
      BY <3>2, <3>6 DEF IsNew
    <3> QED
      BY <3>1, <3>7 DEF Works
  <2>12. DOMAIN flight' \subseteq Downloaders /\ \A e \in DOMAIN flight' : Works(e)'
    BY <1>1, <2>11 DEF Inv
  <2> QED
    BY <1>2, <1>3, <2>8, <2>10, <2>12 DEF Inv
<1> QED
  BY <1>4, <1>5

LEMMA FinishKeeps ==
    ASSUME Inv, NEW d \in Downloaders, Finish(d)
    PROVE  Inv' /\ Units(done) \subseteq Units(done')
<1>1. /\ d \in DOMAIN flight /\ flight[d].pos = Length(flight[d].seg)
      /\ done' = AddSegment(done, flight[d].seg) /\ flight' = Without(d)
      /\ UNCHANGED <<stored, hasTree, segmented>>
  BY DEF Finish, config
<1>2. flight[d].seg \in Proper
  BY <1>1, RangesAre DEF Inv, Works
<1>3. flight[d].seg[2] <= flight[d].seg[1] + flight[d].pos
  BY <1>1, <1>2 DEF Length, Proper, Segs
<1> QED
  BY <1>1, <1>2, <1>3, LeavingKeeps

LEMMA FailKeeps ==
    ASSUME Inv, NEW d \in Downloaders, Fail(d)
    PROVE  Inv' /\ Units(done) \subseteq Units(done')
<1> DEFINE f == flight[d]
           downloaded == RoundDown(f.pos, f.block)
           s == <<f.seg[1], f.seg[1] + downloaded>>
<1>1. /\ d \in DOMAIN flight /\ flight' = Without(d)
      /\ done' = IF downloaded > 0 THEN AddSegment(done, s) ELSE done
      /\ UNCHANGED <<stored, hasTree, segmented>>
  BY DEF Fail, config
<1>2. f.pos \in Nat /\ f.block \in Nat \ {0} /\ f.seg[1] \in Nat
  BY <1>1, RangesAre, QueueItemAssumption DEF Inv, Works, Proper, Segs
<1>3. /\ downloaded \in Nat /\ downloaded <= f.pos
      /\ downloaded > 0 => downloaded >= f.block
  BY <1>2, Rounding
<1> HIDE DEF downloaded
<1>4. CASE downloaded > 0
  <2>1. s \in Proper /\ s[1] = f.seg[1] /\ s[2] <= s[1] + f.pos /\ f.block <= s[2] - s[1]
    BY <1>2, <1>3, <1>4 DEF Proper, Segs
  <2>2. done' = AddSegment(done, s)
    BY <1>1, <1>4
  <2> QED
    BY <1>1, <2>1, <2>2, LeavingKeeps
<1>5. CASE ~ (downloaded > 0)
  BY <1>1, <1>5, LeavingKeeps
<1> QED
  BY <1>4, <1>5

\* The tree and the setting matter only to the segment that is given next.
LEMMA OthersKeep ==
    ASSUME Inv, UNCHANGED <<done, flight, stored>>, ({hasTree, segmented} \subseteq BOOLEAN)'
    PROVE  Inv'
<1>1. Item'
  BY DEF Inv, Item, Units
<1>2. NoByteTwice'
  BY DEF Inv, NoByteTwice
<1>3. DOMAIN flight' \subseteq Downloaders /\ \A d \in DOMAIN flight' : Works(d)'
  BY DEF Inv, Works, IsNew, Within, Units
<1> QED
  BY <1>1, <1>2, <1>3 DEF Inv

LEMMA Step == Inv /\ [Next]_vars => Inv' /\ Units(done) \subseteq Units(done')
<1> SUFFICES ASSUME Inv, [Next]_vars PROVE Inv' /\ Units(done) \subseteq Units(done')
  OBVIOUS
<1>1. ASSUME NEW d \in Downloaders, Start(d) PROVE Inv' /\ Units(done) \subseteq Units(done')
  <2>1. done' = done
    BY <1>1 DEF Start
  <2> QED
    BY <1>1, <2>1, StartKeeps
<1>2. ASSUME NEW d \in Downloaders, Data(d) PROVE Inv' /\ Units(done) \subseteq Units(done')
  <2>1. done' = done
    BY <1>2 DEF Data
  <2> QED
    BY <1>2, <2>1, DataKeeps
<1>3. ASSUME NEW d \in Downloaders, Finish(d) PROVE Inv' /\ Units(done) \subseteq Units(done')
  BY <1>3, FinishKeeps
<1>4. ASSUME NEW d \in Downloaders, Fail(d) PROVE Inv' /\ Units(done) \subseteq Units(done')
  BY <1>4, FailKeeps
<1>5. ASSUME UNCHANGED <<done, flight, stored>>, ({hasTree, segmented} \subseteq BOOLEAN)'
      PROVE  Inv' /\ Units(done) \subseteq Units(done')
  <2>1. done' = done
    BY <1>5
  <2> QED
    BY <1>5, <2>1, OthersKeep
<1>6. {hasTree, segmented} \subseteq BOOLEAN
  BY DEF Inv
<1>7. CASE TreeArrives \/ TreeVanishes
  <2>1. UNCHANGED <<done, flight, stored>> /\ hasTree' \in BOOLEAN /\ segmented' = segmented
    BY <1>7, Zenon DEF TreeArrives, TreeVanishes
  <2>2. ({hasTree, segmented} \subseteq BOOLEAN)'
    BY <1>6, <2>1, Zenon
  <2> QED
    BY <1>5, <2>1, <2>2
<1>8. CASE ChangeSetting
  <2>1. UNCHANGED <<done, flight, stored>> /\ segmented' \in BOOLEAN /\ hasTree' = hasTree
    BY <1>8, Zenon DEF ChangeSetting
  <2>2. ({hasTree, segmented} \subseteq BOOLEAN)'
    BY <1>6, <2>1, Zenon
  <2> QED
    BY <1>5, <2>1, <2>2
<1>9. CASE UNCHANGED vars
  <2>1. UNCHANGED <<done, flight, stored>> /\ hasTree' = hasTree /\ segmented' = segmented
    BY <1>9 DEF vars
  <2>2. ({hasTree, segmented} \subseteq BOOLEAN)'
    BY <1>6, <2>1
  <2> QED
    BY <1>5, <2>1, <2>2
<1> QED
  BY <1>1, <1>2, <1>3, <1>4, <1>7, <1>8, <1>9 DEF Next

LEMMA Always == Spec => []Inv
<1>1. Inv /\ [Next]_vars => Inv'
  BY Step
<1> QED
  BY <1>1, InitHolds, PTL DEF Spec

\* The segments that connections work on and those that are done lie in the
\* file, and a download has got no more than its segment, whatever blocks
\* getNextSegment() counts in when the tree comes and goes.
THEOREM TypeOKHolds == Spec => []TypeOK
BY Always, InvTyped, PTL

\* QueueItem::getNextSegment() never gives out a byte that another connection
\* is at, however the downloads start, fail and finish.
THEOREM NoByteTwiceHolds == Spec => []NoByteTwice
<1>1. Inv => NoByteTwice
  BY DEF Inv
<1> QED
  BY <1>1, Always, PTL

\* What addSegment() counts as done of a file has been written to it, however
\* the blocks of failed downloads are rounded and the segments consolidated.
THEOREM DoneIsStoredHolds == Spec => []DoneIsStored
<1>1. Inv => DoneIsStored
  BY DEF Inv, Item, DoneIsStored
<1> QED
  BY <1>1, Always, PTL

\* addSegment() never forgets a byte that was done: although its loop shortens
\* a segment that a later one lies in, getNextSegment() gives none that lies in
\* one that is done.
THEOREM NothingForgottenHolds == Spec => NothingForgotten
<1>1. Inv /\ [Next]_vars => [Units(done) \subseteq Units(done')]_vars
  BY Step
<1> QED
  BY <1>1, Always, PTL DEF Spec, NothingForgotten

-----------------------------------------------------------------------------
(* FetchedFile.                                                            *)

Claim(d) == IF d \in DOMAIN flight THEN Units({flight[d].seg}) ELSE {}
Claims == [d \in Downloaders |-> Claim(d)]

LEMMA UnitsOfOne == ASSUME NEW s PROVE Units({s}) = s[1]..(s[2] - 1)
BY DEF Units

\* isFinished() tells that every byte is done: separate segments that leave
\* nothing out are one.
LEMMA CompleteIs ==
    ASSUME NEW D, D \subseteq Ranges, Separate(D)
    PROVE  IsFinished(D, Size) <=> Units(D) = File
<1>1. Size \in Nat \ {0} /\ D \subseteq Proper /\ \A s \in D : s[2] <= Size
  BY RangesAre
<1>2. ASSUME IsFinished(D, Size) PROVE Units(D) = File
  <2>1. Units({<<0, Size>>}) = 0..(Size - 1)
    BY UnitsOfOne
  <2> QED
    BY <1>2, <2>1 DEF IsFinished, File
<1>3. ASSUME Units(D) = File PROVE IsFinished(D, Size)
  <2>1. 0 \in Units(D)
    BY <1>1, <1>3 DEF File
  <2>2. PICK s \in D : 0 \in s[1]..(s[2] - 1)
    BY <2>1 DEF Units
  <2>3. s \in Nat \X Nat /\ s[1] = 0 /\ s[2] <= Size /\ s[2] > 0
    BY <1>1, <2>2 DEF Proper, Segs
  <2>4. s[2] \notin File
    BY <1>1, <1>3, EndIsNew
  <2>5. s = <<0, Size>>
    BY <1>1, <2>3, <2>4 DEF File
  <2>6. ASSUME NEW e \in D PROVE e = s
    <3>1. e = s \/ e[2] < s[1] \/ s[2] < e[1]
      BY DEF Separate
    <3>2. e[1] \in Nat /\ e[2] \in Nat /\ e[1] < e[2] /\ e[2] <= Size
      BY <1>1 DEF Proper, Segs
    <3> QED
      BY <1>1, <2>5, <3>1, <3>2
  <2> QED
    BY <2>5, <2>6 DEF IsFinished
<1> QED
  BY <1>2, <1>3

LEMMA FetchedInit == Init => Fetched!Init
<1> SUFFICES ASSUME Init PROVE Fetched!Init
  OBVIOUS
<1>1. PICK n \in 0..(Size - 1) : /\ done = IF n = 0 THEN {} ELSE {<<0, n>>}
                                 /\ stored = 0..(n - 1)
  BY DEF Init
<1>2. Size \in Nat \ {0}
  BY RangesAre
<1>3. Units(done) = 0..(n - 1)
  <2>1. CASE n = 0
    BY <1>1, <2>1 DEF Units
  <2>2. CASE n # 0
    BY <1>1, <2>2, UnitsOfOne
  <2> QED
    BY <2>1, <2>2
<1>4. stored = Units(done) /\ Units(done) \subseteq File
  <2>1. n \in Nat /\ n <= Size - 1
    BY <1>2
  <2>2. 0..(n - 1) \subseteq 0..(Size - 1)
    BY <1>2, <2>1
  <2> QED
    BY <1>1, <1>3, <2>2 DEF File
<1>5. Claims = [d \in Downloaders |-> {}]
  BY DEF Init, Claims, Claim
<1>6. IsFinished(done, Size) = (Units(done) = File)
  BY InitHolds, CompleteIs DEF Inv, Item, IsFinished
<1> QED
  BY <1>4, <1>5, <1>6 DEF Fetched!Init, Claims, Claim

LEMMA StartClaims == ASSUME Inv, NEW d \in Downloaders, Start(d) PROVE Fetched!Claim(d)
<1>1. PICK k \in Chunks :
          LET seg == getNextSegment(IF hasTree THEN k * Block ELSE Block) IN
          /\ Length(seg) > 0
          /\ flight' = [e \in DOMAIN flight \cup {d} |->
                           IF e = d THEN [seg |-> seg, block |-> Block, pos |-> 0] ELSE flight[e]]
  BY DEF Start
<1> DEFINE wanted == IF hasTree THEN k * Block ELSE Block
           seg == getNextSegment(wanted)
<1>2. d \notin DOMAIN flight /\ ~IsFinished(done, Size) /\ UNCHANGED <<done, stored>>
  BY DEF Start
<1>3. wanted \in Nat
  BY QueueItemAssumption DEF Block
<1>4. /\ seg \in Ranges
      /\ \E n \in Nat : IsNew(n, seg, Block, done)
      /\ \A b \in Busy : ~Overlaps(seg, b)
  <2>1. Length(seg) > 0
    BY <1>1
  <2> HIDE DEF wanted
  <2> QED
    BY <1>2, <1>3, <2>1, NextIsNew, NextIsFree
<1> HIDE DEF seg, wanted
<1>5. /\ DOMAIN flight' = DOMAIN flight \cup {d} /\ flight'[d].seg = seg
      /\ \A e \in DOMAIN flight : flight'[e].seg = flight[e].seg
  BY <1>1, <1>2 DEF seg, wanted
<1>6. Claims' = [Claims EXCEPT ![d] = Units({seg})]
  BY <1>2, <1>5 DEF Claims, Claim, Units
<1>7. seg[1] \in Nat /\ seg[2] \in Nat /\ Units({seg}) = seg[1]..(seg[2] - 1) /\ seg[2] <= Size
  BY <1>4, RangesAre, UnitsOfOne DEF Proper, Segs
<1>8. ASSUME NEW e \in Downloaders PROVE Units({seg}) \cap Claims[e] = {}
  <2>1. CASE e \in DOMAIN flight
    <3>1. flight[e].seg \in Proper /\ ~Overlaps(seg, flight[e].seg)
      BY <1>4, <2>1, RangesAre DEF Inv, Works, Busy
    <3>2. Claims[e] = flight[e].seg[1]..(flight[e].seg[2] - 1)
      BY <2>1, UnitsOfOne DEF Claims, Claim
    <3> QED
      BY <1>7, <3>1, <3>2 DEF Overlaps, Proper, Segs
  <2>2. CASE e \notin DOMAIN flight
    BY <2>2 DEF Claims, Claim
  <2> QED
    BY <2>1, <2>2
<1>9. ~(Units({seg}) \subseteq Units(done))
  <2>1. PICK n \in Nat : IsNew(n, seg, Block, done)
    BY <1>4
  <2> QED
    BY <1>7, <2>1 DEF IsNew, Within
<1>10. Units({seg}) \subseteq File
  BY <1>7, RangesAre DEF File
<1>11. Units({seg}) \in SUBSET (File \ UNION {Claims[e] : e \in Downloaders})
  BY <1>8, <1>10
<1>12. Claims[d] = {} /\ UNCHANGED <<Units(done), stored, IsFinished(done, Size)>>
  BY <1>2 DEF Claims, Claim, Units, IsFinished
<1> QED
  BY <1>2, <1>6, <1>9, <1>11, <1>12 DEF Fetched!Claim, Claims, Claim

LEMMA DataArrives == ASSUME Inv, NEW d \in Downloaders, Data(d) PROVE Fetched!Arrive(d)
<1>1. /\ d \in DOMAIN flight /\ flight[d].pos < Length(flight[d].seg)
      /\ stored' = stored \cup {flight[d].seg[1] + flight[d].pos}
      /\ flight' = [flight EXCEPT ![d].pos = @ + 1]
      /\ UNCHANGED done
  BY DEF Data
<1>2. flight[d].seg \in Proper /\ flight[d].pos \in Nat
  BY <1>1, RangesAre DEF Inv, Works
<1>3. flight[d].seg[1] + flight[d].pos \in Claims[d]
  BY <1>1, <1>2, UnitsOfOne DEF Claims, Claim, Length, Proper, Segs
<1>4. DOMAIN flight' = DOMAIN flight /\ \A e \in DOMAIN flight : flight'[e].seg = flight[e].seg
  <2>1. "seg" \in DOMAIN flight[d]
    BY <1>1 DEF Inv, Works
  <2> QED
    BY <1>1, <2>1
<1>5. UNCHANGED <<Claims, Units(done), IsFinished(done, Size)>>
  BY <1>1, <1>4 DEF Claims, Claim, Units, IsFinished
<1> QED
  BY <1>1, <1>3, <1>5 DEF Fetched!Arrive, Claims, Claim

\* `s` is what it reports, the front of its segment or nothing.
LEMMA LeavingReports ==
    ASSUME Inv, Inv', Units(done) \subseteq Units(done'),
           NEW d \in Downloaders, d \in DOMAIN flight, flight' = Without(d), UNCHANGED stored,
           \/ done' = done
           \/ \E s \in Proper : /\ done' = AddSegment(done, s)
                                /\ s[1] = flight[d].seg[1] /\ s[2] <= flight[d].seg[2]
    PROVE  Fetched!Report(d)
<1>1. flight[d].seg \in Proper
  BY RangesAre DEF Inv, Works
<1>2. Claims[d] = flight[d].seg[1]..(flight[d].seg[2] - 1)
  BY UnitsOfOne DEF Claims, Claim
<1>3. Claims[d] # {}
  BY <1>1, <1>2 DEF Proper, Segs
<1>4. Units(done') \ Units(done) \subseteq Claims[d]
  <2>1. ASSUME NEW s \in Proper, done' = AddSegment(done, s),
               s[1] = flight[d].seg[1], s[2] <= flight[d].seg[2]
        PROVE  Units(done') \ Units(done) \subseteq Claims[d]
    <3>1. done \subseteq Segs /\ IsFiniteSet(done) /\ s \in Segs
      BY RangesAre DEF Inv, Item, Proper
    <3>2. Units(done') \subseteq Units(done \cup {s})
      BY <2>1, <3>1, Added
    <3>3. Units(done \cup {s}) = Units(done) \cup (s[1]..(s[2] - 1))
      BY DEF Units
    <3>4. s[1]..(s[2] - 1) \subseteq Claims[d]
      BY <1>1, <1>2, <2>1 DEF Proper, Segs
    <3> QED
      BY <3>2, <3>3, <3>4
  <2> QED
    BY <2>1
<1>5. Units(done') \ Units(done) \subseteq stored
  BY DEF Inv, Item
<1>6. Units(done') = Units(done) \cup (Units(done') \ Units(done))
  OBVIOUS
<1>7. Claims' = [Claims EXCEPT ![d] = {}]
  BY DEF Claims, Claim, Without, Units
<1>8. IsFinished(done', Size) = (Units(done') = File)
  <2>1. done' \subseteq Ranges /\ Separate(done')
    BY DEF Inv, Item, Ranges, File, Separate
  <2>2. IsFinished(done', Size) \in BOOLEAN
    BY DEF IsFinished
  <2> QED
    BY <2>1, <2>2, CompleteIs
<1> QED
  BY <1>3, <1>4, <1>5, <1>6, <1>7, <1>8 DEF Fetched!Report, Claims, Claim

LEMMA FetchedStep == Inv /\ [Next]_vars => [Fetched!Next]_Fetched!vars
<1> SUFFICES ASSUME Inv, [Next]_vars PROVE [Fetched!Next]_Fetched!vars
  OBVIOUS
<1>1. Inv' /\ Units(done) \subseteq Units(done')
  BY Step
<1>2. ASSUME NEW d \in Downloaders, Start(d) PROVE Fetched!Next
  BY <1>2, StartClaims DEF Fetched!Next
<1>3. ASSUME NEW d \in Downloaders, Data(d) PROVE Fetched!Next
  BY <1>3, DataArrives DEF Fetched!Next
<1>4. ASSUME NEW d \in Downloaders, Finish(d) PROVE Fetched!Next
  <2>1. /\ d \in DOMAIN flight /\ flight' = Without(d) /\ UNCHANGED stored
        /\ done' = AddSegment(done, flight[d].seg)
    BY <1>4 DEF Finish
  <2>2. flight[d].seg \in Proper /\ flight[d].seg[2] <= flight[d].seg[2]
    BY <2>1, RangesAre DEF Inv, Works, Proper, Segs
  <2>3. Fetched!Report(d)
    BY <1>1, <2>1, <2>2, LeavingReports
  <2> QED
    BY <2>3 DEF Fetched!Next
<1>5. ASSUME NEW d \in Downloaders, Fail(d) PROVE Fetched!Next
  <2> DEFINE f == flight[d]
             downloaded == RoundDown(f.pos, f.block)
             s == <<f.seg[1], f.seg[1] + downloaded>>
  <2>1. /\ d \in DOMAIN flight /\ flight' = Without(d) /\ UNCHANGED stored
        /\ f.pos < Length(f.seg)
        /\ done' = IF downloaded > 0 THEN AddSegment(done, s) ELSE done
    BY <1>5 DEF Fail
  <2>2. f.pos \in Nat /\ f.block \in Nat \ {0} /\ f.seg \in Proper
    BY <2>1, RangesAre, QueueItemAssumption DEF Inv, Works
  <2>3. downloaded \in Nat /\ downloaded <= f.pos
    BY <2>2, Rounding
  <2> HIDE DEF downloaded
  <2>4. downloaded > 0 => s \in Proper /\ s[1] = f.seg[1] /\ s[2] <= f.seg[2]
    BY <2>1, <2>2, <2>3 DEF Length, Proper, Segs
  <2>5. Fetched!Report(d)
    BY <1>1, <2>1, <2>4, LeavingReports
  <2> QED
    BY <2>5 DEF Fetched!Next
<1>6. ASSUME UNCHANGED <<done, flight, stored>> PROVE UNCHANGED Fetched!vars
  BY <1>6 DEF Fetched!vars, Units, IsFinished
<1>7. CASE TreeArrives \/ TreeVanishes \/ ChangeSetting \/ UNCHANGED vars
  <2>1. UNCHANGED <<done, flight, stored>>
    BY <1>7 DEF TreeArrives, TreeVanishes, ChangeSetting, vars
  <2> QED
    BY <1>6, <2>1
<1> QED
  BY <1>2, <1>3, <1>4, <1>5, <1>7 DEF Next

\* The segments of any file, handed out to any number of connections, cut,
\* rounded and consolidated as they are, implement FetchedFile; so the file is
\* finished as soon as every byte is done, and no sooner.
THEOREM FetchedHolds == Spec => FetchedSpec
<1>1. Fetched!Init /\ [][Fetched!Next]_Fetched!vars => FetchedSpec
  BY DEF FetchedSpec, Fetched!Spec
<1> QED
  BY <1>1, FetchedInit, FetchedStep, Always, PTL DEF Spec
=============================================================================
