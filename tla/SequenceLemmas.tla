--------------------------- MODULE SequenceLemmas ---------------------------
(***************************************************************************)
(* What inserting into and removing from a list of distinct faults does:   *)
(* the facts about InsertedAt and RemovedAt that the proofs about the fault *)
(* queues (insert and remove of src/fi/faultq.cc) rest on.                 *)
(***************************************************************************)
EXTENDS Lists, TLAPS

\* Two lists with the same elements at the same positions are the same list.
LEMMA SameElements ==
  ASSUME NEW S, NEW s \in Seq(S), NEW t \in Seq(S), Len(s) = Len(t),
         \A j \in 1 .. Len(s) : s[j] = t[j]
  PROVE  s = t
OBVIOUS

\* The elements of two lists put together.
LEMMA Joined ==
  ASSUME NEW S, NEW s \in Seq(S), NEW t \in Seq(S)
  PROVE  /\ s \o t \in Seq(S)
         /\ Len(s \o t) = Len(s) + Len(t)
OBVIOUS

\* Every position of the longer list.
LEMMA InsertedAtElements ==
  ASSUME NEW S, NEW s \in Seq(S), NEW i \in 1 .. Len(s) + 1, NEW e \in S
  PROVE  /\ InsertedAt(s, i, e) \in Seq(S)
         /\ Len(InsertedAt(s, i, e)) = Len(s) + 1
         /\ \A j \in 1 .. Len(s) + 1 :
              InsertedAt(s, i, e)[j] = IF j < i THEN s[j] ELSE IF j = i THEN e ELSE s[j - 1]
<1> DEFINE a == SubSeq(s, 1, i - 1)
           m == a \o <<e>>
           b == SubSeq(s, i, Len(s))
<1>1. a \in Seq(S) /\ Len(a) = i - 1 /\ \A j \in 1 .. i - 1 : a[j] = s[j]
  OBVIOUS
<1>2. b \in Seq(S) /\ Len(b) = Len(s) + 1 - i
      /\ \A j \in 1 .. Len(s) + 1 - i : b[j] = s[i + j - 1]
  OBVIOUS
<1> HIDE DEF a, b
<1>3. m \in Seq(S) /\ Len(m) = i /\ \A j \in 1 .. i : m[j] = IF j < i THEN s[j] ELSE e
  BY <1>1
<1> HIDE DEF m
<1>4. m \o b \in Seq(S) /\ Len(m \o b) = Len(s) + 1
  BY <1>2, <1>3
<1>5. ASSUME NEW j \in 1 .. Len(s) + 1
      PROVE  (m \o b)[j] = IF j < i THEN s[j] ELSE IF j = i THEN e ELSE s[j - 1]
  <2>1. (m \o b)[j] = IF j <= i THEN m[j] ELSE b[j - i]
    BY <1>2, <1>3
  <2> QED BY <1>2, <1>3, <2>1
<1>6. InsertedAt(s, i, e) = m \o b
  BY DEF InsertedAt, a, b, m
<1> QED BY <1>4, <1>5, <1>6

\* The same, one stretch of positions at a time.
LEMMA InsertedAtPlaces ==
  ASSUME NEW S, NEW s \in Seq(S), NEW i \in 1 .. Len(s) + 1, NEW e \in S
  PROVE  /\ InsertedAt(s, i, e) \in Seq(S)
         /\ Len(InsertedAt(s, i, e)) = Len(s) + 1
         /\ InsertedAt(s, i, e)[i] = e
         /\ \A j \in 1 .. i - 1 : InsertedAt(s, i, e)[j] = s[j]
         /\ \A j \in i .. Len(s) : InsertedAt(s, i, e)[j + 1] = s[j]
<1> DEFINE r == InsertedAt(s, i, e)
<1>1. /\ r \in Seq(S) /\ Len(r) = Len(s) + 1
      /\ \A j \in 1 .. Len(s) + 1 : r[j] = IF j < i THEN s[j] ELSE IF j = i THEN e ELSE s[j - 1]
  BY InsertedAtElements
<1> HIDE DEF r
<1>2. r[i] = e /\ \A j \in 1 .. i - 1 : r[j] = s[j]
  BY <1>1
<1>3. ASSUME NEW j \in i .. Len(s) PROVE r[j + 1] = s[j]
  <2>1. j + 1 \in 1 .. Len(s) + 1 /\ ~(j + 1 < i) /\ j + 1 # i /\ (j + 1) - 1 = j
    OBVIOUS
  <2> QED BY <1>1, <2>1
<1> QED BY <1>1, <1>2, <1>3 DEF r

\* Every position of the shorter list.
LEMMA RemovedAtElements ==
  ASSUME NEW S, NEW s \in Seq(S), NEW i \in 1 .. Len(s)
  PROVE  /\ RemovedAt(s, i) \in Seq(S)
         /\ Len(RemovedAt(s, i)) = Len(s) - 1
         /\ \A j \in 1 .. Len(s) - 1 :
              RemovedAt(s, i)[j] = IF j < i THEN s[j] ELSE s[j + 1]
<1> DEFINE a == SubSeq(s, 1, i - 1)
           b == SubSeq(s, i + 1, Len(s))
<1>1. a \in Seq(S) /\ Len(a) = i - 1 /\ \A j \in 1 .. i - 1 : a[j] = s[j]
  OBVIOUS
<1>2. b \in Seq(S) /\ Len(b) = Len(s) - i
      /\ \A j \in 1 .. Len(s) - i : b[j] = s[i + j]
  OBVIOUS
<1> HIDE DEF a, b
<1>3. a \o b \in Seq(S) /\ Len(a \o b) = Len(s) - 1
  <2>1. a \o b \in Seq(S) /\ Len(a \o b) = Len(a) + Len(b)
    BY <1>1, <1>2, Joined, Zenon
  <2> QED BY <1>1, <1>2, <2>1
<1>4. ASSUME NEW j \in 1 .. Len(s) - 1
      PROVE  (a \o b)[j] = IF j < i THEN s[j] ELSE s[j + 1]
  <2>1. (a \o b)[j] = IF j < i THEN a[j] ELSE b[j - (i - 1)]
    BY <1>1, <1>2
  <2> QED BY <1>1, <1>2, <2>1
<1>5. RemovedAt(s, i) = a \o b
  BY DEF RemovedAt, a, b
<1> QED BY <1>3, <1>4, <1>5, Zenon

\* An inserted element is the only one that is new, and distinctness is kept.
LEMMA InsertedAtSet ==
  ASSUME NEW S, NEW s \in Seq(S), NEW i \in 1 .. Len(s) + 1, NEW e \in S
  PROVE  /\ Range(InsertedAt(s, i, e)) = Range(s) \cup {e}
         /\ IsInjective(s) /\ e \notin Range(s) => IsInjective(InsertedAt(s, i, e))
<1> DEFINE t == InsertedAt(s, i, e)
<1>1. /\ t \in Seq(S) /\ Len(t) = Len(s) + 1
      /\ \A j \in 1 .. Len(s) + 1 :
           t[j] = IF j < i THEN s[j] ELSE IF j = i THEN e ELSE s[j - 1]
  BY InsertedAtElements
<1> HIDE DEF t
<1>2. Range(t) \subseteq Range(s) \cup {e}
  BY <1>1 DEF Range
<1>3. ASSUME NEW x \in Range(s) PROVE x \in Range(t)
  <2>1. PICK j \in 1 .. Len(s) : s[j] = x
    BY <1>3 DEF Range
  <2>2. t[IF j < i THEN j ELSE j + 1] = x
    BY <1>1, <2>1
  <2> QED BY <1>1, <2>1, <2>2 DEF Range
<1>4. e \in Range(t)
  BY <1>1 DEF Range
<1>5. ASSUME IsInjective(s), e \notin Range(s) PROVE IsInjective(t)
  <2>1. \A j \in 1 .. Len(s) : s[j] # e
    BY <1>5 DEF Range
  <2>2. \A j, k \in 1 .. Len(s) : s[j] = s[k] => j = k
    BY <1>5 DEF IsInjective
  <2>3. ASSUME NEW j \in 1 .. Len(t), NEW k \in 1 .. Len(t), t[j] = t[k], j < k PROVE FALSE
    <3>1. CASE j < i /\ k < i
      BY <1>1, <2>2, <2>3, <3>1, SMTT(30)
    <3>2. CASE j = i \/ k = i
      BY <1>1, <2>1, <2>3, <3>2
    <3>3. CASE j < i /\ k > i
      <4>1. t[j] = s[j] /\ t[k] = s[k - 1] /\ j \in 1 .. Len(s) /\ k - 1 \in 1 .. Len(s)
        BY <1>1, <3>3
      <4>2. j = k - 1
        BY <2>2, <2>3, <4>1, Zenon
      <4> QED BY <3>3, <4>2
    <3>4. CASE j > i
      <4>1. /\ t[j] = s[j - 1] /\ t[k] = s[k - 1]
            /\ j - 1 \in 1 .. Len(s) /\ k - 1 \in 1 .. Len(s)
        BY <1>1, <2>3, <3>4
      <4>2. j - 1 = k - 1
        BY <2>2, <2>3, <4>1, Zenon
      <4> QED BY <2>3, <4>2
    <3> QED BY <1>1, <3>1, <3>2, <3>3, <3>4
  <2>4. \A j, k \in 1 .. Len(t) : t[j] = t[k] => j = k
    BY <1>1, <2>3
  <2> QED BY <1>1, <2>4 DEF IsInjective
<1> QED BY <1>2, <1>3, <1>4, <1>5 DEF t

\* Removing a position removes its element, and distinctness is kept.
LEMMA RemovedAtSet ==
  ASSUME NEW S, NEW s \in Seq(S), NEW i \in 1 .. Len(s), IsInjective(s)
  PROVE  /\ Range(RemovedAt(s, i)) = Range(s) \ {s[i]}
         /\ IsInjective(RemovedAt(s, i))
<1> DEFINE t == RemovedAt(s, i)
<1>1. /\ t \in Seq(S) /\ Len(t) = Len(s) - 1
      /\ \A j \in 1 .. Len(s) - 1 : t[j] = IF j < i THEN s[j] ELSE s[j + 1]
  BY RemovedAtElements
<1> HIDE DEF t
<1>2. \A j, k \in 1 .. Len(s) : s[j] = s[k] => j = k
  BY DEF IsInjective
<1>3. ASSUME NEW x \in Range(t) PROVE x \in Range(s) \ {s[i]}
  <2>1. PICK j \in 1 .. Len(t) : t[j] = x
    BY <1>1, <1>3 DEF Range
  <2>2. x = s[IF j < i THEN j ELSE j + 1]
    BY <1>1, <2>1
  <2>3. (IF j < i THEN j ELSE j + 1) \in (1 .. Len(s)) \ {i}
    BY <1>1, <2>1
  <2> QED BY <1>2, <2>2, <2>3 DEF Range
<1>4. ASSUME NEW x \in Range(s), x # s[i] PROVE x \in Range(t)
  <2>1. PICK j \in 1 .. Len(s) : s[j] = x
    BY <1>4 DEF Range
  <2>2. t[IF j < i THEN j ELSE j - 1] = x
    BY <1>1, <1>4, <2>1
  <2>3. (IF j < i THEN j ELSE j - 1) \in 1 .. Len(t)
    BY <1>1, <1>4, <2>1
  <2> QED BY <1>1, <2>2, <2>3 DEF Range
<1>5. \A j, k \in 1 .. Len(t) : t[j] = t[k] => j = k
  BY <1>1, <1>2
<1>6. IsInjective(t)
  BY <1>1, <1>5 DEF IsInjective
<1> QED BY <1>3, <1>4, <1>6 DEF t
=============================================================================
