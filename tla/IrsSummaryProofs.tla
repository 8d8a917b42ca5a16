-------------------------- MODULE IrsSummaryProofs --------------------------
(***************************************************************************)
(* Proofs about IrsSummary, for documents of any length and sentences of   *)
(* any score: which sentences the sort keeps, in which order, where the    *)
(* summary is written and what is in it.                                   *)
(***************************************************************************)
EXTENDS IrsSummary, IrsInduction, SequenceTheorems, FiniteSetTheorems, TLAPS

-----------------------------------------------------------------------------
(* What the sort has done with the first n sentences *)

Kept(n) == {i \in 1 .. n : i \in {1, LastOne} \/ scores[i] <= scores[1]}

Once(s) == \A k, l \in DOMAIN s : s[k] = s[l] => k = l

Meets(s, S) ==
    /\ \A k \in DOMAIN s : s[k] \in S
    /\ \A i \in S : \E k \in DOMAIN s : s[k] = i

Rising(s) ==
    \A k, l \in DOMAIN s :
        k < l => Ascending(s[k], s[l]) \/ (l = Len(s) /\ s[l] = LastOne)

SortedAt(n) == Once(sorted) /\ Meets(sorted, Kept(n)) /\ Rising(sorted)

SortTypes ==
    /\ pc \in {"idle", "first", "next", "compare", "pick", "collected"}
    /\ sentences \in Seq(Texts)
    /\ scores \in Seq(Nat) /\ Len(scores) = Len(sentences)
    /\ it \in 0 .. Len(scores) + 1
    /\ sorted \in Seq(1 .. Len(scores))

\* An iterator that is not at the first sorted sentence has passed only lower
\* ones, and the sentence is not the last one, which needs no second round.
SortInv ==
    /\ SortTypes
    /\ pc \in {"idle", "first"} => sorted = <<>> /\ it = 0
    /\ pc = "next" =>
         /\ it = 0 => scores = <<>>
         /\ SortedAt(IF it <= Len(scores) THEN it ELSE Len(scores))
    /\ pc = "compare" =>
         /\ it \in 2 .. Len(scores)
         /\ other \in 0 .. Len(sorted)
         /\ \A k \in 1 .. other : scores[sorted[k]] < scores[it]
         /\ other > 0 => it < Len(scores)
         /\ SortedAt(it - 1)
    /\ SortDone => SortedAt(Len(scores))

\* A node before another one: what push_front makes of a list.
LEMMA PushedFrontProperties ==
    ASSUME NEW S, NEW s \in Seq(S), NEW place \in 1 .. Len(s), NEW i \in S
    PROVE  /\ PushedFront(s, place, i) \in Seq(S)
           /\ Len(PushedFront(s, place, i)) = Len(s) + 1
           /\ \A k \in 1 .. place - 1 : PushedFront(s, place, i)[k] = s[k]
           /\ PushedFront(s, place, i)[place] = i
           /\ \A k \in place .. Len(s) : PushedFront(s, place, i)[k + 1] = s[k]
<1> DEFINE a == SubSeq(s, 1, place - 1)
           b == SubSeq(s, place, Len(s))
           c == a \o <<i>>
           t == c \o b
<1>1. /\ a \in Seq(S) /\ Len(a) = place - 1
      /\ \A k \in 1 .. place - 1 : a[k] = s[k]
  OBVIOUS
<1>2. /\ b \in Seq(S) /\ Len(b) = Len(s) - place + 1
      /\ \A k \in 1 .. Len(s) - place + 1 : b[k] = s[place + k - 1]
  OBVIOUS
<1> HIDE DEF a, b
<1>2a. a \in Seq(S) /\ b \in Seq(S)
  BY <1>1, <1>2
<1>3. /\ c \in Seq(S) /\ Len(c) = Len(a) + 1 
      /\ \A k \in 1 .. Len(a) : c[k] = a[k]
      /\ c[Len(a) + 1] = i
  BY <1>2a
<1> HIDE DEF c
<1>3a. c \in Seq(S)
  BY <1>3
<1>4. /\ t \in Seq(S) /\ Len(t) = Len(c) + Len(b) 
      /\ \A k \in 1 .. Len(c) : t[k] = c[k]
      /\ \A k \in 1 .. Len(b) : t[k + Len(c)] = b[k]
  BY <1>2a, <1>3a
<1> HIDE DEF t
<1>5. /\ Len(c) = place /\ Len(t) = Len(s) + 1 /\ place \in Nat /\ Len(s) \in Nat
  BY SMTT(40), <1>1, <1>2, <1>3, <1>4
<1>6. \A k \in 1 .. place - 1 : t[k] = s[k]
  BY <1>1, <1>3, <1>4, <1>5
<1>7. t[place] = i
  BY <1>1, <1>3, <1>4, <1>5
<1>8. \A k \in place .. Len(s) : t[k + 1] = s[k]
  <2> SUFFICES ASSUME NEW k \in place .. Len(s) PROVE t[k + 1] = s[k]
    OBVIOUS
  <2>1. k - place + 1 \in 1 .. Len(b)
    BY <1>2, <1>5
  <2>2. t[(k - place + 1) + Len(c)] = b[k - place + 1]
    BY <2>1, <1>4
  <2>3. b[k - place + 1] = s[place + (k - place + 1) - 1]
    BY <1>2, <2>1
  <2>4. (k - place + 1) + Len(c) = k + 1 /\ place + (k - place + 1) - 1 = k
    BY <1>5
  <2>5. QED
    BY <2>2, <2>3, <2>4
<1>9. PushedFront(s, place, i) = t
  BY DEF PushedFront, t, c, a, b
<1>10. QED
  BY <1>4, <1>5, <1>6, <1>7, <1>8, <1>9

\* A sentence that is not above the one at a place, and above all before it,
\* goes before that place.
Inserted(N, n, L, s, t, place) ==
    /\ N \in Nat /\ LastOne = N
    /\ \A i \in 1 .. N : scores[i] \in Nat
    /\ n \in 2 .. N /\ L \in Nat
    /\ DOMAIN s = 1 .. L /\ Len(s) = L
    /\ Once(s) /\ Meets(s, Kept(n - 1)) /\ Rising(s)
    /\ place \in 1 .. L
    /\ scores[n] <= scores[s[place]]
    /\ \A k \in 1 .. place - 1 : scores[s[k]] < scores[n]
    /\ DOMAIN t = 1 .. L + 1
    /\ \A k \in 1 .. place - 1 : t[k] = s[k]
    /\ t[place] = n
    /\ \A k \in place .. L : t[k + 1] = s[k]

LEMMA InsertedSorts ==
    ASSUME NEW N, NEW n, NEW L, NEW s, NEW t, NEW place,
           Inserted(N, n, L, s, t, place)
    PROVE  Once(t) /\ Meets(t, Kept(n)) /\ Rising(t)
<1> USE DEF Inserted
<1>1. n \in Nat /\ place \in Nat
  OBVIOUS
<1>2. \A k \in 1 .. L : s[k] \in Kept(n - 1) /\ s[k] \in 1 .. n - 1
  BY <1>1 DEF Meets, Kept
<1>3. \A k \in 1 .. L + 1 :
        \/ k < place /\ k \in 1 .. L /\ t[k] = s[k]
        \/ k = place /\ t[k] = n
        \/ k > place /\ k - 1 \in place .. L /\ t[k] = s[k - 1]
  <2> SUFFICES ASSUME NEW k \in 1 .. L + 1, k > place
               PROVE  k - 1 \in place .. L /\ t[k] = s[k - 1]
    BY <1>1
  <2>1. k - 1 \in place .. L /\ (k - 1) + 1 = k
    BY <1>1
  <2>2. QED
    BY <2>1
<1>4. \A k, l \in 1 .. L : s[k] = s[l] => k = l
  BY <1>1 DEF Once
<1>5. Once(t)
  BY SMTT(40), <1>1, <1>2, <1>3, <1>4 DEF Once
<1>6. Kept(n) = Kept(n - 1) \cup {n}
  <2>1. scores[s[place]] <= scores[1] \/ s[place] = LastOne \/ s[place] = 1
    BY <1>1, <1>2 DEF Kept
  <2>2. scores[n] <= scores[1]
    BY <1>1, <1>2, <2>1
  <2>3. QED
    BY <1>1, <2>2 DEF Kept
<1>7. Meets(t, Kept(n))
  <2>1. \A k \in DOMAIN t : t[k] \in Kept(n)
    BY SMTT(40), <1>1, <1>2, <1>3, <1>6
  <2>2. \A k \in 1 .. L :
          \/ k \in DOMAIN t /\ t[k] = s[k]
          \/ k + 1 \in DOMAIN t /\ t[k + 1] = s[k]
    BY <1>1
  <2>3. \A i \in Kept(n - 1) : \E k \in 1 .. L : s[k] = i
    BY <1>1 DEF Meets
  <2>4. \A i \in Kept(n) : \E k \in DOMAIN t : t[k] = i
    <3> SUFFICES ASSUME NEW i \in Kept(n) PROVE \E k \in DOMAIN t : t[k] = i
      OBVIOUS
    <3>1. CASE i = n
      BY <3>1
    <3>2. CASE i \in Kept(n - 1)
      <4>1. PICK k \in 1 .. L : s[k] = i
        BY <2>3, <3>2
      <4>2. QED
        BY <2>2, <4>1
    <3>3. QED
      BY <1>6, <3>1, <3>2
  <2>5. QED
    BY <2>1, <2>4 DEF Meets
<1>8. \A k, l \in 1 .. L : k < l => Ascending(s[k], s[l])
  <2> SUFFICES ASSUME NEW k \in 1 .. L, NEW l \in 1 .. L, k < l
               PROVE  Ascending(s[k], s[l])
    OBVIOUS
  <2>1. s[l] # LastOne
    BY <1>1, <1>2
  <2>2. QED
    BY <2>1 DEF Rising
<1>9. \A l \in place .. L : scores[s[place]] <= scores[s[l]]
  <2> SUFFICES ASSUME NEW l \in place .. L
               PROVE  scores[s[place]] <= scores[s[l]]
    OBVIOUS
  <2>1. scores[s[place]] \in Nat /\ scores[s[l]] \in Nat
    BY <1>1, <1>2
  <2>2. CASE l = place
    BY <2>1, <2>2
  <2>3. CASE l > place
    <3>1. Ascending(s[place], s[l])
      BY <1>1, <1>8, <2>3
    <3>2. QED
      BY <2>1, <3>1 DEF Ascending
  <2>4. QED
    BY <1>1, <2>2, <2>3
<1>10. \A k, l \in 1 .. L + 1 : k < l => Ascending(t[k], t[l])
  <2> SUFFICES ASSUME NEW k \in 1 .. L + 1,
                      NEW l \in 1 .. L + 1, k < l
               PROVE  Ascending(t[k], t[l])
    OBVIOUS
  <2>1. CASE k # place /\ l # place
    BY <1>1, <1>3, <1>8, <2>1
  <2>2. CASE l = place
    <3>1. t[k] = s[k] /\ t[l] = n /\ scores[s[k]] < scores[n]
      BY <1>1, <1>3, <2>2
    <3>2. QED
      BY <3>1 DEF Ascending
  <2>3. CASE k = place
    <3>1. t[k] = n /\ t[l] = s[l - 1] /\ l - 1 \in place .. L
      BY <1>1, <1>3, <2>3
    <3>2. /\ s[l - 1] \in 1 .. n - 1 /\ s[place] \in 1 .. n - 1
          /\ scores[s[place]] <= scores[s[l - 1]]
      BY <1>1, <1>2, <1>9, <3>1
    <3>3. scores[n] <= scores[s[l - 1]] /\ n > s[l - 1]
      BY SMTT(40), <1>1, <3>2
    <3>4. scores[n] \in Nat /\ scores[s[l - 1]] \in Nat
      BY <1>1, <3>2
    <3>5. QED
      BY <3>1, <3>3, <3>4 DEF Ascending
  <2>4. QED
    BY <1>1, <2>1, <2>2, <2>3
<1>11. QED
  BY <1>1, <1>5, <1>7, <1>10 DEF Rising

\* The last sentence goes behind all others.
Appended(N, L, s, t) ==
    /\ N \in Nat /\ LastOne = N /\ N > 1 /\ L \in Nat
    /\ DOMAIN s = 1 .. L /\ Len(s) = L /\ Len(t) = L + 1
    /\ Once(s) /\ Meets(s, Kept(N - 1)) /\ Rising(s)
    /\ DOMAIN t = 1 .. L + 1
    /\ \A k \in 1 .. L : t[k] = s[k]
    /\ t[L + 1] = N

LEMMA AppendedSorts ==
    ASSUME NEW N, NEW L, NEW s, NEW t, Appended(N, L, s, t)
    PROVE  Once(t) /\ Meets(t, Kept(N)) /\ Rising(t)
<1> USE DEF Appended
<1>1. \A k \in 1 .. L : s[k] \in Kept(N - 1) /\ s[k] \in 1 .. N - 1
  BY DEF Meets, Kept
<1>2. \A k \in 1 .. L + 1 :
        (k \in 1 .. L /\ t[k] = s[k]) \/ (k = L + 1 /\ t[k] = N)
  OBVIOUS
<1>3. Kept(N) = Kept(N - 1) \cup {N}
  BY DEF Kept
<1>4. \A k, l \in 1 .. L : s[k] = s[l] => k = l
  BY DEF Once
<1>5. Once(t)
  BY <1>1, <1>2, <1>4 DEF Once
<1>6. \A k \in DOMAIN t : t[k] \in Kept(N)
  BY <1>1, <1>2, <1>3
<1>7. \A i \in Kept(N) : \E k \in DOMAIN t : t[k] = i
  <2> SUFFICES ASSUME NEW i \in Kept(N) PROVE \E k \in DOMAIN t : t[k] = i
    OBVIOUS
  <2>1. CASE i = N
    BY <2>1
  <2>2. CASE i \in Kept(N - 1)
    <3>1. PICK k \in 1 .. L : s[k] = i
      BY <2>2 DEF Meets
    <3>2. k \in DOMAIN t /\ t[k] = i
      BY <3>1
    <3>3. QED
      BY <3>2
  <2>3. QED
    BY <1>3, <2>1, <2>2
<1>8. \A k, l \in DOMAIN t :
        k < l => Ascending(t[k], t[l]) \/ (l = L + 1 /\ t[l] = LastOne)
  <2> SUFFICES ASSUME NEW k \in DOMAIN t, NEW l \in DOMAIN t, k < l
               PROVE  Ascending(t[k], t[l]) \/ (l = L + 1 /\ t[l] = LastOne)
    OBVIOUS
  <2>1. CASE l = L + 1
    BY <2>1
  <2>2. CASE l # L + 1
    <3>1. k \in 1 .. L /\ l \in 1 .. L /\ t[k] = s[k] /\ t[l] = s[l]
      BY <2>2
    <3>2. s[l] # LastOne
      BY <1>1, <3>1
    <3>3. Ascending(s[k], s[l])
      BY <3>1, <3>2 DEF Rising
    <3>4. QED
      BY <3>1, <3>3
  <2>3. QED
    BY <2>1, <2>2
<1>9. QED
  BY <1>5, <1>6, <1>7, <1>8 DEF Meets, Rising

-----------------------------------------------------------------------------
(* The sort *)

LEMMA SortTypesFacts ==
    ASSUME SortTypes
    PROVE  /\ Len(scores) \in Nat /\ LastOne = Len(scores)
           /\ \A i \in 1 .. Len(scores) : scores[i] \in Nat
           /\ Len(sorted) \in Nat /\ DOMAIN sorted = 1 .. Len(sorted)
           /\ \A k \in 1 .. Len(sorted) : sorted[k] \in 1 .. Len(scores)
<1>1. scores \in Seq(Nat) /\ sorted \in Seq(1 .. Len(scores))
  BY DEF SortTypes
<1>2. LastOne = Len(scores)
  BY DEF SortTypes, LastOne
<1>3. QED
  BY <1>1, <1>2

LEMMA InsertSorts ==
    ASSUME SortInv, Insert
    PROVE  SortInv'
<1> DEFINE N == Len(scores)
           L == Len(sorted)
           p == other + 1
           t == PushedFront(sorted, p, it)
<1>1. SortTypes /\ pc = "compare"
  BY DEF SortInv, Insert
<1>2. /\ N \in Nat /\ LastOne = N /\ L \in Nat /\ DOMAIN sorted = 1 .. L
      /\ \A i \in 1 .. N : scores[i] \in Nat
  BY <1>1, SortTypesFacts
<1>3. /\ it \in 2 .. N /\ other \in 0 .. L /\ other < L
      /\ \A k \in 1 .. other : scores[sorted[k]] < scores[it]
      /\ Once(sorted) /\ Meets(sorted, Kept(it - 1)) /\ Rising(sorted)
  BY <1>1 DEF SortInv, SortedAt, Insert
<1>4. /\ scores[it] <= scores[sorted[p]] /\ sorted' = t /\ pc' = "next"
      /\ sentences' = sentences /\ scores' = scores /\ it' = it
  BY DEF Insert, IsNotAbove
<1>5. sorted \in Seq(1 .. N)
  BY <1>1 DEF SortTypes
<1> HIDE DEF N, L
<1>6. p \in 1 .. L /\ it \in 1 .. N /\ p - 1 = other
  BY <1>2, <1>3
<1>7. L = Len(sorted)
  BY DEF L
<1> HIDE DEF p, t
<1>8. /\ t \in Seq(1 .. N) /\ Len(t) = L + 1
      /\ \A k \in 1 .. p - 1 : t[k] = sorted[k]
      /\ t[p] = it
      /\ \A k \in p .. L : t[k + 1] = sorted[k]
  <2>1. p \in 1 .. Len(sorted)
    BY <1>6, <1>7
  <2>2. /\ t \in Seq(1 .. N) /\ Len(t) = Len(sorted) + 1
        /\ \A k \in 1 .. p - 1 : t[k] = sorted[k]
        /\ t[p] = it
        /\ \A k \in p .. Len(sorted) : t[k + 1] = sorted[k]
    <3> DEFINE S == 1 .. N
    <3>1. sorted \in Seq(S) /\ it \in S
      BY <1>5, <1>6
    <3> HIDE DEF S
    <3>2. /\ t \in Seq(S) /\ Len(t) = Len(sorted) + 1
          /\ \A k \in 1 .. p - 1 : t[k] = sorted[k]
          /\ t[p] = it
          /\ \A k \in p .. Len(sorted) : t[k + 1] = sorted[k]
      BY <2>1, <3>1, PushedFrontProperties, SMTT(60) DEF t
    <3>3. QED
      BY <3>2 DEF S
  <2>3. QED
    BY <1>7, <2>2, Zenon
<1>9. DOMAIN t = 1 .. L + 1
  BY <1>8
<1>10. \A k \in 1 .. p - 1 : scores[sorted[k]] < scores[it]
  BY <1>3, <1>6
<1>11. Once(t) /\ Meets(t, Kept(it)) /\ Rising(t)
  <2>1. Inserted(N, it, L, sorted, t, p)
    BY <1>2, <1>3, <1>4, <1>6, <1>7, <1>8, <1>9, <1>10 DEF Inserted
  <2>2. QED
    BY <2>1, InsertedSorts
<1>12. Once(sorted)' /\ Meets(sorted, Kept(it))' /\ Rising(sorted)'
  BY <1>4, <1>11 DEF Once, Meets, Rising, Kept, Ascending, LastOne
<1>13. SortTypes'
  BY <1>1, <1>4, <1>8 DEF SortTypes, N
<1>14. it' \in 2 .. Len(scores')
  BY <1>3, <1>4 DEF N
<1>15. SortedAt(IF it <= Len(scores) THEN it ELSE Len(scores))'
  BY <1>2, <1>4, <1>6, <1>12 DEF SortedAt, N
<1>16. QED
  BY <1>4, <1>13, <1>14, <1>15 DEF SortInv, SortDone

LEMMA AppendLastSorts ==
    ASSUME SortInv, AppendLast
    PROVE  SortInv'
<1> DEFINE N == Len(scores)
           L == Len(sorted)
           t == Append(sorted, it)
<1>1. SortTypes /\ pc = "compare"
  BY DEF SortInv, AppendLast
<1>2. /\ N \in Nat /\ LastOne = N /\ L \in Nat /\ DOMAIN sorted = 1 .. L
  BY <1>1, SortTypesFacts
<1>3. /\ it \in 2 .. N
      /\ Once(sorted) /\ Meets(sorted, Kept(it - 1)) /\ Rising(sorted)
  BY <1>1 DEF SortInv, SortedAt
<1>4. /\ it = N /\ sorted' = t /\ pc' = "next" /\ it' = it + 1
      /\ sentences' = sentences /\ scores' = scores
  BY DEF AppendLast
<1>5. sorted \in Seq(1 .. N)
  BY <1>1 DEF SortTypes
<1> HIDE DEF N
<1>6. it \in 1 .. N
  BY <1>2, <1>3
<1>7. /\ t \in Seq(1 .. N) /\ Len(t) = L + 1 /\ DOMAIN t = 1 .. L + 1
      /\ \A k \in 1 .. L : t[k] = sorted[k]
      /\ t[L + 1] = it
  BY <1>5, <1>6
<1> HIDE DEF t, L
<1>8. L = Len(sorted)
  BY DEF L
<1>9. Once(t) /\ Meets(t, Kept(N)) /\ Rising(t)
  <2>1. Appended(N, L, sorted, t)
    BY <1>2, <1>3, <1>4, <1>7, <1>8 DEF Appended
  <2>2. QED
    BY <2>1, AppendedSorts
<1>10. Once(sorted)' /\ Meets(sorted, Kept(Len(scores)))' /\ Rising(sorted)'
  BY <1>4, <1>9 DEF Once, Meets, Rising, Kept, Ascending, LastOne, N
<1>11. SortTypes'
  BY <1>1, <1>2, <1>4, <1>7 DEF SortTypes, N
<1>12. it' > Len(scores') /\ it' # 0
  BY <1>2, <1>4 DEF N
<1>13. SortedAt(IF it <= Len(scores) THEN it ELSE Len(scores))'
  BY <1>2, <1>4, <1>10, <1>12 DEF SortedAt, N
<1>14. QED
  BY <1>4, <1>11, <1>12, <1>13 DEF SortInv, SortDone

\* A sentence that is above all sorted ones is one the sort loses.
LEMMA DropSorts ==
    ASSUME SortInv, Drop
    PROVE  SortInv'
<1> DEFINE N == Len(scores)
           L == Len(sorted)
<1>1. SortTypes /\ pc = "compare"
  BY DEF SortInv, Drop
<1>2. /\ N \in Nat /\ LastOne = N /\ L \in Nat /\ DOMAIN sorted = 1 .. L
      /\ \A i \in 1 .. N : scores[i] \in Nat
  BY <1>1, SortTypesFacts
<1>3. /\ it \in 2 .. N /\ other = L
      /\ \A k \in 1 .. other : scores[sorted[k]] < scores[it]
      /\ other > 0 => it < N
      /\ Once(sorted) /\ Meets(sorted, Kept(it - 1)) /\ Rising(sorted)
  BY <1>1 DEF SortInv, SortedAt, Drop
<1>4. /\ pc' = "next" /\ UNCHANGED <<sentences, scores, it, sorted, other>>
  BY DEF Drop
<1> HIDE DEF N, L
<1>5. 1 \in Kept(it - 1)
  BY <1>2, <1>3 DEF Kept
<1>6. PICK k \in 1 .. L : sorted[k] = 1
  BY <1>2, <1>3, <1>5 DEF Meets
<1>7. it < N /\ scores[1] < scores[it]
  BY <1>2, <1>3, <1>6
<1>8. Kept(it) = Kept(it - 1)
  <2>1. it \notin {1, LastOne} /\ ~(scores[it] <= scores[1])
    BY <1>2, <1>3, <1>7
  <2>2. \A i : i \in 1 .. it <=> i \in 1 .. it - 1 \/ i = it
    BY <1>3
  <2>3. QED
    BY <2>1, <2>2, Zenon DEF Kept
<1>9. SortedAt(it)
  BY <1>3, <1>8 DEF SortedAt
<1>10. SortTypes'
  BY <1>1, <1>4 DEF SortTypes
<1>11. SortedAt(IF it <= Len(scores) THEN it ELSE Len(scores))'
  <2>1. (IF it <= Len(scores) THEN it ELSE Len(scores)) = it
    BY <1>2, <1>3, <1>7 DEF N
  <2>2. SortedAt(IF it <= Len(scores) THEN it ELSE Len(scores))
    BY <1>9, <2>1
  <2>3. QED
    BY <1>4, <2>2
    DEF SortedAt, Once, Meets, Rising, Kept, Ascending, LastOne
<1>12. QED
  BY <1>3, <1>4, <1>10, <1>11 DEF SortInv, SortDone

LEMMA SortFirstSorts ==
    ASSUME SortInv, SortFirst
    PROVE  SortInv'
<1>1. /\ SortTypes /\ sorted = <<>> /\ it = 0 /\ pc' = "next"
      /\ sentences' = sentences /\ scores' = scores
  BY DEF SortInv, SortFirst
<1>2. Len(scores) \in Nat /\ LastOne = Len(scores) /\ scores \in Seq(Nat)
  BY <1>1, SortTypesFacts DEF SortTypes
<1>3. CASE scores = <<>>
  <2>1. sorted' = <<>> /\ it' = 0 /\ scores' = <<>> /\ Len(scores') = 0
    BY <1>1, <1>3 DEF SortFirst
  <2>2. SortTypes'
    BY <1>1, <2>1 DEF SortTypes
  <2>3. SortedAt(0)'
    BY <1>1, <2>1 DEF SortedAt, Once, Meets, Rising, Kept
  <2>4. QED
    BY <1>1, <2>1, <2>2, <2>3 DEF SortInv, SortDone
<1>4. CASE scores # <<>>
  <2>1. sorted' = <<1>> /\ it' = 1 /\ Len(scores) > 0
    BY <1>1, <1>2, <1>4 DEF SortFirst
  <2>2. sorted' \in Seq(1 .. Len(scores)) /\ DOMAIN sorted' = {1}
    BY <1>2, <2>1
  <2>3. SortTypes'
    BY <1>1, <1>2, <2>1, <2>2 DEF SortTypes
  <2>4. Kept(1)' = {1}
    BY <1>1, <1>2, <2>1 DEF Kept, LastOne
  <2>5. Once(sorted)' /\ Rising(sorted)'
    BY <2>1, <2>2 DEF Once, Rising
  <2>6. Meets(sorted, Kept(1))'
    BY <2>1, <2>2, <2>4 DEF Meets
  <2>7. SortedAt(IF it <= Len(scores) THEN it ELSE Len(scores))'
    BY <1>1, <1>2, <2>1, <2>5, <2>6 DEF SortedAt
  <2>8. QED
    BY <1>1, <2>1, <2>3, <2>7 DEF SortInv, SortDone
<1>5. QED
  BY <1>3, <1>4

\* A step that leaves the lists alone leaves what is sorted.
LEMMA SortedStays ==
    ASSUME NEW n, SortedAt(n), UNCHANGED <<sentences, scores, sorted>>
    PROVE  SortedAt(n)'
BY DEF SortedAt, Once, Meets, Rising, Kept, Ascending, LastOne

LEMMA SortNextSorts ==
    ASSUME SortInv, SortNext
    PROVE  SortInv'
<1>1. /\ SortTypes /\ pc = "next" /\ it < Len(scores)
      /\ pc' = "compare" /\ it' = it + 1 /\ other' = 0
      /\ UNCHANGED <<sentences, scores, sorted>>
  BY DEF SortInv, SortNext
<1>2. Len(scores) \in Nat /\ Len(sorted) \in Nat
  BY <1>1, SortTypesFacts
<1>3. it \in 1 .. Len(scores)
  <2>1. it = 0 => scores = <<>>
    BY <1>1 DEF SortInv
  <2>2. it \in 0 .. Len(scores) + 1 /\ it # 0
    BY <1>1, <2>1 DEF SortTypes
  <2>3. QED
    BY <1>1, <1>2, <2>2
<1>4. SortedAt(it)
  BY <1>1, <1>2, <1>3 DEF SortInv
<1>5. PICK n : n = it
  OBVIOUS
<1>6. SortedAt(n)'
  BY <1>1, <1>4, <1>5, SortedStays
<1>7. it' \in 2 .. Len(scores) /\ it' - 1 = n
  BY <1>1, <1>2, <1>3, <1>5
<1>8. SortTypes'
  BY <1>1, <1>2, <1>7 DEF SortTypes
<1>9. SortedAt(it - 1)'
  BY <1>6, <1>7
<1>10. other' \in 0 .. Len(sorted)
  BY <1>1, <1>2
<1>11. QED
  BY <1>1, <1>2, <1>7, <1>8, <1>9, <1>10 DEF SortInv, SortDone

LEMMA SortEndsSorts ==
    ASSUME SortInv, SortEnds
    PROVE  SortInv'
<1>1. /\ SortTypes /\ pc = "next" /\ it >= Len(scores)
      /\ pc' = "pick" /\ UNCHANGED <<sentences, scores, it, sorted>>
  BY DEF SortInv, SortEnds
<1>2. Len(scores) \in Nat
  BY <1>1, SortTypesFacts
<1>3. SortedAt(Len(scores))
  <2>1. (IF it <= Len(scores) THEN it ELSE Len(scores)) = Len(scores)
    BY <1>1, <1>2 DEF SortTypes
  <2>2. QED
    BY <1>1, <2>1 DEF SortInv
<1>4. SortTypes'
  BY <1>1 DEF SortTypes
<1>5. SortedAt(Len(scores))'
  BY <1>1, <1>3
  DEF SortedAt, Once, Meets, Rising, Kept, Ascending, LastOne
<1>6. QED
  BY <1>1, <1>4, <1>5 DEF SortInv, SortDone

LEMMA PassSorts ==
    ASSUME SortInv, Pass
    PROVE  SortInv'
<1>1. /\ SortTypes /\ pc = "compare" /\ other < Len(sorted) /\ it < Len(scores)
      /\ ~(scores[it] <= scores[sorted[other + 1]]) /\ other' = other + 1
      /\ UNCHANGED <<pc, sentences, scores, it, sorted>>
  BY DEF SortInv, Pass, IsNotAbove
<1>2. /\ it \in 2 .. Len(scores) /\ other \in 0 .. Len(sorted)
      /\ \A k \in 1 .. other : scores[sorted[k]] < scores[it]
      /\ SortedAt(it - 1)
  BY <1>1 DEF SortInv
<1>3. /\ Len(scores) \in Nat /\ Len(sorted) \in Nat
      /\ \A i \in 1 .. Len(scores) : scores[i] \in Nat
      /\ \A k \in 1 .. Len(sorted) : sorted[k] \in 1 .. Len(scores)
  BY <1>1, SortTypesFacts
<1>4. \A k \in 1 .. other + 1 : scores[sorted[k]] < scores[it]
  <2>1. scores[sorted[other + 1]] < scores[it]
    BY <1>1, <1>2, <1>3
  <2>2. \A k \in 1 .. other + 1 : k \in 1 .. other \/ k = other + 1
    BY <1>2
  <2>3. QED
    BY <1>2, <2>1, <2>2
<1>5. other' \in 0 .. Len(sorted)
  BY <1>1, <1>2, <1>3
<1>6. SortTypes'
  BY <1>1 DEF SortTypes
<1>7. SortedAt(it - 1)'
  BY <1>1, <1>2
  DEF SortedAt, Once, Meets, Rising, Kept, Ascending, LastOne
<1>8. QED
  BY <1>1, <1>2, <1>4, <1>5, <1>6, <1>7 DEF SortInv, SortDone

-----------------------------------------------------------------------------
(* The rest of the call *)

\* A document comes with a score, a natural number, for each sentence.
LEMMA TakeSorts ==
    ASSUME SortInv, NEW d \in Documents, Take(d)
    PROVE  SortInv'
<1>1. /\ pc' = "first" /\ sentences' = d
      /\ sorted' = <<>> /\ it' = 0
  BY DEF SortInv, Take
<1>2. d \in Seq(Texts)
  BY DocumentsAssumption
<1>3. PICK s \in [DOMAIN d -> UNION {ScoresOf(d, i) : i \in DOMAIN d}] :
        (\A i \in DOMAIN d : s[i] \in ScoresOf(d, i)) /\ scores' = s
  BY DEF Take
<1>4. \A i \in DOMAIN d : s[i] \in Nat
  BY <1>3, ScoresAssumption
<1>5. s \in [1 .. Len(d) -> Nat] /\ Len(d) \in Nat
  BY <1>2, <1>3, <1>4
<1>6. s \in Seq(Nat) /\ Len(s) = Len(d)
  BY <1>5
<1>7. SortTypes'
  BY <1>1, <1>2, <1>3, <1>6 DEF SortTypes
<1>8. QED
  BY <1>1, <1>7 DEF SortInv, SortDone

LEMMA ClearSorts ==
    ASSUME Clear
    PROVE  SortInv'
<1>1. /\ pc' = "idle" /\ sentences' = <<>> /\ scores' = <<>> /\ it' = 0
      /\ sorted' = <<>>
  BY DEF Clear
<1>2. SortTypes'
  BY <1>1 DEF SortTypes
<1>3. QED
  BY <1>1, <1>2 DEF SortInv, SortDone

\* Picking and collecting read what is sorted.
LEMMA PickSorts ==
    ASSUME SortInv, SortDone, SortDone', UNCHANGED <<sentences, scores, it, sorted>>
    PROVE  SortInv'
<1>1. SortTypes /\ SortedAt(Len(scores))
  BY DEF SortInv
<1>2. SortTypes'
  BY <1>1 DEF SortTypes, SortDone
<1>3. SortedAt(Len(scores))'
  BY <1>1
  DEF SortedAt, Once, Meets, Rising, Kept, Ascending, LastOne
<1>4. QED
  BY <1>2, <1>3 DEF SortInv, SortDone

LEMMA SortCorrect == Spec => []SortInv
<1>1. Init => SortInv
  BY DEF Init, SortInv, SortTypes, SortDone
<1>2. SortInv /\ [Next]_vars => SortInv'
  <2> SUFFICES ASSUME SortInv, [Next]_vars PROVE SortInv'
    OBVIOUS
  <2>1. ASSUME NEW d \in Documents, Take(d) PROVE SortInv'
    BY <2>1, TakeSorts
  <2>2. CASE SortFirst
    BY <2>2, SortFirstSorts
  <2>3. CASE SortNext
    BY <2>3, SortNextSorts
  <2>4. CASE SortEnds
    BY <2>4, SortEndsSorts
  <2>5. CASE Insert
    BY <2>5, InsertSorts
  <2>6. CASE AppendLast
    BY <2>6, AppendLastSorts
  <2>7. CASE Pass
    BY <2>7, PassSorts
  <2>8. CASE Drop
    BY <2>8, DropSorts
  <2>9. CASE Pick
    BY <2>9, PickSorts DEF Pick, SortDone
  <2>10. CASE Collect
    BY <2>10, PickSorts DEF Collect, SortDone
  <2>11. CASE Return
    BY <2>11, ClearSorts DEF Return
  <2>12. CASE Corrupted
    BY <2>12, ClearSorts DEF Corrupted
  <2>13. CASE UNCHANGED vars
    BY <2>13
    DEF vars, SortInv, SortTypes, SortedAt, Once, Meets, Rising, Kept,
        Ascending, LastOne, SortDone
  <2>14. QED
    BY <2>1, <2>2, <2>3, <2>4, <2>5, <2>6, <2>7, <2>8, <2>9, <2>10, <2>11,
       <2>12, <2>13 DEF Next
<1>3. QED
  BY <1>1, <1>2, PTL DEF Spec

-----------------------------------------------------------------------------
(* The properties *)

\* A sequence that says nothing twice is as long as what it says is large.
LEMMA OnceCardinality ==
    ASSUME NEW S, NEW s \in Seq(S), Once(s)
    PROVE  Len(s) = Cardinality({s[k] : k \in DOMAIN s})
<1> DEFINE D == 1 .. Len(s)
           T == {s[k] : k \in DOMAIN s}
<1>1. Len(s) \in Nat /\ DOMAIN s = D
  OBVIOUS
<1>2. s \in [D -> T]
  BY <1>1
<1>3. s \in Bijection(D, T)
  <2>1. \A k, l \in D : s[k] = s[l] => k = l
    BY <1>1 DEF Once
  <2>2. \A v \in T : \E k \in D : s[k] = v
    BY <1>1
  <2> HIDE DEF D, T
  <2>3. s \in Injection(D, T)
    BY <1>2, <2>1 DEF Injection, IsInjective
  <2>4. s \in Surjection(D, T)
    BY <1>2, <2>2 DEF Surjection
  <2>5. QED
    BY <2>3, <2>4 DEF Bijection
<1>4. IsFiniteSet(D) /\ Cardinality(D) = Len(s)
  BY <1>1, FS_Interval
<1>5. Cardinality(T) = Cardinality(D)
  <2>1. ExistsBijection(D, T)
    BY <1>3 DEF ExistsBijection
  <2> HIDE DEF D, T
  <2>2. QED
    BY <1>4, <2>1, FS_Bijection
<1>6. QED
  BY <1>4, <1>5

\* After the sort, the sorted list has the first sentence, the last, and those
\* that are not above the first, once each
\* (_irs_sort_doc_sentences_by_score).
THEOREM SortKeepsCorrect == Spec => []SortKeeps
<1>1. SortInv => SortKeeps
  <2> SUFFICES ASSUME SortInv, SortDone PROVE SortKeeps
    BY DEF SortKeeps
  <2>1. SortTypes /\ SortedAt(Len(scores))
    BY DEF SortInv
  <2>2. sorted \in Seq(1 .. Len(scores)) /\ Once(sorted)
    BY <2>1 DEF SortTypes, SortedAt
  <2>3. Len(sorted) = Cardinality({sorted[k] : k \in DOMAIN sorted})
    BY <2>2, OnceCardinality
  <2>4. {sorted[k] : k \in DOMAIN sorted} = Kept(Len(scores))
    BY <2>1 DEF SortedAt, Meets
  <2>5. Sentences = 1 .. Len(scores)
    BY <2>1 DEF SortTypes, Sentences
  <2>6. QED
    BY <2>3, <2>4, <2>5 DEF SortKeeps, Kept
<1>2. QED
  BY <1>1, SortCorrect, PTL

\* What is sorted is in ascending order, but for the last sentence of the
\* document, which may be at the end (_irs_sort_doc_sentences_by_score).
THEOREM SortedUpToLastCorrect == Spec => []SortedUpToLast
<1>1. SortInv => SortedUpToLast
  BY DEF SortInv, SortedAt, Rising, SortedUpToLast
<1>2. QED
  BY <1>1, SortCorrect, PTL

\* Something is written behind the slots only when the sort has lost a
\* sentence.
Lost == \E i \in Sentences : \A k \in DOMAIN sorted : sorted[k] # i

OverrunInv ==
    /\ overran => SortDone /\ Lost
    /\ pc = "pick" => other <= Len(sorted) + 1 /\ other \in Int

\* If nothing is lost, there is a slot for each sentence.
LEMMA NothingLost ==
    ASSUME SortInv, SortDone, ~Lost
    PROVE  Len(sorted) = Len(sentences)
<1>1. /\ SortTypes /\ SortedAt(Len(scores))
  BY DEF SortInv
<1>2. Len(scores) \in Nat /\ Len(scores) = Len(sentences)
  BY <1>1, SortTypesFacts DEF SortTypes
<1>3. sorted \in Seq(1 .. Len(scores)) /\ Once(sorted)
  BY <1>1 DEF SortTypes, SortedAt
<1>4. Sentences = 1 .. Len(scores)
  BY <1>1 DEF SortTypes, Sentences
<1>5. {sorted[k] : k \in DOMAIN sorted} = 1 .. Len(scores)
  BY <1>3, <1>4 DEF Lost
<1>6. Len(sorted) = Cardinality(1 .. Len(scores))
  BY <1>3, <1>5, OnceCardinality
<1>7. Cardinality(1 .. Len(scores)) = Len(scores)
  <2> DEFINE N == Len(scores)
  <2>1. N \in Nat
    BY <1>2
  <2> HIDE DEF N
  <2>2. Cardinality(1 .. N) = IF 1 > N THEN 0 ELSE N - 1 + 1
    BY <2>1, FS_Interval
  <2>3. QED
    BY <2>1, <2>2 DEF N
<1>8. QED
  BY <1>2, <1>6, <1>7

LEMMA OverrunCorrect == Spec => []OverrunInv
<1>1. Init => OverrunInv
  BY DEF Init, OverrunInv
<1>2. SortInv /\ OverrunInv /\ [Next]_vars => OverrunInv'
  <2> SUFFICES ASSUME SortInv, OverrunInv, [Next]_vars PROVE OverrunInv'
    OBVIOUS
  <2>1. ASSUME NEW d \in Documents, Take(d) PROVE OverrunInv'
    BY <2>1 DEF Take, OverrunInv, SortDone
  <2>2. CASE SortFirst
    BY <2>2 DEF SortFirst, OverrunInv, SortDone
  <2>3. CASE SortNext
    BY <2>3 DEF SortNext, OverrunInv, SortDone
  <2>4. CASE SortEnds
    <3>1. Len(sorted) \in Nat
      BY SortTypesFacts DEF SortInv
    <3>2. /\ pc' = "pick" /\ other' = Len(sorted) + 1 /\ ~overran
          /\ sorted' = sorted /\ overran' = overran
      BY <2>4 DEF SortEnds, OverrunInv, SortDone
    <3>3. QED
      BY <3>1, <3>2 DEF OverrunInv
  <2>5. CASE Insert
    BY <2>5 DEF Insert, OverrunInv, SortDone
  <2>6. CASE AppendLast
    BY <2>6 DEF AppendLast, OverrunInv, SortDone
  <2>7. CASE Pass
    BY <2>7 DEF Pass, OverrunInv, SortDone
  <2>8. CASE Drop
    BY <2>8 DEF Drop, OverrunInv, SortDone
  <2>9. CASE Pick
    <3> DEFINE i == SentenceCopied(sorted[other - 1])
    <3>1. /\ pc = "pick" /\ pc' = "pick" /\ other > 1 /\ other' = other - 1
          /\ UNCHANGED <<sentences, sorted>>
      BY <2>9 DEF Pick
    <3>2. /\ Len(sorted) \in Nat
          /\ \A k \in 1 .. Len(sorted) : sorted[k] \in 1 .. Len(scores)
          /\ Len(scores) = Len(sentences) /\ Len(scores) \in Nat
      BY SortTypesFacts DEF SortInv, SortTypes
    <3>3. other \in Int /\ other - 1 \in 1 .. Len(sorted)
      BY <3>1, <3>2 DEF OverrunInv
    <3>4. other' \in Int /\ other' <= Len(sorted') + 1
      BY <3>1, <3>2, <3>3
    <3>5. SortDone /\ SortDone' /\ Lost' = Lost
      BY <3>1 DEF SortDone, Lost, Sentences
    <3>6. CASE overran' = overran
      BY <3>1, <3>4, <3>5, <3>6 DEF OverrunInv
    <3>7. CASE overran' # overran
      <4>1. ~(i <= Len(sorted))
        BY <2>9, <3>7 DEF Pick, Slots
      <4>2. i = sorted[other - 1] - 1 /\ sorted[other - 1] \in 1 .. Len(sentences)
        BY <3>2, <3>3 DEF SentenceCopied
      <4>3. Len(sorted) # Len(sentences)
        BY <3>2, <4>1, <4>2
      <4>4. Lost
        BY <3>5, <4>3, NothingLost
      <4>5. QED
        BY <3>1, <3>4, <3>5, <4>4 DEF OverrunInv
    <3>8. QED
      BY <3>6, <3>7
  <2>10. CASE Collect
    BY <2>10 DEF Collect, OverrunInv, SortDone, Lost, Sentences
  <2>11. CASE Return
    BY <2>11 DEF Return, Clear, OverrunInv
  <2>12. CASE Corrupted
    BY <2>12 DEF Corrupted, Clear, OverrunInv
  <2>13. CASE UNCHANGED vars
    BY <2>13 DEF vars, OverrunInv, SortDone, Lost, Sentences
  <2>14. QED
    BY <2>1, <2>2, <2>3, <2>4, <2>5, <2>6, <2>7, <2>8, <2>9, <2>10, <2>11,
       <2>12, <2>13 DEF Next
<1>3. QED
  BY <1>1, <1>2, SortCorrect, PTL DEF Spec

\* A summary for which the sort lost no sentence is written where there is room
\* for it (_irs_get_document_summarization).
THEOREM InArrayCorrect == Spec => []InArray
<1>1. OverrunInv => InArray
  BY DEF OverrunInv, InArray, Lost
<1>2. QED
  BY <1>1, OverrunCorrect, PTL

-----------------------------------------------------------------------------
(* Where sentences start *)

\* What Offset adds up: a sentence starts one delimiter after the one before it.
LEMMA OffsetRecursion ==
    ASSUME NEW d \in Seq(Texts)
    PROVE  \E f \in [0 .. Len(d) -> Nat] :
             /\ f[0] = 0
             /\ \A n \in 1 .. Len(d) : f[n] = f[n - 1] + Length[d[n]] + 1
             /\ \A i : Offset(d, i) = f[i - 1]
<1> DEFINE N == Len(d)
           step == [x \in (1 .. N) \X Nat |-> x[2] + Length[d[x[1]]] + 1]
           Is(f) == f = [n \in 0 .. N |->
                            IF n = 0 THEN 0 ELSE f[n - 1] + Length[d[n]] + 1]
           after == CHOOSE f : Is(f)
           Good == {n \in 0 .. N : after[n] \in Nat}
<1>1. N \in Nat /\ \A n \in 1 .. N : Length[d[n]] \in Nat
  BY TextsAssumption
<1>2. IsLoop(N, Nat, 0, step)
  BY <1>1 DEF IsLoop
<1>3. PICK g : IsRun(g, N, Nat, 0, step)
  <2> HIDE DEF N, step
  <2>1. QED
    BY <1>2, RecursiveFunction
<1>4. \A n \in 1 .. N : step[<<n, g[n - 1]>>] = g[n - 1] + Length[d[n]] + 1
  BY <1>1, <1>3 DEF IsRun
<1> HIDE DEF step
<1>5. Is(g)
  <2>1. ASSUME NEW n \in 0 .. N
        PROVE  g[n] = IF n = 0 THEN 0 ELSE g[n - 1] + Length[d[n]] + 1
    <3>1. CASE n = 0
      BY <1>3, <3>1 DEF IsRun
    <3>2. CASE n \in 1 .. N
      BY <1>3, <1>4, <3>2 DEF IsRun
    <3>3. QED
      BY <1>1, <3>1, <3>2
  <2>2. QED
    BY <1>3, <2>1 DEF IsRun
<1>6. Is(after)
  <2> HIDE DEF Is
  <2>1. QED
    BY <1>5
<1>7. \A i : Offset(d, i) = after[i - 1]
  BY DEF Offset
<1> HIDE DEF after
<1>8. /\ after[0] = 0
      /\ \A n \in 1 .. N : after[n] = after[n - 1] + Length[d[n]] + 1
  BY <1>1, <1>6
<1>9. \A n \in 0 .. N : after[n] \in Nat
  <2>1. 0 \in Good /\ \A m \in 0 .. N - 1 : m \in Good => m + 1 \in Good
    <3>1. ASSUME NEW m \in 0 .. N - 1, after[m] \in Nat
          PROVE  after[m + 1] \in Nat
      BY <1>1, <1>8, <3>1
    <3> HIDE DEF N
    <3>2. QED
      BY <1>1, <1>8, <3>1
  <2> HIDE DEF Good, N
  <2>2. \A n \in 0 .. N : n \in Good
    BY <1>1, <2>1, Induction
  <2>3. QED
    BY <2>2 DEF Good
<1>10. after \in [0 .. N -> Nat]
  BY <1>6, <1>9
<1>11. QED
  BY <1>7, <1>8, <1>10

LEMMA OffsetNext ==
    ASSUME NEW d \in Seq(Texts)
    PROVE  /\ Offset(d, 1) = 0
           /\ \A i \in 1 .. Len(d) + 1 : Offset(d, i) \in Nat
           /\ \A i \in 1 .. Len(d) :
                /\ Length[d[i]] \in Nat \ {0}
                /\ Offset(d, i + 1) = Offset(d, i) + Length[d[i]] + 1
<1>1. PICK f \in [0 .. Len(d) -> Nat] :
        /\ f[0] = 0
        /\ \A n \in 1 .. Len(d) : f[n] = f[n - 1] + Length[d[n]] + 1
        /\ \A i : Offset(d, i) = f[i - 1]
  BY OffsetRecursion
<1>2. Len(d) \in Nat /\ \A n \in 1 .. Len(d) : Length[d[n]] \in Nat \ {0}
  BY TextsAssumption
<1>3. ASSUME NEW i \in 1 .. Len(d)
      PROVE  Offset(d, i + 1) = Offset(d, i) + Length[d[i]] + 1
  <2>1. (i + 1) - 1 = i
    OBVIOUS
  <2>2. Offset(d, i + 1) = f[i] /\ Offset(d, i) = f[i - 1]
    BY <1>1, <2>1
  <2>3. QED
    BY <1>1, <2>2
<1>4. ASSUME NEW i \in 1 .. Len(d) + 1
      PROVE  Offset(d, i) \in Nat
  <2>1. i - 1 \in 0 .. Len(d)
    BY <1>2
  <2>2. QED
    BY <1>1, <2>1
<1>5. Offset(d, 1) = 0
  BY <1>1, 1 - 1 = 0
<1>6. QED
  BY <1>2, <1>3, <1>4, <1>5

\* Sentences start one after the other.
LEMMA OffsetsGrow ==
    ASSUME NEW d \in Seq(Texts), NEW i \in 1 .. Len(d) + 1,
           NEW j \in 1 .. Len(d) + 1, i < j
    PROVE  Offset(d, i) < Offset(d, j)
<1> DEFINE N == j - i - 1
           Good == {n \in 0 .. N : Offset(d, i) < Offset(d, i + 1 + n)}
<1>1. Len(d) \in Nat /\ N \in Nat
  OBVIOUS
<1>2. ASSUME NEW n \in 0 .. N
      PROVE  /\ i + n \in 1 .. Len(d) /\ i + n \in 1 .. Len(d) + 1
             /\ Offset(d, i + n) < Offset(d, i + n + 1)
             /\ Offset(d, i + n) \in Nat /\ Offset(d, i + n + 1) \in Nat
  <2>1. /\ i + n \in 1 .. Len(d) /\ i + n \in 1 .. Len(d) + 1
        /\ i + n + 1 \in 1 .. Len(d) + 1
    BY <1>1
  <2>2. /\ Offset(d, i + n + 1) = Offset(d, i + n) + Length[d[i + n]] + 1
        /\ Length[d[i + n]] \in Nat
        /\ Offset(d, i + n) \in Nat /\ Offset(d, i + n + 1) \in Nat
    BY <2>1, OffsetNext
  <2>3. QED
    BY <2>1, <2>2
<1>3. 0 \in Good
  <2>1. 0 \in 0 .. N /\ i + 0 = i /\ i + 0 + 1 = i + 1 + 0
    BY <1>1
  <2>2. Offset(d, i + 0) < Offset(d, i + 0 + 1)
    BY <1>2, <2>1
  <2>3. QED
    BY <2>1, <2>2
<1>4. ASSUME NEW m \in 0 .. N - 1, m \in Good
      PROVE  m + 1 \in Good
  <2>1. m \in 0 .. N /\ m + 1 \in 0 .. N
    BY <1>1
  <2>2. i + (m + 1) = i + 1 + m /\ i + (m + 1) + 1 = i + 1 + (m + 1)
    OBVIOUS
  <2>3. /\ Offset(d, i + (m + 1)) < Offset(d, i + (m + 1) + 1)
        /\ Offset(d, i + (m + 1)) \in Nat /\ Offset(d, i + (m + 1) + 1) \in Nat
    BY <1>2, <2>1
  <2>4. Offset(d, i) < Offset(d, i + 1 + m) /\ Offset(d, i) \in Nat
    BY <1>4, OffsetNext
  <2>5. QED
    BY <2>1, <2>2, <2>3, <2>4
<1> HIDE DEF Good
<1>5. N \in Good
  <2> HIDE DEF N
  <2>1. \A n \in 0 .. N : n \in Good
    BY <1>1, <1>3, <1>4, Induction
  <2>2. QED
    BY <1>1, <2>1
<1>6. i + 1 + N = j
  BY <1>1
<1>7. QED
  BY <1>5, <1>6 DEF Good

\* As far as the offsets are concerned, the document ends where a further
\* sentence would start.
LEMMA OffsetInside ==
    ASSUME NEW d \in Seq(Texts), NEW i \in 1 .. Len(d)
    PROVE  /\ Offset(d, i) \in Nat /\ Offset(d, Len(d) + 1) \in Nat
           /\ Length[d[i]] \in Nat \ {0}
           /\ Offset(d, i) + Length[d[i]] + 1 <= Offset(d, Len(d) + 1)
<1>1. Len(d) \in Nat /\ Len(d) + 1 \in 1 .. Len(d) + 1 /\ i \in 1 .. Len(d) + 1
  OBVIOUS
<1>2. /\ Offset(d, i + 1) = Offset(d, i) + Length[d[i]] + 1
      /\ Offset(d, i) \in Nat /\ Offset(d, Len(d) + 1) \in Nat
      /\ Length[d[i]] \in Nat \ {0}
  BY <1>1, OffsetNext
<1>3. CASE i = Len(d)
  BY <1>2, <1>3
<1>4. CASE i # Len(d)
  <2>1. i + 1 \in 1 .. Len(d) + 1 /\ i + 1 < Len(d) + 1
    BY <1>1, <1>4
  <2>2. Offset(d, i + 1) < Offset(d, Len(d) + 1)
    BY <1>1, <2>1, OffsetsGrow
  <2>3. QED
    BY <1>2, <2>2
<1>5. QED
  BY <1>3, <1>4

\* Scores grow with what they are computed from.
LEMMA DivGrows ==
    ASSUME NEW m \in Nat, NEW n \in Nat, NEW k \in Nat \ {0}, m <= n
    PROVE  m \div k <= n \div k
<1> DEFINE p == m \div k
           q == n \div k
<1>1. p \in Int /\ q \in Int
  OBVIOUS
<1>2. k * p <= m /\ m < k * (p + 1)
  BY Z3
<1>3. k * q <= n /\ n < k * (q + 1)
  BY Z3
<1>4. k * p < k * (q + 1) /\ k * p \in Int /\ k * (q + 1) \in Int
  <2> HIDE DEF p, q
  <2>1. k * p \in Int /\ k * (q + 1) \in Int
    BY <1>1
  <2>2. QED
    BY <1>2, <1>3, <2>1
<1>5. p < q + 1
  <2> HIDE DEF p, q
  <2>1. SUFFICES ASSUME q + 1 <= p PROVE FALSE
    BY <1>1
  <2>2. k * (q + 1) <= k * p
    BY <1>1, <2>1, Z3
  <2>3. QED
    BY <1>4, <2>2
<1>6. QED
  <2> HIDE DEF p, q
  <2>1. p <= q
    BY <1>1, <1>5
  <2>2. QED
    BY <2>1 DEF p, q

LEMMA SquareGrows ==
    ASSUME NEW m \in Nat, NEW n \in Nat, NEW k \in Nat, m <= n
    PROVE  m * m * k \in Nat /\ n * n * k \in Nat /\ m * m * k <= n * n * k
<1>1. m * m \in Nat /\ n * n \in Nat /\ m * m <= n * n
  BY Z3
<1> DEFINE p == m * m
           q == n * n
<1>2. p \in Nat /\ q \in Nat /\ p <= q
  BY <1>1
<1>3. p * k \in Nat /\ q * k \in Nat /\ p * k <= q * k
  <2> HIDE DEF p, q
  <2>1. QED
    BY <1>2, Z3
<1>4. QED
  BY <1>3

LEMMA OfOne ==
    ASSUME NEW n \in Int
    PROVE  Smallest({n}) = n /\ Largest({n}) = n
BY DEF Smallest, Largest

\* In a plain document each sentence is found where it is, and its part is all of
\* the document.
LEMMA PlainScore ==
    ASSUME NEW d \in Seq(Texts), IsPlain(d), NEW i \in 1 .. Len(d)
    PROVE  LET size == Offset(d, Len(d) + 1)
               rest == size - Offset(d, i) - 1
           IN ScoresOf(d, i) = {(rest * rest * SCALE) \div (size * size)}
<1> DEFINE size == Offset(d, Len(d) + 1)
           at == Offset(d, i)
<1>1. /\ at \in Nat /\ size \in Nat /\ Length[d[i]] \in Nat
      /\ at + Length[d[i]] <= size
  BY OffsetInside
<1>2. Position(d, i) = at
  <2>1. {j \in DOMAIN d : d[j] = d[i]} = {i}
    BY DEF IsPlain
  <2>2. QED
    BY <2>1, OfOne DEF Position
<1>3. PartStart(d, at) = 0
  <2> DEFINE before == {b \in LineBreaks(d) : b <= at}
  <2>1. before = {}
    BY DEF IsPlain
  <2>2. PartStart(d, at) = Largest({0} \cup before)
    BY DEF PartStart
  <2> HIDE DEF before
  <2>3. {0} \cup before = {0}
    BY <2>1
  <2>4. Largest({0}) = 0
    BY OfOne
  <2>5. QED
    BY <2>2, <2>3, <2>4
<1>4. PartEnd(d, at) = size
  <2>1. {b \in LineBreaks(d) : b > at} = {}
    BY DEF IsPlain
  <2>2. QED
    BY <2>1 DEF PartEnd
<1> HIDE DEF size, at
<1>5. size - 0 = size /\ at - 0 = at
  BY <1>1
<1>6. ScoresOf(d, i) =
        {((size - at - 1) * (size - at - 1) * SCALE) \div (size * size)}
  <2>1. size - (at - 0) - 1 = size - at - 1
    BY <1>1
  <2>2. ScoresOf(d, i) =
          IF at + Length[d[i]] <= size
          THEN {((size - at - 1) * (size - 0 - (at - 0) - 1) * SCALE)
                  \div (size * (size - 0))}
          ELSE Undefined
    BY <1>2, <1>3, <1>4 DEF ScoresOf, size
  <2>3. QED
    BY <1>1, <1>5, <2>2
<1>7. QED
  BY <1>6 DEF size, at

\* A sentence of a plain document never has a higher score than one before it.
LEMMA PlainScoresFall ==
    ASSUME NEW d \in Seq(Texts), IsPlain(d),
           NEW i \in 1 .. Len(d), NEW j \in 1 .. Len(d), i < j,
           NEW v \in ScoresOf(d, i), NEW w \in ScoresOf(d, j)
    PROVE  w <= v
<1> DEFINE size == Offset(d, Len(d) + 1)
           rest(k) == size - Offset(d, k) - 1
<1>1. /\ size \in Nat \ {0} /\ rest(i) \in Nat /\ rest(j) \in Nat
      /\ rest(j) <= rest(i)
  <2>1. /\ Offset(d, i) \in Nat /\ Offset(d, j) \in Nat /\ size \in Nat
        /\ Length[d[i]] \in Nat /\ Length[d[j]] \in Nat
        /\ Offset(d, i) + Length[d[i]] + 1 <= size
        /\ Offset(d, j) + Length[d[j]] + 1 <= size
    BY OffsetInside
  <2>2. Offset(d, i) < Offset(d, j)
    BY OffsetsGrow
  <2> DEFINE a == Offset(d, i)
             b == Offset(d, j)
  <2>3. rest(i) = size - a - 1 /\ rest(j) = size - b - 1
    OBVIOUS
  <2> HIDE DEF size, a, b, rest
  <2>4. /\ size \in Nat /\ a \in Nat /\ b \in Nat /\ a < b
        /\ a + 1 <= size /\ b + 1 <= size
    BY <2>1, <2>2 DEF a, b
  <2>5. QED
    BY <2>3, <2>4
<1>2. /\ v = (rest(i) * rest(i) * SCALE) \div (size * size)
      /\ w = (rest(j) * rest(j) * SCALE) \div (size * size)
  BY PlainScore
<1> HIDE DEF rest, size
<1>3. /\ rest(i) * rest(i) * SCALE \in Nat /\ rest(j) * rest(j) * SCALE \in Nat
      /\ rest(j) * rest(j) * SCALE <= rest(i) * rest(i) * SCALE
  <2>1. SCALE \in Nat
    BY DEF SCALE
  <2>2. QED
    BY <1>1, <2>1, SquareGrows
<1>4. size * size \in Nat \ {0}
  BY <1>1, Z3
<1>5. QED
  BY <1>2, <1>3, <1>4, DivGrows

-----------------------------------------------------------------------------
(* What is picked *)

\* What the loop over slots has met: it starts with nothing and goes through all.
LEMMA SetSlotsRecursion ==
    ASSUME Len(sorted) \in Nat
    PROVE  \E f \in [0 .. Len(sorted) -> Seq(1 .. Len(sorted))] :
             /\ f[0] = <<>>
             /\ \A n \in 1 .. Len(sorted) :
                  f[n] = IF n \in summar THEN Append(f[n - 1], n) ELSE f[n - 1]
             /\ SetSlots = f[Len(sorted)]
<1> DEFINE N == Len(sorted)
           S == Seq(1 .. N)
           step == [x \in (1 .. N) \X S |->
                       IF x[1] \in summar THEN Append(x[2], x[1]) ELSE x[2]]
           Is(f) == f = [n \in 0 .. N |->
                            IF n = 0 THEN <<>>
                            ELSE IF n \in summar THEN Append(f[n - 1], n)
                            ELSE f[n - 1]]
           met == CHOOSE f : Is(f)
           Good == {n \in 0 .. N : met[n] \in S}
<1>1. N \in Nat /\ <<>> \in S /\ \A v \in S, n \in 1 .. N : Append(v, n) \in S
  OBVIOUS
<1> HIDE DEF N, S
<1>2. IsLoop(N, S, <<>>, step)
  BY <1>1 DEF IsLoop
<1>3. PICK g : IsRun(g, N, S, <<>>, step)
  <2> HIDE DEF step
  <2>1. QED
    BY <1>2, RecursiveFunction
<1>4. ASSUME NEW n \in 1 .. N
      PROVE  g[n] = IF n \in summar THEN Append(g[n - 1], n) ELSE g[n - 1]
  <2>1. g[n - 1] \in S /\ g[n] = step[<<n, g[n - 1]>>]
    <3>1. n - 1 \in 0 .. N
      BY <1>1
    <3> HIDE DEF step
    <3>2. QED
      BY <1>3, <3>1 DEF IsRun
  <2>2. QED
    BY <2>1
<1> HIDE DEF step
<1>5. Is(g)
  <2>1. ASSUME NEW n \in 0 .. N
        PROVE  g[n] = IF n = 0 THEN <<>>
                      ELSE IF n \in summar THEN Append(g[n - 1], n)
                      ELSE g[n - 1]
    <3>1. CASE n = 0
      BY <1>3, <3>1 DEF IsRun
    <3>2. CASE n \in 1 .. N
      BY <1>4, <3>2
    <3>3. QED
      BY <1>1, <3>1, <3>2
  <2>2. QED
    BY <1>3, <2>1 DEF IsRun
<1>6. Is(met)
  <2> HIDE DEF Is
  <2>1. QED
    BY <1>5
<1>7. SetSlots = met[N]
  BY DEF SetSlots, N
<1> HIDE DEF met
<1>8. met[0] = <<>>
  <2>1. 0 \in 0 .. N
    BY <1>1
  <2>2. QED
    BY <1>6, <2>1
<1>9. ASSUME NEW n \in 1 .. N
      PROVE  met[n] = IF n \in summar THEN Append(met[n - 1], n) ELSE met[n - 1]
  <2>1. n \in 0 .. N /\ n # 0
    BY <1>1
  <2>2. QED
    BY <1>6, <2>1
<1>10. met \in [0 .. N -> S]
  <2>1. 0 \in Good
    BY <1>1, <1>8
  <2>2. ASSUME NEW m \in 0 .. N - 1, m \in Good
        PROVE  m + 1 \in Good
    <3>1. m + 1 \in 1 .. N /\ m + 1 \in 0 .. N /\ (m + 1) - 1 = m
      BY <1>1
    <3>2. met[m + 1] = IF m + 1 \in summar THEN Append(met[m], m + 1) ELSE met[m]
      BY <1>9, <3>1
    <3>3. QED
      BY <1>1, <2>2, <3>1, <3>2
  <2> HIDE DEF Good
  <2>3. \A n \in 0 .. N : n \in Good
    BY <1>1, <2>1, <2>2, Induction
  <2>4. \A n \in 0 .. N : met[n] \in S
    BY <2>3 DEF Good
  <2>5. QED
    BY <1>6, <2>4
<1>11. QED
  BY <1>7, <1>8, <1>9, <1>10 DEF N, S

\* The slots that are set, in ascending order: no more than there are.
LEMMA SetSlotsShape ==
    ASSUME Len(sorted) \in Nat, summar \subseteq 1 .. Len(sorted),
           IsFiniteSet(summar)
    PROVE  /\ SetSlots \in Seq(1 .. Len(sorted))
           /\ Len(SetSlots) <= Cardinality(summar)
           /\ \A k \in DOMAIN SetSlots : SetSlots[k] \in summar
           /\ \A k, l \in DOMAIN SetSlots : k < l => SetSlots[k] < SetSlots[l]
<1> DEFINE N == Len(sorted)
<1>1. PICK f \in [0 .. N -> Seq(1 .. N)] :
        /\ f[0] = <<>>
        /\ \A n \in 1 .. N :
             f[n] = IF n \in summar THEN Append(f[n - 1], n) ELSE f[n - 1]
        /\ SetSlots = f[N]
  BY SetSlotsRecursion
<1> DEFINE Below(n) == summar \cap (1 .. n)
           Fine(n, s) ==
             /\ \A k \in 1 .. Len(s) : s[k] \in Below(n)
             /\ \A k, l \in 1 .. Len(s) : k < l => s[k] < s[l]
             /\ Len(s) <= Cardinality(Below(n))
           Good == {n \in 0 .. N : Fine(n, f[n])}
<1>2. N \in Nat
  OBVIOUS
<1>3. 0 \in Good
  <2>1. Below(0) = {}
    BY <1>2
  <2>2. Cardinality(Below(0)) = 0
    BY <2>1, FS_EmptySet
  <2> HIDE DEF Below
  <2>3. QED
    BY <1>1, <1>2, <2>2
<1>4. ASSUME NEW m \in 0 .. N - 1, m \in Good
      PROVE  m + 1 \in Good
  <2>1. /\ m + 1 \in 1 .. N /\ m + 1 \in 0 .. N /\ m \in 0 .. N
        /\ (m + 1) - 1 = m
    BY <1>2
  <2>2. f[m + 1] = IF m + 1 \in summar THEN Append(f[m], m + 1) ELSE f[m]
    BY <1>1, <2>1
  <2>3. f[m] \in Seq(1 .. N) /\ Fine(m, f[m])
    BY <1>4, <2>1
  <2>4. CASE m + 1 \in summar
    <3>1. Below(m + 1) = Below(m) \cup {m + 1} /\ m + 1 \notin Below(m)
      BY <2>1, <2>4
    <3>2. IsFiniteSet(Below(m))
      BY FS_Subset
    <3>3. /\ Cardinality(Below(m + 1)) = Cardinality(Below(m)) + 1
          /\ Cardinality(Below(m)) \in Nat
      <4> HIDE DEF Below
      <4>1. QED
        BY <3>1, <3>2, FS_AddElement, FS_CardinalityType
    <3> DEFINE s == f[m]
               t == Append(s, m + 1)
    <3>4. /\ s \in Seq(1 .. N) /\ Len(s) \in Nat /\ Len(t) = Len(s) + 1
          /\ t[Len(s) + 1] = m + 1 /\ \A k \in 1 .. Len(s) : t[k] = s[k]
      BY <2>1, <2>3
    <3>5. f[m + 1] = t
      BY <2>2, <2>4
    <3>6. \A k \in 1 .. Len(s) : s[k] \in Below(m + 1) /\ s[k] < m + 1
      BY <2>1, <2>3, <3>1
    <3>7. m + 1 \in Below(m + 1)
      BY <3>1
    <3>8. Fine(m, s)
      BY <2>3
    <3> HIDE DEF s, t, Below
    <3>9. \A k \in 1 .. Len(t) : t[k] \in Below(m + 1)
      BY <3>4, <3>6, <3>7
    <3>10. \A k, l \in 1 .. Len(t) : k < l => t[k] < t[l]
      <4>1. \A k, l \in 1 .. Len(s) : k < l => s[k] < s[l]
        BY <3>8
      <4>2. TAKE k, l \in 1 .. Len(t)
      <4>3. HAVE k < l
      <4>4. k \in 1 .. Len(s) /\ (l \in 1 .. Len(s) \/ l = Len(s) + 1)
        <5>1. Len(t) = Len(s) + 1 /\ Len(s) \in Nat
          BY <3>4
        <5>2. k < l /\ k \in 1 .. Len(s) + 1 /\ l \in 1 .. Len(s) + 1
          BY <4>3, <5>1
        <5>3. QED
          BY <5>1, <5>2
      <4>5. CASE l \in 1 .. Len(s)
        BY <3>4, <4>1, <4>3, <4>4, <4>5
      <4>6. CASE l = Len(s) + 1
        BY <3>4, <3>6, <4>4, <4>6
      <4>7. QED
        BY <4>4, <4>5, <4>6
    <3>11. Len(t) <= Cardinality(Below(m + 1))
      BY <3>3, <3>4, <3>8
    <3>12. Fine(m + 1, t)
      BY <3>9, <3>10, <3>11
    <3> HIDE DEF Fine
    <3>13. QED
      BY <2>1, <3>5, <3>12
  <2>5. CASE m + 1 \notin summar
    <3>1. Below(m + 1) = Below(m)
      BY <2>1, <2>5
    <3> HIDE DEF Below
    <3>2. QED
      BY <2>1, <2>2, <2>3, <2>5, <3>1
  <2>6. QED
    BY <2>4, <2>5
<1>5. Fine(N, f[N])
  <2> HIDE DEF Good, N
  <2>1. N \in Good
    <3>1. \A n \in 0 .. N : n \in Good
      BY <1>2, <1>3, <1>4, Induction
    <3>2. QED
      BY <1>2, <3>1
  <2> HIDE DEF Fine
  <2>2. QED
    BY <2>1 DEF Good
<1>6. Below(N) = summar
  OBVIOUS
<1>7. f[N] \in Seq(1 .. N)
  BY <1>2
<1> HIDE DEF Below, N
<1>8. QED
  <2>1. SetSlots \in Seq(1 .. N) /\ DOMAIN SetSlots = 1 .. Len(SetSlots)
    BY <1>1, <1>7
  <2>2. QED
    BY <1>1, <1>5, <1>6, <2>1 DEF N

\* If the first slots are set and no others, they are met one by one.
LEMMA SetSlotsPlain ==
    ASSUME Len(sorted) \in Nat, NEW r \in 0 .. Len(sorted), summar = 1 .. r
    PROVE  Len(SetSlots) = r /\ \A k \in 1 .. r : SetSlots[k] = k
<1> DEFINE N == Len(sorted)
<1>1. PICK f \in [0 .. N -> Seq(1 .. N)] :
        /\ f[0] = <<>>
        /\ \A n \in 1 .. N :
             f[n] = IF n \in summar THEN Append(f[n - 1], n) ELSE f[n - 1]
        /\ SetSlots = f[N]
  BY SetSlotsRecursion
<1> DEFINE Least2(n) == IF n <= r THEN n ELSE r
           Good == {n \in 0 .. N : /\ Len(f[n]) = Least2(n)
                                   /\ \A k \in 1 .. Least2(n) : f[n][k] = k}
<1>2. N \in Nat /\ r \in 0 .. N
  OBVIOUS
<1>3. 0 \in Good
  BY <1>1, <1>2
<1>4. ASSUME NEW m \in 0 .. N - 1, m \in Good
      PROVE  m + 1 \in Good
  <2>1. /\ m + 1 \in 1 .. N /\ m + 1 \in 0 .. N /\ m \in 0 .. N
        /\ (m + 1) - 1 = m
    BY <1>2
  <2>2. f[m + 1] = IF m + 1 <= r THEN Append(f[m], m + 1) ELSE f[m]
    BY <1>1, <1>2, <2>1
  <2>3. f[m] \in Seq(1 .. N)
    BY <2>1
  <2>4. Len(f[m]) = Least2(m) /\ \A k \in 1 .. Least2(m) : f[m][k] = k
    BY <1>4
  <2>5. CASE m + 1 <= r
    <3>1. Least2(m + 1) = m + 1 /\ Least2(m) = m /\ f[m + 1] = Append(f[m], m + 1)
      BY <1>2, <2>1, <2>2, <2>5
    <3> HIDE DEF Least2
    <3>2. Len(f[m + 1]) = m + 1 /\ \A k \in 1 .. m + 1 : f[m + 1][k] = k
      BY <2>1, <2>3, <2>4, <3>1
    <3>3. QED
      BY <2>1, <3>1, <3>2
  <2>6. CASE ~(m + 1 <= r)
    <3>1. Least2(m + 1) = Least2(m)
      BY <1>2, <2>1, <2>6
    <3>2. QED
      BY <2>1, <2>2, <2>4, <2>6, <3>1
  <2>7. QED
    BY <2>5, <2>6
<1>5. N \in Good
  <2> HIDE DEF Good, N
  <2>1. \A n \in 0 .. N : n \in Good
    BY <1>2, <1>3, <1>4, Induction
  <2>2. QED
    BY <1>2, <2>1
<1>6. Least2(N) = r
  BY <1>2
<1>7. QED
  BY <1>1, <1>5, <1>6

\* Before anything is picked, nothing is set; each pick sets at most one slot, and
\* not that of the last sentence.
PickInv ==
    /\ other \in 0 .. Len(sorted) + 1
    /\ overran \in BOOLEAN
    /\ rank \in 0 .. MAX_SENT_NUMBER
    /\ IsFiniteSet(summar) /\ Cardinality(summar) <= rank
    /\ summar \subseteq 1 .. Len(sorted)
    /\ \A i \in summar : i < LastOne
    /\ pc \in {"idle", "first"} => other = 0
    /\ ~SortDone => rank = 0 /\ summar = {}
    /\ SortDone => other # 0 /\ rank = Len(sorted) + 1 - other
    /\ pc # "collected" => summary = <<>>
    /\ pc = "collected" => summary = SetSlots /\ ~(other > 1 /\ MayPick)

LEMMA ClearPicks ==
    ASSUME Clear
    PROVE  PickInv'
<1>1. /\ pc' = "idle" /\ sorted' = <<>> /\ other' = 0
      /\ rank' = 0 /\ summar' = {} /\ overran' = FALSE /\ summary' = <<>>
  BY DEF Clear
<1>2. IsFiniteSet(summar') /\ Cardinality(summar') = 0 /\ Len(sorted') = 0
  BY <1>1, FS_EmptySet
<1>3. 0 \in 0 .. MAX_SENT_NUMBER /\ 0 \in 0 .. 0 + 1 /\ 0 <= 0
  BY MaxAssumption
<1>4. QED
  BY <1>1, <1>2, <1>3 DEF PickInv, SortDone

\* Before the sort is done, only the iterator and the sorted list change.
LEMMA SortPicks ==
    ASSUME PickInv, ~SortDone, pc' \in {"first", "next", "compare", "pick"},
           other' \in 0 .. Len(sorted') + 1,
           pc' = "first" => other' = 0,
           pc' = "pick" => other' = Len(sorted') + 1 /\ Len(sorted') \in Nat,
           UNCHANGED <<rank, summar, overran, summary>>
    PROVE  PickInv'
<1>1. /\ rank = 0 /\ summar = {} /\ IsFiniteSet(summar)
      /\ Cardinality(summar) <= rank /\ overran \in BOOLEAN
      /\ pc # "collected" /\ summary = <<>>
  BY DEF PickInv, SortDone
<1>2. QED
  BY <1>1, MaxAssumption DEF PickInv, SortDone

LEMMA PickPicks ==
    ASSUME SortInv, PickInv, Pick
    PROVE  PickInv'
<1> DEFINE i == SentenceCopied(sorted[other - 1])
<1>1. /\ pc = "pick" /\ pc' = "pick" /\ other > 1 /\ rank < MAX_SENT_NUMBER
      /\ other' = other - 1 /\ rank' = rank + 1
      /\ UNCHANGED <<sentences, sorted, summary>>
      /\ \/ summar' = summar /\ overran' \in BOOLEAN
         \/ /\ i \in DOMAIN sentences /\ i <= Len(sorted)
            /\ summar' = summar \cup {i} /\ overran' = overran
  BY DEF Pick, MayPick, Slots, PickInv
<1>2. /\ Len(sorted) \in Nat /\ Len(scores) \in Nat
      /\ Len(scores) = Len(sentences) /\ LastOne = Len(sentences)
      /\ \A k \in 1 .. Len(sorted) : sorted[k] \in 1 .. Len(scores)
  BY SortTypesFacts DEF SortInv, SortTypes, LastOne
<1>3. /\ other \in 2 .. Len(sorted) + 1 /\ rank \in Nat
      /\ rank = Len(sorted) + 1 - other
      /\ IsFiniteSet(summar) /\ Cardinality(summar) <= rank
      /\ summar \subseteq 1 .. Len(sorted)
      /\ \A k \in summar : k < LastOne
      /\ summary = <<>> /\ overran \in BOOLEAN
  BY <1>1, <1>2 DEF PickInv, SortDone
<1>4. /\ sorted[other - 1] \in 1 .. Len(sentences)
      /\ i = sorted[other - 1] - 1
  <2>1. other - 1 \in 1 .. Len(sorted)
    BY <1>2, <1>3
  <2>2. QED
    BY <1>2, <2>1 DEF SentenceCopied
<1>5. /\ IsFiniteSet(summar') /\ Cardinality(summar') <= rank + 1
      /\ summar' \subseteq 1 .. Len(sorted)
      /\ \A k \in summar' : k < LastOne
      /\ overran' \in BOOLEAN
  <2>1. Cardinality(summar) \in Nat
    BY <1>3, FS_CardinalityType
  <2>2. CASE summar' = summar /\ overran' \in BOOLEAN
    BY <1>3, <2>1, <2>2
  <2>3. CASE /\ i \in DOMAIN sentences /\ i <= Len(sorted)
             /\ summar' = summar \cup {i} /\ overran' = overran
    <3>1. i \in 1 .. Len(sorted) /\ i < LastOne
      <4>1. sentences \in Seq(Texts)
        BY DEF SortInv, SortTypes
      <4>2. i \in 1 .. Len(sentences)
        BY <2>3, <4>1
      <4>3. QED
        BY <1>2, <1>4, <2>3, <4>2
    <3> HIDE DEF i
    <3>2. /\ IsFiniteSet(summar \cup {i})
          /\ Cardinality(summar \cup {i})
               = IF i \in summar THEN Cardinality(summar) ELSE Cardinality(summar) + 1
      BY <1>3, FS_AddElement
    <3>3. Cardinality(summar \cup {i}) <= rank + 1
      BY <1>3, <2>1, <3>2
    <3>4. QED
      BY <1>3, <2>3, <3>1, <3>2, <3>3
  <2>4. QED
    BY <1>1, <2>2, <2>3
<1> HIDE DEF i
<1>6. /\ other - 1 \in 1 .. Len(sorted) + 1 /\ rank + 1 \in 0 .. MAX_SENT_NUMBER
      /\ rank + 1 = Len(sorted) + 1 - (other - 1)
  BY <1>1, <1>2, <1>3, MaxAssumption
<1>7. LastOne' = LastOne
  BY <1>1 DEF LastOne
<1>8. QED
  BY <1>1, <1>3, <1>5, <1>6, <1>7 DEF PickInv, SortDone

LEMMA CollectPicks ==
    ASSUME PickInv, Collect
    PROVE  PickInv'
<1>1. /\ pc = "pick" /\ pc' = "collected" /\ ~(other > 1 /\ MayPick)
      /\ summary' = SetSlots
      /\ UNCHANGED <<sentences, sorted, other, rank, summar, overran>>
  BY DEF Collect
<1>2. SetSlots' = SetSlots /\ MayPick' = MayPick /\ LastOne' = LastOne
  BY <1>1 DEF SetSlots, MayPick, LastOne
<1>3. QED
  BY <1>1, <1>2 DEF PickInv, SortDone

LEMMA PickCorrect == Spec => []PickInv
<1>1. Init => PickInv
  <2> SUFFICES ASSUME Init PROVE PickInv
    OBVIOUS
  <2>1. /\ pc = "idle" /\ sorted = <<>> /\ other = 0
        /\ rank = 0 /\ summar = {} /\ overran = FALSE /\ summary = <<>>
    BY DEF Init
  <2>2. IsFiniteSet(summar) /\ Cardinality(summar) = 0 /\ Len(sorted) = 0
    BY <2>1, FS_EmptySet
  <2>3. 0 \in 0 .. MAX_SENT_NUMBER /\ 0 \in 0 .. 0 + 1 /\ 0 <= 0
    BY MaxAssumption
  <2>4. QED
    BY <2>1, <2>2, <2>3 DEF PickInv, SortDone
<1>2. SortInv /\ SortInv' /\ PickInv /\ [Next]_vars => PickInv'
  <2> SUFFICES ASSUME SortInv, SortInv', PickInv, [Next]_vars PROVE PickInv'
    OBVIOUS
  <2>1. /\ Len(sorted) \in Nat /\ Len(sorted') \in Nat
        /\ other \in 0 .. Len(sorted) + 1
    <3>1. SortTypes /\ SortTypes'
      BY DEF SortInv
    <3>2. sorted \in Seq(1 .. Len(scores)) /\ sorted' \in Seq(1 .. Len(scores'))
      BY <3>1 DEF SortTypes
    <3>3. QED
      BY <3>2 DEF PickInv
  <2>2. ASSUME NEW d \in Documents, Take(d) PROVE PickInv'
    BY <2>1, <2>2, SortPicks DEF Take, SortDone, PickInv
  <2>3. CASE SortFirst
    <3>1. other = 0 /\ other' = 0 /\ other' \in 0 .. Len(sorted') + 1
      BY <2>1, <2>3 DEF SortFirst, PickInv
    <3>2. QED
      BY <2>3, <3>1, SortPicks DEF SortFirst, SortDone
  <2>4. CASE SortNext
    <3>1. other' \in 0 .. Len(sorted') + 1
      BY <2>1, <2>4 DEF SortNext
    <3>2. QED
      BY <2>4, <3>1, SortPicks DEF SortNext, SortDone
  <2>5. CASE SortEnds
    <3>1. other' \in 0 .. Len(sorted') + 1 /\ other' = Len(sorted') + 1
      BY <2>1, <2>5 DEF SortEnds
    <3>2. QED
      BY <2>1, <2>5, <3>1, SortPicks DEF SortEnds, SortDone
  <2>6. CASE Insert
    <3>1. other < Len(sorted) /\ other' = other
          /\ sorted' = PushedFront(sorted, other + 1, it)
      BY <2>6 DEF Insert
    <3>2. sorted \in Seq(1 .. Len(scores)) /\ it \in 1 .. Len(scores)
      BY <2>6, SortTypesFacts DEF Insert, SortInv, SortTypes
    <3>3. Len(sorted') = Len(sorted) + 1
      <4>1. other + 1 \in 1 .. Len(sorted)
        BY <2>1, <3>1
      <4>2. QED
        BY <3>1, <3>2, <4>1, PushedFrontProperties
    <3>4. other' \in 0 .. Len(sorted') + 1
      BY <2>1, <3>1, <3>3
    <3>5. QED
      BY <2>6, <3>4, SortPicks DEF Insert, SortDone
  <2>7. CASE AppendLast
    <3>1. other < Len(sorted) /\ other' = other /\ sorted' = Append(sorted, it)
      BY <2>7 DEF AppendLast
    <3>2. sorted \in Seq(1 .. Len(scores))
      BY DEF SortInv, SortTypes
    <3>3. other' \in 0 .. Len(sorted') + 1
      BY <2>1, <3>1, <3>2
    <3>4. QED
      BY <2>7, <3>3, SortPicks DEF AppendLast, SortDone
  <2>8. CASE Pass
    <3>1. other' \in 0 .. Len(sorted') + 1
      BY <2>1, <2>8 DEF Pass
    <3>2. QED
      BY <2>8, <3>1, SortPicks DEF Pass, SortDone
  <2>9. CASE Drop
    <3>1. other' \in 0 .. Len(sorted') + 1
      BY <2>1, <2>9 DEF Drop
    <3>2. QED
      BY <2>9, <3>1, SortPicks DEF Drop, SortDone
  <2>10. CASE Pick
    BY <2>10, PickPicks
  <2>11. CASE Collect
    BY <2>11, CollectPicks
  <2>12. CASE Return
    BY <2>12, ClearPicks DEF Return
  <2>13. CASE Corrupted
    BY <2>13, ClearPicks DEF Corrupted
  <2>14. CASE UNCHANGED vars
    BY <2>14 DEF vars, PickInv, SortDone, SetSlots, MayPick, LastOne
  <2>15. QED
    BY <2>2, <2>3, <2>4, <2>5, <2>6, <2>7, <2>8, <2>9, <2>10, <2>11, <2>12,
       <2>13, <2>14 DEF Next
<1>3. QED
  BY <1>1, <1>2, SortCorrect, PTL DEF Spec

\* The summary that was collected, and what was picked for it.
LEMMA SummaryCollected ==
    ASSUME SortInv, PickInv
    PROVE  /\ Len(sorted) \in Nat
           /\ summary \in Seq(1 .. Len(sorted))
           /\ Len(summary) <= rank /\ rank <= MAX_SENT_NUMBER
           /\ \A k \in DOMAIN summary : summary[k] \in summar
           /\ \A k, l \in DOMAIN summary : k < l => summary[k] < summary[l]
<1>1. /\ Len(sorted) \in Nat /\ rank \in Nat /\ rank <= MAX_SENT_NUMBER
  BY SortTypesFacts, MaxAssumption DEF SortInv, PickInv
<1>2. CASE pc # "collected"
  BY <1>1, <1>2 DEF PickInv
<1>3. CASE pc = "collected"
  <2>1. /\ summary = SetSlots /\ IsFiniteSet(summar)
        /\ summar \subseteq 1 .. Len(sorted) /\ Cardinality(summar) <= rank
    BY <1>3 DEF PickInv
  <2>2. /\ SetSlots \in Seq(1 .. Len(sorted))
        /\ Len(SetSlots) <= Cardinality(summar)
        /\ \A k \in DOMAIN SetSlots : SetSlots[k] \in summar
        /\ \A k, l \in DOMAIN SetSlots : k < l => SetSlots[k] < SetSlots[l]
    BY <1>1, <2>1, SetSlotsShape
  <2>3. Cardinality(summar) \in Nat /\ Len(SetSlots) \in Nat
    BY <2>1, <2>2, FS_CardinalityType
  <2>4. QED
    BY <1>1, <2>1, <2>2, <2>3
<1>4. QED
  BY <1>2, <1>3

\* Every variable has its type: the iterators stay in their lists, and every slot
\* that is set is one of the array (_irs_get_document_summarization).
THEOREM SummaryTypeCorrect == Spec => []TypeOK
<1>1. SortInv /\ PickInv => TypeOK
  <2> SUFFICES ASSUME SortInv, PickInv PROVE TypeOK
    OBVIOUS
  <2>1. SortTypes /\ Len(sorted) \in Nat
    BY SortTypesFacts DEF SortInv
  <2>2. /\ sorted \in Seq(Sentences) /\ DOMAIN sorted = 1 .. Len(sorted)
    BY <2>1 DEF SortTypes, Sentences
  <2>3. rank \in 0 .. Len(sorted)
    BY <2>1 DEF PickInv, SortDone
  <2>4. summary \in Seq(DOMAIN sorted)
    BY <2>2, SummaryCollected
  <2>5. QED
    BY <2>1, <2>2, <2>3, <2>4 DEF TypeOK, SortTypes, PickInv
<1>2. QED
  BY <1>1, SortCorrect, PickCorrect, PTL

\* No summary has the last sentence of its document, or more sentences than asked
\* for, and it has them in the order of the document
\* (_irs_get_document_summarization).
THEOREM SummaryShapeCorrect == Spec => []SummaryShape
<1>1. SortInv /\ PickInv => SummaryShape
  <2> SUFFICES ASSUME SortInv, PickInv PROVE SummaryShape
    OBVIOUS
  <2>1. /\ Len(summary) \in Nat /\ Len(summary) <= rank
        /\ rank <= MAX_SENT_NUMBER /\ rank \in Nat /\ MAX_SENT_NUMBER \in Nat
    BY SummaryCollected, MaxAssumption DEF PickInv
  <2>2. \A k \in DOMAIN summary : summary[k] # LastOne
    <3>1. ASSUME NEW k \in DOMAIN summary, summary[k] = LastOne PROVE FALSE
      <4>1. summary[k] \in summar /\ LastOne \in Nat
        BY SummaryCollected, SortTypesFacts DEF SortInv
      <4>2. LastOne < LastOne
        BY <3>1, <4>1 DEF PickInv
      <4>3. QED
        BY <4>1, <4>2
    <3>2. QED
      BY <3>1
  <2>3. QED
    BY <2>1, <2>2, SummaryCollected DEF SummaryShape
<1>2. QED
  BY <1>1, SortCorrect, PickCorrect, PTL

\* In a plain document no sentence is above one before it, so that each gets in
\* before all others; the slots are set from the first on.
PlainInv ==
    IsPlain(sentences) =>
      /\ \A i, j \in 1 .. Len(scores) : i < j => scores[j] <= scores[i]
      /\ \A k \in 1 .. Len(sorted) : sorted[k] = Len(sorted) + 1 - k
      /\ pc = "next" => Len(sorted) = it /\ it <= Len(scores)
      /\ pc = "compare" => other = 0 /\ Len(sorted) = it - 1
      /\ SortDone => Len(sorted) = Len(sentences)
      /\ summar = 1 .. rank - 1

LEMMA TakePlain ==
    ASSUME SortInv, PickInv, NEW d \in Documents, Take(d), SortInv'
    PROVE  PlainInv'
<1>1. /\ sentences' = d /\ pc = "idle" /\ pc' = "first" /\ sorted' = sorted
      /\ rank' = rank /\ summar' = summar
  BY DEF Take
<1>2. d \in Seq(Texts)
  BY DocumentsAssumption
<1>3. PICK s \in [DOMAIN d -> UNION {ScoresOf(d, i) : i \in DOMAIN d}] :
        (\A i \in DOMAIN d : s[i] \in ScoresOf(d, i)) /\ scores' = s
  BY DEF Take
<1>4. Len(scores') = Len(d) /\ Len(d) \in Nat /\ DOMAIN d = 1 .. Len(d)
  BY <1>1, <1>2 DEF SortInv, SortTypes
<1>5. ASSUME IsPlain(d), NEW i \in 1 .. Len(d), NEW j \in 1 .. Len(d), i < j
      PROVE  s[j] <= s[i]
  <2>1. s[i] \in ScoresOf(d, i) /\ s[j] \in ScoresOf(d, j)
    BY <1>3, <1>4
  <2>2. QED
    BY <1>2, <1>5, <2>1, PlainScoresFall
<1>6. sorted = <<>> /\ rank = 0 /\ summar = {}
  BY <1>1 DEF SortInv, PickInv, SortDone
<1>7. {} = 1 .. 0 - 1 /\ Len(<<>>) = 0
  OBVIOUS
<1>8. QED
  BY <1>1, <1>3, <1>4, <1>5, <1>6, <1>7 DEF PlainInv, SortDone

LEMMA ClearPlain ==
    ASSUME Clear
    PROVE  PlainInv'
<1>1. /\ pc' = "idle" /\ sorted' = <<>> /\ scores' = <<>>
      /\ rank' = 0 /\ summar' = {}
  BY DEF Clear
<1>2. {} = 1 .. 0 - 1 /\ Len(sorted') = 0 /\ Len(scores') = 0
  BY <1>1
<1>3. QED
  BY <1>1, <1>2 DEF PlainInv, SortDone

\* What the sort knows of a plain document when it compares the next sentence.
LEMMA PlainCompares ==
    ASSUME SortInv, PlainInv, IsPlain(sentences), pc = "compare"
    PROVE  /\ it \in 2 .. Len(scores) /\ Len(scores) \in Nat
           /\ other = 0 /\ Len(sorted) = it - 1 /\ sorted[1] = it - 1
           /\ Len(sorted) # other /\ IsNotAbove(it, sorted[other + 1])
           /\ \A k \in 1 .. Len(sorted) : sorted[k] = Len(sorted) + 1 - k
<1>1. /\ it \in 2 .. Len(scores) /\ Len(scores) \in Nat
  BY SortTypesFacts DEF SortInv
<1>2. /\ other = 0 /\ Len(sorted) = it - 1
      /\ \A k \in 1 .. Len(sorted) : sorted[k] = Len(sorted) + 1 - k
      /\ \A i, j \in 1 .. Len(scores) : i < j => scores[j] <= scores[i]
  BY DEF PlainInv
<1>3. sorted[1] = it - 1 /\ it - 1 \in 1 .. Len(scores)
  BY <1>1, <1>2
<1>4. scores[it] <= scores[it - 1]
  BY <1>1, <1>2, <1>3
<1>5. other + 1 = 1 /\ it - 1 # 0
  BY <1>1, <1>2
<1>6. QED
  BY <1>1, <1>2, <1>3, <1>4, <1>5 DEF IsNotAbove

LEMMA InsertPlain ==
    ASSUME SortInv, PickInv, PlainInv, Insert
    PROVE  PlainInv'
<1> SUFFICES ASSUME IsPlain(sentences) PROVE PlainInv'
  BY DEF PlainInv, Insert
<1>1. /\ pc = "compare" /\ pc' = "next" /\ sorted' = PushedFront(sorted, other + 1, it)
      /\ UNCHANGED <<sentences, scores, it, rank, summar>>
  BY DEF Insert
<1>2. /\ it \in 2 .. Len(scores) /\ Len(scores) \in Nat
      /\ other = 0 /\ Len(sorted) = it - 1
      /\ \A k \in 1 .. Len(sorted) : sorted[k] = Len(sorted) + 1 - k
  BY <1>1, PlainCompares
<1>3. sorted \in Seq(1 .. Len(scores)) /\ it \in 1 .. Len(scores) /\ 1 \in 1 .. Len(sorted)
  BY <1>2 DEF SortInv, SortTypes
<1> DEFINE t == PushedFront(sorted, 1, it)
<1>4. /\ Len(t) = Len(sorted) + 1 /\ t[1] = it
      /\ \A k \in 1 .. Len(sorted) : t[k + 1] = sorted[k]
  <2> DEFINE S == 1 .. Len(scores)
  <2>1. sorted \in Seq(S) /\ it \in S
    BY <1>3
  <2> HIDE DEF S
  <2>2. QED
    BY <1>3, <2>1, PushedFrontProperties, SMTT(60)
<1>5. sorted' = t
  BY <1>1, <1>2
<1> HIDE DEF t
<1>6. Len(t) = it
  BY <1>2, <1>4
<1>7. ASSUME NEW k \in 1 .. Len(t)
      PROVE  t[k] = Len(t) + 1 - k
  <2>1. CASE k = 1
    BY <1>2, <1>4, <1>6, <2>1
  <2>2. CASE k # 1
    <3>1. k - 1 \in 1 .. Len(sorted) /\ (k - 1) + 1 = k
      BY <1>2, <1>6, <2>2
    <3>2. t[k] = sorted[k - 1] /\ sorted[k - 1] = Len(sorted) + 1 - (k - 1)
      BY <1>2, <1>4, <3>1
    <3>3. QED
      BY <1>2, <1>6, <3>2
  <2>3. QED
    BY <2>1, <2>2
<1>8. QED
  BY <1>1, <1>2, <1>5, <1>6, <1>7 DEF PlainInv, SortDone

LEMMA PickPlain ==
    ASSUME SortInv, PickInv, PlainInv, Pick
    PROVE  PlainInv'
<1> SUFFICES ASSUME IsPlain(sentences) PROVE PlainInv'
  BY DEF PlainInv, Pick
<1> DEFINE i == SentenceCopied(sorted[other - 1])
<1>1. /\ pc = "pick" /\ pc' = "pick" /\ other > 1
      /\ other' = other - 1 /\ rank' = rank + 1
      /\ UNCHANGED <<sentences, scores, it, sorted, summary>>
      /\ summar' = IF i \in DOMAIN sentences /\ i <= Len(sorted)
                   THEN summar \cup {i} ELSE summar
  BY DEF Pick, Slots
<1>2. /\ Len(sorted) \in Nat /\ DOMAIN sentences = 1 .. Len(sentences)
      /\ Len(sentences) = Len(sorted)
      /\ \A k \in 1 .. Len(sorted) : sorted[k] = Len(sorted) + 1 - k
      /\ summar = 1 .. rank - 1
  BY <1>1, SortTypesFacts DEF SortInv, SortTypes, PlainInv, SortDone
<1>3. /\ other \in 2 .. Len(sorted) + 1 /\ rank = Len(sorted) + 1 - other
  BY <1>1, <1>2 DEF PickInv, SortDone
<1>4. i = rank
  <2>1. other - 1 \in 1 .. Len(sorted)
    BY <1>2, <1>3
  <2>2. sorted[other - 1] = Len(sorted) + 1 - (other - 1)
    BY <1>2, <2>1
  <2>3. QED
    BY <1>2, <1>3, <2>2 DEF SentenceCopied
<1> HIDE DEF i
<1>5. rank \in 0 .. Len(sorted) - 1
  BY <1>2, <1>3
<1>6. summar' = 1 .. rank' - 1
  <2>1. CASE rank = 0
    BY <1>1, <1>2, <1>4, <2>1
  <2>2. CASE rank # 0
    <3>1. i \in DOMAIN sentences /\ i <= Len(sorted)
      BY <1>2, <1>4, <1>5, <2>2
    <3>2. (1 .. rank - 1) \cup {rank} = 1 .. (rank + 1) - 1
      BY <1>5, <2>2
    <3>3. QED
      BY <1>1, <1>2, <1>4, <3>1, <3>2
  <2>3. QED
    BY <2>1, <2>2
<1>7. QED
  BY <1>1, <1>2, <1>6 DEF PlainInv, SortDone

LEMMA PlainCorrect == Spec => []PlainInv
<1>1. Init => PlainInv
  BY DEF Init, PlainInv, SortDone
<1>2. SortInv /\ SortInv' /\ PickInv /\ PlainInv /\ [Next]_vars => PlainInv'
  <2> SUFFICES ASSUME SortInv, SortInv', PickInv, PlainInv, [Next]_vars
               PROVE  PlainInv'
    OBVIOUS
  <2>1. Len(sorted) \in Nat /\ Len(scores) \in Nat
    BY SortTypesFacts DEF SortInv
  <2>2. ASSUME NEW d \in Documents, Take(d) PROVE PlainInv'
    BY <2>2, TakePlain
  <2>3. CASE SortFirst
    <3>1. /\ pc = "first" /\ pc' = "next" /\ sorted = <<>> /\ it = 0
          /\ UNCHANGED <<sentences, scores, rank, summar>>
          /\ IF scores = <<>> THEN UNCHANGED <<it, sorted>>
                              ELSE it' = 1 /\ sorted' = <<1>>
      BY <2>3 DEF SortFirst, SortInv
    <3>2. scores # <<>> => Len(scores) >= 1
      <4>1. scores \in Seq(Nat)
        BY DEF SortInv, SortTypes
      <4>2. QED
        BY <4>1
    <3>3. Len(sorted') = it' /\ it' <= Len(scores)
      <4>1. CASE scores = <<>>
        BY <2>1, <3>1, <4>1
      <4>2. CASE scores # <<>>
        <5>1. it' = 1 /\ sorted' = <<1>> /\ Len(<<1>>) = 1
          BY <3>1, <4>2
        <5>2. QED
          BY <2>1, <3>2, <4>2, <5>1
      <4>3. QED
        BY <4>1, <4>2
    <3>4. \A k \in 1 .. Len(sorted') : sorted'[k] = Len(sorted') + 1 - k
      BY <3>1
    <3>5. QED
      BY <3>1, <3>3, <3>4 DEF PlainInv, SortDone
  <2>4. CASE SortNext
    <3>1. /\ pc = "next" /\ pc' = "compare" /\ other' = 0 /\ it' = it + 1
          /\ UNCHANGED <<sentences, scores, sorted, rank, summar>>
      BY <2>4 DEF SortNext
    <3>2. it \in Nat
      BY <2>1 DEF SortInv, SortTypes
    <3>3. it = it' - 1
      BY <3>1, <3>2
    <3>4. QED
      BY <3>1, <3>3 DEF PlainInv, SortDone
  <2>5. CASE SortEnds
    <3>1. /\ pc = "next" /\ pc' = "pick" /\ it >= Len(scores)
          /\ UNCHANGED <<sentences, scores, it, sorted, rank, summar>>
      BY <2>5 DEF SortEnds
    <3>2. it \in Nat /\ Len(scores) = Len(sentences)
      BY <2>1 DEF SortInv, SortTypes
    <3>3. QED
      BY <2>1, <3>1, <3>2 DEF PlainInv, SortDone
  <2>6. CASE Insert
    BY <2>6, InsertPlain
  <2>7. CASE AppendLast
    BY <2>7, PlainCompares DEF AppendLast, PlainInv
  <2>8. CASE Pass
    BY <2>8, PlainCompares DEF Pass, PlainInv
  <2>9. CASE Drop
    <3>1. /\ pc = "compare" /\ other = Len(sorted) /\ UNCHANGED sentences
      BY <2>9 DEF Drop
    <3>2. ~IsPlain(sentences)
      BY <3>1, PlainCompares
    <3>3. QED
      BY <3>1, <3>2 DEF PlainInv
  <2>10. CASE Pick
    BY <2>10, PickPlain
  <2>11. CASE Collect
    BY <2>11 DEF Collect, PlainInv, SortDone
  <2>12. CASE Return
    BY <2>12, ClearPlain DEF Return
  <2>13. CASE Corrupted
    BY <2>13, ClearPlain DEF Corrupted
  <2>14. CASE UNCHANGED vars
    BY <2>14 DEF vars, PlainInv, SortDone
  <2>15. QED
    BY <2>2, <2>3, <2>4, <2>5, <2>6, <2>7, <2>8, <2>9, <2>10, <2>11, <2>12,
       <2>13, <2>14 DEF Next
<1>3. QED
  BY <1>1, <1>2, SortCorrect, PickCorrect, PTL DEF Spec

\* A document of one paragraph, whose sentences are all different, has its first
\* sentences for a summary, one less than are picked
\* (irs_engine_get_documents_summarizations).
THEOREM PlainSummaryCorrect == Spec => []PlainSummary
<1>1. SortInv /\ PickInv /\ PlainInv => PlainSummary
  <2> SUFFICES ASSUME SortInv, PickInv, PlainInv,
                      IsPlain(sentences), sentences # <<>>, pc = "collected"
               PROVE  /\ Len(summary) = Smallest({LastOne, MAX_SENT_NUMBER}) - 1
                      /\ \A k \in DOMAIN summary : summary[k] = k
    BY DEF PlainSummary
  <2> DEFINE N == Len(sorted)
  <2>1. N \in Nat /\ LastOne = N /\ MAX_SENT_NUMBER \in Nat \ {0}
    BY SortTypesFacts, MaxAssumption DEF SortInv, PlainInv, SortDone, LastOne
  <2>2. N # 0
    <3>1. sentences \in Seq(Texts) /\ Len(sentences) = N
      BY DEF SortInv, SortTypes, PlainInv, SortDone
    <3>2. QED
      BY <3>1
  <2>3. /\ summar = 1 .. rank - 1 /\ summary = SetSlots
        /\ rank = N + 1 - other /\ other \in 1 .. N + 1
        /\ rank <= MAX_SENT_NUMBER /\ ~(other > 1 /\ rank < MAX_SENT_NUMBER)
    BY <2>1 DEF PlainInv, PickInv, SortDone, MayPick
  <2>4. Smallest({LastOne, MAX_SENT_NUMBER}) = rank
    <3>1. rank \in {LastOne, MAX_SENT_NUMBER} /\ rank <= N
      BY <2>1, <2>3
    <3>2. \A n \in {LastOne, MAX_SENT_NUMBER} : rank <= n
      BY <2>1, <2>3, <3>1
    <3>3. ASSUME NEW m \in {LastOne, MAX_SENT_NUMBER},
                 \A n \in {LastOne, MAX_SENT_NUMBER} : m <= n
          PROVE  m = rank
      <4>1. m <= rank /\ rank <= m /\ m \in Int /\ rank \in Int
        BY <2>1, <3>1, <3>2, <3>3
      <4>2. QED
        BY <4>1
    <3>4. QED
      BY <3>1, <3>2, <3>3 DEF Smallest
  <2>5. rank - 1 \in 0 .. N
    BY <2>1, <2>2, <2>3
  <2>6. Len(SetSlots) = rank - 1 /\ \A k \in 1 .. rank - 1 : SetSlots[k] = k
    BY <2>1, <2>3, <2>5, SetSlotsPlain
  <2>7. DOMAIN summary = 1 .. Len(summary)
    <3>1. summary \in Seq(1 .. Len(sorted))
      BY SummaryCollected
    <3>2. QED
      BY <3>1
  <2>8. QED
    BY <2>3, <2>4, <2>6, <2>7
<1>2. QED
  BY <1>1, SortCorrect, PickCorrect, PlainCorrect, PTL
=============================================================================
