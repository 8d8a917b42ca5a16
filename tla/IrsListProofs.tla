---------------------------- MODULE IrsListProofs ----------------------------
(***************************************************************************)
(* What IrsList keeps for any data and any number of nodes: pointers that  *)
(* agree, a destroy that frees everything once, and the sequence and the   *)
(* place of IrsSequence.                                                   *)
(*                                                                         *)
(* The argument is an order of the nodes: a function c that gives every    *)
(* node one position, such that next and prev lead to the next and the     *)
(* previous one.  Pushes insert into it, and everything that is read by    *)
(* following pointers is a part of it.                                     *)
(***************************************************************************)
EXTENDS IrsList, IrsInduction, SequenceTheorems, FiniteSetTheorems, TLAPS

-----------------------------------------------------------------------------
(* Following pointers *)

\* The part of c from k to last.
Part(c, k, last) == [j \in 1 .. last - k + 1 |-> c[k + j - 1]]

\* c goes through every node once, as the pointers say, from each node of its
\* first last ones to the next one.
Leads(c, N, to, stop, last) ==
    /\ N \in Nat /\ last \in 0 .. N
    /\ c \in [1 .. N -> DOMAIN to]
    /\ \A k, l \in 1 .. N : c[k] = c[l] => k = l
    /\ \A n \in DOMAIN to : \E k \in 1 .. N : c[k] = n
    /\ Null \notin DOMAIN to
    /\ N - 1 <= last
    /\ \A k \in 1 .. N : c[k] = stop <=> k > last
    /\ \A k \in 1 .. last : to[c[k]] = IF k = N THEN Null ELSE c[k + 1]

PathFrom(path, to, stop) ==
    path = [m \in {Null} \cup DOMAIN to |->
              IF m \in {Null, stop} THEN <<>> ELSE <<m>> \o path[to[m]]]

\* A part of c is its first node and the part from the next one on.
LEMMA PartNext ==
    ASSUME NEW c, NEW N, NEW to, NEW stop, NEW last,
           Leads(c, N, to, stop, last), NEW k \in 1 .. last
    PROVE  <<c[k]>> \o Part(c, k + 1, last) = Part(c, k, last)
<1> DEFINE S == DOMAIN to
           p == Part(c, k + 1, last)
           q == Part(c, k, last)
<1>0. N \in Nat /\ last \in 0 .. N /\ c \in [1 .. N -> S]
  BY DEF Leads
<1> HIDE DEF S
<1>1. last - k \in Nat /\ last - k + 1 \in Nat
  BY <1>0
<1>2. p = [j \in 1 .. last - k |-> c[k + j]]
  BY <1>0 DEF Part
<1>3. q = [j \in 1 .. last - k + 1 |-> c[k + j - 1]]
  BY DEF Part
<1>4. \A j \in 1 .. last - k : c[k + j] \in S
  BY <1>0
<1>5. p \in [1 .. last - k -> S]
  BY <1>2, <1>4
<1>6. p \in Seq(S)
  BY <1>1, <1>5
<1>7. Len(p) = last - k
  BY <1>1, <1>5, <1>6, LenProperties
<1>8. c[k] \in S
  BY <1>0
<1> HIDE DEF p, q
<1>9. <<c[k]>> \o p = [j \in 1 .. 1 + (last - k) |-> IF j = 1 THEN c[k] ELSE p[j - 1]]
  BY <1>6, <1>7, <1>8
<1>10. \A j \in 1 .. last - k + 1 :
          (IF j = 1 THEN c[k] ELSE p[j - 1]) = c[k + j - 1]
  BY <1>0, <1>2
<1>11. <<c[k]>> \o p = q
  <2> DEFINE r == <<c[k]>> \o p
  <2>1. 1 + (last - k) = last - k + 1
    BY <1>0
  <2>2. r = [j \in 1 .. last - k + 1 |-> IF j = 1 THEN c[k] ELSE p[j - 1]]
    BY <1>9, <2>1
  <2> HIDE DEF r
  <2>3. \A j \in 1 .. last - k + 1 : r[j] = c[k + j - 1]
    BY <1>10, <2>2
  <2>4. r = [j \in 1 .. last - k + 1 |-> r[j]]
    BY <2>2, Zenon
  <2>5. r = [j \in 1 .. last - k + 1 |-> c[k + j - 1]]
    BY <2>3, <2>4, Zenon
  <2>6. QED
    BY <1>3, <2>5 DEF r
<1>12. QED
  BY <1>11 DEF p, q

\* Then the recursive definition of a path has a solution.
LEMMA PathExists ==
    ASSUME NEW c, NEW N, NEW to, NEW stop, NEW last,
           Leads(c, N, to, stop, last)
    PROVE  \E path : PathFrom(path, to, stop)
<1> DEFINE D == {Null} \cup DOMAIN to
           Pos(m) == CHOOSE k \in 1 .. N : c[k] = m
           w == [m \in D |-> IF m = Null THEN <<>> ELSE Part(c, Pos(m), last)]
           s == [m \in D |->
                   IF m \in {Null, stop} THEN <<>> ELSE <<m>> \o w[to[m]]]
<1>1. ASSUME NEW k \in 1 .. N
      PROVE  c[k] \in DOMAIN to /\ c[k] # Null /\ Pos(c[k]) = k
  BY DEF Leads
<1>2. ASSUME NEW k \in 1 .. N
      PROVE  w[c[k]] = Part(c, k, last)
  <2> HIDE DEF Pos
  <2>1. QED
    BY <1>1
<1>3. w[Null] = <<>>
  OBVIOUS
<1>4. DOMAIN w = D /\ DOMAIN s = D /\ w = [m \in D |-> w[m]]
  OBVIOUS
<1> HIDE DEF w, Pos
<1>5. ASSUME NEW m \in D
      PROVE  s[m] = w[m]
  <2>1. CASE m = Null
    BY <1>3, <2>1
  <2>2. CASE m # Null
    <3>1. PICK k \in 1 .. N : c[k] = m
      BY <2>2 DEF Leads
    <3>2. CASE k > last
      <4>1. m = stop
        BY <3>1, <3>2 DEF Leads
      <4>2. 1 .. last - k + 1 = {}
        BY <3>2 DEF Leads
      <4>3. Part(c, k, last) = <<>>
        BY <4>2 DEF Part
      <4>4. QED
        BY <1>2, <3>1, <4>1, <4>3
    <3>3. CASE k <= last
      <4>1. k \in 1 .. last /\ m # stop /\ N \in Nat /\ last \in 0 .. N
        BY <3>1, <3>3 DEF Leads
      <4>2. to[m] = IF k = N THEN Null ELSE c[k + 1]
        BY <3>1, <4>1 DEF Leads
      <4>3. s[m] = <<m>> \o w[to[m]]
        BY <2>2, <4>1
      <4>4. w[to[m]] = Part(c, k + 1, last)
        <5>1. CASE k = N
          <6>1. 1 .. last - (k + 1) + 1 = {}
            BY <4>1, <5>1
          <6>2. Part(c, k + 1, last) = <<>>
            BY <6>1 DEF Part
          <6>3. QED
            BY <1>3, <4>2, <5>1, <6>2
        <5>2. CASE k # N
          <6>1. k + 1 \in 1 .. N
            BY <4>1, <5>2
          <6>2. QED
            BY <1>2, <4>2, <5>2, <6>1
        <5>3. QED
          BY <5>1, <5>2
      <4>5. <<c[k]>> \o Part(c, k + 1, last) = Part(c, k, last)
        BY <4>1, PartNext
      <4>6. QED
        BY <1>2, <3>1, <4>3, <4>4, <4>5
    <3>4. QED
      BY <3>2, <3>3 DEF Leads
  <2>3. QED
    BY <2>1, <2>2
<1>6. w = s
  <2> HIDE DEF s
  <2>1. s = [m \in D |-> s[m]]
    BY DEF s
  <2>2. QED
    BY <1>4, <1>5, <2>1
<1>7. PathFrom(w, to, stop)
  BY <1>6 DEF PathFrom
<1>8. QED
  BY <1>7

\* From the kth node on the rest of them is met.
LEMMA AlongChain ==
    ASSUME NEW c, NEW N, NEW to, NEW stop, NEW last,
           Leads(c, N, to, stop, last)
    PROVE  /\ Along(to, Null, stop) = <<>>
           /\ \A k \in 1 .. N : Along(to, c[k], stop) = Part(c, k, last)
<1> DEFINE D == {Null} \cup DOMAIN to
           path == CHOOSE f : PathFrom(f, to, stop)
           Good == {n \in 0 .. N - 1 : path[c[N - n]] = Part(c, N - n, last)}
<1>1. PathFrom(path, to, stop)
  <2> HIDE DEF PathFrom
  <2>1. QED
    BY PathExists
<1>2. \A n : Along(to, n, stop) = path[n]
  BY DEF Along, PathFrom
<1> HIDE DEF path
<1>3. ASSUME NEW m \in D
      PROVE  path[m] = IF m \in {Null, stop} THEN <<>> ELSE <<m>> \o path[to[m]]
  BY <1>1 DEF PathFrom
<1>4. path[Null] = <<>>
  BY <1>3
<1>5. N \in Nat /\ last \in 0 .. N /\ N - 1 <= last
  BY DEF Leads
<1>6. ASSUME NEW k \in 1 .. N, k > last
      PROVE  path[c[k]] = Part(c, k, last)
  <2>1. c[k] = stop /\ c[k] \in D
    BY <1>6 DEF Leads
  <2>2. 1 .. last - k + 1 = {}
    BY <1>5, <1>6
  <2>3. Part(c, k, last) = <<>>
    BY <2>2 DEF Part
  <2>4. QED
    BY <1>3, <2>1, <2>3
<1>7. ASSUME NEW k \in 1 .. last
      PROVE  path[c[k]] = <<c[k]>> \o path[IF k = N THEN Null ELSE c[k + 1]]
  <2>1. c[k] \notin {Null, stop} /\ c[k] \in D
    BY <1>5 DEF Leads
  <2>2. to[c[k]] = IF k = N THEN Null ELSE c[k + 1]
    BY DEF Leads
  <2>3. QED
    BY <1>3, <2>1, <2>2
<1>8. ASSUME NEW k \in 1 .. last
      PROVE  <<c[k]>> \o Part(c, k + 1, last) = Part(c, k, last)
  BY PartNext
<1>9. ASSUME N # 0
      PROVE  0 \in Good
  <2>1. N \in 1 .. N /\ N - 0 = N /\ 0 \in 0 .. N - 1
    BY <1>5, <1>9
  <2>2. path[c[N]] = Part(c, N, last)
    <3>1. CASE N > last
      BY <1>6, <2>1, <3>1
    <3>2. CASE N <= last
      <4>1. N \in 1 .. last /\ 1 .. last - (N + 1) + 1 = {}
        BY <1>5, <2>1, <3>2
      <4>2. Part(c, N + 1, last) = <<>>
        BY <4>1 DEF Part
      <4>3. QED
        BY <1>4, <1>7, <1>8, <4>1, <4>2
    <3>3. QED
      BY <1>5, <3>1, <3>2
  <2>3. QED
    BY <2>1, <2>2
<1>10. ASSUME NEW m \in 0 .. N - 1 - 1, m \in Good
       PROVE  m + 1 \in Good
  <2> DEFINE k == N - (m + 1)
  <2>1. k \in 1 .. last /\ k # N /\ k + 1 = N - m /\ m + 1 \in 0 .. N - 1
    BY <1>5
  <2>2. path[c[k + 1]] = Part(c, k + 1, last)
    BY <1>10, <2>1
  <2> HIDE DEF k
  <2>3. path[c[k]] = Part(c, k, last)
    BY <1>7, <1>8, <2>1, <2>2
  <2>4. QED
    BY <2>1, <2>3 DEF k
<1>11. ASSUME NEW k \in 1 .. N
       PROVE  path[c[k]] = Part(c, k, last)
  <2>1. N - 1 \in Nat /\ N # 0 /\ N - k \in 0 .. N - 1 /\ N - (N - k) = k
    BY <1>5
  <2> HIDE DEF Good
  <2>2. N - k \in Good
    <3> DEFINE M == N - 1
    <3> HIDE DEF M
    <3>1. M \in Nat /\ 0 \in Good /\ \A m \in 0 .. M - 1 : m \in Good => m + 1 \in Good
      BY <1>9, <1>10, <2>1 DEF M
    <3>2. \A n \in 0 .. M : n \in Good
      BY <3>1, Induction
    <3>3. QED
      BY <2>1, <3>2 DEF M
  <2>3. QED
    BY <2>1, <2>2 DEF Good
<1>12. QED
  BY <1>2, <1>4, <1>11

-----------------------------------------------------------------------------
(* The invariant, and what it says of what is read *)

Count == Len(nodes)
Pointers == [next : Nat, prev : Nat, data : Data \cup {Cleared}]

\* c is the order of the nodes in the list.
Order(c) ==
    /\ c \in [1 .. Count -> 1 .. Count]
    /\ \A k, l \in 1 .. Count : c[k] = c[l] => k = l
    /\ \A n \in 1 .. Count : \E k \in 1 .. Count : c[k] = n
    /\ \A k \in 1 .. Count :
         /\ nodes[c[k]].next = IF k = Count THEN Null ELSE c[k + 1]
         /\ nodes[c[k]].prev = IF k = 1 THEN Null ELSE c[k - 1]
    /\ list.begin = IF Count = 0 THEN Null ELSE c[1]
    /\ list.end = IF Count = 0 THEN Null ELSE c[Count]

Linked ==
    /\ nodes \in Seq(Pointers)
    /\ Count # 1
    /\ \E c : Order(c)
    /\ list = [begin |-> list.begin, end |-> list.end,
               size |-> IF Count = 0 THEN 0 ELSE Count - 1]

IteratorInv ==
    /\ it \in [begin : 0 .. Count, end : {Null, list.end}, current : 0 .. Count]
    /\ it.begin = Null <=> it.end = Null
    /\ it.begin = Null => it.current = Null

ListInv ==
    /\ Linked
    /\ freed = IF alive THEN {} ELSE DOMAIN nodes
    /\ alive \in BOOLEAN /\ more \in BOOLEAN
    /\ IteratorInv

Back(c) == [k \in 1 .. Count |-> c[Count + 1 - k]]

LEMMA CountNat ==
    ASSUME Linked
    PROVE  Count \in Nat /\ DOMAIN nodes = 1 .. Count
BY LenProperties DEF Linked, Count

\* What the pointers of the kth node are.
LEMMA Neighbours ==
    ASSUME Linked, NEW c, Order(c)
    PROVE  /\ \A k \in 1 .. Count : c[k] \in 1 .. Count /\ c[k] # Null
           /\ \A k \in 1 .. Count :
                NextOf[c[k]] = IF k = Count THEN Null ELSE c[k + 1]
           /\ \A k \in 1 .. Count :
                PrevOf[c[k]] = IF k = 1 THEN Null ELSE c[k - 1]
           /\ DOMAIN NextOf = 1 .. Count /\ DOMAIN PrevOf = 1 .. Count
           /\ Count # 0 => Count \in 1 .. Count /\ 2 <= Count
                           /\ list.begin = c[1] /\ list.end = c[Count]
           /\ Count = 0 => list.begin = Null /\ list.end = Null
<1>1. Count \in Nat /\ DOMAIN nodes = 1 .. Count /\ Count # 1
  BY CountNat DEF Linked
<1>2. DOMAIN NextOf = 1 .. Count /\ DOMAIN PrevOf = 1 .. Count
  BY <1>1 DEF NextOf, PrevOf
<1>3. \A k \in 1 .. Count : c[k] \in 1 .. Count /\ c[k] # Null
  <2>1. \A k \in 1 .. Count : c[k] \in 1 .. Count
    BY DEF Order
  <2>2. \A n \in 1 .. Count : n # Null
    BY <1>1 DEF Null
  <2>3. QED
    BY <2>1, <2>2
<1>4. \A n \in 1 .. Count : NextOf[n] = nodes[n].next /\ PrevOf[n] = nodes[n].prev
  BY <1>1 DEF NextOf, PrevOf
<1>5. \A k \in 1 .. Count :
         /\ nodes[c[k]].next = IF k = Count THEN Null ELSE c[k + 1]
         /\ nodes[c[k]].prev = IF k = 1 THEN Null ELSE c[k - 1]
  BY DEF Order
<1>6. Count # 0 => Count \in 1 .. Count /\ 2 <= Count
  BY <1>1
<1>7. list.begin = (IF Count = 0 THEN Null ELSE c[1])
      /\ list.end = (IF Count = 0 THEN Null ELSE c[Count])
  BY DEF Order
<1>8. QED
  BY <1>2, <1>3, <1>4, <1>5, <1>6, <1>7

\* The chain is all of the order, the elements all but its last node, and they read
\* backwards from the end.
LEMMA ChainRead ==
    ASSUME Linked, NEW c, Order(c)
    PROVE  Chain = Part(c, 1, Count)
<1>1. Count \in Nat /\ DOMAIN NextOf = 1 .. Count
  BY CountNat, Neighbours
<1>2. Leads(c, Count, NextOf, Null, Count)
  <2>1. Null \notin DOMAIN NextOf /\ Count \in 0 .. Count /\ Count - 1 <= Count
    BY <1>1 DEF Null
  <2>2. \A k \in 1 .. Count : c[k] = Null <=> k > Count
    BY <1>1, Neighbours
  <2>3. c \in [1 .. Count -> DOMAIN NextOf]
        /\ \A n \in DOMAIN NextOf : \E k \in 1 .. Count : c[k] = n
    BY <1>1 DEF Order
  <2>4. \A k, l \in 1 .. Count : c[k] = c[l] => k = l
    BY DEF Order
  <2>5. \A k \in 1 .. Count :
           NextOf[c[k]] = IF k = Count THEN Null ELSE c[k + 1]
    BY Neighbours
  <2>6. QED
    BY <1>1, <2>1, <2>2, <2>3, <2>4, <2>5 DEF Leads
<1>3. /\ Along(NextOf, Null, Null) = <<>>
      /\ \A k \in 1 .. Count : Along(NextOf, c[k], Null) = Part(c, k, Count)
  BY <1>2, AlongChain
<1>4. CASE Count = 0
  <2>1. Part(c, 1, Count) = <<>>
    BY <1>4 DEF Part
  <2>2. QED
    BY <1>3, <1>4, <2>1, Neighbours DEF Chain
<1>5. CASE Count # 0
  BY <1>1, <1>3, <1>5, Neighbours DEF Chain
<1>6. QED
  BY <1>4, <1>5

LEMMA ElementsRead ==
    ASSUME Linked, NEW c, Order(c)
    PROVE  FromBegin = Part(c, 1, Count - 1)
<1>1. Count \in Nat /\ DOMAIN NextOf = 1 .. Count
  BY CountNat, Neighbours
<1>2. CASE Count = 0
  <2>1. 1 .. Count - 1 - 1 + 1 = {} /\ FromBegin = Chain
    BY <1>2, Neighbours DEF FromBegin, Chain
  <2>2. Part(c, 1, Count - 1) = <<>> /\ Part(c, 1, Count) = <<>>
    BY <1>2, <2>1 DEF Part
  <2>3. QED
    BY <2>1, <2>2, ChainRead
<1>3. CASE Count # 0
  <2>1. Leads(c, Count, NextOf, list.end, Count - 1)
    <3>1. /\ Null \notin DOMAIN NextOf
          /\ Count - 1 \in 0 .. Count /\ Count - 1 <= Count - 1
          /\ \A k \in 1 .. Count - 1 : k \in 1 .. Count
          /\ \A k \in 1 .. Count : k > Count - 1 <=> k = Count
      BY <1>1, <1>3 DEF Null
    <3>2. \A k \in 1 .. Count : c[k] = list.end <=> k > Count - 1
      <4>1. list.end = c[Count] /\ Count \in 1 .. Count
        BY <1>3, Neighbours
      <4>2. \A k, l \in 1 .. Count : c[k] = c[l] => k = l
        BY DEF Order
      <4>3. QED
        BY <3>1, <4>1, <4>2
    <3>3. c \in [1 .. Count -> DOMAIN NextOf]
          /\ \A n \in DOMAIN NextOf : \E k \in 1 .. Count : c[k] = n
      BY <1>1 DEF Order
    <3>4. \A k, l \in 1 .. Count : c[k] = c[l] => k = l
      BY DEF Order
    <3>5. \A k \in 1 .. Count - 1 :
             NextOf[c[k]] = IF k = Count THEN Null ELSE c[k + 1]
      BY <3>1, Neighbours
    <3>6. QED
      BY <1>1, <3>1, <3>2, <3>3, <3>4, <3>5 DEF Leads
  <2>2. \A k \in 1 .. Count : Along(NextOf, c[k], list.end) = Part(c, k, Count - 1)
    BY <2>1, AlongChain
  <2>3. QED
    BY <1>1, <1>3, <2>2, Neighbours DEF FromBegin
<1>4. QED
  BY <1>2, <1>3

LEMMA BackwardsRead ==
    ASSUME Linked, NEW c, Order(c)
    PROVE  FromEnd = Part(Back(c), 2, Count)
<1>1. Count \in Nat /\ DOMAIN PrevOf = 1 .. Count
  BY CountNat, Neighbours
<1>2. CASE Count = 0
  <2>1. 1 .. Count - 2 + 1 = {} /\ FromEnd = <<>>
    BY <1>2, Neighbours DEF FromEnd
  <2>2. Part(Back(c), 2, Count) = <<>>
    BY <2>1 DEF Part
  <2>3. QED
    BY <2>1, <2>2
<1>3. CASE Count # 0
  <2> DEFINE r == Back(c)
  <2>1. \A k \in 1 .. Count : Count + 1 - k \in 1 .. Count
    BY <1>1
  <2>2. \A k \in 1 .. Count : r[k] = c[Count + 1 - k]
    BY DEF Back
  <2>3. r \in [1 .. Count -> 1 .. Count]
    BY <2>1, Neighbours DEF Back
  <2> HIDE DEF r
  <2>4. Leads(r, Count, PrevOf, Null, Count)
    <3>1. Null \notin DOMAIN PrevOf /\ Count \in 0 .. Count /\ Count - 1 <= Count
      BY <1>1 DEF Null
    <3>2. \A k \in 1 .. Count : r[k] = Null <=> k > Count
      <4>1. \A n \in 1 .. Count : n # Null
        BY <1>1 DEF Null
      <4>2. \A k \in 1 .. Count : r[k] \in 1 .. Count /\ ~ k > Count
        BY <1>1, <2>3
      <4>3. QED
        BY <4>1, <4>2
    <3>3. \A n \in DOMAIN PrevOf : \E k \in 1 .. Count : r[k] = n
      <4>1. ASSUME NEW n \in 1 .. Count
            PROVE  \E k \in 1 .. Count : r[k] = n
        <5>1. PICK l \in 1 .. Count : c[l] = n
          BY DEF Order
        <5>2. Count + 1 - (Count + 1 - l) = l
          BY <1>1
        <5>3. r[Count + 1 - l] = n
          BY <2>1, <2>2, <5>1, <5>2
        <5>4. QED
          BY <2>1, <5>3
      <4>2. QED
        BY <1>1, <4>1
    <3>4. ASSUME NEW k \in 1 .. Count, NEW l \in 1 .. Count, r[k] = r[l]
          PROVE  k = l
      <4>1. c[Count + 1 - k] = c[Count + 1 - l]
        BY <2>2, <3>4
      <4>2. Count + 1 - k = Count + 1 - l
        BY <2>1, <4>1 DEF Order
      <4>3. QED
        BY <1>1, <4>2
    <3>5. ASSUME NEW k \in 1 .. Count
          PROVE  PrevOf[r[k]] = IF k = Count THEN Null ELSE r[k + 1]
      <4> DEFINE l == Count + 1 - k
      <4>1. l \in 1 .. Count /\ (l = 1 <=> k = Count)
            /\ (k # Count => k + 1 \in 1 .. Count /\ Count + 1 - (k + 1) = l - 1)
        BY <1>1
      <4>2. r[k] = c[l] /\ (k # Count => r[k + 1] = c[l - 1])
        BY <2>2, <4>1
      <4> HIDE DEF l
      <4>3. PrevOf[c[l]] = IF l = 1 THEN Null ELSE c[l - 1]
        BY <4>1, Neighbours
      <4>4. QED
        BY <4>1, <4>2, <4>3
    <3>6. QED
      BY <1>1, <2>3, <3>1, <3>2, <3>3, <3>4, <3>5 DEF Leads
  <2>5. \A k \in 1 .. Count : Along(PrevOf, r[k], Null) = Part(r, k, Count)
    BY <2>4, AlongChain
  <2>6. 2 \in 1 .. Count /\ Count + 1 - 2 = Count - 1 /\ Count # 1
        /\ Count \in 1 .. Count /\ list.end = c[Count] /\ list.end # Null
    BY <1>1, <1>3, Neighbours
  <2>7. nodes[list.end].prev = r[2]
    <3>1. nodes[c[Count]].prev = c[Count - 1]
      BY <2>6 DEF Order
    <3>2. QED
      BY <2>2, <2>6, <3>1
  <2>8. QED
    BY <2>5, <2>6, <2>7 DEF FromEnd, r
<1>4. QED
  BY <1>2, <1>3

\* The links agree when the nodes are in order: what is read from the end is what is
\* read from begin, reversed.
LEMMA LinkedAgrees ==
    ASSUME Linked
    PROVE  LinksAgree
<1>1. PICK c : Order(c)
  BY DEF Linked
<1>2. Count \in Nat /\ Count # 1
  BY CountNat DEF Linked
<1> DEFINE p == FromBegin
           q == FromEnd
<1>3. p = Part(c, 1, Count - 1) /\ q = Part(Back(c), 2, Count)
  BY <1>1, ElementsRead, BackwardsRead
<1> HIDE DEF p, q
<1>4. CASE Count = 0
  <2>1. 1 .. Count - 1 - 1 + 1 = {} /\ 1 .. Count - 2 + 1 = {} /\ 1 .. 0 = {}
    BY <1>4
  <2>2. p = <<>> /\ q = <<>>
    BY <1>3, <2>1 DEF Part
  <2>3. Len(q) = 0
    BY <2>2
  <2>4. Reverse(q) = <<>>
    BY <2>1, <2>3 DEF Reverse
  <2>5. list.size = 0
    BY <1>4 DEF Linked
  <2>6. QED
    BY <2>2, <2>3, <2>4, <2>5 DEF LinksAgree, p, q
<1>5. CASE Count # 0
  <2> DEFINE M == Count - 1
             N == Count
  <2>1. M \in Nat /\ N \in Nat /\ M = N - 1 /\ N - 1 - 1 + 1 = M /\ N - 2 + 1 = M
    BY <1>2, <1>5
  <2>2. \A k \in 1 .. M : /\ 2 + k - 1 \in 1 .. N /\ N + 1 - (2 + k - 1) = N - k
                          /\ N - k \in 1 .. N /\ 1 + k - 1 = k /\ k \in 1 .. N
                          /\ M - k + 1 = N - k /\ M - k + 1 \in 1 .. M
                          /\ N - (M - k + 1) = k
    BY <2>1
  <2>3. p = [k \in 1 .. M |-> c[1 + k - 1]]
    BY <1>3, <2>1 DEF Part
  <2>4. q = [k \in 1 .. M |-> Back(c)[2 + k - 1]]
    BY <1>3, <2>1 DEF Part
  <2> HIDE DEF M, N
  <2>5. \A k \in 1 .. M : p[k] = c[k]
    BY <2>2, <2>3
  <2>6. \A k \in 1 .. M : q[k] = c[N - k]
    <3>1. \A k \in 1 .. N : Back(c)[k] = c[N + 1 - k]
      BY DEF Back, N
    <3>2. QED
      BY <2>2, <2>4, <3>1
  <2>7. Len(q) = M
    <3>1. \A k \in 1 .. M : q[k] \in 1 .. Count
      BY <1>1, <2>2, <2>6, Neighbours DEF N
    <3> DEFINE S == 1 .. Count
    <3>2. q \in [1 .. M -> S]
      BY <2>4, <3>1
    <3> HIDE DEF S
    <3>3. q \in Seq(S) /\ DOMAIN q = 1 .. M
      BY <2>1, <3>2
    <3>4. Len(q) \in Nat /\ DOMAIN q = 1 .. Len(q)
      BY <3>3, LenProperties
    <3>5. QED
      BY <2>1, <3>3, <3>4
  <2>8. Reverse(q) = p
    <3>1. Reverse(q) = [k \in 1 .. M |-> q[(M - k) + 1]]
      BY <2>7 DEF Reverse
    <3>2. \A k \in 1 .. M : Reverse(q)[k] = p[k]
      BY <2>2, <2>5, <2>6, <3>1
    <3> DEFINE r == Reverse(q)
    <3>3. r = [k \in 1 .. M |-> r[k]] /\ p = [k \in 1 .. M |-> p[k]]
      BY <2>3, <3>1
    <3>4. \A k \in 1 .. M : r[k] = p[k]
      BY <3>2
    <3> HIDE DEF r
    <3>5. r = p
      BY <3>3, <3>4
    <3>6. QED
      BY <3>5 DEF r
  <2>9. list.size = M
    BY <1>5 DEF Linked, M
  <2>10. QED
    BY <2>7, <2>8, <2>9 DEF LinksAgree, p, q
<1>6. QED
  BY <1>4, <1>5

\* Every node is in the chain, once.
LEMMA ChainIsAll ==
    ASSUME Linked
    PROVE  /\ Range(Chain) = 1 .. Count
           /\ Len(Chain) = Count
<1>1. PICK c : Order(c)
  BY DEF Linked
<1>2. Count \in Nat
  BY CountNat
<1> DEFINE p == Chain
<1>3. p = Part(c, 1, Count)
  BY <1>1, ChainRead
<1>4. Count - 1 + 1 = Count /\ \A k \in 1 .. Count : 1 + k - 1 = k
  BY <1>2
<1> HIDE DEF p
<1>5. p = [k \in 1 .. Count |-> c[1 + k - 1]]
  BY <1>3, <1>4 DEF Part
<1>6. \A k \in 1 .. Count : p[k] = c[k]
  BY <1>4, <1>5
<1>7. \A k \in 1 .. Count : p[k] \in 1 .. Count
  BY <1>1, <1>6 DEF Order
<1>8. p \in [1 .. Count -> 1 .. Count]
  BY <1>5, <1>7
<1>9. p \in Seq(1 .. Count) /\ Len(p) = Count
  BY <1>2, <1>8, LenProperties
<1>10. \A n \in 1 .. Count : \E k \in 1 .. Count : p[k] = n
  BY <1>1, <1>6 DEF Order
<1>11. DOMAIN p = 1 .. Count
  BY <1>5
<1>12. Range(p) = 1 .. Count
  <2>1. Range(p) = {p[k] : k \in 1 .. Count}
    BY <1>11 DEF Range
  <2>2. QED
    BY <1>7, <1>10, <2>1
<1>13. QED
  BY <1>9, <1>12 DEF p

\* So destroy frees every node, and frees it once.
LEMMA AllFreed ==
    ASSUME ListInv
    PROVE  DestroyFreesAll
<1>1. Count \in Nat /\ Linked
  BY CountNat DEF ListInv
<1>2. Cardinality(1 .. Count) = Count
  <2>1. 1 \in Int /\ Count \in Int /\ (1 > Count => Count = 0) /\ Count - 1 + 1 = Count
    BY <1>1
  <2>2. Cardinality(1 .. Count) = IF 1 > Count THEN 0 ELSE Count - 1 + 1
    BY <2>1, FS_Interval
  <2>3. QED
    BY <2>1, <2>2
<1>3. QED
  BY <1>1, <1>2, ChainIsAll DEF DestroyFreesAll, ListInv

\* Pointers lead to nodes.
LEMMA ListTyped ==
    ASSUME ListInv
    PROVE  TypeOK
<1>1. PICK c : Order(c)
  BY DEF ListInv, Linked
<1>2. Count \in Nat /\ DOMAIN nodes = 1 .. Count /\ Count = Len(nodes) /\ Linked
  BY CountNat DEF ListInv, Count
<1>3. ASSUME NEW n \in DOMAIN nodes
      PROVE  /\ nodes[n].next \in 0 .. Count /\ nodes[n].prev \in 0 .. Count
             /\ nodes[n].data \in Data \cup {Cleared}
  <2>1. nodes[n] \in Pointers
    BY <1>2, ElementOfSeq DEF Linked, Count
  <2>2. PICK k \in 1 .. Count : c[k] = n
    BY <1>1, <1>2 DEF Order
  <2>3. /\ nodes[n].next = IF k = Count THEN Null ELSE c[k + 1]
        /\ nodes[n].prev = IF k = 1 THEN Null ELSE c[k - 1]
    BY <1>1, <2>2 DEF Order
  <2> DEFINE N == Count
  <2>4. N \in Nat /\ N = Count
    BY <1>2
  <2> HIDE DEF N
  <2>5. \A l \in 1 .. N : c[l] \in 0 .. N
    <3>1. \A l \in 1 .. N : c[l] \in 1 .. N
      BY <1>1, <1>2, <2>4, Neighbours
    <3>2. QED
      BY <2>4, <3>1
  <2>6. nodes[n].next \in 0 .. Count /\ nodes[n].prev \in 0 .. Count
    <3>1. (k # N => k + 1 \in 1 .. N) /\ (k # 1 => k - 1 \in 1 .. N)
          /\ Null \in 0 .. N
      BY <2>2, <2>4 DEF Null
    <3>2. QED
      BY <2>3, <2>4, <2>5, <3>1
  <2>7. QED
    BY <2>1, <2>6 DEF Pointers
<1>4. /\ list.begin \in 0 .. Count /\ list.end \in 0 .. Count
      /\ list.end = Null <=> list.begin = Null
  <2>1. 0 \in 0 .. Count /\ \A n \in 1 .. Count : n \in 0 .. Count
    BY <1>2
  <2>2. CASE Count = 0
    BY <1>1, <1>2, <2>1, <2>2, Neighbours DEF Null
  <2>3. CASE Count # 0
    <3>1. list.begin = c[1] /\ list.end = c[Count] /\ 1 \in 1 .. Count /\ Count \in 1 .. Count
      <4>1. list.begin = c[1] /\ list.end = c[Count] /\ Count \in 1 .. Count
        BY <1>1, <1>2, <2>3, Neighbours
      <4>2. QED
        BY <1>2, <4>1
    <3>2. c[1] \in 1 .. Count /\ c[1] # Null /\ c[Count] \in 1 .. Count /\ c[Count] # Null
      BY <1>1, <1>2, <3>1, Neighbours
    <3>3. QED
      BY <2>1, <3>1, <3>2
  <2>4. QED
    BY <2>2, <2>3
<1>5. list.size \in 0 .. Count
  BY <1>2 DEF Linked
<1>6. freed \subseteq DOMAIN nodes /\ alive \in BOOLEAN /\ more \in BOOLEAN
  BY DEF ListInv
<1>7. {it.begin, it.end, it.current} \subseteq 0 .. Count
  <2>1. it.begin \in 0 .. Count /\ it.current \in 0 .. Count /\ it.end \in {Null, list.end}
    BY DEF ListInv, IteratorInv
  <2>2. it.end \in 0 .. Count
    BY <1>2, <1>4, <2>1 DEF Null
  <2>3. QED
    BY <2>1, <2>2
<1> DEFINE N == Len(nodes)
<1>8. N = Count
  BY <1>2
<1> HIDE DEF N, Count
<1>9. QED
  BY <1>3, <1>4, <1>5, <1>6, <1>7, <1>8, Zenon DEF TypeOK, N

-----------------------------------------------------------------------------
(* Getting in *)

\* c after node N + 1 got in at k.
With(c, k, N) ==
    [j \in 1 .. N + 1 |->
        IF j < k THEN c[j] ELSE IF j = k THEN N + 1 ELSE c[j - 1]]

\* Node m after a new one got in at k.
Relinked(m, c, k) ==
    [next |-> IF k # 1 /\ m = c[k - 1] THEN New ELSE nodes[m].next,
     prev |-> IF m = c[k] THEN New ELSE nodes[m].prev,
     data |-> nodes[m].data]

\* What every push but the first one does.
GetsIn(c, k, d) ==
    /\ k \in 1 .. Count
    /\ nodes' = Append([m \in 1 .. Count |-> Relinked(m, c, k)],
                       Node(c[k], IF k = 1 THEN Null ELSE c[k - 1], d))
    /\ list' = [begin |-> IF k = 1 THEN New ELSE list.begin, end |-> list.end,
                size |-> list.size + 1]

\* A node is its three fields.
LEMMA NodeFields ==
    ASSUME Linked, NEW n \in 1 .. Count
    PROVE  /\ nodes[n] = [next |-> nodes[n].next, prev |-> nodes[n].prev,
                          data |-> nodes[n].data]
           /\ nodes[n].next \in Nat /\ nodes[n].prev \in Nat
           /\ nodes[n].data \in Data \cup {Cleared}
<1>1. nodes[n] \in Pointers
  BY CountNat, ElementOfSeq DEF Linked, Count
<1>2. QED
  BY <1>1 DEF Pointers

\* A push before the kth node gets in at k.
LEMMA BeforeGetsIn ==
    ASSUME Linked, NEW c, Order(c), NEW k \in 1 .. Count, NEW d,
           PushBefore(c[k], d)
    PROVE  GetsIn(c, k, d)
<1> DEFINE n == c[k]
           before == nodes[n].prev
<1>1. Count \in Nat /\ DOMAIN nodes = 1 .. Count /\ New = Count + 1
  BY CountNat DEF New, Count
<1>2. n \in 1 .. Count /\ before = IF k = 1 THEN Null ELSE c[k - 1]
  BY DEF Order
<1>3. Null \notin 1 .. Count /\ (k # 1 => k - 1 \in 1 .. Count /\ k - 1 # k)
  BY <1>1 DEF Null
<1>4. \A m \in 1 .. Count : m = before <=> k # 1 /\ m = c[k - 1]
  BY <1>2, <1>3
<1>5. k # 1 => c[k - 1] # n
  BY <1>3 DEF Order
<1>6. nodes' = Append([m \in 1 .. Count |->
                         CASE m = n      -> [nodes[m] EXCEPT !.prev = New]
                           [] m = before -> [nodes[m] EXCEPT !.next = New]
                           [] OTHER      -> nodes[m]],
                      Node(n, before, d))
  BY <1>1 DEF PushBefore
<1>7. list' = [list EXCEPT !.begin = BeginBefore(n), !.size = @ + 1]
  BY DEF PushBefore
<1> HIDE DEF n, before
<1>8. ASSUME NEW m \in 1 .. Count
      PROVE  (CASE m = n      -> [nodes[m] EXCEPT !.prev = New]
                [] m = before -> [nodes[m] EXCEPT !.next = New]
                [] OTHER      -> nodes[m]) = Relinked(m, c, k)
  <2>1. nodes[m] = [next |-> nodes[m].next, prev |-> nodes[m].prev,
                    data |-> nodes[m].data]
    BY NodeFields
  <2>2. m = c[k] <=> m = n
    BY DEF n
  <2>3. CASE m = n
    <3>1. ~(k # 1 /\ m = c[k - 1])
      BY <1>5, <2>3
    <3>2. [nodes[m] EXCEPT !.prev = New]
             = [next |-> nodes[m].next, prev |-> New, data |-> nodes[m].data]
      BY <2>1
    <3>3. Relinked(m, c, k)
             = [next |-> nodes[m].next, prev |-> New, data |-> nodes[m].data]
      <4>1. m = c[k]
        BY <2>2, <2>3
      <4>2. QED
        BY <3>1, <4>1 DEF Relinked
    <3> DEFINE e1 == [nodes[m] EXCEPT !.prev = New]
               e2 == [nodes[m] EXCEPT !.next = New]
    <3>4. e1 = Relinked(m, c, k)
      BY <3>2, <3>3
    <3>5. ~(m = before)
      BY <1>4, <3>1
    <3> HIDE DEF e1, e2
    <3>6. (CASE m = n      -> e1
             [] m = before -> e2
             [] OTHER      -> nodes[m]) = e1
      BY <2>3, <3>5
    <3>7. QED
      BY <3>4, <3>6 DEF e1, e2
  <2>4. CASE m # n /\ m = before
    <3>1. k # 1 /\ m = c[k - 1]
      BY <1>4, <2>4
    <3>2. [nodes[m] EXCEPT !.next = New]
             = [next |-> New, prev |-> nodes[m].prev, data |-> nodes[m].data]
      BY <2>1
    <3>3. QED
      BY <2>2, <2>4, <3>1, <3>2 DEF Relinked
  <2>5. CASE m # n /\ m # before
    BY <1>4, <2>1, <2>2, <2>5 DEF Relinked
  <2>6. QED
    BY <2>3, <2>4, <2>5
<1>9. [m \in 1 .. Count |->
          CASE m = n      -> [nodes[m] EXCEPT !.prev = New]
            [] m = before -> [nodes[m] EXCEPT !.next = New]
            [] OTHER      -> nodes[m]] = [m \in 1 .. Count |-> Relinked(m, c, k)]
  BY <1>8
<1>10. list' = [begin |-> IF k = 1 THEN New ELSE list.begin, end |-> list.end,
                size |-> list.size + 1]
  <2>1. list = [begin |-> list.begin, end |-> list.end, size |-> list.size]
    BY DEF Linked
  <2>2. nodes[n].prev = Null <=> k = 1
    <3>1. before = Null <=> k = 1
      <4>1. k # 1 => c[k - 1] \in 1 .. Count
        BY <1>3 DEF Order
      <4>2. QED
        BY <1>2, <1>3, <4>1
    <3>2. QED
      BY <3>1 DEF before
  <2>3. QED
    BY <1>7, <2>1, <2>2 DEF BeginBefore
<1>11. QED
  BY <1>2, <1>6, <1>9, <1>10 DEF GetsIn, n

\* A push behind the last element gets in before the end.
LEMMA AfterGetsIn ==
    ASSUME Linked, NEW c, Order(c), Count # 0, NEW d,
           PushAfter(nodes[list.end].prev, d)
    PROVE  GetsIn(c, Count, d)
<1> DEFINE n == nodes[list.end].prev
           last == c[Count]
<1>1. Count \in Nat /\ DOMAIN nodes = 1 .. Count /\ New = Count + 1
  BY CountNat DEF New, Count
<1>2. 2 <= Count /\ Count \in 1 .. Count /\ list.end = last
  BY Neighbours
<1>3. Count - 1 \in 1 .. Count /\ Count # 1 /\ Count - 1 # Count
      /\ Count - 1 + 1 = Count
  BY <1>1, <1>2
<1>4. n = c[Count - 1]
  BY <1>2, <1>3 DEF Order
<1>5. nodes[n].next = last
  BY <1>3, <1>4 DEF Order
<1>6. n # last /\ n \in 1 .. Count /\ last \in 1 .. Count
  <2>1. \A k \in 1 .. Count : c[k] \in 1 .. Count
    BY Neighbours
  <2>2. c[Count - 1] # c[Count]
    BY <1>2, <1>3 DEF Order
  <2> HIDE DEF n
  <2>3. QED
    BY <1>2, <1>3, <1>4, <2>1, <2>2
<1>7. nodes' = Append([BothWays(nodes, n) EXCEPT ![n].next = New],
                      Node(nodes[n].next, n, d))
      /\ list' = [list EXCEPT !.size = @ + 1]
  BY DEF PushAfter
<1> HIDE DEF n, last
<1> DEFINE s == [BothWays(nodes, n) EXCEPT ![n].next = New]
<1>8. BothWays(nodes, n) = [nodes EXCEPT ![last].prev = New]
  BY <1>5 DEF BothWays
<1>9. s = [m \in 1 .. Count |-> Relinked(m, c, Count)]
  <2>1. s = [m \in 1 .. Count |-> s[m]]
    BY <1>1, <1>8
  <2>2. ASSUME NEW m \in 1 .. Count
        PROVE  s[m] = Relinked(m, c, Count)
    <3>1. nodes[m] = [next |-> nodes[m].next, prev |-> nodes[m].prev,
                      data |-> nodes[m].data]
      BY NodeFields
    <3>2. /\ m = c[Count] <=> m = last
          /\ m = c[Count - 1] <=> m = n
      BY <1>4 DEF last
    <3>3. CASE m = n
      <4>1. s[m] = [nodes[m] EXCEPT !.next = New]
        BY <1>1, <1>6, <1>8, <3>3
      <4>2. s[m] = [next |-> New, prev |-> nodes[m].prev, data |-> nodes[m].data]
        BY <3>1, <4>1
      <4>3. QED
        BY <1>3, <1>6, <3>2, <3>3, <4>2 DEF Relinked
    <3>4. CASE m = last
      <4>1. s[m] = [nodes[m] EXCEPT !.prev = New]
        BY <1>1, <1>6, <1>8, <3>4
      <4>2. s[m] = [next |-> nodes[m].next, prev |-> New, data |-> nodes[m].data]
        BY <3>1, <4>1
      <4>3. QED
        BY <1>3, <1>6, <3>2, <3>4, <4>2 DEF Relinked
    <3>5. CASE m # n /\ m # last
      <4>1. s[m] = nodes[m]
        BY <1>1, <1>6, <1>8, <3>5
      <4>2. QED
        BY <3>1, <3>2, <3>5, <4>1 DEF Relinked
    <3>6. QED
      BY <3>3, <3>4, <3>5
  <2> HIDE DEF s
  <2>3. [m \in 1 .. Count |-> s[m]] = [m \in 1 .. Count |-> Relinked(m, c, Count)]
    BY <2>2
  <2>4. QED
    BY <2>1, <2>3
<1>10. list' = [begin |-> list.begin, end |-> list.end, size |-> list.size + 1]
  <2>1. list = [begin |-> list.begin, end |-> list.end, size |-> list.size]
    BY DEF Linked
  <2>2. QED
    BY <1>7, <2>1
<1>11. QED
  <2>1. nodes[n].next = c[Count]
    BY <1>5 DEF last
  <2> HIDE DEF s
  <2>2. nodes' = Append(s, Node(c[Count], c[Count - 1], d))
    BY <1>4, <1>7, <2>1 DEF s
  <2>3. QED
    BY <1>2, <1>3, <1>9, <1>10, <2>2 DEF GetsIn

\* The nodes after that, one by one.
LEMMA GotIn ==
    ASSUME Linked, NEW c, Order(c), NEW k, NEW d \in Data, GetsIn(c, k, d)
    PROVE  /\ nodes' \in Seq(Pointers)
           /\ Count' = Count + 1
           /\ \A m \in 1 .. Count : nodes'[m] = Relinked(m, c, k)
           /\ nodes'[Count + 1]
                 = Node(c[k], IF k = 1 THEN Null ELSE c[k - 1], d)
<1> DEFINE s == [m \in 1 .. Count |-> Relinked(m, c, k)]
           e == Node(c[k], IF k = 1 THEN Null ELSE c[k - 1], d)
<1>1. Count \in Nat /\ New = Count + 1 /\ k \in 1 .. Count
  BY CountNat DEF New, Count, GetsIn
<1>2. \A l \in 1 .. Count : c[l] \in Nat
  BY <1>1, Neighbours
<1>3. e \in Pointers
  <2>1. k # 1 => k - 1 \in 1 .. Count
    BY <1>1
  <2>2. QED
    BY <1>1, <1>2, <2>1 DEF Node, Pointers, Null
<1>4. ASSUME NEW m \in 1 .. Count
      PROVE  Relinked(m, c, k) \in Pointers
  <2>1. nodes[m].next \in Nat /\ nodes[m].prev \in Nat
        /\ nodes[m].data \in Data \cup {Cleared}
    BY NodeFields
  <2>2. New \in Nat
    BY <1>1
  <2>3. QED
    BY <2>1, <2>2 DEF Relinked, Pointers
<1>5. s \in Seq(Pointers) /\ Len(s) = Count
  <2>1. s \in [1 .. Count -> Pointers]
    BY <1>4
  <2> HIDE DEF s
  <2>2. s \in Seq(Pointers) /\ DOMAIN s = 1 .. Count
    BY <1>1, <2>1
  <2>3. Len(s) \in Nat /\ DOMAIN s = 1 .. Len(s)
    BY <2>2, LenProperties
  <2>4. QED
    BY <1>1, <2>2, <2>3
<1>6. nodes' = Append(s, e)
  BY DEF GetsIn
<1>7. \A m \in 1 .. Count : s[m] = Relinked(m, c, k)
  OBVIOUS
<1> HIDE DEF s, e
<1>8. /\ Append(s, e) \in Seq(Pointers)
      /\ Len(Append(s, e)) = Count + 1
      /\ \A m \in 1 .. Count : Append(s, e)[m] = s[m]
      /\ Append(s, e)[Count + 1] = e
  BY <1>1, <1>3, <1>5, AppendProperties
<1>9. QED
  BY <1>6, <1>7, <1>8 DEF Count, e

\* Every number up to N has one place in c.
Permutes(c, N) ==
    /\ c \in [1 .. N -> 1 .. N]
    /\ \A i, j \in 1 .. N : c[i] = c[j] => i = j
    /\ \A n \in 1 .. N : \E i \in 1 .. N : c[i] = n

\* e is c with N + 1 at k.
Grown(e, c, k, N) ==
    /\ Permutes(e, N + 1)
    /\ \A i \in 1 .. N : i < k => e[i] = c[i]
    /\ e[k] = N + 1
    /\ \A i \in 1 .. N : i >= k => e[i + 1] = c[i]
    /\ \A i \in 1 .. N + 1 :
         \/ i < k /\ i \in 1 .. N
         \/ i = k
         \/ i > k /\ i - 1 \in 1 .. N /\ i - 1 >= k

\* With a number that is new at k, each has one place still.
LEMMA WithOrder ==
    ASSUME NEW N \in Nat, NEW c, Permutes(c, N), NEW k \in 1 .. N
    PROVE  Grown(With(c, k, N), c, k, N)
<1> DEFINE e == With(c, k, N)
<1>1. e = [j \in 1 .. N + 1 |->
             IF j < k THEN c[j] ELSE IF j = k THEN N + 1 ELSE c[j - 1]]
  BY DEF With
<1> HIDE DEF e
<1>2. \A i \in 1 .. N : c[i] \in 1 .. N /\ c[i] # N + 1
  <2>1. \A i \in 1 .. N : c[i] \in 1 .. N
    BY DEF Permutes
  <2>2. \A n \in 1 .. N : n # N + 1
    OBVIOUS
  <2>3. QED
    BY <2>1, <2>2
<1>3. \A i \in 1 .. N : i \in 1 .. N + 1 /\ i + 1 \in 1 .. N + 1 /\ i + 1 - 1 = i
                        /\ (i >= k => ~(i + 1 < k) /\ i + 1 # k)
  OBVIOUS
<1>4. \A i \in 1 .. N + 1 :
         \/ i < k /\ i \in 1 .. N
         \/ i = k
         \/ i > k /\ i - 1 \in 1 .. N /\ i - 1 >= k
  OBVIOUS
<1>5. \A i \in 1 .. N : i < k => e[i] = c[i]
  BY <1>1, <1>3
<1>6. e[k] = N + 1
  BY <1>1
<1>7. \A i \in 1 .. N : i >= k => e[i + 1] = c[i]
  BY <1>1, <1>3
<1>8. \A i \in 1 .. N + 1 : i > k => e[i] = c[i - 1]
  BY <1>1
<1>9. \A i \in 1 .. N + 1 : e[i] \in 1 .. N + 1
  <2>1. N + 1 \in 1 .. N + 1 /\ \A n \in 1 .. N : n \in 1 .. N + 1
    OBVIOUS
  <2>2. QED
    BY <1>2, <1>4, <1>5, <1>6, <1>8, <2>1
<1>10. e \in [1 .. N + 1 -> 1 .. N + 1]
  BY <1>1, <1>9
<1>11. ASSUME NEW i \in 1 .. N + 1, NEW j \in 1 .. N + 1, e[i] = e[j]
       PROVE  i = j
  <2>1. /\ i < k => i \in 1 .. N /\ e[i] = c[i] /\ c[i] # N + 1
        /\ i > k => i - 1 \in 1 .. N /\ e[i] = c[i - 1] /\ c[i - 1] # N + 1
        /\ i < k \/ i = k \/ i > k
    BY <1>2, <1>4, <1>5, <1>8
  <2>2. /\ j < k => j \in 1 .. N /\ e[j] = c[j] /\ c[j] # N + 1
        /\ j > k => j - 1 \in 1 .. N /\ e[j] = c[j - 1] /\ c[j - 1] # N + 1
        /\ j < k \/ j = k \/ j > k
    BY <1>2, <1>4, <1>5, <1>8
  <2>3. \A a, b \in 1 .. N : c[a] = c[b] => a = b
    BY DEF Permutes
  <2>4. CASE i = k \/ j = k
    BY <1>6, <1>11, <2>1, <2>2, <2>4
  <2>5. CASE i < k /\ j < k
    BY <1>11, <2>1, <2>2, <2>3, <2>5
  <2>6. CASE i < k /\ j > k
    <3>1. i = j - 1
      BY <1>11, <2>1, <2>2, <2>3, <2>6
    <3>2. QED
      BY <2>6, <3>1
  <2>7. CASE i > k /\ j < k
    <3>1. i - 1 = j
      BY <1>11, <2>1, <2>2, <2>3, <2>7
    <3>2. QED
      BY <2>7, <3>1
  <2>8. CASE i > k /\ j > k
    <3>1. i - 1 = j - 1
      BY <1>11, <2>1, <2>2, <2>3, <2>8
    <3>2. QED
      BY <3>1
  <2>9. QED
    BY <2>1, <2>2, <2>4, <2>5, <2>6, <2>7, <2>8
<1>12. ASSUME NEW n \in 1 .. N + 1
       PROVE  \E i \in 1 .. N + 1 : e[i] = n
  <2>1. CASE n = N + 1
    <3>1. k \in 1 .. N + 1
      OBVIOUS
    <3>2. QED
      BY <1>6, <2>1, <3>1
  <2>2. CASE n \in 1 .. N
    <3>1. PICK i \in 1 .. N : c[i] = n
      BY <2>2 DEF Permutes
    <3>2. e[i] = n \/ e[i + 1] = n
      <4>1. i < k \/ i >= k
        OBVIOUS
      <4>2. QED
        BY <1>5, <1>7, <3>1, <4>1
    <3>3. QED
      BY <1>3, <3>2
  <2>3. QED
    BY <2>1, <2>2
<1>13. QED
  BY <1>4, <1>5, <1>6, <1>7, <1>10, <1>11, <1>12 DEF Permutes, Grown, e

\* A node that got in at k is at k of the order, and the others keep theirs.
LEMMA InsertOrder ==
    ASSUME Linked, NEW c, Order(c), NEW k, NEW d \in Data, GetsIn(c, k, d),
           NEW e, e = With(c, k, Count)
    PROVE  Order(e)' /\ Linked'
<1> DEFINE N == Count
<1>1. N \in Nat /\ New = N + 1 /\ k \in 1 .. N /\ N # 1 /\ N # 0
  <2>1. Count \in Nat /\ Count # 1 /\ New = Count + 1 /\ k \in 1 .. Count
    BY CountNat DEF Linked, GetsIn, New, Count
  <2>2. QED
    BY <2>1
<1>2. /\ c \in [1 .. N -> 1 .. N]
      /\ \A i, j \in 1 .. N : c[i] = c[j] => i = j
      /\ \A n \in 1 .. N : \E i \in 1 .. N : c[i] = n
  BY DEF Order
<1>3. /\ \A i \in 1 .. N : nodes[c[i]].next = IF i = N THEN Null ELSE c[i + 1]
      /\ \A i \in 1 .. N : nodes[c[i]].prev = IF i = 1 THEN Null ELSE c[i - 1]
  BY DEF Order
<1>4. /\ nodes' \in Seq(Pointers)
      /\ Count' = N + 1
      /\ \A m \in 1 .. N : nodes'[m] = Relinked(m, c, k)
      /\ nodes'[N + 1] = Node(c[k], IF k = 1 THEN Null ELSE c[k - 1], d)
  BY GotIn
<1>5. list' = [begin |-> IF k = 1 THEN New ELSE list.begin, end |-> list.end,
               size |-> list.size + 1]
  BY DEF GetsIn
<1>6. list.begin = c[1] /\ list.end = c[N] /\ list.size = N - 1
  BY <1>1, Neighbours DEF Linked
<1>7. e = With(c, k, N)
  OBVIOUS
<1> HIDE DEF N
<1>8. /\ Permutes(e, N + 1)
      /\ \A i \in 1 .. N : i < k => e[i] = c[i]
      /\ e[k] = N + 1
      /\ \A i \in 1 .. N : i >= k => e[i + 1] = c[i]
      /\ \A i \in 1 .. N + 1 :
           \/ i < k /\ i \in 1 .. N
           \/ i = k
           \/ i > k /\ i - 1 \in 1 .. N /\ i - 1 >= k
  <2>1. Permutes(c, N)
    BY <1>2 DEF Permutes
  <2>2. N \in Nat /\ k \in 1 .. N
    BY <1>1
  <2>3. QED
    <3>1. Grown(With(c, k, N), c, k, N)
      BY <2>1, <2>2, WithOrder
    <3>2. Grown(e, c, k, N)
      BY <1>7, <3>1, Zenon
    <3>3. QED
      BY <3>2, Zenon DEF Grown
<1>9. ASSUME NEW i \in 1 .. N
      PROVE  /\ nodes'[c[i]].next = IF k # 1 /\ i = k - 1 THEN N + 1
                                    ELSE IF i = N THEN Null ELSE c[i + 1]
             /\ nodes'[c[i]].prev = IF i = k THEN N + 1
                                    ELSE IF i = 1 THEN Null ELSE c[i - 1]
  <2>1. c[i] \in 1 .. N
    BY <1>2
  <2>2. nodes'[c[i]] = Relinked(c[i], c, k)
    BY <1>4, <2>1
  <2>3. k # 1 => (c[i] = c[k - 1] <=> i = k - 1)
    <3>1. k # 1 => k - 1 \in 1 .. N
      BY <1>1
    <3>2. QED
      BY <1>2, <3>1
  <2>4. c[i] = c[k] <=> i = k
    BY <1>1, <1>2
  <2>5. /\ nodes'[c[i]].next = IF k # 1 /\ c[i] = c[k - 1] THEN N + 1 ELSE nodes[c[i]].next
        /\ nodes'[c[i]].prev = IF c[i] = c[k] THEN N + 1 ELSE nodes[c[i]].prev
    BY <1>1, <2>2 DEF Relinked
  <2>6. QED
    BY <1>3, <2>3, <2>4, <2>5
<1>10. ASSUME NEW i \in 1 .. N + 1
       PROVE  /\ nodes'[e[i]].next = IF i = N + 1 THEN Null ELSE e[i + 1]
              /\ nodes'[e[i]].prev = IF i = 1 THEN Null ELSE e[i - 1]
  <2>1. CASE i < k
    <3>1. i \in 1 .. N /\ i # k /\ i # N /\ i # N + 1 /\ i + 1 \in 1 .. N
          /\ (i + 1 < k \/ i + 1 = k) /\ (i # 1 => i - 1 \in 1 .. N /\ i - 1 < k)
          /\ (i = k - 1 <=> i + 1 = k) /\ (i = k - 1 => k # 1)
      BY <1>1, <2>1
    <3>2. e[i] = c[i]
      BY <1>8, <2>1, <3>1
    <3>3. nodes'[e[i]].next = e[i + 1]
      <4>1. e[i + 1] = IF i + 1 = k THEN N + 1 ELSE c[i + 1]
        BY <1>8, <3>1
      <4>2. nodes'[c[i]].next = IF k # 1 /\ i = k - 1 THEN N + 1
                                ELSE IF i = N THEN Null ELSE c[i + 1]
        BY <1>9, <3>1
      <4>3. QED
        BY <3>1, <3>2, <4>1, <4>2
    <3>4. i # 1 => e[i - 1] = c[i - 1]
      BY <1>8, <3>1
    <3>5. nodes'[e[i]].prev = IF i = 1 THEN Null ELSE e[i - 1]
      BY <1>9, <3>1, <3>2, <3>4
    <3>6. QED
      BY <3>1, <3>3, <3>5
  <2>2. CASE i = k
    <3>1. nodes'[e[i]] = Node(c[k], IF k = 1 THEN Null ELSE c[k - 1], d)
      BY <1>4, <1>8, <2>2
    <3>2. e[k + 1] = c[k] /\ k # N + 1
      BY <1>1, <1>8
    <3>3. k # 1 => e[k - 1] = c[k - 1]
      <4>1. k # 1 => k - 1 \in 1 .. N /\ k - 1 < k
        BY <1>1
      <4>2. QED
        BY <1>8, <4>1
    <3>4. QED
      BY <2>2, <3>1, <3>2, <3>3 DEF Node
  <2>3. CASE i > k
    <3> DEFINE j == i - 1
    <3>1. j \in 1 .. N /\ j >= k /\ ~(j = k - 1) /\ i = j + 1 /\ i # 1
          /\ (j = N <=> i = N + 1)
          /\ (j # N => j + 1 \in 1 .. N /\ j + 1 >= k /\ i + 1 = (j + 1) + 1)
          /\ (j # k => j # 1 /\ j - 1 \in 1 .. N /\ j - 1 >= k /\ (j - 1) + 1 = j)
      BY <1>1, <2>3
    <3> HIDE DEF j
    <3>2. e[i] = c[j]
      BY <1>8, <3>1
    <3>3. j # N => e[i + 1] = c[j + 1]
      BY <1>8, <3>1
    <3>4. nodes'[e[i]].next = IF i = N + 1 THEN Null ELSE e[i + 1]
      BY <1>9, <3>1, <3>2, <3>3
    <3>5. e[j] = IF j = k THEN N + 1 ELSE c[j - 1]
      BY <1>8, <3>1
    <3>6. nodes'[e[i]].prev = e[j]
      BY <1>9, <3>1, <3>2, <3>5
    <3>7. j = i - 1
      BY DEF j
    <3>8. QED
      BY <3>1, <3>4, <3>6, <3>7
  <2>4. QED
    BY <1>1, <2>1, <2>2, <2>3
<1>11. list'.begin = e[1] /\ list'.end = e[N + 1]
  <2>1. e[1] = IF k = 1 THEN N + 1 ELSE c[1]
    <3>1. 1 \in 1 .. N /\ (k # 1 => 1 < k)
      BY <1>1
    <3>2. QED
      BY <1>8, <3>1
  <2>2. e[N + 1] = c[N]
    <3>1. N \in 1 .. N /\ N >= k
      BY <1>1
    <3>2. QED
      BY <1>8, <3>1
  <2>3. QED
    BY <1>1, <1>5, <1>6, <2>1, <2>2
<1>12. N + 1 # 0 /\ N + 1 # 1
  BY <1>1
<1>13. Order(e)'
  BY <1>4, <1>8, <1>10, <1>11, <1>12 DEF Order, Permutes
<1>14. Linked'
  <2>1. list' = [begin |-> list'.begin, end |-> list'.end, size |-> (N + 1) - 1]
    <3>1. list.size + 1 = (N + 1) - 1
      BY <1>1, <1>6
    <3>2. QED
      BY <1>5, <3>1
  <2>2. QED
    BY <1>4, <1>12, <1>13, <2>1 DEF Linked
<1>15. QED
  BY <1>13, <1>14

-----------------------------------------------------------------------------
(* The invariant is inductive *)

\* A list without elements has no nodes.
LEMMA EmptyList ==
    ASSUME Linked
    PROVE  /\ FromEnd = <<>> <=> Count = 0
           /\ Count = 0 => nodes = <<>> /\ list.end = Null /\ list.begin = Null
<1>1. PICK c : Order(c)
  BY DEF Linked
<1>2. Count \in Nat /\ Count # 1
  BY CountNat DEF Linked
<1>3. list.size = Len(FromEnd)
  BY LinkedAgrees DEF LinksAgree
<1>4. Count # 0 => FromEnd # <<>>
  <2>1. ASSUME Count # 0, FromEnd = <<>>
        PROVE  FALSE
    <3>1. list.size = Count - 1
      BY <2>1 DEF Linked
    <3>2. Len(FromEnd) = 0
      BY <2>1
    <3>3. Count - 1 = 0
      BY <1>3, <3>1, <3>2, Zenon
    <3>4. QED
      BY <1>2, <3>3
  <2>2. QED
    BY <2>1
<1>5. Count = 0 => list.end = Null /\ list.begin = Null
  BY <1>1, Neighbours
<1>6. Count = 0 => FromEnd = <<>>
  BY <1>5 DEF FromEnd
<1>7. Count = 0 => nodes = <<>>
  BY EmptySeq DEF Linked, Count
<1>8. QED
  BY <1>4, <1>5, <1>6, <1>7

\* With the first element come two nodes.
LEMMA FirstLinks ==
    ASSUME Linked, Count = 0, NEW d \in Data, PushFirst(d)
    PROVE  /\ Order(<<1, 2>>)' /\ Linked' /\ Count' = 2
           /\ nodes'[1].data = d
<1>1. nodes = <<>> /\ list.end = Null /\ New = 1 /\ EndOfFirst = 2
  <2>1. nodes = <<>> /\ list.end = Null
    BY EmptyList
  <2>2. New = 1
    BY <2>1 DEF New
  <2>3. QED
    BY <2>1, <2>2 DEF EndOfFirst
<1> DEFINE first == Node(2, Null, d)
           end == Node(Null, 1, Cleared)
<1>2. nodes' = <<first, end>>
  <2>1. nodes' = nodes \o <<first, end>>
    BY <1>1 DEF PushFirst
  <2> HIDE DEF first, end
  <2>2. QED
    BY <1>1, <2>1
<1>3. list' = [begin |-> 1, end |-> 2, size |-> 1]
  BY <1>1 DEF PushFirst
<1>4. first \in Pointers /\ end \in Pointers
  BY DEF Pointers, Node, Null
<1>5. /\ first.next = 2 /\ first.prev = Null /\ first.data = d
      /\ end.next = Null /\ end.prev = 1
  BY DEF Node
<1> HIDE DEF first, end
<1>6. nodes' \in Seq(Pointers) /\ Count' = 2 /\ nodes'[1] = first /\ nodes'[2] = end
  BY <1>2, <1>4 DEF Count
<1>7. Order(<<1, 2>>)'
  <2> DEFINE c == <<1, 2>>
  <2>1. c \in [1 .. 2 -> 1 .. 2] /\ c[1] = 1 /\ c[2] = 2
    OBVIOUS
  <2>2. \A k \in 1 .. 2 : k = 1 \/ k = 2
    OBVIOUS
  <2> HIDE DEF c
  <2>3. /\ \A k, l \in 1 .. 2 : c[k] = c[l] => k = l
        /\ \A n \in 1 .. 2 : \E k \in 1 .. 2 : c[k] = n
    BY <2>1, <2>2
  <2>4. \A k \in 1 .. 2 :
           /\ nodes'[c[k]].next = IF k = 2 THEN Null ELSE c[k + 1]
           /\ nodes'[c[k]].prev = IF k = 1 THEN Null ELSE c[k - 1]
    BY <1>5, <1>6, <2>1, <2>2
  <2>5. list'.begin = c[1] /\ list'.end = c[2]
    BY <1>3, <2>1
  <2>6. Order(c)'
    BY <1>6, <2>1, <2>3, <2>4, <2>5 DEF Order
  <2>7. QED
    BY <2>6 DEF c
<1>8. Linked'
  <2>1. list' = [begin |-> list'.begin, end |-> list'.end, size |-> 2 - 1]
    BY <1>3
  <2>2. \E c : Order(c)'
    BY <1>7
  <2>3. QED
    BY <1>6, <2>1, <2>2 DEF Linked
<1>9. QED
  BY <1>5, <1>6, <1>7, <1>8

\* Clearing leaves the pointers alone.
LEMMA ClearLinks ==
    ASSUME Linked, NEW c, Order(c), Clear
    PROVE  /\ Order(c)' /\ Linked' /\ Count' = Count /\ list' = list
           /\ \A n \in 1 .. Count : nodes'[n].data = Cleared
<1>1. Count \in Nat /\ DOMAIN nodes = 1 .. Count /\ list' = list
  BY CountNat DEF Clear
<1>2. nodes' = [n \in 1 .. Count |-> [nodes[n] EXCEPT !.data = Cleared]]
  <2>1. nodes' = [n \in DOMAIN nodes |->
                     IF n \in Range(Chain) THEN [nodes[n] EXCEPT !.data = Cleared]
                                           ELSE nodes[n]]
    BY DEF Clear
  <2>2. QED
    BY <1>1, <2>1, ChainIsAll
<1>3. ASSUME NEW n \in 1 .. Count
      PROVE  /\ nodes'[n] \in Pointers
             /\ nodes'[n].next = nodes[n].next /\ nodes'[n].prev = nodes[n].prev
             /\ nodes'[n].data = Cleared
  <2>1. nodes'[n] = [nodes[n] EXCEPT !.data = Cleared]
    BY <1>2
  <2>2. nodes[n] = [next |-> nodes[n].next, prev |-> nodes[n].prev,
                    data |-> nodes[n].data]
        /\ nodes[n].next \in Nat /\ nodes[n].prev \in Nat
    BY NodeFields
  <2>3. nodes'[n] = [next |-> nodes[n].next, prev |-> nodes[n].prev,
                     data |-> Cleared]
    BY <2>1, <2>2
  <2>4. QED
    BY <2>2, <2>3 DEF Pointers
<1>4. nodes' \in Seq(Pointers) /\ Count' = Count
  <2> DEFINE N == Count
  <2>1. N \in Nat /\ DOMAIN nodes' = 1 .. N
    BY <1>1, <1>2
  <2>2. nodes' = [n \in 1 .. N |-> nodes'[n]]
    BY <1>2
  <2>3. \A n \in 1 .. N : nodes'[n] \in Pointers
    BY <1>3
  <2> HIDE DEF N
  <2>4. nodes' \in [1 .. N -> Pointers]
    BY <2>2, <2>3
  <2>5. nodes' \in Seq(Pointers)
    BY <2>1, <2>4
  <2>6. Len(nodes') \in Nat /\ DOMAIN nodes' = 1 .. Len(nodes')
    BY <2>5, LenProperties
  <2>7. Len(nodes') = N
    BY <2>1, <2>6
  <2>8. QED
    BY <2>5, <2>7 DEF Count, N
<1>5. Order(c)'
  <2>1. \A k \in 1 .. Count :
           /\ nodes'[c[k]].next = IF k = Count THEN Null ELSE c[k + 1]
           /\ nodes'[c[k]].prev = IF k = 1 THEN Null ELSE c[k - 1]
    <3>1. \A k \in 1 .. Count : c[k] \in 1 .. Count
      BY DEF Order
    <3>2. QED
      BY <1>3, <3>1 DEF Order
  <2>2. QED
    BY <1>1, <1>4, <2>1 DEF Order
<1>6. Linked'
  <2>1. \E e : Order(e)'
    BY <1>5
  <2>2. Count # 1 /\ list = [begin |-> list.begin, end |-> list.end,
                             size |-> IF Count = 0 THEN 0 ELSE Count - 1]
    BY DEF Linked
  <2>3. QED
    BY <1>1, <1>4, <2>1, <2>2 DEF Linked
<1>7. QED
  BY <1>1, <1>3, <1>4, <1>5, <1>6

\* Nothing else touches nodes and list.
LEMMA LinkedStays ==
    ASSUME Linked, UNCHANGED <<nodes, list>>
    PROVE  Linked' /\ Count' = Count
<1>1. Count' = Count
  BY DEF Count
<1>2. PICK c : Order(c)
  BY DEF Linked
<1>3. Order(c)'
  BY <1>1, <1>2 DEF Order
<1>4. \E e : Order(e)'
  BY <1>3
<1>5. QED
  BY <1>1, <1>4 DEF Linked

\* Where a push puts the new node.
LEMMA PushBackPlace ==
    ASSUME Linked, NEW c, Order(c), NEW d \in Data, Push(d)
    PROVE  \/ Count = 0 /\ PushFirst(d)
           \/ Count # 0 /\ GetsIn(c, Count, d)
BY EmptyList, AfterGetsIn DEF Push

LEMMA PushFrontPlace ==
    ASSUME Linked, NEW c, Order(c), NEW d \in Data, NEW n \in Elements,
           PushBefore(n, d)
    PROVE  \E k \in 1 .. Count - 1 : c[k] = n /\ GetsIn(c, k, d)
<1>1. Count \in Nat
  BY CountNat
<1> DEFINE p == FromBegin
<1>2. p = Part(c, 1, Count - 1)
  BY ElementsRead
<1> HIDE DEF p
<1>3. Count - 1 - 1 + 1 = Count - 1
      /\ \A k \in 1 .. Count - 1 : 1 + k - 1 = k /\ k \in 1 .. Count
  BY <1>1
<1>4. p = [k \in 1 .. Count - 1 |-> c[1 + k - 1]]
  BY <1>2, <1>3 DEF Part
<1>5. DOMAIN p = 1 .. Count - 1 /\ \A k \in 1 .. Count - 1 : p[k] = c[k]
  BY <1>3, <1>4
<1>6. PICK k \in DOMAIN p : p[k] = n
  BY DEF Elements, Range, p
<1>7. k \in 1 .. Count - 1 /\ k \in 1 .. Count /\ c[k] = n
  BY <1>3, <1>5, <1>6
<1>8. GetsIn(c, k, d)
  BY <1>7, BeforeGetsIn
<1>9. QED
  BY <1>7, <1>8

\* After a push the iterator is still at a node of the list, or nowhere.
LEMMA IteratorStays ==
    ASSUME Linked, IteratorInv, Linked',
           Count' >= Count, list'.end = list.end \/ list.end = Null, UNCHANGED it
    PROVE  IteratorInv'
<1>1. Count \in Nat /\ Count' \in Nat
  BY CountNat DEF Linked, Count
<1>2. \A n \in 0 .. Count : n \in 0 .. Count'
  BY <1>1
<1>3. it \in [begin : 0 .. Count, end : {Null, list.end}, current : 0 .. Count]
  BY DEF IteratorInv
<1>4. it' \in [begin : 0 .. Count', end : {Null, list'.end}, current : 0 .. Count']
  BY <1>2, <1>3
<1>5. QED
  BY <1>4 DEF IteratorInv

\* What gets in keeps the invariant.
LEMMA GetsInKeeps ==
    ASSUME ListInv, NEW c, Order(c), NEW k, NEW d \in Data, GetsIn(c, k, d),
           alive, UNCHANGED <<freed, alive, iteration>>
    PROVE  ListInv'
<1>1. Linked /\ Count \in Nat
  BY CountNat DEF ListInv
<1>2. Linked' /\ Count' = Count + 1
  <2>1. PICK e : e = With(c, k, Count)
    OBVIOUS
  <2>2. QED
    BY <1>1, <2>1, InsertOrder, GotIn
<1>3. list'.end = list.end
  BY DEF GetsIn
<1>4. IteratorInv'
  BY <1>1, <1>2, <1>3, IteratorStays DEF ListInv, iteration
<1>5. QED
  BY <1>2, <1>4 DEF ListInv, iteration

\* So does a move of the iterator to any node.
LEMMA MoveKeeps ==
    ASSUME ListInv, NEW to \in 0 .. Count, NEW answer \in BOOLEAN,
           Move(to, answer), it.begin # Null \/ to = Null
    PROVE  ListInv'
<1>1. it \in [begin : 0 .. Count, end : {Null, list.end}, current : 0 .. Count]
  BY DEF ListInv, IteratorInv
<1>2. it' = [it EXCEPT !.current = to] /\ more' = answer
      /\ UNCHANGED <<nodes, freed, list, alive>>
  BY DEF Move
<1>3. /\ it' \in [begin : 0 .. Count, end : {Null, list.end}, current : 0 .. Count]
      /\ it'.begin = it.begin /\ it'.end = it.end /\ it'.current = to
  BY <1>1, <1>2
<1>4. Linked' /\ Count' = Count
  BY <1>2, LinkedStays DEF ListInv
<1>5. QED
  BY <1>2, <1>3, <1>4 DEF ListInv, IteratorInv

LEMMA ListInit == Init => ListInv
<1> SUFFICES ASSUME Init
             PROVE  ListInv
  OBVIOUS
<1>1. nodes = <<>> /\ Count = 0 /\ DOMAIN nodes = {} /\ nodes \in Seq(Pointers)
  BY DEF Init, Count
<1>2. Order(<<>>)
  <2>1. 1 .. Count = {} /\ <<>> \in [{} -> {}]
    BY <1>1
  <2>2. QED
    BY <1>1, <2>1 DEF Order, Init
<1>3. Linked
  BY <1>1, <1>2 DEF Linked, Init
<1>4. IteratorInv
  BY <1>1 DEF IteratorInv, Init, Null
<1>5. QED
  BY <1>1, <1>3, <1>4 DEF ListInv, Init

LEMMA ListStep == ListInv /\ [Next]_vars => ListInv'
<1> SUFFICES ASSUME ListInv, [Next]_vars
             PROVE  ListInv'
  OBVIOUS
<1>1. Linked /\ Count \in Nat /\ DOMAIN nodes = 1 .. Count /\ TypeOK
  BY CountNat, ListTyped DEF ListInv
<1>2. PICK c : Order(c)
  BY <1>1 DEF Linked
<1>3. ASSUME NEW d \in Data, PushBack(d)
      PROVE  ListInv'
  <2>1. CASE Count = 0 /\ PushFirst(d)
    <3>1. Linked' /\ Count' = 2 /\ list.end = Null
      BY <1>1, <2>1, FirstLinks, EmptyList
    <3>2. IteratorInv'
      BY <1>1, <1>3, <2>1, <3>1, IteratorStays DEF ListInv, PushBack, iteration
    <3>3. QED
      BY <1>3, <3>1, <3>2 DEF ListInv, PushBack, iteration
  <2>2. CASE GetsIn(c, Count, d)
    BY <1>2, <1>3, <2>2, GetsInKeeps DEF PushBack
  <2>3. QED
    BY <1>1, <1>2, <1>3, <2>1, <2>2, PushBackPlace DEF PushBack
<1>4. ASSUME NEW d \in Data, NEW n \in Elements, PushFront(n, d)
      PROVE  ListInv'
  <2>1. PICK k \in 1 .. Count - 1 : GetsIn(c, k, d)
    BY <1>1, <1>2, <1>4, PushFrontPlace DEF PushFront
  <2>2. QED
    BY <1>2, <1>4, <2>1, GetsInKeeps DEF PushFront
<1>5. CASE Clear
  <2>1. Linked' /\ Count' = Count /\ list' = list
    BY <1>1, <1>2, <1>5, ClearLinks
  <2>2. IteratorInv'
    BY <1>1, <1>5, <2>1, IteratorStays DEF ListInv, Clear, iteration
  <2>3. QED
    BY <1>5, <2>1, <2>2 DEF ListInv, Clear, iteration
<1>6. CASE Destroy
  <2>1. Range(Chain) = DOMAIN nodes
    BY <1>1, ChainIsAll
  <2>2. freed' = DOMAIN nodes /\ alive' = FALSE /\ nodes' = nodes /\ list' = list
    BY <1>6, <2>1 DEF Destroy, WholeChain, ListInv
  <2>3. Linked' /\ Count' = Count
    BY <1>1, <2>2, LinkedStays
  <2>4. IteratorInv'
    <3>1. it' = [begin |-> Null, end |-> Null, current |-> Null] /\ Null \in 0 .. Count
      BY <1>1, <1>6 DEF Destroy, Null
    <3>2. QED
      BY <2>3, <3>1 DEF IteratorInv
  <2>5. more' = FALSE
    BY <1>6 DEF Destroy
  <2>6. QED
    BY <2>2, <2>3, <2>4, <2>5 DEF ListInv
<1>7. ASSUME NEW begin \in {list.begin, list.end}, Iterate(begin)
      PROVE  ListInv'
  <2>1. /\ it' = [begin |-> begin, end |-> list.end, current |-> Null]
        /\ more' = FALSE /\ UNCHANGED <<nodes, freed, list, alive>>
    BY <1>7 DEF Iterate
  <2>2. begin \in 0 .. Count /\ Null \in 0 .. Count /\ (begin = Null <=> list.end = Null)
    BY <1>1 DEF TypeOK, Count, Null
  <2>3. Linked' /\ Count' = Count
    BY <1>1, <2>1, LinkedStays
  <2>4. IteratorInv'
    BY <2>1, <2>2, <2>3 DEF IteratorInv
  <2>5. QED
    BY <2>1, <2>3, <2>4 DEF ListInv
<1>8. CASE Iterator \/ ReverseIterator
  BY <1>7, <1>8 DEF Iterator, ReverseIterator
<1>9. /\ it.begin \in 0 .. Count /\ it.current \in 0 .. Count
      /\ it.end \in {Null, list.end} /\ list.end \in 0 .. Count
      /\ it.begin = Null <=> it.end = Null
      /\ it.begin = Null => it.current = Null
      /\ \A n \in 0 .. Count : n # Null => nodes[n].next \in 0 .. Count
                                           /\ nodes[n].prev \in 0 .. Count
  <2>1. \A n \in 0 .. Count : n # Null => n \in DOMAIN nodes
    BY <1>1 DEF Null
  <2>2. QED
    BY <2>1, <1>1 DEF ListInv, IteratorInv, TypeOK, Count
<1>10. CASE IteratorNext
  <2>1. CASE it.begin = Null
    BY <1>9, <1>10, <2>1, MoveKeeps DEF IteratorNext
  <2>2. CASE it.begin # Null
    <3> DEFINE to == IF it.current = Null THEN it.begin ELSE nodes[it.current].next
    <3>1. to \in 0 .. Count
      BY <1>9
    <3>2. Move(to, to # it.end)
      BY <1>10, <2>2 DEF IteratorNext
    <3> HIDE DEF to
    <3>3. QED
      BY <2>2, <3>1, <3>2, MoveKeeps
  <2>3. QED
    BY <2>1, <2>2
<1>11. CASE IteratorPrev
  <2>1. CASE it.end = Null
    BY <1>9, <1>11, <2>1, MoveKeeps DEF IteratorPrev
  <2>2. CASE it.end # Null
    <3> DEFINE to == IF it.current = Null THEN nodes[it.end].prev
                     ELSE nodes[it.current].prev
    <3>1. to \in 0 .. Count
      BY <1>9, <2>2
    <3>2. Move(to, to # Null)
      BY <1>11, <2>2 DEF IteratorPrev
    <3> HIDE DEF to
    <3>3. QED
      BY <1>9, <2>2, <3>1, <3>2, MoveKeeps
  <2>3. QED
    BY <2>1, <2>2
<1>12. CASE IteratorReset
  <2>1. Null \in 0 .. Count /\ more \in BOOLEAN
    BY <1>1 DEF TypeOK, Null
  <2>2. QED
    BY <1>12, <2>1, MoveKeeps DEF IteratorReset
<1>13. CASE UNCHANGED vars
  <2>1. Linked' /\ Count' = Count
    BY <1>1, <1>13, LinkedStays DEF vars
  <2>2. QED
    BY <1>13, <2>1 DEF vars, ListInv, IteratorInv
<1>14. QED
  BY <1>3, <1>4, <1>5, <1>6, <1>8, <1>10, <1>11, <1>12, <1>13 DEF Next

\* The inductive invariant of list and iterator.
LEMMA ListInvariant == Spec => []ListInv
BY ListInit, ListStep, PTL DEF Spec

\* The pointers of a list and its iterator are null or lead to allocated nodes
\* (irs_list.c, irs_iterator.c).
THEOREM ListTypeCorrect == Spec => []TypeOK
BY ListInvariant, ListTyped, PTL

\* A list reads the same forwards and backwards, and size counts its elements, after
\* any number of pushes at either side of any element (irs_list_push,
\* irs_list_push_front).
THEOREM LinksCorrect == Spec => []LinksAgree
<1>1. ListInv => LinksAgree
  BY LinkedAgrees DEF ListInv
<1>2. QED
  BY <1>1, ListInvariant, PTL

\* Destroying a list of any length frees every node, none of them twice
\* (irs_list_destroy).
THEOREM DestroyCorrect == Spec => []DestroyFreesAll
BY ListInvariant, AllFreed, PTL

-----------------------------------------------------------------------------
(* The sequence: places and contents *)

\* What a function on 1 .. n is as a sequence.
LEMMA AsSequence ==
    ASSUME NEW S, NEW n \in Nat, NEW f \in [1 .. n -> S]
    PROVE  f \in Seq(S) /\ Len(f) = n /\ DOMAIN f = 1 .. n
<1>1. f \in Seq(S) /\ DOMAIN f = 1 .. n
  OBVIOUS
<1>2. Len(f) \in Nat /\ DOMAIN f = 1 .. Len(f)
  BY <1>1, LenProperties
<1>3. Len(f) = n
  BY <1>1, <1>2
<1>4. QED
  BY <1>1, <1>3

\* s with d at k, place by place.
Widened(s, k, d) ==
    [j \in 1 .. Len(s) + 1 |->
        IF j < k THEN s[j] ELSE IF j = k THEN d ELSE s[j - 1]]

\* InsertAt of the sequences' module makes that.
LEMMA InsertAtRead ==
    ASSUME NEW S, NEW s \in Seq(S), NEW k \in 1 .. Len(s) + 1, NEW d \in S
    PROVE  Sequence!InsertAt(s, k, d) = Widened(s, k, d)
<1> DEFINE N == Len(s)
           a == SubSeq(s, 1, k - 1)
           b == SubSeq(s, k, N)
<1>1. N \in Nat /\ k \in 1 .. N + 1
  BY LenProperties
<1>2. a \in Seq(S) /\ Len(a) = k - 1 /\ \A j \in 1 .. k - 1 : a[j] = s[j]
  BY <1>1
<1>3. b \in Seq(S) /\ Len(b) = N - k + 1
      /\ \A j \in 1 .. N - k + 1 : b[j] = s[k + j - 1]
  BY <1>1
<1>4. Sequence!InsertAt(s, k, d) = (a \o <<d>>) \o b
  BY DEF Sequence!InsertAt
<1> HIDE DEF a, b, N
<1> DEFINE r == a \o <<d>>
<1>5. r \in Seq(S) /\ Len(r) = k /\ \A j \in 1 .. k : r[j] = IF j < k THEN s[j] ELSE d
  BY <1>1, <1>2
<1> HIDE DEF r
<1> DEFINE t == r \o b
<1>6. t \in Seq(S) /\ Len(t) = N + 1
      /\ \A j \in 1 .. N + 1 : t[j] = IF j <= k THEN r[j] ELSE b[j - k]
  BY <1>1, <1>3, <1>5
<1>7. \A j \in 1 .. N + 1 :
         t[j] = IF j < k THEN s[j] ELSE IF j = k THEN d ELSE s[j - 1]
  <2>1. ASSUME NEW j \in 1 .. N + 1
        PROVE  t[j] = IF j < k THEN s[j] ELSE IF j = k THEN d ELSE s[j - 1]
    <3>1. CASE j <= k
      BY <1>1, <1>5, <1>6, <3>1
    <3>2. CASE j > k
      <4>1. j - k \in 1 .. N - k + 1 /\ k + (j - k) - 1 = j - 1
        BY <1>1, <3>2
      <4>2. QED
        BY <1>1, <1>3, <1>6, <3>2, <4>1
    <3>3. j <= k \/ j > k
      BY <1>1
    <3>4. QED
      BY <3>1, <3>2, <3>3, Zenon
  <2>2. QED
    BY <2>1
<1>8. DOMAIN t = 1 .. N + 1
  BY <1>6, LenProperties
<1> HIDE DEF t
<1>9. t = [j \in 1 .. N + 1 |-> t[j]]
  BY <1>6, <1>8
<1>10. t = [j \in 1 .. N + 1 |->
              IF j < k THEN s[j] ELSE IF j = k THEN d ELSE s[j - 1]]
  BY <1>7, <1>9
<1>11. QED
  BY <1>4, <1>10 DEF Widened, t, r, N

\* The place of a node is its position in the order.
LEMMA Places ==
    ASSUME Linked, NEW c, Order(c)
    PROVE  /\ PlaceOf(Null) = 0
           /\ \A k \in 1 .. Count : PlaceOf(c[k]) = k
<1>1. Count \in Nat /\ Count # 1
  BY CountNat DEF Linked
<1> DEFINE p == FromBegin
<1>2. p = Part(c, 1, Count - 1)
  BY ElementsRead
<1> HIDE DEF p
<1>3. Count - 1 - 1 + 1 = Count - 1
      /\ \A k \in 1 .. Count - 1 : 1 + k - 1 = k /\ k \in 1 .. Count
  BY <1>1
<1>4. p = [k \in 1 .. Count - 1 |-> c[1 + k - 1]]
  BY <1>2, <1>3 DEF Part
<1>5. DOMAIN p = 1 .. Count - 1 /\ \A k \in 1 .. Count - 1 : p[k] = c[k]
  BY <1>3, <1>4
<1>6. \A k, l \in 1 .. Count : c[k] = c[l] => k = l
  BY DEF Order
<1>7. ASSUME NEW k \in 1 .. Count
      PROVE  PlaceOf(c[k]) = k
  <2>1. c[k] # Null /\ list.end = c[Count] /\ Count \in 1 .. Count
    <3>1. c[k] # Null /\ Count # 0
      BY <1>1, Neighbours
    <3>2. QED
      BY <3>1, Neighbours
  <2>2. CASE k = Count
    <3>1. Len(p) = Count - 1
      <4> DEFINE S == 1 .. Count
      <4>1. \A i \in 1 .. Count - 1 : p[i] \in S
        BY <1>3, <1>5, Neighbours
      <4>2. p \in [1 .. Count - 1 -> S]
        BY <1>4, <1>5, <4>1
      <4>3. Count - 1 \in Nat
        BY <1>1, <2>1
      <4> HIDE DEF S
      <4>4. QED
        BY <4>2, <4>3, AsSequence
    <3>2. PlaceOf(c[k]) = Len(p) + 1
      BY <2>1, <2>2 DEF PlaceOf, p
    <3>3. QED
      BY <1>1, <2>2, <3>1, <3>2
  <2>3. CASE k # Count
    <3>1. k \in 1 .. Count - 1 /\ c[k] # list.end
      BY <1>1, <1>6, <2>1, <2>3
    <3>2. k \in DOMAIN p /\ p[k] = c[k] /\ \A l \in DOMAIN p : p[l] = c[k] => l = k
      BY <1>3, <1>5, <1>6, <3>1
    <3>3. c[k] \in Elements
      BY <3>2 DEF Elements, Range, p
    <3>4. PlaceOf(c[k]) = CHOOSE i \in DOMAIN p : p[i] = c[k]
      BY <2>1, <3>1, <3>3 DEF PlaceOf, p
    <3>5. QED
      BY <3>2, <3>4
  <2>4. QED
    BY <2>2, <2>3
<1>8. QED
  BY <1>7 DEF PlaceOf

\* The contents are the data of all nodes but the last.
LEMMA Values ==
    ASSUME Linked, NEW c, Order(c), alive
    PROVE  /\ Contents = [k \in 1 .. Count - 1 |-> nodes[c[k]].data]
           /\ Contents \in Seq(Data \cup {Cleared})
           /\ Len(Contents) = IF Count = 0 THEN 0 ELSE Count - 1
           /\ Contents = <<>> <=> Count = 0
<1>1. Count \in Nat /\ Count # 1
  BY CountNat DEF Linked
<1> DEFINE p == FromBegin
           v == Contents
<1>2. p = Part(c, 1, Count - 1)
  BY ElementsRead
<1>3. v = [k \in DOMAIN p |-> nodes[p[k]].data]
  BY DEF Contents
<1> HIDE DEF p, v
<1>4. Count - 1 - 1 + 1 = Count - 1
      /\ \A k \in 1 .. Count - 1 : 1 + k - 1 = k /\ k \in 1 .. Count
  BY <1>1
<1>5. p = [k \in 1 .. Count - 1 |-> c[1 + k - 1]]
  BY <1>2, <1>4 DEF Part
<1>6. DOMAIN p = 1 .. Count - 1 /\ \A k \in 1 .. Count - 1 : p[k] = c[k]
  BY <1>4, <1>5
<1>7. v = [k \in 1 .. Count - 1 |-> nodes[c[k]].data]
  BY <1>3, <1>6
<1>8. \A k \in 1 .. Count - 1 : nodes[c[k]].data \in Data \cup {Cleared}
  <2>1. \A k \in 1 .. Count - 1 : c[k] \in 1 .. Count
    BY <1>4, Neighbours
  <2>2. QED
    BY <2>1, NodeFields
<1> DEFINE S == Data \cup {Cleared}
<1>9. v \in [1 .. Count - 1 -> S]
  BY <1>7, <1>8
<1> HIDE DEF S
<1>10. CASE Count = 0
  <2>1. 1 .. Count - 1 = {} /\ DOMAIN v = {}
    BY <1>7, <1>10
  <2>2. v = <<>>
    BY <1>7, <2>1
  <2>3. v \in Seq(S) /\ Len(v) = 0
    BY <2>2
  <2>4. QED
    BY <1>7, <1>10, <2>2, <2>3 DEF v, S
<1>11. CASE Count # 0
  <2>1. Count - 1 \in Nat /\ Count - 1 # 0
    BY <1>1, <1>11
  <2>2. v \in Seq(S) /\ Len(v) = Count - 1
    BY <1>9, <2>1, AsSequence
  <2>3. v # <<>>
    BY <2>1, <2>2
  <2>4. QED
    BY <1>7, <1>11, <2>2, <2>3 DEF v, S
<1>12. QED
  BY <1>10, <1>11

SeqVars == <<Contents, IteratorStart, IteratorPlace, more>>

\* Every node but the null pointer has its position.
LEMMA AtPosition ==
    ASSUME Linked, NEW c, Order(c), NEW n \in 0 .. Count
    PROVE  n # Null => \E k \in 1 .. Count : c[k] = n
<1>1. Count \in Nat
  BY CountNat
<1>2. n # Null => n \in 1 .. Count
  BY <1>1 DEF Null
<1>3. QED
  BY <1>2 DEF Order

\* What the list reads as in the order c, as one formula to be used of the next state
\* too.
ReadsAs(c) ==
    /\ PlaceOf(Null) = 0
    /\ \A k \in 1 .. Count : PlaceOf(c[k]) = k
    /\ alive => /\ Contents = [k \in 1 .. Count - 1 |-> nodes[c[k]].data]
                /\ Contents \in Seq(Data \cup {Cleared})
                /\ Len(Contents) = IF Count = 0 THEN 0 ELSE Count - 1
                /\ Contents = <<>> <=> Count = 0
    /\ ~alive => Contents = <<>>

Readable == \A c : Order(c) => ReadsAs(c)

\* A list whose nodes are in order reads so, now and after a step.
LEMMA LinkedReadable == Linked => Readable
<1> SUFFICES ASSUME Linked, NEW c, Order(c)
             PROVE  ReadsAs(c)
  BY DEF Readable
<1>1. ~alive => Contents = <<>>
  BY DEF Contents
<1>2. QED
  BY <1>1, Places, Values DEF ReadsAs

LEMMA ReadableNext ==
    ASSUME Linked'
    PROVE  Readable'
BY LinkedReadable, PTL

\* An element that gets in is inserted, and nobody loses its place.
LEMMA GetsInInserts ==
    ASSUME ListInv, ListInv', NEW c, Order(c), NEW k, NEW d \in Data,
           GetsIn(c, k, d), alive, UNCHANGED <<freed, alive, iteration>>
    PROVE  \E i \in 1 .. Len(Contents) + 1 : Sequence!Insert(i, d)
<1>1. Linked /\ Linked' /\ Count \in Nat /\ Count # 1 /\ k \in 1 .. Count
  BY CountNat DEF ListInv, Linked, GetsIn
<1>2. PICK e : e = With(c, k, Count)
  OBVIOUS
<1>3. Order(e)'
  BY <1>1, <1>2, InsertOrder
<1>4. /\ Count' = Count + 1
      /\ \A m \in 1 .. Count : nodes'[m] = Relinked(m, c, k)
      /\ nodes'[Count + 1] = Node(c[k], IF k = 1 THEN Null ELSE c[k - 1], d)
  BY <1>1, GotIn
<1>4a. ReadsAs(e)'
  BY <1>1, <1>3, ReadableNext DEF Readable
<1> DEFINE N == Count
<1>5. N \in Nat /\ N # 1 /\ N # 0 /\ k \in 1 .. N /\ N + 1 - 1 = N /\ N + 1 # 0
  BY <1>1
<1>6. Permutes(c, N)
  BY <1>1 DEF Order, Permutes
<1>7. Grown(e, c, k, N)
  <2>1. Grown(With(c, k, N), c, k, N)
    BY <1>5, <1>6, WithOrder
  <2>2. QED
    BY <1>2, <2>1, Zenon
<1>8. /\ \A i \in 1 .. N : i < k => e[i] = c[i]
      /\ e[k] = N + 1
      /\ \A i \in 1 .. N : i >= k => e[i + 1] = c[i]
  BY <1>7 DEF Grown
<1>9. /\ PlaceOf(Null) = 0
      /\ \A i \in 1 .. N : PlaceOf(c[i]) = i
  BY <1>1, Places
<1>10. /\ PlaceOf(Null)' = 0
       /\ \A i \in 1 .. N + 1 : PlaceOf(e[i])' = i
  BY <1>4, <1>4a DEF ReadsAs
<1>11. ASSUME NEW n \in 0 .. N
       PROVE  PlaceOf(n)' = Sequence!Moved(PlaceOf(n), k)
  <2>1. CASE n = Null
    BY <1>5, <1>9, <1>10, <2>1 DEF Sequence!Moved
  <2>2. CASE n # Null
    <3>1. PICK i \in 1 .. N : c[i] = n
      BY <1>1, <2>2, AtPosition
    <3>2. CASE i < k
      <4>1. e[i] = n /\ i \in 1 .. N + 1 /\ ~(i >= k)
        BY <1>5, <1>8, <3>1, <3>2
      <4>2. QED
        BY <1>9, <1>10, <3>1, <4>1 DEF Sequence!Moved
    <3>3. CASE i >= k
      <4>1. e[i + 1] = n /\ i + 1 \in 1 .. N + 1
        BY <1>5, <1>8, <3>1, <3>3
      <4>2. QED
        BY <1>9, <1>10, <3>1, <3>3, <4>1 DEF Sequence!Moved
    <3>4. QED
      BY <1>5, <3>2, <3>3
  <2>3. QED
    BY <2>1, <2>2
<1>12. it.begin \in 0 .. N /\ it.current \in 0 .. N /\ it' = it /\ more' = more
       /\ alive' = alive
  BY DEF ListInv, IteratorInv, iteration
<1>13. IteratorStart' = Sequence!Moved(IteratorStart, k)
  <2>1. PICK n : n = it.begin
    OBVIOUS
  <2>2. it'.begin = n /\ n \in 0 .. N
    BY <1>12, <2>1
  <2>3. PlaceOf(n)' = Sequence!Moved(PlaceOf(n), k)
    BY <1>11, <2>2
  <2>4. QED
    BY <2>1, <2>2, <2>3 DEF IteratorStart
<1>14. IteratorPlace' = Sequence!Moved(IteratorPlace, k)
  <2>1. PICK n : n = it.current
    OBVIOUS
  <2>2. it'.current = n /\ n \in 0 .. N
    BY <1>12, <2>1
  <2>3. PlaceOf(n)' = Sequence!Moved(PlaceOf(n), k)
    BY <1>11, <2>2
  <2>4. QED
    BY <2>1, <2>2, <2>3 DEF IteratorPlace
<1> DEFINE S == Data \cup {Cleared}
           v == Contents
           w == Widened(v, k, d)
<1>15. /\ v = [i \in 1 .. N - 1 |-> nodes[c[i]].data]
       /\ v \in Seq(S) /\ Len(v) = N - 1
  BY <1>1, <1>5, Values
<1>16. Contents' = [i \in 1 .. N |-> nodes'[e[i]].data]
  BY <1>4, <1>5, <1>12, <1>4a DEF ReadsAs
<1>17. Len(v) + 1 = N /\ k \in 1 .. Len(v) + 1
  BY <1>5, <1>15
<1>18. Sequence!InsertAt(v, k, d) = w
  <2>1. d \in S
    OBVIOUS
  <2> HIDE DEF S, v
  <2>2. QED
    BY <1>15, <1>17, <2>1, InsertAtRead
<1>19. ASSUME NEW j \in 1 .. N
       PROVE  nodes'[e[j]].data
                 = IF j < k THEN v[j] ELSE IF j = k THEN d ELSE v[j - 1]
  <2>1. \A i \in 1 .. N : c[i] \in 1 .. N
    BY <1>1, Neighbours
  <2>2. \A i \in 1 .. N : nodes'[c[i]].data = nodes[c[i]].data
    <3>1. \A m \in 1 .. N : Relinked(m, c, k).data = nodes[m].data
      BY DEF Relinked
    <3>2. QED
      BY <1>4, <2>1, <3>1
  <2>3. \A i \in 1 .. N - 1 : v[i] = nodes[c[i]].data
    BY <1>15
  <2>4. CASE j < k
    <3>1. j \in 1 .. N - 1
      BY <1>5, <2>4
    <3>2. QED
      BY <1>8, <2>2, <2>3, <2>4, <3>1
  <2>5. CASE j = k
    <3>1. nodes'[e[j]] = Node(c[k], IF k = 1 THEN Null ELSE c[k - 1], d)
      BY <1>4, <1>8, <2>5
    <3>2. QED
      BY <1>5, <2>5, <3>1 DEF Node
  <2>6. CASE j > k
    <3>1. j - 1 \in 1 .. N - 1 /\ j - 1 \in 1 .. N /\ j - 1 >= k /\ (j - 1) + 1 = j
          /\ ~(j < k) /\ j # k
      BY <1>5, <2>6
    <3>2. e[j] = c[j - 1]
      BY <1>8, <3>1
    <3>3. QED
      BY <2>2, <2>3, <3>1, <3>2
  <2>7. j < k \/ j = k \/ j > k
    BY <1>5
  <2>8. QED
    BY <2>4, <2>5, <2>6, <2>7, Zenon
<1>20. Contents' = w
  <2> DEFINE x == [i \in 1 .. N |-> nodes'[e[i]].data]
             y == [j \in 1 .. N |->
                     IF j < k THEN v[j] ELSE IF j = k THEN d ELSE v[j - 1]]
  <2>1. x = y
    <3> HIDE DEF v
    <3>1. QED
      BY <1>19
  <2>2. w = y
    <3> HIDE DEF v
    <3>1. QED
      BY <1>17 DEF Widened
  <2> HIDE DEF w, y
  <2>3. QED
    BY <1>16, <2>1, <2>2
<1>21. Contents' = Sequence!InsertAt(Contents, k, d)
  BY <1>18, <1>20 DEF v
<1>22. Sequence!Insert(k, d)
  BY <1>12, <1>13, <1>14, <1>21 DEF Sequence!Insert
<1>23. QED
  BY <1>17, <1>22 DEF v

-----------------------------------------------------------------------------
(* The sequence: the other steps *)

\* The first element.
LEMMA FirstInserts ==
    ASSUME ListInv, ListInv', Count = 0, NEW d \in Data, PushFirst(d),
           alive, UNCHANGED <<freed, alive, iteration>>
    PROVE  \E i \in 1 .. Len(Contents) + 1 : Sequence!Insert(i, d)
<1>1. Linked /\ Linked'
  BY DEF ListInv
<1>2. PICK e : e = <<1, 2>>
  OBVIOUS
<1>3. Order(e)' /\ Count' = 2 /\ nodes'[1].data = d
  BY <1>1, <1>2, FirstLinks
<1>4. PICK c : Order(c)
  BY <1>1 DEF Linked
<1>5. ReadsAs(c) /\ ReadsAs(e)'
  BY <1>1, <1>3, <1>4, LinkedReadable, ReadableNext DEF Readable
<1>6. Contents = <<>> /\ PlaceOf(Null) = 0 /\ PlaceOf(Null)' = 0
  BY <1>5 DEF ReadsAs
<1>7. it.begin = Null /\ it.current = Null /\ it' = it /\ more' = more
  <2>1. list.end = Null
    BY <1>1, EmptyList
  <2>2. QED
    BY <2>1 DEF ListInv, IteratorInv, iteration
<1>8. IteratorStart = 0 /\ IteratorStart' = 0 /\ IteratorPlace = 0 /\ IteratorPlace' = 0
  BY <1>6, <1>7 DEF IteratorStart, IteratorPlace
<1>9. Contents' = <<d>>
  <2>1. e[1] = 1 /\ 2 - 1 = 1 /\ \A k \in 1 .. 1 : k = 1
    BY <1>2
  <2>2. Contents' = [k \in 1 .. 1 |-> nodes'[e[k]].data]
    BY <1>3, <1>5, <2>1 DEF ReadsAs
  <2>3. [k \in 1 .. 1 |-> nodes'[e[k]].data] = [k \in 1 .. 1 |-> d]
    BY <1>3, <2>1
  <2>4. QED
    BY <2>2, <2>3
<1>10. Sequence!InsertAt(Contents, 1, d) = <<d>>
  <2>1. <<>> \in Seq({d}) /\ 1 \in 1 .. Len(<<>>) + 1 /\ Len(<<>>) + 1 = 1
    OBVIOUS
  <2>2. Sequence!InsertAt(<<>>, 1, d) = Widened(<<>>, 1, d)
    BY <2>1, InsertAtRead
  <2>3. Widened(<<>>, 1, d) = <<d>>
    BY DEF Widened
  <2>4. QED
    BY <1>6, <2>2, <2>3
<1>11. Sequence!Insert(1, d)
  BY <1>7, <1>8, <1>9, <1>10 DEF Sequence!Insert, Sequence!Moved
<1>12. 1 \in 1 .. Len(Contents) + 1
  BY <1>6
<1>13. QED
  BY <1>11, <1>12

\* In the same order everything has the same place.
LEMMA SamePlaces ==
    ASSUME ListInv, Linked', NEW c, Order(c), Order(c)', Count' = Count,
           UNCHANGED it
    PROVE  UNCHANGED <<IteratorStart, IteratorPlace>>
<1>1. Linked
  BY DEF ListInv
<1>2. ReadsAs(c) /\ ReadsAs(c)'
  BY <1>1, LinkedReadable, ReadableNext DEF Readable
<1>3. ASSUME NEW n \in 0 .. Count
      PROVE  PlaceOf(n)' = PlaceOf(n)
  <2>1. CASE n = Null
    BY <1>2, <2>1 DEF ReadsAs
  <2>2. CASE n # Null
    <3>1. PICK k \in 1 .. Count : c[k] = n
      BY <1>1, <2>2, AtPosition
    <3>2. QED
      BY <1>2, <3>1 DEF ReadsAs
  <2>3. QED
    BY <2>1, <2>2
<1>4. it.begin \in 0 .. Count /\ it.current \in 0 .. Count /\ it' = it
  BY DEF ListInv, IteratorInv
<1>5. IteratorStart' = IteratorStart
  <2>1. PICK n : n = it.begin
    OBVIOUS
  <2>2. it'.begin = n /\ PlaceOf(n)' = PlaceOf(n)
    BY <1>3, <1>4, <2>1
  <2>3. QED
    BY <2>1, <2>2 DEF IteratorStart
<1>6. IteratorPlace' = IteratorPlace
  <2>1. PICK n : n = it.current
    OBVIOUS
  <2>2. it'.current = n /\ PlaceOf(n)' = PlaceOf(n)
    BY <1>3, <1>4, <2>1
  <2>3. QED
    BY <2>1, <2>2 DEF IteratorPlace
<1>7. QED
  BY <1>5, <1>6

\* Clearing clears all elements.
LEMMA ClearClears ==
    ASSUME ListInv, ListInv', Clear
    PROVE  Sequence!Clear
<1>1. Linked /\ Linked' /\ alive /\ alive' = alive /\ it' = it /\ more' = more
  BY DEF ListInv, Clear, iteration
<1>2. PICK c : Order(c)
  BY <1>1 DEF Linked
<1>3. Order(c)' /\ Count' = Count /\ \A n \in 1 .. Count : nodes'[n].data = Cleared
  BY <1>1, <1>2, ClearLinks
<1>4. ReadsAs(c) /\ ReadsAs(c)'
  BY <1>1, <1>2, <1>3, LinkedReadable, ReadableNext DEF Readable
<1>5. UNCHANGED <<IteratorStart, IteratorPlace>>
  BY <1>1, <1>2, <1>3, SamePlaces
<1> DEFINE v == Contents
<1>6. v = [k \in 1 .. Count - 1 |-> nodes[c[k]].data]
      /\ Contents' = [k \in 1 .. Count - 1 |-> nodes'[c[k]].data]
  BY <1>1, <1>3, <1>4 DEF ReadsAs
<1>7. \A k \in 1 .. Count - 1 : nodes'[c[k]].data = Cleared
  <2>1. Count \in Nat
    BY <1>1, CountNat
  <2>2. \A k \in 1 .. Count - 1 : k \in 1 .. Count
    BY <2>1
  <2>3. \A k \in 1 .. Count - 1 : c[k] \in 1 .. Count
    BY <1>1, <1>2, <2>2, Neighbours
  <2>4. QED
    BY <1>3, <2>3
<1> HIDE DEF v
<1>8. DOMAIN v = 1 .. Count - 1
  BY <1>6
<1>9. Contents' = [k \in DOMAIN v |-> Cleared]
  BY <1>6, <1>7, <1>8
<1>10. QED
  BY <1>1, <1>5, <1>9 DEF Sequence!Clear, v

\* What an iterator's move to a node is in the sequence.
LEMMA MoveAnswers ==
    ASSUME ListInv, NEW c, Order(c), NEW to \in 0 .. Count, NEW answer,
           Move(to, answer), alive
    PROVE  /\ IteratorPlace' = PlaceOf(to)
           /\ more' = answer
           /\ UNCHANGED <<Contents, IteratorStart>>
<1>1. it' = [it EXCEPT !.current = to] /\ more' = answer
      /\ UNCHANGED <<nodes, freed, list, alive>>
  BY DEF Move
<1>2. it \in [begin : 0 .. Count, end : {Null, list.end}, current : 0 .. Count]
  BY DEF ListInv, IteratorInv
<1>3. it'.begin = it.begin /\ it'.current = to
  BY <1>1, <1>2
<1>4. Linked /\ Linked' /\ Count' = Count
  BY <1>1, LinkedStays DEF ListInv
<1>5. Order(c)'
  BY <1>1, <1>4 DEF Order
<1>6. ReadsAs(c) /\ ReadsAs(c)'
  BY <1>4, <1>5, LinkedReadable, ReadableNext DEF Readable
<1>7. ASSUME NEW n \in 0 .. Count
      PROVE  PlaceOf(n)' = PlaceOf(n)
  <2>1. CASE n = Null
    BY <1>6, <2>1 DEF ReadsAs
  <2>2. CASE n # Null
    <3>1. PICK k \in 1 .. Count : c[k] = n
      BY <1>4, <2>2, AtPosition
    <3>2. QED
      BY <1>4, <1>6, <3>1 DEF ReadsAs
  <2>3. QED
    BY <2>1, <2>2
<1>8. IteratorPlace' = PlaceOf(to)
  <2>1. PICK n : n = to
    OBVIOUS
  <2>2. it'.current = n /\ PlaceOf(n)' = PlaceOf(n)
    BY <1>3, <1>7, <2>1
  <2>3. QED
    BY <2>1, <2>2 DEF IteratorPlace
<1>9. IteratorStart' = IteratorStart
  <2>1. PICK n : n = it.begin
    OBVIOUS
  <2>2. it'.begin = n /\ PlaceOf(n)' = PlaceOf(n)
    BY <1>2, <1>3, <1>7, <2>1
  <2>3. QED
    BY <2>1, <2>2 DEF IteratorStart
<1>10. Contents' = Contents
  BY <1>1, <1>4, <1>6 DEF ReadsAs
<1>11. QED
  BY <1>1, <1>8, <1>9, <1>10

\* What the iterator's begin, end and current are in the order.
LEMMA IteratorRead ==
    ASSUME ListInv, alive, NEW c, Order(c)
    PROVE  /\ Count \in Nat
           /\ Len(Contents) = IF Count = 0 THEN 0 ELSE Count - 1
           /\ DOMAIN Contents = 1 .. Len(Contents)
           /\ it.begin = Null => IteratorStart = 0 /\ IteratorPlace = 0
                                 /\ it.end = Null /\ it.current = Null
           /\ it.begin # Null =>
                /\ it.end = c[Count] /\ it.end # Null /\ 2 <= Count
                /\ IteratorStart \in 1 .. Count /\ c[IteratorStart] = it.begin
                /\ it.current = Null => IteratorPlace = 0
                /\ it.current # Null => IteratorPlace \in 1 .. Count
                                        /\ c[IteratorPlace] = it.current
<1>1. Linked /\ Count \in Nat
  BY CountNat DEF ListInv
<1>2. ReadsAs(c)
  BY <1>1, LinkedReadable DEF Readable
<1>3. /\ it.begin \in 0 .. Count /\ it.current \in 0 .. Count
      /\ it.end \in {Null, list.end}
      /\ it.begin = Null <=> it.end = Null
      /\ it.begin = Null => it.current = Null
  BY DEF ListInv, IteratorInv
<1>4. ASSUME NEW n \in 0 .. Count, n # Null
      PROVE  PlaceOf(n) \in 1 .. Count /\ c[PlaceOf(n)] = n
  <2>1. PICK k \in 1 .. Count : c[k] = n
    BY <1>1, <1>4, AtPosition
  <2>2. PlaceOf(n) = k
    BY <1>2, <2>1 DEF ReadsAs
  <2>3. QED
    BY <2>1, <2>2
<1>5. it.begin # Null => Count # 0
  BY <1>1, <1>3 DEF Null
<1>6. Count # 0 => list.end = c[Count] /\ 2 <= Count
  BY <1>1, Neighbours
<1>7. /\ PlaceOf(Null) = 0
      /\ Len(Contents) = IF Count = 0 THEN 0 ELSE Count - 1
      /\ DOMAIN Contents = 1 .. Len(Contents)
  <2>1. \A s \in Seq(Data \cup {Cleared}) : DOMAIN s = 1 .. Len(s)
    OBVIOUS
  <2>2. Contents \in Seq(Data \cup {Cleared})
    BY <1>2 DEF ReadsAs
  <2>3. DOMAIN Contents = 1 .. Len(Contents)
    BY <2>1, <2>2, Zenon
  <2>4. QED
    BY <1>2, <2>3 DEF ReadsAs
<1>8. it.begin = Null => IteratorStart = 0 /\ IteratorPlace = 0
  BY <1>3, <1>7 DEF IteratorStart, IteratorPlace
<1>9. it.begin # Null => IteratorStart \in 1 .. Count /\ c[IteratorStart] = it.begin
  BY <1>3, <1>4 DEF IteratorStart
<1>10. it.current # Null => IteratorPlace \in 1 .. Count
                            /\ c[IteratorPlace] = it.current
  BY <1>3, <1>4 DEF IteratorPlace
<1>11. it.current = Null => IteratorPlace = 0
  BY <1>7 DEF IteratorPlace
<1>12. QED
  BY <1>1, <1>3, <1>5, <1>6, <1>7, <1>8, <1>9, <1>10, <1>11

\* irs_iterator_next is a step forward or one past the end, irs_iterator_prev one
\* backward.
LEMMA NextAnswers ==
    ASSUME ListInv, NEW c, Order(c), IteratorNext
    PROVE  Sequence!Forward \/ Sequence!PastEnd \/ Sequence!Nothing
<1>1. alive /\ Linked
  BY DEF IteratorNext, ListInv
<1>2. /\ Count \in Nat
      /\ Len(Contents) = IF Count = 0 THEN 0 ELSE Count - 1
      /\ DOMAIN Contents = 1 .. Len(Contents)
      /\ it.begin = Null => IteratorStart = 0 /\ IteratorPlace = 0
                            /\ it.end = Null /\ it.current = Null
      /\ it.begin # Null =>
           /\ it.end = c[Count] /\ it.end # Null /\ 2 <= Count
           /\ IteratorStart \in 1 .. Count /\ c[IteratorStart] = it.begin
           /\ it.current = Null => IteratorPlace = 0
           /\ it.current # Null => IteratorPlace \in 1 .. Count
                                   /\ c[IteratorPlace] = it.current
  BY <1>1, IteratorRead
<1>3. /\ PlaceOf(Null) = 0
      /\ \A k \in 1 .. Count : PlaceOf(c[k]) = k
  BY <1>1, Places
<1>4. Null \in 0 .. Count /\ \A n \in 1 .. Count : n \in 0 .. Count /\ n # Null
  BY <1>2 DEF Null
<1>5. \A k \in 1 .. Count : c[k] \in 1 .. Count
                            /\ nodes[c[k]].next = IF k = Count THEN Null ELSE c[k + 1]
  BY DEF Order
<1>6. CASE it.begin = Null
  <2>1. Move(Null, FALSE)
    BY <1>2, <1>6 DEF IteratorNext
  <2>2. IteratorPlace' = PlaceOf(Null) /\ more' = FALSE
        /\ UNCHANGED <<Contents, IteratorStart>>
    BY <1>1, <1>4, <2>1, MoveAnswers
  <2>3. QED
    BY <1>2, <1>3, <1>6, <2>2 DEF Sequence!Nothing, Sequence!Answer
<1>7. CASE it.begin # Null
  <2> DEFINE to == IF it.current = Null THEN it.begin ELSE nodes[it.current].next
             at == IteratorPlace
             place == IF at = 0 THEN IteratorStart
                      ELSE IF at = Count THEN 0 ELSE at + 1
  <2>1. Move(to, to # it.end)
    BY <1>7 DEF IteratorNext
  <2>2. Len(Contents) + 1 = Count /\ Count \in 1 .. Count
    BY <1>2, <1>7
  <2>3. to \in 0 .. Count /\ PlaceOf(to) = place /\ (to = it.end <=> place = Count)
    <3>1. CASE it.current = Null
      <4>1. to = c[IteratorStart] /\ place = IteratorStart /\ place \in 1 .. Count
        BY <1>2, <1>7, <3>1
      <4> HIDE DEF to, place
      <4>2. to \in 0 .. Count /\ PlaceOf(to) = place
        BY <1>2, <1>3, <1>4, <1>5, <1>7, <4>1
      <4>3. to = it.end <=> place = Count
        BY <1>2, <1>3, <1>7, <2>2, <4>1
      <4>4. QED
        BY <4>2, <4>3
    <3>2. CASE it.current # Null
      <4>1. at \in 1 .. Count /\ c[at] = it.current /\ at # 0
        BY <1>2, <1>7, <3>2
      <4>2. to = IF at = Count THEN Null ELSE c[at + 1]
        BY <1>5, <3>2, <4>1
      <4> HIDE DEF to, at
      <4>3. place = IF at = Count THEN 0 ELSE at + 1
        BY <4>1
      <4> HIDE DEF place
      <4>4. CASE at = Count
        <5>1. to = Null /\ it.end # Null /\ Count # 0 /\ place = 0
          BY <1>2, <1>7, <2>2, <4>2, <4>3, <4>4
        <5>2. QED
          BY <1>3, <1>4, <5>1
      <4>5. CASE at # Count
        <5>1. at + 1 \in 1 .. Count
          BY <1>2, <4>1, <4>5
        <5>2. place = at + 1 /\ to = c[place] /\ place \in 1 .. Count
          BY <4>2, <4>3, <4>5, <5>1
        <5>3. to \in 0 .. Count /\ PlaceOf(to) = place
          BY <1>3, <1>4, <1>5, <5>2
        <5>4. to = it.end <=> place = Count
          BY <1>2, <1>3, <1>7, <2>2, <5>2
        <5>5. QED
          BY <5>3, <5>4
      <4>6. QED
        BY <4>4, <4>5
    <3>3. QED
      BY <3>1, <3>2
  <2>4. IteratorStart # 0
    BY <1>2, <1>7
  <2> HIDE DEF to
  <2>5. IteratorPlace' = PlaceOf(to) /\ more' = (to # it.end)
        /\ UNCHANGED <<Contents, IteratorStart>>
    BY <1>1, <2>1, <2>3, MoveAnswers
  <2>6. IteratorPlace' = place /\ more' = (place # Count)
    <3> HIDE DEF place
    <3>1. QED
      BY <2>3, <2>5
  <2>7. CASE at = Count
    <3>1. place = 0 /\ at = Len(Contents) + 1
      BY <1>2, <1>7, <2>2, <2>7
    <3>2. Sequence!PastEnd
      BY <2>4, <2>5, <2>6, <3>1 DEF Sequence!PastEnd
    <3>3. QED
      BY <3>2
  <2>8. CASE at # Count
    <3>1. place = IF at = 0 THEN IteratorStart ELSE at + 1
      BY <2>8
    <3>2. place \in 1 .. Count
      BY <1>2, <1>7, <2>8, <3>1
    <3>3. more' = (place \in DOMAIN Contents)
      <4> HIDE DEF place
      <4>1. place \in DOMAIN Contents <=> place # Count
        BY <1>2, <2>2, <3>2
      <4>2. QED
        BY <2>6, <4>1
    <3>4. at # Len(Contents) + 1
      BY <2>2, <2>8
    <3>5. Sequence!Forward
      BY <2>4, <2>5, <2>6, <3>1, <3>3, <3>4
      DEF Sequence!Forward, Sequence!Answer
    <3>6. QED
      BY <3>5
  <2>9. QED
    BY <2>7, <2>8
<1>8. QED
  BY <1>6, <1>7

LEMMA PrevAnswers ==
    ASSUME ListInv, NEW c, Order(c), IteratorPrev
    PROVE  Sequence!Backward \/ Sequence!Nothing
<1>1. alive /\ Linked
  BY DEF IteratorPrev, ListInv
<1>2. /\ Count \in Nat
      /\ Len(Contents) = IF Count = 0 THEN 0 ELSE Count - 1
      /\ DOMAIN Contents = 1 .. Len(Contents)
      /\ it.begin = Null => IteratorStart = 0 /\ IteratorPlace = 0
                            /\ it.end = Null /\ it.current = Null
      /\ it.begin # Null =>
           /\ it.end = c[Count] /\ it.end # Null /\ 2 <= Count
           /\ IteratorStart \in 1 .. Count /\ c[IteratorStart] = it.begin
           /\ it.current = Null => IteratorPlace = 0
           /\ it.current # Null => IteratorPlace \in 1 .. Count
                                   /\ c[IteratorPlace] = it.current
  BY <1>1, IteratorRead
<1>3. /\ PlaceOf(Null) = 0
      /\ \A k \in 1 .. Count : PlaceOf(c[k]) = k
  BY <1>1, Places
<1>4. Null \in 0 .. Count /\ \A n \in 1 .. Count : n \in 0 .. Count /\ n # Null
  BY <1>2 DEF Null
<1>5. \A k \in 1 .. Count : c[k] \in 1 .. Count
                            /\ nodes[c[k]].prev = IF k = 1 THEN Null ELSE c[k - 1]
  BY DEF Order
<1>6. CASE it.begin = Null
  <2>1. Move(Null, FALSE)
    BY <1>2, <1>6 DEF IteratorPrev
  <2>2. IteratorPlace' = PlaceOf(Null) /\ more' = FALSE
        /\ UNCHANGED <<Contents, IteratorStart>>
    BY <1>1, <1>4, <2>1, MoveAnswers
  <2>3. QED
    BY <1>2, <1>3, <1>6, <2>2 DEF Sequence!Nothing, Sequence!Answer
<1>7. CASE it.begin # Null
  <2> DEFINE to == IF it.current = Null THEN nodes[it.end].prev
                   ELSE nodes[it.current].prev
             at == IteratorPlace
             place == IF at = 0 THEN Len(Contents) ELSE at - 1
  <2>1. Move(to, to # Null)
    BY <1>2, <1>7 DEF IteratorPrev
  <2>2. Len(Contents) = Count - 1 /\ Count \in 1 .. Count /\ Count # 1
        /\ Count - 1 \in 1 .. Count
    BY <1>2, <1>7
  <2>3. to \in 0 .. Count /\ PlaceOf(to) = place /\ (to = Null <=> place = 0)
    <3> DEFINE from == IF at = 0 THEN Count ELSE at
    <3>1. /\ from \in 1 .. Count
          /\ to = nodes[c[from]].prev
          /\ place = from - 1
      <4>1. CASE it.current = Null
        BY <1>2, <1>7, <2>2, <4>1
      <4>2. CASE it.current # Null
        <5>1. at \in 1 .. Count /\ c[at] = it.current /\ at # 0
          BY <1>2, <1>7, <4>2
        <5>2. QED
          BY <4>2, <5>1
      <4>3. QED
        BY <4>1, <4>2
    <3> HIDE DEF to, place, from
    <3>2. to = IF from = 1 THEN Null ELSE c[from - 1]
      BY <1>5, <3>1
    <3>3. CASE from = 1
      BY <1>3, <1>4, <3>1, <3>2, <3>3
    <3>4. CASE from # 1
      <4>1. place \in 1 .. Count /\ place # 0 /\ to = c[place]
        BY <1>2, <3>1, <3>2, <3>4
      <4>2. QED
        BY <1>3, <1>4, <1>5, <4>1
    <3>5. QED
      BY <3>3, <3>4
  <2>4. IteratorStart # 0
    BY <1>2, <1>7
  <2> HIDE DEF to
  <2>5. IteratorPlace' = PlaceOf(to) /\ more' = (to # Null)
        /\ UNCHANGED <<Contents, IteratorStart>>
    BY <1>1, <2>1, <2>3, MoveAnswers
  <2>6. IteratorPlace' = place /\ more' = (place # 0)
    <3> HIDE DEF place
    <3>1. QED
      BY <2>3, <2>5
  <2>7. more' = (place \in DOMAIN Contents)
    <3>1. place \in 0 .. Len(Contents)
      BY <1>2, <1>7, <2>2
    <3> HIDE DEF place
    <3>2. place \in DOMAIN Contents <=> place # 0
      BY <1>2, <2>2, <3>1
    <3>3. QED
      BY <2>6, <3>2
  <2>8. Sequence!Backward
    BY <2>4, <2>5, <2>6, <2>7 DEF Sequence!Backward, Sequence!Answer
  <2>9. QED
    BY <2>8
<1>8. QED
  BY <1>6, <1>7

\* An iterator starts at the first element, a reverse one behind the last.
LEMMA IterateStarts ==
    ASSUME ListInv, ListInv', NEW c, Order(c), Iterator \/ ReverseIterator
    PROVE  Sequence!Iterate(1) \/ Sequence!Iterate(Len(Contents) + 1)
<1>1. PICK n : n = IF Iterator THEN list.begin ELSE list.end
  OBVIOUS
<1>2. Iterate(n)
  BY <1>1 DEF Iterator, ReverseIterator
<1>3. /\ it' = [begin |-> n, end |-> list.end, current |-> Null]
      /\ more' = FALSE /\ UNCHANGED <<nodes, freed, list, alive>> /\ alive
  BY <1>2 DEF Iterate
<1>4. Linked /\ Linked' /\ Count' = Count /\ Count \in Nat
  BY <1>3, LinkedStays, CountNat DEF ListInv
<1>5. Order(c)'
  BY <1>3, <1>4 DEF Order
<1>6. ReadsAs(c) /\ ReadsAs(c)'
  BY <1>4, <1>5, LinkedReadable, ReadableNext DEF Readable
<1>7. Contents' = Contents
  BY <1>3, <1>4, <1>6 DEF ReadsAs
<1>8. it'.begin = n /\ it'.current = Null
  BY <1>3
<1>9. IteratorPlace' = 0
  BY <1>6, <1>8 DEF ReadsAs, IteratorPlace
<1>10. IteratorStart' = PlaceOf(n)'
  BY <1>8 DEF IteratorStart
<1>11. CASE Count = 0
  <2>1. n = Null
    BY <1>1, <1>4, <1>11, EmptyList
  <2>2. IteratorStart' = 0 /\ Contents = <<>>
    BY <1>3, <1>6, <1>10, <1>11, <2>1 DEF ReadsAs
  <2>3. QED
    BY <1>3, <1>7, <1>9, <2>2 DEF Sequence!Iterate
<1>12. CASE Count # 0
  <2>1. /\ list.begin = c[1] /\ list.end = c[Count] /\ Count \in 1 .. Count
    BY <1>4, <1>12, Neighbours
  <2>2. 1 \in 1 .. Count /\ Contents # <<>> /\ Len(Contents) + 1 = Count
    BY <1>3, <1>4, <1>6, <1>12 DEF ReadsAs
  <2>3. PlaceOf(n)' = 1 \/ PlaceOf(n)' = Len(Contents) + 1
    <3>1. n = c[1] \/ n = c[Count]
      BY <1>1, <2>1
    <3>2. \A k \in 1 .. Count : PlaceOf(c[k])' = k
      BY <1>4, <1>6 DEF ReadsAs
    <3>3. QED
      BY <2>1, <2>2, <3>1, <3>2
  <2>4. QED
    BY <1>3, <1>7, <1>9, <1>10, <2>2, <2>3 DEF Sequence!Iterate
<1>13. QED
  BY <1>11, <1>12

\* Every step of the list is one of the sequence, or is not seen.
LEMMA ListRefines ==
    ASSUME ListInv, ListInv', [Next]_vars
    PROVE  [Sequence!Next]_<<Contents, IteratorStart, IteratorPlace, more>>
<1>1. Linked /\ Linked'
  BY DEF ListInv
<1>2. PICK c : Order(c)
  BY <1>1 DEF Linked
<1>3. ASSUME NEW d \in Data, PushBack(d)
      PROVE  Sequence!Next
  <2>1. \E i \in 1 .. Len(Contents) + 1 : Sequence!Insert(i, d)
    <3>1. alive /\ Push(d) /\ UNCHANGED <<freed, alive, iteration>>
      BY <1>3 DEF PushBack
    <3>2. CASE Count = 0 /\ PushFirst(d)
      BY <3>1, <3>2, FirstInserts
    <3>3. CASE GetsIn(c, Count, d)
      BY <1>2, <3>1, <3>3, GetsInInserts
    <3>4. QED
      BY <1>1, <1>2, <3>1, <3>2, <3>3, PushBackPlace
  <2>2. QED
    BY <2>1 DEF Sequence!Next
<1>4. ASSUME NEW d \in Data, NEW n \in Elements, PushFront(n, d)
      PROVE  Sequence!Next
  <2>1. alive /\ PushBefore(n, d) /\ UNCHANGED <<freed, alive, iteration>>
    BY <1>4 DEF PushFront
  <2>2. PICK k \in 1 .. Count - 1 : GetsIn(c, k, d)
    BY <1>1, <1>2, <2>1, PushFrontPlace
  <2>3. \E i \in 1 .. Len(Contents) + 1 : Sequence!Insert(i, d)
    BY <1>2, <2>1, <2>2, GetsInInserts
  <2>4. QED
    BY <2>3 DEF Sequence!Next
<1>5. CASE Clear
  BY <1>5, ClearClears DEF Sequence!Next
<1>6. CASE Destroy
  <2>1. alive' = FALSE /\ more' = FALSE
        /\ it' = [begin |-> Null, end |-> Null, current |-> Null]
    BY <1>6 DEF Destroy
  <2>2. Contents' = <<>>
    BY <2>1 DEF Contents
  <2>3. it'.begin = Null /\ it'.current = Null
    BY <2>1
  <2>4. PlaceOf(Null)' = 0
    BY DEF PlaceOf
  <2>5. IteratorStart' = 0 /\ IteratorPlace' = 0
    BY <2>3, <2>4 DEF IteratorStart, IteratorPlace
  <2>6. Sequence!Destroy
    BY <2>1, <2>2, <2>5 DEF Sequence!Destroy
  <2>7. QED
    BY <2>6 DEF Sequence!Next
<1>7. CASE Iterator \/ ReverseIterator
  BY <1>2, <1>7, IterateStarts DEF Sequence!Next
<1>8. CASE IteratorNext
  BY <1>2, <1>8, NextAnswers DEF Sequence!Next
<1>9. CASE IteratorPrev
  BY <1>2, <1>9, PrevAnswers DEF Sequence!Next
<1>10. CASE IteratorReset
  <2>1. alive /\ Move(Null, FALSE)
    BY <1>10 DEF IteratorReset
  <2>2. Null \in 0 .. Count /\ PlaceOf(Null) = 0
    <3>1. Count \in Nat
      BY <1>1, CountNat
    <3>2. QED
      BY <3>1 DEF Null, PlaceOf
  <2>3. IteratorPlace' = 0 /\ more' = FALSE /\ UNCHANGED <<Contents, IteratorStart>>
    BY <1>2, <2>1, <2>2, MoveAnswers
  <2>4. QED
    BY <2>3 DEF Sequence!Next, Sequence!Reset
<1>11. CASE UNCHANGED vars
  <2>1. UNCHANGED <<nodes, list, alive, it, more>>
    BY <1>11 DEF vars
  <2>2. Order(c)' /\ Count' = Count
    BY <1>2, <2>1 DEF Order, Count
  <2>3. ReadsAs(c) /\ ReadsAs(c)'
    BY <1>1, <1>2, <2>2, LinkedReadable, ReadableNext DEF Readable
  <2>4. UNCHANGED <<IteratorStart, IteratorPlace>>
    BY <1>1, <1>2, <2>1, <2>2, SamePlaces
  <2>5. Contents' = Contents
    BY <2>1, <2>2, <2>3 DEF ReadsAs, ListInv
  <2>6. QED
    BY <2>1, <2>4, <2>5
<1>12. QED
  BY <1>3, <1>4, <1>5, <1>6, <1>7, <1>8, <1>9, <1>10, <1>11 DEF Next

LEMMA ListRefinesInit ==
    ASSUME Init
    PROVE  Sequence!Init
<1>1. ListInv
  BY ListInit
<1>2. nodes = <<>> /\ alive /\ more = FALSE /\ it.begin = Null /\ it.current = Null
  BY DEF Init
<1>3. PICK c : Order(c)
  BY <1>1 DEF ListInv, Linked
<1>4. ReadsAs(c) /\ Count = 0
  BY <1>1, <1>2, <1>3, LinkedReadable DEF ListInv, Readable, Count
<1>5. Contents = <<>> /\ PlaceOf(Null) = 0
  BY <1>2, <1>4 DEF ReadsAs
<1>6. QED
  BY <1>2, <1>5 DEF Sequence!Init, IteratorStart, IteratorPlace

\* Seen through its pointers, a list with an iterator takes only the steps a
\* sequence with a place takes: whatever gets in before or behind it, the iterator
\* stays with its element, and it visits the elements in order, both ways
\* (irs_list.c, irs_iterator.c).
THEOREM ListIsSequence == Spec => IsSequence
<1>1. Init => Sequence!Init
  BY ListRefinesInit
<1>2. ListInv /\ ListInv' /\ [Next]_vars
         => [Sequence!Next]_<<Contents, IteratorStart, IteratorPlace, more>>
  BY ListRefines
<1>3. QED
  BY <1>1, <1>2, ListInvariant, PTL DEF Spec, IsSequence, Sequence!Spec
=============================================================================
