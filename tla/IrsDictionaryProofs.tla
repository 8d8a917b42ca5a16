------------------------ MODULE IrsDictionaryProofs ------------------------
(***************************************************************************)
(* The trie stays a trie, whatever is appended: what walks meet and what   *)
(* lookups find, for any keys.                                             *)
(***************************************************************************)
EXTENDS IrsDictionary, IrsInduction, SequenceTheorems, FiniteSetTheorems, TLAPS

Codes == Chars \ {127}

-----------------------------------------------------------------------------
(* Characters and strings *)

\* No two characters have the same slot, and none the one behind the table.
LEMMA SlotsDiffer ==
    /\ \A c \in Codes : Slot(c) \in 0 .. Size - 1
    /\ \A c, d \in Codes : Slot(c) = Slot(d) => c = d
<1>1. ASSUME NEW c \in Codes
      PROVE  /\ c \in Nat /\ 1 <= c /\ c <= 255 /\ c # 127
             /\ c < 128 => Slot(c) = 128 + c
             /\ c >= 128 => Slot(c) = c - 128
  BY Z3 DEF Slot, Codes, Chars
<1>2. ASSUME NEW c \in Codes
      PROVE  Slot(c) \in 0 .. Size - 1
  BY <1>1 DEF Size
<1>3. ASSUME NEW c \in Codes, NEW d \in Codes, Slot(c) = Slot(d)
      PROVE  c = d
  BY <1>1, <1>3
<1>4. QED
  BY <1>2, <1>3

LEMMA KeysAreCodes == Keys \cup Probes \subseteq Seq(Codes) \ {<<>>}
<1>1. ASSUME NEW s \in Keys \cup Probes
      PROVE  s \in Seq(Codes) \ {<<>>}
  <2>1. s \in Seq(Chars) /\ s # <<>> /\ 127 \notin Range(s)
    BY KeysAssumption, CharsAssumption
  <2>2. \A i \in 1 .. Len(s) : s[i] \in Codes
    BY <2>1 DEF Range, Codes
  <2>3. QED
    BY <2>1, <2>2
<1>2. QED
  BY <1>1

\* s begins with p, as it is or whatever the case.
Begins(p, s) == Len(p) <= Len(s) /\ \A i \in 1 .. Len(p) : p[i] = s[i]

Alike(p, s) == \A i \in 1 .. Len(p) : ToLower(p[i]) = ToLower(s[i])

LEMMA FoldedAlike ==
    ASSUME NEW p \in Seq(Chars), NEW s \in Seq(Chars)
    PROVE  Folded(p) = Folded(s) <=> Len(p) = Len(s) /\ Alike(p, s)
<1>1. /\ Folded(p) = [i \in 1 .. Len(p) |-> ToLower(p[i])]
      /\ Folded(s) = [i \in 1 .. Len(s) |-> ToLower(s[i])]
      /\ Len(p) \in Nat /\ Len(s) \in Nat
  BY DEF Folded
<1>2. ASSUME Folded(p) = Folded(s)
      PROVE  Len(p) = Len(s) /\ Alike(p, s)
  <2>1. 1 .. Len(p) = 1 .. Len(s)
    BY <1>1, <1>2
  <2>2. Len(p) = Len(s)
    BY <1>1, <2>1
  <2>3. ASSUME NEW i \in 1 .. Len(p)
        PROVE  ToLower(p[i]) = ToLower(s[i])
    <3>1. Folded(p)[i] = ToLower(p[i]) /\ Folded(s)[i] = ToLower(s[i])
      BY <1>1, <2>2
    <3>2. QED
      BY <1>2, <3>1
  <2>4. QED
    BY <2>2, <2>3 DEF Alike
<1>3. ASSUME Len(p) = Len(s), Alike(p, s)
      PROVE  Folded(p) = Folded(s)
  BY <1>1, <1>3 DEF Alike
<1>4. QED
  BY <1>2, <1>3

\* What is left of a key, and what of it is compared.
LEMMA FromIs ==
    ASSUME NEW s \in Seq(Codes), NEW i \in 1 .. Len(s) + 1
    PROVE  /\ From(s, i) \in Seq(Codes)
           /\ Len(From(s, i)) = Len(s) + 1 - i
           /\ \A k \in 1 .. Len(s) + 1 - i : From(s, i)[k] = s[i + k - 1]
BY DEF From

LEMMA StartIs ==
    ASSUME NEW s \in Seq(Codes), NEW i \in 0 .. Len(s)
    PROVE  /\ SubSeq(s, 1, i) \in Seq(Codes)
           /\ Len(SubSeq(s, 1, i)) = i
           /\ \A k \in 1 .. i : SubSeq(s, 1, i)[k] = s[k]
OBVIOUS

\* Two strings are one if they are as long and agree.
LEMMA SameString ==
    ASSUME NEW S, NEW p \in Seq(S), NEW s \in Seq(S), Len(p) = Len(s),
           \A i \in 1 .. Len(p) : p[i] = s[i]
    PROVE  p = s
OBVIOUS

\* How much of an offset is matched: all of it, or all of the key, or up to a
\* difference that is more than one of case.
LEMMA MatchedIs ==
    ASSUME NEW offset \in Seq(Codes), NEW s \in Seq(Codes)
    PROVE  LET j == Matched(offset, s) IN
           /\ j \in 0 .. Len(offset) /\ j <= Len(s)
           /\ \A k \in 1 .. j : ToLower(offset[k]) = ToLower(s[k])
           /\ j < Len(offset) /\ j < Len(s) =>
                ToLower(offset[j + 1]) # ToLower(s[j + 1])
<1> DEFINE Agree(j) == \A k \in 1 .. j : ToLower(offset[k]) = ToLower(s[k])
           Stop(j) == j < Len(offset) /\ j < Len(s) =>
                        ToLower(offset[j + 1]) # ToLower(s[j + 1])
           Is(j) == /\ j <= Len(s)
                    /\ Folded(SubSeq(offset, 1, j)) = Folded(SubSeq(s, 1, j))
                    /\ Stop(j)
           shorter == IF Len(offset) <= Len(s) THEN Len(offset) ELSE Len(s)
<1>1. shorter \in Nat /\ shorter <= Len(s) /\ shorter <= Len(offset)
  OBVIOUS
<1>2. ASSUME NEW j \in 0 .. shorter
      PROVE  Folded(SubSeq(offset, 1, j)) = Folded(SubSeq(s, 1, j)) <=> Agree(j)
  <2>1. /\ SubSeq(offset, 1, j) \in Seq(Codes) /\ Len(SubSeq(offset, 1, j)) = j
        /\ \A k \in 1 .. j : SubSeq(offset, 1, j)[k] = offset[k]
        /\ SubSeq(s, 1, j) \in Seq(Codes) /\ Len(SubSeq(s, 1, j)) = j
        /\ \A k \in 1 .. j : SubSeq(s, 1, j)[k] = s[k]
    BY StartIs, <1>1
  <2>2. SubSeq(offset, 1, j) \in Seq(Chars) /\ SubSeq(s, 1, j) \in Seq(Chars)
    BY <2>1 DEF Codes
  <2>3. Alike(SubSeq(offset, 1, j), SubSeq(s, 1, j)) <=> Agree(j)
    BY <2>1 DEF Alike
  <2>4. QED
    BY <2>1, <2>2, <2>3, FoldedAlike
<1>3. \E j \in 0 .. shorter : Agree(j) /\ Stop(j)
  <2> DEFINE Bad == {j \in 0 .. shorter - 1 :
                       ToLower(offset[j + 1]) # ToLower(s[j + 1])}
  <2>1. CASE Bad = {}
    <3>1. ASSUME NEW k \in 1 .. shorter
          PROVE  ToLower(offset[k]) = ToLower(s[k])
      <4>1. k - 1 \in 0 .. shorter - 1 /\ (k - 1) + 1 = k
        BY <1>1
      <4>2. QED
        BY <2>1, <4>1
    <3>2. Agree(shorter) /\ Stop(shorter)
      BY <3>1
    <3>3. QED
      BY <3>2, <1>1
  <2>2. CASE Bad # {}
    <3>1. Bad \in SUBSET Nat
      BY <1>1
    <3>2. PICK j \in Bad : \A i \in Bad : j <= i
      BY <2>2, <3>1, Least
    <3>3. ASSUME NEW k \in 1 .. j
          PROVE  ToLower(offset[k]) = ToLower(s[k])
      <4>1. k - 1 \in 0 .. shorter - 1 /\ (k - 1) + 1 = k /\ ~ (j <= k - 1)
        BY <1>1, <3>2
      <4>2. k - 1 \notin Bad
        BY <3>2, <4>1
      <4>3. QED
        BY <4>1, <4>2
    <3>4. Agree(j) /\ Stop(j) /\ j \in 0 .. shorter
      BY <3>2, <3>3
    <3>5. QED
      BY <3>4
  <2>3. QED
    BY <2>1, <2>2
<1>4. \E j \in 0 .. Len(offset) : Is(j)
  <2>1. PICK j \in 0 .. shorter : Agree(j) /\ Stop(j)
    BY <1>3
  <2>2. j \in 0 .. Len(offset) /\ j <= Len(s)
    BY <1>1
  <2>3. QED
    BY <1>2, <2>1, <2>2
<1>5. Matched(offset, s) = CHOOSE j \in 0 .. Len(offset) : Is(j)
  BY DEF Matched
<1>6. Matched(offset, s) \in 0 .. Len(offset) /\ Is(Matched(offset, s))
  BY <1>4, <1>5
<1>7. Matched(offset, s) \in 0 .. shorter
  BY <1>6
<1>8. QED
  BY <1>2, <1>6, <1>7

-----------------------------------------------------------------------------
(* The strings that lead to the nodes *)

\* The character with which a string goes on after another.
After(p, s) == s[Len(p) + 1]

\* The nodes above which every node is, and the strings that lead to the nodes: they
\* grow on the way down, and begin to differ where the way parts.
Branches(N, path, up) ==
    /\ N \in Nat \ {0}
    /\ path \in [1 .. N -> Seq(Codes)] /\ path[1] = <<>>
    /\ up \in [2 .. N -> 1 .. N]
    /\ \A n \in 2 .. N : /\ Len(path[up[n]]) < Len(path[n])
                         /\ Begins(path[up[n]], path[n])
    /\ \A n, m \in 2 .. N :
         /\ up[n] = up[m]
         /\ After(path[up[n]], path[n]) = After(path[up[n]], path[m])
         => n = m

LEMMA BeginsTwice ==
    ASSUME NEW p \in Seq(Codes), NEW q \in Seq(Codes), NEW s \in Seq(Codes)
    PROVE  /\ Begins(p, q) /\ Begins(q, s) => Begins(p, s)
           /\ Begins(p, s) /\ Begins(q, s) /\ Len(p) <= Len(q) => Begins(p, q)
           /\ Begins(p, s) => Len(p) <= Len(s)
<1>1. Len(p) \in Nat /\ Len(q) \in Nat /\ Len(s) \in Nat
  OBVIOUS
<1>2. QED
  BY <1>1 DEF Begins

LEMMA BeginsOn ==
    \A p, q, s \in Seq(Codes) : Begins(p, q) /\ Begins(q, s) => Begins(p, s)
BY BeginsTwice

LEMMA BranchesAre ==
    ASSUME NEW N, NEW path, NEW up, Branches(N, path, up)
    PROVE  /\ N \in Nat /\ 1 \in 1 .. N
           /\ \A x \in 1 .. N : path[x] \in Seq(Codes)
           /\ \A x \in 1 .. N : Len(path[x]) \in Nat
           /\ \A x \in 2 .. N : up[x] \in 1 .. N
           /\ \A x \in 2 .. N : Len(path[up[x]]) < Len(path[x])
           /\ \A x \in 2 .. N : Begins(path[up[x]], path[x])
           /\ Len(path[1]) = 0
<1>1. N \in Nat /\ 1 \in 1 .. N /\ path[1] = <<>>
  BY DEF Branches
<1>2. \A x \in 1 .. N : path[x] \in Seq(Codes)
  BY DEF Branches
<1>3. \A x \in 1 .. N : Len(path[x]) \in Nat
  BY <1>2
<1>4. Len(path[1]) = 0
  BY <1>1
<1>5. QED
  BY <1>1, <1>2, <1>3, <1>4 DEF Branches

\* What is smaller for strings one of which is shorter.
Both(p, q) == Len(p) + Len(q)

LEMMA BothLess ==
    ASSUME NEW p \in Seq(Codes), NEW q \in Seq(Codes)
    PROVE  /\ Both(p, q) \in Nat
           /\ \A s \in Seq(Codes) :
                /\ Len(s) < Len(p) => Both(s, q) < Both(p, q)
                /\ Len(s) < Len(q) => Both(p, s) < Both(p, q)
           /\ Both(p, q) = Both(q, p)
BY DEF Both

\* Only the nodes above a node have strings that its own begins with.
LEMMA BeginsAbove ==
    ASSUME NEW N, NEW path, NEW up, Branches(N, path, up),
           NEW n \in 1 .. N, NEW m \in 1 .. N, n # m, Begins(path[n], path[m])
    PROVE  m # 1 /\ Begins(path[n], path[up[m]])
<1> DEFINE Above(x, y) == y # 1 /\ Begins(path[x], path[up[y]])
           Bad(x, y) == x # y /\ Begins(path[x], path[y]) /\ ~ Above(x, y)
           S == {Both(path[pair[1]], path[pair[2]]) :
                   pair \in {q \in (1 .. N) \X (1 .. N) : Bad(q[1], q[2])}}
<1>0. /\ N \in Nat /\ 1 \in 1 .. N
      /\ \A z \in 1 .. N : path[z] \in Seq(Codes)
      /\ \A z \in 1 .. N : Len(path[z]) \in Nat
      /\ \A z \in 2 .. N : up[z] \in 1 .. N
      /\ \A z \in 2 .. N : Len(path[up[z]]) < Len(path[z])
      /\ \A z \in 2 .. N : Begins(path[up[z]], path[z])
      /\ Len(path[1]) = 0
  BY BranchesAre
<1>1. \A x, y \in 1 .. N : Bad(x, y) => Both(path[x], path[y]) \in S
  <2>1. TAKE x, y \in 1 .. N
  <2>2. <<x, y>> \in (1 .. N) \X (1 .. N) /\ <<x, y>>[1] = x /\ <<x, y>>[2] = y
    OBVIOUS
  <2> HIDE DEF Bad
  <2>3. QED
    BY <2>2
<1>2. S \in SUBSET Nat
  <2>1. \A a, b \in 1 .. N : Both(path[a], path[b]) \in Nat
    BY <1>0, BothLess
  <2> HIDE DEF Bad
  <2>2. QED
    BY <2>1
<1>3. CASE S = {}
  <2>1. ~ Bad(n, m)
    BY <1>1, <1>3
  <2>2. QED
    BY <2>1
<1>4. CASE S # {}
  <2>1. PICK least \in S : \A k \in S : least <= k
    <3> HIDE DEF S
    <3>1. QED
      BY <1>2, <1>4, Least
  <2>2. PICK x \in 1 .. N, y \in 1 .. N : Bad(x, y) /\ least = Both(path[x], path[y])
    OBVIOUS
  <2>3. \A a, b \in 1 .. N :
           /\ Both(path[a], path[b]) < Both(path[x], path[y])
           /\ a # b /\ Begins(path[a], path[b])
           => Above(a, b)
    <3>1. TAKE a, b \in 1 .. N
    <3>2. HAVE Both(path[a], path[b]) < Both(path[x], path[y]) /\ a # b /\ Begins(path[a], path[b])
    <3>3. Both(path[a], path[b]) \notin S
      <4>1. Both(path[a], path[b]) \in Nat /\ Both(path[x], path[y]) \in Nat
        BY <1>0, BothLess
      <4>2. ~ (Both(path[x], path[y]) <= Both(path[a], path[b]))
        BY <3>2, <4>1
      <4> HIDE DEF S
      <4>3. QED
        BY <2>1, <2>2, <4>2
    <3>4. ~ Bad(a, b)
      BY <1>1, <3>3
    <3>5. QED
      BY <3>2, <3>4
  <2> HIDE DEF S
  <2>0. /\ Len(path[x]) \in Nat /\ Len(path[y]) \in Nat
        /\ path[x] \in Seq(Codes) /\ path[y] \in Seq(Codes)
        /\ x # y /\ Begins(path[x], path[y]) /\ Len(path[x]) <= Len(path[y])
    BY <2>2, <1>0 DEF Begins
  <2>4. y # 1
    <3>1. SUFFICES ASSUME y = 1 PROVE FALSE
      OBVIOUS
    <3>2. x \in 2 .. N /\ Len(path[x]) = 0
      BY <2>2, <3>1, <1>0 DEF Begins
    <3>3. up[x] \in 1 .. N /\ Len(path[up[x]]) < 0
      BY <3>2, <1>0
    <3>4. Len(path[up[x]]) \in Nat
      BY <3>3, <1>0
    <3>5. QED
      BY <3>3, <3>4
  <2>5. /\ y \in 2 .. N /\ up[y] \in 1 .. N
        /\ path[up[y]] \in Seq(Codes) /\ Len(path[up[y]]) \in Nat
        /\ Len(path[up[y]]) < Len(path[y]) /\ Begins(path[up[y]], path[y])
    <3>1. y \in 2 .. N
      BY <2>4
    <3>2. up[y] \in 1 .. N
      BY <3>1, <1>0
    <3>3. QED
      BY <3>1, <3>2, <1>0
  <2>6. /\ Len(path[up[y]]) < Len(path[x])
        /\ Begins(path[up[y]], path[x]) /\ up[y] # x
    <3>1. ~ Begins(path[x], path[up[y]])
      BY <2>2, <2>4
    <3>2. ~ (Len(path[x]) <= Len(path[up[y]]))
      BY <2>0, <2>5, <3>1, BeginsTwice
    <3>3. Len(path[up[y]]) < Len(path[x])
      BY <2>0, <2>5, <3>2
    <3>4. QED
      BY <2>0, <2>5, <3>3, BeginsTwice
  <2>7. x # 1 /\ Begins(path[up[y]], path[up[x]])
    <3>1. Both(path[up[y]], path[x]) < Both(path[x], path[y])
      BY <2>0, <2>5, BothLess
    <3>2. QED
      BY <2>3, <2>5, <2>6, <3>1
  <2>8. /\ x \in 2 .. N /\ up[x] \in 1 .. N
        /\ path[up[x]] \in Seq(Codes) /\ Len(path[up[x]]) \in Nat
        /\ Len(path[up[x]]) < Len(path[x]) /\ Begins(path[up[x]], path[x])
    <3>1. x \in 2 .. N
      BY <2>7
    <3>2. up[x] \in 1 .. N
      BY <3>1, <1>0
    <3>3. QED
      BY <3>1, <3>2, <1>0
  <2>9. CASE up[x] = up[y]
    <3>1. Len(path[up[x]]) + 1 \in 1 .. Len(path[x])
      BY <2>0, <2>8
    <3>2. After(path[up[x]], path[x]) = After(path[up[x]], path[y])
      BY <2>0, <3>1 DEF Begins, After
    <3>3. x = y
      BY <2>5, <2>8, <2>9, <3>2 DEF Branches
    <3>4. QED
      BY <2>0, <3>3
  <2>10. CASE up[x] # up[y]
    <3>1. Begins(path[up[x]], path[y]) /\ Len(path[up[x]]) < Len(path[y])
      BY <2>0, <2>8, BeginsTwice
    <3>2. Begins(path[up[x]], path[up[y]])
      <4>1. Both(path[up[x]], path[y]) < Both(path[x], path[y])
        BY <2>0, <2>8, BothLess
      <4>2. up[x] # y
        BY <3>1, <2>0
      <4>3. QED
        BY <2>3, <2>8, <3>1, <4>1, <4>2
    <3>3. Len(path[up[x]]) = Len(path[up[y]])
      BY <2>5, <2>7, <2>8, <3>2 DEF Begins
    <3>4. up[x] # 1 /\ Begins(path[up[y]], path[up[up[x]]])
      <4>0. /\ Both(path[up[y]], path[up[x]]) < Both(path[up[y]], path[x])
            /\ Both(path[up[y]], path[x]) < Both(path[y], path[x])
            /\ Both(path[y], path[x]) = Both(path[x], path[y])
        BY <2>0, <2>5, <2>8, BothLess
      <4>1. Both(path[up[y]], path[up[x]]) < Both(path[x], path[y])
        <5>1. /\ Both(path[up[y]], path[up[x]]) \in Nat
              /\ Both(path[up[y]], path[x]) \in Nat
              /\ Both(path[x], path[y]) \in Nat
          BY <2>0, <2>5, <2>8, BothLess
        <5>2. QED
          BY <4>0, <5>1
      <4>2. QED
        BY <2>3, <2>5, <2>7, <2>8, <2>10, <4>1
    <3>5. up[x] \in 2 .. N
      BY <2>8, <3>4
    <3>6. up[up[x]] \in 1 .. N /\ Len(path[up[up[x]]]) < Len(path[up[x]])
      BY <3>5, <1>0
    <3>7. Len(path[up[up[x]]]) \in Nat
      BY <3>6, <1>0
    <3>8. QED
      BY <2>5, <2>8, <3>3, <3>4, <3>6, <3>7 DEF Begins
  <2>11. QED
    BY <2>9, <2>10
<1>5. QED
  BY <1>3, <1>4

\* Strings lead to one node each.
LEMMA PathsDiffer ==
    ASSUME NEW N, NEW path, NEW up, Branches(N, path, up),
           NEW n \in 1 .. N, NEW m \in 1 .. N, path[n] = path[m]
    PROVE  n = m
<1>1. SUFFICES ASSUME n # m PROVE FALSE
  OBVIOUS
<1>2. path[n] \in Seq(Codes) /\ Len(path[n]) \in Nat
  BY DEF Branches
<1>3. Begins(path[n], path[m])
  BY <1>2 DEF Begins
<1>4. m \in 2 .. N /\ Len(path[n]) <= Len(path[up[m]])
  BY <1>1, <1>3, BeginsAbove DEF Begins
<1>5. QED
  BY <1>2, <1>4 DEF Branches

\* The way to a node that is further down goes on with one of the nodes below.
LEMMA WayDown ==
    ASSUME NEW N, NEW path, NEW up, Branches(N, path, up),
           NEW n \in 1 .. N, NEW m \in 1 .. N, n # m, Begins(path[n], path[m])
    PROVE  \E c \in 2 .. N : up[c] = n /\ Begins(path[c], path[m])
<1> DEFINE Way(x) == \E c \in 2 .. N : up[c] = n /\ Begins(path[c], path[x])
           S == {Len(path[x]) : x \in {y \in 1 .. N : /\ n # y
                                                      /\ Begins(path[n], path[y])
                                                      /\ ~ Way(y)}}
<1>0. /\ N \in Nat /\ 1 \in 1 .. N
      /\ \A z \in 1 .. N : path[z] \in Seq(Codes)
      /\ \A z \in 1 .. N : Len(path[z]) \in Nat
      /\ \A z \in 2 .. N : up[z] \in 1 .. N
      /\ \A z \in 2 .. N : Len(path[up[z]]) < Len(path[z])
      /\ \A z \in 2 .. N : Begins(path[up[z]], path[z])
  BY BranchesAre
<1>1. S \in SUBSET Nat
  BY <1>0
<1>2. CASE S = {}
  BY <1>2
<1>3. CASE S # {}
  <2>1. PICK least \in S : \A k \in S : least <= k
    <3> HIDE DEF S
    <3>1. QED
      BY <1>1, <1>3, Least
  <2>2. PICK x \in 1 .. N : /\ n # x /\ Begins(path[n], path[x]) /\ ~ Way(x)
                            /\ least = Len(path[x])
    OBVIOUS
  <2>3. x \in 2 .. N /\ Begins(path[n], path[up[x]])
    BY <2>2, BeginsAbove
  <2>4. CASE up[x] = n
    <3>1. Begins(path[x], path[x])
      BY <1>0 DEF Begins
    <3>2. QED
      BY <2>2, <2>3, <2>4, <3>1
  <2>5. CASE up[x] # n
    <3>1. Len(path[up[x]]) \notin S
      <4> HIDE DEF S
      <4>1. QED
        BY <2>1, <2>2, <2>3, <1>0
    <3>2. PICK c \in 2 .. N : up[c] = n /\ Begins(path[c], path[up[x]])
      BY <2>3, <2>5, <3>1, <1>0
    <3>3. /\ path[c] \in Seq(Codes) /\ path[up[x]] \in Seq(Codes)
          /\ path[x] \in Seq(Codes) /\ Begins(path[up[x]], path[x])
      BY <2>3, <3>2, <1>0
    <3>4. Begins(path[c], path[x])
      BY <3>2, <3>3, BeginsOn, Zenon
    <3>5. QED
      BY <2>2, <3>2, <3>4
  <2>6. QED
    BY <2>4, <2>5
<1>4. QED
  BY <1>2, <1>3

-----------------------------------------------------------------------------
(* Nodes, and what the three changes to them do *)

Tables == UNION {[slots -> Nat] : slots \in SUBSET (0 .. Size - 1)}
NodeSet == [next : Tables, offset : Seq(Codes), data : Seq(Keys)]

LEMMA TableIs ==
    ASSUME NEW t \in Tables
    PROVE  /\ DOMAIN t \subseteq 0 .. Size - 1
           /\ t = [x \in DOMAIN t |-> t[x]]
           /\ \A x \in DOMAIN t : t[x] \in Nat
BY DEF Tables

LEMMA IsTable ==
    ASSUME NEW slots \in SUBSET (0 .. Size - 1), NEW t \in [slots -> Nat]
    PROVE  t \in Tables
BY DEF Tables

LEMMA LinkIs ==
    ASSUME NEW node \in NodeSet, NEW slot \in 0 .. Size - 1, NEW n \in Nat
    PROVE  LET linked == Link(node, slot, n) IN
           /\ linked \in NodeSet
           /\ linked.offset = node.offset /\ linked.data = node.data
           /\ DOMAIN linked.next = DOMAIN node.next \cup {slot}
           /\ linked.next[slot] = n
           /\ \A x \in DOMAIN node.next \ {slot} : linked.next[x] = node.next[x]
<1> DEFINE slots == DOMAIN node.next \cup {slot}
           table == [x \in slots |-> IF x = slot THEN n ELSE node.next[x]]
           linked == Link(node, slot, n)
<1>1. /\ node.next \in Tables /\ node.offset \in Seq(Codes)
      /\ node.data \in Seq(Keys)
      /\ node = [next |-> node.next, offset |-> node.offset, data |-> node.data]
  BY DEF NodeSet
<1>2. /\ DOMAIN node.next \subseteq 0 .. Size - 1
      /\ \A x \in DOMAIN node.next : node.next[x] \in Nat
  BY <1>1, TableIs
<1>3. slots \in SUBSET (0 .. Size - 1) /\ table \in [slots -> Nat]
  BY <1>2
<1>4. table \in Tables
  BY <1>3, IsTable
<1>5. linked = [next |-> table, offset |-> node.offset, data |-> node.data]
  <2>1. linked = [node EXCEPT !.next = table]
    BY DEF Link
  <2>2. PICK old, offset, data :
          node = [next |-> old, offset |-> offset, data |-> data]
    BY <1>1
  <2> HIDE DEF table, linked
  <2>3. QED
    BY <2>1, <2>2
<1>6. DOMAIN table = slots /\ table[slot] = n
      /\ \A x \in DOMAIN node.next \ {slot} : table[x] = node.next[x]
  OBVIOUS
<1> HIDE DEF table, linked
<1>7. linked \in NodeSet
  BY <1>1, <1>4, <1>5 DEF NodeSet
<1>8. linked.next = table
  BY <1>5
<1>9. QED
  BY <1>5, <1>6, <1>7, <1>8 DEF linked

LEMMA ValueIs ==
    ASSUME NEW ns \in Seq(NodeSet), NEW n \in 1 .. Len(ns), NEW key \in Keys
    PROVE  LET new == WithValue(ns, n, key) IN
           /\ new \in Seq(NodeSet) /\ Len(new) = Len(ns)
           /\ \A x \in 1 .. Len(ns) : new[x].next = ns[x].next
           /\ \A x \in 1 .. Len(ns) : new[x].offset = ns[x].offset
           /\ \A x \in 1 .. Len(ns) \ {n} : new[x].data = ns[x].data
           /\ new[n].data = Append(ns[n].data, key)
<1> DEFINE changed == [ns[n] EXCEPT !.data = Append(@, key)]
           new == WithValue(ns, n, key)
<1>1. ns[n] \in NodeSet
  OBVIOUS
<1>2. /\ changed \in NodeSet
      /\ changed.next = ns[n].next /\ changed.offset = ns[n].offset
      /\ changed.data = Append(ns[n].data, key)
  <2>1. ns[n].data \in Seq(Keys)
    BY <1>1 DEF NodeSet
  <2>2. PICK values \in Seq(Keys) : values = Append(ns[n].data, key)
    BY <2>1, AppendProperties
  <2>3. changed = [ns[n] EXCEPT !.data = values]
    BY <2>2
  <2> HIDE DEF changed
  <2>4. QED
    BY <1>1, <2>2, <2>3 DEF NodeSet
<1> HIDE DEF changed
<1>3. new = [ns EXCEPT ![n] = changed]
  BY DEF WithValue, changed
<1>4. /\ new \in Seq(NodeSet) /\ Len(new) = Len(ns) /\ new[n] = changed
      /\ \A x \in 1 .. Len(ns) \ {n} : new[x] = ns[x]
  BY <1>2, <1>3
<1> HIDE DEF new
<1>5. QED
  BY <1>2, <1>4 DEF new

\* What an append of a node to a sequence of nodes gives.
LEMMA OneMore ==
    ASSUME NEW ns \in Seq(NodeSet), NEW node \in NodeSet
    PROVE  /\ Append(ns, node) \in Seq(NodeSet)
           /\ Len(Append(ns, node)) = Len(ns) + 1
           /\ Append(ns, node)[Len(ns) + 1] = node
           /\ \A x \in 1 .. Len(ns) : Append(ns, node)[x] = ns[x]
OBVIOUS

LEMMA LeafIs ==
    ASSUME NEW ns \in Seq(NodeSet), NEW n \in 1 .. Len(ns),
           NEW rest \in Seq(Codes) \ {<<>>}, NEW key \in Keys
    PROVE  LET new == WithLeaf(ns, n, rest, key)
               slot == Slot(rest[1])
               leaf == Len(ns) + 1
           IN
           /\ new \in Seq(NodeSet) /\ Len(new) = leaf
           /\ \A x \in 1 .. Len(ns) : new[x].offset = ns[x].offset
           /\ \A x \in 1 .. Len(ns) : new[x].data = ns[x].data
           /\ \A x \in 1 .. Len(ns) \ {n} : new[x].next = ns[x].next
           /\ slot \in 0 .. Size - 1
           /\ DOMAIN new[n].next = DOMAIN ns[n].next \cup {slot}
           /\ new[n].next[slot] = leaf
           /\ \A x \in DOMAIN ns[n].next \ {slot} :
                new[n].next[x] = ns[n].next[x]
           /\ DOMAIN new[leaf].next = {}
           /\ new[leaf].offset = rest /\ new[leaf].data = <<key>>
<1> DEFINE slot == Slot(rest[1])
           leaf == Len(ns) + 1
           linked == Link(ns[n], slot, leaf)
           node == Node(NoChildren, rest, <<key>>)
           old == [ns EXCEPT ![n] = linked]
           new == WithLeaf(ns, n, rest, key)
<1>1. rest[1] \in Codes /\ Head(rest) = rest[1] /\ ns[n] \in NodeSet
      /\ leaf \in Nat
  OBVIOUS
<1>2. slot \in 0 .. Size - 1
  BY <1>1, SlotsDiffer
<1>3. /\ linked \in NodeSet
      /\ linked.offset = ns[n].offset /\ linked.data = ns[n].data
      /\ DOMAIN linked.next = DOMAIN ns[n].next \cup {slot}
      /\ linked.next[slot] = leaf
      /\ \A x \in DOMAIN ns[n].next \ {slot} : linked.next[x] = ns[n].next[x]
  BY <1>1, <1>2, LinkIs
<1>4. /\ node \in NodeSet /\ DOMAIN node.next = {} /\ node.offset = rest
      /\ node.data = <<key>>
  <2>1. NoChildren \in [{} -> Nat] /\ {} \in SUBSET (0 .. Size - 1)
    BY DEF NoChildren
  <2>2. NoChildren \in Tables /\ DOMAIN NoChildren = {}
    BY <2>1, IsTable DEF NoChildren
  <2>3. QED
    BY <2>2 DEF Node, NodeSet
<1>5. new = Append(old, node)
  BY <1>1 DEF WithLeaf
<1> HIDE DEF linked, node, new
<1>6. /\ old \in Seq(NodeSet) /\ Len(old) = Len(ns) /\ old[n] = linked
      /\ \A x \in 1 .. Len(ns) \ {n} : old[x] = ns[x]
  BY <1>3
<1> HIDE DEF old
<1>7. /\ new \in Seq(NodeSet) /\ Len(new) = leaf /\ new[leaf] = node
      /\ new[n] = linked /\ \A x \in 1 .. Len(ns) \ {n} : new[x] = ns[x]
  <2>1. /\ new \in Seq(NodeSet) /\ Len(new) = Len(old) + 1
        /\ new[Len(old) + 1] = node
        /\ \A x \in 1 .. Len(old) : new[x] = old[x]
    BY <1>4, <1>5, <1>6, OneMore, Zenon
  <2>2. QED
    BY <1>6, <2>1
<1> HIDE DEF leaf, slot
<1>8. QED
  BY <1>2, <1>3, <1>4, <1>7 DEF new, leaf, slot

\* What a node between n and a node that moves makes of the nodes.
IsBetween(new, ns, n, slot, moving, offset, j, mid) ==
    /\ new \in Seq(NodeSet) /\ Len(new) = mid
    /\ \A x \in 1 .. Len(ns) : new[x].data = ns[x].data
    /\ \A x \in 1 .. Len(ns) \ {moving} : new[x].offset = ns[x].offset
    /\ new[moving].offset = From(offset, j + 1)
    /\ \A x \in 1 .. Len(ns) \ {n} : new[x].next = ns[x].next
    /\ DOMAIN new[n].next = DOMAIN ns[n].next
    /\ new[n].next[slot] = mid
    /\ \A x \in DOMAIN ns[n].next \ {slot} : new[n].next[x] = ns[n].next[x]
    /\ DOMAIN new[mid].next = {Slot(offset[j + 1])}
    /\ new[mid].next[Slot(offset[j + 1])] = moving
    /\ new[mid].offset = SubSeq(offset, 1, j) /\ new[mid].data = <<>>

LEMMA BetweenIs ==
    ASSUME NEW ns \in Seq(NodeSet), NEW n \in 1 .. Len(ns),
           NEW slot \in DOMAIN ns[n].next,
           ns[n].next[slot] \in 1 .. Len(ns), ns[n].next[slot] # n,
           NEW j \in 1 .. Len(ns[ns[n].next[slot]].offset) - 1
    PROVE  IsBetween(WithBetween(ns, n, slot, j), ns, n, slot, ns[n].next[slot],
                     ns[ns[n].next[slot]].offset, j, Len(ns) + 1)
<1> DEFINE moving == ns[n].next[slot]
           offset == ns[moving].offset
           mid == Len(ns) + 1
           linked == Link(ns[n], slot, mid)
           trimmed == [ns[moving] EXCEPT !.offset = From(offset, j + 1)]
           node == Node(OneChild(Slot(offset[j + 1]), moving),
                        SubSeq(offset, 1, j), <<>>)
           old == [[ns EXCEPT ![n] = linked] EXCEPT ![moving] = trimmed]
           new == WithBetween(ns, n, slot, j)
<1>1. /\ ns[n] \in NodeSet /\ ns[moving] \in NodeSet /\ moving \in Nat
      /\ offset \in Seq(Codes) /\ mid \in Nat
      /\ j \in 0 .. Len(offset) /\ j + 1 \in 1 .. Len(offset)
      /\ offset[j + 1] \in Codes
  <2>1. ns[n] \in NodeSet /\ ns[moving] \in NodeSet
    OBVIOUS
  <2>2. offset \in Seq(Codes)
    BY <2>1 DEF NodeSet
  <2>3. /\ j \in 0 .. Len(offset) /\ j + 1 \in 1 .. Len(offset)
        /\ offset[j + 1] \in Codes
    <3> HIDE DEF offset
    <3>1. j \in 1 .. Len(offset) - 1
      BY DEF offset
    <3>2. QED
      BY <2>2, <3>1
  <2>4. moving \in Nat /\ mid \in Nat
    OBVIOUS
  <2>5. QED
    BY <2>1, <2>2, <2>3, <2>4
<1>2. slot \in 0 .. Size - 1 /\ Slot(offset[j + 1]) \in 0 .. Size - 1
  BY <1>1, SlotsDiffer, TableIs DEF NodeSet
<1>3. /\ linked \in NodeSet
      /\ linked.offset = ns[n].offset /\ linked.data = ns[n].data
      /\ DOMAIN linked.next = DOMAIN ns[n].next
      /\ linked.next[slot] = mid
      /\ \A x \in DOMAIN ns[n].next \ {slot} : linked.next[x] = ns[n].next[x]
  <2>1. DOMAIN ns[n].next \cup {slot} = DOMAIN ns[n].next
    OBVIOUS
  <2>2. /\ linked \in NodeSet
        /\ linked.offset = ns[n].offset /\ linked.data = ns[n].data
        /\ DOMAIN linked.next = DOMAIN ns[n].next \cup {slot}
        /\ linked.next[slot] = mid
        /\ \A x \in DOMAIN ns[n].next \ {slot} : linked.next[x] = ns[n].next[x]
    <3>1. ns[n] \in NodeSet /\ slot \in 0 .. Size - 1 /\ mid \in Nat
      BY <1>1, <1>2
    <3> HIDE DEF mid
    <3>2. QED
      BY <3>1, LinkIs
  <2> HIDE DEF linked
  <2>3. QED
    BY <2>1, <2>2
<1>4. /\ trimmed \in NodeSet /\ trimmed.offset = From(offset, j + 1)
      /\ trimmed.next = ns[moving].next /\ trimmed.data = ns[moving].data
  <2>1. From(offset, j + 1) \in Seq(Codes)
    BY <1>1, FromIs
  <2>2. QED
    BY <1>1, <2>1 DEF NodeSet
<1>5. /\ node \in NodeSet /\ DOMAIN node.next = {Slot(offset[j + 1])}
      /\ node.next[Slot(offset[j + 1])] = moving
      /\ node.offset = SubSeq(offset, 1, j) /\ node.data = <<>>
  <2> DEFINE t == OneChild(Slot(offset[j + 1]), moving)
  <2>1. /\ t \in [{Slot(offset[j + 1])} -> Nat]
        /\ DOMAIN t = {Slot(offset[j + 1])} /\ t[Slot(offset[j + 1])] = moving
    BY <1>1 DEF OneChild
  <2>2. t \in Tables
    BY <1>2, <2>1, IsTable
  <2>3. SubSeq(offset, 1, j) \in Seq(Codes) /\ <<>> \in Seq(Keys)
    BY <1>1, StartIs
  <2> HIDE DEF t
  <2>4. QED
    BY <2>1, <2>2, <2>3 DEF Node, NodeSet, t
<1>6. new = Append(old, node)
  <2>1. [ns EXCEPT ![n] = linked][moving] = ns[moving]
    OBVIOUS
  <2>2. old = [ns EXCEPT ![n] = linked,
                         ![moving].offset = From(offset, j + 1)]
    BY <2>1
  <2>3. QED
    BY <2>2 DEF WithBetween, Trimmed, Below
<1> HIDE DEF linked, trimmed, node, new
<1>7. /\ old \in Seq(NodeSet) /\ Len(old) = Len(ns) /\ old[n] = linked
      /\ old[moving] = trimmed
      /\ \A x \in 1 .. Len(ns) \ {n, moving} : old[x] = ns[x]
  BY <1>3, <1>4
<1> HIDE DEF old
<1>8. /\ new \in Seq(NodeSet) /\ Len(new) = mid /\ new[mid] = node
      /\ new[n] = linked /\ new[moving] = trimmed
      /\ \A x \in 1 .. Len(ns) \ {n, moving} : new[x] = ns[x]
  <2>1. /\ new \in Seq(NodeSet) /\ Len(new) = Len(old) + 1
        /\ new[Len(old) + 1] = node
        /\ \A x \in 1 .. Len(old) : new[x] = old[x]
    BY <1>5, <1>6, <1>7, OneMore
  <2>2. QED
    BY <1>7, <2>1
<1> HIDE DEF mid
<1>9. IsBetween(new, ns, n, slot, moving, offset, j, mid)
  BY <1>3, <1>4, <1>5, <1>8 DEF IsBetween
<1>10. QED
  BY <1>9 DEF new, mid

-----------------------------------------------------------------------------
(* The tree *)

\* Every node but the root is in the table of the node above it, at the slot of
\* the first character of its offset, and tables have nothing else.
Links(ns, up) ==
    /\ \A n \in 2 .. Len(ns) :
         /\ ns[n].offset # <<>>
         /\ Slot(ns[n].offset[1]) \in DOMAIN ns[up[n]].next
         /\ ns[up[n]].next[Slot(ns[n].offset[1])] = n
    /\ \A n \in 1 .. Len(ns) : \A slot \in DOMAIN ns[n].next :
         /\ ns[n].next[slot] \in 2 .. Len(ns)
         /\ up[ns[n].next[slot]] = n
         /\ Slot(ns[ns[n].next[slot]].offset[1]) = slot

\* The string that leads to a node is that of the node above, and its offset.
Tree(ns, path, up) ==
    /\ ns \in Seq(NodeSet) /\ Len(ns) # 0
    /\ path \in [1 .. Len(ns) -> Seq(Codes)] /\ path[1] = <<>>
    /\ up \in [2 .. Len(ns) -> 1 .. Len(ns)]
    /\ \A n \in 2 .. Len(ns) : path[n] = path[up[n]] \o ns[n].offset
    /\ Links(ns, up)

LEMMA TreeIs ==
    ASSUME NEW ns, NEW path, NEW up, Tree(ns, path, up)
    PROVE  /\ Len(ns) \in Nat /\ 1 \in 1 .. Len(ns)
           /\ \A n \in 1 .. Len(ns) : ns[n] \in NodeSet
           /\ \A n \in 1 .. Len(ns) : ns[n].next \in Tables
           /\ \A n \in 1 .. Len(ns) : ns[n].offset \in Seq(Codes)
           /\ \A n \in 1 .. Len(ns) : ns[n].data \in Seq(Keys)
           /\ \A n \in 1 .. Len(ns) : path[n] \in Seq(Codes)
           /\ \A n \in 2 .. Len(ns) : up[n] \in 1 .. Len(ns)
<1>1. /\ ns \in Seq(NodeSet) /\ Len(ns) # 0
      /\ path \in [1 .. Len(ns) -> Seq(Codes)]
      /\ up \in [2 .. Len(ns) -> 1 .. Len(ns)]
  BY DEF Tree
<1>2. \A n \in 1 .. Len(ns) : ns[n] \in NodeSet
  BY <1>1
<1>3. Len(ns) \in Nat /\ 1 \in 1 .. Len(ns)
  BY <1>1
<1>4. \A n \in 2 .. Len(ns) : up[n] \in 1 .. Len(ns)
  BY <1>1
<1>5. QED
  BY <1>1, <1>2, <1>3, <1>4 DEF NodeSet

LEMMA ConcatIs ==
    ASSUME NEW p \in Seq(Codes), NEW q \in Seq(Codes)
    PROVE  /\ p \o q \in Seq(Codes) /\ Len(p \o q) = Len(p) + Len(q)
           /\ \A i \in 1 .. Len(p) : (p \o q)[i] = p[i]
           /\ \A i \in 1 .. Len(q) : (p \o q)[Len(p) + i] = q[i]
           /\ Begins(p, p \o q)
           /\ q # <<>> => /\ Len(p) < Len(p \o q) /\ q[1] \in Codes
                          /\ After(p, p \o q) = q[1]
<1>1. /\ p \o q \in Seq(Codes) /\ Len(p \o q) = Len(p) + Len(q)
      /\ \A i \in 1 .. Len(p) : (p \o q)[i] = p[i]
      /\ \A i \in 1 .. Len(q) : (p \o q)[Len(p) + i] = q[i]
      /\ Len(p) \in Nat /\ Len(q) \in Nat
  OBVIOUS
<1>2. Begins(p, p \o q)
  BY <1>1 DEF Begins
<1>3. ASSUME q # <<>>
      PROVE  /\ Len(p) < Len(p \o q) /\ q[1] \in Codes
             /\ After(p, p \o q) = q[1]
  <2>1. 1 \in 1 .. Len(q) /\ q[1] \in Codes
    BY <1>3
  <2>2. QED
    BY <1>1, <2>1 DEF After
<1>4. QED
  BY <1>1, <1>2, <1>3

\* A node that is below another is in its table.
LEMMA BelowIs ==
    ASSUME NEW ns, NEW path, NEW up, Tree(ns, path, up),
           NEW n \in 2 .. Len(ns)
    PROVE  /\ up[n] \in 1 .. Len(ns) /\ n \in 1 .. Len(ns)
           /\ ns[n].offset \in Seq(Codes) /\ ns[n].offset # <<>>
           /\ ns[n].offset[1] \in Codes
           /\ Slot(ns[n].offset[1]) \in DOMAIN ns[up[n]].next
           /\ ns[up[n]].next[Slot(ns[n].offset[1])] = n
<1>1. /\ n \in 1 .. Len(ns) /\ up[n] \in 1 .. Len(ns)
      /\ ns[n].offset \in Seq(Codes)
  BY TreeIs
<1>2. /\ ns[n].offset # <<>>
      /\ Slot(ns[n].offset[1]) \in DOMAIN ns[up[n]].next
      /\ ns[up[n]].next[Slot(ns[n].offset[1])] = n
  BY DEF Tree, Links
<1>3. PICK q \in Seq(Codes) : q = ns[n].offset
  BY <1>1
<1>4. q[1] \in Codes
  BY <1>2, <1>3
<1>5. QED
  BY <1>1, <1>2, <1>3, <1>4

\* Its string goes on with the character of its slot.
LEMMA PathBelow ==
    ASSUME NEW ns, NEW path, NEW up, Tree(ns, path, up),
           NEW n \in 2 .. Len(ns)
    PROVE  /\ path[n] = path[up[n]] \o ns[n].offset
           /\ Len(path[up[n]]) < Len(path[n])
           /\ Begins(path[up[n]], path[n])
           /\ After(path[up[n]], path[n]) = ns[n].offset[1]
<1>1. /\ path[n] = path[up[n]] \o ns[n].offset /\ ns[n].offset # <<>>
      /\ ns[n].offset \in Seq(Codes) /\ up[n] \in 1 .. Len(ns)
  BY BelowIs DEF Tree
<1>2. path[up[n]] \in Seq(Codes)
  BY <1>1, TreeIs
<1>3. PICK p \in Seq(Codes), q \in Seq(Codes) :
          p = path[up[n]] /\ q = ns[n].offset
  BY <1>1, <1>2
<1>4. /\ Len(p) < Len(p \o q) /\ Begins(p, p \o q)
      /\ After(p, p \o q) = q[1]
  BY <1>1, <1>3, ConcatIs
<1>5. p \o q = path[n]
  BY <1>1, <1>3
<1>6. QED
  BY <1>1, <1>3, <1>4, <1>5

LEMMA AfterIs ==
    ASSUME NEW ns, NEW path, NEW up, Tree(ns, path, up)
    PROVE  \A n \in 2 .. Len(ns) : After(path[up[n]], path[n]) = ns[n].offset[1]
<1>1. ASSUME NEW n \in 2 .. Len(ns)
      PROVE  After(path[up[n]], path[n]) = ns[n].offset[1]
  BY PathBelow, ZenonT(40)
<1>2. QED
  BY <1>1

LEMMA TreeBranches ==
    ASSUME NEW ns, NEW path, NEW up, Tree(ns, path, up)
    PROVE  Branches(Len(ns), path, up)
<1>1. Len(ns) \in Nat \ {0}
  BY TreeIs
<1>2. \A n \in 2 .. Len(ns) : /\ Len(path[up[n]]) < Len(path[n])
                              /\ Begins(path[up[n]], path[n])
  BY PathBelow
<1>3. ASSUME NEW n \in 2 .. Len(ns), NEW m \in 2 .. Len(ns), up[n] = up[m],
             After(path[up[n]], path[n]) = After(path[up[n]], path[m])
      PROVE  n = m
  <2>1. ns[up[n]].next[Slot(ns[n].offset[1])] = n
    BY BelowIs
  <2>2. ns[up[m]].next[Slot(ns[m].offset[1])] = m
    BY BelowIs
  <2>3. After(path[up[n]], path[n]) = ns[n].offset[1]
    BY AfterIs
  <2>4. After(path[up[m]], path[m]) = ns[m].offset[1]
    BY AfterIs
  <2>5. ns[n].offset[1] = ns[m].offset[1]
    BY <1>3, <2>3, <2>4
  <2>6. QED
    BY <1>3, <2>1, <2>2, <2>5
<1>4. QED
  BY <1>1, <1>2, <1>3 DEF Tree, Branches

LEMMA ValueTree ==
    ASSUME NEW ns, NEW path, NEW up, Tree(ns, path, up),
           NEW n \in 1 .. Len(ns), NEW key \in Keys
    PROVE  Tree(WithValue(ns, n, key), path, up)
<1> DEFINE new == WithValue(ns, n, key)
<1>1. ns \in Seq(NodeSet)
  BY DEF Tree
<1>2. /\ new \in Seq(NodeSet) /\ Len(new) = Len(ns)
      /\ \A x \in 1 .. Len(ns) : new[x].next = ns[x].next
      /\ \A x \in 1 .. Len(ns) : new[x].offset = ns[x].offset
  BY <1>1, ValueIs
<1> HIDE DEF new
<1>3. /\ \A x \in 2 .. Len(ns) : x \in 1 .. Len(ns) /\ up[x] \in 1 .. Len(ns)
  BY TreeIs
<1>4. Links(new, up)
  <2>1. ASSUME NEW x \in 2 .. Len(new)
        PROVE  /\ new[x].offset # <<>>
               /\ Slot(new[x].offset[1]) \in DOMAIN new[up[x]].next
               /\ new[up[x]].next[Slot(new[x].offset[1])] = x
    <3>1. x \in 2 .. Len(ns) /\ x \in 1 .. Len(ns) /\ up[x] \in 1 .. Len(ns)
      BY <1>2, <1>3
    <3>2. /\ ns[x].offset # <<>>
          /\ Slot(ns[x].offset[1]) \in DOMAIN ns[up[x]].next
          /\ ns[up[x]].next[Slot(ns[x].offset[1])] = x
      BY <3>1, BelowIs
    <3>3. new[x].offset = ns[x].offset /\ new[up[x]].next = ns[up[x]].next
      BY <1>2, <3>1
    <3>4. QED
      BY <3>2, <3>3
  <2>2. ASSUME NEW x \in 1 .. Len(new), NEW slot \in DOMAIN new[x].next
        PROVE  /\ new[x].next[slot] \in 2 .. Len(new)
               /\ up[new[x].next[slot]] = x
               /\ Slot(new[new[x].next[slot]].offset[1]) = slot
    <3>1. /\ ns[x].next[slot] \in 2 .. Len(ns)
          /\ up[ns[x].next[slot]] = x
          /\ Slot(ns[ns[x].next[slot]].offset[1]) = slot
      BY <1>2 DEF Tree, Links
    <3>2. new[ns[x].next[slot]].offset = ns[ns[x].next[slot]].offset
      BY <1>2, <1>3, <3>1
    <3>3. QED
      BY <1>2, <3>1, <3>2
  <2>3. QED
    BY <2>1, <2>2 DEF Links
<1>5. \A x \in 2 .. Len(new) : path[x] = path[up[x]] \o new[x].offset
  BY <1>2, <1>3 DEF Tree
<1>6. Tree(new, path, up)
  BY <1>2, <1>4, <1>5 DEF Tree
<1>7. QED
  BY <1>6 DEF new

\* The strings and the nodes above, with one node more.
PathPlus(path, last, s) == [x \in 1 .. last |-> IF x = last THEN s ELSE path[x]]
UpPlus(up, last, n) == [x \in 2 .. last |-> IF x = last THEN n ELSE up[x]]

IsPathPlus(more, path, N, s) ==
    /\ more \in [1 .. N + 1 -> Seq(Codes)] /\ more[1] = <<>>
    /\ more[N + 1] = s
    /\ \A x \in 1 .. N : more[x] = path[x]

LEMMA PathPlusIs ==
    ASSUME NEW N \in Nat \ {0}, NEW path \in [1 .. N -> Seq(Codes)],
           path[1] = <<>>, NEW s \in Seq(Codes)
    PROVE  IsPathPlus(PathPlus(path, N + 1, s), path, N, s)
BY DEF PathPlus, IsPathPlus

IsUpPlus(more, up, N, n) ==
    /\ more \in [2 .. N + 1 -> 1 .. N + 1]
    /\ more[N + 1] = n
    /\ \A x \in 2 .. N : more[x] = up[x]

LEMMA UpPlusIs ==
    ASSUME NEW N \in Nat \ {0}, NEW up \in [2 .. N -> 1 .. N], NEW n \in 1 .. N
    PROVE  IsUpPlus(UpPlus(up, N + 1, n), up, N, n)
BY DEF UpPlus, IsUpPlus

LEMMA LeafTree ==
    ASSUME NEW ns, NEW path, NEW up, Tree(ns, path, up),
           NEW n \in 1 .. Len(ns), NEW key \in Keys,
           NEW rest \in Seq(Codes) \ {<<>>}, Slot(rest[1]) \notin DOMAIN ns[n].next
    PROVE  Tree(WithLeaf(ns, n, rest, key),
                PathPlus(path, Len(ns) + 1, path[n] \o rest),
                UpPlus(up, Len(ns) + 1, n))
<1> DEFINE new == WithLeaf(ns, n, rest, key)
           leaf == Len(ns) + 1
           slot == Slot(rest[1])
           newPath == PathPlus(path, leaf, path[n] \o rest)
           newUp == UpPlus(up, leaf, n)
<1>1. /\ ns \in Seq(NodeSet) /\ Len(ns) \in Nat \ {0}
      /\ path \in [1 .. Len(ns) -> Seq(Codes)] /\ path[1] = <<>>
      /\ up \in [2 .. Len(ns) -> 1 .. Len(ns)]
      /\ path[n] \in Seq(Codes)
  BY TreeIs DEF Tree
<1>2. /\ new \in Seq(NodeSet) /\ Len(new) = leaf
      /\ \A x \in 1 .. Len(ns) : new[x].offset = ns[x].offset
      /\ \A x \in 1 .. Len(ns) \ {n} : new[x].next = ns[x].next
      /\ DOMAIN new[n].next = DOMAIN ns[n].next \cup {slot}
      /\ new[n].next[slot] = leaf
      /\ \A x \in DOMAIN ns[n].next \ {slot} : new[n].next[x] = ns[n].next[x]
      /\ DOMAIN new[leaf].next = {}
      /\ new[leaf].offset = rest
  BY <1>1, LeafIs
<1>3. path[n] \o rest \in Seq(Codes)
  BY <1>1, ConcatIs
<1>4. /\ newPath \in [1 .. leaf -> Seq(Codes)] /\ newPath[1] = <<>>
      /\ newPath[leaf] = path[n] \o rest
      /\ \A x \in 1 .. Len(ns) : newPath[x] = path[x]
  <2>1. PICK N \in Nat \ {0} : N = Len(ns)
    BY <1>1
  <2>2. path \in [1 .. N -> Seq(Codes)] /\ path[1] = <<>>
    BY <1>1, <2>1
  <2>3. PICK s \in Seq(Codes) : s = path[n] \o rest
    BY <1>3
  <2>4. IsPathPlus(PathPlus(path, N + 1, s), path, N, s)
    BY <2>2, PathPlusIs
  <2>5. leaf = N + 1 /\ newPath = PathPlus(path, N + 1, s)
    BY <2>1, <2>3
  <2> HIDE DEF newPath
  <2>6. QED
    BY <2>1, <2>3, <2>4, <2>5 DEF IsPathPlus
<1>5. /\ newUp \in [2 .. leaf -> 1 .. leaf] /\ newUp[leaf] = n
      /\ \A x \in 2 .. Len(ns) : newUp[x] = up[x]
  <2>1. PICK N \in Nat \ {0} : N = Len(ns)
    BY <1>1
  <2>2. up \in [2 .. N -> 1 .. N] /\ n \in 1 .. N
    BY <1>1, <2>1
  <2>3. LET more == UpPlus(up, N + 1, n) IN
        /\ more \in [2 .. N + 1 -> 1 .. N + 1] /\ more[N + 1] = n
        /\ \A x \in 2 .. N : more[x] = up[x]
    <3>1. IsUpPlus(UpPlus(up, N + 1, n), up, N, n)
      BY <2>2, UpPlusIs
    <3>2. QED
      BY <3>1 DEF IsUpPlus
  <2>4. QED
    BY <2>1, <2>3
<1>6. /\ leaf \in Nat /\ leaf # 0 /\ leaf \in 2 .. leaf /\ leaf \notin 1 .. Len(ns)
      /\ \A x \in 2 .. leaf : x = leaf \/ x \in 2 .. Len(ns)
      /\ \A x \in 1 .. leaf : x = leaf \/ x \in 1 .. Len(ns)
      /\ \A x \in 2 .. Len(ns) : x \in 2 .. leaf /\ x # leaf
  <2>1. PICK N \in Nat \ {0} : N = Len(ns)
    BY <1>1
  <2>2. leaf = N + 1
    BY <2>1
  <2> HIDE DEF leaf
  <2>3. QED
    BY <2>1, <2>2
<1> HIDE DEF new, newPath, newUp, leaf, slot
<1>7. ASSUME NEW x \in DOMAIN ns[n].next
      PROVE  x # slot
  BY DEF slot
<1>8. ASSUME NEW x \in 2 .. leaf
      PROVE  /\ new[x].offset # <<>>
             /\ Slot(new[x].offset[1]) \in DOMAIN new[newUp[x]].next
             /\ new[newUp[x]].next[Slot(new[x].offset[1])] = x
             /\ newPath[x] = newPath[newUp[x]] \o new[x].offset
  <2>1. CASE x = leaf
    <3>1. Slot(new[x].offset[1]) = slot /\ new[x].offset = rest
      BY <1>2, <2>1 DEF slot
    <3>2. newUp[x] = n /\ newPath[newUp[x]] = path[n]
      BY <1>4, <1>5, <2>1
    <3>3. QED
      BY <1>2, <1>4, <2>1, <3>1, <3>2
  <2>2. CASE x \in 2 .. Len(ns)
    <3>1. /\ up[x] \in 1 .. Len(ns) /\ x \in 1 .. Len(ns)
          /\ ns[x].offset # <<>>
          /\ Slot(ns[x].offset[1]) \in DOMAIN ns[up[x]].next
          /\ ns[up[x]].next[Slot(ns[x].offset[1])] = x
      BY <2>2, BelowIs
    <3>2. path[x] = path[up[x]] \o ns[x].offset
      BY <2>2 DEF Tree
    <3>3. /\ new[x].offset = ns[x].offset /\ newUp[x] = up[x]
          /\ newPath[x] = path[x] /\ newPath[up[x]] = path[up[x]]
      BY <1>2, <1>4, <1>5, <2>2, <3>1
    <3>4. /\ Slot(ns[x].offset[1]) \in DOMAIN new[up[x]].next
          /\ new[up[x]].next[Slot(ns[x].offset[1])] = x
      <4>1. CASE up[x] = n
        <5>1. Slot(ns[x].offset[1]) \in DOMAIN ns[n].next \ {slot}
          BY <1>7, <3>1, <4>1
        <5>2. QED
          BY <1>2, <3>1, <4>1, <5>1
      <4>2. CASE up[x] # n
        BY <1>2, <3>1, <4>2
      <4>3. QED
        BY <4>1, <4>2
    <3>5. QED
      BY <3>1, <3>2, <3>3, <3>4
  <2>3. QED
    BY <1>6, <2>1, <2>2
<1>9. ASSUME NEW x \in 1 .. leaf, NEW y \in DOMAIN new[x].next
      PROVE  /\ new[x].next[y] \in 2 .. leaf
             /\ newUp[new[x].next[y]] = x
             /\ Slot(new[new[x].next[y]].offset[1]) = y
  <2>1. x \in 1 .. Len(ns)
    BY <1>2, <1>6
  <2>2. CASE x = n /\ y = slot
    BY <1>2, <1>5, <1>6, <2>2 DEF slot
  <2>3. CASE ~ (x = n /\ y = slot)
    <3>1. y \in DOMAIN ns[x].next /\ new[x].next[y] = ns[x].next[y]
      BY <1>2, <2>1, <2>3
    <3>2. /\ ns[x].next[y] \in 2 .. Len(ns) /\ up[ns[x].next[y]] = x
          /\ Slot(ns[ns[x].next[y]].offset[1]) = y
      BY <2>1, <3>1 DEF Tree, Links
    <3>3. ns[x].next[y] \in 1 .. Len(ns) /\ ns[x].next[y] \in 2 .. leaf
      BY <1>6, <3>2
    <3>4. /\ new[ns[x].next[y]].offset = ns[ns[x].next[y]].offset
          /\ newUp[ns[x].next[y]] = up[ns[x].next[y]]
      BY <1>2, <1>5, <3>2, <3>3, Zenon
    <3>5. QED
      BY <3>1, <3>2, <3>3, <3>4, Zenon
  <2>4. QED
    BY <2>2, <2>3
<1>10. Links(new, newUp)
  <2>1. Len(new) = leaf
    BY <1>2
  <2>2. QED
    BY <1>8, <1>9, <2>1, Zenon DEF Links
<1>11. Tree(new, newPath, newUp)
  BY <1>2, <1>4, <1>5, <1>6, <1>8, <1>10 DEF Tree
<1>12. QED
  BY <1>11 DEF new, newPath, newUp, leaf

\* An offset in two parts.
AreParts(p, offset, j, kept, left) ==
    /\ kept \in Seq(Codes) /\ Len(kept) = j /\ kept # <<>>
    /\ kept[1] = offset[1]
    /\ left \in Seq(Codes) /\ left # <<>>
    /\ left[1] = offset[j + 1]
    /\ p \o offset = (p \o kept) \o left

LEMMA PartsIs ==
    ASSUME NEW p \in Seq(Codes), NEW offset \in Seq(Codes),
           NEW j \in 1 .. Len(offset) - 1
    PROVE  AreParts(p, offset, j, SubSeq(offset, 1, j), From(offset, j + 1))
<1> DEFINE kept == SubSeq(offset, 1, j)
           left == From(offset, j + 1)
           size == Len(offset)
<1>1. size \in Nat /\ j \in 1 .. size - 1 /\ j \in 0 .. size /\ j + 1 \in 1 .. size + 1
  OBVIOUS
<1>2. kept \in Seq(Codes) /\ Len(kept) = j /\ \A k \in 1 .. j : kept[k] = offset[k]
  BY <1>1, StartIs
<1>3. /\ left \in Seq(Codes) /\ Len(left) = size - j
      /\ \A k \in 1 .. size - j : left[k] = offset[k + j]
  <2>1. /\ left \in Seq(Codes) /\ Len(left) = size + 1 - (j + 1)
        /\ \A k \in 1 .. size + 1 - (j + 1) : left[k] = offset[(j + 1) + k - 1]
    BY <1>1, FromIs
  <2>2. size + 1 - (j + 1) = size - j
        /\ \A k \in 1 .. size - j : (j + 1) + k - 1 = k + j
    BY <1>1
  <2> HIDE DEF size, left
  <2>3. QED
    BY <2>1, <2>2
<1> HIDE DEF kept, left
<1>4. kept # <<>> /\ kept[1] = offset[1]
  BY <1>1, <1>2
<1>5. left # <<>> /\ left[1] = offset[j + 1]
  BY <1>1, <1>3
<1>6. kept \o left = offset
  <2>1. kept \o left \in Seq(Codes) /\ Len(kept \o left) = size
    <3>1. kept \o left \in Seq(Codes) /\ Len(kept \o left) = Len(kept) + Len(left)
      BY <1>2, <1>3, ConcatIs
    <3>2. Len(kept) + Len(left) = size
      BY <1>1, <1>2, <1>3
    <3>3. QED
      BY <3>1, <3>2
  <2>2. ASSUME NEW k \in 1 .. size
        PROVE  (kept \o left)[k] = offset[k]
    <3>1. CASE k <= j
      <4>1. k \in 1 .. j
        BY <1>1, <3>1
      <4>2. (kept \o left)[k] = kept[k]
        BY <1>2, <1>3, <4>1, ConcatIs
      <4>3. QED
        BY <1>2, <4>1, <4>2
    <3>2. CASE k > j
      <4>1. k - j \in 1 .. size - j /\ j + (k - j) = k
        BY <1>1, <3>2
      <4>2. (kept \o left)[k] = left[k - j]
        <5>1. \A i \in 1 .. Len(left) : (kept \o left)[Len(kept) + i] = left[i]
          BY <1>2, <1>3, ConcatIs, Zenon
        <5>2. k - j \in 1 .. Len(left) /\ Len(kept) + (k - j) = k
          BY <1>2, <1>3, <4>1
        <5>3. QED
          BY <5>1, <5>2
      <4>3. left[k - j] = offset[(k - j) + j]
        BY <1>3, <4>1
      <4>4. (k - j) + j = k
        BY <1>1
      <4>5. QED
        BY <4>2, <4>3, <4>4
    <3>3. k <= j \/ k > j
      BY <1>1
    <3>4. QED
      BY <3>1, <3>2, <3>3
  <2>3. QED
    BY <2>1, <2>2, SameString
<1>7. p \o (kept \o left) = (p \o kept) \o left
  <2>1. kept \in Seq(Codes) /\ left \in Seq(Codes)
    BY <1>2, <1>3
  <2>2. PICK q \in Seq(Codes), r \in Seq(Codes) : q = kept /\ r = left
    BY <2>1
  <2>3. p \o (q \o r) = (p \o q) \o r
    OBVIOUS
  <2>4. QED
    BY <2>2, <2>3, Zenon
<1>8. AreParts(p, offset, j, kept, left)
  BY <1>2, <1>3, <1>4, <1>5, <1>6, <1>7 DEF AreParts
<1>9. QED
  BY <1>8 DEF kept, left

LEMMA ChildIs ==
    ASSUME NEW ns, NEW path, NEW up, Tree(ns, path, up),
           NEW n \in 1 .. Len(ns), NEW slot \in DOMAIN ns[n].next
    PROVE  /\ ns[n].next[slot] \in 2 .. Len(ns) /\ ns[n].next[slot] \in 1 .. Len(ns)
           /\ up[ns[n].next[slot]] = n
           /\ Slot(ns[ns[n].next[slot]].offset[1]) = slot
           /\ ns[n].next[slot] # n
<1>1. /\ ns[n].next[slot] \in 2 .. Len(ns)
      /\ up[ns[n].next[slot]] = n
      /\ Slot(ns[ns[n].next[slot]].offset[1]) = slot
  BY DEF Tree, Links
<1>2. ns[n].next[slot] \in 1 .. Len(ns)
  BY <1>1, BelowIs
<1>3. Len(path[n]) < Len(path[ns[n].next[slot]])
  <2>1. PICK m \in 2 .. Len(ns) : m = ns[n].next[slot]
    BY <1>1
  <2>2. Len(path[up[m]]) < Len(path[m])
    BY PathBelow
  <2>3. QED
    BY <1>1, <2>1, <2>2
<1>4. Len(path[n]) \in Nat
  BY TreeBranches, BranchesAre
<1>5. ns[n].next[slot] # n
  BY <1>3, <1>4
<1>6. QED
  BY <1>1, <1>2, <1>5

LEMMA BetweenTree ==
    ASSUME NEW ns, NEW path, NEW up, Tree(ns, path, up),
           NEW n \in 1 .. Len(ns), NEW slot \in DOMAIN ns[n].next,
           NEW j \in 1 .. Len(ns[ns[n].next[slot]].offset) - 1
    PROVE  Tree(WithBetween(ns, n, slot, j),
                PathPlus(path, Len(ns) + 1,
                         path[n] \o SubSeq(ns[ns[n].next[slot]].offset, 1, j)),
                [UpPlus(up, Len(ns) + 1, n) EXCEPT
                    ![ns[n].next[slot]] = Len(ns) + 1])
<1> DEFINE new == WithBetween(ns, n, slot, j)
           mid == Len(ns) + 1
           moving == ns[n].next[slot]
           offset == ns[moving].offset
           kept == SubSeq(offset, 1, j)
           left == From(offset, j + 1)
           moved == Slot(offset[j + 1])
           newPath == PathPlus(path, mid, path[n] \o kept)
           morePlus == UpPlus(up, mid, n)
           newUp == [morePlus EXCEPT ![moving] = mid]
<1>1. /\ ns \in Seq(NodeSet) /\ Len(ns) \in Nat \ {0}
      /\ path \in [1 .. Len(ns) -> Seq(Codes)] /\ path[1] = <<>>
      /\ up \in [2 .. Len(ns) -> 1 .. Len(ns)]
      /\ path[n] \in Seq(Codes)
  BY TreeIs DEF Tree
<1>2. /\ moving \in 2 .. Len(ns) /\ moving \in 1 .. Len(ns) /\ moving # n
      /\ up[moving] = n /\ Slot(offset[1]) = slot
  BY ChildIs
<1>3. offset \in Seq(Codes) /\ path[moving] = path[n] \o offset
  <2>1. offset \in Seq(Codes)
    BY <1>2, TreeIs
  <2>2. path[moving] = path[n] \o offset
    BY <1>2 DEF Tree
  <2>3. QED
    BY <2>1, <2>2
<1>4. /\ new \in Seq(NodeSet) /\ Len(new) = mid
      /\ \A x \in 1 .. Len(ns) \ {moving} : new[x].offset = ns[x].offset
      /\ new[moving].offset = left
      /\ \A x \in 1 .. Len(ns) \ {n} : new[x].next = ns[x].next
      /\ DOMAIN new[n].next = DOMAIN ns[n].next
      /\ new[n].next[slot] = mid
      /\ \A x \in DOMAIN ns[n].next \ {slot} : new[n].next[x] = ns[n].next[x]
      /\ DOMAIN new[mid].next = {moved}
      /\ new[mid].next[moved] = moving
      /\ new[mid].offset = kept
  <2>1. IsBetween(new, ns, n, slot, moving, offset, j, mid)
    BY <1>1, <1>2, BetweenIs
  <2> HIDE DEF new, mid, moving, offset
  <2>2. QED
    BY <2>1 DEF IsBetween
<1>5. /\ kept \in Seq(Codes) /\ kept # <<>> /\ kept[1] = offset[1]
      /\ left # <<>> /\ left[1] = offset[j + 1]
      /\ path[n] \o offset = (path[n] \o kept) \o left
  <2>1. PICK p \in Seq(Codes) : p = path[n]
    BY <1>1
  <2> HIDE DEF offset
  <2>2. PICK o \in Seq(Codes) : o = offset /\ j \in 1 .. Len(o) - 1
    BY <1>3 DEF offset
  <2>3. AreParts(p, o, j, SubSeq(o, 1, j), From(o, j + 1))
    BY <2>2, PartsIs
  <2>4. AreParts(path[n], offset, j, kept, left)
    BY <2>1, <2>2, <2>3
  <2> HIDE DEF kept, left
  <2>5. QED
    BY <2>4 DEF AreParts
<1>6. path[n] \o kept \in Seq(Codes)
  BY <1>1, <1>5, ConcatIs
<1>7. /\ newPath \in [1 .. mid -> Seq(Codes)] /\ newPath[1] = <<>>
      /\ newPath[mid] = path[n] \o kept
      /\ \A x \in 1 .. Len(ns) : newPath[x] = path[x]
  <2>1. PICK N \in Nat \ {0} : N = Len(ns)
    BY <1>1
  <2>2. path \in [1 .. N -> Seq(Codes)] /\ path[1] = <<>>
    BY <1>1, <2>1
  <2>3. PICK s \in Seq(Codes) : s = path[n] \o kept
    BY <1>6
  <2>4. IsPathPlus(PathPlus(path, N + 1, s), path, N, s)
    BY <2>2, PathPlusIs
  <2>5. mid = N + 1 /\ newPath = PathPlus(path, N + 1, s)
    BY <2>1, <2>3
  <2> HIDE DEF newPath
  <2>6. QED
    BY <2>1, <2>3, <2>4, <2>5 DEF IsPathPlus
<1>8. /\ mid \in Nat /\ mid # 0 /\ mid \in 2 .. mid /\ mid \notin 1 .. Len(ns)
      /\ \A x \in 2 .. mid : x = mid \/ x \in 2 .. Len(ns)
      /\ \A x \in 1 .. mid : x = mid \/ x \in 1 .. Len(ns)
      /\ \A x \in 2 .. Len(ns) : x \in 2 .. mid /\ x # mid
  <2>1. PICK N \in Nat \ {0} : N = Len(ns)
    BY <1>1
  <2>2. mid = N + 1
    BY <2>1
  <2> HIDE DEF mid
  <2>3. QED
    BY <2>1, <2>2
<1>9. /\ newUp \in [2 .. mid -> 1 .. mid] /\ newUp[mid] = n /\ newUp[moving] = mid
      /\ \A x \in 2 .. Len(ns) : x # moving => newUp[x] = up[x]
  <2>1. PICK N \in Nat \ {0} : N = Len(ns)
    BY <1>1
  <2>2. up \in [2 .. N -> 1 .. N] /\ n \in 1 .. N
    BY <1>1, <2>1
  <2>3. LET more == UpPlus(up, N + 1, n) IN
        /\ more \in [2 .. N + 1 -> 1 .. N + 1] /\ more[N + 1] = n
        /\ \A x \in 2 .. N : more[x] = up[x]
    <3>1. IsUpPlus(UpPlus(up, N + 1, n), up, N, n)
      BY <2>2, UpPlusIs
    <3>2. QED
      BY <3>1 DEF IsUpPlus
  <2>4. /\ morePlus \in [2 .. mid -> 1 .. mid] /\ morePlus[mid] = n
        /\ \A x \in 2 .. Len(ns) : morePlus[x] = up[x]
    BY <2>1, <2>3
  <2> HIDE DEF morePlus, mid
  <2>5. mid \in 1 .. mid /\ moving # mid /\ moving \in 2 .. mid
    BY <1>2, <1>8
  <2>6. QED
    BY <2>4, <2>5, <1>8
<1> HIDE DEF new, newPath, newUp, morePlus, mid, moving, offset, kept, left, moved
<1>10. ASSUME NEW x \in 2 .. mid
      PROVE  /\ new[x].offset # <<>>
             /\ Slot(new[x].offset[1]) \in DOMAIN new[newUp[x]].next
             /\ new[newUp[x]].next[Slot(new[x].offset[1])] = x
             /\ newPath[x] = newPath[newUp[x]] \o new[x].offset
  <2>1. CASE x = mid
    <3>1. new[x].offset = kept /\ Slot(new[x].offset[1]) = slot
      BY <1>2, <1>4, <1>5, <2>1
    <3>2. newUp[x] = n /\ newPath[n] = path[n]
      BY <1>7, <1>9, <2>1
    <3>3. slot \in DOMAIN new[n].next /\ new[n].next[slot] = x
      BY <1>4, <2>1
    <3>4. QED
      BY <1>5, <1>7, <2>1, <3>1, <3>2, <3>3
  <2>2. CASE x = moving
    <3>1. new[x].offset = left /\ Slot(new[x].offset[1]) = moved
      BY <1>4, <1>5, <2>2 DEF moved
    <3>2. newUp[x] = mid /\ newPath[x] = path[n] \o offset
      BY <1>2, <1>3, <1>7, <1>9, <2>2
    <3>3. moved \in DOMAIN new[mid].next /\ new[mid].next[moved] = x
      BY <1>4, <2>2
    <3>4. QED
      BY <1>5, <1>7, <2>2, <3>1, <3>2, <3>3
  <2>3. CASE x \in 2 .. Len(ns) /\ x # moving
    <3>1. /\ up[x] \in 1 .. Len(ns) /\ x \in 1 .. Len(ns)
          /\ ns[x].offset # <<>>
          /\ Slot(ns[x].offset[1]) \in DOMAIN ns[up[x]].next
          /\ ns[up[x]].next[Slot(ns[x].offset[1])] = x
      BY <2>3, BelowIs
    <3>2. path[x] = path[up[x]] \o ns[x].offset
      BY <2>3 DEF Tree
    <3>3. /\ new[x].offset = ns[x].offset /\ newUp[x] = up[x]
          /\ newPath[x] = path[x] /\ newPath[up[x]] = path[up[x]]
      BY <1>4, <1>7, <1>9, <2>3, <3>1
    <3>4. /\ Slot(ns[x].offset[1]) \in DOMAIN new[up[x]].next
          /\ new[up[x]].next[Slot(ns[x].offset[1])] = x
      <4>1. CASE up[x] = n
        <5>1. Slot(ns[x].offset[1]) # slot
          BY <2>3, <3>1, <4>1 DEF moving
        <5>2. QED
          BY <1>4, <3>1, <4>1, <5>1
      <4>2. CASE up[x] # n
        BY <1>4, <3>1, <4>2
      <4>3. QED
        BY <4>1, <4>2
    <3>5. QED
      BY <3>1, <3>2, <3>3, <3>4
  <2>4. QED
    BY <1>8, <2>1, <2>2, <2>3
<1>11. ASSUME NEW x \in 1 .. mid, NEW y \in DOMAIN new[x].next
      PROVE  /\ new[x].next[y] \in 2 .. mid
             /\ newUp[new[x].next[y]] = x
             /\ Slot(new[new[x].next[y]].offset[1]) = y
  <2>1. CASE x = mid
    <3>1. y = moved /\ new[x].next[y] = moving
      BY <1>4, <2>1
    <3>2. moving \in 2 .. mid /\ newUp[moving] = x
      BY <1>2, <1>8, <1>9, <2>1
    <3>3. Slot(new[moving].offset[1]) = moved
      BY <1>4, <1>5 DEF moved
    <3>4. QED
      BY <3>1, <3>2, <3>3
  <2>2. CASE x = n /\ y = slot
    <3>1. new[x].next[y] = mid
      BY <1>4, <2>2
    <3>2. Slot(new[mid].offset[1]) = slot
      BY <1>2, <1>4, <1>5
    <3>3. QED
      BY <1>8, <1>9, <2>2, <3>1, <3>2
  <2>3. CASE x \in 1 .. Len(ns) /\ ~ (x = n /\ y = slot)
    <3>1. y \in DOMAIN ns[x].next /\ new[x].next[y] = ns[x].next[y]
      BY <1>4, <2>3
    <3>2. /\ ns[x].next[y] \in 2 .. Len(ns) /\ ns[x].next[y] \in 1 .. Len(ns)
          /\ up[ns[x].next[y]] = x /\ Slot(ns[ns[x].next[y]].offset[1]) = y
      BY <2>3, <3>1, ChildIs
    <3>3. ns[x].next[y] # moving
      BY <1>2, <2>3, <3>2 DEF offset
    <3>4. new[ns[x].next[y]].offset = ns[ns[x].next[y]].offset
      BY <1>4, <3>2, <3>3
    <3>5. ns[x].next[y] \in 2 .. mid /\ newUp[ns[x].next[y]] = x
      BY <1>8, <1>9, <3>2, <3>3
    <3>6. QED
      BY <3>1, <3>2, <3>4, <3>5
  <2>4. QED
    BY <1>8, <2>1, <2>2, <2>3
<1>12. Links(new, newUp)
  BY <1>4, <1>10, <1>11 DEF Links
<1>13. Tree(new, newPath, newUp)
  BY <1>4, <1>7, <1>8, <1>9, <1>10, <1>12 DEF Tree
<1>14. QED
  BY <1>13 DEF new, newPath, newUp, morePlus, mid, moving, offset, kept

-----------------------------------------------------------------------------
(* The values at the nodes *)

\* A value has the length, the first character and, but for case, the characters
\* of the string that leads to its node.
IsSpelling(v, p) == Len(v) = Len(p) /\ Alike(p, v) /\ v[1] = p[1]

Spells(ns, path) ==
    \A n \in 1 .. Len(ns) : \A i \in 1 .. Len(ns[n].data) :
        IsSpelling(ns[n].data[i], path[n])

LEMMA OneValueMore ==
    ASSUME NEW data \in Seq(Keys), NEW key \in Keys
    PROVE  /\ Append(data, key) \in Seq(Keys)
           /\ Len(Append(data, key)) = Len(data) + 1
           /\ \A i \in 1 .. Len(data) + 1 :
                \/ i \in 1 .. Len(data) /\ Append(data, key)[i] = data[i]
                \/ i = Len(data) + 1 /\ Append(data, key)[i] = key
OBVIOUS

LEMMA ValueSpells ==
    ASSUME NEW ns, NEW path, NEW up, Tree(ns, path, up), Spells(ns, path),
           NEW n \in 1 .. Len(ns), NEW key \in Keys, IsSpelling(key, path[n])
    PROVE  Spells(WithValue(ns, n, key), path)
<1> DEFINE new == WithValue(ns, n, key)
<1>1. ns \in Seq(NodeSet)
  BY DEF Tree
<1>2. /\ Len(new) = Len(ns)
      /\ \A x \in 1 .. Len(ns) \ {n} : new[x].data = ns[x].data
      /\ new[n].data = Append(ns[n].data, key)
  BY <1>1, ValueIs
<1> HIDE DEF new
<1>3. ASSUME NEW x \in 1 .. Len(new), NEW i \in 1 .. Len(new[x].data)
      PROVE  IsSpelling(new[x].data[i], path[x])
  <2>1. CASE x # n
    BY <1>2, <2>1 DEF Spells
  <2>2. CASE x = n
    <3>1. PICK data \in Seq(Keys) : data = ns[n].data
      BY TreeIs
    <3>2. new[x].data = Append(data, key)
      BY <1>2, <2>2, <3>1
    <3>3. i \in 1 .. Len(data) + 1
      BY <3>1, <3>2, OneValueMore
    <3>4. \/ i \in 1 .. Len(data) /\ Append(data, key)[i] = data[i]
          \/ i = Len(data) + 1 /\ Append(data, key)[i] = key
      BY <3>3, OneValueMore
    <3>5. QED
      BY <2>2, <3>1, <3>2, <3>4 DEF Spells
  <2>3. QED
    BY <2>1, <2>2
<1>4. Spells(new, path)
  BY <1>3 DEF Spells
<1>5. QED
  BY <1>4 DEF new

LEMMA LeafSpells ==
    ASSUME NEW ns, NEW path, NEW up, Tree(ns, path, up), Spells(ns, path),
           NEW n \in 1 .. Len(ns), NEW key \in Keys,
           NEW rest \in Seq(Codes) \ {<<>>}, NEW s, IsSpelling(key, s)
    PROVE  Spells(WithLeaf(ns, n, rest, key), PathPlus(path, Len(ns) + 1, s))
<1> DEFINE new == WithLeaf(ns, n, rest, key)
           leaf == Len(ns) + 1
           newPath == PathPlus(path, leaf, s)
<1>1. ns \in Seq(NodeSet) /\ Len(ns) \in Nat
  BY TreeIs DEF Tree
<1>2. /\ Len(new) = leaf
      /\ \A x \in 1 .. Len(ns) : new[x].data = ns[x].data
      /\ new[leaf].data = <<key>>
  BY <1>1, LeafIs
<1>3. \A x \in 1 .. leaf : \/ x = leaf /\ newPath[x] = s
                           \/ x \in 1 .. Len(ns) /\ newPath[x] = path[x]
  BY <1>1 DEF PathPlus
<1> HIDE DEF new, newPath, leaf
<1>4. ASSUME NEW x \in 1 .. leaf, NEW i \in 1 .. Len(new[x].data)
      PROVE  IsSpelling(new[x].data[i], newPath[x])
  <2>1. CASE x = leaf /\ newPath[x] = s
    <3>1. new[x].data = <<key>>
      BY <1>2, <2>1
    <3>2. i = 1 /\ new[x].data[i] = key
      BY <3>1
    <3>3. QED
      BY <2>1, <3>2
  <2>2. CASE x \in 1 .. Len(ns) /\ newPath[x] = path[x]
    BY <1>2, <2>2 DEF Spells
  <2>3. QED
    BY <1>3, <2>1, <2>2
<1>5. Spells(new, newPath)
  BY <1>2, <1>4 DEF Spells
<1>6. QED
  BY <1>5 DEF new, newPath, leaf

LEMMA BetweenSpells ==
    ASSUME NEW ns, NEW path, NEW up, Tree(ns, path, up), Spells(ns, path),
           NEW n \in 1 .. Len(ns), NEW slot \in DOMAIN ns[n].next,
           NEW j \in 1 .. Len(ns[ns[n].next[slot]].offset) - 1, NEW s
    PROVE  Spells(WithBetween(ns, n, slot, j), PathPlus(path, Len(ns) + 1, s))
<1> DEFINE new == WithBetween(ns, n, slot, j)
           mid == Len(ns) + 1
           newPath == PathPlus(path, mid, s)
<1>1. ns \in Seq(NodeSet) /\ Len(ns) \in Nat
  BY TreeIs DEF Tree
<1>2. /\ Len(new) = mid
      /\ \A x \in 1 .. Len(ns) : new[x].data = ns[x].data
      /\ new[mid].data = <<>>
  <2>1. IsBetween(new, ns, n, slot, ns[n].next[slot],
                  ns[ns[n].next[slot]].offset, j, mid)
    BY <1>1, ChildIs, BetweenIs
  <2> HIDE DEF new, mid
  <2>2. QED
    BY <2>1 DEF IsBetween
<1>3. \A x \in 1 .. mid : \/ x = mid
                          \/ x \in 1 .. Len(ns) /\ newPath[x] = path[x]
  BY <1>1 DEF PathPlus
<1> HIDE DEF new, newPath, mid
<1>4. ASSUME NEW x \in 1 .. mid, NEW i \in 1 .. Len(new[x].data)
      PROVE  IsSpelling(new[x].data[i], newPath[x])
  <2>1. CASE x = mid
    BY <1>2, <2>1
  <2>2. CASE x \in 1 .. Len(ns) /\ newPath[x] = path[x]
    BY <1>2, <2>2 DEF Spells
  <2>3. QED
    BY <1>3, <2>1, <2>2
<1>5. Spells(new, newPath)
  BY <1>2, <1>4 DEF Spells
<1>6. QED
  BY <1>5 DEF new, newPath, mid

\* How often a key is in a sequence that grows.
LEMMA TimesIs ==
    ASSUME NEW S, NEW s \in Seq(S), NEW key
    PROVE  /\ Times(key, s) \in Nat
           /\ Times(key, s) = 0 <=> key \notin Range(s)
<1> DEFINE found == {i \in DOMAIN s : s[i] = key}
<1>1. DOMAIN s = 1 .. Len(s) /\ Len(s) \in Nat
  OBVIOUS
<1>2. IsFiniteSet(found)
  <2>1. IsFiniteSet(1 .. Len(s))
    BY <1>1, FS_Interval
  <2>2. found \subseteq 1 .. Len(s)
    BY <1>1
  <2>3. QED
    BY <2>1, <2>2, FS_Subset
<1>3. Cardinality(found) \in Nat /\ (Cardinality(found) = 0 <=> found = {})
  BY <1>2, FS_CardinalityType, FS_EmptySet
<1>4. found = {} <=> key \notin Range(s)
  BY DEF Range
<1>5. QED
  BY <1>3, <1>4 DEF Times

LEMMA TimesMore ==
    ASSUME NEW S, NEW s \in Seq(S), NEW last \in S, NEW key
    PROVE  /\ Range(Append(s, last)) = Range(s) \cup {last}
           /\ key = last => Times(key, Append(s, last)) = Times(key, s) + 1
           /\ key # last => Times(key, Append(s, last)) = Times(key, s)
<1> DEFINE more == Append(s, last)
           found == {i \in DOMAIN s : s[i] = key}
           foundMore == {i \in DOMAIN more : more[i] = key}
           N == Len(s)
<1>1. /\ DOMAIN s = 1 .. N /\ N \in Nat
      /\ DOMAIN more = 1 .. N + 1
      /\ more[N + 1] = last /\ \A i \in 1 .. N : more[i] = s[i]
  OBVIOUS
<1> HIDE DEF more, N
<1>2. \A i \in 1 .. N + 1 : i = N + 1 \/ i \in 1 .. N
  BY <1>1
<1>3. /\ N + 1 \in 1 .. N + 1 /\ N + 1 \notin 1 .. N
      /\ \A i \in 1 .. N : i \in 1 .. N + 1
  BY <1>1
<1>4. Range(more) = Range(s) \cup {last}
  BY <1>1, <1>2, <1>3 DEF Range
<1>5. IsFiniteSet(found)
  <2>1. IsFiniteSet(1 .. N)
    BY <1>1, FS_Interval
  <2>2. found \subseteq 1 .. N
    BY <1>1
  <2>3. QED
    BY <2>1, <2>2, FS_Subset
<1>6. ASSUME key = last
      PROVE  Times(key, more) = Times(key, s) + 1
  <2>1. foundMore = found \cup {N + 1} /\ N + 1 \notin found
    BY <1>1, <1>2, <1>3, <1>6
  <2>2. Cardinality(foundMore) = Cardinality(found) + 1
    BY <1>5, <2>1, FS_AddElement
  <2>3. QED
    BY <2>2 DEF Times
<1>7. ASSUME key # last
      PROVE  Times(key, more) = Times(key, s)
  <2>1. foundMore = found
    BY <1>1, <1>2, <1>3, <1>7
  <2>2. QED
    BY <2>1 DEF Times
<1>8. QED
  BY <1>4, <1>6, <1>7 DEF more

Copies(k, key) == [i \in 1 .. k |-> key]

LEMMA CopiesAre ==
    ASSUME NEW S, NEW k \in Nat, NEW key \in S
    PROVE  /\ Copies(k, key) \in Seq(S) /\ Len(Copies(k, key)) = k
           /\ \A i \in 1 .. k : Copies(k, key)[i] = key
           /\ Copies(0, key) = <<>> /\ Copies(1, key) = <<key>>
           /\ Append(Copies(k, key), key) = Copies(k + 1, key)
<1>1. /\ Copies(k, key) \in Seq(S) /\ Len(Copies(k, key)) = k
      /\ \A i \in 1 .. k : Copies(k, key)[i] = key
  BY DEF Copies
<1>2. Copies(0, key) = <<>> /\ Copies(1, key) = <<key>>
  BY DEF Copies
<1>3. Append(Copies(k, key), key) = Copies(k + 1, key)
  <2>1. PICK c \in Seq(S) : c = Copies(k, key)
    BY <1>1
  <2>2. /\ Append(c, key) \in Seq(S) /\ Len(Append(c, key)) = k + 1
        /\ \A i \in 1 .. k + 1 : Append(c, key)[i] = key
    BY <1>1, <2>1
  <2>3. /\ Copies(k + 1, key) \in Seq(S) /\ Len(Copies(k + 1, key)) = k + 1
        /\ \A i \in 1 .. k + 1 : Copies(k + 1, key)[i] = key
    BY DEF Copies
  <2>4. QED
    BY <2>1, <2>2, <2>3, SameString
<1>4. QED
  BY <1>1, <1>2, <1>3

\* Every value is the string that leads to its node, every key leads to one, and
\* every node is on the way to a key.
Exact(ns, path, lg) ==
    /\ lg \in Seq(Keys)
    /\ \A n \in 1 .. Len(ns) :
         ns[n].data = Copies(Times(path[n], lg), path[n])
    /\ \A n \in 2 .. Len(ns) : \E t \in Range(lg) : Begins(path[n], t)
    /\ \A t \in Range(lg) : \E n \in 1 .. Len(ns) : path[n] = t

LEMMA ValueExact ==
    ASSUME NEW ns, NEW path, NEW up, Tree(ns, path, up),
           NEW lg, Exact(ns, path, lg),
           NEW n \in 1 .. Len(ns), NEW key \in Keys, path[n] = key
    PROVE  Exact(WithValue(ns, n, key), path, Append(lg, key))
<1> DEFINE new == WithValue(ns, n, key)
           more == Append(lg, key)
<1>0. ns \in Seq(NodeSet) /\ lg \in Seq(Keys)
  BY DEF Tree, Exact
<1>1. /\ Len(new) = Len(ns)
      /\ \A x \in 1 .. Len(ns) \ {n} : new[x].data = ns[x].data
      /\ new[n].data = Append(ns[n].data, key)
  BY <1>0, ValueIs, ZenonT(40)
<1>2. /\ more \in Seq(Keys) /\ Range(more) = Range(lg) \cup {key}
      /\ Times(key, more) = Times(key, lg) + 1
      /\ \A other : other # key => Times(other, more) = Times(other, lg)
  BY <1>0, TimesMore
<1> HIDE DEF new, more
<1>3. ASSUME NEW x \in 1 .. Len(ns)
      PROVE  new[x].data = Copies(Times(path[x], more), path[x])
  <2>1. CASE x = n
    <3>1. PICK k \in Nat : k = Times(key, lg)
      BY <1>0, TimesIs
    <3>2. ns[n].data = Copies(k, key)
      BY <3>1 DEF Exact
    <3>3. Append(Copies(k, key), key) = Copies(k + 1, key)
      BY CopiesAre
    <3>4. QED
      BY <1>1, <1>2, <2>1, <3>1, <3>2, <3>3
  <2>2. CASE x # n
    <3>1. path[x] # key
      BY <2>2, TreeBranches, PathsDiffer
    <3>2. Times(path[x], more) = Times(path[x], lg)
      BY <1>2, <3>1
    <3>3. QED
      BY <1>1, <2>2, <3>2 DEF Exact
  <2>3. QED
    BY <2>1, <2>2
<1>4. \A x \in 2 .. Len(ns) : \E t \in Range(more) : Begins(path[x], t)
  BY <1>2 DEF Exact
<1>5. \A t \in Range(more) : \E x \in 1 .. Len(ns) : path[x] = t
  BY <1>2 DEF Exact
<1>6. Exact(new, path, more)
  BY <1>1, <1>2, <1>3, <1>4, <1>5 DEF Exact
<1>7. QED
  BY <1>6 DEF new, more

LEMMA LeafExact ==
    ASSUME NEW ns, NEW path, NEW up, Tree(ns, path, up),
           NEW lg, Exact(ns, path, lg),
           NEW n \in 1 .. Len(ns), NEW key \in Keys,
           NEW rest \in Seq(Codes) \ {<<>>},
           \A x \in 1 .. Len(ns) : path[x] # key
    PROVE  Exact(WithLeaf(ns, n, rest, key), PathPlus(path, Len(ns) + 1, key),
                 Append(lg, key))
<1> DEFINE new == WithLeaf(ns, n, rest, key)
           leaf == Len(ns) + 1
           newPath == PathPlus(path, leaf, key)
           more == Append(lg, key)
<1>0. ns \in Seq(NodeSet) /\ lg \in Seq(Keys) /\ Len(ns) \in Nat
  BY TreeIs DEF Tree, Exact
<1>1. /\ Len(new) = leaf
      /\ \A x \in 1 .. Len(ns) : new[x].data = ns[x].data
      /\ new[leaf].data = <<key>>
  BY <1>0, LeafIs
<1>2. /\ more \in Seq(Keys) /\ Range(more) = Range(lg) \cup {key}
      /\ Times(key, more) = Times(key, lg) + 1
      /\ \A other : other # key => Times(other, more) = Times(other, lg)
  BY <1>0, TimesMore
<1>3. /\ \A x \in 1 .. leaf : x = leaf \/ x \in 1 .. Len(ns)
      /\ \A x \in 2 .. leaf : x = leaf \/ x \in 2 .. Len(ns)
      /\ leaf \in 1 .. leaf /\ \A x \in 1 .. Len(ns) : x \in 1 .. leaf
      /\ newPath[leaf] = key
      /\ \A x \in 1 .. Len(ns) : newPath[x] = path[x]
  <2>1. PICK N \in Nat : N = Len(ns)
    BY <1>0
  <2>2. leaf = N + 1
    BY <2>1
  <2> HIDE DEF leaf
  <2>3. QED
    BY <2>1, <2>2 DEF PathPlus
<1>4. Times(key, lg) = 0
  <2>1. key \notin Range(lg)
    BY DEF Exact
  <2>2. QED
    BY <1>0, <2>1, TimesIs
<1>5. Begins(key, key)
  <2>1. key \in Seq(Codes)
    BY KeysAreCodes
  <2>2. QED
    BY <2>1 DEF Begins
<1> HIDE DEF new, newPath, leaf, more
<1>6. ASSUME NEW x \in 1 .. leaf
      PROVE  new[x].data = Copies(Times(newPath[x], more), newPath[x])
  <2>1. CASE x = leaf
    <3>1. Times(key, more) = 1
      BY <1>2, <1>4
    <3>2. Copies(1, key) = <<key>>
      BY CopiesAre
    <3>3. QED
      BY <1>1, <1>3, <2>1, <3>1, <3>2
  <2>2. CASE x \in 1 .. Len(ns)
    <3>1. newPath[x] = path[x] /\ path[x] # key
      BY <1>3, <2>2
    <3>2. Times(path[x], more) = Times(path[x], lg)
      BY <1>2, <3>1
    <3>3. QED
      BY <1>1, <2>2, <3>1, <3>2 DEF Exact
  <2>3. QED
    BY <1>3, <2>1, <2>2
<1>7. ASSUME NEW x \in 2 .. leaf
      PROVE  \E t \in Range(more) : Begins(newPath[x], t)
  <2>1. CASE x = leaf
    BY <1>2, <1>3, <1>5, <2>1
  <2>2. CASE x \in 2 .. Len(ns)
    <3>1. newPath[x] = path[x]
      <4>1. x \in 1 .. Len(ns)
        BY <1>0, <2>2
      <4>2. QED
        BY <1>3, <4>1
    <3>2. QED
      BY <1>2, <2>2, <3>1 DEF Exact
  <2>3. QED
    BY <1>3, <2>1, <2>2
<1>8. ASSUME NEW t \in Range(more)
      PROVE  \E x \in 1 .. leaf : newPath[x] = t
  <2>1. CASE t = key
    BY <1>3, <2>1
  <2>2. CASE t \in Range(lg)
    <3>1. PICK x \in 1 .. Len(ns) : path[x] = t
      BY <2>2 DEF Exact
    <3>2. QED
      BY <1>3, <3>1
  <2>3. QED
    BY <1>2, <2>1, <2>2
<1>9. Exact(new, newPath, more)
  BY <1>1, <1>2, <1>6, <1>7, <1>8 DEF Exact
<1>10. QED
  BY <1>9 DEF new, newPath, leaf, more

LEMMA BetweenExact ==
    ASSUME NEW ns, NEW path, NEW up, Tree(ns, path, up),
           NEW lg, Exact(ns, path, lg),
           NEW n \in 1 .. Len(ns), NEW slot \in DOMAIN ns[n].next,
           NEW j \in 1 .. Len(ns[ns[n].next[slot]].offset) - 1,
           NEW s \in Seq(Codes), Begins(s, path[ns[n].next[slot]]),
           \A x \in 1 .. Len(ns) : path[x] # s
    PROVE  Exact(WithBetween(ns, n, slot, j), PathPlus(path, Len(ns) + 1, s), lg)
<1> DEFINE new == WithBetween(ns, n, slot, j)
           mid == Len(ns) + 1
           newPath == PathPlus(path, mid, s)
<1>0. ns \in Seq(NodeSet) /\ lg \in Seq(Keys) /\ Len(ns) \in Nat
  BY TreeIs DEF Tree, Exact
<1>1. /\ Len(new) = mid
      /\ \A x \in 1 .. Len(ns) : new[x].data = ns[x].data
      /\ new[mid].data = <<>>
  <2>1. IsBetween(new, ns, n, slot, ns[n].next[slot],
                  ns[ns[n].next[slot]].offset, j, mid)
    BY <1>0, ChildIs, BetweenIs
  <2> HIDE DEF new, mid
  <2>2. QED
    BY <2>1 DEF IsBetween
<1>2. /\ \A x \in 1 .. mid : x = mid \/ x \in 1 .. Len(ns)
      /\ \A x \in 2 .. mid : x = mid \/ x \in 2 .. Len(ns)
      /\ \A x \in 1 .. Len(ns) : x \in 1 .. mid
      /\ newPath[mid] = s
      /\ \A x \in 1 .. Len(ns) : newPath[x] = path[x]
  <2>1. PICK N \in Nat : N = Len(ns)
    BY <1>0
  <2>2. mid = N + 1
    BY <2>1
  <2> HIDE DEF mid
  <2>3. /\ \A x \in 1 .. mid : x = mid \/ x \in 1 .. Len(ns)
        /\ \A x \in 2 .. mid : x = mid \/ x \in 2 .. Len(ns)
        /\ \A x \in 1 .. Len(ns) : x \in 1 .. mid /\ x # mid
        /\ mid \in 1 .. mid
    BY <2>1, <2>2
  <2>4. newPath = [x \in 1 .. mid |-> IF x = mid THEN s ELSE path[x]]
    BY DEF PathPlus
  <2> HIDE DEF newPath
  <2>5. newPath[mid] = s /\ \A x \in 1 .. Len(ns) : newPath[x] = path[x]
    BY <2>3, <2>4, Zenon
  <2>6. QED
    BY <2>3, <2>5
<1>3. s \notin Range(lg)
  BY DEF Exact
<1>4. Copies(Times(s, lg), s) = <<>>
  <2>1. Times(s, lg) = 0
    BY <1>0, <1>3, TimesIs
  <2>2. QED
    BY <2>1, CopiesAre
<1>5. \E t \in Range(lg) : Begins(s, t)
  <2>1. PICK m \in 2 .. Len(ns) : m = ns[n].next[slot]
    BY ChildIs
  <2>2. PICK t \in Range(lg) : Begins(path[m], t)
    BY <2>1 DEF Exact
  <2>3. path[m] \in Seq(Codes) /\ t \in Seq(Codes)
    <3>1. t \in Keys
      BY <1>0 DEF Range
    <3>2. m \in 1 .. Len(ns)
      BY <2>1, ChildIs
    <3>3. QED
      BY <3>1, <3>2, KeysAreCodes, TreeIs
  <2>4. QED
    BY <2>1, <2>2, <2>3, BeginsTwice
<1> HIDE DEF new, newPath, mid
<1>6. ASSUME NEW x \in 1 .. mid
      PROVE  new[x].data = Copies(Times(newPath[x], lg), newPath[x])
  <2>1. CASE x = mid
    BY <1>1, <1>2, <1>4, <2>1
  <2>2. CASE x \in 1 .. Len(ns)
    BY <1>1, <1>2, <2>2 DEF Exact
  <2>3. QED
    BY <1>2, <2>1, <2>2
<1>7. ASSUME NEW x \in 2 .. mid
      PROVE  \E t \in Range(lg) : Begins(newPath[x], t)
  <2>1. CASE x = mid
    BY <1>2, <1>5, <2>1
  <2>2. CASE x \in 2 .. Len(ns)
    <3>1. newPath[x] = path[x]
      <4>1. x \in 1 .. Len(ns)
        BY <1>0, <2>2
      <4>2. QED
        BY <1>2, <4>1
    <3>2. QED
      BY <2>2, <3>1 DEF Exact
  <2>3. QED
    BY <1>2, <2>1, <2>2
<1>8. ASSUME NEW t \in Range(lg)
      PROVE  \E x \in 1 .. mid : newPath[x] = t
  <2>1. PICK x \in 1 .. Len(ns) : path[x] = t
    BY DEF Exact
  <2>2. QED
    BY <1>2, <2>1
<1>9. Exact(new, newPath, lg)
  BY <1>0, <1>1, <1>6, <1>7, <1>8 DEF Exact
<1>10. QED
  BY <1>9 DEF new, newPath, mid

\* There is no node yet for a string with which the table of a node goes on to
\* none that begins it.
NoWay(ns, path, up, n, s) ==
    \A c \in 2 .. Len(ns) :
        up[c] = n /\ ns[c].offset[1] = After(path[n], s) => ~ Begins(path[c], s)

LEMMA NoNode ==
    ASSUME NEW ns, NEW path, NEW up, Tree(ns, path, up),
           NEW n \in 1 .. Len(ns), NEW s \in Seq(Codes),
           Begins(path[n], s), Len(path[n]) < Len(s), NoWay(ns, path, up, n, s)
    PROVE  \A x \in 1 .. Len(ns) : path[x] # s
<1> SUFFICES ASSUME NEW x \in 1 .. Len(ns), path[x] = s PROVE FALSE
  OBVIOUS
<1>1. Branches(Len(ns), path, up)
  BY TreeBranches
<1>2. n # x
  BY TreeIs
<1>3. PICK c \in 2 .. Len(ns) : up[c] = n /\ Begins(path[c], s)
  BY <1>1, <1>2, WayDown
<1>4. After(path[n], path[c]) = ns[c].offset[1] /\ Len(path[n]) < Len(path[c])
  <2>1. After(path[up[c]], path[c]) = ns[c].offset[1]
    BY AfterIs
  <2>2. Len(path[up[c]]) < Len(path[c])
    BY PathBelow
  <2>3. QED
    BY <1>3, <2>1, <2>2, Zenon
<1>5. After(path[n], path[c]) = After(path[n], s)
  <2>1. c \in 1 .. Len(ns)
    BY BelowIs
  <2>2. PICK p \in Seq(Codes), q \in Seq(Codes) : p = path[n] /\ q = path[c]
    BY <2>1, TreeIs
  <2>3. Len(p) + 1 \in 1 .. Len(q)
    BY <1>4, <2>2
  <2>4. q[Len(p) + 1] = s[Len(p) + 1]
    BY <1>3, <2>2, <2>3 DEF Begins
  <2>5. QED
    BY <2>2, <2>4 DEF After
<1>6. QED
  BY <1>3, <1>4, <1>5 DEF NoWay

-----------------------------------------------------------------------------
(* How often the values are at the nodes *)

\* The places with a key among the values d of some nodes.
Spots(d, T, key) ==
    {x \in T \X Nat : x[2] \in DOMAIN d[x[1]] /\ d[x[1]][x[2]] = key}

\* The values at the nodes are those of the log, as often.
DataOf(ns) == [n \in 1 .. Len(ns) |-> ns[n].data]

IsCount(spots, k) == IsFiniteSet(spots) /\ Cardinality(spots) = k

Counted(ns, lg) ==
    \A key \in Keys : IsCount(Spots(DataOf(ns), 1 .. Len(ns), key), Times(key, lg))

\* d2 has the values of d, and one more at n.
OneMoreAt(d2, M, d, N, n, old, key) ==
    /\ N \in Nat /\ M \in Nat /\ N <= M /\ n \in 1 .. M
    /\ old \in Seq(Keys) /\ d2[n] = Append(old, key)
    /\ n \in 1 .. N => d[n] = old
    /\ n \notin 1 .. N => old = <<>>
    /\ \A x \in (1 .. M) \ {n} : x \in 1 .. N /\ d2[x] = d[x]

IsMore(more, spots, spot, key, k) ==
    /\ k # key => more = spots
    /\ k = key => more = spots \cup {spot}
    /\ spot \notin spots

LEMMA SpotsMore ==
    ASSUME NEW d2, NEW M, NEW d, NEW N, NEW n, NEW old, NEW key \in Keys,
           OneMoreAt(d2, M, d, N, n, old, key), NEW k
    PROVE  IsMore(Spots(d2, 1 .. M, k), Spots(d, 1 .. N, k), <<n, Len(old) + 1>>,
                  key, k)
<1>1. PICK L \in Nat : L = Len(old)
  BY DEF OneMoreAt
<1>2. /\ N \in Nat /\ M \in Nat /\ N <= M /\ n \in 1 .. M /\ L + 1 \in Nat
      /\ \A x \in 1 .. N : x \in 1 .. M
  BY DEF OneMoreAt
<1>3. PICK new : new = d2[n]
  OBVIOUS
<1>4. /\ DOMAIN old = 1 .. L /\ DOMAIN new = 1 .. L + 1
      /\ new[L + 1] = key /\ \A i \in 1 .. L : new[i] = old[i]
  BY <1>1, <1>3 DEF OneMoreAt
<1>5. \A x \in (1 .. M) \ {n} : x \in 1 .. N /\ d2[x] = d[x]
  BY DEF OneMoreAt
<1>6. /\ n \in 1 .. N => d[n] = old
      /\ n \notin 1 .. N => DOMAIN old = {}
  <2>1. DOMAIN <<>> = {}
    OBVIOUS
  <2>2. QED
    BY <2>1 DEF OneMoreAt
<1>7. L + 1 \notin 1 .. L /\ \A i \in 1 .. L + 1 : i \in 1 .. L \/ i = L + 1
  OBVIOUS
<1>8. <<n, L + 1>> \notin Spots(d, 1 .. N, k)
  <2>1. ASSUME <<n, L + 1>> \in Spots(d, 1 .. N, k)
        PROVE  FALSE
    <3>1. n \in 1 .. N /\ L + 1 \in DOMAIN d[n]
      BY <2>1 DEF Spots
    <3>2. QED
      BY <1>4, <1>6, <1>7, <3>1
  <2>2. QED
    BY <2>1
<1>9. ASSUME NEW x \in 1 .. M, NEW i \in Nat
      PROVE  (i \in DOMAIN d2[x] /\ d2[x][i] = k)
               <=> \/ x \in 1 .. N /\ i \in DOMAIN d[x] /\ d[x][i] = k
                   \/ x = n /\ i = L + 1 /\ k = key
  <2>1. CASE x # n
    BY <1>5, <2>1
  <2>2. CASE x = n
    <3>1. (i \in DOMAIN new /\ new[i] = k)
            <=> (i \in 1 .. L /\ old[i] = k) \/ (i = L + 1 /\ k = key)
      <4>1. L + 1 \in 1 .. L + 1 /\ \A y \in 1 .. L : y \in 1 .. L + 1
        OBVIOUS
      <4>2. QED
        BY <1>4, <1>7, <4>1
    <3>2. (i \in 1 .. L /\ old[i] = k)
            <=> (n \in 1 .. N /\ i \in DOMAIN d[n] /\ d[n][i] = k)
      <4>1. CASE n \in 1 .. N
        BY <1>4, <1>6, <4>1
      <4>2. CASE n \notin 1 .. N
        BY <1>4, <1>6, <4>2
      <4>3. QED
        BY <4>1, <4>2
    <3>3. QED
      BY <1>3, <2>2, <3>1, <3>2
  <2>3. QED
    BY <2>1, <2>2
<1>10. \A x \in (1 .. M) \X Nat :
         x \in Spots(d2, 1 .. M, k)
           <=> x \in Spots(d, 1 .. N, k) \/ (x = <<n, L + 1>> /\ k = key)
  BY <1>2, <1>9 DEF Spots
<1>11. \A x \in Spots(d, 1 .. N, k) : x \in (1 .. M) \X Nat
  BY <1>2 DEF Spots
<1>12. \A x \in Spots(d2, 1 .. M, k) : x \in (1 .. M) \X Nat
  BY DEF Spots
<1>13. <<n, L + 1>> \in (1 .. M) \X Nat
  BY <1>2
<1>14. k # key => Spots(d2, 1 .. M, k) = Spots(d, 1 .. N, k)
  BY <1>10, <1>11, <1>12
<1>15. k = key => Spots(d2, 1 .. M, k) = Spots(d, 1 .. N, k) \cup {<<n, L + 1>>}
  BY <1>10, <1>11, <1>12, <1>13
<1>16. QED
  BY <1>1, <1>8, <1>14, <1>15 DEF IsMore

LEMMA CountedMore ==
    ASSUME NEW ns, NEW lg \in Seq(Keys), Counted(ns, lg),
           NEW new, NEW n, NEW old, NEW key \in Keys,
           OneMoreAt(DataOf(new), Len(new), DataOf(ns), Len(ns), n, old, key)
    PROVE  Counted(new, Append(lg, key))
<1>1. SUFFICES ASSUME NEW k \in Keys
               PROVE  IsCount(Spots(DataOf(new), 1 .. Len(new), k),
                              Times(k, Append(lg, key)))
  BY DEF Counted
<1>2. PICK before : before = Spots(DataOf(ns), 1 .. Len(ns), k)
  OBVIOUS
<1>3. PICK after : after = Spots(DataOf(new), 1 .. Len(new), k)
  OBVIOUS
<1>4. IsFiniteSet(before) /\ Cardinality(before) = Times(k, lg)
  BY <1>2 DEF Counted, IsCount
<1>5. IsMore(after, before, <<n, Len(old) + 1>>, key, k)
  <2>1. IsMore(Spots(DataOf(new), 1 .. Len(new), k),
               Spots(DataOf(ns), 1 .. Len(ns), k), <<n, Len(old) + 1>>, key, k)
    BY SpotsMore, Zenon
  <2>2. QED
    BY <1>2, <1>3, <2>1, Zenon
<1>6. CASE k = key
  <2>1. PICK x : after = before \cup {x} /\ x \notin before
    BY <1>6, <1>5 DEF IsMore
  <2>2. IsFiniteSet(after) /\ Cardinality(after) = Cardinality(before) + 1
    BY <1>4, <2>1, FS_AddElement
  <2>3. Times(k, Append(lg, key)) = Times(k, lg) + 1
    BY <1>6, TimesMore
  <2>4. QED
    BY <1>3, <1>4, <2>2, <2>3 DEF IsCount
<1>7. CASE k # key
  <2>1. after = before
    BY <1>7, <1>5 DEF IsMore
  <2>2. Times(k, Append(lg, key)) = Times(k, lg)
    BY <1>7, TimesMore
  <2>3. QED
    BY <1>3, <1>4, <2>1, <2>2 DEF IsCount
<1>8. QED
  BY <1>6, <1>7

LEMMA ValueCounted ==
    ASSUME NEW ns, NEW path, NEW up, Tree(ns, path, up),
           NEW lg \in Seq(Keys), Counted(ns, lg),
           NEW n \in 1 .. Len(ns), NEW key \in Keys
    PROVE  Counted(WithValue(ns, n, key), Append(lg, key))
<1>1. PICK new : new = WithValue(ns, n, key)
  OBVIOUS
<1>2. ns \in Seq(NodeSet) /\ Len(ns) \in Nat
  BY TreeIs DEF Tree
<1>3. /\ Len(new) = Len(ns)
      /\ \A x \in 1 .. Len(ns) \ {n} : new[x].data = ns[x].data
      /\ new[n].data = Append(ns[n].data, key)
  BY <1>1, <1>2, ValueIs
<1>4. PICK old \in Seq(Keys) : old = ns[n].data
  BY TreeIs
<1>5. OneMoreAt(DataOf(new), Len(new), DataOf(ns), Len(ns), n, old, key)
  BY <1>2, <1>3, <1>4 DEF OneMoreAt, DataOf
<1>6. QED
  BY <1>1, <1>5, CountedMore

LEMMA LeafCounted ==
    ASSUME NEW ns, NEW path, NEW up, Tree(ns, path, up),
           NEW lg \in Seq(Keys), Counted(ns, lg),
           NEW n \in 1 .. Len(ns), NEW key \in Keys,
           NEW rest \in Seq(Codes) \ {<<>>}
    PROVE  Counted(WithLeaf(ns, n, rest, key), Append(lg, key))
<1>1. PICK new : new = WithLeaf(ns, n, rest, key)
  OBVIOUS
<1>2. ns \in Seq(NodeSet)
  BY DEF Tree
<1>3. PICK N \in Nat : N = Len(ns)
  BY TreeIs
<1>4. /\ Len(new) = N + 1
      /\ \A x \in 1 .. N : new[x].data = ns[x].data
      /\ new[N + 1].data = <<key>>
  BY <1>1, <1>2, <1>3, LeafIs
<1>5. /\ <<>> \in Seq(Keys) /\ Append(<<>>, key) = <<key>>
      /\ N + 1 \in 1 .. N + 1 /\ N + 1 \notin 1 .. N
      /\ \A x \in (1 .. N + 1) \ {N + 1} : x \in 1 .. N
      /\ N + 1 \in Nat /\ N <= N + 1
  OBVIOUS
<1>6. OneMoreAt(DataOf(new), N + 1, DataOf(ns), N, N + 1, <<>>, key)
  <2>1. \A x \in 1 .. N + 1 : DataOf(new)[x] = new[x].data
    BY <1>4 DEF DataOf
  <2>2. \A x \in 1 .. N : DataOf(ns)[x] = ns[x].data
    BY <1>3 DEF DataOf
  <2>3. \A x \in (1 .. N + 1) \ {N + 1} : x \in 1 .. N /\ DataOf(new)[x] = DataOf(ns)[x]
    BY <1>4, <1>5, <2>1, <2>2
  <2>4. DataOf(new)[N + 1] = Append(<<>>, key)
    BY <1>4, <1>5, <2>1
  <2>5. QED
    BY <1>5, <2>3, <2>4 DEF OneMoreAt
<1>7. OneMoreAt(DataOf(new), Len(new), DataOf(ns), Len(ns), N + 1, <<>>, key)
  BY <1>3, <1>4, <1>6
<1>8. QED
  BY <1>1, <1>7, CountedMore

LEMMA BetweenCounted ==
    ASSUME NEW ns, NEW path, NEW up, Tree(ns, path, up), NEW lg, Counted(ns, lg),
           NEW n \in 1 .. Len(ns), NEW slot \in DOMAIN ns[n].next,
           NEW j \in 1 .. Len(ns[ns[n].next[slot]].offset) - 1
    PROVE  Counted(WithBetween(ns, n, slot, j), lg)
<1>1. PICK new : new = WithBetween(ns, n, slot, j)
  OBVIOUS
<1>2. ns \in Seq(NodeSet)
  BY DEF Tree
<1>3. PICK N \in Nat : N = Len(ns)
  BY TreeIs
<1>4. IsBetween(new, ns, n, slot, ns[n].next[slot],
                ns[ns[n].next[slot]].offset, j, N + 1)
  BY <1>1, <1>2, <1>3, ChildIs, BetweenIs
<1>5. /\ Len(new) = N + 1
      /\ \A x \in 1 .. N : new[x].data = ns[x].data
      /\ new[N + 1].data = <<>>
  BY <1>3, <1>4 DEF IsBetween
<1>6. \A x \in 1 .. N + 1 : DataOf(new)[x] = new[x].data
  BY <1>5 DEF DataOf
<1>7. \A x \in 1 .. N : DataOf(ns)[x] = ns[x].data
  BY <1>3 DEF DataOf
<1>8. DOMAIN DataOf(new)[N + 1] = {}
  <2>1. N + 1 \in 1 .. N + 1 /\ DOMAIN <<>> = {}
    OBVIOUS
  <2>2. QED
    BY <1>5, <1>6, <2>1
<1>9. /\ \A x \in 1 .. N + 1 : x \in 1 .. N \/ x = N + 1
      /\ \A x \in 1 .. N : x \in 1 .. N + 1
  OBVIOUS
<1>10. \A x \in 1 .. N : DataOf(new)[x] = DataOf(ns)[x]
  BY <1>5, <1>6, <1>7, <1>9
<1>11. \A key : Spots(DataOf(new), 1 .. N + 1, key) = Spots(DataOf(ns), 1 .. N, key)
  <2>1. SUFFICES ASSUME NEW key
                 PROVE  Spots(DataOf(new), 1 .. N + 1, key) = Spots(DataOf(ns), 1 .. N, key)
    OBVIOUS
  <2>2. \A x \in Spots(DataOf(new), 1 .. N + 1, key) : x \in Spots(DataOf(ns), 1 .. N, key)
    BY <1>8, <1>9, <1>10 DEF Spots
  <2>3. \A x \in Spots(DataOf(ns), 1 .. N, key) : x \in Spots(DataOf(new), 1 .. N + 1, key)
    BY <1>9, <1>10 DEF Spots
  <2>4. QED
    BY <2>2, <2>3
<1>12. Counted(new, lg)
  BY <1>3, <1>5, <1>11 DEF Counted
<1>13. QED
  BY <1>1, <1>12

-----------------------------------------------------------------------------
(* The loops of append and get *)

\* A loop of as many rounds as there are characters ends where it can go no
\* further, if a round that goes on uses one at least and not after the last.
Rounds(g, N, S, step, used) ==
    /\ N \in Nat /\ g[0] \in S
    /\ \A v \in S : /\ step[v] \in S /\ used[v] \in Nat
                    /\ step[v] = v \/ (used[v] < N /\ used[v] < used[step[v]])
    /\ \A r \in 1 .. N : g[r - 1] \in S => g[r] = step[g[r - 1]]

LEMMA RunEnds ==
    ASSUME NEW g, NEW N, NEW S, NEW step, NEW used, Rounds(g, N, S, step, used)
    PROVE  g[N] \in S /\ step[g[N]] = g[N]
<1> USE DEF Rounds
<1> DEFINE Good == {r \in 0 .. N : /\ g[r] \in S
                                   /\ r <= used[g[r]] \/ step[g[r]] = g[r]}
<1>1. 0 \in Good
  OBVIOUS
<1>2. ASSUME NEW r \in 0 .. N - 1, r \in Good
      PROVE  r + 1 \in Good
  <2>1. PICK v \in S : v = g[r]
    BY <1>2
  <2>2. g[r + 1] = step[v]
    <3>1. r + 1 \in 1 .. N /\ (r + 1) - 1 = r
      OBVIOUS
    <3>2. g[(r + 1) - 1] \in S => g[r + 1] = step[g[(r + 1) - 1]]
      BY <3>1
    <3>3. QED
      BY <2>1, <3>1, <3>2
  <2>3. /\ step[v] \in S /\ used[v] \in Nat /\ used[step[v]] \in Nat
        /\ step[v] = v \/ used[v] < used[step[v]]
        /\ r <= used[v] \/ step[v] = v
    BY <1>2, <2>1
  <2>4. CASE step[v] = v
    BY <2>1, <2>2, <2>3, <2>4
  <2>5. CASE step[v] # v
    <3>1. r + 1 <= used[step[v]]
      BY <2>3, <2>5
    <3>2. QED
      BY <2>2, <2>3, <3>1
  <2>6. QED
    BY <2>4, <2>5
<1> HIDE DEF Good
<1>3. N \in Good
  <2>1. \A r \in 0 .. N - 1 : r \in Good => r + 1 \in Good
    BY <1>2
  <2>2. N \in 0 .. N
    OBVIOUS
  <2>3. QED
    BY <1>1, <2>1, <2>2, Induction, Zenon
<1>4. g[N] \in S /\ (N <= used[g[N]] \/ step[g[N]] = g[N])
  BY <1>3 DEF Good
<1>5. QED
  BY <1>4

\* Where the descent of append may be, with a key: what it used is spelled like the
\* string that leads to the node.
Places(ns, path, key) ==
    {at \in [used : 0 .. Len(key), node : 1 .. Len(ns)] :
        /\ Len(path[at.node]) = at.used
        /\ Alike(path[at.node], key)
        /\ at.used # 0 => path[at.node][1] = key[1]}

LEMMA AlikeGoesOn ==
    ASSUME NEW p \in Seq(Codes), NEW q \in Seq(Codes), NEW s \in Seq(Codes),
           Alike(p, s), q # <<>>,
           \A k \in 1 .. Len(q) : ToLower(q[k]) = ToLower(s[Len(p) + k]),
           Len(p) # 0 => p[1] = s[1], Len(p) = 0 => q[1] = s[1]
    PROVE  Alike(p \o q, s) /\ (p \o q)[1] = s[1]
<1>1. /\ p \o q \in Seq(Codes) /\ Len(p \o q) = Len(p) + Len(q)
      /\ \A i \in 1 .. Len(p) : (p \o q)[i] = p[i]
      /\ \A i \in 1 .. Len(q) : (p \o q)[Len(p) + i] = q[i]
      /\ Len(p) \in Nat /\ Len(q) \in Nat
  BY ConcatIs
<1>2. ASSUME NEW k \in 1 .. Len(p) + Len(q)
      PROVE  ToLower((p \o q)[k]) = ToLower(s[k])
  <2>1. CASE k \in 1 .. Len(p)
    BY <1>1, <2>1 DEF Alike
  <2>2. CASE k \notin 1 .. Len(p)
    <3>1. k - Len(p) \in 1 .. Len(q) /\ Len(p) + (k - Len(p)) = k
      BY <1>1, <2>2
    <3>2. (p \o q)[Len(p) + (k - Len(p))] = q[k - Len(p)]
      BY <1>1, <3>1
    <3>3. ToLower(q[k - Len(p)]) = ToLower(s[Len(p) + (k - Len(p))])
      BY <3>1
    <3>4. QED
      BY <3>1, <3>2, <3>3
  <2>3. QED
    BY <2>1, <2>2
<1>3. (p \o q)[1] = s[1]
  <2>1. CASE Len(p) = 0
    <3>1. 1 \in 1 .. Len(q) /\ Len(p) + 1 = 1
      BY <1>1, <2>1
    <3>2. (p \o q)[Len(p) + 1] = q[1]
      BY <1>1, <3>1
    <3>3. QED
      BY <2>1, <3>1, <3>2
  <2>2. CASE Len(p) # 0
    <3>1. 1 \in 1 .. Len(p)
      BY <1>1, <2>2
    <3>2. QED
      BY <1>1, <2>2, <3>1
  <2>3. QED
    BY <2>1, <2>2
<1>4. QED
  BY <1>1, <1>2, <1>3 DEF Alike

LEMMA RestIs ==
    ASSUME NEW key \in Seq(Codes), NEW k \in 0 .. Len(key)
    PROVE  /\ From(key, k + 1) \in Seq(Codes)
           /\ Len(From(key, k + 1)) = Len(key) - k
           /\ \A i \in 1 .. Len(key) - k : From(key, k + 1)[i] = key[k + i]
           /\ From(key, k + 1) # <<>> <=> k < Len(key)
           /\ k < Len(key) => /\ Head(From(key, k + 1)) = key[k + 1]
                              /\ key[k + 1] \in Codes
<1> DEFINE rest == From(key, k + 1)
<1>1. /\ rest \in Seq(Codes) /\ Len(rest) = Len(key) + 1 - (k + 1)
      /\ \A i \in 1 .. Len(key) + 1 - (k + 1) : rest[i] = key[(k + 1) + i - 1]
  <2>1. k + 1 \in 1 .. Len(key) + 1
    OBVIOUS
  <2>2. QED
    BY <2>1, FromIs
<1> HIDE DEF rest
<1>2. Len(key) + 1 - (k + 1) = Len(key) - k /\ Len(key) - k \in Nat
  OBVIOUS
<1>3. Len(rest) = Len(key) - k
      /\ \A i \in 1 .. Len(key) - k : rest[i] = key[k + i]
  <2>1. \A i \in 1 .. Len(key) - k : (k + 1) + i - 1 = k + i
    OBVIOUS
  <2>2. QED
    BY <1>1, <1>2, <2>1
<1>4. rest # <<>> <=> k < Len(key)
  BY <1>1, <1>2, <1>3
<1>5. ASSUME k < Len(key)
      PROVE  Head(rest) = key[k + 1] /\ key[k + 1] \in Codes
  <2>1. 1 \in 1 .. Len(key) - k /\ k + 1 \in 1 .. Len(key)
    BY <1>5
  <2>2. Head(rest) = rest[1]
    BY <1>1, <1>4, <1>5
  <2>3. QED
    BY <1>3, <2>1, <2>2
<1>6. QED
  BY <1>1, <1>3, <1>4, <1>5 DEF rest

\* The node to which a character leads.
IsNext(path, up, n, c, m, offset) ==
    /\ m \in 2 .. Len(nodes) /\ m \in 1 .. Len(nodes)
    /\ up[m] = n
    /\ offset \in Seq(Codes) /\ offset # <<>> /\ offset[1] = c
    /\ path[m] = path[n] \o offset

LEMMA NextIs ==
    ASSUME NEW path, NEW up, Tree(nodes, path, up),
           NEW n \in 1 .. Len(nodes), NEW c \in Codes, HasChild(n, c)
    PROVE  IsNext(path, up, n, c, Child(n, c), nodes[Child(n, c)].offset)
<1> DEFINE m == Child(n, c)
<1>1. /\ m \in 2 .. Len(nodes) /\ m \in 1 .. Len(nodes)
      /\ up[m] = n /\ Slot(nodes[m].offset[1]) = Slot(c)
  BY ChildIs DEF Child, HasChild
<1> HIDE DEF m
<1>2. nodes[m].offset \in Seq(Codes) /\ nodes[m].offset # <<>>
      /\ nodes[m].offset[1] \in Codes
  BY <1>1, BelowIs
<1>3. nodes[m].offset[1] = c
  BY <1>1, <1>2, SlotsDiffer
<1>4. path[m] = path[n] \o nodes[m].offset
  BY <1>1 DEF Tree
<1>5. IsNext(path, up, n, c, m, nodes[m].offset)
  BY <1>1, <1>2, <1>3, <1>4 DEF IsNext
<1>6. QED
  BY <1>5 DEF m

\* A round stays where it may be; it uses a character, or it is the last.
LEMMA PassIs ==
    ASSUME NEW path, NEW up, Tree(nodes, path, up), NEW key \in Seq(Codes),
           NEW at \in Places(nodes, path, key)
    PROVE  /\ Pass(key, at) \in Places(nodes, path, key)
           /\ \/ Pass(key, at) = at
              \/ at.used < Len(key) /\ at.used < Pass(key, at).used
<1> DEFINE rest == From(key, at.used + 1)
           next == Child(at.node, Head(rest))
           offset == nodes[next].offset
           Goes == /\ rest # <<>> /\ HasChild(at.node, Head(rest))
                   /\ Matched(offset, rest) = Len(offset)
<1>1. /\ at.used \in 0 .. Len(key) /\ at.node \in 1 .. Len(nodes)
      /\ Len(path[at.node]) = at.used /\ Alike(path[at.node], key)
      /\ at.used # 0 => path[at.node][1] = key[1]
  BY DEF Places
<1>2. Pass(key, at) = IF Goes THEN Place(at.used + Len(offset), next) ELSE at
  BY DEF Pass
<1>3. CASE ~ Goes
  BY <1>2, <1>3
<1>4. CASE Goes
  <2>1. /\ at.used < Len(key) /\ rest \in Seq(Codes)
        /\ Len(rest) = Len(key) - at.used
        /\ \A i \in 1 .. Len(key) - at.used : rest[i] = key[at.used + i]
        /\ Head(rest) = key[at.used + 1] /\ key[at.used + 1] \in Codes
    BY <1>1, <1>4, RestIs
  <2>2. /\ next \in 1 .. Len(nodes) /\ offset \in Seq(Codes) /\ offset # <<>>
        /\ offset[1] = key[at.used + 1] /\ path[next] = path[at.node] \o offset
    <3>1. PICK c \in Codes, n \in 1 .. Len(nodes) :
              /\ c = key[at.used + 1] /\ n = at.node /\ c = Head(rest)
      BY <1>1, <2>1
    <3>2. HasChild(n, c) /\ next = Child(n, c)
      BY <1>4, <3>1
    <3>3. IsNext(path, up, n, c, next, offset)
      BY <3>2, NextIs
    <3> HIDE DEF next, offset
    <3>4. QED
      BY <3>1, <3>3 DEF IsNext
  <2> HIDE DEF rest, next, offset
  <2>3. /\ Len(offset) \in Nat /\ Len(offset) # 0 /\ Len(offset) <= Len(rest)
        /\ \A k \in 1 .. Len(offset) : ToLower(offset[k]) = ToLower(rest[k])
    <3>1. PICK o \in Seq(Codes), r \in Seq(Codes) : o = offset /\ r = rest
      BY <2>1, <2>2
    <3>2. Matched(o, r) = Len(o)
      BY <1>4, <3>1
    <3>3. /\ Matched(o, r) <= Len(r)
          /\ \A k \in 1 .. Matched(o, r) : ToLower(o[k]) = ToLower(r[k])
      BY MatchedIs
    <3>4. Len(o) \in Nat /\ Len(o) # 0
      BY <2>2, <3>1
    <3>5. QED
      BY <3>1, <3>2, <3>3, <3>4
  <2>4. PICK p \in Seq(Codes) : p = path[at.node]
    BY <1>1, TreeIs
  <2>5. /\ at.used + Len(offset) \in 0 .. Len(key)
        /\ at.used < at.used + Len(offset)
    <3> HIDE DEF offset, next, rest
    <3>1. PICK u \in Nat : u = at.used
      BY <1>1
    <3>2. PICK l \in Nat : l = Len(offset)
      BY <2>3, Zenon
    <3>3. PICK size \in Nat : size = Len(key)
      OBVIOUS
    <3>4. u < size /\ Len(rest) = size - u
      BY <2>1, <3>1, <3>3, Zenon
    <3>5. l # 0 /\ l <= size - u
      BY <2>3, <3>2, <3>4, Zenon
    <3>6. u + l \in 0 .. size /\ u < u + l
      BY <3>4, <3>5
    <3>7. QED
      BY <3>1, <3>2, <3>3, <3>6, Zenon
  <2>6. Alike(p \o offset, key) /\ (p \o offset)[1] = key[1]
    <3>1. ASSUME NEW k \in 1 .. Len(offset)
          PROVE  ToLower(offset[k]) = ToLower(key[Len(p) + k])
      <4>1. k \in 1 .. Len(key) - at.used
        BY <1>1, <2>1, <2>3
      <4>2. rest[k] = key[at.used + k]
        BY <2>1, <4>1
      <4>3. QED
        BY <1>1, <2>3, <2>4, <4>2
    <3>2. Len(p) = 0 => offset[1] = key[1]
      BY <1>1, <2>2, <2>4
    <3>3. Len(p) # 0 => p[1] = key[1]
      BY <1>1, <2>4
    <3>4. Alike(p, key)
      BY <1>1, <2>4
    <3>5. QED
      BY <2>2, <3>1, <3>2, <3>3, <3>4, AlikeGoesOn
  <2>7. Len(p \o offset) = at.used + Len(offset)
    BY <1>1, <2>2, <2>4, ConcatIs
  <2>8. Place(at.used + Len(offset), next) \in Places(nodes, path, key)
    <3>1. PICK used \in 0 .. Len(key) : used = at.used + Len(offset)
      BY <2>5
    <3>2. PICK q : q = p \o offset /\ q = path[next]
      BY <2>2, <2>4
    <3>3. Len(q) = used /\ Alike(q, key) /\ q[1] = key[1]
      BY <2>6, <2>7, <3>1, <3>2
    <3>4. Place(used, next) \in Places(nodes, path, key)
      BY <2>2, <3>2, <3>3 DEF Place, Places
    <3>5. QED
      BY <3>1, <3>4
  <2>9. Place(at.used + Len(offset), next).used = at.used + Len(offset)
    BY DEF Place
  <2>10. QED
    BY <1>2, <1>4, <2>1, <2>5, <2>8, <2>9 DEF offset
<1>5. QED
  BY <1>3, <1>4

\* The descent ends where no round goes on.
LEMMA DescentIs ==
    ASSUME NEW path, NEW up, Tree(nodes, path, up), NEW key \in Seq(Codes)
    PROVE  /\ Descent(key) \in Places(nodes, path, key)
           /\ Pass(key, Descent(key)) = Descent(key)
<1> DEFINE S == Places(nodes, path, key)
           N == Len(key)
           first == Place(0, Root)
           pass == [at \in S |-> Pass(key, at)]
           used == [at \in S |-> at.used]
           step == [x \in (1 .. N) \X S |-> pass[x[2]]]
           Is(f) == f = [round \in 0 .. N |->
                            IF round = 0 THEN first ELSE Pass(key, f[round - 1])]
           at == CHOOSE f : Is(f)
<1>1. N \in Nat /\ first \in S
  <2>1. path[1] = <<>> /\ 1 \in 1 .. Len(nodes)
    BY TreeIs DEF Tree
  <2>2. Alike(<<>>, key) /\ Len(<<>>) = 0 /\ 0 \in 0 .. Len(key)
    BY DEF Alike
  <2>3. QED
    BY <2>1, <2>2 DEF Places, Place, Root
<1>2. \A v \in S : pass[v] = Pass(key, v) /\ used[v] = v.used
  OBVIOUS
<1>3. \A v \in S : /\ pass[v] \in S /\ used[v] \in Nat
                   /\ pass[v] = v \/ (used[v] < N /\ used[v] < used[pass[v]])
  <2>1. TAKE v \in S
  <2>2. /\ Pass(key, v) \in S
        /\ Pass(key, v) = v \/ (v.used < N /\ v.used < Pass(key, v).used)
    BY PassIs
  <2>3. v.used \in Nat
    BY DEF Places
  <2> HIDE DEF S, pass, used, N
  <2>4. QED
    BY <1>2, <2>2, <2>3
<1> HIDE DEF S, N, first, pass, used
<1>4. IsLoop(N, S, first, step)
  <2>1. ASSUME NEW n \in 1 .. N, NEW v \in S
        PROVE  step[<<n, v>>] \in S
    BY <1>3
  <2> HIDE DEF step
  <2>2. QED
    BY <1>1, <2>1 DEF IsLoop
<1>5. PICK g : IsRun(g, N, S, first, step)
  <2> HIDE DEF step
  <2>1. QED
    BY <1>4, RecursiveFunction
<1>6. ASSUME NEW n \in 1 .. N
      PROVE  g[n] = Pass(key, g[n - 1])
  <2>1. g[n - 1] \in S /\ g[n] = step[<<n, g[n - 1]>>]
    <3>1. n - 1 \in 0 .. N
      BY <1>1
    <3> HIDE DEF step
    <3>2. QED
      BY <1>5, <3>1 DEF IsRun
  <2>2. step[<<n, g[n - 1]>>] = pass[g[n - 1]]
    BY <2>1
  <2>3. QED
    BY <1>2, <2>1, <2>2
<1> HIDE DEF step
<1>7. Is(g)
  <2>1. ASSUME NEW n \in 0 .. N
        PROVE  g[n] = IF n = 0 THEN first ELSE Pass(key, g[n - 1])
    <3>1. CASE n = 0
      BY <1>5, <3>1 DEF IsRun
    <3>2. CASE n \in 1 .. N
      BY <1>6, <3>2
    <3>3. QED
      BY <1>1, <3>1, <3>2
  <2>2. QED
    BY <1>5, <2>1 DEF IsRun
<1>8. Is(at)
  <2> HIDE DEF Is
  <2>1. QED
    BY <1>7
<1>9. Descent(key) = at[N]
  BY DEF Descent, N, first
<1> HIDE DEF at
<1>10. at[0] = first
  <2>1. 0 \in 0 .. N
    BY <1>1
  <2>2. QED
    BY <1>8, <2>1
<1>11. ASSUME NEW r \in 1 .. N, at[r - 1] \in S
       PROVE  at[r] = pass[at[r - 1]]
  <2>1. r \in 0 .. N /\ r # 0
    BY <1>1
  <2>2. at[r] = Pass(key, at[r - 1])
    BY <1>8, <2>1
  <2>3. QED
    BY <1>2, <1>11, <2>2
<1> HIDE DEF Is
<1>12. at[N] \in S /\ pass[at[N]] = at[N]
  <2>1. \A r \in 1 .. N : at[r - 1] \in S => at[r] = pass[at[r - 1]]
    BY <1>11
  <2>2. Rounds(at, N, S, pass, used)
    BY <1>1, <1>3, <1>10, <2>1 DEF Rounds
  <2>3. QED
    BY <2>2, RunEnds
<1>13. QED
  BY <1>2, <1>9, <1>12 DEF S

-----------------------------------------------------------------------------
(* What an append adds *)

Agreeing(lg) == \A s, t \in Range(lg) : SameCase(s, t)

Shape(ns, path, up, lg) ==
    /\ lg \in Seq(Keys)
    /\ Tree(ns, path, up)
    /\ Spells(ns, path)
    /\ Counted(ns, lg)
    /\ Agreeing(lg) => Exact(ns, path, lg)

\* A key can go on below a node.
Fits(p, key) ==
    /\ Len(p) <= Len(key) /\ Alike(p, key)
    /\ Len(p) # 0 => p[1] = key[1]

LEMMA AgreeingBefore ==
    ASSUME NEW lg \in Seq(Keys), NEW key \in Keys, Agreeing(Append(lg, key))
    PROVE  Agreeing(lg) /\ \A t \in Range(lg) : SameCase(t, key)
<1>1. Range(Append(lg, key)) = Range(lg) \cup {key}
  BY TimesMore
<1>2. QED
  BY <1>1 DEF Agreeing

\* What begins a string that agrees in case with a key, and is spelled like the
\* key, begins the key.
LEMMA SameBegin ==
    ASSUME NEW p \in Seq(Codes), NEW t \in Seq(Codes), NEW key \in Seq(Codes),
           Begins(p, t), SameCase(t, key), Len(p) <= Len(key), Alike(p, key)
    PROVE  Begins(p, key)
<1> DEFINE ofT == SubSeq(t, 1, Len(p))
           ofKey == SubSeq(key, 1, Len(p))
<1>1. Len(p) \in 0 .. Len(t) /\ Len(p) \in 0 .. Len(key) /\ Len(p) \in Nat
  BY DEF Begins
<1>2. /\ ofT \in Seq(Codes) /\ Len(ofT) = Len(p)
      /\ \A k \in 1 .. Len(p) : ofT[k] = t[k]
      /\ ofKey \in Seq(Codes) /\ Len(ofKey) = Len(p)
      /\ \A k \in 1 .. Len(p) : ofKey[k] = key[k]
  BY <1>1, StartIs
<1> HIDE DEF ofT, ofKey
<1>3. Alike(ofT, ofKey)
  <2>1. ASSUME NEW k \in 1 .. Len(ofT)
        PROVE  ToLower(ofT[k]) = ToLower(ofKey[k])
    <3>1. k \in 1 .. Len(p)
      BY <1>2
    <3>2. p[k] = t[k] /\ ToLower(p[k]) = ToLower(key[k])
      BY <3>1 DEF Begins, Alike
    <3>3. QED
      BY <1>2, <3>1, <3>2
  <2>2. QED
    BY <2>1 DEF Alike
<1>4. Folded(ofT) = Folded(ofKey)
  <2>1. ofT \in Seq(Chars) /\ ofKey \in Seq(Chars)
    BY <1>2 DEF Codes
  <2>2. QED
    BY <1>2, <1>3, <2>1, FoldedAlike
<1>5. ofT = ofKey
  BY <1>1, <1>4 DEF SameCase, ofT, ofKey
<1>6. ASSUME NEW k \in 1 .. Len(p)
      PROVE  p[k] = key[k]
  <2>1. p[k] = t[k]
    BY DEF Begins
  <2>2. QED
    BY <1>2, <1>5, <2>1
<1>7. QED
  BY <1>6 DEF Begins

LEMMA Whole ==
    ASSUME NEW p \in Seq(Codes), NEW key \in Seq(Codes), Begins(p, key)
    PROVE  /\ Len(p) = Len(key) => p = key
           /\ p \o From(key, Len(p) + 1) = key
<1>1. ASSUME Len(p) = Len(key)
      PROVE  p = key
  BY <1>1, SameString DEF Begins
<1>2. p \o From(key, Len(p) + 1) = key
  <2> DEFINE rest == From(key, Len(p) + 1)
             both == p \o rest
  <2>1. Len(p) \in 0 .. Len(key)
    BY DEF Begins
  <2>2. /\ rest \in Seq(Codes) /\ Len(rest) = Len(key) - Len(p)
        /\ \A i \in 1 .. Len(key) - Len(p) : rest[i] = key[Len(p) + i]
    BY <2>1, RestIs
  <2> HIDE DEF rest
  <2>3. /\ both \in Seq(Codes) /\ Len(both) = Len(p) + Len(rest)
        /\ \A i \in 1 .. Len(p) : both[i] = p[i]
        /\ \A i \in 1 .. Len(rest) : both[Len(p) + i] = rest[i]
    BY <2>2, ConcatIs
  <2> HIDE DEF both
  <2>4. Len(both) = Len(key)
    BY <2>1, <2>2, <2>3
  <2>5. ASSUME NEW i \in 1 .. Len(both)
        PROVE  both[i] = key[i]
    <3>1. CASE i \in 1 .. Len(p)
      BY <2>3, <3>1 DEF Begins
    <3>2. CASE i \notin 1 .. Len(p)
      <4>1. i - Len(p) \in 1 .. Len(key) - Len(p) /\ Len(p) + (i - Len(p)) = i
        BY <2>1, <2>4, <3>2
      <4>2. both[Len(p) + (i - Len(p))] = rest[i - Len(p)]
        BY <2>2, <2>3, <4>1
      <4>3. rest[i - Len(p)] = key[Len(p) + (i - Len(p))]
        BY <2>2, <4>1
      <4>4. QED
        BY <4>1, <4>2, <4>3
    <3>3. QED
      BY <3>1, <3>2
  <2>6. both = key
    BY <2>3, <2>4, <2>5, SameString
  <2>7. QED
    BY <2>6 DEF both, rest
<1>3. QED
  BY <1>1, <1>2

LEMMA GrowValue ==
    ASSUME NEW ns, NEW path, NEW up, NEW lg, Shape(ns, path, up, lg),
           NEW n \in 1 .. Len(ns), NEW key \in Keys,
           Fits(path[n], key), Len(path[n]) = Len(key),
           Agreeing(Append(lg, key)) => Begins(path[n], key)
    PROVE  Shape(WithValue(ns, n, key), path, up, Append(lg, key))
<1>1. Tree(ns, path, up) /\ Spells(ns, path) /\ lg \in Seq(Keys)
  BY DEF Shape
<1>2. key \in Seq(Codes) /\ key # <<>> /\ Append(lg, key) \in Seq(Keys)
  BY <1>1, KeysAreCodes
<1>3. PICK p \in Seq(Codes) : p = path[n]
  BY <1>1, TreeIs
<1>4. IsSpelling(key, path[n])
  <2>1. Len(p) = Len(key) /\ Fits(p, key)
    BY <1>3
  <2>2. Len(key) # 0
    BY <1>2
  <2>3. p[1] = key[1] /\ Alike(p, key)
    BY <2>1, <2>2 DEF Fits
  <2>4. IsSpelling(key, p)
    BY <2>1, <2>3 DEF IsSpelling
  <2>5. QED
    BY <1>3, <2>4
<1>5. Tree(WithValue(ns, n, key), path, up)
  BY <1>1, ValueTree
<1>6. Spells(WithValue(ns, n, key), path)
  BY <1>1, <1>4, ValueSpells
<1>7. Counted(WithValue(ns, n, key), Append(lg, key))
  <2>1. Counted(ns, lg)
    BY DEF Shape
  <2>2. QED
    BY <1>1, <2>1, ValueCounted
<1>8. ASSUME Agreeing(Append(lg, key))
      PROVE  Exact(WithValue(ns, n, key), path, Append(lg, key))
  <2>1. Exact(ns, path, lg)
    BY <1>1, <1>8, AgreeingBefore DEF Shape
  <2>2. path[n] = key
    <3>1. Begins(p, key) /\ Len(p) = Len(key)
      BY <1>3, <1>8
    <3>2. QED
      BY <1>2, <1>3, <3>1, Whole
  <2>3. QED
    BY <1>1, <2>1, <2>2, ValueExact
<1>9. QED
  BY <1>2, <1>5, <1>6, <1>8, <1>7 DEF Shape

LEMMA GrowLeaf ==
    ASSUME NEW ns, NEW path, NEW up, NEW lg, Shape(ns, path, up, lg),
           NEW n \in 1 .. Len(ns), NEW key \in Keys, NEW rest,
           Fits(path[n], key), Len(path[n]) < Len(key),
           rest = From(key, Len(path[n]) + 1),
           Slot(rest[1]) \notin DOMAIN ns[n].next,
           Agreeing(Append(lg, key)) => Begins(path[n], key)
    PROVE  \E newPath, newUp :
             Shape(WithLeaf(ns, n, rest, key), newPath, newUp, Append(lg, key))
<1> DEFINE leaf == Len(ns) + 1
           new == WithLeaf(ns, n, rest, key)
           s == path[n] \o rest
           newPath == PathPlus(path, leaf, s)
           newUp == UpPlus(up, leaf, n)
<1>1. Tree(ns, path, up) /\ Spells(ns, path) /\ lg \in Seq(Keys)
  BY DEF Shape
<1>2. key \in Seq(Codes) /\ key # <<>> /\ Append(lg, key) \in Seq(Keys)
  <2>1. Append(lg, key) \in Seq(Keys)
    BY <1>1, AppendProperties
  <2>2. QED
    BY <2>1, KeysAreCodes
<1>3. PICK p \in Seq(Codes) : p = path[n]
  BY <1>1, TreeIs
<1>4. /\ Len(p) \in 0 .. Len(key) /\ Len(p) < Len(key)
      /\ rest = From(key, Len(p) + 1)
      /\ s = p \o rest /\ Fits(p, key)
  <2>1. Len(p) \in Nat /\ Len(key) \in Nat
    BY <1>2, <1>3
  <2>2. Len(p) < Len(key)
    BY <1>3
  <2>3. rest = From(key, Len(p) + 1) /\ s = p \o rest /\ Fits(p, key)
    BY <1>3
  <2>4. Len(p) \in 0 .. Len(key)
    BY <2>1, <2>2
  <2> HIDE DEF s
  <2>5. QED
    BY <2>2, <2>3, <2>4
<1>5. /\ rest \in Seq(Codes) /\ rest # <<>> /\ Len(rest) = Len(key) - Len(p)
      /\ \A i \in 1 .. Len(key) - Len(p) : rest[i] = key[Len(p) + i]
      /\ Head(rest) = key[Len(p) + 1]
  <2>1. PICK k \in 0 .. Len(key) : k = Len(p) /\ k < Len(key)
    BY <1>4
  <2>2. PICK r : r = From(key, k + 1)
    OBVIOUS
  <2>3. /\ r \in Seq(Codes) /\ r # <<>> /\ Len(r) = Len(key) - k
        /\ \A i \in 1 .. Len(key) - k : r[i] = key[k + i]
        /\ Head(r) = key[k + 1]
    BY <1>2, <2>1, <2>2, RestIs
  <2>4. r = rest
    BY <1>4, <2>1, <2>2
  <2>5. QED
    BY <2>1, <2>3, <2>4
<1>6. IsSpelling(key, s)
  <2>1. \A k \in 1 .. Len(rest) : ToLower(rest[k]) = ToLower(key[Len(p) + k])
    BY <1>5
  <2>2. Alike(p, key) /\ (Len(p) # 0 => p[1] = key[1])
    BY <1>4 DEF Fits
  <2>3. Len(p) = 0 => rest[1] = key[1]
    <3>1. Head(rest) = rest[1]
      BY <1>5
    <3>2. QED
      BY <1>5, <3>1
  <2>4. Alike(p \o rest, key) /\ (p \o rest)[1] = key[1]
    <3>1. Alike(p, key) /\ rest # <<>>
      BY <1>5, <2>2
    <3>2. QED
      BY <1>2, <1>5, <2>1, <2>2, <2>3, <3>1, AlikeGoesOn, ZenonT(40)
  <2>5. Len(p \o rest) = Len(key)
    <3>1. Len(p \o rest) = Len(p) + Len(rest)
      BY <1>5, ConcatIs
    <3>2. QED
      BY <1>2, <1>4, <1>5, <3>1
  <2>6. QED
    BY <1>4, <2>4, <2>5 DEF IsSpelling
<1>7. Tree(new, newPath, newUp)
  BY <1>1, <1>5, LeafTree
<1>8. Spells(new, newPath)
  BY <1>1, <1>5, <1>6, LeafSpells
<1>9. Counted(new, Append(lg, key))
  <2>1. Counted(ns, lg)
    BY DEF Shape
  <2>2. QED
    BY <1>1, <1>5, <2>1, LeafCounted
<1>10. ASSUME Agreeing(Append(lg, key))
      PROVE  Exact(new, newPath, Append(lg, key))
  <2>1. Exact(ns, path, lg)
    BY <1>1, <1>10, AgreeingBefore DEF Shape
  <2>2. Begins(p, key)
    BY <1>3, <1>10
  <2>3. s = key
    <3>1. p \o From(key, Len(p) + 1) = key
      BY <1>2, <2>2, Whole, Zenon
    <3>2. QED
      BY <1>4, <3>1, Zenon
  <2>4. NoWay(ns, path, up, n, key)
    <3>1. SUFFICES ASSUME NEW c \in 2 .. Len(ns), up[c] = n,
                          ns[c].offset[1] = After(path[n], key)
                   PROVE  FALSE
      BY DEF NoWay
    <3>2. After(path[n], key) = rest[1]
      <4>1. Head(rest) = rest[1]
        BY <1>5
      <4>2. QED
        BY <1>3, <1>5, <4>1 DEF After
    <3>3. Slot(ns[c].offset[1]) \in DOMAIN ns[n].next
      BY <1>1, <3>1, BelowIs
    <3>4. QED
      BY <3>1, <3>2, <3>3
  <2>5. \A x \in 1 .. Len(ns) : path[x] # key
    BY <1>1, <1>2, <1>3, <1>4, <2>2, <2>4, NoNode
  <2>6. Exact(WithLeaf(ns, n, rest, key), PathPlus(path, Len(ns) + 1, key),
              Append(lg, key))
    BY <1>1, <1>5, <2>1, <2>5, LeafExact
  <2>7. QED
    BY <2>3, <2>6
<1> HIDE DEF new, newPath, newUp
<1>11. Shape(new, newPath, newUp, Append(lg, key))
  BY <1>2, <1>7, <1>8, <1>10, <1>9 DEF Shape
<1>12. QED
  BY <1>11 DEF new

\* What is left after two parts of a key.
LEMMA FromTwice ==
    ASSUME NEW key \in Seq(Codes), NEW k \in 0 .. Len(key), NEW j \in 0 .. Len(key) - k
    PROVE  From(From(key, k + 1), j + 1) = From(key, (k + j) + 1)
<1> DEFINE rest == From(key, k + 1)
           left == From(rest, j + 1)
           same == From(key, (k + j) + 1)
<1>1. /\ rest \in Seq(Codes) /\ Len(rest) = Len(key) - k
      /\ \A i \in 1 .. Len(key) - k : rest[i] = key[k + i]
  BY RestIs
<1> HIDE DEF rest
<1>2. j \in 0 .. Len(rest) /\ k + j \in 0 .. Len(key)
  BY <1>1
<1>3. /\ left \in Seq(Codes) /\ Len(left) = Len(rest) - j
      /\ \A i \in 1 .. Len(rest) - j : left[i] = rest[j + i]
  BY <1>1, <1>2, RestIs
<1>4. PICK kj \in 0 .. Len(key) : kj = k + j
  BY <1>2
<1>5. /\ same \in Seq(Codes) /\ Len(same) = Len(key) - kj
      /\ \A i \in 1 .. Len(key) - kj : same[i] = key[kj + i]
  BY <1>4, RestIs
<1> HIDE DEF left, same
<1>6. Len(left) = Len(same)
  BY <1>1, <1>3, <1>4, <1>5
<1>7. ASSUME NEW i \in 1 .. Len(left)
      PROVE  left[i] = same[i]
  <2>1. /\ i \in 1 .. Len(rest) - j /\ j + i \in 1 .. Len(key) - k
        /\ i \in 1 .. Len(key) - kj /\ k + (j + i) = kj + i
    BY <1>1, <1>2, <1>3, <1>4
  <2>2. left[i] = rest[j + i] /\ rest[j + i] = key[k + (j + i)]
    BY <1>1, <1>3, <2>1
  <2>3. same[i] = key[kj + i]
    BY <1>5, <2>1
  <2>4. QED
    BY <2>1, <2>2, <2>3
<1>8. left = same
  BY <1>3, <1>5, <1>6, <1>7, SameString
<1>9. QED
  BY <1>8 DEF left, same, rest

\* Where a key parts from an offset: s, the string that leads there, is on the way
\* to the end of the offset, and the key fits it.
IsParting(p, offset, key, rest, j, s) ==
    /\ j \in 1 .. Len(offset) - 1 /\ j \in 1 .. Len(rest)
    /\ s \in Seq(Codes) /\ Len(s) = Len(p) + j /\ Len(p) < Len(s)
    /\ After(p, s) = offset[1] /\ Begins(p, s)
    /\ Fits(s, key)
    /\ Begins(s, p \o offset) /\ Len(s) < Len(p \o offset)
    /\ j < Len(rest) => /\ rest[j + 1] \in Codes /\ offset[j + 1] \in Codes
                        /\ offset[j + 1] # rest[j + 1]

LEMMA PartingIs ==
    ASSUME NEW p \in Seq(Codes), NEW offset \in Seq(Codes), NEW key \in Seq(Codes),
           Fits(p, key), Len(p) < Len(key), offset # <<>>,
           offset[1] = Head(From(key, Len(p) + 1)),
           Matched(offset, From(key, Len(p) + 1)) # Len(offset)
    PROVE  IsParting(p, offset, key, From(key, Len(p) + 1),
                     Matched(offset, From(key, Len(p) + 1)),
                     p \o SubSeq(offset, 1, Matched(offset, From(key, Len(p) + 1))))
<1> DEFINE r == From(key, Len(p) + 1)
           m == Matched(offset, r)
           start == SubSeq(offset, 1, m)
<1>1. PICK used \in Nat : used = Len(p) /\ used \in 0 .. Len(key)
  OBVIOUS
<1>2. PICK rest \in Seq(Codes) :
          /\ rest = r /\ Len(rest) = Len(key) - used
          /\ \A i \in 1 .. Len(key) - used : rest[i] = key[used + i]
          /\ Len(rest) # 0
  <2>1. /\ From(key, used + 1) \in Seq(Codes)
        /\ Len(From(key, used + 1)) = Len(key) - used
        /\ \A i \in 1 .. Len(key) - used : From(key, used + 1)[i] = key[used + i]
    BY <1>1, RestIs
  <2>2. r = From(key, used + 1)
    BY <1>1
  <2>3. Len(key) - used # 0
    BY <1>1
  <2> HIDE DEF r
  <2>4. QED
    BY <2>1, <2>2, <2>3
<1>3. rest[1] = offset[1]
  <2>1. Head(rest) = rest[1]
    BY <1>2
  <2>2. QED
    BY <1>2, <2>1
<1>4. PICK j \in Nat : j = m /\ j # Len(offset)
  <2>1. Matched(offset, rest) \in 0 .. Len(offset)
    BY MatchedIs
  <2>2. QED
    BY <1>2, <2>1
<1>5. /\ j <= Len(offset) /\ j <= Len(rest)
      /\ \A k \in 1 .. j : ToLower(offset[k]) = ToLower(rest[k])
      /\ j < Len(offset) /\ j < Len(rest) =>
           ToLower(offset[j + 1]) # ToLower(rest[j + 1])
  <2>1. j = Matched(offset, rest)
    BY <1>2, <1>4
  <2>2. LET k == Matched(offset, rest) IN
        /\ k \in 0 .. Len(offset) /\ k <= Len(rest)
        /\ \A i \in 1 .. k : ToLower(offset[i]) = ToLower(rest[i])
        /\ k < Len(offset) /\ k < Len(rest) =>
             ToLower(offset[k + 1]) # ToLower(rest[k + 1])
    BY MatchedIs
  <2>3. QED
    BY <2>1, <2>2
<1>6. PICK kept : kept = start
  OBVIOUS
<1> HIDE DEF r, m, start
<1>7. j \in 1 .. Len(offset) - 1 /\ j \in 1 .. Len(rest)
  <2>1. j < Len(offset) /\ Len(rest) \in Nat
    BY <1>4, <1>5
  <2>2. ASSUME j = 0 PROVE FALSE
    <3>1. j < Len(rest) /\ j + 1 = 1
      <4>1. Len(rest) # 0
        BY <1>2
      <4>2. QED
        BY <2>1, <2>2, <4>1
    <3>2. ToLower(offset[1]) # ToLower(rest[1])
      BY <1>5, <2>1, <3>1
    <3>3. QED
      BY <1>3, <3>2
  <2>3. QED
    BY <1>5, <2>1, <2>2
<1>8. /\ kept \in Seq(Codes) /\ Len(kept) = j
      /\ \A k \in 1 .. j : kept[k] = offset[k]
  <2>1. j \in 0 .. Len(offset)
    BY <1>7
  <2>2. kept = SubSeq(offset, 1, j)
    BY <1>4, <1>6 DEF start
  <2>3. QED
    BY <2>1, <2>2, StartIs
<1>9. kept # <<>> /\ kept[1] = offset[1]
  BY <1>7, <1>8
<1>10. PICK s \in Seq(Codes) : s = p \o kept
  BY <1>8, ConcatIs
<1>11. Len(s) = Len(p) + j /\ Len(p) < Len(s) /\ After(p, s) = offset[1] /\ Begins(p, s)
  <2>1. Len(p \o kept) = Len(p) + Len(kept)
    BY <1>8, ConcatIs
  <2>2. After(p, p \o kept) = kept[1] /\ Begins(p, p \o kept)
    BY <1>8, <1>9, ConcatIs
  <2>3. Len(s) = Len(p) + j
    BY <1>8, <1>10, <2>1
  <2>4. Len(p) < Len(s)
    BY <1>7, <2>3
  <2>5. QED
    BY <1>9, <1>10, <2>2, <2>3, <2>4
<1>12. Alike(s, key) /\ s[1] = key[1]
  <2>1. \A k \in 1 .. Len(kept) : ToLower(kept[k]) = ToLower(key[Len(p) + k])
    <3>1. TAKE k \in 1 .. Len(kept)
    <3>2. k \in 1 .. j /\ k \in 1 .. Len(key) - used
      BY <1>2, <1>7, <1>8
    <3>3. ToLower(kept[k]) = ToLower(rest[k])
      BY <1>5, <1>8, <3>2
    <3>4. rest[k] = key[used + k]
      BY <1>2, <3>2
    <3>5. QED
      BY <1>1, <3>3, <3>4
  <2>2. Alike(p, key) /\ (Len(p) # 0 => p[1] = key[1])
    BY DEF Fits
  <2>3. Len(p) = 0 => kept[1] = key[1]
    <3>1. kept[1] = rest[1]
      BY <1>3, <1>9
    <3>2. rest[1] = key[used + 1]
      BY <1>2, <1>7
    <3>3. QED
      BY <1>1, <3>1, <3>2
  <2>4. Alike(p \o kept, key) /\ (p \o kept)[1] = key[1]
    BY <1>8, <1>9, <2>1, <2>2, <2>3, AlikeGoesOn
  <2>5. QED
    BY <1>10, <2>4
<1>13. Fits(s, key)
  <2>1. Len(s) <= Len(key)
    BY <1>1, <1>2, <1>7, <1>11
  <2>2. QED
    BY <1>12, <2>1 DEF Fits
<1>14. Begins(s, p \o offset) /\ Len(s) < Len(p \o offset)
  <2>1. AreParts(p, offset, j, SubSeq(offset, 1, j), From(offset, j + 1))
    BY <1>7, PartsIs
  <2>2. kept = SubSeq(offset, 1, j)
    BY <1>4, <1>6 DEF start
  <2>3. PICK left \in Seq(Codes) : left # <<>> /\ p \o offset = (p \o kept) \o left
    BY <2>1, <2>2 DEF AreParts
  <2>4. p \o offset = s \o left
    BY <1>10, <2>3
  <2>5. Begins(s, s \o left) /\ Len(s) < Len(s \o left)
    BY <2>3, ConcatIs
  <2>6. QED
    BY <2>4, <2>5
<1>15. ASSUME j < Len(rest)
       PROVE  /\ rest[j + 1] \in Codes /\ offset[j + 1] \in Codes
              /\ offset[j + 1] # rest[j + 1]
  <2>1. j < Len(offset) /\ j + 1 \in 1 .. Len(offset) /\ j + 1 \in 1 .. Len(rest)
    BY <1>7, <1>15
  <2>2. QED
    BY <1>5, <1>15, <2>1
<1>16. IsParting(p, offset, key, rest, j, s)
  BY <1>7, <1>11, <1>13, <1>14, <1>15 DEF IsParting
<1>17. QED
  BY <1>2, <1>4, <1>6, <1>10, <1>16 DEF r, m, start

\* A node between leaves a place for the key.
IsSplit(split, path, up, lg, key, rest, s, j) ==
    /\ Shape(split, path, up, lg)
    /\ Len(split) \in 1 .. Len(split)
    /\ path[Len(split)] = s
    /\ Agreeing(Append(lg, key)) => Begins(s, key)
    /\ j < Len(rest) => Slot(rest[j + 1]) \notin DOMAIN split[Len(split)].next

\* Where it is put.
PutBetween(ns, path, n, slot, offset, key, rest, j, s) ==
    /\ n \in 1 .. Len(ns) /\ slot \in DOMAIN ns[n].next
    /\ offset = ns[ns[n].next[slot]].offset
    /\ s = path[n] \o SubSeq(offset, 1, j)
    /\ IsParting(path[n], offset, key, rest, j, s)

LEMMA SplitShape ==
    ASSUME NEW ns, NEW path, NEW up, NEW lg, Shape(ns, path, up, lg),
           NEW n, NEW slot, NEW offset, NEW key \in Keys, NEW rest, NEW j, NEW s,
           PutBetween(ns, path, n, slot, offset, key, rest, j, s)
    PROVE  \E newPath, newUp :
             IsSplit(WithBetween(ns, n, slot, j), newPath, newUp, lg, key, rest, s, j)
<1> DEFINE m == ns[n].next[slot]
           mid == Len(ns) + 1
           split == WithBetween(ns, n, slot, j)
           newPath == PathPlus(path, mid, s)
           newUp == [UpPlus(up, mid, n) EXCEPT ![m] = mid]
<1>1. Tree(ns, path, up) /\ Spells(ns, path) /\ lg \in Seq(Keys)
  BY DEF Shape
<1>2. key \in Seq(Codes)
  BY KeysAreCodes
<1>3. n \in 1 .. Len(ns) /\ slot \in DOMAIN ns[n].next /\ offset = ns[m].offset
  BY DEF PutBetween
<1>4. /\ m \in 2 .. Len(ns) /\ m \in 1 .. Len(ns) /\ up[m] = n
      /\ Slot(offset[1]) = slot
  <2>1. m \in 2 .. Len(ns) /\ m \in 1 .. Len(ns) /\ up[m] = n
    BY <1>1, <1>3, ChildIs
  <2>2. Slot(ns[m].offset[1]) = slot
    BY <1>1, <1>3, ChildIs
  <2>3. QED
    BY <1>3, <2>1, <2>2, Zenon
<1>5. PICK p \in Seq(Codes) : p = path[n]
  BY <1>1, <1>3, TreeIs
<1>6. s = p \o SubSeq(offset, 1, j) /\ IsParting(p, offset, key, rest, j, s)
  BY <1>5 DEF PutBetween
<1>7. s \in Seq(Codes) /\ j \in 1 .. Len(offset) - 1
  BY <1>6 DEF IsParting
<1>8. Begins(p, s) /\ Len(p) < Len(s) /\ After(p, s) = offset[1]
  BY <1>6 DEF IsParting
<1>9. j \in 1 .. Len(ns[ns[n].next[slot]].offset) - 1
  BY <1>3, <1>7
<1>10. PICK q \in Seq(Codes) : q = path[m] /\ Begins(s, q) /\ Len(s) < Len(q)
  <2>1. path[m] = path[n] \o ns[m].offset
    BY <1>1, <1>4 DEF Tree
  <2>2. path[m] \in Seq(Codes)
    BY <1>1, <1>4, TreeIs
  <2>3. path[m] = p \o offset
    BY <1>3, <1>5, <2>1
  <2>4. Begins(s, p \o offset) /\ Len(s) < Len(p \o offset)
    BY <1>6 DEF IsParting
  <2>5. QED
    BY <2>2, <2>3, <2>4
<1> HIDE DEF m
<1>11. \A x \in 1 .. Len(ns) : path[x] # s
  <2>1. NoWay(ns, path, up, n, s)
    <3>1. SUFFICES ASSUME NEW c \in 2 .. Len(ns), up[c] = n,
                          ns[c].offset[1] = After(path[n], s)
                   PROVE  ~ Begins(path[c], s)
      BY DEF NoWay
    <3>2. Slot(ns[c].offset[1]) = slot
      BY <1>4, <1>5, <1>8, <3>1
    <3>3. ns[up[c]].next[Slot(ns[c].offset[1])] = c
      BY <1>1, BelowIs
    <3>4. c = m
      BY <3>1, <3>2, <3>3 DEF m
    <3>5. ~ Begins(q, s)
      <4>1. Len(s) \in Nat /\ Len(q) \in Nat
        BY <1>7
      <4>2. QED
        BY <1>10, <4>1 DEF Begins
    <3>6. QED
      BY <1>10, <3>4, <3>5
  <2>2. Begins(path[n], s) /\ Len(path[n]) < Len(s)
    BY <1>5, <1>8
  <2>3. QED
    BY <1>1, <1>3, <1>7, <2>1, <2>2, NoNode
<1>12. Tree(split, newPath, newUp)
  <2>1. Tree(split,
             PathPlus(path, mid, path[n] \o SubSeq(ns[ns[n].next[slot]].offset, 1, j)),
             [UpPlus(up, mid, n) EXCEPT ![ns[n].next[slot]] = mid])
    BY <1>1, <1>3, <1>9, BetweenTree
  <2>2. s = path[n] \o SubSeq(ns[ns[n].next[slot]].offset, 1, j)
    BY <1>3, <1>5, <1>6 DEF m
  <2>3. QED
    BY <2>1, <2>2 DEF m
<1>13. Spells(split, newPath)
  BY <1>1, <1>3, <1>9, BetweenSpells
<1>14. Counted(split, lg)
  <2>1. Counted(ns, lg)
    BY DEF Shape
  <2>2. QED
    BY <1>1, <1>3, <1>9, <2>1, BetweenCounted
<1>15. ASSUME Agreeing(lg)
       PROVE  Exact(split, newPath, lg)
  <2>1. Exact(ns, path, lg)
    BY <1>15 DEF Shape
  <2>2. Begins(s, path[ns[n].next[slot]])
    BY <1>10 DEF m
  <2>3. QED
    BY <1>1, <1>3, <1>7, <1>9, <1>11, <2>1, <2>2, BetweenExact
<1>16. /\ Len(split) = mid /\ mid \in 1 .. mid
       /\ DOMAIN split[mid].next = {Slot(offset[j + 1])}
  <2>1. ns \in Seq(NodeSet) /\ Len(ns) \in Nat
    BY <1>1, TreeIs DEF Tree
  <2>2. IsBetween(split, ns, n, slot, ns[n].next[slot],
                  ns[ns[n].next[slot]].offset, j, mid)
    <3>1. ns[n].next[slot] \in 1 .. Len(ns) /\ ns[n].next[slot] # n
      BY <1>1, <1>3, ChildIs
    <3>2. QED
      BY <1>3, <1>9, <2>1, <3>1, BetweenIs
  <2>3. mid \in 1 .. mid
    BY <2>1
  <2> HIDE DEF split, mid
  <2>4. QED
    BY <1>3, <2>2, <2>3 DEF IsBetween, m
<1>17. newPath[mid] = s
  BY <1>16 DEF PathPlus
<1> HIDE DEF newPath, newUp, split, mid
<1>18. Shape(split, newPath, newUp, lg)
  BY <1>1, <1>12, <1>13, <1>15, <1>14 DEF Shape
<1>19. ASSUME Agreeing(Append(lg, key))
       PROVE  Begins(s, key)
  <2>1. Exact(ns, path, lg) /\ \A t \in Range(lg) : SameCase(t, key)
    BY <1>1, <1>19, AgreeingBefore DEF Shape
  <2>2. PICK t \in Range(lg) : Begins(path[m], t)
    BY <1>4, <2>1 DEF Exact
  <2>3. t \in Seq(Codes) /\ SameCase(t, key)
    <3>1. t \in Keys
      BY <1>1 DEF Range
    <3>2. QED
      BY <2>1, <3>1, KeysAreCodes
  <2>4. Begins(s, t)
    <3>1. Begins(s, q) /\ Begins(q, t)
      BY <1>10, <2>2
    <3>2. QED
      BY <1>7, <2>3, <3>1, BeginsTwice
  <2>5. Len(s) <= Len(key) /\ Alike(s, key)
    BY <1>6 DEF IsParting, Fits
  <2>6. QED
    BY <1>2, <1>7, <2>3, <2>4, <2>5, SameBegin
<1>20. ASSUME j < Len(rest)
       PROVE  Slot(rest[j + 1]) \notin DOMAIN split[mid].next
  <2>1. /\ rest[j + 1] \in Codes /\ offset[j + 1] \in Codes
        /\ offset[j + 1] # rest[j + 1]
    BY <1>6, <1>20 DEF IsParting
  <2>2. Slot(rest[j + 1]) # Slot(offset[j + 1])
    BY <2>1, SlotsDiffer
  <2>3. QED
    BY <1>16, <2>2
<1>21. IsSplit(split, newPath, newUp, lg, key, rest, s, j)
  BY <1>16, <1>17, <1>18, <1>19, <1>20 DEF IsSplit
<1>22. QED
  BY <1>21 DEF split

-----------------------------------------------------------------------------
(* The invariant *)

TrieInv == \E path, up : Shape(nodes, path, up, log)

LEMMA TrieInit == Init => TrieInv
<1> SUFFICES ASSUME Init PROVE TrieInv
  OBVIOUS
<1> DEFINE path == [n \in 1 .. 1 |-> <<>>]
           up == [n \in 2 .. 1 |-> 1]
           root == Node(NoChildren, <<>>, <<>>)
<1>1. nodes = <<root>> /\ log = <<>>
  BY DEF Init
<1>2. root \in NodeSet /\ DOMAIN root.next = {} /\ root.data = <<>>
  <2>1. NoChildren \in [{} -> Nat] /\ {} \in SUBSET (0 .. Size - 1)
    BY DEF NoChildren
  <2>2. NoChildren \in Tables /\ DOMAIN NoChildren = {}
    BY <2>1, IsTable DEF NoChildren
  <2>3. QED
    BY <2>2 DEF Node, NodeSet
<1> HIDE DEF root
<1>3. nodes \in Seq(NodeSet) /\ Len(nodes) = 1 /\ nodes[1] = root
  BY <1>1, <1>2
<1>4. \A n \in 1 .. 1 : n = 1
  OBVIOUS
<1>5. 2 .. 1 = {}
  OBVIOUS
<1>6. path \in [1 .. 1 -> Seq(Codes)] /\ path[1] = <<>> /\ up \in [2 .. 1 -> 1 .. 1]
  BY <1>5
<1>7. Tree(nodes, path, up)
  BY <1>2, <1>3, <1>4, <1>5, <1>6 DEF Tree, Links
<1>8. Spells(nodes, path)
  BY <1>2, <1>3, <1>4 DEF Spells
<1>9. Exact(nodes, path, log)
  <2>1. log \in Seq(Keys) /\ Range(log) = {}
    BY <1>1 DEF Range
  <2>2. Times(<<>>, log) = 0
    BY <2>1, TimesIs
  <2>3. Copies(0, <<>>) = <<>>
    BY CopiesAre
  <2>4. \A n \in 1 .. Len(nodes) :
           nodes[n].data = Copies(Times(path[n], log), path[n])
    BY <1>2, <1>3, <1>4, <1>6, <2>2, <2>3
  <2>5. QED
    BY <1>3, <1>5, <2>1, <2>4 DEF Exact
<1>10. Counted(nodes, log)
  <2>1. ASSUME NEW key \in Keys
        PROVE  /\ Spots(DataOf(nodes), 1 .. 1, key) = {}
               /\ Times(key, log) = 0
    <3>1. log \in Seq(Keys) /\ key \notin Range(log)
      BY <1>1 DEF Range
    <3>2. DataOf(nodes)[1] = <<>> /\ DOMAIN <<>> = {}
      BY <1>2, <1>3 DEF DataOf
    <3>3. Spots(DataOf(nodes), 1 .. 1, key) = {}
      BY <1>4, <3>2 DEF Spots
    <3>4. QED
      BY <3>1, <3>3, TimesIs
  <2>2. IsFiniteSet({}) /\ Cardinality({}) = 0
    BY FS_EmptySet
  <2>3. QED
    BY <1>3, <2>1, <2>2 DEF Counted, IsCount
<1>11. Shape(nodes, path, up, log)
  BY <1>1, <1>7, <1>8, <1>9, <1>10 DEF Shape
<1>12. QED
  BY <1>11 DEF TrieInv

\* What an append finds where its descent ends.
LEMMA DescentFits ==
    ASSUME NEW path, NEW up, Shape(nodes, path, up, log), NEW key \in Keys
    PROVE  /\ Descent(key).node \in 1 .. Len(nodes)
           /\ Descent(key).used \in 0 .. Len(key)
           /\ Len(path[Descent(key).node]) = Descent(key).used
           /\ Fits(path[Descent(key).node], key)
           /\ Pass(key, Descent(key)) = Descent(key)
           /\ Agreeing(Append(log, key)) => Begins(path[Descent(key).node], key)
<1>1. Tree(nodes, path, up) /\ log \in Seq(Keys)
  BY DEF Shape
<1>2. key \in Seq(Codes)
  BY KeysAreCodes
<1>3. PICK d : d = Descent(key)
  OBVIOUS
<1>4. d \in Places(nodes, path, key) /\ Pass(key, d) = d
  BY <1>1, <1>2, <1>3, DescentIs
<1>5. /\ d.node \in 1 .. Len(nodes) /\ d.used \in 0 .. Len(key)
      /\ Len(path[d.node]) = d.used /\ Alike(path[d.node], key)
      /\ d.used # 0 => path[d.node][1] = key[1]
  BY <1>4 DEF Places
<1>6. PICK p \in Seq(Codes) : p = path[d.node]
  BY <1>1, <1>5, TreeIs
<1>7. Fits(p, key)
  <2>1. Len(p) <= Len(key)
    BY <1>2, <1>5, <1>6
  <2>2. Alike(p, key) /\ (Len(p) # 0 => p[1] = key[1])
    BY <1>5, <1>6
  <2>3. QED
    BY <2>1, <2>2 DEF Fits
<1>8. ASSUME Agreeing(Append(log, key))
      PROVE  Begins(p, key)
  <2>1. Exact(nodes, path, log) /\ \A t \in Range(log) : SameCase(t, key)
    BY <1>1, <1>8, AgreeingBefore DEF Shape
  <2>2. CASE d.node = 1
    <3>1. p = <<>>
      BY <1>1, <1>6, <2>2 DEF Tree
    <3>2. QED
      BY <1>2, <3>1 DEF Begins
  <2>3. CASE d.node \in 2 .. Len(nodes)
    <3>1. PICK t \in Range(log) : Begins(p, t)
      BY <1>6, <2>1, <2>3 DEF Exact
    <3>2. t \in Keys
      BY <1>1 DEF Range
    <3>3. t \in Seq(Codes) /\ SameCase(t, key)
      BY <2>1, <3>2, KeysAreCodes
    <3>4. Len(p) <= Len(key) /\ Alike(p, key)
      BY <1>7 DEF Fits
    <3>5. QED
      BY <1>2, <3>1, <3>3, <3>4, SameBegin
  <2>4. QED
    BY <1>5, <2>2, <2>3
<1>9. QED
  BY <1>3, <1>4, <1>5, <1>6, <1>7, <1>8

LEMMA KeepsAtNode ==
    ASSUME NEW path, NEW up, Shape(nodes, path, up, log), NEW key \in Keys,
           AppendToNode(key)
    PROVE  TrieInv'
<1>1. PICK d : d = Descent(key)
  OBVIOUS
<1>2. /\ d.node \in 1 .. Len(nodes) /\ d.used \in 0 .. Len(key)
      /\ Len(path[d.node]) = d.used /\ Fits(path[d.node], key)
      /\ Agreeing(Append(log, key)) => Begins(path[d.node], key)
  BY <1>1, DescentFits
<1>3. /\ From(key, d.used + 1) = <<>>
      /\ nodes' = WithValue(nodes, d.node, key) /\ log' = Append(log, key)
  BY <1>1 DEF AppendToNode, Rest, Log
<1>4. d.used = Len(key)
  <2>1. key \in Seq(Codes)
    BY KeysAreCodes
  <2>2. ~ d.used < Len(key)
    BY <1>2, <1>3, <2>1, RestIs
  <2>3. QED
    BY <1>2, <2>1, <2>2
<1>5. Shape(WithValue(nodes, d.node, key), path, up, Append(log, key))
  BY <1>2, <1>4, GrowValue
<1>6. Shape(nodes', path, up, log')
  BY <1>3, <1>5
<1>7. \E p, u : Shape(nodes', p, u, log')
  BY <1>6
<1>8. QED
  BY <1>7 DEF TrieInv

LEMMA KeepsAtLeaf ==
    ASSUME NEW path, NEW up, Shape(nodes, path, up, log), NEW key \in Keys,
           AppendLeaf(key)
    PROVE  TrieInv'
<1>1. PICK d : d = Descent(key)
  OBVIOUS
<1>2. /\ d.node \in 1 .. Len(nodes) /\ d.used \in 0 .. Len(key)
      /\ Len(path[d.node]) = d.used /\ Fits(path[d.node], key)
      /\ Agreeing(Append(log, key)) => Begins(path[d.node], key)
  BY <1>1, DescentFits
<1>3. PICK rest : rest = From(key, d.used + 1)
  OBVIOUS
<1>4. /\ rest # <<>> /\ ~ HasChild(d.node, Head(rest))
      /\ nodes' = WithLeaf(nodes, d.node, rest, key) /\ log' = Append(log, key)
  BY <1>1, <1>3 DEF AppendLeaf, Rest, Log
<1>5. rest \in Seq(Codes) /\ d.used < Len(key)
  <2>1. key \in Seq(Codes)
    BY KeysAreCodes
  <2>2. QED
    BY <1>2, <1>3, <1>4, <2>1, RestIs
<1>6. Slot(rest[1]) \notin DOMAIN nodes[d.node].next
  <2>1. Head(rest) = rest[1]
    BY <1>4, <1>5
  <2>2. QED
    BY <1>4, <2>1 DEF HasChild
<1>7. rest = From(key, Len(path[d.node]) + 1) /\ Len(path[d.node]) < Len(key)
  BY <1>2, <1>3, <1>5
<1>8. \E p, u : Shape(WithLeaf(nodes, d.node, rest, key), p, u, Append(log, key))
  BY <1>2, <1>6, <1>7, GrowLeaf
<1>9. \E p, u : Shape(nodes', p, u, log')
  BY <1>4, <1>8
<1>10. QED
  BY <1>9 DEF TrieInv

LEMMA KeepsAtSplit ==
    ASSUME NEW path, NEW up, Shape(nodes, path, up, log), NEW key \in Keys,
           AppendSplit(key)
    PROVE  TrieInv'
<1>0. Tree(nodes, path, up) /\ key \in Seq(Codes) /\ log \in Seq(Keys)
  BY KeysAreCodes DEF Shape
<1>1. PICK d : d = Descent(key)
  OBVIOUS
<1>2. /\ d.node \in 1 .. Len(nodes) /\ d.used \in 0 .. Len(key)
      /\ Len(path[d.node]) = d.used /\ Fits(path[d.node], key)
      /\ Pass(key, d) = d
  BY <1>1, DescentFits
<1>3. PICK rest : rest = From(key, d.used + 1)
  OBVIOUS
<1>4. PICK slot : slot = Slot(Head(rest))
  OBVIOUS
<1>5. PICK offset : offset = nodes[nodes[d.node].next[slot]].offset
  OBVIOUS
<1>6. PICK j : j = Matched(offset, rest)
  OBVIOUS
<1>7. PICK split : split = WithBetween(nodes, d.node, slot, j)
  OBVIOUS
<1>8. /\ rest # <<>> /\ HasChild(d.node, Head(rest)) /\ slot \in DOMAIN nodes[d.node].next
      /\ nodes' = IF j = Len(rest) THEN WithValue(split, Len(split), key)
                  ELSE WithLeaf(split, Len(split), From(rest, j + 1), key)
      /\ log' = Append(log, key)
  BY <1>1, <1>3, <1>4, <1>5, <1>6, <1>7 DEF AppendSplit, Rest, Log, HasChild
<1>9. PICK p \in Seq(Codes) : p = path[d.node]
  BY <1>0, <1>2, TreeIs
<1>10. PICK k \in 0 .. Len(key) : k = d.used /\ k = Len(p)
  BY <1>2, <1>9
<1>11. /\ rest \in Seq(Codes) /\ k < Len(key) /\ Len(rest) = Len(key) - k
       /\ Head(rest) \in Codes
  <2>1. rest = From(key, k + 1)
    BY <1>3, <1>10
  <2>2. rest \in Seq(Codes) /\ Len(rest) = Len(key) - k
    BY <1>0, <2>1, RestIs
  <2>3. k < Len(key)
    BY <1>0, <1>8, <2>1, RestIs
  <2>4. Head(rest) \in Codes
    BY <1>0, <2>1, <2>3, RestIs
  <2>5. QED
    BY <2>2, <2>3, <2>4
<1>12. offset \in Seq(Codes) /\ offset # <<>> /\ offset[1] = Head(rest)
  <2>1. PICK c \in Codes : c = Head(rest)
    BY <1>11
  <2>2. HasChild(d.node, c)
    BY <1>8, <2>1
  <2>3. IsNext(path, up, d.node, c, Child(d.node, c), nodes[Child(d.node, c)].offset)
    BY <1>0, <1>2, <2>2, NextIs
  <2>4. offset = nodes[Child(d.node, c)].offset
    BY <1>4, <1>5, <2>1 DEF Child
  <2>5. IsNext(path, up, d.node, c, Child(d.node, c), offset)
    BY <2>3, <2>4
  <2>6. QED
    BY <2>1, <2>5 DEF IsNext
<1>13. j # Len(offset)
  <2>1. SUFFICES ASSUME j = Len(offset) PROVE FALSE
    OBVIOUS
  <2>2. PICK next : next = Child(d.node, Head(rest))
    OBVIOUS
  <2>3. offset = nodes[next].offset
    BY <1>4, <1>5, <2>2 DEF Child
  <2>4. Pass(key, d) = Place(d.used + Len(offset), next)
    <3>1. Matched(nodes[next].offset, rest) = Len(nodes[next].offset)
      BY <1>6, <2>1, <2>3
    <3>2. QED
      BY <1>3, <1>8, <2>2, <2>3, <3>1 DEF Pass
  <2>5. Pass(key, d).used = d.used + Len(offset)
    BY <2>4 DEF Place
  <2>6. k = k + Len(offset)
    BY <1>2, <1>10, <2>5
  <2>7. Len(offset) \in Nat /\ Len(offset) # 0
    BY <1>12
  <2>8. QED
    BY <2>6, <2>7
<1>14. PICK s : s = p \o SubSeq(offset, 1, j)
  OBVIOUS
<1>15. IsParting(p, offset, key, rest, j, s)
  <2>1. Fits(p, key) /\ Len(p) < Len(key) /\ rest = From(key, Len(p) + 1)
    BY <1>2, <1>3, <1>9, <1>10, <1>11
  <2>2. /\ offset[1] = Head(From(key, Len(p) + 1))
        /\ Matched(offset, From(key, Len(p) + 1)) # Len(offset)
        /\ j = Matched(offset, From(key, Len(p) + 1))
    BY <1>6, <1>12, <1>13, <2>1
  <2>3. IsParting(p, offset, key, From(key, Len(p) + 1),
                  Matched(offset, From(key, Len(p) + 1)),
                  p \o SubSeq(offset, 1, Matched(offset, From(key, Len(p) + 1))))
    BY <1>0, <1>12, <2>1, <2>2, PartingIs
  <2>4. QED
    BY <1>14, <2>1, <2>2, <2>3
<1>16. PutBetween(nodes, path, d.node, slot, offset, key, rest, j, s)
  BY <1>2, <1>5, <1>8, <1>9, <1>14, <1>15 DEF PutBetween
<1>17. PICK newPath, newUp : IsSplit(split, newPath, newUp, log, key, rest, s, j)
  BY <1>7, <1>16, SplitShape
<1>18. PICK mid : mid = Len(split)
  OBVIOUS
<1>19. /\ Shape(split, newPath, newUp, log) /\ mid \in 1 .. Len(split)
       /\ newPath[mid] = s /\ (Agreeing(Append(log, key)) => Begins(s, key))
       /\ j < Len(rest) => Slot(rest[j + 1]) \notin DOMAIN split[mid].next
  BY <1>17, <1>18 DEF IsSplit
<1>20. /\ s \in Seq(Codes) /\ Len(s) = k + j /\ Fits(s, key)
       /\ j \in 1 .. Len(rest)
  BY <1>10, <1>15 DEF IsParting
<1>21. CASE j = Len(rest)
  <2>1. Len(s) = Len(key)
    BY <1>11, <1>20, <1>21
  <2>2. Shape(WithValue(split, mid, key), newPath, newUp, Append(log, key))
    BY <1>19, <1>20, <2>1, GrowValue
  <2>3. nodes' = WithValue(split, mid, key)
    BY <1>8, <1>18, <1>21
  <2>4. Shape(nodes', newPath, newUp, log')
    BY <1>8, <2>2, <2>3
  <2>5. \E pp, u : Shape(nodes', pp, u, log')
    BY <2>4
  <2>6. QED
    BY <2>5 DEF TrieInv
<1>22. CASE j # Len(rest)
  <2>1. PICK left : left = From(rest, j + 1)
    OBVIOUS
  <2>2. j < Len(rest) /\ j \in 0 .. Len(key) - k
    <3>1. PICK size \in Nat : size = Len(rest)
      BY <1>11
    <3>2. PICK length \in Nat : length = Len(key)
      BY <1>11
    <3>3. j \in 1 .. size /\ j # size /\ size = length - k
      BY <1>11, <1>20, <1>22, <3>1, <3>2
    <3>4. j < size /\ j \in 0 .. length - k
      BY <3>3
    <3>5. QED
      BY <3>1, <3>2, <3>4, Zenon
  <2>3. left = From(key, (k + j) + 1)
    <3>1. rest = From(key, k + 1)
      BY <1>3, <1>10
    <3>2. QED
      BY <1>0, <2>1, <2>2, <3>1, FromTwice
  <2>4. left[1] = rest[j + 1]
    <3>1. j \in 0 .. Len(rest)
      BY <1>20
    <3>2. Head(left) = rest[j + 1]
      BY <1>11, <2>1, <2>2, <3>1, RestIs
    <3>3. left \in Seq(Codes) /\ left # <<>>
      BY <1>11, <2>1, <2>2, <3>1, RestIs
    <3>4. QED
      BY <3>2, <3>3
  <2>5. Slot(left[1]) \notin DOMAIN split[mid].next
    BY <1>19, <2>2, <2>4
  <2>6. Len(newPath[mid]) < Len(key) /\ left = From(key, Len(newPath[mid]) + 1)
    <3>1. Len(s) < Len(key)
      BY <1>11, <1>20, <2>2
    <3>2. left = From(key, Len(s) + 1)
      BY <1>20, <2>3
    <3>3. QED
      BY <1>19, <3>1, <3>2
  <2>7. \E pp, u : Shape(WithLeaf(split, mid, left, key), pp, u, Append(log, key))
    BY <1>19, <1>20, <2>5, <2>6, GrowLeaf
  <2>8. nodes' = WithLeaf(split, mid, left, key)
    BY <1>8, <1>18, <1>22, <2>1
  <2>9. \E pp, u : Shape(nodes', pp, u, log')
    BY <1>8, <2>7, <2>8
  <2>10. QED
    BY <2>9 DEF TrieInv
<1>23. QED
  BY <1>21, <1>22

LEMMA TrieStep == TrieInv /\ [Next]_vars => TrieInv'
<1> SUFFICES ASSUME TrieInv, [Next]_vars PROVE TrieInv'
  OBVIOUS
<1>1. PICK path, up : Shape(nodes, path, up, log)
  BY DEF TrieInv
<1>2. CASE Next
  <2>1. PICK key \in Keys : AppendToNode(key) \/ AppendLeaf(key) \/ AppendSplit(key)
    BY <1>2 DEF Next
  <2>2. CASE AppendToNode(key)
    BY <1>1, <2>2, KeepsAtNode
  <2>3. CASE AppendLeaf(key)
    BY <1>1, <2>3, KeepsAtLeaf
  <2>4. CASE AppendSplit(key)
    BY <1>1, <2>4, KeepsAtSplit
  <2>5. QED
    BY <2>1, <2>2, <2>3, <2>4
<1>3. CASE UNCHANGED vars
  BY <1>3 DEF TrieInv, vars
<1>4. QED
  BY <1>2, <1>3

THEOREM TrieCorrect == Spec => []TrieInv
<1>1. QED
  BY TrieInit, TrieStep, PTL DEF Spec

-----------------------------------------------------------------------------
(* What the invariant says of the nodes *)

LEMMA TrieType == TrieInv => TypeOK
<1> SUFFICES ASSUME TrieInv PROVE TypeOK
  OBVIOUS
<1>1. PICK path, up : Shape(nodes, path, up, log)
  BY DEF TrieInv
<1>2. Tree(nodes, path, up) /\ log \in Seq(Keys)
  BY <1>1 DEF Shape
<1>3. NodeIds = 1 .. Len(nodes)
  <2>1. nodes \in Seq(NodeSet)
    BY <1>2 DEF Tree
  <2>2. QED
    BY <2>1 DEF NodeIds
<1>4. ASSUME NEW n \in 1 .. Len(nodes)
      PROVE  /\ DOMAIN nodes[n] = {"next", "offset", "data"}
             /\ DOMAIN nodes[n].next \subseteq 0 .. Size - 1
             /\ Range(nodes[n].next) \subseteq (1 .. Len(nodes)) \ {1}
             /\ nodes[n].offset \in Seq(Chars) /\ nodes[n].data \in Seq(Keys)
             /\ n # 1 => nodes[n].offset # <<>>
  <2>1. /\ nodes[n] \in NodeSet /\ nodes[n].next \in Tables
        /\ nodes[n].offset \in Seq(Codes) /\ nodes[n].data \in Seq(Keys)
    BY <1>2, TreeIs
  <2>2. DOMAIN nodes[n] = {"next", "offset", "data"}
    BY <2>1 DEF NodeSet
  <2>3. DOMAIN nodes[n].next \subseteq 0 .. Size - 1
    BY <2>1, TableIs
  <2>4. Range(nodes[n].next) \subseteq (1 .. Len(nodes)) \ {1}
    <3>1. ASSUME NEW slot \in DOMAIN nodes[n].next
          PROVE  nodes[n].next[slot] \in (1 .. Len(nodes)) \ {1}
      <4>1. nodes[n].next[slot] \in 2 .. Len(nodes)
        BY <1>2, ChildIs
      <4>2. nodes[n].next[slot] \in 1 .. Len(nodes)
        BY <1>2, ChildIs
      <4>3. \A x \in 2 .. Len(nodes) : x # 1
        OBVIOUS
      <4>4. QED
        BY <4>1, <4>2, <4>3
    <3>2. QED
      BY <3>1 DEF Range
  <2>5. nodes[n].offset \in Seq(Chars)
    BY <2>1 DEF Codes
  <2>6. n # 1 => nodes[n].offset # <<>>
    BY <1>2, BelowIs
  <2>7. QED
    BY <2>1, <2>2, <2>3, <2>4, <2>5, <2>6
<1>5. QED
  BY <1>2, <1>3, <1>4 DEF TypeOK, Root

\* Tables hold nodes, at slots they have, and no node but the root lacks a substring
\* (_irs_dictionary_node_initialize, irs_dictionary_append_to_node).
THEOREM DictionaryTypeCorrect == Spec => []TypeOK
<1>1. QED
  BY TrieCorrect, TrieType, PTL

LEMMA TrieTogether == TrieInv => TogetherOnce
<1> SUFFICES ASSUME TrieInv, OneCase PROVE TogetherOnce
  BY DEF TogetherOnce
<1>1. PICK path, up : Shape(nodes, path, up, log)
  BY DEF TrieInv
<1>2. Tree(nodes, path, up) /\ Exact(nodes, path, log)
  BY <1>1 DEF Shape, OneCase, Agreeing, Appended
<1>3. NodeIds = 1 .. Len(nodes)
  <2>1. nodes \in Seq(NodeSet)
    BY <1>2 DEF Tree
  <2>2. QED
    BY <2>1 DEF NodeIds
<1>4. ASSUME NEW n \in 1 .. Len(nodes), NEW u \in Range(nodes[n].data)
      PROVE  u = path[n]
  <2>1. nodes[n].data = Copies(Times(path[n], log), path[n])
    BY <1>2 DEF Exact
  <2>2. QED
    BY <2>1 DEF Range, Copies
<1>5. ASSUME NEW n \in 1 .. Len(nodes), NEW m \in 1 .. Len(nodes), path[n] = path[m]
      PROVE  n = m
  BY <1>2, <1>5, TreeBranches, PathsDiffer
<1>6. ASSUME NEW n \in 1 .. Len(nodes), NEW m \in 1 .. Len(nodes),
             NEW u \in Range(nodes[n].data), NEW v \in Range(nodes[m].data)
      PROVE  u = v <=> n = m
  <2>1. u = path[n] /\ v = path[m]
    BY <1>4
  <2>2. QED
    BY <1>5, <2>1
<1>7. QED
  BY <1>3, <1>6 DEF TogetherOnce

\* Appends that split the way of a key never scatter its values, and never put two
\* keys together, unless keys differ in case only (irs_dictionary_append_to_node).
THEOREM TogetherOnceCorrect == Spec => []TogetherOnce
<1>1. QED
  BY TrieCorrect, TrieTogether, PTL

-----------------------------------------------------------------------------
(* What get finds *)

\* Where the loop of get may be: if there is a node for s, on the way there.
Looks(ns, path, s) ==
    {at \in [used : Nat, node : 1 .. Len(ns)] :
        /\ Len(path[at.node]) = at.used
        /\ at.used # 0 => path[at.node][1] = s[1]
        /\ \A n \in 1 .. Len(ns) : path[n] = s => Begins(path[at.node], s)}

LEMMA SkipIs ==
    ASSUME NEW path, NEW up, Tree(nodes, path, up), NEW s \in Seq(Codes),
           NEW at \in Looks(nodes, path, s)
    PROVE  /\ Skip(s, at) \in Looks(nodes, path, s)
           /\ \/ Skip(s, at) = at
              \/ at.used < Len(s) /\ at.used < Skip(s, at).used
           /\ \A n \in 1 .. Len(nodes) :
                path[n] = s /\ Skip(s, at) = at => at.node = n
<1> DEFINE c == s[at.used + 1]
           next == Child(at.node, c)
           Goes == at.used < Len(s) /\ HasChild(at.node, c)
<1>1. /\ at.used \in Nat /\ at.node \in 1 .. Len(nodes)
      /\ Len(path[at.node]) = at.used
      /\ at.used # 0 => path[at.node][1] = s[1]
      /\ \A n \in 1 .. Len(nodes) : path[n] = s => Begins(path[at.node], s)
  BY DEF Looks
<1>2. Skip(s, at) = IF Goes THEN Place(at.used + Len(nodes[next].offset), next) ELSE at
  BY DEF Skip
<1>3. PICK p \in Seq(Codes) : p = path[at.node] /\ Len(p) = at.used
  BY <1>1, TreeIs
<1>4. at.used < Len(s) => c \in Codes /\ c = After(p, s)
  <2>1. ASSUME at.used < Len(s)
        PROVE  c \in Codes
    <3>1. at.used + 1 \in 1 .. Len(s)
      BY <1>1, <2>1
    <3>2. QED
      BY <3>1
  <2>2. c = After(p, s)
    BY <1>3 DEF After
  <2>3. QED
    BY <2>1, <2>2
<1> HIDE DEF c
<1>5. ASSUME NEW n \in 1 .. Len(nodes), path[n] = s, at.node # n
      PROVE  at.used < Len(s) /\ HasChild(at.node, c) /\ Begins(path[next], s)
  <2>1. Begins(path[at.node], path[n]) /\ Begins(p, s)
    BY <1>1, <1>3, <1>5
  <2>2. PICK m \in 2 .. Len(nodes) : up[m] = at.node /\ Begins(path[m], path[n])
    BY <1>1, <1>5, <2>1, TreeBranches, WayDown
  <2>3. Begins(path[m], s)
    BY <1>5, <2>2
  <2>4. PICK q \in Seq(Codes) : q = path[m]
    <3>1. m \in 1 .. Len(nodes)
      BY BelowIs
    <3>2. QED
      BY <3>1, TreeIs
  <2>5. Len(p) < Len(q) /\ After(p, q) = nodes[m].offset[1]
    <3>1. Len(path[up[m]]) < Len(path[m])
      BY PathBelow
    <3>2. After(path[up[m]], path[m]) = nodes[m].offset[1]
      BY AfterIs
    <3>3. path[up[m]] = p /\ path[m] = q
      BY <1>3, <2>2, <2>4
    <3>4. QED
      BY <3>1, <3>2, <3>3
  <2>6. Begins(q, s)
    BY <2>3, <2>4
  <2>7. at.used < Len(s) /\ After(p, q) = After(p, s)
    <3>1. Len(p) + 1 \in 1 .. Len(q) /\ Len(q) <= Len(s)
      BY <2>5, <2>6 DEF Begins
    <3>2. q[Len(p) + 1] = s[Len(p) + 1]
      BY <2>6, <3>1 DEF Begins
    <3>3. at.used < Len(s)
      BY <1>3, <3>1
    <3>4. QED
      BY <3>2, <3>3 DEF After
  <2>8. c = nodes[m].offset[1]
    BY <1>4, <2>5, <2>7
  <2>9. /\ Slot(nodes[m].offset[1]) \in DOMAIN nodes[up[m]].next
        /\ nodes[up[m]].next[Slot(nodes[m].offset[1])] = m
    BY BelowIs
  <2>10. HasChild(at.node, c) /\ next = m
    BY <2>2, <2>8, <2>9 DEF HasChild, Child
  <2>11. QED
    BY <2>3, <2>7, <2>10
<1>6. CASE ~ Goes
  <2>1. Skip(s, at) = at
    BY <1>2, <1>6
  <2>2. \A n \in 1 .. Len(nodes) : path[n] = s => at.node = n
    BY <1>5, <1>6
  <2>3. QED
    BY <2>1, <2>2
<1>7. CASE Goes
  <2>1. c \in Codes /\ HasChild(at.node, c) /\ at.used < Len(s) /\ c = After(p, s)
    BY <1>4, <1>7
  <2>2. PICK offset : offset = nodes[next].offset
    OBVIOUS
  <2>3. IsNext(path, up, at.node, c, next, offset)
    BY <1>1, <2>1, <2>2, NextIs
  <2>4. /\ next \in 1 .. Len(nodes) /\ offset \in Seq(Codes) /\ offset # <<>>
        /\ offset[1] = c /\ path[next] = p \o offset
    BY <1>3, <2>3 DEF IsNext
  <2> HIDE DEF next
  <2>5. PICK size \in Nat : size = Len(offset) /\ size # 0
    BY <2>4
  <2>6. PICK q \in Seq(Codes) : q = path[next] /\ q = p \o offset
    BY <2>4, TreeIs
  <2>7. Len(q) = at.used + size
    <3>1. Len(p \o offset) = Len(p) + Len(offset)
      BY <2>4, ConcatIs
    <3>2. Len(q) = Len(p) + size
      BY <2>5, <2>6, <3>1
    <3>3. QED
      BY <1>3, <3>2
  <2>8. q[1] = s[1]
    <3>1. CASE at.used = 0
      <4>1. 1 \in 1 .. Len(offset) /\ Len(p) = 0
        BY <1>3, <2>5, <3>1
      <4>2. (p \o offset)[Len(p) + 1] = offset[1]
        BY <2>4, <4>1, ConcatIs
      <4>3. After(p, s) = s[1]
        BY <4>1 DEF After
      <4>4. Len(p) + 1 = 1
        BY <4>1
      <4>5. QED
        BY <2>1, <2>4, <2>6, <4>2, <4>3, <4>4
    <3>2. CASE at.used # 0
      <4>1. 1 \in 1 .. Len(p)
        BY <1>1, <1>3, <3>2
      <4>2. (p \o offset)[1] = p[1]
        BY <2>4, <4>1, ConcatIs
      <4>3. QED
        BY <1>1, <1>3, <2>6, <3>2, <4>2
    <3>3. QED
      BY <3>1, <3>2
  <2>9. ASSUME NEW n \in 1 .. Len(nodes), path[n] = s
        PROVE  Begins(q, s)
    <3>1. at.node # n
      BY <1>3, <2>1, <2>9
    <3>2. QED
      BY <1>5, <2>6, <2>9, <3>1
  <2>10. PICK used \in Nat : used = at.used + size
    BY <1>1
  <2>11. Place(used, next) \in Looks(nodes, path, s)
    <3>1. Len(path[next]) = used /\ path[next][1] = s[1]
      BY <2>6, <2>7, <2>8, <2>10
    <3>2. \A n \in 1 .. Len(nodes) : path[n] = s => Begins(path[next], s)
      BY <2>6, <2>9
    <3>3. QED
      BY <2>4, <3>1, <3>2 DEF Looks, Place
  <2>12. Skip(s, at) = Place(used, next)
    BY <1>2, <1>7, <2>2, <2>5, <2>10
  <2>13. at.used < used /\ Place(used, next).used = used
    BY <1>1, <2>5, <2>10 DEF Place
  <2>14. Skip(s, at) # at
    BY <1>1, <2>12, <2>13
  <2>15. QED
    BY <2>1, <2>11, <2>12, <2>13, <2>14
<1>8. QED
  BY <1>6, <1>7

LEMMA ReachedIs ==
    ASSUME NEW path, NEW up, Tree(nodes, path, up), NEW s \in Seq(Codes)
    PROVE  /\ Reached(s) \in Looks(nodes, path, s)
           /\ Skip(s, Reached(s)) = Reached(s)
<1> DEFINE S == Looks(nodes, path, s)
           N == Len(s)
           first == Place(0, Root)
           skip == [at \in S |-> Skip(s, at)]
           used == [at \in S |-> at.used]
           step == [x \in (1 .. N) \X S |-> skip[x[2]]]
           Is(f) == f = [round \in 0 .. N |->
                            IF round = 0 THEN first ELSE Skip(s, f[round - 1])]
           at == CHOOSE f : Is(f)
<1>1. N \in Nat /\ first \in S
  <2>1. path[1] = <<>> /\ 1 \in 1 .. Len(nodes)
    BY TreeIs DEF Tree
  <2>2. Begins(<<>>, s) /\ Len(<<>>) = 0
    BY DEF Begins
  <2>3. QED
    BY <2>1, <2>2 DEF Looks, Place, Root
<1>2. \A v \in S : skip[v] = Skip(s, v) /\ used[v] = v.used
  OBVIOUS
<1>3. \A v \in S : /\ skip[v] \in S /\ used[v] \in Nat
                   /\ skip[v] = v \/ (used[v] < N /\ used[v] < used[skip[v]])
  <2>1. TAKE v \in S
  <2>2. /\ Skip(s, v) \in S
        /\ Skip(s, v) = v \/ (v.used < N /\ v.used < Skip(s, v).used)
    BY SkipIs
  <2>3. v.used \in Nat
    BY DEF Looks
  <2> HIDE DEF S, skip, used, N
  <2>4. QED
    BY <1>2, <2>2, <2>3
<1> HIDE DEF S, N, first, skip, used
<1>4. IsLoop(N, S, first, step)
  <2>1. ASSUME NEW n \in 1 .. N, NEW v \in S
        PROVE  step[<<n, v>>] \in S
    BY <1>3
  <2> HIDE DEF step
  <2>2. QED
    BY <1>1, <2>1 DEF IsLoop
<1>5. PICK g : IsRun(g, N, S, first, step)
  <2> HIDE DEF step
  <2>1. QED
    BY <1>4, RecursiveFunction
<1>6. ASSUME NEW n \in 1 .. N
      PROVE  g[n] = Skip(s, g[n - 1])
  <2>1. g[n - 1] \in S /\ g[n] = step[<<n, g[n - 1]>>]
    <3>1. n - 1 \in 0 .. N
      BY <1>1
    <3> HIDE DEF step
    <3>2. QED
      BY <1>5, <3>1 DEF IsRun
  <2>2. step[<<n, g[n - 1]>>] = skip[g[n - 1]]
    BY <2>1
  <2>3. QED
    BY <1>2, <2>1, <2>2
<1> HIDE DEF step
<1>7. Is(g)
  <2>1. ASSUME NEW n \in 0 .. N
        PROVE  g[n] = IF n = 0 THEN first ELSE Skip(s, g[n - 1])
    <3>1. CASE n = 0
      BY <1>5, <3>1 DEF IsRun
    <3>2. CASE n \in 1 .. N
      BY <1>6, <3>2
    <3>3. QED
      BY <1>1, <3>1, <3>2
  <2>2. QED
    BY <1>5, <2>1 DEF IsRun
<1>8. Is(at)
  <2> HIDE DEF Is
  <2>1. QED
    BY <1>7
<1>9. Reached(s) = at[N]
  BY DEF Reached, N, first
<1> HIDE DEF at
<1>10. at[0] = first
  <2>1. 0 \in 0 .. N
    BY <1>1
  <2>2. QED
    BY <1>8, <2>1
<1>11. ASSUME NEW r \in 1 .. N, at[r - 1] \in S
       PROVE  at[r] = skip[at[r - 1]]
  <2>1. r \in 0 .. N /\ r # 0
    BY <1>1
  <2>2. at[r] = Skip(s, at[r - 1])
    BY <1>8, <2>1
  <2>3. QED
    BY <1>2, <1>11, <2>2
<1> HIDE DEF Is
<1>12. at[N] \in S /\ skip[at[N]] = at[N]
  <2>1. \A r \in 1 .. N : at[r - 1] \in S => at[r] = skip[at[r - 1]]
    BY <1>11
  <2>2. Rounds(at, N, S, skip, used)
    BY <1>1, <1>3, <1>10, <2>1 DEF Rounds
  <2>3. QED
    BY <2>2, RunEnds
<1>13. QED
  BY <1>2, <1>9, <1>12 DEF S

\* The end of a string is what is left of it after its beginning.
LEMMA EndIs ==
    ASSUME NEW p \in Seq(Codes), NEW q \in Seq(Codes)
    PROVE  /\ From(p \o q, Len(p \o q) - Len(q) + 1) = q
           /\ q # <<>> => (p \o q)[Len(p \o q)] = q[Len(q)]
<1>1. PICK s \in Seq(Codes) :
          /\ s = p \o q /\ Len(s) = Len(p) + Len(q)
          /\ \A i \in 1 .. Len(q) : s[Len(p) + i] = q[i]
  BY ConcatIs
<1>2. Len(p) \in 0 .. Len(s) /\ Len(s) - Len(q) = Len(p) /\ Len(s) - Len(p) = Len(q)
  BY <1>1
<1>3. /\ From(s, Len(p) + 1) \in Seq(Codes)
      /\ Len(From(s, Len(p) + 1)) = Len(q)
      /\ \A i \in 1 .. Len(q) : From(s, Len(p) + 1)[i] = s[Len(p) + i]
  <2>1. PICK k \in 0 .. Len(s) : k = Len(p)
    BY <1>2
  <2>2. /\ From(s, k + 1) \in Seq(Codes)
        /\ Len(From(s, k + 1)) = Len(s) - k
        /\ \A i \in 1 .. Len(s) - k : From(s, k + 1)[i] = s[k + i]
    BY <2>1, RestIs
  <2>3. QED
    BY <1>2, <2>1, <2>2
<1>4. PICK e \in Seq(Codes) :
          /\ e = From(s, Len(p) + 1) /\ Len(e) = Len(q)
          /\ \A i \in 1 .. Len(q) : e[i] = s[Len(p) + i]
  BY <1>3
<1>5. e = q
  BY <1>1, <1>4, SameString
<1>6. From(s, Len(s) - Len(q) + 1) = q
  BY <1>2, <1>4, <1>5
<1>7. ASSUME q # <<>>
      PROVE  s[Len(s)] = q[Len(q)]
  <2>1. Len(q) \in 1 .. Len(q)
    BY <1>7
  <2>2. QED
    BY <1>1, <2>1
<1>8. QED
  BY <1>1, <1>6, <1>7

\* A lookup that ends with a node has the length, the first and the last character of
\* the string that leads there.
LEMMA EndsIs ==
    ASSUME NEW path, NEW up, Tree(nodes, path, up), NEW s \in Seq(Codes) \ {<<>>},
           Ends(s)
    PROVE  /\ Reached(s).node \in 1 .. Len(nodes)
           /\ Len(path[Reached(s).node]) = Len(s)
           /\ path[Reached(s).node][1] = s[1]
           /\ path[Reached(s).node][Len(s)] = s[Len(s)]
<1>1. PICK at : at = Reached(s)
  OBVIOUS
<1>2. at \in Looks(nodes, path, s)
  BY <1>1, ReachedIs
<1>3. /\ at.node \in 1 .. Len(nodes) /\ Len(path[at.node]) = at.used
      /\ at.used # 0 => path[at.node][1] = s[1]
  BY <1>2 DEF Looks
<1>4. PICK offset : offset = nodes[at.node].offset
  OBVIOUS
<1>5. at.used = Len(s) /\ offset = From(s, Len(s) - Len(offset) + 1)
  BY <1>1, <1>4 DEF Ends
<1>6. Len(s) \in Nat /\ Len(s) # 0
  OBVIOUS
<1>7. at.node \in 2 .. Len(nodes)
  <2>1. at.node # 1
    <3>1. path[1] = <<>> /\ Len(<<>>) = 0
      BY DEF Tree
    <3>2. QED
      BY <1>3, <1>5, <1>6, <3>1
  <2>2. QED
    BY <1>3, <2>1
<1>8. /\ offset \in Seq(Codes) /\ offset # <<>> /\ up[at.node] \in 1 .. Len(nodes)
      /\ path[at.node] = path[up[at.node]] \o offset
  <2>1. /\ offset \in Seq(Codes) /\ offset # <<>> /\ up[at.node] \in 1 .. Len(nodes)
    BY <1>4, <1>7, BelowIs
  <2>2. path[at.node] = path[up[at.node]] \o nodes[at.node].offset
    BY <1>7 DEF Tree
  <2>3. path[at.node] = path[up[at.node]] \o offset
    BY <1>4, <2>2
  <2>4. QED
    BY <2>1, <2>3
<1>9. PICK p \in Seq(Codes), q \in Seq(Codes) :
          p = path[up[at.node]] /\ q = path[at.node] /\ q = p \o offset
  <2>1. path[up[at.node]] \in Seq(Codes) /\ path[at.node] \in Seq(Codes)
    BY <1>3, <1>8, TreeIs
  <2>2. QED
    BY <1>8, <2>1
<1>10. q[Len(q)] = offset[Len(offset)] /\ Len(offset) <= Len(q) /\ Len(q) = Len(s)
  <2>1. (p \o offset)[Len(p \o offset)] = offset[Len(offset)]
    BY <1>8, EndIs
  <2>2. Len(p \o offset) = Len(p) + Len(offset)
    BY <1>8, ConcatIs
  <2>3. Len(q) = Len(p) + Len(offset)
    BY <1>9, <2>2
  <2>4. Len(q) = Len(s)
    BY <1>3, <1>5, <1>9
  <2>5. Len(offset) <= Len(q)
    BY <1>8, <2>3
  <2>6. QED
    BY <1>9, <2>1, <2>4, <2>5
<1>11. offset[Len(offset)] = s[Len(s)]
  <2>1. PICK size \in Nat : size = Len(offset) /\ size # 0 /\ size <= Len(s)
    BY <1>8, <1>10
  <2>2. PICK k \in 0 .. Len(s) : k = Len(s) - size
    <3>1. PICK N \in Nat : N = Len(s)
      BY <1>6
    <3>2. N - size \in 0 .. N
      BY <2>1, <3>1
    <3>3. QED
      BY <3>1, <3>2
  <2>3. \A i \in 1 .. Len(s) - k : From(s, k + 1)[i] = s[k + i]
    BY <2>2, RestIs
  <2>4. size \in 1 .. Len(s) - k /\ k + size = Len(s)
    BY <2>1, <2>2
  <2>5. From(s, k + 1)[size] = s[k + size]
    BY <2>3, <2>4
  <2>6. offset = From(s, k + 1)
    BY <1>5, <2>1, <2>2
  <2>7. QED
    BY <2>1, <2>4, <2>5, <2>6
<1>12. QED
  BY <1>1, <1>3, <1>5, <1>6, <1>9, <1>10, <1>11

LEMMA GetIs ==
    ASSUME NEW s, NEW v \in Range(Get(s))
    PROVE  /\ Ends(s)
           /\ \E i \in DOMAIN nodes[Reached(s).node].data :
                v = nodes[Reached(s).node].data[i]
<1>1. Ends(s)
  <2>1. Range(<<>>) = {}
    BY DEF Range
  <2>2. QED
    BY <2>1 DEF Get
<1>2. v \in Range(nodes[Reached(s).node].data)
  BY <1>1 DEF Get
<1>3. QED
  BY <1>1, <1>2 DEF Range

LEMMA TriePlausible == TrieInv => LookupPlausible
<1> SUFFICES ASSUME TrieInv, NEW s \in Keys \cup Probes
             PROVE  \A v \in Range(Get(s)) :
                      /\ Len(v) = Len(s) /\ Head(v) = Head(s)
                      /\ ToLower(v[Len(v)]) = ToLower(s[Len(s)])
                      /\ \A u \in Range(Get(s)) : Folded(u) = Folded(v)
  BY DEF LookupPlausible
<1>1. PICK path, up : Shape(nodes, path, up, log)
  BY DEF TrieInv
<1>2. Tree(nodes, path, up) /\ Spells(nodes, path)
  BY <1>1 DEF Shape
<1>3. s \in Seq(Codes) \ {<<>>}
  BY KeysAreCodes
<1>4. PICK n : n = Reached(s).node
  OBVIOUS
<1>5. ASSUME NEW v \in Range(Get(s))
      PROVE  /\ n \in 1 .. Len(nodes) /\ Len(path[n]) = Len(s)
             /\ path[n][1] = s[1] /\ path[n][Len(s)] = s[Len(s)]
             /\ v \in Keys /\ IsSpelling(v, path[n])
  <2>1. Ends(s)
    BY <1>5, GetIs
  <2>2. PICK i \in DOMAIN nodes[n].data : v = nodes[n].data[i]
    BY <1>4, <1>5, GetIs
  <2>3. /\ n \in 1 .. Len(nodes) /\ Len(path[n]) = Len(s)
        /\ path[n][1] = s[1] /\ path[n][Len(s)] = s[Len(s)]
    BY <1>2, <1>3, <1>4, <2>1, EndsIs
  <2>4. nodes[n].data \in Seq(Keys)
    BY <1>2, <2>3, TreeIs
  <2>5. i \in 1 .. Len(nodes[n].data) /\ v \in Keys
    BY <2>2, <2>4
  <2>6. IsSpelling(v, path[n])
    BY <1>2, <2>2, <2>3, <2>5 DEF Spells
  <2>7. QED
    BY <2>3, <2>5, <2>6
<1>6. ASSUME NEW v \in Range(Get(s))
      PROVE  /\ Len(v) = Len(s) /\ Head(v) = Head(s)
             /\ ToLower(v[Len(v)]) = ToLower(s[Len(s)])
  <2>1. /\ n \in 1 .. Len(nodes) /\ Len(path[n]) = Len(s)
        /\ path[n][1] = s[1] /\ path[n][Len(s)] = s[Len(s)]
        /\ v \in Keys /\ IsSpelling(v, path[n])
    BY <1>5
  <2>2. PICK p \in Seq(Codes) : p = path[n]
    BY <1>2, <2>1, TreeIs
  <2>3. v \in Seq(Codes) \ {<<>>}
    BY <2>1, KeysAreCodes
  <2>4. Len(v) = Len(p) /\ Alike(p, v) /\ v[1] = p[1] /\ Len(p) = Len(s)
    BY <2>1, <2>2 DEF IsSpelling
  <2>5. Head(v) = v[1] /\ Head(s) = s[1] /\ Len(s) \in 1 .. Len(s)
    BY <1>3, <2>3
  <2>6. ToLower(p[Len(s)]) = ToLower(v[Len(s)])
    BY <2>4, <2>5 DEF Alike
  <2>7. p[1] = s[1] /\ p[Len(s)] = s[Len(s)]
    BY <2>1, <2>2
  <2>8. QED
    BY <2>4, <2>5, <2>6, <2>7
<1>7. ASSUME NEW v \in Range(Get(s)), NEW u \in Range(Get(s))
      PROVE  Folded(u) = Folded(v)
  <2>1. /\ n \in 1 .. Len(nodes) /\ v \in Keys /\ IsSpelling(v, path[n])
        /\ u \in Keys /\ IsSpelling(u, path[n])
    BY <1>5
  <2>2. u \in Seq(Chars) /\ v \in Seq(Chars)
    BY <2>1, KeysAssumption
  <2>3. Len(u) = Len(v) /\ Len(u) = Len(path[n]) /\ Alike(path[n], u) /\ Alike(path[n], v)
    BY <2>1 DEF IsSpelling
  <2>4. Alike(u, v)
    BY <2>3 DEF Alike
  <2>5. QED
    BY <2>2, <2>3, <2>4, FoldedAlike
<1>8. QED
  BY <1>6, <1>7

\* Whatever the cases of the keys, what a lookup finds is spelled, but for case, like
\* the string that leads to one node, and looks like what was asked for
\* (irs_dictionary_get, irs_dictionary_get_last_node_from_node).
THEOREM LookupPlausibleCorrect == Spec => []LookupPlausible
<1>1. QED
  BY TrieCorrect, TriePlausible, PTL

LEMMA TrieLookup == TrieInv => LookupExact
<1> SUFFICES ASSUME TrieInv, OneCase, NEW s \in Keys \cup Probes,
                    \A t \in Appended : ~ LookAlike(s, t)
             PROVE  Get(s) = [i \in 1 .. Times(s, log) |-> s]
  BY DEF LookupExact
<1>1. PICK path, up : Shape(nodes, path, up, log)
  BY DEF TrieInv
<1>2. Tree(nodes, path, up) /\ Exact(nodes, path, log) /\ log \in Seq(Keys)
  BY <1>1 DEF Shape, OneCase, Agreeing, Appended
<1>3. s \in Seq(Codes) \ {<<>>} /\ s \in Seq(Codes)
  BY KeysAreCodes
<1>4. PICK at : at = Reached(s)
  OBVIOUS
<1>5. at \in Looks(nodes, path, s) /\ Skip(s, at) = at
  BY <1>2, <1>3, <1>4, ReachedIs
<1>6. CASE \E x \in 1 .. Len(nodes) : path[x] = s
  <2>1. PICK x \in 1 .. Len(nodes) : path[x] = s
    BY <1>6
  <2>2. at.node = x
    BY <1>2, <1>3, <1>5, <2>1, SkipIs
  <2>3. at.used = Len(s)
    BY <1>5, <2>1, <2>2 DEF Looks
  <2>4. x \in 2 .. Len(nodes)
    <3>1. x # 1
      BY <1>2, <1>3, <2>1 DEF Tree
    <3>2. QED
      BY <2>1, <3>1
  <2>5. PICK p \in Seq(Codes), q \in Seq(Codes) : q = nodes[x].offset /\ s = p \o q
    <3>1. up[x] \in 1 .. Len(nodes) /\ nodes[x].offset \in Seq(Codes)
      BY <1>2, <2>4, BelowIs
    <3>2. path[up[x]] \in Seq(Codes)
      BY <1>2, <3>1, TreeIs
    <3>3. path[x] = path[up[x]] \o nodes[x].offset
      BY <1>2, <2>4 DEF Tree
    <3>4. QED
      BY <2>1, <3>1, <3>2, <3>3
  <2>6. q = From(s, Len(s) - Len(q) + 1)
    BY <2>5, EndIs
  <2>7. Ends(s)
    BY <1>4, <2>2, <2>3, <2>5, <2>6 DEF Ends
  <2>8. Get(s) = nodes[x].data
    BY <1>4, <2>2, <2>7 DEF Get
  <2>9. nodes[x].data = Copies(Times(s, log), s)
    BY <1>2, <2>1 DEF Exact
  <2>10. QED
    BY <2>8, <2>9 DEF Copies
<1>7. CASE ~ \E x \in 1 .. Len(nodes) : path[x] = s
  <2>1. s \notin Range(log)
    BY <1>2, <1>7 DEF Exact
  <2>2. Times(s, log) = 0
    BY <1>2, <2>1, TimesIs
  <2>3. [i \in 1 .. Times(s, log) |-> s] = <<>>
    <3>1. Copies(0, s) = <<>>
      BY CopiesAre
    <3>2. QED
      BY <2>2, <3>1 DEF Copies
  <2>4. Get(s) = <<>>
    <3>1. CASE ~ Ends(s)
      BY <3>1 DEF Get
    <3>2. CASE Ends(s)
      <4>1. PICK n : n = at.node
        OBVIOUS
      <4>2. /\ n \in 1 .. Len(nodes) /\ Len(path[n]) = Len(s)
            /\ path[n][1] = s[1] /\ path[n][Len(s)] = s[Len(s)]
        BY <1>2, <1>3, <1>4, <3>2, <4>1, EndsIs
      <4>3. path[n] \notin Appended
        <5>1. SUFFICES ASSUME path[n] \in Appended PROVE FALSE
          OBVIOUS
        <5>2. PICK q \in Seq(Codes) : q = path[n]
          BY <1>2, <4>2, TreeIs
        <5>3. Head(q) = q[1] /\ Head(s) = s[1]
          <6>1. q # <<>>
            BY <1>3, <4>2, <5>2
          <6>2. QED
            BY <1>3, <5>2, <6>1
        <5>4. s # q
          BY <1>7, <4>2, <5>2
        <5>5. LookAlike(s, q)
          BY <4>2, <5>2, <5>3, <5>4 DEF LookAlike
        <5>6. QED
          BY <5>1, <5>2, <5>5
      <4>4. Times(path[n], log) = 0
        BY <1>2, <4>3, TimesIs DEF Appended
      <4>5. nodes[n].data = Copies(0, path[n])
        BY <1>2, <4>2, <4>4 DEF Exact
      <4>6. nodes[n].data = <<>>
        BY <4>5, CopiesAre
      <4>7. QED
        BY <1>4, <3>2, <4>1, <4>6 DEF Get
    <3>3. QED
      BY <3>1, <3>2
  <2>5. QED
    BY <2>3, <2>4
<1>8. QED
  BY <1>6, <1>7

\* Appends lose no value and give none a second time, however they split the nodes:
\* a lookup of a string that looks like none of the keys finds what was appended
\* under it (irs_dictionary_append_to_node, irs_dictionary_get).
THEOREM LookupExactCorrect == Spec => []LookupExact
<1>1. QED
  BY TrieCorrect, TrieLookup, PTL

-----------------------------------------------------------------------------
(* Sequences that are put together, and slots in order *)

IsBoth(s, t, u, key) == Times(key, s \o u) = Times(key, s) + Times(key, u)

LEMMA TimesBothMore ==
    ASSUME NEW S, NEW s \in Seq(S), NEW u \in Seq(S), NEW last \in S, NEW key,
           NEW t, IsBoth(s, t, u, key)
    PROVE  IsBoth(s, t, Append(u, last), key)
<1>1. s \o Append(u, last) = Append(s \o u, last) /\ s \o u \in Seq(S)
  OBVIOUS
<1>2. PICK su \in Seq(S) : su = s \o u
  BY <1>1
<1>3. Times(key, su) = Times(key, s) + Times(key, u)
  BY <1>2 DEF IsBoth
<1>4. Times(key, s) \in Nat /\ Times(key, u) \in Nat /\ Times(key, su) \in Nat
  BY TimesIs
<1>5. /\ key = last => /\ Times(key, Append(u, last)) = Times(key, u) + 1
                       /\ Times(key, Append(su, last)) = Times(key, su) + 1
      /\ key # last => /\ Times(key, Append(u, last)) = Times(key, u)
                       /\ Times(key, Append(su, last)) = Times(key, su)
  BY TimesMore
<1>6. Times(key, Append(su, last)) = Times(key, s) + Times(key, Append(u, last))
  BY <1>3, <1>4, <1>5
<1>7. QED
  BY <1>1, <1>2, <1>6 DEF IsBoth

LEMMA TimesBoth ==
    ASSUME NEW S, NEW s \in Seq(S), NEW t \in Seq(S), NEW key
    PROVE  Times(key, s \o t) = Times(key, s) + Times(key, t)
<1> DEFINE Good == {n \in 0 .. Len(t) : IsBoth(s, t, SubSeq(t, 1, n), key)}
<1>1. PICK N \in Nat : N = Len(t)
  OBVIOUS
<1>2. 0 \in Good
  <2>1. SubSeq(t, 1, 0) = <<>> /\ s \o <<>> = s /\ <<>> \in Seq(S)
    OBVIOUS
  <2>2. Times(key, <<>>) = 0 /\ Times(key, s) \in Nat
    <3>1. Range(<<>>) = {}
      BY DEF Range
    <3>2. QED
      BY <2>1, <3>1, TimesIs
  <2>3. Times(key, s) = Times(key, s) + Times(key, <<>>)
    BY <2>2
  <2>4. IsBoth(s, t, <<>>, key)
    BY <2>1, <2>3 DEF IsBoth
  <2>5. 0 \in 0 .. Len(t)
    BY <1>1
  <2>6. QED
    BY <2>1, <2>4, <2>5
<1>3. ASSUME NEW n \in 0 .. N - 1, n \in Good
      PROVE  n + 1 \in Good
  <2>1. n + 1 \in 1 .. Len(t) /\ n + 1 \in 0 .. Len(t)
    BY <1>1
  <2>2. PICK u \in Seq(S), last \in S : u = SubSeq(t, 1, n) /\ last = t[n + 1]
    <3>1. t[n + 1] \in S
      BY <2>1
    <3>2. n \in 0 .. Len(t)
      BY <1>1
    <3>3. SubSeq(t, 1, n) \in Seq(S)
      BY <3>2
    <3>4. QED
      BY <3>1, <3>3, Zenon
  <2>3. SubSeq(t, 1, n + 1) = Append(u, last)
    <3>1. n \in 0 .. Len(t) - 1
      BY <1>1
    <3>2. SubSeq(t, 1, n + 1) = Append(SubSeq(t, 1, n), t[n + 1])
      BY <3>1
    <3>3. QED
      BY <2>2, <3>2
  <2>4. IsBoth(s, t, u, key)
    BY <1>3, <2>2
  <2>5. IsBoth(s, t, Append(u, last), key)
    BY <2>4, TimesBothMore
  <2>6. QED
    BY <2>1, <2>3, <2>5
<1>4. N \in Good
  <2>1. \A n \in 0 .. N - 1 : n \in Good => n + 1 \in Good
    BY <1>3
  <2> HIDE DEF Good
  <2>2. \A n \in 0 .. N : n \in Good
    BY <1>2, <2>1, Induction
  <2>3. QED
    BY <2>2
<1>5. SubSeq(t, 1, N) = t
  BY <1>1
<1>6. QED
  BY <1>4, <1>5 DEF IsBoth

\* A sequence of sequences is put together from the first to the last.
IsFlat(f, N, S, seqs) ==
    /\ f \in [0 .. N -> Seq(S)] /\ f[0] = <<>>
    /\ \A i \in 1 .. N : f[i] = f[i - 1] \o seqs[i]

LEMMA FlattenIs ==
    ASSUME NEW S, NEW N \in Nat, NEW seqs \in [1 .. N -> Seq(S)]
    PROVE  \E f : IsFlat(f, N, S, seqs) /\ FlattenSeq(seqs) = f[N]
<1> DEFINE step == [x \in (1 .. N) \X Seq(S) |-> x[2] \o seqs[x[1]]]
           Is(f) == f = [i \in 1 .. N |->
                            IF i = 1 THEN seqs[i] ELSE f[i - 1] \o seqs[i]]
           flat == CHOOSE f : Is(f)
<1>1. \A i \in 1 .. N : seqs[i] \in Seq(S)
  OBVIOUS
<1>2. IsLoop(N, Seq(S), <<>>, step)
  <2>1. ASSUME NEW n \in 1 .. N, NEW v \in Seq(S)
        PROVE  step[<<n, v>>] \in Seq(S)
    BY <1>1
  <2>2. <<>> \in Seq(S)
    OBVIOUS
  <2> HIDE DEF step
  <2>3. QED
    BY <2>1, <2>2 DEF IsLoop
<1>3. PICK g : IsRun(g, N, Seq(S), <<>>, step)
  <2> HIDE DEF step
  <2>1. QED
    BY <1>2, RecursiveFunction
<1>4. g \in [0 .. N -> Seq(S)] /\ g[0] = <<>>
  BY <1>3 DEF IsRun
<1>5. ASSUME NEW n \in 1 .. N
      PROVE  g[n] = g[n - 1] \o seqs[n] /\ g[n - 1] \in Seq(S)
  <2>1. g[n - 1] \in Seq(S) /\ g[n] = step[<<n, g[n - 1]>>]
    <3>1. n - 1 \in 0 .. N
      OBVIOUS
    <3> HIDE DEF step
    <3>2. QED
      BY <1>3, <3>1 DEF IsRun
  <2>2. QED
    BY <2>1
<1> HIDE DEF step
<1>6. IsFlat(g, N, S, seqs)
  BY <1>4, <1>5 DEF IsFlat
<1>7. Len(seqs) = N
  OBVIOUS
<1>8. FlattenSeq(seqs) = IF N = 0 THEN seqs ELSE flat[N]
  BY <1>7 DEF FlattenSeq
<1>9. CASE N = 0
  <2>1. seqs = <<>>
    BY <1>9
  <2>2. QED
    BY <1>4, <1>6, <1>8, <1>9, <2>1
<1>10. CASE N # 0
  <2> DEFINE h == [i \in 1 .. N |-> g[i]]
  <2>1. Is(h)
    <3>1. ASSUME NEW i \in 1 .. N
          PROVE  h[i] = IF i = 1 THEN seqs[i] ELSE h[i - 1] \o seqs[i]
      <4>1. h[i] = g[i - 1] \o seqs[i]
        BY <1>5
      <4>2. CASE i = 1
        <5>1. g[i - 1] = <<>>
          BY <1>4, <4>2
        <5>2. <<>> \o seqs[i] = seqs[i]
          BY <1>1
        <5>3. QED
          BY <4>1, <4>2, <5>1, <5>2
      <4>3. CASE i # 1
        <5>1. i - 1 \in 1 .. N
          BY <4>3
        <5>2. h[i - 1] = g[i - 1]
          BY <5>1
        <5>3. QED
          BY <4>1, <4>3, <5>2
      <4>4. QED
        BY <4>2, <4>3
    <3>2. h = [i \in 1 .. N |-> h[i]]
      OBVIOUS
    <3> HIDE DEF h
    <3>3. QED
      BY <3>1, <3>2
  <2>2. Is(flat)
    <3> HIDE DEF Is, h
    <3>1. QED
      BY <2>1
  <2> HIDE DEF flat, h
  <2>3. \A i \in 1 .. N : flat[i] = IF i = 1 THEN seqs[i] ELSE flat[i - 1] \o seqs[i]
    BY <2>2
  <2> DEFINE Good == {n \in 0 .. N : n # 0 => flat[n] = g[n]}
  <2>4. 0 \in Good
    OBVIOUS
  <2>5. ASSUME NEW n \in 0 .. N - 1, n \in Good
        PROVE  n + 1 \in Good
    <3>1. n + 1 \in 1 .. N /\ (n + 1) - 1 = n
      OBVIOUS
    <3>2. g[n + 1] = g[n] \o seqs[n + 1]
      BY <1>5, <3>1
    <3>3. CASE n = 0
      <4>1. flat[n + 1] = seqs[n + 1]
        BY <2>3, <3>1, <3>3
      <4>2. <<>> \o seqs[n + 1] = seqs[n + 1]
        BY <1>1, <3>1
      <4>3. g[n] = <<>>
        BY <1>4, <3>3
      <4>4. flat[n + 1] = g[n + 1]
        BY <3>2, <4>1, <4>2, <4>3, Zenon
      <4>5. QED
        BY <3>1, <4>4
    <3>4. CASE n # 0
      <4>1. flat[n + 1] = flat[n] \o seqs[n + 1]
        <5>1. n + 1 # 1
          BY <3>4
        <5>2. flat[n + 1] = IF n + 1 = 1 THEN seqs[n + 1]
                            ELSE flat[(n + 1) - 1] \o seqs[n + 1]
          BY <2>3, <3>1, Zenon
        <5>3. QED
          BY <3>1, <5>1, <5>2, Zenon
      <4>2. flat[n] = g[n]
        BY <2>5, <3>4
      <4>3. flat[n + 1] = g[n + 1]
        BY <3>2, <4>1, <4>2, Zenon
      <4>4. QED
        BY <3>1, <4>3
    <3>5. QED
      BY <3>3, <3>4
  <2> HIDE DEF Good
  <2>6. N \in Good
    <3>1. \A n \in 0 .. N - 1 : n \in Good => n + 1 \in Good
      BY <2>5
    <3>2. \A n \in 0 .. N : n \in Good
      BY <2>4, <3>1, Induction
    <3>3. QED
      BY <3>2
  <2>7. flat[N] = g[N]
    BY <1>10, <2>6 DEF Good
  <2>8. QED
    BY <1>6, <1>8, <1>10, <2>7
<1>11. QED
  BY <1>9, <1>10

\* A set of slots has one order, with each of them once.
IsAscending(order, S) ==
    /\ order \in [1 .. Cardinality(S) -> S]
    /\ \A i, j \in DOMAIN order : i < j => order[i] < order[j]

LEMMA AscendingExists ==
    ASSUME NEW N \in Nat, NEW S \in SUBSET (0 .. N - 1)
    PROVE  \E order : IsAscending(order, S)
<1> DEFINE Low(n) == {x \in S : x < n}
           Good == {n \in 0 .. N : \E order : IsAscending(order, Low(n))}
<1>1. \A n \in 0 .. N : IsFiniteSet(Low(n)) /\ Cardinality(Low(n)) \in Nat
  <2>1. IsFiniteSet(0 .. N - 1)
    BY FS_Interval
  <2>2. \A n \in 0 .. N : Low(n) \in SUBSET (0 .. N - 1)
    OBVIOUS
  <2> HIDE DEF Low
  <2>3. \A n \in 0 .. N : IsFiniteSet(Low(n))
    BY <2>1, <2>2, FS_Subset
  <2>4. QED
    BY <2>3, FS_CardinalityType
<1>2. 0 \in Good
  <2> DEFINE none == [i \in {} |-> 0]
  <2>1. Low(0) = {} /\ Cardinality({}) = 0
    <3>1. \A x \in S : ~ x < 0
      OBVIOUS
    <3>2. QED
      BY <3>1, FS_EmptySet
  <2>2. 1 .. 0 = {}
    OBVIOUS
  <2>3. IsAscending(none, Low(0))
    <3> HIDE DEF Low
    <3>1. none \in [1 .. 0 -> {}] /\ DOMAIN none = {}
      BY <2>2
    <3> HIDE DEF none
    <3>2. QED
      BY <2>1, <3>1 DEF IsAscending
  <2> HIDE DEF Low, none
  <2>4. QED
    BY <2>3
<1>3. ASSUME NEW n \in 0 .. N - 1, n \in Good
      PROVE  n + 1 \in Good
  <2>1. PICK order : IsAscending(order, Low(n))
    BY <1>3
  <2>2. n + 1 \in 0 .. N /\ n \in 0 .. N
    OBVIOUS
  <2>3. CASE n \notin S
    <3>1. Low(n + 1) = Low(n)
      <4>1. \A x \in S : x < n + 1 <=> x < n
        BY <2>3
      <4>2. QED
        BY <4>1
    <3> HIDE DEF Low
    <3>2. QED
      BY <2>1, <2>2, <3>1
  <2>4. CASE n \in S
    <3>1. Low(n + 1) = Low(n) \cup {n} /\ n \notin Low(n)
      <4>1. \A x \in S : x < n + 1 <=> x < n \/ x = n
        OBVIOUS
      <4>2. ~ n < n
        OBVIOUS
      <4>3. QED
        BY <2>4, <4>1, <4>2
    <3>2. \A x \in Low(n) : x < n
      OBVIOUS
    <3> HIDE DEF Low
    <3>3. PICK k \in Nat : k = Cardinality(Low(n))
      BY <1>1, <2>2
    <3>4. Cardinality(Low(n + 1)) = k + 1
      BY <1>1, <2>2, <3>1, <3>3, FS_AddElement
    <3> DEFINE more == [i \in 1 .. k + 1 |-> IF i = k + 1 THEN n ELSE order[i]]
    <3>5. order \in [1 .. k -> Low(n)] /\ \A i, j \in 1 .. k : i < j => order[i] < order[j]
      BY <2>1, <3>3 DEF IsAscending
    <3>6. /\ more[k + 1] = n
          /\ \A i \in 1 .. k : more[i] = order[i] /\ order[i] \in Low(n)
      BY <3>5
    <3>7. more \in [1 .. k + 1 -> Low(n + 1)]
      BY <3>1, <3>5
    <3> HIDE DEF more
    <3>8. ASSUME NEW i \in 1 .. k + 1, NEW j \in 1 .. k + 1, i < j
          PROVE  more[i] < more[j]
      <4>1. i \in 1 .. k
        BY <3>8
      <4>2. CASE j = k + 1
        BY <3>2, <3>6, <4>1, <4>2
      <4>3. CASE j \in 1 .. k
        BY <3>5, <3>6, <3>8, <4>1, <4>3
      <4>4. QED
        BY <4>2, <4>3
    <3>9. IsAscending(more, Low(n + 1))
      BY <3>4, <3>7, <3>8 DEF IsAscending
    <3>10. QED
      BY <2>2, <3>9
  <2>5. QED
    BY <2>3, <2>4
<1>4. N \in Good
  <2>1. \A n \in 0 .. N - 1 : n \in Good => n + 1 \in Good
    BY <1>3
  <2> HIDE DEF Good
  <2>2. QED
    BY <1>2, <2>1, Induction
<1>5. Low(N) = S
  <2>1. \A x \in S : x < N
    OBVIOUS
  <2>2. QED
    BY <2>1
<1> HIDE DEF Low
<1>6. QED
  BY <1>4, <1>5

LEMMA AscendingIs ==
    ASSUME NEW S \in SUBSET (0 .. Size - 1)
    PROVE  /\ Cardinality(S) \in Nat
           /\ Ascending(S) \in [1 .. Cardinality(S) -> S]
           /\ \A i, j \in 1 .. Cardinality(S) : i # j => Ascending(S)[i] # Ascending(S)[j]
           /\ \A x \in S : \E i \in 1 .. Cardinality(S) : Ascending(S)[i] = x
<1>1. IsFiniteSet(S)
  <2>1. IsFiniteSet(0 .. Size - 1)
    <3>1. 0 \in Int /\ Size - 1 \in Int
      BY DEF Size
    <3>2. QED
      BY <3>1, FS_Interval
  <2>2. QED
    BY <2>1, FS_Subset
<1>2. PICK k \in Nat : k = Cardinality(S)
  BY <1>1, FS_CardinalityType
<1>3. \E order : IsAscending(order, S)
  <2>1. Size \in Nat
    BY DEF Size
  <2>2. QED
    BY <2>1, AscendingExists
<1>4. \E order \in [1 .. Cardinality(S) -> S] :
        \A i, j \in DOMAIN order : i < j => order[i] < order[j]
  BY <1>3 DEF IsAscending
<1>5. PICK o : o = Ascending(S)
  OBVIOUS
<1>6. /\ o \in [1 .. k -> S]
      /\ \A i, j \in 1 .. k : i < j => o[i] < o[j]
  BY <1>2, <1>4, <1>5 DEF Ascending
<1>7. \A x \in S : x \in Nat
  OBVIOUS
<1>8. ASSUME NEW i \in 1 .. k, NEW j \in 1 .. k, i # j
      PROVE  o[i] # o[j]
  <2>1. o[i] \in Nat /\ o[j] \in Nat
    BY <1>6, <1>7
  <2>2. i < j \/ j < i
    BY <1>8
  <2>3. QED
    BY <1>6, <2>1, <2>2
<1>9. o \in Injection(1 .. k, S)
  BY <1>6, <1>8 DEF Injection, IsInjective
<1>10. Cardinality(1 .. k) = k
  BY FS_Interval
<1>11. o \in Surjection(1 .. k, S)
  BY <1>1, <1>2, <1>9, <1>10, FS_Injection
<1>12. \A x \in S : \E i \in 1 .. k : o[i] = x
  BY <1>11 DEF Surjection
<1>13. QED
  BY <1>2, <1>5, <1>6, <1>8, <1>12
\* Nothing but one of them has a value, or none has.
IsOnly(seqs, K, key, at, v) ==
    /\ v \in Nat /\ at \in 1 .. K + 1
    /\ \A i \in 1 .. K : Times(key, seqs[i]) = IF i = at THEN v ELSE 0

LEMMA FlattenOnly ==
    ASSUME NEW S, NEW K \in Nat, NEW seqs \in [1 .. K -> Seq(S)], NEW key,
           NEW at, NEW v, IsOnly(seqs, K, key, at, v)
    PROVE  /\ FlattenSeq(seqs) \in Seq(S)
           /\ Times(key, FlattenSeq(seqs)) = IF at <= K THEN v ELSE 0
<1>1. PICK f : IsFlat(f, K, S, seqs) /\ FlattenSeq(seqs) = f[K]
  BY FlattenIs
<1>2. f \in [0 .. K -> Seq(S)] /\ f[0] = <<>>
  BY <1>1 DEF IsFlat
<1> DEFINE Good == {n \in 0 .. K : Times(key, f[n]) = IF at <= n THEN v ELSE 0}
<1>3. 0 \in Good
  <2>1. <<>> \in Seq(S) /\ key \notin Range(<<>>)
    BY DEF Range
  <2>2. Times(key, <<>>) = 0
    BY <2>1, TimesIs
  <2>3. ~ at <= 0
    BY DEF IsOnly
  <2>4. QED
    BY <1>2, <2>2, <2>3
<1>4. ASSUME NEW n \in 0 .. K - 1, n \in Good
      PROVE  n + 1 \in Good
  <2>1. n + 1 \in 1 .. K /\ (n + 1) - 1 = n /\ n \in 0 .. K /\ n + 1 \in 0 .. K
    OBVIOUS
  <2>2. f[n] \in Seq(S) /\ seqs[n + 1] \in Seq(S)
    BY <1>2, <2>1
  <2>3. f[n + 1] = f[n] \o seqs[n + 1]
    BY <1>1, <2>1 DEF IsFlat
  <2>4. Times(key, f[n + 1]) = Times(key, f[n]) + Times(key, seqs[n + 1])
    BY <2>2, <2>3, TimesBoth
  <2>5. Times(key, f[n]) = IF at <= n THEN v ELSE 0
    BY <1>4
  <2>6. Times(key, seqs[n + 1]) = IF n + 1 = at THEN v ELSE 0
    BY <2>1 DEF IsOnly
  <2>7. v \in Nat /\ at \in Nat
    BY DEF IsOnly
  <2>8. Times(key, f[n + 1]) = IF at <= n + 1 THEN v ELSE 0
    BY <2>4, <2>5, <2>6, <2>7
  <2>9. QED
    BY <2>1, <2>8
<1>5. K \in Good
  <2>1. \A n \in 0 .. K - 1 : n \in Good => n + 1 \in Good
    BY <1>4
  <2> HIDE DEF Good
  <2>2. \A n \in 0 .. K : n \in Good
    BY <1>3, <2>1, Induction
  <2>3. QED
    BY <2>2
<1>6. f[K] \in Seq(S)
  BY <1>2
<1>7. QED
  BY <1>1, <1>5, <1>6

LEMMA FlattenType ==
    ASSUME NEW S, NEW K \in Nat, NEW seqs \in [1 .. K -> Seq(S)]
    PROVE  FlattenSeq(seqs) \in Seq(S)
<1>1. PICK f : IsFlat(f, K, S, seqs) /\ FlattenSeq(seqs) = f[K]
  BY FlattenIs
<1>2. f \in [0 .. K -> Seq(S)] /\ K \in 0 .. K
  BY <1>1 DEF IsFlat
<1>3. QED
  BY <1>1, <1>2

-----------------------------------------------------------------------------
(* The walk *)

\* The nodes below n, in the order of their slots, and what a walk meets below n
\* when below says what it meets below each of them.
Kids(ns, n) == [i \in DOMAIN Ascending(DOMAIN ns[n].next) |->
                   ns[n].next[Ascending(DOMAIN ns[n].next)[i]]]

Walk(ns, below, n) ==
    FlattenSeq([i \in DOMAIN Kids(ns, n) |->
                   <<Kids(ns, n)[i]>> \o below[Kids(ns, n)[i]]])

AreKids(kids, K, N, up, n) ==
    /\ K \in Nat /\ kids \in [1 .. K -> 2 .. N]
    /\ \A i, j \in 1 .. K : kids[i] = kids[j] => i = j
    /\ \A c \in 2 .. N : up[c] = n => \E i \in 1 .. K : kids[i] = c
    /\ \A i \in 1 .. K : up[kids[i]] = n

LEMMA KidsAre ==
    ASSUME NEW ns, NEW path, NEW up, Tree(ns, path, up), NEW n \in 1 .. Len(ns)
    PROVE  \E K : AreKids(Kids(ns, n), K, Len(ns), up, n)
<1>1. ns[n].next \in Tables
  BY TreeIs
<1>2. PICK next \in Tables : next = ns[n].next
  BY <1>1
<1>3. PICK slots \in SUBSET (0 .. Size - 1) : slots = DOMAIN next
  BY TableIs
<1>4. PICK K \in Nat : K = Cardinality(slots)
  BY AscendingIs
<1>5. PICK o : o = Ascending(slots)
  OBVIOUS
<1>6. /\ o \in [1 .. K -> slots]
      /\ \A i, j \in 1 .. K : i # j => o[i] # o[j]
      /\ \A x \in slots : \E i \in 1 .. K : o[i] = x
  BY <1>4, <1>5, AscendingIs
<1>7. PICK kids : kids = [i \in 1 .. K |-> next[o[i]]]
  OBVIOUS
<1>8. Kids(ns, n) = kids
  <2>1. DOMAIN o = 1 .. K
    BY <1>6
  <2>2. QED
    BY <1>2, <1>3, <1>5, <1>7, <2>1 DEF Kids
<1>9. \A x \in slots : /\ next[x] \in 2 .. Len(ns)
                       /\ up[next[x]] = n
                       /\ Slot(ns[next[x]].offset[1]) = x
  BY <1>2, <1>3, ChildIs
<1>10. \A i \in 1 .. K : kids[i] = next[o[i]] /\ o[i] \in slots
  BY <1>6, <1>7
<1>11. kids \in [1 .. K -> 2 .. Len(ns)]
  BY <1>7, <1>9, <1>10
<1>12. \A i \in 1 .. K : up[kids[i]] = n
  BY <1>9, <1>10
<1>13. ASSUME NEW i \in 1 .. K, NEW j \in 1 .. K, kids[i] = kids[j]
       PROVE  i = j
  <2>1. kids[i] = next[o[i]] /\ kids[j] = next[o[j]]
    BY <1>10
  <2>2. o[i] \in slots /\ o[j] \in slots
    BY <1>10
  <2>3. /\ Slot(ns[next[o[i]]].offset[1]) = o[i]
        /\ Slot(ns[next[o[j]]].offset[1]) = o[j]
    BY <1>9, <2>2
  <2>4. o[i] = o[j]
    BY <1>13, <2>1, <2>3, Zenon
  <2>5. QED
    BY <1>6, <2>4
<1>14. ASSUME NEW c \in 2 .. Len(ns), up[c] = n
       PROVE  \E i \in 1 .. K : kids[i] = c
  <2>1. Slot(ns[c].offset[1]) \in slots /\ next[Slot(ns[c].offset[1])] = c
    BY <1>2, <1>3, <1>14, BelowIs
  <2>2. PICK i \in 1 .. K : o[i] = Slot(ns[c].offset[1])
    BY <1>6, <2>1
  <2>3. QED
    BY <1>10, <2>1, <2>2
<1>15. AreKids(kids, K, Len(ns), up, n)
  BY <1>11, <1>12, <1>13, <1>14 DEF AreKids
<1>16. QED
  BY <1>8, <1>15

\* Of the nodes that lead on from n, just one leads to a node below n.
IsBelow(path, n, m) == m # n /\ Begins(path[n], path[m])

LEMMA BelowOnce ==
    ASSUME NEW N, NEW path, NEW up, Branches(N, path, up),
           NEW n \in 1 .. N, NEW m \in 1 .. N, NEW c \in 2 .. N, up[c] = n,
           Begins(path[c], path[m])
    PROVE  /\ IsBelow(path, n, m)
           /\ \A d \in 2 .. N : up[d] = n /\ Begins(path[d], path[m]) => c = d
<1>1. PICK p \in Seq(Codes) : p = path[n]
  BY BranchesAre
<1>2. PICK s \in Seq(Codes) : s = path[m]
  BY BranchesAre
<1>3. c \in 1 .. N
  BY BranchesAre
<1>4. PICK q \in Seq(Codes) : q = path[c]
  BY <1>3, BranchesAre
<1>5. Len(p) < Len(q) /\ Begins(p, q)
  BY <1>1, <1>4, BranchesAre
<1>6. Begins(q, s)
  BY <1>2, <1>4
<1>7. Begins(p, s) /\ Len(q) <= Len(s)
  BY <1>5, <1>6, BeginsTwice
<1>8. m # n
  <2>1. Len(p) # Len(s)
    BY <1>5, <1>7
  <2>2. QED
    BY <1>1, <1>2, <2>1
<1>9. After(p, q) = s[Len(p) + 1]
  BY <1>5, <1>6 DEF After, Begins
<1>10. ASSUME NEW d \in 2 .. N, up[d] = n, Begins(path[d], path[m])
       PROVE  c = d
  <2>1. d \in 1 .. N
    BY BranchesAre
  <2>2. PICK r \in Seq(Codes) : r = path[d]
    BY <2>1, BranchesAre
  <2>3. Len(p) < Len(r) /\ Begins(r, s)
    BY <1>1, <1>2, <1>10, <2>2, BranchesAre
  <2>4. After(p, r) = s[Len(p) + 1]
    BY <2>3 DEF After, Begins
  <2>5. After(path[up[c]], path[c]) = After(path[up[c]], path[d])
    BY <1>1, <1>4, <1>9, <2>2, <2>4
  <2>6. QED
    BY <1>10, <2>5 DEF Branches
<1>11. QED
  BY <1>1, <1>2, <1>7, <1>8, <1>10 DEF IsBelow

LEMMA OneKid ==
    ASSUME NEW N, NEW path, NEW up, Branches(N, path, up),
           NEW n \in 1 .. N, NEW m \in 1 .. N,
           NEW kids, NEW K, AreKids(kids, K, N, up, n)
    PROVE  \E at \in 1 .. K + 1 :
             /\ \A i \in 1 .. K : Begins(path[kids[i]], path[m]) <=> i = at
             /\ at <= K <=> IsBelow(path, n, m)
<1>1. /\ K \in Nat
      /\ \A i \in 1 .. K : kids[i] \in 2 .. N /\ up[kids[i]] = n
      /\ \A i, j \in 1 .. K : kids[i] = kids[j] => i = j
  BY DEF AreKids
<1>2. CASE IsBelow(path, n, m)
  <2>1. PICK c \in 2 .. N : up[c] = n /\ Begins(path[c], path[m])
    BY <1>2, WayDown DEF IsBelow
  <2>2. PICK at \in 1 .. K : kids[at] = c
    BY <2>1 DEF AreKids
  <2>3. ASSUME NEW i \in 1 .. K, Begins(path[kids[i]], path[m])
        PROVE  i = at
    <3>1. kids[i] \in 2 .. N /\ up[kids[i]] = n
      BY <1>1
    <3>2. c = kids[i]
      BY <2>1, <2>3, <3>1, BelowOnce
    <3>3. QED
      BY <1>1, <2>2, <3>2
  <2>4. Begins(path[kids[at]], path[m])
    BY <2>1, <2>2
  <2>5. at \in 1 .. K + 1 /\ at <= K
    BY <1>1
  <2>6. QED
    BY <1>2, <2>3, <2>4, <2>5
<1>3. CASE ~ IsBelow(path, n, m)
  <2>1. ASSUME NEW i \in 1 .. K, Begins(path[kids[i]], path[m])
        PROVE  FALSE
    <3>1. PICK c \in 2 .. N : c = kids[i] /\ up[c] = n
      BY <1>1
    <3>2. QED
      BY <1>3, <2>1, <3>1, BelowOnce
  <2>2. K + 1 \in 1 .. K + 1 /\ ~ K + 1 <= K /\ \A i \in 1 .. K : i # K + 1
    BY <1>1
  <2>3. QED
    BY <1>3, <2>1, <2>2
<1>4. QED
  BY <1>2, <1>3

\* A sequence with every node below n in it, once.
HasBelow(s, N, path, n) ==
    /\ s \in Seq(2 .. N)
    /\ \A m \in 1 .. N : Times(m, s) = IF IsBelow(path, n, m) THEN 1 ELSE 0

LEMMA KidFirst ==
    ASSUME NEW N, NEW path, NEW up, Branches(N, path, up),
           NEW c \in 2 .. N, NEW s, HasBelow(s, N, path, c)
    PROVE  /\ <<c>> \o s \in Seq(2 .. N)
           /\ \A m \in 1 .. N : Times(m, <<c>> \o s) =
                                  IF Begins(path[c], path[m]) THEN 1 ELSE 0
<1>1. s \in Seq(2 .. N) /\ <<c>> \in Seq(2 .. N) /\ <<>> \in Seq(2 .. N)
  BY DEF HasBelow
<1>2. <<c>> \o s \in Seq(2 .. N)
  BY <1>1
<1>3. ASSUME NEW m \in 1 .. N
      PROVE  Times(m, <<c>> \o s) = IF Begins(path[c], path[m]) THEN 1 ELSE 0
  <2>1. Times(m, <<c>> \o s) = Times(m, <<c>>) + Times(m, s)
    BY <1>1, TimesBoth
  <2>2. Times(m, s) = IF IsBelow(path, c, m) THEN 1 ELSE 0
    BY DEF HasBelow
  <2>3. Times(m, <<c>>) = IF m = c THEN 1 ELSE 0
    <3>1. <<c>> = Append(<<>>, c)
      OBVIOUS
    <3>2. Times(m, <<>>) = 0
      <4>1. m \notin Range(<<>>)
        BY DEF Range
      <4>2. QED
        BY <1>1, <4>1, TimesIs
    <3>3. /\ m = c => Times(m, Append(<<>>, c)) = Times(m, <<>>) + 1
          /\ m # c => Times(m, Append(<<>>, c)) = Times(m, <<>>)
      <4>1. PICK e \in Seq(2 .. N) : e = <<>>
        BY <1>1
      <4>2. /\ m = c => Times(m, Append(e, c)) = Times(m, e) + 1
            /\ m # c => Times(m, Append(e, c)) = Times(m, e)
        <5>1. PICK T : T = 2 .. N
          OBVIOUS
        <5>2. e \in Seq(T) /\ c \in T
          BY <5>1
        <5>3. QED
          BY <5>2, TimesMore
      <4>3. QED
        BY <4>1, <4>2
    <3>4. QED
      BY <3>1, <3>2, <3>3
  <2>4. CASE m = c
    <3>1. Begins(path[c], path[m])
      <4>1. c \in 1 .. N
        BY BranchesAre
      <4>2. PICK q \in Seq(Codes) : q = path[c]
        BY <4>1, BranchesAre
      <4>3. Begins(q, q)
        BY DEF Begins
      <4>4. QED
        BY <2>4, <4>2, <4>3
    <3>2. ~ IsBelow(path, c, m)
      BY <2>4 DEF IsBelow
    <3>3. QED
      BY <2>1, <2>2, <2>3, <2>4, <3>1, <3>2
  <2>5. CASE m # c
    <3>1. IsBelow(path, c, m) <=> Begins(path[c], path[m])
      BY <2>5 DEF IsBelow
    <3>2. QED
      BY <2>1, <2>2, <2>3, <2>5, <3>1
  <2>6. QED
    BY <2>4, <2>5
<1>4. QED
  BY <1>2, <1>3

LEMMA WalkHas ==
    ASSUME NEW ns, NEW path, NEW up, Tree(ns, path, up), NEW n \in 1 .. Len(ns),
           NEW below,
           \A c \in 2 .. Len(ns) : up[c] = n => HasBelow(below[c], Len(ns), path, c)
    PROVE  HasBelow(Walk(ns, below, n), Len(ns), path, n)
<1>1. PICK N \in Nat : N = Len(ns)
  BY TreeIs
<1>2. Branches(N, path, up)
  BY <1>1, TreeBranches
<1>3. PICK K : AreKids(Kids(ns, n), K, N, up, n)
  BY <1>1, KidsAre
<1>4. PICK kids : kids = Kids(ns, n)
  OBVIOUS
<1>5. /\ K \in Nat /\ kids \in [1 .. K -> 2 .. N]
      /\ \A i \in 1 .. K : kids[i] \in 2 .. N /\ up[kids[i]] = n
  BY <1>3, <1>4 DEF AreKids
<1>6. PICK seqs : seqs = [i \in 1 .. K |-> <<kids[i]>> \o below[kids[i]]]
  OBVIOUS
<1>7. Walk(ns, below, n) = FlattenSeq(seqs)
  <2>1. DOMAIN kids = 1 .. K
    BY <1>5
  <2>2. QED
    BY <1>4, <1>6, <2>1 DEF Walk
<1>8. ASSUME NEW i \in 1 .. K
      PROVE  /\ seqs[i] \in Seq(2 .. N)
             /\ \A m \in 1 .. N : Times(m, seqs[i]) =
                                    IF Begins(path[kids[i]], path[m]) THEN 1 ELSE 0
  <2>1. PICK c \in 2 .. N : c = kids[i]
    BY <1>5
  <2>2. HasBelow(below[c], N, path, c)
    BY <1>1, <1>5, <2>1
  <2>3. PICK s : s = below[c]
    OBVIOUS
  <2>4. seqs[i] = <<c>> \o s
    BY <1>6, <2>1, <2>3
  <2>5. /\ <<c>> \o s \in Seq(2 .. N)
        /\ \A m \in 1 .. N : Times(m, <<c>> \o s) =
                               IF Begins(path[c], path[m]) THEN 1 ELSE 0
    BY <1>2, <2>2, <2>3, KidFirst
  <2>6. QED
    BY <2>1, <2>4, <2>5
<1>9. seqs \in [1 .. K -> Seq(2 .. N)]
  BY <1>6, <1>8
<1>10. FlattenSeq(seqs) \in Seq(2 .. N)
  BY <1>5, <1>9, FlattenType
<1>11. ASSUME NEW m \in 1 .. N
       PROVE  Times(m, FlattenSeq(seqs)) = IF IsBelow(path, n, m) THEN 1 ELSE 0
  <2>1. n \in 1 .. N
    BY <1>1
  <2>2. PICK at \in 1 .. K + 1 :
          /\ \A i \in 1 .. K : Begins(path[kids[i]], path[m]) <=> i = at
          /\ at <= K <=> IsBelow(path, n, m)
    BY <1>2, <1>3, <1>4, <2>1, OneKid
  <2>3. \A i \in 1 .. K : Times(m, seqs[i]) = IF i = at THEN 1 ELSE 0
    BY <1>8, <2>2
  <2>4. IsOnly(seqs, K, m, at, 1)
    BY <1>5, <2>3 DEF IsOnly
  <2>5. Times(m, FlattenSeq(seqs)) = IF at <= K THEN 1 ELSE 0
    BY <1>5, <1>9, <2>4, FlattenOnly
  <2>6. QED
    BY <2>2, <2>5
<1>12. HasBelow(FlattenSeq(seqs), N, path, n)
  BY <1>10, <1>11 DEF HasBelow
<1>13. QED
  BY <1>1, <1>7, <1>12

\* A walk of every node: what it meets below a node is what it meets below those
\* under it, put together.
IsWalk(below, ns) == below = [n \in 1 .. Len(ns) |-> Walk(ns, below, n)]

LEMMA WalkSame ==
    ASSUME NEW ns, NEW path, NEW up, Tree(ns, path, up), NEW n \in 1 .. Len(ns),
           NEW g, NEW h, \A c \in 2 .. Len(ns) : up[c] = n => g[c] = h[c]
    PROVE  Walk(ns, g, n) = Walk(ns, h, n)
<1>1. PICK K : AreKids(Kids(ns, n), K, Len(ns), up, n)
  BY KidsAre
<1>2. PICK kids : kids = Kids(ns, n)
  OBVIOUS
<1>3. \A i \in 1 .. K : kids[i] \in 2 .. Len(ns) /\ up[kids[i]] = n
  BY <1>1, <1>2 DEF AreKids
<1>4. DOMAIN kids = 1 .. K
  BY <1>1, <1>2 DEF AreKids
<1>5. \A i \in 1 .. K : <<kids[i]>> \o g[kids[i]] = <<kids[i]>> \o h[kids[i]]
  BY <1>3
<1>6. [i \in DOMAIN kids |-> <<kids[i]>> \o g[kids[i]]]
        = [i \in DOMAIN kids |-> <<kids[i]>> \o h[kids[i]]]
  BY <1>4, <1>5
<1>7. QED
  BY <1>2, <1>6 DEF Walk

LEMMA WalkType ==
    ASSUME NEW ns, NEW path, NEW up, Tree(ns, path, up), NEW n \in 1 .. Len(ns),
           NEW g \in [1 .. Len(ns) -> Seq(2 .. Len(ns))]
    PROVE  Walk(ns, g, n) \in Seq(2 .. Len(ns))
<1>1. PICK N \in Nat : N = Len(ns)
  BY TreeIs
<1>2. PICK K : AreKids(Kids(ns, n), K, N, up, n)
  BY <1>1, KidsAre
<1>3. PICK kids : kids = Kids(ns, n)
  OBVIOUS
<1>4. K \in Nat /\ kids \in [1 .. K -> 2 .. N]
  BY <1>2, <1>3 DEF AreKids
<1>5. PICK seqs : seqs = [i \in 1 .. K |-> <<kids[i]>> \o g[kids[i]]]
  OBVIOUS
<1>6. Walk(ns, g, n) = FlattenSeq(seqs)
  <2>1. DOMAIN kids = 1 .. K
    BY <1>4
  <2>2. QED
    BY <1>3, <1>5, <2>1 DEF Walk
<1>7. ASSUME NEW i \in 1 .. K
      PROVE  seqs[i] \in Seq(2 .. N)
  <2>1. PICK c \in 2 .. N : c = kids[i]
    BY <1>4
  <2>2. PICK s \in Seq(2 .. N) : s = g[c]
    <3>1. c \in 1 .. N
      BY <1>1
    <3>2. g[c] \in Seq(2 .. N)
      BY <1>1, <3>1
    <3>3. QED
      BY <3>2
  <2>3. seqs[i] = <<c>> \o s
    BY <1>5, <2>1, <2>2
  <2>4. <<c>> \in Seq(2 .. N)
    OBVIOUS
  <2>5. QED
    BY <2>3, <2>4
<1>8. seqs \in [1 .. K -> Seq(2 .. N)]
  BY <1>5, <1>7
<1>9. FlattenSeq(seqs) \in Seq(2 .. N)
  BY <1>4, <1>8, FlattenType
<1>10. QED
  BY <1>1, <1>6, <1>9

LEMMA PathsEnd ==
    ASSUME NEW N, NEW path, NEW up, Branches(N, path, up)
    PROVE  \E L \in Nat : \A n \in 1 .. N : Len(path[n]) <= L
<1> DEFINE Good == {k \in 0 .. N : \E L \in Nat : \A n \in 1 .. k : Len(path[n]) <= L}
<1>1. N \in Nat /\ \A n \in 1 .. N : Len(path[n]) \in Nat
  BY BranchesAre
<1>2. 0 \in Good
  BY <1>1
<1>3. ASSUME NEW k \in 0 .. N - 1, k \in Good
      PROVE  k + 1 \in Good
  <2>1. PICK L \in Nat : \A n \in 1 .. k : Len(path[n]) <= L
    BY <1>3
  <2>2. k + 1 \in 1 .. N /\ k + 1 \in 0 .. N
    BY <1>1
  <2>3. PICK l \in Nat : l = Len(path[k + 1])
    BY <1>1, <2>2
  <2>4. ASSUME NEW n \in 1 .. k + 1
        PROVE  Len(path[n]) <= L + l
    <3>1. CASE n = k + 1
      BY <2>3, <3>1
    <3>2. CASE n \in 1 .. k
      <4>1. n \in 1 .. N
        BY <1>1, <3>2
      <4>2. QED
        BY <1>1, <2>1, <3>2, <4>1
    <3>3. QED
      BY <3>1, <3>2
  <2>5. L + l \in Nat
    OBVIOUS
  <2>6. QED
    BY <2>2, <2>4, <2>5
<1>4. N \in Good
  <2>1. \A k \in 0 .. N - 1 : k \in Good => k + 1 \in Good
    BY <1>3
  <2> HIDE DEF Good
  <2>2. \A k \in 0 .. N : k \in Good
    BY <1>1, <1>2, <2>1, Induction
  <2>3. QED
    BY <1>1, <2>2
<1>5. QED
  BY <1>4

Settled(g, path, N, L, k) ==
    \A n \in 1 .. N : Len(path[n]) + k > L => g[k + 1][n] = g[k][n]

LEMMA WalkExists ==
    ASSUME NEW ns, NEW path, NEW up, Tree(ns, path, up)
    PROVE  \E below : IsWalk(below, ns)
<1>1. PICK N \in Nat : N = Len(ns)
  BY TreeIs
<1>2. Branches(N, path, up)
  BY <1>1, TreeBranches
<1>3. PICK L \in Nat : \A n \in 1 .. N : Len(path[n]) <= L
  BY <1>2, PathsEnd
<1> DEFINE T == [1 .. N -> Seq(2 .. N)]
           round(g) == [n \in 1 .. N |-> Walk(ns, g, n)]
           step == [x \in (1 .. L + 2) \X T |-> round(x[2])]
           none == [n \in 1 .. N |-> <<>>]
<1>4. \A g \in T : round(g) \in T
  <2>1. ASSUME NEW g \in T, NEW n \in 1 .. N
        PROVE  Walk(ns, g, n) \in Seq(2 .. N)
    BY <1>1, WalkType
  <2>2. QED
    BY <2>1
<1>5. none \in T
  OBVIOUS
<1> HIDE DEF T, round, none
<1>6. IsLoop(L + 2, T, none, step)
  <2>1. ASSUME NEW n \in 1 .. L + 2, NEW g \in T
        PROVE  step[<<n, g>>] \in T
    BY <1>4
  <2> HIDE DEF step
  <2>2. L + 2 \in Nat
    OBVIOUS
  <2>3. QED
    BY <1>5, <2>1, <2>2 DEF IsLoop
<1>7. PICK g : IsRun(g, L + 2, T, none, step)
  <2> HIDE DEF step
  <2>1. QED
    BY <1>6, RecursiveFunction
<1>8. ASSUME NEW k \in 1 .. L + 2
      PROVE  g[k] = round(g[k - 1]) /\ g[k - 1] \in T
  <2>1. k - 1 \in 0 .. L + 2
    OBVIOUS
  <2>2. g[k - 1] \in T
    BY <1>7, <2>1 DEF IsRun
  <2>3. g[k] = step[<<k, g[k - 1]>>]
    <3> HIDE DEF step
    <3>1. QED
      BY <1>7 DEF IsRun
  <2>4. QED
    BY <2>2, <2>3
<1> HIDE DEF step
<1> DEFINE Good == {k \in 0 .. L + 1 : Settled(g, path, N, L, k)}
<1>9. 0 \in Good
  <2>1. \A n \in 1 .. N : Len(path[n]) \in Nat
    BY <1>2, BranchesAre
  <2>2. \A n \in 1 .. N : ~ Len(path[n]) + 0 > L
    BY <1>3, <2>1
  <2>3. QED
    BY <2>2 DEF Settled
<1>10. ASSUME NEW k \in 0 .. (L + 1) - 1, k \in Good
       PROVE  k + 1 \in Good
  <2>1. /\ k + 1 \in 1 .. L + 2 /\ (k + 1) - 1 = k
        /\ (k + 1) + 1 \in 1 .. L + 2 /\ ((k + 1) + 1) - 1 = k + 1
        /\ k + 1 \in 0 .. L + 1
    OBVIOUS
  <2>2. g[k + 1] = round(g[k]) /\ g[(k + 1) + 1] = round(g[k + 1])
    BY <1>8, <2>1
  <2>3. ASSUME NEW n \in 1 .. N, Len(path[n]) + (k + 1) > L
        PROVE  g[(k + 1) + 1][n] = g[k + 1][n]
    <3>1. ASSUME NEW c \in 2 .. N, up[c] = n
          PROVE  g[k + 1][c] = g[k][c]
      <4>1. c \in 1 .. N /\ Len(path[n]) < Len(path[c])
        BY <1>2, <3>1, BranchesAre
      <4>2. PICK l \in Nat, lc \in Nat : l = Len(path[n]) /\ lc = Len(path[c])
        BY <1>2, <4>1, BranchesAre
      <4>3. l < lc /\ l + (k + 1) > L
        BY <2>3, <4>1, <4>2
      <4>4. lc + k > L
        BY <4>3
      <4>5. Len(path[c]) + k > L
        BY <4>2, <4>4
      <4>6. QED
        BY <1>10, <4>1, <4>5 DEF Settled
    <3>2. Walk(ns, g[k + 1], n) = Walk(ns, g[k], n)
      <4>1. PICK g1, g2 : g1 = g[k + 1] /\ g2 = g[k]
        OBVIOUS
      <4>2. \A c \in 2 .. Len(ns) : up[c] = n => g1[c] = g2[c]
        BY <1>1, <3>1, <4>1
      <4>3. n \in 1 .. Len(ns)
        BY <1>1
      <4>4. Walk(ns, g1, n) = Walk(ns, g2, n)
        BY <4>2, <4>3, WalkSame
      <4>5. QED
        BY <4>1, <4>4
    <3>3. /\ g[k + 1][n] = Walk(ns, g[k], n)
          /\ g[(k + 1) + 1][n] = Walk(ns, g[k + 1], n)
      BY <2>2 DEF round
    <3>4. QED
      BY <3>2, <3>3
  <2>4. Settled(g, path, N, L, k + 1)
    BY <2>3 DEF Settled
  <2>5. QED
    BY <2>1, <2>4
<1>11. L + 1 \in Good
  <2>1. \A k \in 0 .. (L + 1) - 1 : k \in Good => k + 1 \in Good
    BY <1>10
  <2> HIDE DEF Good
  <2>2. \A k \in 0 .. L + 1 : k \in Good
    BY <1>9, <2>1, Induction
  <2>3. QED
    BY <2>2
<1>12. /\ L + 2 \in 1 .. L + 2 /\ (L + 2) - 1 = L + 1 /\ (L + 1) + 1 = L + 2
       /\ L + 1 \in 1 .. L + 2
  OBVIOUS
<1>13. g[L + 2] = round(g[L + 1]) /\ g[L + 1] \in T
  BY <1>8, <1>12
<1>14. \A n \in 1 .. N : g[L + 2][n] = g[L + 1][n]
  <2>1. ASSUME NEW n \in 1 .. N
        PROVE  Len(path[n]) + (L + 1) > L
    <3>1. PICK l \in Nat : l = Len(path[n])
      BY <1>2, BranchesAre
    <3>2. l + (L + 1) > L
      OBVIOUS
    <3>3. QED
      BY <3>1, <3>2
  <2>2. Settled(g, path, N, L, L + 1)
    BY <1>11
  <2>3. QED
    BY <1>12, <2>1, <2>2 DEF Settled
<1>15. g[L + 1] = round(g[L + 1])
  <2>1. PICK b : b = g[L + 1]
    OBVIOUS
  <2>2. b \in [1 .. N -> Seq(2 .. N)]
    BY <1>13, <2>1 DEF T
  <2>3. \A n \in 1 .. N : b[n] = Walk(ns, b, n)
    BY <1>13, <1>14, <2>1 DEF round
  <2>4. b = [n \in 1 .. N |-> Walk(ns, b, n)]
    BY <2>2, <2>3
  <2>5. QED
    BY <2>1, <2>4 DEF round
<1>16. QED
  BY <1>1, <1>15 DEF IsWalk, round

LEMMA WalkHasAll ==
    ASSUME NEW ns, NEW path, NEW up, Tree(ns, path, up),
           NEW below, IsWalk(below, ns)
    PROVE  \A n \in 1 .. Len(ns) : HasBelow(below[n], Len(ns), path, n)
<1>1. PICK N \in Nat : N = Len(ns)
  BY TreeIs
<1>2. Branches(N, path, up)
  BY <1>1, TreeBranches
<1>3. PICK L \in Nat : \A n \in 1 .. N : Len(path[n]) <= L
  BY <1>2, PathsEnd
<1>4. \A n \in 1 .. N : below[n] = Walk(ns, below, n)
  BY <1>1 DEF IsWalk
<1>5. \A n \in 1 .. N : Len(path[n]) \in Nat
  BY <1>2, BranchesAre
<1> DEFINE Good == {k \in 0 .. L + 1 :
              \A n \in 1 .. N : Len(path[n]) + k > L => HasBelow(below[n], N, path, n)}
<1>6. 0 \in Good
  BY <1>3, <1>5
<1>7. ASSUME NEW k \in 0 .. (L + 1) - 1, k \in Good
      PROVE  k + 1 \in Good
  <2>1. ASSUME NEW n \in 1 .. N, Len(path[n]) + (k + 1) > L
        PROVE  HasBelow(below[n], N, path, n)
    <3>1. ASSUME NEW c \in 2 .. N, up[c] = n
          PROVE  HasBelow(below[c], N, path, c)
      <4>1. c \in 1 .. N /\ Len(path[n]) < Len(path[c])
        BY <1>2, <3>1, BranchesAre
      <4>2. PICK l \in Nat, lc \in Nat : l = Len(path[n]) /\ lc = Len(path[c])
        BY <1>5, <4>1
      <4>3. l < lc /\ l + (k + 1) > L
        BY <2>1, <4>1, <4>2
      <4>4. lc + k > L
        BY <4>3
      <4>5. Len(path[c]) + k > L
        BY <4>2, <4>4
      <4>6. QED
        BY <1>7, <4>1, <4>5
    <3>2. HasBelow(Walk(ns, below, n), N, path, n)
      BY <1>1, <3>1, WalkHas
    <3>3. QED
      BY <1>4, <3>2
  <2>2. k + 1 \in 0 .. L + 1
    OBVIOUS
  <2>3. QED
    BY <2>1, <2>2
<1>8. L + 1 \in Good
  <2>1. \A k \in 0 .. (L + 1) - 1 : k \in Good => k + 1 \in Good
    BY <1>7
  <2> HIDE DEF Good
  <2>2. \A k \in 0 .. L + 1 : k \in Good
    BY <1>6, <2>1, Induction
  <2>3. QED
    BY <2>2
<1>9. ASSUME NEW n \in 1 .. N
      PROVE  Len(path[n]) + (L + 1) > L
  <2>1. PICK l \in Nat : l = Len(path[n])
    BY <1>5
  <2>2. l + (L + 1) > L
    OBVIOUS
  <2>3. QED
    BY <2>1, <2>2
<1>10. QED
  BY <1>1, <1>8, <1>9

\* A sequence with every number of 2 .. N in it, once, has as many places.
LEMMA OnceEach ==
    ASSUME NEW N \in Nat \ {0}, NEW s \in Seq(2 .. N),
           \A m \in 2 .. N : Times(m, s) = 1
    PROVE  /\ \A i, j \in 1 .. Len(s) : s[i] = s[j] => i = j
           /\ Range(s) = 2 .. N
           /\ Len(s) = N - 1
<1>1. PICK K \in Nat : K = Len(s)
  OBVIOUS
<1>2. DOMAIN s = 1 .. K /\ s \in [1 .. K -> 2 .. N]
  BY <1>1
<1>3. IsFiniteSet(1 .. K) /\ Cardinality(1 .. K) = K
  <2>1. /\ IsFiniteSet(1 .. K)
        /\ Cardinality(1 .. K) = IF 1 > K THEN 0 ELSE K - 1 + 1
    <3>1. 1 \in Int /\ K \in Int
      OBVIOUS
    <3>2. QED
      BY <3>1, FS_Interval, Zenon
  <2>2. QED
    BY <2>1
<1>4. ASSUME NEW i \in 1 .. K, NEW j \in 1 .. K, s[i] = s[j]
      PROVE  i = j
  <2>1. PICK m \in 2 .. N : m = s[i]
    BY <1>2
  <2> DEFINE found == {x \in DOMAIN s : s[x] = m}
  <2>2. found \in SUBSET (1 .. K)
    BY <1>2
  <2>3. i \in found /\ j \in found
    BY <1>2, <1>4, <2>1
  <2>4. Cardinality(found) = 1
    BY DEF Times
  <2> HIDE DEF found
  <2>5. IsFiniteSet(found)
    BY <1>3, <2>2, FS_Subset
  <2>6. PICK x : found = {x}
    BY <2>4, <2>5, FS_Singleton
  <2>7. QED
    BY <2>3, <2>6
<1>5. Range(s) = 2 .. N
  <2>1. ASSUME NEW m \in 2 .. N
        PROVE  m \in Range(s)
    <3>1. Times(m, s) # 0
      OBVIOUS
    <3>2. PICK T : T = 2 .. N
      OBVIOUS
    <3>3. s \in Seq(T)
      BY <3>2
    <3>4. QED
      BY <3>1, <3>3, TimesIs
  <2>2. \A m \in Range(s) : m \in 2 .. N
    BY <1>2 DEF Range
  <2>3. QED
    BY <2>1, <2>2
<1>6. s \in Surjection(1 .. K, 2 .. N)
  <2>1. \A m \in 2 .. N : \E i \in 1 .. K : s[i] = m
    BY <1>2, <1>5 DEF Range
  <2>2. QED
    BY <1>2, <2>1 DEF Surjection
<1>7. s \in Injection(1 .. K, 2 .. N)
  BY <1>2, <1>4 DEF Injection, IsInjective
<1>8. Cardinality(2 .. N) = K
  BY <1>3, <1>6, <1>7, FS_Surjection
<1>9. Cardinality(2 .. N) = N - 1
  <2>1. Cardinality(2 .. N) = IF 2 > N THEN 0 ELSE N - 2 + 1
    BY FS_Interval
  <2>2. QED
    BY <2>1
<1>10. QED
  BY <1>1, <1>4, <1>5, <1>8, <1>9

-----------------------------------------------------------------------------
(* Where the values are *)

LEMMA SpotsNode ==
    ASSUME NEW N \in Nat, NEW d \in [1 .. N -> Seq(Keys)],
           NEW T \in SUBSET (1 .. N), NEW n \in (1 .. N) \ T, NEW key,
           IsFiniteSet(Spots(d, T, key))
    PROVE  /\ IsFiniteSet(Spots(d, T \cup {n}, key))
           /\ Cardinality(Spots(d, T \cup {n}, key))
                = Cardinality(Spots(d, T, key)) + Times(key, d[n])
<1>1. PICK data \in Seq(Keys) : data = d[n]
  OBVIOUS
<1>2. PICK found : found = {i \in DOMAIN data : data[i] = key}
  OBVIOUS
<1>3. DOMAIN data = 1 .. Len(data) /\ Len(data) \in Nat
  OBVIOUS
<1>4. \A i \in found : i \in Nat
  BY <1>2, <1>3
<1>5. IsFiniteSet(found)
  <2>1. IsFiniteSet(1 .. Len(data))
    BY <1>3, FS_Interval
  <2>2. found \in SUBSET (1 .. Len(data))
    BY <1>2, <1>3
  <2>3. QED
    BY <2>1, <2>2, FS_Subset
<1>6. Cardinality(found) = Times(key, data)
  BY <1>2 DEF Times
<1> DEFINE here == Spots(d, {n}, key)
           f == [i \in found |-> <<n, i>>]
<1>7. \A i \in found : <<n, i>> \in here
  BY <1>1, <1>2, <1>4 DEF Spots
<1>8. \A x \in here : x[2] \in found /\ x = <<n, x[2]>>
  BY <1>1, <1>2 DEF Spots
<1>9. Spots(d, T \cup {n}, key) = Spots(d, T, key) \cup here
  BY DEF Spots
<1>10. Spots(d, T, key) \cap here = {}
  BY DEF Spots
<1> HIDE DEF here
<1>11. f \in Surjection(found, here)
  <2>1. f \in [found -> here]
    BY <1>7
  <2>2. \A x \in here : x[2] \in found /\ f[x[2]] = x
    BY <1>8
  <2> HIDE DEF f
  <2>3. QED
    BY <2>1, <2>2 DEF Surjection
<1>12. f \in Injection(found, here)
  <2>1. f \in [found -> here]
    BY <1>7
  <2>2. \A i, j \in found : f[i] = f[j] => i = j
    OBVIOUS
  <2> HIDE DEF f
  <2>3. QED
    BY <2>1, <2>2 DEF Injection, IsInjective
<1> HIDE DEF f
<1>13. IsFiniteSet(here) /\ Cardinality(here) = Cardinality(found)
  BY <1>5, <1>11, <1>12, FS_Surjection
<1>14. /\ IsFiniteSet(Spots(d, T, key) \cup here)
       /\ Cardinality(Spots(d, T, key) \cup here)
            = Cardinality(Spots(d, T, key)) + Cardinality(here)
                - Cardinality(Spots(d, T, key) \cap here)
  BY <1>13, FS_Union
<1>15. Cardinality({}) = 0
  BY FS_EmptySet
<1>16. PICK a \in Nat, b \in Nat :
          /\ a = Cardinality(Spots(d, T, key))
          /\ b = Cardinality(here)
  BY <1>13, FS_CardinalityType
<1>17. Cardinality(Spots(d, T \cup {n}, key)) = a + b
  <2>1. Cardinality(Spots(d, T \cup {n}, key)) = a + b - Cardinality({})
    <3> HIDE DEF here
    <3>1. QED
      BY <1>9, <1>10, <1>14, <1>16, Zenon
  <2>2. QED
    BY <1>15, <2>1
<1>18. b = Times(key, d[n])
  BY <1>1, <1>6, <1>13, <1>16
<1>19. QED
  BY <1>9, <1>14, <1>16, <1>17, <1>18

\* Nodes in any order, each of them once: all their values have all their spots.
LEMMA SpotsInOrder ==
    ASSUME NEW N \in Nat, NEW d \in [1 .. N -> Seq(Keys)],
           NEW s \in Seq(2 .. N), \A i, j \in 1 .. Len(s) : s[i] = s[j] => i = j,
           NEW key
    PROVE  Times(key, FlattenSeq([i \in DOMAIN s |-> d[s[i]]]))
             = Cardinality(Spots(d, Range(s), key))
<1>1. PICK K \in Nat : K = Len(s)
  OBVIOUS
<1>2. DOMAIN s = 1 .. K /\ \A i \in 1 .. K : s[i] \in 2 .. N /\ s[i] \in 1 .. N
  BY <1>1
<1>3. PICK seqs : seqs = [i \in 1 .. K |-> d[s[i]]]
  OBVIOUS
<1>4. \A i \in 1 .. K : seqs[i] = d[s[i]] /\ seqs[i] \in Seq(Keys)
  BY <1>2, <1>3
<1>5. seqs \in [1 .. K -> Seq(Keys)]
  BY <1>3, <1>4
<1>6. PICK f : IsFlat(f, K, Keys, seqs) /\ FlattenSeq(seqs) = f[K]
  BY <1>5, FlattenIs
<1>7. f \in [0 .. K -> Seq(Keys)] /\ f[0] = <<>>
  BY <1>6 DEF IsFlat
<1> DEFINE First(j) == {s[i] : i \in 1 .. j}
           Good == {j \in 0 .. K : /\ IsFiniteSet(Spots(d, First(j), key))
                                   /\ Times(key, f[j]) = Cardinality(Spots(d, First(j), key))}
<1>8. 0 \in Good
  <2>1. First(0) = {}
    OBVIOUS
  <2>2. Spots(d, {}, key) = {}
    BY DEF Spots
  <2>3. IsFiniteSet({}) /\ Cardinality({}) = 0
    BY FS_EmptySet
  <2>4. Times(key, f[0]) = 0
    <3>1. <<>> \in Seq(Keys) /\ key \notin Range(<<>>)
      BY DEF Range
    <3>2. Times(key, <<>>) = 0
      BY <3>1, TimesIs
    <3>3. QED
      BY <1>7, <3>2
  <2> HIDE DEF First
  <2>5. /\ IsFiniteSet(Spots(d, First(0), key))
        /\ Times(key, f[0]) = Cardinality(Spots(d, First(0), key))
    BY <2>1, <2>2, <2>3, <2>4, Zenon
  <2>6. 0 \in 0 .. K
    OBVIOUS
  <2>7. QED
    BY <2>5, <2>6, Zenon
<1>9. ASSUME NEW j \in 0 .. K - 1, j \in Good
      PROVE  j + 1 \in Good
  <2>1. j + 1 \in 1 .. K /\ (j + 1) - 1 = j /\ j \in 0 .. K /\ j + 1 \in 0 .. K
    OBVIOUS
  <2>2. PICK n \in 1 .. N : n = s[j + 1]
    BY <1>2, <2>1
  <2>3. First(j + 1) = First(j) \cup {n}
    <3>1. \A i \in 1 .. j + 1 : i \in 1 .. j \/ i = j + 1
      OBVIOUS
    <3>2. \A i \in 1 .. j : i \in 1 .. j + 1
      OBVIOUS
    <3>3. j + 1 \in 1 .. j + 1
      OBVIOUS
    <3>4. QED
      BY <2>2, <3>1, <3>2, <3>3
  <2>4. First(j) \in SUBSET (1 .. N)
    <3>1. \A i \in 1 .. j : i \in 1 .. K
      OBVIOUS
    <3>2. \A i \in 1 .. j : s[i] \in 1 .. N
      BY <1>2, <3>1
    <3>3. QED
      BY <3>2
  <2>5. n \notin First(j)
    <3>1. \A i \in 1 .. j : i \in 1 .. K /\ i # j + 1
      OBVIOUS
    <3>2. \A i \in 1 .. j : s[i] # s[j + 1]
      BY <1>1, <2>1, <3>1
    <3>3. QED
      BY <2>2, <3>2
  <2> HIDE DEF First
  <2>6. /\ IsFiniteSet(Spots(d, First(j), key))
        /\ Times(key, f[j]) = Cardinality(Spots(d, First(j), key))
    BY <1>9
  <2>7. /\ IsFiniteSet(Spots(d, First(j) \cup {n}, key))
        /\ Cardinality(Spots(d, First(j) \cup {n}, key))
             = Cardinality(Spots(d, First(j), key)) + Times(key, d[n])
    <3>1. PICK T \in SUBSET (1 .. N) : T = First(j)
      BY <2>4
    <3>2. n \in (1 .. N) \ T
      BY <2>5, <3>1
    <3>3. IsFiniteSet(Spots(d, T, key))
      BY <2>6, <3>1
    <3>4. /\ IsFiniteSet(Spots(d, T \cup {n}, key))
          /\ Cardinality(Spots(d, T \cup {n}, key))
               = Cardinality(Spots(d, T, key)) + Times(key, d[n])
      BY <3>2, <3>3, SpotsNode
    <3>5. QED
      BY <3>1, <3>4
  <2>8. f[j + 1] = f[j] \o seqs[j + 1]
    BY <1>6, <2>1 DEF IsFlat
  <2>9. f[j] \in Seq(Keys) /\ seqs[j + 1] \in Seq(Keys) /\ seqs[j + 1] = d[n]
    BY <1>4, <1>7, <2>1, <2>2
  <2>10. Times(key, f[j] \o seqs[j + 1]) = Times(key, f[j]) + Times(key, seqs[j + 1])
    BY <2>9, TimesBoth
  <2>11. Times(key, f[j + 1]) = Cardinality(Spots(d, First(j + 1), key))
    BY <2>3, <2>6, <2>7, <2>8, <2>9, <2>10
  <2>12. QED
    BY <2>1, <2>3, <2>7, <2>11
<1>10. K \in Good
  <2>1. \A j \in 0 .. K - 1 : j \in Good => j + 1 \in Good
    BY <1>9
  <2> HIDE DEF Good
  <2>2. \A j \in 0 .. K : j \in Good
    BY <1>8, <2>1, Induction
  <2>3. QED
    BY <2>2
<1>11. First(K) = Range(s)
  BY <1>2 DEF Range
<1> HIDE DEF First
<1>12. Times(key, FlattenSeq(seqs)) = Cardinality(Spots(d, Range(s), key))
  BY <1>6, <1>10, <1>11
<1>13. QED
  BY <1>2, <1>3, <1>12

\* The root has no values: no key is empty.
LEMMA RootEmpty ==
    ASSUME NEW ns, NEW path, NEW up, Tree(ns, path, up), Spells(ns, path), NEW key
    PROVE  Spots(DataOf(ns), 2 .. Len(ns), key) = Spots(DataOf(ns), 1 .. Len(ns), key)
<1>1. PICK N \in Nat : N = Len(ns) /\ 1 \in 1 .. N
  BY TreeIs
<1>2. PICK data \in Seq(Keys) : data = ns[1].data
  BY <1>1, TreeIs
<1>3. DOMAIN data = {}
  <2>1. ASSUME NEW i \in 1 .. Len(data)
        PROVE  FALSE
    <3>1. IsSpelling(data[i], path[1])
      BY <1>1, <1>2 DEF Spells
    <3>2. PICK v \in Keys : v = data[i]
      OBVIOUS
    <3>3. path[1] = <<>> /\ Len(<<>>) = 0
      BY DEF Tree
    <3>4. Len(v) = 0
      BY <3>1, <3>2, <3>3 DEF IsSpelling
    <3>5. v \in Seq(Codes) /\ v # <<>>
      BY KeysAreCodes
    <3>6. QED
      BY <3>4, <3>5
  <2>2. DOMAIN data = 1 .. Len(data)
    OBVIOUS
  <2>3. QED
    BY <2>1, <2>2
<1>4. DOMAIN DataOf(ns)[1] = {}
  BY <1>1, <1>2, <1>3 DEF DataOf
<1>5. /\ \A x \in 1 .. N : x \in 2 .. N \/ x = 1
      /\ \A x \in 2 .. N : x \in 1 .. N
  OBVIOUS
<1>6. \A x \in Spots(DataOf(ns), 1 .. N, key) : x \in Spots(DataOf(ns), 2 .. N, key)
  BY <1>4, <1>5 DEF Spots
<1>7. \A x \in Spots(DataOf(ns), 2 .. N, key) : x \in Spots(DataOf(ns), 1 .. N, key)
  BY <1>5 DEF Spots
<1>8. QED
  BY <1>1, <1>6, <1>7

-----------------------------------------------------------------------------
(* What a walk meets *)

LEMMA VisitIs ==
    ASSUME NEW path, NEW up, Tree(nodes, path, up)
    PROVE  HasBelow(VisitDown, Len(nodes), path, 1)
<1> DEFINE Meets(below) ==
              [n \in NodeIds |->
                  LET next == nodes[n].next
                      slots == Ascending(DOMAIN next)
                  IN FlattenSeq([i \in DOMAIN slots |->
                                    <<next[slots[i]]>> \o below[next[slots[i]]]])]
           visit == CHOOSE below : below = Meets(below)
<1>1. VisitDown = visit[1]
  BY DEF VisitDown, Root
<1>2. NodeIds = 1 .. Len(nodes)
  BY DEF NodeIds, Tree
<1>3. \A below : Meets(below) = [n \in 1 .. Len(nodes) |-> Walk(nodes, below, n)]
  BY <1>2 DEF Walk, Kids
<1> HIDE DEF Meets
<1>4. PICK below : IsWalk(below, nodes)
  BY WalkExists
<1>5. below = Meets(below)
  BY <1>3, <1>4 DEF IsWalk
<1>6. visit = Meets(visit)
  BY <1>5
<1> HIDE DEF visit
<1>7. IsWalk(visit, nodes)
  BY <1>3, <1>6 DEF IsWalk
<1>8. 1 \in 1 .. Len(nodes)
  BY TreeIs
<1>9. HasBelow(visit[1], Len(nodes), path, 1)
  BY <1>7, <1>8, WalkHasAll
<1>10. QED
  BY <1>1, <1>9

LEMMA TrieWalk == TrieInv => WalkMeetsAll
<1> SUFFICES ASSUME NEW path, NEW up, Shape(nodes, path, up, log)
             PROVE  WalkMeetsAll
  BY DEF TrieInv
<1>1. Tree(nodes, path, up) /\ Spells(nodes, path) /\ Counted(nodes, log)
  BY DEF Shape
<1>2. PICK N \in Nat : N = Len(nodes) /\ N # 0
  BY <1>1, TreeIs DEF Tree
<1>3. PICK s : s = VisitDown
  OBVIOUS
<1>4. HasBelow(s, N, path, 1)
  BY <1>1, <1>2, <1>3, VisitIs
<1>5. s \in Seq(2 .. N) /\ \A m \in 2 .. N : Times(m, s) = 1
  <2>1. ASSUME NEW m \in 2 .. N
        PROVE  m \in 1 .. N /\ IsBelow(path, 1, m)
    <3>1. path[1] = <<>> /\ Len(<<>>) = 0
      BY <1>1 DEF Tree
    <3>2. PICK q \in Seq(Codes) : q = path[m]
      BY <1>1, <1>2, TreeIs
    <3>3. Begins(<<>>, q)
      BY DEF Begins
    <3>4. QED
      BY <3>1, <3>2, <3>3 DEF IsBelow
  <2>2. QED
    BY <1>4, <2>1 DEF HasBelow
<1>6. N \in Nat \ {0}
  BY <1>2
<1>7. \A i, j \in 1 .. Len(s) : s[i] = s[j] => i = j
  BY <1>5, <1>6, OnceEach
<1>8. Range(s) = 2 .. N /\ Len(s) = N - 1
  BY <1>5, <1>6, OnceEach
<1>9. NodeIds \ {Root} = 2 .. N
  <2>1. NodeIds = 1 .. N /\ Root = 1
    BY <1>1, <1>2 DEF NodeIds, Root, Tree
  <2>2. (1 .. N) \ {1} = 2 .. N
    BY <1>2
  <2>3. QED
    BY <2>1, <2>2
<1>10. PICK met : met = FlattenSeq([i \in DOMAIN s |-> nodes[s[i]].data])
  OBVIOUS
<1>11. PICK d \in [1 .. N -> Seq(Keys)] : d = DataOf(nodes)
  BY <1>1, <1>2, TreeIs DEF DataOf
<1>12. met = FlattenSeq([i \in DOMAIN s |-> d[s[i]]])
  <2>1. \A i \in DOMAIN s : s[i] \in 1 .. N
    BY <1>5
  <2>2. \A i \in DOMAIN s : d[s[i]] = nodes[s[i]].data
    BY <1>2, <1>11, <2>1 DEF DataOf
  <2>3. [i \in DOMAIN s |-> d[s[i]]] = [i \in DOMAIN s |-> nodes[s[i]].data]
    BY <2>2
  <2>4. QED
    BY <1>10, <2>3
<1>13. ASSUME NEW key \in Keys
       PROVE  Times(key, met) = Times(key, log)
  <2>1. Times(key, met) = Cardinality(Spots(d, 2 .. N, key))
    <3>1. Times(key, FlattenSeq([i \in DOMAIN s |-> d[s[i]]]))
            = Cardinality(Spots(d, Range(s), key))
      BY <1>5, <1>7, SpotsInOrder
    <3>2. QED
      BY <1>8, <1>12, <3>1
  <2>2. Spots(d, 2 .. N, key) = Spots(d, 1 .. N, key)
    BY <1>1, <1>2, <1>11, RootEmpty
  <2>3. Cardinality(Spots(d, 1 .. N, key)) = Times(key, log)
    BY <1>1, <1>2, <1>11 DEF Counted, IsCount
  <2>4. QED
    BY <2>1, <2>2, <2>3
<1>14. QED
  BY <1>2, <1>3, <1>8, <1>9, <1>10, <1>13 DEF WalkMeetsAll

\* However appends split the nodes, a walk meets every node, and every value
\* as often as it was appended.
THEOREM WalkMeetsAllCorrect == Spec => []WalkMeetsAll
<1>1. QED
  BY TrieCorrect, TrieWalk, PTL
=============================================================================
