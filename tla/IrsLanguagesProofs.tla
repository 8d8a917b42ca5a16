------------------------- MODULE IrsLanguagesProofs -------------------------
(***************************************************************************)
(* What the engine has read of its directories, and which languages it     *)
(* finds, for any directories, files and documents, whatever ends the      *)
(* process on the way.                                                     *)
(***************************************************************************)
EXTENDS IrsLanguages, IrsInduction, FiniteSetTheorems, TLAPS

\* A loop over a directory has read the files it left behind, once each; before
\* its turn comes its list is empty, and so are both of a process that is down.
LoadInv ==
    /\ \A path \in {"langs", "alpha"} : disk[path].files \in SUBSET Files
    /\ keyWords \in Seq(Entry) /\ alphabets \in Seq(Entry)
    /\ pc = "down" =>
         engine = FALSE /\ keyWords = <<>> /\ alphabets = <<>>
    /\ pc = "keyWords" =>
         /\ unread \subseteq disk["langs"].files
         /\ ReadOnce(keyWords, disk["langs"].files \ unread)
         /\ alphabets = <<>>
    /\ pc = "alphabets" =>
         /\ ReadOnce(keyWords, disk["langs"].files)
         /\ unread \subseteq disk["alpha"].files
         /\ ReadOnce(alphabets, disk["alpha"].files \ unread)
    /\ LoadedOnce

\* What is read of a file that has a line.
LEMMA ContentsType ==
    ASSUME NEW f \in Files, f.lines # <<>>
    PROVE  Contents(f) \in Entry
<1>1. f.lines \in Seq(Words)
  BY FilesAssumption
<1>2. \A i \in DOMAIN f.lines : LineAt(f, i) \in Words
  BY <1>1, WordsAssumption DEF LineAt
<1>3. 1 \in DOMAIN f.lines /\ DOMAIN f.lines = 1 .. Len(f.lines)
  BY <1>1
<1>4. [i \in DOMAIN f.lines |-> LineAt(f, i)] \in Seq(Words)
  BY <1>1, <1>2, <1>3
<1>5. QED
  BY <1>2, <1>3, <1>4 DEF Contents, Entry

\* Nothing is read of no files.
LEMMA ReadNothing == ReadOnce(<<>>, {})
BY FS_EmptySet DEF ReadOnce

\* One more file is read.
LEMMA ReadOneMore ==
    ASSUME NEW list \in Seq(Entry), NEW files \in SUBSET Files,
           NEW unreadFiles \in SUBSET files, NEW f \in unreadFiles,
           f.lines # <<>>, ReadOnce(list, files \ unreadFiles)
    PROVE  /\ Append(list, Contents(f)) \in Seq(Entry)
           /\ ReadOnce(Append(list, Contents(f)), files \ (unreadFiles \ {f}))
<1> DEFINE read == files \ unreadFiles
           longer == Append(list, Contents(f))
<1>1. Contents(f) \in Entry
  BY ContentsType
<1>2. /\ longer \in Seq(Entry) /\ Len(longer) = Len(list) + 1
      /\ Len(list) \in Nat
      /\ DOMAIN list = 1 .. Len(list) /\ DOMAIN longer = 1 .. Len(list) + 1
      /\ \A i \in 1 .. Len(list) : longer[i] = list[i]
      /\ longer[Len(list) + 1] = Contents(f)
  BY <1>1
<1>3. files \ (unreadFiles \ {f}) = read \cup {f} /\ f \notin read
  OBVIOUS
<1>4. IsFiniteSet(read)
  BY FilesAssumption, FS_Subset
<1>5. Cardinality(read \cup {f}) = Cardinality(read) + 1
  BY <1>3, <1>4, FS_AddElement
<1>6. /\ {list[i] : i \in DOMAIN list} = {Contents(g) : g \in read}
      /\ Len(list) = Cardinality(read)
  BY DEF ReadOnce
<1>7. {longer[i] : i \in DOMAIN longer} =
          {list[i] : i \in DOMAIN list} \cup {Contents(f)}
  <2>1. DOMAIN longer = DOMAIN list \cup {Len(list) + 1}
    BY <1>2
  <2>2. \A i \in DOMAIN list : longer[i] = list[i]
    BY <1>2
  <2> HIDE DEF longer
  <2>3. QED
    BY <1>2, <2>1, <2>2
<1>8. {Contents(g) : g \in read \cup {f}} =
          {Contents(g) : g \in read} \cup {Contents(f)}
  OBVIOUS
<1> HIDE DEF longer, read
<1>9. ReadOnce(longer, read \cup {f})
  BY <1>2, <1>5, <1>6, <1>7, <1>8 DEF ReadOnce
<1>10. QED
  BY <1>2, <1>3, <1>9 DEF longer

\* A process that ends forgets what it read.
LEMMA DownForgets ==
    ASSUME LoadInv, GoDown
    PROVE  LoadInv'
<1>1. <<>> \in Seq(Entry)
  OBVIOUS
<1>2. QED
  BY <1>1 DEF GoDown, ListsGone, LoadInv, LoadedOnce

LEMMA LoadCorrect == Spec => []LoadInv
<1>1. Init => LoadInv
  <2>1. <<>> \in Seq(Entry)
    OBVIOUS
  <2>2. QED
    BY <2>1, FilesAssumption DEF Init, LoadInv, LoadedOnce
<1>2. ASSUME LoadInv, [Next]_vars
      PROVE  LoadInv'
  <2>1. CASE \E path \in {"langs", "alpha"} : StartCreatesDirectory(path)
    BY <1>2, <2>1
    DEF StartCreatesDirectory, lists, call, LoadInv, LoadedOnce
  <2>2. CASE Start
    <3>1. unread' = disk["langs"].files /\ UNCHANGED <<disk, lists>>
          /\ pc' = "keyWords" /\ keyWords = <<>> /\ alphabets = <<>>
      BY <1>2, <2>2 DEF Start, LoadInv
    <3>2. disk'["langs"].files \ unread' = {}
      BY <3>1
    <3>3. ReadOnce(keyWords', disk'["langs"].files \ unread')
      BY <3>1, <3>2, ReadNothing DEF lists
    <3>4. QED
      BY <1>2, <3>1, <3>3 DEF lists, LoadInv, LoadedOnce
  <2>3. CASE Stop
    BY <1>2, <2>3, DownForgets DEF Stop
  <2>4. ASSUME NEW f \in Files, ReadKeyWords(f)
        PROVE  LoadInv'
    <3>1. /\ pc = "keyWords" /\ f \in unread /\ f.lines # <<>>
          /\ keyWords' = Append(keyWords, Contents(f))
          /\ unread' = unread \ {f}
          /\ UNCHANGED <<disk, pc, alphabets>>
      BY <2>4 DEF ReadKeyWords
    <3>2. /\ keyWords' \in Seq(Entry)
          /\ ReadOnce(keyWords', disk["langs"].files \ unread')
      BY <1>2, <3>1, ReadOneMore DEF LoadInv
    <3>3. QED
      BY <1>2, <3>1, <3>2 DEF LoadInv, LoadedOnce
  <2>5. CASE KeyWordsRead
    <3>1. /\ pc = "keyWords" /\ unread = {} /\ pc' = "alphabets"
          /\ unread' = disk["alpha"].files
          /\ UNCHANGED <<disk, keyWords, alphabets>>
      BY <2>5 DEF KeyWordsRead, lists
    <3>2. /\ disk'["alpha"].files \ unread' = {}
          /\ disk["langs"].files \ unread = disk["langs"].files
      BY <3>1
    <3>3. /\ ReadOnce(keyWords', disk'["langs"].files)
          /\ ReadOnce(alphabets', disk'["alpha"].files \ unread')
      BY <1>2, <3>1, <3>2, ReadNothing DEF LoadInv
    <3>4. QED
      BY <1>2, <3>1, <3>3 DEF LoadInv, LoadedOnce
  <2>6. ASSUME NEW f \in Files, ReadAlphabet(f)
        PROVE  LoadInv'
    <3>1. /\ pc = "alphabets" /\ f \in unread /\ f.lines # <<>>
          /\ alphabets' = Append(alphabets, Contents(f))
          /\ unread' = unread \ {f}
          /\ UNCHANGED <<disk, pc, keyWords>>
      BY <2>6 DEF ReadAlphabet
    <3>2. /\ alphabets' \in Seq(Entry)
          /\ ReadOnce(alphabets', disk["alpha"].files \ unread')
      BY <1>2, <3>1, ReadOneMore DEF LoadInv
    <3>3. QED
      BY <1>2, <3>1, <3>2 DEF LoadInv, LoadedOnce
  <2>7. CASE AlphabetsRead
    <3>1. /\ pc = "alphabets" /\ unread = {} /\ pc' = "idle"
          /\ UNCHANGED <<disk, keyWords, alphabets>>
      BY <2>7 DEF AlphabetsRead, lists
    <3>2. disk["alpha"].files \ unread = disk["alpha"].files
      BY <3>1
    <3>3. /\ ReadOnce(keyWords', disk'["langs"].files)
          /\ ReadOnce(alphabets', disk'["alpha"].files)
      BY <1>2, <3>1, <3>2 DEF LoadInv
    <3>4. LoadedOnce'
      BY <3>3 DEF LoadedOnce
    <3>5. QED
      BY <1>2, <3>1, <3>4 DEF LoadInv
  <2>8. CASE EmptyFileKills \/ GetLangsKills
    BY <1>2, <2>8, DownForgets DEF EmptyFileKills, GetLangsKills
  <2>9. CASE Count \/ Choose \/ Return \/ UNCHANGED vars
              \/ \E r \in Requests : GetLangs(r)
    <3>1. /\ UNCHANGED <<disk, engine, unread, keyWords, alphabets>>
          /\ pc' = pc \/ (pc \in {"idle", "count"} /\ pc' \in {"idle", "count"})
      BY <2>9 DEF Count, Choose, Return, GetLangs, lists, vars
    <3>2. QED
      BY <1>2, <3>1 DEF LoadInv, LoadedOnce
  <2>10. QED
    BY <1>2, <2>1, <2>2, <2>3, <2>4, <2>5, <2>6, <2>7, <2>8, <2>9
    DEF Next
<1>3. QED
  BY <1>1, <1>2, PTL DEF Spec

\* LoadedOnce: whenever a request can come, an engine has every file of its
\* directories once, for any directories and files, and however often the
\* process was started, stopped, or ended by a file without a line.
THEOREM LoadedOnceCorrect == Spec => []LoadedOnce
<1>1. LoadInv => LoadedOnce
  BY DEF LoadInv
<1>2. QED
  BY <1>1, LoadCorrect, PTL

-----------------------------------------------------------------------------
(* The most of a list of counts *)

\* What the loop over counts has found: the most so far and where it was.
LEMMA MaxRecursion ==
    ASSUME NEW c \in Seq(Nat)
    PROVE  \E f \in [0 .. Len(c) -> [max : Nat, pos : Nat]] :
             /\ f[0] = [max |-> 0, pos |-> 1]
             /\ \A n \in 1 .. Len(c) :
                  f[n] = IF c[n] > f[n - 1].max THEN [max |-> c[n], pos |-> n]
                                                ELSE f[n - 1]
             /\ MaxPosition(c) = f[Len(c)].pos
<1> DEFINE N == Len(c)
           S == [max : Nat, pos : Nat]
           first == [max |-> 0, pos |-> FirstPosition]
           step == [x \in (1 .. N) \X S |->
                       IF IsMore(c[x[1]], x[2].max)
                       THEN [max |-> c[x[1]], pos |-> x[1]] ELSE x[2]]
           Is(f) == f = [i \in 0 .. N |->
                            IF i = 0 THEN first
                            ELSE IF IsMore(c[i], f[i - 1].max)
                                 THEN [max |-> c[i], pos |-> i]
                                 ELSE f[i - 1]]
           best == CHOOSE f : Is(f)
           Good == {n \in 0 .. N : best[n] \in S}
<1>1. /\ N \in Nat /\ first \in S /\ first = [max |-> 0, pos |-> 1]
      /\ \A n \in 1 .. N : [max |-> c[n], pos |-> n] \in S
  BY DEF FirstPosition
<1>2. MaxPosition(c) = best[N].pos
  BY DEF MaxPosition
<1> HIDE DEF N, S, first
<1>3. IsLoop(N, S, first, step)
  <2>1. ASSUME NEW n \in 1 .. N, NEW v \in S
        PROVE  step[<<n, v>>] \in S
    <3>1. step[<<n, v>>] = IF IsMore(c[n], v.max)
                           THEN [max |-> c[n], pos |-> n] ELSE v
      OBVIOUS
    <3> HIDE DEF step
    <3>2. QED
      BY <1>1, <3>1
  <2> HIDE DEF step
  <2>2. QED
    BY <1>1, <2>1 DEF IsLoop
<1>4. PICK g : IsRun(g, N, S, first, step)
  <2> HIDE DEF step
  <2>1. QED
    BY <1>3, RecursiveFunction
<1>5. ASSUME NEW n \in 1 .. N
      PROVE  g[n] = IF IsMore(c[n], g[n - 1].max)
                    THEN [max |-> c[n], pos |-> n] ELSE g[n - 1]
  <2>1. g[n - 1] \in S /\ g[n] = step[<<n, g[n - 1]>>]
    <3>1. n - 1 \in 0 .. N
      BY <1>1
    <3> HIDE DEF step
    <3>2. QED
      BY <1>4, <3>1 DEF IsRun
  <2>2. QED
    BY <2>1
<1> HIDE DEF step
<1>6. Is(g)
  <2>1. ASSUME NEW n \in 0 .. N
        PROVE  g[n] = IF n = 0 THEN first
                      ELSE IF IsMore(c[n], g[n - 1].max)
                           THEN [max |-> c[n], pos |-> n]
                           ELSE g[n - 1]
    <3>1. CASE n = 0
      BY <1>4, <3>1 DEF IsRun
    <3>2. CASE n \in 1 .. N
      BY <1>5, <3>2
    <3>3. QED
      BY <1>1, <3>1, <3>2
  <2>2. QED
    BY <1>4, <2>1 DEF IsRun
<1>7. Is(best)
  <2> HIDE DEF Is
  <2>1. QED
    BY <1>6
<1> HIDE DEF best
<1>8. best[0] = first
  <2>1. 0 \in 0 .. N
    BY <1>1
  <2>2. QED
    BY <1>7, <2>1
<1>9. ASSUME NEW n \in 1 .. N
      PROVE  best[n] = IF c[n] > best[n - 1].max
                       THEN [max |-> c[n], pos |-> n] ELSE best[n - 1]
  <2>1. n \in 0 .. N /\ n # 0
    BY <1>1
  <2>2. QED
    BY <1>7, <2>1 DEF IsMore
<1>10. best \in [0 .. N -> S]
  <2>1. 0 \in Good
    BY <1>1, <1>8
  <2>2. ASSUME NEW m \in 0 .. N - 1, m \in Good
        PROVE  m + 1 \in Good
    <3>1. m + 1 \in 1 .. N /\ m + 1 \in 0 .. N /\ (m + 1) - 1 = m
      BY <1>1
    <3>2. best[m + 1] = IF c[m + 1] > best[m].max
                        THEN [max |-> c[m + 1], pos |-> m + 1] ELSE best[m]
      BY <1>9, <3>1
    <3>3. QED
      BY <1>1, <2>2, <3>1, <3>2
  <2> HIDE DEF Good
  <2>3. \A n \in 0 .. N : n \in Good
    BY <1>1, <2>1, <2>2, Induction
  <2>4. \A n \in 0 .. N : best[n] \in S
    BY <2>3 DEF Good
  <2>5. QED
    BY <1>7, <2>4
<1>11. QED
  BY <1>1, <1>2, <1>8, <1>9, <1>10 DEF N, S

\* It is the first of the largest counts.
LEMMA MaxPositionIsFirst ==
    ASSUME NEW c \in Seq(Nat)
    PROVE  /\ c = <<>> => MaxPosition(c) = 1
           /\ c # <<>> =>
                /\ MaxPosition(c) \in 1 .. Len(c)
                /\ \A l \in 1 .. Len(c) :
                     IF l < MaxPosition(c) THEN c[l] < c[MaxPosition(c)]
                                           ELSE c[l] <= c[MaxPosition(c)]
<1> DEFINE N == Len(c)
<1>1. PICK f \in [0 .. N -> [max : Nat, pos : Nat]] :
        /\ f[0] = [max |-> 0, pos |-> 1]
        /\ \A n \in 1 .. N :
             f[n] = IF c[n] > f[n - 1].max THEN [max |-> c[n], pos |-> n]
                                           ELSE f[n - 1]
        /\ MaxPosition(c) = f[N].pos
  BY MaxRecursion
<1> DEFINE Fine(n, b) ==
             \/ b.max = 0 /\ b.pos = 1 /\ \A l \in 1 .. n : c[l] = 0
             \/ /\ b.pos \in 1 .. n /\ b.max = c[b.pos]
                /\ \A l \in 1 .. n : c[l] <= b.max /\ (l < b.pos => c[l] < b.max)
           Good == {n \in 0 .. N : Fine(n, f[n])}
<1>2. N \in Nat /\ \A n \in 1 .. N : c[n] \in Nat
  OBVIOUS
<1>3. 0 \in Good
  BY <1>1, <1>2
<1>4. ASSUME NEW m \in 0 .. N - 1, m \in Good
      PROVE  m + 1 \in Good
  <2>1. /\ m + 1 \in 1 .. N /\ m + 1 \in 0 .. N /\ m \in 0 .. N
        /\ (m + 1) - 1 = m
    BY <1>2
  <2> DEFINE b == f[m]
  <2>2. f[m + 1] = IF c[m + 1] > b.max
                   THEN [max |-> c[m + 1], pos |-> m + 1] ELSE b
    BY <1>1, <2>1
  <2>3. b.max \in Nat /\ b.pos \in Nat /\ Fine(m, b)
    BY <1>4, <2>1
  <2>4. c[m + 1] \in Nat /\ \A l \in 1 .. m : c[l] \in Nat /\ l \in 1 .. m + 1
    BY <1>2, <2>1
  <2>5. \A l \in 1 .. m + 1 : l \in 1 .. m \/ l = m + 1
    OBVIOUS
  <2> HIDE DEF b
  <2>6. CASE c[m + 1] > b.max
    <3> DEFINE t == [max |-> c[m + 1], pos |-> m + 1]
    <3>1. t.max = c[m + 1] /\ t.pos = m + 1
      OBVIOUS
    <3> HIDE DEF t
    <3>2. \A l \in 1 .. m : c[l] < c[m + 1]
      BY <2>3, <2>4, <2>6
    <3>3. Fine(m + 1, t)
      BY <2>1, <2>4, <2>5, <3>1, <3>2
    <3>4. f[m + 1] = t
      BY <2>2, <2>6 DEF t
    <3> HIDE DEF Fine
    <3>5. QED
      BY <2>1, <3>3, <3>4
  <2>7. CASE ~(c[m + 1] > b.max)
    <3>1. c[m + 1] <= b.max
      BY <2>3, <2>4, <2>7
    <3>2. Fine(m + 1, b)
      <4>1. CASE b.max = 0 /\ b.pos = 1 /\ \A l \in 1 .. m : c[l] = 0
        BY <2>4, <2>5, <3>1, <4>1
      <4>2. CASE /\ b.pos \in 1 .. m /\ b.max = c[b.pos]
                 /\ \A l \in 1 .. m : c[l] <= b.max /\ (l < b.pos => c[l] < b.max)
        BY <2>4, <2>5, <3>1, <4>2
      <4>3. QED
        BY <2>3, <4>1, <4>2
    <3>3. f[m + 1] = b
      BY <2>2, <2>7
    <3> HIDE DEF Fine
    <3>4. QED
      BY <2>1, <3>2, <3>3
  <2>8. QED
    BY <2>6, <2>7
<1>5. N \in Good
  <2> HIDE DEF Good, N
  <2>1. \A n \in 0 .. N : n \in Good
    BY <1>2, <1>3, <1>4, Induction
  <2>2. QED
    BY <1>2, <2>1
<1>6. Fine(N, f[N])
  <2> HIDE DEF Fine
  <2>1. QED
    BY <1>5
<1> DEFINE b == f[N]
<1>7. b.pos = MaxPosition(c) /\ b.max \in Nat
  BY <1>1, <1>2
<1>8. Fine(N, b)
  BY <1>6
<1> HIDE DEF b
<1>9. c = <<>> => N = 0
  OBVIOUS
<1>10. c # <<>> => N >= 1
  OBVIOUS
<1> HIDE DEF N
<1>11. CASE c = <<>>
  BY <1>7, <1>8, <1>9, <1>11
<1>12. CASE c # <<>>
  <2>1. CASE b.max = 0 /\ b.pos = 1 /\ \A l \in 1 .. N : c[l] = 0
    BY <1>2, <1>7, <1>10, <1>12, <2>1 DEF N
  <2>2. CASE /\ b.pos \in 1 .. N /\ b.max = c[b.pos]
             /\ \A l \in 1 .. N : c[l] <= b.max /\ (l < b.pos => c[l] < b.max)
    BY <1>2, <1>7, <1>12, <2>2 DEF N
  <2>3. QED
    BY <1>8, <2>1, <2>2
<1>13. QED
  BY <1>11, <1>12

-----------------------------------------------------------------------------
(* What is counted for a document and a language *)

\* The words of an entry and the tokens of a document.
LEMMA WordsOfEntry ==
    ASSUME NEW entry \in Entry
    PROVE  /\ entry.name \in Words /\ entry.words \in Seq(Words)
           /\ Len(entry.words) \in Nat
           /\ \A n \in 1 .. Len(entry.words) : entry.words[n] \in Words
BY DEF Entry

LEMMA BytesOfLine ==
    ASSUME NEW d \in Docs, NEW w \in Words
    PROVE  Bytes[d][FirstByte[w]] \in Nat
BY DocsAssumption DEF AllBytes

\* Letters are counted in natural numbers.
LEMMA LetterCountType ==
    ASSUME NEW d \in Docs, NEW entry \in Entry
    PROVE  LetterCount(d, entry) \in Nat
<1> DEFINE N == Len(entry.words)
           b(n) == Bytes[d][FirstByte[entry.words[n]]]
           step == [x \in (1 .. N) \X Nat |-> x[2] + b(x[1])]
           Is(f) == f = [n \in 0 .. N |-> IF n = 0 THEN 0 ELSE f[n - 1] + b(n)]
           count == CHOOSE f : Is(f)
           Good == {n \in 0 .. N : count[n] \in Nat}
<1>1. N \in Nat /\ \A n \in 1 .. N : b(n) \in Nat
  BY WordsOfEntry, BytesOfLine
<1>2. LetterCount(d, entry) = count[N]
  BY DEF LetterCount
<1> HIDE DEF N, b
<1>3. IsLoop(N, Nat, 0, step)
  BY <1>1 DEF IsLoop
<1>4. PICK g : IsRun(g, N, Nat, 0, step)
  <2> HIDE DEF step
  <2>1. QED
    BY <1>3, RecursiveFunction
<1>5. ASSUME NEW n \in 1 .. N
      PROVE  g[n] = g[n - 1] + b(n)
  <2>1. g[n - 1] \in Nat /\ g[n] = step[<<n, g[n - 1]>>]
    <3>1. n - 1 \in 0 .. N
      BY <1>1
    <3> HIDE DEF step
    <3>2. QED
      BY <1>4, <3>1 DEF IsRun
  <2>2. QED
    BY <2>1
<1> HIDE DEF step
<1>6. Is(g)
  <2>1. ASSUME NEW n \in 0 .. N
        PROVE  g[n] = IF n = 0 THEN 0 ELSE g[n - 1] + b(n)
    <3>1. CASE n = 0
      BY <1>4, <3>1 DEF IsRun
    <3>2. CASE n \in 1 .. N
      BY <1>5, <3>2
    <3>3. QED
      BY <1>1, <3>1, <3>2
  <2>2. QED
    BY <1>4, <2>1 DEF IsRun
<1>7. Is(count)
  <2> HIDE DEF Is
  <2>1. QED
    BY <1>6
<1> HIDE DEF count
<1>8. 0 \in Good
  <2>1. 0 \in 0 .. N
    BY <1>1
  <2>2. QED
    BY <1>7, <2>1
<1>9. ASSUME NEW m \in 0 .. N - 1, m \in Good
      PROVE  m + 1 \in Good
  <2>1. m + 1 \in 0 .. N /\ m + 1 # 0 /\ (m + 1) - 1 = m /\ m + 1 \in 1 .. N
    BY <1>1
  <2>2. count[m + 1] = count[m] + b(m + 1)
    BY <1>7, <2>1
  <2>3. QED
    BY <1>1, <1>9, <2>1, <2>2
<1>10. \A n \in 0 .. N : n \in Good
  <2> HIDE DEF Good
  <2>1. QED
    BY <1>1, <1>8, <1>9, Induction
<1>11. N \in Good
  BY <1>1, <1>10
<1>12. QED
  BY <1>2, <1>11

\* What is found is among what may be found, and there is no more than the tokens.
LEMMA FoundFinite ==
    ASSUME NEW d \in Docs, NEW entry
    PROVE  /\ Found(d, entry) \subseteq Findable(d, entry)
           /\ IsFiniteSet(Found(d, entry)) /\ IsFiniteSet(Findable(d, entry))
<1>1. Len(Tokens[d]) \in Nat /\ DOMAIN Tokens[d] = 1 .. Len(Tokens[d])
  BY DocsAssumption
<1>2. IsFiniteSet(DOMAIN Tokens[d])
  BY <1>1, FS_Interval
<1>3. Found(d, entry) \subseteq Findable(d, entry)
  <2>1. \A w : Spelled(entry, w) => w \in RangeOf(entry.words)
    BY DEF Spelled, RangeOf
  <2>2. QED
    BY <2>1 DEF Found, Findable
<1>4. Findable(d, entry) \subseteq DOMAIN Tokens[d]
  BY DEF Findable, ShortTerms
<1>5. IsFiniteSet(Findable(d, entry))
  BY <1>2, <1>4, FS_Subset
<1>6. QED
  BY <1>3, <1>5, FS_Subset

\* A count of key words is between these.
LEMMA KeyWordCountBetween ==
    ASSUME NEW d \in Docs, NEW entry, NEW n \in KeyWordCounts(d, entry)
    PROVE  /\ n \in Nat
           /\ Cardinality(Found(d, entry)) \in Nat
           /\ Cardinality(Findable(d, entry)) \in Nat
           /\ Cardinality(Found(d, entry)) <= n
           /\ n <= Cardinality(Findable(d, entry))
<1> DEFINE tokens(f) == {Tokens[d][i] : i \in f}
           more == tokens(Findable(d, entry)) \ tokens(Found(d, entry))
           counted(h) == Found(d, entry)
                           \cup {i \in ShortTerms(d) : Tokens[d][i] \in h}
<1>1. PICK h \in SUBSET more : n = Cardinality(counted(h))
  BY DEF KeyWordCounts
<1>2. counted(h) \subseteq Findable(d, entry)
  <2>1. ASSUME NEW i \in ShortTerms(d), Tokens[d][i] \in h
        PROVE  i \in Findable(d, entry)
    <3>1. PICK j \in Findable(d, entry) : Tokens[d][j] = Tokens[d][i]
      BY <2>1
    <3>2. QED
      BY <3>1 DEF Findable
  <2>2. QED
    BY <2>1, FoundFinite
<1>3. Found(d, entry) \subseteq counted(h)
  OBVIOUS
<1>4. IsFiniteSet(Findable(d, entry)) /\ IsFiniteSet(Found(d, entry))
  BY FoundFinite
<1> HIDE DEF counted
<1>5. IsFiniteSet(counted(h))
  BY <1>2, <1>4, FS_Subset
<1>6. /\ Cardinality(Found(d, entry)) <= Cardinality(counted(h))
      /\ Cardinality(counted(h)) <= Cardinality(Findable(d, entry))
  BY <1>2, <1>3, <1>4, <1>5, FS_Subset
<1>7. QED
  BY <1>1, <1>4, <1>5, <1>6, FS_CardinalityType

-----------------------------------------------------------------------------
(* Calls *)

\* Between calls there is no request; in a call, the counts are those of the
\* current document, one for each entry so far.
CallInv ==
    /\ disk \in [{"langs", "alpha"} -> [exists : BOOLEAN, files : SUBSET Files]]
    /\ pc \in {"down", "keyWords", "alphabets", "idle", "count"}
    /\ engine \in BOOLEAN /\ unread \subseteq Files
    /\ request \in Requests \cup {NoRequest}
    /\ pc # "count" =>
         request = NoRequest /\ done = 0 /\ counts = <<>> /\ langs = <<>>
    /\ done \in 0 .. Len(request.docs)
    /\ counts \in Seq(Nat) /\ Len(counts) <= Len(Entries)
    /\ done < Len(request.docs) =>
         \A k \in DOMAIN counts : counts[k] \in CountsOf(Current, Entries[k])
    /\ langs \in Seq(Words) /\ Len(langs) <= done
    /\ KeyWordLanguage /\ AlphabetLanguage

LEMMA RequestType ==
    ASSUME request \in Requests \cup {NoRequest}
    PROVE  /\ request.docs \in Seq(Docs) /\ Len(request.docs) \in Nat
           /\ request.method \in {"FWM", "AM"}
           /\ \A i \in 1 .. Len(request.docs) : request.docs[i] \in Docs
<1>1. request \in [method : {"FWM", "AM"}, docs : Seq(Docs)]
  <2>1. <<>> \in Seq(Docs)
    OBVIOUS
  <2>2. NoRequest \in [method : {"FWM", "AM"}, docs : Seq(Docs)]
    BY <2>1 DEF NoRequest
  <2>3. QED
    BY <2>2, DocsAssumption
<1>2. request.docs \in Seq(Docs) /\ request.method \in {"FWM", "AM"}
  BY <1>1
<1>3. QED
  BY <1>2

LEMMA EntriesType ==
    ASSUME LoadInv
    PROVE  /\ Entries \in Seq(Entry) /\ Len(Entries) \in Nat
           /\ \A k \in 1 .. Len(Entries) : Entries[k] \in Entry
           /\ \A k \in 1 .. Len(keyWords) : keyWords[k] \in Entry
           /\ Len(keyWords) \in Nat /\ Len(alphabets) \in Nat
           /\ DOMAIN keyWords = 1 .. Len(keyWords)
           /\ DOMAIN alphabets = 1 .. Len(alphabets)
<1>1. keyWords \in Seq(Entry) /\ alphabets \in Seq(Entry)
  BY DEF LoadInv
<1>2. Entries \in Seq(Entry)
  BY <1>1 DEF Entries
<1>3. QED
  BY <1>1, <1>2

\* Outside a call nothing is said of languages.
LEMMA NoCall ==
    ASSUME LoadInv',
           disk' \in [{"langs", "alpha"} -> [exists : BOOLEAN, files : SUBSET Files]],
           pc' \in {"down", "keyWords", "alphabets", "idle"},
           engine' \in BOOLEAN, unread' \subseteq Files,
           request' = NoRequest, done' = 0, counts' = <<>>, langs' = <<>>
    PROVE  CallInv'
<1>1. NoRequest.docs = <<>> /\ NoRequest.method = "FWM"
  BY DEF NoRequest
<1>2. keyWords' \in Seq(Entry) /\ alphabets' \in Seq(Entry)
  BY DEF LoadInv
<1>3. Len(counts') <= Len(Entries')
  BY <1>1, <1>2 DEF Entries
<1>4. KeyWordLanguage'
  BY <1>1 DEF KeyWordLanguage
<1>5. AlphabetLanguage'
  BY <1>1 DEF AlphabetLanguage
<1>6. Len(request'.docs) = 0 /\ Len(langs') = 0
  BY <1>1
<1>7. /\ counts' \in Seq(Nat) /\ langs' \in Seq(Words)
      /\ request' \in Requests \cup {NoRequest}
  OBVIOUS
<1>8. done' \in 0 .. Len(request'.docs) /\ Len(langs') <= done'
      /\ ~(done' < Len(request'.docs))
  BY <1>6
<1>9. QED
  BY <1>3, <1>4, <1>5, <1>7, <1>8 DEF CallInv

LEMMA NoCallStep ==
    ASSUME CallInv, LoadInv', pc # "count",
           disk' \in [{"langs", "alpha"} -> [exists : BOOLEAN, files : SUBSET Files]],
           pc' \in {"down", "keyWords", "alphabets", "idle"},
           engine' \in BOOLEAN, unread' \subseteq Files,
           UNCHANGED call
    PROVE  CallInv'
<1>1. /\ request' = NoRequest /\ done' = 0 /\ counts' = <<>> /\ langs' = <<>>
  BY DEF CallInv, call
<1>2. QED
  BY <1>1, NoCall

LEMMA GoDownCalls ==
    ASSUME CallInv, LoadInv', GoDown
    PROVE  CallInv'
<1>1. /\ pc' = "down" /\ engine' = FALSE /\ unread' = {} /\ disk' = disk
      /\ request' = NoRequest /\ done' = 0 /\ counts' = <<>> /\ langs' = <<>>
  BY DEF GoDown
<1>2. disk \in [{"langs", "alpha"} -> [exists : BOOLEAN, files : SUBSET Files]]
  BY DEF CallInv
<1>3. QED
  BY <1>1, <1>2, NoCall

\* A request of either method starts with no languages.
LEMMA GetLangsCalls ==
    ASSUME LoadInv, CallInv, NEW r \in Requests, GetLangs(r)
    PROVE  CallInv'
<1>1. /\ pc = "idle" /\ pc' = "count" /\ request' = r
      /\ UNCHANGED <<disk, engine, unread, keyWords, alphabets, done, counts, langs>>
  BY DEF GetLangs, lists
<1>2. done = 0 /\ counts = <<>> /\ langs = <<>>
  BY <1>1 DEF CallInv
<1>3. Len(r.docs) \in Nat
  BY DocsAssumption
<1>4. keyWords \in Seq(Entry) /\ alphabets \in Seq(Entry)
  BY DEF LoadInv
<1>5. Len(counts') <= Len(Entries')
  BY <1>1, <1>2, <1>4 DEF Entries
<1>6. KeyWordLanguage' /\ AlphabetLanguage'
  BY <1>1, <1>2 DEF KeyWordLanguage, AlphabetLanguage
<1>7. done' \in 0 .. Len(request'.docs) /\ Len(langs') <= done'
  BY <1>1, <1>2, <1>3
<1>8. QED
  BY <1>1, <1>2, <1>5, <1>6, <1>7 DEF CallInv

\* One entry is counted for the current document.
LEMMA CountType ==
    ASSUME NEW d \in Docs, NEW entry \in Entry, NEW n \in CountsOf(d, entry)
    PROVE  n \in Nat
BY LetterCountType, KeyWordCountBetween DEF CountsOf

LEMMA CountCalls ==
    ASSUME LoadInv, CallInv, Count
    PROVE  CallInv'
<1>1. /\ pc = "count" /\ done < Len(request.docs) /\ Len(counts) < Len(Entries)
      /\ UNCHANGED <<disk, pc, engine, unread, keyWords, alphabets, request, done,
                     langs>>
  BY DEF Count, lists
<1>2. PICK n \in CountsOf(Current, Entries[Len(counts) + 1]) :
        counts' = Append(counts, n)
  BY DEF Count
<1>3. Entries' = Entries /\ Current' = Current
  BY <1>1 DEF Entries, Current
<1>4. /\ counts \in Seq(Nat) /\ Len(counts) \in Nat
      /\ DOMAIN counts = 1 .. Len(counts)
  BY DEF CallInv
<1>5. Current \in Docs
  <2>1. done + 1 \in 1 .. Len(request.docs)
    BY <1>1, RequestType DEF CallInv
  <2>2. QED
    BY <2>1, RequestType DEF CallInv, Current
<1>6. Entries[Len(counts) + 1] \in Entry
  BY <1>1, <1>4, EntriesType
<1>7. n \in Nat
  BY <1>5, <1>6, CountType
<1>8. /\ counts' \in Seq(Nat) /\ Len(counts') = Len(counts) + 1
      /\ DOMAIN counts' = 1 .. Len(counts) + 1
      /\ counts'[Len(counts) + 1] = n
      /\ \A k \in 1 .. Len(counts) : counts'[k] = counts[k]
  BY <1>2, <1>4, <1>7
<1>9. \A k \in DOMAIN counts' : counts'[k] \in CountsOf(Current, Entries[k])
  <2>1. \A k \in 1 .. Len(counts) : counts[k] \in CountsOf(Current, Entries[k])
    BY <1>1, <1>4 DEF CallInv
  <2>2. \A k \in 1 .. Len(counts) + 1 : k \in 1 .. Len(counts) \/ k = Len(counts) + 1
    BY <1>4
  <2>3. QED
    BY <1>2, <1>8, <2>1, <2>2
<1>10. \A k \in DOMAIN counts' : counts'[k] \in CountsOf(Current, Entries[k])'
  <2>1. ASSUME NEW k \in DOMAIN counts'
        PROVE  counts'[k] \in CountsOf(Current, Entries[k])'
    <3>1. counts'[k] \in CountsOf(Current, Entries[k])
      BY <1>9
    <3>2. request' = request
      BY <1>1
    <3>3. QED
      BY <1>3, <3>1, <3>2 DEF CountsOf
  <2>2. QED
    BY <2>1
<1>11. Len(counts') <= Len(Entries')
  BY <1>1, <1>3, <1>4, <1>8, EntriesType
<1>12. KeyWordLanguage' /\ AlphabetLanguage'
  BY <1>1 DEF CallInv, KeyWordLanguage, AlphabetLanguage, SameOrder
<1>13. QED
  BY <1>1, <1>8, <1>10, <1>11, <1>12 DEF CallInv

\* The current document is one of the request.
LEMMA CurrentType ==
    ASSUME CallInv, done < Len(request.docs)
    PROVE  Current \in Docs /\ done \in Nat
<1>1. done + 1 \in 1 .. Len(request.docs) /\ done \in Nat
  BY RequestType DEF CallInv
<1>2. QED
  BY <1>1, RequestType DEF CallInv, Current

\* All entries are counted: the position that is chosen is one of them, the first
\* with the most.
LEMMA CountsChosen ==
    ASSUME LoadInv, CallInv, done < Len(request.docs),
           Len(counts) = Len(Entries), Entries # <<>>
    PROVE  /\ MaxPosition(counts) \in DOMAIN Entries
           /\ \A l \in DOMAIN Entries :
                /\ l \in Nat /\ MaxPosition(counts) \in Nat
                /\ counts[l] \in Nat /\ counts[MaxPosition(counts)] \in Nat
                /\ counts[l] \in CountsOf(Current, Entries[l])
                /\ IF l < MaxPosition(counts)
                   THEN counts[l] < counts[MaxPosition(counts)]
                   ELSE counts[l] <= counts[MaxPosition(counts)]
<1>1. counts \in Seq(Nat) /\ Entries \in Seq(Entry)
  BY EntriesType DEF CallInv
<1>2. /\ counts # <<>> /\ DOMAIN counts = 1 .. Len(counts)
      /\ DOMAIN Entries = 1 .. Len(counts)
      /\ \A l \in 1 .. Len(counts) : counts[l] \in Nat /\ l \in Nat
  <2>1. Len(Entries) # 0
    BY <1>1
  <2>2. QED
    BY <1>1, <2>1
<1>3. \A l \in DOMAIN counts : counts[l] \in CountsOf(Current, Entries[l])
  BY DEF CallInv
<1>4. /\ MaxPosition(counts) \in 1 .. Len(counts)
      /\ \A l \in 1 .. Len(counts) :
           IF l < MaxPosition(counts) THEN counts[l] < counts[MaxPosition(counts)]
                                      ELSE counts[l] <= counts[MaxPosition(counts)]
  BY <1>1, <1>2, MaxPositionIsFirst
<1>5. QED
  BY <1>2, <1>3, <1>4

LEMMA KeyWordChosen ==
    ASSUME LoadInv, CallInv, done < Len(request.docs),
           Len(counts) = Len(Entries), request.method = "FWM", keyWords # <<>>
    PROVE  /\ MaxPosition(counts) \in DOMAIN keyWords
           /\ \A l \in DOMAIN keyWords :
                LET k     == MaxPosition(counts)
                    found == Cardinality(Found(Current, keyWords[l]))
                    most  == Cardinality(Findable(Current, keyWords[k]))
                IN IF l < k THEN found < most ELSE found <= most
<1> DEFINE k == MaxPosition(counts)
<1>1. Entries = keyWords
  BY DEF Entries
<1>2. /\ k \in DOMAIN keyWords
      /\ \A l \in DOMAIN keyWords :
           /\ l \in Nat /\ k \in Nat /\ counts[l] \in Nat /\ counts[k] \in Nat
           /\ counts[l] \in CountsOf(Current, keyWords[l])
           /\ IF l < k THEN counts[l] < counts[k] ELSE counts[l] <= counts[k]
  BY <1>1, CountsChosen
<1>3. \A l \in DOMAIN keyWords :
        counts[l] \in KeyWordCounts(Current, keyWords[l])
  BY <1>2 DEF CountsOf
<1> HIDE DEF k
<1>4. ASSUME NEW l \in DOMAIN keyWords
      PROVE  LET found == Cardinality(Found(Current, keyWords[l]))
                 most  == Cardinality(Findable(Current, keyWords[k]))
             IN IF l < k THEN found < most ELSE found <= most
  <2> DEFINE found == Cardinality(Found(Current, keyWords[l]))
             most == Cardinality(Findable(Current, keyWords[k]))
  <2>1. found \in Nat /\ found <= counts[l]
    BY <1>3, CurrentType, KeyWordCountBetween
  <2>2. most \in Nat /\ counts[k] <= most
    BY <1>2, <1>3, CurrentType, KeyWordCountBetween
  <2> HIDE DEF found, most
  <2>3. IF l < k THEN found < most ELSE found <= most
    BY <1>2, <2>1, <2>2
  <2>4. QED
    BY <2>3 DEF found, most
<1>5. QED
  BY <1>2, <1>4 DEF k

LEMMA AlphabetChosen ==
    ASSUME LoadInv, CallInv, done < Len(request.docs),
           Len(counts) = Len(Entries), request.method = "AM", alphabets # <<>>
    PROVE  /\ MaxPosition(counts) \in DOMAIN alphabets
           /\ \A l \in DOMAIN alphabets :
                LET k     == MaxPosition(counts)
                    of(m) == LetterCount(Current, alphabets[m])
                IN IF l < k THEN of(l) < of(k) ELSE of(l) <= of(k)
<1> DEFINE k == MaxPosition(counts)
<1>1. Entries = alphabets
  BY DEF Entries
<1>2. /\ k \in DOMAIN alphabets
      /\ \A l \in DOMAIN alphabets :
           /\ counts[l] \in CountsOf(Current, alphabets[l])
           /\ IF l < k THEN counts[l] < counts[k] ELSE counts[l] <= counts[k]
  BY <1>1, CountsChosen
<1>3. \A l \in DOMAIN alphabets : counts[l] = LetterCount(Current, alphabets[l])
  BY <1>2 DEF CountsOf
<1>4. QED
  BY <1>2, <1>3

LEMMA ChooseCalls ==
    ASSUME LoadInv, CallInv, Choose
    PROVE  CallInv'
<1> DEFINE p == MaxPosition(counts)
<1>1. /\ pc = "count" /\ done < Len(request.docs) /\ Len(counts) = Len(Entries)
      /\ done' = done + 1 /\ counts' = <<>>
      /\ langs' = IF p \in DOMAIN keyWords THEN Append(langs, keyWords[p].name)
                                           ELSE langs
      /\ UNCHANGED <<disk, pc, engine, unread, keyWords, alphabets, request>>
  BY DEF Choose, lists, NamedBy
<1>2. /\ done \in Nat /\ Len(request.docs) \in Nat /\ Len(langs) \in Nat
      /\ langs \in Seq(Words) /\ Len(langs) <= done
      /\ counts \in Seq(Nat)
      /\ DOMAIN langs = 1 .. Len(langs)
  BY <1>1, CurrentType, RequestType DEF CallInv
<1>3. \A k \in DOMAIN keyWords : keyWords[k].name \in Words
  BY EntriesType, WordsOfEntry
<1>4. \/ /\ p \in DOMAIN keyWords
         /\ langs' \in Seq(Words) /\ Len(langs') = Len(langs) + 1
         /\ DOMAIN langs' = 1 .. Len(langs) + 1
         /\ langs'[Len(langs) + 1] = keyWords[p].name
         /\ \A i \in 1 .. Len(langs) : langs'[i] = langs[i]
      \/ p \notin DOMAIN keyWords /\ langs' = langs
  <2> HIDE DEF p
  <2>1. CASE p \in DOMAIN keyWords
    <3> DEFINE w == keyWords[p].name
    <3>1. w \in Words /\ langs' = Append(langs, w)
      BY <1>1, <1>3, <2>1
    <3> HIDE DEF w
    <3>2. /\ langs' \in Seq(Words) /\ Len(langs') = Len(langs) + 1
          /\ DOMAIN langs' = 1 .. Len(langs) + 1
          /\ langs'[Len(langs) + 1] = w
          /\ \A i \in 1 .. Len(langs) : langs'[i] = langs[i]
      BY <1>2, <3>1
    <3>3. QED
      BY <2>1, <3>2 DEF w
  <2>2. CASE p \notin DOMAIN keyWords
    BY <1>1, <2>2
  <2>3. QED
    BY <2>1, <2>2
<1> HIDE DEF p
<1>5. done' \in 0 .. Len(request.docs) /\ Len(langs') <= done' /\ langs' \in Seq(Words)
  <2>1. langs' \in Seq(Words) /\ Len(langs') \in Nat /\ Len(langs') <= Len(langs) + 1
    BY <1>2, <1>4
  <2>2. QED
    BY <1>1, <1>2, <2>1
<1>6. KeyWordLanguage'
  <2> SUFFICES ASSUME request.method = "FWM", keyWords # <<>>
               PROVE  /\ Len(langs') = done + 1
                      /\ \A i \in DOMAIN langs' : \E k \in DOMAIN keyWords :
                           /\ langs'[i] = keyWords[k].name
                           /\ \A l \in DOMAIN keyWords :
                                LET found == Cardinality(Found(request.docs[i], keyWords[l]))
                                    most  == Cardinality(Findable(request.docs[i], keyWords[k]))
                                IN IF l < k THEN found < most ELSE found <= most
    BY <1>1 DEF KeyWordLanguage
  <2>1. /\ p \in DOMAIN keyWords
        /\ \A l \in DOMAIN keyWords :
             LET found == Cardinality(Found(Current, keyWords[l]))
                 most  == Cardinality(Findable(Current, keyWords[p]))
             IN IF l < p THEN found < most ELSE found <= most
    BY <1>1, KeyWordChosen DEF p
  <2>2. /\ Len(langs) = done
        /\ \A i \in DOMAIN langs : \E k \in DOMAIN keyWords :
             /\ langs[i] = keyWords[k].name
             /\ \A l \in DOMAIN keyWords :
                  LET found == Cardinality(Found(request.docs[i], keyWords[l]))
                      most  == Cardinality(Findable(request.docs[i], keyWords[k]))
                  IN IF l < k THEN found < most ELSE found <= most
    BY DEF CallInv, KeyWordLanguage
  <2>3. Len(langs') = done + 1
    BY <1>4, <2>1, <2>2
  <2>4. ASSUME NEW i \in DOMAIN langs'
        PROVE  \E k \in DOMAIN keyWords :
                 /\ langs'[i] = keyWords[k].name
                 /\ \A l \in DOMAIN keyWords :
                      LET found == Cardinality(Found(request.docs[i], keyWords[l]))
                          most  == Cardinality(Findable(request.docs[i], keyWords[k]))
                      IN IF l < k THEN found < most ELSE found <= most
    <3>1. i \in 1 .. Len(langs) \/ i = Len(langs) + 1
      BY <1>2, <1>4, <2>1
    <3>2. CASE i \in 1 .. Len(langs)
      <4>1. langs'[i] = langs[i]
        BY <1>4, <2>1, <3>2
      <4>2. QED
        BY <1>2, <2>2, <3>2, <4>1
    <3>3. CASE i = Len(langs) + 1
      <4>1. request.docs[i] = Current
        BY <2>2, <3>3 DEF Current
      <4>2. langs'[i] = keyWords[p].name
        BY <1>4, <2>1, <3>3
      <4>3. QED
        BY <2>1, <4>1, <4>2
    <3>4. QED
      BY <3>1, <3>2, <3>3
  <2>5. QED
    BY <2>3, <2>4
<1>7. AlphabetLanguage'
  <2> SUFFICES ASSUME request.method = "AM"
               PROVE  /\ Len(alphabets) <= Len(keyWords) /\ keyWords # <<>> =>
                           Len(langs') = done + 1
                      /\ keyWords = <<>> => langs' = <<>>
                      /\ SameOrder /\ alphabets # <<>> =>
                           \A i \in DOMAIN langs' : \E k \in DOMAIN alphabets :
                             /\ langs'[i] = alphabets[k].name
                             /\ \A l \in DOMAIN alphabets :
                                  LET of(m) == LetterCount(request.docs[i], alphabets[m])
                                  IN IF l < k THEN of(l) < of(k) ELSE of(l) <= of(k)
    BY <1>1 DEF AlphabetLanguage, SameOrder
  <2>1. /\ Len(alphabets) <= Len(keyWords) /\ keyWords # <<>> => Len(langs) = done
        /\ keyWords = <<>> => langs = <<>>
        /\ SameOrder /\ alphabets # <<>> =>
             \A i \in DOMAIN langs : \E k \in DOMAIN alphabets :
               /\ langs[i] = alphabets[k].name
               /\ \A l \in DOMAIN alphabets :
                    LET of(m) == LetterCount(request.docs[i], alphabets[m])
                    IN IF l < k THEN of(l) < of(k) ELSE of(l) <= of(k)
    BY DEF CallInv, AlphabetLanguage
  <2>2. /\ Len(keyWords) \in Nat /\ Len(alphabets) \in Nat
        /\ DOMAIN keyWords = 1 .. Len(keyWords)
        /\ DOMAIN alphabets = 1 .. Len(alphabets)
        /\ keyWords \in Seq(Entry) /\ alphabets \in Seq(Entry)
    BY EntriesType DEF LoadInv
  <2>3. ASSUME Len(alphabets) <= Len(keyWords), keyWords # <<>>
        PROVE  p \in DOMAIN keyWords
    <3>1. Len(keyWords) # 0
      BY <2>2, <2>3
    <3>2. CASE alphabets = <<>>
      <4>1. counts = <<>>
        <5>1. Entries = <<>> /\ Len(counts) = 0
          BY <1>1, <3>2 DEF Entries
        <5>2. QED
          BY <1>2, <5>1
      <4>2. p = 1
        BY <1>2, <4>1, MaxPositionIsFirst DEF p
      <4>3. QED
        BY <2>2, <3>1, <4>2
    <3>3. CASE alphabets # <<>>
      <4>1. p \in DOMAIN alphabets
        BY <1>1, <3>3, AlphabetChosen DEF p
      <4>2. QED
        BY <2>2, <2>3, <4>1
    <3>4. QED
      BY <3>2, <3>3
  <2>4. Len(alphabets) <= Len(keyWords) /\ keyWords # <<>> => Len(langs') = done + 1
    BY <1>4, <2>1, <2>3
  <2>5. keyWords = <<>> => langs' = <<>>
    BY <1>4, <2>1
  <2>6. ASSUME SameOrder, alphabets # <<>>, NEW i \in DOMAIN langs'
        PROVE  \E k \in DOMAIN alphabets :
                 /\ langs'[i] = alphabets[k].name
                 /\ \A l \in DOMAIN alphabets :
                      LET of(m) == LetterCount(request.docs[i], alphabets[m])
                      IN IF l < k THEN of(l) < of(k) ELSE of(l) <= of(k)
    <3>1. Len(alphabets) <= Len(keyWords) /\ keyWords # <<>>
      <4>1. Len(alphabets) \in DOMAIN alphabets
        BY <2>2, <2>6
      <4>2. Len(alphabets) \in DOMAIN keyWords
        BY <2>6, <4>1 DEF SameOrder
      <4>3. QED
        BY <2>2, <4>2
    <3>2. p \in DOMAIN keyWords /\ Len(langs) = done
      BY <2>1, <2>3, <3>1
    <3>3. i \in 1 .. Len(langs) \/ i = Len(langs) + 1
      BY <1>2, <1>4, <3>2
    <3>4. CASE i \in 1 .. Len(langs)
      <4>1. langs'[i] = langs[i] /\ i \in DOMAIN langs
        BY <1>2, <1>4, <3>2, <3>4
      <4>2. QED
        BY <2>1, <2>6, <4>1
    <3>5. CASE i = Len(langs) + 1
      <4>1. request.docs[i] = Current
        BY <3>2, <3>5 DEF Current
      <4>2. /\ p \in DOMAIN alphabets
            /\ \A l \in DOMAIN alphabets :
                 LET of(m) == LetterCount(Current, alphabets[m])
                 IN IF l < p THEN of(l) < of(p) ELSE of(l) <= of(p)
        BY <1>1, <2>6, AlphabetChosen DEF p
      <4>3. langs'[i] = alphabets[p].name
        BY <1>4, <2>6, <3>2, <3>5, <4>2 DEF SameOrder
      <4>4. QED
        BY <4>1, <4>2, <4>3
    <3>6. QED
      BY <3>3, <3>4, <3>5
  <2>7. QED
    BY <2>4, <2>5, <2>6
<1>8. counts' \in Seq(Nat) /\ Len(counts') <= Len(Entries') /\ DOMAIN counts' = {}
  <2>1. Entries' = Entries
    BY <1>1 DEF Entries
  <2>2. QED
    BY <1>1, <2>1, EntriesType
<1>9. QED
  BY <1>1, <1>5, <1>6, <1>7, <1>8 DEF CallInv

\* The steps of start and stop are taken between calls, and the others in one.
LEMMA CallCorrect == Spec => []CallInv
<1>1. Init /\ LoadInv => CallInv
  <2> SUFFICES ASSUME Init, LoadInv PROVE CallInv
    OBVIOUS
  <2>1. /\ disk \in Disks /\ pc = "down" /\ engine = FALSE /\ unread = {}
        /\ request = NoRequest /\ done = 0 /\ counts = <<>> /\ langs = <<>>
    BY DEF Init
  <2>2. disk \in [{"langs", "alpha"} -> [exists : BOOLEAN, files : SUBSET Files]]
    BY <2>1, FilesAssumption
  <2>3. NoRequest.docs = <<>> /\ NoRequest.method = "FWM"
    BY DEF NoRequest
  <2>4. Len(counts) <= Len(Entries)
    BY <2>1, EntriesType
  <2>5. KeyWordLanguage /\ AlphabetLanguage
    BY <2>1, <2>3 DEF KeyWordLanguage, AlphabetLanguage
  <2>6. /\ done \in 0 .. Len(request.docs) /\ Len(langs) <= done
        /\ ~(done < Len(request.docs))
        /\ counts \in Seq(Nat) /\ langs \in Seq(Words)
    BY <2>1, <2>3
  <2>7. QED
    BY <2>1, <2>2, <2>4, <2>5, <2>6 DEF CallInv
<1>2. LoadInv /\ LoadInv' /\ CallInv /\ [Next]_vars => CallInv'
  <2> SUFFICES ASSUME LoadInv, LoadInv', CallInv, [Next]_vars PROVE CallInv'
    OBVIOUS
  <2>1. /\ disk \in [{"langs", "alpha"} -> [exists : BOOLEAN, files : SUBSET Files]]
        /\ engine \in BOOLEAN /\ unread \subseteq Files
    BY DEF CallInv
  <2>2. ASSUME NEW path \in {"langs", "alpha"}, StartCreatesDirectory(path)
        PROVE  CallInv'
    <3>1. /\ pc = "down" /\ pc' = "idle" /\ UNCHANGED <<engine, unread, call>>
          /\ disk' = [disk EXCEPT ![path].exists = TRUE]
      BY <2>2 DEF StartCreatesDirectory
    <3>2. disk' \in [{"langs", "alpha"} -> [exists : BOOLEAN, files : SUBSET Files]]
      BY <2>1, <2>2, <3>1
    <3>3. QED
      BY <2>1, <3>1, <3>2, NoCallStep
  <2>3. CASE Start
    BY <2>1, <2>3, NoCallStep DEF Start
  <2>4. CASE Stop
    BY <2>4, GoDownCalls DEF Stop
  <2>5. ASSUME NEW f \in Files, ReadKeyWords(f) \/ ReadAlphabet(f)
        PROVE  CallInv'
    BY <2>1, <2>5, NoCallStep DEF ReadKeyWords, ReadAlphabet
  <2>6. CASE KeyWordsRead
    BY <2>1, <2>6, NoCallStep DEF KeyWordsRead
  <2>7. CASE AlphabetsRead
    BY <2>1, <2>7, NoCallStep DEF AlphabetsRead
  <2>8. CASE EmptyFileKills
    BY <2>8, GoDownCalls DEF EmptyFileKills
  <2>9. ASSUME NEW r \in Requests, GetLangs(r) PROVE CallInv'
    BY <2>9, GetLangsCalls
  <2>10. CASE GetLangsKills
    BY <2>10, GoDownCalls DEF GetLangsKills
  <2>11. CASE Count
    BY <2>11, CountCalls
  <2>12. CASE Choose
    BY <2>12, ChooseCalls
  <2>13. CASE Return
    BY <2>1, <2>13, NoCall DEF Return, NewList
  <2>14. CASE UNCHANGED vars
    BY <2>14
    DEF vars, CallInv, Entries, Current, CountsOf, KeyWordLanguage,
        AlphabetLanguage, SameOrder
  <2>15. QED
    BY <2>2, <2>3, <2>4, <2>5, <2>6, <2>7, <2>8, <2>9, <2>10, <2>11,
       <2>12, <2>13, <2>14 DEF Next
<1>3. QED
  BY <1>1, <1>2, LoadCorrect, PTL DEF Spec

\* Every variable has its type; there is never a count more than entries, or a
\* language more than documents (irs_engine_define_documents_languages).
THEOREM LanguagesTypeCorrect == Spec => []TypeOK
<1>1. LoadInv /\ CallInv => TypeOK
  BY DEF LoadInv, CallInv, TypeOK
<1>2. QED
  BY <1>1, LoadCorrect, CallCorrect, PTL

\* The language by key words has most words in the document, up to tokens that
\* look like words and words that are lost to another case of their beginning, the
\* first one in case of doubt, for any directories, read in any order
\* (irs_engine_define_documents_languages, irs_dictionary_is_in).
THEOREM KeyWordLanguageCorrect == Spec => []KeyWordLanguage
<1>1. CallInv => KeyWordLanguage
  BY DEF CallInv
<1>2. QED
  BY <1>1, CallCorrect, PTL

\* The language by alphabets has most letters in the document if both directories
\* were read in the same order, and there is one for each document if there are no
\* more alphabets than lists of key words
\* (irs_engine_define_documents_languages_by_alphabets).
THEOREM AlphabetLanguageCorrect == Spec => []AlphabetLanguage
<1>1. CallInv => AlphabetLanguage
  BY DEF CallInv
<1>2. QED
  BY <1>1, CallCorrect, PTL
=============================================================================
