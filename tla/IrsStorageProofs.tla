-------------------------- MODULE IrsStorageProofs --------------------------
(***************************************************************************)
(* What IrsStorage keeps for every vocabulary, every set of documents and  *)
(* batches, and any number of adds and starts; and that it implements      *)
(* IrsIndex: seen through its offsets, it takes only steps an inverted     *)
(* index takes.  At the end, that the loops of IrsIndexing build for every *)
(* batch of documents an index IrsStorage adds.                            *)
(***************************************************************************)
EXTENDS IrsStorage, IrsIndexing, FiniteSetTheorems, WellFoundedInduction, TLAPS

-----------------------------------------------------------------------------
(* Sizes and sets *)

\* What a write of a document counts is what it writes, and it is positive.
LEMMA DocumentSizes ==
    ASSUME NEW d \in Docs
    PROVE  /\ DocumentRecordSize(d) \in Nat \ {0}
           /\ CountedDocumentSize(d) = DocumentRecordSize(d)
BY SizesAssumption DEF DocumentRecordSize, CountedDocumentSize, HeaderSize

\* The same of the writes of a term.
LEMMA TermSizes ==
    ASSUME NEW t \in Terms, NEW es, IsFiniteSet(es)
    PROVE  /\ TermRecordSize(t, es) \in Nat \ {0}
           /\ CountedTermSize(t, es) = TermRecordSize(t, es)
<1>1. Cardinality(es) \in Nat
  BY FS_CardinalityType
<1>2. TermSize(t) \in Nat /\ 2 * HeaderSize + SigSize \in Nat
  BY SizesAssumption, VocabularyAssumption DEF HeaderSize, TermSize
<1>3. \A m, n \in Nat : m * n \in Nat
  OBVIOUS
<1>4. Cardinality(es) * (2 * HeaderSize + SigSize) \in Nat
  BY <1>1, <1>2, <1>3
<1>5. QED
  BY <1>2, <1>4 DEF TermRecordSize, CountedTermSize, HeaderSize

\* The documents noted for a term are finitely many places of its documents.
LEMMA EntriesType ==
    ASSUME TypeOK, NEW t \in Terms, NEW es \in EntriesOf(offsetMap, t)
    PROVE  /\ es \in FiniteSubsets(Nat)
           /\ \A e \in es : \E m \in offsetMap : m.off = e /\ t \in Tokens[m.doc]
<1> DEFINE S == DocumentsWithToken(offsetMap, t)
           T == {m.off : m \in S}
           f == [m \in S |-> m.off]
<1>1. IsFiniteSet(offsetMap) /\ offsetMap \subseteq [doc : Docs, off : Nat]
  BY DEF TypeOK, OffsetMap, FiniteSubsets
<1>2. S \subseteq offsetMap /\ IsFiniteSet(S)
  <2>1. S \in SUBSET offsetMap
    BY DEF DocumentsWithToken
  <2>2. QED
    BY <2>1, <1>1, FS_Subset
<1>3. f \in Surjection(S, T)
  BY DEF Surjection
<1>4. IsFiniteSet(T)
  BY <1>2, <1>3, FS_Surjection
<1>5. T \subseteq Nat
  BY <1>1, <1>2
<1>6. es \in SUBSET T
  BY DEF EntriesOf
<1>7. IsFiniteSet(es)
  BY <1>4, <1>6, FS_Subset
<1>8. QED
  BY <1>5, <1>6, <1>7 DEF FiniteSubsets, DocumentsWithToken

\* An index of the batch has the right shape, and names for a term only places
\* of documents that have it.
LEMMA IndexesType ==
    ASSUME TypeOK, NEW ix \in IndexesOf(offsetMap)
    PROVE  /\ ix \in TermIndex
           /\ \A t \in Terms : \A e \in ix[t].entries :
                \E m \in offsetMap : m.off = e /\ t \in Tokens[m.doc]
<1> DEFINE W == WordsOf(offsetMap)
<1>1. PICK f \in [W -> UNION {EntriesOf(offsetMap, t) : t \in W}] :
        /\ \A t \in W : f[t] \in EntriesOf(offsetMap, t)
        /\ ix = [t \in Terms |-> IF t \in W
                                 THEN [count   |-> DocumentsWithTerm(offsetMap, t),
                                       entries |-> f[t]]
                                 ELSE NoEntry]
  BY DEF IndexesOf
<1>2. ASSUME NEW t \in Terms
      PROVE  DocumentsWithTerm(offsetMap, t) \in Nat
  <2>1. {m \in offsetMap : t \in Substrings[m.doc]} \in SUBSET offsetMap
    OBVIOUS
  <2>2. QED
    BY <2>1, FS_Subset, FS_CardinalityType
    DEF DocumentsWithTerm, TypeOK, OffsetMap, FiniteSubsets
<1>3. NoEntry \in [count : Nat, entries : FiniteSubsets(Nat)]
  BY FS_EmptySet DEF NoEntry, FiniteSubsets
<1>4. ix \in TermIndex
  BY <1>1, <1>2, <1>3, EntriesType DEF TermIndex
<1>5. \A t \in Terms : \A e \in ix[t].entries :
        \E m \in offsetMap : m.off = e /\ t \in Tokens[m.doc]
  BY <1>1, EntriesType DEF NoEntry
<1>6. QED
  BY <1>4, <1>5

-----------------------------------------------------------------------------
(* Types *)

\* Going down leaves a heap of the right shape.
LEMMA GoDownType ==
    ASSUME GoDown
    PROVE  /\ pc' = "down" /\ status' = "none"
           /\ dict' \in [Terms -> Seq(Nat)] /\ loaded' \in SUBSET Terms
           /\ documentsSize' \in Nat /\ termsSize' \in Nat
           /\ pending' \in Seq(Docs)
           /\ offsetMap' \in OffsetMap
           /\ index' \in TermIndex
           /\ todo' \in SUBSET Terms
           /\ reply' \in Reply
<1>1. IsFiniteSet({})
  BY FS_EmptySet
<1>2. {} \in OffsetMap /\ NoIndex \in TermIndex
  BY <1>1 DEF OffsetMap, NoIndex, NoEntry, TermIndex, FiniteSubsets
<1>3. NoReply \in Reply
  BY DEF NoReply, Reply
<1>4. QED
  BY <1>2, <1>3 DEF GoDown, NoOffsets

\* What a save writes has the shape of term_offsets.irsdb.
LEMMA SavedType ==
    ASSUME TypeOK, NEW ts \in SUBSET Terms
    PROVE  Saved(ts) \in TermOffsetsFile
<1>1. \A t \in Terms : FirstOnly(dict[t]) \in Seq(Nat)
  BY DEF TypeOK, FirstOnly
<1>2. QED
  BY <1>1 DEF TypeOK, Saved, TermOffsetsFile

\* A file cut at any of its cut points is a file.
LEMMA CutType ==
    /\ \A file \in DocumentsFile :
         \A n \in CutPoints(file) :
            Cut(file, n) \in DocumentsFile
    /\ \A file \in TermsFile :
         \A n \in CutPoints(file) :
            Cut(file, n) \in TermsFile
BY DEF Cut, CutPoints, DocumentsFile, TermsFile, DocumentRecord, TermRecord

\* A look-up answers with an Answer.
LEMMA AnswersType ==
    ASSUME TypeOK, NEW t \in Terms, NEW a \in Answers(t)
    PROVE  a \in Answer
<1>1. \A r \in terms.recs : r.entries \in SUBSET Nat
  BY DEF TypeOK, TermsFile, TermRecord, FiniteSubsets
<1>2. NotIndexed \in Answer /\ Garbled \in Answer
  BY DEF NotIndexed, Garbled, Answer
<1>3. \A r \in Readable(t) : Found(r.entries) \in Answer
  BY <1>1 DEF Readable, RecordsFor, Found, Answer
<1>4. QED
  BY <1>2, <1>3 DEF Answers

\* The values the actions reset to.
LEMMA ResetTypes ==
    /\ NoReply \in Reply /\ NoIndex \in TermIndex /\ {} \in OffsetMap
    /\ EmptyFile \in DocumentsFile /\ EmptyFile \in TermsFile
    /\ NothingSaved \in TermOffsetsFile
    /\ \A n \in Nat : [NothingSaved EXCEPT !.termsSize = n] \in TermOffsetsFile
    /\ NoOffsets \in [Terms -> Seq(Nat)]
<1>1. IsFiniteSet({})
  BY FS_EmptySet
<1>2. {} \in OffsetMap /\ NoIndex \in TermIndex
  BY <1>1 DEF OffsetMap, NoIndex, NoEntry, TermIndex, FiniteSubsets
<1>3. NoReply \in Reply
  BY DEF NoReply, Reply
<1>4. EmptyFile \in DocumentsFile /\ EmptyFile \in TermsFile
  BY DEF EmptyFile, DocumentsFile, TermsFile
<1>5. NoOffsets \in [Terms -> Seq(Nat)]
  BY DEF NoOffsets
<1>6. \A n \in Nat : [termsSize |-> n, documentsSize |-> 0, at |-> NoOffsets]
                       \in TermOffsetsFile
  BY <1>5 DEF TermOffsetsFile
<1>7. NothingSaved \in TermOffsetsFile
  BY <1>6 DEF NothingSaved
<1>8. \A n \in Nat : [NothingSaved EXCEPT !.termsSize = n] \in TermOffsetsFile
  BY <1>7 DEF TermOffsetsFile
<1>9. QED
  BY <1>2, <1>3, <1>4, <1>5, <1>7, <1>8

THEOREM TypeCorrect == Spec => []TypeOK
<1>1. Init => TypeOK
  <2>1. /\ NoReply \in Reply /\ NoIndex \in TermIndex /\ {} \in OffsetMap
        /\ EmptyFile \in DocumentsFile /\ EmptyFile \in TermsFile
        /\ NothingSaved \in TermOffsetsFile
        /\ NoOffsets \in [Terms -> Seq(Nat)]
    BY ResetTypes
  <2>2. ASSUME Init
        PROVE  /\ documents \in DocumentsFile /\ terms \in TermsFile
               /\ termOffsets \in TermOffsetsFile
               /\ dict \in [Terms -> Seq(Nat)] /\ index \in TermIndex
               /\ offsetMap \in OffsetMap /\ reply \in Reply
               /\ directory \in BOOLEAN /\ lost \subseteq {"documents", "terms"}
               /\ clean \in BOOLEAN /\ intact \in BOOLEAN
    BY <2>1, <2>2, Zenon DEF Init
  <2>3. ASSUME Init
        PROVE  /\ pc = "down" /\ status = "none"
               /\ loaded \in SUBSET Terms /\ todo \in SUBSET Terms
               /\ documentsSize \in Nat /\ termsSize \in Nat
               /\ pending \in Seq(Docs)
               /\ adds \in Nat /\ starts \in Nat
    BY <2>3 DEF Init
  <2>4. QED
    BY <2>2, <2>3 DEF TypeOK
<1>2. ASSUME TypeOK, [Next]_vars
      PROVE  TypeOK'
  <2> USE <1>2
  <2>0. /\ NoReply \in Reply /\ NoIndex \in TermIndex /\ {} \in OffsetMap
        /\ EmptyFile \in DocumentsFile /\ EmptyFile \in TermsFile
    BY ResetTypes
  <2>1. CASE StartCreatesDirectory
    BY <2>0, <2>1 DEF StartCreatesDirectory, TypeOK, heap, batch
  <2>2. CASE Start
    BY <2>0, <2>2 DEF Start, TypeOK, TermOffsetsFile, disk, batch
  <2>3. CASE Stop
    <3>1. termOffsets' \in TermOffsetsFile
      BY <2>3, SavedType DEF Stop, TypeOK
    <3>2. QED
      BY <2>3, <3>1, GoDownType DEF Stop, TypeOK, count
  <2>4. CASE CrashInSave
    <3>1. termOffsets' \in TermOffsetsFile
      BY <2>4, SavedType, ResetTypes DEF CrashInSave, TypeOK
    <3>2. QED
      BY <2>4, <3>1, GoDownType DEF CrashInSave, TypeOK
  <2>5. CASE Crash
    <3>1. documents' \in DocumentsFile
      BY <2>5, CutType DEF Crash, TypeOK
    <3>2. terms' \in TermsFile
      BY <2>5, CutType DEF Crash, TypeOK
    <3>3. QED
      BY <2>5, <3>1, <3>2, GoDownType DEF Crash, TypeOK, count
  <2>6. ASSUME NEW b \in Batches, AddDocuments(b)
        PROVE  TypeOK'
    BY <2>0, <2>6, InputsAssumption DEF AddDocuments, TypeOK, heap
  <2>7. ASSUME NEW b \in Batches, AddDocumentsNowhere(b)
        PROVE  TypeOK'
    BY <2>0, <2>7 DEF AddDocumentsNowhere, TypeOK, disk, heap, batch, count
  <2>8. CASE WriteDocument
    <3> DEFINE d == Head(pending)
    <3>1. d \in Docs /\ Tail(pending) \in Seq(Docs)
      BY <2>8 DEF WriteDocument, TypeOK
    <3>2. documentsSize' \in Nat
      BY <2>8, <3>1, DocumentSizes DEF WriteDocument, TypeOK
    <3>3. documents' \in DocumentsFile
      BY <2>8, <3>1, DocumentSizes
      DEF WriteDocument, TypeOK, DocumentsFile, DocumentRecord
    <3>4. IsFiniteSet(offsetMap \cup {[doc |-> d, off |-> documentsSize]})
      BY FS_AddElement DEF TypeOK, OffsetMap, FiniteSubsets
    <3>5. offsetMap' \in OffsetMap
      BY <2>8, <3>1, <3>4
      DEF WriteDocument, TypeOK, OffsetMap, FiniteSubsets
    <3>6. QED
      BY <2>0, <2>8, <3>1, <3>2, <3>3, <3>5 DEF WriteDocument, TypeOK, count
  <2>9. CASE WriteDocumentFails
    <3>1. documents' \in DocumentsFile
      BY <2>9, CutType DEF WriteDocumentFails, TypeOK
    <3>2. documentsSize' \in Nat
      BY <2>9 DEF WriteDocumentFails, TypeOK, HeaderSize
    <3>3. QED
      BY <2>0, <2>9, <3>1, <3>2 DEF WriteDocumentFails, TypeOK, count
  <2>10. CASE AssignTerms
    <3>1. WordsOf(offsetMap) \in SUBSET Terms
      BY DocsAssumption DEF WordsOf, TypeOK, OffsetMap, FiniteSubsets
    <3>2. index' \in TermIndex
      BY <2>10, IndexesType DEF AssignTerms
    <3>3. documents' \in DocumentsFile
      BY <2>10, CutType DEF AssignTerms, TypeOK
    <3>4. QED
      BY <2>0, <2>10, <3>1, <3>2, <3>3 DEF AssignTerms, TypeOK, heap, count
  <2>11. ASSUME NEW t \in Terms, WriteTerm(t)
         PROVE  TypeOK'
    <3>1. /\ index[t].entries \in FiniteSubsets(Nat)
          /\ index[t].count \in Nat
      BY DEF TypeOK, TermIndex
    <3>2. termsSize' \in Nat
      BY <2>11, <3>1, TermSizes DEF WriteTerm, TypeOK, FiniteSubsets
    <3>3. terms' \in TermsFile
      <4>1. TermRecordSize(t, index[t].entries) \in Nat
        BY <3>1, TermSizes DEF FiniteSubsets
      <4>2. [pos |-> terms.len, term |-> t, count |-> index[t].count,
             entries |-> index[t].entries] \in TermRecord
        BY <3>1 DEF TypeOK, TermsFile, TermRecord
      <4>3. QED
        BY <2>11, <4>1, <4>2 DEF WriteTerm, TypeOK, TermsFile
    <3>4. dict' \in [Terms -> Seq(Nat)]
      BY <2>11 DEF WriteTerm, TypeOK
    <3>5. QED
      BY <2>0, <2>11, <3>2, <3>3, <3>4 DEF WriteTerm, TypeOK, count
  <2>12. CASE FinishAdd
    <3>1. terms' \in TermsFile
      BY <2>12, CutType DEF FinishAdd, TypeOK
    <3>2. QED
      BY <2>0, <2>12, <3>1 DEF FinishAdd, TypeOK, heap, count
  <2>13. ASSUME NEW ts \in Queries, GetDocuments(ts)
         PROVE  TypeOK'
    <3>1. ts \in Seq(Terms)
      BY InputsAssumption
    <3>2. PICK n \in 0 .. Len(ts) :
            \E results \in [1 .. n -> UNION {Answers(ts[i]) : i \in 1 .. n}] :
               /\ \A i \in 1 .. n : results[i] \in Answers(ts[i])
               /\ reply' = [terms |-> ts, results |-> results,
                            ok |-> n = Len(ts)]
      BY <2>13 DEF GetDocuments
    <3>3. PICK results \in [1 .. n -> UNION {Answers(ts[i]) : i \in 1 .. n}] :
               /\ \A i \in 1 .. n : results[i] \in Answers(ts[i])
               /\ reply' = [terms |-> ts, results |-> results,
                            ok |-> n = Len(ts)]
      BY <3>2
    <3>4. \A i \in 1 .. n : results[i] \in Answer
      BY <3>1, <3>3, AnswersType
    <3>5. results \in Seq(Answer)
      <4>1. n \in Nat
        BY <3>1
      <4>2. results \in [1 .. n -> Answer]
        BY <3>3, <3>4, Zenon
      <4>3. QED
        BY <4>1, <4>2
    <3>6. reply' \in Reply
      BY <3>1, <3>3, <3>5 DEF Reply
    <3>7. status' \in {"ok", "read_error"}
      BY <2>13 DEF GetDocuments
    <3>8. QED
      BY <2>13, <3>6, <3>7 DEF GetDocuments, TypeOK, disk, heap, batch, count
  <2>14. CASE UNCHANGED vars
    BY <2>14 DEF vars, TypeOK
  <2>15. QED
    BY <2>1, <2>2, <2>3, <2>4, <2>5, <2>6, <2>7, <2>8, <2>9, <2>10, <2>11,
       <2>12, <2>13, <2>14 DEF Next
<1>3. QED
  BY <1>1, <1>2, PTL DEF Spec

-----------------------------------------------------------------------------
(* Any number of adds: a batch is consistent in itself *)

DriftInv == DriftLaw /\ WrittenOnce

\* Steps that leave the two files as they are or cut them, and end in a phase
\* with nothing to say about, keep the drift invariant.
LEMMA DriftKept ==
    ASSUME WrittenOnce, pc' \in {"down", "idle"},
           terms' = terms \/ \E n : terms' = Cut(terms, n),
           documents' = documents \/ \E n : documents' = Cut(documents, n)
    PROVE  DriftInv'
<1>1. /\ \A r \in terms'.recs : r.pos < terms'.len
      /\ \A r, s \in terms'.recs : r.pos = s.pos => r = s
  BY DEF WrittenOnce, Cut
<1>2. \A d \in documents'.recs : d.pos < documents'.len
  BY DEF WrittenOnce, Cut
<1>3. QED
  BY <1>1, <1>2 DEF DriftInv, DriftLaw, WrittenOnce

\* The element appended is the last one.
LEMMA LastOfAppend ==
    ASSUME NEW q \in Seq(Nat), NEW x \in Nat
    PROVE  /\ Append(q, x) # <<>>
           /\ Append(q, x)[Len(Append(q, x))] = x
<1>1. Len(q) \in Nat /\ Len(Append(q, x)) = Len(q) + 1
  OBVIOUS
<1>2. Append(q, x)[Len(q) + 1] = x
  OBVIOUS
<1>3. Append(q, x) # <<>>
  OBVIOUS
<1>4. QED
  BY <1>1, <1>2, <1>3

\* DriftLaw: the offsets of the batch being written are off by one amount.
THEOREM DriftCorrect == Spec => []DriftInv
<1>1. Init => DriftInv
  BY DEF Init, DriftInv, DriftLaw, WrittenOnce, EmptyFile
<1>2. ASSUME TypeOK, DriftInv, [Next]_vars
      PROVE  DriftInv'
  <2> USE <1>2
  <2>0. WrittenOnce /\ DriftLaw
    BY DEF DriftInv
  <2>1. CASE StartCreatesDirectory
    BY <2>0, <2>1, DriftKept DEF StartCreatesDirectory
  <2>2. CASE Start
    BY <2>0, <2>2, DriftKept DEF Start, disk
  <2>3. CASE Stop
    BY <2>0, <2>3, DriftKept DEF Stop, GoDown
  <2>4. CASE CrashInSave
    BY <2>0, <2>4, DriftKept DEF CrashInSave, GoDown
  <2>5. CASE Crash
    BY <2>0, <2>5, DriftKept DEF Crash, GoDown
  <2>6. ASSUME NEW b \in Batches, AddDocuments(b)
        PROVE  DriftInv'
    BY <2>0, <2>6 DEF AddDocuments, DriftInv, DriftLaw, WrittenOnce, EmptyFile
  <2>7. ASSUME NEW b \in Batches, AddDocumentsNowhere(b)
        PROVE  DriftInv'
    BY <2>0, <2>7, DriftKept DEF AddDocumentsNowhere, disk
  <2>8. CASE WriteDocument
    <3> DEFINE d == Head(pending)
    <3>1. d \in Docs
      BY <2>8 DEF WriteDocument, TypeOK
    <3>2. DocumentRecordSize(d) \in Nat
          /\ CountedDocumentSize(d) = DocumentRecordSize(d)
      BY <3>1, DocumentSizes
    <3>3. documents.len \in Nat /\ documentsSize \in Nat
          /\ \A m \in offsetMap : m.off \in Nat
      BY DEF TypeOK, DocumentsFile, OffsetMap, FiniteSubsets
    <3>4. documentsSize' - documents'.len = documentsSize - documents.len
      BY <2>8, <3>2, <3>3 DEF WriteDocument
    <3>5. documents'.recs
            = documents.recs \cup {[pos |-> documents.len, doc |-> d]}
      BY <2>8 DEF WriteDocument
    <3>6. offsetMap' = offsetMap \cup {[doc |-> d, off |-> documentsSize]}
      BY <2>8 DEF WriteDocument
    <3>7. documentsSize - (documentsSize - documents.len) = documents.len
      BY <3>3
    <3>8. \A m \in offsetMap :
            [pos |-> m.off - (documentsSize - documents.len), doc |-> m.doc]
              \in documents.recs
      BY <2>0, <2>8 DEF DriftLaw, WriteDocument
    <3>9. \A m \in offsetMap' :
            [pos |-> m.off - (documentsSize' - documents'.len), doc |-> m.doc]
              \in documents'.recs
      BY <3>4, <3>5, <3>6, <3>7, <3>8
    <3>10. pc' = "documents" /\ terms' = terms
      BY <2>8 DEF WriteDocument
    <3>11. \A r \in documents'.recs : r.pos < documents'.len
      <4>1. DocumentRecordSize(d) \in Nat \ {0}
            /\ \A r \in documents.recs : r.pos \in Nat
        BY <3>1, DocumentSizes DEF TypeOK, DocumentsFile, DocumentRecord
      <4>2. documents'.len = documents.len + DocumentRecordSize(d)
        BY <2>8 DEF WriteDocument
      <4>3. QED
        BY <2>0, <3>3, <3>5, <4>1, <4>2 DEF WrittenOnce
    <3>12. QED
      BY <2>0, <3>9, <3>10, <3>11 DEF DriftInv, DriftLaw, WrittenOnce
  <2>9. CASE WriteDocumentFails
    BY <2>0, <2>9, DriftKept DEF WriteDocumentFails
  <2>10. CASE AssignTerms
    BY <2>0, <2>10
    DEF AssignTerms, DriftInv, DriftLaw, WrittenOnce, EmptyFile, Cut
  <2>11. ASSUME NEW t \in Terms, WriteTerm(t)
         PROVE  DriftInv'
    <3> DEFINE es == index[t].entries
               new == [pos |-> terms.len, term |-> t, count |-> index[t].count,
                       entries |-> es]
    <3>1. IsFiniteSet(es)
      BY DEF TypeOK, TermIndex, FiniteSubsets
    <3>2. /\ TermRecordSize(t, es) \in Nat \ {0}
          /\ CountedTermSize(t, es) = TermRecordSize(t, es)
      BY <3>1, TermSizes
    <3>3. terms.len \in Nat /\ termsSize \in Nat /\ dict \in [Terms -> Seq(Nat)]
          /\ \A r \in terms.recs : r.pos \in Nat /\ r.term \in Terms
      BY DEF TypeOK, TermsFile, TermRecord
    <3>4. /\ terms'.recs = terms.recs \cup {new}
          /\ terms'.len = terms.len + TermRecordSize(t, es)
          /\ termsSize' = termsSize + CountedTermSize(t, es)
          /\ dict' = [dict EXCEPT ![t] = Append(@, termsSize)]
          /\ todo' = todo \ {t} /\ t \in todo /\ pc = "terms" /\ pc' = "terms"
      BY <2>11 DEF WriteTerm
    <3>5. WrittenOnce'
      <4>1. \A r \in terms'.recs : r.term \notin todo'
        BY <2>0, <3>4 DEF WrittenOnce
      <4>2. \A r \in terms'.recs : r.pos < terms'.len
        BY <2>0, <3>2, <3>3, <3>4 DEF WrittenOnce
      <4>3. \A r, s \in terms'.recs : r.pos = s.pos => r = s
        BY <2>0, <3>3, <3>4 DEF WrittenOnce
      <4>4. documents' = documents
        BY <2>11 DEF WriteTerm
      <4>5. QED
        BY <2>0, <4>1, <4>2, <4>3, <4>4 DEF WrittenOnce
    <3>6. termsSize' - terms'.len = termsSize - terms.len
      BY <3>2, <3>3, <3>4
    <3>7. \A r \in terms.recs :
            /\ dict'[r.term] # <<>>
            /\ dict'[r.term][Len(dict'[r.term])]
                 = r.pos + (termsSize' - terms'.len)
      <4>1. \A r \in terms.recs : r.term # t
        BY <2>0, <3>4 DEF WrittenOnce
      <4>2. \A r \in terms.recs : dict'[r.term] = dict[r.term]
        BY <3>3, <3>4, <4>1
      <4>3. QED
        BY <2>0, <3>4, <3>6, <4>2 DEF DriftLaw
    <3>8. /\ dict'[new.term] # <<>>
          /\ dict'[new.term][Len(dict'[new.term])]
               = new.pos + (termsSize' - terms'.len)
      <4>1. dict'[t] = Append(dict[t], termsSize) /\ dict[t] \in Seq(Nat)
        BY <3>3, <3>4
      <4>2. dict'[t] # <<>> /\ dict'[t][Len(dict'[t])] = termsSize
        BY <3>3, <4>1, LastOfAppend
      <4>3. QED
        BY <3>3, <3>6, <4>2
    <3>9. DriftLaw'
      BY <3>4, <3>7, <3>8 DEF DriftLaw
    <3>10. QED
      BY <3>5, <3>9 DEF DriftInv
  <2>12. CASE FinishAdd
    BY <2>0, <2>12, DriftKept DEF FinishAdd
  <2>13. ASSUME NEW ts \in Queries, GetDocuments(ts)
         PROVE  DriftInv'
    BY <2>0, <2>13, DriftKept DEF GetDocuments, disk
  <2>14. CASE UNCHANGED vars
    BY <2>0, <2>14 DEF vars, DriftInv, DriftLaw, WrittenOnce
  <2>15. QED
    BY <2>1, <2>2, <2>3, <2>4, <2>5, <2>6, <2>7, <2>8, <2>9, <2>10, <2>11,
       <2>12, <2>13, <2>14 DEF Next
<1>3. QED
  BY <1>1, <1>2, TypeCorrect, PTL DEF Spec

-----------------------------------------------------------------------------
(* Storage that was empty before every batch: the index resolves *)

\* No offset, nothing to resolve.
LEMMA NothingResolves ==
    IndexResolves(NoOffsets) /\ NothingSaved.at = NoOffsets
BY DEF IndexResolves, NoOffsets, NothingSaved

\* A save, complete or not, writes an index that resolves if the one in memory
\* does.
LEMMA SavedResolves ==
    ASSUME TypeOK, NEW ts \in SUBSET Terms
    PROVE  /\ IndexResolves(dict) => IndexResolves(Saved(ts).at)
           /\ dict = NoOffsets => Saved(ts).at = NoOffsets
           /\ Saved(ts).termsSize = termsSize
<1>1. Saved(ts).at = [t \in Terms |-> IF t \in ts THEN FirstOnly(dict[t])
                                                  ELSE <<>>]
  BY DEF Saved
<1>2. \A t \in Terms : dict[t] \in Seq(Nat)
  BY DEF TypeOK
<1>3. \A t \in Terms : Saved(ts).at[t] # <<>> =>
         dict[t] # <<>> /\ Head(Saved(ts).at[t]) = Head(dict[t])
  BY <1>1, <1>2 DEF FirstOnly
<1>4. IndexResolves(dict) => IndexResolves(Saved(ts).at)
  BY <1>3 DEF IndexResolves
<1>5. dict = NoOffsets => Saved(ts).at = NoOffsets
  BY <1>1 DEF NoOffsets, FirstOnly
<1>6. QED
  BY <1>4, <1>5 DEF Saved

\* Going down with the saved index as it is, or as a save made it.
LEMMA CleanDown ==
    ASSUME CleanInv, clean' => clean, pc' = "down",
           clean => /\ IndexResolves(termOffsets.at)'
                    /\ termOffsets'.termsSize = 0 => termOffsets'.at = NoOffsets
    PROVE  CleanInv'
BY DEF CleanInv, NoSizeNoIndex, CleanDocuments, CleanTerms

\* What the close of the terms file does not write is missing in its place.
LEMMA FinishAddResolves ==
    ASSUME TypeOK, WrittenOnce, IndexResolves(dict), FinishAdd
    PROVE  IndexResolves(dict)'
<1>1. PICK n \in CutPoints(terms) :
        /\ terms' = Cut(terms, n)
        /\ lost' = lost \cup {f \in {"terms"} : n < terms.len}
  BY DEF FinishAdd
<1>2. dict' = dict /\ documents' = documents
  BY DEF FinishAdd, heap
<1>3. n \in Nat /\ terms.len \in Nat
  BY <1>1 DEF CutPoints, TypeOK, TermsFile, TermRecord
<1>4. \A e, t : DocumentWasAt(e, t) => DocumentWasAt(e, t)'
  BY <1>1, <1>2 DEF DocumentWasAt, DocumentAt
<1>5. ASSUME NEW t \in Terms, dict[t] # <<>>
      PROVE  TermWasAt(Head(dict[t]), t)'
  <2>1. Head(dict[t]) \in Nat /\ TermWasAt(Head(dict[t]), t)
    BY <1>5 DEF IndexResolves, TypeOK
  <2>2. CASE Head(dict[t]) >= n
    <3>1. CASE n < terms.len
      BY <1>1, <1>2, <2>2, <3>1 DEF TermWasAt, Cut
    <3>2. CASE ~(n < terms.len)
      <4>1. "terms" \in lost
        BY <1>3, <2>1, <2>2, <3>2 DEF TermWasAt, WrittenOnce
      <4>2. QED
        BY <1>1, <1>2, <2>2, <4>1 DEF TermWasAt, Cut
    <3>3. QED
      BY <3>1, <3>2
  <2>3. CASE Head(dict[t]) < n
    <3>1. n <= terms.len
      BY <1>1, <1>3 DEF CutPoints, WrittenOnce
    <3>2. PICK r \in terms.recs : /\ r.pos = Head(dict[t]) /\ r.term = t
                                  /\ \A e \in r.entries : DocumentWasAt(e, t)
      BY <1>3, <2>1, <2>3, <3>1 DEF TermWasAt
    <3>3. r \in terms'.recs
      BY <1>1, <2>3, <3>2 DEF Cut
    <3>4. QED
      BY <1>2, <1>4, <3>2, <3>3 DEF TermWasAt
  <2>4. QED
    BY <1>3, <2>1, <2>2, <2>3
<1>6. QED
  BY <1>2, <1>5 DEF IndexResolves

\* CleanIndexResolves and PersistedIndexResolves hold, by this invariant.
THEOREM CleanCorrect == Spec => []CleanInv
<1>1. Init => CleanInv
  BY NothingResolves
  DEF Init, CleanInv, NoSizeNoIndex, CleanDocuments, CleanTerms
<1>2. ASSUME TypeOK, WrittenOnce, CleanInv, [Next]_vars
      PROVE  CleanInv'
  <2> USE <1>2
  <2> USE DEF CleanInv, NoSizeNoIndex, CleanDocuments, CleanTerms
  <2>1. CASE StartCreatesDirectory
    BY <2>1
    DEF StartCreatesDirectory, heap, batch, IndexResolves, TermWasAt, DocumentWasAt,
        DocumentAt
  <2>2. CASE Start
    BY <2>2 DEF Start, disk, batch, IndexResolves, TermWasAt, DocumentWasAt,
        DocumentAt
  <2>3. CASE Stop
    <3>1. /\ pc = "idle" /\ pc' = "down" /\ clean' = clean
          /\ documents' = documents /\ terms' = terms /\ lost' = lost
          /\ \/ termOffsets' = termOffsets
             \/ \E ts \in SUBSET Terms : termOffsets' = Saved(ts)
      BY <2>3 DEF Stop, GoDown, count
    <3>2. CASE termOffsets' = termOffsets
      BY <3>1, <3>2, CleanDown DEF IndexResolves, TermWasAt, DocumentWasAt,
        DocumentAt
    <3>3. ASSUME NEW ts \in SUBSET Terms, termOffsets' = Saved(ts)
          PROVE  CleanInv'
      <4>1. clean => /\ IndexResolves(Saved(ts).at)
                     /\ Saved(ts).termsSize = 0 => Saved(ts).at = NoOffsets
        BY <3>1, SavedResolves
      <4>2. clean => IndexResolves(termOffsets.at)'
        BY <3>1, <3>3, <4>1 DEF IndexResolves, TermWasAt, DocumentWasAt,
        DocumentAt
      <4>3. QED
        BY <3>1, <3>3, <4>1, <4>2, CleanDown
    <3>4. QED
      BY <3>1, <3>2, <3>3
  <2>4. CASE CrashInSave
    <3>1. /\ pc = "idle" /\ pc' = "down" /\ clean' = clean
          /\ documents' = documents /\ terms' = terms /\ lost' = lost
          /\ \/ termOffsets'.at = NoOffsets
             \/ \E ts \in SUBSET Terms : termOffsets' = Saved(ts)
      <4>1. \A n : [NothingSaved EXCEPT !.termsSize = n].at = NoOffsets
        BY DEF NothingSaved
      <4>2. \A n : {t \in Terms : TermRank[t] < n} \in SUBSET Terms
        OBVIOUS
      <4>3. \/ termOffsets'.at = NoOffsets
            \/ \E ts \in SUBSET Terms : termOffsets' = Saved(ts)
        BY <2>4, <4>1, <4>2, NothingResolves DEF CrashInSave
      <4>4. QED
        BY <2>4, <4>3 DEF CrashInSave, GoDown
    <3>2. CASE termOffsets'.at = NoOffsets
      <4>1. IndexResolves(termOffsets.at)'
        BY <3>2 DEF IndexResolves, NoOffsets
      <4>2. QED
        BY <3>1, <3>2, <4>1, CleanDown
    <3>3. ASSUME NEW ts \in SUBSET Terms, termOffsets' = Saved(ts)
          PROVE  CleanInv'
      <4>1. clean => /\ IndexResolves(Saved(ts).at)
                     /\ Saved(ts).termsSize = 0 => Saved(ts).at = NoOffsets
        BY <3>1, SavedResolves
      <4>2. clean => IndexResolves(termOffsets.at)'
        BY <3>1, <3>3, <4>1 DEF IndexResolves, TermWasAt, DocumentWasAt,
        DocumentAt
      <4>3. QED
        BY <3>1, <3>3, <4>1, <4>2, CleanDown
    <3>4. QED
      BY <3>1, <3>2, <3>3
  <2>5. CASE Crash
    <3>1. /\ pc' = "down" /\ clean' = clean /\ termOffsets' = termOffsets
          /\ lost' = lost
          /\ pc \in {"idle", "documents", "terms"}
          /\ pc = "idle" => documents' = documents /\ terms' = terms
      BY <2>5 DEF Crash, GoDown, count, TypeOK
    <3>2. CASE pc = "idle"
      BY <3>1, <3>2, CleanDown DEF IndexResolves, TermWasAt, DocumentWasAt,
        DocumentAt
    <3>3. CASE pc \in {"documents", "terms"}
      <4>1. clean => termOffsets'.at = NoOffsets
        BY <3>1, <3>3
      <4>2. clean => IndexResolves(termOffsets.at)'
        BY <4>1 DEF IndexResolves, NoOffsets
      <4>3. QED
        BY <3>1, <4>1, <4>2, CleanDown
    <3>4. QED
      BY <3>1, <3>2, <3>3
  <2>6. ASSUME NEW b \in Batches, AddDocuments(b)
        PROVE  CleanInv'
    <3>1. /\ pc = "idle" /\ pc' = "documents"
          /\ clean' => clean /\ documentsSize = 0 /\ termsSize = 0
          /\ dict' = dict /\ termOffsets' = termOffsets
          /\ documentsSize' = documentsSize /\ termsSize' = termsSize
          /\ documents'.len = 0 /\ documents'.recs = {} /\ offsetMap' = {}
      BY <2>6 DEF AddDocuments, heap, EmptyFile
    <3>2. clean' => dict' = NoOffsets /\ termOffsets'.at = NoOffsets
      BY <3>1
    <3>3. clean' => IndexResolves(termOffsets.at)'
      BY <3>2 DEF IndexResolves, NoOffsets
    <3>4. QED
      BY <3>1, <3>2, <3>3
  <2>7. ASSUME NEW b \in Batches, AddDocumentsNowhere(b)
        PROVE  CleanInv'
    BY <2>7
    DEF AddDocumentsNowhere, disk, heap, batch, count, IndexResolves, TermWasAt,
        DocumentWasAt, DocumentAt
  <2>8. CASE WriteDocument
    <3> DEFINE d == Head(pending)
    <3>1. /\ pc = "documents" /\ pc' = "documents"
          /\ clean' = clean /\ dict' = dict /\ termOffsets' = termOffsets
          /\ termsSize' = termsSize
          /\ documentsSize' = documentsSize + CountedDocumentSize(d)
          /\ documents'.len = documents.len + DocumentRecordSize(d)
          /\ documents'.recs
               = documents.recs \cup {[pos |-> documents.len, doc |-> d]}
          /\ offsetMap' = offsetMap \cup {[doc |-> d, off |-> documentsSize]}
      BY <2>8 DEF WriteDocument, count
    <3>2. CountedDocumentSize(d) = DocumentRecordSize(d)
      BY <2>8, DocumentSizes DEF WriteDocument, TypeOK
    <3>3. clean' => documentsSize' = documents'.len
      BY <3>1, <3>2
    <3>4. clean' => \A m \in offsetMap' :
                       [pos |-> m.off, doc |-> m.doc] \in documents'.recs
      <4>1. clean' => /\ documentsSize = documents.len
                      /\ \A m \in offsetMap :
                           [pos |-> m.off, doc |-> m.doc] \in documents.recs
        BY <3>1
      <4>2. [pos |-> documents.len, doc |-> d] \in documents'.recs
            /\ documents.recs \subseteq documents'.recs
        BY <3>1
      <4>3. \A m \in offsetMap' :
              m \in offsetMap \/ (m.off = documentsSize /\ m.doc = d)
        BY <3>1
      <4>4. QED
        BY <3>1, <4>1, <4>2, <4>3
    <3>5. clean' => IndexResolves(termOffsets.at)'
      BY <3>1 DEF IndexResolves, NoOffsets
    <3>6. QED
      BY <3>1, <3>3, <3>4, <3>5
  <2>9. CASE WriteDocumentFails
    <3>1. /\ pc = "documents" /\ pc' = "idle"
          /\ clean' = clean /\ dict' = dict /\ termOffsets' = termOffsets
          /\ termsSize' = termsSize
      BY <2>9 DEF WriteDocumentFails, count
    <3>2. clean' => IndexResolves(termOffsets.at)' /\ IndexResolves(dict)'
      BY <3>1 DEF IndexResolves, NoOffsets
    <3>3. QED
      BY <3>1, <3>2
  <2>10. CASE AssignTerms
    <3>1. /\ pc = "documents" /\ pc' = "terms"
          /\ clean' = clean /\ dict' = dict /\ termOffsets' = termOffsets
          /\ termsSize' = termsSize /\ terms'.len = 0
          /\ "terms" \notin lost'
      BY <2>10 DEF AssignTerms, heap, count, EmptyFile
    <3>2. \A t \in Terms : \A e \in index'[t].entries :
             \E m \in offsetMap : m.off = e /\ t \in Tokens[m.doc]
      BY <2>10, IndexesType DEF AssignTerms
    <3>3. clean => \A t \in Terms : \A e \in index'[t].entries :
                      DocumentWasAt(e, t)'
      <4>1. /\ clean => \A m \in offsetMap :
                           [pos |-> m.off, doc |-> m.doc] \in documents.recs
            /\ \A d \in documents.recs : d.pos < documents.len
        BY <3>1 DEF WrittenOnce
      <4>2. PICK n \in CutPoints(documents) :
              /\ documents' = Cut(documents, n)
              /\ lost' = IF n < documents.len THEN {"documents"} ELSE {}
        BY <2>10 DEF AssignTerms
      <4>3. n \in Nat /\ documents.len \in Nat
        BY <4>2 DEF CutPoints, TypeOK, DocumentsFile, DocumentRecord
      <4>4. ASSUME clean, NEW t \in Terms, NEW e \in index'[t].entries
            PROVE  DocumentWasAt(e, t)'
        <5>1. PICK m \in offsetMap : m.off = e /\ t \in Tokens[m.doc]
          BY <3>2
        <5>2. /\ [pos |-> e, doc |-> m.doc] \in documents.recs
              /\ e < documents.len /\ e \in Nat
          BY <4>1, <4>4, <5>1 DEF TypeOK, DocumentsFile, DocumentRecord
        <5>3. CASE e < n
          BY <4>2, <5>1, <5>2, <5>3 DEF Cut, DocumentWasAt, DocumentAt
        <5>4. CASE e >= n
          BY <4>2, <4>3, <5>2, <5>4 DEF Cut, DocumentWasAt
        <5>5. QED
          BY <4>3, <5>2, <5>3, <5>4
      <4>5. QED
        BY <4>4
    <3>4. clean => /\ IndexResolves(termOffsets.at)' /\ IndexResolves(dict)'
                   /\ \A t \in todo' : dict'[t] = <<>>
      <4>1. todo' \subseteq Terms
        BY <2>10, DocsAssumption
        DEF AssignTerms, WordsOf, TypeOK, OffsetMap, FiniteSubsets
      <4>2. QED
        BY <3>1, <4>1 DEF IndexResolves, NoOffsets
    <3>5. QED
      BY <3>1, <3>3, <3>4
  <2>11. ASSUME NEW t \in Terms, WriteTerm(t)
         PROVE  CleanInv'
    <3> DEFINE es == index[t].entries
               new == [pos |-> terms.len, term |-> t, count |-> index[t].count,
                       entries |-> es]
    <3>1. IsFiniteSet(es)
      BY DEF TypeOK, TermIndex, FiniteSubsets
    <3>2. /\ TermRecordSize(t, es) \in Nat \ {0}
          /\ CountedTermSize(t, es) = TermRecordSize(t, es)
      BY <3>1, TermSizes
    <3>3. /\ pc = "terms" /\ pc' = "terms" /\ clean' = clean
          /\ documents' = documents /\ termOffsets' = termOffsets
          /\ lost' = lost /\ index' = index /\ todo' = todo \ {t} /\ t \in todo
          /\ terms'.recs = terms.recs \cup {new}
          /\ terms'.len = terms.len + TermRecordSize(t, es)
          /\ termsSize' = termsSize + CountedTermSize(t, es)
          /\ dict' = [dict EXCEPT ![t] = Append(@, termsSize)]
      BY <2>11 DEF WriteTerm, count
    <3>4. termsSize \in Nat /\ dict \in [Terms -> Seq(Nat)] /\ todo \subseteq Terms
      BY DEF TypeOK
    <3>5. clean => termsSize' = terms'.len /\ termsSize' # 0
      BY <3>2, <3>3, <3>4
    <3>6. \A u \in Terms : u # t => dict'[u] = dict[u]
      BY <3>3, <3>4
    <3>7. clean => \A u \in todo' : dict'[u] = <<>>
      BY <3>3, <3>4, <3>6
    <3>8. \A u \in Terms : \A e : DocumentWasAt(e, u) => DocumentWasAt(e, u)'
      BY <3>3 DEF DocumentWasAt, DocumentAt
    <3>9. ASSUME clean, NEW u \in Terms, dict'[u] # <<>>
          PROVE  TermWasAt(Head(dict[u]), u)'
      <4>1. CASE u = t
        <5>1. dict[t] = <<>>
          BY <3>3, <3>9
        <5>2. dict'[t] = <<termsSize>>
          BY <3>3, <3>4, <5>1
        <5>3. Head(dict'[t]) = terms.len
          BY <3>3, <3>9, <5>2
        <5>4. new \in terms'.recs
          BY <3>3
        <5>5. \A e \in es : DocumentWasAt(e, t)'
          BY <3>3, <3>8, <3>9
        <5>6. QED
          BY <4>1, <5>3, <5>4, <5>5 DEF TermWasAt
      <4>2. CASE u # t
        <5>1. dict'[u] = dict[u] /\ TermWasAt(Head(dict[u]), u)
          BY <3>3, <3>6, <3>9, <4>2 DEF IndexResolves
        <5>2. ~("terms" \in lost)
          BY <3>3, <3>9
        <5>3. QED
          BY <3>3, <3>8, <5>1, <5>2 DEF TermWasAt
      <4>3. QED
        BY <4>1, <4>2
    <3>10. clean => IndexResolves(dict)'
      BY <3>9 DEF IndexResolves
    <3>11. clean => IndexResolves(termOffsets.at)'
      BY <3>3 DEF IndexResolves, NoOffsets
    <3>12. clean => \A u \in Terms : \A e \in index'[u].entries :
                      DocumentWasAt(e, u)'
      BY <3>3, <3>8
    <3>13. QED
      BY <3>3, <3>5, <3>7, <3>10, <3>11, <3>12
  <2>12. CASE FinishAdd
    <3>1. /\ pc = "terms" /\ pc' = "idle" /\ clean' = clean
          /\ dict' = dict /\ termOffsets' = termOffsets
          /\ termsSize' = termsSize
      BY <2>12 DEF FinishAdd, heap, count
    <3>2. clean' => IndexResolves(dict)'
      BY <2>12, <3>1, FinishAddResolves
    <3>3. clean' => IndexResolves(termOffsets.at)'
      BY <3>1 DEF IndexResolves, NoOffsets
    <3>4. clean' /\ termsSize' = 0 =>
            dict' = NoOffsets /\ termOffsets'.at = NoOffsets
      BY <3>1
    <3>5. QED
      BY <3>1, <3>2, <3>3, <3>4
  <2>13. ASSUME NEW ts \in Queries, GetDocuments(ts)
         PROVE  CleanInv'
    BY <2>13
    DEF GetDocuments, disk, heap, batch, count, IndexResolves, TermWasAt, DocumentWasAt,
        DocumentAt
  <2>14. CASE UNCHANGED vars
    BY <2>14 DEF vars, IndexResolves, TermWasAt, DocumentWasAt,
        DocumentAt
  <2>15. QED
    BY <2>1, <2>2, <2>3, <2>4, <2>5, <2>6, <2>7, <2>8, <2>9, <2>10, <2>11,
       <2>12, <2>13, <2>14 DEF Next
<1>3. DriftInv => WrittenOnce
  BY DEF DriftInv
<1>4. QED
  BY <1>1, <1>2, <1>3, TypeCorrect, DriftCorrect, PTL DEF Spec

\* The offsets a lookup starts from resolve, while the process serves and in
\* the saved file at any time.
THEOREM IndexCorrect ==
    Spec => [](CleanIndexResolves /\ PersistedIndexResolves)
<1>1. CleanInv => CleanIndexResolves /\ PersistedIndexResolves
  BY DEF CleanInv, CleanIndexResolves, PersistedIndexResolves
<1>2. QED
  BY <1>1, CleanCorrect, PTL

\* The offsets noted while a batch is written share one error, across any
\* number of adds, stops, crashes and starts.
THEOREM DriftLawCorrect == Spec => []DriftLaw
<1>1. DriftInv => DriftLaw
  BY DEF DriftInv
<1>2. QED
  BY <1>1, DriftCorrect, PTL

-----------------------------------------------------------------------------
(* Answers *)

\* While the index resolves, the record a lookup reads is the term's own, if a
\* close did not lose it.
LEMMA RecordOfTerm ==
    ASSUME TypeOK, WrittenOnce, NEW t \in Terms, dict[t] # <<>>,
           TermWasAt(Head(dict[t]), t)
    PROVE  /\ \A r \in RecordsFor(t) : \A e \in r.entries : DocumentWasAt(e, t)
           /\ RecordsFor(t) = {} =>
                "terms" \in lost /\ ~(Head(dict[t]) < terms.len)
<1>1. /\ Head(dict[t]) \in Nat /\ terms.len \in Nat
      /\ \A r \in RecordsFor(t) : r.pos < terms.len
  BY DEF TypeOK, TermsFile, RecordsFor, WrittenOnce
<1>2. CASE "terms" \in lost /\ Head(dict[t]) >= terms.len
  BY <1>1, <1>2 DEF RecordsFor
<1>3. CASE \E r \in terms.recs : /\ r.pos = Head(dict[t])
                                 /\ \A e \in r.entries : DocumentWasAt(e, t)
  <2>1. PICK s \in terms.recs : /\ s.pos = Head(dict[t])
                                /\ \A e \in s.entries : DocumentWasAt(e, t)
    BY <1>3
  <2>2. s \in RecordsFor(t) /\ \A r \in RecordsFor(t) : r = s
    BY <2>1 DEF RecordsFor, WrittenOnce
  <2>3. QED
    BY <2>1, <2>2
<1>4. QED
  BY <1>2, <1>3 DEF TermWasAt

\* A document that was at a place is there, or the place is past the end.
LEMMA DocumentOrEnd ==
    ASSUME TypeOK, WrittenOnce, NEW e, NEW t, DocumentWasAt(e, t)
    PROVE  /\ PastDocuments(e) \/ \E d \in documents.recs : d.pos = e
           /\ (\E d \in documents.recs : d.pos = e) => DocumentAt(e, t)
           /\ ~(\E d \in documents.recs : d.pos = e) =>
                "documents" \in lost /\ PastDocuments(e)
<1>1. CASE DocumentAt(e, t)
  BY <1>1 DEF DocumentAt
<1>2. CASE "documents" \in lost /\ e >= documents.len
  <2>1. documents.len \in Nat
        /\ \A d \in documents.recs : d.pos < documents.len /\ d.pos \in Nat
    BY DEF TypeOK, DocumentsFile, DocumentRecord, WrittenOnce
  <2>2. ~ \E d \in documents.recs : d.pos = e
    BY <1>2, <2>1
  <2>3. QED
    BY <1>2, <2>2 DEF PastDocuments
<1>3. QED
  BY <1>1, <1>2 DEF DocumentWasAt

\* What one lookup answers, and when it may fail, in storage whose index
\* resolves.
LEMMA AnswerSound ==
    ASSUME TypeOK, WrittenOnce, IndexResolves(dict), NEW t \in Terms
    PROVE  /\ \A a \in Answers(t) :
                /\ a.tag = "docs" => \A e \in a.offs : DocumentAt(e, t)
                /\ a.tag = "none" => dict[t] = <<>>
                /\ a.tag = "garbled" => \E r \in RecordsFor(t) : ~WellCounted(r)
           /\ MayFail(t) =>
                (\E r \in RecordsFor(t) : ~WellCounted(r)) \/ MayMiss(t)
<1>1. CASE dict[t] = <<>>
  BY <1>1 DEF Answers, NotIndexed, MayFail
<1>2. CASE dict[t] # <<>>
  <2>1. /\ \A r \in RecordsFor(t) : \A e \in r.entries : DocumentWasAt(e, t)
        /\ RecordsFor(t) = {} =>
             "terms" \in lost /\ ~(Head(dict[t]) < terms.len)
    BY <1>2, RecordOfTerm DEF IndexResolves
  <2>2. \A r \in RecordsFor(t) : \A e \in r.entries :
          /\ PastDocuments(e) \/ \E d \in documents.recs : d.pos = e
          /\ (\E d \in documents.recs : d.pos = e) => DocumentAt(e, t)
          /\ ~(\E d \in documents.recs : d.pos = e) =>
               "documents" \in lost /\ PastDocuments(e)
    BY <2>1, DocumentOrEnd
  <2>3. MayGarble(t) => \E r \in RecordsFor(t) : ~WellCounted(r)
    <3> SUFFICES ASSUME MayGarble(t), \A r \in RecordsFor(t) : WellCounted(r)
                 PROVE  FALSE
      OBVIOUS
    <3>1. PICK r \in RecordsFor(t) : TRUE
      BY <2>1 DEF MayGarble
    <3>2. ~EntriesResolve(r) /\ ~OnlyHitsEnd(r)
      BY <3>1 DEF MayGarble
    <3>3. PICK e \in r.entries : ~ \E d \in documents.recs : d.pos = e
      BY <3>2 DEF EntriesResolve
    <3>4. QED
      BY <2>2, <3>1, <3>2, <3>3 DEF OnlyHitsEnd
  <2>4. MayFail(t) => (\E r \in RecordsFor(t) : ~WellCounted(r)) \/ MayMiss(t)
    <3> SUFFICES ASSUME MayFail(t), \A r \in RecordsFor(t) : WellCounted(r)
                 PROVE  MayMiss(t)
      OBVIOUS
    <3>1. CASE RecordsFor(t) = {}
      BY <2>1, <3>1 DEF MayMiss
    <3>2. CASE RecordsFor(t) # {}
      <4>1. PICK r \in RecordsFor(t) : ~EntriesResolve(r)
        BY <3>2 DEF MayFail, Readable
      <4>2. PICK e \in r.entries : ~ \E d \in documents.recs : d.pos = e
        BY <4>1 DEF EntriesResolve
      <4>3. "documents" \in lost /\ PastDocuments(e)
        BY <2>2, <4>1, <4>2
      <4>4. QED
        BY <4>1, <4>2, <4>3 DEF MayMiss
    <3>3. QED
      BY <3>1, <3>2
  <2>5. ASSUME NEW a \in Answers(t)
        PROVE  /\ a.tag = "docs" => \A e \in a.offs : DocumentAt(e, t)
               /\ a.tag # "none"
               /\ a.tag = "garbled" => MayGarble(t)
    <3>1. \/ \E r \in Readable(t) : a = Found(r.entries)
          \/ a = Garbled /\ MayGarble(t)
      BY <1>2 DEF Answers
    <3>2. CASE \E r \in Readable(t) : a = Found(r.entries)
      <4>1. PICK r \in RecordsFor(t) : a = Found(r.entries) /\ EntriesResolve(r)
        BY <3>2 DEF Readable
      <4>2. \A e \in r.entries : DocumentAt(e, t)
        BY <2>2, <4>1 DEF EntriesResolve
      <4>3. QED
        BY <4>1, <4>2 DEF Found
    <3>3. CASE a = Garbled /\ MayGarble(t)
      BY <3>3 DEF Garbled
    <3>4. QED
      BY <3>1, <3>2, <3>3
  <2>6. QED
    BY <2>3, <2>4, <2>5
<1>3. QED
  BY <1>1, <1>2

\* Before the first answer, and after any other step.
LEMMA NoReplySound ==
    /\ reply = NoReply => ReplySound
    /\ reply' = NoReply => ReplySound'
BY DEF ReplySound, NoReply

\* ReplySound: in storage that was empty before every batch, no lookup answers
\* with a document that lacks the term.
THEOREM ReplyCorrect == Spec => []ReplySound
<1>1. Init => ReplySound
  BY NoReplySound DEF Init
<1>2. ASSUME TypeOK, WrittenOnce, CleanInv, ReplySound, [Next]_vars
      PROVE  ReplySound'
  <2> USE <1>2
  <2>1. ASSUME NEW ts \in Queries, GetDocuments(ts)
        PROVE  ReplySound'
    <3>1. /\ pc = "idle" /\ dict' = dict /\ terms' = terms /\ clean' = clean
          /\ documents' = documents /\ lost' = lost
      BY <2>1 DEF GetDocuments, disk, heap, count
    <3>2. ts \in Seq(Terms)
      BY InputsAssumption
    <3>3. PICK n \in 0 .. Len(ts) :
            /\ n < Len(ts) => MayFail(ts[n + 1])
            /\ \E results \in [1 .. n -> UNION {Answers(ts[i]) : i \in 1 .. n}] :
                 /\ \A i \in 1 .. n : results[i] \in Answers(ts[i])
                 /\ reply' = [terms |-> ts, results |-> results,
                              ok |-> n = Len(ts)]
      BY <2>1 DEF GetDocuments
    <3>4. PICK results \in [1 .. n -> UNION {Answers(ts[i]) : i \in 1 .. n}] :
            /\ \A i \in 1 .. n : results[i] \in Answers(ts[i])
            /\ reply' = [terms |-> ts, results |-> results, ok |-> n = Len(ts)]
      BY <3>3
    <3>5. /\ reply'.terms = ts /\ reply'.results = results
          /\ reply'.ok = (n = Len(ts)) /\ DOMAIN results = 1 .. n
          /\ n \in Nat /\ Len(results) = n
      BY <3>2, <3>3, <3>4
    <3>6. \A i : /\ RecordsFor(reply.terms[i])' = RecordsFor(ts[i])
                 /\ \A e : DocumentAt(e, ts[i]) => DocumentAt(e, reply.terms[i])'
      BY <3>1, <3>5 DEF RecordsFor, DocumentAt
    <3>7. clean => IndexResolves(dict)
      BY <3>1 DEF CleanInv
    <3>8. /\ \A i \in 1 .. n : ts[i] \in Terms
          /\ n # Len(ts) => n < Len(ts) /\ ts[n + 1] \in Terms
      <4>1. n \in 0 .. Len(ts) /\ Len(ts) \in Nat
        BY <3>2, <3>3
      <4>2. QED
        BY <3>2, <4>1
    <3>9. ASSUME clean, NEW i \in 1 .. n
          PROVE  /\ results[i].tag = "docs" =>
                      \A e \in results[i].offs : DocumentAt(e, ts[i])
                 /\ results[i].tag = "none" => dict[ts[i]] = <<>>
                 /\ results[i].tag = "garbled" =>
                      \E r \in RecordsFor(ts[i]) : ~WellCounted(r)
      BY <3>4, <3>7, <3>8, <3>9, AnswerSound
    <3>10. clean /\ n # Len(ts) =>
             \/ \E r \in RecordsFor(ts[n + 1]) : ~WellCounted(r)
             \/ MayMiss(ts[n + 1])
      BY <3>3, <3>7, <3>8, AnswerSound
    <3>11. clean => \A i \in DOMAIN reply'.results :
             /\ reply'.results[i].tag = "docs" =>
                  \A e \in reply'.results[i].offs :
                     DocumentAt(e, reply.terms[i])'
             /\ reply'.results[i].tag = "none" => dict'[reply'.terms[i]] = <<>>
             /\ reply'.results[i].tag = "garbled" =>
                  \E r \in RecordsFor(reply.terms[i])' : ~WellCounted(r)
      <4> SUFFICES ASSUME clean, NEW i \in 1 .. n
          PROVE  /\ results[i].tag = "docs" =>
                      \A e \in results[i].offs : DocumentAt(e, reply.terms[i])'
                 /\ results[i].tag = "none" => dict[ts[i]] = <<>>
                 /\ results[i].tag = "garbled" =>
                      \E r \in RecordsFor(reply.terms[i])' : ~WellCounted(r)
        BY <3>1, <3>5, Zenon
      <4>1. results[i].tag = "docs" =>
              \A e \in results[i].offs : DocumentAt(e, reply.terms[i])'
        BY <3>6, <3>9
      <4>2. results[i].tag = "garbled" =>
              \E r \in RecordsFor(reply.terms[i])' : ~WellCounted(r)
        BY <3>6, <3>9
      <4>3. QED
        BY <3>9, <4>1, <4>2
    <3>12. clean /\ ~reply'.ok =>
             \/ \E r \in RecordsFor(reply.terms[Len(reply.results) + 1])' :
                  ~WellCounted(r)
             \/ MayMiss(reply.terms[Len(reply.results) + 1])'
      BY <3>1, <3>5, <3>10 DEF RecordsFor, MayMiss, PastDocuments
    <3>13. QED
      BY <3>1, <3>11, <3>12 DEF ReplySound
  <2>2. CASE UNCHANGED vars
    BY <2>2 DEF vars, ReplySound, DocumentAt, RecordsFor, WellCounted, MayMiss,
               PastDocuments
  <2>3. CASE reply' = NoReply
    BY <2>3, NoReplySound
  <2>4. QED
    BY <2>1, <2>2, <2>3
    DEF Next, StartCreatesDirectory, Start, Stop, CrashInSave, Crash, GoDown,
        AddDocuments, AddDocumentsNowhere, WriteDocument, WriteDocumentFails,
        AssignTerms, WriteTerm, FinishAdd
<1>3. QED
  <2>1. DriftInv => WrittenOnce
    BY DEF DriftInv
  <2>2. QED
    BY <1>1, <1>2, <2>1, TypeCorrect, DriftCorrect, CleanCorrect, PTL DEF Spec

-----------------------------------------------------------------------------
(* What the mapping to IrsIndex needs beside the invariants above *)

\* No two documents share a place, and a process that is down has no index.
\* A batch notes down all documents it wrote, and a term that some of them do
\* not have in any form is indexed with another one.
SeenInv ==
    /\ \A d, e \in documents.recs : d.pos = e.pos => d = e
    /\ pc = "down" => dict = NoOffsets
    /\ clean /\ pc = "documents" =>
         \A d \in documents.recs : [doc |-> d.doc, off |-> d.pos] \in offsetMap
    /\ clean /\ pc = "terms" /\ "documents" \notin lost =>
         \A t \in todo : (\E d \in documents.recs : t \notin Substrings[d.doc])
                           => DocumentsOf(index[t].entries) # {}

\* A finite set of numbers has a smallest one: no set of the numbers below one
\* is a proper part of that of the numbers below it.
LEMMA SmallestOf ==
    ASSUME NEW S, S \subseteq Nat, IsFiniteSet(S), S # {}
    PROVE  \E x \in S : \A y \in S : x <= y
<1> DEFINE below(x) == {y \in S : y < x}
           T == {below(x) : x \in S}
<1>1. T \subseteq FiniteSubsetsOf(S) /\ T # {}
  <2>1. FiniteSubsetsOf(S) = SUBSET S
    BY FS_FiniteSubsetsOfFinite
  <2>2. \A x \in S : below(x) \in SUBSET S
    OBVIOUS
  <2>3. T # {}
    OBVIOUS
  <2>4. QED
    BY <2>1, <2>2, <2>3
<1>2. PICK U \in T : \A V \in T : <<V, U>> \notin StrictSubsetOrdering(S)
  <2>1. IsWellFoundedOn(StrictSubsetOrdering(S), FiniteSubsetsOf(S))
    BY FS_StrictSubsetOrderingWellFounded
  <2>. HIDE DEF T
  <2>2. QED
    BY <1>1, <2>1, WFMin
<1>3. PICK x \in S : U = below(x)
  BY <1>2
<1>4. \A y \in S : ~(y < x)
  <2>1. SUFFICES ASSUME NEW y \in S, y < x
                 PROVE  FALSE
    OBVIOUS
  <2>2. below(y) \subseteq below(x)
    <3>1. \A z \in S : z < y => z < x
      <4>1. \A a, b, c \in Nat : a < b /\ b < c => a < c
        OBVIOUS
      <4>2. QED
        BY <2>1, <4>1
    <3>2. QED
      BY <3>1
  <2>3. y \in below(x) /\ y \notin below(y)
    BY <2>1
  <2>4. <<below(y), U>> \in StrictSubsetOrdering(S)
    BY <1>3, <2>2, <2>3 DEF StrictSubsetOrdering
  <2>5. QED
    BY <1>2, <2>4
<1>5. QED
  BY <1>4

\* A term of the batch that strstr does not find in one of its documents gets an
\* entry, whatever the reverse frequencies of other terms are.
LEMMA RareHasEntry ==
    ASSUME TypeOK, NEW t \in Terms, t \in WordsOf(offsetMap),
           NEW m \in offsetMap, t \notin Substrings[m.doc],
           NEW es \in EntriesOf(offsetMap, t)
    PROVE  \E x \in offsetMap : x.off \in es
<1> DEFINE with == {x \in offsetMap : t \in Substrings[x.doc]}
           places == {x.off : x \in DocumentsWithToken(offsetMap, t)}
<1>1. /\ IsFiniteSet(offsetMap)
      /\ \A x \in offsetMap : x.off \in Nat
  BY DEF TypeOK, OffsetMap, FiniteSubsets
<1>2. IsRare(offsetMap, t)
  <2>1. with \subseteq offsetMap /\ with # offsetMap
    OBVIOUS
  <2>2. Cardinality(with) < Cardinality(offsetMap)
    BY <2>1, <1>1, FS_Subset, FS_CardinalityType
  <2>3. QED
    BY <2>2 DEF IsRare, DocumentsWithTerm
<1>3. places \subseteq Nat /\ places # {} /\ IsFiniteSet(places)
  <2> DEFINE S == DocumentsWithToken(offsetMap, t)
             f == [x \in S |-> x.off]
  <2>1. S \in SUBSET offsetMap
    BY DEF DocumentsWithToken
  <2>2. IsFiniteSet(S)
    BY <2>1, <1>1, FS_Subset
  <2>3. f \in Surjection(S, places)
    BY DEF Surjection
  <2>4. IsFiniteSet(places)
    BY <2>2, <2>3, FS_Surjection
  <2>5. QED
    BY <1>1, <2>4 DEF WordsOf, DocumentsWithToken
<1>4. PICK p \in places : \A q \in places : p <= q
  BY <1>3, SmallestOf
<1>5. p \in es
  BY <1>2, <1>4 DEF EntriesOf
<1>6. QED
  BY <1>4, <1>5 DEF DocumentsWithToken

\* Steps that leave or cut the documents, of no phase with a batch.
LEMMA SeenKept ==
    ASSUME SeenInv, pc' \in {"down", "idle"}, pc' = "down" => dict' = NoOffsets,
           documents'.recs \subseteq documents.recs
    PROVE  SeenInv'
BY DEF SeenInv

LEMMA CutPart ==
    \A file, n : /\ Cut(file, n).recs \subseteq file.recs
                 /\ \A r \in file.recs : r.pos < n => r \in Cut(file, n).recs
BY DEF Cut

LEMMA SeenCorrect == Spec => []SeenInv
<1>1. Init => SeenInv
  BY DEF Init, SeenInv, EmptyFile
<1>2. ASSUME TypeOK, WrittenOnce, CleanInv, SeenInv, [Next]_vars
      PROVE  SeenInv'
  <2> USE <1>2
  <2>1. CASE StartCreatesDirectory
    BY <2>1, SeenKept DEF StartCreatesDirectory, heap, SeenInv
  <2>2. CASE Start
    BY <2>2, SeenKept DEF Start, disk
  <2>3. CASE Stop
    BY <2>3, SeenKept DEF Stop, GoDown
  <2>4. CASE CrashInSave
    BY <2>4, SeenKept DEF CrashInSave, GoDown
  <2>5. CASE Crash
    BY <2>5, SeenKept, CutPart DEF Crash, GoDown
  <2>6. ASSUME NEW b \in Batches, AddDocuments(b)
        PROVE  SeenInv'
    BY <2>6 DEF AddDocuments, SeenInv, EmptyFile
  <2>7. ASSUME NEW b \in Batches, AddDocumentsNowhere(b)
        PROVE  SeenInv'
    BY <2>7, SeenKept DEF AddDocumentsNowhere, disk
  <2>8. CASE WriteDocument
    <3> DEFINE d == [pos |-> documents.len, doc |-> Head(pending)]
    <3>1. /\ pc = "documents" /\ pc' = "documents" /\ clean' = clean
          /\ documents'.recs = documents.recs \cup {d}
          /\ offsetMap' = offsetMap
               \cup {[doc |-> Head(pending), off |-> documentsSize]}
      BY <2>8 DEF WriteDocument, count
    <3>2. \A e \in documents.recs : e.pos # documents.len
      <4>1. \A e \in documents.recs : e.pos \in Nat /\ e.pos < documents.len
        BY DEF TypeOK, DocumentsFile, DocumentRecord, WrittenOnce
      <4>2. QED
        BY <4>1
    <3>3. clean => documentsSize = documents.len
      BY <3>1 DEF CleanInv, CleanDocuments
    <3>4. \A e \in documents'.recs : e \in documents.recs \/ e = d
      BY <3>1
    <3>5. \A e, f \in documents'.recs : e.pos = f.pos => e = f
      BY <3>2, <3>4 DEF SeenInv
    <3>6. clean => \A e \in documents'.recs :
                     [doc |-> e.doc, off |-> e.pos] \in offsetMap'
      <4>1. d.pos = documents.len /\ d.doc = Head(pending)
        OBVIOUS
      <4>2. clean => [doc |-> d.doc, off |-> d.pos] \in offsetMap'
        BY <3>1, <3>3, <4>1
      <4>3. clean => \A e \in documents.recs :
                       [doc |-> e.doc, off |-> e.pos] \in offsetMap'
        BY <3>1 DEF SeenInv
      <4> HIDE DEF d
      <4>4. QED
        BY <3>4, <4>2, <4>3
    <3>7. QED
      BY <3>1, <3>5, <3>6 DEF SeenInv
  <2>9. CASE WriteDocumentFails
    BY <2>9, SeenKept, CutPart DEF WriteDocumentFails
  <2>10. CASE AssignTerms
    <3>1. PICK n \in CutPoints(documents) :
            /\ documents' = Cut(documents, n)
            /\ lost' = IF n < documents.len THEN {"documents"} ELSE {}
      BY <2>10 DEF AssignTerms
    <3>2. /\ pc = "documents" /\ pc' = "terms" /\ clean' = clean
          /\ index' \in IndexesOf(offsetMap) /\ todo' = WordsOf(offsetMap)
      BY <2>10 DEF AssignTerms, count
    <3>3. documents'.recs \subseteq documents.recs
      BY <3>1, CutPart
    <3>4. ASSUME clean, "documents" \notin lost', NEW t \in WordsOf(offsetMap),
                 NEW d \in documents'.recs, t \notin Substrings[d.doc]
          PROVE  DocumentsOf(index[t].entries)' # {}
      <4>1. t \in Terms
        BY DocsAssumption DEF WordsOf, TypeOK, OffsetMap, FiniteSubsets
      <4>2. index'[t].entries \in EntriesOf(offsetMap, t)
        BY <3>2, <3>4, <4>1 DEF IndexesOf
      <4>3. [doc |-> d.doc, off |-> d.pos] \in offsetMap
        BY <3>2, <3>3, <3>4 DEF SeenInv
      <4>4. PICK x \in offsetMap : x.off \in index'[t].entries
        BY <3>4, <4>1, <4>2, <4>3, RareHasEntry
      <4>5. [pos |-> x.off, doc |-> x.doc] \in documents.recs
        BY <3>2, <3>4 DEF CleanInv, CleanDocuments
      <4>6. x.off < n
        <5>1. /\ x.off < documents.len /\ x.off \in Nat
              /\ documents.len \in Nat /\ n \in Nat
          BY <4>5 DEF WrittenOnce, TypeOK, DocumentsFile, DocumentRecord,
                      CutPoints
        <5>2. ~(n < documents.len)
          BY <3>1, <3>4
        <5>3. QED
          BY <5>1, <5>2
      <4>7. [pos |-> x.off, doc |-> x.doc] \in documents'.recs
        BY <3>1, <4>5, <4>6, CutPart
      <4>8. QED
        BY <4>4, <4>7 DEF DocumentsOf
    <3>5. QED
      BY <3>2, <3>3, <3>4 DEF SeenInv
  <2>11. ASSUME NEW t \in Terms, WriteTerm(t)
         PROVE  SeenInv'
    BY <2>11 DEF WriteTerm, SeenInv, DocumentsOf, count
  <2>12. CASE FinishAdd
    BY <2>12, SeenKept DEF FinishAdd
  <2>13. ASSUME NEW ts \in Queries, GetDocuments(ts)
         PROVE  SeenInv'
    BY <2>13, SeenKept DEF GetDocuments, disk
  <2>14. CASE UNCHANGED vars
    BY <2>14 DEF vars, SeenInv, DocumentsOf
  <2>15. QED
    BY <2>1, <2>2, <2>3, <2>4, <2>5, <2>6, <2>7, <2>8, <2>9, <2>10, <2>11,
       <2>12, <2>13, <2>14 DEF Next
<1>3. DriftInv => WrittenOnce
  BY DEF DriftInv
<1>4. QED
  BY <1>1, <1>2, <1>3, TypeCorrect, DriftCorrect, CleanCorrect, PTL DEF Spec

-----------------------------------------------------------------------------
(* The index seen through the offsets *)

\* No offsets are the empty index.
LEMMA NoOffsetsIndex ==
    /\ IndexOf(NoOffsets) = Index!Empty
    /\ \A S : Index!Part(Index!Empty, S) = Index!Empty
    /\ Index!Part(IndexOf(dict), {}) = Index!Empty
BY DEF IndexOf, NoOffsets, Index!Empty, Index!Part

\* A dictionary that becomes empty is the empty index, and one that stays is the
\* same index as long as the files are.
LEMMA SameIndex ==
    /\ dict' = NoOffsets => IndexOf(dict)' = Index!Empty
    /\ termOffsets'.at = NoOffsets => IndexOf(termOffsets.at)' = Index!Empty
    /\ documents' = documents /\ terms' = terms =>
         /\ dict' = dict => IndexOf(dict)' = IndexOf(dict)
         /\ termOffsets' = termOffsets =>
              IndexOf(termOffsets.at)' = IndexOf(termOffsets.at)
         /\ dict' = termOffsets.at => IndexOf(dict)' = IndexOf(termOffsets.at)
<1>1. dict' = NoOffsets => IndexOf(dict)' = Index!Empty
  BY DEF IndexOf, NoOffsets, Index!Empty
<1>2. termOffsets'.at = NoOffsets => IndexOf(termOffsets.at)' = Index!Empty
  BY DEF IndexOf, NoOffsets, Index!Empty
<1>3. ASSUME documents' = documents, terms' = terms
      PROVE  /\ dict' = dict => IndexOf(dict)' = IndexOf(dict)
             /\ termOffsets' = termOffsets =>
                  IndexOf(termOffsets.at)' = IndexOf(termOffsets.at)
             /\ dict' = termOffsets.at =>
                  IndexOf(dict)' = IndexOf(termOffsets.at)
  BY <1>3 DEF IndexOf, DocumentsOf, EntriesAt
<1>4. QED
  BY <1>1, <1>2, <1>3

\* What a save writes is seen as the part of the index it writes.
LEMMA SavedIndex ==
    ASSUME TypeOK, NEW ts \in SUBSET Terms
    PROVE  IndexOf(Saved(ts).at) = Index!Part(IndexOf(dict), ts)
<1> DEFINE offs == Saved(ts).at
<1>1. offs = [t \in Terms |-> IF t \in ts THEN FirstOnly(dict[t]) ELSE <<>>]
  BY DEF Saved
<1>2. \A t \in Terms : dict[t] \in Seq(Nat)
  BY DEF TypeOK
<1>3. \A t \in Terms : offs[t] # <<>> <=> t \in ts /\ dict[t] # <<>>
  BY <1>1, <1>2 DEF FirstOnly
<1>4. \A t \in ts : dict[t] # <<>> => Head(offs[t]) = Head(dict[t])
  BY <1>1, <1>2 DEF FirstOnly
<1> HIDE DEF offs
<1>5. {t \in Terms : offs[t] # <<>>} = {t \in Terms : dict[t] # <<>>} \cap ts
  BY <1>3
<1>6. QED
  BY <1>4, <1>5 DEF IndexOf, Index!Part, offs

\* Nothing was answered since the last change.
LEMMA NothingAnswered ==
    reply' = NoReply => reply'.terms = <<>> /\ Answered' = <<>>
BY DEF NoReply, Answered

-----------------------------------------------------------------------------
(* Every step of the storage is one of the index *)

\* A step that changes no file and no offset is a query without terms.
LEMMA IdleStep ==
    ASSUME documents' = documents, terms' = terms, termOffsets' = termOffsets,
           lost' = lost, dict' = dict, intact' = intact, reply' = NoReply
    PROVE  Index!Keep
<1>1. /\ IndexOf(dict)' = IndexOf(dict)
      /\ IndexOf(termOffsets.at)' = IndexOf(termOffsets.at)
  BY SameIndex
<1>2. reply'.terms = <<>> /\ Answered' = <<>>
  BY NothingAnswered
<1>3. QED
  BY <1>1, <1>2 DEF Index!Keep, Index!GetDocuments

\* Start reads the saved index back.
LEMMA StartStep ==
    ASSUME SeenInv, Start
    PROVE  Index!Keep
<1>1. /\ documents' = documents /\ terms' = terms /\ lost' = lost
      /\ termOffsets' = termOffsets /\ intact' = intact
      /\ dict = NoOffsets /\ dict' = termOffsets.at /\ reply' = NoReply
  BY DEF Start, disk, SeenInv
<1>2. /\ IndexOf(dict) = Index!Empty
      /\ IndexOf(dict)' = IndexOf(termOffsets.at)
      /\ IndexOf(termOffsets.at)' = IndexOf(termOffsets.at)
  BY <1>1, SameIndex, NoOffsetsIndex
<1>3. Index!Start
  BY <1>1, <1>2 DEF Index!Start
<1>4. QED
  BY <1>1, <1>3, NothingAnswered DEF Index!Keep, Index!Change

\* Stop saves the index, without some long words.
LEMMA StopStep ==
    ASSUME TypeOK, Stop
    PROVE  Index!Keep
<1>1. /\ documents' = documents /\ terms' = terms /\ lost' = lost
      /\ intact' = intact /\ dict' = NoOffsets /\ reply' = NoReply
  BY DEF Stop, GoDown, count
<1>2. IndexOf(dict)' = Index!Empty
  BY <1>1, SameIndex
<1>3. CASE termOffsets' = termOffsets
  <2>1. IndexOf(termOffsets.at)' = IndexOf(termOffsets.at)
    BY <1>1, <1>3, SameIndex
  <2>2. Index!Crash
    BY <1>1, <1>2, <2>1 DEF Index!Crash
  <2>3. QED
    BY <1>1, <2>2, NothingAnswered DEF Index!Keep, Index!Change
<1>4. ASSUME NEW overrun \in SUBSET MayOverrun,
             termOffsets' = Saved(Terms \ overrun)
      PROVE  Index!Keep
  <2>1. overrun \in SUBSET LongTerms
    BY DEF MayOverrun
  <2>2. Index!Part(IndexOf(dict), Terms \ overrun)
          = IndexOf(Saved(Terms \ overrun).at)
    BY SavedIndex
  <2>3. IndexOf(termOffsets.at)' = IndexOf(Saved(Terms \ overrun).at)
    BY <1>1, <1>4 DEF IndexOf, DocumentsOf, EntriesAt
  <2>4. Index!Stop
    BY <1>1, <1>2, <2>1, <2>2, <2>3 DEF Index!Stop
  <2>5. QED
    BY <1>1, <2>4, NothingAnswered DEF Index!Keep, Index!Change
<1>5. QED
  BY <1>3, <1>4 DEF Stop

\* A save that is cut saves a part of the index.
LEMMA CrashInSaveStep ==
    ASSUME TypeOK, CrashInSave
    PROVE  Index!Keep
<1>1. /\ documents' = documents /\ terms' = terms /\ lost' = lost
      /\ intact' = FALSE /\ dict' = NoOffsets /\ reply' = NoReply
  BY DEF CrashInSave, GoDown
<1>2. IndexOf(dict)' = Index!Empty
  BY <1>1, SameIndex
<1>3. \E ts \in SUBSET Terms :
        IndexOf(termOffsets.at)' = Index!Part(IndexOf(dict), ts)
  <2>1. CASE termOffsets'.at = NoOffsets
    <3>1. IndexOf(termOffsets.at)' = Index!Part(IndexOf(dict), {})
      BY <2>1, SameIndex, NoOffsetsIndex
    <3>2. QED
      BY <3>1
  <2>2. ASSUME NEW ts \in SUBSET Terms, termOffsets' = Saved(ts)
        PROVE  IndexOf(termOffsets.at)' = Index!Part(IndexOf(dict), ts)
    <3>1. IndexOf(termOffsets.at)' = IndexOf(Saved(ts).at)
      BY <1>1, <2>2 DEF IndexOf, DocumentsOf, EntriesAt
    <3>2. QED
      BY <3>1, SavedIndex
  <2>3. \/ termOffsets'.at = NoOffsets
        \/ \E ts \in SUBSET Terms : termOffsets' = Saved(ts)
    <3>1. \A n : [NothingSaved EXCEPT !.termsSize = n].at = NoOffsets
      BY DEF NothingSaved
    <3>2. \A n : {t \in Terms : TermRank[t] < n} \in SUBSET Terms
      OBVIOUS
    <3>3. \/ termOffsets' = NothingSaved
          \/ termOffsets' = [NothingSaved EXCEPT !.termsSize = termsSize]
          \/ \E n \in {TermRank[t] : t \in Terms} :
                 termOffsets' = Saved({t \in Terms : TermRank[t] < n})
      BY DEF CrashInSave
    <3>4. CASE termOffsets' = NothingSaved
      BY <3>4, NothingResolves
    <3>5. CASE termOffsets' = [NothingSaved EXCEPT !.termsSize = termsSize]
      BY <3>1, <3>5
    <3>6. ASSUME NEW n, termOffsets' = Saved({t \in Terms : TermRank[t] < n})
          PROVE  \E ts \in SUBSET Terms : termOffsets' = Saved(ts)
      BY <3>2, <3>6
    <3>7. QED
      BY <3>3, <3>4, <3>5, <3>6
  <2>4. QED
    BY <2>1, <2>2, <2>3
<1>4. Index!CrashInSave
  BY <1>1, <1>2, <1>3 DEF Index!CrashInSave
<1>5. QED
  BY <1>1, <1>4, NothingAnswered DEF Index!Keep, Index!Change

\* While a batch is written to an empty storage, here and on disk the index is
\* empty.
LEMMA NothingIndexed ==
    ASSUME dict = NoOffsets, termOffsets.at = NoOffsets,
           dict' = NoOffsets, termOffsets' = termOffsets
    PROVE  /\ IndexOf(dict) = Index!Empty /\ IndexOf(dict)' = Index!Empty
           /\ IndexOf(termOffsets.at) = Index!Empty
           /\ IndexOf(termOffsets.at)' = Index!Empty
BY NoOffsetsIndex, SameIndex

\* Documents are only lost while nothing is indexed.
LEMMA LoseDocumentsStep ==
    ASSUME dict = NoOffsets, termOffsets.at = NoOffsets,
           dict' = NoOffsets, termOffsets' = termOffsets,
           documents'.recs \subseteq documents.recs,
           intact' = intact, reply' = NoReply
    PROVE  Index!Keep
<1>1. {d.doc : d \in documents'.recs} \subseteq {d.doc : d \in documents.recs}
  OBVIOUS
<1>2. ("documents" \notin lost') \in BOOLEAN
  OBVIOUS
<1>3. Index!LoseDocuments
  BY <1>1, <1>2, NothingIndexed DEF Index!LoseDocuments
<1>4. QED
  BY <1>3, NothingAnswered DEF Index!Keep, Index!Change

LEMMA CrashStep ==
    ASSUME CleanInv, clean, Crash
    PROVE  Index!Keep
<1>1. /\ dict' = NoOffsets /\ reply' = NoReply
      /\ termOffsets' = termOffsets /\ lost' = lost /\ intact' = intact
  BY DEF Crash, GoDown, count
<1>2. CASE pc = "documents"
  <2>1. documents'.recs \subseteq documents.recs
    BY <1>2, CutPart DEF Crash
  <2>2. dict = NoOffsets /\ termOffsets.at = NoOffsets
    BY <1>2 DEF CleanInv, CleanDocuments
  <2>3. QED
    BY <1>1, <2>1, <2>2, LoseDocumentsStep
<1>3. CASE pc # "documents"
  <2>1. documents' = documents
    BY <1>3 DEF Crash
  <2>2. IndexOf(termOffsets.at)' = IndexOf(termOffsets.at)
    <3>1. CASE pc = "terms"
      <4>1. termOffsets.at = NoOffsets
        BY <3>1 DEF CleanInv, CleanTerms
      <4>2. QED
        BY <1>1, <4>1, NoOffsetsIndex, SameIndex
    <3>2. CASE pc # "terms"
      <4>1. terms' = terms
        BY <3>2 DEF Crash
      <4>2. QED
        BY <1>1, <2>1, <4>1, SameIndex
    <3>3. QED
      BY <3>1, <3>2
  <2>3. Index!Crash
    BY <1>1, <2>1, <2>2, SameIndex DEF Index!Crash
  <2>4. QED
    BY <1>1, <2>3, NothingAnswered DEF Index!Keep, Index!Change
<1>4. QED
  BY <1>2, <1>3

\* A batch that leaves clean true starts with no index.
LEMMA AddDocumentsStep ==
    ASSUME CleanInv, clean, clean', NEW b, AddDocuments(b)
    PROVE  Index!Keep
<1>1. /\ pc = "idle" /\ documentsSize = 0 /\ termsSize = 0
      /\ documents' = EmptyFile /\ lost' = lost \ {"documents"}
      /\ dict' = dict /\ termOffsets' = termOffsets /\ intact' = intact
      /\ reply' = NoReply
  BY DEF AddDocuments, heap
<1>2. dict = NoOffsets /\ termOffsets.at = NoOffsets
  BY <1>1 DEF CleanInv, NoSizeNoIndex
<1>3. {d.doc : d \in documents'.recs} = {} /\ "documents" \notin lost'
  BY <1>1 DEF EmptyFile
<1>4. Index!AddDocuments
  BY <1>1, <1>2, <1>3, NothingIndexed DEF Index!AddDocuments
<1>5. QED
  BY <1>1, <1>4, NothingAnswered DEF Index!Keep, Index!Change

LEMMA WriteDocumentStep ==
    ASSUME TypeOK, CleanInv, clean, WriteDocument
    PROVE  Index!Keep
<1> DEFINE d == Head(pending)
<1>1. /\ pc = "documents" /\ pending # <<>>
      /\ documents'.recs = documents.recs
           \cup {[pos |-> documents.len, doc |-> d]}
      /\ lost' = lost /\ dict' = dict /\ termOffsets' = termOffsets
      /\ intact' = intact /\ reply' = NoReply
  BY DEF WriteDocument, count
<1>2. dict = NoOffsets /\ termOffsets.at = NoOffsets
  BY <1>1 DEF CleanInv, CleanDocuments
<1>3. d \in Docs
  BY <1>1 DEF TypeOK
<1>4. {r.doc : r \in documents'.recs} = {r.doc : r \in documents.recs} \cup {d}
  <2> DEFINE new == [pos |-> documents.len, doc |-> d]
  <2>1. new.doc = d
    OBVIOUS
  <2>2. documents'.recs = documents.recs \cup {new}
    BY <1>1
  <2> HIDE DEF d, new
  <2>3. QED
    BY <2>1, <2>2
<1> HIDE DEF d
<1>5. Index!StoreDocument
  BY <1>1, <1>2, <1>3, <1>4, NothingIndexed DEF Index!StoreDocument
<1>6. QED
  BY <1>1, <1>5, NothingAnswered DEF Index!Keep, Index!Change

LEMMA WriteDocumentFailsStep ==
    ASSUME CleanInv, clean, WriteDocumentFails
    PROVE  Index!Keep
<1>1. /\ pc = "documents" /\ documents'.recs \subseteq documents.recs
      /\ dict' = dict /\ termOffsets' = termOffsets /\ intact' = intact
      /\ reply' = NoReply
  BY CutPart DEF WriteDocumentFails, count
<1>2. dict = NoOffsets /\ termOffsets.at = NoOffsets
  BY <1>1 DEF CleanInv, CleanDocuments
<1>3. QED
  BY <1>1, <1>2, LoseDocumentsStep

\* The close of documents.irsdb loses documents, the rest is not seen.
LEMMA AssignTermsStep ==
    ASSUME CleanInv, clean, AssignTerms
    PROVE  Index!Keep
<1>1. /\ pc = "documents" /\ documents'.recs \subseteq documents.recs
      /\ dict' = dict /\ termOffsets' = termOffsets /\ intact' = intact
      /\ reply' = NoReply
  BY CutPart DEF AssignTerms, heap, count
<1>2. dict = NoOffsets /\ termOffsets.at = NoOffsets
  BY <1>1 DEF CleanInv, CleanDocuments
<1>3. QED
  BY <1>1, <1>2, LoseDocumentsStep

\* The records written so far are before the end of their file.
LEMMA OffsetsBeforeEnd ==
    ASSUME TypeOK, WrittenOnce, CleanInv, clean, pc = "terms",
           NEW t \in Terms, dict[t] # <<>>
    PROVE  Head(dict[t]) # terms.len
<1>1. /\ TermWasAt(Head(dict[t]), t) /\ "terms" \notin lost
  BY DEF CleanInv, CleanTerms, IndexResolves
<1>2. PICK r \in terms.recs : r.pos = Head(dict[t])
  BY <1>1 DEF TermWasAt
<1>3. r.pos < terms.len /\ r.pos \in Nat /\ terms.len \in Nat
  BY DEF WrittenOnce, TypeOK, TermsFile, TermRecord
<1>4. QED
  BY <1>2, <1>3

\* What is seen of given files: the entries at an offset, the documents at some.
EntriesIn(recs, off) == UNION {r.entries : r \in {x \in recs : x.pos = off}}
DocumentsIn(recs, offs) == {d.doc : d \in {x \in recs : x.pos \in offs}}
SeenIn(docs, recs, offs, t) == DocumentsIn(docs, EntriesIn(recs, Head(offs[t])))

LEMMA IndexValues ==
    /\ DOMAIN IndexOf(dict) = {u \in Terms : dict[u] # <<>>}
    /\ DOMAIN IndexOf(dict)' = {u \in Terms : dict'[u] # <<>>}
    /\ \A u \in Terms : dict[u] # <<>> =>
         IndexOf(dict)[u] = SeenIn(documents.recs, terms.recs, dict, u)
    /\ \A u \in Terms : dict'[u] # <<>> =>
         IndexOf(dict)'[u] = SeenIn(documents'.recs, terms'.recs, dict', u)
<1>1. /\ DOMAIN IndexOf(dict) = {u \in Terms : dict[u] # <<>>}
      /\ DOMAIN IndexOf(dict)' = {u \in Terms : dict'[u] # <<>>}
  BY DEF IndexOf
<1>2. \A u \in Terms : dict[u] # <<>> =>
        IndexOf(dict)[u] = SeenIn(documents.recs, terms.recs, dict, u)
  BY DEF IndexOf, SeenIn, EntriesIn, DocumentsIn, EntriesAt, DocumentsOf
<1>3. \A u \in Terms : dict'[u] # <<>> =>
        IndexOf(dict)'[u] = SeenIn(documents'.recs, terms'.recs, dict', u)
  BY DEF IndexOf, SeenIn, EntriesIn, DocumentsIn, EntriesAt, DocumentsOf
<1>4. QED
  BY <1>1, <1>2, <1>3

\* A record is added behind all others, and is the first its term has.
LEMMA WriteTermStep ==
    ASSUME TypeOK, WrittenOnce, CleanInv, SeenInv, clean,
           NEW t \in Terms, WriteTerm(t)
    PROVE  Index!Keep
<1> DEFINE new == [pos |-> terms.len, term |-> t, count |-> index[t].count,
                   entries |-> index[t].entries]
<1>1. /\ pc = "terms" /\ t \in todo
      /\ dict' = [dict EXCEPT ![t] = Append(@, termsSize)]
      /\ terms'.recs = terms.recs \cup {new}
      /\ documents' = documents /\ lost' = lost /\ intact' = intact
      /\ termOffsets' = termOffsets /\ reply' = NoReply
  BY DEF WriteTerm, count
<1>2. /\ dict[t] = <<>> /\ termsSize = terms.len
      /\ termOffsets.at = NoOffsets
      /\ \A e \in index[t].entries : DocumentWasAt(e, t)
  BY <1>1 DEF CleanInv, CleanTerms
<1>3. new.pos = terms.len /\ new.entries = index[t].entries
  OBVIOUS
<1> HIDE DEF new
<1>4. /\ \A u \in Terms : dict[u] \in Seq(Nat) 
      /\ termsSize \in Nat
  BY DEF TypeOK
<1>5. /\ dict'[t] # <<>> /\ Head(dict'[t]) = terms.len
      /\ \A u \in Terms \ {t} : dict'[u] = dict[u]
  <2>1. DOMAIN dict = Terms
    BY DEF TypeOK
  <2>2. dict'[t] = <<termsSize>>
    BY <1>1, <1>2, <1>4, <2>1
  <2>3. QED
    BY <1>1, <1>2, <2>1, <2>2
<1>6. /\ EntriesIn(terms'.recs, terms.len) = index[t].entries
      /\ \A off : off # terms.len =>
           EntriesIn(terms'.recs, off) = EntriesIn(terms.recs, off)
  <2>1. \A r \in terms.recs : r.pos # terms.len
    <3>1. \A r \in terms.recs : r.pos \in Nat /\ r.pos < terms.len
      BY DEF TypeOK, TermsFile, TermRecord, WrittenOnce
    <3>2. QED
      BY <3>1
  <2>2. {r \in terms'.recs : r.pos = terms.len} = {new}
    BY <1>1, <1>3, <2>1
  <2>3. \A off : off # terms.len =>
          {r \in terms'.recs : r.pos = off} = {r \in terms.recs : r.pos = off}
    BY <1>1, <1>3
  <2>4. EntriesIn(terms'.recs, terms.len) = index[t].entries
    BY <1>3, <2>2 DEF EntriesIn
  <2>5. \A off : off # terms.len =>
          EntriesIn(terms'.recs, off) = EntriesIn(terms.recs, off)
    BY <2>3 DEF EntriesIn
  <2>6. QED
    BY <2>4, <2>5
<1>7. documents'.recs = documents.recs
  BY <1>1
<1>8. /\ t \notin DOMAIN IndexOf(dict)
      /\ DOMAIN IndexOf(dict)' = DOMAIN IndexOf(dict) \cup {t}
  BY <1>2, <1>5, IndexValues
<1>9. \A u \in DOMAIN IndexOf(dict) : IndexOf(dict)'[u] = IndexOf(dict)[u]
  <2>1. ASSUME NEW u \in DOMAIN IndexOf(dict)
        PROVE  IndexOf(dict)'[u] = IndexOf(dict)[u]
    <3>1. u \in Terms \ {t} /\ dict[u] # <<>>
      BY <1>8, IndexValues
    <3>2. dict'[u] = dict[u] /\ Head(dict[u]) # terms.len
      BY <1>1, <1>5, <3>1, OffsetsBeforeEnd
    <3>3. SeenIn(documents'.recs, terms'.recs, dict', u)
            = SeenIn(documents.recs, terms.recs, dict, u)
      BY <1>6, <1>7, <3>2 DEF SeenIn
    <3>4. QED
      BY <3>1, <3>2, <3>3, IndexValues
  <2>2. QED
    BY <2>1
<1>10. Index!Part(IndexOf(dict)', DOMAIN IndexOf(dict)) = IndexOf(dict)
  BY <1>8, <1>9 DEF Index!Part, IndexOf
<1>11. IndexOf(dict)'[t] = DocumentsOf(index[t].entries)
  <2>1. IndexOf(dict)'[t] = SeenIn(documents'.recs, terms'.recs, dict', t)
    BY <1>5, IndexValues
  <2>2. DocumentsOf(index[t].entries)
          = DocumentsIn(documents.recs, index[t].entries)
    BY DEF DocumentsOf, DocumentsIn
  <2>3. QED
    BY <1>5, <1>6, <1>7, <2>1, <2>2 DEF SeenIn
<1>12. DocumentsOf(index[t].entries)
         \subseteq {d \in {r.doc : r \in documents.recs} : t \in Tokens[d]}
  <2>1. ASSUME NEW r \in documents.recs, r.pos \in index[t].entries
        PROVE  t \in Tokens[r.doc]
    <3>1. ~(r.pos >= documents.len)
      BY DEF WrittenOnce, TypeOK, DocumentsFile, DocumentRecord
    <3>2. PICK d \in documents.recs : d.pos = r.pos /\ t \in Tokens[d.doc]
      BY <1>2, <2>1, <3>1 DEF DocumentWasAt, DocumentAt
    <3>3. d = r
      BY <3>2 DEF SeenInv
    <3>4. QED
      BY <3>2, <3>3
  <2>2. QED
    BY <2>1 DEF DocumentsOf
<1>13. "documents" \notin lost
         /\ (\E d \in {r.doc : r \in documents.recs} : t \notin Substrings[d])
           => DocumentsOf(index[t].entries) # {}
  BY <1>1 DEF SeenInv
<1>14. /\ IndexOf(termOffsets.at) = Index!Empty
       /\ IndexOf(termOffsets.at)' = Index!Empty
  BY <1>1, <1>2, NoOffsetsIndex, SameIndex
<1>15. Index!IndexTerm(t)
  BY <1>1, <1>8, <1>10, <1>11, <1>12, <1>13, <1>14 DEF Index!IndexTerm
<1>16. QED
  BY <1>1, <1>15, NothingAnswered DEF Index!Keep, Index!Change

\* The close of terms.irsdb leaves a record as it is or loses it.
LEMMA FinishAddStep ==
    ASSUME CleanInv, clean, FinishAdd
    PROVE  Index!Keep
<1>1. PICK n \in CutPoints(terms) : terms' = Cut(terms, n)
  BY DEF FinishAdd
<1>2. /\ pc = "terms" /\ documents' = documents /\ intact' = intact
      /\ dict' = dict /\ termOffsets' = termOffsets /\ reply' = NoReply
      /\ "documents" \notin lost' <=> "documents" \notin lost
  BY DEF FinishAdd, heap, count
<1>3. termOffsets.at = NoOffsets
  BY <1>2 DEF CleanInv, CleanTerms
<1>4. /\ IndexOf(termOffsets.at) = Index!Empty
      /\ IndexOf(termOffsets.at)' = Index!Empty
  BY <1>2, <1>3, NoOffsetsIndex, SameIndex
<1>5. \A off : EntriesIn(terms'.recs, off) \in {EntriesIn(terms.recs, off), {}}
  <2>1. terms'.recs = {r \in terms.recs : r.pos < n}
    BY <1>1 DEF Cut
  <2>2. ASSUME NEW off
        PROVE  EntriesIn(terms'.recs, off) \in {EntriesIn(terms.recs, off), {}}
    <3>1. CASE off < n
      <4>1. {r \in terms'.recs : r.pos = off} = {r \in terms.recs : r.pos = off}
        BY <2>1, <3>1
      <4>2. QED
        BY <4>1 DEF EntriesIn
    <3>2. CASE ~(off < n)
      <4>1. {r \in terms'.recs : r.pos = off} = {}
        BY <2>1, <3>2
      <4>2. QED
        BY <4>1 DEF EntriesIn
    <3>3. QED
      BY <3>1, <3>2
  <2>3. QED
    BY <2>2
<1>6. DOMAIN IndexOf(dict)' = DOMAIN IndexOf(dict)
  BY <1>2, IndexValues
<1>7. ASSUME NEW t \in DOMAIN IndexOf(dict)
      PROVE  IndexOf(dict)'[t] \in {IndexOf(dict)[t], {}}
  <2>1. DocumentsIn(documents.recs, {}) = {}
    BY DEF DocumentsIn
  <2>2. t \in Terms /\ dict[t] # <<>> /\ dict'[t] # <<>>
    BY <1>2, IndexValues
  <2>3. SeenIn(documents'.recs, terms'.recs, dict', t)
          \in {SeenIn(documents.recs, terms.recs, dict, t), {}}
    BY <1>2, <1>5, <2>1 DEF SeenIn
  <2>4. QED
    BY <2>2, <2>3, IndexValues
<1>8. Index!LoseRecords
  BY <1>2, <1>4, <1>6, <1>7 DEF Index!LoseRecords
<1>9. QED
  BY <1>2, <1>8, NothingAnswered DEF Index!Keep, Index!Change

\* An answer has the documents the index has for the term.
LEMMA AnswerSeen ==
    ASSUME WrittenOnce, NEW t \in Terms, NEW a \in Answers(t)
    PROVE  [tag |-> a.tag, docs |-> DocumentsOf(a.offs)] \in Index!AnswersTo(t)
<1>1. DocumentsOf({}) = {}
  BY DEF DocumentsOf
<1>2. CASE dict[t] = <<>>
  <2>1. a = NotIndexed
    BY <1>2 DEF Answers
  <2>2. a.tag = "none" /\ a.offs = {}
    BY <2>1 DEF NotIndexed
  <2>3. t \notin DOMAIN IndexOf(dict)
    BY <1>2, IndexValues
  <2>4. QED
    BY <1>1, <2>2, <2>3 DEF Index!AnswersTo
<1>3. CASE dict[t] # <<>>
  <2>1. t \in DOMAIN IndexOf(dict)
    BY <1>3, IndexValues
  <2>2. CASE a = Garbled
    <3>1. a.tag = "garbled" /\ a.offs = {}
      BY <2>2 DEF Garbled
    <3>2. QED
      BY <1>1, <2>1, <3>1 DEF Index!AnswersTo
  <2>3. ASSUME NEW r \in Readable(t), a = Found(r.entries)
        PROVE  [tag |-> a.tag, docs |-> DocumentsOf(a.offs)]
                 \in Index!AnswersTo(t)
    <3>1. a.tag = "docs" /\ a.offs = r.entries
      BY <2>3 DEF Found
    <3>2. r \in terms.recs /\ r.pos = Head(dict[t])
      BY DEF Readable, RecordsFor
    <3>3. {x \in terms.recs : x.pos = Head(dict[t])} = {r}
      BY <3>2 DEF WrittenOnce
    <3>4. EntriesIn(terms.recs, Head(dict[t])) = r.entries
      BY <3>3 DEF EntriesIn
    <3>5. DocumentsOf(r.entries) = DocumentsIn(documents.recs, r.entries)
      BY DEF DocumentsOf, DocumentsIn
    <3>6. DocumentsOf(r.entries) = IndexOf(dict)[t]
      BY <1>3, <3>4, <3>5, IndexValues DEF SeenIn
    <3>7. QED
      BY <2>1, <3>1, <3>6 DEF Index!AnswersTo
  <2>4. a = Garbled \/ \E r \in Readable(t) : a = Found(r.entries)
    BY <1>3 DEF Answers
  <2>5. QED
    BY <2>2, <2>3, <2>4
<1>4. QED
  BY <1>2, <1>3

LEMMA GetDocumentsStep ==
    ASSUME WrittenOnce, NEW ts \in Queries, GetDocuments(ts)
    PROVE  Index!Keep
<1>1. /\ documents' = documents /\ terms' = terms /\ lost' = lost
      /\ termOffsets' = termOffsets /\ dict' = dict /\ intact' = intact
  BY DEF GetDocuments, disk, heap, count
<1>2. ts \in Seq(Terms)
  BY InputsAssumption
<1>3. PICK n \in 0 .. Len(ts) :
        \E results \in [1 .. n -> UNION {Answers(ts[i]) : i \in 1 .. n}] :
          /\ \A i \in 1 .. n : results[i] \in Answers(ts[i])
          /\ reply' = [terms |-> ts, results |-> results, ok |-> n = Len(ts)]
  BY DEF GetDocuments
<1>4. PICK results \in [1 .. n -> UNION {Answers(ts[i]) : i \in 1 .. n}] :
        /\ \A i \in 1 .. n : results[i] \in Answers(ts[i])
        /\ reply' = [terms |-> ts, results |-> results, ok |-> n = Len(ts)]
  BY <1>3
<1>5. /\ reply'.terms = ts /\ reply'.results = results
      /\ DOMAIN results = 1 .. n /\ n \in Nat /\ n <= Len(ts)
  BY <1>2, <1>3, <1>4
<1>6. Answered' = [i \in 1 .. n |-> [tag  |-> results[i].tag,
                                     docs |-> DocumentsOf(results[i].offs)]]
  BY <1>1, <1>5 DEF Answered, DocumentsOf
<1>7. DOMAIN Answered' = 1 .. n /\ Len(Answered') = n
  BY <1>5, <1>6
<1>8. \A i \in 1 .. n : Answered'[i] \in Index!AnswersTo(ts[i])
  <2>1. ASSUME NEW i \in 1 .. n
        PROVE  Answered'[i] \in Index!AnswersTo(ts[i])
    <3>1. ts[i] \in Terms
      <4>1. Len(ts) \in Nat /\ i \in 1 .. Len(ts)
        BY <1>2, <1>5
      <4>2. QED
        BY <1>2, <4>1
    <3>2. [tag |-> results[i].tag, docs |-> DocumentsOf(results[i].offs)]
            \in Index!AnswersTo(ts[i])
      BY <1>4, <3>1, AnswerSeen
    <3>3. QED
      BY <1>6, <3>2
  <2>2. QED
    BY <2>1
<1>9. Index!GetDocuments
  BY <1>1, <1>5, <1>7, <1>8, SameIndex DEF Index!GetDocuments
<1>10. QED
  BY <1>9 DEF Index!Keep

\* Of a storage that got a batch when it was not empty, nothing is promised.
LEMMA SpoiledStep == ~clean' => Index!Spoil
BY DEF Index!Spoil

\* With any number of adds, starts, stops and crashes, and whatever writes and
\* closes fail: while every batch goes to an empty storage, the three files and
\* the offsets in them are an inverted index (irs_storage.h).
THEOREM IndexImplemented == Spec => IsIndex
<1>1. Init => Index!Init
  <2>1. ASSUME Init
        PROVE  Index!Init
    <3>1. IndexOf(dict) = Index!Empty /\ IndexOf(termOffsets.at) = Index!Empty
      BY <2>1, NoOffsetsIndex, NothingResolves DEF Init
    <3>2. reply.terms = <<>> /\ Answered = <<>>
      BY <2>1 DEF Init, NoReply, Answered
    <3>3. {d.doc : d \in documents.recs} = {}
      BY <2>1 DEF Init, EmptyFile
    <3>4. clean = TRUE /\ intact = TRUE /\ ("documents" \notin lost) = TRUE
      BY <2>1 DEF Init
    <3>5. QED
      BY <3>1, <3>2, <3>3, <3>4 DEF Index!Init
  <2>2. QED
    BY <2>1
<1>2. ASSUME TypeOK, WrittenOnce, CleanInv, SeenInv, [Next]_vars
      PROVE  [Index!Next]_(Index!vars)
  <2> USE <1>2
  <2>1. CASE UNCHANGED vars
    <3>1. /\ documents' = documents /\ terms' = terms /\ dict' = dict
          /\ termOffsets' = termOffsets /\ reply' = reply /\ lost' = lost
          /\ clean' = clean /\ intact' = intact
      BY <2>1 DEF vars
    <3>2. Answered' = Answered
      BY <3>1 DEF Answered, DocumentsOf
    <3>3. QED
      BY <3>1, <3>2, SameIndex DEF Index!vars
  <2>2. CASE Next /\ ~clean'
    BY <2>2, SpoiledStep DEF Index!Next
  <2>3. CASE Next /\ clean'
    <3>1. clean
      <4>1. clean' => clean
        BY <2>3 DEF Next, StartCreatesDirectory, Start, Stop, CrashInSave,
             Crash, AddDocuments, AddDocumentsNowhere, WriteDocument,
             WriteDocumentFails, AssignTerms, WriteTerm, FinishAdd,
             GetDocuments, count
      <4>2. QED
        BY <2>3, <4>1
    <3>2. ASSUME StartCreatesDirectory
          PROVE  Index!Keep
      BY <3>2, IdleStep DEF StartCreatesDirectory, heap
    <3>3. ASSUME Start
          PROVE  Index!Keep
      BY <3>3, StartStep
    <3>4. ASSUME Stop
          PROVE  Index!Keep
      BY <3>4, StopStep
    <3>5. ASSUME CrashInSave
          PROVE  Index!Keep
      BY <3>5, CrashInSaveStep
    <3>6. ASSUME Crash
          PROVE  Index!Keep
      BY <3>1, <3>6, CrashStep
    <3>7. ASSUME NEW b \in Batches, AddDocuments(b)
          PROVE  Index!Keep
      BY <2>3, <3>1, <3>7, AddDocumentsStep
    <3>8. ASSUME NEW b \in Batches, AddDocumentsNowhere(b)
          PROVE  Index!Keep
      BY <3>8, IdleStep DEF AddDocumentsNowhere, disk, heap, count
    <3>9. ASSUME WriteDocument
          PROVE  Index!Keep
      BY <3>1, <3>9, WriteDocumentStep
    <3>10. ASSUME WriteDocumentFails
           PROVE  Index!Keep
      BY <3>1, <3>10, WriteDocumentFailsStep
    <3>11. ASSUME AssignTerms
           PROVE  Index!Keep
      BY <3>1, <3>11, AssignTermsStep
    <3>12. ASSUME NEW t \in Terms, WriteTerm(t)
           PROVE  Index!Keep
      BY <3>1, <3>12, WriteTermStep
    <3>13. ASSUME FinishAdd
           PROVE  Index!Keep
      BY <3>1, <3>13, FinishAddStep
    <3>14. ASSUME NEW ts \in Queries, GetDocuments(ts)
           PROVE  Index!Keep
      BY <3>14, GetDocumentsStep
    <3>15. Index!Keep
      BY <2>3, <3>2, <3>3, <3>4, <3>5, <3>6, <3>7, <3>8, <3>9, <3>10, <3>11,
         <3>12, <3>13, <3>14 DEF Next
    <3>16. QED
      BY <2>3, <3>1, <3>15 DEF Index!Next
  <2>4. QED
    BY <2>1, <2>2, <2>3
<1>3. DriftInv => WrittenOnce
  BY DEF DriftInv
<1>4. QED
  BY <1>1, <1>2, <1>3, TypeCorrect, DriftCorrect, CleanCorrect, SeenCorrect, PTL
  DEF Spec, IsIndex, Index!Spec

-----------------------------------------------------------------------------
(* Nothing is left out of the index *)

\* An index, if there is one, has the words of all documents that a load leaves
\* as they are.
Complete(offs) ==
    (\E t \in Terms : offs[t] # <<>>) =>
        \A d \in documents.recs :
            \A t \in Tokens[d.doc] \ LongTerms : offs[t] # <<>>

\* What is written is complete, and what is being written will be.
CompleteInv ==
    clean /\ intact =>
        /\ Complete(termOffsets.at)
        /\ pc = "idle" => Complete(dict)
        /\ pc = "terms" =>
             \A d \in documents.recs :
                 \A t \in Tokens[d.doc] \ LongTerms : t \in todo \/ dict[t] # <<>>

LEMMA NothingComplete ==
    /\ Complete(NoOffsets)
    /\ dict' = NoOffsets => Complete(dict)'
    /\ termOffsets'.at = NoOffsets => Complete(termOffsets.at)'
BY DEF Complete, NoOffsets

\* With fewer documents, or the same, an index stays complete.
LEMMA StaysComplete ==
    ASSUME documents'.recs \subseteq documents.recs
    PROVE  /\ Complete(dict) /\ dict' = dict => Complete(dict)'
           /\ Complete(termOffsets.at) =>
                /\ termOffsets' = termOffsets => Complete(termOffsets.at)'
                /\ dict' = termOffsets.at => Complete(dict)'
BY DEF Complete

\* A save leaves out nothing but words a load may have spoiled.
LEMMA SavedComplete ==
    ASSUME TypeOK, Complete(dict), NEW ts \in SUBSET Terms,
           Terms \ LongTerms \subseteq ts,
           documents' = documents, termOffsets' = Saved(ts)
    PROVE  Complete(termOffsets.at)'
<1> DEFINE offs == Saved(ts).at
<1>1. offs = [t \in Terms |-> IF t \in ts THEN FirstOnly(dict[t]) ELSE <<>>]
  BY DEF Saved
<1>2. \A t \in Terms : dict[t] \in Seq(Nat)
  BY DEF TypeOK
<1>3. \A t \in Terms : offs[t] # <<>> <=> t \in ts /\ dict[t] # <<>>
  BY <1>1, <1>2 DEF FirstOnly
<1>4. \A d \in documents.recs : Tokens[d.doc] \subseteq Terms
  BY DocsAssumption DEF TypeOK, DocumentsFile, DocumentRecord
<1>5. termOffsets'.at = offs
  OBVIOUS
<1> HIDE DEF offs
<1>6. QED
  BY <1>3, <1>4, <1>5 DEF Complete

LEMMA CompleteCorrect == Spec => []CompleteInv
<1>1. Init => CompleteInv
  BY NothingComplete, NothingResolves DEF Init, CompleteInv
<1>2. ASSUME TypeOK, CleanInv, SeenInv, CompleteInv, [Next]_vars
      PROVE  CompleteInv'
  <2> USE <1>2
  <2> SUFFICES ASSUME clean', intact'
               PROVE  CompleteInv'
    BY DEF CompleteInv
  <2>0. /\ clean /\ intact
        /\ Complete(termOffsets.at)
        /\ pc = "idle" => Complete(dict)
        /\ pc = "terms" =>
             \A d \in documents.recs :
                 \A t \in Tokens[d.doc] \ LongTerms : t \in todo \/ dict[t] # <<>>
    <3>1. clean /\ intact
      BY DEF Next, vars, StartCreatesDirectory, Start, Stop, CrashInSave,
           Crash, AddDocuments, AddDocumentsNowhere, WriteDocument,
           WriteDocumentFails, AssignTerms, WriteTerm, FinishAdd,
           GetDocuments, count
    <3>2. QED
      BY <3>1 DEF CompleteInv
  <2>1. CASE StartCreatesDirectory
    BY <2>0, <2>1, StaysComplete DEF StartCreatesDirectory, CompleteInv
  <2>2. CASE Start
    BY <2>0, <2>2, StaysComplete DEF Start, disk, CompleteInv
  <2>3. CASE Stop
    <3>1. pc = "idle" /\ pc' = "down" /\ documents' = documents
      BY <2>3 DEF Stop, GoDown
    <3>2. CASE termOffsets' = termOffsets
      BY <2>0, <3>1, <3>2, StaysComplete DEF CompleteInv
    <3>3. ASSUME NEW overrun \in SUBSET MayOverrun,
                 termOffsets' = Saved(Terms \ overrun)
          PROVE  CompleteInv'
      <4>1. Terms \ LongTerms \subseteq Terms \ overrun
        BY DEF MayOverrun
      <4>2. Complete(termOffsets.at)'
        BY <2>0, <3>1, <3>3, <4>1, SavedComplete
      <4>3. QED
        BY <3>1, <4>2 DEF CompleteInv
    <3>4. QED
      BY <2>3, <3>2, <3>3 DEF Stop
  <2>4. CASE CrashInSave
    BY <2>4 DEF CrashInSave
  <2>5. CASE Crash
    <3>1. /\ documents'.recs \subseteq documents.recs /\ pc' = "down"
          /\ termOffsets' = termOffsets
      BY <2>5, CutPart DEF Crash, GoDown
    <3>2. QED
      BY <2>0, <3>1, StaysComplete DEF CompleteInv
  <2>6. ASSUME NEW b \in Batches, AddDocuments(b)
        PROVE  CompleteInv'
    BY <2>0, <2>6, StaysComplete DEF AddDocuments, EmptyFile, CompleteInv
  <2>7. ASSUME NEW b \in Batches, AddDocumentsNowhere(b)
        PROVE  CompleteInv'
    BY <2>0, <2>7, StaysComplete DEF AddDocumentsNowhere, disk, heap, CompleteInv
  <2>8. CASE WriteDocument
    <3>1. pc = "documents" /\ pc' = "documents" /\ termOffsets' = termOffsets
      BY <2>8 DEF WriteDocument
    <3>2. termOffsets.at = NoOffsets
      BY <2>0, <3>1 DEF CleanInv, CleanDocuments
    <3>3. QED
      BY <3>1, <3>2, NothingComplete DEF CompleteInv
  <2>9. CASE WriteDocumentFails
    <3>1. /\ pc = "documents" /\ pc' = "idle" /\ termOffsets' = termOffsets
          /\ dict' = dict
      BY <2>9 DEF WriteDocumentFails
    <3>2. termOffsets.at = NoOffsets /\ dict = NoOffsets
      BY <2>0, <3>1 DEF CleanInv, CleanDocuments
    <3>3. QED
      BY <3>1, <3>2, NothingComplete DEF CompleteInv
  <2>10. CASE AssignTerms
    <3>1. /\ pc = "documents" /\ pc' = "terms" /\ termOffsets' = termOffsets
          /\ documents'.recs \subseteq documents.recs
          /\ todo' = WordsOf(offsetMap)
      BY <2>10, CutPart DEF AssignTerms
    <3>2. ASSUME NEW d \in documents'.recs
          PROVE  Tokens[d.doc] \subseteq todo'
      <4>1. [doc |-> d.doc, off |-> d.pos] \in offsetMap
        BY <2>0, <3>1 DEF SeenInv
      <4>2. QED
        BY <3>1, <4>1 DEF WordsOf
    <3>3. QED
      BY <2>0, <3>1, <3>2, StaysComplete DEF CompleteInv
  <2>11. ASSUME NEW t \in Terms, WriteTerm(t)
         PROVE  CompleteInv'
    <3>1. /\ pc = "terms" /\ pc' = "terms" /\ documents' = documents
          /\ termOffsets' = termOffsets /\ todo' = todo \ {t}
          /\ dict' = [dict EXCEPT ![t] = Append(@, termsSize)]
      BY <2>11 DEF WriteTerm
    <3>2. \A u : u \in todo \/ dict[u] # <<>> => u \in todo' \/ dict'[u] # <<>>
      <4>1. /\ DOMAIN dict = Terms /\ dict[t] \in Seq(Nat) /\ termsSize \in Nat
        BY DEF TypeOK
      <4>2. dict'[t] # <<>>
        BY <3>1, <4>1
      <4>3. \A u : u # t => dict'[u] = dict[u]
        BY <3>1
      <4>4. QED
        BY <3>1, <4>2, <4>3
    <3>3. QED
      BY <2>0, <3>1, <3>2, StaysComplete DEF CompleteInv
  <2>12. CASE FinishAdd
    <3>1. /\ pc = "terms" /\ pc' = "idle" /\ documents' = documents
          /\ termOffsets' = termOffsets /\ todo = {} /\ dict' = dict
      BY <2>12 DEF FinishAdd, heap
    <3>2. Complete(dict)
      BY <2>0, <3>1 DEF Complete
    <3>3. QED
      BY <2>0, <3>1, <3>2, StaysComplete DEF CompleteInv
  <2>13. ASSUME NEW ts \in Queries, GetDocuments(ts)
         PROVE  CompleteInv'
    BY <2>0, <2>13, StaysComplete DEF GetDocuments, disk, heap, CompleteInv
  <2>14. CASE UNCHANGED vars
    BY <2>0, <2>14, StaysComplete DEF vars, CompleteInv
  <2>15. QED
    BY <2>1, <2>2, <2>3, <2>4, <2>5, <2>6, <2>7, <2>8, <2>9, <2>10, <2>11,
       <2>12, <2>13, <2>14 DEF Next
<1>3. QED
  BY <1>1, <1>2, TypeCorrect, CleanCorrect, SeenCorrect, PTL DEF Spec

\* While every batch was added to an empty storage and no crash hit a save, an
\* index has every word of every stored document that a load leaves as it is
\* (irs_storage_add_documents, irs_storage_save, irs_storage_load).
THEOREM CompleteIndexCorrect == Spec => []CompleteIndex
<1>1. CompleteInv => CompleteIndex
  BY DEF CompleteInv, Complete, CompleteIndex
<1>2. QED
  BY <1>1, CompleteCorrect, PTL

-----------------------------------------------------------------------------
(* The loops of IrsIndexing, for every list of documents *)

\* The current word of a round is one of the terms, and the current document one
\* of the map's that has it.
LEMMA RoundType ==
    ASSUME Places, InRound
    PROVE  /\ Word \in Terms
           /\ \E m \in Map : m.off = Offset /\ Word \in Tokens[m.doc]
<1>1. list \in Seq(Docs)
  BY ListsAssumption DEF Places
<1>2. at.doc \in DOMAIN list /\ list[at.doc] \in Docs
  BY <1>1 DEF Places, InRound, Done
<1>3. Words \in Seq(Terms) /\ Tokens[list[at.doc]] = Range(Words)
  BY <1>2, TextAssumption DEF Words
<1>4. at.word \in DOMAIN Words
  BY <1>3 DEF Places, InRound
<1>5. Word \in Terms /\ Word \in Range(Words)
  BY <1>3, <1>4 DEF Word, Range
<1>6. [doc |-> list[at.doc], off |-> DocOffset[at.doc]] \in Map
  BY <1>2 DEF Map
<1>7. QED
  BY <1>3, <1>5, <1>6 DEF Offset

\* A batch has finitely many documents.
LEMMA MapFinite ==
    ASSUME list \in Lists
    PROVE  IsFiniteSet(Map)
<1> DEFINE f == [i \in DOMAIN list |->
                    [doc |-> list[i], off |-> DocOffset[i]]]
<1>1. list \in Seq(Docs)
  BY ListsAssumption
<1>2. IsFiniteSet(DOMAIN list)
  BY <1>1, FS_Interval
<1>3. f \in Surjection(DOMAIN list, Map)
  BY DEF Surjection, Map
<1>4. QED
  BY <1>2, <1>3, FS_Surjection

\* A lookup finds what was entered, so a word that is not assigned in a document
\* has no entry with its offset.
LEMMA NotEntered ==
    ASSUME EntriesOfDocuments, Word \in Terms, ~Assigned
    PROVE  Offset \notin OffsetsOf(Word)
<1>1. CASE Word \notin collected
  BY <1>1 DEF EntriesOfDocuments, OffsetsOf
<1>2. CASE Word \in collected
  <2> DEFINE keys == {decimal[p] : p \in OffsetsOf(Word)}
  <2>1. \A s : s \in keys => IsHit(s, keys)
    BY DEF IsHit, Hits
  <2>2. ~IsHit(decimal[Offset], keys)
    BY <1>2 DEF Assigned
  <2>3. decimal[Offset] \notin keys
    BY <2>1, <2>2
  <2>4. QED
    BY <2>3
<1>3. QED
  BY <1>1, <1>2

IndexingInv == Places /\ AnnouncedIsComputed /\ EntriesOfDocuments

\* AnnouncedIsComputed, with what it takes to prove NeverUnderAnnounced.
THEOREM IndexingCorrect == IndexingSpec => []IndexingInv
<1>1. IndexingInit => IndexingInv
  BY DEF IndexingInit, IndexingInv, Places, AnnouncedIsComputed,
         EntriesOfDocuments
<1>2. ASSUME IndexingInv, [IndexingNext]_indexingVars
      PROVE  IndexingInv'
  <2>0. Places /\ AnnouncedIsComputed /\ EntriesOfDocuments
    BY <1>2 DEF IndexingInv
  <2>1. CASE NextDocument
    BY <2>0, <2>1
    DEF NextDocument, IndexingInv, Places, AnnouncedIsComputed,
        EntriesOfDocuments, Map
  <2>2. CASE SkipAssigned
    BY <2>0, <2>2
    DEF SkipAssigned, IndexingInv, Places, AnnouncedIsComputed,
        EntriesOfDocuments, Map
  <2>3. ASSUME NEW frequency, NEW size, InRound, ~Assigned,
               Collect(Word, frequency, size), list' = list
        PROVE  Places' /\ EntriesOfDocuments'
    <3>1. Word \in Terms
          /\ \E m \in Map : m.off = Offset /\ Word \in Tokens[m.doc]
      BY <2>0, <2>3, RoundType
    <3>2. Map' = Map
      BY <2>3 DEF Map
    <3>3. /\ collected' = collected \cup {Word}
          /\ \A t \in Terms : t # Word => entered'[t] = entered[t]
          /\ \A e \in entered'[Word] :
               e \in entered[Word] \/ e = [off |-> Offset, from |-> frequency]
          /\ DOMAIN entered' = Terms /\ DOMAIN announced' = Terms
          /\ at' = [doc |-> at.doc, word |-> at.word + 1]
      BY <2>0, <2>3, <3>1 DEF Collect, Places
    <3>4. \A e \in entered[Word] : e.off # Offset
      <4>1. Offset \notin OffsetsOf(Word)
        BY <2>0, <2>3, <3>1, NotEntered
      <4>2. QED
        BY <4>1 DEF OffsetsOf
    <3>5. Places'
      BY <2>0, <2>3, <3>1, <3>3 DEF Places
    <3>6. ASSUME NEW t \in Terms
          PROVE  /\ \A e \in entered'[t] :
                      \E m \in Map : m.off = e.off /\ t \in Tokens[m.doc]
                 /\ \A e, f \in entered'[t] : e.off = f.off => e = f
                 /\ t \notin collected' => entered'[t] = {}
      <4>1. CASE t # Word
        BY <2>0, <3>3, <4>1 DEF EntriesOfDocuments
      <4>2. CASE t = Word
        BY <2>0, <3>1, <3>3, <3>4, <4>2 DEF EntriesOfDocuments
      <4>3. QED
        BY <4>1, <4>2
    <3>7. EntriesOfDocuments'
      BY <3>2, <3>6 DEF EntriesOfDocuments
    <3>8. QED
      BY <3>5, <3>7
  <2>4. CASE ComputeFrequency
    <3>1. /\ InRound /\ ~Assigned /\ Word \notin cached
          /\ cached' = cached \cup {Word} /\ list' = list
          /\ Collect(Word, DocumentsWithTerm(Map, Word),
                     DocumentsWithTerm(Map, Word))
      BY <2>4 DEF ComputeFrequency, CountSubstrings
    <3>2. Places' /\ EntriesOfDocuments'
      BY <2>3, <3>1
    <3>3. Word \in Terms /\ Map' = Map /\ DOMAIN announced = Terms
      BY <2>0, <3>1, RoundType DEF Map, Places
    <3>4. /\ collected' = collected \cup {Word}
          /\ announced' = [announced EXCEPT ![Word] =
                              DocumentsWithTerm(Map, Word)]
      BY <2>0, <3>1 DEF Collect, AnnouncedIsComputed
    <3>5. AnnouncedIsComputed'
      BY <2>0, <3>1, <3>3, <3>4
      DEF AnnouncedIsComputed, Places, DocumentsWithTerm
    <3>6. QED
      BY <3>2, <3>5 DEF IndexingInv
  <2>5. CASE ReadFrequency
    <3>1. /\ InRound /\ ~Assigned /\ Word \in cached
          /\ cached' = cached /\ list' = list /\ Collect(Word, slot, Unset)
      BY <2>5 DEF ReadFrequency
    <3>2. Places' /\ EntriesOfDocuments'
      BY <2>3, <3>1
    <3>3. collected' = collected /\ announced' = announced /\ Map' = Map
      BY <2>0, <3>1 DEF Collect, AnnouncedIsComputed, Map
    <3>4. QED
      BY <2>0, <3>1, <3>2, <3>3
      DEF IndexingInv, AnnouncedIsComputed, DocumentsWithTerm
  <2>6. CASE UNCHANGED indexingVars
    BY <2>0, <2>6
    DEF indexingVars, IndexingInv, Places, AnnouncedIsComputed,
        EntriesOfDocuments, Map
  <2>7. QED
    BY <1>2, <2>1, <2>2, <2>4, <2>5, <2>6 DEF IndexingNext, Return
<1>3. QED
  BY <1>1, <1>2, PTL DEF IndexingSpec

\* The number announced for a term is always the one computed for it.
THEOREM AnnouncedCorrect == IndexingSpec => []AnnouncedIsComputed
<1>1. IndexingInv => AnnouncedIsComputed
  BY DEF IndexingInv
<1>2. QED
  BY <1>1, IndexingCorrect, PTL

\* NeverUnderAnnounced: the record of a term never has more entries than it
\* announces, for any batch.
THEOREM NeverUnderAnnouncedCorrect == IndexingSpec => []NeverUnderAnnounced
<1>1. ASSUME IndexingInv
      PROVE  NeverUnderAnnounced
  <2>1. Places /\ AnnouncedIsComputed /\ EntriesOfDocuments
    BY <1>1 DEF IndexingInv
  <2>2. ASSUME NEW t \in Terms, t \in collected
        PROVE  Cardinality(entered[t]) <= announced[t]
    <3> DEFINE S == {m \in Map : t \in Substrings[m.doc]}
               f == [e \in entered[t] |->
                        CHOOSE m \in Map : m.off = e.off /\ t \in Tokens[m.doc]]
    <3>1. IsFiniteSet(S) /\ announced[t] = Cardinality(S)
      <4>1. IsFiniteSet(Map) /\ S \in SUBSET Map
        BY <2>1, MapFinite DEF Places
      <4>2. QED
        BY <2>1, <2>2, <4>1, FS_Subset DEF AnnouncedIsComputed, DocumentsWithTerm
    <3>2. \A e \in entered[t] :
            f[e] \in Map /\ f[e].off = e.off /\ t \in Tokens[f[e].doc]
      BY <2>1 DEF EntriesOfDocuments
    <3>3. \A m \in Map : m.doc \in Docs
      <4>1. list \in Seq(Docs)
        BY <2>1, ListsAssumption DEF Places
      <4>2. QED
        BY <4>1 DEF Map
    <3>4. \A e \in entered[t] : f[e] \in S
      BY <3>2, <3>3, DocsAssumption
    <3>5. f \in Injection(entered[t], S)
      <4>1. f \in [entered[t] -> S]
        BY <3>4
      <4>2. ASSUME NEW e \in entered[t], NEW g \in entered[t], f[e] = f[g]
            PROVE  e = g
        <5>1. e.off = g.off
          BY <3>2, <4>2
        <5>2. QED
          BY <2>1, <5>1 DEF EntriesOfDocuments
      <4>3. QED
        BY <4>1, <4>2 DEF Injection, IsInjective
    <3>6. QED
      BY <3>1, <3>5, FS_Injection
  <2>3. QED
    BY <2>1, <2>2 DEF NeverUnderAnnounced, EntriesOfDocuments
<1>2. QED
  BY <1>1, IndexingCorrect, PTL

-----------------------------------------------------------------------------
(* The loops build an index that IrsBatch allows *)

\* Document i has t among the words the loops have been at.
Met(t, i) ==
    \/ i < at.doc /\ t \in Tokens[list[i]]
    \/ i = at.doc /\ \E w \in DOMAIN Text[list[i]] :
                        w < at.word /\ Text[list[i]][w] = t

Rare(t) == DocumentsWithTerm(Map, t) < Len(list)

\* t is collected where the list has it first, and has an entry there if it is
\* rare.
CollectedFirst(t) ==
    \E i \in DOMAIN list :
        /\ t \in Tokens[list[i]]
        /\ \A j \in DOMAIN list : t \in Tokens[list[j]] => i <= j
        /\ Rare(t) => DocOffset[i] \in OffsetsOf(t)

\* A document that was met has an entry, unless some term is common, or the lookup
\* of its offset took it for one of those before; there are no entries unless some
\* term is rare.  What the cache reads as is the number of a term that was met.
\* Entries are of documents the loops were at, and none of them was looked up with
\* success before.
MetIsEntered(t, i) ==
    /\ t \in collected
    /\ \/ DocOffset[i] \in OffsetsOf(t)
       \/ \E u \in collected : ~Rare(u)
       \/ PassedOver(OffsetsOf(t), DocOffset[i])

EnteredInOrder(t) ==
    /\ \A p \in OffsetsOf(t) :
         \E j \in DOMAIN list : j <= at.doc /\ p = DocOffset[j]
    /\ \A p \in OffsetsOf(t) : ~PassedOver(OffsetsOf(t), p)

LoopInv ==
    /\ \A t \in Terms : \A i \in DOMAIN list : Met(t, i) => MetIsEntered(t, i)
    /\ \A t \in Terms : EnteredInOrder(t)
    /\ \A t \in collected : CollectedFirst(t)
    /\ cached # {} =>
         \E u \in collected : slot = DocumentsWithTerm(Map, u)
    /\ \A t \in Terms : entered[t] # {} => \E u \in collected : Rare(u)

\* The documents of a batch are as many as its list is long, as each has an
\* offset of its own.
LEMMA MapSize ==
    ASSUME list \in Lists
    PROVE  Cardinality(Map) = Len(list)
<1> DEFINE f == [i \in 1 .. Len(list) |->
                    [doc |-> list[i], off |-> DocOffset[i]]]
<1>1. /\ list \in Seq(Docs) /\ Len(list) \in Nat
      /\ DOMAIN list = 1 .. Len(list)
  BY ListsAssumption
<1>2. \A i, j \in 1 .. Len(list) : f[i] = f[j] => i = j
  <2>1. ASSUME NEW i \in 1 .. Len(list), NEW j \in 1 .. Len(list), f[i] = f[j]
        PROVE  i = j
    <3>1. DocOffset[i] = DocOffset[j]
      BY <2>1
    <3>2. /\ i < j => DocOffset[i] < DocOffset[j]
          /\ j < i => DocOffset[j] < DocOffset[i]
          /\ DocOffset[i] \in Nat
      BY <1>1, ListsAssumption
    <3>3. QED
      BY <3>1, <3>2
  <2>2. QED
    BY <2>1
<1>3. f \in Bijection(1 .. Len(list), Map)
  <2>1. f \in [1 .. Len(list) -> Map]
    BY <1>1 DEF Map
  <2>2. \A m \in Map : \E i \in 1 .. Len(list) : f[i] = m
    BY <1>1 DEF Map
  <2>3. QED
    BY <1>2, <2>1, <2>2 DEF Bijection, Injection, Surjection, IsInjective
<1>4. /\ IsFiniteSet(1 .. Len(list))
      /\ Cardinality(1 .. Len(list)) = Len(list)
  BY <1>1, FS_Interval
<1>5. ExistsBijection(1 .. Len(list), Map)
  BY <1>3 DEF ExistsBijection
<1>6. QED
  BY <1>4, <1>5, FS_Bijection

\* The current word is one of the current document.
LEMMA CurrentWord ==
    ASSUME Places, InRound
    PROVE  /\ list \in Seq(Docs) /\ at.doc \in DOMAIN list
           /\ Word \in Terms /\ Word \in Tokens[list[at.doc]]
<1>1. list \in Seq(Docs)
  BY ListsAssumption DEF Places
<1>2. at.doc \in DOMAIN list /\ list[at.doc] \in Docs
  BY <1>1 DEF Places, InRound, Done
<1>3. Words \in Seq(Terms) /\ Tokens[list[at.doc]] = Range(Words)
  BY <1>2, TextAssumption DEF Words
<1>4. at.word \in DOMAIN Words
  BY <1>3 DEF Places, InRound
<1>5. QED
  BY <1>1, <1>2, <1>3, <1>4 DEF Word, Range

\* A word is met in a round; the documents do not change.
LEMMA RoundMeets ==
    ASSUME Places, InRound, list' = list,
           at' = [doc |-> at.doc, word |-> at.word + 1],
           NEW t \in Terms, NEW i \in DOMAIN list, Met(t, i)'
    PROVE  Met(t, i) \/ (i = at.doc /\ t = Word)
<1>1. at.doc \in Nat /\ at.word \in Nat
  BY DEF Places
<1>2. list \in Seq(Docs) /\ list[i] \in Docs
  BY ListsAssumption DEF Places
<1>3. Text[list[i]] \in Seq(Terms)
  BY <1>2, TextAssumption
<1>4. CASE i < at.doc /\ t \in Tokens[list[i]]
  BY <1>4 DEF Met
<1>5. ASSUME i = at.doc,
             NEW w \in DOMAIN Text[list[i]], w < at.word + 1,
             Text[list[i]][w] = t
      PROVE  Met(t, i) \/ (i = at.doc /\ t = Word)
  <2>1. w \in Nat
    BY <1>3
  <2>2. w < at.word \/ w = at.word
    BY <1>1, <1>5, <2>1
  <2>3. QED
    BY <1>5, <2>2 DEF Met, Word, Words
<1>6. QED
  BY <1>4, <1>5 DEF Met

\* All words of a document are met when the loops leave it.
LEMMA DocumentMet ==
    ASSUME Places, NextDocument,
           NEW t \in Terms, NEW i \in DOMAIN list, Met(t, i)'
    PROVE  Met(t, i)
<1>1. /\ at.doc \in Nat /\ at.word \in Nat
      /\ list' = list /\ at' = [doc |-> at.doc + 1, word |-> 1]
      /\ ~Done /\ at.word > Len(Words)
  BY DEF Places, NextDocument
<1>2. list \in Seq(Docs) /\ list[i] \in Docs /\ i \in Nat
  BY ListsAssumption DEF Places
<1>3. Text[list[i]] \in Seq(Terms) /\ Tokens[list[i]] = Range(Text[list[i]])
  BY <1>2, TextAssumption
<1>4. i < at.doc + 1 /\ t \in Tokens[list[i]]
  <2>1. \A w \in DOMAIN Text[list[i]] : w \in Nat /\ ~(w < 1)
    BY <1>3
  <2>2. QED
    BY <1>1, <2>1 DEF Met
<1>5. CASE i < at.doc
  BY <1>4, <1>5 DEF Met
<1>6. CASE i = at.doc
  <2>1. PICK w \in DOMAIN Text[list[i]] : Text[list[i]][w] = t
    BY <1>3, <1>4 DEF Range
  <2>2. w < at.word
    BY <1>1, <1>3, <1>6, <2>1 DEF Words
  <2>3. QED
    BY <1>6, <2>1, <2>2 DEF Met
<1>7. QED
  BY <1>1, <1>2, <1>4, <1>5, <1>6

\* An entry with a later offset does not change what a lookup of p finds among the
\* entries before p.
LEMMA LaterEntry ==
    ASSUME NEW offs \in SUBSET Nat, NEW p \in Nat, NEW q \in Nat, p <= q
    PROVE  PassedOver(offs \cup {q}, p) <=> PassedOver(offs, p)
<1>1. {x \in offs \cup {q} : x < p} = {x \in offs : x < p}
  OBVIOUS
<1>2. QED
  BY <1>1, Zenon DEF PassedOver

\* Where all entries are before p, it is the lookup of p.
LEMMA LookupOfLast ==
    ASSUME NEW offs \in SUBSET Nat, NEW p \in Nat, p \notin offs,
           \A x \in offs : x <= p
    PROVE  PassedOver(offs, p) <=> IsHit(decimal[p], {decimal[x] : x \in offs})
<1>1. {x \in offs : x < p} = offs
  <2>1. \A x \in offs : x \in Nat /\ x # p
    OBVIOUS
  <2>2. \A x \in offs : x < p
    BY <2>1
  <2>3. QED
    BY <2>2
<1>2. QED
  BY <1>1, Zenon DEF PassedOver

\* A lookup among no entries finds nothing.
LEMMA LookupOfNone ==
    ASSUME NEW p
    PROVE  ~IsHit(decimal[p], {decimal[x] : x \in {}})
BY DEF IsHit

\* In a round, no entry is behind the current document, nor is a document that
\* was met.
LEMMA RoundOrder ==
    ASSUME Places, LoopInv, InRound, NEW t \in Terms
    PROVE  /\ Offset \in Nat /\ OffsetsOf(t) \in SUBSET Nat
           /\ \A p \in OffsetsOf(t) : p <= Offset
           /\ \A i \in DOMAIN list :
                Met(t, i) \/ i = at.doc => DocOffset[i] \in Nat
                                           /\ DocOffset[i] <= Offset
<1>1. /\ list \in Lists /\ at.doc \in DOMAIN list /\ list \in Seq(Docs)
  BY CurrentWord DEF Places
<1>2. \A i, j \in DOMAIN list :
        DocOffset[i] \in Nat /\ (i < j => DocOffset[i] < DocOffset[j])
  BY <1>1, ListsAssumption
<1>3. \A i \in DOMAIN list : i \in Nat
  BY <1>1
<1>4. \A i \in DOMAIN list : i <= at.doc => DocOffset[i] <= Offset
  <2>1. ASSUME NEW i \in DOMAIN list, i <= at.doc
        PROVE  DocOffset[i] <= DocOffset[at.doc]
    <3>1. i = at.doc \/ i < at.doc
      BY <1>1, <1>3, <2>1
    <3>2. QED
      BY <1>1, <1>2, <3>1
  <2>2. QED
    BY <2>1 DEF Offset
<1>5. \A p \in OffsetsOf(t) :
        \E j \in DOMAIN list : j <= at.doc /\ p = DocOffset[j]
  BY DEF LoopInv, EnteredInOrder
<1>6. \A i \in DOMAIN list : Met(t, i) \/ i = at.doc => i <= at.doc
  BY <1>1, <1>3 DEF Met
<1>7. Offset \in Nat
  BY <1>1, <1>2 DEF Offset
<1>8. QED
  BY <1>2, <1>4, <1>5, <1>6, <1>7

\* What the end of a round does to the entries, when the reverse frequency is
\* that of a collected term.
LEMMA CollectKeeps ==
    ASSUME Places, EntriesOfDocuments, LoopInv, InRound, ~Assigned, list' = list,
           NEW u \in collected', NEW size,
           Collect(Word, DocumentsWithTerm(Map, u), size)
    PROVE  /\ collected' = collected \cup {Word}
           /\ \A t \in Terms : OffsetsOf(t) \subseteq OffsetsOf(t)'
           /\ \A t \in Terms : t = Word /\ Rare(u) =>
                DocOffset[at.doc] \in OffsetsOf(t)'
           /\ \A t \in Terms : \A i \in DOMAIN list :
                Met(t, i)' => MetIsEntered(t, i)'
           /\ \A t \in Terms : EnteredInOrder(t)'
           /\ \A t \in Terms : entered'[t] # {} =>
                \E v \in collected' : Rare(v)
<1>1. Word \in Terms /\ DOMAIN entered = Terms
  BY RoundType DEF Places
<1>2. /\ collected' = collected \cup {Word}
      /\ at' = [doc |-> at.doc, word |-> at.word + 1]
      /\ \A t \in Terms : t # Word => entered'[t] = entered[t]
      /\ Rare(u) => entered'[Word] =
           entered[Word] \cup {[off |-> Offset, from |-> DocumentsWithTerm(Map, u)]}
      /\ ~Rare(u) => entered' = entered
  BY <1>1 DEF Collect, Places, Rare
<1>3. \A t \in Terms :
        OffsetsOf(t)' = IF t = Word /\ Rare(u) THEN OffsetsOf(t) \cup {Offset}
                                               ELSE OffsetsOf(t)
  <2>1. ASSUME NEW t \in Terms, ~(t = Word /\ Rare(u))
        PROVE  OffsetsOf(t)' = OffsetsOf(t)
    BY <1>2, <2>1 DEF OffsetsOf
  <2>2. ASSUME NEW t \in Terms, t = Word, Rare(u)
        PROVE  OffsetsOf(t)' = OffsetsOf(t) \cup {Offset}
    <3> DEFINE e == [off |-> Offset, from |-> DocumentsWithTerm(Map, u)]
    <3>1. entered'[t] = entered[t] \cup {e} /\ e.off = Offset
      BY <1>2, <2>2
    <3> HIDE DEF e
    <3>2. QED
      BY <3>1 DEF OffsetsOf
  <2>3. QED
    BY <2>1, <2>2
<1>4. \A t : Rare(t)' <=> Rare(t)
  BY DEF Rare, DocumentsWithTerm, Map
<1>5. \A t \in Terms :
        /\ Offset \in Nat /\ OffsetsOf(t) \in SUBSET Nat
        /\ \A p \in OffsetsOf(t) : p \in Nat /\ p <= Offset
        /\ \A i \in DOMAIN list :
             Met(t, i) \/ i = at.doc => DocOffset[i] \in Nat
                                        /\ DocOffset[i] <= Offset
  BY RoundOrder
<1>6. ASSUME NEW t \in Terms, NEW p \in Nat, p <= Offset
      PROVE  PassedOver(OffsetsOf(t)', p) <=> PassedOver(OffsetsOf(t), p)
  <2>1. CASE OffsetsOf(t)' = OffsetsOf(t)
    BY <2>1
  <2>2. CASE OffsetsOf(t)' = OffsetsOf(t) \cup {Offset}
    BY <1>5, <1>6, <2>2, LaterEntry
  <2>3. QED
    BY <1>3, <2>1, <2>2
<1>7. ~PassedOver(OffsetsOf(Word), Offset)
  <2>1. ~IsHit(decimal[Offset], {decimal[x] : x \in OffsetsOf(Word)})
    <3>1. CASE Word \in collected
      BY <3>1 DEF Assigned
    <3>2. CASE Word \notin collected
      <4>1. OffsetsOf(Word) = {}
        BY <1>1, <3>2 DEF EntriesOfDocuments, OffsetsOf
      <4>2. QED
        BY <4>1, LookupOfNone
    <3>3. QED
      BY <3>1, <3>2
  <2>2. Offset \notin OffsetsOf(Word)
    BY <1>1, NotEntered
  <2>3. QED
    BY <1>1, <1>5, <2>1, <2>2, LookupOfLast
<1>8. ASSUME NEW t \in Terms, NEW i \in DOMAIN list, Met(t, i)'
      PROVE  MetIsEntered(t, i)'
  <2>1. CASE Met(t, i)
    <3>1. MetIsEntered(t, i)
      BY <2>1 DEF LoopInv
    <3>2. PassedOver(OffsetsOf(t), DocOffset[i]) =>
              PassedOver(OffsetsOf(t)', DocOffset[i])
      BY <1>5, <1>6, <2>1
    <3>3. OffsetsOf(t) \subseteq OffsetsOf(t)'
      BY <1>3
    <3>4. QED
      BY <1>2, <1>4, <3>1, <3>2, <3>3 DEF MetIsEntered
  <2>2. CASE i = at.doc /\ t = Word
    <3>1. Rare(u) => DocOffset[i] \in OffsetsOf(t)'
      BY <1>3, <2>2 DEF Offset
    <3>2. ~Rare(u) => \E v \in collected' : ~Rare(v)'
      BY <1>4
    <3>3. t \in collected'
      BY <1>2, <2>2
    <3>4. QED
      BY <3>1, <3>2, <3>3 DEF MetIsEntered
  <2>3. QED
    BY <1>2, <1>8, <2>1, <2>2, RoundMeets
<1>9. ASSUME NEW t \in Terms
      PROVE  EnteredInOrder(t)'
  <2>1. EnteredInOrder(t)
    BY DEF LoopInv
  <2>2. \A p \in OffsetsOf(t)' : p \in OffsetsOf(t) \/ (p = Offset /\ t = Word)
    BY <1>3
  <2>3. ASSUME NEW p \in OffsetsOf(t)'
        PROVE  \E j \in DOMAIN list : j <= at.doc /\ p = DocOffset[j]
    <3>1. at.doc \in DOMAIN list /\ at.doc <= at.doc
      <4>1. list \in Seq(Docs) /\ at.doc \in DOMAIN list
        BY CurrentWord
      <4>2. QED
        BY <4>1
    <3>2. QED
      BY <2>1, <2>2, <3>1 DEF EnteredInOrder, Offset
  <2>4. ASSUME NEW p \in OffsetsOf(t)'
        PROVE  ~PassedOver(OffsetsOf(t)', p)
    <3>1. p \in Nat /\ p <= Offset
      BY <1>5, <2>2
    <3>2. ~PassedOver(OffsetsOf(t), p)
      BY <1>7, <2>1, <2>2 DEF EnteredInOrder
    <3>3. QED
      BY <1>6, <3>1, <3>2
  <2>5. QED
    BY <1>2, <2>3, <2>4 DEF EnteredInOrder
<1>10. ASSUME NEW t \in Terms, entered'[t] # {}
      PROVE  \E v \in collected' : Rare(v)
  BY <1>2, <1>10 DEF LoopInv
<1>11. \A t \in Terms : t = Word /\ Rare(u) => DocOffset[at.doc] \in OffsetsOf(t)'
  BY <1>3 DEF Offset
<1>12. QED
  BY <1>2, <1>3, <1>8, <1>9, <1>10, <1>11

\* LoopInv is kept by every step of the loops.
LEMMA LoopStep ==
    ASSUME Places, AnnouncedIsComputed, EntriesOfDocuments, LoopInv,
           [IndexingNext]_indexingVars
    PROVE  LoopInv'
<1>1. CASE NextDocument
  <2>1. /\ UNCHANGED <<list, slot, cached, collected, announced, entered>>
        /\ Map' = Map /\ at'.doc = at.doc + 1 /\ at.doc \in Nat
    BY <1>1 DEF NextDocument, Map, Places
  <2>2. \A t \in Terms : \A i \in DOMAIN list : Met(t, i)' => Met(t, i)
    BY <1>1, DocumentMet
  <2>3. \A t \in Terms : EnteredInOrder(t)'
    <3>1. \A t \in Terms : EnteredInOrder(t)
      BY DEF LoopInv
    <3>2. \A j \in DOMAIN list : j <= at.doc => j <= at.doc + 1
      <4>1. list \in Seq(Docs)
        BY ListsAssumption DEF Places
      <4>2. QED
        BY <2>1, <4>1
    <3>3. QED
      BY <2>1, <3>1, <3>2 DEF EnteredInOrder, OffsetsOf
  <2>4. \A t : (Rare(t)' <=> Rare(t)) /\ OffsetsOf(t)' = OffsetsOf(t)
    BY <2>1 DEF Rare, DocumentsWithTerm, OffsetsOf
  <2>5. \A t \in Terms : \A i \in DOMAIN list : Met(t, i)' => MetIsEntered(t, i)'
    BY <2>1, <2>2, <2>4 DEF LoopInv, MetIsEntered
  <2>6. QED
    BY <2>1, <2>3, <2>4, <2>5
    DEF LoopInv, CollectedFirst, DocumentsWithTerm
<1>2. CASE SkipAssigned
  <2>1. /\ UNCHANGED <<list, slot, cached, collected, announced, entered>>
        /\ InRound /\ Assigned /\ Map' = Map
        /\ at' = [doc |-> at.doc, word |-> at.word + 1]
    BY <1>2 DEF SkipAssigned, Places, Map
  <2>2. \A t \in Terms : \A i \in DOMAIN list :
          Met(t, i)' => Met(t, i) \/ (i = at.doc /\ t = Word)
    BY <2>1, RoundMeets
  <2>3. MetIsEntered(Word, at.doc)
    <3>1. Word \in Terms /\ Word \in collected
      BY <2>1, RoundType DEF Assigned
    <3>2. /\ Offset \in Nat /\ OffsetsOf(Word) \in SUBSET Nat
          /\ \A p \in OffsetsOf(Word) : p <= Offset
      BY <2>1, <3>1, RoundOrder
    <3>3. IsHit(decimal[Offset], {decimal[x] : x \in OffsetsOf(Word)})
      BY <2>1 DEF Assigned
    <3>4. Offset \in OffsetsOf(Word) \/ PassedOver(OffsetsOf(Word), Offset)
      BY <3>2, <3>3, LookupOfLast
    <3>5. QED
      BY <3>1, <3>4 DEF MetIsEntered, Offset
  <2>4. \A t : (Rare(t)' <=> Rare(t)) /\ OffsetsOf(t)' = OffsetsOf(t)
    BY <2>1 DEF Rare, DocumentsWithTerm, OffsetsOf
  <2>5. \A t \in Terms : \A i \in DOMAIN list : Met(t, i)' => MetIsEntered(t, i)'
    <3>1. \A t \in Terms : \A i \in DOMAIN list : Met(t, i)' => MetIsEntered(t, i)
      BY <2>2, <2>3 DEF LoopInv
    <3>2. QED
      BY <2>1, <2>4, <3>1 DEF MetIsEntered
  <2>6. \A t \in Terms : EnteredInOrder(t)'
    BY <2>1, <2>4 DEF LoopInv, EnteredInOrder
  <2>7. QED
    BY <2>1, <2>4, <2>5, <2>6
    DEF LoopInv, CollectedFirst, DocumentsWithTerm
<1>3. ASSUME InRound, ~Assigned, list' = list, NEW u \in collected', NEW size,
             Collect(Word, DocumentsWithTerm(Map, u), size),
             \A t \in Terms : t = Word /\ t \notin collected =>
                 CollectedFirst(t)',
             cached' # {} =>
                 \E v \in collected' : slot' = DocumentsWithTerm(Map, v)
      PROVE  LoopInv'
  <2>1. /\ collected' = collected \cup {Word}
        /\ \A t \in Terms : OffsetsOf(t) \subseteq OffsetsOf(t)'
        /\ \A t \in Terms : \A i \in DOMAIN list :
             Met(t, i)' => MetIsEntered(t, i)'
        /\ \A t \in Terms : EnteredInOrder(t)'
        /\ \A t \in Terms : entered'[t] # {} => \E v \in collected' : Rare(v)
    BY <1>3, CollectKeeps
  <2>2. Map' = Map /\ \A t : Rare(t)' <=> Rare(t)
    BY <1>3 DEF Map, Rare, DocumentsWithTerm
  <2>3. \A t \in collected' : CollectedFirst(t)'
    <3>1. \A t \in collected : CollectedFirst(t) /\ t \in Terms
      BY DEF LoopInv, Places
    <3>2. QED
      BY <1>3, <2>1, <2>2, <3>1, RoundType DEF CollectedFirst
  <2>4. cached' # {} =>
            \E v \in collected' : slot' = DocumentsWithTerm(Map, v)'
    BY <1>3, <2>2 DEF DocumentsWithTerm
  <2>5. QED
    BY <1>3, <2>1, <2>2, <2>3, <2>4 DEF LoopInv
<1>4. CASE ComputeFrequency
  <2>1. /\ InRound /\ ~Assigned /\ Word \notin collected /\ list' = list
        /\ slot' = DocumentsWithTerm(Map, Word)
        /\ Collect(Word, DocumentsWithTerm(Map, Word),
                   DocumentsWithTerm(Map, Word))
        /\ Word \in collected'
    BY <1>4
    DEF ComputeFrequency, CountSubstrings, AnnouncedIsComputed, Collect
  <2>2. ASSUME NEW t \in Terms, t = Word
        PROVE  CollectedFirst(t)'
    <3>1. /\ list \in Seq(Docs) /\ at.doc \in DOMAIN list
          /\ Word \in Terms /\ Word \in Tokens[list[at.doc]]
      BY <2>1, CurrentWord
    <3>2. \A j \in DOMAIN list : t \in Tokens[list[j]] => at.doc <= j
      <4>1. \A j \in DOMAIN list : ~Met(t, j)
        BY <2>1, <2>2 DEF LoopInv, MetIsEntered
      <4>2. \A j \in DOMAIN list : j \in Nat /\ at.doc \in Nat
        BY <3>1
      <4>3. QED
        BY <4>1, <4>2 DEF Met
    <3>3. Rare(t) => DocOffset[at.doc] \in OffsetsOf(t)'
      BY <2>1, <2>2, CollectKeeps
    <3>4. Rare(t)' <=> Rare(t)
      BY <2>1 DEF Rare, DocumentsWithTerm, Map
    <3>5. QED
      BY <2>1, <2>2, <3>1, <3>2, <3>3, <3>4
      DEF CollectedFirst
  <2>3. QED
    BY <1>3, <2>1, <2>2
<1>5. CASE ReadFrequency
  <2>1. /\ InRound /\ ~Assigned /\ Word \in collected /\ list' = list
        /\ slot' = slot /\ cached' = cached /\ cached # {}
        /\ Collect(Word, slot, Unset)
        /\ collected \subseteq collected'
    BY <1>5 DEF ReadFrequency, AnnouncedIsComputed, Collect
  <2>2. PICK u \in collected : slot = DocumentsWithTerm(Map, u)
    BY <2>1 DEF LoopInv
  <2>3. QED
    BY <1>3, <2>1, <2>2
<1>6. CASE UNCHANGED indexingVars
  <2>1. /\ UNCHANGED <<list, slot, cached, collected, announced, entered>>
        /\ Map' = Map /\ at' = at
    BY <1>6 DEF indexingVars, Map
  <2>2. \A t : (Rare(t)' <=> Rare(t)) /\ OffsetsOf(t)' = OffsetsOf(t)
    BY <2>1 DEF Rare, DocumentsWithTerm, OffsetsOf
  <2>3. \A t \in Terms : \A i \in DOMAIN list : Met(t, i)' => MetIsEntered(t, i)'
    <3>1. \A t, i : Met(t, i)' <=> Met(t, i)
      BY <2>1 DEF Met
    <3>2. QED
      BY <2>1, <2>2, <3>1 DEF LoopInv, MetIsEntered
  <2>4. \A t \in Terms : EnteredInOrder(t)'
    BY <2>1, <2>2 DEF LoopInv, EnteredInOrder
  <2>5. QED
    BY <2>1, <2>2, <2>3, <2>4
    DEF LoopInv, CollectedFirst, DocumentsWithTerm
<1>7. QED
  BY <1>1, <1>2, <1>4, <1>5, <1>6 DEF IndexingNext, Return

\* LoopInv, with IndexingInv.
THEOREM LoopCorrect == IndexingSpec => [](IndexingInv /\ LoopInv)
<1>1. IndexingInit => LoopInv
  <2>1. ASSUME IndexingInit, NEW t \in Terms, NEW i \in DOMAIN list
        PROVE  ~Met(t, i)
    <3>1. list \in Seq(Docs) /\ i \in Nat \ {0}
      BY <2>1, ListsAssumption DEF IndexingInit
    <3>2. Text[list[i]] \in Seq(Terms)
      BY <3>1, TextAssumption
    <3>3. \A w \in DOMAIN Text[list[i]] : w \in Nat \ {0}
      BY <3>2
    <3>4. QED
      BY <2>1, <3>1, <3>3 DEF IndexingInit, Met
  <2>2. QED
    BY <2>1 DEF IndexingInit, LoopInv, EnteredInOrder, OffsetsOf
<1>2. IndexingInv /\ LoopInv /\ [IndexingNext]_indexingVars => LoopInv'
  BY LoopStep DEF IndexingInv
<1>3. QED
  BY <1>1, <1>2, IndexingCorrect, PTL DEF IndexingSpec

\* When the loops are done, the terms collected are the words of the batch.
LEMMA CollectedWords ==
    ASSUME Places, LoopInv, Done
    PROVE  collected = WordsOf(Map)
<1>1. list \in Seq(Docs) /\ DOMAIN list = 1 .. Len(list) /\ Len(list) \in Nat
  BY ListsAssumption DEF Places
<1>2. ASSUME NEW t \in collected
      PROVE  t \in WordsOf(Map)
  <2>1. PICK i \in DOMAIN list : t \in Tokens[list[i]]
    BY DEF LoopInv, CollectedFirst
  <2>2. [doc |-> list[i], off |-> DocOffset[i]] \in Map
    BY DEF Map
  <2>3. QED
    BY <2>1, <2>2 DEF WordsOf
<1>3. ASSUME NEW t \in WordsOf(Map)
      PROVE  t \in collected
  <2>1. PICK i \in DOMAIN list : t \in Tokens[list[i]]
    BY DEF WordsOf, Map
  <2>2. list[i] \in Docs /\ t \in Terms
    BY <1>1, <2>1, DocsAssumption
  <2>3. i < at.doc
    BY <1>1 DEF Done, Places
  <2>4. QED
    BY <2>1, <2>2, <2>3 DEF LoopInv, Met, MetIsEntered
<1>4. QED
  BY <1>2, <1>3

\* When the loops are done, the offsets entered for a term are entries that
\* IrsBatch allows.
LEMMA EntriesAllowed ==
    ASSUME Places, EntriesOfDocuments, LoopInv, Done, NEW t \in WordsOf(Map)
    PROVE  OffsetsOf(t) \in EntriesOf(Map, t)
<1> DEFINE places == {m.off : m \in DocumentsWithToken(Map, t)}
           first(p) == \A q \in places : p <= q
<1>1. /\ list \in Seq(Docs) /\ DOMAIN list = 1 .. Len(list) /\ Len(list) \in Nat
      /\ \A i, j \in DOMAIN list :
           DocOffset[i] \in Nat /\ (i < j => DocOffset[i] < DocOffset[j])
  BY ListsAssumption DEF Places
<1>2. collected = WordsOf(Map) /\ t \in Terms
  BY CollectedWords DEF Places
<1>3. \A u : Rare(u) <=> IsRare(Map, u)
  BY MapSize DEF Places, Rare, IsRare
<1>4. \A i \in DOMAIN list :
        t \in Tokens[list[i]] => DocOffset[i] \in places
  <2>1. ASSUME NEW i \in DOMAIN list, t \in Tokens[list[i]]
        PROVE  DocOffset[i] \in places
    <3> DEFINE m == [doc |-> list[i], off |-> DocOffset[i]]
    <3>1. m \in DocumentsWithToken(Map, t) /\ m.off = DocOffset[i]
      BY <2>1 DEF Map, DocumentsWithToken
    <3>2. QED
      BY <3>1
  <2>2. QED
    BY <2>1
<1>5. \A p \in places : \E i \in DOMAIN list :
        p = DocOffset[i] /\ t \in Tokens[list[i]]
  BY DEF Map, DocumentsWithToken
<1>6. OffsetsOf(t) \subseteq places
  BY <1>2 DEF OffsetsOf, EntriesOfDocuments, DocumentsWithToken
<1>7. ASSUME IsRare(Map, t), NEW p \in places, first(p)
      PROVE  p \in OffsetsOf(t)
  <2>1. PICK i \in DOMAIN list :
          /\ t \in Tokens[list[i]]
          /\ \A j \in DOMAIN list : t \in Tokens[list[j]] => i <= j
          /\ DocOffset[i] \in OffsetsOf(t)
    BY <1>2, <1>3, <1>7 DEF LoopInv, CollectedFirst
  <2>2. p <= DocOffset[i]
    BY <1>4, <1>7, <2>1
  <2>3. PICK j \in DOMAIN list : p = DocOffset[j] /\ t \in Tokens[list[j]]
    BY <1>5
  <2>4. i = j \/ i < j
    BY <1>1, <2>1, <2>3
  <2>5. DocOffset[i] <= p
    BY <1>1, <2>3, <2>4
  <2>6. p = DocOffset[i]
    BY <1>1, <2>2, <2>3, <2>5
  <2>7. QED
    BY <2>1, <2>6
<1>8. ASSUME OffsetsOf(t) # {}
      PROVE  \E u \in WordsOf(Map) : IsRare(Map, u)
  <2>1. entered[t] # {}
    BY <1>8 DEF OffsetsOf
  <2>2. QED
    BY <1>2, <1>3, <2>1 DEF LoopInv
<1>9. ASSUME \A u \in WordsOf(Map) : IsRare(Map, u),
             NEW p \in places, p \notin OffsetsOf(t)
      PROVE  PassedOver(OffsetsOf(t), p)
  <2>1. PICK i \in DOMAIN list : p = DocOffset[i] /\ t \in Tokens[list[i]]
    BY <1>5
  <2>2. i < at.doc
    BY <1>1 DEF Done, Places
  <2>3. MetIsEntered(t, i)
    BY <1>2, <2>1, <2>2 DEF LoopInv, Met
  <2>4. QED
    BY <1>2, <1>3, <1>9, <2>1, <2>3 DEF MetIsEntered
<1>10. \A p \in OffsetsOf(t) : ~PassedOver(OffsetsOf(t), p)
  BY <1>2 DEF LoopInv, EnteredInOrder
<1>11. QED
  BY <1>6, <1>7, <1>8, <1>9, <1>10 DEF EntriesOf

\* BuildsIndex: whatever the batch, with documents repeated, words shared or not,
\* and offsets a lookup takes for others, what the loops return is an index that
\* IrsBatch allows.  The vocabulary is one that lookups keep apart.
THEOREM BuildsIndexCorrect == IndexingSpec => []BuildsIndex
<1>1. ASSUME IndexingInv, LoopInv, Done
      PROVE  BuiltIndex \in IndexesOf(Map)
  <2>1. Places /\ AnnouncedIsComputed /\ EntriesOfDocuments
    BY <1>1 DEF IndexingInv
  <2>2. collected = WordsOf(Map)
    BY <1>1, <2>1, CollectedWords
  <2> DEFINE es == [t \in WordsOf(Map) |-> OffsetsOf(t)]
  <2>3. \A t \in WordsOf(Map) : es[t] \in EntriesOf(Map, t)
    BY <1>1, <2>1, EntriesAllowed
  <2>4. es \in [WordsOf(Map) -> UNION {EntriesOf(Map, t) : t \in WordsOf(Map)}]
    BY <2>3
  <2>5. BuiltIndex = [t \in Terms |-> IF t \in WordsOf(Map)
                                 THEN [count   |-> DocumentsWithTerm(Map, t),
                                       entries |-> es[t]]
                                 ELSE NoEntry]
    BY <2>1, <2>2 DEF BuiltIndex, AnnouncedIsComputed
  <2>6. QED
    BY <2>3, <2>4, <2>5 DEF IndexesOf
<1>2. IndexingInv /\ LoopInv => BuildsIndex
  BY <1>1 DEF BuildsIndex
<1>3. QED
  BY <1>2, LoopCorrect, PTL

-----------------------------------------------------------------------------
(* Types *)

\* A word of a document is found in some of the documents, and in no more than
\* there are.
LEMMA FrequencyRange ==
    ASSUME list \in Lists, NEW i \in DOMAIN list, NEW t \in Tokens[list[i]]
    PROVE  DocumentsWithTerm(Map, t) \in 1 .. Len(list)
<1> DEFINE S == {m \in Map : t \in Substrings[m.doc]}
           m0 == [doc |-> list[i], off |-> DocOffset[i]]
<1>1. list \in Seq(Docs)
  BY ListsAssumption
<1>2. IsFiniteSet(Map) /\ Cardinality(Map) = Len(list)
  BY MapFinite, MapSize
<1>3. m0 \in S
  BY <1>1, DocsAssumption DEF Map
<1>4. S \in SUBSET Map
  OBVIOUS
<1>5. /\ IsFiniteSet(S) /\ Cardinality(S) <= Cardinality(Map)
      /\ Cardinality(S) \in Nat /\ Cardinality(S) # 0
  BY <1>2, <1>3, <1>4, FS_Subset, FS_CardinalityType, FS_EmptySet
<1>6. QED
  BY <1>1, <1>2, <1>5 DEF DocumentsWithTerm

\* The type invariant: the loops end one past the list, and a value they enter
\* is a number of documents, never what an unset variable holds.
THEOREM IndexingTypeCorrect == IndexingSpec => []IndexingTypeOK
<1>1. ASSUME IndexingInit
      PROVE  IndexingTypeOK
  <2>1. list \in Seq(Docs) /\ Len(list) \in Nat
    BY <1>1, ListsAssumption DEF IndexingInit
  <2>2. 0 \in 0 .. Len(list) /\ 1 \in 1 .. Len(list) + 1
    BY <2>1
  <2>3. QED
    BY <1>1, <2>1, <2>2 DEF IndexingInit, IndexingTypeOK
<1>2. ASSUME IndexingInv, LoopInv, IndexingTypeOK, [IndexingNext]_indexingVars
      PROVE  IndexingTypeOK'
  <2>0. /\ Places /\ cached = collected /\ list \in Lists
        /\ list \in Seq(Docs) /\ Len(list) \in Nat
    BY <1>2, ListsAssumption DEF IndexingInv, AnnouncedIsComputed, Places
  <2>1. CASE NextDocument
    <3>1. at.doc + 1 \in 1 .. Len(list) + 1
      BY <1>2, <2>0, <2>1 DEF NextDocument, Done, IndexingTypeOK
    <3>2. QED
      BY <1>2, <2>1, <3>1 DEF NextDocument, IndexingTypeOK
  <2>2. CASE SkipAssigned
    BY <1>2, <2>0, <2>2 DEF SkipAssigned, Places, IndexingTypeOK
  <2>3. ASSUME InRound, list' = list, NEW frequency \in 1 .. Len(list),
               slot' \in 1 .. Len(list), cached' \in SUBSET Terms,
               NEW size \in {Unset} \cup 0 .. Len(list),
               Collect(Word, frequency, size)
        PROVE  IndexingTypeOK'
    <3>1. /\ Word \in Terms /\ at.doc \in DOMAIN list
          /\ Offset \in Nat
      BY <2>0, <2>3, CurrentWord, ListsAssumption DEF Offset
    <3>2. /\ collected' \in SUBSET Terms
          /\ at' = [doc |-> at.doc, word |-> at.word + 1]
          /\ announced' \in [Terms -> {Unset} \cup 0 .. Len(list)]
      BY <1>2, <2>0, <2>3, <3>1 DEF Collect, IndexingTypeOK, Places
    <3>3. \A t \in Terms :
            entered'[t] \subseteq [off : Nat, from : 1 .. Len(list)]
      BY <1>2, <2>0, <2>3, <3>1 DEF Collect, IndexingTypeOK, Places
    <3>4. at'.doc \in 1 .. Len(list) + 1 /\ at'.word \in Nat \ {0}
      BY <1>2, <2>0, <3>2 DEF Places, IndexingTypeOK
    <3>5. QED
      BY <1>2, <2>3, <3>2, <3>3, <3>4 DEF IndexingTypeOK
  <2>4. CASE ComputeFrequency
    <3>1. /\ InRound /\ list' = list /\ cached' = cached \cup {Word}
          /\ slot' = DocumentsWithTerm(Map, Word)
          /\ Collect(Word, DocumentsWithTerm(Map, Word),
                     DocumentsWithTerm(Map, Word))
      BY <2>4 DEF ComputeFrequency, CountSubstrings
    <3>2. /\ DocumentsWithTerm(Map, Word) \in 1 .. Len(list)
          /\ Word \in Terms
      BY <2>0, <3>1, CurrentWord, FrequencyRange
    <3>3. DocumentsWithTerm(Map, Word) \in {Unset} \cup 0 .. Len(list)
      BY <3>2
    <3>4. cached' \in SUBSET Terms
      BY <1>2, <3>1, <3>2 DEF IndexingTypeOK
    <3>5. QED
      BY <2>3, <3>1, <3>2, <3>3, <3>4
  <2>5. CASE ReadFrequency
    <3>1. /\ InRound /\ list' = list /\ cached' = cached /\ slot' = slot
          /\ Collect(Word, slot, Unset) /\ cached # {}
      BY <2>5 DEF ReadFrequency
    <3>2. PICK u \in collected : slot = DocumentsWithTerm(Map, u)
      BY <1>2, <3>1 DEF LoopInv
    <3>3. PICK i \in DOMAIN list : u \in Tokens[list[i]]
      BY <1>2 DEF LoopInv, CollectedFirst
    <3>4. slot \in 1 .. Len(list)
      BY <2>0, <3>2, <3>3, FrequencyRange
    <3>5. cached' \in SUBSET Terms
      BY <1>2, <3>1 DEF IndexingTypeOK
    <3>6. QED
      BY <2>3, <3>1, <3>4, <3>5
  <2>6. CASE UNCHANGED indexingVars
    BY <1>2, <2>6 DEF indexingVars, IndexingTypeOK
  <2>7. QED
    BY <1>2, <2>1, <2>2, <2>4, <2>5, <2>6 DEF IndexingNext, Return
<1>3. QED
  BY <1>1, <1>2, LoopCorrect, PTL DEF IndexingSpec
=============================================================================
