----------------------------- MODULE IrsStorage -----------------------------
(***************************************************************************)
(* The storage of irs-machine (irs-memory/irs-storage), with the process   *)
(* protocol its only client, the C++ class IrsMemory, imposes on it:       *)
(* initialize + load when the process starts, add and get while it serves, *)
(* save + shutdown when it stops, and a crash anywhere in between.         *)
(*                                                                         *)
(* On disk there are three files.  documents.irsdb holds the documents,    *)
(* terms.irsdb one record per indexed term (the offsets of the documents   *)
(* it occurs in), term_offsets.irsdb the saved term_offset_dictionary and  *)
(* the two logical sizes.  A file is a length in bytes and a set of        *)
(* records with their physical positions, so that an offset the code       *)
(* computed can be compared with the place a record really has.            *)
(*                                                                         *)
(* Terms are words the dictionary keeps apart: module IrsDictionary models *)
(* the trie itself and says for which vocabularies it does.                *)
(***************************************************************************)
EXTENDS IrsBatch, Sequences

CONSTANTS
    LongTerms,      \* the terms too long for the buffer a load gives them
    DocSize,        \* strlen of a document
    SigSize,        \* strlen of a printed significancy
    TermRank,       \* the order in which a walk of the dictionary meets terms
    Batches,        \* the document lists add_documents is called with
    Queries,        \* the term lists get_documents is called with
    MaxAdds,        \* bound: calls of add_documents
    MaxStarts       \* bound: starts of the process

ASSUME TermsAssumption ==
    /\ LongTerms \subseteq Terms
    /\ IsFiniteSet(Terms)

ASSUME SizesAssumption ==
    /\ DocSize \in [Docs -> Nat]
    /\ SigSize \in Nat \ {0}

ASSUME RankAssumption ==
    /\ TermRank \in [Terms -> Nat]
    /\ \A t, u \in Terms : TermRank[t] = TermRank[u] => t = u

ASSUME InputsAssumption ==
    /\ Batches \subseteq Seq(Docs)
    /\ Queries \subseteq Seq(Terms) \ {<<>>}

ASSUME BoundsAssumption == MaxAdds \in Nat /\ MaxStarts \in Nat

VARIABLES
    directory,      \* the database directory exists
    documents,      \* documents.irsdb
    terms,          \* terms.irsdb
    termOffsets,    \* term_offsets.irsdb
    lost,           \* history: the files whose end a close did not write
    pc,             \* what the process is doing
    status,         \* what the last initialize, add or get returned
    dict,           \* term_offset_dictionary: the offsets appended per term
    loaded,         \* the terms of dict that a load put there
    documentsSize,  \* storage->documents_size
    termsSize,      \* storage->terms_size
    pending,        \* documents of the current batch not written yet
    offsetMap,      \* document_offset_map of the current batch
    index,          \* terms_doc_significancy_dictionary of the current batch
    todo,           \* terms of index whose record is not written yet
    reply,          \* what the last get_documents answered
    adds, starts,   \* counters for the bounds
    clean,          \* history: every batch so far was added to empty storage
    intact          \* history: no crash interrupted a save

disk  == <<directory, documents, terms, termOffsets, lost>>
heap  == <<dict, loaded, documentsSize, termsSize>>
batch == <<pending, offsetMap, index, todo>>
count == <<adds, starts, clean, intact>>
vars  == <<directory, documents, terms, termOffsets, lost, pc, status, dict,
           loaded, documentsSize, termsSize, pending, offsetMap, index, todo,
           reply, adds, starts, clean, intact>>

-----------------------------------------------------------------------------
(* Files and records *)

HeaderSize == 8     \* sizeof(irs_uint64)
TermSize(t) == Len(Spelling[t])

\* What a record takes in its file: size and document, and term_size, term,
\* docs_with_term, then offset, size, significancy per entry.
DocumentRecordSize(d) == HeaderSize + DocSize[d]
TermRecordSize(t, entries) ==
    HeaderSize + TermSize(t) + HeaderSize
        + Cardinality(entries) * (2 * HeaderSize + SigSize)

\* What the writes of a record add to documents_size and to terms_size.  The
\* variants forget the count after one of the writes, or take it away.
UncountedDocumentHeader(d) == DocSize[d]
SubtractedDocumentText(d) == HeaderSize - DocSize[d]
CountedDocumentSize(d) == HeaderSize + DocSize[d]

UncountedEntryTotal(t, entries) ==
    HeaderSize + TermSize(t)
        + Cardinality(entries) * (2 * HeaderSize + SigSize)
CountedTermSize(t, entries) ==
    HeaderSize + TermSize(t) + HeaderSize
        + Cardinality(entries) * (2 * HeaderSize + SigSize)

EmptyFile == [len |-> 0, recs |-> {}]
NoOffsets == [t \in Terms |-> <<>>]

\* term_offsets.irsdb before the first save, and after a crash that left it
\* empty: both load as an empty dictionary with both sizes zero.
NothingSaved == [termsSize |-> 0, documentsSize |-> 0, at |-> NoOffsets]

FirstOnly(s) == IF s = <<>> THEN <<>> ELSE <<Head(s)>>

\* A save writes one offset for each term, the first in its data list.  One
\* variant forgets the two sizes, the other the size of the documents.
SavedWithoutSizes(ts) ==
    [NothingSaved EXCEPT !.at = [t \in Terms |-> IF t \in ts
                                                 THEN FirstOnly(dict[t])
                                                 ELSE <<>>]]
SavedWithTermsSize(ts) ==
    [SavedWithoutSizes(ts) EXCEPT !.termsSize = documentsSize]
Saved(ts) == [termsSize     |-> termsSize,
              documentsSize |-> documentsSize,
              at |-> [t \in Terms |-> IF t \in ts THEN FirstOnly(dict[t])
                                                  ELSE <<>>]]

\* What the channel of an open file still buffered is lost in a crash, and if
\* it cannot be written when the channel is shut down: that error is discarded.
Cut(file, n) == [len |-> n, recs |-> {r \in file.recs : r.pos < n}]
CutPoints(file) == {r.pos : r \in file.recs} \cup {file.len}

DocumentAt(off, t) ==
    \E d \in documents.recs : d.pos = off /\ t \in Tokens[d.doc]

\* off is the place of a document that has t, or was one before the end of the
\* file was lost.
DocumentWasAt(off, t) ==
    \/ DocumentAt(off, t)
    \/ "documents" \in lost /\ off >= documents.len

\* The same for t's own record, every entry of which is such a place.
TermWasAt(off, t) ==
    \/ \E r \in terms.recs : /\ r.pos = off
                             /\ r.term = t
                             /\ \A e \in r.entries : DocumentWasAt(e, t)
    \/ "terms" \in lost /\ off >= terms.len

-----------------------------------------------------------------------------
(* The process starts, stops and crashes *)

NoReply == [terms |-> <<>>, results |-> <<>>, ok |-> TRUE]
NoIndex == [t \in Terms |-> NoEntry]

Init ==
    /\ directory = FALSE
    /\ documents = EmptyFile /\ terms = EmptyFile
    /\ termOffsets = NothingSaved /\ lost = {}
    /\ pc = "down" /\ status = "none"
    /\ dict = NoOffsets /\ loaded = {}
    /\ documentsSize = 0 /\ termsSize = 0
    /\ pending = <<>> /\ offsetMap = {} /\ index = NoIndex /\ todo = {}
    /\ reply = NoReply
    /\ adds = 0 /\ starts = 0
    /\ clean = TRUE /\ intact = TRUE

\* irs_fs_mkdirs returns TRUE when mkdir fails: with no directory yet,
\* initialize creates it and gives up.  IrsMemory does not look at the result,
\* and the load of the storage that was never allocated ends the process.
StartCreatesDirectory ==
    /\ pc = "down" /\ ~directory
    /\ starts < MaxStarts
    /\ starts' = starts + 1
    /\ directory' = TRUE
    /\ status' = "wrong_path"
    /\ reply' = NoReply
    /\ UNCHANGED <<documents, terms, termOffsets, lost, pc, heap, batch, adds,
                   clean, intact>>

\* initialize and load.  It also gets here without a directory, when mkdir
\* failed; there is then nothing to load.
Start ==
    /\ pc = "down"
    /\ starts < MaxStarts
    /\ starts' = starts + 1
    /\ pc' = "idle"
    /\ status' = "ok"
    /\ dict' = termOffsets.at
    /\ loaded' = {t \in Terms : termOffsets.at[t] # <<>>}
    /\ documentsSize' = termOffsets.documentsSize
    /\ termsSize' = termOffsets.termsSize
    /\ reply' = NoReply
    /\ UNCHANGED <<disk, batch, adds, clean, intact>>

\* The heap is gone, whatever the reason.
GoDown ==
    /\ pc' = "down"
    /\ status' = "none"
    /\ dict' = NoOffsets /\ loaded' = {}
    /\ documentsSize' = 0 /\ termsSize' = 0
    /\ pending' = <<>> /\ offsetMap' = {} /\ index' = NoIndex /\ todo' = {}
    /\ reply' = NoReply

\* A loaded term that fills its buffer is not terminated: strlen may run past
\* it, and its entry is then written under another key.  In the variant no
\* loaded term has room for a terminator.
EveryLoadedTerm == loaded
MayOverrun == loaded \cap LongTerms

\* The destructor of IrsMemory: save and shutdown.  Without a directory nothing
\* is written.
Stop ==
    /\ pc = "idle"
    /\ IF directory
       THEN \E overrun \in SUBSET MayOverrun :
                termOffsets' = Saved(Terms \ overrun)
       ELSE UNCHANGED termOffsets
    /\ GoDown
    /\ UNCHANGED <<directory, documents, terms, lost, count>>

\* The save is interrupted: term_offsets.irsdb was truncated when it was
\* opened, and holds a prefix of what save writes.
CrashInSave ==
    /\ pc = "idle" /\ directory
    /\ \/ termOffsets' = NothingSaved
       \/ termOffsets' = [NothingSaved EXCEPT !.termsSize = termsSize]
       \/ \E n \in {TermRank[t] : t \in Terms} :
              termOffsets' = Saved({t \in Terms : TermRank[t] < n})
    /\ intact' = FALSE
    /\ GoDown
    /\ UNCHANGED <<directory, documents, terms, lost, adds, starts, clean>>

\* Killed, or aborted by g_error, g_new0 or a corrupted heap.
Crash ==
    /\ pc # "down"
    /\ IF pc = "documents"
       THEN \E n \in CutPoints(documents) : documents' = Cut(documents, n)
       ELSE UNCHANGED documents
    /\ IF pc = "terms"
       THEN \E n \in CutPoints(terms) : terms' = Cut(terms, n)
       ELSE UNCHANGED terms
    /\ GoDown
    /\ UNCHANGED <<directory, termOffsets, lost, count>>

-----------------------------------------------------------------------------
(* irs_storage_add_documents *)

\* _irs_storage_write_documents opens documents.irsdb with "w+", which
\* truncates it; documents_size keeps counting from where it was.
AddDocuments(b) ==
    /\ pc = "idle" /\ directory
    /\ adds < MaxAdds
    /\ adds' = adds + 1
    /\ clean' = (clean /\ documentsSize = 0 /\ termsSize = 0)
    /\ documents' = EmptyFile
    /\ lost' = lost \ {"documents"}
    /\ pending' = b
    /\ offsetMap' = {}
    /\ pc' = "documents"
    /\ status' = "none"
    /\ reply' = NoReply
    /\ UNCHANGED <<directory, terms, termOffsets, heap, index, todo, starts,
                   intact>>

\* Without a directory the open fails, and so does the first write.
AddDocumentsNowhere(b) ==
    /\ pc = "idle" /\ ~directory
    /\ status' = IF b = <<>> THEN "ok" ELSE "write_error"
    /\ reply' = NoReply
    /\ UNCHANGED <<disk, pc, heap, batch, count>>

\* One round of the loop: the offset saved is documents_size, the place the
\* document gets is the end of the file.
WriteDocument ==
    /\ pc = "documents" /\ pending # <<>>
    /\ LET d == Head(pending)
       IN /\ offsetMap' = offsetMap \cup {[doc |-> d, off |-> documentsSize]}
          /\ documents' = [len  |-> documents.len + DocumentRecordSize(d),
                           recs |-> documents.recs
                                      \cup {[pos |-> documents.len, doc |-> d]}]
          /\ documentsSize' = documentsSize + CountedDocumentSize(d)
    /\ pending' = Tail(pending)
    /\ reply' = NoReply
    /\ UNCHANGED <<directory, terms, termOffsets, lost, pc, status, dict, loaded,
                   termsSize, index, todo, count>>

\* One of the two writes of a document fails: the call returns at once, with
\* the index as it was and the file already truncated.  What the channel still
\* buffered may be lost, and a document written in part is no record.
WriteDocumentFails ==
    /\ pc = "documents" /\ pending # <<>>
    /\ \E written \in {0, HeaderSize} :
           documentsSize' = documentsSize + written
    /\ \E n \in CutPoints(documents) : documents' = Cut(documents, n)
    /\ pc' = "idle"
    /\ status' = "write_error"
    /\ pending' = <<>> /\ offsetMap' = {}
    /\ reply' = NoReply
    /\ UNCHANGED <<directory, terms, termOffsets, lost, dict, loaded, termsSize,
                   index, todo, count>>

\* The documents file is closed, then _irs_storage_assign_terms_in_documents
\* and the "w+" open of terms.irsdb.
AssignTerms ==
    /\ pc = "documents" /\ pending = <<>>
    /\ \E n \in CutPoints(documents) :
         /\ documents' = Cut(documents, n)
         /\ lost' = IF n < documents.len THEN {"documents"} ELSE {}
    /\ index' \in IndexesOf(offsetMap)
    /\ todo' = WordsOf(offsetMap)
    /\ offsetMap' = {}
    /\ terms' = EmptyFile
    /\ pc' = "terms"
    /\ reply' = NoReply
    /\ UNCHANGED <<directory, termOffsets, status, heap, pending, count>>

\* _irs_storage_pass_terms_doc_significancy_dictionary: terms_size is appended
\* to the data list of t, after the offsets earlier batches left there.
WriteTerm(t) ==
    /\ pc = "terms"
    /\ t \in todo /\ \A u \in todo : TermRank[t] <= TermRank[u]
    /\ dict' = [dict EXCEPT ![t] = Append(@, termsSize)]
    /\ LET es == index[t].entries
       IN /\ terms' = [len  |-> terms.len + TermRecordSize(t, es),
                       recs |-> terms.recs
                                  \cup {[pos     |-> terms.len,
                                         term    |-> t,
                                         count   |-> index[t].count,
                                         entries |-> es]}]
          /\ termsSize' = termsSize + CountedTermSize(t, es)
    /\ todo' = todo \ {t}
    /\ reply' = NoReply
    /\ UNCHANGED <<directory, documents, termOffsets, lost, pc, status, loaded,
                   documentsSize, pending, offsetMap, index, count>>

\* The terms file is closed.
FinishAdd ==
    /\ pc = "terms" /\ todo = {}
    /\ \E n \in CutPoints(terms) :
         /\ terms' = Cut(terms, n)
         /\ lost' = lost \cup {f \in {"terms"} : n < terms.len}
    /\ pc' = "idle"
    /\ status' = "ok"
    /\ index' = NoIndex
    /\ reply' = NoReply
    /\ UNCHANGED <<directory, documents, termOffsets, heap, pending, offsetMap,
                   todo, count>>

-----------------------------------------------------------------------------
(* irs_storage_get_documents *)

NotIndexed == [tag |-> "none", offs |-> {}]
Found(es)  == [tag |-> "docs", offs |-> es]
Garbled    == [tag |-> "garbled", offs |-> {}]

\* The record the read of t lands on; the reader does not look at its term.
RecordsFor(t) == {r \in terms.recs : r.pos = Head(dict[t])}

EntriesResolve(r) == \A e \in r.entries : \E d \in documents.recs : d.pos = e

\* docs_with_term entries are read, whatever the number really there.
WellCounted(r) == r.count = Cardinality(r.entries)

Readable(t) == {r \in RecordsFor(t) : EntriesResolve(r) /\ WellCounted(r)}

\* The read meets the end of a file, and nothing it could mistake for something
\* else before: an entry is behind the last document, or the record is the last
\* one and announces too many.
PastDocuments(e) == e >= documents.len
OnlyHitsEnd(r) ==
    /\ \A e \in r.entries :
         PastDocuments(e) \/ \E d \in documents.recs : d.pos = e
    /\ \/ \E e \in r.entries : PastDocuments(e)
       \/ \A s \in terms.recs : s.pos <= r.pos

\* Bytes read as something they are not: an error, an answer that skips or
\* invents documents, or an allocation that aborts (which is Crash).
MayGarble(t) ==
    /\ Head(dict[t]) < terms.len
    /\ ~ \E r \in RecordsFor(t) : WellCounted(r) /\ EntriesResolve(r)
    /\ ~ \E r \in RecordsFor(t) : OnlyHitsEnd(r)

Answers(t) ==
    IF dict[t] = <<>> THEN {NotIndexed}
    ELSE {Found(r.entries) : r \in Readable(t)}
           \cup {g \in {Garbled} : MayGarble(t)}

MayFail(t) == dict[t] # <<>> /\ Readable(t) = {}

\* The terms are looked up in turn; the first read error ends the call, and
\* the answers before it stay in the list the caller holds.
GetDocuments(ts) ==
    /\ pc = "idle"
    /\ \E n \in 0 .. Len(ts) :
         /\ n < Len(ts) => MayFail(ts[n + 1])
         /\ \E results \in [1 .. n -> UNION {Answers(ts[i]) : i \in 1 .. n}] :
              /\ \A i \in 1 .. n : results[i] \in Answers(ts[i])
              /\ reply' = [terms   |-> ts,
                           results |-> results,
                           ok      |-> n = Len(ts)]
         /\ status' = IF n = Len(ts) THEN "ok" ELSE "read_error"
    /\ UNCHANGED <<disk, pc, heap, batch, count>>

Next ==
    \/ StartCreatesDirectory \/ Start
    \/ Stop \/ CrashInSave \/ Crash
    \/ \E b \in Batches : AddDocuments(b) \/ AddDocumentsNowhere(b)
    \/ WriteDocument \/ WriteDocumentFails \/ AssignTerms
    \/ \E t \in Terms : WriteTerm(t)
    \/ FinishAdd
    \/ \E ts \in Queries : GetDocuments(ts)

Spec == Init /\ [][Next]_vars

-----------------------------------------------------------------------------
(* Properties *)

FiniteSubsets(S) == {es \in SUBSET S : IsFiniteSet(es)}

DocumentRecord == [pos : Nat, doc : Docs]
TermRecord == [pos : Nat, term : Terms, count : Nat, entries : FiniteSubsets(Nat)]
Answer == [tag : {"none", "docs", "garbled"}, offs : SUBSET Nat]

DocumentsFile == [len : Nat, recs : SUBSET DocumentRecord]
TermsFile == [len : Nat, recs : SUBSET TermRecord]
TermOffsetsFile == [termsSize : Nat, documentsSize : Nat,
                    at : [Terms -> Seq(Nat)]]
OffsetMap == FiniteSubsets([doc : Docs, off : Nat])
TermIndex == [Terms -> [count : Nat, entries : FiniteSubsets(Nat)]]
Reply == [terms : Seq(Terms), results : Seq(Answer), ok : BOOLEAN]

\* Every file, dictionary and counter has the shape the code gives it, and the
\* logical sizes never go below zero.
TypeOK ==
    /\ directory \in BOOLEAN
    /\ documents \in DocumentsFile /\ terms \in TermsFile
    /\ termOffsets \in TermOffsetsFile
    /\ lost \subseteq {"documents", "terms"}
    /\ pc \in {"down", "idle", "documents", "terms"}
    /\ status \in {"none", "ok", "wrong_path", "write_error", "read_error"}
    /\ dict \in [Terms -> Seq(Nat)]
    /\ loaded \in SUBSET Terms
    /\ documentsSize \in Nat /\ termsSize \in Nat
    /\ pending \in Seq(Docs)
    /\ offsetMap \in OffsetMap
    /\ index \in TermIndex
    /\ todo \in SUBSET Terms
    /\ reply \in Reply
    /\ adds \in Nat /\ starts \in Nat
    /\ clean \in BOOLEAN /\ intact \in BOOLEAN

IndexResolves(at) == \A t \in Terms : at[t] # <<>> => TermWasAt(Head(at[t]), t)

\* As long as every batch was added to an empty storage, the offset a lookup
\* takes from term_offset_dictionary is the place of that term's own record,
\* and every document offset in the record is the place of a document that has
\* the term (irs_storage_add_documents, whatever writes fail or crashes hit).
\* Where a close failed, what it did not write is missing, and nothing else is
\* in its place.
CleanIndexResolves == clean /\ pc = "idle" => IndexResolves(dict)

\* The same of the dictionary in term_offsets.irsdb, in every state: also while
\* the process is down, or in the middle of an add that rewrites the other two
\* files (irs_storage_save, irs_storage_load).
PersistedIndexResolves == clean => IndexResolves(termOffsets.at)

\* With any number of adds: while a batch is written, each offset the code
\* notes down is off by the same amount, the one by which the logical size has
\* run ahead of the file since "w+" truncated it, so the batch is consistent
\* in itself (_irs_storage_write_documents, and the two pass functions).
DriftLaw ==
    /\ pc = "documents" =>
         \A m \in offsetMap :
            [pos |-> m.off - (documentsSize - documents.len), doc |-> m.doc]
                \in documents.recs
    /\ pc = "terms" =>
         \A r \in terms.recs :
            /\ dict[r.term] # <<>>
            /\ dict[r.term][Len(dict[r.term])] = r.pos + (termsSize - terms.len)

\* While every batch was added to an empty storage, a lookup answers only with
\* documents that have the term, says "none" only of a term that is not in the
\* dictionary, and garbles an answer or fails only at a term whose record
\* announces another number of documents than it holds, or fails at what a close
\* lost (irs_storage_get_documents, _irs_storage_read_documents_by_term).
MayMiss(t) ==
    \/ "terms" \in lost /\ RecordsFor(t) = {}
    \/ "documents" \in lost /\ \E r \in RecordsFor(t) :
                                 \E e \in r.entries : PastDocuments(e)

ReplySound ==
    clean =>
      /\ \A i \in DOMAIN reply.results :
           LET t == reply.terms[i]
               a == reply.results[i]
           IN /\ a.tag = "docs" => \A e \in a.offs : DocumentAt(e, t)
              /\ a.tag = "none" => dict[t] = <<>>
              /\ a.tag = "garbled" => \E r \in RecordsFor(t) : ~WellCounted(r)
      /\ ~reply.ok =>
           LET t == reply.terms[Len(reply.results) + 1]
           IN (\E r \in RecordsFor(t) : ~WellCounted(r)) \/ MayMiss(t)

\* While every batch was added to an empty storage and no crash hit a save, a
\* storage that has an index has all of it: every word of every stored document
\* is in the dictionary, after any number of stops and starts, unless the word
\* outgrows the buffer a load gives it (_irs_storage_read_term_offsets).
CompleteIndex ==
    clean /\ intact /\ pc = "idle" /\ (\E t \in Terms : dict[t] # <<>>) =>
        \A d \in documents.recs :
            \A t \in Tokens[d.doc] \ LongTerms : dict[t] # <<>>

\* While every batch was added to an empty storage, the files and offsets are
\* the inverted index IrsIndex promises: a term is indexed with documents that
\* have it, its documents change only while they are added, a lookup answers
\* with exactly these, and a stop and a start bring them back (all operations
\* of irs_storage.h).
DocumentsOf(offs) == {d.doc : d \in {x \in documents.recs : x.pos \in offs}}
EntriesAt(off) == UNION {r.entries : r \in {x \in terms.recs : x.pos = off}}
IndexOf(at) == [t \in {u \in Terms : at[u] # <<>>} |->
                    DocumentsOf(EntriesAt(Head(at[t])))]
Answered ==
    [i \in DOMAIN reply.results |->
        [tag  |-> reply.results[i].tag,
         docs |-> DocumentsOf(reply.results[i].offs)]]

Index == INSTANCE IrsIndex WITH
    kept <- clean, stored <- {d.doc : d \in documents.recs},
    whole <- "documents" \notin lost,
    index <- IndexOf(dict), saved <- IndexOf(termOffsets.at),
    asked <- reply.terms, answers <- Answered

IsIndex == Index!Spec

-----------------------------------------------------------------------------
(* The inductive invariants the proofs in IrsStorageProofs use *)

\* A term is written once per batch, no two records share a place, and none is
\* behind the end of its file.
WrittenOnce ==
    /\ pc = "terms" => \A r \in terms.recs : r.term \notin todo
    /\ \A r \in terms.recs : r.pos < terms.len
    /\ \A r, s \in terms.recs : r.pos = s.pos => r = s
    /\ \A d \in documents.recs : d.pos < documents.len

\* Between two batches and while the terms are written: no size, no index.
NoSizeNoIndex ==
    /\ termOffsets.termsSize = 0 => termOffsets.at = NoOffsets
    /\ pc \in {"idle", "terms"} /\ termsSize = 0 => dict = NoOffsets
    /\ pc = "idle" /\ termsSize = 0 => termOffsets.at = NoOffsets

\* While documents are written, nothing is indexed, here or in the saved file,
\* and the offsets noted down are places of documents.
CleanDocuments ==
    pc = "documents" =>
        /\ documentsSize = documents.len /\ termsSize = 0
        /\ dict = NoOffsets /\ termOffsets.at = NoOffsets
        /\ \A m \in offsetMap : [pos |-> m.off, doc |-> m.doc] \in documents.recs

\* While terms are written, those written have good records, the others none.
CleanTerms ==
    pc = "terms" =>
        /\ termsSize = terms.len /\ "terms" \notin lost
        /\ termOffsets.at = NoOffsets
        /\ IndexResolves(dict)
        /\ \A t \in todo : dict[t] = <<>>
        /\ \A t \in Terms : \A e \in index[t].entries : DocumentWasAt(e, t)

CleanInv ==
    clean => /\ NoSizeNoIndex /\ CleanDocuments /\ CleanTerms
             /\ pc = "idle" => IndexResolves(dict)
             /\ IndexResolves(termOffsets.at)

-----------------------------------------------------------------------------
(* What the code's comments and tests say, and its steps do not keep *)

\* CleanIndexResolves for any number of adds: the "document offset" and the
\* "term offset" that are saved are offsets in the files.
IdleIndexResolves == pc = "idle" => IndexResolves(dict)
=============================================================================
