----------------------------- MODULE IrsIndexing -----------------------------
(***************************************************************************)
(* _irs_storage_assign_terms_in_documents, loop round by loop round: the   *)
(* terms of each document of a batch are looked up in two dictionaries,    *)
(* one that caches reverse frequencies and one that collects the index.    *)
(*                                                                         *)
(* The cache holds a pointer to reverse_frequency, a variable local to the *)
(* round that put it there.  Every round has its own, at the same address: *)
(* slot is what is there, and what every cached value reads as.  A reverse *)
(* frequency is represented by the number of documents it was computed     *)
(* from, and so is a significancy, which is positive if that number is     *)
(* below that of the documents of the batch.                               *)
(***************************************************************************)
EXTENDS IrsBatch, SequencesExt

CONSTANTS
    Text,           \* Text[d]: the sequence of words strtok finds in d
    DocOffset,      \* DocOffset[i]: the offset of the i-th document
    Lists           \* the lists of documents of a batch

ASSUME TextAssumption ==
    /\ Text \in [Docs -> Seq(Terms)]
    /\ \A d \in Docs : Tokens[d] = Range(Text[d])

ASSUME ListsAssumption ==
    /\ Lists \subseteq Seq(Docs)
    /\ \A b \in Lists : \A i, j \in DOMAIN b :
         DocOffset[i] \in Nat /\ (i < j => DocOffset[i] < DocOffset[j])

Unset == -1         \* a variable the round has not given a value

VARIABLES
    list,           \* the documents of the batch, in the order of the map
    at,             \* the round: document at.doc, word at.word of it
    slot,           \* what is at the address of reverse_frequency
    cached,         \* keys of terms_reverse_frequency_dictionary
    collected,      \* keys of terms_doc_significancy_dictionary
    announced,      \* doc_with_term_offsets_size as appended for a term
    entered         \* per term: document offset, with what gave significancy

indexingVars == <<list, at, slot, cached, collected, announced, entered>>

-----------------------------------------------------------------------------

Map == {[doc |-> list[i], off |-> DocOffset[i]] : i \in DOMAIN list}

Done == at.doc > Len(list)
Words == Text[list[at.doc]]
Word == Words[at.word]
Offset == DocOffset[at.doc]

InRound == ~Done /\ at.word <= Len(Words)

OffsetsOf(t) == {e.off : e \in entered[t]}

IndexingInit ==
    /\ list \in Lists
    /\ at = [doc |-> 1, word |-> 1]
    /\ slot = Unset
    /\ cached = {} /\ collected = {}
    /\ announced = [t \in Terms |-> 0]
    /\ entered = [t \in Terms |-> {}]

NextDocument ==
    /\ ~Done /\ at.word > Len(Words)
    /\ at' = [doc |-> at.doc + 1, word |-> 1]
    /\ UNCHANGED <<list, slot, cached, collected, announced, entered>>

\* The word is assigned in this document already, or a lookup of the document's
\* offset finds another one that was entered.  The variants do not look, or look
\* for the word only.
NeverAssigned == FALSE
AssignedAnywhere == Word \in collected
Assigned ==
    /\ Word \in collected
    /\ IsHit(decimal[Offset], {decimal[p] : p \in OffsetsOf(Word)})

SkipAssigned ==
    /\ InRound /\ Assigned
    /\ at' = [at EXCEPT !.word = @ + 1]
    /\ UNCHANGED <<list, slot, cached, collected, announced, entered>>

\* The end of a round: the word gets its place in the index if it has none, and
\* an entry for this document if its significancy is positive.
Collect(t, frequency, size) ==
    /\ collected' = collected \cup {t}
    /\ announced' = IF t \in collected THEN announced
                    ELSE [announced EXCEPT ![t] = size]
    /\ entered' = IF frequency < Len(list)
                  THEN [entered EXCEPT ![t] =
                           @ \cup {[off |-> Offset, from |-> frequency]}]
                  ELSE entered
    /\ at' = [at EXCEPT !.word = @ + 1]

\* The reverse frequency is computed, and its address put in the cache.  The
\* variants count the documents that have the word as a word, and start from one.
CountTokens(t) == Cardinality(DocumentsWithToken(Map, t))
CountFromOne(t) == 1 + DocumentsWithTerm(Map, t)
CountSubstrings(t) == DocumentsWithTerm(Map, t)

ComputeFrequency ==
    /\ InRound /\ ~Assigned /\ Word \notin cached
    /\ slot' = CountSubstrings(Word)
    /\ cached' = cached \cup {Word}
    /\ Collect(Word, CountSubstrings(Word), CountSubstrings(Word))
    /\ UNCHANGED list

\* The reverse frequency is read through the pointer in the cache.  The number
\* of documents has no value in such a round.
ReadFrequency ==
    /\ InRound /\ ~Assigned /\ Word \in cached
    /\ Collect(Word, slot, Unset)
    /\ UNCHANGED <<list, slot, cached>>

\* The dictionary is returned.  Not Done, the loops can always go on.
Return == Done /\ UNCHANGED indexingVars

IndexingNext ==
    \/ NextDocument \/ SkipAssigned
    \/ ComputeFrequency \/ ReadFrequency
    \/ Return

IndexingSpec == IndexingInit /\ [][IndexingNext]_indexingVars

-----------------------------------------------------------------------------
(* Properties *)

IndexingTypeOK ==
    /\ list \in Lists
    /\ at.doc \in 1 .. Len(list) + 1 /\ at.word \in Nat \ {0}
    /\ slot \in {Unset} \cup 1 .. Len(list)
    /\ cached \in SUBSET Terms /\ collected \in SUBSET Terms
    /\ announced \in [Terms -> {Unset} \cup 0 .. Len(list)]
    /\ \A t \in Terms :
         entered[t] \subseteq [off : Nat, from : 1 .. Len(list)]

\* The number of documents announced for a term is always one that was computed
\* for it, never the uninitialized doc_with_term_offsets_size of a round that
\* found the reverse frequency in the cache: the two dictionaries get their
\* keys in the same rounds.
AnnouncedIsComputed ==
    /\ cached = collected
    /\ \A t \in collected : announced[t] = DocumentsWithTerm(Map, t)

\* A document is entered once for a term, however often it has the word, and a
\* term never has more entries than announced: a reader of its record may run
\* past its end and never misses an entry.
NeverUnderAnnounced ==
    \A t \in Terms :
        /\ \A e, f \in entered[t] : e.off = f.off => e = f
        /\ t \in collected => Cardinality(entered[t]) <= announced[t]

\* The loops build an index IrsStorage allows for the batch.
BuiltIndex == [t \in Terms |->
             IF t \in collected
             THEN [count |-> announced[t], entries |-> OffsetsOf(t)]
             ELSE NoEntry]
BuildsIndex == Done => BuiltIndex \in IndexesOf(Map)

-----------------------------------------------------------------------------
(* The inductive invariants the proofs in IrsStorageProofs use *)

\* The rounds stay in the lists they go through.
Places ==
    /\ list \in Lists
    /\ at.doc \in Nat \ {0} /\ at.word \in Nat \ {0}
    /\ at = [doc |-> at.doc, word |-> at.word]
    /\ collected \in SUBSET Terms
    /\ DOMAIN announced = Terms /\ DOMAIN entered = Terms

\* Entries are of documents that have the term, one each, and only collected
\* terms have any.
EntriesOfDocuments ==
    \A t \in Terms :
        /\ \A e \in entered[t] :
             \E m \in Map : m.off = e.off /\ t \in Tokens[m.doc]
        /\ \A e, f \in entered[t] : e.off = f.off => e = f
        /\ t \notin collected => entered[t] = {}

-----------------------------------------------------------------------------
(* What a comment says, and the loops do not keep *)

\* The significancy of a term comes from the current term's reverse frequency.
OwnFrequency ==
    \A t \in Terms : \A e \in entered[t] : e.from = DocumentsWithTerm(Map, t)
=============================================================================
