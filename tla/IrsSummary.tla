----------------------------- MODULE IrsSummary -----------------------------
(***************************************************************************)
(* How the engine of irs-machine (irs-memory/irs-engine) summarises a      *)
(* document: it scores the sentences by their place in the document and in *)
(* their paragraph, sorts them with two iterators over two lists, and      *)
(* picks the best.                                                         *)
(*                                                                         *)
(* A document is a sequence of texts, each followed by one delimiter.  A   *)
(* sentence is known by its number, from 1: the code counts from 0.        *)
(***************************************************************************)
EXTENDS Integers, Sequences, FiniteSets

CONSTANTS
    Texts,              \* what sentences say; none is a part of another
    Length,             \* strlen of a text
    Breaks,             \* where a text has line breaks, from 0
    Documents,          \* the documents a client may send
    MAX_SENT_NUMBER     \* how many sentences are picked, 10 in the code

ASSUME TextsAssumption ==
    /\ Length \in [Texts -> Nat \ {0}]
    /\ Breaks \in [Texts -> SUBSET Nat]
    /\ \A t \in Texts : \A b \in Breaks[t] : b < Length[t]

ASSUME DocumentsAssumption == Documents \subseteq Seq(Texts)
ASSUME MaxAssumption == MAX_SENT_NUMBER \in Nat \ {0}

VARIABLES
    pc,             \* what the call does next
    sentences,      \* the sentences of the document
    scores,         \* sents_scores
    it,             \* sent_score_it: a place in scores, Len + 1 at the end
    sorted,         \* sorted_sents_scores: numbers of sentences
    other,          \* other_score_sent_it: a place in sorted
    rank,           \* i: how many sentences were picked
    summar,         \* the slots of summar that are set
    overran,        \* something was written behind the last slot
    summary         \* summar_sents: numbers of sentences

vars == <<pc, sentences, scores, it, sorted, other, rank, summar, overran,
          summary>>

Init ==
    /\ pc = "idle" /\ sentences = <<>> /\ scores = <<>> /\ it = 0
    /\ sorted = <<>> /\ other = 0
    /\ rank = 0 /\ summar = {} /\ overran = FALSE /\ summary = <<>>

-----------------------------------------------------------------------------
(* The score of a sentence *)

\* Where sentence i starts.  Offset(d, Len(d) + 1) is the size of d.
Offset(d, i) ==
    LET after[n \in 0 .. Len(d)] ==
          IF n = 0 THEN 0 ELSE after[n - 1] + Length[d[n]] + 1
    IN after[i - 1]

LineBreaks(d) == UNION {{Offset(d, i) + b : b \in Breaks[d[i]]} : i \in DOMAIN d}

Largest(S) == CHOOSE m \in S : \A n \in S : n <= m
Smallest(S) == CHOOSE m \in S : \A n \in S : m <= n

\* strstr: the first occurrence of what sentence i says.
Position(d, i) == Offset(d, Smallest({j \in DOMAIN d : d[j] = d[i]}))

\* _irs_storage_define_document_part_with_sentence: from the last line break
\* before the position, or on it, to the first after it, both included.
PartStart(d, at) == Largest({0} \cup {b \in LineBreaks(d) : b <= at})
PartEnd(d, at) ==
    LET after == {b \in LineBreaks(d) : b > at}
    IN IF after = {} THEN Offset(d, Len(d) + 1) ELSE Smallest(after) + 1

\* A sentence with a line break inside is not found in its part: the position
\* of a null pointer is subtracted, and a float far below zero becomes an
\* unsigned integer, which is 0 or beyond all scores.
SCALE == 10000
Undefined == {0, SCALE + 1}

\* The scores _irs_define_sentence_score may give sentence i: the parts of the
\* document and of the paragraph that come after its first character.
ScoresOf(d, i) ==
    LET at    == Position(d, i)
        size  == Offset(d, Len(d) + 1)
        start == PartStart(d, at)
        part  == PartEnd(d, at) - start
    IN IF at + Length[d[i]] <= PartEnd(d, at)
       THEN {((size - at - 1) * (part - (at - start) - 1) * SCALE)
               \div (size * part)}
       ELSE Undefined

\* A score is an irs_uint64.
ASSUME ScoresAssumption ==
    \A d \in Documents : \A i \in DOMAIN d : ScoresOf(d, i) \subseteq Nat

-----------------------------------------------------------------------------
(* irs_engine_get_documents_summarizations: one document of the list *)

\* The document is cut into sentences, and these are scored.
Take(d) ==
    /\ pc = "idle"
    /\ pc' = "first"
    /\ sentences' = d
    /\ \E s \in [DOMAIN d -> UNION {ScoresOf(d, i) : i \in DOMAIN d}] :
         /\ \A i \in DOMAIN d : s[i] \in ScoresOf(d, i)
         /\ scores' = s
    /\ UNCHANGED <<it, sorted, other, rank, summar, overran, summary>>

\* The first sentence starts the sorted list.  An empty list has no node to
\* start an iterator at.
SortFirst ==
    /\ pc = "first"
    /\ pc' = "next"
    /\ IF scores = <<>> THEN UNCHANGED <<it, sorted>>
                        ELSE it' = 1 /\ sorted' = <<1>>
    /\ UNCHANGED <<sentences, scores, other, rank, summar, overran, summary>>

\* The outer loop ends at the end of the list, or one step behind it, where the
\* iterator says that there is more but is at no node.
SortNext ==
    /\ pc = "next"
    /\ it < Len(scores)
    /\ pc' = "compare"
    /\ it' = it + 1
    /\ other' = 0
    /\ UNCHANGED <<sentences, scores, sorted, rank, summar, overran, summary>>

SortEnds ==
    /\ pc = "next"
    /\ it >= Len(scores)
    /\ pc' = "pick"
    /\ other' = Len(sorted) + 1
    /\ UNCHANGED <<sentences, scores, it, sorted, rank, summar, overran,
                   summary>>

\* irs_list_push_front: the new node comes before the node an iterator is at.
\* The variant puts it behind.
PushedBehind(s, place, i) ==
    SubSeq(s, 1, place) \o <<i>> \o SubSeq(s, place + 1, Len(s))
PushedFront(s, place, i) ==
    SubSeq(s, 1, place - 1) \o <<i>> \o SubSeq(s, place, Len(s))

\* The variant passes sentences of the same score.
IsBelow(i, j) == scores[i] < scores[j]
IsNotAbove(i, j) == scores[i] <= scores[j]

\* One round of the inner loop: the sentence is not above the one at other.
Insert ==
    /\ pc = "compare"
    /\ other < Len(sorted)
    /\ IsNotAbove(it, sorted[other + 1])
    /\ pc' = "next"
    /\ sorted' = PushedFront(sorted, other + 1, it)
    /\ UNCHANGED <<sentences, scores, it, other, rank, summar, overran, summary>>

\* It is above, and the outer iterator has nothing after it: it is appended,
\* whatever comes after the one at other, and the iterator stays at the end.
AppendLast ==
    /\ pc = "compare"
    /\ other < Len(sorted)
    /\ ~IsNotAbove(it, sorted[other + 1])
    /\ it = Len(scores)
    /\ pc' = "next"
    /\ sorted' = Append(sorted, it)
    /\ it' = it + 1
    /\ UNCHANGED <<sentences, scores, other, rank, summar, overran, summary>>

\* It is above, and the outer iterator goes on and back.
Pass ==
    /\ pc = "compare"
    /\ other < Len(sorted)
    /\ ~IsNotAbove(it, sorted[other + 1])
    /\ it < Len(scores)
    /\ other' = other + 1
    /\ UNCHANGED <<pc, sentences, scores, it, sorted, rank, summar, overran,
                   summary>>

\* It is above all sorted sentences, and the inner loop has nothing for this.
Drop ==
    /\ pc = "compare"
    /\ other = Len(sorted)
    /\ pc' = "next"
    /\ UNCHANGED <<sentences, scores, it, sorted, other, rank, summar, overran,
                   summary>>

\* _irs_get_document_summarization, backwards from the best sentence.  The
\* sentence before the one that was picked is copied to the slot of its own
\* number; the first has none.  The variant copies the sentence itself.
SentenceItself(i) == i
SentenceCopied(i) == i - 1

\* The variant picks one too many.
OneTooMany == rank <= MAX_SENT_NUMBER
MayPick == rank < MAX_SENT_NUMBER

\* There is a slot for each sorted sentence.  The variants have one for each that
\* may be picked, and one for each sentence, the last of which nobody reads.
SlotsForPicks == MAX_SENT_NUMBER
SlotsForSentences == Len(sentences)
Slots == Len(sorted)

Pick ==
    /\ pc = "pick"
    /\ other > 1 /\ MayPick
    /\ other' = other - 1
    /\ rank' = rank + 1
    /\ LET i == SentenceCopied(sorted[other - 1])
       IN IF i \notin DOMAIN sentences THEN UNCHANGED <<summar, overran>>
          ELSE IF i <= Slots
               THEN summar' = summar \cup {i} /\ UNCHANGED overran
               ELSE overran' = TRUE /\ UNCHANGED summar
    /\ UNCHANGED <<pc, sentences, scores, it, sorted, summary>>

\* The loop over all slots, of which it meets those that are set.
SetSlots ==
    LET met[n \in 0 .. Len(sorted)] ==
          IF n = 0 THEN <<>>
          ELSE IF n \in summar THEN Append(met[n - 1], n) ELSE met[n - 1]
    IN met[Len(sorted)]

\* What is in the slots becomes the summary, in the order of the document.
Collect ==
    /\ pc = "pick"
    /\ ~(other > 1 /\ MayPick)
    /\ pc' = "collected"
    /\ summary' = SetSlots
    /\ UNCHANGED <<sentences, scores, it, sorted, other, rank, summar, overran>>

\* The lists of the call are destroyed, and the next document may come.
Clear ==
    /\ pc' = "idle"
    /\ sentences' = <<>> /\ scores' = <<>> /\ it' = 0
    /\ sorted' = <<>> /\ other' = 0
    /\ rank' = 0 /\ summar' = {} /\ overran' = FALSE /\ summary' = <<>>

Return == pc = "collected" /\ Clear

\* A write behind the slots may also end the process, which starts again.
Corrupted == pc = "pick" /\ overran /\ Clear

Next ==
    \/ \E d \in Documents : Take(d)
    \/ SortFirst \/ SortNext \/ SortEnds
    \/ Insert \/ AppendLast \/ Pass \/ Drop
    \/ Pick \/ Collect \/ Return \/ Corrupted

Spec == Init /\ [][Next]_vars

-----------------------------------------------------------------------------
(* Properties *)

Sentences == DOMAIN sentences
LastOne == Len(sentences)
SortDone == pc \in {"pick", "collected"}

TypeOK ==
    /\ pc \in {"idle", "first", "next", "compare", "pick", "collected"}
    /\ sentences \in Seq(Texts)
    /\ scores \in Seq(Nat) /\ Len(scores) = Len(sentences)
    /\ it \in 0 .. Len(scores) + 1
    /\ sorted \in Seq(Sentences)
    /\ other \in 0 .. Len(sorted) + 1
    /\ rank \in 0 .. Len(sorted)
    /\ summar \subseteq DOMAIN sorted
    /\ overran \in BOOLEAN
    /\ summary \in Seq(DOMAIN sorted)

\* Which sentences the sort keeps, once each: the first, the last, and those
\* that are not above the first.  It loses exactly the better ones in between
\* (_irs_sort_doc_sentences_by_score).
SortKeeps ==
    SortDone =>
      /\ Len(sorted) = Cardinality({sorted[k] : k \in DOMAIN sorted})
      /\ {sorted[k] : k \in DOMAIN sorted}
           = {i \in Sentences : i \in {1, LastOne} \/ scores[i] <= scores[1]}

\* What it keeps is in ascending order, of sentences with the same score the
\* later one first, except that the last sentence of the document goes to the
\* end as soon as it is above a single other
\* (_irs_sort_doc_sentences_by_score).
Ascending(i, j) == scores[i] < scores[j] \/ (scores[i] = scores[j] /\ i > j)

SortedUpToLast ==
    SortDone =>
      \A k, l \in DOMAIN sorted :
        k < l => \/ Ascending(sorted[k], sorted[l])
                 \/ l = Len(sorted) /\ sorted[l] = LastOne

\* If the sort loses nothing, the summary is written where there is room for it
\* (_irs_get_document_summarization).
InArray == overran => \E i \in Sentences : \A k \in DOMAIN sorted : sorted[k] # i

\* No summary has the last sentence of its document, or more sentences than
\* asked for; it has them in the order of the document, once each
\* (_irs_get_document_summarization).
SummaryShape ==
    /\ Len(summary) <= MAX_SENT_NUMBER
    /\ \A k \in DOMAIN summary : summary[k] # LastOne
    /\ \A k, l \in DOMAIN summary : k < l => summary[k] < summary[l]

\* A document of one paragraph, whose sentences are all different, has its first
\* sentences for a summary, one less than are picked
\* (irs_engine_get_documents_summarizations).
IsPlain(d) ==
    /\ LineBreaks(d) = {}
    /\ \A i, j \in DOMAIN d : d[i] = d[j] => i = j

PlainSummary ==
    IsPlain(sentences) /\ sentences # <<>> /\ pc = "collected" =>
        Len(summary) = Smallest({LastOne, MAX_SENT_NUMBER}) - 1
          /\ \A k \in DOMAIN summary : summary[k] = k
=============================================================================
