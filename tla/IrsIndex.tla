------------------------------ MODULE IrsIndex ------------------------------
(***************************************************************************)
(* What the storage of irs-machine promises as long as each batch is added *)
(* to an empty storage: an inverted index, a map from terms to documents,  *)
(* that answers what is in it and is the same after a stop and a start.    *)
(* IrsStorage implements it with three files and offsets in them.          *)
(***************************************************************************)
EXTENDS Integers, Sequences

CONSTANTS
    Docs,           \* the documents clients may add
    Terms,          \* their words
    Tokens,         \* Tokens[d]: the words of d
    Substrings,     \* Substrings[d]: what is found in d, also inside words
    LongTerms       \* the words a save may leave out once they were loaded

VARIABLES
    kept,           \* the condition of the promise is kept
    intact,         \* no save was interrupted
    stored,         \* the documents
    whole,          \* none of them was lost when they were stored
    index,          \* the documents of each indexed term
    saved,          \* the index the next start loads
    asked,          \* the terms of the last query
    answers         \* what was answered to them, one by one

Empty == [t \in {} |-> {}]
Part(map, ts) == [t \in DOMAIN map \cap ts |-> map[t]]

Init ==
    /\ kept = TRUE /\ intact = TRUE
    /\ stored = {} /\ whole = TRUE /\ index = Empty /\ saved = Empty
    /\ asked = <<>> /\ answers = <<>>

\* The next batch goes to an empty storage and takes the place of documents
\* that are in no index.
AddDocuments ==
    /\ index = Empty /\ saved = Empty
    /\ stored' = {} /\ whole' = TRUE
    /\ UNCHANGED <<intact, index, saved>>

StoreDocument ==
    /\ index = Empty /\ saved = Empty
    /\ \E d \in Docs : stored' = stored \cup {d}
    /\ UNCHANGED <<intact, whole, index, saved>>

\* A write fails, a close does, or the process ends.
LoseDocuments ==
    /\ index = Empty /\ saved = Empty
    /\ stored' \subseteq stored /\ whole' \in BOOLEAN
    /\ UNCHANGED <<intact, index, saved>>

\* Some document that has the term is found by it, unless every document has.
IndexTerm(t) ==
    /\ saved = Empty /\ t \notin DOMAIN index
    /\ DOMAIN index' = DOMAIN index \cup {t}
    /\ Part(index', DOMAIN index) = index
    /\ index'[t] \subseteq {d \in stored : t \in Tokens[d]}
    /\ whole /\ (\E d \in stored : t \notin Substrings[d]) => index'[t] # {}
    /\ UNCHANGED <<intact, stored, whole, saved>>

\* A term stays in the index when the close loses its record.
LoseRecords ==
    /\ saved = Empty
    /\ DOMAIN index' = DOMAIN index
    /\ \A t \in DOMAIN index : index'[t] \in {index[t], {}}
    /\ UNCHANGED <<intact, stored, whole, saved>>

Start ==
    /\ index = Empty /\ index' = saved
    /\ UNCHANGED <<intact, stored, whole, saved>>

Stop ==
    /\ \E ts \in SUBSET LongTerms : saved' = Part(index, Terms \ ts)
    /\ index' = Empty
    /\ UNCHANGED <<intact, stored, whole>>

CrashInSave ==
    /\ ~intact'
    /\ \E ts \in SUBSET Terms : saved' = Part(index, ts)
    /\ index' = Empty
    /\ UNCHANGED <<stored, whole>>

Crash ==
    /\ index' = Empty
    /\ UNCHANGED <<intact, stored, whole, saved>>

\* A term that is not indexed has no answer.  One that is has its documents, if
\* the answer is an answer at all.
AnswersTo(t) ==
    IF t \in DOMAIN index
    THEN {[tag |-> "docs", docs |-> index[t]], [tag |-> "garbled", docs |-> {}]}
    ELSE {[tag |-> "none", docs |-> {}]}

GetDocuments ==
    /\ Len(answers') <= Len(asked')
    /\ \A i \in DOMAIN answers' : answers'[i] \in AnswersTo(asked'[i])
    /\ UNCHANGED <<intact, stored, whole, index, saved>>

Change ==
    \/ AddDocuments \/ StoreDocument \/ LoseDocuments
    \/ \E t \in Terms : IndexTerm(t)
    \/ LoseRecords
    \/ Start \/ Stop \/ CrashInSave \/ Crash

Keep ==
    \/ Change /\ asked' = <<>> /\ answers' = <<>>
    \/ GetDocuments

\* Of a storage that gets a batch while it has documents, nothing is promised.
Spoil == ~kept'

Next == Spoil \/ (kept /\ kept' /\ Keep)

vars == <<kept, intact, stored, whole, index, saved, asked, answers>>

Spec == Init /\ [][Next]_vars
=============================================================================
