------------------------------- MODULE IrsBatch -------------------------------
(***************************************************************************)
(* What the storage makes of one batch of documents: which documents its   *)
(* index may name for a term, and how many of them it announces.  A map is *)
(* the document_offset_map of the batch, a set of documents with offsets.  *)
(*                                                                         *)
(* IrsStorage takes the index of a batch in one step from IndexesOf, and   *)
(* IrsIndexing shows that the loops of the code build such an index.       *)
(***************************************************************************)
EXTENDS IrsKeys, FiniteSets

CONSTANTS
    Docs,           \* the documents clients may add
    Terms,          \* the words of these documents, and words of queries
    Spelling,       \* Spelling[t]: the characters of t
    Tokens,         \* Tokens[d]: the words strtok finds in d
    Substrings      \* Substrings[d]: the terms strstr finds in d

\* Every word of a document is a substring of it.
ASSUME DocsAssumption ==
    /\ Tokens \in [Docs -> SUBSET Terms]
    /\ Substrings \in [Docs -> SUBSET Terms]
    /\ \A d \in Docs : Tokens[d] \subseteq Substrings[d]

\* The dictionaries of a batch keep its terms apart: IrsDictionary's LookupExact
\* and TogetherOnce are about such vocabularies.  Of others, a lookup may take a
\* term for another one or miss it.
ASSUME VocabularyAssumption ==
    /\ Spelling \in [Terms -> Seq(Chars) \ {<<>>}]
    /\ \A t, u \in Terms :
         /\ SameCase(Spelling[t], Spelling[u])
         /\ t # u => /\ Spelling[t] # Spelling[u]
                     /\ ~LookAlike(Spelling[t], Spelling[u])

WordsOf(map) == UNION {Tokens[m.doc] : m \in map}

DocumentsWithToken(map, t) == {m \in map : t \in Tokens[m.doc]}

\* _irs_storage_get_documents_with_term: documents with t as a substring.
DocumentsWithTerm(map, t) == Cardinality({m \in map : t \in Substrings[m.doc]})

\* log(documents / documents with t) is positive.
IsRare(map, t) == DocumentsWithTerm(map, t) < Cardinality(map)

\* A document gets an entry for t if t's significancy in it is positive.  The
\* reverse frequency is t's own where the word is first met; after that it is
\* read back through a pointer to a local variable of an earlier round, so it is
\* that of some word of the batch, also where the first document has the word
\* again.  A document is passed over, too, if the lookup of its offset takes it
\* for one of those entered before.  The variant takes the documents strstr found
\* for the documents of the term.
PassedOver(offs, p) == IsHit(decimal[p], {decimal[q] : q \in {x \in offs : x < p}})

EntriesBySubstring(map, t) ==
    {{m.off : m \in {x \in map : t \in Substrings[x.doc]}}}
EntriesOf(map, t) ==
    LET places == {m.off : m \in DocumentsWithToken(map, t)}
        first(p) == \A q \in places : p <= q
    IN {es \in SUBSET places :
            /\ IsRare(map, t) => \A p \in places : first(p) => p \in es
            /\ es # {} => \E u \in WordsOf(map) : IsRare(map, u)
            /\ \A p \in es : ~PassedOver(es, p)
            /\ (\A u \in WordsOf(map) : IsRare(map, u)) =>
                 \A p \in places \ es : PassedOver(es, p)}

NoEntry == [count |-> 0, entries |-> {}]

\* The indexes the batch may get.
IndexesOf(map) ==
    {[t \in Terms |-> IF t \in WordsOf(map)
                      THEN [count   |-> DocumentsWithTerm(map, t),
                            entries |-> es[t]]
                      ELSE NoEntry] :
        es \in {f \in [WordsOf(map) -> UNION {EntriesOf(map, t) :
                                                t \in WordsOf(map)}] :
                    \A t \in WordsOf(map) : f[t] \in EntriesOf(map, t)}}
=============================================================================
