---------------------------- MODULE MCIrsSummary ----------------------------
(***************************************************************************)
(* Values for the constants of IrsSummary: a short and a long sentence,    *)
(* one that starts a paragraph, one with a line break inside, and more     *)
(* that make documents of different sentences.                             *)
(***************************************************************************)
EXTENDS IrsSummary, TLC, SequencesExt

CONSTANTS yes, no, title, para, wrapped, MaxSentences

MCLength == (yes :> 3) @@ (no :> 2) @@ (title :> 2) @@ (para :> 9)
              @@ (wrapped :> 6)
MCBreaks == (yes :> {}) @@ (no :> {}) @@ (title :> {}) @@ (para :> {0})
              @@ (wrapped :> {3})

MCDocuments == BoundedSeq(Texts, MaxSentences)
=============================================================================
