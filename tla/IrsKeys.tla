------------------------------- MODULE IrsKeys -------------------------------
(***************************************************************************)
(* Strings as irs_dictionary compares them, without its nodes: which key a *)
(* lookup takes a string for, when these keys and no others are in the     *)
(* dictionary.  IrsDictionary shows that lookups in its nodes find just    *)
(* that (LookupLaw); IrsBatch and IrsIndexing look document offsets up by  *)
(* it, and name by it the vocabularies that lookups keep apart.            *)
(*                                                                         *)
(* Characters are their codes, strings are sequences of them.              *)
(***************************************************************************)
EXTENDS Integers, Sequences

Chars == 1 .. 255

\* tolower of the C locale
ToLower(c) == IF c \in 65 .. 90 THEN c + 32 ELSE c

Folded(s) == [i \in DOMAIN s |-> ToLower(s[i])]

\* Two keys spell their common beginning, whatever its case, in the same case.
SameCase(s, t) ==
    \A i \in 0 .. Len(s) :
        i <= Len(t) /\ Folded(SubSeq(s, 1, i)) = Folded(SubSeq(t, 1, i)) =>
            SubSeq(s, 1, i) = SubSeq(t, 1, i)

\* Different strings of the same length with the same first and last character:
\* the least that get has to find alike to take one for the other.
LookAlike(s, t) ==
    /\ s # t /\ Len(s) = Len(t)
    /\ Head(s) = Head(t) /\ s[Len(s)] = t[Len(t)]

\* Where the nodes of key t begin: at its first character, and where another key
\* ends or goes on with another character.  A lookup chooses the next node by
\* that character, and skips the others of a node.
ReadAt(t, keys) ==
    {i \in DOMAIN t :
        \/ i = 1
        \/ \E u \in keys :
             /\ Len(u) >= i - 1 /\ SubSeq(u, 1, i - 1) = SubSeq(t, 1, i - 1)
             /\ Len(u) = i - 1 \/ u[i] # t[i]}

\* A lookup of s ends at the node of t: s is as long, has the characters that
\* choose the nodes of t, and those of the last of them, which is compared.
Hits(s, t, keys) ==
    /\ Len(s) = Len(t)
    /\ \A i \in ReadAt(t, keys) : s[i] = t[i]
    /\ \A i \in DOMAIN t : (\A j \in ReadAt(t, keys) : j <= i) => s[i] = t[i]

IsHit(s, keys) == \E t \in keys : Hits(s, t, keys)

\* irs_int_to_str_int: the decimal digits of a number, here as their values.
decimal[n \in Nat] ==
    IF n < 10 THEN <<n>> ELSE Append(decimal[n \div 10], n % 10)
=============================================================================
