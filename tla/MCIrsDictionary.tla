--------------------------- MODULE MCIrsDictionary ---------------------------
(***************************************************************************)
(* Keys for IrsDictionary: words with common beginnings, one a prefix of   *)
(* others, one that differs from another only in case, and a word nobody   *)
(* appends that looks like some of them.                                   *)
(***************************************************************************)
EXTENDS IrsDictionary

a == 97
c == 99
r == 114
t == 116
x == 120
bigA == 65

cat == <<c, a, t>>
MCKeys == {cat, <<c, bigA, t>>, <<c, a, r>>, <<c, a>>, <<c, a, r, t>>, <<a, t>>, <<c>>}
MCProbes == {<<c, x, t>>, <<c, a, x>>, <<c, a, r, x>>, <<c, c>>, <<x, a, t>>}
=============================================================================
