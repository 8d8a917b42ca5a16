----------------------------- MODULE IrsSequence -----------------------------
(***************************************************************************)
(* What a list of irs-machine and an iterator over it promise: a sequence, *)
(* in which elements get in anywhere, and a place in it that stays with    *)
(* its element.  IrsList implements it with nodes and pointers.            *)
(***************************************************************************)
EXTENDS Integers, Sequences, SequencesExt

CONSTANTS
    Data,           \* the values of elements
    Cleared         \* what a value becomes when the list is cleared

VARIABLES
    seq,            \* the elements
    start,          \* where the iterator starts, 0 if it has nothing to iterate
    at,             \* where it is, 0 before its start, Len(seq) + 1 at the end
    more            \* what its last move answered, FALSE if it did not move yet

\* A place in the sequence after an element got in at i.
Moved(place, i) == IF place >= i THEN place + 1 ELSE place

Init == seq = <<>> /\ start = 0 /\ at = 0 /\ more = FALSE

Insert(i, d) ==
    /\ seq' = InsertAt(seq, i, d)
    /\ start' = Moved(start, i) /\ at' = Moved(at, i)
    /\ UNCHANGED more

Clear ==
    /\ seq' = [i \in DOMAIN seq |-> Cleared]
    /\ UNCHANGED <<start, at, more>>

Destroy == seq' = <<>> /\ start' = 0 /\ at' = 0 /\ more' = FALSE

\* Forwards from the first element, or backwards from behind the last.
Iterate(from) ==
    /\ start' = IF seq = <<>> THEN 0 ELSE from
    /\ at' = 0 /\ more' = FALSE
    /\ UNCHANGED seq

Answer(to, answer) == at' = to /\ more' = answer /\ UNCHANGED <<seq, start>>

\* The answer says whether there is an element where the iterator is now.
Forward ==
    /\ start # 0 /\ at # Len(seq) + 1
    /\ LET to == IF at = 0 THEN start ELSE at + 1
       IN Answer(to, to \in DOMAIN seq)

\* One step beyond the end an iterator is where it was before its start.  Nothing
\* is promised of the answer.
PastEnd ==
    /\ start # 0 /\ at = Len(seq) + 1
    /\ at' = 0 /\ more' \in BOOLEAN
    /\ UNCHANGED <<seq, start>>

Backward ==
    /\ start # 0
    /\ LET to == IF at = 0 THEN Len(seq) ELSE at - 1
       IN Answer(to, to \in DOMAIN seq)

Nothing == start = 0 /\ Answer(0, FALSE)

Reset == at' = 0 /\ more' = FALSE /\ UNCHANGED <<seq, start>>

Next ==
    \/ \E i \in 1 .. Len(seq) + 1, d \in Data : Insert(i, d)
    \/ Clear \/ Destroy
    \/ Iterate(1) \/ Iterate(Len(seq) + 1)
    \/ Forward \/ PastEnd \/ Backward \/ Nothing \/ Reset

Spec == Init /\ [][Next]_<<seq, start, at, more>>
=============================================================================
