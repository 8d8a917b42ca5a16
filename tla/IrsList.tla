------------------------------- MODULE IrsList -------------------------------
(***************************************************************************)
(* The list of irs-machine (irs-container/irs-list) and its iterator, node *)
(* by node.  Nodes are numbers, in the order in which they were allocated, *)
(* and 0 is the null pointer.  The end of a list is a node of its own,     *)
(* allocated with the first element.                                       *)
(*                                                                         *)
(* The operations are those the program calls: pop_back and remove_if have *)
(* no caller.                                                              *)
(***************************************************************************)
EXTENDS Integers, Sequences, SequencesExt, FiniteSets

CONSTANTS
    Data,           \* what elements point to
    Cleared,        \* the data pointer after irs_list_clear, and of an end
    MaxNodes        \* bound: nodes allocated

ASSUME DataAssumption == Cleared \notin Data
ASSUME BoundAssumption == MaxNodes \in Nat

Null == 0

VARIABLES
    nodes,          \* nodes[n] for every node allocated
    freed,          \* those that were freed
    list,           \* begin, end and size
    alive,          \* the list was not destroyed
    it,             \* the iterator: begin, end and current
    more            \* what its last move returned, FALSE if it did not move yet

vars == <<nodes, freed, list, alive, it, more>>
iteration == <<it, more>>

Node(next, prev, data) == [next |-> next, prev |-> prev, data |-> data]
New == Len(nodes) + 1

\* The nodes met from n on, until the null pointer or a node to stop at.
Along(to, n, stop) ==
    LET path[m \in {Null} \cup DOMAIN to] ==
            IF m \in {Null, stop} THEN <<>> ELSE <<m>> \o path[to[m]]
    IN path[n]

NextOf == [n \in DOMAIN nodes |-> nodes[n].next]
PrevOf == [n \in DOMAIN nodes |-> nodes[n].prev]

Chain == Along(NextOf, list.begin, Null)
FromBegin == Along(NextOf, list.begin, list.end)
FromEnd ==
    IF list.end = Null THEN <<>>
    ELSE Along(PrevOf, nodes[list.end].prev, Null)
Elements == Range(FromBegin)

Init ==
    /\ nodes = <<>> /\ freed = {}
    /\ list = [begin |-> Null, end |-> Null, size |-> 0]
    /\ alive = TRUE
    /\ it = [begin |-> Null, end |-> Null, current |-> Null] /\ more = FALSE

-----------------------------------------------------------------------------
(* irs_list_push, irs_list_push_back, irs_list_push_front *)

\* The end an empty list gets with its first element, if it has none yet.  The
\* variant does not allocate it.
EndNotAllocated == list.end
EndOfFirst == IF list.end = Null THEN New + 1 ELSE list.end

PushFirst(d) ==
    LET end == EndOfFirst
        first == Node(end, Null, d)
        last == Node(Null, New, Cleared)
    IN /\ nodes' = IF end = New + 1
                   THEN nodes \o <<first, last>>
                   ELSE Append([nodes EXCEPT ![end] = last], first)
       /\ list' = [begin |-> New, end |-> end, size |-> 1]

\* The node after the new one points back to it.  The variant forgets this.
OneWay(ns, n) == ns
BothWays(ns, n) == [ns EXCEPT ![nodes[n].next].prev = New]

PushAfter(n, d) ==
    /\ nodes' = Append([BothWays(nodes, n) EXCEPT ![n].next = New],
                       Node(nodes[n].next, n, d))
    /\ list' = [list EXCEPT !.size = @ + 1]

\* When the new node is the first, the list begins with it.  The variant lets it
\* begin where it did.
SameBegin(n) == list.begin
BeginBefore(n) == IF nodes[n].prev = Null THEN New ELSE list.begin

PushBefore(n, d) ==
    LET before == nodes[n].prev
    IN /\ nodes' = Append([m \in DOMAIN nodes |->
                              CASE m = n      -> [nodes[m] EXCEPT !.prev = New]
                                [] m = before -> [nodes[m] EXCEPT !.next = New]
                                [] OTHER      -> nodes[m]],
                          Node(n, before, d))
       /\ list' = [list EXCEPT !.begin = BeginBefore(n),
                               !.size = @ + 1]

Push(d) ==
    \/ FromEnd = <<>> /\ PushFirst(d)
    \/ FromEnd # <<>> /\ PushAfter(nodes[list.end].prev, d)

PushBack(d) ==
    /\ alive /\ Len(nodes) + 2 <= MaxNodes
    /\ Push(d)
    /\ UNCHANGED <<freed, alive, iteration>>

\* The program pushes before the element another iterator is at.
PushFront(n, d) ==
    /\ alive /\ Len(nodes) < MaxNodes
    /\ PushBefore(n, d)
    /\ UNCHANGED <<freed, alive, iteration>>

-----------------------------------------------------------------------------
(* irs_list_clear, irs_list_destroy *)

Clear ==
    /\ alive
    /\ nodes' = [n \in DOMAIN nodes |-> IF n \in Range(Chain)
                                        THEN [nodes[n] EXCEPT !.data = Cleared]
                                        ELSE nodes[n]]
    /\ UNCHANGED <<freed, list, alive, iteration>>

\* The variant stops at the end without freeing it.
ElementsOnly == Range(FromBegin)
WholeChain == Range(Chain)

Destroy ==
    /\ alive
    /\ alive' = FALSE
    /\ freed' = freed \cup WholeChain
    /\ it' = [begin |-> Null, end |-> Null, current |-> Null] /\ more' = FALSE
    /\ UNCHANGED <<nodes, list>>

-----------------------------------------------------------------------------
(* The iterator *)

Iterate(begin) ==
    /\ alive
    /\ it' = [begin |-> begin, end |-> list.end, current |-> Null]
    /\ more' = FALSE
    /\ UNCHANGED <<nodes, freed, list, alive>>

Iterator == Iterate(list.begin)
ReverseIterator == Iterate(list.end)

Move(to, answer) ==
    /\ it' = [it EXCEPT !.current = to] /\ more' = answer
    /\ UNCHANGED <<nodes, freed, list, alive>>

IteratorNext ==
    /\ alive
    /\ IF it.begin = Null THEN Move(it.current, FALSE)
       ELSE LET to == IF it.current = Null THEN it.begin
                      ELSE nodes[it.current].next
            IN Move(to, to # it.end)

IteratorPrev ==
    /\ alive
    /\ IF it.end = Null THEN Move(it.current, FALSE)
       ELSE LET to == IF it.current = Null THEN nodes[it.end].prev
                      ELSE nodes[it.current].prev
            IN Move(to, to # Null)

IteratorReset == alive /\ Move(Null, FALSE)

Next ==
    \/ \E d \in Data : PushBack(d) \/ \E n \in Elements : PushFront(n, d)
    \/ Clear \/ Destroy
    \/ Iterator \/ ReverseIterator
    \/ IteratorNext \/ IteratorPrev \/ IteratorReset

Spec == Init /\ [][Next]_vars

-----------------------------------------------------------------------------
(* Properties *)

TypeOK ==
    /\ \A n \in DOMAIN nodes :
         /\ nodes[n].next \in 0 .. Len(nodes) /\ nodes[n].prev \in 0 .. Len(nodes)
         /\ nodes[n].data \in Data \cup {Cleared}
    /\ freed \subseteq DOMAIN nodes
    /\ list.begin \in 0 .. Len(nodes) /\ list.end \in 0 .. Len(nodes)
    /\ list.end = Null <=> list.begin = Null
    /\ list.size \in 0 .. Len(nodes)
    /\ alive \in BOOLEAN /\ more \in BOOLEAN
    /\ {it.begin, it.end, it.current} \subseteq 0 .. Len(nodes)

\* Wherever elements get in, the list reads the same forwards from begin and
\* backwards from its end, and size is the number of its elements
\* (irs_list_push, irs_list_push_front).
LinksAgree == FromBegin = Reverse(FromEnd) /\ list.size = Len(FromEnd)

\* A list that is destroyed frees its nodes, all of them, none twice
\* (irs_list_destroy).
DestroyFreesAll ==
    /\ ~alive => freed = DOMAIN nodes
    /\ Cardinality(Range(Chain)) = Len(Chain)

\* List and iterator are the sequence and the place IrsSequence promises: an
\* iterator stays with its element whatever gets in before or after it, and
\* answers whether there is a next or previous element, unless it is moved on
\* from the end of the list (irs_list.h, irs_iterator.h).
PlaceOf(n) ==
    IF n = Null THEN 0
    ELSE IF n = list.end THEN Len(FromBegin) + 1
    ELSE IF n \in Elements THEN CHOOSE i \in DOMAIN FromBegin : FromBegin[i] = n
    ELSE -1
IteratorStart == PlaceOf(it.begin)
IteratorPlace == PlaceOf(it.current)
Contents ==
    IF alive THEN [i \in DOMAIN FromBegin |-> nodes[FromBegin[i]].data] ELSE <<>>

Sequence == INSTANCE IrsSequence WITH
    seq <- Contents, start <- IteratorStart, at <- IteratorPlace

IsSequence == Sequence!Spec

-----------------------------------------------------------------------------
(* What a comment says, and next does not keep *)

\* An iterator that answers TRUE is at an element (irs_iterator_next,
\* irs_iterator_prev; irs_iterator.h:30).
MoreMeansElement == more => it.current \in Elements
=============================================================================
