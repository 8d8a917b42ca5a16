---------------------------- MODULE IrsDictionary ----------------------------
(***************************************************************************)
(* The dictionary of irs-machine (irs-container/irs-dictionary): a trie    *)
(* whose nodes carry a substring of the keys, their offset, and a list of  *)
(* the values appended under the key that ends there.  The storage keeps   *)
(* its index in such dictionaries, with the terms and the decimal document *)
(* offsets as keys.                                                        *)
(*                                                                         *)
(* Characters are their codes, keys are sequences of them, and the value   *)
(* appended under a key is the key itself, so that a list shows whose      *)
(* values it holds.                                                        *)
(***************************************************************************)
EXTENDS IrsKeys, SequencesExt, FiniteSets

CONSTANTS
    Keys,           \* the keys append is called with
    Probes,         \* the strings get is called with
    MaxAppends      \* bound: calls of irs_dictionary_append

ASSUME KeysAssumption ==
    /\ Keys \subseteq Seq(Chars) \ {<<>>}
    /\ Probes \subseteq Seq(Chars) \ {<<>>}
    /\ MaxAppends \in Nat

\* The table of children has 255 places; the code 127 would be given the
\* place after its end, so a key with it is outside this model.
ASSUME CharsAssumption ==
    \A s \in Keys \cup Probes : 127 \notin Range(s)

VARIABLES
    nodes,          \* nodes[n] for every node allocated, nodes[1] the root
    log             \* history: the keys appended, in order

vars == <<nodes, log>>

-----------------------------------------------------------------------------
(* Nodes and characters *)

Root == 1
NodeIds == DOMAIN nodes

\* _irs_char_to_irs_int, and tolower of the C locale
Slot(c) == (128 + c) % 256

\* The children a node has room for, as the storage and the engine ask for.
Size == 255

From(s, i) == SubSeq(s, i, Len(s))

NoChildren == [slot \in {} |-> 0]
OneChild(slot, n) == [x \in {slot} |-> n]
Link(node, slot, n) ==
    [node EXCEPT !.next = [x \in DOMAIN @ \cup {slot} |->
                              IF x = slot THEN n ELSE @[x]]]

Node(next, offset, data) == [next |-> next, offset |-> offset, data |-> data]

Child(n, c) == nodes[n].next[Slot(c)]
HasChild(n, c) == Slot(c) \in DOMAIN nodes[n].next

\* How many characters of an offset the loop of append matches: case does not
\* matter.
Matched(offset, s) ==
    CHOOSE j \in 0 .. Len(offset) :
        /\ j <= Len(s)
        /\ Folded(SubSeq(offset, 1, j)) = Folded(SubSeq(s, 1, j))
        /\ j < Len(offset) /\ j < Len(s) =>
             ToLower(offset[j + 1]) # ToLower(s[j + 1])

-----------------------------------------------------------------------------
(* irs_dictionary_append *)

\* A round of the descent of append, which has used some characters of the key
\* and is at a node: it goes on to the next node if it can pass that whole.
Place(used, node) == [used |-> used, node |-> node]

Pass(key, at) ==
    LET rest == From(key, at.used + 1)
        next == Child(at.node, Head(rest))
        whole == Len(nodes[next].offset)
    IN IF /\ rest # <<>> /\ HasChild(at.node, Head(rest))
          /\ Matched(nodes[next].offset, rest) = whole
       THEN Place(at.used + whole, next)
       ELSE at

\* Where it ends: each round but the last uses a character at least.
Descent(key) ==
    LET at[round \in 0 .. Len(key)] ==
            IF round = 0 THEN Place(0, Root) ELSE Pass(key, at[round - 1])
    IN at[Len(key)]

Rest(key) == From(key, Descent(key).used + 1)

Init ==
    /\ nodes = <<Node(NoChildren, <<>>, <<>>)>>
    /\ log = <<>>

Log(key) ==
    /\ Len(log) < MaxAppends
    /\ log' = Append(log, key)

\* A value more at a node, and a new leaf for the rest of a key.
WithValue(ns, n, key) == [ns EXCEPT ![n].data = Append(@, key)]

WithLeaf(ns, n, rest, key) ==
    Append([ns EXCEPT ![n] = Link(@, Slot(Head(rest)), Len(ns) + 1)],
           Node(NoChildren, rest, <<key>>))

\* A node between n and the one in its slot, for the first j characters of the
\* offset of that, which moves below and keeps the others.  The variants lose the
\* node that moves, leave it its whole offset, and take one character too many.
NothingBelow(offset, j, moving) == NoChildren
Below(offset, j, moving) == OneChild(Slot(offset[j + 1]), moving)

Untrimmed(offset, j) == offset
TrimmedTooFar(offset, j) == From(offset, j + 2)
Trimmed(offset, j) == From(offset, j + 1)

WithBetween(ns, n, slot, j) ==
    LET moving == ns[n].next[slot]
        offset == ns[moving].offset
    IN Append([ns EXCEPT ![n] = Link(@, slot, Len(ns) + 1),
                         ![moving].offset = Trimmed(offset, j)],
              Node(Below(offset, j, moving), SubSeq(offset, 1, j), <<>>))

\* The key ends at a node that is there.
AppendToNode(key) ==
    /\ Rest(key) = <<>>
    /\ nodes' = WithValue(nodes, Descent(key).node, key)
    /\ Log(key)

\* There is no node for its next character.
AppendLeaf(key) ==
    LET n == Descent(key).node
        rest == Rest(key)
    IN /\ rest # <<>> /\ ~HasChild(n, Head(rest))
       /\ nodes' = WithLeaf(nodes, n, rest, key)
       /\ Log(key)

\* It leaves an offset after j of its characters, and ends at the node between or
\* in a leaf next to the one that moved.
AppendSplit(key) ==
    LET n == Descent(key).node
        rest == Rest(key)
        slot == Slot(Head(rest))
        j == Matched(nodes[nodes[n].next[slot]].offset, rest)
        split == WithBetween(nodes, n, slot, j)
    IN /\ rest # <<>> /\ HasChild(n, Head(rest))
       /\ nodes' = IF j = Len(rest)
                   THEN WithValue(split, Len(split), key)
                   ELSE WithLeaf(split, Len(split), From(rest, j + 1), key)
       /\ Log(key)

Next == \E key \in Keys : AppendToNode(key) \/ AppendLeaf(key) \/ AppendSplit(key)

Spec == Init /\ [][Next]_vars

-----------------------------------------------------------------------------
(* irs_dictionary_get, irs_dictionary_is_in, irs_dictionary_visit_down_nodes *)

\* The nodes a lookup passes are chosen by one character each: what their
\* offsets say is skipped, by as many characters as they are long.
Skip(s, at) ==
    LET next == Child(at.node, s[at.used + 1])
    IN IF at.used < Len(s) /\ HasChild(at.node, s[at.used + 1])
       THEN Place(at.used + Len(nodes[next].offset), next)
       ELSE at

Reached(s) ==
    LET at[round \in 0 .. Len(s)] ==
            IF round = 0 THEN Place(0, Root) ELSE Skip(s, at[round - 1])
    IN at[Len(s)]

\* Only the offset of the last node is compared.  The variant skips this too.
EndsWithoutComparing(s) == Reached(s).used = Len(s)
Ends(s) ==
    LET offset == nodes[Reached(s).node].offset
    IN /\ Reached(s).used = Len(s)
       /\ offset = From(s, Len(s) - Len(offset) + 1)

Get(s) == IF Ends(s) THEN nodes[Reached(s).node].data ELSE <<>>

IsIn(s) == Get(s) # <<>>

\* The nodes in the order the walk calls back: a node, then those below it, from
\* the first slot of the table to the last.
Ascending(slots) ==
    CHOOSE order \in [1 .. Cardinality(slots) -> slots] :
        \A i, j \in DOMAIN order : i < j => order[i] < order[j]

VisitDown ==
    LET below[n \in NodeIds] ==
            LET next == nodes[n].next
                slots == Ascending(DOMAIN next)
            IN FlattenSeq([i \in DOMAIN slots |->
                              <<next[slots[i]]>> \o below[next[slots[i]]]])
    IN below[Root]

-----------------------------------------------------------------------------
(* Properties *)

TypeOK ==
    /\ \A n \in NodeIds :
         /\ DOMAIN nodes[n] = {"next", "offset", "data"}
         /\ DOMAIN nodes[n].next \subseteq 0 .. Size - 1
         /\ Range(nodes[n].next) \subseteq NodeIds \ {Root}
         /\ nodes[n].offset \in Seq(Chars) /\ nodes[n].data \in Seq(Keys)
         /\ n # Root => nodes[n].offset # <<>>
    /\ log \in Seq(Keys)

Appended == Range(log)
Times(key, s) == Cardinality({i \in DOMAIN s : s[i] = key})

\* However appends split the nodes, a walk calls back for every node once and
\* so meets every value as often as it was appended: the storage writes its
\* files, and destroy frees the nodes, by such walks
\* (irs_dictionary_append_to_node, irs_dictionary_visit_down_nodes).
WalkMeetsAll ==
    LET met == FlattenSeq([i \in DOMAIN VisitDown |-> nodes[VisitDown[i]].data])
    IN /\ Len(VisitDown) = Len(nodes) - 1
       /\ Range(VisitDown) = NodeIds \ {Root}
       /\ \A key \in Keys : Times(key, met) = Times(key, log)

OneCase == \A s, t \in Appended : SameCase(s, t)

\* When the keys agree in case and none of them looks like s, a lookup of s
\* gives the values appended under s, all of them, and no others.
\* This is what IrsStorage takes its vocabulary to be like.
LookupExact ==
    OneCase =>
        \A s \in Keys \cup Probes :
            (\A t \in Appended : ~LookAlike(s, t)) =>
                Get(s) = [i \in 1 .. Times(s, log) |-> s]

\* When the keys agree in case, a node has the values of one key, and a key has
\* them at one node, also when keys that split its path came in between: a term
\* has one record in the file a walk writes (irs_dictionary_append_to_node).
TogetherOnce ==
    OneCase =>
        \A n, m \in NodeIds : \A u \in Range(nodes[n].data), v \in Range(nodes[m].data) :
            u = v <=> n = m

\* When the keys agree in case, a lookup takes s for just those keys whose nodes
\* it cannot tell from s by the characters it reads: what is found depends on the
\* other keys, and in no way on the order in which they came and split nodes
\* (irs_dictionary_get_last_node_from_node).  Other strings are found than those
\* appended, against irs_dictionary.h:72.
LookupLaw ==
    OneCase =>
        \A s \in Keys \cup Probes :
            /\ IsIn(s) <=> IsHit(s, Appended)
            /\ \A v \in Range(Get(s)) : Hits(s, v, Appended)

\* For any keys: what a lookup of s finds was appended under keys that have the
\* length, the first character and, but for case, the last character of s, and
\* under nothing but one key in all its cases.
LookupPlausible ==
    \A s \in Keys \cup Probes : \A v \in Range(Get(s)) :
        /\ Len(v) = Len(s) /\ Head(v) = Head(s)
        /\ ToLower(v[Len(v)]) = ToLower(s[Len(s)])
        /\ \A u \in Range(Get(s)) : Folded(u) = Folded(v)
=============================================================================
