---------------------------- MODULE MCIrsIndexing ----------------------------
(***************************************************************************)
(* Values for the constants of IrsIndexing: "car" is a substring of        *)
(* "carpet", one document repeats a word, and one is a single word.        *)
(***************************************************************************)
EXTENDS IrsIndexing, TLC

CONSTANTS d1, d2, d3, d4, car, carpet, red, blue

\* d1 "car blue car"   d2 "carpet red"   d3 "red car"   d4 "blue"
MCText == (d1 :> <<car, blue, car>>) @@ (d2 :> <<carpet, red>>)
              @@ (d3 :> <<red, car>>) @@ (d4 :> <<blue>>)
MCTokens == [d \in {d1, d2, d3, d4} |-> Range(MCText[d])]
MCSubstrings == [MCTokens EXCEPT ![d2] = {car, carpet, red}]

MCSpelling == (car :> <<99, 97, 114>>) @@ (carpet :> <<99, 97, 114, 112, 101, 116>>)
                  @@ (red :> <<114, 101, 100>>) @@ (blue :> <<98, 108, 117, 101>>)

\* Where the second and the third are entered, the fourth is taken for one of
\* them: their nodes are "10", "00" and "90".
MCDocOffset == <<0, 1000, 1090, 1190>>

\* Every list of at most three documents, repetitions included, the four in two
\* orders, and one with a word in the last three.
MCLists == UNION {[1 .. n -> {d1, d2, d3, d4}] : n \in 0 .. 3}
               \cup {<<d1, d2, d3, d4>>, <<d4, d3, d2, d1>>,
                    <<d4, d1, d3, d1>>}
=============================================================================
