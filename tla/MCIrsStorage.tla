---------------------------- MODULE MCIrsStorage ----------------------------
(***************************************************************************)
(* Values for the constants of IrsStorage: four documents over four words, *)
(* one of which ("car") is also a substring of another ("carpet"), so that *)
(* the two ways the code counts the documents of a term can disagree.      *)
(***************************************************************************)
EXTENDS IrsStorage, TLC

CONSTANTS d1, d2, d3, d4, car, carpet, red, blue

\* d1 "car"   d2 "carpet red"   d3 "red car"   d4 "blue"
MCTokens == (d1 :> {car}) @@ (d2 :> {carpet, red}) @@ (d3 :> {red, car})
                @@ (d4 :> {blue})
MCSubstrings == [MCTokens EXCEPT ![d2] = {car, carpet, red}]

MCSpelling == (car :> <<99, 97, 114>>) @@ (carpet :> <<99, 97, 114, 112, 101, 116>>)
                  @@ (red :> <<114, 101, 100>>) @@ (blue :> <<98, 108, 117, 101>>)

\* The rest of a document is blanks.  With these sizes the offsets of a batch of
\* d4, d1, d3 and d1 are 0, 1000, 1090 and 1190, and a lookup that finds the
\* second and third finds the fourth.
MCDocSize == (d1 :> 82) @@ (d2 :> 10) @@ (d3 :> 92) @@ (d4 :> 992)
MCTermRank == (blue :> 0) @@ (car :> 1) @@ (carpet :> 2) @@ (red :> 3)

\* No document, one (none of its words is rare), two with a word in common, and
\* three of which one has a word of another as a substring, and four.
MCBatches == {<<>>, <<d1>>, <<d2, d3>>, <<d1, d2, d4>>, <<d4, d1, d3, d1>>}
MCQueries == {<<car>>, <<blue, red>>}
=============================================================================
