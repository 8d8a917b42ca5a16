--------------------------- MODULE MCIrsLanguages ---------------------------
(***************************************************************************)
(* Values for the constants of IrsLanguages: two languages with a word in  *)
(* common, alphabets of two languages and of three, a token that looks     *)
(* like a word, and one that is too long.  The letters of French start     *)
(* with one byte of two; "l" is what "le" becomes where the file ends.     *)
(* American has "Us" after "USA": a lookup of "Us" does not find it, and   *)
(* one of "US" does.                                                       *)
(***************************************************************************)
EXTENDS IrsLanguages, TLC

CONSTANTS English, French, American, the, le, l, on, tie, USA, Us, US, longWord,
          ea, ga, d1, d2, d3, d4

MCSize == [w \in Words |-> IF w = longWord THEN MAX_LENGTH + 1 ELSE 2]
MCShorter == [w \in Words |-> IF w = le THEN l ELSE w]
MCAlike == {<<tie, the>>, <<US, Us>>, <<Us, US>>}
MCOtherCase == {<<u, v>> \in {USA, Us, US} \X {USA, Us, US} : Us \in {u, v} /\ u # v}
MCFirstByte ==
    (English :> "E") @@ (French :> "F") @@ (American :> "A") @@ (the :> "t")
      @@ (le :> "l") @@ (USA :> "U") @@ (Us :> "U") @@ (US :> "U")
      @@ (l :> "l") @@ (on :> "o") @@ (tie :> "t") @@ (longWord :> "w")
      @@ (ea :> "accent") @@ (ga :> "accent")

File(lines) == [lines |-> lines, ended |-> TRUE]
enWords == File(<<English, the, on, longWord>>)
frWords == File(<<French, on, le>>)
frCut   == [lines |-> <<French, on, le>>, ended |-> FALSE]
usWords == File(<<American, USA, Us>>)
enAlpha == File(<<English, the, on>>)
frAlpha == File(<<French, ea, ga, le>>)
itAlpha == File(<<tie, ga>>)
noLines == File(<<>>)

MCFiles == {enWords, frWords, frCut, usWords, enAlpha, frAlpha, itAlpha, noLines}

Holding(files) == [exists |-> TRUE, files |-> files]
Missing == [exists |-> FALSE, files |-> {}]
Disk(words, letters) == ("langs" :> words) @@ ("alpha" :> letters)

MCDisks ==
    {Disk(Missing, Missing), Disk(Missing, Holding({enAlpha})),
     Disk(Holding({enWords, frWords}), Holding({enAlpha, frAlpha})),
     Disk(Holding({enWords, frCut}), Holding({frAlpha})),
     Disk(Holding({enWords, frWords}), Holding({enAlpha, frAlpha, itAlpha})),
     Disk(Holding({frWords}), Holding({})),
     Disk(Holding({usWords, frWords}), Holding({frAlpha})),
     Disk(Holding({enWords, noLines}), Holding({frAlpha, noLines}))}

MCTokens ==
    (d1 :> <<the, on, the>>) @@ (d2 :> <<on, le, longWord>>)
      @@ (d3 :> <<tie, French>>) @@ (d4 :> <<Us, on, US>>)
MCBytes ==
    LET of(b) == [x \in AllBytes |-> IF x \in DOMAIN b THEN b[x] ELSE 0]
    IN (d1 :> of([t |-> 2, o |-> 1]))
         @@ (d2 :> of([o |-> 1, l |-> 2, accent |-> 1]))
         @@ (d3 :> of([t |-> 1, F |-> 1]))
         @@ (d4 :> of([U |-> 2, o |-> 1]))

MCRequests ==
    [method : {"FWM", "AM"}, docs : {<<>>, <<d1>>, <<d2, d1>>, <<d3, d2, d1>>, <<d4>>}]
=============================================================================
