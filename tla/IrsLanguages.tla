---------------------------- MODULE IrsLanguages ----------------------------
(***************************************************************************)
(* How the engine of irs-machine (irs-memory/irs-engine) finds the         *)
(* language of a document: it reads two directories when the process       *)
(* starts, one of key words and one of alphabets, with a file for each     *)
(* language, and counts what a document has of each.                       *)
(*                                                                         *)
(* The result is a position in one of two lists, and the name is always    *)
(* taken from the list of key words.  Nothing but the order in which the   *)
(* operating system names the files of a directory relates the two.        *)
(***************************************************************************)
EXTENDS Integers, Sequences, FiniteSets

CONSTANTS
    Words,          \* what a line of a file, or a token of a document, may be
    Size,           \* strlen of a word
    MAX_LENGTH,     \* longer tokens are not looked up, 7 in the code
    Shorter,        \* a word without its last character
    FirstByte,      \* the first byte of a word
    Alike,          \* pairs: a lookup of the first may end at the second
    OtherCase,      \* pairs with a common beginning in two spellings, by case
    Files,          \* the files there may be: lines, and whether the last ends
    Disks,          \* what the two directories may hold before the first start
    Docs,           \* the documents of clients
    Tokens,         \* what strtok finds in a document
    Bytes,          \* how often a byte is in it
    Requests        \* the requests of clients: a method and documents

AllBytes == {FirstByte[w] : w \in Words}

ASSUME WordsAssumption ==
    /\ Size \in [Words -> Nat] /\ MAX_LENGTH \in Nat
    /\ Shorter \in [Words -> Words]
    /\ DOMAIN FirstByte = Words
    /\ Alike \subseteq Words \X Words /\ OtherCase \subseteq Words \X Words

ASSUME FilesAssumption ==
    /\ Files \subseteq [lines : Seq(Words), ended : BOOLEAN]
    /\ IsFiniteSet(Files)
    /\ Disks \subseteq [{"langs", "alpha"} ->
                            [exists : BOOLEAN, files : SUBSET Files]]
    /\ \A disk \in Disks, p \in {"langs", "alpha"} :
         disk[p].files # {} => disk[p].exists

ASSUME DocsAssumption ==
    /\ Tokens \in [Docs -> Seq(Words)]
    /\ Bytes \in [Docs -> [AllBytes -> Nat]]
    /\ Requests \subseteq [method : {"FWM", "AM"}, docs : Seq(Docs)]

VARIABLES
    disk,           \* the two directories
    pc,             \* what the process is doing
    engine,         \* there is an engine
    unread,         \* files that the loop over a directory has still to meet
    keyWords,       \* lang_key_words: a name and words
    alphabets,      \* lang_alphabets: a name and letters
    request,        \* the call that is being answered
    done,           \* how many of its documents are
    counts,         \* document_lang_common_coincidences
    langs           \* the answer so far

lists == <<keyWords, alphabets>>
call  == <<request, done, counts, langs>>
vars  == <<disk, pc, engine, unread, keyWords, alphabets, request, done, counts,
           langs>>

NoRequest == [method |-> "FWM", docs |-> <<>>]

Init ==
    /\ disk \in Disks
    /\ pc = "down" /\ engine = FALSE
    /\ unread = {} /\ keyWords = <<>> /\ alphabets = <<>>
    /\ request = NoRequest /\ done = 0 /\ counts = <<>> /\ langs = <<>>

-----------------------------------------------------------------------------
(* irs_engine_initialize and irs_engine_shutdown *)

\* irs_fs_mkdirs is FALSE when it made the directory: initialize then gives up,
\* and the process goes on without an engine.
StartCreatesDirectory(path) ==
    /\ pc = "down"
    /\ ~disk[path].exists
    /\ disk' = [disk EXCEPT ![path].exists = TRUE]
    /\ pc' = "idle"
    /\ UNCHANGED <<engine, unread, lists, call>>

\* Where a directory could not be made either, there is nothing to read.
Start ==
    /\ pc = "down"
    /\ pc' = "keyWords"
    /\ engine' = TRUE
    /\ unread' = disk["langs"].files
    /\ UNCHANGED <<disk, lists, call>>

\* The process ends, by shutdown or otherwise, and forgets what it read.
\* The variant keeps the lists.
ListsKept == UNCHANGED lists
ListsGone == keyWords' = <<>> /\ alphabets' = <<>>

GoDown ==
    /\ pc' = "down"
    /\ engine' = FALSE
    /\ unread' = {}
    /\ ListsGone
    /\ request' = NoRequest /\ done' = 0 /\ counts' = <<>> /\ langs' = <<>>
    /\ UNCHANGED disk

Stop == pc = "idle" /\ GoDown

\* Each line goes without its last character, which is the line break, except
\* at the end of a file that does not end in one.
LineAt(f, i) == IF i = Len(f.lines) /\ ~f.ended THEN Shorter[f.lines[i]]
                                                ELSE f.lines[i]

\* The first line is the name of the language, and one of its words as well.
Contents(f) ==
    [name |-> LineAt(f, 1), words |-> [i \in DOMAIN f.lines |-> LineAt(f, i)]]

ReadKeyWords(f) ==
    /\ pc = "keyWords" /\ f \in unread /\ f.lines # <<>>
    /\ keyWords' = Append(keyWords, Contents(f))
    /\ unread' = unread \ {f}
    /\ UNCHANGED <<disk, pc, engine, alphabets, call>>

KeyWordsRead ==
    /\ pc = "keyWords" /\ unread = {}
    /\ pc' = "alphabets"
    /\ unread' = disk["alpha"].files
    /\ UNCHANGED <<disk, engine, lists, call>>

ReadAlphabet(f) ==
    /\ pc = "alphabets" /\ f \in unread /\ f.lines # <<>>
    /\ alphabets' = Append(alphabets, Contents(f))
    /\ unread' = unread \ {f}
    /\ UNCHANGED <<disk, pc, engine, keyWords, call>>

AlphabetsRead ==
    /\ pc = "alphabets" /\ unread = {}
    /\ pc' = "idle"
    /\ UNCHANGED <<disk, engine, unread, lists, call>>

\* A file without a line has a first line of length 0, one less of which is
\* copied from a null pointer.
EmptyFileKills ==
    /\ pc \in {"keyWords", "alphabets"}
    /\ \E f \in unread : f.lines = <<>>
    /\ GoDown

-----------------------------------------------------------------------------
(* irs_engine_define_documents_languages, and _by_alphabets *)

GetLangs(r) ==
    /\ pc = "idle"
    /\ engine \/ r.docs = <<>>
    /\ pc' = "count"
    /\ request' = r
    /\ UNCHANGED <<disk, engine, unread, lists, done, counts, langs>>

\* Lists of a null pointer, at the first document.
GetLangsKills ==
    /\ pc = "idle" /\ ~engine
    /\ \E r \in Requests : r.docs # <<>>
    /\ GoDown

\* What the loop over languages goes through.
Entries == IF request.method = "FWM" THEN keyWords ELSE alphabets

\* The document whose language is looked for.
Current == request.docs[done + 1]

RangeOf(s) == {s[i] : i \in DOMAIN s}

\* _irs_storage_get_document_short_terms, as positions of tokens.
ShortTerms(d) == {i \in DOMAIN Tokens[d] : Size[Tokens[d][i]] <= MAX_LENGTH}

\* append folds the case of the nodes it passes, and a lookup does not: a word
\* whose beginning an earlier line has in another case may end at a node that is
\* spelled like that one, where no lookup of the word comes.
Spelled(entry, w) ==
    \E j \in DOMAIN entry.words :
        /\ entry.words[j] = w
        /\ \A k \in 1 .. j - 1 : <<entry.words[k], w>> \notin OtherCase

\* A lookup finds the other words for certain, and may take a token for a word it
\* is like.  Each token is counted as often as it occurs.
Found(d, entry) == {i \in ShortTerms(d) : Spelled(entry, Tokens[d][i])}
Findable(d, entry) ==
    {i \in ShortTerms(d) : \E w \in RangeOf(entry.words) :
                              w = Tokens[d][i] \/ <<Tokens[d][i], w>> \in Alike}
KeyWordCounts(d, entry) ==
    LET tokens(f) == {Tokens[d][i] : i \in f}
        more == tokens(Findable(d, entry)) \ tokens(Found(d, entry))
    IN {Cardinality(Found(d, entry)
                      \cup {i \in ShortTerms(d) : Tokens[d][i] \in h}) :
            h \in SUBSET more}

\* Each line of an alphabet counts the bytes of the document that are its first
\* byte, the name of the language included.
LetterCount(d, entry) ==
    LET count[n \in 0 .. Len(entry.words)] ==
          IF n = 0 THEN 0
          ELSE count[n - 1] + Bytes[d][FirstByte[entry.words[n]]]
    IN count[Len(entry.words)]

CountsOf(d, entry) ==
    IF request.method = "FWM" THEN KeyWordCounts(d, entry)
                              ELSE {LetterCount(d, entry)}

Count ==
    /\ pc = "count" /\ done < Len(request.docs)
    /\ Len(counts) < Len(Entries)
    /\ \E n \in CountsOf(Current, Entries[Len(counts) + 1]) :
         counts' = Append(counts, n)
    /\ UNCHANGED <<disk, pc, engine, unread, lists, request, done, langs>>

\* max_common_coincidences_pos, from 1: where the loop found more than before,
\* and the first position if nowhere.  The variants go on at equal counts, and
\* have no language for nothing.
IsAsMany(n, max) == n >= max
IsMore(n, max) == n > max
NoPosition == 0
FirstPosition == 1

MaxPosition(c) ==
    LET best[i \in 0 .. Len(c)] ==
          IF i = 0 THEN [max |-> 0, pos |-> FirstPosition]
          ELSE IF IsMore(c[i], best[i - 1].max)
               THEN [max |-> c[i], pos |-> i]
               ELSE best[i - 1]
    IN best[Len(c)].pos

\* The variant takes the name from the list that was counted.
NamedByEntry == Entries
NamedBy == keyWords

\* The name at this position in the list of key words.  If that is not so long,
\* the answer has nothing for the document, and what follows in it moves up.
Choose ==
    /\ pc = "count" /\ done < Len(request.docs)
    /\ Len(counts) = Len(Entries)
    /\ langs' = IF MaxPosition(counts) \in DOMAIN NamedBy
                THEN Append(langs, NamedBy[MaxPosition(counts)].name)
                ELSE langs
    /\ done' = done + 1
    /\ counts' = <<>>
    /\ UNCHANGED <<disk, pc, engine, unread, lists, request>>

\* The list of languages is a new one at each call.  The variant goes on with
\* the last one.
SameList == UNCHANGED langs
NewList == langs' = <<>>

Return ==
    /\ pc = "count" /\ done = Len(request.docs)
    /\ pc' = "idle"
    /\ request' = NoRequest /\ done' = 0 /\ counts' = <<>> /\ NewList
    /\ UNCHANGED <<disk, engine, unread, lists>>

Next ==
    \/ \E path \in {"langs", "alpha"} : StartCreatesDirectory(path)
    \/ Start \/ Stop
    \/ \E f \in Files : ReadKeyWords(f) \/ ReadAlphabet(f)
    \/ KeyWordsRead \/ AlphabetsRead \/ EmptyFileKills
    \/ \E r \in Requests : GetLangs(r)
    \/ GetLangsKills \/ Count \/ Choose \/ Return

Spec == Init /\ [][Next]_vars

-----------------------------------------------------------------------------
(* Properties *)

Entry == [name : Words, words : Seq(Words)]

TypeOK ==
    /\ disk \in [{"langs", "alpha"} -> [exists : BOOLEAN, files : SUBSET Files]]
    /\ pc \in {"down", "keyWords", "alphabets", "idle", "count"}
    /\ engine \in BOOLEAN
    /\ unread \subseteq Files
    /\ keyWords \in Seq(Entry) /\ alphabets \in Seq(Entry)
    /\ request \in Requests \cup {NoRequest}
    /\ done \in 0 .. Len(request.docs)
    /\ counts \in Seq(Nat) /\ Len(counts) <= Len(Entries)
    /\ langs \in Seq(Words) /\ Len(langs) <= done

\* Whenever a request can come, after any starts, stops and files that end the
\* process, an engine has every file of its directories once, in some order
\* (_irs_engine_read_lang_word_dictionaries, irs_engine_shutdown).
ReadOnce(list, files) ==
    /\ {list[i] : i \in DOMAIN list} = {Contents(f) : f \in files}
    /\ Len(list) = Cardinality(files)

LoadedOnce ==
    pc \in {"idle", "count"} /\ engine =>
        /\ ReadOnce(keyWords, disk["langs"].files)
        /\ ReadOnce(alphabets, disk["alpha"].files)

\* By key words, a language is found for each document.  None has more of its
\* tokens for certain than this one may be taken to have, and as many only if it
\* comes later: in whatever order the directory was read, a language with most
\* words wins, unless tokens look like words, or a file has a word after another
\* that begins like it in another case, as "Us" after "USA", which is then lost
\* (irs_engine_define_documents_languages, irs_dictionary_is_in).
KeyWordLanguage ==
    request.method = "FWM" /\ keyWords # <<>> =>
      /\ Len(langs) = done
      /\ \A i \in DOMAIN langs : \E k \in DOMAIN keyWords :
           /\ langs[i] = keyWords[k].name
           /\ \A l \in DOMAIN keyWords :
                LET found == Cardinality(Found(request.docs[i], keyWords[l]))
                    most  == Cardinality(Findable(request.docs[i], keyWords[k]))
                IN IF l < k THEN found < most ELSE found <= most

\* By alphabets, a language is found for each document as long as there are not
\* more alphabets than lists of key words, and none without these lists.  If the
\* two directories were read in the same order, it is the one with most letters
\* in the document, the first of these
\* (irs_engine_define_documents_languages_by_alphabets).
SameOrder ==
    \A k \in DOMAIN alphabets : /\ k \in DOMAIN keyWords
                                /\ keyWords[k].name = alphabets[k].name

AlphabetLanguage ==
    request.method = "AM" =>
      /\ Len(alphabets) <= Len(keyWords) /\ keyWords # <<>> => Len(langs) = done
      /\ keyWords = <<>> => langs = <<>>
      /\ SameOrder /\ alphabets # <<>> =>
           \A i \in DOMAIN langs : \E k \in DOMAIN alphabets :
             /\ langs[i] = alphabets[k].name
             /\ \A l \in DOMAIN alphabets :
                  LET of(m) == LetterCount(request.docs[i], alphabets[m])
                  IN IF l < k THEN of(l) < of(k) ELSE of(l) <= of(k)
=============================================================================
