# irs-machine in TLA+

irs-machine is an information retrieval server: clients send documents over
websockets, the server keeps them in files with an index of their words, and
answers queries with the documents that have a word and how significant the word
is in them, in which language they are written and what their best sentences are.
This directory models its storage, the dictionary and the list the storage is
built on, the loops that build the index, the engine that finds languages and
makes summaries, and the server process around them, from the command line to the
stop.  TLC checks the models on small instances, and TLAPS proves theorems about
them for all instances.

Paths are relative to the repository.  `STORAGE` is
`src/irs-memory/irs-storage/irs_storage.c`, `DICT` is
`src/irs-memory/irs-data/irs-container/irs-dictionary/irs_dictionary.c`,
`ENGINE` is `src/irs-memory/irs-engine/irs_engine.c`.

    tlasany IrsStorage.tla
    tlc -workers 2 -config IrsStorage.cfg MCIrsStorage
    tlapm IrsStorageProofs.tla

## 1. Inventory

| component | state it keeps | operations | talks to |
|---|---|---|---|
| storage (`irs-storage`) | three files; `term_offset_dictionary`; `documents_size`, `terms_size` | initialize, load, add_documents, get_documents, save, shutdown | dictionary, list, files |
| indexing (`STORAGE:139-338`) | two dictionaries and a dangling pointer, per batch | `_irs_storage_assign_terms_in_documents` | storage calls it once per add |
| dictionary (`irs-dictionary`) | a trie of nodes with substrings and value lists | append, get, is_in, walk, destroy | storage, indexing, engine |
| list and iterator (`irs-list`, `irs-iterator`) | doubly linked nodes with an end node | push, pop, remove, iterate | everything in C |
| memory facade (`irs_memory.c`, `irs_memory.cpp`) | the storage and the engine, one instance per process | constructor (initialize, load), destructor (save, shutdown), Add, Get, GetLangs, GetSummarizations | commands above, storage and engine below |
| engine, languages (`ENGINE:1-371`) | key words and alphabets of languages, loaded once | languages of documents, by key words or by alphabets | list, dictionary, files |
| engine, summaries (`ENGINE:373-588`) | two lists and two iterators, per document | the best sentences of documents | list |
| server (`irs_server.hpp`, `irs_server_impl.cpp`, `main.cpp`) | two threads, the websocket core, the pointer to the memory, the flag main waits for | Run, Stop, Shutdown, OnMessage, EmitActions, SIGINT | websocketpp, JSON commands |
| JSON commands (`irs-server-action`) | the map of commands | parse, dispatch, complete, answer | memory facade |
| configuration and options (`irs-config`) | the table of the key file; the values the server is made with | read the command line and the key file, make the server and its memory | main, factory, memory facade |
| logging (`irs_server_log.hpp`) | the log of the server and its file | open, replace, write | server |
| file system wrapper, base macros | none | mkdirs, channels, allocation | storage |

How they interact: one process; `main` builds the server, which builds the one
memory, which initializes and loads the storage.  The io thread calls
`OnMessage`, one message at a time; a command calls the memory, which calls the
storage or the engine.  There are no locks.  `main` sleeps until SIGINT and then
calls `Stop`, which closes the acceptor, deletes the memory - which saves the
index - and only then stops and joins the io thread.

What is hard to get right and hard to test:

- **Files and counters that must agree.**  An add truncates `documents.irsdb` and
  `terms.irsdb` (`"w+"`), while the sizes from which offsets are taken go on
  counting and are saved in a third file, only when the process stops.  Every
  order of adds, stops, crashes and failed writes makes another combination.
- **What the reader trusts.**  It seeks to an offset and believes the numbers it
  finds there.
- **Dangling and uninitialized values** in the indexing loops.
- **Node splits** of the dictionary, and what a lookup does not compare.
- **Positions instead of names** in the engine: a language is a position in one of
  two lists that were filled in directory order, a sentence a number that is one
  off where it is used.
- **A sort with two iterators** over lists that change under them.
- **Two threads without a lock** at shutdown, a signal that comes early, a start
  that fails half way, exceptions that leave a thread, a log that is deleted while
  the core has its stream.
- **Values nobody validates** between the command line and the acceptor, and
  directories that a start makes and then gives up on.

What makes each component correct:

- *storage*: an offset in the index is the place of the term's own record, and the
  offsets in this are places of documents that have the term; the saved index is
  as good as the one in memory; nothing is lost over a restart; answers name only
  documents that have the term.
- *indexing*: the number announced for a term is computed for it and covers its
  entries; the index is one the storage part assumes.
- *dictionary*: a walk meets every value once; a lookup finds what was appended
  under the key and nothing else; values of one key stay together.
- *list*: it behaves as a sequence.
- *engine*: the language of a document is the one it has most of; the summary has
  its best sentences, in their order.
- *configuration*: what is used is what the command line and the key file say, or
  the process says that it is not.
- *server*: every message gets its answer, in order; what was stored and
  acknowledged before a stop is saved; a stop ends; nothing outlives what it uses.

## 2. Modules

| module | models | proofs |
|---|---|---|
| `IrsKeys` | strings as the dictionary compares them: which key a lookup takes a string for (`DICT:154-208`), without nodes | - |
| `IrsBatch` | what one batch may make of the index (`STORAGE:139-338`), as sets | - |
| `IrsStorage` (+ `MCIrsStorage`) | the storage, its files, crashes and write failures, in the order `IrsMemory` calls it | `IrsStorageProofs` |
| `IrsIndex` | what the storage promises: an inverted index | `IrsStorageProofs` |
| `IrsIndexing` (+ `MCIrsIndexing`) | the indexing loops round by round | `IrsStorageProofs` |
| `IrsDictionary` (+ `MCIrsDictionary`) | the trie | `IrsDictionaryProofs` |
| `IrsSequence` | what a list and an iterator promise: a sequence and a place in it | `IrsListProofs` |
| `IrsList` (+ `MCIrsList`) | list and iterator, node by node; implements `IrsSequence` | `IrsListProofs` |
| `IrsServer` (+ `MCIrsServer`) | threads, start and stop, messages and answers, the log | `IrsServerProofs` |
| `IrsSummary` (+ `MCIrsSummary`) | scores, the sort of sentences, the summary | `IrsSummaryProofs` |
| `IrsLanguages` (+ `MCIrsLanguages`) | the engine's start, the choice of languages | `IrsLanguagesProofs` |
| `IrsConfig` (+ `MCIrsConfig`) | command line, key file, settings, the directories of the memory, where the server listens | `IrsConfigProofs` |
| `IrsInduction` | nothing of the code: induction over numbers, for the proofs about loops | itself |

`IrsStorage` and `IrsIndexing` both extend `IrsBatch`.  The first takes the index
of a batch in one step from `IndexesOf`, the second shows that the loops build
one of these (`BuildsIndex`): `IndexesOf` is the abstract specification of the
loops.

Dictionaries are keyed by two kinds of strings, and a lookup finds more than what was
appended.  `IrsKeys` says which key a lookup takes a string for, from the keys alone
(`Hits`), and `LookupLaw` of `IrsDictionary` that lookups in the trie find just that.
*Terms* are words of clients: `VocabularyAssumption` of `IrsBatch` restricts the
models of the storage to vocabularies that agree in case and do not look alike, for
which `LookupExact`, `TogetherOnce` and `WalkMeetsAll` make a dictionary a function of
terms; with other words a lookup may take one for another or miss it, and the models
of the storage say nothing.  *Offsets of documents* are looked up by their decimals,
and nobody chooses those: they are any growing numbers, and a document whose offset is
taken for an earlier one is passed over (`Assigned` in `IrsIndexing`, `PassedOver` in
`IrsBatch`).  Offsets are exact as long as a double has them, that is below 2^53
(`gcvt` in `irs_int_to_str_int`).  `IrsServer` has the memory as a set of stored
requests; what a stored request is worth is the subject of `IrsStorage`.  `IrsConfig`
ends where `IrsServer` is configured and runs; it has the constructor of the memory as
far as directories decide what becomes of the start, and leaves to `IrsStorage` and
`IrsLanguages` what is read from them.  `IrsSummary` uses iterators as `IrsSequence`
describes them, as places in a sequence.

### IrsStorage

A file is a length and a set of records with the positions they really have, so
that the offset the code notes down (`documents_size`, `terms_size`) can be
compared with the place of the record.  Documents and terms are model values with
sizes; `Tokens[d]` is what `strtok` finds in `d`, `Substrings[d]` what `strstr`
does.  Significancies are abstracted to their sign, which decides whether a
document gets an entry.

`IrsIndex` is the storage without files and offsets: a map from terms to sets of
documents, a saved map, and answers.  `IrsStorage` implements it
(`IsIndex`): `Index == INSTANCE IrsIndex WITH ...` follows the first offset of each
term to its record and the offsets in this to documents.  The promise holds while
`clean` does, that is as long as each batch is added to an empty storage; after
that anything may happen (`Spoil`).  It says what a user could notice: which
documents a term may be indexed with, that they change only in an add, that an
answer is the index and not something else, and what a stop and a start bring back.

| action | code |
|---|---|
| `StartCreatesDirectory`, `Start` | `irs_storage_initialize`, `irs_storage_load`, as the constructor of `IrsMemory` calls them |
| `AddDocuments`, `AddDocumentsNowhere` | `irs_storage_add_documents` up to the open of `documents.irsdb` |
| `WriteDocument`, `WriteDocumentFails` | one round of `_irs_storage_write_documents` |
| `AssignTerms` | the close of `documents.irsdb`, `_irs_storage_assign_terms_in_documents` and the open of `terms.irsdb` |
| `WriteTerm`, `FinishAdd` | the walk that writes the records and appends offsets to the dictionary; the close of `terms.irsdb` |
| `GetDocuments` | `irs_storage_get_documents`, all its terms and the first read error |
| `Stop` | `irs_storage_save`, `irs_storage_shutdown`, from the destructor of `IrsMemory` |
| `CrashInSave`, `Crash` | the process ends there; what a channel had buffered is lost |

A close writes what the channel still has, and its error is discarded
(`STORAGE:133`): `AssignTerms` and `FinishAdd` cut their file where they like, and
`lost` remembers that they did.  Offsets behind the cut are then places nothing is
at, until the next add truncates the file.

An add is several actions because a crash or an error may fall between them; no
other operation can, because the io thread handles one message at a time.

### IrsIndexing

One action per round of the inner loop.  Whether the term is assigned in the
document already is a lookup of the document's offset among those entered for the
term: after 1000 and 1090, whose nodes are "10", "00" and "90", it finds 1190, and the
third document has no entry.  `slot` is the stack location of the
local `reverse_frequency`, to which the cache of reverse frequencies keeps a
pointer: reading the cache reads whatever the last round that computed one left
there.  That compilers reuse the location from round to round is the one thing
taken from the build; `IndexesOf` allows the frequency of any word of the batch,
so that `IrsStorage` does not depend on it.  `doc_with_term_offsets_size` has no
value (`Unset`) in a round that reads the cache.

### IrsDictionary

Nodes are records with children by slot, their substring and their values.  An
append goes down while the whole substring of the next node matches, in any case
(`Descent`, one `Pass` for a round of the loop); there it finds the node of its key
(`AppendToNode`), no node to go on to (`AppendLeaf`), or one of which only the beginning
matches: that is cut, and a node put between (`AppendSplit`).  A lookup goes down by one
character for each node, and skips the rest of its substring unread (`Skip`, `Reached`).
What that finds depends on the keys only and not on the order they came in, as long
as they agree in case: at which characters nodes begin is `ReadAt` of `IrsKeys`, and
`LookupLaw` compares the two.
The value appended under a key is the key, so a value list shows where its values come
from.  The
character code 127 is excluded: its slot is one past the table, which is the
memory of another allocation.

### IrsList and IrsSequence

Nodes are numbered in the order of allocation, and 0 is the null pointer.  `Spec`
has what the program calls: push_back, push_front before the node an iterator may
be at (the engine's sort), clear, destroy, and iterators in both directions.
`Sequence == INSTANCE IrsSequence WITH seq <- Contents, ...` maps the nodes met from
`begin` to a sequence, and the node an iterator is at to its place; `IsSequence`
says that every step of the list is one of the sequence.  pop_back and
remove_if have no caller and are left out; whoever starts to call them should know
that after pop_back of the only element, and after remove_if of the first, `begin`
is still the node that has gone (`irs_list.c:126-129`, `:148`).

A move of the sequence's iterator answers whether there is an element where it is
now, as `irs_iterator.h:30` says, with one step left open: from its end an iterator
goes on to where it was before its start, and `IrsSequence` promises nothing of that
answer (`PastEnd`).  The code answers TRUE there (`irs_iterator.c:32-33`), which
`IrsListPastEnd` shows against the comment; the sort of the engine, which does move
on so, looks at `current` as well (`ENGINE:458`).

### IrsServer

Three processes with a program counter each: `main`, `actions`, `io`.  The steps
of `Stop` are actions of their own, in the order of the code, since the io thread
may do anything between them.  A message is one of six kinds, by what the handler
makes of it:

| kind | what it is | outcome |
|---|---|---|
| malformed | no JSON, no object, a type or id of another JSON type | an exception leaves the io thread and ends the process |
| invalid | null, or a null member | answered with a fixed text |
| undefined | a member is missing, or the type or method does not exist | undefined: answered or the end of the process |
| rejected | the payload does not fit the command | status FALSE |
| add, get | good commands (the three queries are one kind) | an answer, unless the memory is going or gone or the answer is no UTF-8 |

websocketpp is not in the repository: `run` returns when it was stopped or has
nothing to wait for, `stop_listening` throws when there is no acceptor, an
exception of a message handler leaves `run`, and handlers run one at a time.
These are taken from how `irs_server.hpp` uses it.  A save that overlaps an add is
a data race; what it writes may be any part of the index.

The log is the stream the core writes to.  `ClearLogOptions` deletes it with its
file and then makes one of the console, twice in a stop (`DeleteLog`, `NewLog`);
in between the core has a stream that is gone, and `CoreOutlivesThreads` asks that
no thread is left then which may write to it.

### IrsSummary

One call for one document: it is cut into sentences and scored in one step
(`Take`), since that takes no decision the rest depends on, and then sorted and
summarised step by step.

| action | code |
|---|---|
| `SortFirst`, `SortNext`, `SortEnds` | the outer loop of `_irs_sort_doc_sentences_by_score` (`ENGINE:446-489`) |
| `Insert`, `AppendLast`, `Pass`, `Drop` | the ways a round of its inner loop ends |
| `Pick`, `Collect` | `_irs_get_document_summarization` (`ENGINE:514-558`) |
| `Return`, `Corrupted` | the end of the call, or of the process |

A document is a sequence of texts with one delimiter after each, and no text is a
part of another, so that `strstr` finds a sentence where it, or an equal one,
first stands.  A sentence with a line break inside is not found in its part of the
document; the score then comes out of an address and a null pointer, and is 0 or
more than any other (`Undefined`).

What the code does is far from "the best sentences": the sort drops every sentence
that is above all sorted ones unless it is the last one (`Drop`), the last one goes
to the end as soon as it is above any (`AppendLast`), and the summary copies the
sentence *before* the one it picked (`SentenceCopied`).  It copies that to the slot
of its number in an array with a slot for each sorted sentence; once a sentence
was dropped that may be past the end (`overran`).

### IrsLanguages

The disk is two directories with files; a start reads every file of both, in any
order, as `g_dir_read_name` does.  A line loses its last character whatever it is.
Counting is the loop over the languages for one document.  Which key words a lookup
finds is a range: `Found` are those it finds for certain, `Findable` has also the
words it may take a token for (`Alike`, as `LookupPlausible` of `IrsDictionary` bounds
it).  A word is not found for certain when an earlier line of its file has a beginning
of it in another case (`OtherCase`): append follows the nodes in any case, so that "Us"
after "USA" ends at a node spelled "US", where no lookup of "Us" comes (`Spelled`).
The position with most is looked up in the list of key words for either method
(`NamedBy`).  A directory of languages that had to be created makes the start go on
without an engine (`StartCreatesDirectory`); that of the storage ends the process,
which is in `IrsStorage` and `IrsConfig`.

### IrsConfig

A path is a sequence of names, a token of the command line and a value of the key
file likewise.  `TakeOptions` and `Get` are `IrsOptions`, `Load`, `Value` and
`Directory` are `IrsConfig` and `IrsConfigGroup`, `Configure` is
`ConfigureIrsServer` up to the constructor of `IrsMemory`, and `Listen` and
`ListenFails` are what `IrsServer::Run` makes of the settings.  GLib's parser is
external: what does not parse, is absent or has no group is a null for the reader.

The constructor of the memory is four steps, in the order of
`irs_memory_initialize` and `irs_memory_load`:

| action | code |
|---|---|
| `StorageReady` | the directory of the storage is there, or could not be made |
| `StorageMissing` | it was made: `irs_fs_mkdirs` answers FALSE (`irs_file_system.c:55`), there is no storage, and the load of the null ends the process (`STORAGE:678`) |
| `EngineGivesUp`, `EngineReady`, `EngineKills` | the same for the two directories of languages: one that was made costs the engine, and a file in them without a line, or a directory, ends the process (`ENGINE:26-37`) |
| `IndexLoaded`, `IndexOverruns` | the index is read, or a term of two bytes and more is written behind its buffer (`STORAGE:661`) and that is noticed |

`there` are the directories a start finds and `made` those it makes; `Restart` begins
again at any moment, with both there.  Where no directory can be made (`Barred`) the
start goes on as if it was there.  A setting that is empty, in a key file named
without a directory, comes out as the empty string: that names no directory, and the
storage then keeps its files in the root.

## 3. Runs

| run | question | bounds | states |
|---|---|---|---|
| `IrsStorage` | what the index, the saved index and answers can be relied on for; is it an inverted index | `MaxAdds` 2, `MaxStarts` 4, five batches, two queries | 630 470 |
| `IrsIndexing` | do the loops build an index `IndexesOf` allows | every list of up to three of four documents, and three of four, at 0, 1000, 1090 and 1190 | 809 |
| `IrsDictionary` | walks and lookups after any appends | `MaxAppends` 5 of seven keys, five probes | 19 608 |
| `IrsList` | is the list the sequence it promises | `MaxNodes` 5 (four elements and the end), two values | 15 430 |
| `IrsServer` | answers, what is saved, what the core uses, termination | two clients, `MaxRequests` 2, any kinds | 256 458 |
| `IrsSummary` | what the sort keeps, in which order, and what the summary is | four sentences of five texts, `MAX_SENT_NUMBER` 2 (10 in the code) | 19 232 |
| `IrsLanguages` | which language a document gets, over stops and starts | seven pairs of directories, four requests by two methods | 1 523 |
| `IrsConfig` | which key file, which directory, which port; which starts crash or have no engine | eleven command lines, two directories, nine key files, three trees of directories, restarts | 91 433 |

What they show:

- **`IrsStorage`**.  As long as each batch goes to an empty storage (`clean`), the
  index resolves in memory and on disk whatever crashes and failures happen
  (`CleanIndexResolves`, `PersistedIndexResolves`), answers are sound
  (`ReplySound`), and words are only lost to a crash in a save or to a buffer
  without terminator (`CompleteIndex`).  A close that fails makes documents or
  terms missing, and never others appear.  All of it together is an inverted index
  (`IsIndex`).  With any number of adds, offsets drift
  from places by one common amount (`DriftLaw`).
- **`IrsIndexing`**.  The uninitialized count is never written, because two
  dictionaries happen to get their keys in the same rounds
  (`AnnouncedIsComputed`); a term never has more entries than its record announces
  (`NeverUnderAnnounced`); `BuildsIndex` links the loops to `IrsStorage`: which
  documents have an entry, for documents passed over included.
- **`IrsDictionary`**.  Walks meet every value once (`WalkMeetsAll`); lookups are
  exact for keys that agree in case and do not look alike (`LookupExact`), and for all
  that agree in case take a string for just the keys it cannot be told from by the
  characters where nodes begin (`LookupLaw`); when keys agree in case, a key has its
  values at one node and a node those of one key (`TogetherOnce`), also after splits.
- **`IrsList`**.  Wherever elements get in, the list reads the same in both directions
  (`LinksAgree`), an iterator stays with its element and answers whether there is one,
  but for the step past its end (`IsSequence`), and destroy frees every node once
  (`DestroyFreesAll`).
- **`IrsServer`**.  The core is deleted only after the threads (`CoreOutlivesThreads`);
  what the storage took and a client was told before the stop is saved
  (`KeepsWhatItAnswered`); answers are complete and in order (`AnswersInOrder`);
  an interrupt that reaches the flag ends the process (`StopEnds`), and every
  message is answered unless the process ends (`EveryMessageAnswered`).
- **`IrsSummary`**.  The sort keeps the first sentence, the last, and those not above
  the first (`SortKeeps`), and what it keeps ascends but for the last one
  (`SortedUpToLast`); the array of the summary is overrun only when a sentence
  was lost (`InArray`); which sentences a summary can have, for any document
  (`SummaryShape`) and, exactly, for a document of one paragraph without repetitions
  (`PlainSummary`).
- **`IrsLanguages`**.  What is loaded is one entry for each file, after any number of
  starts and stops (`LoadedOnce`); a language by key words is one with most tokens
  found, up to tokens that look like words and words that are lost after another case
  of their beginning, and the first one for a document with none (`KeyWordLanguage`);
  a language by alphabets is right where both directories are read in the same order
  (`AlphabetLanguage`).
- **`IrsConfig`**.  The key file is the one the command line names first
  (`ConfigFromCommandLine`); data is beside it wherever the program was
  started (`DataBesideConfig`).  `StartsAsConfigured`: without a setting, or with a port
  that is no number, there never is a server.  With a complete key file a start crashes
  only if it has just made the directory of the storage - the next one finds it - or if
  there is an unreadable file of a language, or if the index overruns its buffer.
  Otherwise it listens at the port the file gives, modulo 2^16, or ends and says so on
  the console; and it has no engine if, and only if, it made a directory of languages.

Why the bounds are enough.  Two adds are what the second-add hazards take, with a
stop, a crash or a failure before, between and after them; four starts allow the one
that only creates the directory and one restart for each add and after it.  The
batches are: none, one document (none of whose words is rare), two documents with a
word in common, three of which one has a word of another as a substring, and four of
which a lookup takes the last one's offset for an earlier one.  The offsets of
`IrsIndexing` are 0 and three of which a lookup among the first two finds the last;
its lists put a word into all three and into fewer.  Five
appends reach a split of a split node, a split by a key that ends at the new node, and
one into a leaf that was cut.  Four elements are first, last and two inner ones, with
an iterator at any of them.  Two messages reach a handler in each of its phases at
each step of `Stop` with another one waiting or already answered.  Four sentences are
what a document takes in which the sort inserts, passes, drops and appends the last,
and two in a summary make it leave sentences out.  Of the directories of languages
there are: none, one of the two, the same two languages in both, fewer or more
alphabets than key words, an empty directory, a file that ends inside a line, one
without a line, and one with a word after another case of its beginning.  The command lines have each option alone, both, one twice, one
without a value, and one with another option for a value; the key files differ from a
complete one in a port that is empty, too large, negative, no number or absent, a host
that is a name, a log of an unknown kind, a path that is empty, barred or has an
unreadable file, or no `db_path`.  The directories at the first start are: none of the
memory's, that of the storage, and all; since a restart may come at any moment, every
set that starts make of these is met too.

Deadlock is checked in `IrsIndexing`, `IrsServer`, `IrsSummary`, `IrsLanguages` and
`IrsConfig`, whose last states have a step of their own or start again.  It is not in
the runs of `IrsStorage`, `IrsDictionary` and `IrsList`, which stop at their bounds.

### Runs that end in a violation

Each checks what a comment, a declaration or a test says.

| run | property | what TLC finds |
|---|---|---|
| `IrsStorageSecondAdd` | `IdleIndexResolves` | after a second add the saved offsets are offsets in no file (`STORAGE:89`) |
| `IrsIndexingStaleFrequency` | `OwnFrequency` | the cached reverse frequency is another term's (`STORAGE:274`) |
| `IrsListPastEnd` | `MoreMeansElement` | an iterator moved on from its end answers that a next element exists (`irs_iterator.c:33`, against `irs_iterator.h:30`) |
| `IrsServerInterrupt` | `InterruptEnds` | a SIGINT between `main.cpp:57` and `:58` is lost |

More facts a reader of the code may not expect are in the models and need no run.
Strings are found that were never appended, against `irs_dictionary.h:72`: `LookupLaw`
says which.  The options `--host` and `--port` of the help text (`main.cpp:18-19`) are
read by nothing; one of the command lines of `IrsConfig` has `--port`. The number
written before the entries of a term counts documents `strstr` finds, and may be more
than there are entries (`STORAGE:297`, `WellCounted`).  The first start on a new path
ends the process (`irs_file_system.c:55`, `STORAGE:678`: `StartCreatesDirectory` of
`IrsStorage`, `StorageMissing` of `IrsConfig`).  A string that is appended in one case
and looked up in another is not found (`DICT:113`).  And what is appended in two cases
may get two nodes, or the same key twice: children are chosen by the character as it
is, their substrings matched in any case, so that a split decides which way later keys
go (`DICT:91-116`; `TogetherOnce` therefore asks for keys that agree in case, and so
does `VocabularyAssumption`; nothing in the storage makes the words of documents do
so).

### Fairness

Only `IrsServer` has liveness properties.  `WF_vars(Main)`, `WF_vars(EmitActions)`
and `WF_vars(Io)`: the operating system runs a thread that can go on, `main`'s
wait is a loop that looks at a flag every second, and commands are loops over
finite lists and files.  Ending the process by an exception is one of the steps of
the io thread.  Clients, their connections and the user get no fairness: the
stop must not depend on them, and `StopEnds` fails if `m_instance->stop()` is
left out, since a client may stay connected forever.

## 4. Proofs

| theorem | says | for |
|---|---|---|
| `TypeCorrect` | `Spec => []TypeOK` | `IrsStorage` |
| `IndexCorrect` | `[](CleanIndexResolves /\ PersistedIndexResolves)` | `IrsStorage` |
| `DriftLawCorrect` | `[]DriftLaw` | `IrsStorage` |
| `ReplyCorrect` | `[]ReplySound` | `IrsStorage` |
| `IndexImplemented` | `Spec => IsIndex` | `IrsStorage`, `IrsIndex` |
| `CompleteIndexCorrect` | `[]CompleteIndex` | `IrsStorage` |
| `IndexingTypeCorrect` | `[]IndexingTypeOK` | `IrsIndexing` |
| `AnnouncedCorrect` | `[]AnnouncedIsComputed` | `IrsIndexing` |
| `NeverUnderAnnouncedCorrect` | `[]NeverUnderAnnounced` | `IrsIndexing` |
| `BuildsIndexCorrect` | `[]BuildsIndex` | `IrsIndexing`, `IrsBatch` |
| `DictionaryTypeCorrect` | `[]TypeOK` | `IrsDictionary` |
| `TrieCorrect` | the nodes are a trie | `IrsDictionary` |
| `WalkMeetsAllCorrect` | `[]WalkMeetsAll` | `IrsDictionary` |
| `TogetherOnceCorrect` | `[]TogetherOnce` | `IrsDictionary` |
| `LookupExactCorrect` | `[]LookupExact` | `IrsDictionary` |
| `LookupPlausibleCorrect` | `[]LookupPlausible` | `IrsDictionary` |
| `TypeCorrect` | `[]TypeOK` | `IrsServer` |
| `CoreOutlivesThreadsCorrect` | `[]CoreOutlivesThreads` | `IrsServer` |
| `AnswersInOrderCorrect` | `[]AnswersInOrder` | `IrsServer` |
| `KeepsCorrect` | `[]KeepsWhatItAnswered` | `IrsServer` |
| `ListTypeCorrect` | `[]TypeOK` | `IrsList` |
| `LinksCorrect` | `[]LinksAgree` | `IrsList` |
| `DestroyCorrect` | `[]DestroyFreesAll` | `IrsList` |
| `ListIsSequence` | `Spec => IsSequence` | `IrsList`, `IrsSequence` |
| `SummaryTypeCorrect` | `[]TypeOK` | `IrsSummary` |
| `SortKeepsCorrect` | `[]SortKeeps` | `IrsSummary` |
| `SortedUpToLastCorrect` | `[]SortedUpToLast` | `IrsSummary` |
| `InArrayCorrect` | `[]InArray` | `IrsSummary` |
| `SummaryShapeCorrect` | `[]SummaryShape` | `IrsSummary` |
| `PlainSummaryCorrect` | `[]PlainSummary` | `IrsSummary` |
| `LanguagesTypeCorrect` | `[]TypeOK` | `IrsLanguages` |
| `LoadedOnceCorrect` | `[]LoadedOnce` | `IrsLanguages` |
| `KeyWordLanguageCorrect` | `[]KeyWordLanguage` | `IrsLanguages` |
| `AlphabetLanguageCorrect` | `[]AlphabetLanguage` | `IrsLanguages` |
| `ConfigTypeCorrect` | `[]TypeOK` | `IrsConfig` |
| `ConfigFromCommandLineCorrect` | `[]ConfigFromCommandLine` | `IrsConfig` |
| `DataBesideConfigCorrect` | `[]DataBesideConfig` | `IrsConfig` |
| `StartsAsConfiguredCorrect` | `[]StartsAsConfigured` | `IrsConfig` |

They hold for any documents, words, sizes, batches, queries and bounds that meet the
named assumptions: words of a document are substrings of it (`DocsAssumption`), terms
are not empty, agree in case and do not look alike (`VocabularyAssumption`), documents
have sizes (`SizesAssumption`), a walk meets terms in a total order
(`RankAssumption`), there are finitely many terms (`TermsAssumption`), queries and
batches are sequences (`InputsAssumption`), offsets of a batch grow
(`ListsAssumption`), a directory has finitely many files (`FilesAssumption`), a key
file is no directory and is not the root (`InputsAssumption` of `IrsConfig`), where a
directory is, those it is in are, and the program starts in one that is there
(`TreesAssumption`), texts have at least a character and their line breaks inside
(`TextsAssumption`), scores are no negative numbers (`ScoresAssumption`), some
sentences may be in a summary (`MaxAssumption`), and the keys of a dictionary are not
empty and without the code 127 (`KeysAssumption`, `CharsAssumption`).  TLC evaluates
these on its instances.

*The index.*  `CleanIndexResolves` is not inductive: it says nothing of the
states in the middle of an add.  `CleanInv` adds that a storage whose logical size
is zero has an empty dictionary, here and in the saved file (`NoSizeNoIndex`: an
add that leaves `clean` true truncates files nothing points into), that what a
batch has noted so far are places (`CleanDocuments`), and that the records written
so far are good and the others not yet in the dictionary (`CleanTerms`).  A save,
complete or cut, writes part of an index that resolves (`SavedResolves`), and a
start reads it back.  A close that loses the end of a file leaves each offset at its
record or behind the end, and there is nothing there to be taken for it
(`DocumentOrEnd`, `FinishAddResolves`).

*The drift.*  `DriftLaw` needs that a term is written once per batch
(`WrittenOnce`), so that the last offset of its list is that of its record, and
the two size lemmas `DocumentSizes` and `TermSizes`: what a write counts is what it
writes.

*Answers.*  `ReplySound` follows from both: the record a lookup lands on is the
term's own and the only one there (`RecordOfTerm`).

*The refinement.*  `IndexImplemented` has a lemma for each action (`StartStep`,
`StopStep`, ...) that says which step of `IrsIndex` it is seen as, under `TypeOK`,
`WrittenOnce`, `CleanInv` and `SeenInv`.  The last adds what the others have no need of:
documents have places of their own, a process that is down has no offsets, and a term
that some document of the batch does not have is indexed with another
(`RareHasEntry`, which takes the smallest of a finite set of offsets,
`SmallestOf`).  The step with most to show is `WriteTerm`: the new record is
where the new offset points, none of the old offsets points there
(`OffsetsBeforeEnd`), and what its entries point to are documents with the term.

*Nothing left out.*  `CompleteIndex` speaks of the index in memory between calls.  What
is saved has to be complete as well, since a load brings it back (`CompleteInv`), and a
save that skips the words a load could not hold leaves the others (`SavedComplete`).
In the middle of an add the words of the stored documents are among those still to be
written or already in the dictionary.

*Indexing.*  `IndexingInv` adds to `AnnouncedIsComputed` that entries belong to
documents that have the term, one each (`EntriesOfDocuments`), so that there are
no more of them than documents `strstr` finds.  `BuildsIndex` is about the
significancies, which later rounds take from another word: `LoopInv` says that what the
cache reads as is the number of some collected word, so that a document that was met has
an entry unless such a word is common or its offset is taken for an earlier one
(`MetIsEntered`), and that where a term comes first the number is
its own (`CollectedFirst`), because no document before has it.  The rest is that a batch
has as many documents as its list is long (`MapSize`) and that offsets grow: the
first place of a term is the smallest, and what a lookup could find when a document was met
are the entries before it (`EnteredInOrder`), to which later ones add nothing
(`LaterEntry`).  A lookup among no offsets finds nothing (`LookupOfNone`), and one that
was just entered is found (`LookupOfLast`), so that a word repeated in its document is
entered once.

*The server.*  `CoreOutlivesThreads` follows from where the threads are when the main
thread deletes: `ThreadsInv` relates the program counters of the three threads and the
stops that were called.  `AnswersInOrder` and `KeepsWhatItAnswered` need more: what
the handler holds is the message after those answered (`OrderInv`), what was stored
and answered is in the memory or saved (`StoredInv`, `KeptInv`), and the flags
the main thread left behind say how far it is (`ControlOK`, `FlagsOK`).

*The sort.*  `SortInv` says what the two iterators have left: the sorted list has each
sentence met at most once and exactly those that are to be kept (`Once`, `Meets`,
`Kept`), and it ascends but for the last (`Rising`).  Lemmas about insertion
into a sequence carry it over `Insert`.  `OverrunInv` counts: the slots are as many as sentences
were kept, so that a number past them means that one was lost.

*Loops.*  A model says what a loop computes by a recursive function, which TLA+ takes
to be any value that satisfies its equation: before anything can be said of it, there has to be
one.  `IrsInduction` proves that (`RecursiveFunction`), from the well-ordering of the
numbers, and has the induction (`Induction`) that then says what its values are.  Both
take sets and functions where a textbook takes predicates, since the provers cannot
instantiate a theorem that has an operator for a parameter.

*The summary.*  The scores are one such loop: the offset of a sentence is a sum over those
before it (`OffsetRecursion`), it grows with each of them (`OffsetsGrow`) and stays inside the
document (`OffsetInside`).  In a document of one paragraph the score falls from each
sentence to the next (`PlainScoresFall`; a product and a division of numbers, `SquareGrows`,
`DivGrows`), so that the sort reverses them and the pick sets the slots from the first on
(`PlainInv`).  `PickInv` says that each pick sets at most one slot, and not that of the last
sentence; reading the slots out keeps their order (`SetSlots`).

*Languages.*  `LoadInv` says which files a loop over a directory has left behind, and that
a process that is down has read nothing: it would read everything twice.  `CallInv` says of
the texts answered so far what the properties say of all.  `MaxPosition` is the loop that
keeps the position of the maximum, and `MaxPositionIsFirst` says what it computes: one with
most, and more than any before it.  The counts are those of finite sets (`KeyWordCountBetween`),
and lie between the tokens that are found for certain and those that may be taken for words.

*The dictionary.*  `TrieInv` says that there are strings that lead to the nodes, and a node
above each but the root, with the `Shape` of a trie.  A node's string is that of the
node above with its own substring after it, and its slot is that of the first character
of this (`Tree`, `Links`).  So strings grow on the way down and begin to differ where ways
part (`Branches`), and no two nodes have the same (`PathsDiffer`).  The values at a node spell
its string but for case (`Spells`); every key has as many places among them as in the log
(`Counted`); and while the keys agree in case, a node has just the copies of its own
string, and every key has a node (`Exact`).  The last does not follow from the others: with keys
in several cases it is false.  The loops of append and get end after as many rounds as there are
characters, since each but the last uses one (`RunEnds`, `DescentIs`, `ReachedIs`).  A split
is a node for the common beginning, which is not the string of any other
(`PartingIs`, `NoNode`), and keeps the shape (`SplitShape`).

A walk is a recursion over the nodes, and what it is for every tree takes two inductions over the
characters left below a node: that there is a function with the value the recursion says
(`WalkExists`), and that any such function gives for each node those below it, once
(`WalkHasAll`; `OneKid`: just one child leads to a node below).  The values met are then counted
as sets of places, which are the same in whatever order nodes are met (`SpotsInOrder`).

*The list.*  The invariant is an order of the nodes (`Order`): a permutation in which `next` and
`prev` lead to the neighbours, and `begin` and `end` are its ends.  Whatever is read by
following pointers is a part of it (`AlongChain`: the recursive path has one solution,
given position by position).  Both kinds of push are one insertion into the order
(`BeforeGetsIn`, `AfterGetsIn`, `InsertOrder`), the first element apart (`FirstLinks`).
`LinksAgree`, `DestroyFreesAll` and `TypeOK` are then properties of permutations.  For the
refinement, a node's place is its position (`Places`), which an insertion moves as
`IrsSequence` says (`GetsInInserts`), and the moves of an iterator are steps to the
neighbours (`NextAnswers`, `PrevAnswers`); the step from the end is `PastEnd`.

*The start.*  `ConfigInv` has three parts: where main is decides what was read
(`SettingsInv`), what the memory has made, and what was there when it did (`MemoryInv`),
and how the process can have ended (`EndInv`).  That the crash of a fresh path is excused
needs that the directory just made is the one the key file means (`MadeDirectory`,
`PlaceIsMeant`), and that an engine is missing if and only if a directory was made, that what
is made was not there (`AboveItself`).  `CastModulo` is the arithmetic of the port.
`FollowingIsAfterFirst`
says of `std::find` and the token after it what the property says of the command line;
`BesideFile` is the equation of paths behind `DataBesideConfig`, by cases on how the key file
is named.  It needs that a key file is not the root.

Only model-checked: the liveness of `IrsServer` (`StopEnds`, `EveryMessageAnswered`),
which is out of reach of the provers; `LookupLaw`, of which the proofs have the two
halves the other modules use for terms, `LookupExact` and `LookupPlausible`; and the
four runs that end in a violation.  No module that has proofs or is proved about
declares a recursive operator: recursion is by recursive functions, and a property of
numbers is a set of numbers (`Induction` of `IrsInduction`), since theorems with an
operator for a parameter cannot be used.

## 5. What is not modelled

- Significancies beyond their sign, the text of documents, the layout of answers.
- A crash or a failed close cuts a file at the end of a write, not inside one.
- A save that fails and goes on, or whose close fails, leaves what `CrashInSave`
  leaves.
- The result of `irs_storage_load`, which nobody reads.
- pop_back and remove_if, and irs_list_push other than through push_back.
- The character 127, whose slot is one past the table (`DICT:92`): what is there is
  another allocation.
- The conversions of the facade between vectors and lists, and the joining of a summary
  into a string (`irs_memory.cpp`).
- A method type `GetLangs` does not know: its list of answers stays uninitialized.
- What the storage makes of words that differ in case or look alike
  (`VocabularyAssumption`), and offsets of 2^53 and more.
- In `IrsLanguages`, directories in those of languages: they end the process at the
  start, which is in `IrsConfig` (`Unreadable`).
- Which language a document gets by alphabets where the two directories are read in
  different orders (`SameOrder`): nothing can be promised of it.
- `IrsConfigGroup::m_keys` and the typed getters, which have no caller, and the options
  `--host` and `--port` of the help text, which nothing reads.
- What the log writes.  The level is compared with the end of another set
  (`irs_server_log.hpp:80`), which has no consequence a property could be about.
- Tests and benchmarks.

## 6. Plan

1. *Done*: storage, indexing, dictionary, list, server; proofs about the first two
and the server. 2. *Done*: the engine, `IrsSummary` with proofs and `IrsLanguages`;
the    configuration, `IrsConfig`; closes that lose data. 3. *Done*: `IrsIndex`, the
inverted index `IrsStorage` implements, with the refinement    checked and proved. 4.
*Done*: proofs that nothing is left out of the index and that the loops build what
the storage takes in one step; proofs about the languages an engine loads and    about
the start. 5. *Done*: what the models compute by recursion, in summaries and
languages; the list, with    the refinement of `IrsSequence`. 6. *Done*: the
dictionary: its tree, what lookups find, and what a walk meets. 7. *Done*: lookups
among offsets, in the loops and in what they may build; words that    differ in case
in a language; the memory's directories in the start. 8. Left: a proof of `LookupLaw`;
and that the map `IrsStorage` takes for its dictionary is implemented by
`IrsDictionary` for keys that agree in case and do not look alike, as a refinement.
