# Anastasia2: models and proofs

Anastasia2 is an Apache module that publishes large XML/SGML books. A book is
prepared beforehand as a set of files (`.ngv` and `.rgv`: the elements, `.sgv`:
the text, `.idx`: the search index, `.vbs`: the variants). A request names a
book, an element and a style file; the style is a set of Tcl procedures that
are called before and after each element, and that call back into the C code
to navigate, search and format.

This directory holds TLA+ modules that model that C code, the configurations
that check them with TLC, and theorems about them checked with TLAPS.
`PROJECT.json` has the same information in tabular form: for each definition
the source lines it models, for each property a plausible bug that breaks it,
and the list of hazards the properties are for.

## 1. The system

### A request

`anastasia_handler` (`mod_anastasia.c`) parses the query and calls
`make_reader_file` (`ana_browsegrove.c`), which

1. opens the book (`create_process_book`): files, a Tcl interpreter, the arena
   from which all the memory of the book comes, two object caches;
2. fetches the element (`is_valid_el`, `get_next_sgml_obj`) and clones it;
3. makes the style (`make_new_tcl_style`) and calls its `begin` procedure;
4. outputs the element and what follows it (`output_element`, recursively
   through `output_content`) or a table of contents (`output_ana_toc`), calling
   the style at each element; the style may call any command of
   `ana_commands.c`, among them searches, which run the search engine in
   `sgrep/`;
5. calls `end`, disposes of clone and buffer, closes the book
   (`close_all_books`).

A request is served by one thread, with a book of its own. What makes the code
hard is not parallelism but reentrancy (`get_hash_lilo_obj` calls itself, the
output calls the style, which calls the output), objects that a cache may wipe
out while somebody holds a pointer to them, a memory that fills up, errors in
the middle of an operation, and indices at their limits.

### Components

| Component | Source | State | Operations | What makes it correct |
|---|---|---|---|---|
| Book arena | `ana_memory.c` | list of blocks, size lists, used list, counters | malloc, free with merging, realloc, close | blocks are a partition of the arena; lists and counters agree with it; refusals are honest |
| Element cache | `ana_utils.c` 408-545, 943-1216, 1291-1387 | hash table, list in order of use, bytes in use | fetch (recursive), wipe out, clear | table and list agree; capacity kept; each element has its own path; nothing read that was wiped out; fetches end |
| Index-entry cache | the same, `sgrep/index.c` 228-298 | the same | fetch, clone, clear | the same; lookups hold clones only |
| Clones, text objects, buffers | `ana_utils.c` 14-62, 594-697, 928-937, 1252-1290 | blocks of the arena | clone, dispose, append | every clone disposed of once; lengths fit what is allocated |
| Book lifecycle | `ana_utils.c` 136-384, 1389-1434 | books, files, interpreters, start time | open, close, check | everything opened is closed once; nothing used after the arena is gone |
| Grove navigation | `ana_browsegrove.c` 448-623, `ana_commands.c` 142-520 | the tree of the book (constant) | parent, ancestor, siblings, next, previous, child, descendant | the nth element of that kind in that direction, or none |
| Output engine | `ana_browsegrove.c` 173-363, 1119-1785 | hide, output size, position | output an element, its siblings, a span, a table of contents | each element begun is ended, in document order; clones disposed of; stops at finish and at outputMax |
| Search cursor | `ana_browsegrove.c` 1217-1234, 1786-1835, 2097-2145, 2410-2421 | hits, how many done, in_search | start, advance, suspend, resume | 0 <= done <= found while searching; a suspended search resumes where it was; each hit begun and ended once |
| Position arithmetic | `ana_browsegrove.c` 1838-2095, 2147-2404 | none | position to element, element and offset to text | inverse of each other; never out of the book |
| Variant database | `ana_commands.c` 1956-2363, `ana_utils.c` 879-895, 1532-1726 | the `.vbs` file, what the process book has read of it | make, search | what was made is read; a reading is found iff it meets all the conditions |
| Styles | `ana_browsegrove.c` 657-1075 | array of NUMSTYLES styles | find or make | a style is made once; the array does not overflow |
| Search engine | `sgrep/eval.c`, `common.c`, `index.c`, `main.c` | region lists, postings | evaluate, look up, merge | operators compute the region algebra; merging keeps the set and the order |
| Query parser, scanner, matcher | `sgrep/parser.c`, `optimize.c`, `sgml.c`, `pmatch.c` | | | adapted from the sgrep program; not modelled |
| Handler, configuration, logs, `ana_db_*` | `mod_anastasia.c`, `ana_commands.c` 1812-1940, 2366-2612 | | | input and output; not modelled |

Interactions: everything allocates from the arena; the output engine,
navigation, positions and the commands all fetch through the element cache;
the search engine fetches index entries through the other cache and positions
through the first; the output engine reads and advances the search cursor.

## 2. What is modelled

### `AnaMemory`: the arena of a book

One action per operation of `ana_memory.c`. `ana_malloc` is one step, with one
disjunct per way out: refused, a whole block, a block that is split, a split
for which `apr_palloc` has no item, and a block that is too short (see the
finding below). `ana_free` is one step up to its call of `ana_reclaim`, which
is one step per iteration of its two loops (`pc`, `cur`). `ana_realloc` is its
`ana_malloc` followed by its `ana_free`, by way of `pc = "free_old"`.

| Model | Code |
|---|---|
| `live`, `ptr`, `size`, `used`, `lprevious`, `lnext` | the `ana_hash_item`s on the list of blocks, and their fields |
| `size_list[a]` | the chain from `size_list[a]` along `hnext`, as a sequence |
| `used` | also stands for membership in `used_list` |
| `first_block`, `mem_free`, `mem_used`, `number_of_blocks`, `number_of_blocks_used`, `memory_error`, `memory_start` | the fields of the same names |
| `lost` | history: what `apr_palloc` failed to describe |
| `reply` | history: the last request and its answer |

Addresses start at 1. Callers free only what they were given and still hold,
which the model says by `UsedPtrs`. `ana_free` of any other address returns
at once in the code.

`Arena` is what the allocator promises: a set of stretches that callers hold,
grants of unheld addresses, and refusals only if no stretch of that length is
free. `KeepsPromise` says that `AnaMemory` implements it; the steps of
`ana_reclaim` are stuttering steps of it.

### `HashLilo`: the cache of elements

`get_hash_lilo_obj` with what it calls: `create_sgml_obj` makes the element,
for which `make_element_path` fetches its ancestors, up and then down again,
through `get_hash_lilo_obj`. `frames` is that stack of calls; each frame has the
local variables of `make_element_path` (`this_el_num`, `check_el`,
`these_levels`, the path so far) and where it is. A step is the code between
two of those calls, or one iteration of the wipe-out loop. While an element is
made, its ancestors come, move to the front, and are wiped out again.

| Model | Code |
|---|---|
| `cells`, `comp_int`, `path` | the `hash_lilo_item_inf`s in use, the number and the path of their elements |
| `htable[a]` | the chain from `htable[a]` along `next_hash`, as a sequence |
| `lilo` | `first_lilo`, `last_lilo`, `next_lilo`, `previous_lilo`, link by link |
| `current`, `number` | the fields of the same names |
| `state` | open; being cleared, item by item; closed; or `overrun`, after a write behind `these_levels` |
| `failed` | history: a cell has been refused |

A path is the sequence of the elements whose names it joins. What an element
takes (`Charge`) is a constant of the element: the fields that
`create_sgml_obj` adds up do not change while it is cached, and
`delete_sgml_obj` adds up the same ones. Failures: `ReadFails` for the early
returns on a failed read or refused memory, `CellRefused` for
`new_hash_lilo_item`, at most once (`failed` is the bound).

`LruCache` is what the cache promises its callers, who hold pointers into it:
the elements fetched last, in order; one goes only to make room, and then the
one that was not used for longest. `KeepsPromise` says that `HashLilo`
implements it.

Index entries are cached by the same code, but making one fetches no other
one: the behaviours of `HashLilo` whose calls do not nest.

### `OutputEngine`: how a page is output

`make_reader_file`, `output_element`, `output_content`, `process_style` and
the span that a command formats (`format_kwic_span`, `format_arbitrary_span`
with `walk_down_tree` and `walk_up_tree`), with the search cursor that they
advance. `output_element` and `output_content` call each other: `stack` has a
frame for each call, with its local variables, where it is (`at`), and whether
it holds a clone (`holds`); `ret` is what the call that ended last returned. A
step is the code from one call of a style procedure to the next. What a
procedure can do to the output is a choice: write, set `hide`, `finish`, name
the next element in `startEl`, fail, or, where the bounds allow, format a span.
A span can be formatted wherever `process_style` is called for an element that
is being output (`InElement`: before, after and content, of an ancestor that is
climbed to, of the elements that `walk_down_tree` and `walk_up_tree` pass, and
so within another span) and for found text (`InFound`: the five places of
`output_content`, 1574, 1590, 1634, 1658 and 1676). At each of these places
`output_content` waits at a place of its own (`endsCurrent`, `endsPrevious`,
`ended`, `begins`, `ends`), with what it has read of the search before and what
it reads again afterwards.

| Model | Code |
|---|---|
| `stack`, `ret`, `bounds`, `last_el` | the calls, what they return, the parameters they hand on |
| `hide`, `in_search` | the fields of the book |
| `texts`, `done`, `hit` | `search_texts_found`, `ntexts_done`, `current_search` |
| `len` | the length of the output buffer, capped above `outputMax` |
| `clones`, `leaked` | clones in use, and those that nobody holds any more |
| `spans` | how many spans may still be formatted (a bound), and whether one was for found text (history) |
| `open`, `begun`, `upto`, `open_hits`, `told_to_stop` | history: elements not ended, last one begun, how far its text is written, hits begun and not ended, a 4 or a 0 was returned |

Abstracted: what is written is its length, and how far the text of an element
is written. Left out: `output_ana_toc`, `outputSGML`, a second search in the
middle of a page. The three spans of a KWIC line are three single spans. The
clone made for a procedure for found text is disposed of on both its ways, and
not counted. The begin and end procedures of the page format no span: the search
has not started, or is over, and nothing is being output. Behind the last hit,
`increment_curr_search` and the loop over the hits of a text read what is behind
the hits in memory: `page = "undefined"`.

### `Grove`, `SpanPos`, `VBase`, composed by `BookCommands`

What a style procedure asks of a book. These are algorithms on a constant
book, so that they are operators, and each command is one step of
`BookCommands` from a book and arguments to an answer (`reply`).

- `Grove`: the `find_` functions and the commands `ancestor`, `leftSibling`,
  `rightSibling`, `child`, `descendant`, `previous`, `next`, with numbers, names
  and paths of names. A book is a record of functions on its elements: names,
  links, and where an element is in the text and in the tagged text.
- `SpanPos`: from a position to a text element and back
  (`get_el_sgp_rel_pos`, `get_real_rel_pos`, `get_rel_pos`), and the bounds of
  `nextChars`, `theseChars`, `prevChars` and `makeKWIC`, with a style (to whole
  characters) and without (to white space). Bytes are told apart as far as the
  code does: a character, white space, the first byte of a longer character,
  another byte of it. Integers read as unsigned wrap around.
- `VBase`: `makeVBase` and `searchVBase`: one record for each reading with the
  set of its witnesses, the `.vbs` file that holds them, up to eight conditions,
  a page of hits.

A base of variants outlives the command that makes or reads it, so that
`BookCommands` has two more variables. `vbs` is the file: not there, empty, begun
(the header is written, with a count of 0, and some of the records) or made (the
count has been written over it). `make_ana_vbase` is the set of the files it may
leave: every early return after the file was opened leaves it begun, and a file
that is not there stays so, because it is opened to be truncated and not created
(`ana_commands.c:2067`). The numbers of the header are what a reader makes of
them. Which that is depends on the machine (`Builds`: its byte order, the bytes
of a long, what is behind `n_rdgs` on the stack). `vbase` is what the process
book has read of the file, once: the file may be another by then, and the ways
out of `search_ana_vbase` for a bad condition destroy the pool that a base read
in that call is in (`Freed`). A search of memory that holds no records may
answer anything (`Anything`: nothing, no hits, an element that is no reading).
A new request (`GoOn`) opens the book anew. Left out: a type is tested with
`strstr`, which `TypeParts` gives as pairs of names; `write_num` on a big-endian
machine with longs of 8 bytes, where it would write zeros (`BuildsAssumption`);
the overflow of `record_size * n_rdgs`, and an allocation of that size that is
refused, which both count as a file too short for its header. The first argument
of `makeVBase` after the elements, the witnesses to be left out, is `exclude`.

### `Regions`, `Postings`, composed by `SearchEngine`

- `Regions`: region lists and every operator of `sgrep/eval.c`, each as the
  code passes through its two lists. A region is `[start, end]`, a list its
  regions in order and the mark `nested`. An operator may also abort (an
  assertion of the code) or not end.
- `Postings`: the codec of postings in both directions (`add_integer`,
  `get_integer`, `add_region_to_index`, `get_region_index`), the walk through
  the tree of terms (`do_recursive_lookup`) and the merging in slots
  (`read_and_sort_postings`), with entries that cannot be read and memory that
  is refused.
- `SearchEngine`: a query is evaluated node by node (`recursive_eval`, whose
  assertion is checked after each), and a page of what is left becomes the
  answer to `findSGElement`, `findSGText` or `countSG`, in arrays that stay the
  book's from one search to the next (`found_els`).

### `BookLifecycle`: what a request opens and gives back

The book with its arena and interpreter, the styles, each with an interpreter
and a pool, and the output buffers. `make_reader_file` is one action per phase
and per way out; the commands that format with another style are `Format` and
`FormatDone`, nested (`stack`) as the Tcl procedures nest, with `write_output`
between. Files that do not exist and memory that is refused are faults,
`MaxFaults` of them. `lost` is history: interpreters that nobody can delete.
What is formatted is left to `OutputEngine`.

## 3. What the runs check

| Run | Bounds | Shows |
|---|---|---|
| `ana_memory` | 7 addresses, 3 size lists (0, 1, 2 and up), 4 items, requests of 1, 2 and 4 | `TypeOK`, `Partition`, `Chain`, `SizeLists`, `Coalesced`, `Counters`, `KeepsPromise`, `CallsReturn` |
| `ana_memory_short` | 7 addresses, 3 items | violates `DeepCheck` (finding 1) |
| `hash_lilo` | a book of 6 elements 3 deep, capacity below what a path takes, 3 chains | `TypeOK`, `Consistent`, `Counted`, `Bounded`, `PathsRight`, `InScope`, `KeepsPromise` |
| `hash_lilo_calls` | 3 elements, no room for two of them | `FetchReturns` |
| `hash_lilo_deep` | `n_levels` 2, elements 2 deep | violates `PathsFit` (finding 2) |
| `output` | a book of 6 elements with two texts, one hit, one `startEl`, one fault, all values of `hide` | `Nested`, `DocumentOrder`, `ClonesDisposed`, `StopsWhenTold`, `OutputEnds` |
| `output_hits` | the same book, two hits in one text or in two, one span formatted from any procedure, of an element or for found text, by any of four commands, one fault | `CursorOnHit`, `HitsPaired`, `TextComplete` |
| `output_across` | the same, a hit from one text to the next | violates `TextComplete` (finding 3) |
| `book` | all trees of 5 elements with names `a` and `b`; 4 books with 8 to 16 bytes of text; 24 apparatus of 3 witnesses, on machines of either byte order | `FindsNth`, `PathsInvert`, `NextSpan`, `PrevSpan`, `WholeWords`, `KwicContiguous`, `FindsReadings` |
| `book_vbase` | the same 24 apparatus, a little-endian machine | violates `MadeIsRead` (finding 4) |
| `engine` | all lists of up to 3 and up to 2 regions over positions 0 to 3, either way round, of up to 3 and 3 over positions 0 to 2, of up to 5 for one operand; two and three operators on short lists; two searches in a row; 1 to 4 terms with 4 lists of postings and a fault | `Marked`, `Selects`, `Kin`, `Combines`, `LookupWhole`, `PostingsRead`, `Pages` |
| `lifecycle` | 4 styles in an array of 3, commands nested 3 deep, 2 faults | `OwnBuffer`, `Released` |

Why the bounds are enough. In the arena, a merge concerns a block and its two
neighbours, and a neighbour of theirs whose link is changed; four items give
every arrangement of those. Three size lists have an
exact list that is empty or not, and the mixed last one, where sizes differ
and the first search has to look. In the cache, chains of two cells (six
elements in three lists), a last cell that is also the first, an element too
large for the whole cache (5), a path of three whose members do not fit
together: each branch of the code is taken. Cells are symmetric: they are only
compared.

In the output, the book has a text with a sibling to its right, one without,
an element two levels deep to climb out of, an empty element and one with no
procedure; a hit is at the beginning, in the middle or at the end of a text.
Lengths above `outputMax` are not told apart; it is 3 in `output_hits` and 4 in
the others, in pieces written, so that pages end before it is reached and
because it is. One span is formatted in a page, so that no run has a span within
a span: the theorems are for any number. In `book`, numbers up
to 3 go beyond the longest chain of four; offsets go from -1, which stands for
the end, to 3, and are asked of elements shorter than that; the texts are long
enough for the window of nine bytes that `calc_prev_chars` looks back through,
and one ends with a longer character. A tag takes one byte of the tagged text: positions are only
compared with the ends of elements. In `engine`, an operator compares the
regions it is at in both lists and what it keeps of those before; three
regions on a side and two on the other have every order and tie of those, and
`outer` and `inner`, which keep a whole run of nested regions, have five. The
postings of `engine` are over positions 0 to 4 and over the positions where a
number takes another byte. In `lifecycle` a style is made, found again while it
is not at work, and the array is full.

`CHECK_DEADLOCK FALSE` is set in the runs whose models stop where the code
does: after a short block, after an overrun or an assertion, when the book is
closed, when the page is output, when all queries are answered. The run `book`
never stops.

**Fairness.** A call that has begun goes on: weak fairness of the steps of
`ana_reclaim` and of the free in `ana_realloc`; of the steps of
`get_hash_lilo_obj` other than its failures; of the clearing; and of the steps
of a page that is being output, whose procedures are taken to return. One
thread executes them, and nothing else runs on the book meanwhile. Nothing says
that a request, or another call, ever comes, or that a failure ever occurs.
`OutputEnds` counts on procedures naming another element in `startEl` a bounded
number of times: a style that always names an earlier one never ends, and that
is the style's doing.

**Mutants.** Each property of a passing run has a definition in the module,
marked "Variant", with a plausible bug in the code that it models, for which
TLC finds the property violated; `PROJECT.json` lists the pairs.

### Findings

1. `ana_malloc` hands out a block that is too small. When no block is large
   enough, the second search (`ana_memory.c:159`) starts again at the list of
   the request without comparing sizes. For a request of `ANASIZEHASH - 1` bytes
   or more, it takes the head of the last list. The rest then has a negative
   size and is stored in front of `size_list`. `deep_check`'s own comparison
   fails from then on (`DeepCheck`). It takes an arena with no block large
   enough, but some on the last list.
2. `make_element_path` writes one entry behind `these_levels`
   (`ana_utils.c:956`) for an element `n_levels` (32) deep or deeper.
3. When a hit ends in a later text than it began, `output_content` cuts what
   follows it at the offset where the hit began, which is one of another text
   (`ana_browsegrove.c:1640`).
4. On a little-endian machine `searchVBase` does not read what `makeVBase` has
   made, which is "to make a vbase, .vbse, file to be read and used by vbase
   routines in anv files" (`ana_commands.c:1953`). In the end `makeVBase` writes
   the number of readings over the header: the int `n_rdgs` as it is in memory,
   in `sizeof(unsigned long)` bytes (2168-2170), while every other number of the
   file is written with its most significant byte first (`write_num`) and read as
   four bytes that are upended (2232-2240). The number is read from the wrong
   end, the file has less in it than that, and the book gets no base. Where a
   long has eight bytes, the size of a record is written over too, with what is
   behind `n_rdgs` on the stack. On a big-endian machine with longs of four
   bytes the two agree (`upend`, `ana_utils.c:886`), and TLC finds `MadeIsRead` to
   hold. `FindsReadings` and its theorem are about a base that was read as it was
   made (`AsMade`).

All the safety properties of `AnaMemory` hold until finding 1 occurs, which the
model marks by `pc = "undefined"`, and say so (`Sound`).

### What the properties leave out, because the code is otherwise there

Each of these was met as a counterexample of a first form of a property; the
property names the case where it excludes it, and the model keeps it.

- Output: after `startEl` the order of the book begins anew (`DocumentOrder`);
  a `startEl` that is accepted forgets a clone, and so do the ways out for
  `hide` and for a hit in hidden content (`leaked` of `ClonesDisposed`). A span
  does not search, but the end of a hit is also looked for with
  `previous_search`, which does not look at `in_search`: a span over a text in
  which the last hit ended calls the procedure for its end again, although "we
  disable is_curr_search in this, to prevent side effects (undesirable
  outputting of element fragments, etc)" (`ana_browsegrove.c:2096`). `QuietSpan`
  says that it does not; with the constants of `output_hits` TLC finds a
  counterexample.
- Output, spans for found text: a procedure for found text runs between two hits
  of one text. If it formats a span of that text (`makeKWIC` in the before
  procedure of the second hit), the test at 1613 finds the previous hit in the
  text, the loop at 1651 passes the hits from there on, the one the procedure was
  called for among them, and `in_search` is given back as 1: the cursor is behind
  the last hit. So `CursorOnHit` and `SpanPassesNoHit` claim nothing once a
  procedure for found text has formatted a span (`spans.found`). Without that
  condition TLC finds `CursorOnHit` violated, with the constants of
  `output_hits`. The model goes on from there: what the text then reads behind
  the hits is `page = "undefined"`. After a
  span that fails, the commands for characters restore `hide` and leave the
  search suspended for the rest of the page (`ana_commands.c:1442`).
- Navigation: the comment above `find_descendant` says that it goes down: "Look at
  one level at a time, checking to find first element at this level with a
  child", and across and up and down again until "no more levels, and search
  fails" (`ana_browsegrove.c:572-580`). Its body looks at the children only
  (587-598), and so `descendant` is `child` but for its way through a path. The
  model does what the body does. Code and comment disagree on what is meant, so
  that `FindsNth` and `PathsInvert`, and their theorems, leave `descendant` out
  (`Agreed`). The root is not found by `ancestor`.
- Spans: `prevChars` is wrong for the first nine bytes of a text, and
  `theseChars` moves a start behind a longer character forward (only its
  bounds are modelled, no property is claimed for them). Entities (`SDATA`)
  are output whole.
- Variants: a condition with a type also accepts readings of other types
  (`ana_commands.c:2346`). `makeVBase` cannot make a file that is not there: it
  opens it with `APR_FOPEN_TRUNCATE` and without `APR_FOPEN_CREATE` (2067). A
  file that it has begun and not finished, because a read failed, has a count of
  0, and a search of it answers that there are no such readings. A search whose
  condition is refused, and that has read the base, frees it and leaves the
  pointer to it, for the next search to read (2251, 2267-2298). A base that was
  read stays the process book's although the file is made anew. For the last
  three, `FindsReadings` speaks of the base that was searched, if it is one that
  was made to the end and is still there. The command is registered as
  `seachVBase` (`ana_browsegrove.c:1041`).
- Search operators: `or` does not see nested results as nested, after which the
  next operator's assertion ends the process (`eval.c:240-249`, `81`); `first`
  and `last` of nested lists, `near_before` when one region is next to several,
  `near` with equal starts and at position 0, `inner` and `outer` when regions
  start together, `extracting` and the ordered operators on nested lists;
  `parenting` does not end when a parent ends where a child starts, and
  `childrening` drops parents that are nested. `Fits` of `SearchEngine` lists
  them, by operator.
- Postings: a region that starts where one of another length starts or ends can
  be read as the tag for a new length; a number of 2^28 or more is not written.
- Pages: an empty region in a page makes the search fail; a start after the
  last result leaves the page of the search before.
- Lifecycle: interpreters are lost when the book or the style object is
  refused after they were made; without an index the book opens, and closing it
  reads the index that was never set (`phase = "no_index"`); with the array of
  styles full, the next one is looked for behind it (`"overrun"`);
  `format_arbitrary_span` does not look at whether it was given a buffer
  (`"no_buffer"`); and a style that formats with itself, directly or through
  others, goes on writing to the buffer of the inner command, which is then
  disposed of (`ana_browsegrove.c:674`). With the pair page, page in `Formats`,
  TLC finds `OwnBuffer` violated.

## 4. What is proved

For every value of the constants that satisfies the assumptions named below,
by TLAPS. The modules: `CollectionLemmas` has facts about the community modules'
operators on sequences, sums over finite sets and least numbers that the
library does not state, and about recursive functions; each other proof module
is about one component.

| Theorem | Module | States |
|---|---|---|
| `Invariant`, `Types`, `ArenaIsPartitioned`, `BlocksAreChained`, `FreeBlocksAreListed` | `AnaMemoryProofs` | `TypeOK`, `Partition`, `Chain`, `SizeLists` |
| `NothingLeftToMerge`, `CountsAddUp` | `AnaMemoryRefinement` | `Coalesced`, `Counters` |
| `ArenaRefined` | `AnaMemoryRefinement` | `KeepsPromise`: `AnaMemory` implements `Arena` |
| `TypeCorrect`, `TableAndListAgree`, `CountsRight`, `PathsAreRight`, `AncestorsInScope` | `HashLiloProofs` | `TypeOK`, `Consistent`, `Counted`, `PathsRight`, `InScope` |
| `Refinement`, `KeepsToCapacity` | `HashLiloProofs` | `KeepsPromise`: `HashLilo` implements `LruCache`; `Bounded` |
| `EverythingReleased`, `OutputGoesHome` | `BookLifecycleProofs` | `Released`; `OwnBuffer` if no style formats with itself |
| `ClonesAccounted`, `NothingBegunAfterStop`, `CursorIsOnHit` | `OutputEngineProofs` | `ClonesDisposed`, `StopsWhenTold`; `CursorOnHit` where spans pass no hit, until one is formatted for found text |
| `SpansPassNoHit`, `CursorStaysOnHit` | `OutputEngineProofs` | `SpanPassesNoHit` and `CursorOnHit` if each hit is in one text and no procedure sets `hide` to 1, with spans from every procedure of an element; both until a procedure for found text formats one |
| `InDocumentOrder`, `ElementsNest` | `OutputEngineOrder` | `DocumentOrder` without `startEl`; `Nested` without spans |
| `HitsArePaired`, `TextIsComplete` | `OutputEngineOrder` | `HitsPaired` and `TextComplete` if nothing jumps and each hit is in one text |
| `Replied` | `BookCommandsProofs` | the inductive invariant: an answer is that of its command, and what is read of a finished file has the readings of the book |
| `NthIsFound`, `PathsLeadBack` | `BookCommandsProofs` | `FindsNth` and `PathsInvert`, which do not speak of `descendant` |
| `WordsAreWhole` | `BookCommandsProofs` | `WholeWords` |
| `NextEndsACharacter`, `PrevStartsACharacter` | `BookCommandsProofs` | `NextSpan`, `PrevSpan` |
| `ReadingsAreFound` | `BookCommandsProofs` | `FindsReadings`, after any makings and searches |

### Assumptions

On the constants, each named in the module that declares them, and evaluated by
TLC on every run:

- `AnaMemory`: a positive number of size lists, an arena not smaller than that,
  requests that are numbers, items of which none is `NULL`.
- `HashLilo`: the number of an element's ancestor is smaller than its own (the
  book is numbered in document order), sizes and the number of chains are
  positive, cells of which none is `NULL`.
- `BookLifecycle`: none but the shape of `PageFormats`. `OutputGoesHome` has
  the hypothesis `Acyclic`: an order of the styles exists in which each formats
  only with later ones. Without it the property is false (section 3).
- `OutputEngine`: `Numbered`: elements have their numbers in the order in which
  they begin (`find_next_el` takes the next number for the next element), so
  that what is below one lies between it and its last descendant; the root is
  an element, not text; a search finds elements of the book. A text has a
  length and no element below it; `process_style` sets `hide` to 0, 1 or 2 and
  nothing else; the bound on spans is a number.

- `BookCommands`: `BooksAssumption` and `ArgsAssumption`. A book is a tree whose
  elements are numbered in an order in which what is above comes first
  (`IsTree`), with the links that its index files hold: the first below, the
  nearest before and after. Its texts are one after the other in the file, in
  the order of the elements (`IsLaidOut`), which is what `get_real_rel_pos`
  counts on when it takes the next number for the next text; the file is shorter
  than the greatest unsigned number, and is UTF-8 with characters of at most four
  bytes (`IsUtf8`). The index files are written beforehand, outside the
  repository, and the code checks none of this. Offsets are -1 (the end) or not
  negative, and at least one character is asked for: `valid_num_param` lets
  other numbers through, for which neither the model nor the theorems claim
  anything. Names are texts. Trees, texts, names, paths and numbers are
  otherwise any. An apparatus (`IsApparatus`) is a list of `<app>` elements with
  readings, each with a set of witnesses; a condition has the parts that
  `read_query_cond` tells apart, and its number is not negative; the bounds and
  the page of a search are any integers. `BuildsAssumption`: a machine has longs
  of four or eight bytes, and of four if it is big-endian; what is behind
  `n_rdgs` on the stack is any number.

Hypotheses of theorems, each because the property is false without it:
`WitnessesOnce` for `ReadingsAreFound` (of a witness that is twice in the list,
the bit of the first place is set, and `\all` asks for both);
`StartEls = {}` for `InDocumentOrder` (a `startEl` that names no element begins
again at the root, one that is reached twice begins an element twice);
`Spans = {}` for `ElementsNest` (`walk_up_tree` of a span whose output an after
procedure has finished ends an element that has been ended), which also takes
`outputRight` only with `outputSiblings`; `SpanPassesNoHit` for `CursorIsOnHit`
(a procedure that sets `hide` to 1 in a span takes the cursor past a hit that
ends there, and in the end past the last);
`Hides \subseteq {0, 2}` for the same reason, and `Within`, each hit in one
element, for `SpansPassNoHit` and `CursorStaysOnHit`. `HitsArePaired` has both
of these and `StartEls = {}`, `TextIsComplete` has `Within`, `StartEls = {}` and
`HitsInOrder`: a hit ends inside its text, and before the next one of the same
text begins. With a `startEl` that leads back, a text is output twice, and the
second time the cursor is past its hits; an element whose procedure hides its
children ends a hit that has been ended; a hit from one text to the next is
finding 3; between hits that overlap the length to write is negative. The hypotheses of both hold in the run
`output_hits`.

### Arguments

**The arena.** None of `Partition`, `Chain` and `SizeLists` is inductive by
itself. That malloc hands out a free block needs the size lists; that unlinking
finds the block needs each list to hold it once; that a merge covers exactly
the two blocks needs the chain, and that the absorbed one is on no list any
more needs the lists again; that freeing a block puts it on the right list
needs that used blocks are on none. And between the steps of `ana_reclaim`,
`cur` must be a free live block, or the end of the list in the second loop. So

    IInv == TypeOK /\ Closed /\ Partition /\ Chain /\ SizeLists /\ Reclaiming

where `Closed` says what is left when the arena is gone, and `Reclaiming` where
the loops stand. The proof has one lemma per action, and under it one step per
conjunct the action can disturb. Cutting a block and merging two are treated
once each: the two halves of a stretch cover what it covered, and are disjoint
from what it was disjoint from.

`Coalesced` holds only between calls. During `ana_reclaim` one pair of free
neighbours is allowed, the one with `cur` that the loop has still to look at:
`LeftToMerge` says which, and `NextIsNearest` that the block which `lnext` names
is the nearest above, so that two blocks are neighbours exactly if they are
linked. `Counters` follows by sums over the finite sets `live` and `lost`, one
block more or less at a time. `ArenaRefined` maps each step to a grant, a
refusal, a return or a stutter of `Arena`. That a refusal is honest is the hard
case: a free stretch long enough, of whatever free blocks, would have to lie
within one, because no two free blocks are neighbours (`LeftToMerge` with no
call under way), and that block would have been found.

**The cache.** `IInv == TypeOK /\ Store /\ Threaded /\ Counted /\ Making`. The
doubly linked list is stated as a property of links: there is a sequence of the
cells, each once, that `next_lilo` and `previous_lilo` follow; each of the four
operations on the list (in front, off the end, to the front from the middle,
from the end) is a lemma about such sequences. `Making` relates the stack of
nested fetches to the book: every frame makes an element whose fetch was asked
for by the frame below, on its way up or down the path, and none is cached.
That no fetch wipes out what it has just answered needs that the element made
is in front and that room is made before. What `PathTo` computes is used
through its equation; where an induction over the path would be needed, the
proof takes a counterexample with the least number. `Refinement` maps the list
to the order of use of `LruCache`, with its own sequence.

**The lifecycle.** `IInv == Types /\ Fresh /\ StylesHeld /\ BuffersHeld`: the
interpreters not yet given back are those of the styles, the book's and those
lost on a named path; buffers in use are those of the commands on the stack.
`OutputGoesHome` adds `OwnHeld(R)` for an order R of the styles as in `Acyclic`:
below a command at work there is none for the same style.

**The output.** `IInv` says of the stack that every call is where its caller
called it (`IsStack`), that a call told to stop is at a place from which it
hands that on (`Stopping`), and that the clones in use are those held by calls,
`make_reader_file`'s and those left behind (`ClonesCounted`). `CursorInv` adds
that what a span saved of the search was right when it began and still is.
`HitInv` shows that, until a procedure for found text formats a span, a span
passes no hit although the output looks for the end of the last hit in spans
too: it would have to begin between two hits of one text, and there the output
is at the hits of that text (`HitByHit`), where the procedures that are called
are those for found text, or has been told to stop. Procedures of an element, of
an ancestor that is climbed to and of what a span walks through (`InElement`)
run before the text or after it. The invariants are stated `UntilFound`. The
search is suspended while a span is formatted, and so is what a span within a
span gives back (`Quiet`).

`InDocumentOrder` needs the place of every call on the stack in the book
(`AtPlace`, `Placed`, `Linked`): below the element that it outputs, or past it,
with what is still to come after the element begun last; a span keeps the place
it interrupted, and has one of its own meanwhile. `Numbered` turns "after" into
an order of numbers: what is below a sibling comes after what is below the one
before. `ElementsNest` has a witness for each call: the sequence of elements open
above it when it was made, which it finds again when those that it called have
returned; only `make_reader_file`'s call goes right, and so climbs.

`HitsArePaired` and `TextIsComplete` share `TextInv`, which speaks of the time
until the first span. `OnCourse`: the cursor is on the next hit. `Passed`: the
hit passed last ended in an element that has been begun. Since elements are
begun in document order (`InOrder`, from `InDocumentOrder`), no hit that was
passed ends in the text that begins next, so its output starts at its first
character. `AtText` then says, for each place of `output_content`, how far the
text is written: to the beginning of the next hit in it, or to its end. Once the
page has been told to stop, neither property claims anything for what is left:
only that it stops (`NothingBegunAfterStop`).

**The commands that read a book.** A command is one step, so that the inductive
invariant is short (`IInv`: the book is one of the books, the answer is that of
the command to the arguments it records, and a file that is begun or made, and a
base that was read as it was made, have the records of the book, for the
witnesses that were not left out), and the theorems are about what the operators
compute. Many of these are recursive functions, and a recursive
function has to be shown to exist before its equation may be used: if every step
makes a rank less, there is a function that satisfies the equation (`StepsExist`
of `CollectionLemmas`: the values up to a rank are defined step by step, and two
such definitions agree where both have one). The rank is how far it is to an end
of the book.

- `NthIsFound`. The chain of links from an element *leads* through a set in its
  order (`Leads`): each link is the nearest element of what is left of the set.
  `NthOnChain` says that `NthAlong` on such a chain is the n-th of its members
  of that name; that each direction is such a chain is a lemma for each.
- `PathsLeadBack`. The way down and the way up are sequences of elements
  (`Walk`). Each step down goes to an element directly below with the next
  name, and `ancestor` takes back one at a time, because `find_parent` looks at
  the immediate parent only.
- `WordsAreWhole` follows from where the code looks for white space in what it
  has read.
- `NextEndsACharacter`, `PrevStartsACharacter`. A place in the file has several
  names, an element and an offset (`IsPlace`). The descent from the root ends at
  an element that holds the place (`DescendHolds`) or nowhere, and then the
  command has no bounds; going forward over the texts keeps the place
  (`RealPosKeeps`), because no bytes are between them. Of the ten bytes that are
  read one begins a character, because a character has at most four; the first
  one after, or the last one before, is where the bound goes, unless the place is
  in the last character of the file.
- `ReadingsAreFound`. Every loop of the search keeps, of what it passes through,
  what is in a set (`Kept`). What is kept of a list is as long as the set of the
  places that are kept, and its j-th element is at the j-th of those places
  (`KeptPicks`, by a least place where this fails). The records are one for each
  reading, in the order of the readings (`RecordsAre`: two lists of lists of the
  same shape, made into one list each, `PairedFlatten`). A condition counts
  witnesses by their numbers: the numbers it takes are those of the witnesses it
  names, each once (`ConditionNames`), so that as many bits are set as witnesses
  have the reading (`CountsNamed`); as many as were named means all of them, and
  as many as have it at all means no others (`CountsDecide`). `ConditionMeant`
  then goes through the signs and the negation of each, as `read_query_cond`
  turns it into a comparison and a number.

`NextSpan` says more than it did: the last character of a text, which no other
begins after, is cut, which no book of the run had shown. The run `book` has
such a book now (`Cut`).

### What stays with TLC

- `CallsReturn`, `FetchReturns`, `OutputEnds`: liveness under fairness, for which
  the provers have no `ENABLED`.
- `QuietSpan` and `SpanPassesNoHit` are false for some styles (section 3), and so
  is `CursorOnHit` after a span for found text.
- `MadeIsRead` is false on a little-endian machine (finding 4). It is a statement
  about the machine; no theorem says that it holds on another.
- `KwicContiguous`: holds of the books of the run, and not of every book that
  `BooksAssumption` admits. The bisection (`get_el_sgp_rel_pos`) answers a
  position at the end of an element with `right_sib_el`, which can be that of an
  element it passed earlier, or what the stack held.
- All of `SearchEngine`: what its algorithms compute is compared with reference
  definitions over bounded inputs. They pass through sequences (region lists,
  postings) with operators of `Regions` and `Postings` that are declared
  `RECURSIVE`, which no installed prover takes, and an induction over data is
  not open to the provers either. For recursive functions of numbers a least
  counterexample replaces the induction, and is what the proofs above use.
- A condition with a type after `with`, and a condition `[0 sigil]`: the runs
  have them, and `FindsReadings` claims nothing for them.

## 5. Plan

Done: all parts of a request but those of section 6. What is left:

1. `CachedPointers`: the callers that keep a pointer across fetches
   (`output_ana_toc`, `get_el_sgp_rel_pos`, `walk_up_tree`), over `LruCache`.
2. `output_ana_toc`, and a search in the middle of a page, in `OutputEngine`.
3. `Pages` as a theorem (`run_stream`, `pr_display_gc_list`), which needs the
   recursive operators of `Regions` and `Postings` to be written as functions;
   then what their properties say of one pass over one list.

## 6. Not modelled

- Tcl, APR, Apache, MySQL: outside the repository. A style is what its
  procedures can return.
- `sgrep/parser.c`, `optimize.c`, `sgml.c`, `pmatch.c`: adapted from the sgrep
  program. A query reaches the evaluation as a tree, whatever its text; the
  scanner and the matcher make indexes beforehand. The optimizer shares lists
  between equal subtrees, which the evaluation frees by counting references;
  lists are values in `SearchEngine`.
- The writer of indexes but for its encoding: memory loads, spool files.
- Lists of all characters (`chars`): any search in one fails an assertion
  (`common.c:188`).
- The handler, the configuration directives, cookies, headers, logs and
  `ana_db_*`: input and output without state of their own.
- Text objects (`add_str_to_text_obj`): their contents; that `ana_realloc` may
  refuse is in `AnaMemory`.
- Parts of functions that are modelled: the branch of `clear_sgml_items` for a
  list that is corrupt (`ana_utils.c:1369-1377`; `Consistent` says that it is
  not); the count of nodes that `remove_duplicates` leaves as it was for lists of
  more than one node (`common.c:503-512`), more regions than any run has; the
  posting in the slot that is lost too when the merge of a slot fails
  (`index.c:370-376`), and the refusals of `index_lookup_sorting` (166-183); the
  root that `do_concat` puts on a query that finds (`common.c:150-162`), and that
  elements and texts found are in one array (`main.c:533`, `609`); memory that is
  refused in `countSG`, and `memory_error` from one search to the next.
- Time: a command that finds the timeout passed fails, and a procedure can fail
  at any time.
- A second book opened from a procedure: `create_process_book` with an
  interpreter returns the first one.
- Threads: each request has its own book, arena and caches; what is shared
  (`anastasia_info`) is written when Apache starts.
