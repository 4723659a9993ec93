# RegexMatcher in TLA+

TLA+ models of the two matchers in this repository, checked by TLC on small instances. For the route matcher,
from the text of a pattern to the call of a handler - the parser, the build of a table, its layout and the
object that owns it, the words a path is read by, the walk, the lookup, numbers and the dispatch - every safety
property the runs check is also proved by TLAPS, for every instance; of the regex matcher, what its graph and its
walk share is.

- The **route matcher** (`include/matcher/route/`) maps an HTTP method and a path to a route. A
  build lays routes out in flat arrays; a lookup searches them without allocating.
- The **regex matcher** (`include/matcher/core.hpp`, `include/matcher/impl/`) wires any number of
  regexes into one graph, optionally precomputes facts about it (`compile()`), and walks it to
  find every regex that accepts a whole text.

They share no code. Each is sequential: no locks, no threads, no I/O. What is hard in them is
backtracking over shared mutable state, arrays without bound checks, arithmetic on whole words of
text, cached facts that outlive what they describe, memory handed from object to object, and in the
regex matcher the order in which regexes are added and compiled.

## Inventory

| Component | State | Operations | What makes it correct |
|---|---|---|---|
| Pattern parsing (`pattern.hpp`) | position, segments so far, count of parameters | `parse_pattern` | accepts exactly the patterns of `docs/route-semantics.md`; names the first error and where it is; stays in its arrays |
| Typed segments, conversions (`pattern.hpp`, `checked.hpp`) | none | `matches_u64`, `matches_i64`, `convert` | the number tests agree with the 64-bit ranges; a segment that matched always converts |
| Table build (`table.hpp`) | entries, exact-match slots, nodes, edges, roots, the stack of literal groups | `build_table`, `TrieBuilder::build`, `table_layout` | the table answers for exactly the routes given; duplicates are found and named; no slot is written twice; every probe ends; the arrays lie apart |
| Walk (`lookup.hpp`, `walk`) | node, position, stage, stack of choices, captures | one per kind of child, return, backtrack | the most specific match and its captures; stack and captures stay in their arrays; it returns |
| Lookup (`lookup.hpp`, `find_into`) | the caller's `Match`, a scratch array | `find_into`, `find_in`, `allowed_methods` | an answer depends on the request alone, also into a used `Match`; 405 names exactly the methods that match |
| Words and hashes (`detail/words.hpp`) | none | loads, slash search, comparisons, hashes | as a byte-by-byte loop; never reads outside the text; the compiler and the program see the same words |
| Runtime table (`runtime_table.hpp`) | one owned block, its size, a view into it | copy in, move, assign, release, hand out a view | a block has one owner; a view is good exactly while some object has its table |
| Compile-time table, checked front end (`static_table.hpp`, `checked.hpp`, `method.hpp`) | none at run time but the table | constant evaluation, dispatch with converted captures | a handler gets what the path says at its parameters |
| Graph construction (`core.ipp`, `node.ipp`) | nodes, edges with the regexes on them, limits, tags pending | `add_regex`: `process`, `processSet`, `processLimit`, `connect_with`, `absorb` | the graph spells exactly the regexes; a limit belongs to one regex; it ends |
| `compile()` (`core.ipp`) | per edge: key run, literal run, flags; per node: repeat bounds | `compile`, and `add_regex` which invalidates | changes no answer |
| Matching (`node.ipp`) | the calls, repeat counters, capture slots, results | `match`, `match_with_groups` | the regexes that accept the text, by regex, with the groups of some reading; what a branch changed is undone when it is given up |
| Containers (`core.hpp`) | runs with inline storage | `flat_map`, `LimitState`, `CaptureTable`, `GroupPositions` | behave as the maps they replace |
| Debug printing, tests, benchmarks, generated tables | | | not modelled |

Interactions. `build_table` calls `parse_pattern`; `RuntimeTable` and `make_static_table` copy what
it built to one block, laid out by `table_layout`; a lookup reads those arrays. `find_into` runs `walk`
on the caller's `Match`, then `allowed_methods` runs it again for other methods on a scratch array;
`walk` cuts the path by `first_slash` and compares through `load_at` and `same_from`; the front end
converts the captures of a match and calls its handler. `add_regex`, `compile` and `match` share the
graph; `match` only reads it and keeps counters and slots of its own, shared by all calls of one match.

`PROJECT.json` lists the hazards of this code, each at its line, with the property that would
show it going wrong.

## Modules

| Module | Models | Notes |
|---|---|---|
| `RoutePatterns` | segments, patterns, paths, what matches what, which match is more specific | texts are numbers in their order; a path is the sequence of texts between slashes |
| `RouteParse` | `parse_pattern`: its loop, and each test of a turn in the code's order | beside it, the rules of the document without the loop (`WellFormed`, `Pattern`), and what `describe` says of each error (`TextHas`) |
| `RouteSemantics` | the promise of one method's routes: the most specific match, in one step | abstract specification |
| `RouteTries` | well-formed tries, and the trie of a set of routes | `TrieOK` is what `RouteTable` delivers and `RouteWalk` assumes |
| `RouteWalk` | `detail::walk`; one action per branch of its loop | implements `RouteSemantics` |
| `RouteTable` | `build_table`, with the recursion of `TrieBuilder::build` as a stack of frames | also `find_literal` and `find_edge`, which read its arrays |
| `RouteService` | the promise of a whole table: Found, MethodNotAllowed or NotFound, in one step | abstract specification |
| `RouteLookup` | `find_into` and what it calls, lookup after lookup into one `Match`; composes `RouteWalk` by `INSTANCE` | implements `RouteService` |
| `DecimalTexts` | numbers as texts of bytes: digits, their order, their value, `std::from_chars` | |
| `RouteNumbers` | `matches_u64`, `matches_i64`, `convert` | over `DecimalTexts` |
| `RouteDispatch` | declarations, and the call of the handler found with its converted arguments | composes `RouteLookup` and `RouteNumbers` |
| `RouteWords` | `load_at`, `same_from`, `first_slash`, `mask_low`, what the hashes read | operators on words of bytes |
| `RouteSegment` | how `walk`, `find_edge` and `find_literal` use them: a path cut and compared word by word | |
| `RouteLayout` | `table_layout` | |
| `RouteRuntimeTable` | `RuntimeTable` objects, the heap, and readers with views | |
| `RegexGraph` | nodes, edges, limits, `connect_with`, `compile()` | operators on a graph |
| `RegexBuild` | `add_regex`, token by token; `process` and `absorb` as stacks of calls | |
| `RegexWalk` | `match_with_groups_helper` as a stack of calls | `match_helper` is the same walk without captures |
| `RegexLanguage` | what a regex means | the reference the answers are compared with; not code |
| `RegexMatcher` | a matcher and its caller: add, compile, match in any order | composes the three |
| `RegexAnswers` | what the matches promise, by what the regexes mean | the one place where matcher and language meet |
| `..._proofs` | theorems; `Numbers_proofs` is induction on numbers in the form the others use, places in an order, and what decimal texts say | |
| `MC...` | instances for TLC | |

How state corresponds to the code, where it is not by name:

- *Parse.* A text is a sequence of symbols, each the byte it shows, except that the words `u64`, `i64` and
  `string` stand for their letters: which word it is decides, not its spelling. Offsets count symbols, from 0.
  `Tests` is the list of the tests of one turn of the loop with the error and the offset of each; the first
  that fails is the result. `TextHas` says when an error is true of a text, by the words of `describe`: whichever
  the parser names, the text must have it. Which of several a segment has is named is the order of `Tests`, the
  code's; that it is of the first segment with one follows from `OffsetMarksTheEnd`.
- *Walk.* `pos` counts segments consumed instead of bytes. `values` is the array of captures; a
  capture is the first and last segment it spans; `Stale` stands for what the array held before.
- *Segment, words.* Here a path is its bytes and `pos`, `seglen` are the code's. A word has `W` bytes instead of
  8. `mode` says whether the code is evaluated by the compiler (`constant`: byte loops) or by the program
  (`run`: loads); a table's words may come from the other mode than the lookup's.
- *Numbers.* A number has `Bits` bits instead of 64, and the texts the code compares with (`U64Last`, `I64Last`,
  `I64First`) are constants that say the limits. `std::from_chars` is external: it reads the digits there are,
  converts a number that fits, and leaves 0 for one that does not.
- *Table.* Indices start at 1. `edges` holds linear and hashed nodes' edges alike. `frames` are the
  calls of `build` on the C++ stack, `groups` the vector they share. `where` is a ghost that records
  the call each node was built by: its method, its range of entries and its depth, which make the node's prefix;
  nothing but the properties reads it. The two hash functions are constants: the runs give functions under which
  texts collide. What a finished table answers is read out of the arrays by `find_literal` and `find_edge`.
- *Lookup, dispatch.* `m` and `params` are the `Match`; `target` is the method `find_in` works on. A route's
  value is the index of its declaration, as `route_specs` makes it. A view of the path is turned into the
  bytes of its segment by `TextOf` where it is converted. `called` is the handler called and its arguments.
- *Runtime table.* `block`, `bytes`, `view` are the members of each object; `alive` says which variables are
  constructed. `heap` is a ghost: the number of the table now in each block, so that a block freed and given
  out again is told from what it was. `held` are the views readers took, which nothing updates.
- *Regex.* `g` is the graph. An edge has the fields of `EdgeInfo` (`paths`, `tag_actions`, and what
  `compile()` derives: `ids`, `has_limits`, `gives_full_child`, `run`, `run_to`). `calls` is the C++
  stack; a call's `saved` and `undo` are `saved_limits` and `undo_stack`. A slot of `CaptureSlots` is a
  value and a bit; an inline slot's value starts as zero, because `CaptureTable` value-initialises it.
- *Tokens.* A regex is added as its tokens: character or wildcard, class, `(`, `)`, `|`, quantifier.
  The scanning of escapes, class ranges and digits is left out. An empty branch or group, a quantifier with
  nothing before it and a bracket that closes none make the code read what is not there; the model stops there
  (`HasLayer`, and `Len(levels)` in `CloseGroup` and `EndRegex`), as it does where `absorb` would erase from the
  map it iterates.

A definition whose comment calls it a *mutant* of another is a plausible error in the code that one
translates; no specification uses it. `PROJECT.json` says which property each breaks.

## Runs

Every cfg names its bounds. None of the constants of the code (32 segments, 16 parameters, 8 inline
groups, 8 linear edges, 8 bytes to a word, 64 bits) matters but by being reached: the instances make them
small enough to reach.

| Run | Instance | States | What it shows |
|---|---|---|---|
| `route_parse` | texts of up to 3 segments from 29 ways to write one well or wrong (the middle one from 7), and of 4 and 5 from 4 of them; 3 segments and 2 parameters at most | 28,500 | what is written stays in bounds; exactly the patterns of the document are accepted, and read as it says; the error named is one the text has, and its offset is where the text stopped being well formed |
| `route_table` | all lists of up to 2 routes over 9 patterns, 2 methods, a method out of range and a malformed pattern; lists of 4 and 5 routes in every order; 2 edge hashes; nodes with more than 1 edge are hashed; arrays limited to 11 | 25,800 | a finished table is complete and well formed, errors name the right route, no slot is lost, the build ends |
| `route_walk` | all 255 non-empty choices of 8 patterns, all paths up to 3 segments over 3 texts, 3 segments and 3 parameters at most | 86,600 | the walk's invariants, that it returns, and that it implements `RouteSemantics` |
| `route_dispatch` | 2 tables of 3 methods, every method, paths up to 3 segments over a word, a number and a signed number; any request after any other into one `Match` | 17,400 | the lookup implements `RouteService` whatever the `Match` and the scratch array held; the handler and its arguments are those the path asks for |
| `route_bytes` | words of 3 bytes, numbers of 4 bits; paths up to 7 bytes over `/`, `.` and a letter, up to 5 with a byte 0xAF too, and one segment of up to 3 digits, `-` and a letter; both modes, of lookup and of table | 41,800 | no load, nor a word `same_from` reads, is outside the text; segments are cut at slashes; a label is taken for equal exactly if it is; a number is taken exactly if it fits, and converted right; the scan ends |
| `route_runtime` | 3 objects, 2 blocks, 2 readers, up to 3 tables of 3 sizes | 93,400 | one owner for each block, fields that agree, arrays apart in the block, views good exactly as long as they should be, no table lost |
| `regex_answers` | up to 2 of 5 regexes (up to 3 of the first five) of four families: plain (literals, classes, wildcard, groups), looping (`+`, `*`, `?`, branches), bounded (`{n,m}`, compiled only), shortcuts (repeats that make `absorb` merge subgraphs, built but not matched); in every order, compiled or not; texts up to 4 characters | 81,600 | right answers, ordered, with right groups; captures undone, counters exact, the fast path's premise; limits stay with one regex; nothing is merged with itself; every call ends |

Why the bounds are enough:

- *Parse.* Every error has a text that meets it first, alone and before and after another; three segments
  reach each rule that relates two (a name again, something behind a catch-all), four the limit, and five an
  empty segment where none fits.
- *Walk, dispatch.* A path of three segments with three parameters holds a choice, a second one below it, and
  a third segment to fail on, with one capture at each. The tables of `route_dispatch` have methods of literals
  only, of tries that capture and then fail, and of no routes.
- *Table.* Two routes are enough for a duplicate, an error before or after a good route, and a split between
  methods; five literals fill more than half of an eight-slot node.
- *Bytes.* The borrow of the slash test runs from a byte to the next, so three bytes are a slash, a byte mistaken
  for one, and one after that; `.` is one less than `/`, and 0xAF is `/` with its high bit. Seven bytes are a
  first word, a whole one and part of a third: a last word that is shifted, one that overlaps, and none.
  With 4 bits, the largest numbers have two digits and one: a digit more, the number after the last, and zeros
  in front all occur.
- *Runtime table.* Two objects swap; a third is destroyed or assigned to in between. Two blocks for three
  objects make allocation fail and reuse what was freed while a reader still has its old view.
- *Regex.* Two regexes are enough to share nodes, part, and change each other's edges; three are taken where
  regexes end inside one another. Texts of up to four characters pass every loop twice.

### What the code does not keep

Five runs check one property each that a comment, the changelog or a test states and the code breaks;
each behaviour was reproduced on the compiled library. `PROJECT.json`, under `findings`, quotes the statement and
the lines.

| Run | Regexes | What happens |
|---|---|---|
| `regex_late` | `abca` compiled, then `a[ab]c` | the literal run of `abca` stays on its edge, and `aac` is not matched |
| `regex_inline` | `(a)ba\|.bc` | undoing an inline group's first tag leaves the group set, at 0 |
| `regex_leak` | `(ab){2}[ab]c` | a candidate whose run does not match keeps the iteration it used |
| `regex_twice` | `(ab){2}` | `ab` is matched |
| `regex_same` | `b(a\|a)` | `ba` is not matched |

`regex_answers` therefore takes families without these shapes: bounded repeats are of one
character or class, and branches of one group end in different characters. Four more shapes are left out
because the library is seen to answer them wrongly, though no run is kept for them: bounds in a matcher that
is not compiled (`b{2}c` matches `bc`; a known issue in the changelog), an upper bound of zero (`ba{0}c`
matches `bac`), a repeat of a group that may be empty (`a(b*)+c` matches `aac`), and an earlier regex whose
nodes a later loop absorbs (`aa`, then `(a)+`: `aa` matches `a`). Of the last the run asks what the merging
itself must keep, and matches no text against it.

A smaller thing the number model shows: a segment with zeros in front is a number only up to as many digits
as the largest number has, where `docs/route-semantics.md:14-15` says only "decimal number". `NumbersExact`
states what the code does.

## Fairness

Every specification is weakly fair in the steps of a call that is under way, and in nothing else: a
call runs on one thread to its end, and nobody has to make one. So `RouteWalk`, `RouteTable` and
`RouteSegment`, which are one call each, are fair in `Next`; `RouteDispatch` in `Answer` (the steps of
`find_into`) but not in `Ask` or `Dispatch`; `RegexMatcher` in `Build` and `Walk` but not in `Add`, `Compile`
and `Match`. `RouteParse`, whose every step takes a segment or ends, and `RouteRuntimeTable`, whose caller may
always stop, state no liveness. Deadlock is checked in `route_parse`, `route_bytes`, `route_dispatch` and
`route_runtime`, and not where a behaviour is one call or a bounded number of them, and so ends.

## Proofs

No theorem bounds a constant but by the assumptions named in the modules, which every run evaluates:

- the limits are positive, alphabets and sizes are consistent, hashes are numbers, of every text and of every path
  put in or asked for (`HashesAssumption`), and nothing else is known of them;
- `RouteParse`: the bytes with a meaning are what they are in the code (`AlphabetAssumption`: a slash, brace or
  percent sign is no pchar, a star or colon no letter), and what a text is tried to go on with is empty or begins
  with a slash (`ContinuationsAssumption`), which only `OffsetIsRight` needs;
- `RouteTable`: of a route's pattern, the parser either refuses it or made it one, and its value is not `kNone`
  (`SpecsAssumption`), which is no number an index has (`NoneAssumption`); the paths
  two patterns are tried on tell them apart if they differ in more than names (`PathsAssumption`), which only
  `DuplicatesAreRejected` needs, since it says of a route what it matches;
- `RouteWalk`, `RouteLookup`: paths are sequences of texts; tries are well formed (`TriesAssumption`) and hold
  the routes of their tables (`BuildAssumption`), which is what `EveryTableIsComplete` proves of every table
  `RouteTable` builds; the mark of an answer still to come is no answer (`PendingAssumption`);
- `RouteSegment`: a path begins with a slash, as `find_into` is given it (`PathsAssumption`);
- `RouteNumbers`: the texts of the limits are digits without a zero in front, and say the limits of the type
  (`LiteralsAssumption`);
- `RouteDispatch`: a table holds the routes of its declarations, among them no malformed pattern, bad method or
  duplicate, on which `make_static_table` stops the compilation (`TablesAssumption`); a text has bytes, and is
  among the numbers exactly if `matches_u64` or `matches_i64` takes them (`TextsMatch`);
- `RegexMatcher`: a regex is a sequence of tokens (`TokensAssumption`), a text one of characters
  (`TextsAssumption`), whose numbers are apart from those of the other symbols (`CharsAssumption`); regexes are
  numbers (`RegexesAssumption`), as matches are sorted by them. Nothing is assumed of what the tokens spell.

| Theorem | In | States |
|---|---|---|
| `WalkTypes` | `RouteWalk_proofs` | `TypeOK` |
| `WalkStackBound` | | `StackBound`: the unchecked stack of choices is never overrun |
| `WalkAligned` | | `Aligned`: captures and position are those of the node's prefix, so the tests against `kMaxParams` turn nothing away |
| `WalkChoicesOnPath` | | `ChoicesOnPath`: pending choices are nested prefixes of the node at hand |
| `WalkCapturesKept` | | `CapturesKept`: the shared captures are right for the node and for every pending choice |
| `WalkLosesNothing` | | `NothingLost`: a route that matches stays within reach |
| `WalkAnswersRight` | | every step of the walk is a step of `RouteSemantics` or a stutter |
| `SegmentsAlwaysFit` | `RouteParse_proofs` | `SegmentsFit`: bounds of the arrays, distinct names, a catch-all only at the end |
| `ParserTyped` | | `TypeOK` |
| `ParsesRight` | | `ParsesAsWritten`: the loop and its tests accept and read what the document's rules say, and name an error that is true of the text |
| `OffsetIsRight` | | `OffsetMarksTheEnd`: the offset of an error is where the text stopped being well formed |
| `TheFirstErrorNamed` | `RouteTable_proofs` | `FirstErrorNamed` |
| `DuplicatesAreRejected` | | `DuplicatesRejected`: all pairs of routes that match the same paths, and no others |
| `EveryProbeEnds` | | `ProbesEnd`, for any hash functions |
| `EveryCallKeepsItsGroups` | | `GroupsKept`: the stack the recursive calls share |
| `EverySlotTakenOnce` | | `SlotsTakenOnce`, an action property |
| `EveryTableIsComplete` | | `TableComplete`: a finished table answers for exactly the routes given |
| `LookupAllowedSoFar` | `RouteLookup_proofs` | `AllowedSoFar`: the methods of a 405 |
| `LookupAnswersRight` | | every step of a lookup is a step of `RouteService` or a stutter |
| `HandlersRight` | | `HandlerRight`: the handler called and each of its arguments are those the path asks for |
| `DispatchAnswersRight` | | the same of every step with handlers called in between |
| `LoadsStayInside` | `RouteSegment_proofs` | `LoadsInside`: of `load_at`, and of the words `same_from` reads without it |
| `SegmentsCutAtSlashes` | | `CutAtSlashes`, from `SegmentInvariant` |
| `LabelsComparedRight` | | `LabelsCompared` |
| `NumbersTakenRight` | | `NumbersExact`: a number is taken exactly if it fits, and converts to its value |
| `MatcherTyped` | `RegexMatcher_proofs` | `TypeOK`: an edge leads to a node of its symbol, for regexes that were added, by limits that exist |
| `LimitsAreOwned` | | `LimitsOwned`: no limit is two regexes' |
| `LiveIsAll` | | `LiveIsWhole`: the premise of the fast path |
| `SpilledSlotsRewind` | | `SpilledRewind`: what is undone leaves no spilled group open |
| `LayoutCorrect` | `RouteRuntimeTable_proofs` | the arrays are aligned, apart, within the block, and packed as tightly as alignment allows |
| `BlocksOwnedOnce` | | `OneOwner` |
| `FieldsTogether` | | `FieldsAgree` |
| `ViewsLastAsLong` | | `HeldWhileOwned` |
| `ArraysApart` | | `SpansApart`, from `LayoutCorrect` |
| `TablesHandedOn` | | `NothingLost` of the table objects, an action property |

**The walk keeps its arrays.** `StackBound` alone is not inductive: a step that pushes a choice needs to
know that the choices below were left at different depths. `WalkInv` adds `Deepening` (the i-th choice is
at least i - 1 segments deep) and `Aligned`, without which the test `nv < kMaxParams` says nothing about
the prefix. `CapturesInv` adds that choices are nested prefixes (`ChoicesOnPath`), that a lower choice has
no more captures than a higher one (`CountsNest`), and that the first captures are those of each prefix
(`Held`): a step writes only at `nv + 1`, above everything a pending choice will come back to.

**The walk answers right.** `AnswerInv` adds three facts: the segments consumed match those on the way to the
node at hand (`MatchedSoFar`); each pending choice is for kinds less specific than the one taken from there to
the node at hand, so that the route found first is the most specific (`Passed`); and every route that matches
is still ahead of the node or of a choice (`StillReached`). That a choice is pushed only when another kind of
child exists loses nothing because a trie has a node for every prefix of a route (`PrefixesBuilt`, by induction
from the route's node up to the root) and one node for each prefix (`Onward`). `NothingLost` is then immediate,
and `WalkAnswersRight` takes the three ways to return apart: at the end of the path, through a catch-all, and
without an answer.

**The parser keeps its arrays.** `IInv` is `SegmentsFit` with the types of what it reads and writes: where the
segment at hand starts, for its text to be one, and the count of parameters, for its bound. A step reads a segment
(`Accept`), or refuses the text and changes nothing of the segments (`Refuse`); the test at the top of the loop
bounds the write below it.

**The parser reads what is written.** `Parse` adds what the loop has done: the segment at hand follows the slash
whose number is that of the segments read and one, and each of those is a reading of the part after its slash
(`Working`). The two sides are then compared part by part. A literal's loop, though it jumps over the digits of an
escape, stops at the first byte that cannot be where it is (`LiteralStopIs`). A part in braces has a reading exactly
if it passes the tests (`FineWritten` one way, `PlainRead` and `TaggedRead` the other), and no part has two
(`OneReading`), so what the parser makes of a part is the one choice `Pattern` has. Slashes and parts have the same
numbers (`CountStep`, `SlashIsOne`), so an accepted text is read as its pattern (`WellFormedWhen`). For a refused one
`RefusedFor` lists the grounds. A text that agrees with it up to where the segment at hand starts is read as the
segments so far, then as what follows (`ReadOn`), and on each ground that breaks a rule (`RefusedIsNone`). As that is
shown of every text which agrees so far, it also shows that nothing well formed goes on after the error, and that
the byte at the offset is the first too many (`UnreadIsNone`, `GoodBeforeTheStop`); what is before the offset is
read as the segments so far and a literal (`WellUpToTheByte`). What the error says is true of the part at hand
(`BadByteHas`, `BadParamHas`) or of it and the parts before it, as the segments so far are readings of theirs
(`PartsSoFar`, `RefusedHas`).

**The build rejects exactly the duplicates.** `Parsed` says what has been parsed: the accepted routes, in their
order, and on an error that the one named is the first not accepted. `Before` is shown to be a total order on
what entries match by (`BeforeTotal`, `BeforeTransitive`): two entries are comparable at the first segment that
differs (`FirstDifference`), or are one the beginning of the other. With the place of a route as the last resort
`Less` is a strict total order (`LessOrders`), so sorting lists every entry once, in its order (`SortedList`), and
entries that match the same paths stand together, since what stands between two such is like both
(`NeighboursFindAll`). The split into two lists loses no pair: like entries have the same method, and parameters
at the same places (`SameKeysAlike`). `Divided` carries the outcome from the split to the end of the build.

**The build loses no slot.** `SlotsOK` says that the exact-match table keeps two slots for every route, put in or
waiting (`Pow2IsEnough`: the loop of `pow2_at_least` ends at a number large enough). `Building` says it of the
nodes: their slots lie apart, one node's behind the other's (`LaidOut`); a call's node has the room its unbuilt
children need, two slots for each if it is hashed, its own place free if it is not (`HasRoom`); and the stack of
groups holds each call's groups above its callers', nothing above the last one's (`Stacked`). It rests on what
the sort gives: the entries of a call share their first segments (`Shares`), at most one ends there and comes
first (`LongerIs`), and the others fall into runs that share one segment more (`RunsAre`), listed by place
(`RunsListed`). A call that begins (`CallBegins`, `EnterStep`) adds its node behind all others; one that returns
(`CallReturns`, `ReturnStep`) puts an edge in a free slot of its caller's node (`PlaceIsFree`, `EdgePut`).

**A finished table is complete.** `TableComplete` speaks of the end; what must hold on the way is that the nodes are
the calls the recursion is to make, whatever order it makes them in. A call is named by its method, its range of
entries and its depth, and its range holds all the entries that share its prefix (`IsCall`); every node is of a call
of its own (`Named`) and, but for a root, of one its parent has begun (`Parented`), so that calls are told from one
another by their prefixes (`OneCallOfPrefix`). The runs of a call are numbered as the code makes its children (`RunAt`): a frame has built its
runs up to the one at hand and none after (`UnderWay`), and a node whose call has returned has all of them, each
reachable as `find_edge` and the four fields read it (`Finished`). `Rooted` says which methods' tries are built.
At the end every call has returned. `find_edge` ends, since each probe sequence stays in its node and meets an
empty slot (`ProbeStops`, from `SlotsOK` and `Building`), and finds the run's child or nothing (`EdgeFound`): an edge
once put stays at a place its probe reaches without a gap, for any hash. So each node is seen with a child for each
run, the route that ends there and the count of kinds (`NodesViewed`), the nodes below a root are a well-formed trie
(`TriesWellFormed`), and each entry is reached from its root, one segment after another (`EntryReached`, by induction
on the depth), where its route is (`EntryEnds`). The trie's routes are therefore the method's (`TriesComplete`). The
exact-match table is the same in one step: each route put in lies where its probe meets no gap before it (`Exacts`),
and `find_literal` finds the route of a path or nothing (`LiteralFound`). Both need that no two entries match the same
paths, which is what the build checked before.

**Numbers.** That comparing texts is comparing numbers rests on the recursion by which a text has a value (`ValueIs`,
taken apart digit by digit with `LeastNumber`): of two texts of one length the order is that of the first digit that
differs, as what follows it weighs less than one (`OrderOfValues`); a shorter text is less than a limit that does not
begin with zero (`ShorterIsLess`); and `from_chars` reads all of a text of digits (`FromCharsIs`). Hence `DigitsUpToIs`:
a text is taken if and only if its value is not above the limit's and it has no more digits.

**The handler gets what the path says.** `DispatchInv` adds to `LookupInv` that the answer of a finished lookup is kept
until the next request, whatever the `Match` held (`AnswerStep`); the answer is right by the refinement of
`RouteService`. The n-th capture is that of the n-th parameter, as no two parameters have one place
(`PlacesDistinct`), so a type found by counting parameters is the type of the segment captured (`AtPlace`). That a
typed one converts is `UnsignedText` and `SignedText` of *Numbers* (`TypedConverts`).

**The lookup answers right.** `LookupInv` holds, while a walk is under way, the walk's own invariants for that
trie: `RouteLookup` is stepped through an instance of the proofs of `RouteWalk` whose one trie is the one searched
(`RunBegins`, `RunStep`). The walk proofs assume nothing of what the captures array held, which is what the used
`Match` and the shared scratch array need. When a walk returns, `WalkAnswersRight` gives its answer, and
`BuildAssumption` turns the routes of the trie into those of the method.

**Words.** A load is what a byte-by-byte loop would read (`LoadIs`), whichever way it is done; the borrow of the
slash test reaches a byte only over one that is a slash, so the lowest flag is a slash and none below it is
missed; and the words compared, with the last one that overlaps, cover every byte of a label. `SegmentInv` adds
that no byte passed over is a slash.

**The table objects.** `IInv` is `TypeOK`, `OneOwner`, `FieldsAgree`, `HeldWhileOwned`, and two more facts: the
numbers of tables in blocks and in readers' views are those given out so far (`Numbered`), and what an object says
of its table is what a constructor makes of some built table (`Described`). `OneOwner` needs `FieldsAgree`, since
only what is alive may have a block; `HeldWhileOwned` needs both, since a block given back takes one table away,
its owner's, and `Numbered`, since a block given out again must hold a table no reader has seen.

**The regex matcher.** `MatcherInv` has three parts, and every operation on the graph has a lemma.

`BuildInv` is about building. `GraphOK` says of every edge where it leads, for whom and by which limits, that its
run ends at a node, and that no tag of an edge to an end mark opens a group; `Owned` that a limit is one regex's.
Neither survives a step alone: a quantifier makes its limit before the edges that name it, one at a time with a
merge between two, so `LinkInv` says that the links still to make name limits no other regex does (`OwnLimits`),
and `Grown` that all a step does is to put the regex being added on edges, by limits of its own. `ReadInv` says
that what the calls of `process` keep are nodes there are, and that once a branch has read something the tags
pending only close groups, without which the edge to the end mark could open one. `connect_with` is the heart of it
(`ConnectGrows`): it counts an edge met again by a fresh limit, raises the one there, or takes the quantifier's,
and none of the three is another regex's. The loops over parents and along a run are functions on numbers
(`RoundsExist`, `KeptByRounds`).

`CompiledInv` says that between calls of `add_regex` the flags of a node marked compiled are true: an edge's key run
is the regexes on it, and `full` means they are all those alive where its run ends (`CompiledIs`). `EndRegex` keeps it
because it unmarks every node, though it leaves the runs; that their texts may be stale (`regex_late`) does not
disturb where they end.

`WalkInv` is about a match. `Rewound` is what makes `SpilledRewind` inductive: of the entries of a slot, in the
order of the calls and within a call in the order they were marked, the first holds unset, and without one the
slot is unset. A call that takes an edge appends entries that hold what the slot held (`MarkedIs`), one that
returns takes back its caller's from the last to the first (`UnmarkedIs`), and one that ends at an end mark marks
slots it never takes back, which by `GraphOK` open no group. The counters are proved to be limits and no more:
`CountersExact` fails (`regex_leak`) unless the families are chosen.

Model-checked only:

- all liveness (`Returns`, `Terminates`, `TakenApart`, `CallsEnd`), and so the fairness half of
  `ImplementsSemantics`: out of the prover's reach;
- of the regex matcher, `MatchesRight` and `GroupsRight`: what a regex means is recursive, and statements about all
  regexes are inductions over it, and false of some (see *Runs*);
- `CountersExact` and `AbsorbsAnother`, which hold of the families of `regex_answers` and not of all regexes.

## Plan

Done: the route matcher from the text of a pattern to the call of a handler, the table object, and the
regex matcher's build, compile and walk; theorems on the parser, the build, the layout, the table object, the
words, the numbers, the walk, the lookup, the dispatch and the regex matcher. Left:

1. `RouteRouter`: build and lookup composed, the arrays of `RouteTable` read by the walk, refining
   `RouteService` from a list of routes. Today the two meet at `TrieOK` and `RoutesOf`: what
   `EveryTableIsComplete` proves of a table is what `TriesAssumption` and `BuildAssumption` ask of one.
2. A condition on regexes, checked on their tokens, under which `CountersExact` and `AbsorbsAnother` hold of all.

## Not modelled

- *Sharing among threads.* A matcher or a table that is built may be read by many threads; a lookup and a match
  write only to what their caller owns, so a model of it would interleave reads.
- *A route whose value is `kNone`*, which cannot be told from no route: nothing in the documents rules on it.
- *Sizes beyond 32 bits.* `build_table` asks for too large a table after it has filled the arrays; the models'
  indices do not wrap. The label arena is a sequence of texts here, and its share of the size is left out.
- *How hashes mix.* `RouteTable` is checked under arbitrary functions and `RouteSegment` says what they read.
- *The types of handlers* and the messages of `checked.hpp`, which the compiler decides; the enumeration of
  methods in `method.hpp`.
- *Lexing of regexes* (escapes, class ranges, digits of a bound), and what follows where the code reads out of
  bounds (an empty branch or group, an unclosed class).
- *Storage*: `small_vector`, `array_view`, the growth of runs, the allocator, trimming of capacity; debug printing.
