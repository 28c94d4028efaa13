# Cero: a TLA+ model of the compiler front end

Cero is the compiler of a small language, written in C++. What exists of it is
the front end: a source is opened, turned into tokens, parsed into a syntax tree,
and problems are reported on the way. Everything runs in one thread. What is hard
about it is therefore not concurrency but long sequences of legal steps: loops
that move a cursor through text somebody mistyped, and error recovery that must
neither stop early, nor loop, nor lose what is well-formed.

## Inventory

| Component | State | Operations | Used by |
|---|---|---|---|
| Lexer (`syntax/lexer.cc`) | token list, cursor, locals of the running handler | one handler per class of character, six loops | `build_source` |
| Source cursor (`syntax/source_cursor.hh`) | begin, end, position | peek, next, advance, match, valid, offset | Lexer |
| Character classes (`syntax/unicode.*`) | none; two XID tables | ASCII predicates, table look-up of a UTF-8 character | Lexer |
| Keywords (`syntax/keywords.hh`) | none; table | tails by first character, tail as integer | Lexer |
| Tokens (`syntax/token*.{hh,cc}`) | kind, 24-bit offset, length | masking constructor, text of a token | all stages |
| Parser (`syntax/parser.cc`) | token cursor, AST, C++ call stack | recursive descent, operator precedence, two levels of recovery | `build_source` |
| Token cursor (`syntax/token_cursor.hh`) | position | peek, peek_ahead, match, advance | Parser |
| AST (`syntax/ast.*`) | nodes in an arena | creation, lists of children | Parser, sema |
| Source (`syntax/source.*`) | path or text; open view | lock, locate | all stages |
| Memory arena (`util/memory_arena.*`) | block list, next pointer, remaining size | allocate, create_block, release, moves; array growth | AST |
| File view (`util/file_view.*`) | descriptor, mapping | open chain, destroy, moves | Source |
| Reporter (`report/*`) | none; forwards | check arguments, format, handle | all stages |
| Build (`compile/build.cc`) | none | lock, lex, parse, analyse; report a failed lock | entry point |
| Type checker (`sema/type_checker.cc`) | symbol table, TIR | walk over definitions | nobody yet |
| Symbol table (`sema/symbol_table.*`) | stack of scopes | push, pop, put (stores nothing), find | Type checker |
| Analyzer, evaluator, IR | none yet | empty | Build (analyzer) |

The stages interact by calls only. The lexer hands the token list to the parser;
the parser depends on two facts about it that no type expresses: the list ends
with its only `end_of_file` token (`TokenCursor` has no other way to stop), and
offsets increase (adjacent `>` tokens are recognised by their offsets). Both stages
share the reporter.

What makes each part correct:

* *Lexer.* The cursor never leaves the text; every byte ends up in a token, in
  whitespace or in a report; offsets survive the 24-bit field; the list ends once;
  keywords, numbers, comments, literals and operators have the extent the language
  gives them; the lexer returns.
* *Parser.* What is accepted without a report is exactly what the tree says;
  trees group by precedence; an exception is caught at the right level; recovery
  moves on, reports a token once, and what it loses has a report of its own.
* *Arena.* Allocations are aligned, disjoint, inside live blocks; blocks have one
  owner through all moves; arrays keep their elements while they grow.
* *File view.* What was acquired is released exactly once, on every failure path;
  opening is all or nothing; the error that is returned is the one that occurred.
* *Source and reporter.* The reported line and column are those of the offset; every
  message comes with the arguments its format asks for.
* *Build.* What the lexer hands over is what the parser takes for granted; a source
  without an error is understood whole; the build returns.

Hard behaviours: state that is consumed before it is known whether it belongs
(whitespace in numbers, refused characters in words), a value that is truncated
silently, an end marker that is also a legal byte (NUL), overlapping delimiters,
two tables that must agree, exceptions through recursion, loops that must advance,
calls of the system that fail half way while other processes change the file, moves
of objects that own memory.
`PROJECT.json` lists these as hazards at the lines where they bite.

## Modules

| Module | Models |
|---|---|
| `Unicode` | bytes, character classes, announced width of a UTF-8 character |
| `Token` | token kinds, spellings, the token with its masked offset |
| `Lexer` | lexer, source cursor, keyword comparison |
| `LexerProperties` | what is expected of the token list and the reports |
| `LexerProofs` | the inductive invariant of the lexer and its proof |
| `LexerExtentProofs` | what the lexer knows of the bytes behind its cursor: the extent of every kind of token, and that no byte is lost |
| `UnicodeScalar` | the UTF-8 decoder and the look-up in the XID tables |
| `MCLexer` | alphabets, keyword and XID tables for TLC |
| `Parser` | parser, token cursor, AST |
| `ParserProperties` | what is expected of the tree and the reports |
| `ParserProofs` | the invariant of stack, arena and reports of the parser, and its proof |
| `ParserTreeProofs` | trees: precedence, shifts, what recovery loses, and how an accepted list ends |
| `MCParser` | token alphabets and frames for TLC |
| `Source` | text of a locked source, line and column of an offset |
| `Reporter` | messages, levels, placeholders and arguments |
| `Build` | `build_source`: composes `Lexer`, `Parser`, `Source` and `Reporter` |
| `BuildProofs` | the invariant of the stages taken together, and its proof |
| `MCBuild` | sources for TLC |
| `Allocator` | abstract: what the arena promises |
| `MemoryArena` | blocks, allocation, release, moves; implements `Allocator` |
| `ArenaArray` | arrays that grow in an arena, and the contents of memory |
| `ArenaProofs` | the invariant of the arena, one proof per operation |
| `ArenaArrayProofs` | the invariant of arrays, and the theorems about arena and arrays |
| `MCArena` | the unit of memory for TLC |
| `Ownership` | abstract: what file views promise |
| `FileView` | the calls of the system on both platforms; implements `Ownership` |
| `FileViewProofs` | the invariant of file views, its proof and the refinement |
| `MCFileView` | the instance for TLC |
| `TypeChecker` | the walk of the type checker, with the symbol table |
| `MCTypeChecker` | programs for TLC |

Definitions named `Name_Mistake` are mistakes the code does not make. No
specification uses them: put in place of `Name`, they show that a property would notice.

### Lexer

`text` and `emit_comments` are the arguments of `run_lexer`; `it` is the offset of
the `SourceCursor`; `tokens` and `reports` are its output. The code has one
handler per class of character, and most have a loop. `pc` says which loop is
running and `local` holds the local variables of that handler, so that an action is
one iteration: `ConsumeIdentifierChar`, `EndWord`, `ContinueWordUtf8` and
`BreakWordUtf8` are the branches of `consume_word`, `NestBlockComment` and its
siblings those of `consume_block_comment`, and so on. Handlers without a loop are
one action. What a caller does after its loop (`handle_decimal_literal`,
`on_zero`, `on_dot` after `consume_digit_sequence`) happens in the step that leaves
the loop (`FinishDigits`). The operator handlers are nested matches; `Alternatives`
lists what each tries in its order, and `Matched` takes the first that fits.

A byte is abstracted to the name of its character. Bytes above 0x7f are a constant
set with the number of leading one bits of each; the characters that the XID tables
accept are constant sets of byte sequences. `MCLexer` computes them with
`UnicodeScalar`, the decoder and the search of `unicode.cc`, from the ranges of the
tables that the bytes of the runs can reach. The decoder ignores the high bits of
continuation bytes, so ill-formed and truncated sequences are accepted too. `Token` masks the offset as the C++
constructor does, with `source_size_max + 1` in place of 2^24.

### Parser

The C++ call stack is the variable `stack`. A frame names a function and the point
at which it waits, the node it is filling in and, for `parse_expression`, its
precedence argument. `mode` tells whether the top frame goes on (`go`), receives
the node its callee returned (`return`) or is being left by a `ParseError`
(`throw`). `Unwind` pops frames until `parse_block` or `run`, the two functions that
catch; their handlers are `recover_at_statement_level` and
`recover_at_definition_level`, one action per round of their loops. Nodes live in
`nodes` and refer to their children by index; an aborted definition leaves its nodes
behind, as in the arena. Names and lengths of nodes are left out: no control depends
on them except `AstName::is_empty`, which is the missing identifier itself.

### Build

`build_source` is the sequence `Lock`, `run_lexer`, `StartParser`, `run_parser`,
`run_semantic_analyzer`. `run_lexer` and `run_parser` take the steps of `Lexer` and
`Parser`, which `Build` instantiates over one `text` and one `tokens`: the list the
parser reads is the list the lexer made, where the runs of the parser make one up. The instances are of the proof modules of the
stages, which add their invariants and lemmas and change no step.
`received` is what the reporter has got: positions computed by `locate`, the
level and the number of arguments of every message. A string source ends at its first
NUL, because `Source::from_string` keeps a `const char*`; a file does not.

### Memory arena and arrays

The fields of an arena are a record; the linked list of blocks is the sequence of
their addresses, newest first; `heap` is what `operator new` has given out, at any free
aligned address. `AllocateInBlock` and `AllocateNewBlock` are the two paths of
`allocate`; `create_block` computes the fields exactly as the code does, null pointer of
`std::align` included. `given` records what clients hold. `ArenaArray` adds the
contents of memory: each element is a value of its own, so overlap, a short copy or a
stale pointer shows in `ArraysIntact`.

`Allocator` says what a client may rely on: storage is not null, aligned and apart from
all storage in use, it stays until its arena is released, destroyed or assigned to, and
moves with its arena. `MemoryArena` is shown to implement it.

Clients do not allocate after an explicit `release()`, which leaves `next_ptr_` in a
freed block; in the repository only the destructor and the move assignment call it. When
an arena is released, clients give up the arrays in it; when it is moved they follow.
`get_total_size` includes the headers of the blocks, although `memory_arena.hh:23` says
"not counting overhead from allocator bookkeeping"; it is used as a size estimate only.

### File views

`call` is the point that `FileView::from` has reached; every call of the system is a step
that succeeds or fails with an error, and `ChangeFile` may come between any two.
`platform` chooses the chain: `open`, `fstat`, `mmap` or `CreateFileW`, `GetFileSizeEx`,
`CreateFileMappingW`, `MapViewOfFile`. The local variable `f` is a slot beside the views of
the clients, so that its destruction on a failure and its move into the result are the
same operations as everywhere else. Handles and addresses that were given back are used
again, which is what makes giving back twice dangerous. `destroy` may change `errno`.
That `close` reports an I/O error, on which the assertion ends the compiler, is left out.

`Ownership` says what shows from outside: a view gets all its resources at once or none,
owns them alone, passes them on and gives them back. The mapping hides what `f` holds.

### Type checker

Lists of a function are walked one element per step; `put` and `find` are those of the
symbol table. The type checker is not called by the build and does not compile at this
commit (`AstVisitor` without its argument); it is modelled as it is written.

## Runs

The runs of the lexer, the parser and the build enumerate *every* input of some shapes
up to a length over a small alphabet; the shapes are defined in `MCLexer`, `MCParser` and
`MCBuild` and chosen by the constant `Shapes`.

| Run | Inputs | Shows |
|---|---|---|
| `lexer_extent` | words with ASCII and UTF-8 characters (5 bytes), numbers with radix letters, dots and spaces (5), all punctuation (3, the longest operator), runs of `>` with `=`, `-` and spaces (5), comment delimiters (7, a comment in a comment), quotes with escapes (5) | `KeywordsExact`, `WordsWhole`, `NumbersWhole`, `MaximalMunch`, `CommentsBalanced`, `QuotesClosed` |
| `lexer_boundary` | leading bytes of two to four byte characters, stray, invalid and NUL bytes (4), a character for each handler (4), texts above the limit (6, limit 4) | `TypeOK`, `TokensInOrder`, `EndsOnce`, `NothingLost`, `ReportsInOrder`, `FirstCharDecoded`, `Termination` |
| `parser_trees` | expressions with prefix, binary and postfix operators, calls, `>` with and without a gap (5 tokens), every operator beside every other (2 or 3), returns with and without values (4), parameter and output lists (6) | `RoundTrip`, `PrecedenceRespected`, `ShiftsAreAdjacent` |
| `parser_recovery` | statements, blocks, calls and returns, right or wrong (5), anything before two good definitions (5) | `TypeOK`, `RoundTrip`, `ReportsInOrder`, `RecoveryLosesLittle`, `Termination` |
| `build` | function bodies with open and escaped quotes (4 bytes), newlines, tabulators and errors (4), NULs in files and strings (4), texts around the limit (9 to 11, limit 9); files that cannot be opened | `ParserInputReady`, `AcceptedIsRead`, `AcceptedIsWhole`, `LocationsExact`, `ReportsFormatted`, `BuildEnds` |
| `arena` | two arenas, one array, objects of two sizes, a heap of 27 units of 4 bytes | `TypeOK`, `StorageIsLive`, `BlocksOwnedOnce`, `ArraysIntact`, `ImplementsAllocator` |
| `file_view` | both platforms, three views, five handles and mappings, files of 0 to 2 pages, one change by another process | `TypeOK`, `NeverAborts`, `ErrorIsCause`, `TextWhole`, `ImplementsOwnership` |

`RoundTrip` and `PrecedenceRespected` together fix the tree: the first says that
writing it out gives the tokens back, the second that among the trees that do it is
the one the precedence levels ask for. `KeywordsExact` and its siblings are stated
over the text alone and share no definition with the handlers beyond the character
classes.

Where a token ends is its offset and its width (`End`): the length the token stores, or
the length of its spelling if it is a keyword or punctuation and stores none.
`TokensInOrder` is stated with it, and so excludes `->` at 0 with `>` at 1.
`WordsWhole` asks of every character of a word, not of every byte, whether it may stand
there; what it allows in addition is what the code does and `lexer_refused_char` shows: a
refused character that is reported and ends the word. `MaximalMunch` says which `>` stay
single. A run of them is cut in pairs from the left, and the pair takes a `=` along: `>>=`
is one token, `>>` are two `r_angle`, and `>>>=` are `>`, `>` and `>=`, which the runs
of five characters reach.

`AcceptedIsRead` is a property of the composition: `on_quote` puts a literal that is
open at the end of the text without a report, and only the parser, which misses the
semicolon and the brace after it, keeps such a source from being accepted.
`AcceptedIsWhole` adds that the tree of an accepted source holds all of its tokens. A
comment that stays open is a warning: such a source may be accepted, and the comment
reaches to its end.

`RecoveryLosesLittle` speaks of definitions that are well-formed and begin with a
modifier, where recovery stops. Each one that is missing from the tree is explained by a
report at its modifier or before it in the same statement. A bound on how many are missing
would be wrong for longer lists: in `a ( private f(){} private a ( private g(){}` each of
two errors takes a good definition with it.

Five runs are expected to be violated; each confronts a comment of the source
with the code:

* `lexer_refused_char`: a character that XID_Continue does not allow to continue an
  identifier (`unicode.hh:9`) becomes part of it, because `consume_word` has
  consumed it before it is refused.
* `parser_next_definition`: "recover at the next definition" (`parser.cc:167`)
  fails when the next definition begins at the very token of the error, because
  `recover_at_definition_level` advances before it looks.
* `arena_alignment`: "Allocates size bytes with the given alignment"
  (`memory_arena.hh:16`) fails for an object aligned to 16 bytes that needs a block of
  its own: the header takes 8 bytes, and `create_block` leaves no room for the padding
  behind it. `std::align` returns null and `allocate` hands it out. Nothing in the compiler
  asks for such an alignment; with alignments up to 8 bytes the `arena` run passes.
* `file_view_changes`: "our view does not change if another process changes the file"
  (`file_view.posix.cc:51`) is more than a private mapping that is only read promises.
* `symbols`: "Keeps track of how identifiers map to symbols" (`symbol_table.hh:43`), but
  `SymbolTable::put` stores nothing.

**Bounds.** The length of the input bounds everything else: each step
consumes input or leaves a loop. The lengths are chosen so that the longest
construct of the alphabet fits with something before or after it. The keyword
table of the runs has the two-letter keywords and `TailWidth = 1` in place of 8, so
that a word longer than every keyword has three letters. `source_size_max` is 4 in
`lexer_boundary`, so texts of 5 bytes are over the limit; elsewhere it is out of reach.
Token lists put a byte between tokens, except before `adjacent`, which is a `>`
right after its predecessor; it may also follow tokens it would not follow in a
text, which only widens the inputs.

The heap of `arena` holds the first block, a second one and the growth of the array past
its initial capacity; when no block fits any more, allocation is not enabled (the code
would leave by `std::bad_alloc`). A block size of 5 or 6 units makes blocks fill up after one
or two objects, and an object of 3 units need a block of its own. In `file_view` two complete
views on Windows take four handles, so that a third runs out of them half way; one change
of the file suffices to come between any two calls. `symbols` walks programs of up to two
functions.

**Fairness.** `WF_vars(Next)`: `run_lexer`, `run_parser` and `build_source` are sequential
calls that keep executing until they return. Nothing else is assumed. `Returned` is the
stuttering step after the return, so that deadlock stays checked everywhere else.

## Proofs

### Lexer proofs

`LexerProofs` proves, for every set of texts, keyword table, XID table and size limit:

* `TypeCorrect`: the cursor stays in the text (the assertion in
  `SourceCursor::advance` cannot fail) and tokens are well-formed;
* `TokensStayInOrder`: tokens are in source order and no two overlap, with the width of
  each kind, so no handler puts more than it passed and no offset was truncated;
* `ListEndsOnce`: `end_of_file` is put once, last, on every path;
* `ReportsStayInOrder`: reports are in source order, one per offset.

The assumptions are the named ASSUMEs: sources are sequences of bytes
(`SourcesAssumption`), keywords are non-empty, fit the integer they are compared in, which
the code checks at compile time, and have a kind each (`KeywordsAssumption`), bytes above 0x7f are
not ASCII and have one to eight leading ones (`NonAsciiAssumption`), the limit is a
natural number (`SourceSizeAssumption`).

None of the four is inductive. While a handler runs, the cursor is already past the
start of the token it works on, and the token is put only at the end, with a length
computed from locals. The invariant `IInv` therefore adds:

* `SizeInv`: only a text within the limit is ever lexed, so masking is the identity;
* `LoopInv`: in a loop, `offset < it`, and the saved lengths (`int_length`, `length`)
  fit between the start of the token and the cursor;
* `TokenInv`: all tokens end before the *frontier*, which is the start of the token
  in progress inside a handler and the cursor outside;
* `ReportInv`: reports lie before the token in progress; the one report that may be
  at the cursor is a missing quote at the newline that is skipped next.

The proof has one lemma per group of actions and a few lemmas for the shapes a step
can have (a loop consumes, a handler returns with a token, with a report).

`LexerExtentProofs` builds on it, from the same assumptions:

* `KeywordsStayExact`: the comparison of encoded tails finds exactly the words that spell
  a keyword;
* `WordsStayWhole`: a word is a letter, an underscore or an XID_Start character, then
  characters that ASCII or XID_Continue allows, and it ends before an ASCII character that
  may not continue it or with a refused character that is reported and left in it;
* `QuotesStayClosed`: a literal ends at the first quote that is not escaped, or at the
  reported newline, or at a NUL or the end.

`EInv` says of each token in the list that it is sound (`TokenOK`), which stays true while
reports are added, and of the loops what they know of the bytes behind the cursor:

* `WordInv`: the word so far is a chain of characters, each of which may stand in it
  (`WordSoFar`), and an ASCII character that is none of an identifier lies inside a
  multi-byte one. A multi-byte character is consumed by its announced width whatever its bytes
  are, so a word can hold a zero byte, and a tail is encoded with zeros behind it; what
  keeps the two apart is that the byte announcing it is above 0x7f and in no keyword
  (`KeywordIsSpelled`);
* `QuoteInv`: `ignore_quote` is the parity of the maximal run of backslashes before the
  cursor. `EscapedByParity` shows that the run is unique and `BackslashesGoOn` carries it
  over one more character, so that no induction over the text is needed.

The same invariant, extended by what is known of the other loops, gives the rest of the
extent of tokens:

* `PunctuationStaysLongest`: the operator handlers try their matches in a hand-written
  order. That no alternative is tried after a prefix of it is a fact about a table; it is
  proved kind by kind, and that nothing longer follows is read off the failed matches.
  For `>`, which is split for the parser, `Pairing` says of each `r_angle` in the list
  whether it is the first or the second half of a `>>` or a single one;
* `NumbersStayWhole`: `DigitInv` says what lies between the start of a number and the
  cursor (a radix prefix or a leading dot, digits of its radix, whitespace between them, at
  most one dot), and what the saved lengths leave out when a gap turns out to be followed by no digit;
* `NothingIsLost`: `LInv` accounts for every byte before the frontier, `StopInv` for the
  place where the lexer stops;
* `CommentsStayBalanced`: `CInv` says that `unclosed_count` is the depth of the cursor in
  the comment. The depth is a recursive function of the text; that it exists follows from
  the well-foundedness of `<`, as a set of positions without a value would have a least
  element.

`OpenInv` is for the composition: a literal that ends at a NUL or at the end of the text is
the last token before `end_of_file`.

### Arena and arrays

`ArenaProofs` has one lemma per operation, `ArenaArrayProofs` the theorems, for every
heap, block size, object size and number of arenas and arrays:

* `TypeCorrect`, and `BlocksHaveOneOwner`: every block is in the list of one arena, so
  releases and both moves neither leak a block nor free it twice;
* `StorageStaysLive`: what clients hold lies in a live block of its arena, behind the
  header of the block;
* `ArraysStayIntact`: arrays keep their elements while everything else goes on;
* `Refinement`: every step is a step of `Allocator` or leaves its variables alone; in
  particular what is given out is not null, aligned and apart from all storage in use.

They are proved under `HeaderKeepsAlignment`: every alignment divides the one of
`operator new` and the size of a header. In the compiler nodes and pointers are aligned
to 8 bytes, blocks to 16, and a header has 8. The assumption is needed:
`arena_alignment` is the run in which it does not hold and `allocate` hands out null.
`ArenaAssumption` and `ArrayAssumption` only type the constants.

`allocate` looks at two numbers, `next_ptr_` and `remaining_size_`; that the storage it
cuts off is free follows from nothing the properties say. `FreeInv` does: in an arena
that was not released they describe a stretch of the newest block, behind its header,
into which no storage reaches. `OwnerInv` lists who owns which block, `HeapInv` that
blocks are apart. `ArrayInv` says where elements are (in storage of the arena the array
lives in, apart from that of other arrays), without which nothing could be said about
what a copy overwrites.

### File views

`FileViewProofs` proves, for both platforms and any number of views and handles:
`TypeCorrect`; `AssertionsHold` (no resource is given back twice on any path);
`ErrorsAreCauses` (the error that is returned is that of the call that failed, although
`destroy` may change `errno`); `TextIsWhole`; and `Refinement` of `Ownership`.
`FileViewAssumption` types the constants. The invariant names an owner for everything
the system has given out (`NamedInv`, `ApartInv`, `NothingLost`), the local `f` of
`FileView::from` included, and says in `CallInv` what `f` holds before each call of the
chain: that is what the failure paths and the move into the result depend on.

### Parser

`ParserProofs` and `ParserTreeProofs` take token lists of every length. All they assume
of them is `InputsAssumption`: the list ends with its only `end_of_file`, which
`ListEndsOnce` proves of the lexer.

* `TypeCorrect`: the cursor stays in the list, a return always finds a caller, every
  pointer is to a node that exists. It needs that `run` is at the bottom of the stack and
  nowhere else, and that every function that fills in a node has one.
* `ReportsStayInOrder`: reports move forward and do not pile up. Reports are behind the
  cursor, with two exceptions: the end of the list, which cannot be passed, and a closing
  brace at which recovery has just stopped. How often the end can be reported is a matter
  of counting (`CountInv`): open blocks and reports about the end are paid for by the
  opening braces that were passed.
* `TreesGroupByPrecedence`: `PrecedenceRespected` for every expression, also in what is
  reported and recovered from. `parse_expression` never looks at a tree; it compares the
  next token with its argument. The invariant relates the two by a *ceiling*, the
  tightest precedence with which a node can still be continued: no token at the
  cursor binds tighter than the ceiling of the expression before it (`CursorOK`), what a
  waiting `parse_expression` was called with is the ceiling of the operator below it on
  the stack (`FramesInv`), and children respect the ceiling of their parent (`TreeInv`).
  A return changes its ceiling when it gets its first value; `PendingInv` says that until
  then it is part of nothing. `TablesAgree` is the fact about the code that all rests on:
  `lookup_tail_parse_rule` and `lookup_precedence_for_associativity`, two tables that are
  written down separately, give every binary operator the same precedence.

* `ShiftsStayAdjacent`: `ShiftInv` pairs the shift nodes with the adjacent pairs of `>`
  before the cursor while nothing was reported. A pair is never split: a `>` that is
  followed closely by another is passed only together with it.
* `LossesAreExplained`: `LossInv` says of each plain definition whose modifier was passed
  that it is in the tree, underway on the stack, or explained by a report. `Harmless` is
  the class of steps that pass no modifier and drop no definition, which most are.
* `EndsWithBrace`, used by the build: between two definitions of an accepted list the token
  before the cursor is a closing brace (`BraceInv`).

The trees' invariant and `LossInv` were first checked with TLC on the shapes of
`parser_trees` and `parser_recovery`.

### Build proofs

`BuildProofs` is about every set of sources, under `BuildAssumption`, which types the
constants and repeats what the lexer assumes of keywords:

* `ParserGetsItsInput`: for every source, refused ones included, `run_parser` begins with
  a list in source order that ends with its only `end_of_file`;
* `StagesKeepTheirPromises`: the composition. What the lexer and the parser are proved to
  keep on their own holds in every build. `InputsAssumption` of the parser is no assumption
  any more: `Build` instantiates the parser with all lists that satisfy it (`TokenLists`),
  and `ListIsReady` shows that the lexer's is one of them;
* `AcceptedSourcesAreRead`: a source without an error was read to its end and has no open
  literal. The lexer's `OpenInv` leaves only the token before `end_of_file`, where the
  parser's `EndsWithBrace` wants a brace;
* `PositionsLeadBack`: `LocationsExact` for every text and tabulator width. The two loops of
  `locate` are recursive functions; `LocateWalks` shows that together they arrive where a
  walk through the text does, `WalkGrows` that no two offsets have one place, and
  `ReportsTyped` that offsets of reports are in the text;
* `ReportsStayFormatted`: the scan for placeholders, evaluated for every format there is.

The invariant `BInv` consists of those of the stages, the parser's from when it has its
list. It is proved from the lemmas of the stages, one step of `build_source` at a time;
what there is to add is that a stage finds the variables of the others as it needs them:
the text can change only while the lexer has read nothing (`TextPreserves`), the parser
never writes to the list (`TokensStay`) and is untouched until it starts (`ParserFresh`).
That `get_text` is a text at all rests on the least of the NULs in a string
(`LeastElement`).

### Only model-checked

* Termination (`Termination`, `BuildEnds`): liveness under fairness is out of the
  prover's reach.
* `RoundTrip`, and with it `AcceptedIsWhole`: they compare with a recursive definition over
  trees.
* `FirstCharDecoded`: it compares the decoder with the tables of `MCLexer`, which are
  concrete values.

## Not modelled

* The contents of the XID tables beyond the ranges the runs reach, and that they are
  sorted, which the binary search needs.
* Wording, formatting and layout of messages, names in nodes, paths, console output and
  the conversion of paths to UTF-16.
* The semantic analyzer beyond the empty step it is; the evaluator, the IR and the TIR,
  which have no operations yet; flags and storage wrappers, which have no protocol.
* The native stack, which is unbounded in the model; the code sets no limit on nesting.
* Failure of `operator new` and an I/O error of `close`: both end the compiler.

## Plan

Done: all modules, runs and proofs above. Left for whoever goes on: a model of the semantic
analyzer when it has operations.
