# TLA+ models of plingo

plingo runs incremental language tooling on a reactive engine: components are
functions that read typed views, call each other and publish facts, and an
external command changes input facts and drives everything that depends on
them to a new fixed point in one atomic commit. Its own clients on that engine
are a source fold, an incremental lexer and an incremental parser per document.
This directory models the engine, its fact store, the pipeline from edits to
tokens, the parser behind it and the persistent structures under all of them,
checks them with TLC, and proves with TLAPS that the store keeps the transaction rules,
that the pipeline keeps text, tokens, identities and facts together, and that relexing
after an edit gives what a lex of the whole text would.

## Inventory

| part | state | operations | interaction | what is hard |
|---|---|---|---|---|
| fact store, `reactive/store.rs` | arena of slots (value, owners, shared flag, ordinal), free list, key/view/owner indexes | insert, put, read, enumerate | written through the journal only | index and free-list consistency while slots are reused; ordinals |
| command journal, `store.rs` | one entry per touched fact: first and staged slot | write, retract, install, commit, rollback, Previous reads | one per engine call, inside `CommandTxn` | coalescing, writer conflicts, exact rollback |
| committed index, `store.rs` | persistent views keyed by fact and by ordinal | apply, lookup, enumerate | shared by snapshots | agreeing with the store at every commit |
| dependency index and dirty queue, `store.rs` | rows per graph for exact, keyset, wildcard and Previous reads; an ordered set of invocations | replace, remove, mark, pop | marked by every change, popped by `quiesce` | lost wakes, rows of dead invocations |
| engine, `engine.rs`, `plain.rs` | planned and running roots, families, invocation trees, state cells, epoch, output sinks | plan, run, remove, command, family install and removal | evaluates bodies, which call back through thread-local dispatchers | evaluation order, nested calls, retirement, failures halfway |
| components and view kinds, `component.rs`, `kind.rs`, `abstract_tree.rs` | definition registry; list, tree and graph encodings on facts | typed effects, keyed reconciliation, patches | reduce to engine effects | identity of nodes over edits |
| persistent maps and sequence, `store.rs`, `utils/persistent_seq.rs` | tries and balanced trees | insert, remove, split, concat | committed index, parse segments | collisions, collapse, structural sharing |
| tape, `framework/tape.rs` | rope of labelled leaves, occurrence index | splice, rank, cursor, lookup by identity | holds the lexer's and the parser's documents | an index renewed only around the change |
| source and workspace, `framework/source.rs`, `workspace.rs` | documents, revisions, coordinate maps | open, edit, close | feed the lexer component | positions after a batch of edits |
| incremental lexer, `framework/lex/` | token runs with start states | relex a window until it converges | a component over source facts | stopping too early |
| grammar and tables, `framework/parse/` `grammar.rs`, `analyze.rs`, `build.rs` | productions, LR(1) states, all actions of a cell | build | read by parser and recovery | keeping every conflict |
| incremental GLR parser, `parse/parsing/` | graph-structured stack in columns, persistent segments, reduction cache | parse, restart, replay, reuse a suffix | a component over the tape | reusing what an edit invalidated |
| recovery, `parse/recovery.rs`, `parsing/session.rs` | repair search, recovery journal, diagnostics | insert, delete, shift as error, replay a journalled repair | called where no stack can go on | taking a failed attempt back; progress |
| syntax identities and tree delta, `parsing/lineage.rs`, `incremental.rs`, `delta.rs`, `component.rs` | AST records, reach counts, lineages, child orders | assign, inherit, settle, freeze a delta, publish | turns accepted roots into facts | an identity per node over edits; exact deltas |
| scope graphs, `framework/scope.rs` | scopes and edges as facts | declare, resolve | a client of the engine | - |
| instrumentation, visualisation, macros | counters, text, generated code | - | - | - |

The engine is single-threaded per call: `Engine` methods take `&mut self` and
lock the runtime for the whole call. What makes it hard is not parallelism but
the order in which one call evaluates, nests, retires and fails, and what a
failed or removed part leaves behind for the next call. The same holds for the
documents: each edit replays a part of the old result and joins it to the rest,
and what may go wrong is what the rest still says about the old text. `hazards` in
`PROJECT.json` lists these places by line.

## Modules

| module | models | relation |
|---|---|---|
| `FactStore` | what one write, retraction or promotion does to one slot, and when it is refused | used by the store and the engine |
| `FactTxn` | the promise of the journal: a transaction publishes its net effect or nothing | abstract specification |
| `FactArena` | arena, free list, ordinals, indexes, journal entries, committed index | implements `FactTxn` (`ImplementsFactTxn`) |
| `ReactiveEngine` | roots, families, invocations, state cells, dependency rows, dirty queue, engine calls | uses the slot rules of `FactStore` |
| `Tries` | `RadixMap` and `Hamt`, node by node | under `SnapshotIndex` |
| `SnapshotIndex` | one committed view on the two tries | concrete form of `FactArena`'s committed index |
| `Tape` | `StableTape`: leaves, labels, rotation, splice, cursors, occurrence index | concrete form of the sequences `Lexer` and `ParseReplay` use |
| `SourceText` | normalisation of edit batches into splices, their application, coordinate maps | used by `LexPipeline` |
| `Lexer` | scanning, replay of a splice, occurrence identities, token patches, derivation of a document | extended by `LexPipeline` |
| `LexPipeline` | workspace commands, source revisions, the lexer component and what it publishes | composes the two |
| `Tables` | grammar, nullable and first sets, LR(1) closure and tables with all conflicts | read by `Glr` and `Recovery` |
| `ParseSegment` | columns, segments and their parts, split, concat and seams | extended by `Glr` |
| `Glr` | graph-structured stack, products, reduction, shift | `Tables` and `ParseSegment` together |
| `Recovery` | repair search, application, journal and its replay | extends `Glr` |
| `ParseReplay` | replay plan, restart, replay, suffix reuse, commands of one document | composes the four |
| `Lineage` | AST records and the identities of syntax nodes | extended by `SyntaxTree` |
| `SyntaxTree` | reach counts, settlement, the frozen delta, published child orders | what a command does with accepted roots |
| `Iteration` | a loop over a sequence, with induction over it | instantiated for each loop of `FactArena`, `SourceText`, `Lexer` and `LexPipeline` that theorems speak about |
| `FactTxnProofs` | theorems about `FactTxn` | |
| `ArenaLemmas` | what the operations of `FactArena` on slots, indexes and journal do | extends `FactArena` |
| `FactArenaProofs` | theorems about `FactArena` | extends `ArenaLemmas` |
| `LexLemmas` | what the operators of `Lexer` do: on tapes (projection, widths, ranks, common ends, identities, patches), in a scan, the replay of a splice and the derivation of a document | extends `Lexer` |
| `BatchLemmas` | what `normalize_edits` and `apply_splices` make of a batch, and the coordinate map | extends `LexPipeline` and `LexLemmas` |
| `LexPipelineProofs` | lemmas about commands, and the theorems about `LexPipeline` | extends `BatchLemmas` |
| `RelexProofs` | two scans side by side, and the theorem that relexing is exact | extends `LexPipelineProofs` |
| `MC*` | instances for TLC: facts, values, writers, component programs, a lexer definition, grammars | |

### State and actions

`FactTxn`: `live` is `PlainState`, `touched`/`first` the journal, `committed` the
index of `PlainRuntime::committed`, `lastChanged` the change list, `pre` a history
variable. `Begin` is `push_txn`; `Write`, `Retract`, `Promote` are the journal's
`write`, `retract` and, for all slots of a captured store, `install`; `Commit` and
`Rollback` end the transaction. `PreviousRead` and `PreviousInputs` are the
`Temporal::Previous` reads a body may make in between.

`FactArena`: the same operations on the data structures. Indexes are functions
from ordinals, so that two slots under one ordinal overwrite each other as they do
in a `BTreeMap`. The hash buckets of `by_key` compare whole keys and are left out.
`CommandSpec` has commands that commit or fail and root promotions that fail; `Spec`
also lets a promotion commit. `promoted` is a history variable.

`ReactiveEngine`: `rt` is `PlainRuntime` with its graphs, cells and the transaction,
`stack` the evaluations in progress (`ACTIVE_EVALS`), `call` the engine call,
`plan` the root handles with their captured stores, `sink` the output cells, `last` the
change list of the last commit (`last_changed`) with, as history, the values before it.
A component body is the constant operator `Op`: its next effect, given what its
effects returned so far; this makes it deterministic and otherwise arbitrary. An
evaluation takes one step per effect:

| action | code |
|---|---|
| `Observe`, `Enumerate`, `Emit` | `EffectContext::observe`, `inputs`, `inputs_keyset`, `emit` |
| `ObservePrevious` | `observe` of a `Temporal::Previous` view; `MarkPrevious` wakes its readers when the next call starts (`initialize_dirty`) |
| `ReadCell`, `WriteCell` | the state handle of a component: read, and set with the first value kept for undo (`TouchCell`) |
| `EvaluateChild`, `ReuseChild` | `run_effect_at_with_definition` |
| `ReturnNested`, `ReturnToQueue`, `ReturnToPlan`, `BodyFails` | the tail of `evaluate_graph`, and its caller: an outer body, `quiesce`, `capture_plan`/`recapture_plan`, the error path |
| `Pop`, `RunLimitExceeded` | one turn of `quiesce` |
| `CycleRejected`, `Commit` | the end of `run_command`, `Engine::run`, `Engine::remove`, and of family installation |
| `Plan`, `Run`, `InstallRoot`, `RemoveRoot`, `Command`, `InstallFamily`, `RemoveFamily` | `Engine::plan`, `run`, `remove`, `command`, `install_component_each_key`, `remove_keyed` |

Invocation records carry `trace`, a history of what the effects of the last
completed evaluation returned; `FixedPoint` replays it. `Done` stutters once the
bound on calls is used up.

`SnapshotIndex` and `Tape` are run side by side in `MCStructures`: a first state
chooses one of them. `Insert` and `RemoveKey` are the two deltas of
`SnapshotView`; `Edit` of the tape is one `splice`, with the reindexing that follows
it, and draws node and entry identities from counters as the allocator does.

`Lexer` has no state: it is the pure part of `framework/lex`. A lexer definition
(rules of a mode, regular expressions, guards, hooks, recovery, value builders) is a
set of constant operators; where a rule matches depends on the rule, the lexer's stack and the
text from there on (`MatchLengths`), as a scan never looks back. Text is a sequence of bytes (`Continuation` says which of
them continue a character), a stable tape is a sequence of occurrences. `LexCont` scans as `lex_cont` does, one
turn of its loop after the other (`Turns`), `Replay` and
`RelexSplice` are `relex_splice`, `DeriveDocument` is `derive_document` with the
stale-revision checks and the merging of the patches of several splices. Two fields of a
patch under construction are history, which nothing the code does reads: `at`, where the last
splice began to change the semantic tape, and `ordered`, that no splice began in front of an
earlier one. A published patch keeps `ordered`.

`LexPipeline`: `machine` is `Lexer::latest`, which lives outside the transaction;
`revisions`, `layouts`, `semantics` and `facts` are the published views; `opened` and
`order` are the documents ever opened and the components in order of creation.

| action | code |
|---|---|
| `Open` | `Workspace::open`: a first load, a full-range replacement, or a new lineage after a close |
| `Edit`, `RejectEdit` | `Workspace::edit`: normalisation of the batch before the command, then the source fold and the lexer component of every document it changes, in component order; a failure publishes nothing |
| `Close` | `Workspace::close`: the components retire without running, so the lexer's document stays |

The pipeline relies on the engine's promise that a command publishes all of its
effects or none; that promise is what `ReactiveEngine` and `FactTxn` are about.
`exact` is a history variable: every replay of the document so far was sound, in
the sense of `SoundReplay` (see `lex_restart` below).

`ParseReplay`: `doc` is the token document, `root` what the parser keeps of it (the
sealed session, the accepted roots, diagnostics, status). The session is a record
that the pure steps of `Glr` and `Recovery` take and return, in the order of the
code; a command runs to its end in one action, since nothing interleaves with it:

| action | code |
|---|---|
| `Open`, `Edit` | `parser.rs` and `derive_token_delta`: the replay plan, `parse_delta_batch` (restart column, detached suffix, replay with `maybe_reuse_suffix` at every gap, recovery where no stack can shift), sealing and publication; a failure leaves the last root |
| `Close` | the document and its session are dropped |

A product is a value instead of an id: the reduction cache gives one product to one
production, children and anchor, so that triple stands for the id, and the command
that interned a token product is part of it. `root.from`, `root.reused` and
`root.after` are history: what the replay started from, whether it attached a
suffix, whether the splice lay behind a recovery.

`SyntaxTree`: `arena` holds products and AST records, `ln` the lineage tables, `session`
the replay in progress, `facts` what a commit keeps (roots, reach counts, live
records, their lineages, child orders in the parser and in publication), `delta` the
last frozen delta.

| action | code |
|---|---|
| `Open`, `Edit` | the start of a replay: generation, token products, what the splice keeps |
| `ReplayColumn` | the reductions that end at one column, through the reduction cache, with the identities `assign_new` gives them; before an unexpected token, a recovery attempt may have built some under a mark and been rolled back |
| `Freeze` | `apply_accepted_root_delta`, `settle`, `freeze_parse_delta`, the commit, and `build_published_child_orders` |
| `Close` | everything of the document is dropped |

How the roots come about is `ParseReplay`'s subject; in `SyntaxTree` the replay is an
environment that reduces whatever the grammar derives between two columns, over
kept or rebuilt suffixes. An AST record has the id of its product; tokens carry no
record.

## Runs

| run | checks | shows |
|---|---|---|
| `fact_txn` | `TypeOK`, `CommittedMatchesLive`, `ExclusiveOwnership`, `PreviousReadOfExisting`, `RollbackRestores`, `DeltaIsExact` | the journal's promise, over one exclusive and one shared fact, two values, two invocations and the external writer; no bound on transactions |
| `fact_arena` | `IndexesAgree`, `SnapshotExact`, `RollbackExact`, `ImplementsFactTxn` | for commands, and for promotions that fail, the arena, the journal and the committed index implement that promise |
| `engine_roots` | `FixedPoint`, `OwnersAttached`, `PreviousCurrent`, `FailureRestores` | two roots, a nested call with a state cell, a shared fact, a Previous read, failures in a first and in a second evaluation of one call and in the initial writes of a command, self-calls, cross-view cycles, an oscillation that meets the run limit, and removal |
| `engine_limit` | `CallsReturn` | a root that oscillates cannot hang a call |
| `engine_families` | `FamilyMembership`, `FixedPoint`, `OwnersAttached` | a family over keys that another family publishes, and a root that reads both; families installed and removed between commands |
| `lex_pipeline` | `RelexExact`, `TapesAgree`, `FactsMatchTokens`, `MachineCurrent`, `BatchApplied`, `ReplaySound`, `IdentityStable`, `CoordinatesExact` | a document opened, edited by single and double edits, closed and reopened: batches are applied exactly, sound replays equal a fresh lex, facts follow the tapes, and the range the parser derives from a patch of ordered splices covers every change |
| `structures` | `SnapshotReads`, `ReadsAsSequence`, `IndexExact`, `IdsNeverReused` | the two tries read as a map and enumerate by ordinal after any insertions and removals, collisions included; the tape reads as the edited sequence by rank, byte, cursor and range, and its occurrence index finds every entry after any two splices |
| `parse_replay` | `ReplayExact`, `ParsesExactly`, `NothingLost`, `BoundariesExact`, `AlwaysRecovers` | documents of an ambiguous bracketed-list grammar, clean or broken, edited once anywhere: the replay equals a fresh parse, the roots are exactly the grammar's derivations, no token is lost without a diagnostic, boundaries lead to their columns, and recovery always ends with a root |
| `syntax_tree` | `ReachExact`, `LineageSettled`, `OrdersExact`, `DeltaExact`, `IdentityKept` | three replays of a document with kept or rebuilt suffixes, failed recovery attempts and a close: counts, identities, child orders and the delta follow what the accepted roots reach |

Three runs state what a comment or a test of the repository says and find it
violated; `findings` in `PROJECT.json` quotes the lines:

| run | what happens |
|---|---|
| `engine_family_rollback` | a command fails in a family member; the facts are rolled back, the member's record is not, and its facts have an owner that no longer lists them |
| `lex_restart` | a letter inserted at the end of a word becomes a word of its own: the replay starts at the first token that ends after the change and never backs up |
| `parse_seam` | a replay attaches a retained suffix whose edges still hold products of the old text; the next edit restarts inside it and publishes a tree over a token that is gone |

Eleven more configurations reproduce further disagreements with
`tlc -config X.cfg M`; each ends in a counterexample:

| configuration, module | property | what happens |
|---|---|---|
| `EngineRetry.cfg`, `MCReactiveEngine` | `OwnersAttached` | a promotion fails in `quiesce`; the plan's graph already works on the runtime's store; run again in the same epoch, the root is installed without its facts (`plain.rs:3791`) |
| `EngineFamilyRoots.cfg`, `MCReactiveEngine` | `FamilyMembership` | a root promoted after a family publishes keys of the family's view, and no member appears (`engine.rs:325`) |
| `EngineRows.cfg`, `MCReactiveEngine` | `RowsJustified` | an invocation completes an evaluation and fails in its second one of the same call; `rollback_txn` removes the rows of the partial reads it finds in the record (`plain.rs:199-212`), so a row that only the completed evaluation read stays, where `plain.rs:197-198` says "Drop whatever rows the aborted evaluation installed, then reinstall the pre-command rows verbatim" and the liveness audit calls it an "unjustified reverse row" (`plain.rs:3308-3322`). What was read before is still watched: the effect is a wake too many |
| `FactArenaOrdinals.cfg`, `MCFactArena` | `SnapshotExact` | a promotion stages ordinals of the captured clone, the store hands them out again, and the committed index loses a fact |
| `LexWedged.cfg`, `MCLexPipeline` | `NeverStale` | a batch over two documents fails in the second one's lexer; the first one's new text stays in the lexer, and later edits of it are refused as stale |
| `SourceWide.cfg`, `MCLexPipeline` | `EditsApplied` | a replacement of equal size is compared with the old text through `Rope::slice`, which counts characters, at byte offsets (`source.rs:517`); behind a character of two bytes it is compared with the wrong text, and `a` replaced by the `b` that follows it is dropped as no change |
| `LexErrorPlace.cfg`, `MCLexPipeline` | `RelexExact` | an error value that keeps the `LexErrorInfo` it is built from, as the lexers of the tests do, has absolute offsets (`scan.rs:133`) and is reused with the suffix an edit shifts |
| `LexEndRule.cfg`, `MCLexPipeline` | `RelexExact` | the root mode has an empty rule that applies at the end of the text; the lex of a new document that gets there in the initial state has converged with its empty tape and stops before the rule (`incremental.rs:190`), a replay over a tape in another state goes on and adds the token |
| `LexReplayRange.cfg`, `MCLexPipeline` | `ReplayCovers` | operators `==` and `=`, text `====`; one command deletes the first byte and inserts a letter behind the second. The first splice makes `==` `=` of `===`, keeps the identity of the first `==` and anchors at it; the letter falls inside that token, so the second splice replaces it. `ReplayPlan` (`mod.rs:980-1014`) takes the prefix from the first splice's anchor in the old tape, so the range it reparses begins behind the first change, where `lex/incremental.rs:40` says "Source normalization keeps unrelated splice windows disjoint" |
| `ParseRestart.cfg`, `MCParseReplay` | `ReplayMatchesFresh` | the restart column moves back past a recovery while the cursor stays at the restart token (`incremental.rs:1466`, `1538`), so a broken document edited behind the recovery loses the broken token and becomes clean |
| `SyntaxSpan.cfg`, `MCSyntaxTree` | `SpanExact` | a node's extent is the minimum and maximum of occurrence ids (`ast.rs:42-57`), and a token inserted in front of an older one has the greater id, so the span misses tokens, where `types.rs:67` says "exact source extent" |

The passing runs stay clear of these. `engine_roots` has programs whose promotion
does not fail after `initialize_dirty`; its `FailureRestores` asks that facts, records and
states come back, that no row of a read is lost, and that no row is new but those an
invocation cut short by the failure may keep from an evaluation the call completed,
which `EngineRows.cfg` shows and programs of the run reach. `engine_families` has bodies that cannot fail
and installs roots whose views drive no family. Its `FixedPoint` and
`FamilyMembership` ask for `FamiliesStay`, that no installed family is gone:
`remove_keyed` retracts and publishes but wakes no reader, so what read a removed
member's facts stays stale until a later command. In `fact_arena` a promotion does
not commit. In `lex_pipeline` a command concerns one document, and `RelexExact` asks
for replays that were sound: the new text can be lexed afresh, the tokens before the
restart are those of that lex, and the replay did not run to the end of a tape that ends in the error of an
unclosed scope (a zero-width token, behind which the code may converge and lose or
keep the error). Its root mode has no empty rule, and its error values keep the kind only.
`BatchApplied` leaves out replacements of equal size behind a character of several bytes,
which `SourceWide.cfg` shows. `ReplaySound` asks that no splice of a command change the semantic tape in
front of where an earlier one began to (`patch.ordered`), which `LexReplayRange.cfg` is without; every
command of `lex_pipeline` is so. In `parse_replay` the properties other than `AlwaysRecovers` are
about `Trusted` roots: a fresh parse, or the first replay of one, of a clean document
whether or not the suffix was reused, of a recovered one when the splice lies
before every recovery and no suffix was reused. What lies outside is what
`parse_seam` and `ParseRestart.cfg` show. `IdentityKept` leaves out nodes that a
failed recovery attempt built first: the cache keeps them without a role, and they
start afresh.

### Smaller observations

Met while modelling; each is in the model as the code has it.

- While a command that created a fact runs, `PreviousRead` returns the new value and
  `PreviousInputs` lists it and misses removed keys, where `plain.rs:3450-3452`
  promises the last commit. `PreviousReadOfExisting` is what is left of the promise.
- Installing or removing a family replaces `last_changed` and wakes no reader of
  Previous facts (`engine.rs:681`). `PreviousCurrent` is about engines without families.
- Retirement drops a state slot without an undo entry (`plain.rs:2092`); a failed
  command loses the state of a nested invocation it had retired. `FailureRestores`
  allows that loss and no other.
- `normalize_edits` says it validates UTF-8 boundaries (`source.rs:336`); `try_byte_to_char`
  rounds down and accepts every offset, so an edit inside a character is found out only
  by the lexer's `validate_source_delta`, inside the command. The model's edits are at
  character boundaries.
- `split_parts_at` keeps the whole part when the cut is inside one
  (`parsing/mod.rs:627-655`).
- `rollback_journal` drops entries with `serial >= mark`, one more than its comment says
  (`parsing/mod.rs:879-884`).
- `TreeArena::seal_generation` never publishes its directory (`green.rs:202-217`), so a
  node rebuilt alike by a later command has a new green id and is reported updated,
  where `delta.rs:11-13` says it is not.
- Diagnostics of tokens deleted inside a reused tail are not carried over.
- Recovery prunes candidates of equal score where `recovery.rs:1-2` says "strictly
  better"; several limits of its policy are declared and never read.
- Journalled recovery plans are tried in hash order (`parsing/incremental.rs:144-151`), and
  one that runs out of stacks ends the replay instead of the attempt (`:1586-1593`). The
  model takes the oldest plan that fits; in the run no two fit, and none runs out.
- `BuildBalanced` and `PersistentSeq`'s join do not restore the balance of an AVL tree, and
  `exact_eq` compares shapes: equal sequences may compare different.

### Bounds

`MaxTxns` and `MaxSteps` bound `FactArena`: three transactions of two steps are enough to
free a slot, hand it to another fact, roll that back and write again, and for a
promotion to meet facts of earlier transactions. `MaxCalls` (4 to 6 engine calls) covers
installation of every root or family, a change, its reversal and a removal.
`MaxToken` is never reached; `RunLimit` stands for 1 000 000 and is reached only by
the oscillations. `engine_roots` visits about 577 000 states, `engine_families` about
662 000. `MaxCommands` is three for `lex_pipeline`: open, edit and edit again,
or close and reopen, with texts of up to five bytes that hold words, a letter of two bytes, a skipped
space, nested modes closed by a token, by a hook or at the end of the text, input no
rule matches, a word that cannot be built and a token that recovers; the edits
insert each character at, and delete one or two characters from, every place, and
pairs of them touch, overlap or repeat. `MaxTurns` bounds the turns of the scanning loop in `LexCont`; a scan
that is not over by then fails. It is 30 and never met: with 60 the run has the same
10 188 states. `Byte` is the alphabet of the texts. Facts number two to six, one or two per view.

`structures` has tries of fan-out 2 and depth 3 with four keys, two of which collide
entirely and one in all but the last fragment, and ordinals that share every possible
number of bytes: chains, splits, buckets and collapses all occur. Its tapes have up to
seven entries in leaves of two, spliced twice by up to three new entries: several
leaves, two levels of rotation, labels between labels. `parse_replay` has every
document of up to two tokens over `a ( )` and longer ones up to `MaxTokens` = 4, and one
edit (`MaxEdits`) of every place and width; two edits leave `Trusted`. The
grammar is ambiguous, has an empty and an error rule, and its tables have conflicts
(an `ASSUME` says so). `syntax_tree` has ten documents, splices of up to two tokens
(`MaxInsert`) and three commands (`MaxCommands`): build, replace and bring back, or close
and rebuild. Symmetry is not used: tokens and values are ordered by the programs.

Deadlock checking is off where a document that has had its edits, or a tape at its
bound, simply stays as it is (`structures`, `parse_replay`, `syntax_tree`).

### Fairness

A call runs on its caller's thread until it returns and a body is a function
that terminates, so the steps of a call are weakly fair (`WF_vars(Step)`); whether
another call ever comes is left open. `CallsReturn` needs nothing else.

## Proofs

`FactTxnProofs` proves, for all sets of facts, values, writers and captures that
satisfy `FactStoreAssumption` and `CapturesAssumption`: `TypeCorrect`,
`CommitAgreement`, `Ownership`, `RollbackExact`, `PreviousExact` and `DeltaExact`.
`CommittedMatchesLive` speaks of transaction boundaries only and is not inductive.
The invariant adds what holds inside a transaction: an untouched fact is as the
transaction found it, the first slot of a touched fact is the slot the transaction
found, outside a transaction nothing is touched, and the committed index holds the
values the transaction found. `Invariance` shows that `Init` establishes it and that
every action keeps it; one lemma about `Stage` serves `Write`, `Retract` and
`Promote`, since they differ only in the slots they stage. `Ownership` rests on
lemmas that the slot rules keep a well-formed slot well formed.

`PreviousExact` also needs that a slot has a value exactly when it has an owner.

`FactArenaProofs` proves `IndexesAlwaysAgree`, `SnapshotAlwaysExact`,
`RollbackAlwaysExact` and `ArenaImplementsFactTxn`, for all sets of facts, views, values,
writers and publications that satisfy `FactStoreAssumption` and `ArenaAssumption`. They
speak of `CommandSpec`, in which a promoted root fails and rolls back; that a promotion
that commits breaks the indexes is the finding of `FactArenaOrdinals.cfg`.

The properties are not inductive because a promotion brings in slots under ordinals of
another store, which collide with those of this one: while it is in progress the indexes
are wrong about some facts, and the rollback still has to find what it restores. The
inductive invariant (`IInv`) says who may use which ordinal. A fact owns the ordinal the
snapshot files it under and the ordinal of the slot the transaction found (`BaseOf`); no
other fact ever uses one of these, also in a promotion; before a promotion no two facts
share any ordinal (`UsedOf`). The indexes find every slot whose ordinal its fact owns
(`Findable`), and the snapshot shows the first slot of every touched fact and the current
slot of every other (`SnapOK`). The arena itself is in order throughout: a fact has at
most one slot, and the free list has the empty ones, each once (`ArenaOK`).

`ArenaLemmas` shows what placing, replacing and freeing a slot do to arena, free list,
indexes and journal. The undo of a rollback, the change list of a commit, the capture and
the installation of a root are loops over a sequence. Each is an instance of
`Iteration`, which has the loop as a recursive function and proves that it takes one step
per element (`Iterates`) and that induction holds for it; induction is stated about a set
of numbers (`SetInduction`), since the provers cannot instantiate a predicate. For the
refinement, every action is shown to be the action of `FactTxn` with its name, under the
mapping `Txn`: the journal's facts are what is touched, the first slots without their
ordinals the slots found, and the snapshot without ordinals the committed index.

### The lexer pipeline

`LexPipelineProofs` proves `TapesAlwaysAgree`, `FactsAlwaysMatch`, `MachineStaysCurrent`,
`IdentitiesStay`, `BatchesApplied`, `CoordinatesStayExact` and `ReplayAlwaysSound`, for every set of documents, every text,
every batch of edits and every lexer definition: rules, guards, hooks, recovery and
value builders are constants about which nothing is assumed. Nor is anything assumed
about the replay: where it restarts and where it converges may be wrong for the text (that is the
finding of `lex_restart`), and the theorems still hold. `LexerAssumption` and
`PipelineAssumption` say only that the bound is a number, `Absent` is no integer and no kind of
error, documents are finitely many and texts are sequences of bytes. The theorems hold for every `MaxTurns`, so for
any number of turns the loop may take.

The properties relate what different views publish, and a command publishes them one
after the other from a document that the lexer keeps to itself. The inductive invariant
(`Invariant`) is `Good`, with the components in the order without repetition (`Distinct`). `Good` has, for every open document
(`Attached`): the lexed document is well formed (`DocumentOK`: widths add up to the text, the
semantic tape is the projection of the lexical one, identities are distinct and below
the next one to be given), it is of the published source revision and its text, and the
semantic document has its revision and tape. The token facts are those of the semantic
tapes (`FactsExact`). And the lexer's own document is the published one *or one of another
revision* (`Keeps`): after a command that failed in a later document the lexer is ahead,
and the check for stale revisions is what keeps the next command from deriving
anything from it. Dropping the second case gives `MachineCurrent`, which is therefore
proved for batches of one document only (`Single`, the hypothesis of `MachineStaysCurrent`);
`LexWedged.cfg` shows what happens otherwise.

The argument goes along the code. A turn of the scanning loop appends tokens whose
widths are the bytes it consumed, or flushes what it could not match, and stops only at
the end of the text or at a boundary of the old tape moved by the shift; so a replay
followed by the rest of the old tape covers the new text. The common ends of the old and the
new tokens keep their identities and everything between gets new ones, so the spliced
tape follows the old one (`Follows`). The semantic tape is spliced at the ranks its projection has, and the patch
between two semantic tapes, applied to the facts of the first, gives those of the second.
Several splices compose: they are ordered and apart (`Laid`), so each one's range is found in the
document its predecessors left, and the derivation has the text of the revision. That
`normalize_edits` yields such splices for every batch rests on its sorting (`Ranking`: in a
finite total order every place is taken), on joining edits that touch and on dropping
those that change nothing; the same fact gives the coordinate map, which is built from the gaps
between the splices. Each of these loops (turns, splices, normalisation, gaps,
components of a command) is an instance of `Iteration` with a loop invariant of its own.

`BatchesApplied` compares two texts: what the splices make of the old one, and what the
edits describe (`Described`), which is said place by place of the old text (what is inserted
there, in the caller's order, and whether the byte there is kept) and knows nothing of
sorting or joining. `BatchLemmas` walks from one to the other.

1. `SortingPlaces`, `Stable`: the sorted edits are the edits, ordered by place, and those inserted at
   one place keep their order, since the caller's index breaks ties.
2. `Telling`: the described text grows from left to right along the sorted edits (`Told`). An
   edit adds what lies between the last one and itself, and what it inserts; that a
   deletion covers a stretch and nothing before it is where the order is needed (`Crossing`).
3. `Linking`: replacements made one after the other (`Weave`) give the same text whether
   edits that touch or overlap are joined or not.
4. `Dropping`: leaving out a replacement that is equal to what it replaces, and joining
   splices that touch, changes nothing (`SameStep`). This is where `Comparable` is needed:
   `ReplacesByEqual` takes byte offsets for character numbers, which agree only if every
   character before has one byte; `SourceWide.cfg` has the edit that is lost otherwise.
5. `Returned`: `apply_splices` goes from the last splice to the first, so that the offsets of
   those before stay valid (`ReturnStep`); the result is the one of weaving them in order.
   `BatchEffect` puts the five together.

`ReplayAlwaysSound` compares the tape the parser saw with the one it gets, when all it is
told is the first and the last anchor of a merged patch. An anchor is an occurrence; what
later splices insert and remove may move it, remove it, or leave it on one tape only, and
`ReplayPlan` then takes a tape's end instead. The loop over the splices of a command keeps
(`Traces`):

1. the two tapes begin with the same `P` tokens, the first splice is anchored behind them, and no
   splice so far began to change the tape in front of them (`P <= at`). For the next splice
   this is what `ordered` says, and the counterexample of `LexReplayRange.cfg` is a next splice
   for which it does not hold;
2. an occurrence of the old tape that is found on the new one behind `at` is there with the rest
   of the old tape (`SameFrom`). A splice draws the identities of what it puts in the middle afresh
   (`Regrown`, `MiddleFresh`), so an old occurrence is never found there;
3. the last splice's anchor lies behind `at`, or is the end of the tape.

By `DistinctRefs` an occurrence has one place on a tape and an absent anchor has none
(`RankOfAnchor`), so the ranks `ReplayPlan` looks up are those places and what lies outside
is equal (`TraceCovers`). That the patch of a republished document is never empty follows
from the structure revision, which only a splice changes.

### Relexing

`RelexProofs` proves `RelexAlwaysExact`: as long as the replays of a document were sound
(`SoundReplay`), its tape has the tokens, values, errors and lexer states of a lex of
its whole text, for every lexer definition, text and sequence of batches, under two
hypotheses about the definition. `Placeless` says that an error value does not depend on
the place of the error: `LexErrorPlace.cfg` is what happens without it. `QuietEnd` says that the
root mode has no empty rule that applies at the end of the text: without it the
code does not agree with itself (`LexEndRule.cfg`), which a step of this proof that would not go
through brought to light.

The invariant is `Exactly`, with `Invariant`: a document all of whose replays were sound is
`Lexed`, a lex of its text from scratch succeeds and gives the same segments (payload and
state). For one splice the proof puts three scans next to each other: the lex `O` of the old text, the
lex `F` of the new one, and the replay `P`.

1. `Restarting`: `F` passes the place where `P` starts, in the state in which `P` starts. The
   tokens before are the same, and a scan whose output begins with some
   tokens passes the state they leave it in (`Passing`).
2. `Tracking`: from there `P` and `F` make the same turns, up to the end of the text. They differ
   only where one of them stops: `P` on the old tape, `F`, whose old tape is empty, in the initial
   state at the end (`FreshConverges`), where by `QuietEnd` it has nothing more to say.
3. If `P` meets the old tape, `O` was at that place in the same state, in a text that is
   equal from there on but moved (`Aligned`). `Lockstep`: from there `F` makes the
   turns of `O`. A turn only looks at the rest of the text and at the stack (`ChoiceAligned`,
   `RecoveredAligned`), and what it emits holds no place (`ErrorAligned`, by `Placeless`). So `F` emits
   what the old tape has behind the place where `P` stopped.
4. `Ending`, `Assembling`: `F` is over when `O` is, and its output is what precedes the restart, the
   output of `P` and the rest of the old tape, which is the spliced tape (`ReplayExact`, `SpliceLexed`).

Several splices compose by the loop over them: each is replayed over the document its predecessors
left and their text (`LexedSplices`, `LexedRevision`), and a command is a loop over components
(`ComponentsExact`). The bound `MaxTurns` needs care here, since the three scans take different
numbers of turns: a scan that meets the bound fails, so the statements are about the turns of
those that do not, and that `F` does not is part of `SoundReplay`.

### Only model-checked

The engine, the structures, the parser and the syntax tree. The engine retires recursively, the tries and the tape
descend and the parser reduces recursively; these are specified with recursive
operators, which the prover does not take. Liveness under fairness (`CallsReturn`)
is out of the prover's reach.

## Not modelled

Engine: patch-mode emissions and `pending_put`/`pending_get`; component props and the
deferred children of a graph (`drain_deferred_children`); tree families and
`reconcile_keyed_children`; passive reads; keyset and wildcard rows of Previous reads;
private participants; subscriptions (called after the commit with its change
list); metrics. `install_keyed` differs from `install_component_each_key` in its
registration only. Hash collisions of dependency buckets are not modelled.

View kinds (`kind.rs`, `abstract_tree.rs`) encode lists, trees and graphs as facts of a
view; they keep no state beside the facts the engine model has. Scope graphs are such
a client. `PersistentSeq` is used as a sequence by `ParseSegment`: its tree is the
construction of the tape without labels and index.

Lexer: the layout tape (the lexical tape without values, spliced at the same
ranks), edits inside a character, error builders that fail, work counters, and the compilation of a lexer
definition. Failures of the parser component, which runs behind the lexer in the same
command, have the effect shown by `LexWedged.cfg` and are not modelled. Batches that are
rejected draw command ids nobody uses; they are not counted. Empty batches and
reopening with equal text are commands without effect and are left out.

Parser: edits that change only token values, typed products of tokens, work
statistics; recovery is always on. `SyntaxTree` leaves out `removed_children` and
`dropped_record` of a delta, which nothing reads, diagnostics deltas, and the
resolution of nodes to typed values. `ParseReplay` and `SyntaxTree` are not composed:
one command of the first is many steps of arena bookkeeping in the second, and
together they pass what TLC can visit in minutes.

Instrumentation, visualisation and the procedural macros hold no behaviour of the
running system. See also `components` in `PROJECT.json`.

## Plan

1. Proofs: the tries as functions from
   paths, for `SnapshotReads`; the occurrence index of the tape; for the engine,
   well-formedness of the dirty queue and dependency rows, then `OwnersAttached`.
2. `EngineSpec`, an abstract engine (a commit maps the input facts to the fixed
   point or fails without a trace), as a specification `ReactiveEngine` implements
   for programs without families.
3. Engine: patch emissions, component props with deferred children, tree families,
   passive reads.
4. Encodings of view kinds and scope resolution as operators over the facts.
