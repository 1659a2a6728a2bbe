# A verification project for tyda

tyda infers the types of Ruby programs and serves them as an LSP server, an MCP
server and a command-line tool. This directory holds TLA+ models of the parts of
it where order matters, the TLC configurations that check them, and theorems
about them that TLAPS checks. The models are translated from the Rust source.
Paths below are relative to the directory that holds the checkout as `src/`, so
the language server is `src/src/lsp.rs`, called `lsp.rs` from here on, and
`state.rs` is `src/src/workspace_state.rs`.

Contents: [1 the system](#1-the-system), [2 the modules](#2-the-modules),
[3 the runs](#3-the-runs), [4 bounds](#4-the-bounds),
[5 fairness](#5-fairness), [6 proofs](#6-the-proofs),
[7 where code and documents disagree](#7-where-the-code-and-its-documents-disagree),
[8 hazards without a property](#8-hazards-no-property-covers-yet),
[9 what is not modelled](#9-what-is-not-modelled),
[10 the plan](#10-the-plan), [11 how to run](#11-how-to-run).

## 1 The system

### How it runs

`tower-lsp` polls every handler of the server from one task, so two handlers are
interleaved only where one of them awaits. Next to that task run

- background scan threads (`std::thread`, one per `start_workspace_scan_if_needed`
  that finds no scan under way; a reset does not stop the one that runs),
- pool tasks that analyse the text of an open document,
- spawned tokio tasks: a debounced publish of diagnostics per change, a debounced
  code lens refresh, one publish of all open documents per accepted scan.

They share `LspState` behind one `std::sync::Mutex`. The code never holds the lock
across an analysis or an await, so each operation is a chain of lock regions. What
was read in one region may be stale in the next, and the code's defence against
that is a set of counters and hashes: the scan generation, the type environment
generation, the epochs of diagnostics and of the code lens, the hash of a document's
text, the stamp of a file. Whether these defences hold under every interleaving is
what most of this project is about; unit tests run one handler at a time and reach
almost none of it.

### The components

| component | state it keeps | operations | with whom it interacts | what is hard | what makes it correct | status |
|---|---|---|---|---|---|---|
| workspace scan (`lsp.rs` 272-340, 1340-1460, 1570-1610, 1700-1800, 2840-2960) | `workspace_scanned`, `workspace_scan_in_progress`, `workspace_scan_generation`, `workspace_fully_discovered`, `pending_scan_files`, the locals of each thread | start, claim, capture, collect, read a chunk, commit a result, finish, accept, panic guard; reset, mark, invalidate and restart from `did_change_watched_files` | handlers start, wait for and reset it; it fills the registry and the dependency graph | superseded threads that still run, five lock regions per scan, panics, marks that arrive while a scan runs | one live scan; no superseded result is accepted; complete discovery; marks are served; requests return | partly |
| closed-file stamps (`lsp.rs` 150-260) | the stamp kept with a snapshot | read, stat, compare, refresh | the scan; programs that write files | read and stat are two system calls; `did_close` keeps the snapshot of an unsaved text | a stamp vouches for the content that was read | modelled |
| dependency graph (`dep_graph.rs`) | dependencies by file id, three inverse indexes, packed typed references | `update_file`, `remove_file`, five queries | every snapshot that lands; invalidation | indexes are patched, not rebuilt; ids are masked | the indexes answer what the dependencies say | modelled |
| diagnostics publishing (`lsp.rs` 460-470, 640-700, 1400-1450, 1800-1870) | `diagnostics_epochs`, the tasks | publish on open, debounced on change, empty on close, all after a scan | the editor, the scan | slow inferences, epochs that are removed, the scan that ends in between | late results are dropped; the last text is served, completely once the workspace is known | modelled |
| open document snapshots (`lsp.rs` 1460-1570) | `documents`, `document_cache_updates_in_progress` | start, land, skip when current | scan, hover, completion | several writers of one snapshot, marks that outlive their document | the last text wins | modelled |
| LSP queries (`lsp.rs`, `query.rs`, `lsp/completion.rs`) | none of their own | hover, definition, completion, symbols | wait for the scan | they block the server task | they return, on current snapshots | partly: the wait |
| code lens refresh (`lsp.rs` 700-740, 1080-1140) | `code_lens_refresh_epoch` | debounce, refresh at once | every change | whoever cancels a timer must draw itself | the last change is followed by a refresh | modelled |
| createSignature (`lsp.rs` 3150-3240) | the text computed before the await | edit a document across an await on the client | open documents | a change handled during the await | the server's text is the editor's | partly: for an open document |
| display caches (`state.rs`, `state/display_scope.rs`, `lsp.rs` 480-640) | the display base, two caches of four entries | lookup, store, drop | fingerprints, reloads | keys with four parts | an answer belongs to its key | modelled |
| registry and fingerprints (`state.rs`, `fingerprints.rs`) | `files`, `dirty_files`, `cached_registry`, the aggregate | upsert, remove, invalidate, rebuild | scan, documents | partial rebuilds, modular sums, fingerprints that see different things | the cached registry has the content of a rebuild | partly: what a hash hashes within a class is data |
| stdlib loader (`rbs/stdlib_loader.rs`, `bounded_file_cache.rs`) | slots per class, a bounded FIFO cache | load once, evict | every analysis thread | eviction during a load | the bound | partly: its cache |
| rbi loader (`sorbet/rbi.rs`) | lazy index, single-flight slots, shared shapes | index, build a shape, reload a file | analysis threads, watcher | a reload in several lock regions | a shape built after a reload knows the file | modelled |
| type environment (`rbs/workspace.rs`, `import.rs`, `convert.rs`, `inline.rs`) | `user_rbs`, `type_file_classes`, the generation | full and single-file reload | scan, caches | reload, reset and invalidation are separate; what to take out is remembered from the last read | snapshots follow the environment; no method outlives its declaration, nothing a file declares is missing | partly: conversion is data |
| knowledge precedence (`registry/knowledge_precedence.rs`, ...) | none | order sources of signatures | registry | ties | a stable order | not modelled: a few comparisons |
| type registry (`registry.rs`, ...) | classes, methods, call sites | merge, resolve | inference | references in circles, evaluations that are cut off, methods that are only woken for what they read | every reference that has a meaning is resolved to it, and to nothing else | partly: the rounds |
| types and symbols (`types.rs`, `sym.rs`) | the interner | union, intern | everywhere | limits, merging in groups, two locks of the interner | unions lose nothing; symbols identify strings | partly |
| inference (`inference.rs`, `inference/`) | local to a file | one rule per construct | registry | size | | not modelled |
| DSL plugins, Rails facts, Sorbet signatures, diagnostics rules, front end, rendering | none, or read once | pure functions of text | inference | | | not modelled |
| project detection (`project.rs`, `workspace_discovery.rs`) | roots | walk | scan | files that come and go during the walk | | partly: the walk is one step |
| CLI batch, MCP, wasm, scenario runner | none | one sequential pass or loop | | | same result for any chunking | not modelled |

`PROJECT.json` has the sources of each.

## 2 The modules

    ScanLifecycle          what the scan promises: stale, scanning, known; a generation
      ^ implemented by         ^ instantiated by
    WorkspaceScan          Diagnostics
      ^ MCWorkspaceScan

    MCTypeFiles            what is read from disk and kept, side by side
      > FileStamp          the gap between reading a file and taking its stamp
      > RbiLoader          the index and the shapes of `.rbi` files
          > BoundedFileCache
      > UserRbs            the declarations of `.rbs` files

    MCSnapshots            what follows the snapshots of files, side by side
      > DepGraph           implements Dependencies, a map
      > WorkspaceState     registries and displays; instantiates Dependencies
      > FingerprintAggregate
      > OpenDocuments      one document, its snapshot, its code lenses
      > ReturnRefs         the rounds that resolve return types
      > UnionTypes         types that meet
      > Interner           the strings all of it is named by

The components of MCTypeFiles, and those of MCSnapshots, share no variable: each sees
the others through what its own module says of them (a content, a snapshot, a copy of a
text that may land). They are checked in one run where each behaviour takes the steps of
one of them, so that the state spaces add up and do not multiply. Components that do
interact are in one module: the scan with the watcher and its resets, a document with the
pool, the scan and the timers.

Each `X_proof` module extends `X` and TLAPS and holds the theorems about it.
`WorkspaceState_proof` is also about FingerprintAggregate, `Snapshots_proof` is about DepGraph
and OpenDocuments, `TypesAndSymbols_proof` about UnionTypes and Interner, and
`TypeFiles_proof` about BoundedFileCache, RbiLoader and UserRbs. No module declares a
RECURSIVE operator: what the code computes by recursion is a function of a depth, whose value
at a depth is made from its value below, so that the provers can reason about it.

### WorkspaceScan

Processes: the server task (`server` is the handler it is in and its locals), the
scan threads and the scan a request runs on the server task (`scan[s]`, one record
per scanner), the late snapshots of open documents (`updates`), and the
environment: disk, watcher, editor.

| code | model |
|---|---|
| `state.workspace_scanned`, `_in_progress`, `_generation`, `_fully_discovered` | `scanned`, `in_progress`, `generation`, `discovered` |
| `workspace_state.files`, `pending_scan_files`, files of `dep_graph` | `entries`, `pending`, `graph` |
| `state.type_env_generation`; the environment an analysis used | `env`; `env_of`, history |
| `start_workspace_scan_if_needed` | `StartScanIfNeeded`, in `StartScan`, `DidOpen`, `RestartScan` |
| `ensure_workspace_scanned` | `Request`, then `EnsureScanned` once per turn of its loop; sleeping is no step |
| `initialize` with `reload_type_definitions` | `Initialize` |
| `did_change_watched_files` | `WatchBegin`, then per event `ReloadTypeFile`, `SkipOpen`, `Deleted` or `Changed` and `MarkPending`, then `ResetScan`, `InvalidateDependents`, `RestartScan`: its lock regions in their order |
| `scan_workspace_for_deps_shared` | `Capture`, `Collect`, `NextChunk`, `ReadFile`, `CommitResult`, `Finish` |
| the end of the thread or of the request's turn | `Accept` |
| `run_workspace_scan_guarded` | `Panic` |
| `should_commit_workspace_scan` | `ShouldCommit` |

The content of a file is the number of the write it comes from, its stamp the same
number. Which symbols tie files together is the constant `DependsOn`; what a file
defines is the file itself. The walk over the workspace sees the files of one
instant. Files of a chunk are read in any order because the code reads them in
parallel. A watcher notification is delivered late, in any batch, or never; the
client sends the last event of a file only.

### ScanLifecycle

The flags without threads, files or locks: only a scan under way in the current
generation makes the workspace known, and every reset opens a new generation.
`LifecycleSpec` in WorkspaceScan is the refinement (known when `scanned`, scanning
when `in_progress`). Diagnostics uses ScanLifecycle in place of the scan.

### FileStamp

One scan at a time; `ColdRead`, `ColdStat`, `WarmStat`, `WarmRead` and `TakeDoc` are
the system calls of `for_each_workspace_scan_result` in their order, per file, so a
write can fall between any two. `Unchanged` is the comparison of stamps. `Commit` is
the callback. Documents that are open or were closed are in the model, since their
snapshots have no stamp; pending marks are not: the module is about what a scan finds
out by itself.

### RbiLoader and BoundedFileCache

| code | model |
|---|---|
| `pending_files`, `index_materialized` | the same; `TakePending`, `IndexPending` |
| `file_to_classes`, `class_to_files` | `file_to_classes`; the other is its inverse |
| `file_cache`, the `OnceLock` of a file | `file_cache`, `slot_content` by the slot's identity |
| `shared_shapes`, the `OnceLock` of a class | `shapes` by class and `epoch`; a clear begins an epoch, so that a thread can go on building a shape nobody will find |
| `merge_class_into` to `build_class_shape` | `TakeShapeSlot`, `UseShapeSlot`, `LookUp`, `TakeFileSlot`, `ParseFile`, `SetShape`, a step per lock or `OnceLock` |
| `reload_path` | `ReloadIndex`, `ReloadCache`, `ReloadShapes`, `ReloadRead`, `ReloadInsert`, a step per mutex |

A server indexes all files at once (`from_indexed_file_classes`) and reloads; a batch run
starts with all files pending and reloads nothing. `racing` and `reloaded` are history.
BoundedFileCache is a module of operators on a cache as a value; the stdlib loader uses
the same type.

### UserRbs

| code | model |
|---|---|
| `type_file_classes` | the same |
| the methods of a class; its superclass, mixins and variables; `ClassData.user_defined` | `user_methods`, `user_classes`, `user_defined` |
| type aliases, constants and globals | `user_names` |
| `load_rbs_definitions_with_classes` | `RbsInit` |
| `reload_external_type_file` | `RbsReload` |

A reload takes the methods of the classes that `type_file_classes` remembers of the file out of
`user_rbs`, whichever file declared them, and the rest of such a class unless something marked
it as user defined (`set_superclass`, `set_is_module`, a constant in it); then it loads the
file again. Type aliases, constants and globals are not remembered and not taken out: a new
constant replaces the old one, a type alias that is there already stays as it is
(`AliasKept`; `import.rs:1640-1644` looks the name up among the aliases there were). `sharers`
is history: a class two files declare loses the one's declarations when the other is
reloaded, so what is claimed to be there is claimed for the others. `.rbi` files have a
branch in `reload_external_type_file` too, but the server's only call of it
(`lsp.rs:1323`) is for other files: `.rbi` files go to `reload_path` (1309-1317, RbiLoader).

### WorkspaceState

| code | model |
|---|---|
| `files`, `dirty_files`, `cached_registry`, `cached_display_base_registry` | the same |
| `cached_display_registry`, `cached_display` of `LspState` | the same, newest first |
| `upsert_file_with_stamp_and_fingerprints_impl` | `Upsert`, in `UpsertFile` and in `Display` |
| `remove_file`, `mark_file_dirty`, `invalidate_dependents_of` | `RemoveRbFile`, `MarkFileDirty`, `InvalidateDependentsOf` |
| `reload_single_type_file`, `reload_type_definitions` | `ReloadTypeFile`, `ReloadTypeDefinitions` |
| `workspace_registry`, `warm_display_base_registry` | `WorkspaceRegistry`, `Warm` |
| `analyze_current_file_for_display` | `Display`: makes sure of the snapshot, asks both caches, stores |

A snapshot is a record of what the fingerprints tell apart. The two fingerprints overlap:
`hash_export_method` hashes parameters in their order and `hash_registry_method` combines
them without it, so swapped parameters change what others see and leave the registry
fingerprint as it is (`Upsert` with `exports_changed` and without `registry_changed`).
A registry is the pair of the type definitions and the snapshots it was merged from; the
properties compare the content of registries, which is all but that order.

### OpenDocuments

| code | model |
|---|---|
| `documents`, `document_cache_updates_in_progress` | the same, for one document |
| the messages of the client | `wire`, in order; the answer to `applyEdit` is not ordered with it |
| `did_open`, `did_change`, `did_close` | `DidOpen`, `DidChange`, `DidClose` |
| the pool task of `start_document_cache_update_if_needed` | a job `update`: `UpdateStarts`, `UpdateEnds`, its two looks at the mark |
| texts copied by the scan, its publish, and debounced diagnostics | a job `diagnose`: `CopyEnds` stores it or not |
| `ensure_open_documents_cached_except`, `start_open_document_cache_updates_except` | `OtherQuery`, `OtherLenses` |
| `execute_command`, before and after its await | `ExecuteCommand`, `CommandGoesOn` |
| `code_lens_refresh_epoch`, its timers, `request_code_lens_refresh_now` | the same; jobs `lenses` and `refresh` |

### ReturnRefs, FingerprintAggregate, UnionTypes, Interner

Algorithms, each against a reference definition. `resolveGlobalRefs` follows
`resolve_global_refs` with its depth, visited methods, memo and reads, and `ResolveRound`
is a round. Where parts are made one, `MadeOne` is `from_type_vec`: untyped gives way to what
is known but not to nil alone, and too many alternatives are untyped. The reference is
`meanings`, what the return types before the first round stand for, from nothing known on, in
as many steps as there are methods: once for what a reference may be replaced by, and once for
what it is sure to be replaced by, where nothing on the way can be lost to untyped (`Loses`). The memo has what was
concrete only, as in the code (`registry.rs:7869`). `resolveGlobalRefs` is a function of the
depth that is left, `alternativesAt` and `standsFor` are functions of how deep receivers are
nested. FingerprintAggregate has `add_hash`, `remove_hash` and the inverse of an odd word
for words of 2^Log bits; a word that is only combined by exclusive or is the set of its
bits; the reference is a sum from nothing. UnionTypes has
`from_type_vec` and its relatives, each a function of how deep arrays and tuples are nested;
the reference is the values a type is known to have and those it may have (`KnownValues`,
`PossibleValues`), which differ where something is untyped.
Interner is a machine: `InternFound` and `InternMissed` under the read lock of a shard,
`InternAdd` under its write lock.

### DepGraph and Dependencies

DepGraph has the fields of `DependencyGraph`: ids that are positions and are never
given back, and the three inverse indexes. `UpdateFile` and `RemoveFile` patch them
as `update_file`, `clear_file` and `remove_file` do; `TypedRef` packs kind and id
into one word with the code's mask. The five queries read the indexes only.
Dependencies is the abstract specification: a map from paths to dependencies, and
queries on it. DepGraph implements it under `deps <- Known`.

### Diagnostics

| code | model |
|---|---|
| `diagnostics_epochs` | `epochs`, 0 for no entry |
| `did_open`, `publish_diagnostics_for_document` | `DidOpen`, `Opened`, `InferOpened`, `PublishOpened` |
| `did_change`, `schedule_diagnostics_publish_after_change` and its task | `DidChange`, `Changed`; `Wake`, `Infer`, `Recheck`, `PublishChanged` |
| `did_close` | `DidClose`, `Closed` |
| the thread's publish after its scan | `Accept` (which starts it), `Collect`, `InferNext`, `PublishNext` |
| scan on the server task | `Hover` |

`told` is history: what the client has been sent for the text a document has now,
and whether those diagnostics were computed with the workspace known.

## 3 The runs

Runs that pass:

| run | properties | what it asks |
|---|---|---|
| ScanFiles | TypeOK, OneLiveScan, DiscoveryComplete, TypesReach, NoRegress, PendingServed, LifecycleSpec | Two scan threads, the server task, disk, watcher and type reloads, no documents. Is there ever a second live scan, a flag that stays set, an undiscovered file, an older content over a newer one, a snapshot of superseded types, a mark that was served by nobody? |
| ScanDocs | OneLiveScan, DiscoveryComplete, PendingServed | The same with documents that open, change and close, late snapshots, chunks of two and a panic. |
| ScanLive | RequestReturns, MarksDrain | Does a request that waits for the scan return, do marks get taken, although scans panic and are superseded? |
| DepGraph (MCSnapshots) | TypeOK, QueriesExact, AbstractSpec | Do the patched indexes stay the inverse of the dependencies, and is the graph a map? |
| | StateTypeOK, RegistryCurrent, DisplayCurrent | Is a cached registry or display ever served that a rebuild would not give? |
| | MarkHasTask, SnapshotCatchesUp, LensesFollow, TextFollowsEdits | Does a document's snapshot catch up whatever tasks race, is the last change drawn, is the server's text the editor's? |
| | ReturnsResolved, AggregateExact, UnionCovers, UnionsAgree, SymbolsIdentify | Do the rounds replace references by what they stand for, all that are sure to stand for something and by nothing else; does the aggregate reach its set, unions all values, in groups too; is a symbol its string? |
| Stamps (MCTypeFiles) | TypeOK, StampVouches, RescanRefreshes | Can a warm scan trust a stamp that belongs to another content, or leave a visited file out of date? |
| | RbiTypeOK, NoShapeOutdated, FirstShapesWhole, ShapesWholeOutsideReload, FileCacheCoherent | Is a shape merged from all declaring files as they were reloaded, while threads build, evict and wait and the watcher reloads? |
| | UserRbsTrue | Does `user_rbs` hold what the files declare, and of methods nothing else, when each was read again some time? |
| DiagLive | TypeOK, LateResultDropped, LatestServed, CompleteServed | Are results for older texts dropped, is the last text served, and completely after a scan? |

Every property of these runs has a mutant in `PROJECT.json`: a change of one
definition, of the kind a programmer might make (the callback forgets to ask for the
generation, a reset keeps it, the guard forgets the flag, a stamp is taken after the
read, an index is only added to), under which TLC finds the property violated.
Mutated definitions stand next to the ones they change and are marked `Mutant:`.

Runs that end in a counterexample: ScanLostMark, ScanLostDependents, StampsInsured,
DiagReopened, DiagAfterPanic and
DocumentOverwritten; see section 7.

## 4 The bounds

| bound | where | why it is enough |
|---|---|---|
| two files, the second refers to the first and to the type file | scan runs | one file that changes and one that depends on it; one in a chunk and one outside |
| `Threads`: two (one in ScanLive) | scan runs | a live scan and a superseded one; with the server task, three. When all are busy no further one can be started, which only cuts behaviours with more superseded threads |
| `MaxClock`: writes, deletes, and document events; two (one in ScanLive) | scan runs | an event and one that overtakes it; type reloads count as well. ScanLive has one, the price of checking liveness; a superseded scan is still reached because one event resets |
| `ChunkSize`: one in ScanFiles, two in ScanDocs | scan runs | an abort between chunks; two files read in parallel |
| `Texts`: two in ScanDocs, none elsewhere | scan runs | a document that changes to another text while a snapshot of the first is late |
| `MaxPanics`: none in ScanFiles, one in ScanDocs and ScanLive | scan runs | the flag after a panic, alone and with a newer scan |
| three paths, two ids, one symbol, three kinds | DepGraph | ids run out, two files share a symbol, kinds overlap when packed badly |
| two files, four contents | Stamps | old snapshot, write before, between and after the two system calls |
| two `.rbi` files, two classes, two threads, one reload, a cache of one | Stamps | a thread that builds while another waits and a third part reloads; every second file evicts the first |
| two `.rbs` files, two classes, an alias and a constant, seven contents, three writes | Stamps | a class, or a name, that moves from one file to the other and back; a class that is marked and one that is not |
| two files, both open, one class, three snapshots: of the one file the body and the references change, of the other the order of parameters; displays of one entry, one reload | DepGraph | what only the registry fingerprint sees and what only the export fingerprint sees; files that matter to each other and that do not; one display evicts the other |
| one document, one edit and the signature, three messages, a command, three steps that start jobs | DepGraph; four messages in DocumentOverwritten | a change to and fro, closed and opened again, with a task and a copy of the earlier text still running |
| four classes, nil among them, with a method each, thirteen bodies, calls on a reference (`MaxNesting` one), unions of three, `DepthLimit` four, five rounds | DepGraph | circles of every shape on four methods; methods that return each other and a call on each other, whose evaluations go round until the depth ends them; untyped beside references, one of them nil; a union that is full and one alternative more; the least depth and the fewest rounds of `LimitsSuffice` |
| words of eight bits, five hashes with the extremes, three files | DepGraph | wrapping, rotation by every kind of amount, an inverse that needs all its steps |
| up to four of fifteen types, unions of four, tuples of two, a tuple in a tuple (`MaxDepth` two) | DepGraph | every limit is passed; arrays and tuples in each other; elements too many for a union, inside of another type |
| three strings in two shards, three threads | DepGraph | two threads that miss the same string, one that misses another in the same shard |
| two documents, three events, one reset, one panic | DiagLive | a change overtaking a change, a close and an open, a scan that ends in between |

ScanFiles reaches 1.6 million distinct states, ScanDocs 3.0 million, ScanLive 14
thousand, DepGraph 317 thousand (38 thousand of them initial, most of them the programs of
ReturnRefs), Stamps 1.6 million. The threads are
interchangeable, and so are the texts, so ScanFiles and ScanDocs use them as symmetry
sets, and Stamps the `.rbi` files, classes and threads; ScanLive checks liveness and uses none. Deadlock is checked in every run: the environment's
steps are bounded, but a request or a code lens is always possible. In MCTypeFiles and
MCSnapshots a part whose bound is reached, or whose work is done, rests explicitly, so that
any other standstill still is an error. DocumentOverwritten, which ends in a counterexample,
stops where the editor has nothing left to say.

## 5 Fairness

Assumed: weak fairness of the server task once it is in a handler (`Handler`), of
each scan thread (`Scan(s)`), and in Diagnostics of the debounced tasks, the
publishes after a scan and the end of a scan. The justification is the executor: an
operating-system thread that can run does run, tokio polls a task that is ready, and
the sleeps are finite. That a scan ends is not an assumption of its own but what
ScanLive shows of WorkspaceScan (`RequestReturns` needs it). Weak fairness is
enough since nothing that these steps wait for is taken away and given back for
ever: the events that supersede a scan are bounded.

Nothing is assumed of the editor, the watcher, the disk or the pool: no request
needs to come, no notification needs to be delivered, no late snapshot needs to
land. `MarksDrain` and `CompleteServed` except behaviours with a panic, because
after one nobody restarts the scan until a request comes.

## 6 The proofs

All theorems hold for any number of files, threads, documents, symbols, kinds, and
any bounds. They rest on the named assumptions of the modules (`ScanConstants`,
`GraphConstants`, `FileStampConstants`, `DiagnosticsConstants`, `RbiConstants`,
`RbsConstants`, `WorkspaceConstants`, `HashConstants`, `NoFileIsNone`, `DocumentConstants`,
`InternerConstants`, `UnionConstants`, `ReturnConstants`, and that the null values are not data),
which TLC evaluates in every run. None says more than what the constants are.

**WorkspaceScan_proof.** `TypeCorrect` is inductive by itself. `OneLiveScan` is not:
a reset lets no scan commit only because the new generation is above those of *all*
threads. `LiveInv` adds that no thread has a generation from the future; every
action then has one of a few shapes (nothing of the life cycle changes, one scan goes
on, a scan is claimed, a scan ends, a reset), each a lemma. `ImplementsLifecycle` uses the
same invariant: a step of the code is a step of ScanLifecycle or a stutter, the
interesting one being `Accept`, where the guard gives `Live(s)`, hence `in_progress`.
`DiscoveryComplete` needs more: `DiscoveryInv` states what a scan that may still
commit has achieved (`Walked`): when it must discover, each file untouched since the
start is in the graph, in its work, in its chunk, or in its uncommitted results; when
it need not, the workspace was discovered before. It also needs that a deletion that
is under way concerns a file that was deleted, and that every file with a snapshot is in
the graph. The aborted walk empties its work, which keeps the invariant only because
the abort implies the scan is not live any more.

The other three action and state properties of the scan each add what is true between
two steps. `TypesInv` (for `TypesReach`): a reload that named files owes their
invalidation until it is done; once it is, every snapshot read from disk is of the new
definitions or unaffected, and so is what a scan that may still commit has taken; no scan
is live while the invalidation runs, which is why the reset must come before it.
`ForwardInv` (for `NoRegress`): nothing stored or held is newer than the clock, and a live
scan holds at most one result of a file, which is not older than the snapshot it will replace; with
`OneLiveScan` no other scan commits between its read and its commit. `ServedInv` (for
`PendingServed`): of every mark a live scan captured, the file is still in its work, or in its
results, or served; a deletion that is handled late, after the file came back, has a newer
event of the same file behind it (`LateDeletions`), which is the case `Owed` excepts.

**Snapshots_proof**, on DepGraph. `GraphInv` is the type invariant, `IdsDistinct` and `IndexExact`.
The core is `ReplaceExact`: taking the stored dependencies of one id out of the
indexes and putting new ones in leaves the entries of other ids alone. For the typed
index this rests on packing being injective on kinds and ids (`Packing` and
`Unpacking`, lemmas about `%` and `\div`), which is where the mask enters.
`GraphQueriesExact` and `GraphImplements` follow.

**FileStamp_proof.** A stamp vouches because no content comes back: what is newer
than the clock does not exist, so a result whose stamp is not the file's stays so.
`IInv` carries this for uncommitted results next to the snapshots. For
`RescanRefreshesHolds`, `RefreshInv` says of every file that nothing touched since the scan
began how far its job is: the snapshot is the one captured, or what was read is the
content of the file, or the snapshot is up to date. `StampVouches` is what the one case needs in which
the file is not read.

**Diagnostics_proof.** Within a session the epoch of a document counts its changes,
so a task with the document's epoch has its text, unless the handler has stored a
text and has not bumped the epoch (`EpochTells`, `Busy`). `LateResultDroppedHolds`
is an action property that follows from it.

**WorkspaceState_proof.** What there is in a merged registry is told by the registry
fingerprints of its snapshots, the order of parameters apart (`PrintsTell`).
`RegistryStaysCurrent` is then nearly inductive: whatever changes a
snapshot's registry fingerprint empties the cache in the same step. For
`DisplaysStayCurrent` the invariant says of every entry of the two caches, and not only
of those that would be hit now, that it was made from the present type definitions
and from snapshots with the fingerprints in its key (`MadeFor`), and the same of the base
(`BaseFits`); a reload empties all of them, which is why the base can do without the
generation in its key. `StateTypeCorrect` needs the same invariant, and a fact about the
queue that `Remembered` makes (`RememberedApart`): after the old entry of the file is taken
out and the new one put in front, no two entries are of one file and there are at most as
many as the limit.

The same module proves `AggregateStaysExact`, for words of any 2^Log bits, the 64 of the
code included, where the run has eight. Its two halves are facts of arithmetic that no run
reaches: `NewtonInverts` (if `v * x` is one modulo `m`, a step makes it one modulo `m * m`,
and each word computed modulo the last modulus stays right modulo the smaller ones, which
divide it), hence `RemoveUndoes`; and `SumsAdd` (additions commute, so any file of a set
may have been the last one added). Both are inductions over numbers, done on the set of the
numbers a fact holds of (`UpFromZero`). `2 ^ (2 ^ n)` is defined by squaring (`Moduli`),
since the provers know nothing of powers.

**Snapshots_proof**, on OpenDocuments. `MarkHasTask` and `LensesFollow` are inductive once jobs are known
to be records (`JobShape`). `SnapshotCatchesUp` is not: while an analysis is under way it
says nothing. `Caught` is what every step keeps: the snapshot is of the text, or the text
is marked as under analysis, or a copy of an earlier text was stored last; with
`MarkHasTask`, no analysis under way means no mark. `TextFollowsEdits` speaks of the moment
when the queue is empty; `TextInv` says of any queue that some sequence of texts begins with
the server's, ends with the editor's, and goes from one text to the next as the message
between them says (`Way`). The editor appends to the sequence, a handler cuts off its
beginning (`SendKeeps`, `HandleKeeps`), so no induction over the queue is needed. Once a
command has overwritten a text the first text of the sequence may be any.

**TypeFiles_proof** is about the three modules that keep what type files declare.

Of BoundedFileCache it proves that inserting, evicting and removing keep a cache coherent
(`InsertCoherent`, `EvictCoherent`, `RemoveCoherent`). `WithoutOne` is what `retain` does to
a key that is there once: the rest moves up by one.

Of RbiLoader, `RbiInv` is ten named parts, TLC-checked before it was proved. What is cached
is right because of what threads in the middle of a build have, which may be a slot of a
file that a reload has meanwhile taken out of the cache, and because of the epoch their
shape belongs to:

- `OneBuilder`, `EpochsPast`, `SlotsApart`: what is being built has one builder, nobody is
  ahead of the epoch, and a slot is of one file whoever holds it. A thread of an ended epoch
  may be wrong about everything; nobody will find what it builds.
- `NothingOutdated` gives `NoShapeOutdated`. It says that of the shapes, and of the parts and
  the slot of every thread whose epoch lasts; and of the cache with a bound that rises at the
  moment the reload has taken the file out, which is one lock region before the shapes are
  cleared (`Floor`). Hence the order of those two regions.
- `IndexTrue`, `CacheTrue`: index and cache are right about the files whose change was told
  and which no reload has in its hands.
- `Merging` and `Merged` give `FirstShapesWhole` and `ShapesWholeOutsideReload`: a thread that
  looked up outside of the window of a reload has of each file just what the file declares, or
  is still to load it.
- `Counted` ties the epoch to the writes. It is why a batch run has one epoch, and why the
  bound on epochs is never reached.

Of UserRbs, `UserRbsTrue` speaks of the moments when all is told. The invariant says file by
file what holds of files without news. `NothingFalse`: the methods `user_rbs` has of them are
true and under a class that is remembered for them, and so is the rest of a class that is not
marked; a marked class may have kept the rest, which is why the property leaves it out.
`NothingMissing`: it has all of their classes, except those another file shares. `NamesKnown`
says the same of constants and globals, and of a type alias only that there is one.

**TypesAndSymbols_proof**, on UnionTypes, is about types of any depth. The functions of the
module are first shown to be what their stages say (`TypesExist` to `WidenArgForParamAre`), by
counting up from depth zero. `UnionCovers` then goes through `from_type_vec` in the order of
the code: subsumed literals, simplified parts, merged arrays and the limit each keep the known
values (`SubsumedValues`, `SimplifiedCovers`, `FromPartsCovers`), given that they are kept one
depth below; `MergeCovers` is that for every depth. The widenings and the merge of arguments
follow in the same way. For `UnionsAgree` the merged arrays are what matters: they depend on
nothing but the arrays and tuples that came together (`MergedArrays`), merging them once more
with others gives what all give (`ArraysAgree`). The rest of a union is a set, in which `Bot`
and literals whose class is there may go early or late (`PartsAgree`). `MeetingCovers` and
`MeetingAgrees` are the two properties.

The same module proves `SymbolsAreIdentities`: what was handed out is in the shard of its text,
and a shard has one entry per text; the second look is what keeps this in `AddFresh`.

**ReturnRefs_proof** proves `ReturnsAreReplaced`, the first half of `ReturnsResolved`, for any
classes, methods, return types, limits and nesting of receivers: a return type is what was
written, or references of it gave way to exactly the classes they stand for, and what was
untyped with them, or it is lost to untyped, and then the type is one that can be lost
(`MayLose`). What an evaluation makes of a type becomes of it in one of these three ways
(`Becomes`), at every depth, whatever is visited and whatever the memo has (`AllGood`), given
that what the methods return has become what it is in the same way (`ReturnsOK`): a reference
that comes back concrete comes back as what its method stands for (`ReturnsMean`). The
difficulty is in the second round. What becomes of what became of a type has to become of
the type itself (`BecomesMore`), although the first step may have dropped what is untyped and
the second meets alternatives the first has put there; and the case of nil and untyped has to
be told from it, which is why `Replaces` asks for two references there. Whatever is said of
`meanings` is said of a function by steps: what is known stays known
(`MeaningsGrow`), and after as many steps as there are methods nothing is new (`KnownCounts`).

That everything sure to stand for something is replaced in the end, the second half, is
model-checked only.

What the three statements except is what their proofs could not do without; without the
exceptions of the first two TLC finds a counterexample. Types made one in two steps can lose
values when the first step makes an array of untyped, so `UnionCovers` asks of that step that it
keeps what is known. A group can become untyped by itself where all at once do not, so
`UnionsAgree` speaks of groups that do not. `ReturnsReplaced` lets a type be lost to untyped, but
only where `MayLose` says how it can be. That only concrete results are remembered matters to the
second half of `ReturnsResolved`: a memo of all results would also remember what was cut off at
a visited method.

Model-checked only: the four liveness properties (`RequestReturns`, `MarksDrain`,
`LatestServed`, `CompleteServed`), which like ENABLED are out of this prover's reach, and the
second half of `ReturnsResolved`. Every other property of a passing run is the statement of a
theorem. Induction over numbers
and finite sets is done by hand where a proof needs it, from the set form of well-founded
induction (`WFMin`, in `Smallest`, `UpFromZero` and `FromZeroUp`).

## 7 Where the code and its documents disagree

Each is a run whose single property states what a comment or document says.

1. **ScanLostMark / WatchedChangesLand.** `did_change_watched_files` marks a file
   pending in one lock region (`lsp.rs:2889`) and opens the new generation in a later
   one (2900). A scan that took its files before the mark and finishes in between still
   commits, and `clear_pending_scan_files` (1798) drops a mark it never processed. The
   next scan has no delta left and falls back to the known files. The run creates a file
   after the walk of the first scan: it is not known, its mark is gone, and it never gets a
   snapshot. The comment at 1793-1794 knows of marks that were never processed, in the
   branch of an aborted scan; the branch below it takes all marks for processed.
2. **ScanLostDependents / DirtyRescanned.** `invalidate_dependents_of`
   (`state.rs:586-596`) removes the snapshots of dependents and marks them in
   `dirty_files`, which `collect_workspace_scan_files` does not read: an incremental
   scan covers pending and open files, and one without a delta, as after the reload of a
   type file, the known files, which are those with a snapshot. In the run a type file
   changes, the scan that follows visits what is known, and its dependent, which is not any
   more, stays missing while the workspace counts as scanned. The comment at `lsp.rs:299`
   says that a rescan covers dirty files, and all known files without a delta.
3. **StampsInsured / Insured.** A cold scan reads a file (`lsp.rs:190`) before it
   takes the stamp (191); the warm branch does it the other way round. A write in
   between gives the old content the new stamp, and the fallback scan that 299 calls
   "insurance against a missed watcher event" leaves the file alone for ever.
4. **DiagReopened / DroppedByReopen.** `did_close` removes the epoch of a document
   (2840-2843) and the count restarts at 1; a publish that was inferring since before
   the close can find its own number again. The comment at 466-467 says an open or
   close drops it.
5. **DiagAfterPanic / ReissuedAlways.** After a scan thread panicked, the scan that a
   hover runs (1593-1604) makes the workspace known and publishes nothing, so
   documents keep the incomplete diagnostics that 1852 says are re-issued.
6. **DocumentOverwritten / TextFollows.** createSignature computes a text, awaits the
   editor (`lsp.rs:3220`) and puts the text into `documents` (3225). A change handled
   during the await is lost; the editor's own notification of the edit, when it comes
   after the answer, applies it twice; and a text without a final newline gets one
   (`source_support.rs:765-783`). `docs/architecture.md:139` says unsaved input is always
   seen in its latest snapshot.

The passing properties are stated next to them so that the exception is as narrow as
possible: `StampVouches` and `RescanRefreshes` except only snapshots of cold scans,
`LateResultDropped` only texts of an earlier session, `CompleteServed` only panics,
`PendingServed` claims the marks a scan captured, `TextFollowsEdits` excepts
documents a command overwrote, and `SnapshotCatchesUp` snapshots made from a copy of an
earlier text.

The models also show what no document speaks against, and no run claims: a class asked for
between two lock regions of `reload_path` (`sorbet/rbi.rs:189-209`) gets a shape without
the reloaded file, which stays until the next reload (`ShapesWhole`, whose exception in
`ShapesWholeOutsideReload` is exactly that window); a class that two `.rbs` files declare
loses the declarations of one when the other is reloaded; an array whose elements were too
many for a union becomes an array of untyped, and the next array it meets replaces it, with
the values it stood for (what `Keeps` and `FullyKnown` except).

The order of mixins is in no fingerprint (`fingerprints.rs:318`), and that of parameters in the
export fingerprint only (209-213, 220). So a display of another file survives a change of
either, and the cached registry may keep the old one: exports that changed mark the file
dirty, which makes the next query merge again, but not when the upsert is a scan's
(`state.rs:360-366`), nor when a second upsert of the same snapshot takes the mark back
first. `RegistryCurrent` and `DisplayCurrent` are about the content up to that order.

Of what a `.rbs` file no longer declares, constants, globals and type aliases stay in `user_rbs`
until the next full reload, and so do the superclass, the mixins and the variables of a class
that is marked as user defined; a type alias that is changed keeps its old meaning
(`import.rs:112-115`, 1640-1644). `docs/architecture.md:109-111` says that a change of external
definitions invalidates the caches, not that it forgets what was there before.

What the rounds of ReturnRefs make of untyped beside two references to nil depends on when each
is found: nil if one is found a round before the other, untyped if both are found at once
(`registry.rs:7614-7622`, `types.rs:841-843`). The comment at `registry.rs:7154` calls the
rounds an order-independent fixpoint; they are, in that the order of methods within a round
does not matter.

## 8 Hazards no property covers yet

`PROJECT.json` lists them at their lines with the reason; most are of one kind: the code
orders nothing there, and a property would be false without contradicting any document.
They are the messages that are sent after the look that let them pass (an incomplete
publish of `did_open`, one past its second look at the epoch, one after a scan); a deleted
file that a scan result brings back; the type environment of an open document's snapshot,
which counts as current by its text alone; changes on disk of an open file that nobody
looks at after it is closed; a copy of an earlier text that a scan stores over the snapshot of a
newer one (the exception of `SnapshotCatchesUp`); the dependents of a symbol that an edit removed; and a
poisoned mutex after a panic under the lock.

## 9 What is not modelled

- Inference, its DSL plugins, the Rails and Sorbet parsers, the diagnostics rules,
  the front end and rendering: large, sequential, and pure functions of a text and a
  type environment. Their results are opaque values here.
- The answers of queries, the wording of diagnostics, symbols and locations.
- Knowledge precedence: a few comparisons of enumerations, one definition at a time.
- Of the type registry: the merge of classes, the order of ancestors, and the caches of
  one round of inference (`registry.rs` 4268-4322, 9152-9420), which one thread fills and
  reads under a borrow. Of ReturnRefs: ancestors, what instance variables and globals stand
  for, references inside of containers, and the budget of 100000 nodes.
- Of the unions: hashes and records, floats, strings and symbols.
- Of the rbi loader: `knows_class` is only asked after the index was built, and only tests
  call `drop_file_cache` and `extend`. A new `.rbi` file in a workspace that had none finds
  no loader (`lazy_rbi_loader` is `None`) and is not modelled.
- The walk over the roots and the parsing of project files: I/O.
- MCP, the wasm entry, the scenario runner: sequential loops without shared state.
- A `didChange` for a document the server has no text of, for which the code takes the text on
  disk (`lsp.rs:2792-2797`): an editor changes only what it has opened.
- A write that keeps both the time and the length of a file, which no stamp can see.
- `LspState` poisoned by a panic under the lock: the panics modelled are those of an
  analysis, which runs outside it.

## 10 The plan

What is left, in order of what a mistake would cost:

1. The last message a client is sent about a document, if the code comes to order its
   messages; deleted files in the scan, once it has a rule for them.
2. The caches of the registry: readers that are replayed on a hit, parameters that are
   resolved once and frozen, the call-site index and its revision.
3. The order of ancestors against Ruby's, and the projection of a batch run for any
   chunking, both against a reference definition.
4. References inside of arrays, hashes and tuples in ReturnRefs, and of instance variables and
   globals. `Becomes` would have to be said of the places of a type, not of its alternatives.
   Then the second half of `ReturnsResolved` as a theorem: that what an evaluation leaves
   unresolved waits for a method it has read.

## 11 How to run

    tlc -workers 2 -config ScanFiles.cfg MCWorkspaceScan.tla
    tlapm WorkspaceScan_proof.tla

`PROJECT.json` names the module and configuration of every run. With two workers
ScanDocs, DiagLive, DepGraph and Stamps take one to three minutes each, the others less; the
proofs take some ten minutes together, of which `ReturnRefs_proof` and
`TypesAndSymbols_proof` take half.
