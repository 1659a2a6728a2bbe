---------------------------- MODULE WorkspaceScan ----------------------------
(***************************************************************************)
(* The background scan of the LSP server (src/src/lsp.rs): the handlers    *)
(* that reset or request it, the threads that run it, and the part of      *)
(* WorkspaceState (src/src/workspace_state.rs) they read and write.        *)
(*                                                                         *)
(* Processes.  The server task runs one handler at a time: tower-lsp polls *)
(* all handlers from a single task, so a handler is only interleaved with  *)
(* another one at an await.  Scan threads are started by the handlers and  *)
(* keep running after a reset has superseded them; hover and definition    *)
(* requests scan on the server task itself (Srv).  The disk, the editor    *)
(* and the file watcher are the environment.  Every lock region of the     *)
(* code is one action; regions whose order cannot be observed by another   *)
(* process are merged, and say so.                                         *)
(*                                                                         *)
(* Data.  The content of a file is the number of the write that produced   *)
(* it; its stamp is the same number (module FileStamp is about the gap     *)
(* between the two).  The text of an open document is an element of Texts. *)
(* Which symbols tie files together is the constant DependsOn.             *)
(***************************************************************************)
EXTENDS Naturals, FiniteSets

CONSTANTS
  Files,        \* the target .rb files of the workspace
  TypeFile,     \* a .rbs file: its reload replaces the type environment
  Threads,      \* bound: background scan threads alive at the same time
  Srv,          \* the server task in its role of running a scan
  Texts,        \* texts an editor may put in an open document
  NoDoc,        \* the document is not open
  NoEntry,      \* the workspace holds no snapshot of the file
  DependsOn,    \* f |-> the files (or TypeFile) whose symbols f refers to
  ChunkSize,    \* LSP_SCAN_CHUNK_SIZE
  MaxClock,     \* bound: disk writes, and documents opened, changed or closed
  MaxPanics     \* bound: scans that panic

ASSUME ScanConstants ==
  /\ TypeFile \notin Files
  /\ Srv \notin Threads
  /\ NoDoc \notin Texts
  /\ DependsOn \in [Files -> SUBSET (Files \union {TypeFile})]
  /\ ChunkSize \in Nat \ {0}
  /\ MaxClock \in Nat
  /\ MaxPanics \in Nat

VARIABLES
  disk,         \* f |-> the write its content comes from, 0 when it does not exist
  clock,        \* number of events from outside so far: disk writes and document events
  notices,      \* watcher notifications the client has not delivered yet
  docs,         \* state.documents
  updates,      \* snapshots of open documents being computed outside the scan
  entries,      \* workspace_state.files
  env_of,       \* f |-> the type environment the analysis of its entry was made against
  graph,        \* the files workspace_state.dep_graph has dependencies for
  pending,      \* workspace_state.pending_scan_files
  scanned,      \* state.workspace_scanned
  in_progress,  \* state.workspace_scan_in_progress
  generation,   \* state.workspace_scan_generation
  discovered,   \* state.workspace_fully_discovered
  env,          \* state.type_env_generation
  named_env,    \* the last type environment that came with affected classes
  server,       \* the handler the server task is in
  scan,         \* s |-> the locals of the scan that s runs
  panics        \* number of scans that panicked so far

world == <<disk, clock, notices>>
workspace == <<entries, env_of, graph, pending>>
flags == <<scanned, in_progress, generation, discovered>>
types == <<env, named_env>>
vars == <<disk, clock, notices, docs, updates, entries, env_of, graph, pending, scanned,
          in_progress, generation, discovered, env, named_env, server, scan, panics>>

Scanners == Threads \union {Srv}
Kinds == {"changed", "deleted"}
Notices == [file : Files \union {TypeFile}, kind : Kinds]

\* A snapshot: where its source came from, and which one.  The entry of a closed file
\* has the stamp of the file as its key, the entry of an open one the hash of its text.
OnDisk(v) == [from |-> "disk", what |-> v]
InDoc(x) == [from |-> "text", what |-> x]
Snapshots == [from : {"disk"}, what : Nat] \union [from : {"text"}, what : Texts]

ASSUME NoEntryIsNone == NoEntry \notin Snapshots

\* A WorkspaceScanResult of a file.
Analyzed(f, s) == [file |-> f, kind |-> "analyzed", snapshot |-> s]
RefreshStamp(f, s) == [file |-> f, kind |-> "refresh", snapshot |-> s]
Results == [file : Files, kind : {"analyzed", "refresh"}, snapshot : Snapshots]

NoScan == [pc |-> "none", generation |-> 0, env |-> 0, force_full |-> FALSE,
           since |-> 0,
           cached |-> [f \in Files |-> NoEntry], open |-> [f \in Files |-> NoDoc],
           pend |-> {}, work |-> {}, chunk |-> {}, results |-> {}]
Idle == [pc |-> "idle", todo |-> {}, at |-> TypeFile, affected |-> {}, rb_change |-> FALSE]

Open == {f \in Files : docs[f] # NoDoc}
Known == {f \in Files : entries[f] # NoEntry}

\* should_commit_workspace_scan.
ShouldCommit(s) == generation = scan[s].generation

Init ==
  /\ disk \in [Files -> {0, 1}]
  /\ clock = 0
  /\ notices = {}
  /\ docs = [f \in Files |-> NoDoc]
  /\ updates = {}
  /\ entries = [f \in Files |-> NoEntry]
  /\ graph = {}
  /\ pending = {}
  /\ scanned = FALSE
  /\ in_progress = FALSE
  /\ generation = 0
  /\ discovered = FALSE
  /\ env_of = [f \in Files |-> 0]
  /\ env = 0
  /\ named_env = 0
  /\ server = [Idle EXCEPT !.pc = "boot"]
  /\ scan = [s \in Scanners |-> NoScan]
  /\ panics = 0

-----------------------------------------------------------------------------
(* The environment. *)

\* The client coalesces what it has not sent yet: the last event of a file replaces the others.
Notify(f, kind) ==
  notices' = {n \in notices : n.file # f} \union {[file |-> f, kind |-> kind]}

\* Every event from outside has a number of its own; the content of a write is that number.
Tick == clock < MaxClock /\ clock' = clock + 1

WriteFile(f) ==
  /\ Tick
  /\ disk' = [disk EXCEPT ![f] = clock + 2]
  /\ Notify(f, "changed")
  /\ UNCHANGED <<docs, updates, workspace, flags, types, server, scan, panics>>

DeleteFile(f) ==
  /\ Tick
  /\ disk[f] # 0
  /\ disk' = [disk EXCEPT ![f] = 0]
  /\ Notify(f, "deleted")
  /\ UNCHANGED <<docs, updates, workspace, flags, types, server, scan, panics>>

WriteTypes ==
  /\ Tick
  /\ Notify(TypeFile, "changed")
  /\ UNCHANGED <<disk, docs, updates, workspace, flags, types, server, scan, panics>>

-----------------------------------------------------------------------------
(* Handlers that start or request a scan. *)

\* The claim both starters make under the lock: the flag, and the generation they scan for.
Claim(s) ==
  /\ in_progress' = TRUE
  /\ scan' = [scan EXCEPT ![s] = [NoScan EXCEPT !.pc = "capture", !.generation = generation]]
  /\ UNCHANGED <<scanned, generation, discovered>>

\* start_workspace_scan_if_needed.
StartScanIfNeeded ==
  IF scanned \/ in_progress
  THEN UNCHANGED <<flags, scan>>
  ELSE \E t \in Threads : scan[t].pc = "none" /\ Claim(t)

\* initialize: reload_type_definitions empties WorkspaceState and opens a generation.
Initialize ==
  /\ server.pc = "boot"
  /\ entries' = [f \in Files |-> NoEntry]
  /\ graph' = {}
  /\ pending' = {}
  /\ scanned' = FALSE
  /\ in_progress' = FALSE
  /\ generation' = generation + 1
  /\ discovered' = FALSE
  /\ env_of' = [f \in Files |-> 0]
  /\ env' = env + 1
  /\ named_env' = env + 1
  /\ server' = Idle
  /\ UNCHANGED <<world, docs, updates, scan, panics>>

\* initialized, after its awaits, and code_lens_for_document while the scan is not done.
StartScan ==
  /\ server.pc = "idle"
  /\ StartScanIfNeeded
  /\ UNCHANGED <<world, docs, updates, workspace, types, server, panics>>

\* did_open.  The document is stored before the scan is started; a scan thread that runs
\* in between reads the same documents it would read after the start.
DidOpen(f, x) ==
  /\ server.pc = "idle"
  /\ Tick
  /\ docs[f] = NoDoc
  /\ docs' = [docs EXCEPT ![f] = x]
  /\ StartScanIfNeeded
  /\ updates' = updates \union {<<f, x, env>>}
  /\ UNCHANGED <<disk, notices, workspace, types, server, panics>>

DidChange(f, x) ==
  /\ server.pc = "idle"
  /\ Tick
  /\ docs[f] \notin {NoDoc, x}
  /\ docs' = [docs EXCEPT ![f] = x]
  /\ updates' = updates \union {<<f, x, env>>}
  /\ UNCHANGED <<disk, notices, workspace, flags, types, server, scan, panics>>

DidClose(f) ==
  /\ server.pc = "idle"
  /\ Tick
  /\ docs[f] # NoDoc
  /\ docs' = [docs EXCEPT ![f] = NoDoc]
  /\ UNCHANGED <<disk, notices, updates, workspace, flags, types, server, scan, panics>>

\* A snapshot of an open document reaches the workspace outside the scan: from the pool
\* task of start_document_cache_update_if_needed, from ensure_open_documents_cached_except
\* or from ensure_base_analysis_cached.  Each of them may also find it is not needed.
LandUpdate(f, x, since) ==
  /\ <<f, x, since>> \in updates
  /\ updates' = updates \ {<<f, x, since>>}
  /\ \/ /\ entries' = [entries EXCEPT ![f] = InDoc(x)]
        /\ env_of' = [env_of EXCEPT ![f] = since]
        /\ graph' = graph \union {f}
     \/ UNCHANGED <<entries, env_of, graph>>
  /\ UNCHANGED <<world, docs, pending, flags, types, server, scan, panics>>

\* hover, goto_definition and their kin call ensure_workspace_scanned.
Request ==
  /\ server.pc = "idle"
  /\ server' = [Idle EXCEPT !.pc = "ensure"]
  /\ UNCHANGED <<world, docs, updates, workspace, flags, types, scan, panics>>

\* One turn of its loop: return, claim the scan, or sleep while another one runs (no step).
\* The flags are read again under the lock that claims, so check and claim are one action.
EnsureScanned ==
  /\ server.pc = "ensure"
  /\ \/ /\ scanned
        /\ server' = Idle
        /\ UNCHANGED <<flags, scan>>
     \/ /\ ~scanned /\ ~in_progress
        /\ server' = [Idle EXCEPT !.pc = "scanning"]
        /\ Claim(Srv)
  /\ UNCHANGED <<world, docs, updates, workspace, types, panics>>

-----------------------------------------------------------------------------
(* did_change_watched_files: one lock region after another. *)

WatchBegin(batch) ==
  /\ server.pc = "idle"
  /\ batch # {}
  /\ notices' = notices \ batch
  /\ server' = [Idle EXCEPT !.pc = "watch", !.todo = batch]
  /\ UNCHANGED <<disk, clock, docs, updates, workspace, flags, types, scan, panics>>

\* reload_single_type_file: no reset of the scan, which the handler does later, and only
\* if some class is affected.
ReloadTypeFile(c) ==
  /\ server.pc = "watch" /\ c \in server.todo /\ c.file = TypeFile
  /\ env' = env + 1
  /\ \E named \in SUBSET {TypeFile} :
       /\ server' = [server EXCEPT !.todo = @ \ {c}, !.affected = @ \union named]
       /\ named_env' = IF named = {} THEN named_env ELSE env + 1
  /\ UNCHANGED <<world, docs, updates, workspace, flags, scan, panics>>

\* The notification of a file that is open is skipped.
SkipOpen(c) ==
  /\ server.pc = "watch" /\ c \in server.todo /\ c.file \in Open
  /\ server' = [server EXCEPT !.todo = @ \ {c}]
  /\ UNCHANGED <<world, docs, updates, workspace, flags, types, scan, panics>>

Deleted(c) ==
  LET f == c.file IN
  /\ server.pc = "watch" /\ c \in server.todo /\ c.kind = "deleted"
  /\ f \in Files \ Open
  /\ entries' = [entries EXCEPT ![f] = NoEntry]
  /\ env_of' = [env_of EXCEPT ![f] = 0]
  /\ graph' = graph \ {f}
  /\ pending' = pending \ {f}
  /\ server' = [server EXCEPT !.todo = @ \ {c}, !.affected = @ \union ({f} \cap graph)]
  /\ UNCHANGED <<world, docs, updates, flags, types, scan, panics>>

\* Mutant: the extension of the changed file is not looked at.
ChangedAnyFile(c) ==
  /\ server.pc = "watch" /\ c \in server.todo /\ c.kind = "changed"
  /\ c.file \notin Open
  /\ server' = [server EXCEPT !.pc = "mark", !.at = c.file, !.rb_change = TRUE]
  /\ UNCHANGED <<world, docs, updates, workspace, flags, types, scan, panics>>

\* The definitions are read in one lock region, the mark is set in a later one.
Changed(c) ==
  LET f == c.file IN
  /\ server.pc = "watch" /\ c \in server.todo /\ c.kind = "changed"
  /\ f \in Files \ Open
  /\ server' = [server EXCEPT !.pc = "mark", !.at = f, !.rb_change = TRUE,
                              !.affected = @ \union ({f} \cap graph)]
  /\ UNCHANGED <<world, docs, updates, workspace, flags, types, scan, panics>>

MarkPending ==
  /\ server.pc = "mark"
  /\ pending' = pending \union {server.at}
  /\ server' = [server EXCEPT !.pc = "watch", !.at = TypeFile,
                              !.todo = {c \in @ : c.file # server.at}]
  /\ UNCHANGED <<world, docs, updates, entries, env_of, graph, flags, types, scan, panics>>

\* Mutant: the flags are reset but no new generation is opened.
ResetKeepsGeneration ==
  /\ server.pc = "watch" /\ server.todo = {}
  /\ scanned' = FALSE
  /\ in_progress' = FALSE
  /\ server' = [server EXCEPT !.pc = "invalidate"]
  /\ UNCHANGED <<world, docs, updates, workspace, generation, discovered, types, scan, panics>>

\* Only now is the scan reset, under a lock of its own.
ResetScan ==
  /\ server.pc = "watch" /\ server.todo = {}
  /\ IF server.rb_change \/ server.affected # {}
     THEN /\ scanned' = FALSE
          /\ in_progress' = FALSE
          /\ generation' = generation + 1
          /\ server' = [server EXCEPT !.pc = "invalidate"]
     ELSE /\ server' = Idle
          /\ UNCHANGED <<scanned, in_progress, generation>>
  /\ UNCHANGED <<world, docs, updates, workspace, discovered, types, scan, panics>>

\* invalidate_caches_for_symbols drops the snapshots of the dependents, not their edges.
Dependents(changed) == {f \in graph : DependsOn[f] \cap changed # {}}

InvalidateDependents ==
  /\ server.pc = "invalidate"
  /\ LET dropped == Dependents(server.affected) IN
     /\ entries' = [f \in Files |-> IF f \in dropped THEN NoEntry ELSE entries[f]]
     /\ env_of' = [f \in Files |-> IF f \in dropped THEN 0 ELSE env_of[f]]
  /\ server' = [server EXCEPT !.pc = "restart"]
  /\ UNCHANGED <<world, docs, updates, graph, pending, flags, types, scan, panics>>

\* Mutant: the handler leaves the scan to the next request.
RestartLater ==
  /\ server.pc = "restart"
  /\ server' = Idle
  /\ UNCHANGED <<world, docs, updates, workspace, flags, types, scan, panics>>

RestartScan ==
  /\ server.pc = "restart"
  /\ StartScanIfNeeded
  /\ server' = Idle
  /\ UNCHANGED <<world, docs, updates, workspace, types, panics>>

-----------------------------------------------------------------------------
(* A scan: scan_workspace_for_deps_shared under run_workspace_scan_guarded. *)

\* The locals of one scan change, and nothing else.
Locally(s, r) ==
  /\ scan' = [scan EXCEPT ![s] = r]
  /\ UNCHANGED <<world, docs, updates, workspace, flags, types, server, panics>>

Capture(s) ==
  /\ scan[s].pc = "capture"
  /\ Locally(s, [scan[s] EXCEPT !.pc = "collect", !.env = env, !.force_full = ~discovered,
                                !.cached = entries, !.open = docs, !.pend = pending,
                                !.since = clock])

CachedFiles(r) == {f \in Files : r.cached[f] # NoEntry}
OpenFiles(r) == {f \in Files : r.open[f] # NoDoc}

\* Mutant: a didOpen before the first scan degrades it to the files it knows and the open ones.
ScanFilesByKnown(r) ==
  LET delta == r.pend \union OpenFiles(r) IN
  IF CachedFiles(r) = {} THEN delta \union {f \in Files : disk[f] # 0}
  ELSE IF delta = {} THEN CachedFiles(r)
  ELSE delta

\* Mutant: an incremental rescan forgets the pending files when documents are open, and
\* trusts the stamps it has when none is.
ScanFilesWithoutPending(r) ==
  IF r.force_full \/ CachedFiles(r) = {}
  THEN r.pend \union OpenFiles(r) \union {f \in Files : disk[f] # 0}
  ELSE OpenFiles(r)

\* collect_workspace_scan_files.
ScanFiles(r) ==
  LET delta == r.pend \union OpenFiles(r) IN
  IF r.force_full \/ CachedFiles(r) = {} THEN delta \union {f \in Files : disk[f] # 0}
  ELSE IF delta = {} THEN CachedFiles(r)
  ELSE delta

\* The scan function has returned; only its caller remains, which knows the generation.
Returned(r) == [NoScan EXCEPT !.pc = "return", !.generation = r.generation]

Collect(s) ==
  /\ scan[s].pc = "collect"
  /\ Locally(s, IF ShouldCommit(s)
                THEN [scan[s] EXCEPT !.pc = "walk", !.work = ScanFiles(scan[s])]
                ELSE Returned(scan[s]))

\* for_each_workspace_scan_result: should_abort is asked once per chunk.
NextChunk(s) ==
  /\ scan[s].pc = "walk" /\ scan[s].work # {}
  /\ \E chunk \in SUBSET scan[s].work :
       /\ Cardinality(chunk) = IF Cardinality(scan[s].work) < ChunkSize
                               THEN Cardinality(scan[s].work) ELSE ChunkSize
       /\ Locally(s, IF ShouldCommit(s)
                     THEN [scan[s] EXCEPT !.pc = "read", !.work = @ \ chunk, !.chunk = chunk]
                     ELSE [scan[s] EXCEPT !.work = {}])

\* Where a scan goes on once a file is read or a result is handled: the rest of the chunk
\* is read, then its results are handled, then the walk goes on.
Settle(r) ==
  [r EXCEPT !.pc = IF r.chunk # {} THEN "read" ELSE IF r.results # {} THEN "commit" ELSE "walk"]

\* What reading f yields: no result when the stamp is the cached one or the file is gone.
ReadResult(r, f) ==
  LET cold == CachedFiles(r) = {} /\ OpenFiles(r) = {}
      now == IF r.open[f] # NoDoc THEN InDoc(r.open[f]) ELSE OnDisk(disk[f]) IN
  IF r.open[f] = NoDoc /\ (disk[f] = 0 \/ (~cold /\ r.cached[f] = now)) THEN {}
  ELSE IF ~cold /\ r.cached[f] = now THEN {RefreshStamp(f, now)}
  ELSE {Analyzed(f, now)}

\* The files of a chunk are read in parallel, so in any order.
ReadFile(s, f) ==
  /\ scan[s].pc = "read" /\ f \in scan[s].chunk
  /\ Locally(s, Settle([scan[s] EXCEPT !.chunk = @ \ {f},
                                       !.results = @ \union ReadResult(scan[s], f)]))

\* Mutant: only the walk looks at the generation, the callback does not.
CommitAnyResult(s, r) ==
  /\ scan[s].pc = "commit" /\ r \in scan[s].results
  /\ scan' = [scan EXCEPT ![s] = Settle([scan[s] EXCEPT !.results = scan[s].results \ {r}])]
  /\ pending' = pending \ {r.file}
  /\ IF r.kind = "analyzed"
     THEN /\ entries' = [entries EXCEPT ![r.file] = r.snapshot]
          /\ env_of' = [env_of EXCEPT ![r.file] = scan[s].env]
          /\ graph' = graph \union {r.file}
     ELSE UNCHANGED <<entries, env_of, graph>>
  /\ UNCHANGED <<world, docs, updates, flags, types, server, panics>>

\* The callback, once per result under the lock; a superseded scan drops its results.
CommitResult(s, r) ==
  /\ scan[s].pc = "commit" /\ r \in scan[s].results
  /\ scan' = [scan EXCEPT ![s] = Settle([scan[s] EXCEPT !.results = scan[s].results \ {r}])]
  /\ IF ShouldCommit(s)
     THEN /\ pending' = pending \ {r.file}
          /\ IF r.kind = "analyzed"
             THEN /\ entries' = [entries EXCEPT ![r.file] = r.snapshot]
                  /\ env_of' = [env_of EXCEPT ![r.file] = scan[s].env]
                  /\ graph' = graph \union {r.file}
             ELSE UNCHANGED <<entries, env_of, graph>>
     ELSE UNCHANGED workspace
  /\ UNCHANGED <<world, docs, updates, flags, types, server, panics>>

\* Mutant: an aborted walk is finished like a complete one.
FinishAborted(s) ==
  /\ scan[s].pc = "walk" /\ scan[s].work = {}
  /\ scan' = [scan EXCEPT ![s] = Returned(@)]
  /\ pending' = {}
  /\ discovered' = (discovered \/ scan[s].force_full)
  /\ UNCHANGED <<world, docs, updates, entries, env_of, graph, scanned, in_progress,
                 generation, types, server, panics>>

\* The last lock region of the scan.
Finish(s) ==
  /\ scan[s].pc = "walk" /\ scan[s].work = {}
  /\ scan' = [scan EXCEPT ![s] = Returned(@)]
  /\ IF ShouldCommit(s)
     THEN /\ pending' = {}
          /\ discovered' = (discovered \/ scan[s].force_full)
     ELSE UNCHANGED <<pending, discovered>>
  /\ UNCHANGED <<world, docs, updates, entries, env_of, graph, scanned, in_progress,
                 generation, types, server, panics>>

\* Mutant: the caller accepts whatever scan has returned.
AcceptSuperseded(s) ==
  /\ scan[s].pc = "return"
  /\ scan' = [scan EXCEPT ![s] = NoScan]
  /\ scanned' = TRUE /\ in_progress' = FALSE
  /\ server' = IF s = Srv THEN Idle ELSE server
  /\ UNCHANGED <<world, docs, updates, workspace, generation, discovered, types, panics>>

\* The caller accepts the scan, in yet another lock region, unless it was superseded.  The
\* thread ends; the server task returns to its request, or loops if it was superseded.
Accept(s) ==
  /\ scan[s].pc = "return"
  /\ scan' = [scan EXCEPT ![s] = NoScan]
  /\ IF ShouldCommit(s)
     THEN scanned' = TRUE /\ in_progress' = FALSE
     ELSE UNCHANGED <<scanned, in_progress>>
  /\ server' = IF s # Srv THEN server
               ELSE IF ShouldCommit(s) THEN Idle ELSE [Idle EXCEPT !.pc = "ensure"]
  /\ UNCHANGED <<world, docs, updates, workspace, generation, discovered, types, panics>>

\* Mutant: the guard catches the panic and forgets the flag.
PanicKeepsFlag(s) ==
  /\ scan[s].pc = "read"
  /\ panics < MaxPanics
  /\ panics' = panics + 1
  /\ scan' = [scan EXCEPT ![s] = NoScan]
  /\ server' = IF s = Srv THEN Idle ELSE server
  /\ UNCHANGED <<world, docs, updates, workspace, flags, types>>

\* The analysis of a file panics; the guard clears the flag if it is still this scan's own.
Panic(s) ==
  /\ scan[s].pc = "read"
  /\ panics < MaxPanics
  /\ panics' = panics + 1
  /\ scan' = [scan EXCEPT ![s] = NoScan]
  /\ in_progress' = IF ShouldCommit(s) THEN FALSE ELSE in_progress
  /\ server' = IF s = Srv THEN Idle ELSE server
  /\ UNCHANGED <<world, docs, updates, workspace, scanned, generation, discovered, types>>

-----------------------------------------------------------------------------
Environment ==
  \/ \E f \in Files : WriteFile(f) \/ DeleteFile(f)
  \/ WriteTypes

Editor ==
  \/ \E f \in Files, x \in Texts : DidOpen(f, x) \/ DidChange(f, x)
  \/ \E f \in Files : DidClose(f)
  \/ StartScan
  \/ Request
  \/ \E batch \in SUBSET notices : WatchBegin(batch)

\* What the server task does on its own once a handler has begun.
Handler ==
  \/ Initialize
  \/ EnsureScanned
  \/ \E c \in server.todo : ReloadTypeFile(c) \/ SkipOpen(c) \/ Deleted(c) \/ Changed(c)
  \/ MarkPending
  \/ ResetScan
  \/ InvalidateDependents
  \/ RestartScan

Scan(s) ==
  \/ Capture(s)
  \/ Collect(s)
  \/ NextChunk(s)
  \/ \E f \in scan[s].chunk : ReadFile(s, f)
  \/ \E r \in scan[s].results : CommitResult(s, r)
  \/ Finish(s)
  \/ Accept(s)

Next ==
  \/ Environment
  \/ Editor
  \/ Handler
  \/ \E u \in updates : LandUpdate(u[1], u[2], u[3])
  \/ \E s \in Scanners : Scan(s) \/ Panic(s)

Spec == Init /\ [][Next]_vars

\* The server task and the scan threads run on an executor and on operating-system
\* threads, so each of them goes on when it can.  Nothing is assumed of the editor, the
\* watcher, the disk or the pool.
Fairness == WF_vars(Handler) /\ \A s \in Scanners : WF_vars(Scan(s))

FairSpec == Spec /\ Fairness

-----------------------------------------------------------------------------
(* Properties. *)

ScanStates == {"none", "capture", "collect", "walk", "read", "commit", "return"}
ServerStates ==
  {"boot", "idle", "ensure", "scanning", "watch", "mark", "invalidate", "restart"}

ServerRecords ==
  [pc : ServerStates, todo : SUBSET Notices, at : Files \union {TypeFile},
   affected : SUBSET (Files \union {TypeFile}), rb_change : BOOLEAN]

ScanRecords ==
  [pc : ScanStates, generation : Nat, env : Nat, since : Nat, force_full : BOOLEAN,
   cached : [Files -> Snapshots \union {NoEntry}], open : [Files -> Texts \union {NoDoc}],
   pend : SUBSET Files, work : SUBSET Files, chunk : SUBSET Files, results : SUBSET Results]

\* Every variable of LspState and every local of the threads stays in its range.
TypeOK ==
  /\ disk \in [Files -> Nat]
  /\ clock \in Nat
  /\ notices \in SUBSET Notices
  /\ docs \in [Files -> Texts \union {NoDoc}]
  /\ updates \in SUBSET (Files \X Texts \X Nat)
  /\ entries \in [Files -> Snapshots \union {NoEntry}]
  /\ graph \in SUBSET Files
  /\ pending \in SUBSET Files
  /\ scanned \in BOOLEAN /\ in_progress \in BOOLEAN /\ discovered \in BOOLEAN
  /\ env_of \in [Files -> Nat]
  /\ generation \in Nat /\ env \in Nat /\ named_env \in Nat /\ panics \in Nat
  /\ server \in ServerRecords
  /\ server.pc = "mark" => server.at \in Files
  /\ scan \in [Scanners -> ScanRecords]

Live(s) == scan[s].pc # "none" /\ ShouldCommit(s)

\* workspace_scan_in_progress is TRUE exactly while one scan of the current generation
\* runs: there are never two that may commit, a finished, panicked or superseded scan never
\* leaves the flag set (every request would spin on it), and none runs unannounced.
OneLiveScan ==
  /\ in_progress <=> \E s \in Scanners : Live(s)
  /\ \A s, u \in Scanners : Live(s) /\ Live(u) => s = u
  /\ ~(scanned /\ in_progress)

\* When the workspace counts as scanned it has been discovered, and when it has been
\* discovered every file that was there from the start has been analysed, however many
\* resets, panics and aborted walks came before.
DiscoveryComplete ==
  /\ scanned => discovered
  /\ discovered => \A f \in Files : disk[f] = 1 => f \in graph

\* The workspace never goes back from one content of a closed file to an older one, though
\* superseded threads hold results they read long ago.
NoRegress ==
  [][\A f \in Files :
       /\ entries[f] # NoEntry /\ entries'[f] # NoEntry
       /\ entries[f].from = "disk" /\ entries'[f].from = "disk"
       => entries'[f].what >= entries[f].what]_vars

Owed(f) == \E c \in notices \union server.todo : c.file = f

\* A scan that ends undisturbed has served every mark it started with: a file that was
\* pending when it began, was not written since, and has no event on its way, has the
\* content of the disk in the workspace (or the text of its open document).
PendingServed ==
  [][\A s \in Scanners :
       scan[s].pc = "walk" /\ scan'[s].pc = "return" /\ ShouldCommit(s)
       => \A f \in scan[s].pend :
            \/ disk[f] = 0 \/ disk[f] > scan[s].since + 1 \/ Owed(f)
            \/ /\ entries[f] # NoEntry
               /\ entries[f].from = "text" \/ entries[f] = OnDisk(disk[f])]_vars

\* The flags and the generation behave as ScanLifecycle says: no superseded scan is accepted.
Lifecycle == INSTANCE ScanLifecycle WITH
  status <- IF scanned THEN "known" ELSE IF in_progress THEN "scanning" ELSE "stale"
LifecycleSpec == Lifecycle!Spec

\* Hover, definition and completion requests come back: the loop that waits for the scan
\* ends, whether another thread runs the scan, is superseded, or panics.
RequestReturns == server.pc \in {"ensure", "scanning"} ~> server.pc = "idle"

\* A pending mark does not stay: some scan takes it, unless a panic ended that scan.
MarksDrain == \A f \in Files : f \in pending ~> f \notin pending \/ panics > 0

\* Once the server rests on a finished scan, no snapshot it read from disk still rests on
\* the type definitions of before a reload that affects it, though the reload, the reset of
\* the scan and the invalidation are three lock regions between which results land.
TypesReach ==
  scanned /\ server.pc = "idle" =>
    \A f \in Files :
      entries[f] # NoEntry /\ entries[f].from = "disk" /\ TypeFile \in DependsOn[f]
      => env_of[f] >= named_env

\* "Watched file updates are accepted" (docs/architecture.md), and the scan leaves marked
\* what it never processed: once every event is handled and the scan done, a closed file
\* that exists is in the workspace as it is on disk.
WatchedChangesLand ==
  scanned /\ server.pc = "idle" =>
    \A f \in Files : docs[f] = NoDoc /\ disk[f] # 0 /\ ~Owed(f) => entries[f] = OnDisk(disk[f])

\* The comment on collect_workspace_scan_files: a rescan covers the dirty files.  So when
\* the workspace counts as scanned, no file it has edges of, and that exists, is missing.
DirtyRescanned ==
  scanned => \A f \in graph : disk[f] # 0 => entries[f] # NoEntry
=============================================================================
