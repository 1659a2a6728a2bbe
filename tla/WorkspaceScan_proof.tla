------------------------- MODULE WorkspaceScan_proof -------------------------
(***************************************************************************)
(* Theorems about WorkspaceScan, for every set of files and threads, every *)
(* chunk size, dependency relation and bound.                              *)
(***************************************************************************)
EXTENDS WorkspaceScan, TLAPS

\* Every field of a scan record may be read off, and a change of one keeps the others.
LEMMA NoScanType == NoScan \in ScanRecords
  BY DEF NoScan, ScanRecords, ScanStates

LEMMA IdleType == Idle \in ServerRecords /\ Idle.pc = "idle"
  BY DEF Idle, ServerRecords, ServerStates

LEMMA ServerMoves ==
  ASSUME NEW r \in ServerRecords, NEW pc \in ServerStates
  PROVE  [r EXCEPT !.pc = pc] \in ServerRecords /\ [r EXCEPT !.pc = pc].pc = pc
  BY DEF ServerRecords

LEMMA ReadResultType ==
  ASSUME TypeOK, NEW s \in Scanners, NEW f \in Files
  PROVE  ReadResult(scan[s], f) \in SUBSET Results
<1> DEFINE r == scan[s]
<1>1. r \in ScanRecords
  BY DEF TypeOK
<1>2. r.open[f] \in Texts \union {NoDoc} /\ disk[f] \in Nat
  BY <1>1 DEF TypeOK, ScanRecords
<1>3. r.open[f] # NoDoc => InDoc(r.open[f]) \in Snapshots
  BY <1>2 DEF InDoc, Snapshots
<1>4. OnDisk(disk[f]) \in Snapshots
  BY <1>2 DEF OnDisk, Snapshots
<1>5. \A x \in Snapshots : Analyzed(f, x) \in Results /\ RefreshStamp(f, x) \in Results
  BY DEF Analyzed, RefreshStamp, Results
<1> QED
  BY <1>3, <1>4, <1>5 DEF ReadResult

LEMMA LocallyType ==
  ASSUME TypeOK, NEW s \in Scanners, NEW r \in ScanRecords, Locally(s, r)
  PROVE  TypeOK'
  BY DEF TypeOK, Locally, world, workspace, flags, types

LEMMA ClaimType ==
  ASSUME TypeOK, NEW s \in Scanners, Claim(s)
  PROVE  /\ in_progress' = TRUE
         /\ scan' \in [Scanners -> ScanRecords]
         /\ UNCHANGED <<scanned, generation, discovered>>
<1>1. [NoScan EXCEPT !.pc = "capture", !.generation = generation] \in ScanRecords
  BY DEF NoScan, ScanRecords, ScanStates, TypeOK
<1> QED
  BY <1>1 DEF Claim, TypeOK

LEMMA StartType ==
  ASSUME TypeOK, StartScanIfNeeded
  PROVE  /\ scanned' \in BOOLEAN /\ in_progress' \in BOOLEAN /\ discovered' \in BOOLEAN
         /\ generation' \in Nat /\ scan' \in [Scanners -> ScanRecords]
<1>1. CASE scanned \/ in_progress
  BY <1>1 DEF StartScanIfNeeded, TypeOK, flags
<1>2. ASSUME NEW t \in Threads, Claim(t)
      PROVE  /\ scanned' \in BOOLEAN /\ in_progress' \in BOOLEAN /\ discovered' \in BOOLEAN
             /\ generation' \in Nat /\ scan' \in [Scanners -> ScanRecords]
  BY <1>2, ClaimType DEF TypeOK, Scanners
<1> QED
  BY <1>1, <1>2 DEF StartScanIfNeeded

\* The steps of the environment, the editor and the updates of documents.
LEMMA OutsideType ==
  ASSUME ScanConstants, TypeOK,
         \/ Environment
         \/ Editor
         \/ \E u \in updates : LandUpdate(u[1], u[2], u[3])
  PROVE  TypeOK'
<1> USE DEF world, workspace, flags, types
<1>1. ASSUME NEW f \in Files, WriteFile(f) \/ DeleteFile(f)
      PROVE  TypeOK'
  BY <1>1 DEF WriteFile, DeleteFile, Tick, Notify, TypeOK, Notices, Kinds
<1>2. CASE WriteTypes
  BY <1>2 DEF WriteTypes, Tick, Notify, TypeOK, Notices, Kinds
<1>3. ASSUME NEW f \in Files, NEW x \in Texts, DidOpen(f, x)
      PROVE  TypeOK'
  <2>1. updates' \in SUBSET (Files \X Texts \X Nat) /\ docs' \in [Files -> Texts \union {NoDoc}]
    BY <1>3 DEF DidOpen, TypeOK
  <2> QED
    BY <1>3, <2>1, StartType DEF DidOpen, Tick, TypeOK
<1>4. ASSUME NEW f \in Files, NEW x \in Texts, DidChange(f, x)
      PROVE  TypeOK'
  BY <1>4 DEF DidChange, Tick, TypeOK
<1>5. ASSUME NEW f \in Files, DidClose(f)
      PROVE  TypeOK'
  BY <1>5 DEF DidClose, Tick, TypeOK
<1>6. CASE StartScan
  BY <1>6, StartType DEF StartScan, TypeOK
<1>7. CASE Request
  BY <1>7, IdleType, ServerMoves DEF Request, ServerStates, TypeOK
<1>8. ASSUME NEW batch \in SUBSET notices, WatchBegin(batch)
      PROVE  TypeOK'
  BY <1>8, IdleType DEF WatchBegin, ServerRecords, ServerStates, TypeOK
<1>9. ASSUME NEW u \in updates, LandUpdate(u[1], u[2], u[3])
      PROVE  TypeOK'
  <2>1. u[1] \in Files /\ u[2] \in Texts /\ u[3] \in Nat
    BY DEF TypeOK
  <2>2. InDoc(u[2]) \in Snapshots
    BY <2>1 DEF InDoc, Snapshots
  <2>3. entries' \in [Files -> Snapshots \union {NoEntry}] /\ env_of' \in [Files -> Nat]
    BY <1>9, <2>1, <2>2 DEF LandUpdate, TypeOK
  <2> QED
    BY <1>9, <2>1, <2>3 DEF LandUpdate, TypeOK
<1> QED
  BY <1>1, <1>2, <1>3, <1>4, <1>5, <1>6, <1>7, <1>8, <1>9 DEF Environment, Editor

\* The steps of the server task once a handler has begun.
LEMMA HandlerType ==
  ASSUME ScanConstants, TypeOK, Handler
  PROVE  TypeOK'
<1> USE DEF world, workspace, flags, types
<1>1. CASE Initialize
  <2>1. scanned' \in BOOLEAN /\ in_progress' \in BOOLEAN /\ discovered' \in BOOLEAN
    BY <1>1 DEF Initialize
  <2>2. entries' \in [Files -> Snapshots \union {NoEntry}] /\ env_of' \in [Files -> Nat]
    BY <1>1 DEF Initialize
  <2>3. server' \in ServerRecords /\ server'.pc # "mark"
    BY <1>1, IdleType DEF Initialize
  <2> QED
    BY <1>1, <2>1, <2>2, <2>3 DEF Initialize, TypeOK
<1>2. CASE EnsureScanned
  <2>1. CASE scanned /\ server' = Idle /\ UNCHANGED <<flags, scan>>
    BY <1>2, <2>1, IdleType DEF EnsureScanned, TypeOK
  <2>2. CASE server' = [Idle EXCEPT !.pc = "scanning"] /\ Claim(Srv)
    BY <1>2, <2>2, ClaimType, IdleType, ServerMoves
    DEF EnsureScanned, ServerStates, TypeOK, Scanners
  <2> QED
    BY <1>2, <2>1, <2>2 DEF EnsureScanned
<1>3. ASSUME NEW c \in server.todo,
             ReloadTypeFile(c) \/ SkipOpen(c) \/ Deleted(c) \/ Changed(c)
      PROVE  TypeOK'
  <2>1. CASE ReloadTypeFile(c)
    <3>1. PICK named \in SUBSET {TypeFile} :
            server' = [server EXCEPT !.todo = @ \ {c}, !.affected = @ \union named]
      BY <2>1 DEF ReloadTypeFile
    <3>2. env' \in Nat /\ named_env' \in Nat
      BY <2>1 DEF ReloadTypeFile, TypeOK
    <3> QED
      BY <2>1, <3>1, <3>2 DEF ReloadTypeFile, ServerRecords, TypeOK
  <2>2. CASE SkipOpen(c)
    BY <2>2 DEF SkipOpen, ServerRecords, TypeOK
  <2>3. CASE Deleted(c)
    BY <2>3 DEF Deleted, ServerRecords, TypeOK
  <2>4. CASE Changed(c)
    BY <2>4 DEF Changed, ServerRecords, ServerStates, TypeOK
  <2> QED
    BY <1>3, <2>1, <2>2, <2>3, <2>4
<1>4. CASE MarkPending
  BY <1>4 DEF MarkPending, ServerRecords, ServerStates, TypeOK
<1>5. CASE ResetScan
  <2>1. CASE server.rb_change \/ server.affected # {}
    <3>1. scanned' \in BOOLEAN /\ in_progress' \in BOOLEAN
      BY <1>5, <2>1 DEF ResetScan
    <3>2. server' = [server EXCEPT !.pc = "invalidate"] /\ generation' = generation + 1
      BY <1>5, <2>1 DEF ResetScan
    <3>3. server' \in ServerRecords /\ server'.pc # "mark"
      BY <3>2, ServerMoves DEF ServerStates, TypeOK
    <3> QED
      BY <1>5, <3>1, <3>2, <3>3 DEF ResetScan, TypeOK
  <2>2. CASE ~(server.rb_change \/ server.affected # {})
    BY <1>5, <2>2, IdleType DEF ResetScan, TypeOK
  <2> QED
    BY <2>1, <2>2
<1>6. CASE InvalidateDependents
  BY <1>6, ServerMoves DEF InvalidateDependents, ServerStates, TypeOK
<1>7. CASE RestartScan
  BY <1>7, StartType, IdleType DEF RestartScan, TypeOK
<1> QED
  BY <1>1, <1>2, <1>3, <1>4, <1>5, <1>6, <1>7 DEF Handler
LEMMA SettleType ==
  ASSUME NEW r \in ScanRecords
  PROVE  Settle(r) \in ScanRecords
  BY DEF Settle, ScanRecords, ScanStates

\* The steps of a scan.
LEMMA ScanType ==
  ASSUME ScanConstants, TypeOK, NEW s \in Scanners, Scan(s) \/ Panic(s)
  PROVE  TypeOK'
<1> USE DEF world, workspace, flags, types
<1> DEFINE r == scan[s]
<1>0. r \in ScanRecords
  BY DEF TypeOK
<1>1. CASE Capture(s)
  <2>1. [r EXCEPT !.pc = "collect", !.env = env, !.force_full = ~discovered, !.cached = entries,
                  !.open = docs, !.pend = pending, !.since = clock] \in ScanRecords
    BY <1>0 DEF TypeOK, ScanRecords, ScanStates
  <2> QED
    BY <1>1, <2>1, LocallyType DEF Capture
<1>2. CASE Collect(s)
  <2>1. ScanFiles(r) \in SUBSET Files
    BY <1>0 DEF ScanFiles, CachedFiles, OpenFiles, ScanRecords
  <2>2. [r EXCEPT !.pc = "walk", !.work = ScanFiles(r)] \in ScanRecords
    BY <1>0, <2>1 DEF ScanRecords, ScanStates
  <2>3. Returned(r) \in ScanRecords
    BY <1>0, NoScanType DEF Returned, ScanRecords, ScanStates
  <2> QED
    BY <1>2, <2>2, <2>3, LocallyType DEF Collect
<1>3. CASE NextChunk(s)
  <2>1. PICK chunk \in SUBSET r.work :
          Locally(s, IF ShouldCommit(s)
                     THEN [r EXCEPT !.pc = "read", !.work = @ \ chunk, !.chunk = chunk]
                     ELSE [r EXCEPT !.work = {}])
    BY <1>3 DEF NextChunk
  <2>2. [r EXCEPT !.pc = "read", !.work = @ \ chunk, !.chunk = chunk] \in ScanRecords
    BY <1>0 DEF ScanRecords, ScanStates
  <2>3. [r EXCEPT !.work = {}] \in ScanRecords
    BY <1>0 DEF ScanRecords
  <2> QED
    BY <2>1, <2>2, <2>3, LocallyType
<1>4. ASSUME NEW f \in r.chunk, ReadFile(s, f)
      PROVE  TypeOK'
  <2>1. f \in Files /\ ReadResult(r, f) \in SUBSET Results
    BY <1>0, ReadResultType DEF ScanRecords
  <2>2. [r EXCEPT !.chunk = @ \ {f}, !.results = @ \union ReadResult(r, f)] \in ScanRecords
    BY <1>0, <2>1 DEF ScanRecords
  <2> QED
    BY <1>4, <2>2, SettleType, LocallyType DEF ReadFile
<1>5. ASSUME NEW q \in r.results, CommitResult(s, q)
      PROVE  TypeOK'
  <2>1. q.file \in Files /\ q.snapshot \in Snapshots /\ r.env \in Nat
    BY <1>0 DEF ScanRecords, Results
  <2>2. [r EXCEPT !.results = @ \ {q}] \in ScanRecords
    BY <1>0 DEF ScanRecords
  <2>3. scan' \in [Scanners -> ScanRecords]
    BY <1>5, <2>2, SettleType DEF CommitResult, TypeOK
  <2>4. /\ entries' \in [Files -> Snapshots \union {NoEntry}] /\ env_of' \in [Files -> Nat]
        /\ graph' \in SUBSET Files /\ pending' \in SUBSET Files
    BY <1>5, <2>1 DEF CommitResult, TypeOK
  <2> QED
    BY <1>5, <2>3, <2>4 DEF CommitResult, TypeOK
<1>6. CASE Finish(s)
  <2>1. Returned(r) \in ScanRecords
    BY <1>0, NoScanType DEF Returned, ScanRecords, ScanStates
  <2>2. scan' \in [Scanners -> ScanRecords] /\ pending' \in SUBSET Files
    BY <1>6, <2>1 DEF Finish, TypeOK
  <2>3. discovered' \in BOOLEAN
    BY <1>0, <1>6 DEF Finish, TypeOK, ScanRecords
  <2> QED
    BY <1>6, <2>2, <2>3 DEF Finish, TypeOK
<1>7. CASE Accept(s)
  <2>1. scan' \in [Scanners -> ScanRecords]
    BY <1>7, NoScanType DEF Accept, TypeOK
  <2>2. scanned' \in BOOLEAN /\ in_progress' \in BOOLEAN
    BY <1>7 DEF Accept, TypeOK
  <2>3. server' \in {server, Idle, [Idle EXCEPT !.pc = "ensure"]}
    BY <1>7 DEF Accept
  <2>4. [Idle EXCEPT !.pc = "ensure"] \in ServerRecords /\ [Idle EXCEPT !.pc = "ensure"].pc # "mark"
    BY IdleType, ServerMoves DEF ServerStates
  <2>5. server' \in ServerRecords /\ (server'.pc = "mark" => server'.at \in Files)
    BY <2>3, <2>4, IdleType DEF TypeOK
  <2> QED
    BY <1>7, <2>1, <2>2, <2>5 DEF Accept, TypeOK
<1>8. CASE Panic(s)
  <2>1. scan' \in [Scanners -> ScanRecords] /\ panics' \in Nat
    BY <1>8, NoScanType DEF Panic, TypeOK
  <2>2. in_progress' \in BOOLEAN
    BY <1>8 DEF Panic, TypeOK
  <2>3. server' \in {server, Idle}
    BY <1>8 DEF Panic
  <2>4. server' \in ServerRecords /\ (server'.pc = "mark" => server'.at \in Files)
    BY <2>3, IdleType DEF TypeOK
  <2> QED
    BY <1>8, <2>1, <2>2, <2>4 DEF Panic, TypeOK
<1> QED
  BY <1>1, <1>2, <1>3, <1>4, <1>5, <1>6, <1>7, <1>8 DEF Scan

\* Every variable of the server and every local of its threads stays in its range.
THEOREM TypeCorrect == Spec => []TypeOK
<1>1. Init => TypeOK
  <2>1. [Idle EXCEPT !.pc = "boot"] \in ServerRecords /\ [Idle EXCEPT !.pc = "boot"].pc = "boot"
    BY IdleType, ServerMoves DEF ServerStates
  <2> SUFFICES ASSUME Init
               PROVE  TypeOK
    OBVIOUS
  <2>2. /\ disk \in [Files -> Nat] /\ docs \in [Files -> Texts \union {NoDoc}]
        /\ entries \in [Files -> Snapshots \union {NoEntry}] /\ env_of \in [Files -> Nat]
    BY DEF Init
  <2>3. server \in ServerRecords /\ server.pc # "mark" /\ scan \in [Scanners -> ScanRecords]
    BY <2>1, NoScanType DEF Init
  <2> QED
    BY <2>2, <2>3 DEF Init, TypeOK
<1>2. TypeOK /\ [Next]_vars => TypeOK'
  <2> SUFFICES ASSUME TypeOK, [Next]_vars
               PROVE  TypeOK'
    OBVIOUS
  <2>1. CASE Next
    BY <2>1, ScanConstants, OutsideType, HandlerType, ScanType DEF Next
  <2>2. CASE UNCHANGED vars
    BY <2>2 DEF TypeOK, vars
  <2> QED
    BY <2>1, <2>2
<1> QED
  BY <1>1, <1>2, PTL DEF Spec
-----------------------------------------------------------------------------
(* One live scan. *)

\* OneLiveScan is kept by a reset only because the new generation is above those of all scans.
LiveInv == OneLiveScan /\ \A s \in Scanners : scan[s].generation <= generation

LEMMA SameLife ==
  ASSUME LiveInv, UNCHANGED <<scanned, in_progress, generation, scan>>
  PROVE  LiveInv'
  BY DEF LiveInv, OneLiveScan, Live, ShouldCommit

\* A scan goes from one of its steps to the next.
LEMMA LocalLife ==
  ASSUME TypeOK, LiveInv, NEW s \in Scanners, NEW r,
         scan[s].pc # "none", r.pc # "none", r.generation = scan[s].generation,
         scan' = [scan EXCEPT ![s] = r], UNCHANGED <<scanned, in_progress, generation>>
  PROVE  LiveInv'
<1>1. \A u \in Scanners : scan'[u] = IF u = s THEN r ELSE scan[u]
  BY DEF TypeOK
<1>2. \A u \in Scanners : (Live(u))' <=> Live(u)
  BY <1>1 DEF Live, ShouldCommit
<1> QED
  BY <1>1, <1>2 DEF LiveInv, OneLiveScan

LEMMA ClaimLife ==
  ASSUME TypeOK, LiveInv, NEW s \in Scanners, ~scanned, ~in_progress, Claim(s)
  PROVE  LiveInv'
<1> DEFINE r == [NoScan EXCEPT !.pc = "capture", !.generation = generation]
<1>1. r.pc = "capture" /\ r.generation = generation
  BY DEF NoScan
<1>2. \A u \in Scanners : scan'[u] = IF u = s THEN r ELSE scan[u]
  BY DEF Claim, TypeOK
<1>3. in_progress' = TRUE /\ scanned' = scanned /\ generation' = generation
  BY DEF Claim
<1>4. \A u \in Scanners : ~Live(u)
  BY DEF LiveInv, OneLiveScan
<1>5. \A u \in Scanners : (Live(u))' <=> u = s
  BY <1>1, <1>2, <1>3, <1>4 DEF Live, ShouldCommit
<1>6. \A u \in Scanners : scan'[u].generation <= generation'
  <2> HIDE DEF r
  <2>1. generation <= generation
    BY DEF TypeOK
  <2> QED
    BY <1>1, <1>2, <1>3, <2>1 DEF LiveInv
<1> QED
  BY <1>3, <1>5, <1>6 DEF LiveInv, OneLiveScan

LEMMA StartLife ==
  ASSUME TypeOK, LiveInv, StartScanIfNeeded
  PROVE  LiveInv'
<1>1. CASE scanned \/ in_progress
  BY <1>1, SameLife DEF StartScanIfNeeded, flags
<1>2. CASE ~(scanned \/ in_progress)
  BY <1>2, ClaimLife DEF StartScanIfNeeded, Scanners
<1> QED
  BY <1>1, <1>2

\* A scan ends, and takes the flag with it if it was the live one.
LEMMA EndLife ==
  ASSUME TypeOK, LiveInv, NEW s \in Scanners, scan[s].pc # "none",
         scan' = [scan EXCEPT ![s] = NoScan], generation' = generation,
         IF ShouldCommit(s) THEN in_progress' = FALSE
                            ELSE UNCHANGED <<scanned, in_progress>>
  PROVE  LiveInv'
<1>1. \A u \in Scanners : scan'[u] = IF u = s THEN NoScan ELSE scan[u]
  BY DEF TypeOK
<1>2. NoScan.pc = "none" /\ NoScan.generation = 0
  BY DEF NoScan
<1>3. \A u \in Scanners : (Live(u))' <=> Live(u) /\ u # s
  BY <1>1, <1>2 DEF Live, ShouldCommit
<1>4. \A u \in Scanners : scan'[u].generation <= generation'
  BY <1>1, <1>2 DEF LiveInv, TypeOK
<1>5. CASE ShouldCommit(s)
  <2>1. Live(s) /\ in_progress' = FALSE
    BY <1>5 DEF Live
  <2>2. \A u \in Scanners : ~(Live(u))'
    BY <1>3, <2>1 DEF LiveInv, OneLiveScan
  <2> QED
    BY <1>4, <2>1, <2>2 DEF LiveInv, OneLiveScan
<1>6. CASE ~ShouldCommit(s)
  <2>1. \A u \in Scanners : (Live(u))' <=> Live(u)
    BY <1>3, <1>6 DEF Live
  <2> QED
    BY <1>4, <1>6, <2>1 DEF LiveInv, OneLiveScan
<1> QED
  BY <1>5, <1>6

LEMMA ResetLife ==
  ASSUME TypeOK, LiveInv, scanned' = FALSE, in_progress' = FALSE,
         generation' = generation + 1, scan' = scan
  PROVE  LiveInv'
<1>1. \A s \in Scanners : scan'[s].generation < generation'
  BY DEF LiveInv, TypeOK, ScanRecords
<1>2. \A s \in Scanners : scan'[s].generation # generation' /\ scan'[s].generation <= generation'
  BY <1>1 DEF TypeOK, ScanRecords
<1>3. \A s \in Scanners : ~(Live(s))'
  BY <1>2 DEF Live, ShouldCommit
<1> QED
  BY <1>2, <1>3 DEF LiveInv, OneLiveScan

LEMMA LiveStep ==
  ASSUME TypeOK, LiveInv, [Next]_vars
  PROVE  LiveInv'
<1> USE DEF workspace, flags, types
<1>1. ASSUME \/ Environment \/ \E u \in updates : LandUpdate(u[1], u[2], u[3])
      PROVE  LiveInv'
  BY <1>1, SameLife DEF Environment, WriteFile, DeleteFile, WriteTypes, LandUpdate
<1>2. CASE Editor
  <2>1. ASSUME NEW f \in Files, NEW x \in Texts, DidOpen(f, x)
        PROVE  LiveInv'
    BY <2>1, StartLife DEF DidOpen
  <2>2. ASSUME NEW f \in Files, NEW x \in Texts, DidChange(f, x)
        PROVE  LiveInv'
    BY <2>2, SameLife DEF DidChange
  <2>3. ASSUME NEW f \in Files, DidClose(f)
        PROVE  LiveInv'
    BY <2>3, SameLife DEF DidClose
  <2>4. CASE StartScan
    BY <2>4, StartLife DEF StartScan
  <2>5. CASE Request
    BY <2>5, SameLife DEF Request
  <2>6. ASSUME NEW batch \in SUBSET notices, WatchBegin(batch)
        PROVE  LiveInv'
    BY <2>6, SameLife DEF WatchBegin
  <2> QED
    BY <1>2, <2>1, <2>2, <2>3, <2>4, <2>5, <2>6 DEF Editor
<1>3. CASE Handler
  <2>1. CASE Initialize
    BY <2>1, ResetLife DEF Initialize
  <2>2. CASE EnsureScanned
    BY <2>2, SameLife, ClaimLife DEF EnsureScanned, Scanners
  <2>3. ASSUME NEW c \in server.todo,
               ReloadTypeFile(c) \/ SkipOpen(c) \/ Deleted(c) \/ Changed(c)
        PROVE  LiveInv'
    BY <2>3, SameLife DEF ReloadTypeFile, SkipOpen, Deleted, Changed
  <2>4. CASE MarkPending \/ InvalidateDependents
    BY <2>4, SameLife DEF MarkPending, InvalidateDependents
  <2>5. CASE ResetScan
    BY <2>5, ResetLife, SameLife DEF ResetScan
  <2>6. CASE RestartScan
    BY <2>6, StartLife DEF RestartScan
  <2> QED
    BY <1>3, <2>1, <2>2, <2>3, <2>4, <2>5, <2>6 DEF Handler
<1>4. ASSUME NEW s \in Scanners, Scan(s) \/ Panic(s)
      PROVE  LiveInv'
  <2> DEFINE r == scan[s]
  <2>0. r \in ScanRecords
    BY DEF TypeOK
  <2>1. ASSUME NEW q \in ScanRecords
        PROVE  /\ (Settle(q)).pc # "none" /\ (Settle(q)).generation = q.generation
               /\ (Returned(q)).pc # "none" /\ (Returned(q)).generation = q.generation
    BY DEF Settle, Returned, NoScan, ScanRecords
  <2>2. CASE Capture(s)
    BY <2>0, <2>2, LocalLife DEF Capture, Locally, ScanRecords
  <2>3. CASE Collect(s)
    BY <2>0, <2>1, <2>3, LocalLife DEF Collect, Locally, ScanRecords
  <2>4. CASE NextChunk(s)
    BY <2>0, <2>4, LocalLife DEF NextChunk, Locally, ScanRecords
  <2>5. ASSUME NEW f \in r.chunk, ReadFile(s, f)
        PROVE  LiveInv'
    <3> DEFINE q == [r EXCEPT !.chunk = @ \ {f}, !.results = @ \union ReadResult(r, f)]
    <3>1. q \in ScanRecords /\ q.generation = r.generation
      BY <2>0, ReadResultType DEF ScanRecords
    <3> QED
      BY <2>1, <2>5, <3>1, LocalLife DEF ReadFile, Locally
  <2>6. ASSUME NEW w \in r.results, CommitResult(s, w)
        PROVE  LiveInv'
    <3> DEFINE q == [r EXCEPT !.results = @ \ {w}]
    <3>1. q \in ScanRecords /\ q.generation = r.generation
      BY <2>0 DEF ScanRecords
    <3> QED
      BY <2>1, <2>6, <3>1, LocalLife DEF CommitResult
  <2>7. CASE Finish(s)
    BY <2>0, <2>1, <2>7, LocalLife DEF Finish
  <2>8. CASE Accept(s)
    BY <2>8, EndLife DEF Accept
  <2>9. CASE Panic(s)
    BY <2>9, EndLife DEF Panic
  <2> QED
    BY <1>4, <2>2, <2>3, <2>4, <2>5, <2>6, <2>7, <2>8, <2>9 DEF Scan
<1>5. CASE UNCHANGED vars
  BY <1>5, SameLife DEF vars
<1> QED
  BY <1>1, <1>2, <1>3, <1>4, <1>5 DEF Next

\* The flag, the generation and the threads always agree: one scan may commit exactly while
\* the flag is set, and none while the workspace counts as scanned.
THEOREM OneLiveScanHolds == Spec => []OneLiveScan
<1>1. Init => LiveInv
  BY DEF Init, LiveInv, OneLiveScan, Live, NoScan
<1>2. TypeOK /\ LiveInv /\ [Next]_vars => LiveInv'
  BY LiveStep
<1>3. LiveInv => OneLiveScan
  BY DEF LiveInv
<1> QED
  BY <1>1, <1>2, <1>3, TypeCorrect, PTL DEF Spec
-----------------------------------------------------------------------------
(* Refinement. *)

LEMMA ClaimRefines ==
  ASSUME ~scanned, ~in_progress, NEW s \in Scanners, Claim(s)
  PROVE  Lifecycle!Next
  BY DEF Claim, Lifecycle!Next, Lifecycle!Begin

LEMMA StartRefines ==
  ASSUME StartScanIfNeeded
  PROVE  Lifecycle!Next \/ UNCHANGED <<scanned, in_progress, generation>>
  BY ClaimRefines DEF StartScanIfNeeded, Scanners, flags

LEMMA StepRefines ==
  ASSUME TypeOK, LiveInv, [Next]_vars
  PROVE  [Lifecycle!Next]_(Lifecycle!vars)
<1> USE DEF workspace, flags, types
<1> DEFINE Same == UNCHANGED <<scanned, in_progress, generation>>
<1>0. Same \/ Lifecycle!Next => [Lifecycle!Next]_(Lifecycle!vars)
  BY DEF Lifecycle!vars
<1>1. ASSUME \/ Environment \/ \E u \in updates : LandUpdate(u[1], u[2], u[3])
      PROVE  Same
  BY <1>1 DEF Environment, WriteFile, DeleteFile, WriteTypes, LandUpdate
<1>2. CASE Editor
  BY <1>0, <1>2, StartRefines
  DEF Editor, DidOpen, DidChange, DidClose, StartScan, Request, WatchBegin
<1>3. CASE Handler
  <2>1. CASE Initialize \/ ResetScan
    <3>1. Same \/ (scanned' = FALSE /\ in_progress' = FALSE /\ generation' = generation + 1)
      BY <2>1 DEF Initialize, ResetScan
    <3> QED
      BY <1>0, <3>1 DEF Lifecycle!Next, Lifecycle!Reset
  <2>2. CASE EnsureScanned
    BY <1>0, <2>2, ClaimRefines DEF EnsureScanned, Scanners
  <2>3. ASSUME \/ MarkPending \/ InvalidateDependents
               \/ \E c \in server.todo :
                    ReloadTypeFile(c) \/ SkipOpen(c) \/ Deleted(c) \/ Changed(c)
        PROVE  Same
    BY <2>3
    DEF MarkPending, InvalidateDependents, ReloadTypeFile, SkipOpen, Deleted, Changed
  <2>4. CASE RestartScan
    BY <1>0, <2>4, StartRefines DEF RestartScan
  <2> QED
    BY <1>0, <1>3, <2>1, <2>2, <2>3, <2>4 DEF Handler
<1>4. ASSUME NEW s \in Scanners, Scan(s) \/ Panic(s)
      PROVE  Same \/ Lifecycle!Next
  <2>1. CASE Accept(s) \/ Panic(s)
    <3>1. CASE ~ShouldCommit(s)
      BY <2>1, <3>1 DEF Accept, Panic
    <3>2. CASE ShouldCommit(s)
      <4>1. in_progress /\ ~scanned
        BY <2>1, <3>2 DEF Accept, Panic, Live, LiveInv, OneLiveScan
      <4>2. CASE Accept(s)
        BY <3>2, <4>1, <4>2 DEF Accept, Lifecycle!Next, Lifecycle!Accept
      <4>3. CASE Panic(s)
        BY <3>2, <4>1, <4>3 DEF Panic, Lifecycle!Next, Lifecycle!Fail
      <4> QED
        BY <2>1, <4>2, <4>3
    <3> QED
      BY <3>1, <3>2
  <2>2. ASSUME \/ Capture(s) \/ Collect(s) \/ NextChunk(s) \/ Finish(s)
               \/ \E f \in scan[s].chunk : ReadFile(s, f)
               \/ \E r \in scan[s].results : CommitResult(s, r)
        PROVE  Same
    BY <2>2 DEF Capture, Collect, NextChunk, Finish, ReadFile, CommitResult, Locally
  <2> QED
    BY <1>4, <2>1, <2>2 DEF Scan
<1>5. CASE UNCHANGED vars
  BY <1>0, <1>5 DEF vars
<1> QED
  BY <1>0, <1>1, <1>2, <1>3, <1>4, <1>5 DEF Next

\* The scan implements its life cycle: whatever threads are still running, only a scan of the
\* current generation, begun after the last reset, makes the workspace known.
THEOREM ImplementsLifecycle == Spec => LifecycleSpec
<1>1. Init => Lifecycle!Init
  BY DEF Init, Lifecycle!Init
<1>2. Init => LiveInv
  BY DEF Init, LiveInv, OneLiveScan, Live, NoScan
<1>3. TypeOK /\ LiveInv /\ [Next]_vars => LiveInv' /\ [Lifecycle!Next]_(Lifecycle!vars)
  BY LiveStep, StepRefines
<1> QED
  BY <1>1, <1>2, <1>3, TypeCorrect, PTL DEF Spec, LifecycleSpec, Lifecycle!Spec
-----------------------------------------------------------------------------
(* Discovery. *)

Untouched == {f \in Files : disk[f] = 1}

\* What a scan that may still commit has achieved so far: the untouched files outside the
\* graph are exactly those it has yet to read or to hand in.
Walked(s) ==
  LET r == scan[s] IN
  /\ r.pc \in {"capture", "collect", "walk"} => r.chunk = {} /\ r.results = {}
  /\ r.pc = "commit" => r.chunk = {}
  /\ r.pc = "return" => discovered
  /\ r.pc \in {"collect", "walk", "read", "commit"} =>
       /\ r.force_full \/ discovered
       /\ \A f \in Untouched : r.cached[f] # NoEntry => f \in graph
  /\ r.pc \in {"walk", "read", "commit"} /\ r.force_full =>
       \A f \in Untouched :
         \/ f \in graph \union r.work \union r.chunk
         \/ \E q \in r.results : q.kind = "analyzed" /\ q.file = f

DiscoveryInv ==
  /\ DiscoveryComplete
  /\ \A f \in Files : entries[f] # NoEntry => f \in graph
  /\ \A c \in notices \union server.todo : c.kind = "deleted" => c.file \notin Untouched
  /\ \A s \in Scanners : Live(s) => Walked(s)

\* Writes only make the untouched files fewer, and no step but initialize forgets one.
Keeps ==
  /\ \A f \in Files : disk'[f] = 1 => disk[f] = 1
  /\ \A f \in Files : disk'[f] = 1 /\ f \in graph => f \in graph'
  /\ discovered => discovered'

LEMMA WalkedStable ==
  ASSUME NEW s \in Scanners, Walked(s), Keeps, scan'[s] = scan[s]
  PROVE  Walked(s)'
  BY DEF Walked, Keeps, Untouched

LEMMA NoticesStable ==
  ASSUME DiscoveryInv, Keeps, notices' \union server'.todo \subseteq notices \union server.todo
  PROVE  \A c \in notices' \union server'.todo : c.kind = "deleted" => c.file \notin Untouched'
  BY DEF DiscoveryInv, Keeps, Untouched

\* A step outside the scans: what remains is that the entries and the notices stay in order.
LEMMA OutsideDiscovery ==
  ASSUME DiscoveryInv, Keeps, UNCHANGED <<scanned, discovered, generation, scan>>,
         \A f \in Files : entries'[f] # NoEntry => f \in graph',
         \A c \in notices' \union server'.todo : c.kind = "deleted" => c.file \notin Untouched'
  PROVE  DiscoveryInv'
<1>1. DiscoveryComplete'
  BY DEF DiscoveryInv, DiscoveryComplete, Keeps
<1>2. \A s \in Scanners : (Live(s))' => Walked(s)'
  BY WalkedStable DEF DiscoveryInv, Live, ShouldCommit
<1> QED
  BY <1>1, <1>2 DEF DiscoveryInv

\* A scan is claimed: it has nothing to show yet.
LEMMA ClaimDiscovery ==
  ASSUME TypeOK, DiscoveryInv, NEW s \in Scanners, Claim(s), UNCHANGED <<entries, graph>>,
         UNCHANGED <<disk, notices>>, server'.todo \subseteq server.todo
  PROVE  DiscoveryInv'
<1> DEFINE q == [NoScan EXCEPT !.pc = "capture", !.generation = generation]
<1>1. q.pc = "capture" /\ q.chunk = {} /\ q.results = {}
  BY DEF NoScan
<1>2. \A u \in Scanners : scan'[u] = IF u = s THEN q ELSE scan[u]
  BY DEF Claim, TypeOK
<1>3. Keeps /\ UNCHANGED <<scanned, discovered, generation>>
  BY DEF Claim, Keeps
<1>4. DiscoveryComplete'
  BY <1>3 DEF DiscoveryInv, DiscoveryComplete
<1>5. Walked(s)'
  <2> HIDE DEF q
  <2> QED
    BY <1>1, <1>2 DEF Walked
<1>6. ASSUME NEW u \in Scanners, u # s, (Live(u))'
      PROVE  Walked(u)'
  BY <1>2, <1>3, <1>6, WalkedStable DEF DiscoveryInv, Live, ShouldCommit
<1>7. \A c \in notices' \union server'.todo : c.kind = "deleted" => c.file \notin Untouched'
  BY <1>3, NoticesStable
<1> QED
  BY <1>4, <1>5, <1>6, <1>7 DEF DiscoveryInv

LEMMA StartDiscovery ==
  ASSUME TypeOK, DiscoveryInv, StartScanIfNeeded, UNCHANGED <<entries, graph>>,
         UNCHANGED <<disk, notices>>, server'.todo \subseteq server.todo
  PROVE  DiscoveryInv'
<1>1. CASE UNCHANGED <<flags, scan>>
  <2>1. Keeps
    BY <1>1 DEF Keeps, flags
  <2> QED
    BY <1>1, <2>1, NoticesStable, OutsideDiscovery DEF flags, DiscoveryInv
<1>2. ASSUME NEW t \in Threads, Claim(t)
      PROVE  DiscoveryInv'
  BY <1>2, ClaimDiscovery DEF Scanners
<1> QED
  BY <1>1, <1>2 DEF StartScanIfNeeded

\* The scan s moves: only what it has achieved itself is at stake.
LEMMA ScanDiscovery ==
  ASSUME TypeOK, DiscoveryInv, NEW s \in Scanners, NEW q, scan' = [scan EXCEPT ![s] = q],
         Keeps, UNCHANGED <<generation, disk, notices>>, server'.todo \subseteq server.todo,
         DiscoveryComplete',
         \A f \in Files : entries'[f] # NoEntry => f \in graph',
         (Live(s))' => Walked(s)'
  PROVE  DiscoveryInv'
<1>1. \A u \in Scanners : u # s => scan'[u] = scan[u]
  BY DEF TypeOK
<1>2. ASSUME NEW u \in Scanners, u # s, (Live(u))'
      PROVE  Walked(u)'
  BY <1>1, <1>2, WalkedStable DEF DiscoveryInv, Live, ShouldCommit
<1>3. \A c \in notices' \union server'.todo : c.kind = "deleted" => c.file \notin Untouched'
  BY NoticesStable
<1> QED
  BY <1>2, <1>3 DEF DiscoveryInv
\* The environment, the editor, the updates of documents and the handlers.
LEMMA QuietDiscovery ==
  ASSUME TypeOK, LiveInv, DiscoveryInv, LiveInv',
         \/ Environment
         \/ Editor
         \/ Handler
         \/ \E u \in updates : LandUpdate(u[1], u[2], u[3])
  PROVE  DiscoveryInv'
<1> USE DEF workspace, flags
<1>0. \A f \in Files : entries[f] # NoEntry => f \in graph
  BY DEF DiscoveryInv
<1>1. ASSUME NEW f \in Files, WriteFile(f) \/ DeleteFile(f)
      PROVE  DiscoveryInv'
  <2>1. disk' \in {[disk EXCEPT ![f] = clock + 2], [disk EXCEPT ![f] = 0]} /\ clock \in Nat
    BY <1>1 DEF WriteFile, DeleteFile, TypeOK
  <2>2. \A g \in Files : disk'[g] = IF g = f THEN disk'[f] ELSE disk[g]
    BY <2>1 DEF TypeOK
  <2>3. disk'[f] # 1
    BY <2>1 DEF TypeOK
  <2>4. Keeps
    BY <1>1, <2>2, <2>3 DEF Keeps, WriteFile, DeleteFile
  <2>5. \A c \in notices' \union server'.todo : c \in notices \union server.todo \/ c.file = f
    BY <1>1 DEF WriteFile, DeleteFile, Notify
  <2>6. \A c \in notices' \union server'.todo : c.kind = "deleted" => c.file \notin Untouched'
    BY <2>2, <2>3, <2>5 DEF DiscoveryInv, Untouched
  <2> QED
    BY <1>0, <1>1, <2>4, <2>6, OutsideDiscovery DEF WriteFile, DeleteFile
<1>2. CASE WriteTypes
  <2>1. \A c \in notices' \union server'.todo :
          c \in notices \union server.todo \/ c.kind = "changed"
    BY <1>2 DEF WriteTypes, Notify
  <2>2. Keeps /\ disk' = disk
    BY <1>2 DEF Keeps, WriteTypes
  <2>3. \A c \in notices' \union server'.todo : c.kind = "deleted" => c.file \notin Untouched'
    BY <2>1, <2>2 DEF DiscoveryInv, Untouched
  <2> QED
    BY <1>0, <1>2, <2>2, <2>3, OutsideDiscovery DEF WriteTypes
<1>3. CASE \/ \E f \in Files, x \in Texts : DidOpen(f, x)
           \/ StartScan \/ RestartScan
  <2>1. server'.todo \subseteq server.todo
    BY <1>3 DEF DidOpen, StartScan, RestartScan, Idle
  <2> QED
    BY <1>3, <2>1, StartDiscovery DEF DidOpen, StartScan, RestartScan, world
<1>4. CASE \/ \E f \in Files, x \in Texts : DidChange(f, x)
           \/ \E f \in Files : DidClose(f)
           \/ Request \/ MarkPending
           \/ \E batch \in SUBSET notices : WatchBegin(batch)
           \/ \E c \in server.todo : ReloadTypeFile(c) \/ SkipOpen(c) \/ Changed(c)
  <2>1. Keeps /\ UNCHANGED <<entries, graph, flags, scan>>
    <3>1. UNCHANGED <<entries, graph, flags, scan, disk>>
      BY <1>4 DEF DidChange, DidClose, Request, MarkPending, WatchBegin, ReloadTypeFile,
                  SkipOpen, Changed, world
    <3> QED
      BY <3>1 DEF Keeps
  <2>2. notices' \union server'.todo \subseteq notices \union server.todo
    <3>2. CASE MarkPending
      BY <3>2 DEF MarkPending, TypeOK, ServerRecords, world
    <3>3. CASE Request \/ \E batch \in SUBSET notices : WatchBegin(batch)
      BY <3>3 DEF Request, WatchBegin, Idle, world
    <3>4. ASSUME NEW c \in server.todo, SkipOpen(c) \/ Changed(c)
          PROVE  notices' = notices /\ server'.todo \subseteq server.todo
      BY <3>4 DEF SkipOpen, Changed, TypeOK, ServerRecords, world
    <3>5. ASSUME NEW c \in server.todo, ReloadTypeFile(c)
          PROVE  notices' = notices /\ server'.todo \subseteq server.todo
      <4>1. PICK named \in SUBSET {TypeFile} :
              server' = [server EXCEPT !.todo = @ \ {c}, !.affected = @ \union named]
        BY <3>5 DEF ReloadTypeFile
      <4> QED
        BY <3>5, <4>1 DEF ReloadTypeFile, TypeOK, ServerRecords, world
    <3> QED
      BY <1>4, <3>2, <3>3, <3>4, <3>5 DEF DidChange, DidClose
  <2> QED
    BY <1>0, <2>1, <2>2, NoticesStable, OutsideDiscovery
<1>5. CASE EnsureScanned
  <2>1. server'.todo = {}
    BY <1>5 DEF EnsureScanned, Idle
  <2>2. CASE UNCHANGED <<flags, scan>>
    <3>1. Keeps
      BY <1>5, <2>2 DEF Keeps, EnsureScanned, world
    <3> QED
      BY <1>0, <1>5, <2>1, <2>2, <3>1, NoticesStable, OutsideDiscovery DEF EnsureScanned, world
  <2> QED
    BY <1>5, <2>1, <2>2, ClaimDiscovery DEF EnsureScanned, Scanners, world
<1>6. CASE Initialize \/ ResetScan
  <2>1. CASE UNCHANGED flags
    <3>1. ResetScan
      BY <1>6, <2>1 DEF Initialize, TypeOK
    <3>2. Keeps /\ server'.todo \subseteq server.todo
      BY <2>1, <3>1 DEF Keeps, ResetScan, world, Idle, TypeOK, ServerRecords
    <3> QED
      BY <1>0, <2>1, <3>1, <3>2, NoticesStable, OutsideDiscovery DEF ResetScan, world
  <2>2. CASE ~ UNCHANGED flags
    <3>1. scanned' = FALSE /\ in_progress' = FALSE /\ UNCHANGED <<disk, notices>>
      BY <1>6, <2>2 DEF Initialize, ResetScan, world
    <3>2. \A s \in Scanners : ~(Live(s))'
      BY <3>1 DEF LiveInv, OneLiveScan
    <3>3. server'.todo \subseteq server.todo
      BY <1>6 DEF Initialize, ResetScan, Idle, TypeOK, ServerRecords
    <3>4. DiscoveryComplete'
      BY <1>6, <3>1 DEF DiscoveryInv, DiscoveryComplete, Initialize, ResetScan
    <3>5. \A f \in Files : entries'[f] # NoEntry => f \in graph'
      BY <1>0, <1>6 DEF Initialize, ResetScan
    <3> QED
      BY <3>1, <3>2, <3>3, <3>4, <3>5 DEF DiscoveryInv, Untouched
  <2> QED
    BY <2>1, <2>2
<1>7. ASSUME NEW c \in server.todo, Deleted(c)
      PROVE  DiscoveryInv'
  <2>1. c.file \notin Untouched
    BY <1>7 DEF Deleted, DiscoveryInv
  <2>2. Keeps
    BY <1>7, <2>1 DEF Deleted, Keeps, Untouched, world
  <2>3. notices' \union server'.todo \subseteq notices \union server.todo
    BY <1>7 DEF Deleted, TypeOK, ServerRecords, world
  <2>4. \A f \in Files : entries'[f] # NoEntry => f \in graph'
    BY <1>0, <1>7 DEF Deleted, TypeOK
  <2> QED
    BY <1>7, <2>2, <2>3, <2>4, NoticesStable, OutsideDiscovery DEF Deleted
<1>8. CASE InvalidateDependents
  <2>1. Keeps /\ UNCHANGED <<flags, scan>> /\ notices' \union server'.todo \subseteq notices \union server.todo
    BY <1>8 DEF InvalidateDependents, Keeps, TypeOK, ServerRecords, world
  <2>2. \A f \in Files : entries'[f] # NoEntry => f \in graph'
    BY <1>0, <1>8 DEF InvalidateDependents
  <2> QED
    BY <2>1, <2>2, NoticesStable, OutsideDiscovery
<1>9. ASSUME NEW u \in updates, LandUpdate(u[1], u[2], u[3])
      PROVE  DiscoveryInv'
  <2>1. Keeps /\ UNCHANGED <<flags, scan, notices, server>>
    BY <1>9 DEF LandUpdate, Keeps, world
  <2>2. \A f \in Files : entries'[f] # NoEntry => f \in graph'
    BY <1>0, <1>9 DEF LandUpdate, TypeOK
  <2> QED
    BY <2>1, <2>2, NoticesStable, OutsideDiscovery
<1> QED
  BY <1>1, <1>2, <1>3, <1>4, <1>5, <1>6, <1>7, <1>8, <1>9 DEF Environment, Editor, Handler
\* What reading an untouched file yields: its analysis, unless the scan has it already.
LEMMA ReadUntouched ==
  ASSUME TypeOK, NEW s \in Scanners, NEW f \in Untouched,
         scan[s].cached[f] # NoEntry => f \in graph
  PROVE  \/ f \in graph
         \/ \E q \in ReadResult(scan[s], f) : q.kind = "analyzed" /\ q.file = f
<1> DEFINE r == scan[s]
<1> DEFINE now == IF r.open[f] # NoDoc THEN InDoc(r.open[f]) ELSE OnDisk(disk[f])
<1>1. f \in Files /\ disk[f] = 1 /\ r \in ScanRecords
  BY DEF Untouched, TypeOK
<1>2. now \in Snapshots
  BY <1>1 DEF InDoc, OnDisk, Snapshots, ScanRecords
<1>3. CASE r.cached[f] = now
  BY <1>2, <1>3, NoEntryIsNone
<1>4. CASE r.cached[f] # now
  <2>1. ReadResult(r, f) = {Analyzed(f, now)}
    BY <1>1, <1>4 DEF ReadResult
  <2> HIDE DEF now
  <2> QED
    BY <2>1 DEF Analyzed
<1> QED
  BY <1>3, <1>4

\* The scans.
LEMMA ScanStepDiscovery ==
  ASSUME TypeOK, LiveInv, DiscoveryInv, NEW s \in Scanners, Scan(s) \/ Panic(s)
  PROVE  DiscoveryInv'
<1> USE DEF workspace, flags, world
<1> DEFINE r == scan[s]
<1>0. /\ r \in ScanRecords /\ server \in ServerRecords
      /\ \A f \in Files : entries[f] # NoEntry => f \in graph
      /\ ShouldCommit(s) /\ r.pc # "none" => Walked(s)
      /\ \A q : scan' = [scan EXCEPT ![s] = q] => scan'[s] = q
      /\ Untouched \subseteq Files
  BY DEF TypeOK, DiscoveryInv, Live, Untouched
<1>1. ASSUME NEW q, Locally(s, q)
      PROVE  /\ Keeps /\ UNCHANGED <<generation, disk, notices, server, graph, discovered>>
             /\ scan' = [scan EXCEPT ![s] = q] /\ scan'[s] = q
             /\ ((Live(s))' => Walked(s)') => DiscoveryInv'
  <2>1. Keeps /\ DiscoveryComplete'
    BY <1>1 DEF Locally, Keeps, DiscoveryInv, DiscoveryComplete
  <2> QED
    BY <1>0, <1>1, <2>1, ScanDiscovery DEF Locally
<1>2. CASE Capture(s)
  <2> DEFINE q == [r EXCEPT !.pc = "collect", !.env = env, !.force_full = ~discovered,
                            !.cached = entries, !.open = docs, !.pend = pending,
                            !.since = clock]
  <2>1. Locally(s, q) /\ r.pc = "capture"
    BY <1>2 DEF Capture
  <2>2. /\ q.pc = "collect" /\ q.force_full = ~discovered /\ q.cached = entries
        /\ q.chunk = r.chunk /\ q.results = r.results /\ q.generation = r.generation
    BY <1>0 DEF ScanRecords
  <2> HIDE DEF q
  <2>3. ASSUME (Live(s))'
        PROVE  Walked(s)'
    <3>1. Walked(s)
      BY <1>0, <1>1, <2>1, <2>2, <2>3 DEF Live, ShouldCommit
    <3> QED
      BY <1>0, <1>1, <2>1, <2>2, <3>1 DEF Walked, Untouched
  <2> QED
    BY <1>1, <2>1, <2>3
<1>3. CASE Collect(s)
  <2>1. CASE ShouldCommit(s)
    <3> DEFINE q == [r EXCEPT !.pc = "walk", !.work = ScanFiles(r)]
    <3>1. Locally(s, q) /\ r.pc = "collect" /\ Walked(s)
      BY <1>0, <1>3, <2>1 DEF Collect
    <3>2. /\ q.pc = "walk" /\ q.force_full = r.force_full /\ q.cached = r.cached
          /\ q.chunk = r.chunk /\ q.results = r.results /\ q.work = ScanFiles(r)
      BY <1>0 DEF ScanRecords
    <3>3. r.force_full => Untouched \subseteq ScanFiles(r)
      BY DEF ScanFiles, Untouched
    <3> HIDE DEF q
    <3>4. Walked(s)'
      BY <1>0, <1>1, <3>1, <3>2, <3>3 DEF Walked, Untouched
    <3> QED
      BY <1>1, <3>1, <3>4
  <2>2. CASE ~ShouldCommit(s)
    <3>1. Locally(s, Returned(r)) /\ (Returned(r)).generation = r.generation
      BY <1>3, <2>2 DEF Collect, Returned, NoScan
    <3> QED
      BY <1>1, <2>2, <3>1 DEF Live, ShouldCommit
  <2> QED
    BY <2>1, <2>2
<1>4. CASE NextChunk(s)
  <2>1. PICK chunk \in SUBSET r.work :
          Locally(s, IF ShouldCommit(s)
                     THEN [r EXCEPT !.pc = "read", !.work = @ \ chunk, !.chunk = chunk]
                     ELSE [r EXCEPT !.work = {}])
    BY <1>4 DEF NextChunk
  <2>2. CASE ShouldCommit(s)
    <3> DEFINE q == [r EXCEPT !.pc = "read", !.work = @ \ chunk, !.chunk = chunk]
    <3>1. Locally(s, q) /\ r.pc = "walk" /\ Walked(s)
      BY <1>0, <1>4, <2>1, <2>2 DEF NextChunk
    <3>2. /\ q.pc = "read" /\ q.force_full = r.force_full /\ q.cached = r.cached
          /\ q.chunk = chunk /\ q.results = r.results /\ q.work = r.work \ chunk
      BY <1>0 DEF ScanRecords
    <3> HIDE DEF q
    <3>3. Walked(s)'
      BY <1>0, <1>1, <3>1, <3>2 DEF Walked, Untouched
    <3> QED
      BY <1>1, <3>1, <3>3
  <2>3. CASE ~ShouldCommit(s)
    <3>1. Locally(s, [r EXCEPT !.work = {}]) /\ [r EXCEPT !.work = {}].generation = r.generation
      BY <1>0, <2>1, <2>3 DEF ScanRecords
    <3> QED
      BY <1>1, <2>3, <3>1 DEF Live, ShouldCommit
  <2> QED
    BY <2>2, <2>3
<1>5. ASSUME NEW f \in r.chunk, ReadFile(s, f)
      PROVE  DiscoveryInv'
  <2> DEFINE q == [r EXCEPT !.chunk = @ \ {f}, !.results = @ \union ReadResult(r, f)]
  <2>1. Locally(s, Settle(q)) /\ r.pc = "read"
    BY <1>5 DEF ReadFile
  <2>2. /\ q.force_full = r.force_full /\ q.cached = r.cached /\ q.work = r.work
        /\ q.chunk = r.chunk \ {f} /\ q.results = r.results \union ReadResult(r, f)
        /\ q \in ScanRecords /\ q.generation = r.generation
    BY <1>0, ReadResultType DEF ScanRecords
  <2> HIDE DEF q
  <2>3. /\ (Settle(q)).force_full = r.force_full /\ (Settle(q)).cached = r.cached
        /\ (Settle(q)).work = r.work /\ (Settle(q)).generation = r.generation
        /\ (Settle(q)).chunk = q.chunk /\ (Settle(q)).results = q.results
        /\ (Settle(q)).pc \in {"read", "commit", "walk"}
        /\ (Settle(q)).pc = "walk" => q.chunk = {} /\ q.results = {}
        /\ (Settle(q)).pc = "commit" => q.chunk = {}
    BY <2>2 DEF Settle, ScanRecords
  <2>4. ASSUME (Live(s))'
        PROVE  Walked(s)'
    <3>1. Walked(s)
      BY <1>0, <1>1, <2>1, <2>3, <2>4 DEF Live, ShouldCommit
    <3>2. ASSUME r.force_full, NEW g \in Untouched
          PROVE  \/ g \in graph \union r.work \union q.chunk
                 \/ \E w \in q.results : w.kind = "analyzed" /\ w.file = g
      <4>1. CASE g = f
        BY <2>1, <2>2, <3>1, <4>1, ReadUntouched DEF Walked
      <4>2. CASE g # f
        BY <2>1, <2>2, <3>1, <3>2, <4>2 DEF Walked
      <4> QED
        BY <4>1, <4>2
    <3> QED
      BY <1>0, <1>1, <2>1, <2>3, <3>1, <3>2 DEF Walked, Untouched
  <2> QED
    BY <1>1, <2>1, <2>4
<1>6. ASSUME NEW w \in r.results, CommitResult(s, w)
      PROVE  DiscoveryInv'
  <2> DEFINE q == [r EXCEPT !.results = @ \ {w}]
  <2>1. scan' = [scan EXCEPT ![s] = Settle(q)] /\ r.pc = "commit" /\ scan'[s] = Settle(q)
    BY <1>0, <1>6 DEF CommitResult
  <2>2. /\ q.force_full = r.force_full /\ q.cached = r.cached /\ q.work = r.work
        /\ q.chunk = r.chunk /\ q.results = r.results \ {w}
        /\ q \in ScanRecords /\ q.generation = r.generation /\ w.file \in Files
    BY <1>0 DEF ScanRecords, Results
  <2> HIDE DEF q
  <2>3. /\ (Settle(q)).force_full = r.force_full /\ (Settle(q)).cached = r.cached
        /\ (Settle(q)).work = r.work /\ (Settle(q)).generation = r.generation
        /\ (Settle(q)).chunk = q.chunk /\ (Settle(q)).results = q.results
        /\ (Settle(q)).pc \in {"read", "commit", "walk"}
        /\ (Settle(q)).pc = "walk" => q.chunk = {} /\ q.results = {}
        /\ (Settle(q)).pc = "commit" => q.chunk = {}
    BY <2>2 DEF Settle, ScanRecords
  <2>4. /\ UNCHANGED <<generation, disk, notices, server, discovered, scanned>>
        /\ graph \subseteq graph' /\ Keeps /\ DiscoveryComplete'
    BY <1>6 DEF CommitResult, Keeps, DiscoveryInv, DiscoveryComplete
  <2>5. ShouldCommit(s) /\ w.kind = "analyzed" => w.file \in graph'
    BY <1>6 DEF CommitResult
  <2>6. \A g \in Files : entries'[g] # NoEntry => g \in graph'
    BY <1>0, <1>6, <2>2 DEF CommitResult, TypeOK
  <2>7. ASSUME (Live(s))'
        PROVE  Walked(s)'
    <3>1. Walked(s) /\ ShouldCommit(s)
      BY <1>0, <2>1, <2>3, <2>4, <2>7 DEF Live, ShouldCommit
    <3>2. ASSUME r.force_full, NEW g \in Untouched
          PROVE  \/ g \in graph' \union r.work \union q.chunk
                 \/ \E v \in q.results : v.kind = "analyzed" /\ v.file = g
      BY <2>1, <2>2, <2>4, <2>5, <3>1, <3>2 DEF Walked
    <3> QED
      BY <1>0, <2>1, <2>3, <2>4, <3>1, <3>2 DEF Walked, Untouched
  <2> QED
    BY <1>0, <2>1, <2>4, <2>6, <2>7, ScanDiscovery
<1>7. CASE Finish(s)
  <2>1. /\ scan' = [scan EXCEPT ![s] = Returned(r)] /\ scan'[s] = Returned(r)
        /\ UNCHANGED <<generation, disk, notices, server, graph, entries, scanned>>
        /\ r.pc = "walk" /\ r.work = {}
    BY <1>0, <1>7 DEF Finish
  <2>2. (Returned(r)).pc = "return" /\ (Returned(r)).generation = r.generation
    BY DEF Returned, NoScan
  <2>3. CASE ShouldCommit(s)
    <3>1. discovered' = (discovered \/ r.force_full) /\ Walked(s)
      BY <1>0, <1>7, <2>1, <2>3 DEF Finish
    <3>2. Keeps /\ discovered'
      BY <2>1, <3>1 DEF Keeps, Walked
    <3>3. r.force_full => \A f \in Files : disk[f] = 1 => f \in graph
      BY <2>1, <3>1 DEF Walked, Untouched
    <3>4. DiscoveryComplete'
      BY <2>1, <3>1, <3>2, <3>3 DEF DiscoveryInv, DiscoveryComplete
    <3>5. Walked(s)'
      BY <2>1, <2>2, <3>2 DEF Walked
    <3> QED
      BY <1>0, <2>1, <3>2, <3>4, <3>5, ScanDiscovery
  <2>4. CASE ~ShouldCommit(s)
    <3>1. Keeps /\ DiscoveryComplete'
      BY <1>7, <2>1, <2>4 DEF Finish, Keeps, DiscoveryInv, DiscoveryComplete
    <3>2. ~(Live(s))'
      BY <2>1, <2>2, <2>4 DEF Live, ShouldCommit
    <3> QED
      BY <1>0, <2>1, <3>1, <3>2, ScanDiscovery
  <2> QED
    BY <2>3, <2>4
<1>8. CASE Accept(s) \/ Panic(s)
  <2>1. /\ scan' = [scan EXCEPT ![s] = NoScan] /\ scan'[s] = NoScan
        /\ UNCHANGED <<generation, disk, notices, graph, entries, discovered>>
        /\ r.pc \in {"return", "read"}
    BY <1>0, <1>8 DEF Accept, Panic
  <2>2. server' \in {server, Idle, [Idle EXCEPT !.pc = "ensure"]}
    BY <1>8 DEF Accept, Panic
  <2>3. server'.todo \subseteq server.todo
    BY <2>2 DEF Idle
  <2>4. Keeps /\ ~(Live(s))'
    BY <2>1 DEF Keeps, Live, NoScan
  <2>5. scanned' => scanned \/ (ShouldCommit(s) /\ r.pc = "return")
    BY <1>8 DEF Accept, Panic
  <2>6. DiscoveryComplete'
    BY <1>0, <2>1, <2>5 DEF DiscoveryInv, DiscoveryComplete, Walked
  <2> QED
    BY <1>0, <2>1, <2>3, <2>4, <2>6, ScanDiscovery
<1> QED
  BY <1>2, <1>3, <1>4, <1>5, <1>6, <1>7, <1>8 DEF Scan

LEMMA DiscoveryStep ==
  ASSUME TypeOK, LiveInv, DiscoveryInv, [Next]_vars
  PROVE  DiscoveryInv'
<1>1. LiveInv'
  BY LiveStep
<1>2. CASE UNCHANGED vars
  <2>1. Keeps
    BY <1>2 DEF Keeps, vars
  <2> QED
    BY <1>1, <1>2, <2>1, NoticesStable, OutsideDiscovery DEF vars, DiscoveryInv
<1> QED
  BY <1>1, <1>2, QuietDiscovery, ScanStepDiscovery DEF Next

\* No scan makes the workspace known before every file that was there from the start has
\* been analysed, whatever was reset, aborted or lost on the way.
THEOREM DiscoveryHolds == Spec => []DiscoveryComplete
<1>1. Init => LiveInv /\ DiscoveryInv
  BY DEF Init, LiveInv, OneLiveScan, Live, NoScan, DiscoveryInv, DiscoveryComplete, Idle
<1>2. TypeOK /\ LiveInv /\ DiscoveryInv /\ [Next]_vars => LiveInv' /\ DiscoveryInv'
  BY LiveStep, DiscoveryStep
<1>3. DiscoveryInv => DiscoveryComplete
  BY DEF DiscoveryInv
<1> QED
  BY <1>1, <1>2, <1>3, TypeCorrect, PTL DEF Spec
-----------------------------------------------------------------------------
(* Type definitions reach what was read from disk. *)

\* The named reload is still to be carried through: the dependents are not yet dropped.
Owing == TypeFile \in server.affected /\ server.pc \in {"watch", "mark", "invalidate"}

Reached(f) ==
  entries[f] # NoEntry /\ entries[f].from = "disk" /\ TypeFile \in DependsOn[f]
    => env_of[f] >= named_env

\* A scan that may still commit and has chosen its type environment.
Analyses(s) == scan[s].pc \in {"collect", "walk", "read", "commit"} /\ ShouldCommit(s)

\* TypesReach is kept by a commit only because a live scan was started after the last
\* invalidation, and by the invalidation only because no live scan runs then.
TypesInv ==
  /\ named_env <= env
  /\ server.pc = "invalidate" => ~in_progress
  /\ ~Owing => /\ \A f \in Files : Reached(f)
               /\ \A s \in Scanners : Analyses(s) => scan[s].env >= named_env

\* Srv scans only for a request: no other handler is under way meanwhile.
Requesting == scan[Srv].pc # "none" => server.pc = "scanning"

\* What every step but initialize and the invalidation does, which name no environment of
\* the past: a named reload owes, and all else reaches what it touches.
LEMMA TypesKept ==
  ASSUME TypesInv, named_env' <= env', server'.pc = "invalidate" => ~in_progress',
         \/ Owing'
         \/ /\ ~Owing /\ named_env' = named_env
            /\ \A f \in Files : Reached(f) => (Reached(f))'
            /\ \A s \in Scanners : (Analyses(s))' =>
                 \/ Analyses(s) /\ scan'[s].env = scan[s].env
                 \/ scan'[s].env >= named_env
  PROVE  TypesInv'
  BY DEF TypesInv

\* The case of a step that leaves the types and the snapshots alone.
LEMMA TypesStill ==
  ASSUME TypesInv, server'.pc = "invalidate" => ~in_progress', Owing => Owing',
         UNCHANGED <<env, named_env, entries, env_of>>,
         \A s \in Scanners : (Analyses(s))' => Analyses(s) /\ scan'[s].env = scan[s].env
  PROVE  TypesInv'
<1>1. \A f \in Files : Reached(f) => (Reached(f))'
  BY DEF Reached
<1> QED
  BY <1>1, TypesKept DEF TypesInv

\* A claim starts a scan that has not chosen its environment yet.
LEMMA StartAnalyses ==
  ASSUME TypeOK, (\E s \in Scanners : Claim(s)) \/ UNCHANGED <<flags, scan>>
  PROVE  \A s \in Scanners : (Analyses(s))' => Analyses(s) /\ scan'[s].env = scan[s].env
<1>1. CASE UNCHANGED <<flags, scan>>
  BY <1>1 DEF Analyses, ShouldCommit, flags
<1>2. ASSUME NEW u \in Scanners, Claim(u)
      PROVE  \A s \in Scanners : (Analyses(s))' => Analyses(s) /\ scan'[s].env = scan[s].env
  <2>1. [NoScan EXCEPT !.pc = "capture", !.generation = generation].pc = "capture"
    BY DEF NoScan
  <2>2. /\ \A s \in Scanners : s # u => scan'[s] = scan[s]
        /\ scan'[u].pc = "capture" /\ generation' = generation
    BY <1>2, <2>1 DEF Claim, TypeOK
  <2> QED
    BY <2>2 DEF Analyses, ShouldCommit
<1> QED
  BY <1>1, <1>2

LEMMA StartClaims ==
  ASSUME StartScanIfNeeded
  PROVE  (\E s \in Scanners : Claim(s)) \/ UNCHANGED <<flags, scan>>
  BY DEF StartScanIfNeeded, Scanners

\* The steps of the environment, the editor, the updates, and a handler that claims a scan
\* or goes on with its batch.
LEMMA QuietTypes ==
  ASSUME TypeOK, LiveInv, TypesInv,
         \/ Environment \/ Editor \/ EnsureScanned \/ MarkPending \/ RestartScan
         \/ \E c \in server.todo : SkipOpen(c) \/ Changed(c)
  PROVE  TypesInv'
<1> USE DEF world, workspace, types
<1>1. UNCHANGED <<env, named_env, entries, env_of>>
  BY DEF Environment, WriteFile, DeleteFile, WriteTypes, Editor, DidOpen, DidChange, DidClose,
         StartScan, Request, WatchBegin, EnsureScanned, MarkPending, RestartScan, SkipOpen,
         Changed
<1>2. (\E s \in Scanners : Claim(s)) \/ UNCHANGED <<flags, scan>>
  BY StartClaims
  DEF Environment, WriteFile, DeleteFile, WriteTypes, Editor, DidOpen, DidChange, DidClose,
      StartScan, Request, WatchBegin, EnsureScanned, MarkPending, RestartScan, SkipOpen,
      Changed, Scanners
<1>3. \/ UNCHANGED <<server, in_progress>>
      \/ server'.pc # "invalidate" /\ (Owing => Owing')
  <2>1. CASE Environment
    BY <2>1 DEF Environment, WriteFile, DeleteFile, WriteTypes, flags
  <2>2. CASE Editor
    BY <2>2 DEF Editor, DidOpen, DidChange, DidClose, StartScan, Request, WatchBegin, Idle,
                Owing, flags
  <2>3. CASE EnsureScanned \/ RestartScan
    BY <2>3 DEF EnsureScanned, RestartScan, Idle, Owing
  <2>4. CASE MarkPending \/ \E c \in server.todo : SkipOpen(c) \/ Changed(c)
    <3>1. CASE MarkPending
      BY <3>1 DEF MarkPending, TypeOK, ServerRecords, Owing
    <3>2. ASSUME NEW c \in server.todo, SkipOpen(c)
          PROVE  UNCHANGED <<server.pc, server.affected>> /\ server.pc = "watch"
      BY <3>2 DEF SkipOpen, TypeOK, ServerRecords
    <3>3. ASSUME NEW c \in server.todo, Changed(c)
          PROVE  server'.pc = "mark" /\ server.affected \subseteq server'.affected
      BY <3>3 DEF Changed, TypeOK, ServerRecords
    <3> QED
      BY <2>4, <3>1, <3>2, <3>3 DEF Owing
  <2> QED
    BY <2>1, <2>2, <2>3, <2>4
<1>4. (server'.pc = "invalidate" => ~in_progress') /\ (Owing => Owing')
  BY <1>3 DEF Owing, TypesInv
<1> QED
  BY <1>1, <1>2, <1>4, StartAnalyses, TypesStill

\* The steps that reload, drop or replace.
LEMMA HandlerTypes ==
  ASSUME TypeOK, LiveInv, DiscoveryInv, TypesInv,
         \/ Initialize \/ ResetScan \/ InvalidateDependents
         \/ \E c \in server.todo : ReloadTypeFile(c) \/ Deleted(c)
         \/ \E u \in updates : LandUpdate(u[1], u[2], u[3])
  PROVE  TypesInv'
<1> USE DEF world, workspace, types, flags
<1>0. env \in Nat /\ named_env \in Nat /\ server \in ServerRecords
  BY DEF TypeOK
<1>1. CASE Initialize
  <2>1. \A f \in Files : (Reached(f))'
    BY <1>1 DEF Initialize, Reached
  <2>2. \A s \in Scanners : ~(Analyses(s))'
    BY <1>1 DEF Initialize, Analyses, ShouldCommit, LiveInv, TypeOK, ScanRecords
  <2>3. env' = env + 1 /\ named_env' = env + 1 /\ server'.pc = "idle"
    BY <1>1 DEF Initialize, Idle
  <2> QED
    BY <1>0, <2>1, <2>2, <2>3 DEF TypesInv
<1>2. CASE ResetScan
  <2>1. CASE server.rb_change \/ server.affected # {}
    <3>1. /\ server' = [server EXCEPT !.pc = "invalidate"] /\ ~in_progress'
          /\ generation' = generation + 1 /\ server.pc = "watch"
          /\ UNCHANGED <<env, named_env, entries, env_of, scan>>
      BY <1>2, <2>1 DEF ResetScan
    <3>2. server'.pc = "invalidate" /\ server'.affected = server.affected
      BY <1>0, <3>1 DEF ServerRecords
    <3>3. \A s \in Scanners : ~(Analyses(s))'
      BY <3>1 DEF Analyses, ShouldCommit, LiveInv, TypeOK, ScanRecords
    <3> QED
      BY <3>1, <3>2, <3>3, TypesStill DEF Owing
  <2>2. CASE ~(server.rb_change \/ server.affected # {})
    <3>1. /\ server'.pc = "idle" /\ UNCHANGED <<env, named_env, entries, env_of, scan, generation>>
      BY <1>2, <2>2 DEF ResetScan, Idle
    <3> QED
      BY <2>2, <3>1, TypesStill DEF Owing, Analyses, ShouldCommit
  <2> QED
    BY <2>1, <2>2
<1>3. CASE InvalidateDependents
  <2>1. /\ server.pc = "invalidate" /\ server'.pc = "restart"
        /\ UNCHANGED <<env, named_env, scan, generation, in_progress>>
    BY <1>0, <1>3 DEF InvalidateDependents, ServerRecords
  <2>2. \A s \in Scanners : ~Live(s)
    BY <2>1 DEF TypesInv, LiveInv, OneLiveScan
  <2>3. \A s \in Scanners : ~(Analyses(s))'
    BY <2>1, <2>2 DEF Analyses, Live, ShouldCommit
  <2>4. ASSUME NEW f \in Files
        PROVE  (Reached(f))'
    <3>1. CASE f \in Dependents(server.affected)
      BY <1>3, <3>1 DEF InvalidateDependents, Reached
    <3>2. CASE f \notin Dependents(server.affected)
      <4>1. entries'[f] = entries[f] /\ env_of'[f] = env_of[f] /\ named_env' = named_env
        BY <1>3, <3>2 DEF InvalidateDependents
      <4>2. Owing => TypeFile \in server.affected
        BY DEF Owing
      <4>3. CASE Owing
        <5>1. entries[f] # NoEntry => TypeFile \notin DependsOn[f]
          BY <3>2, <4>2, <4>3 DEF DiscoveryInv, Dependents
        <5> QED
          BY <4>1, <5>1 DEF Reached
      <4>4. CASE ~Owing
        BY <4>1, <4>4 DEF Reached, TypesInv
      <4> QED
        BY <4>3, <4>4
    <3> QED
      BY <3>1, <3>2
  <2> QED
    BY <2>1, <2>3, <2>4 DEF TypesInv
<1>4. ASSUME NEW c \in server.todo, ReloadTypeFile(c)
      PROVE  TypesInv'
  <2>1. PICK named \in SUBSET {TypeFile} :
          /\ server' = [server EXCEPT !.todo = @ \ {c}, !.affected = @ \union named]
          /\ named_env' = IF named = {} THEN named_env ELSE env + 1
    BY <1>4 DEF ReloadTypeFile
  <2>2. /\ server.pc = "watch" /\ server'.pc = "watch" /\ env' = env + 1
        /\ server'.affected = server.affected \union named
        /\ UNCHANGED <<entries, env_of, scan, generation>>
    BY <1>0, <1>4, <2>1 DEF ReloadTypeFile, ServerRecords
  <2>3. named_env' <= env'
    BY <1>0, <2>1, <2>2 DEF TypesInv
  <2>4. CASE Owing \/ named # {}
    BY <2>2, <2>3, <2>4, TypesKept DEF Owing
  <2>5. CASE ~Owing /\ named = {}
    <3>1. named_env' = named_env
      BY <2>1, <2>5
    <3>2. /\ \A f \in Files : Reached(f) => (Reached(f))'
          /\ \A s \in Scanners : (Analyses(s))' => Analyses(s) /\ scan'[s].env = scan[s].env
      BY <2>2, <3>1 DEF Reached, Analyses, ShouldCommit
    <3> QED
      BY <2>2, <2>3, <2>5, <3>1, <3>2, TypesKept
  <2> QED
    BY <2>4, <2>5
<1>5. ASSUME NEW c \in server.todo, Deleted(c)
      PROVE  TypesInv'
  <2>1. /\ server'.pc = server.pc /\ server.affected \subseteq server'.affected
        /\ UNCHANGED <<env, named_env, scan, generation, in_progress>>
    BY <1>0, <1>5 DEF Deleted, ServerRecords
  <2>2. \A f \in Files : Reached(f) => (Reached(f))'
    BY <1>5 DEF Deleted, Reached, TypeOK
  <2>3. Owing => Owing'
    BY <2>1 DEF Owing
  <2> QED
    BY <2>1, <2>2, <2>3, TypesKept DEF TypesInv, Analyses, ShouldCommit
<1>6. ASSUME NEW u \in updates, LandUpdate(u[1], u[2], u[3])
      PROVE  TypesInv'
  <2>1. UNCHANGED <<server, env, named_env, scan, generation, in_progress>>
    BY <1>6 DEF LandUpdate
  <2>2. ASSUME NEW f \in Files, Reached(f)
        PROVE  (Reached(f))'
    <3>1. InDoc(u[2]).from = "text"
      BY DEF InDoc
    <3>2. \/ entries'[f] = entries[f] /\ env_of'[f] = env_of[f]
          \/ entries'[f] = InDoc(u[2])
      BY <1>6 DEF LandUpdate, TypeOK
    <3> QED
      BY <2>1, <2>2, <3>1, <3>2 DEF Reached
  <2>3. Owing => Owing'
    BY <2>1 DEF Owing
  <2> QED
    BY <2>1, <2>2, <2>3, TypesKept DEF TypesInv, Analyses, ShouldCommit
<1> QED
  BY <1>1, <1>2, <1>3, <1>4, <1>5, <1>6

\* A scan goes on with the environment it has, or ends.
LEMMA LocalTypes ==
  ASSUME TypeOK, TypesInv, NEW s \in Scanners, NEW r,
         scan' = [scan EXCEPT ![s] = r], UNCHANGED <<env, named_env, entries, env_of, generation>>,
         server'.pc = "invalidate" => server.pc = "invalidate" /\ (in_progress' => in_progress),
         Owing => Owing',
         \/ r.pc \in {"none", "return"}
         \/ ~ShouldCommit(s) /\ r.generation = scan[s].generation
         \/ /\ r.env = scan[s].env /\ r.generation = scan[s].generation
            /\ scan[s].pc \in {"collect", "walk", "read", "commit"}
  PROVE  TypesInv'
<1>1. \A u \in Scanners : scan'[u] = IF u = s THEN r ELSE scan[u]
  BY DEF TypeOK
<1>2. \A u \in Scanners : (Analyses(u))' => Analyses(u) /\ scan'[u].env = scan[u].env
  BY <1>1 DEF Analyses, ShouldCommit
<1> QED
  BY <1>2, TypesStill DEF TypesInv

\* The scans.
LEMMA ScanStepTypes ==
  ASSUME TypeOK, Requesting, TypesInv, NEW s \in Scanners, Scan(s) \/ Panic(s)
  PROVE  TypesInv'
<1> USE DEF world, workspace, types, flags
<1> DEFINE r == scan[s]
<1>0. r \in ScanRecords /\ env \in Nat /\ named_env \in Nat /\ server \in ServerRecords
  BY DEF TypeOK
<1>1. ASSUME NEW q, Locally(s, q), q.generation = r.generation,
             \/ q.pc = "return"
             \/ ~ShouldCommit(s)
             \/ q.env = r.env /\ r.pc \in {"collect", "walk", "read", "commit"}
      PROVE  TypesInv'
  <2>1. Owing => Owing'
    BY <1>1 DEF Locally, Owing
  <2> QED
    BY <1>1, <2>1, LocalTypes DEF Locally
<1>2. CASE Capture(s)
  <2> DEFINE q == [r EXCEPT !.pc = "collect", !.env = env, !.force_full = ~discovered,
                            !.cached = entries, !.open = docs, !.pend = pending,
                            !.since = clock]
  <2>1. /\ \A u \in Scanners : scan'[u] = IF u = s THEN q ELSE scan[u]
        /\ UNCHANGED <<env, named_env, entries, env_of, server, in_progress, generation>>
    BY <1>2 DEF Capture, Locally, TypeOK
  <2>2. q.env = env
    BY <1>0 DEF ScanRecords
  <2> HIDE DEF q
  <2>3. \A u \in Scanners : (Analyses(u))' =>
          \/ Analyses(u) /\ scan'[u].env = scan[u].env
          \/ scan'[u].env >= named_env
    BY <1>0, <2>1, <2>2 DEF Analyses, ShouldCommit, TypesInv
  <2>4. \A f \in Files : Reached(f) => (Reached(f))'
    BY <2>1 DEF Reached
  <2>5. Owing <=> Owing'
    BY <2>1 DEF Owing
  <2> QED
    BY <2>1, <2>3, <2>4, <2>5, TypesKept DEF TypesInv
<1>3. CASE Collect(s)
  <2>1. /\ (Returned(r)).pc = "return" /\ (Returned(r)).generation = r.generation
        /\ [r EXCEPT !.pc = "walk", !.work = ScanFiles(r)].env = r.env
        /\ [r EXCEPT !.pc = "walk", !.work = ScanFiles(r)].generation = r.generation
    BY <1>0 DEF Returned, NoScan, ScanRecords
  <2> QED
    BY <1>1, <1>3, <2>1 DEF Collect
<1>4. CASE NextChunk(s)
  <2>1. PICK chunk \in SUBSET r.work :
          Locally(s, IF ShouldCommit(s)
                     THEN [r EXCEPT !.pc = "read", !.work = @ \ chunk, !.chunk = chunk]
                     ELSE [r EXCEPT !.work = {}])
    BY <1>4 DEF NextChunk
  <2>2. /\ [r EXCEPT !.pc = "read", !.work = @ \ chunk, !.chunk = chunk].env = r.env
        /\ [r EXCEPT !.pc = "read", !.work = @ \ chunk, !.chunk = chunk].generation = r.generation
        /\ [r EXCEPT !.work = {}].env = r.env /\ [r EXCEPT !.work = {}].generation = r.generation
    BY <1>0 DEF ScanRecords
  <2> QED
    BY <1>1, <1>4, <2>1, <2>2 DEF NextChunk
<1>5. ASSUME NEW f \in r.chunk, ReadFile(s, f)
      PROVE  TypesInv'
  <2> DEFINE q == Settle([r EXCEPT !.chunk = @ \ {f}, !.results = @ \union ReadResult(r, f)])
  <2>1. Locally(s, q) /\ r.pc = "read"
    BY <1>5 DEF ReadFile
  <2>2. q.env = r.env /\ q.generation = r.generation
    BY <1>0 DEF Settle, ScanRecords
  <2> QED
    BY <1>1, <2>1, <2>2
<1>6. ASSUME NEW w \in r.results, CommitResult(s, w)
      PROVE  TypesInv'
  <2> DEFINE q == Settle([r EXCEPT !.results = @ \ {w}])
  <2>1. /\ scan' = [scan EXCEPT ![s] = q] /\ r.pc = "commit"
        /\ UNCHANGED <<env, named_env, server, in_progress, generation>>
    BY <1>6 DEF CommitResult
  <2>2. q.env = r.env /\ q.generation = r.generation
    BY <1>0 DEF Settle, ScanRecords
  <2>3. Owing <=> Owing'
    BY <2>1 DEF Owing
  <2>4. CASE UNCHANGED <<entries, env_of>>
    BY <2>1, <2>2, <2>3, <2>4, LocalTypes
  <2>5. CASE ~ UNCHANGED <<entries, env_of>>
    <3>1. /\ ShouldCommit(s) /\ env_of' = [env_of EXCEPT ![w.file] = r.env]
          /\ entries' = [entries EXCEPT ![w.file] = w.snapshot]
      BY <1>6, <2>5 DEF CommitResult
    <3>2. ~Owing => r.env >= named_env
      BY <2>1, <3>1 DEF TypesInv, Analyses
    <3>3. ASSUME ~Owing, NEW f \in Files, Reached(f)
          PROVE  (Reached(f))'
      BY <2>1, <3>1, <3>2, <3>3 DEF Reached, TypeOK
    <3> HIDE DEF q
    <3>4. \A u \in Scanners : scan'[u] = IF u = s THEN q ELSE scan[u]
      BY <2>1 DEF TypeOK
    <3>5. \A u \in Scanners : (Analyses(u))' => Analyses(u) /\ scan'[u].env = scan[u].env
      BY <2>1, <2>2, <3>4 DEF Analyses, ShouldCommit
    <3> QED
      BY <2>1, <2>3, <3>3, <3>5, TypesKept DEF TypesInv
  <2> QED
    BY <2>4, <2>5
<1>7. CASE Finish(s)
  <2>1. /\ scan' = [scan EXCEPT ![s] = Returned(r)] /\ (Returned(r)).pc = "return"
        /\ UNCHANGED <<env, named_env, entries, env_of, server, in_progress, generation>>
    BY <1>7 DEF Finish, Returned, NoScan
  <2>2. Owing => Owing'
    BY <2>1 DEF Owing
  <2> QED
    BY <2>1, <2>2, LocalTypes
<1>8. CASE Accept(s) \/ Panic(s)
  <2>1. /\ scan' = [scan EXCEPT ![s] = NoScan] /\ NoScan.pc = "none"
        /\ UNCHANGED <<env, named_env, entries, env_of, generation>>
        /\ in_progress' => in_progress
        /\ scan[s].pc # "none"
    BY <1>8 DEF Accept, Panic, NoScan
  <2>2. \/ server' = server
        \/ server.pc = "scanning" /\ server'.pc \in {"idle", "ensure"}
    <3>1. /\ server' \in {server, Idle, [Idle EXCEPT !.pc = "ensure"]}
          /\ s # Srv => server' = server
      BY <1>8 DEF Accept, Panic
    <3>2. Idle.pc = "idle" /\ [Idle EXCEPT !.pc = "ensure"].pc = "ensure"
      BY DEF Idle
    <3> QED
      BY <2>1, <3>1, <3>2 DEF Requesting
  <2>3. /\ Owing => Owing'
        /\ server'.pc = "invalidate" => server.pc = "invalidate"
    BY <2>2 DEF Owing
  <2> QED
    BY <2>1, <2>3, LocalTypes
<1> QED
  BY <1>2, <1>3, <1>4, <1>5, <1>6, <1>7, <1>8 DEF Scan


LEMMA RequestingStep ==
  ASSUME TypeOK, Requesting, [Next]_vars
  PROVE  Requesting'
<1> USE DEF world, workspace, flags, types
<1>0. Srv \notin Threads /\ server \in ServerRecords /\ Srv \in Scanners
  BY ScanConstants DEF TypeOK, Scanners
<1>1. ASSUME scan'[Srv].pc # "none" => scan[Srv].pc # "none",
             server.pc = "scanning" => server'.pc = "scanning"
      PROVE  Requesting'
  BY <1>1 DEF Requesting
<1>2. ASSUME StartScanIfNeeded
      PROVE  scan'[Srv] = scan[Srv]
  BY <1>0, <1>2 DEF StartScanIfNeeded, Claim, TypeOK
<1>3. CASE Environment \/ \E u \in updates : LandUpdate(u[1], u[2], u[3])
  BY <1>1, <1>3 DEF Environment, WriteFile, DeleteFile, WriteTypes, LandUpdate
<1>4. CASE Editor
  BY <1>1, <1>2, <1>4 DEF Editor, DidOpen, DidChange, DidClose, StartScan, Request, WatchBegin
<1>5. CASE Handler
  <2>1. CASE EnsureScanned
    BY <1>1, <2>1 DEF EnsureScanned, Requesting, Idle
  <2>2. CASE RestartScan
    BY <1>1, <1>2, <2>2 DEF RestartScan
  <2>3. CASE \/ Initialize \/ MarkPending \/ ResetScan \/ InvalidateDependents
             \/ \E c \in server.todo : ReloadTypeFile(c) \/ SkipOpen(c) \/ Deleted(c) \/ Changed(c)
    BY <1>1, <2>3
    DEF Initialize, MarkPending, ResetScan, InvalidateDependents, ReloadTypeFile, SkipOpen,
        Deleted, Changed
  <2> QED
    BY <1>5, <2>1, <2>2, <2>3 DEF Handler
<1>6. ASSUME NEW s \in Scanners, Scan(s) \/ Panic(s)
      PROVE  Requesting'
  <2>1. \/ scan[s].pc # "none" /\ server' = server /\ \E q : scan' = [scan EXCEPT ![s] = q]
        \/ scan' = [scan EXCEPT ![s] = NoScan] /\ (s # Srv => server' = server)
    BY <1>6 DEF Scan, Capture, Collect, NextChunk, ReadFile, CommitResult, Finish, Accept,
                Panic, Locally
  <2>2. CASE s = Srv
    BY <1>0, <2>1, <2>2 DEF Requesting, TypeOK, NoScan
  <2>3. CASE s # Srv
    <3>1. \A q : scan' = [scan EXCEPT ![s] = q] => scan'[Srv] = scan[Srv]
      BY <1>0, <2>3 DEF TypeOK
    <3> QED
      BY <1>1, <2>1, <2>3, <3>1
  <2> QED
    BY <2>2, <2>3
<1>7. CASE UNCHANGED vars
  BY <1>1, <1>7 DEF vars
<1> QED
  BY <1>3, <1>4, <1>5, <1>6, <1>7 DEF Next

LEMMA TypesStep ==
  ASSUME TypeOK, LiveInv, DiscoveryInv, Requesting, TypesInv, [Next]_vars
  PROVE  TypesInv'
<1>1. CASE UNCHANGED vars
  BY <1>1, TypesStill DEF vars, Owing, Analyses, ShouldCommit, TypesInv
<1> QED
  BY <1>1, QuietTypes, HandlerTypes, ScanStepTypes DEF Next, Handler

\* Whatever the order of reloads, resets, invalidations and commits, a server that rests on a
\* finished scan has nothing read from disk left over from before a reload that affects it.
THEOREM TypesReachHolds == Spec => []TypesReach
<1>1. Init => LiveInv /\ DiscoveryInv /\ Requesting /\ TypesInv
  BY DEF Init, LiveInv, OneLiveScan, Live, NoScan, DiscoveryInv, DiscoveryComplete, Idle,
         Requesting, TypesInv, Reached, Analyses, Scanners
<1>2. TypeOK /\ LiveInv /\ DiscoveryInv /\ Requesting /\ TypesInv /\ [Next]_vars
      => LiveInv' /\ DiscoveryInv' /\ Requesting' /\ TypesInv'
  BY LiveStep, DiscoveryStep, RequestingStep, TypesStep
<1>3. TypesInv => TypesReach
  BY DEF TypesInv, TypesReach, Owing, Reached
<1> QED
  BY <1>1, <1>2, <1>3, TypeCorrect, PTL DEF Spec
-----------------------------------------------------------------------------
(* No way back. *)

\* x is, for all that is known of the disk, a content f has had.
Past(f, x) ==
  x.from = "disk" => x.what <= clock + 1 /\ (disk[f] # 0 => x.what <= disk[f])

\* Replacing e by x does not go back.
Forward(e, x) == e # NoEntry /\ e.from = "disk" /\ x.from = "disk" => e.what <= x.what
Onward == \A f \in Files : entries'[f] # NoEntry => Forward(entries[f], entries'[f])

\* What a live scan has read is no older than what the workspace has meanwhile, and it holds
\* one result of a file at a time.
Fresh(s) ==
  /\ \A q \in scan[s].results :
       /\ q.file \notin scan[s].chunk
       /\ Past(q.file, q.snapshot)
       /\ Forward(entries[q.file], q.snapshot)
  /\ \A q, w \in scan[s].results : q.file = w.file => q = w

\* NoRegress holds of a commit only because no other scan can have committed since the read.
ForwardInv ==
  /\ \A f \in Files : disk[f] <= clock + 1
  /\ \A f \in Files : entries[f] # NoEntry => Past(f, entries[f])
  /\ \A s \in Scanners : Live(s) => Fresh(s)

LEMMA PastStays ==
  ASSUME TypeOK, clock' \in Nat, clock <= clock',
         NEW f \in Files, disk'[f] \in {0, disk[f]} \/ disk'[f] = clock' + 1,
         NEW x \in Snapshots, Past(f, x)
  PROVE  (Past(f, x))'
<1>1. x.from = "disk" => x.what \in Nat
  BY DEF Snapshots
<1> QED
  BY <1>1 DEF Past, TypeOK

\* Any step but the reading of a file and the commit of a result: nothing is read from disk
\* into the workspace, and no scan has more to show than before.
LEMMA OutsideForward ==
  ASSUME TypeOK, ForwardInv, clock' \in Nat, clock <= clock',
         \A f \in Files : disk'[f] \in {0, disk[f]} \/ disk'[f] = clock' + 1,
         \A f \in Files : entries'[f] \in {entries[f], NoEntry} \/ entries'[f].from = "text",
         \A s \in Scanners : (Live(s))' =>
           \/ scan'[s].results = {}
           \/ /\ Live(s) /\ scan'[s].results = scan[s].results
              /\ scan'[s].chunk \subseteq scan[s].chunk
  PROVE  ForwardInv' /\ Onward
<1>0. \A f \in Files : disk[f] \in Nat /\ entries[f] \in Snapshots \union {NoEntry}
  BY DEF TypeOK
<1>1. \A f \in Files : disk'[f] <= clock' + 1
  BY <1>0 DEF ForwardInv, TypeOK
<1>2. ASSUME NEW f \in Files, NEW x \in Snapshots, Past(f, x)
      PROVE  (Past(f, x))'
  BY <1>2, PastStays DEF TypeOK
<1>3. ASSUME NEW f \in Files, entries'[f] # NoEntry
      PROVE  (Past(f, entries[f]))'
  <2>1. CASE entries'[f] = entries[f]
    BY <1>0, <1>2, <1>3, <2>1 DEF ForwardInv, Past
  <2>2. CASE entries'[f].from = "text"
    BY <2>2 DEF Past
  <2> QED
    BY <1>3, <2>1, <2>2
<1>4. ASSUME NEW s \in Scanners, (Live(s))'
      PROVE  (Fresh(s))'
  <2>1. CASE scan'[s].results = {}
    BY <2>1 DEF Fresh
  <2>2. CASE /\ Live(s) /\ scan'[s].results = scan[s].results
             /\ scan'[s].chunk \subseteq scan[s].chunk
    <3>1. Fresh(s)
      BY <2>2 DEF ForwardInv
    <3>2. ASSUME NEW q \in scan[s].results
          PROVE  (Past(q.file, q.snapshot))' /\ Forward(entries'[q.file], q.snapshot)
      <4>1. q.file \in Files /\ q.snapshot \in Snapshots
        BY DEF TypeOK, ScanRecords, Results
      <4>2. (Past(q.file, q.snapshot))'
        BY <1>2, <3>1, <4>1 DEF Fresh
      <4>3. Forward(entries'[q.file], q.snapshot)
        BY <3>1, <4>1 DEF Fresh, Forward
      <4> QED
        BY <4>2, <4>3
    <3> QED
      BY <2>2, <3>1, <3>2 DEF Fresh
  <2> QED
    BY <1>4, <2>1, <2>2
<1>5. ASSUME NEW f \in Files, entries'[f] # NoEntry
      PROVE  Forward(entries[f], entries'[f])
  <2>1. entries[f] # NoEntry /\ entries[f].from = "disk" => entries[f].what \in Nat
    BY <1>0 DEF Snapshots
  <2> QED
    BY <1>5, <2>1 DEF Forward
<1> QED
  BY <1>1, <1>3, <1>4, <1>5 DEF ForwardInv, Onward

\* A read yields at most one result, and it is no older than the entry.
LEMMA ReadForward ==
  ASSUME TypeOK, ForwardInv, NEW s \in Scanners, NEW f \in Files, NEW q \in ReadResult(scan[s], f)
  PROVE  /\ q.file = f /\ Past(f, q.snapshot) /\ Forward(entries[f], q.snapshot)
         /\ \A w \in ReadResult(scan[s], f) : w = q
<1> DEFINE r == scan[s]
<1> DEFINE now == IF r.open[f] # NoDoc THEN InDoc(r.open[f]) ELSE OnDisk(disk[f])
<1>1. /\ ReadResult(r, f) \in {{}, {RefreshStamp(f, now)}, {Analyzed(f, now)}}
      /\ r.open[f] = NoDoc /\ disk[f] = 0 => ReadResult(r, f) = {}
  BY DEF ReadResult
<1>2. q.file = f /\ q.snapshot = now /\ \A w \in ReadResult(r, f) : w = q
  <2> HIDE DEF now
  <2> QED
    BY <1>1 DEF RefreshStamp, Analyzed
<1>3. now.from = "disk" => now.what = disk[f] /\ disk[f] # 0
  BY <1>1 DEF InDoc, OnDisk
<1>4. disk[f] \in Nat
  BY DEF TypeOK
<1>5. Past(f, now)
  BY <1>3, <1>4 DEF Past, ForwardInv
<1>6. Forward(entries[f], now)
  BY <1>3, <1>4 DEF Forward, Past, ForwardInv
<1> QED
  BY <1>2, <1>5, <1>6

LEMMA QuietForward ==
  ASSUME TypeOK, LiveInv, ForwardInv,
         \/ Environment \/ Editor \/ Handler
         \/ \E u \in updates : LandUpdate(u[1], u[2], u[3])
  PROVE  ForwardInv' /\ Onward
<1> USE DEF world, workspace, flags, types
<1>0. clock \in Nat /\ disk \in [Files -> Nat]
  BY DEF TypeOK
<1>1. /\ clock' \in Nat /\ clock <= clock'
      /\ \A f \in Files : disk'[f] \in {0, disk[f]} \/ disk'[f] = clock' + 1
  <2>1. ASSUME NEW f \in Files, WriteFile(f) \/ DeleteFile(f)
        PROVE  /\ clock' = clock + 1
               /\ \A g \in Files : disk'[g] \in {0, disk[g]} \/ disk'[g] = clock' + 1
    BY <1>0, <2>1 DEF WriteFile, DeleteFile, Tick
  <2>2. CASE WriteTypes \/ Editor
    <3>1. disk' = disk /\ (clock' = clock \/ clock' = clock + 1)
      BY <2>2 DEF WriteTypes, Editor, DidOpen, DidChange, DidClose, StartScan, Request,
                  WatchBegin, Tick
    <3> QED
      BY <1>0, <3>1
  <2>3. CASE Handler \/ \E u \in updates : LandUpdate(u[1], u[2], u[3])
    <3>1. disk' = disk /\ clock' = clock
      BY <2>3 DEF Handler, Initialize, EnsureScanned, ReloadTypeFile, SkipOpen, Deleted,
                  Changed, MarkPending, ResetScan, InvalidateDependents, RestartScan, LandUpdate
    <3> QED
      BY <1>0, <3>1
  <2> QED
    BY <1>0, <2>1, <2>2, <2>3 DEF Environment
<1>2. \A f \in Files : entries'[f] \in {entries[f], NoEntry} \/ entries'[f].from = "text"
  <2>1. ASSUME NEW u \in updates, LandUpdate(u[1], u[2], u[3]), NEW f \in Files
        PROVE  entries'[f] = entries[f] \/ entries'[f].from = "text"
    <3>1. InDoc(u[2]).from = "text"
      BY DEF InDoc
    <3>2. entries'[f] = entries[f] \/ entries'[f] = InDoc(u[2])
      BY <2>1 DEF LandUpdate, TypeOK
    <3> QED
      BY <3>1, <3>2
  <2>2. ASSUME NEW c \in server.todo, Deleted(c), NEW f \in Files
        PROVE  entries'[f] \in {entries[f], NoEntry}
    BY <2>2 DEF Deleted, TypeOK
  <2>3. CASE Initialize \/ InvalidateDependents
    BY <2>3 DEF Initialize, InvalidateDependents
  <2>4. CASE \/ Environment \/ Editor \/ EnsureScanned \/ MarkPending \/ ResetScan \/ RestartScan
             \/ \E c \in server.todo : ReloadTypeFile(c) \/ SkipOpen(c) \/ Changed(c)
    <3>1. entries' = entries
      BY <2>4 DEF Environment, WriteFile, DeleteFile, WriteTypes, Editor, DidOpen, DidChange,
                  DidClose, StartScan, Request, WatchBegin, EnsureScanned, ReloadTypeFile,
                  SkipOpen, Changed, MarkPending, ResetScan, RestartScan
    <3> QED
      BY <3>1
  <2> QED
    BY <2>1, <2>2, <2>3, <2>4 DEF Handler
<1>3. ASSUME NEW s \in Scanners, (Live(s))'
      PROVE  scan'[s].results = {} \/ (Live(s) /\ scan'[s] = scan[s])
  <2>1. \/ scan' = scan /\ generation' = generation
        \/ \E t \in Scanners : Claim(t)
        \/ scan' = scan /\ in_progress' = FALSE
    BY StartClaims
    DEF Environment, WriteFile, DeleteFile, WriteTypes, Editor, DidOpen, DidChange, DidClose,
        StartScan, Request, WatchBegin, Handler, Initialize, EnsureScanned, ReloadTypeFile,
        SkipOpen, Deleted, Changed, MarkPending, ResetScan, InvalidateDependents, RestartScan,
        LandUpdate, Scanners
  <2>2. ASSUME NEW t \in Scanners, Claim(t)
        PROVE  scan'[s].results = {} \/ (Live(s) /\ scan'[s] = scan[s])
    <3>1. [NoScan EXCEPT !.pc = "capture", !.generation = generation].results = {}
      BY DEF NoScan
    <3>2. /\ scan'[t].results = {} /\ generation' = generation
          /\ s # t => scan'[s] = scan[s]
      BY <2>2, <3>1 DEF Claim, TypeOK
    <3> QED
      BY <1>3, <3>2 DEF Live, ShouldCommit
  <2>3. CASE scan' = scan /\ in_progress' = FALSE
    <3>1. LiveInv'
      BY LiveStep DEF Next
    <3> QED
      BY <1>3, <2>3, <3>1 DEF LiveInv, OneLiveScan
  <2> QED
    BY <1>3, <2>1, <2>2, <2>3 DEF Live, ShouldCommit
<1> QED
  BY <1>1, <1>2, <1>3, OutsideForward

\* The scans.
LEMMA ScanStepForward ==
  ASSUME TypeOK, LiveInv, DiscoveryInv, ForwardInv, NEW s \in Scanners, Scan(s) \/ Panic(s)
  PROVE  ForwardInv' /\ Onward
<1> USE DEF world, workspace, flags, types
<1> DEFINE r == scan[s]
<1>0. /\ r \in ScanRecords /\ clock \in Nat /\ disk \in [Files -> Nat]
      /\ entries \in [Files -> Snapshots \union {NoEntry}]
      /\ \A q : scan' = [scan EXCEPT ![s] = q] =>
           \A u \in Scanners : scan'[u] = IF u = s THEN q ELSE scan[u]
  BY DEF TypeOK
\* A step that leaves the snapshots alone and adds no result.
<1>1. ASSUME NEW q, scan' = [scan EXCEPT ![s] = q],
             UNCHANGED <<disk, clock, entries, generation>>,
             \/ q.results = {}
             \/ /\ q.results = r.results /\ q.chunk \subseteq r.chunk
                /\ q.generation = r.generation /\ r.pc # "none"
      PROVE  ForwardInv' /\ Onward
  <2>1. \A f \in Files : disk'[f] = disk[f] /\ entries'[f] = entries[f]
    BY <1>1
  <2>2. ASSUME NEW u \in Scanners, (Live(u))'
        PROVE  \/ scan'[u].results = {}
               \/ /\ Live(u) /\ scan'[u].results = scan[u].results
                  /\ scan'[u].chunk \subseteq scan[u].chunk
    BY <1>0, <1>1, <2>2 DEF Live, ShouldCommit
  <2>3. clock' \in Nat /\ clock <= clock'
    BY <1>0, <1>1
  <2> QED
    BY <2>1, <2>2, <2>3, OutsideForward
<1>2. CASE Capture(s)
  <2> DEFINE q == [r EXCEPT !.pc = "collect", !.env = env, !.force_full = ~discovered,
                            !.cached = entries, !.open = docs, !.pend = pending,
                            !.since = clock]
  <2>1. Locally(s, q) /\ r.pc = "capture"
    BY <1>2 DEF Capture
  <2>2. q.results = r.results /\ q.chunk = r.chunk /\ q.generation = r.generation
    BY <1>0 DEF ScanRecords
  <2> QED
    BY <1>1, <2>1, <2>2 DEF Locally
<1>3. CASE Collect(s)
  <2> DEFINE q == [r EXCEPT !.pc = "walk", !.work = ScanFiles(r)]
  <2>1. r.pc = "collect" /\ (Locally(s, q) \/ Locally(s, Returned(r)))
    BY <1>3 DEF Collect
  <2>2. /\ q.results = r.results /\ q.chunk = r.chunk /\ q.generation = r.generation
        /\ (Returned(r)).results = {}
    BY <1>0 DEF ScanRecords, Returned, NoScan
  <2> HIDE DEF q
  <2> QED
    BY <1>1, <2>1, <2>2 DEF Locally
<1>4. CASE NextChunk(s)
  <2>1. PICK chunk \in SUBSET r.work :
          Locally(s, IF ShouldCommit(s)
                     THEN [r EXCEPT !.pc = "read", !.work = @ \ chunk, !.chunk = chunk]
                     ELSE [r EXCEPT !.work = {}])
    BY <1>4 DEF NextChunk
  <2>2. r.pc = "walk"
    BY <1>4 DEF NextChunk
  <2>3. CASE ShouldCommit(s)
    <3> DEFINE q == [r EXCEPT !.pc = "read", !.work = @ \ chunk, !.chunk = chunk]
    <3>1. q.results = r.results
      BY <1>0 DEF ScanRecords
    <3>2. r.results = {}
      BY <2>2, <2>3 DEF DiscoveryInv, Live, Walked
    <3>3. Locally(s, q)
      BY <2>1, <2>3
    <3> HIDE DEF q
    <3> QED
      BY <1>1, <3>1, <3>2, <3>3 DEF Locally
  <2>4. CASE ~ShouldCommit(s)
    <3> DEFINE q == [r EXCEPT !.work = {}]
    <3>1. q.results = r.results /\ q.chunk = r.chunk /\ q.generation = r.generation
      BY <1>0 DEF ScanRecords
    <3>2. Locally(s, q)
      BY <2>1, <2>4
    <3> HIDE DEF q
    <3> QED
      BY <1>1, <2>2, <3>1, <3>2 DEF Locally
  <2> QED
    BY <2>3, <2>4
<1>5. ASSUME NEW f \in r.chunk, ReadFile(s, f)
      PROVE  ForwardInv' /\ Onward
  <2> DEFINE q == Settle([r EXCEPT !.chunk = @ \ {f}, !.results = @ \union ReadResult(r, f)])
  <2>1. /\ scan' = [scan EXCEPT ![s] = q] /\ r.pc = "read" /\ f \in Files
        /\ UNCHANGED <<disk, clock, entries, generation>>
    BY <1>0, <1>5 DEF ReadFile, Locally, ScanRecords
  <2>2. /\ q.results = r.results \union ReadResult(r, f) /\ q.chunk = r.chunk \ {f}
        /\ q.generation = r.generation
    BY <1>0 DEF Settle, ScanRecords
  <2> HIDE DEF q
  <2>3. \A u \in Scanners : scan'[u] = IF u = s THEN q ELSE scan[u]
    BY <1>0, <2>1
  <2>4. ASSUME NEW u \in Scanners, (Live(u))'
        PROVE  (Fresh(u))'
    <3>1. Live(u) /\ Fresh(u)
      BY <2>1, <2>2, <2>3, <2>4 DEF Live, ShouldCommit, ForwardInv
    <3>2. CASE u # s
      BY <2>1, <2>3, <3>1, <3>2 DEF Fresh, Past
    <3>3. CASE u = s
      <4>1. \A w \in q.results : /\ w.file \notin q.chunk /\ Past(w.file, w.snapshot)
                                 /\ Forward(entries[w.file], w.snapshot)
        BY <2>1, <2>2, <3>1, <3>3, ReadForward DEF Fresh
      <4>2. \A w, v \in q.results : w.file = v.file => w = v
        <5>1. \A w \in r.results : w.file # f
          BY <1>5, <3>1, <3>3 DEF Fresh
        <5>2. \A w, v \in ReadResult(r, f) : w = v /\ w.file = f
          BY <2>1, ReadForward
        <5> QED
          BY <2>2, <3>1, <3>3, <5>1, <5>2 DEF Fresh
      <4> QED
        BY <2>1, <2>3, <3>3, <4>1, <4>2 DEF Fresh, Past
    <3> QED
      BY <3>2, <3>3
  <2>5. Onward
    BY <1>0, <2>1 DEF Onward, Forward, Snapshots
  <2> QED
    BY <2>1, <2>4, <2>5 DEF ForwardInv, Past
<1>6. ASSUME NEW w \in r.results, CommitResult(s, w)
      PROVE  ForwardInv' /\ Onward
  <2> DEFINE q == Settle([r EXCEPT !.results = @ \ {w}])
  <2>1. /\ scan' = [scan EXCEPT ![s] = q] /\ r.pc = "commit"
        /\ UNCHANGED <<disk, clock, generation>>
        /\ w.file \in Files /\ w.snapshot \in Snapshots
    BY <1>0, <1>6 DEF CommitResult, ScanRecords, Results
  <2>2. q.results = r.results \ {w} /\ q.chunk = r.chunk /\ q.generation = r.generation
    BY <1>0 DEF Settle, ScanRecords
  <2> HIDE DEF q
  <2>3. \A u \in Scanners : scan'[u] = IF u = s THEN q ELSE scan[u]
    BY <1>0, <2>1
  <2>4. CASE entries' = entries
    <3>1. Onward
      BY <1>0, <2>4 DEF Onward, Forward, Snapshots
    <3>2. ASSUME NEW u \in Scanners, (Live(u))'
          PROVE  (Fresh(u))'
      <4>1. Live(u) /\ Fresh(u)
        BY <2>1, <2>2, <2>3, <3>2 DEF Live, ShouldCommit, ForwardInv
      <4> QED
        BY <2>1, <2>2, <2>3, <2>4, <4>1 DEF Fresh, Past
    <3> QED
      BY <2>1, <2>4, <3>1, <3>2 DEF ForwardInv, Past
  <2>5. CASE entries' # entries
    <3>1. ShouldCommit(s) /\ entries' = [entries EXCEPT ![w.file] = w.snapshot]
      BY <1>6, <2>5 DEF CommitResult
    <3>2. Live(s) /\ Fresh(s)
      BY <2>1, <3>1 DEF Live, ForwardInv
    <3>3. \A g \in Files : entries'[g] = IF g = w.file THEN w.snapshot ELSE entries[g]
      BY <1>0, <3>1
    <3>4. Past(w.file, w.snapshot) /\ Forward(entries[w.file], w.snapshot)
      BY <3>2 DEF Fresh
    <3>5. Onward
      BY <1>0, <3>3, <3>4 DEF Onward, Forward, Snapshots
    <3>6. ASSUME NEW u \in Scanners, (Live(u))'
          PROVE  (Fresh(u))'
      <4>1. u = s
        BY <2>1, <2>2, <2>3, <3>2, <3>6 DEF LiveInv, OneLiveScan, Live, ShouldCommit
      <4>2. ASSUME NEW v \in q.results
            PROVE  entries'[v.file] = entries[v.file]
        <5>1. v.file \in Files /\ v.file # w.file
          BY <1>0, <2>2, <3>2 DEF Fresh, ScanRecords, Results
        <5> QED
          BY <3>3, <5>1
      <4> QED
        BY <2>1, <2>2, <2>3, <3>2, <4>1, <4>2 DEF Fresh, Past
    <3>7. \A g \in Files : entries'[g] # NoEntry => (Past(g, entries[g]))'
      BY <2>1, <3>3, <3>4 DEF ForwardInv, Past
    <3> QED
      BY <2>1, <3>5, <3>6, <3>7 DEF ForwardInv
  <2> QED
    BY <2>4, <2>5
<1>7. CASE Finish(s) \/ Accept(s) \/ Panic(s)
  <2>1. /\ scan' = [scan EXCEPT ![s] = Returned(r)] \/ scan' = [scan EXCEPT ![s] = NoScan]
        /\ UNCHANGED <<disk, clock, entries, generation>>
    BY <1>7 DEF Finish, Accept, Panic
  <2>2. (Returned(r)).results = {} /\ NoScan.results = {}
    BY DEF Returned, NoScan
  <2> QED
    BY <1>1, <2>1, <2>2
<1> QED
  BY <1>2, <1>3, <1>4, <1>5, <1>6, <1>7 DEF Scan

LEMMA ForwardStep ==
  ASSUME TypeOK, LiveInv, DiscoveryInv, ForwardInv, [Next]_vars
  PROVE  ForwardInv' /\ Onward
<1>1. CASE UNCHANGED vars
  <2>1. UNCHANGED <<disk, clock, entries, scan, generation>>
    BY <1>1 DEF vars
  <2>2. \A s \in Scanners : (Live(s))' <=> Live(s)
    BY <2>1 DEF Live, ShouldCommit
  <2>3. clock' \in Nat /\ clock <= clock'
    BY <2>1 DEF TypeOK
  <2> QED
    BY <2>1, <2>2, <2>3, OutsideForward
<1> QED
  BY <1>1, QuietForward, ScanStepForward DEF Next

\* The snapshot of a closed file is never replaced by one of an older content, however many
\* superseded threads still hold results they read long ago.
THEOREM NoRegressHolds == Spec => NoRegress
<1>1. Init => LiveInv /\ DiscoveryInv /\ ForwardInv
  BY DEF Init, LiveInv, OneLiveScan, Live, NoScan, DiscoveryInv, DiscoveryComplete, Idle,
         ForwardInv
<1>2. TypeOK /\ LiveInv /\ DiscoveryInv /\ ForwardInv /\ [Next]_vars
      => LiveInv' /\ DiscoveryInv' /\ ForwardInv'
  BY LiveStep, DiscoveryStep, ForwardStep
<1>3. TypeOK /\ TypeOK' /\ LiveInv /\ DiscoveryInv /\ ForwardInv /\ [Next]_vars =>
      [\A f \in Files :
         /\ entries[f] # NoEntry /\ entries'[f] # NoEntry
         /\ entries[f].from = "disk" /\ entries'[f].from = "disk"
         => entries'[f].what >= entries[f].what]_vars
  <2> SUFFICES ASSUME TypeOK, TypeOK', LiveInv, DiscoveryInv, ForwardInv, [Next]_vars,
                      NEW f \in Files,
                      entries[f] # NoEntry, entries'[f] # NoEntry,
                      entries[f].from = "disk", entries'[f].from = "disk"
               PROVE  entries'[f].what >= entries[f].what
    OBVIOUS
  <2>1. entries[f].what <= entries'[f].what
    BY ForwardStep DEF Onward, Forward
  <2>2. entries[f].what \in Nat /\ entries'[f].what \in Nat
    BY DEF TypeOK, Snapshots
  <2> QED
    BY <2>1, <2>2
<1> QED
  BY <1>1, <1>2, <1>3, TypeCorrect, PTL DEF Spec, NoRegress
-----------------------------------------------------------------------------
(* Marks are served. *)

\* The handler under way has dropped the entry of f, and a reset of the scan is certain.
\* A file that exists all the same has been written again, which the client will report.
Dropped(f) ==
  /\ server.pc \in {"watch", "mark"} /\ server.affected # {}
  /\ disk[f] = 0 \/ \E c \in notices : c.file = f

HoldsText(f) == entries[f] # NoEntry /\ entries[f].from = "text"

\* Nothing more is due to f since the moment a scan began.
Served(f, since) ==
  disk[f] = 0 \/ disk[f] > since + 1 \/ HoldsText(f) \/ entries[f] = OnDisk(disk[f]) \/ Dropped(f)

\* A result that serves its file once it is committed.
WillServe(s, q) ==
  IF q.kind = "refresh"
  THEN Served(q.file, scan[s].since)
  ELSE \/ q.snapshot.from = "text"
       \/ q.snapshot = OnDisk(disk[q.file])
       \/ disk[q.file] = 0
       \/ disk[q.file] > scan[s].since + 1

\* Every mark a scan began with is still to be read, is about to be committed, or is served.
Serving(s) ==
  LET r == scan[s] IN
  r.pc \in {"collect", "walk", "read", "commit"} =>
    /\ r.since <= clock
    /\ \A q \in r.results : q.file \in r.pend => WillServe(s, q)
    /\ \A f \in r.pend :
         \/ /\ r.pc = "collect" \/ f \in r.work \union r.chunk
            /\ entries[f] = r.cached[f] \/ HoldsText(f) \/ Dropped(f)
         \/ \E q \in r.results : q.file = f
         \/ Served(f, r.since)

\* A deletion that comes late does no harm, for what it drops has a newer event on its way,
\* and the scan is reset before that event is handled.
LateDeletions ==
  /\ \A c \in notices : c.kind = "deleted" /\ c.file \in Files => disk[c.file] = 0
  /\ \A c \in server.todo : c.kind = "deleted" /\ c.file \in Files =>
       disk[c.file] = 0 \/ \E d \in notices : d.file = c.file

ServedInv == LateDeletions /\ \A s \in Scanners : Live(s) => Serving(s)

\* What a step of anyone else does to a file a live scan has still to serve.
Elsewhere(f) ==
  /\ disk'[f] \in {0, disk[f]} \/ disk'[f] > clock + 1
  /\ entries'[f] = entries[f] \/ (HoldsText(f))' \/ (Dropped(f))'
  /\ Dropped(f) => (Dropped(f))'

LEMMA StillServing ==
  ASSUME TypeOK, TypeOK', clock <= clock', \A f \in Files : Elsewhere(f),
         NEW s \in Scanners, Serving(s), scan'[s] = scan[s]
  PROVE  (Serving(s))'
<1> DEFINE r == scan[s]
<1>0. /\ r \in ScanRecords /\ r.since \in Nat /\ r.pend \subseteq Files
      /\ r.results \subseteq Results /\ clock \in Nat /\ clock' \in Nat
      /\ \A f \in Files : disk[f] \in Nat /\ disk'[f] \in Nat
  BY DEF TypeOK, ScanRecords
<1> SUFFICES ASSUME r.pc \in {"collect", "walk", "read", "commit"}
             PROVE  (Serving(s))'
  BY DEF Serving
<1>1. r.since <= clock /\ r.since <= clock'
  BY <1>0 DEF Serving
\* The disk says of f what it said before, or that f is gone or written since.
<1>2. ASSUME NEW f \in Files
      PROVE  disk'[f] = disk[f] \/ disk'[f] = 0 \/ disk'[f] > r.since + 1
  BY <1>0, <1>1 DEF Elsewhere
<1>3. ASSUME NEW f \in Files, HoldsText(f)
      PROVE  (HoldsText(f))' \/ (Dropped(f))'
  BY <1>3 DEF Elsewhere, HoldsText
<1>4. ASSUME NEW f \in Files, Served(f, r.since)
      PROVE  (Served(f, r.since))'
  BY <1>0, <1>2, <1>3, <1>4 DEF Elsewhere, Served
<1>5. ASSUME NEW q \in r.results, WillServe(s, q)
      PROVE  (WillServe(s, q))'
  <2>1. q.file \in Files
    BY <1>0 DEF Results
  <2>2. CASE q.kind = "refresh"
    BY <1>4, <1>5, <2>1, <2>2 DEF WillServe
  <2>3. CASE q.kind # "refresh"
    BY <1>0, <1>2, <1>5, <2>1, <2>3 DEF WillServe
  <2> QED
    BY <2>2, <2>3
<1>6. ASSUME NEW f \in r.pend, entries[f] = r.cached[f] \/ HoldsText(f) \/ Dropped(f)
      PROVE  entries'[f] = r.cached[f] \/ (HoldsText(f))' \/ (Dropped(f))'
  BY <1>0, <1>3, <1>6 DEF Elsewhere
<1>7. \A q \in r.results : q.file \in r.pend => (WillServe(s, q))'
  BY <1>5 DEF Serving
<1>8. ASSUME NEW f \in r.pend
      PROVE  \/ /\ r.pc = "collect" \/ f \in r.work \union r.chunk
                /\ entries'[f] = r.cached[f] \/ (HoldsText(f))' \/ (Dropped(f))'
             \/ \E q \in r.results : q.file = f
             \/ (Served(f, r.since))'
  BY <1>0, <1>4, <1>6 DEF Serving
<1> QED
  BY <1>1, <1>7, <1>8 DEF Serving

\* Events: a deletion that the server learns of late is followed by a newer event.
LEMMA LateStep ==
  ASSUME TypeOK, LateDeletions, [Next]_vars
  PROVE  LateDeletions'
<1> USE DEF world, workspace, flags, types
<1>0. server \in ServerRecords
  BY DEF TypeOK
<1>1. ASSUME NEW f \in Files, WriteFile(f) \/ DeleteFile(f)
      PROVE  LateDeletions'
  <2> DEFINE n == [file |-> f, kind |-> IF disk'[f] = 0 THEN "deleted" ELSE "changed"]
  <2>1. /\ notices' = {c \in notices : c.file # f} \union {n}
        /\ \A g \in Files : g # f => disk'[g] = disk[g]
        /\ server' = server
    BY <1>1 DEF WriteFile, DeleteFile, Tick, Notify, TypeOK
  <2>2. n.file = f /\ (n.kind = "deleted" => disk'[f] = 0)
    OBVIOUS
  <2> HIDE DEF n
  <2>3. \A d \in notices : d \in notices' \/ d.file = f
    BY <2>1
  <2>4. \A c \in notices' : c.kind = "deleted" /\ c.file \in Files => disk'[c.file] = 0
    BY <2>1, <2>2 DEF LateDeletions
  <2>5. ASSUME NEW c \in server.todo, c.kind = "deleted", c.file \in Files
        PROVE  disk'[c.file] = 0 \/ \E d \in notices' : d.file = c.file
    BY <2>1, <2>2, <2>3, <2>5 DEF LateDeletions
  <2> QED
    BY <2>1, <2>4, <2>5 DEF LateDeletions
<1>2. CASE WriteTypes
  BY <1>2, ScanConstants DEF WriteTypes, Notify, LateDeletions
<1>3. ASSUME NEW batch \in SUBSET notices, WatchBegin(batch)
      PROVE  LateDeletions'
  <2>1. server'.todo = batch /\ notices' \subseteq notices /\ disk' = disk
    BY <1>3 DEF WatchBegin, Idle
  <2> QED
    BY <2>1 DEF LateDeletions
<1>4. ASSUME server'.todo \subseteq server.todo, UNCHANGED <<disk, notices>>
      PROVE  LateDeletions'
  BY <1>4 DEF LateDeletions
<1>5. CASE \/ \E f \in Files, x \in Texts : DidOpen(f, x) \/ DidChange(f, x)
           \/ \E f \in Files : DidClose(f)
           \/ StartScan \/ Request
  <2>1. server' = server \/ server'.todo = {}
    BY <1>5 DEF DidOpen, DidChange, DidClose, StartScan, Request, Idle
  <2> QED
    BY <1>4, <1>5, <2>1 DEF DidOpen, DidChange, DidClose, StartScan, Request
<1>6. CASE Handler
  <2>1. UNCHANGED <<disk, notices>>
    BY <1>6 DEF Handler, Initialize, EnsureScanned, ReloadTypeFile, SkipOpen, Deleted, Changed,
                MarkPending, ResetScan, InvalidateDependents, RestartScan
  <2>2. ASSUME Initialize \/ EnsureScanned \/ RestartScan
        PROVE  server'.todo \subseteq server.todo
    <3>1. Idle.todo = {} /\ [Idle EXCEPT !.pc = "scanning"].todo = {}
      BY DEF Idle
    <3> QED
      BY <2>2, <3>1 DEF Initialize, EnsureScanned, RestartScan
  <2>3. ASSUME MarkPending \/ ResetScan \/ InvalidateDependents
        PROVE  server'.todo \subseteq server.todo
    <3>1. /\ \A p \in {"invalidate", "restart"} : [server EXCEPT !.pc = p].todo = server.todo
          /\ Idle.todo = {}
      BY <1>0 DEF ServerRecords, Idle
    <3>2. CASE MarkPending
      BY <1>0, <3>2 DEF MarkPending, ServerRecords
    <3>3. CASE ResetScan \/ InvalidateDependents
      BY <3>1, <3>3 DEF ResetScan, InvalidateDependents
    <3> QED
      BY <2>3, <3>2, <3>3
  <2>4. ASSUME NEW c \in server.todo, ReloadTypeFile(c) \/ SkipOpen(c) \/ Deleted(c) \/ Changed(c)
        PROVE  server'.todo \subseteq server.todo
    <3>1. CASE ReloadTypeFile(c)
      <4>1. PICK named \in SUBSET {TypeFile} :
              server' = [server EXCEPT !.todo = @ \ {c}, !.affected = @ \union named]
        BY <3>1 DEF ReloadTypeFile
      <4> QED
        BY <1>0, <4>1 DEF ServerRecords
    <3>2. CASE SkipOpen(c)
      BY <1>0, <3>2 DEF SkipOpen, ServerRecords
    <3>3. CASE Deleted(c)
      BY <1>0, <3>3 DEF Deleted, ServerRecords
    <3>4. CASE Changed(c)
      BY <1>0, <3>4 DEF Changed, ServerRecords
    <3> QED
      BY <2>4, <3>1, <3>2, <3>3, <3>4
  <2>5. server'.todo \subseteq server.todo
    BY <1>6, <2>2, <2>3, <2>4 DEF Handler
  <2> QED
    BY <1>4, <2>1, <2>5
<1>7. ASSUME NEW u \in updates, LandUpdate(u[1], u[2], u[3])
      PROVE  LateDeletions'
  BY <1>4, <1>7 DEF LandUpdate
<1>8. ASSUME NEW s \in Scanners, Scan(s) \/ Panic(s)
      PROVE  LateDeletions'
  <2>1. /\ UNCHANGED <<disk, notices>>
        /\ server' \in {server, Idle, [Idle EXCEPT !.pc = "ensure"]}
    BY <1>8 DEF Scan, Capture, Collect, NextChunk, ReadFile, CommitResult, Finish, Accept,
                Panic, Locally
  <2>2. server'.todo \subseteq server.todo
    BY <2>1 DEF Idle
  <2> QED
    BY <1>4, <2>1, <2>2
<1>9. CASE UNCHANGED vars
  BY <1>4, <1>9 DEF vars
<1> QED
  BY <1>1, <1>2, <1>3, <1>5, <1>6, <1>7, <1>8, <1>9 DEF Next, Environment, Editor

\* The steps of everyone but the scans, unless they supersede every scan.
LEMMA QuietElsewhere ==
  ASSUME TypeOK, LiveInv, DiscoveryInv, TypesInv, LateDeletions,
         \/ Environment \/ Editor \/ Handler
         \/ \E u \in updates : LandUpdate(u[1], u[2], u[3])
  PROVE  \/ /\ clock <= clock' /\ \A f \in Files : Elsewhere(f)
            /\ scan' = scan \/ \E s \in Scanners : Claim(s)
         \/ \A s \in Scanners : ~(Live(s))'
<1> USE DEF world, workspace, flags, types
<1>0. /\ server \in ServerRecords /\ clock \in Nat /\ disk \in [Files -> Nat]
      /\ entries \in [Files -> Snapshots \union {NoEntry}]
  BY DEF TypeOK
<1> DEFINE Still == /\ clock <= clock' /\ \A f \in Files : Elsewhere(f)
                    /\ scan' = scan \/ \E s \in Scanners : Claim(s)
\* A handler that goes on with its batch, or was not at one.
<1>1. ASSUME UNCHANGED <<disk, entries>>, clock <= clock', notices \subseteq notices',
             \/ server.pc \notin {"watch", "mark"}
             \/ /\ server'.pc \in {"watch", "mark"}
                /\ server.affected \subseteq server'.affected
      PROVE  clock <= clock' /\ \A f \in Files : Elsewhere(f)
  BY <1>1 DEF Elsewhere, Dropped
<1>2. ASSUME NEW g \in Files, WriteFile(g) \/ DeleteFile(g)
      PROVE  Still
  <2>1. /\ clock' = clock + 1 /\ UNCHANGED <<entries, server, scan>>
        /\ disk'[g] = clock + 2 \/ disk'[g] = 0
        /\ \A f \in Files : f # g => disk'[f] = disk[f]
    BY <1>0, <1>2 DEF WriteFile, DeleteFile, Tick
  <2>2. PICK n : n.file = g /\ notices' = {c \in notices : c.file # g} \union {n}
    BY <1>2 DEF WriteFile, DeleteFile, Notify
  <2>3. \A f \in Files : Dropped(f) => (Dropped(f))'
    BY <2>1, <2>2 DEF Dropped
  <2>4. \A f \in Files : disk'[f] \in {0, disk[f]} \/ disk'[f] > clock + 1
    BY <1>0, <2>1
  <2> QED
    BY <1>0, <2>1, <2>3, <2>4 DEF Elsewhere
<1>3. CASE WriteTypes
  <2>1. /\ clock' = clock + 1 /\ UNCHANGED <<disk, entries, server, scan>>
        /\ \A f \in Files, c \in notices : c.file = f => c \in notices'
    BY <1>3, ScanConstants DEF WriteTypes, Tick, Notify
  <2>2. \A f \in Files : Elsewhere(f)
    BY <2>1 DEF Elsewhere, Dropped
  <2> QED
    BY <1>0, <2>1, <2>2
<1>4. CASE Editor
  <2>1. /\ UNCHANGED <<disk, entries>> /\ server.pc = "idle"
        /\ clock' \in {clock, clock + 1}
        /\ notices' = notices \/ scan' = scan
    BY <1>4 DEF Editor, DidOpen, DidChange, DidClose, StartScan, Request, WatchBegin, Tick
  <2>2. scan' = scan \/ \E s \in Scanners : Claim(s)
    BY <1>4, StartClaims DEF Editor, DidOpen, DidChange, DidClose, StartScan, Request, WatchBegin
  <2>3. \A f \in Files : Elsewhere(f)
    BY <1>4, <2>1 DEF Elsewhere, Dropped, Editor, DidClose
  <2> QED
    BY <1>0, <2>1, <2>2, <2>3
<1>5. ASSUME NEW u \in updates, LandUpdate(u[1], u[2], u[3])
      PROVE  Still
  <2>1. UNCHANGED <<disk, clock, notices, server, scan>>
    BY <1>5 DEF LandUpdate
  <2>2. InDoc(u[2]).from = "text" /\ InDoc(u[2]) # NoEntry
    BY NoEntryIsNone DEF InDoc, TypeOK, Snapshots
  <2>3. \A f \in Files : entries'[f] = entries[f] \/ entries'[f] = InDoc(u[2])
    BY <1>0, <1>5 DEF LandUpdate
  <2> QED
    BY <1>0, <2>1, <2>2, <2>3 DEF Elsewhere, Dropped, HoldsText
<1>6. CASE EnsureScanned \/ RestartScan
  <2>1. scan' = scan \/ \E s \in Scanners : Claim(s)
    BY <1>6, StartClaims DEF EnsureScanned, RestartScan, Scanners
  <2>2. UNCHANGED <<disk, entries, clock, notices>> /\ server.pc \notin {"watch", "mark"}
    BY <1>6 DEF EnsureScanned, RestartScan
  <2>3. clock <= clock' /\ \A f \in Files : Elsewhere(f)
    BY <1>0, <1>1, <2>2
  <2> QED
    BY <2>1, <2>3
<1>7. CASE \/ MarkPending
           \/ \E c \in server.todo : ReloadTypeFile(c) \/ SkipOpen(c) \/ Changed(c)
  <2>1. UNCHANGED <<disk, entries, clock, notices, scan>>
    BY <1>7 DEF MarkPending, ReloadTypeFile, SkipOpen, Changed
  <2>2. server'.pc \in {"watch", "mark"} /\ server.affected \subseteq server'.affected
    <3>1. CASE MarkPending
      BY <1>0, <3>1 DEF MarkPending, ServerRecords
    <3>2. ASSUME NEW c \in server.todo, ReloadTypeFile(c)
          PROVE  server'.pc \in {"watch", "mark"} /\ server.affected \subseteq server'.affected
      <4>1. PICK named \in SUBSET {TypeFile} :
              server' = [server EXCEPT !.todo = @ \ {c}, !.affected = @ \union named]
        BY <3>2 DEF ReloadTypeFile
      <4> QED
        BY <1>0, <3>2, <4>1 DEF ReloadTypeFile, ServerRecords
    <3>3. ASSUME NEW c \in server.todo, SkipOpen(c)
          PROVE  server'.pc \in {"watch", "mark"} /\ server.affected \subseteq server'.affected
      BY <1>0, <3>3 DEF SkipOpen, ServerRecords
    <3>4. ASSUME NEW c \in server.todo, Changed(c)
          PROVE  server'.pc \in {"watch", "mark"} /\ server.affected \subseteq server'.affected
      BY <1>0, <3>4 DEF Changed, ServerRecords
    <3> QED
      BY <1>7, <3>1, <3>2, <3>3, <3>4
  <2>3. clock <= clock' /\ \A f \in Files : Elsewhere(f)
    BY <1>0, <1>1, <2>1, <2>2
  <2> QED
    BY <2>1, <2>3
\* The entry of a file that is there again is dropped, and Dropped says what follows.
<1>8. ASSUME NEW c \in server.todo, Deleted(c)
      PROVE  Still
  <2>1. /\ UNCHANGED <<disk, clock, notices, scan>> /\ server.pc = "watch"
        /\ c.file \in Files /\ c.kind = "deleted"
        /\ entries' = [entries EXCEPT ![c.file] = NoEntry]
        /\ server' = [server EXCEPT !.todo = @ \ {c},
                                    !.affected = @ \union ({c.file} \cap graph)]
    BY <1>8 DEF Deleted
  <2>2. server'.pc = "watch" /\ server'.affected = server.affected \union ({c.file} \cap graph)
    BY <1>0, <2>1 DEF ServerRecords
  <2>3. \A f \in Files : Dropped(f) => (Dropped(f))'
    BY <2>1, <2>2 DEF Dropped
  <2>4. CASE entries[c.file] = NoEntry
    BY <1>0, <2>1, <2>3, <2>4 DEF Elsewhere
  <2>5. CASE entries[c.file] # NoEntry
    <3>1. c.file \in graph
      BY <2>1, <2>5 DEF DiscoveryInv
    <3>2. disk[c.file] = 0 \/ \E d \in notices : d.file = c.file
      BY <2>1 DEF LateDeletions
    <3>3. (Dropped(c.file))'
      BY <2>1, <2>2, <3>1, <3>2 DEF Dropped
    <3> QED
      BY <1>0, <2>1, <2>3, <3>3 DEF Elsewhere
  <2> QED
    BY <2>4, <2>5
<1>9. CASE Initialize \/ ResetScan
  <2>1. CASE generation' = generation + 1 /\ scan' = scan
    BY <2>1 DEF Live, ShouldCommit, LiveInv, TypeOK, ScanRecords
  <2>2. CASE ~(generation' = generation + 1 /\ scan' = scan)
    <3>1. /\ UNCHANGED <<disk, entries, clock, notices, scan>>
          /\ server.affected = {} /\ server' = Idle
      BY <1>9, <2>2 DEF Initialize, ResetScan
    <3> QED
      BY <1>0, <3>1 DEF Elsewhere, Dropped
  <2> QED
    BY <2>1, <2>2
<1>10. CASE InvalidateDependents
  <2>1. server.pc = "invalidate" /\ UNCHANGED <<scan, generation>>
    BY <1>10 DEF InvalidateDependents
  <2> QED
    BY <2>1 DEF TypesInv, LiveInv, OneLiveScan, Live, ShouldCommit
<1> QED
  BY <1>2, <1>3, <1>4, <1>5, <1>6, <1>7, <1>8, <1>9, <1>10 DEF Environment, Handler

LEMMA QuietServing ==
  ASSUME TypeOK, TypeOK', LiveInv, DiscoveryInv, TypesInv, ServedInv,
         \/ Environment \/ Editor \/ Handler
         \/ \E u \in updates : LandUpdate(u[1], u[2], u[3]),
         NEW s \in Scanners, (Live(s))'
  PROVE  (Serving(s))'
<1>1. PICK t \in Scanners : /\ clock <= clock' /\ \A f \in Files : Elsewhere(f)
                            /\ scan' = scan \/ Claim(t)
  BY QuietElsewhere DEF ServedInv
<1>2. CASE Claim(t) /\ t = s
  <2>1. [NoScan EXCEPT !.pc = "capture", !.generation = generation].pc = "capture"
    BY DEF NoScan
  <2>2. scan'[s].pc = "capture"
    BY <1>2, <2>1 DEF Claim, TypeOK
  <2> QED
    BY <2>2 DEF Serving
<1>3. CASE ~(Claim(t) /\ t = s)
  <2>1. scan'[s] = scan[s]
    BY <1>1, <1>3 DEF Claim, TypeOK
  <2>2. CASE generation' = generation
    <3>1. Serving(s)
      BY <2>1, <2>2 DEF Live, ShouldCommit, ServedInv
    <3> QED
      BY <1>1, <2>1, <3>1, StillServing
  <2>3. CASE generation' # generation
    <3>1. scan' = scan /\ generation' = generation + 1
      BY <2>3 DEF Environment, WriteFile, DeleteFile, WriteTypes, Editor, DidOpen, DidChange,
                  DidClose, StartScan, StartScanIfNeeded, Claim, Request, WatchBegin, Handler,
                  Initialize, EnsureScanned, ReloadTypeFile, SkipOpen, Deleted, Changed,
                  MarkPending, ResetScan, InvalidateDependents, RestartScan, LandUpdate, flags
    <3> QED
      BY <3>1 DEF Live, ShouldCommit, LiveInv, TypeOK, ScanRecords
  <2> QED
    BY <2>2, <2>3
<1> QED
  BY <1>2, <1>3

\* A scan that moves on its own serves as its new locals say.
LEMMA LocalServing ==
  ASSUME TypeOK, NEW s \in Scanners, NEW q, Locally(s, q), q.since <= clock,
         \A w \in q.results : w.file \in q.pend => q.since = scan[s].since /\ WillServe(s, w),
         \A f \in q.pend :
           \/ /\ q.pc = "collect" \/ f \in q.work \union q.chunk
              /\ entries[f] = q.cached[f] \/ HoldsText(f) \/ Dropped(f)
           \/ \E w \in q.results : w.file = f
           \/ Served(f, q.since)
  PROVE  (Serving(s))'
<1>1. scan'[s] = q /\ UNCHANGED <<disk, clock, notices, entries, server>>
  BY DEF Locally, TypeOK, world, workspace
<1>2. \A f : /\ HoldsText(f) => (HoldsText(f))'
             /\ Dropped(f) => (Dropped(f))'
             /\ Served(f, q.since) => (Served(f, q.since))'
  BY <1>1 DEF HoldsText, Dropped, Served
<1>3. \A w \in q.results : w.file \in q.pend => (WillServe(s, w))'
  BY <1>1, <1>2 DEF WillServe
<1> QED
  BY <1>1, <1>2, <1>3 DEF Serving

\* What a read yields serves its file, and when it yields nothing the file is served.
LEMMA ReadServing ==
  ASSUME TypeOK, NEW s \in Scanners, NEW f \in Files,
         entries[f] = scan[s].cached[f] \/ Served(f, scan[s].since)
  PROVE  /\ \A q \in ReadResult(scan[s], f) : q.file = f /\ WillServe(s, q)
         /\ ReadResult(scan[s], f) = {} => Served(f, scan[s].since)
<1> DEFINE r == scan[s]
<1> DEFINE now == IF r.open[f] # NoDoc THEN InDoc(r.open[f]) ELSE OnDisk(disk[f])
<1> DEFINE cold == CachedFiles(r) = {} /\ OpenFiles(r) = {}
<1>1. r \in ScanRecords /\ disk[f] \in Nat /\ entries[f] \in Snapshots \union {NoEntry}
  BY DEF TypeOK
<1>2. now \in Snapshots /\ now # NoEntry
  BY <1>1, NoEntryIsNone DEF InDoc, OnDisk, Snapshots, ScanRecords
<1>3. /\ r.open[f] # NoDoc => now.from = "text"
      /\ r.open[f] = NoDoc => now = OnDisk(disk[f])
  BY DEF InDoc
<1>4. ReadResult(r, f) =
        IF r.open[f] = NoDoc /\ (disk[f] = 0 \/ (~cold /\ r.cached[f] = now)) THEN {}
        ELSE IF ~cold /\ r.cached[f] = now THEN {RefreshStamp(f, now)}
        ELSE {Analyzed(f, now)}
  BY DEF ReadResult
<1> HIDE DEF now, cold
<1>5. CASE r.open[f] = NoDoc /\ (disk[f] = 0 \/ (~cold /\ r.cached[f] = now))
  BY <1>3, <1>4, <1>5 DEF Served
<1>6. CASE ~(r.open[f] = NoDoc /\ (disk[f] = 0 \/ (~cold /\ r.cached[f] = now)))
  <2>1. CASE ~cold /\ r.cached[f] = now
    <3>1. ReadResult(r, f) = {RefreshStamp(f, now)} /\ now.from = "text"
      BY <1>3, <1>4, <1>6, <2>1
    <3>2. Served(f, r.since)
      BY <1>2, <2>1, <3>1 DEF HoldsText, Served
    <3> QED
      BY <3>1, <3>2 DEF RefreshStamp, WillServe
  <2>2. CASE ~(~cold /\ r.cached[f] = now)
    <3>1. ReadResult(r, f) = {Analyzed(f, now)}
      BY <1>4, <1>6, <2>2
    <3>2. /\ (Analyzed(f, now)).file = f /\ (Analyzed(f, now)).kind = "analyzed"
          /\ (Analyzed(f, now)).snapshot = now
      BY DEF Analyzed
    <3> QED
      BY <1>3, <3>1, <3>2 DEF WillServe
  <2> QED
    BY <2>1, <2>2
<1> QED
  BY <1>5, <1>6

\* The scans.
LEMMA ScanStepServing ==
  ASSUME TypeOK, TypeOK', LiveInv, DiscoveryInv, Requesting, ForwardInv, ServedInv,
         NEW s \in Scanners, Scan(s) \/ Panic(s), NEW u \in Scanners, (Live(u))'
  PROVE  (Serving(u))'
<1> USE DEF world, workspace, flags, types
<1> DEFINE r == scan[s]
<1>0. /\ r \in ScanRecords /\ server \in ServerRecords /\ clock \in Nat
      /\ disk \in [Files -> Nat] /\ entries \in [Files -> Snapshots \union {NoEntry}]
      /\ r.pend \subseteq Files /\ r.results \subseteq Results
      /\ \A q : scan' = [scan EXCEPT ![s] = q] =>
           \A v \in Scanners : scan'[v] = IF v = s THEN q ELSE scan[v]
  BY DEF TypeOK, ScanRecords
<1>1. /\ UNCHANGED <<disk, clock, notices, generation>>
      /\ entries' = entries \/ (ShouldCommit(s) /\ r.pc = "commit")
      /\ r.pc # "none"
      /\ \E q : scan' = [scan EXCEPT ![s] = q]
  BY DEF Scan, Capture, Collect, NextChunk, ReadFile, CommitResult, Finish, Accept, Panic, Locally
<1>2. \A f \in Files : Dropped(f) => (Dropped(f))'
  <2>1. server' = server \/ s = Srv
    BY DEF Scan, Capture, Collect, NextChunk, ReadFile, CommitResult, Finish, Accept, Panic, Locally
  <2>2. s = Srv => server.pc = "scanning"
    BY <1>1 DEF Requesting
  <2> QED
    BY <1>1, <2>1, <2>2 DEF Dropped
<1>3. CASE u # s
  <2>1. scan'[u] = scan[u] /\ Live(u)
    BY <1>0, <1>1, <1>3 DEF Live, ShouldCommit
  <2>2. entries' = entries
    BY <1>1, <1>3, <2>1 DEF LiveInv, OneLiveScan, Live
  <2>3. \A f \in Files : Elsewhere(f)
    BY <1>1, <1>2, <2>2 DEF Elsewhere
  <2>4. clock <= clock'
    BY <1>0, <1>1
  <2> QED
    BY <2>1, <2>3, <2>4, StillServing DEF ServedInv
<1>4. CASE u = s /\ Capture(s)
  <2> DEFINE q == [r EXCEPT !.pc = "collect", !.env = env, !.force_full = ~discovered,
                            !.cached = entries, !.open = docs, !.pend = pending,
                            !.since = clock]
  <2>1. Locally(s, q) /\ r.pc = "capture"
    BY <1>4 DEF Capture
  <2>2. /\ q.pc = "collect" /\ q.cached = entries /\ q.pend = pending /\ q.since = clock
        /\ q.results = r.results /\ q.generation = r.generation
    BY <1>0 DEF ScanRecords
  <2> HIDE DEF q
  <2>3. Live(s)
    BY <1>0, <1>1, <1>4, <2>1, <2>2 DEF Live, ShouldCommit, Locally
  <2>4. q.results = {}
    BY <2>1, <2>2, <2>3 DEF DiscoveryInv, Walked
  <2> QED
    BY <1>0, <1>4, <2>1, <2>2, <2>4, LocalServing
\* From here on the scan has been live, and has been serving, before the step.
<1>5. ASSUME u = s, NEW q, scan' = [scan EXCEPT ![s] = q], q.generation = r.generation
      PROVE  Live(s) /\ Serving(s) /\ Fresh(s) /\ Walked(s) /\ ShouldCommit(s)
  <2>1. Live(s)
    BY <1>0, <1>1, <1>5 DEF Live, ShouldCommit
  <2> QED
    BY <2>1 DEF ServedInv, ForwardInv, DiscoveryInv, Live
<1>6. CASE u = s /\ Collect(s)
  <2> DEFINE q == [r EXCEPT !.pc = "walk", !.work = ScanFiles(r)]
  <2>1. r.pc = "collect" /\ (Locally(s, q) \/ Locally(s, Returned(r)))
    BY <1>6 DEF Collect
  <2>2. /\ q.pc = "walk" /\ q.cached = r.cached /\ q.pend = r.pend /\ q.since = r.since
        /\ q.results = r.results /\ q.generation = r.generation /\ q.work = ScanFiles(r)
        /\ (Returned(r)).pc = "return" /\ (Returned(r)).generation = r.generation
    BY <1>0 DEF ScanRecords, Returned, NoScan
  <2> HIDE DEF q
  <2>3. CASE Locally(s, Returned(r))
    <3>1. scan'[s].pc = "return"
      BY <2>2, <2>3 DEF Locally, TypeOK
    <3> QED
      BY <1>6, <3>1 DEF Serving
  <2>4. CASE Locally(s, q)
    <3>1. Serving(s)
      BY <1>5, <1>6, <2>2, <2>4 DEF Locally
    <3>2. r.pend \subseteq ScanFiles(r)
      BY <1>0 DEF ScanFiles
    <3> QED
      BY <1>6, <2>1, <2>2, <2>4, <3>1, <3>2, LocalServing DEF Serving
  <2> QED
    BY <2>1, <2>3, <2>4
<1>7. CASE u = s /\ NextChunk(s)
  <2>1. PICK chunk \in SUBSET r.work :
          Locally(s, IF ShouldCommit(s)
                     THEN [r EXCEPT !.pc = "read", !.work = @ \ chunk, !.chunk = chunk]
                     ELSE [r EXCEPT !.work = {}])
    BY <1>7 DEF NextChunk
  <2> DEFINE q == [r EXCEPT !.pc = "read", !.work = @ \ chunk, !.chunk = chunk]
  <2>2. /\ q.pc = "read" /\ q.cached = r.cached /\ q.pend = r.pend /\ q.since = r.since
        /\ q.results = r.results /\ q.generation = r.generation
        /\ q.work \union q.chunk = r.work \union chunk
    BY <1>0 DEF ScanRecords
  <2>3. [r EXCEPT !.work = {}].generation = r.generation
    BY <1>0 DEF ScanRecords
  <2>4. ShouldCommit(s)
    <3>1. CASE ~ShouldCommit(s)
      BY <1>5, <1>7, <2>1, <2>3, <3>1 DEF Locally
    <3> QED
      BY <3>1
  <2>5. Locally(s, q) /\ r.pc = "walk"
    BY <1>7, <2>1, <2>4 DEF NextChunk
  <2> HIDE DEF q
  <2>6. Serving(s) /\ r.chunk = {}
    BY <1>5, <1>7, <2>2, <2>5 DEF Locally, Walked
  <2>7. r.work \union r.chunk \subseteq q.work \union q.chunk
    BY <2>2, <2>6
  <2> QED
    BY <1>7, <2>2, <2>5, <2>6, <2>7, LocalServing DEF Serving
<1>8. ASSUME u = s, NEW f \in r.chunk, ReadFile(s, f)
      PROVE  (Serving(u))'
  <2> DEFINE q == Settle([r EXCEPT !.chunk = @ \ {f}, !.results = @ \union ReadResult(r, f)])
  <2>1. Locally(s, q) /\ r.pc = "read" /\ f \in Files
    BY <1>0, <1>8 DEF ReadFile, ScanRecords
  <2>2. /\ q.pc \in {"read", "commit", "walk"} /\ q.cached = r.cached /\ q.pend = r.pend
        /\ q.since = r.since /\ q.generation = r.generation /\ q.work = r.work
        /\ q.chunk = r.chunk \ {f} /\ q.results = r.results \union ReadResult(r, f)
    BY <1>0 DEF Settle, ScanRecords
  <2> HIDE DEF q
  <2>3. Serving(s) /\ Fresh(s)
    BY <1>5, <1>8, <2>1, <2>2 DEF Locally
  <2>4. \A w \in r.results : w.file # f
    BY <1>8, <2>3 DEF Fresh
  <2>5. \/ f \notin r.pend
        \/ entries[f] = r.cached[f] \/ Served(f, r.since)
    BY <2>1, <2>3, <2>4 DEF Serving, Served
  <2>6. f \in r.pend => /\ \A w \in ReadResult(r, f) : w.file = f /\ WillServe(s, w)
                        /\ ReadResult(r, f) = {} => Served(f, r.since)
    BY <2>1, <2>5, ReadServing
  <2>7. \A w \in ReadResult(r, f) : w.file = f
    BY <2>1, ReadForward
  <2>8. \A w \in q.results : w.file \in q.pend => WillServe(s, w)
    BY <2>1, <2>2, <2>3, <2>6, <2>7 DEF Serving
  <2>9. ASSUME NEW g \in q.pend
        PROVE  \/ /\ q.pc = "collect" \/ g \in q.work \union q.chunk
                  /\ entries[g] = q.cached[g] \/ HoldsText(g) \/ Dropped(g)
               \/ \E w \in q.results : w.file = g
               \/ Served(g, q.since)
    <3>1. CASE g = f
      <4>1. CASE ReadResult(r, f) = {}
        BY <2>2, <2>6, <3>1, <4>1
      <4>2. CASE ReadResult(r, f) # {}
        BY <2>2, <2>7, <3>1, <4>2
      <4> QED
        BY <4>1, <4>2
    <3>2. CASE g # f
      BY <2>1, <2>2, <2>3, <3>2 DEF Serving
    <3> QED
      BY <3>1, <3>2
  <2> QED
    BY <1>8, <2>1, <2>2, <2>3, <2>8, <2>9, LocalServing DEF Serving
\* A committed result serves its file; no other result was of that file.
<1>9. ASSUME u = s, NEW w \in r.results, CommitResult(s, w)
      PROVE  (Serving(u))'
  <2> DEFINE q == Settle([r EXCEPT !.results = @ \ {w}])
  <2>0. PICK since : since = r.since
    OBVIOUS
  <2>1. /\ scan' = [scan EXCEPT ![s] = q] /\ scan'[s] = q /\ r.pc = "commit"
        /\ w.file \in Files /\ w.snapshot \in Snapshots
        /\ disk' = disk /\ clock' = clock /\ notices' = notices /\ server' = server
    BY <1>0, <1>9 DEF CommitResult, Results
  <2>2. /\ q.pc \in {"read", "commit", "walk"} /\ q.cached = r.cached /\ q.pend = r.pend
        /\ q.since = r.since /\ q.generation = r.generation /\ q.work = r.work
        /\ q.chunk = r.chunk /\ q.results = r.results \ {w}
    BY <1>0 DEF Settle, ScanRecords
  <2> HIDE DEF q
  <2>3. Serving(s) /\ Fresh(s) /\ ShouldCommit(s)
    BY <1>5, <1>9, <2>1, <2>2
  <2>4. /\ r.since <= clock
        /\ \A v \in r.results : v.file \in r.pend => WillServe(s, v)
        /\ \A g \in r.pend :
             \/ /\ g \in r.work \union r.chunk
                /\ entries[g] = r.cached[g] \/ HoldsText(g) \/ Dropped(g)
             \/ \E v \in r.results : v.file = g
             \/ Served(g, r.since)
    BY <2>1, <2>3 DEF Serving
  <2>5. entries' = IF w.kind = "analyzed" THEN [entries EXCEPT ![w.file] = w.snapshot] ELSE entries
    BY <1>9, <2>3 DEF CommitResult
  <2>6. \A g \in Files : g # w.file => entries'[g] = entries[g]
    BY <1>0, <2>1, <2>5
  <2>7. \A g \in Files : g # w.file =>
          /\ HoldsText(g) => (HoldsText(g))'
          /\ Dropped(g) => (Dropped(g))'
          /\ Served(g, since) => (Served(g, since))'
    BY <2>1, <2>6 DEF HoldsText, Dropped, Served
  <2>8. w.file \in r.pend => (Served(w.file, since))'
    <3>1. CASE w.kind = "analyzed"
      <4>1. entries'[w.file] = w.snapshot /\ w.snapshot # NoEntry
        BY <1>0, <2>1, <2>5, <3>1, NoEntryIsNone
      <4> QED
        BY <2>0, <2>1, <2>4, <3>1, <4>1 DEF WillServe, Served, HoldsText
    <3>2. CASE w.kind # "analyzed"
      <4>1. entries' = entries /\ w.kind = "refresh"
        BY <1>0, <2>5, <3>2 DEF Results
      <4> QED
        BY <2>0, <2>1, <2>4, <4>1 DEF WillServe, Served, HoldsText, Dropped
    <3> QED
      BY <3>1, <3>2
  <2>9. ASSUME NEW v \in q.results, v.file \in q.pend
        PROVE  (WillServe(s, v))'
    <3>1. v.file # w.file /\ v.file \in Files /\ WillServe(s, v)
      BY <1>0, <2>2, <2>3, <2>4, <2>9 DEF Fresh
    <3> QED
      BY <2>0, <2>1, <2>2, <2>7, <3>1 DEF WillServe
  <2>10. ASSUME NEW g \in q.pend
         PROVE  \/ /\ g \in q.work \union q.chunk
                   /\ entries'[g] = q.cached[g] \/ (HoldsText(g))' \/ (Dropped(g))'
                \/ \E v \in q.results : v.file = g
                \/ (Served(g, since))'
    <3>1. CASE g = w.file
      BY <2>2, <2>8, <3>1
    <3>2. CASE g # w.file
      BY <1>0, <2>0, <2>2, <2>4, <2>6, <2>7, <3>2
    <3> QED
      BY <3>1, <3>2
  <2> QED
    BY <1>9, <2>0, <2>1, <2>2, <2>4, <2>9, <2>10 DEF Serving
<1>10. CASE u = s /\ (Finish(s) \/ Accept(s) \/ Panic(s))
  <2>1. scan' = [scan EXCEPT ![s] = Returned(r)] \/ scan' = [scan EXCEPT ![s] = NoScan]
    BY <1>10 DEF Finish, Accept, Panic
  <2>2. (Returned(r)).pc = "return" /\ NoScan.pc = "none"
    BY DEF Returned, NoScan
  <2> QED
    BY <1>0, <1>10, <2>1, <2>2 DEF Serving
<1> QED
  BY <1>3, <1>4, <1>6, <1>7, <1>8, <1>9, <1>10 DEF Scan

\* Only the end of its walk takes a scan from there to its return.
LEMMA FinishEnds ==
  ASSUME TypeOK, [Next]_vars, NEW s \in Scanners, scan[s].pc = "walk", scan'[s].pc = "return"
  PROVE  scan[s].work = {}
<1> USE DEF world, workspace, flags, types
<1>1. \/ scan' = scan
      \/ \E t \in Scanners : Claim(t)
      \/ \E t \in Scanners : Scan(t) \/ Panic(t)
  BY StartClaims
  DEF Next, vars, Environment, WriteFile, DeleteFile, WriteTypes, Editor, DidOpen, DidChange,
      DidClose, StartScan, Request, WatchBegin, Handler, Initialize, EnsureScanned,
      ReloadTypeFile, SkipOpen, Deleted, Changed, MarkPending, ResetScan,
      InvalidateDependents, RestartScan, LandUpdate, Scanners
<1>2. ASSUME NEW t \in Scanners, Claim(t)
      PROVE  FALSE
  <2>1. [NoScan EXCEPT !.pc = "capture", !.generation = generation].pc = "capture"
    BY DEF NoScan
  <2> QED
    BY <1>2, <2>1 DEF Claim, TypeOK
<1>3. ASSUME NEW t \in Scanners, Scan(t) \/ Panic(t)
      PROVE  scan[s].work = {}
  <2>1. CASE t # s
    <3>1. \E q : scan' = [scan EXCEPT ![t] = q]
      BY <1>3 DEF Scan, Capture, Collect, NextChunk, ReadFile, CommitResult, Finish, Accept,
                  Panic, Locally
    <3> QED
      BY <2>1, <3>1 DEF TypeOK
  <2>2. CASE t = s /\ NextChunk(t)
    <3>1. scan[s] \in ScanRecords
      BY DEF TypeOK
    <3>2. \A chunk :
            /\ [scan[s] EXCEPT !.pc = "read", !.work = @ \ chunk, !.chunk = chunk].pc = "read"
            /\ [scan[s] EXCEPT !.work = {}].pc = scan[s].pc
      BY <3>1 DEF ScanRecords
    <3>3. scan'[s].pc \in {"read", "walk"}
      BY <2>2, <3>2 DEF NextChunk, Locally, TypeOK
    <3> QED
      BY <3>3
  <2>3. CASE t = s /\ ~NextChunk(t)
    BY <1>3, <2>3 DEF Scan, Capture, Collect, ReadFile, CommitResult, Finish, Accept, Panic
  <2> QED
    BY <2>1, <2>2, <2>3
<1> QED
  BY <1>1, <1>2, <1>3

LEMMA ServedStep ==
  ASSUME TypeOK, TypeOK', LiveInv, DiscoveryInv, Requesting, TypesInv, ForwardInv, ServedInv,
         [Next]_vars
  PROVE  ServedInv'
<1>1. LateDeletions'
  BY LateStep DEF ServedInv
<1>2. ASSUME NEW s \in Scanners, (Live(s))'
      PROVE  (Serving(s))'
  <2>1. CASE UNCHANGED vars
    <3>1. /\ \A f \in Files : Elsewhere(f)
          /\ clock <= clock' /\ scan'[s] = scan[s]
      BY <2>1 DEF vars, Elsewhere, Dropped, TypeOK
    <3>2. Serving(s)
      BY <1>2, <2>1 DEF vars, Live, ShouldCommit, ServedInv
    <3> QED
      BY <3>1, <3>2, StillServing
  <2> QED
    BY <1>2, <2>1, QuietServing, ScanStepServing DEF Next
<1> QED
  BY <1>1, <1>2 DEF ServedInv

\* A scan that ends undisturbed has served every mark it began with, whatever was opened,
\* reloaded or deleted while it ran.
THEOREM PendingServedHolds == Spec => PendingServed
<1> DEFINE Inv == LiveInv /\ DiscoveryInv /\ Requesting /\ TypesInv /\ ForwardInv /\ ServedInv
<1>1. Init => Inv
  <2> SUFFICES ASSUME Init
               PROVE  Inv
    OBVIOUS
  <2>1. LiveInv /\ DiscoveryInv /\ Requesting /\ TypesInv /\ ForwardInv
    BY DEF Init, LiveInv, OneLiveScan, Live, NoScan, DiscoveryInv, DiscoveryComplete, Idle,
           Requesting, TypesInv, Reached, Analyses, Scanners, ForwardInv
  <2>2. notices = {} /\ server.todo = {} /\ \A s \in Scanners : ~Live(s)
    BY DEF Init, Idle, Live, NoScan
  <2> QED
    BY <2>1, <2>2 DEF ServedInv, LateDeletions
<1>2. TypeOK /\ TypeOK' /\ Inv /\ [Next]_vars => Inv'
  BY LiveStep, DiscoveryStep, RequestingStep, TypesStep, ForwardStep, ServedStep
<1>3. TypeOK /\ Inv /\ [Next]_vars =>
      [\A s \in Scanners :
         scan[s].pc = "walk" /\ scan'[s].pc = "return" /\ ShouldCommit(s)
         => \A f \in scan[s].pend :
              \/ disk[f] = 0 \/ disk[f] > scan[s].since + 1 \/ Owed(f)
              \/ /\ entries[f] # NoEntry
                 /\ entries[f].from = "text" \/ entries[f] = OnDisk(disk[f])]_vars
  <2> SUFFICES ASSUME TypeOK, Inv, [Next]_vars, NEW s \in Scanners,
                      scan[s].pc = "walk", scan'[s].pc = "return", ShouldCommit(s),
                      NEW f \in scan[s].pend
               PROVE  \/ disk[f] = 0 \/ disk[f] > scan[s].since + 1 \/ Owed(f)
                      \/ /\ entries[f] # NoEntry
                         /\ entries[f].from = "text" \/ entries[f] = OnDisk(disk[f])
    OBVIOUS
  <2>1. Serving(s) /\ Walked(s)
    BY DEF ServedInv, DiscoveryInv, Live
  <2>2. scan[s].work = {} /\ scan[s].chunk = {} /\ scan[s].results = {}
    BY <2>1, FinishEnds DEF Walked
  <2>3. Served(f, scan[s].since)
    BY <2>1, <2>2 DEF Serving
  <2>4. OnDisk(disk[f]) # NoEntry
    BY NoEntryIsNone DEF OnDisk, Snapshots, TypeOK, ScanRecords
  <2> QED
    BY <2>3, <2>4 DEF Served, HoldsText, Dropped, Owed
<1> QED
  BY <1>1, <1>2, <1>3, TypeCorrect, PTL DEF Spec, PendingServed
=============================================================================
