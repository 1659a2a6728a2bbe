--------------------------- MODULE FileStamp_proof ---------------------------
(***************************************************************************)
(* Proofs about FileStamp.  A stamp vouches for the content read after it  *)
(* because no content comes back: a snapshot or a result whose stamp is    *)
(* older than the file stays so.  The invariant therefore carries, next to *)
(* StampVouches, the same fact about the results of a scan that are not    *)
(* committed yet, and nothing is newer than the clock.  RescanRefreshes     *)
(* follows from it and from how far the scan is with each untouched file.  *)
(***************************************************************************)
EXTENDS FileStamp, TLAPS

\* What has been read under a stamp the file still has is the file's content.
ResultVouches ==
  \A f \in Files :
    ~scan.cold /\ jobs[f].pc = "done" /\ jobs[f].stamp # None /\ jobs[f].stamp = disk[f]
      => jobs[f].text = disk[f]

\* No stamp is from the future.
StampsPast ==
  \A f \in Files :
    /\ jobs[f].stamp <= clock
    /\ disk[f] <= clock
    /\ entries[f] # NoEntry => entries[f].stamp <= clock

\* Only a cold scan takes a stamp after reading, and a job starts without one.
JobShape ==
  \A f \in Files : /\ ~scan.cold => jobs[f].pc # "stat"
                   /\ jobs[f].pc = "start" => jobs[f].stamp = None

IInv == TypeOK /\ JobShape /\ StampsPast /\ ResultVouches /\ StampVouches

-----------------------------------------------------------------------------
JobRecords == [pc : {"none", "start", "stat", "read", "done"}, text : Contents, stamp : Contents]

\* A step that moves the job of a file of the scan on keeps the types.
LEMMA JobTypes ==
  ASSUME TypeOK, NEW f \in Files, NEW j \in JobRecords, Job(f, j), jobs[f].pc # "none"
  PROVE  TypeOK'
<1>1. scan.running /\ f \in scan.work
  BY DEF TypeOK
<1>2. \A g \in Files : jobs'[g] = IF g = f THEN j ELSE jobs[g]
  BY DEF Job, TypeOK
<1>3. jobs' \in [Files -> JobRecords]
  BY DEF Job, TypeOK, JobRecords
<1>4. \A g \in Files : jobs'[g].pc # "none" => scan.running /\ g \in scan.work
  BY <1>1, <1>2 DEF TypeOK
<1> QED BY <1>3, <1>4 DEF Job, world, TypeOK, JobRecords

\* Every value stays in its range.
LEMMA StepTypes == ASSUME TypeOK, [Next]_vars PROVE TypeOK'
<1> USE FileStampConstants DEF TypeOK, Contents, Entries, None
<1>1. CASE UNCHANGED vars
  BY <1>1 DEF vars
<1>2. CASE Begin
  <2>1. ScanFiles \in SUBSET Files
    BY DEF ScanFiles, OnDisk, Open, Known
  <2> QED BY <1>2, <2>1 DEF Begin, NoJob
<1>3. CASE Finish
  BY <1>3 DEF Finish, Idle, NoJob, world
<1>4. ASSUME NEW a \in analyses, Analyse(a) PROVE TypeOK'
  <2>1. a \in Files \X (0 .. MaxClock) /\ a[1] \in Files /\ a[2] \in 0 .. MaxClock
    OBVIOUS
  <2>2. entries' \in [Files -> Entries \union {NoEntry}]
    BY <1>4, <2>1 DEF Analyse
  <2>3. by_cold' \in SUBSET Files /\ late' \in SUBSET Files /\ analyses' \in SUBSET (Files \X Contents)
    BY <1>4, <2>1 DEF Analyse
  <2> QED BY <1>4, <2>2, <2>3 DEF Analyse
<1>5. ASSUME NEW f \in Files, Write(f) PROVE TypeOK'
  BY <1>5 DEF Write, Fresh
<1>6. ASSUME NEW f \in Files, Delete(f) PROVE TypeOK'
  BY <1>6 DEF Delete, Fresh
<1>7. ASSUME NEW f \in Files, EditDoc(f) PROVE TypeOK'
  BY <1>7 DEF EditDoc, Fresh
<1>8. ASSUME NEW f \in Files, CloseDoc(f) PROVE TypeOK'
  BY <1>8 DEF CloseDoc, Fresh
<1>9. ASSUME NEW f \in Files, ColdRead(f) \/ ColdStat(f) \/ WarmStat(f) \/ WarmRead(f)
      PROVE TypeOK'
  <2>1. PICK j \in JobRecords : Job(f, j)
    <3>1. NoJob \in JobRecords
      BY DEF NoJob, JobRecords
    <3>2. \A pc \in {"stat", "read", "done"} :
            /\ [jobs[f] EXCEPT !.pc = pc, !.text = disk[f]] \in JobRecords
            /\ [jobs[f] EXCEPT !.pc = pc, !.stamp = disk[f]] \in JobRecords
      BY DEF JobRecords
    <3> QED BY <1>9, <3>1, <3>2 DEF ColdRead, ColdStat, WarmStat, WarmRead
  <2>2. jobs[f].pc # "none"
    BY <1>9 DEF ColdRead, ColdStat, WarmStat, WarmRead
  <2> QED BY <2>1, <2>2, JobTypes
<1>11. ASSUME NEW f \in Files, TakeDoc(f) PROVE TypeOK'
  <2>1. PICK j \in JobRecords : Job(f, j)
    <3>1. NoJob \in JobRecords
      BY DEF NoJob, JobRecords
    <3>2. [jobs[f] EXCEPT !.pc = "done", !.text = scan.open[f]] \in JobRecords
      BY DEF JobRecords
    <3> QED BY <1>11, <3>1, <3>2 DEF TakeDoc
  <2>2. jobs[f].pc # "none"
    BY <1>11 DEF TakeDoc
  <2> QED BY <2>1, <2>2, JobTypes
<1>12. ASSUME NEW f \in Files, Commit(f) PROVE TypeOK'
  <2>1. entries'[f] \in Entries /\ entries' \in [Files -> Entries \union {NoEntry}]
    BY <1>12 DEF Commit
  <2>2. by_cold' \in SUBSET Files
    BY <1>12 DEF Commit
  <2>3. /\ jobs' \in [Files -> [pc : {"none", "start", "stat", "read", "done"},
                               text : Contents, stamp : Contents]]
        /\ \A g \in Files : jobs'[g].pc # "none" => jobs[g].pc # "none"
    BY <1>12 DEF Commit, NoJob
  <2> QED BY <1>12, <2>1, <2>2, <2>3 DEF Commit, world
<1> QED BY <1>1, <1>2, <1>3, <1>4, <1>5, <1>6, <1>7, <1>8, <1>9, <1>11, <1>12
   DEF Next

LEMMA InitTypes == Init => TypeOK
<1> SUFFICES ASSUME Init PROVE TypeOK
  OBVIOUS
<1> USE DEF Init, Contents, None
<1>1. 0 \in Contents /\ 1 \in Contents
  BY FileStampConstants
<1>2. /\ disk \in [Files -> Contents] /\ docs \in [Files -> Contents]
      /\ clock \in Contents /\ written \in [Files -> Contents]
  BY <1>1
<1>3. scan \in [running : BOOLEAN, cold : BOOLEAN, work : SUBSET Files, since : Contents,
                cached : [Files -> Entries \union {NoEntry}], open : [Files -> Contents]]
  BY <1>1 DEF Idle
<1>4. /\ jobs \in [Files -> [pc : {"none", "start", "stat", "read", "done"},
                              text : Contents, stamp : Contents]]
      /\ \A f \in Files : jobs[f].pc = "none"
  BY <1>1 DEF NoJob
<1> QED BY <1>2, <1>3, <1>4 DEF TypeOK

\* Type correctness of the snapshots, the scan and its results.
THEOREM StampTypeCorrect == Spec => []TypeOK
<1>1. Init => TypeOK
  BY InitTypes
<1>2. TypeOK /\ [Next]_vars => TypeOK'
  BY StepTypes
<1> QED BY <1>1, <1>2, PTL DEF Spec

-----------------------------------------------------------------------------
\* The invariant survives a step that brings a new content to f's file or document: the
\* content is newer than every stamp.
LEMMA FreshKeeps ==
  ASSUME IInv, NEW f \in Files, Fresh(f),
         disk' \in {disk, [disk EXCEPT ![f] = clock + 1], [disk EXCEPT ![f] = None]},
         UNCHANGED <<entries, by_cold, scan, jobs>>
  PROVE  (JobShape /\ StampsPast /\ ResultVouches /\ StampVouches)'
<1> USE DEF IInv, TypeOK, Contents, Entries, None
<1>1. clock' = clock + 1 /\ clock \in Nat
  BY FileStampConstants DEF Fresh
<1>2. \A g \in Files : disk'[g] \in {disk[g], clock + 1, 0}
  OBVIOUS
<1>3. StampsPast'
  BY <1>1, <1>2 DEF StampsPast
<1>4. ResultVouches'
  BY <1>1, <1>2 DEF ResultVouches, StampsPast
<1>5. StampVouches'
  BY <1>1, <1>2 DEF StampVouches, StampsPast
<1> QED BY <1>3, <1>4, <1>5 DEF JobShape

\* The invariant survives a step that only moves f's job on.
LEMMA JobKeeps ==
  ASSUME IInv, NEW f \in Files, NEW j, Job(f, j), j.stamp \in {None, disk[f], jobs[f].stamp},
         j.pc = "start" => j.stamp = None, j.pc = "stat" => scan.cold,
         ~scan.cold /\ j.pc = "done" /\ j.stamp # None => j.text = disk[f]
  PROVE  (JobShape /\ StampsPast /\ ResultVouches /\ StampVouches)'
<1> USE DEF IInv, TypeOK, Contents, Entries, None, Job, world
<1>1. \A g \in Files : jobs'[g] = IF g = f THEN j ELSE jobs[g]
  OBVIOUS
<1>2. StampsPast'
  BY <1>1, FileStampConstants DEF StampsPast
<1>3. ResultVouches'
  BY <1>1 DEF ResultVouches
<1>4. StampVouches'
  BY DEF StampVouches
<1>5. JobShape'
  BY <1>1 DEF JobShape
<1> QED BY <1>2, <1>3, <1>4, <1>5

\* Every step keeps the invariant.
LEMMA StepVouches == ASSUME IInv, [Next]_vars PROVE IInv'
<1> USE DEF None
<1>0. TypeOK'
  BY StepTypes DEF IInv
<1> SUFFICES (JobShape /\ StampsPast /\ ResultVouches /\ StampVouches)'
  BY <1>0 DEF IInv
<1> DEFINE Goal == (JobShape /\ StampsPast /\ ResultVouches /\ StampVouches)'
<1>1. CASE UNCHANGED vars
  BY <1>1 DEF vars, IInv, JobShape, StampsPast, ResultVouches, StampVouches
<1>2. CASE Begin
  <2>1. \A f \in Files : jobs'[f].pc \in {"start", "none"} /\ jobs'[f].stamp = 0
    BY <1>2 DEF Begin, NoJob
  <2>2. UNCHANGED <<disk, clock, entries, by_cold>> /\ \A f \in Files : disk[f] >= 0 /\ clock >= 0
    BY <1>2, FileStampConstants DEF Begin, IInv, TypeOK, Contents
  <2>3. StampsPast'
    BY <2>1, <2>2 DEF StampsPast, IInv
  <2>4. ResultVouches'
    BY <2>1 DEF ResultVouches
  <2>5. StampVouches'
    BY <2>2 DEF StampVouches, IInv
  <2> QED BY <2>1, <2>3, <2>4, <2>5 DEF JobShape
<1>3. CASE Finish
  <2>1. /\ UNCHANGED <<disk, clock, entries, by_cold, jobs>>
        /\ \A f \in Files : jobs[f].pc = "none"
    BY <1>3 DEF Finish, world, NoJob
  <2> QED BY <2>1 DEF IInv, JobShape, StampsPast, ResultVouches, StampVouches
<1>4. ASSUME NEW a \in analyses, Analyse(a) PROVE Goal
  <2>1. a[1] \in Files /\ UNCHANGED <<disk, clock, jobs, scan>>
    BY <1>4 DEF Analyse, IInv, TypeOK
  <2>2. \/ /\ entries' = [entries EXCEPT ![a[1]] = [text |-> a[2], stamp |-> None]]
           /\ by_cold' = by_cold \ {a[1]}
        \/ UNCHANGED <<entries, by_cold>>
    BY <1>4 DEF Analyse
  <2>3. \A f \in Files :
          \/ entries'[f].stamp = 0
          \/ entries'[f] = entries[f] /\ (f \in by_cold' <=> f \in by_cold)
    BY <2>1, <2>2 DEF IInv, TypeOK
  <2>4. clock \in Nat
    BY FileStampConstants DEF IInv, TypeOK, Contents
  <2>5. StampsPast'
    BY <2>1, <2>3, <2>4 DEF IInv, StampsPast
  <2>6. ResultVouches'
    BY <2>1 DEF IInv, ResultVouches
  <2>7. StampVouches'
    BY <2>1, <2>3 DEF IInv, StampVouches
  <2> QED BY <2>1, <2>5, <2>6, <2>7 DEF IInv, JobShape
<1>5. ASSUME NEW f \in Files, Write(f) \/ Delete(f) PROVE Goal
  BY <1>5, FreshKeeps DEF Write, Delete
<1>6. ASSUME NEW f \in Files, EditDoc(f) \/ CloseDoc(f) PROVE Goal
  BY <1>6, FreshKeeps DEF EditDoc, CloseDoc
<1>7. ASSUME NEW f \in Files, ColdRead(f) PROVE Goal
  <2> DEFINE j == IF disk[f] = None THEN NoJob
                  ELSE [jobs[f] EXCEPT !.pc = "stat", !.text = disk[f]]
  <2>1. Job(f, j)
    BY <1>7 DEF ColdRead
  <2>2. j.pc \notin {"start", "done"} /\ j.stamp \in {None, jobs[f].stamp} /\ scan.cold
    BY <1>7 DEF ColdRead, NoJob, IInv, TypeOK
  <2> QED BY <2>1, <2>2, JobKeeps
<1>8. ASSUME NEW f \in Files, ColdStat(f) PROVE Goal
  <2> DEFINE j == [jobs[f] EXCEPT !.pc = "done", !.stamp = disk[f]]
  <2>1. Job(f, j)
    BY <1>8 DEF ColdStat
  <2>2. j.stamp = disk[f]
    BY DEF IInv, TypeOK
  <2>3. scan.cold
    BY <1>8 DEF ColdStat, IInv, JobShape
  <2>4. j.pc = "done"
    BY DEF IInv, TypeOK
  <2>5. j.stamp \in {None, disk[f], jobs[f].stamp}
    BY <2>2
  <2> HIDE DEF j
  <2> QED BY <2>1, <2>3, <2>4, <2>5, JobKeeps
<1>9. ASSUME NEW f \in Files, WarmStat(f) PROVE Goal
  <2> DEFINE j == IF Unchanged(f) THEN NoJob ELSE [jobs[f] EXCEPT !.pc = "read", !.stamp = disk[f]]
  <2>1. Job(f, j)
    BY <1>9 DEF WarmStat
  <2>2. j.pc \notin {"start", "stat", "done"} /\ j.stamp \in {None, disk[f]}
    BY DEF NoJob, IInv, TypeOK
  <2> QED BY <2>1, <2>2, JobKeeps
<1>10. ASSUME NEW f \in Files, WarmRead(f) PROVE Goal
  <2> DEFINE j == IF disk[f] = None THEN NoJob
                  ELSE [jobs[f] EXCEPT !.pc = "done", !.text = disk[f]]
  <2>1. Job(f, j)
    BY <1>10 DEF WarmRead
  <2>2. /\ j.pc \notin {"start", "stat"} /\ j.stamp \in {None, jobs[f].stamp}
        /\ j.pc = "done" => j.text = disk[f]
    BY DEF NoJob, IInv, TypeOK
  <2> QED BY <2>1, <2>2, JobKeeps
<1>11. ASSUME NEW f \in Files, TakeDoc(f) PROVE Goal
  <2> DEFINE j == IF scan.cached[f] = [text |-> scan.open[f], stamp |-> None]
                  THEN NoJob ELSE [jobs[f] EXCEPT !.pc = "done", !.text = scan.open[f]]
  <2>1. Job(f, j)
    BY <1>11 DEF TakeDoc
  <2>2. j.stamp = None /\ j.pc # "stat"
    BY <1>11 DEF TakeDoc, NoJob, IInv, TypeOK, JobShape
  <2> QED BY <2>1, <2>2, JobKeeps
<1>12. ASSUME NEW f \in Files, Commit(f) PROVE Goal
  <2>1. UNCHANGED <<disk, clock, scan>> /\ jobs[f].pc = "done"
    BY <1>12 DEF Commit, world
  <2>2. \A g \in Files : /\ g # f => entries'[g] = entries[g] /\ jobs'[g] = jobs[g]
                         /\ g # f => (g \in by_cold' <=> g \in by_cold)
    BY <1>12 DEF Commit, IInv, TypeOK
  <2>3. /\ entries'[f] = [text |-> jobs[f].text, stamp |-> jobs[f].stamp]
        /\ jobs'[f] = NoJob /\ (f \in by_cold' <=> scan.cold)
    BY <1>12 DEF Commit, IInv, TypeOK
  <2>4. clock \in Nat
    BY FileStampConstants DEF IInv, TypeOK, Contents
  <2>5. StampsPast'
    BY <2>1, <2>2, <2>3, <2>4 DEF IInv, StampsPast, NoJob
  <2>6. ResultVouches'
    BY <2>1, <2>2, <2>3 DEF IInv, ResultVouches, NoJob
  <2>7. StampVouches'
    BY <2>1, <2>2, <2>3 DEF IInv, StampVouches, ResultVouches
  <2>8. JobShape'
    BY <2>1, <2>2, <2>3 DEF IInv, JobShape, NoJob
  <2> QED BY <2>5, <2>6, <2>7, <2>8
<1> QED BY <1>1, <1>2, <1>3, <1>4, <1>5, <1>6, <1>7, <1>8, <1>9, <1>10, <1>11, <1>12 DEF Next

LEMMA InitVouches == Init => IInv
<1>1. Init => TypeOK
  BY InitTypes
<1>2. Init => JobShape /\ StampsPast /\ ResultVouches /\ StampVouches
  BY DEF Init, JobShape, StampsPast, ResultVouches, StampVouches, NoJob, Idle, None
<1> QED BY <1>1, <1>2 DEF IInv

\* For any number of files and any interleaving of writes with the steps of a scan, a
\* stamp taken before the read never vouches for a content the file no longer has.
THEOREM StampVouchesHolds == Spec => []StampVouches
<1>1. Init => IInv
  BY InitVouches
<1>2. IInv /\ [Next]_vars => IInv'
  BY StepVouches
<1>3. IInv => StampVouches
  BY DEF IInv
<1> QED BY <1>1, <1>2, <1>3, PTL DEF Spec

-----------------------------------------------------------------------------
(* What a scan finds out by itself. *)

\* Nothing has touched f since the scan began, neither the file nor its document.
Untouched(f) == f \in scan.work \ late /\ written[f] <= scan.since

\* How far the scan is with a closed file that nothing has touched.
Refreshing(f) ==
  /\ jobs[f].pc = "start" => entries[f] = scan.cached[f]
  /\ jobs[f].pc = "read" => jobs[f].stamp = disk[f]
  /\ jobs[f].pc \in {"stat", "done"} => jobs[f].text = disk[f]
  /\ jobs[f].pc = "none" => f \in by_cold \/ (entries[f] # NoEntry /\ entries[f].text = disk[f])

RefreshInv ==
  scan.running =>
    /\ scan.since <= clock
    /\ \A f \in Files : Untouched(f) =>
         /\ scan.open[f] = docs[f]
         /\ docs[f] = None /\ disk[f] # None => Refreshing(f)

\* A step on one file leaves the scan as it was with all others.
LEMMA OtherFiles ==
  ASSUME IInv, RefreshInv, scan' = scan, scan.running, scan.since <= clock',
         NEW f \in Files,
         \A g \in Files \ {f} :
           /\ written'[g] = written[g] /\ disk'[g] = disk[g] /\ docs'[g] = docs[g]
           /\ entries'[g] = entries[g] /\ jobs'[g] = jobs[g]
           /\ (g \in late' <=> g \in late) /\ (g \in by_cold' <=> g \in by_cold),
         (Untouched(f))' => /\ scan.open[f] = docs'[f]
                            /\ docs'[f] = None /\ disk'[f] # None => (Refreshing(f))'
  PROVE  RefreshInv'
<1>1. ASSUME NEW g \in Files, g # f, (Untouched(g))'
      PROVE  /\ scan.open[g] = docs'[g]
             /\ docs'[g] = None /\ disk'[g] # None => (Refreshing(g))'
  BY <1>1 DEF RefreshInv, Untouched, Refreshing
<1> QED BY <1>1 DEF RefreshInv

\* The job of a file moves on.
LEMMA JobRefresh ==
  ASSUME IInv, RefreshInv, NEW f \in Files, NEW j, Job(f, j), jobs[f].pc # "none",
         Untouched(f) /\ docs[f] = None /\ disk[f] # None /\ scan.open[f] = None /\ Refreshing(f) =>
           /\ j.pc # "start"
           /\ j.pc = "read" => j.stamp = disk[f]
           /\ j.pc \in {"stat", "done"} => j.text = disk[f]
           /\ j.pc = "none" => f \in by_cold \/ (entries[f] # NoEntry /\ entries[f].text = disk[f])
  PROVE  RefreshInv'
<1>1. /\ UNCHANGED <<scan, clock, written, disk, docs, entries, late, by_cold>> /\ scan.running
      /\ \A g \in Files : jobs'[g] = IF g = f THEN j ELSE jobs[g]
  BY DEF Job, world, IInv, TypeOK
<1>2. ASSUME (Untouched(f))'
      PROVE  /\ scan.open[f] = docs'[f]
             /\ docs'[f] = None /\ disk'[f] # None => (Refreshing(f))'
  BY <1>1, <1>2 DEF RefreshInv, Untouched, Refreshing
<1>3. scan.since <= clock'
  BY <1>1 DEF RefreshInv
<1> QED BY <1>1, <1>2, <1>3, OtherFiles

LEMMA StepRefresh ==
  ASSUME IInv, RefreshInv, [Next]_vars
  PROVE  RefreshInv'
<1>0. /\ clock \in Nat /\ scan.since \in Nat /\ scan.open \in [Files -> Nat]
      /\ \A f \in Files : written[f] \in Nat
  BY FileStampConstants DEF IInv, TypeOK, Contents
<1>1. CASE UNCHANGED vars
  BY <1>1 DEF vars, RefreshInv, Untouched, Refreshing
<1>2. CASE Begin
  <2>1. /\ scan' = [running |-> TRUE, cold |-> Known = {} /\ Open = {}, work |-> ScanFiles,
                    since |-> clock, cached |-> entries, open |-> docs]
        /\ UNCHANGED <<clock, disk, docs, entries>>
        /\ \A f \in ScanFiles : jobs'[f].pc = "start"
    BY <1>2 DEF Begin, NoJob, ScanFiles, Known, Open, OnDisk
  <2> QED BY <1>0, <2>1 DEF RefreshInv, Untouched, Refreshing
<1>3. CASE Finish
  BY <1>3 DEF Finish, Idle, RefreshInv
<1>4. CASE ~scan.running /\ scan' = scan
  BY <1>4 DEF RefreshInv
<1>5. ASSUME NEW f \in Files, Write(f) \/ Delete(f) \/ EditDoc(f) \/ CloseDoc(f)
      PROVE  RefreshInv'
  <2>1. /\ clock' = clock + 1 /\ UNCHANGED <<entries, jobs, scan, late, by_cold>>
        /\ written'[f] = clock + 1
        /\ \A g \in Files \ {f} :
             written'[g] = written[g] /\ disk'[g] = disk[g] /\ docs'[g] = docs[g]
    BY <1>5 DEF Write, Delete, EditDoc, CloseDoc, Fresh, IInv, TypeOK
  <2>2. CASE scan.running
    <3>1. scan.since <= clock' /\ ~(Untouched(f))'
      BY <1>0, <2>1, <2>2 DEF RefreshInv, Untouched
    <3> QED BY <2>1, <2>2, <3>1, OtherFiles
  <2> QED BY <1>4, <2>1, <2>2
<1>6. ASSUME NEW a \in analyses, Analyse(a)
      PROVE  RefreshInv'
  <2>1. /\ UNCHANGED <<clock, written, disk, docs, jobs, scan>>
        /\ \/ UNCHANGED <<entries, late, by_cold>>
           \/ /\ entries' = [entries EXCEPT ![a[1]] = [text |-> a[2], stamp |-> None]]
              /\ late' = late \union {a[1]} /\ by_cold' = by_cold \ {a[1]}
    BY <1>6 DEF Analyse
  <2>2. a[1] \in Files
    BY DEF IInv, TypeOK
  <2>3. CASE UNCHANGED <<entries, late, by_cold>>
    BY <2>1, <2>3 DEF RefreshInv, Untouched, Refreshing
  <2>4. CASE scan.running /\ a[1] \in late'
    <3>1. \A g \in Files \ {a[1]} :
            /\ entries'[g] = entries[g]
            /\ (g \in late' <=> g \in late) /\ (g \in by_cold' <=> g \in by_cold)
      BY <2>1 DEF IInv, TypeOK
    <3>2. scan.since <= clock' /\ ~(Untouched(a[1]))'
      BY <2>1, <2>4 DEF RefreshInv, Untouched
    <3> QED BY <2>1, <2>2, <2>4, <3>1, <3>2, OtherFiles
  <2> QED BY <1>4, <2>1, <2>3, <2>4
<1>7. ASSUME NEW f \in Files, ColdRead(f)
      PROVE  RefreshInv'
  <2> DEFINE j == IF disk[f] = None THEN NoJob
                  ELSE [jobs[f] EXCEPT !.pc = "stat", !.text = disk[f]]
  <2>1. Job(f, j) /\ jobs[f].pc = "start"
    BY <1>7 DEF ColdRead
  <2>2. disk[f] # None => j.pc = "stat" /\ j.text = disk[f]
    BY DEF IInv, TypeOK
  <2> HIDE DEF j
  <2> QED BY <2>1, <2>2, JobRefresh
<1>8. ASSUME NEW f \in Files, ColdStat(f)
      PROVE  RefreshInv'
  <2> DEFINE j == [jobs[f] EXCEPT !.pc = "done", !.stamp = disk[f]]
  <2>1. Job(f, j) /\ jobs[f].pc = "stat"
    BY <1>8 DEF ColdStat
  <2>2. j.pc = "done" /\ j.text = jobs[f].text
    BY DEF IInv, TypeOK
  <2> HIDE DEF j
  <2> QED BY <2>1, <2>2, JobRefresh DEF Refreshing
\* The one place where a file is left unread: its stamp is that of its snapshot.
<1>9. ASSUME NEW f \in Files, WarmStat(f)
      PROVE  RefreshInv'
  <2> DEFINE j == IF Unchanged(f) THEN NoJob ELSE [jobs[f] EXCEPT !.pc = "read", !.stamp = disk[f]]
  <2>1. Job(f, j) /\ jobs[f].pc = "start"
    BY <1>9 DEF WarmStat
  <2>2. j.pc = IF Unchanged(f) THEN "none" ELSE "read"
    BY DEF NoJob, IInv, TypeOK
  <2>3. ~Unchanged(f) => j.stamp = disk[f]
    BY DEF IInv, TypeOK
  <2>4. Unchanged(f) /\ entries[f] = scan.cached[f] /\ disk[f] # None
        => f \in by_cold \/ (entries[f] # NoEntry /\ entries[f].text = disk[f])
    BY DEF IInv, StampVouches, Unchanged
  <2> HIDE DEF j
  <2> QED BY <2>1, <2>2, <2>3, <2>4, JobRefresh DEF Refreshing
<1>10. ASSUME NEW f \in Files, WarmRead(f)
       PROVE  RefreshInv'
  <2> DEFINE j == IF disk[f] = None THEN NoJob
                  ELSE [jobs[f] EXCEPT !.pc = "done", !.text = disk[f]]
  <2>1. Job(f, j) /\ jobs[f].pc = "read"
    BY <1>10 DEF WarmRead
  <2>2. disk[f] # None => j.pc = "done" /\ j.text = disk[f]
    BY DEF IInv, TypeOK
  <2> HIDE DEF j
  <2> QED BY <2>1, <2>2, JobRefresh
<1>11. ASSUME NEW f \in Files, TakeDoc(f)
       PROVE  RefreshInv'
  <2>1. PICK j : Job(f, j)
    BY <1>11 DEF TakeDoc
  <2>2. jobs[f].pc = "start" /\ scan.open[f] # None
    BY <1>11 DEF TakeDoc
  <2> QED BY <2>1, <2>2, JobRefresh
<1>12. ASSUME NEW f \in Files, Commit(f)
       PROVE  RefreshInv'
  <2>1. /\ UNCHANGED <<clock, written, disk, docs, late, scan>> /\ jobs[f].pc = "done"
    BY <1>12 DEF Commit, world
  <2>2. \A g \in Files \ {f} : /\ entries'[g] = entries[g] /\ jobs'[g] = jobs[g]
                               /\ (g \in by_cold' <=> g \in by_cold)
    BY <1>12 DEF Commit, IInv, TypeOK
  <2>3. /\ entries'[f] = [text |-> jobs[f].text, stamp |-> jobs[f].stamp]
        /\ jobs'[f].pc = "none"
    BY <1>12 DEF Commit, NoJob, IInv, TypeOK
  <2>4. entries'[f] # NoEntry /\ entries'[f].text = jobs[f].text
    <3>1. jobs[f].text \in Nat /\ jobs[f].stamp \in Nat
      BY FileStampConstants DEF IInv, TypeOK, Contents
    <3>2. entries'[f] \in [text : Nat, stamp : Nat]
      BY <2>3, <3>1
    <3> QED BY <2>3, <3>2, EntryIsNotNone
  <2>5. (Untouched(f))' => /\ scan.open[f] = docs'[f]
                           /\ docs'[f] = None /\ disk'[f] # None => (Refreshing(f))'
    <3>1. scan.running
      BY <2>1 DEF IInv, TypeOK
    <3> QED BY <2>1, <2>3, <2>4, <3>1 DEF RefreshInv, Untouched, Refreshing
  <2>6. scan.running /\ scan.since <= clock'
    BY <2>1 DEF RefreshInv, IInv, TypeOK
  <2> QED BY <2>1, <2>2, <2>5, <2>6, OtherFiles
<1> QED BY <1>1, <1>2, <1>3, <1>5, <1>6, <1>7, <1>8, <1>9, <1>10, <1>11, <1>12 DEF Next

\* For any number of files and any interleaving, a scan leaves the snapshot of a closed file
\* it visited, and that nothing touched meanwhile, up to date, unless a cold scan made it.
THEOREM RescanRefreshesHolds == Spec => RescanRefreshes
<1>1. Init => IInv /\ RefreshInv
  <2>1. Init => RefreshInv
    BY DEF Init, RefreshInv, Idle
  <2>2. Init => IInv
    BY InitVouches
  <2> QED BY <2>1, <2>2
<1>2. IInv /\ RefreshInv /\ [Next]_vars => IInv' /\ RefreshInv'
  BY StepVouches, StepRefresh
<1>3. IInv /\ RefreshInv /\ [Next]_vars =>
      [scan.running /\ ~scan'.running =>
         \A f \in Files \ by_cold :
           Settled(f) => entries[f] # NoEntry /\ entries[f].text = disk[f]]_vars
  <2> SUFFICES ASSUME IInv, RefreshInv, [Next]_vars, scan.running, ~scan'.running,
                      NEW f \in Files \ by_cold, Settled(f)
               PROVE  entries[f] # NoEntry /\ entries[f].text = disk[f]
    OBVIOUS
  <2>1. Finish
    BY DEF Next, vars, Begin, Analyse, Write, Delete, EditDoc, CloseDoc, ColdRead, ColdStat,
           WarmStat, WarmRead, TakeDoc, Commit, Job
  <2>2. jobs[f].pc = "none"
    BY <2>1 DEF Finish, NoJob
  <2> QED BY <2>2 DEF RefreshInv, Settled, Untouched, Refreshing
<1> QED BY <1>1, <1>2, <1>3, PTL DEF Spec, RescanRefreshes
===============================================================================
