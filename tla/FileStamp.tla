------------------------------ MODULE FileStamp ------------------------------
(***************************************************************************)
(* How a scan decides that it need not read a file again (src/src/lsp.rs): *)
(* the snapshot of a closed file carries the stamp the file had (FileStamp,*)
(* its modification time and length), and a file whose stamp is still the  *)
(* one of its snapshot is left alone.  Reading a file and taking its stamp *)
(* are two system calls; WorkspaceScan makes one step of them, this module *)
(* opens the gap.                                                          *)
(*                                                                         *)
(* Processes.  One scan at a time, whose files are read in parallel; other *)
(* programs, which write and delete files; the editor, which opens and     *)
(* closes documents; the tasks that analyse the text of a document, which  *)
(* can be late.  The watcher is left out: what is looked at here is what a *)
(* scan finds out by itself.                                               *)
(*                                                                         *)
(* Data.  Contents of files and documents are numbers that are never used  *)
(* twice.  The stamp of a file is the number of its content: a write that  *)
(* keeps both the length and the time is not modelled.                     *)
(***************************************************************************)
EXTENDS Naturals

CONSTANTS
  Files,        \* target files
  NoEntry,      \* the workspace has no snapshot of the file
  MaxClock      \* bound: contents written, to the disk or to a document

ASSUME FileStampConstants == MaxClock \in Nat \ {0}
ASSUME EntryIsNotNone == NoEntry \notin [text : Nat, stamp : Nat]

None == 0       \* no stamp: the file is not there, or the content is a document's

VARIABLES
  disk,         \* content of the file, None when it does not exist
  docs,         \* text of the open document, None when it is not open
  clock,        \* the last content used
  written,      \* history: when the file or its document changed last
  analyses,     \* texts whose diagnostics are yet to be computed: <<file, text>>
  late,         \* history: files that got the snapshot of such a text during the scan
  entries,      \* snapshot of the file: the content it is of, and its stamp
  by_cold,      \* history: files whose snapshot a cold scan made
  discovered,   \* state.workspace_fully_discovered
  scan,         \* the scan under way: what it captured, and the time it started
  jobs          \* the scan's progress on each file

vars == <<disk, docs, clock, written, analyses, late, entries, by_cold, discovered, scan, jobs>>
world == <<disk, docs, clock, written, analyses, late>>

Open == {f \in Files : docs[f] # None}
Known == {f \in Files : entries[f] # NoEntry}
OnDisk == {f \in Files : disk[f] # None}

Idle == [running |-> FALSE, cold |-> FALSE, work |-> {}, since |-> 0,
         cached |-> [f \in Files |-> NoEntry], open |-> [f \in Files |-> None]]
NoJob == [pc |-> "none", text |-> None, stamp |-> None]

Init ==
  /\ disk \in [Files -> {None, 1}]
  /\ docs = [f \in Files |-> None]
  /\ clock = 1
  /\ written = [f \in Files |-> 0]
  /\ analyses = {}
  /\ late = {}
  /\ entries = [f \in Files |-> NoEntry]
  /\ by_cold = {}
  /\ discovered = FALSE
  /\ scan = Idle
  /\ jobs = [f \in Files |-> NoJob]

-----------------------------------------------------------------------------
(* Other programs and the editor. *)

\* A content that was never there before.
Fresh(f) ==
  /\ clock < MaxClock
  /\ clock' = clock + 1
  /\ written' = [written EXCEPT ![f] = clock + 1]

Write(f) ==
  /\ Fresh(f)
  /\ disk' = [disk EXCEPT ![f] = clock + 1]
  /\ UNCHANGED <<docs, analyses, late, entries, by_cold, discovered, scan, jobs>>

Delete(f) ==
  /\ disk[f] # None
  /\ Fresh(f)
  /\ disk' = [disk EXCEPT ![f] = None]
  /\ UNCHANGED <<docs, analyses, late, entries, by_cold, discovered, scan, jobs>>

\* did_open and did_change, which schedule an analysis of the text.
EditDoc(f) ==
  /\ Fresh(f)
  /\ docs' = [docs EXCEPT ![f] = clock + 1]
  /\ analyses' = analyses \union {<<f, clock + 1>>}
  /\ UNCHANGED <<disk, late, entries, by_cold, discovered, scan, jobs>>

\* did_close keeps the snapshot of the unsaved text.
CloseDoc(f) ==
  /\ docs[f] # None
  /\ Fresh(f)
  /\ docs' = [docs EXCEPT ![f] = None]
  /\ UNCHANGED <<disk, analyses, late, entries, by_cold, discovered, scan, jobs>>

\* The analysis is committed without a stamp, whether or not the document still has the
\* text (ensure_base_analysis_cached), or it is given up.
Analyse(a) ==
  /\ analyses' = analyses \ {a}
  /\ \/ /\ entries' = [entries EXCEPT ![a[1]] = [text |-> a[2], stamp |-> None]]
        /\ by_cold' = by_cold \ {a[1]}
        /\ late' = late \union {a[1]}
     \/ UNCHANGED <<entries, by_cold, late>>
  /\ UNCHANGED <<disk, docs, clock, written, discovered, scan, jobs>>

-----------------------------------------------------------------------------
(* The scan. *)

\* collect_workspace_scan_files, when no file is pending.
ScanFiles ==
  IF ~discovered \/ Known = {} THEN OnDisk \union Open
  ELSE IF Open = {} THEN Known
  ELSE Open

\* The stamps and the documents are copied; a scan that finds neither a snapshot nor an
\* open document is cold.
Begin ==
  /\ ~scan.running
  /\ scan' = [running |-> TRUE, cold |-> Known = {} /\ Open = {}, work |-> ScanFiles,
              since |-> clock, cached |-> entries, open |-> docs]
  /\ jobs' = [f \in Files |-> IF f \in ScanFiles THEN [NoJob EXCEPT !.pc = "start"] ELSE NoJob]
  /\ late' = {}
  /\ UNCHANGED <<disk, docs, clock, written, analyses, entries, by_cold, discovered>>

Job(f, j) ==
  /\ jobs' = [jobs EXCEPT ![f] = j]
  /\ UNCHANGED <<world, entries, by_cold, discovered, scan>>

\* A cold scan reads first, and takes the stamp afterwards.
ColdRead(f) ==
  /\ scan.cold /\ jobs[f].pc = "start"
  /\ Job(f, IF disk[f] = None THEN NoJob ELSE [jobs[f] EXCEPT !.pc = "stat", !.text = disk[f]])

ColdStat(f) ==
  /\ jobs[f].pc = "stat"
  /\ Job(f, [jobs[f] EXCEPT !.pc = "done", !.stamp = disk[f]])

\* Mutant: whatever has a snapshot is left alone.
UnchangedIfKnown(f) == scan.cached[f] # NoEntry

\* The snapshot has the stamp the file has.
Unchanged(f) == scan.cached[f] # NoEntry /\ scan.cached[f].stamp = disk[f]

\* Any other scan takes the stamp first, and reads only what has another one.
WarmStat(f) ==
  /\ ~scan.cold /\ jobs[f].pc = "start" /\ scan.open[f] = None
  /\ Job(f, IF Unchanged(f) THEN NoJob ELSE [jobs[f] EXCEPT !.pc = "read", !.stamp = disk[f]])

\* Mutant: the stamp is taken again after the read.
WarmReadThenStamp(f) ==
  /\ jobs[f].pc = "read"
  /\ Job(f, IF disk[f] = None THEN NoJob
            ELSE [jobs[f] EXCEPT !.pc = "stat", !.text = disk[f]])

WarmRead(f) ==
  /\ jobs[f].pc = "read"
  /\ Job(f, IF disk[f] = None THEN NoJob ELSE [jobs[f] EXCEPT !.pc = "done", !.text = disk[f]])

\* The text of an open document has no stamp; if the snapshot is of that text already, the
\* stamp it lacks is confirmed and nothing changes.
TakeDoc(f) ==
  /\ ~scan.cold /\ jobs[f].pc = "start" /\ scan.open[f] # None
  /\ Job(f, IF scan.cached[f] = [text |-> scan.open[f], stamp |-> None]
            THEN NoJob ELSE [jobs[f] EXCEPT !.pc = "done", !.text = scan.open[f]])

\* The results of a chunk are handled when all its files have been read.
Commit(f) ==
  /\ \A g \in Files : jobs[g].pc \in {"none", "done"}
  /\ jobs[f].pc = "done"
  /\ entries' = [entries EXCEPT ![f] = [text |-> jobs[f].text, stamp |-> jobs[f].stamp]]
  /\ by_cold' = IF scan.cold THEN by_cold \union {f} ELSE by_cold \ {f}
  /\ jobs' = [jobs EXCEPT ![f] = NoJob]
  /\ UNCHANGED <<world, discovered, scan>>

\* Mutant: the scan ends with results nobody handled yet.
FinishWithResults ==
  /\ scan.running /\ \A f \in Files : jobs[f].pc \in {"none", "done"}
  /\ scan' = Idle
  /\ discovered' = TRUE
  /\ UNCHANGED <<world, entries, by_cold, jobs>>

Finish ==
  /\ scan.running /\ \A f \in Files : jobs[f] = NoJob
  /\ scan' = Idle
  /\ discovered' = TRUE
  /\ UNCHANGED <<world, entries, by_cold, jobs>>

-----------------------------------------------------------------------------
Next ==
  \/ Begin \/ Finish
  \/ \E a \in analyses : Analyse(a)
  \/ \E f \in Files : \/ Write(f) \/ Delete(f) \/ EditDoc(f) \/ CloseDoc(f)
                      \/ ColdRead(f) \/ ColdStat(f)
                      \/ WarmStat(f) \/ WarmRead(f) \/ TakeDoc(f)
                      \/ Commit(f)

Spec == Init /\ [][Next]_vars

-----------------------------------------------------------------------------
(* Properties. *)

Contents == 0 .. MaxClock
Entries == [text : Contents, stamp : Contents]

TypeOK ==
  /\ disk \in [Files -> Contents] /\ docs \in [Files -> Contents]
  /\ clock \in Contents /\ written \in [Files -> Contents]
  /\ analyses \in SUBSET (Files \X Contents) /\ late \in SUBSET Files
  /\ entries \in [Files -> Entries \union {NoEntry}]
  /\ by_cold \in SUBSET Files
  /\ discovered \in BOOLEAN
  /\ scan \in [running : BOOLEAN, cold : BOOLEAN, work : SUBSET Files, since : Contents,
               cached : [Files -> Entries \union {NoEntry}], open : [Files -> Contents]]
  /\ jobs \in [Files -> [pc : {"none", "start", "stat", "read", "done"},
                         text : Contents, stamp : Contents]]
  /\ \A f \in Files : jobs[f].pc # "none" => scan.running /\ f \in scan.work

\* A stamp never vouches for a content the file no longer has: while a snapshot has the
\* stamp of the file, it is of the content of the file, unless a cold scan made it.
StampVouches ==
  \A f \in Files \ by_cold :
    entries[f] # NoEntry /\ entries[f].stamp # None /\ entries[f].stamp = disk[f]
      => entries[f].text = disk[f]

\* A closed file that a scan visits, and that nothing else touches meanwhile.
Settled(f) == f \in scan.work \ late /\ written[f] <= scan.since /\ docs[f] = None /\ disk[f] # None

\* A scan leaves the snapshots of the closed files it visits up to date, also where the
\* last snapshot was of an unsaved text, unless a cold scan made them.
RescanRefreshes ==
  [][scan.running /\ ~scan'.running =>
       \A f \in Files \ by_cold :
         Settled(f) => entries[f] # NoEntry /\ entries[f].text = disk[f]]_vars

\* "With no delta, fall back to all known files as insurance against a missed watcher
\* event": what the watcher did not tell, the next scan finds out, for every file.
Insured ==
  [][scan.running /\ ~scan'.running =>
       \A f \in Files : Settled(f) => entries[f] # NoEntry /\ entries[f].text = disk[f]]_vars
===============================================================================
