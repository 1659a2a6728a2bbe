----------------------------- MODULE OpenDocuments -----------------------------
(***************************************************************************)
(* A document that is open in the editor: the text the server has of it,    *)
(* the snapshot of that text in the workspace, and the requests to draw the *)
(* code lenses again (src/src/lsp.rs).                                      *)
(*                                                                         *)
(* Processes.  The editor; the task of the server, which handles one        *)
(* message at a time and goes on with a command when its answer is there;   *)
(* the pool that analyses texts after a change; the diagnostics tasks and   *)
(* the scan, which analyse a copy of the text made earlier; the timers of   *)
(* the code lens refresh.                                                   *)
(*                                                                         *)
(* Data.  A text is how often each edit is in it, and whether its last line *)
(* ends with a newline.  A hash of a text stands for the text.  Whether a   *)
(* diagnostics task or a scan still may store what it analysed is the       *)
(* subject of Diagnostics and WorkspaceScan; here it does or does not.      *)
(* Other documents appear as the queries on them that look at this one.     *)
(***************************************************************************)
EXTENDS Naturals, Sequences

CONSTANTS
  Edits,        \* edits of the user
  Signature,    \* the edit of the command createSignature
  NoText,       \* not open, no snapshot, or nothing under way
  MaxChanges,   \* bound: messages of the editor about the document
  MaxCommands,  \* bound: createSignature commands
  MaxJobs       \* bound: steps that start jobs

ASSUME DocumentConstants ==
  /\ Signature \notin Edits
  /\ MaxChanges \in Nat /\ MaxCommands \in Nat /\ MaxJobs \in Nat

VARIABLES
  editor,       \* the text in the editor
  wire,         \* messages of the editor, not handled yet
  changes,      \* number of messages sent, commands apart
  commands,     \* number of commands sent
  documents,    \* the text the server has
  command,      \* the command under way: the text it was computed for
  document_cache_updates_in_progress,  \* the text whose analysis is under way
  jobs,         \* analyses of the text and requests for code lenses, queued or running
  started,      \* number of steps that started jobs
  workspace_file,           \* the text the snapshot is of
  code_lens_refresh_epoch,
  overwritten,  \* history: since it was opened, a command put a text of its own in place
  outdated,     \* history: the snapshot stored last was made from the copy of another text
  lens_due      \* history: no refresh was sent since the document changed

editorVars == <<editor, wire, changes, commands>>
docVars == <<editorVars, documents, command, document_cache_updates_in_progress, jobs, started,
             workspace_file, code_lens_refresh_epoch, overwritten, outdated, lens_due>>
snapshot_vars == <<workspace_file, outdated>>
lens_vars == <<code_lens_refresh_epoch, lens_due>>
text_vars == <<documents, overwritten>>

Texts == [edits : [Edits \union {Signature} -> Nat], newline : BOOLEAN]
Blank(newline) == [edits |-> [e \in Edits \union {Signature} |-> 0], newline |-> newline]

Insert(text, e) == [text EXCEPT !.edits[e] = @ + 1]
Remove(text, e) == [text EXCEPT !.edits[e] = @ - 1]

\* apply_content_changes, which can fail.
Applies(text, m) == m.insert \/ text.edits[m.edit] > 0

Apply(text, m) == IF m.insert THEN Insert(text, m.edit) ELSE Remove(text, m.edit)

\* insert_signature_comment puts the lines together again, each with a newline.
WithSignature(text) == [Insert(text, Signature) EXCEPT !.newline = TRUE]

NoCommand == [at |-> "none", text |-> NoText]

DocInit ==
  /\ editor = NoText /\ wire = <<>> /\ changes = 0 /\ commands = 0
  /\ documents = NoText
  /\ command = NoCommand
  /\ document_cache_updates_in_progress = NoText
  /\ jobs = {} /\ started = 0
  /\ workspace_file = NoText
  /\ code_lens_refresh_epoch = 0
  /\ overwritten = FALSE /\ outdated = FALSE /\ lens_due = FALSE

-----------------------------------------------------------------------------
(* The editor. *)

EditorSends(text, m) ==
  /\ changes < MaxChanges
  /\ changes' = changes + 1
  /\ editor' = text
  /\ wire' = Append(wire, m)
  /\ UNCHANGED <<commands, text_vars, document_cache_updates_in_progress, jobs, started,
                 snapshot_vars, lens_vars>>

EditorOpens(newline) ==
  /\ editor = NoText
  /\ EditorSends(Blank(newline), [kind |-> "open", text |-> Blank(newline)])
  /\ UNCHANGED command

EditorChanges(e) ==
  /\ editor # NoText
  /\ LET m == [kind |-> "change", edit |-> e, insert |-> editor.edits[e] = 0]
     IN EditorSends(Apply(editor, m), m)
  /\ UNCHANGED command

EditorCloses ==
  /\ editor # NoText
  /\ EditorSends(NoText, [kind |-> "close"])
  /\ UNCHANGED command

\* A click on a code lens.
EditorCommands ==
  /\ editor # NoText /\ editor.edits[Signature] = 0
  /\ commands < MaxCommands
  /\ commands' = commands + 1
  /\ wire' = Append(wire, [kind |-> "command"])
  /\ UNCHANGED <<editor, changes, text_vars, command, document_cache_updates_in_progress, jobs,
                 started, snapshot_vars, lens_vars>>

\* workspace/applyEdit: the editor changes its text and tells so as of any change.  Nothing
\* orders the answer and the notification.
EditorApplies ==
  /\ command.at = "asked" /\ editor # NoText
  /\ EditorSends(Insert(editor, Signature),
                 [kind |-> "change", edit |-> Signature, insert |-> TRUE])
  /\ command' = [command EXCEPT !.at = "applied"]

EditorRefuses ==
  /\ command.at = "asked"
  /\ command' = NoCommand
  /\ UNCHANGED <<editorVars, text_vars, document_cache_updates_in_progress, jobs, started,
                 snapshot_vars, lens_vars>>

-----------------------------------------------------------------------------
(* The task of the server. *)

\* start_document_cache_update_if_needed.
StartsUpdate(text) == workspace_file # text /\ document_cache_updates_in_progress # text

\* The jobs a step starts bear its number.
Job(kind, text) ==
  [id |-> started + 1, kind |-> kind, at |-> "queued", text |-> text, epoch |-> 0]

\* The analysis of the text, if needed, and other jobs.
Start(text, others) ==
  LET new == (IF StartsUpdate(text) THEN {Job("update", text)} ELSE {}) \union others IN
  /\ started < MaxJobs
  /\ started' = started + 1
  /\ jobs' = jobs \union new
  /\ document_cache_updates_in_progress' =
       IF StartsUpdate(text) THEN text ELSE document_cache_updates_in_progress

Handles(kind) ==
  /\ wire # <<>> /\ Head(wire).kind = kind
  /\ wire' = Tail(wire)
  /\ UNCHANGED <<editor, changes, commands>>

\* did_open publishes diagnostics, for which it stores the snapshot itself, and asks for the
\* code lenses after that.
DidOpen ==
  /\ Handles("open")
  /\ LET text == Head(wire).text IN
     /\ documents' = text
     /\ Start(text, {Job("refresh", NoText)})
     /\ workspace_file' = text
  /\ overwritten' = FALSE
  /\ outdated' = FALSE
  /\ lens_due' = TRUE
  /\ UNCHANGED <<command, code_lens_refresh_epoch>>

\* Mutant: the epoch before the addition.
EpochBefore == code_lens_refresh_epoch

\* next_code_lens_refresh_epoch adds one; the timer has the sum.
TimerEpoch == code_lens_refresh_epoch + 1

\* did_change: the text, its analysis, and two timers; a change that does not fit is dropped.
\* Without a text the code takes the one on disk; an editor sends no change of a document
\* that it has not opened.
DidChange ==
  /\ Handles("change")
  /\ \/ /\ documents # NoText /\ Applies(documents, Head(wire))
        /\ LET text == Apply(documents, Head(wire)) IN
           /\ documents' = text
           /\ Start(text, {Job("diagnose", text),
                           [Job("lenses", NoText) EXCEPT !.epoch = TimerEpoch]})
        /\ code_lens_refresh_epoch' = code_lens_refresh_epoch + 1
        /\ lens_due' = TRUE
     \/ /\ documents = NoText \/ ~Applies(documents, Head(wire))
        /\ UNCHANGED <<documents, started, jobs, document_cache_updates_in_progress, lens_vars>>
  /\ UNCHANGED <<command, snapshot_vars, overwritten>>

\* Mutant: the text stays.
DidCloseKeeps ==
  /\ Handles("close")
  /\ document_cache_updates_in_progress' = NoText
  /\ UNCHANGED <<documents, command, jobs, started, snapshot_vars, lens_vars, overwritten>>

DidClose ==
  /\ Handles("close")
  /\ documents' = NoText
  /\ document_cache_updates_in_progress' = NoText
  /\ UNCHANGED <<command, jobs, started, snapshot_vars, lens_vars, overwritten>>

\* createSignature, up to the request to the editor.  (A file that is not open is read.)
ExecuteCommand ==
  /\ Handles("command")
  /\ command' = IF documents = NoText THEN NoCommand ELSE [at |-> "asked", text |-> documents]
  /\ UNCHANGED <<text_vars, document_cache_updates_in_progress, jobs, started, snapshot_vars,
                 lens_vars>>

\* The rest of it: the text computed before is put in place.
CommandGoesOn ==
  /\ command.at = "applied"
  /\ LET text == WithSignature(command.text) IN
     /\ documents' = text
     /\ overwritten' = (overwritten \/ documents # text)
     /\ Start(text, {Job("refresh", NoText)})
  /\ command' = NoCommand
  /\ lens_due' = TRUE
  /\ UNCHANGED <<editorVars, snapshot_vars, code_lens_refresh_epoch>>

\* request_code_lens_refresh_now, after what its caller awaited.
RefreshLenses(j) ==
  /\ j.kind = "refresh"
  /\ jobs' = jobs \ {j}
  /\ code_lens_refresh_epoch' = code_lens_refresh_epoch + 1
  /\ lens_due' = FALSE
  /\ UNCHANGED <<editorVars, text_vars, command, document_cache_updates_in_progress, started,
                 snapshot_vars>>

\* ensure_open_documents_cached_except, in a query on another document.
OtherQuery ==
  /\ documents # NoText /\ workspace_file # documents
  /\ workspace_file' = documents
  /\ outdated' = FALSE
  /\ UNCHANGED <<editorVars, text_vars, command, document_cache_updates_in_progress, jobs,
                 started, lens_vars>>

\* start_open_document_cache_updates_except, when the lenses of another document are built.
OtherLenses ==
  /\ documents # NoText /\ StartsUpdate(documents)
  /\ Start(documents, {})
  /\ UNCHANGED <<editorVars, text_vars, command, snapshot_vars, lens_vars>>

-----------------------------------------------------------------------------
(* Other threads. *)

\* The text is no longer the one that is awaited: whoever came later looks after the mark.
GivesUp(j) ==
  /\ jobs' = jobs \ {j}
  /\ UNCHANGED <<document_cache_updates_in_progress, snapshot_vars>>

\* The pool task looks at the mark, ...
UpdateStarts(j) ==
  /\ j.kind = "update" /\ j.at = "queued"
  /\ \/ /\ document_cache_updates_in_progress # j.text
        /\ GivesUp(j)
     \/ /\ document_cache_updates_in_progress = j.text
        /\ jobs' = (jobs \ {j}) \union {[j EXCEPT !.at = "running"]}
        /\ UNCHANGED <<document_cache_updates_in_progress, snapshot_vars>>
  /\ UNCHANGED <<editorVars, text_vars, command, started, lens_vars>>

\* Mutant: the text of the document is not looked at.
StoresAny(j) == TRUE

\* The document is not open, or has this text.
Stores(j) == documents = NoText \/ documents = j.text

\* Mutant: the mark of a text that is not stored stays.
UnmarksIfStored(j) ==
  document_cache_updates_in_progress' =
    IF Stores(j) THEN NoText ELSE document_cache_updates_in_progress

Unmarks(j) == document_cache_updates_in_progress' = NoText

\* ... analyses, and looks at it again.
UpdateEnds(j) ==
  /\ j.kind = "update" /\ j.at = "running"
  /\ \/ /\ document_cache_updates_in_progress # j.text
        /\ GivesUp(j)
     \/ /\ document_cache_updates_in_progress = j.text
        /\ jobs' = jobs \ {j}
        /\ Unmarks(j)
        /\ IF Stores(j) THEN workspace_file' = j.text /\ outdated' = FALSE
           ELSE UNCHANGED snapshot_vars
  /\ UNCHANGED <<editorVars, text_vars, command, started, lens_vars>>

\* The scan copies the texts of the open documents; so does the publish after it.
ScanCopies ==
  /\ documents # NoText
  /\ started < MaxJobs
  /\ started' = started + 1
  /\ jobs' = jobs \union {Job("diagnose", documents)}
  /\ UNCHANGED <<editorVars, text_vars, command, document_cache_updates_in_progress,
                 snapshot_vars, lens_vars>>

\* The snapshot of a copy is stored (by a scan or by ensure_base_analysis_cached), whatever
\* the text is by now, or the copy is given up.
CopyEnds(j) ==
  /\ j.kind = "diagnose"
  /\ jobs' = jobs \ {j}
  /\ \/ /\ workspace_file' = j.text
        /\ outdated' = (documents # j.text)
     \/ UNCHANGED snapshot_vars
  /\ UNCHANGED <<editorVars, text_vars, command, document_cache_updates_in_progress, started,
                 lens_vars>>

\* A timer of schedule_code_lens_refresh_after_change_for_file is over.
LensTimer(j) ==
  /\ j.kind = "lenses"
  /\ jobs' = jobs \ {j}
  /\ lens_due' = (lens_due /\ j.epoch # code_lens_refresh_epoch)
  /\ UNCHANGED <<editorVars, text_vars, command, document_cache_updates_in_progress, started,
                 snapshot_vars, code_lens_refresh_epoch>>

DocNext ==
  \/ \E newline \in BOOLEAN : EditorOpens(newline)
  \/ \E e \in Edits : EditorChanges(e)
  \/ EditorCloses \/ EditorCommands \/ EditorApplies \/ EditorRefuses
  \/ DidOpen \/ DidChange \/ DidClose \/ ExecuteCommand \/ CommandGoesOn
  \/ OtherQuery \/ OtherLenses \/ ScanCopies
  \/ \E j \in jobs :
       RefreshLenses(j) \/ UpdateStarts(j) \/ UpdateEnds(j) \/ CopyEnds(j) \/ LensTimer(j)

DocSpec == DocInit /\ [][DocNext]_docVars

-----------------------------------------------------------------------------
(* Properties. *)

\* A text that is marked as under analysis is: however changes to and fro, a close and an
\* opening again meet the tasks of earlier texts, one that will store it or take the mark
\* away is still there, so that the mark never keeps a text from being analysed.
MarkHasTask ==
  document_cache_updates_in_progress # NoText =>
    \E j \in jobs : j.kind = "update" /\ j.text = document_cache_updates_in_progress

Settled == ~\E j \in jobs : j.kind \in {"update", "diagnose"}

\* When no analysis is under way, the snapshot of an open document is of its text, unless the
\* last to store one was a task with a copy of an earlier text, which nothing stops.
SnapshotCatchesUp == documents # NoText /\ Settled /\ ~outdated => workspace_file = documents

\* Whatever cancels a timer sends a refresh itself or starts a later one: the code lenses are
\* drawn again after the last change of the document.
LensesFollow ==
  lens_due =>
    \E j \in jobs : j.kind = "refresh" \/ (j.kind = "lenses" /\ j.epoch = code_lens_refresh_epoch)

\* Everything the editor sent is handled.
Heard == wire = <<>> /\ command = NoCommand

\* The server's text is the editor's, once it has heard everything, unless a command put its
\* own text in the place of another one.
TextFollowsEdits == Heard /\ ~overwritten => documents = editor

\* "didOpen / didChange 後の Hover、CodeLens、diagnostics が最新 snapshot を見る": no exception.
TextFollows == Heard => documents = editor
===============================================================================
