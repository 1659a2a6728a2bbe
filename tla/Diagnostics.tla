----------------------------- MODULE Diagnostics -----------------------------
(***************************************************************************)
(* When the LSP server publishes the diagnostics of a document             *)
(* (src/src/lsp.rs): at once when it is opened, after a debounce when it   *)
(* is changed, again when a background scan is accepted, and empty when it *)
(* is closed.                                                              *)
(*                                                                         *)
(* Processes.  The server task runs the handlers one after another; every  *)
(* debounced publish and every publish after a scan is a task of its own,  *)
(* on the threads of the executor.  Each lock region is one action.  The   *)
(* scan itself is its life cycle, ScanLifecycle, which WorkspaceScan       *)
(* implements.                                                             *)
(*                                                                         *)
(* Data.  The text of a document is the number of the event that brought   *)
(* it.  Diagnostics are the text they were computed from and whether the   *)
(* workspace was known then: if not, missing methods and constants are     *)
(* left out.  The client is sent messages through one queue, in order, so  *)
(* what it shows is the last message.                                      *)
(***************************************************************************)
EXTENDS Naturals

CONSTANTS
  Docs,         \* documents
  MaxEvents,    \* bound: documents opened, changed or closed
  MaxResets,    \* bound: resets of the scan
  MaxFails      \* bound: scans that panic

ASSUME DiagnosticsConstants ==
  MaxEvents \in Nat /\ MaxResets \in Nat /\ MaxFails \in Nat

VARIABLES
  docs,         \* state.documents: the text, 0 when the document is not open
  session,      \* history: the event that opened the document last
  events,       \* number of document events so far
  epochs,       \* diagnostics_epochs, 0 when there is no entry
  server,       \* the handler the server task is in
  pending,      \* debounced publishes that have not ended
  status,       \* the scan: "stale", "scanning" or "known"
  generation,   \* state.workspace_scan_generation
  scanner,      \* who runs the scan: a "thread", the "server" task, or "none"
  reissues,     \* publishes of all open documents after a scan
  fails,        \* number of scans that panicked
  told          \* history: what the client has been sent for the text a document has,
                \* Nothing, Latest or Complete

scanning == <<status, generation, scanner, fails>>
vars == <<docs, session, events, epochs, server, pending, status, generation, scanner,
          reissues, fails, told>>

Scans == INSTANCE ScanLifecycle

\* Latest: diagnostics of the text; Complete: since a scan was accepted, diagnostics of
\* the text that know the workspace.
Nothing == 0
Latest == 1
Complete == 2

Open == {d \in Docs : docs[d] # 0}
Result(text) == [text |-> text, complete |-> status = "known"]

\* A task waits for its debounce, then infers, looks at the epoch again, and publishes.
Task(d, epoch) == [doc |-> d, text |-> docs[d], epoch |-> epoch, pc |-> "debounce",
                   complete |-> FALSE]

Reissue(n) == [number |-> n, pc |-> "collect", todo |-> {}, at |-> {}]

Idle == [pc |-> "idle", at |-> {}, complete |-> FALSE]
At(pc, d) == [pc |-> pc, at |-> {d}, complete |-> FALSE]

Init ==
  /\ docs = [d \in Docs |-> 0]
  /\ session = [d \in Docs |-> 0]
  /\ events = 0
  /\ epochs = [d \in Docs |-> 0]
  /\ server = Idle
  /\ pending = {}
  /\ Scans!Init
  /\ scanner = "none"
  /\ reissues = {}
  /\ fails = 0
  /\ told = [d \in Docs |-> Nothing]

\* client.publish_diagnostics.
Publish(d, r) ==
  told' = CASE r.text # docs[d] -> told
            [] r.text = docs[d] /\ r.complete -> [told EXCEPT ![d] = Complete]
            [] OTHER -> [told EXCEPT ![d] = IF @ = Nothing THEN Latest ELSE @]

\* The document has a new text, or none.
NewText(d, text) ==
  /\ docs' = [docs EXCEPT ![d] = text]
  /\ told' = [told EXCEPT ![d] = Nothing]

-----------------------------------------------------------------------------
(* The scan. *)

\* start_workspace_scan_if_needed.
StartScan ==
  IF status = "stale"
  THEN Scans!Begin /\ scanner' = "thread"
  ELSE UNCHANGED <<status, generation, scanner>>

\* code_lens and initialized, which the editor may send at any time.
CodeLens ==
  /\ server.pc = "idle"
  /\ StartScan
  /\ UNCHANGED <<docs, session, events, epochs, server, pending, reissues, fails, told>>

\* hover and its kin run the scan on the server task itself.
Hover ==
  /\ server.pc = "idle" /\ Open # {}
  /\ Scans!Begin
  /\ scanner' = "server"
  /\ server' = [Idle EXCEPT !.pc = "scan"]
  /\ UNCHANGED <<docs, session, events, epochs, pending, reissues, fails, told>>

\* Mutant: nothing is published again.
AcceptInSilence ==
  /\ Scans!Accept
  /\ scanner' = "none"
  /\ server' = IF scanner = "server" THEN Idle ELSE server
  /\ told' = [d \in Docs |-> IF told[d] = Nothing THEN Nothing ELSE Latest]
  /\ UNCHANGED <<docs, session, events, epochs, pending, reissues, fails>>

\* The scan is accepted.  Only a thread that ran it publishes the open documents again.
Accept ==
  /\ Scans!Accept
  /\ scanner' = "none"
  /\ reissues' = IF scanner = "thread" THEN reissues \union {Reissue(generation)} ELSE reissues
  /\ server' = IF scanner = "server" THEN Idle ELSE server
  /\ told' = [d \in Docs |-> IF told[d] = Nothing THEN Nothing ELSE Latest]
  /\ UNCHANGED <<docs, session, events, epochs, pending, fails>>

\* Mutant: the flag of the scan stays set.
FailKeepsFlag ==
  /\ fails < MaxFails
  /\ status = "scanning"
  /\ fails' = fails + 1
  /\ scanner' = "none"
  /\ server' = IF scanner = "server" THEN Idle ELSE server
  /\ UNCHANGED <<docs, session, events, epochs, pending, status, generation, reissues, told>>

\* The scan panics: nothing is published, and the next request starts another one.
Fail ==
  /\ fails < MaxFails
  /\ Scans!Fail
  /\ fails' = fails + 1
  /\ scanner' = "none"
  /\ server' = IF scanner = "server" THEN Idle ELSE server
  /\ UNCHANGED <<docs, session, events, epochs, pending, reissues, told>>

\* did_change_watched_files resets the scan and starts it again; the scan that was under
\* way is superseded and publishes nothing.
Reset ==
  /\ server.pc = "idle"
  /\ generation < MaxResets
  /\ Scans!Reset
  /\ scanner' = "none"
  /\ server' = [Idle EXCEPT !.pc = "restart"]
  /\ UNCHANGED <<docs, session, events, epochs, pending, reissues, fails, told>>

Restart ==
  /\ server.pc = "restart"
  /\ StartScan
  /\ server' = Idle
  /\ UNCHANGED <<docs, session, events, epochs, pending, reissues, fails, told>>

-----------------------------------------------------------------------------
(* The handlers of documents. *)

Event == events < MaxEvents /\ events' = events + 1

\* next_diagnostics_epoch: an entry that is not there starts at 1.
NextEpoch(d) == epochs' = [epochs EXCEPT ![d] = @ + 1]

\* did_open up to the epoch; the start of the scan cannot be told from the insertion.
DidOpen(d) ==
  /\ server.pc = "idle" /\ docs[d] = 0
  /\ Event
  /\ NewText(d, events + 1)
  /\ session' = [session EXCEPT ![d] = events + 1]
  /\ StartScan
  /\ server' = At("opened", d)
  /\ UNCHANGED <<epochs, pending, reissues, fails>>

Opened(d) ==
  /\ server = At("opened", d)
  /\ NextEpoch(d)
  /\ server' = At("infer", d)
  /\ UNCHANGED <<docs, session, events, pending, scanning, reissues, told>>

\* publish_diagnostics_for_document: the diagnostics under the lock, the message after it.
InferOpened(d) ==
  /\ server = At("infer", d)
  /\ server' = [server EXCEPT !.pc = "publish", !.complete = status = "known"]
  /\ UNCHANGED <<docs, session, events, epochs, pending, scanning, reissues, told>>

PublishOpened(d) ==
  /\ server.pc = "publish" /\ server.at = {d}
  /\ Publish(d, [text |-> docs[d], complete |-> server.complete])
  /\ server' = Idle
  /\ UNCHANGED <<docs, session, events, epochs, pending, scanning, reissues>>

DidChange(d) ==
  /\ server.pc = "idle" /\ docs[d] # 0
  /\ Event
  /\ NewText(d, events + 1)
  /\ server' = At("changed", d)
  /\ UNCHANGED <<session, epochs, pending, scanning, reissues>>

\* Mutant: the task is given the epoch there was before.
ChangedOldEpoch(d) ==
  /\ server = At("changed", d)
  /\ NextEpoch(d)
  /\ pending' = pending \union {Task(d, epochs[d])}
  /\ server' = Idle
  /\ UNCHANGED <<docs, session, events, scanning, reissues, told>>

\* schedule_diagnostics_publish_after_change.
Changed(d) ==
  /\ server = At("changed", d)
  /\ NextEpoch(d)
  /\ pending' = pending \union {Task(d, epochs'[d])}
  /\ server' = Idle
  /\ UNCHANGED <<docs, session, events, scanning, reissues, told>>

DidClose(d) ==
  /\ server.pc = "idle" /\ docs[d] # 0
  /\ Event
  /\ NewText(d, 0)
  /\ server' = At("closed", d)
  /\ UNCHANGED <<session, epochs, pending, scanning, reissues>>

\* The entry of the document goes away, and with it the count; the client is sent an empty
\* list, which changes nothing here.
Closed(d) ==
  /\ server = At("closed", d)
  /\ epochs' = [epochs EXCEPT ![d] = 0]
  /\ server' = Idle
  /\ UNCHANGED <<docs, session, events, pending, scanning, reissues, told>>

-----------------------------------------------------------------------------
(* A debounced publish. *)

\* Task t goes on as u, or ends.
Step(t, u) ==
  /\ pending' = (pending \ {t}) \union u
  /\ UNCHANGED <<docs, session, events, epochs, server, scanning, reissues>>

\* Mutant: the task publishes if any epoch is there.
CurrentIfOpen(t) == epochs[t.doc] # 0

\* The epoch is still the one the task was scheduled with.
Current(t) == epochs[t.doc] = t.epoch

Wake(t) ==
  /\ t.pc = "debounce"
  /\ Step(t, IF Current(t) THEN {[t EXCEPT !.pc = "infer"]} ELSE {})
  /\ UNCHANGED told

Infer(t) ==
  /\ t.pc = "infer"
  /\ Step(t, {[t EXCEPT !.pc = "recheck", !.complete = status = "known"]})
  /\ UNCHANGED told

Recheck(t) ==
  /\ t.pc = "recheck"
  /\ Step(t, IF Current(t) THEN {[t EXCEPT !.pc = "publish"]} ELSE {})
  /\ UNCHANGED told

PublishChanged(t) ==
  /\ t.pc = "publish"
  /\ Step(t, {})
  /\ Publish(t.doc, [text |-> t.text, complete |-> t.complete])

-----------------------------------------------------------------------------
(* publish_open_document_diagnostics_shared, after a scan. *)

Continue(r, q) ==
  /\ reissues' = (reissues \ {r}) \union q
  /\ UNCHANGED <<docs, session, events, epochs, server, pending, scanning>>

\* The texts are copied once; no epoch is looked at.
Collect(r) ==
  /\ r.pc = "collect"
  /\ Continue(r, {[r EXCEPT !.pc = "next", !.todo = {<<d, docs[d]>> : d \in Open}]})
  /\ UNCHANGED told

InferNext(r) ==
  /\ r.pc = "next"
  /\ IF r.todo = {}
     THEN Continue(r, {})
     ELSE \E c \in r.todo :
            Continue(r, {[r EXCEPT !.pc = "publish", !.todo = r.todo \ {c},
                                   !.at = {<<c[1], Result(c[2])>>}]})
  /\ UNCHANGED told

PublishNext(r) ==
  /\ r.pc = "publish"
  /\ \E c \in r.at : Publish(c[1], c[2])
  /\ Continue(r, {[r EXCEPT !.pc = "next", !.at = {}]})

-----------------------------------------------------------------------------
Editor ==
  \/ CodeLens \/ Hover \/ Reset
  \/ \E d \in Docs : DidOpen(d) \/ DidChange(d) \/ DidClose(d)

Handler ==
  \/ Restart
  \/ \E d \in Docs : \/ Opened(d) \/ InferOpened(d) \/ PublishOpened(d)
                     \/ Changed(d)
                     \/ Closed(d)

Debounced == \E t \in pending : Wake(t) \/ Infer(t) \/ Recheck(t) \/ PublishChanged(t)

Reissued == \E r \in reissues : Collect(r) \/ InferNext(r) \/ PublishNext(r)

Next == Editor \/ Handler \/ Accept \/ Fail \/ Debounced \/ Reissued

Spec == Init /\ [][Next]_vars

\* The executor polls its tasks, and WorkspaceScan shows that a scan ends; nothing is
\* assumed of the editor.  The tasks come and go, and each is polled: with finitely many
\* events, fairness of all together is fairness of each.
FairSpec ==
  Spec /\ WF_vars(Handler) /\ WF_vars(Accept) /\ WF_vars(Debounced) /\ WF_vars(Reissued)

-----------------------------------------------------------------------------
(* Properties. *)

Results == [text : Nat, complete : BOOLEAN]
Tasks == [doc : Docs, text : Nat, epoch : Nat, complete : BOOLEAN,
          pc : {"debounce", "infer", "recheck", "publish"}]
Reissues == [number : Nat, pc : {"collect", "next", "publish"}, todo : SUBSET (Docs \X Nat),
             at : SUBSET (Docs \X Results)]

TypeOK ==
  /\ docs \in [Docs -> Nat] /\ session \in [Docs -> Nat] /\ epochs \in [Docs -> Nat]
  /\ events \in Nat /\ generation \in Nat /\ fails \in Nat
  /\ server \in [pc : {"idle", "scan", "restart", "opened", "infer", "publish", "changed",
                       "closed"}, at : SUBSET Docs, complete : BOOLEAN]
  /\ pending \in SUBSET Tasks
  /\ status \in Scans!Status
  /\ scanner \in {"none", "thread", "server"}
  /\ scanner = "none" <=> status # "scanning"
  /\ reissues \in SUBSET Reissues
  /\ told \in [Docs -> {Nothing, Latest, Complete}]

\* A debounced publish that passes its second look at the epoch is for the text the document
\* has: whatever a slow inference computed for an older text is dropped.  Excepted are texts
\* from before the document was closed and opened again (see DroppedByReopen), and a handler
\* that has stored its text and not bumped the epoch yet.
LateResultDropped ==
  [][\A t \in pending :
       t.pc = "recheck" /\ [t EXCEPT !.pc = "publish"] \in pending' \ pending
       => \/ docs[t.doc] = t.text
          \/ t.text < session[t.doc]
          \/ server.at = {t.doc} /\ server.pc \in {"opened", "changed", "closed"}]_vars

\* A text that stays gets its diagnostics, however changes, scans and closes interleave.
LatestServed ==
  \A d \in Docs : \A v \in 1 .. MaxEvents :
    docs[d] = v ~> docs[d] # v \/ told[d] # Nothing

\* Once a scan is accepted, every open document gets diagnostics that know the workspace,
\* although it was opened or changed while the scan ran, unless a scan panicked.
CompleteServed ==
  \A d \in Docs : \A v \in 1 .. MaxEvents :
    status = "known" /\ docs[d] = v
      ~> status # "known" \/ docs[d] # v \/ fails > 0 \/ told[d] = Complete

\* "Suppresses missing_method/unresolved_constant before the scan finishes (re-issued once
\* it completes)", whoever completed the scan.
ReissuedAlways ==
  \A d \in Docs : \A v \in 1 .. MaxEvents :
    status = "known" /\ docs[d] = v
      ~> status # "known" \/ docs[d] # v \/ told[d] = Complete

\* "A pending publish is dropped once a newer change (or an open/close) bumps its entry":
\* no task passes its second look at the epoch with a text from before the document was
\* opened last.
DroppedByReopen ==
  [][\A t \in pending :
       t.pc = "recheck" /\ [t EXCEPT !.pc = "publish"] \in pending' \ pending
       => t.text >= session[t.doc] \/ server.pc # "idle"]_vars
===============================================================================
