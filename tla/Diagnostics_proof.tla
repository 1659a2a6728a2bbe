-------------------------- MODULE Diagnostics_proof --------------------------
(***************************************************************************)
(* Proofs about Diagnostics.  The epoch of a document counts the changes   *)
(* since the document was opened, so among the tasks of one session the    *)
(* epoch tells the texts apart: that is EpochTells, which is inductive     *)
(* together with the order in which a handler stores a text and bumps the  *)
(* epoch.                                                                  *)
(***************************************************************************)
EXTENDS Diagnostics, TLAPS

\* The document has a text, or lost it, and its epoch does not say so yet.
Busy(d) == server.at = {d} /\ server.pc \in {"opened", "changed"}
Closing(d) == server.at = {d} /\ server.pc = "closed"

\* Events are numbered in order, and tasks have an epoch.
Numbered ==
  /\ \A d \in Docs : docs[d] <= events /\ session[d] <= events
  /\ \A t \in pending : t.text <= events /\ t.epoch >= 1

\* A document that is not open has no epoch; one that waits for its epoch is open.
NoEpoch ==
  \A d \in Docs : /\ Busy(d) => docs[d] # 0
                  /\ Closing(d) => docs[d] = 0
                  /\ docs[d] = 0 => epochs[d] = 0 \/ Closing(d)

\* Within a session the task with the document's epoch is the one of its text.
EpochTells ==
  \A t \in pending :
    docs[t.doc] # 0 /\ t.text >= session[t.doc]
      => /\ t.epoch <= epochs[t.doc]
         /\ t.epoch = epochs[t.doc] => docs[t.doc] = t.text \/ Busy(t.doc)

\* The server task scans, or it is in a handler.
ServerScans == scanner = "server" => server.pc = "scan"

IInv == TypeOK /\ Numbered /\ NoEpoch /\ EpochTells /\ ServerScans

-----------------------------------------------------------------------------
\* What start_workspace_scan_if_needed does to the scan's own variables.
LEMMA StartTypes ==
  ASSUME TypeOK, StartScan
  PROVE  /\ generation' \in Nat /\ status' \in Scans!Status
         /\ scanner' \in {"none", "thread", "server"}
         /\ scanner' = "none" <=> status' # "scanning"
         /\ scanner' = "server" => scanner = "server"
BY DEF StartScan, TypeOK, Scans!Begin, Scans!Status

\* What a publish does to the history.
LEMMA PublishTypes ==
  ASSUME TypeOK, NEW d \in Docs, NEW r, Publish(d, r)
  PROVE  told' \in [Docs -> {Nothing, Latest, Complete}]
BY DEF Publish, TypeOK, Nothing, Latest, Complete

\* A new text of a document.
LEMMA NewTextTypes ==
  ASSUME TypeOK, NEW d \in Docs, NEW text \in Nat, NewText(d, text)
  PROVE  docs' \in [Docs -> Nat] /\ told' \in [Docs -> {Nothing, Latest, Complete}]
BY DEF NewText, TypeOK

\* The records the tasks, the reissues and the server are.
LEMMA RecordTypes ==
  ASSUME TypeOK
  PROVE  /\ \A d \in Docs : \A e \in Nat : Task(d, e) \in Tasks
         /\ \A n \in Nat : Reissue(n) \in Reissues
         /\ Idle \in [pc : {"idle", "scan", "restart", "opened", "infer", "publish", "changed",
                            "closed"}, at : SUBSET Docs, complete : BOOLEAN]
         /\ \A d \in Docs : \A pc \in {"opened", "infer", "changed", "closed"} :
              At(pc, d) \in [pc : {"idle", "scan", "restart", "opened", "infer", "publish",
                                  "changed", "closed"}, at : SUBSET Docs, complete : BOOLEAN]
         /\ (status = "known") \in BOOLEAN
<1>1. \A d \in Docs : \A e \in Nat : Task(d, e) \in Tasks
  BY DEF Task, Tasks, TypeOK
<1>2. \A n \in Nat : Reissue(n) \in Reissues
  BY DEF Reissue, Reissues
<1>3. Idle \in [pc : {"idle", "scan", "restart", "opened", "infer", "publish", "changed",
                      "closed"}, at : SUBSET Docs, complete : BOOLEAN]
  BY DEF Idle
<1>4. \A d \in Docs : \A pc \in {"opened", "infer", "changed", "closed"} :
        At(pc, d) \in [pc : {"idle", "scan", "restart", "opened", "infer", "publish",
                            "changed", "closed"}, at : SUBSET Docs, complete : BOOLEAN]
  BY DEF At
<1> QED BY <1>1, <1>2, <1>3, <1>4

\* Every variable stays in its range.
LEMMA StepTypes == ASSUME TypeOK, [Next]_vars PROVE TypeOK'
<1> DEFINE Servers == [pc : {"idle", "scan", "restart", "opened", "infer", "publish", "changed",
                             "closed"}, at : SUBSET Docs, complete : BOOLEAN]
<1> DEFINE Told == [Docs -> {Nothing, Latest, Complete}]
<1>1. CASE UNCHANGED vars
  BY <1>1 DEF vars, TypeOK, scanning
<1>2. CASE CodeLens
  BY <1>2, StartTypes DEF CodeLens, TypeOK
<1>3. CASE Hover
  <2>1. server' \in Servers
    BY <1>3 DEF Hover, Idle
  <2>2. generation' \in Nat /\ status' = "scanning" /\ scanner' = "server"
    BY <1>3 DEF Hover, Scans!Begin, TypeOK
  <2> QED BY <1>3, <2>1, <2>2 DEF Hover, TypeOK, Scans!Status
<1>4. CASE Reset
  <2>1. server' \in Servers
    BY <1>4 DEF Reset, Idle
  <2>2. generation' \in Nat /\ status' = "stale" /\ scanner' = "none"
    BY <1>4 DEF Reset, Scans!Reset, TypeOK
  <2> QED BY <1>4, <2>1, <2>2 DEF Reset, TypeOK, Scans!Status
<1>5. CASE Restart
  <2>1. server' \in Servers
    BY <1>5, RecordTypes DEF Restart
  <2> QED BY <1>5, <2>1, StartTypes DEF Restart, TypeOK
<1>6. CASE Accept
  <2>1. server' \in Servers
    BY <1>6, RecordTypes DEF Accept, TypeOK
  <2>2. reissues' \in SUBSET Reissues
    BY <1>6, RecordTypes DEF Accept, TypeOK
  <2>3. told' \in Told
    BY <1>6 DEF Accept, TypeOK, Nothing, Latest, Complete
  <2>4. generation' \in Nat /\ status' = "known" /\ scanner' = "none"
    BY <1>6 DEF Accept, Scans!Accept, TypeOK
  <2> QED BY <1>6, <2>1, <2>2, <2>3, <2>4 DEF Accept, TypeOK, Scans!Status
<1>7. CASE Fail
  <2>1. server' \in Servers
    BY <1>7, RecordTypes DEF Fail, TypeOK
  <2>2. generation' \in Nat /\ status' = "stale" /\ scanner' = "none" /\ fails' \in Nat
    BY <1>7 DEF Fail, Scans!Fail, TypeOK
  <2> QED BY <1>7, <2>1, <2>2 DEF Fail, TypeOK, Scans!Status
<1>8. ASSUME NEW d \in Docs, DidOpen(d) PROVE TypeOK'
  <2>1. events' \in Nat /\ events + 1 \in Nat /\ session' \in [Docs -> Nat]
    BY <1>8 DEF DidOpen, Event, TypeOK
  <2>2. docs' \in [Docs -> Nat] /\ told' \in Told
    BY <1>8, <2>1, NewTextTypes DEF DidOpen
  <2>3. server' \in Servers
    BY <1>8, RecordTypes DEF DidOpen
  <2> QED BY <1>8, <2>1, <2>2, <2>3, StartTypes DEF DidOpen, TypeOK
<1>9. ASSUME NEW d \in Docs, DidChange(d) \/ DidClose(d) PROVE TypeOK'
  <2>1. events' \in Nat /\ events + 1 \in Nat
    BY <1>9 DEF DidChange, DidClose, Event, TypeOK
  <2>2. docs' \in [Docs -> Nat] /\ told' \in Told
    BY <1>9, <2>1, NewTextTypes DEF DidChange, DidClose
  <2>3. server' \in Servers
    BY <1>9, RecordTypes DEF DidChange, DidClose
  <2> QED BY <1>9, <2>1, <2>2, <2>3 DEF DidChange, DidClose, TypeOK, scanning
<1>10. ASSUME NEW d \in Docs, Opened(d) \/ InferOpened(d) \/ Closed(d) PROVE TypeOK'
  <2>1. server' \in Servers
    <3>1. CASE Opened(d)
      BY <3>1, RecordTypes DEF Opened
    <3>2. CASE InferOpened(d)
      <4> DEFINE known == status = "known"
      <4>1. known \in BOOLEAN
        OBVIOUS
      <4>2. server' = [server EXCEPT !.pc = "publish", !.complete = known]
        BY <3>2 DEF InferOpened
      <4> HIDE DEF known
      <4> QED BY <4>1, <4>2 DEF TypeOK
    <3>3. CASE Closed(d)
      BY <3>3, RecordTypes DEF Closed
    <3> QED BY <1>10, <3>1, <3>2, <3>3
  <2>2. epochs' \in [Docs -> Nat]
    BY <1>10 DEF Opened, InferOpened, Closed, NextEpoch, TypeOK
  <2> QED BY <1>10, <2>1, <2>2 DEF Opened, InferOpened, Closed, TypeOK, scanning
<1>11. ASSUME NEW d \in Docs, PublishOpened(d) PROVE TypeOK'
  <2>1. server' \in Servers
    BY <1>11, RecordTypes DEF PublishOpened
  <2>2. told' \in Told
    BY <1>11, PublishTypes DEF PublishOpened
  <2> QED BY <1>11, <2>1, <2>2 DEF PublishOpened, TypeOK, scanning
<1>12. ASSUME NEW d \in Docs, Changed(d) PROVE TypeOK'
  <2>1. server' \in Servers
    BY <1>12, RecordTypes DEF Changed
  <2>2. epochs' \in [Docs -> Nat]
    BY <1>12 DEF Changed, NextEpoch, TypeOK
  <2>3. Task(d, epochs'[d]) \in Tasks
    BY <2>2, RecordTypes
  <2>4. pending' \in SUBSET Tasks
    BY <1>12, <2>3 DEF Changed, TypeOK
  <2> QED BY <1>12, <2>1, <2>2, <2>4 DEF Changed, TypeOK, scanning
<1>13. ASSUME NEW t \in pending, Wake(t) \/ Infer(t) \/ Recheck(t) PROVE TypeOK'
  <2>1. t \in Tasks
    BY DEF TypeOK
  <2>2. \A pc \in {"infer", "recheck", "publish"} : \A b \in BOOLEAN :
          /\ [t EXCEPT !.pc = pc] \in Tasks
          /\ [t EXCEPT !.pc = pc, !.complete = b] \in Tasks
    BY <2>1 DEF Tasks
  <2>3. pending' \in SUBSET Tasks
    <3> DEFINE known == status = "known"
    <3>1. known \in BOOLEAN
      OBVIOUS
    <3>2. CASE Wake(t)
      BY <3>2, <2>2 DEF Wake, Step, TypeOK
    <3>3. CASE Recheck(t)
      BY <3>3, <2>2 DEF Recheck, Step, TypeOK
    <3>4. CASE Infer(t)
      <4>1. pending' = (pending \ {t}) \union {[t EXCEPT !.pc = "recheck", !.complete = known]}
        BY <3>4 DEF Infer, Step
      <4> HIDE DEF known
      <4> QED BY <3>1, <4>1, <2>2 DEF TypeOK
    <3> QED BY <1>13, <3>2, <3>3, <3>4
  <2> QED BY <1>13, <2>3 DEF Wake, Infer, Recheck, Step, TypeOK, scanning
<1>14. ASSUME NEW t \in pending, PublishChanged(t) PROVE TypeOK'
  <2>1. t \in Tasks /\ t.doc \in Docs
    BY DEF TypeOK, Tasks
  <2>2. told' \in Told
    BY <1>14, <2>1, PublishTypes DEF PublishChanged
  <2>3. pending' \in SUBSET Tasks
    BY <1>14 DEF PublishChanged, Step, TypeOK
  <2> QED BY <1>14, <2>2, <2>3 DEF PublishChanged, Step, TypeOK, scanning
<1>15. ASSUME NEW r \in reissues, Collect(r) \/ InferNext(r) PROVE TypeOK'
  <2>1. r \in Reissues
    BY DEF TypeOK
  <2>2. \A todo \in SUBSET (Docs \X Nat) : [r EXCEPT !.pc = "next", !.todo = todo] \in Reissues
    BY <2>1 DEF Reissues
  <2>3. {<<d, docs[d]>> : d \in Open} \in SUBSET (Docs \X Nat)
    BY DEF Open, TypeOK
  <2>4. \A c \in r.todo : /\ r.todo \ {c} \in SUBSET (Docs \X Nat)
                          /\ {<<c[1], Result(c[2])>>} \in SUBSET (Docs \X Results)
    <3>1. \A text \in Nat : Result(text) \in Results
      <4> DEFINE known == status = "known"
      <4>1. known \in BOOLEAN
        OBVIOUS
      <4>2. \A text : Result(text) = [text |-> text, complete |-> known]
        BY DEF Result
      <4> HIDE DEF known
      <4> QED BY <4>1, <4>2 DEF Results
    <3>2. r.todo \in SUBSET (Docs \X Nat)
      BY <2>1 DEF Reissues
    <3>3. \A c \in r.todo : c[1] \in Docs /\ c[2] \in Nat
      BY <3>2
    <3> QED BY <3>1, <3>2, <3>3
  <2>5. reissues' \in SUBSET Reissues
    <3>1. CASE Collect(r)
      <4>1. [r EXCEPT !.pc = "next", !.todo = {<<d, docs[d]>> : d \in Open}] \in Reissues
        BY <2>2, <2>3
      <4> QED BY <3>1, <4>1 DEF Collect, Continue, TypeOK
    <3>2. CASE InferNext(r)
      <4>1. CASE r.todo = {}
        BY <3>2, <4>1 DEF InferNext, Continue, TypeOK
      <4>2. CASE r.todo # {}
        <5>1. PICK c \in r.todo :
                Continue(r, {[r EXCEPT !.pc = "publish", !.todo = r.todo \ {c},
                                       !.at = {<<c[1], Result(c[2])>>}]})
          BY <3>2, <4>2 DEF InferNext
        <5> DEFINE at == {<<c[1], Result(c[2])>>}
        <5>2. at \in SUBSET (Docs \X Results) /\ r.todo \ {c} \in SUBSET (Docs \X Nat)
          BY <2>4
        <5>3. [r EXCEPT !.pc = "publish", !.todo = r.todo \ {c}, !.at = at] \in Reissues
          <6> HIDE DEF at
          <6> QED BY <2>1, <5>2 DEF Reissues
        <5> QED BY <5>1, <5>3 DEF Continue, TypeOK
      <4> QED BY <4>1, <4>2
    <3> QED BY <1>15, <3>1, <3>2
  <2> QED BY <1>15, <2>5 DEF Collect, InferNext, Continue, TypeOK, scanning
<1>16. ASSUME NEW r \in reissues, PublishNext(r) PROVE TypeOK'
  <2>1. r \in Reissues
    BY DEF TypeOK
  <2>2. told' \in Told
    <3>1. PICK c \in r.at : Publish(c[1], c[2])
      BY <1>16 DEF PublishNext
    <3>2. c[1] \in Docs
      BY <2>1 DEF Reissues
    <3> QED BY <3>1, <3>2, PublishTypes
  <2>3. [r EXCEPT !.pc = "next", !.at = {}] \in Reissues
    BY <2>1 DEF Reissues
  <2>4. reissues' \in SUBSET Reissues
    BY <1>16, <2>3 DEF PublishNext, Continue, TypeOK
  <2> QED BY <1>16, <2>2, <2>4 DEF PublishNext, Continue, TypeOK, scanning
<1> QED BY <1>1, <1>2, <1>3, <1>4, <1>5, <1>6, <1>7, <1>8, <1>9, <1>10, <1>11, <1>12, <1>13,
          <1>14, <1>15, <1>16 DEF Next, Editor, Handler, Debounced, Reissued

\* The server starts with nothing open and nothing running.
LEMMA InitTypes == Init => TypeOK
<1> SUFFICES ASSUME Init PROVE TypeOK
  OBVIOUS
<1>1. server \in [pc : {"idle", "scan", "restart", "opened", "infer", "publish", "changed",
                        "closed"}, at : SUBSET Docs, complete : BOOLEAN]
  BY DEF Init, Idle
<1> QED BY <1>1 DEF Init, Scans!Init, TypeOK, Scans!Status

\* Every variable of the server, of its tasks and of the scan stays in its range, and a scan
\* is under way exactly while somebody runs it.
THEOREM DiagnosticsTypeCorrect == Spec => []TypeOK
<1>1. TypeOK /\ [Next]_vars => TypeOK'
  BY StepTypes
<1> QED BY <1>1, InitTypes, PTL DEF Spec
-----------------------------------------------------------------------------
\* A step that leaves alone what the invariant is about, or gives up some tasks, or moves
\* tasks on, keeps it.
LEMMA QuietKeeps ==
  ASSUME IInv, TypeOK', UNCHANGED <<docs, session, events, epochs>>,
         \A u \in pending' : \E t \in pending : /\ u.doc = t.doc /\ u.text = t.text
                                                /\ u.epoch = t.epoch,
         \A d \in Docs : (Busy(d) <=> Busy(d)') /\ (Closing(d) <=> Closing(d)'),
         ServerScans'
  PROVE  IInv'
<1>1. Numbered'
  BY DEF IInv, Numbered
<1>2. NoEpoch'
  BY DEF IInv, NoEpoch
<1>3. EpochTells'
  <2> SUFFICES ASSUME NEW u \in pending', docs[u.doc] # 0, u.text >= session[u.doc]
               PROVE  /\ u.epoch <= epochs[u.doc]
                      /\ u.epoch = epochs[u.doc] => docs[u.doc] = u.text \/ Busy(u.doc)'
    BY DEF EpochTells
  <2>1. PICK t \in pending : u.doc = t.doc /\ u.text = t.text /\ u.epoch = t.epoch
    OBVIOUS
  <2>2. u.doc \in Docs
    BY <2>1 DEF IInv, TypeOK, Tasks
  <2> QED BY <2>1, <2>2 DEF IInv, EpochTells
<1> QED BY <1>1, <1>2, <1>3 DEF IInv

\* Whoever is idle, scans or restarts is neither between a text and its epoch nor closing.
LEMMA AtRest ==
  ASSUME server.pc \notin {"opened", "changed", "closed"}
  PROVE  \A d \in Docs : ~Busy(d) /\ ~Closing(d)
BY DEF Busy, Closing

\* The steps of the scan and of the server's requests.
LEMMA ScanKeeps ==
  ASSUME IInv, [Next]_vars,
         CodeLens \/ Hover \/ Reset \/ Restart \/ Accept \/ Fail
  PROVE  IInv'
<1>1. TypeOK'
  BY StepTypes DEF IInv
<1>2. UNCHANGED <<docs, session, events, epochs, pending>>
  BY DEF CodeLens, Hover, Reset, Restart, Accept, Fail
<1>3. \A u \in pending' : \E t \in pending : u.doc = t.doc /\ u.text = t.text /\ u.epoch = t.epoch
  BY <1>2
<1>4. /\ server' = server \/ /\ server.pc \in {"idle", "restart", "scan"}
                             /\ server'.pc \in {"idle", "restart", "scan"}
      /\ ServerScans'
  <2>1. CASE CodeLens
    BY <2>1, StartTypes DEF CodeLens, IInv, ServerScans
  <2>2. CASE Hover
    BY <2>2 DEF Hover, Idle, ServerScans
  <2>3. CASE Reset
    BY <2>3 DEF Reset, Idle, ServerScans
  <2>4. CASE Restart
    BY <2>4, StartTypes DEF Restart, Idle, IInv, ServerScans
  <2>5. CASE Accept \/ Fail
    BY <2>5 DEF Accept, Fail, Idle, IInv, ServerScans
  <2> QED BY <2>1, <2>2, <2>3, <2>4, <2>5
<1>5. \A d \in Docs : (Busy(d) <=> Busy(d)') /\ (Closing(d) <=> Closing(d)')
  BY <1>4 DEF Busy, Closing
<1> QED BY <1>1, <1>2, <1>3, <1>4, <1>5, QuietKeeps

\* The steps of the tasks and of the handler that opens a document once the epoch is bumped.
LEMMA TaskKeeps ==
  ASSUME IInv, [Next]_vars,
         \/ \E d \in Docs : InferOpened(d) \/ PublishOpened(d)
         \/ Debounced \/ Reissued
  PROVE  IInv'
<1>1. TypeOK'
  BY StepTypes DEF IInv
<1>2. UNCHANGED <<docs, session, events, epochs, scanner>>
  BY DEF InferOpened, PublishOpened, Debounced, Wake, Infer, Recheck, PublishChanged, Step,
         Reissued, Collect, InferNext, PublishNext, Continue, scanning
<1>3. /\ server' = server \/ /\ server.pc \in {"infer", "publish"}
                             /\ server'.pc \in {"idle", "publish"}
      /\ ServerScans'
  <2>1. ASSUME NEW d \in Docs, InferOpened(d) PROVE server.pc = "infer" /\ server'.pc = "publish"
    BY <2>1 DEF InferOpened, At, IInv, TypeOK
  <2>2. ASSUME NEW d \in Docs, PublishOpened(d) PROVE server.pc = "publish" /\ server'.pc = "idle"
    BY <2>2 DEF PublishOpened, Idle
  <2>3. ASSUME Debounced \/ Reissued PROVE server' = server
    <3>1. ASSUME NEW t \in pending, Wake(t) \/ Infer(t) \/ Recheck(t) \/ PublishChanged(t)
          PROVE  server' = server
      BY <3>1 DEF Wake, Infer, Recheck, PublishChanged, Step
    <3>2. ASSUME NEW r \in reissues, Collect(r) \/ InferNext(r) \/ PublishNext(r)
          PROVE  server' = server
      BY <3>2 DEF Collect, InferNext, PublishNext, Continue
    <3> QED BY <2>3, <3>1, <3>2 DEF Debounced, Reissued
  <2>4. scanner' = scanner /\ ServerScans
    BY <1>2 DEF IInv
  <2> QED BY <2>1, <2>2, <2>3, <2>4 DEF ServerScans
<1>4. \A d \in Docs : (Busy(d) <=> Busy(d)') /\ (Closing(d) <=> Closing(d)')
  BY <1>3 DEF Busy, Closing
<1>5. \A u \in pending' : \E t \in pending : u.doc = t.doc /\ u.text = t.text /\ u.epoch = t.epoch
  <2>1. CASE ~Debounced
    BY <2>1 DEF InferOpened, PublishOpened, Reissued, Collect, InferNext, PublishNext, Continue
  <2>2. CASE Debounced
    <3>1. PICK t \in pending : Wake(t) \/ Infer(t) \/ Recheck(t) \/ PublishChanged(t)
      BY <2>2 DEF Debounced
    <3>2. t \in Tasks
      BY DEF IInv, TypeOK
    <3>3. ASSUME NEW u \in pending', u \notin pending
          PROVE  u.doc = t.doc /\ u.text = t.text /\ u.epoch = t.epoch
      <4>1. CASE Wake(t)
        BY <3>2, <3>3, <4>1 DEF Wake, Step, Tasks
      <4>2. CASE Infer(t)
        <5> DEFINE known == status = "known"
        <5>1. u = [t EXCEPT !.pc = "recheck", !.complete = known]
          BY <3>3, <4>2 DEF Infer, Step
        <5> HIDE DEF known
        <5> QED BY <3>2, <5>1 DEF Tasks
      <4>3. CASE Recheck(t)
        BY <3>2, <3>3, <4>3 DEF Recheck, Step, Tasks
      <4>4. CASE PublishChanged(t)
        BY <3>3, <4>4 DEF PublishChanged, Step
      <4> QED BY <3>1, <4>1, <4>2, <4>3, <4>4
    <3> QED BY <3>3
  <2> QED BY <2>1, <2>2
<1> QED BY <1>1, <1>2, <1>3, <1>4, <1>5, QuietKeeps

\* The handlers of documents.
LEMMA DocKeeps ==
  ASSUME IInv, [Next]_vars, NEW d \in Docs,
         DidOpen(d) \/ DidChange(d) \/ DidClose(d) \/ Opened(d) \/ Changed(d) \/ Closed(d)
  PROVE  IInv'
<1> USE DEF IInv
<1>0. TypeOK'
  BY StepTypes
<1>a. \A t \in pending : t \in Tasks /\ t.doc \in Docs /\ t.text \in Nat /\ t.epoch \in Nat
  BY DEF TypeOK, Tasks
<1>1. CASE DidOpen(d)
  <2>1. /\ server.pc = "idle" /\ server'.pc = "opened" /\ server'.at = {d}
        /\ docs' = [docs EXCEPT ![d] = events + 1] /\ session' = [session EXCEPT ![d] = events + 1]
        /\ events' = events + 1 /\ UNCHANGED <<epochs, pending>> /\ ServerScans'
    BY <1>1, StartTypes DEF DidOpen, Event, NewText, At, ServerScans
  <2>2. Numbered'
    BY <2>1, <1>a DEF Numbered, TypeOK
  <2>3. NoEpoch'
    BY <2>1 DEF NoEpoch, Busy, Closing, TypeOK
  <2>4. EpochTells'
    BY <2>1, <1>a DEF EpochTells, Numbered, Busy, TypeOK
  <2> QED BY <1>0, <2>1, <2>2, <2>3, <2>4
<1>2. CASE DidChange(d)
  <2>1. /\ server.pc = "idle" /\ server'.pc = "changed" /\ server'.at = {d}
        /\ docs' = [docs EXCEPT ![d] = events + 1] /\ docs[d] # 0
        /\ events' = events + 1 /\ UNCHANGED <<session, epochs, pending, scanner>>
    BY <1>2 DEF DidChange, Event, NewText, At, scanning
  <2>2. Numbered'
    BY <2>1, <1>a DEF Numbered, TypeOK
  <2>3. NoEpoch'
    BY <2>1 DEF NoEpoch, Busy, Closing, TypeOK
  <2>4. EpochTells'
    BY <2>1, <1>a DEF EpochTells, Busy, TypeOK
  <2>5. ServerScans'
    BY <2>1 DEF ServerScans
  <2> QED BY <1>0, <2>2, <2>3, <2>4, <2>5
<1>3. CASE DidClose(d)
  <2>1. /\ server.pc = "idle" /\ server'.pc = "closed" /\ server'.at = {d}
        /\ docs' = [docs EXCEPT ![d] = 0]
        /\ events' = events + 1 /\ UNCHANGED <<session, epochs, pending, scanner>>
    BY <1>3 DEF DidClose, Event, NewText, At, scanning
  <2>2. Numbered'
    BY <2>1, <1>a DEF Numbered, TypeOK
  <2>3. NoEpoch'
    BY <2>1 DEF NoEpoch, Busy, Closing, TypeOK
  <2>4. EpochTells'
    BY <2>1, <1>a DEF EpochTells, Busy, TypeOK
  <2>5. ServerScans'
    BY <2>1 DEF ServerScans
  <2> QED BY <1>0, <2>2, <2>3, <2>4, <2>5
<1>4. CASE Opened(d)
  <2>1. /\ server.pc = "opened" /\ server.at = {d} /\ server'.pc = "infer"
        /\ epochs' = [epochs EXCEPT ![d] = @ + 1]
        /\ UNCHANGED <<docs, session, events, pending, scanner>>
    BY <1>4 DEF Opened, NextEpoch, At, scanning
  <2>2. Numbered'
    BY <2>1 DEF Numbered
  <2>3. docs[d] # 0
    BY <2>1 DEF NoEpoch, Busy
  <2>4. NoEpoch'
    BY <2>1, <2>3 DEF NoEpoch, Busy, Closing, TypeOK
  <2>5. EpochTells'
    BY <2>1, <1>a DEF EpochTells, Busy, TypeOK
  <2>6. ServerScans'
    BY <2>1 DEF ServerScans
  <2> QED BY <1>0, <2>2, <2>4, <2>5, <2>6
<1>5. CASE Changed(d)
  <2>1. /\ server.pc = "changed" /\ server.at = {d} /\ server'.pc = "idle"
        /\ epochs' = [epochs EXCEPT ![d] = @ + 1]
        /\ pending' = pending \union {Task(d, epochs'[d])}
        /\ UNCHANGED <<docs, session, events, scanner>>
    BY <1>5 DEF Changed, NextEpoch, At, Idle, scanning
  <2>2. epochs'[d] = epochs[d] + 1 /\ epochs[d] \in Nat /\ docs[d] \in Nat
    BY <2>1 DEF TypeOK
  <2>3. /\ Task(d, epochs'[d]).doc = d /\ Task(d, epochs'[d]).text = docs[d]
        /\ Task(d, epochs'[d]).epoch = epochs'[d]
    BY DEF Task
  <2>4. Numbered'
    BY <2>1, <2>2, <2>3, <1>a DEF Numbered
  <2>5. docs[d] # 0
    BY <2>1 DEF NoEpoch, Busy
  <2>6. NoEpoch'
    BY <2>1, <2>5 DEF NoEpoch, Busy, Closing, TypeOK
  <2>7. EpochTells'
    BY <2>1, <2>2, <2>3, <1>a DEF EpochTells, Busy, TypeOK
  <2>8. ServerScans'
    BY <2>1 DEF ServerScans
  <2> QED BY <1>0, <2>4, <2>6, <2>7, <2>8
<1>6. CASE Closed(d)
  <2>1. /\ server.pc = "closed" /\ server.at = {d} /\ server'.pc = "idle"
        /\ epochs' = [epochs EXCEPT ![d] = 0]
        /\ UNCHANGED <<docs, session, events, pending, scanner>>
    BY <1>6 DEF Closed, At, Idle, scanning
  <2>2. docs[d] = 0
    BY <2>1 DEF NoEpoch, Busy, Closing
  <2>3. Numbered'
    BY <2>1 DEF Numbered
  <2>4. NoEpoch'
    BY <2>1, <2>2 DEF NoEpoch, Busy, Closing, TypeOK
  <2>5. EpochTells'
    BY <2>1, <2>2, <1>a DEF EpochTells, Busy, TypeOK
  <2>6. ServerScans'
    BY <2>1 DEF ServerScans
  <2> QED BY <1>0, <2>3, <2>4, <2>5, <2>6
<1> QED BY <1>1, <1>2, <1>3, <1>4, <1>5, <1>6

\* Every step keeps the invariant.
LEMMA StepKeeps == ASSUME IInv, [Next]_vars PROVE IInv'
<1>1. CASE UNCHANGED vars
  BY <1>1 DEF vars, IInv, TypeOK, Numbered, NoEpoch, EpochTells, ServerScans, Busy, Closing
<1>2. CASE CodeLens \/ Hover \/ Reset \/ Restart \/ Accept \/ Fail
  BY <1>2, ScanKeeps
<1>3. CASE \/ \E d \in Docs : InferOpened(d) \/ PublishOpened(d)
           \/ Debounced \/ Reissued
  BY <1>3, TaskKeeps
<1>4. ASSUME NEW d \in Docs,
             DidOpen(d) \/ DidChange(d) \/ DidClose(d) \/ Opened(d) \/ Changed(d) \/ Closed(d)
      PROVE  IInv'
  BY <1>4, DocKeeps
<1> QED BY <1>1, <1>2, <1>3, <1>4 DEF Next, Editor, Handler

\* Only its own second look at the epoch takes a task to its publish.
LEMMA LateStep ==
  ASSUME IInv, [Next]_vars, NEW t \in pending, t.pc = "recheck",
         [t EXCEPT !.pc = "publish"] \in pending' \ pending
  PROVE  \/ docs[t.doc] = t.text
         \/ t.text < session[t.doc]
         \/ server.at = {t.doc} /\ server.pc \in {"opened", "changed", "closed"}
<1> DEFINE u == [t EXCEPT !.pc = "publish"]
<1>1. t \in Tasks /\ t.doc \in Docs /\ u.pc = "publish"
  BY DEF IInv, TypeOK, Tasks
<1>2. Current(t)
  <2>1. CASE Debounced
    <3>1. PICK q \in pending : Wake(q) \/ Infer(q) \/ Recheck(q) \/ PublishChanged(q)
      BY <2>1 DEF Debounced
    <3>2. q \in Tasks
      BY DEF IInv, TypeOK
    <3>3. Recheck(q) /\ Current(q) /\ u = [q EXCEPT !.pc = "publish"]
      <4>1. ~Wake(q)
        BY <1>1, <3>2 DEF Wake, Step, Tasks
      <4>2. ASSUME Infer(q) PROVE FALSE
        <5> DEFINE known == status = "known"
        <5>1. u = [q EXCEPT !.pc = "recheck", !.complete = known]
          BY <4>2 DEF Infer, Step
        <5> HIDE DEF known
        <5> QED BY <1>1, <3>2, <5>1 DEF Tasks
      <4>3. ~PublishChanged(q)
        BY DEF PublishChanged, Step
      <4> QED BY <3>1, <4>1, <4>2, <4>3 DEF Recheck, Step
    <3>4. q.doc = t.doc /\ q.epoch = t.epoch
      BY <3>2, <3>3, <1>1 DEF Tasks
    <3> QED BY <3>3, <3>4 DEF Current
  <2>2. ASSUME NEW d \in Docs, Changed(d) PROVE FALSE
    <3>1. u = Task(d, epochs'[d])
      BY <2>2 DEF Changed
    <3> QED BY <3>1, <1>1 DEF Task
  <2>3. CASE UNCHANGED pending
    BY <2>3
  <2>4. \/ Debounced \/ UNCHANGED pending
        \/ \E d \in Docs : Changed(d)
    BY DEF Next, Editor, Handler, Reissued, CodeLens, Hover, Reset, Restart, Accept, Fail,
           DidOpen, DidChange, DidClose, Opened, InferOpened, PublishOpened, Closed,
           Collect, InferNext, PublishNext, Continue, vars
  <2> QED BY <2>1, <2>2, <2>3, <2>4
<1>3. t.epoch >= 1 /\ epochs[t.doc] = t.epoch
  BY <1>2 DEF IInv, Numbered, Current
<1>4. CASE docs[t.doc] = 0
  BY <1>1, <1>3, <1>4 DEF IInv, NoEpoch, Closing
<1>5. CASE docs[t.doc] # 0 /\ t.text >= session[t.doc]
  BY <1>1, <1>3, <1>5 DEF IInv, EpochTells, Busy
<1>6. t.text \in Nat /\ session[t.doc] \in Nat
  BY <1>1 DEF IInv, TypeOK, Tasks
<1> QED BY <1>4, <1>5, <1>6

\* Whatever the numbers of documents, changes and tasks, the second look at the epoch drops
\* what an inference computed for a text that is no longer there.
THEOREM LateResultDroppedHolds == Spec => LateResultDropped
<1>1. Init => IInv
  BY InitTypes DEF Init, IInv, Numbered, NoEpoch, EpochTells, ServerScans, Busy, Closing, Idle
<1>2. IInv /\ [Next]_vars => IInv'
  BY StepKeeps
<1>3. IInv /\ [Next]_vars =>
        [\A t \in pending :
           t.pc = "recheck" /\ [t EXCEPT !.pc = "publish"] \in pending' \ pending
           => \/ docs[t.doc] = t.text
              \/ t.text < session[t.doc]
              \/ server.at = {t.doc} /\ server.pc \in {"opened", "changed", "closed"}]_vars
  BY LateStep
<1> QED BY <1>1, <1>2, <1>3, PTL DEF Spec, LateResultDropped
===============================================================================
