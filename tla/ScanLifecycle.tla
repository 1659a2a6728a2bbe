---------------------------- MODULE ScanLifecycle ----------------------------
(***************************************************************************)
(* What the language server promises about its workspace scan, without     *)
(* threads, files or locks: the workspace is unknown, being scanned, or    *)
(* known, and every reset opens a new generation.  Only a scan that is     *)
(* under way in the current generation can make the workspace known.       *)
(* WorkspaceScan implements this specification.                            *)
(***************************************************************************)
EXTENDS Naturals

VARIABLES status, generation

vars == <<status, generation>>

Status == {"stale", "scanning", "known"}

Init == status = "stale" /\ generation = 0

\* A scan is started or claimed (start_workspace_scan_if_needed, ensure_workspace_scanned).
Begin == status = "stale" /\ status' = "scanning" /\ UNCHANGED generation

\* The scan of this generation ran to its end and is accepted.
Accept == status = "scanning" /\ status' = "known" /\ UNCHANGED generation

\* The scan of this generation died; a later request may begin another one.
Fail == status = "scanning" /\ status' = "stale" /\ UNCHANGED generation

\* Type definitions or files changed: whatever was known or under way is void.
Reset == status' = "stale" /\ generation' = generation + 1

Next == Begin \/ Accept \/ Fail \/ Reset

Spec == Init /\ [][Next]_vars
==============================================================================
