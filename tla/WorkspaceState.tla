---------------------------- MODULE WorkspaceState ----------------------------
(***************************************************************************)
(* The registries the server derives from the snapshots of its files        *)
(* (src/src/workspace_state.rs, src/src/workspace_state/): the registry of  *)
(* the whole workspace, the registry that displays of any file start from,  *)
(* and what lsp.rs keeps of finished displays.  None of them is updated     *)
(* with the snapshots: each is thrown away by an invalidation, or recognised*)
(* as outdated by a fingerprint that is part of its key.  All of it is      *)
(* behind the mutex of LspState, so an operation is one action.             *)
(*                                                                         *)
(* Data.  The snapshot of a file is a record of the facts the fingerprints  *)
(* tell apart: the classes it defines, the names it refers to (a type that  *)
(* is not resolved yet counts as a reference), the facts both fingerprints  *)
(* cover, the order of parameters, which only the export fingerprint        *)
(* covers, and the facts only the registry fingerprint covers.  No          *)
(* fingerprint sees the order of mixins: snapshots that differ in nothing   *)
(* else are one snapshot here.  Its text is the snapshot itself.            *)
(* The dependency graph appears as what it promises (Dependencies), without *)
(* edge kinds and nested namespaces.  Snapshots are merged by file here;    *)
(* which of two definitions wins is left out.                               *)
(***************************************************************************)
EXTENDS Naturals, FiniteSets

CONSTANTS
  RbFiles,      \* paths of Ruby files
  OpenFiles,    \* those that are open, which alone are displayed
  Names,        \* names of classes
  Snapshots,    \* the snapshots files can have
  NoFile,       \* there is no snapshot
  DisplayLimit, \* DISPLAY_RESULT_CACHE_LIMIT
  MaxReloads    \* bound: changes of type definitions

ASSUME WorkspaceConstants ==
  /\ \A t \in Snapshots : t.names \in SUBSET Names /\ t.refs \in SUBSET Names
  /\ NoFile \notin Snapshots
  /\ OpenFiles \subseteq RbFiles
  /\ DisplayLimit \in Nat \ {0}
  /\ MaxReloads \in Nat

VARIABLES
  files,                \* path |-> snapshot
  file_deps_of,         \* path |-> what the dependency graph has of it
  dirty_files,
  user_rbs_of,          \* the number of the `.rbs` contents loaded last
  type_env_generation,  \* counts changes of type definitions, of `.rbi` files too
  cached_registry,      \* a registry, or NoRegistry
  cached_display_base_registry,
  cached_display_registry,
  cached_display

stateVars == <<files, file_deps_of, dirty_files, user_rbs_of, type_env_generation,
               cached_registry, cached_display_base_registry, cached_display_registry,
               cached_display>>
ws_env == <<user_rbs_of, type_env_generation>>
ws_displays == <<cached_display_registry, cached_display>>

Graph == INSTANCE Dependencies WITH
  Paths <- RbFiles, Symbols <- Names, EdgeKinds <- {}, Untracked <- NoFile, deps <- file_deps_of

\* What others can see.  hash_export_method takes the parameters one after the other.
ExportFingerprint(t) == [names |-> t.names, exports |-> t.exports, order |-> t.order]

\* What a merge takes in.  hash_registry_method combines the parameters without their order.
RegistryFingerprint(t) == [names |-> t.names, exports |-> t.exports, body |-> t.body]

Fingerprints == {RegistryFingerprint(t) : t \in Snapshots} \union {NoFile}

ASSUME NoFileIsNone == NoFile \notin [RbFiles -> Fingerprints]

Prints(fs) == [p \in RbFiles |-> IF fs[p] = NoFile THEN NoFile ELSE RegistryFingerprint(fs[p])]

\* The definitions of type files and of the snapshots, merged.
Merge(fs) == [rbs |-> user_rbs_of, files |-> fs]
NoRegistry == [rbs |-> 0, files |-> NoFile]
NoBase == [key |-> NoFile, registry |-> NoRegistry]

StateInit ==
  /\ files = [p \in RbFiles |-> NoFile]
  /\ file_deps_of = [p \in RbFiles |-> NoFile]
  /\ dirty_files = {}
  /\ user_rbs_of = 1
  /\ type_env_generation = 1
  /\ cached_registry = NoRegistry
  /\ cached_display_base_registry = NoBase
  /\ cached_display_registry = <<>>
  /\ cached_display = <<>>

-----------------------------------------------------------------------------
(* Changes of the snapshots. *)

DepsOf(t) == [defined |-> t.names, referenced |-> t.refs, edges |-> {}]

\* Mutant: only what others can see counts as a change.
UpsertOnExports(p, t, scanned) ==
  LET exports_changed == files[p] = NoFile \/ ExportFingerprint(files[p]) # ExportFingerprint(t) IN
  /\ files' = [files EXCEPT ![p] = t]
  /\ Graph!Update(p, DepsOf(t))
  /\ cached_registry' = IF exports_changed THEN NoRegistry ELSE cached_registry
  /\ dirty_files' = IF ~exports_changed THEN dirty_files \ {p}
                    ELSE dirty_files \union {p}

\* upsert_file_with_stamp_and_fingerprints_impl, scanned with skip_dependent_invalidation.
Upsert(p, t, scanned) ==
  LET old == files[p]
      exports_changed == old = NoFile \/ ExportFingerprint(old) # ExportFingerprint(t)
      registry_changed == old = NoFile \/ RegistryFingerprint(old) # RegistryFingerprint(t)
  IN
  /\ files' = [files EXCEPT ![p] = t]
  /\ Graph!Update(p, DepsOf(t))
  /\ cached_registry' = IF registry_changed THEN NoRegistry ELSE cached_registry
  /\ dirty_files' = IF ~exports_changed THEN dirty_files \ {p}
                    ELSE IF scanned THEN dirty_files
                    ELSE dirty_files \union {p}
                           \union {q \in RbFiles : file_deps_of'[q] # NoFile
                                     /\ file_deps_of'[q].referenced \intersect t.names # {}}

UpsertFile(p, t) ==
  /\ \E scanned \in BOOLEAN : Upsert(p, t, scanned)
  /\ UNCHANGED <<ws_env, cached_display_base_registry, ws_displays>>

MarkFileDirty(p) ==
  /\ files[p] # NoFile
  /\ dirty_files' = dirty_files \union {p}
  /\ UNCHANGED <<files, file_deps_of, ws_env, cached_registry, cached_display_base_registry,
                 ws_displays>>

\* Mutant: the display base is left to its key.
InvalidateMergedOnly ==
  /\ cached_registry' = NoRegistry
  /\ UNCHANGED cached_display_base_registry

InvalidateRegistry ==
  /\ cached_registry' = NoRegistry
  /\ cached_display_base_registry' = NoBase

\* remove_file: the files that refer to what it defined become dirty.
\* The snapshot may be gone already, or the file have none yet.
RemoveRbFile(p) ==
  /\ files' = [files EXCEPT ![p] = NoFile]
  /\ dirty_files' = (dirty_files \ {p})
       \union (IF file_deps_of[p] = NoFile THEN {} ELSE Graph!DependentsOf(file_deps_of[p].defined))
  /\ Graph!Remove(p)
  /\ InvalidateRegistry
  /\ UNCHANGED <<ws_env, ws_displays>>

\* invalidate_dependents_of: their snapshots are given up, their dependencies are not.
InvalidateDependentsOf(symbols) ==
  /\ files' = [p \in RbFiles |->
       IF p \in Graph!DependentsOf(symbols) THEN NoFile ELSE files[p]]
  /\ dirty_files' = dirty_files \union Graph!DependentsOf(symbols)
  /\ InvalidateRegistry
  /\ UNCHANGED <<file_deps_of, ws_env, ws_displays>>

\* reload_single_type_file, of an `.rbs` or an `.rbi` file; the classes of the file are
\* invalidated by an InvalidateDependentsOf of its own.
ReloadTypeFile(is_rbi) ==
  /\ type_env_generation <= MaxReloads
  /\ user_rbs_of' = IF is_rbi THEN user_rbs_of ELSE user_rbs_of + 1
  /\ type_env_generation' = type_env_generation + 1
  /\ InvalidateRegistry
  /\ cached_display_registry' = <<>>
  /\ cached_display' = <<>>
  /\ UNCHANGED <<files, file_deps_of, dirty_files>>

\* reload_type_definitions, which clears the workspace state.
ReloadTypeDefinitions ==
  /\ type_env_generation <= MaxReloads
  /\ user_rbs_of' = user_rbs_of + 1
  /\ type_env_generation' = type_env_generation + 1
  /\ files' = [p \in RbFiles |-> NoFile]
  /\ file_deps_of' = [p \in RbFiles |-> NoFile]
  /\ dirty_files' = {}
  /\ InvalidateRegistry
  /\ cached_display_registry' = <<>>
  /\ cached_display' = <<>>

-----------------------------------------------------------------------------
(* Queries. *)

\* workspace_registry.  A dirty file makes it merge again, from the snapshots as they are.
WorkspaceRegistry ==
  /\ cached_registry = NoRegistry \/ dirty_files # {}
  /\ cached_registry' = Merge(files)
  /\ dirty_files' = {}
  /\ UNCHANGED <<files, file_deps_of, ws_env, cached_display_base_registry, ws_displays>>

\* warm_display_base_registry: the base, fresh unless its key still fits.
Base(fs) ==
  IF cached_display_base_registry.key = Prints(fs) THEN cached_display_base_registry
  ELSE [key |-> Prints(fs), registry |-> Merge(fs)]

Warm ==
  /\ cached_display_base_registry' = Base(files)
  /\ UNCHANGED <<files, file_deps_of, dirty_files, ws_env, cached_registry, ws_displays>>

\* display_scope_key: the other files, with their fingerprints, and the classes of this one.
DisplayScopeKey(p, fs) ==
  [others |-> [Prints(fs) EXCEPT ![p] = NoFile],
   classes |-> IF fs[p] = NoFile THEN {} ELSE fs[p].names]

\* display_can_skip_workspace_context: no other file matters to this one, or it to another.
CanSkipWorkspace(p, fs, deps) ==
  /\ fs[p] # NoFile
  /\ deps[p] = NoFile \/ deps[p].referenced = {}
  /\ \A q \in RbFiles : deps[q] # NoFile => deps[q].referenced \intersect fs[p].names = {}

\* Mutant: an entry of the same file stays.
RememberedTwice(cache, entry) ==
  [i \in 1 .. Cardinality(DOMAIN cache) + 1 |-> IF i = 1 THEN entry ELSE cache[i - 1]]

\* DisplayRegistryCache and DisplayResultCache: the newest comes first, the entries before
\* the one of the same file, if there is one, move back, and too many are cut off.
Remembered(cache, entry) ==
  LET len == Cardinality(DOMAIN cache)
      same == {i \in DOMAIN cache : cache[i].file = entry.file}
      gap == IF same = {} THEN len + 1 ELSE CHOOSE i \in same : TRUE
      all == IF same = {} THEN len + 1 ELSE len
  IN [i \in 1 .. IF all < DisplayLimit THEN all ELSE DisplayLimit |->
        IF i = 1 THEN entry ELSE IF i <= gap THEN cache[i - 1] ELSE cache[i]]

Hits(cache, entry) ==
  {i \in DOMAIN cache :
     /\ cache[i].file = entry.file /\ cache[i].key = entry.key
     /\ cache[i].generation = entry.generation}

\* analyze_current_file_for_display, of a file with the text t: the snapshot of the text is
\* made sure of first.  The registry of a display is the base without the methods of the file
\* itself; what else the base has of the file stays in.
Display(p, t) ==
  /\ IF files[p] = t
     THEN UNCHANGED <<files, file_deps_of, dirty_files, cached_registry>>
     ELSE Upsert(p, t, FALSE)
  /\ LET skip == CanSkipWorkspace(p, files', file_deps_of')
         ask == [file |-> p, key |-> IF skip THEN NoFile ELSE DisplayScopeKey(p, files'),
                 generation |-> type_env_generation]
         done == {i \in Hits(cached_display, ask) : cached_display[i].text = t}
         ready == Hits(cached_display_registry, ask)
         fresh == ~skip /\ ready = {}
         registry == IF skip THEN NoRegistry
                     ELSE IF fresh THEN Base(files').registry
                     ELSE cached_display_registry[CHOOSE i \in ready : TRUE].registry
         entry == [file |-> p, key |-> ask.key, generation |-> ask.generation,
                   registry |-> registry]
     IN IF done # {}
        THEN UNCHANGED <<cached_display_base_registry, ws_displays>>
        ELSE /\ cached_display_base_registry' =
                  IF fresh THEN Base(files') ELSE cached_display_base_registry
             /\ cached_display_registry' =
                  IF fresh THEN Remembered(cached_display_registry, entry)
                  ELSE cached_display_registry
             /\ cached_display' =
                  Remembered(cached_display,
                    [file |-> p, key |-> ask.key, generation |-> ask.generation,
                     registry |-> registry, text |-> t])
  /\ UNCHANGED ws_env

-----------------------------------------------------------------------------
StateNext ==
  \/ \E p \in RbFiles :
       \/ \E t \in Snapshots : UpsertFile(p, t) \/ (p \in OpenFiles /\ Display(p, t))
       \/ MarkFileDirty(p) \/ RemoveRbFile(p)
  \/ \E symbols \in SUBSET Names \ {{}} : InvalidateDependentsOf(symbols)
  \/ \E is_rbi \in BOOLEAN : ReloadTypeFile(is_rbi)
  \/ ReloadTypeDefinitions
  \/ WorkspaceRegistry \/ Warm

StateSpec == StateInit /\ [][StateNext]_stateVars

-----------------------------------------------------------------------------
(* Properties. *)

Registries == [rbs : 1 .. MaxReloads + 1, files : [RbFiles -> Snapshots \union {NoFile}]]

StateTypeOK ==
  /\ files \in [RbFiles -> Snapshots \union {NoFile}]
  /\ file_deps_of \in [RbFiles -> Graph!FileDeps \union {NoFile}]
  /\ dirty_files \in SUBSET RbFiles
  /\ user_rbs_of \in 1 .. type_env_generation
  /\ type_env_generation \in 1 .. MaxReloads + 1
  /\ cached_registry = NoRegistry \/ cached_registry \in Registries
  /\ \A cache \in {cached_display_registry, cached_display} :
       /\ DOMAIN cache \subseteq 1 .. DisplayLimit
       /\ \A i, j \in DOMAIN cache : cache[i].file = cache[j].file => i = j

\* What there is of the files in a registry that is merged from them, but for the order of
\* parameters.
Content(fs) ==
  [p \in RbFiles |->
     IF fs[p] = NoFile THEN NoFile
     ELSE [names |-> fs[p].names, exports |-> fs[p].exports, body |-> fs[p].body]]

\* Whatever happened to the files and the type definitions, the registry of the workspace
\* that a query is given has the content that merging the snapshots now would give.  (It
\* can have the parameters of a method in an order they no longer have: after a scan, or a
\* second upsert that takes the mark of the file back.)
RegistryCurrent ==
  cached_registry # NoRegistry =>
    /\ cached_registry.rbs = user_rbs_of
    /\ Content(cached_registry.files) = Content(files)

\* A finished display that would be served again now, and a display registry that would be
\* used again, was made from the present type definitions and the present content of all
\* other files, although edits, removals and reloads came in between and the base it was
\* taken from is shared by all files.  (No key tells the order of parameters.)
DisplayCurrent ==
  \A p \in RbFiles : files[p] # NoFile =>
    LET key == IF CanSkipWorkspace(p, files, file_deps_of) THEN NoFile
               ELSE DisplayScopeKey(p, files)
        ask == [file |-> p, key |-> key, generation |-> type_env_generation]
        True(registry) == /\ registry.rbs = user_rbs_of
                          /\ \A q \in RbFiles \ {p} : Content(registry.files)[q] = Content(files)[q]
    IN key # NoFile =>
         /\ \A i \in Hits(cached_display, ask) : True(cached_display[i].registry)
         /\ \A i \in Hits(cached_display_registry, ask) :
              True(cached_display_registry[i].registry)
===============================================================================
