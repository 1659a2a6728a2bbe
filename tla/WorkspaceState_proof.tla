------------------------- MODULE WorkspaceState_proof -------------------------
(***************************************************************************)
(* Proofs about WorkspaceState, for any files, snapshots and cache sizes,   *)
(* and about the aggregate of its fingerprints, for words of any width.     *)
(*                                                                         *)
(* A display that is served again may have been made from a registry taken  *)
(* from the display base, so the invariant says of both caches and of the   *)
(* base that what they hold was merged from the present `.rbs` definitions  *)
(* and has the fingerprints of its key; that a reload of type definitions   *)
(* empties all of them is what keeps it.                                    *)
(*                                                                         *)
(* The aggregate is exact because taking a hash out undoes putting it in:   *)
(* Newton's method doubles the bits in which the inverse is right with each *)
(* step (NewtonInverts), and the order of additions is indifferent, so that *)
(* any file may be the one that was added last (SumsAdd).  The library's    *)
(* induction theorems take operators; here induction is over the set of the *)
(* numbers a fact holds of (UpFromZero).                                    *)
(***************************************************************************)
EXTENDS WorkspaceState, FingerprintAggregate, FiniteSetTheorems, WellFoundedInduction, TLAPS

\* The registry is merged from the present `.rbs` definitions, and from files that, apart
\* from the file itself, have the fingerprints of the key.
MadeFor(registry, file, key) ==
  /\ registry.rbs = user_rbs_of
  /\ \A q \in RbFiles \ {file} : Prints(registry.files)[q] = key.others[q]

BaseFits ==
  cached_display_base_registry # NoBase =>
    /\ cached_display_base_registry.registry.rbs = user_rbs_of
    /\ Prints(cached_display_base_registry.registry.files) = cached_display_base_registry.key

Fits(entry) == MadeFor(entry.registry, entry.file, entry.key)

RegistriesFit == \A i \in DOMAIN cached_display_registry : Fits(cached_display_registry[i])

\* A display that skipped the workspace has no key.
DisplaysFit ==
  \A i \in DOMAIN cached_display : cached_display[i].key # NoFile => Fits(cached_display[i])

\* A cache is a sequence.
IsCache(cache) == \E n \in Nat : DOMAIN cache = 1 .. n

IInv ==
  /\ files \in [RbFiles -> Snapshots \union {NoFile}]
  /\ RegistryCurrent /\ BaseFits
  /\ IsCache(cached_display_registry) /\ RegistriesFit
  /\ IsCache(cached_display) /\ DisplaysFit

-----------------------------------------------------------------------------
(* What the operators give. *)

\* Snapshots of files have fingerprints.
LEMMA PrintsType ==
  ASSUME NEW fs \in [RbFiles -> Snapshots \union {NoFile}]
  PROVE  Prints(fs) \in [RbFiles -> Fingerprints] /\ Prints(fs) # NoFile
BY NoFileIsNone DEF Prints, Fingerprints

\* The registry fingerprints of the files tell their content.
LEMMA PrintsTell == ASSUME NEW fs PROVE Content(fs) = Prints(fs)
BY DEF Content, Prints, RegistryFingerprint

\* The base that a display of the files fs gets is made from them.
LEMMA BaseMade ==
  ASSUME BaseFits, NEW fs \in [RbFiles -> Snapshots \union {NoFile}]
  PROVE  /\ Base(fs).key = Prints(fs)
         /\ Base(fs).registry.rbs = user_rbs_of
         /\ Prints(Base(fs).registry.files) = Prints(fs)
<1>1. CASE cached_display_base_registry.key = Prints(fs)
  <2>1. cached_display_base_registry # NoBase
    BY <1>1, PrintsType DEF NoBase
  <2> QED BY <1>1, <2>1 DEF Base, BaseFits
<1>2. CASE cached_display_base_registry.key # Prints(fs)
  BY <1>2 DEF Base, Merge
<1> QED BY <1>1, <1>2

\* What a cache remembers is the new entry or was there before.
LEMMA RememberedFrom ==
  ASSUME NEW cache, IsCache(cache), NEW entry
  PROVE  /\ IsCache(Remembered(cache, entry))
         /\ \A i \in DOMAIN Remembered(cache, entry) :
              \/ Remembered(cache, entry)[i] = entry
              \/ \E j \in DOMAIN cache : Remembered(cache, entry)[i] = cache[j]
<1>1. PICK n \in Nat : DOMAIN cache = 1 .. n
  BY DEF IsCache
<1>2. Cardinality(DOMAIN cache) = n
  BY <1>1, FS_Interval
<1> DEFINE same == {i \in DOMAIN cache : cache[i].file = entry.file}
           gap == IF same = {} THEN n + 1 ELSE CHOOSE i \in same : TRUE
           all == IF same = {} THEN n + 1 ELSE n
           len == IF all < DisplayLimit THEN all ELSE DisplayLimit
           result == [i \in 1 .. len |->
                        IF i = 1 THEN entry ELSE IF i <= gap THEN cache[i - 1] ELSE cache[i]]
<1>3. Remembered(cache, entry) = result
  BY <1>2 DEF Remembered
<1>4. len \in Nat /\ len <= all /\ all \in {n, n + 1} /\ (same = {} => all = n + 1)
      /\ (same # {} => all = n)
  BY WorkspaceConstants
<1>5. gap \in 1 .. n + 1 /\ (same = {} => gap = n + 1)
  <2>1. same # {} => (CHOOSE i \in same : TRUE) \in same
    OBVIOUS
  <2> QED BY <1>1, <2>1
<1> HIDE DEF same, gap, all, len
<1>6. ASSUME NEW i \in 1 .. len PROVE result[i] = entry \/ \E j \in 1 .. n : result[i] = cache[j]
  <2>1. CASE i = 1
    BY <2>1
  <2>2. CASE i # 1 /\ i <= gap
    <3>1. i - 1 \in 1 .. n /\ result[i] = cache[i - 1]
      BY <1>4, <1>5, <2>2
    <3> QED BY <3>1
  <2>3. CASE i # 1 /\ ~(i <= gap)
    <3>1. i \in 1 .. n /\ result[i] = cache[i]
      BY <1>4, <1>5, <2>3
    <3> QED BY <3>1
  <2> QED BY <2>1, <2>2, <2>3
<1>7. DOMAIN result = 1 .. len
  OBVIOUS
<1> HIDE DEF result
<1> QED BY <1>1, <1>3, <1>4, <1>6, <1>7 DEF IsCache

\* An upsert changes the fingerprints only with the registry thrown away.
LEMMA UpsertKeeps ==
  ASSUME IInv, NEW p \in RbFiles, NEW t \in Snapshots, NEW scanned \in BOOLEAN,
         Upsert(p, t, scanned), UNCHANGED user_rbs_of
  PROVE  files' \in [RbFiles -> Snapshots \union {NoFile}] /\ RegistryCurrent'
<1>1. files' \in [RbFiles -> Snapshots \union {NoFile}]
  BY DEF Upsert, IInv
<1>2. CASE files[p] = NoFile \/ RegistryFingerprint(files[p]) # RegistryFingerprint(t)
  <2>1. cached_registry' = NoRegistry
    BY <1>2 DEF Upsert
  <2> QED BY <1>1, <2>1 DEF RegistryCurrent
<1>3. CASE files[p] # NoFile /\ RegistryFingerprint(files[p]) = RegistryFingerprint(t)
  <2>1. t # NoFile
    BY WorkspaceConstants
  <2>2. Prints(files') = Prints(files)
    BY <1>3, <2>1 DEF Upsert, Prints, IInv
  <2>3. Content(files') = Content(files)
    BY <2>2, PrintsTell
  <2> QED BY <1>3, <2>3 DEF Upsert, RegistryCurrent, IInv
<1> QED BY <1>1, <1>2, <1>3

\* What the caches and the base hold stays fit as long as the `.rbs` definitions are the
\* same: it says nothing of the present files.
LEMMA CachesKept ==
  ASSUME IInv, UNCHANGED user_rbs_of, UNCHANGED ws_displays
  PROVE  /\ IsCache(cached_display_registry)' /\ RegistriesFit'
         /\ IsCache(cached_display)' /\ DisplaysFit'
BY DEF IInv, ws_displays, IsCache, RegistriesFit, DisplaysFit, Fits, MadeFor, Prints

LEMMA BaseKept ==
  ASSUME BaseFits, UNCHANGED user_rbs_of, UNCHANGED cached_display_base_registry
  PROVE  BaseFits'
BY DEF BaseFits, Prints, NoBase, NoRegistry

\* A display adds entries that fit.
LEMMA DisplayKeeps ==
  ASSUME IInv, NEW p \in RbFiles, NEW t \in Snapshots, Display(p, t)
  PROVE  IInv'
<1> DEFINE skip == CanSkipWorkspace(p, files', file_deps_of')
           ask == [file |-> p, key |-> IF skip THEN NoFile ELSE DisplayScopeKey(p, files'),
                   generation |-> type_env_generation]
           done == {i \in Hits(cached_display, ask) : cached_display[i].text = t}
           ready == Hits(cached_display_registry, ask)
           fresh == ~skip /\ ready = {}
           registry == IF skip THEN NoRegistry
                       ELSE IF fresh THEN Base(files').registry
                       ELSE cached_display_registry[CHOOSE i \in ready : TRUE].registry
           entry == [file |-> p, key |-> ask.key, generation |-> ask.generation,
                     registry |-> registry]
           shown == [file |-> p, key |-> ask.key, generation |-> ask.generation,
                     registry |-> registry, text |-> t]
<1>1. user_rbs_of' = user_rbs_of
  BY DEF Display, ws_env
<1>2. files' \in [RbFiles -> Snapshots \union {NoFile}] /\ RegistryCurrent'
  <2>1. CASE files[p] = t
    BY <2>1, <1>1 DEF Display, IInv, RegistryCurrent
  <2>2. CASE files[p] # t
    <3>1. Upsert(p, t, FALSE)
      BY <2>2 DEF Display
    <3> QED BY <3>1, <1>1, UpsertKeeps
  <2> QED BY <2>1, <2>2
<1>3. \/ UNCHANGED <<cached_display_base_registry, ws_displays>>
      \/ /\ cached_display_base_registry' =
              IF fresh THEN Base(files') ELSE cached_display_base_registry
         /\ cached_display_registry' =
              IF fresh THEN Remembered(cached_display_registry, entry)
              ELSE cached_display_registry
         /\ cached_display' = Remembered(cached_display, shown)
  BY DEF Display
<1>4. ~skip => /\ registry.rbs = user_rbs_of
               /\ \A q \in RbFiles \ {p} :
                    Prints(registry.files)[q] = DisplayScopeKey(p, files').others[q]
  <2>1. CASE ~skip /\ fresh
    <3>1. registry = Base(files').registry
      BY <2>1
    <3>2. registry.rbs = user_rbs_of /\ Prints(registry.files) = Prints(files')
      BY <3>1, <1>2, BaseMade DEF IInv
    <3>3. \A q \in RbFiles \ {p} : DisplayScopeKey(p, files').others[q] = Prints(files')[q]
      BY DEF DisplayScopeKey, Prints
    <3> QED BY <3>2, <3>3
  <2>2. CASE ~skip /\ ~fresh
    <3>1. PICK i \in ready : registry = cached_display_registry[i].registry
      BY <2>2
    <3>2. /\ i \in DOMAIN cached_display_registry
          /\ cached_display_registry[i].file = p
          /\ cached_display_registry[i].key = DisplayScopeKey(p, files')
      BY <2>2 DEF Hits
    <3> QED BY <3>1, <3>2 DEF IInv, RegistriesFit, Fits, MadeFor
  <2> QED BY <2>1, <2>2
<1> HIDE DEF skip, done, ready, fresh, registry
<1>5. CASE UNCHANGED <<cached_display_base_registry, ws_displays>>
  <2>1. BaseFits'
    BY <1>1, <1>5, BaseKept DEF IInv
  <2> QED BY <1>1, <1>2, <1>5, <2>1, CachesKept DEF IInv
<1>6. ASSUME cached_display_base_registry' =
                IF fresh THEN Base(files') ELSE cached_display_base_registry,
             cached_display_registry' =
                IF fresh THEN Remembered(cached_display_registry, entry)
                ELSE cached_display_registry,
             cached_display' = Remembered(cached_display, shown)
      PROVE  IInv'
  <2>1. BaseFits'
    <3>1. CASE fresh
      BY <1>1, <1>2, <1>6, <3>1, BaseMade DEF IInv, BaseFits, Prints
    <3>2. CASE ~fresh
      BY <1>1, <1>6, <3>2, BaseKept DEF IInv
    <3> QED BY <3>1, <3>2
  <2>2. fresh => Fits(entry)
    BY <1>4 DEF Fits, MadeFor, fresh, ask
  <2>3. shown.key # NoFile => Fits(shown)
    BY <1>4 DEF Fits, MadeFor, ask
  <2> HIDE DEF entry, shown
  <2>4. IsCache(cached_display_registry)' /\ RegistriesFit'
    <3>1. CASE ~fresh
      BY <1>1, <1>6, <3>1 DEF IInv, IsCache, RegistriesFit, Fits, MadeFor, Prints
    <3>2. CASE fresh
      <4>1. cached_display_registry' = Remembered(cached_display_registry, entry)
        BY <1>6, <3>2
      <4>2. IsCache(cached_display_registry')
        BY <4>1, RememberedFrom DEF IInv
      <4>3. \A i \in DOMAIN cached_display_registry' : Fits(cached_display_registry'[i])
        BY <4>1, <2>2, <3>2, RememberedFrom DEF IInv, RegistriesFit
      <4> QED BY <1>1, <4>2, <4>3 DEF IsCache, RegistriesFit, Fits, MadeFor, Prints
    <3> QED BY <3>1, <3>2
  <2>5. IsCache(cached_display)' /\ DisplaysFit'
    <3>1. cached_display' = Remembered(cached_display, shown)
      BY <1>6
    <3>2. IsCache(cached_display')
      BY <3>1, RememberedFrom DEF IInv
    <3>3. \A i \in DOMAIN cached_display' :
            cached_display'[i].key # NoFile => Fits(cached_display'[i])
      BY <3>1, <2>3, RememberedFrom DEF IInv, DisplaysFit
    <3> QED BY <1>1, <3>2, <3>3 DEF IsCache, DisplaysFit, Fits, MadeFor, Prints
  <2> QED BY <1>2, <2>1, <2>4, <2>5 DEF IInv
<1> QED BY <1>3, <1>5, <1>6

-----------------------------------------------------------------------------
(* The invariant. *)

LEMMA InitHolds == StateInit => IInv
<1> SUFFICES ASSUME StateInit PROVE IInv
  OBVIOUS
<1>1. files \in [RbFiles -> Snapshots \union {NoFile}] /\ RegistryCurrent /\ BaseFits
  BY DEF StateInit, RegistryCurrent, BaseFits
<1>2. IsCache(<<>>) /\ DOMAIN <<>> = {}
  BY DEF IsCache
<1> QED BY <1>1, <1>2 DEF StateInit, IInv, RegistriesFit, DisplaysFit

\* An invalidation leaves nothing to be wrong in the registries it throws away.
LEMMA InvalidatedFits ==
  ASSUME InvalidateRegistry
  PROVE  RegistryCurrent' /\ BaseFits'
BY DEF InvalidateRegistry, RegistryCurrent, BaseFits

\* Empty caches fit any definitions.
LEMMA EmptiedFits ==
  ASSUME cached_display_registry' = <<>>, cached_display' = <<>>
  PROVE  /\ IsCache(cached_display_registry)' /\ RegistriesFit'
         /\ IsCache(cached_display)' /\ DisplaysFit'
<1>1. IsCache(<<>>) /\ DOMAIN <<>> = {}
  BY DEF IsCache
<1> QED BY <1>1 DEF IsCache, RegistriesFit, DisplaysFit

LEMMA NextKeeps == IInv /\ [StateNext]_stateVars => IInv'
<1> SUFFICES ASSUME IInv, [StateNext]_stateVars PROVE IInv'
  OBVIOUS
<1>1. ASSUME NEW p \in RbFiles, NEW t \in Snapshots, UpsertFile(p, t) PROVE IInv'
  <2>1. PICK scanned \in BOOLEAN : Upsert(p, t, scanned)
    BY <1>1 DEF UpsertFile
  <2>2. UNCHANGED user_rbs_of /\ UNCHANGED cached_display_base_registry
        /\ UNCHANGED ws_displays
    BY <1>1 DEF UpsertFile, ws_env
  <2>3. files' \in [RbFiles -> Snapshots \union {NoFile}] /\ RegistryCurrent'
    BY <2>1, <2>2, UpsertKeeps
  <2>4. BaseFits'
    BY <2>2, BaseKept DEF IInv
  <2> QED BY <2>2, <2>3, <2>4, CachesKept DEF IInv
<1>2. ASSUME NEW p \in RbFiles, NEW t \in Snapshots, Display(p, t) PROVE IInv'
  BY <1>2, DisplayKeeps
<1>3. ASSUME NEW p \in RbFiles, MarkFileDirty(p) PROVE IInv'
  <2>1. UNCHANGED user_rbs_of /\ UNCHANGED cached_display_base_registry
        /\ UNCHANGED ws_displays /\ UNCHANGED files /\ UNCHANGED cached_registry
    BY <1>3 DEF MarkFileDirty, ws_env
  <2>2. RegistryCurrent' /\ BaseFits'
    BY <2>1, BaseKept DEF IInv, RegistryCurrent
  <2> QED BY <2>1, <2>2, CachesKept DEF IInv
<1>4. ASSUME NEW p \in RbFiles, RemoveRbFile(p) PROVE IInv'
  <2>1. UNCHANGED user_rbs_of /\ UNCHANGED ws_displays /\ InvalidateRegistry
    BY <1>4 DEF RemoveRbFile, ws_env
  <2>2. files' \in [RbFiles -> Snapshots \union {NoFile}]
    BY <1>4 DEF RemoveRbFile, IInv
  <2> QED BY <2>1, <2>2, InvalidatedFits, CachesKept DEF IInv
<1>5. ASSUME NEW symbols \in SUBSET Names, InvalidateDependentsOf(symbols) PROVE IInv'
  <2>1. UNCHANGED user_rbs_of /\ UNCHANGED ws_displays /\ InvalidateRegistry
    BY <1>5 DEF InvalidateDependentsOf, ws_env
  <2>2. files' \in [RbFiles -> Snapshots \union {NoFile}]
    BY <1>5 DEF InvalidateDependentsOf, IInv
  <2> QED BY <2>1, <2>2, InvalidatedFits, CachesKept DEF IInv
<1>6. ASSUME NEW is_rbi \in BOOLEAN, ReloadTypeFile(is_rbi) PROVE IInv'
  BY <1>6, InvalidatedFits, EmptiedFits DEF ReloadTypeFile, IInv
<1>7. CASE ReloadTypeDefinitions
  <2>1. files' \in [RbFiles -> Snapshots \union {NoFile}]
    BY <1>7 DEF ReloadTypeDefinitions
  <2> QED BY <1>7, <2>1, InvalidatedFits, EmptiedFits DEF ReloadTypeDefinitions, IInv
<1>8. CASE WorkspaceRegistry
  <2>1. UNCHANGED user_rbs_of /\ UNCHANGED cached_display_base_registry
        /\ UNCHANGED ws_displays /\ UNCHANGED files /\ cached_registry' = Merge(files)
    BY <1>8 DEF WorkspaceRegistry, ws_env
  <2>2. RegistryCurrent' /\ BaseFits'
    BY <2>1, BaseKept DEF IInv, RegistryCurrent, Merge
  <2> QED BY <2>1, <2>2, CachesKept DEF IInv
<1>9. CASE Warm
  <2>1. UNCHANGED user_rbs_of /\ UNCHANGED ws_displays /\ UNCHANGED files
        /\ UNCHANGED cached_registry /\ cached_display_base_registry' = Base(files)
    BY <1>9 DEF Warm, ws_env
  <2>2. RegistryCurrent'
    BY <2>1 DEF IInv, RegistryCurrent
  <2>3. BaseFits'
    BY <2>1, BaseMade DEF IInv, BaseFits, Prints
  <2> QED BY <2>1, <2>2, <2>3, CachesKept DEF IInv
<1>10. CASE UNCHANGED stateVars
  <2>1. UNCHANGED user_rbs_of /\ UNCHANGED cached_display_base_registry
        /\ UNCHANGED ws_displays /\ UNCHANGED files /\ UNCHANGED cached_registry
    BY <1>10 DEF stateVars, ws_displays
  <2>2. RegistryCurrent' /\ BaseFits'
    BY <2>1, BaseKept DEF IInv, RegistryCurrent
  <2> QED BY <2>1, <2>2, CachesKept DEF IInv
<1> QED BY <1>1, <1>2, <1>3, <1>4, <1>5, <1>6, <1>7, <1>8, <1>9, <1>10 DEF StateNext

LEMMA Invariant == StateSpec => []IInv
BY InitHolds, NextKeeps, PTL DEF StateSpec

\* A registry of the workspace that workspace_registry would return without merging was
\* merged from the present `.rbs` definitions and from snapshots that have the content of the
\* present ones: only parameters can be in another order.
THEOREM RegistryStaysCurrent == StateSpec => []RegistryCurrent
<1>1. IInv => RegistryCurrent
  BY DEF IInv
<1> QED BY <1>1, Invariant, PTL

\* What analyze_current_file_for_display would serve from its caches was made from the present
\* `.rbs` definitions and the present content of the other files: only their parameters can be
\* in another order.
THEOREM DisplaysStayCurrent == StateSpec => []DisplayCurrent
<1>1. IInv => DisplayCurrent
  <2> SUFFICES ASSUME IInv, NEW p \in RbFiles, files[p] # NoFile,
                      ~CanSkipWorkspace(p, files, file_deps_of),
                      DisplayScopeKey(p, files) # NoFile,
                      NEW entry, entry.file = p, entry.key = DisplayScopeKey(p, files),
                      Fits(entry)
               PROVE  /\ entry.registry.rbs = user_rbs_of
                      /\ \A q \in RbFiles \ {p} :
                           Prints(entry.registry.files)[q] = Prints(files)[q]
    BY PrintsTell DEF DisplayCurrent, IInv, Hits, RegistriesFit, DisplaysFit
  <2>1. \A q \in RbFiles \ {p} : DisplayScopeKey(p, files).others[q] = Prints(files)[q]
    BY DEF DisplayScopeKey, Prints
  <2> QED BY <2>1 DEF Fits, MadeFor
<1> QED BY <1>1, Invariant, PTL

-----------------------------------------------------------------------------
(* Types, and what the caches hold: few entries, one for each file. *)

FewAndApart(cache) ==
  /\ DOMAIN cache \subseteq 1 .. DisplayLimit
  /\ \A i, j \in DOMAIN cache : cache[i].file = cache[j].file => i = j

\* The new entry takes the place of the one of its file, and the last one is cut off.
LEMMA RememberedApart ==
  ASSUME NEW cache, IsCache(cache), FewAndApart(cache), NEW entry
  PROVE  FewAndApart(Remembered(cache, entry))
<1>1. PICK n \in Nat : DOMAIN cache = 1 .. n
  BY DEF IsCache
<1>2. Cardinality(DOMAIN cache) = n
  BY <1>1, FS_Interval
<1> DEFINE same == {i \in DOMAIN cache : cache[i].file = entry.file}
           gap == IF same = {} THEN n + 1 ELSE CHOOSE i \in same : TRUE
           all == IF same = {} THEN n + 1 ELSE n
           len == IF all < DisplayLimit THEN all ELSE DisplayLimit
           result == [i \in 1 .. len |->
                        IF i = 1 THEN entry ELSE IF i <= gap THEN cache[i - 1] ELSE cache[i]]
           Place(i) == IF i <= gap THEN i - 1 ELSE i
<1>3. Remembered(cache, entry) = result
  BY <1>2 DEF Remembered
<1>4. /\ len \in Nat /\ len <= all /\ len <= DisplayLimit /\ DisplayLimit \in Nat
      /\ (same = {} => all = n + 1) /\ (same # {} => all = n)
  BY WorkspaceConstants
<1>5. gap \in 1 .. n + 1 /\ (same = {} => gap = n + 1) /\ (same # {} => gap \in same)
  <2>1. same # {} => (CHOOSE i \in same : TRUE) \in same
    OBVIOUS
  <2> QED BY <1>1, <2>1
<1>6. \A k \in same : k = gap
  BY <1>5 DEF FewAndApart
<1>7. \A k \in 1 .. n : cache[k].file = entry.file => k \in same
  BY <1>1
<1> HIDE DEF same, gap, all, len
<1>8. ASSUME NEW i \in 1 .. len, i # 1
      PROVE  /\ Place(i) \in 1 .. n /\ Place(i) # gap /\ result[i] = cache[Place(i)]
  BY <1>4, <1>5, <1>8
<1>9. \A i \in 1 .. len : i # 1 => result[i].file # entry.file
  BY <1>6, <1>7, <1>8
<1>10. \A i, j \in 1 .. len : i # 1 /\ j # 1 /\ Place(i) = Place(j) => i = j
  BY <1>4, <1>5
<1>11. \A i, j \in 1 .. n : cache[i].file = cache[j].file => i = j
  BY <1>1 DEF FewAndApart
<1>12. DOMAIN result = 1 .. len /\ (1 \in 1 .. len => result[1] = entry)
  OBVIOUS
<1> HIDE DEF result, Place
<1>13. ASSUME NEW i \in 1 .. len, NEW j \in 1 .. len, result[i].file = result[j].file
       PROVE  i = j
  <2>1. CASE i = 1 \/ j = 1
    BY <1>9, <1>12, <1>13, <2>1
  <2>2. CASE i # 1 /\ j # 1
    BY <1>8, <1>10, <1>11, <1>13, <2>2
  <2> QED BY <2>1, <2>2
<1>14. 1 .. len \subseteq 1 .. DisplayLimit
  BY <1>4
<1> QED BY <1>3, <1>12, <1>13, <1>14 DEF FewAndApart

\* A registry that is merged now is one.
LEMMA MergeTypes == ASSUME StateTypeOK PROVE Merge(files) \in Registries
BY WorkspaceConstants DEF StateTypeOK, Merge, Registries

LEMMA UpsertTypes ==
  ASSUME StateTypeOK, NEW p \in RbFiles, NEW t \in Snapshots, NEW scanned \in BOOLEAN,
         Upsert(p, t, scanned)
  PROVE  /\ files' \in [RbFiles -> Snapshots \union {NoFile}]
         /\ file_deps_of' \in [RbFiles -> Graph!FileDeps \union {NoFile}]
         /\ dirty_files' \in SUBSET RbFiles
         /\ cached_registry' \in {cached_registry, NoRegistry}
<1>1. DepsOf(t) \in Graph!FileDeps
  BY WorkspaceConstants DEF DepsOf, Graph!FileDeps
<1>2. /\ files' = [files EXCEPT ![p] = t]
      /\ file_deps_of' = [file_deps_of EXCEPT ![p] = DepsOf(t)]
  BY DEF Upsert, Graph!Update
<1>3. dirty_files' \in SUBSET RbFiles
  BY DEF Upsert, StateTypeOK
<1>4. cached_registry' \in {cached_registry, NoRegistry}
  BY DEF Upsert
<1> QED BY <1>1, <1>2, <1>3, <1>4 DEF StateTypeOK

LEMMA DisplayTypes ==
  ASSUME IInv, StateTypeOK, NEW p \in RbFiles, NEW t \in Snapshots, Display(p, t)
  PROVE  StateTypeOK'
<1>1. /\ files' \in [RbFiles -> Snapshots \union {NoFile}]
      /\ file_deps_of' \in [RbFiles -> Graph!FileDeps \union {NoFile}]
      /\ dirty_files' \in SUBSET RbFiles
      /\ cached_registry' \in {cached_registry, NoRegistry}
  <2>1. CASE files[p] = t
    BY <2>1 DEF Display, StateTypeOK
  <2>2. CASE files[p] # t
    <3>1. Upsert(p, t, FALSE)
      BY <2>2 DEF Display
    <3> QED BY <3>1, UpsertTypes
  <2> QED BY <2>1, <2>2
<1>2. UNCHANGED ws_env
  BY DEF Display
<1>3. /\ \/ cached_display_registry' = cached_display_registry
         \/ \E entry : cached_display_registry' = Remembered(cached_display_registry, entry)
      /\ \/ cached_display' = cached_display
         \/ \E entry : cached_display' = Remembered(cached_display, entry)
  BY DEF Display, ws_displays
<1>4. FewAndApart(cached_display_registry) /\ FewAndApart(cached_display)
  BY DEF StateTypeOK, FewAndApart
<1>5. FewAndApart(cached_display_registry') /\ FewAndApart(cached_display')
  BY <1>3, <1>4, RememberedApart DEF IInv
<1> QED BY <1>1, <1>2, <1>5 DEF StateTypeOK, FewAndApart, ws_env, Registries, NoRegistry

LEMMA TypesKept == IInv /\ StateTypeOK /\ [StateNext]_stateVars => StateTypeOK'
<1> SUFFICES ASSUME IInv, StateTypeOK, [StateNext]_stateVars PROVE StateTypeOK'
  OBVIOUS
<1>1. ASSUME NEW p \in RbFiles, NEW t \in Snapshots, UpsertFile(p, t) PROVE StateTypeOK'
  <2>1. PICK scanned \in BOOLEAN : Upsert(p, t, scanned)
    BY <1>1 DEF UpsertFile
  <2>2. UNCHANGED <<ws_env, ws_displays>>
    BY <1>1 DEF UpsertFile
  <2> QED BY <2>1, <2>2, UpsertTypes
          DEF StateTypeOK, ws_env, ws_displays, Registries, NoRegistry
<1>2. ASSUME NEW p \in RbFiles, NEW t \in Snapshots, Display(p, t) PROVE StateTypeOK'
  BY <1>2, DisplayTypes
<1>3. ASSUME NEW p \in RbFiles, MarkFileDirty(p) PROVE StateTypeOK'
  BY <1>3 DEF MarkFileDirty, StateTypeOK, ws_env, ws_displays, Registries, NoRegistry
<1>4. ASSUME NEW p \in RbFiles, RemoveRbFile(p) PROVE StateTypeOK'
  <2>1. /\ files' \in [RbFiles -> Snapshots \union {NoFile}]
        /\ file_deps_of' \in [RbFiles -> Graph!FileDeps \union {NoFile}]
    BY <1>4 DEF RemoveRbFile, Graph!Remove, StateTypeOK
  <2>2. dirty_files' \in SUBSET RbFiles
    BY <1>4 DEF RemoveRbFile, StateTypeOK, Graph!DependentsOf, Graph!Tracked
  <2> QED BY <1>4, <2>1, <2>2
          DEF RemoveRbFile, InvalidateRegistry, StateTypeOK, ws_env, ws_displays
<1>5. ASSUME NEW symbols \in SUBSET Names, InvalidateDependentsOf(symbols) PROVE StateTypeOK'
  <2>1. files' \in [RbFiles -> Snapshots \union {NoFile}]
    BY <1>5 DEF InvalidateDependentsOf, StateTypeOK
  <2>2. dirty_files' \in SUBSET RbFiles
    BY <1>5 DEF InvalidateDependentsOf, StateTypeOK, Graph!DependentsOf, Graph!Tracked
  <2> QED BY <1>5, <2>1, <2>2
          DEF InvalidateDependentsOf, InvalidateRegistry, StateTypeOK, ws_env, ws_displays
<1>6. ASSUME NEW is_rbi \in BOOLEAN, ReloadTypeFile(is_rbi) PROVE StateTypeOK'
  BY <1>6, WorkspaceConstants DEF ReloadTypeFile, InvalidateRegistry, StateTypeOK
<1>7. CASE ReloadTypeDefinitions
  BY <1>7, WorkspaceConstants DEF ReloadTypeDefinitions, InvalidateRegistry, StateTypeOK
<1>8. CASE WorkspaceRegistry
  BY <1>8, MergeTypes DEF WorkspaceRegistry, StateTypeOK, ws_env, ws_displays, Registries
<1>9. CASE Warm
  BY <1>9 DEF Warm, StateTypeOK, ws_env, ws_displays, Registries, NoRegistry
<1>10. CASE UNCHANGED stateVars
  BY <1>10 DEF stateVars, StateTypeOK, Registries, NoRegistry
<1> QED BY <1>1, <1>2, <1>3, <1>4, <1>5, <1>6, <1>7, <1>8, <1>9, <1>10 DEF StateNext

\* Every value stays in its range; the display caches never hold more than their limit, nor
\* two entries of one file.
THEOREM StateTypeCorrect == StateSpec => []StateTypeOK
<1>1. StateInit => StateTypeOK
  BY WorkspaceConstants DEF StateInit, StateTypeOK, NoRegistry, Registries
<1>2. IInv /\ IInv' /\ StateTypeOK /\ [StateNext]_stateVars => StateTypeOK'
  BY TypesKept
<1> QED BY <1>1, <1>2, Invariant, PTL DEF StateSpec

-----------------------------------------------------------------------------
(* The aggregate of fingerprints: arithmetic modulo a number. *)

\* a and b are the same modulo m.
Same(a, b, m) == \E q \in Int : a = b + q * m

\* A remainder is in its range and the same as what it is the remainder of.
LEMMA Remainder ==
  ASSUME NEW a \in Int, NEW m \in Nat \ {0}
  PROVE  a % m \in 0 .. m - 1 /\ Same(a % m, a, m)
<1>1. a % m \in 0 .. m - 1
  OBVIOUS
<1>2. a = m * (a \div m) + (a % m) /\ a \div m \in Int
  OBVIOUS
<1> DEFINE q == a \div m
           r == a % m
<1>3. q \in Int /\ r \in Int /\ a = m * q + r
  BY <1>1, <1>2
<1> HIDE DEF q, r
<1>4. r = a + (-q) * m /\ -q \in Int
  BY <1>3
<1>5. Same(r, a, m)
  BY <1>4 DEF Same
<1> QED BY <1>1, <1>5 DEF r

LEMMA SameRemainder ==
  ASSUME NEW a, NEW b, NEW m \in Nat \ {0}, a \in 0 .. m - 1, b \in 0 .. m - 1, Same(a, b, m)
  PROVE  a = b
<1>1. PICK q \in Int : a = b + q * m
  BY DEF Same
<1>2. CASE q >= 1
  <2>1. q * m >= m
    BY <1>2
  <2> QED BY <1>1, <2>1
<1>3. CASE q <= -1
  <2>1. q * m <= -m
    <3>1. (-q) * m >= m
      BY <1>3
    <3>2. (-q) * m = -(q * m)
      OBVIOUS
    <3> QED BY <3>1, <3>2
  <2> QED BY <1>1, <2>1
<1> QED BY <1>1, <1>2, <1>3

LEMMA SameSym ==
  ASSUME NEW a \in Int, NEW b \in Int, NEW m \in Nat, Same(a, b, m)
  PROVE  Same(b, a, m)
<1>1. PICK q \in Int : a = b + q * m
  BY DEF Same
<1>2. b = a + (-q) * m
  BY <1>1
<1> QED BY <1>2 DEF Same

LEMMA SameSums ==
  ASSUME NEW a \in Int, NEW b \in Int, NEW c \in Int, NEW d \in Int, NEW m \in Nat,
         Same(a, b, m), Same(c, d, m)
  PROVE  Same(a + c, b + d, m) /\ Same(a - c, b - d, m)
<1>1. PICK q \in Int : a = b + q * m
  BY DEF Same
<1>2. PICK k \in Int : c = d + k * m
  BY DEF Same
<1>3. a + c = b + d + (q + k) * m /\ a - c = b - d + (q - k) * m
  BY <1>1, <1>2
<1>4. q + k \in Int /\ q - k \in Int
  OBVIOUS
<1> QED BY <1>3, <1>4 DEF Same

LEMMA SameProducts ==
  ASSUME NEW a \in Int, NEW b \in Int, NEW c \in Int, NEW d \in Int, NEW m \in Nat,
         Same(a, b, m), Same(c, d, m)
  PROVE  Same(a * c, b * d, m)
<1>1. PICK q \in Int : a = b + q * m
  BY DEF Same
<1>2. PICK k \in Int : c = d + k * m
  BY DEF Same
<1>3. a * c = b * d + (b * k + q * d + q * k * m) * m
  BY <1>1, <1>2
<1>4. b * k + q * d + q * k * m \in Int
  OBVIOUS
<1> QED BY <1>3, <1>4 DEF Same

LEMMA SameTrans ==
  ASSUME NEW a \in Int, NEW b \in Int, NEW c \in Int, NEW m \in Nat, Same(a, b, m), Same(b, c, m)
  PROVE  Same(a, c, m)
<1>1. PICK q \in Int : a = b + q * m
  BY DEF Same
<1>2. PICK k \in Int : b = c + k * m
  BY DEF Same
<1>3. a = c + (q + k) * m
  BY <1>1, <1>2
<1>4. q + k \in Int
  OBVIOUS
<1> QED BY <1>3, <1>4 DEF Same

\* A step of Newton's method: what is right modulo m becomes right modulo m * m.
LEMMA SquareStep ==
  ASSUME NEW v \in Int, NEW x \in Int, NEW m \in Nat, Same(v * x, 1, m)
  PROVE  Same(v * (x * (2 - v * x)), 1, m * m)
<1>1. PICK k \in Int : v * x = 1 + k * m
  BY DEF Same
<1> DEFINE w == v * x
<1>2. v * (x * (2 - w)) = w * (2 - w) /\ w \in Int
  OBVIOUS
<1>3. w = 1 + k * m
  BY <1>1
<1> HIDE DEF w
<1>4. w * (2 - w) = 1 + (-(k * k)) * (m * m)
  BY <1>2, <1>3
<1>5. -(k * k) \in Int
  OBVIOUS
<1> QED BY <1>2, <1>4, <1>5 DEF Same, w

-----------------------------------------------------------------------------
(* Newton's method. *)

\* What holds of 0 and goes from each number to the next holds of all.
LEMMA UpFromZero ==
  ASSUME NEW S, 0 \in S, \A n \in Nat : n \in S => n + 1 \in S
  PROVE  Nat \subseteq S
<1> DEFINE T == Nat \ S
<1> SUFFICES ASSUME T # {} PROVE FALSE
  OBVIOUS
<1>1. PICK x \in T : \A y \in T : ~(<<y, x>> \in OpToRel(<, Nat))
  BY NatLessThanWellFounded, WFMin, T \subseteq Nat
<1>2. x \in Nat /\ x # 0
  OBVIOUS
<1>3. x - 1 \in Nat /\ x - 1 < x /\ x - 1 + 1 = x
  BY <1>2
<1>4. <<x - 1, x>> \in OpToRel(<, Nat)
  BY <1>2, <1>3 DEF OpToRel
<1>5. x - 1 \in S
  BY <1>1, <1>3, <1>4
<1> QED BY <1>2, <1>3, <1>5

\* A function that is applied again and again.
Iterates(g, S, a, F, N) ==
  g \in [0 .. N -> S] /\ g[0] = a /\ \A n \in 1 .. N : g[n] = F[g[n - 1]]

LEMMA IteratesExist ==
  ASSUME NEW S, NEW a \in S, NEW F \in [S -> S], NEW N \in Nat
  PROVE  \E g : Iterates(g, S, a, F, N)
<1> DEFINE Goes(g, n) == g[0] = a /\ \A i \in 1 .. n : g[i] = F[g[i - 1]]
           T == {n \in Nat : \E g \in [0 .. n -> S] : Goes(g, n)}
<1>1. 0 \in T
  <2>1. [i \in 0 .. 0 |-> a] \in [0 .. 0 -> S] /\ Goes([i \in 0 .. 0 |-> a], 0)
    OBVIOUS
  <2> QED BY <2>1
<1>2. ASSUME NEW n \in Nat, n \in T PROVE n + 1 \in T
  <2>1. PICK g \in [0 .. n -> S] : Goes(g, n)
    BY <1>2
  <2> DEFINE h == [i \in 0 .. n + 1 |-> IF i = n + 1 THEN F[g[n]] ELSE g[i]]
  <2>2. h \in [0 .. n + 1 -> S]
    OBVIOUS
  <2>3. \A i \in 0 .. n : h[i] = g[i]
    OBVIOUS
  <2>4. h[n + 1] = F[h[n]]
    BY <2>3
  <2> HIDE DEF h
  <2>5. Goes(h, n + 1)
    <3>1. h[0] = a
      BY <2>1, <2>3
    <3>2. ASSUME NEW i \in 1 .. n + 1 PROVE h[i] = F[h[i - 1]]
      BY <2>1, <2>3, <2>4
    <3> QED BY <3>1, <3>2
  <2> QED BY <2>2, <2>5
<1> HIDE DEF T
<1>3. N \in T
  BY <1>1, <1>2, UpFromZero
<1> QED BY <1>3 DEF T, Iterates

\* The moduli are what their definition says.
LEMMA Squares ==
  /\ Moduli \in [0 .. Log -> Nat \ {0}] /\ Moduli[0] = 2
  /\ \A n \in 1 .. Log : Moduli[n] = Moduli[n - 1] * Moduli[n - 1]
<1> USE HashConstants
<1> DEFINE S == Nat \ {0}
           F == [x \in S |-> x * x]
           Is(g) == g = [n \in 0 .. Log |-> IF n = 0 THEN 2 ELSE g[n - 1] * g[n - 1]]
<1>1. F \in [S -> S]
  <2>1. \A x \in S : x * x \in S
    OBVIOUS
  <2> QED BY <2>1
<1>2. PICK g \in [0 .. Log -> S] : g[0] = 2 /\ \A n \in 1 .. Log : g[n] = F[g[n - 1]]
  <2>1. 2 \in S /\ Log \in Nat
    OBVIOUS
  <2> HIDE DEF F, S
  <2>2. \E h : Iterates(h, S, 2, F, Log)
    BY <1>1, <2>1, IteratesExist
  <2> QED BY <2>2 DEF Iterates
<1>3. Is(g)
  <2>1. ASSUME NEW n \in 0 .. Log
        PROVE  g[n] = IF n = 0 THEN 2 ELSE g[n - 1] * g[n - 1]
    <3>1. CASE n = 0
      BY <1>2, <3>1
    <3>2. CASE n # 0
      <4>1. n \in 1 .. Log /\ n - 1 \in 0 .. Log
        BY <3>2
      <4>2. g[n] = F[g[n - 1]] /\ g[n - 1] \in S
        BY <1>2, <4>1
      <4> HIDE DEF S
      <4>3. F[g[n - 1]] = g[n - 1] * g[n - 1]
        BY <4>2
      <4> QED BY <3>2, <4>2, <4>3
    <3> QED BY <3>1, <3>2
  <2> QED BY <2>1
<1>4. Is(Moduli)
  <2>1. Moduli = CHOOSE h : Is(h)
    BY DEF Moduli
  <2> HIDE DEF Is
  <2> QED BY <1>3, <2>1
<1> DEFINE T == {n \in Nat : n <= Log => Moduli[n] \in S}
<1>5. Moduli[0] = 2 /\ \A n \in 1 .. Log : Moduli[n] = Moduli[n - 1] * Moduli[n - 1]
  BY <1>4
<1>6. Moduli = [n \in 0 .. Log |-> Moduli[n]]
  BY <1>4
<1> HIDE DEF Is
<1>7. 0 \in T
  BY <1>5
<1>8. ASSUME NEW n \in Nat, n \in T PROVE n + 1 \in T
  <2> SUFFICES ASSUME n + 1 <= Log PROVE Moduli[n + 1] \in S
    OBVIOUS
  <2>1. Moduli[n] \in S /\ Moduli[n + 1] = Moduli[n] * Moduli[n]
    BY <1>5, <1>8
  <2> QED BY <2>1
<1>9. Nat \subseteq T
  <2> HIDE DEF T
  <2> QED BY <1>7, <1>8, UpFromZero
<1>10. \A n \in 0 .. Log : Moduli[n] \in S
  BY <1>9
<1> QED BY <1>5, <1>6, <1>10

\* Each of the moduli divides the last one.
LEMMA Divides ==
  ASSUME NEW n \in 0 .. Log
  PROVE  \E c \in Nat : Modulus = c * Moduli[n]
<1> USE HashConstants, Squares
<1> DEFINE T == {i \in Nat : n + i <= Log => \E c \in Nat : Moduli[n + i] = c * Moduli[n]}
<1>1. 0 \in T
  <2>1. Moduli[n] \in Nat
    OBVIOUS
  <2>2. Moduli[n + 0] = 1 * Moduli[n] /\ 1 \in Nat
    BY <2>1
  <2> QED BY <2>2
<1>2. ASSUME NEW i \in Nat, i \in T PROVE i + 1 \in T
  <2> SUFFICES ASSUME n + (i + 1) <= Log PROVE \E c \in Nat : Moduli[n + (i + 1)] = c * Moduli[n]
    OBVIOUS
  <2>1. PICK c \in Nat : Moduli[n + i] = c * Moduli[n]
    BY <1>2
  <2> DEFINE m == Moduli[n + i]
             d == Moduli[n]
  <2>2. m \in Nat /\ d \in Nat /\ Moduli[n + (i + 1)] = m * m /\ m = c * d
    BY <2>1
  <2> HIDE DEF m, d
  <2>3. m * m = (m * c) * d /\ m * c \in Nat
    BY <2>2
  <2> QED BY <2>2, <2>3 DEF d
<1>3. Log - n \in T
  <2> HIDE DEF T
  <2>1. Nat \subseteq T
    BY <1>1, <1>2, UpFromZero
  <2> QED BY <2>1
<1> QED BY <1>3 DEF Modulus

LEMMA ModulusType == Modulus \in Nat \ {0}
BY HashConstants, Squares DEF Modulus

LEMMA WrappedSame ==
  ASSUME NEW n \in Int
  PROVE  Wrapped(n) \in 0 .. Modulus - 1 /\ Same(Wrapped(n), n, Modulus)
<1>1. n % Modulus \in 0 .. Modulus - 1 /\ Same(n % Modulus, n, Modulus)
  BY ModulusType, Remainder
<1> QED BY <1>1 DEF Wrapped

\* What is the same modulo the last one is the same modulo each.
LEMMA SameBelow ==
  ASSUME NEW n \in 0 .. Log, NEW a \in Int, NEW b \in Int, Same(a, b, Modulus)
  PROVE  Same(a, b, Moduli[n])
<1>1. PICK c \in Nat : Modulus = c * Moduli[n]
  BY Divides
<1>2. PICK q \in Int : a = b + q * Modulus
  BY DEF Same
<1> DEFINE d == Moduli[n]
<1>3. d \in Int /\ Modulus = c * d
  BY Squares, <1>1
<1> HIDE DEF d
<1>4. a = b + (q * c) * d /\ q * c \in Int
  BY <1>2, <1>3
<1> QED BY <1>4 DEF Same, d

\* Log steps invert any odd word of 2^Log bits.
LEMMA NewtonInverts ==
  ASSUME NEW v \in Nat, v % 2 = 1
  PROVE  InvertOdd(v) \in Nat /\ Same(v * InvertOdd(v), 1, Modulus)
<1> USE HashConstants
<1> DEFINE S == 0 .. Modulus - 1
           Next1(x) == Wrapped(x * Wrapped(2 - Wrapped(v * x)))
           F == [x \in Nat |-> Next1(x)]
           Is(g) == g = [n \in 0 .. Log |->
             IF n = 0 THEN 1 ELSE Wrapped(g[n - 1] * Wrapped(2 - Wrapped(v * g[n - 1])))]
           inverse == CHOOSE g : Is(g)
<1>1. ASSUME NEW x \in Nat
      PROVE  Next1(x) \in Nat /\ Same(Next1(x), x * (2 - v * x), Modulus)
  <2> DEFINE a == Wrapped(v * x)
             b == Wrapped(2 - a)
  <2>1. a \in Nat /\ Same(a, v * x, Modulus)
    <3>1. v * x \in Int
      OBVIOUS
    <3> QED BY <3>1, WrappedSame
  <2> HIDE DEF a
  <2>2. b \in Nat /\ Same(b, 2 - a, Modulus)
    <3>1. 2 - a \in Int
      BY <2>1
    <3> QED BY <3>1, WrappedSame
  <2> HIDE DEF b
  <2>3. Same(2, 2, Modulus) /\ Same(x, x, Modulus)
    <3>1. 2 = 2 + 0 * Modulus /\ x = x + 0 * Modulus
      BY ModulusType
    <3> QED BY <3>1 DEF Same
  <2>4. v * x \in Int /\ Modulus \in Nat
    BY ModulusType
  <2>5. Same(2 - a, 2 - v * x, Modulus)
    BY <2>1, <2>3, <2>4, SameSums
  <2>6. Same(b, 2 - v * x, Modulus)
    BY <2>1, <2>2, <2>4, <2>5, SameTrans
  <2>7. Same(x * b, x * (2 - v * x), Modulus)
    BY <2>2, <2>3, <2>4, <2>6, SameProducts
  <2>8. x * b \in Int /\ x * (2 - v * x) \in Int
    BY <2>2
  <2>9. Wrapped(x * b) \in Nat /\ Same(Wrapped(x * b), x * b, Modulus)
    BY <2>8, WrappedSame
  <2>10. Same(Wrapped(x * b), x * (2 - v * x), Modulus)
    BY <2>4, <2>7, <2>8, <2>9, SameTrans
  <2> QED BY <2>9, <2>10 DEF a, b
<1>2. F \in [Nat -> Nat]
  BY <1>1
<1>3. PICK g \in [0 .. Log -> Nat] : g[0] = 1 /\ \A n \in 1 .. Log : g[n] = F[g[n - 1]]
  <2>1. 1 \in Nat /\ Log \in Nat
    OBVIOUS
  <2> HIDE DEF F
  <2>2. \E h : Iterates(h, Nat, 1, F, Log)
    BY <1>2, <2>1, IteratesExist
  <2> QED BY <2>2 DEF Iterates
<1>4. Is(g)
  <2>1. ASSUME NEW n \in 0 .. Log
        PROVE  g[n] = IF n = 0 THEN 1 ELSE Next1(g[n - 1])
    <3>1. CASE n = 0
      BY <1>3, <3>1
    <3>2. CASE n # 0
      <4>1. n \in 1 .. Log /\ n - 1 \in 0 .. Log
        BY <3>2
      <4>2. g[n] = F[g[n - 1]] /\ g[n - 1] \in Nat
        BY <1>3, <4>1
      <4> HIDE DEF Next1
      <4>3. F[g[n - 1]] = Next1(g[n - 1])
        BY <4>2
      <4> QED BY <3>2, <4>2, <4>3
    <3> QED BY <3>1, <3>2
  <2>2. g = [n \in 0 .. Log |-> g[n]]
    BY <1>3
  <2> QED BY <2>1, <2>2
<1>5. Is(inverse)
  <2> HIDE DEF Is
  <2> QED BY <1>4
<1>6. InvertOdd(v) = inverse[Log]
  BY DEF InvertOdd, Newton
<1> HIDE DEF inverse
<1>7. inverse[0] = 1 /\ \A n \in 1 .. Log : inverse[n] = Next1(inverse[n - 1])
  <2>1. \A n \in 0 .. Log :
          inverse[n] = IF n = 0 THEN 1 ELSE Next1(inverse[n - 1])
    BY <1>5
  <2> HIDE DEF Is, Next1
  <2> QED BY <2>1
<1> HIDE DEF Is, F, Next1
<1> DEFINE Right(n) == inverse[n] \in Nat /\ Same(v * inverse[n], 1, Moduli[n])
           T == {n \in Nat : n <= Log => Right(n)}
<1>8. 0 \in T
  <2>1. v = 2 * (v \div 2) + 1 /\ v \div 2 \in Int
    OBVIOUS
  <2>2. v * 1 = 1 + (v \div 2) * 2
    BY <2>1
  <2>3. Same(v * 1, 1, 2)
    BY <2>1, <2>2 DEF Same
  <2>4. v * 1 = v * inverse[0] /\ Moduli[0] = 2 /\ inverse[0] \in Nat
    BY <1>7, Squares
  <2>5. Right(0)
    BY <2>3, <2>4
  <2> HIDE DEF Right
  <2> QED BY <2>5
<1>9. ASSUME NEW n \in Nat, n \in T PROVE n + 1 \in T
  <2> SUFFICES ASSUME n + 1 <= Log PROVE Right(n + 1)
    OBVIOUS
  <2> DEFINE x == inverse[n]
             y == inverse[n + 1]
             m == Moduli[n]
  <2>1. x \in Nat /\ Same(v * x, 1, m) /\ y = Next1(x)
    <3>1. n + 1 \in 1 .. Log /\ n + 1 - 1 = n /\ n <= Log
      OBVIOUS
    <3> QED BY <1>7, <1>9, <3>1
  <2>2. m \in Nat /\ Moduli[n + 1] = m * m
    BY Squares
  <2> HIDE DEF x, y, m
  <2>0. v \in Int /\ x \in Int
    BY <2>1
  <2>20. Same(v * (x * (2 - v * x)), 1, m * m)
    BY <2>0, <2>1, <2>2, SquareStep, Zenon
  <2> DEFINE z == x * (2 - v * x)
             square == m * m
  <2>3. z \in Int /\ square \in Nat
    BY <2>1, <2>2
  <2>4. Same(v * z, 1, square)
    BY <2>20
  <2>5. y \in Nat /\ Same(y, z, Modulus)
    BY <1>1, <2>1
  <2> HIDE DEF z, square
  <2>6. Same(y, z, square)
    <3>1. n + 1 \in 0 .. Log
      OBVIOUS
    <3>2. Same(y, z, Moduli[n + 1])
      BY <2>3, <2>5, <3>1, SameBelow
    <3> QED BY <2>2, <3>2 DEF square
  <2>7. Same(v, v, square)
    <3>1. v = v + 0 * square
      BY <2>3
    <3> QED BY <3>1 DEF Same
  <2>8. Same(v * y, v * z, square)
    <3>1. y \in Int
      BY <2>5
    <3> QED BY <2>0, <2>3, <2>6, <2>7, <3>1, SameProducts, Zenon
  <2>9. Same(v * y, 1, square)
    <3>1. v * y \in Int /\ v * z \in Int
      BY <2>3, <2>5
    <3> QED BY <2>3, <2>4, <2>8, <3>1, SameTrans
  <2>10. y \in Nat /\ Same(v * y, 1, Moduli[n + 1])
    BY <2>2, <2>5, <2>9 DEF square
  <2> QED BY <2>10 DEF y
<1>10. Nat \subseteq T
  <2> HIDE DEF T
  <2> QED BY <1>8, <1>9, UpFromZero
<1> QED BY <1>6, <1>10 DEF Modulus

-----------------------------------------------------------------------------
(* Adding and taking out. *)

\* The values an aggregate has.
Aggs ==
  [sum : 0 .. Modulus - 1, xor : SUBSET UNION {Rotated(hash) : hash \in Hashes},
   product : 0 .. Modulus - 1, count : Int]

LEMMA HashesType == ASSUME NEW hash \in Hashes PROVE hash \in Nat
BY ModulusType, HashConstants

LEMMA EncodedOdd ==
  ASSUME NEW hash \in Hashes
  PROVE  Encoded(hash) \in Nat /\ Encoded(hash) % 2 = 1
<1> DEFINE n == Wrapped(hash * Salt)
<1>1. n \in Nat
  <2>1. hash * Salt \in Int
    BY HashesType, HashConstants
  <2>2. n \in 0 .. Modulus - 1
    BY <2>1, WrappedSame
  <2> HIDE DEF n
  <2> QED BY <2>2, ModulusType
<1>2. Encoded(hash) = IF n % 2 = 1 THEN n ELSE n + 1
  BY DEF Encoded
<1> HIDE DEF n
<1> QED BY <1>1, <1>2

LEMMA DefaultType == Default \in Aggs
<1>1. Modulus >= 2
  <2> DEFINE T == {n \in Nat : n <= Log => Moduli[n] >= 2}
  <2>1. 0 \in T
    BY Squares
  <2>2. ASSUME NEW n \in Nat, n \in T PROVE n + 1 \in T
    <3> SUFFICES ASSUME n + 1 <= Log PROVE Moduli[n + 1] >= 2
      OBVIOUS
    <3> DEFINE m == Moduli[n]
    <3>1. m \in Nat /\ m >= 2 /\ Moduli[n + 1] = m * m
      BY <2>2, Squares, HashConstants
    <3> HIDE DEF m
    <3>2. m * m >= m
      BY <3>1
    <3> QED BY <3>1, <3>2
  <2> HIDE DEF T
  <2>3. Log \in T
    BY <2>1, <2>2, UpFromZero, HashConstants
  <2> QED BY <2>3, HashConstants DEF T, Modulus
<1> QED BY <1>1, ModulusType DEF Default, Aggs

LEMMA AddType ==
  ASSUME NEW agg \in Aggs, NEW hash \in Hashes
  PROVE  AddHash(agg, hash) \in Aggs /\ RemoveHash(agg, hash) \in Aggs
<1> DEFINE e == Encoded(hash)
           i == InvertOdd(e)
<1>1. e \in Int /\ i \in Int
  BY EncodedOdd, NewtonInverts
<1>2. agg.sum \in Int /\ agg.product \in Int /\ agg.count \in Int /\ hash \in Int
  BY ModulusType, HashesType DEF Aggs
<1> HIDE DEF e, i
<1>3. /\ agg.sum + hash \in Int /\ agg.sum - hash \in Int
      /\ agg.product * e \in Int /\ agg.product * i \in Int
      /\ agg.count + 1 \in Int /\ agg.count - 1 \in Int
  BY <1>1, <1>2
<1>4. /\ Wrapped(agg.sum + hash) \in 0 .. Modulus - 1
      /\ Wrapped(agg.sum - hash) \in 0 .. Modulus - 1
      /\ Wrapped(agg.product * e) \in 0 .. Modulus - 1
      /\ Wrapped(agg.product * i) \in 0 .. Modulus - 1
  BY <1>3, WrappedSame
<1>5. SymDiff(agg.xor, Rotated(hash)) \in SUBSET UNION {Rotated(h) : h \in Hashes}
  BY DEF Aggs, SymDiff
<1> QED BY <1>3, <1>4, <1>5 DEF AddHash, RemoveHash, Aggs, e, i

\* Equal remainders.
LEMMA WrappedEqual ==
  ASSUME NEW a \in Int, NEW b \in Int, Same(a, b, Modulus)
  PROVE  Wrapped(a) = Wrapped(b)
<1> DEFINE x == Wrapped(a)
           y == Wrapped(b)
<1>1. x \in 0 .. Modulus - 1 /\ y \in 0 .. Modulus - 1 /\ Same(x, a, Modulus) /\ Same(y, b, Modulus)
  BY WrappedSame
<1> HIDE DEF x, y
<1>2. x \in Int /\ y \in Int /\ Modulus \in Nat
  BY <1>1, ModulusType
<1>3. Same(b, y, Modulus)
  BY <1>1, <1>2, SameSym
<1>4. Same(x, b, Modulus)
  BY <1>1, <1>2, SameTrans
<1>5. Same(x, y, Modulus)
  BY <1>2, <1>3, <1>4, SameTrans
<1> QED BY <1>1, <1>5, ModulusType, SameRemainder DEF x, y

LEMMA WrappedOwn ==
  ASSUME NEW a \in 0 .. Modulus - 1
  PROVE  Wrapped(a) = a
<1>1. a \in Int
  BY ModulusType
<1>2. Wrapped(a) \in 0 .. Modulus - 1 /\ Same(Wrapped(a), a, Modulus)
  BY <1>1, WrappedSame
<1> QED BY <1>2, ModulusType, SameRemainder

LEMMA SameOwn == ASSUME NEW a \in Int PROVE Same(a, a, Modulus)
<1>1. a = a + 0 * Modulus
  BY ModulusType
<1> QED BY <1>1 DEF Same

\* What is wrapped may be added to, taken from and multiplied before or after.
LEMMA WrappedInside ==
  ASSUME NEW a \in Int, NEW b \in Int
  PROVE  /\ Wrapped(Wrapped(a) + b) = Wrapped(a + b)
         /\ Wrapped(Wrapped(a) - b) = Wrapped(a - b)
         /\ Wrapped(Wrapped(a) * b) = Wrapped(a * b)
<1> DEFINE x == Wrapped(a)
<1>1. x \in Int /\ Same(x, a, Modulus) /\ Same(b, b, Modulus) /\ Modulus \in Nat
  BY WrappedSame, SameOwn, ModulusType
<1> HIDE DEF x
<1>2. Same(x + b, a + b, Modulus) /\ Same(x - b, a - b, Modulus)
  BY <1>1, SameSums
<1>3. Same(x * b, a * b, Modulus)
  BY <1>1, SameProducts
<1>4. /\ x + b \in Int /\ a + b \in Int /\ x - b \in Int /\ a - b \in Int
      /\ x * b \in Int /\ a * b \in Int
  BY <1>1
<1> QED BY <1>2, <1>3, <1>4, WrappedEqual DEF x

\* Files may be added in any order.
LEMMA AddCommutes ==
  ASSUME NEW agg \in Aggs, NEW x \in Hashes, NEW y \in Hashes
  PROVE  AddHash(AddHash(agg, x), y) = AddHash(AddHash(agg, y), x)
<1> DEFINE s == agg.sum
           q == agg.product
           c == agg.count
           ex == Encoded(x)
           ey == Encoded(y)
<1>1. s \in Int /\ q \in Int /\ c \in Int /\ x \in Int /\ y \in Int /\ ex \in Int /\ ey \in Int
  BY ModulusType, HashesType, EncodedOdd DEF Aggs
<1> HIDE DEF s, q, c, ex, ey
<1>2. Wrapped(Wrapped(s + x) + y) = Wrapped(Wrapped(s + y) + x)
  <2>1. s + x \in Int /\ s + y \in Int /\ (s + x) + y = (s + y) + x
    BY <1>1
  <2>2. /\ Wrapped(Wrapped(s + x) + y) = Wrapped((s + x) + y)
        /\ Wrapped(Wrapped(s + y) + x) = Wrapped((s + y) + x)
    BY <1>1, <2>1, WrappedInside
  <2> QED BY <2>1, <2>2
<1>3. Wrapped(Wrapped(q * ex) * ey) = Wrapped(Wrapped(q * ey) * ex)
  <2>1. q * ex \in Int /\ q * ey \in Int /\ (q * ex) * ey = (q * ey) * ex
    BY <1>1
  <2>2. /\ Wrapped(Wrapped(q * ex) * ey) = Wrapped((q * ex) * ey)
        /\ Wrapped(Wrapped(q * ey) * ex) = Wrapped((q * ey) * ex)
    BY <1>1, <2>1, WrappedInside
  <2> QED BY <2>1, <2>2
<1>4. SymDiff(SymDiff(agg.xor, Rotated(x)), Rotated(y))
        = SymDiff(SymDiff(agg.xor, Rotated(y)), Rotated(x))
  BY DEF SymDiff
<1> QED BY <1>2, <1>3, <1>4 DEF AddHash, s, q, c, ex, ey

\* Taking out undoes putting in.
LEMMA RemoveUndoes ==
  ASSUME NEW agg \in Aggs, NEW x \in Hashes
  PROVE  RemoveHash(AddHash(agg, x), x) = agg
<1> DEFINE s == agg.sum
           q == agg.product
           c == agg.count
           e == Encoded(x)
           i == InvertOdd(e)
<1>1. /\ s \in 0 .. Modulus - 1 /\ q \in 0 .. Modulus - 1 /\ s \in Int /\ q \in Int
      /\ c \in Int /\ x \in Int /\ e \in Int
  BY ModulusType, HashesType, EncodedOdd DEF Aggs
<1>2. i \in Int /\ Same(e * i, 1, Modulus)
  BY EncodedOdd, NewtonInverts
<1> HIDE DEF s, q, c, e, i
<1>3. Wrapped(Wrapped(s + x) - x) = s
  <2>1. s + x \in Int /\ (s + x) - x = s
    BY <1>1
  <2>2. Wrapped(Wrapped(s + x) - x) = Wrapped((s + x) - x)
    BY <1>1, <2>1, WrappedInside
  <2> QED BY <1>1, <2>1, <2>2, WrappedOwn
<1>4. Wrapped(Wrapped(q * e) * i) = q
  <2> DEFINE ei == e * i
             qe == q * e
  <2>1. qe \in Int /\ ei \in Int /\ qe * i = q * ei /\ q * 1 = q /\ q * ei \in Int
    BY <1>1, <1>2
  <2>2. Wrapped(qe * i) = Wrapped(Wrapped(qe) * i)
    BY <1>2, <2>1, WrappedInside
  <2> HIDE DEF qe
  <2>3. Same(ei, 1, Modulus) /\ Same(q, q, Modulus) /\ Modulus \in Nat
    BY <1>1, <1>2, SameOwn, ModulusType
  <2> HIDE DEF ei
  <2>4. Same(q * ei, q * 1, Modulus)
    BY <1>1, <2>1, <2>3, SameProducts
  <2>5. Wrapped(q * ei) = Wrapped(q)
    BY <1>1, <2>1, <2>4, WrappedEqual
  <2> QED BY <1>1, <2>1, <2>2, <2>5, WrappedOwn DEF qe
<1>5. SymDiff(SymDiff(agg.xor, Rotated(x)), Rotated(x)) = agg.xor
  BY DEF SymDiff
<1>6. c + 1 - 1 = c
  BY <1>1
<1> QED
  <2>1. RemoveHash(AddHash(agg, x), x) = [sum |-> s, xor |-> agg.xor, product |-> q, count |-> c]
    <3> DEFINE more == AddHash(agg, x)
    <3>1. /\ more.sum = Wrapped(s + x) /\ more.xor = SymDiff(agg.xor, Rotated(x))
          /\ more.product = Wrapped(q * e) /\ more.count = c + 1
      BY DEF AddHash, s, q, c, e
    <3> HIDE DEF more
    <3>2. RemoveHash(more, x) =
            [sum |-> Wrapped(more.sum - x), xor |-> SymDiff(more.xor, Rotated(x)),
             product |-> Wrapped(more.product * i), count |-> more.count - 1]
      BY DEF RemoveHash, i, e
    <3>3. /\ Wrapped(more.sum - x) = s /\ SymDiff(more.xor, Rotated(x)) = agg.xor
          /\ Wrapped(more.product * i) = q /\ more.count - 1 = c
      <4>1. more.count - 1 = c
        BY <1>1, <3>1
      <4> QED BY <1>3, <1>4, <1>5, <3>1, <4>1, Zenon
    <3> QED BY <3>2, <3>3 DEF more
  <2> QED BY <2>1 DEF Aggs, s, q, c

-----------------------------------------------------------------------------
(* Adding up a set of files. *)

Some(U) == CHOOSE p \in U : TRUE

\* What CombineUnordered does with the files of a set, of which h has the hashes.
Sums(h, S) == FoldSet(LAMBDA p, agg : AddHash(agg, h[p]), Default, S)

\* g is the sum of each subset.
SumsOf(g, h, S) ==
  /\ g \in [SUBSET S -> Aggs] /\ g[{}] = Default
  /\ \A U \in SUBSET S : U # {} => g[U] = AddHash(g[U \ {Some(U)}], h[Some(U)])

LEMMA Smaller ==
  ASSUME NEW U, IsFiniteSet(U), NEW p \in U
  PROVE  /\ IsFiniteSet(U \ {p}) /\ Cardinality(U \ {p}) = Cardinality(U) - 1
         /\ Cardinality(U) \in Nat \ {0} /\ Cardinality(U \ {p}) \in Nat
<1>1. IsFiniteSet(U \ {p}) /\ Cardinality(U \ {p}) = Cardinality(U) - 1
  BY FS_RemoveElement
<1>2. Cardinality(U) \in Nat /\ Cardinality(U \ {p}) \in Nat
  BY <1>1, FS_CardinalityType
<1> QED BY <1>1, <1>2

\* There is such a function, built up by the size of the subsets.
LEMMA SumsExist ==
  ASSUME NEW S, IsFiniteSet(S), NEW h, \A p \in S : h[p] \in Hashes
  PROVE  \E g : SumsOf(g, h, S)
<1> DEFINE Small(n) == {U \in SUBSET S : Cardinality(U) <= n}
           Goes(g, n) ==
             /\ g \in [Small(n) -> Aggs] /\ g[{}] = Default
             /\ \A U \in Small(n) : U # {} => g[U] = AddHash(g[U \ {Some(U)}], h[Some(U)])
           T == {n \in Nat : \E g : Goes(g, n)}
<1>0. ASSUME NEW U \in SUBSET S
      PROVE  /\ IsFiniteSet(U) /\ Cardinality(U) \in Nat
             /\ U # {} => Some(U) \in U /\ Cardinality(U \ {Some(U)}) = Cardinality(U) - 1
             /\ Cardinality(U) = 0 <=> U = {}
  <2>1. IsFiniteSet(U)
    BY FS_Subset
  <2>2. U # {} => Some(U) \in U
    BY DEF Some
  <2> QED BY <2>1, <2>2, FS_CardinalityType, FS_EmptySet, Smaller
<1>1. 0 \in T
  <2> DEFINE g == [U \in Small(0) |-> Default]
  <2>1. {} \in Small(0) /\ \A U \in Small(0) : U = {}
    <3>1. ASSUME NEW U \in SUBSET S, Cardinality(U) <= 0 PROVE U = {}
      <4>1. Cardinality(U) \in Nat /\ (Cardinality(U) = 0 <=> U = {})
        BY <1>0
      <4> QED BY <3>1, <4>1
    <3>2. Cardinality({}) <= 0
      BY FS_EmptySet
    <3> QED BY <3>1, <3>2
  <2>2. Goes(g, 0)
    BY <2>1, DefaultType
  <2> QED BY <2>2
<1>2. ASSUME NEW n \in Nat, n \in T PROVE n + 1 \in T
  <2>1. PICK g : Goes(g, n)
    BY <1>2
  <2> DEFINE Value(U) ==
               IF U \in Small(n) THEN g[U] ELSE AddHash(g[U \ {Some(U)}], h[Some(U)])
             f == [U \in Small(n + 1) |-> Value(U)]
  <2>2. ASSUME NEW U \in Small(n + 1), U # {}
        PROVE  U \ {Some(U)} \in Small(n) /\ Some(U) \in S
    <3>1. Cardinality(U \ {Some(U)}) = Cardinality(U) - 1 /\ Cardinality(U) \in Nat /\ Some(U) \in U
      BY <1>0, <2>2
    <3> QED BY <2>2, <3>1
  <2>3. ASSUME NEW U \in Small(n) PROVE U \in Small(n + 1)
    <3>1. U \in SUBSET S /\ Cardinality(U) \in Nat
      BY <1>0
    <3> QED BY <3>1
  <2>4. {} \in Small(n)
    BY FS_EmptySet
  <2>5. ASSUME NEW U \in Small(n + 1)
        PROVE  Value(U) \in Aggs /\ (U # {} => Value(U) = AddHash(g[U \ {Some(U)}], h[Some(U)]))
    <3>1. CASE U \in Small(n)
      BY <2>1, <3>1
    <3>2. CASE U \notin Small(n)
      <4>1. U # {}
        BY <2>4, <3>2
      <4>2. g[U \ {Some(U)}] \in Aggs /\ h[Some(U)] \in Hashes
        BY <2>1, <2>2, <4>1
      <4> HIDE DEF Small
      <4> QED BY <3>2, <4>2, AddType
    <3> QED BY <3>1, <3>2
  <2> HIDE DEF Small
  <2>6. f \in [Small(n + 1) -> Aggs] /\ \A U \in Small(n + 1) : f[U] = Value(U)
    BY <2>5
  <2>7. \A U \in Small(n) : f[U] = g[U]
    BY <2>3, <2>6
  <2> HIDE DEF f
  <2>8. f[{}] = Default
    BY <2>1, <2>4, <2>7
  <2>9. ASSUME NEW U \in Small(n + 1), U # {}
        PROVE  f[U] = AddHash(f[U \ {Some(U)}], h[Some(U)])
    <3>1. f[U \ {Some(U)}] = g[U \ {Some(U)}]
      BY <2>2, <2>7, <2>9
    <3>2. f[U] = AddHash(g[U \ {Some(U)}], h[Some(U)])
      BY <2>5, <2>6, <2>9
    <3> QED BY <3>1, <3>2
  <2>10. Goes(f, n + 1)
    BY <2>6, <2>8, <2>9
  <2> QED BY <2>10
<1>3. Cardinality(S) \in T
  <2> HIDE DEF T
  <2>1. Nat \subseteq T
    BY <1>1, <1>2, UpFromZero
  <2> QED BY <2>1, FS_CardinalityType
<1>4. Small(Cardinality(S)) = SUBSET S
  <2>1. ASSUME NEW U \in SUBSET S PROVE Cardinality(U) <= Cardinality(S)
    BY FS_Subset
  <2> QED BY <2>1
<1>5. PICK g : Goes(g, Cardinality(S))
  BY <1>3
<1> HIDE DEF Small
<1> QED BY <1>4, <1>5 DEF SumsOf

\* The fold is such a function.
LEMMA SumsAre ==
  ASSUME NEW S, IsFiniteSet(S), NEW h, \A p \in S : h[p] \in Hashes
  PROVE  \E g : SumsOf(g, h, S) /\ Sums(h, S) = g[S]
<1> DEFINE Is(g) == g = [U \in SUBSET S |->
             IF U = {} THEN Default ELSE AddHash(g[U \ {Some(U)}], h[Some(U)])]
           fold == CHOOSE g : Is(g)
<1>1. Sums(h, S) = fold[S]
  BY DEF Sums, FoldSet, MapThenFoldSet, Some
<1>2. PICK g : SumsOf(g, h, S)
  BY SumsExist
<1>3. Is(g)
  BY <1>2 DEF SumsOf
<1>4. Is(fold)
  <2> HIDE DEF Is
  <2> QED BY <1>3
<1> HIDE DEF fold
<1>5. \A U \in SUBSET S :
        fold[U] = IF U = {} THEN Default ELSE AddHash(fold[U \ {Some(U)}], h[Some(U)])
  BY <1>4
<1>6. fold = [U \in SUBSET S |-> fold[U]]
  BY <1>4
<1> HIDE DEF Is
<1> DEFINE T == {n \in Nat : \A U \in SUBSET S : Cardinality(U) = n => fold[U] \in Aggs}
<1>7. 0 \in T
  <2>1. ASSUME NEW U \in SUBSET S, Cardinality(U) = 0 PROVE U = {}
    BY <2>1, FS_Subset, FS_EmptySet
  <2> QED BY <1>5, <2>1, DefaultType
<1>8. ASSUME NEW n \in Nat, n \in T PROVE n + 1 \in T
  <2> SUFFICES ASSUME NEW U \in SUBSET S, Cardinality(U) = n + 1 PROVE fold[U] \in Aggs
    OBVIOUS
  <2>1. IsFiniteSet(U)
    BY FS_Subset
  <2>2. CASE U = {}
    BY <1>5, <2>2, DefaultType
  <2>3. CASE U # {}
    <3>1. Some(U) \in U
      BY <2>3 DEF Some
    <3>2. Cardinality(U \ {Some(U)}) = n
      BY <2>1, <3>1, Smaller
    <3>3. fold[U \ {Some(U)}] \in Aggs
      BY <1>8, <3>2
    <3>4. h[Some(U)] \in Hashes
      BY <3>1
    <3> QED BY <1>5, <2>3, <3>3, <3>4, AddType
  <2> QED BY <2>2, <2>3
<1>9. ASSUME NEW U \in SUBSET S PROVE fold[U] \in Aggs
  <2>1. Cardinality(U) \in Nat
    BY FS_Subset, FS_CardinalityType
  <2>2. Nat \subseteq T
    <3> HIDE DEF T
    <3> QED BY <1>7, <1>8, UpFromZero
  <2> QED BY <2>1, <2>2
<1> HIDE DEF T
<1>10. SumsOf(fold, h, S)
  BY <1>5, <1>6, <1>9 DEF SumsOf
<1> QED BY <1>1, <1>10

\* The sum of a set depends on the hashes of its files only.
LEMMA SumsAgree ==
  ASSUME NEW S, NEW R, NEW h, NEW k, NEW f, NEW g, SumsOf(f, h, S), SumsOf(g, k, R),
         IsFiniteSet(S), NEW U, U \subseteq S, U \subseteq R, \A p \in U : h[p] = k[p]
  PROVE  f[U] = g[U]
<1> DEFINE T == {n \in Nat : \A V \in SUBSET U : Cardinality(V) = n => f[V] = g[V]}
<1>1. ASSUME NEW V \in SUBSET U
      PROVE  /\ V \in SUBSET S /\ V \in SUBSET R /\ IsFiniteSet(V)
             /\ Cardinality(V) \in Nat /\ (Cardinality(V) = 0 <=> V = {})
  BY FS_Subset, FS_EmptySet, FS_CardinalityType
<1>2. 0 \in T
  <2>1. f[{}] = g[{}]
    BY DEF SumsOf
  <2> QED BY <1>1, <2>1
<1>3. ASSUME NEW n \in Nat, n \in T PROVE n + 1 \in T
  <2> SUFFICES ASSUME NEW V \in SUBSET U, Cardinality(V) = n + 1 PROVE f[V] = g[V]
    OBVIOUS
  <2>1. V # {}
    BY <1>1
  <2>2. Some(V) \in V
    BY <2>1 DEF Some
  <2>3. Cardinality(V \ {Some(V)}) = n
    BY <1>1, <2>2, Smaller
  <2>4. f[V \ {Some(V)}] = g[V \ {Some(V)}]
    BY <1>3, <2>3
  <2>5. /\ f[V] = AddHash(f[V \ {Some(V)}], h[Some(V)])
        /\ g[V] = AddHash(g[V \ {Some(V)}], k[Some(V)])
    BY <1>1, <2>1 DEF SumsOf
  <2>6. h[Some(V)] = k[Some(V)]
    BY <2>2
  <2> QED BY <2>4, <2>5, <2>6
<1>4. Nat \subseteq T
  <2> HIDE DEF T
  <2> QED BY <1>2, <1>3, UpFromZero
<1> QED BY <1>1, <1>4

\* Any file may be the one that is added last.
LEMMA SumsAnyLast ==
  ASSUME NEW S, IsFiniteSet(S), NEW h, \A p \in S : h[p] \in Hashes, NEW g, SumsOf(g, h, S),
         NEW p \in S
  PROVE  g[S] = AddHash(g[S \ {p}], h[p])
<1> DEFINE T == {n \in Nat : \A V \in SUBSET S, q \in S :
                   Cardinality(V) = n /\ q \in V => g[V] = AddHash(g[V \ {q}], h[q])}
<1>1. ASSUME NEW V \in SUBSET S
      PROVE  IsFiniteSet(V) /\ Cardinality(V) \in Nat /\ (Cardinality(V) = 0 <=> V = {})
  BY FS_Subset, FS_EmptySet, FS_CardinalityType
<1>2. 0 \in T
  BY <1>1
<1>3. ASSUME NEW n \in Nat, n \in T PROVE n + 1 \in T
  <2> SUFFICES ASSUME NEW V \in SUBSET S, NEW q \in V, Cardinality(V) = n + 1
               PROVE  g[V] = AddHash(g[V \ {q}], h[q])
    OBVIOUS
  <2> DEFINE x == Some(V)
  <2>1. x \in V /\ g[V] = AddHash(g[V \ {x}], h[x])
    BY DEF SumsOf, Some
  <2> HIDE DEF x
  <2>2. CASE x = q
    BY <2>1, <2>2
  <2>3. CASE x # q
    <3>1. Cardinality(V \ {x}) = n /\ Cardinality(V \ {q}) = n
      BY <1>1, <2>1, Smaller
    <3> DEFINE rest == g[(V \ {x}) \ {q}]
    <3>2. g[V \ {x}] = AddHash(rest, h[q])
      BY <1>3, <2>3, <3>1
    <3>3. (V \ {q}) \ {x} = (V \ {x}) \ {q}
      OBVIOUS
    <3>4. g[V \ {q}] = AddHash(rest, h[x])
      BY <1>3, <2>1, <2>3, <3>1, <3>3
    <3>5. rest \in Aggs /\ h[x] \in Hashes /\ h[q] \in Hashes
      BY <2>1 DEF SumsOf
    <3> HIDE DEF rest
    <3>6. AddHash(AddHash(rest, h[q]), h[x]) = AddHash(AddHash(rest, h[x]), h[q])
      BY <3>5, AddCommutes
    <3> QED BY <2>1, <3>2, <3>4, <3>6
  <2> QED BY <2>2, <2>3
<1>4. Nat \subseteq T
  <2> HIDE DEF T
  <2> QED BY <1>2, <1>3, UpFromZero
<1> QED BY <1>1, <1>4

\* What the rest needs to know of sums.
LEMMA SumsAdd ==
  ASSUME NEW S, IsFiniteSet(S), NEW h, \A p \in S : h[p] \in Hashes
  PROVE  /\ Sums(h, S) \in Aggs
         /\ S = {} => Sums(h, S) = Default
         /\ \A p \in S : Sums(h, S) = AddHash(Sums(h, S \ {p}), h[p])
<1>1. PICK g : SumsOf(g, h, S) /\ Sums(h, S) = g[S]
  BY SumsAre
<1>2. ASSUME NEW p \in S PROVE Sums(h, S) = AddHash(Sums(h, S \ {p}), h[p])
  <2>1. IsFiniteSet(S \ {p})
    BY Smaller
  <2>2. PICK f : SumsOf(f, h, S \ {p}) /\ Sums(h, S \ {p}) = f[S \ {p}]
    BY <2>1, SumsAre
  <2>3. f[S \ {p}] = g[S \ {p}]
    BY <1>1, <2>1, <2>2, SumsAgree
  <2> QED BY <1>1, <2>2, <2>3, SumsAnyLast
<1> QED BY <1>1, <1>2 DEF SumsOf

LEMMA SumsSame ==
  ASSUME NEW S, IsFiniteSet(S), NEW h, NEW k,
         \A p \in S : h[p] \in Hashes /\ k[p] = h[p]
  PROVE  Sums(h, S) = Sums(k, S)
<1>1. PICK f : SumsOf(f, h, S) /\ Sums(h, S) = f[S]
  BY SumsAre
<1>2. PICK g : SumsOf(g, k, S) /\ Sums(k, S) = g[S]
  BY SumsAre
<1>3. f[S] = g[S]
  BY <1>1, <1>2, SumsAgree
<1> QED BY <1>1, <1>2, <1>3

-----------------------------------------------------------------------------
\* The files that have a snapshot.
Hashed == {p \in HashedFiles : hash_of[p] # NoHash}

HashInv ==
  /\ hash_of \in [HashedFiles -> Hashes \union {NoHash}]
  /\ IsFiniteSet(Hashed)
  /\ aggregate = Sums(hash_of, Hashed)

\* Taking a file out of the aggregate leaves the sum of the others.
LEMMA ExcludingOne ==
  ASSUME HashInv, NEW p \in HashedFiles
  PROVE  /\ IsFiniteSet(Hashed \ {p})
         /\ \A q \in Hashed : hash_of[q] \in Hashes
         /\ Excluding(p) = Sums(hash_of, Hashed \ {p})
<1>1. \A q \in Hashed : hash_of[q] \in Hashes
  BY DEF HashInv, Hashed
<1>2. IsFiniteSet(Hashed) /\ IsFiniteSet(Hashed \ {p})
  BY FS_Subset DEF HashInv
<1>3. CASE hash_of[p] = NoHash
  <2>1. Hashed \ {p} = Hashed
    BY <1>3 DEF Hashed
  <2> QED BY <1>1, <1>2, <1>3, <2>1 DEF Excluding, HashInv
<1>4. CASE hash_of[p] # NoHash
  <2> DEFINE rest == Sums(hash_of, Hashed \ {p})
  <2>1. p \in Hashed /\ hash_of[p] \in Hashes
    BY <1>1, <1>4 DEF Hashed
  <2>2. rest \in Aggs
    BY <1>1, <1>2, SumsAdd
  <2>3. aggregate = AddHash(rest, hash_of[p])
    BY <1>1, <1>2, <2>1, SumsAdd DEF HashInv
  <2> HIDE DEF rest
  <2>4. RemoveHash(aggregate, hash_of[p]) = rest
    BY <2>1, <2>2, <2>3, RemoveUndoes
  <2> QED BY <1>1, <1>2, <1>4, <2>4 DEF Excluding, rest
<1> QED BY <1>3, <1>4

LEMMA Nothing ==
  ASSUME hash_of = [p \in HashedFiles |-> NoHash], aggregate = Default
  PROVE  HashInv
<1>1. Hashed = {}
  BY DEF Hashed
<1>2. IsFiniteSet(Hashed) /\ \A p \in Hashed : hash_of[p] \in Hashes
  BY <1>1, FS_EmptySet
<1>3. Sums(hash_of, Hashed) = Default
  BY <1>1, <1>2, SumsAdd
<1> QED BY <1>2, <1>3 DEF HashInv

LEMMA HashStep == HashInv /\ [HashNext]_hashVars => HashInv'
<1> SUFFICES ASSUME HashInv, [HashNext]_hashVars PROVE HashInv'
  OBVIOUS
<1>1. ASSUME NEW p \in HashedFiles, NEW hash \in Hashes, HashUpsert(p, hash) PROVE HashInv'
  <2> DEFINE rest == Hashed \ {p}
             all == Hashed \union {p}
  <2>1. /\ hash_of' \in [HashedFiles -> Hashes \union {NoHash}]
        /\ hash_of'[p] = hash /\ \A q \in HashedFiles : q # p => hash_of'[q] = hash_of[q]
    BY <1>1 DEF HashUpsert, HashInv
  <2>2. Hashed' = all
    BY <2>1, HashConstants DEF Hashed
  <2>3. /\ IsFiniteSet(rest) /\ \A q \in Hashed : hash_of[q] \in Hashes
        /\ Excluding(p) = Sums(hash_of, rest)
    BY ExcludingOne
  <2>4. IsFiniteSet(all) /\ \A q \in all : hash_of'[q] \in Hashes
    <3>1. IsFiniteSet(all)
      BY FS_AddElement DEF HashInv
    <3> QED BY <2>1, <2>3, <3>1 DEF Hashed
  <2>5. Sums(hash_of', rest) = Sums(hash_of, rest)
    <3>1. \A q \in rest : hash_of[q] \in Hashes /\ hash_of'[q] = hash_of[q]
      BY <2>1, <2>3 DEF Hashed
    <3> HIDE DEF rest
    <3> QED BY <2>3, <3>1, SumsSame
  <2>6. Sums(hash_of', all) = AddHash(Sums(hash_of', all \ {p}), hash_of'[p])
    <3>1. p \in all
      OBVIOUS
    <3> HIDE DEF all
    <3> QED BY <2>4, <3>1, SumsAdd
  <2>7. all \ {p} = rest
    OBVIOUS
  <2>8. aggregate' = Sums(hash_of', all)
    BY <1>1, <2>1, <2>3, <2>5, <2>6, <2>7 DEF HashUpsert
  <2> QED BY <2>1, <2>2, <2>4, <2>8 DEF HashInv
<1>2. ASSUME NEW p \in HashedFiles, HashRemove(p) PROVE HashInv'
  <2> DEFINE rest == Hashed \ {p}
  <2>1. /\ hash_of' \in [HashedFiles -> Hashes \union {NoHash}]
        /\ hash_of'[p] = NoHash /\ \A q \in HashedFiles : q # p => hash_of'[q] = hash_of[q]
    BY <1>2 DEF HashRemove, HashInv
  <2>2. Hashed' = rest
    BY <2>1 DEF Hashed
  <2>3. /\ IsFiniteSet(rest) /\ \A q \in Hashed : hash_of[q] \in Hashes
        /\ Excluding(p) = Sums(hash_of, rest)
    BY ExcludingOne
  <2>4. Sums(hash_of', rest) = Sums(hash_of, rest)
    <3>1. \A q \in rest : hash_of[q] \in Hashes /\ hash_of'[q] = hash_of[q]
      BY <2>1, <2>3 DEF Hashed
    <3> HIDE DEF rest
    <3> QED BY <2>3, <3>1, SumsSame
  <2>5. aggregate' = Sums(hash_of', rest)
    BY <1>2, <2>3, <2>4 DEF HashRemove
  <2> QED BY <2>1, <2>2, <2>3, <2>5 DEF HashInv
<1>3. ASSUME HashClear PROVE HashInv'
  <2>1. hash_of' = [p \in HashedFiles |-> NoHash] /\ aggregate' = Default
    BY <1>3 DEF HashClear
  <2>2. Hashed' = {}
    BY <2>1 DEF Hashed
  <2>3. Sums(hash_of', {}) = Default /\ IsFiniteSet({})
    BY FS_EmptySet, SumsAdd
  <2> QED BY <2>1, <2>2, <2>3 DEF HashInv
<1>4. CASE UNCHANGED hashVars
  BY <1>4 DEF hashVars, HashInv, Hashed
<1> QED BY <1>1, <1>2, <1>3, <1>4 DEF HashNext

LEMMA HashExact == HashInv => AggregateExact
<1> SUFFICES ASSUME HashInv PROVE AggregateExact
  OBVIOUS
<1>1. CombineUnordered(HashedFiles) = Sums(hash_of, Hashed)
  BY DEF CombineUnordered, Sums, Hashed
<1>2. ASSUME NEW p \in HashedFiles
      PROVE  CombineUnordered(HashedFiles \ {p}) = Sums(hash_of, Hashed \ {p})
  <2>1. {q \in HashedFiles \ {p} : hash_of[q] # NoHash} = Hashed \ {p}
    BY DEF Hashed
  <2> QED BY <2>1 DEF CombineUnordered, Sums
<1> QED BY <1>1, <1>2, ExcludingOne DEF HashInv, AggregateExact

\* The aggregate that is kept up to date by adding and taking out hashes in words that wrap
\* around is the one that adding up the present files from nothing gives, with or without any
\* one of them, for any number of files, any hashes and words of any 2^Log bits.
THEOREM AggregateStaysExact == HashSpec => []AggregateExact
<1>1. HashInit => HashInv
  BY Nothing DEF HashInit
<1> QED BY <1>1, HashStep, HashExact, PTL DEF HashSpec
===============================================================================
