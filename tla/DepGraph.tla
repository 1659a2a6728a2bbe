------------------------------- MODULE DepGraph -------------------------------
(***************************************************************************)
(* DependencyGraph (src/src/dep_graph.rs): the dependencies of the files,   *)
(* by file id, and three inverse indexes that are patched on every update   *)
(* and queried instead of the dependencies.  The graph lives in LspState    *)
(* behind its mutex, so an operation is one action.                         *)
(*                                                                         *)
(* A file id is the position of the path in paths_by_id and is never given  *)
(* back; it is packed with the edge kind into one word (TypedRef).  Symbol  *)
(* ids are interned the same way but never packed, so a symbol stands for   *)
(* its id; a symbol that was never interned has empty index entries.        *)
(***************************************************************************)
EXTENDS Naturals, Sequences

CONSTANTS
  Paths,
  Symbols,
  KindCount,    \* edge kinds are 0 .. KindCount - 1, the discriminants of DepEdgeKind
  FileLimit,    \* 2 ^ TYPED_REF_FILE_BITS
  Untracked,    \* file_deps has no entry
  NoId          \* file_ids has no entry

ASSUME GraphConstants ==
  /\ KindCount \in Nat \ {0}
  /\ FileLimit \in Nat \ {0}
  /\ NoId \notin Nat

EdgeKinds == 0 .. KindCount - 1
FileIds == 0 .. FileLimit - 1

FileDeps ==
  [defined : SUBSET Symbols, referenced : SUBSET Symbols, edges : SUBSET (Symbols \X EdgeKinds)]

ASSUME UntrackedIsNone == Untracked \notin FileDeps

VARIABLES
  file_ids,                  \* path |-> id
  tracked,                   \* paths_by_id.len()
  file_deps,                 \* id |-> the dependencies stored for it
  symbol_definers,           \* symbol |-> ids of the files that define it
  symbol_referencers,        \* symbol |-> ids of the files that refer to it
  typed_symbol_referencers   \* symbol |-> packed (kind, id) words

index == <<symbol_definers, symbol_referencers, typed_symbol_referencers>>
vars == <<file_ids, tracked, file_deps, symbol_definers, symbol_referencers,
          typed_symbol_referencers>>

\* Mutant: the kinds are counted from one.
TypedRefFromOne(kind, id) == (kind + 1) * FileLimit + (id % FileLimit)

\* TypedRef::new, kind and file_id: the id below, the kind above.
TypedRef(kind, id) == kind * FileLimit + (id % FileLimit)
KindOf(ref) == ref \div FileLimit
FileOf(ref) == ref % FileLimit

Init ==
  /\ file_ids = [p \in Paths |-> NoId]
  /\ tracked = 0
  /\ file_deps = [i \in FileIds |-> Untracked]
  /\ symbol_definers = [s \in Symbols |-> {}]
  /\ symbol_referencers = [s \in Symbols |-> {}]
  /\ typed_symbol_referencers = [s \in Symbols |-> {}]

\* What clear_file takes out of the indexes: the entries of the dependencies stored so far.
Stored(i) ==
  IF file_deps[i] = Untracked
  THEN [defined |-> {}, referenced |-> {}, edges |-> {}] ELSE file_deps[i]

\* An index of files after id i has been taken from the symbols of old and added to new.
Moved(files, i, old, new) ==
  [s \in Symbols |-> (files[s] \ (IF s \in old THEN {i} ELSE {}))
                       \union (IF s \in new THEN {i} ELSE {})]

\* Mutant: the typed index is only added to.
MovedRefsKept(refs, i, old, new) ==
  [s \in Symbols |-> refs[s] \union {TypedRef(e[2], i) : e \in {e \in new : e[1] = s}}]

\* The same for the typed index, edge by edge.
MovedRefs(refs, i, old, new) ==
  [s \in Symbols |-> (refs[s] \ {TypedRef(e[2], i) : e \in {e \in old : e[1] = s}})
                       \union {TypedRef(e[2], i) : e \in {e \in new : e[1] = s}}]

\* clear_file and then the insertions: both are one index update.
Replace(i, d) ==
  /\ symbol_definers' = Moved(symbol_definers, i, Stored(i).defined, d.defined)
  /\ symbol_referencers' = Moved(symbol_referencers, i, Stored(i).referenced, d.referenced)
  /\ typed_symbol_referencers' =
       MovedRefs(typed_symbol_referencers, i, Stored(i).edges, d.edges)

\* Mutant: an id above the mask is cut to the mask.
FileIdMasked(p) == IF file_ids[p] = NoId THEN tracked % FileLimit ELSE file_ids[p]

\* get_or_create_file_id: the id of the path, or the next position.
FileId(p) == IF file_ids[p] = NoId THEN tracked ELSE file_ids[p]

\* update_file.  The id comes first, and its creation panics when the ids are used up, before
\* anything has changed.
UpdateFile(p, d) ==
  LET i == FileId(p) IN
  /\ i \in FileIds
  /\ file_ids' = [file_ids EXCEPT ![p] = i]
  /\ tracked' = IF file_ids[p] = NoId THEN tracked + 1 ELSE tracked
  /\ Replace(i, d)
  /\ file_deps' = [file_deps EXCEPT ![i] = d]

\* remove_file: the id stays with the path.
RemoveFile(p) ==
  /\ file_ids[p] # NoId
  /\ Replace(file_ids[p], [defined |-> {}, referenced |-> {}, edges |-> {}])
  /\ file_deps' = [file_deps EXCEPT ![file_ids[p]] = Untracked]
  /\ UNCHANGED <<file_ids, tracked>>

Next == \E p \in Paths : RemoveFile(p) \/ \E d \in FileDeps : UpdateFile(p, d)

Spec == Init /\ [][Next]_vars

-----------------------------------------------------------------------------
(* The queries read the indexes, not the dependencies. *)

CollectPaths(ids) == {p \in Paths : file_ids[p] \in ids}

DependentsOf(symbols) == CollectPaths(UNION {symbol_referencers[s] : s \in symbols})

DefinersOf(symbols) == CollectPaths(UNION {symbol_definers[s] : s \in symbols})

\* dependent_file_ids_by_kinds without and with include_untyped_fallback.
StrictIds(symbols, kinds) ==
  UNION {{FileOf(r) : r \in {r \in typed_symbol_referencers[s] : KindOf(r) \in kinds}} :
           s \in symbols}

DependentsOfByKindStrict(symbols, kinds) == CollectPaths(StrictIds(symbols, kinds))

DependentsOfByKind(symbols, kinds) ==
  CollectPaths(StrictIds(symbols, kinds) \union
    {i \in UNION {symbol_referencers[s] : s \in symbols} :
       file_deps[i] = Untracked \/ file_deps[i].edges = {}})

-----------------------------------------------------------------------------
(* Properties. *)

TypeOK ==
  /\ file_ids \in [Paths -> FileIds \union {NoId}]
  /\ tracked \in 0 .. FileLimit
  /\ file_deps \in [FileIds -> FileDeps \union {Untracked}]
  /\ symbol_definers \in [Symbols -> SUBSET FileIds]
  /\ symbol_referencers \in [Symbols -> SUBSET FileIds]
  /\ typed_symbol_referencers \in [Symbols -> SUBSET (0 .. KindCount * FileLimit - 1)]

\* An id belongs to one path, and the ids in use are the first ones.
IdsDistinct ==
  /\ \A p \in Paths : file_ids[p] # NoId => file_ids[p] < tracked
  /\ \A p, q \in Paths : file_ids[p] = file_ids[q] /\ file_ids[p] # NoId => p = q

\* After any sequence of updates and removals the indexes are exactly the inverse of the
\* stored dependencies: no entry of an earlier analysis is left behind and none is missing.
IndexExact ==
  \A s \in Symbols, i \in FileIds :
    /\ i \in symbol_definers[s] <=> s \in Stored(i).defined
    /\ i \in symbol_referencers[s] <=> s \in Stored(i).referenced
    /\ \A k \in EdgeKinds :
         TypedRef(k, i) \in typed_symbol_referencers[s] <=> <<s, k>> \in Stored(i).edges

\* The graph as a map from paths to dependencies.
Known == [p \in Paths |-> IF file_ids[p] = NoId THEN Untracked ELSE file_deps[file_ids[p]]]

Abstract == INSTANCE Dependencies WITH deps <- Known
AbstractSpec == Abstract!Spec

\* Every query answers what the dependencies of the files say.
QueriesExact ==
  \A symbols \in SUBSET Symbols :
    /\ DependentsOf(symbols) = Abstract!DependentsOf(symbols)
    /\ DefinersOf(symbols) = Abstract!DefinersOf(symbols)
    /\ \A kinds \in SUBSET EdgeKinds :
         /\ DependentsOfByKindStrict(symbols, kinds)
              = Abstract!DependentsOfByKindStrict(symbols, kinds)
         /\ DependentsOfByKind(symbols, kinds) = Abstract!DependentsOfByKind(symbols, kinds)
===============================================================================
