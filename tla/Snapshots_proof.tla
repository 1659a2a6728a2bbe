---------------------------- MODULE Snapshots_proof ----------------------------
(***************************************************************************)
(* Proofs about two parts of the server that follow the snapshots of files. *)
(*                                                                         *)
(* Of DepGraph, for any paths, symbols, edge kinds and id width: packing    *)
(* and ids, then the indexes, then that it implements a map.                *)
(*                                                                         *)
(* Of OpenDocuments, for any number of edits, changes, commands             *)
(* and jobs.  MarkHasTask and LensesFollow are inductive once jobs are      *)
(* known to be records.  SnapshotCatchesUp is not: while an analysis is     *)
(* under way it says nothing, so nothing of how the last one ends.  What    *)
(* every step keeps is Caught: the snapshot is of the text, or the text is  *)
(* marked as under analysis, or a copy of another text was stored last.     *)
(*                                                                         *)
(* TextFollowsEdits speaks of the moments when nothing is on the way.  What *)
(* every step keeps is that the messages on the way lead from the text the  *)
(* server has to the text of the editor: there are texts in between, one    *)
(* for each message, of which the invariant says no more than that each     *)
(* message makes the next one of the one before.                            *)
(***************************************************************************)
EXTENDS DepGraph, OpenDocuments, SequenceTheorems, TLAPS

-----------------------------------------------------------------------------
(* Packing. *)

LEMMA MultipleAtLeast ==
  ASSUME NEW b \in Nat, NEW n \in Nat, n >= 1
  PROVE  b * n >= b
<1>1. PICK m \in Nat : n = m + 1
  <2>1. n - 1 \in Nat /\ n = (n - 1) + 1
    OBVIOUS
  <2> QED
    BY <2>1
<1>2. b * n = b * m + b
  BY <1>1
<1>3. b * m \in Nat
  OBVIOUS
<1> QED
  BY <1>2, <1>3

\* Quotient and remainder are unique.
LEMMA DivisionUnique ==
  ASSUME NEW b \in Nat, NEW q1 \in Nat, NEW q2 \in Nat, NEW r1 \in 0 .. b - 1, NEW r2 \in 0 .. b - 1,
         q1 * b + r1 = q2 * b + r2
  PROVE  q1 = q2 /\ r1 = r2
<1>1. ASSUME NEW p1 \in Nat, NEW p2 \in Nat, NEW s1 \in 0 .. b - 1, NEW s2 \in 0 .. b - 1,
             p1 * b + s1 = p2 * b + s2, p1 < p2
      PROVE  FALSE
  <2> DEFINE d == p2 - p1
  <2>1. d \in Nat /\ d >= 1 /\ p2 = p1 + d
    BY <1>1
  <2>2. p2 * b = p1 * b + b * d
    BY <2>1
  <2>3. b * d >= b
    BY <2>1, MultipleAtLeast
  <2>4. p1 * b \in Nat /\ b * d \in Nat
    BY <2>1
  <2> HIDE DEF d
  <2> QED
    BY <1>1, <2>2, <2>3, <2>4
<1>2. ~(q1 < q2)
  BY <1>1
<1>3. ~(q2 < q1)
  BY <1>1
<1>4. q1 = q2
  BY <1>2, <1>3
<1>5. q1 * b \in Nat
  OBVIOUS
<1> QED
  BY <1>4, <1>5

\* The word of a kind and an id gives back both, and is below KindCount * FileLimit.
LEMMA Packing ==
  ASSUME GraphConstants, NEW k \in EdgeKinds, NEW i \in FileIds
  PROVE  /\ TypedRef(k, i) \in 0 .. KindCount * FileLimit - 1
         /\ KindOf(TypedRef(k, i)) = k
         /\ FileOf(TypedRef(k, i)) = i
<1> DEFINE L == FileLimit
<1> DEFINE r == k * L + i
<1>1. L \in Nat \ {0} /\ KindCount \in Nat \ {0} /\ k \in Nat /\ i \in 0 .. L - 1
  BY DEF GraphConstants, EdgeKinds, FileIds
<1>2. i % L = i
  BY <1>1
<1>3. TypedRef(k, i) = r
  BY <1>2 DEF TypedRef
<1>4. r \in Nat
  BY <1>1
<1>5. /\ r \div L \in Nat /\ r % L \in 0 .. L - 1
      /\ r = (r \div L) * L + (r % L)
  <2> HIDE DEF r, L
  <2> QED
    BY <1>1, <1>4
<1>6. r \div L = k /\ r % L = i
  <2>1. k * L + i = (r \div L) * L + (r % L)
    BY <1>5
  <2> HIDE DEF r, L
  <2> QED
    BY <1>1, <1>5, <2>1, DivisionUnique
<1>7. r <= KindCount * L - 1
  <2> DEFINE d == KindCount - k
  <2>1. d \in Nat /\ d >= 1 /\ KindCount = k + d
    BY <1>1 DEF EdgeKinds
  <2>2. KindCount * L = k * L + L * d
    BY <1>1, <2>1
  <2>3. L * d >= L
    BY <1>1, <2>1, MultipleAtLeast
  <2>4. k * L \in Nat /\ L * d \in Nat
    BY <1>1, <2>1
  <2> HIDE DEF d, L
  <2> QED
    BY <1>1, <2>2, <2>3, <2>4
<1> QED
  BY <1>3, <1>4, <1>6, <1>7 DEF KindOf, FileOf
\* Every word below KindCount * FileLimit is the word of its own kind and id.
LEMMA Unpacking ==
  ASSUME GraphConstants, NEW r \in 0 .. KindCount * FileLimit - 1
  PROVE  KindOf(r) \in EdgeKinds /\ FileOf(r) \in FileIds /\ TypedRef(KindOf(r), FileOf(r)) = r
<1> DEFINE L == FileLimit
<1> DEFINE q == r \div L
<1> DEFINE m == r % L
<1>1. L \in Nat \ {0} /\ KindCount \in Nat \ {0} /\ r \in Nat /\ r < KindCount * L
  <2>1. KindCount * FileLimit \in Nat
    BY DEF GraphConstants
  <2> QED
    BY <2>1 DEF GraphConstants
<1>2. q \in Nat /\ m \in 0 .. L - 1 /\ r = q * L + m
  <2> HIDE DEF L
  <2> QED
    BY <1>1
<1>3. q < KindCount
  <2> SUFFICES ASSUME q >= KindCount
               PROVE  FALSE
    BY <1>1, <1>2
  <2> DEFINE d == q - KindCount
  <2>1. d \in Nat /\ q = KindCount + d
    BY <1>1, <1>2
  <2>2. q * L = KindCount * L + d * L
    BY <1>1, <2>1
  <2>3. d * L \in Nat /\ KindCount * L \in Nat
    BY <1>1, <2>1
  <2> HIDE DEF d, L, q, m
  <2> QED
    BY <1>1, <1>2, <2>2, <2>3
<1>4. m % L = m
  <2> HIDE DEF m, L
  <2> QED
    BY <1>1, <1>2
<1>5. KindOf(r) = q /\ FileOf(r) = m /\ TypedRef(q, m) = q * L + m
  BY <1>4 DEF KindOf, FileOf, TypedRef
<1>6. q \in EdgeKinds /\ m \in FileIds
  BY <1>1, <1>2, <1>3 DEF EdgeKinds, FileIds
<1> HIDE DEF q, m, L
<1> QED
  BY <1>2, <1>5, <1>6

-----------------------------------------------------------------------------
(* The indexes. *)

NoDeps == [defined |-> {}, referenced |-> {}, edges |-> {}]

LEMMA NoDepsType == NoDeps \in FileDeps
  BY DEF NoDeps, FileDeps

LEMMA StoredType ==
  ASSUME TypeOK, NEW i \in FileIds
  PROVE  Stored(i) \in FileDeps
  BY NoDepsType DEF TypeOK, Stored, NoDeps

\* An index of files after a move: only the entries of the moved file change.
LEMMA MovedExact ==
  ASSUME NEW files \in [Symbols -> SUBSET FileIds], NEW i \in FileIds,
         NEW old \in SUBSET Symbols, NEW new \in SUBSET Symbols,
         \A s \in Symbols : i \in files[s] <=> s \in old
  PROVE  /\ Moved(files, i, old, new) \in [Symbols -> SUBSET FileIds]
         /\ \A s \in Symbols : i \in Moved(files, i, old, new)[s] <=> s \in new
         /\ \A s \in Symbols, j \in FileIds \ {i} :
              j \in Moved(files, i, old, new)[s] <=> j \in files[s]
  BY DEF Moved

LEMMA MovedRefsExact ==
  ASSUME GraphConstants,
         NEW refs \in [Symbols -> SUBSET (0 .. KindCount * FileLimit - 1)], NEW i \in FileIds,
         NEW old \in SUBSET (Symbols \X EdgeKinds), NEW new \in SUBSET (Symbols \X EdgeKinds),
         \A s \in Symbols, k \in EdgeKinds : TypedRef(k, i) \in refs[s] <=> <<s, k>> \in old
  PROVE  LET moved == MovedRefs(refs, i, old, new) IN
         /\ moved \in [Symbols -> SUBSET (0 .. KindCount * FileLimit - 1)]
         /\ \A s \in Symbols, k \in EdgeKinds :
              /\ TypedRef(k, i) \in moved[s] <=> <<s, k>> \in new
              /\ \A j \in FileIds \ {i} : TypedRef(k, j) \in moved[s] <=> TypedRef(k, j) \in refs[s]
<1> DEFINE moved == MovedRefs(refs, i, old, new)
<1> DEFINE out(s) == {TypedRef(e[2], i) : e \in {e \in old : e[1] = s}}
<1> DEFINE in(s) == {TypedRef(e[2], i) : e \in {e \in new : e[1] = s}}
<1>0. \A s \in Symbols : moved[s] = (refs[s] \ out(s)) \union in(s)
  BY DEF MovedRefs
<1>1. \A s \in Symbols : in(s) \subseteq 0 .. KindCount * FileLimit - 1
  BY Packing
<1>2. moved \in [Symbols -> SUBSET (0 .. KindCount * FileLimit - 1)]
  <2>1. moved = [s \in Symbols |-> (refs[s] \ out(s)) \union in(s)]
    BY DEF MovedRefs
  <2> HIDE DEF moved, in, out
  <2> QED
    BY <1>1, <2>1
<1>3. ASSUME NEW s \in Symbols, NEW k \in EdgeKinds
      PROVE  /\ TypedRef(k, i) \in out(s) <=> <<s, k>> \in old
             /\ TypedRef(k, i) \in in(s) <=> <<s, k>> \in new
  <2>1. \A e \in old \union new : e[1] = s /\ TypedRef(e[2], i) = TypedRef(k, i) => e = <<s, k>>
    BY Packing
  <2>2. <<s, k>>[1] = s /\ <<s, k>>[2] = k
    OBVIOUS
  <2> QED
    BY <2>1, <2>2
<1>4. ASSUME NEW s \in Symbols, NEW k \in EdgeKinds, NEW j \in FileIds \ {i}
      PROVE  TypedRef(k, j) \notin out(s) \union in(s)
  BY Packing
<1>5. ASSUME NEW s \in Symbols, NEW k \in EdgeKinds
      PROVE  /\ TypedRef(k, i) \in moved[s] <=> <<s, k>> \in new
             /\ \A j \in FileIds \ {i} : TypedRef(k, j) \in moved[s] <=> TypedRef(k, j) \in refs[s]
  <2> HIDE DEF in, out, moved
  <2> QED
    BY <1>0, <1>3, <1>4
<1> QED
  BY <1>2, <1>5

\* What keeps the indexes exact across updates and removals.
GraphInv == TypeOK /\ IdsDistinct /\ IndexExact

\* The dependencies of one id are replaced, in the indexes and in file_deps.
LEMMA ReplaceExact ==
  ASSUME GraphConstants, UntrackedIsNone, GraphInv, NEW i \in FileIds, NEW d \in FileDeps,
         NEW x \in {d, Untracked}, x = Untracked => d = NoDeps,
         Replace(i, d), file_deps' = [file_deps EXCEPT ![i] = x]
  PROVE  /\ file_deps' \in [FileIds -> FileDeps \union {Untracked}]
         /\ symbol_definers' \in [Symbols -> SUBSET FileIds]
         /\ symbol_referencers' \in [Symbols -> SUBSET FileIds]
         /\ typed_symbol_referencers' \in [Symbols -> SUBSET (0 .. KindCount * FileLimit - 1)]
         /\ IndexExact'
<1> DEFINE old == Stored(i)
<1>1. old \in FileDeps
  BY StoredType DEF GraphInv
<1>2. /\ old.defined \in SUBSET Symbols /\ d.defined \in SUBSET Symbols
      /\ old.referenced \in SUBSET Symbols /\ d.referenced \in SUBSET Symbols
      /\ old.edges \in SUBSET (Symbols \X EdgeKinds) /\ d.edges \in SUBSET (Symbols \X EdgeKinds)
  BY <1>1 DEF FileDeps
<1>3. file_deps' \in [FileIds -> FileDeps \union {Untracked}]
  BY DEF GraphInv, TypeOK
<1>4. (Stored(i))' = d
  BY UntrackedIsNone DEF Stored, GraphInv, TypeOK, NoDeps
<1>5. \A j \in FileIds \ {i} : (Stored(j))' = Stored(j)
  BY DEF Stored, GraphInv, TypeOK
<1>6. /\ symbol_definers' \in [Symbols -> SUBSET FileIds]
      /\ \A s \in Symbols : i \in symbol_definers'[s] <=> s \in d.defined
      /\ \A s \in Symbols, j \in FileIds \ {i} :
           j \in symbol_definers'[s] <=> j \in symbol_definers[s]
  <2>1. \A s \in Symbols : i \in symbol_definers[s] <=> s \in old.defined
    BY DEF GraphInv, IndexExact
  <2>2. symbol_definers' = Moved(symbol_definers, i, old.defined, d.defined)
    BY DEF Replace
  <2>3. symbol_definers \in [Symbols -> SUBSET FileIds]
    BY DEF GraphInv, TypeOK
  <2> DEFINE was == old.defined
  <2> DEFINE now == d.defined
  <2>4. was \in SUBSET Symbols /\ now \in SUBSET Symbols
    BY <1>2
  <2> HIDE DEF was, now
  <2>5. /\ Moved(symbol_definers, i, was, now) \in [Symbols -> SUBSET FileIds]
        /\ \A s \in Symbols : i \in Moved(symbol_definers, i, was, now)[s] <=> s \in now
        /\ \A s \in Symbols, j \in FileIds \ {i} :
             j \in Moved(symbol_definers, i, was, now)[s] <=> j \in symbol_definers[s]
    <3>1. \A s \in Symbols : i \in symbol_definers[s] <=> s \in was
      BY <2>1 DEF was
    <3> QED
      BY <2>3, <2>4, <3>1, MovedExact
  <2> QED
    BY <2>2, <2>5 DEF was, now
<1>7. /\ symbol_referencers' \in [Symbols -> SUBSET FileIds]
      /\ \A s \in Symbols : i \in symbol_referencers'[s] <=> s \in d.referenced
      /\ \A s \in Symbols, j \in FileIds \ {i} :
           j \in symbol_referencers'[s] <=> j \in symbol_referencers[s]
  <2>1. \A s \in Symbols : i \in symbol_referencers[s] <=> s \in old.referenced
    BY DEF GraphInv, IndexExact
  <2>2. symbol_referencers' = Moved(symbol_referencers, i, old.referenced, d.referenced)
    BY DEF Replace
  <2>3. symbol_referencers \in [Symbols -> SUBSET FileIds]
    BY DEF GraphInv, TypeOK
  <2> DEFINE was == old.referenced
  <2> DEFINE now == d.referenced
  <2>4. was \in SUBSET Symbols /\ now \in SUBSET Symbols
    BY <1>2
  <2> HIDE DEF was, now
  <2>5. /\ Moved(symbol_referencers, i, was, now) \in [Symbols -> SUBSET FileIds]
        /\ \A s \in Symbols : i \in Moved(symbol_referencers, i, was, now)[s] <=> s \in now
        /\ \A s \in Symbols, j \in FileIds \ {i} :
             j \in Moved(symbol_referencers, i, was, now)[s] <=> j \in symbol_referencers[s]
    <3>1. \A s \in Symbols : i \in symbol_referencers[s] <=> s \in was
      BY <2>1 DEF was
    <3> QED
      BY <2>3, <2>4, <3>1, MovedExact
  <2> QED
    BY <2>2, <2>5 DEF was, now
<1>8. /\ typed_symbol_referencers' \in [Symbols -> SUBSET (0 .. KindCount * FileLimit - 1)]
      /\ \A s \in Symbols, k \in EdgeKinds :
           /\ TypedRef(k, i) \in typed_symbol_referencers'[s] <=> <<s, k>> \in d.edges
           /\ \A j \in FileIds \ {i} :
                TypedRef(k, j) \in typed_symbol_referencers'[s]
                  <=> TypedRef(k, j) \in typed_symbol_referencers[s]
  <2>1. \A s \in Symbols, k \in EdgeKinds :
          TypedRef(k, i) \in typed_symbol_referencers[s] <=> <<s, k>> \in old.edges
    BY DEF GraphInv, IndexExact
  <2>2. typed_symbol_referencers' = MovedRefs(typed_symbol_referencers, i, old.edges, d.edges)
    BY DEF Replace
  <2>3. typed_symbol_referencers \in [Symbols -> SUBSET (0 .. KindCount * FileLimit - 1)]
    BY DEF GraphInv, TypeOK
  <2> HIDE DEF old
  <2> QED
    BY <1>2, <2>1, <2>2, <2>3, MovedRefsExact
<1>9. ASSUME NEW s \in Symbols, NEW j \in FileIds
      PROVE  /\ j \in symbol_definers'[s] <=> s \in (Stored(j))'.defined
             /\ j \in symbol_referencers'[s] <=> s \in (Stored(j))'.referenced
             /\ \A k \in EdgeKinds :
                  TypedRef(k, j) \in typed_symbol_referencers'[s] <=> <<s, k>> \in (Stored(j))'.edges
  <2>1. CASE j = i
    BY <1>4, <1>6, <1>7, <1>8, <2>1
  <2>2. CASE j # i
    BY <1>5, <1>6, <1>7, <1>8, <2>2 DEF GraphInv, IndexExact
  <2> QED
    BY <2>1, <2>2
<1> QED
  BY <1>3, <1>6, <1>7, <1>8, <1>9 DEF IndexExact, TypedRef

LEMMA GraphStep ==
  ASSUME GraphConstants, UntrackedIsNone, GraphInv, [Next]_vars
  PROVE  GraphInv' /\ [Abstract!Next]_Known
<1>1. ASSUME NEW p \in Paths, RemoveFile(p)
      PROVE  GraphInv' /\ Abstract!Remove(p)
  <2> DEFINE i == file_ids[p]
  <2>1. i \in FileIds
    BY <1>1 DEF RemoveFile, GraphInv, TypeOK
  <2>2. Replace(i, NoDeps) /\ file_deps' = [file_deps EXCEPT ![i] = Untracked]
    BY <1>1 DEF RemoveFile, NoDeps
  <2>3. /\ file_deps' \in [FileIds -> FileDeps \union {Untracked}]
        /\ symbol_definers' \in [Symbols -> SUBSET FileIds]
        /\ symbol_referencers' \in [Symbols -> SUBSET FileIds]
        /\ typed_symbol_referencers' \in [Symbols -> SUBSET (0 .. KindCount * FileLimit - 1)]
        /\ IndexExact'
    BY <2>1, <2>2, NoDepsType, ReplaceExact
  <2>4. UNCHANGED <<file_ids, tracked>>
    BY <1>1 DEF RemoveFile
  <2>5. GraphInv'
    BY <2>3, <2>4 DEF GraphInv, TypeOK, IdsDistinct
  <2>6. \A q \in Paths : Known'[q] = IF q = p THEN Untracked ELSE Known[q]
    BY <2>1, <2>2, <2>4 DEF Known, GraphInv, TypeOK, IdsDistinct
  <2>7. Known' = [Known EXCEPT ![p] = Untracked]
    BY <2>6 DEF Known
  <2> QED
    BY <2>5, <2>7 DEF Abstract!Remove
<1>2. ASSUME NEW p \in Paths, NEW d \in FileDeps, UpdateFile(p, d)
      PROVE  GraphInv' /\ Abstract!Update(p, d)
  <2> DEFINE i == FileId(p)
  <2>1. /\ i \in FileIds /\ file_ids' = [file_ids EXCEPT ![p] = i]
        /\ tracked' = IF file_ids[p] = NoId THEN tracked + 1 ELSE tracked
        /\ Replace(i, d) /\ file_deps' = [file_deps EXCEPT ![i] = d]
    BY <1>2 DEF UpdateFile
  <2>2. /\ file_deps' \in [FileIds -> FileDeps \union {Untracked}]
        /\ symbol_definers' \in [Symbols -> SUBSET FileIds]
        /\ symbol_referencers' \in [Symbols -> SUBSET FileIds]
        /\ typed_symbol_referencers' \in [Symbols -> SUBSET (0 .. KindCount * FileLimit - 1)]
        /\ IndexExact'
    <3>1. d # Untracked
      BY UntrackedIsNone
    <3> HIDE DEF i
    <3> QED
      BY <2>1, <3>1, ReplaceExact
  <2>3. \A q \in Paths : file_ids'[q] = IF q = p THEN i ELSE file_ids[q]
    BY <2>1 DEF GraphInv, TypeOK
  <2>4. \A q \in Paths : q # p => file_ids[q] # i
    BY <2>1 DEF FileId, GraphInv, TypeOK, IdsDistinct, FileIds, GraphConstants
  <2>5. /\ tracked' \in 0 .. FileLimit
        /\ \A q \in Paths : file_ids'[q] # NoId => file_ids'[q] < tracked'
    <3>1. CASE file_ids[p] = NoId
      <4>1. i = tracked /\ tracked' = tracked + 1 /\ tracked \in Nat
        BY <2>1, <3>1 DEF FileId, GraphInv, TypeOK, GraphConstants
      <4> QED
        BY <2>1, <2>3, <4>1 DEF GraphInv, TypeOK, IdsDistinct, FileIds, GraphConstants
    <3>2. CASE file_ids[p] # NoId
      BY <2>1, <2>3, <3>2 DEF FileId, GraphInv, TypeOK, IdsDistinct
    <3> QED
      BY <3>1, <3>2
  <2>6. GraphInv'
    <3>1. file_ids' \in [Paths -> FileIds \union {NoId}]
      BY <2>1 DEF GraphInv, TypeOK
    <3>2. \A q, r \in Paths : file_ids'[q] = file_ids'[r] /\ file_ids'[q] # NoId => q = r
      <4> HIDE DEF i
      <4> QED
        BY <2>3, <2>4 DEF GraphInv, IdsDistinct
    <3> QED
      BY <2>2, <2>5, <3>1, <3>2 DEF GraphInv, TypeOK, IdsDistinct
  <2>7. \A q \in Paths : Known'[q] = IF q = p THEN d ELSE Known[q]
    <3>1. i # NoId /\ file_deps'[i] = d
      BY <2>1 DEF GraphInv, TypeOK, FileIds, GraphConstants
    <3>2. \A q \in Paths : q # p /\ file_ids[q] # NoId => file_deps'[file_ids[q]] = file_deps[file_ids[q]]
      BY <2>1, <2>4 DEF GraphInv, TypeOK
    <3> HIDE DEF i
    <3> QED
      BY <2>3, <3>1, <3>2 DEF Known
  <2>8. Known' = [Known EXCEPT ![p] = d]
    BY <2>7 DEF Known
  <2> QED
    BY <2>6, <2>8 DEF Abstract!Update
<1>3. CASE UNCHANGED vars
  <2>1. GraphInv' /\ Known' = Known
    BY <1>3 DEF vars, GraphInv, TypeOK, IdsDistinct, IndexExact, Stored, Known
  <2> QED
    BY <2>1
<1>4. Abstract!FileDeps = FileDeps
  BY DEF Abstract!FileDeps, FileDeps
<1> QED
  BY <1>1, <1>2, <1>3, <1>4 DEF Next, Abstract!Next
LEMMA GraphInit == ASSUME GraphConstants PROVE Init => GraphInv
<1> SUFFICES ASSUME Init
             PROVE  GraphInv
  OBVIOUS
<1>1. TypeOK
  <2>1. FileLimit \in Nat /\ 0 \in 0 .. FileLimit
    BY DEF GraphConstants
  <2>2. typed_symbol_referencers \in [Symbols -> SUBSET (0 .. KindCount * FileLimit - 1)]
    BY DEF Init
  <2>3. /\ file_ids \in [Paths -> FileIds \union {NoId}]
        /\ file_deps \in [FileIds -> FileDeps \union {Untracked}]
        /\ symbol_definers \in [Symbols -> SUBSET FileIds]
        /\ symbol_referencers \in [Symbols -> SUBSET FileIds]
    BY DEF Init
  <2> QED
    BY <2>1, <2>2, <2>3 DEF Init, TypeOK
<1>2. \A i \in FileIds : Stored(i) = NoDeps
  BY DEF Init, Stored, NoDeps
<1> QED
  BY <1>1, <1>2 DEF Init, GraphInv, IdsDistinct, IndexExact, NoDeps

LEMMA QueriesFollow ==
  ASSUME GraphConstants, UntrackedIsNone, GraphInv
  PROVE  QueriesExact
<1>1. ASSUME NEW p \in Paths
      PROVE  /\ p \in Abstract!Tracked => file_ids[p] \in FileIds
             /\ p \in Abstract!Tracked => Known[p] = Stored(file_ids[p])
             /\ p \in Abstract!Tracked =>
                  file_deps[file_ids[p]] # Untracked /\ Known[p] = file_deps[file_ids[p]]
             /\ p \notin Abstract!Tracked /\ file_ids[p] \in FileIds =>
                  Stored(file_ids[p]) = NoDeps
  <2>1. file_ids[p] \in FileIds \union {NoId}
    BY DEF GraphInv, TypeOK
  <2>2. Known[p] = IF file_ids[p] = NoId THEN Untracked ELSE file_deps[file_ids[p]]
    BY DEF Known
  <2>3. p \in Abstract!Tracked <=> Known[p] # Untracked
    BY DEF Abstract!Tracked
  <2>4. file_ids[p] \in FileIds => file_ids[p] # NoId
    BY DEF GraphConstants, FileIds
  <2> QED
    BY <2>1, <2>2, <2>3, <2>4 DEF Stored, NoDeps
<1>2. ASSUME NEW symbols \in SUBSET Symbols
      PROVE  /\ DependentsOf(symbols) = Abstract!DependentsOf(symbols)
             /\ DefinersOf(symbols) = Abstract!DefinersOf(symbols)
  <2>1. ASSUME NEW p \in Paths
        PROVE  /\ p \in DependentsOf(symbols) <=> p \in Abstract!DependentsOf(symbols)
               /\ p \in DefinersOf(symbols) <=> p \in Abstract!DefinersOf(symbols)
    <3>1. CASE file_ids[p] \in FileIds
      <4>1. /\ p \in DependentsOf(symbols)
                 <=> \E s \in symbols : s \in Stored(file_ids[p]).referenced
            /\ p \in DefinersOf(symbols)
                 <=> \E s \in symbols : s \in Stored(file_ids[p]).defined
        BY <3>1 DEF DependentsOf, DefinersOf, CollectPaths, GraphInv, IndexExact
      <4>2. CASE p \in Abstract!Tracked
        BY <1>1, <4>1, <4>2 DEF Abstract!DependentsOf, Abstract!DefinersOf
      <4>3. CASE p \notin Abstract!Tracked
        BY <1>1, <3>1, <4>1, <4>3 DEF Abstract!DependentsOf, Abstract!DefinersOf, NoDeps
      <4> QED
        BY <4>2, <4>3
    <3>2. CASE file_ids[p] \notin FileIds
      BY <1>1, <3>2 DEF DependentsOf, DefinersOf, CollectPaths, Abstract!DependentsOf,
                        Abstract!DefinersOf, GraphInv, TypeOK
    <3> QED
      BY <3>1, <3>2
  <2> QED
    BY <2>1 DEF DependentsOf, DefinersOf, CollectPaths, Abstract!DependentsOf,
                Abstract!DefinersOf, Abstract!Tracked
<1>3. ASSUME NEW symbols \in SUBSET Symbols, NEW kinds \in SUBSET EdgeKinds, NEW i \in FileIds
      PROVE  i \in StrictIds(symbols, kinds)
               <=> \E s \in symbols, k \in kinds : <<s, k>> \in Stored(i).edges
  <2>1. ASSUME NEW s \in symbols, NEW r \in typed_symbol_referencers[s],
               KindOf(r) \in kinds, FileOf(r) = i
        PROVE  <<s, KindOf(r)>> \in Stored(i).edges
    <3>1. r \in 0 .. KindCount * FileLimit - 1
      BY DEF GraphInv, TypeOK
    <3>2. KindOf(r) \in EdgeKinds /\ TypedRef(KindOf(r), i) = r
      BY <2>1, <3>1, Unpacking
    <3> QED
      BY <3>2 DEF GraphInv, IndexExact
  <2>2. ASSUME NEW s \in symbols, NEW k \in kinds, <<s, k>> \in Stored(i).edges
        PROVE  \E r \in typed_symbol_referencers[s] : KindOf(r) \in kinds /\ FileOf(r) = i
    <3>1. TypedRef(k, i) \in typed_symbol_referencers[s]
      BY <2>2 DEF GraphInv, IndexExact
    <3> QED
      BY <3>1, Packing
  <2>3. i \in StrictIds(symbols, kinds)
          <=> \E s \in symbols : \E r \in typed_symbol_referencers[s] :
                KindOf(r) \in kinds /\ FileOf(r) = i
    BY DEF StrictIds
  <2> QED
    BY <2>1, <2>2, <2>3
<1>4. ASSUME NEW symbols \in SUBSET Symbols, NEW kinds \in SUBSET EdgeKinds
      PROVE  /\ DependentsOfByKindStrict(symbols, kinds)
                  = Abstract!DependentsOfByKindStrict(symbols, kinds)
             /\ DependentsOfByKind(symbols, kinds) = Abstract!DependentsOfByKind(symbols, kinds)
  <2>1. ASSUME NEW p \in Paths
        PROVE  p \in DependentsOfByKindStrict(symbols, kinds)
                 <=> p \in Abstract!DependentsOfByKindStrict(symbols, kinds)
    <3>1. CASE file_ids[p] \in FileIds
      <4>1. p \in DependentsOfByKindStrict(symbols, kinds)
              <=> \E s \in symbols, k \in kinds : <<s, k>> \in Stored(file_ids[p]).edges
        BY <1>3, <3>1 DEF DependentsOfByKindStrict, CollectPaths
      <4>0. p \in Abstract!DependentsOfByKindStrict(symbols, kinds)
              <=> /\ p \in Abstract!Tracked
                  /\ \E s \in symbols, k \in kinds : <<s, k>> \in Known[p].edges
        BY DEF Abstract!DependentsOfByKindStrict
      <4>2. CASE p \in Abstract!Tracked
        <5>1. Known[p] = Stored(file_ids[p])
          BY <1>1, <4>2
        <5> QED
          BY <4>0, <4>1, <4>2, <5>1
      <4>3. CASE p \notin Abstract!Tracked
        <5>1. Stored(file_ids[p]) = NoDeps
          BY <1>1, <3>1, <4>3
        <5>2. Stored(file_ids[p]).edges = {}
          BY <5>1 DEF NoDeps
        <5> QED
          BY <4>0, <4>1, <4>3, <5>2
      <4> QED
        BY <4>2, <4>3
    <3>2. CASE file_ids[p] \notin FileIds
      <4>1. p \notin Abstract!Tracked
        BY <1>1, <3>2
      <4>2. StrictIds(symbols, kinds) \subseteq FileIds
        <5>1. ASSUME NEW s \in symbols, NEW r \in typed_symbol_referencers[s]
              PROVE  FileOf(r) \in FileIds
          <6>1. r \in 0 .. KindCount * FileLimit - 1
            BY DEF GraphInv, TypeOK
          <6> QED
            BY <6>1, Unpacking
        <5> QED
          BY <5>1 DEF StrictIds
      <4>3. p \notin DependentsOfByKindStrict(symbols, kinds)
        BY <3>2, <4>2 DEF DependentsOfByKindStrict, CollectPaths
      <4> QED
        BY <4>1, <4>3 DEF Abstract!DependentsOfByKindStrict
    <3> QED
      BY <3>1, <3>2
  <2>2. DependentsOfByKindStrict(symbols, kinds) = Abstract!DependentsOfByKindStrict(symbols, kinds)
    BY <2>1 DEF DependentsOfByKindStrict, CollectPaths, Abstract!DependentsOfByKindStrict,
                Abstract!Tracked
  <2>3. ASSUME NEW p \in Paths
        PROVE  p \in DependentsOfByKind(symbols, kinds)
                 <=> p \in Abstract!DependentsOfByKind(symbols, kinds)
    <3>1. p \in DependentsOfByKind(symbols, kinds)
            <=> \/ p \in DependentsOfByKindStrict(symbols, kinds)
                \/ /\ p \in DependentsOf(symbols)
                   /\ file_deps[file_ids[p]] = Untracked \/ file_deps[file_ids[p]].edges = {}
      BY DEF DependentsOfByKind, DependentsOfByKindStrict, DependentsOf, CollectPaths
    <3>2. p \in DependentsOf(symbols) => p \in Abstract!Tracked
      BY <1>2 DEF Abstract!DependentsOf
    <3> QED
      BY <1>1, <1>2, <2>2, <3>1, <3>2 DEF Abstract!DependentsOfByKind
  <2>4. /\ DependentsOfByKind(symbols, kinds) \subseteq Paths
        /\ Abstract!DependentsOfByKind(symbols, kinds) \subseteq Paths
    BY DEF DependentsOfByKind, CollectPaths, Abstract!DependentsOfByKind, Abstract!Tracked,
           Abstract!DependentsOfByKindStrict, Abstract!DependentsOf
  <2> QED
    BY <2>2, <2>3, <2>4
<1> QED
  BY <1>2, <1>4 DEF QueriesExact

-----------------------------------------------------------------------------
(* The theorems. *)

LEMMA GraphInvariant == Spec => []GraphInv
<1>1. Init => GraphInv
  BY GraphConstants, GraphInit
<1>2. GraphInv /\ [Next]_vars => GraphInv'
  BY GraphConstants, UntrackedIsNone, GraphStep
<1> QED
  BY <1>1, <1>2, PTL DEF Spec

\* Ids stay within the mask and no index word outside its range is ever written.
THEOREM GraphTypeCorrect == Spec => []TypeOK
<1>1. GraphInv => TypeOK
  BY DEF GraphInv
<1> QED
  BY <1>1, GraphInvariant, PTL

\* Whatever was updated and removed before, every query of the graph answers exactly what
\* the last dependencies of the files say.
THEOREM GraphQueriesExact == Spec => []QueriesExact
<1>1. GraphInv => QueriesExact
  BY GraphConstants, UntrackedIsNone, QueriesFollow
<1> QED
  BY <1>1, GraphInvariant, PTL

\* The graph implements a plain map from paths to dependencies: no update or removal of one
\* file changes what is known of another.
THEOREM GraphImplements == Spec => AbstractSpec
<1>1. Init => Abstract!Init
  BY DEF Init, Known, Abstract!Init
<1>2. GraphInv /\ [Next]_vars => [Abstract!Next]_Known
  BY GraphConstants, UntrackedIsNone, GraphStep
<1> QED
  BY <1>1, <1>2, GraphInvariant, PTL DEF Spec, AbstractSpec, Abstract!Spec

-----------------------------------------------------------------------------
(* Open documents. *)

IsJob(j) ==
  j = [id |-> j.id, kind |-> j.kind, at |-> j.at, text |-> j.text, epoch |-> j.epoch]

JobShape == \A j \in jobs : IsJob(j)

Caught ==
  documents # NoText =>
    \/ workspace_file = documents
    \/ document_cache_updates_in_progress = documents
    \/ outdated

IInv == JobShape /\ MarkHasTask /\ Caught /\ LensesFollow

DrawsLenses(j) == j.kind = "refresh" \/ (j.kind = "lenses" /\ j.epoch = code_lens_refresh_epoch)

-----------------------------------------------------------------------------
\* Starting the analysis of a text leaves it marked, unless its snapshot is there, and every
\* mark with a task.
LEMMA StartMarks ==
  ASSUME IInv, NEW text, NEW others, Start(text, others), \A j \in others : IsJob(j)
  PROVE  /\ JobShape' /\ MarkHasTask'
         /\ jobs \subseteq jobs' /\ others \subseteq jobs'
         /\ workspace_file = text \/ document_cache_updates_in_progress' = text
<1>1. jobs \subseteq jobs' /\ others \subseteq jobs'
  BY DEF Start
<1>2. JobShape'
  <2>1. IsJob(Job("update", text))
    BY DEF Job, IsJob
  <2> QED BY <2>1 DEF Start, JobShape, IInv
<1>3. StartsUpdate(text) => Job("update", text) \in jobs'
  BY DEF Start
<1>4. MarkHasTask'
  <2>1. CASE StartsUpdate(text)
    BY <1>3, <2>1 DEF Start, Job, MarkHasTask
  <2>2. CASE ~StartsUpdate(text)
    BY <1>1, <2>2 DEF Start, MarkHasTask, IInv
  <2> QED BY <2>1, <2>2
<1> QED BY <1>1, <1>2, <1>4 DEF Start, StartsUpdate

\* A step that starts jobs for the text it leaves in the document.
LEMMA StartKeeps ==
  ASSUME IInv, NEW text, NEW others, Start(text, others), \A j \in others : IsJob(j),
         documents' = text,
         workspace_file' = text \/ workspace_file' = workspace_file,
         \/ \E j \in others : DrawsLenses(j)'
         \/ UNCHANGED lens_vars
  PROVE  IInv'
<1>1. JobShape' /\ MarkHasTask' /\ jobs \subseteq jobs' /\ others \subseteq jobs'
  BY StartMarks
<1>2. workspace_file' = text \/ document_cache_updates_in_progress' = text
  BY StartMarks
<1>3. Caught'
  BY <1>2 DEF Caught
<1>4. LensesFollow'
  BY <1>1 DEF LensesFollow, DrawsLenses, lens_vars, IInv
<1> QED BY <1>1, <1>3, <1>4 DEF IInv

\* A step that takes away a job, no pool task that is waited for, and leaves document, mark
\* and lenses alone.
LEMMA JobLeaves ==
  ASSUME IInv, NEW j \in jobs, jobs' = jobs \ {j},
         j.kind # "update" \/ j.text # document_cache_updates_in_progress,
         UNCHANGED <<text_vars, document_cache_updates_in_progress>>,
         (UNCHANGED lens_vars /\ ~DrawsLenses(j)) \/ lens_due' = FALSE,
         workspace_file' = documents \/ outdated' \/ UNCHANGED snapshot_vars
  PROVE  IInv'
<1>1. JobShape'
  BY DEF IInv, JobShape
<1>2. MarkHasTask'
  BY DEF IInv, MarkHasTask
<1>3. Caught'
  BY DEF IInv, Caught, text_vars, snapshot_vars
<1>4. LensesFollow'
  BY DEF IInv, LensesFollow, lens_vars, DrawsLenses
<1> QED BY <1>1, <1>2, <1>3, <1>4 DEF IInv

\* The pool task: its start, its end, and giving up.
LEMMA PoolSteps ==
  ASSUME IInv, NEW j \in jobs, UpdateStarts(j) \/ UpdateEnds(j)
  PROVE  IInv'
<1>0. UNCHANGED lens_vars /\ UNCHANGED text_vars /\ j.kind = "update"
  BY DEF UpdateStarts, UpdateEnds
<1>1. CASE GivesUp(j) /\ document_cache_updates_in_progress # j.text
  <2>1. UNCHANGED snapshot_vars /\ UNCHANGED document_cache_updates_in_progress
    BY <1>1 DEF GivesUp
  <2> QED BY <1>0, <1>1, <2>1, JobLeaves DEF GivesUp, DrawsLenses
<1>2. CASE /\ document_cache_updates_in_progress = j.text
           /\ jobs' = (jobs \ {j}) \union {[j EXCEPT !.at = "running"]}
           /\ UNCHANGED <<document_cache_updates_in_progress, snapshot_vars>>
  <2> DEFINE k == [j EXCEPT !.at = "running"]
  <2>1. IsJob(j)
    BY DEF IInv, JobShape
  <2>2. IsJob(k) /\ k.kind = j.kind /\ k.text = j.text /\ k.epoch = j.epoch
    BY <2>1 DEF IsJob
  <2>3. JobShape'
    BY <1>2, <2>2 DEF IInv, JobShape
  <2>4. MarkHasTask'
    BY <1>0, <1>2, <2>2 DEF MarkHasTask
  <2>5. Caught'
    BY <1>0, <1>2 DEF IInv, Caught, text_vars, snapshot_vars
  <2>6. LensesFollow'
    BY <1>0, <1>2 DEF IInv, LensesFollow, lens_vars
  <2> QED BY <2>3, <2>4, <2>5, <2>6 DEF IInv
<1>3. CASE /\ document_cache_updates_in_progress = j.text
           /\ jobs' = jobs \ {j} /\ Unmarks(j)
           /\ IF Stores(j) THEN workspace_file' = j.text /\ outdated' = FALSE
              ELSE UNCHANGED snapshot_vars
  <2>1. JobShape'
    BY <1>3 DEF IInv, JobShape
  <2>2. MarkHasTask'
    BY <1>3 DEF MarkHasTask, Unmarks
  <2>3. Caught'
    BY <1>0, <1>3 DEF IInv, Caught, Stores, text_vars, snapshot_vars
  <2>4. LensesFollow'
    BY <1>0, <1>3 DEF IInv, LensesFollow, lens_vars
  <2> QED BY <2>1, <2>2, <2>3, <2>4 DEF IInv
<1> QED BY <1>1, <1>2, <1>3 DEF UpdateStarts, UpdateEnds

\* Every step keeps the invariant.
LEMMA StepKeeps == ASSUME IInv, [DocNext]_docVars PROVE IInv'
<1>1. ASSUME UNCHANGED <<documents, document_cache_updates_in_progress, jobs, snapshot_vars,
                         lens_vars>>
      PROVE  IInv'
  BY <1>1 DEF IInv, JobShape, MarkHasTask, Caught, LensesFollow, snapshot_vars, lens_vars
<1>2. CASE UNCHANGED docVars
  BY <1>1, <1>2 DEF docVars, snapshot_vars, lens_vars
<1>3. ASSUME NEW newline \in BOOLEAN, EditorOpens(newline) PROVE IInv'
  BY <1>1, <1>3 DEF EditorOpens, EditorSends, text_vars
<1>4. ASSUME NEW e \in Edits, EditorChanges(e) PROVE IInv'
  BY <1>1, <1>4 DEF EditorChanges, EditorSends, text_vars
<1>5. CASE EditorCloses \/ EditorCommands \/ EditorApplies \/ EditorRefuses
  BY <1>1, <1>5
  DEF EditorCloses, EditorCommands, EditorApplies, EditorRefuses, EditorSends, text_vars
<1>6. CASE DidOpen
  <2> DEFINE text == Head(wire).text
             others == {Job("refresh", NoText)}
  <2>1. documents' = text /\ Start(text, others) /\ workspace_file' = text
    BY <1>6 DEF DidOpen
  <2>2. \A j \in others : IsJob(j) /\ DrawsLenses(j)'
    BY DEF DrawsLenses, Job, IsJob
  <2> HIDE DEF text, others
  <2>3. \E j \in others : DrawsLenses(j)'
    BY <2>2 DEF others
  <2> QED BY <2>1, <2>2, <2>3, StartKeeps
<1>7. CASE DidChange
  <2>1. CASE documents # NoText /\ Applies(documents, Head(wire))
    <3> DEFINE text == Apply(documents, Head(wire))
               timer == [Job("lenses", NoText) EXCEPT !.epoch = TimerEpoch]
               others == {Job("diagnose", text), timer}
    <3>1. documents' = text /\ Start(text, others) /\ UNCHANGED workspace_file
          /\ code_lens_refresh_epoch' = TimerEpoch
      BY <1>7, <2>1 DEF DidChange, snapshot_vars, TimerEpoch
    <3>2. \A j \in others : IsJob(j)
      BY DEF Job, IsJob
    <3>3. timer.kind = "lenses" /\ timer.epoch = TimerEpoch /\ timer \in others
      BY DEF Job
    <3> HIDE DEF text, timer, others
    <3>4. \E j \in others : DrawsLenses(j)'
      BY <3>1, <3>3 DEF DrawsLenses
    <3> QED BY <3>1, <3>2, <3>4, StartKeeps
  <2>2. CASE documents = NoText \/ ~Applies(documents, Head(wire))
    BY <1>1, <1>7, <2>2 DEF DidChange
  <2> QED BY <2>1, <2>2
<1>8. CASE DidClose
  <2>1. JobShape' /\ MarkHasTask' /\ Caught' /\ LensesFollow'
    BY <1>8 DEF DidClose, IInv, JobShape, MarkHasTask, Caught, LensesFollow, lens_vars
  <2> QED BY <2>1 DEF IInv
<1>9. CASE ExecuteCommand
  BY <1>1, <1>9 DEF ExecuteCommand, text_vars
<1>10. CASE CommandGoesOn
  <2> DEFINE text == WithSignature(command.text)
             others == {Job("refresh", NoText)}
  <2>1. documents' = text /\ Start(text, others) /\ UNCHANGED workspace_file
    BY <1>10 DEF CommandGoesOn, snapshot_vars
  <2>2. \A j \in others : IsJob(j) /\ DrawsLenses(j)'
    BY DEF DrawsLenses, Job, IsJob
  <2> HIDE DEF text, others
  <2>3. \E j \in others : DrawsLenses(j)'
    BY <2>2 DEF others
  <2> QED BY <2>1, <2>2, <2>3, StartKeeps
<1>11. CASE OtherQuery
  <2>1. JobShape' /\ MarkHasTask' /\ Caught' /\ LensesFollow'
    BY <1>11
    DEF OtherQuery, IInv, JobShape, MarkHasTask, Caught, LensesFollow, lens_vars, text_vars
  <2> QED BY <2>1 DEF IInv
<1>12. CASE OtherLenses
  BY <1>12, StartKeeps DEF OtherLenses, text_vars, snapshot_vars
<1>13. CASE ScanCopies
  <2>1. /\ UNCHANGED <<documents, document_cache_updates_in_progress, snapshot_vars, lens_vars>>
        /\ jobs' = jobs \union {Job("diagnose", documents)}
    BY <1>13 DEF ScanCopies, text_vars
  <2>2. IsJob(Job("diagnose", documents))
    BY DEF Job, IsJob
  <2>4. JobShape'
    BY <2>1, <2>2 DEF IInv, JobShape
  <2>3. MarkHasTask' /\ Caught' /\ LensesFollow'
    BY <2>1 DEF IInv, MarkHasTask, Caught, LensesFollow, lens_vars, snapshot_vars
  <2> QED BY <2>3, <2>4 DEF IInv
<1>14. ASSUME NEW j \in jobs, RefreshLenses(j) PROVE IInv'
  BY <1>14, JobLeaves DEF RefreshLenses
<1>15. ASSUME NEW j \in jobs, UpdateStarts(j) \/ UpdateEnds(j) PROVE IInv'
  BY <1>15, PoolSteps
<1>16. ASSUME NEW j \in jobs, CopyEnds(j) PROVE IInv'
  <2>1. workspace_file' = documents \/ outdated' \/ UNCHANGED snapshot_vars
    BY <1>16 DEF CopyEnds
  <2>2. /\ jobs' = jobs \ {j} /\ j.kind = "diagnose" /\ UNCHANGED lens_vars
        /\ UNCHANGED <<text_vars, document_cache_updates_in_progress>>
    BY <1>16 DEF CopyEnds
  <2> QED BY <2>1, <2>2, JobLeaves DEF DrawsLenses
<1>17. ASSUME NEW j \in jobs, LensTimer(j) PROVE IInv'
  <2>1. /\ jobs' = jobs \ {j} /\ j.kind = "lenses" /\ UNCHANGED snapshot_vars
        /\ UNCHANGED <<text_vars, document_cache_updates_in_progress, code_lens_refresh_epoch>>
        /\ lens_due' = (lens_due /\ j.epoch # code_lens_refresh_epoch)
    BY <1>17 DEF LensTimer
  <2>2. CASE ~lens_due'
    <3>1. JobShape' /\ MarkHasTask'
      BY <2>1 DEF IInv, JobShape, MarkHasTask
    <3>2. Caught' /\ LensesFollow'
      BY <2>1, <2>2 DEF IInv, Caught, LensesFollow, text_vars, snapshot_vars
    <3> QED BY <3>1, <3>2 DEF IInv
  <2>3. CASE lens_due'
    <3>1. lens_due /\ j.epoch # code_lens_refresh_epoch
      BY <2>1, <2>3
    <3>2. JobShape' /\ MarkHasTask'
      BY <2>1 DEF IInv, JobShape, MarkHasTask
    <3>3. Caught' /\ LensesFollow'
      BY <2>1, <3>1 DEF IInv, Caught, LensesFollow, text_vars, snapshot_vars
    <3> QED BY <3>2, <3>3 DEF IInv
  <2> QED BY <2>2, <2>3
<1> QED
  BY <1>2, <1>3, <1>4, <1>5, <1>6, <1>7, <1>8, <1>9, <1>10, <1>11, <1>12, <1>13, <1>14, <1>15,
     <1>16, <1>17
  DEF DocNext

LEMMA InitHolds == DocInit => IInv
BY DEF DocInit, IInv, JobShape, MarkHasTask, Caught, LensesFollow

LEMMA Invariant == DocSpec => []IInv
<1>1. IInv /\ [DocNext]_docVars => IInv'
  BY StepKeeps
<1> QED BY InitHolds, <1>1, PTL DEF DocSpec

-----------------------------------------------------------------------------
\* A text that is marked as under analysis has a task that will store it or take the mark
\* away, whatever changes, closes and earlier tasks came in between.
THEOREM MarkServed == DocSpec => []MarkHasTask
<1>1. IInv => MarkHasTask
  BY DEF IInv
<1> QED BY Invariant, <1>1, PTL

\* When no analysis is under way, the snapshot of the open document is of its text, unless a
\* copy of an earlier text was stored last.
THEOREM SnapshotFollows == DocSpec => []SnapshotCatchesUp
<1>1. IInv => SnapshotCatchesUp
  BY DEF IInv, MarkHasTask, Caught, SnapshotCatchesUp, Settled
<1> QED BY Invariant, <1>1, PTL

\* A change of the document always has a refresh of the code lenses ahead of it.
THEOREM LensesDrawn == DocSpec => []LensesFollow
<1>1. IInv => LensesFollow
  BY DEF IInv
<1> QED BY Invariant, <1>1, PTL

-----------------------------------------------------------------------------
Messages ==
  [kind : {"open"}, text : Texts]
    \union [kind : {"change"}, edit : Edits \union {Signature}, insert : BOOLEAN]
    \union [kind : {"close", "command"}]

\* What the server makes of the text it has when it handles the message.
Leads(before, m, after) ==
  /\ m.kind = "open" => after = m.text
  /\ m.kind = "change" =>
       before \in Texts \ {NoText} /\ Applies(before, m) /\ after = Apply(before, m)
  /\ m.kind = "close" => after = NoText
  /\ m.kind = "command" => after = before

\* The texts the messages make one after the other, up to the last one.
Way(texts, messages, last) ==
  /\ texts \in [0 .. Len(messages) -> Texts \union {NoText}]
  /\ texts[Len(messages)] = last
  /\ \A i \in 1 .. Len(messages) : Leads(texts[i - 1], messages[i], texts[i])

TextInv ==
  /\ wire \in Seq(Messages) /\ editor \in Texts \union {NoText} /\ overwritten \in BOOLEAN
  /\ \E texts : Way(texts, wire, editor) /\ (overwritten \/ texts[0] = documents)

\* The editor says what it does.
LEMMA SendKeeps ==
  ASSUME TextInv, NEW m \in Messages, NEW text \in Texts \union {NoText}, Leads(editor, m, text),
         wire' = Append(wire, m), editor' = text, UNCHANGED text_vars
  PROVE  TextInv'
<1>1. PICK texts : Way(texts, wire, editor) /\ (overwritten \/ texts[0] = documents)
  BY DEF TextInv
<1> DEFINE n == Len(wire)
           more == [i \in 0 .. n + 1 |-> IF i = n + 1 THEN text ELSE texts[i]]
<1>2. /\ n \in Nat /\ wire' \in Seq(Messages) /\ Len(wire') = n + 1 /\ wire'[n + 1] = m
      /\ \A i \in 1 .. n : wire'[i] = wire[i]
  BY AppendProperties DEF TextInv
<1> HIDE DEF n
<1>3. /\ texts \in [0 .. n -> Texts \union {NoText}] /\ texts[n] = editor
      /\ \A i \in 1 .. n : Leads(texts[i - 1], wire[i], texts[i])
  BY <1>1 DEF Way, n
<1>4. /\ more \in [0 .. n + 1 -> Texts \union {NoText}] /\ more[n + 1] = text
      /\ \A i \in 0 .. n : more[i] = texts[i]
  BY <1>2, <1>3
<1> HIDE DEF more
<1>5. ASSUME NEW i \in 1 .. n + 1 PROVE Leads(more[i - 1], wire'[i], more[i])
  <2>1. CASE i = n + 1
    <3>1. i - 1 = n /\ n \in 0 .. n
      BY <1>2, <2>1
    <3> QED BY <1>2, <1>3, <1>4, <2>1, <3>1
  <2>2. CASE i # n + 1
    <3>1. i \in 1 .. n /\ i \in 0 .. n /\ i - 1 \in 0 .. n
      BY <1>2, <2>2
    <3> QED BY <1>2, <1>3, <1>4, <3>1
  <2> QED BY <2>1, <2>2
<1>6. Way(more, wire', editor')
  BY <1>2, <1>4, <1>5 DEF Way
<1>7. overwritten' \/ more[0] = documents'
  <2>1. 0 \in 0 .. n
    BY <1>2
  <2> QED BY <1>1, <1>4, <2>1 DEF text_vars
<1> QED BY <1>2, <1>6, <1>7 DEF TextInv, text_vars

\* The server does what the message says, or a command has put another text in place.
LEMMA HandleKeeps ==
  ASSUME TextInv, wire # <<>>, wire' = Tail(wire), editor' = editor, overwritten' \in BOOLEAN,
         \A before, after :
           (overwritten \/ before = documents) /\ Leads(before, Head(wire), after)
             => overwritten' \/ documents' = after
  PROVE  TextInv'
<1>1. PICK texts : Way(texts, wire, editor) /\ (overwritten \/ texts[0] = documents)
  BY DEF TextInv
<1> DEFINE n == Len(wire)
           rest == [i \in 0 .. n - 1 |-> texts[i + 1]]
<1>2. /\ n \in Nat /\ n >= 1 /\ Head(wire) = wire[1]
      /\ wire' \in Seq(Messages) /\ Len(wire') = n - 1
      /\ \A i \in 1 .. n - 1 : wire'[i] = wire[i + 1]
  BY HeadTailProperties, EmptySeq DEF TextInv
<1> HIDE DEF n
<1>3. /\ texts \in [0 .. n -> Texts \union {NoText}] /\ texts[n] = editor
      /\ \A i \in 1 .. n : Leads(texts[i - 1], wire[i], texts[i])
  BY <1>1 DEF Way, n
<1>4. /\ rest \in [0 .. n - 1 -> Texts \union {NoText}]
      /\ \A i \in 0 .. n - 1 : rest[i] = texts[i + 1]
  BY <1>2, <1>3
<1> HIDE DEF rest
<1>5. rest[n - 1] = editor
  <2>1. n - 1 \in 0 .. n - 1 /\ n - 1 + 1 = n
    BY <1>2
  <2> QED BY <1>3, <1>4, <2>1
<1>6. ASSUME NEW i \in 1 .. n - 1 PROVE Leads(rest[i - 1], wire'[i], rest[i])
  <2>1. /\ i + 1 \in 1 .. n /\ i \in 0 .. n - 1 /\ i - 1 \in 0 .. n - 1
        /\ i - 1 + 1 = i /\ i + 1 - 1 = i
    BY <1>2
  <2> QED BY <1>2, <1>3, <1>4, <2>1
<1>7. Way(rest, wire', editor')
  BY <1>2, <1>4, <1>5, <1>6 DEF Way
<1>8. overwritten' \/ rest[0] = documents'
  <2>1. 1 \in 1 .. n /\ 1 - 1 = 0 /\ 0 \in 0 .. n - 1 /\ 0 + 1 = 1
    BY <1>2
  <2>2. Leads(texts[0], Head(wire), texts[1]) /\ rest[0] = texts[1]
    BY <1>2, <1>3, <1>4, <2>1
  <2> QED BY <1>1, <2>2
<1>9. wire' \in Seq(Messages) /\ editor' \in Texts \union {NoText}
  BY <1>2 DEF TextInv
<1> QED BY <1>7, <1>8, <1>9 DEF TextInv

\* Edits keep a text a text.
LEMMA EditedTexts ==
  ASSUME NEW text \in Texts, NEW e \in Edits \union {Signature}
  PROVE  Insert(text, e) \in Texts /\ (text.edits[e] > 0 => Remove(text, e) \in Texts)
BY DEF Insert, Remove, Texts

LEMMA TextStep == ASSUME TextInv, [DocNext]_docVars PROVE TextInv'
<1>1. ASSUME UNCHANGED <<editor, wire, documents>>, overwritten' = overwritten PROVE TextInv'
  BY <1>1 DEF TextInv, Way
<1>2. CASE UNCHANGED docVars
  BY <1>1, <1>2 DEF docVars, editorVars
<1>3. ASSUME NEW newline \in BOOLEAN, EditorOpens(newline) PROVE TextInv'
  <2> DEFINE text == Blank(newline)
             m == [kind |-> "open", text |-> text]
  <2>1. text \in Texts
    BY DEF Blank, Texts
  <2>2. m \in Messages /\ Leads(editor, m, text)
    BY <2>1 DEF Messages, Leads
  <2>3. wire' = Append(wire, m) /\ editor' = text /\ UNCHANGED text_vars
    BY <1>3 DEF EditorOpens, EditorSends
  <2> HIDE DEF text, m
  <2> QED BY <2>1, <2>2, <2>3, SendKeeps
<1>4. ASSUME NEW e \in Edits, EditorChanges(e) PROVE TextInv'
  <2> DEFINE m == [kind |-> "change", edit |-> e, insert |-> editor.edits[e] = 0]
             text == Apply(editor, m)
  <2>1. editor \in Texts \ {NoText} /\ editor.edits[e] \in Nat
    BY <1>4 DEF EditorChanges, TextInv, Texts
  <2>2. /\ m \in Messages /\ m.kind = "change" /\ m.edit = e
        /\ m.insert <=> editor.edits[e] = 0
    BY DEF Messages
  <2>3. wire' = Append(wire, m) /\ editor' = text /\ UNCHANGED text_vars
    BY <1>4 DEF EditorChanges, EditorSends
  <2> HIDE DEF m
  <2>4. Applies(editor, m) /\ text \in Texts
    BY <2>1, <2>2, EditedTexts DEF Applies, Apply
  <2>5. Leads(editor, m, text)
    BY <2>1, <2>2, <2>4 DEF Leads
  <2> HIDE DEF text
  <2> QED BY <2>2, <2>3, <2>4, <2>5, SendKeeps
<1>5. CASE EditorCloses
  <2> DEFINE m == [kind |-> "close"]
  <2>1. m \in Messages /\ Leads(editor, m, NoText)
    BY DEF Messages, Leads
  <2>2. wire' = Append(wire, m) /\ editor' = NoText /\ UNCHANGED text_vars
    BY <1>5 DEF EditorCloses, EditorSends
  <2> HIDE DEF m
  <2> QED BY <2>1, <2>2, SendKeeps
<1>6. CASE EditorCommands
  <2> DEFINE m == [kind |-> "command"]
  <2>1. m \in Messages /\ Leads(editor, m, editor)
    BY DEF Messages, Leads
  <2>2. wire' = Append(wire, m) /\ editor' = editor /\ UNCHANGED text_vars
    BY <1>6 DEF EditorCommands
  <2> HIDE DEF m
  <2> QED BY <2>1, <2>2, SendKeeps DEF TextInv
<1>7. CASE EditorApplies
  <2> DEFINE m == [kind |-> "change", edit |-> Signature, insert |-> TRUE]
             text == Insert(editor, Signature)
  <2>1. editor \in Texts \ {NoText} /\ text \in Texts
    BY <1>7, EditedTexts DEF EditorApplies, TextInv
  <2>2. m \in Messages /\ Leads(editor, m, text)
    BY <2>1 DEF Messages, Leads, Applies, Apply
  <2>3. wire' = Append(wire, m) /\ editor' = text /\ UNCHANGED text_vars
    BY <1>7 DEF EditorApplies, EditorSends
  <2> HIDE DEF m, text
  <2> QED BY <2>1, <2>2, <2>3, SendKeeps
<1>8. CASE EditorRefuses \/ OtherQuery \/ OtherLenses \/ ScanCopies
  BY <1>1, <1>8 DEF EditorRefuses, OtherQuery, OtherLenses, ScanCopies, editorVars, text_vars
<1>9. CASE DidOpen
  <2>1. /\ wire # <<>> /\ Head(wire).kind = "open" /\ wire' = Tail(wire) /\ editor' = editor
        /\ documents' = Head(wire).text /\ overwritten' = FALSE
    BY <1>9 DEF DidOpen, Handles
  <2> QED BY <2>1, HandleKeeps DEF Leads
<1>10. CASE DidChange
  <2>1. /\ wire # <<>> /\ Head(wire).kind = "change" /\ wire' = Tail(wire) /\ editor' = editor
        /\ overwritten' = overwritten
        /\ \/ documents' = Apply(documents, Head(wire))
           \/ documents = NoText \/ ~Applies(documents, Head(wire))
    BY <1>10 DEF DidChange, Handles
  <2> QED BY <2>1, HandleKeeps DEF Leads, TextInv
<1>11. CASE DidClose
  <2>1. /\ wire # <<>> /\ Head(wire).kind = "close" /\ wire' = Tail(wire) /\ editor' = editor
        /\ documents' = NoText /\ overwritten' = overwritten
    BY <1>11 DEF DidClose, Handles
  <2> QED BY <2>1, HandleKeeps DEF Leads, TextInv
<1>12. CASE ExecuteCommand
  <2>1. /\ wire # <<>> /\ Head(wire).kind = "command" /\ wire' = Tail(wire) /\ editor' = editor
        /\ documents' = documents /\ overwritten' = overwritten
    BY <1>12 DEF ExecuteCommand, Handles, text_vars
  <2> QED BY <2>1, HandleKeeps DEF Leads, TextInv
<1>13. CASE CommandGoesOn
  <2>1. /\ UNCHANGED <<editor, wire>>
        /\ overwritten' = (overwritten \/ documents # documents')
    BY <1>13 DEF CommandGoesOn, editorVars
  <2>2. CASE overwritten'
    BY <2>1, <2>2 DEF TextInv, Way
  <2>3. CASE ~overwritten'
    BY <1>1, <2>1, <2>3 DEF TextInv
  <2> QED BY <2>2, <2>3
<1>14. ASSUME NEW j \in jobs,
              RefreshLenses(j) \/ UpdateStarts(j) \/ UpdateEnds(j) \/ CopyEnds(j) \/ LensTimer(j)
       PROVE  TextInv'
  BY <1>1, <1>14
  DEF RefreshLenses, UpdateStarts, UpdateEnds, CopyEnds, LensTimer, editorVars, text_vars
<1> QED
  BY <1>2, <1>3, <1>4, <1>5, <1>6, <1>7, <1>8, <1>9, <1>10, <1>11, <1>12, <1>13, <1>14
  DEF DocNext

\* Once the server has handled all that the editor sent, it has the editor's text, unless a
\* command put its own text in the place of another one.
THEOREM ServerFollowsEdits == DocSpec => []TextFollowsEdits
<1>1. DocInit => TextInv
  <2> SUFFICES ASSUME DocInit PROVE TextInv
    OBVIOUS
  <2> DEFINE texts == [i \in 0 .. 0 |-> NoText]
  <2>1. Len(wire) = 0 /\ wire \in Seq(Messages)
    BY DEF DocInit
  <2>2. texts[0] = NoText /\ texts \in [0 .. 0 -> Texts \union {NoText}]
    OBVIOUS
  <2> HIDE DEF texts
  <2>3. Way(texts, wire, editor)
    BY <2>1, <2>2 DEF Way, DocInit
  <2> QED BY <2>1, <2>2, <2>3 DEF DocInit, TextInv
<1>2. TextInv /\ [DocNext]_docVars => TextInv'
  BY TextStep
<1>3. TextInv => TextFollowsEdits
  <2> SUFFICES ASSUME TextInv, wire = <<>>, ~overwritten PROVE documents = editor
    BY DEF TextFollowsEdits, Heard
  <2>1. Len(wire) = 0
    OBVIOUS
  <2> QED BY <2>1 DEF TextInv, Way
<1> QED BY <1>1, <1>2, <1>3, PTL DEF DocSpec
===============================================================================
