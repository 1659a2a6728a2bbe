--------------------------- MODULE TypeFiles_proof ---------------------------
(***************************************************************************)
(* Proofs about the components that keep what type files declare: the       *)
(* cache of parsed files (BoundedFileCache), the loader of `.rbi` files     *)
(* (RbiLoader) and the declarations of `.rbs` files (UserRbs).              *)
(*                                                                         *)
(* The properties of the loader speak of the shapes that are cached; what a *)
(* shape gets depends on what the thread that builds it looked up and on    *)
(* the slots it holds, which a reload does not take from it.  RbiInv says   *)
(* of a thread in the middle of a build that nothing it has so far, and no  *)
(* slot it holds or can still get, is behind, as long as the epoch its      *)
(* shape belongs to lasts.  A thread whose epoch is over may be behind:     *)
(* nobody sees what it builds.                                              *)
(*                                                                         *)
(* UserRbsTrue speaks of the moments when every change has been told; the   *)
(* invariant RbsInv says file by file what is true of the files that have   *)
(* no change to tell, and that a reload knows all the classes its file has  *)
(* declarations in.                                                         *)
(***************************************************************************)
EXTENDS RbiLoader, UserRbs, FiniteSetTheorems, SequenceTheorems, WellFoundedInduction, TLAPS

-----------------------------------------------------------------------------
(* The file cache. *)

\* The values a cache has: its order may be out of step with its entries.
Caches == [entries : [RbiFiles -> FileSlots \union {NoSlot}], order : Seq(RbiFiles)]

\* The smallest of some natural numbers.
LEMMA Smallest ==
  ASSUME NEW S, S \subseteq Nat, S # {}
  PROVE  \E n \in S : \A m \in S : n <= m
<1>1. PICK x \in S : \A y \in S : ~(<<y, x>> \in OpToRel(<, Nat))
  BY NatLessThanWellFounded, WFMin
<1>2. \A y \in S : y < x => <<y, x>> \in OpToRel(<, Nat)
  BY DEF OpToRel
<1>3. \A y \in S : ~(y < x)
  BY <1>1, <1>2
<1> QED BY <1>3

\* What retain does to a key that is there once.
LEMMA WithoutOne ==
  ASSUME NEW order \in Seq(RbiFiles), NEW h \in 1 .. Len(order),
         \A j \in 1 .. Len(order) : order[j] = order[h] => j = h
  PROVE  /\ Without(order, order[h]) \in Seq(RbiFiles)
         /\ Len(Without(order, order[h])) = Len(order) - 1
         /\ \A n \in 1 .. Len(order) - 1 :
              Without(order, order[h])[n] = IF n < h THEN order[n] ELSE order[n + 1]
<1> DEFINE len == Len(order)
           key == order[h]
           Kept(i) == i - Cardinality({j \in 1 .. i : order[j] = key})
           Place(n) == CHOOSE i \in 1 .. len : order[i] # key /\ Kept(i) = n
<1>1. len \in Nat /\ h \in Nat /\ order \in [1 .. len -> RbiFiles]
  OBVIOUS
<1>2. ASSUME NEW i \in 1 .. len
      PROVE  Kept(i) = IF i < h THEN i ELSE i - 1
  <2>1. CASE i < h
    <3>1. {j \in 1 .. i : order[j] = key} = {}
      BY <1>1, <2>1
    <3>2. Cardinality({}) = 0
      BY FS_EmptySet
    <3>3. Kept(i) = i - 0
      BY <3>1, <3>2
    <3> QED BY <1>1, <2>1, <3>3
  <2>2. CASE ~(i < h)
    <3>1. {j \in 1 .. i : order[j] = key} = {h}
      BY <1>1, <2>2
    <3>2. Cardinality({h}) = 1
      BY FS_Singleton
    <3> QED BY <2>2, <3>1, <3>2
  <2> QED BY <2>1, <2>2
<1>3. Kept(len) = len - 1
  BY <1>1, <1>2
<1> HIDE DEF Kept
<1>4. ASSUME NEW n \in 1 .. len - 1
      PROVE  Place(n) = IF n < h THEN n ELSE n + 1
  <2> DEFINE m == IF n < h THEN n ELSE n + 1
             P(i) == order[i] # key /\ Kept(i) = n
  <2>1. m \in 1 .. len /\ m # h /\ Kept(m) = n
    BY <1>1, <1>2
  <2>2. P(m)
    BY <1>1, <2>1
  <2>3. \A i \in 1 .. len : P(i) => i = m
    BY <1>1, <1>2
  <2> HIDE DEF P, m
  <2>4. (CHOOSE i \in 1 .. len : P(i)) = m
    BY <2>1, <2>2, <2>3
  <2> QED BY <2>4 DEF P, m
<1>5. Without(order, key) = [n \in 1 .. len - 1 |-> order[Place(n)]]
  BY <1>3 DEF Without, Kept
<1> HIDE DEF Place
<1> DEFINE result == [n \in 1 .. len - 1 |-> order[Place(n)]]
<1>6. \A n \in 1 .. len - 1 : result[n] = IF n < h THEN order[n] ELSE order[n + 1]
  BY <1>4
<1>7. len - 1 \in Nat /\ \A n \in 1 .. len - 1 : result[n] \in RbiFiles
  BY <1>1, <1>6
<1>8. result \in Seq(RbiFiles) /\ Len(result) = len - 1
  BY <1>7
<1> QED BY <1>5, <1>6, <1>8

-----------------------------------------------------------------------------
\* The keys a coherent cache holds are finitely many.
LEMMA HeldFinite ==
  ASSUME NEW cache \in Caches, Coherent(cache)
  PROVE  IsFiniteSet(Holds(cache.entries))
<1> DEFINE len == Len(cache.order)
           held == Holds(cache.entries)
<1>1. len \in Nat /\ cache.order \in [1 .. len -> held]
  BY LenProperties DEF Coherent, Caches
<1>2. \A k \in held : \E i \in 1 .. len : cache.order[i] = k
  BY DEF Coherent
<1>3. cache.order \in Surjection(1 .. len, held)
  BY <1>1, <1>2 DEF Surjection
<1> QED BY <1>1, <1>3, FS_Interval, FS_Surjection

LEMMA EmptyCoherent == EmptyCache \in Caches /\ Coherent(EmptyCache)
<1>1. Holds(EmptyCache.entries) = {} /\ Len(EmptyCache.order) = 0 /\ EmptyCache \in Caches
  BY RbiConstants DEF EmptyCache, Holds, Caches
<1>2. Cardinality({}) = 0
  BY FS_EmptySet
<1> QED BY <1>1, <1>2, RbiConstants DEF Coherent

\* remove keeps the entries and their order together, and takes out the key and no other.
LEMMA RemoveCoherent ==
  ASSUME NEW cache \in Caches, Coherent(cache), NEW key \in RbiFiles
  PROVE  /\ CacheRemove(cache, key) \in Caches
         /\ Coherent(CacheRemove(cache, key))
         /\ \A k \in RbiFiles : CacheRemove(cache, key).entries[k] =
                                IF k = key THEN NoSlot ELSE cache.entries[k]
<1>1. CASE cache.entries[key] = NoSlot
  BY <1>1 DEF CacheRemove
<1>2. CASE cache.entries[key] # NoSlot
  <2> DEFINE order == cache.order
             len == Len(order)
             entries == [cache.entries EXCEPT ![key] = NoSlot]
             rest == Without(order, key)
  <2>1. len \in Nat /\ order \in Seq(RbiFiles) /\ order \in [1 .. len -> RbiFiles]
    BY DEF Caches
  <2>2. PICK h \in 1 .. len : order[h] = key
    BY <1>2 DEF Coherent, Holds
  <2>3. \A j \in 1 .. len : order[j] = order[h] => j = h
    BY DEF Coherent
  <2>4. /\ rest \in Seq(RbiFiles) /\ Len(rest) = len - 1
        /\ \A n \in 1 .. len - 1 : rest[n] = IF n < h THEN order[n] ELSE order[n + 1]
    BY <2>1, <2>2, <2>3, WithoutOne
  <2>5. Holds(entries) = Holds(cache.entries) \ {key}
    BY DEF Holds, Caches
  <2> HIDE DEF rest, entries
  <2>6. {rest[i] : i \in 1 .. len - 1} = Holds(cache.entries) \ {key}
    <3>1. {order[i] : i \in 1 .. len} = Holds(cache.entries)
      BY DEF Coherent
    <3>2. ASSUME NEW n \in 1 .. len - 1
          PROVE  rest[n] \in Holds(cache.entries) \ {key}
      <4>1. n \in 1 .. len /\ n + 1 \in 1 .. len /\ (n # h \/ ~(n < h))
        BY <2>1
      <4> QED BY <2>1, <2>2, <2>3, <2>4, <3>1
    <3>3. ASSUME NEW k \in Holds(cache.entries) \ {key}
          PROVE  \E n \in 1 .. len - 1 : rest[n] = k
      <4>1. PICK i \in 1 .. len : order[i] = k
        BY <3>1
      <4>2. i # h
        BY <2>2, <4>1
      <4>3. CASE i < h
        BY <2>1, <2>4, <4>1, <4>3
      <4>4. CASE i > h
        <5>1. i - 1 \in 1 .. len - 1 /\ ~(i - 1 < h) /\ i - 1 + 1 = i
          BY <2>1, <4>4
        <5> QED BY <2>4, <4>1, <5>1
      <4> QED BY <2>1, <4>2, <4>3, <4>4
    <3> QED BY <3>2, <3>3
  <2>7. \A i, j \in 1 .. len - 1 : rest[i] = rest[j] => i = j
    BY <2>1, <2>4 DEF Coherent
  <2>8. Cardinality(Holds(cache.entries) \ {key}) <= Cap
    <3>1. IsFiniteSet(Holds(cache.entries))
      BY HeldFinite
    <3>2. /\ Cardinality(Holds(cache.entries) \ {key}) <= Cardinality(Holds(cache.entries))
          /\ Cardinality(Holds(cache.entries) \ {key}) \in Nat
          /\ Cardinality(Holds(cache.entries)) \in Nat
      BY <3>1, FS_Subset, FS_CardinalityType
    <3> QED BY <3>2, RbiConstants DEF Coherent
  <2>9. CacheRemove(cache, key) = [entries |-> entries, order |-> rest]
    BY <1>2 DEF CacheRemove, entries, rest
  <2>10. /\ entries \in [RbiFiles -> FileSlots \union {NoSlot}]
         /\ \A k \in RbiFiles : entries[k] = IF k = key THEN NoSlot ELSE cache.entries[k]
    BY DEF Caches, entries
  <2> DEFINE left == [entries |-> entries, order |-> rest]
  <2>11. left \in Caches /\ left.entries = entries /\ left.order = rest
    BY <2>4, <2>10 DEF Caches
  <2> HIDE DEF left
  <2>12. Coherent(left)
    <3>1. Holds(left.entries) = Holds(cache.entries) \ {key}
      BY <2>5, <2>11
    <3>2. Len(left.order) = len - 1
      BY <2>4, <2>11
    <3> QED BY <2>6, <2>7, <2>8, <2>11, <3>1, <3>2 DEF Coherent
  <2> QED BY <2>9, <2>10, <2>11, <2>12 DEF left
<1> QED BY <1>1, <1>2

\* evict_to_cap keeps a cache together that is in order but for its size.
LEMMA EvictCoherent ==
  ASSUME NEW cache \in Caches,
         {cache.order[i] : i \in 1 .. Len(cache.order)} = Holds(cache.entries),
         \A i, j \in 1 .. Len(cache.order) : cache.order[i] = cache.order[j] => i = j
  PROVE  /\ EvictToCap(cache) \in Caches /\ Coherent(EvictToCap(cache))
         /\ \A k \in RbiFiles : EvictToCap(cache).entries[k] \in {NoSlot, cache.entries[k]}
<1> DEFINE order == cache.order
           len == Len(order)
           Fit(n) == Cardinality(Holds(Dropped(cache, n).entries)) <= Cap
           Stops(n) == (Fit(n) \/ n = len) /\ \A m \in 0 .. n - 1 : ~Fit(m)
           last == CHOOSE n \in 0 .. len : Stops(n)
<1>1. len \in Nat /\ order \in Seq(RbiFiles) /\ order \in [1 .. len -> RbiFiles]
  BY DEF Caches
<1>2. ASSUME NEW n \in 0 .. len
      PROVE  /\ Dropped(cache, n) \in Caches
             /\ Len(Dropped(cache, n).order) = len - n
             /\ \A i \in 1 .. len - n : Dropped(cache, n).order[i] = order[n + i]
             /\ Dropped(cache, n).entries =
                  [k \in RbiFiles |->
                     IF \E i \in 1 .. n : order[i] = k THEN NoSlot ELSE cache.entries[k]]
  <2> DEFINE first == n + 1
             rest == SubSeq(order, first, len)
  <2>1. first \in Int /\ len \in Int /\ \A i \in first .. len : order[i] \in RbiFiles
    BY <1>1
  <2>2. /\ rest \in Seq(RbiFiles)
        /\ Len(rest) = len - n
        /\ \A i \in 1 .. len - n : rest[i] = order[n + i]
    <3> HIDE DEF first, len, order
    <3>1. /\ rest \in Seq(RbiFiles)
          /\ Len(rest) = IF first <= len THEN len - first + 1 ELSE 0
          /\ \A i \in 1 .. len - first + 1 : rest[i] = order[first + i - 1]
      BY <2>1, SubSeqProperties
    <3> HIDE DEF rest
    <3> QED BY <1>1, <3>1 DEF first
  <2> HIDE DEF rest
  <2>3. Dropped(cache, n) =
          [entries |-> [k \in RbiFiles |->
             IF \E i \in 1 .. n : order[i] = k THEN NoSlot ELSE cache.entries[k]], order |-> rest]
    BY DEF Dropped, rest, first
  <2>4. [k \in RbiFiles |->
             IF \E i \in 1 .. n : order[i] = k THEN NoSlot ELSE cache.entries[k]]
          \in [RbiFiles -> FileSlots \union {NoSlot}]
    BY DEF Caches
  <2> QED BY <2>2, <2>3, <2>4 DEF Caches
<1>0. Fit(len)
  <2>1. len \in 0 .. len
    BY <1>1
  <2>2. \A k \in RbiFiles : cache.entries[k] # NoSlot => \E i \in 1 .. len : order[i] = k
    BY DEF Holds
  <2>3. Dropped(cache, len).entries =
          [k \in RbiFiles |->
             IF \E i \in 1 .. len : order[i] = k THEN NoSlot ELSE cache.entries[k]]
    BY <1>2, <2>1
  <2>4. Holds(Dropped(cache, len).entries) = {}
    BY <2>2, <2>3 DEF Holds
  <2>5. Cardinality({}) = 0
    BY FS_EmptySet
  <2> QED BY <2>4, <2>5, RbiConstants
<1>3. last \in 0 .. len /\ Stops(last)
  <2> HIDE DEF Fit
  <2>2. PICK n \in {m \in 0 .. len : Fit(m)} : \A m \in {i \in 0 .. len : Fit(i)} : n <= m
    <3> DEFINE fitting == {m \in 0 .. len : Fit(m)}
    <3>1. fitting \subseteq Nat /\ fitting # {}
      BY <1>0, <1>1
    <3> HIDE DEF fitting
    <3>2. \E n \in fitting : \A m \in fitting : n <= m
      BY <3>1, Smallest
    <3> QED BY <3>2 DEF fitting
  <2>3. Stops(n)
    BY <1>1, <2>2
  <2>4. n \in 0 .. len
    BY <2>2
  <2> HIDE DEF Stops
  <2> QED BY <2>3, <2>4
<1>4. EvictToCap(cache) = Dropped(cache, last)
  BY DEF EvictToCap
<1>5. Fit(last)
  BY <1>0, <1>3
<1> DEFINE left == Dropped(cache, last)
<1>6. last \in 0 .. len
  BY <1>3
<1> HIDE DEF last
<1>7. /\ left \in Caches
      /\ Len(left.order) = len - last
      /\ \A i \in 1 .. len - last : left.order[i] = order[last + i]
      /\ left.entries =
           [k \in RbiFiles |->
              IF \E i \in 1 .. last : order[i] = k THEN NoSlot ELSE cache.entries[k]]
  BY <1>2, <1>6
<1> HIDE DEF left
<1>8. \A k \in RbiFiles :
        left.entries[k] = IF \E i \in 1 .. last : order[i] = k THEN NoSlot ELSE cache.entries[k]
  BY <1>7
<1>9. {left.order[i] : i \in 1 .. len - last} = Holds(left.entries)
  <2>1. ASSUME NEW i \in 1 .. len - last
        PROVE  left.order[i] \in Holds(left.entries)
    <3>1. last + i \in 1 .. len /\ left.order[i] = order[last + i]
      BY <1>1, <1>6, <1>7
    <3>2. order[last + i] \in Holds(cache.entries)
      BY <3>1
    <3>3. \A j \in 1 .. last : j \in 1 .. len /\ j # last + i
      BY <1>1, <1>6
    <3>4. \A j \in 1 .. last : order[j] # order[last + i]
      BY <3>1, <3>3
    <3> QED BY <1>8, <3>1, <3>2, <3>4 DEF Holds
  <2>2. ASSUME NEW k \in Holds(left.entries)
        PROVE  \E i \in 1 .. len - last : left.order[i] = k
    <3>1. k \in Holds(cache.entries) /\ \A j \in 1 .. last : order[j] # k
      BY <1>8 DEF Holds
    <3>2. PICK j \in 1 .. len : order[j] = k
      BY <3>1
    <3>3. j - last \in 1 .. len - last /\ last + (j - last) = j
      BY <1>1, <1>6, <3>1, <3>2
    <3> QED BY <1>7, <3>2, <3>3
  <2> QED BY <2>1, <2>2
<1>10. \A i, j \in 1 .. len - last : left.order[i] = left.order[j] => i = j
  <2>1. \A i \in 1 .. len - last : last + i \in 1 .. len
    BY <1>1, <1>6
  <2>2. \A i, j \in 1 .. len - last : last + i = last + j => i = j
    BY <1>1, <1>6
  <2> QED BY <1>7, <2>1, <2>2
<1>11. \A k \in RbiFiles : left.entries[k] \in {NoSlot, cache.entries[k]}
  BY <1>8
<1>12. Coherent(left)
  BY <1>5, <1>7, <1>9, <1>10 DEF Coherent, left
<1> QED BY <1>4, <1>7, <1>11, <1>12 DEF left

\* insert, of a file that is not there, brings in nothing but its slot.
LEMMA InsertCoherent ==
  ASSUME NEW cache \in Caches, Coherent(cache), NEW key \in RbiFiles, NEW slot \in FileSlots,
         cache.entries[key] = NoSlot
  PROVE  /\ CacheInsert(cache, key, slot) \in Caches
         /\ Coherent(CacheInsert(cache, key, slot))
         /\ \A k \in RbiFiles : CacheInsert(cache, key, slot).entries[k] \in
                                {NoSlot, IF k = key THEN slot ELSE cache.entries[k]}
<1> DEFINE len == Len(cache.order)
           entries == [cache.entries EXCEPT ![key] = slot]
           order == Append(cache.order, key)
           more == [entries |-> entries, order |-> order]
<1>1. /\ order \in Seq(RbiFiles) /\ Len(order) = len + 1 /\ len \in Nat
      /\ \A i \in 1 .. len : order[i] = cache.order[i]
      /\ order[len + 1] = key
  BY AppendProperties DEF Caches
<1>2. /\ entries \in [RbiFiles -> FileSlots \union {NoSlot}]
      /\ \A k \in RbiFiles : entries[k] = IF k = key THEN slot ELSE cache.entries[k]
  BY DEF Caches
<1>3. Holds(entries) = Holds(cache.entries) \union {key} /\ key \notin Holds(cache.entries)
  BY <1>2, RbiConstants DEF Holds
<1> HIDE DEF entries, order
<1>4. {order[i] : i \in 1 .. Len(order)} = Holds(entries)
  <2>1. {cache.order[i] : i \in 1 .. len} = Holds(cache.entries)
    BY DEF Coherent
  <2>2. \A i \in 1 .. len + 1 : i = len + 1 \/ i \in 1 .. len
    BY <1>1
  <2>3. 1 .. len \subseteq 1 .. len + 1 /\ len + 1 \in 1 .. len + 1
    BY <1>1
  <2> QED BY <1>1, <1>3, <2>1, <2>2, <2>3
<1>5. \A i, j \in 1 .. Len(order) : order[i] = order[j] => i = j
  <2>1. \A i \in 1 .. len : cache.order[i] # key
    BY <1>3 DEF Coherent
  <2>2. \A i \in 1 .. len + 1 : i = len + 1 \/ i \in 1 .. len
    BY <1>1
  <2> QED BY <1>1, <2>1, <2>2 DEF Coherent
<1>6. more \in Caches /\ more.entries = entries /\ more.order = order
  BY <1>1, <1>2 DEF Caches
<1>7. CacheInsert(cache, key, slot) = EvictToCap(more)
  BY DEF CacheInsert, entries, order
<1> HIDE DEF more
<1> QED BY <1>2, <1>4, <1>5, <1>6, <1>7, EvictCoherent

-----------------------------------------------------------------------------
(* The invariant of the loader. *)
Contents == [stamp : Epochs, classes : SUBSET RbiClasses, set : BOOLEAN]
Slots == RbiClasses \X Epochs
Shapes == [state : {"new", "building", "set"}, parts : SUBSET (RbiFiles \X Epochs)]
Works ==
  [pc : {"idle", "slot", "index", "indexing", "load", "parse"}, slot : Slots \union {<<>>},
   files : SUBSET RbiFiles, file : RbiFiles \union {<<>>}, fslot : FileSlots \union {NoSlot},
   parts : SUBSET (RbiFiles \X Epochs)]
Reloads ==
  [pc : {"none", "cache", "shapes", "read", "insert"}, file : RbiFiles \union {<<>>},
   stamp : Epochs, classes : SUBSET RbiClasses]

\* What a thread has at each point of its way.
WorkOK(u) ==
  /\ u.pc # "idle" => u.slot \in Slots
  /\ u.pc = "parse" => u.file \in RbiFiles \ u.files /\ u.fslot \in FileSlots
  /\ u.pc # "parse" => u.fslot = NoSlot
  /\ u.pc \in {"slot", "index", "indexing"} => u.parts = {}

Types ==
  /\ in_server \in BOOLEAN
  /\ rbi_writes \in Epochs
  /\ rbi_disk \in [RbiFiles -> Contents] /\ \A p \in RbiFiles : rbi_disk[p].set
  /\ rbi_events \in SUBSET RbiFiles /\ pending_files \in SUBSET RbiFiles
  /\ index_materialized \in {"new", "running", "set"}
  /\ file_to_classes \in [RbiFiles -> SUBSET RbiClasses]
  /\ file_cache \in Caches /\ Coherent(file_cache)
  /\ slot_content \in [FileSlots -> Contents]
  /\ shapes \in [Slots -> Shapes]
  /\ users \in [RbiThreads -> Works] /\ \A t \in RbiThreads : WorkOK(users[t])
  /\ reload \in Reloads /\ (reload.pc # "none" => reload.file \in RbiFiles)
  /\ reloaded \in [RbiFiles -> Epochs]
  /\ racing \in SUBSET Slots

\* A batch run writes nothing; every epoch but the first is due to a write of its own, whose
\* news are on the way or being handled.
Counted ==
  /\ epoch \in Nat /\ IsFiniteSet(rbi_events)
  /\ epoch + Cardinality(rbi_events) + (IF reload.pc \in {"cache", "shapes"} THEN 1 ELSE 0)
       <= rbi_writes
  /\ ~in_server => rbi_writes = 0
  /\ reload.pc # "none" \/ racing # {} => rbi_writes > 0

Building(t, s) == users[t].slot = s /\ users[t].pc \notin {"idle", "slot"}

\* What is being built has one builder.
OneBuilder ==
  /\ \A s \in Slots : shapes[s].state = "building" <=> \E t \in RbiThreads : Building(t, s)
  /\ \A s \in Slots, t, u \in RbiThreads : Building(t, s) /\ Building(u, s) => t = u
  /\ index_materialized = "running" <=> \E t \in RbiThreads : users[t].pc = "indexing"
  /\ \A t, u \in RbiThreads : users[t].pc = "indexing" /\ users[u].pc = "indexing" => t = u

\* Nobody is ahead of the epoch.
EpochsPast ==
  /\ \A t \in RbiThreads : users[t].pc # "idle" => users[t].slot[2] <= epoch
  /\ \A s \in Slots : s[2] > epoch => shapes[s] = NewShape
  /\ \A s \in Slots : shapes[s].state # "set" => shapes[s].parts = {}

\* A slot of a file is of one file, whoever holds it.
SlotsApart ==
  /\ \A p, q \in RbiFiles :
       file_cache.entries[p] = file_cache.entries[q] /\ file_cache.entries[p] # NoSlot => p = q
  /\ \A p \in RbiFiles, t \in RbiThreads :
       file_cache.entries[p] = users[t].fslot /\ users[t].fslot # NoSlot => users[t].file = p
  /\ \A t, u \in RbiThreads :
       users[t].fslot = users[u].fslot /\ users[t].fslot # NoSlot => users[t].file = users[u].file

\* The thread builds a shape that still counts.
Current(t) == users[t].pc # "idle" /\ users[t].slot[2] = epoch

\* The content that a reload of the file has to make everybody see, from the moment the
\* file is out of the cache.
Floor(p) == IF reload.pc = "shapes" /\ reload.file = p THEN reload.stamp ELSE reloaded[p]

\* No slot, thread or shape that counts has a content from before the last reload.
NothingOutdated ==
  /\ \A p \in RbiFiles : /\ rbi_disk[p].stamp <= rbi_writes
                         /\ reloaded[p] <= Floor(p) /\ Floor(p) <= rbi_disk[p].stamp
  /\ \A p \in RbiFiles :
       LET s == file_cache.entries[p] IN
       s # NoSlot /\ slot_content[s].set => slot_content[s].stamp >= Floor(p)
  /\ \A t \in RbiThreads : Current(t) =>
       /\ users[t].pc = "parse" /\ slot_content[users[t].fslot].set
            => slot_content[users[t].fslot].stamp >= reloaded[users[t].file]
       /\ \A part \in users[t].parts : part[2] >= reloaded[part[1]]
  /\ \A s \in Slots : s[2] = epoch => \A part \in shapes[s].parts : part[2] >= reloaded[part[1]]

\* The last change of the file is told, and no shape from before it counts.
Told(p) == p \notin rbi_events /\ ~(reload.file = p /\ reload.pc \in {"cache", "shapes"})

\* The cache has the file as it is, from the moment a reload has taken it out.
CacheTrue ==
  \A p \in RbiFiles :
    LET s == file_cache.entries[p] IN
    /\ p \notin rbi_events /\ ~(reload.file = p /\ reload.pc = "cache")
    /\ s # NoSlot /\ slot_content[s].set
    => slot_content[s] = rbi_disk[p]

Indexed(p) ==
  /\ p \notin pending_files
  /\ \A t \in RbiThreads : users[t].pc = "indexing" => p \notin users[t].files

\* The index is right about the files it has and that no reload has taken out.
IndexTrue ==
  /\ index_materialized # "new" \/ in_server => pending_files = {}
  /\ in_server => \A t \in RbiThreads : users[t].pc = "indexing" => users[t].files = {}
  /\ \A p \in RbiFiles :
       Told(p) /\ Indexed(p) /\ ~(reload.file = p /\ reload.pc \in {"read", "insert"})
         => file_to_classes[p] = rbi_disk[p].classes
  /\ reload.pc = "insert" /\ reload.file \notin rbi_events
       => reload.classes = rbi_disk[reload.file].classes

\* The parts have of p what it declares for the class now.
Has(parts, class, p) ==
  \A n \in Epochs :
    <<p, n>> \in parts <=> class \in rbi_disk[p].classes /\ n = rbi_disk[p].stamp

Awaits(u, p) == p \in u.files \/ (u.pc = "parse" /\ u.file = p)

\* Of a file that is told, a thread has what the file declares, or is still to load it.
Merging ==
  \A t \in RbiThreads, p \in RbiFiles :
    Current(t) /\ users[t].pc \in {"load", "parse"} /\ Told(p) =>
      /\ users[t].pc = "parse" /\ users[t].file = p /\ slot_content[users[t].fslot].set
           => slot_content[users[t].fslot] = rbi_disk[p]
      /\ users[t].slot \notin racing =>
           IF Awaits(users[t], p)
           THEN /\ users[t].slot[1] \in rbi_disk[p].classes
                /\ \A n \in Epochs : <<p, n>> \notin users[t].parts
           ELSE Has(users[t].parts, users[t].slot[1], p)

Merged ==
  \A s \in Slots, p \in RbiFiles :
    s[2] = epoch /\ shapes[s].state = "set" /\ s \notin racing /\ Told(p)
      => Has(shapes[s].parts, s[1], p)

RbiInv ==
  /\ Types /\ Counted /\ OneBuilder /\ EpochsPast /\ SlotsApart
  /\ NothingOutdated /\ CacheTrue /\ IndexTrue /\ Merging /\ Merged

-----------------------------------------------------------------------------
(* A thread moves on. *)

\* What the step of a thread is made of.
LEMMA WorkStep ==
  ASSUME Types, NEW t \in RbiThreads, NEW u \in Works, WorkOK(u), Users(t, u)
  PROVE  /\ users' \in [RbiThreads -> Works] /\ \A v \in RbiThreads : WorkOK(users'[v])
         /\ users'[t] = u /\ \A v \in RbiThreads : v # t => users'[v] = users[v]
         /\ UNCHANGED <<in_server, rbi_disk, rbi_writes, rbi_events, epoch, reload, reloaded>>
BY DEF Users, Types, rbi_files

LEMMA TakeShapeSlotKeeps ==
  ASSUME RbiInv, NEW t \in RbiThreads, NEW class \in RbiClasses, TakeShapeSlot(t, class)
  PROVE  RbiInv'
<1> DEFINE u == [Resting EXCEPT !.pc = "slot", !.slot = <<class, epoch>>]
<1>1. epoch \in Epochs
  <2>1. Cardinality(rbi_events) \in Nat
    BY FS_CardinalityType DEF RbiInv, Counted
  <2> QED BY <2>1, RbiConstants DEF RbiInv, Counted, Types, Epochs
<1>2. /\ u \in Works /\ u.pc = "slot" /\ u.slot = <<class, epoch>> /\ u.files = {}
      /\ u.fslot = NoSlot /\ u.parts = {} /\ WorkOK(u)
  BY <1>1 DEF Resting, Works, WorkOK, Slots
<1>3. Users(t, u) /\ UNCHANGED <<rbi_index, rbi_cache, shapes, racing>> /\ users[t].pc = "idle"
  BY DEF TakeShapeSlot
<1> HIDE DEF u
<1>4. /\ users' \in [RbiThreads -> Works] /\ \A v \in RbiThreads : WorkOK(users'[v])
      /\ users'[t] = u /\ \A v \in RbiThreads : v # t => users'[v] = users[v]
      /\ UNCHANGED <<in_server, rbi_disk, rbi_writes, rbi_events, epoch, reload, reloaded>>
      /\ UNCHANGED <<pending_files, index_materialized, file_to_classes, file_cache, slot_content>>
  BY <1>2, <1>3, WorkStep DEF RbiInv, rbi_index, rbi_cache
<1>5. Types'
  BY <1>3, <1>4 DEF RbiInv, Types
<1>6. Counted' /\ IndexTrue' /\ CacheTrue' /\ Merged'
  BY <1>2, <1>3, <1>4 DEF RbiInv, Counted, IndexTrue, CacheTrue, Merged, Told, Indexed, Has
<1>7. OneBuilder'
  BY <1>2, <1>3, <1>4 DEF RbiInv, OneBuilder, Building
<1>8. EpochsPast' /\ SlotsApart'
  BY <1>1, <1>2, <1>3, <1>4 DEF RbiInv, EpochsPast, SlotsApart, Epochs
<1>9. NothingOutdated'
  BY <1>2, <1>3, <1>4 DEF RbiInv, NothingOutdated, Floor, Current
<1>10. Merging'
  BY <1>2, <1>3, <1>4 DEF RbiInv, Merging, Current, Told, Awaits, Has
<1> QED BY <1>5, <1>6, <1>7, <1>8, <1>9, <1>10 DEF RbiInv

LEMMA UseShapeSlotKeeps ==
  ASSUME RbiInv, NEW t \in RbiThreads, UseShapeSlot(t)
  PROVE  RbiInv'
<1> DEFINE s == users[t].slot
<1>0. users[t] \in Works /\ s \in Slots /\ users[t].pc = "slot" /\ users[t].parts = {}
      /\ users[t].fslot = NoSlot /\ s[2] <= epoch /\ shapes[s] \in Shapes
  BY DEF RbiInv, Types, EpochsPast, UseShapeSlot, WorkOK
<1>1. UNCHANGED <<pending_files, index_materialized, file_to_classes, file_cache, slot_content,
                  racing>>
  BY DEF UseShapeSlot, rbi_index, rbi_cache
<1>2. CASE shapes[s].state = "new"
  <2> DEFINE u == [users[t] EXCEPT !.pc = "index"]
  <2>1. /\ u \in Works /\ u.pc = "index" /\ u.slot = s /\ u.files = users[t].files
        /\ u.fslot = NoSlot /\ u.parts = {} /\ WorkOK(u)
    BY <1>0 DEF Works, WorkOK
  <2>2. Users(t, u) /\ shapes' = [shapes EXCEPT ![s].state = "building"]
    BY <1>2 DEF UseShapeSlot
  <2> HIDE DEF u
  <2>3. /\ shapes' \in [Slots -> Shapes] /\ shapes'[s].state = "building"
        /\ shapes'[s].parts = shapes[s].parts
        /\ \A r \in Slots : r # s => shapes'[r] = shapes[r]
    BY <1>0, <2>2 DEF RbiInv, Types, Shapes
  <2>4. /\ users' \in [RbiThreads -> Works] /\ \A v \in RbiThreads : WorkOK(users'[v])
        /\ users'[t] = u /\ \A v \in RbiThreads : v # t => users'[v] = users[v]
        /\ UNCHANGED <<in_server, rbi_disk, rbi_writes, rbi_events, epoch, reload, reloaded>>
    BY <2>1, <2>2, WorkStep DEF RbiInv
  <2> HIDE DEF s
  <2>5. Types'
    BY <1>1, <2>3, <2>4 DEF RbiInv, Types
  <2>6. Counted' /\ IndexTrue' /\ CacheTrue'
    BY <1>0, <1>1, <2>1, <2>4 DEF RbiInv, Counted, IndexTrue, CacheTrue, Told, Indexed
  <2>7. OneBuilder'
    BY <1>0, <1>1, <1>2, <2>1, <2>3, <2>4 DEF RbiInv, OneBuilder, Building, s
  <2>8. EpochsPast' /\ SlotsApart'
    <3>1. epoch \in Nat /\ s[2] \in Nat
      BY <1>0, RbiConstants DEF RbiInv, Counted, Slots, Epochs
    <3> QED BY <1>0, <1>1, <1>2, <2>1, <2>3, <2>4, <3>1 DEF RbiInv, EpochsPast, SlotsApart
  <2>9. NothingOutdated'
    BY <1>0, <1>1, <2>1, <2>3, <2>4 DEF RbiInv, NothingOutdated, Floor, Current
  <2>10. Merging' /\ Merged'
    BY <1>0, <1>1, <2>1, <2>3, <2>4 DEF RbiInv, Merging, Merged, Current, Told, Awaits, Has
  <2> QED BY <2>5, <2>6, <2>7, <2>8, <2>9, <2>10 DEF RbiInv
<1>3. CASE shapes[s].state = "set"
  <2>1. Users(t, Resting) /\ UNCHANGED shapes
    BY <1>3 DEF UseShapeSlot
  <2>2. Resting \in Works /\ WorkOK(Resting) /\ Resting.pc = "idle" /\ Resting.fslot = NoSlot
    BY DEF Resting, Works, WorkOK
  <2>3. /\ users' \in [RbiThreads -> Works] /\ \A v \in RbiThreads : WorkOK(users'[v])
        /\ users'[t] = Resting /\ \A v \in RbiThreads : v # t => users'[v] = users[v]
        /\ UNCHANGED <<in_server, rbi_disk, rbi_writes, rbi_events, epoch, reload, reloaded>>
    BY <2>1, <2>2, WorkStep DEF RbiInv
  <2>4. Types'
    BY <1>1, <2>1, <2>3 DEF RbiInv, Types
  <2>5. Counted' /\ IndexTrue' /\ CacheTrue' /\ Merged'
    BY <1>0, <1>1, <2>1, <2>2, <2>3
       DEF RbiInv, Counted, IndexTrue, CacheTrue, Merged, Told, Indexed, Has
  <2>6. OneBuilder' /\ EpochsPast' /\ SlotsApart'
    BY <1>0, <1>1, <2>1, <2>2, <2>3 DEF RbiInv, OneBuilder, Building, EpochsPast, SlotsApart
  <2>7. NothingOutdated'
    BY <1>0, <1>1, <2>1, <2>2, <2>3 DEF RbiInv, NothingOutdated, Floor, Current
  <2>8. Merging'
    BY <1>0, <1>1, <2>1, <2>2, <2>3 DEF RbiInv, Merging, Current, Told, Awaits, Has
  <2> QED BY <2>4, <2>5, <2>6, <2>7, <2>8 DEF RbiInv
<1> QED BY <1>2, <1>3 DEF UseShapeSlot

LEMMA TakePendingKeeps ==
  ASSUME RbiInv, NEW t \in RbiThreads, TakePending(t)
  PROVE  RbiInv'
<1> DEFINE u == [users[t] EXCEPT !.pc = "indexing", !.files = pending_files]
<1>0. users[t] \in Works /\ WorkOK(users[t]) /\ users[t].pc = "index"
  BY DEF RbiInv, Types, TakePending
<1>1. /\ u \in Works /\ u.pc = "indexing" /\ u.slot = users[t].slot /\ u.files = pending_files
      /\ u.fslot = NoSlot /\ u.parts = users[t].parts /\ WorkOK(u)
  BY <1>0 DEF RbiInv, Types, Works, WorkOK
<1>2. /\ Users(t, u) /\ index_materialized = "new" /\ index_materialized' = "running"
      /\ pending_files' = {}
      /\ UNCHANGED <<file_to_classes, file_cache, slot_content, shapes, racing>>
  BY DEF TakePending, rbi_cache
<1> HIDE DEF u
<1>3. /\ users' \in [RbiThreads -> Works] /\ \A v \in RbiThreads : WorkOK(users'[v])
      /\ users'[t] = u /\ \A v \in RbiThreads : v # t => users'[v] = users[v]
      /\ UNCHANGED <<in_server, rbi_disk, rbi_writes, rbi_events, epoch, reload, reloaded>>
  BY <1>1, <1>2, WorkStep DEF RbiInv
<1>4. Types' /\ Counted' /\ CacheTrue' /\ Merged'
  BY <1>2, <1>3 DEF RbiInv, Types, Counted, CacheTrue, Merged, Told, Has
<1>5. \A v \in RbiThreads : users[v].pc \notin {"indexing"}
  BY <1>2 DEF RbiInv, OneBuilder
<1>6. IndexTrue'
  <2>1. \A p \in RbiFiles : (Indexed(p))' => Indexed(p)
    BY <1>1, <1>3, <1>5 DEF Indexed
  <2> QED BY <1>1, <1>2, <1>3, <1>5, <2>1 DEF RbiInv, IndexTrue, Told
<1>7. OneBuilder'
  BY <1>0, <1>1, <1>2, <1>3, <1>5 DEF RbiInv, OneBuilder, Building
<1>8. EpochsPast' /\ SlotsApart'
  BY <1>0, <1>1, <1>2, <1>3 DEF RbiInv, EpochsPast, SlotsApart
<1>9. NothingOutdated'
  BY <1>0, <1>1, <1>2, <1>3 DEF RbiInv, NothingOutdated, Floor, Current
<1>10. Merging'
  BY <1>0, <1>1, <1>2, <1>3 DEF RbiInv, Merging, Current, Told, Awaits, Has
<1> QED BY <1>4, <1>6, <1>7, <1>8, <1>9, <1>10 DEF RbiInv

LEMMA IndexPendingKeeps ==
  ASSUME RbiInv, NEW t \in RbiThreads, IndexPending(t)
  PROVE  RbiInv'
<1> DEFINE u == [users[t] EXCEPT !.pc = "index", !.files = {}]
<1>0. users[t] \in Works /\ WorkOK(users[t]) /\ users[t].pc = "indexing"
  BY DEF RbiInv, Types, IndexPending
<1>1. /\ u \in Works /\ u.pc = "index" /\ u.slot = users[t].slot /\ u.files = {}
      /\ u.fslot = NoSlot /\ u.parts = users[t].parts /\ WorkOK(u)
  BY <1>0 DEF Works, WorkOK
<1>2. /\ Users(t, u) /\ index_materialized' = "set"
      /\ file_to_classes' = [p \in RbiFiles |->
           IF p \in users[t].files THEN rbi_disk[p].classes ELSE file_to_classes[p]]
      /\ UNCHANGED <<pending_files, file_cache, slot_content, shapes, racing>>
  BY DEF IndexPending, rbi_cache
<1> HIDE DEF u
<1>3. /\ users' \in [RbiThreads -> Works] /\ \A v \in RbiThreads : WorkOK(users'[v])
      /\ users'[t] = u /\ \A v \in RbiThreads : v # t => users'[v] = users[v]
      /\ UNCHANGED <<in_server, rbi_disk, rbi_writes, rbi_events, epoch, reload, reloaded>>
  BY <1>1, <1>2, WorkStep DEF RbiInv
<1>4. Types' /\ Counted' /\ CacheTrue' /\ Merged'
  <2>1. file_to_classes' \in [RbiFiles -> SUBSET RbiClasses]
    BY <1>2 DEF RbiInv, Types, Contents
  <2> QED BY <1>2, <1>3, <2>1 DEF RbiInv, Types, Counted, CacheTrue, Merged, Told, Has
<1>5. /\ \A v \in RbiThreads : v # t => users[v].pc # "indexing"
      /\ index_materialized = "running" /\ pending_files = {}
  BY <1>0 DEF RbiInv, OneBuilder, IndexTrue
<1>6. IndexTrue'
  <2>1. ASSUME NEW p \in RbiFiles, p \notin users[t].files
        PROVE  file_to_classes'[p] = file_to_classes[p] /\ Indexed(p)
    BY <1>2, <1>5, <2>1 DEF Indexed
  <2>2. ASSUME NEW p \in RbiFiles, p \in users[t].files
        PROVE  file_to_classes'[p] = rbi_disk[p].classes
    BY <1>2, <2>2
  <2>3. \A v \in RbiThreads : users'[v].pc # "indexing"
    BY <1>1, <1>3, <1>5
  <2> QED BY <1>1, <1>2, <1>3, <1>5, <2>1, <2>2, <2>3 DEF RbiInv, IndexTrue, Told
<1>7. OneBuilder'
  BY <1>0, <1>1, <1>2, <1>3, <1>5 DEF RbiInv, OneBuilder, Building
<1>8. EpochsPast' /\ SlotsApart'
  BY <1>0, <1>1, <1>2, <1>3 DEF RbiInv, EpochsPast, SlotsApart
<1>9. NothingOutdated'
  BY <1>0, <1>1, <1>2, <1>3 DEF RbiInv, NothingOutdated, Floor, Current
<1>10. Merging'
  BY <1>0, <1>1, <1>2, <1>3 DEF RbiInv, Merging, Current, Told, Awaits, Has
<1> QED BY <1>4, <1>6, <1>7, <1>8, <1>9, <1>10 DEF RbiInv

LEMMA LookUpKeeps ==
  ASSUME RbiInv, NEW t \in RbiThreads, LookUp(t)
  PROVE  RbiInv'
<1> DEFINE found == LookupClassFiles(users[t].slot[1])
           u == [users[t] EXCEPT !.pc = "load", !.files = found]
<1>0. users[t] \in Works /\ WorkOK(users[t]) /\ users[t].pc = "index" /\ index_materialized = "set"
      /\ users[t].slot \in Slots
  BY DEF RbiInv, Types, LookUp, WorkOK
<1>1. /\ u \in Works /\ u.pc = "load" /\ u.slot = users[t].slot /\ u.files = found
      /\ u.fslot = NoSlot /\ u.parts = {} /\ WorkOK(u)
  BY <1>0 DEF Works, WorkOK, LookupClassFiles
<1>2. /\ Users(t, u)
      /\ racing' = IF reload.pc \in {"read", "insert"} THEN racing \union {users[t].slot}
                   ELSE racing
      /\ UNCHANGED <<pending_files, index_materialized, file_to_classes, file_cache,
                     slot_content, shapes>>
  BY DEF LookUp, rbi_cache, rbi_index
<1> HIDE DEF u
<1>3. /\ users' \in [RbiThreads -> Works] /\ \A v \in RbiThreads : WorkOK(users'[v])
      /\ users'[t] = u /\ \A v \in RbiThreads : v # t => users'[v] = users[v]
      /\ UNCHANGED <<in_server, rbi_disk, rbi_writes, rbi_events, epoch, reload, reloaded>>
  BY <1>1, <1>2, WorkStep DEF RbiInv
<1>4. /\ racing \subseteq racing' /\ racing' \in SUBSET Slots
      /\ racing' # racing => reload.pc # "none"
  BY <1>0, <1>2 DEF RbiInv, Types
<1>5. Types' /\ Counted' /\ CacheTrue' /\ Merged'
  BY <1>2, <1>3, <1>4 DEF RbiInv, Types, Counted, CacheTrue, Merged, Told, Has
<1>6. IndexTrue'
  BY <1>0, <1>1, <1>2, <1>3 DEF RbiInv, IndexTrue, Told, Indexed
<1>7. OneBuilder'
  BY <1>0, <1>1, <1>2, <1>3 DEF RbiInv, OneBuilder, Building
<1>8. EpochsPast' /\ SlotsApart'
  BY <1>0, <1>1, <1>2, <1>3 DEF RbiInv, EpochsPast, SlotsApart
<1>9. NothingOutdated'
  BY <1>0, <1>1, <1>2, <1>3 DEF RbiInv, NothingOutdated, Floor, Current
<1>10. Merging'
  <2>1. ASSUME NEW p \in RbiFiles, Told(p), reload.pc \notin {"read", "insert"}
        PROVE  p \in found <=> users[t].slot[1] \in rbi_disk[p].classes
    <3>1. Indexed(p)
      BY <1>0 DEF RbiInv, IndexTrue, OneBuilder, Indexed
    <3>2. file_to_classes[p] = rbi_disk[p].classes
      BY <2>1, <3>1 DEF RbiInv, IndexTrue
    <3> QED BY <3>2 DEF LookupClassFiles
  <2> HIDE DEF found
  <2>2. ASSUME NEW p \in RbiFiles, (Told(p))', users'[t].slot \notin racing'
        PROVE  IF Awaits(users'[t], p)
               THEN /\ users'[t].slot[1] \in rbi_disk'[p].classes
                    /\ \A n \in Epochs : <<p, n>> \notin users'[t].parts
               ELSE (Has(users[t].parts, users[t].slot[1], p))'
    <3>1. reload.pc \notin {"read", "insert"} /\ Told(p)
      BY <1>1, <1>2, <1>3, <2>2 DEF Told
    <3> QED BY <1>1, <1>3, <2>1, <3>1 DEF Awaits, Has
  <2>3. ASSUME NEW v \in RbiThreads, v # t, NEW p \in RbiFiles,
               (Current(v) /\ users[v].pc \in {"load", "parse"} /\ Told(p))'
        PROVE  /\ users'[v].pc = "parse" /\ users'[v].file = p /\ slot_content'[users'[v].fslot].set
                    => slot_content'[users'[v].fslot] = rbi_disk'[p]
               /\ users'[v].slot \notin racing' =>
                    IF Awaits(users'[v], p)
                    THEN /\ users'[v].slot[1] \in rbi_disk'[p].classes
                         /\ \A n \in Epochs : <<p, n>> \notin users'[v].parts
                    ELSE (Has(users[v].parts, users[v].slot[1], p))'
    BY <1>2, <1>3, <1>4, <2>3 DEF RbiInv, Merging, Current, Told, Has
  <2> QED BY <1>1, <1>3, <2>2, <2>3 DEF Merging
<1> QED BY <1>5, <1>6, <1>7, <1>8, <1>9, <1>10 DEF RbiInv

LEMMA TakeFileSlotKeeps ==
  ASSUME RbiInv, NEW t \in RbiThreads, NEW p \in RbiFiles, TakeFileSlot(t, p)
  PROVE  RbiInv'
<1> DEFINE fresh == CHOOSE s \in FileSlots : FreeSlot(s)
           cached == file_cache.entries[p] # NoSlot
           slot == IF cached THEN file_cache.entries[p] ELSE fresh
           u == [users[t] EXCEPT !.pc = "parse", !.file = p, !.fslot = slot, !.files = @ \ {p}]
<1>0. /\ users[t] \in Works /\ WorkOK(users[t]) /\ users[t].pc = "load" /\ p \in users[t].files
      /\ users[t].fslot = NoSlot /\ file_cache \in Caches /\ Coherent(file_cache)
      /\ file_cache.entries \in [RbiFiles -> FileSlots \union {NoSlot}]
  BY DEF RbiInv, Types, TakeFileSlot, WorkOK, Caches
<1>1. slot \in FileSlots /\ (~cached => FreeSlot(slot))
  <2>1. CASE cached
    BY <1>0, <2>1
  <2>2. CASE ~cached
    <3>1. \E s \in FileSlots : FreeSlot(s)
      BY <2>2 DEF TakeFileSlot
    <3>2. fresh \in FileSlots /\ FreeSlot(fresh)
      BY <3>1
    <3> HIDE DEF fresh
    <3> QED BY <2>2, <3>2
  <2> QED BY <2>1, <2>2
<1>2. /\ file_cache' = IF cached THEN file_cache ELSE CacheInsert(file_cache, p, slot)
      /\ slot_content' = IF cached THEN slot_content ELSE [slot_content EXCEPT ![slot] = Unset]
      /\ Users(t, u)
      /\ UNCHANGED <<pending_files, index_materialized, file_to_classes, shapes, racing>>
  BY DEF TakeFileSlot, rbi_index
<1> HIDE DEF fresh, slot
<1>3. /\ u \in Works /\ u.pc = "parse" /\ u.slot = users[t].slot /\ u.file = p /\ u.fslot = slot
      /\ u.files = users[t].files \ {p} /\ u.parts = users[t].parts /\ WorkOK(u)
  BY <1>0, <1>1 DEF Works, WorkOK
<1> HIDE DEF u
<1>4. /\ users' \in [RbiThreads -> Works] /\ \A v \in RbiThreads : WorkOK(users'[v])
      /\ users'[t] = u /\ \A v \in RbiThreads : v # t => users'[v] = users[v]
      /\ UNCHANGED <<in_server, rbi_disk, rbi_writes, rbi_events, epoch, reload, reloaded>>
  BY <1>2, <1>3, WorkStep DEF RbiInv
\* What happens to the cache and to the slots.
<1>5. /\ file_cache' \in Caches /\ Coherent(file_cache)'
      /\ \A q \in RbiFiles :
           file_cache'.entries[q] \in {NoSlot, IF q = p THEN slot ELSE file_cache.entries[q]}
  <2>1. CASE cached
    <3>1. file_cache' = file_cache /\ slot = file_cache.entries[p]
      BY <1>2, <2>1 DEF slot
    <3> QED BY <1>0, <3>1 DEF Coherent
  <2>2. CASE ~cached
    <3>1. file_cache' = CacheInsert(file_cache, p, slot)
      BY <1>2, <2>2
    <3>2. /\ CacheInsert(file_cache, p, slot) \in Caches
          /\ Coherent(CacheInsert(file_cache, p, slot))
          /\ \A q \in RbiFiles : CacheInsert(file_cache, p, slot).entries[q] \in
                                   {NoSlot, IF q = p THEN slot ELSE file_cache.entries[q]}
      BY <1>0, <1>1, <2>2, InsertCoherent
    <3>3. Coherent(file_cache)' = Coherent(file_cache')
      BY DEF Coherent
    <3> QED BY <3>1, <3>2, <3>3
  <2> QED BY <2>1, <2>2
<1>6. /\ slot_content' \in [FileSlots -> Contents]
      /\ \A s \in FileSlots :
           slot_content'[s] = IF s = slot /\ ~cached THEN Unset ELSE slot_content[s]
  <2>1. Unset \in Contents
    BY RbiConstants DEF Unset, Contents, RbiInv, Types, Epochs
  <2> QED BY <1>1, <1>2, <2>1 DEF RbiInv, Types
<1>7. /\ cached => \A q \in RbiFiles : file_cache.entries[q] = slot => q = p
      /\ ~cached => \A q \in RbiFiles : file_cache.entries[q] # slot
      /\ \A v \in RbiThreads : users[v].fslot = slot => cached /\ users[v].file = p
      /\ cached => slot = file_cache.entries[p]
      /\ slot # NoSlot /\ Unset.set = FALSE
  BY <1>0, <1>1, RbiConstants DEF RbiInv, SlotsApart, FreeSlot, slot, Unset
<1> HIDE DEF cached
<1>8. Types'
  BY <1>2, <1>4, <1>5, <1>6 DEF RbiInv, Types
<1>9. Counted' /\ Merged'
  BY <1>2, <1>4 DEF RbiInv, Counted, Merged, Told, Has
<1>10. IndexTrue'
  BY <1>0, <1>2, <1>3, <1>4 DEF RbiInv, IndexTrue, Told, Indexed
<1>11. OneBuilder'
  BY <1>0, <1>2, <1>3, <1>4 DEF RbiInv, OneBuilder, Building
<1>12. EpochsPast'
  BY <1>0, <1>2, <1>3, <1>4 DEF RbiInv, EpochsPast
<1>13. SlotsApart'
  BY <1>0, <1>3, <1>4, <1>5, <1>7 DEF RbiInv, SlotsApart
<1>14. CacheTrue'
  <2>1. \A q \in RbiFiles : LET s == file_cache'.entries[q] IN
          s # NoSlot /\ slot_content'[s].set
            => s = file_cache.entries[q] /\ slot_content'[s] = slot_content[s]
    BY <1>5, <1>6, <1>7, RbiConstants DEF Caches
  <2> QED BY <1>4, <2>1 DEF RbiInv, CacheTrue
<1>15. NothingOutdated'
  <2>1. \A q \in RbiFiles :
          LET s == file_cache'.entries[q] IN
          s # NoSlot /\ slot_content'[s].set => slot_content'[s].stamp >= Floor(q)
    <3>1. \A q \in RbiFiles : LET s == file_cache'.entries[q] IN
            s # NoSlot /\ slot_content'[s].set
              => s = file_cache.entries[q] /\ slot_content'[s] = slot_content[s]
      BY <1>5, <1>6, <1>7, RbiConstants DEF Caches
    <3> QED BY <3>1 DEF RbiInv, NothingOutdated
  <2>2. \A v \in RbiThreads : (Current(v))' =>
          /\ users'[v].pc = "parse" /\ slot_content'[users'[v].fslot].set
               => slot_content'[users'[v].fslot].stamp >= reloaded'[users'[v].file]
          /\ \A part \in users'[v].parts : part[2] >= reloaded'[part[1]]
    <3>1. ASSUME (Current(t))'
          PROVE  /\ slot_content'[slot].set => slot_content'[slot].stamp >= reloaded[p]
                 /\ \A part \in users[t].parts : part[2] >= reloaded[part[1]]
      <4>1. Current(t)
        BY <1>0, <1>3, <1>4, <3>1 DEF Current
      <4>2. slot_content'[slot].set => /\ slot = file_cache.entries[p]
                                       /\ slot_content'[slot] = slot_content[slot]
        BY <1>1, <1>6, <1>7
      <4>3. /\ slot_content'[slot].set => slot_content[slot].stamp >= Floor(p)
            /\ Floor(p) >= reloaded[p]
        BY <1>7, <4>2 DEF RbiInv, NothingOutdated
      <4>4. /\ slot_content[slot].stamp \in Nat /\ reloaded[p] \in Nat /\ Floor(p) \in Nat
        BY <1>1 DEF RbiInv, Types, Contents, Epochs, Reloads, Floor
      <4> QED BY <4>1, <4>2, <4>3, <4>4 DEF RbiInv, NothingOutdated
    <3>2. ASSUME NEW v \in RbiThreads, v # t, users[v].pc = "parse"
          PROVE  slot_content'[users[v].fslot].set
                   => slot_content'[users[v].fslot] = slot_content[users[v].fslot]
      BY <1>6, <1>7, <3>2 DEF RbiInv, Types, WorkOK
    <3> QED BY <1>3, <1>4, <3>1, <3>2 DEF RbiInv, NothingOutdated, Current
  <2> QED BY <1>2, <1>4, <2>1, <2>2 DEF RbiInv, NothingOutdated, Floor
<1>16. Merging'
  <2>1. ASSUME NEW q \in RbiFiles, (Current(t) /\ Told(q))'
        PROVE  /\ q = p /\ slot_content'[slot].set => slot_content'[slot] = rbi_disk[q]
               /\ users[t].slot \notin racing =>
                    IF q \in users[t].files \ {p} \/ p = q
                    THEN /\ users[t].slot[1] \in rbi_disk[q].classes
                         /\ \A n \in Epochs : <<q, n>> \notin users[t].parts
                    ELSE Has(users[t].parts, users[t].slot[1], q)
    <3>1. Current(t) /\ Told(q)
      BY <1>0, <1>3, <1>4, <2>1 DEF Current, Told
    <3>2. slot_content'[slot].set => /\ slot = file_cache.entries[p]
                                     /\ slot_content'[slot] = slot_content[slot]
      BY <1>1, <1>6, <1>7
    <3>3. q = p /\ slot_content'[slot].set => slot_content'[slot] = rbi_disk[q]
      BY <1>7, <3>1, <3>2 DEF RbiInv, CacheTrue, Told
    <3> QED BY <1>0, <3>1, <3>3 DEF RbiInv, Merging, Awaits
  <2>2. ASSUME NEW v \in RbiThreads, v # t, NEW q \in RbiFiles,
               (Current(v) /\ users[v].pc \in {"load", "parse"} /\ Told(q))'
        PROVE  /\ users'[v].pc = "parse" /\ users'[v].file = q /\ slot_content'[users'[v].fslot].set
                    => slot_content'[users'[v].fslot] = rbi_disk'[q]
               /\ users'[v].slot \notin racing' =>
                    IF Awaits(users'[v], q)
                    THEN /\ users'[v].slot[1] \in rbi_disk'[q].classes
                         /\ \A n \in Epochs : <<q, n>> \notin users'[v].parts
                    ELSE (Has(users[v].parts, users[v].slot[1], q))'
    <3>1. users[v].pc = "parse" /\ slot_content'[users[v].fslot].set
            => slot_content'[users[v].fslot] = slot_content[users[v].fslot]
      BY <1>6, <1>7 DEF RbiInv, Types, WorkOK
    <3>2. Current(v) /\ users[v].pc \in {"load", "parse"} /\ Told(q) /\ users'[v] = users[v]
      BY <1>4, <2>2 DEF Current, Told
    <3> QED BY <1>2, <1>4, <3>1, <3>2 DEF RbiInv, Merging, Has
  <2> QED BY <1>2, <1>3, <1>4, <2>1, <2>2 DEF Merging, Awaits, Has
<1> QED BY <1>8, <1>9, <1>10, <1>11, <1>12, <1>13, <1>14, <1>15, <1>16 DEF RbiInv

LEMMA ParseFileKeeps ==
  ASSUME RbiInv, NEW t \in RbiThreads, ParseFile(t)
  PROVE  RbiInv'
<1> DEFINE p == users[t].file
           slot == users[t].fslot
           content == IF slot_content[slot].set THEN slot_content[slot] ELSE rbi_disk[p]
           part == IF users[t].slot[1] \in content.classes THEN {<<p, content.stamp>>} ELSE {}
           u == [users[t] EXCEPT !.pc = "load", !.file = <<>>, !.fslot = NoSlot,
                                 !.parts = @ \union part]
<1>0. /\ users[t] \in Works /\ WorkOK(users[t]) /\ users[t].pc = "parse" /\ p \in RbiFiles
      /\ slot \in FileSlots /\ users[t].slot \in Slots
  BY DEF RbiInv, Types, ParseFile, WorkOK
<1>1. content \in Contents /\ content.set /\ content.stamp \in Epochs
  BY <1>0 DEF RbiInv, Types, Contents
<1>2. /\ slot_content' = [slot_content EXCEPT ![slot] = content]
      /\ Users(t, u)
      /\ UNCHANGED <<pending_files, index_materialized, file_to_classes, file_cache, shapes,
                     racing>>
  BY DEF ParseFile, rbi_index
<1>3. part \in SUBSET (RbiFiles \X Epochs)
  BY <1>0, <1>1
<1>4. /\ u \in Works /\ u.pc = "load" /\ u.slot = users[t].slot /\ u.fslot = NoSlot
      /\ u.files = users[t].files /\ u.parts = users[t].parts \union part /\ WorkOK(u)
  <2> HIDE DEF part
  <2> QED BY <1>0, <1>3 DEF Works, WorkOK
<1> HIDE DEF u
<1>5. /\ users' \in [RbiThreads -> Works] /\ \A v \in RbiThreads : WorkOK(users'[v])
      /\ users'[t] = u /\ \A v \in RbiThreads : v # t => users'[v] = users[v]
      /\ UNCHANGED <<in_server, rbi_disk, rbi_writes, rbi_events, epoch, reload, reloaded>>
  BY <1>2, <1>4, WorkStep DEF RbiInv
<1>6. /\ slot_content' \in [FileSlots -> Contents]
      /\ \A s \in FileSlots : slot_content'[s] = IF s = slot THEN content ELSE slot_content[s]
  BY <1>0, <1>1, <1>2 DEF RbiInv, Types
<1>7. /\ \A q \in RbiFiles : file_cache.entries[q] = slot => q = p
      /\ \A v \in RbiThreads : users[v].fslot = slot => users[v].file = p
      /\ slot # NoSlot
      /\ content = slot_content[slot] \/ content = rbi_disk[p]
      /\ slot_content[slot].set => content = slot_content[slot]
  BY <1>0, RbiConstants DEF RbiInv, SlotsApart
<1> HIDE DEF content
<1>8. Types'
  BY <1>2, <1>5, <1>6 DEF RbiInv, Types, Coherent
<1>9. Counted' /\ Merged'
  BY <1>2, <1>5 DEF RbiInv, Counted, Merged, Told, Has
<1>10. IndexTrue'
  BY <1>0, <1>2, <1>4, <1>5 DEF RbiInv, IndexTrue, Told, Indexed
<1>11. OneBuilder'
  BY <1>0, <1>2, <1>4, <1>5 DEF RbiInv, OneBuilder, Building
<1>12. EpochsPast'
  BY <1>0, <1>2, <1>4, <1>5 DEF RbiInv, EpochsPast
<1>13. SlotsApart'
  BY <1>0, <1>2, <1>4, <1>5 DEF RbiInv, SlotsApart
<1>14. CacheTrue'
  <2>1. ASSUME NEW q \in RbiFiles, file_cache.entries[q] # NoSlot
        PROVE  file_cache.entries[q] \in FileSlots
    BY <2>1 DEF RbiInv, Types, Caches
  <2> QED BY <1>2, <1>5, <1>6, <1>7, <2>1 DEF RbiInv, CacheTrue
<1>15. content.stamp >= reloaded[p] \/ (slot_content[slot].set /\ content = slot_content[slot])
  <2>1. reloaded[p] \in Nat /\ Floor(p) \in Nat /\ rbi_disk[p].stamp \in Nat
    BY <1>0 DEF RbiInv, Types, Contents, Epochs, Reloads, Floor
  <2>2. reloaded[p] <= Floor(p) /\ Floor(p) <= rbi_disk[p].stamp
    BY <1>0 DEF RbiInv, NothingOutdated
  <2> QED BY <1>7, <2>1, <2>2 DEF content
<1>16. NothingOutdated'
  <2>1. \A q \in RbiFiles :
          LET s == file_cache'.entries[q] IN
          s # NoSlot /\ slot_content'[s].set => slot_content'[s].stamp >= Floor(q)
    <3>1. ASSUME NEW q \in RbiFiles, file_cache.entries[q] # NoSlot
          PROVE  file_cache.entries[q] \in FileSlots
      BY <3>1 DEF RbiInv, Types, Caches
    <3>2. ASSUME NEW q \in RbiFiles, file_cache.entries[q] = slot
          PROVE  content.stamp >= Floor(q)
      <4>1. Floor(p) \in Nat /\ rbi_disk[p].stamp \in Nat /\ Floor(p) <= rbi_disk[p].stamp /\ q = p
        BY <1>0, <1>7, <3>2 DEF RbiInv, Types, Contents, Epochs, Reloads, Floor, NothingOutdated
      <4>2. slot_content[slot].set => slot_content[slot].stamp >= Floor(p)
        BY <1>0, <1>7, <3>2 DEF RbiInv, NothingOutdated
      <4> QED BY <4>1, <4>2 DEF content
    <3> QED BY <1>2, <1>6, <3>1, <3>2 DEF RbiInv, NothingOutdated
  <2>2. ASSUME NEW v \in RbiThreads, v # t, Current(v)
        PROVE  /\ users[v].pc = "parse" /\ slot_content'[users[v].fslot].set
                    => slot_content'[users[v].fslot].stamp >= reloaded[users[v].file]
               /\ \A r \in users[v].parts : r[2] >= reloaded[r[1]]
    <3>1. users[v].pc = "parse" => users[v].fslot \in FileSlots
      BY DEF RbiInv, Types, WorkOK
    <3> QED BY <1>6, <1>7, <1>15, <2>2, <3>1 DEF RbiInv, NothingOutdated
  <2>3. Current(t) => \A r \in u.parts : r[2] >= reloaded[r[1]]
    <3>1. Current(t) => content.stamp >= reloaded[p]
      BY <1>0, <1>15 DEF RbiInv, NothingOutdated
    <3>2. \A r \in part : r[1] = p /\ r[2] = content.stamp
      OBVIOUS
    <3> HIDE DEF part
    <3> QED BY <1>4, <3>1, <3>2 DEF RbiInv, NothingOutdated
  <2> QED BY <1>0, <1>2, <1>4, <1>5, <2>1, <2>2, <2>3 DEF RbiInv, NothingOutdated, Floor, Current
<1>17. Merging'
  <2>1. ASSUME NEW q \in RbiFiles, Current(t), Told(q), users[t].slot \notin racing
        PROVE  IF q \in users[t].files
               THEN /\ users[t].slot[1] \in rbi_disk[q].classes
                    /\ \A n \in Epochs : <<q, n>> \notin u.parts
               ELSE Has(u.parts, users[t].slot[1], q)
    <3>1. CASE q # p
      <4>1. \A n : <<q, n>> \in u.parts <=> <<q, n>> \in users[t].parts
        BY <1>4, <3>1
      <4> QED BY <1>0, <2>1, <3>1, <4>1 DEF RbiInv, Merging, Awaits, Has
    <3>2. CASE q = p
      <4>1. content = rbi_disk[q]
        <5>1. slot_content[slot].set => slot_content[slot] = rbi_disk[q]
          BY <1>0, <2>1, <3>2 DEF RbiInv, Merging
        <5> QED BY <1>7, <3>2, <5>1 DEF content
      <4>2. /\ users[t].slot[1] \in rbi_disk[q].classes
            /\ \A n \in Epochs : <<q, n>> \notin users[t].parts
        BY <1>0, <2>1, <3>2 DEF RbiInv, Merging, Awaits
      <4>3. \A n \in Epochs : <<q, n>> \in u.parts <=> n = rbi_disk[q].stamp
        BY <1>4, <3>2, <4>1, <4>2
      <4>4. q \notin users[t].files
        BY <1>0, <3>2 DEF WorkOK
      <4> QED BY <4>2, <4>3, <4>4 DEF Has
    <3> QED BY <3>1, <3>2
  <2>2. ASSUME NEW v \in RbiThreads, v # t, NEW q \in RbiFiles,
               Current(v), users[v].pc = "parse", Told(q), users[v].file = q,
               slot_content'[users[v].fslot].set
        PROVE  slot_content'[users[v].fslot] = rbi_disk[q]
    <3>1. users[v].fslot \in FileSlots
      BY <2>2 DEF RbiInv, Types, WorkOK
    <3> QED BY <1>6, <1>7, <2>2, <3>1 DEF RbiInv, Merging
  <2> QED BY <1>0, <1>2, <1>4, <1>5, <2>1, <2>2 DEF RbiInv, Merging, Current, Told, Awaits, Has
<1> QED BY <1>8, <1>9, <1>10, <1>11, <1>12, <1>13, <1>14, <1>16, <1>17 DEF RbiInv

LEMMA SetShapeKeeps ==
  ASSUME RbiInv, NEW t \in RbiThreads, SetShape(t)
  PROVE  RbiInv'
<1> DEFINE s == users[t].slot
           shape == [state |-> "set", parts |-> users[t].parts]
<1>0. /\ users[t] \in Works /\ s \in Slots /\ users[t].pc = "load" /\ users[t].files = {}
      /\ shape \in Shapes /\ Building(t, s) /\ s[2] <= epoch
  BY DEF RbiInv, Types, EpochsPast, SetShape, WorkOK, Works, Shapes, Building
<1>1. /\ Users(t, Resting) /\ shapes' = [shapes EXCEPT ![s] = shape]
      /\ UNCHANGED <<pending_files, index_materialized, file_to_classes, file_cache,
                     slot_content, racing>>
  BY DEF SetShape, rbi_index, rbi_cache
<1>2. /\ Resting \in Works /\ WorkOK(Resting) /\ Resting.pc = "idle"
      /\ Resting.fslot = NoSlot
  BY DEF Resting, Works, WorkOK
<1>3. /\ users' \in [RbiThreads -> Works] /\ \A v \in RbiThreads : WorkOK(users'[v])
      /\ users'[t] = Resting /\ \A v \in RbiThreads : v # t => users'[v] = users[v]
      /\ UNCHANGED <<in_server, rbi_disk, rbi_writes, rbi_events, epoch, reload, reloaded>>
  BY <1>1, <1>2, WorkStep DEF RbiInv
<1>4. /\ shapes' \in [Slots -> Shapes] /\ shapes'[s].state = "set"
      /\ shapes'[s].parts = users[t].parts
      /\ \A r \in Slots : r # s => shapes'[r] = shapes[r]
  BY <1>0, <1>1 DEF RbiInv, Types
<1> HIDE DEF shape
<1>5. Types'
  BY <1>1, <1>3, <1>4 DEF RbiInv, Types
<1>6. Counted' /\ IndexTrue' /\ CacheTrue'
  BY <1>0, <1>1, <1>2, <1>3 DEF RbiInv, Counted, IndexTrue, CacheTrue, Told, Indexed
<1>7. OneBuilder'
  BY <1>0, <1>1, <1>2, <1>3, <1>4 DEF RbiInv, OneBuilder, Building
<1>8. EpochsPast' /\ SlotsApart'
  <2>1. epoch \in Nat /\ s[2] \in Nat
    BY <1>0, RbiConstants DEF RbiInv, Counted, Slots, Epochs
  <2> QED BY <1>0, <1>1, <1>2, <1>3, <1>4, <2>1 DEF RbiInv, EpochsPast, SlotsApart
<1>9. NothingOutdated'
  BY <1>0, <1>1, <1>2, <1>3, <1>4 DEF RbiInv, NothingOutdated, Floor, Current
<1>10. Merging'
  BY <1>0, <1>1, <1>2, <1>3 DEF RbiInv, Merging, Current, Told, Awaits, Has
<1>11. Merged'
  BY <1>0, <1>1, <1>3, <1>4 DEF RbiInv, Merging, Merged, Current, Told, Awaits, Has
<1> QED BY <1>5, <1>6, <1>7, <1>8, <1>9, <1>10, <1>11 DEF RbiInv

-----------------------------------------------------------------------------
(* Files are written, and the reload moves on. *)

LEMMA RbiWriteKeeps ==
  ASSUME RbiInv, NEW p \in RbiFiles, NEW classes \in SUBSET RbiClasses, RbiWrite(p, classes)
  PROVE  RbiInv'
<1>1. /\ in_server /\ rbi_writes < MaxWrites /\ rbi_writes' = rbi_writes + 1
      /\ rbi_disk' = [rbi_disk EXCEPT ![p] = Content(rbi_writes + 1, classes)]
      /\ rbi_events' = rbi_events \union {p}
      /\ UNCHANGED <<in_server, pending_files, index_materialized, file_to_classes, file_cache,
                     slot_content, epoch, shapes, users, reload, reloaded, racing>>
  BY DEF RbiWrite, rbi_index, rbi_cache, rbi_history
<1>2. rbi_writes \in Nat /\ rbi_writes + 1 \in Epochs /\ p \in rbi_events'
  BY <1>1, RbiConstants DEF RbiInv, Types, Epochs
<1>3. /\ rbi_disk' \in [RbiFiles -> Contents] /\ \A q \in RbiFiles : rbi_disk'[q].set
      /\ rbi_disk'[p].stamp = rbi_writes + 1
      /\ \A q \in RbiFiles : q # p => rbi_disk'[q] = rbi_disk[q]
  <2>1. /\ Content(rbi_writes + 1, classes) \in Contents /\ Content(rbi_writes + 1, classes).set
        /\ Content(rbi_writes + 1, classes).stamp = rbi_writes + 1
    BY <1>2 DEF Content, Contents
  <2> QED BY <1>1, <2>1 DEF RbiInv, Types
<1>4. \A q \in RbiFiles : (Told(q))' => q # p /\ Told(q)
  BY <1>1 DEF Told
<1>5. Types'
  BY <1>1, <1>2, <1>3 DEF RbiInv, Types, Coherent
<1>6. Counted'
  <2>1. /\ IsFiniteSet(rbi_events') /\ Cardinality(rbi_events') \in Nat
        /\ Cardinality(rbi_events) \in Nat
        /\ Cardinality(rbi_events') <= Cardinality(rbi_events) + 1
    <3>1. IsFiniteSet(rbi_events)
      BY DEF RbiInv, Counted
    <3>2. /\ IsFiniteSet(rbi_events \union {p})
          /\ Cardinality(rbi_events \union {p}) =
               IF p \in rbi_events THEN Cardinality(rbi_events) ELSE Cardinality(rbi_events) + 1
      BY <3>1, FS_AddElement
    <3>3. Cardinality(rbi_events) \in Nat
      BY <3>1, FS_CardinalityType
    <3> QED BY <1>1, <3>2, <3>3
  <2> QED BY <1>1, <1>2, <2>1 DEF RbiInv, Counted
<1>7. OneBuilder' /\ EpochsPast' /\ SlotsApart'
  BY <1>1 DEF RbiInv, OneBuilder, Building, EpochsPast, SlotsApart
<1>8. NothingOutdated'
  <2>1. ASSUME NEW q \in RbiFiles
        PROVE  /\ rbi_disk'[q].stamp <= rbi_writes'
               /\ Floor(q) <= rbi_disk'[q].stamp
    <3>1. Floor(q) \in Nat /\ rbi_disk[q].stamp \in Nat
      BY DEF RbiInv, Types, Contents, Epochs, Reloads, Floor
    <3> QED BY <1>1, <1>2, <1>3, <3>1 DEF RbiInv, NothingOutdated
  <2> QED BY <1>1, <2>1 DEF RbiInv, NothingOutdated, Floor, Current
<1>9. CacheTrue'
  BY <1>1, <1>3 DEF RbiInv, CacheTrue
<1>10. IndexTrue'
  BY <1>1, <1>3, <1>4 DEF RbiInv, IndexTrue, Indexed
<1>11. Merging' /\ Merged'
  BY <1>1, <1>3, <1>4 DEF RbiInv, Merging, Merged, Current, Awaits, Has
<1> QED BY <1>5, <1>6, <1>7, <1>8, <1>9, <1>10, <1>11 DEF RbiInv

LEMMA ReloadIndexKeeps ==
  ASSUME RbiInv, NEW p \in RbiFiles, ReloadIndex(p)
  PROVE  RbiInv'
<1>1. /\ in_server /\ reload.pc = "none" /\ p \in rbi_events
      /\ rbi_events' = rbi_events \ {p}
      /\ file_to_classes' = [file_to_classes EXCEPT ![p] = {}]
      /\ pending_files' = pending_files \ {p}
      /\ UNCHANGED <<in_server, rbi_disk, rbi_writes, index_materialized, file_cache,
                     slot_content, epoch, shapes, users, reloaded, racing>>
  BY DEF ReloadIndex, rbi_cache, rbi_history
<1>2. reload' \in Reloads /\ reload'.pc = "cache" /\ reload'.file = p
  <2>1. reload' = [pc |-> "cache", file |-> p, stamp |-> 0, classes |-> {}]
    BY DEF ReloadIndex, NoReload
  <2> QED BY <2>1, RbiConstants DEF Reloads, Epochs
<1>3. \A q \in RbiFiles : (Told(q))' => q # p /\ Told(q)
  BY <1>1, <1>2 DEF Told
<1>4. /\ file_to_classes' \in [RbiFiles -> SUBSET RbiClasses]
      /\ \A q \in RbiFiles : q # p => file_to_classes'[q] = file_to_classes[q]
  BY <1>1 DEF RbiInv, Types
<1>5. Types'
  BY <1>1, <1>2, <1>4 DEF RbiInv, Types, Coherent
<1>6. Counted'
  <2>1. /\ IsFiniteSet(rbi_events') /\ Cardinality(rbi_events') \in Nat
        /\ Cardinality(rbi_events) \in Nat
        /\ Cardinality(rbi_events') = Cardinality(rbi_events) - 1
    BY <1>1, FS_RemoveElement, FS_CardinalityType DEF RbiInv, Counted
  <2>2. rbi_writes \in Nat
    BY RbiConstants DEF RbiInv, Types, Epochs
  <2> QED BY <1>1, <1>2, <2>1, <2>2 DEF RbiInv, Counted
<1>7. OneBuilder' /\ EpochsPast' /\ SlotsApart'
  BY <1>1 DEF RbiInv, OneBuilder, Building, EpochsPast, SlotsApart
<1>8. NothingOutdated'
  <2>1. \A q \in RbiFiles : (Floor(q))' = Floor(q)
    BY <1>1, <1>2 DEF Floor
  <2> QED BY <1>1, <2>1 DEF RbiInv, NothingOutdated, Current
<1>9. CacheTrue'
  BY <1>1, <1>2 DEF RbiInv, CacheTrue
<1>10. IndexTrue'
  <2>1. \A q \in RbiFiles : q # p /\ (Indexed(q))' => Indexed(q)
    BY <1>1 DEF Indexed
  <2> QED BY <1>1, <1>2, <1>3, <1>4, <2>1 DEF RbiInv, IndexTrue
<1>11. Merging' /\ Merged'
  BY <1>1, <1>3 DEF RbiInv, Merging, Merged, Current, Awaits, Has
<1> QED BY <1>5, <1>6, <1>7, <1>8, <1>9, <1>10, <1>11 DEF RbiInv

LEMMA ReloadCacheKeeps ==
  ASSUME RbiInv, ReloadCache
  PROVE  RbiInv'
<1> DEFINE p == reload.file
<1>1. /\ reload.pc = "cache" /\ file_cache' = CacheRemove(file_cache, p)
      /\ UNCHANGED <<in_server, rbi_disk, rbi_writes, rbi_events, pending_files,
                     index_materialized, file_to_classes, slot_content, epoch, shapes, users,
                     reloaded, racing>>
  BY DEF ReloadCache, rbi_files, rbi_index, rbi_history
<1>2. p \in RbiFiles /\ reload \in Reloads /\ rbi_disk[p].stamp \in Epochs
  BY <1>1 DEF RbiInv, Types, Contents
<1>3. /\ reload' \in Reloads /\ reload'.pc = "shapes" /\ reload'.file = p
      /\ reload'.stamp = rbi_disk[p].stamp
  <2>1. reload' = [reload EXCEPT !.pc = "shapes", !.stamp = rbi_disk[p].stamp]
    BY DEF ReloadCache
  <2> QED BY <1>2, <2>1 DEF Reloads
<1>4. /\ file_cache' \in Caches /\ Coherent(file_cache)'
      /\ \A q \in RbiFiles : file_cache'.entries[q] =
                              IF q = p THEN NoSlot ELSE file_cache.entries[q]
  <2>1. /\ CacheRemove(file_cache, p) \in Caches /\ Coherent(CacheRemove(file_cache, p))
        /\ \A q \in RbiFiles : CacheRemove(file_cache, p).entries[q] =
                                IF q = p THEN NoSlot ELSE file_cache.entries[q]
    BY <1>2, RemoveCoherent DEF RbiInv, Types
  <2>2. Coherent(file_cache)' = Coherent(file_cache')
    BY DEF Coherent
  <2> QED BY <1>1, <2>1, <2>2
<1> HIDE DEF p
<1>5. Types'
  BY <1>1, <1>2, <1>3, <1>4 DEF RbiInv, Types
<1>6. Counted' /\ OneBuilder' /\ EpochsPast'
  BY <1>1, <1>3 DEF RbiInv, Counted, OneBuilder, Building, EpochsPast
<1>7. SlotsApart'
  BY <1>1, <1>4 DEF RbiInv, SlotsApart
<1>8. \A q \in RbiFiles : (Told(q))' <=> Told(q)
  BY <1>1, <1>3 DEF Told, p
<1>9. NothingOutdated'
  <2>1. \A q \in RbiFiles : (Floor(q))' = (IF q = p THEN rbi_disk[p].stamp ELSE reloaded[q])
                            /\ Floor(q) = reloaded[q]
    BY <1>1, <1>3 DEF Floor, p
  <2>2. rbi_disk[p].stamp \in Nat
    BY <1>2 DEF Epochs
  <2>3. \A q \in RbiFiles : /\ rbi_disk'[q].stamp <= rbi_writes'
                            /\ reloaded'[q] <= (Floor(q))' /\ (Floor(q))' <= rbi_disk'[q].stamp
    BY <1>1, <2>1, <2>2 DEF RbiInv, NothingOutdated
  <2>4. \A q \in RbiFiles :
          LET s == file_cache'.entries[q] IN
          s # NoSlot /\ slot_content'[s].set => slot_content'[s].stamp >= (Floor(q))'
    BY <1>1, <1>4, <2>1 DEF RbiInv, NothingOutdated
  <2> QED BY <1>1, <2>3, <2>4 DEF RbiInv, NothingOutdated, Current
<1>10. CacheTrue'
  BY <1>1, <1>3, <1>4 DEF RbiInv, CacheTrue, p
<1>11. IndexTrue'
  BY <1>1, <1>3, <1>8 DEF RbiInv, IndexTrue, Indexed
<1>12. Merging' /\ Merged'
  BY <1>1, <1>8 DEF RbiInv, Merging, Merged, Current, Awaits, Has
<1> QED BY <1>5, <1>6, <1>7, <1>9, <1>10, <1>11, <1>12 DEF RbiInv

LEMMA ReloadShapesKeeps ==
  ASSUME RbiInv, ReloadShapes
  PROVE  RbiInv'
<1> DEFINE p == reload.file
<1>1. /\ reload.pc = "shapes" /\ epoch' = epoch + 1
      /\ reloaded' = [reloaded EXCEPT ![p] = reload.stamp]
      /\ UNCHANGED <<in_server, rbi_disk, rbi_writes, rbi_events, pending_files,
                     index_materialized, file_to_classes, file_cache, slot_content, shapes,
                     users, racing>>
  BY DEF ReloadShapes, rbi_files, rbi_index, rbi_cache
<1>2. p \in RbiFiles /\ reload \in Reloads /\ reload.stamp \in Epochs /\ epoch \in Nat
  BY <1>1 DEF RbiInv, Types, Counted, Reloads
<1>3. /\ reload' \in Reloads /\ reload'.pc = "read" /\ reload'.file = p
  <2>1. reload' = [reload EXCEPT !.pc = "read"]
    BY DEF ReloadShapes
  <2> QED BY <1>2, <2>1 DEF Reloads
<1>4. /\ reloaded' \in [RbiFiles -> Epochs]
      /\ \A q \in RbiFiles : reloaded'[q] = Floor(q) /\ (Floor(q))' = Floor(q)
  BY <1>1, <1>2, <1>3 DEF RbiInv, Types, Floor
<1>5. /\ \A s \in Slots : s[2] \in Nat
      /\ \A s \in Slots : s[2] = epoch' => shapes[s] = NewShape
      /\ \A t \in RbiThreads : ~(Current(t))'
  <2>1. \A s \in Slots : s[2] \in Nat
    BY RbiConstants DEF Slots, Epochs
  <2>2. \A s \in Slots : s[2] = epoch' => shapes[s] = NewShape
    BY <1>1, <1>2, <2>1 DEF RbiInv, EpochsPast
  <2>3. ASSUME NEW t \in RbiThreads, users[t].pc # "idle"
        PROVE  users[t].slot[2] # epoch'
    <3>1. users[t].slot[2] \in Nat /\ users[t].slot[2] <= epoch
      BY <2>1, <2>3 DEF RbiInv, Types, WorkOK, EpochsPast
    <3> QED BY <1>1, <1>2, <3>1
  <2> QED BY <1>1, <2>1, <2>2, <2>3 DEF Current
<1> HIDE DEF p
<1>6. Types'
  BY <1>1, <1>2, <1>3, <1>4 DEF RbiInv, Types, Coherent
<1>7. Counted'
  <2>1. Cardinality(rbi_events) \in Nat
    BY FS_CardinalityType DEF RbiInv, Counted
  <2> QED BY <1>1, <1>2, <1>3, <2>1 DEF RbiInv, Counted
<1>8. OneBuilder' /\ SlotsApart'
  BY <1>1 DEF RbiInv, OneBuilder, Building, SlotsApart
<1>9. EpochsPast'
  <2>1. ASSUME NEW t \in RbiThreads, users[t].pc # "idle"
        PROVE  users[t].slot[2] <= epoch'
    <3>1. users[t].slot[2] \in Nat /\ users[t].slot[2] <= epoch
      BY <1>5, <2>1 DEF RbiInv, Types, WorkOK, EpochsPast
    <3> QED BY <1>1, <1>2, <3>1
  <2>2. \A s \in Slots : s[2] > epoch' => s[2] > epoch
    BY <1>1, <1>2, <1>5
  <2> QED BY <1>1, <2>1, <2>2 DEF RbiInv, EpochsPast
<1>10. NothingOutdated'
  <2>1. \A q \in RbiFiles : Floor(q) \in Nat
    BY DEF RbiInv, Types, Epochs, Reloads, Floor
  <2> QED BY <1>1, <1>4, <1>5, <2>1 DEF RbiInv, NothingOutdated, NewShape
<1>11. CacheTrue'
  BY <1>1, <1>3 DEF RbiInv, CacheTrue
<1>12. IndexTrue'
  BY <1>1, <1>3 DEF RbiInv, IndexTrue, Told, Indexed, p
<1>13. Merging' /\ Merged'
  BY <1>1, <1>5 DEF Merging, Merged, NewShape
<1> QED BY <1>6, <1>7, <1>8, <1>9, <1>10, <1>11, <1>12, <1>13 DEF RbiInv

LEMMA ReloadReadKeeps ==
  ASSUME RbiInv, ReloadRead
  PROVE  RbiInv'
<1> DEFINE p == reload.file
<1>1. /\ reload.pc = "read"
      /\ UNCHANGED <<in_server, rbi_disk, rbi_writes, rbi_events, pending_files,
                     index_materialized, file_to_classes, file_cache, slot_content, epoch,
                     shapes, users, reloaded, racing>>
  BY DEF ReloadRead, rbi_files, rbi_index, rbi_cache, rbi_history
<1>2. p \in RbiFiles /\ reload \in Reloads /\ rbi_disk[p].classes \in SUBSET RbiClasses
  BY <1>1 DEF RbiInv, Types, Contents
<1>3. /\ reload' \in Reloads /\ reload'.pc = "insert" /\ reload'.file = p
      /\ reload'.classes = rbi_disk[p].classes
  <2>1. reload' = [reload EXCEPT !.pc = "insert", !.classes = rbi_disk[p].classes]
    BY DEF ReloadRead
  <2> QED BY <1>2, <2>1 DEF Reloads
<1> HIDE DEF p
<1>4. \A q \in RbiFiles : ((Told(q))' <=> Told(q)) /\ (Floor(q))' = Floor(q)
  BY <1>1, <1>3 DEF Told, Floor
<1>5. Types' /\ Counted' /\ OneBuilder' /\ EpochsPast' /\ SlotsApart'
  BY <1>1, <1>2, <1>3
     DEF RbiInv, Types, Counted, OneBuilder, Building, EpochsPast, SlotsApart, Coherent
<1>6. NothingOutdated'
  BY <1>1, <1>4 DEF RbiInv, NothingOutdated, Current
<1>7. CacheTrue'
  BY <1>1, <1>3 DEF RbiInv, CacheTrue
<1>8. IndexTrue'
  BY <1>1, <1>3, <1>4 DEF RbiInv, IndexTrue, Indexed, p
<1>9. Merging' /\ Merged'
  BY <1>1, <1>4 DEF RbiInv, Merging, Merged, Current, Awaits, Has
<1> QED BY <1>5, <1>6, <1>7, <1>8, <1>9 DEF RbiInv

LEMMA ReloadInsertKeeps ==
  ASSUME RbiInv, ReloadInsert
  PROVE  RbiInv'
<1> DEFINE p == reload.file
<1>1. /\ reload.pc = "insert"
      /\ file_to_classes' = [file_to_classes EXCEPT ![p] = reload.classes]
      /\ UNCHANGED <<in_server, rbi_disk, rbi_writes, rbi_events, pending_files,
                     index_materialized, file_cache, slot_content, epoch, shapes, users,
                     reloaded, racing>>
  BY DEF ReloadInsert, rbi_files, rbi_cache, rbi_history
<1>2. p \in RbiFiles /\ reload.classes \in SUBSET RbiClasses
  BY <1>1 DEF RbiInv, Types, Reloads
<1>3. reload' \in Reloads /\ reload'.pc = "none"
  BY RbiConstants DEF ReloadInsert, NoReload, Reloads, Epochs
<1>4. \A q \in RbiFiles : ((Told(q))' <=> Told(q)) /\ (Floor(q))' = Floor(q)
  BY <1>1, <1>3 DEF Told, Floor
<1>5. /\ file_to_classes' \in [RbiFiles -> SUBSET RbiClasses]
      /\ file_to_classes'[p] = reload.classes
      /\ \A q \in RbiFiles : q # p => file_to_classes'[q] = file_to_classes[q]
  BY <1>1, <1>2 DEF RbiInv, Types
<1>6. Types' /\ Counted' /\ OneBuilder' /\ EpochsPast' /\ SlotsApart'
  BY <1>1, <1>3, <1>5
     DEF RbiInv, Types, Counted, OneBuilder, Building, EpochsPast, SlotsApart, Coherent
<1>7. NothingOutdated'
  BY <1>1, <1>4 DEF RbiInv, NothingOutdated, Current
<1>8. CacheTrue'
  BY <1>1, <1>3 DEF RbiInv, CacheTrue
<1>9. IndexTrue'
  BY <1>1, <1>3, <1>4, <1>5 DEF RbiInv, IndexTrue, Indexed, Told
<1>10. Merging' /\ Merged'
  BY <1>1, <1>4 DEF RbiInv, Merging, Merged, Current, Awaits, Has
<1> QED BY <1>6, <1>7, <1>8, <1>9, <1>10 DEF RbiInv

-----------------------------------------------------------------------------
(* The theorems. *)

LEMMA InitRbiInv == RbiInit => RbiInv
<1> SUFFICES ASSUME RbiInit PROVE RbiInv
  OBVIOUS
<1>1. PICK declared \in [RbiFiles -> SUBSET RbiClasses] :
        /\ rbi_disk = [p \in RbiFiles |-> Content(0, declared[p])]
        /\ \/ in_server /\ pending_files = {} /\ file_to_classes = declared
           \/ /\ ~in_server /\ pending_files = RbiFiles
              /\ file_to_classes = [p \in RbiFiles |-> {}]
  BY DEF RbiInit
<1>2. 0 \in Epochs
  BY RbiConstants DEF Epochs
<1>3. /\ rbi_disk \in [RbiFiles -> Contents]
      /\ \A p \in RbiFiles : /\ rbi_disk[p].set /\ rbi_disk[p].stamp = 0
                             /\ rbi_disk[p].classes = declared[p]
  <2>1. ASSUME NEW p \in RbiFiles
        PROVE  /\ Content(0, declared[p]) \in Contents /\ Content(0, declared[p]).set
               /\ Content(0, declared[p]).stamp = 0
               /\ Content(0, declared[p]).classes = declared[p]
    BY <1>2 DEF Content, Contents
  <2> QED BY <1>1, <2>1
<1>4. /\ Unset \in Contents /\ ~Unset.set
      /\ NewShape \in Shapes /\ NewShape.parts = {} /\ NewShape.state = "new"
      /\ Resting \in Works /\ WorkOK(Resting) /\ Resting.pc = "idle" /\ Resting.fslot = NoSlot
      /\ NoReload \in Reloads /\ NoReload.pc = "none"
  BY <1>2 DEF Unset, Contents, NewShape, Shapes, Resting, Works, WorkOK, NoReload, Reloads
<1>5. /\ EmptyCache \in Caches /\ Coherent(EmptyCache)
      /\ \A p \in RbiFiles : EmptyCache.entries[p] = NoSlot
  BY EmptyCoherent DEF EmptyCache
<1>6. Types
  <2>1. file_to_classes \in [RbiFiles -> SUBSET RbiClasses] /\ pending_files \in SUBSET RbiFiles
    BY <1>1
  <2> QED BY <1>2, <1>3, <1>4, <1>5, <2>1 DEF RbiInit, Types, Slots
<1>7. Counted
  <2>1. IsFiniteSet({}) /\ Cardinality({}) = 0
    BY FS_EmptySet
  <2> QED BY <1>4, <2>1 DEF RbiInit, Counted
<1>8. OneBuilder
  BY <1>4 DEF RbiInit, OneBuilder, Building, Slots
<1>9. EpochsPast
  BY <1>4 DEF RbiInit, EpochsPast, Slots
<1>10. SlotsApart
  BY <1>4, <1>5 DEF RbiInit, SlotsApart
<1>11. NothingOutdated
  BY <1>3, <1>4, <1>5 DEF RbiInit, NothingOutdated, Floor, Current, Slots
<1>12. CacheTrue
  BY <1>5 DEF RbiInit, CacheTrue
<1>13. IndexTrue
  BY <1>1, <1>3, <1>4 DEF RbiInit, IndexTrue, Indexed
<1>14. Merging /\ Merged
  BY <1>4 DEF RbiInit, Merging, Merged, Current, Slots
<1> QED BY <1>6, <1>7, <1>8, <1>9, <1>10, <1>11, <1>12, <1>13, <1>14 DEF RbiInv

LEMMA StepRbiInv == RbiInv /\ [RbiNext]_rbiVars => RbiInv'
<1> SUFFICES ASSUME RbiInv, [RbiNext]_rbiVars PROVE RbiInv'
  OBVIOUS
<1>1. ASSUME NEW p \in RbiFiles, NEW classes \in SUBSET RbiClasses, RbiWrite(p, classes)
      PROVE  RbiInv'
  BY <1>1, RbiWriteKeeps
<1>2. ASSUME NEW t \in RbiThreads, NEW class \in RbiClasses, TakeShapeSlot(t, class)
      PROVE  RbiInv'
  BY <1>2, TakeShapeSlotKeeps
<1>3. ASSUME NEW t \in RbiThreads, UseShapeSlot(t) PROVE RbiInv'
  BY <1>3, UseShapeSlotKeeps
<1>4. ASSUME NEW t \in RbiThreads, TakePending(t) PROVE RbiInv'
  BY <1>4, TakePendingKeeps
<1>5. ASSUME NEW t \in RbiThreads, IndexPending(t) PROVE RbiInv'
  BY <1>5, IndexPendingKeeps
<1>6. ASSUME NEW t \in RbiThreads, LookUp(t) PROVE RbiInv'
  BY <1>6, LookUpKeeps
<1>7. ASSUME NEW t \in RbiThreads, NEW p \in RbiFiles, TakeFileSlot(t, p) PROVE RbiInv'
  BY <1>7, TakeFileSlotKeeps
<1>8. ASSUME NEW t \in RbiThreads, ParseFile(t) PROVE RbiInv'
  BY <1>8, ParseFileKeeps
<1>9. ASSUME NEW t \in RbiThreads, SetShape(t) PROVE RbiInv'
  BY <1>9, SetShapeKeeps
<1>10. ASSUME NEW p \in RbiFiles, ReloadIndex(p) PROVE RbiInv'
  BY <1>10, ReloadIndexKeeps
<1>11. CASE ReloadCache
  BY <1>11, ReloadCacheKeeps
<1>12. CASE ReloadShapes
  BY <1>12, ReloadShapesKeeps
<1>13. CASE ReloadRead
  BY <1>13, ReloadReadKeeps
<1>14. CASE ReloadInsert
  BY <1>14, ReloadInsertKeeps
<1>15. CASE UNCHANGED rbiVars
  BY <1>15 DEF rbiVars, rbi_files, RbiInv, Types, Coherent, Counted, OneBuilder, Building,
               EpochsPast, SlotsApart, NothingOutdated, Floor, Current, CacheTrue, IndexTrue,
               Told, Indexed, Merging, Merged, Awaits, Has
<1> QED BY <1>1, <1>2, <1>3, <1>4, <1>5, <1>6, <1>7, <1>8, <1>9, <1>10, <1>11, <1>12,
           <1>13, <1>14, <1>15 DEF RbiNext

\* The inductive invariant of the loader.
THEOREM RbiInvariance == RbiSpec => []RbiInv
BY InitRbiInv, StepRbiInv, PTL DEF RbiSpec

\* Types; and an index or a shape that is being built has exactly one thread that builds it.
THEOREM RbiTypeCorrect == RbiSpec => []RbiTypeOK
<1>1. RbiInv => RbiTypeOK
  <2> SUFFICES ASSUME RbiInv PROVE RbiTypeOK
    OBVIOUS
  <2>1. epoch \in Epochs
    <3>1. Cardinality(rbi_events) \in Nat
      BY FS_CardinalityType DEF RbiInv, Counted
    <3> QED BY <3>1, RbiConstants DEF RbiInv, Counted, Types, Epochs
  <2>2. ASSUME NEW s \in RbiClasses \X Epochs
        PROVE  LET builders == {t \in RbiThreads :
                                  users[t].slot = s /\ users[t].pc \notin {"idle", "slot"}}
               IN Cardinality(builders) = IF shapes[s].state = "building" THEN 1 ELSE 0
    <3> DEFINE builders == {t \in RbiThreads : Building(t, s)}
    <3>1. CASE shapes[s].state = "building"
      <4>1. PICK t \in RbiThreads : Building(t, s)
        BY <3>1 DEF RbiInv, OneBuilder, Slots
      <4>2. builders = {t}
        BY <4>1 DEF RbiInv, OneBuilder, Slots
      <4>3. Cardinality({t}) = 1
        BY FS_Singleton
      <4> QED BY <3>1, <4>2, <4>3 DEF Building
    <3>2. CASE shapes[s].state # "building"
      <4>1. builders = {}
        BY <3>2 DEF RbiInv, OneBuilder, Slots
      <4>2. Cardinality({}) = 0
        BY FS_EmptySet
      <4> QED BY <3>2, <4>1, <4>2 DEF Building
    <3> QED BY <3>1, <3>2
  <2> QED BY <2>1, <2>2 DEF RbiInv, Types, OneBuilder, RbiTypeOK, Caches, Shapes, Slots
<1> QED BY <1>1, RbiInvariance, PTL

\* No cached shape is merged from a content older than the last reload of its file.
THEOREM ShapesUpToDate == RbiSpec => []NoShapeOutdated
<1>1. RbiInv => NoShapeOutdated
  <2> SUFFICES ASSUME RbiInv, NEW class \in RbiClasses
               PROVE  \A part \in CachedShape(class).parts : part[2] >= reloaded[part[1]]
    BY DEF NoShapeOutdated
  <2>1. <<class, epoch>> \in Slots /\ <<class, epoch>>[2] = epoch
    <3>1. Cardinality(rbi_events) \in Nat
      BY FS_CardinalityType DEF RbiInv, Counted
    <3> QED BY <3>1, RbiConstants DEF RbiInv, Counted, Types, Epochs, Slots
  <2> QED BY <2>1 DEF RbiInv, NothingOutdated, CachedShape
<1> QED BY <1>1, RbiInvariance, PTL

\* A cached shape whose files nobody looked up during a reload has all that its files declare,
\* once no change is on the way.
LEMMA WholeWhenTold ==
  ASSUME RbiInv, NEW class \in RbiClasses, \A p \in RbiFiles : Told(p),
         CachedShape(class).state = "set", <<class, epoch>> \notin racing
  PROVE  CachedShape(class).parts = Declared(class)
<1> DEFINE s == <<class, epoch>>
           parts == shapes[s].parts
<1>1. s \in Slots /\ s[1] = class /\ s[2] = epoch
  <2>1. Cardinality(rbi_events) \in Nat
    BY FS_CardinalityType DEF RbiInv, Counted
  <2> QED BY <2>1, RbiConstants DEF RbiInv, Counted, Types, Epochs, Slots
<1>2. parts \in SUBSET (RbiFiles \X Epochs) /\ \A p \in RbiFiles : rbi_disk[p].stamp \in Epochs
  BY <1>1 DEF RbiInv, Types, Shapes, Contents
<1> HIDE DEF s
<1>3. \A p \in RbiFiles : Has(parts, class, p)
  BY <1>1 DEF RbiInv, Merged, CachedShape, s
<1> HIDE DEF parts
<1>4. ASSUME NEW part \in parts PROVE part \in Declared(class)
  <2>1. PICK p \in RbiFiles, n \in Epochs : part = <<p, n>>
    BY <1>2
  <2>2. class \in rbi_disk[p].classes /\ n = rbi_disk[p].stamp
    BY <1>3, <2>1 DEF Has
  <2> QED BY <2>1, <2>2 DEF Declared
<1>5. ASSUME NEW part \in Declared(class) PROVE part \in parts
  <2>1. PICK p \in RbiFiles : part = <<p, rbi_disk[p].stamp>> /\ class \in rbi_disk[p].classes
    BY DEF Declared
  <2> QED BY <1>2, <1>3, <2>1 DEF Has
<1>6. parts = Declared(class)
  BY <1>4, <1>5
<1> QED BY <1>6 DEF CachedShape, parts, s

\* The threads that come first find every file that declares the class, although one of them
\* still fills the index.
THEOREM FirstShapesCorrect == RbiSpec => []FirstShapesWhole
<1>1. RbiInv => FirstShapesWhole
  <2> SUFFICES ASSUME RbiInv, rbi_writes = 0, NEW class \in RbiClasses,
                      CachedShape(class).state = "set"
               PROVE  CachedShape(class).parts = Declared(class)
    BY DEF FirstShapesWhole
  <2>1. Cardinality(rbi_events) = 0 /\ reload.pc = "none" /\ racing = {}
    <3>1. Cardinality(rbi_events) \in Nat
      BY FS_CardinalityType DEF RbiInv, Counted
    <3> QED BY <3>1 DEF RbiInv, Counted
  <2>2. rbi_events = {}
    BY <2>1, FS_EmptySet DEF RbiInv, Counted
  <2>3. \A p \in RbiFiles : Told(p)
    BY <2>1, <2>2 DEF Told
  <2> QED BY <2>1, <2>3, WholeWhenTold
<1> QED BY <1>1, RbiInvariance, PTL

\* Once the changes are handled, a cached shape is merged from all the files that declare the
\* class, as they are, unless its files were looked up in the middle of a reload.
THEOREM QuietShapesCorrect == RbiSpec => []ShapesWholeOutsideReload
<1>1. RbiInv => ShapesWholeOutsideReload
  <2> SUFFICES ASSUME RbiInv, RbiQuiet, NEW class \in RbiClasses,
                      CachedShape(class).state = "set", <<class, epoch>> \notin racing
               PROVE  CachedShape(class).parts = Declared(class)
    BY DEF ShapesWholeOutsideReload
  <2>1. \A p \in RbiFiles : Told(p)
    BY DEF RbiQuiet, Told
  <2> QED BY <2>1, WholeWhenTold
<1> QED BY <1>1, RbiInvariance, PTL

\* The order of the file cache names exactly the files it holds, once each, and they are
\* never more than its cap.
THEOREM FileCacheCorrect == RbiSpec => []FileCacheCoherent
<1>1. RbiInv => FileCacheCoherent
  BY DEF RbiInv, Types, FileCacheCoherent
<1> QED BY <1>1, RbiInvariance, PTL

-----------------------------------------------------------------------------
(* The declarations of `.rbs` files. *)

Known(p) == p \notin rbs_events

\* A declaration of a file, as it is in the registry, is of a class recorded for the file, and
\* true when the file is known.
TrueOf(class, p, n) ==
  /\ class \in type_file_classes[p]
  /\ Known(p) => class \in rbs_disk[p].classes /\ n = rbs_stamp[p]

NothingFalse ==
  \A class \in RbsClasses, p \in RbsFiles, n \in Nat :
    /\ <<p, n>> \in user_methods[class] => TrueOf(class, p, n)
    /\ class \notin user_defined /\ <<p, n>> \in user_classes[class] => TrueOf(class, p, n)

\* The classes recorded are those of the file when it is known, and of some file ever.
Recorded ==
  \A p \in RbsFiles :
    /\ Known(p) => type_file_classes[p] = rbs_disk[p].classes
    /\ \A class \in RbsClasses :
         class \in type_file_classes[p] \/ class \in rbs_disk[p].classes => p \in sharers[class]
    /\ \A name \in rbs_disk[p].names : p \in sharers[name]

\* A declaration of a known file is missing only from a class that another file shares.
NothingMissing ==
  \A class \in RbsClasses, p \in RbsFiles :
    Known(p) /\ class \in rbs_disk[p].classes =>
      \/ <<p, rbs_stamp[p]>> \in user_methods[class] \intersect user_classes[class]
      \/ \E q \in sharers[class] : q # p

\* A name that a known file declares is there, and the file's, unless another file shares it.
NamesKnown ==
  \A name \in RbsNames, p \in RbsFiles :
    Known(p) /\ name \in rbs_disk[p].names =>
      \/ /\ user_names[name] # {}
         /\ name \notin RbsAliases => user_names[name] = {<<p, rbs_stamp[p]>>}
      \/ \E q \in sharers[name] : q # p

RbsInv == RbsTypeOK /\ NothingFalse /\ Recorded /\ NothingMissing /\ NamesKnown

-----------------------------------------------------------------------------
(* The theorems. *)

\* What a file can declare.
LEMMA ContentTypes ==
  ASSUME NEW content \in RbsContents
  PROVE  /\ content.classes \in SUBSET RbsClasses /\ content.lasting \in SUBSET RbsClasses
         /\ content.names \in SUBSET RbsNames
BY RbsConstants

LEMMA InitRbsInv == RbsInit => RbsInv
<1> SUFFICES ASSUME RbsInit PROVE RbsInv
  OBVIOUS
<1> USE RbsConstants
<1>1. \A p \in RbsFiles :
        /\ rbs_disk[p] \in RbsContents /\ rbs_stamp[p] = 0 /\ Known(p)
        /\ type_file_classes[p] = rbs_disk[p].classes
  BY DEF RbsInit, Known
<1>2. \A class \in RbsClasses :
        /\ OnDiskFor(class) \in SUBSET (RbsFiles \X (0 .. 0))
        /\ \A p \in RbsFiles, n \in Nat :
             <<p, n>> \in OnDiskFor(class) <=> class \in rbs_disk[p].classes /\ n = rbs_stamp[p]
  BY <1>1 DEF OnDiskFor, DeclarationIn
<1>3. \A class \in RbsClasses :
        user_methods[class] = OnDiskFor(class) /\ user_classes[class] = OnDiskFor(class)
  BY DEF RbsInit
<1>4. \A name \in RbsNames :
        /\ NamedOnDisk(name) \in SUBSET (RbsFiles \X (0 .. 0))
        /\ \A p \in RbsFiles : name \in rbs_disk[p].names => DeclarationIn(p) \in NamedOnDisk(name)
  BY <1>1 DEF NamedOnDisk, DeclarationIn
<1>5. PICK last \in [RbsNames -> RbsFiles] :
        /\ \A name \in RbsNames :
             NamedOnDisk(name) # {} => DeclarationIn(last[name]) \in NamedOnDisk(name)
        /\ user_names = [name \in RbsNames |->
             NamedOnDisk(name) \intersect {DeclarationIn(last[name])}]
  BY DEF RbsInit
<1>6. RbsTypeOK
  <2>1. user_methods \in [RbsClasses -> SUBSET RbsDeclarations]
        /\ user_classes \in [RbsClasses -> SUBSET RbsDeclarations]
    BY <1>2 DEF RbsInit, RbsDeclarations
  <2>2. user_names \in [RbsNames -> SUBSET RbsDeclarations]
    BY <1>4, <1>5 DEF RbsInit, RbsDeclarations
  <2>3. user_defined \in SUBSET RbsClasses
    BY <1>1, ContentTypes DEF RbsInit
  <2>4. type_file_classes \in [RbsFiles -> SUBSET RbsClasses]
    BY <1>1, ContentTypes DEF RbsInit
  <2> QED BY <2>1, <2>2, <2>3, <2>4 DEF RbsInit, RbsTypeOK
<1>7. NothingFalse
  <2> SUFFICES ASSUME NEW class \in RbsClasses, NEW p \in RbsFiles, NEW n \in Nat,
                      <<p, n>> \in OnDiskFor(class)
               PROVE  TrueOf(class, p, n)
    BY <1>3 DEF NothingFalse
  <2>1. class \in rbs_disk[p].classes /\ n = rbs_stamp[p]
    BY <1>2
  <2> QED BY <1>1, <2>1 DEF TrueOf
<1>8. Recorded
  <2>1. \A p \in RbsFiles : \A it \in Declares(rbs_disk[p]) : p \in sharers[it]
    BY <1>1, ContentTypes DEF RbsInit, Declares
  <2> QED BY <1>1, <2>1 DEF Recorded, Declares
<1>9. NothingMissing
  BY <1>1, <1>2, <1>3 DEF NothingMissing
<1>10. NamesKnown
  <2> SUFFICES ASSUME NEW name \in RbsNames, NEW p \in RbsFiles, name \in rbs_disk[p].names,
                      ~ \E q \in sharers[name] : q # p
               PROVE  user_names[name] = {<<p, rbs_stamp[p]>>}
    BY DEF NamesKnown
  <2>1. NamedOnDisk(name) = {DeclarationIn(p)}
    <3>1. \A q \in RbsFiles : name \in rbs_disk[q].names => q \in sharers[name]
      BY DEF RbsInit, Declares
    <3> QED BY <3>1 DEF NamedOnDisk
  <2> QED BY <1>5, <2>1 DEF DeclarationIn
<1> QED BY <1>6, <1>7, <1>8, <1>9, <1>10 DEF RbsInv

LEMMA RbsWriteTypes ==
  ASSUME RbsTypeOK, NEW p \in RbsFiles, NEW content \in RbsContents, RbsWrite(p, content)
  PROVE  RbsTypeOK'
<1> USE RbsConstants
<1>1. rbs_writes' \in 0 .. MaxRbsWrites /\ rbs_writes' = rbs_writes + 1 /\ rbs_writes \in Nat
  BY DEF RbsWrite, RbsTypeOK
<1>2. 0 .. rbs_writes \subseteq 0 .. rbs_writes'
  BY <1>1
<1>3. RbsDeclarations \subseteq RbsDeclarations'
  BY <1>2 DEF RbsDeclarations
<1>4. rbs_stamp' \in [RbsFiles -> 0 .. rbs_writes'] /\ rbs_disk' \in [RbsFiles -> RbsContents]
  BY <1>1, <1>2 DEF RbsWrite, RbsTypeOK
<1>5. /\ user_methods' \in [RbsClasses -> SUBSET RbsDeclarations']
      /\ user_classes' \in [RbsClasses -> SUBSET RbsDeclarations']
      /\ user_names' \in [RbsNames -> SUBSET RbsDeclarations']
  BY <1>3 DEF RbsWrite, RbsTypeOK
<1>6. sharers' \in [RbsClasses \union RbsNames -> SUBSET RbsFiles]
  BY DEF RbsWrite, RbsTypeOK
<1> QED BY <1>1, <1>4, <1>5, <1>6 DEF RbsWrite, RbsTypeOK, RbsDeclarations

\* A write makes the file one that has something to tell.
LEMMA RbsWriteKeeps ==
  ASSUME RbsInv, NEW p \in RbsFiles, NEW content \in RbsContents, RbsWrite(p, content)
  PROVE  RbsInv'
<1>1. RbsTypeOK'
  BY RbsWriteTypes DEF RbsInv
<1>2. \A q \in RbsFiles : q # p => rbs_disk'[q] = rbs_disk[q] /\ rbs_stamp'[q] = rbs_stamp[q]
  BY DEF RbsWrite, RbsInv, RbsTypeOK
<1>3. \A q \in RbsFiles : Known(q)' => q # p /\ Known(q)
  BY DEF RbsWrite, Known
<1>4. \A it \in RbsClasses \union RbsNames : sharers[it] \subseteq sharers'[it]
  BY DEF RbsWrite, RbsInv, RbsTypeOK
<1>5. NothingFalse'
  BY <1>2, <1>3 DEF RbsWrite, RbsInv, NothingFalse, TrueOf
<1>6. Recorded'
  <2>1. rbs_disk'[p] = content
    BY DEF RbsWrite, RbsInv, RbsTypeOK
  <2>2. \A it \in Declares(content) : p \in sharers'[it]
    BY ContentTypes DEF RbsWrite, Declares
  <2>3. ASSUME NEW q \in RbsFiles
        PROVE  /\ Known(q)' => type_file_classes'[q] = rbs_disk'[q].classes
               /\ \A class \in RbsClasses :
                    class \in type_file_classes'[q] \/ class \in rbs_disk'[q].classes
                      => q \in sharers'[class]
               /\ \A name \in rbs_disk'[q].names : q \in sharers'[name]
    <3>1. type_file_classes' = type_file_classes
      BY DEF RbsWrite
    <3>2. rbs_disk[q].names \subseteq RbsNames
      BY ContentTypes DEF RbsInv, RbsTypeOK
    <3>3. CASE q = p
      BY <1>3, <1>4, <2>1, <2>2, <3>1, <3>3 DEF RbsInv, Recorded, Declares
    <3>4. CASE q # p
      BY <1>2, <1>3, <1>4, <3>1, <3>2, <3>4 DEF RbsInv, Recorded
    <3> QED BY <3>3, <3>4
  <2> QED BY <2>3 DEF Recorded
<1>7. NothingMissing'
  BY <1>2, <1>3, <1>4 DEF RbsWrite, RbsInv, NothingMissing
<1>8. NamesKnown'
  BY <1>2, <1>3, <1>4 DEF RbsWrite, RbsInv, NamesKnown
<1> QED BY <1>1, <1>5, <1>6, <1>7, <1>8 DEF RbsInv

\* A reload takes out what it knows of the file, and what other files say of those classes.
LEMMA RbsReloadKeeps ==
  ASSUME RbsInv, NEW p \in RbsFiles, RbsReload(p)
  PROVE  RbsInv'
<1> USE DEF Cut
<1>1. /\ rbs_disk[p] \in RbsContents /\ rbs_stamp[p] \in 0 .. rbs_writes
      /\ rbs_disk[p].classes \in SUBSET RbsClasses /\ rbs_disk[p].lasting \in SUBSET RbsClasses
      /\ UNCHANGED <<rbs_disk, rbs_stamp, rbs_writes, sharers>>
  BY ContentTypes DEF RbsReload, RbsInv, RbsTypeOK
<1>2. \A class \in RbsClasses :
        Loaded(p, class) = {d \in {<<p, rbs_stamp[p]>>} : class \in rbs_disk[p].classes}
  BY DEF Loaded, DeclarationIn
<1>3. RbsTypeOK'
  <2>1. type_file_classes' \in [RbsFiles -> SUBSET RbsClasses]
    BY <1>1 DEF RbsReload, RbsInv, RbsTypeOK
  <2>2. DeclarationIn(p) \in RbsDeclarations /\ RbsDeclarations' = RbsDeclarations
    BY <1>1 DEF RbsDeclarations, DeclarationIn
  <2>3. /\ user_methods' \in [RbsClasses -> SUBSET RbsDeclarations]
        /\ user_classes' \in [RbsClasses -> SUBSET RbsDeclarations]
    BY <2>2 DEF RbsReload, RbsInv, RbsTypeOK, Loaded
  <2>4. user_names' \in [RbsNames -> SUBSET RbsDeclarations]
    BY <2>2 DEF RbsReload, RbsInv, RbsTypeOK
  <2>5. user_defined' \in SUBSET RbsClasses /\ rbs_events' \in SUBSET RbsFiles
    BY <1>1 DEF RbsReload, RbsInv, RbsTypeOK
  <2> QED BY <1>1, <2>1, <2>2, <2>3, <2>4, <2>5 DEF RbsInv, RbsTypeOK
<1>4. \A q \in RbsFiles : Known(q)' <=> Known(q) \/ q = p
  BY DEF RbsReload, Known
<1>5. \A q \in RbsFiles :
        type_file_classes'[q] = IF q = p THEN rbs_disk[p].classes ELSE type_file_classes[q]
  BY DEF RbsReload, RbsInv, RbsTypeOK
<1>6. \A class \in RbsClasses, q \in RbsFiles, n \in Nat :
        /\ <<q, n>> \in user_methods'[class] <=>
             \/ class \notin type_file_classes[p] /\ <<q, n>> \in user_methods[class]
             \/ class \in rbs_disk[p].classes /\ q = p /\ n = rbs_stamp[p]
        /\ <<q, n>> \in user_classes'[class] <=>
             \/ /\ class \notin type_file_classes[p] \/ class \in user_defined
                /\ <<q, n>> \in user_classes[class]
             \/ class \in rbs_disk[p].classes /\ q = p /\ n = rbs_stamp[p]
  BY <1>2 DEF RbsReload
<1>7. user_defined \subseteq user_defined'
  BY DEF RbsReload
<1>8. NothingFalse'
  <2> SUFFICES ASSUME NEW class \in RbsClasses, NEW q \in RbsFiles, NEW n \in Nat
               PROVE  /\ <<q, n>> \in user_methods'[class] => TrueOf(class, q, n)'
                      /\ class \notin user_defined' /\ <<q, n>> \in user_classes'[class]
                           => TrueOf(class, q, n)'
    BY DEF NothingFalse
  <2>1. class \in rbs_disk[p].classes /\ q = p /\ n = rbs_stamp[p] => TrueOf(class, q, n)'
    BY <1>1, <1>5 DEF TrueOf
  <2>2. class \notin type_file_classes[p] /\ TrueOf(class, q, n) => TrueOf(class, q, n)'
    BY <1>1, <1>4, <1>5 DEF TrueOf
  <2>3. /\ <<q, n>> \in user_methods[class] => TrueOf(class, q, n)
        /\ class \notin user_defined /\ <<q, n>> \in user_classes[class]
             => TrueOf(class, q, n)
    BY DEF RbsInv, NothingFalse
  <2> QED BY <1>6, <1>7, <2>1, <2>2, <2>3
<1>9. Recorded'
  BY <1>1, <1>4, <1>5 DEF RbsInv, Recorded
<1>10. NothingMissing'
  <2> SUFFICES ASSUME NEW class \in RbsClasses, NEW q \in RbsFiles,
                      Known(q)', class \in rbs_disk[q].classes
               PROVE  \/ <<q, rbs_stamp[q]>> \in user_methods'[class] \intersect user_classes'[class]
                      \/ \E r \in sharers[class] : r # q
    BY <1>1 DEF NothingMissing
  <2>1. rbs_stamp[q] \in Nat
    BY DEF RbsInv, RbsTypeOK
  <2>2. CASE q = p
    BY <1>6, <2>1, <2>2
  <2>3. CASE q # p /\ class \in type_file_classes[p]
    BY <2>3 DEF RbsInv, Recorded
  <2>4. CASE q # p /\ class \notin type_file_classes[p]
    BY <1>4, <1>6, <2>1, <2>4 DEF RbsInv, NothingMissing
  <2> QED BY <2>2, <2>3, <2>4
<1>11. NamesKnown'
  <2> SUFFICES ASSUME NEW name \in RbsNames, NEW q \in RbsFiles,
                      Known(q)', name \in rbs_disk[q].names
               PROVE  \/ /\ user_names'[name] # {}
                         /\ name \notin RbsAliases => user_names'[name] = {<<q, rbs_stamp[q]>>}
                      \/ \E r \in sharers[name] : r # q
    BY <1>1 DEF NamesKnown
  <2>1. user_names'[name] = IF name \in rbs_disk[p].names /\ ~AliasKept(name)
                            THEN {<<p, rbs_stamp[p]>>} ELSE user_names[name]
    BY DEF RbsReload, DeclarationIn
  <2>2. CASE q = p
    BY <2>1, <2>2 DEF AliasKept
  <2>3. CASE q # p /\ name \in rbs_disk[p].names
    BY <2>3 DEF RbsInv, Recorded
  <2>4. CASE q # p /\ name \notin rbs_disk[p].names
    BY <1>4, <2>1, <2>4 DEF RbsInv, NamesKnown
  <2> QED BY <2>2, <2>3, <2>4
<1> QED BY <1>3, <1>8, <1>9, <1>10, <1>11 DEF RbsInv

LEMMA RbsInvariance == RbsSpec => []RbsInv
<1>1. ASSUME RbsInv, [RbsNext]_rbsVars PROVE RbsInv'
  <2>1. CASE UNCHANGED rbsVars
    BY <1>1, <2>1
       DEF rbsVars, RbsInv, RbsTypeOK, RbsDeclarations, NothingFalse, TrueOf, Recorded,
           NothingMissing, NamesKnown, Known
  <2> QED BY <1>1, <2>1, RbsWriteKeeps, RbsReloadKeeps DEF RbsNext
<1> QED BY InitRbsInv, <1>1, PTL DEF RbsSpec

-----------------------------------------------------------------------------
\* Every value stays in its range.
THEOREM RbsTypes == RbsSpec => []RbsTypeOK
<1>1. RbsInv => RbsTypeOK
  BY DEF RbsInv
<1> QED BY RbsInvariance, <1>1, PTL

\* Once every change of the `.rbs` files has been told, no method is a false one, nor is
\* anything of a class that was never marked as user defined, and what one file alone ever
\* declared is what that file declares, except that an alias can be what it once was.
THEOREM DeclarationsTrue == RbsSpec => []UserRbsTrue
<1>1. ASSUME RbsInv, rbs_events = {}, NEW class \in RbsClasses
      PROVE  /\ user_methods[class] \subseteq OnDiskFor(class)
             /\ class \notin user_defined => user_classes[class] \subseteq OnDiskFor(class)
             /\ Unshared(class) =>
                  OnDiskFor(class) \subseteq user_methods[class] \intersect user_classes[class]
  <2>1. \A p \in RbsFiles : Known(p)
    BY <1>1 DEF Known
  <2>2. /\ user_methods[class] \subseteq RbsFiles \X Nat
        /\ user_classes[class] \subseteq RbsFiles \X Nat
    BY <1>1 DEF RbsInv, RbsTypeOK, RbsDeclarations
  <2>3. ASSUME NEW p \in RbsFiles, NEW n \in Nat, TrueOf(class, p, n)
        PROVE  <<p, n>> \in OnDiskFor(class)
    BY <2>1, <2>3 DEF TrueOf, OnDiskFor, DeclarationIn
  <2>4. user_methods[class] \subseteq OnDiskFor(class)
    BY <1>1, <2>2, <2>3 DEF RbsInv, NothingFalse
  <2>5. class \notin user_defined => user_classes[class] \subseteq OnDiskFor(class)
    BY <1>1, <2>2, <2>3 DEF RbsInv, NothingFalse
  <2>6. ASSUME Unshared(class), NEW p \in RbsFiles, class \in rbs_disk[p].classes
        PROVE  <<p, rbs_stamp[p]>> \in user_methods[class] \intersect user_classes[class]
    <3>1. p \in sharers[class]
      BY <1>1, <2>6 DEF RbsInv, Recorded
    <3> QED BY <1>1, <2>1, <2>6, <3>1 DEF RbsInv, NothingMissing, Unshared
  <2>7. Unshared(class) =>
          OnDiskFor(class) \subseteq user_methods[class] \intersect user_classes[class]
    BY <2>6 DEF OnDiskFor, DeclarationIn
  <2> QED BY <2>4, <2>5, <2>7
<1>2. ASSUME RbsInv, rbs_events = {}, NEW name \in RbsNames, Unshared(name),
             NamedOnDisk(name) # {}
      PROVE  /\ user_names[name] # {}
             /\ name \notin RbsAliases => user_names[name] = NamedOnDisk(name)
  <2>1. PICK p \in RbsFiles : name \in rbs_disk[p].names
    BY <1>2 DEF NamedOnDisk
  <2>2. \A q \in RbsFiles : name \in rbs_disk[q].names => q \in sharers[name]
    BY <1>2 DEF RbsInv, Recorded
  <2>3. \A q \in sharers[name] : q = p
    BY <1>2, <2>1, <2>2 DEF Unshared
  <2>4. NamedOnDisk(name) = {<<p, rbs_stamp[p]>>}
    BY <2>1, <2>2, <2>3 DEF NamedOnDisk, DeclarationIn
  <2> QED BY <1>2, <2>1, <2>3, <2>4 DEF RbsInv, NamesKnown, Known
<1>3. RbsInv => UserRbsTrue
  BY <1>1, <1>2 DEF UserRbsTrue
<1> QED BY RbsInvariance, <1>3, PTL
===============================================================================
