--------------------------- MODULE BoundedFileCache ---------------------------
(***************************************************************************)
(* BoundedFileCache (src/src/rbs/bounded_file_cache.rs): the slots of the   *)
(* files that were parsed lately, at most Cap of them, and the order they   *)
(* came in.  The two are separate collections that every operation has to   *)
(* keep together.  A cache is a value here: its owners hold it behind a     *)
(* mutex and change it by one operation at a time.                          *)
(***************************************************************************)
EXTENDS Naturals, Sequences, FiniteSets

CONSTANTS
  Keys,     \* K: paths of files
  NoSlot,   \* entries.get(key) is None
  Cap       \* cap, at least one

Holds(entries) == {k \in Keys : entries[k] # NoSlot}

\* with_cap, and clear.
EmptyCache == [entries |-> [k \in Keys |-> NoSlot], order |-> <<>>]

\* The cache after its n oldest places have been given up.
Dropped(cache, n) ==
  [entries |-> [k \in Keys |->
      IF \E i \in 1 .. n : cache.order[i] = k THEN NoSlot ELSE cache.entries[k]],
   order |-> SubSeq(cache.order, n + 1, Len(cache.order))]

\* Mutant: the cap is checked before the new entry counts.
EvictToCapLate(cache) ==
  LET Fits(n) == Cardinality(Holds(Dropped(cache, n).entries)) <= Cap + 1
      n == CHOOSE n \in 0 .. Len(cache.order) :
             /\ Fits(n) \/ n = Len(cache.order)
             /\ \A m \in 0 .. n - 1 : ~Fits(m)
  IN Dropped(cache, n)

\* evict_to_cap: from the oldest on, until the rest fits or no place is left.
EvictToCap(cache) ==
  LET Fits(n) == Cardinality(Holds(Dropped(cache, n).entries)) <= Cap
      n == CHOOSE n \in 0 .. Len(cache.order) :
             /\ Fits(n) \/ n = Len(cache.order)
             /\ \A m \in 0 .. n - 1 : ~Fits(m)
  IN Dropped(cache, n)

\* insert: a key that is there keeps its place.
CacheInsert(cache, key, slot) ==
  LET entries == [cache.entries EXCEPT ![key] = slot] IN
  IF cache.entries[key] # NoSlot THEN [cache EXCEPT !.entries = entries]
  ELSE EvictToCap([entries |-> entries, order |-> Append(cache.order, key)])

\* retain: every other key moves up by the number of places that go before it.
Without(order, key) ==
  LET Kept(i) == i - Cardinality({j \in 1 .. i : order[j] = key})
  IN [n \in 1 .. Kept(Len(order)) |->
        order[CHOOSE i \in 1 .. Len(order) : order[i] # key /\ Kept(i) = n]]

\* remove.
CacheRemove(cache, key) ==
  IF cache.entries[key] = NoSlot THEN cache
  ELSE [entries |-> [cache.entries EXCEPT ![key] = NoSlot],
        order |-> Without(cache.order, key)]

-----------------------------------------------------------------------------
\* The order names the files that have a slot, each of them once, and they are at most Cap.
Coherent(cache) ==
  /\ {cache.order[i] : i \in 1 .. Len(cache.order)} = Holds(cache.entries)
  /\ \A i, j \in 1 .. Len(cache.order) : cache.order[i] = cache.order[j] => i = j
  /\ Cardinality(Holds(cache.entries)) <= Cap
===============================================================================
