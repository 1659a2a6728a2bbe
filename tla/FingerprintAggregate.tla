------------------------- MODULE FingerprintAggregate -------------------------
(***************************************************************************)
(* FingerprintAggregate (src/src/workspace_state/fingerprints.rs): a        *)
(* fingerprint of the set of all files that is kept up to date file by      *)
(* file.  A file is taken out of it by the inverse of what put it in, in    *)
(* words that wrap around.  The code has words of 64 bits and takes six     *)
(* steps to an inverse; here a word has 2^Log bits and an inverse Log       *)
(* steps, each of which doubles the bits that are right.                    *)
(***************************************************************************)
EXTENDS Integers, FiniteSets, FiniteSetsExt

CONSTANTS
  HashedFiles,  \* paths of Ruby files
  Hashes,       \* hashes of registry fingerprints
  NoHash,       \* the file has no snapshot
  Log,          \* 6
  Salt          \* UNORDERED_HASH_PRODUCT_SALT

VARIABLES
  hash_of,    \* path |-> registry_fingerprint_hash
  aggregate   \* registry_fingerprint_aggregate

hashVars == <<hash_of, aggregate>>

Width == 2 ^ Log

\* 2 ^ (2 ^ n): squaring doubles the bits.
Moduli[n \in 0 .. Log] == IF n = 0 THEN 2 ELSE Moduli[n - 1] * Moduli[n - 1]

Modulus == Moduli[Log]

ASSUME HashConstants ==
  /\ Log \in Nat /\ Salt \in Nat
  /\ Hashes \subseteq 0 .. Modulus - 1 /\ NoHash \notin Hashes

Wrapped(n) == n % Modulus

Bits(word) == {i \in 0 .. Width - 1 : (word \div 2 ^ i) % 2 = 1}

\* The bits of rotated_unordered_hash: rotated by its highest Log bits, and one.
Rotated(hash) ==
  LET by == hash \div 2 ^ (Width - Log) + 1 IN {(i + by) % Width : i \in Bits(hash)}

\* encoded_unordered_hash: odd.
Encoded(hash) == LET n == Wrapped(hash * Salt) IN IF n % 2 = 1 THEN n ELSE n + 1

\* The steps of Newton's method towards the inverse of an odd word.
Newton(value, steps) ==
  LET inverse[n \in 0 .. steps] ==
        IF n = 0 THEN 1 ELSE Wrapped(inverse[n - 1] * Wrapped(2 - Wrapped(value * inverse[n - 1])))
  IN inverse[steps]

\* Mutant: a step too few.
InvertHalf(value) == Newton(value, Log - 1)

\* invert_odd_u64.
InvertOdd(value) == Newton(value, Log)

\* The word xor is the set of its bits.
Default == [sum |-> 0, xor |-> {}, product |-> 1, count |-> 0]

AddHash(agg, hash) ==
  [sum |-> Wrapped(agg.sum + hash), xor |-> SymDiff(agg.xor, Rotated(hash)),
   product |-> Wrapped(agg.product * Encoded(hash)), count |-> agg.count + 1]

RemoveHash(agg, hash) ==
  [sum |-> Wrapped(agg.sum - hash), xor |-> SymDiff(agg.xor, Rotated(hash)),
   product |-> Wrapped(agg.product * InvertOdd(Encoded(hash))), count |-> agg.count - 1]

\* fingerprint_excluding, before it is hashed.
Excluding(p) == IF hash_of[p] = NoHash THEN aggregate ELSE RemoveHash(aggregate, hash_of[p])

HashInit == hash_of = [p \in HashedFiles |-> NoHash] /\ aggregate = Default

\* An upsert takes the hash of the snapshot it replaces out again.
HashUpsert(p, hash) ==
  /\ hash_of' = [hash_of EXCEPT ![p] = hash]
  /\ aggregate' = AddHash(Excluding(p), hash)

\* remove_workspace_file_entry_by_id.
HashRemove(p) ==
  /\ hash_of[p] # NoHash
  /\ hash_of' = [hash_of EXCEPT ![p] = NoHash]
  /\ aggregate' = Excluding(p)

HashClear ==
  /\ hash_of' = [p \in HashedFiles |-> NoHash]
  /\ aggregate' = Default

HashNext ==
  \/ \E p \in HashedFiles : HashRemove(p) \/ \E hash \in Hashes : HashUpsert(p, hash)
  \/ HashClear

HashSpec == HashInit /\ [][HashNext]_hashVars

-----------------------------------------------------------------------------
(* Properties. *)

\* The same as display_file_set_key does with the files it looks at, one after the other.
CombineUnordered(paths) ==
  FoldSet(LAMBDA p, agg : AddHash(agg, hash_of[p]), Default, {p \in paths : hash_of[p] # NoHash})

\* After any snapshots came, were replaced and went, in any order, the aggregate is the one
\* that adding up the files from nothing gives, with or without one of them; so that equal
\* fingerprints mean equal sets of files, as far as hashes do.
AggregateExact ==
  /\ aggregate = CombineUnordered(HashedFiles)
  /\ \A p \in HashedFiles : Excluding(p) = CombineUnordered(HashedFiles \ {p})
===============================================================================
