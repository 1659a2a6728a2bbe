------------------------------- MODULE Interner -------------------------------
(***************************************************************************)
(* The interner of symbols (src/src/sym.rs): the entries of all strings     *)
(* that were ever interned, spread over shards that have a lock each.       *)
(* Threads look a string up under the read lock of its shard and, when it   *)
(* is not there, again under the write lock before they add it.  A symbol   *)
(* is a reference to an entry, and symbols are compared by reference.       *)
(***************************************************************************)
EXTENDS Naturals

CONSTANTS
  Strings,       \* the texts of symbols
  Interners,     \* the threads that intern
  Shards,        \* SHARDS
  ShardFor(_),   \* shard_for: the hash of a string, modulo SHARD_COUNT
  NoString       \* a thread that interns nothing

ASSUME InternerConstants ==
  /\ NoString \notin Strings
  /\ \A s \in Strings : ShardFor(s) \in Shards

VARIABLES
  shards,    \* the entries of each shard: the text, and the address it was leaked at
  leaked,    \* how many entries have been leaked
  missed,    \* by thread: the string it did not find under the read lock
  symbols    \* the entries that were handed out, by Sym::new

symVars == <<shards, leaked, missed, symbols>>

Entry == [text : Strings, address : Nat]

SymTypeOK ==
  /\ shards \in [Shards -> SUBSET Entry]
  /\ leaked \in Nat
  /\ missed \in [Interners -> Strings \union {NoString}]
  /\ symbols \in SUBSET Entry

SymInit ==
  /\ shards = [h \in Shards |-> {}]
  /\ leaked = 0
  /\ missed = [t \in Interners |-> NoString]
  /\ symbols = {}

-----------------------------------------------------------------------------
\* set.get(s): an entry of the shard with this text, when there is one.
Found(s) == {e \in shards[ShardFor(s)] : e.text = s}

\* intern finds the string under the read lock.
InternFound(t, s) ==
  /\ missed[t] = NoString
  /\ \E existing \in Found(s) : symbols' = symbols \union {existing}
  /\ UNCHANGED <<shards, leaked, missed>>

\* intern does not find it, and gives the read lock back.
InternMissed(t, s) ==
  /\ missed[t] = NoString
  /\ Found(s) = {}
  /\ missed' = [missed EXCEPT ![t] = s]
  /\ UNCHANGED <<shards, leaked, symbols>>

\* Mutant: under the write lock it is not looked up again.
InternAddBlindly(t) ==
  /\ missed[t] # NoString
  /\ LET fresh == [text |-> missed[t], address |-> leaked] IN
       /\ shards' = [shards EXCEPT ![ShardFor(missed[t])] = @ \union {fresh}]
       /\ leaked' = leaked + 1
       /\ symbols' = symbols \union {fresh}
  /\ missed' = [missed EXCEPT ![t] = NoString]

\* intern under the write lock: another thread has added it meanwhile, or it is leaked now.
InternAdd(t) ==
  /\ missed[t] # NoString
  /\ \/ /\ \E existing \in Found(missed[t]) : symbols' = symbols \union {existing}
        /\ UNCHANGED <<shards, leaked>>
     \/ LET fresh == [text |-> missed[t], address |-> leaked] IN
          /\ Found(missed[t]) = {}
          /\ shards' = [shards EXCEPT ![ShardFor(missed[t])] = @ \union {fresh}]
          /\ leaked' = leaked + 1
          /\ symbols' = symbols \union {fresh}
  /\ missed' = [missed EXCEPT ![t] = NoString]

SymNext ==
  \E t \in Interners :
    \/ \E s \in Strings : InternFound(t, s) \/ InternMissed(t, s)
    \/ InternAdd(t)

SymSpec == SymInit /\ [][SymNext]_symVars

-----------------------------------------------------------------------------
(* Symbols of the same text are the same reference, whichever threads asked  *)
(* for them and however they overtook each other between the two locks: the *)
(* comparison by pointer (sym.rs:222) is the comparison of the texts.       *)
SymbolsIdentify == \A a, b \in symbols : a.text = b.text => a.address = b.address
===============================================================================
