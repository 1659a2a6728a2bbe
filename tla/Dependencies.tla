----------------------------- MODULE Dependencies -----------------------------
(***************************************************************************)
(* What the dependency graph promises: it remembers, for each tracked file, *)
(* the dependencies of its last analysis, and answers from them alone.      *)
(* DepGraph implements this specification with ids and inverse indexes.     *)
(***************************************************************************)
EXTENDS Naturals

CONSTANTS
  Paths,        \* paths of files
  Symbols,      \* names of methods, constants and modules
  EdgeKinds,    \* DepEdgeKind
  Untracked     \* the graph has no dependencies for the file

VARIABLE deps

\* FileDeps: the symbols a file defines and refers to, and its typed edges.
FileDeps ==
  [defined : SUBSET Symbols, referenced : SUBSET Symbols, edges : SUBSET (Symbols \X EdgeKinds)]

Init == deps = [p \in Paths |-> Untracked]

Update(p, d) == deps' = [deps EXCEPT ![p] = d]

Remove(p) == deps' = [deps EXCEPT ![p] = Untracked]

Next == \E p \in Paths : Remove(p) \/ \E d \in FileDeps : Update(p, d)

Spec == Init /\ [][Next]_deps

-----------------------------------------------------------------------------
(* The answers. *)

Tracked == {p \in Paths : deps[p] # Untracked}

DependentsOf(symbols) == {p \in Tracked : deps[p].referenced \intersect symbols # {}}

DefinersOf(symbols) == {p \in Tracked : deps[p].defined \intersect symbols # {}}

\* Files with an edge of one of the kinds to one of the symbols.
DependentsOfByKindStrict(symbols, kinds) ==
  {p \in Tracked : \E s \in symbols, k \in kinds : <<s, k>> \in deps[p].edges}

\* A file without any typed edge counts by its references.
DependentsOfByKind(symbols, kinds) ==
  DependentsOfByKindStrict(symbols, kinds)
    \union {p \in DependentsOf(symbols) : deps[p].edges = {}}
===============================================================================
