------------------------------ MODULE MCSnapshots ------------------------------
(***************************************************************************)
(* The components that live in the state of the server and follow the       *)
(* snapshots of its files, on a small instance: the dependency graph        *)
(* (DepGraph), the registries and displays (WorkspaceState), the            *)
(* fingerprint of all files (FingerprintAggregate), an open document        *)
(* (OpenDocuments); and what the merge of the files into a registry         *)
(* computes: what return types stand for (ReturnRefs) and the types that    *)
(* meet (UnionTypes), in symbols that all of them share (Interner).  Each   *)
(* sees the others only through what its own module says of them, so they   *)
(* are checked side by side: each behaviour takes the steps of one of       *)
(* them.  A part rests when it is done or its bounds are reached.           *)
(***************************************************************************)
EXTENDS DepGraph, WorkspaceState, OpenDocuments, ReturnRefs, FingerprintAggregate, UnionTypes,
  Interner

VARIABLE part   \* the component whose steps are taken

MCvars == <<part, vars, stateVars, docVars, returnVars, hashVars, meeting, symVars>>

\* A snapshot of a class; another one that others see alike and that refers to the class; and
\* the first with the parameters of a method in another order.
MCSnapshotOf(refs, order, body) ==
  [names |-> {"A"}, refs |-> refs, exports |-> 1, order |-> order, body |-> body]
MCPlain == MCSnapshotOf({}, 1, 1)
MCOtherBody == MCSnapshotOf({"A"}, 1, 2)
MCOtherOrder == MCSnapshotOf({}, 2, 1)
MCTheSnapshots == {MCPlain, MCOtherBody, MCOtherOrder}

\* Bound: of one file the body changes, of the other one the order.
MCReordered == CHOOSE p \in RbFiles : TRUE
MCOfFile(p) == {MCPlain, NoFile, IF p = MCReordered THEN MCOtherOrder ELSE MCOtherBody}

\* Methods return a class, nil or one of three, what another method returns, what a method of
\* that returns, or some of it beside other alternatives: of methods that return each other,
\* evaluations go round and round until they end at the depth.
MCRef(class) == MethodReturnRef(class, "f")
MCCall(class) == ReceiverMethodRef({MCRef(class)}, "f")
MCBodies ==
  {{ClassType("A")}, {NilReturn}, {ClassType("A"), ClassType("B"), ClassType("C")},
   {ClassType("A"), MCRef("B")}, {UntypedReturn, MCRef("nil"), MCCall("B")},
   {MCCall("A"), MCRef("B")}}
    \union {{MCRef(class)} : class \in Owners} \union {{MCCall(class)} : class \in Owners \ {"nil"}}

MCLiterals == {LiteralInteger(1), LiteralInteger(2)}
MCTuples ==
  {TupleOf(<<>>), TupleOf(<<LiteralInteger(1)>>), TupleOf(<<LiteralInteger(1), Nil>>),
   TupleOf(<<LiteralInteger(1), LiteralInteger(2)>>)}
\* A tuple of so many elements that their union is untyped, and one with such a tuple in it.
MCLong == TupleOf(<<LiteralInteger(1), LiteralInteger(2), Nil, True, SimpleArray>>)
MCNested == TupleOf(<<MCLong, TupleOf(<<True>>)>>)
MCTypes ==
  {Untyped, Bot, Nil, Bool, Integer, LiteralInteger(1), MCNested}
    \union MCTuples \union {ArrayOf(LiteralInteger(1)), ArrayOf(Untyped)}
    \union {Union({True, TupleOf(<<Nil, LiteralInteger(1)>>)}),
            Union({Nil} \union (MCTuples \ {TupleOf(<<>>)}))}

\* Two of the strings share a shard.
MCShardFor(s) == IF s = "C" THEN 1 ELSE 0

MCScalars == {Nil, True, False} \union MCLiterals
MCLongValue == TupleOf(<<LiteralInteger(1), LiteralInteger(2), Nil, True, TupleOf(<<>>)>>)
MCValues ==
  MCScalars \union {TupleOf(elements) : elements \in UNION {[1 .. n -> MCScalars] : n \in 0 .. 2}}
    \union {MCLongValue, TupleOf(<<MCLongValue, TupleOf(<<True>>)>>)}

MCInit ==
  /\ part \in {"graph", "state", "document", "returns", "hashes", "unions", "symbols"}
  /\ Init /\ StateInit /\ DocInit /\ ReturnInit /\ HashInit /\ UnionInit /\ SymInit
  /\ part # "returns" => \A slot \in Slots : written[slot] = NoMethod

MCGraph == Next /\ UNCHANGED <<stateVars, docVars, returnVars, hashVars, meeting, symVars>>
MCState ==
  /\ StateNext /\ \A p \in RbFiles : files'[p] \in MCOfFile(p)
  /\ UNCHANGED <<vars, docVars, returnVars, hashVars, meeting, symVars>>
MCDocument == DocNext /\ UNCHANGED <<vars, stateVars, returnVars, hashVars, meeting, symVars>>
MCReturns == ResolveRound /\ UNCHANGED <<vars, stateVars, docVars, hashVars, meeting, symVars>>
MCHashes == HashNext /\ UNCHANGED <<vars, stateVars, docVars, returnVars, meeting, symVars>>
MCUnions == MeetNext /\ UNCHANGED <<vars, stateVars, docVars, returnVars, hashVars, symVars>>
MCSymbols == SymNext /\ UNCHANGED <<vars, stateVars, docVars, returnVars, hashVars, meeting>>

\* A part that is done.
MCRest ==
  /\ \/ part = "document" /\ (Heard \/ started = MaxJobs)
     \/ part = "returns" /\ RoundsOver
     \/ part = "unions" /\ Cardinality(meeting) = MaxMeeting
  /\ UNCHANGED <<vars, stateVars, docVars, returnVars, hashVars, meeting, symVars>>

MCNext ==
  /\ UNCHANGED part
  /\ \/ part = "graph" /\ MCGraph
     \/ part = "state" /\ MCState
     \/ part = "document" /\ MCDocument
     \/ part = "returns" /\ MCReturns
     \/ part = "hashes" /\ MCHashes
     \/ part = "unions" /\ MCUnions
     \/ part = "symbols" /\ MCSymbols
     \/ MCRest

MCSpec == MCInit /\ [][MCNext]_MCvars
===============================================================================
