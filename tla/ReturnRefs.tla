------------------------------ MODULE ReturnRefs ------------------------------
(***************************************************************************)
(* resolve_method_return_refs_global (src/src/registry.rs): after the       *)
(* registries of the files are merged, the return types of methods still    *)
(* name the return types of other methods.  Rounds replace such references  *)
(* by what they stand for: a round evaluates a set of methods against the   *)
(* registry as it is, writes all results, and wakes the methods whose last  *)
(* evaluation read a return type that was written.                          *)
(*                                                                         *)
(* Data.  A type is the set of its alternatives.  Concrete ones are         *)
(* classes, nil among them; bot, literals and arrays, which unions merge    *)
(* further, are in UnionTypes.  Of the references there are MethodReturnRef *)
(* and ReceiverMethodRef; what instance variables and globals stand for     *)
(* does not change in the rounds, and is left out, as are the readers of    *)
(* attributes, the methods of the standard library and what is inside of    *)
(* an array, a hash or a tuple.  A class has at most one method of a name,  *)
(* and no ancestors.  The budget of 100000 nodes is not modelled.  What the *)
(* code computes by recursion is here a function for each depth that is     *)
(* left, and for each nesting of receivers.                                 *)
(***************************************************************************)
EXTENDS Naturals, Sequences, FiniteSets

CONSTANTS
  Owners,           \* classes
  NilClass,         \* the one of nil
  Methods,          \* names of methods
  Bodies,           \* the return types methods are given by the analysis of files
  MaxNesting,       \* bound: how deep receivers are nested
  MaxAlternatives,  \* UNION_CARDINALITY_LIMIT
  DepthLimit,       \* 12, the depth of an evaluation
  RoundBackstop     \* ROUND_BACKSTOP

Slots == Owners \X Methods

\* No alternative: the class has no method of the name.
NoMethod == {}

VARIABLES
  written,     \* slot |-> the return type before the first round, or NoMethod
  returns,     \* slot |-> raw_return_type
  wake_reads,  \* slot |-> the slots its last evaluation read
  eval_set,    \* slots to evaluate
  round        \* rounds done

returnVars == <<written, returns, wake_reads, eval_set, round>>

\* Alternatives of a type.
ClassType(class) == <<"class", class>>
NilReturn == ClassType(NilClass)
UntypedReturn == <<"untyped">>
MethodReturnRef(class, method) == <<"ref", class, method>>
ReceiverMethodRef(receiver, method) == <<"call", receiver, method>>

Classes == {"class"} \X Owners
Refs == {"ref"} \X Owners \X Methods

Nestings == 0 .. MaxNesting

\* The alternatives with receivers nested up to a depth, and the types of them.
alternativesAt[n \in Nestings] ==
  Classes \union {UntypedReturn} \union Refs
    \union (IF n = 0 THEN {}
            ELSE {"call"} \X ((SUBSET alternativesAt[n - 1]) \ {{}}) \X Methods)

ReturnsAt(n) == (SUBSET alternativesAt[n]) \ {{}}
ReturnTypes == ReturnsAt(MaxNesting)

ASSUME ReturnConstants ==
  /\ IsFiniteSet(Owners) /\ IsFiniteSet(Methods)
  /\ Bodies \subseteq ReturnTypes
  /\ {MaxNesting, MaxAlternatives, DepthLimit, RoundBackstop} \subseteq Nat

\* global_type_contains_ref, is_concrete_for_global_resolve.
ContainsRef(ty) == \E alternative \in ty : alternative[1] \in {"ref", "call"}
Concrete(ty) == \A alternative \in ty : alternative[1] = "class"

-----------------------------------------------------------------------------
(* An evaluation is asked for a type, in a class, with the methods that are *)
(* visited; what it has read and its memo go along from one to the next.    *)

Memos == SUBSET (Owners \X ReturnTypes \X ReturnTypes)

Questions == [context : Owners, type : ReturnTypes, visiting : SUBSET Slots,
              reads : SUBSET Slots, memo : Memos]
Answers == [type : ReturnTypes, reads : SUBSET Slots, memo : Memos]

With(carried, ty) == [type |-> ty, reads |-> carried.reads, memo |-> carried.memo]
Reading(carried, slot) == [carried EXCEPT !.reads = @ \union {slot}]
Ask(context, ty, visiting, carried) ==
  [context |-> context, type |-> ty, visiting |-> visiting,
   reads |-> carried.reads, memo |-> carried.memo]

\* What a reference ends with: the type found, or itself while that is not concrete.
OrItself(answer, alternative) ==
  IF Concrete(answer.type) THEN answer ELSE With(answer, {alternative})

\* from_type_vec: what is untyped gives way to what is known, but not to nil alone.
MadeOne(parts) ==
  LET known == parts \ {UntypedReturn} IN
  IF Cardinality(parts) > MaxAlternatives THEN {UntypedReturn}
  ELSE IF UntypedReturn \in parts /\ known \subseteq {NilReturn} THEN {UntypedReturn}
  ELSE known

\* Types one after the other, to the answers.  Where all have to be concrete, the first that is
\* not ends it.
ResolveEach(context, types, visiting, carried, all, resolve) ==
  LET answers[i \in 0 .. Len(types)] ==
        IF i = 0 THEN With(carried, {})
        ELSE IF all /\ ~Concrete(answers[i - 1].type) THEN answers[i - 1]
        ELSE resolve[Ask(context, types[i], visiting, answers[i - 1])]
  IN answers

Together(answers) == MadeOne(UNION {answers[i].type : i \in DOMAIN answers})

\* The alternatives of a type in the order of the code, with calls behind the others.
InOrder(list) == \A i, j \in DOMAIN list : i < j /\ list[i][1] = "call" => list[j][1] = "call"
Listed(ty) ==
  CHOOSE list \in [1 .. Cardinality(ty) -> ty] : ty = {list[i] : i \in DOMAIN list} /\ InOrder(list)

\* The return type of a method, which is read.
ReturnOf(slot, visiting, carried, resolve) ==
  resolve[Ask(slot[1], returns[slot], visiting, Reading(carried, slot))]

ResolveRef(ref, visiting, carried, resolve) ==
  LET slot == <<ref[2], ref[3]>> IN
  IF slot \in visiting THEN With(Reading(carried, slot), {ref})
  ELSE IF returns[slot] = NoMethod THEN With(carried, {ref})
  ELSE OrItself(ReturnOf(slot, visiting \union {slot}, carried, resolve), ref)

\* The receiver comes first; of a union every member has to answer.
ResolveCall(context, call, visiting, carried, resolve) ==
  LET receiver == resolve[Ask(context, call[2], visiting, carried)]
      members == Listed(receiver.type)
      calls == [i \in DOMAIN members |-> {ReceiverMethodRef({members[i]}, call[3])}]
      slot == <<members[1][2], call[3]>>
      answers == ResolveEach(context, calls, visiting, receiver, TRUE, resolve)
      last == answers[Len(members)]
  IN IF Cardinality(receiver.type) > 1
     THEN With(last, IF Concrete(last.type) THEN Together(answers) ELSE {call})
     ELSE IF Concrete(receiver.type) /\ returns[slot] # NoMethod
     THEN OrItself(ReturnOf(slot, visiting, receiver, resolve), call)
     ELSE With(receiver, {call})

\* A union stays as it is when none of its parts is replaced, or one by untyped.
ResolveUnion(context, ty, visiting, carried, resolve) ==
  LET parts == Listed(ty)
      answers == ResolveEach(context, [i \in DOMAIN parts |-> {parts[i]}], visiting, carried,
                             FALSE, resolve)
      noProgress ==
        \/ \A i \in DOMAIN parts : answers[i].type = {parts[i]}
        \/ \E i \in DOMAIN parts :
             answers[i].type = {UntypedReturn} /\ parts[i] # UntypedReturn
  IN With(answers[Len(parts)], IF noProgress THEN ty ELSE Together(answers))

ResolveAlternative(context, alternative, visiting, carried, resolve) ==
  IF alternative[1] = "ref" THEN ResolveRef(alternative, visiting, carried, resolve)
  ELSE ResolveCall(context, alternative, visiting, carried, resolve)

\* resolve_global_refs.  A concrete result is remembered for the rest of the evaluation.
Memoized(asked) == {entry \in asked.memo : entry[1] = asked.context /\ entry[2] = asked.type}

Resolve(asked, resolve) ==
  LET ty == asked.type
      answer == IF Cardinality(ty) > 1
                THEN ResolveUnion(asked.context, ty, asked.visiting, asked, resolve)
                ELSE ResolveAlternative(asked.context, CHOOSE alternative \in ty : TRUE,
                                        asked.visiting, asked, resolve)
  IN IF ~ContainsRef(ty) THEN With(asked, ty)
     ELSE IF Memoized(asked) # {} THEN With(asked, (CHOOSE entry \in Memoized(asked) : TRUE)[3])
     ELSE IF Concrete(answer.type)
     THEN [answer EXCEPT !.memo = @ \union {<<asked.context, ty, answer.type>>}]
     ELSE answer

resolveGlobalRefs[left \in 0 .. DepthLimit] ==
  [asked \in Questions |->
     IF left = 0 THEN With(asked, asked.type) ELSE Resolve(asked, resolveGlobalRefs[left - 1])]

\* The evaluation of a method in a round.
Evaluated(slot) ==
  resolveGlobalRefs[DepthLimit][Ask(slot[1], returns[slot], {slot}, [reads |-> {}, memo |-> {}])]

-----------------------------------------------------------------------------
ReturnInit ==
  /\ written \in [Slots -> Bodies \union {NoMethod}]
  /\ returns = written
  /\ wake_reads = [slot \in Slots |-> {}]
  /\ eval_set = {slot \in Slots : ContainsRef(written[slot])}
  /\ round = 0

\* Mutant: a method that was written is not woken again.
ReadsOfUnchanged(slot, result) == IF result.type = returns[slot] THEN result.reads ELSE {}

ReadsOf(slot, result) == result.reads

ResolveRound ==
  /\ eval_set # {} /\ round < RoundBackstop
  /\ LET results == [slot \in eval_set |-> Evaluated(slot)]
         updated == {slot \in eval_set : results[slot].type # returns[slot]}
     IN /\ returns' = [slot \in Slots |->
                         IF slot \in updated THEN results[slot].type ELSE returns[slot]]
        /\ wake_reads' = [slot \in Slots |->
             IF slot \in eval_set THEN ReadsOf(slot, results[slot]) ELSE wake_reads[slot]]
        /\ eval_set' = {slot \in Slots :
             ContainsRef(returns'[slot]) /\ wake_reads'[slot] \intersect updated # {}}
  /\ round' = round + 1
  /\ UNCHANGED written

ReturnSpec == ReturnInit /\ [][ResolveRound]_returnVars

-----------------------------------------------------------------------------
(* Properties. *)

\* The reference: what a return type stands for, {} while that is not known, given what is
\* known of the methods; from nothing known on, without visited methods, depths and reads.
All(types) == IF {} \in types THEN {} ELSE UNION types

StandsForPart(known, alternative, inner) ==
  CASE alternative[1] = "class" -> {alternative}
    [] alternative[1] = "ref" -> known[<<alternative[2], alternative[3]>>]
    [] alternative[1] = "call" ->
         All({known[<<class[2], alternative[3]>>] : class \in inner[alternative[2]]})
    [] OTHER -> {}

\* What is untyped says nothing when there are references to say more.
Said(ty, stands) ==
  IF UntypedReturn \in ty /\ ~ContainsRef(ty) THEN {}
  ELSE All({stands[alternative] : alternative \in ty \ {UntypedReturn}})

\* References may end as untyped: some that are replaced together give more alternatives than
\* a union may have, or there is nothing but nil beside what is untyped.
Loses(ty, stands) ==
  /\ ContainsRef(ty)
  /\ \/ \E kept \in (SUBSET ty) \ {ty} :
          Cardinality(kept \union UNION {stands[alternative] : alternative \in ty \ kept})
            > MaxAlternatives
     \/ UntypedReturn \in ty /\ Said(ty, stands) = {NilReturn}

\* If we are to be sure of it, nothing of it may be lost.
standsFor(sure) ==
  LET at[n \in Nestings] ==
        [known \in [Slots -> SUBSET Classes] |-> [ty \in ReturnsAt(n) |->
           LET stands == [alternative \in ty |-> StandsForPart(known, alternative, at[n - 1][known])]
           IN IF sure /\ Loses(ty, stands) THEN {} ELSE Said(ty, stands)]]
  IN at

StandsFor(sure, known, ty) == standsFor(sure)[MaxNesting][known][ty]

\* What the methods stand for after so many steps, and in the end.
meanings(sure) ==
  LET after[n \in 0 .. Cardinality(Slots)] ==
        LET known == after[n - 1] IN
        [slot \in Slots |->
           IF n = 0 \/ written[slot] = NoMethod THEN {} ELSE StandsFor(sure, known, written[slot])]
  IN after

KnownReturns(sure) == meanings(sure)[Cardinality(Slots)]

\* Some references have gone, each to exactly the classes it stands for, with what is untyped
\* beside them.  For nil two of them have to go, one before the other.
Replaces(may, result, ty) ==
  LET gone == [alternative \in ty \ (result \union {UntypedReturn}) |->
                 StandsFor(FALSE, may, {alternative})]
      replaced == DOMAIN gone
  IN /\ UntypedReturn \notin result
     /\ replaced # {}
     /\ \A alternative \in replaced : gone[alternative] # {}
     /\ result = (ty \intersect result) \union UNION {gone[alternative] : alternative \in replaced}
     /\ UntypedReturn \in ty /\ result = {NilReturn} =>
          \A alternative \in replaced : replaced # {alternative}

MayLose(may, ty) == Loses(ty, [alternative \in ty |-> StandsFor(FALSE, may, {alternative})])

\* A call with more results than a union may have is untyped, and keeps a union as it is.
TooMany(may, ty) ==
  \E call \in ty : call[1] = "call" /\ Cardinality(StandsFor(FALSE, may, {call})) > MaxAlternatives

\* No method is left to wake, or the rounds are used up.
RoundsOver == eval_set = {} \/ round = RoundBackstop

\* There are more rounds than methods, and an evaluation reaches the bottom of every receiver:
\* a receiver in a union takes four evaluations inside of each other, each nesting two.
LimitsSuffice == Cardinality(Slots) < RoundBackstop /\ 2 * MaxNesting + 2 <= DepthLimit

\* A return type is what was written, or some of its references are replaced by exactly the
\* classes they stand for, or it is lost to untyped where that can be.
ReturnsReplaced ==
  LET may == KnownReturns(FALSE) IN
  \A slot \in Slots : written[slot] # NoMethod =>
    \/ returns[slot] = written[slot]
    \/ returns[slot] = {UntypedReturn} /\ MayLose(may, written[slot])
    \/ Replaces(may, returns[slot], written[slot])

\* "order-independent fixpoint; the old 8-round cap left deep chains unresolved": however
\* references chain, fork and turn in circles, nothing is replaced by anything else than what
\* it stands for, and at the end of the rounds everything that is sure to stand for something
\* is replaced: although an evaluation stops at a depth and at methods it is visiting, and a
\* method is only evaluated again for what it read.  (Of untyped
\* beside two references to nil the rounds make nil when one is found before the other, and
\* untyped when both are found at once: Replaces and MayLose allow either.)
ReturnsResolved ==
  LET may == KnownReturns(FALSE)
      sure == KnownReturns(TRUE)
  IN
  /\ ReturnsReplaced
  /\ RoundsOver /\ LimitsSuffice =>
       \A slot \in Slots : \A alternative \in returns[slot] \ Classes :
         StandsFor(TRUE, sure, {alternative}) = {} \/ TooMany(may, returns[slot])
===============================================================================
