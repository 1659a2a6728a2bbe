------------------------------ MODULE UnionTypes ------------------------------
(***************************************************************************)
(* How types that meet are made one (src/src/types.rs): the branches of a   *)
(* method, the arguments a parameter was given, the files that define the   *)
(* same method.  A union is flattened, arrays in it are merged into one,    *)
(* literals go where their class is, and a union of too many alternatives   *)
(* becomes untyped.                                                         *)
(*                                                                         *)
(* Data.  Of the scalars there are integers and their literals, nil and the *)
(* booleans.  The alternatives of a union form a set; in the code they are  *)
(* a list in one order, each once, so that a list that is flushed when it   *)
(* grows long has as many different ones in the end.  A union has no union  *)
(* in it, and arrays and tuples are nested up to a depth: what the code     *)
(* computes by recursion into elements is here a function for each depth.   *)
(***************************************************************************)
EXTENDS Integers, Sequences, FiniteSets

CONSTANTS
  TypesThatMeet,  \* types to be made one
  MaxMeeting,     \* bound: how many of them
  UnionLimit,     \* UNION_CARDINALITY_LIMIT
  TupleLimit,     \* PARAM_TUPLE_MERGE_LIMIT
  MaxDepth,       \* bound: how deep arrays and tuples are nested
  SomeValues      \* values of the language, to tell types apart by

VARIABLE meeting  \* the types so far

Untyped == <<"Untyped">>
Bot == <<"Bot">>
Nil == <<"Nil">>
Bool == <<"Bool">>
True == <<"True">>
False == <<"False">>
Integer == <<"Integer">>
LiteralInteger(n) == <<"LiteralInteger", n>>
SimpleArray == <<"Array">>
ArrayOf(element) == <<"ArrayOf", element>>
TupleOf(elements) == <<"Tuple", elements>>
Union(parts) == <<"Union", parts>>

Scalars ==
  {Untyped, Bot, Nil, Bool, True, False, Integer, SimpleArray} \union ({"LiteralInteger"} \X Int)

Finite(S) == {subset \in SUBSET S : IsFiniteSet(subset)}

Depths == 0 .. MaxDepth

\* The types in which arrays and tuples are nested up to a depth.
typesAt[depth \in Depths] ==
  LET parts == Scalars \union
        (IF depth = 0 THEN {}
         ELSE ({"ArrayOf"} \X typesAt[depth - 1]) \union ({"Tuple"} \X Seq(typesAt[depth - 1])))
  IN parts \union ({"Union"} \X Finite(parts))

Types == typesAt[MaxDepth]

\* The values are scalars, or arrays of values, written as the types that only they have.
ASSUME UnionConstants ==
  /\ MaxDepth \in Nat /\ UnionLimit \in Nat /\ TupleLimit \in Nat /\ MaxMeeting \in Nat
  /\ TypesThatMeet \subseteq Types
  /\ SomeValues \subseteq {Nil, True, False} \union ({"LiteralInteger"} \X Int)
                           \union ({"Tuple"} \X Seq(SomeValues))

\* collect_union_parts.
UnionParts(type) == IF type[1] = "Union" THEN type[2] ELSE {type}

Flattened(types) == UNION {UnionParts(type) : type \in types}

\* No alternative, the only one, or a union.
AsType(parts) ==
  IF parts = {} THEN Untyped
  ELSE IF Cardinality(parts) = 1 THEN CHOOSE part \in parts : TRUE
  ELSE Union(parts)

SubsumeLiterals(parts) ==
  {part \in parts : /\ part[1] = "LiteralInteger" => Integer \notin parts
                    /\ part \in {True, False} => Bool \notin parts}

ElementsOf(type) ==
  IF type[1] = "Tuple" THEN {type[2][i] : i \in DOMAIN type[2]} ELSE {type[2]}

IsTuple(type) == type[1] = "Tuple"
ArrayLike(types) == {type \in types : type[1] \in {"ArrayOf", "Tuple"}}
TupleLengths(types) == {Len(type[2]) : type \in types}

\* Mutant: the elements of tuples are forgotten.
MergeArraysOnly(parts, inner) ==
  LET arrays == ArrayLike(parts)
      keep == (\A type \in arrays : IsTuple(type)) /\ TupleLengths(arrays) # {0}
                /\ Cardinality(TupleLengths(arrays)) = 1
  IN IF Cardinality(arrays) <= 1 \/ keep THEN parts
     ELSE (parts \ arrays) \union
            {ArrayOf(inner[{type[2] : type \in {t \in arrays : ~IsTuple(t)}}])}

\* Mutant: two arrays stay two.
MergeThreeArrays(parts, inner) ==
  LET arrays == ArrayLike(parts) IN
  IF Cardinality(arrays) <= 2 THEN parts
  ELSE (parts \ arrays) \union {ArrayOf(inner[UNION {ElementsOf(type) : type \in arrays}])}

\* merge_array_union: one array, unless they are all tuples of the same length.  What
\* from_type_vec makes of the elements is inner.
MergeArrayUnion(parts, inner) ==
  LET arrays == ArrayLike(parts)
      keep == (\A type \in arrays : IsTuple(type)) /\ TupleLengths(arrays) # {0}
                /\ Cardinality(TupleLengths(arrays)) = 1
  IN IF Cardinality(arrays) <= 1 \/ keep THEN parts
     ELSE (parts \ arrays) \union {ArrayOf(inner[UNION {ElementsOf(type) : type \in arrays}])}

Simplified(parts, inner) == AsType(SubsumeLiterals(MergeArrayUnion(parts, inner)))
WithoutBot(parts) == IF Cardinality(parts) > 1 THEN parts \ {Bot} ELSE parts

\* from_type_vec: what is untyped gives way to what is known, but not to nil or bot alone.
FromParts(parts, inner) ==
  LET known == parts \ {Untyped} IN
  IF Cardinality(parts) > UnionLimit THEN Untyped
  ELSE IF Untyped \in parts /\ known \in {{Nil}, {Bot}} THEN Untyped
  ELSE Simplified(WithoutBot(known), inner)

fromTypeVec[depth \in Depths] ==
  [types \in Finite(typesAt[depth]) |-> FromParts(Flattened(types), fromTypeVec[depth - 1])]

FromTypeVec(types) == fromTypeVec[MaxDepth][types]

FromTypeVecPreserveUntyped(types) ==
  LET parts == Flattened(types) IN
  IF Cardinality(parts) > UnionLimit THEN Untyped
  ELSE Simplified(WithoutBot(parts), fromTypeVec[MaxDepth])

UnionWith(type, other) ==
  LET parts == Flattened({type, other})
      known == parts \ {Untyped}
  IN IF Untyped \in parts /\ known = {Bot} THEN Untyped
     ELSE Simplified(known, fromTypeVec[MaxDepth])

\* widen_tuple_to_array of an alternative; inner is that of its elements.
TupleToArray(part, inner) ==
  CASE IsTuple(part) -> ArrayOf(FromTypeVec({inner[e] : e \in ElementsOf(part)}))
    [] part[1] = "ArrayOf" -> ArrayOf(inner[part[2]])
    [] OTHER -> part

widenTupleToArray[depth \in Depths] ==
  [type \in typesAt[depth] |->
     LET widened(part) == TupleToArray(part, widenTupleToArray[depth - 1]) IN
     IF type[1] = "Union" THEN FromTypeVec({widened(part) : part \in type[2]}) ELSE widened(type)]

WidenTupleToArray(type) == widenTupleToArray[MaxDepth][type]

\* widen_arg_for_param of an alternative; inner is that of its elements.
ArgForParam(part, inner) ==
  CASE part[1] = "LiteralInteger" -> Integer
    [] part \in {True, False} -> Bool
    [] IsTuple(part) ->
         LET alike == {inner[e] : e \in ElementsOf(part)} IN
         IF Cardinality(alike) = 1 THEN ArrayOf(inner[part[2][1]])
         ELSE TupleOf([i \in DOMAIN part[2] |-> inner[part[2][i]]])
    [] part[1] = "ArrayOf" -> ArrayOf(inner[part[2]])
    [] OTHER -> part

widenArgForParam[depth \in Depths] ==
  [type \in typesAt[depth] |->
     LET widened(part) == ArgForParam(part, widenArgForParam[depth - 1]) IN
     IF type[1] = "Union" THEN FromTypeVec({widened(part) : part \in type[2]}) ELSE widened(type)]

WidenArgForParam(type) == widenArgForParam[MaxDepth][type]

\* merge_param_arg_vec: tuples of one length are merged place by place.
Tuples(parts) == {part \in parts : IsTuple(part)}

MergedTuples(parts) ==
  LET tuples == Tuples(parts)
      len == CHOOSE n \in TupleLengths(tuples) : TRUE
      uniform == /\ ~\E part \in parts : part[1] = "ArrayOf"
                 /\ TupleLengths(tuples) = {len} /\ len <= TupleLimit
  IN IF uniform THEN TupleOf([i \in 1 .. len |-> FromTypeVec({t[2][i] : t \in tuples})])
     ELSE ArrayOf(FromTypeVec(UNION {ElementsOf(t) : t \in tuples}))

MergeParamArgVec(types) ==
  LET parts == Flattened(types) IN
  FromTypeVec((parts \ Tuples(parts))
                \union (IF Tuples(parts) = {} THEN {} ELSE {MergedTuples(parts)}))

UnionInit == meeting = {}

MeetNext ==
  /\ Cardinality(meeting) < MaxMeeting
  /\ \E type \in TypesThatMeet \ meeting : meeting' = meeting \union {type}

UnionSpec == UnionInit /\ [][MeetNext]_meeting

-----------------------------------------------------------------------------
(* Properties. *)

\* The reference: the values of a type, with those of an untyped one or without.  Of an
\* alternative, where inner has them for its elements:
ValuesOfPart(part, untyped, inner) ==
  CASE part = Untyped -> IF untyped THEN SomeValues ELSE {}
    [] part[1] \in {"Nil", "True", "False", "LiteralInteger"} -> SomeValues \intersect {part}
    [] part = Bool -> SomeValues \intersect {True, False}
    [] part = Integer -> {value \in SomeValues : value[1] = "LiteralInteger"}
    [] part = SimpleArray -> {value \in SomeValues : value[1] = "Tuple"}
    [] part[1] = "ArrayOf" ->
         LET elements == inner[part[2]] IN
         {value \in SomeValues : value[1] = "Tuple" /\ ElementsOf(value) \subseteq elements}
    [] IsTuple(part) ->
         LET elements == [i \in DOMAIN part[2] |-> inner[part[2][i]]] IN
         {value \in SomeValues :
            /\ value[1] = "Tuple" /\ DOMAIN value[2] = DOMAIN part[2]
            /\ \A i \in DOMAIN part[2] : value[2][i] \in elements[i]}
    [] OTHER -> {}

valuesOf[depth \in Depths] ==
  [untyped \in BOOLEAN |->
     [type \in typesAt[depth] |->
        UNION {ValuesOfPart(part, untyped, valuesOf[depth - 1][untyped]) : part \in UnionParts(type)}]]

\* The values a type is known to have, and those it may have.
KnownValues(type) == valuesOf[MaxDepth][FALSE][type]
PossibleValues(type) == valuesOf[MaxDepth][TRUE][type]

\* No value that one of the types is known to have is lost.
Covers(result, types) ==
  LET possible == PossibleValues(result) IN
  \A type \in types : KnownValues(type) \subseteq possible

\* And none is only left because the result is untyped in some place.
Keeps(result, types) ==
  LET known == KnownValues(result) IN
  \A type \in types : KnownValues(type) \subseteq known

\* Nothing in a type is untyped.
fullyKnown[depth \in Depths] ==
  [type \in typesAt[depth] |->
     \A part \in UnionParts(type) :
       /\ part # Untyped
       /\ part[1] \in {"ArrayOf", "Tuple"} => \A e \in ElementsOf(part) : fullyKnown[depth - 1][e]]

FullyKnown(type) == fullyKnown[MaxDepth][type]

\* The types that are right inside of one.
Inside(type) ==
  CASE type[1] = "Union" -> type[2]
    [] type[1] \in {"ArrayOf", "Tuple"} -> ElementsOf(type)
    [] OTHER -> {}

\* Of the tuples of a parameter's arguments, all their elements.
TupleElements(types) == UNION {ElementsOf(t) : t \in Tuples(Flattened(types))}

\* Whatever types meet and whichever way they are made one, with arrays, tuples and literals
\* merged and widened, inside of each other too, every value one of them is known to have is
\* a value of the result; and known to be, unless there is something untyped in it.  What is
\* merged in two steps needs a first one that keeps the values: the array of untyped that too
\* many elements become gives way to another array in the second.
UnionCovers ==
  /\ Covers(FromTypeVec(meeting), meeting)
  /\ FullyKnown(FromTypeVec(meeting)) => Keeps(FromTypeVec(meeting), meeting)
  /\ Covers(FromTypeVecPreserveUntyped(meeting), meeting)
  /\ LET elements == TupleElements(meeting) IN
     ((\E part \in Flattened(meeting) : part[1] = "ArrayOf")
        => Keeps(FromTypeVec(elements), elements))
       => Covers(MergeParamArgVec(meeting), meeting)
  /\ \A type \in meeting :
       /\ (\A e \in Inside(type) : Keeps(WidenArgForParam(e), {e}))
            => Covers(WidenArgForParam(type), {type})
       /\ (\A e \in Inside(type) : Keeps(WidenTupleToArray(e), {e}))
            => Covers(WidenTupleToArray(type), {type})
       /\ \A other \in meeting : Covers(UnionWith(type, other), {type, other})

\* Types that are merged in groups, such as file by file, give the type they give at once,
\* while nothing in it is untyped: what is gives way to what it meets later, and the
\* alternatives it stood for are lost.  Groups may be too many where all of them at once are
\* not: the arrays that were merged in one may be in another as they were.
UnionsAgree ==
  (\A type \in meeting : FullyKnown(type)) =>
    \A group \in (SUBSET meeting) \ {{}} :
      LET atOnce == FromTypeVec(meeting)
          first == FromTypeVec(group)
          second == FromTypeVec((meeting \ group) \union {first})
      IN FullyKnown(atOnce) /\ FullyKnown(first) /\ FullyKnown(second) => second = atOnce
===============================================================================
