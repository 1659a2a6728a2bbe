--------------------------- MODULE TypesAndSymbols_proof ---------------------------
(***************************************************************************)
(* The proofs about what everything else is made of: types that meet, and   *)
(* the symbols that stand for strings.                                      *)
(*                                                                         *)
(* Of the unions it is proved, for types of any depth, that no value a type *)
(* is known to have is lost when it meets others, and that merging in       *)
(* groups and at once agree.  The functions of UnionTypes are made by       *)
(* stages, one for each depth; what holds of them at a depth is proved from *)
(* what holds at the depth below.                                           *)
(*                                                                         *)
(* Of the symbols, that they identify strings.  What was handed out stays   *)
(* in the shard of its text, and a shard never has two entries of one text: *)
(* that is what the second look under the write lock is for.                *)
(***************************************************************************)
EXTENDS UnionTypes, Interner, FiniteSetTheorems, SequenceTheorems, WellFoundedInduction, TLAPS

-----------------------------------------------------------------------------
\* Counting up: a set with zero that has with each number the next one has all of them.
LEMMA FromZeroUp ==
  ASSUME NEW S, 0 \in S, \A n \in Nat : n \in S => n + 1 \in S
  PROVE  Nat \subseteq S
<1> DEFINE T == Nat \ S
<1> SUFFICES ASSUME T # {} PROVE FALSE
  OBVIOUS
<1>1. PICK x \in T : \A y \in T : ~(<<y, x>> \in OpToRel(<, Nat))
  BY NatLessThanWellFounded, WFMin, T \subseteq Nat
<1>2. x \in Nat /\ x # 0
  OBVIOUS
<1>3. x - 1 \in Nat /\ x - 1 < x /\ x - 1 + 1 = x
  BY <1>2
<1>4. <<x - 1, x>> \in OpToRel(<, Nat)
  BY <1>2, <1>3 DEF OpToRel
<1>5. x - 1 \in S
  BY <1>1, <1>3, <1>4
<1> QED
  BY <1>3, <1>5

\* The alternatives of a depth, where those below it are given, and the types of them.
PartsOver(depth, below) ==
  Scalars \union
    (IF depth = 0 THEN {} ELSE ({"ArrayOf"} \X below) \union ({"Tuple"} \X Seq(below)))
TypesOver(depth, below) ==
  PartsOver(depth, below) \union ({"Union"} \X Finite(PartsOver(depth, below)))
TypesUpTo(n, f) == f = [k \in 0 .. n |-> TypesOver(k, f[k - 1])]

LEMMA TypesExist == \A n \in Nat : \E f : TypesUpTo(n, f)
<1> DEFINE S == {n \in Nat : \E f : TypesUpTo(n, f)}
<1>1. 0 \in S
  <2> DEFINE f == [k \in 0 .. 0 |-> TypesOver(0, {})]
  <2>1. \A k \in 0 .. 0 : TypesOver(k, f[k - 1]) = TypesOver(0, {})
    <3> SUFFICES ASSUME NEW k \in 0 .. 0 PROVE TypesOver(k, f[k - 1]) = TypesOver(0, {})
      OBVIOUS
    <3>1. k = 0
      OBVIOUS
    <3> HIDE DEF f
    <3> QED
      BY <3>1 DEF TypesOver, PartsOver
  <2>2. TypesUpTo(0, f)
    BY <2>1 DEF TypesUpTo
  <2> QED
    BY <2>2
<1>2. ASSUME NEW n \in Nat, n \in S PROVE n + 1 \in S
  <2>1. PICK f : TypesUpTo(n, f)
    BY <1>2
  <2> DEFINE g == [k \in 0 .. n + 1 |-> IF k <= n THEN f[k] ELSE TypesOver(k, f[n])]
  <2>2. ASSUME NEW k \in 0 .. n + 1 PROVE g[k] = TypesOver(k, g[k - 1])
    <3>1. CASE k = 0
      <4>1. g[0] = f[0] /\ f[0] = TypesOver(0, f[0 - 1])
        BY <2>1 DEF TypesUpTo
      <4> HIDE DEF g
      <4> QED
        BY <3>1, <4>1 DEF TypesOver, PartsOver
    <3>2. CASE k \in 1 .. n
      <4>1. g[k] = f[k] /\ g[k - 1] = f[k - 1] /\ f[k] = TypesOver(k, f[k - 1])
        BY <2>1, <3>2 DEF TypesUpTo
      <4> QED
        BY <4>1
    <3>3. CASE k = n + 1
      <4>1. g[k] = TypesOver(k, f[n]) /\ g[k - 1] = f[n]
        BY <3>3
      <4> QED
        BY <4>1
    <3> QED
      BY <3>1, <3>2, <3>3
  <2>3. TypesUpTo(n + 1, g)
    BY <2>2 DEF TypesUpTo
  <2> QED
    BY <2>3
<1>3. Nat \subseteq S
  <2> HIDE DEF S
  <2> QED
    BY <1>1, <1>2, FromZeroUp
<1> QED
  BY <1>3

LEMMA TypesAre ==
  /\ DOMAIN typesAt = Depths
  /\ \A n \in Depths : typesAt[n] = TypesOver(n, typesAt[n - 1])
<1>1. MaxDepth \in Nat
  BY UnionConstants
<1>2. typesAt = CHOOSE f : TypesUpTo(MaxDepth, f)
  BY DEF typesAt, TypesUpTo, TypesOver, PartsOver, Depths
<1>3. TypesUpTo(MaxDepth, typesAt)
  BY <1>1, <1>2, TypesExist
<1> QED
  BY <1>3 DEF TypesUpTo, Depths

\* The numbers up to a bound, one after the other.
LEMMA UpToBound ==
  ASSUME NEW M \in Nat, NEW S, 0 \in S, \A k \in 1 .. M : k - 1 \in S => k \in S
  PROVE  0 .. M \subseteq S
<1> DEFINE T == {n \in Nat : n \in 0 .. M => n \in S}
<1>1. 0 \in T
  OBVIOUS
<1>2. ASSUME NEW n \in Nat, n \in T PROVE n + 1 \in T
  <2> SUFFICES ASSUME n + 1 \in 0 .. M PROVE n + 1 \in S
    OBVIOUS
  <2>1. n + 1 \in 1 .. M /\ n \in 0 .. M /\ (n + 1) - 1 = n
    OBVIOUS
  <2> QED
    BY <1>2, <2>1
<1>3. Nat \subseteq T
  <2> HIDE DEF T
  <2> QED
    BY <1>1, <1>2, FromZeroUp
<1> QED
  BY <1>3

\* The alternatives of a depth.
PartsAt(n) == PartsOver(n, typesAt[n - 1])

LEMMA DepthsAre ==
  /\ MaxDepth \in Depths /\ 0 \in Depths /\ Depths \subseteq Nat
  /\ \A n \in Depths : n = 0 \/ (n \in 1 .. MaxDepth /\ n - 1 \in Depths)
BY UnionConstants DEF Depths

LEMMA ByDepth ==
  ASSUME NEW S, 0 \in S, \A n \in Depths : n # 0 /\ n - 1 \in S => n \in S
  PROVE  Depths \subseteq S
<1>1. MaxDepth \in Nat
  BY UnionConstants
<1>2. \A k \in 1 .. MaxDepth : k - 1 \in S => k \in S
  BY <1>1 DEF Depths
<1> QED
  BY <1>1, <1>2, UpToBound DEF Depths

LEMMA TypesAtAre ==
  ASSUME NEW n \in Depths
  PROVE  typesAt[n] = PartsAt(n) \union ({"Union"} \X Finite(PartsAt(n)))
BY TypesAre DEF PartsAt, TypesOver

LEMMA ScalarTags ==
  \A s \in Scalars : s[1] \notin {"Union", "ArrayOf", "Tuple"}
BY DEF Scalars, Untyped, Bot, Nil, Bool, True, False, Integer, SimpleArray

\* An alternative is a scalar, or holds types that are less deep.
LEMMA PartCases ==
  ASSUME NEW n \in Depths, NEW p \in PartsAt(n)
  PROVE  /\ p[1] # "Union"
         /\ \/ p \in Scalars /\ p[1] \notin {"ArrayOf", "Tuple"}
            \/ n # 0 /\ p[1] = "ArrayOf" /\ p = ArrayOf(p[2]) /\ p[2] \in typesAt[n - 1]
            \/ n # 0 /\ p[1] = "Tuple" /\ p = TupleOf(p[2]) /\ p[2] \in Seq(typesAt[n - 1])
<1>1. CASE p \in Scalars
  BY <1>1, ScalarTags
<1>2. CASE n # 0 /\ p \in {"ArrayOf"} \X typesAt[n - 1]
  BY <1>2 DEF ArrayOf
<1>3. CASE n # 0 /\ p \in {"Tuple"} \X Seq(typesAt[n - 1])
  BY <1>3 DEF TupleOf
<1> QED
  BY <1>1, <1>2, <1>3 DEF PartsAt, PartsOver

LEMMA PartsBuilt ==
  ASSUME NEW n \in Depths
  PROVE  /\ Scalars \subseteq PartsAt(n)
         /\ n # 0 => /\ \A t \in typesAt[n - 1] : ArrayOf(t) \in PartsAt(n)
                     /\ \A s \in Seq(typesAt[n - 1]) : TupleOf(s) \in PartsAt(n)
BY DEF PartsAt, PartsOver, ArrayOf, TupleOf

LEMMA PartsOf ==
  ASSUME NEW n \in Depths
  PROVE  /\ PartsAt(n) \subseteq typesAt[n]
         /\ \A t \in typesAt[n] :
              /\ UnionParts(t) \in Finite(PartsAt(n))
              /\ t[1] = "Union" => t[2] = UnionParts(t) /\ t = Union(t[2])
              /\ t[1] # "Union" => t \in PartsAt(n)
         /\ \A p \in PartsAt(n) : UnionParts(p) = {p}
<1>1. \A p \in PartsAt(n) : UnionParts(p) = {p}
  BY PartCases DEF UnionParts
<1>2. ASSUME NEW t \in typesAt[n]
      PROVE  /\ UnionParts(t) \in Finite(PartsAt(n))
             /\ t[1] = "Union" => t[2] = UnionParts(t) /\ t = Union(t[2])
             /\ t[1] # "Union" => t \in PartsAt(n)
  <2>1. CASE t \in PartsAt(n)
    <3>1. IsFiniteSet({t})
      BY FS_Singleton
    <3> QED
      BY <2>1, <1>1, <3>1, PartCases DEF Finite
  <2>2. CASE t \in {"Union"} \X Finite(PartsAt(n))
    BY <2>2 DEF UnionParts, Union
  <2> QED
    BY <2>1, <2>2, TypesAtAre
<1> QED
  BY <1>1, <1>2, TypesAtAre

LEMMA UnionsBuilt ==
  ASSUME NEW n \in Depths, NEW P \in Finite(PartsAt(n))
  PROVE  /\ Union(P) \in typesAt[n]
         /\ UnionParts(Union(P)) = P
BY TypesAtAre DEF Union, UnionParts

LEMMA FiniteRange ==
  ASSUME NEW S, IsFiniteSet(S), NEW T, NEW f \in [S -> T]
  PROVE  IsFiniteSet({f[x] : x \in S})
<1> DEFINE R == {f[x] : x \in S}
<1>1. f \in Surjection(S, R)
  BY DEF Surjection
<1> QED
  BY <1>1, FS_Surjection

LEMMA FlattenedIn ==
  ASSUME NEW n \in Depths, NEW types \in Finite(typesAt[n])
  PROVE  Flattened(types) \in Finite(PartsAt(n))
<1>1. \A t \in types : UnionParts(t) \subseteq PartsAt(n) /\ IsFiniteSet(UnionParts(t))
  BY PartsOf DEF Finite
<1> DEFINE f == [t \in types |-> UnionParts(t)]
<1>2. IsFiniteSet({UnionParts(t) : t \in types})
  <2>1. f \in [types -> SUBSET PartsAt(n)] /\ IsFiniteSet(types)
    BY <1>1 DEF Finite
  <2>2. IsFiniteSet({f[t] : t \in types})
    <3> HIDE DEF f
    <3> QED
      BY <2>1, FiniteRange
  <2> QED
    BY <2>2
<1>3. IsFiniteSet(Flattened(types))
  BY <1>1, <1>2, FS_UNION DEF Flattened
<1> QED
  BY <1>1, <1>3 DEF Flattened, Finite

\* A type that is less deep is one of the depth.
LEMMA TypesGrow ==
  ASSUME NEW n \in Depths, n # 0
  PROVE  typesAt[n - 1] \subseteq typesAt[n]
<1> DEFINE S == {k \in Depths : k # 0 => typesAt[k - 1] \subseteq typesAt[k]}
<1>1. 0 \in S
  BY DepthsAre
<1>2. ASSUME NEW k \in Depths, k # 0, k - 1 \in S PROVE k \in S
  <2>1. k - 1 \in Depths
    BY <1>2
  <2>2. PartsAt(k - 1) \subseteq PartsAt(k)
    <3>1. CASE k - 1 = 0
      BY <3>1 DEF PartsAt, PartsOver
    <3>2. CASE k - 1 # 0
      <4>1. typesAt[(k - 1) - 1] \subseteq typesAt[k - 1]
        BY <1>2, <3>2
      <4>2. Seq(typesAt[(k - 1) - 1]) \subseteq Seq(typesAt[k - 1])
        BY <4>1
      <4> QED
        BY <4>1, <4>2, <1>2, <3>2 DEF PartsAt, PartsOver
    <3> QED
      BY <3>1, <3>2
  <2>3. Finite(PartsAt(k - 1)) \subseteq Finite(PartsAt(k))
    BY <2>2 DEF Finite
  <2> QED
    BY <2>1, <2>2, <2>3, TypesAtAre
<1>3. Depths \subseteq S
  <2> HIDE DEF S
  <2> QED
    BY <1>1, <1>2, ByDepth
<1> QED
  BY <1>3

-----------------------------------------------------------------------------
\* A function by stages, where a stage is made of the one before it.
Staged(f, start, step, M) == f = [n \in 0 .. M |-> IF n = 0 THEN start ELSE step[n][f[n - 1]]]

LEMMA StagedExist ==
  ASSUME NEW start, NEW step
  PROVE  \A n \in Nat : \E f : Staged(f, start, step, n)
<1> DEFINE S == {n \in Nat : \E f : Staged(f, start, step, n)}
<1>1. 0 \in S
  <2>1. Staged([n \in 0 .. 0 |-> start], start, step, 0)
    BY DEF Staged
  <2> QED
    BY <2>1
<1>2. ASSUME NEW n \in Nat, n \in S PROVE n + 1 \in S
  <2>1. PICK f : Staged(f, start, step, n)
    BY <1>2
  <2> DEFINE g == [k \in 0 .. n + 1 |-> IF k <= n THEN f[k] ELSE step[k][f[n]]]
  <2>2. ASSUME NEW k \in 0 .. n + 1 PROVE g[k] = IF k = 0 THEN start ELSE step[k][g[k - 1]]
    <3>1. CASE k = 0
      BY <2>1, <3>1 DEF Staged
    <3>2. CASE k \in 1 .. n
      <4>1. g[k] = f[k] /\ g[k - 1] = f[k - 1] /\ f[k] = step[k][f[k - 1]] /\ k # 0
        BY <2>1, <3>2 DEF Staged
      <4> QED
        BY <4>1
    <3>3. CASE k = n + 1
      <4>1. g[k] = step[k][f[n]] /\ g[k - 1] = f[n] /\ k # 0
        BY <3>3
      <4> QED
        BY <4>1
    <3> QED
      BY <3>1, <3>2, <3>3
  <2>3. Staged(g, start, step, n + 1)
    BY <2>2 DEF Staged
  <2> QED
    BY <2>3
<1>3. Nat \subseteq S
  <2> HIDE DEF S
  <2> QED
    BY <1>1, <1>2, FromZeroUp
<1> QED
  BY <1>3

\* Where each stage is good when it is made of a good one, all of them are.
LEMMA StagesAre ==
  ASSUME NEW good, NEW start \in good[0], NEW step,
         \A n \in Depths : \A v \in good[n - 1] : n # 0 => step[n][v] \in good[n]
  PROVE  \E f : /\ Staged(f, start, step, MaxDepth)
                /\ \A n \in Depths : f[n] \in good[n]
<1>1. PICK f : Staged(f, start, step, MaxDepth)
  BY StagedExist, UnionConstants
<1>2. /\ f[0] = start
      /\ \A n \in Depths : n # 0 => f[n] = step[n][f[n - 1]]
  BY <1>1, DepthsAre DEF Staged, Depths
<1> DEFINE S == {n \in Depths : f[n] \in good[n]}
<1>3. 0 \in S
  BY <1>2, DepthsAre
<1>4. \A n \in Depths : n # 0 /\ n - 1 \in S => n \in S
  BY <1>2
<1>5. Depths \subseteq S
  <2> HIDE DEF S
  <2> QED
    BY <1>3, <1>4, ByDepth
<1> QED
  BY <1>1, <1>5

-----------------------------------------------------------------------------
\* What is merged, when arrays are.
AllElements(parts) == UNION {ElementsOf(type) : type \in ArrayLike(parts)}
Merges(parts) ==
  ~(\/ Cardinality(ArrayLike(parts)) <= 1
    \/ /\ \A type \in ArrayLike(parts) : IsTuple(type)
       /\ TupleLengths(ArrayLike(parts)) # {0}
       /\ Cardinality(TupleLengths(ArrayLike(parts))) = 1)

LEMMA MergeArrayUnionIs ==
  ASSUME NEW parts, NEW inner
  PROVE  MergeArrayUnion(parts, inner) =
           IF Merges(parts) THEN (parts \ ArrayLike(parts)) \union {ArrayOf(inner[AllElements(parts)])}
           ELSE parts
BY DEF MergeArrayUnion, Merges, AllElements

LEMMA ElementsIn ==
  ASSUME NEW n \in Depths, n # 0, NEW p \in PartsAt(n), p[1] \in {"ArrayOf", "Tuple"}
  PROVE  ElementsOf(p) \in Finite(typesAt[n - 1])
<1>1. CASE p[1] = "ArrayOf"
  <2>1. ElementsOf(p) = {p[2]} /\ p[2] \in typesAt[n - 1]
    BY <1>1, PartCases DEF ElementsOf
  <2>2. IsFiniteSet({p[2]})
    BY FS_Singleton
  <2> QED
    BY <2>1, <2>2 DEF Finite
<1>2. CASE p[1] = "Tuple"
  <2> DEFINE s == p[2]
  <2>1. s \in Seq(typesAt[n - 1])
    BY <1>2, PartCases
  <2>2. s \in [1 .. Len(s) -> typesAt[n - 1]] /\ DOMAIN s = 1 .. Len(s) /\ Len(s) \in Nat
    BY <2>1
  <2>3. IsFiniteSet(1 .. Len(s))
    BY <2>2, FS_Interval
  <2>4. IsFiniteSet({s[i] : i \in DOMAIN s}) /\ {s[i] : i \in DOMAIN s} \subseteq typesAt[n - 1]
    <3> HIDE DEF s
    <3> QED
      BY <2>2, <2>3, FiniteRange
  <2>5. ElementsOf(p) = {s[i] : i \in DOMAIN s}
    BY <1>2 DEF ElementsOf
  <2> QED
    BY <2>4, <2>5 DEF Finite
<1> QED
  BY <1>1, <1>2

LEMMA AllElementsIn ==
  ASSUME NEW n \in Depths, NEW P \in Finite(PartsAt(n))
  PROVE  /\ n = 0 => ArrayLike(P) = {} /\ ~Merges(P)
         /\ n # 0 => AllElements(P) \in Finite(typesAt[n - 1])
<1>1. P \subseteq PartsAt(n) /\ IsFiniteSet(P)
  BY DEF Finite
<1>2. ASSUME n = 0 PROVE ArrayLike(P) = {} /\ ~Merges(P)
  <2>1. ArrayLike(P) = {}
    BY <1>1, <1>2, PartCases DEF ArrayLike
  <2>2. Cardinality(ArrayLike(P)) = 0
    BY <2>1, FS_EmptySet
  <2> QED
    BY <2>1, <2>2 DEF Merges
<1>3. ASSUME n # 0 PROVE AllElements(P) \in Finite(typesAt[n - 1])
  <2> DEFINE A == ArrayLike(P)
             f == [t \in A |-> ElementsOf(t)]
  <2>1. A \subseteq P /\ \A t \in A : t[1] \in {"ArrayOf", "Tuple"}
    BY DEF ArrayLike
  <2>2. IsFiniteSet(A)
    BY <1>1, <2>1, FS_Subset
  <2>3. \A t \in A : ElementsOf(t) \in Finite(typesAt[n - 1])
    BY <1>1, <1>3, <2>1, ElementsIn
  <2>4. f \in [A -> Finite(typesAt[n - 1])]
    BY <2>3
  <2>5. IsFiniteSet({f[t] : t \in A})
    <3> HIDE DEF f, A
    <3> QED
      BY <2>2, <2>4, FiniteRange
  <2>6. IsFiniteSet({ElementsOf(t) : t \in A})
    BY <2>5
  <2>7. \A E \in {ElementsOf(t) : t \in A} : IsFiniteSet(E) /\ E \subseteq typesAt[n - 1]
    BY <2>3 DEF Finite
  <2>8. IsFiniteSet(UNION {ElementsOf(t) : t \in A})
    <3> HIDE DEF A
    <3> QED
      BY <2>6, <2>7, FS_UNION
  <2> QED
    BY <2>7, <2>8 DEF AllElements, Finite
<1> QED
  BY <1>2, <1>3

LEMMA AsTypeIn ==
  ASSUME NEW n \in Depths, NEW P \in Finite(PartsAt(n))
  PROVE  /\ AsType(P) \in typesAt[n]
         /\ P = {} => AsType(P) = Untyped
         /\ P # {} => UnionParts(AsType(P)) = P
<1>1. P \subseteq PartsAt(n) /\ IsFiniteSet(P)
  BY DEF Finite
<1>2. CASE P = {}
  <2>1. Untyped \in PartsAt(n)
    BY PartsBuilt DEF Scalars
  <2> QED
    BY <1>2, <2>1, PartsOf DEF AsType
<1>3. CASE P # {} /\ Cardinality(P) = 1
  <2>1. PICK p : P = {p}
    BY <1>1, <1>3, FS_Singleton
  <2>2. AsType(P) = p
    BY <1>3, <2>1 DEF AsType
  <2> QED
    BY <1>1, <2>1, <2>2, PartsOf
<1>4. CASE P # {} /\ Cardinality(P) # 1
  BY <1>4, UnionsBuilt DEF AsType
<1> QED
  BY <1>2, <1>3, <1>4

\* What is made of less deep types is one of them.
Stays(n, inner) == n # 0 => \A E \in Finite(typesAt[n - 1]) : inner[E] \in typesAt[n - 1]
Alike(n, inner, other) == n # 0 => \A E \in Finite(typesAt[n - 1]) : inner[E] = other[E]

LEMMA MergedIn ==
  ASSUME NEW n \in Depths, NEW P \in Finite(PartsAt(n)), NEW inner, Stays(n, inner)
  PROVE  MergeArrayUnion(P, inner) \in Finite(PartsAt(n))
<1>1. CASE ~Merges(P)
  BY <1>1, MergeArrayUnionIs
<1>2. CASE Merges(P)
  <2>1. n # 0
    BY <1>2, AllElementsIn
  <2>2. inner[AllElements(P)] \in typesAt[n - 1]
    BY <2>1, AllElementsIn DEF Stays
  <2> DEFINE a == ArrayOf(inner[AllElements(P)])
  <2>3. a \in PartsAt(n)
    BY <2>1, <2>2, PartsBuilt
  <2>4. IsFiniteSet(P \ ArrayLike(P)) /\ P \ ArrayLike(P) \subseteq PartsAt(n)
    BY FS_Difference DEF Finite
  <2>5. IsFiniteSet((P \ ArrayLike(P)) \union {a})
    BY <2>4, FS_AddElement
  <2> QED
    BY <1>2, <2>3, <2>4, <2>5, MergeArrayUnionIs DEF Finite
<1> QED
  BY <1>1, <1>2

LEMMA SubsumedIn ==
  ASSUME NEW n \in Depths, NEW P \in Finite(PartsAt(n))
  PROVE  SubsumeLiterals(P) \in Finite(PartsAt(n))
<1>1. SubsumeLiterals(P) \subseteq P
  BY DEF SubsumeLiterals
<1> QED
  BY <1>1, FS_Subset DEF Finite

LEMMA SubsetIn ==
  ASSUME NEW n \in Depths, NEW P \in Finite(PartsAt(n)), NEW Q \in SUBSET P
  PROVE  Q \in Finite(PartsAt(n))
BY FS_Subset DEF Finite

LEMMA SimplifiedIn ==
  ASSUME NEW n \in Depths, NEW P \in Finite(PartsAt(n)), NEW inner, Stays(n, inner)
  PROVE  Simplified(P, inner) \in typesAt[n]
BY MergedIn, SubsumedIn, AsTypeIn DEF Simplified

LEMMA FromPartsIn ==
  ASSUME NEW n \in Depths, NEW P \in Finite(PartsAt(n)), NEW inner, Stays(n, inner)
  PROVE  FromParts(P, inner) \in typesAt[n]
<1>1. Untyped \in typesAt[n]
  BY PartsBuilt, PartsOf DEF Scalars
<1>2. WithoutBot(P \ {Untyped}) \in Finite(PartsAt(n))
  BY SubsetIn DEF WithoutBot
<1> QED
  BY <1>1, <1>2, SimplifiedIn DEF FromParts

LEMMA InnerMatters ==
  ASSUME NEW n \in Depths, NEW P \in Finite(PartsAt(n)), NEW inner, NEW other,
         Alike(n, inner, other)
  PROVE  /\ Simplified(P, inner) = Simplified(P, other)
         /\ FromParts(P, inner) = FromParts(P, other)
<1>1. ASSUME NEW Q \in Finite(PartsAt(n)) PROVE Simplified(Q, inner) = Simplified(Q, other)
  <2>1. Merges(Q) => inner[AllElements(Q)] = other[AllElements(Q)]
    BY AllElementsIn DEF Alike
  <2>2. MergeArrayUnion(Q, inner) = MergeArrayUnion(Q, other)
    BY <2>1, MergeArrayUnionIs
  <2> QED
    BY <2>2 DEF Simplified
<1>2. WithoutBot(P \ {Untyped}) \in Finite(PartsAt(n))
  BY SubsetIn DEF WithoutBot
<1> QED
  BY <1>1, <1>2 DEF FromParts

\* from_type_vec at a depth, made of the depth below.
FromOver(n, below) == [types \in Finite(typesAt[n]) |-> FromParts(Flattened(types), below)]
FromGood == [n \in Depths |-> [Finite(typesAt[n]) -> typesAt[n]]]

LEMMA FromOverGood ==
  ASSUME NEW n \in Depths, NEW below, Stays(n, below)
  PROVE  FromOver(n, below) \in FromGood[n]
BY FlattenedIn, FromPartsIn DEF FromOver, FromGood

LEMMA FromTypeVecAre ==
  /\ \A n \in Depths : /\ fromTypeVec[n] = FromOver(n, fromTypeVec[n - 1])
                       /\ fromTypeVec[n] \in [Finite(typesAt[n]) -> typesAt[n]]
<1> DEFINE V == UNION {FromGood[n] : n \in Depths}
           start == FromOver(0, {})
           step == [n \in Depths |-> [v \in V |-> FromOver(n, v)]]
           Is(f) == f = [n \in Depths |-> FromOver(n, f[n - 1])]
<1>1. \A below : FromOver(0, below) = start
  <2> TAKE below
  <2>1. \A types \in Finite(typesAt[0]) :
          FromParts(Flattened(types), below) = FromParts(Flattened(types), {})
    BY FlattenedIn, InnerMatters, DepthsAre DEF Alike
  <2> QED
    BY <2>1 DEF FromOver
<1>2. start \in FromGood[0]
  BY FromOverGood, DepthsAre DEF Stays
<1>3. ASSUME NEW n \in Depths, NEW v \in FromGood[n - 1], n # 0
      PROVE  step[n][v] = FromOver(n, v) /\ FromOver(n, v) \in FromGood[n]
  <2>1. n - 1 \in Depths
    BY <1>3, DepthsAre
  <2>2. v \in V /\ Stays(n, v)
    BY <1>3, <2>1 DEF FromGood, Stays
  <2> QED
    BY <2>2, FromOverGood
<1>4. \E f : Is(f)
  <2>1. PICK f : Staged(f, start, step, MaxDepth) /\ \A n \in Depths : f[n] \in FromGood[n]
    <3>1. \A n \in Depths : \A v \in FromGood[n - 1] : n # 0 => step[n][v] \in FromGood[n]
      BY <1>3
    <3> HIDE DEF start, step
    <3> QED
      BY <1>2, <3>1, StagesAre
  <2>2. \A n \in Depths : (IF n = 0 THEN start ELSE step[n][f[n - 1]]) = FromOver(n, f[n - 1])
    <3> HIDE DEF start, step
    <3> QED
      BY <1>1, <1>3, <2>1, DepthsAre
  <2>3. f = [n \in Depths |-> IF n = 0 THEN start ELSE step[n][f[n - 1]]]
    <3> HIDE DEF start, step
    <3> QED
      BY <2>1 DEF Staged, Depths
  <2>4. Is(f)
    <3> HIDE DEF start, step
    <3> QED
      BY <2>2, <2>3
  <2> QED
    BY <2>4
<1>5. fromTypeVec = CHOOSE f : Is(f)
  BY DEF fromTypeVec, FromOver
<1>6. Is(fromTypeVec)
  <2> HIDE DEF Is
  <2> QED
    BY <1>4, <1>5
<1>7. \A n \in Depths : fromTypeVec[n] = FromOver(n, fromTypeVec[n - 1])
  BY <1>6
<1> DEFINE S == {n \in Depths : fromTypeVec[n] \in FromGood[n]}
<1>8. 0 \in S
  BY <1>1, <1>2, <1>7, DepthsAre
<1>9. \A n \in Depths : n # 0 /\ n - 1 \in S => n \in S
  BY <1>3, <1>7
<1>10. Depths \subseteq S
  <2> HIDE DEF S
  <2> QED
    BY <1>8, <1>9, ByDepth
<1> QED
  BY <1>7, <1>10 DEF FromGood

-----------------------------------------------------------------------------
\* The values of an alternative that holds others depend on theirs.
LEMMA ValuesOfArray ==
  ASSUME NEW a, NEW u, NEW inner
  PROVE  ValuesOfPart(ArrayOf(a), u, inner) =
           {v \in SomeValues : v[1] = "Tuple" /\ ElementsOf(v) \subseteq inner[a]}
BY DEF ValuesOfPart, ArrayOf, IsTuple, Untyped, Bool, Integer, SimpleArray

LEMMA ValuesOfTuple ==
  ASSUME NEW s, NEW u, NEW inner
  PROVE  ValuesOfPart(TupleOf(s), u, inner) =
           {v \in SomeValues : /\ v[1] = "Tuple" /\ DOMAIN v[2] = DOMAIN s
                               /\ \A i \in DOMAIN s : v[2][i] \in inner[s[i]]}
<1> DEFINE elements == [i \in DOMAIN s |-> inner[s[i]]]
<1>1. ValuesOfPart(TupleOf(s), u, inner) =
           {v \in SomeValues : /\ v[1] = "Tuple" /\ DOMAIN v[2] = DOMAIN s
                               /\ \A i \in DOMAIN s : v[2][i] \in elements[i]}
  BY DEF ValuesOfPart, TupleOf, IsTuple, Untyped, Bool, Integer, SimpleArray
<1>2. \A i \in DOMAIN s : elements[i] = inner[s[i]]
  OBVIOUS
<1> QED
  BY <1>1, <1>2

LEMMA ValuesOfScalar ==
  ASSUME NEW p \in Scalars, NEW u, NEW w, NEW inner, NEW other
  PROVE  /\ ValuesOfPart(p, u, inner) \subseteq SomeValues
         /\ p # Untyped => ValuesOfPart(p, u, inner) = ValuesOfPart(p, w, other)
         /\ ValuesOfPart(Untyped, u, inner) = IF u THEN SomeValues ELSE {}
<1>1. ValuesOfPart(Untyped, u, inner) = IF u THEN SomeValues ELSE {}
  BY DEF ValuesOfPart, IsTuple, Untyped, Bool, Integer, SimpleArray, Bot, Nil, True, False
<1>2. CASE p \in {Nil, True, False} \/ p \in {"LiteralInteger"} \X Int
  <2>1. p # Untyped /\ p[1] \in {"Nil", "True", "False", "LiteralInteger"}
    BY <1>2 DEF Nil, True, False, Untyped
  <2>2. \A x, y : ValuesOfPart(p, x, y) = SomeValues \intersect {p}
    BY <2>1 DEF ValuesOfPart, IsTuple, Untyped, Bool, Integer, SimpleArray, Bot, Nil, True, False
  <2> QED
    BY <2>1, <2>2, <1>1
<1>3. CASE p = Bool
  <2>1. \A x, y : ValuesOfPart(p, x, y) = SomeValues \intersect {True, False}
    BY <1>3 DEF ValuesOfPart, IsTuple, Untyped, Bool, Integer, SimpleArray, Bot, Nil, True, False
  <2> QED
    BY <2>1, <1>1
<1>4. CASE p = Integer
  <2>1. \A x, y : ValuesOfPart(p, x, y) = {v \in SomeValues : v[1] = "LiteralInteger"}
    BY <1>4 DEF ValuesOfPart, IsTuple, Untyped, Bool, Integer, SimpleArray, Bot, Nil, True, False
  <2> QED
    BY <2>1, <1>1
<1>5. CASE p = SimpleArray
  <2>1. \A x, y : ValuesOfPart(p, x, y) = {v \in SomeValues : v[1] = "Tuple"}
    BY <1>5 DEF ValuesOfPart, IsTuple, Untyped, Bool, Integer, SimpleArray, Bot, Nil, True, False
  <2> QED
    BY <2>1, <1>1
<1>6. CASE p = Bot
  <2>1. \A x, y : ValuesOfPart(p, x, y) = {}
    BY <1>6 DEF ValuesOfPart, IsTuple, Untyped, Bool, Integer, SimpleArray, Bot, Nil, True, False
  <2> QED
    BY <2>1, <1>1
<1>7. CASE p = Untyped
  <2>1. ValuesOfPart(p, u, inner) \subseteq SomeValues
    BY <1>1, <1>7
  <2> QED
    BY <2>1, <1>1, <1>7
<1> QED
  BY <1>2, <1>3, <1>4, <1>5, <1>6, <1>7 DEF Scalars

LEMMA ValuesMeet ==
  ASSUME NEW n \in Depths, NEW p \in PartsAt(n), NEW u, NEW w, NEW inner, NEW other,
         p = Untyped => (u => w),
         p[1] \in {"ArrayOf", "Tuple"} => \A e \in ElementsOf(p) : inner[e] \subseteq other[e]
  PROVE  /\ ValuesOfPart(p, u, inner) \subseteq ValuesOfPart(p, w, other)
         /\ ValuesOfPart(p, u, inner) \subseteq SomeValues
<1>1. CASE p \in Scalars
  <2>1. CASE p # Untyped
    BY <1>1, <2>1, ValuesOfScalar
  <2>2. CASE p = Untyped
    <3>1. /\ ValuesOfPart(p, u, inner) = IF u THEN SomeValues ELSE {}
          /\ ValuesOfPart(p, w, other) = IF w THEN SomeValues ELSE {}
      BY <1>1, <2>2, ValuesOfScalar
    <3>2. CASE u
      BY <2>2, <3>1, <3>2
    <3>3. CASE ~u
      BY <3>1, <3>3
    <3> QED
      BY <3>2, <3>3
  <2> QED
    BY <2>1, <2>2
<1>2. CASE p[1] = "ArrayOf" /\ p = ArrayOf(p[2])
  <2>1. p[2] \in ElementsOf(p)
    BY <1>2 DEF ElementsOf
  <2> QED
    BY <1>2, <2>1, ValuesOfArray
<1>3. CASE p[1] = "Tuple" /\ p = TupleOf(p[2])
  <2>1. \A i \in DOMAIN p[2] : p[2][i] \in ElementsOf(p)
    BY <1>3 DEF ElementsOf
  <2> QED
    BY <1>3, <2>1, ValuesOfTuple
<1> QED
  BY <1>1, <1>2, <1>3, PartCases

\* A value of an array or a tuple is one of an array that has the elements.
LEMMA ValuesIntoArray ==
  ASSUME NEW n \in Depths, NEW p \in PartsAt(n), p[1] \in {"ArrayOf", "Tuple"},
         NEW u, NEW w, NEW inner, NEW other, NEW a,
         \A e \in ElementsOf(p) : inner[e] \subseteq other[a]
  PROVE  ValuesOfPart(p, u, inner) \subseteq ValuesOfPart(ArrayOf(a), w, other)
<1>1. CASE p[1] = "ArrayOf" /\ p = ArrayOf(p[2])
  <2>1. p[2] \in ElementsOf(p)
    BY <1>1 DEF ElementsOf
  <2> QED
    BY <1>1, <2>1, ValuesOfArray
<1>2. CASE p[1] = "Tuple" /\ p = TupleOf(p[2])
  <2>1. \A i \in DOMAIN p[2] : p[2][i] \in ElementsOf(p)
    BY <1>2 DEF ElementsOf
  <2>2. ASSUME NEW v \in ValuesOfPart(p, u, inner) PROVE v \in ValuesOfPart(ArrayOf(a), w, other)
    <3>1. /\ v \in SomeValues /\ v[1] = "Tuple" /\ DOMAIN v[2] = DOMAIN p[2]
          /\ \A i \in DOMAIN p[2] : v[2][i] \in inner[p[2][i]]
      BY <1>2, <2>2, ValuesOfTuple
    <3>2. ElementsOf(v) \subseteq other[a]
      BY <2>1, <3>1 DEF ElementsOf
    <3> QED
      BY <3>1, <3>2, ValuesOfArray
  <2> QED
    BY <2>2
<1> QED
  BY <1>1, <1>2, PartCases, ScalarTags

ValuesOver(n, below) ==
  [untyped \in BOOLEAN |->
     [type \in typesAt[n] |->
        UNION {ValuesOfPart(part, untyped, below[untyped]) : part \in UnionParts(type)}]]
ValuesGood == [n \in Depths |-> [BOOLEAN -> [typesAt[n] -> SUBSET SomeValues]]]

LEMMA ValuesOverGood ==
  ASSUME NEW n \in Depths, NEW below
  PROVE  ValuesOver(n, below) \in ValuesGood[n]
<1>1. ASSUME NEW type \in typesAt[n], NEW untyped \in BOOLEAN
      PROVE  UNION {ValuesOfPart(part, untyped, below[untyped]) : part \in UnionParts(type)}
               \in SUBSET SomeValues
  <2>1. \A part \in UnionParts(type) : ValuesOfPart(part, untyped, below[untyped]) \subseteq SomeValues
    BY PartsOf, ValuesMeet DEF Finite
  <2> QED
    BY <2>1
<1> QED
  BY <1>1 DEF ValuesOver, ValuesGood

LEMMA ValuesOfAre ==
  \A n \in Depths : /\ valuesOf[n] = ValuesOver(n, valuesOf[n - 1])
                    /\ valuesOf[n] \in [BOOLEAN -> [typesAt[n] -> SUBSET SomeValues]]
<1> DEFINE V == UNION {ValuesGood[n] : n \in Depths}
           start == ValuesOver(0, {})
           step == [n \in Depths |-> [v \in V |-> ValuesOver(n, v)]]
           Is(f) == f = [n \in Depths |-> ValuesOver(n, f[n - 1])]
<1>1. \A below : ValuesOver(0, below) = start
  <2> TAKE below
  <2>1. ASSUME NEW type \in typesAt[0], NEW untyped \in BOOLEAN, NEW part \in UnionParts(type)
        PROVE  ValuesOfPart(part, untyped, below[untyped]) = ValuesOfPart(part, untyped, {}[untyped])
    <3>1. part \in PartsAt(0)
      BY PartsOf, DepthsAre DEF Finite
    <3>2. part \in Scalars
      BY <3>1, PartCases, DepthsAre
    <3>3. CASE part # Untyped
      BY <3>2, <3>3, ValuesOfScalar
    <3>4. CASE part = Untyped
      BY <3>2, <3>4, ValuesOfScalar
    <3> QED
      BY <3>3, <3>4
  <2> QED
    BY <2>1 DEF ValuesOver
<1>2. start \in ValuesGood[0]
  BY ValuesOverGood, DepthsAre
<1>3. ASSUME NEW n \in Depths, NEW v \in ValuesGood[n - 1], n # 0
      PROVE  step[n][v] = ValuesOver(n, v) /\ ValuesOver(n, v) \in ValuesGood[n]
  <2>1. n - 1 \in Depths
    BY <1>3, DepthsAre
  <2>2. v \in V
    BY <1>3, <2>1
  <2> QED
    BY <2>2, ValuesOverGood
<1>4. \E f : Is(f)
  <2>1. PICK f : Staged(f, start, step, MaxDepth) /\ \A n \in Depths : f[n] \in ValuesGood[n]
    <3>1. \A n \in Depths : \A v \in ValuesGood[n - 1] : n # 0 => step[n][v] \in ValuesGood[n]
      BY <1>3
    <3> HIDE DEF start, step
    <3> QED
      BY <1>2, <3>1, StagesAre
  <2>2. \A n \in Depths : (IF n = 0 THEN start ELSE step[n][f[n - 1]]) = ValuesOver(n, f[n - 1])
    <3> HIDE DEF start, step
    <3> QED
      BY <1>1, <1>3, <2>1, DepthsAre
  <2>3. f = [n \in Depths |-> IF n = 0 THEN start ELSE step[n][f[n - 1]]]
    <3> HIDE DEF start, step
    <3> QED
      BY <2>1 DEF Staged, Depths
  <2>4. Is(f)
    <3> HIDE DEF start, step
    <3> QED
      BY <2>2, <2>3
  <2> QED
    BY <2>4
<1>5. valuesOf = CHOOSE f : Is(f)
  BY DEF valuesOf, ValuesOver
<1>6. Is(valuesOf)
  <2> HIDE DEF Is
  <2> QED
    BY <1>4, <1>5
<1>7. \A n \in Depths : valuesOf[n] = ValuesOver(n, valuesOf[n - 1])
  BY <1>6
<1> QED
  BY <1>7, ValuesOverGood DEF ValuesGood

\* The values of an alternative, and of several, at a depth.
PartValues(n, u, p) == ValuesOfPart(p, u, valuesOf[n - 1][u])
AllValues(n, u, parts) == UNION {PartValues(n, u, p) : p \in parts}

LEMMA ValuesAre ==
  ASSUME NEW n \in Depths, NEW u \in BOOLEAN, NEW t \in typesAt[n]
  PROVE  /\ valuesOf[n][u][t] = AllValues(n, u, UnionParts(t))
         /\ valuesOf[n][u][t] \subseteq SomeValues
<1>1. valuesOf[n] = ValuesOver(n, valuesOf[n - 1])
  BY ValuesOfAre
<1>2. valuesOf[n][u][t] = AllValues(n, u, UnionParts(t))
  BY <1>1 DEF ValuesOver, AllValues, PartValues
<1>3. valuesOf[n][u][t] \subseteq SomeValues
  BY ValuesOfAre
<1> QED
  BY <1>2, <1>3

\* What is known is possible.
LEMMA KnownPossible ==
  ASSUME NEW n \in Depths
  PROVE  /\ \A t \in typesAt[n] : valuesOf[n][FALSE][t] \subseteq valuesOf[n][TRUE][t]
         /\ \A p \in PartsAt(n) : PartValues(n, FALSE, p) \subseteq PartValues(n, TRUE, p)
<1> DEFINE S == {k \in Depths : \A t \in typesAt[k] : valuesOf[k][FALSE][t] \subseteq valuesOf[k][TRUE][t]}
<1>1. ASSUME NEW k \in Depths, k = 0 \/ k - 1 \in S, NEW p \in PartsAt(k)
      PROVE  PartValues(k, FALSE, p) \subseteq PartValues(k, TRUE, p)
  <2>1. p[1] \in {"ArrayOf", "Tuple"} =>
          \A e \in ElementsOf(p) : valuesOf[k - 1][FALSE][e] \subseteq valuesOf[k - 1][TRUE][e]
    <3> SUFFICES ASSUME p[1] \in {"ArrayOf", "Tuple"}, NEW e \in ElementsOf(p)
                 PROVE  valuesOf[k - 1][FALSE][e] \subseteq valuesOf[k - 1][TRUE][e]
      OBVIOUS
    <3>1. k # 0
      BY PartCases, ScalarTags
    <3>2. e \in typesAt[k - 1]
      BY <3>1, ElementsIn DEF Finite
    <3> QED
      BY <1>1, <3>1, <3>2
  <2>2. /\ ValuesOfPart(p, FALSE, valuesOf[k - 1][FALSE]) \subseteq
              ValuesOfPart(p, TRUE, valuesOf[k - 1][TRUE])
    <3> DEFINE below == valuesOf[k - 1]
    <3> HIDE DEF S, below
    <3>1. p[1] \in {"ArrayOf", "Tuple"} => \A e \in ElementsOf(p) : below[FALSE][e] \subseteq below[TRUE][e]
      BY <2>1 DEF below
    <3>2. p = Untyped => (FALSE => TRUE)
      OBVIOUS
    <3>3. ValuesOfPart(p, FALSE, below[FALSE]) \subseteq ValuesOfPart(p, TRUE, below[TRUE])
      BY ONLY <1>1, <3>1, <3>2, ValuesMeet
    <3> QED
      BY <3>3 DEF below
  <2> QED
    BY <2>2 DEF PartValues
<1>2. ASSUME NEW k \in Depths, k = 0 \/ k - 1 \in S PROVE k \in S
  <2> SUFFICES ASSUME NEW t \in typesAt[k] PROVE valuesOf[k][FALSE][t] \subseteq valuesOf[k][TRUE][t]
    OBVIOUS
  <2>1. \A p \in UnionParts(t) : PartValues(k, FALSE, p) \subseteq PartValues(k, TRUE, p)
    <3> HIDE DEF S
    <3> QED
      BY <1>1, <1>2, PartsOf DEF Finite
  <2>2. /\ valuesOf[k][FALSE][t] = UNION {PartValues(k, FALSE, p) : p \in UnionParts(t)}
        /\ valuesOf[k][TRUE][t] = UNION {PartValues(k, TRUE, p) : p \in UnionParts(t)}
    BY ValuesAre DEF AllValues
  <2> QED
    BY <2>1, <2>2
<1>3. Depths \subseteq S
  <2> HIDE DEF S
  <2> QED
    BY <1>2, ByDepth, DepthsAre
<1>4. n = 0 \/ n - 1 \in S
  BY <1>3, DepthsAre
<1> QED
  BY <1>1, <1>3, <1>4

-----------------------------------------------------------------------------
\* Values are kept by every step of a merge.
LEMMA AsTypeValues ==
  ASSUME NEW n \in Depths, NEW P \in Finite(PartsAt(n)), NEW u \in BOOLEAN
  PROVE  AllValues(n, u, P) \subseteq valuesOf[n][u][AsType(P)]
<1>1. CASE P = {}
  BY <1>1 DEF AllValues
<1>2. CASE P # {}
  BY <1>2, AsTypeIn, ValuesAre
<1> QED
  BY <1>1, <1>2

LEMMA UntypedValues ==
  ASSUME NEW n \in Depths
  PROVE  /\ Untyped \in typesAt[n] /\ Untyped \in PartsAt(n)
         /\ valuesOf[n][TRUE][Untyped] = SomeValues
         /\ PartValues(n, FALSE, Untyped) = {}
         /\ \A u : PartValues(n, u, Bot) = {}
<1>1. Untyped \in Scalars /\ Bot \in Scalars /\ Bot # Untyped
  BY DEF Scalars, Bot, Untyped
<1>2. Untyped \in typesAt[n] /\ Untyped \in PartsAt(n)
  BY <1>1, PartsBuilt, PartsOf
<1>3. \A below : ValuesOfPart(Untyped, FALSE, below) = {} /\ ValuesOfPart(Untyped, TRUE, below) = SomeValues
  BY <1>1, ValuesOfScalar
<1>4. \A u, below : ValuesOfPart(Bot, u, below) = {}
  BY DEF ValuesOfPart, IsTuple, Untyped, Bool, Integer, SimpleArray, Bot, Nil, True, False
<1>5. valuesOf[n][TRUE][Untyped] = AllValues(n, TRUE, {Untyped})
  BY <1>2, ValuesAre, PartsOf
<1>6. AllValues(n, TRUE, {Untyped}) = PartValues(n, TRUE, Untyped)
  BY DEF AllValues
<1> QED
  BY <1>2, <1>3, <1>4, <1>5, <1>6 DEF PartValues

LEMMA LiteralValues ==
  ASSUME NEW u, NEW below, NEW p \in Scalars
  PROVE  /\ p[1] = "LiteralInteger" =>
              ValuesOfPart(p, u, below) \subseteq ValuesOfPart(Integer, u, below)
         /\ p \in {True, False} => ValuesOfPart(p, u, below) \subseteq ValuesOfPart(Bool, u, below)
<1>1. ASSUME p[1] = "LiteralInteger"
      PROVE  ValuesOfPart(p, u, below) \subseteq ValuesOfPart(Integer, u, below)
  <2>1. ValuesOfPart(p, u, below) = SomeValues \intersect {p}
    BY <1>1 DEF ValuesOfPart, IsTuple, Untyped, Bool, Integer, SimpleArray, Bot, Nil, True, False
  <2>2. ValuesOfPart(Integer, u, below) = {v \in SomeValues : v[1] = "LiteralInteger"}
    BY DEF ValuesOfPart, IsTuple, Untyped, Bool, Integer, SimpleArray, Bot, Nil, True, False
  <2> QED
    BY <1>1, <2>1, <2>2
<1>2. ASSUME p \in {True, False}
      PROVE  ValuesOfPart(p, u, below) \subseteq ValuesOfPart(Bool, u, below)
  <2>1. ValuesOfPart(True, u, below) = SomeValues \intersect {True}
    BY DEF ValuesOfPart, IsTuple, Untyped, Bool, Integer, SimpleArray, Bot, Nil, True, False
  <2>2. ValuesOfPart(False, u, below) = SomeValues \intersect {False}
    BY DEF ValuesOfPart, IsTuple, Untyped, Bool, Integer, SimpleArray, Bot, Nil, True, False
  <2>3. ValuesOfPart(Bool, u, below) = SomeValues \intersect {True, False}
    BY DEF ValuesOfPart, IsTuple, Untyped, Bool, Integer, SimpleArray, Bot, Nil, True, False
  <2> QED
    BY <1>2, <2>1, <2>2, <2>3
<1> QED
  BY <1>1, <1>2

\* A literal that is dropped is there as its class.
LEMMA SubsumedValues ==
  ASSUME NEW n \in Depths, NEW P \in Finite(PartsAt(n)), NEW u \in BOOLEAN
  PROVE  AllValues(n, u, P) \subseteq AllValues(n, u, SubsumeLiterals(P))
<1> SUFFICES ASSUME NEW p \in P
             PROVE  \E q \in SubsumeLiterals(P) : PartValues(n, u, p) \subseteq PartValues(n, u, q)
  BY DEF AllValues
<1>1. P \subseteq PartsAt(n)
  BY DEF Finite
<1>2. CASE p \in SubsumeLiterals(P)
  BY <1>2
<1>3. CASE p[1] = "LiteralInteger" /\ Integer \in P
  <2>1. Integer \in SubsumeLiterals(P)
    BY <1>3 DEF SubsumeLiterals, Integer, True, False
  <2>2. p \in Scalars
    BY <1>1, <1>3, PartCases
  <2> QED
    BY <1>3, <2>1, <2>2, LiteralValues DEF PartValues
<1>4. CASE p \in {True, False} /\ Bool \in P
  <2>1. Bool \in SubsumeLiterals(P)
    BY <1>4 DEF SubsumeLiterals, Bool, True, False
  <2>2. p \in Scalars
    BY <1>4 DEF Scalars
  <2> QED
    BY <1>4, <2>1, <2>2, LiteralValues DEF PartValues
<1> QED
  BY <1>2, <1>3, <1>4 DEF SubsumeLiterals

LEMMA SimplifiedValues ==
  ASSUME NEW n \in Depths, NEW P \in Finite(PartsAt(n)), NEW inner, Stays(n, inner),
         NEW u \in BOOLEAN, NEW Q \in SUBSET SomeValues,
         \E q \in MergeArrayUnion(P, inner) : Q \subseteq PartValues(n, u, q)
  PROVE  Q \subseteq valuesOf[n][u][Simplified(P, inner)]
<1> DEFINE M == MergeArrayUnion(P, inner)
<1>1. M \in Finite(PartsAt(n))
  BY MergedIn
<1>2. Q \subseteq AllValues(n, u, M)
  BY DEF AllValues
<1>3. SubsumeLiterals(M) \in Finite(PartsAt(n))
  <2> HIDE DEF M
  <2> QED
    BY <1>1, SubsumedIn
<1>4. AllValues(n, u, M) \subseteq AllValues(n, u, SubsumeLiterals(M))
  <2> HIDE DEF M
  <2> QED
    BY <1>1, SubsumedValues
<1>5. AllValues(n, u, SubsumeLiterals(M)) \subseteq valuesOf[n][u][AsType(SubsumeLiterals(M))]
  <2> HIDE DEF M
  <2> QED
    BY <1>3, AsTypeValues
<1> QED
  BY <1>2, <1>4, <1>5 DEF Simplified

\* Below a depth, what a value is known to be it may be in what is made.
CoversBelow(n, inner) ==
  n # 0 => \A E \in Finite(typesAt[n - 1]) : \A e \in E :
             valuesOf[n - 1][FALSE][e] \subseteq valuesOf[n - 1][TRUE][inner[E]]

LEMMA PartValuesIn ==
  ASSUME NEW n \in Depths, NEW p \in PartsAt(n), NEW u \in BOOLEAN
  PROVE  PartValues(n, u, p) \in SUBSET SomeValues
BY ValuesMeet DEF PartValues

LEMMA SimplifiedPossible ==
  ASSUME NEW n \in Depths, NEW P \in Finite(PartsAt(n)), NEW inner, Stays(n, inner),
         NEW p \in P, ~Merges(P) \/ p[1] \notin {"ArrayOf", "Tuple"}
  PROVE  PartValues(n, TRUE, p) \subseteq valuesOf[n][TRUE][Simplified(P, inner)]
<1>1. p \in MergeArrayUnion(P, inner)
  BY MergeArrayUnionIs DEF ArrayLike
<1>2. PartValues(n, TRUE, p) \in SUBSET SomeValues
  BY PartValuesIn DEF Finite
<1> QED
  BY <1>1, <1>2, SimplifiedValues

LEMMA SimplifiedCovers ==
  ASSUME NEW n \in Depths, NEW P \in Finite(PartsAt(n)), NEW inner, Stays(n, inner),
         CoversBelow(n, inner), NEW p \in P
  PROVE  PartValues(n, FALSE, p) \subseteq valuesOf[n][TRUE][Simplified(P, inner)]
<1>1. p \in PartsAt(n)
  BY DEF Finite
<1>2. PartValues(n, FALSE, p) \in SUBSET SomeValues
  BY <1>1, PartValuesIn
<1>3. CASE ~Merges(P) \/ p[1] \notin {"ArrayOf", "Tuple"}
  BY <1>1, <1>3, SimplifiedPossible, KnownPossible
<1>4. CASE Merges(P) /\ p[1] \in {"ArrayOf", "Tuple"}
  <2> DEFINE E == AllElements(P)
  <2>1. n # 0 /\ E \in Finite(typesAt[n - 1])
    BY <1>4, AllElementsIn
  <2>2. ElementsOf(p) \subseteq E
    BY <1>4 DEF AllElements, ArrayLike
  <2>3. \A e \in ElementsOf(p) :
          valuesOf[n - 1][FALSE][e] \subseteq valuesOf[n - 1][TRUE][inner[E]]
    BY <2>1, <2>2 DEF CoversBelow
  <2>4. PartValues(n, FALSE, p) \subseteq PartValues(n, TRUE, ArrayOf(inner[E]))
    <3> DEFINE g == valuesOf[n - 1][FALSE]
               h == valuesOf[n - 1][TRUE]
               a == inner[E]
    <3>1. \A e \in ElementsOf(p) : g[e] \subseteq h[a]
      BY <2>3
    <3> HIDE DEF g, h, a
    <3>2. ValuesOfPart(p, FALSE, g) \subseteq ValuesOfPart(ArrayOf(a), TRUE, h)
      BY <1>1, <1>4, <3>1, ValuesIntoArray
    <3> QED
      BY <3>2 DEF g, h, a, PartValues
  <2>5. ArrayOf(inner[E]) \in MergeArrayUnion(P, inner)
    BY <1>4, MergeArrayUnionIs
  <2> QED
    BY <1>2, <2>4, <2>5, SimplifiedValues
<1> QED
  BY <1>3, <1>4

LEMMA FromPartsPossible ==
  ASSUME NEW n \in Depths, NEW P \in Finite(PartsAt(n)), NEW inner, Stays(n, inner),
         NEW p \in P, p # Untyped,
         ~Merges(WithoutBot(P \ {Untyped})) \/ p[1] \notin {"ArrayOf", "Tuple"}
  PROVE  PartValues(n, TRUE, p) \subseteq valuesOf[n][TRUE][FromParts(P, inner)]
<1> DEFINE Q == WithoutBot(P \ {Untyped})
<1>1. p \in PartsAt(n)
  BY DEF Finite
<1>2. CASE FromParts(P, inner) = Untyped
  BY <1>1, <1>2, UntypedValues, PartValuesIn
<1>3. CASE FromParts(P, inner) = Simplified(Q, inner)
  <2>1. Q \in Finite(PartsAt(n))
    BY SubsetIn DEF WithoutBot
  <2>2. CASE p = Bot
    BY <2>2, UntypedValues
  <2>3. CASE p # Bot
    <3>1. p \in Q
      BY <2>3 DEF WithoutBot
    <3> HIDE DEF Q
    <3>2. PartValues(n, TRUE, p) \subseteq valuesOf[n][TRUE][Simplified(Q, inner)]
      BY <2>1, <3>1, SimplifiedPossible DEF Q
    <3> QED
      BY <1>3, <3>2
  <2> QED
    BY <2>2, <2>3
<1> QED
  BY <1>2, <1>3 DEF FromParts

LEMMA FromPartsCovers ==
  ASSUME NEW n \in Depths, NEW P \in Finite(PartsAt(n)), NEW inner, Stays(n, inner),
         CoversBelow(n, inner), NEW p \in P
  PROVE  PartValues(n, FALSE, p) \subseteq valuesOf[n][TRUE][FromParts(P, inner)]
<1> DEFINE Q == WithoutBot(P \ {Untyped})
<1>1. p \in PartsAt(n)
  BY DEF Finite
<1>2. CASE FromParts(P, inner) = Untyped
  BY <1>1, <1>2, UntypedValues, PartValuesIn
<1>3. CASE FromParts(P, inner) = Simplified(Q, inner)
  <2>1. Q \in Finite(PartsAt(n))
    BY SubsetIn DEF WithoutBot
  <2>2. CASE p \in {Bot, Untyped}
    BY <2>2, UntypedValues
  <2>3. CASE p \notin {Bot, Untyped}
    <3>1. p \in Q
      BY <2>3 DEF WithoutBot
    <3> HIDE DEF Q
    <3>2. PartValues(n, FALSE, p) \subseteq valuesOf[n][TRUE][Simplified(Q, inner)]
      BY <2>1, <3>1, SimplifiedCovers
    <3> QED
      BY <1>3, <3>2
  <2> QED
    BY <2>2, <2>3
<1> QED
  BY <1>2, <1>3 DEF FromParts

LEMMA FromTypeVecStays ==
  ASSUME NEW n \in Depths
  PROVE  Stays(n, fromTypeVec[n - 1])
<1>1. CASE n = 0
  BY <1>1 DEF Stays
<1>2. CASE n # 0
  <2>1. n - 1 \in Depths
    BY <1>2, DepthsAre
  <2> QED
    BY <2>1, FromTypeVecAre DEF Stays
<1> QED
  BY <1>1, <1>2

LEMMA FromTypeVecIs ==
  ASSUME NEW n \in Depths, NEW X \in Finite(typesAt[n])
  PROVE  /\ fromTypeVec[n][X] = FromParts(Flattened(X), fromTypeVec[n - 1])
         /\ fromTypeVec[n][X] \in typesAt[n]
BY FromTypeVecAre DEF FromOver

\* What is made of types by depth covers them.
CoversAt(n) ==
  \A X \in Finite(typesAt[n]) : \A t \in X :
    valuesOf[n][FALSE][t] \subseteq valuesOf[n][TRUE][fromTypeVec[n][X]]

LEMMA FromTypeVecCovers ==
  \A n \in Depths : CoversAt(n)
<1> DEFINE S == {n \in Depths : CoversAt(n)}
<1>1. ASSUME NEW n \in Depths, n = 0 \/ n - 1 \in S PROVE n \in S
  <2> DEFINE below == fromTypeVec[n - 1]
  <2>1. CoversBelow(n, below)
    BY <1>1 DEF CoversBelow, CoversAt
  <2>2. Stays(n, below)
    BY FromTypeVecStays
  <2>3. ASSUME NEW X \in Finite(typesAt[n]), NEW t \in X
        PROVE  valuesOf[n][FALSE][t] \subseteq valuesOf[n][TRUE][fromTypeVec[n][X]]
    <3>1. Flattened(X) \in Finite(PartsAt(n)) /\ t \in typesAt[n] /\ UnionParts(t) \subseteq Flattened(X)
      BY FlattenedIn DEF Finite, Flattened
    <3>2. fromTypeVec[n][X] = FromParts(Flattened(X), below)
      BY FromTypeVecIs
    <3>3. \A p \in UnionParts(t) :
            PartValues(n, FALSE, p) \subseteq valuesOf[n][TRUE][FromParts(Flattened(X), below)]
      <4> HIDE DEF below
      <4> QED
        BY <2>1, <2>2, <3>1, FromPartsCovers
    <3>4. valuesOf[n][FALSE][t] = UNION {PartValues(n, FALSE, p) : p \in UnionParts(t)}
      BY <3>1, ValuesAre DEF AllValues
    <3> QED
      BY <3>2, <3>3, <3>4
  <2> QED
    BY <2>3 DEF CoversAt
<1>2. Depths \subseteq S
  <2> HIDE DEF S
  <2> QED
    BY <1>1, ByDepth, DepthsAre
<1> QED
  BY <1>2

-----------------------------------------------------------------------------
\* What is made of types does not depend on how deep the types are taken to be.
LEMMA FromTypeVecSteady ==
  ASSUME NEW n \in Depths, n # 0, NEW X \in Finite(typesAt[n - 1])
  PROVE  X \in Finite(typesAt[n]) /\ fromTypeVec[n][X] = fromTypeVec[n - 1][X]
<1> DEFINE Steady(k) == \A Y \in Finite(typesAt[k - 1]) : fromTypeVec[k][Y] = fromTypeVec[k - 1][Y]
           S == {k \in Depths : k # 0 => Steady(k)}
<1>1. \A k \in Depths : k # 0 => Finite(typesAt[k - 1]) \subseteq Finite(typesAt[k])
  BY TypesGrow DEF Finite
<1>2. ASSUME NEW k \in Depths, k # 0, k - 1 \in S PROVE k \in S
  <2> SUFFICES ASSUME NEW Y \in Finite(typesAt[k - 1])
               PROVE  fromTypeVec[k][Y] = fromTypeVec[k - 1][Y]
    OBVIOUS
  <2>1. k - 1 \in Depths
    BY <1>2
  <2>2. Alike(k - 1, fromTypeVec[k - 1], fromTypeVec[(k - 1) - 1])
    BY <1>2 DEF Alike
  <2>3. Flattened(Y) \in Finite(PartsAt(k - 1))
    BY <2>1, FlattenedIn
  <2>4. FromParts(Flattened(Y), fromTypeVec[k - 1]) =
          FromParts(Flattened(Y), fromTypeVec[(k - 1) - 1])
    <3> HIDE DEF S
    <3> QED
      BY <2>1, <2>2, <2>3, InnerMatters
  <2>5. fromTypeVec[k][Y] = FromParts(Flattened(Y), fromTypeVec[k - 1])
    BY <1>1, <1>2, FromTypeVecIs
  <2>6. fromTypeVec[k - 1][Y] = FromParts(Flattened(Y), fromTypeVec[(k - 1) - 1])
    BY <2>1, FromTypeVecIs
  <2> QED
    BY <2>4, <2>5, <2>6
<1>3. 0 \in S
  BY DepthsAre
<1>4. Depths \subseteq S
  <2> HIDE DEF S
  <2> QED
    BY <1>2, <1>3, ByDepth
<1> QED
  BY <1>1, <1>4

LEMMA DeeperTypes ==
  ASSUME NEW n \in Depths
  PROVE  /\ typesAt[n] \subseteq Types
         /\ \A X \in Finite(typesAt[n]) : FromTypeVec(X) = fromTypeVec[n][X]
<1> DEFINE Same(k) == /\ typesAt[n] \subseteq typesAt[k]
                      /\ \A X \in Finite(typesAt[n]) : fromTypeVec[k][X] = fromTypeVec[n][X]
           S == {k \in Depths : k >= n => Same(k)}
<1>1. n \in Nat /\ MaxDepth >= n
  BY UnionConstants DEF Depths
<1>2. 0 \in S
  BY <1>1, DepthsAre
<1>3. ASSUME NEW k \in Depths, k # 0, k - 1 \in S PROVE k \in S
  <2> SUFFICES ASSUME k >= n PROVE Same(k)
    OBVIOUS
  <2>1. CASE k = n
    BY <2>1
  <2>2. CASE k # n
    <3>1. k - 1 >= n
      BY <1>1, <2>2, DepthsAre
    <3>2. Same(k - 1)
      BY <1>3, <3>1
    <3>3. typesAt[n] \subseteq typesAt[k]
      BY <1>3, <3>2, TypesGrow
    <3>4. ASSUME NEW X \in Finite(typesAt[n]) PROVE fromTypeVec[k][X] = fromTypeVec[n][X]
      <4>1. X \in Finite(typesAt[k - 1]) /\ fromTypeVec[k - 1][X] = fromTypeVec[n][X]
        BY <3>2 DEF Finite
      <4>2. fromTypeVec[k][X] = fromTypeVec[k - 1][X]
        BY <1>3, <4>1, FromTypeVecSteady
      <4> QED
        BY <4>1, <4>2
    <3> QED
      BY <3>3, <3>4
  <2> QED
    BY <2>1, <2>2
<1>4. Depths \subseteq S
  <2> HIDE DEF S
  <2> QED
    BY <1>2, <1>3, ByDepth
<1>5. Same(MaxDepth)
  BY <1>1, <1>4, DepthsAre
<1> QED
  BY <1>5 DEF Types, FromTypeVec

LEMMA ValuesSteady ==
  ASSUME NEW n \in Depths, n # 0, NEW u \in BOOLEAN, NEW t \in typesAt[n - 1]
  PROVE  valuesOf[n][u][t] = valuesOf[n - 1][u][t]
<1> DEFINE Steady(k) == \A x \in typesAt[k - 1] : valuesOf[k][u][x] = valuesOf[k - 1][u][x]
           S == {k \in Depths : k # 0 => Steady(k)}
<1>1. ASSUME NEW k \in Depths, k # 0, k - 1 \in S PROVE k \in S
  <2> SUFFICES ASSUME NEW x \in typesAt[k - 1] PROVE valuesOf[k][u][x] = valuesOf[k - 1][u][x]
    OBVIOUS
  <2>1. k - 1 \in Depths /\ x \in typesAt[k]
    BY <1>1, TypesGrow
  <2>2. ASSUME NEW p \in UnionParts(x) PROVE PartValues(k, u, p) = PartValues(k - 1, u, p)
    <3> DEFINE g == valuesOf[k - 1][u]
               h == valuesOf[(k - 1) - 1][u]
    <3>1. p \in PartsAt(k - 1)
      BY <2>1, PartsOf DEF Finite
    <3>2. p[1] \in {"ArrayOf", "Tuple"} => \A e \in ElementsOf(p) : g[e] = h[e]
      <4> SUFFICES ASSUME p[1] \in {"ArrayOf", "Tuple"}, NEW e \in ElementsOf(p) PROVE g[e] = h[e]
        OBVIOUS
      <4>1. k - 1 # 0
        BY <2>1, <3>1, PartCases, ScalarTags
      <4>2. e \in typesAt[(k - 1) - 1]
        BY <2>1, <3>1, <4>1, ElementsIn DEF Finite
      <4> QED
        BY <1>1, <4>1, <4>2
    <3> HIDE DEF g, h, S
    <3>3. ValuesOfPart(p, u, g) \subseteq ValuesOfPart(p, u, h)
      BY <2>1, <3>1, <3>2, ValuesMeet
    <3>4. ValuesOfPart(p, u, h) \subseteq ValuesOfPart(p, u, g)
      BY <2>1, <3>1, <3>2, ValuesMeet
    <3> QED
      BY <3>3, <3>4 DEF PartValues, g, h
  <2>3. /\ valuesOf[k][u][x] = UNION {PartValues(k, u, p) : p \in UnionParts(x)}
        /\ valuesOf[k - 1][u][x] = UNION {PartValues(k - 1, u, p) : p \in UnionParts(x)}
    BY <2>1, ValuesAre DEF AllValues
  <2> QED
    BY <2>2, <2>3
<1>2. 0 \in S
  BY DepthsAre
<1>3. Depths \subseteq S
  <2> HIDE DEF S
  <2> QED
    BY <1>1, <1>2, ByDepth
<1> QED
  BY <1>3

-----------------------------------------------------------------------------
\* A type that is fully known has no other values than it may have.
KnownOver(n, below) ==
  [type \in typesAt[n] |->
     \A part \in UnionParts(type) :
       /\ part # Untyped
       /\ part[1] \in {"ArrayOf", "Tuple"} => \A e \in ElementsOf(part) : below[e]]
KnownGood == [n \in Depths |-> [typesAt[n] -> BOOLEAN]]

LEMMA FullyKnownAre ==
  \A n \in Depths : fullyKnown[n] = KnownOver(n, fullyKnown[n - 1])
<1> DEFINE V == UNION {KnownGood[n] : n \in Depths}
           start == KnownOver(0, {})
           step == [n \in Depths |-> [v \in V |-> KnownOver(n, v)]]
           Is(f) == f = [n \in Depths |-> KnownOver(n, f[n - 1])]
<1>1. \A below : KnownOver(0, below) = start
  <2> TAKE below
  <2>1. \A type \in typesAt[0] : \A part \in UnionParts(type) : part[1] \notin {"ArrayOf", "Tuple"}
    BY PartsOf, PartCases, ScalarTags, DepthsAre DEF Finite
  <2> QED
    BY <2>1 DEF KnownOver
<1>2. \A n \in Depths : \A below : KnownOver(n, below) \in KnownGood[n]
  BY DEF KnownOver, KnownGood
<1>3. ASSUME NEW n \in Depths, NEW v \in KnownGood[n - 1], n # 0
      PROVE  step[n][v] = KnownOver(n, v)
  <2>1. n - 1 \in Depths
    BY <1>3, DepthsAre
  <2> QED
    BY <2>1
<1>4. \E f : Is(f)
  <2>1. PICK f : Staged(f, start, step, MaxDepth) /\ \A n \in Depths : f[n] \in KnownGood[n]
    <3>1. \A n \in Depths : \A v \in KnownGood[n - 1] : n # 0 => step[n][v] \in KnownGood[n]
      BY <1>2, <1>3
    <3>2. start \in KnownGood[0]
      BY <1>2, DepthsAre
    <3> HIDE DEF start, step
    <3> QED
      BY <3>1, <3>2, StagesAre
  <2>2. \A n \in Depths : (IF n = 0 THEN start ELSE step[n][f[n - 1]]) = KnownOver(n, f[n - 1])
    <3> HIDE DEF start, step
    <3> QED
      BY <1>1, <1>3, <2>1, DepthsAre
  <2>3. f = [n \in Depths |-> IF n = 0 THEN start ELSE step[n][f[n - 1]]]
    <3> HIDE DEF start, step
    <3> QED
      BY <2>1 DEF Staged, Depths
  <2>4. Is(f)
    <3> HIDE DEF start, step
    <3> QED
      BY <2>2, <2>3
  <2> QED
    BY <2>4
<1>5. fullyKnown = CHOOSE f : Is(f)
  BY DEF fullyKnown, KnownOver
<1>6. Is(fullyKnown)
  <2> HIDE DEF Is
  <2> QED
    BY <1>4, <1>5
<1> QED
  BY <1>6

\* An alternative in which nothing is untyped.
KnownPart(n, p) ==
  /\ p # Untyped
  /\ p[1] \in {"ArrayOf", "Tuple"} => \A e \in ElementsOf(p) : fullyKnown[n - 1][e]

LEMMA FullyKnownIs ==
  ASSUME NEW n \in Depths, NEW t \in typesAt[n]
  PROVE  fullyKnown[n][t] <=> \A p \in UnionParts(t) : KnownPart(n, p)
BY FullyKnownAre DEF KnownOver, KnownPart

LEMMA FullyKnownValues ==
  \A n \in Depths : \A t \in typesAt[n] :
    fullyKnown[n][t] => valuesOf[n][TRUE][t] \subseteq valuesOf[n][FALSE][t]
<1> DEFINE Exact(k) == \A t \in typesAt[k] :
                         fullyKnown[k][t] => valuesOf[k][TRUE][t] \subseteq valuesOf[k][FALSE][t]
           S == {k \in Depths : Exact(k)}
<1>1. ASSUME NEW k \in Depths, k = 0 \/ k - 1 \in S PROVE k \in S
  <2> SUFFICES ASSUME NEW t \in typesAt[k], fullyKnown[k][t]
               PROVE  valuesOf[k][TRUE][t] \subseteq valuesOf[k][FALSE][t]
    OBVIOUS
  <2>1. ASSUME NEW p \in UnionParts(t) PROVE PartValues(k, TRUE, p) \subseteq PartValues(k, FALSE, p)
    <3> DEFINE g == valuesOf[k - 1][TRUE]
               h == valuesOf[k - 1][FALSE]
    <3>1. p \in PartsAt(k) /\ KnownPart(k, p)
      BY PartsOf, FullyKnownIs DEF Finite
    <3>2. p[1] \in {"ArrayOf", "Tuple"} => \A e \in ElementsOf(p) : g[e] \subseteq h[e]
      <4> SUFFICES ASSUME p[1] \in {"ArrayOf", "Tuple"}, NEW e \in ElementsOf(p)
                   PROVE  g[e] \subseteq h[e]
        OBVIOUS
      <4>1. k # 0
        BY <3>1, PartCases, ScalarTags
      <4>2. e \in typesAt[k - 1] /\ fullyKnown[k - 1][e]
        BY <3>1, <4>1, ElementsIn DEF Finite, KnownPart
      <4> QED
        BY <1>1, <4>1, <4>2
    <3> HIDE DEF g, h, S
    <3>3. p # Untyped
      BY <3>1 DEF KnownPart
    <3>4. ValuesOfPart(p, TRUE, g) \subseteq ValuesOfPart(p, FALSE, h)
      BY <3>1, <3>2, <3>3, ValuesMeet
    <3> QED
      BY <3>4 DEF PartValues, g, h
  <2>2. /\ valuesOf[k][TRUE][t] = UNION {PartValues(k, TRUE, p) : p \in UnionParts(t)}
        /\ valuesOf[k][FALSE][t] = UNION {PartValues(k, FALSE, p) : p \in UnionParts(t)}
    BY ValuesAre DEF AllValues
  <2> QED
    BY <2>1, <2>2
<1>2. Depths \subseteq S
  <2> HIDE DEF S
  <2> QED
    BY <1>1, ByDepth, DepthsAre
<1> QED
  BY <1>2

-----------------------------------------------------------------------------
\* Widening: an alternative by itself, a union by what its alternatives become.
Widens(n, w, t) == IF t[1] = "Union" THEN FromTypeVec({w[p] : p \in t[2]}) ELSE w[t]

LEMMA WidensIn ==
  ASSUME NEW n \in Depths, NEW w \in [PartsAt(n) -> PartsAt(n)], NEW t \in typesAt[n]
  PROVE  Widens(n, w, t) \in typesAt[n]
<1>1. CASE t[1] = "Union"
  <2> DEFINE P == t[2]
             R == {w[p] : p \in P}
             v == [p \in P |-> w[p]]
  <2>1. P \in Finite(PartsAt(n))
    BY <1>1, PartsOf
  <2>2. v \in [P -> PartsAt(n)] /\ IsFiniteSet(P)
    BY <2>1 DEF Finite
  <2>3. IsFiniteSet({v[p] : p \in P})
    <3> HIDE DEF v, P
    <3> QED
      BY <2>2, FiniteRange
  <2>4. IsFiniteSet(R) /\ R \subseteq PartsAt(n)
    BY <2>1, <2>3 DEF Finite
  <2>5. R \in Finite(typesAt[n])
    BY <2>4, PartsOf DEF Finite
  <2>6. FromTypeVec(R) \in typesAt[n]
    <3> HIDE DEF R
    <3> QED
      BY <2>5, DeeperTypes, FromTypeVecIs
  <2> QED
    BY <1>1, <2>6 DEF Widens
<1>2. CASE t[1] # "Union"
  BY <1>2, PartsOf DEF Widens
<1> QED
  BY <1>1, <1>2

\* A function that takes the types of the depth below to types of it.
GoesBelow(n, below) == n # 0 => \A e \in typesAt[n - 1] : below[e] \in typesAt[n - 1]
AlikeBelow(n, below, other) == n # 0 => \A e \in typesAt[n - 1] : below[e] = other[e]

LEMMA RangeIn ==
  ASSUME NEW n \in Depths, n # 0, NEW below, GoesBelow(n, below), NEW E \in Finite(typesAt[n - 1])
  PROVE  {below[e] : e \in E} \in Finite(typesAt[n - 1])
<1> DEFINE v == [e \in E |-> below[e]]
<1>1. v \in [E -> typesAt[n - 1]] /\ IsFiniteSet(E)
  BY DEF Finite, GoesBelow
<1>2. IsFiniteSet({v[e] : e \in E})
  <2> HIDE DEF v
  <2> QED
    BY <1>1, FiniteRange
<1> QED
  BY <1>1, <1>2 DEF Finite, GoesBelow

LEMMA MadeBelow ==
  ASSUME NEW n \in Depths, n # 0, NEW X \in Finite(typesAt[n - 1])
  PROVE  FromTypeVec(X) \in typesAt[n - 1] /\ FromTypeVec(X) = fromTypeVec[n - 1][X]
<1>1. n - 1 \in Depths
  BY DepthsAre
<1> QED
  BY <1>1, DeeperTypes, FromTypeVecIs

LEMMA TupleToArrayIs ==
  ASSUME NEW p, NEW below
  PROVE  /\ p[1] = "Tuple" =>
              TupleToArray(p, below) = ArrayOf(FromTypeVec({below[e] : e \in ElementsOf(p)}))
         /\ p[1] = "ArrayOf" => TupleToArray(p, below) = ArrayOf(below[p[2]])
         /\ p[1] \notin {"ArrayOf", "Tuple"} => TupleToArray(p, below) = p
BY DEF TupleToArray, IsTuple

LEMMA TupleToArrayIn ==
  ASSUME NEW n \in Depths, NEW below, GoesBelow(n, below), NEW p \in PartsAt(n)
  PROVE  TupleToArray(p, below) \in PartsAt(n)
<1>1. CASE p \in Scalars
  BY <1>1, ScalarTags, TupleToArrayIs
<1>2. CASE n # 0 /\ p[1] = "ArrayOf" /\ p[2] \in typesAt[n - 1]
  BY <1>2, TupleToArrayIs, PartsBuilt DEF GoesBelow
<1>3. CASE n # 0 /\ p[1] = "Tuple"
  <2>1. ElementsOf(p) \in Finite(typesAt[n - 1])
    BY <1>3, ElementsIn
  <2>2. {below[e] : e \in ElementsOf(p)} \in Finite(typesAt[n - 1])
    BY <1>3, <2>1, RangeIn
  <2>3. FromTypeVec({below[e] : e \in ElementsOf(p)}) \in typesAt[n - 1]
    BY <1>3, <2>2, MadeBelow
  <2> QED
    BY <1>3, <2>3, TupleToArrayIs, PartsBuilt
<1> QED
  BY <1>1, <1>2, <1>3, PartCases

LEMMA TupleToArrayAlike ==
  ASSUME NEW n \in Depths, NEW below, NEW other, AlikeBelow(n, below, other), NEW p \in PartsAt(n)
  PROVE  TupleToArray(p, below) = TupleToArray(p, other)
<1>1. CASE p \in Scalars
  BY <1>1, ScalarTags, TupleToArrayIs
<1>2. CASE n # 0 /\ p[1] = "ArrayOf" /\ p[2] \in typesAt[n - 1]
  BY <1>2, TupleToArrayIs DEF AlikeBelow
<1>3. CASE n # 0 /\ p[1] = "Tuple"
  <2>1. ElementsOf(p) \subseteq typesAt[n - 1]
    BY <1>3, ElementsIn DEF Finite
  <2>2. {below[e] : e \in ElementsOf(p)} = {other[e] : e \in ElementsOf(p)}
    BY <1>3, <2>1 DEF AlikeBelow
  <2> QED
    BY <1>3, <2>2, TupleToArrayIs
<1> QED
  BY <1>1, <1>2, <1>3, PartCases

LEMMA ArgForParamIs ==
  ASSUME NEW p, NEW below
  PROVE  /\ p[1] = "LiteralInteger" => ArgForParam(p, below) = Integer
         /\ p \in {True, False} => ArgForParam(p, below) = Bool
         /\ p[1] = "Tuple" =>
              ArgForParam(p, below) =
                IF Cardinality({below[e] : e \in ElementsOf(p)}) = 1 THEN ArrayOf(below[p[2][1]])
                ELSE TupleOf([i \in DOMAIN p[2] |-> below[p[2][i]]])
         /\ p[1] = "ArrayOf" => ArgForParam(p, below) = ArrayOf(below[p[2]])
         /\ p[1] \notin {"ArrayOf", "Tuple", "LiteralInteger"} /\ p \notin {True, False} =>
              ArgForParam(p, below) = p
<1>1. p[1] = "LiteralInteger" => ArgForParam(p, below) = Integer
  BY DEF ArgForParam, IsTuple, True, False
<1>2. p \in {True, False} => ArgForParam(p, below) = Bool
  BY DEF ArgForParam, IsTuple, True, False
<1>3. p[1] = "Tuple" =>
        ArgForParam(p, below) =
          IF Cardinality({below[e] : e \in ElementsOf(p)}) = 1 THEN ArrayOf(below[p[2][1]])
          ELSE TupleOf([i \in DOMAIN p[2] |-> below[p[2][i]]])
  BY DEF ArgForParam, IsTuple, True, False
<1>4. p[1] = "ArrayOf" => ArgForParam(p, below) = ArrayOf(below[p[2]])
  BY DEF ArgForParam, IsTuple, True, False
<1>5. p[1] \notin {"ArrayOf", "Tuple", "LiteralInteger"} /\ p \notin {True, False} =>
        ArgForParam(p, below) = p
  BY DEF ArgForParam, IsTuple, True, False
<1> QED
  BY <1>1, <1>2, <1>3, <1>4, <1>5

\* A tuple whose elements become one type has a first element.
LEMMA FirstElement ==
  ASSUME NEW n \in Depths, NEW p \in PartsAt(n), p[1] = "Tuple", NEW below,
         Cardinality({below[e] : e \in ElementsOf(p)}) = 1
  PROVE  /\ p[2][1] \in ElementsOf(p)
         /\ \A e \in ElementsOf(p) : below[e] = below[p[2][1]]
<1> DEFINE R == {below[e] : e \in ElementsOf(p)}
<1>1. n # 0 /\ p[2] \in Seq(typesAt[n - 1])
  BY PartCases, ScalarTags
<1>2. ElementsOf(p) = {p[2][i] : i \in DOMAIN p[2]}
  BY DEF ElementsOf
<1>3. DOMAIN p[2] = 1 .. Len(p[2]) /\ Len(p[2]) \in Nat
  BY <1>1
<1>4. IsFiniteSet(R)
  <2> DEFINE E == ElementsOf(p)
             v == [e \in E |-> below[e]]
  <2>1. IsFiniteSet(E)
    BY <1>1, ElementsIn DEF Finite
  <2>2. v \in [E -> R]
    OBVIOUS
  <2>3. IsFiniteSet({v[e] : e \in E})
    <3> HIDE DEF v, E, R
    <3> QED
      BY <2>1, <2>2, FiniteRange
  <2> QED
    BY <2>3
<1>5. PICK r : R = {r}
  <2> HIDE DEF R
  <2>1. Cardinality(R) = 1
    BY DEF R
  <2> QED
    BY <1>4, <2>1, FS_Singleton
<1>6. ElementsOf(p) # {}
  BY <1>5
<1>7. Len(p[2]) # 0
  <2>1. CASE Len(p[2]) = 0
    <3>1. DOMAIN p[2] = {}
      BY <1>3, <2>1
    <3> QED
      BY <1>2, <1>6, <3>1
  <2> QED
    BY <2>1
<1>8. 1 \in DOMAIN p[2]
  BY <1>3, <1>7
<1> QED
  BY <1>2, <1>5, <1>8

LEMMA ArgForParamIn ==
  ASSUME NEW n \in Depths, NEW below, GoesBelow(n, below), NEW p \in PartsAt(n)
  PROVE  ArgForParam(p, below) \in PartsAt(n)
<1>1. CASE p \in Scalars
  <2>1. Integer \in PartsAt(n) /\ Bool \in PartsAt(n)
    BY PartsBuilt DEF Scalars
  <2> QED
    BY <1>1, <2>1, ScalarTags, ArgForParamIs
<1>2. CASE n # 0 /\ p[1] = "ArrayOf" /\ p[2] \in typesAt[n - 1]
  BY <1>2, ArgForParamIs, PartsBuilt DEF GoesBelow
<1>3. CASE n # 0 /\ p[1] = "Tuple" /\ p[2] \in Seq(typesAt[n - 1])
  <2>1. ElementsOf(p) \subseteq typesAt[n - 1]
    BY <1>3, ElementsIn DEF Finite
  <2>2. CASE Cardinality({below[e] : e \in ElementsOf(p)}) = 1
    <3>1. p[2][1] \in typesAt[n - 1]
      BY <1>3, <2>1, <2>2, FirstElement
    <3> QED
      BY <1>3, <2>2, <3>1, ArgForParamIs, PartsBuilt DEF GoesBelow
  <2>3. CASE Cardinality({below[e] : e \in ElementsOf(p)}) # 1
    <3> DEFINE s == [i \in DOMAIN p[2] |-> below[p[2][i]]]
    <3>1. DOMAIN p[2] = 1 .. Len(p[2]) /\ Len(p[2]) \in Nat
      BY <1>3
    <3>2. \A i \in DOMAIN p[2] : p[2][i] \in typesAt[n - 1]
      BY <1>3
    <3>3. s \in [1 .. Len(p[2]) -> typesAt[n - 1]]
      BY <1>3, <3>1, <3>2 DEF GoesBelow
    <3>4. s \in Seq(typesAt[n - 1])
      <4> DEFINE l == Len(p[2])
      <4>1. l \in Nat /\ s \in [1 .. l -> typesAt[n - 1]]
        BY <3>1, <3>3
      <4> HIDE DEF s, l
      <4> QED
        BY <4>1
    <3> QED
      BY <1>3, <2>3, <3>4, ArgForParamIs, PartsBuilt
  <2> QED
    BY <2>2, <2>3
<1> QED
  BY <1>1, <1>2, <1>3, PartCases

LEMMA ArgForParamAlike ==
  ASSUME NEW n \in Depths, NEW below, NEW other, AlikeBelow(n, below, other), NEW p \in PartsAt(n)
  PROVE  ArgForParam(p, below) = ArgForParam(p, other)
<1>1. CASE p \in Scalars
  BY <1>1, ScalarTags, ArgForParamIs
<1>2. CASE n # 0 /\ p[1] = "ArrayOf" /\ p[2] \in typesAt[n - 1]
  BY <1>2, ArgForParamIs DEF AlikeBelow
<1>3. CASE n # 0 /\ p[1] = "Tuple" /\ p[2] \in Seq(typesAt[n - 1])
  <2>1. ElementsOf(p) \subseteq typesAt[n - 1]
    BY <1>3, ElementsIn DEF Finite
  <2>2. {below[e] : e \in ElementsOf(p)} = {other[e] : e \in ElementsOf(p)}
    BY <1>3, <2>1 DEF AlikeBelow
  <2>3. [i \in DOMAIN p[2] |-> below[p[2][i]]] = [i \in DOMAIN p[2] |-> other[p[2][i]]]
    <3>1. \A i \in DOMAIN p[2] : p[2][i] \in typesAt[n - 1]
      BY <1>3
    <3> QED
      BY <1>3, <3>1 DEF AlikeBelow
  <2>4. CASE Cardinality({below[e] : e \in ElementsOf(p)}) = 1
    <3>1. p[2][1] \in typesAt[n - 1]
      BY <1>3, <2>1, <2>4, FirstElement
    <3>2. below[p[2][1]] = other[p[2][1]]
      BY <1>3, <3>1 DEF AlikeBelow
    <3> QED
      BY <1>3, <2>2, <2>4, <3>2, ArgForParamIs
  <2>5. CASE Cardinality({below[e] : e \in ElementsOf(p)}) # 1
    <3>1. Cardinality({other[e] : e \in ElementsOf(p)}) # 1
      BY <2>2, <2>5
    <3>2. ArgForParam(p, below) = TupleOf([i \in DOMAIN p[2] |-> below[p[2][i]]])
      BY <1>3, <2>5, ArgForParamIs
    <3>3. ArgForParam(p, other) = TupleOf([i \in DOMAIN p[2] |-> other[p[2][i]]])
      BY <1>3, <3>1, ArgForParamIs
    <3> QED
      BY <2>3, <3>2, <3>3
  <2> QED
    BY <2>4, <2>5
<1> QED
  BY <1>1, <1>2, <1>3, PartCases

\* WidenTupleToArray at a depth, made of the depth below.
TuplesOver(n, below) ==
  [type \in typesAt[n] |->
     LET widened(part) == TupleToArray(part, below) IN
     IF type[1] = "Union" THEN FromTypeVec({widened(part) : part \in type[2]}) ELSE widened(type)]

LEMMA TuplesOverIs ==
  ASSUME NEW n \in Depths, NEW below, NEW t \in typesAt[n]
  PROVE  TuplesOver(n, below)[t] = Widens(n, [p \in PartsAt(n) |-> TupleToArray(p, below)], t)
<1>1. CASE t[1] = "Union"
  <2>1. t[2] \subseteq PartsAt(n)
    BY <1>1, PartsOf DEF Finite
  <2> QED
    BY <1>1, <2>1 DEF TuplesOver, Widens
<1>2. CASE t[1] # "Union"
  <2>1. t \in PartsAt(n)
    BY <1>2, PartsOf
  <2> QED
    BY <1>2, <2>1 DEF TuplesOver, Widens
<1> QED
  BY <1>1, <1>2

LEMMA TuplesOverIn ==
  ASSUME NEW n \in Depths, NEW below, GoesBelow(n, below)
  PROVE  TuplesOver(n, below) \in [typesAt[n] -> typesAt[n]]
<1> DEFINE w == [p \in PartsAt(n) |-> TupleToArray(p, below)]
<1>1. w \in [PartsAt(n) -> PartsAt(n)]
  BY TupleToArrayIn
<1>2. \A t \in typesAt[n] : Widens(n, w, t) \in typesAt[n]
  <2> HIDE DEF w
  <2> QED
    BY <1>1, WidensIn
<1>3. \A t \in typesAt[n] : TuplesOver(n, below)[t] \in typesAt[n]
  BY <1>2, TuplesOverIs
<1>4. TuplesOver(n, below) = [t \in typesAt[n] |-> TuplesOver(n, below)[t]]
  BY DEF TuplesOver
<1> QED
  BY <1>3, <1>4

LEMMA TuplesOverAlike ==
  ASSUME NEW n \in Depths, NEW below, NEW other, AlikeBelow(n, below, other)
  PROVE  TuplesOver(n, below) = TuplesOver(n, other)
<1>1. [p \in PartsAt(n) |-> TupleToArray(p, below)] = [p \in PartsAt(n) |-> TupleToArray(p, other)]
  BY TupleToArrayAlike
<1>2. ASSUME NEW t \in typesAt[n] PROVE TuplesOver(n, below)[t] = TuplesOver(n, other)[t]
  <2>1. TuplesOver(n, below)[t] = Widens(n, [p \in PartsAt(n) |-> TupleToArray(p, below)], t)
    BY TuplesOverIs
  <2>2. TuplesOver(n, other)[t] = Widens(n, [p \in PartsAt(n) |-> TupleToArray(p, other)], t)
    BY TuplesOverIs
  <2> QED
    BY <1>1, <2>1, <2>2
<1>3. /\ TuplesOver(n, below) = [t \in typesAt[n] |-> TuplesOver(n, below)[t]]
      /\ TuplesOver(n, other) = [t \in typesAt[n] |-> TuplesOver(n, other)[t]]
  BY DEF TuplesOver
<1> QED
  BY <1>2, <1>3

WidenGood == [n \in Depths |-> [typesAt[n] -> typesAt[n]]]

LEMMA WidenTupleToArrayAre ==
  \A n \in Depths : /\ widenTupleToArray[n] = TuplesOver(n, widenTupleToArray[n - 1])
                    /\ widenTupleToArray[n] \in [typesAt[n] -> typesAt[n]]
<1> DEFINE V == UNION {WidenGood[n] : n \in Depths}
           start == TuplesOver(0, {})
           step == [n \in Depths |-> [v \in V |-> TuplesOver(n, v)]]
           Is(f) == f = [n \in Depths |-> TuplesOver(n, f[n - 1])]
<1>1. \A below : TuplesOver(0, below) = start
  BY TuplesOverAlike, DepthsAre DEF AlikeBelow
<1>2. start \in WidenGood[0]
  BY TuplesOverIn, DepthsAre DEF GoesBelow, WidenGood
<1>3. ASSUME NEW n \in Depths, NEW v \in WidenGood[n - 1], n # 0
      PROVE  step[n][v] = TuplesOver(n, v) /\ TuplesOver(n, v) \in WidenGood[n]
  <2>1. n - 1 \in Depths
    BY <1>3, DepthsAre
  <2>2. v \in V /\ GoesBelow(n, v)
    BY <1>3, <2>1 DEF WidenGood, GoesBelow
  <2>3. TuplesOver(n, v) \in WidenGood[n]
    BY <2>2, TuplesOverIn DEF WidenGood
  <2> QED
    BY <2>2, <2>3
<1>4. \E f : Is(f)
  <2>1. PICK f : Staged(f, start, step, MaxDepth) /\ \A n \in Depths : f[n] \in WidenGood[n]
    <3>1. \A n \in Depths : \A v \in WidenGood[n - 1] : n # 0 => step[n][v] \in WidenGood[n]
      BY <1>3
    <3> HIDE DEF start, step
    <3> QED
      BY <1>2, <3>1, StagesAre
  <2>2. \A n \in Depths : (IF n = 0 THEN start ELSE step[n][f[n - 1]]) = TuplesOver(n, f[n - 1])
    <3> HIDE DEF start, step
    <3> QED
      BY <1>1, <1>3, <2>1, DepthsAre
  <2>3. f = [n \in Depths |-> IF n = 0 THEN start ELSE step[n][f[n - 1]]]
    <3> HIDE DEF start, step
    <3> QED
      BY <2>1 DEF Staged, Depths
  <2>4. Is(f)
    <3> HIDE DEF start, step
    <3> QED
      BY <2>2, <2>3
  <2> QED
    BY <2>4
<1>5. widenTupleToArray = CHOOSE f : Is(f)
  BY DEF widenTupleToArray, TuplesOver
<1>6. Is(widenTupleToArray)
  <2> HIDE DEF Is
  <2> QED
    BY <1>4, <1>5
<1>7. \A n \in Depths : widenTupleToArray[n] = TuplesOver(n, widenTupleToArray[n - 1])
  BY <1>6
<1> DEFINE S == {n \in Depths : widenTupleToArray[n] \in WidenGood[n]}
<1>8. 0 \in S
  BY <1>1, <1>2, <1>7, DepthsAre
<1>9. \A n \in Depths : n # 0 /\ n - 1 \in S => n \in S
  BY <1>3, <1>7
<1>10. Depths \subseteq S
  <2> HIDE DEF S
  <2> QED
    BY <1>8, <1>9, ByDepth
<1> QED
  BY <1>7, <1>10 DEF WidenGood

LEMMA WidenTupleToArraySteady ==
  ASSUME NEW n \in Depths, n # 0, NEW t \in typesAt[n - 1]
  PROVE  widenTupleToArray[n][t] = widenTupleToArray[n - 1][t]
<1> DEFINE Steady(k) == \A x \in typesAt[k - 1] : widenTupleToArray[k][x] = widenTupleToArray[k - 1][x]
           S == {k \in Depths : k # 0 => Steady(k)}
<1>1. ASSUME NEW k \in Depths, k # 0, k - 1 \in S PROVE k \in S
  <2> SUFFICES ASSUME NEW x \in typesAt[k - 1] PROVE widenTupleToArray[k][x] = widenTupleToArray[k - 1][x]
    OBVIOUS
  <2>1. k - 1 \in Depths /\ x \in typesAt[k]
    BY <1>1, TypesGrow
  <2>2. AlikeBelow(k - 1, widenTupleToArray[k - 1], widenTupleToArray[(k - 1) - 1])
    BY <1>1 DEF AlikeBelow
  <2>3. TuplesOver(k - 1, widenTupleToArray[k - 1]) = TuplesOver(k - 1, widenTupleToArray[(k - 1) - 1])
    <3> HIDE DEF S
    <3> QED
      BY <2>1, <2>2, TuplesOverAlike
  <2>4. TuplesOver(k, widenTupleToArray[k - 1])[x] = TuplesOver(k - 1, widenTupleToArray[k - 1])[x]
    BY <2>1 DEF TuplesOver
  <2> QED
    BY <1>1, <2>1, <2>3, <2>4, WidenTupleToArrayAre
<1>2. 0 \in S
  BY DepthsAre
<1>3. Depths \subseteq S
  <2> HIDE DEF S
  <2> QED
    BY <1>1, <1>2, ByDepth
<1> QED
  BY <1>3

\* WidenArgForParam at a depth, made of the depth below.
ArgsOver(n, below) ==
  [type \in typesAt[n] |->
     LET widened(part) == ArgForParam(part, below) IN
     IF type[1] = "Union" THEN FromTypeVec({widened(part) : part \in type[2]}) ELSE widened(type)]

LEMMA ArgsOverIs ==
  ASSUME NEW n \in Depths, NEW below, NEW t \in typesAt[n]
  PROVE  ArgsOver(n, below)[t] = Widens(n, [p \in PartsAt(n) |-> ArgForParam(p, below)], t)
<1>1. CASE t[1] = "Union"
  <2>1. t[2] \subseteq PartsAt(n)
    BY <1>1, PartsOf DEF Finite
  <2> QED
    BY <1>1, <2>1 DEF ArgsOver, Widens
<1>2. CASE t[1] # "Union"
  <2>1. t \in PartsAt(n)
    BY <1>2, PartsOf
  <2> QED
    BY <1>2, <2>1 DEF ArgsOver, Widens
<1> QED
  BY <1>1, <1>2

LEMMA ArgsOverIn ==
  ASSUME NEW n \in Depths, NEW below, GoesBelow(n, below)
  PROVE  ArgsOver(n, below) \in [typesAt[n] -> typesAt[n]]
<1> DEFINE w == [p \in PartsAt(n) |-> ArgForParam(p, below)]
<1>1. w \in [PartsAt(n) -> PartsAt(n)]
  BY ArgForParamIn
<1>2. \A t \in typesAt[n] : Widens(n, w, t) \in typesAt[n]
  <2> HIDE DEF w
  <2> QED
    BY <1>1, WidensIn
<1>3. \A t \in typesAt[n] : ArgsOver(n, below)[t] \in typesAt[n]
  BY <1>2, ArgsOverIs
<1>4. ArgsOver(n, below) = [t \in typesAt[n] |-> ArgsOver(n, below)[t]]
  BY DEF ArgsOver
<1> QED
  BY <1>3, <1>4

LEMMA ArgsOverAlike ==
  ASSUME NEW n \in Depths, NEW below, NEW other, AlikeBelow(n, below, other)
  PROVE  ArgsOver(n, below) = ArgsOver(n, other)
<1>1. [p \in PartsAt(n) |-> ArgForParam(p, below)] = [p \in PartsAt(n) |-> ArgForParam(p, other)]
  BY ArgForParamAlike
<1>2. ASSUME NEW t \in typesAt[n] PROVE ArgsOver(n, below)[t] = ArgsOver(n, other)[t]
  <2>1. ArgsOver(n, below)[t] = Widens(n, [p \in PartsAt(n) |-> ArgForParam(p, below)], t)
    BY ArgsOverIs
  <2>2. ArgsOver(n, other)[t] = Widens(n, [p \in PartsAt(n) |-> ArgForParam(p, other)], t)
    BY ArgsOverIs
  <2> QED
    BY <1>1, <2>1, <2>2
<1>3. /\ ArgsOver(n, below) = [t \in typesAt[n] |-> ArgsOver(n, below)[t]]
      /\ ArgsOver(n, other) = [t \in typesAt[n] |-> ArgsOver(n, other)[t]]
  BY DEF ArgsOver
<1> QED
  BY <1>2, <1>3

LEMMA WidenArgForParamAre ==
  \A n \in Depths : /\ widenArgForParam[n] = ArgsOver(n, widenArgForParam[n - 1])
                    /\ widenArgForParam[n] \in [typesAt[n] -> typesAt[n]]
<1> DEFINE V == UNION {WidenGood[n] : n \in Depths}
           start == ArgsOver(0, {})
           step == [n \in Depths |-> [v \in V |-> ArgsOver(n, v)]]
           Is(f) == f = [n \in Depths |-> ArgsOver(n, f[n - 1])]
<1>1. \A below : ArgsOver(0, below) = start
  BY ArgsOverAlike, DepthsAre DEF AlikeBelow
<1>2. start \in WidenGood[0]
  BY ArgsOverIn, DepthsAre DEF GoesBelow, WidenGood
<1>3. ASSUME NEW n \in Depths, NEW v \in WidenGood[n - 1], n # 0
      PROVE  step[n][v] = ArgsOver(n, v) /\ ArgsOver(n, v) \in WidenGood[n]
  <2>1. n - 1 \in Depths
    BY <1>3, DepthsAre
  <2>2. v \in V /\ GoesBelow(n, v)
    BY <1>3, <2>1 DEF WidenGood, GoesBelow
  <2>3. ArgsOver(n, v) \in WidenGood[n]
    BY <2>2, ArgsOverIn DEF WidenGood
  <2> QED
    BY <2>2, <2>3
<1>4. \E f : Is(f)
  <2>1. PICK f : Staged(f, start, step, MaxDepth) /\ \A n \in Depths : f[n] \in WidenGood[n]
    <3>1. \A n \in Depths : \A v \in WidenGood[n - 1] : n # 0 => step[n][v] \in WidenGood[n]
      BY <1>3
    <3> HIDE DEF start, step
    <3> QED
      BY <1>2, <3>1, StagesAre
  <2>2. \A n \in Depths : (IF n = 0 THEN start ELSE step[n][f[n - 1]]) = ArgsOver(n, f[n - 1])
    <3> HIDE DEF start, step
    <3> QED
      BY <1>1, <1>3, <2>1, DepthsAre
  <2>3. f = [n \in Depths |-> IF n = 0 THEN start ELSE step[n][f[n - 1]]]
    <3> HIDE DEF start, step
    <3> QED
      BY <2>1 DEF Staged, Depths
  <2>4. Is(f)
    <3> HIDE DEF start, step
    <3> QED
      BY <2>2, <2>3
  <2> QED
    BY <2>4
<1>5. widenArgForParam = CHOOSE f : Is(f)
  BY DEF widenArgForParam, ArgsOver
<1>6. Is(widenArgForParam)
  <2> HIDE DEF Is
  <2> QED
    BY <1>4, <1>5
<1>7. \A n \in Depths : widenArgForParam[n] = ArgsOver(n, widenArgForParam[n - 1])
  BY <1>6
<1> DEFINE S == {n \in Depths : widenArgForParam[n] \in WidenGood[n]}
<1>8. 0 \in S
  BY <1>1, <1>2, <1>7, DepthsAre
<1>9. \A n \in Depths : n # 0 /\ n - 1 \in S => n \in S
  BY <1>3, <1>7
<1>10. Depths \subseteq S
  <2> HIDE DEF S
  <2> QED
    BY <1>8, <1>9, ByDepth
<1> QED
  BY <1>7, <1>10 DEF WidenGood

LEMMA WidenArgForParamSteady ==
  ASSUME NEW n \in Depths, n # 0, NEW t \in typesAt[n - 1]
  PROVE  widenArgForParam[n][t] = widenArgForParam[n - 1][t]
<1> DEFINE Steady(k) == \A x \in typesAt[k - 1] : widenArgForParam[k][x] = widenArgForParam[k - 1][x]
           S == {k \in Depths : k # 0 => Steady(k)}
<1>1. ASSUME NEW k \in Depths, k # 0, k - 1 \in S PROVE k \in S
  <2> SUFFICES ASSUME NEW x \in typesAt[k - 1] PROVE widenArgForParam[k][x] = widenArgForParam[k - 1][x]
    OBVIOUS
  <2>1. k - 1 \in Depths /\ x \in typesAt[k]
    BY <1>1, TypesGrow
  <2>2. AlikeBelow(k - 1, widenArgForParam[k - 1], widenArgForParam[(k - 1) - 1])
    BY <1>1 DEF AlikeBelow
  <2>3. ArgsOver(k - 1, widenArgForParam[k - 1]) = ArgsOver(k - 1, widenArgForParam[(k - 1) - 1])
    <3> HIDE DEF S
    <3> QED
      BY <2>1, <2>2, ArgsOverAlike
  <2>4. ArgsOver(k, widenArgForParam[k - 1])[x] = ArgsOver(k - 1, widenArgForParam[k - 1])[x]
    BY <2>1 DEF ArgsOver
  <2> QED
    BY <1>1, <2>1, <2>3, <2>4, WidenArgForParamAre
<1>2. 0 \in S
  BY DepthsAre
<1>3. Depths \subseteq S
  <2> HIDE DEF S
  <2> QED
    BY <1>1, <1>2, ByDepth
<1> QED
  BY <1>3

-----------------------------------------------------------------------------
\* The values of types, at the depth that all types have.
LEMMA PartKnown ==
  ASSUME NEW n \in Depths, NEW p \in PartsAt(n), NEW u \in BOOLEAN
  PROVE  p \in typesAt[n] /\ valuesOf[n][u][p] = PartValues(n, u, p)
<1>1. p \in typesAt[n] /\ UnionParts(p) = {p}
  BY PartsOf
<1>2. valuesOf[n][u][p] = AllValues(n, u, {p})
  BY <1>1, ValuesAre
<1>3. AllValues(n, u, {p}) = PartValues(n, u, p)
  BY DEF AllValues
<1> QED
  BY <1>1, <1>2, <1>3

\* A value of a tuple is one of a tuple whose elements have the values of its own.
LEMMA ValuesIntoTuple ==
  ASSUME NEW q, NEW s, NEW u, NEW w, NEW inner, NEW other,
         DOMAIN q = DOMAIN s, \A i \in DOMAIN q : inner[q[i]] \subseteq other[s[i]]
  PROVE  ValuesOfPart(TupleOf(q), u, inner) \subseteq ValuesOfPart(TupleOf(s), w, other)
<1> SUFFICES ASSUME NEW v \in ValuesOfPart(TupleOf(q), u, inner)
             PROVE  v \in ValuesOfPart(TupleOf(s), w, other)
  OBVIOUS
<1>1. /\ v \in SomeValues /\ v[1] = "Tuple" /\ DOMAIN v[2] = DOMAIN q
      /\ \A i \in DOMAIN q : v[2][i] \in inner[q[i]]
  BY ValuesOfTuple
<1>2. \A i \in DOMAIN s : v[2][i] \in other[s[i]]
  BY <1>1
<1> QED
  BY <1>1, <1>2, ValuesOfTuple

LEMMA CoversByParts ==
  ASSUME NEW X \in Finite(Types), NEW r,
         \A p \in Flattened(X) : PartValues(MaxDepth, FALSE, p) \subseteq PossibleValues(r)
  PROVE  Covers(r, X)
<1> SUFFICES ASSUME NEW t \in X PROVE KnownValues(t) \subseteq PossibleValues(r)
  BY DEF Covers
<1>1. t \in typesAt[MaxDepth] /\ UnionParts(t) \subseteq Flattened(X)
  BY DEF Finite, Types, Flattened
<1>2. KnownValues(t) = UNION {PartValues(MaxDepth, FALSE, p) : p \in UnionParts(t)}
  BY <1>1, ValuesAre, DepthsAre DEF KnownValues, AllValues
<1> QED
  BY <1>1, <1>2

LEMMA TopStays ==
  /\ Stays(MaxDepth, fromTypeVec[MaxDepth])
  /\ CoversBelow(MaxDepth, fromTypeVec[MaxDepth])
<1> DEFINE n == MaxDepth
<1>1. n \in Depths
  BY DepthsAre
<1>2. CASE n = 0
  BY <1>2 DEF Stays, CoversBelow
<1>3. CASE n # 0
  <2>1. n - 1 \in Depths
    BY <1>1, <1>3, DepthsAre
  <2>2. \A E \in Finite(typesAt[n - 1]) : fromTypeVec[n][E] = fromTypeVec[n - 1][E]
    BY <1>1, <1>3, FromTypeVecSteady
  <2>3. \A E \in Finite(typesAt[n - 1]) : fromTypeVec[n - 1][E] \in typesAt[n - 1]
    BY <2>1, FromTypeVecIs
  <2>4. CoversAt(n - 1)
    BY <2>1, FromTypeVecCovers
  <2> QED
    BY <2>2, <2>3, <2>4 DEF Stays, CoversBelow, CoversAt
<1> QED
  BY <1>2, <1>3

\* Whatever types meet, from_type_vec makes a type of them that covers them, and that keeps
\* what is known of them when nothing in it is untyped.
THEOREM MergeCovers ==
  ASSUME NEW X \in Finite(Types)
  PROVE  /\ FromTypeVec(X) \in Types
         /\ Covers(FromTypeVec(X), X)
         /\ FullyKnown(FromTypeVec(X)) => Keeps(FromTypeVec(X), X)
<1>1. MaxDepth \in Depths
  BY DepthsAre
<1>2. FromTypeVec(X) \in Types
  BY <1>1, FromTypeVecIs DEF FromTypeVec, Types
<1>3. Covers(FromTypeVec(X), X)
  BY <1>1, FromTypeVecCovers DEF CoversAt, Covers, KnownValues, PossibleValues, FromTypeVec, Types
<1>4. ASSUME FullyKnown(FromTypeVec(X)) PROVE Keeps(FromTypeVec(X), X)
  <2>1. PossibleValues(FromTypeVec(X)) \subseteq KnownValues(FromTypeVec(X))
    BY <1>1, <1>2, <1>4, FullyKnownValues DEF FullyKnown, PossibleValues, KnownValues, Types
  <2> QED
    BY <1>3, <2>1 DEF Covers, Keeps
<1> QED
  BY <1>2, <1>3, <1>4

LEMMA PreserveCovers ==
  ASSUME NEW X \in Finite(Types)
  PROVE  Covers(FromTypeVecPreserveUntyped(X), X)
<1> DEFINE P == Flattened(X)
           Q == WithoutBot(P)
           inner == fromTypeVec[MaxDepth]
           r == FromTypeVecPreserveUntyped(X)
<1>1. MaxDepth \in Depths /\ P \in Finite(PartsAt(MaxDepth))
  BY DepthsAre, FlattenedIn DEF Types
<1>2. Q \in Finite(PartsAt(MaxDepth))
  <2> HIDE DEF P
  <2> QED
    BY <1>1, SubsetIn DEF WithoutBot
<1>3. ASSUME NEW p \in P PROVE PartValues(MaxDepth, FALSE, p) \subseteq PossibleValues(r)
  <2>1. p \in PartsAt(MaxDepth)
    BY <1>1 DEF Finite
  <2>2. CASE r = Untyped
    BY <1>1, <2>1, <2>2, UntypedValues, PartValuesIn DEF PossibleValues
  <2>3. CASE r = Simplified(Q, inner)
    <3>1. CASE p = Bot
      BY <1>1, <3>1, UntypedValues
    <3>2. CASE p # Bot
      <4>1. p \in Q
        BY <3>2 DEF WithoutBot
      <4>2. PartValues(MaxDepth, FALSE, p) \subseteq valuesOf[MaxDepth][TRUE][Simplified(Q, inner)]
        <5> HIDE DEF Q
        <5> QED
          BY <1>1, <1>2, <4>1, TopStays, SimplifiedCovers
      <4> QED
        BY <2>3, <4>2 DEF PossibleValues
    <3> QED
      BY <3>1, <3>2
  <2> QED
    BY <2>2, <2>3 DEF FromTypeVecPreserveUntyped
<1> QED
  <2> HIDE DEF r
  <2> QED
    BY <1>3, CoversByParts DEF r

LEMMA UnionWithCovers ==
  ASSUME NEW type \in Types, NEW other \in Types
  PROVE  Covers(UnionWith(type, other), {type, other})
<1> DEFINE X == {type, other}
           P == Flattened(X)
           Q == P \ {Untyped}
           inner == fromTypeVec[MaxDepth]
           r == UnionWith(type, other)
<1>1. X \in Finite(Types)
  <2>1. IsFiniteSet({type}) /\ IsFiniteSet({type} \union {other})
    BY FS_Singleton, FS_AddElement
  <2>2. X = {type} \union {other}
    OBVIOUS
  <2> QED
    BY <2>1, <2>2 DEF Finite
<1>2. MaxDepth \in Depths /\ P \in Finite(PartsAt(MaxDepth))
  <2> HIDE DEF X
  <2> QED
    BY <1>1, DepthsAre, FlattenedIn DEF Types
<1>3. Q \in Finite(PartsAt(MaxDepth))
  <2> HIDE DEF P
  <2> QED
    BY <1>2, SubsetIn
<1>4. ASSUME NEW p \in P PROVE PartValues(MaxDepth, FALSE, p) \subseteq PossibleValues(r)
  <2>1. p \in PartsAt(MaxDepth)
    BY <1>2 DEF Finite
  <2>2. CASE r = Untyped
    BY <1>2, <2>1, <2>2, UntypedValues, PartValuesIn DEF PossibleValues
  <2>3. CASE r = Simplified(Q, inner)
    <3>1. CASE p = Untyped
      BY <1>2, <3>1, UntypedValues
    <3>2. CASE p # Untyped
      <4>1. p \in Q
        BY <3>2
      <4>2. PartValues(MaxDepth, FALSE, p) \subseteq valuesOf[MaxDepth][TRUE][Simplified(Q, inner)]
        <5> HIDE DEF Q
        <5> QED
          BY <1>2, <1>3, <4>1, TopStays, SimplifiedCovers
      <4> QED
        BY <2>3, <4>2 DEF PossibleValues
    <3> QED
      BY <3>1, <3>2
  <2> QED
    BY <2>2, <2>3 DEF UnionWith
<1> QED
  <2> HIDE DEF r, X
  <2> QED
    BY <1>1, <1>4, CoversByParts DEF r, X

-----------------------------------------------------------------------------
\* merge_param_arg_vec.
LEMMA TuplesIn ==
  ASSUME NEW n \in Depths, NEW P \in Finite(PartsAt(n)), Tuples(P) # {}
  PROVE  /\ n # 0
         /\ UNION {ElementsOf(t) : t \in Tuples(P)} \in Finite(typesAt[n - 1])
         /\ \A t \in Tuples(P) : /\ t[2] \in Seq(typesAt[n - 1]) /\ t = TupleOf(t[2])
                                 /\ t[1] = "Tuple" /\ t \in PartsAt(n)
<1> DEFINE T == Tuples(P)
<1>1. T \in Finite(PartsAt(n))
  BY SubsetIn DEF Tuples
<1>2. \A t \in T : t \in PartsAt(n) /\ t[1] = "Tuple"
  BY <1>1 DEF Tuples, Finite, IsTuple
<1>3. n # 0 /\ \A t \in T : t[2] \in Seq(typesAt[n - 1]) /\ t = TupleOf(t[2])
  BY <1>2, PartCases, ScalarTags
<1>4. AllElements(T) = UNION {ElementsOf(t) : t \in T}
  <2>1. ArrayLike(T) = T
    BY <1>2 DEF ArrayLike
  <2> QED
    BY <2>1 DEF AllElements
<1>5. AllElements(T) \in Finite(typesAt[n - 1])
  <2> HIDE DEF T
  <2> QED
    BY <1>1, <1>3, AllElementsIn
<1> QED
  BY <1>2, <1>3, <1>4, <1>5

\* The tuples of one length are merged place by place.
Uniform(parts) ==
  LET len == CHOOSE n \in TupleLengths(Tuples(parts)) : TRUE IN
  /\ ~\E part \in parts : part[1] = "ArrayOf"
  /\ TupleLengths(Tuples(parts)) = {len} /\ len <= TupleLimit
TupleLength(parts) == CHOOSE n \in TupleLengths(Tuples(parts)) : TRUE
Column(parts, i) == {t[2][i] : t \in Tuples(parts)}

LEMMA MergedTuplesIs ==
  ASSUME NEW parts
  PROVE  MergedTuples(parts) =
           IF Uniform(parts)
           THEN TupleOf([i \in 1 .. TupleLength(parts) |-> FromTypeVec(Column(parts, i))])
           ELSE ArrayOf(FromTypeVec(UNION {ElementsOf(t) : t \in Tuples(parts)}))
BY DEF MergedTuples, Uniform, TupleLength, Column

LEMMA ColumnsIn ==
  ASSUME NEW n \in Depths, NEW P \in Finite(PartsAt(n)), Tuples(P) # {}, Uniform(P)
  PROVE  /\ TupleLength(P) \in Nat
         /\ \A t \in Tuples(P) : DOMAIN t[2] = 1 .. TupleLength(P)
         /\ \A i \in 1 .. TupleLength(P) :
              /\ Column(P, i) \in Finite(typesAt[n - 1])
              /\ \A t \in Tuples(P) : t[2][i] \in Column(P, i) /\ t[2][i] \in ElementsOf(t)
<1> DEFINE l == TupleLength(P)
           E == UNION {ElementsOf(t) : t \in Tuples(P)}
<1>1. \A t \in Tuples(P) : Len(t[2]) = l
  BY DEF Uniform, TupleLength, TupleLengths
<1>2. \A t \in Tuples(P) : Len(t[2]) \in Nat /\ DOMAIN t[2] = 1 .. Len(t[2])
  BY TuplesIn
<1>3. l \in Nat /\ \A t \in Tuples(P) : DOMAIN t[2] = 1 .. l
  BY <1>1, <1>2
<1>4. \A t \in Tuples(P) : ElementsOf(t) = {t[2][i] : i \in DOMAIN t[2]}
  BY TuplesIn DEF ElementsOf
<1>5. ASSUME NEW i \in 1 .. l
      PROVE  /\ Column(P, i) \in Finite(typesAt[n - 1])
             /\ \A t \in Tuples(P) : t[2][i] \in Column(P, i) /\ t[2][i] \in ElementsOf(t)
  <2>1. \A t \in Tuples(P) : t[2][i] \in Column(P, i) /\ t[2][i] \in ElementsOf(t)
    BY <1>3, <1>4 DEF Column
  <2>2. Column(P, i) \subseteq E
    BY <2>1 DEF Column
  <2>3. E \subseteq typesAt[n - 1] /\ IsFiniteSet(E)
    BY TuplesIn DEF Finite
  <2>4. IsFiniteSet(Column(P, i))
    <3> HIDE DEF E
    <3> QED
      BY <2>2, <2>3, FS_Subset
  <2> QED
    BY <2>1, <2>2, <2>3, <2>4 DEF Finite
<1> QED
  BY <1>3, <1>5

LEMMA MergedTuplesIn ==
  ASSUME NEW n \in Depths, NEW P \in Finite(PartsAt(n)), Tuples(P) # {}
  PROVE  /\ MergedTuples(P) \in PartsAt(n)
         /\ MergedTuples(P) # Untyped
         /\ \A p \in Tuples(P) : PartValues(n, FALSE, p) \subseteq PartValues(n, TRUE, MergedTuples(P))
<1> DEFINE E == UNION {ElementsOf(t) : t \in Tuples(P)}
           g == valuesOf[n - 1][FALSE]
           h == valuesOf[n - 1][TRUE]
<1>1. n # 0 /\ n - 1 \in Depths /\ E \in Finite(typesAt[n - 1])
  BY TuplesIn, DepthsAre
<1>2. \A X \in Finite(typesAt[n - 1]) : \A e \in X : g[e] \subseteq h[FromTypeVec(X)]
  BY <1>1, MadeBelow, FromTypeVecCovers DEF CoversAt
<1>3. CASE ~Uniform(P)
  <2> DEFINE a == FromTypeVec(E)
  <2>1. MergedTuples(P) = ArrayOf(a)
    BY <1>3, MergedTuplesIs
  <2>2. a \in typesAt[n - 1]
    <3> HIDE DEF E
    <3> QED
      BY <1>1, MadeBelow
  <2>3. ASSUME NEW p \in Tuples(P)
        PROVE  PartValues(n, FALSE, p) \subseteq PartValues(n, TRUE, ArrayOf(a))
    <3>1. p \in PartsAt(n) /\ p[1] \in {"ArrayOf", "Tuple"}
      BY TuplesIn
    <3>2. \A e \in ElementsOf(p) : g[e] \subseteq h[a]
      BY <1>1, <1>2
    <3> HIDE DEF g, h, a
    <3>3. ValuesOfPart(p, FALSE, g) \subseteq ValuesOfPart(ArrayOf(a), TRUE, h)
      BY <3>1, <3>2, ValuesIntoArray
    <3> QED
      BY <3>3 DEF g, h, PartValues
  <2>4. ArrayOf(a) \in PartsAt(n) /\ ArrayOf(a) # Untyped
    <3>1. ArrayOf(a)[1] = "ArrayOf" /\ Untyped[1] = "Untyped"
      BY DEF ArrayOf, Untyped
    <3> HIDE DEF a
    <3> QED
      BY <1>1, <2>2, <3>1, PartsBuilt
  <2> QED
    BY <2>1, <2>3, <2>4
<1>4. CASE Uniform(P)
  <2> DEFINE l == TupleLength(P)
             s == [i \in 1 .. l |-> FromTypeVec(Column(P, i))]
  <2>1. MergedTuples(P) = TupleOf(s)
    BY <1>4, MergedTuplesIs
  <2>2. l \in Nat /\ \A i \in 1 .. l : Column(P, i) \in Finite(typesAt[n - 1])
    BY <1>4, ColumnsIn
  <2>3. s \in [1 .. l -> typesAt[n - 1]]
    BY <1>1, <2>2, MadeBelow
  <2>4. s \in Seq(typesAt[n - 1])
    <3> HIDE DEF s, l
    <3> QED
      BY <2>2, <2>3
  <2>5. TupleOf(s) \in PartsAt(n) /\ TupleOf(s) # Untyped
    <3>1. TupleOf(s)[1] = "Tuple" /\ Untyped[1] = "Untyped"
      BY DEF TupleOf, Untyped
    <3> HIDE DEF s
    <3> QED
      BY <1>1, <2>4, <3>1, PartsBuilt
  <2>6. ASSUME NEW p \in Tuples(P)
        PROVE  PartValues(n, FALSE, p) \subseteq PartValues(n, TRUE, TupleOf(s))
    <3>1. p = TupleOf(p[2]) /\ DOMAIN p[2] = 1 .. l /\ DOMAIN s = 1 .. l
      BY <1>4, TuplesIn, ColumnsIn
    <3>2. \A i \in 1 .. l : g[p[2][i]] \subseteq h[s[i]]
      BY <1>2, <1>4, <2>2, ColumnsIn
    <3> DEFINE q == p[2]
    <3>3. ValuesOfPart(TupleOf(q), FALSE, g) \subseteq ValuesOfPart(TupleOf(s), TRUE, h)
      <4>1. DOMAIN q = DOMAIN s /\ \A i \in DOMAIN q : g[q[i]] \subseteq h[s[i]]
        BY <3>1, <3>2
      <4> HIDE DEF g, h, s, q, l
      <4> QED
        BY <4>1, ValuesIntoTuple
    <3> HIDE DEF s
    <3> QED
      BY <3>1, <3>3 DEF PartValues
  <2> QED
    BY <2>1, <2>5, <2>6
<1> QED
  BY <1>3, <1>4

\* Where the elements of the tuples are kept, so are the values of the tuples.
LEMMA MergedTuplesKeep ==
  ASSUME NEW n \in Depths, NEW P \in Finite(PartsAt(n)), NEW p \in Tuples(P), ~Uniform(P),
         \A t \in Tuples(P) : \A e \in ElementsOf(t) :
           valuesOf[n - 1][FALSE][e] \subseteq
             valuesOf[n - 1][FALSE][FromTypeVec(UNION {ElementsOf(x) : x \in Tuples(P)})]
  PROVE  PartValues(n, FALSE, p) \subseteq PartValues(n, FALSE, MergedTuples(P))
<1> DEFINE a == FromTypeVec(UNION {ElementsOf(x) : x \in Tuples(P)})
           g == valuesOf[n - 1][FALSE]
<1>1. MergedTuples(P) = ArrayOf(a)
  BY MergedTuplesIs
<1>2. p \in PartsAt(n) /\ p[1] \in {"ArrayOf", "Tuple"}
  BY TuplesIn
<1>3. \A e \in ElementsOf(p) : g[e] \subseteq g[a]
  OBVIOUS
<1> HIDE DEF g, a
<1>4. ValuesOfPart(p, FALSE, g) \subseteq ValuesOfPart(ArrayOf(a), FALSE, g)
  BY <1>2, <1>3, ValuesIntoArray
<1> QED
  BY <1>1, <1>4 DEF PartValues, g

LEMMA ParamCovers ==
  ASSUME NEW X \in Finite(Types),
         (\E part \in Flattened(X) : part[1] = "ArrayOf")
           => Keeps(FromTypeVec(TupleElements(X)), TupleElements(X))
  PROVE  Covers(MergeParamArgVec(X), X)
<1> DEFINE n == MaxDepth
           P == Flattened(X)
           T == Tuples(P)
           m == MergedTuples(P)
           Y == (P \ T) \union (IF T = {} THEN {} ELSE {m})
           r == MergeParamArgVec(X)
           inner == fromTypeVec[n - 1]
<1>1. n \in Depths /\ P \in Finite(PartsAt(n))
  BY DepthsAre, FlattenedIn DEF Types
<1>2. r = FromTypeVec(Y)
  BY DEF MergeParamArgVec
<1>3. P \subseteq PartsAt(n) /\ IsFiniteSet(P)
  BY <1>1 DEF Finite
<1>4. Y \subseteq PartsAt(n)
  <2> HIDE DEF P, n
  <2> QED
    BY <1>1, <1>3, MergedTuplesIn
<1>5. IsFiniteSet(Y)
  <2>1. IsFiniteSet(P \ T)
    <3> HIDE DEF P
    <3> QED
      BY <1>3, FS_Difference
  <2>2. CASE T = {}
    <3>1. Y = P \ T
      BY <2>2
    <3> QED
      BY <2>1, <3>1
  <2>3. CASE T # {}
    <3>1. Y = (P \ T) \union {m}
      BY <2>3
    <3>2. IsFiniteSet((P \ T) \union {m})
      <4> HIDE DEF P, T, m
      <4> QED
        BY <2>1, FS_AddElement
    <3> QED
      BY <3>1, <3>2
  <2> QED
    BY <2>2, <2>3
<1>6. Y \in Finite(PartsAt(n)) /\ Y \in Finite(typesAt[n])
  BY <1>1, <1>4, <1>5, PartsOf DEF Finite
<1>7. \A q \in Y : PartValues(n, FALSE, q) \subseteq PossibleValues(r)
  <2> HIDE DEF Y, n
  <2>1. \A q \in Y : valuesOf[n][FALSE][q] \subseteq valuesOf[n][TRUE][fromTypeVec[n][Y]]
    BY <1>1, <1>6, FromTypeVecCovers DEF CoversAt
  <2>2. \A q \in Y : valuesOf[n][FALSE][q] = PartValues(n, FALSE, q)
    BY <1>1, <1>4, PartKnown
  <2> QED
    BY <1>2, <2>1, <2>2 DEF PossibleValues, FromTypeVec, n
<1>8. ASSUME NEW p \in T PROVE PartValues(n, FALSE, p) \subseteq PossibleValues(r)
  <2>1. T # {} /\ m \in Y
    OBVIOUS
  <2>2. n # 0 /\ n - 1 \in Depths
    <3> HIDE DEF P, n
    <3> QED
      BY <1>1, <2>1, TuplesIn, DepthsAre
  <2>3. CASE \E part \in P : part[1] = "ArrayOf"
    <3> DEFINE E == UNION {ElementsOf(t) : t \in T}
    <3>1. Keeps(FromTypeVec(E), E)
      BY <2>3 DEF TupleElements
    <3>2. ~Uniform(P)
      BY <2>3 DEF Uniform
    <3>3. E \in Finite(typesAt[n - 1])
      <4> HIDE DEF P, n
      <4> QED
        BY <1>1, <2>1, TuplesIn
    <3>4. E \subseteq typesAt[n - 1] /\ FromTypeVec(E) \in typesAt[n - 1]
      <4> HIDE DEF E, n
      <4> QED
        BY <1>1, <2>2, <3>3, MadeBelow DEF Finite
    <3>5. \A t \in typesAt[n - 1] : valuesOf[n - 1][FALSE][t] = KnownValues(t)
      BY <1>1, <2>2, ValuesSteady DEF KnownValues
    <3>6. \A e \in E : valuesOf[n - 1][FALSE][e] \subseteq valuesOf[n - 1][FALSE][FromTypeVec(E)]
      <4> HIDE DEF E, n
      <4> QED
        BY <3>1, <3>4, <3>5 DEF Keeps
    <3>7. \A t \in T : \A e \in ElementsOf(t) :
            valuesOf[n - 1][FALSE][e] \subseteq valuesOf[n - 1][FALSE][FromTypeVec(E)]
      BY <3>6
    <3>8. PartValues(n, FALSE, p) \subseteq PartValues(n, FALSE, m)
      <4> HIDE DEF P, n
      <4> QED
        BY <1>1, <3>2, <3>7, MergedTuplesKeep
    <3> QED
      BY <1>7, <2>1, <3>8
  <2>4. CASE ~\E part \in P : part[1] = "ArrayOf"
    <3> DEFINE Q == WithoutBot(Y \ {Untyped})
    <3>1. m \in PartsAt(n) /\ m # Untyped /\ PartValues(n, FALSE, p) \subseteq PartValues(n, TRUE, m)
      <4> HIDE DEF P, n
      <4> QED
        BY <1>1, <2>1, MergedTuplesIn
    <3>2. ArrayLike(Q) \subseteq {m}
      <4>1. \A q \in P \ T : q[1] \notin {"ArrayOf", "Tuple"}
        BY <2>4 DEF Tuples, IsTuple
      <4>2. Q \subseteq (P \ T) \union {m}
        BY DEF WithoutBot
      <4> HIDE DEF Q, P, T, m
      <4> QED
        BY <4>1, <4>2 DEF ArrayLike
    <3>3. Cardinality(ArrayLike(Q)) <= 1
      <4>1. IsFiniteSet({m}) /\ Cardinality({m}) = 1
        BY FS_Singleton
      <4> HIDE DEF Q, m
      <4>2. Cardinality(ArrayLike(Q)) <= Cardinality({m})
        BY <3>2, <4>1, FS_Subset
      <4> QED
        BY <4>1, <4>2
    <3>4. ~Merges(Q)
      BY <3>3 DEF Merges
    <3>5. PartValues(n, TRUE, m) \subseteq valuesOf[n][TRUE][FromParts(Y, inner)]
      <4>1. Stays(n, inner)
        <5> HIDE DEF n
        <5> QED
          BY <1>1, FromTypeVecStays
      <4> HIDE DEF Y, inner, m, n
      <4> QED
        BY <1>1, <1>6, <2>1, <3>1, <3>4, <4>1, FromPartsPossible
    <3>6. Flattened(Y) = Y
      <4> HIDE DEF Y, n
      <4>1. \A q \in Y : UnionParts(q) = {q}
        BY <1>1, <1>4, PartsOf
      <4> QED
        BY <4>1 DEF Flattened
    <3>7. FromTypeVec(Y) = FromParts(Y, inner)
      <4>1. fromTypeVec[n][Y] = FromParts(Flattened(Y), fromTypeVec[n - 1])
        <5> HIDE DEF Y, n
        <5> QED
          BY <1>1, <1>6, FromTypeVecIs
      <4> QED
        BY <3>6, <4>1 DEF FromTypeVec
    <3> HIDE DEF Y, m
    <3> QED
      BY <1>2, <3>1, <3>5, <3>7 DEF PossibleValues
  <2> QED
    BY <2>3, <2>4
<1>9. \A p \in P : PartValues(n, FALSE, p) \subseteq PossibleValues(r)
  <2>1. \A p \in P : p \in T \/ p \in Y
    OBVIOUS
  <2> HIDE DEF P, T, Y, r, n
  <2> QED
    BY <1>7, <1>8, <2>1
<1> QED
  <2> HIDE DEF r
  <2> QED
    BY <1>9, CoversByParts DEF r

-----------------------------------------------------------------------------
\* Widening.
LEMMA InsideIs ==
  ASSUME NEW t
  PROVE  /\ t[1] = "Union" => Inside(t) = t[2]
         /\ t[1] \in {"ArrayOf", "Tuple"} => Inside(t) = ElementsOf(t)
<1>1. t[1] = "Union" => Inside(t) = t[2]
  BY DEF Inside
<1>2. t[1] \in {"ArrayOf", "Tuple"} => Inside(t) = ElementsOf(t)
  BY DEF Inside
<1> QED
  BY <1>1, <1>2

\* What is known of an element is known of what it becomes.
KeptBelow(n, p, below) ==
  p[1] \in {"ArrayOf", "Tuple"} =>
    \A e \in ElementsOf(p) : valuesOf[n - 1][FALSE][e] \subseteq valuesOf[n - 1][FALSE][below[e]]

LEMMA TupleToArrayCovers ==
  ASSUME NEW n \in Depths, NEW below, GoesBelow(n, below), NEW p \in PartsAt(n),
         KeptBelow(n, p, below)
  PROVE  PartValues(n, FALSE, p) \subseteq PartValues(n, TRUE, TupleToArray(p, below))
<1> DEFINE g == valuesOf[n - 1][FALSE]
           h == valuesOf[n - 1][TRUE]
<1>1. CASE p \in Scalars
  BY <1>1, ScalarTags, TupleToArrayIs, KnownPossible
<1>2. CASE n # 0 /\ p[1] \in {"ArrayOf", "Tuple"}
  <2>1. n - 1 \in Depths
    BY <1>2, DepthsAre
  <2>2. ElementsOf(p) \in Finite(typesAt[n - 1])
    BY <1>2, ElementsIn
  <2>3. \E a : /\ TupleToArray(p, below) = ArrayOf(a)
               /\ \A e \in ElementsOf(p) : g[e] \subseteq h[a]
    <3>1. CASE p[1] = "ArrayOf"
      <4>1. ElementsOf(p) = {p[2]} /\ p[2] \in typesAt[n - 1]
        BY <2>2, <3>1 DEF ElementsOf, Finite
      <4>2. below[p[2]] \in typesAt[n - 1]
        BY <1>2, <4>1 DEF GoesBelow
      <4>3. g[p[2]] \subseteq h[below[p[2]]]
        BY <1>2, <2>1, <4>1, <4>2, KnownPossible DEF KeptBelow
      <4> HIDE DEF g, h
      <4> QED
        BY <3>1, <4>1, <4>3, TupleToArrayIs
    <3>2. CASE p[1] = "Tuple"
      <4> DEFINE R == {below[e] : e \in ElementsOf(p)}
      <4>1. R \in Finite(typesAt[n - 1])
        BY <1>2, <2>2, RangeIn
      <4>2. \A e \in ElementsOf(p) : below[e] \in R
        OBVIOUS
      <4>3. \A x \in R : g[x] \subseteq h[FromTypeVec(R)]
        <5> HIDE DEF R
        <5> QED
          BY <1>2, <2>1, <4>1, MadeBelow, FromTypeVecCovers DEF CoversAt
      <4>4. \A e \in ElementsOf(p) : g[e] \subseteq g[below[e]]
        BY <3>2 DEF KeptBelow
      <4>5. TupleToArray(p, below) = ArrayOf(FromTypeVec(R))
        BY <3>2, TupleToArrayIs
      <4> HIDE DEF g, h, R
      <4> QED
        BY <4>2, <4>3, <4>4, <4>5
    <3> QED
      BY <1>2, <3>1, <3>2
  <2>4. PICK a : /\ TupleToArray(p, below) = ArrayOf(a)
                 /\ \A e \in ElementsOf(p) : g[e] \subseteq h[a]
    BY <2>3
  <2> HIDE DEF g, h
  <2>5. ValuesOfPart(p, FALSE, g) \subseteq ValuesOfPart(ArrayOf(a), TRUE, h)
    BY <1>2, <2>4, ValuesIntoArray
  <2> QED
    BY <2>4, <2>5 DEF PartValues, g, h
<1> QED
  BY <1>1, <1>2, PartCases

LEMMA ArgForParamCovers ==
  ASSUME NEW n \in Depths, NEW below, GoesBelow(n, below), NEW p \in PartsAt(n),
         KeptBelow(n, p, below)
  PROVE  PartValues(n, FALSE, p) \subseteq PartValues(n, TRUE, ArgForParam(p, below))
<1> DEFINE g == valuesOf[n - 1][FALSE]
           h == valuesOf[n - 1][TRUE]
<1>1. CASE p \in Scalars
  <2>1. PartValues(n, FALSE, p) \subseteq PartValues(n, TRUE, p)
    BY KnownPossible
  <2>2. CASE p[1] = "LiteralInteger" \/ p \in {True, False}
    BY <1>1, <2>1, <2>2, ArgForParamIs, LiteralValues DEF PartValues
  <2>3. CASE ~(p[1] = "LiteralInteger" \/ p \in {True, False})
    <3>1. ArgForParam(p, below) = p
      BY <1>1, <2>3, ScalarTags, ArgForParamIs
    <3> QED
      BY <2>1, <3>1
  <2> QED
    BY <2>2, <2>3
<1>2. CASE n # 0 /\ p[1] \in {"ArrayOf", "Tuple"}
  <2>1. n - 1 \in Depths
    BY <1>2, DepthsAre
  <2>2. \A e \in ElementsOf(p) : g[e] \subseteq h[below[e]]
    <3> SUFFICES ASSUME NEW e \in ElementsOf(p) PROVE g[e] \subseteq h[below[e]]
      OBVIOUS
    <3>1. e \in typesAt[n - 1]
      BY <1>2, ElementsIn DEF Finite
    <3>2. below[e] \in typesAt[n - 1]
      BY <1>2, <3>1 DEF GoesBelow
    <3>3. g[e] \subseteq g[below[e]]
      BY <1>2 DEF KeptBelow
    <3>4. g[below[e]] \subseteq h[below[e]]
      BY <2>1, <3>2, KnownPossible
    <3> HIDE DEF g, h
    <3> QED
      BY <3>3, <3>4
  <2>3. CASE p[1] = "ArrayOf"
    <3> DEFINE a == below[p[2]]
    <3>1. ElementsOf(p) = {p[2]} /\ ArgForParam(p, below) = ArrayOf(a)
      BY <2>3, ArgForParamIs DEF ElementsOf
    <3>2. \A e \in ElementsOf(p) : g[e] \subseteq h[a]
      BY <2>2, <3>1
    <3> HIDE DEF g, h, a
    <3>3. ValuesOfPart(p, FALSE, g) \subseteq ValuesOfPart(ArrayOf(a), TRUE, h)
      BY <1>2, <3>2, ValuesIntoArray
    <3> QED
      BY <3>1, <3>3 DEF PartValues, g, h
  <2>4. CASE p[1] = "Tuple" /\ Cardinality({below[e] : e \in ElementsOf(p)}) = 1
    <3> DEFINE a == below[p[2][1]]
    <3>1. ArgForParam(p, below) = ArrayOf(a)
      BY <2>4, ArgForParamIs
    <3>2. \A e \in ElementsOf(p) : below[e] = a
      BY <2>4, FirstElement
    <3> HIDE DEF g, h, a
    <3>3. ValuesOfPart(p, FALSE, g) \subseteq ValuesOfPart(ArrayOf(a), TRUE, h)
      BY <1>2, <2>2, <3>2, ValuesIntoArray
    <3> QED
      BY <3>1, <3>3 DEF PartValues, g, h
  <2>5. CASE p[1] = "Tuple" /\ Cardinality({below[e] : e \in ElementsOf(p)}) # 1
    <3> DEFINE q == p[2]
               s == [i \in DOMAIN q |-> below[q[i]]]
    <3>1. ArgForParam(p, below) = TupleOf(s) /\ p = TupleOf(q)
      BY <2>5, ArgForParamIs, PartCases, ScalarTags
    <3>2. \A i \in DOMAIN q : q[i] \in ElementsOf(p)
      BY <2>5 DEF ElementsOf
    <3>3. DOMAIN s = DOMAIN q /\ \A i \in DOMAIN q : g[q[i]] \subseteq h[s[i]]
      BY <2>2, <3>2
    <3> HIDE DEF g, h, q, s
    <3>4. ValuesOfPart(TupleOf(q), FALSE, g) \subseteq ValuesOfPart(TupleOf(s), TRUE, h)
      BY <3>3, ValuesIntoTuple
    <3> QED
      BY <3>1, <3>4 DEF PartValues, g, h
  <2> QED
    BY <1>2, <2>3, <2>4, <2>5
<1> QED
  BY <1>1, <1>2, PartCases

LEMMA WidenTupleToArrayCovers ==
  ASSUME NEW t \in Types, \A e \in Inside(t) : Keeps(WidenTupleToArray(e), {e})
  PROVE  Covers(WidenTupleToArray(t), {t})
<1> DEFINE n == MaxDepth
           below == widenTupleToArray[n - 1]
           w == [p \in PartsAt(n) |-> TupleToArray(p, below)]
<1>1. n \in Depths /\ t \in typesAt[n]
  BY DepthsAre DEF Types
<1>2. GoesBelow(n, below)
  <2> HIDE DEF n
  <2>1. n # 0 => n - 1 \in Depths
    BY <1>1, DepthsAre
  <2> QED
    BY <1>1, <2>1, WidenTupleToArrayAre DEF GoesBelow
<1>3. \A x \in typesAt[n] : WidenTupleToArray(x) = Widens(n, w, x)
  <2>1. \A x \in typesAt[n] : widenTupleToArray[n][x] = TuplesOver(n, below)[x]
    BY <1>1, WidenTupleToArrayAre
  <2>2. \A x \in typesAt[n] : TuplesOver(n, below)[x] = Widens(n, w, x)
    <3> HIDE DEF n, below
    <3> QED
      BY <1>1, TuplesOverIs
  <2> QED
    BY <2>1, <2>2 DEF WidenTupleToArray
<1>4. \A p \in PartsAt(n) : p \in typesAt[n] /\ WidenTupleToArray(p) = TupleToArray(p, below)
  <2> HIDE DEF below
  <2>1. \A p \in PartsAt(n) : p \in typesAt[n] /\ p[1] # "Union"
    BY <1>1, PartsOf, PartCases
  <2> QED
    BY <1>3, <2>1 DEF Widens
<1>5. CASE t[1] = "Union"
  <2> DEFINE P == t[2]
             X == {w[p] : p \in P}
  <2>1. P \in Finite(PartsAt(n)) /\ P = UnionParts(t) /\ Inside(t) = P
    BY <1>1, <1>5, PartsOf, InsideIs
  <2>2. WidenTupleToArray(t) = FromTypeVec(X)
    BY <1>1, <1>3, <1>5 DEF Widens
  <2>3. X \in Finite(Types)
    <3> DEFINE v == [p \in P |-> w[p]]
    <3>1. \A p \in PartsAt(n) : w[p] \in typesAt[n]
      <4> HIDE DEF n, below
      <4>1. \A p \in PartsAt(n) : TupleToArray(p, below) \in PartsAt(n)
        BY <1>1, <1>2, TupleToArrayIn
      <4> QED
        BY <1>1, <4>1, PartsOf
    <3>2. v \in [P -> typesAt[n]] /\ IsFiniteSet(P)
      BY <2>1, <3>1 DEF Finite
    <3>3. IsFiniteSet({v[p] : p \in P})
      <4> HIDE DEF v, P, n
      <4> QED
        BY <3>2, FiniteRange
    <3>4. X = {v[p] : p \in P} /\ X \subseteq typesAt[n]
      BY <3>2
    <3> QED
      BY <3>3, <3>4 DEF Finite, Types
  <2>4. \A p \in P : WidenTupleToArray(p) = w[p] /\ w[p] \in X
    BY <1>4, <2>1 DEF Finite
  <2>5. ASSUME NEW p \in P PROVE PartValues(n, FALSE, p) \subseteq PossibleValues(WidenTupleToArray(t))
    <3>1. p \in PartsAt(n)
      BY <2>1 DEF Finite
    <3>2. PartValues(n, FALSE, p) = KnownValues(p)
      BY <1>1, <3>1, PartKnown DEF KnownValues
    <3>3. KnownValues(p) \subseteq KnownValues(WidenTupleToArray(p))
      BY <2>1 DEF Keeps
    <3>4. KnownValues(WidenTupleToArray(p)) \subseteq PossibleValues(FromTypeVec(X))
      <4>1. Covers(FromTypeVec(X), X)
        <5> HIDE DEF X
        <5> QED
          BY <2>3, MergeCovers
      <4> HIDE DEF X, w
      <4> QED
        BY <2>4, <4>1 DEF Covers
    <3> HIDE DEF X
    <3> QED
      BY <2>2, <3>2, <3>3, <3>4
  <2>6. KnownValues(t) = UNION {PartValues(n, FALSE, p) : p \in P}
    BY <1>1, <2>1, ValuesAre DEF KnownValues, AllValues
  <2> HIDE DEF P, n
  <2> QED
    BY <2>5, <2>6 DEF Covers
<1>6. CASE t[1] # "Union"
  <2>1. t \in PartsAt(n)
    BY <1>1, <1>6, PartsOf
  <2>2. KeptBelow(n, t, below)
    <3> SUFFICES ASSUME t[1] \in {"ArrayOf", "Tuple"}, NEW e \in ElementsOf(t)
                 PROVE  valuesOf[n - 1][FALSE][e] \subseteq valuesOf[n - 1][FALSE][below[e]]
      BY DEF KeptBelow
    <3>1. n # 0
      BY <1>1, <2>1, PartCases, ScalarTags
    <3>2. e \in typesAt[n - 1]
      BY <1>1, <2>1, <3>1, ElementsIn DEF Finite
    <3>3. WidenTupleToArray(e) = below[e]
      BY <1>1, <3>1, <3>2, WidenTupleToArraySteady DEF WidenTupleToArray
    <3>4. below[e] \in typesAt[n - 1]
      BY <1>2, <3>1, <3>2 DEF GoesBelow
    <3>5. Keeps(WidenTupleToArray(e), {e})
      BY InsideIs
    <3>6. KnownValues(e) \subseteq KnownValues(below[e])
      BY <3>3, <3>5 DEF Keeps
    <3>7. \A x \in typesAt[n - 1] : KnownValues(x) = valuesOf[n - 1][FALSE][x]
      BY <1>1, <3>1, ValuesSteady DEF KnownValues
    <3> HIDE DEF below
    <3> QED
      BY <3>2, <3>4, <3>6, <3>7
  <2>3. PartValues(n, FALSE, t) \subseteq PartValues(n, TRUE, TupleToArray(t, below))
    <3> HIDE DEF n, below
    <3> QED
      BY <1>1, <1>2, <2>1, <2>2, TupleToArrayCovers
  <2>4. TupleToArray(t, below) \in PartsAt(n)
    <3> HIDE DEF n, below
    <3> QED
      BY <1>1, <1>2, <2>1, TupleToArrayIn
  <2>5. /\ KnownValues(t) = PartValues(n, FALSE, t)
        /\ PossibleValues(WidenTupleToArray(t)) = PartValues(n, TRUE, TupleToArray(t, below))
    BY <1>1, <1>4, <2>1, <2>4, PartKnown DEF KnownValues, PossibleValues
  <2> QED
    BY <2>3, <2>5 DEF Covers
<1> QED
  BY <1>5, <1>6

LEMMA WidenArgForParamCovers ==
  ASSUME NEW t \in Types, \A e \in Inside(t) : Keeps(WidenArgForParam(e), {e})
  PROVE  Covers(WidenArgForParam(t), {t})
<1> DEFINE n == MaxDepth
           below == widenArgForParam[n - 1]
           w == [p \in PartsAt(n) |-> ArgForParam(p, below)]
<1>1. n \in Depths /\ t \in typesAt[n]
  BY DepthsAre DEF Types
<1>2. GoesBelow(n, below)
  <2> HIDE DEF n
  <2>1. n # 0 => n - 1 \in Depths
    BY <1>1, DepthsAre
  <2> QED
    BY <1>1, <2>1, WidenArgForParamAre DEF GoesBelow
<1>3. \A x \in typesAt[n] : WidenArgForParam(x) = Widens(n, w, x)
  <2>1. \A x \in typesAt[n] : widenArgForParam[n][x] = ArgsOver(n, below)[x]
    BY <1>1, WidenArgForParamAre
  <2>2. \A x \in typesAt[n] : ArgsOver(n, below)[x] = Widens(n, w, x)
    <3> HIDE DEF n, below
    <3> QED
      BY <1>1, ArgsOverIs
  <2> QED
    BY <2>1, <2>2 DEF WidenArgForParam
<1>4. \A p \in PartsAt(n) : p \in typesAt[n] /\ WidenArgForParam(p) = ArgForParam(p, below)
  <2> HIDE DEF below
  <2>1. \A p \in PartsAt(n) : p \in typesAt[n] /\ p[1] # "Union"
    BY <1>1, PartsOf, PartCases
  <2> QED
    BY <1>3, <2>1 DEF Widens
<1>5. CASE t[1] = "Union"
  <2> DEFINE P == t[2]
             X == {w[p] : p \in P}
  <2>1. P \in Finite(PartsAt(n)) /\ P = UnionParts(t) /\ Inside(t) = P
    BY <1>1, <1>5, PartsOf, InsideIs
  <2>2. WidenArgForParam(t) = FromTypeVec(X)
    BY <1>1, <1>3, <1>5 DEF Widens
  <2>3. X \in Finite(Types)
    <3> DEFINE v == [p \in P |-> w[p]]
    <3>1. \A p \in PartsAt(n) : w[p] \in typesAt[n]
      <4> HIDE DEF n, below
      <4>1. \A p \in PartsAt(n) : ArgForParam(p, below) \in PartsAt(n)
        BY <1>1, <1>2, ArgForParamIn
      <4> QED
        BY <1>1, <4>1, PartsOf
    <3>2. v \in [P -> typesAt[n]] /\ IsFiniteSet(P)
      BY <2>1, <3>1 DEF Finite
    <3>3. IsFiniteSet({v[p] : p \in P})
      <4> HIDE DEF v, P, n
      <4> QED
        BY <3>2, FiniteRange
    <3>4. X = {v[p] : p \in P} /\ X \subseteq typesAt[n]
      BY <3>2
    <3> QED
      BY <3>3, <3>4 DEF Finite, Types
  <2>4. \A p \in P : WidenArgForParam(p) = w[p] /\ w[p] \in X
    BY <1>4, <2>1 DEF Finite
  <2>5. ASSUME NEW p \in P PROVE PartValues(n, FALSE, p) \subseteq PossibleValues(WidenArgForParam(t))
    <3>1. p \in PartsAt(n)
      BY <2>1 DEF Finite
    <3>2. PartValues(n, FALSE, p) = KnownValues(p)
      BY <1>1, <3>1, PartKnown DEF KnownValues
    <3>3. KnownValues(p) \subseteq KnownValues(WidenArgForParam(p))
      BY <2>1 DEF Keeps
    <3>4. KnownValues(WidenArgForParam(p)) \subseteq PossibleValues(FromTypeVec(X))
      <4>1. Covers(FromTypeVec(X), X)
        <5> HIDE DEF X
        <5> QED
          BY <2>3, MergeCovers
      <4> HIDE DEF X, w
      <4> QED
        BY <2>4, <4>1 DEF Covers
    <3> HIDE DEF X
    <3> QED
      BY <2>2, <3>2, <3>3, <3>4
  <2>6. KnownValues(t) = UNION {PartValues(n, FALSE, p) : p \in P}
    BY <1>1, <2>1, ValuesAre DEF KnownValues, AllValues
  <2> HIDE DEF P, n
  <2> QED
    BY <2>5, <2>6 DEF Covers
<1>6. CASE t[1] # "Union"
  <2>1. t \in PartsAt(n)
    BY <1>1, <1>6, PartsOf
  <2>2. KeptBelow(n, t, below)
    <3> SUFFICES ASSUME t[1] \in {"ArrayOf", "Tuple"}, NEW e \in ElementsOf(t)
                 PROVE  valuesOf[n - 1][FALSE][e] \subseteq valuesOf[n - 1][FALSE][below[e]]
      BY DEF KeptBelow
    <3>1. n # 0
      BY <1>1, <2>1, PartCases, ScalarTags
    <3>2. e \in typesAt[n - 1]
      BY <1>1, <2>1, <3>1, ElementsIn DEF Finite
    <3>3. WidenArgForParam(e) = below[e]
      BY <1>1, <3>1, <3>2, WidenArgForParamSteady DEF WidenArgForParam
    <3>4. below[e] \in typesAt[n - 1]
      BY <1>2, <3>1, <3>2 DEF GoesBelow
    <3>5. Keeps(WidenArgForParam(e), {e})
      BY InsideIs
    <3>6. KnownValues(e) \subseteq KnownValues(below[e])
      BY <3>3, <3>5 DEF Keeps
    <3>7. \A x \in typesAt[n - 1] : KnownValues(x) = valuesOf[n - 1][FALSE][x]
      BY <1>1, <3>1, ValuesSteady DEF KnownValues
    <3> HIDE DEF below
    <3> QED
      BY <3>2, <3>4, <3>6, <3>7
  <2>3. PartValues(n, FALSE, t) \subseteq PartValues(n, TRUE, ArgForParam(t, below))
    <3> HIDE DEF n, below
    <3> QED
      BY <1>1, <1>2, <2>1, <2>2, ArgForParamCovers
  <2>4. ArgForParam(t, below) \in PartsAt(n)
    <3> HIDE DEF n, below
    <3> QED
      BY <1>1, <1>2, <2>1, ArgForParamIn
  <2>5. /\ KnownValues(t) = PartValues(n, FALSE, t)
        /\ PossibleValues(WidenArgForParam(t)) = PartValues(n, TRUE, ArgForParam(t, below))
    BY <1>1, <1>4, <2>1, <2>4, PartKnown DEF KnownValues, PossibleValues
  <2> QED
    BY <2>3, <2>5 DEF Covers
<1> QED
  BY <1>5, <1>6

-----------------------------------------------------------------------------
LEMMA CoversWhateverMeets ==
  ASSUME meeting \in Finite(Types)
  PROVE  UnionCovers
<1>1. meeting \subseteq Types
  BY DEF Finite
<1>2. /\ Covers(FromTypeVec(meeting), meeting)
      /\ FullyKnown(FromTypeVec(meeting)) => Keeps(FromTypeVec(meeting), meeting)
  BY MergeCovers
<1>3. Covers(FromTypeVecPreserveUntyped(meeting), meeting)
  BY PreserveCovers
<1>4. ((\E part \in Flattened(meeting) : part[1] = "ArrayOf")
         => Keeps(FromTypeVec(TupleElements(meeting)), TupleElements(meeting)))
        => Covers(MergeParamArgVec(meeting), meeting)
  BY ParamCovers
<1>5. ASSUME NEW type \in meeting
      PROVE  /\ (\A e \in Inside(type) : Keeps(WidenArgForParam(e), {e}))
                  => Covers(WidenArgForParam(type), {type})
             /\ (\A e \in Inside(type) : Keeps(WidenTupleToArray(e), {e}))
                  => Covers(WidenTupleToArray(type), {type})
             /\ \A other \in meeting : Covers(UnionWith(type, other), {type, other})
  BY <1>1, WidenArgForParamCovers, WidenTupleToArrayCovers, UnionWithCovers
<1> QED
  BY <1>2, <1>3, <1>4, <1>5 DEF UnionCovers

-----------------------------------------------------------------------------
\* Merging in groups and at once.  A set of alternatives in which arrays are merged has more
\* of them merged with others.
LEMMA FewAre ==
  ASSUME NEW S, IsFiniteSet(S)
  PROVE  /\ Cardinality(S) \in Nat
         /\ Cardinality(S) <= 1 <=> (S = {} \/ \E x : S = {x})
<1>1. Cardinality(S) \in Nat
  BY FS_CardinalityType
<1>2. Cardinality(S) = 0 <=> S = {}
  BY FS_EmptySet
<1>3. Cardinality(S) = 1 <=> \E x : S = {x}
  BY FS_Singleton
<1> QED
  BY <1>1, <1>2, <1>3

LEMMA ArraysDecide ==
  ASSUME NEW P, NEW R, ArrayLike(P) = ArrayLike(R)
  PROVE  (Merges(P) <=> Merges(R)) /\ AllElements(P) = AllElements(R)
BY DEF Merges, AllElements

LEMMA MoreMerges ==
  ASSUME NEW A, NEW C, IsFiniteSet(C), A \subseteq C, Merges(A)
  PROVE  Merges(C)
<1> DEFINE a == ArrayLike(A)
           c == ArrayLike(C)
<1>1. a \subseteq c /\ c \subseteq C
  BY DEF ArrayLike
<1>2. IsFiniteSet(c) /\ IsFiniteSet(a) /\ Cardinality(a) <= Cardinality(c)
  BY <1>1, FS_Subset
<1>3. Cardinality(a) \in Nat /\ Cardinality(c) \in Nat /\ ~(Cardinality(a) <= 1) /\ a # {}
  BY <1>2, FewAre DEF Merges
<1>4. ~(Cardinality(c) <= 1)
  <2> HIDE DEF a, c
  <2> QED
    BY <1>2, <1>3
<1>5. ASSUME \A type \in c : IsTuple(type), TupleLengths(c) # {0}, Cardinality(TupleLengths(c)) = 1
      PROVE  FALSE
  <2> DEFINE len == [t \in c |-> Len(t[2])]
  <2>1. IsFiniteSet(TupleLengths(c))
    <3>1. len \in [c -> TupleLengths(c)]
      BY DEF TupleLengths
    <3>2. IsFiniteSet({len[t] : t \in c})
      <4> HIDE DEF len, c
      <4> QED
        BY <1>2, <3>1, FiniteRange
    <3>3. TupleLengths(c) = {len[t] : t \in c}
      BY DEF TupleLengths
    <3> QED
      BY <3>2, <3>3
  <2>2. PICK l : TupleLengths(c) = {l}
    BY <1>5, <2>1, FS_Singleton
  <2>3. TupleLengths(a) = {l}
    <3> HIDE DEF a, c
    <3> QED
      BY <1>1, <1>3, <2>2 DEF TupleLengths
  <2>4. Cardinality(TupleLengths(a)) = 1
    BY <2>3, FS_Singleton
  <2>5. \A type \in a : IsTuple(type)
    BY <1>1, <1>5
  <2> QED
    BY <1>5, <2>2, <2>3, <2>4, <2>5 DEF Merges
<1> QED
  BY <1>4, <1>5 DEF Merges

\* The arrays of alternatives when they are merged, and the alternatives of the result.
MergedArrays(n, P) ==
  IF Merges(P) THEN {ArrayOf(fromTypeVec[n - 1][AllElements(P)])} ELSE ArrayLike(P)
MadeParts(n, P) == SubsumeLiterals(MergeArrayUnion(WithoutBot(P), fromTypeVec[n - 1]))

LEMMA MergedArraysAre ==
  ASSUME NEW n, NEW P
  PROVE  /\ \A p \in MergedArrays(n, P) : p[1] \in {"ArrayOf", "Tuple"}
         /\ ArrayLike(MergedArrays(n, P)) = MergedArrays(n, P)
         /\ \A R : ArrayLike(R) = ArrayLike(P) => MergedArrays(n, R) = MergedArrays(n, P)
<1>1. \A p \in MergedArrays(n, P) : p[1] \in {"ArrayOf", "Tuple"}
  BY DEF MergedArrays, ArrayLike, ArrayOf
<1>2. \A R : ArrayLike(R) = ArrayLike(P) => MergedArrays(n, R) = MergedArrays(n, P)
  BY ArraysDecide DEF MergedArrays
<1>3. ArrayLike(MergedArrays(n, P)) = MergedArrays(n, P)
  BY <1>1 DEF ArrayLike
<1> QED
  BY <1>1, <1>2, <1>3

LEMMA MadePartsAre ==
  ASSUME NEW n, NEW P, IsFiniteSet(P)
  PROVE  /\ \A p : p[1] \in {"ArrayOf", "Tuple"} => (p \in MadeParts(n, P) <=> p \in MergedArrays(n, P))
         /\ Bot \in MadeParts(n, P) <=> P = {Bot}
         /\ \A p : p[1] \notin {"ArrayOf", "Tuple"} /\ p # Bot =>
              (p \in MadeParts(n, P) <=> /\ p \in P
                                         /\ p[1] = "LiteralInteger" => Integer \notin P
                                         /\ p \in {True, False} => Bool \notin P)
<1> DEFINE W == WithoutBot(P)
           M == MergeArrayUnion(W, fromTypeVec[n - 1])
<1>1. /\ Bot[1] = "Bot" /\ Integer[1] = "Integer" /\ Bool[1] = "Bool"
      /\ True[1] = "True" /\ False[1] = "False"
  BY DEF Bot, Integer, Bool, True, False
<1>2. \A p : p # Bot => (p \in W <=> p \in P)
  BY DEF WithoutBot
<1>3. Bot \in W <=> P = {Bot}
  <2>1. Cardinality(P) \in Nat /\ (Cardinality(P) <= 1 <=> (P = {} \/ \E x : P = {x}))
    BY FewAre
  <2>2. Bot \in W <=> Bot \in P /\ Cardinality(P) <= 1
    BY <2>1 DEF WithoutBot
  <2> QED
    BY <2>1, <2>2
<1>4. ArrayLike(W) = ArrayLike(P)
  BY <1>1, <1>2 DEF ArrayLike
<1>5. \A p : p[1] \in {"ArrayOf", "Tuple"} => (p \in M <=> p \in MergedArrays(n, P))
  <2>1. MergedArrays(n, P) = MergedArrays(n, W)
    BY <1>4, MergedArraysAre
  <2> HIDE DEF W
  <2>2. \A p : p[1] \in {"ArrayOf", "Tuple"} => (p \in W <=> p \in ArrayLike(W))
    BY DEF ArrayLike
  <2>3. CASE Merges(W)
    <3> DEFINE a == ArrayOf(fromTypeVec[n - 1][AllElements(W)])
    <3>1. M = (W \ ArrayLike(W)) \union {a} /\ MergedArrays(n, W) = {a}
      BY <2>3, MergeArrayUnionIs DEF MergedArrays
    <3> HIDE DEF a, M
    <3> QED
      BY <2>1, <2>2, <3>1
  <2>4. CASE ~Merges(W)
    <3>1. M = W /\ MergedArrays(n, W) = ArrayLike(W)
      BY <2>4, MergeArrayUnionIs DEF MergedArrays
    <3> HIDE DEF M
    <3> QED
      BY <2>1, <2>2, <3>1
  <2> QED
    BY <2>3, <2>4
<1>6. \A p : p[1] \notin {"ArrayOf", "Tuple"} => (p \in M <=> p \in W)
  <2> HIDE DEF W
  <2>1. \A p : p[1] \notin {"ArrayOf", "Tuple"} => p \notin ArrayLike(W)
    BY DEF ArrayLike
  <2>2. CASE Merges(W)
    <3> DEFINE a == ArrayOf(fromTypeVec[n - 1][AllElements(W)])
    <3>1. M = (W \ ArrayLike(W)) \union {a}
      BY <2>2, MergeArrayUnionIs
    <3>2. a[1] = "ArrayOf"
      BY DEF ArrayOf
    <3> HIDE DEF a, M
    <3> QED
      BY <2>1, <3>1, <3>2
  <2>3. CASE ~Merges(W)
    BY <2>3, MergeArrayUnionIs
  <2> QED
    BY <2>2, <2>3
<1>7. (Integer \in M <=> Integer \in P) /\ (Bool \in M <=> Bool \in P)
  <2> HIDE DEF W, M
  <2>1. Integer # Bot /\ Bool # Bot
    BY <1>1
  <2> QED
    BY <1>1, <1>2, <1>6, <2>1
<1>8. \A p : p \in MadeParts(n, P) <=> /\ p \in M
                                       /\ p[1] = "LiteralInteger" => Integer \notin M
                                       /\ p \in {True, False} => Bool \notin M
  BY DEF MadeParts, SubsumeLiterals
<1> HIDE DEF W, M
<1>9. \A p : p[1] \in {"ArrayOf", "Tuple"} => p[1] # "LiteralInteger" /\ p \notin {True, False}
  BY <1>1
<1>10. Bot[1] \notin {"ArrayOf", "Tuple"} /\ Bot[1] # "LiteralInteger" /\ Bot \notin {True, False}
  BY <1>1
<1>11. ASSUME NEW p, p[1] \in {"ArrayOf", "Tuple"}
       PROVE  p \in MadeParts(n, P) <=> p \in MergedArrays(n, P)
  BY <1>5, <1>8, <1>9, <1>11
<1>12. Bot \in MadeParts(n, P) <=> P = {Bot}
  BY <1>3, <1>6, <1>8, <1>10
<1>13. ASSUME NEW p, p[1] \notin {"ArrayOf", "Tuple"}, p # Bot
       PROVE  p \in MadeParts(n, P) <=> /\ p \in P
                                        /\ p[1] = "LiteralInteger" => Integer \notin P
                                        /\ p \in {True, False} => Bool \notin P
  BY <1>2, <1>6, <1>7, <1>8, <1>13
<1> QED
  BY <1>11, <1>12, <1>13

\* What is not given up is made of the alternatives.
LEMMA KnownMade ==
  ASSUME NEW n \in Depths, NEW P \in Finite(PartsAt(n)), Untyped \notin P,
         fullyKnown[n][FromParts(P, fromTypeVec[n - 1])]
  PROVE  /\ FromParts(P, fromTypeVec[n - 1]) = AsType(MadeParts(n, P))
         /\ UnionParts(FromParts(P, fromTypeVec[n - 1])) = MadeParts(n, P)
         /\ MadeParts(n, P) # {} /\ P # {}
         /\ MadeParts(n, P) \in Finite(PartsAt(n))
         /\ \A p \in MadeParts(n, P) : KnownPart(n, p)
<1> DEFINE r == FromParts(P, fromTypeVec[n - 1])
<1>1. r \in typesAt[n] /\ r # Untyped
  <2>1. r \in typesAt[n]
    BY FromTypeVecStays, FromPartsIn
  <2>2. Untyped \in typesAt[n] /\ UnionParts(Untyped) = {Untyped}
    BY UntypedValues, PartsOf
  <2>3. ~fullyKnown[n][Untyped]
    BY <2>2, FullyKnownIs DEF KnownPart
  <2> QED
    BY <2>1, <2>3
<1>2. P \ {Untyped} = P
  OBVIOUS
<1>3. r = AsType(MadeParts(n, P))
  BY <1>1, <1>2 DEF FromParts, Simplified, MadeParts
<1>4. MadeParts(n, P) \in Finite(PartsAt(n))
  <2>1. WithoutBot(P) \in Finite(PartsAt(n))
    BY SubsetIn DEF WithoutBot
  <2> QED
    BY <2>1, FromTypeVecStays, MergedIn, SubsumedIn DEF MadeParts
<1>5. MadeParts(n, P) # {} /\ UnionParts(r) = MadeParts(n, P)
  BY <1>1, <1>3, <1>4, AsTypeIn
<1>6. \A p \in MadeParts(n, P) : KnownPart(n, p)
  BY <1>1, <1>5, FullyKnownIs
<1>7. P # {}
  <2> SUFFICES ASSUME P = {} PROVE FALSE
    OBVIOUS
  <2>1. IsFiniteSet(P) /\ ArrayLike(P) = {}
    BY DEF Finite, ArrayLike
  <2>2. ~Merges(P)
    BY <2>1, FS_EmptySet DEF Merges
  <2>3. MergedArrays(n, P) = {}
    BY <2>1, <2>2 DEF MergedArrays
  <2>4. \A p : p \notin MadeParts(n, P)
    BY <2>1, <2>3, MadePartsAre
  <2> QED
    BY <1>5, <2>4
<1> QED
  BY <1>3, <1>4, <1>5, <1>6, <1>7

\* At one depth: what is merged after a part of it was gives what all of it gives.
Agree(n) ==
  \A X \in Finite(typesAt[n]) : \A Y \in Finite(typesAt[n]) :
    /\ \A t \in X \union Y : fullyKnown[n][t]
    /\ fullyKnown[n][fromTypeVec[n][X]]
    /\ fullyKnown[n][fromTypeVec[n][X \union Y]]
    /\ fullyKnown[n][fromTypeVec[n][Y \union {fromTypeVec[n][X]}]]
    => fromTypeVec[n][Y \union {fromTypeVec[n][X]}] = fromTypeVec[n][X \union Y]

LEMMA JoinIn ==
  ASSUME NEW T, NEW X \in Finite(T), NEW Y \in Finite(T)
  PROVE  /\ X \union Y \in Finite(T)
         /\ \A t \in T : Y \union {t} \in Finite(T)
<1>1. IsFiniteSet(X \union Y)
  BY FS_Union DEF Finite
<1>2. \A t : IsFiniteSet(Y \union {t})
  BY FS_AddElement DEF Finite
<1> QED
  BY <1>1, <1>2 DEF Finite

\* All of some alternatives are known; a set is two sets joined.
AllKnown(n, S) == \A p \in S : KnownPart(n, p)
Joined(S, A, B) == S = A \union B

\* The arrays of a part, once merged, with those of the rest give those of all of them.
LEMMA ArraysAgree ==
  ASSUME NEW n \in Depths, n # 0 => Agree(n - 1),
         NEW P \in Finite(PartsAt(n)), NEW Q \in Finite(PartsAt(n)),
         NEW J \in Finite(PartsAt(n)), NEW R \in Finite(PartsAt(n)),
         Joined(J, P, Q), Joined(ArrayLike(R), ArrayLike(Q), MergedArrays(n, P)),
         AllKnown(n, J), AllKnown(n, MergedArrays(n, P)),
         AllKnown(n, MergedArrays(n, J)), AllKnown(n, MergedArrays(n, R))
  PROVE  MergedArrays(n, R) = MergedArrays(n, J)
<1>1. /\ ArrayLike(J) = ArrayLike(P) \union ArrayLike(Q)
      /\ ArrayLike(R) = ArrayLike(Q) \union MergedArrays(n, P)
  BY DEF ArrayLike, Joined
<1>2. IsFiniteSet(J) /\ IsFiniteSet(R) /\ P \subseteq J
  BY DEF Finite, Joined
<1>3. CASE ~Merges(P)
  <2>1. MergedArrays(n, P) = ArrayLike(P)
    BY <1>3 DEF MergedArrays
  <2>2. ArrayLike(R) = ArrayLike(J)
    BY <1>1, <2>1
  <2> QED
    BY <2>2, MergedArraysAre
<1>4. CASE Merges(P)
  <2> DEFINE b == fromTypeVec[n - 1]
             E == AllElements(P)
             F == AllElements(Q)
             m == ArrayOf(b[E])
  <2>1. n # 0 /\ n - 1 \in Depths /\ Agree(n - 1)
    BY <1>4, AllElementsIn, DepthsAre
  <2>2. E \in Finite(typesAt[n - 1]) /\ F \in Finite(typesAt[n - 1]) /\ b[E] \in typesAt[n - 1]
    BY <2>1, AllElementsIn, FromTypeVecIs
  <2>3. AllElements(J) = E \union F
    BY <1>1 DEF AllElements
  <2>4. MergedArrays(n, P) = {m}
    BY <1>4 DEF MergedArrays
  <2>5. Merges(J) /\ MergedArrays(n, J) = {ArrayOf(b[E \union F])}
    <3>1. Merges(J)
      BY <1>2, <1>4, MoreMerges
    <3> QED
      BY <2>3, <3>1 DEF MergedArrays
  <2>6. m[1] = "ArrayOf" /\ ElementsOf(m) = {b[E]} /\ ~IsTuple(m)
    BY DEF ArrayOf, ElementsOf, IsTuple
  <2>7. AllElements(R) = F \union {b[E]}
    <3>1. AllElements(R) = F \union ElementsOf(m)
      <4> HIDE DEF m
      <4> QED
        BY <1>1, <2>4 DEF AllElements
    <3> QED
      BY <2>6, <3>1
  <2>8. \A x : KnownPart(n, ArrayOf(x)) => fullyKnown[n - 1][x]
    <3>1. \A x : ArrayOf(x)[1] = "ArrayOf" /\ ElementsOf(ArrayOf(x)) = {x}
      BY DEF ArrayOf, ElementsOf
    <3> QED
      BY <3>1 DEF KnownPart
  <2>9. fullyKnown[n - 1][b[E]] /\ fullyKnown[n - 1][b[E \union F]]
    BY <2>4, <2>5, <2>8 DEF AllKnown
  <2>10. \A e \in E \union F : fullyKnown[n - 1][e]
    <3>1. \A p \in ArrayLike(J) : p \in J /\ p[1] \in {"ArrayOf", "Tuple"}
      BY DEF ArrayLike
    <3> QED
      BY <1>1, <3>1 DEF AllElements, KnownPart, AllKnown
  <2>11. CASE ArrayLike(Q) \subseteq {m}
    <3>1. ArrayLike(R) = {m}
      BY <1>1, <2>4, <2>11
    <3>2. ~Merges(R)
      <4>1. Cardinality({m}) = 1
        BY FS_Singleton
      <4> HIDE DEF m
      <4> QED
        BY <3>1, <4>1 DEF Merges
    <3>3. MergedArrays(n, R) = {m}
      BY <3>1, <3>2 DEF MergedArrays
    <3>4. b[E \union F] = b[E]
      <4>1. CASE ArrayLike(Q) = {}
        <5>1. F = {}
          BY <4>1 DEF AllElements
        <5> HIDE DEF E, F, b
        <5> QED
          BY <5>1
      <4>2. CASE ArrayLike(Q) = {m}
        <5>1. F = {b[E]}
          <6>1. F = ElementsOf(m)
            <7> HIDE DEF m
            <7> QED
              BY <4>2 DEF AllElements
          <6> QED
            BY <2>6, <6>1
        <5> HIDE DEF E, F
        <5>2. E \union E = E /\ E \union {b[E]} = E \union F
          BY <5>1
        <5>3. /\ \A t \in E \union E : fullyKnown[n - 1][t]
              /\ fullyKnown[n - 1][fromTypeVec[n - 1][E]]
              /\ fullyKnown[n - 1][fromTypeVec[n - 1][E \union E]]
              /\ fullyKnown[n - 1][fromTypeVec[n - 1][E \union {fromTypeVec[n - 1][E]}]]
          BY <2>9, <2>10, <5>2
        <5>4. fromTypeVec[n - 1][E \union {fromTypeVec[n - 1][E]}] = fromTypeVec[n - 1][E \union E]
          BY <2>1, <2>2, <5>3 DEF Agree
        <5> QED
          BY <5>2, <5>4
      <4> HIDE DEF m
      <4> QED
        BY <2>11, <4>1, <4>2
    <3> QED
      BY <2>5, <3>3, <3>4
  <2>12. CASE ~(ArrayLike(Q) \subseteq {m})
    <3>1. Merges(R)
      <4>1. m \in ArrayLike(R) /\ IsFiniteSet(ArrayLike(R))
        <5>1. ArrayLike(R) \subseteq R
          BY DEF ArrayLike
        <5> HIDE DEF m
        <5> QED
          BY <1>1, <1>2, <2>4, <5>1, FS_Subset
      <4>2. PICK x \in ArrayLike(Q) : x # m
        BY <2>12
      <4> HIDE DEF m
      <4>3. ~(Cardinality(ArrayLike(R)) <= 1)
        <5>1. Cardinality(ArrayLike(R)) <= 1 <=>
                (ArrayLike(R) = {} \/ \E y : ArrayLike(R) = {y})
          BY <4>1, FewAre
        <5>2. x \in ArrayLike(R)
          BY <1>1
        <5> QED
          BY <4>1, <4>2, <5>1, <5>2
      <4>4. ~\A type \in ArrayLike(R) : IsTuple(type)
        BY <2>6, <4>1
      <4> QED
        BY <4>3, <4>4 DEF Merges
    <3>2. MergedArrays(n, R) = {ArrayOf(b[F \union {b[E]}])}
      BY <2>7, <3>1 DEF MergedArrays
    <3>3. fullyKnown[n - 1][b[F \union {b[E]}]]
      BY <2>8, <3>2 DEF AllKnown
    <3>4. b[F \union {b[E]}] = b[E \union F]
      <4> HIDE DEF E, F
      <4>1. /\ \A t \in E \union F : fullyKnown[n - 1][t]
            /\ fullyKnown[n - 1][fromTypeVec[n - 1][E]]
            /\ fullyKnown[n - 1][fromTypeVec[n - 1][E \union F]]
            /\ fullyKnown[n - 1][fromTypeVec[n - 1][F \union {fromTypeVec[n - 1][E]}]]
        BY <2>9, <2>10, <3>3
      <4> QED
        BY <2>1, <2>2, <4>1 DEF Agree
    <3> QED
      BY <2>5, <3>2, <3>4
  <2> QED
    BY <2>11, <2>12
<1> QED
  BY <1>3, <1>4

LEMMA PartsAgree ==
  ASSUME NEW n \in Depths, n # 0 => Agree(n - 1),
         NEW P \in Finite(PartsAt(n)), NEW Q \in Finite(PartsAt(n)),
         NEW J \in Finite(PartsAt(n)), NEW R \in Finite(PartsAt(n)),
         Joined(J, P, Q), Joined(R, Q, MadeParts(n, P)), P # {}, MadeParts(n, P) # {},
         AllKnown(n, J), AllKnown(n, MadeParts(n, P)),
         AllKnown(n, MadeParts(n, J)), AllKnown(n, MadeParts(n, R))
  PROVE  MadeParts(n, R) = MadeParts(n, J)
<1> DEFINE N == MadeParts(n, P)
<1>1. /\ IsFiniteSet(P) /\ IsFiniteSet(R) /\ IsFiniteSet(J)
      /\ \A p : p \in R <=> p \in Q \/ p \in N
      /\ \A p : p \in J <=> p \in P \/ p \in Q
  BY DEF Finite, Joined
<1>2. \A p : p[1] \in {"ArrayOf", "Tuple"} =>
        /\ p \in N <=> p \in MergedArrays(n, P)
        /\ p \in MadeParts(n, R) <=> p \in MergedArrays(n, R)
        /\ p \in MadeParts(n, J) <=> p \in MergedArrays(n, J)
  BY <1>1, MadePartsAre
<1>3. MergedArrays(n, R) = MergedArrays(n, J)
  <2>1. /\ \A p \in MergedArrays(n, P) : p[1] \in {"ArrayOf", "Tuple"}
        /\ \A p \in MergedArrays(n, J) : p[1] \in {"ArrayOf", "Tuple"}
        /\ \A p \in MergedArrays(n, R) : p[1] \in {"ArrayOf", "Tuple"}
    BY MergedArraysAre
  <2> HIDE DEF N
  <2>2. Joined(ArrayLike(R), ArrayLike(Q), MergedArrays(n, P))
    <3>1. ArrayLike(N) = MergedArrays(n, P)
      BY <1>2, <2>1 DEF ArrayLike
    <3>2. ArrayLike(R) = ArrayLike(Q) \union ArrayLike(N)
      BY <1>1 DEF ArrayLike
    <3> QED
      BY <3>1, <3>2 DEF Joined
  <2>3. AllKnown(n, MergedArrays(n, P))
    BY <1>2, <2>1 DEF AllKnown, N
  <2>4. AllKnown(n, MergedArrays(n, J))
    BY <1>2, <2>1 DEF AllKnown
  <2>5. AllKnown(n, MergedArrays(n, R))
    BY <1>2, <2>1 DEF AllKnown
  <2> QED
    BY <2>2, <2>3, <2>4, <2>5, ArraysAgree
<1>4. Bot \in MadeParts(n, R) <=> Bot \in MadeParts(n, J)
  <2>1. /\ Bot \in N <=> P = {Bot}
        /\ Bot \in MadeParts(n, R) <=> R = {Bot}
        /\ Bot \in MadeParts(n, J) <=> J = {Bot}
    BY <1>1, MadePartsAre
  <2>2. ASSUME R = {Bot} PROVE J = {Bot}
    <3>1. \A p : p \in N => p = Bot
      BY <1>1, <2>2
    <3>2. P = {Bot}
      BY <2>1, <3>1
    <3>3. \A p : p \in Q => p = Bot
      BY <1>1, <2>2
    <3> QED
      BY <1>1, <3>2, <3>3
  <2>3. ASSUME J = {Bot} PROVE R = {Bot}
    <3>1. P = {Bot} /\ Bot \in N
      <4>1. \A p : p \in P => p = Bot
        BY <1>1, <2>3
      <4> QED
        BY <2>1, <4>1
    <3>2. ASSUME NEW p \in N PROVE p = Bot
      <4>1. CASE p[1] \in {"ArrayOf", "Tuple"}
        <5>1. ArrayLike(P) = {}
          BY <3>1 DEF ArrayLike, Bot
        <5>2. ~Merges(P)
          BY <5>1, FS_EmptySet DEF Merges
        <5>3. MergedArrays(n, P) = {}
          BY <5>1, <5>2 DEF MergedArrays
        <5> HIDE DEF N
        <5> QED
          BY <1>2, <3>2, <4>1, <5>3
      <4>2. CASE p[1] \notin {"ArrayOf", "Tuple"} /\ p # Bot
        <5>1. p \in P
          BY <1>1, <3>2, <4>2, MadePartsAre
        <5> QED
          BY <3>1, <4>2, <5>1
      <4> QED
        BY <4>1, <4>2
    <3>3. \A p : p \in Q => p = Bot
      BY <1>1, <2>3
    <3> HIDE DEF N
    <3> QED
      BY <1>1, <3>1, <3>2, <3>3
  <2> QED
    BY <2>1, <2>2, <2>3
<1>5. ASSUME NEW p, p[1] \notin {"ArrayOf", "Tuple"}, p # Bot
      PROVE  p \in MadeParts(n, R) <=> p \in MadeParts(n, J)
  <2> DEFINE Stand(x, S) == /\ x \in S
                            /\ x[1] = "LiteralInteger" => Integer \notin S
                            /\ x \in {True, False} => Bool \notin S
  <2>1. \A x : x[1] \notin {"ArrayOf", "Tuple"} /\ x # Bot =>
          /\ x \in N <=> Stand(x, P)
          /\ x \in MadeParts(n, R) <=> Stand(x, R)
          /\ x \in MadeParts(n, J) <=> Stand(x, J)
    <3>1. \A x : x[1] \notin {"ArrayOf", "Tuple"} /\ x # Bot => (x \in N <=> Stand(x, P))
      BY <1>1, MadePartsAre
    <3>2. \A x : x[1] \notin {"ArrayOf", "Tuple"} /\ x # Bot =>
            (x \in MadeParts(n, R) <=> Stand(x, R))
      BY <1>1, MadePartsAre
    <3>3. \A x : x[1] \notin {"ArrayOf", "Tuple"} /\ x # Bot =>
            (x \in MadeParts(n, J) <=> Stand(x, J))
      BY <1>1, MadePartsAre
    <3> HIDE DEF Stand, N
    <3> QED
      BY <3>1, <3>2, <3>3
  <2>2. /\ Integer[1] \notin {"ArrayOf", "Tuple"} /\ Integer # Bot /\ Integer \notin {True, False}
        /\ Integer[1] # "LiteralInteger"
        /\ Bool[1] \notin {"ArrayOf", "Tuple"} /\ Bool # Bot /\ Bool \notin {True, False}
        /\ Bool[1] # "LiteralInteger"
    <3>1. /\ Integer[1] = "Integer" /\ Bool[1] = "Bool" /\ Bot[1] = "Bot"
          /\ True[1] = "True" /\ False[1] = "False"
      BY DEF Integer, Bool, Bot, True, False
    <3> QED
      BY <3>1
  <2>3. (Integer \in N <=> Integer \in P) /\ (Bool \in N <=> Bool \in P)
    <3>1. (Integer \in N <=> Stand(Integer, P)) /\ (Bool \in N <=> Stand(Bool, P))
      <4> HIDE DEF Stand, N
      <4> QED
        BY <2>1, <2>2
    <3> HIDE DEF N
    <3> QED
      BY <2>2, <3>1
  <2>4. Stand(p, R) <=> Stand(p, J)
    <3>1. p \in N <=> Stand(p, P)
      <4> HIDE DEF Stand, N
      <4> QED
        BY <1>5, <2>1
    <3>2. \A x : x \in R <=> x \in Q \/ x \in N
      BY <1>1
    <3>3. (Integer \in R <=> Integer \in J) /\ (Bool \in R <=> Bool \in J)
      <4> HIDE DEF N
      <4> QED
        BY <1>1, <2>3, <3>2
    <3>4. ASSUME Stand(p, R) PROVE Stand(p, J)
      <4>1. p \in J
        <5> HIDE DEF N
        <5> QED
          BY <1>1, <3>1, <3>2, <3>4
      <4> QED
        BY <3>3, <3>4, <4>1
    <3>5. ASSUME Stand(p, J) PROVE Stand(p, R)
      <4>1. p \in R
        <5> HIDE DEF N
        <5> QED
          BY <1>1, <3>1, <3>2, <3>5
      <4> QED
        BY <3>3, <3>5, <4>1
    <3> QED
      BY <3>4, <3>5
  <2> HIDE DEF Stand
  <2> QED
    BY <1>5, <2>1, <2>4
<1>6. \A p : p \in MadeParts(n, R) <=> p \in MadeParts(n, J)
  <2> TAKE p
  <2> HIDE DEF N
  <2>1. CASE p[1] \in {"ArrayOf", "Tuple"}
    BY <1>2, <1>3, <2>1
  <2>2. CASE p = Bot
    BY <1>4, <2>2
  <2>3. CASE p[1] \notin {"ArrayOf", "Tuple"} /\ p # Bot
    BY <1>5, <2>3
  <2> QED
    BY <2>1, <2>2, <2>3
<1> QED
  BY <1>6

LEMMA AgreeAtDepths ==
  \A n \in Depths : Agree(n)
<1> DEFINE S == {n \in Depths : Agree(n)}
<1>1. ASSUME NEW n \in Depths, n = 0 \/ n - 1 \in S PROVE n \in S
  <2> DEFINE f == fromTypeVec[n]
             Made(Z) == FromParts(Z, fromTypeVec[n - 1])
  <2>1. SUFFICES ASSUME NEW X \in Finite(typesAt[n]), NEW Y \in Finite(typesAt[n]),
                        \A t \in X \union Y : fullyKnown[n][t],
                        fullyKnown[n][f[X]], fullyKnown[n][f[X \union Y]],
                        fullyKnown[n][f[Y \union {f[X]}]]
                 PROVE  f[Y \union {f[X]}] = f[X \union Y]
    BY DEF Agree
  <2> DEFINE P == Flattened(X)
             Q == Flattened(Y)
             R == Flattened(Y \union {f[X]})
  <2>2. f[X] \in typesAt[n] /\ f[X] = Made(P)
    BY FromTypeVecIs
  <2>3. X \union Y \in Finite(typesAt[n]) /\ Y \union {f[X]} \in Finite(typesAt[n])
    <3> HIDE DEF f
    <3> QED
      BY <2>2, JoinIn
  <2>4. P \in Finite(PartsAt(n)) /\ Q \in Finite(PartsAt(n)) /\ R \in Finite(PartsAt(n))
    <3> HIDE DEF f
    <3> QED
      BY <2>3, FlattenedIn
  <2>5. Flattened(X \union Y) = P \union Q
    BY DEF Flattened
  <2>6. R = Q \union UnionParts(f[X])
    <3> HIDE DEF f
    <3> QED
      BY DEF Flattened
  <2>7. f[X \union Y] = Made(P \union Q) /\ f[Y \union {f[X]}] = Made(R)
    <3>1. f[X \union Y] = Made(Flattened(X \union Y))
      BY <2>3, FromTypeVecIs
    <3>2. f[Y \union {f[X]}] = Made(R)
      BY <2>3, FromTypeVecIs
    <3> QED
      BY <2>5, <3>1, <3>2
  <2>8. \A p \in P \union Q : KnownPart(n, p)
    <3> SUFFICES ASSUME NEW t \in X \union Y, NEW p \in UnionParts(t) PROVE KnownPart(n, p)
      BY DEF Flattened
    <3>1. t \in typesAt[n]
      BY DEF Finite
    <3> QED
      BY <2>1, <3>1, FullyKnownIs
  <2> HIDE DEF f, P, Q, R
  <2>9. P \union Q \in Finite(PartsAt(n)) /\ Untyped \notin P \union Q
    BY <2>4, <2>8, JoinIn DEF KnownPart
  <2>10. /\ UnionParts(f[X]) = MadeParts(n, P) /\ MadeParts(n, P) # {} /\ P # {}
         /\ \A p \in MadeParts(n, P) : KnownPart(n, p)
    BY <2>1, <2>2, <2>4, <2>9, KnownMade
  <2>11. /\ Made(P \union Q) = AsType(MadeParts(n, P \union Q))
         /\ \A p \in MadeParts(n, P \union Q) : KnownPart(n, p)
    <3>1. fullyKnown[n][Made(P \union Q)]
      BY <2>1, <2>7
    <3> QED
      BY <2>9, <3>1, KnownMade
  <2>12. \A p : p \in R <=> p \in Q \/ p \in MadeParts(n, P)
    BY <2>6, <2>10
  <2>13. /\ Made(R) = AsType(MadeParts(n, R))
         /\ \A p \in MadeParts(n, R) : KnownPart(n, p)
    <3>1. fullyKnown[n][Made(R)]
      BY <2>1, <2>7
    <3>2. Untyped \notin R
      BY <2>9, <2>10, <2>12 DEF KnownPart
    <3> QED
      BY <2>4, <3>1, <3>2, KnownMade
  <2>14. n # 0 => Agree(n - 1)
    BY <1>1
  <2>15. MadeParts(n, R) = MadeParts(n, P \union Q)
    <3> DEFINE J == P \union Q
    <3>1. Joined(J, P, Q) /\ Joined(R, Q, MadeParts(n, P))
      BY <2>12 DEF Joined
    <3>2. AllKnown(n, J) /\ AllKnown(n, MadeParts(n, P))
      BY <2>8, <2>10 DEF AllKnown
    <3>3. AllKnown(n, MadeParts(n, J)) /\ AllKnown(n, MadeParts(n, R))
      BY <2>11, <2>13 DEF AllKnown
    <3>4. J \in Finite(PartsAt(n))
      BY <2>9
    <3> HIDE DEF S, J
    <3>5. MadeParts(n, R) = MadeParts(n, J)
      BY <2>4, <2>10, <2>14, <3>1, <3>2, <3>3, <3>4, PartsAgree
    <3> QED
      BY <3>5 DEF J
  <2> QED
    BY <2>7, <2>11, <2>13, <2>15
<1>2. Depths \subseteq S
  <2> HIDE DEF S
  <2> QED
    BY <1>1, ByDepth, DepthsAre
<1> QED
  BY <1>2

LEMMA AgreeWhateverMeets ==
  ASSUME meeting \in Finite(Types)
  PROVE  UnionsAgree
<1> SUFFICES ASSUME \A type \in meeting : FullyKnown(type),
                    NEW group \in SUBSET meeting,
                    FullyKnown(FromTypeVec(meeting)), FullyKnown(FromTypeVec(group)),
                    FullyKnown(FromTypeVec((meeting \ group) \union {FromTypeVec(group)}))
             PROVE  FromTypeVec((meeting \ group) \union {FromTypeVec(group)}) = FromTypeVec(meeting)
  BY DEF UnionsAgree
<1> DEFINE n == MaxDepth
           rest == meeting \ group
<1>1. n \in Depths /\ Agree(n)
  BY DepthsAre, AgreeAtDepths
<1>2. group \in Finite(typesAt[n]) /\ rest \in Finite(typesAt[n])
  BY FS_Subset DEF Finite, Types
<1>3. group \union rest = meeting
  OBVIOUS
<1> HIDE DEF rest
<1>4. /\ \A t \in group \union rest : fullyKnown[n][t]
      /\ fullyKnown[n][fromTypeVec[n][group]]
      /\ fullyKnown[n][fromTypeVec[n][group \union rest]]
      /\ fullyKnown[n][fromTypeVec[n][rest \union {fromTypeVec[n][group]}]]
  BY <1>3 DEF FullyKnown, FromTypeVec, rest
<1>5. fromTypeVec[n][rest \union {fromTypeVec[n][group]}] = fromTypeVec[n][group \union rest]
  BY <1>1, <1>2, <1>4 DEF Agree
<1> QED
  BY <1>3, <1>5 DEF FromTypeVec, rest

-----------------------------------------------------------------------------
\* The types that met are a finite set of types.
UnionInv == meeting \in Finite(Types)

LEMMA UnionInvHolds == UnionSpec => []UnionInv
<1>1. UnionInit => UnionInv
  BY FS_EmptySet DEF UnionInit, UnionInv, Finite
<1>2. UnionInv /\ [MeetNext]_meeting => UnionInv'
  <2> SUFFICES ASSUME UnionInv, [MeetNext]_meeting PROVE UnionInv'
    OBVIOUS
  <2>1. CASE MeetNext
    <3>1. PICK type \in TypesThatMeet : meeting' = meeting \union {type}
      BY <2>1 DEF MeetNext
    <3>2. type \in Types
      BY UnionConstants
    <3>3. meeting \union {type} \in Finite(Types)
      BY <3>2, JoinIn DEF UnionInv
    <3> QED
      BY <3>1, <3>3 DEF UnionInv
  <2>2. CASE UNCHANGED meeting
    BY <2>2 DEF UnionInv
  <2> QED
    BY <2>1, <2>2
<1> QED
  BY <1>1, <1>2, PTL DEF UnionSpec

\* Whichever types meet, of any depth and any number, no value that one of them is known to
\* have is lost by the ways they are made one.
THEOREM MeetingCovers == UnionSpec => []UnionCovers
<1>1. UnionInv => UnionCovers
  BY CoversWhateverMeets DEF UnionInv
<1> QED
  BY <1>1, UnionInvHolds, PTL

\* Merged in two steps, they are the type they are at once, when it is known throughout.
THEOREM MeetingAgrees == UnionSpec => []UnionsAgree
<1>1. UnionInv => UnionsAgree
  BY AgreeWhateverMeets DEF UnionInv
<1> QED
  BY <1>1, UnionInvHolds, PTL

-----------------------------------------------------------------------------
(* Symbols. *)

\* Every symbol is an entry of the shard of its text.
Kept == \A e \in symbols : e \in shards[ShardFor(e.text)]

\* A shard has one entry for a text at most.
OnePerText == \A h \in Shards : \A a, b \in shards[h] : a.text = b.text => a = b

SymbolsInv == SymTypeOK /\ Kept /\ OnePerText

-----------------------------------------------------------------------------
LEMMA SymbolsInitHolds == SymInit => SymbolsInv
BY DEF SymInit, SymbolsInv, SymTypeOK, Kept, OnePerText, Entry

\* An entry that the shard has already may be handed out.
LEMMA HandOut ==
  ASSUME SymbolsInv, NEW s \in Strings, NEW existing \in Found(s),
         symbols' = symbols \union {existing}, UNCHANGED <<shards, leaked>>,
         missed' \in [Interners -> Strings \union {NoString}]
  PROVE  SymbolsInv'
<1> USE InternerConstants DEF SymbolsInv
<1>1. existing \in shards[ShardFor(s)] /\ existing.text = s
  BY DEF Found
<1>2. existing \in Entry
  BY <1>1 DEF SymTypeOK
<1>3. SymTypeOK'
  BY <1>2 DEF SymTypeOK
<1>4. Kept' /\ OnePerText'
  BY <1>1 DEF Kept, OnePerText
<1> QED
  BY <1>3, <1>4

\* A new entry may be added to the shard of its text while that has none of this text.
LEMMA AddFresh ==
  ASSUME SymbolsInv, NEW s \in Strings, Found(s) = {},
         NEW fresh \in Entry, fresh.text = s,
         shards' = [shards EXCEPT ![ShardFor(s)] = @ \union {fresh}],
         leaked' = leaked + 1,
         symbols' = symbols \union {fresh},
         missed' \in [Interners -> Strings \union {NoString}]
  PROVE  SymbolsInv'
<1> USE InternerConstants DEF SymbolsInv
<1>1. \A h \in Shards :
        shards'[h] = IF h = ShardFor(s) THEN shards[h] \union {fresh} ELSE shards[h]
  BY DEF SymTypeOK
<1>2. \A e \in shards[ShardFor(s)] : e.text # s
  BY DEF Found
<1>3. SymTypeOK'
  BY DEF SymTypeOK
<1>4. Kept'
  <2> SUFFICES ASSUME NEW e \in symbols' PROVE e \in shards'[ShardFor(e.text)]
    BY DEF Kept
  <2>1. CASE e = fresh
    BY <2>1, <1>1
  <2>2. CASE e \in symbols
    <3>1. e.text \in Strings
      BY <2>2 DEF SymTypeOK, Entry
    <3> QED
      BY <2>2, <3>1, <1>1 DEF Kept
  <2> QED
    BY <2>1, <2>2
<1>5. OnePerText'
  BY <1>1, <1>2 DEF OnePerText
<1> QED
  BY <1>3, <1>4, <1>5

LEMMA SymbolsStepHold == SymbolsInv /\ [SymNext]_symVars => SymbolsInv'
<1> SUFFICES ASSUME SymbolsInv, [SymNext]_symVars PROVE SymbolsInv'
  OBVIOUS
<1> USE InternerConstants
<1>1. CASE UNCHANGED symVars
  BY <1>1 DEF symVars, SymbolsInv, SymTypeOK, Kept, OnePerText
<1>2. ASSUME NEW t \in Interners, NEW s \in Strings, InternFound(t, s) PROVE SymbolsInv'
  <2>1. PICK existing \in Found(s) : symbols' = symbols \union {existing}
    BY <1>2 DEF InternFound
  <2> QED
    BY <1>2, <2>1, HandOut DEF InternFound, SymbolsInv, SymTypeOK
<1>3. ASSUME NEW t \in Interners, NEW s \in Strings, InternMissed(t, s) PROVE SymbolsInv'
  BY <1>3 DEF InternMissed, SymbolsInv, SymTypeOK, Kept, OnePerText
<1>4. ASSUME NEW t \in Interners, InternAdd(t) PROVE SymbolsInv'
  <2>1. missed[t] \in Strings
    BY <1>4 DEF InternAdd, SymbolsInv, SymTypeOK
  <2>2. missed' \in [Interners -> Strings \union {NoString}]
    BY <1>4 DEF InternAdd, SymbolsInv, SymTypeOK
  <2>3. CASE /\ \E existing \in Found(missed[t]) : symbols' = symbols \union {existing}
             /\ UNCHANGED <<shards, leaked>>
    BY <2>1, <2>2, <2>3, HandOut
  <2>4. CASE LET fresh == [text |-> missed[t], address |-> leaked] IN
               /\ Found(missed[t]) = {}
               /\ shards' = [shards EXCEPT ![ShardFor(missed[t])] = @ \union {fresh}]
               /\ leaked' = leaked + 1
               /\ symbols' = symbols \union {fresh}
    <3> DEFINE fresh == [text |-> missed[t], address |-> leaked]
    <3>1. fresh \in Entry /\ fresh.text = missed[t]
      BY <2>1 DEF Entry, SymbolsInv, SymTypeOK
    <3> HIDE DEF fresh
    <3> QED
      BY <2>1, <2>2, <2>4, <3>1, AddFresh DEF fresh
  <2> QED
    BY <1>4, <2>3, <2>4 DEF InternAdd
<1> QED
  BY <1>1, <1>2, <1>3, <1>4 DEF SymNext

\* Two symbols of one text are one reference, for any strings, shards and threads.
THEOREM SymbolsAreIdentities == SymSpec => []SymbolsIdentify
<1>1. SymbolsInv => SymbolsIdentify
  BY InternerConstants DEF SymbolsInv, SymTypeOK, Kept, OnePerText, SymbolsIdentify, Entry
<1> QED
  BY <1>1, SymbolsInitHolds, SymbolsStepHold, PTL DEF SymSpec
===============================================================================
