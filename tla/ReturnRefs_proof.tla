--------------------------- MODULE ReturnRefs_proof ------------------------------
(***************************************************************************)
(* The proof that the rounds of ReturnRefs replace nothing by anything      *)
(* else than what it stands for (ReturnsReplaced, a part of                 *)
(* ReturnsResolved; that everything sure is found in the end is left to     *)
(* TLC).                                                                    *)
(*                                                                         *)
(* The functions of the model are made by stages: alternatives and what     *)
(* they stand for by the nesting of receivers, the meanings of the methods  *)
(* by steps from nothing known on, an evaluation by the depth that is left, *)
(* types one after the other by their place.  That such a function is what  *)
(* its stages say is proved of each once (..Exist, ..Are); what holds of    *)
(* it is proved from each stage to the next.                                *)
(*                                                                         *)
(* What an evaluation makes of a type becomes of it (Becomes): it is the    *)
(* type itself, or untyped where that can be, or some of its references     *)
(* have given way to exactly what they stand for, and what was untyped      *)
(* with them.  This holds at every depth, whatever is visited and whatever  *)
(* the memo has (AllGood), and what becomes of what became of a type        *)
(* becomes of it (BecomesMore): so it holds from round to round.            *)
(***************************************************************************)
EXTENDS ReturnRefs, FiniteSetTheorems, SequenceTheorems, WellFoundedInduction, TLAPS

-----------------------------------------------------------------------------
\* Counting up: a set with zero that has with each number the next one has all of them.
LEMMA FromZeroUp ==
  ASSUME NEW S, 0 \in S, \A n \in Nat : n \in S => n + 1 \in S
  PROVE  Nat \subseteq S
<1> DEFINE T == Nat \ S
<1> SUFFICES ASSUME T # {} PROVE FALSE
  OBVIOUS
<1>1. PICK x \in T : \A y \in T : ~(<<y, x>> \in OpToRel(<, Nat))
  BY NatLessThanWellFounded, WFMin, T \subseteq Nat
<1>2. x \in Nat /\ x # 0
  OBVIOUS
<1>3. x - 1 \in Nat /\ x - 1 < x /\ x - 1 + 1 = x
  BY <1>2
<1>4. <<x - 1, x>> \in OpToRel(<, Nat)
  BY <1>2, <1>3 DEF OpToRel
<1>5. x - 1 \in S
  BY <1>1, <1>3, <1>4
<1> QED
  BY <1>3, <1>5

\* The numbers up to a bound, one after the other.
LEMMA UpToBound ==
  ASSUME NEW M \in Nat, NEW S, 0 \in S, \A k \in 1 .. M : k - 1 \in S => k \in S
  PROVE  0 .. M \subseteq S
<1> DEFINE T == {n \in Nat : n \in 0 .. M => n \in S}
<1>1. 0 \in T
  OBVIOUS
<1>2. ASSUME NEW n \in Nat, n \in T PROVE n + 1 \in T
  <2> SUFFICES ASSUME n + 1 \in 0 .. M PROVE n + 1 \in S
    OBVIOUS
  <2>1. n + 1 \in 1 .. M /\ n \in 0 .. M /\ (n + 1) - 1 = n
    OBVIOUS
  <2> QED
    BY <1>2, <2>1
<1>3. Nat \subseteq T
  <2> HIDE DEF T
  <2> QED
    BY <1>1, <1>2, FromZeroUp
<1> QED
  BY <1>3

\* What a function makes of a finite set is finite.
LEMMA FiniteRange ==
  ASSUME NEW S, IsFiniteSet(S), NEW T, NEW f \in [S -> T]
  PROVE  IsFiniteSet({f[x] : x \in S})
<1> DEFINE R == {f[x] : x \in S}
<1>1. f \in Surjection(S, R)
  BY DEF Surjection
<1> QED
  BY <1>1, FS_Surjection

-----------------------------------------------------------------------------
(* References to return types. *)

\* The alternatives of a nesting, where those below it are given.
AlternativesOver(n, below) ==
  Classes \union {UntypedReturn} \union Refs
    \union (IF n = 0 THEN {} ELSE {"call"} \X ((SUBSET below) \ {{}}) \X Methods)
AlternativesUpTo(n, f) == f = [k \in 0 .. n |-> AlternativesOver(k, f[k - 1])]

\* The alternatives up to a nesting exist, ...
LEMMA AlternativesExist ==
  \A n \in Nat : \E f : AlternativesUpTo(n, f)
<1> DEFINE S == {n \in Nat : \E f : AlternativesUpTo(n, f)}
<1>1. 0 \in S
  <2> DEFINE f == [k \in 0 .. 0 |-> AlternativesOver(0, {})]
  <2>1. \A k \in 0 .. 0 : AlternativesOver(k, f[k - 1]) = AlternativesOver(0, {})
    <3> SUFFICES ASSUME NEW k \in 0 .. 0
                 PROVE  AlternativesOver(k, f[k - 1]) = AlternativesOver(0, {})
      OBVIOUS
    <3>1. k = 0
      OBVIOUS
    <3> HIDE DEF f
    <3> QED
      BY <3>1 DEF AlternativesOver
  <2>2. AlternativesUpTo(0, f)
    BY <2>1 DEF AlternativesUpTo
  <2> QED
    BY <2>2
<1>2. ASSUME NEW n \in Nat, n \in S PROVE n + 1 \in S
  <2>1. PICK f : AlternativesUpTo(n, f)
    BY <1>2
  <2> DEFINE g == [k \in 0 .. n + 1 |-> IF k <= n THEN f[k] ELSE AlternativesOver(k, f[n])]
  <2>2. ASSUME NEW k \in 0 .. n + 1 PROVE g[k] = AlternativesOver(k, g[k - 1])
    <3>1. CASE k = 0
      <4>1. g[0] = f[0] /\ f[0] = AlternativesOver(0, f[0 - 1])
        BY <2>1 DEF AlternativesUpTo
      <4> HIDE DEF g
      <4> QED
        BY <3>1, <4>1 DEF AlternativesOver
    <3>2. CASE k \in 1 .. n
      <4>1. g[k] = f[k] /\ g[k - 1] = f[k - 1] /\ f[k] = AlternativesOver(k, f[k - 1])
        BY <2>1, <3>2 DEF AlternativesUpTo
      <4> QED
        BY <4>1
    <3>3. CASE k = n + 1
      <4>1. g[k] = AlternativesOver(k, f[n]) /\ g[k - 1] = f[n]
        BY <3>3
      <4> QED
        BY <4>1
    <3> QED
      BY <3>1, <3>2, <3>3
  <2>3. AlternativesUpTo(n + 1, g)
    BY <2>2 DEF AlternativesUpTo
  <2> QED
    BY <2>3
<1>3. Nat \subseteq S
  <2> HIDE DEF S
  <2> QED
    BY <1>1, <1>2, FromZeroUp
<1> QED
  BY <1>3

\* ... so alternativesAt is what its definition says.
LEMMA AlternativesAre ==
  /\ DOMAIN alternativesAt = Nestings
  /\ \A n \in Nestings : alternativesAt[n] = AlternativesOver(n, alternativesAt[n - 1])
<1>1. MaxNesting \in Nat
  BY ReturnConstants
<1>2. alternativesAt = CHOOSE f : AlternativesUpTo(MaxNesting, f)
  BY DEF alternativesAt, AlternativesUpTo, AlternativesOver, Nestings
<1>3. AlternativesUpTo(MaxNesting, alternativesAt)
  BY <1>1, <1>2, AlternativesExist
<1> QED
  BY <1>3 DEF AlternativesUpTo, Nestings

\* A nesting is the first, or the next of one.
LEMMA NestingsAre ==
  /\ MaxNesting \in Nestings /\ 0 \in Nestings /\ Nestings \subseteq Nat
  /\ \A n \in Nestings : n = 0 \/ (n \in 1 .. MaxNesting /\ n - 1 \in Nestings)
BY ReturnConstants DEF Nestings

\* From each nesting to the next one.
LEMMA ByNesting ==
  ASSUME NEW S, 0 \in S, \A n \in Nestings : n # 0 /\ n - 1 \in S => n \in S
  PROVE  Nestings \subseteq S
<1>1. MaxNesting \in Nat
  BY ReturnConstants
<1>2. \A k \in 1 .. MaxNesting : k - 1 \in S => k \in S
  BY <1>1 DEF Nestings
<1> QED
  BY <1>1, <1>2, UpToBound DEF Nestings

SlotOf(ref) == <<ref[2], ref[3]>>

\* An alternative is a class, untyped, a reference, or has a receiver that is nested less.
LEMMA AlternativeCases ==
  ASSUME NEW n \in Nestings, NEW a \in alternativesAt[n]
  PROVE  \/ a \in Classes /\ a[1] = "class"
         \/ a = UntypedReturn /\ a[1] = "untyped"
         \/ a \in Refs /\ a[1] = "ref" /\ SlotOf(a) \in Slots
         \/ /\ n # 0 /\ a[1] = "call" /\ a = ReceiverMethodRef(a[2], a[3])
            /\ a[2] \in ReturnsAt(n - 1) /\ a[3] \in Methods
<1>1. a \in AlternativesOver(n, alternativesAt[n - 1])
  BY AlternativesAre
<1>2. CASE a \in Classes
  BY <1>2 DEF Classes
<1>3. CASE a = UntypedReturn
  BY <1>3 DEF UntypedReturn
<1>4. CASE a \in Refs
  BY <1>4 DEF Refs, SlotOf, Slots
<1>5. CASE n # 0 /\ a \in {"call"} \X ((SUBSET alternativesAt[n - 1]) \ {{}}) \X Methods
  BY <1>5 DEF ReceiverMethodRef, ReturnsAt
<1> QED
  BY <1>1, <1>2, <1>3, <1>4, <1>5 DEF AlternativesOver

\* What is in the alternatives of a nesting.
LEMMA AlternativesBuilt ==
  ASSUME NEW n \in Nestings
  PROVE  /\ Classes \subseteq alternativesAt[n] /\ Refs \subseteq alternativesAt[n]
         /\ n # 0 => \A ty \in ReturnsAt(n - 1), m \in Methods :
                       ReceiverMethodRef(ty, m) \in alternativesAt[n]
<1>1. alternativesAt[n] = AlternativesOver(n, alternativesAt[n - 1])
  BY AlternativesAre
<1> QED
  BY <1>1 DEF AlternativesOver, ReceiverMethodRef, ReturnsAt

\* A class with a name is a slot.
LEMMA ClassesAre ==
  /\ \A c \in Classes : c[1] = "class" /\ c[2] \in Owners
  /\ \A c \in Classes, m \in Methods : <<c[2], m>> \in Slots
BY DEF Classes, Slots

\* What is nested less is an alternative of the nesting.
LEMMA AlternativesGrow ==
  ASSUME NEW n \in Nestings, n # 0
  PROVE  alternativesAt[n - 1] \subseteq alternativesAt[n]
<1> DEFINE S == {k \in Nestings : k # 0 => alternativesAt[k - 1] \subseteq alternativesAt[k]}
<1>1. 0 \in S
  BY NestingsAre
<1>2. ASSUME NEW k \in Nestings, k # 0, k - 1 \in S PROVE k \in S
  <2>1. k - 1 \in Nestings /\ k \in Nat
    BY <1>2, NestingsAre
  <2>2. SUFFICES ASSUME NEW a \in alternativesAt[k - 1] PROVE a \in alternativesAt[k]
    BY <1>2
  <2>3. CASE a \in Classes \/ a = UntypedReturn \/ a \in Refs
    BY <2>3, AlternativesAre DEF AlternativesOver
  <2>4. CASE /\ k - 1 # 0 /\ a = ReceiverMethodRef(a[2], a[3])
             /\ a[2] \in ReturnsAt((k - 1) - 1) /\ a[3] \in Methods
    <3>1. a[2] \in ReturnsAt(k - 1)
      BY <1>2, <2>4 DEF ReturnsAt
    <3> QED
      BY <3>1, <2>4, <1>2, AlternativesBuilt
  <2> QED
    BY <2>1, <2>3, <2>4, AlternativeCases
<1>3. Nestings \subseteq S
  <2> HIDE DEF S
  <2> QED
    BY <1>1, <1>2, ByNesting
<1> QED
  BY <1>3

\* Types of any nesting are types.
LEMMA ReturnsGrow ==
  ASSUME NEW n \in Nestings
  PROVE  ReturnsAt(n) \subseteq ReturnTypes
<1> DEFINE S == {k \in 0 .. MaxNesting :
                   \A j \in Nestings : j + k = MaxNesting => alternativesAt[j] \subseteq alternativesAt[MaxNesting]}
<1>1. MaxNesting \in Nat /\ Nestings = 0 .. MaxNesting
  BY ReturnConstants DEF Nestings
<1>2. 0 \in S
  BY <1>1
<1>3. ASSUME NEW k \in 1 .. MaxNesting, k - 1 \in S PROVE k \in S
  <2> SUFFICES ASSUME NEW j \in Nestings, j + k = MaxNesting
               PROVE  alternativesAt[j] \subseteq alternativesAt[MaxNesting]
    BY <1>1
  <2>1. j + 1 \in Nestings /\ j + 1 # 0 /\ (j + 1) - 1 = j /\ (j + 1) + (k - 1) = MaxNesting
    BY <1>1
  <2>2. alternativesAt[j + 1] \subseteq alternativesAt[MaxNesting]
    BY <1>3, <2>1
  <2> QED
    BY <2>1, <2>2, AlternativesGrow
<1>4. 0 .. MaxNesting \subseteq S
  <2> HIDE DEF S
  <2> QED
    BY <1>1, <1>2, <1>3, UpToBound
<1>5. MaxNesting - n \in S /\ n + (MaxNesting - n) = MaxNesting
  BY <1>1, <1>4
<1> QED
  BY <1>5 DEF ReturnsAt, ReturnTypes

\* There are finitely many of them.
LEMMA SlotsFinite ==
  /\ IsFiniteSet(Slots) /\ IsFiniteSet(Classes) /\ IsFiniteSet(Refs)
  /\ Cardinality(Slots) \in Nat
<1>1. IsFiniteSet(Slots)
  BY ReturnConstants, FS_Product DEF Slots
<1>2. IsFiniteSet(Classes)
  BY ReturnConstants, FS_Product, FS_Singleton DEF Classes
<1>3. IsFiniteSet(Refs)
  <2> DEFINE f == [s \in Slots |-> <<"ref", s[1], s[2]>>]
  <2>1. \A r \in Refs : <<r[2], r[3]>> \in Slots /\ r = f[<<r[2], r[3]>>]
    BY DEF Slots, Refs
  <2>2. f \in [Slots -> Refs]
    BY DEF Slots, Refs
  <2> HIDE DEF f
  <2>3. IsFiniteSet({f[s] : s \in Slots})
    BY <1>1, <2>2, FiniteRange
  <2>4. {f[s] : s \in Slots} = Refs
    BY <2>1, <2>2
  <2> QED
    BY <2>3, <2>4
<1> QED
  BY <1>1, <1>2, <1>3, FS_CardinalityType

\* There are finitely many alternatives, ...
LEMMA AlternativesFinite ==
  \A n \in Nestings : IsFiniteSet(alternativesAt[n])
<1> DEFINE S == {k \in Nestings : IsFiniteSet(alternativesAt[k])}
<1>0. IsFiniteSet(Classes \union {UntypedReturn} \union Refs)
  BY SlotsFinite, FS_Union, FS_Singleton
<1>1. 0 \in S
  BY <1>0, AlternativesAre, NestingsAre DEF AlternativesOver
<1>2. ASSUME NEW k \in Nestings, k # 0, k - 1 \in S PROVE k \in S
  <2> DEFINE R == (SUBSET alternativesAt[k - 1]) \ {{}}
             f == [p \in R \X Methods |-> <<"call", p[1], p[2]>>]
             C == {"call"} \X R \X Methods
  <2>1. IsFiniteSet(R \X Methods)
    <3>0. IsFiniteSet(alternativesAt[k - 1])
      BY <1>2
    <3>1. IsFiniteSet(SUBSET alternativesAt[k - 1])
      BY <3>0, FS_SUBSET
    <3>2. IsFiniteSet(R)
      BY <3>1, FS_Difference
    <3> QED
      BY <3>2, ReturnConstants, FS_Product
  <2>2. \A x \in C : <<x[2], x[3]>> \in R \X Methods /\ x = f[<<x[2], x[3]>>]
    <3> HIDE DEF R
    <3> QED
      OBVIOUS
  <2>3. f \in [R \X Methods -> C]
    <3> HIDE DEF R
    <3> QED
      OBVIOUS
  <2>4. IsFiniteSet(C)
    <3> HIDE DEF f, R, C
    <3>1. IsFiniteSet({f[p] : p \in R \X Methods})
      BY <2>1, <2>3, FiniteRange
    <3>2. {f[p] : p \in R \X Methods} = C
      BY <2>2, <2>3
    <3> QED
      BY <3>1, <3>2
  <2>5. alternativesAt[k] = (Classes \union {UntypedReturn} \union Refs) \union C
    BY <1>2, AlternativesAre DEF AlternativesOver
  <2> HIDE DEF C
  <2> QED
    BY <1>0, <2>4, <2>5, FS_Union
<1>3. Nestings \subseteq S
  <2> HIDE DEF S
  <2> QED
    BY <1>1, <1>2, ByNesting
<1> QED
  BY <1>3

\* ... so a type has a number of them.
LEMMA ReturnsFinite ==
  ASSUME NEW ty \in ReturnTypes
  PROVE  IsFiniteSet(ty) /\ Cardinality(ty) \in Nat
BY NestingsAre, AlternativesFinite, FS_Subset, FS_CardinalityType DEF ReturnTypes, ReturnsAt

\* A type has its alternatives in a list, each once.
LEMMA ListedIs ==
  ASSUME NEW ty \in ReturnTypes
  PROVE  /\ Listed(ty) \in Seq(ty) /\ Len(Listed(ty)) = Cardinality(ty)
         /\ DOMAIN Listed(ty) = 1 .. Cardinality(ty)
         /\ ty = {Listed(ty)[i] : i \in 1 .. Cardinality(ty)}
         /\ \A i, j \in 1 .. Cardinality(ty) : Listed(ty)[i] = Listed(ty)[j] => i = j
<1> DEFINE n == Cardinality(ty)
           C == {a \in ty : a[1] = "call"}
           D == ty \ C
           c == Cardinality(C)
           d == Cardinality(D)
<1>1. IsFiniteSet(ty) /\ n \in Nat
  BY ReturnsFinite
<1>2. IsFiniteSet(C) /\ IsFiniteSet(D) /\ c \in Nat /\ d \in Nat
  BY <1>1, FS_Subset, FS_CardinalityType
<1>3. n = d + c
  <2>1. ty = D \union C /\ D \intersect C = {}
    OBVIOUS
  <2> HIDE DEF C, D
  <2>2. Cardinality(D \union C) = d + c - Cardinality(D \intersect C)
    BY <1>2, FS_Union
  <2>3. Cardinality(D \intersect C) = 0
    BY <2>1, FS_EmptySet
  <2> QED
    BY <1>2, <2>1, <2>2, <2>3
<1>4. PICK f : f \in Bijection(1 .. d, D)
  BY <1>2, FS_CardinalityType DEF ExistsBijection
<1>5. PICK g : g \in Bijection(1 .. c, C)
  BY <1>2, FS_CardinalityType DEF ExistsBijection
<1>6. /\ f \in [1 .. d -> D] /\ g \in [1 .. c -> C]
      /\ \A x \in D : \E i \in 1 .. d : f[i] = x
      /\ \A x \in C : \E i \in 1 .. c : g[i] = x
  BY <1>4, <1>5 DEF Bijection, Injection, Surjection
<1> DEFINE list == [i \in 1 .. n |-> IF i <= d THEN f[i] ELSE g[i - d]]
<1>7. ASSUME NEW i \in 1 .. n
      PROVE  /\ i <= d => i \in 1 .. d /\ list[i] = f[i] /\ list[i] \in D
             /\ ~(i <= d) => i - d \in 1 .. c /\ list[i] = g[i - d] /\ list[i] \in C
  <2> HIDE DEF n, c, d, C, D
  <2> QED
    BY <1>1, <1>2, <1>3, <1>6
<1>8. list \in [1 .. n -> ty]
  BY <1>7
<1>9. ty = {list[i] : i \in DOMAIN list}
  <2>1. ASSUME NEW x \in D PROVE \E i \in 1 .. n : list[i] = x
    <3>1. PICK i \in 1 .. d : f[i] = x
      BY <1>6
    <3>2. i \in 1 .. n /\ i <= d
      <4> HIDE DEF n, c, d
      <4> QED
        BY <1>2, <1>3
    <3> QED
      BY <3>1, <3>2
  <2>2. ASSUME NEW x \in C PROVE \E i \in 1 .. n : list[i] = x
    <3>1. PICK i \in 1 .. c : g[i] = x
      BY <1>6
    <3>2. i + d \in 1 .. n /\ ~(i + d <= d) /\ (i + d) - d = i
      <4> HIDE DEF n, c, d
      <4> QED
        BY <1>2, <1>3
    <3> QED
      BY <3>1, <3>2
  <2>3. ty = D \union C
    OBVIOUS
  <2> HIDE DEF list, C, D
  <2> QED
    BY <1>8, <2>1, <2>2, <2>3
<1>10. InOrder(list)
  <2> SUFFICES ASSUME NEW i \in 1 .. n, NEW j \in 1 .. n, i < j, list[i][1] = "call"
               PROVE  list[j][1] = "call"
    BY <1>8 DEF InOrder
  <2>1. ~(i <= d)
    BY <1>7
  <2>2. ~(j <= d)
    <3> HIDE DEF n, c, d
    <3> QED
      BY <2>1, <1>1, <1>2
  <2> QED
    BY <1>7, <2>2
<1> DEFINE l == Listed(ty)
<1>11. l \in [1 .. n -> ty] /\ ty = {l[i] : i \in DOMAIN l}
  <2> HIDE DEF list
  <2> QED
    BY <1>8, <1>9, <1>10 DEF Listed
<1> HIDE DEF l, list
<1>12. l \in Seq(ty) /\ Len(l) = n /\ DOMAIN l = 1 .. n
  <2> HIDE DEF n
  <2> QED
    BY <1>1, <1>11
<1>13. l \in Injection(1 .. n, ty)
  <2>1. l \in Surjection(1 .. n, ty)
    BY <1>11 DEF Surjection
  <2>2. IsFiniteSet(1 .. n) /\ Cardinality(1 .. n) = n
    <3> HIDE DEF n
    <3> QED
      BY <1>1, FS_Interval
  <2> QED
    BY <2>1, <2>2, FS_SurjSameCardinalityImpliesInj
<1>14. \A i, j \in 1 .. n : l[i] = l[j] => i = j
  BY <1>12, <1>13 DEF Injection, IsInjective
<1>15. ty = {l[i] : i \in 1 .. n}
  BY <1>11, <1>12
<1>16. n = Cardinality(ty) /\ l = Listed(ty)
  BY DEF l
<1> HIDE DEF n
<1>17. ty = {Listed(ty)[i] : i \in 1 .. Cardinality(ty)}
  BY <1>15, <1>16
<1> QED
  BY <1>12, <1>14, <1>16, <1>17
Maps == [Slots -> SUBSET Classes]

mayFor == standsFor(FALSE)
mayAfter == meanings(FALSE)
May == KnownReturns(FALSE)
MayStand(known, ty) == StandsFor(FALSE, known, ty)

\* Names for what may be known, without a Boolean.
LEMMA MayIs ==
  /\ May = mayAfter[Cardinality(Slots)]
  /\ \A known, ty : MayStand(known, ty) = mayFor[MaxNesting][known][ty]
BY Zenon DEF May, KnownReturns, mayAfter, MayStand, StandsFor, mayFor

\* What there is to say of a type with what is untyped, and without.
Rest(ty) == ty \ {UntypedReturn}
Silent(ty) == UntypedReturn \in ty /\ ~ContainsRef(ty)
SaidOf(known, ty, below) ==
  IF Silent(ty) THEN {} ELSE All({StandsForPart(known, a, below) : a \in Rest(ty)})

StandsForOver(n, below) ==
  [known \in Maps |-> [ty \in ReturnsAt(n) |->
     LET stands == [alternative \in ty |-> StandsForPart(known, alternative, below[known])]
     IN IF FALSE /\ Loses(ty, stands) THEN {} ELSE Said(ty, stands)]]
StandsForUpTo(n, f) == f = [k \in 0 .. n |-> StandsForOver(k, f[k - 1])]

\* What a type says, without the function of its alternatives.
LEMMA SaidIs ==
  ASSUME NEW known, NEW ty, NEW below
  PROVE  Said(ty, [a \in ty |-> StandsForPart(known, a, below)]) = SaidOf(known, ty, below)
<1> DEFINE P(a) == StandsForPart(known, a, below)
           stands == [a \in ty |-> P(a)]
<1>1. {stands[a] : a \in Rest(ty)} = {P(a) : a \in Rest(ty)}
  <2> HIDE DEF P
  <2> QED
    BY DEF Rest
<1> QED
  BY <1>1, Zenon DEF Said, SaidOf, Silent, Rest

\* The same for all types of a nesting.
LEMMA OverIs ==
  \A n, below : StandsForOver(n, below)
    = [known \in Maps |-> [ty \in ReturnsAt(n) |-> SaidOf(known, ty, below[known])]]
<1> SUFFICES ASSUME NEW n, NEW below, NEW known \in Maps, NEW ty \in ReturnsAt(n)
             PROVE  (LET stands == [a \in ty |-> StandsForPart(known, a, below[known])]
                     IN IF FALSE /\ Loses(ty, stands) THEN {} ELSE Said(ty, stands))
                      = SaidOf(known, ty, below[known])
  BY Zenon DEF StandsForOver
<1> QED
  BY SaidIs

\* Without untyped a type has something to say.
LEMMA RestIs ==
  ASSUME NEW ty, ty # {}
  PROVE  /\ ~Silent(ty) => Rest(ty) # {}
         /\ UntypedReturn \notin ty => ~Silent(ty) /\ Rest(ty) = ty
<1>1. UntypedReturn[1] \notin {"ref", "call"}
  BY DEF UntypedReturn
<1> QED
  BY <1>1 DEF Silent, Rest, ContainsRef

\* Below the first nesting nothing is asked.
LEMMA NoneBelow ==
  \A x, y : StandsForOver(0, x) = StandsForOver(0, y)
<1> SUFFICES ASSUME NEW x, NEW y, NEW known \in Maps, NEW ty \in ReturnsAt(0)
             PROVE  SaidOf(known, ty, x[known]) = SaidOf(known, ty, y[known])
  <2> DEFINE F(z) == [known \in Maps |-> [ty \in ReturnsAt(0) |-> SaidOf(known, ty, z[known])]]
  <2>1. ASSUME NEW x, NEW y,
               \A known \in Maps : \A ty \in ReturnsAt(0) :
                 SaidOf(known, ty, x[known]) = SaidOf(known, ty, y[known])
        PROVE  F(x) = F(y)
    BY <2>1, Zenon
  <2>2. \A z : StandsForOver(0, z) = F(z)
    BY OverIs
  <2> HIDE DEF F
  <2> QED
    BY <2>1, <2>2
<1>1. \A a \in ty : a[1] \in {"class", "untyped", "ref"}
  BY NestingsAre, AlternativeCases DEF ReturnsAt
<1>2. \A a \in ty : StandsForPart(known, a, x[known]) = StandsForPart(known, a, y[known])
  BY <1>1 DEF StandsForPart
<1>3. {StandsForPart(known, a, x[known]) : a \in Rest(ty)}
        = {StandsForPart(known, a, y[known]) : a \in Rest(ty)}
  BY <1>2 DEF Rest
<1> QED
  BY <1>3 DEF SaidOf

\* What the types of a nesting stand for exists, ...
LEMMA StandsForExist ==
  \A n \in Nat : \E f : StandsForUpTo(n, f)
<1> DEFINE S == {n \in Nat : \E f : StandsForUpTo(n, f)}
<1>1. 0 \in S
  <2> DEFINE f == [k \in 0 .. 0 |-> StandsForOver(0, {})]
  <2>1. \A k \in 0 .. 0 : StandsForOver(k, f[k - 1]) = StandsForOver(0, {})
    <3> SUFFICES ASSUME NEW k \in 0 .. 0 PROVE StandsForOver(k, f[k - 1]) = StandsForOver(0, {})
      OBVIOUS
    <3>1. k = 0
      OBVIOUS
    <3> HIDE DEF f
    <3> QED
      BY <3>1, NoneBelow
  <2>2. StandsForUpTo(0, f)
    BY <2>1 DEF StandsForUpTo
  <2> QED
    BY <2>2
<1>2. ASSUME NEW n \in Nat, n \in S PROVE n + 1 \in S
  <2>1. PICK f : StandsForUpTo(n, f)
    BY <1>2
  <2> DEFINE g == [k \in 0 .. n + 1 |-> IF k <= n THEN f[k] ELSE StandsForOver(k, f[n])]
  <2>2. ASSUME NEW k \in 0 .. n + 1 PROVE g[k] = StandsForOver(k, g[k - 1])
    <3>1. CASE k = 0
      <4>1. g[0] = f[0] /\ f[0] = StandsForOver(0, f[0 - 1])
        BY <2>1 DEF StandsForUpTo
      <4> HIDE DEF g
      <4> QED
        BY <3>1, <4>1, NoneBelow
    <3>2. CASE k \in 1 .. n
      <4>1. g[k] = f[k] /\ g[k - 1] = f[k - 1] /\ f[k] = StandsForOver(k, f[k - 1])
        BY <2>1, <3>2 DEF StandsForUpTo
      <4> QED
        BY <4>1
    <3>3. CASE k = n + 1
      <4>1. g[k] = StandsForOver(k, f[n]) /\ g[k - 1] = f[n]
        BY <3>3
      <4> QED
        BY <4>1
    <3> QED
      BY <3>1, <3>2, <3>3
  <2>3. StandsForUpTo(n + 1, g)
    BY <2>2 DEF StandsForUpTo
  <2> QED
    BY <2>3
<1>3. Nat \subseteq S
  <2> HIDE DEF S
  <2> QED
    BY <1>1, <1>2, FromZeroUp
<1> QED
  BY <1>3

\* ... so standsFor is what its definition says, ...
LEMMA StandsForAre ==
  /\ DOMAIN mayFor = Nestings
  /\ \A n \in Nestings : mayFor[n] = StandsForOver(n, mayFor[n - 1])
<1>1. MaxNesting \in Nat
  BY ReturnConstants
<1>2. mayFor = CHOOSE f : StandsForUpTo(MaxNesting, f)
  BY DEF mayFor, standsFor, StandsForUpTo, StandsForOver, Nestings, Maps
<1>3. StandsForUpTo(MaxNesting, mayFor)
  BY <1>1, <1>2, StandsForExist
<1> QED
  BY <1>3 DEF StandsForUpTo, Nestings

\* ... at every type.
LEMMA StandsAt ==
  ASSUME NEW n \in Nestings, NEW known \in Maps, NEW ty \in ReturnsAt(n)
  PROVE  mayFor[n][known][ty] = SaidOf(known, ty, mayFor[n - 1][known])
<1>1. mayFor[n] = StandsForOver(n, mayFor[n - 1])
  BY StandsForAre
<1> QED
  BY <1>1, OverIs

\* All of some sets is within what they are within.
LEMMA AllIn ==
  ASSUME NEW S, NEW T, \A x \in S : x \subseteq T
  PROVE  All(S) \subseteq T
BY DEF All

\* An alternative stands for classes ...
LEMMA PartType ==
  ASSUME NEW n \in Nestings, NEW known \in Maps, NEW a \in alternativesAt[n],
         n # 0 => \A t \in ReturnsAt(n - 1) : mayFor[n - 1][known][t] \subseteq Classes
  PROVE  StandsForPart(known, a, mayFor[n - 1][known]) \subseteq Classes
<1>0. \A s \in Slots : known[s] \subseteq Classes
  BY DEF Maps
<1>1. CASE a \in Classes /\ a[1] = "class"
  BY <1>1 DEF StandsForPart
<1>2. CASE a[1] = "untyped"
  BY <1>2 DEF StandsForPart
<1>3. CASE a[1] = "ref" /\ SlotOf(a) \in Slots
  BY <1>0, <1>3 DEF StandsForPart, SlotOf
<1>4. CASE n # 0 /\ a[1] = "call" /\ a[2] \in ReturnsAt(n - 1) /\ a[3] \in Methods
  <2> DEFINE inner == mayFor[n - 1][known]
             found == {known[<<c[2], a[3]>>] : c \in inner[a[2]]}
  <2>1. StandsForPart(known, a, inner) = All(found)
    BY <1>4 DEF StandsForPart
  <2>2. inner[a[2]] \subseteq Classes
    BY <1>4
  <2> HIDE DEF inner
  <2>3. \A x \in found : x \subseteq Classes
    BY <1>0, <1>4, <2>2, ClassesAre
  <2> HIDE DEF found
  <2>4. All(found) \subseteq Classes
    BY <2>3, AllIn
  <2> QED
    BY <2>1, <2>4 DEF inner
<1> QED
  BY <1>1, <1>2, <1>3, <1>4, AlternativeCases

\* ... and so does a type.
LEMMA StandsType ==
  \A n \in Nestings : \A known \in Maps : \A ty \in ReturnsAt(n) :
    mayFor[n][known][ty] \subseteq Classes
<1> DEFINE S == {n \in Nestings : \A known \in Maps : \A ty \in ReturnsAt(n) :
                                    mayFor[n][known][ty] \subseteq Classes}
<1>1. ASSUME NEW n \in Nestings, n = 0 \/ n - 1 \in S PROVE n \in S
  <2> SUFFICES ASSUME NEW known \in Maps, NEW ty \in ReturnsAt(n)
               PROVE  mayFor[n][known][ty] \subseteq Classes
    OBVIOUS
  <2> DEFINE parts == {StandsForPart(known, a, mayFor[n - 1][known]) : a \in Rest(ty)}
  <2>1. ty \subseteq alternativesAt[n]
    BY DEF ReturnsAt
  <2>2. n # 0 => \A t \in ReturnsAt(n - 1) : mayFor[n - 1][known][t] \subseteq Classes
    BY <1>1
  <2>3. \A x \in parts : x \subseteq Classes
    BY <2>1, <2>2, PartType DEF Rest
  <2> HIDE DEF parts
  <2>4. All(parts) \subseteq Classes
    BY <2>3, AllIn
  <2> QED
    BY <2>4, StandsAt DEF parts, SaidOf
<1>2. Nestings \subseteq S
  <2> HIDE DEF S
  <2> QED
    BY <1>1, ByNesting, NestingsAre
<1> QED
  BY <1>2

\* What a type stands for does not depend on how deep receivers may be.
LEMMA StandsSame ==
  \A n \in Nestings : n # 0 =>
    \A known \in Maps : \A ty \in ReturnsAt(n - 1) :
      mayFor[n][known][ty] = mayFor[n - 1][known][ty]
<1> DEFINE S == {n \in Nestings : n # 0 =>
                   \A known \in Maps : \A ty \in ReturnsAt(n - 1) :
                     mayFor[n][known][ty] = mayFor[n - 1][known][ty]}
<1>1. ASSUME NEW n \in Nestings, n = 0 \/ n - 1 \in S PROVE n \in S
  <2> SUFFICES ASSUME n # 0, NEW known \in Maps, NEW ty \in ReturnsAt(n - 1)
               PROVE  mayFor[n][known][ty] = mayFor[n - 1][known][ty]
    OBVIOUS
  <2> DEFINE P(a) == StandsForPart(known, a, mayFor[n - 1][known])
             Q(a) == StandsForPart(known, a, mayFor[(n - 1) - 1][known])
  <2>1. n - 1 \in Nestings /\ ty \subseteq alternativesAt[n - 1]
    BY NestingsAre DEF ReturnsAt
  <2>2. ty \in ReturnsAt(n)
    BY <2>1, AlternativesGrow DEF ReturnsAt
  <2>3. ASSUME NEW a \in ty PROVE P(a) = Q(a)
    <3>1. CASE a[1] # "call"
      BY <3>1 DEF StandsForPart
    <3>2. CASE n - 1 # 0 /\ a[1] = "call" /\ a[2] \in ReturnsAt((n - 1) - 1)
      <4>1. mayFor[n - 1][known][a[2]] = mayFor[(n - 1) - 1][known][a[2]]
        BY <1>1, <3>2
      <4> QED
        BY <3>2, <4>1 DEF StandsForPart
    <3> QED
      BY <2>1, <3>1, <3>2, AlternativeCases
  <2>4. {P(a) : a \in Rest(ty)} = {Q(a) : a \in Rest(ty)}
    BY <2>3 DEF Rest
  <2>5. mayFor[n][known][ty] = IF Silent(ty) THEN {} ELSE All({P(a) : a \in Rest(ty)})
    BY <2>2, StandsAt DEF SaidOf
  <2>6. mayFor[n - 1][known][ty] = IF Silent(ty) THEN {} ELSE All({Q(a) : a \in Rest(ty)})
    BY <2>1, StandsAt DEF SaidOf
  <2> HIDE DEF P, Q
  <2> QED
    BY <2>4, <2>5, <2>6
<1>2. Nestings \subseteq S
  <2> HIDE DEF S
  <2> QED
    BY <1>1, ByNesting, NestingsAre
<1> QED
  BY <1>2

\* A type stands for the same at the nesting it has and at the last one.
LEMMA StandsForAt ==
  ASSUME NEW n \in Nestings, NEW known \in Maps, NEW ty \in ReturnsAt(n)
  PROVE  MayStand(known, ty) = mayFor[n][known][ty]
<1> DEFINE S == {k \in 0 .. MaxNesting : \A j \in Nestings : j + k = MaxNesting =>
                   \A t \in ReturnsAt(j) : mayFor[j][known][t] = MayStand(known, t)}
<1>1. MaxNesting \in Nat /\ Nestings = 0 .. MaxNesting
  BY ReturnConstants DEF Nestings
<1>2. 0 \in S
  BY <1>1, MayIs
<1>3. ASSUME NEW k \in 1 .. MaxNesting, k - 1 \in S PROVE k \in S
  <2> SUFFICES ASSUME NEW j \in Nestings, j + k = MaxNesting, NEW t \in ReturnsAt(j)
               PROVE  mayFor[j][known][t] = MayStand(known, t)
    BY <1>1
  <2>1. j + 1 \in Nestings /\ j + 1 # 0 /\ (j + 1) - 1 = j /\ (j + 1) + (k - 1) = MaxNesting
    BY <1>1
  <2>2. t \in ReturnsAt(j + 1)
    BY <2>1, AlternativesGrow DEF ReturnsAt
  <2>3. mayFor[j + 1][known][t] = MayStand(known, t)
    BY <1>3, <2>1, <2>2
  <2>4. mayFor[j + 1][known][t] = mayFor[j][known][t]
    BY <2>1, StandsSame
  <2> QED
    BY <2>3, <2>4
<1>4. 0 .. MaxNesting \subseteq S
  <2> HIDE DEF S
  <2> QED
    BY <1>1, <1>2, <1>3, UpToBound
<1>5. MaxNesting - n \in S /\ n + (MaxNesting - n) = MaxNesting
  BY <1>1, <1>4
<1> QED
  BY <1>5

\* The alternatives there are, and the types of them.
Alternatives == alternativesAt[MaxNesting]

\* Types are sets of alternatives.
LEMMA TypesHave ==
  /\ \A ty \in ReturnTypes : ty \subseteq Alternatives /\ ty # {}
  /\ \A a \in Alternatives : {a} \in ReturnTypes
  /\ \A S : S \subseteq Alternatives /\ S # {} => S \in ReturnTypes
  /\ Classes \subseteq Alternatives /\ Refs \subseteq Alternatives
BY NestingsAre, AlternativesBuilt DEF ReturnTypes, ReturnsAt, Alternatives

\* The four kinds of alternatives.
LEMMA AlternativesHave ==
  ASSUME NEW a \in Alternatives
  PROVE  \/ a \in Classes /\ a[1] = "class"
         \/ a = UntypedReturn /\ a[1] = "untyped"
         \/ a \in Refs /\ a[1] = "ref" /\ SlotOf(a) \in Slots
         \/ /\ a[1] = "call" /\ a = ReceiverMethodRef(a[2], a[3])
            /\ a[2] \in ReturnTypes /\ a[3] \in Methods
BY NestingsAre, AlternativeCases, ReturnsGrow DEF Alternatives

\* What a type stands for, alternative by alternative.
Stands(known, a) == MayStand(known, {a})

\* What a type stands for by what its receivers do, ...
LEMMA StandsForPlace ==
  ASSUME NEW known \in Maps, NEW ty \in ReturnTypes
  PROVE  /\ MayStand(known, ty) = SaidOf(known, ty, mayFor[MaxNesting - 1][known])
         /\ MayStand(known, ty) \subseteq Classes
<1>1. MayStand(known, ty) = mayFor[MaxNesting][known][ty]
  BY MayIs
<1>2. MaxNesting \in Nestings /\ ty \in ReturnsAt(MaxNesting)
  BY NestingsAre DEF ReturnTypes
<1>3. mayFor[MaxNesting][known][ty] = SaidOf(known, ty, mayFor[MaxNesting - 1][known])
  BY <1>2, StandsAt
<1>4. mayFor[MaxNesting][known][ty] \subseteq Classes
  BY <1>2, StandsType
<1> QED
  BY <1>1, <1>3, <1>4

\* ... what an alternative does, ...
LEMMA StandsForOne ==
  ASSUME NEW known \in Maps, NEW a \in Alternatives
  PROVE  /\ Stands(known, a) \subseteq Classes
         /\ a = UntypedReturn => Stands(known, a) = {}
         /\ a # UntypedReturn =>
              Stands(known, a) = StandsForPart(known, a, mayFor[MaxNesting - 1][known])
<1> DEFINE P(b) == StandsForPart(known, b, mayFor[MaxNesting - 1][known])
<1>1. {a} \in ReturnTypes
  BY TypesHave
<1>2. Stands(known, a) = SaidOf(known, {a}, mayFor[MaxNesting - 1][known])
      /\ Stands(known, a) \subseteq Classes
  BY <1>1, StandsForPlace DEF Stands
<1>3. CASE a = UntypedReturn
  <2>1. Silent({a})
    BY <1>3, RestIs DEF Silent, ContainsRef, UntypedReturn
  <2> QED
    BY <1>2, <1>3, <2>1 DEF SaidOf
<1>4. CASE a # UntypedReturn
  <2>1. ~Silent({a}) /\ Rest({a}) = {a}
    BY <1>4 DEF Silent, Rest
  <2>2. Stands(known, a) = All({P(b) : b \in {a}})
    BY <1>2, <2>1 DEF SaidOf
  <2>3. {P(b) : b \in {a}} = {P(a)}
    OBVIOUS
  <2> HIDE DEF P
  <2>4. All({P(a)}) = P(a)
    BY DEF All
  <2> QED
    BY <1>2, <1>4, <2>2, <2>3, <2>4 DEF P
<1> QED
  BY <1>3, <1>4

\* ... and a type by its alternatives.
LEMMA StandsForAlternatives ==
  ASSUME NEW known \in Maps, NEW ty \in ReturnTypes
  PROVE  MayStand(known, ty)
           = IF Silent(ty) THEN {} ELSE All({Stands(known, a) : a \in Rest(ty)})
<1> DEFINE P(a) == StandsForPart(known, a, mayFor[MaxNesting - 1][known])
<1>1. MayStand(known, ty) = IF Silent(ty) THEN {} ELSE All({P(a) : a \in Rest(ty)})
  BY StandsForPlace DEF SaidOf
<1>2. \A a \in Rest(ty) : Stands(known, a) = P(a)
  BY StandsForOne, TypesHave DEF Rest
<1> HIDE DEF P
<1>3. {Stands(known, a) : a \in Rest(ty)} = {P(a) : a \in Rest(ty)}
  BY <1>2
<1> QED
  BY <1>1, <1>3

\* What each kind of alternative stands for.
LEMMA StandsForEach ==
  ASSUME NEW known \in Maps, NEW a \in Alternatives
  PROVE  /\ a \in Classes => Stands(known, a) = {a}
         /\ a = UntypedReturn => Stands(known, a) = {}
         /\ a \in Refs => Stands(known, a) = known[SlotOf(a)]
         /\ a[1] = "call" =>
              Stands(known, a)
                = All({known[<<c[2], a[3]>>] : c \in MayStand(known, a[2])})
<1> DEFINE P(b) == StandsForPart(known, b, mayFor[MaxNesting - 1][known])
<1>1. UntypedReturn[1] = "untyped"
  BY DEF UntypedReturn
<1>2. a[1] # "untyped" => Stands(known, a) = P(a)
  BY <1>1, StandsForOne
<1>4. a \in Classes => a[1] = "class"
  BY DEF Classes
<1>5. a = UntypedReturn => Stands(known, a) = {}
  BY StandsForOne
<1>6. a \in Refs => a[1] = "ref"
  BY DEF Refs
<1>7. a[1] = "call" => MayStand(known, a[2]) = mayFor[MaxNesting - 1][known][a[2]]
  <2> SUFFICES ASSUME a[1] = "call"
               PROVE  MayStand(known, a[2]) = mayFor[MaxNesting - 1][known][a[2]]
    OBVIOUS
  <2>1. MaxNesting # 0 /\ a[2] \in ReturnsAt(MaxNesting - 1)
    BY NestingsAre, AlternativeCases DEF Alternatives
  <2>2. MaxNesting - 1 \in Nestings
    BY <2>1, NestingsAre
  <2> QED
    BY <2>1, <2>2, StandsForAt
<1> QED
  BY <1>2, <1>4, <1>5, <1>6, <1>7 DEF StandsForPart, SlotOf

\* A type stands for something when what it has beside untyped does.
LEMMA StandsWhole ==
  ASSUME NEW known \in Maps, NEW ty \in ReturnTypes
  PROVE  /\ MayStand(known, ty) # {}
              <=> ~Silent(ty) /\ \A a \in Rest(ty) : Stands(known, a) # {}
         /\ MayStand(known, ty) # {} =>
              MayStand(known, ty) = UNION {Stands(known, a) : a \in Rest(ty)}
<1>1. /\ MayStand(known, ty)
           = IF Silent(ty) THEN {} ELSE All({Stands(known, a) : a \in Rest(ty)})
      /\ ~Silent(ty) => Rest(ty) # {}
  BY StandsForAlternatives, RestIs, TypesHave
<1> QED
  BY <1>1 DEF All

-----------------------------------------------------------------------------
\* What stands for something stands for the same when more is known.
KnowsMore(known, more) == \A s \in Slots : known[s] # {} => more[s] = known[s]

\* Who knows more of the methods finds the same where the other found something.
LEMMA StandsGrow ==
  ASSUME NEW known \in Maps, NEW more \in Maps, KnowsMore(known, more)
  PROVE  \A ty \in ReturnTypes :
           MayStand(known, ty) # {} => MayStand(more, ty) = MayStand(known, ty)
<1> DEFINE Same(ty) == MayStand(known, ty) # {} => MayStand(more, ty) = MayStand(known, ty)
           S == {n \in Nestings : \A ty \in ReturnsAt(n) : Same(ty)}
<1>1. ASSUME NEW n \in Nestings, n = 0 \/ n - 1 \in S PROVE n \in S
  <2> SUFFICES ASSUME NEW ty \in ReturnsAt(n), MayStand(known, ty) # {}
               PROVE  MayStand(more, ty) = MayStand(known, ty)
    OBVIOUS
  <2>1. ty \in ReturnTypes /\ ty \subseteq alternativesAt[n]
    BY ReturnsGrow DEF ReturnsAt
  <2>2. ASSUME NEW a \in Rest(ty) PROVE Stands(more, a) = Stands(known, a)
    <3>1. a \in alternativesAt[n] /\ a \in Alternatives
      BY <2>1, TypesHave DEF Rest
    <3>2. Stands(known, a) # {}
      BY <2>1, StandsWhole
    <3>3. CASE a \in Classes \/ a = UntypedReturn
      BY <3>1, <3>3, StandsForEach
    <3>4. CASE a \in Refs /\ SlotOf(a) \in Slots
      <4>1. Stands(known, a) = known[SlotOf(a)] /\ Stands(more, a) = more[SlotOf(a)]
        BY <3>1, <3>4, StandsForEach
      <4> QED
        BY <3>2, <3>4, <4>1 DEF KnowsMore
    <3>5. CASE n # 0 /\ a[1] = "call" /\ a[2] \in ReturnsAt(n - 1) /\ a[3] \in Methods
      <4> DEFINE R == MayStand(known, a[2])
                 f == [c \in R |-> known[<<c[2], a[3]>>]]
                 g == [c \in R |-> more[<<c[2], a[3]>>]]
      <4>1. Stands(known, a) = All({known[<<c[2], a[3]>>] : c \in R})
        BY <3>1, <3>5, StandsForEach
      <4>2. n - 1 \in Nestings /\ a[2] \in ReturnTypes
        BY <3>5, NestingsAre, ReturnsGrow
      <4>3. R \subseteq Classes
        BY <4>2, StandsForPlace
      <4>4. R # {}
        <5>1. R = {} => Stands(known, a) = {}
          <6> HIDE DEF R
          <6> QED
            BY <4>1 DEF All
        <5> QED
          BY <3>2, <5>1
      <4>5. MayStand(more, a[2]) = R
        BY <1>1, <3>5, <4>4
      <4>6. Stands(more, a) = All({more[<<c[2], a[3]>>] : c \in MayStand(more, a[2])})
        BY <3>1, <3>5, StandsForEach
      <4> HIDE DEF R
      <4>7. \A c \in R : f[c] # {} => g[c] = f[c]
        BY <3>5, <4>3, ClassesAre DEF KnowsMore
      <4>8. {f[c] : c \in R} = {known[<<c[2], a[3]>>] : c \in R}
        OBVIOUS
      <4>9. {g[c] : c \in R} = {more[<<c[2], a[3]>>] : c \in R}
        OBVIOUS
      <4>10. All({f[c] : c \in R}) # {}
        BY <3>2, <4>1, <4>8
      <4> HIDE DEF f, g
      <4>11. \A c \in R : f[c] # {}
        BY <4>10 DEF All
      <4>12. {g[c] : c \in R} = {f[c] : c \in R}
        BY <4>7, <4>11
      <4> QED
        BY <4>1, <4>5, <4>6, <4>8, <4>9, <4>12
    <3> QED
      BY <3>1, <3>3, <3>4, <3>5, AlternativeCases
  <2>3. ~Silent(ty) /\ \A a \in Rest(ty) : Stands(more, a) # {}
    BY <2>1, <2>2, StandsWhole
  <2>4. MayStand(more, ty) = UNION {Stands(more, a) : a \in Rest(ty)}
    BY <2>1, <2>3, StandsWhole
  <2>5. MayStand(known, ty) = UNION {Stands(known, a) : a \in Rest(ty)}
    BY <2>1, StandsWhole
  <2> QED
    BY <2>2, <2>4, <2>5
<1>2. Nestings \subseteq S
  <2> HIDE DEF S
  <2> QED
    BY <1>1, ByNesting, NestingsAre
<1> QED
  BY <1>2, NestingsAre DEF ReturnTypes

-----------------------------------------------------------------------------
\* What is known of the methods, from nothing known on.
WrittenOK == written \in [Slots -> ReturnTypes \union {NoMethod}]

NextMeanings(n, below) ==
  [slot \in Slots |->
     IF n = 0 \/ written[slot] = NoMethod THEN {} ELSE MayStand(below, written[slot])]
MeaningsUpTo(n, f) == f = [k \in 0 .. n |-> NextMeanings(k, f[k - 1])]

\* The meanings after some steps exist, ...
LEMMA MeaningsExist ==
  \A n \in Nat : \E f : MeaningsUpTo(n, f)
<1> DEFINE S == {n \in Nat : \E f : MeaningsUpTo(n, f)}
<1>1. 0 \in S
  <2> DEFINE f == [k \in 0 .. 0 |-> NextMeanings(0, {})]
  <2>1. \A k \in 0 .. 0 : NextMeanings(k, f[k - 1]) = NextMeanings(0, {})
    <3> SUFFICES ASSUME NEW k \in 0 .. 0 PROVE NextMeanings(k, f[k - 1]) = NextMeanings(0, {})
      OBVIOUS
    <3>1. k = 0
      OBVIOUS
    <3> HIDE DEF f
    <3> QED
      BY <3>1 DEF NextMeanings
  <2>2. MeaningsUpTo(0, f)
    BY <2>1 DEF MeaningsUpTo
  <2> QED
    BY <2>2
<1>2. ASSUME NEW n \in Nat, n \in S PROVE n + 1 \in S
  <2>1. PICK f : MeaningsUpTo(n, f)
    BY <1>2
  <2> DEFINE g == [k \in 0 .. n + 1 |-> IF k <= n THEN f[k] ELSE NextMeanings(k, f[n])]
  <2>2. ASSUME NEW k \in 0 .. n + 1 PROVE g[k] = NextMeanings(k, g[k - 1])
    <3>1. CASE k = 0
      <4>1. g[0] = f[0] /\ f[0] = NextMeanings(0, f[0 - 1])
        BY <2>1 DEF MeaningsUpTo
      <4> HIDE DEF g
      <4> QED
        BY <3>1, <4>1 DEF NextMeanings
    <3>2. CASE k \in 1 .. n
      <4>1. g[k] = f[k] /\ g[k - 1] = f[k - 1] /\ f[k] = NextMeanings(k, f[k - 1])
        BY <2>1, <3>2 DEF MeaningsUpTo
      <4> QED
        BY <4>1
    <3>3. CASE k = n + 1
      <4>1. g[k] = NextMeanings(k, f[n]) /\ g[k - 1] = f[n]
        BY <3>3
      <4> QED
        BY <4>1
    <3> QED
      BY <3>1, <3>2, <3>3
  <2>3. MeaningsUpTo(n + 1, g)
    BY <2>2 DEF MeaningsUpTo
  <2> QED
    BY <2>3
<1>3. Nat \subseteq S
  <2> HIDE DEF S
  <2> QED
    BY <1>1, <1>2, FromZeroUp
<1> QED
  BY <1>3

Last == Cardinality(Slots)

\* ... so meanings is what its definition says.
LEMMA MeaningsAre ==
  /\ mayAfter[0] = [slot \in Slots |-> {}]
  /\ \A n \in 1 .. Last : mayAfter[n] = NextMeanings(1, mayAfter[n - 1])
<1>1. Last \in Nat
  BY SlotsFinite DEF Last
<1>2. mayAfter = CHOOSE f : MeaningsUpTo(Last, f)
  BY DEF mayAfter, meanings, MeaningsUpTo, NextMeanings, MayStand, Last
<1>3. MeaningsUpTo(Last, mayAfter)
  BY <1>1, <1>2, MeaningsExist
<1>4. \A n \in 0 .. Last : mayAfter[n] = NextMeanings(n, mayAfter[n - 1])
  BY <1>3 DEF MeaningsUpTo
<1>5. mayAfter[0] = [slot \in Slots |-> {}]
  BY <1>1, <1>4 DEF NextMeanings
<1>6. ASSUME NEW n \in 1 .. Last PROVE mayAfter[n] = NextMeanings(1, mayAfter[n - 1])
  <2>1. mayAfter[n] = NextMeanings(n, mayAfter[n - 1]) /\ n # 0
    BY <1>1, <1>4
  <2> QED
    BY <2>1 DEF NextMeanings
<1> QED
  BY <1>5, <1>6

\* One step of the meanings ...
LEMMA NextIs ==
  ASSUME WrittenOK, NEW known \in Maps
  PROVE  /\ NextMeanings(1, known) \in Maps
         /\ \A s \in Slots : NextMeanings(1, known)[s]
              = IF written[s] = NoMethod THEN {} ELSE MayStand(known, written[s])
         /\ \A s \in Slots : written[s] # NoMethod => written[s] \in ReturnTypes
<1>1. \A s \in Slots : written[s] # NoMethod => written[s] \in ReturnTypes
  BY DEF WrittenOK
<1>2. \A ty \in ReturnTypes : MayStand(known, ty) \subseteq Classes
  BY StandsForPlace
<1> QED
  BY <1>1, <1>2 DEF NextMeanings, Maps

\* ... knows more from more, ...
LEMMA NextGrows ==
  ASSUME WrittenOK, NEW known \in Maps, NEW more \in Maps, KnowsMore(known, more)
  PROVE  KnowsMore(NextMeanings(1, known), NextMeanings(1, more))
<1>1. \A ty \in ReturnTypes :
        MayStand(known, ty) # {} => MayStand(more, ty) = MayStand(known, ty)
  BY StandsGrow
<1> QED
  BY <1>1, NextIs DEF KnowsMore

\* ... stays with classes, ...
LEMMA MeaningsType ==
  ASSUME WrittenOK
  PROVE  \A n \in 0 .. Last : mayAfter[n] \in Maps
<1> DEFINE S == {n \in 0 .. Last : mayAfter[n] \in Maps}
<1>1. Last \in Nat
  BY SlotsFinite DEF Last
<1>2. 0 \in S
  BY <1>1, MeaningsAre DEF Maps
<1>3. ASSUME NEW n \in 1 .. Last, n - 1 \in S PROVE n \in S
  BY <1>1, <1>3, MeaningsAre, NextIs
<1>4. 0 .. Last \subseteq S
  <2> HIDE DEF S
  <2> QED
    BY <1>1, <1>2, <1>3, UpToBound
<1> QED
  BY <1>4

\* ... and keeps what is known, ...
LEMMA MeaningsGrow ==
  ASSUME WrittenOK
  PROVE  \A n \in 1 .. Last : KnowsMore(mayAfter[n - 1], mayAfter[n])
<1> DEFINE S == {n \in 0 .. Last : n # 0 => KnowsMore(mayAfter[n - 1], mayAfter[n])}
<1>1. Last \in Nat
  BY SlotsFinite DEF Last
<1>2. 0 \in S
  BY <1>1
<1>3. ASSUME NEW n \in 1 .. Last, n - 1 \in S PROVE n \in S
  <2>1. n \in 0 .. Last /\ n - 1 \in 0 .. Last /\ mayAfter[n - 1] \in Maps /\ mayAfter[n] \in Maps
    BY <1>1, MeaningsType
  <2>2. mayAfter[n] = NextMeanings(1, mayAfter[n - 1])
    BY MeaningsAre
  <2>3. CASE n - 1 = 0
    BY <2>1, <2>3, MeaningsAre DEF KnowsMore
  <2>4. CASE n - 1 # 0
    <3>1. /\ n - 1 \in 1 .. Last /\ (n - 1) - 1 \in 0 .. Last
          /\ KnowsMore(mayAfter[(n - 1) - 1], mayAfter[n - 1])
      BY <1>1, <1>3, <2>4
    <3>2. mayAfter[n - 1] = NextMeanings(1, mayAfter[(n - 1) - 1])
      BY <3>1, MeaningsAre
    <3>3. mayAfter[(n - 1) - 1] \in Maps
      BY <3>1, MeaningsType
    <3>4. KnowsMore(NextMeanings(1, mayAfter[(n - 1) - 1]), NextMeanings(1, mayAfter[n - 1]))
      BY <2>1, <3>1, <3>3, NextGrows
    <3> QED
      BY <2>1, <2>2, <3>2, <3>4
  <2> QED
    BY <2>1, <2>3, <2>4
<1>4. 0 .. Last \subseteq S
  <2> HIDE DEF S
  <2> QED
    BY <1>1, <1>2, <1>3, UpToBound
<1> QED
  BY <1>1, <1>4

\* ... up to the end.
LEMMA MeaningsLast ==
  ASSUME WrittenOK
  PROVE  /\ May = mayAfter[Last] /\ May \in Maps
         /\ \A n \in 0 .. Last : mayAfter[n] \in Maps /\ KnowsMore(mayAfter[n], May)
<1> DEFINE S == {k \in 0 .. Last : \A n \in 0 .. Last : n + k = Last =>
                   KnowsMore(mayAfter[n], mayAfter[Last])}
<1>1. Last \in Nat
  BY SlotsFinite DEF Last
<1>2. 0 \in S
  BY <1>1 DEF KnowsMore
<1>3. ASSUME NEW k \in 1 .. Last, k - 1 \in S PROVE k \in S
  <2> SUFFICES ASSUME NEW n \in 0 .. Last, n + k = Last PROVE KnowsMore(mayAfter[n], mayAfter[Last])
    BY <1>1
  <2>1. n + 1 \in 1 .. Last /\ n + 1 \in 0 .. Last /\ (n + 1) - 1 = n /\ (n + 1) + (k - 1) = Last
    BY <1>1
  <2>2. KnowsMore(mayAfter[n + 1], mayAfter[Last])
    BY <1>3, <2>1
  <2>3. KnowsMore(mayAfter[n], mayAfter[n + 1])
    BY <2>1, MeaningsGrow
  <2> QED
    BY <2>2, <2>3 DEF KnowsMore
<1>4. 0 .. Last \subseteq S
  <2> HIDE DEF S
  <2> QED
    BY <1>1, <1>2, <1>3, UpToBound
<1>5. ASSUME NEW n \in 0 .. Last PROVE KnowsMore(mayAfter[n], mayAfter[Last])
  <2>1. Last - n \in S /\ n + (Last - n) = Last
    BY <1>1, <1>4
  <2> QED
    BY <2>1
<1> QED
  BY <1>1, <1>5, MeaningsType, MayIs DEF Last

\* In as many steps as there are methods, everything is known that ever is: a step that adds
\* nothing is followed by none that does.
KnownIn(known) == {s \in Slots : known[s] # {}}

\* Who knows more of no more methods knows the same.
LEMMA SameKnown ==
  ASSUME NEW known \in Maps, NEW more \in Maps, KnowsMore(known, more),
         KnownIn(more) \subseteq KnownIn(known)
  PROVE  more = known
<1>1. \A s \in Slots : more[s] = known[s]
  BY DEF KnowsMore, KnownIn
<1> QED
  BY <1>1 DEF Maps

\* While something changes, each step knows of one more method.
LEMMA KnownCounts ==
  ASSUME WrittenOK
  PROVE  \A n \in 0 .. Last :
           \/ Cardinality(KnownIn(mayAfter[n])) >= n
           \/ n # 0 /\ mayAfter[n] = mayAfter[n - 1]
<1> DEFINE S == {n \in 0 .. Last : \/ Cardinality(KnownIn(mayAfter[n])) >= n
                                   \/ n # 0 /\ mayAfter[n] = mayAfter[n - 1]}
<1>1. Last \in Nat
  BY SlotsFinite DEF Last
<1>2. \A n \in 0 .. Last : /\ IsFiniteSet(KnownIn(mayAfter[n]))
                           /\ Cardinality(KnownIn(mayAfter[n])) \in Nat
  <2> SUFFICES ASSUME NEW n \in 0 .. Last
               PROVE  /\ IsFiniteSet(KnownIn(mayAfter[n]))
                      /\ Cardinality(KnownIn(mayAfter[n])) \in Nat
    OBVIOUS
  <2>1. KnownIn(mayAfter[n]) \subseteq Slots
    BY DEF KnownIn
  <2> QED
    BY <2>1, SlotsFinite, FS_Subset, FS_CardinalityType
<1>3. 0 \in S
  BY <1>1, <1>2
<1>4. ASSUME NEW n \in 1 .. Last, n - 1 \in S PROVE n \in S
  <2>1. /\ n \in 0 .. Last /\ n - 1 \in 0 .. Last /\ n # 0
        /\ mayAfter[n - 1] \in Maps /\ mayAfter[n] \in Maps
    BY <1>1, MeaningsType
  <2>2. KnowsMore(mayAfter[n - 1], mayAfter[n])
    BY MeaningsGrow
  <2>3. CASE n - 1 # 0 /\ mayAfter[n - 1] = mayAfter[(n - 1) - 1]
    <3>1. n - 1 \in 1 .. Last
      BY <1>1, <2>3
    <3>2. mayAfter[n - 1] = NextMeanings(1, mayAfter[(n - 1) - 1])
      BY <3>1, MeaningsAre
    <3>3. mayAfter[n] = NextMeanings(1, mayAfter[n - 1])
      BY MeaningsAre
    <3> QED
      BY <2>1, <2>3, <3>2, <3>3
  <2>4. CASE Cardinality(KnownIn(mayAfter[n - 1])) >= n - 1
    <3> DEFINE K == KnownIn(mayAfter[n - 1])
               L == KnownIn(mayAfter[n])
    <3>1. K \subseteq L
      BY <2>2 DEF KnowsMore, KnownIn
    <3>2. CASE K = L
      <4>1. mayAfter[n] = mayAfter[n - 1]
        BY <2>1, <2>2, <3>2, SameKnown
      <4> QED
        BY <2>1, <4>1
    <3>3. CASE K # L
      <4>1. /\ IsFiniteSet(L) /\ Cardinality(L) \in Nat
            /\ IsFiniteSet(K) /\ Cardinality(K) \in Nat
        BY <1>2, <2>1
      <4> HIDE DEF K, L
      <4>2. Cardinality(K) <= Cardinality(L) /\ Cardinality(K) # Cardinality(L)
        BY <3>1, <3>3, <4>1, FS_Subset
      <4>3. Cardinality(K) >= n - 1
        BY <2>4 DEF K
      <4>4. Cardinality(L) >= n
        BY <1>1, <4>1, <4>2, <4>3
      <4> QED
        BY <2>1, <4>4 DEF L
    <3> QED
      BY <3>2, <3>3
  <2> QED
    BY <1>4, <2>3, <2>4
<1>5. 0 .. Last \subseteq S
  <2> HIDE DEF S
  <2> QED
    BY <1>1, <1>3, <1>4, UpToBound
<1> QED
  BY <1>5

\* What a method stands for is what its return type stands for.
LEMMA MeaningsSettle ==
  ASSUME WrittenOK, NEW s \in Slots, written[s] # NoMethod
  PROVE  MayStand(May, written[s]) = May[s]
<1>1. Last \in Nat /\ Last \in 0 .. Last
  BY SlotsFinite DEF Last
<1>2. May = mayAfter[Last] /\ May \in Maps
  BY MeaningsLast
<1> DEFINE next == NextMeanings(1, mayAfter[Last])
<1>3. next \in Maps /\ next[s] = MayStand(May, written[s])
  BY <1>2, NextIs
<1>4. KnowsMore(mayAfter[Last], next)
  <2>1. CASE Last = 0
    BY <2>1, MeaningsAre DEF KnowsMore
  <2>2. CASE Last # 0
    <3>1. Last \in 1 .. Last /\ Last - 1 \in 0 .. Last
      BY <1>1, <2>2
    <3>2. mayAfter[Last] = NextMeanings(1, mayAfter[Last - 1])
      BY <3>1, MeaningsAre
    <3>3. KnowsMore(mayAfter[Last - 1], mayAfter[Last]) /\ mayAfter[Last - 1] \in Maps
      BY <3>1, MeaningsGrow, MeaningsType
    <3>4. KnowsMore(NextMeanings(1, mayAfter[Last - 1]), next)
      BY <1>2, <3>3, NextGrows
    <3> HIDE DEF next
    <3> QED
      BY <3>2, <3>4
  <2> QED
    BY <2>1, <2>2
<1>5. next[s] = mayAfter[Last][s]
  <2>1. CASE Cardinality(KnownIn(mayAfter[Last])) >= Last
    <3> DEFINE K == KnownIn(mayAfter[Last])
    <3>1. K \subseteq Slots
      BY DEF KnownIn
    <3>2. IsFiniteSet(Slots) /\ Cardinality(K) >= Cardinality(Slots)
      BY <2>1, SlotsFinite DEF Last
    <3> HIDE DEF K
    <3>3. Cardinality(K) <= Cardinality(Slots) /\ Cardinality(K) \in Nat
      BY <3>1, <3>2, FS_Subset, FS_CardinalityType
    <3>4. Cardinality(K) = Cardinality(Slots)
      BY <3>2, <3>3, SlotsFinite
    <3>5. K = Slots
      BY <3>1, <3>2, <3>4, FS_Subset
    <3> QED
      BY <1>4, <3>5 DEF K, KnownIn, KnowsMore
  <2>2. CASE Last # 0 /\ mayAfter[Last] = mayAfter[Last - 1]
    <3>1. Last \in 1 .. Last
      BY <1>1, <2>2
    <3>2. mayAfter[Last] = NextMeanings(1, mayAfter[Last - 1])
      BY <3>1, MeaningsAre
    <3> QED
      BY <2>2, <3>2
  <2> QED
    BY <1>1, <2>1, <2>2, KnownCounts
<1> QED
  BY <1>2, <1>3, <1>5
-----------------------------------------------------------------------------
\* What becomes of a type: nothing, untyped where it may be lost, or some of its references are
\* replaced by their classes.
Means(a) == Stands(May, a)
IsRef(a) == a[1] \in {"ref", "call"}
MayLost(ty) ==
  /\ ContainsRef(ty)
  /\ \/ \E kept \in (SUBSET ty) \ {ty} :
          Cardinality(kept \union UNION {Means(a) : a \in ty \ kept}) > MaxAlternatives
     \/ UntypedReturn \in ty /\ MayStand(May, ty) = {NilReturn}
Splits(kept, result, ty) ==
  LET gone == Rest(ty) \ kept IN
  /\ ContainsRef(gone)
  /\ \A a \in gone : Means(a) # {}
  /\ result = kept \union UNION {Means(a) : a \in gone}
  /\ UntypedReturn \in ty /\ result = {NilReturn} =>
       \E a, b \in gone : a # b /\ IsRef(a) /\ IsRef(b)
Becomes(ty, result) ==
  \/ result = ty
  \/ result = {UntypedReturn} /\ MayLost(ty)
  \/ \E kept \in SUBSET Rest(ty) : Splits(kept, result, ty)

\* What untyped is and is not.
LEMMA UntypedIs ==
  /\ UntypedReturn \in Alternatives /\ {UntypedReturn} \in ReturnTypes
  /\ UntypedReturn \notin Classes /\ ~IsRef(UntypedReturn) /\ UntypedReturn[1] = "untyped"
  /\ ~Concrete({UntypedReturn}) /\ ~ContainsRef({UntypedReturn})
  /\ \A a \in Classes : ~IsRef(a)
<1>1. UntypedReturn[1] = "untyped"
  BY DEF UntypedReturn
<1>2. UntypedReturn \in Alternatives
  BY NestingsAre, AlternativesAre DEF Alternatives, AlternativesOver
<1> QED
  BY <1>1, <1>2, TypesHave, ClassesAre DEF IsRef, Concrete, ContainsRef

\* What the alternatives and the types stand for in the end.
LEMMA MeansAre ==
  ASSUME WrittenOK
  PROVE  /\ \A a \in Alternatives : Means(a) \subseteq Classes
         /\ \A a \in Classes : Means(a) = {a}
         /\ Means(UntypedReturn) = {}
         /\ \A ty \in ReturnTypes :
              /\ MayStand(May, ty) # {} <=> ~Silent(ty) /\ \A a \in Rest(ty) : Means(a) # {}
              /\ MayStand(May, ty) # {} => MayStand(May, ty) = UNION {Means(a) : a \in Rest(ty)}
BY MeaningsLast, StandsForOne, StandsForEach, StandsWhole, TypesHave, UntypedIs DEF Means

\* It is what the property says.
LEMMA MayLostIs ==
  ASSUME WrittenOK, NEW ty \in ReturnTypes, MayLost(ty)
  PROVE  MayLose(May, ty)
<1> DEFINE stands == [a \in ty |-> MayStand(May, {a})]
<1>1. MayLose(May, ty) <=> Loses(ty, stands)
  BY Zenon DEF MayLose, MayStand
<1>2. \A a \in ty : stands[a] = Means(a)
  BY DEF Means, Stands
<1> HIDE DEF stands
<1>3. ContainsRef(ty)
  BY DEF MayLost
<1>4. CASE \E kept \in (SUBSET ty) \ {ty} :
             Cardinality(kept \union UNION {Means(a) : a \in ty \ kept}) > MaxAlternatives
  <2>1. PICK kept \in (SUBSET ty) \ {ty} :
          Cardinality(kept \union UNION {Means(a) : a \in ty \ kept}) > MaxAlternatives
    BY <1>4
  <2>2. {Means(a) : a \in ty \ kept} = {stands[a] : a \in ty \ kept}
    BY <1>2
  <2>3. Cardinality(kept \union UNION {stands[a] : a \in ty \ kept}) > MaxAlternatives
    BY <2>1, <2>2
  <2> QED
    BY <1>1, <1>3, <2>3 DEF Loses
<1>5. CASE UntypedReturn \in ty /\ MayStand(May, ty) = {NilReturn}
  <2>1. {Means(a) : a \in Rest(ty)} = {stands[a] : a \in Rest(ty)}
    BY <1>2 DEF Rest
  <2>2. MayStand(May, ty) = All({Means(a) : a \in Rest(ty)})
    BY <1>3, MeaningsLast, StandsForAlternatives DEF Means, Silent
  <2>3. Said(ty, stands) = {NilReturn}
    BY <1>3, <1>5, <2>1, <2>2 DEF Said, Rest
  <2> QED
    BY <1>1, <1>3, <1>5, <2>3 DEF Loses
<1> QED
  BY <1>4, <1>5 DEF MayLost

\* A type becomes itself.
LEMMA BecomesSelf ==
  \A ty : Becomes(ty, ty)
BY DEF Becomes

\* What has gone from a type, and what is there for it.
LEMMA SplitsType ==
  ASSUME WrittenOK, NEW ty \in ReturnTypes, NEW result, NEW kept \in SUBSET Rest(ty),
         Splits(kept, result, ty)
  PROVE  /\ result \in ReturnTypes /\ UntypedReturn \notin result /\ ContainsRef(ty)
         /\ \A a \in Rest(ty) \ kept : /\ Means(a) # {} /\ Means(a) \subseteq Classes
                                       /\ Means(a) \subseteq result
         /\ kept \subseteq result
         /\ \E a \in Rest(ty) \ kept : IsRef(a)
<1>1. /\ \A a \in Rest(ty) \ kept : Means(a) # {}
      /\ result = kept \union UNION {Means(a) : a \in Rest(ty) \ kept}
      /\ ContainsRef(Rest(ty) \ kept)
  BY DEF Splits
<1>2. ty \subseteq Alternatives /\ Rest(ty) \subseteq ty /\ UntypedReturn \notin Rest(ty)
  BY TypesHave DEF Rest
<1>3. \A a \in Rest(ty) \ kept : Means(a) \subseteq Classes
  BY <1>2, MeansAre
<1>4. PICK a \in Rest(ty) \ kept : IsRef(a)
  BY <1>1 DEF ContainsRef, IsRef
<1>5. result \subseteq Alternatives
  BY <1>1, <1>2, <1>3, TypesHave
<1>6. result # {}
  BY <1>1, <1>4
<1>7. UntypedReturn \notin result
  BY <1>1, <1>2, <1>3, UntypedIs
<1>8. ContainsRef(ty)
  BY <1>2, <1>4 DEF ContainsRef, IsRef
<1>9. \A x \in Rest(ty) \ kept : Means(x) \subseteq result
  BY <1>1
<1> QED
  BY <1>1, <1>3, <1>4, <1>5, <1>6, <1>7, <1>8, <1>9, TypesHave

\* What becomes of a type is a type.
LEMMA BecomesType ==
  ASSUME WrittenOK, NEW ty \in ReturnTypes, NEW result, Becomes(ty, result)
  PROVE  result \in ReturnTypes
BY SplitsType, UntypedIs DEF Becomes

\* To replace references this way is what the property allows.
LEMMA BecomesReplaces ==
  ASSUME WrittenOK, NEW ty \in ReturnTypes, NEW result, NEW kept \in SUBSET Rest(ty),
         Splits(kept, result, ty)
  PROVE  Replaces(May, result, ty)
<1> DEFINE gone == [a \in ty \ (result \union {UntypedReturn}) |-> MayStand(May, {a})]
           replaced == ty \ (result \union {UntypedReturn})
<1>1. /\ result = kept \union UNION {Means(a) : a \in Rest(ty) \ kept}
      /\ UntypedReturn \in ty /\ result = {NilReturn} =>
           \E a, b \in Rest(ty) \ kept : a # b /\ IsRef(a) /\ IsRef(b)
  BY DEF Splits
<1>2. /\ UntypedReturn \notin result /\ kept \subseteq result
      /\ \A a \in Rest(ty) \ kept : /\ Means(a) # {} /\ Means(a) \subseteq Classes
                                    /\ Means(a) \subseteq result
      /\ \E a \in Rest(ty) \ kept : IsRef(a)
  BY SplitsType
<1>3. ASSUME NEW a \in Rest(ty) \ kept, IsRef(a) PROVE a \in replaced
  <2>1. a \notin result
    BY <1>1, <1>2, <1>3, UntypedIs
  <2> QED
    BY <2>1 DEF Rest
<1>4. \A a \in replaced : a \in Rest(ty) \ kept
  BY <1>2 DEF Rest
<1>5. \A a \in replaced : gone[a] = Means(a)
  BY DEF Means, Stands
<1>6. ASSUME NEW b \in result, b \notin ty PROVE \E a \in replaced : b \in Means(a)
  <2>1. PICK a \in Rest(ty) \ kept : b \in Means(a)
    BY <1>1, <1>6 DEF Rest
  <2>2. a \notin result
    <3> SUFFICES ASSUME a \in result PROVE FALSE
      OBVIOUS
    <3>1. a \in Classes
      BY <1>1, <1>2, <2>1
    <3>2. b = a
      BY <2>1, <3>1, MeansAre
    <3> QED
      BY <1>6, <2>1, <3>2 DEF Rest
  <2> QED
    BY <2>1, <2>2 DEF Rest
<1> HIDE DEF gone, replaced
<1>7. result = (ty \intersect result) \union UNION {gone[a] : a \in replaced}
  <2>1. \A b \in result : b \in (ty \intersect result) \union UNION {gone[a] : a \in replaced}
    BY <1>5, <1>6
  <2>2. \A a \in replaced : gone[a] \subseteq result
    BY <1>2, <1>4, <1>5
  <2> QED
    BY <2>1, <2>2
<1>8. replaced # {} /\ \A a \in replaced : gone[a] # {}
  BY <1>2, <1>3, <1>4, <1>5
<1>9. UntypedReturn \in ty /\ result = {NilReturn} => \A a \in replaced : replaced # {a}
  BY <1>1, <1>3
<1>10. DOMAIN gone = replaced
  BY DEF gone, replaced
<1>11. gone = [a \in ty \ (result \union {UntypedReturn}) |-> StandsFor(FALSE, May, {a})]
  BY Zenon DEF gone, MayStand
<1>12. /\ UntypedReturn \notin result
       /\ DOMAIN gone # {}
       /\ \A a \in DOMAIN gone : gone[a] # {}
       /\ result = (ty \intersect result) \union UNION {gone[a] : a \in DOMAIN gone}
       /\ UntypedReturn \in ty /\ result = {NilReturn} =>
            \A a \in DOMAIN gone : DOMAIN gone # {a}
  BY <1>2, <1>7, <1>8, <1>9, <1>10
<1> QED
  BY <1>11, <1>12, Zenon DEF Replaces

\* Concrete types are types of classes.
LEMMA ConcreteIs ==
  ASSUME NEW ty \in ReturnTypes
  PROVE  /\ Concrete(ty) <=> ty \subseteq Classes
         /\ Concrete(ty) => ~ContainsRef(ty)
<1>1. \A a \in ty : a[1] = "class" <=> a \in Classes
  <2> SUFFICES ASSUME NEW a \in ty PROVE a[1] = "class" <=> a \in Classes
    OBVIOUS
  <2>1. a \in Alternatives
    BY TypesHave
  <2> QED
    BY <2>1, AlternativesHave, ClassesAre
<1>2. \A a \in ty : a[1] = "class" => a[1] \notin {"ref", "call"}
  OBVIOUS
<1> QED
  BY <1>1, <1>2 DEF Concrete, ContainsRef

\* Where every alternative of the result has a meaning, the type has that meaning.
LEMMA BecomesKnown ==
  ASSUME WrittenOK, NEW ty \in ReturnTypes, NEW result, Becomes(ty, result),
         \A x \in result : Means(x) # {}
  PROVE  MayStand(May, ty) = UNION {Means(x) : x \in result} /\ MayStand(May, ty) # {}
<1>1. UntypedReturn \notin result
  BY MeansAre
<1>2. CASE result = ty
  <2>1. ~Silent(ty) /\ Rest(ty) = ty
    BY <1>1, <1>2, RestIs, TypesHave
  <2> QED
    BY <1>2, <2>1, MeansAre
<1>3. ASSUME NEW kept \in SUBSET Rest(ty), Splits(kept, result, ty)
      PROVE  MayStand(May, ty) = UNION {Means(x) : x \in result} /\ MayStand(May, ty) # {}
  <2>1. /\ result = kept \union UNION {Means(a) : a \in Rest(ty) \ kept}
    BY <1>3 DEF Splits
  <2>2. /\ ContainsRef(ty) /\ kept \subseteq result
        /\ \A a \in Rest(ty) \ kept : /\ Means(a) # {} /\ Means(a) \subseteq Classes
                                      /\ Means(a) \subseteq result
    BY <1>3, SplitsType
  <2>3. ~Silent(ty) /\ \A a \in Rest(ty) : Means(a) # {}
    BY <2>2 DEF Silent
  <2>4. MayStand(May, ty) # {} /\ MayStand(May, ty) = UNION {Means(a) : a \in Rest(ty)}
    BY <2>3, MeansAre
  <2>5. ASSUME NEW a \in Rest(ty) \ kept, NEW c \in Means(a)
        PROVE  c \in result /\ Means(c) = {c}
    BY <2>2, MeansAre
  <2>6. ASSUME NEW x \in result PROVE \E a \in Rest(ty) : Means(x) \subseteq Means(a)
    <3>1. CASE x \in kept
      BY <3>1
    <3>2. CASE x \notin kept
      <4>1. PICK a \in Rest(ty) \ kept : x \in Means(a)
        BY <2>1, <3>2
      <4> QED
        BY <2>5, <4>1
    <3> QED
      BY <3>1, <3>2
  <2>7. ASSUME NEW a \in Rest(ty), NEW c \in Means(a) PROVE \E x \in result : c \in Means(x)
    <3>1. CASE a \in kept
      BY <2>2, <3>1
    <3>2. CASE a \notin kept
      <4>1. c \in result /\ Means(c) = {c}
        BY <2>5, <3>2
      <4> QED
        BY <4>1
    <3> QED
      BY <3>1, <3>2
  <2>8. UNION {Means(x) : x \in result} = UNION {Means(a) : a \in Rest(ty)}
    BY <2>6, <2>7
  <2> QED
    BY <2>4, <2>8
<1> QED
  BY <1>1, <1>2, <1>3 DEF Becomes

\* What has only classes is what it stands for.
LEMMA BecomesConcrete ==
  ASSUME WrittenOK, NEW ty \in ReturnTypes, NEW result, Becomes(ty, result), Concrete(result)
  PROVE  result = MayStand(May, ty) /\ result # {}
<1>1. result \in ReturnTypes
  BY BecomesType
<1>2. result \subseteq Classes /\ result # {}
  BY <1>1, ConcreteIs, TypesHave
<1>3. \A b \in result : Means(b) = {b}
  BY <1>2, MeansAre
<1>4. UNION {Means(b) : b \in result} = result
  BY <1>3
<1> QED
  BY <1>2, <1>3, <1>4, BecomesKnown

\* A reference becomes what it stands for.
LEMMA BecomesWhole ==
  ASSUME WrittenOK, NEW a \in Alternatives, IsRef(a), Means(a) # {}
  PROVE  Becomes({a}, Means(a))
<1>1. Rest({a}) = {a} /\ UntypedReturn \notin {a}
  BY UntypedIs DEF Rest
<1>2. ContainsRef({a})
  BY DEF ContainsRef, IsRef
<1>3. {a} \ {} = {a} /\ UNION {Means(b) : b \in {a}} = Means(a) /\ {} \in SUBSET {a}
  OBVIOUS
<1>4. Splits({}, Means(a), {a})
  BY <1>1, <1>2, <1>3 DEF Splits
<1> QED
  BY <1>1, <1>3, <1>4 DEF Becomes

\* A call with too many results may be lost.
LEMMA BecomesLost ==
  ASSUME NEW a, IsRef(a), Cardinality(Means(a)) > MaxAlternatives
  PROVE  Becomes({a}, {UntypedReturn})
<1>1. {} \in (SUBSET {a}) \ {{a}}
  OBVIOUS
<1>2. {} \union UNION {Means(b) : b \in {a} \ {}} = Means(a)
  OBVIOUS
<1>3. ContainsRef({a})
  BY DEF ContainsRef, IsRef
<1>4. Cardinality({} \union UNION {Means(b) : b \in {a} \ {}}) > MaxAlternatives
  BY <1>2
<1>5. MayLost({a})
  BY <1>1, <1>3, <1>4 DEF MayLost
<1> QED
  BY <1>5 DEF Becomes

\* Replacing goes on: what is left is replaced as well, or lost.
LEMMA SplitsMore ==
  ASSUME WrittenOK, NEW ty \in ReturnTypes, NEW first, NEW second,
         NEW k1 \in SUBSET Rest(ty), Splits(k1, first, ty),
         NEW k2 \in SUBSET first
  PROVE  LET kept == k1 \intersect k2 IN
         /\ Rest(first) = first
         /\ kept \in SUBSET Rest(ty) /\ kept # ty
         /\ \A a \in first \ k2 : a \in k1 \ k2 \/ Means(a) = {a}
         /\ kept \union UNION {Means(a) : a \in Rest(ty) \ kept}
              = k2 \union UNION {Means(a) : a \in first \ k2}
<1> DEFINE kept == k1 \intersect k2
<1>1. first = k1 \union UNION {Means(a) : a \in Rest(ty) \ k1}
  BY DEF Splits
<1>2. /\ UntypedReturn \notin first /\ k1 \subseteq first
      /\ \A a \in Rest(ty) \ k1 : /\ Means(a) # {} /\ Means(a) \subseteq Classes
                                  /\ Means(a) \subseteq first
      /\ \E a \in Rest(ty) \ k1 : IsRef(a)
  BY SplitsType
<1>3. Rest(first) = first
  BY <1>2 DEF Rest
<1>4. kept \in SUBSET Rest(ty) /\ kept # ty
  BY <1>2 DEF Rest
<1>5. ASSUME NEW a \in Rest(ty) \ k1, NEW c \in Means(a) PROVE c \in first /\ Means(c) = {c}
  BY <1>2, MeansAre
<1>6. ASSUME NEW x \in first, x \notin k1
      PROVE  Means(x) = {x} /\ \E a \in Rest(ty) \ k1 : x \in Means(a)
  <2>1. PICK a \in Rest(ty) \ k1 : x \in Means(a)
    BY <1>1, <1>6
  <2> QED
    BY <1>5, <2>1
<1>7. ASSUME NEW b \in kept \union UNION {Means(a) : a \in Rest(ty) \ kept}
      PROVE  b \in k2 \union UNION {Means(a) : a \in first \ k2}
  <2>1. CASE b \in kept
    BY <2>1
  <2>2. CASE b \notin kept
    <3>1. PICK a \in Rest(ty) \ kept : b \in Means(a)
      BY <1>7, <2>2
    <3>2. CASE a \in k1
      BY <1>2, <3>1, <3>2
    <3>3. CASE a \notin k1
      <4>1. b \in first /\ Means(b) = {b}
        BY <1>5, <3>1, <3>3
      <4> QED
        BY <4>1
    <3> QED
      BY <3>2, <3>3
  <2> QED
    BY <2>1, <2>2
<1>8. ASSUME NEW b \in k2 \union UNION {Means(a) : a \in first \ k2}
      PROVE  b \in kept \union UNION {Means(a) : a \in Rest(ty) \ kept}
  <2>1. CASE b \in k2
    BY <1>6, <2>1
  <2>2. CASE b \notin k2
    <3>1. PICK x \in first \ k2 : b \in Means(x)
      BY <1>8, <2>2
    <3>2. CASE x \in k1
      BY <3>1, <3>2
    <3>3. CASE x \notin k1
      <4>1. b = x
        BY <1>6, <3>1, <3>3
      <4> QED
        BY <1>6, <3>1, <3>3, <4>1
    <3> QED
      BY <3>2, <3>3
  <2> QED
    BY <2>1, <2>2
<1>9. kept \union UNION {Means(a) : a \in Rest(ty) \ kept}
        = k2 \union UNION {Means(a) : a \in first \ k2}
  BY <1>7, <1>8
<1>10. \A a \in first \ k2 : a \in k1 \ k2 \/ Means(a) = {a}
  BY <1>6
<1> QED
  BY <1>3, <1>4, <1>9, <1>10

\* What becomes of what became of a type becomes of it.
LEMMA BecomesMore ==
  ASSUME WrittenOK, NEW ty \in ReturnTypes, NEW first, NEW second,
         Becomes(ty, first), Becomes(first, second)
  PROVE  Becomes(ty, second)
<1>1. CASE first = ty \/ second = first
  BY <1>1
<1>2. CASE first = {UntypedReturn}
  <2>1. Rest(first) = {}
    BY <1>2 DEF Rest
  <2>2. ~ContainsRef(first) /\ ~ContainsRef({})
    BY <1>2, UntypedIs DEF ContainsRef
  <2>3. second = first
    BY <2>1, <2>2 DEF Becomes, MayLost, Splits
  <2> QED
    BY <2>3
<1>3. ASSUME NEW k1 \in SUBSET Rest(ty), Splits(k1, first, ty), MayLost(first),
             second = {UntypedReturn}
      PROVE  Becomes(ty, second)
  <2>1. /\ first \in ReturnTypes /\ UntypedReturn \notin first /\ ContainsRef(ty)
    BY <1>3, SplitsType
  <2>2. PICK k2 \in (SUBSET first) \ {first} :
          Cardinality(k2 \union UNION {Means(a) : a \in first \ k2}) > MaxAlternatives
    BY <1>3, <2>1 DEF MayLost
  <2> DEFINE kept == k1 \intersect k2
  <2>3. /\ kept \in SUBSET Rest(ty) /\ kept # ty
        /\ kept \union UNION {Means(a) : a \in Rest(ty) \ kept}
             = k2 \union UNION {Means(a) : a \in first \ k2}
    BY <1>3, SplitsMore
  <2> HIDE DEF kept
  <2>4. UNION {Means(a) : a \in Rest(ty) \ kept} = UNION {Means(a) : a \in ty \ kept}
    BY MeansAre DEF Rest
  <2>5. Cardinality(kept \union UNION {Means(a) : a \in ty \ kept}) > MaxAlternatives
    BY <2>2, <2>3, <2>4
  <2>6. kept \in (SUBSET ty) \ {ty}
    BY <2>3 DEF Rest
  <2>7. MayLost(ty)
    BY <2>1, <2>5, <2>6 DEF MayLost
  <2> QED
    BY <1>3, <2>7 DEF Becomes
<1>4. ASSUME NEW k1 \in SUBSET Rest(ty), Splits(k1, first, ty),
             NEW k2 \in SUBSET Rest(first), Splits(k2, second, first)
      PROVE  Becomes(ty, second)
  <2> DEFINE kept == k1 \intersect k2
             gone == Rest(ty) \ kept
  <2>1. /\ \A a \in Rest(ty) \ k1 : Means(a) # {}
        /\ \E a \in Rest(ty) \ k1 : IsRef(a)
        /\ first \in ReturnTypes
    BY <1>4, SplitsType
  <2>2. /\ \A a \in Rest(first) \ k2 : Means(a) # {}
        /\ \E a \in Rest(first) \ k2 : IsRef(a)
    BY <1>4, <2>1, SplitsType
  <2>3. /\ Rest(first) = first
        /\ kept \in SUBSET Rest(ty)
        /\ kept \union UNION {Means(a) : a \in Rest(ty) \ kept}
             = k2 \union UNION {Means(a) : a \in first \ k2}
    BY <1>4, SplitsMore DEF Rest
  <2>4. second = k2 \union UNION {Means(a) : a \in first \ k2}
    BY <1>4, <2>3 DEF Splits
  <2>5. \A a \in first \ k2 : a \in k1 \ k2 \/ Means(a) = {a}
    BY <1>4, <2>3, SplitsMore
  <2>6. PICK x \in Rest(ty) \ k1 : IsRef(x)
    BY <2>1
  <2>7. PICK y \in first \ k2 : IsRef(y)
    BY <2>2, <2>3
  <2>8. y \in k1
    <3> SUFFICES ASSUME y \notin k1 PROVE FALSE
      OBVIOUS
    <3>1. PICK a \in Rest(ty) \ k1 : y \in Means(a)
      BY <1>4, <2>7 DEF Splits
    <3>2. y \in Classes
      BY <1>4, <3>1, SplitsType
    <3> QED
      BY <2>7, <3>2, UntypedIs
  <2>9. x \in gone /\ y \in gone /\ x # y
    <3>1. y \in Rest(ty)
      BY <2>8
    <3> QED
      BY <2>6, <2>7, <2>8, <3>1
  <2>10. ASSUME NEW a \in gone PROVE Means(a) # {}
    <3>1. CASE a \in k1
      <4>1. a \in first \ k2
        BY <1>4, <2>10, <3>1, SplitsType
      <4> QED
        BY <2>2, <2>3, <4>1
    <3> QED
      BY <2>1, <2>10, <3>1
  <2>11. ContainsRef(gone)
    BY <2>6, <2>9 DEF ContainsRef, IsRef
  <2>12. second = kept \union UNION {Means(a) : a \in gone}
    BY <2>3, <2>4
  <2>13. Splits(kept, second, ty)
    BY <2>6, <2>7, <2>9, <2>10, <2>11, <2>12 DEF Splits
  <2> QED
    BY <2>3, <2>13 DEF Becomes
<1> QED
  BY <1>1, <1>2, <1>3, <1>4 DEF Becomes

-----------------------------------------------------------------------------
\* In every state a return type is what became of what was written.
ReturnsOK ==
  /\ WrittenOK
  /\ returns \in [Slots -> ReturnTypes \union {NoMethod}]
  /\ \A s \in Slots : /\ returns[s] = NoMethod <=> written[s] = NoMethod
                      /\ written[s] # NoMethod => Becomes(written[s], returns[s])

\* A return type that becomes concrete becomes what its method stands for.
LEMMA ReturnsMean ==
  ASSUME ReturnsOK, NEW s \in Slots, returns[s] # NoMethod
  PROVE  /\ returns[s] \in ReturnTypes /\ written[s] \in ReturnTypes
         /\ \A result : Becomes(returns[s], result) /\ Concrete(result) =>
              result = May[s] /\ May[s] # {}
<1>1. /\ returns[s] \in ReturnTypes /\ written[s] \in ReturnTypes /\ written[s] # NoMethod
      /\ WrittenOK /\ Becomes(written[s], returns[s])
  BY DEF ReturnsOK, WrittenOK
<1>2. MayStand(May, written[s]) = May[s]
  BY <1>1, MeaningsSettle
<1>3. ASSUME NEW result, Becomes(returns[s], result), Concrete(result)
      PROVE  result = May[s] /\ May[s] # {}
  <2>1. Becomes(written[s], result)
    BY <1>1, <1>3, BecomesMore
  <2> QED
    BY <1>1, <1>2, <1>3, <2>1, BecomesConcrete
<1> QED
  BY <1>1, <1>3

-----------------------------------------------------------------------------
\* The evaluation by the depth that is left.
ResolveOver(left, below) ==
  [asked \in Questions |-> IF left = 0 THEN With(asked, asked.type) ELSE Resolve(asked, below)]
ResolveUpTo(n, f) == f = [k \in 0 .. n |-> ResolveOver(k, f[k - 1])]

\* The evaluations up to a depth exist, ...
LEMMA ResolveExist ==
  \A n \in Nat : \E f : ResolveUpTo(n, f)
<1> DEFINE S == {n \in Nat : \E f : ResolveUpTo(n, f)}
<1>1. 0 \in S
  <2> DEFINE f == [k \in 0 .. 0 |-> ResolveOver(0, {})]
  <2>1. \A k \in 0 .. 0 : ResolveOver(k, f[k - 1]) = ResolveOver(0, {})
    <3> SUFFICES ASSUME NEW k \in 0 .. 0 PROVE ResolveOver(k, f[k - 1]) = ResolveOver(0, {})
      OBVIOUS
    <3>1. k = 0
      OBVIOUS
    <3> HIDE DEF f
    <3> QED
      BY <3>1 DEF ResolveOver
  <2>2. ResolveUpTo(0, f)
    BY <2>1 DEF ResolveUpTo
  <2> QED
    BY <2>2
<1>2. ASSUME NEW n \in Nat, n \in S PROVE n + 1 \in S
  <2>1. PICK f : ResolveUpTo(n, f)
    BY <1>2
  <2> DEFINE g == [k \in 0 .. n + 1 |-> IF k <= n THEN f[k] ELSE ResolveOver(k, f[n])]
  <2>2. ASSUME NEW k \in 0 .. n + 1 PROVE g[k] = ResolveOver(k, g[k - 1])
    <3>1. CASE k = 0
      <4>1. g[0] = f[0] /\ f[0] = ResolveOver(0, f[0 - 1])
        BY <2>1 DEF ResolveUpTo
      <4> HIDE DEF g
      <4> QED
        BY <3>1, <4>1 DEF ResolveOver
    <3>2. CASE k \in 1 .. n
      <4>1. g[k] = f[k] /\ g[k - 1] = f[k - 1] /\ f[k] = ResolveOver(k, f[k - 1])
        BY <2>1, <3>2 DEF ResolveUpTo
      <4> QED
        BY <4>1
    <3>3. CASE k = n + 1
      <4>1. g[k] = ResolveOver(k, f[n]) /\ g[k - 1] = f[n]
        BY <3>3
      <4> QED
        BY <4>1
    <3> QED
      BY <3>1, <3>2, <3>3
  <2>3. ResolveUpTo(n + 1, g)
    BY <2>2 DEF ResolveUpTo
  <2> QED
    BY <2>3
<1>3. Nat \subseteq S
  <2> HIDE DEF S
  <2> QED
    BY <1>1, <1>2, FromZeroUp
<1> QED
  BY <1>3

\* ... so resolveGlobalRefs is what its definition says.
LEMMA ResolveAre ==
  ASSUME NEW asked \in Questions
  PROVE  /\ resolveGlobalRefs[0][asked] = With(asked, asked.type)
         /\ \A left \in 1 .. DepthLimit :
              resolveGlobalRefs[left][asked] = Resolve(asked, resolveGlobalRefs[left - 1])
<1>1. DepthLimit \in Nat
  BY ReturnConstants
<1>2. resolveGlobalRefs = CHOOSE f : ResolveUpTo(DepthLimit, f)
  BY DEF resolveGlobalRefs, ResolveUpTo, ResolveOver
<1>3. ResolveUpTo(DepthLimit, resolveGlobalRefs)
  BY <1>1, <1>2, ResolveExist
<1>4. \A left \in 0 .. DepthLimit :
        resolveGlobalRefs[left] = ResolveOver(left, resolveGlobalRefs[left - 1])
  BY <1>3 DEF ResolveUpTo
<1>5. 0 \in 0 .. DepthLimit /\ \A left \in 1 .. DepthLimit : left \in 0 .. DepthLimit /\ left # 0
  BY <1>1
<1>6. resolveGlobalRefs[0][asked] = With(asked, asked.type)
  BY <1>4, <1>5 DEF ResolveOver
<1>7. \A left \in 1 .. DepthLimit :
        resolveGlobalRefs[left][asked] = Resolve(asked, resolveGlobalRefs[left - 1])
  BY <1>4, <1>5 DEF ResolveOver
<1> QED
  BY <1>6, <1>7

\* Types that are asked one after the other.
NextEach(context, types, visiting, all, resolve, i, before) ==
  IF all /\ ~Concrete(before.type) THEN before
  ELSE resolve[Ask(context, types[i], visiting, before)]
EachOver(context, types, visiting, carried, all, resolve, i, before) ==
  IF i = 0 THEN With(carried, {}) ELSE NextEach(context, types, visiting, all, resolve, i, before)
EachUpTo(context, types, visiting, carried, all, resolve, n, f) ==
  f = [i \in 0 .. n |-> EachOver(context, types, visiting, carried, all, resolve, i, f[i - 1])]

\* The answers up to a place exist, ...
LEMMA EachExist ==
  ASSUME NEW context, NEW types, NEW visiting, NEW carried, NEW all, NEW resolve
  PROVE  \A n \in Nat : \E f : EachUpTo(context, types, visiting, carried, all, resolve, n, f)
<1> DEFINE Over(i, before) == EachOver(context, types, visiting, carried, all, resolve, i, before)
           UpTo(n, f) == EachUpTo(context, types, visiting, carried, all, resolve, n, f)
           S == {n \in Nat : \E f : UpTo(n, f)}
<1>1. 0 \in S
  <2> DEFINE f == [k \in 0 .. 0 |-> Over(0, {})]
  <2>1. \A k \in 0 .. 0 : Over(k, f[k - 1]) = Over(0, {})
    <3> SUFFICES ASSUME NEW k \in 0 .. 0 PROVE Over(k, f[k - 1]) = Over(0, {})
      OBVIOUS
    <3>1. k = 0
      OBVIOUS
    <3> HIDE DEF f
    <3> QED
      BY <3>1 DEF EachOver
  <2>2. UpTo(0, f)
    BY <2>1 DEF EachUpTo
  <2> QED
    BY <2>2
<1>2. ASSUME NEW n \in Nat, n \in S PROVE n + 1 \in S
  <2>1. PICK f : UpTo(n, f)
    BY <1>2
  <2> DEFINE g == [k \in 0 .. n + 1 |-> IF k <= n THEN f[k] ELSE Over(k, f[n])]
  <2>2. ASSUME NEW k \in 0 .. n + 1 PROVE g[k] = Over(k, g[k - 1])
    <3>1. CASE k = 0
      <4>1. g[0] = f[0] /\ f[0] = Over(0, f[0 - 1])
        BY <2>1 DEF EachUpTo
      <4> HIDE DEF g
      <4> QED
        BY <3>1, <4>1 DEF EachOver
    <3>2. CASE k \in 1 .. n
      <4>1. g[k] = f[k] /\ g[k - 1] = f[k - 1] /\ f[k] = Over(k, f[k - 1])
        BY <2>1, <3>2 DEF EachUpTo
      <4> QED
        BY <4>1
    <3>3. CASE k = n + 1
      <4>1. g[k] = Over(k, f[n]) /\ g[k - 1] = f[n]
        BY <3>3
      <4> QED
        BY <4>1
    <3> QED
      BY <3>1, <3>2, <3>3
  <2>3. UpTo(n + 1, g)
    BY <2>2 DEF EachUpTo
  <2> QED
    BY <2>3
<1>3. Nat \subseteq S
  <2> HIDE DEF S
  <2> QED
    BY <1>1, <1>2, FromZeroUp
<1> QED
  BY <1>3

\* ... so ResolveEach is what its definition says.
LEMMA EachIs ==
  ASSUME NEW context, NEW types, NEW visiting, NEW carried, NEW all, NEW resolve,
         Len(types) \in Nat
  PROVE  LET answers == ResolveEach(context, types, visiting, carried, all, resolve) IN
         /\ DOMAIN answers = 0 .. Len(types)
         /\ answers[0] = With(carried, {})
         /\ \A i \in 1 .. Len(types) :
              answers[i] = NextEach(context, types, visiting, all, resolve, i, answers[i - 1])
<1> DEFINE n == Len(types)
           f == CHOOSE f : EachUpTo(context, types, visiting, carried, all, resolve, n, f)
<1>1. ResolveEach(context, types, visiting, carried, all, resolve) = f
  BY DEF ResolveEach, EachUpTo, EachOver, NextEach
<1>2. EachUpTo(context, types, visiting, carried, all, resolve, n, f)
  BY EachExist
<1> HIDE DEF f
<1>3. /\ DOMAIN f = 0 .. n
      /\ \A i \in 0 .. n : f[i] = EachOver(context, types, visiting, carried, all, resolve, i, f[i - 1])
  BY <1>2 DEF EachUpTo
<1>4. f[0] = With(carried, {})
  BY <1>3 DEF EachOver
<1>5. ASSUME NEW i \in 1 .. n
      PROVE  f[i] = NextEach(context, types, visiting, all, resolve, i, f[i - 1])
  <2>1. i \in 0 .. n /\ i # 0
    OBVIOUS
  <2> QED
    BY <1>3, <2>1 DEF EachOver
<1> QED
  BY <1>1, <1>3, <1>4, <1>5

-----------------------------------------------------------------------------
\* What is remembered is concrete, and what the type asked for stands for.
Sound(memo) == \A entry \in memo : Becomes(entry[2], entry[3]) /\ Concrete(entry[3])

GoodAnswer(asked, answer) ==
  answer \in Answers /\ Sound(answer.memo) /\ Becomes(asked.type, answer.type)

Good(resolve) ==
  \A asked \in Questions : Sound(asked.memo) => GoodAnswer(asked, resolve[asked])

\* What an evaluation starts from.
Carries(carried) == carried.reads \subseteq Slots /\ carried.memo \in Memos /\ Sound(carried.memo)

\* An answer with another type.
LEMMA WithIs ==
  ASSUME NEW carried, NEW ty
  PROVE  /\ With(carried, ty).type = ty
         /\ Carries(carried) => Carries(With(carried, ty))
         /\ Carries(carried) /\ ty \in ReturnTypes => With(carried, ty) \in Answers
BY DEF With, Carries, Answers

\* A question with what is carried along.
LEMMA AskIs ==
  ASSUME NEW context \in Owners, NEW ty \in ReturnTypes, NEW visiting \in SUBSET Slots,
         NEW carried, Carries(carried)
  PROVE  /\ Ask(context, ty, visiting, carried) \in Questions
         /\ Ask(context, ty, visiting, carried).type = ty
         /\ Ask(context, ty, visiting, carried).memo = carried.memo
BY DEF Ask, Questions, Carries

\* The parts of an answer.
LEMMA AnswerIs ==
  ASSUME NEW answer \in Answers
  PROVE  /\ answer.type \in ReturnTypes /\ answer.reads \subseteq Slots /\ answer.memo \in Memos
         /\ Carries(answer) <=> Sound(answer.memo)
BY DEF Answers, Carries

\* The parts of a question.
LEMMA QuestionIs ==
  ASSUME NEW asked \in Questions
  PROVE  /\ asked.type \in ReturnTypes /\ asked.reads \subseteq Slots /\ asked.memo \in Memos
         /\ asked.context \in Owners /\ asked.visiting \in SUBSET Slots
         /\ Sound(asked.memo) => Carries(asked)
BY DEF Questions, Carries

\* To read a slot leaves the memo as it is.
LEMMA ReadingIs ==
  ASSUME NEW carried \in Questions \union Answers, Carries(carried), NEW slot \in Slots
  PROVE  Carries(Reading(carried, slot))
<1>1. /\ Reading(carried, slot).reads = carried.reads \union {slot}
      /\ Reading(carried, slot).memo = carried.memo
  BY DEF Reading, Questions, Answers
<1> QED
  BY <1>1 DEF Carries

\* An evaluation that is good where it is asked.
LEMMA AskGood ==
  ASSUME NEW resolve, Good(resolve), NEW context \in Owners, NEW ty \in ReturnTypes,
         NEW visiting \in SUBSET Slots, NEW carried, Carries(carried)
  PROVE  LET found == resolve[Ask(context, ty, visiting, carried)] IN
         found \in Answers /\ Becomes(ty, found.type) /\ Carries(found)
<1> DEFINE q == Ask(context, ty, visiting, carried)
           found == resolve[q]
<1>1. q \in Questions /\ q.type = ty /\ q.memo = carried.memo
  BY AskIs
<1>2. Sound(q.memo)
  BY <1>1 DEF Carries
<1> HIDE DEF q
<1>3. GoodAnswer(q, found)
  BY <1>1, <1>2 DEF Good
<1>4. found \in Answers /\ Becomes(ty, found.type) /\ Carries(found)
  BY <1>1, <1>3, AnswerIs DEF GoodAnswer
<1> QED
  BY <1>4 DEF q

\* The return type of a method is asked for, wherever it is.
LEMMA ReturnOfGood ==
  ASSUME ReturnsOK, NEW resolve, Good(resolve), NEW slot \in Slots, returns[slot] # NoMethod,
         NEW visiting \in SUBSET Slots, NEW carried \in Questions \union Answers, Carries(carried)
  PROVE  LET found == ReturnOf(slot, visiting, carried, resolve) IN
         /\ found \in Answers /\ Carries(found)
         /\ Concrete(found.type) => found.type = May[slot] /\ May[slot] # {}
<1> DEFINE reading == Reading(carried, slot)
           found == resolve[Ask(slot[1], returns[slot], visiting, reading)]
<1>0. ReturnOf(slot, visiting, carried, resolve) = found
  BY DEF ReturnOf
<1>1. /\ slot[1] \in Owners /\ returns[slot] \in ReturnTypes
      /\ \A result : Becomes(returns[slot], result) /\ Concrete(result) =>
           result = May[slot] /\ May[slot] # {}
  BY ReturnsMean DEF Slots
<1>2. Carries(reading)
  BY ReadingIs
<1> HIDE DEF reading
<1>3. found \in Answers /\ Becomes(returns[slot], found.type) /\ Carries(found)
  BY <1>1, <1>2, AskGood
<1> HIDE DEF found
<1> QED
  BY <1>0, <1>1, <1>3

-----------------------------------------------------------------------------
\* One reference ends as what it stands for, or as itself.
LEMMA OrItselfGood ==
  ASSUME WrittenOK, NEW alternative \in Alternatives, IsRef(alternative),
         NEW found \in Answers, Carries(found),
         Concrete(found.type) => found.type = Means(alternative) /\ Means(alternative) # {}
  PROVE  LET answer == OrItself(found, alternative) IN
         answer \in Answers /\ Carries(answer) /\ Becomes({alternative}, answer.type)
<1>1. {alternative} \in ReturnTypes
  BY TypesHave
<1>2. CASE Concrete(found.type)
  BY <1>2, BecomesWhole DEF OrItself
<1>3. CASE ~Concrete(found.type)
  BY <1>1, <1>3, WithIs, BecomesSelf DEF OrItself
<1> QED
  BY <1>2, <1>3

\* A reference to a method becomes what it may, if the evaluations inside do.
LEMMA RefGood ==
  ASSUME ReturnsOK, NEW resolve, Good(resolve), NEW ref \in Refs,
         NEW visiting \in SUBSET Slots, NEW carried \in Questions, Carries(carried)
  PROVE  LET answer == ResolveRef(ref, visiting, carried, resolve) IN
         answer \in Answers /\ Carries(answer) /\ Becomes({ref}, answer.type)
<1> DEFINE slot == SlotOf(ref)
           answer == ResolveRef(ref, visiting, carried, resolve)
           found == ReturnOf(slot, visiting \union {slot}, carried, resolve)
<1>1. slot \in Slots /\ {ref} \in ReturnTypes /\ ref \in Alternatives /\ IsRef(ref)
  BY TypesHave, AlternativesHave DEF Refs, IsRef, SlotOf, Slots
<1>2. answer = IF slot \in visiting THEN With(Reading(carried, slot), {ref})
               ELSE IF returns[slot] = NoMethod THEN With(carried, {ref})
               ELSE OrItself(found, ref)
  BY DEF ResolveRef, SlotOf
<1>3. Carries(Reading(carried, slot))
  BY <1>1, ReadingIs
<1>4. WrittenOK /\ May \in Maps
  BY MeaningsLast DEF ReturnsOK
<1>5. Means(ref) = May[slot]
  BY <1>1, <1>4, StandsForEach DEF Means
<1> HIDE DEF slot, answer, found
<1>6. CASE slot \in visiting
  BY <1>1, <1>2, <1>3, <1>6, WithIs, BecomesSelf DEF answer
<1>7. CASE slot \notin visiting /\ returns[slot] = NoMethod
  BY <1>1, <1>2, <1>7, WithIs, BecomesSelf DEF answer
<1>8. CASE slot \notin visiting /\ returns[slot] # NoMethod
  <2>1. /\ found \in Answers /\ Carries(found)
        /\ Concrete(found.type) => found.type = May[slot] /\ May[slot] # {}
    BY <1>1, <1>8, ReturnOfGood DEF found
  <2>2. answer = OrItself(found, ref)
    BY <1>2, <1>8
  <2>3. /\ OrItself(found, ref) \in Answers /\ Carries(OrItself(found, ref))
        /\ Becomes({ref}, OrItself(found, ref).type)
    BY <1>1, <1>4, <1>5, <2>1, OrItselfGood
  <2> QED
    BY <2>2, <2>3 DEF answer
<1> QED
  BY <1>6, <1>7, <1>8

-----------------------------------------------------------------------------
\* Types one after the other, each asked for with what the one before has left; where all have
\* to be concrete, an answer that is not is also the answer to those behind it.
Answered(types, all, n, answers) ==
  /\ DOMAIN answers = 0 .. n
  /\ answers[0].type = {}
  /\ \A i \in 1 .. n :
       /\ answers[i] \in Answers /\ Carries(answers[i])
       /\ IF all /\ ~Concrete(answers[i - 1].type) THEN answers[i] = answers[i - 1]
          ELSE Becomes(types[i], answers[i].type)

\* So do types one after the other, ...
LEMMA EachGood ==
  ASSUME NEW resolve, Good(resolve), NEW context \in Owners, NEW visiting \in SUBSET Slots,
         NEW n \in Nat, NEW types \in [1 .. n -> ReturnTypes],
         NEW carried, Carries(carried), NEW all \in BOOLEAN
  PROVE  Answered(types, all, n, ResolveEach(context, types, visiting, carried, all, resolve))
<1> DEFINE answers == ResolveEach(context, types, visiting, carried, all, resolve)
           OK(i) == /\ Carries(answers[i])
                    /\ i # 0 => answers[i] \in Answers
                    /\ i # 0 => IF all /\ ~Concrete(answers[i - 1].type)
                                THEN answers[i] = answers[i - 1]
                                ELSE Becomes(types[i], answers[i].type)
           S == {i \in 0 .. n : OK(i)}
<1>1. types \in Seq(ReturnTypes) /\ Len(types) = n
  OBVIOUS
<1>2. /\ DOMAIN answers = 0 .. n /\ answers[0] = With(carried, {})
      /\ \A i \in 1 .. n :
           answers[i] = NextEach(context, types, visiting, all, resolve, i, answers[i - 1])
  BY <1>1, EachIs
<1> HIDE DEF answers
<1>3. answers[0].type = {} /\ OK(0)
  BY <1>2, WithIs
<1>4. ASSUME NEW i \in 1 .. n, OK(i - 1) PROVE OK(i)
  <2> DEFINE before == answers[i - 1]
             this == resolve[Ask(context, types[i], visiting, before)]
  <2>1. answers[i] = IF all /\ ~Concrete(before.type) THEN before ELSE this
    BY <1>2 DEF NextEach
  <2>2. Carries(before) /\ types[i] \in ReturnTypes
    BY <1>4
  <2>3. this \in Answers /\ Becomes(types[i], this.type) /\ Carries(this)
    BY <2>2, AskGood
  <2>4. CASE all /\ ~Concrete(before.type)
    <3>1. i - 1 # 0
      BY <1>3, <2>4 DEF Concrete
    <3>2. before \in Answers
      BY <1>4, <3>1
    <3> HIDE DEF before, this
    <3>3. answers[i] = before
      BY <2>1, <2>4
    <3> QED
      BY <2>2, <2>4, <3>2, <3>3 DEF before
  <2>5. CASE ~(all /\ ~Concrete(before.type))
    <3> HIDE DEF before, this
    <3>1. answers[i] = this
      BY <2>1, <2>5
    <3> QED
      BY <2>3, <2>5, <3>1 DEF before
  <2> QED
    BY <2>4, <2>5
<1> HIDE DEF OK
<1>5. 0 .. n \subseteq S
  <2>1. 0 \in S
    BY <1>3
  <2>2. \A i \in 1 .. n : i - 1 \in S => i \in S
    BY <1>4
  <2> HIDE DEF S
  <2> QED
    BY <2>1, <2>2, UpToBound
<1>6. \A i \in 1 .. n : i \in 0 .. n /\ i # 0 /\ OK(i)
  BY <1>5
<1>7. Answered(types, all, n, answers)
  BY <1>2, <1>3, <1>6 DEF Answered, OK
<1> QED
  BY <1>7 DEF answers

\* A type that is one reference becomes what it stands for, or untyped, or stays.
LEMMA OneBecomes ==
  ASSUME NEW a, NEW result, Becomes({a}, result)
  PROVE  \/ result = {a} \/ result = {UntypedReturn}
         \/ IsRef(a) /\ a # UntypedReturn /\ Means(a) # {} /\ result = Means(a)
<1>1. CASE result = {a} \/ result = {UntypedReturn}
  BY <1>1
<1>2. ASSUME NEW kept \in SUBSET Rest({a}), Splits(kept, result, {a})
      PROVE  IsRef(a) /\ a # UntypedReturn /\ Means(a) # {} /\ result = Means(a)
  <2>1. PICK b \in Rest({a}) \ kept : b[1] \in {"ref", "call"}
    BY <1>2 DEF Splits, ContainsRef
  <2>2. b = a /\ a # UntypedReturn /\ kept = {} /\ Rest({a}) \ kept = {a}
    BY <2>1 DEF Rest
  <2>3. UNION {Means(c) : c \in {a}} = Means(a)
    OBVIOUS
  <2> QED
    BY <1>2, <2>1, <2>2, <2>3 DEF Splits, IsRef
<1> QED
  BY <1>1, <1>2 DEF Becomes

-----------------------------------------------------------------------------
\* A call on a type stands for what the calls on each of its alternatives do.
LEMMA CallMeans ==
  ASSUME WrittenOK, NEW call \in Alternatives, call[1] = "call",
         NEW receiver \in ReturnTypes, Becomes(call[2], receiver),
         \A x \in receiver : /\ ReceiverMethodRef({x}, call[3]) \in Alternatives
                             /\ Means(ReceiverMethodRef({x}, call[3])) # {}
  PROVE  Means(call) = UNION {Means(ReceiverMethodRef({x}, call[3])) : x \in receiver}
<1> DEFINE m == call[3]
           Of(x) == Means(ReceiverMethodRef({x}, m))
           Return(c) == May[<<c[2], m>>]
           whole == MayStand(May, call[2])
<1>1. May \in Maps /\ call[2] \in ReturnTypes
  BY MeaningsLast, AlternativesHave, ClassesAre, UntypedIs
<1>2. Means(call) = All({Return(c) : c \in whole})
  BY <1>1, StandsForEach DEF Means
<1>3. ASSUME NEW x \in receiver PROVE Of(x) = All({Return(c) : c \in Means(x)})
  <2> DEFINE each == ReceiverMethodRef({x}, m)
  <2>1. each \in Alternatives /\ each[1] = "call" /\ each[2] = {x} /\ each[3] = m
    BY DEF ReceiverMethodRef
  <2> HIDE DEF each, m
  <2>2. Stands(May, each) = All({May[<<c[2], each[3]>>] : c \in MayStand(May, each[2])})
    BY <1>1, <2>1, StandsForEach
  <2>3. Stands(May, each) = All({May[<<c[2], m>>] : c \in MayStand(May, {x})})
    BY <2>1, <2>2
  <2> QED
    BY <2>3 DEF Means, Stands, each, m
<1>4. ASSUME NEW x \in receiver
      PROVE  /\ Means(x) # {} /\ Of(x) = UNION {Return(c) : c \in Means(x)}
             /\ \A c \in Means(x) : Return(c) # {}
  <2>1. Of(x) # {}
    OBVIOUS
  <2> HIDE DEF Of, Return
  <2> QED
    BY <1>3, <2>1 DEF All
<1>5. whole = UNION {Means(x) : x \in receiver} /\ whole # {}
  BY <1>1, <1>4, BecomesKnown
<1>6. \A c \in whole : Return(c) # {}
  BY <1>4, <1>5
<1>7. Means(call) = UNION {Return(c) : c \in whole}
  <2> HIDE DEF Return, whole
  <2> QED
    BY <1>2, <1>6 DEF All
<1>8. UNION {Return(c) : c \in whole} = UNION {Of(x) : x \in receiver}
  <2> HIDE DEF Return, whole, Of
  <2>1. \A y \in UNION {Return(c) : c \in whole} : y \in UNION {Of(x) : x \in receiver}
    BY <1>4, <1>5
  <2>2. \A y \in UNION {Of(x) : x \in receiver} : y \in UNION {Return(c) : c \in whole}
    BY <1>4, <1>5
  <2> QED
    BY <2>1, <2>2
<1> QED
  BY <1>7, <1>8

\* A call on an alternative of a receiver, as found, is an alternative.
LEMMA CallsHave ==
  ASSUME WrittenOK, NEW call \in Alternatives, call[1] = "call",
         NEW receiver, Becomes(call[2], receiver)
  PROVE  /\ call[2] \in ReturnTypes /\ receiver \in ReturnTypes /\ {call} \in ReturnTypes
         /\ \A x \in receiver : ReceiverMethodRef({x}, call[3]) \in Alternatives
         /\ \A c \in Classes : <<c[2], call[3]>> \in Slots
<1> DEFINE n == MaxNesting - 1
<1>1. /\ MaxNesting # 0 /\ call[2] \in ReturnsAt(n) /\ call[3] \in Methods
      /\ MaxNesting \in Nestings
  BY AlternativeCases, NestingsAre, ClassesAre DEF Alternatives
<1>2. n \in Nestings
  BY <1>1, NestingsAre
<1>3. call[2] \in ReturnTypes
  BY <1>1, <1>2, ReturnsGrow
<1>4. receiver \in ReturnTypes
  BY <1>3, BecomesType
<1>5. receiver \subseteq call[2] \union Classes \union {UntypedReturn}
  <2>1. ASSUME NEW kept \in SUBSET Rest(call[2]), Splits(kept, receiver, call[2])
        PROVE  receiver \subseteq call[2] \union Classes
    <3>1. receiver = kept \union UNION {Means(a) : a \in Rest(call[2]) \ kept}
      BY <2>1 DEF Splits
    <3>2. \A a \in Rest(call[2]) \ kept : Means(a) \subseteq Classes
      BY <1>3, <2>1, SplitsType
    <3> QED
      BY <3>1, <3>2 DEF Rest
  <2> QED
    BY <2>1 DEF Becomes
<1>6. receiver \subseteq alternativesAt[n]
  BY <1>1, <1>2, <1>5, AlternativesBuilt, AlternativesAre DEF ReturnsAt, AlternativesOver
<1>7. \A x \in receiver : {x} \in ReturnsAt(n)
  BY <1>6 DEF ReturnsAt
<1>8. \A x \in receiver : ReceiverMethodRef({x}, call[3]) \in Alternatives
  BY <1>1, <1>7, AlternativesBuilt DEF Alternatives
<1> QED
  BY <1>1, <1>3, <1>4, <1>8, TypesHave, ClassesAre

\* The calls on the members of a receiver, one after the other, until one is not concrete:
\* together they are what the call stands for, or too many.
LEMMA MembersGood ==
  ASSUME ReturnsOK, NEW resolve, Good(resolve), NEW call \in Alternatives, call[1] = "call",
         NEW context \in Owners, NEW visiting \in SUBSET Slots,
         NEW receiver \in Answers, Carries(receiver), Becomes(call[2], receiver.type)
  PROVE  LET members == Listed(receiver.type)
             calls == [i \in DOMAIN members |-> {ReceiverMethodRef({members[i]}, call[3])}]
             answers == ResolveEach(context, calls, visiting, receiver, TRUE, resolve)
             last == answers[Len(members)]
         IN /\ last \in Answers /\ Carries(last)
            /\ Concrete(last.type) => /\ Means(call) # {}
                                      /\ Together(answers) = MadeOne(Means(call))
<1> DEFINE R == receiver.type
           members == Listed(R)
           n == Cardinality(R)
           At(i) == ReceiverMethodRef({members[i]}, call[3])
           calls == [i \in 1 .. n |-> {At(i)}]
           yes == TRUE
           answers == ResolveEach(context, calls, visiting, receiver, yes, resolve)
<1>1. WrittenOK
  BY DEF ReturnsOK
<1>2. R \in ReturnTypes /\ \A x \in R : ReceiverMethodRef({x}, call[3]) \in Alternatives
  BY <1>1, CallsHave
<1>3. /\ n \in Nat /\ n # 0 /\ DOMAIN members = 1 .. n /\ R = {members[i] : i \in 1 .. n}
      /\ Len(members) = n
  <2>1. /\ n \in Nat /\ DOMAIN members = 1 .. n /\ R = {members[i] : i \in 1 .. n}
        /\ Len(members) = n
    BY <1>2, ListedIs, ReturnsFinite
  <2>2. R # {}
    BY <1>2, TypesHave
  <2> QED
    BY <2>1, <2>2
<1>4. \A i \in 1 .. n : members[i] \in R /\ At(i) \in Alternatives /\ {At(i)} \in ReturnTypes
  BY <1>2, <1>3, TypesHave
<1> HIDE DEF members, R, n, At
<1>5. calls \in [1 .. n -> ReturnTypes] /\ \A i \in 1 .. n : calls[i] = {At(i)}
  BY <1>4
<1> HIDE DEF calls, yes
<1>6. Answered(calls, yes, n, answers)
  BY <1>3, <1>5, EachGood DEF yes
<1> HIDE DEF answers
<1> DEFINE OK(i) == Concrete(answers[i].type) =>
                      \A j \in 1 .. i : answers[j].type = Means(At(j)) /\ Means(At(j)) # {}
           S == {i \in 0 .. n : OK(i)}
<1>7. OK(0)
  OBVIOUS
<1>8. ASSUME NEW i \in 1 .. n, OK(i - 1) PROVE OK(i)
  <2> SUFFICES ASSUME Concrete(answers[i].type)
               PROVE  \A j \in 1 .. i : answers[j].type = Means(At(j)) /\ Means(At(j)) # {}
    OBVIOUS
  <2>1. IF ~Concrete(answers[i - 1].type) THEN answers[i] = answers[i - 1]
        ELSE Becomes(calls[i], answers[i].type)
    BY <1>6 DEF Answered, yes
  <2>2. Concrete(answers[i - 1].type) /\ Becomes({At(i)}, answers[i].type)
    <3>1. Concrete(answers[i - 1].type)
      BY <2>1
    <3> QED
      BY <1>5, <2>1, <3>1
  <2>3. answers[i].type = MayStand(May, {At(i)}) /\ answers[i].type # {}
    BY <1>1, <1>4, <2>2, BecomesConcrete
  <2>4. answers[i].type = Means(At(i)) /\ Means(At(i)) # {}
    BY <2>3 DEF Means, Stands
  <2>5. \A j \in 1 .. i : j = i \/ j \in 1 .. (i - 1)
    OBVIOUS
  <2> QED
    BY <1>8, <2>2, <2>4, <2>5
<1>9. OK(n)
  <2> HIDE DEF OK
  <2>1. 0 \in S
    BY <1>3, <1>7
  <2>2. \A i \in 1 .. n : i - 1 \in S => i \in S
    BY <1>3, <1>8
  <2> HIDE DEF S
  <2>3. 0 .. n \subseteq S
    BY <1>3, <2>1, <2>2, UpToBound
  <2> QED
    BY <1>3, <2>3 DEF S
<1>10. n \in 1 .. n /\ answers[n] \in Answers /\ Carries(answers[n])
  BY <1>3, <1>6 DEF Answered
<1>11. ASSUME Concrete(answers[n].type)
       PROVE  Means(call) # {} /\ Together(answers) = MadeOne(Means(call))
  <2> DEFINE Of(x) == Means(ReceiverMethodRef({x}, call[3]))
  <2>1. \A j \in 1 .. n : answers[j].type = Means(At(j)) /\ Means(At(j)) # {}
    BY <1>9, <1>11
  <2>2. \A j \in 1 .. n : Means(At(j)) = Of(members[j])
    BY DEF At
  <2> HIDE DEF Of
  <2>3. \A x \in R : Of(x) # {}
    BY <1>3, <2>1, <2>2
  <2>4. UNION {answers[i].type : i \in DOMAIN answers} = UNION {Of(x) : x \in R}
    <3>1. DOMAIN answers = 0 .. n /\ answers[0].type = {}
      BY <1>6 DEF Answered
    <3>2. \A i \in 0 .. n : i = 0 \/ i \in 1 .. n
      BY <1>3
    <3>3. \A i \in 1 .. n : i \in 0 .. n /\ answers[i].type = Of(members[i]) /\ members[i] \in R
      BY <1>3, <2>1, <2>2
    <3>4. \A x \in R : \E i \in 1 .. n : x = members[i]
      BY <1>3
    <3>5. \A i \in DOMAIN answers : \A y \in answers[i].type : \E x \in R : y \in Of(x)
      BY <3>1, <3>2, <3>3
    <3>6. \A x \in R : \E i \in DOMAIN answers : Of(x) = answers[i].type
      BY <3>1, <3>3, <3>4
    <3> QED
      BY <3>5, <3>6
  <2>5. Means(call) = UNION {Of(x) : x \in R}
    BY <1>1, <1>2, <2>3, CallMeans DEF Of, R
  <2>6. R # {}
    BY <1>2, TypesHave
  <2>7. Means(call) # {}
    BY <2>3, <2>5, <2>6
  <2> QED
    BY <2>4, <2>5, <2>7 DEF Together
<1> QED
  BY <1>3, <1>10, <1>11 DEF answers, yes, calls, members, R, n, At

\* What is made one of known classes.
LEMMA MadeOfKnown ==
  ASSUME NEW parts, parts \subseteq Classes
  PROVE  \/ MadeOne(parts) = parts
         \/ MadeOne(parts) = {UntypedReturn} /\ Cardinality(parts) > MaxAlternatives
<1>1. UntypedReturn \notin parts /\ parts \ {UntypedReturn} = parts
  BY UntypedIs
<1> QED
  BY <1>1 DEF MadeOne

\* ... a call on a receiver, ...
LEMMA CallGood ==
  ASSUME ReturnsOK, NEW resolve, Good(resolve), NEW call \in Alternatives, call[1] = "call",
         NEW context \in Owners, NEW visiting \in SUBSET Slots, NEW carried, Carries(carried)
  PROVE  LET answer == ResolveCall(context, call, visiting, carried, resolve) IN
         answer \in Answers /\ Carries(answer) /\ Becomes({call}, answer.type)
<1> DEFINE receiver == resolve[Ask(context, call[2], visiting, carried)]
           members == Listed(receiver.type)
           calls == [i \in DOMAIN members |-> {ReceiverMethodRef({members[i]}, call[3])}]
           answers == ResolveEach(context, calls, visiting, receiver, TRUE, resolve)
           last == answers[Len(members)]
           slot == <<members[1][2], call[3]>>
           found == ReturnOf(slot, visiting, receiver, resolve)
           answer == ResolveCall(context, call, visiting, carried, resolve)
<1>1. answer = IF Cardinality(receiver.type) > 1
               THEN With(last, IF Concrete(last.type) THEN Together(answers) ELSE {call})
               ELSE IF Concrete(receiver.type) /\ returns[slot] # NoMethod
               THEN OrItself(found, call) ELSE With(receiver, {call})
  BY DEF ResolveCall
<1>2. WrittenOK /\ May \in Maps /\ IsRef(call)
  BY MeaningsLast DEF ReturnsOK, IsRef
<1>3. call[2] \in ReturnTypes
  BY AlternativesHave, ClassesAre, UntypedIs
<1>4. receiver \in Answers /\ Carries(receiver) /\ Becomes(call[2], receiver.type)
  BY <1>3, AskGood
<1>5. /\ last \in Answers /\ Carries(last)
      /\ Concrete(last.type) => Means(call) # {} /\ Together(answers) = MadeOne(Means(call))
  <2> HIDE DEF receiver
  <2> QED
    BY <1>4, MembersGood
<1> HIDE DEF receiver, answers, last, slot, found, answer
<1>6. /\ receiver.type \in ReturnTypes /\ {call} \in ReturnTypes
      /\ \A c \in Classes : <<c[2], call[3]>> \in Slots
  BY <1>2, <1>4, CallsHave
<1>7. CASE Cardinality(receiver.type) > 1
  <2>1. ASSUME Concrete(last.type) PROVE Becomes({call}, Together(answers))
    <3>1. Means(call) \subseteq Classes
      BY <1>2, MeansAre
    <3> QED
      BY <1>2, <1>5, <2>1, <3>1, MadeOfKnown, BecomesWhole, BecomesLost
  <2> DEFINE ty == IF Concrete(last.type) THEN Together(answers) ELSE {call}
  <2>2. Becomes({call}, ty)
    BY <2>1, BecomesSelf
  <2>3. ty \in ReturnTypes
    BY <1>2, <1>6, <2>2, BecomesType
  <2>4. answer = With(last, ty)
    BY <1>1, <1>7
  <2> HIDE DEF ty
  <2> QED
    BY <1>5, <2>2, <2>3, <2>4, WithIs DEF answer
<1>8. CASE ~(Cardinality(receiver.type) > 1) /\ Concrete(receiver.type) /\ returns[slot] # NoMethod
  <2>1. answer = OrItself(found, call)
    BY <1>1, <1>8
  <2>2. receiver.type = {members[1]} /\ members[1] \in Classes
    <3>1. Cardinality(receiver.type) \in Nat /\ receiver.type # {} /\ IsFiniteSet(receiver.type)
      BY <1>6, ReturnsFinite, TypesHave
    <3>2. Cardinality(receiver.type) = 1
      BY <1>8, <3>1, FS_EmptySet
    <3>3. receiver.type = {members[i] : i \in 1 .. 1}
      BY <1>6, <3>2, ListedIs
    <3>4. receiver.type = {members[1]}
      BY <3>3
    <3> HIDE DEF members
    <3> QED
      BY <1>6, <1>8, <3>4, ConcreteIs
  <2>3. slot \in Slots
    BY <1>6, <2>2 DEF slot
  <2>4. /\ found \in Answers /\ Carries(found)
        /\ Concrete(found.type) => found.type = May[slot] /\ May[slot] # {}
    BY <1>4, <1>8, <2>3, ReturnOfGood DEF found
  <2>5. Means(call) = May[slot]
    <3>1. MayStand(May, call[2]) = {members[1]}
      BY <1>2, <1>3, <1>4, <1>8, <2>2, BecomesConcrete
    <3>2. Means(call) = All({May[<<c[2], call[3]>>] : c \in MayStand(May, call[2])})
      BY <1>2, StandsForEach DEF Means
    <3>3. {May[<<c[2], call[3]>>] : c \in MayStand(May, call[2])} = {May[slot]}
      BY <3>1 DEF slot
    <3>4. UNION {May[slot]} = May[slot]
      OBVIOUS
    <3> QED
      BY <3>2, <3>3, <3>4 DEF All
  <2>6. /\ OrItself(found, call) \in Answers /\ Carries(OrItself(found, call))
        /\ Becomes({call}, OrItself(found, call).type)
    BY <1>2, <2>4, <2>5, OrItselfGood
  <2> QED
    BY <2>1, <2>6 DEF answer
<1>9. CASE ~(Cardinality(receiver.type) > 1) /\ ~(Concrete(receiver.type) /\ returns[slot] # NoMethod)
  <2>1. answer = With(receiver, {call})
    BY <1>1, <1>9
  <2> QED
    BY <1>4, <1>6, <2>1, WithIs, BecomesSelf DEF answer
<1> QED
  BY <1>7, <1>8, <1>9

-----------------------------------------------------------------------------
\* Of the references of a union some are replaced, and what there is then is made one.
LEMMA MadeGood ==
  ASSUME WrittenOK, NEW ty \in ReturnTypes, NEW gone \in SUBSET ty, gone # {},
         \A a \in gone : IsRef(a) /\ Means(a) # {}
  PROVE  Becomes(ty, MadeOne((ty \ gone) \union UNION {Means(a) : a \in gone}))
<1> DEFINE found == UNION {Means(a) : a \in gone}
           parts == (ty \ gone) \union found
           kept == Rest(ty) \ gone
<1>1. ty \subseteq Alternatives /\ ContainsRef(ty) /\ UntypedReturn \notin gone
  BY TypesHave, UntypedIs DEF ContainsRef, IsRef
<1>2. \A a \in gone : Means(a) \subseteq Classes
  BY <1>1, MeansAre
<1>3. found \subseteq Classes /\ found # {} /\ UntypedReturn \notin found
  BY <1>2, UntypedIs
<1>4. CASE Cardinality(parts) > MaxAlternatives
  <2>1. MadeOne(parts) = {UntypedReturn}
    BY <1>4 DEF MadeOne
  <2>2. ty \ gone \in (SUBSET ty) \ {ty} /\ ty \ (ty \ gone) = gone
    OBVIOUS
  <2>3. Cardinality((ty \ gone) \union UNION {Means(a) : a \in ty \ (ty \ gone)}) > MaxAlternatives
    BY <1>4, <2>2
  <2>4. MayLost(ty)
    BY <1>1, <2>2, <2>3 DEF MayLost
  <2> QED
    BY <2>1, <2>4 DEF Becomes
<1>5. CASE /\ ~(Cardinality(parts) > MaxAlternatives)
           /\ UntypedReturn \in parts /\ parts \ {UntypedReturn} \subseteq {NilReturn}
  <2>1. MadeOne(parts) = {UntypedReturn}
    BY <1>5 DEF MadeOne
  <2>2. UntypedReturn \in ty /\ found = {NilReturn}
    BY <1>3, <1>5
  <2>3. NilReturn \in Classes /\ Means(NilReturn) = {NilReturn}
    BY <1>3, <2>2, MeansAre
  <2>4. \A a \in Rest(ty) : Means(a) = {NilReturn}
    <3>1. \A a \in gone : Means(a) = {NilReturn}
      BY <2>2
    <3>2. \A a \in Rest(ty) \ gone : a = NilReturn
      BY <1>5 DEF Rest
    <3> QED
      BY <2>3, <3>1, <3>2
  <2>5. Rest(ty) # {}
    BY <1>1 DEF Rest
  <2>6. MayStand(May, ty) = UNION {Means(a) : a \in Rest(ty)}
    BY <1>1, <2>4, MeansAre DEF Silent
  <2>7. MayStand(May, ty) = {NilReturn}
    BY <2>4, <2>5, <2>6
  <2>8. MayLost(ty)
    BY <1>1, <2>2, <2>7 DEF MayLost
  <2> QED
    BY <2>1, <2>8 DEF Becomes
<1>6. CASE /\ ~(Cardinality(parts) > MaxAlternatives)
           /\ ~(UntypedReturn \in parts /\ parts \ {UntypedReturn} \subseteq {NilReturn})
  <2>1. MadeOne(parts) = parts \ {UntypedReturn}
    BY <1>6 DEF MadeOne
  <2>2. Rest(ty) \ kept = gone /\ parts \ {UntypedReturn} = kept \union found
    BY <1>1, <1>3 DEF Rest
  <2>3. ContainsRef(gone)
    BY DEF ContainsRef, IsRef
  <2>4. UntypedReturn \in ty => UntypedReturn \in parts
    BY <1>1
  <2>5. UntypedReturn \in ty => parts \ {UntypedReturn} # {NilReturn}
    BY <1>6, <2>4
  <2> HIDE DEF parts, kept
  <2>6. Splits(kept, parts \ {UntypedReturn}, ty)
    BY <2>2, <2>3, <2>5 DEF Splits
  <2>7. kept \in SUBSET Rest(ty)
    BY DEF kept
  <2>8. Becomes(ty, MadeOne(parts))
    BY <2>1, <2>6, <2>7 DEF Becomes
  <2> QED
    BY <2>8 DEF parts
<1> QED
  BY <1>4, <1>5, <1>6

\* ... a union, ...
LEMMA UnionGood ==
  ASSUME ReturnsOK, NEW resolve, Good(resolve), NEW ty \in ReturnTypes,
         NEW context \in Owners, NEW visiting \in SUBSET Slots, NEW carried, Carries(carried)
  PROVE  LET answer == ResolveUnion(context, ty, visiting, carried, resolve) IN
         answer \in Answers /\ Carries(answer) /\ Becomes(ty, answer.type)
<1> DEFINE parts == Listed(ty)
           n == Cardinality(ty)
           no == FALSE
           calls == [i \in 1 .. n |-> {parts[i]}]
           answers == ResolveEach(context, calls, visiting, carried, no, resolve)
           noProgress ==
             \/ \A i \in 1 .. n : answers[i].type = {parts[i]}
             \/ \E i \in 1 .. n :
                  answers[i].type = {UntypedReturn} /\ parts[i] # UntypedReturn
           answer == ResolveUnion(context, ty, visiting, carried, resolve)
<1>0. WrittenOK
  BY DEF ReturnsOK
<1>1. /\ n \in Nat /\ DOMAIN parts = 1 .. n /\ ty = {parts[i] : i \in 1 .. n} /\ Len(parts) = n
      /\ \A i, j \in 1 .. n : parts[i] = parts[j] => i = j
      /\ ty # {}
  BY ListedIs, ReturnsFinite, TypesHave
<1>2. answer = With(answers[n], IF noProgress THEN ty ELSE Together(answers))
  BY <1>1 DEF ResolveUnion
<1> HIDE DEF parts, n, no
<1>3. n \in Nat /\ calls \in [1 .. n -> ReturnTypes] /\ no \in BOOLEAN
  <2>1. \A i \in 1 .. n : {parts[i]} \in ReturnTypes
    BY <1>1, TypesHave
  <2> QED
    BY <1>1, <2>1 DEF no
<1>4. \A i \in 1 .. n : calls[i] = {parts[i]}
  OBVIOUS
<1> HIDE DEF calls
<1>5. Answered(calls, no, n, answers)
  BY <1>3, EachGood
<1> HIDE DEF answers, answer
<1>6. n \in 1 .. n /\ answers[n] \in Answers /\ Carries(answers[n])
  BY <1>1, <1>5 DEF Answered
<1>7. ASSUME ~noProgress PROVE Becomes(ty, Together(answers))
  <2> DEFINE gone == {a \in ty : \E i \in 1 .. n : a = parts[i] /\ answers[i].type # {a}}
  <2>1. ASSUME NEW i \in 1 .. n
        PROVE  \/ answers[i].type = {parts[i]} /\ parts[i] \notin gone
               \/ /\ answers[i].type = Means(parts[i]) /\ parts[i] \in gone
                  /\ IsRef(parts[i]) /\ Means(parts[i]) # {}
    <3>1. Becomes({parts[i]}, answers[i].type)
      BY <1>4, <1>5 DEF Answered, no
    <3>2. CASE answers[i].type = {parts[i]}
      BY <1>1, <3>2
    <3>3. CASE answers[i].type # {parts[i]}
      <4>1. answers[i].type # {UntypedReturn}
        BY <1>7, <3>3
      <4>2. parts[i] \in gone
        BY <1>1, <3>3
      <4> QED
        BY <3>1, <3>3, <4>1, <4>2, OneBecomes
    <3> QED
      BY <3>2, <3>3
  <2>2. gone # {}
    <3>1. PICK i \in 1 .. n : answers[i].type # {parts[i]}
      BY <1>7
    <3> QED
      BY <2>1, <3>1
  <2>3. \A a \in gone : IsRef(a) /\ Means(a) # {}
    BY <2>1
  <2>4. gone \in SUBSET ty
    OBVIOUS
  <2> HIDE DEF gone, noProgress
  <2>5. UNION {answers[i].type : i \in DOMAIN answers}
          = (ty \ gone) \union UNION {Means(a) : a \in gone}
    <3>1. DOMAIN answers = 0 .. n /\ answers[0].type = {}
      BY <1>5 DEF Answered
    <3>2. \A i \in 0 .. n : i = 0 \/ i \in 1 .. n
      BY <1>1
    <3>3. \A i \in 1 .. n : i \in 0 .. n /\ parts[i] \in ty
      BY <1>1
    <3>4. ASSUME NEW i \in DOMAIN answers, NEW y \in answers[i].type
          PROVE  y \in (ty \ gone) \union UNION {Means(a) : a \in gone}
      <4>1. i \in 1 .. n
        BY <3>1, <3>2, <3>4
      <4> QED
        BY <2>1, <3>3, <3>4, <4>1
    <3>5. ASSUME NEW y \in ty \ gone PROVE \E i \in DOMAIN answers : y \in answers[i].type
      <4>1. PICK i \in 1 .. n : y = parts[i]
        BY <1>1
      <4> QED
        BY <2>1, <3>1, <3>3, <4>1
    <3>6. ASSUME NEW a \in gone, NEW y \in Means(a)
          PROVE  \E i \in DOMAIN answers : y \in answers[i].type
      <4>1. PICK i \in 1 .. n : a = parts[i]
        BY <1>1, <2>4
      <4> QED
        BY <2>1, <3>1, <3>3, <4>1
    <3> QED
      BY <3>4, <3>5, <3>6
  <2> QED
    BY <1>0, <2>2, <2>3, <2>4, <2>5, MadeGood DEF Together
<1> DEFINE result == IF noProgress THEN ty ELSE Together(answers)
<1>8. Becomes(ty, result)
  <2> HIDE DEF noProgress
  <2> QED
    BY <1>7, BecomesSelf
<1>9. result \in ReturnTypes
  BY <1>0, <1>8, BecomesType
<1>10. answer = With(answers[n], result)
  BY <1>2
<1> HIDE DEF result
<1> QED
  BY <1>6, <1>8, <1>9, <1>10, WithIs DEF answer

-----------------------------------------------------------------------------
\* What an evaluation finds that does not remember the answer.
Fresh(asked, resolve) ==
  IF Cardinality(asked.type) > 1
  THEN ResolveUnion(asked.context, asked.type, asked.visiting, asked, resolve)
  ELSE ResolveAlternative(asked.context, CHOOSE a \in asked.type : TRUE, asked.visiting, asked, resolve)
Noted(asked, answer) ==
  IF Concrete(answer.type)
  THEN [answer EXCEPT !.memo = @ \union {<<asked.context, asked.type, answer.type>>}]
  ELSE answer

\* (An evaluation by its cases.)
LEMMA ResolveIs ==
  ASSUME NEW asked, NEW resolve
  PROVE  Resolve(asked, resolve) =
           IF ~ContainsRef(asked.type) THEN With(asked, asked.type)
           ELSE IF Memoized(asked) # {}
           THEN With(asked, (CHOOSE entry \in Memoized(asked) : TRUE)[3])
           ELSE Noted(asked, Fresh(asked, resolve))
BY DEF Resolve, Noted, Fresh

\* A type of one alternative is that.
LEMMA OneIs ==
  ASSUME NEW ty \in ReturnTypes, ~(Cardinality(ty) > 1)
  PROVE  \E a \in Alternatives : ty = {a} /\ (CHOOSE b \in ty : TRUE) = a
<1>1. Cardinality(ty) \in Nat /\ ty # {} /\ ty \subseteq Alternatives /\ IsFiniteSet(ty)
  BY ReturnsFinite, TypesHave
<1>2. Cardinality(ty) = 1
  BY <1>1, FS_EmptySet
<1>3. ty = {Listed(ty)[i] : i \in 1 .. 1}
  BY <1>2, ListedIs
<1>4. ty = {Listed(ty)[1]}
  BY <1>3
<1> QED
  BY <1>1, <1>4

\* ... a type that is not in the memo ...
LEMMA FreshGood ==
  ASSUME ReturnsOK, NEW resolve, Good(resolve), NEW asked \in Questions,
         Sound(asked.memo), ContainsRef(asked.type)
  PROVE  GoodAnswer(asked, Fresh(asked, resolve))
<1> DEFINE ty == asked.type
           answer == Fresh(asked, resolve)
<1>1. /\ ty \in ReturnTypes /\ asked.context \in Owners /\ asked.visiting \in SUBSET Slots
      /\ Carries(asked)
  BY QuestionIs
<1>2. CASE Cardinality(ty) > 1
  <2>1. answer = ResolveUnion(asked.context, ty, asked.visiting, asked, resolve)
    BY <1>2 DEF Fresh
  <2> HIDE DEF ty, answer
  <2> QED
    BY <1>1, <2>1, UnionGood DEF GoodAnswer, Carries, ty, answer
<1>3. CASE ~(Cardinality(ty) > 1)
  <2>1. PICK a \in Alternatives : ty = {a} /\ (CHOOSE b \in ty : TRUE) = a
    BY <1>1, <1>3, OneIs
  <2>2. answer = ResolveAlternative(asked.context, a, asked.visiting, asked, resolve)
    BY <1>3, <2>1 DEF Fresh
  <2>3. a[1] \in {"ref", "call"}
    BY <2>1 DEF ContainsRef
  <2> HIDE DEF answer
  <2>4. CASE a[1] = "ref"
    <3>1. a \in Refs
      BY <2>4, AlternativesHave, ClassesAre DEF UntypedReturn
    <3>2. answer = ResolveRef(a, asked.visiting, asked, resolve)
      BY <2>2, <2>4 DEF ResolveAlternative
    <3>3. answer \in Answers /\ Carries(answer) /\ Becomes({a}, answer.type)
      BY <1>1, <3>1, <3>2, RefGood
    <3> QED
      BY <2>1, <3>3 DEF GoodAnswer, Carries, answer
  <2>5. CASE a[1] = "call"
    <3>1. answer = ResolveCall(asked.context, a, asked.visiting, asked, resolve)
      BY <2>2, <2>5 DEF ResolveAlternative
    <3>2. answer \in Answers /\ Carries(answer) /\ Becomes({a}, answer.type)
      BY <1>1, <2>5, <3>1, CallGood
    <3> QED
      BY <2>1, <3>2 DEF GoodAnswer, Carries, answer
  <2> QED
    BY <2>3, <2>4, <2>5
<1> QED
  BY <1>2, <1>3

\* What is noted is of the type asked for, and concrete.
LEMMA NotedGood ==
  ASSUME NEW asked \in Questions, NEW answer, GoodAnswer(asked, answer)
  PROVE  GoodAnswer(asked, Noted(asked, answer))
<1> DEFINE noted == Noted(asked, answer)
           entry == <<asked.context, asked.type, answer.type>>
<1>1. answer \in Answers /\ Sound(answer.memo) /\ Becomes(asked.type, answer.type)
  BY DEF GoodAnswer
<1>2. CASE Concrete(answer.type)
  <2>1. noted = [answer EXCEPT !.memo = @ \union {entry}]
    BY <1>2 DEF Noted
  <2>2. /\ noted.type = answer.type /\ noted.memo = answer.memo \union {entry}
        /\ noted \in [type : ReturnTypes, reads : SUBSET Slots, memo : {noted.memo}]
    BY <1>1, <2>1 DEF Answers
  <2>3. entry \in Owners \X ReturnTypes \X ReturnTypes
    BY <1>1, QuestionIs, AnswerIs
  <2>4. noted.memo \in Memos
    BY <1>1, <2>2, <2>3, AnswerIs DEF Memos
  <2>5. Sound(noted.memo)
    BY <1>1, <1>2, <2>2 DEF Sound
  <2>6. noted \in Answers
    BY <2>2, <2>4 DEF Answers
  <2> HIDE DEF noted
  <2> QED
    BY <1>1, <2>2, <2>5, <2>6 DEF GoodAnswer, noted
<1>3. CASE ~Concrete(answer.type)
  BY <1>3 DEF Noted
<1> QED
  BY <1>2, <1>3

\* What is remembered is a good answer.
LEMMA MemoGood ==
  ASSUME NEW asked \in Questions, Sound(asked.memo), Memoized(asked) # {}
  PROVE  GoodAnswer(asked, With(asked, (CHOOSE entry \in Memoized(asked) : TRUE)[3]))
<1> DEFINE answer == With(asked, (CHOOSE entry \in Memoized(asked) : TRUE)[3])
<1>1. PICK entry \in Memoized(asked) : answer = With(asked, entry[3])
  OBVIOUS
<1> HIDE DEF answer
<1>2. entry \in asked.memo /\ entry[2] = asked.type
  BY DEF Memoized
<1>3. Becomes(asked.type, entry[3]) /\ entry[3] \in ReturnTypes
  <2>1. asked.memo \in Memos
    BY QuestionIs
  <2> QED
    BY <1>2, <2>1 DEF Sound, Memos
<1>4. Carries(answer) /\ answer \in Answers /\ answer.type = entry[3]
  BY <1>1, <1>3, QuestionIs, WithIs
<1> QED
  BY <1>3, <1>4 DEF GoodAnswer, Carries, answer

\* ... and every type.
LEMMA ResolveGood ==
  ASSUME ReturnsOK, NEW resolve, Good(resolve), NEW asked \in Questions, Sound(asked.memo)
  PROVE  GoodAnswer(asked, Resolve(asked, resolve))
<1>1. CASE ~ContainsRef(asked.type)
  <2>1. Resolve(asked, resolve) = With(asked, asked.type)
    BY <1>1, ResolveIs
  <2>2. GoodAnswer(asked, With(asked, asked.type))
    BY QuestionIs, WithIs, BecomesSelf DEF GoodAnswer, Carries
  <2> QED
    BY <2>1, <2>2
<1>2. CASE ContainsRef(asked.type) /\ Memoized(asked) # {}
  BY <1>2, ResolveIs, MemoGood
<1>3. CASE ContainsRef(asked.type) /\ Memoized(asked) = {}
  BY <1>3, ResolveIs, FreshGood, NotedGood
<1> QED
  BY <1>1, <1>2, <1>3

\* At every depth, an answer is what becomes of the type asked for.
LEMMA AllGood ==
  ASSUME ReturnsOK
  PROVE  \A left \in 0 .. DepthLimit : Good(resolveGlobalRefs[left])
<1> DEFINE S == {left \in 0 .. DepthLimit : Good(resolveGlobalRefs[left])}
<1>1. DepthLimit \in Nat
  BY ReturnConstants
<1>2. 0 \in S
  <2>1. \A asked \in Questions :
          /\ resolveGlobalRefs[0][asked] = With(asked, asked.type)
          /\ Sound(asked.memo) => GoodAnswer(asked, With(asked, asked.type))
    BY ResolveAre, QuestionIs, WithIs, BecomesSelf DEF GoodAnswer, Carries
  <2>2. Good(resolveGlobalRefs[0])
    BY <2>1 DEF Good
  <2> QED
    BY <1>1, <2>2
<1>3. ASSUME NEW k \in 1 .. DepthLimit, k - 1 \in S PROVE k \in S
  <2>1. Good(resolveGlobalRefs[k - 1])
    BY <1>3
  <2>2. \A asked \in Questions : resolveGlobalRefs[k][asked] = Resolve(asked, resolveGlobalRefs[k - 1])
    BY ResolveAre
  <2>3. Good(resolveGlobalRefs[k])
    BY <2>1, <2>2, ResolveGood DEF Good
  <2> QED
    BY <2>3
<1>4. 0 .. DepthLimit \subseteq S
  <2> HIDE DEF S
  <2> QED
    BY <1>1, <1>2, <1>3, UpToBound
<1> QED
  BY <1>4

-----------------------------------------------------------------------------
(* The rounds. *)

ReturnsInv == ReturnsOK /\ eval_set \subseteq {s \in Slots : ContainsRef(returns[s])}

\* What the methods stand for depends on what was written alone.
LEMMA MeaningsStay ==
  ASSUME UNCHANGED written
  PROVE  /\ WrittenOK' <=> WrittenOK
         /\ \A ty, result : Becomes(ty, result)' <=> Becomes(ty, result)
<1>1. mayAfter' = mayAfter
  BY DEF mayAfter, meanings
<1>2. May' = May
  BY <1>1, MayIs, Zenon DEF May, KnownReturns, meanings
<1>3. \A ty, result : Becomes(ty, result)' <=> Becomes(ty, result)
  BY <1>2 DEF Becomes, Splits, MayLost, Means, Stands, MayStand
<1> QED
  BY <1>1, <1>2, <1>3 DEF WrittenOK

\* An evaluation starts with nothing read and nothing remembered.
LEMMA EvaluatedGood ==
  ASSUME ReturnsOK, NEW s \in Slots, returns[s] # NoMethod
  PROVE  /\ Evaluated(s).type \in ReturnTypes
         /\ Becomes(returns[s], Evaluated(s).type)
<1> DEFINE none == [reads |-> {}, memo |-> {}]
           q == Ask(s[1], returns[s], {s}, none)
           answer == resolveGlobalRefs[DepthLimit][q]
<1>1. Evaluated(s) = answer
  BY DEF Evaluated
<1>2. s[1] \in Owners /\ returns[s] \in ReturnTypes /\ {s} \in SUBSET Slots
  BY ReturnsMean DEF Slots
<1>3. Carries(none)
  BY DEF Carries, Memos, Sound
<1> HIDE DEF none
<1>4. q \in Questions /\ q.type = returns[s] /\ Sound(q.memo)
  BY <1>2, <1>3, AskIs DEF Carries
<1> HIDE DEF q
<1>5. DepthLimit \in 0 .. DepthLimit
  BY ReturnConstants
<1>6. GoodAnswer(q, answer)
  BY <1>4, <1>5, AllGood DEF Good
<1> QED
  BY <1>1, <1>4, <1>6, AnswerIs DEF GoodAnswer

\* Before the first round all is as written.
LEMMA ReturnInitHolds ==
  ReturnInit => ReturnsInv
<1> SUFFICES ASSUME ReturnInit PROVE ReturnsInv
  OBVIOUS
<1>1. written \in [Slots -> ReturnTypes \union {NoMethod}] /\ returns = written
  BY ReturnConstants DEF ReturnInit
<1> QED
  BY <1>1, BecomesSelf DEF ReturnInit, ReturnsInv, ReturnsOK, WrittenOK

\* A round writes what becomes of what the return types have become.
LEMMA ReturnStepHolds ==
  ASSUME ReturnsInv, [ResolveRound]_returnVars
  PROVE  ReturnsInv'
<1>1. CASE ResolveRound
  <2> DEFINE updated == {s \in eval_set : Evaluated(s).type # returns[s]}
  <2>1. /\ returns' = [s \in Slots |-> IF s \in updated THEN Evaluated(s).type ELSE returns[s]]
        /\ eval_set' \subseteq {s \in Slots : ContainsRef(returns'[s])}
        /\ UNCHANGED written
    <3> DEFINE results == [s \in eval_set |-> Evaluated(s)]
               changed == {s \in eval_set : results[s].type # returns[s]}
    <3>1. /\ returns' = [s \in Slots |-> IF s \in changed THEN results[s].type ELSE returns[s]]
          /\ eval_set' \subseteq {s \in Slots : ContainsRef(returns'[s])}
          /\ UNCHANGED written
      BY <1>1 DEF ResolveRound
    <3>2. changed = updated
      OBVIOUS
    <3>3. \A s \in updated : results[s].type = Evaluated(s).type
      OBVIOUS
    <3> HIDE DEF results, changed, updated
    <3> QED
      BY <3>1, <3>2, <3>3
  <2> HIDE DEF updated
  <2>2. ASSUME NEW s \in Slots
        PROVE  /\ returns'[s] \in ReturnTypes \union {NoMethod}
               /\ returns'[s] = NoMethod <=> written[s] = NoMethod
               /\ written[s] # NoMethod => Becomes(written[s], returns'[s])
    <3>1. CASE s \notin updated
      BY <2>1, <3>1 DEF ReturnsInv, ReturnsOK
    <3>2. CASE s \in updated
      <4>1. returns[s] # NoMethod /\ returns'[s] = Evaluated(s).type
        BY <2>1, <3>2 DEF updated, ReturnsInv, ContainsRef, NoMethod
      <4>2. /\ Evaluated(s).type \in ReturnTypes /\ Becomes(returns[s], Evaluated(s).type)
        BY <4>1, EvaluatedGood DEF ReturnsInv
      <4>3. /\ WrittenOK /\ written[s] # NoMethod /\ written[s] \in ReturnTypes
            /\ Becomes(written[s], returns[s])
        BY <4>1 DEF ReturnsInv, ReturnsOK, WrittenOK
      <4>4. Becomes(written[s], Evaluated(s).type)
        BY <4>2, <4>3, BecomesMore
      <4>5. Evaluated(s).type # NoMethod
        BY <4>2, TypesHave DEF NoMethod
      <4> QED
        BY <4>1, <4>2, <4>3, <4>4, <4>5
    <3> QED
      BY <3>1, <3>2
  <2>3. /\ WrittenOK' /\ written' = written
        /\ \A ty, result : Becomes(ty, result)' <=> Becomes(ty, result)
    BY <2>1, MeaningsStay DEF ReturnsInv, ReturnsOK
  <2>4. returns' \in [Slots -> ReturnTypes \union {NoMethod}]
    BY <2>1, <2>2
  <2>5. ReturnsOK'
    BY <2>2, <2>3, <2>4 DEF ReturnsOK
  <2> QED
    BY <2>1, <2>5 DEF ReturnsInv
<1>2. CASE UNCHANGED returnVars
  <2>1. UNCHANGED <<written, returns, eval_set>>
    BY <1>2 DEF returnVars
  <2>2. ReturnsOK'
    BY <2>1, MeaningsStay DEF ReturnsInv, ReturnsOK
  <2> QED
    BY <2>1, <2>2 DEF ReturnsInv
<1> QED
  BY <1>1, <1>2

\* The invariant says that nothing is replaced by anything else.
LEMMA ReturnsInvReplaced ==
  ASSUME ReturnsOK
  PROVE  ReturnsReplaced
<1>1. WrittenOK
  BY DEF ReturnsOK
<1>2. ASSUME NEW s \in Slots, written[s] # NoMethod
      PROVE  \/ returns[s] = written[s]
             \/ returns[s] = {UntypedReturn} /\ MayLose(May, written[s])
             \/ Replaces(May, returns[s], written[s])
  <2>1. written[s] \in ReturnTypes /\ Becomes(written[s], returns[s])
    BY <1>2 DEF ReturnsOK, WrittenOK
  <2> QED
    BY <1>1, <2>1, MayLostIs, BecomesReplaces DEF Becomes
<1> QED
  BY <1>2, Zenon DEF ReturnsReplaced, May

\* However references chain, fork and turn in circles, and wherever an evaluation stops, a
\* return type is what was written, or its references are replaced by exactly the classes they
\* stand for, or it is untyped, and that only where a union is too large or of nil and untyped.
THEOREM ReturnsAreReplaced == ReturnSpec => []ReturnsReplaced
<1>1. ReturnInit => ReturnsInv
  BY ReturnInitHolds
<1>2. ReturnsInv /\ [ResolveRound]_returnVars => ReturnsInv'
  BY ReturnStepHolds
<1>3. ReturnsInv => ReturnsReplaced
  BY ReturnsInvReplaced DEF ReturnsInv
<1> QED
  BY <1>1, <1>2, <1>3, PTL DEF ReturnSpec
===============================================================================
