------------------------------ MODULE FiniteNats ------------------------------
(***************************************************************************)
(* Lemmas about finite sets of natural numbers: they have a greatest       *)
(* element, and an element at every place.  Both are inductions on the     *)
(* cardinality, done as: of the sets without it take a smallest.  And what *)
(* follows for lists: how places grow, and what Picked leaves of a list.   *)
(***************************************************************************)
EXTENDS Lists, FiniteSetTheorems, SequenceTheorems, WellFoundedInduction, TLAPS

\* A set of naturals that is not empty has a least element.
LEMMA LeastExists ==
  ASSUME NEW S \in SUBSET Nat, S # {}
  PROVE  \E x \in S : \A y \in S : x <= y
<1>1. PICK x \in S : \A y \in S : ~(<<y, x>> \in OpToRel(<, Nat))
  BY NatLessThanWellFounded, WFMin
<1>2. \A y \in S : ~(y < x)
  BY <1>1 DEF OpToRel
<1>3. \A y \in S : x <= y
  BY <1>2
<1> QED BY <1>3

\* A finite set of naturals that is not empty has a greatest element: otherwise there is
\* one without of the least cardinality, and it has one when any of its elements is left out.
LEMMA GreatestExists ==
  ASSUME NEW S \in SUBSET Nat, IsFiniteSet(S), S # {}
  PROVE  \E x \in S : \A y \in S : x >= y
<1> DEFINE Bad(T) == T \subseteq Nat /\ IsFiniteSet(T) /\ T # {} /\ ~\E x \in T : \A y \in T : x >= y
           sizes == { n \in Nat : \E T \in SUBSET Nat : Bad(T) /\ Cardinality(T) = n }
<1> SUFFICES ASSUME Bad(S) PROVE FALSE
  OBVIOUS
<1>1. sizes # {}
  BY FS_CardinalityType
<1>2. PICK n \in sizes : \A m \in sizes : ~(<<m, n>> \in OpToRel(<, Nat))
  <2> HIDE DEF sizes
  <2> QED BY <1>1, NatLessThanWellFounded, WFMin, sizes \subseteq Nat DEF sizes
<1>3. \A m \in sizes : ~(m < n)
  BY <1>2 DEF OpToRel
<1>4. PICK T \in SUBSET Nat : Bad(T) /\ Cardinality(T) = n
  OBVIOUS
<1>5. PICK x \in T : TRUE
  BY <1>4
<1>6. /\ IsFiniteSet(T \ {x}) /\ Cardinality(T \ {x}) = n - 1
      /\ Cardinality(T \ {x}) \in Nat
  BY <1>4, <1>5, FS_RemoveElement, FS_CardinalityType
<1>7. ~Bad(T \ {x})
  <2>1. n - 1 \notin sizes
    BY <1>3, <1>6
  <2> QED BY <2>1, <1>6
<1>8. CASE T \ {x} = {}
  <2>1. \A y \in T : x >= y
    BY <1>5, <1>8
  <2> QED BY <2>1, <1>4, <1>5
<1>9. CASE T \ {x} # {}
  <2>1. PICK z \in T \ {x} : \A y \in T \ {x} : z >= y
    BY <1>6, <1>7, <1>9
  <2>2. CASE z >= x
    <3>1. \A y \in T : z >= y
      BY <2>1, <2>2
    <3> QED BY <3>1, <2>1, <1>4
  <2>3. CASE ~(z >= x)
    <3>1. \A y \in T : x >= y
      BY <2>1, <2>3, <1>5
    <3> QED BY <3>1, <1>4, <1>5
  <2> QED BY <2>2, <2>3
<1> QED BY <1>8, <1>9

\* Every place from the first to the last is some element's.
LEMMA PlaceExists ==
  ASSUME NEW S \in SUBSET Nat, IsFiniteSet(S), NEW i \in 1..Cardinality(S)
  PROVE  \E n \in S : Place(S, n) = i
<1> DEFINE Bad(T) == /\ T \subseteq Nat /\ IsFiniteSet(T)
                     /\ \E j \in 1..Cardinality(T) : ~\E n \in T : Place(T, n) = j
           sizes == { n \in Nat : \E T \in SUBSET Nat : Bad(T) /\ Cardinality(T) = n }
<1> SUFFICES ASSUME Bad(S) PROVE FALSE
  OBVIOUS
<1>1. sizes # {}
  <2>1. Cardinality(S) \in sizes
    BY FS_CardinalityType
  <2> QED BY <2>1
<1>2. PICK n \in sizes : \A m \in sizes : ~(<<m, n>> \in OpToRel(<, Nat))
  <2> HIDE DEF sizes
  <2> QED BY <1>1, NatLessThanWellFounded, WFMin, sizes \subseteq Nat DEF sizes
<1>3. \A m \in sizes : ~(m < n)
  BY <1>2 DEF OpToRel
<1>4. PICK T \in SUBSET Nat : Bad(T) /\ Cardinality(T) = n
  OBVIOUS
<1>5. PICK j \in 1..Cardinality(T) : ~\E x \in T : Place(T, x) = j
  BY <1>4
<1>6. T # {}
  BY <1>4, <1>5, FS_EmptySet
<1>7. PICK g \in T : \A y \in T : g >= y
  BY <1>4, <1>6, GreatestExists
<1> DEFINE U == T \ {g}
<1>8. U \in SUBSET Nat /\ IsFiniteSet(U) /\ Cardinality(U) = n - 1 /\ Cardinality(U) \in Nat
  BY <1>4, <1>7, FS_RemoveElement, FS_CardinalityType
<1>9. Place(T, g) = Cardinality(T)
  <2>1. {m \in T : m <= g} = T
    BY <1>7
  <2> QED BY <2>1 DEF Place
<1>10. j \in 1..Cardinality(U)
  BY <1>4, <1>5, <1>7, <1>8, <1>9
<1>11. ~Bad(U)
  <2>1. n - 1 \notin sizes
    BY <1>3, <1>8
  <2> HIDE DEF Bad
  <2> QED BY <2>1, <1>8
<1>12. PICK x \in U : Place(U, x) = j
  BY <1>8, <1>10, <1>11
<1>13. {m \in T : m <= x} = {m \in U : m <= x}
  BY <1>4, <1>7, <1>12
<1> QED BY <1>5, <1>12, <1>13 DEF Place

\* No two elements are at one place.
LEMMA OneAtAPlace ==
  ASSUME NEW S \in SUBSET Nat, IsFiniteSet(S), NEW d \in S, NEW e \in S, Place(S, d) = Place(S, e)
  PROVE  d = e
<1> DEFINE upto(x) == {m \in S : m <= x}
<1>1. ASSUME NEW x \in S, NEW y \in S, Place(S, x) = Place(S, y), x < y
      PROVE  FALSE
  <2>1. IsFiniteSet(upto(y))
    BY FS_Subset, upto(y) \subseteq S
  <2>2. upto(x) \in SUBSET upto(y) /\ y \in upto(y) /\ y \notin upto(x)
    <3>1. \A m \in S : m <= x => m <= y
      BY <1>1
    <3>2. y <= y /\ ~(y <= x)
      BY <1>1
    <3> QED BY <3>1, <3>2
  <2>3. Cardinality(upto(x)) = Cardinality(upto(y))
    BY <1>1 DEF Place
  <2> HIDE DEF upto
  <2>4. upto(x) = upto(y)
    BY <2>1, <2>2, <2>3, FS_Subset
  <2> QED BY <2>2, <2>4
<1> QED BY <1>1

\* Places stay as they are when a greater element joins, which comes last.
LEMMA PlacesGrow ==
  ASSUME NEW S \in SUBSET Nat, IsFiniteSet(S), NEW g \in Nat, \A m \in S : m < g
  PROVE  /\ IsFiniteSet(S \cup {g})
         /\ Cardinality(S \cup {g}) = Cardinality(S) + 1
         /\ Place(S \cup {g}, g) = Cardinality(S) + 1
         /\ \A n \in S : Place(S \cup {g}, n) = Place(S, n)
<1>1. g \notin S
  OBVIOUS
<1>2. IsFiniteSet(S \cup {g}) /\ Cardinality(S \cup {g}) = Cardinality(S) + 1
  BY <1>1, FS_AddElement
<1>3. {m \in S \cup {g} : m <= g} = S \cup {g}
  <2>1. \A m \in S \cup {g} : m <= g
    OBVIOUS
  <2> QED BY <2>1
<1>4. \A n \in S : {m \in S \cup {g} : m <= n} = {m \in S : m <= n}
  <2>1. \A n \in S : ~(g <= n)
    OBVIOUS
  <2> QED BY <2>1
<1> QED BY <1>2, <1>3, <1>4 DEF Place

\* A place is one of the first Cardinality(S).
LEMMA PlaceBounds ==
  ASSUME NEW S \in SUBSET Nat, IsFiniteSet(S), NEW n \in S
  PROVE  Place(S, n) \in 1..Cardinality(S)
<1> DEFINE upto == {m \in S : m <= n}
<1>1. upto \subseteq S /\ n \in upto
  OBVIOUS
<1>2. IsFiniteSet(upto) /\ Cardinality(upto) \in Nat /\ Cardinality(upto) <= Cardinality(S)
      /\ Cardinality(S) \in Nat
  BY <1>1, FS_Subset, FS_CardinalityType
<1>3. Cardinality(upto) # 0
  BY <1>1, <1>2, FS_EmptySet
<1> QED BY <1>2, <1>3 DEF Place

\* A list with some of its entries left: each is one of the kept, no two the same one, and
\* none of the kept is lost.
LEMMA PickedEntries ==
  ASSUME NEW X, NEW list \in Seq(X), NEW kept \in SUBSET DOMAIN list
  PROVE  /\ Picked(list, kept) \in Seq(X)
         /\ \E at \in [DOMAIN Picked(list, kept) -> kept] :
              /\ \A i \in DOMAIN Picked(list, kept) : Picked(list, kept)[i] = list[at[i]]
              /\ \A i, j \in DOMAIN Picked(list, kept) : at[i] = at[j] => i = j
              /\ \A n \in kept : \E i \in DOMAIN Picked(list, kept) : at[i] = n
<1> DEFINE c == Cardinality(kept)
           place(i) == CHOOSE n \in kept : Place(kept, n) = i
           at == [i \in 1..c |-> place(i)]
<1>1. kept \in SUBSET Nat /\ IsFiniteSet(kept) /\ c \in Nat
  <2>1. DOMAIN list = 1..Len(list) /\ Len(list) \in Nat
    BY LenProperties
  <2>2. IsFiniteSet(1..Len(list))
    BY <2>1, FS_Interval
  <2> QED BY <2>1, <2>2, FS_Subset, FS_CardinalityType
<1>2. ASSUME NEW i \in 1..c
      PROVE  place(i) \in kept /\ Place(kept, place(i)) = i
  BY <1>1, PlaceExists
<1>3. Picked(list, kept) = [i \in 1..c |-> list[at[i]]]
  BY DEF Picked
<1>4. \A n \in kept : \E i \in 1..c : place(i) = n
  <2> SUFFICES ASSUME NEW n \in kept
               PROVE  place(Place(kept, n)) = n /\ Place(kept, n) \in 1..c
    OBVIOUS
  <2>1. Place(kept, n) \in 1..c
    BY <1>1, PlaceBounds
  <2> DEFINE o == place(Place(kept, n))
  <2>2. o \in kept /\ Place(kept, o) = Place(kept, n)
    BY <1>2, <2>1
  <2> HIDE DEF o
  <2> QED BY <2>1, <2>2, <1>1, OneAtAPlace DEF o
<1> HIDE DEF place, c
<1>5. at \in [1..c -> kept]
  BY <1>2
<1>6. \A i, j \in 1..c : at[i] = at[j] => i = j
  BY <1>2
<1>7. \A n \in kept : \E i \in 1..c : at[i] = n
  BY <1>4
<1>8. \A i \in 1..c : list[at[i]] \in X
  BY <1>5, ElementOfSeq
<1> HIDE DEF at
<1>9. Picked(list, kept) \in Seq(X) /\ DOMAIN Picked(list, kept) = 1..c
  BY <1>1, <1>3, <1>8, IsASeq
<1> QED BY <1>3, <1>5, <1>6, <1>7, <1>9

\* The first n entries of a list without repetitions are n elements, and the next one is
\* none of them.
FirstOf(list, n) == { list[i] : i \in 1..n }

LEMMA FirstOnes ==
  ASSUME NEW X, NEW list \in Seq(X), \A i, j \in DOMAIN list : list[i] = list[j] => i = j,
         NEW n \in 0..Len(list)
  PROVE  /\ IsFiniteSet(FirstOf(list, n)) /\ Cardinality(FirstOf(list, n)) = n
         /\ n < Len(list) => /\ list[n + 1] \notin FirstOf(list, n)
                             /\ FirstOf(list, n) \cup {list[n + 1]} = FirstOf(list, n + 1)
<1> DEFINE S == FirstOf(list, n)
           f == [i \in 1..n |-> list[i]]
<1>1. IsFiniteSet(1..n) /\ Cardinality(1..n) = n
  BY FS_Interval
<1>2. ExistsBijection(1..n, S)
  <2>1. f \in Bijection(1..n, S)
    BY DEF Bijection, Injection, Surjection, IsInjective, FirstOf
  <2> QED BY <2>1 DEF ExistsBijection
<1>3. IsFiniteSet(S) /\ Cardinality(S) = n
  BY <1>1, <1>2, FS_Bijection
<1>4. ASSUME n < Len(list)
      PROVE  list[n + 1] \notin S /\ S \cup {list[n + 1]} = FirstOf(list, n + 1)
  BY <1>4 DEF FirstOf
<1> QED BY <1>3, <1>4

-----------------------------------------------------------------------------
(* Sets put into an order.                                                 *)

\* The elements of a finite set in the order of R, a set of pairs <<what is before, what is
\* behind>>: at place n stands the one that n - 1 others are before.
InOrder(S, R) ==
  [n \in 1..Cardinality(S) |-> CHOOSE x \in S : Cardinality({y \in S : <<y, x>> \in R}) = n - 1]

\* R is a strict order of S in which any two elements are before one another.
StrictOrder(S, R) ==
  /\ \A x \in S : <<x, x>> \notin R
  /\ \A x, y \in S : x # y => <<x, y>> \in R \/ <<y, x>> \in R
  /\ \A x, y, z \in S : <<x, y>> \in R /\ <<y, z>> \in R => <<x, z>> \in R

\* The list holds each element once, at the place that the order gives it: the elements
\* before one are fewer than those before a later one, so no two share a place, and as many
\* elements as there are places fill them.
LEMMA OrderedList ==
  ASSUME NEW S, IsFiniteSet(S), NEW R, StrictOrder(S, R)
  PROVE  /\ InOrder(S, R) \in Seq(S) /\ Len(InOrder(S, R)) = Cardinality(S)
         /\ \A x \in S : \E n \in DOMAIN InOrder(S, R) : InOrder(S, R)[n] = x
         /\ \A m, n \in DOMAIN InOrder(S, R) :
              /\ InOrder(S, R)[m] = InOrder(S, R)[n] => m = n
              /\ m < n <=> <<InOrder(S, R)[m], InOrder(S, R)[n]>> \in R
<1> DEFINE c == Cardinality(S)
           below(x) == {y \in S : <<y, x>> \in R}
           rank == [x \in S |-> Cardinality(below(x)) + 1]
           list == InOrder(S, R)
<1>1. c \in Nat
  BY FS_CardinalityType
<1>2. ASSUME NEW x \in S
      PROVE  /\ IsFiniteSet(below(x)) /\ Cardinality(below(x)) \in Nat
             /\ rank[x] \in 1..c /\ rank[x] \in Nat /\ rank[x] = Cardinality(below(x)) + 1
  <2>1. below(x) \in SUBSET S /\ x \notin below(x)
    BY DEF StrictOrder
  <2>2. IsFiniteSet(below(x)) /\ Cardinality(below(x)) <= c /\ (c = Cardinality(below(x)) => S = below(x))
    BY <2>1, FS_Subset
  <2>3. Cardinality(below(x)) \in Nat
    BY <2>2, FS_CardinalityType
  <2> HIDE DEF below, c
  <2> QED BY <1>1, <2>1, <2>2, <2>3
<1>3. ASSUME NEW x \in S, NEW y \in S, <<x, y>> \in R
      PROVE  rank[x] < rank[y]
  <2>1. below(x) \in SUBSET below(y) /\ x \in below(y) /\ x \notin below(x)
    BY <1>3 DEF StrictOrder
  <2>2. /\ IsFiniteSet(below(y)) /\ Cardinality(below(x)) \in Nat /\ Cardinality(below(y)) \in Nat
    BY <1>2
  <2>3. Cardinality(below(x)) <= Cardinality(below(y))
        /\ Cardinality(below(x)) # Cardinality(below(y))
    <3> HIDE DEF below
    <3> QED BY <2>1, <2>2, FS_Subset
  <2> QED BY <2>2, <2>3
<1>4. \A x, y \in S : rank[x] = rank[y] => x = y
  <2> SUFFICES ASSUME NEW x \in S, NEW y \in S, x # y
               PROVE  rank[x] # rank[y]
    OBVIOUS
  <2>1. rank[x] < rank[y] \/ rank[y] < rank[x]
    BY <1>3 DEF StrictOrder
  <2>2. rank[x] \in Nat /\ rank[y] \in Nat
    BY <1>2
  <2> QED BY <2>1, <2>2
<1>5. \A n \in 1..c : \E x \in S : rank[x] = n
  <2>1. rank \in Injection(S, 1..c)
    BY <1>2, <1>4 DEF Injection, IsInjective
  <2>2. IsFiniteSet(1..c) /\ Cardinality(1..c) = c
    BY <1>1, FS_Interval
  <2>3. rank \in Surjection(S, 1..c)
    <3> HIDE DEF rank
    <3> QED BY <2>1, <2>2, FS_Injection
  <2> HIDE DEF rank
  <2> QED BY <2>3 DEF Surjection
<1>6. ASSUME NEW n \in 1..c
      PROVE  list[n] \in S /\ rank[list[n]] = n
  <2>1. list[n] = CHOOSE x \in S : Cardinality(below(x)) = n - 1
    BY DEF InOrder
  <2>2. \E x \in S : Cardinality(below(x)) = n - 1
    <3>1. PICK x \in S : rank[x] = n
      BY <1>5
    <3> HIDE DEF below, rank
    <3> QED BY <1>2, <3>1
  <2> HIDE DEF below, rank, list
  <2>3. list[n] \in S /\ Cardinality(below(list[n])) = n - 1
    BY <2>1, <2>2
  <2> QED BY <1>1, <1>2, <2>3
<1>7. list \in [1..c -> S]
  <2>1. \A n \in 1..c : (CHOOSE x \in S : Cardinality(below(x)) = n - 1) \in S
    BY <1>6 DEF InOrder
  <2> HIDE DEF rank, c
  <2> QED BY <2>1 DEF InOrder, c
<1> HIDE DEF rank, list, c, below
<1>8. list \in Seq(S) /\ Len(list) = c /\ DOMAIN list = 1..c
  BY <1>1, <1>7
<1>9. \A x \in S : \E n \in 1..c : list[n] = x
  BY <1>2, <1>4, <1>6
<1>10. ASSUME NEW m \in 1..c, NEW n \in 1..c
       PROVE  m < n <=> <<list[m], list[n]>> \in R
  <2>1. CASE <<list[m], list[n]>> \in R
    BY <1>3, <1>6, <2>1
  <2>2. CASE <<list[m], list[n]>> \notin R
    <3>1. CASE list[m] = list[n]
      BY <1>1, <1>6, <2>2, <3>1
    <3>2. CASE list[m] # list[n]
      <4>1. <<list[n], list[m]>> \in R
        BY <1>6, <2>2, <3>2 DEF StrictOrder
      <4>2. n < m
        BY <1>3, <1>6, <4>1
      <4> QED BY <1>1, <2>2, <4>2
    <3> QED BY <3>1, <3>2
  <2> QED BY <2>1, <2>2
<1>11. \A m, n \in 1..c : list[m] = list[n] => m = n
  BY <1>6
<1> QED BY <1>7, <1>8, <1>9, <1>10, <1>11 DEF list, c
=============================================================================
