-------------------------------- MODULE Sums --------------------------------
(***************************************************************************)
(* The sum of a function over a finite set, SumFunctionOnSet: what it is,  *)
(* and how it changes with the function.                                   *)
(*                                                                         *)
(* The sum is a recursive function on the subsets of the set.  The proofs  *)
(* are inductions over these subsets, in the form of a smallest            *)
(* counterexample (MinimalSubset): the set of the subsets for which a      *)
(* statement fails is empty, because it would have a member from which no  *)
(* element can be taken without making the statement true.                 *)
(***************************************************************************)
EXTENDS Functions, FiniteSetTheorems, TLAPS

\* One of the elements of s, the one a fold takes first.
Picked(s) == CHOOSE x \in s : TRUE

\* g adds up f over every subset of T.
AddsUp(g, f, T) ==
    g = [s \in SUBSET T |->
           IF s = {} THEN 0 ELSE f[Picked(s)] + g[s \ {Picked(s)}]]

------------------------------------------------------------------------------
(* Induction and recursion over the subsets of a finite set *)

\* Among subsets of a finite set there is one that no other is a part of.
LEMMA MinimalSubset ==
    ASSUME NEW S, IsFiniteSet(S), NEW Bad, Bad \subseteq SUBSET S, Bad # {}
    PROVE  \E T \in Bad : \A x \in T : T \ {x} \notin Bad
<1>1. /\ IsWellFoundedOn(StrictSubsetOrdering(S), FiniteSubsetsOf(S))
      /\ FiniteSubsetsOf(S) = SUBSET S
    BY FS_StrictSubsetOrderingWellFounded, FS_FiniteSubsetsOfFinite
<1>2. PICK T \in Bad : \A U \in Bad : ~(<<U, T>> \in StrictSubsetOrdering(S))
    <2> DEFINE R == StrictSubsetOrdering(S)
    <2>1. IsWellFoundedOn(R, SUBSET S)  BY <1>1
    <2> HIDE DEF R
    <2>2. \E T \in Bad : \A U \in Bad : ~(<<U, T>> \in R)
        BY <2>1, WFMin
    <2> QED  BY <2>2 DEF R
<1>3. ASSUME NEW x \in T, T \ {x} \in Bad  PROVE FALSE
    <2>1. <<T \ {x}, T>> \in StrictSubsetOrdering(S)
        BY <1>3 DEF StrictSubsetOrdering
    <2> QED  BY <2>1, <1>2, <1>3
<1> QED  BY <1>3

\* A fold takes an element of its set.
LEMMA PickedIn == \A s : s # {} => Picked(s) \in s
BY DEF Picked

\* Two functions that add up f agree where both are defined.
LEMMA AddsUpOnce ==
    ASSUME NEW f, NEW T, IsFiniteSet(T), NEW U, NEW g, NEW h,
           AddsUp(g, f, T), AddsUp(h, f, U)
    PROVE  \A s \in SUBSET T : s \subseteq U => g[s] = h[s]
<1> DEFINE Bad == {s \in SUBSET T : s \subseteq U /\ g[s] # h[s]}
<1> SUFFICES ASSUME Bad # {} PROVE FALSE  OBVIOUS
<1>1. PICK s \in Bad : \A x \in s : s \ {x} \notin Bad
    <2>1. Bad \subseteq SUBSET T  OBVIOUS
    <2> HIDE DEF Bad
    <2> QED  BY <2>1, MinimalSubset
<1>2. CASE s = {}
    <2>1. g[s] = 0 /\ h[s] = 0  BY <1>2, {} \in SUBSET T, {} \in SUBSET U DEF AddsUp
    <2> QED  BY <2>1
<1>3. CASE s # {}
    <2> DEFINE x == Picked(s)
    <2>1. x \in s  BY <1>3, PickedIn
    <2> HIDE DEF x
    <2>2. /\ g[s] = f[x] + g[s \ {x}]
          /\ h[s] = f[x] + h[s \ {x}]
        BY <1>3, s \in SUBSET T, s \in SUBSET U DEF AddsUp, x
    <2>3. g[s \ {x}] = h[s \ {x}]  BY <1>1, <2>1
    <2> QED  BY <2>2, <2>3
<1> QED  BY <1>2, <1>3

\* There is one: from those for T without one element, one for T is made.
LEMMA AddsUpExists ==
    ASSUME NEW f, NEW S, IsFiniteSet(S)
    PROVE  \E g : AddsUp(g, f, S)
<1> DEFINE Bad == {T \in SUBSET S : ~ \E g : AddsUp(g, f, T)}
<1> SUFFICES ASSUME Bad # {} PROVE FALSE  OBVIOUS
<1>1. PICK T \in Bad : \A x \in T : T \ {x} \notin Bad
    <2>1. Bad \subseteq SUBSET S  OBVIOUS
    <2> HIDE DEF Bad
    <2> QED  BY <2>1, MinimalSubset
<1>2. IsFiniteSet(T)  BY FS_Subset
<1> DEFINE Sub(x) == CHOOSE g : AddsUp(g, f, T \ {x})
<1>3. \A x \in T : AddsUp(Sub(x), f, T \ {x})
    BY <1>1
<1>4. \A x, y \in T : \A s \in SUBSET (T \ {x}) : s \subseteq T \ {y} => Sub(x)[s] = Sub(y)[s]
    <2> SUFFICES ASSUME NEW x \in T, NEW y \in T
                 PROVE  \A s \in SUBSET (T \ {x}) : s \subseteq T \ {y} => Sub(x)[s] = Sub(y)[s]
        OBVIOUS
    <2>1. AddsUp(Sub(x), f, T \ {x}) /\ AddsUp(Sub(y), f, T \ {y})  BY <1>3
    <2>2. IsFiniteSet(T \ {x})  BY <1>2, FS_RemoveElement
    <2> HIDE DEF Sub
    <2> QED  BY <2>1, <2>2, AddsUpOnce
<1> DEFINE x0 == Picked(T)
           Out(s) == CHOOSE x \in T : x \notin s
           G == [s \in SUBSET T |->
                   IF s = {} THEN 0
                   ELSE IF s = T THEN f[x0] + Sub(x0)[T \ {x0}]
                   ELSE Sub(Out(s))[s]]
<1>5. ASSUME NEW s \in SUBSET T, s # {}, s # T
      PROVE  /\ Out(s) \in T  /\ Out(s) \notin s
             /\ G[s] = Sub(Out(s))[s]
    BY <1>5
<1>6. ASSUME NEW s \in SUBSET T, NEW x \in T, x \notin s
      PROVE  G[s] = Sub(x)[s]
    <2>1. CASE s = {}
        <3>1. AddsUp(Sub(x), f, T \ {x})  BY <1>3, <1>6
        <3> HIDE DEF Sub
        <3>2. Sub(x)[{}] = 0
            BY <3>1, {} \in SUBSET (T \ {x}) DEF AddsUp
        <3> QED  BY <2>1, <3>2
    <2>2. CASE s # {}
        <3>1. G[s] = Sub(Out(s))[s] /\ Out(s) \in T /\ Out(s) \notin s
            BY <1>5, <1>6, <2>2
        <3> HIDE DEF G, Out, Sub
        <3> QED  BY <3>1, <1>4, <1>6
    <2> QED  BY <2>1, <2>2
<1>7. ASSUME NEW s \in SUBSET T, s # {}
      PROVE  G[s] = f[Picked(s)] + G[s \ {Picked(s)}]
    <2>1. Picked(s) \in s  BY <1>7, PickedIn
    <2>2. G[s \ {Picked(s)}] = Sub(Picked(s))[s \ {Picked(s)}]
        BY <2>1, <1>6
    <2>3. CASE s = T
        <3>1. G[s] = f[Picked(s)] + Sub(Picked(s))[s \ {Picked(s)}]
            BY <2>3, <1>7
        <3> QED  BY <3>1, <2>2
    <2>4. CASE s # T
        <3>1. PICK y \in T : y \notin s  BY <2>4
        <3>2. G[s] = Sub(y)[s] /\ G[s \ {Picked(s)}] = Sub(y)[s \ {Picked(s)}]
            BY <3>1, <1>6, <2>1
        <3>3. AddsUp(Sub(y), f, T \ {y})  BY <1>3
        <3> HIDE DEF G, Sub
        <3>4. Sub(y)[s] = f[Picked(s)] + Sub(y)[s \ {Picked(s)}]
            BY <3>3, <3>1, <1>7 DEF AddsUp
        <3> QED  BY <3>2, <3>4
    <2> QED  BY <2>3, <2>4
<1>8. G[{}] = 0  OBVIOUS
<1>9. DOMAIN G = SUBSET T /\ G = [s \in SUBSET T |-> G[s]]  OBVIOUS
<1>10. AddsUp(G, f, T)
    <2> HIDE DEF G
    <2> QED  BY <1>7, <1>8, <1>9 DEF AddsUp
<1> QED  BY <1>10

\* The sums over the subsets of S add f up.
LEMMA SumAddsUp ==
    ASSUME NEW f, NEW S, IsFiniteSet(S)
    PROVE  \E g : AddsUp(g, f, S) /\ \A T \in SUBSET S : SumFunctionOnSet(f, T) = g[T]
<1>1. ASSUME NEW T, IsFiniteSet(T)
      PROVE  \E g : AddsUp(g, f, T) /\ SumFunctionOnSet(f, T) = g[T]
    <2> DEFINE g == CHOOSE h : AddsUp(h, f, T)
    <2>1. AddsUp(g, f, T)  BY <1>1, AddsUpExists
    <2>2. SumFunctionOnSet(f, T) = g[T]
        BY DEF SumFunctionOnSet, FoldFunctionOnSet, MapThenFoldSet, AddsUp, Picked
    <2> QED  BY <2>1, <2>2
<1>2. PICK g : AddsUp(g, f, S)  BY AddsUpExists
<1>3. ASSUME NEW T \in SUBSET S  PROVE SumFunctionOnSet(f, T) = g[T]
    <2>1. IsFiniteSet(T)  BY FS_Subset
    <2>2. PICK h : AddsUp(h, f, T) /\ SumFunctionOnSet(f, T) = h[T]  BY <1>1, <2>1
    <2> QED  BY <2>1, <2>2, <1>2, AddsUpOnce
<1> QED  BY <1>2, <1>3

------------------------------------------------------------------------------
(* Sums *)

\* The sum over the empty set is zero.
LEMMA SumEmpty ==
    ASSUME NEW f
    PROVE  SumFunctionOnSet(f, {}) = 0
<1>1. IsFiniteSet({})  BY FS_EmptySet
<1>2. PICK g : /\ AddsUp(g, f, {})
               /\ \A T \in SUBSET {} : SumFunctionOnSet(f, T) = g[T]
    BY <1>1, SumAddsUp
<1>3. g[{}] = 0  BY <1>2, {} \in SUBSET {} DEF AddsUp
<1> QED  BY <1>2, <1>3, {} \in SUBSET {}

\* The sum takes its elements out one after the other.
LEMMA SumPicked ==
    ASSUME NEW f, NEW S, IsFiniteSet(S), S # {}
    PROVE  SumFunctionOnSet(f, S)
              = f[Picked(S)] + SumFunctionOnSet(f, S \ {Picked(S)})
<1>1. PICK g : /\ AddsUp(g, f, S)
               /\ \A T \in SUBSET S : SumFunctionOnSet(f, T) = g[T]
    BY SumAddsUp
<1>2. g[S] = f[Picked(S)] + g[S \ {Picked(S)}]
    BY <1>1, S \in SUBSET S DEF AddsUp
<1>3. /\ SumFunctionOnSet(f, S) = g[S]
      /\ SumFunctionOnSet(f, S \ {Picked(S)}) = g[S \ {Picked(S)}]
    BY <1>1, S \in SUBSET S, S \ {Picked(S)} \in SUBSET S
<1> QED  BY <1>2, <1>3

\* A sum of natural numbers is one.
LEMMA SumNat ==
    ASSUME NEW f, NEW S, IsFiniteSet(S), \A x \in S : f[x] \in Nat
    PROVE  SumFunctionOnSet(f, S) \in Nat
<1> DEFINE Bad == {T \in SUBSET S : SumFunctionOnSet(f, T) \notin Nat}
<1> SUFFICES ASSUME Bad # {} PROVE FALSE  BY S \in SUBSET S
<1>1. PICK T \in Bad : \A x \in T : T \ {x} \notin Bad
    <2>1. Bad \subseteq SUBSET S  OBVIOUS
    <2> HIDE DEF Bad
    <2> QED  BY <2>1, MinimalSubset
<1>2. T # {}  BY SumEmpty
<1>3. Picked(T) \in T /\ IsFiniteSet(T)  BY <1>2, PickedIn, FS_Subset
<1>4. SumFunctionOnSet(f, T \ {Picked(T)}) \in Nat  BY <1>1, <1>3
<1>5. SumFunctionOnSet(f, T) = f[Picked(T)] + SumFunctionOnSet(f, T \ {Picked(T)})
    BY <1>2, <1>3, SumPicked
<1>6. f[Picked(T)] \in Nat  BY <1>3
<1> QED  BY <1>4, <1>5, <1>6

\* Any element may be the first.
LEMMA SumRemove ==
    ASSUME NEW f, NEW S, IsFiniteSet(S), \A x \in S : f[x] \in Nat, NEW y \in S
    PROVE  SumFunctionOnSet(f, S) = f[y] + SumFunctionOnSet(f, S \ {y})
<1> DEFINE F(T) == SumFunctionOnSet(f, T)
           Bad == {T \in SUBSET S : \E x \in T : F(T) # f[x] + F(T \ {x})}
<1> SUFFICES ASSUME Bad # {} PROVE FALSE  BY S \in SUBSET S
<1>1. PICK T \in Bad : \A x \in T : T \ {x} \notin Bad
    <2>1. Bad \subseteq SUBSET S  OBVIOUS
    <2> HIDE DEF Bad
    <2> QED  BY <2>1, MinimalSubset
<1>2. PICK x \in T : F(T) # f[x] + F(T \ {x})  OBVIOUS
<1> DEFINE p == Picked(T)
<1>3. p \in T /\ IsFiniteSet(T) /\ T # {}  BY PickedIn, FS_Subset
<1>4. F(T) = f[p] + F(T \ {p})  BY <1>3, SumPicked
<1>5. x # p  BY <1>2, <1>4
<1>6. F(T \ {p}) = f[x] + F((T \ {p}) \ {x})  BY <1>1, <1>3, <1>5
<1>7. F(T \ {x}) = f[p] + F((T \ {x}) \ {p})  BY <1>1, <1>3, <1>5
<1>8. F((T \ {p}) \ {x}) = F((T \ {x}) \ {p})
    BY (T \ {p}) \ {x} = (T \ {x}) \ {p}
<1>9. F((T \ {x}) \ {p}) \in Nat
    <2>1. IsFiniteSet((T \ {x}) \ {p})  BY <1>3, FS_RemoveElement
    <2> QED  BY <2>1, SumNat
<1>10. f[x] \in Nat /\ f[p] \in Nat  BY <1>3
<1> HIDE DEF F, p
<1> QED  BY <1>2, <1>4, <1>6, <1>7, <1>8, <1>9, <1>10

\* The sum depends on the values on the set only.
LEMMA SumSame ==
    ASSUME NEW f, NEW g, NEW S, IsFiniteSet(S), \A x \in S : f[x] = g[x]
    PROVE  SumFunctionOnSet(f, S) = SumFunctionOnSet(g, S)
<1> DEFINE Bad == {T \in SUBSET S : SumFunctionOnSet(f, T) # SumFunctionOnSet(g, T)}
<1> SUFFICES ASSUME Bad # {} PROVE FALSE  BY S \in SUBSET S
<1>1. PICK T \in Bad : \A x \in T : T \ {x} \notin Bad
    <2>1. Bad \subseteq SUBSET S  OBVIOUS
    <2> HIDE DEF Bad
    <2> QED  BY <2>1, MinimalSubset
<1>2. T # {}  BY SumEmpty
<1>3. Picked(T) \in T /\ IsFiniteSet(T)  BY <1>2, PickedIn, FS_Subset
<1>4. /\ SumFunctionOnSet(f, T) = f[Picked(T)] + SumFunctionOnSet(f, T \ {Picked(T)})
      /\ SumFunctionOnSet(g, T) = g[Picked(T)] + SumFunctionOnSet(g, T \ {Picked(T)})
    BY <1>2, <1>3, SumPicked
<1>5. SumFunctionOnSet(f, T \ {Picked(T)}) = SumFunctionOnSet(g, T \ {Picked(T)})
    BY <1>1, <1>3
<1> QED  BY <1>3, <1>4, <1>5

\* When the summed function changes at one place, the sum changes by as much.
LEMMA SumUpdate ==
    ASSUME NEW S, IsFiniteSet(S), NEW y \in S,
           NEW f, \A x \in S : f[x] \in Nat,
           NEW g, \A x \in S : g[x] \in Nat,
           \A x \in S : x # y => g[x] = f[x]
    PROVE  SumFunctionOnSet(g, S) = SumFunctionOnSet(f, S) - f[y] + g[y]
<1> DEFINE F == SumFunctionOnSet(f, S \ {y})
           G == SumFunctionOnSet(g, S \ {y})
<1>1. IsFiniteSet(S \ {y})  BY FS_RemoveElement
<1>2. F = G  BY <1>1, SumSame
<1>3. F \in Nat  BY <1>1, SumNat
<1>4. /\ SumFunctionOnSet(f, S) = f[y] + F
      /\ SumFunctionOnSet(g, S) = g[y] + G
    BY SumRemove
<1>5. f[y] \in Nat /\ g[y] \in Nat  OBVIOUS
<1> HIDE DEF F, G
<1> QED  BY <1>2, <1>3, <1>4, <1>5

\* No summand exceeds the sum.
LEMMA SumAtLeast ==
    ASSUME NEW f, NEW S, IsFiniteSet(S), \A x \in S : f[x] \in Nat, NEW y \in S
    PROVE  f[y] <= SumFunctionOnSet(f, S)
<1> DEFINE F == SumFunctionOnSet(f, S \ {y})
<1>1. F \in Nat
    <2>1. IsFiniteSet(S \ {y})  BY FS_RemoveElement
    <2> QED  BY <2>1, SumNat
<1>2. SumFunctionOnSet(f, S) = f[y] + F  BY SumRemove
<1>3. f[y] \in Nat  OBVIOUS
<1> HIDE DEF F
<1> QED  BY <1>1, <1>2, <1>3

\* The sum of zeros is zero.
LEMMA SumZero ==
    ASSUME NEW f, NEW S, IsFiniteSet(S), \A x \in S : f[x] = 0
    PROVE  SumFunctionOnSet(f, S) = 0
<1> DEFINE Bad == {T \in SUBSET S : SumFunctionOnSet(f, T) # 0}
<1> SUFFICES ASSUME Bad # {} PROVE FALSE  BY S \in SUBSET S
<1>1. PICK T \in Bad : \A x \in T : T \ {x} \notin Bad
    <2>1. Bad \subseteq SUBSET S  OBVIOUS
    <2> HIDE DEF Bad
    <2> QED  BY <2>1, MinimalSubset
<1>2. T # {}  BY SumEmpty
<1>3. Picked(T) \in T /\ IsFiniteSet(T)  BY <1>2, PickedIn, FS_Subset
<1>4. SumFunctionOnSet(f, T) = f[Picked(T)] + SumFunctionOnSet(f, T \ {Picked(T)})
    BY <1>2, <1>3, SumPicked
<1>5. SumFunctionOnSet(f, T \ {Picked(T)}) = 0  BY <1>1, <1>3
<1> QED  BY <1>3, <1>4, <1>5
=============================================================================
