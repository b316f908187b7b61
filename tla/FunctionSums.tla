---------------------------- MODULE FunctionSums -----------------------------
(***************************************************************************)
(* Lemmas about SumFunctionOnSet(f, S), the sum of f[x] for the x of a     *)
(* finite set S: the cap of a parent is a condition on such sums.  The     *)
(* library defines it by a recursive function on the subsets of S, so that *)
(* its defining equation (SumStep) comes first and the rest follows, each  *)
(* by looking at a smallest set for which it would be wrong.               *)
(***************************************************************************)
EXTENDS FiniteSetsExt, FiniteSetTheorems, WellFoundedInduction, TLAPS

Element(s) == CHOOSE x \in s : TRUE

\* g adds up f on the subsets of S.
Adds(g, f, S) ==
    g = [s \in SUBSET S |-> IF s = {} THEN 0 ELSE f[Element(s)] + g[s \ {Element(s)}]]

Adder(f, S) == CHOOSE g : Adds(g, f, S)

\* A set of subsets of a finite set has a smallest member: what the lemmas below
\* use for induction.
LEMMA SmallestSet ==
    ASSUME NEW S, IsFiniteSet(S), NEW B \in SUBSET (SUBSET S), B # {}
    PROVE  \E T \in B : \A U \in B : U \subseteq T => U = T
  <1>1. IsWellFoundedOn(StrictSubsetOrdering(S), SUBSET S)
    BY FS_StrictSubsetOrderingWellFounded, FS_FiniteSubsetsOfFinite
  <1>2. PICK T \in B : \A U \in B : ~ (<<U, T>> \in StrictSubsetOrdering(S))
    BY <1>1, WFMin
  <1>3. \A U \in B : U \subseteq T => U = T
    BY <1>2 DEF StrictSubsetOrdering
  <1>4. QED
    BY <1>3

LEMMA ElementIsMember == ASSUME NEW s, s # {} PROVE Element(s) \in s
  BY DEF Element

\* The library's fold is the chosen recursive function, applied to the whole set.
LEMMA SumIsAdder ==
    ASSUME NEW f, NEW S
    PROVE  SumFunctionOnSet(f, S) = Adder(f, S)[S]
  BY DEF SumFunctionOnSet, FoldFunctionOnSet, MapThenFoldSet, Adder, Adds, Element

\* Two functions that add up f agree on the sets that both know.
LEMMA AddersAgree ==
    ASSUME NEW f, NEW S, NEW T, NEW g, NEW h, IsFiniteSet(S), T \subseteq S,
           Adds(g, f, S), Adds(h, f, T)
    PROVE  g[T] = h[T]
  <1> DEFINE Bad == {U \in SUBSET T : g[U] # h[U]}
  <1>1. IsFiniteSet(T)
    BY FS_Subset
  <1>2. SUFFICES ASSUME Bad # {} PROVE FALSE
    OBVIOUS
  <1>3. PICK U \in Bad : \A V \in Bad : V \subseteq U => V = U
    <2>1. Bad \in SUBSET (SUBSET T)
      OBVIOUS
    <2> HIDE DEF Bad
    <2>2. QED
      BY <1>1, <1>2, <2>1, SmallestSet
  <1>4. U # {}
    BY <1>3 DEF Adds
  <1>5. Element(U) \in U
    BY <1>4, ElementIsMember
  <1>6. g[U \ {Element(U)}] = h[U \ {Element(U)}]
    BY <1>3, <1>5
  <1>7. g[U] = f[Element(U)] + g[U \ {Element(U)}] /\ h[U] = f[Element(U)] + h[U \ {Element(U)}]
    BY <1>4 DEF Adds
  <1>8. QED
    BY <1>3, <1>6, <1>7

\* Every finite set has one, so that the chosen function is one.
LEMMA AdderAdds ==
    ASSUME NEW f, NEW S, IsFiniteSet(S)
    PROVE  Adds(Adder(f, S), f, S)
  <1> DEFINE Bad == {U \in SUBSET S : \A g : ~ Adds(g, f, U)}
  <1>1. SUFFICES ASSUME Bad # {} PROVE FALSE
    <2>1. Bad = {} => \E g : Adds(g, f, S)
      OBVIOUS
    <2>2. QED
      BY <2>1, <1>1 DEF Adder
  <1>2. PICK T \in Bad : \A V \in Bad : V \subseteq T => V = T
    <2>1. Bad \in SUBSET (SUBSET S)
      OBVIOUS
    <2> HIDE DEF Bad
    <2>2. QED
      BY <1>1, <2>1, SmallestSet
  <1>3. \A U \in SUBSET T : U # T => Adds(Adder(f, U), f, U)
    <2>1. \A U \in SUBSET T : U # T => \E g : Adds(g, f, U)
      BY <1>2
    <2>2. QED
      BY <2>1 DEF Adder
  <1> DEFINE rest(s) == s \ {Element(s)}
             h == [s \in SUBSET T |-> IF s = {} THEN 0 ELSE f[Element(s)] + Adder(f, rest(s))[rest(s)]]
  <1>4. ASSUME NEW s \in SUBSET T, s # {}
        PROVE  h[rest(s)] = Adder(f, rest(s))[rest(s)]
    <2>1. Element(s) \in s
      BY <1>4, ElementIsMember
    <2>2. rest(s) \in SUBSET T /\ rest(s) # T
      BY <2>1
    <2> DEFINE U == rest(s)
    <2>3. Adds(Adder(f, U), f, U)
      BY <2>2, <1>3
    <2>4. CASE U = {}
      BY <2>2, <2>3, <2>4 DEF Adds
    <2>5. CASE U # {}
      <3>1. Element(U) \in U
        BY <2>5, ElementIsMember
      <3> DEFINE V == U \ {Element(U)}
      <3>2. V \in SUBSET T /\ V # T /\ V \subseteq U
        BY <2>2, <3>1
      <3>3. Adds(Adder(f, V), f, V)
        BY <3>2, <1>3
      <3>4. IsFiniteSet(U)
        <4>1. U \in SUBSET S
          BY <2>2
        <4>2. QED
          BY <4>1, FS_Subset
      <3>5. Adder(f, U)[V] = Adder(f, V)[V]
        <4> HIDE DEF V, U
        <4> QED
          BY <2>3, <3>2, <3>3, <3>4, AddersAgree
      <3>6. Adder(f, U)[U] = f[Element(U)] + Adder(f, U)[V]
        BY <2>3, <2>5 DEF Adds
      <3>7. h[U] = f[Element(U)] + Adder(f, V)[V]
        BY <2>2, <2>5
      <3>8. QED
        BY <3>5, <3>6, <3>7
    <2>6. QED
      BY <2>4, <2>5
  <1>5. Adds(h, f, T)
    <2>1. \A s \in SUBSET T :
             (IF s = {} THEN 0 ELSE f[Element(s)] + Adder(f, rest(s))[rest(s)])
                = (IF s = {} THEN 0 ELSE f[Element(s)] + h[rest(s)])
      <3> HIDE DEF h
      <3> QED BY <1>4
    <2>2. h = [s \in SUBSET T |-> IF s = {} THEN 0 ELSE f[Element(s)] + h[rest(s)]]
      BY <2>1
    <2>3. QED
      BY <2>2 DEF Adds
  <1>6. QED
    BY <1>2, <1>5

---------------------------------------------------------------------------

\* The sum of nothing.
LEMMA SumOfNone == \A f : SumFunctionOnSet(f, {}) = 0
  <1> TAKE f
  <1>1. IsFiniteSet({})
    BY FS_EmptySet
  <1>2. Adds(Adder(f, {}), f, {})
    BY <1>1, AdderAdds
  <1>3. Adder(f, {})[{}] = 0
    BY <1>2 DEF Adds
  <1>4. QED
    BY <1>3, SumIsAdder

\* The equation that the recursion stands for.
LEMMA SumStep ==
    ASSUME NEW f, NEW S, IsFiniteSet(S), S # {}
    PROVE  \E x \in S : SumFunctionOnSet(f, S) = f[x] + SumFunctionOnSet(f, S \ {x})
  <1> DEFINE x == Element(S)  T == S \ {x}
  <1>1. x \in S
    BY ElementIsMember
  <1>2. IsFiniteSet(T) /\ T \subseteq S
    BY FS_RemoveElement
  <1>3. Adds(Adder(f, S), f, S) /\ Adds(Adder(f, T), f, T)
    <2> HIDE DEF T
    <2> QED BY <1>2, AdderAdds
  <1>4. Adder(f, S)[S] = f[x] + Adder(f, S)[T]
    BY <1>3 DEF Adds
  <1>5. Adder(f, S)[T] = Adder(f, T)[T]
    <2> HIDE DEF T
    <2> QED BY <1>2, <1>3, AddersAgree
  <1>6. SumFunctionOnSet(f, S) = f[x] + SumFunctionOnSet(f, T)
    <2> HIDE DEF T, x
    <2> QED BY <1>4, <1>5, SumIsAdder
  <1>7. QED
    BY <1>1, <1>6

\* A sum of naturals is one.
LEMMA SumType ==
    ASSUME NEW f, NEW S, IsFiniteSet(S), \A x \in S : f[x] \in Nat
    PROVE  SumFunctionOnSet(f, S) \in Nat
  <1> DEFINE Bad == {U \in SUBSET S : SumFunctionOnSet(f, U) \notin Nat}
  <1>1. SUFFICES ASSUME Bad # {} PROVE FALSE
    OBVIOUS
  <1>2. PICK T \in Bad : \A V \in Bad : V \subseteq T => V = T
    <2>1. Bad \in SUBSET (SUBSET S)
      OBVIOUS
    <2> HIDE DEF Bad
    <2>2. QED
      BY <1>1, <2>1, SmallestSet
  <1>3. T # {} /\ IsFiniteSet(T)
    <2>1. T \in SUBSET S /\ SumFunctionOnSet(f, T) \notin Nat
      BY <1>2
    <2>2. SumFunctionOnSet(f, {}) \in Nat
      BY SumOfNone
    <2>3. IsFiniteSet(T)
      BY <2>1, FS_Subset
    <2>4. QED
      BY <2>1, <2>2, <2>3
  <1>4. PICK x \in T : SumFunctionOnSet(f, T) = f[x] + SumFunctionOnSet(f, T \ {x})
    BY <1>3, SumStep
  <1>5. SumFunctionOnSet(f, T \ {x}) \in Nat /\ f[x] \in Nat
    BY <1>2
  <1>6. SumFunctionOnSet(f, T) \in Nat
    BY <1>4, <1>5
  <1>7. QED
    BY <1>2, <1>6

\* A sum of zeros is zero.
LEMMA SumOfZeros ==
    ASSUME NEW f, NEW S, IsFiniteSet(S), \A x \in S : f[x] = 0
    PROVE  SumFunctionOnSet(f, S) = 0
  <1> DEFINE Bad == {U \in SUBSET S : SumFunctionOnSet(f, U) # 0}
  <1>1. SUFFICES ASSUME Bad # {} PROVE FALSE
    OBVIOUS
  <1>2. PICK T \in Bad : \A V \in Bad : V \subseteq T => V = T
    <2>1. Bad \in SUBSET (SUBSET S)
      OBVIOUS
    <2> HIDE DEF Bad
    <2>2. QED
      BY <1>1, <2>1, SmallestSet
  <1>3. T # {} /\ IsFiniteSet(T)
    <2>1. T \in SUBSET S /\ SumFunctionOnSet(f, T) # 0
      BY <1>2
    <2>2. QED
      BY <2>1, SumOfNone, FS_Subset
  <1>4. PICK x \in T : SumFunctionOnSet(f, T) = f[x] + SumFunctionOnSet(f, T \ {x})
    BY <1>3, SumStep
  <1>5. SumFunctionOnSet(f, T \ {x}) = 0 /\ f[x] = 0
    BY <1>2
  <1>6. SumFunctionOnSet(f, T) = 0
    BY <1>4, <1>5
  <1>7. QED
    BY <1>2, <1>6

\* Arithmetic that the sums need.
LEMMA ExchangeTerms == \A a, b, c \in Nat : a + (b + c) = b + (a + c)
  OBVIOUS

LEMMA PartOfSum == \A a, b \in Nat : a + 0 = a /\ a <= a + b
  OBVIOUS

\* One term taken out, whichever it is.
LEMMA SumWithout ==
    ASSUME NEW f, NEW S, IsFiniteSet(S), \A y \in S : f[y] \in Nat, NEW x \in S
    PROVE  SumFunctionOnSet(f, S) = f[x] + SumFunctionOnSet(f, S \ {x})
  <1> DEFINE Sum(U) == SumFunctionOnSet(f, U)
             Bad == {U \in SUBSET S : \E z \in U : Sum(U) # f[z] + Sum(U \ {z})}
  <1>1. SUFFICES ASSUME Bad # {} PROVE FALSE
    OBVIOUS
  <1>2. PICK T \in Bad : \A V \in Bad : V \subseteq T => V = T
    <2>1. Bad \in SUBSET (SUBSET S)
      OBVIOUS
    <2> HIDE DEF Bad
    <2>2. QED
      BY <1>1, <2>1, SmallestSet
  <1>3. PICK z \in T : Sum(T) # f[z] + Sum(T \ {z})
    BY <1>2
  <1>4. \A U \in SUBSET T : IsFiniteSet(U) /\ Sum(U) \in Nat
    <2> TAKE U \in SUBSET T
    <2>1. U \in SUBSET S
      OBVIOUS
    <2>2. IsFiniteSet(U)
      BY <2>1, FS_Subset
    <2>3. QED
      BY <2>1, <2>2, SumType
  <1>5. PICK p \in T : Sum(T) = f[p] + Sum(T \ {p})
    BY <1>3, <1>4, SumStep
  <1>6. p # z
    BY <1>3, <1>5
  <1>7. \A U \in SUBSET T : U # T => \A y \in U : Sum(U) = f[y] + Sum(U \ {y})
    <2> TAKE U \in SUBSET T
    <2>1. U \in SUBSET S
      OBVIOUS
    <2>2. U \in Bad => U = T
      BY <1>2
    <2> HIDE DEF Sum
    <2>3. QED
      BY <2>1, <2>2
  <1>8. /\ Sum(T \ {p}) = f[z] + Sum((T \ {p}) \ {z})
        /\ Sum(T \ {z}) = f[p] + Sum((T \ {z}) \ {p})
    <2>1. /\ T \ {p} \in SUBSET T /\ T \ {p} # T /\ z \in T \ {p}
          /\ T \ {z} \in SUBSET T /\ T \ {z} # T /\ p \in T \ {z}
      BY <1>6
    <2> HIDE DEF Sum
    <2>2. QED
      BY <1>7, <2>1
  <1>9. (T \ {p}) \ {z} = (T \ {z}) \ {p}
    OBVIOUS
  <1>10. f[p] \in Nat /\ f[z] \in Nat /\ Sum((T \ {z}) \ {p}) \in Nat
    BY <1>4
  <1> HIDE DEF Sum
  <1>11. f[p] + (f[z] + Sum((T \ {z}) \ {p})) = f[z] + (f[p] + Sum((T \ {z}) \ {p}))
    BY <1>10, ExchangeTerms
  <1>12. QED
    BY <1>3, <1>5, <1>8, <1>9, <1>11

\* One term added.
LEMMA SumWith ==
    ASSUME NEW f, NEW S, IsFiniteSet(S), NEW x, x \notin S,
           \A y \in S \cup {x} : f[y] \in Nat
    PROVE  SumFunctionOnSet(f, S \cup {x}) = f[x] + SumFunctionOnSet(f, S)
  <1> DEFINE T == S \cup {x}
  <1>1. IsFiniteSet(T) /\ x \in T /\ T \ {x} = S
    BY FS_AddElement
  <1> HIDE DEF T
  <1>2. \A y \in T : f[y] \in Nat
    BY DEF T
  <1>3. SumFunctionOnSet(f, T) = f[x] + SumFunctionOnSet(f, T \ {x})
    BY <1>1, <1>2, SumWithout
  <1>4. QED
    BY <1>1, <1>3 DEF T

\* Only the values on the set count.
LEMMA SumSame ==
    ASSUME NEW f, NEW g, NEW S, IsFiniteSet(S),
           \A x \in S : f[x] = g[x]
    PROVE  SumFunctionOnSet(f, S) = SumFunctionOnSet(g, S)
  <1>1. Adds(Adder(f, S), f, S) /\ Adds(Adder(g, S), g, S)
    BY AdderAdds
  <1>2. \A s \in SUBSET S : s # {} => f[Element(s)] = g[Element(s)]
    BY ElementIsMember
  <1>3. Adds(Adder(g, S), f, S)
    BY <1>1, <1>2 DEF Adds
  <1>4. Adder(f, S)[S] = Adder(g, S)[S]
    BY <1>1, <1>3, AddersAgree
  <1>5. QED
    BY <1>4, SumIsAdder

\* Terms that do not shrink do not shrink the sum.
LEMMA SumMonotone ==
    ASSUME NEW f, NEW g, NEW S, IsFiniteSet(S),
           \A x \in S : f[x] \in Nat /\ g[x] \in Nat /\ f[x] <= g[x]
    PROVE  SumFunctionOnSet(f, S) <= SumFunctionOnSet(g, S)
  <1> DEFINE Bad == {U \in SUBSET S : ~ (SumFunctionOnSet(f, U) <= SumFunctionOnSet(g, U))}
  <1>1. SUFFICES ASSUME Bad # {} PROVE FALSE
    OBVIOUS
  <1>2. PICK T \in Bad : \A V \in Bad : V \subseteq T => V = T
    <2>1. Bad \in SUBSET (SUBSET S)
      OBVIOUS
    <2> HIDE DEF Bad
    <2>2. QED
      BY <1>1, <2>1, SmallestSet
  <1>3. T # {} /\ IsFiniteSet(T) /\ T \subseteq S
    <2>1. T \in SUBSET S /\ ~ (SumFunctionOnSet(f, T) <= SumFunctionOnSet(g, T))
      BY <1>2
    <2>2. SumFunctionOnSet(f, {}) <= SumFunctionOnSet(g, {})
      <3>1. SumFunctionOnSet(f, {}) = 0 /\ SumFunctionOnSet(g, {}) = 0
        BY SumOfNone
      <3>2. QED
        BY <3>1
    <2>3. IsFiniteSet(T)
      BY <2>1, FS_Subset
    <2>4. QED
      BY <2>1, <2>2, <2>3
  <1>4. PICK x : x \in T
    BY <1>3
  <1> DEFINE R == T \ {x}
  <1>5. SumFunctionOnSet(f, T) = f[x] + SumFunctionOnSet(f, R)
    BY <1>3, <1>4, SumWithout
  <1>6. SumFunctionOnSet(g, T) = g[x] + SumFunctionOnSet(g, R)
    BY <1>3, <1>4, SumWithout
  <1>7. SumFunctionOnSet(f, R) <= SumFunctionOnSet(g, R)
    BY <1>2, <1>4
  <1>8. SumFunctionOnSet(f, R) \in Nat /\ SumFunctionOnSet(g, R) \in Nat
    <2>1. IsFiniteSet(R) /\ R \subseteq S
      BY <1>3, FS_RemoveElement
    <2> HIDE DEF R
    <2>2. QED
      BY <2>1, SumType
  <1>9. f[x] \in Nat /\ g[x] \in Nat /\ f[x] <= g[x]
    BY <1>3, <1>4
  <1> HIDE DEF R
  <1>10. SumFunctionOnSet(f, T) <= SumFunctionOnSet(g, T)
    BY <1>5, <1>6, <1>7, <1>8, <1>9
  <1>11. QED
    BY <1>2, <1>10

\* The sums of two disjoint sets make that of their union.
LEMMA SumUnion ==
    ASSUME NEW f, NEW S, NEW T, IsFiniteSet(S), IsFiniteSet(T), S \cap T = {},
           \A x \in S \cup T : f[x] \in Nat
    PROVE  SumFunctionOnSet(f, S \cup T) = SumFunctionOnSet(f, S) + SumFunctionOnSet(f, T)
  <1> DEFINE Sum(U) == SumFunctionOnSet(f, U)
             Bad == {U \in SUBSET T : Sum(S \cup U) # Sum(S) + Sum(U)}
  <1>1. SUFFICES ASSUME Bad # {} PROVE FALSE
    OBVIOUS
  <1>2. PICK B \in Bad : \A V \in Bad : V \subseteq B => V = B
    <2>1. Bad \in SUBSET (SUBSET T)
      OBVIOUS
    <2> HIDE DEF Bad
    <2>2. QED
      BY <1>1, <2>1, SmallestSet
  <1>3. IsFiniteSet(S \cup T)
    BY FS_Union
  <1>4. \A U \in SUBSET (S \cup T) : IsFiniteSet(U) /\ Sum(U) \in Nat
    <2> TAKE U \in SUBSET (S \cup T)
    <2>1. IsFiniteSet(U)
      BY <1>3, FS_Subset
    <2>2. QED
      BY <2>1, SumType
  <1>5. B # {}
    <2>1. Sum({}) = 0 /\ S \cup {} = S /\ Sum(S) \in Nat
      BY <1>4, SumOfNone
    <2> HIDE DEF Sum
    <2>2. QED
      BY <1>2, <2>1, PartOfSum
  <1>6. PICK x : x \in B
    BY <1>5
  <1> DEFINE R == B \ {x}
  <1>7. IsFiniteSet(B) /\ IsFiniteSet(S \cup B)
    BY <1>2, <1>4
  <1>8. Sum(B) = f[x] + Sum(R)
    BY <1>2, <1>6, <1>7, SumWithout
  <1>9. Sum(S \cup B) = f[x] + Sum((S \cup B) \ {x})
    BY <1>2, <1>6, <1>7, SumWithout
  <1>10. (S \cup B) \ {x} = S \cup R
    BY <1>2, <1>6
  <1>11. Sum(S \cup R) = Sum(S) + Sum(R)
    BY <1>2, <1>6
  <1>12. Sum(S) \in Nat /\ Sum(R) \in Nat /\ f[x] \in Nat
    BY <1>2, <1>4, <1>6
  <1> HIDE DEF Sum, R
  <1>13. Sum(S) + (f[x] + Sum(R)) = f[x] + (Sum(S) + Sum(R))
    BY <1>12, ExchangeTerms
  <1>14. Sum(S \cup B) = Sum(S) + Sum(B)
    BY <1>8, <1>9, <1>10, <1>11, <1>13
  <1>15. QED
    BY <1>2, <1>14

\* Fewer terms do not make a larger sum.
LEMMA SumOfPart ==
    ASSUME NEW f, NEW S, IsFiniteSet(S), NEW T \in SUBSET S, \A x \in S : f[x] \in Nat
    PROVE  SumFunctionOnSet(f, T) <= SumFunctionOnSet(f, S)
  <1> DEFINE R == S \ T
  <1>1. IsFiniteSet(T) /\ IsFiniteSet(R) /\ T \cap R = {} /\ T \cup R = S
    BY FS_Subset, FS_Difference
  <1>2. \A x \in T \cup R : f[x] \in Nat
    OBVIOUS
  <1> HIDE DEF R
  <1>3. SumFunctionOnSet(f, T \cup R) = SumFunctionOnSet(f, T) + SumFunctionOnSet(f, R)
    BY <1>1, <1>2, SumUnion
  <1>4. SumFunctionOnSet(f, T) \in Nat /\ SumFunctionOnSet(f, R) \in Nat
    BY <1>1, <1>2, SumType
  <1>5. QED
    BY <1>1, <1>3, <1>4, PartOfSum
=============================================================================
