------------------------------ MODULE SumFacts ------------------------------
(***************************************************************************)
(* What the sum of a function over a finite set is (SumFunctionOnSet of    *)
(* the module Functions): nothing over the empty set, and one summand more *)
(* with one element more, in whatever order the elements are taken.  The   *)
(* ledger's and the contract's proofs reason about sums by these lemmas.   *)
(*                                                                         *)
(* The sum is a recursive function on the subsets of a set.  Its equation  *)
(* is proved from the well-foundedness of the strict subset order, on a    *)
(* smallest counterexample, and so is every lemma that needs induction.    *)
(***************************************************************************)
EXTENDS Integers, FiniteSets, Functions, FiniteSetTheorems, WellFoundedInduction, TLAPS

AllFinite(C) == \A T \in C : IsFiniteSet(T)

\* A non-empty collection of finite sets has a member none of whose strict
\* subsets is one.
LEMMA SmallestSet ==
    ASSUME NEW S, NEW C, C \subseteq SUBSET S, C # {}, AllFinite(C)
    PROVE  \E T \in C : \A U \in C : U \subseteq T => U = T
<1>1. C \subseteq FiniteSubsetsOf(S)
    BY DEF FiniteSubsetsOf, AllFinite
<1>2. PICK T \in C : \A U \in C : <<U, T>> \notin StrictSubsetOrdering(S)
    BY <1>1, FS_StrictSubsetOrderingWellFounded, WFMin
<1>3. ASSUME NEW U \in C, U \subseteq T, U # T PROVE FALSE
    <2>1. <<U, T>> \in StrictSubsetOrdering(S)
        BY <1>3 DEF StrictSubsetOrdering
    <2>. QED BY <2>1, <1>2
<1>. QED BY <1>3

Smallest(T, C) == T \in C /\ \A U \in C : U \subseteq T => U = T

\* A smallest counterexample, as the proofs below take it.
LEMMA Counterexample ==
    ASSUME NEW S, IsFiniteSet(S), NEW C, C \subseteq SUBSET S, C # {}
    PROVE  \E T : Smallest(T, C)
<1>1. AllFinite(C)
    BY FS_Subset DEF AllFinite
<1>. QED BY <1>1, SmallestSet DEF Smallest

Element(s) == CHOOSE x \in s : TRUE

\* The function that sums f over every subset of T.
Sums(g, f, T) ==
    g = [s \in SUBSET T |-> IF s = {} THEN 0 ELSE f[Element(s)] + g[s \ {Element(s)}]]

SumsOf(f, T) == CHOOSE g : Sums(g, f, T)

LEMMA ElementOf == ASSUME NEW s, s # {} PROVE Element(s) \in s
BY DEF Element

\* The library's definition, with a name for its recursive function.
LEMMA SumIsLast == ASSUME NEW f, NEW S PROVE SumFunctionOnSet(f, S) = SumsOf(f, S)[S]
BY DEF SumFunctionOnSet, FoldFunctionOnSet, MapThenFoldSet, SumsOf, Sums, Element

\* Two such functions agree where both are defined.
LEMMA SumsAgree ==
    ASSUME NEW f, NEW S, IsFiniteSet(S), NEW T \in SUBSET S, NEW U \in SUBSET S,
           NEW g, NEW h, Sums(g, f, T), Sums(h, f, U),
           NEW s \in SUBSET (T \cap U)
    PROVE  g[s] = h[s]
<1>. DEFINE C == {t \in SUBSET (T \cap U) : g[t] # h[t]}
<1>1. SUFFICES ASSUME s \in C PROVE FALSE
    OBVIOUS
<1>2. C \subseteq SUBSET S /\ C # {}
    BY <1>1
<1>. HIDE DEF C
<1>3. PICK t : Smallest(t, C)
    BY <1>2, Counterexample
<1>. USE DEF C, Smallest
<1>4. t # {}
    BY <1>3 DEF Sums
<1>5. Element(t) \in t
    BY <1>4, ElementOf
<1>6. g[t \ {Element(t)}] = h[t \ {Element(t)}]
    BY <1>3, <1>5
<1>7. g[t] = f[Element(t)] + g[t \ {Element(t)}] /\ h[t] = f[Element(t)] + h[t \ {Element(t)}]
    BY <1>3, <1>4 DEF Sums
<1>. QED BY <1>3, <1>6, <1>7

LEMMA SumsOfAgree ==
    ASSUME NEW f, NEW S, IsFiniteSet(S), NEW U \in SUBSET S, NEW W \in SUBSET U,
           Sums(SumsOf(f, U), f, U), Sums(SumsOf(f, W), f, W)
    PROVE  SumsOf(f, U)[W] = SumsOf(f, W)[W]
<1>1. W \in SUBSET S /\ W \in SUBSET (U \cap W)
    OBVIOUS
<1>. QED BY <1>1, SumsAgree

\* There is one for every finite set.
LEMMA SumsExist == ASSUME NEW f, NEW S, IsFiniteSet(S) PROVE Sums(SumsOf(f, S), f, S)
<1>. DEFINE C == {T \in SUBSET S : ~ \E g : Sums(g, f, T)}
<1>1. SUFFICES ASSUME S \in C PROVE FALSE
    BY DEF SumsOf
<1>2. C \subseteq SUBSET S /\ C # {}
    BY <1>1
<1>. HIDE DEF C
<1>3. PICK T : Smallest(T, C)
    BY <1>2, Counterexample
<1>. USE DEF C, Smallest
<1>4. \A U \in SUBSET T : U # T => Sums(SumsOf(f, U), f, U)
    BY <1>3 DEF SumsOf
<1>. DEFINE V(s) == SumsOf(f, s)[s]
            h == [s \in SUBSET T |-> IF s = {} THEN 0 ELSE f[Element(s)] + V(s \ {Element(s)})]
<1>5. ASSUME NEW s \in SUBSET T, s # {} PROVE h[s \ {Element(s)}] = V(s \ {Element(s)})
    <2>. DEFINE u == s \ {Element(s)}
    <2>1. u \in SUBSET T /\ u # T
        BY <1>5, ElementOf
    <2>2. Sums(SumsOf(f, u), f, u)
        BY <2>1, <1>4
    <2>3. CASE u = {}
        BY <2>2, <2>3 DEF Sums
    <2>4. CASE u # {}
        <3>. DEFINE w == u \ {Element(u)}
        <3>1. w \in SUBSET u /\ w # T /\ w \in SUBSET T
            BY <2>1, <2>4, ElementOf
        <3>2. Sums(SumsOf(f, w), f, w)
            BY <3>1, <1>4
        <3>3. SumsOf(f, u)[w] = V(w)
            <4>1. IsFiniteSet(T)
                BY <1>3, FS_Subset
            <4>. HIDE DEF u, w
            <4>. QED BY <2>1, <2>2, <3>1, <3>2, <4>1, SumsOfAgree
        <3>4. SumsOf(f, u)[u] = f[Element(u)] + SumsOf(f, u)[w]
            BY <2>2, <2>4 DEF Sums
        <3>5. h[u] = f[Element(u)] + V(w)
            BY <2>1, <2>4
        <3>. QED BY <3>3, <3>4, <3>5
    <2>. QED BY <2>3, <2>4
<1>6. Sums(h, f, T)
    <2>1. h = [s \in SUBSET T |-> IF s = {} THEN 0 ELSE f[Element(s)] + h[s \ {Element(s)}]]
        <3>. HIDE DEF V
        <3>1. \A s \in SUBSET T : s # {} => h[s \ {Element(s)}] = V(s \ {Element(s)})
            BY <1>5
        <3>. DEFINE k == [s \in SUBSET T |-> IF s = {} THEN 0 ELSE f[Element(s)] + h[s \ {Element(s)}]]
        <3>2. \A s \in SUBSET T : h[s] = k[s]
            BY <3>1
        <3>. QED BY <3>2
    <2>. QED BY <2>1 DEF Sums
<1>. QED BY <1>3, <1>6
-----------------------------------------------------------------------------
LEMMA SumOfNothing == ASSUME NEW f PROVE SumFunctionOnSet(f, {}) = 0
<1>1. Sums(SumsOf(f, {}), f, {})
    BY FS_EmptySet, SumsExist
<1>. QED BY <1>1, SumIsLast DEF Sums

LEMMA SumEquation ==
    ASSUME NEW f, NEW S, IsFiniteSet(S), S # {}
    PROVE  SumFunctionOnSet(f, S) = f[Element(S)] + SumFunctionOnSet(f, S \ {Element(S)})
<1>. DEFINE W == S \ {Element(S)}
<1>1. IsFiniteSet(W) /\ W \in SUBSET S
    BY FS_Subset
<1>2. Sums(SumsOf(f, S), f, S) /\ Sums(SumsOf(f, W), f, W)
    BY <1>1, SumsExist
<1>3. SumsOf(f, S)[W] = SumsOf(f, W)[W]
    <2>. HIDE DEF W
    <2>. QED BY <1>1, <1>2, SumsOfAgree
<1>4. SumsOf(f, S)[S] = f[Element(S)] + SumsOf(f, S)[W]
    BY <1>2 DEF Sums
<1>. QED BY <1>3, <1>4, SumIsLast

Integral(f, S) == \A x \in S : f[x] \in Int

\* A sum of integers is one.
LEMMA SumType ==
    ASSUME NEW f, NEW S, IsFiniteSet(S), Integral(f, S)
    PROVE  SumFunctionOnSet(f, S) \in Int
<1>. DEFINE C == {T \in SUBSET S : SumFunctionOnSet(f, T) \notin Int}
<1>1. SUFFICES ASSUME S \in C PROVE FALSE
    OBVIOUS
<1>2. C \subseteq SUBSET S /\ C # {}
    BY <1>1
<1>. HIDE DEF C
<1>3. PICK T : Smallest(T, C)
    BY <1>2, Counterexample
<1>. USE DEF C, Smallest
<1>4. IsFiniteSet(T) /\ T # {} /\ T \in SUBSET S
    <2>1. T # {}
        <3>1. SumFunctionOnSet(f, {}) = 0 /\ SumFunctionOnSet(f, T) \notin Int
            BY <1>3, SumOfNothing
        <3>. QED BY <3>1
    <2>. QED BY <1>3, <2>1, FS_Subset
<1>5. Element(T) \in T
    BY <1>4, ElementOf
<1>6. SumFunctionOnSet(f, T \ {Element(T)}) \in Int
    BY <1>3, <1>4, <1>5
<1>. QED BY <1>3, <1>4, <1>5, <1>6, SumEquation DEF Integral

\* The order of the summands does not matter.
LEMMA SumStep ==
    ASSUME NEW f, NEW S, IsFiniteSet(S), Integral(f, S), NEW x \in S
    PROVE  /\ SumFunctionOnSet(f, S \ {x}) \in Int
           /\ SumFunctionOnSet(f, S) = f[x] + SumFunctionOnSet(f, S \ {x})
<1>. DEFINE Sum(T) == SumFunctionOnSet(f, T)
            C == {T \in SUBSET S : \E y \in T : Sum(T) # f[y] + Sum(T \ {y})}
<1>1. \A T \in SUBSET S : IsFiniteSet(T) /\ Sum(T) \in Int
    BY FS_Subset, SumType DEF Integral
<1>2. SUFFICES ASSUME S \in C PROVE FALSE
    BY <1>1
<1>3. C \subseteq SUBSET S /\ C # {}
    BY <1>2
<1>. HIDE DEF C, Sum
<1>4. PICK T : Smallest(T, C)
    BY <1>3, Counterexample
<1>. USE DEF C, Sum, Smallest
<1>5. PICK y \in T : Sum(T) # f[y] + Sum(T \ {y})
    BY <1>4
<1>. DEFINE e == Element(T)
<1>6. e \in T /\ T \in SUBSET S /\ IsFiniteSet(T)
    BY <1>4, <1>5, <1>1, ElementOf
<1>7. Sum(T) = f[e] + Sum(T \ {e})
    BY <1>5, <1>6, SumEquation
<1>8. e # y
    BY <1>5, <1>7
<1>9. T \ {e} \notin C /\ T \ {y} \notin C
    BY <1>4, <1>6
<1>10. Sum(T \ {e}) = f[y] + Sum((T \ {e}) \ {y})
    BY <1>6, <1>8, <1>9
<1>11. Sum(T \ {y}) = f[e] + Sum((T \ {y}) \ {e})
    BY <1>6, <1>8, <1>9
<1>12. (T \ {y}) \ {e} = (T \ {e}) \ {y}
    OBVIOUS
<1>13. f[e] \in Int /\ f[y] \in Int /\ Sum((T \ {e}) \ {y}) \in Int
    BY <1>1, <1>6 DEF Integral
<1>14. Sum(T \ {y}) = f[e] + Sum((T \ {e}) \ {y})
    BY <1>11, <1>12
<1>. HIDE DEF e, Sum, C
<1>15. f[e] + Sum(T \ {e}) = f[y] + Sum(T \ {y})
    BY <1>10, <1>13, <1>14
<1>. QED BY <1>5, <1>7, <1>15

\* Functions that agree on a set have the same sum over it.
LEMMA SumAgrees ==
    ASSUME NEW f, NEW g, NEW S, IsFiniteSet(S), \A x \in S : f[x] = g[x]
    PROVE  SumFunctionOnSet(f, S) = SumFunctionOnSet(g, S)
<1>. DEFINE C == {T \in SUBSET S : SumFunctionOnSet(f, T) # SumFunctionOnSet(g, T)}
<1>1. SUFFICES ASSUME S \in C PROVE FALSE
    OBVIOUS
<1>2. C \subseteq SUBSET S /\ C # {}
    BY <1>1
<1>. HIDE DEF C
<1>3. PICK T : Smallest(T, C)
    BY <1>2, Counterexample
<1>. USE DEF C, Smallest
<1>4. IsFiniteSet(T) /\ T # {} /\ T \in SUBSET S
    BY <1>3, FS_Subset, SumOfNothing
<1>5. Element(T) \in T
    BY <1>4, ElementOf
<1>6. SumFunctionOnSet(f, T \ {Element(T)}) = SumFunctionOnSet(g, T \ {Element(T)})
    BY <1>3, <1>4, <1>5
<1>. QED BY <1>3, <1>4, <1>5, <1>6, SumEquation

\* The sum of a function that differs at one place.
LEMMA SumUpdate ==
    ASSUME NEW f, NEW g, NEW S, IsFiniteSet(S), Integral(f, S), NEW x \in S,
           g[x] \in Int, \A y \in S \ {x} : f[y] = g[y]
    PROVE  SumFunctionOnSet(g, S) = SumFunctionOnSet(f, S) - f[x] + g[x]
<1>1. IsFiniteSet(S \ {x}) /\ Integral(g, S)
    BY FS_Subset DEF Integral
<1>2. SumFunctionOnSet(f, S \ {x}) = SumFunctionOnSet(g, S \ {x})
    BY <1>1, SumAgrees
<1>3. f[x] \in Int
    BY DEF Integral
<1>. QED BY <1>1, <1>2, <1>3, SumStep

LEMMA SumOfZeros ==
    ASSUME NEW f, NEW S, IsFiniteSet(S), \A x \in S : f[x] = 0
    PROVE  SumFunctionOnSet(f, S) = 0
<1>. DEFINE C == {T \in SUBSET S : SumFunctionOnSet(f, T) # 0}
<1>1. SUFFICES ASSUME S \in C PROVE FALSE
    OBVIOUS
<1>2. C \subseteq SUBSET S /\ C # {}
    BY <1>1
<1>. HIDE DEF C
<1>3. PICK T : Smallest(T, C)
    BY <1>2, Counterexample
<1>. USE DEF C, Smallest
<1>4. IsFiniteSet(T) /\ T # {} /\ T \in SUBSET S
    BY <1>3, FS_Subset, SumOfNothing
<1>5. Element(T) \in T
    BY <1>4, ElementOf
<1>6. SumFunctionOnSet(f, T \ {Element(T)}) = 0
    BY <1>3, <1>4, <1>5
<1>. QED BY <1>3, <1>4, <1>5, <1>6, SumEquation

\* The sum of a constant.
LEMMA SumOfConstant ==
    ASSUME NEW f, NEW S, IsFiniteSet(S), NEW c \in Int, \A x \in S : f[x] = c
    PROVE  SumFunctionOnSet(f, S) = Cardinality(S) * c
<1>. DEFINE C == {T \in SUBSET S : SumFunctionOnSet(f, T) # Cardinality(T) * c}
<1>1. SUFFICES ASSUME S \in C PROVE FALSE
    OBVIOUS
<1>2. C \subseteq SUBSET S /\ C # {}
    BY <1>1
<1>. HIDE DEF C
<1>3. PICK T : Smallest(T, C)
    BY <1>2, Counterexample
<1>. USE DEF C, Smallest
<1>4. IsFiniteSet(T) /\ T # {} /\ T \in SUBSET S
    <2>1. SumFunctionOnSet(f, {}) = Cardinality({}) * c
        BY SumOfNothing, FS_EmptySet
    <2>2. SumFunctionOnSet(f, T) # Cardinality(T) * c
        BY <1>3
    <2>3. T # {}
        BY <2>1, <2>2
    <2>. QED BY <1>3, <2>3, FS_Subset
<1>. DEFINE e == Element(T)
            U == T \ {e}
<1>5. e \in T /\ U \in SUBSET S /\ Cardinality(T) \in Nat /\ Cardinality(U) = Cardinality(T) - 1
    BY <1>4, ElementOf, FS_RemoveElement, FS_CardinalityType
<1>6. SumFunctionOnSet(f, U) = Cardinality(U) * c
    BY <1>3, <1>4, <1>5
<1>7. SumFunctionOnSet(f, T) = c + SumFunctionOnSet(f, U)
    BY <1>4, <1>5, SumEquation
<1>8. SumFunctionOnSet(f, T) # Cardinality(T) * c
    BY <1>3
<1>. HIDE DEF C, U, e
<1>9. \A n \in Nat : c + (n - 1) * c = n * c
    OBVIOUS
<1>. QED BY <1>5, <1>6, <1>7, <1>8, <1>9

\* A sum of naturals is one, and no summand exceeds it.
LEMMA SumOfNaturals ==
    ASSUME NEW f, NEW S, IsFiniteSet(S), \A x \in S : f[x] \in Nat
    PROVE  SumFunctionOnSet(f, S) \in Nat
<1>. DEFINE C == {T \in SUBSET S : SumFunctionOnSet(f, T) \notin Nat}
<1>1. SUFFICES ASSUME S \in C PROVE FALSE
    OBVIOUS
<1>2. C \subseteq SUBSET S /\ C # {}
    BY <1>1
<1>. HIDE DEF C
<1>3. PICK T : Smallest(T, C)
    BY <1>2, Counterexample
<1>. USE DEF C, Smallest
<1>4. IsFiniteSet(T) /\ T # {} /\ T \in SUBSET S
    <2>1. SumFunctionOnSet(f, {}) = 0 /\ SumFunctionOnSet(f, T) \notin Nat
        BY <1>3, SumOfNothing
    <2>2. T # {}
        BY <2>1
    <2>. QED BY <1>3, <2>2, FS_Subset
<1>5. Element(T) \in T
    BY <1>4, ElementOf
<1>6. SumFunctionOnSet(f, T \ {Element(T)}) \in Nat
    BY <1>3, <1>4, <1>5
<1>. QED BY <1>3, <1>4, <1>5, <1>6, SumEquation

LEMMA SummandBound ==
    ASSUME NEW f, NEW S, IsFiniteSet(S), \A x \in S : f[x] \in Nat, NEW x \in S
    PROVE  f[x] <= SumFunctionOnSet(f, S)
<1>1. Integral(f, S) /\ IsFiniteSet(S \ {x}) /\ f[x] \in Nat
    BY FS_Subset DEF Integral
<1>2. SumFunctionOnSet(f, S \ {x}) \in Nat
    BY <1>1, SumOfNaturals
<1>3. SumFunctionOnSet(f, S) = f[x] + SumFunctionOnSet(f, S \ {x})
    BY <1>1, SumStep
<1>. QED BY <1>1, <1>2, <1>3

\* Sums add up.
LEMMA SumOfSums ==
    ASSUME NEW f, NEW g, NEW h, NEW S, IsFiniteSet(S), Integral(f, S), Integral(g, S),
           \A x \in S : h[x] = f[x] + g[x]
    PROVE  SumFunctionOnSet(h, S) = SumFunctionOnSet(f, S) + SumFunctionOnSet(g, S)
<1>. DEFINE Sum(k, T) == SumFunctionOnSet(k, T)
            C == {T \in SUBSET S : Sum(h, T) # Sum(f, T) + Sum(g, T)}
<1>1. SUFFICES ASSUME S \in C PROVE FALSE
    OBVIOUS
<1>2. C \subseteq SUBSET S /\ C # {}
    BY <1>1
<1>. HIDE DEF C
<1>3. PICK T : Smallest(T, C)
    BY <1>2, Counterexample
<1>. USE DEF C, Smallest
<1>4. IsFiniteSet(T) /\ T # {} /\ T \in SUBSET S
    <2>1. T # {}
        <3>1. Sum(f, {}) = 0 /\ Sum(g, {}) = 0 /\ Sum(h, {}) = 0
            BY SumOfNothing
        <3>2. Sum(h, T) # Sum(f, T) + Sum(g, T)
            BY <1>3
        <3>. HIDE DEF Sum
        <3>. QED BY <3>1, <3>2
    <2>. QED BY <1>3, <2>1, FS_Subset
<1>. DEFINE e == Element(T)
            U == T \ {e}
<1>5. e \in T /\ IsFiniteSet(U) /\ U \in SUBSET S
    BY <1>4, ElementOf, FS_Subset
<1>6. Sum(h, U) = Sum(f, U) + Sum(g, U)
    BY <1>3, <1>4, <1>5
<1>7. Sum(f, U) \in Int /\ Sum(g, U) \in Int
    BY <1>5, SumType DEF Integral
<1>8. Sum(h, T) = h[e] + Sum(h, U) /\ Sum(f, T) = f[e] + Sum(f, U) /\ Sum(g, T) = g[e] + Sum(g, U)
    BY <1>4, SumEquation
<1>9. f[e] \in Int /\ g[e] \in Int /\ h[e] = f[e] + g[e]
    BY <1>4, <1>5 DEF Integral
<1>10. Sum(h, T) # Sum(f, T) + Sum(g, T)
    BY <1>3
<1>. HIDE DEF e, U, Sum
<1>. QED BY <1>6, <1>7, <1>8, <1>9, <1>10

\* What a part of a set adds to the sum.
LEMMA SumSplit ==
    ASSUME NEW f, NEW S, IsFiniteSet(S), Integral(f, S), NEW T \in SUBSET S
    PROVE  SumFunctionOnSet(f, S) = SumFunctionOnSet(f, T) + SumFunctionOnSet(f, S \ T)
<1>. DEFINE Sum(U) == SumFunctionOnSet(f, U)
            C == {U \in SUBSET T : Sum(U \cup (S \ T)) # Sum(U) + Sum(S \ T)}
<1>1. SUFFICES ASSUME T \in C PROVE FALSE
    <2>1. T \cup (S \ T) = S
        OBVIOUS
    <2>. QED BY <2>1
<1>2. C \subseteq SUBSET S /\ C # {}
    BY <1>1
<1>. HIDE DEF C, Sum
<1>3. PICK U : Smallest(U, C)
    BY <1>2, Counterexample
<1>. USE DEF C, Sum, Smallest
<1>4. \A W \in SUBSET S : IsFiniteSet(W) /\ Sum(W) \in Int /\ Integral(f, W)
    BY FS_Subset, SumType DEF Integral
<1>5. U # {}
    <2>1. {} \cup (S \ T) = S \ T
        OBVIOUS
    <2>2. Sum(S \ T) \in Int
        BY <1>4
    <2>3. Sum({}) + Sum(S \ T) = Sum(S \ T)
        BY <2>2, SumOfNothing
    <2>4. Sum({} \cup (S \ T)) = Sum(S \ T)
        BY <2>1
    <2>. HIDE DEF Sum
    <2>. QED BY <1>3, <2>3, <2>4
<1>6. PICK x \in U : TRUE
    BY <1>5
<1>. DEFINE V == U \ {x}
            W == U \cup (S \ T)
<1>7. V \notin C /\ V \in SUBSET T /\ W \in SUBSET S /\ U \in SUBSET S /\ V \in SUBSET S /\ x \in W
    BY <1>3, <1>6
<1>8. W \ {x} = V \cup (S \ T)
    BY <1>3, <1>6
<1>9. Sum(U) = f[x] + Sum(V)
    BY <1>4, <1>6, <1>7, SumStep
<1>10. Sum(W) = f[x] + Sum(V \cup (S \ T))
    <2>1. Sum(W) = f[x] + Sum(W \ {x})
        <3>. HIDE DEF W
        <3>. QED BY <1>4, <1>7, SumStep
    <2>. QED BY <2>1, <1>8
<1>11. Sum(V \cup (S \ T)) = Sum(V) + Sum(S \ T)
    BY <1>7
<1>12. f[x] \in Int /\ Sum(V) \in Int /\ Sum(S \ T) \in Int
    BY <1>4, <1>6, <1>7 DEF Integral
<1>13. Sum(W) # Sum(U) + Sum(S \ T)
    BY <1>3
<1>. HIDE DEF Sum, V, W
<1>. QED BY <1>9, <1>10, <1>11, <1>12, <1>13
=============================================================================
