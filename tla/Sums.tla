--------------------------------- MODULE Sums ---------------------------------
(***************************************************************************)
(* What is known of the sums of the community modules, SumFunctionOnSet    *)
(* and SumFunction: how a sum changes with its set and with the numbers,   *)
(* and what grows. A sum is a fold, which is a recursive function over the *)
(* subsets of a finite set. There is no induction in the proofs: among     *)
(* the sets of which a claim is false is one that has no smaller one.      *)
(***************************************************************************)
EXTENDS Integers, Sequences, FiniteSets, Functions, FiniteSetTheorems,
        WellFoundedInduction, TLAPS

\* A set of natural numbers has a least one.
LEMMA LeastElement ==
  ASSUME NEW T, T \subseteq Nat, T # {}
  PROVE  \E n \in T : \A m \in T : n <= m
<1>1. PICK n \in T : \A m \in T : <<m, n>> \notin OpToRel(<,Nat)
  BY NatLessThanWellFounded, WFMin, Zenon
<1>2. \A m \in T : <<m, n>> \in Nat \X Nat
  OBVIOUS
<1>3. \A m \in T : ~(m < n)
  BY <1>1, <1>2 DEF OpToRel
<1>4. QED
  BY <1>3

\* Among subsets of a finite set there is one that has no smaller one below it:
\* what takes the place of induction over finite sets.
LEMMA LeastSet ==
  ASSUME NEW D, IsFiniteSet(D), NEW C, C \subseteq SUBSET D, C # {}
  PROVE  \E s \in C : \A x \in s : s \ {x} \notin C
<1> DEFINE T == {Cardinality(s) : s \in C}
<1>1. \A s \in C : IsFiniteSet(s) /\ Cardinality(s) \in Nat
  BY FS_Subset, FS_CardinalityType
<1>2. T \subseteq Nat /\ T # {}
  BY <1>1
<1>3. PICK n \in T : \A m \in T : n <= m
  <2> HIDE DEF T
  <2>1. QED
    BY <1>2, LeastElement
<1>4. PICK s \in C : n = Cardinality(s)
  BY <1>3
<1>5. ASSUME NEW x \in s, s \ {x} \in C
      PROVE  FALSE
  <2>1. Cardinality(s \ {x}) = Cardinality(s) - 1
    BY <1>1, FS_RemoveElement
  <2>2. Cardinality(s) <= Cardinality(s \ {x})
    BY <1>3, <1>4, <1>5
  <2>3. QED
    BY <1>1, <2>1, <2>2
<1>6. QED
  BY <1>5

Numbers(w, D) == \A x \in D : w[x] \in Int

\* The sum of the numbers w[x] over the x of a set, by what determines it.
IsSum(g, S, w) ==
    /\ g \in [SUBSET S -> Int] /\ g[{}] = 0
    /\ \A s \in SUBSET S : \A x \in s : g[s] = w[x] + g[s \ {x}]

\* There is such a function: a smallest set without one would get one.
LEMMA SumExists ==
  ASSUME NEW D, IsFiniteSet(D), NEW w, Numbers(w, D), NEW S \in SUBSET D
  PROVE  \E g : IsSum(g, S, w)
<1> DEFINE C == {s \in SUBSET D : ~ \E g : IsSum(g, s, w)}
<1>1. SUFFICES ASSUME C # {} PROVE FALSE
  OBVIOUS
<1>2. PICK s \in C : \A x \in s : s \ {x} \notin C
  <2>1. C \subseteq SUBSET D
    OBVIOUS
  <2> HIDE DEF C
  <2>2. QED
    BY <1>1, <2>1, LeastSet
<1>3. CASE s = {}
  <2>1. IsSum([t \in SUBSET {} |-> 0], {}, w)
    BY DEF IsSum
  <2>2. QED
    BY <1>2, <1>3, <2>1
<1>4. CASE s # {}
  <2>1. PICK a \in s : TRUE
    BY <1>4
  <2>2. PICK g : IsSum(g, s \ {a}, w)
    BY <1>2, <2>1
  <2> DEFINE h == [t \in SUBSET s |-> IF a \in t THEN w[a] + g[t \ {a}] ELSE g[t]]
  <2>3. /\ \A t \in SUBSET (s \ {a}) : g[t] \in Int
        /\ g[{}] = 0
        /\ \A t \in SUBSET (s \ {a}) : \A x \in t : g[t] = w[x] + g[t \ {x}]
    BY <2>2 DEF IsSum
  <2>4. \A x \in s : w[x] \in Int
    BY DEF Numbers
  <2>5. h \in [SUBSET s -> Int]
    <3>1. ASSUME NEW t \in SUBSET s PROVE (IF a \in t THEN w[a] + g[t \ {a}] ELSE g[t]) \in Int
      <4>1. CASE a \in t
        BY <2>3, <2>4, <4>1
      <4>2. CASE a \notin t
        <5>1. t \in SUBSET (s \ {a})
          BY <4>2
        <5>2. QED
          BY <2>3, <4>2, <5>1
      <4>3. QED
        BY <4>1, <4>2
    <3>2. QED
      BY <3>1
  <2>6. h[{}] = 0
    BY <2>3
  <2>7. ASSUME NEW t \in SUBSET s, NEW x \in t
        PROVE  h[t] = w[x] + h[t \ {x}]
    <3>1. CASE x = a
      BY <3>1
    <3>2. CASE x # a /\ a \notin t
      <4>1. t \in SUBSET (s \ {a})
        BY <3>2
      <4>2. h[t] = g[t] /\ h[t \ {x}] = g[t \ {x}]
        BY <3>2
      <4>3. QED
        BY <2>3, <4>1, <4>2
    <3>3. CASE x # a /\ a \in t
      <4>1. h[t] = w[a] + g[t \ {a}]
        BY <3>3
      <4>2. h[t \ {x}] = w[a] + g[(t \ {x}) \ {a}]
        BY <3>3
      <4>3. (t \ {x}) \ {a} = (t \ {a}) \ {x}
        OBVIOUS
      <4>4. t \ {a} \in SUBSET (s \ {a}) /\ x \in t \ {a}
        BY <3>3
      <4>5. g[t \ {a}] = w[x] + g[(t \ {a}) \ {x}]
        BY <2>3, <4>4
      <4>6. w[x] \in Int /\ w[a] \in Int /\ g[(t \ {a}) \ {x}] \in Int
        <5>1. (t \ {a}) \ {x} \in SUBSET (s \ {a})
          OBVIOUS
        <5>2. QED
          BY <2>3, <2>4, <5>1
      <4>7. \A i, j, k \in Int : i + (j + k) = j + (i + k)
        OBVIOUS
      <4>8. h[t] = w[a] + (w[x] + g[(t \ {a}) \ {x}])
        BY <4>1, <4>5
      <4>9. h[t \ {x}] = w[a] + g[(t \ {a}) \ {x}]
        BY <4>2, <4>3
      <4> HIDE DEF h
      <4>10. QED
        BY <4>6, <4>7, <4>8, <4>9
    <3>4. QED
      BY <3>1, <3>2, <3>3
  <2>8. IsSum(h, s, w)
    <3> HIDE DEF h
    <3>1. QED
      BY <2>5, <2>6, <2>7 DEF IsSum
  <2>9. QED
    BY <1>2, <2>8
<1>5. QED
  BY <1>3, <1>4

\* What a fold over a set does: it takes out some element at a time.
Unfolds(h, S, w) ==
    /\ h[{}] = 0
    /\ \A s \in SUBSET S : s # {} => \E x \in s : h[s] = w[x] + h[s \ {x}]

\* Whichever it takes out, it is the sum.
LEMMA SumUnique ==
  ASSUME NEW S, IsFiniteSet(S), NEW w, NEW g, IsSum(g, S, w),
         NEW h, Unfolds(h, S, w)
  PROVE  \A s \in SUBSET S : h[s] = g[s]
<1> DEFINE C == {s \in SUBSET S : h[s] # g[s]}
<1>1. SUFFICES ASSUME C # {} PROVE FALSE
  OBVIOUS
<1>2. PICK s \in C : \A x \in s : s \ {x} \notin C
  <2>1. C \subseteq SUBSET S
    OBVIOUS
  <2> HIDE DEF C
  <2>2. QED
    BY <1>1, <2>1, LeastSet
<1>3. s # {}
  BY <1>2 DEF IsSum, Unfolds
<1>4. PICK x \in s : h[s] = w[x] + h[s \ {x}]
  BY <1>2, <1>3 DEF Unfolds
<1>5. h[s \ {x}] = g[s \ {x}]
  BY <1>2, <1>4
<1>6. QED
  BY <1>2, <1>4, <1>5 DEF IsSum

\* The sums of the community modules are folds over a set, and so are they.
LEMMA FoldIsSum ==
  ASSUME NEW S, IsFiniteSet(S), NEW w, NEW g, IsSum(g, S, w)
  PROVE  SumFunctionOnSet(w, S) = g[S]
<1> DEFINE F(f) == [s \in SUBSET S |->
                      IF s = {} THEN 0
                      ELSE w[CHOOSE x \in s : TRUE] + f[s \ {CHOOSE x \in s : TRUE}]]
           h == CHOOSE f : f = F(f)
<1>1. SumFunctionOnSet(w, S) = h[S]
  BY DEF SumFunctionOnSet, FoldFunctionOnSet, MapThenFoldSet
<1>2. g = F(g)
  <2>1. ASSUME NEW s \in SUBSET S
        PROVE  g[s] = IF s = {} THEN 0
                      ELSE w[CHOOSE x \in s : TRUE] + g[s \ {CHOOSE x \in s : TRUE}]
    BY DEF IsSum
  <2>2. g = [s \in SUBSET S |-> g[s]]
    BY DEF IsSum
  <2>3. QED
    BY <2>1, <2>2
<1>3. h = F(h)
  BY <1>2
<1>4. Unfolds(h, S, w)
  <2>1. h[{}] = 0
    BY <1>3
  <2>2. ASSUME NEW s \in SUBSET S, s # {}
        PROVE  \E x \in s : h[s] = w[x] + h[s \ {x}]
    <3>1. (CHOOSE x \in s : TRUE) \in s
      BY <2>2
    <3>2. h[s] = w[CHOOSE x \in s : TRUE] + h[s \ {CHOOSE x \in s : TRUE}]
      BY <1>3, <2>2
    <3>3. QED
      BY <3>1, <3>2
  <2>3. QED
    BY <2>1, <2>2 DEF Unfolds
<1>5. h[S] = g[S]
  <2> HIDE DEF h
  <2>1. QED
    BY <1>4, SumUnique
<1>6. QED
  BY <1>1, <1>5

\* The recursion that they are known by.
SumLaw(w, D) ==
    /\ SumFunctionOnSet(w, {}) = 0
    /\ \A s \in SUBSET D : SumFunctionOnSet(w, s) \in Int
    /\ \A s \in SUBSET D : \A x \in s :
         SumFunctionOnSet(w, s) = w[x] + SumFunctionOnSet(w, s \ {x})

LEMMA SumRecursion ==
  ASSUME NEW D, IsFiniteSet(D), NEW w, Numbers(w, D)
  PROVE  SumLaw(w, D)
<1>1. ASSUME NEW s \in SUBSET D
      PROVE  /\ SumFunctionOnSet(w, s) \in Int
             /\ s = {} => SumFunctionOnSet(w, s) = 0
             /\ \A x \in s : SumFunctionOnSet(w, s) = w[x] + SumFunctionOnSet(w, s \ {x})
  <2>1. PICK g : IsSum(g, s, w)
    BY SumExists
  <2>2. SumFunctionOnSet(w, s) = g[s]
    BY <2>1, FS_Subset, FoldIsSum
  <2>3. ASSUME NEW x \in s
        PROVE  SumFunctionOnSet(w, s \ {x}) = g[s \ {x}]
    <3> DEFINE r == s \ {x}
               f == [t \in SUBSET r |-> g[t]]
    <3>1. IsSum(f, r, w)
      BY <2>1 DEF IsSum
    <3>2. IsFiniteSet(r) /\ f[r] = g[r]
      BY FS_Subset
    <3> HIDE DEF f, r
    <3>3. SumFunctionOnSet(w, r) = f[r]
      BY <3>1, <3>2, FoldIsSum
    <3>4. QED
      BY <3>2, <3>3 DEF r
  <2>4. QED
    BY <2>1, <2>2, <2>3 DEF IsSum
<1>2. {} \in SUBSET D
  OBVIOUS
<1>3. QED
  BY <1>1, <1>2 DEF SumLaw

\* What counts for nothing may be left out.
LEMMA MaskedSum ==
  ASSUME NEW D, IsFiniteSet(D), NEW w, Numbers(w, D), NEW Q \in SUBSET D,
         NEW v, \A x \in D : v[x] = IF x \in Q THEN w[x] ELSE 0
  PROVE  SumFunctionOnSet(v, D) = SumFunctionOnSet(w, Q)
<1> DEFINE C == {s \in SUBSET D : SumFunctionOnSet(v, s) # SumFunctionOnSet(w, s \cap Q)}
<1>1. /\ SumFunctionOnSet(w, {}) = 0
      /\ \A s \in SUBSET D : SumFunctionOnSet(w, s) \in Int
      /\ \A s \in SUBSET D : \A x \in s : SumFunctionOnSet(w, s) = w[x] + SumFunctionOnSet(w, s \ {x})
  BY SumRecursion DEF SumLaw
<1>2. /\ SumFunctionOnSet(v, {}) = 0
      /\ \A s \in SUBSET D : SumFunctionOnSet(v, s) \in Int
      /\ \A s \in SUBSET D : \A x \in s : SumFunctionOnSet(v, s) = v[x] + SumFunctionOnSet(v, s \ {x})
  <2>1. Numbers(v, D)
    BY DEF Numbers
  <2>2. QED
    BY <2>1, SumRecursion DEF SumLaw
<1>3. C = {}
  <2>1. SUFFICES ASSUME C # {} PROVE FALSE
    OBVIOUS
  <2>2. PICK s \in C : \A x \in s : s \ {x} \notin C
    <3>1. C \subseteq SUBSET D
      OBVIOUS
    <3> HIDE DEF C
    <3>2. QED
      BY <2>1, <3>1, LeastSet
  <2>3. s \in SUBSET D /\ s # {}
    <3>1. {} \cap Q = {}
      OBVIOUS
    <3>2. QED
      BY <1>1, <1>2, <2>2, <3>1
  <2>4. PICK x \in s : TRUE
    BY <2>3
  <2>5. SumFunctionOnSet(v, s \ {x}) = SumFunctionOnSet(w, (s \ {x}) \cap Q)
    BY <2>2, <2>3, <2>4
  <2>6. SumFunctionOnSet(v, s) = v[x] + SumFunctionOnSet(v, s \ {x}) /\ SumFunctionOnSet(v, s \ {x}) \in Int
    <3>1. s \ {x} \in SUBSET D
      BY <2>3
    <3>2. QED
      BY <1>2, <2>3, <2>4, <3>1
  <2>7. CASE x \in Q
    <3>1. (s \ {x}) \cap Q = (s \cap Q) \ {x}
      OBVIOUS
    <3>2. SumFunctionOnSet(w, s \cap Q) = w[x] + SumFunctionOnSet(w, (s \cap Q) \ {x})
      <4>1. s \cap Q \in SUBSET D /\ x \in s \cap Q
        BY <2>3, <2>7
      <4>2. QED
        BY <1>1, <4>1
    <3>3. v[x] = w[x]
      BY <2>3, <2>7
    <3>4. QED
      BY <2>2, <2>5, <2>6, <3>1, <3>2, <3>3
  <2>8. CASE x \notin Q
    <3>1. (s \ {x}) \cap Q = s \cap Q
      BY <2>8
    <3>2. v[x] = 0
      BY <2>3, <2>8
    <3>3. QED
      BY <2>2, <2>5, <2>6, <3>1, <3>2
  <2>9. QED
    BY <2>7, <2>8
<1>4. D \cap Q = Q
  OBVIOUS
<1>5. QED
  BY <1>3, <1>4

\* A sum of natural numbers grows with its set.
LEMMA SumGrows ==
  ASSUME NEW D, IsFiniteSet(D), NEW w, \A x \in D : w[x] \in Nat
  PROVE  /\ \A s \in SUBSET D : SumFunctionOnSet(w, s) \in Nat
         /\ \A s \in SUBSET D : \A q \in SUBSET s : SumFunctionOnSet(w, q) <= SumFunctionOnSet(w, s)
<1> DEFINE C == {s \in SUBSET D : \E q \in SUBSET s : ~(SumFunctionOnSet(w, q) <= SumFunctionOnSet(w, s))}
<1>1. /\ SumFunctionOnSet(w, {}) = 0
      /\ \A s \in SUBSET D : SumFunctionOnSet(w, s) \in Int
      /\ \A s \in SUBSET D : \A x \in s : SumFunctionOnSet(w, s) = w[x] + SumFunctionOnSet(w, s \ {x})
  <2>1. Numbers(w, D)
    BY DEF Numbers
  <2>2. QED
    BY <2>1, SumRecursion DEF SumLaw
<1>2. C = {}
  <2>1. SUFFICES ASSUME C # {} PROVE FALSE
    OBVIOUS
  <2>2. PICK s \in C : \A x \in s : s \ {x} \notin C
    <3>1. C \subseteq SUBSET D
      OBVIOUS
    <3> HIDE DEF C
    <3>2. QED
      BY <2>1, <3>1, LeastSet
  <2>3. PICK q \in SUBSET s : ~(SumFunctionOnSet(w, q) <= SumFunctionOnSet(w, s))
    BY <2>2
  <2>4. s \in SUBSET D /\ q \in SUBSET D /\ SumFunctionOnSet(w, q) \in Int /\ SumFunctionOnSet(w, s) \in Int
    BY <1>1, <2>2
  <2>5. PICK x \in s : x \notin q
    <3>1. q # s
      BY <2>3, <2>4
    <3>2. QED
      BY <3>1
  <2>6. q \in SUBSET (s \ {x}) /\ s \ {x} \in SUBSET D
    BY <2>4, <2>5
  <2>7. SumFunctionOnSet(w, q) <= SumFunctionOnSet(w, s \ {x})
    BY <2>2, <2>5, <2>6
  <2>8. SumFunctionOnSet(w, s) = w[x] + SumFunctionOnSet(w, s \ {x}) /\ SumFunctionOnSet(w, s \ {x}) \in Int /\ w[x] \in Nat
    BY <1>1, <2>4, <2>5, <2>6
  <2>9. QED
    BY <2>3, <2>4, <2>7, <2>8
<1>3. ASSUME NEW s \in SUBSET D, NEW q \in SUBSET s
      PROVE  SumFunctionOnSet(w, q) <= SumFunctionOnSet(w, s)
  BY <1>2
<1>4. ASSUME NEW s \in SUBSET D PROVE SumFunctionOnSet(w, s) \in Nat
  <2>1. SumFunctionOnSet(w, {}) <= SumFunctionOnSet(w, s)
    BY <1>3
  <2>2. QED
    BY <1>1, <2>1
<1>5. QED
  BY <1>3, <1>4

\* The sum of sums, element by element.
LEMMA SumsAdd ==
  ASSUME NEW D, IsFiniteSet(D), NEW u, Numbers(u, D), NEW v, Numbers(v, D),
         NEW w, \A x \in D : w[x] = u[x] + v[x]
  PROVE  \A s \in SUBSET D :
           SumFunctionOnSet(w, s) = SumFunctionOnSet(u, s) + SumFunctionOnSet(v, s)
<1> DEFINE C == {s \in SUBSET D : SumFunctionOnSet(w, s) # SumFunctionOnSet(u, s) + SumFunctionOnSet(v, s)}
<1>1. SUFFICES ASSUME C # {} PROVE FALSE
  OBVIOUS
<1>2. PICK s \in C : \A x \in s : s \ {x} \notin C
  <2>1. C \subseteq SUBSET D
    OBVIOUS
  <2> HIDE DEF C
  <2>2. QED
    BY <1>1, <2>1, LeastSet
<1>3. Numbers(w, D)
  BY DEF Numbers
<1>4. SumLaw(u, D) /\ SumLaw(v, D) /\ SumLaw(w, D)
  BY <1>3, SumRecursion
<1>5. s # {}
  BY <1>2, <1>4 DEF SumLaw
<1>6. PICK x \in s : TRUE
  BY <1>5
<1>7. SumFunctionOnSet(w, s \ {x}) = SumFunctionOnSet(u, s \ {x}) + SumFunctionOnSet(v, s \ {x})
  BY <1>2, <1>6
<1>8. /\ SumFunctionOnSet(w, s) = w[x] + SumFunctionOnSet(w, s \ {x})
      /\ SumFunctionOnSet(u, s) = u[x] + SumFunctionOnSet(u, s \ {x})
      /\ SumFunctionOnSet(v, s) = v[x] + SumFunctionOnSet(v, s \ {x})
  BY <1>2, <1>4, <1>6 DEF SumLaw
<1>9. /\ u[x] \in Int /\ v[x] \in Int /\ w[x] = u[x] + v[x]
      /\ SumFunctionOnSet(u, s \ {x}) \in Int /\ SumFunctionOnSet(v, s \ {x}) \in Int
  BY <1>2, <1>4, <1>6 DEF SumLaw, Numbers
<1>10. SumFunctionOnSet(w, s) = SumFunctionOnSet(u, s) + SumFunctionOnSet(v, s)
  BY <1>7, <1>8, <1>9
<1>11. QED
  BY <1>2, <1>10

\* A sum is of what the elements count for, however that is written.
LEMMA SameSum ==
  ASSUME NEW D, IsFiniteSet(D), NEW w, Numbers(w, D), NEW v, \A x \in D : v[x] = w[x]
  PROVE  SumFunctionOnSet(v, D) = SumFunctionOnSet(w, D)
<1>1. \A x \in D : v[x] = IF x \in D THEN w[x] ELSE 0
  OBVIOUS
<1>2. QED
  BY <1>1, MaskedSum

\* The sum over two sets that have nothing in common.
LEMMA SumOfUnion ==
  ASSUME NEW D, IsFiniteSet(D), NEW w, Numbers(w, D),
         NEW A \in SUBSET D, NEW B \in SUBSET D, A \cap B = {}
  PROVE  SumFunctionOnSet(w, A \cup B) = SumFunctionOnSet(w, A) + SumFunctionOnSet(w, B)
<1> DEFINE C == {b \in SUBSET B :
                   SumFunctionOnSet(w, A \cup b) # SumFunctionOnSet(w, A) + SumFunctionOnSet(w, b)}
<1>1. SUFFICES ASSUME C # {} PROVE FALSE
  OBVIOUS
<1>2. PICK b \in C : \A x \in b : b \ {x} \notin C
  <2>1. C \subseteq SUBSET B /\ IsFiniteSet(B)
    BY FS_Subset
  <2> HIDE DEF C
  <2>2. QED
    BY <1>1, <2>1, LeastSet
<1>3. SumLaw(w, D)
  BY SumRecursion
<1>4. SumFunctionOnSet(w, A) \in Int
  BY <1>3 DEF SumLaw
<1>5. b # {}
  <2>1. SUFFICES ASSUME b = {} PROVE FALSE
    OBVIOUS
  <2>2. A \cup b = A
    BY <2>1
  <2>3. SumFunctionOnSet(w, b) = 0
    BY <1>3, <2>1 DEF SumLaw
  <2>4. SumFunctionOnSet(w, A \cup b) # SumFunctionOnSet(w, A) + SumFunctionOnSet(w, b)
    BY <1>2
  <2>5. SumFunctionOnSet(w, A) # SumFunctionOnSet(w, A) + 0
    BY <2>2, <2>3, <2>4
  <2>6. QED
    BY <1>4, <2>5
<1>6. PICK x \in b : TRUE
  BY <1>5
<1>7. b \in SUBSET D /\ b \subseteq B /\ A \cup b \in SUBSET D /\ (A \cup b) \ {x} = A \cup (b \ {x})
  BY <1>2, <1>6
<1>8. /\ SumFunctionOnSet(w, b) = w[x] + SumFunctionOnSet(w, b \ {x})
      /\ SumFunctionOnSet(w, A \cup b) = w[x] + SumFunctionOnSet(w, A \cup (b \ {x}))
      /\ SumFunctionOnSet(w, b \ {x}) \in Int /\ w[x] \in Int
  BY <1>3, <1>6, <1>7 DEF SumLaw, Numbers
<1>9. SumFunctionOnSet(w, A \cup (b \ {x})) = SumFunctionOnSet(w, A) + SumFunctionOnSet(w, b \ {x})
  BY <1>2, <1>6, <1>7
<1>10. SumFunctionOnSet(w, A \cup b) = SumFunctionOnSet(w, A) + SumFunctionOnSet(w, b)
  BY <1>4, <1>8, <1>9
<1>11. QED
  BY <1>2, <1>10

\* A sum over the first numbers, one more of them at a time.
LEMMA SumAppended ==
  ASSUME NEW n \in Nat, NEW w, Numbers(w, 1..n+1)
  PROVE  /\ SumFunctionOnSet(w, 1..n+1) = SumFunctionOnSet(w, 1..n) + w[n + 1]
         /\ SumFunctionOnSet(w, 1..n) \in Int /\ w[n + 1] \in Int
<1>1. IsFiniteSet(1..n+1)
  BY FS_Interval
<1>2. SumLaw(w, 1..n+1)
  BY <1>1, SumRecursion
<1>3. 1..n+1 \in SUBSET (1..n+1) /\ 1..n \in SUBSET (1..n+1)
      /\ n + 1 \in 1..n+1 /\ (1..n+1) \ {n + 1} = 1..n
  OBVIOUS
<1>4. QED
  BY <1>2, <1>3 DEF SumLaw, Numbers

\* The numbers of a part of a sequence.
LEMMA SumShifted ==
  ASSUME NEW d \in Nat, NEW n \in Nat, NEW w, Numbers(w, d+1..d+n),
         NEW v, \A i \in 1..n : v[i] = w[d + i]
  PROVE  SumFunctionOnSet(v, 1..n) = SumFunctionOnSet(w, d+1..d+n)
<1> DEFINE T == {m \in 0..n : SumFunctionOnSet(v, 1..m) # SumFunctionOnSet(w, d+1..d+m)}
<1>1. SUFFICES ASSUME T # {} PROVE FALSE
  <2>1. n \in 0..n
    OBVIOUS
  <2>2. QED
    BY <2>1
<1>2. PICK m \in T : \A k \in T : m <= k
  <2>1. T \subseteq Nat
    OBVIOUS
  <2> HIDE DEF T
  <2>2. QED
    BY <1>1, <2>1, LeastElement
<1>3. Numbers(v, 1..n) /\ IsFiniteSet(1..n) /\ IsFiniteSet(d+1..d+n)
  <2>1. \A i \in 1..n : d + i \in d+1..d+n
    OBVIOUS
  <2>2. Numbers(v, 1..n)
    BY <2>1 DEF Numbers
  <2>3. IsFiniteSet(1..n)
    BY FS_Interval
  <2>4. IsFiniteSet(d+1..d+n)
    <3>1. d + 1 \in Int /\ d + n \in Int
      OBVIOUS
    <3>2. QED
      BY <3>1, FS_Interval
  <2>5. QED
    BY <2>2, <2>3, <2>4
<1>4. SumLaw(v, 1..n) /\ SumLaw(w, d+1..d+n)
  BY <1>3, SumRecursion
<1>5. m # 0
  <2>1. 1..0 = {} /\ d+1..d+0 = {}
    OBVIOUS
  <2>2. QED
    BY <1>2, <1>4, <2>1 DEF SumLaw
<1>6. m \in 1..n /\ m - 1 \in 0..n /\ m - 1 \notin T
  <2>1. m \in 0..n
    BY <1>2
  <2>2. m - 1 \notin T
    BY <1>2, <2>1
  <2>3. QED
    BY <1>5, <2>1, <2>2
<1>7. SumFunctionOnSet(v, 1..m-1) = SumFunctionOnSet(w, d+1..d+(m-1))
  BY <1>6
<1>8. /\ 1..m \in SUBSET (1..n) /\ m \in 1..m /\ (1..m) \ {m} = 1..m-1
      /\ d+1..d+m \in SUBSET (d+1..d+n) /\ d+m \in d+1..d+m
      /\ (d+1..d+m) \ {d + m} = d+1..d+(m-1)
  BY <1>6
<1>9. /\ SumFunctionOnSet(v, 1..m) = v[m] + SumFunctionOnSet(v, 1..m-1)
      /\ SumFunctionOnSet(w, d+1..d+m) = w[d + m] + SumFunctionOnSet(w, d+1..d+(m-1))
  <2>1. SumFunctionOnSet(v, 1..m) = v[m] + SumFunctionOnSet(v, (1..m) \ {m})
    BY <1>4, <1>8 DEF SumLaw
  <2>2. SumFunctionOnSet(w, d+1..d+m) = w[d + m] + SumFunctionOnSet(w, (d+1..d+m) \ {d + m})
    BY <1>4, <1>8 DEF SumLaw
  <2>3. QED
    BY <1>8, <2>1, <2>2
<1>10. SumFunctionOnSet(v, 1..m) = SumFunctionOnSet(w, d+1..d+m)
  BY <1>6, <1>7, <1>9
<1>11. QED
  BY <1>2, <1>10

\* A number as often as there are elements.
LEMMA SumConst ==
  ASSUME NEW n \in Nat, NEW c \in Int, NEW w, \A i \in 1..n : w[i] = c
  PROVE  SumFunctionOnSet(w, 1..n) = n * c
<1> DEFINE T == {m \in 0..n : SumFunctionOnSet(w, 1..m) # m * c}
<1>1. SUFFICES ASSUME T # {} PROVE FALSE
  <2>1. n \in 0..n
    OBVIOUS
  <2>2. QED
    BY <2>1
<1>2. PICK m \in T : \A k \in T : m <= k
  <2>1. T \subseteq Nat
    OBVIOUS
  <2> HIDE DEF T
  <2>2. QED
    BY <1>1, <2>1, LeastElement
<1>3. m \in 0..n /\ SumFunctionOnSet(w, 1..m) # m * c
  BY <1>2
<1>4. Numbers(w, 1..n) /\ IsFiniteSet(1..n) /\ IsFiniteSet({})
  <2>1. Numbers(w, 1..n)
    BY DEF Numbers
  <2>2. QED
    BY <2>1, FS_Interval, FS_EmptySet
<1>5. m # 0
  <2>1. 1..0 = {} /\ 0 * c = 0
    OBVIOUS
  <2>2. QED
    BY <1>3, <1>4, <2>1, SumRecursion DEF SumLaw
<1>6. PICK k \in 0..n : m = k + 1
  <2>1. m - 1 \in 0..n /\ m = (m - 1) + 1
    BY <1>3, <1>5
  <2>2. QED
    BY <2>1
<1>7. SumFunctionOnSet(w, 1..k) = k * c
  BY <1>2, <1>6
<1>8. Numbers(w, 1..k+1) /\ w[k + 1] = c
  BY <1>3, <1>4, <1>6 DEF Numbers
<1>9. SumFunctionOnSet(w, 1..k+1) = SumFunctionOnSet(w, 1..k) + c
  BY <1>8, SumAppended
<1>10. (k + 1) * c = k * c + c
  OBVIOUS
<1>11. QED
  BY <1>3, <1>6, <1>7, <1>9, <1>10

\* What counts the other way.
LEMMA SumNegated ==
  ASSUME NEW n \in Nat, NEW u, Numbers(u, 1..n), NEW v, \A i \in 1..n : v[i] = -u[i]
  PROVE  /\ \A m \in 0..n : SumFunctionOnSet(v, 1..m) = -SumFunctionOnSet(u, 1..m)
<1> DEFINE D == 1..n
           z == [i \in D |-> 0]
<1>1. IsFiniteSet(D)
  BY FS_Interval
<1>2. Numbers(u, D) /\ Numbers(v, D) /\ \A x \in D : z[x] = u[x] + v[x]
  <2>1. \A x \in D : u[x] \in Int /\ v[x] = -u[x]
    BY DEF Numbers
  <2>2. QED
    BY <2>1 DEF Numbers
<1>3. ASSUME NEW m \in 0..n
      PROVE  SumFunctionOnSet(v, 1..m) = -SumFunctionOnSet(u, 1..m)
  <2>1. 1..m \in SUBSET D /\ m \in Nat
    OBVIOUS
  <2>2. SumFunctionOnSet(z, 1..m) = SumFunctionOnSet(u, 1..m) + SumFunctionOnSet(v, 1..m)
    <3> HIDE DEF D, z
    <3>1. QED
      BY <1>1, <1>2, <2>1, SumsAdd
  <2>3. SumFunctionOnSet(z, 1..m) = 0
    <3>1. \A i \in 1..m : z[i] = 0
      OBVIOUS
    <3>2. SumFunctionOnSet(z, 1..m) = m * 0
      <4> HIDE DEF z
      <4>1. QED
        BY <2>1, <3>1, SumConst
    <3>3. QED
      BY <3>2
  <2>4. SumFunctionOnSet(u, 1..m) \in Int /\ SumFunctionOnSet(v, 1..m) \in Int
    <3> HIDE DEF D, z
    <3>1. SumLaw(u, D) /\ SumLaw(v, D)
      BY <1>1, <1>2, SumRecursion
    <3>2. QED
      BY <2>1, <3>1 DEF SumLaw
  <2>5. QED
    BY <2>2, <2>3, <2>4
<1>4. QED
  BY <1>3

\* A part of a sum of natural numbers, and each of them, is no more than the sum.
LEMMA PartOfSum ==
  ASSUME NEW n \in Nat, NEW w, \A i \in 1..n : w[i] \in Nat
  PROVE  /\ \A S \in SUBSET (1..n) : SumFunctionOnSet(w, S) \in Nat
         /\ \A S \in SUBSET (1..n) : \A j \in S : w[j] <= SumFunctionOnSet(w, S)
<1>1. IsFiniteSet(1..n) /\ Numbers(w, 1..n)
  BY FS_Interval DEF Numbers
<1>2. SumLaw(w, 1..n)
  BY <1>1, SumRecursion
<1>3. \A S \in SUBSET (1..n) : SumFunctionOnSet(w, S) \in Nat
  BY <1>1, SumGrows
<1>4. ASSUME NEW S \in SUBSET (1..n), NEW j \in S
      PROVE  w[j] <= SumFunctionOnSet(w, S)
  <2>1. SumFunctionOnSet(w, S) = w[j] + SumFunctionOnSet(w, S \ {j})
    BY <1>2 DEF SumLaw
  <2>2. SumFunctionOnSet(w, S \ {j}) \in Nat /\ w[j] \in Nat
    BY <1>3
  <2>3. QED
    BY <2>1, <2>2
<1>5. QED
  BY <1>3, <1>4

\* The sum of positive numbers so far keeps growing.
LEMMA SumsIncrease ==
  ASSUME NEW n \in Nat, NEW w, \A i \in 1..n : w[i] \in Nat \ {0}
  PROVE  \A i, j \in 1..n : i < j => SumFunctionOnSet(w, 1..i) < SumFunctionOnSet(w, 1..j)
<1>1. IsFiniteSet(1..n) /\ Numbers(w, 1..n)
  BY FS_Interval DEF Numbers
<1>2. ASSUME NEW i \in 1..n, NEW j \in 1..n, i < j
      PROVE  SumFunctionOnSet(w, 1..i) < SumFunctionOnSet(w, 1..j)
  <2> DEFINE D == 1..n
             A == 1..i
             B == i+1..j
  <2>1. A \in SUBSET D /\ B \in SUBSET D /\ A \cap B = {} /\ A \cup B = 1..j /\ j \in B /\ A = 1..i
    BY <1>2
  <2>2. SumFunctionOnSet(w, A \cup B) = SumFunctionOnSet(w, A) + SumFunctionOnSet(w, B)
    <3>1. IsFiniteSet(D) /\ Numbers(w, D)
      BY <1>1
    <3> HIDE DEF D, A, B
    <3>2. QED
      BY <2>1, <3>1, SumOfUnion
  <2>3. w[j] <= SumFunctionOnSet(w, B) /\ SumFunctionOnSet(w, B) \in Nat
        /\ SumFunctionOnSet(w, A) \in Nat /\ w[j] \in Nat \ {0}
    <3>1. \A k \in 1..n : w[k] \in Nat
      OBVIOUS
    <3> HIDE DEF A, B
    <3>2. QED
      BY <2>1, <3>1, PartOfSum
  <2> HIDE DEF A, B
  <2>4. SumFunctionOnSet(w, B) > 0
    BY <2>3
  <2>5. SumFunctionOnSet(w, A) < SumFunctionOnSet(w, A \cup B)
    BY <2>2, <2>3, <2>4
  <2>6. QED
    BY <2>1, <2>5
<1>3. QED
  BY <1>2

\* The numerator of a regression over the first m numbers.
Centred(r, m) == [i \in 1..m |-> (2 * i - (m + 1)) * r[i]]
Numerator(r, m) == SumFunctionOnSet(Centred(r, m), 1..m)

\* One number more adds what it is ahead of those before it.
LEMMA NumeratorStep ==
  ASSUME NEW m \in Nat, NEW r, Numbers(r, 1..m+1)
  PROVE  Numerator(r, m + 1) =
           Numerator(r, m) + SumFunctionOnSet([i \in 1..m |-> r[m + 1] - r[i]], 1..m)
<1> DEFINE D == 1..m
           u == Centred(r, m + 1)
           v == Centred(r, m)
           g == [i \in D |-> r[m + 1] - r[i]]
           c == [i \in D |-> r[m + 1]]
           t == [i \in D |-> v[i] + g[i]]
<1>1. IsFiniteSet(D) /\ r[m + 1] \in Int /\ \A i \in D : r[i] \in Int
  BY FS_Interval DEF Numbers
<1>2. \A i \in 1..m+1 : u[i] = (2 * i - (m + 2)) * r[i] /\ u[i] \in Int
  <2>1. ASSUME NEW i \in 1..m+1 PROVE u[i] = (2 * i - (m + 2)) * r[i] /\ u[i] \in Int
    <3>1. r[i] \in Int /\ 2 * i - (m + 2) \in Int /\ 2 * i - ((m + 1) + 1) = 2 * i - (m + 2)
      BY DEF Numbers
    <3>2. u[i] = (2 * i - (m + 2)) * r[i]
      BY <3>1 DEF Centred
    <3>3. \A a, b \in Int : a * b \in Int
      OBVIOUS
    <3>4. QED
      BY <3>1, <3>2, <3>3
  <2>2. QED
    BY <2>1
<1>3. \A i \in D : v[i] = (2 * i - (m + 1)) * r[i] /\ v[i] \in Int
  <2>1. ASSUME NEW i \in D PROVE v[i] = (2 * i - (m + 1)) * r[i] /\ v[i] \in Int
    <3>1. r[i] \in Int /\ 2 * i - (m + 1) \in Int
      BY <1>1
    <3>2. v[i] = (2 * i - (m + 1)) * r[i]
      BY DEF Centred
    <3>3. \A a, b \in Int : a * b \in Int
      OBVIOUS
    <3>4. QED
      BY <3>1, <3>2, <3>3
  <2>2. QED
    BY <2>1
<1>4. \A i \in D : g[i] \in Int /\ c[i] \in Int /\ c[i] = r[m + 1] /\ t[i] = v[i] + g[i] /\ t[i] = u[i] + c[i]
  <2>1. ASSUME NEW i \in D
        PROVE  g[i] \in Int /\ c[i] \in Int /\ c[i] = r[m + 1] /\ t[i] = v[i] + g[i] /\ t[i] = u[i] + c[i]
    <3>1. g[i] = r[m + 1] - r[i] /\ c[i] = r[m + 1] /\ t[i] = v[i] + g[i]
      OBVIOUS
    <3>2. r[i] \in Int /\ r[m + 1] \in Int /\ i \in Int /\ m \in Int
      BY <1>1
    <3>3. \A a, b \in Int : a * b + (r[m + 1] - b) = (a - 1) * b + r[m + 1]
      BY <3>2
    <3>4. (2 * i - (m + 1)) - 1 = 2 * i - (m + 2)
      BY <3>2
    <3>5. u[i] = (2 * i - (m + 2)) * r[i] /\ v[i] = (2 * i - (m + 1)) * r[i]
      BY <1>2, <1>3
    <3>6. (2 * i - (m + 1)) * r[i] + (r[m + 1] - r[i]) = ((2 * i - (m + 1)) - 1) * r[i] + r[m + 1]
      <4>1. 2 * i - (m + 1) \in Int
        BY <3>2
      <4>2. QED
        BY ONLY <3>2, <3>3, <4>1
    <3> HIDE DEF u, v, g, c, t
    <3>7. t[i] = u[i] + c[i]
      BY <3>1, <3>4, <3>5, <3>6
    <3>8. QED
      BY <3>1, <3>2, <3>7
  <2>2. QED
    BY <2>1
<1> HIDE DEF u, v, g, c, t
<1>5. Numbers(u, D) /\ Numbers(v, D) /\ Numbers(g, D) /\ Numbers(c, D) /\ Numbers(u, 1..m+1)
  BY <1>2, <1>3, <1>4 DEF Numbers
<1>6. D \in SUBSET D
  OBVIOUS
<1>7. SumFunctionOnSet(t, D) = SumFunctionOnSet(v, D) + SumFunctionOnSet(g, D)
  <2>1. \A x \in D : t[x] = v[x] + g[x]
    BY <1>4
  <2> HIDE DEF D
  <2>2. QED
    BY <1>1, <1>5, <1>6, <2>1, SumsAdd
<1>8. SumFunctionOnSet(t, D) = SumFunctionOnSet(u, D) + SumFunctionOnSet(c, D)
  <2>1. \A x \in D : t[x] = u[x] + c[x]
    BY <1>4
  <2> HIDE DEF D
  <2>2. QED
    BY <1>1, <1>5, <1>6, <2>1, SumsAdd
<1>9. SumFunctionOnSet(c, D) = m * r[m + 1]
  BY <1>1, <1>4, SumConst
<1>10. SumFunctionOnSet(u, 1..m+1) = SumFunctionOnSet(u, D) + u[m + 1]
  BY <1>5, SumAppended
<1>11. u[m + 1] = m * r[m + 1]
  <2>1. m + 1 \in 1..m+1 /\ 2 * (m + 1) - (m + 2) = m
    OBVIOUS
  <2>2. QED
    BY <1>2, <2>1
<1>12. QED
  BY <1>7, <1>8, <1>9, <1>10, <1>11 DEF Numerator, u, v, g

\* Numbers that grow have a positive numerator.
LEMMA GrowingNumbers ==
  ASSUME NEW n \in Nat, n >= 2, NEW r, Numbers(r, 1..n),
         \A i, j \in 1..n : i < j => r[i] < r[j]
  PROVE  Numerator(r, n) > 0
<1> DEFINE T == {m \in 2..n : ~(Numerator(r, m) > 0)}
<1>1. SUFFICES ASSUME T # {} PROVE FALSE
  <2>1. n \in 2..n
    OBVIOUS
  <2>2. QED
    BY <2>1
<1>2. PICK m \in T : \A k \in T : m <= k
  <2>1. T \subseteq Nat
    OBVIOUS
  <2> HIDE DEF T
  <2>2. QED
    BY <1>1, <2>1, LeastElement
<1>3. m \in 2..n /\ ~(Numerator(r, m) > 0)
  BY <1>2
<1>4. PICK k \in 1..n : m = k + 1
  <2>1. m - 1 \in 1..n /\ m = (m - 1) + 1
    BY <1>3
  <2>2. QED
    BY <2>1
<1>5. k + 1 \in 1..n /\ Numbers(r, 1..k+1)
  BY <1>3, <1>4 DEF Numbers
<1> DEFINE g == [i \in 1..k |-> r[k + 1] - r[i]]
<1>6. \A i \in 1..k : g[i] \in Nat \ {0}
  <2>1. ASSUME NEW i \in 1..k PROVE g[i] \in Nat \ {0}
    <3>1. i \in 1..n /\ i < k + 1
      BY <1>5
    <3>2. r[i] < r[k + 1] /\ r[i] \in Int /\ r[k + 1] \in Int
      BY <1>5, <3>1 DEF Numbers
    <3>3. QED
      BY <3>2
  <2>2. QED
    BY <2>1
<1>7. Numerator(r, k + 1) = Numerator(r, k) + SumFunctionOnSet(g, 1..k)
  BY <1>5, NumeratorStep
<1>8. SumFunctionOnSet(g, 1..k) \in Nat /\ SumFunctionOnSet(g, 1..k) > 0
  <2>1. 1..k \in SUBSET (1..k) /\ k \in 1..k /\ k \in Nat
    OBVIOUS
  <2>2. g[k] \in Nat \ {0}
    BY <1>6, <2>1
  <2>3. \A i \in 1..k : g[i] \in Nat
    BY <1>6
  <2> HIDE DEF g
  <2>4. g[k] <= SumFunctionOnSet(g, 1..k) /\ SumFunctionOnSet(g, 1..k) \in Nat
    BY <2>1, <2>3, PartOfSum
  <2>5. QED
    BY <2>2, <2>4
<1>9. Numerator(r, k) \in Int /\ Numerator(r, k) >= 0
  <2>1. CASE k = 1
    <3>1. Centred(r, 1)[1] = 0 * r[1] /\ r[1] \in Int
      <4>1. 1 \in 1..1 /\ 2 * 1 - (1 + 1) = 0
        OBVIOUS
      <4>2. r[1] \in Int
        BY <1>5 DEF Numbers
      <4>3. QED
        BY <4>1, <4>2 DEF Centred
    <3> DEFINE q == Centred(r, 1)
    <3>2. \A i \in 1..1 : q[i] = 0
      BY <3>1
    <3>3. SumFunctionOnSet(q, 1..1) = 1 * 0
      <4>1. 1 \in Nat /\ 0 \in Int
        OBVIOUS
      <4> HIDE DEF q
      <4>2. QED
        BY <3>2, <4>1, SumConst
    <3>4. QED
      BY <2>1, <3>3 DEF Numerator
  <2>2. CASE k # 1
    <3>1. k \in 2..n /\ k \notin T
      BY <1>2, <1>4, <2>2
    <3>2. Numerator(r, k) > 0
      BY <3>1
    <3>3. Numerator(r, k) \in Int
      <4>1. Numbers(Centred(r, k), 1..k) /\ IsFiniteSet(1..k) /\ 1..k \in SUBSET (1..k)
        <5>1. ASSUME NEW i \in 1..k PROVE Centred(r, k)[i] \in Int
          <6>1. r[i] \in Int /\ 2 * i - (k + 1) \in Int
            BY <1>5 DEF Numbers
          <6>2. \A a, b \in Int : a * b \in Int
            OBVIOUS
          <6>3. QED
            BY <6>1, <6>2 DEF Centred
        <5>2. QED
          BY <5>1, FS_Interval DEF Numbers
      <4>2. QED
        BY <4>1, SumRecursion DEF SumLaw, Numerator
    <3>4. QED
      BY <3>2, <3>3
  <2>3. QED
    BY <2>1, <2>2
<1>10. QED
  BY <1>3, <1>4, <1>7, <1>8, <1>9

\* Two lists of numbers that agree on the first n.
Agree(w, v, n) == \A i \in 1..n : w[i] = v[i]

\* A sum is the same of two lists that agree, and grows by what is appended.
LEMMA AppendedSum ==
  ASSUME NEW n \in Nat, NEW v, Numbers(v, 1..n), NEW w, Agree(w, v, n),
         w[n + 1] \in Int, NEW S \in SUBSET (1..n)
  PROVE  /\ SumFunctionOnSet(v, S) \in Int
         /\ SumFunctionOnSet(w, S) = SumFunctionOnSet(v, S)
         /\ SumFunctionOnSet(w, S \cup {n + 1}) = SumFunctionOnSet(v, S) + w[n + 1]
<1> DEFINE D == 1..n+1
<1>1. IsFiniteSet(D) /\ Numbers(w, D)
  <2>1. ASSUME NEW x \in D PROVE w[x] \in Int
    <3>1. x \in 1..n \/ x = n + 1
      OBVIOUS
    <3>2. QED
      BY <3>1 DEF Numbers, Agree
  <2>2. QED
    BY <2>1, FS_Interval DEF Numbers
<1>2. IsFiniteSet(S) /\ Numbers(v, S) /\ \A i \in S : w[i] = v[i]
  <2>1. IsFiniteSet(1..n)
    BY FS_Interval
  <2>2. IsFiniteSet(S)
    BY <2>1, FS_Subset
  <2>3. QED
    BY <2>2 DEF Numbers, Agree
<1>3. SumFunctionOnSet(w, S) = SumFunctionOnSet(v, S)
  BY <1>2, SameSum
<1>4. SumLaw(w, D) /\ SumLaw(v, S)
  BY <1>1, <1>2, SumRecursion
<1>5. S \cup {n + 1} \in SUBSET D /\ n + 1 \in S \cup {n + 1} /\ (S \cup {n + 1}) \ {n + 1} = S
  <2>1. n + 1 \notin S
    OBVIOUS
  <2>2. QED
    BY <2>1
<1>6. SumFunctionOnSet(w, S \cup {n + 1}) = w[n + 1] + SumFunctionOnSet(w, (S \cup {n + 1}) \ {n + 1})
  BY <1>4, <1>5 DEF SumLaw
<1>7. SumFunctionOnSet(v, S) \in Int
  BY <1>4 DEF SumLaw
<1>8. SumFunctionOnSet(w, S \cup {n + 1}) = w[n + 1] + SumFunctionOnSet(v, S)
  BY <1>3, <1>5, <1>6
<1>9. QED
  BY <1>3, <1>7, <1>8

\* The numbers of a sequence, and what one more of them adds.
LEMMA OneMoreNumber ==
  ASSUME NEW s \in Seq(Nat), NEW e \in Nat
  PROVE  SumFunction(Append(s, e)) = SumFunction(s) + e
<1> DEFINE w == Append(s, e)
           n == Len(s)
           S == 1..n
<1>1. /\ n \in Nat /\ DOMAIN s = 1..n /\ DOMAIN w = 1..n+1 /\ w[n + 1] = e /\ e \in Int
      /\ (1..n) \cup {n + 1} = 1..n+1
  OBVIOUS
<1>2. Agree(w, s, n)
  BY DEF Agree
<1>3. Numbers(s, 1..n)
  BY DEF Numbers
<1>4. S \in SUBSET (1..n) /\ S = 1..n
  OBVIOUS
<1>5. w[n + 1] \in Int
  BY <1>1
<1> HIDE DEF w, n, S
<1>6. SumFunctionOnSet(w, S \cup {n + 1}) = SumFunctionOnSet(s, S) + w[n + 1]
  <2>1. n \in Nat
    BY <1>1
  <2>2. QED
    BY ONLY <1>2, <1>3, <1>4, <1>5, <2>1, AppendedSum
<1>7. SumFunctionOnSet(w, 1..n+1) = SumFunctionOnSet(s, 1..n) + e
  BY <1>1, <1>4, <1>6
<1>8. QED
  BY <1>1, <1>7 DEF SumFunction, w

\* What a division that rounds down keeps of an order.
LEMMA QuotientBounds ==
  ASSUME NEW a \in Nat, NEW n \in Nat \ {0}, NEW x \in Nat
  PROVE  /\ a \div n \in Nat
         /\ n * x <= a => x <= a \div n
         /\ a <= n * x => a \div n <= x
OBVIOUS

LEMMA QuotientGrows ==
  ASSUME NEW a \in Nat, NEW b \in Nat, a <= b, NEW n \in Nat \ {0}
  PROVE  a \div n <= b \div n
<1> DEFINE q == a \div n
<1>1. q \in Nat /\ n * q <= a
  OBVIOUS
<1> HIDE DEF q
<1>2. n * q \in Nat /\ n * q <= b
  BY <1>1
<1>3. q <= b \div n
  BY <1>1, <1>2, QuotientBounds
<1>4. QED
  BY <1>3 DEF q

\* What all numbers of a list lie between, their sum lies between as often.
LEMMA SumBetween ==
  ASSUME NEW n \in Nat, NEW low \in Nat, NEW high \in Nat, NEW w,
         \A i \in 1..n : w[i] \in Nat /\ low <= w[i] /\ w[i] <= high
  PROVE  /\ SumFunctionOnSet(w, 1..n) \in Nat
         /\ n * low <= SumFunctionOnSet(w, 1..n) /\ SumFunctionOnSet(w, 1..n) <= n * high
<1> DEFINE Between(m) == /\ SumFunctionOnSet(w, 1..m) \in Nat
                         /\ m * low <= SumFunctionOnSet(w, 1..m)
                         /\ SumFunctionOnSet(w, 1..m) <= m * high
           T == {m \in 0..n : ~Between(m)}
<1>1. SUFFICES ASSUME T # {} PROVE FALSE
  <2>1. n \in 0..n
    OBVIOUS
  <2>2. QED
    BY <2>1
<1>2. T \subseteq Nat
  OBVIOUS
<1>3. PICK m \in T : \A k \in T : m <= k
  <2> HIDE DEF T
  <2> QED BY <1>1, <1>2, LeastElement
<1>4. m \in 0..n /\ ~Between(m)
  BY <1>3
<1>5. CASE m = 0
  <2>1. SumFunctionOnSet(w, 1..0) = 0
    <3>1. 1..0 = {} /\ IsFiniteSet({}) /\ Numbers(w, {})
      BY FS_EmptySet DEF Numbers
    <3>2. QED
      BY <3>1, SumRecursion DEF SumLaw
  <2>2. QED
    BY <1>4, <1>5, <2>1
<1>6. CASE m # 0
  <2>1. m - 1 \in 0..n /\ ~(m <= m - 1) /\ m \in 1..n
    BY <1>4, <1>6
  <2>2. Between(m - 1)
    <3> HIDE DEF Between
    <3> QED BY <1>3, <2>1
  <2> DEFINE k == m - 1
  <2>3. k \in Nat /\ k + 1 = m /\ Numbers(w, 1..k+1)
    BY <2>1 DEF Numbers
  <2>4. SumFunctionOnSet(w, 1..m) = SumFunctionOnSet(w, 1..k) + w[m]
    BY ONLY <2>3, SumAppended
  <2>5. w[m] \in Nat /\ low <= w[m] /\ w[m] <= high
    BY <2>1
  <2>6. m * low = k * low + low /\ m * high = k * high + high
        /\ k * low \in Nat /\ k * high \in Nat
    BY <2>3
  <2>7. Between(m)
    BY <2>2, <2>4, <2>5, <2>6
  <2>8. QED
    BY <1>4, <2>7
<1>7. QED
  BY <1>5, <1>6

\* The sum of multiples.
LEMMA SumScaled ==
  ASSUME NEW n \in Nat, NEW c \in Int, NEW w, Numbers(w, 1..n),
         NEW v, \A i \in 1..n : v[i] = c * w[i]
  PROVE  SumFunctionOnSet(v, 1..n) = c * SumFunctionOnSet(w, 1..n)
<1> DEFINE Scaled(m) == SumFunctionOnSet(v, 1..m) = c * SumFunctionOnSet(w, 1..m)
           T == {m \in 0..n : ~Scaled(m)}
<1>0. \A p, q \in Int : p * q \in Int
  OBVIOUS
<1>a. Numbers(v, 1..n)
  BY <1>0 DEF Numbers
<1>1. SUFFICES ASSUME T # {} PROVE FALSE
  <2>1. n \in 0..n
    OBVIOUS
  <2>2. QED
    BY <2>1
<1>2. T \subseteq Nat
  OBVIOUS
<1>3. PICK m \in T : \A k \in T : m <= k
  <2> HIDE DEF T
  <2> QED BY <1>1, <1>2, LeastElement
<1>4. m \in 0..n /\ ~Scaled(m)
  BY <1>3
<1>5. CASE m = 0
  <2>1. \A u : SumFunctionOnSet(u, 1..0) = 0
    <3>1. 1..0 = {} /\ IsFiniteSet({}) /\ \A u : Numbers(u, {})
      BY FS_EmptySet DEF Numbers
    <3>2. QED
      BY <3>1, SumRecursion DEF SumLaw
  <2>2. QED
    BY <1>4, <1>5, <2>1
<1>6. CASE m # 0
  <2>1. m - 1 \in 0..n /\ ~(m <= m - 1) /\ m \in 1..n
    BY <1>4, <1>6
  <2>2. Scaled(m - 1)
    <3> HIDE DEF Scaled
    <3> QED BY <1>3, <2>1
  <2> DEFINE k == m - 1
  <2>3. k \in Nat /\ k + 1 = m /\ Numbers(w, 1..k+1) /\ Numbers(v, 1..k+1)
    BY <1>a, <2>1 DEF Numbers
  <2>4. /\ SumFunctionOnSet(w, 1..m) = SumFunctionOnSet(w, 1..k) + w[m]
        /\ SumFunctionOnSet(v, 1..m) = SumFunctionOnSet(v, 1..k) + v[m]
        /\ SumFunctionOnSet(w, 1..k) \in Int /\ w[m] \in Int
    BY ONLY <2>3, SumAppended
  <2>5. v[m] = c * w[m]
    BY <2>1
  <2>6. \A p, q \in Int : c * (p + q) = c * p + c * q
    OBVIOUS
  <2>7. Scaled(m)
    BY <2>2, <2>4, <2>5, <2>6
  <2>8. QED
    BY <1>4, <2>7
<1>7. QED
  BY <1>5, <1>6

\* n * n times the squares of the deviations from the mean.
Deviations(x, n) ==
  LET sum == SumFunctionOnSet(x, 1..n)
  IN [i \in 1..n |-> (n * x[i] - sum) * (n * x[i] - sum)]

Squares(x, n) == [i \in 1..n |-> x[i] * x[i]]

\* The mean of the squares less the square of the mean, and when it is zero.
LEMMA VarianceOf ==
  ASSUME NEW n \in Nat \ {0}, NEW x, \A i \in 1..n : x[i] \in Nat
  PROVE  LET sum == SumFunctionOnSet(x, 1..n)
             squares == SumFunctionOnSet(Squares(x, n), 1..n)
             spread == SumFunctionOnSet(Deviations(x, n), 1..n)
         IN /\ sum \in Nat
            /\ spread = n * (n * squares - sum * sum)
            /\ spread = 0 <=> \A i \in 1..n : x[i] = x[1]
<1> DEFINE D == 1..n
           sum == SumFunctionOnSet(x, D)
           squares == SumFunctionOnSet(Squares(x, n), D)
           dev == Deviations(x, n)
           a == [i \in D |-> (n * n) * Squares(x, n)[i]]
           b == [i \in D |-> (-(2 * n * sum)) * x[i]]
           d == [i \in D |-> sum * sum]
           ab == [i \in D |-> a[i] + b[i]]
<1>1. sum \in Nat
  <2>1. D \in SUBSET D
    OBVIOUS
  <2>2. QED
    BY <2>1, PartOfSum
<1>2. dev = [i \in D |-> (n * x[i] - sum) * (n * x[i] - sum)]
  BY DEF Deviations
<1>3. \A i \in D : /\ x[i] \in Nat /\ Squares(x, n)[i] = x[i] * x[i] /\ x[i] * x[i] \in Nat
  <2>1. \A p \in Nat : p * p \in Nat
    OBVIOUS
  <2>2. QED
    BY <2>1 DEF Squares
<1>4. n * n \in Int /\ -(2 * n * sum) \in Int /\ sum * sum \in Int
  <2>1. \A p, q \in Nat : p * q \in Int /\ -(2 * p * q) \in Int
    OBVIOUS
  <2>2. QED
    BY <1>1, <2>1
<1>5. \A p, q \in Int : p * q \in Int /\ p + q \in Int
  OBVIOUS
<1>6. Numbers(x, D) /\ Numbers(Squares(x, n), D)
  BY <1>3 DEF Numbers
<1>7. Numbers(a, D) /\ Numbers(b, D) /\ Numbers(d, D)
  <2>1. \A i \in D : a[i] \in Int /\ b[i] \in Int /\ d[i] \in Int
    <3>1. TAKE i \in D
    <3>2. x[i] \in Int /\ Squares(x, n)[i] \in Int
      BY <1>3
    <3>3. (n * n) * Squares(x, n)[i] \in Int /\ (-(2 * n * sum)) * x[i] \in Int
      <4> HIDE DEF sum
      <4> QED BY ONLY <1>4, <1>5, <3>2
    <3>4. QED
      BY <1>4, <3>3
  <2>2. QED
    BY <2>1 DEF Numbers
<1>8. SumFunctionOnSet(a, D) = (n * n) * squares
  <2>1. \A i \in D : a[i] = (n * n) * Squares(x, n)[i]
    OBVIOUS
  <2> HIDE DEF a, squares
  <2>2. QED
    BY <1>4, <1>6, <2>1, SumScaled DEF squares
<1>9. SumFunctionOnSet(b, D) = (-(2 * n * sum)) * sum
  <2> DEFINE c == -(2 * n * sum)
  <2>1. \A i \in D : b[i] = c * x[i]
    OBVIOUS
  <2>2. c \in Int
    BY <1>4
  <2> HIDE DEF b, c
  <2>3. SumFunctionOnSet(b, D) = c * SumFunctionOnSet(x, D)
    BY <1>6, <2>1, <2>2, SumScaled
  <2>4. QED
    BY <2>3 DEF c
<1>10. SumFunctionOnSet(d, D) = n * (sum * sum)
  <2>1. \A i \in D : d[i] = sum * sum
    OBVIOUS
  <2> HIDE DEF d, sum
  <2>2. QED
    BY <1>4, <2>1, SumConst
<1>11. IsFiniteSet(D) /\ D \in SUBSET D
  BY FS_Interval
<1>12. SumFunctionOnSet(ab, D) = SumFunctionOnSet(a, D) + SumFunctionOnSet(b, D) /\ Numbers(ab, D)
  <2>1. \A i \in D : ab[i] = a[i] + b[i]
    OBVIOUS
  <2> HIDE DEF a, b, ab
  <2>2. Numbers(ab, D)
    BY <1>7, <2>1 DEF Numbers
  <2> HIDE DEF D
  <2>3. \A s \in SUBSET D : SumFunctionOnSet(ab, s) = SumFunctionOnSet(a, s) + SumFunctionOnSet(b, s)
    BY ONLY <1>7, <1>11, <2>1, SumsAdd
  <2>4. QED
    BY ONLY <1>11, <2>2, <2>3
<1>13. \A i \in D : dev[i] = ab[i] + d[i]
  <2>1. \A p, q, s \in Int : (p * q - s) * (p * q - s) = (p * p) * (q * q) + (-(2 * p * s)) * q + s * s
    OBVIOUS
  <2>2. TAKE i \in D
  <2>3. dev[i] = (n * x[i] - sum) * (n * x[i] - sum)
    BY <1>2
  <2>4. ab[i] = (n * n) * (x[i] * x[i]) + (-(2 * n * sum)) * x[i]
    BY <1>3
  <2>5. n \in Int /\ x[i] \in Int /\ sum \in Int /\ d[i] = sum * sum
    BY <1>1, <1>3
  <2> HIDE DEF sum, dev, ab, d
  <2>6. (n * x[i] - sum) * (n * x[i] - sum)
          = (n * n) * (x[i] * x[i]) + (-(2 * n * sum)) * x[i] + sum * sum
    BY ONLY <2>1, <2>5
  <2>7. QED
    BY ONLY <2>3, <2>4, <2>5, <2>6
<1>14. SumFunctionOnSet(dev, D) = SumFunctionOnSet(ab, D) + SumFunctionOnSet(d, D)
  <2> HIDE DEF ab, d, dev, D
  <2>1. \A s \in SUBSET D : SumFunctionOnSet(dev, s) = SumFunctionOnSet(ab, s) + SumFunctionOnSet(d, s)
    BY ONLY <1>7, <1>11, <1>12, <1>13, SumsAdd
  <2>2. QED
    BY ONLY <1>11, <2>1
<1>15. squares \in Int
  <2> HIDE DEF D
  <2> QED BY <1>6, <1>11, SumRecursion DEF SumLaw
<1>16. SumFunctionOnSet(dev, D) = n * (n * squares - sum * sum)
  <2>1. \A p, q, s \in Int : (p * p) * q + (-(2 * p * s)) * s + p * (s * s) = p * (p * q - s * s)
    OBVIOUS
  <2>2. n \in Int /\ sum \in Int
    BY <1>1
  <2> HIDE DEF sum, squares, dev, ab, a, b, d
  <2>3. SumFunctionOnSet(dev, D) = (n * n) * squares + (-(2 * n * sum)) * sum + n * (sum * sum)
    BY <1>8, <1>9, <1>10, <1>12, <1>14
  <2>4. QED
    BY ONLY <1>15, <2>1, <2>2, <2>3
<1>17. \A i \in D : dev[i] \in Nat /\ (dev[i] = 0 <=> n * x[i] = sum)
  <2>1. \A p \in Int : p * p \in Nat /\ (p * p = 0 <=> p = 0)
    OBVIOUS
  <2>2. TAKE i \in D
  <2>3. n * x[i] \in Int /\ sum \in Int
    <3>1. \A p, q \in Nat : p * q \in Int
      OBVIOUS
    <3> HIDE DEF sum
    <3>2. QED
      BY <1>1, <1>3, <3>1
  <2>4. dev[i] = (n * x[i] - sum) * (n * x[i] - sum)
    BY <1>2
  <2> HIDE DEF sum, dev
  <2>5. n * x[i] - sum \in Int /\ (n * x[i] - sum = 0 <=> n * x[i] = sum)
    BY ONLY <2>3
  <2>6. QED
    BY ONLY <2>1, <2>4, <2>5
<1>18. ASSUME SumFunctionOnSet(dev, D) = 0, NEW i \in D PROVE x[i] = x[1]
  <2>1. 1 \in D
    OBVIOUS
  <2>2. \A j \in D : dev[j] <= SumFunctionOnSet(dev, D) /\ dev[j] \in Nat
    <3> HIDE DEF dev
    <3> QED BY <1>11, <1>17, PartOfSum
  <2>3. dev[i] = 0 /\ dev[1] = 0
    <3> HIDE DEF dev, D
    <3> QED BY <1>18, <2>1, <2>2
  <2>4. n * x[i] = sum /\ n * x[1] = sum
    <3> HIDE DEF dev, D, sum
    <3> QED BY <1>17, <1>18, <2>1, <2>3
  <2>5. \A p, q \in Nat : n * p = n * q => p = q
    OBVIOUS
  <2> HIDE DEF sum
  <2>6. QED
    BY <1>3, <2>1, <2>4, <2>5
<1>19. ASSUME \A i \in D : x[i] = x[1] PROVE SumFunctionOnSet(dev, D) = 0
  <2>1. 1 \in D /\ x[1] \in Int
    BY <1>3
  <2>2. sum = n * x[1]
    <3>1. \A i \in 1..n : x[i] = x[1]
      BY <1>19
    <3>2. QED
      BY <2>1, <3>1, SumConst
  <2>3. \A i \in D : dev[i] = 0
    <3> HIDE DEF dev, sum
    <3> QED BY <1>17, <1>19, <2>2
  <2>4. SumFunctionOnSet(dev, D) = n * 0
    <3> HIDE DEF dev
    <3>1. \A i \in 1..n : dev[i] = 0
      BY <2>3
    <3>2. QED
      BY <3>1, SumConst
  <2>5. QED
    BY <2>4
<1>20. QED
  <2> HIDE DEF sum, squares
  <2> QED BY <1>1, <1>16, <1>18, <1>19 DEF sum, squares
=============================================================================
