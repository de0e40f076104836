-------------------------------- MODULE Sums --------------------------------
(* Facts about sums over finite sets, SumFunctionOnSet(F, S), for proofs     *)
(* about books that add their rows up.  The library's induction theorems     *)
(* take predicates; here a predicate is the set of what satisfies it, and    *)
(* induction a fact about sets.                                              *)
EXTENDS Functions, FiniteSets, FiniteSetTheorems, WellFoundedInduction, TLAPS

-----------------------------------------------------------------------------
(* Induction                                                               *)

LEMMA NatInduct ==
    ASSUME NEW P, 0 \in P, \A n \in Nat : n \in P => n + 1 \in P
    PROVE  Nat \subseteq P
<1> DEFINE T == Nat \ P
<1>1. SUFFICES ASSUME T # {} PROVE FALSE
  OBVIOUS
<1>2. PICK m \in T : \A n \in T : ~ (<<n, m>> \in OpToRel(<, Nat))
  BY <1>1, NatLessThanWellFounded, WFMin
<1>3. m \in Nat \ {0}
  BY <1>2
<1>4. m - 1 \in Nat /\ m - 1 < m
  BY <1>3
<1>5. m - 1 \in P
  <2>1. <<m - 1, m>> \in OpToRel(<, Nat)
    <3>1. <<m-1, m>> \in Nat \X Nat /\ <<m-1, m>>[1] < <<m-1, m>>[2]
      BY <1>3, <1>4
    <3> QED BY <3>1 DEF OpToRel
  <2> QED BY <1>2, <2>1, <1>4
<1>6. (m - 1) + 1 \in P
  BY <1>4, <1>5
<1> QED BY <1>6, <1>3

\* What holds of the subsets of S with at most n elements, for every n, holds of
\* all: P holds of a set when it holds of its smaller subsets.
LEMMA SizeInduct ==
    ASSUME NEW S, IsFiniteSet(S), NEW P,
           \A T \in SUBSET S :
              (\A U \in SUBSET T : U # T => U \in P) => T \in P
    PROVE  SUBSET S \subseteq P
<1> DEFINE Q == {n \in Nat : \A T \in SUBSET S : Cardinality(T) <= n => T \in P}
<1>1. \A T \in SUBSET S : IsFiniteSet(T) /\ Cardinality(T) \in Nat
  BY FS_Subset, FS_CardinalityType
<1>2. \A T \in SUBSET S : \A U \in SUBSET T : U # T =>
         Cardinality(U) \in Nat /\ Cardinality(U) < Cardinality(T)
  <2> SUFFICES ASSUME NEW T \in SUBSET S, NEW U \in SUBSET T, U # T
               PROVE  Cardinality(U) \in Nat /\ Cardinality(U) < Cardinality(T)
    OBVIOUS
  <2>1. IsFiniteSet(T) /\ Cardinality(T) \in Nat /\ Cardinality(U) \in Nat
    BY <1>1
  <2>2. Cardinality(U) <= Cardinality(T) /\ (Cardinality(T) = Cardinality(U) => T = U)
    BY <2>1, FS_Subset
  <2> QED
    BY <2>1, <2>2
<1>3. 0 \in Q
  <2> SUFFICES ASSUME NEW T \in SUBSET S, Cardinality(T) <= 0 PROVE T \in P
    OBVIOUS
  <2>1. \A U \in SUBSET T : U # T => U \in P
    BY <1>1, <1>2
  <2> QED
    BY <2>1
<1>4. ASSUME NEW n \in Nat, n \in Q PROVE n + 1 \in Q
  <2> SUFFICES ASSUME NEW T \in SUBSET S, Cardinality(T) <= n + 1 PROVE T \in P
    OBVIOUS
  <2>1. \A U \in SUBSET T : U # T => U \in SUBSET S /\ Cardinality(U) <= n
    BY <1>1, <1>2
  <2>2. \A U \in SUBSET T : U # T => U \in P
    BY <2>1, <1>4
  <2> QED
    BY <2>2
<1>5. Nat \subseteq Q
  <2> HIDE DEF Q
  <2> QED BY <1>3, <1>4, NatInduct
<1>6. \A T \in SUBSET S : Cardinality(T) \in Q /\ Cardinality(T) <= Cardinality(T)
  BY <1>1, <1>5
<1> QED
  BY <1>6

\* A set that has the empty one and grows by one element has every finite set.
LEMMA SetInduct ==
    ASSUME NEW S, IsFiniteSet(S), NEW P, {} \in P,
           \A T \in SUBSET S, x \in S : x \notin T /\ T \in P => T \cup {x} \in P
    PROVE  S \in P
<1>1. ASSUME NEW T \in SUBSET S, \A U \in SUBSET T : U # T => U \in P
      PROVE  T \in P
  <2>1. CASE T = {}
    BY <2>1
  <2>2. CASE T # {}
    <3>1. PICK x \in T : TRUE
      BY <2>2
    <3>2. T \ {x} \in P /\ T \ {x} \in SUBSET S /\ x \notin T \ {x}
      BY <1>1, <3>1
    <3>3. (T \ {x}) \cup {x} = T
      BY <3>1
    <3> QED
      BY <3>1, <3>2, <3>3
  <2> QED
    BY <2>1, <2>2
<1> QED
  BY <1>1, SizeInduct

-----------------------------------------------------------------------------
(* The sum of a set, element by element                                    *)

Chosen(s) == CHOOSE x \in s : TRUE
Step(F, S, g) == [s \in SUBSET S |-> IF s = {} THEN 0 ELSE F[Chosen(s)] + g[s \ {Chosen(s)}]]
It(F, S) == CHOOSE g : g = Step(F, S, g)

LEMMA SumIt ==
    ASSUME NEW F, NEW S
    PROVE  SumFunctionOnSet(F, S) = It(F, S)[S]
BY DEF SumFunctionOnSet, FoldFunctionOnSet, MapThenFoldSet, It, Step, Chosen

\* The recursion has a solution: n steps of it are right for sets of size n.
LEMMA ItExists ==
    ASSUME NEW F, NEW S, IsFiniteSet(S)
    PROVE  It(F, S) = Step(F, S, It(F, S))
<1> DEFINE Q == {n \in Nat : \E g : \A T \in SUBSET S :
                    Cardinality(T) <= n => g[T] = Step(F, S, g)[T]}
<1>1. \A T \in SUBSET S : IsFiniteSet(T) /\ Cardinality(T) \in Nat
  BY FS_Subset, FS_CardinalityType
<1>2. ASSUME NEW T \in SUBSET S, T # {}
      PROVE  /\ Chosen(T) \in T /\ T \ {Chosen(T)} \in SUBSET S
             /\ Cardinality(T \ {Chosen(T)}) = Cardinality(T) - 1
  <2>1. Chosen(T) \in T
    BY <1>2 DEF Chosen
  <2> QED
    BY <1>1, <2>1, FS_RemoveElement
<1>3. 0 \in Q
  <2>1. \A T \in SUBSET S : Cardinality(T) <= 0 => T = {}
    BY <1>1, FS_EmptySet
  <2>2. \A T \in SUBSET S : Cardinality(T) <= 0 =>
           [U \in SUBSET S |-> 0][T] = Step(F, S, [U \in SUBSET S |-> 0])[T]
    BY <2>1 DEF Step
  <2> QED
    BY <2>2
<1>4. ASSUME NEW n \in Nat, n \in Q PROVE n + 1 \in Q
  <2>1. PICK g : \A T \in SUBSET S : Cardinality(T) <= n => g[T] = Step(F, S, g)[T]
    BY <1>4
  <2> DEFINE h == Step(F, S, g)
  <2>2. \A T \in SUBSET S : Cardinality(T) <= n => g[T] = h[T]
    BY <2>1
  <2>3. ASSUME NEW T \in SUBSET S, Cardinality(T) <= n + 1
        PROVE  h[T] = Step(F, S, h)[T]
    <3>1. CASE T = {}
      BY <3>1 DEF Step
    <3>2. CASE T # {}
      <4>1. h[T] = F[Chosen(T)] + g[T \ {Chosen(T)}]
        BY <3>2 DEF Step
      <4>2. Cardinality(T \ {Chosen(T)}) <= n /\ T \ {Chosen(T)} \in SUBSET S
        BY <1>1, <1>2, <2>3, <3>2
      <4>3. Step(F, S, h)[T] = F[Chosen(T)] + h[T \ {Chosen(T)}]
        <5> HIDE DEF h
        <5> QED BY <3>2 DEF Step
      <4> HIDE DEF h
      <4> QED
        BY <4>1, <4>2, <4>3, <2>2
    <3> QED
      BY <3>1, <3>2
  <2> HIDE DEF h
  <2> QED
    BY <2>3
<1>5. Cardinality(S) \in Q
  <2>1. Nat \subseteq Q
    <3> HIDE DEF Q
    <3> QED BY <1>3, <1>4, NatInduct
  <2> QED
    BY <2>1, <1>1
<1>6. PICK g : \A T \in SUBSET S : Cardinality(T) <= Cardinality(S) => g[T] = Step(F, S, g)[T]
  BY <1>5
<1>7. \A T \in SUBSET S : g[T] = Step(F, S, g)[T]
  <2>1. \A T \in SUBSET S : Cardinality(T) <= Cardinality(S)
    BY FS_Subset
  <2> QED
    BY <1>6, <2>1
<1> DEFINE h == [T \in SUBSET S |-> g[T]]
<1>8. h = Step(F, S, h)
  <2>1. \A T \in SUBSET S : h[T] = Step(F, S, h)[T]
    <3> SUFFICES ASSUME NEW T \in SUBSET S PROVE h[T] = Step(F, S, h)[T]
      OBVIOUS
    <3>1. h[T] = g[T]
      OBVIOUS
    <3>2. g[T] = Step(F, S, g)[T]
      BY <1>7
    <3>3. CASE T = {}
      BY <3>1, <3>2, <3>3 DEF Step
    <3>4. CASE T # {}
      <4>1. g[T] = F[Chosen(T)] + g[T \ {Chosen(T)}]
        BY <3>2, <3>4 DEF Step
      <4>2. Step(F, S, h)[T] = F[Chosen(T)] + h[T \ {Chosen(T)}]
        <5> HIDE DEF h
        <5> QED BY <3>4 DEF Step
      <4>3. h[T \ {Chosen(T)}] = g[T \ {Chosen(T)}]
        BY <1>2, <3>4
      <4> QED
        BY <3>1, <4>1, <4>2, <4>3
    <3> QED
      BY <3>3, <3>4
  <2>2. Step(F, S, h) = [T \in SUBSET S |-> Step(F, S, h)[T]]
    <3> HIDE DEF h
    <3> QED BY DEF Step
  <2>3. h = [T \in SUBSET S |-> h[T]]
    OBVIOUS
  <2> HIDE DEF h
  <2> QED
    BY <2>1, <2>2, <2>3
<1>9. \E k : k = Step(F, S, k)
  <2> HIDE DEF h
  <2> QED BY <1>8
<1> QED
  BY <1>9 DEF It

Solves(F, S, i) ==
    /\ i[{}] = 0
    /\ \A T \in SUBSET S : T # {} => i[T] = F[Chosen(T)] + i[T \ {Chosen(T)}]

LEMMA ItSolves ==
    ASSUME NEW F, NEW S, IsFiniteSet(S)
    PROVE  Solves(F, S, It(F, S))
<1> DEFINE i == It(F, S)
<1>1. i = Step(F, S, i)
  BY ItExists
<1> HIDE DEF i
<1>2. i[{}] = 0
  BY <1>1 DEF Step
<1>3. \A T \in SUBSET S : T # {} => i[T] = F[Chosen(T)] + i[T \ {Chosen(T)}]
  <2> SUFFICES ASSUME NEW T \in SUBSET S, T # {}
               PROVE  i[T] = F[Chosen(T)] + i[T \ {Chosen(T)}]
    OBVIOUS
  <2>1. Step(F, S, i)[T] = F[Chosen(T)] + i[T \ {Chosen(T)}]
    BY DEF Step
  <2> QED
    BY <1>1, <2>1
<1>4. Solves(F, S, i)
  BY <1>2, <1>3 DEF Solves
<1> QED
  BY <1>4 DEF i

\* The solutions for two sets agree on what is in both, for functions that do.
LEMMA ItAgrees ==
    ASSUME NEW F, NEW G, NEW S, IsFiniteSet(S), NEW R, IsFiniteSet(R),
           \A x \in S : F[x] = G[x], S \subseteq R
    PROVE  It(F, S)[S] = It(G, R)[S]
<1> DEFINE i == It(F, S)
           j == It(G, R)
           P == {T \in SUBSET S : i[T] = j[T]}
<1>1. Solves(F, S, i) /\ Solves(G, R, j)
  BY ItSolves
<1> HIDE DEF i, j
<1>2. ASSUME NEW T \in SUBSET S, \A U \in SUBSET T : U # T => U \in P
      PROVE  T \in P
  <2>1. CASE T = {}
    BY <2>1, <1>1 DEF Solves
  <2>2. CASE T # {}
    <3>1. Chosen(T) \in T
      BY <2>2 DEF Chosen
    <3>2. i[T] = F[Chosen(T)] + i[T \ {Chosen(T)}]
      BY <1>1, <2>2 DEF Solves
    <3>3. j[T] = G[Chosen(T)] + j[T \ {Chosen(T)}]
      <4>1. T \in SUBSET R
        OBVIOUS
      <4> QED
        BY <1>1, <2>2, <4>1 DEF Solves
    <3>4. i[T \ {Chosen(T)}] = j[T \ {Chosen(T)}]
      BY <1>2, <3>1
    <3> QED
      BY <3>1, <3>2, <3>3, <3>4
  <2> QED
    BY <2>1, <2>2
<1>3. SUBSET S \subseteq P
  <2> HIDE DEF P
  <2> QED BY <1>2, SizeInduct
<1> QED
  BY <1>3 DEF i, j

\* The sum does not depend on the order in which the elements are taken.
Removes(F, i, T) == i[T] \in Int /\ \A x \in T : i[T] = F[x] + i[T \ {x}]

LEMMA ItRemoves ==
    ASSUME NEW F, NEW S, IsFiniteSet(S), \A x \in S : F[x] \in Int
    PROVE  Removes(F, It(F, S), S)
<1> DEFINE i == It(F, S)
           P == {T \in SUBSET S : Removes(F, i, T)}
<1>1. Solves(F, S, i)
  BY ItSolves
<1> HIDE DEF i
<1>2. ASSUME NEW T \in SUBSET S, \A U \in SUBSET T : U # T => U \in P
      PROVE  T \in P
  <2>1. CASE T = {}
    BY <2>1, <1>1 DEF Removes, Solves
  <2>2. CASE T # {}
    <3> DEFINE c == Chosen(T)
    <3>1. c \in T /\ c \in S
      BY <2>2 DEF Chosen
    <3>2. i[T] = F[c] + i[T \ {c}]
      BY <1>1, <2>2 DEF Solves
    <3> HIDE DEF c
    <3>3. i[T \ {c}] \in Int /\ Removes(F, i, T \ {c})
      BY <1>2, <3>1 DEF Removes
    <3>4. ASSUME NEW x \in T, x # c PROVE i[T] = F[x] + i[T \ {x}]
      <4>1. Removes(F, i, T \ {x})
        BY <1>2, <3>4
      <4>2. Removes(F, i, (T \ {x}) \ {c})
        <5>1. (T \ {x}) \ {c} \in SUBSET T /\ (T \ {x}) \ {c} # T
          BY <3>1
        <5> QED BY <1>2, <5>1
      <4>3. i[T \ {x}] = F[c] + i[(T \ {x}) \ {c}]
        BY <3>1, <3>4, <4>1 DEF Removes
      <4>4. i[T \ {c}] = F[x] + i[(T \ {c}) \ {x}]
        BY <3>3, <3>4 DEF Removes
      <4>5. (T \ {c}) \ {x} = (T \ {x}) \ {c}
        OBVIOUS
      <4>6. i[(T \ {x}) \ {c}] \in Int /\ F[x] \in Int /\ F[c] \in Int
        BY <3>1, <4>2 DEF Removes
      <4>7. i[T] = F[c] + (F[x] + i[(T \ {x}) \ {c}])
        BY <3>2, <4>4, <4>5
      <4> DEFINE r == i[(T \ {x}) \ {c}]
                 a == F[x]
                 b == F[c]
                 w == i[T]
                 v == i[T \ {x}]
      <4>8. w = b + (a + r) /\ v = b + r /\ r \in Int /\ a \in Int /\ b \in Int
        BY <4>3, <4>6, <4>7
      <4>9. w = a + v
        <5> HIDE DEF w, v, a, b, r
        <5> QED BY <4>8
      <4> QED
        BY <4>9
    <3>5. i[T] \in Int
      BY <3>1, <3>2, <3>3
    <3> QED
      BY <3>2, <3>4, <3>5 DEF Removes
  <2> QED
    BY <2>1, <2>2
<1>3. SUBSET S \subseteq P
  <2> HIDE DEF P
  <2> QED BY <1>2, SizeInduct
<1> QED
  BY <1>3 DEF i

LEMMA SumEmpty ==
    ASSUME NEW F
    PROVE  SumFunctionOnSet(F, {}) = 0
<1>1. Solves(F, {}, It(F, {}))
  BY ItSolves, FS_EmptySet
<1> QED
  BY <1>1, SumIt DEF Solves

LEMMA SumRemove ==
    ASSUME NEW F, NEW S, IsFiniteSet(S), \A x \in S : F[x] \in Int
    PROVE  /\ SumFunctionOnSet(F, S) \in Int
           /\ \A x \in S : SumFunctionOnSet(F, S) = F[x] + SumFunctionOnSet(F, S \ {x})
<1>1. SumFunctionOnSet(F, S) = It(F, S)[S] /\ Removes(F, It(F, S), S)
  BY SumIt, ItRemoves
<1>2. ASSUME NEW x \in S
      PROVE  SumFunctionOnSet(F, S) = F[x] + SumFunctionOnSet(F, S \ {x})
  <2>1. IsFiniteSet(S \ {x})
    BY FS_RemoveElement
  <2>2. It(F, S \ {x})[S \ {x}] = It(F, S)[S \ {x}]
    BY <2>1, ItAgrees
  <2>3. SumFunctionOnSet(F, S \ {x}) = It(F, S)[S \ {x}]
    BY <2>2, SumIt
  <2> QED
    BY <1>1, <2>3 DEF Removes
<1> QED
  BY <1>1, <1>2 DEF Removes

\* The sum looks at nothing but the values of its elements.
LEMMA SumAgree ==
    ASSUME NEW F, NEW G, NEW S, IsFiniteSet(S), \A x \in S : F[x] = G[x]
    PROVE  SumFunctionOnSet(F, S) = SumFunctionOnSet(G, S)
<1>1. It(F, S)[S] = It(G, S)[S]
  BY ItAgrees
<1> QED
  BY <1>1, SumIt

LEMMA SumAdd ==
    ASSUME NEW F, NEW S, IsFiniteSet(S), NEW x, x \notin S,
           \A y \in S \cup {x} : F[y] \in Int
    PROVE  /\ SumFunctionOnSet(F, S \cup {x}) = SumFunctionOnSet(F, S) + F[x]
           /\ SumFunctionOnSet(F, S) \in Int
<1> DEFINE T == S \cup {x}
<1>1. IsFiniteSet(T) /\ T \ {x} = S /\ x \in T /\ \A y \in T : F[y] \in Int
  BY FS_AddElement
<1> HIDE DEF T
<1>2. SumFunctionOnSet(F, T) = F[x] + SumFunctionOnSet(F, S)
  BY <1>1, SumRemove
<1>3. SumFunctionOnSet(F, S) \in Int /\ F[x] \in Int
  BY <1>1, SumRemove
<1>4. SumFunctionOnSet(F, T) = SumFunctionOnSet(F, S) + F[x]
  BY <1>2, <1>3
<1> QED
  BY <1>3, <1>4 DEF T

-----------------------------------------------------------------------------
(* Sums of sets                                                            *)

\* One element.
LEMMA SumOne ==
    ASSUME NEW F, NEW x, F[x] \in Int
    PROVE  SumFunctionOnSet(F, {x}) = F[x]
<1>1. SumFunctionOnSet(F, {} \cup {x}) = SumFunctionOnSet(F, {}) + F[x]
  BY FS_EmptySet, SumAdd
<1>2. {} \cup {x} = {x}
  OBVIOUS
<1> QED
  BY <1>1, <1>2, SumEmpty

\* Two sets without a common element.
LEMMA SumUnion ==
    ASSUME NEW F, NEW S, IsFiniteSet(S), NEW T, IsFiniteSet(T), S \cap T = {},
           \A x \in S \cup T : F[x] \in Int
    PROVE  SumFunctionOnSet(F, S \cup T) = SumFunctionOnSet(F, S) + SumFunctionOnSet(F, T)
<1> DEFINE P == {U \in SUBSET T :
                    SumFunctionOnSet(F, S \cup U) = SumFunctionOnSet(F, S) + SumFunctionOnSet(F, U)}
<1>1. {} \in P
  <2>1. S \cup {} = S /\ SumFunctionOnSet(F, S) \in Int
    BY SumRemove
  <2> QED
    BY <2>1, SumEmpty
<1>2. ASSUME NEW U \in SUBSET T, NEW x \in T, x \notin U, U \in P
      PROVE  U \cup {x} \in P
  <2>1. IsFiniteSet(U) /\ IsFiniteSet(S \cup U)
    BY FS_Subset, FS_Union
  <2>2. /\ SumFunctionOnSet(F, U \cup {x}) = SumFunctionOnSet(F, U) + F[x]
        /\ SumFunctionOnSet(F, U) \in Int
    BY <1>2, <2>1, SumAdd
  <2>3. /\ SumFunctionOnSet(F, (S \cup U) \cup {x}) = SumFunctionOnSet(F, S \cup U) + F[x]
    <3>1. x \notin S \cup U /\ \A y \in (S \cup U) \cup {x} : F[y] \in Int
      BY <1>2
    <3> QED
      BY <2>1, <3>1, SumAdd
  <2>4. (S \cup U) \cup {x} = S \cup (U \cup {x})
    OBVIOUS
  <2>5. SumFunctionOnSet(F, S) \in Int /\ F[x] \in Int
    BY SumRemove
  <2> DEFINE a == SumFunctionOnSet(F, S)
             b == SumFunctionOnSet(F, U)
             c == SumFunctionOnSet(F, S \cup U)
             e == SumFunctionOnSet(F, S \cup (U \cup {x}))
  <2>6. c = a + b /\ e = c + F[x]
    BY <1>2, <2>3, <2>4
  <2>7. e = a + (b + F[x])
    <3>1. a \in Int /\ b \in Int /\ F[x] \in Int
      BY <2>2, <2>5
    <3> HIDE DEF a, b, c, e
    <3> QED BY <2>6, <3>1
  <2> QED
    BY <2>2, <2>7
<1>3. T \in P
  <2> HIDE DEF P
  <2> QED BY <1>1, <1>2, SetInduct
<1> QED
  BY <1>3

\* A set and a part of it.
LEMMA SumSplit ==
    ASSUME NEW F, NEW S, IsFiniteSet(S), NEW T \in SUBSET S, \A x \in S : F[x] \in Int
    PROVE  /\ SumFunctionOnSet(F, S) = SumFunctionOnSet(F, T) + SumFunctionOnSet(F, S \ T)
           /\ SumFunctionOnSet(F, S) \in Int /\ SumFunctionOnSet(F, T) \in Int
           /\ SumFunctionOnSet(F, S \ T) \in Int
<1>1. IsFiniteSet(T) /\ IsFiniteSet(S \ T)
  BY FS_Subset
<1>2. T \cap (S \ T) = {} /\ T \cup (S \ T) = S
  OBVIOUS
<1>3. SumFunctionOnSet(F, T \cup (S \ T)) = SumFunctionOnSet(F, T) + SumFunctionOnSet(F, S \ T)
  BY <1>1, <1>2, SumUnion
<1>4. /\ SumFunctionOnSet(F, S) \in Int /\ SumFunctionOnSet(F, T) \in Int
      /\ SumFunctionOnSet(F, S \ T) \in Int
  BY <1>1, SumRemove
<1> QED
  BY <1>2, <1>3, <1>4

\* Natural numbers add up to a natural number.
LEMMA SumNat ==
    ASSUME NEW F, NEW S, IsFiniteSet(S), \A x \in S : F[x] \in Nat
    PROVE  SumFunctionOnSet(F, S) \in Nat
<1> DEFINE P == {T \in SUBSET S : SumFunctionOnSet(F, T) \in Nat}
<1>1. {} \in P
  BY SumEmpty
<1>2. ASSUME NEW T \in SUBSET S, NEW x \in S, x \notin T, T \in P
      PROVE  T \cup {x} \in P
  <2>1. IsFiniteSet(T) /\ \A y \in T \cup {x} : F[y] \in Int
    BY FS_Subset
  <2>2. SumFunctionOnSet(F, T \cup {x}) = SumFunctionOnSet(F, T) + F[x]
    BY <1>2, <2>1, SumAdd
  <2> QED
    BY <1>2, <2>2
<1>3. S \in P
  <2> HIDE DEF P
  <2> QED BY <1>1, <1>2, SetInduct
<1> QED
  BY <1>3

\* Nothing adds up to nothing.
LEMMA SumZero ==
    ASSUME NEW F, NEW S, IsFiniteSet(S), \A x \in S : F[x] = 0
    PROVE  SumFunctionOnSet(F, S) = 0
<1> DEFINE P == {T \in SUBSET S : SumFunctionOnSet(F, T) = 0}
<1>1. {} \in P
  BY SumEmpty
<1>2. ASSUME NEW T \in SUBSET S, NEW x \in S, x \notin T, T \in P
      PROVE  T \cup {x} \in P
  <2>1. IsFiniteSet(T) /\ \A y \in T \cup {x} : F[y] \in Int
    BY FS_Subset
  <2>2. SumFunctionOnSet(F, T \cup {x}) = SumFunctionOnSet(F, T) + F[x]
    BY <1>2, <2>1, SumAdd
  <2> QED
    BY <1>2, <2>2
<1>3. S \in P
  <2> HIDE DEF P
  <2> QED BY <1>1, <1>2, SetInduct
<1> QED
  BY <1>3

\* The sum of the sums of two functions: on S, H is F plus G.
Adds(H, F, G, S) == \A x \in S : F[x] \in Int /\ G[x] \in Int /\ H[x] = F[x] + G[x]
LEMMA SumPlus ==
    ASSUME NEW F, NEW G, NEW H, NEW S, IsFiniteSet(S), Adds(H, F, G, S)
    PROVE  /\ SumFunctionOnSet(H, S) = SumFunctionOnSet(F, S) + SumFunctionOnSet(G, S)
           /\ SumFunctionOnSet(F, S) \in Int /\ SumFunctionOnSet(G, S) \in Int
<1> DEFINE P == {T \in SUBSET S :
                   SumFunctionOnSet(H, T) = SumFunctionOnSet(F, T) + SumFunctionOnSet(G, T)}
<1>1. {} \in P
  BY SumEmpty
<1>2. ASSUME NEW T \in SUBSET S, NEW x \in S, x \notin T, T \in P
      PROVE  T \cup {x} \in P
  <2>1. IsFiniteSet(T) /\ \A y \in T \cup {x} : F[y] \in Int /\ G[y] \in Int /\ H[y] \in Int
    BY FS_Subset DEF Adds
  <2>2. SumFunctionOnSet(H, T \cup {x}) = SumFunctionOnSet(H, T) + H[x]
    BY <1>2, <2>1, SumAdd
  <2>3. /\ SumFunctionOnSet(F, T \cup {x}) = SumFunctionOnSet(F, T) + F[x]
        /\ SumFunctionOnSet(F, T) \in Int
    BY <1>2, <2>1, SumAdd
  <2>4. /\ SumFunctionOnSet(G, T \cup {x}) = SumFunctionOnSet(G, T) + G[x]
        /\ SumFunctionOnSet(G, T) \in Int
    BY <1>2, <2>1, SumAdd
  <2>5. H[x] = F[x] + G[x] /\ F[x] \in Int /\ G[x] \in Int
    BY <1>2 DEF Adds
  <2> QED
    BY <1>2, <2>2, <2>3, <2>4, <2>5
<1>3. S \in P
  <2> HIDE DEF P
  <2> QED BY <1>1, <1>2, SetInduct
<1>4. SumFunctionOnSet(F, S) \in Int /\ SumFunctionOnSet(G, S) \in Int
  <2>1. \A x \in S : F[x] \in Int /\ G[x] \in Int
    BY DEF Adds
  <2> QED
    BY <2>1, SumRemove
<1> QED
  BY <1>3, <1>4

\* Adding up the sums of the parts: parts[i] is what S has of i.
PartOf(S, owner, i) == {x \in S : owner[x] = i}

LEMMA SumOfSums ==
    ASSUME NEW F, NEW I, IsFiniteSet(I), NEW S, IsFiniteSet(S), NEW owner, NEW parts,
           \A x \in S : F[x] \in Int,
           \A x \in S : owner[x] \in I,
           \A i \in I : parts[i] = SumFunctionOnSet(F, PartOf(S, owner, i))
    PROVE  SumFunctionOnSet(parts, I) = SumFunctionOnSet(F, S)
<1> DEFINE of(J) == {x \in S : owner[x] \in J}
           P == {J \in SUBSET I : SumFunctionOnSet(parts, J) = SumFunctionOnSet(F, of(J))}
<1> USE DEF PartOf
<1>1. {} \in P
  <2>1. of({}) = {}
    OBVIOUS
  <2> QED
    BY <2>1, SumEmpty
<1>2. ASSUME NEW J \in SUBSET I, NEW i \in I, i \notin J, J \in P
      PROVE  J \cup {i} \in P
  <2> DEFINE mine == {x \in S : owner[x] = i}
             theirs == of(J)
  <2>1. IsFiniteSet(J) /\ IsFiniteSet(of(J)) /\ IsFiniteSet(mine)
    BY FS_Subset
  <2>2. of(J \cup {i}) = theirs \cup mine /\ theirs \cap mine = {}
    BY <1>2
  <2>3. SumFunctionOnSet(F, of(J \cup {i})) = SumFunctionOnSet(F, of(J)) + SumFunctionOnSet(F, mine)
    <3>1. \A x \in theirs \cup mine : F[x] \in Int
      OBVIOUS
    <3>2. IsFiniteSet(theirs)
      BY <2>1
    <3>3. SumFunctionOnSet(F, theirs \cup mine)
             = SumFunctionOnSet(F, theirs) + SumFunctionOnSet(F, mine)
      <4>1. theirs \cap mine = {}
        BY <2>2
      <4> HIDE DEF theirs, mine
      <4> QED BY <2>1, <3>1, <3>2, <4>1, SumUnion
    <3> QED
      BY <2>2, <3>3
  <2>4. \A j \in I : parts[j] \in Int
    <3> SUFFICES ASSUME NEW j \in I PROVE parts[j] \in Int
      OBVIOUS
    <3>1. IsFiniteSet({x \in S : owner[x] = j})
      BY FS_Subset
    <3>2. SumFunctionOnSet(F, {x \in S : owner[x] = j}) \in Int
      BY <3>1, SumRemove
    <3> QED
      BY <3>2
  <2>5. SumFunctionOnSet(parts, J \cup {i}) = SumFunctionOnSet(parts, J) + parts[i]
    BY <1>2, <2>1, <2>4, SumAdd
  <2>6. parts[i] = SumFunctionOnSet(F, mine)
    OBVIOUS
  <2> HIDE DEF of, mine
  <2> QED
    BY <1>2, <2>3, <2>5, <2>6
<1>3. I \in P
  <2> HIDE DEF P
  <2> QED BY <1>1, <1>2, SetInduct
<1>4. of(I) = S
  OBVIOUS
<1> QED
  BY <1>3, <1>4

\* Values carried over to other elements, one to one.
LEMMA SumCarried ==
    ASSUME NEW F, NEW S, IsFiniteSet(S), NEW G, NEW to,
           \A x \in S : F[x] \in Int /\ G[to[x]] = F[x],
           \A x, y \in S : to[x] = to[y] => x = y
    PROVE  SumFunctionOnSet(G, {to[x] : x \in S}) = SumFunctionOnSet(F, S)
<1> DEFINE im(T) == {to[x] : x \in T}
           P == {T \in SUBSET S : /\ IsFiniteSet(im(T))
                                  /\ SumFunctionOnSet(G, im(T)) = SumFunctionOnSet(F, T)}
<1>1. {} \in P
  <2>1. im({}) = {}
    OBVIOUS
  <2> QED
    BY <2>1, SumEmpty, FS_EmptySet
<1>2. ASSUME NEW T \in SUBSET S, NEW x \in S, x \notin T, T \in P
      PROVE  T \cup {x} \in P
  <2>1. im(T \cup {x}) = im(T) \cup {to[x]} /\ to[x] \notin im(T)
    BY <1>2
  <2>2. IsFiniteSet(T) /\ \A y \in T \cup {x} : F[y] \in Int
    BY FS_Subset
  <2>3. \A y \in im(T) \cup {to[x]} : G[y] \in Int
    OBVIOUS
  <2>4. IsFiniteSet(im(T)) /\ SumFunctionOnSet(G, im(T)) = SumFunctionOnSet(F, T)
    BY <1>2
  <2>5. G[to[x]] = F[x]
    OBVIOUS
  <2> HIDE DEF im
  <2>6. /\ SumFunctionOnSet(G, im(T) \cup {to[x]}) = SumFunctionOnSet(G, im(T)) + G[to[x]]
        /\ IsFiniteSet(im(T) \cup {to[x]})
    BY <2>1, <2>3, <2>4, SumAdd, FS_AddElement
  <2>7. SumFunctionOnSet(F, T \cup {x}) = SumFunctionOnSet(F, T) + F[x]
    BY <1>2, <2>2, SumAdd
  <2> QED
    BY <2>1, <2>4, <2>5, <2>6, <2>7
<1>3. S \in P
  <2> HIDE DEF P
  <2> QED BY <1>1, <1>2, SetInduct
<1> QED
  BY <1>3

\* A sum over a part is the sum over the whole of what is 0 outside the part.
LEMMA SumWithin ==
    ASSUME NEW F, NEW S, IsFiniteSet(S), NEW T \in SUBSET S, NEW G,
           \A x \in T : F[x] \in Int /\ G[x] = F[x], \A x \in S \ T : G[x] = 0
    PROVE  SumFunctionOnSet(G, S) = SumFunctionOnSet(F, T)
<1>1. IsFiniteSet(T) /\ IsFiniteSet(S \ T)
  BY FS_Subset
<1>2. \A x \in S : G[x] \in Int
  <2> SUFFICES ASSUME NEW x \in S PROVE G[x] \in Int
    OBVIOUS
  <2>1. CASE x \in T
    BY <2>1
  <2>2. CASE x \notin T
    BY <2>2
  <2> QED
    BY <2>1, <2>2
<1>3. SumFunctionOnSet(G, S) = SumFunctionOnSet(G, T) + SumFunctionOnSet(G, S \ T)
  BY <1>2, SumSplit
<1>4. SumFunctionOnSet(G, S \ T) = 0
  BY <1>1, SumZero
<1>5. SumFunctionOnSet(G, T) = SumFunctionOnSet(F, T) /\ SumFunctionOnSet(F, T) \in Int
  <2>1. \A x \in T : G[x] = F[x]
    OBVIOUS
  <2>2. \A x \in T : F[x] \in Int
    OBVIOUS
  <2> QED
    BY <1>1, <2>1, <2>2, SumAgree, SumRemove
<1> QED
  BY <1>3, <1>4, <1>5

-----------------------------------------------------------------------------
(* Products, element by element like the sums                              *)

Product(F, S) == FoldFunctionOnSet(LAMBDA x, y : x * y, 1, F, S)

Turn(F, S, g) == [s \in SUBSET S |-> IF s = {} THEN 1 ELSE F[Chosen(s)] * g[s \ {Chosen(s)}]]
ProductIt(F, S) == CHOOSE g : g = Turn(F, S, g)

LEMMA ProductIsIt ==
    ASSUME NEW F, NEW S
    PROVE  Product(F, S) = ProductIt(F, S)[S]
BY DEF Product, FoldFunctionOnSet, MapThenFoldSet, ProductIt, Turn, Chosen

\* The recursion has a solution: as for sums.
LEMMA ProductItExists ==
    ASSUME NEW F, NEW S, IsFiniteSet(S)
    PROVE  ProductIt(F, S) = Turn(F, S, ProductIt(F, S))
<1> DEFINE Q == {n \in Nat : \E g : \A T \in SUBSET S :
                    Cardinality(T) <= n => g[T] = Turn(F, S, g)[T]}
<1>1. \A T \in SUBSET S : IsFiniteSet(T) /\ Cardinality(T) \in Nat
  BY FS_Subset, FS_CardinalityType
<1>2. ASSUME NEW T \in SUBSET S, T # {}
      PROVE  /\ Chosen(T) \in T /\ T \ {Chosen(T)} \in SUBSET S
             /\ Cardinality(T \ {Chosen(T)}) = Cardinality(T) - 1
  <2>1. Chosen(T) \in T
    BY <1>2 DEF Chosen
  <2> QED
    BY <1>1, <2>1, FS_RemoveElement
<1>3. 0 \in Q
  <2>1. \A T \in SUBSET S : Cardinality(T) <= 0 => T = {}
    BY <1>1, FS_EmptySet
  <2>2. \A T \in SUBSET S : Cardinality(T) <= 0 =>
           [U \in SUBSET S |-> 1][T] = Turn(F, S, [U \in SUBSET S |-> 1])[T]
    BY <2>1 DEF Turn
  <2> QED
    BY <2>2
<1>4. ASSUME NEW n \in Nat, n \in Q PROVE n + 1 \in Q
  <2>1. PICK g : \A T \in SUBSET S : Cardinality(T) <= n => g[T] = Turn(F, S, g)[T]
    BY <1>4
  <2> DEFINE h == Turn(F, S, g)
  <2>2. \A T \in SUBSET S : Cardinality(T) <= n => g[T] = h[T]
    BY <2>1
  <2>3. ASSUME NEW T \in SUBSET S, Cardinality(T) <= n + 1
        PROVE  h[T] = Turn(F, S, h)[T]
    <3>1. CASE T = {}
      BY <3>1 DEF Turn
    <3>2. CASE T # {}
      <4>1. h[T] = F[Chosen(T)] * g[T \ {Chosen(T)}]
        BY <3>2 DEF Turn
      <4>2. Cardinality(T \ {Chosen(T)}) <= n /\ T \ {Chosen(T)} \in SUBSET S
        BY <1>1, <1>2, <2>3, <3>2
      <4>3. Turn(F, S, h)[T] = F[Chosen(T)] * h[T \ {Chosen(T)}]
        <5> HIDE DEF h
        <5> QED BY <3>2 DEF Turn
      <4> HIDE DEF h
      <4> QED
        BY <4>1, <4>2, <4>3, <2>2
    <3> QED
      BY <3>1, <3>2
  <2> HIDE DEF h
  <2> QED
    BY <2>3
<1>5. Cardinality(S) \in Q
  <2>1. Nat \subseteq Q
    <3> HIDE DEF Q
    <3> QED BY <1>3, <1>4, NatInduct
  <2> QED
    BY <2>1, <1>1
<1>6. PICK g : \A T \in SUBSET S : Cardinality(T) <= Cardinality(S) => g[T] = Turn(F, S, g)[T]
  BY <1>5
<1>7. \A T \in SUBSET S : g[T] = Turn(F, S, g)[T]
  <2>1. \A T \in SUBSET S : Cardinality(T) <= Cardinality(S)
    BY FS_Subset
  <2> QED
    BY <1>6, <2>1
<1> DEFINE h == [T \in SUBSET S |-> g[T]]
<1>8. h = Turn(F, S, h)
  <2>1. \A T \in SUBSET S : h[T] = Turn(F, S, h)[T]
    <3> SUFFICES ASSUME NEW T \in SUBSET S PROVE h[T] = Turn(F, S, h)[T]
      OBVIOUS
    <3>1. h[T] = g[T]
      OBVIOUS
    <3>2. g[T] = Turn(F, S, g)[T]
      BY <1>7
    <3>3. CASE T = {}
      BY <3>1, <3>2, <3>3 DEF Turn
    <3>4. CASE T # {}
      <4>1. g[T] = F[Chosen(T)] * g[T \ {Chosen(T)}]
        BY <3>2, <3>4 DEF Turn
      <4>2. Turn(F, S, h)[T] = F[Chosen(T)] * h[T \ {Chosen(T)}]
        <5> HIDE DEF h
        <5> QED BY <3>4 DEF Turn
      <4>3. h[T \ {Chosen(T)}] = g[T \ {Chosen(T)}]
        BY <1>2, <3>4
      <4> QED
        BY <3>1, <4>1, <4>2, <4>3
    <3> QED
      BY <3>3, <3>4
  <2>2. Turn(F, S, h) = [T \in SUBSET S |-> Turn(F, S, h)[T]]
    <3> HIDE DEF h
    <3> QED BY DEF Turn
  <2>3. h = [T \in SUBSET S |-> h[T]]
    OBVIOUS
  <2> HIDE DEF h
  <2> QED
    BY <2>1, <2>2, <2>3
<1>9. \E k : k = Turn(F, S, k)
  <2> HIDE DEF h
  <2> QED BY <1>8
<1> QED
  BY <1>9 DEF ProductIt

ProductSolves(F, S, i) ==
    /\ i[{}] = 1
    /\ \A T \in SUBSET S : T # {} => i[T] = F[Chosen(T)] * i[T \ {Chosen(T)}]

LEMMA ProductItSolves ==
    ASSUME NEW F, NEW S, IsFiniteSet(S)
    PROVE  ProductSolves(F, S, ProductIt(F, S))
<1> DEFINE i == ProductIt(F, S)
<1>1. i = Turn(F, S, i)
  BY ProductItExists
<1> HIDE DEF i
<1>2. i[{}] = 1
  BY <1>1 DEF Turn
<1>3. \A T \in SUBSET S : T # {} => i[T] = F[Chosen(T)] * i[T \ {Chosen(T)}]
  <2> SUFFICES ASSUME NEW T \in SUBSET S, T # {}
               PROVE  i[T] = F[Chosen(T)] * i[T \ {Chosen(T)}]
    OBVIOUS
  <2>1. Turn(F, S, i)[T] = F[Chosen(T)] * i[T \ {Chosen(T)}]
    BY DEF Turn
  <2> QED
    BY <1>1, <2>1
<1>4. ProductSolves(F, S, i)
  BY <1>2, <1>3 DEF ProductSolves
<1> QED
  BY <1>4 DEF i

\* The solutions for two sets agree on what is in both, for functions that do.
LEMMA ProductItAgrees ==
    ASSUME NEW F, NEW G, NEW S, IsFiniteSet(S), NEW R, IsFiniteSet(R),
           \A x \in S : F[x] = G[x], S \subseteq R
    PROVE  ProductIt(F, S)[S] = ProductIt(G, R)[S]
<1> DEFINE i == ProductIt(F, S)
           j == ProductIt(G, R)
           P == {T \in SUBSET S : i[T] = j[T]}
<1>1. ProductSolves(F, S, i) /\ ProductSolves(G, R, j)
  BY ProductItSolves
<1> HIDE DEF i, j
<1>2. ASSUME NEW T \in SUBSET S, \A U \in SUBSET T : U # T => U \in P
      PROVE  T \in P
  <2>1. CASE T = {}
    BY <2>1, <1>1 DEF ProductSolves
  <2>2. CASE T # {}
    <3>1. Chosen(T) \in T
      BY <2>2 DEF Chosen
    <3>2. i[T] = F[Chosen(T)] * i[T \ {Chosen(T)}]
      BY <1>1, <2>2 DEF ProductSolves
    <3>3. j[T] = G[Chosen(T)] * j[T \ {Chosen(T)}]
      <4>1. T \in SUBSET R
        OBVIOUS
      <4> QED
        BY <1>1, <2>2, <4>1 DEF ProductSolves
    <3>4. i[T \ {Chosen(T)}] = j[T \ {Chosen(T)}]
      BY <1>2, <3>1
    <3> QED
      BY <3>1, <3>2, <3>3, <3>4
  <2> QED
    BY <2>1, <2>2
<1>3. SUBSET S \subseteq P
  <2> HIDE DEF P
  <2> QED BY <1>2, SizeInduct
<1> QED
  BY <1>3 DEF i, j

\* The product does not depend on the order in which the elements are taken.
Divides(F, i, T) == i[T] \in Int /\ \A x \in T : i[T] = F[x] * i[T \ {x}]

LEMMA ProductItRemoves ==
    ASSUME NEW F, NEW S, IsFiniteSet(S), \A x \in S : F[x] \in Int
    PROVE  Divides(F, ProductIt(F, S), S)
<1> DEFINE i == ProductIt(F, S)
           P == {T \in SUBSET S : Divides(F, i, T)}
<1>1. ProductSolves(F, S, i)
  BY ProductItSolves
<1> HIDE DEF i
<1>2. ASSUME NEW T \in SUBSET S, \A U \in SUBSET T : U # T => U \in P
      PROVE  T \in P
  <2>1. CASE T = {}
    BY <2>1, <1>1 DEF Divides, ProductSolves
  <2>2. CASE T # {}
    <3> DEFINE c == Chosen(T)
    <3>1. c \in T /\ c \in S
      BY <2>2 DEF Chosen
    <3>2. i[T] = F[c] * i[T \ {c}]
      BY <1>1, <2>2 DEF ProductSolves
    <3> HIDE DEF c
    <3>3. i[T \ {c}] \in Int /\ Divides(F, i, T \ {c})
      BY <1>2, <3>1 DEF Divides
    <3>4. ASSUME NEW x \in T, x # c PROVE i[T] = F[x] * i[T \ {x}]
      <4>1. Divides(F, i, T \ {x})
        BY <1>2, <3>4
      <4>2. Divides(F, i, (T \ {x}) \ {c})
        <5>1. (T \ {x}) \ {c} \in SUBSET T /\ (T \ {x}) \ {c} # T
          BY <3>1
        <5> QED BY <1>2, <5>1
      <4>3. i[T \ {x}] = F[c] * i[(T \ {x}) \ {c}]
        BY <3>1, <3>4, <4>1 DEF Divides
      <4>4. i[T \ {c}] = F[x] * i[(T \ {c}) \ {x}]
        BY <3>3, <3>4 DEF Divides
      <4>5. (T \ {c}) \ {x} = (T \ {x}) \ {c}
        OBVIOUS
      <4>6. i[(T \ {x}) \ {c}] \in Int /\ F[x] \in Int /\ F[c] \in Int
        BY <3>1, <4>2 DEF Divides
      <4>7. i[T] = F[c] * (F[x] * i[(T \ {x}) \ {c}])
        BY <3>2, <4>4, <4>5
      <4> DEFINE r == i[(T \ {x}) \ {c}]
                 a == F[x]
                 b == F[c]
                 w == i[T]
                 v == i[T \ {x}]
      <4>8. w = b * (a * r) /\ v = b * r /\ r \in Int /\ a \in Int /\ b \in Int
        BY <4>3, <4>6, <4>7
      <4>9. w = a * v
        <5> HIDE DEF w, v, a, b, r
        <5> QED BY <4>8
      <4> QED
        BY <4>9
    <3>5. i[T] \in Int
      BY <3>1, <3>2, <3>3
    <3> QED
      BY <3>2, <3>4, <3>5 DEF Divides
  <2> QED
    BY <2>1, <2>2
<1>3. SUBSET S \subseteq P
  <2> HIDE DEF P
  <2> QED BY <1>2, SizeInduct
<1> QED
  BY <1>3 DEF i

LEMMA ProductEmpty ==
    ASSUME NEW F
    PROVE  Product(F, {}) = 1
<1>1. ProductSolves(F, {}, ProductIt(F, {}))
  BY ProductItSolves, FS_EmptySet
<1> QED
  BY <1>1, ProductIsIt DEF ProductSolves

LEMMA ProductRemove ==
    ASSUME NEW F, NEW S, IsFiniteSet(S), \A x \in S : F[x] \in Int
    PROVE  /\ Product(F, S) \in Int
           /\ \A x \in S : Product(F, S) = F[x] * Product(F, S \ {x})
<1>1. Product(F, S) = ProductIt(F, S)[S] /\ Divides(F, ProductIt(F, S), S)
  BY ProductIsIt, ProductItRemoves
<1>2. ASSUME NEW x \in S
      PROVE  Product(F, S) = F[x] * Product(F, S \ {x})
  <2>1. IsFiniteSet(S \ {x})
    BY FS_RemoveElement
  <2>2. ProductIt(F, S \ {x})[S \ {x}] = ProductIt(F, S)[S \ {x}]
    BY <2>1, ProductItAgrees
  <2>3. Product(F, S \ {x}) = ProductIt(F, S)[S \ {x}]
    BY <2>2, ProductIsIt
  <2> QED
    BY <1>1, <2>3 DEF Divides
<1> QED
  BY <1>1, <1>2 DEF Divides

LEMMA ProductAgree ==
    ASSUME NEW F, NEW G, NEW S, IsFiniteSet(S), \A x \in S : F[x] = G[x]
    PROVE  Product(F, S) = Product(G, S)
<1>1. ProductIt(F, S)[S] = ProductIt(G, S)[S]
  BY ProductItAgrees
<1> QED
  BY <1>1, ProductIsIt
=============================================================================
