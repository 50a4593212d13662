-------------------------------- MODULE Sums --------------------------------
(***************************************************************************)
(* Lemmas about sums of numbers over finite sets, for the proofs about     *)
(* lots and shopping lists, the largest and smallest of some numbers, and  *)
(* numbers in ascending order.                                             *)
(*                                                                         *)
(* SumFunctionOnSet is a recursive function on the subsets of the set it   *)
(* sums over.  That there is one, and what it says, is shown by looking at *)
(* a smallest set for which it would not hold.                             *)
(***************************************************************************)
EXTENDS Functions, FiniteSetsExt, Sequences, Sorting, FiniteSetTheorems, TLAPS

-----------------------------------------------------------------------------
\* Smallest sets.

\* Among some subsets of a finite set there is one that includes no other.
LEMMA SmallestSet ==
  ASSUME NEW S, IsFiniteSet(S), NEW U, U \subseteq SUBSET S, U # {}
  PROVE  \E T \in U : \A V \in U : V \subseteq T => V = T
<1>1. FiniteSubsetsOf(S) = SUBSET S
      BY FS_FiniteSubsetsOfFinite
<1>2. IsWellFoundedOn(StrictSubsetOrdering(S), SUBSET S)
      BY <1>1, FS_StrictSubsetOrderingWellFounded
<1>3. PICK T \in U : \A V \in U : <<V, T>> \notin StrictSubsetOrdering(S)
      BY <1>2, WFMin
<1>4. ASSUME NEW V \in U, V \subseteq T, V # T
      PROVE  FALSE
  <2>1. <<V, T>> \in (SUBSET S) \X (SUBSET S)
        OBVIOUS
  <2>2. <<V, T>>[1] = V /\ <<V, T>>[2] = T
        OBVIOUS
  <2>3. <<V, T>> \in StrictSubsetOrdering(S)
        BY <1>4, <2>1, <2>2 DEF StrictSubsetOrdering
  <2> QED BY <1>3, <2>3
<1> QED BY <1>3, <1>4

\* What holds of the empty set and of a set that one more joins holds of a
\* finite set: G are the sets of which it holds.
LEMMA SetByElements ==
  ASSUME NEW S, IsFiniteSet(S), NEW G, {} \in G,
         \A T \in SUBSET S : \A x \in T : T \ {x} \in G => T \in G
  PROVE  S \in G
<1> DEFINE Bad == (SUBSET S) \ G
<1> SUFFICES ASSUME Bad # {} PROVE FALSE
    OBVIOUS
<1>1. PICK T \in Bad : \A V \in Bad : V \subseteq T => V = T
  <2>1. Bad \subseteq SUBSET S
        OBVIOUS
  <2> HIDE DEF Bad
  <2> QED BY <2>1, SmallestSet
<1>2. PICK x \in T : TRUE
      OBVIOUS
<1>3. T \ {x} \in SUBSET S /\ T \ {x} \notin Bad
      BY <1>1
<1> QED BY <1>2, <1>3

\* Among some natural numbers there is a smallest.
LEMMA SmallestNumber ==
  ASSUME NEW N, N \subseteq Nat, N # {}
  PROVE  \E m \in N : \A n \in N : m <= n
<1>1. PICK k \in N : TRUE
      OBVIOUS
<1> DEFINE U == {0 .. n : n \in {j \in N : j <= k}}
<1>2. U \subseteq SUBSET (0 .. k) /\ 0 .. k \in U
      BY <1>1
<1>3. IsFiniteSet(0 .. k)
      BY FS_Interval
<1>4. \E T \in U : \A V \in U : V \subseteq T => V = T
  <2> DEFINE K == 0 .. k
  <2>1. U \subseteq SUBSET K /\ U # {} /\ IsFiniteSet(K)
        BY <1>2, <1>3
  <2> HIDE DEF U, K
  <2> QED BY <2>1, SmallestSet
<1>5. PICK m \in N : m <= k /\ \A V \in U : V \subseteq 0 .. m => V = 0 .. m
      BY <1>4
<1>6. ASSUME NEW n \in N, n < m
      PROVE  FALSE
  <2>1. 0 .. n \in U /\ 0 .. n \subseteq 0 .. m /\ m \in 0 .. m /\ m \notin 0 .. n
        BY <1>5, <1>6
  <2> QED BY <1>5, <2>1
<1> QED BY <1>6

-----------------------------------------------------------------------------
\* What SumFunctionOnSet says.

Chosen(s) == CHOOSE x \in s : TRUE

\* One step of the recursion.
SumStep(h, f, s) == IF s = {} THEN 0 ELSE f[Chosen(s)] + h[s \ {Chosen(s)}]

\* The function on the subsets of S that the recursion asks for.
Sums(h, f, S) == h = [s \in SUBSET S |-> SumStep(h, f, s)]

LEMMA ChosenIn ==
  ASSUME NEW s, s # {}
  PROVE  Chosen(s) \in s
BY DEF Chosen

\* There is one for sets of up to so many elements, hence for a finite set.
LEMMA SumsExist ==
  ASSUME NEW f, NEW S, IsFiniteSet(S)
  PROVE  \E h : Sums(h, f, S)
<1> DEFINE Small(n) == {s \in SUBSET S : Cardinality(s) <= n}
           Upto(n) == \E h : h = [s \in Small(n) |-> SumStep(h, f, s)]
           Bad == {n \in Nat : ~Upto(n)}
<1>1. \A s \in SUBSET S : IsFiniteSet(s) /\ Cardinality(s) \in Nat
      BY FS_Subset, FS_CardinalityType
<1>2. Upto(0)
  <2>1. \A s \in Small(0) : s = {}
        BY <1>1, FS_EmptySet
  <2> DEFINE h == [s \in Small(0) |-> 0]
  <2>2. h = [s \in Small(0) |-> SumStep(h, f, s)]
        BY <2>1 DEF SumStep
  <2> QED BY <2>2
<1>3. ASSUME NEW n \in Nat, Upto(n)
      PROVE  Upto(n + 1)
  <2>1. PICK g : g = [s \in Small(n) |-> SumStep(g, f, s)]
        BY <1>3
  <2> DEFINE h == [s \in Small(n + 1) |-> IF s \in Small(n) THEN g[s] ELSE SumStep(g, f, s)]
  <2>2. \A s \in Small(n + 1) : s # {} => s \ {Chosen(s)} \in Small(n)
    <3> TAKE s \in Small(n + 1)
    <3> HAVE s # {}
    <3>1. Chosen(s) \in s
          BY ChosenIn
    <3>2. Cardinality(s \ {Chosen(s)}) = Cardinality(s) - 1
          BY <1>1, <3>1, FS_RemoveElement
    <3> QED BY <1>1, <3>2
  <2>3. \A s \in Small(n) : s \in Small(n + 1) /\ h[s] = g[s] /\ g[s] = SumStep(g, f, s)
    <3> TAKE s \in Small(n)
    <3>1. s \in Small(n + 1)
          BY <1>1
    <3>2. g[s] = SumStep(g, f, s)
          BY <2>1
    <3> QED BY <3>1, <3>2
  <2>4. ASSUME NEW s \in Small(n + 1)
        PROVE  h[s] = SumStep(g, f, s) /\ SumStep(g, f, s) = SumStep(h, f, s)
    <3>1. h[s] = SumStep(g, f, s)
          BY <2>3
    <3> HIDE DEF h
    <3>2. s # {} => h[s \ {Chosen(s)}] = g[s \ {Chosen(s)}]
          BY <2>2, <2>3
    <3> QED BY <3>1, <3>2 DEF SumStep
  <2>5. h = [s \in Small(n + 1) |-> h[s]]
        OBVIOUS
  <2> HIDE DEF h
  <2>6. h = [s \in Small(n + 1) |-> SumStep(h, f, s)]
        BY <2>4, <2>5
  <2> QED BY <2>6
<1> HIDE DEF Upto
<1>4. \A n \in Nat : Upto(n)
  <2> SUFFICES ASSUME Bad # {} PROVE FALSE
      OBVIOUS
  <2>1. PICK m \in Bad : \A n \in Bad : m <= n
        BY SmallestNumber
  <2>2. m # 0 /\ m - 1 \in Nat /\ m - 1 \notin Bad
        BY <1>2, <2>1
  <2> QED BY <1>3, <2>1, <2>2
<1>5. Small(Cardinality(S)) = SUBSET S
      BY <1>1, FS_Subset
<1>6. Cardinality(S) \in Nat
      BY FS_CardinalityType
<1> QED BY <1>4, <1>5, <1>6 DEF Upto, Sums

\* It is the one.
LEMMA SumsUnique ==
  ASSUME NEW f, NEW g, NEW S, NEW T, IsFiniteSet(S), T \subseteq S,
         NEW h, NEW k, Sums(h, f, S), Sums(k, g, T),
         \A x \in T : f[x] = g[x]
  PROVE  k[T] = h[T]
<1> DEFINE Bad == {s \in SUBSET T : h[s] # k[s]}
<1>1. IsFiniteSet(T)
      BY FS_Subset
<1>2. \A s \in SUBSET T : h[s] = SumStep(h, f, s) /\ k[s] = SumStep(k, g, s)
      BY DEF Sums
<1> SUFFICES ASSUME Bad # {} PROVE FALSE
    OBVIOUS
<1>3. PICK s \in Bad : \A v \in Bad : v \subseteq s => v = s
  <2>1. Bad \subseteq SUBSET T
        OBVIOUS
  <2> HIDE DEF Bad
  <2> QED BY <1>1, <2>1, SmallestSet
<1>4. s # {}
      BY <1>2 DEF SumStep
<1>5. Chosen(s) \in s
      BY <1>4, ChosenIn
<1>6. h[s \ {Chosen(s)}] = k[s \ {Chosen(s)}]
      BY <1>3, <1>5
<1>7. f[Chosen(s)] = g[Chosen(s)]
      BY <1>5
<1>8. h[s] = k[s]
      BY <1>2, <1>4, <1>6, <1>7 DEF SumStep
<1> QED BY <1>8

-----------------------------------------------------------------------------
\* Sums of a function's values.  The set is finite and the values numbers.

Adds(f, S) == IsFiniteSet(S) /\ \A x \in S : f[x] \in Int

\* The sum over a set and over its subsets is one function's.
LEMMA SumIsSums ==
  ASSUME NEW f, NEW S, IsFiniteSet(S)
  PROVE  \E h : /\ Sums(h, f, S)
                /\ \A T \in SUBSET S : SumFunctionOnSet(f, T) = h[T]
<1>1. \A T \in SUBSET S : \E k : Sums(k, f, T) /\ SumFunctionOnSet(f, T) = k[T]
  <2> TAKE T \in SUBSET S
  <2> DEFINE k == CHOOSE k : Sums(k, f, T)
  <2>1. IsFiniteSet(T)
        BY FS_Subset
  <2>2. Sums(k, f, T)
        BY <2>1, SumsExist
  <2>3. SumFunctionOnSet(f, T) = k[T]
        BY DEF SumFunctionOnSet, FoldFunctionOnSet, MapThenFoldSet, Sums, SumStep, Chosen
  <2> QED BY <2>2, <2>3
<1>2. PICK h : Sums(h, f, S)
      BY SumsExist
<1>3. \A T \in SUBSET S : SumFunctionOnSet(f, T) = h[T]
      BY <1>1, <1>2, SumsUnique
<1> QED BY <1>2, <1>3

LEMMA SumEmpty ==
  ASSUME NEW f
  PROVE  SumFunctionOnSet(f, {}) = 0
<1>1. PICK h : Sums(h, f, {}) /\ \A T \in SUBSET {} : SumFunctionOnSet(f, T) = h[T]
      BY FS_EmptySet, SumIsSums
<1>2. h[{}] = SumStep(h, f, {})
      BY <1>1 DEF Sums
<1> QED BY <1>1, <1>2 DEF SumStep

\* What the recursion takes first does not matter.
LEMMA SumType ==
  ASSUME NEW f, NEW S, Adds(f, S)
  PROVE  SumFunctionOnSet(f, S) \in Int
<1> USE DEF Adds
<1>1. PICK h : Sums(h, f, S) /\ \A T \in SUBSET S : SumFunctionOnSet(f, T) = h[T]
      BY SumIsSums
<1>2. \A s \in SUBSET S : h[s] = SumStep(h, f, s)
      BY <1>1 DEF Sums
<1> DEFINE Bad == {s \in SUBSET S : h[s] \notin Int}
<1>3. Bad = {}
  <2> SUFFICES ASSUME Bad # {} PROVE FALSE
      OBVIOUS
  <2>1. PICK s \in Bad : \A v \in Bad : v \subseteq s => v = s
    <3>1. Bad \subseteq SUBSET S
          OBVIOUS
    <3> HIDE DEF Bad
    <3> QED BY <3>1, SmallestSet
  <2>2. s # {}
    <3>1. s = {} => h[s] = 0
          BY <1>2 DEF SumStep
    <3> QED BY <3>1
  <2>3. Chosen(s) \in s
        BY <2>2, ChosenIn
  <2>4. h[s \ {Chosen(s)}] \in Int /\ f[Chosen(s)] \in Int
        BY <2>1, <2>3
  <2>5. h[s] = f[Chosen(s)] + h[s \ {Chosen(s)}]
        BY <1>2, <2>2 DEF SumStep
  <2> QED BY <2>4, <2>5
<1> QED BY <1>1, <1>3

LEMMA SumTake ==
  ASSUME NEW f, NEW S, Adds(f, S), NEW x \in S
  PROVE  SumFunctionOnSet(f, S) = f[x] + SumFunctionOnSet(f, S \ {x})
<1> USE DEF Adds
<1>1. PICK h : Sums(h, f, S) /\ \A T \in SUBSET S : SumFunctionOnSet(f, T) = h[T]
      BY SumIsSums
<1>2. \A s \in SUBSET S : h[s] = SumStep(h, f, s)
      BY <1>1 DEF Sums
<1>3. \A s \in SUBSET S : h[s] \in Int
  <2>1. \A s \in SUBSET S : SumFunctionOnSet(f, s) \in Int
        BY FS_Subset, SumType
  <2> QED BY <1>1, <2>1
<1> DEFINE Bad == {s \in SUBSET S : \E y \in s : h[s] # f[y] + h[s \ {y}]}
<1>4. Bad = {}
  <2> SUFFICES ASSUME Bad # {} PROVE FALSE
      OBVIOUS
  <2>1. PICK s \in Bad : \A v \in Bad : v \subseteq s => v = s
    <3>1. Bad \subseteq SUBSET S
          OBVIOUS
    <3> HIDE DEF Bad
    <3> QED BY <3>1, SmallestSet
  <2> PICK y \in s : h[s] # f[y] + h[s \ {y}]
      OBVIOUS
  <2> DEFINE c == Chosen(s)
             rest == s \ {y}
  <2>2. c \in s /\ h[s] = f[c] + h[s \ {c}]
        BY <1>2, ChosenIn DEF SumStep
  <2>3. CASE c = y
        BY <2>2, <2>3
  <2>4. CASE c # y
    <3>1. y \in s \ {c} /\ s \ {c} \in SUBSET S /\ s \ {c} \notin Bad
          BY <2>1, <2>2, <2>4
    <3>2. h[s \ {c}] = f[y] + h[(s \ {c}) \ {y}]
          BY <3>1
    <3>3. (s \ {c}) \ {y} = rest \ {c} /\ c \in rest
          BY <2>2, <2>4
    <3>4. rest \in SUBSET S /\ rest \notin Bad
          BY <2>1
    <3>5. h[rest] = f[c] + h[rest \ {c}]
          BY <3>3, <3>4
    <3>6. f[c] \in Int /\ f[y] \in Int /\ h[rest \ {c}] \in Int
          BY <1>3, <2>2
    <3>7. h[s] = f[c] + (f[y] + h[rest \ {c}])
          BY <2>2, <3>2, <3>3
    <3>8. h[s] = f[y] + h[rest]
          BY <3>5, <3>6, <3>7
    <3> QED BY <3>8
  <2> QED BY <2>3, <2>4
<1>5. S \in SUBSET S /\ S \ {x} \in SUBSET S /\ S \notin Bad
      BY <1>4
<1>6. h[S] = f[x] + h[S \ {x}]
      BY <1>5
<1> QED BY <1>1, <1>5, <1>6

-----------------------------------------------------------------------------
\* Sums of more, of less and of the same.

LEMMA SumAdd ==
  ASSUME NEW f, NEW S, Adds(f, S), NEW x, x \notin S, f[x] \in Int
  PROVE  /\ Adds(f, S \cup {x})
         /\ SumFunctionOnSet(f, S \cup {x}) = f[x] + SumFunctionOnSet(f, S)
<1>1. Adds(f, S \cup {x})
      BY FS_AddElement DEF Adds
<1>2. (S \cup {x}) \ {x} = S
      OBVIOUS
<1> QED BY <1>1, <1>2, SumTake

LEMMA SumSame ==
  ASSUME NEW f, NEW g, NEW S, Adds(f, S), \A x \in S : f[x] = g[x]
  PROVE  SumFunctionOnSet(g, S) = SumFunctionOnSet(f, S)
<1> DEFINE G == {T \in SUBSET S : SumFunctionOnSet(g, T) = SumFunctionOnSet(f, T)}
<1>1. {} \in G
      BY SumEmpty
<1>2. ASSUME NEW T \in SUBSET S, NEW x \in T, T \ {x} \in G
      PROVE  T \in G
  <2>1. Adds(f, T) /\ Adds(g, T)
        BY FS_Subset DEF Adds
  <2>2. /\ SumFunctionOnSet(f, T) = f[x] + SumFunctionOnSet(f, T \ {x})
        /\ SumFunctionOnSet(g, T) = g[x] + SumFunctionOnSet(g, T \ {x})
        BY <2>1, SumTake
  <2> QED BY <1>2, <2>2
<1> HIDE DEF G
<1>3. S \in G
      BY <1>1, <1>2, SetByElements DEF Adds
<1> QED BY <1>3 DEF G

LEMMA SumLess ==
  ASSUME NEW f, NEW g, NEW S, Adds(f, S), Adds(g, S), \A x \in S : f[x] <= g[x]
  PROVE  SumFunctionOnSet(f, S) <= SumFunctionOnSet(g, S)
<1> DEFINE G == {T \in SUBSET S : SumFunctionOnSet(f, T) <= SumFunctionOnSet(g, T)}
<1>1. {} \in G
      BY SumEmpty
<1>2. ASSUME NEW T \in SUBSET S, NEW x \in T, T \ {x} \in G
      PROVE  T \in G
  <2>1. Adds(f, T) /\ Adds(g, T) /\ Adds(f, T \ {x}) /\ Adds(g, T \ {x})
        BY FS_Subset DEF Adds
  <2>2. /\ SumFunctionOnSet(f, T) = f[x] + SumFunctionOnSet(f, T \ {x})
        /\ SumFunctionOnSet(g, T) = g[x] + SumFunctionOnSet(g, T \ {x})
        BY <2>1, SumTake
  <2>3. SumFunctionOnSet(f, T \ {x}) \in Int /\ SumFunctionOnSet(g, T \ {x}) \in Int
        BY <2>1, SumType
  <2>4. f[x] \in Int /\ g[x] \in Int /\ f[x] <= g[x]
        BY DEF Adds
  <2>5. SumFunctionOnSet(f, T \ {x}) <= SumFunctionOnSet(g, T \ {x})
        BY <1>2
  <2>6. SumFunctionOnSet(f, T) <= SumFunctionOnSet(g, T)
        BY <2>2, <2>3, <2>4, <2>5
  <2> QED BY <2>6
<1> HIDE DEF G
<1>3. S \in G
      BY <1>1, <1>2, SetByElements DEF Adds
<1> QED BY <1>3 DEF G

\* The sum of two functions, value by value.
LEMMA SumPlus ==
  ASSUME NEW f, NEW g, NEW h, NEW S, Adds(f, S), Adds(g, S), \A x \in S : h[x] = f[x] + g[x]
  PROVE  SumFunctionOnSet(h, S) = SumFunctionOnSet(f, S) + SumFunctionOnSet(g, S)
<1> DEFINE G == {T \in SUBSET S :
                   SumFunctionOnSet(h, T) = SumFunctionOnSet(f, T) + SumFunctionOnSet(g, T)}
<1>1. {} \in G
      BY SumEmpty
<1>2. ASSUME NEW T \in SUBSET S, NEW x \in T, T \ {x} \in G
      PROVE  T \in G
  <2>1. Adds(f, T) /\ Adds(g, T) /\ Adds(h, T) /\ Adds(f, T \ {x}) /\ Adds(g, T \ {x})
        BY FS_Subset DEF Adds
  <2>2. /\ SumFunctionOnSet(f, T) = f[x] + SumFunctionOnSet(f, T \ {x})
        /\ SumFunctionOnSet(g, T) = g[x] + SumFunctionOnSet(g, T \ {x})
        /\ SumFunctionOnSet(h, T) = h[x] + SumFunctionOnSet(h, T \ {x})
        BY <2>1, SumTake
  <2>3. SumFunctionOnSet(f, T \ {x}) \in Int /\ SumFunctionOnSet(g, T \ {x}) \in Int
        BY <2>1, SumType
  <2>4. f[x] \in Int /\ g[x] \in Int /\ h[x] = f[x] + g[x]
        BY DEF Adds
  <2>5. SumFunctionOnSet(h, T \ {x}) = SumFunctionOnSet(f, T \ {x}) + SumFunctionOnSet(g, T \ {x})
        BY <1>2
  <2>6. SumFunctionOnSet(h, T) = SumFunctionOnSet(f, T) + SumFunctionOnSet(g, T)
        BY <2>2, <2>3, <2>4, <2>5
  <2> QED BY <2>6
<1> HIDE DEF G
<1>3. S \in G
      BY <1>1, <1>2, SetByElements DEF Adds
<1> QED BY <1>3 DEF G

LEMMA SumZero ==
  ASSUME NEW f, NEW S, IsFiniteSet(S), \A x \in S : f[x] = 0
  PROVE  SumFunctionOnSet(f, S) = 0
<1>1. Adds(f, S) /\ \A x \in S : f[x] = f[x] + f[x]
      BY DEF Adds
<1>2. SumFunctionOnSet(f, S) = SumFunctionOnSet(f, S) + SumFunctionOnSet(f, S)
      BY <1>1, SumPlus
<1> QED BY <1>1, <1>2, SumType

LEMMA SumOne ==
  ASSUME NEW f, NEW x, f[x] \in Int
  PROVE  SumFunctionOnSet(f, {x}) = f[x]
<1> DEFINE S == {x}
<1>1. Adds(f, S) /\ x \in S /\ S \ {x} = {}
      BY FS_Singleton DEF Adds
<1> HIDE DEF S
<1>2. SumFunctionOnSet(f, S) = f[x] + SumFunctionOnSet(f, S \ {x})
      BY <1>1, SumTake
<1> QED BY <1>1, <1>2, SumEmpty DEF S

LEMMA SumPositive ==
  ASSUME NEW f, NEW S, IsFiniteSet(S), \A x \in S : f[x] \in Nat
  PROVE  SumFunctionOnSet(f, S) \in Nat
<1> DEFINE G == {T \in SUBSET S : SumFunctionOnSet(f, T) \in Nat}
<1>1. {} \in G
      BY SumEmpty
<1>2. ASSUME NEW T \in SUBSET S, NEW x \in T, T \ {x} \in G
      PROVE  T \in G
  <2>1. Adds(f, T)
        BY FS_Subset DEF Adds
  <2>2. SumFunctionOnSet(f, T) = f[x] + SumFunctionOnSet(f, T \ {x})
        BY <2>1, SumTake
  <2>3. SumFunctionOnSet(f, T \ {x}) \in Nat /\ f[x] \in Nat
        BY <1>2
  <2> QED BY <2>2, <2>3
<1> HIDE DEF G
<1>3. S \in G
      BY <1>1, <1>2, SetByElements
<1> QED BY <1>3 DEF G

\* Over a part of the set: the sum is that of both parts.
LEMMA SumParts ==
  ASSUME NEW f, NEW S, NEW P, NEW Q, Adds(f, S), P \cup Q = S, P \cap Q = {}
  PROVE  /\ Adds(f, P) /\ Adds(f, Q)
         /\ SumFunctionOnSet(f, S) = SumFunctionOnSet(f, P) + SumFunctionOnSet(f, Q)
<1>1. Adds(f, P) /\ Adds(f, Q)
      BY FS_Subset DEF Adds
<1> DEFINE G == {T \in SUBSET Q :
                   SumFunctionOnSet(f, P \cup T) = SumFunctionOnSet(f, P) + SumFunctionOnSet(f, T)}
<1>2. {} \in G
  <2>1. P \cup {} = P /\ SumFunctionOnSet(f, P) \in Int
        BY <1>1, SumType
  <2> QED BY <2>1, SumEmpty
<1>3. ASSUME NEW T \in SUBSET Q, NEW x \in T, T \ {x} \in G
      PROVE  T \in G
  <2>1. Adds(f, T) /\ Adds(f, T \ {x}) /\ Adds(f, P \cup T)
        BY <1>1, FS_Subset DEF Adds
  <2>2. (P \cup T) \ {x} = P \cup (T \ {x}) /\ f[x] \in Int
        BY <2>1 DEF Adds
  <2>3. /\ SumFunctionOnSet(f, T) = f[x] + SumFunctionOnSet(f, T \ {x})
        /\ SumFunctionOnSet(f, P \cup T) = f[x] + SumFunctionOnSet(f, P \cup (T \ {x}))
        BY <2>1, <2>2, SumTake
  <2>4. SumFunctionOnSet(f, T \ {x}) \in Int /\ SumFunctionOnSet(f, P) \in Int
        BY <1>1, <2>1, SumType
  <2>5. SumFunctionOnSet(f, P \cup (T \ {x})) = SumFunctionOnSet(f, P) + SumFunctionOnSet(f, T \ {x})
        BY <1>3
  <2>6. SumFunctionOnSet(f, P \cup T) = SumFunctionOnSet(f, P) + SumFunctionOnSet(f, T)
        BY <2>2, <2>3, <2>4, <2>5
  <2> QED BY <2>6
<1> HIDE DEF G
<1>4. Q \in G
      BY <1>1, <1>2, <1>3, SetByElements DEF Adds
<1> QED BY <1>1, <1>4 DEF G

-----------------------------------------------------------------------------
\* The larger and the smaller.

LEMMA MaxOfTwo ==
  ASSUME NEW a \in Int, NEW b \in Int
  PROVE  Max({a, b}) = IF a >= b THEN a ELSE b
<1> DEFINE m == IF a >= b THEN a ELSE b
<1>1. m \in {a, b} /\ \A y \in {a, b} : m >= y
      OBVIOUS
<1>2. ASSUME NEW x \in {a, b}, \A y \in {a, b} : x >= y
      PROVE  x = m
      BY <1>2
<1> QED BY <1>1, <1>2 DEF Max

LEMMA MinOfTwo ==
  ASSUME NEW a \in Int, NEW b \in Int
  PROVE  Min({a, b}) = IF a <= b THEN a ELSE b
<1> DEFINE m == IF a <= b THEN a ELSE b
<1>1. m \in {a, b} /\ \A y \in {a, b} : m <= y
      OBVIOUS
<1>2. ASSUME NEW x \in {a, b}, \A y \in {a, b} : x <= y
      PROVE  x = m
      BY <1>2
<1> QED BY <1>1, <1>2 DEF Min

LEMMA MinOfSome ==
  ASSUME NEW N, N \subseteq Nat, N # {}
  PROVE  Min(N) \in N /\ \A n \in N : Min(N) <= n
BY SmallestNumber DEF Min

LEMMA MaxOfSome ==
  ASSUME NEW S, S \subseteq Nat, IsFiniteSet(S), S # {}
  PROVE  Max(S) \in S /\ \A n \in S : n <= Max(S)
<1> DEFINE G == {T \in SUBSET S : T = {} \/ \E m \in T : \A n \in T : n <= m}
<1>1. {} \in G
      OBVIOUS
<1>2. ASSUME NEW T \in SUBSET S, NEW x \in T, T \ {x} \in G
      PROVE  T \in G
  <2>1. CASE T \ {x} = {}
    <3>1. \A n \in T : n <= x
          BY <2>1
    <3> QED BY <3>1
  <2>2. CASE T \ {x} # {}
    <3>1. PICK m \in T \ {x} : \A n \in T \ {x} : n <= m
          BY <1>2, <2>2
    <3>2. CASE x <= m
          BY <3>1, <3>2
    <3>3. CASE m < x
      <4>1. \A n \in T : n <= x
            BY <3>1, <3>3
      <4> QED BY <4>1
    <3> QED BY <3>2, <3>3, <3>1
  <2> QED BY <2>1, <2>2
<1> HIDE DEF G
<1>3. S \in G
      BY <1>1, <1>2, SetByElements
<1> QED BY <1>3 DEF G, Max

\* One of the numbers that are summed up grows by one.
LEMMA SumBump ==
  ASSUME NEW f, NEW g, NEW S, Adds(f, S), NEW x \in S, g[x] = f[x] + 1,
         \A y \in S : y # x => g[y] = f[y]
  PROVE  SumFunctionOnSet(g, S) = SumFunctionOnSet(f, S) + 1
<1> DEFINE R == S \ {x}
<1>1. Adds(g, S) /\ Adds(f, R) /\ \A y \in R : f[y] = g[y]
  <2>1. \A y \in S : f[y] \in Int /\ g[y] \in Int
        BY DEF Adds
  <2>2. IsFiniteSet(S) /\ IsFiniteSet(R)
        BY FS_Subset DEF Adds
  <2> QED BY <2>1, <2>2 DEF Adds
<1>2. SumFunctionOnSet(f, S) = f[x] + SumFunctionOnSet(f, R)
      BY SumTake
<1>3. SumFunctionOnSet(g, S) = g[x] + SumFunctionOnSet(g, R)
      BY <1>1, SumTake
<1> HIDE DEF R
<1>4. SumFunctionOnSet(g, R) = SumFunctionOnSet(f, R) /\ SumFunctionOnSet(f, R) \in Int
      BY <1>1, SumSame, SumType
<1>5. f[x] \in Int
      BY DEF Adds
<1> QED BY <1>2, <1>3, <1>4, <1>5

-----------------------------------------------------------------------------
\* Numbers in ascending order.

\* A larger number of a set has a higher rank.
LEMMA RankGrows ==
  ASSUME NEW S \in SUBSET Nat, IsFiniteSet(S), NEW n \in S
  PROVE  /\ RankIn(S, n) \in 1 .. Cardinality(S)
         /\ \A m \in S : m < n => RankIn(S, m) < RankIn(S, n)
<1> DEFINE Upto(k) == {x \in S : x <= k}
<1>1. \A k \in S : IsFiniteSet(Upto(k)) /\ Cardinality(Upto(k)) \in Nat
      BY FS_Subset, FS_CardinalityType
<1>2. \A k \in S : RankIn(S, k) = Cardinality(Upto(k)) /\ k \in Upto(k)
      BY DEF RankIn
<1>3. Cardinality(S) \in Nat /\ Cardinality(Upto(n)) <= Cardinality(S) /\ Cardinality(Upto(n)) # 0
  <2>1. Upto(n) # {} /\ IsFiniteSet(Upto(n)) /\ Upto(n) \in SUBSET S
        BY <1>1, <1>2
  <2> HIDE DEF Upto
  <2> QED BY <2>1, FS_Subset, FS_EmptySet, FS_CardinalityType
<1>4. ASSUME NEW m \in S, m < n
      PROVE  Cardinality(Upto(m)) < Cardinality(Upto(n))
  <2>1. Upto(m) \in SUBSET Upto(n) /\ n \notin Upto(m)
    <3>1. \A x \in S : x <= m => x <= n
      <4> TAKE x \in S
      <4>1. x \in Nat /\ m \in Nat /\ n \in Nat
            OBVIOUS
      <4> QED BY <1>4, <4>1
    <3>2. ~(n <= m)
      <4>1. m \in Nat /\ n \in Nat
            OBVIOUS
      <4> QED BY <1>4, <4>1
    <3> QED BY <3>1, <3>2
  <2>2. Upto(m) # Upto(n)
        BY <1>2, <2>1
  <2> HIDE DEF Upto
  <2>3. Cardinality(Upto(m)) <= Cardinality(Upto(n)) /\ Cardinality(Upto(m)) # Cardinality(Upto(n))
        BY <1>1, <2>1, <2>2, FS_Subset
  <2> QED BY <1>1, <2>3
<1> HIDE DEF Upto
<1>5. RankIn(S, n) \in 1 .. Cardinality(S)
      BY <1>1, <1>2, <1>3
<1> QED BY <1>2, <1>4, <1>5

\* Each rank is that of one number.
LEMMA RankOnto ==
  ASSUME NEW S \in SUBSET Nat, IsFiniteSet(S), NEW k \in 1 .. Cardinality(S)
  PROVE  /\ \E n \in S : RankIn(S, n) = k
         /\ \A n, m \in S : RankIn(S, n) = RankIn(S, m) => n = m
<1> DEFINE f == [n \in S |-> RankIn(S, n)]
           K == 1 .. Cardinality(S)
<1>1. \A n, m \in S : RankIn(S, n) = RankIn(S, m) => n = m
  <2> SUFFICES ASSUME NEW n \in S, NEW m \in S, RankIn(S, n) = RankIn(S, m), m # n
               PROVE  FALSE
      OBVIOUS
  <2>1. m < n \/ n < m
    <3>1. m \in Nat /\ n \in Nat
          OBVIOUS
    <3> QED BY <3>1
  <2>2. RankIn(S, n) \in Nat /\ RankIn(S, m) \in Nat
        BY RankGrows
  <2> QED BY <2>1, <2>2, RankGrows
<1>2. f \in Injection(S, K)
  <2>1. f \in [S -> K]
        BY RankGrows
  <2> QED BY <1>1, <2>1 DEF Injection, IsInjective
<1>3. IsFiniteSet(K) /\ Cardinality(K) = Cardinality(S)
      BY FS_CardinalityType, FS_Interval
<1>4. f \in Surjection(S, K)
  <2> HIDE DEF f, K
  <2> QED BY <1>2, <1>3, FS_Injection
<1>5. \E n \in S : f[n] = k
      BY <1>4 DEF Surjection
<1> QED BY <1>1, <1>5

\* The ascending numbers of a set: the one of rank k is at place k.
LEMMA AscendingAt ==
  ASSUME NEW S \in SUBSET Nat, IsFiniteSet(S)
  PROVE  /\ Cardinality(S) \in Nat /\ DOMAIN Ascending(S) = 1 .. Cardinality(S)
         /\ Ascending(S) \in Seq(S) /\ Len(Ascending(S)) = Cardinality(S)
         /\ \A k \in 1 .. Cardinality(S) :
              /\ Ascending(S)[k] \in S /\ RankIn(S, Ascending(S)[k]) = k
              /\ \A n \in S : RankIn(S, n) = k => Ascending(S)[k] = n
<1>1. Cardinality(S) \in Nat
      BY FS_CardinalityType
<1>2. \A k \in 1 .. Cardinality(S) :
        /\ Ascending(S)[k] \in S /\ RankIn(S, Ascending(S)[k]) = k
        /\ \A n \in S : RankIn(S, n) = k => Ascending(S)[k] = n
      BY RankOnto DEF Ascending
<1>3. DOMAIN Ascending(S) = 1 .. Cardinality(S) /\ Ascending(S) \in [1 .. Cardinality(S) -> S]
      BY <1>2 DEF Ascending
<1>4. Ascending(S) \in Seq(S)
      BY <1>1, <1>3
<1>5. Len(Ascending(S)) = Cardinality(S)
      BY <1>1, <1>3, <1>4
<1> QED BY <1>1, <1>2, <1>3, <1>4, <1>5

=============================================================================
