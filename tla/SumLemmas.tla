------------------------------ MODULE SumLemmas ------------------------------
(***************************************************************************)
(* What the proofs need to know of SumFunctionOnSet, the sum of a          *)
(* function's values over a finite set.  The sum is a recursive function   *)
(* on subsets; that it obeys its recursion, and everything after it, comes *)
(* from one fact: a nonempty collection of subsets of a finite set has a   *)
(* minimal member.  Each induction is an argument about such a member.     *)
(***************************************************************************)
EXTENDS Integers, Functions, Finiteness, TLAPS

\* The element the fold takes next, and one step of its recursion.
Taken(s) == CHOOSE x \in s : TRUE

SumAt(f, g, s) == IF s = {} THEN 0 ELSE f[Taken(s)] + g[s \ {Taken(s)}]

\* g is the table of the sums of f over the subsets of S.
IsTable(f, g, S) == g = [s \in SUBSET S |-> SumAt(f, g, s)]

Table(f, S) == CHOOSE g : IsTable(f, g, S)

-----------------------------------------------------------------------------
(* Finite sets                                                             *)

\* Among the members of a nonempty collection of subsets of a finite set one
\* has no proper subset in the collection.
LEMMA MinimalMember ==
  ASSUME NEW S, Finite(S), NEW B \in SUBSET (SUBSET S), B # {}
  PROVE  \E T \in B : \A U \in B : U \subseteq T => U = T
BY DEF Finite

\* A subset of a finite set is finite.
LEMMA FiniteSubset ==
  ASSUME NEW S, Finite(S), NEW T \in SUBSET S
  PROVE  Finite(T)
BY DEF Finite

\* The empty set is finite.
LEMMA FiniteEmpty ==
  Finite({})
BY DEF Finite

\* A finite set with one more element is finite: the smaller sets of a
\* collection are those without the element, and when there are none, taking
\* it out of all of them loses nothing.
LEMMA FiniteAdd ==
  ASSUME NEW S, Finite(S), NEW x
  PROVE  Finite(S \cup {x})
<1>1. SUFFICES ASSUME NEW B \in SUBSET (SUBSET (S \cup {x})), B # {}
               PROVE  \E T \in B : \A U \in B : U \subseteq T => U = T
  BY DEF Finite
<1> DEFINE C == {U \in B : x \notin U}
           D == {U \ {x} : U \in B}
<1>2. CASE C # {}
  <2>1. C \in SUBSET (SUBSET S)
    BY <1>1
  <2>2. PICK T \in C : \A U \in C : U \subseteq T => U = T
    <3> HIDE DEF C
    <3> QED
      BY <1>2, <2>1, MinimalMember
  <2> QED
    BY <2>2
<1>3. CASE C = {}
  <2>1. D \in SUBSET (SUBSET S) /\ D # {}
    BY <1>1, ZenonT(30)
  <2>2. PICK R \in D : \A U \in D : U \subseteq R => U = R
    <3> HIDE DEF D
    <3> QED
      BY <2>1, MinimalMember
  <2>3. PICK T \in B : R = T \ {x}
    BY <2>2
  <2>4. ASSUME NEW U \in B, U \subseteq T
        PROVE  U = T
    <3>1. U \ {x} \in D /\ U \ {x} \subseteq R
      BY <2>3, <2>4
    <3>2. U \ {x} = T \ {x}
      BY <2>2, <2>3, <3>1
    <3>3. x \in U /\ x \in T
      BY <1>3, <2>3, <2>4
    <3> QED
      BY <3>2, <3>3
  <2> QED
    BY <2>3, <2>4
<1> QED
  BY <1>2, <1>3

\* A set of one element is finite.
LEMMA FiniteSingle ==
  ASSUME NEW x
  PROVE  Finite({x})
<1>1. {x} = {} \cup {x}
  OBVIOUS
<1> QED
  BY <1>1, FiniteEmpty, FiniteAdd, ZenonT(30)

-----------------------------------------------------------------------------
(* The recursion is well founded                                           *)

\* The element taken from a nonempty set is one of its own.
LEMMA TakenMember ==
  ASSUME NEW s, s # {}
  PROVE  Taken(s) \in s
BY DEF Taken

\* A table of S, read on the subsets of a subset, is the table of that subset.
LEMMA TableRestricts ==
  ASSUME NEW f, NEW g, NEW S, IsTable(f, g, S), NEW T \in SUBSET S
  PROVE  IsTable(f, [s \in SUBSET T |-> g[s]], T)
<1> DEFINE h == [s \in SUBSET T |-> g[s]]
<1>1. ASSUME NEW s \in SUBSET T
      PROVE  SumAt(f, g, s) = SumAt(f, h, s)
  BY TakenMember DEF SumAt
<1>2. ASSUME NEW s \in SUBSET T
      PROVE  g[s] = SumAt(f, g, s)
  BY DEF IsTable
<1> QED
  BY <1>1, <1>2 DEF IsTable

\* A finite set has at most one table.
LEMMA TableUnique ==
  ASSUME NEW f, NEW g, NEW h, NEW S, Finite(S), IsTable(f, g, S), IsTable(f, h, S)
  PROVE  g = h
<1> DEFINE B == {s \in SUBSET S : g[s] # h[s]}
<1>1. CASE B = {}
  BY <1>1 DEF IsTable
<1>2. CASE B # {}
  <2>1. PICK T \in B : \A U \in B : U \subseteq T => U = T
    <3>1. B \in SUBSET (SUBSET S)
      OBVIOUS
    <3> HIDE DEF B
    <3> QED
      BY <1>2, <3>1, MinimalMember
  <2>2. T # {}
    <3>1. g[{}] = SumAt(f, g, {}) /\ h[{}] = SumAt(f, h, {})
      BY DEF IsTable
    <3> QED
      BY <3>1 DEF SumAt
  <2>3. T \ {Taken(T)} \notin B
    BY <2>1, <2>2, TakenMember
  <2>4. g[T \ {Taken(T)}] = h[T \ {Taken(T)}]
    BY <2>3
  <2> QED
    BY <2>2, <2>4, ZenonT(30) DEF IsTable, SumAt
<1> QED
  BY <1>1, <1>2

\* Every finite set has a table: a minimal set without one could be given one
\* by reading the tables of its proper subsets.
LEMMA TableExists ==
  ASSUME NEW f, NEW S, Finite(S)
  PROVE  IsTable(f, Table(f, S), S)
<1> DEFINE B == {T \in SUBSET S : ~ \E g : IsTable(f, g, T)}
<1>1. SUFFICES ASSUME B # {} PROVE FALSE
  BY DEF Table
<1>2. PICK T \in B : \A U \in B : U \subseteq T => U = T
  <2>1. B \in SUBSET (SUBSET S)
    OBVIOUS
  <2> HIDE DEF B
  <2> QED
    BY <1>1, <2>1, MinimalMember
<1>3. ASSUME NEW U \in SUBSET T, U # T
      PROVE  IsTable(f, Table(f, U), U)
  <2>1. U \in SUBSET S /\ U \notin B
    BY <1>2, <1>3
  <2>2. \E g : IsTable(f, g, U)
    BY <2>1
  <2> QED
    BY <2>2 DEF Table
<1> DEFINE Low(U) == Table(f, U)[U]
           g == [s \in SUBSET T |-> IF s # T THEN Low(s) ELSE SumAt(f, [u \in SUBSET T |-> Low(u)], T)]
<1>4. ASSUME NEW U \in SUBSET T, U # T, NEW V \in SUBSET U
      PROVE  Table(f, U)[V] = Low(V)
  <2>1. IsTable(f, Table(f, U), U) /\ IsTable(f, Table(f, V), V)
    BY <1>3, <1>4
  <2>2. IsTable(f, [s \in SUBSET V |-> Table(f, U)[s]], V)
    BY <2>1, TableRestricts
  <2>3. Finite(V)
    BY FiniteSubset
  <2>4. [s \in SUBSET V |-> Table(f, U)[s]] = Table(f, V)
    BY <2>1, <2>2, <2>3, TableUnique
  <2> QED
    BY <2>4
<1>5. ASSUME NEW s \in SUBSET T
      PROVE  g[s] = SumAt(f, g, s)
  <2>1. CASE s = T
    BY <2>1, TakenMember DEF SumAt
  <2>2. CASE s # T
    <3>1. Low(s) = SumAt(f, Table(f, s), s)
      BY <1>3, <2>2 DEF IsTable
    <3>2. s # {} => Table(f, s)[s \ {Taken(s)}] = g[s \ {Taken(s)}]
      BY <1>4, <2>2, TakenMember
    <3> QED
      BY <2>2, <3>1, <3>2 DEF SumAt
  <2> QED
    BY <2>1, <2>2
<1>6. IsTable(f, g, T)
  BY <1>5 DEF IsTable
<1> QED
  BY <1>2, <1>6

-----------------------------------------------------------------------------
(* The recursion of the sum                                                *)

\* The sum over a set is the entry of that set in its table.
LEMMA SumIsEntry ==
  ASSUME NEW f, NEW S
  PROVE  SumFunctionOnSet(f, S) = Table(f, S)[S]
BY DEF SumFunctionOnSet, FoldFunctionOnSet, MapThenFoldSet, Table, IsTable, SumAt, Taken

\* The sum over no element is zero.
LEMMA SumEmpty ==
  ASSUME NEW f
  PROVE  SumFunctionOnSet(f, {}) = 0
<1>1. IsTable(f, Table(f, {}), {})
  BY TableExists, FiniteEmpty
<1> QED
  BY <1>1, SumIsEntry DEF IsTable, SumAt

\* The sum over a nonempty set is the taken element's value and the rest's sum.
LEMMA SumTaken ==
  ASSUME NEW f, NEW S, Finite(S), S # {}
  PROVE  SumFunctionOnSet(f, S) = f[Taken(S)] + SumFunctionOnSet(f, S \ {Taken(S)})
<1> DEFINE R == S \ {Taken(S)}
<1>1. IsTable(f, Table(f, S), S)
  BY TableExists
<1>2. IsTable(f, Table(f, R), R) /\ Finite(R)
  BY TableExists, FiniteSubset
<1>3. [s \in SUBSET R |-> Table(f, S)[s]] = Table(f, R)
  <2>1. IsTable(f, [s \in SUBSET R |-> Table(f, S)[s]], R)
    BY <1>1, TableRestricts
  <2> QED
    BY <1>2, <2>1, TableUnique
<1>4. Table(f, S)[R] = Table(f, R)[R]
  BY <1>3
<1>5. Table(f, S)[S] = f[Taken(S)] + Table(f, S)[R]
  BY <1>1 DEF IsTable, SumAt
<1> QED
  BY <1>4, <1>5, SumIsEntry
-----------------------------------------------------------------------------
(* Facts about sums                                                        *)

\* A sum of integers is an integer.
LEMMA SumInt ==
  ASSUME NEW S, Finite(S), NEW f, \A x \in S : f[x] \in Int
  PROVE  SumFunctionOnSet(f, S) \in Int
<1> DEFINE B == {T \in SUBSET S : SumFunctionOnSet(f, T) \notin Int}
<1>1. SUFFICES ASSUME B # {} PROVE FALSE
  OBVIOUS
<1>2. PICK T \in B : \A U \in B : U \subseteq T => U = T
  <2>1. B \in SUBSET (SUBSET S)
    OBVIOUS
  <2> HIDE DEF B
  <2> QED
    BY <1>1, <2>1, MinimalMember
<1>3. T # {}
  <2>1. SumFunctionOnSet(f, {}) = 0
    BY SumEmpty
  <2> QED
    BY <2>1
<1>4. Finite(T)
  BY FiniteSubset
<1>5. Taken(T) \in T
  BY <1>3, TakenMember
<1>6. SumFunctionOnSet(f, T \ {Taken(T)}) \in Int
  BY <1>2, <1>5
<1>7. SumFunctionOnSet(f, T) = f[Taken(T)] + SumFunctionOnSet(f, T \ {Taken(T)})
  BY <1>3, <1>4, SumTaken
<1> QED
  BY <1>2, <1>5, <1>6, <1>7

\* Any element may be taken out of the sum first.
LEMMA SumRemove ==
  ASSUME NEW S, Finite(S), NEW f, \A x \in S : f[x] \in Int, NEW y \in S
  PROVE  SumFunctionOnSet(f, S) = f[y] + SumFunctionOnSet(f, S \ {y})
<1> DEFINE Out(T, z) == SumFunctionOnSet(f, T) = f[z] + SumFunctionOnSet(f, T \ {z})
           B == {T \in SUBSET S : \E z \in T : ~Out(T, z)}
<1>1. SUFFICES ASSUME B # {} PROVE FALSE
  OBVIOUS
<1>2. PICK T \in B : \A U \in B : U \subseteq T => U = T
  <2>1. B \in SUBSET (SUBSET S)
    OBVIOUS
  <2> HIDE DEF B
  <2> QED
    BY <1>1, <2>1, MinimalMember
<1>3. PICK z \in T : ~Out(T, z)
  BY <1>2
<1> DEFINE x == Taken(T)
           R == T \ {x, z}
<1>4. x \in T
  BY TakenMember
<1>5. Finite(T)
  BY FiniteSubset
<1>6. Out(T, x)
  BY <1>4, <1>5, SumTaken
<1>7. x # z
  BY <1>3, <1>6
<1>8. SumFunctionOnSet(f, T \ {x}) = f[z] + SumFunctionOnSet(f, R)
  <2>1. T \ {x} \notin B /\ z \in T \ {x} /\ (T \ {x}) \ {z} = R
    BY <1>2, <1>4, <1>7
  <2> QED
    BY <2>1
<1>9. SumFunctionOnSet(f, T \ {z}) = f[x] + SumFunctionOnSet(f, R)
  <2>1. T \ {z} \notin B /\ x \in T \ {z} /\ (T \ {z}) \ {x} = R
    BY <1>2, <1>4, <1>7
  <2> QED
    BY <2>1
<1>10. SumFunctionOnSet(f, R) \in Int
  BY SumInt, FiniteSubset
<1> QED
  BY <1>3, <1>4, <1>6, <1>8, <1>9, <1>10

\* Functions that agree on a set have the same sum over it.
LEMMA SumAgree ==
  ASSUME NEW S, Finite(S), NEW f, NEW g, \A x \in S : f[x] = g[x]
  PROVE  SumFunctionOnSet(f, S) = SumFunctionOnSet(g, S)
<1> DEFINE B == {T \in SUBSET S : SumFunctionOnSet(f, T) # SumFunctionOnSet(g, T)}
<1>1. SUFFICES ASSUME B # {} PROVE FALSE
  OBVIOUS
<1>2. PICK T \in B : \A U \in B : U \subseteq T => U = T
  <2>1. B \in SUBSET (SUBSET S)
    OBVIOUS
  <2> HIDE DEF B
  <2> QED
    BY <1>1, <2>1, MinimalMember
<1>3. T # {}
  <2>1. SumFunctionOnSet(f, {}) = 0 /\ SumFunctionOnSet(g, {}) = 0
    BY SumEmpty
  <2> QED
    BY <2>1
<1>4. Taken(T) \in T /\ Finite(T)
  BY <1>3, TakenMember, FiniteSubset
<1>5. T \ {Taken(T)} \notin B
  BY <1>2, <1>4
<1>6. SumFunctionOnSet(f, T) = f[Taken(T)] + SumFunctionOnSet(f, T \ {Taken(T)})
  BY <1>3, <1>4, SumTaken
<1>7. SumFunctionOnSet(g, T) = g[Taken(T)] + SumFunctionOnSet(g, T \ {Taken(T)})
  BY <1>3, <1>4, SumTaken
<1> QED
  BY <1>4, <1>5, <1>6, <1>7

\* A sum of natural numbers is one.
LEMMA SumNat ==
  ASSUME NEW S, Finite(S), NEW f, \A x \in S : f[x] \in Nat
  PROVE  SumFunctionOnSet(f, S) \in Nat
<1> DEFINE B == {T \in SUBSET S : SumFunctionOnSet(f, T) \notin Nat}
<1>1. SUFFICES ASSUME B # {} PROVE FALSE
  OBVIOUS
<1>2. PICK T \in B : \A U \in B : U \subseteq T => U = T
  <2>1. B \in SUBSET (SUBSET S)
    OBVIOUS
  <2> HIDE DEF B
  <2> QED
    BY <1>1, <2>1, MinimalMember
<1>3. T # {}
  <2>1. SumFunctionOnSet(f, {}) = 0
    BY SumEmpty
  <2> QED
    BY <2>1
<1>4. Taken(T) \in T /\ Finite(T)
  BY <1>3, TakenMember, FiniteSubset
<1>5. SumFunctionOnSet(f, T \ {Taken(T)}) \in Nat
  BY <1>2, <1>4
<1>6. SumFunctionOnSet(f, T) = f[Taken(T)] + SumFunctionOnSet(f, T \ {Taken(T)})
  BY <1>3, <1>4, SumTaken
<1> QED
  BY <1>2, <1>4, <1>5, <1>6

\* A sum of zeros is zero.
LEMMA SumZero ==
  ASSUME NEW S, Finite(S), NEW f, \A x \in S : f[x] = 0
  PROVE  SumFunctionOnSet(f, S) = 0
<1> DEFINE B == {T \in SUBSET S : SumFunctionOnSet(f, T) # 0}
<1>1. SUFFICES ASSUME B # {} PROVE FALSE
  OBVIOUS
<1>2. PICK T \in B : \A U \in B : U \subseteq T => U = T
  <2>1. B \in SUBSET (SUBSET S)
    OBVIOUS
  <2> HIDE DEF B
  <2> QED
    BY <1>1, <2>1, MinimalMember
<1>3. T # {}
  <2>1. SumFunctionOnSet(f, {}) = 0
    BY SumEmpty
  <2> QED
    BY <2>1
<1>4. Taken(T) \in T /\ Finite(T)
  BY <1>3, TakenMember, FiniteSubset
<1>5. SumFunctionOnSet(f, T \ {Taken(T)}) = 0
  BY <1>2, <1>4
<1>6. SumFunctionOnSet(f, T) = f[Taken(T)] + SumFunctionOnSet(f, T \ {Taken(T)})
  BY <1>3, <1>4, SumTaken
<1> QED
  BY <1>2, <1>4, <1>5, <1>6

\* Changing one value changes the sum by as much.
LEMMA SumUpdate ==
  ASSUME NEW S, Finite(S), NEW f, NEW g, NEW y \in S,
         \A x \in S : f[x] \in Int /\ g[x] \in Int, \A x \in S \ {y} : f[x] = g[x]
  PROVE  SumFunctionOnSet(g, S) = SumFunctionOnSet(f, S) + (g[y] - f[y])
<1>1. Finite(S \ {y})
  BY FiniteSubset
<1>2. SumFunctionOnSet(f, S \ {y}) = SumFunctionOnSet(g, S \ {y})
  BY <1>1, SumAgree
<1>3. SumFunctionOnSet(f, S \ {y}) \in Int
  BY <1>1, SumInt
<1>4. SumFunctionOnSet(f, S) = f[y] + SumFunctionOnSet(f, S \ {y})
  BY SumRemove
<1>5. SumFunctionOnSet(g, S) = g[y] + SumFunctionOnSet(g, S \ {y})
  BY SumRemove
<1> QED
  BY <1>2, <1>3, <1>4, <1>5

\* The same, for functions on the set itself.
LEMMA SumChange ==
  ASSUME NEW S, Finite(S), NEW f \in [S -> Int], NEW g \in [S -> Int], NEW y \in S,
         \A x \in S \ {y} : f[x] = g[x]
  PROVE  /\ SumFunctionOnSet(f, S) \in Int /\ SumFunctionOnSet(g, S) \in Int
         /\ SumFunctionOnSet(g, S) = SumFunctionOnSet(f, S) + (g[y] - f[y])
<1>1. \A x \in S : f[x] \in Int /\ g[x] \in Int
  OBVIOUS
<1> QED
  BY <1>1, SumInt, SumUpdate
=============================================================================
