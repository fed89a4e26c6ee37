----------------------------- MODULE FiniteSums -----------------------------
(***************************************************************************)
(* Facts about sums of functions over finite sets: SumFunctionOnSet picks  *)
(* the elements in an order of its own, and the lemmas show that the order *)
(* plays no part.  The induction is that a set of finite sets with no      *)
(* smallest member is empty; it also gives a finite set of integers its    *)
(* smallest member.                                                        *)
(***************************************************************************)
EXTENDS Integers, FiniteSets, Functions, FiniteSetTheorems, TLAPS

\* The member a sum takes first.
Taken(s) == CHOOSE x \in s : TRUE

\* g is the table of the sums over the subsets of S.
Sums(q, g, S) ==
    g = [s \in SUBSET S |-> IF s = {} THEN 0 ELSE q[Taken(s)] + g[s \ {Taken(s)}]]

\* What holds of a finite set as soon as it holds of its proper subsets, holds.
LEMMA SubsetInduction ==
    ASSUME NEW S, IsFiniteSet(S), NEW G,
           \A T \in SUBSET S : (\A U \in SUBSET T : U # T => U \in G) => T \in G
    PROVE  SUBSET S \subseteq G
<1> DEFINE Bad == (SUBSET S) \ G
<1> SUFFICES ASSUME Bad # {} PROVE FALSE
  OBVIOUS
<1>1. FiniteSubsetsOf(S) = SUBSET S
  BY FS_FiniteSubsetsOfFinite
<1>2. IsWellFoundedOn(StrictSubsetOrdering(S), SUBSET S)
  <2>1. IsWellFoundedOn(StrictSubsetOrdering(S), FiniteSubsetsOf(S))
    BY FS_StrictSubsetOrderingWellFounded
  <2> QED
    BY <1>1, <2>1
<1>3. PICK T \in Bad : \A U \in Bad : ~ (<<U, T>> \in StrictSubsetOrdering(S))
  <2>1. Bad \subseteq SUBSET S
    OBVIOUS
  <2> HIDE DEF Bad
  <2> QED
    BY <1>2, <2>1, WFMin
<1>4. \A U \in SUBSET T : U # T => U \in G
  <2> SUFFICES ASSUME NEW U \in SUBSET T, U # T, U \notin G PROVE FALSE
    OBVIOUS
  <2>1. U \in Bad /\ T \in SUBSET S /\ U \in SUBSET S
    OBVIOUS
  <2>2. <<U, T>> \in StrictSubsetOrdering(S)
    BY <2>1 DEF StrictSubsetOrdering
  <2> QED
    BY <1>3, <2>1, <2>2
<1> QED
  BY <1>4

\* A finite set of integers that is not empty has a smallest member.
LEMMA Smallest ==
    ASSUME NEW S, IsFiniteSet(S), S \subseteq Int, S # {}
    PROVE  \E m \in S : \A x \in S : m <= x
<1> DEFINE G == {T \in SUBSET S : T # {} => \E m \in T : \A x \in T : m <= x}
<1>1. ASSUME NEW T \in SUBSET S, \A U \in SUBSET T : U # T => U \in G PROVE T \in G
  <2> SUFFICES ASSUME T # {} PROVE \E m \in T : \A x \in T : m <= x
    OBVIOUS
  <2>1. PICK e \in T : TRUE
    OBVIOUS
  <2>2. CASE T \ {e} = {}
    BY <2>1, <2>2
  <2>3. CASE T \ {e} # {}
    <3>1. T \ {e} \in G
      BY <1>1, <2>1
    <3>2. PICK m \in T \ {e} : \A x \in T \ {e} : m <= x
      BY <2>3, <3>1
    <3>3. e \in Int /\ m \in Int
      BY <2>1
    <3> QED
      BY <2>1, <3>2, <3>3
  <2> QED
    BY <2>2, <2>3
<1>2. SUBSET S \subseteq G
  <2> HIDE DEF G
  <2> QED
    BY <1>1, SubsetInduction
<1> QED
  BY <1>2

LEMMA TakenIsMember == \A s : s # {} => Taken(s) \in s
  BY DEF Taken

\* Two tables agree where both are defined.
LEMMA SumsAgree ==
    ASSUME NEW q, NEW S, NEW T, NEW g, NEW h, Sums(q, g, S), Sums(q, h, T),
           NEW U, IsFiniteSet(U), U \subseteq S, U \subseteq T
    PROVE  g[U] = h[U]
<1> DEFINE G == {u \in SUBSET U : g[u] = h[u]}
<1>1. ASSUME NEW u \in SUBSET U, \A v \in SUBSET u : v # u => v \in G PROVE u \in G
  <2>1. u \in SUBSET S /\ u \in SUBSET T
    OBVIOUS
  <2>2. /\ g[u] = IF u = {} THEN 0 ELSE q[Taken(u)] + g[u \ {Taken(u)}]
        /\ h[u] = IF u = {} THEN 0 ELSE q[Taken(u)] + h[u \ {Taken(u)}]
    BY <2>1 DEF Sums
  <2>3. CASE u = {}
    BY <2>2, <2>3
  <2>4. CASE u # {}
    <3>1. u \ {Taken(u)} \in SUBSET u /\ u \ {Taken(u)} # u
      BY <2>4, TakenIsMember
    <3>2. g[u \ {Taken(u)}] = h[u \ {Taken(u)}]
      BY <1>1, <3>1
    <3> QED
      BY <2>2, <2>4, <3>2
  <2> QED
    BY <2>3, <2>4
<1>2. SUBSET U \subseteq G
  <2> HIDE DEF G
  <2> QED
    BY <1>1, SubsetInduction
<1> QED
  BY <1>2

\* A finite set has a table.
LEMMA SumsExist ==
    ASSUME NEW q, NEW S, IsFiniteSet(S)
    PROVE  \E g : Sums(q, g, S)
<1> DEFINE G == {T \in SUBSET S : \E g : Sums(q, g, T)}
           table(U) == CHOOSE g : Sums(q, g, U)
           value(U) == table(U)[U]
<1>1. ASSUME NEW T \in SUBSET S, \A U \in SUBSET T : U # T => U \in G PROVE T \in G
  <2> DEFINE new == [s \in SUBSET T |-> IF s = {} THEN 0
                                        ELSE q[Taken(s)] + value(s \ {Taken(s)})]
  <2>1. ASSUME NEW U \in SUBSET T, U # T PROVE Sums(q, table(U), U) /\ IsFiniteSet(U)
    <3>1. \E g : Sums(q, g, U)
      BY <1>1, <2>1
    <3>2. IsFiniteSet(U)
      BY FS_Subset
    <3> QED
      BY <3>1, <3>2
  <2>2. ASSUME NEW s \in SUBSET T, s # {} PROVE new[s \ {Taken(s)}] = value(s \ {Taken(s)})
    <3> DEFINE u == s \ {Taken(s)}
    <3>1. u \in SUBSET T /\ u # T
      BY <2>2, TakenIsMember
    <3>2. Sums(q, table(u), u)
      BY <2>1, <3>1
    <3>3. CASE u = {}
      <4>1. value(u) = 0
        BY <3>2, <3>3 DEF Sums
      <4> QED
        BY <3>1, <3>3, <4>1
    <3>4. CASE u # {}
      <4> DEFINE w == u \ {Taken(u)}
      <4>1. w \in SUBSET T /\ w # T /\ w \subseteq u
        BY <3>1, <3>4, TakenIsMember
      <4>2. Sums(q, table(w), w) /\ IsFiniteSet(w)
        BY <2>1, <4>1
      <4>3. table(u)[w] = table(w)[w]
        <5> HIDE DEF table, u, w
        <5> QED
          BY <3>2, <4>1, <4>2, SumsAgree
      <4>4. table(u)[u] = q[Taken(u)] + table(u)[w]
        <5> HIDE DEF table
        <5> QED
          BY <3>2, <3>4 DEF Sums
      <4> QED
        BY <3>1, <3>4, <4>3, <4>4
    <3> QED
      BY <3>3, <3>4
  <2>3. Sums(q, new, T)
    <3>1. \A s \in SUBSET T : s # {} => new[s \ {Taken(s)}] = value(s \ {Taken(s)})
      BY <2>2
    <3>2. new = [s \in SUBSET T |-> IF s = {} THEN 0 ELSE q[Taken(s)] + new[s \ {Taken(s)}]]
      <4> HIDE DEF value
      <4> QED BY <3>1
    <3> QED
      BY <3>2 DEF Sums
  <2> HIDE DEF new
  <2> QED
    BY <2>3
<1>2. SUBSET S \subseteq G
  <2> HIDE DEF G
  <2> QED
    BY <1>1, SubsetInduction
<1> QED
  BY <1>2

\* What a sum computes is what the table of the set holds.
LEMMA SumIsTable == \A q, S : SumFunctionOnSet(q, S) = (CHOOSE g : Sums(q, g, S))[S]
  BY DEF SumFunctionOnSet, FoldFunctionOnSet, MapThenFoldSet, Sums, Taken

\* The sum over a set is its first member's units and the sum over the rest.
LEMMA SumUnfolds ==
    ASSUME NEW q, NEW S, IsFiniteSet(S)
    PROVE  /\ S = {} => SumFunctionOnSet(q, S) = 0
           /\ S # {} => SumFunctionOnSet(q, S) = q[Taken(S)] + SumFunctionOnSet(q, S \ {Taken(S)})
<1> DEFINE table(U) == CHOOSE g : Sums(q, g, U)
           R == S \ {Taken(S)}
<1>1. IsFiniteSet(R)
  BY FS_Subset
<1>2. Sums(q, table(S), S) /\ Sums(q, table(R), R)
  BY <1>1, SumsExist
<1>3. SumFunctionOnSet(q, S) = table(S)[S] /\ SumFunctionOnSet(q, R) = table(R)[R]
  BY SumIsTable
<1>4. table(S)[R] = table(R)[R]
  <2> HIDE DEF table
  <2> QED
    BY <1>1, <1>2, SumsAgree
<1>5. table(S)[S] = IF S = {} THEN 0 ELSE q[Taken(S)] + table(S)[R]
  <2> HIDE DEF table
  <2> QED
    BY <1>2 DEF Sums
<1> QED
  BY <1>3, <1>4, <1>5

\* A sum of integers is one.
LEMMA SumType ==
    ASSUME NEW D, NEW q \in [D -> Int], NEW S, IsFiniteSet(S), S \subseteq D
    PROVE  SumFunctionOnSet(q, S) \in Int
<1> DEFINE G == {T \in SUBSET S : SumFunctionOnSet(q, T) \in Int}
<1>1. ASSUME NEW T \in SUBSET S, \A U \in SUBSET T : U # T => U \in G PROVE T \in G
  <2>1. IsFiniteSet(T)
    BY FS_Subset
  <2>2. CASE T = {}
    <3>1. SumFunctionOnSet(q, T) = 0
      BY <2>1, <2>2, SumUnfolds
    <3> QED
      BY <3>1
  <2>3. CASE T # {}
    <3>1. Taken(T) \in T /\ T \ {Taken(T)} \in SUBSET T /\ T \ {Taken(T)} # T
      BY <2>3, TakenIsMember
    <3>2. SumFunctionOnSet(q, T \ {Taken(T)}) \in Int /\ q[Taken(T)] \in Int
      BY <1>1, <3>1
    <3> QED
      BY <2>1, <2>3, <3>2, SumUnfolds
  <2> QED
    BY <2>2, <2>3
<1>2. SUBSET S \subseteq G
  <2> HIDE DEF G
  <2> QED
    BY <1>1, SubsetInduction
<1> QED
  BY <1>2

\* A new member adds its units, whatever order the sum takes them in.
LEMMA SumAdds ==
    ASSUME NEW D, NEW q \in [D -> Int], NEW S, IsFiniteSet(S), S \subseteq D,
           NEW e \in D, e \notin S
    PROVE  SumFunctionOnSet(q, S \cup {e}) = SumFunctionOnSet(q, S) + q[e]
<1> DEFINE G == {T \in SUBSET S : \A x \in D \ T : SumFunctionOnSet(q, T \cup {x}) = SumFunctionOnSet(q, T) + q[x]}
<1>1. ASSUME NEW T \in SUBSET S, \A U \in SUBSET T : U # T => U \in G PROVE T \in G
  <2> SUFFICES ASSUME NEW x \in D \ T PROVE SumFunctionOnSet(q, T \cup {x}) = SumFunctionOnSet(q, T) + q[x]
    OBVIOUS
  <2>1. IsFiniteSet(T) /\ IsFiniteSet(T \cup {x})
    BY FS_Subset, FS_AddElement
  <2> DEFINE c == Taken(T \cup {x})
             R == T \ {c}
  <2>2. c \in T \cup {x}
    BY TakenIsMember
  <2>3. SumFunctionOnSet(q, T \cup {x}) = q[c] + SumFunctionOnSet(q, (T \cup {x}) \ {c})
    BY <2>1, SumUnfolds
  <2>4. IsFiniteSet(R) /\ R \subseteq D
    BY <2>1, FS_Subset
  <2>5. SumFunctionOnSet(q, T) \in Int /\ SumFunctionOnSet(q, R) \in Int /\ q[x] \in Int /\ q[c] \in Int
    BY <2>1, <2>2, <2>4, SumType
  <2>6. CASE c = x
    <3>1. (T \cup {x}) \ {c} = T
      BY <2>6
    <3>2. SumFunctionOnSet(q, T \cup {x}) = q[x] + SumFunctionOnSet(q, T)
      BY <2>3, <2>6, <3>1
    <3> QED
      BY <2>5, <3>2
  <2>7. CASE c # x
    <3>1. c \in T /\ R \in SUBSET T /\ R # T /\ x \in D \ R /\ c \in D \ R
      BY <2>2, <2>7
    <3>2. (T \cup {x}) \ {c} = R \cup {x} /\ T = R \cup {c}
      BY <2>7, <3>1
    <3>3. R \in G
      BY <1>1, <3>1
    <3>4. /\ SumFunctionOnSet(q, R \cup {x}) = SumFunctionOnSet(q, R) + q[x]
          /\ SumFunctionOnSet(q, R \cup {c}) = SumFunctionOnSet(q, R) + q[c]
      BY <3>1, <3>3
    <3>5. SumFunctionOnSet(q, T \cup {x}) = q[c] + (SumFunctionOnSet(q, R) + q[x])
      BY <2>3, <3>2, <3>4
    <3>6. SumFunctionOnSet(q, T) = SumFunctionOnSet(q, R) + q[c]
      BY <3>2, <3>4
    <3> HIDE DEF c, R
    <3> QED
      BY <2>5, <3>5, <3>6
  <2> QED
    BY <2>6, <2>7
<1>2. SUBSET S \subseteq G
  <2> HIDE DEF G
  <2> QED
    BY <1>1, SubsetInduction
<1> QED
  BY <1>2

\* The sum over a set, a member taken out.
LEMMA SumWithout ==
    ASSUME NEW D, NEW q \in [D -> Int], NEW S, IsFiniteSet(S), S \subseteq D, NEW e \in D
    PROVE  /\ SumFunctionOnSet(q, S \ {e}) \in Int
           /\ SumFunctionOnSet(q, S) =
                SumFunctionOnSet(q, S \ {e}) + IF e \in S THEN q[e] ELSE 0
<1> DEFINE R == S \ {e}
<1>1. IsFiniteSet(R) /\ R \subseteq D /\ e \notin R
  BY FS_Subset
<1>2. SumFunctionOnSet(q, R) \in Int
  <2> HIDE DEF R
  <2> QED
    BY <1>1, SumType
<1>3. SumFunctionOnSet(q, R \cup {e}) = SumFunctionOnSet(q, R) + q[e]
  <2> HIDE DEF R
  <2> QED
    BY <1>1, SumAdds
<1>4. CASE e \in S
  <2>1. R \cup {e} = S
    BY <1>4
  <2> QED
    BY <1>2, <1>3, <1>4, <2>1
<1>5. CASE e \notin S
  <2>1. S = R
    BY <1>5
  <2>2. SumFunctionOnSet(q, S) = SumFunctionOnSet(q, R)
    <3> HIDE DEF R
    <3> QED
      BY <2>1
  <2>3. SumFunctionOnSet(q, S) = SumFunctionOnSet(q, R) + 0
    BY <1>2, <2>2
  <2> QED
    BY <1>2, <1>5, <2>3
<1> QED
  BY <1>4, <1>5

\* Two functions that agree on a set have one sum over it.
LEMMA SumSame ==
    ASSUME NEW q, NEW r, NEW S, IsFiniteSet(S), \A x \in S : q[x] = r[x]
    PROVE  SumFunctionOnSet(q, S) = SumFunctionOnSet(r, S)
<1> DEFINE G == {T \in SUBSET S : SumFunctionOnSet(q, T) = SumFunctionOnSet(r, T)}
<1>1. ASSUME NEW T \in SUBSET S, \A U \in SUBSET T : U # T => U \in G PROVE T \in G
  <2>1. IsFiniteSet(T)
    BY FS_Subset
  <2>2. CASE T = {}
    BY <2>1, <2>2, SumUnfolds
  <2>3. CASE T # {}
    <3>1. Taken(T) \in T /\ T \ {Taken(T)} \in SUBSET T /\ T \ {Taken(T)} # T
      BY <2>3, TakenIsMember
    <3>2. SumFunctionOnSet(q, T \ {Taken(T)}) = SumFunctionOnSet(r, T \ {Taken(T)})
      BY <1>1, <3>1
    <3>3. q[Taken(T)] = r[Taken(T)]
      BY <3>1
    <3> QED
      BY <2>1, <2>3, <3>2, <3>3, SumUnfolds
  <2> QED
    BY <2>2, <2>3
<1>2. SUBSET S \subseteq G
  <2> HIDE DEF G
  <2> QED
    BY <1>1, SubsetInduction
<1> QED
  BY <1>2

\* One member changes, comes or goes: the sum changes by its share.
LEMMA SumChanges ==
    ASSUME NEW D, NEW q \in [D -> Int], NEW r \in [D -> Int], NEW S, NEW T,
           IsFiniteSet(S), S \subseteq D, IsFiniteSet(T), T \subseteq D, NEW e \in D,
           S \ {e} = T \ {e}, \A x \in D : x # e => q[x] = r[x]
    PROVE  /\ SumFunctionOnSet(q, S) \in Int /\ SumFunctionOnSet(r, T) \in Int
           /\ SumFunctionOnSet(r, T) = SumFunctionOnSet(q, S)
                - (IF e \in S THEN q[e] ELSE 0) + (IF e \in T THEN r[e] ELSE 0)
<1> DEFINE R == S \ {e}
<1>1. IsFiniteSet(R) /\ \A x \in R : q[x] = r[x]
  BY FS_Subset
<1>2. SumFunctionOnSet(q, R) = SumFunctionOnSet(r, R)
  <2> HIDE DEF R
  <2> QED
    BY <1>1, SumSame
<1>3. /\ SumFunctionOnSet(q, R) \in Int
      /\ SumFunctionOnSet(q, S) = SumFunctionOnSet(q, R) + IF e \in S THEN q[e] ELSE 0
  BY SumWithout
<1>4. SumFunctionOnSet(r, T) = SumFunctionOnSet(r, R) + IF e \in T THEN r[e] ELSE 0
  <2>1. R = T \ {e}
    OBVIOUS
  <2> QED
    BY <2>1, SumWithout
<1>5. q[e] \in Int /\ r[e] \in Int
  OBVIOUS
<1> HIDE DEF R
<1> QED
  BY <1>2, <1>3, <1>4, <1>5

\* The same over the whole domain.
LEMMA SumValueChanges ==
    ASSUME NEW D, NEW q \in [D -> Int], NEW r \in [D -> Int], IsFiniteSet(D), NEW e \in D,
           \A x \in D : x # e => q[x] = r[x]
    PROVE  /\ SumFunctionOnSet(q, D) \in Int /\ SumFunctionOnSet(r, D) \in Int
           /\ SumFunctionOnSet(r, D) = SumFunctionOnSet(q, D) - q[e] + r[e]
<1>1. PICK S : S = D
  OBVIOUS
<1>2. /\ SumFunctionOnSet(q, S) \in Int /\ SumFunctionOnSet(r, S) \in Int
      /\ SumFunctionOnSet(r, S) = SumFunctionOnSet(q, S)
           - (IF e \in S THEN q[e] ELSE 0) + (IF e \in S THEN r[e] ELSE 0)
  <2>1. IsFiniteSet(S) /\ S \subseteq D /\ S \ {e} = S \ {e}
    BY <1>1
  <2> QED
    BY <2>1, SumChanges
<1> QED
  BY <1>1, <1>2

\* A sum of noughts is one.
LEMMA SumOfNoughts ==
    ASSUME NEW q, NEW S, IsFiniteSet(S), \A x \in S : q[x] = 0
    PROVE  SumFunctionOnSet(q, S) = 0
<1> DEFINE G == {T \in SUBSET S : SumFunctionOnSet(q, T) = 0}
<1>1. ASSUME NEW T \in SUBSET S, \A U \in SUBSET T : U # T => U \in G PROVE T \in G
  <2>1. IsFiniteSet(T)
    BY FS_Subset
  <2>2. CASE T = {}
    BY <2>1, <2>2, SumUnfolds
  <2>3. CASE T # {}
    <3>1. Taken(T) \in T /\ T \ {Taken(T)} \in SUBSET T /\ T \ {Taken(T)} # T
      BY <2>3, TakenIsMember
    <3>2. SumFunctionOnSet(q, T \ {Taken(T)}) = 0
      BY <1>1, <3>1
    <3>3. q[Taken(T)] = 0
      BY <3>1
    <3> QED
      BY <2>1, <2>3, <3>2, <3>3, SumUnfolds
  <2> QED
    BY <2>2, <2>3
<1>2. SUBSET S \subseteq G
  <2> HIDE DEF G
  <2> QED
    BY <1>1, SubsetInduction
<1> QED
  BY <1>2
=============================================================================
