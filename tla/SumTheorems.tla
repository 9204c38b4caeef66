------------------------------ MODULE SumTheorems ------------------------------
(***************************************************************************)
(* Sums over finite sets.  The properties write a sum as                   *)
(* MapThenSumSet(LAMBDA x : ..., S), whose definition takes the elements   *)
(* of S in an order chosen once and for all; what a proof needs is that    *)
(* the order does not matter, how a sum changes with its set and with its  *)
(* terms, and that a sum of nothing is 0.                                  *)
(***************************************************************************)
EXTENDS Integers, FiniteSetsExt, FiniteSetTheorems, WellFoundedInduction, TLAPS

Chosen(s) == CHOOSE x \in s : TRUE

(* h gives every subset of S its sum, by the recursion of MapThenFoldSet. *)
Sums(h, f, S) ==
  h = [s \in SUBSET S |-> IF s = {} THEN 0 ELSE f[Chosen(s)] + h[s \ {Chosen(s)}]]

Sum(f, S) == (CHOOSE h : Sums(h, f, S))[S]

LEMMA ChosenIsIn == ASSUME NEW s, s # {} PROVE Chosen(s) \in s
BY DEF Chosen

(* A non-empty family of finite sets has a member of which no proper subset is in
   the family. *)
LEMMA LeastSet ==
  ASSUME NEW S, IsFiniteSet(S), NEW F \in SUBSET SUBSET S, F # {}
  PROVE  \E T \in F : \A U \in F : U \subseteq T => U = T
<1> DEFINE R == StrictSubsetOrdering(S)
<1>1. IsWellFoundedOn(R, FiniteSubsetsOf(S))
  BY FS_StrictSubsetOrderingWellFounded
<1>2. F \subseteq FiniteSubsetsOf(S)
  BY FS_Subset DEF FiniteSubsetsOf
<1>3. PICK T \in F : \A U \in F : ~ (<<U, T>> \in R)
  <2> HIDE DEF R
  <2> QED
    BY <1>1, <1>2, WFMin
<1>4. \A U \in F : U \subseteq T /\ U # T => <<U, T>> \in R
  BY DEF StrictSubsetOrdering
<1>5. ASSUME NEW U \in F, U \subseteq T, U # T PROVE FALSE
  <2> HIDE DEF R
  <2> QED
    BY <1>3, <1>4, <1>5
<1> QED
  BY <1>5

LEMMA SumsAt ==
  ASSUME NEW h, NEW f, NEW S, Sums(h, f, S), NEW s \in SUBSET S
  PROVE  h[s] = IF s = {} THEN 0 ELSE f[Chosen(s)] + h[s \ {Chosen(s)}]
BY DEF Sums

(* Two such functions agree where the terms do. *)
LEMMA SumsAgree ==
  ASSUME NEW f, NEW g, NEW S, NEW T, NEW h, NEW k, Sums(h, f, S), Sums(k, g, T),
         NEW U \in SUBSET S, U \in SUBSET T, IsFiniteSet(U), \A x \in U : f[x] = g[x]
  PROVE  h[U] = k[U]
<1> DEFINE F == {s \in SUBSET U : h[s] # k[s]}
<1>1. SUFFICES ASSUME F # {} PROVE FALSE
  OBVIOUS
<1>2. PICK s \in F : \A r \in F : r \subseteq s => r = s
  <2>1. F \in SUBSET SUBSET U
    OBVIOUS
  <2> HIDE DEF F
  <2> QED
    BY <1>1, <2>1, LeastSet
<1>3. /\ h[s] = IF s = {} THEN 0 ELSE f[Chosen(s)] + h[s \ {Chosen(s)}]
      /\ k[s] = IF s = {} THEN 0 ELSE g[Chosen(s)] + k[s \ {Chosen(s)}]
  <2>1. s \in SUBSET S /\ s \in SUBSET T
    OBVIOUS
  <2> QED
    BY <2>1, SumsAt
<1>4. s # {} => Chosen(s) \in s /\ f[Chosen(s)] = g[Chosen(s)]
  BY ChosenIsIn
<1>5. s # {} => h[s \ {Chosen(s)}] = k[s \ {Chosen(s)}]
  BY <1>2, <1>4
<1> QED
  BY <1>3, <1>4, <1>5

(* There is one for every finite set. *)
LEMMA SumsExist ==
  ASSUME NEW f, NEW S, IsFiniteSet(S)
  PROVE  \E h : Sums(h, f, S)
<1> DEFINE F == {s \in SUBSET S : \A h : ~ Sums(h, f, s)}
<1>1. SUFFICES ASSUME F # {} PROVE FALSE
  OBVIOUS
<1>2. PICK s \in F : \A r \in F : r \subseteq s => r = s
  <2>1. F \in SUBSET SUBSET S
    OBVIOUS
  <2> HIDE DEF F
  <2> QED
    BY <1>1, <2>1, LeastSet
<1> DEFINE of(r) == CHOOSE h : Sums(h, f, r)
           c == Chosen(s)
           value(r) == IF r = s THEN (IF s = {} THEN 0 ELSE f[c] + of(s \ {c})[s \ {c}])
                       ELSE of(r)[r]
           h == [r \in SUBSET s |-> value(r)]
<1>3. ASSUME NEW r \in SUBSET s, r # s PROVE Sums(of(r), f, r)
  <2>1. \E k : Sums(k, f, r)
    BY <1>2, <1>3
  <2> QED
    BY <2>1
<1>4. ASSUME NEW r \in SUBSET s, NEW q \in SUBSET r, r # s
      PROVE  of(r)[q] = of(q)[q]
  <2>1. Sums(of(r), f, r) /\ Sums(of(q), f, q)
    BY <1>3, <1>4
  <2>2. IsFiniteSet(q)
    BY FS_Subset
  <2> HIDE DEF of
  <2> QED
    BY <2>1, <2>2, SumsAgree
<1>5. ASSUME NEW r \in SUBSET s
      PROVE  value(r) = IF r = {} THEN 0 ELSE f[Chosen(r)] + value(r \ {Chosen(r)})
  <2>1. r # {} => Chosen(r) \in r /\ r \ {Chosen(r)} # s /\ r \ {Chosen(r)} \in SUBSET r
    BY ChosenIsIn
  <2>2. CASE r = s
    BY <2>1, <2>2
  <2>3. CASE r # s
    <3>1. of(r)[r] = IF r = {} THEN 0 ELSE f[Chosen(r)] + of(r)[r \ {Chosen(r)}]
      <4>1. Sums(of(r), f, r) /\ r \in SUBSET r
        BY <1>3, <2>3
      <4> HIDE DEF of
      <4> QED
        BY <4>1, SumsAt
    <3>2. r # {} => of(r)[r \ {Chosen(r)}] = of(r \ {Chosen(r)})[r \ {Chosen(r)}]
      BY <1>4, <2>1, <2>3
    <3> HIDE DEF of
    <3> QED
      BY <2>1, <2>3, <3>1, <3>2
  <2> QED
    BY <2>2, <2>3
<1>6. Sums(h, f, s)
  <2>1. \A r \in SUBSET s : h[r] = value(r) /\ (r \ {Chosen(r)} \in SUBSET s)
    OBVIOUS
  <2>2. h = [r \in SUBSET s |-> h[r]]
    OBVIOUS
  <2> HIDE DEF value, h
  <2>3. \A r \in SUBSET s :
          h[r] = IF r = {} THEN 0 ELSE f[Chosen(r)] + h[r \ {Chosen(r)}]
    BY <1>5, <2>1
  <2> QED
    BY <2>2, <2>3 DEF Sums
<1> QED
  BY <1>2, <1>6

LEMMA SumSums ==
  ASSUME NEW f, NEW S, IsFiniteSet(S)
  PROVE  Sums(CHOOSE h : Sums(h, f, S), f, S)
BY SumsExist

(* Sums of equal terms are equal. *)
LEMMA SumEqual ==
  ASSUME NEW f, NEW g, NEW S, IsFiniteSet(S), \A x \in S : f[x] = g[x]
  PROVE  Sum(f, S) = Sum(g, S)
<1>1. Sums(CHOOSE h : Sums(h, f, S), f, S) /\ Sums(CHOOSE h : Sums(h, g, S), g, S)
  BY SumSums
<1>2. S \in SUBSET S
  OBVIOUS
<1> QED
  BY <1>1, <1>2, SumsAgree DEF Sum

LEMMA SumStep ==
  ASSUME NEW f, NEW S, IsFiniteSet(S)
  PROVE  Sum(f, S) = IF S = {} THEN 0 ELSE f[Chosen(S)] + Sum(f, S \ {Chosen(S)})
<1> DEFINE of(r) == CHOOSE h : Sums(h, f, r)
           T == S \ {Chosen(S)}
<1>1. IsFiniteSet(T) /\ T \in SUBSET S /\ T \in SUBSET T /\ S \in SUBSET S
  BY FS_Subset
<1>2. Sums(of(S), f, S) /\ Sums(of(T), f, T)
  <2> HIDE DEF T
  <2> QED
    BY <1>1, SumSums
<1> HIDE DEF of
<1>3. of(S)[S] = IF S = {} THEN 0 ELSE f[Chosen(S)] + of(S)[T]
  BY <1>1, <1>2, SumsAt
<1>4. of(S)[T] = of(T)[T]
  <2> HIDE DEF T
  <2> QED
    BY <1>1, <1>2, SumsAgree
<1> QED
  BY <1>3, <1>4 DEF Sum, of

LEMMA SumOfNothing == ASSUME NEW f PROVE Sum(f, {}) = 0
BY SumStep, FS_EmptySet

LEMMA SumType ==
  ASSUME NEW S, IsFiniteSet(S), NEW f, \A x \in S : f[x] \in Int
  PROVE  Sum(f, S) \in Int
<1> DEFINE F == {s \in SUBSET S : Sum(f, s) \notin Int}
<1>1. SUFFICES ASSUME F # {} PROVE FALSE
  OBVIOUS
<1>2. PICK s \in F : \A r \in F : r \subseteq s => r = s
  <2>1. F \in SUBSET SUBSET S
    OBVIOUS
  <2> HIDE DEF F
  <2> QED
    BY <1>1, <2>1, LeastSet
<1>3. Sum(f, s) = IF s = {} THEN 0 ELSE f[Chosen(s)] + Sum(f, s \ {Chosen(s)})
  BY FS_Subset, SumStep
<1>4. s # {} => Chosen(s) \in s
  BY ChosenIsIn
<1>5. s # {} => Sum(f, s \ {Chosen(s)}) \in Int
  BY <1>2, <1>4
<1> QED
  BY <1>3, <1>4, <1>5

(* Any element may be taken first. *)
LEMMA SumSplit ==
  ASSUME NEW S, IsFiniteSet(S), NEW f, \A x \in S : f[x] \in Int, NEW a \in S
  PROVE  Sum(f, S) = f[a] + Sum(f, S \ {a})
<1> DEFINE splits(s) == \A x \in s : Sum(f, s) = f[x] + Sum(f, s \ {x})
           F == {s \in SUBSET S : ~ splits(s)}
<1>1. SUFFICES ASSUME F # {} PROVE FALSE
  OBVIOUS
<1>2. PICK s \in F : \A r \in F : r \subseteq s => r = s
  <2>1. F \in SUBSET SUBSET S
    OBVIOUS
  <2> HIDE DEF F
  <2> QED
    BY <1>1, <2>1, LeastSet
<1> DEFINE c == Chosen(s)
<1>3. PICK x \in s : Sum(f, s) # f[x] + Sum(f, s \ {x})
  OBVIOUS
<1>4. c \in s /\ s \in SUBSET S
  BY ChosenIsIn
<1>5. \A r \in SUBSET s : IsFiniteSet(r) /\ Sum(f, r) \in Int /\ (r # s => splits(r))
  <2>1. \A r \in SUBSET s : IsFiniteSet(r) /\ \A y \in r : f[y] \in Int
    BY FS_Subset
  <2>2. \A r \in SUBSET s : Sum(f, r) \in Int
    BY <2>1, SumType
  <2> QED
    BY <1>2, <2>1, <2>2
<1>6. Sum(f, s) = f[c] + Sum(f, s \ {c})
  BY <1>4, <1>5, SumStep
<1>7. c # x
  BY <1>3, <1>6
<1>8. Sum(f, s \ {c}) = f[x] + Sum(f, (s \ {c}) \ {x})
  <2>1. s \ {c} \in SUBSET s /\ s \ {c} # s /\ x \in s \ {c}
    BY <1>4, <1>7
  <2> QED
    BY <1>5, <2>1
<1>9. Sum(f, s \ {x}) = f[c] + Sum(f, (s \ {x}) \ {c})
  <2>1. s \ {x} \in SUBSET s /\ s \ {x} # s /\ c \in s \ {x}
    BY <1>4, <1>7
  <2> QED
    BY <1>5, <2>1
<1>10. (s \ {c}) \ {x} = (s \ {x}) \ {c} /\ (s \ {c}) \ {x} \in SUBSET s
  OBVIOUS
<1>11. f[c] \in Int /\ f[x] \in Int /\ Sum(f, (s \ {c}) \ {x}) \in Int
  BY <1>4, <1>5, <1>10
<1> DEFINE rest == Sum(f, (s \ {c}) \ {x})
<1>12. Sum(f, s) = f[c] + (f[x] + rest) /\ Sum(f, s \ {x}) = f[c] + rest
  BY <1>6, <1>8, <1>9, <1>10
<1> HIDE DEF rest, c
<1>13. f[c] + (f[x] + rest) = f[x] + (f[c] + rest)
  BY <1>11 DEF rest
<1> QED
  BY <1>3, <1>12, <1>13

(* A term more, a term less, and one term changed. *)
LEMMA SumWith ==
  ASSUME NEW S, IsFiniteSet(S), NEW f, \A x \in S : f[x] \in Int, NEW a, a \notin S, f[a] \in Int
  PROVE  Sum(f, S \cup {a}) = f[a] + Sum(f, S)
<1>1. IsFiniteSet(S \cup {a}) /\ (\A x \in S \cup {a} : f[x] \in Int) /\ a \in S \cup {a}
      /\ (S \cup {a}) \ {a} = S
  BY FS_AddElement
<1> QED
  BY <1>1, SumSplit

LEMMA SumChange ==
  ASSUME NEW S, IsFiniteSet(S), NEW f, NEW g, NEW a \in S, g[a] \in Int,
         \A x \in S : f[x] \in Int, \A x \in S \ {a} : g[x] = f[x]
  PROVE  Sum(g, S) = Sum(f, S) - f[a] + g[a]
<1>1. \A x \in S : g[x] \in Int
  OBVIOUS
<1>2. Sum(f, S) = f[a] + Sum(f, S \ {a}) /\ Sum(g, S) = g[a] + Sum(g, S \ {a})
  BY <1>1, SumSplit
<1>3. IsFiniteSet(S \ {a}) /\ \A x \in S \ {a} : f[x] \in Int
  BY FS_Subset
<1>4. Sum(g, S \ {a}) = Sum(f, S \ {a}) /\ Sum(f, S \ {a}) \in Int
  BY <1>3, SumEqual, SumType
<1> QED
  BY <1>1, <1>2, <1>4

LEMMA SumOfZeros ==
  ASSUME NEW S, IsFiniteSet(S), NEW f, \A x \in S : f[x] = 0
  PROVE  Sum(f, S) = 0
<1> DEFINE F == {s \in SUBSET S : Sum(f, s) # 0}
<1>1. SUFFICES ASSUME F # {} PROVE FALSE
  OBVIOUS
<1>2. PICK s \in F : \A r \in F : r \subseteq s => r = s
  <2>1. F \in SUBSET SUBSET S
    OBVIOUS
  <2> HIDE DEF F
  <2> QED
    BY <1>1, <2>1, LeastSet
<1>3. Sum(f, s) = IF s = {} THEN 0 ELSE f[Chosen(s)] + Sum(f, s \ {Chosen(s)})
  BY FS_Subset, SumStep
<1>4. s # {} => Chosen(s) \in s
  BY ChosenIsIn
<1>5. s # {} => Sum(f, s \ {Chosen(s)}) = 0
  BY <1>2, <1>4
<1> QED
  BY <1>3, <1>4, <1>5

LEMMA SumOfPositives ==
  ASSUME NEW S, IsFiniteSet(S), S # {}, NEW f, \A x \in S : f[x] \in Int /\ f[x] > 0
  PROVE  Sum(f, S) > 0
<1> DEFINE F == {s \in SUBSET S : s # {} /\ ~ (Sum(f, s) > 0)}
<1>1. SUFFICES ASSUME F # {} PROVE FALSE
  OBVIOUS
<1>2. PICK s \in F : \A r \in F : r \subseteq s => r = s
  <2>1. F \in SUBSET SUBSET S
    OBVIOUS
  <2> HIDE DEF F
  <2> QED
    BY <1>1, <2>1, LeastSet
<1> DEFINE rest == s \ {Chosen(s)}
<1>3. Chosen(s) \in s /\ rest \in SUBSET S /\ rest # s
  BY ChosenIsIn
<1>4. Sum(f, s) = f[Chosen(s)] + Sum(f, rest)
  BY FS_Subset, SumStep
<1>5. rest # {} => Sum(f, rest) > 0
  BY <1>2, <1>3
<1>6. rest = {} => Sum(f, rest) = 0
  BY SumOfNothing
<1>7. Sum(f, rest) \in Int
  <2>1. IsFiniteSet(rest) /\ \A x \in rest : f[x] \in Int
    BY <1>3, FS_Subset
  <2> HIDE DEF rest
  <2> QED
    BY <2>1, SumType
<1> HIDE DEF rest
<1> QED
  BY <1>3, <1>4, <1>5, <1>6, <1>7

(* A sum of multiples, and of sums of two terms. *)
LEMMA SumOfMultiples ==
  ASSUME NEW S, IsFiniteSet(S), NEW f, NEW g, NEW k \in Int,
         \A x \in S : f[x] \in Int /\ g[x] = k * f[x]
  PROVE  Sum(g, S) = k * Sum(f, S)
<1> DEFINE F == {s \in SUBSET S : Sum(g, s) # k * Sum(f, s)}
<1>1. SUFFICES ASSUME F # {} PROVE FALSE
  OBVIOUS
<1>2. PICK s \in F : \A r \in F : r \subseteq s => r = s
  <2>1. F \in SUBSET SUBSET S
    OBVIOUS
  <2> HIDE DEF F
  <2> QED
    BY <1>1, <2>1, LeastSet
<1> DEFINE c == Chosen(s)
           rest == s \ {c}
<1>3. s # {}
  <2>1. Sum(f, {}) = 0 /\ Sum(g, {}) = 0 /\ k * 0 = 0
    BY SumOfNothing
  <2> QED
    BY <2>1
<1>4. c \in s /\ rest \in SUBSET S /\ rest \in SUBSET s /\ rest # s /\ IsFiniteSet(s) /\ IsFiniteSet(rest)
  BY <1>3, ChosenIsIn, FS_Subset
<1>5. Sum(f, s) = f[c] + Sum(f, rest) /\ Sum(g, s) = g[c] + Sum(g, rest)
  BY <1>3, <1>4, SumStep
<1>6. Sum(g, rest) = k * Sum(f, rest)
  BY <1>2, <1>4
<1>7. Sum(f, rest) \in Int /\ f[c] \in Int /\ g[c] = k * f[c]
  BY <1>4, SumType
<1> HIDE DEF rest, c
<1>8. ASSUME NEW a \in Int, NEW b \in Int PROVE k * a + k * b = k * (a + b)
  OBVIOUS
<1> QED
  BY <1>5, <1>6, <1>7, <1>8

LEMMA SumOfSums ==
  ASSUME NEW S, IsFiniteSet(S), NEW f, NEW g, NEW h,
         \A x \in S : f[x] \in Int /\ g[x] \in Int /\ h[x] = f[x] + g[x]
  PROVE  Sum(h, S) = Sum(f, S) + Sum(g, S)
<1> DEFINE F == {s \in SUBSET S : Sum(h, s) # Sum(f, s) + Sum(g, s)}
<1>1. SUFFICES ASSUME F # {} PROVE FALSE
  OBVIOUS
<1>2. PICK s \in F : \A r \in F : r \subseteq s => r = s
  <2>1. F \in SUBSET SUBSET S
    OBVIOUS
  <2> HIDE DEF F
  <2> QED
    BY <1>1, <2>1, LeastSet
<1> DEFINE c == Chosen(s)
           rest == s \ {c}
<1>3. s # {}
  <2>1. s = {} => Sum(f, s) = 0 /\ Sum(g, s) = 0 /\ Sum(h, s) = 0
    BY SumOfNothing
  <2>2. Sum(h, s) # Sum(f, s) + Sum(g, s)
    OBVIOUS
  <2> HIDE DEF F
  <2> QED
    BY <2>1, <2>2
<1>4. c \in s /\ rest \in SUBSET S /\ rest \in SUBSET s /\ rest # s /\ IsFiniteSet(s) /\ IsFiniteSet(rest)
  BY <1>3, ChosenIsIn, FS_Subset
<1>5. /\ Sum(f, s) = f[c] + Sum(f, rest) /\ Sum(g, s) = g[c] + Sum(g, rest)
      /\ Sum(h, s) = h[c] + Sum(h, rest)
  BY <1>3, <1>4, SumStep
<1>6. Sum(h, rest) = Sum(f, rest) + Sum(g, rest)
  BY <1>2, <1>4
<1>7. /\ Sum(f, rest) \in Int /\ Sum(g, rest) \in Int
      /\ f[c] \in Int /\ g[c] \in Int /\ h[c] = f[c] + g[c]
  BY <1>4, SumType
<1> HIDE DEF rest, c
<1> QED
  BY <1>5, <1>6, <1>7

(* Terms that are 0 may be left out. *)
LEMMA SumWithoutZeros ==
  ASSUME NEW T, IsFiniteSet(T), NEW S \in SUBSET T, NEW f,
         \A x \in S : f[x] \in Int, \A x \in T \ S : f[x] = 0
  PROVE  Sum(f, T) = Sum(f, S)
<1> DEFINE F == {s \in SUBSET (T \ S) : Sum(f, S \cup s) # Sum(f, S)}
<1>1. SUFFICES ASSUME F # {} PROVE FALSE
  <2>1. T \ S \notin F => Sum(f, S \cup (T \ S)) = Sum(f, S)
    OBVIOUS
  <2>2. S \cup (T \ S) = T
    OBVIOUS
  <2> HIDE DEF F
  <2> QED
    BY <2>1, <2>2
<1>2. PICK s \in F : \A r \in F : r \subseteq s => r = s
  <2>1. F \in SUBSET SUBSET (T \ S) /\ IsFiniteSet(T \ S)
    BY FS_Subset
  <2> HIDE DEF F
  <2> QED
    BY <1>1, <2>1, LeastSet
<1>3. s # {}
  <2>1. S \cup {} = S
    OBVIOUS
  <2> QED
    BY <2>1
<1>4. PICK c \in s : TRUE
  BY <1>3
<1> DEFINE rest == S \cup (s \ {c})
<1>5. Sum(f, rest) = Sum(f, S)
  <2>1. s \ {c} \in SUBSET s /\ s \ {c} # s /\ s \ {c} \in SUBSET (T \ S)
    OBVIOUS
  <2>2. s \ {c} \notin F
    <3> HIDE DEF F
    <3> QED
      BY <1>2, <2>1
  <2> QED
    BY <2>1, <2>2
<1>6. S \cup s = rest \cup {c} /\ c \notin rest /\ rest \in SUBSET T /\ f[c] = 0
  OBVIOUS
<1>7. IsFiniteSet(rest) /\ \A x \in rest : f[x] \in Int
  BY <1>6, FS_Subset
<1>8. Sum(f, S \cup s) # Sum(f, S)
  OBVIOUS
<1> HIDE DEF rest, F
<1>9. Sum(f, rest \cup {c}) = f[c] + Sum(f, rest) /\ Sum(f, rest) \in Int
  BY <1>6, <1>7, SumWith, SumType
<1>10. Sum(f, rest \cup {c}) = Sum(f, S)
  <2>1. f[c] = 0
    BY <1>6
  <2> QED
    BY <1>5, <1>9, <2>1
<1>11. S \cup s = rest \cup {c}
  BY <1>6
<1>12. Sum(f, S \cup s) = Sum(f, rest \cup {c})
  BY ONLY <1>11
<1> QED
  BY <1>8, <1>10, <1>12

(* A table may be summed by rows or by columns. *)
LEMMA SumByColumns ==
  ASSUME NEW S, IsFiniteSet(S), NEW D, IsFiniteSet(D), NEW f,
         \A s \in S : \A d \in D : f[s][d] \in Int
  PROVE  Sum([s \in S |-> Sum(f[s], D)], S) = Sum([d \in D |-> Sum([s \in S |-> f[s][d]], S)], D)
<1> DEFINE byRow == [s \in S |-> Sum(f[s], D)]
           column == [d \in D |-> [s \in S |-> f[s][d]]]
           upTo(r) == [d \in D |-> Sum(column[d], r)]
           F == {r \in SUBSET S : Sum(byRow, r) # Sum(upTo(r), D)}
<1>1. S \notin F => Sum(byRow, S) = Sum([d \in D |-> Sum([s \in S |-> f[s][d]], S)], D)
  <2>1. S \notin F => Sum(byRow, S) = Sum(upTo(S), D)
    OBVIOUS
  <2>2. upTo(S) = [d \in D |-> Sum([s \in S |-> f[s][d]], S)]
    OBVIOUS
  <2> QED
    BY <2>1, <2>2
<1>2. SUFFICES ASSUME F # {} PROVE FALSE
  BY <1>1
<1>3. PICK r \in F : \A q \in F : q \subseteq r => q = r
  <2>1. F \in SUBSET SUBSET S
    OBVIOUS
  <2> HIDE DEF F
  <2> QED
    BY <1>2, <2>1, LeastSet
<1>4. \A s \in S : byRow[s] = Sum(f[s], D) /\ byRow[s] \in Int
  BY SumType
<1>5. \A d \in D : \A s \in S : column[d][s] = f[s][d] /\ column[d][s] \in Int
  OBVIOUS
<1>6. ASSUME NEW q \in SUBSET S
      PROVE  IsFiniteSet(q) /\ \A d \in D : upTo(q)[d] = Sum(column[d], q) /\ upTo(q)[d] \in Int
  <2>1. IsFiniteSet(q) /\ \A d \in D : upTo(q)[d] = Sum(column[d], q)
    BY FS_Subset
  <2> HIDE DEF column
  <2> QED
    BY <1>5, <2>1, SumType
<1>7. r # {}
  <2>1. CASE r = {}
    <3>1. Sum(byRow, r) = 0
      BY <2>1, SumOfNothing
    <3>2. \A d \in D : upTo(r)[d] = 0
      BY <2>1, SumOfNothing
    <3>3. Sum(upTo(r), D) = 0
      <4> HIDE DEF upTo
      <4> QED
        BY <3>2, SumOfZeros
    <3> QED
      BY <3>1, <3>3
  <2> QED
    BY <2>1
<1> DEFINE c == Chosen(r)
           rest == r \ {c}
<1>8. c \in r /\ c \in S /\ rest \in SUBSET S /\ rest \in SUBSET r /\ rest # r
  BY <1>7, ChosenIsIn
<1>9. Sum(byRow, r) = byRow[c] + Sum(byRow, rest)
  <2> HIDE DEF byRow
  <2> QED
    BY <1>6, <1>7, SumStep
<1>10. Sum(byRow, rest) = Sum(upTo(rest), D)
  BY <1>3, <1>8
<1>11. \A d \in D : f[c][d] \in Int /\ upTo(rest)[d] \in Int /\ upTo(r)[d] = f[c][d] + upTo(rest)[d]
  <2>1. \A d \in D : Sum(column[d], r) = column[d][c] + Sum(column[d], rest)
    <3> HIDE DEF column
    <3> QED
      BY <1>6, <1>7, SumStep
  <2> HIDE DEF upTo, column, rest, c
  <2> QED
    BY <1>5, <1>6, <1>8, <2>1
<1>12. Sum(upTo(r), D) = Sum(f[c], D) + Sum(upTo(rest), D)
  <2> HIDE DEF upTo, rest, c
  <2> QED
    BY <1>11, SumOfSums
<1>13. Sum(byRow, r) # Sum(upTo(r), D)
  OBVIOUS
<1> HIDE DEF F, byRow, upTo, column, rest, c
<1> QED
  BY <1>4, <1>8, <1>9, <1>10, <1>12, <1>13

(* Summing over other names for the same terms. *)
LEMMA SumReindexed ==
  ASSUME NEW B, IsFiniteSet(B), NEW q, NEW f, NEW g,
         \A x \in B : g[x] = f[q[x]] /\ f[q[x]] \in Int,
         \A x, y \in B : q[x] = q[y] => x = y
  PROVE  Sum(g, B) = Sum(f, {q[x] : x \in B})
<1> DEFINE image(s) == {q[x] : x \in s}
           F == {s \in SUBSET B : Sum(g, s) # Sum(f, image(s))}
<1>1. SUFFICES ASSUME F # {} PROVE FALSE
  OBVIOUS
<1>2. PICK s \in F : \A r \in F : r \subseteq s => r = s
  <2>1. F \in SUBSET SUBSET B
    OBVIOUS
  <2> HIDE DEF F
  <2> QED
    BY <1>1, <2>1, LeastSet
<1> DEFINE c == Chosen(s)
           rest == s \ {c}
<1>3. s # {}
  <2>1. Sum(g, s) # Sum(f, image(s))
    OBVIOUS
  <2>2. image({}) = {}
    OBVIOUS
  <2>3. Sum(g, {}) = 0 /\ Sum(f, {}) = 0
    BY SumOfNothing
  <2> HIDE DEF F, image
  <2> QED
    BY <2>1, <2>2, <2>3
<1>4. c \in s /\ c \in B /\ s \in SUBSET B /\ rest \in SUBSET B /\ rest \in SUBSET s /\ rest # s
  BY <1>3, ChosenIsIn
<1>5. Sum(g, s) = g[c] + Sum(g, rest)
  BY <1>3, <1>4, FS_Subset, SumStep
<1>6. Sum(g, rest) = Sum(f, image(rest))
  BY <1>2, <1>4
<1>7. image(s) = image(rest) \cup {q[c]} /\ q[c] \notin image(rest)
  <2> HIDE DEF c
  <2> QED
    BY <1>4
<1>8. IsFiniteSet(image(rest)) /\ (\A y \in image(rest) : f[y] \in Int) /\ f[q[c]] \in Int
  <2>1. [x \in rest |-> q[x]] \in Surjection(rest, image(rest))
    BY DEF Surjection
  <2>2. IsFiniteSet(rest)
    BY <1>4, FS_Subset
  <2>3. IsFiniteSet(image(rest))
    <3> HIDE DEF image, rest
    <3> QED
      BY <2>1, <2>2, FS_Surjection
  <2> QED
    BY <1>4, <2>3
<1>9. Sum(f, image(rest) \cup {q[c]}) = f[q[c]] + Sum(f, image(rest))
  <2> HIDE DEF image, rest, c
  <2> QED
    BY <1>7, <1>8, SumWith
<1>10. Sum(g, s) # Sum(f, image(s)) /\ g[c] = f[q[c]]
  BY <1>4
<1> HIDE DEF F, image, rest, c
<1> QED
  BY <1>5, <1>6, <1>7, <1>9, <1>10

(* A finite set of integers has a largest and a smallest member. *)
LEMMA Largest ==
  ASSUME NEW S, S \subseteq Int, IsFiniteSet(S), S # {}
  PROVE  Max(S) \in S /\ \A y \in S : y <= Max(S)
<1> DEFINE from(x) == {y \in S : x <= y}
           F == {from(x) : x \in S}
<1>1. PICK T \in F : \A U \in F : U \subseteq T => U = T
  <2>1. F \in SUBSET SUBSET S
    OBVIOUS
  <2>2. F # {}
    OBVIOUS
  <2>3. IsFiniteSet(S)
    OBVIOUS
  <2> HIDE DEF F, from
  <2> QED
    BY ONLY <2>1, <2>2, <2>3, LeastSet
<1>2. PICK x \in S : T = from(x)
  OBVIOUS
<1>3. ASSUME NEW y \in S PROVE y <= x
  <2>1. CASE x <= y
    <3>1. from(y) \in F /\ x \in T
      BY <1>2
    <3>0. from(y) \subseteq T
      <4>1. ASSUME NEW z \in S, y <= z PROVE x <= z
        <5>1. x \in Int /\ y \in Int /\ z \in Int
          OBVIOUS
        <5> QED
          BY <2>1, <4>1, <5>1
      <4> QED
        BY <1>2, <4>1
    <3>2. x \in from(y)
      <4>1. from(y) = T
        <5> HIDE DEF F, from
        <5> QED
          BY <1>1, <3>0, <3>1
      <4> QED
        BY <3>1, <4>1
    <3> QED
      BY <3>2
  <2>2. CASE ~ (x <= y)
    BY <2>2
  <2> QED
    BY <2>1, <2>2
<1>4. \E z \in S : \A y \in S : z >= y
  BY <1>3
<1>5. Max(S) \in S /\ \A y \in S : Max(S) >= y
  BY <1>4 DEF Max
<1> QED
  BY <1>5

LEMMA Smallest ==
  ASSUME NEW S, S \subseteq Int, IsFiniteSet(S), S # {}
  PROVE  Min(S) \in S /\ \A y \in S : Min(S) <= y
<1> DEFINE to(x) == {y \in S : y <= x}
           F == {to(x) : x \in S}
<1>1. PICK T \in F : \A U \in F : U \subseteq T => U = T
  <2>1. F \in SUBSET SUBSET S
    OBVIOUS
  <2>2. F # {}
    OBVIOUS
  <2>3. IsFiniteSet(S)
    OBVIOUS
  <2> HIDE DEF F, to
  <2> QED
    BY ONLY <2>1, <2>2, <2>3, LeastSet
<1>2. PICK x \in S : T = to(x)
  OBVIOUS
<1>3. ASSUME NEW y \in S PROVE x <= y
  <2>1. CASE y <= x
    <3>1. to(y) \in F /\ x \in T
      BY <1>2
    <3>0. to(y) \subseteq T
      <4>1. ASSUME NEW z \in S, z <= y PROVE z <= x
        <5>1. x \in Int /\ y \in Int /\ z \in Int
          OBVIOUS
        <5> QED
          BY <2>1, <4>1, <5>1
      <4> QED
        BY <1>2, <4>1
    <3>2. x \in to(y)
      <4>1. to(y) = T
        <5> HIDE DEF F, to
        <5> QED
          BY <1>1, <3>0, <3>1
      <4> QED
        BY <3>1, <4>1
    <3> QED
      BY <3>2
  <2>2. CASE ~ (y <= x)
    BY <2>2
  <2> QED
    BY <2>1, <2>2
<1>4. \E z \in S : \A y \in S : z <= y
  BY <1>3
<1> QED
  BY <1>4 DEF Min

(* The smaller and the larger of two. *)
LEMMA Pair ==
  ASSUME NEW a \in Int, NEW b \in Int
  PROVE  /\ Min({a, b}) \in {a, b} /\ Min({a, b}) <= a /\ Min({a, b}) <= b
         /\ Max({a, b}) \in {a, b} /\ Max({a, b}) >= a /\ Max({a, b}) >= b
<1>1. \E x \in {a, b} : \A y \in {a, b} : x <= y
  OBVIOUS
<1>2. \E x \in {a, b} : \A y \in {a, b} : x >= y
  OBVIOUS
<1>3. Min({a, b}) \in {a, b} /\ \A y \in {a, b} : Min({a, b}) <= y
  BY <1>1 DEF Min
<1>4. Max({a, b}) \in {a, b} /\ \A y \in {a, b} : Max({a, b}) >= y
  BY <1>2 DEF Max
<1> QED
  BY <1>3, <1>4
===============================================================================
