------------------------------- MODULE SumLemmas -------------------------------
(***************************************************************************)
(* Facts about SumFunctionOnSet(f, S), the sum of f[x] over the x of a     *)
(* finite set S.  They are inductions over S.  The induction theorems of   *)
(* the library have an operator for parameter; here the subsets of S of    *)
(* which a fact holds are a set, and a smallest subset outside that set    *)
(* exists because strict inclusion of finite sets is well-founded.         *)
(***************************************************************************)
EXTENDS Integers, FiniteSetTheorems, TLAPS

-----------------------------------------------------------------------------
(* Induction over a finite set *)

LEMMA SmallestSubset ==
    ASSUME NEW S, IsFiniteSet(S), NEW F, F \subseteq SUBSET S, F # {}
    PROVE  \E T \in F : \A U \in F : ~(U \subseteq T /\ U # T)
<1>1. IsWellFoundedOn(StrictSubsetOrdering(S), SUBSET S)
  BY FS_StrictSubsetOrderingWellFounded, FS_FiniteSubsetsOfFinite
<1>2. PICK T \in F : \A U \in F : <<U, T>> \notin StrictSubsetOrdering(S)
  BY <1>1, WFMin
<1> QED
  BY <1>2 DEF StrictSubsetOrdering

(* Good is the set of subsets of which the fact holds. *)
LEMMA SubsetInduction ==
    ASSUME NEW S, IsFiniteSet(S), NEW Good,
           \A T \in SUBSET S : (\A U \in SUBSET T : U # T => U \in Good) => T \in Good
    PROVE  \A T \in SUBSET S : T \in Good
<1> DEFINE Bad == (SUBSET S) \ Good
<1>1. ASSUME Bad # {} PROVE FALSE
  <2>1. Bad \subseteq SUBSET S
    OBVIOUS
  <2>2. PICK T \in Bad : \A U \in Bad : ~(U \subseteq T /\ U # T)
    <3> HIDE DEF Bad
    <3> QED
      BY <1>1, <2>1, SmallestSubset
  <2> QED
    BY <2>2
<1> QED
  BY <1>1

LEMMA ElementInduction ==
    ASSUME NEW S, IsFiniteSet(S), NEW Good, {} \in Good,
           \A T \in SUBSET S : \A x \in T : T \ {x} \in Good => T \in Good
    PROVE  S \in Good
<1>1. ASSUME NEW T \in SUBSET S, \A U \in SUBSET T : U # T => U \in Good
      PROVE  T \in Good
  <2>1. CASE T = {}
    BY <2>1
  <2>2. CASE T # {}
    <3> PICK x \in T : TRUE
      BY <2>2
    <3>1. T \ {x} \in SUBSET T /\ T \ {x} # T
      OBVIOUS
    <3> QED
      BY <1>1, <3>1
  <2> QED
    BY <2>1, <2>2
<1> QED
  BY <1>1, SubsetInduction

-----------------------------------------------------------------------------
(* The recursive function behind the sum exists *)

Chosen(T) == CHOOSE x \in T : TRUE

(* g is the recursive function on the subsets of T. *)
Sums(f, T, g) ==
    g = [U \in SUBSET T |-> IF U = {} THEN 0 ELSE f[Chosen(U)] + g[U \ {Chosen(U)}]]

LEMMA SumIsChosen ==
    ASSUME NEW f, NEW S
    PROVE  SumFunctionOnSet(f, S) = (CHOOSE g : Sums(f, S, g))[S]
BY DEF SumFunctionOnSet, FoldFunctionOnSet, MapThenFoldSet, Sums, Chosen

LEMMA SumsValue ==
    ASSUME NEW f, NEW T, NEW g, Sums(f, T, g), NEW U \in SUBSET T
    PROVE  /\ U = {} => g[U] = 0
           /\ U # {} => g[U] = f[Chosen(U)] + g[U \ {Chosen(U)}]
BY DEF Sums

LEMMA ChosenElement == \A T : T # {} => Chosen(T) \in T
BY DEF Chosen

LEMMA SumsAgree ==
    ASSUME NEW f, NEW S, IsFiniteSet(S), NEW T, NEW R, S \subseteq T, S \subseteq R,
           NEW g, NEW h, Sums(f, T, g), Sums(f, R, h)
    PROVE  g[S] = h[S]
<1> DEFINE Good == {U \in SUBSET S : g[U] = h[U]}
<1>1. ASSUME NEW U \in SUBSET S, \A V \in SUBSET U : V # U => V \in Good
      PROVE  U \in Good
  <2>1. CASE U = {}
    BY <2>1, SumsValue
  <2>2. CASE U # {}
    <3>1. U \ {Chosen(U)} \in Good
      BY <1>1, <2>2, ChosenElement
    <3> U \in SUBSET T /\ U \in SUBSET R
      OBVIOUS
    <3>2. g[U] = f[Chosen(U)] + g[U \ {Chosen(U)}]
      BY <2>2, SumsValue
    <3>3. h[U] = f[Chosen(U)] + h[U \ {Chosen(U)}]
      BY <2>2, SumsValue
    <3> QED
      BY <3>1, <3>2, <3>3
  <2> QED
    BY <2>1, <2>2
<1>2. S \in Good
  <2> HIDE DEF Good
  <2> QED
    BY <1>1, SubsetInduction
<1> QED
  BY <1>2

LEMMA SumsExist ==
    ASSUME NEW f, NEW S, IsFiniteSet(S)
    PROVE  \E g : Sums(f, S, g)
<1> DEFINE Good == {T \in SUBSET S : \E g : Sums(f, T, g)}
           part(T) == CHOOSE g : Sums(f, T, g)
<1>1. ASSUME NEW T \in SUBSET S, \A U \in SUBSET T : U # T => U \in Good
      PROVE  T \in Good
  <2> DEFINE rest(U) == U \ {Chosen(U)}
             whole == [U \in SUBSET T |->
                         IF U = {} THEN 0 ELSE f[Chosen(U)] + part(rest(U))[rest(U)]]
  <2>1. ASSUME NEW U \in SUBSET T, U # T PROVE Sums(f, U, part(U)) /\ IsFiniteSet(U)
    BY <1>1, <2>1, FS_Subset
  <2>2. ASSUME NEW U \in SUBSET T, U # T PROVE whole[U] = part(U)[U]
    <3>1. CASE U = {}
      <4>1. part(U)[U] = 0
        BY <2>1, <2>2, <3>1, SumsValue
      <4> QED
        BY <4>1, <3>1
    <3>2. CASE U # {}
      <4>1. rest(U) \in SUBSET U /\ rest(U) # U /\ rest(U) \in SUBSET T /\ rest(U) # T
        BY <2>2, <3>2, ChosenElement
      <4>2. part(rest(U))[rest(U)] = part(U)[rest(U)]
        <5>1. /\ Sums(f, U, part(U)) /\ Sums(f, rest(U), part(rest(U)))
              /\ IsFiniteSet(rest(U))
          BY <2>1, <2>2, <4>1
        <5> HIDE DEF part, rest
        <5> QED
          BY <5>1, <4>1, SumsAgree
      <4>3. part(U)[U] = f[Chosen(U)] + part(U)[rest(U)]
        <5>1. Sums(f, U, part(U))
          BY <2>1, <2>2
        <5> HIDE DEF part
        <5> QED
          BY <5>1, <3>2, SumsValue
      <4> QED
        BY <4>2, <4>3, <3>2
    <3> QED
      BY <3>1, <3>2
  <2>3. ASSUME NEW U \in SUBSET T, U # {} PROVE part(rest(U))[rest(U)] = whole[rest(U)]
    <3>1. rest(U) \in SUBSET T /\ rest(U) # T
      BY <2>3, ChosenElement
    <3> HIDE DEF part, rest, whole
    <3> QED
      BY <2>2, <3>1
  <2>4. whole = [U \in SUBSET T |-> IF U = {} THEN 0 ELSE f[Chosen(U)] + whole[rest(U)]]
    <3>1. \A U \in SUBSET T :
              whole[U] = IF U = {} THEN 0 ELSE f[Chosen(U)] + whole[rest(U)]
      <4>1. ASSUME NEW U \in SUBSET T, U # {}
            PROVE  whole[U] = f[Chosen(U)] + part(rest(U))[rest(U)]
        BY <4>1
      <4>2. ASSUME NEW U \in SUBSET T, U = {} PROVE whole[U] = 0
        BY <4>2
      <4> HIDE DEF whole, rest, part
      <4> QED
        BY <2>3, <4>1, <4>2
    <3>2. whole = [U \in SUBSET T |-> whole[U]]
      OBVIOUS
    <3> HIDE DEF whole, rest
    <3> QED
      BY <3>1, <3>2
  <2>5. Sums(f, T, whole)
    BY <2>4 DEF Sums
  <2> QED
    BY <2>5
<1>2. S \in Good
  <2> HIDE DEF Good
  <2> QED
    BY <1>1, SubsetInduction
<1> QED
  BY <1>2

-----------------------------------------------------------------------------
(* Elements taken out of a sum *)

LEMMA SumEmpty == ASSUME NEW f PROVE SumFunctionOnSet(f, {}) = 0
<1>1. PICK g : Sums(f, {}, g)
  BY SumsExist, FS_EmptySet
<1>2. Sums(f, {}, CHOOSE h : Sums(f, {}, h))
  BY <1>1
<1> QED
  BY <1>2, SumsValue, SumIsChosen

LEMMA SumChosen ==
    ASSUME NEW f, NEW S, IsFiniteSet(S), S # {}
    PROVE  SumFunctionOnSet(f, S) = f[Chosen(S)] + SumFunctionOnSet(f, S \ {Chosen(S)})
<1> DEFINE R == S \ {Chosen(S)}
           g == CHOOSE h : Sums(f, S, h)
           r == CHOOSE h : Sums(f, R, h)
<1>1. IsFiniteSet(R) /\ R \in SUBSET S
  BY FS_Subset
<1>2. Sums(f, S, g) /\ Sums(f, R, r)
  BY <1>1, SumsExist
<1>3. SumFunctionOnSet(f, S) = g[S] /\ SumFunctionOnSet(f, R) = r[R]
  BY SumIsChosen
<1> HIDE DEF g, r
<1>4. g[S] = f[Chosen(S)] + g[R]
  BY <1>2, SumsValue
<1>5. g[R] = r[R]
  <2>1. ASSUME NEW T, IsFiniteSet(T), T \subseteq S, NEW h, Sums(f, T, h) PROVE g[T] = h[T]
    BY <1>2, <2>1, SumsAgree
  <2> HIDE DEF R
  <2> QED
    BY <1>1, <1>2, <2>1
<1> QED
  BY <1>3, <1>4, <1>5

LEMMA SumInt ==
    ASSUME NEW f, NEW S, IsFiniteSet(S), \A x \in S : f[x] \in Int
    PROVE  SumFunctionOnSet(f, S) \in Int
<1> DEFINE Good == {T \in SUBSET S : SumFunctionOnSet(f, T) \in Int}
<1>1. ASSUME NEW T \in SUBSET S, \A U \in SUBSET T : U # T => U \in Good
      PROVE  T \in Good
  <2>1. CASE T = {}
    BY <2>1, SumEmpty
  <2>2. CASE T # {}
    <3>1. Chosen(T) \in T /\ IsFiniteSet(T)
      BY <2>2, ChosenElement, FS_Subset
    <3>2. SumFunctionOnSet(f, T \ {Chosen(T)}) \in Int
      BY <1>1, <3>1
    <3> QED
      BY <2>2, <3>1, <3>2, SumChosen
  <2> QED
    BY <2>1, <2>2
<1>2. S \in Good
  <2> HIDE DEF Good
  <2> QED
    BY <1>1, SubsetInduction
<1> QED
  BY <1>2

(* Any element may be taken out, whatever the order of the fold. *)
LEMMA SumElement ==
    ASSUME NEW f, NEW S, IsFiniteSet(S), \A y \in S : f[y] \in Int, NEW x \in S
    PROVE  SumFunctionOnSet(f, S) = f[x] + SumFunctionOnSet(f, S \ {x})
<1> DEFINE Good == {T \in SUBSET S : \A y \in T :
                      SumFunctionOnSet(f, T) = f[y] + SumFunctionOnSet(f, T \ {y})}
<1>1. ASSUME NEW T \in SUBSET S, \A U \in SUBSET T : U # T => U \in Good
      PROVE  T \in Good
  <2> SUFFICES ASSUME NEW y \in T
               PROVE  SumFunctionOnSet(f, T) = f[y] + SumFunctionOnSet(f, T \ {y})
    OBVIOUS
  <2> DEFINE c == Chosen(T)
  <2>1. c \in T /\ IsFiniteSet(T)
    BY ChosenElement, FS_Subset
  <2>2. SumFunctionOnSet(f, T) = f[c] + SumFunctionOnSet(f, T \ {c})
    BY <2>1, SumChosen
  <2>3. CASE y = c
    BY <2>2, <2>3
  <2>4. CASE y # c
    <3>1. SumFunctionOnSet(f, T \ {c}) = f[y] + SumFunctionOnSet(f, (T \ {c}) \ {y})
      BY <1>1, <2>1, <2>4
    <3>2. SumFunctionOnSet(f, T \ {y}) = f[c] + SumFunctionOnSet(f, (T \ {y}) \ {c})
      BY <1>1, <2>1, <2>4
    <3>3. (T \ {c}) \ {y} = (T \ {y}) \ {c}
      OBVIOUS
    <3>4. SumFunctionOnSet(f, (T \ {c}) \ {y}) \in Int
      <4>1. IsFiniteSet((T \ {c}) \ {y})
        BY <2>1, FS_Subset
      <4> QED
        BY <4>1, SumInt
    <3>5. f[c] \in Int /\ f[y] \in Int
      BY <2>1
    <3>6. SumFunctionOnSet(f, T) = f[c] + (f[y] + SumFunctionOnSet(f, (T \ {c}) \ {y}))
      BY <2>2, <3>1
    <3>7. SumFunctionOnSet(f, T \ {y}) = f[c] + SumFunctionOnSet(f, (T \ {c}) \ {y})
      BY <3>2, <3>3
    <3> HIDE DEF c
    <3> QED
      BY <3>4, <3>5, <3>6, <3>7
  <2> QED
    BY <2>3, <2>4
<1>2. S \in Good
  <2> HIDE DEF Good
  <2> QED
    BY <1>1, SubsetInduction
<1> QED
  BY <1>2

-----------------------------------------------------------------------------
(* Sums compared *)

(* A difference between functions is a difference between their sums. *)
LEMMA SumMinus ==
    ASSUME NEW f, NEW g, NEW h, NEW S, IsFiniteSet(S),
           \A x \in S : f[x] \in Int /\ g[x] \in Int /\ h[x] = f[x] - g[x]
    PROVE  SumFunctionOnSet(h, S) = SumFunctionOnSet(f, S) - SumFunctionOnSet(g, S)
<1> DEFINE Good == {T \in SUBSET S :
             SumFunctionOnSet(h, T) = SumFunctionOnSet(f, T) - SumFunctionOnSet(g, T)}
<1>1. {} \in Good
  BY SumEmpty
<1>2. ASSUME NEW T \in SUBSET S, NEW x \in T, T \ {x} \in Good
      PROVE  T \in Good
  <2> DEFINE R == T \ {x}
  <2>1. IsFiniteSet(T) /\ IsFiniteSet(R)
    BY FS_Subset
  <2>2. \A y \in T : f[y] \in Int /\ g[y] \in Int /\ h[y] \in Int /\ h[y] = f[y] - g[y]
    OBVIOUS
  <2>3. SumFunctionOnSet(f, T) = f[x] + SumFunctionOnSet(f, R)
    BY <2>1, <2>2, SumElement
  <2>4. SumFunctionOnSet(g, T) = g[x] + SumFunctionOnSet(g, R)
    BY <2>1, <2>2, SumElement
  <2>5. SumFunctionOnSet(h, T) = h[x] + SumFunctionOnSet(h, R)
    BY <2>1, <2>2, SumElement
  <2>6. SumFunctionOnSet(f, R) \in Int /\ SumFunctionOnSet(g, R) \in Int
    BY <2>1, <2>2, SumInt
  <2>7. SumFunctionOnSet(h, R) = SumFunctionOnSet(f, R) - SumFunctionOnSet(g, R)
    BY <1>2
  <2> HIDE DEF R
  <2>8. SumFunctionOnSet(h, T) = SumFunctionOnSet(f, T) - SumFunctionOnSet(g, T)
    BY <2>2, <2>3, <2>4, <2>5, <2>6, <2>7
  <2> QED
    BY <2>8
<1>3. S \in Good
  <2> HIDE DEF Good
  <2> QED
    BY <1>1, <1>2, ElementInduction
<1> QED
  BY <1>3

LEMMA SumNat ==
    ASSUME NEW f, NEW S, IsFiniteSet(S), \A x \in S : f[x] \in Nat
    PROVE  SumFunctionOnSet(f, S) \in Nat
<1> DEFINE Good == {T \in SUBSET S : SumFunctionOnSet(f, T) \in Nat}
<1>1. {} \in Good
  BY SumEmpty
<1>2. ASSUME NEW T \in SUBSET S, NEW x \in T, T \ {x} \in Good
      PROVE  T \in Good
  <2>1. IsFiniteSet(T) /\ \A y \in T : f[y] \in Int
    BY FS_Subset
  <2>2. SumFunctionOnSet(f, T) = f[x] + SumFunctionOnSet(f, T \ {x})
    BY <2>1, SumElement
  <2> QED
    BY <1>2, <2>2
<1>3. S \in Good
  <2> HIDE DEF Good
  <2> QED
    BY <1>1, <1>2, ElementInduction
<1> QED
  BY <1>3

LEMMA SumAtMost ==
    ASSUME NEW f, NEW g, NEW S, IsFiniteSet(S),
           \A x \in S : f[x] \in Int /\ g[x] \in Int /\ f[x] <= g[x]
    PROVE  SumFunctionOnSet(f, S) <= SumFunctionOnSet(g, S)
<1> DEFINE d == [x \in S |-> g[x] - f[x]]
<1>1. \A x \in S : d[x] = g[x] - f[x] /\ d[x] \in Nat
  OBVIOUS
<1> HIDE DEF d
<1>2. SumFunctionOnSet(d, S) = SumFunctionOnSet(g, S) - SumFunctionOnSet(f, S)
  BY <1>1, SumMinus
<1>3. SumFunctionOnSet(d, S) \in Nat
  BY <1>1, SumNat
<1>4. SumFunctionOnSet(f, S) \in Int /\ SumFunctionOnSet(g, S) \in Int
  BY SumInt
<1> QED
  BY <1>2, <1>3, <1>4

LEMMA SumSame ==
    ASSUME NEW f, NEW g, NEW S, IsFiniteSet(S),
           \A x \in S : f[x] \in Int /\ f[x] = g[x]
    PROVE  SumFunctionOnSet(f, S) = SumFunctionOnSet(g, S)
<1>1. SumFunctionOnSet(f, S) <= SumFunctionOnSet(g, S)
  BY SumAtMost
<1>2. SumFunctionOnSet(g, S) <= SumFunctionOnSet(f, S)
  BY SumAtMost
<1>3. SumFunctionOnSet(f, S) \in Int /\ SumFunctionOnSet(g, S) \in Int
  BY SumInt
<1> QED
  BY <1>1, <1>2, <1>3

(* Where f differs from a larger set's function, that one is zero. *)
LEMMA SumOfPart ==
    ASSUME NEW f, NEW g, NEW S, IsFiniteSet(S), NEW T \in SUBSET S,
           \A x \in T : f[x] \in Int /\ g[x] = f[x],
           \A x \in S \ T : g[x] = 0
    PROVE  SumFunctionOnSet(f, T) = SumFunctionOnSet(g, S)
<1> DEFINE Good == {U \in SUBSET S : SumFunctionOnSet(f, U \cap T) = SumFunctionOnSet(g, U)}
<1>1. {} \in Good
  <2>1. {} \cap T = {}
    OBVIOUS
  <2> QED
    BY <2>1, SumEmpty
<1>2. ASSUME NEW U \in SUBSET S, NEW x \in U, U \ {x} \in Good
      PROVE  U \in Good
  <2> DEFINE R == U \ {x}
  <2>1. IsFiniteSet(U) /\ IsFiniteSet(R) /\ IsFiniteSet(U \cap T)
    BY FS_Subset
  <2>2. \A y \in U : g[y] \in Int
    OBVIOUS
  <2>3. SumFunctionOnSet(g, U) = g[x] + SumFunctionOnSet(g, R)
    BY <2>1, <2>2, SumElement
  <2>4. SumFunctionOnSet(f, R \cap T) = SumFunctionOnSet(g, R)
    BY <1>2
  <2>5. SumFunctionOnSet(g, R) \in Int
    BY <2>1, <2>2, SumInt
  <2>6. CASE x \in T
    <3>1. (U \cap T) \ {x} = R \cap T
      OBVIOUS
    <3>2. SumFunctionOnSet(f, U \cap T) = f[x] + SumFunctionOnSet(f, (U \cap T) \ {x})
      BY <2>1, <2>6, SumElement
    <3> QED
      BY <2>3, <2>4, <2>6, <3>1, <3>2
  <2>7. CASE x \notin T
    <3>1. U \cap T = R \cap T /\ g[x] = 0
      BY <2>7
    <3>2. SumFunctionOnSet(g, U) = SumFunctionOnSet(g, R)
      BY <2>3, <2>5, <3>1
    <3>3. SumFunctionOnSet(f, U \cap T) = SumFunctionOnSet(g, R)
      BY <2>4, <3>1
    <3> QED
      BY <3>2, <3>3
  <2> QED
    BY <2>6, <2>7
<1>3. S \in Good
  <2> HIDE DEF Good
  <2> QED
    BY <1>1, <1>2, ElementInduction
<1>4. S \cap T = T
  OBVIOUS
<1> QED
  BY <1>3, <1>4

LEMMA SumOfOne ==
    ASSUME NEW f, NEW S, IsFiniteSet(S), NEW a \in S, f[a] \in Int,
           \A x \in S \ {a} : f[x] = 0
    PROVE  SumFunctionOnSet(f, S) = f[a]
<1>1. SumFunctionOnSet(f, {a}) = SumFunctionOnSet(f, S)
  BY SumOfPart
<1>2. SumFunctionOnSet(f, {a}) = f[a] + SumFunctionOnSet(f, {a} \ {a})
  BY SumElement, FS_Singleton
<1>3. {a} \ {a} = {}
  OBVIOUS
<1> QED
  BY <1>1, <1>2, <1>3, SumEmpty

LEMMA SumOfZeros ==
    ASSUME NEW f, NEW S, IsFiniteSet(S), \A x \in S : f[x] = 0
    PROVE  SumFunctionOnSet(f, S) = 0
<1>1. SumFunctionOnSet(f, {}) = SumFunctionOnSet(f, S)
  BY SumOfPart
<1> QED
  BY <1>1, SumEmpty

-----------------------------------------------------------------------------
(* Sums of sums *)

(* M[x][y] summed over y for each x, and over x for each y. *)
RowSums(M, S, T) == [x \in S |-> SumFunctionOnSet(M[x], T)]
Column(M, S, y) == [x \in S |-> M[x][y]]
ColumnSums(M, S, T) == [y \in T |-> SumFunctionOnSet(Column(M, S, y), S)]

LEMMA SumExchange ==
    ASSUME NEW M, NEW S, IsFiniteSet(S), NEW T, IsFiniteSet(T),
           \A x \in S : \A y \in T : M[x][y] \in Int
    PROVE  SumFunctionOnSet(RowSums(M, S, T), S) = SumFunctionOnSet(ColumnSums(M, S, T), T)
<1> DEFINE column(y) == Column(M, S, y)
           rows == RowSums(M, S, T)
           columns == ColumnSums(M, S, T)
           part(U) == [y \in T |-> SumFunctionOnSet(column(y), U)]
           Good == {U \in SUBSET S :
                      SumFunctionOnSet(rows, U) = SumFunctionOnSet(part(U), T)}
<1>a. \A x \in S : rows[x] = SumFunctionOnSet(M[x], T)
  BY DEF RowSums
<1>b. \A y \in T : \A x \in S : column(y)[x] = M[x][y]
  BY DEF Column
<1>c. \A y \in T : columns[y] = SumFunctionOnSet(column(y), S)
  BY DEF ColumnSums
<1> HIDE DEF rows, columns, column
<1>1. {} \in Good
  <2>1. \A y \in T : part({})[y] = 0
    BY SumEmpty
  <2>2. SumFunctionOnSet(part({}), T) = 0
    <3> HIDE DEF part
    <3> QED
      BY <2>1, SumOfZeros
  <2> QED
    BY <2>2, SumEmpty
<1>2. ASSUME NEW U \in SUBSET S, NEW x \in U, U \ {x} \in Good
      PROVE  U \in Good
  <2> DEFINE R == U \ {x}
  <2>1. IsFiniteSet(U) /\ IsFiniteSet(R)
    BY FS_Subset
  <2>2. ASSUME NEW z \in U PROVE rows[z] \in Int
    <3>1. \A y \in T : M[z][y] \in Int
      OBVIOUS
    <3>2. SumFunctionOnSet(M[z], T) \in Int
      BY <3>1, SumInt
    <3> QED
      BY <1>a, <3>2
  <2>3. SumFunctionOnSet(rows, U) = rows[x] + SumFunctionOnSet(rows, R)
    BY <2>1, <2>2, SumElement
  <2>4. ASSUME NEW y \in T
        PROVE  /\ part(U)[y] \in Int /\ part(R)[y] \in Int
               /\ M[x][y] = part(U)[y] - part(R)[y]
    <3>1. \A z \in U : column(y)[z] \in Int
      BY <1>b
    <3>2. SumFunctionOnSet(column(y), U) = column(y)[x] + SumFunctionOnSet(column(y), R)
      BY <2>1, <3>1, SumElement
    <3>3. SumFunctionOnSet(column(y), U) \in Int /\ SumFunctionOnSet(column(y), R) \in Int
      BY <2>1, <3>1, SumInt
    <3>4. M[x][y] \in Int /\ column(y)[x] = M[x][y]
      BY <1>b
    <3>5. part(U)[y] = SumFunctionOnSet(column(y), U) /\ part(R)[y] = SumFunctionOnSet(column(y), R)
      OBVIOUS
    <3> HIDE DEF part, R
    <3> QED
      BY <3>2, <3>3, <3>4, <3>5
  <2>5. SumFunctionOnSet(M[x], T)
          = SumFunctionOnSet(part(U), T) - SumFunctionOnSet(part(R), T)
    <3> HIDE DEF part, R
    <3> QED
      BY <2>4, SumMinus
  <2>6. SumFunctionOnSet(part(U), T) \in Int /\ SumFunctionOnSet(part(R), T) \in Int
    <3> HIDE DEF part, R
    <3> QED
      BY <2>4, SumInt
  <2>7. SumFunctionOnSet(rows, R) = SumFunctionOnSet(part(R), T)
    BY <1>2
  <2>8. rows[x] = SumFunctionOnSet(M[x], T)
    BY <1>a
  <2>9. SumFunctionOnSet(rows, U) = SumFunctionOnSet(part(U), T)
    <3> HIDE DEF part, R
    <3> QED
      BY <2>3, <2>5, <2>6, <2>7, <2>8
  <2> QED
    BY <2>9
<1>3. S \in Good
  <2> HIDE DEF Good
  <2> QED
    BY <1>1, <1>2, ElementInduction
<1>4. SumFunctionOnSet(rows, S) = SumFunctionOnSet(part(S), T)
  BY <1>3
<1>5. ASSUME NEW y \in T PROVE part(S)[y] = columns[y] /\ part(S)[y] \in Int
  <2>1. \A x \in S : column(y)[x] \in Int
    BY <1>b
  <2>2. SumFunctionOnSet(column(y), S) \in Int
    BY <2>1, SumInt
  <2> QED
    BY <1>c, <2>2
<1> HIDE DEF part
<1>6. SumFunctionOnSet(part(S), T) = SumFunctionOnSet(columns, T)
  BY <1>5, SumSame
<1> QED
  BY <1>4, <1>6 DEF rows, columns

(* Each y of T belongs to the key key[y]: the sums per key of S. *)
OfKey(key, val, T, x) == [y \in T |-> IF key[y] = x THEN val[y] ELSE 0]
KeySums(key, val, S, T) == [x \in S |-> SumFunctionOnSet(OfKey(key, val, T, x), T)]
OfKeys(key, val, S, T) == [y \in T |-> IF key[y] \in S THEN val[y] ELSE 0]

LEMMA SumByKey ==
    ASSUME NEW key, NEW val, NEW S, IsFiniteSet(S), NEW T, IsFiniteSet(T),
           \A y \in T : val[y] \in Int
    PROVE  SumFunctionOnSet(KeySums(key, val, S, T), S)
             = SumFunctionOnSet(OfKeys(key, val, S, T), T)
<1> DEFINE M == [x \in S |-> OfKey(key, val, T, x)]
           all == OfKeys(key, val, S, T)
<1>1. ASSUME NEW y \in T, NEW x \in S
      PROVE  M[x][y] = (IF key[y] = x THEN val[y] ELSE 0) /\ M[x][y] \in Int
  BY DEF OfKey
<1>2. KeySums(key, val, S, T) = RowSums(M, S, T)
  BY DEF KeySums, RowSums
<1> HIDE DEF M
<1>3. ASSUME NEW y \in T
      PROVE  all[y] = SumFunctionOnSet(Column(M, S, y), S) /\ all[y] \in Int
  <2> DEFINE column == Column(M, S, y)
  <2>1. \A x \in S : column[x] = IF key[y] = x THEN val[y] ELSE 0
    BY <1>1 DEF Column
  <2>2. all[y] = (IF key[y] \in S THEN val[y] ELSE 0) /\ all[y] \in Int
    BY DEF OfKeys
  <2> HIDE DEF column, all
  <2>3. CASE key[y] \in S
    <3>1. column[key[y]] = val[y] /\ \A x \in S \ {key[y]} : column[x] = 0
      BY <2>1, <2>3
    <3>2. SumFunctionOnSet(column, S) = column[key[y]]
      BY <2>3, <3>1, SumOfOne
    <3> QED
      BY <2>2, <2>3, <3>1, <3>2 DEF column
  <2>4. CASE key[y] \notin S
    <3>1. \A x \in S : column[x] = 0
      BY <2>1, <2>4
    <3>2. SumFunctionOnSet(column, S) = 0
      BY <3>1, SumOfZeros
    <3> QED
      BY <2>2, <2>4, <3>2 DEF column
  <2> QED
    BY <2>3, <2>4
<1>4. \A y \in T : ColumnSums(M, S, T)[y] = all[y]
  BY <1>3 DEF ColumnSums
<1> HIDE DEF all
<1>5. SumFunctionOnSet(all, T) = SumFunctionOnSet(ColumnSums(M, S, T), T)
  BY <1>3, <1>4, SumSame
<1>6. SumFunctionOnSet(RowSums(M, S, T), S) = SumFunctionOnSet(ColumnSums(M, S, T), T)
  BY <1>1, SumExchange
<1> QED
  BY <1>2, <1>5, <1>6 DEF all

================================================================================
