--------------------------- MODULE AggregateTheorems ---------------------------
(***************************************************************************)
(* What the aggregates of the queries amount to, for every finite set of   *)
(* rows: SumFunctionOnSet, by which totals and quantities are added up,    *)
(* and Max, by which rows are numbered.                                    *)
(*                                                                         *)
(* A recursive definition says nothing by itself of the sum over a set of  *)
(* unknown size.  The lemmas look at a smallest subset they fail for:      *)
(* strict inclusion of the subsets of a finite set is well founded.        *)
(***************************************************************************)
EXTENDS Integers, FiniteSetsExt, FiniteSetTheorems, WellFoundedInduction, TLAPS

Picked(s) == CHOOSE x \in s : TRUE

\* The table of the sums of f over the subsets of S, each from a smaller one.
IsSumTable(f, S, g) ==
    g = [s \in SUBSET S |-> IF s = {} THEN 0 ELSE f[Picked(s)] + g[s \ {Picked(s)}]]

SumTable(f, S) == CHOOSE g : IsSumTable(f, S, g)

\* The sum of f over S is an entry of that table.
LEMMA SumIsInTable ==
    ASSUME NEW f, NEW S
    PROVE  SumFunctionOnSet(f, S) = SumTable(f, S)[S]
BY DEF SumFunctionOnSet, FoldFunctionOnSet, MapThenFoldSet, SumTable, IsSumTable, Picked

\* Among the subsets of a finite set that have a property one is smallest.
LEMMA SmallestSubset ==
    ASSUME NEW S, IsFiniteSet(S), NEW F \in SUBSET (SUBSET S), F # {}
    PROVE  \E s \in F : \A u \in F : u \subseteq s => u = s
<1>1. IsWellFoundedOn(StrictSubsetOrdering(S), SUBSET S)
    BY FS_FiniteSubsetsOfFinite, FS_StrictSubsetOrderingWellFounded
<1>2. PICK s \in F : \A u \in F : ~ (<<u, s>> \in StrictSubsetOrdering(S))
    BY <1>1, WFMin
<1>3. ASSUME NEW u \in F, u \subseteq s
      PROVE  u = s
  <2>1. <<u, s>> \in (SUBSET S) \X (SUBSET S)
    OBVIOUS
  <2>2. <<u, s>>[1] = u /\ <<u, s>>[2] = s
    OBVIOUS
  <2>. QED
    BY <1>2, <1>3, <2>1, <2>2, Zenon DEF StrictSubsetOrdering
<1>. QED
    BY <1>3

\* Two tables agree on the subsets they share.
LEMMA SumTablesAgree ==
    ASSUME NEW f, NEW S, IsFiniteSet(S), NEW T \in SUBSET S,
           NEW g, IsSumTable(f, S, g), NEW h, IsSumTable(f, T, h), NEW U \in SUBSET T
    PROVE  g[U] = h[U]
<1>. DEFINE Bad == {u \in SUBSET T : g[u] # h[u]}
<1>1. SUFFICES ASSUME Bad # {} PROVE FALSE
    OBVIOUS
<1>2. IsFiniteSet(T)
    BY FS_Subset
<1>3. PICK s \in Bad : \A u \in Bad : u \subseteq s => u = s
  <2>1. Bad \in SUBSET (SUBSET T)
    OBVIOUS
  <2>. HIDE DEF Bad
  <2>. QED
    BY <1>1, <1>2, <2>1, SmallestSubset
<1>4. s \in SUBSET T /\ s \in SUBSET S /\ g[s] # h[s]
    BY <1>3
<1>5. s # {}
    BY <1>4 DEF IsSumTable
<1>. DEFINE x == Picked(s)
<1>6. x \in s
    BY <1>5 DEF Picked
<1>7. g[s \ {x}] = h[s \ {x}]
    BY <1>3, <1>4, <1>6
<1>8. g[s] = f[x] + g[s \ {x}] /\ h[s] = f[x] + h[s \ {x}]
    BY <1>4, <1>5 DEF IsSumTable
<1>. QED
    BY <1>4, <1>7, <1>8

\* Every finite set has a table.
LEMMA SumTableExists ==
    ASSUME NEW f, NEW S, IsFiniteSet(S)
    PROVE  IsSumTable(f, S, SumTable(f, S))
<1>. DEFINE Bad == {u \in SUBSET S : ~ \E g : IsSumTable(f, u, g)}
<1>1. SUFFICES ASSUME Bad # {} PROVE FALSE
    BY DEF SumTable
<1>2. PICK s \in Bad : \A u \in Bad : u \subseteq s => u = s
  <2>1. Bad \in SUBSET (SUBSET S)
    OBVIOUS
  <2>. HIDE DEF Bad
  <2>. QED
    BY <1>1, <2>1, SmallestSubset
<1>3. \A u \in SUBSET s : u # s => IsSumTable(f, u, SumTable(f, u))
    BY <1>2 DEF SumTable
<1>. DEFINE x == Picked(s)
            v == IF s = {} THEN 0 ELSE f[x] + SumTable(f, s \ {x})[s \ {x}]
            g == [u \in SUBSET s |-> IF u = s THEN v ELSE SumTable(f, u)[u]]
<1>4. IsSumTable(f, s, g)
  <2>1. ASSUME NEW u \in SUBSET s, u = {}
        PROVE  g[u] = 0
    BY <2>1, <1>3 DEF IsSumTable
  <2>2. ASSUME NEW u \in SUBSET s, u # {}, u = s
        PROVE  g[u] = f[Picked(u)] + g[u \ {Picked(u)}]
    BY <2>2 DEF Picked
  <2>3. ASSUME NEW u \in SUBSET s, u # {}, u # s
        PROVE  g[u] = f[Picked(u)] + g[u \ {Picked(u)}]
    <3>. DEFINE w == u \ {Picked(u)}
    <3>1. Picked(u) \in u
        BY <2>3 DEF Picked
    <3>2. w \in SUBSET u /\ w \in SUBSET s /\ w # s
        BY <3>1
    <3>3. IsFiniteSet(u)
        BY <1>2, FS_Subset
    <3>4. SumTable(f, u)[w] = SumTable(f, w)[w]
      <4>1. IsSumTable(f, u, SumTable(f, u)) /\ IsSumTable(f, w, SumTable(f, w)) /\ w \in SUBSET w
        BY <1>3, <2>3, <3>2
      <4>. HIDE DEF w
      <4>. QED
        BY <3>2, <3>3, <4>1, SumTablesAgree
    <3>5. SumTable(f, u)[u] = f[Picked(u)] + SumTable(f, u)[w]
        BY <1>3, <2>3 DEF IsSumTable
    <3>. QED
        BY <2>3, <3>2, <3>4, <3>5
  <2>4. g = [u \in SUBSET s |-> IF u = {} THEN 0 ELSE f[Picked(u)] + g[u \ {Picked(u)}]]
    BY <2>1, <2>2, <2>3
  <2>. QED
    BY <2>4 DEF IsSumTable
<1>. QED
    BY <1>2, <1>4

-----------------------------------------------------------------------------

LEMMA SumEmpty ==
    ASSUME NEW f
    PROVE  SumFunctionOnSet(f, {}) = 0
<1>1. IsSumTable(f, {}, SumTable(f, {}))
    BY FS_EmptySet, SumTableExists
<1>. QED
    BY <1>1, SumIsInTable DEF IsSumTable

\* The definition, unfolded once.
LEMMA SumPicked ==
    ASSUME NEW f, NEW S, IsFiniteSet(S), S # {}
    PROVE  /\ Picked(S) \in S
           /\ SumFunctionOnSet(f, S) =
                 f[Picked(S)] + SumFunctionOnSet(f, S \ {Picked(S)})
<1>. DEFINE T == S \ {Picked(S)}
<1>1. Picked(S) \in S
    BY DEF Picked
<1>2. IsFiniteSet(T) /\ T \in SUBSET S /\ T \in SUBSET T
    BY FS_RemoveElement
<1>3. IsSumTable(f, S, SumTable(f, S)) /\ IsSumTable(f, T, SumTable(f, T))
    BY <1>2, SumTableExists
<1>4. SumTable(f, S)[T] = SumTable(f, T)[T]
  <2>. HIDE DEF T
  <2>. QED
    BY <1>2, <1>3, SumTablesAgree
<1>5. SumTable(f, S)[S] = f[Picked(S)] + SumTable(f, S)[T]
    BY <1>3 DEF IsSumTable
<1>. QED
    BY <1>1, <1>4, <1>5, SumIsInTable

LEMMA SumType ==
    ASSUME NEW f, NEW S, IsFiniteSet(S), \A s \in S : f[s] \in Int
    PROVE  SumFunctionOnSet(f, S) \in Int
<1>. DEFINE Bad == {u \in SUBSET S : SumFunctionOnSet(f, u) \notin Int}
<1>1. SUFFICES ASSUME Bad # {} PROVE FALSE
    OBVIOUS
<1>2. PICK u \in Bad : \A w \in Bad : w \subseteq u => w = u
  <2>1. Bad \in SUBSET (SUBSET S)
    OBVIOUS
  <2>. HIDE DEF Bad
  <2>. QED
    BY <1>1, <2>1, SmallestSubset
<1>3. IsFiniteSet(u) /\ u \in SUBSET S
    BY <1>2, FS_Subset
<1>4. u # {}
  <2>1. SumFunctionOnSet(f, {}) \in Int
    BY SumEmpty
  <2>. QED
    BY <1>2, <2>1
<1>5. /\ Picked(u) \in u
      /\ SumFunctionOnSet(f, u) = f[Picked(u)] + SumFunctionOnSet(f, u \ {Picked(u)})
    BY <1>3, <1>4, SumPicked
<1>6. SumFunctionOnSet(f, u \ {Picked(u)}) \in Int
    BY <1>2, <1>3, <1>5
<1>. QED
    BY <1>2, <1>3, <1>5, <1>6

\* The order in which the elements are picked makes no difference.
LEMMA SumRemove ==
    ASSUME NEW f, NEW S, IsFiniteSet(S), \A s \in S : f[s] \in Int, NEW y \in S
    PROVE  SumFunctionOnSet(f, S) = f[y] + SumFunctionOnSet(f, S \ {y})
<1>. DEFINE Bad == {u \in SUBSET S :
                       \E z \in u : SumFunctionOnSet(f, u) # f[z] + SumFunctionOnSet(f, u \ {z})}
<1>1. SUFFICES ASSUME Bad # {} PROVE FALSE
    OBVIOUS
<1>2. PICK u \in Bad : \A w \in Bad : w \subseteq u => w = u
  <2>1. Bad \in SUBSET (SUBSET S)
    OBVIOUS
  <2>. HIDE DEF Bad
  <2>. QED
    BY <1>1, <2>1, SmallestSubset
<1>3. PICK z \in u : SumFunctionOnSet(f, u) # f[z] + SumFunctionOnSet(f, u \ {z})
    BY <1>2
<1>. DEFINE x == Picked(u)
<1>4. IsFiniteSet(u) /\ u \in SUBSET S /\ u # {}
    BY <1>2, <1>3, FS_Subset
<1>5. x \in u /\ SumFunctionOnSet(f, u) = f[x] + SumFunctionOnSet(f, u \ {x})
    BY <1>4, SumPicked
<1>6. x # z
    BY <1>3, <1>5
<1>. HIDE DEF x
<1>7. SumFunctionOnSet(f, u \ {x}) = f[z] + SumFunctionOnSet(f, (u \ {x}) \ {z})
    BY <1>2, <1>4, <1>5, <1>6
<1>8. SumFunctionOnSet(f, u \ {z}) = f[x] + SumFunctionOnSet(f, (u \ {z}) \ {x})
    BY <1>2, <1>4, <1>5, <1>6
<1>9. (u \ {x}) \ {z} = (u \ {z}) \ {x}
    OBVIOUS
<1>10. SumFunctionOnSet(f, (u \ {z}) \ {x}) \in Int
  <2>1. IsFiniteSet((u \ {z}) \ {x})
    BY <1>4, FS_Subset
  <2>. QED
    BY <1>4, <2>1, SumType
<1>11. f[x] \in Int /\ f[z] \in Int
    BY <1>3, <1>4, <1>5
<1>12. \A a, b, c \in Int : a + (b + c) = b + (a + c)
    OBVIOUS
<1>13. f[x] + (f[z] + SumFunctionOnSet(f, (u \ {z}) \ {x}))
          = f[z] + (f[x] + SumFunctionOnSet(f, (u \ {z}) \ {x}))
    BY <1>10, <1>11, <1>12, Zenon
<1>. QED
    BY <1>3, <1>5, <1>7, <1>8, <1>9, <1>13, Zenon

LEMMA SumAdd ==
    ASSUME NEW f, NEW S, IsFiniteSet(S), \A s \in S : f[s] \in Int,
           NEW y, y \notin S, f[y] \in Int
    PROVE  SumFunctionOnSet(f, S \union {y}) = f[y] + SumFunctionOnSet(f, S)
<1>1. IsFiniteSet(S \union {y}) /\ (S \union {y}) \ {y} = S
    BY FS_AddElement
<1>. QED
    BY <1>1, SumRemove

\* The sum over S looks at nothing but f on S.
LEMMA SumSame ==
    ASSUME NEW f, NEW g, NEW S, IsFiniteSet(S), \A s \in S : f[s] = g[s]
    PROVE  SumFunctionOnSet(f, S) = SumFunctionOnSet(g, S)
<1>. DEFINE Bad == {u \in SUBSET S : SumFunctionOnSet(f, u) # SumFunctionOnSet(g, u)}
<1>1. SUFFICES ASSUME Bad # {} PROVE FALSE
    OBVIOUS
<1>2. PICK u \in Bad : \A w \in Bad : w \subseteq u => w = u
  <2>1. Bad \in SUBSET (SUBSET S)
    OBVIOUS
  <2>. HIDE DEF Bad
  <2>. QED
    BY <1>1, <2>1, SmallestSubset
<1>3. IsFiniteSet(u) /\ u \in SUBSET S
    BY <1>2, FS_Subset
<1>4. u # {}
    BY <1>2, SumEmpty
<1>5. /\ Picked(u) \in u
      /\ SumFunctionOnSet(f, u) = f[Picked(u)] + SumFunctionOnSet(f, u \ {Picked(u)})
      /\ SumFunctionOnSet(g, u) = g[Picked(u)] + SumFunctionOnSet(g, u \ {Picked(u)})
    BY <1>3, <1>4, SumPicked
<1>6. SumFunctionOnSet(f, u \ {Picked(u)}) = SumFunctionOnSet(g, u \ {Picked(u)})
    BY <1>2, <1>3, <1>5
<1>. QED
    BY <1>2, <1>3, <1>5, <1>6

\* One addend changes, and the sum changes by as much.
LEMMA SumChange ==
    ASSUME NEW f, NEW g, NEW S, IsFiniteSet(S), NEW y \in S,
           \A s \in S : f[s] \in Int /\ g[s] \in Int,
           \A s \in S \ {y} : f[s] = g[s]
    PROVE  SumFunctionOnSet(g, S) = SumFunctionOnSet(f, S) + g[y] - f[y]
<1>1. IsFiniteSet(S \ {y})
    BY FS_RemoveElement
<1>2. SumFunctionOnSet(f, S \ {y}) = SumFunctionOnSet(g, S \ {y})
    BY <1>1, SumSame
<1>3. SumFunctionOnSet(f, S \ {y}) \in Int
    BY <1>1, SumType
<1>4. /\ SumFunctionOnSet(f, S) = f[y] + SumFunctionOnSet(f, S \ {y})
      /\ SumFunctionOnSet(g, S) = g[y] + SumFunctionOnSet(g, S \ {y})
    BY SumRemove
<1>. QED
    BY <1>2, <1>3, <1>4

LEMMA SumZero ==
    ASSUME NEW f, NEW S, IsFiniteSet(S), \A s \in S : f[s] = 0
    PROVE  SumFunctionOnSet(f, S) = 0
<1>. DEFINE Bad == {u \in SUBSET S : SumFunctionOnSet(f, u) # 0}
<1>1. SUFFICES ASSUME Bad # {} PROVE FALSE
    OBVIOUS
<1>2. PICK u \in Bad : \A w \in Bad : w \subseteq u => w = u
  <2>1. Bad \in SUBSET (SUBSET S)
    OBVIOUS
  <2>. HIDE DEF Bad
  <2>. QED
    BY <1>1, <2>1, SmallestSubset
<1>3. IsFiniteSet(u) /\ u \in SUBSET S
    BY <1>2, FS_Subset
<1>4. u # {}
    BY <1>2, SumEmpty
<1>5. /\ Picked(u) \in u
      /\ SumFunctionOnSet(f, u) = f[Picked(u)] + SumFunctionOnSet(f, u \ {Picked(u)})
    BY <1>3, <1>4, SumPicked
<1>6. SumFunctionOnSet(f, u \ {Picked(u)}) = 0
    BY <1>2, <1>3, <1>5
<1>. QED
    BY <1>2, <1>3, <1>5, <1>6

\* Sums of larger addends are larger.
LEMMA SumMonotone ==
    ASSUME NEW f, NEW g, NEW S, IsFiniteSet(S),
           \A s \in S : f[s] \in Int /\ g[s] \in Int /\ f[s] <= g[s]
    PROVE  SumFunctionOnSet(f, S) <= SumFunctionOnSet(g, S)
<1>. DEFINE Bad == {u \in SUBSET S : ~ (SumFunctionOnSet(f, u) <= SumFunctionOnSet(g, u))}
<1>1. SUFFICES ASSUME Bad # {} PROVE FALSE
    OBVIOUS
<1>2. PICK u \in Bad : \A w \in Bad : w \subseteq u => w = u
  <2>1. Bad \in SUBSET (SUBSET S)
    OBVIOUS
  <2>. HIDE DEF Bad
  <2>. QED
    BY <1>1, <2>1, SmallestSubset
<1>3. IsFiniteSet(u) /\ u \in SUBSET S
    BY <1>2, FS_Subset
<1>4. u # {}
  <2>1. SumFunctionOnSet(f, {}) <= SumFunctionOnSet(g, {})
    BY SumEmpty
  <2>. QED
    BY <1>2, <2>1
<1>. DEFINE w == u \ {Picked(u)}
<1>5. /\ Picked(u) \in u
      /\ SumFunctionOnSet(f, u) = f[Picked(u)] + SumFunctionOnSet(f, w)
      /\ SumFunctionOnSet(g, u) = g[Picked(u)] + SumFunctionOnSet(g, w)
    BY <1>3, <1>4, SumPicked
<1>6. SumFunctionOnSet(f, w) <= SumFunctionOnSet(g, w)
    BY <1>2, <1>3, <1>5
<1>7. IsFiniteSet(w) /\ w \in SUBSET S
    BY <1>3, FS_RemoveElement
<1>8. SumFunctionOnSet(f, w) \in Int /\ SumFunctionOnSet(g, w) \in Int
    BY <1>7, SumType
<1>. QED
    BY <1>2, <1>3, <1>5, <1>6, <1>8

\* A sum of natural numbers is one.
LEMMA SumNat ==
    ASSUME NEW f, NEW S, IsFiniteSet(S), \A s \in S : f[s] \in Nat
    PROVE  SumFunctionOnSet(f, S) \in Nat
<1>. DEFINE zero == [s \in S |-> 0]
<1>1. SumFunctionOnSet(zero, S) = 0
    BY SumZero
<1>2. SumFunctionOnSet(zero, S) <= SumFunctionOnSet(f, S)
    BY SumMonotone
<1>3. SumFunctionOnSet(f, S) \in Int
    BY SumType
<1>. QED
    BY <1>1, <1>2, <1>3

\* A sum over two sets that have nothing in common is that over their union.
LEMMA SumUnion ==
    ASSUME NEW f, NEW S, IsFiniteSet(S), NEW T, IsFiniteSet(T), S \intersect T = {},
           \A s \in S \union T : f[s] \in Int
    PROVE  SumFunctionOnSet(f, S \union T) = SumFunctionOnSet(f, S) + SumFunctionOnSet(f, T)
<1>. DEFINE Bad == {u \in SUBSET T : SumFunctionOnSet(f, S \union u)
                                        # SumFunctionOnSet(f, S) + SumFunctionOnSet(f, u)}
<1>1. SUFFICES ASSUME Bad # {} PROVE FALSE
    OBVIOUS
<1>2. PICK u \in Bad : \A w \in Bad : w \subseteq u => w = u
  <2>1. Bad \in SUBSET (SUBSET T)
    OBVIOUS
  <2>. HIDE DEF Bad
  <2>. QED
    BY <1>1, <2>1, SmallestSubset
<1>3. IsFiniteSet(u) /\ u \in SUBSET T
    BY <1>2, FS_Subset
<1>4. SumFunctionOnSet(f, S) \in Int
    BY SumType
<1>5. u # {}
  <2>1. S \union {} = S
    OBVIOUS
  <2>2. SumFunctionOnSet(f, S \union {}) = SumFunctionOnSet(f, S) + SumFunctionOnSet(f, {})
    BY <1>4, <2>1, SumEmpty
  <2>. QED
    BY <1>2, <2>2
<1>6. PICK y \in u : TRUE
    BY <1>5
<1>. DEFINE w == u \ {y}
            V == S \union w
<1>7. SumFunctionOnSet(f, V) = SumFunctionOnSet(f, S) + SumFunctionOnSet(f, w)
    BY <1>2, <1>3, <1>6
<1>8. IsFiniteSet(w) /\ w \in SUBSET T /\ IsFiniteSet(V)
    BY <1>3, FS_RemoveElement, FS_Union
<1>9. SumFunctionOnSet(f, u) = f[y] + SumFunctionOnSet(f, w) /\ f[y] \in Int
    BY <1>3, <1>6, SumRemove
<1>10. V \union {y} = S \union u /\ y \notin V
    BY <1>3, <1>6
<1>11. SumFunctionOnSet(f, w) \in Int
    BY <1>8, SumType
<1>12. SumFunctionOnSet(f, V \union {y}) = f[y] + SumFunctionOnSet(f, V)
  <2>1. \A s \in V : f[s] \in Int
    BY <1>8
  <2>. HIDE DEF V
  <2>. QED
    BY <1>8, <1>9, <1>10, <2>1, SumAdd
<1>13. SumFunctionOnSet(f, S \union u) # SumFunctionOnSet(f, S) + SumFunctionOnSet(f, u)
    BY <1>2
<1>14. SumFunctionOnSet(f, S \union u) = f[y] + SumFunctionOnSet(f, V)
    BY <1>10, <1>12
<1>. HIDE DEF V, w
<1>. QED
    BY <1>4, <1>7, <1>9, <1>11, <1>13, <1>14

-----------------------------------------------------------------------------

\* A finite set of integers has a largest element.
LEMMA MaxIsLargest ==
    ASSUME NEW S, IsFiniteSet(S), S # {}
    PROVE  S \subseteq Int => Max(S) \in S /\ \A x \in S : Max(S) >= x
<1>. DEFINE Bad == {u \in SUBSET S : u # {} /\ ~ \E m \in u : \A x \in u : m >= x}
<1>1. Bad = {} => Max(S) \in S /\ \A x \in S : Max(S) >= x
    BY DEF Max
<1>2. SUFFICES ASSUME Bad # {} PROVE ~ (S \subseteq Int)
    BY <1>1
<1>3. PICK u \in Bad : \A w \in Bad : w \subseteq u => w = u
  <2>1. Bad \in SUBSET (SUBSET S)
    OBVIOUS
  <2>. HIDE DEF Bad
  <2>. QED
    BY <1>2, <2>1, SmallestSubset
<1>4. SUFFICES ASSUME S \subseteq Int PROVE FALSE
    OBVIOUS
<1>5. PICK y \in u : TRUE
    BY <1>3
<1>6. u \ {y} # {}
    BY <1>3, <1>4, <1>5
<1>7. PICK m \in u \ {y} : \A x \in u \ {y} : m >= x
  <2>1. u \ {y} \notin Bad /\ u \ {y} \in SUBSET S
    BY <1>3, <1>5
  <2>. QED
    BY <1>6, <2>1
<1>8. m >= y \/ y >= m
    BY <1>3, <1>4, <1>5, <1>7
<1>9. CASE m >= y
    BY <1>3, <1>4, <1>7, <1>9
<1>10. CASE y >= m
    BY <1>3, <1>4, <1>5, <1>7, <1>10
<1>. QED
    BY <1>8, <1>9, <1>10

\* And a smallest one.
LEMMA MinIsSmallest ==
    ASSUME NEW S, IsFiniteSet(S), S # {}
    PROVE  S \subseteq Int => Min(S) \in S /\ \A x \in S : Min(S) <= x
<1>. DEFINE Bad == {u \in SUBSET S : u # {} /\ ~ \E m \in u : \A x \in u : m <= x}
<1>1. Bad = {} => Min(S) \in S /\ \A x \in S : Min(S) <= x
    BY DEF Min
<1>2. SUFFICES ASSUME Bad # {} PROVE ~ (S \subseteq Int)
    BY <1>1
<1>3. PICK u \in Bad : \A w \in Bad : w \subseteq u => w = u
  <2>1. Bad \in SUBSET (SUBSET S)
    OBVIOUS
  <2>. HIDE DEF Bad
  <2>. QED
    BY <1>2, <2>1, SmallestSubset
<1>4. SUFFICES ASSUME S \subseteq Int PROVE FALSE
    OBVIOUS
<1>5. PICK y \in u : TRUE
    BY <1>3
<1>6. u \ {y} # {}
    BY <1>3, <1>4, <1>5
<1>7. PICK m \in u \ {y} : \A x \in u \ {y} : m <= x
  <2>1. u \ {y} \notin Bad /\ u \ {y} \in SUBSET S
    BY <1>3, <1>5
  <2>. QED
    BY <1>6, <2>1
<1>8. m <= y \/ y <= m
    BY <1>3, <1>4, <1>5, <1>7
<1>9. CASE m <= y
    BY <1>3, <1>4, <1>7, <1>9
<1>10. CASE y <= m
    BY <1>3, <1>4, <1>5, <1>7, <1>10
<1>. QED
    BY <1>8, <1>9, <1>10

================================================================================
