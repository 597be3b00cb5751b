-------------------------- MODULE CostQueriesProofs --------------------------
(***************************************************************************)
(* Proofs about the sums of the cost queries.                              *)
(***************************************************************************)
EXTENDS CostQueries, SetInduction

(***************************************************************************)
(* The recursion behind SumValues: the fold takes a member out of the set, *)
(* whichever CHOOSE names.                                                 *)
(***************************************************************************)
Pick(s) == CHOOSE x \in s : TRUE
Body(f, g) == [s \in SUBSET DOMAIN f |->
                 IF s = {} THEN 0 ELSE f[Pick(s)] + g[s \ {Pick(s)}]]
Partial(f) == CHOOSE g : g = Body(f, g)

\* SumValues reads the recursive function at the whole domain.
LEMMA SumIsPartial ==
  ASSUME NEW f
  PROVE  SumValues(f) = Partial(f)[DOMAIN f]
BY DEF SumValues, MapThenSumSet, MapThenFoldSet, Partial, Body, Pick

\* The recursive function exists: up to any number of members it can be built
\* from the one for a member less.
LEMMA PartialExists ==
  ASSUME NEW S, IsFiniteSet(S), NEW f \in [S -> Int]
  PROVE  Partial(f) = Body(f, Partial(f))
<1> DEFINE Level(n) == {s \in SUBSET S : Cardinality(s) <= n}
           Step(g, s) == IF s = {} THEN 0 ELSE f[Pick(s)] + g[s \ {Pick(s)}]
           Good(n, g) == DOMAIN g = Level(n) /\ \A s \in Level(n) : g[s] = Step(g, s)
           Missing == {n \in Nat : ~ \E g : Good(n, g)}
<1>1. \A s \in SUBSET S : IsFiniteSet(s) /\ Cardinality(s) \in Nat
  BY FS_Subset, FS_CardinalityType
<1>2. \A s \in SUBSET S : s # {} =>
         /\ Pick(s) \in s /\ s \ {Pick(s)} \in SUBSET S
         /\ Cardinality(s \ {Pick(s)}) = Cardinality(s) - 1
  <2> SUFFICES ASSUME NEW s \in SUBSET S, s # {}
               PROVE  /\ Pick(s) \in s /\ s \ {Pick(s)} \in SUBSET S
                      /\ Cardinality(s \ {Pick(s)}) = Cardinality(s) - 1
    OBVIOUS
  <2>1. Pick(s) \in s
    BY DEF Pick
  <2> QED
    BY <2>1, <1>1, FS_RemoveElement
<1>3. ASSUME Missing # {} PROVE FALSE
  <2>1. PICK m \in Missing : \A k \in Missing : m <= k
    <3>1. Missing \in SUBSET Nat
      OBVIOUS
    <3> HIDE DEF Missing
    <3> QED
      BY <1>3, <3>1, LeastOf
  <2>2. m # 0
    <3> DEFINE g == [s \in Level(0) |-> 0]
    <3>1. \A s \in Level(0) : s = {}
      <4> SUFFICES ASSUME NEW s \in SUBSET S, Cardinality(s) <= 0 PROVE s = {}
        OBVIOUS
      <4>1. IsFiniteSet(s) /\ Cardinality(s) = 0
        BY <1>1
      <4> QED
        BY <4>1, FS_EmptySet
    <3> HIDE DEF Level
    <3>2. Good(0, g)
      BY <3>1
    <3> QED
      BY <3>2
  <2>3. m - 1 \in Nat /\ m \in Nat
    BY <2>2
  <2>4. PICK g : Good(m - 1, g)
    <3>1. m - 1 \notin Missing
      <4> HIDE DEF Missing
      <4> QED
        BY <2>1, <2>3
    <3> HIDE DEF Good
    <3> QED
      BY <2>3, <3>1
  <2> DEFINE h == [s \in Level(m) |-> Step(g, s)]
  <2>5. Level(m - 1) \subseteq Level(m)
    BY <1>1, <2>3
  <2>6. \A s \in Level(m) : s # {} => s \ {Pick(s)} \in Level(m - 1)
    BY <1>1, <1>2, <2>3
  <2> HIDE DEF Level
  <2>7. \A s \in Level(m - 1) : h[s] = g[s]
    BY <2>4, <2>5
  <2>8. \A s \in Level(m) : h[s] = Step(h, s)
    <3> SUFFICES ASSUME NEW s \in Level(m) PROVE h[s] = Step(h, s)
      OBVIOUS
    <3>1. CASE s = {}
      BY <3>1
    <3>2. CASE s # {}
      <4>1. h[s \ {Pick(s)}] = g[s \ {Pick(s)}]
        BY <2>6, <2>7, <3>2
      <4>2. h[s] = Step(g, s)
        OBVIOUS
      <4> HIDE DEF h
      <4> QED
        BY <3>2, <4>1, <4>2
    <3> QED
      BY <3>1, <3>2
  <2>9. Good(m, h)
    BY <2>8
  <2> QED
    BY <2>1, <2>9
<1>4. PICK g : Good(Cardinality(S), g)
  <2>1. Cardinality(S) \in Nat
    BY <1>1
  <2> QED
    BY <1>3, <2>1
<1>5. Level(Cardinality(S)) = SUBSET S
  BY FS_Subset
<1>6. \E x : x = Body(f, x)
  <2> DEFINE b == [s \in SUBSET S |-> g[s]]
  <2>1. \A s \in SUBSET S : b[s] = Step(b, s)
    <3> SUFFICES ASSUME NEW s \in SUBSET S PROVE b[s] = Step(b, s)
      OBVIOUS
    <3>1. g[s] = Step(g, s)
      BY <1>4, <1>5
    <3>2. s # {} => b[s \ {Pick(s)}] = g[s \ {Pick(s)}]
      BY <1>2
    <3>3. b[s] = g[s]
      OBVIOUS
    <3> HIDE DEF b
    <3> QED
      BY <3>1, <3>2, <3>3
  <2>2. b = [s \in SUBSET S |-> Step(b, s)]
    BY <2>1
  <2>3. b = Body(f, b)
    BY <2>2 DEF Body
  <2> QED
    BY <2>3
<1> QED
  BY <1>6 DEF Partial

\* What the recursion says of a part of the domain.
LEMMA PartialStep ==
  ASSUME NEW S, IsFiniteSet(S), NEW f \in [S -> Int]
  PROVE  /\ Partial(f)[{}] = 0
         /\ \A s \in SUBSET S : s # {} =>
              Pick(s) \in s /\ Partial(f)[s] = f[Pick(s)] + Partial(f)[s \ {Pick(s)}]
<1> DEFINE g == Partial(f)
<1>1. g = Body(f, g)
  BY PartialExists
<1> HIDE DEF g
<1>2. \A s \in SUBSET S : g[s] = IF s = {} THEN 0 ELSE f[Pick(s)] + g[s \ {Pick(s)}]
  BY <1>1 DEF Body
<1>3. \A s : s # {} => Pick(s) \in s
  BY DEF Pick
<1> QED
  BY <1>2, <1>3 DEF g

LEMMA PartialType ==
  ASSUME NEW S, IsFiniteSet(S), NEW f \in [S -> Int], NEW s \in SUBSET S
  PROVE  Partial(f)[s] \in Int
<1> DEFINE g == Partial(f)
           Wrong == {t \in SUBSET S : g[t] \notin Int}
<1>1. /\ g[{}] = 0
      /\ \A t \in SUBSET S : t # {} => Pick(t) \in t /\ g[t] = f[Pick(t)] + g[t \ {Pick(t)}]
  BY PartialStep
<1> HIDE DEF g
<1>2. ASSUME Wrong # {} PROVE FALSE
  <2>1. PICK t \in Wrong : \A v \in Wrong : v \subseteq t => v = t
    <3>1. Wrong \in SUBSET SUBSET S
      OBVIOUS
    <3> HIDE DEF Wrong
    <3> QED
      BY <1>2, <3>1, MinimalSubset
  <2>2. t # {} /\ t \in SUBSET S
    <3>1. t \in SUBSET S /\ g[t] \notin Int
      BY <2>1
    <3>2. g[{}] \in Int
      BY <1>1
    <3> QED
      BY <3>1, <3>2
  <2>3. Pick(t) \in t /\ g[t] = f[Pick(t)] + g[t \ {Pick(t)}]
    BY <1>1, <2>2
  <2>4. t \ {Pick(t)} \notin Wrong /\ t \ {Pick(t)} \in SUBSET S
    BY <2>1, <2>2, <2>3
  <2>5. g[t \ {Pick(t)}] \in Int /\ f[Pick(t)] \in Int
    BY <2>2, <2>3, <2>4
  <2> QED
    BY <2>1, <2>3, <2>5
<1> QED
  BY <1>2 DEF g

\* A sum can be taken in any order.
LEMMA PartialRemove ==
  ASSUME NEW S, IsFiniteSet(S), NEW f \in [S -> Int], NEW s \in SUBSET S, NEW x \in s
  PROVE  Partial(f)[s] = f[x] + Partial(f)[s \ {x}]
<1> DEFINE g == Partial(f)
           Wrong == {t \in SUBSET S : \E y \in t : g[t] # f[y] + g[t \ {y}]}
<1>1. \A t \in SUBSET S : t # {} => Pick(t) \in t /\ g[t] = f[Pick(t)] + g[t \ {Pick(t)}]
  BY PartialStep
<1>2. \A t \in SUBSET S : g[t] \in Int
  BY PartialType
<1> HIDE DEF g
<1>3. ASSUME Wrong # {} PROVE FALSE
  <2>1. PICK t \in Wrong : \A v \in Wrong : v \subseteq t => v = t
    <3>1. Wrong \in SUBSET SUBSET S
      OBVIOUS
    <3> HIDE DEF Wrong
    <3> QED
      BY <1>3, <3>1, MinimalSubset
  <2>2. PICK y \in t : g[t] # f[y] + g[t \ {y}]
    BY <2>1
  <2> DEFINE p == Pick(t)
  <2>3. t \in SUBSET S /\ p \in t /\ g[t] = f[p] + g[t \ {p}]
    BY <1>1, <2>1, <2>2
  <2>4. p # y
    BY <2>2, <2>3
  <2> HIDE DEF p
  <2>5. /\ t \ {p} \in SUBSET S /\ t \ {p} \notin Wrong /\ y \in t \ {p}
        /\ t \ {y} \in SUBSET S /\ t \ {y} \notin Wrong /\ p \in t \ {y}
    BY <2>1, <2>2, <2>3, <2>4
  <2>6. g[t \ {p}] = f[y] + g[(t \ {p}) \ {y}]
    BY <2>5
  <2>7. g[t \ {y}] = f[p] + g[(t \ {y}) \ {p}]
    BY <2>5
  <2>8. (t \ {p}) \ {y} = (t \ {y}) \ {p} /\ (t \ {p}) \ {y} \in SUBSET S
    BY <2>3
  <2>9. f[y] \in Int /\ f[p] \in Int /\ g[(t \ {p}) \ {y}] \in Int
    BY <1>2, <2>2, <2>3, <2>8
  <2> DEFINE rest == g[(t \ {p}) \ {y}]
  <2>10. g[t] = f[p] + (f[y] + rest) /\ g[t \ {y}] = f[p] + rest
    BY <2>3, <2>6, <2>7, <2>8
  <2> HIDE DEF rest
  <2>11. \A a, b, c \in Int : a + (b + c) = b + (a + c)
    OBVIOUS
  <2>12. g[t] = f[y] + g[t \ {y}]
    BY <2>9, <2>10, <2>11 DEF rest
  <2> QED
    BY <2>2, <2>12
<1> QED
  BY <1>3 DEF g

\* Two disjoint parts.
LEMMA PartialUnion ==
  ASSUME NEW S, IsFiniteSet(S), NEW f \in [S -> Int],
         NEW s \in SUBSET S, NEW t \in SUBSET S, s \cap t = {}
  PROVE  Partial(f)[s \cup t] = Partial(f)[s] + Partial(f)[t]
<1> DEFINE g == Partial(f)
           Wrong == {u \in SUBSET S : u \cap t = {} /\ g[u \cup t] # g[u] + g[t]}
<1>1. g[{}] = 0 /\ \A u \in SUBSET S : \A x \in u : g[u] = f[x] + g[u \ {x}]
  BY PartialStep, PartialRemove
<1>2. \A u \in SUBSET S : g[u] \in Int
  BY PartialType
<1> HIDE DEF g
<1>3. ASSUME Wrong # {} PROVE FALSE
  <2>1. PICK u \in Wrong : \A v \in Wrong : v \subseteq u => v = u
    <3>1. Wrong \in SUBSET SUBSET S
      OBVIOUS
    <3> HIDE DEF Wrong
    <3> QED
      BY <1>3, <3>1, MinimalSubset
  <2>2. u \in SUBSET S /\ u \cap t = {} /\ g[u \cup t] # g[u] + g[t]
    BY <2>1
  <2>3. u # {}
    <3>1. ASSUME u = {} PROVE FALSE
      <4>1. u \cup t = t /\ g[u] = 0
        BY <3>1, <1>1
      <4>2. g[t] \in Int
        BY <1>2
      <4>3. g[u] + g[t] = g[t]
        BY <4>1, <4>2
      <4> QED
        BY <4>1, <4>3, <2>2
    <3> QED
      BY <3>1
  <2>4. PICK x \in u : TRUE
    BY <2>3
  <2>5. u \ {x} \in SUBSET S /\ u \ {x} \notin Wrong /\ (u \ {x}) \cap t = {}
    BY <2>1, <2>2, <2>4
  <2>6. g[(u \ {x}) \cup t] = g[u \ {x}] + g[t]
    BY <2>5
  <2>7. (u \cup t) \ {x} = (u \ {x}) \cup t /\ u \cup t \in SUBSET S /\ x \in u \cup t
    BY <2>2, <2>4
  <2>8. g[u] = f[x] + g[u \ {x}] /\ g[u \cup t] = f[x] + g[(u \cup t) \ {x}]
    BY <1>1, <2>2, <2>4, <2>7
  <2>9. f[x] \in Int /\ g[u \ {x}] \in Int /\ g[t] \in Int
    BY <1>2, <2>2, <2>4, <2>5
  <2>10. g[u \cup t] = f[x] + (g[u \ {x}] + g[t])
    BY <2>6, <2>7, <2>8
  <2>11. \A a, b, c \in Int : a + (b + c) = (a + b) + c
    OBVIOUS
  <2>12. g[u \cup t] = (f[x] + g[u \ {x}]) + g[t]
    BY <2>9, <2>10, <2>11
  <2> QED
    BY <2>2, <2>8, <2>12
<1> QED
  BY <1>3 DEF g

\* Only the values on the part count.
LEMMA PartialAgrees ==
  ASSUME NEW S, IsFiniteSet(S), NEW f \in [S -> Int],
         NEW T, IsFiniteSet(T), NEW h \in [T -> Int],
         NEW s \in SUBSET S, s \subseteq T, \A x \in s : f[x] = h[x]
  PROVE  Partial(f)[s] = Partial(h)[s]
<1> DEFINE g == Partial(f)
           k == Partial(h)
           Wrong == {u \in SUBSET S : u \subseteq s /\ g[u] # k[u]}
<1>1. g[{}] = 0 /\ \A u \in SUBSET S : \A x \in u : g[u] = f[x] + g[u \ {x}]
  BY PartialStep, PartialRemove
<1>2. k[{}] = 0 /\ \A u \in SUBSET T : \A x \in u : k[u] = h[x] + k[u \ {x}]
  BY PartialStep, PartialRemove
<1> HIDE DEF g, k
<1>3. ASSUME Wrong # {} PROVE FALSE
  <2>1. PICK u \in Wrong : \A v \in Wrong : v \subseteq u => v = u
    <3>1. Wrong \in SUBSET SUBSET S
      OBVIOUS
    <3> HIDE DEF Wrong
    <3> QED
      BY <1>3, <3>1, MinimalSubset
  <2>2. u \in SUBSET S /\ u \subseteq s /\ g[u] # k[u] /\ u \in SUBSET T
    BY <2>1
  <2>3. u # {}
    BY <1>1, <1>2, <2>2
  <2>4. PICK x \in u : TRUE
    BY <2>3
  <2>5. u \ {x} \in SUBSET S /\ u \ {x} \notin Wrong /\ u \ {x} \subseteq s
    BY <2>1, <2>2, <2>4
  <2>6. g[u \ {x}] = k[u \ {x}] /\ f[x] = h[x]
    BY <2>2, <2>4, <2>5
  <2>7. g[u] = f[x] + g[u \ {x}] /\ k[u] = h[x] + k[u \ {x}]
    BY <1>1, <1>2, <2>2, <2>4
  <2> QED
    BY <2>2, <2>6, <2>7
<1> QED
  BY <1>3 DEF g, k

(***************************************************************************)
(* Sums over the rows of a table.                                          *)
(***************************************************************************)
LEMMA SumPart ==
  ASSUME NEW S, IsFiniteSet(S), NEW f \in [S -> Int], NEW s \in SUBSET S
  PROVE  SumValues([x \in s |-> f[x]]) = Partial(f)[s]
<1> DEFINE h == [x \in s |-> f[x]]
<1>1. IsFiniteSet(s) /\ h \in [s -> Int] /\ DOMAIN h = s /\ \A x \in s : f[x] = h[x]
  BY FS_Subset
<1> HIDE DEF h
<1>2. SumValues(h) = Partial(h)[s]
  BY <1>1, SumIsPartial
<1>3. Partial(f)[s] = Partial(h)[s]
  BY <1>1, PartialAgrees
<1> QED
  BY <1>2, <1>3 DEF h

\* A table whose rows have a whole amount.
Summable(rows) == IsFiniteSet(rows) /\ \A r \in rows : AmountOf(r) \in Int

LEMMA SubsetSummable ==
  ASSUME NEW rows, Summable(rows), NEW s \in SUBSET rows
  PROVE  Summable(s)
BY FS_Subset DEF Summable

LEMMA SumOfPart ==
  ASSUME NEW rows, Summable(rows), NEW s \in SUBSET rows
  PROVE  /\ SumOf(s) = Partial([r \in rows |-> AmountOf(r)])[s]
         /\ SumOf(s) \in Int
<1> DEFINE f == [r \in rows |-> AmountOf(r)]
<1>1. f \in [rows -> Int] /\ IsFiniteSet(rows)
  BY DEF Summable
<1>2. [x \in s |-> f[x]] = [r \in s |-> AmountOf(r)]
  OBVIOUS
<1> HIDE DEF f
<1>3. SumValues([x \in s |-> f[x]]) = Partial(f)[s] /\ Partial(f)[s] \in Int
  BY <1>1, SumPart, PartialType
<1> QED
  BY <1>2, <1>3 DEF f, SumOf

LEMMA SumOfEmpty == SumOf({}) = 0
<1> DEFINE f == [r \in {} |-> AmountOf(r)]
<1>1. f \in [{} -> Int] /\ DOMAIN f = {} /\ IsFiniteSet({})
  BY FS_EmptySet
<1>2. SumOf({}) = SumValues(f)
  BY DEF SumOf
<1> HIDE DEF f
<1>3. SumValues(f) = Partial(f)[{}]
  BY <1>1, SumIsPartial
<1>4. Partial(f)[{}] = 0
  BY <1>1, PartialStep
<1> QED
  BY <1>2, <1>3, <1>4

\* The sum over two disjoint parts.
LEMMA SumOfUnion ==
  ASSUME NEW rows, Summable(rows), NEW s \in SUBSET rows, NEW t \in SUBSET rows, s \cap t = {}
  PROVE  SumOf(s \cup t) = SumOf(s) + SumOf(t)
<1> DEFINE f == [r \in rows |-> AmountOf(r)]
<1>1. f \in [rows -> Int] /\ IsFiniteSet(rows)
  BY DEF Summable
<1>2. /\ SumOf(s \cup t) = Partial(f)[s \cup t]
      /\ SumOf(s) = Partial(f)[s] /\ SumOf(t) = Partial(f)[t]
  <2>1. s \cup t \in SUBSET rows
    OBVIOUS
  <2> QED
    BY <2>1, SumOfPart
<1> HIDE DEF f
<1>3. Partial(f)[s \cup t] = Partial(f)[s] + Partial(f)[t]
  BY <1>1, PartialUnion
<1> QED
  BY <1>2, <1>3

\* GROUP BY: the sums of some groups add up to the sum of their rows.
LEMMA GroupsAddUp ==
  ASSUME NEW rows, Summable(rows), NEW key, NEW W, IsFiniteSet(W)
  PROVE  SumValues([v \in W |-> SumOf({r \in rows : key[r] = v})])
           = SumOf({r \in rows : key[r] \in W})
<1> DEFINE sums == [v \in W |-> SumOf({r \in rows : key[r] = v})]
           In(u) == {r \in rows : key[r] \in u}
           Wrong == {u \in SUBSET W : Partial(sums)[u] # SumOf(In(u))}
<1>1. \A v : {r \in rows : key[r] = v} \in SUBSET rows
  OBVIOUS
<1>2. sums \in [W -> Int] /\ DOMAIN sums = W
  BY <1>1, SumOfPart
<1>3. \A v \in W : sums[v] = SumOf({r \in rows : key[r] = v})
  OBVIOUS
<1> HIDE DEF sums
<1>4. ASSUME Wrong # {} PROVE FALSE
  <2>1. PICK u \in Wrong : \A v \in Wrong : v \subseteq u => v = u
    <3>1. Wrong \in SUBSET SUBSET W
      OBVIOUS
    <3> HIDE DEF Wrong
    <3> QED
      BY <1>4, <3>1, MinimalSubset
  <2>2. u \in SUBSET W /\ Partial(sums)[u] # SumOf(In(u))
    BY <2>1
  <2>3. u # {}
    <3>1. In({}) = {}
      OBVIOUS
    <3>2. Partial(sums)[{}] = 0
      BY <1>2, PartialStep
    <3> HIDE DEF In
    <3> QED
      BY <2>2, <3>1, <3>2, SumOfEmpty
  <2>4. PICK x \in u : TRUE
    BY <2>3
  <2> DEFINE one == {r \in rows : key[r] = x}
             rest == In(u \ {x})
  <2>5. Partial(sums)[u \ {x}] = SumOf(rest)
    BY <2>1, <2>2, <2>4
  <2>6. Partial(sums)[u] = sums[x] + Partial(sums)[u \ {x}]
    BY <1>2, <2>2, <2>4, PartialRemove
  <2>7. one \in SUBSET rows /\ rest \in SUBSET rows /\ one \cap rest = {}
    OBVIOUS
  <2>8. one \cup rest = In(u)
    BY <2>4
  <2>9. sums[x] = SumOf(one)
    BY <1>3, <2>2, <2>4
  <2> HIDE DEF one, rest, In
  <2>10. SumOf(one \cup rest) = SumOf(one) + SumOf(rest)
    BY <2>7, SumOfUnion
  <2> QED
    BY <2>2, <2>5, <2>6, <2>8, <2>9, <2>10
<1>5. Partial(sums)[W] = SumOf(In(W))
  BY <1>4
<1>6. SumValues(sums) = Partial(sums)[W]
  BY <1>2, SumIsPartial
<1> QED
  BY <1>5, <1>6 DEF sums

\* All of the groups.
LEMMA AllGroups ==
  ASSUME NEW rows, Summable(rows), NEW key, DOMAIN key = rows
  PROVE  /\ IsFiniteSet({key[r] : r \in rows})
         /\ SumValues([v \in {key[r] : r \in rows} |-> SumOf({r \in rows : key[r] = v})])
              = SumOf(rows)
<1> DEFINE V == {key[r] : r \in rows}
           k == [r \in rows |-> key[r]]
<1>1. k \in Surjection(rows, V)
  BY DEF Surjection
<1>2. IsFiniteSet(V)
  <2> HIDE DEF k, V
  <2> QED
    BY <1>1, FS_Surjection DEF Summable
<1>3. {r \in rows : key[r] \in V} = rows
  OBVIOUS
<1> HIDE DEF V
<1>4. SumValues([v \in V |-> SumOf({r \in rows : key[r] = v})]) = SumOf(rows)
  BY <1>2, <1>3, GroupsAddUp
<1> QED
  BY <1>2, <1>4 DEF V

LEMMA ProvidersAddUp ==
  ASSUME NEW rows, Summable(rows)
  PROVE  SumValues(ByProvider(rows)) = SumOf(rows)
<1> DEFINE key == [r \in rows |-> r.provider]
           V == {key[r] : r \in rows}
           sums == [v \in V |-> SumOf({r \in rows : key[r] = v})]
<1>1. V = {r.provider : r \in rows}
  OBVIOUS
<1>2. \A v : {r \in rows : key[r] = v} = {r \in rows : r.provider = v}
  OBVIOUS
<1>3. sums = ByProvider(rows)
  BY <1>1, <1>2 DEF ByProvider
<1>4. DOMAIN key = rows
  OBVIOUS
<1> HIDE DEF key
<1>5. SumValues(sums) = SumOf(rows)
  BY <1>4, AllGroups
<1> QED
  BY <1>3, <1>5

(***************************************************************************)
(* Periods.                                                                *)
(***************************************************************************)
\* A named window ends at end, whatever start date is given, and is not
\* negative.
LEMMA WindowType ==
  ASSUME NEW w \in Windows, NEW start, NEW e \in Int
  PROVE  /\ ResolveWindow(w, start, e) \in Int
         /\ ResolveWindow(w, start, e) <= e
         /\ ResolveWindow(w, start, e) = ResolveWindow(w, Unset, e)
<1>1. Day \in Nat /\ Month \in Nat \ {0}
  BY QueriesAssumption
<1>2. CASE w = "mtd"
  <2>1. e % Month \in Nat
    BY <1>1
  <2> QED
    BY <2>1, <1>2 DEF ResolveWindow, MonthStart
<1>3. CASE w = "7d"
  BY <1>1, <1>3 DEF ResolveWindow
<1>4. CASE w = "30d"
  BY <1>1, <1>4 DEF ResolveWindow
<1>5. CASE w = "90d"
  BY <1>1, <1>5 DEF ResolveWindow
<1> QED
  BY <1>2, <1>3, <1>4, <1>5 DEF Windows

Chosen(w) == IF w = Unset THEN "mtd" ELSE w

\* What /costs/totals compares.
LEMMA PeriodsType ==
  ASSUME NEW w \in Windows \cup {Unset}, NEW e \in Int
  PROVE  LET p == Periods(w, Unset, e)
         IN /\ Chosen(w) \in Windows
            /\ p.from = ResolveWindow(Chosen(w), Unset, e)
            /\ p.from \in Int /\ p.from <= e
            /\ p.prevEnd = p.from - Second /\ p.prevEnd \in Int
            /\ p.prevFrom = p.prevEnd - (e - p.from) /\ p.prevFrom \in Int
<1> DEFINE p == Periods(w, Unset, e)
           from == ResolveWindow(Chosen(w), Unset, e)
<1>1. Chosen(w) \in Windows
  BY DEF Chosen, Windows
<1>2. from \in Int /\ from <= e
  BY <1>1, WindowType
<1>3. Second \in Nat
  BY QueriesAssumption
<1>4. CurrentStart(w, Unset, e) = from
  BY DEF CurrentStart, Chosen
<1> HIDE DEF from
<1>5. /\ p.from = from /\ p.prevEnd = from - Second
      /\ p.prevFrom = (from - Second) - (e - from)
  BY <1>4 DEF Periods
<1> HIDE DEF p
<1>6. /\ p.from \in Int /\ p.from <= e
      /\ p.prevEnd = p.from - Second /\ p.prevEnd \in Int
      /\ p.prevFrom = p.prevEnd - (e - p.from) /\ p.prevFrom \in Int
  BY <1>2, <1>3, <1>5
<1> QED
  BY <1>1, <1>5, <1>6 DEF p, from

LEMMA TotalsOf ==
  ASSUME NEW rows, Summable(rows), NEW w, NEW e
  PROVE  LET p == Periods(w, Unset, e)
             t == CostTotals(rows, w, Unset, e)
         IN /\ t.mtd = SumOf(Between(rows, p.from, e))
            /\ t.prev = SumOf(Between(rows, p.prevFrom, p.prevEnd))
<1> DEFINE p == Periods(w, Unset, e)
           t == CostTotals(rows, w, Unset, e)
<1>1. /\ t.mtd = SumValues(ByProvider(Between(rows, p.from, e)))
      /\ t.prev = SumValues(ByProvider(Between(rows, p.prevFrom, p.prevEnd)))
  BY DEF CostTotals
<1> HIDE DEF p, t
<1>2. \A a, b : Between(rows, a, b) \in SUBSET rows
  BY DEF Between
<1>3. \A a, b : Summable(Between(rows, a, b))
  BY <1>2, SubsetSummable
<1>4. \A a, b : SumValues(ByProvider(Between(rows, a, b))) = SumOf(Between(rows, a, b))
  BY <1>3, ProvidersAddUp
<1> QED
  BY <1>1, <1>4 DEF p, t

\* Two times on whole seconds are not less than a second apart.
LEMMA NoMultipleBetween ==
  ASSUME NEW x \in Int, NEW y \in Int, NEW d \in Nat \ {0},
         x % d = 0, y % d = 0, y - d < x, x < y
  PROVE  FALSE
<1> DEFINE p == x \div d
           q == y \div d
<1>1. p \in Int /\ q \in Int /\ x = d * p /\ y = d * q
  OBVIOUS
<1> HIDE DEF p, q
<1>2. CASE p >= q
  <2>1. d * p >= d * q
    BY <1>1, <1>2
  <2> QED
    BY <1>1, <2>1
<1>3. CASE p <= q - 1
  <2>1. d * p <= d * (q - 1)
    BY <1>1, <1>3
  <2>2. d * (q - 1) = d * q - d
    BY <1>1
  <2> QED
    BY <1>1, <2>1, <2>2
<1> QED
  BY <1>1, <1>2, <1>3

LEMMA MultipleHasNoRest ==
  ASSUME NEW k \in Int, NEW d \in Nat \ {0}
  PROVE  (d * k) % d = 0
<1> DEFINE x == d * k
           q == x \div d
           m == x % d
<1>1. x \in Int
  OBVIOUS
<1> HIDE DEF x
<1>2. q \in Int /\ m \in 0..(d - 1) /\ x = d * q + m
  BY <1>1
<1> HIDE DEF q, m
<1>3. d * (k - q) = m
  <2>1. d * (k - q) = d * k - d * q
    BY <1>2
  <2> QED
    BY <1>1, <1>2, <2>1 DEF x
<1>4. CASE k - q >= 1
  <2>1. d * (k - q) >= d
    BY <1>2, <1>4
  <2> QED
    BY <1>2, <1>3, <2>1
<1>5. CASE k - q <= -1
  <2>1. d * (k - q) <= -d
    BY <1>2, <1>5
  <2> QED
    BY <1>2, <1>3, <2>1
<1>6. CASE k - q = 0
  BY <1>2, <1>3, <1>6 DEF m, x
<1> QED
  BY <1>2, <1>4, <1>5, <1>6

\* The month to date starts on a whole second, and so does a period that is
\* counted back from one.
LEMMA PeriodStartsOnSecond ==
  ASSUME NEW w \in Windows \cup {Unset}, NEW e \in Int,
         w \in {"mtd", Unset} \/ e % Second = 0
  PROVE  Periods(w, Unset, e).from % Second = 0
<1> DEFINE from == ResolveWindow(Chosen(w), Unset, e)
           a == Day \div Second
           b == Month \div Second
           c == e \div Second
           n == e \div Month
<1>1. /\ Second \in Nat \ {0} /\ Day \in Nat \ {0} /\ Month \in Nat \ {0}
      /\ Day % Second = 0 /\ Month % Second = 0
  BY QueriesAssumption
<1>2. /\ a \in Int /\ Day = Second * a
      /\ b \in Int /\ Month = Second * b
      /\ c \in Int /\ (e % Second = 0 => e = Second * c)
      /\ n \in Int /\ e - (e % Month) = Month * n
  BY <1>1
<1>3. Periods(w, Unset, e).from = from /\ Chosen(w) \in Windows
  BY PeriodsType
<1> HIDE DEF a, b, c, n
<1>4. \E k \in Int : from = Second * k
  <2>1. CASE Chosen(w) = "mtd"
    <3>1. from = Month * n
      BY <1>2, <2>1 DEF ResolveWindow, MonthStart
    <3>2. (Second * b) * n = Second * (b * n)
      BY <1>1, <1>2
    <3>3. b * n \in Int
      BY <1>2
    <3> HIDE DEF from
    <3> QED
      BY <1>2, <3>1, <3>2, <3>3
  <2>2. ASSUME NEW d \in Nat, e % Second = 0, from = e - d * Day
        PROVE  \E k \in Int : from = Second * k
    <3>1. Second * (c - d * a) = Second * c - d * (Second * a)
      BY <1>1, <1>2
    <3>2. c - d * a \in Int
      BY <1>2
    <3> HIDE DEF from
    <3> QED
      BY <1>2, <2>2, <3>1, <3>2
  <2>3. Chosen(w) # "mtd" => e % Second = 0
    BY DEF Chosen
  <2>4. CASE Chosen(w) = "7d"
    <3>1. from = e - 7 * Day
      BY <2>4 DEF ResolveWindow
    <3> QED
      BY <2>2, <2>3, <2>4, <3>1
  <2>5. CASE Chosen(w) = "30d"
    <3>1. from = e - 30 * Day
      BY <2>5 DEF ResolveWindow
    <3> QED
      BY <2>2, <2>3, <2>5, <3>1
  <2>6. CASE Chosen(w) = "90d"
    <3>1. from = e - 90 * Day
      BY <2>6 DEF ResolveWindow
    <3> QED
      BY <2>2, <2>3, <2>6, <3>1
  <2> QED
    BY <1>3, <2>1, <2>4, <2>5, <2>6 DEF Windows
<1> HIDE DEF from
<1> QED
  BY <1>1, <1>3, <1>4, MultipleHasNoRest

\* The two periods tile the time between them, but for the gap of a second.
LEMMA TotalsTile ==
  ASSUME NEW rows, Summable(rows), \A r \in rows : r.start \in Int,
         NEW w \in Windows \cup {Unset}, NEW e \in Int
  PROVE  LET p == Periods(w, Unset, e)
             t == CostTotals(rows, w, Unset, e)
             gap == {r \in rows : p.prevEnd < r.start /\ r.start < p.from}
             span == {r \in rows : p.prevFrom <= r.start /\ r.start <= e}
         IN /\ p.prevEnd - p.prevFrom = e - p.from
            /\ t.mtd + t.prev = SumOf(span \ gap)
            /\ w \in {"mtd", Unset} \/ e % Second = 0 => \A r \in gap : r.start % Second # 0
<1> DEFINE p == Periods(w, Unset, e)
           now == Between(rows, p.from, e)
           past == Between(rows, p.prevFrom, p.prevEnd)
           gap == {r \in rows : p.prevEnd < r.start /\ r.start < p.from}
           span == {r \in rows : p.prevFrom <= r.start /\ r.start <= e}
<1>1. /\ p.from \in Int /\ p.from <= e
      /\ p.prevEnd = p.from - Second /\ p.prevEnd \in Int
      /\ p.prevFrom = p.prevEnd - (e - p.from) /\ p.prevFrom \in Int
  BY PeriodsType
<1>2. Second \in Nat \ {0}
  BY QueriesAssumption
<1>3. w \in {"mtd", Unset} \/ e % Second = 0 => p.from % Second = 0
  BY PeriodStartsOnSecond
<1>4. now \in SUBSET rows /\ past \in SUBSET rows
  BY DEF Between
<1>5. /\ CostTotals(rows, w, Unset, e).mtd = SumOf(now)
      /\ CostTotals(rows, w, Unset, e).prev = SumOf(past)
  BY TotalsOf
<1> HIDE DEF p
<1>6. now \cap past = {}
  <2>1. ASSUME NEW r \in rows, p.from <= r.start, r.start <= p.prevEnd PROVE FALSE
    BY <1>1, <1>2, <2>1
  <2> QED
    BY <2>1 DEF Between
<1>7. now \cup past = span \ gap
  <2>1. ASSUME NEW r \in rows
        PROVE  \/ p.from <= r.start /\ r.start <= e
               \/ p.prevFrom <= r.start /\ r.start <= p.prevEnd
               <=> /\ p.prevFrom <= r.start /\ r.start <= e
                   /\ ~(p.prevEnd < r.start /\ r.start < p.from)
    BY <1>1, <1>2
  <2> QED
    BY <2>1 DEF Between
<1>8. SumOf(now \cup past) = SumOf(now) + SumOf(past)
  BY <1>4, <1>6, SumOfUnion
<1>9. ASSUME p.from % Second = 0, NEW r \in gap, r.start % Second = 0 PROVE FALSE
  <2>1. r.start \in Int /\ p.from - Second < r.start /\ r.start < p.from
    BY <1>1, <1>9
  <2> QED
    BY <1>1, <1>2, <1>9, <2>1, NoMultipleBetween
<1>10. p.prevEnd - p.prevFrom = e - p.from
  BY <1>1
<1> HIDE DEF now, past, span, gap
<1>11. /\ CostTotals(rows, w, Unset, e).mtd + CostTotals(rows, w, Unset, e).prev
            = SumOf(span \ gap)
       /\ w \in {"mtd", Unset} \/ e % Second = 0 => \A r \in gap : r.start % Second # 0
  BY <1>3, <1>5, <1>7, <1>8, <1>9
<1> QED
  BY <1>10, <1>11 DEF p, span, gap

(***************************************************************************)
(* The endpoints, over one period.                                         *)
(***************************************************************************)
\* LIMIT: an answer shorter than the limit is all there is.
LEMMA BelowTheLimit ==
  ASSUME NEW all, IsFiniteSet(all), NEW d \in SUBSET all, NEW limit \in Nat,
         Cardinality(d) = Min({limit, Cardinality(all)}), Cardinality(d) < limit
  PROVE  d = all
<1>1. Cardinality(all) \in Nat
  BY FS_CardinalityType
<1> DEFINE n == Cardinality(all)
<1> HIDE DEF n
<1>2. \E m \in {limit, n} : \A k \in {limit, n} : m <= k
  BY <1>1 DEF n
<1>3. Min({limit, n}) \in {limit, n}
  BY <1>2 DEF Min
<1>4. Cardinality(d) = Cardinality(all)
  BY <1>1, <1>3 DEF n
<1> QED
  BY <1>4, FS_Subset

\* /costs/summary adds up the rows of the period.
LEMMA SummaryOf ==
  ASSUME NEW rows, Summable(rows), NEW w, NEW e
  PROVE  LET s == CostSummary(rows, w, Unset, e)
             chosen == Between(rows, ResolveWindow(w, Unset, e), e)
         IN s.total = SumOf(chosen) /\ DOMAIN s.by_provider = {r.provider : r \in chosen}
<1> DEFINE chosen == Between(rows, ResolveWindow(w, Unset, e), e)
           s == CostSummary(rows, w, Unset, e)
<1>1. s.total = SumValues(ByProvider(chosen)) /\ s.by_provider = ByProvider(chosen)
  BY DEF CostSummary
<1>2. Summable(chosen)
  BY SubsetSummable DEF Between
<1>3. SumValues(ByProvider(chosen)) = SumOf(chosen)
  BY <1>2, ProvidersAddUp
<1> HIDE DEF s, chosen
<1>4. DOMAIN ByProvider(chosen) = {r.provider : r \in chosen}
  BY DEF ByProvider
<1> QED
  BY <1>1, <1>3, <1>4 DEF s, chosen

\* /costs adds up the rows of the period, and lists them.
LEMMA ListOf ==
  ASSUME NEW rows, Summable(rows), NEW w \in Windows, NEW e \in Int,
         NEW l \in ListCosts(rows, w, Unset, Unset, e, 1, 50), l.total < ListLimit
  PROVE  LET all == Between(rows, ResolveWindow(w, Unset, e), e)
         IN SumValues(l.totals) = SumOf(all) /\ l.data = all
<1> DEFINE all == Between(rows, ResolveWindow(w, Unset, e), e)
           before(r, q) == r.start > q.start \/ (r.start = q.start /\ r.cost > q.cost)
           entry(d) == [data |-> d, totals |-> ByProvider(d), total |-> Cardinality(d),
                        has_next |-> Cardinality(d) > 1 * 50, has_prev |-> 1 > 1]
<1>1. \E d \in FirstRows(all, ListLimit, before) : l = entry(d)
  BY DEF ListCosts
<1>2. PICK d \in FirstRows(all, ListLimit, before) : l = entry(d)
  BY <1>1
<1>3. d \in SUBSET all /\ Cardinality(d) = Min({ListLimit, Cardinality(all)})
  BY <1>2 DEF FirstRows
<1>4. l.data = d /\ l.totals = ByProvider(d) /\ l.total = Cardinality(d)
  BY <1>2
<1>5. all \in SUBSET rows
  BY DEF Between
<1> HIDE DEF all
<1>6. Summable(all) /\ IsFiniteSet(all)
  BY <1>5, SubsetSummable DEF Summable
<1>7. d = all
  BY <1>3, <1>4, <1>6, BelowTheLimit, QueriesAssumption
<1>8. SumValues(l.totals) = SumOf(all)
  BY <1>4, <1>6, <1>7, ProvidersAddUp
<1> QED
  BY <1>4, <1>7, <1>8 DEF all

\* A sum of zeros.
LEMMA PartialOfZeros ==
  ASSUME NEW S, IsFiniteSet(S), NEW f \in [S -> Int],
         NEW s \in SUBSET S, \A x \in s : f[x] = 0
  PROVE  Partial(f)[s] = 0
<1> DEFINE g == Partial(f)
           Wrong == {u \in SUBSET S : u \subseteq s /\ g[u] # 0}
<1>1. g[{}] = 0 /\ \A u \in SUBSET S : \A x \in u : g[u] = f[x] + g[u \ {x}]
  BY PartialStep, PartialRemove
<1> HIDE DEF g
<1>2. ASSUME Wrong # {} PROVE FALSE
  <2>1. PICK u \in Wrong : \A v \in Wrong : v \subseteq u => v = u
    <3>1. Wrong \in SUBSET SUBSET S
      OBVIOUS
    <3> HIDE DEF Wrong
    <3> QED
      BY <1>2, <3>1, MinimalSubset
  <2>2. u \in SUBSET S /\ u \subseteq s /\ g[u] # 0
    BY <2>1
  <2>3. PICK x \in u : TRUE
    BY <1>1, <2>2
  <2>4. u \ {x} \in SUBSET S /\ u \ {x} \notin Wrong /\ u \ {x} \subseteq s
    BY <2>1, <2>2, <2>3
  <2>5. g[u \ {x}] = 0 /\ f[x] = 0 /\ g[u] = f[x] + g[u \ {x}]
    BY <1>1, <2>2, <2>3, <2>4
  <2> QED
    BY <2>2, <2>5
<1> QED
  BY <1>2 DEF g

\* The net costs of rows add up to what the rows count for, less the rows that
\* count with their full cost.
LEMMA NetsAddUp ==
  ASSUME NEW rows, Summable(rows), \A r \in rows : r.net \in Int
  PROVE  SumValues([r \in rows |-> r.net])
           = SumOf(rows) - SumOf({r \in rows : r.net = 0})
<1> DEFINE free == {r \in rows : r.net = 0}
           paid == rows \ free
           f == [r \in rows |-> AmountOf(r)]
           h == [r \in rows |-> r.net]
<1>1. /\ f \in [rows -> Int] /\ h \in [rows -> Int] /\ DOMAIN h = rows
      /\ IsFiniteSet(rows)
  BY DEF Summable
<1>2. /\ free \in SUBSET rows /\ paid \in SUBSET rows /\ rows \in SUBSET rows
      /\ free \cap paid = {} /\ free \cup paid = rows
  OBVIOUS
<1>3. (\A r \in free : h[r] = 0) /\ (\A r \in paid : h[r] = f[r])
  BY DEF AmountOf
<1>4. SumOf(paid) = Partial(f)[paid] /\ SumOf(paid) \in Int /\ SumOf(free) \in Int
  BY <1>2, SumOfPart
<1> HIDE DEF free, paid, f, h
<1>5. SumOf(rows) = SumOf(free) + SumOf(paid)
  BY <1>2, SumOfUnion
<1>6. SumValues(h) = Partial(h)[rows]
  BY <1>1, SumIsPartial
<1>7. Partial(h)[free \cup paid] = Partial(h)[free] + Partial(h)[paid]
  BY <1>1, <1>2, PartialUnion
<1>8. Partial(h)[free] = 0
  BY <1>1, <1>2, <1>3, PartialOfZeros
<1>9. Partial(h)[paid] = Partial(f)[paid]
  BY <1>1, <1>2, <1>3, PartialAgrees
<1>10. SumValues(h) = SumOf(rows) - SumOf(free)
  <2>1. SumValues(h) = Partial(h)[free] + Partial(h)[paid]
    BY <1>2, <1>6, <1>7
  <2> QED
    BY <1>4, <1>5, <1>8, <1>9, <2>1
<1> QED
  BY <1>10 DEF free, h

\* /costs/export has the rows of the period with their net cost.
LEMMA ExportOf ==
  ASSUME NEW rows, Summable(rows), \A r \in rows : r.net \in Int,
         NEW w \in Windows, NEW e \in Int,
         NEW x \in ExportCosts(rows, w, Unset, e, e), Cardinality(DOMAIN x) < ExportLimit
  PROVE  LET all == Between(rows, ResolveWindow(w, Unset, e), e)
         IN /\ DOMAIN x = all
            /\ SumValues(x) = SumOf(all) - SumOf({r \in all : r.net = 0})
<1> DEFINE all == Between(rows, ResolveWindow(w, Unset, e), e)
           before(r, q) == r.start > q.start
           nets(d) == [r \in d |-> r.net]
<1>1. ResolveWindow(w, e, e) = ResolveWindow(w, Unset, e)
  BY WindowType
<1>2. (IF Unset = Unset THEN e ELSE Unset) = e
  OBVIOUS
<1>3. \E d \in FirstRows(all, ExportLimit, before) : x = nets(d)
  BY <1>1, <1>2 DEF ExportCosts
<1>4. PICK d \in FirstRows(all, ExportLimit, before) : x = nets(d)
  BY <1>3
<1>5. d \in SUBSET all /\ Cardinality(d) = Min({ExportLimit, Cardinality(all)})
  BY <1>4 DEF FirstRows
<1>6. DOMAIN x = d
  BY <1>4
<1>7. all \in SUBSET rows
  BY DEF Between
<1> HIDE DEF all
<1>8. Summable(all) /\ IsFiniteSet(all) /\ \A r \in all : r.net \in Int
  BY <1>7, SubsetSummable DEF Summable
<1>9. d = all
  BY <1>5, <1>6, <1>8, BelowTheLimit, QueriesAssumption
<1>10. SumValues(nets(all)) = SumOf(all) - SumOf({r \in all : r.net = 0})
  BY <1>8, NetsAddUp
<1> QED
  BY <1>4, <1>6, <1>9, <1>10 DEF all

GroupSums(rows, key) == [v \in {key[r] : r \in rows} |-> SumOf({r \in rows : key[r] = v})]

\* The groups of a GROUP BY query with a LIMIT that does not cut in.
LEMMA GroupsOf ==
  ASSUME NEW rows, Summable(rows), NEW key, DOMAIN key = rows
  PROVE  \A g \in LargestGroups(GroupSums(rows, key)) :
           /\ g \subseteq {key[r] : r \in rows}
           /\ Cardinality(g) < GroupLimit =>
                SumValues([k \in g |-> GroupSums(rows, key)[k]]) = SumOf(rows)
<1> DEFINE V == {key[r] : r \in rows}
           sums == GroupSums(rows, key)
<1> SUFFICES ASSUME NEW g \in LargestGroups(sums)
             PROVE  /\ g \subseteq V
                    /\ Cardinality(g) < GroupLimit => SumValues([k \in g |-> sums[k]]) = SumOf(rows)
  OBVIOUS
<1>1. DOMAIN sums = V
  BY DEF GroupSums
<1>2. IsFiniteSet(V) /\ SumValues(sums) = SumOf(rows)
  BY AllGroups DEF GroupSums
<1>3. g \in SUBSET V /\ Cardinality(g) = Min({GroupLimit, Cardinality(V)})
  BY <1>1 DEF LargestGroups
<1>4. [k \in V |-> sums[k]] = sums
  BY DEF GroupSums
<1> HIDE DEF V, sums
<1>5. Cardinality(g) < GroupLimit => g = V
  BY <1>2, <1>3, BelowTheLimit, QueriesAssumption
<1> QED
  BY <1>2, <1>3, <1>4, <1>5

\* /costs/breakdown, by service.
LEMMA BreakdownOf ==
  ASSUME NEW rows, Summable(rows), NEW w, NEW e, NEW b \in CostBreakdown(rows, w, Unset, e)
  PROVE  LET chosen == Between(rows, ResolveWindow(w, Unset, e), e)
         IN /\ Cardinality(DOMAIN b) < GroupLimit => SumValues(b) = SumOf(chosen)
            /\ DOMAIN b \subseteq {r.service : r \in chosen}
<1> DEFINE chosen == Between(rows, ResolveWindow(w, Unset, e), e)
           key == [r \in chosen |-> r.service]
           V == {key[r] : r \in chosen}
           sums == GroupSums(chosen, key)
           flat == [k \in {r.service : r \in chosen} |-> SumOf({r \in chosen : r.service = k})]
<1>1. chosen \in SUBSET rows
  BY DEF Between
<1>2. PICK g \in LargestGroups(flat) : b = [k \in g |-> flat[k]]
  BY DEF CostBreakdown
<1> HIDE DEF chosen
<1>3. Summable(chosen)
  BY <1>1, SubsetSummable
<1>4. V = {r.service : r \in chosen}
  OBVIOUS
<1>5. \A v : {r \in chosen : key[r] = v} = {r \in chosen : r.service = v}
  OBVIOUS
<1>6. flat = sums
  BY <1>4, <1>5 DEF GroupSums
<1>7. DOMAIN key = chosen
  OBVIOUS
<1> HIDE DEF key, flat
<1>8. \A h \in LargestGroups(sums) :
        /\ h \subseteq V
        /\ Cardinality(h) < GroupLimit => SumValues([k \in h |-> sums[k]]) = SumOf(chosen)
  BY <1>3, <1>7, GroupsOf
<1>9. /\ g \subseteq V
      /\ Cardinality(g) < GroupLimit => SumValues([k \in g |-> flat[k]]) = SumOf(chosen)
  <2> HIDE DEF sums, V
  <2> QED
    BY <1>2, <1>6, <1>8
<1> QED
  BY <1>2, <1>4, <1>9 DEF chosen

\* /costs/by-sku without a provider, over all rows.
LEMMA BySkuOf ==
  ASSUME NEW rows, Summable(rows), NEW b \in CostsBySku(rows, Unset),
         Cardinality(DOMAIN b) < GroupLimit
  PROVE  SumValues(b) = SumOf(rows)
<1> DEFINE key == [r \in rows |-> <<r.provider, r.project, r.service>>]
           V == {key[r] : r \in rows}
           sums == GroupSums(rows, key)
           flat == [k \in {<<r.provider, r.project, r.service>> : r \in rows} |->
                      SumOf({r \in rows : <<r.provider, r.project, r.service>> = k})]
<1>1. {r \in rows : Unset \in {Unset, r.provider}} = rows
  OBVIOUS
<1>2. PICK g \in LargestGroups(flat) : b = [k \in g |-> flat[k]]
  BY <1>1 DEF CostsBySku
<1>3. V = {<<r.provider, r.project, r.service>> : r \in rows}
  OBVIOUS
<1>4. \A v : {r \in rows : key[r] = v}
              = {r \in rows : <<r.provider, r.project, r.service>> = v}
  OBVIOUS
<1>5. flat = sums
  BY <1>3, <1>4 DEF GroupSums
<1>6. DOMAIN key = rows
  OBVIOUS
<1> HIDE DEF key, flat
<1>7. \A h \in LargestGroups(sums) :
        Cardinality(h) < GroupLimit => SumValues([k \in h |-> sums[k]]) = SumOf(rows)
  BY <1>6, GroupsOf
<1>8. Cardinality(g) < GroupLimit => SumValues([k \in g |-> flat[k]]) = SumOf(rows)
  <2> HIDE DEF sums, V
  <2> QED
    BY <1>2, <1>5, <1>7
<1> QED
  BY <1>2, <1>8

\* /dashboard/stats, without the rows of the providers it does not show.
LEMMA DashboardOf ==
  ASSUME NEW rows, Summable(rows), NEW w \in Windows \cup {Unset}, NEW e \in Int
  PROVE  DashboardStats(rows, w, e).total
           = SumOf(Between(rows \ {r \in rows : r.provider \notin Shown},
                           ResolveWindow(Chosen(w), Unset, e), e))
<1> DEFINE from == ResolveWindow(Chosen(w), Unset, e)
           all == Between(rows, from, e)
           key == [r \in all |-> r.provider]
           mtd == ByProvider(all)
           totals == [k \in Shown |-> IF k \in DOMAIN mtd THEN mtd[k] ELSE 0]
<1>1. /\ Chosen(w) \in Windows
      /\ (IF w \in Windows THEN w ELSE "mtd") = Chosen(w)
      /\ Chosen(Chosen(w)) = Chosen(w)
  BY QueriesAssumption DEF Chosen, Windows
<1>2. Periods(Chosen(w), Unset, e).from = from
  BY <1>1, PeriodsType
<1>3. DashboardStats(rows, w, e).total = SumValues(totals)
  BY <1>1, <1>2 DEF DashboardStats
<1> HIDE DEF from
<1>4. all \in SUBSET rows
  BY DEF Between
<1>5. {r \in all : r.provider \in Shown}
        = Between(rows \ {r \in rows : r.provider \notin Shown}, from, e)
  BY DEF Between
<1> HIDE DEF all
<1>6. Summable(all)
  BY <1>4, SubsetSummable
<1>7. \A k : {r \in all : key[r] = k} = {r \in all : r.provider = k}
  OBVIOUS
<1>8. ASSUME NEW k \in Shown
      PROVE  (IF k \in DOMAIN mtd THEN mtd[k] ELSE 0) = SumOf({r \in all : key[r] = k})
  <2>1. DOMAIN mtd = {r.provider : r \in all}
    BY DEF ByProvider
  <2>2. CASE k \in DOMAIN mtd
    <3>1. mtd[k] = SumOf({r \in all : r.provider = k})
      BY <2>1, <2>2 DEF ByProvider
    <3> QED
      BY <2>2, <3>1, <1>7
  <2>3. CASE k \notin DOMAIN mtd
    <3>1. {r \in all : r.provider = k} = {}
      BY <2>1, <2>3
    <3> QED
      BY <2>3, <3>1, <1>7, SumOfEmpty
  <2> QED
    BY <2>2, <2>3
<1>9. totals = [k \in Shown |-> SumOf({r \in all : key[r] = k})]
  <2> HIDE DEF mtd, key
  <2> QED
    BY <1>8
<1>10. {r \in all : key[r] \in Shown} = {r \in all : r.provider \in Shown}
  OBVIOUS
<1>11. IsFiniteSet(Shown)
  <2>1. IsFiniteSet({"azure"})
    BY FS_Singleton
  <2>2. IsFiniteSet({"azure"} \cup {"gcp"})
    BY <2>1, FS_AddElement
  <2>3. IsFiniteSet(({"azure"} \cup {"gcp"}) \cup {"llm"})
    BY <2>2, FS_AddElement
  <2>4. Shown = ({"azure"} \cup {"gcp"}) \cup {"llm"}
    BY DEF Shown
  <2> QED
    BY <2>3, <2>4
<1> HIDE DEF key, totals
<1>12. SumValues([k \in Shown |-> SumOf({r \in all : key[r] = k})])
         = SumOf({r \in all : key[r] \in Shown})
  BY <1>6, <1>11, GroupsAddUp
<1> QED
  BY <1>3, <1>5, <1>9, <1>10, <1>12 DEF from

\* A day is not before another one unless its times are.
LEMMA DateOrder ==
  ASSUME NEW a \in Int, NEW b \in Int
  PROVE  /\ Date(a) \in Int /\ Date(b) \in Int
         /\ a <= b => Date(a) <= Date(b)
         /\ a % Day = 0 /\ Date(a) <= Date(b) => a <= b
<1>1. Day \in Nat \ {0}
  BY QueriesAssumption
<1> DEFINE p == a \div Day
           q == b \div Day
           x == a % Day
           y == b % Day
<1>2. /\ p \in Int /\ q \in Int /\ x \in 0..(Day - 1) /\ y \in 0..(Day - 1)
      /\ a = Day * p + x /\ b = Day * q + y
  BY <1>1
<1>3. Date(a) = p /\ Date(b) = q
  BY DEF Date
<1> HIDE DEF p, q
<1>4. ASSUME a <= b PROVE p <= q
  <2>1. ASSUME q <= p - 1 PROVE FALSE
    <3>1. Day * q <= Day * (p - 1)
      BY <1>1, <1>2, <2>1
    <3>2. Day * (p - 1) = Day * p - Day
      BY <1>1, <1>2
    <3> QED
      BY <1>1, <1>2, <1>4, <3>1, <3>2
  <2> QED
    BY <1>2, <2>1
<1>5. ASSUME x = 0, p <= q PROVE a <= b
  <2>1. Day * p <= Day * q
    BY <1>1, <1>2, <1>5
  <2> QED
    BY <1>1, <1>2, <1>5, <2>1
<1> QED
  BY <1>2, <1>3, <1>4, <1>5

\* /costs/daily, when the period starts at midnight and no row is later on the
\* last day than its end.
LEMMA DailyOf ==
  ASSUME NEW rows, Summable(rows), \A r \in rows : r.start \in Int,
         NEW w \in Windows, NEW e \in Int, ResolveWindow(w, Unset, e) % Day = 0,
         \A r \in rows : Date(r.start) = Date(e) => r.start <= e
  PROVE  LET daily == DailyCosts(rows, w, Unset, e)
         IN SumValues([d \in DOMAIN daily |-> SumValues(daily[d])])
              = SumOf(Between(rows, ResolveWindow(w, Unset, e), e))
<1> DEFINE from == ResolveWindow(w, Unset, e)
           chosen == {r \in rows : Date(from) <= Date(r.start) /\ Date(r.start) <= Date(e)}
           daily == DailyCosts(rows, w, Unset, e)
           key == [r \in chosen |-> Date(r.start)]
           On(d) == {r \in chosen : Date(r.start) = d}
<1>1. from \in Int /\ from % Day = 0
  BY WindowType
<1>2. daily = [d \in {Date(r.start) : r \in chosen} |-> ByProvider(On(d))]
  BY DEF DailyCosts
<1> HIDE DEF from, daily
<1>3. chosen = Between(rows, from, e)
  <2>1. ASSUME NEW r \in rows
        PROVE  Date(from) <= Date(r.start) /\ Date(r.start) <= Date(e)
                 <=> from <= r.start /\ r.start <= e
    <3>1. r.start \in Int
      OBVIOUS
    <3>2. Date(from) <= Date(r.start) <=> from <= r.start
      BY <1>1, <3>1, DateOrder
    <3>3. r.start <= e => Date(r.start) <= Date(e)
      BY <3>1, DateOrder
    <3>4. ASSUME Date(r.start) <= Date(e) PROVE r.start <= e
      <4>1. /\ Date(r.start) \in Int /\ Date(e) \in Int
            /\ e <= r.start => Date(e) <= Date(r.start)
        BY <3>1, DateOrder
      <4>2. CASE Date(r.start) = Date(e)
        BY <4>2
      <4>3. CASE Date(r.start) < Date(e)
        BY <3>1, <4>1, <4>3
      <4> QED
        BY <3>4, <4>1, <4>2, <4>3
    <3> QED
      BY <3>2, <3>3, <3>4
  <2> QED
    BY <2>1 DEF Between
<1>4. chosen \in SUBSET rows
  OBVIOUS
<1>5. Summable(chosen)
  BY <1>4, SubsetSummable
<1> HIDE DEF chosen
<1>6. DOMAIN key = chosen /\ {key[r] : r \in chosen} = {Date(r.start) : r \in chosen}
  OBVIOUS
<1>7. \A d : On(d) = {r \in chosen : key[r] = d} /\ On(d) \in SUBSET chosen
  OBVIOUS
<1> HIDE DEF key, On
<1>8. \A d : SumValues(ByProvider(On(d))) = SumOf({r \in chosen : key[r] = d})
  <2> TAKE d
  <2>1. Summable(On(d))
    BY <1>5, <1>7, SubsetSummable
  <2>2. SumValues(ByProvider(On(d))) = SumOf(On(d))
    BY <2>1, ProvidersAddUp
  <2> QED
    BY <1>7, <2>2
<1>9. [d \in DOMAIN daily |-> SumValues(daily[d])]
        = GroupSums(chosen, key)
  BY <1>2, <1>6, <1>8 DEF GroupSums
<1>10. SumValues(GroupSums(chosen, key)) = SumOf(chosen)
  <2>1. DOMAIN key = chosen
    BY <1>6
  <2> QED
    BY <1>5, <2>1, AllGroups DEF GroupSums
<1> QED
  BY <1>3, <1>9, <1>10 DEF from, daily
=============================================================================
