----------------------------- MODULE RulesProofs -----------------------------
(***************************************************************************)
(* Proofs about the decisions of Rules for every input they are given: the *)
(* placement of tasks, the options and plans of probes, traces, the        *)
(* evidence of DNS probes, the verdict on a scanned host, batch input and  *)
(* manifests, set analysis, and the risk board.                            *)
(*                                                                         *)
(* The invariant only says that a result is what the operators give; the   *)
(* work is in the lemmas about the operators.  What a sort returns, what a *)
(* recursive function of a trace is at each hop, what the results of a     *)
(* scan add up to, how a manifest is read line by line and what            *)
(* concatenating the runs of a plan leaves in front is proved by the least *)
(* counterexample; counts are compared by a function that is one to one.   *)
(***************************************************************************)
EXTENDS Rules, FiniteSetTheorems, SequenceTheorems, NaturalsInduction, TLAPS

-----------------------------------------------------------------------------
(* Orders.                                                                 *)

LEMMA LeastNumber ==
    ASSUME NEW P \in SUBSET Nat, P # {}
    PROVE  \E n \in P : \A m \in P : n =< m
<1>1. PICK n \in P : \A m \in P : ~ (<<m, n>> \in OpToRel(<, Nat))
  BY NatLessThanWellFounded, WFMin
<1>2. \A m \in P : ~ (m < n)
  BY <1>1 DEF OpToRel
<1> QED
  BY <1>2

Keys(n) == [1..n -> Int]

LEMMA BeforeKeys ==
    ASSUME NEW n \in Nat, NEW x \in Keys(n), NEW y \in Keys(n)
    PROVE  Before(x, y) <=> \E i \in 1..n : x[i] < y[i] /\ \A j \in 1..(i - 1) : x[j] = y[j]
BY DEF Before, Keys

LEMMA BeforeTotal ==
    ASSUME NEW n \in Nat, NEW x \in Keys(n), NEW y \in Keys(n), x # y
    PROVE  Before(x, y) \/ Before(y, x)
<1> DEFINE P == {i \in 1..n : x[i] # y[i]}
<1>1. P # {} /\ P \in SUBSET Nat
  BY DEF Keys
<1>2. PICK i \in P : \A j \in P : i =< j
  BY <1>1, LeastNumber
<1>3. \A j \in 1..(i - 1) : x[j] = y[j]
  BY <1>2
<1>4. i \in 1..n /\ x[i] \in Int /\ y[i] \in Int /\ x[i] # y[i]
  BY DEF Keys
<1>5. x[i] < y[i] \/ y[i] < x[i]
  BY <1>4
<1> QED
  BY <1>3, <1>4, <1>5, BeforeKeys

LEMMA BeforeIrreflexive ==
    ASSUME NEW n \in Nat, NEW x \in Keys(n)
    PROVE  ~ Before(x, x)
BY BeforeKeys DEF Keys

LEMMA BeforeTransitive ==
    ASSUME NEW n \in Nat, NEW x \in Keys(n), NEW y \in Keys(n), NEW z \in Keys(n),
           Before(x, y), Before(y, z)
    PROVE  Before(x, z)
<1>1. PICK i \in 1..n : x[i] < y[i] /\ \A j \in 1..(i - 1) : x[j] = y[j]
  BY BeforeKeys
<1>2. PICK k \in 1..n : y[k] < z[k] /\ \A j \in 1..(k - 1) : y[j] = z[j]
  BY BeforeKeys
<1>3. x[i] \in Int /\ y[i] \in Int /\ z[i] \in Int /\ x[k] \in Int /\ y[k] \in Int /\ z[k] \in Int
  BY DEF Keys
<1>4. CASE i < k
  <2>1. x[i] < z[i] /\ \A j \in 1..(i - 1) : x[j] = z[j]
    BY <1>1, <1>2, <1>4
  <2> QED
    BY <2>1, BeforeKeys
<1>5. CASE i = k
  <2>1. x[i] < z[i] /\ \A j \in 1..(i - 1) : x[j] = z[j]
    BY <1>1, <1>2, <1>3, <1>5
  <2> QED
    BY <2>1, BeforeKeys
<1>6. CASE k < i
  <2>1. x[k] < z[k] /\ \A j \in 1..(k - 1) : x[j] = z[j]
    BY <1>1, <1>2, <1>6
  <2> QED
    BY <2>1, BeforeKeys
<1> QED
  BY <1>4, <1>5, <1>6

\* A finite set whose elements have keys of their own can be put in order.
LEMMA InOrderSorts ==
    ASSUME NEW S, IsFiniteSet(S), NEW n \in Nat, NEW key,
           \A x \in S : key[x] \in Keys(n),
           \A x, y \in S : key[x] = key[y] => x = y
    PROVE  /\ InOrder(S, key) \in Bijection(1..Cardinality(S), S)
           /\ \A i, j \in 1..Cardinality(S) :
                 i < j => Before(key[InOrder(S, key)[i]], key[InOrder(S, key)[j]])
<1> DEFINE N == Cardinality(S)
           below(x) == {y \in S : Before(key[y], key[x])}
           pos == [x \in S |-> Cardinality(below(x)) + 1]
<1>1. N \in Nat
  BY FS_CardinalityType
<1>2. ASSUME NEW x \in S
      PROVE  /\ IsFiniteSet(below(x)) /\ Cardinality(below(x)) \in Nat
             /\ Cardinality(below(x)) < N /\ below(x) \subseteq S /\ x \notin below(x)
  <2>1. below(x) \subseteq S /\ x \notin below(x)
    BY BeforeIrreflexive
  <2>2. IsFiniteSet(below(x)) /\ Cardinality(below(x)) =< N
        /\ (Cardinality(below(x)) = N => below(x) = S)
    BY <2>1, FS_Subset
  <2>3. Cardinality(below(x)) \in Nat
    BY <2>2, FS_CardinalityType
  <2> QED
    BY <1>1, <2>1, <2>2, <2>3
<1>3. ASSUME NEW x \in S, NEW y \in S, Before(key[x], key[y])
      PROVE  pos[x] < pos[y]
  <2>1. below(x) \subseteq below(y)
    BY <1>3, BeforeTransitive
  <2>2. x \in below(y) /\ x \notin below(x)
    BY <1>2, <1>3
  <2>3. /\ Cardinality(below(x)) =< Cardinality(below(y))
        /\ Cardinality(below(x)) = Cardinality(below(y)) => below(x) = below(y)
    BY <1>2, <2>1, FS_Subset
  <2> HIDE DEF below
  <2> QED
    BY <1>2, <2>2, <2>3
<1>4. pos \in [S -> 1..N]
  <2> HIDE DEF below
  <2> QED
    BY <1>1, <1>2
<1>5. \A x, y \in S : pos[x] = pos[y] => x = y
  <2> SUFFICES ASSUME NEW x \in S, NEW y \in S, x # y
               PROVE  pos[x] # pos[y]
    OBVIOUS
  <2>1. Before(key[x], key[y]) \/ Before(key[y], key[x])
    BY BeforeTotal
  <2>2. pos[x] \in Int /\ pos[y] \in Int
    BY <1>4
  <2> HIDE DEF pos
  <2> QED
    BY <1>3, <2>1, <2>2
<1> HIDE DEF pos
<1>6. \A i \in 1..N : \E x \in S : pos[x] = i
  <2>1. pos \in Injection(S, 1..N)
    BY <1>4, <1>5 DEF Injection, IsInjective
  <2>2. IsFiniteSet(1..N) /\ Cardinality(1..N) = N
    BY <1>1, FS_Interval
  <2>3. pos \in Surjection(S, 1..N)
    BY <2>1, <2>2, FS_Injection
  <2> QED
    BY <2>3 DEF Surjection
<1> DEFINE t == InOrder(S, key)
<1>7. t \in [1..N -> S] /\ \A i \in 1..N : pos[t[i]] = i
  <2>1. \A i \in 1..N : \E x \in S : Cardinality(below(x)) = i - 1
    <3> SUFFICES ASSUME NEW i \in 1..N
                 PROVE  \E x \in S : Cardinality(below(x)) = i - 1
      OBVIOUS
    <3>1. PICK x \in S : pos[x] = i
      BY <1>6
    <3>2. pos[x] = Cardinality(below(x)) + 1 /\ Cardinality(below(x)) \in Nat
      BY <1>2 DEF pos
    <3> HIDE DEF below
    <3> QED
      BY <1>1, <3>1, <3>2
  <2>2. t = [i \in 1..N |-> CHOOSE x \in S : Cardinality(below(x)) = i - 1]
    BY DEF InOrder
  <2>3. \A x \in S : pos[x] = Cardinality(below(x)) + 1 /\ Cardinality(below(x)) \in Nat
    BY <1>2 DEF pos
  <2> HIDE DEF t, below
  <2> QED
    BY <1>1, <2>1, <2>2, <2>3
<1> HIDE DEF t
<1>10. \A i, j \in 1..N : i < j => Before(key[t[i]], key[t[j]])
  <2> SUFFICES ASSUME NEW i \in 1..N, NEW j \in 1..N, i < j
               PROVE  Before(key[t[i]], key[t[j]])
    OBVIOUS
  <2>1. t[i] \in S /\ t[j] \in S /\ pos[t[i]] = i /\ pos[t[j]] = j
    BY <1>7
  <2>2. ~ Before(key[t[j]], key[t[i]]) /\ t[i] # t[j]
    BY <1>3, <2>1
  <2> QED
    BY <2>1, <2>2, BeforeTotal
<1>11. t \in Bijection(1..N, S)
  <2>1. \A i, j \in 1..N : t[i] = t[j] => i = j
    BY <1>7
  <2>2. t \in Injection(1..N, S)
    BY <1>7, <2>1 DEF Injection, IsInjective
  <2>3. IsFiniteSet(1..N) /\ Cardinality(1..N) = N
    BY <1>1, FS_Interval
  <2>4. t \in Surjection(1..N, S)
    BY <2>2, <2>3, FS_Injection
  <2> QED
    BY <2>2, <2>4 DEF Bijection
<1> QED
  BY <1>10, <1>11 DEF t

\* Of such a set one element comes before all others.
LEMMA OneIsFirst ==
    ASSUME NEW S, IsFiniteSet(S), S # {}, NEW n \in Nat, NEW key,
           \A x \in S : key[x] \in Keys(n),
           \A x, y \in S : key[x] = key[y] => x = y
    PROVE  \E x \in S : \A y \in S \ {x} : Before(key[x], key[y])
<1> DEFINE N == Cardinality(S)
           s == InOrder(S, key)
<1>1. N \in Nat /\ N # 0
  BY FS_CardinalityType, FS_EmptySet
<1>2. /\ s \in [1..N -> S]
      /\ \A i, j \in 1..N : i < j => Before(key[s[i]], key[s[j]])
      /\ \A x \in S : \E i \in 1..N : s[i] = x
  <2>1. s \in Bijection(1..N, S)
    BY InOrderSorts
  <2>2. \A i, j \in 1..N : i < j => Before(key[s[i]], key[s[j]])
    BY InOrderSorts
  <2> HIDE DEF s, N
  <2> QED
    BY <2>1, <2>2 DEF Bijection, Injection, Surjection, IsInjective
<1> HIDE DEF s, N
<1>3. 1 \in 1..N /\ s[1] \in S
  BY <1>1, <1>2
<1>4. \A y \in S \ {s[1]} : \E i \in 1..N : 1 < i /\ s[i] = y
  BY <1>1, <1>2
<1> QED
  BY <1>2, <1>3, <1>4

-----------------------------------------------------------------------------
(* The choice of a node.                                                   *)

\* Orders of tuples, written out.
LEMMA BeforeTwo ==
    ASSUME NEW a1 \in Int, NEW a2 \in Int, NEW b1 \in Int, NEW b2 \in Int
    PROVE  Before(<<a1, a2>>, <<b1, b2>>) => a1 < b1 \/ (a1 = b1 /\ a2 < b2)
<1> SUFFICES ASSUME Before(<<a1, a2>>, <<b1, b2>>)
             PROVE  a1 < b1 \/ (a1 = b1 /\ a2 < b2)
  OBVIOUS
<1>1. PICK i \in 1..2 : /\ <<a1, a2>>[i] < <<b1, b2>>[i]
                        /\ \A j \in 1..(i - 1) : <<a1, a2>>[j] = <<b1, b2>>[j]
  BY DEF Before
<1>2. CASE i = 1
  BY <1>1, <1>2
<1>3. CASE i = 2
  <2>1. 1 \in 1..(i - 1)
    BY <1>3
  <2> QED
    BY <1>1, <1>3, <2>1
<1> QED
  BY <1>2, <1>3

LEMMA BeforeFive ==
    ASSUME NEW x \in Keys(5), NEW y \in Keys(5), Before(x, y)
    PROVE  \/ x[1] < y[1]
           \/ x[1] = y[1] /\ x[2] < y[2]
           \/ x[1] = y[1] /\ x[2] = y[2] /\ x[3] < y[3]
           \/ x[1] = y[1] /\ x[2] = y[2] /\ x[3] = y[3] /\ x[4] < y[4]
           \/ x[1] = y[1] /\ x[2] = y[2] /\ x[3] = y[3] /\ x[4] = y[4] /\ x[5] < y[5]
<1>1. PICK i \in 1..5 : x[i] < y[i] /\ \A j \in 1..(i - 1) : x[j] = y[j]
  BY BeforeKeys
<1>2. i = 1 \/ i = 2 \/ i = 3 \/ i = 4 \/ i = 5
  OBVIOUS
<1> QED
  BY <1>1, <1>2

LEMMA EightBefore ==
    ASSUME NEW x \in Keys(8), NEW y \in Keys(8),
           \/ x[1] < y[1]
           \/ x[1] = y[1] /\ x[2] < y[2]
           \/ x[1] = y[1] /\ x[2] = y[2] /\ x[3] < y[3]
           \/ x[1] = y[1] /\ x[2] = y[2] /\ x[3] = y[3] /\ x[4] < y[4]
           \/ x[1] = y[1] /\ x[2] = y[2] /\ x[3] = y[3] /\ x[4] = y[4] /\ x[5] < y[5]
           \/ /\ x[1] = y[1] /\ x[2] = y[2] /\ x[3] = y[3] /\ x[4] = y[4] /\ x[5] = y[5]
              /\ x[6] < y[6]
           \/ /\ x[1] = y[1] /\ x[2] = y[2] /\ x[3] = y[3] /\ x[4] = y[4] /\ x[5] = y[5]
              /\ x[6] = y[6] /\ x[7] < y[7]
           \/ /\ x[1] = y[1] /\ x[2] = y[2] /\ x[3] = y[3] /\ x[4] = y[4] /\ x[5] = y[5]
              /\ x[6] = y[6] /\ x[7] = y[7] /\ x[8] < y[8]
    PROVE  Before(x, y)
<1> DEFINE Q(i) == x[i] < y[i] /\ \A j \in 1..(i - 1) : x[j] = y[j]
<1>1. Q(1) \/ Q(2) \/ Q(3) \/ Q(4) \/ Q(5) \/ Q(6) \/ Q(7) \/ Q(8)
  OBVIOUS
<1> HIDE DEF Q
<1>2. \E i \in 1..8 : Q(i)
  BY <1>1
<1>3. \E i \in 1..8 : x[i] < y[i] /\ \A j \in 1..(i - 1) : x[j] = y[j]
  BY <1>2 DEF Q
<1> QED
  BY <1>3, BeforeKeys

LEMMA BoolInt == ASSUME NEW b PROVE boolToInt(b) \in 0..1
BY DEF boolToInt

LEMMA RankKeys ==
    ASSUME NEW nodes, NodeTable(nodes)
    PROVE  /\ \A n \in nodes : rankSingleNode(n) \in Keys(5) /\ rankSingleNode(n)[5] = n.id
           /\ \A m, n \in nodes : rankSingleNode(m) = rankSingleNode(n) => m = n
<1>1. \A n \in nodes : rankSingleNode(n) \in Keys(5) /\ rankSingleNode(n)[5] = n.id
  BY BoolInt DEF rankSingleNode, Keys, NodeTable
<1> QED
  BY <1>1 DEF NodeTable

LEMMA BestIsFirst ==
    ASSUME NEW nodes, NodeTable(nodes), NEW pool \in SUBSET nodes, pool # {}
    PROVE  /\ Best(pool) \in pool
           /\ \A m \in pool \ {Best(pool)} : Before(rankSingleNode(Best(pool)), rankSingleNode(m))
<1>1. IsFiniteSet(pool)
  BY FS_Subset DEF NodeTable
<1> DEFINE key == [n \in pool |-> rankSingleNode(n)]
<1>2. /\ \A n \in pool : key[n] \in Keys(5)
      /\ \A m, n \in pool : key[m] = key[n] => m = n
  BY RankKeys
<1>3. \E n \in pool : \A m \in pool \ {n} : Before(key[n], key[m])
  <2> HIDE DEF key
  <2> QED
    BY <1>1, <1>2, OneIsFirst
<1>4. \E n \in pool : \A m \in pool \ {n} : Before(rankSingleNode(n), rankSingleNode(m))
  BY <1>3
<1> QED
  BY <1>4 DEF Best

LEMMA AnyIsFirst ==
    ASSUME NEW nodes, NodeTable(nodes), nodes # {}
    PROVE  /\ AnyNode(nodes) \in nodes
           /\ \A m \in nodes \ {AnyNode(nodes)} :
                 Before(<<boolToInt(~ AnyNode(nodes).default), AnyNode(nodes).id>>,
                        <<boolToInt(~ m.default), m.id>>)
<1> DEFINE key == [n \in nodes |-> <<boolToInt(~ n.default), n.id>>]
<1>1. /\ \A n \in nodes : key[n] \in Keys(2) /\ key[n][2] = n.id
  BY BoolInt DEF Keys, NodeTable
<1>2. \A m, n \in nodes : key[m] = key[n] => m = n
  BY <1>1 DEF NodeTable
<1>3. \E n \in nodes : \A m \in nodes \ {n} : Before(key[n], key[m])
  <2> HIDE DEF key
  <2> QED
    BY <1>1, <1>2, OneIsFirst DEF NodeTable
<1>4. \E n \in nodes : \A m \in nodes \ {n} :
         Before(<<boolToInt(~ n.default), n.id>>, <<boolToInt(~ m.default), m.id>>)
  BY <1>3
<1> QED
  BY <1>4 DEF AnyNode

Placed(n, region) == n.schedulable /\ n.region = region

Fits(n, nodes, region, mode) ==
    mode = "auto" \/ ~ (\E m \in nodes : Placed(m, region)) \/ n.local = (mode = "local")

\* The key by which nodes are preferred.
Preference(n, nodes, region, mode) ==
    IF ~ n.schedulable
    THEN <<1, 0, 0, 0, 0, 0, boolToInt(~ n.default), n.id>>
    ELSE <<0, boolToInt(~ Placed(n, region)), boolToInt(~ Fits(n, nodes, region, mode)),
           boolToInt(~ nodeOnline(n)), boolToInt(~ n.up),
           boolToInt(n.local), boolToInt(~ n.default), n.id>>

LEMMA PreferenceKeys ==
    ASSUME NEW nodes, NodeTable(nodes), NEW n \in nodes, NEW region, NEW mode
    PROVE  LET p == Preference(n, nodes, region, mode)
           IN  /\ p \in Keys(8)
               /\ ~ n.schedulable => /\ p[1] = 1
                                     /\ \A i \in 2..6 : p[i] = 0
                                     /\ p[7] = boolToInt(~ n.default) /\ p[8] = n.id
               /\ n.schedulable => /\ p[1] = 0
                                   /\ p[2] = boolToInt(~ Placed(n, region))
                                   /\ p[3] = boolToInt(~ Fits(n, nodes, region, mode))
                                   /\ p[4] = boolToInt(~ nodeOnline(n))
                                   /\ p[5] = boolToInt(~ n.up)
                                   /\ p[6] = boolToInt(n.local)
                                   /\ p[7] = boolToInt(~ n.default) /\ p[8] = n.id
<1>1. n.id \in Int /\ \A b : boolToInt(b) \in Int
  BY BoolInt DEF NodeTable
<1>2. CASE n.schedulable
  BY <1>1, <1>2 DEF Preference, Keys
<1>3. CASE ~ n.schedulable
  BY <1>1, <1>3 DEF Preference, Keys
<1> QED
  BY <1>2, <1>3

LEMMA RankParts ==
    ASSUME NEW n
    PROVE  /\ rankSingleNode(n)[1] = boolToInt(~ nodeOnline(n))
           /\ rankSingleNode(n)[2] = boolToInt(~ n.up)
           /\ rankSingleNode(n)[3] = boolToInt(n.local)
           /\ rankSingleNode(n)[4] = boolToInt(~ n.default)
           /\ rankSingleNode(n)[5] = n.id
BY DEF rankSingleNode

\* Among nodes that are alike in the first components the rank decides.
LEMMA RankDecides ==
    ASSUME NEW nodes, NodeTable(nodes), NEW region, NEW mode,
           NEW m \in nodes, NEW n \in nodes, m.schedulable, n.schedulable,
           Before(rankSingleNode(m), rankSingleNode(n)),
           Placed(n, region) => Placed(m, region),
           Placed(m, region) /\ Placed(n, region) /\ Fits(n, nodes, region, mode)
              => Fits(m, nodes, region, mode),
           ~ Placed(m, region) => Fits(m, nodes, region, mode)
    PROVE  Before(Preference(m, nodes, region, mode), Preference(n, nodes, region, mode))
<1> DEFINE x == rankSingleNode(m)
           y == rankSingleNode(n)
           p == Preference(m, nodes, region, mode)
           q == Preference(n, nodes, region, mode)
<1>1. x \in Keys(5) /\ y \in Keys(5)
  BY RankKeys
<1>2. /\ p \in Keys(8) /\ q \in Keys(8) /\ p[1] = 0 /\ q[1] = 0
      /\ p[4] = x[1] /\ p[5] = x[2] /\ p[6] = x[3] /\ p[7] = x[4] /\ p[8] = x[5]
      /\ q[4] = y[1] /\ q[5] = y[2] /\ q[6] = y[3] /\ q[7] = y[4] /\ q[8] = y[5]
  BY PreferenceKeys, RankParts
<1>3. \/ p[2] < q[2]
      \/ p[2] = q[2] /\ p[3] < q[3]
      \/ p[2] = q[2] /\ p[3] = q[3]
  <2>1. /\ p[2] = boolToInt(~ Placed(m, region)) /\ q[2] = boolToInt(~ Placed(n, region))
        /\ p[3] = boolToInt(~ Fits(m, nodes, region, mode))
        /\ q[3] = boolToInt(~ Fits(n, nodes, region, mode))
    BY PreferenceKeys
  <2> HIDE DEF p, q
  <2> QED
    BY <2>1 DEF boolToInt
<1> HIDE DEF x, y, p, q
<1>4. Before(x, y)
  BY DEF x, y
<1>5. Before(p, q)
  BY <1>1, <1>2, <1>3, <1>4, BeforeFive, EightBefore
<1> QED
  BY <1>5 DEF p, q

LEMMA SelectionRanks ==
    ASSUME NEW nodes, NodeTable(nodes), nodes # {}, NEW region, NEW mode
    PROVE  /\ getSingleExecutionNode(nodes, region, mode) \in nodes
           /\ \A n \in nodes \ {getSingleExecutionNode(nodes, region, mode)} :
                 Before(Preference(getSingleExecutionNode(nodes, region, mode), nodes, region, mode),
                        Preference(n, nodes, region, mode))
<1> DEFINE r == getSingleExecutionNode(nodes, region, mode)
           all == schedulableNodes(nodes)
           here == InRegion(all, region)
           pool == OfMode(here, mode)
           key(n) == Preference(n, nodes, region, mode)
<1>1. /\ all \subseteq nodes /\ \A n \in nodes : n \in all <=> n.schedulable
      /\ here \subseteq all /\ \A n \in nodes : n \in here <=> Placed(n, region)
  BY DEF schedulableNodes, InRegion, Placed
<1>2. pool \subseteq here /\ (pool = {} <=> here = {})
  BY DEF OfMode, Prefer
<1>3. \A n \in nodes : n.id \in Int
  BY DEF NodeTable
<1>4. ASSUME NEW m \in all, NEW n \in nodes \ all
      PROVE  Before(key(m), key(n))
  <2>1. m \in nodes /\ m.schedulable /\ ~ n.schedulable
    BY <1>1
  <2>2. key(m) \in Keys(8) /\ key(n) \in Keys(8) /\ key(m)[1] = 0 /\ key(n)[1] = 1
    BY <2>1, PreferenceKeys
  <2> QED
    BY <2>2, EightBefore
<1>5. CASE all = {}
  <2>1. pool = {} /\ r = AnyNode(nodes)
    BY <1>1, <1>2, <1>5 DEF getSingleExecutionNode, getDefaultNode
  <2>2. r \in nodes
    BY <2>1, AnyIsFirst
  <2>3. ASSUME NEW n \in nodes \ {r}
        PROVE  Before(key(r), key(n))
    <3>1. Before(<<boolToInt(~ r.default), r.id>>, <<boolToInt(~ n.default), n.id>>)
      BY <2>1, AnyIsFirst
    <3>2. \A b : boolToInt(b) \in Int
      BY BoolInt
    <3>3. r.id \in Int /\ n.id \in Int
      BY <1>3, <2>2
    <3>4. \/ boolToInt(~ r.default) < boolToInt(~ n.default)
          \/ boolToInt(~ r.default) = boolToInt(~ n.default) /\ r.id < n.id
      BY <3>1, <3>2, <3>3, BeforeTwo
    <3>5. ~ r.schedulable /\ ~ n.schedulable
      BY <1>1, <1>5, <2>2
    <3> HIDE DEF r
    <3>6. /\ key(r) \in Keys(8) /\ key(n) \in Keys(8)
          /\ key(r)[1] = key(n)[1]
          /\ \A i \in 2..6 : key(r)[i] = 0 /\ key(n)[i] = 0
          /\ key(r)[7] = boolToInt(~ r.default) /\ key(r)[8] = r.id
          /\ key(n)[7] = boolToInt(~ n.default) /\ key(n)[8] = n.id
      BY <2>2, <3>5, PreferenceKeys
    <3> HIDE DEF key
    <3>7. Before(key(r), key(n))
      BY <3>4, <3>6, EightBefore
    <3> QED
      BY <3>7
  <2> QED
    BY <2>2, <2>3
<1>6. CASE all # {} /\ here = {}
  <2>1. r = Best(all)
    BY <1>2, <1>6 DEF getSingleExecutionNode, getDefaultNode, Prefer
  <2>2. /\ r \in all
        /\ \A n \in all \ {r} : Before(rankSingleNode(r), rankSingleNode(n))
    BY <1>1, <1>6, <2>1, BestIsFirst
  <2>3. \A n \in nodes : ~ Placed(n, region) /\ Fits(n, nodes, region, mode)
    BY <1>1, <1>6 DEF Fits
  <2> HIDE DEF r
  <2>4. ASSUME NEW n \in all \ {r}
        PROVE  Before(key(r), key(n))
    <3>1. r \in nodes /\ n \in nodes /\ r.schedulable /\ n.schedulable
      BY <1>1, <2>2
    <3> QED
      BY <2>2, <2>3, <3>1, RankDecides
  <2> QED
    BY <1>1, <1>4, <2>2, <2>4 DEF r
<1>7. CASE here # {}
  <2> DEFINE online == {n \in pool : nodeOnline(n)}
             last == Prefer(online, pool)
  <2>1. r = Best(last) /\ pool # {}
    BY <1>2, <1>7 DEF getSingleExecutionNode
  <2>2. last \subseteq pool /\ last # {}
    BY <2>1 DEF Prefer
  <2>3. last \in SUBSET nodes
    BY <1>1, <1>2, <2>2
  <2>4. /\ r \in last
        /\ \A n \in last \ {r} : Before(rankSingleNode(r), rankSingleNode(n))
    BY <2>1, <2>2, <2>3, BestIsFirst
  <2>5. /\ r \in nodes /\ r.schedulable /\ r \in here /\ Placed(r, region)
        /\ r \in pool
    BY <1>1, <1>2, <2>2, <2>4
  <2>6. \E n \in nodes : Placed(n, region)
    BY <2>5
  <2>7. \A n \in nodes : Fits(n, nodes, region, mode) <=> mode = "auto" \/ n.local = (mode = "local")
    BY <2>6 DEF Fits
  <2>8. \A n \in here : Fits(n, nodes, region, mode) =>
           n \in pool /\ \A m \in pool : Fits(m, nodes, region, mode)
    BY <1>1, <1>2, <2>7 DEF OfMode, Prefer
  <2>9. \A n \in here : n \notin pool => ~ Fits(n, nodes, region, mode)
                                       /\ \A m \in pool : Fits(m, nodes, region, mode)
    BY <1>1, <1>2, <2>7 DEF OfMode, Prefer
  <2>10. \A n \in pool : n \notin last => ~ nodeOnline(n) /\ nodeOnline(r)
    BY <2>4 DEF Prefer
  <2> HIDE DEF r, pool, last, here
  <2>11. ASSUME NEW n \in all \ {r}
         PROVE  Before(key(r), key(n))
    <3>1. n \in nodes /\ n.schedulable
      BY <1>1
    <3>2. /\ key(r) \in Keys(8) /\ key(n) \in Keys(8) /\ key(r)[1] = 0 /\ key(n)[1] = 0
          /\ key(r)[2] = boolToInt(~ Placed(r, region))
          /\ key(n)[2] = boolToInt(~ Placed(n, region))
          /\ key(r)[3] = boolToInt(~ Fits(r, nodes, region, mode))
          /\ key(n)[3] = boolToInt(~ Fits(n, nodes, region, mode))
          /\ key(r)[4] = boolToInt(~ nodeOnline(r))
          /\ key(n)[4] = boolToInt(~ nodeOnline(n))
      BY <2>5, <3>1, PreferenceKeys
    <3>3. CASE n \in last
      BY <2>4, <2>5, <2>8, <3>1, <3>3, <1>1, RankDecides
    <3>4. CASE n \notin last /\ n \in pool
      <4>1. Placed(n, region)
        BY <1>1, <1>2, <3>1, <3>4
      <4>2. boolToInt(~ Placed(r, region)) = boolToInt(~ Placed(n, region))
        BY <2>5, <4>1 DEF boolToInt
      <4>3. Fits(r, nodes, region, mode) <=> Fits(n, nodes, region, mode)
        BY <1>2, <2>5, <2>8, <3>4
      <4>4. boolToInt(~ Fits(r, nodes, region, mode)) = boolToInt(~ Fits(n, nodes, region, mode))
        BY <4>3 DEF boolToInt
      <4>5. boolToInt(~ nodeOnline(r)) < boolToInt(~ nodeOnline(n))
        BY <2>10, <3>4 DEF boolToInt
      <4> QED
        BY <3>2, <4>2, <4>4, <4>5, EightBefore
    <3>5. CASE n \in here /\ n \notin pool
      <4>1. boolToInt(~ Placed(r, region)) = boolToInt(~ Placed(n, region))
        BY <1>1, <2>5, <3>1, <3>5 DEF boolToInt
      <4>2. boolToInt(~ Fits(r, nodes, region, mode)) < boolToInt(~ Fits(n, nodes, region, mode))
        BY <2>5, <2>9, <3>5 DEF boolToInt
      <4> QED
        BY <3>2, <4>1, <4>2, EightBefore
    <3>6. CASE n \notin here
      <4>1. boolToInt(~ Placed(r, region)) < boolToInt(~ Placed(n, region))
        BY <1>1, <2>5, <3>1, <3>6 DEF boolToInt
      <4> QED
        BY <3>2, <4>1, EightBefore
    <3> QED
      BY <3>3, <3>4, <3>5, <3>6, <2>2
  <2> QED
    BY <1>1, <1>4, <2>5, <2>11 DEF r
<1> QED
  BY <1>5, <1>6, <1>7

-----------------------------------------------------------------------------
(* The regions of a task.                                                  *)

LEMMA FirstOfSeq ==
    \A N \in Nat : \A T : \A s \in [1..N -> T] : \A limit \in Nat :
        FirstOf(s, limit) \in [1..(IF limit < N THEN limit ELSE N) -> T]
<1> SUFFICES ASSUME NEW N \in Nat, NEW T, NEW s \in [1..N -> T], NEW limit \in Nat
             PROVE  FirstOf(s, limit) \in [1..(IF limit < N THEN limit ELSE N) -> T]
  OBVIOUS
<1> DEFINE M == IF limit < N THEN limit ELSE N
<1>1. s \in Seq(T) /\ Len(s) = N
  BY IsASeq
<1>2. M \in Nat /\ M =< N /\ FirstOf(s, limit) = SubSeq(s, 1, M)
  BY <1>1 DEF FirstOf
<1>3. FirstOf(s, limit) = [i \in 1..M |-> s[i]]
  BY <1>1, <1>2
<1>4. 1..M \subseteq 1..N /\ \A i \in 1..M : s[i] \in T
  BY <1>2
<1> HIDE DEF M
<1>5. FirstOf(s, limit) \in [1..M -> T]
  BY <1>3, <1>4
<1> QED
  BY <1>5 DEF M

LEMMA FirstOfEntries ==
    \A N \in Nat : \A T : \A s \in [1..N -> T] : \A limit \in Nat :
        \A i \in 1..(IF limit < N THEN limit ELSE N) : FirstOf(s, limit)[i] = s[i]
<1> SUFFICES ASSUME NEW N \in Nat, NEW T, NEW s \in [1..N -> T], NEW limit \in Nat
             PROVE  \A i \in 1..(IF limit < N THEN limit ELSE N) : FirstOf(s, limit)[i] = s[i]
  OBVIOUS
<1> DEFINE M == IF limit < N THEN limit ELSE N
<1>1. s \in Seq(T) /\ Len(s) = N
  BY IsASeq
<1>2. M \in Nat /\ M =< N /\ FirstOf(s, limit) = SubSeq(s, 1, M)
  BY <1>1 DEF FirstOf
<1>3. FirstOf(s, limit) = [i \in 1..M |-> s[i]]
  BY <1>1, <1>2
<1> QED
  BY <1>3

\* Places are keys of one number.
LEMMA PlacesSort ==
    ASSUME NEW S, IsFiniteSet(S), S \in SUBSET Int, NEW key, key = [i \in S |-> <<i>>]
    PROVE  /\ InOrder(S, key) \in Bijection(1..Cardinality(S), S)
           /\ \A i, j \in 1..Cardinality(S) :
                 i < j => Before(key[InOrder(S, key)[i]], key[InOrder(S, key)[j]])
<1>1. \A x \in S : key[x] \in Keys(1)
  BY DEF Keys
<1>2. \A x, y \in S : key[x] = key[y] => x = y
  <2>1. \A x \in S : key[x][1] = x
    OBVIOUS
  <2> QED
    BY <2>1
<1> DEFINE n == 1
<1>3. n \in Nat /\ \A x \in S : key[x] \in Keys(n)
  BY <1>1
<1> HIDE DEF n
<1>4. InOrder(S, key) \in Bijection(1..Cardinality(S), S)
  BY <1>2, <1>3, InOrderSorts
<1>5. \A i, j \in 1..Cardinality(S) :
         i < j => Before(key[InOrder(S, key)[i]], key[InOrder(S, key)[j]])
  BY <1>2, <1>3, InOrderSorts
<1> QED
  BY <1>4, <1>5

Active(regions) == {r.code : r \in regions}

\* The codes that were asked for and are active, each once.
LEMMA AskedOnce ==
    ASSUME NEW regions, RegionTable(regions), NEW codes, NEW C, codes \in Seq(C)
    PROVE  \E N \in Nat : /\ askedCodes(regions, codes) \in [1..N -> Active(regions)]
                          /\ IsInjective(askedCodes(regions, codes))
                          /\ ToSet(askedCodes(regions, codes)) = Active(regions) \cap ToSet(codes)
<1> DEFINE firsts == {i \in DOMAIN codes : /\ \E r \in regions : r.code = codes[i]
                                          /\ \A j \in 1..(i - 1) : codes[j] # codes[i]}
           key == [i \in firsts |-> <<i>>]
           order == InOrder(firsts, key)
           N == Cardinality(firsts)
<1>1. DOMAIN codes = 1..Len(codes) /\ Len(codes) \in Nat
  OBVIOUS
<1>2. firsts \subseteq 1..Len(codes) /\ IsFiniteSet(firsts)
  <2>1. IsFiniteSet(1..Len(codes)) /\ firsts \subseteq 1..Len(codes)
    BY <1>1, FS_Interval
  <2> QED
    BY <2>1, FS_Subset
<1>3. /\ \A i \in firsts : key[i] \in Keys(1)
      /\ \A i, j \in firsts : key[i] = key[j] => i = j
  BY <1>2 DEF Keys
<1>4. N \in Nat
  BY <1>2, FS_CardinalityType
<1>5. /\ order \in [1..N -> firsts]
      /\ \A i, j \in 1..N : i < j => Before(key[order[i]], key[order[j]])
      /\ \A i \in firsts : \E k \in 1..N : order[k] = i
      /\ \A i, j \in 1..N : order[i] = order[j] => i = j
  <2>1. firsts \in SUBSET Int /\ key = [i \in firsts |-> <<i>>]
    BY <1>2
  <2> HIDE DEF firsts, key
  <2>2. IsFiniteSet(firsts)
    BY <1>2
  <2>3. order \in Bijection(1..N, firsts)
    BY <2>1, <2>2, PlacesSort
  <2>4. \A i, j \in 1..N : i < j => Before(key[order[i]], key[order[j]])
    BY <2>1, <2>2, PlacesSort
  <2> HIDE DEF order, N
  <2> QED
    BY <2>3, <2>4 DEF Bijection, Injection, Surjection, IsInjective
<1>6. askedCodes(regions, codes) = [k \in 1..N |-> codes[order[k]]]
  BY <1>5 DEF askedCodes, Kept
<1>7. \A i \in firsts : codes[i] \in Active(regions) /\ codes[i] \in ToSet(codes)
  BY DEF Active, ToSet
<1>8. \A i, j \in firsts : codes[i] = codes[j] => i = j
  <2> SUFFICES ASSUME NEW i \in firsts, NEW j \in firsts, i < j
               PROVE  codes[i] # codes[j]
    BY <1>2
  <2>1. i \in 1..(j - 1)
    BY <1>2
  <2> QED
    BY <2>1
<1>9. \A c \in Active(regions) \cap ToSet(codes) : \E i \in firsts : codes[i] = c
  <2> SUFFICES ASSUME NEW c \in Active(regions), c \in ToSet(codes)
               PROVE  \E i \in firsts : codes[i] = c
    OBVIOUS
  <2> DEFINE P == {i \in 1..Len(codes) : codes[i] = c}
  <2>1. P # {} /\ P \in SUBSET Nat
    BY <1>1 DEF ToSet
  <2>2. PICK i \in P : \A j \in P : i =< j
    BY <2>1, LeastNumber
  <2>3. \A j \in 1..(i - 1) : codes[j] # c
    BY <1>1, <2>2
  <2> QED
    BY <1>1, <2>2, <2>3 DEF Active
<1> HIDE DEF firsts, order, N
<1>11. askedCodes(regions, codes) \in [1..N -> Active(regions)]
  BY <1>5, <1>6, <1>7
<1>12. IsInjective(askedCodes(regions, codes))
  BY <1>5, <1>6, <1>8 DEF IsInjective
<1>13. ToSet(askedCodes(regions, codes)) = Active(regions) \cap ToSet(codes)
  <2>1. \A c \in ToSet(askedCodes(regions, codes)) : c \in Active(regions) \cap ToSet(codes)
    BY <1>5, <1>6, <1>7 DEF ToSet
  <2>2. \A c \in Active(regions) \cap ToSet(codes) : c \in ToSet(askedCodes(regions, codes))
    BY <1>5, <1>6, <1>9 DEF ToSet
  <2> QED
    BY <2>1, <2>2
<1> QED
  BY <1>4, <1>11, <1>12, <1>13

LEMMA SixKeys ==
    ASSUME NEW a \in Int, NEW b \in Int, NEW c \in Int, NEW d \in Int, NEW e \in Int, NEW f \in Int
    PROVE  <<a, b, c, d, e, f>> \in Keys(6)
BY DEF Keys

LEMMA RegionKeys ==
    ASSUME NEW regions, RegionTable(regions), NEW nodes
    PROVE  /\ \A r \in regions : regionRank(r, nodes) \in Keys(6) /\ regionRank(r, nodes)[6] = r.id
           /\ \A r, q \in regions : regionRank(r, nodes) = regionRank(q, nodes) => r = q
<1>1. ASSUME NEW r \in regions
      PROVE  regionRank(r, nodes) \in Keys(6)
  <2>1. r.order \in Int /\ r.id \in Int
    BY DEF RegionTable
  <2>2. \A b : boolToInt(b) \in Int
    BY BoolInt
  <2> QED
    BY <2>1, <2>2, SixKeys DEF regionRank
<1>2. \A r : regionRank(r, nodes)[6] = r.id
  BY DEF regionRank
<1> QED
  BY <1>1, <1>2 DEF RegionTable

\* The codes of the regions that come first.
LEMMA DefaultsRanked ==
    ASSUME NEW regions, RegionTable(regions), NEW nodes, NEW limit \in Nat
    PROVE  LET d == defaultRegionCodes(regions, nodes, limit)
           IN  \E N \in Nat : /\ d \in [1..N -> Active(regions)]
                              /\ IsInjective(d)
                              /\ limit > 0 => N =< limit
                              /\ N = 0 <=> regions = {}
                              /\ N > 0 => \E r \in regions :
                                    /\ d[1] = r.code
                                    /\ \A q \in regions \ {r} :
                                          Before(regionRank(r, nodes), regionRank(q, nodes))
<1> DEFINE key == [r \in regions |-> regionRank(r, nodes)]
           ranked == InOrder(regions, key)
           K == Cardinality(regions)
           most == IF limit = 0 THEN 1 ELSE limit
           N == IF most < K THEN most ELSE K
           d == defaultRegionCodes(regions, nodes, limit)
<1>1. IsFiniteSet(regions) /\ K \in Nat /\ (K = 0 <=> regions = {})
  BY FS_CardinalityType, FS_EmptySet DEF RegionTable
<1>2. /\ \A r \in regions : key[r] \in Keys(6)
      /\ \A r, q \in regions : key[r] = key[q] => r = q
  BY RegionKeys
<1>3. /\ ranked \in [1..K -> regions]
      /\ \A i, j \in 1..K : i < j => Before(key[ranked[i]], key[ranked[j]])
      /\ \A r \in regions : \E i \in 1..K : ranked[i] = r
  <2> HIDE DEF key
  <2>1. ranked \in Bijection(1..K, regions)
    BY <1>1, <1>2, InOrderSorts
  <2>2. \A i, j \in 1..K : i < j => Before(key[ranked[i]], key[ranked[j]])
    BY <1>1, <1>2, InOrderSorts
  <2> HIDE DEF ranked, K
  <2> QED
    BY <2>1, <2>2 DEF Bijection, Injection, Surjection, IsInjective
<1>4. \A i, j \in 1..K : ranked[i] = ranked[j] => i = j
  <2> HIDE DEF key
  <2>1. ranked \in Bijection(1..K, regions)
    BY <1>1, <1>2, InOrderSorts
  <2> HIDE DEF ranked, K
  <2> QED
    BY <2>1 DEF Bijection, Injection, IsInjective
<1> DEFINE codes == [i \in 1..K |-> ranked[i].code]
<1>5. codes \in [1..K -> Active(regions)]
  BY <1>3 DEF Active
<1>6. d = FirstOf(codes, most)
  BY <1>3 DEF defaultRegionCodes
<1>7. most \in Nat /\ N \in Nat /\ N =< K /\ N =< most /\ (N = 0 <=> K = 0)
  BY <1>1
<1> HIDE DEF codes, ranked, K
<1>8. d \in [1..N -> Active(regions)] /\ \A i \in 1..N : d[i] = codes[i]
  <2>1. N = IF most < K THEN most ELSE K
    OBVIOUS
  <2> HIDE DEF most, d, N
  <2>2. K \in Nat /\ most \in Nat /\ codes \in [1..K -> Active(regions)]
    BY <1>1, <1>5, <1>7
  <2>3. FirstOf(codes, most) \in [1..(IF most < K THEN most ELSE K) -> Active(regions)]
    BY <2>2, FirstOfSeq
  <2>4. \A i \in 1..(IF most < K THEN most ELSE K) : FirstOf(codes, most)[i] = codes[i]
    BY <2>2, FirstOfEntries
  <2> QED
    BY <1>6, <2>1, <2>3, <2>4
<1> HIDE DEF N, d
<1>9. \A i \in 1..N : i \in 1..K /\ d[i] = ranked[i].code /\ ranked[i] \in regions
  <2>1. \A i \in 1..K : codes[i] = ranked[i].code
    BY DEF codes
  <2>2. \A i \in 1..N : i \in 1..K
    BY <1>1, <1>7
  <2> QED
    BY <1>3, <1>8, <2>1, <2>2
<1>10. IsInjective(d)
  BY <1>4, <1>8, <1>9 DEF IsInjective, RegionTable
<1>11. limit > 0 => N =< limit
  BY <1>7
<1>12. ASSUME N > 0
       PROVE  \E r \in regions : /\ d[1] = r.code
                                 /\ \A q \in regions \ {r} :
                                       Before(regionRank(r, nodes), regionRank(q, nodes))
  <2>1. 1 \in 1..N /\ 1 \in 1..K /\ ranked[1] \in regions /\ d[1] = ranked[1].code
    BY <1>7, <1>9, <1>12
  <2>2. ASSUME NEW q \in regions \ {ranked[1]}
        PROVE  Before(regionRank(ranked[1], nodes), regionRank(q, nodes))
    <3>1. PICK i \in 1..K : ranked[i] = q
      BY <1>3
    <3>2. 1 < i
      BY <3>1
    <3>3. Before(key[ranked[1]], key[ranked[i]])
      BY <1>3, <2>1, <3>2
    <3> QED
      BY <2>1, <3>1, <3>3
  <2> QED
    BY <2>1, <2>2
<1> QED
  BY <1>1, <1>7, <1>8, <1>10, <1>11, <1>12 DEF d

\* The first of some codes are some of them, each once.
LEMMA FirstOfCodes ==
    \A N \in Nat : \A T : \A s \in [1..N -> T] : \A limit \in Nat :
        /\ IsInjective(s) => IsInjective(FirstOf(s, limit))
        /\ ToSet(FirstOf(s, limit)) \subseteq ToSet(s)
<1> SUFFICES ASSUME NEW N \in Nat, NEW T, NEW s \in [1..N -> T], NEW limit \in Nat
             PROVE  /\ IsInjective(s) => IsInjective(FirstOf(s, limit))
                    /\ ToSet(FirstOf(s, limit)) \subseteq ToSet(s)
  OBVIOUS
<1> DEFINE M == IF limit < N THEN limit ELSE N
           f == FirstOf(s, limit)
<1>1. f \in [1..M -> T] /\ 1..M \subseteq 1..N
  <2>1. f \in [1..M -> T]
    BY FirstOfSeq
  <2>2. 1..M \subseteq 1..N
    OBVIOUS
  <2> QED
    BY <2>1, <2>2
<1>2. \A i \in 1..M : f[i] = s[i]
  BY FirstOfEntries
<1> HIDE DEF M, f
<1>3. IsInjective(s) => IsInjective(f)
  BY <1>1, <1>2 DEF IsInjective
<1>4. ToSet(f) \subseteq ToSet(s)
  BY <1>1, <1>2 DEF ToSet
<1> QED
  BY <1>3, <1>4 DEF f

LEMMA NoneAsked ==
    \A regions, nodes, codes, limit :
        RegionTable(regions) /\ codes = <<>> =>
            normalizeRegionCodes(regions, nodes, codes, limit)
                = defaultRegionCodes(regions, nodes, limit)
<1> SUFFICES ASSUME NEW regions, NEW nodes, NEW limit, RegionTable(regions)
             PROVE  normalizeRegionCodes(regions, nodes, <<>>, limit)
                        = defaultRegionCodes(regions, nodes, limit)
  OBVIOUS
<1> DEFINE asked == askedCodes(regions, <<>>)
<1>1. <<>> \in Seq({})
  OBVIOUS
<1>2. PICK K \in Nat : /\ asked \in [1..K -> Active(regions)]
                       /\ ToSet(asked) = Active(regions) \cap ToSet(<<>>)
  BY <1>1, AskedOnce
<1> HIDE DEF asked
<1>3. ToSet(asked) = {}
  BY <1>2 DEF ToSet
<1>4. \A i \in 1..K : asked[i] \in ToSet(asked)
  BY <1>2 DEF ToSet
<1>5. K = 0
  BY <1>3, <1>4
<1>6. asked = <<>>
  BY <1>2, <1>5
<1> QED
  BY <1>6 DEF normalizeRegionCodes, asked

\* The regions of a task.
LEMMA RegionsOfTask ==
    \A regions, nodes, codes, C, limit, c :
        /\ RegionTable(regions) /\ codes \in Seq(C) /\ limit \in Nat
        /\ c = normalizeRegionCodes(regions, nodes, codes, limit)
        => \E N \in Nat :
              /\ c \in [1..N -> Active(regions)]
              /\ IsInjective(c)
              /\ N = 0 <=> Active(regions) = {}
              /\ limit > 0 => N =< limit
              /\ Active(regions) \cap ToSet(codes) # {} =>
                    /\ ToSet(c) \subseteq ToSet(codes)
                    /\ limit = 0 => ToSet(c) = Active(regions) \cap ToSet(codes)
<1> SUFFICES ASSUME NEW regions, NEW nodes, NEW codes, NEW C, NEW limit, NEW c,
                    RegionTable(regions), codes \in Seq(C), limit \in Nat,
                    c = normalizeRegionCodes(regions, nodes, codes, limit)
             PROVE  \E N \in Nat :
              /\ c \in [1..N -> Active(regions)]
              /\ IsInjective(c)
              /\ N = 0 <=> Active(regions) = {}
              /\ limit > 0 => N =< limit
              /\ Active(regions) \cap ToSet(codes) # {} =>
                    /\ ToSet(c) \subseteq ToSet(codes)
                    /\ limit = 0 => ToSet(c) = Active(regions) \cap ToSet(codes)
  OBVIOUS
<1> DEFINE asked == askedCodes(regions, codes)
           d == defaultRegionCodes(regions, nodes, limit)
           A == Active(regions)
<1>1. PICK K \in Nat : /\ asked \in [1..K -> A]
                       /\ IsInjective(asked)
                       /\ ToSet(asked) = A \cap ToSet(codes)
  BY AskedOnce
<1>2. asked = <<>> <=> K = 0
  BY <1>1
<1>3. K = 0 <=> A \cap ToSet(codes) = {}
  <2>1. ToSet(asked) = {asked[i] : i \in 1..K}
    BY <1>1 DEF ToSet
  <2>2. K # 0 => 1 \in 1..K
    BY <1>1
  <2> HIDE DEF asked, A
  <2>3. K # 0 => asked[1] \in ToSet(asked)
    BY <2>1, <2>2
  <2>4. K = 0 => ToSet(asked) = {}
    BY <2>1
  <2> QED
    BY <1>1, <2>3, <2>4
<1>4. codes = <<>> => K = 0
  BY <1>3 DEF ToSet
<1> HIDE DEF asked, A
<1>5. CASE asked = <<>>
  <2>1. c = d
    BY <1>5 DEF normalizeRegionCodes, asked
  <2>2. PICK N \in Nat : /\ d \in [1..N -> A]
                         /\ IsInjective(d)
                         /\ limit > 0 => N =< limit
                         /\ N = 0 <=> regions = {}
    BY DefaultsRanked DEF A
  <2>3. regions = {} <=> A = {}
    BY DEF A, Active
  <2>4. A \cap ToSet(codes) = {}
    BY <1>2, <1>3, <1>5
  <2> HIDE DEF d
  <2>5. /\ c \in [1..N -> A] /\ IsInjective(c) /\ (N = 0 <=> A = {}) /\ (limit > 0 => N =< limit)
    BY <2>1, <2>2, <2>3
  <2> QED
    BY <2>1, <2>4, <2>5 DEF d, A
<1>6. CASE asked # <<>> /\ limit = 0
  <2>1. c = asked
    BY <1>6 DEF normalizeRegionCodes, asked
  <2>2. K # 0 /\ A # {} /\ codes # <<>>
    BY <1>1, <1>2, <1>3, <1>4, <1>6
  <2> QED
    BY <1>1, <1>6, <2>1, <2>2 DEF A
<1>7. CASE asked # <<>> /\ limit # 0
  <2> DEFINE M == IF limit < K THEN limit ELSE K
  <2>1. c = FirstOf(asked, limit)
    BY <1>7 DEF normalizeRegionCodes, asked
  <2>2. K # 0 /\ A # {} /\ codes # <<>>
    BY <1>1, <1>2, <1>3, <1>4, <1>7
  <2>3. M \in Nat /\ M # 0 /\ M =< limit
    BY <1>7, <2>2
  <2>4. c \in [1..M -> A]
    <3>1. K \in Nat /\ limit \in Nat /\ asked \in [1..K -> A]
      BY <1>1
    <3>2. FirstOf(asked, limit) \in [1..(IF limit < K THEN limit ELSE K) -> A]
      BY <3>1, FirstOfSeq
    <3> QED
      BY <2>1, <3>2
  <2>5. IsInjective(c) /\ ToSet(c) \subseteq ToSet(asked)
    BY <1>1, <2>1, FirstOfCodes
  <2>6. ToSet(c) \subseteq ToSet(codes)
    BY <1>1, <2>5
  <2> HIDE DEF M
  <2> QED
    BY <1>7, <2>2, <2>3, <2>4, <2>5, <2>6 DEF A
<1> QED
  BY <1>5, <1>6, <1>7

-----------------------------------------------------------------------------
(* A task that names no region.                                            *)

\* What comes first has nothing in its leading components if another has nothing
\* in them.
LEMMA LeadingZeros ==
    \A n \in Nat : \A x, y \in Keys(n) : \A m \in 1..n :
        /\ Before(x, y)
        /\ \A j \in 1..m : y[j] = 0 /\ x[j] \in 0..1
        => \A j \in 1..m : x[j] = 0
<1> SUFFICES ASSUME NEW n \in Nat, NEW x \in Keys(n), NEW y \in Keys(n), NEW m \in 1..n,
                    Before(x, y), \A j \in 1..m : y[j] = 0 /\ x[j] \in 0..1
             PROVE  \A j \in 1..m : x[j] = 0
  OBVIOUS
<1>1. PICK i \in 1..n : x[i] < y[i] /\ \A j \in 1..(i - 1) : x[j] = y[j]
  BY BeforeKeys
<1>2. i \notin 1..m
  <2> SUFFICES ASSUME i \in 1..m
               PROVE  FALSE
    OBVIOUS
  <2>1. y[i] = 0 /\ x[i] \in 0..1
    OBVIOUS
  <2> QED
    BY <1>1, <2>1
<1>3. \A j \in 1..m : j \in 1..(i - 1)
  BY <1>2
<1> QED
  BY <1>1, <1>3

\* An online node in the region, or a remote one, is reason enough to choose such
\* a node.
LEMMA SelectOnline ==
    ASSUME NEW nodes, NodeTable(nodes), NEW region, NEW n \in nodes,
           Placed(n, region), nodeOnline(n),
           NEW r, r = getSingleExecutionNode(nodes, region, "auto")
    PROVE  nodeOnline(r) /\ (~ n.local => ~ r.local)
<1> DEFINE key(m) == Preference(m, nodes, region, "auto")
<1>1. r \in nodes /\ (r # n => Before(key(r), key(n)))
  BY SelectionRanks
<1>2. CASE r = n
  BY <1>2
<1>3. CASE r # n
  <2>1. Fits(n, nodes, region, "auto") /\ Fits(r, nodes, region, "auto")
    BY DEF Fits
  <2>2. n.schedulable /\ n.up
    BY DEF Placed, nodeOnline
  <2>3. /\ key(n) \in Keys(8) /\ key(n)[1] = 0 /\ key(n)[2] = 0 /\ key(n)[3] = 0
        /\ key(n)[4] = 0 /\ key(n)[5] = 0 /\ key(n)[6] = boolToInt(n.local)
    BY <2>1, <2>2, PreferenceKeys DEF boolToInt
  <2>4. key(r) \in Keys(8) /\ \A j \in 1..6 : key(r)[j] \in 0..1
    <3>1. CASE r.schedulable
      <4>1. /\ key(r) \in Keys(8) /\ key(r)[1] = 0
            /\ key(r)[2] = boolToInt(~ Placed(r, region))
            /\ key(r)[3] = boolToInt(~ Fits(r, nodes, region, "auto"))
            /\ key(r)[4] = boolToInt(~ nodeOnline(r)) /\ key(r)[5] = boolToInt(~ r.up)
            /\ key(r)[6] = boolToInt(r.local)
        BY <1>1, <3>1, PreferenceKeys
      <4>2. \A j \in 1..6 : j = 1 \/ j = 2 \/ j = 3 \/ j = 4 \/ j = 5 \/ j = 6
        OBVIOUS
      <4> HIDE DEF key
      <4> QED
        BY <4>1, <4>2, BoolInt
    <3>2. CASE ~ r.schedulable
      <4>1. key(r) \in Keys(8) /\ key(r)[1] = 1 /\ \A i \in 2..6 : key(r)[i] = 0
        BY <1>1, <3>2, PreferenceKeys
      <4>2. \A j \in 1..6 : j = 1 \/ j \in 2..6
        OBVIOUS
      <4> HIDE DEF key
      <4> QED
        BY <4>1, <4>2
    <3> QED
      BY <3>1, <3>2
  <2> DEFINE p == key(r)
             q == key(n)
  <2>5. p \in Keys(8) /\ q \in Keys(8) /\ Before(p, q)
    BY <1>1, <1>3, <2>3, <2>4
  <2>6. p[1] = 1 <=> ~ r.schedulable
    BY <1>1, PreferenceKeys
  <2>7. r.schedulable => /\ p[4] = boolToInt(~ nodeOnline(r))
                         /\ p[6] = boolToInt(r.local)
    BY <1>1, PreferenceKeys
  <2> HIDE DEF p, q
  <2>8. \A j \in 1..5 : q[j] = 0
    <3>1. \A j \in 1..5 : j = 1 \/ j = 2 \/ j = 3 \/ j = 4 \/ j = 5
      OBVIOUS
    <3> QED
      BY <2>3, <3>1 DEF q
  <2>9. \A j \in 1..5 : p[j] = 0
    <3>1. \A j \in 1..5 : p[j] \in 0..1
      BY <2>4 DEF p
    <3>2. 8 \in Nat /\ 5 \in 1..8
      OBVIOUS
    <3> QED
      BY <2>5, <2>8, <3>1, <3>2, LeadingZeros
  <2>10. nodeOnline(r)
    BY <2>6, <2>7, <2>9 DEF boolToInt
  <2>11. ASSUME ~ n.local
         PROVE  ~ r.local
    <3>1. q[6] = 0
      BY <2>3, <2>11 DEF q, boolToInt
    <3>2. \A j \in 1..6 : q[j] = 0 /\ p[j] \in 0..1
      <4>1. \A j \in 1..6 : j = 6 \/ j \in 1..5
        OBVIOUS
      <4> QED
        BY <2>4, <2>8, <3>1, <4>1 DEF p
    <3>3. 8 \in Nat /\ 6 \in 1..8
      OBVIOUS
    <3>4. \A j \in 1..6 : p[j] = 0
      BY <2>5, <3>2, <3>3, LeadingZeros
    <3> QED
      BY <2>6, <2>7, <3>4 DEF boolToInt
  <2> QED
    BY <2>10, <2>11
<1> QED
  BY <1>2, <1>3

\* The online nodes of a region, and whether a region has one of them: the
\* ranking of regions asks no more than this of nodes.
Usable(nodes, region) == {n \in nodes : Placed(n, region) /\ nodeOnline(n)}

LEMMA RegionParts ==
    ASSUME NEW r, NEW nodes
    PROVE  /\ regionRank(r, nodes)[1] = 0 <=> \E n \in Usable(nodes, r.code) : ~ n.local
           /\ regionRank(r, nodes)[2] = 0 <=> Usable(nodes, r.code) # {}
           /\ regionRank(r, nodes)[1] \in 0..1 /\ regionRank(r, nodes)[2] \in 0..1
<1> DEFINE here == InRegion(schedulableNodes(nodes), r.code)
           none == \A n \in here : n.local \/ ~ nodeOnline(n)
           off == \A n \in here : ~ nodeOnline(n)
<1>1. \A n : n \in here <=> n \in nodes /\ Placed(n, r.code)
  BY DEF InRegion, schedulableNodes, Placed
<1>2. regionRank(r, nodes)[1] = boolToInt(none) /\ regionRank(r, nodes)[2] = boolToInt(off)
  BY DEF regionRank
<1>3. none <=> ~ \E n \in Usable(nodes, r.code) : ~ n.local
  BY <1>1 DEF Usable
<1>4. off <=> Usable(nodes, r.code) = {}
  BY <1>1 DEF Usable
<1> HIDE DEF none, off
<1>5. /\ boolToInt(none) = 0 <=> ~ none
      /\ boolToInt(off) = 0 <=> ~ off
  BY DEF boolToInt
<1> QED
  BY <1>2, <1>3, <1>4, <1>5, BoolInt

\* The region ranked first has an online node if any has, and a remote one if any
\* has a remote one.
LEMMA FirstRegion ==
    ASSUME NEW regions, RegionTable(regions), NEW nodes, NEW r \in regions, NEW q \in regions,
           r # q => Before(regionRank(r, nodes), regionRank(q, nodes))
    PROVE  /\ Usable(nodes, q.code) # {} => Usable(nodes, r.code) # {}
           /\ (\E n \in Usable(nodes, q.code) : ~ n.local)
                => \E n \in Usable(nodes, r.code) : ~ n.local
<1> DEFINE x == regionRank(r, nodes)
           y == regionRank(q, nodes)
<1>1. x \in Keys(6) /\ y \in Keys(6)
  BY RegionKeys
<1>2. CASE r = q
  BY <1>2
<1>3. CASE r # q
  <2>1. /\ x[1] = 0 <=> \E n \in Usable(nodes, r.code) : ~ n.local
        /\ x[2] = 0 <=> Usable(nodes, r.code) # {}
        /\ y[1] = 0 <=> \E n \in Usable(nodes, q.code) : ~ n.local
        /\ y[2] = 0 <=> Usable(nodes, q.code) # {}
    BY RegionParts
  <2>2. x[1] \in 0..1 /\ x[2] \in 0..1 /\ y[1] \in 0..1 /\ y[2] \in 0..1
    BY RegionParts
  <2>3. Before(x, y)
    BY <1>3
  <2> HIDE DEF x, y
  <2>4. PICK i \in 1..6 : x[i] < y[i] /\ \A j \in 1..(i - 1) : x[j] = y[j]
    <3>1. 6 \in Nat
      OBVIOUS
    <3> QED
      BY <1>1, <2>3, <3>1, BeforeKeys
  <2>5. y[1] = 0 => x[1] = 0
    <3>1. CASE i = 1
      BY <2>2, <2>4, <3>1
    <3>2. CASE i # 1
      <4>1. 1 \in 1..(i - 1)
        BY <3>2
      <4> QED
        BY <2>4, <4>1
    <3> QED
      BY <3>1, <3>2
  <2>6. y[2] = 0 => x[2] = 0
    <3>1. CASE i = 1
      BY <2>1, <2>2, <2>4, <3>1
    <3>2. CASE i = 2
      BY <2>2, <2>4, <3>2
    <3>3. CASE i # 1 /\ i # 2
      <4>1. 2 \in 1..(i - 1)
        BY <3>3
      <4> QED
        BY <2>4, <4>1
    <3> QED
      BY <3>1, <3>2, <3>3
  <2> QED
    BY <2>1, <2>5, <2>6
<1> QED
  BY <1>2, <1>3

-----------------------------------------------------------------------------
(* Options.                                                                *)

\* The bounds of a knob and its default between them.
IsKnob(knob) ==
    /\ knob.min \in Int /\ knob.max \in Int /\ knob.default \in Int
    /\ 0 < knob.min /\ knob.min =< knob.default /\ knob.default =< knob.max

LEMMA ClampRange ==
    \A raw \in Numeric : \A knob :
        IsKnob(knob) => Clamp(raw, knob) \in knob.min..knob.max
BY OptionsAssumption DEF Clamp, Given, Numeric, IsKnob

LEMMA ClampKeeps ==
    \A knob : IsKnob(knob) => \A v \in knob.min..knob.max : Clamp(v, knob) = v
BY OptionsAssumption DEF Clamp, Given, IsKnob

\* Seconds are whole multiples of ten tenths.
LEMMA TensAreWhole ==
    \A k \in Int : (10 * k) % 10 = 0 /\ (-10 * k) % 10 = 0
OBVIOUS

LEMMA WholeNumbers ==
    \A raw \in Numeric : /\ Whole(raw) \in Numeric
                         /\ raw \in Int => Whole(raw) \in Int /\ Whole(raw) % 10 = 0
                         /\ raw \in {Absent, Junk} => Whole(raw) = raw
<1> SUFFICES ASSUME NEW raw \in Int
             PROVE  Whole(raw) \in Int /\ Whole(raw) % 10 = 0
  BY OptionsAssumption DEF Whole, Numeric
<1>1. raw \div 10 \in Int /\ (- raw) \div 10 \in Int
  OBVIOUS
<1>2. 10 * (raw \div 10) \in Int /\ -10 * ((- raw) \div 10) \in Int
  BY <1>1
<1> QED
  BY <1>1, <1>2, TensAreWhole, OptionsAssumption DEF Whole

LEMMA WholeRange ==
    \A raw \in Numeric : \A knob :
        IsKnob(knob) /\ knob.min % 10 = 0 /\ knob.max % 10 = 0 /\ knob.default % 10 = 0
        => ClampWhole(raw, knob) \in knob.min..knob.max /\ ClampWhole(raw, knob) % 10 = 0
<1> SUFFICES ASSUME NEW raw \in Numeric, NEW knob, IsKnob(knob),
                    knob.min % 10 = 0, knob.max % 10 = 0, knob.default % 10 = 0
             PROVE  ClampWhole(raw, knob) \in knob.min..knob.max /\ ClampWhole(raw, knob) % 10 = 0
  OBVIOUS
<1> DEFINE w == Whole(raw)
<1>1. w \in Numeric /\ (w \in Int => w % 10 = 0)
  BY WholeNumbers, OptionsAssumption DEF Numeric
<1>2. ClampWhole(raw, knob) = Clamp(w, knob)
  BY DEF ClampWhole
<1> HIDE DEF w
<1>3. Clamp(w, knob) \in knob.min..knob.max
  BY <1>1, ClampRange
<1>4. Clamp(w, knob) % 10 = 0
  BY <1>1, OptionsAssumption DEF Clamp, Given, Numeric, IsKnob
<1> QED
  BY <1>2, <1>3, <1>4

LEMMA WholeKeeps ==
    \A knob : IsKnob(knob) => \A v \in knob.min..knob.max :
        v % 10 = 0 => ClampWhole(v, knob) = v
BY ClampKeeps, OptionsAssumption DEF ClampWhole, Whole, IsKnob

\* The options of a batch probe, as they are stored and as they are used, and
\* those of a single probe.
Cleaned(g) ==
    LET stored == CleanBatch(g.protocol, g.raw)
    IN [stored |-> stored, used |-> CleanProber(g.protocol, stored),
        single |-> CleanProber(g.protocol, g.raw)]

\* The raw options of a probe.
RawOptions(raw) == raw \in [timeout : Numeric, count : Numeric, hops : Numeric]

LEMMA StoredHttp ==
    ASSUME NEW raw, RawOptions(raw)
    PROVE  \E t \in 10..300 : /\ CleanBatch("http", raw) = [timeout |-> t]
                              /\ CleanProber("http", [timeout |-> t]) = [timeout |-> t]
<1> DEFINE t == ClampWhole(raw.timeout, Knob(10, 300, 100))
<1>1. t \in 10..300
  BY WholeRange DEF RawOptions, IsKnob, Knob
<1>2. CleanBatch("http", raw) = [timeout |-> t]
  BY DEF CleanBatch
<1> HIDE DEF t
<1>3. Opt([timeout |-> t], "timeout") = t
  BY DEF Opt
<1>4. Clamp(t, Knob(1, 1200, 100)) = t
  BY <1>1, ClampKeeps DEF IsKnob, Knob
<1>5. CleanProber("http", [timeout |-> t]) = [timeout |-> t]
  BY <1>3, <1>4 DEF CleanProber
<1> QED
  BY <1>1, <1>2, <1>5

LEMMA StoredPing ==
    ASSUME NEW raw, RawOptions(raw)
    PROVE  \E c \in 1..10, t \in 10..100 :
              /\ CleanBatch("ping", raw) = [count |-> c, timeout |-> t]
              /\ CleanProber("ping", [count |-> c, timeout |-> t]) = [count |-> c, timeout |-> t]
<1> DEFINE c == Clamp(raw.count, Knob(1, 10, 4))
           t == ClampWhole(raw.timeout, Knob(10, 100, 20))
           o == [count |-> c, timeout |-> t]
<1>1. c \in 1..10
  BY ClampRange DEF RawOptions, IsKnob, Knob
<1>2. t \in 10..100 /\ t % 10 = 0
  BY WholeRange DEF RawOptions, IsKnob, Knob
<1>3. CleanBatch("ping", raw) = o
  BY DEF CleanBatch
<1> HIDE DEF c, t
<1>4. Opt(o, "timeout") = t /\ Opt(o, "count") = c
  BY DEF Opt
<1>5. Clamp(c, Knob(1, 10, 4)) = c
  BY <1>1, ClampKeeps DEF IsKnob, Knob
<1>6. ClampWhole(t, Knob(10, 100, 20)) = t
  BY <1>2, WholeKeeps DEF IsKnob, Knob
<1>7. CleanProber("ping", o) = o
  BY <1>4, <1>5, <1>6 DEF CleanProber
<1> QED
  BY <1>1, <1>2, <1>3, <1>7

LEMMA StoredRoute ==
    ASSUME NEW raw, RawOptions(raw), NEW protocol \in {"mtr", "traceroute"}
    PROVE  \E h \in 1..30, c \in 1..10, t \in 10..100 :
              /\ CleanBatch(protocol, raw) = [hops |-> h, count |-> c, timeout |-> t]
              /\ CleanProber(protocol, [hops |-> h, count |-> c, timeout |-> t])
                    = [hops |-> h, count |-> c, timeout |-> t]
<1> DEFINE h == Clamp(raw.hops, Knob(1, 30, 20))
           c == Clamp(raw.count, Knob(1, 10, 3))
           t == ClampWhole(raw.timeout, Knob(10, 100, 20))
           o == [hops |-> h, count |-> c, timeout |-> t]
<1>1. h \in 1..30 /\ c \in 1..10
  BY ClampRange DEF RawOptions, IsKnob, Knob
<1>2. t \in 10..100
  BY WholeRange DEF RawOptions, IsKnob, Knob
<1>3. CleanBatch(protocol, raw) = o
  BY DEF CleanBatch
<1> HIDE DEF h, c, t
<1>4. Opt(o, "timeout") = t /\ Opt(o, "count") = c /\ Opt(o, "hops") = h
  BY DEF Opt
<1>5. /\ Clamp(h, Knob(1, 30, 10)) = h /\ Clamp(h, Knob(1, 30, 12)) = h
      /\ Clamp(c, Knob(1, 10, 1)) = c /\ Clamp(c, Knob(1, 10, 3)) = c
      /\ Clamp(t, Knob(1, 100, 10)) = t
  BY <1>1, <1>2, ClampKeeps DEF IsKnob, Knob
<1>6. CleanProber(protocol, o) = o
  BY <1>4, <1>5 DEF CleanProber
<1> QED
  BY <1>1, <1>2, <1>3, <1>6

\* A single probe is run with raw options.
LEMMA SingleHttp ==
    ASSUME NEW raw, RawOptions(raw)
    PROVE  CleanProber("http", raw) = [timeout |-> Clamp(raw.timeout, Knob(1, 1200, 100))]
<1>1. Opt(raw, "timeout") = raw.timeout
  BY DEF Opt, RawOptions
<1> QED
  BY <1>1 DEF CleanProber

LEMMA SinglePing ==
    ASSUME NEW raw, RawOptions(raw)
    PROVE  \E c \in 1..10, t \in 10..100 : CleanProber("ping", raw) = [count |-> c, timeout |-> t]
<1>1. /\ Opt(raw, "timeout") = raw.timeout /\ raw.timeout \in Numeric
      /\ Opt(raw, "count") = raw.count /\ raw.count \in Numeric
  BY DEF Opt, RawOptions
<1>2. Clamp(raw.count, Knob(1, 10, 4)) \in 1..10
  BY <1>1, ClampRange DEF IsKnob, Knob
<1>3. ClampWhole(raw.timeout, Knob(10, 100, 20)) \in 10..100
  BY <1>1, WholeRange DEF IsKnob, Knob
<1>4. CleanProber("ping", raw) = [count |-> Clamp(raw.count, Knob(1, 10, 4)),
                                  timeout |-> ClampWhole(raw.timeout, Knob(10, 100, 20))]
  BY <1>1 DEF CleanProber
<1> QED
  BY <1>2, <1>3, <1>4

LEMMA SingleRoute ==
    ASSUME NEW raw, RawOptions(raw), NEW protocol \in {"mtr", "traceroute"}
    PROVE  \E h \in 1..30, c \in 1..10, t \in 1..100 :
              CleanProber(protocol, raw) = [hops |-> h, count |-> c, timeout |-> t]
<1>1. /\ Opt(raw, "timeout") = raw.timeout /\ raw.timeout \in Numeric
      /\ Opt(raw, "count") = raw.count /\ raw.count \in Numeric
      /\ Opt(raw, "hops") = raw.hops /\ raw.hops \in Numeric
  BY DEF Opt, RawOptions
<1>2. CASE protocol = "mtr"
  <2> DEFINE h == Clamp(raw.hops, Knob(1, 30, 10))
             c == Clamp(raw.count, Knob(1, 10, 1))
             t == Clamp(raw.timeout, Knob(1, 100, 10))
  <2>1. h \in 1..30 /\ c \in 1..10 /\ t \in 1..100
    BY <1>1, ClampRange DEF IsKnob, Knob
  <2>2. CleanProber("mtr", raw) = [hops |-> h, count |-> c, timeout |-> t]
    BY <1>1 DEF CleanProber
  <2> HIDE DEF h, c, t
  <2> QED
    BY <1>2, <2>1, <2>2
<1>3. CASE protocol = "traceroute"
  <2> DEFINE h == Clamp(raw.hops, Knob(1, 30, 12))
             c == Clamp(raw.count, Knob(1, 10, 3))
             t == Clamp(raw.timeout, Knob(1, 100, 10))
  <2>1. h \in 1..30 /\ c \in 1..10 /\ t \in 1..100
    BY <1>1, ClampRange DEF IsKnob, Knob
  <2>2. CleanProber("traceroute", raw) = [hops |-> h, count |-> c, timeout |-> t]
    BY <1>1 DEF CleanProber
  <2> HIDE DEF h, c, t
  <2> QED
    BY <1>3, <2>1, <2>2
<1> QED
  BY <1>2, <1>3

LEMMA StoredIsUsed ==
    ASSUME NEW raw, RawOptions(raw), NEW protocol \in Protocols \ {"dns"}
    PROVE  CleanProber(protocol, CleanBatch(protocol, raw)) = CleanBatch(protocol, raw)
<1>1. CASE protocol = "http"
  BY <1>1, StoredHttp
<1>2. CASE protocol = "ping"
  BY <1>2, StoredPing
<1>3. CASE protocol \in {"mtr", "traceroute"}
  BY <1>3, StoredRoute
<1> QED
  BY <1>1, <1>2, <1>3 DEF Protocols

\* The waits of a prober's command end within its context, by its own options.
LEMMA SecondsAtLeastOne ==
    \A t \in Nat : Seconds(t) \in Nat /\ Seconds(t) >= 1 /\ t \div 10 \in Nat
BY DEF Seconds, MaxInt

LEMMA NatProducts == \A m, n \in Nat : m * n \in Nat
OBVIOUS

LEMMA NatProductGrows == \A m, n \in Nat : n >= 1 => m * n >= m
OBVIOUS

LEMMA PingFits ==
    ASSUME NEW c \in Nat, NEW t \in Nat
    PROVE  LongestRun("ping", [count |-> c, timeout |-> t])
               < Budget("ping", [count |-> c, timeout |-> t])
<1> DEFINE w == c * (t \div 10)
<1>1. w \in Nat
  BY SecondsAtLeastOne, NatProducts
<1>2. /\ LongestRun("ping", [count |-> c, timeout |-> t]) = MaxInt(2, w)
      /\ Budget("ping", [count |-> c, timeout |-> t]) = w + 5
  BY DEF LongestRun, Budget
<1> HIDE DEF w
<1> QED
  BY <1>1, <1>2 DEF MaxInt

LEMMA RouteFits ==
    ASSUME NEW h \in Nat, NEW c \in Nat, NEW t \in Nat
    PROVE  LET o == [hops |-> h, count |-> c, timeout |-> t]
           IN  /\ LongestRun("mtr", o) < Budget("mtr", o)
               /\ LongestRun("traceroute", o) < Budget("traceroute", o)
<1> DEFINE o == [hops |-> h, count |-> c, timeout |-> t]
           s == Seconds(t)
           w == c * s
           r == h * c * s
<1>1. s \in Nat /\ s >= 1 /\ w \in Nat /\ w >= c
  BY SecondsAtLeastOne, NatProducts, NatProductGrows
<1>2. r \in Nat
  <2>1. h * c \in Nat
    BY NatProducts
  <2> HIDE DEF s
  <2> QED
    BY <1>1, <2>1, NatProducts
<1>3. /\ LongestRun("mtr", o) = c /\ Budget("mtr", o) = MaxInt(20, w + 15)
      /\ LongestRun("traceroute", o) = r /\ Budget("traceroute", o) = MaxInt(15, r + 10)
  BY DEF LongestRun, Budget
<1> HIDE DEF w, r, o
<1>4. c < MaxInt(20, w + 15) /\ r < MaxInt(15, r + 10)
  BY <1>1, <1>2 DEF MaxInt
<1> QED
  BY <1>3, <1>4 DEF o

\* The caller of an HTTP probe waits for longer than the probe.
LEMMA HttpFits ==
    ASSUME NEW raw, RawOptions(raw)
    PROVE  /\ Clamp(raw.timeout, Knob(1, 1200, 100)) < CallerBudget("single", raw)
           /\ \A t \in 10..300 : t =< CallerBudget("batch", raw)
BY OptionsAssumption DEF RawOptions, Numeric, Clamp, Given, Knob, CallerBudget

-----------------------------------------------------------------------------
(* Query plans.                                                            *)

LEMMA RepeatTwice ==
    \A raw \in Numeric : /\ Repeat(raw) \in Numeric
                         /\ Repeat(Repeat(raw)) = Repeat(raw)
<1> SUFFICES ASSUME NEW raw \in Numeric
             PROVE  /\ Repeat(raw) \in Numeric /\ Repeat(Repeat(raw)) = Repeat(raw)
  OBVIOUS
<1> DEFINE k == Knob(1, 5, 1)
           r == Repeat(raw)
<1>1. IsKnob(k) /\ k.min = 1 /\ k.max = 5
  BY DEF IsKnob, Knob
<1>2. r = Clamp(raw, k) /\ Repeat(r) = Clamp(r, k)
  BY DEF Repeat
<1> HIDE DEF k, r
<1>3. r \in k.min..k.max
  BY <1>1, <1>2, ClampRange
<1>4. r \in Numeric /\ Clamp(r, k) = r
  BY <1>1, <1>3, ClampKeeps DEF Numeric
<1> QED
  BY <1>2, <1>4 DEF r

\* What is left of a step when its name is put aside.
Unnamed(step) == [step EXCEPT !.name = ""]

LEMMA UnnamedAlike ==
    \A f, g :
        DOMAIN f = DOMAIN g /\ (\A x \in DOMAIN f : x # "name" => f[x] = g[x])
        => Unnamed(f) = Unnamed(g)
BY DEF Unnamed

StepFields == {"name", "type", "transport", "mode", "repeat", "random"}

\* A step that was accepted is accepted again, and cleaned it stays what it is.
LEMMA StepTwice ==
    \A step, name, target :
        Acceptable(step) /\ step.repeat \in Numeric =>
            /\ Acceptable(normalizeQueryStep(step, name))
            /\ Unnamed(normalizeQueryStep(normalizeQueryStep(step, name), target))
                   = Unnamed(normalizeQueryStep(step, target))
<1> SUFFICES ASSUME NEW step, NEW name, NEW target, Acceptable(step), step.repeat \in Numeric
             PROVE  /\ Acceptable(normalizeQueryStep(step, name))
                    /\ Unnamed(normalizeQueryStep(normalizeQueryStep(step, name), target))
                           = Unnamed(normalizeQueryStep(step, target))
  OBVIOUS
<1> DEFINE type == Text(step.type, "A")
           transport == TransportOf(type, Text(step.transport, "udp"))
           mode == Text(step.mode, "resolver")
           repeat == Repeat(step.repeat)
           random == Flag(step.random)
           once == normalizeQueryStep(step, name)
<1>1. type \in Types /\ transport \in Transports /\ mode \in Modes
  BY OptionsAssumption DEF Acceptable, TransportOf
<1>2. /\ once.type = type /\ once.transport = transport /\ once.mode = mode
      /\ once.repeat = repeat /\ once.random = random
  BY DEF normalizeQueryStep
<1>3. TransportOf(type, transport) = transport
  BY DEF TransportOf
<1>4. Repeat(repeat) = repeat
  BY RepeatTwice
<1>5. Flag(random) = random
  BY DEF Flag
<1> HIDE DEF type, transport, mode, repeat, random, once
<1>6. /\ Text(once.type, "A") = type /\ Text(once.transport, "udp") = transport
      /\ Text(once.mode, "resolver") = mode
  BY <1>1, <1>2, OptionsAssumption DEF Text
<1>7. Acceptable(once)
  BY <1>1, <1>6 DEF Acceptable
<1> DEFINE twice == normalizeQueryStep(once, target)
           direct == normalizeQueryStep(step, target)
<1>8. /\ DOMAIN twice = StepFields /\ twice.type = type /\ twice.transport = transport
      /\ twice.mode = mode /\ twice.repeat = repeat /\ twice.random = random
  BY <1>2, <1>3, <1>4, <1>5, <1>6 DEF normalizeQueryStep, StepFields
<1>9. /\ DOMAIN direct = StepFields /\ direct.type = type /\ direct.transport = transport
      /\ direct.mode = mode /\ direct.repeat = repeat /\ direct.random = random
  BY DEF normalizeQueryStep, StepFields, type, transport, mode, repeat, random
<1> HIDE DEF twice, direct
<1>10. \A x \in StepFields : x # "name" => twice[x] = direct[x]
  BY <1>8, <1>9 DEF StepFields
<1>11. Unnamed(twice) = Unnamed(direct)
  BY <1>8, <1>9, <1>10, UnnamedAlike
<1> QED
  BY <1>7, <1>11 DEF once, twice, direct

RawPlan(raw) ==
    /\ raw.repeat \in Numeric /\ raw.plan \in Seq({raw.plan[i] : i \in DOMAIN raw.plan})
    /\ \A i \in DOMAIN raw.plan : raw.plan[i].repeat \in Numeric

\* What is accepted, and the plan it gives.
AllAcceptable(raw) == Acceptable(raw) /\ \A i \in DOMAIN raw.plan : Acceptable(raw.plan[i])
PlanOf(target, raw) ==
    IF raw.plan = <<>> THEN buildQueryPlan(target, raw)
    ELSE [i \in DOMAIN raw.plan |-> normalizeQueryStep(raw.plan[i], target)]

LEMMA CleanedOptions ==
    ASSUME NEW target, NEW raw
    PROVE  LET o == CleanDNSOptions(target, raw)
           IN  /\ IsRejected(o) <=> ~ AllAcceptable(raw)
               /\ AllAcceptable(raw) =>
                     /\ o.plan = PlanOf(target, raw)
                     /\ o.type = Text(raw.type, "A") /\ o.transport = Text(raw.transport, "udp")
                     /\ o.mode = Text(raw.mode, "resolver") /\ o.repeat = Repeat(raw.repeat)
<1>1. CASE ~ AllAcceptable(raw)
  BY <1>1 DEF CleanDNSOptions, AllAcceptable, IsRejected, Rejected
<1>2. CASE AllAcceptable(raw)
  <2> DEFINE o == [type |-> Text(raw.type, "A"), transport |-> Text(raw.transport, "udp"),
                   mode |-> Text(raw.mode, "resolver"), repeat |-> Repeat(raw.repeat),
                   random |-> Flag(raw.random), plan |-> PlanOf(target, raw)]
  <2>1. CleanDNSOptions(target, raw) = o
    BY <1>2 DEF CleanDNSOptions, AllAcceptable, PlanOf
  <2>2. ~ IsRejected(o)
    BY DEF IsRejected
  <2> QED
    BY <1>2, <2>1, <2>2
<1> QED
  BY <1>1, <1>2

\* The plan of options that have none is one step made of the options.
AsStep(raw) ==
    [name |-> Absent, type |-> raw.type, transport |-> raw.transport, mode |-> raw.mode,
     repeat |-> raw.repeat, random |-> FALSE]
RawSteps(raw) == IF raw.plan = <<>> THEN <<AsStep(raw)>> ELSE raw.plan

LEMMA PlanSteps ==
    ASSUME NEW target, NEW raw
    PROVE  PlanOf(target, raw) =
               [i \in DOMAIN RawSteps(raw) |-> normalizeQueryStep(RawSteps(raw)[i], target)]
<1>1. CASE raw.plan = <<>>
  <2>1. buildQueryPlan(target, raw) = <<normalizeQueryStep(AsStep(raw), target)>>
    BY DEF buildQueryPlan, normalizeQueryStep, AsStep, Text, Flag
  <2> DEFINE s == normalizeQueryStep(AsStep(raw), target)
             r == AsStep(raw)
  <2>2. RawSteps(raw) = <<r>>
    BY <1>1 DEF RawSteps
  <2> HIDE DEF s, r
  <2>3. <<s>> = [i \in DOMAIN <<r>> |-> s]
    OBVIOUS
  <2>4. \A i \in DOMAIN <<r>> : <<r>>[i] = r
    OBVIOUS
  <2>5. [i \in DOMAIN <<r>> |-> s] = [i \in DOMAIN <<r>> |-> normalizeQueryStep(<<r>>[i], target)]
    BY <2>4 DEF s, r
  <2> QED
    BY <1>1, <2>1, <2>2, <2>3, <2>5 DEF PlanOf, s, r
<1>2. CASE raw.plan # <<>>
  BY <1>2 DEF PlanOf, RawSteps
<1> QED
  BY <1>1, <1>2

LEMMA StepsAcceptable ==
    ASSUME NEW raw, RawPlan(raw)
    PROVE  /\ DOMAIN RawSteps(raw) # {}
           /\ \A i \in DOMAIN RawSteps(raw) :
                 /\ RawSteps(raw)[i].repeat \in Numeric
                 /\ AllAcceptable(raw) => Acceptable(RawSteps(raw)[i])
<1>1. CASE raw.plan = <<>>
  <2> DEFINE r == AsStep(raw)
  <2>1. r.repeat \in Numeric /\ (Acceptable(raw) => Acceptable(r))
    BY DEF RawPlan, AsStep, Acceptable
  <2>2. RawSteps(raw) = <<r>>
    BY <1>1 DEF RawSteps
  <2> HIDE DEF r
  <2> QED
    BY <2>1, <2>2 DEF AllAcceptable
<1>2. CASE raw.plan # <<>>
  <2>1. DOMAIN raw.plan # {}
    BY <1>2 DEF RawPlan
  <2> QED
    BY <1>2, <2>1 DEF RawSteps, RawPlan, AllAcceptable
<1> QED
  BY <1>1, <1>2

\* The plans of a single and of a batch probe of a target.
LEMMA PlansAlike ==
    ASSUME NEW target, NEW raw, RawPlan(raw)
    PROVE  LET single == SinglePlan(target, raw)
               batch == BatchPlan(target, raw)
           IN  /\ IsRejected(single) <=> IsRejected(batch)
               /\ ~ IsRejected(single) =>
                     /\ DOMAIN single.plan = DOMAIN batch.plan
                     /\ \A i \in DOMAIN single.plan :
                           Unnamed(single.plan[i]) = Unnamed(batch.plan[i])
<1> DEFINE single == SinglePlan(target, raw)
           batch == BatchPlan(target, raw)
           stored == CleanDNSOptions(Example, raw)
           steps == RawSteps(raw)
<1>1. CASE ~ AllAcceptable(raw)
  <2>1. IsRejected(single) /\ IsRejected(stored)
    BY <1>1, CleanedOptions DEF SinglePlan
  <2>2. IsRejected(batch)
    BY <2>1 DEF BatchPlan, IsRejected, Rejected
  <2> QED
    BY <2>1, <2>2
<1>2. CASE AllAcceptable(raw)
  <2>1. /\ ~ IsRejected(single)
        /\ single.plan = [i \in DOMAIN steps |-> normalizeQueryStep(steps[i], target)]
    BY <1>2, CleanedOptions, PlanSteps DEF SinglePlan
  <2>2. /\ ~ IsRejected(stored)
        /\ stored.plan = [i \in DOMAIN steps |-> normalizeQueryStep(steps[i], Example)]
        /\ stored.type = Text(raw.type, "A") /\ stored.transport = Text(raw.transport, "udp")
        /\ stored.mode = Text(raw.mode, "resolver") /\ stored.repeat = Repeat(raw.repeat)
    BY <1>2, CleanedOptions, PlanSteps
  <2>3. batch = CleanDNSOptions(target, stored)
    BY <2>2 DEF BatchPlan
  <2>4. /\ DOMAIN steps # {}
        /\ \A i \in DOMAIN steps : steps[i].repeat \in Numeric /\ Acceptable(steps[i])
    BY <1>2, StepsAcceptable
  <2> HIDE DEF single, batch, stored, steps
  <2>5. \A i \in DOMAIN steps :
           /\ Acceptable(stored.plan[i])
           /\ Unnamed(normalizeQueryStep(stored.plan[i], target))
                  = Unnamed(normalizeQueryStep(steps[i], target))
    BY <2>2, <2>4, StepTwice
  <2>6. DOMAIN stored.plan = DOMAIN steps /\ stored.plan # <<>>
    BY <2>2, <2>4
  <2>7. Acceptable(stored)
    <3>1. stored.type \in Types /\ stored.transport \in Transports /\ stored.mode \in Modes
      BY <1>2, <2>2 DEF AllAcceptable, Acceptable
    <3> QED
      BY <3>1, OptionsAssumption DEF Acceptable, Text
  <2>8. AllAcceptable(stored)
    BY <2>5, <2>6, <2>7 DEF AllAcceptable
  <2>9. /\ ~ IsRejected(batch)
        /\ batch.plan = [i \in DOMAIN stored.plan |-> normalizeQueryStep(stored.plan[i], target)]
    BY <2>3, <2>6, <2>8, CleanedOptions DEF PlanOf
  <2>10. /\ DOMAIN single.plan = DOMAIN steps /\ DOMAIN batch.plan = DOMAIN steps
         /\ \A i \in DOMAIN steps : Unnamed(single.plan[i]) = Unnamed(batch.plan[i])
    BY <2>1, <2>5, <2>6, <2>9
  <2> QED
    BY <2>1, <2>9, <2>10 DEF single, batch
<1> QED
  BY <1>1, <1>2

-----------------------------------------------------------------------------
(* Traces.                                                                 *)

\* The hop at a depth, with the servers of a level.
HopAt(world, d, level) ==
    LET labels == queryLabels(world, d)
        named == IF level = None THEN None ELSE NamedLevel(world, level, labels)
    IN [level |-> level, labels |-> labels, named |-> named,
        next |-> IF named # None /\ Reachable(world, level) THEN named ELSE None]

\* f is the trail as far as depth n.
TrailTo(world, n, f) ==
    f = [d \in 0..n |-> HopAt(world, d, IF d = 0 THEN 0 ELSE f[d - 1].next)]

LEMMA TrailsExist ==
    ASSUME NEW world, NEW n \in Nat
    PROVE  \E f : TrailTo(world, n, f)
<1> DEFINE Missing == {m \in Nat : ~ \E f : TrailTo(world, m, f)}
<1> SUFFICES ASSUME Missing # {}
             PROVE  FALSE
  OBVIOUS
<1>1. PICK m \in Missing : \A k \in Missing : m =< k
  BY LeastNumber
<1>2. CASE m = 0
  <2> DEFINE f == [d \in 0..0 |-> HopAt(world, d, 0)]
  <2>1. f = [d \in 0..0 |-> HopAt(world, d, IF d = 0 THEN 0 ELSE f[d - 1].next)]
    OBVIOUS
  <2> HIDE DEF f
  <2>2. TrailTo(world, 0, f)
    BY <2>1 DEF TrailTo
  <2> QED
    BY <1>1, <1>2, <2>2
<1>3. CASE m # 0
  <2>1. m - 1 \in Nat /\ m - 1 \notin Missing
    BY <1>1, <1>3
  <2>2. PICK f : TrailTo(world, m - 1, f)
    BY <2>1
  <2> DEFINE g == [d \in 0..m |-> IF d < m THEN f[d] ELSE HopAt(world, d, f[d - 1].next)]
  <2>3. \A d \in 0..m : g[d] = HopAt(world, d, IF d = 0 THEN 0 ELSE g[d - 1].next)
    <3> SUFFICES ASSUME NEW d \in 0..m
                 PROVE  g[d] = HopAt(world, d, IF d = 0 THEN 0 ELSE g[d - 1].next)
      OBVIOUS
    <3>1. CASE d < m
      <4>1. d \in 0..(m - 1) /\ g[d] = f[d]
        BY <2>1, <3>1
      <4>2. f[d] = HopAt(world, d, IF d = 0 THEN 0 ELSE f[d - 1].next)
        BY <2>2, <4>1 DEF TrailTo
      <4>3. d # 0 => g[d - 1] = f[d - 1]
        BY <2>1, <3>1
      <4> HIDE DEF g
      <4> QED
        BY <4>1, <4>2, <4>3
    <3>2. CASE d = m
      <4>1. g[d] = HopAt(world, d, f[d - 1].next)
        BY <3>2
      <4>2. d # 0 /\ g[d - 1] = f[d - 1]
        BY <1>1, <1>3, <3>2
      <4> HIDE DEF g
      <4> QED
        BY <4>1, <4>2
    <3> QED
      BY <1>1, <3>1, <3>2
  <2>4. DOMAIN g = 0..m /\ g = [d \in 0..m |-> g[d]]
    OBVIOUS
  <2> HIDE DEF g
  <2>5. g = [d \in 0..m |-> HopAt(world, d, IF d = 0 THEN 0 ELSE g[d - 1].next)]
    BY <2>3, <2>4
  <2> QED
    BY <1>1, <2>5 DEF TrailTo
<1> QED
  BY <1>2, <1>3

LEMMA TrailSteps ==
    ASSUME NEW world, world.labels \in Nat
    PROVE  TrailTo(world, world.labels, Trail(world))
<1>1. \E f : TrailTo(world, world.labels, f)
  BY TrailsExist
<1>2. Trail(world) = CHOOSE f : TrailTo(world, world.labels, f)
  BY DEF Trail, TrailTo, HopAt
<1> QED
  BY <1>1, <1>2

\* The level named by the answer to a hop.
Named(world, d, level) ==
    IF level = None THEN None ELSE NamedLevel(world, level, queryLabels(world, d))

LEMMA HopFields ==
    \A world, d, level :
        /\ HopAt(world, d, level).level = level
        /\ HopAt(world, d, level).labels = queryLabels(world, d)
        /\ HopAt(world, d, level).next =
              IF Named(world, d, level) # None /\ Reachable(world, level)
              THEN Named(world, d, level) ELSE None
BY DEF HopAt, Named

LEMMA NextLevel ==
    ASSUME NEW world, world.labels \in Nat, world.cut \in Nat,
           NEW d \in Nat, NEW level \in Nat \cup {None},
           NEW next, next = HopAt(world, d, level).next
    PROVE  \/ next = None
           \/ next = level + 1 /\ level \in Nat /\ level < world.labels - d /\ level < world.cut
           \/ next = level /\ level = world.labels - d /\ level \in Nat /\ level > 0
<1> DEFINE named == Named(world, d, level)
<1>1. next = None \/ next = named
  BY HopFields
<1>2. \/ named = None
      \/ named = level + 1 /\ level \in Nat /\ level < world.labels - d /\ level < world.cut
      \/ named = level /\ level = world.labels - d /\ level \in Nat /\ level > 0
  <2>1. CASE level = None
    BY <2>1 DEF Named
  <2>2. CASE level \in Nat
    <3>1. level # None
      BY <2>2 DEF None
    <3>2. named = NamedLevel(world, level, world.labels - d)
      BY <3>1 DEF Named, queryLabels
    <3> DEFINE n == world.labels - d
    <3>3. n \in Int
      OBVIOUS
    <3> HIDE DEF named, n
    <3>4. named = NamedLevel(world, level, n)
      BY <3>2 DEF n
    <3>5. CASE level \in world.silent
      BY <3>4, <3>5 DEF NamedLevel
    <3>6. CASE level \notin world.silent /\ n < level
      BY <2>2, <3>3, <3>4, <3>6 DEF NamedLevel
    <3>7. CASE level \notin world.silent /\ level < n /\ level < world.cut
      BY <2>2, <3>3, <3>4, <3>7 DEF NamedLevel, n
    <3>8. CASE level \notin world.silent /\ level < n /\ ~ (level < world.cut)
      BY <2>2, <3>3, <3>4, <3>8 DEF NamedLevel
    <3>9. CASE level \notin world.silent /\ n = level /\ level > 0
      BY <2>2, <3>4, <3>9 DEF NamedLevel, n
    <3>10. CASE level \notin world.silent /\ n = level /\ ~ (level > 0)
      BY <2>2, <3>4, <3>10 DEF NamedLevel
    <3> QED
      BY <2>2, <3>3, <3>5, <3>6, <3>7, <3>8, <3>9, <3>10
  <2> QED
    BY <2>1, <2>2
<1> QED
  BY <1>1, <1>2

\* Going down takes a hop for every level, and a label for every hop.
LEMMA LevelBounds ==
    ASSUME NEW world, world.labels \in Nat, world.cut \in Nat, NEW d \in 0..world.labels
    PROVE  LET level == Trail(world)[d].level
           IN  level # None => /\ level \in Nat /\ level =< d /\ level =< world.cut
                               /\ level =< world.labels - d + 1
<1> DEFINE T == Trail(world)
           L == world.labels
           Good(e) == T[e].level # None =>
                         /\ T[e].level \in Nat /\ T[e].level =< e /\ T[e].level =< world.cut
                         /\ T[e].level =< L - e + 1
           Bad == {e \in 0..L : ~ Good(e)}
<1>1. \A e \in 0..L : T[e] = HopAt(world, e, IF e = 0 THEN 0 ELSE T[e - 1].next)
  BY TrailSteps DEF TrailTo
<1> HIDE DEF T
<1>2. SUFFICES ASSUME Bad # {}
               PROVE  FALSE
  BY DEF T
<1>3. PICK e \in Bad : \A k \in Bad : e =< k
  <2>1. Bad \in SUBSET Nat
    OBVIOUS
  <2> HIDE DEF Bad
  <2> QED
    BY <1>2, <2>1, LeastNumber
<1>4. CASE e = 0
  <2>1. T[0] = HopAt(world, 0, 0)
    BY <1>1
  <2>2. T[0].level = 0
    BY <2>1, HopFields
  <2> QED
    BY <1>3, <1>4, <2>2
<1>5. CASE e # 0
  <2>1. e \in 0..L /\ e - 1 \in 0..L /\ e - 1 \in Nat /\ ~ (e =< e - 1)
    BY <1>3, <1>5
  <2>2. Good(e - 1)
    BY <1>3, <2>1
  <2> DEFINE l == T[e - 1].level
             before == IF e - 1 = 0 THEN 0 ELSE T[e - 1 - 1].next
  <2>3. T[e].level = T[e - 1].next
    BY <1>1, <1>5, <2>1, HopFields
  <2>4. T[e - 1] = HopAt(world, e - 1, before)
    BY <1>1, <2>1
  <2>5. before = l
    BY <2>4, HopFields
  <2>6. l \in Nat \cup {None}
    BY <2>2
  <2> HIDE DEF l, before
  <2>7. \/ T[e - 1].next = None
        \/ T[e - 1].next = l + 1 /\ l \in Nat /\ l < L - (e - 1) /\ l < world.cut
        \/ T[e - 1].next = l /\ l = L - (e - 1) /\ l \in Nat /\ l > 0
    <3>1. T[e - 1].next = HopAt(world, e - 1, l).next
      BY <2>4, <2>5
    <3> QED
      BY <2>1, <2>6, <3>1, NextLevel
  <2>8. l # None => l =< e - 1 /\ l =< world.cut
    BY <2>2 DEF l
  <2>9. Good(e)
    <3>1. CASE T[e].level = None
      BY <3>1
    <3>2. CASE T[e].level = l + 1 /\ l \in Nat /\ l < L - (e - 1) /\ l < world.cut
      <4>1. l # None
        BY <3>2 DEF None
      <4> QED
        BY <2>1, <2>8, <3>2, <4>1
    <3>3. CASE T[e].level = l /\ l = L - (e - 1) /\ l \in Nat /\ l > 0
      <4>1. l # None
        BY <3>3 DEF None
      <4> QED
        BY <2>1, <2>8, <3>3, <4>1
    <3> QED
      BY <2>3, <2>7, <3>1, <3>2, <3>3
  <2> QED
    BY <1>3, <2>9
<1> QED
  BY <1>4, <1>5

LEMMA TrailAt ==
    ASSUME NEW world, world.labels \in Nat, NEW d \in 0..world.labels
    PROVE  /\ Trail(world)[d] = HopAt(world, d, Trail(world)[d].level)
           /\ d < world.labels => Trail(world)[d + 1].level = Trail(world)[d].next
<1> DEFINE T == Trail(world)
           L == world.labels
<1>1. \A e \in 0..L : T[e] = HopAt(world, e, IF e = 0 THEN 0 ELSE T[e - 1].next)
  BY TrailSteps DEF TrailTo
<1> HIDE DEF T
<1>2. T[d] = HopAt(world, d, T[d].level)
  <2> DEFINE l == IF d = 0 THEN 0 ELSE T[d - 1].next
  <2>1. T[d] = HopAt(world, d, l)
    BY <1>1
  <2> HIDE DEF l
  <2>2. T[d].level = l
    BY <2>1, HopFields
  <2> QED
    BY <2>1, <2>2
<1>3. ASSUME d < L
      PROVE  T[d + 1].level = T[d].next
  <2>1. d + 1 \in 0..L /\ d + 1 # 0 /\ (d + 1) - 1 = d
    BY <1>3
  <2>2. T[d + 1] = HopAt(world, d + 1, T[d].next)
    BY <1>1, <2>1
  <2> QED
    BY <2>2, HopFields
<1> QED
  BY <1>2, <1>3 DEF T

\* A trace that has come to the zone of the name finds it has too few labels left.
LEMMA CutIsBroken ==
    ASSUME NEW world, world.labels \in Nat, world.cut \in Nat, world.cut >= 2,
           NEW d \in 0..(world.labels - 1), Trail(world)[d].level = world.cut
    PROVE  \E e \in 0..(world.labels - 1) :
              Trail(world)[e].level # None /\ Trail(world)[e].next = None
<1> DEFINE T == Trail(world)
           L == world.labels
           c == world.cut
           next == T[d].next
<1>1. d \in 0..L /\ d < L /\ d \in Nat /\ c \in Nat \cup {None} /\ c # None
  BY DEF None
<1>2. T[d] = HopAt(world, d, c) /\ T[d + 1].level = next
  BY <1>1, TrailAt
<1>3. \/ next = None
      \/ next = c + 1 /\ c < c
      \/ next = c /\ c = L - d
  BY <1>1, <1>2, NextLevel
<1>4. CASE next = None
  BY <1>1, <1>4
<1>5. CASE next = c /\ c = L - d
  <2> DEFINE e == d + 1
             after == T[e].next
  <2>1. e \in 0..L /\ e \in Nat /\ e \in 0..(L - 1) /\ c # L - e
    BY <1>1, <1>5
  <2>2. T[e].level = c
    BY <1>2, <1>5
  <2>3. T[e] = HopAt(world, e, c)
    BY <2>1, <2>2, TrailAt
  <2>4. \/ after = None
        \/ after = c + 1 /\ c < c
        \/ after = c /\ c = L - e
    BY <1>1, <2>1, <2>3, NextLevel
  <2>5. after = None
    BY <2>1, <2>4
  <2> QED
    BY <1>1, <2>1, <2>2, <2>5
<1> QED
  BY <1>3, <1>4, <1>5

LEMMA TraceEnds ==
    ASSUME NEW world, world.labels \in Nat \ {0}, world.cut \in 0..world.labels,
           NEW maxHops \in Int
    PROVE  LET r == TraceResolutionPath(world, maxHops)
               levels == {r.hops[d].level : d \in DOMAIN r.hops}
               most == IF maxHops <= 0 THEN DefaultHops ELSE maxHops
           IN  /\ \A l \in levels : 2 * l <= world.labels + 1
               /\ most >= world.labels /\ world.cut >= 2
                    => r.brokenAt # None \/ \A l \in levels : l < world.cut
<1> DEFINE T == Trail(world)
           L == world.labels
           r == TraceResolutionPath(world, maxHops)
           levels == {r.hops[d].level : d \in DOMAIN r.hops}
           most == IF maxHops <= 0 THEN DefaultHops ELSE maxHops
           N == Limit(world, most)
           taken == {d \in 0..(N - 1) : T[d].level # None}
           broken == {d \in taken : T[d].next = None}
<1>1. L \in Nat /\ world.cut \in Nat /\ most \in Nat \ {0}
  BY HopsAssumption
<1>2. N \in Nat /\ N =< L /\ (most >= L => N = L)
  BY <1>1 DEF Limit
<1>3. /\ r.hops = [d \in taken |-> T[d]]
      /\ broken # {} => r.brokenAt = T[CHOOSE d \in broken : TRUE].labels
  BY DEF TraceResolutionPath, Hops
<1>4. levels = {T[d].level : d \in taken}
  BY <1>3
<1>5. \A d \in 0..(N - 1) : d \in 0..(L - 1) /\ d \in 0..L
  BY <1>1, <1>2
<1> HIDE DEF T, r, levels, N
<1>6. \A d \in taken : /\ T[d].level \in Nat /\ T[d].level =< d /\ T[d].level =< world.cut
                       /\ T[d].level =< L - d + 1
  BY <1>1, <1>5, LevelBounds DEF T
<1>7. \A l \in levels : 2 * l <= L + 1
  <2> SUFFICES ASSUME NEW d \in taken
               PROVE  2 * T[d].level <= L + 1
    BY <1>4
  <2> DEFINE l == T[d].level
  <2>1. l \in Nat /\ l =< d /\ l =< L - d + 1 /\ d \in Nat
    BY <1>6
  <2> HIDE DEF l
  <2> QED
    BY <1>1, <2>1 DEF l
<1>8. ASSUME most >= L, world.cut >= 2, NEW d \in taken, ~ (T[d].level < world.cut)
      PROVE  r.brokenAt # None
  <2>1. d \in 0..(L - 1) /\ T[d].level = world.cut
    BY <1>1, <1>5, <1>6, <1>8
  <2>2. \E e \in 0..(L - 1) : T[e].level # None /\ T[e].next = None
    BY <1>1, <1>8, <2>1, CutIsBroken DEF T
  <2>3. broken # {}
    BY <1>2, <1>8, <2>2
  <2> DEFINE e == CHOOSE x \in broken : TRUE
  <2>4. e \in broken /\ r.brokenAt = T[e].labels
    BY <1>3, <2>3
  <2> HIDE DEF e
  <2>5. e \in 0..(L - 1) /\ e \in 0..L
    BY <1>5, <2>4
  <2>6. T[e] = HopAt(world, e, T[e].level)
    BY <1>1, <2>5, TrailAt DEF T
  <2>7. T[e].labels = L - e
    BY <2>6, HopFields DEF queryLabels
  <2> QED
    BY <1>1, <2>4, <2>5, <2>7 DEF None
<1>9. most >= L /\ world.cut >= 2 => r.brokenAt # None \/ \A l \in levels : l < world.cut
  BY <1>4, <1>8
<1> QED
  BY <1>7, <1>9 DEF r, levels

-----------------------------------------------------------------------------
(* The queries of a plan.                                                  *)

\* f joins the first n of some sequences.
JoinTo(seqs, n, f) ==
    f = [i \in 1..n |-> IF i = 1 THEN seqs[i] ELSE f[i - 1] \o seqs[i]]

LEMMA JoinsExist ==
    ASSUME NEW seqs, NEW n \in Nat
    PROVE  \E f : JoinTo(seqs, n, f)
<1> DEFINE Missing == {m \in Nat : ~ \E f : JoinTo(seqs, m, f)}
<1> SUFFICES ASSUME Missing # {}
             PROVE  FALSE
  OBVIOUS
<1>1. PICK m \in Missing : \A k \in Missing : m =< k
  BY LeastNumber
<1>2. CASE m = 0
  <2> DEFINE f == [i \in 1..0 |-> seqs[i]]
  <2>1. f = [i \in 1..0 |-> IF i = 1 THEN seqs[i] ELSE f[i - 1] \o seqs[i]]
    OBVIOUS
  <2> HIDE DEF f
  <2>2. JoinTo(seqs, 0, f)
    BY <2>1 DEF JoinTo
  <2> QED
    BY <1>1, <1>2, <2>2
<1>3. CASE m # 0
  <2>1. m - 1 \in Nat /\ m - 1 \notin Missing
    BY <1>1, <1>3
  <2>2. PICK f : JoinTo(seqs, m - 1, f)
    BY <2>1
  <2> DEFINE g == [i \in 1..m |-> IF i < m THEN f[i]
                                  ELSE IF i = 1 THEN seqs[i] ELSE f[i - 1] \o seqs[i]]
  <2>3. \A i \in 1..m : g[i] = IF i = 1 THEN seqs[i] ELSE g[i - 1] \o seqs[i]
    <3> SUFFICES ASSUME NEW i \in 1..m
                 PROVE  g[i] = IF i = 1 THEN seqs[i] ELSE g[i - 1] \o seqs[i]
      OBVIOUS
    <3>1. CASE i < m
      <4>1. i \in 1..(m - 1) /\ g[i] = f[i]
        BY <2>1, <3>1
      <4>2. f[i] = IF i = 1 THEN seqs[i] ELSE f[i - 1] \o seqs[i]
        BY <2>2, <4>1 DEF JoinTo
      <4>3. i # 1 => g[i - 1] = f[i - 1]
        BY <2>1, <3>1
      <4> HIDE DEF g
      <4> QED
        BY <4>1, <4>2, <4>3
    <3>2. CASE i = m
      <4>1. g[i] = IF i = 1 THEN seqs[i] ELSE f[i - 1] \o seqs[i]
        BY <3>2
      <4>2. i # 1 => g[i - 1] = f[i - 1]
        BY <1>1, <1>3, <3>2
      <4> HIDE DEF g
      <4> QED
        BY <4>1, <4>2
    <3> QED
      BY <1>1, <3>1, <3>2
  <2>4. g = [i \in 1..m |-> g[i]]
    OBVIOUS
  <2> HIDE DEF g
  <2>5. g = [i \in 1..m |-> IF i = 1 THEN seqs[i] ELSE g[i - 1] \o seqs[i]]
    BY <2>3, <2>4
  <2> QED
    BY <1>1, <2>5 DEF JoinTo
<1> QED
  BY <1>2, <1>3

\* There is one way to join them.
LEMMA JoinsAgree ==
    ASSUME NEW seqs, NEW m \in Nat, NEW n \in Nat, m =< n, NEW f, NEW g,
           JoinTo(seqs, m, f), JoinTo(seqs, n, g)
    PROVE  \A i \in 1..m : f[i] = g[i]
<1> DEFINE Bad == {i \in 1..m : f[i] # g[i]}
<1> SUFFICES ASSUME Bad # {}
             PROVE  FALSE
  OBVIOUS
<1>1. PICK i \in Bad : \A k \in Bad : i =< k
  <2>1. Bad \in SUBSET Nat
    OBVIOUS
  <2> HIDE DEF Bad
  <2> QED
    BY <2>1, LeastNumber
<1>2. i \in 1..m /\ i \in 1..n
  BY <1>1
<1>3. /\ f[i] = IF i = 1 THEN seqs[i] ELSE f[i - 1] \o seqs[i]
      /\ g[i] = IF i = 1 THEN seqs[i] ELSE g[i - 1] \o seqs[i]
  BY <1>2 DEF JoinTo
<1>4. i # 1 => f[i - 1] = g[i - 1]
  <2>1. i # 1 => i - 1 \in 1..m /\ ~ (i =< i - 1)
    BY <1>2
  <2> QED
    BY <1>1, <2>1
<1> QED
  BY <1>1, <1>3, <1>4

\* What is joined first stays at the front.
Growing(E, n, seqs, f) ==
    \A i \in 1..n : /\ f[i] \in Seq(E) /\ Len(f[i]) >= Len(seqs[1])
                    /\ \A k \in 1..i : /\ Len(f[k]) =< Len(f[i])
                                       /\ \A x \in 1..Len(f[k]) : f[i][x] = f[k][x]

LEMMA JoinGrows ==
    ASSUME NEW E, NEW n \in Nat, NEW seqs \in [1..n -> Seq(E)], NEW f, JoinTo(seqs, n, f)
    PROVE  Growing(E, n, seqs, f)
<1> DEFINE Good(i) == /\ f[i] \in Seq(E) /\ Len(f[i]) >= Len(seqs[1])
                      /\ \A k \in 1..i : /\ Len(f[k]) =< Len(f[i])
                                         /\ \A x \in 1..Len(f[k]) : f[i][x] = f[k][x]
           Bad == {i \in 1..n : ~ Good(i)}
<1> SUFFICES ASSUME Bad # {}
             PROVE  FALSE
  BY DEF Growing
<1>1. PICK i \in Bad : \A k \in Bad : i =< k
  <2>1. Bad \in SUBSET Nat
    OBVIOUS
  <2> HIDE DEF Bad
  <2> QED
    BY <2>1, LeastNumber
<1>2. i \in 1..n /\ ~ Good(i)
  BY <1>1
<1>3. f[i] = IF i = 1 THEN seqs[i] ELSE f[i - 1] \o seqs[i]
  BY <1>2 DEF JoinTo
<1>4. CASE i = 1
  <2>1. f[1] = seqs[1] /\ seqs[1] \in Seq(E) /\ Len(seqs[1]) \in Nat
    BY <1>2, <1>3, <1>4
  <2>2. \A k \in 1..i : k = 1
    BY <1>4
  <2>3. Good(1)
    BY <1>4, <2>1, <2>2
  <2> QED
    BY <1>2, <1>4, <2>3
<1>5. CASE i # 1
  <2> DEFINE p == f[i - 1]
             q == seqs[i]
             r == f[i]
  <2>1. i - 1 \in 1..n /\ i - 1 \in 1..(i - 1)
    BY <1>2, <1>5
  <2>2. Good(i - 1)
    <3>1. i - 1 \notin Bad
      BY <1>1, <1>2, <2>1
    <3> HIDE DEF Good
    <3> QED
      BY <2>1, <3>1
  <2>3. p \in Seq(E) /\ q \in Seq(E) /\ r = p \o q /\ Len(p) >= Len(seqs[1])
    BY <1>2, <1>3, <1>5, <2>2
  <2>4. seqs[1] \in Seq(E)
    BY <1>2
  <2> HIDE DEF p, q, r
  <2>5. /\ r \in Seq(E) /\ Len(p) =< Len(r)
        /\ \A x \in 1..Len(p) : r[x] = p[x]
    BY <2>3
  <2>6. Len(seqs[1]) \in Nat /\ Len(p) \in Nat /\ Len(r) \in Nat
    BY <2>3, <2>4, <2>5
  <2>7. ASSUME NEW k \in 1..i
        PROVE  Len(f[k]) =< Len(r) /\ \A x \in 1..Len(f[k]) : r[x] = f[k][x]
    <3>1. CASE k = i
      BY <2>6, <3>1 DEF r
    <3>2. CASE k # i
      <4>1. k \in 1..(i - 1) /\ k \in 1..n /\ k \notin Bad
        BY <1>1, <1>2, <3>2
      <4>2. Len(f[k]) =< Len(p) /\ \A x \in 1..Len(f[k]) : p[x] = f[k][x]
        BY <2>2, <4>1 DEF p
      <4>3. Len(f[k]) \in Nat
        <5>1. Good(k)
          BY <4>1
        <5> QED
          BY <5>1
      <4>4. \A x \in 1..Len(f[k]) : x \in 1..Len(p)
        BY <2>6, <4>2, <4>3
      <4> QED
        BY <2>5, <2>6, <4>2, <4>3, <4>4
    <3> QED
      BY <3>1, <3>2
  <2>8. r \in Seq(E) /\ Len(r) >= Len(seqs[1])
    BY <2>3, <2>5, <2>6
  <2>9. Good(i)
    BY <2>7, <2>8, Zenon DEF r
  <2> QED
    BY <1>2, <2>9
<1> QED
  BY <1>4, <1>5

LEMMA FlattenJoins ==
    ASSUME NEW E, NEW n \in Nat \ {0}, NEW seqs \in [1..n -> Seq(E)], NEW f, JoinTo(seqs, n, f)
    PROVE  FlattenSeq(seqs) = f[n]
<1>1. Len(seqs) = n
  BY IsASeq
<1> DEFINE g == CHOOSE h : JoinTo(seqs, n, h)
<1>2. JoinTo(seqs, n, g)
  OBVIOUS
<1>3. FlattenSeq(seqs) = g[n]
  BY <1>1 DEF FlattenSeq, JoinTo
<1> HIDE DEF g
<1>4. n \in 1..n
  OBVIOUS
<1>5. \A i \in 1..n : f[i] = g[i]
  BY <1>2, JoinsAgree
<1> QED
  BY <1>3, <1>4, <1>5

QueryPlanOk(plan) ==
    /\ plan \in Seq({plan[i] : i \in DOMAIN plan})
    /\ \A i \in DOMAIN plan : plan[i].repeat \in Nat \ {0}

\* The runs of each step, and what a run may be.
StepRuns(plan, oracle) ==
    [i \in DOMAIN plan |-> [k \in 1..plan[i].repeat |-> plan[i] @@ oracle[i][k]]]
AllRuns(plan, oracle) ==
    UNION {{plan[i] @@ oracle[i][k] : k \in 1..plan[i].repeat} : i \in DOMAIN plan}

LEMMA StepRunsTyped ==
    ASSUME NEW plan, QueryPlanOk(plan), NEW oracle
    PROVE  /\ Len(plan) \in Nat /\ DOMAIN plan = 1..Len(plan)
           /\ StepRuns(plan, oracle) \in [1..Len(plan) -> Seq(AllRuns(plan, oracle))]
           /\ \A i \in 1..Len(plan) : Len(StepRuns(plan, oracle)[i]) >= 1
<1> DEFINE E == AllRuns(plan, oracle)
           q == StepRuns(plan, oracle)
           run(i) == [k \in 1..plan[i].repeat |-> plan[i] @@ oracle[i][k]]
<1>1. Len(plan) \in Nat /\ DOMAIN plan = 1..Len(plan)
  BY DEF QueryPlanOk
<1>2. ASSUME NEW i \in 1..Len(plan)
      PROVE  run(i) \in Seq(E) /\ Len(run(i)) >= 1
  <2>1. plan[i].repeat \in Nat \ {0}
    BY <1>1 DEF QueryPlanOk
  <2>2. \A k \in 1..plan[i].repeat : plan[i] @@ oracle[i][k] \in E
    BY <1>1 DEF AllRuns
  <2> DEFINE m == plan[i].repeat
             r == run(i)
  <2>3. r \in [1..m -> E]
    BY <2>2
  <2> HIDE DEF m, r, E
  <2>4. r \in Seq(E) /\ Len(r) = m
    BY <2>1, <2>3, IsASeq DEF m
  <2> QED
    BY <2>1, <2>4 DEF m, r
<1>3. q = [i \in 1..Len(plan) |-> run(i)]
  BY <1>1 DEF StepRuns
<1> HIDE DEF run, q, E
<1>4. q \in [1..Len(plan) -> Seq(E)] /\ \A i \in 1..Len(plan) : Len(q[i]) >= 1
  BY <1>2, <1>3
<1> QED
  BY <1>1, <1>4 DEF q, E

\* The runs of the first steps of a plan are the first runs of the plan.
LEMMA RunsBegin ==
    ASSUME NEW plan, QueryPlanOk(plan), NEW oracle, NEW n \in 1..Len(plan),
           NEW A, A = Runs(SubSeq(plan, 1, n), oracle), NEW B, B = Runs(plan, oracle)
    PROVE  \E a, b \in Nat : /\ 1 =< a /\ a =< b /\ DOMAIN A = 1..a /\ DOMAIN B = 1..b
                             /\ \A x \in 1..a : A[x] = B[x]
<1> DEFINE N == Len(plan)
           E == AllRuns(plan, oracle)
           q == StepRuns(plan, oracle)
           part == SubSeq(plan, 1, n)
           p == StepRuns(part, oracle)
<1>1. /\ N \in Nat /\ DOMAIN plan = 1..N /\ q \in [1..N -> Seq(E)]
      /\ \A i \in 1..N : Len(q[i]) >= 1
  BY StepRunsTyped
<1>2. n \in Nat \ {0} /\ N \in Nat \ {0} /\ n =< N /\ 1..n \subseteq 1..N /\ 1 \in 1..n /\ n \in 1..n
      /\ N \in 1..N /\ n \in 1..N
  BY <1>1
<1>3. part = [i \in 1..n |-> plan[i]]
  BY <1>1, <1>2 DEF QueryPlanOk
<1>4. p = [i \in 1..n |-> q[i]]
  <2>1. DOMAIN part = 1..n /\ \A i \in 1..n : part[i] = plan[i]
    BY <1>3
  <2> HIDE DEF part
  <2> QED
    BY <1>1, <1>2, <2>1 DEF StepRuns
<1>5. A = FlattenSeq(p) /\ B = FlattenSeq(q)
  BY DEF Runs, StepRuns
<1> HIDE DEF N, E, q, part, p
<1>6. p \in [1..n -> Seq(E)] /\ \A i \in 1..n : p[i] = q[i]
  BY <1>1, <1>2, <1>4
<1>7. PICK f : JoinTo(q, N, f)
  BY <1>1, JoinsExist
<1>8. PICK g : JoinTo(p, n, g)
  BY <1>2, JoinsExist
<1>9. A = g[n] /\ B = f[N]
  <2>1. A = g[n]
    BY <1>2, <1>5, <1>6, <1>8, FlattenJoins
  <2>2. B = f[N]
    BY <1>1, <1>2, <1>5, <1>7, FlattenJoins
  <2> QED
    BY <2>1, <2>2
<1>10. JoinTo(q, n, g)
  BY <1>6, <1>8 DEF JoinTo
<1>11. g[n] = f[n]
  BY <1>1, <1>2, <1>7, <1>10, JoinsAgree
<1>12. /\ f[n] \in Seq(E) /\ f[N] \in Seq(E) /\ Len(f[n]) >= Len(q[1])
       /\ Len(f[n]) =< Len(f[N]) /\ \A x \in 1..Len(f[n]) : f[N][x] = f[n][x]
  <2>1. Growing(E, N, q, f)
    BY <1>1, <1>7, JoinGrows
  <2> QED
    BY <1>2, <2>1 DEF Growing
<1>13. q[1] \in Seq(E) /\ Len(q[1]) >= 1
  BY <1>1, <1>2
<1> DEFINE a == Len(A)
           b == Len(B)
<1>14. /\ a \in Nat /\ b \in Nat /\ 1 =< a /\ a =< b /\ DOMAIN A = 1..a /\ DOMAIN B = 1..b
       /\ \A x \in 1..a : A[x] = B[x]
  BY <1>9, <1>11, <1>12, <1>13
<1> QED
  BY <1>14

LEMMA GreatestNumber ==
    ASSUME NEW b \in Nat, NEW P \in SUBSET (1..b), P # {}
    PROVE  \E i \in P : \A j \in P : j =< i
<1> DEFINE Q == {k \in Nat : \E i \in P : k = b - i}
<1>1. \A i \in P : b - i \in Q
  OBVIOUS
<1>2. PICK k \in Q : \A l \in Q : k =< l
  <2>1. Q \in SUBSET Nat
    OBVIOUS
  <2>2. Q # {}
    <3>1. PICK i \in P : TRUE
      OBVIOUS
    <3> HIDE DEF Q
    <3> QED
      BY <1>1, <3>1
  <2> HIDE DEF Q
  <2> QED
    BY <2>1, <2>2, LeastNumber
<1>3. PICK i \in P : k = b - i
  BY <1>2
<1>4. \A j \in P : k =< b - j
  BY <1>1, <1>2
<1> QED
  BY <1>3, <1>4

\* What is seen after some steps is seen after all of them.
LEMMA EvidenceGrows ==
    ASSUME NEW plan, QueryPlanOk(plan), NEW oracle, NEW n \in 1..Len(plan),
           NEW before, before = ExecuteDNS(SubSeq(plan, 1, n), oracle),
           NEW after, after = ExecuteDNS(plan, oracle)
    PROVE  /\ before.success = after.success
           /\ before.wildcard => after.wildcard
           /\ before.hash => after.hash
<1> DEFINE A == Runs(SubSeq(plan, 1, n), oracle)
           B == Runs(plan, oracle)
<1>1. PICK a, b \in Nat : /\ 1 =< a /\ a =< b /\ DOMAIN A = 1..a /\ DOMAIN B = 1..b
                          /\ \A x \in 1..a : A[x] = B[x]
  BY RunsBegin
<1>2. /\ before.success = (A # <<>> /\ A[1].rcode /\ A[1].answers)
      /\ before.wildcard = WildcardHit(A)
      /\ before.hash = (\E i \in {i \in DOMAIN A : A[i].type = "AXFR"} : A[i].answers)
  BY DEF ExecuteDNS
<1>3. /\ after.success = (B # <<>> /\ B[1].rcode /\ B[1].answers)
      /\ after.wildcard = WildcardHit(B)
      /\ after.hash = (\E i \in {i \in DOMAIN B : B[i].type = "AXFR"} : B[i].answers)
  BY DEF ExecuteDNS
<1> HIDE DEF A, B
<1>4. A # <<>> /\ B # <<>> /\ A[1] = B[1] /\ 1..a \subseteq 1..b
  BY <1>1
<1>5. before.success = after.success
  BY <1>2, <1>3, <1>4
<1>6. before.wildcard => after.wildcard
  BY <1>1, <1>2, <1>3, <1>4 DEF WildcardHit
<1>7. before.hash => after.hash
  BY <1>1, <1>2, <1>3, <1>4
<1> QED
  BY <1>5, <1>6, <1>7

LEMMA TransferHasZone ==
    ASSUME NEW plan, QueryPlanOk(plan), NEW oracle,
           NEW after, after = ExecuteDNS(plan, oracle), after.axfr
    PROVE  after.hash
<1> DEFINE B == Runs(plan, oracle)
           transfers == {i \in DOMAIN B : B[i].type = "AXFR"}
           last == CHOOSE i \in transfers : \A j \in transfers : j <= i
<1>1. transfers # {} /\ B[last].answers
  BY DEF ExecuteDNS
<1>2. after.hash = \E i \in transfers : B[i].answers
  BY DEF ExecuteDNS
<1>3. \E b \in Nat : DOMAIN B = 1..b
  <2>1. Len(plan) \in Nat
    BY StepRunsTyped
  <2>2. CASE Len(plan) = 0
    <3>1. plan = <<>>
      BY <2>2 DEF QueryPlanOk
    <3>2. B = <<>>
      BY <3>1 DEF Runs, FlattenSeq
    <3> HIDE DEF B
    <3>3. DOMAIN B = 1..0
      BY <3>2
    <3> QED
      BY <3>3
  <2>3. CASE Len(plan) # 0
    <3>1. 1 \in 1..Len(plan)
      BY <2>1, <2>3
    <3> QED
      BY <3>1, RunsBegin
  <2> QED
    BY <2>2, <2>3
<1> HIDE DEF B
<1>4. \E i \in transfers : \A j \in transfers : j <= i
  <2>1. PICK b \in Nat : DOMAIN B = 1..b
    BY <1>3
  <2>2. transfers \in SUBSET (1..b)
    BY <2>1
  <2> HIDE DEF transfers
  <2> QED
    BY <1>1, <2>2, GreatestNumber
<1>5. last \in transfers
  BY <1>4
<1> QED
  BY <1>1, <1>2, <1>5

-----------------------------------------------------------------------------
(* The first failure of a scan.                                            *)

\* f is what a snapshot shows after each of n results.
Shows(results, n, f) ==
    f = [k \in 0..n |-> IF k = 0 THEN [rcode |-> "", kind |-> ""]
                        ELSE Absorb(f[k - 1], results[k])]

LEMMA ShowsExist ==
    ASSUME NEW results, NEW n \in Nat
    PROVE  \E f : Shows(results, n, f)
<1> DEFINE Missing == {m \in Nat : ~ \E f : Shows(results, m, f)}
<1> SUFFICES ASSUME Missing # {}
             PROVE  FALSE
  OBVIOUS
<1>1. PICK m \in Missing : \A k \in Missing : m =< k
  BY LeastNumber
<1> DEFINE empty == [rcode |-> "", kind |-> ""]
<1>2. CASE m = 0
  <2> DEFINE f == [k \in 0..0 |-> empty]
  <2>1. f = [k \in 0..0 |-> IF k = 0 THEN empty ELSE Absorb(f[k - 1], results[k])]
    OBVIOUS
  <2> HIDE DEF f
  <2>2. Shows(results, 0, f)
    BY <2>1 DEF Shows
  <2> QED
    BY <1>1, <1>2, <2>2
<1>3. CASE m # 0
  <2>1. m - 1 \in Nat /\ m - 1 \notin Missing
    BY <1>1, <1>3
  <2>2. PICK f : Shows(results, m - 1, f)
    BY <2>1
  <2> DEFINE g == [k \in 0..m |-> IF k < m THEN f[k] ELSE Absorb(f[k - 1], results[k])]
  <2>3. \A k \in 0..m : g[k] = IF k = 0 THEN empty ELSE Absorb(g[k - 1], results[k])
    <3> SUFFICES ASSUME NEW k \in 0..m
                 PROVE  g[k] = IF k = 0 THEN empty ELSE Absorb(g[k - 1], results[k])
      OBVIOUS
    <3>1. CASE k < m
      <4>1. k \in 0..(m - 1) /\ g[k] = f[k]
        BY <2>1, <3>1
      <4>2. f[k] = IF k = 0 THEN empty ELSE Absorb(f[k - 1], results[k])
        BY <2>2, <4>1 DEF Shows
      <4>3. k # 0 => g[k - 1] = f[k - 1]
        BY <2>1, <3>1
      <4> HIDE DEF g
      <4> QED
        BY <4>1, <4>2, <4>3
    <3>2. CASE k = m
      <4>1. g[k] = Absorb(f[k - 1], results[k])
        BY <3>2
      <4>2. g[k - 1] = f[k - 1]
        BY <1>1, <1>3, <3>2
      <4> HIDE DEF g
      <4> QED
        BY <1>3, <3>2, <4>1, <4>2
    <3>3. k < m \/ k = m
      BY <1>1
    <3> QED
      BY <3>1, <3>2, <3>3
  <2>4. g = [k \in 0..m |-> g[k]]
    OBVIOUS
  <2> HIDE DEF g
  <2>5. g = [k \in 0..m |-> IF k = 0 THEN empty ELSE Absorb(g[k - 1], results[k])]
    BY <2>3, <2>4
  <2> QED
    BY <1>1, <2>5 DEF Shows
<1> QED
  BY <1>2, <1>3

\* A result that is not NOERROR has a kind, and every result has an rcode.
Failing(res) == res.rcode # "NOERROR"
Result(res) == res.rcode # "" /\ (Failing(res) => res.kind # "")

\* As long as nothing has failed a snapshot shows no kind; the first failure
\* is shown, with its kind only if it was the very first result.
ShownAt(results, n, s) ==
    /\ (\A i \in 1..n : ~ Failing(results[i])) => s.rcode = "NOERROR" /\ s.kind = ""
    /\ \A f \in 1..n :
           Failing(results[f]) /\ (\A i \in 1..(f - 1) : ~ Failing(results[i])) =>
               /\ s.rcode = results[f].rcode
               /\ s.kind = IF f = 1 THEN results[1].kind ELSE ""

LEMMA FirstResult ==
    ASSUME NEW results, Result(results[1])
    PROVE  ShownAt(results, 1, Absorb([rcode |-> "", kind |-> ""], results[1]))
<1> DEFINE r == results[1]
           t == Absorb([rcode |-> "", kind |-> ""], r)
<1>1. CASE Failing(r)
  <2>1. t.rcode = r.rcode /\ t.kind = r.kind
    BY <1>1 DEF Absorb, Failing, Result
  <2>2. ~ \A i \in 1..1 : ~ Failing(results[i])
    BY <1>1
  <2> HIDE DEF t
  <2>3. \A f \in 1..1 : t.rcode = results[f].rcode /\ t.kind = IF f = 1 THEN results[1].kind ELSE ""
    BY <2>1
  <2> QED
    BY <2>2, <2>3 DEF ShownAt, t
<1>2. CASE ~ Failing(r)
  <2>1. t.rcode = "NOERROR" /\ t.kind = ""
    BY <1>2 DEF Absorb, Failing
  <2>2. \A f \in 1..1 : ~ Failing(results[f])
    BY <1>2
  <2> HIDE DEF t
  <2> QED
    BY <2>1, <2>2 DEF ShownAt, t
<1> QED
  BY <1>1, <1>2

LEMMA NextResult ==
    ASSUME NEW results, NEW n \in Nat, n >= 1, NEW s, ShownAt(results, n, s),
           \A i \in 1..(n + 1) : Result(results[i])
    PROVE  ShownAt(results, n + 1, Absorb(s, results[n + 1]))
<1> DEFINE r == results[n + 1]
           t == Absorb(s, r)
           before == \A i \in 1..n : ~ Failing(results[i])
<1>1. Result(r)
  OBVIOUS
<1>2. CASE before
  <2>1. s.rcode = "NOERROR" /\ s.kind = ""
    BY <1>2 DEF ShownAt
  <2>2. t.rcode = r.rcode /\ t.kind = ""
    BY <2>1 DEF Absorb
  <2>3. \A f \in 1..(n + 1) : Failing(results[f]) => f = n + 1 /\ f # 1
    BY <1>2
  <2> HIDE DEF t
  <2>4. (\A i \in 1..(n + 1) : ~ Failing(results[i])) => t.rcode = "NOERROR" /\ t.kind = ""
    <3>1. n + 1 \in 1..(n + 1)
      OBVIOUS
    <3> QED
      BY <2>2, <3>1 DEF Failing
  <2>5. \A f \in 1..(n + 1) : Failing(results[f]) =>
           t.rcode = results[f].rcode /\ t.kind = IF f = 1 THEN results[1].kind ELSE ""
    BY <2>2, <2>3
  <2> QED
    BY <2>4, <2>5 DEF ShownAt, t
<1>3. CASE ~ before
  <2>1. PICK f \in 1..n : Failing(results[f]) /\ \A i \in 1..(f - 1) : ~ Failing(results[i])
    <3> DEFINE F == {i \in 1..n : Failing(results[i])}
    <3>1. F \in SUBSET Nat /\ F # {}
      BY <1>3
    <3>2. PICK f \in F : \A i \in F : f =< i
      <4> HIDE DEF F
      <4> QED
        BY <3>1, LeastNumber
    <3>3. \A i \in 1..(f - 1) : ~ Failing(results[i])
      BY <3>2
    <3> QED
      BY <3>2, <3>3
  <2>2. /\ s.rcode = results[f].rcode
        /\ s.kind = IF f = 1 THEN results[1].kind ELSE ""
    BY <2>1 DEF ShownAt
  <2>3. s.rcode \notin {"", "NOERROR"}
    <3>1. f \in 1..(n + 1)
      BY <2>1
    <3>2. Result(results[f])
      BY <3>1
    <3> QED
      BY <2>1, <2>2, <3>2 DEF Failing, Result
  <2>4. t = s
    BY <2>3 DEF Absorb
  <2> HIDE DEF t
  <2>5. \A g \in 1..(n + 1) :
           Failing(results[g]) /\ (\A i \in 1..(g - 1) : ~ Failing(results[i])) => g = f
    BY <2>1
  <2>6. ~ \A i \in 1..(n + 1) : ~ Failing(results[i])
    BY <2>1
  <2>7. \A g \in 1..(n + 1) :
           Failing(results[g]) /\ (\A i \in 1..(g - 1) : ~ Failing(results[i])) =>
               t.rcode = results[g].rcode /\ t.kind = IF g = 1 THEN results[1].kind ELSE ""
    BY <2>2, <2>4, <2>5
  <2> QED
    BY <2>6, <2>7 DEF ShownAt, t
<1> QED
  BY <1>2, <1>3

LEMMA SnapshotShows ==
    ASSUME NEW results, Len(results) \in Nat, Len(results) >= 1,
           \A i \in 1..Len(results) : Result(results[i])
    PROVE  ShownAt(results, Len(results), Snapshot(results))
<1> DEFINE N == Len(results)
           f == CHOOSE g : Shows(results, N, g)
           Bad == {n \in 1..N : ~ ShownAt(results, n, f[n])}
<1>1. Shows(results, N, f)
  BY ShowsExist
<1>2. Snapshot(results) = f[N]
  BY DEF Snapshot, Shows
<1> HIDE DEF f
<1> SUFFICES ASSUME Bad # {}
             PROVE  FALSE
  BY <1>2
<1>3. PICK n \in Bad : \A m \in Bad : n =< m
  <2>1. Bad \in SUBSET Nat
    OBVIOUS
  <2> HIDE DEF Bad
  <2> QED
    BY <2>1, LeastNumber
<1>4. n \in 1..N /\ ~ ShownAt(results, n, f[n])
  BY <1>3
<1>5. f[n] = Absorb(f[n - 1], results[n]) /\ f[0] = [rcode |-> "", kind |-> ""]
  <2> DEFINE step(k) == IF k = 0 THEN [rcode |-> "", kind |-> ""]
                        ELSE Absorb(f[k - 1], results[k])
  <2>1. \A k \in 0..N : f[k] = step(k)
    BY <1>1 DEF Shows
  <2>2. n \in 0..N /\ n # 0 /\ 0 \in 0..N
    BY <1>4
  <2>3. f[n] = step(n) /\ f[0] = step(0)
    <3> HIDE DEF step
    <3> QED
      BY <2>1, <2>2
  <2> QED
    BY <2>2, <2>3
<1>6. CASE n = 1
  <2>1. Result(results[1])
    OBVIOUS
  <2>2. f[1] = Absorb([rcode |-> "", kind |-> ""], results[1])
    <3>1. n - 1 = 0
      BY <1>6
    <3>2. f[n - 1] = f[0]
      BY <3>1
    <3> QED
      BY <1>5, <1>6, <3>2
  <2>3. ShownAt(results, 1, Absorb([rcode |-> "", kind |-> ""], results[1]))
    BY <2>1, FirstResult
  <2> QED
    BY <1>4, <1>6, <2>2, <2>3
<1>7. CASE n # 1
  <2> DEFINE m == n - 1
  <2>1. m \in Nat /\ m >= 1 /\ m \in 1..N /\ m \notin Bad /\ n = m + 1
    BY <1>3, <1>4, <1>7
  <2>2. ShownAt(results, m, f[m])
    BY <2>1
  <2>3. \A i \in 1..(m + 1) : Result(results[i])
    BY <1>4, <2>1
  <2> HIDE DEF m
  <2>4. ShownAt(results, m + 1, Absorb(f[m], results[m + 1]))
    BY <2>1, <2>2, <2>3, NextResult
  <2> QED
    BY <1>4, <1>5, <2>1, <2>4 DEF m
<1> QED
  BY <1>6, <1>7
-----------------------------------------------------------------------------
(* The rules of the engine.                                                *)

\* What is said of a host when each of its risks is suspicious.
Decided(host, baseline, obs, risks) ==
    /\ risks \subseteq Risks
    /\ "unreach" \in risks <=> primaryExpected(baseline) # {} /\ obs.kind = "timeout"
    /\ "no_service" \in risks <=>
           primaryExpected(baseline) # {} /\ obs.kind \in {"servfail", "connection_refused"}
    /\ "refused" \in risks <=> obs.rcode = "REFUSED"
    /\ "empty_answer" \in risks <=> /\ primaryExpected(baseline) # {} /\ obs.rcode = "NOERROR"
                                    /\ primaryObserved(host, obs) = {}
    /\ "record_deletion" \in risks <=> recordDeletionHit(baseline, obs)
    /\ "resolution_path_anomaly" \in risks <=> obs.traceBroken
    /\ "latency_distribution_anomaly" \in risks <=> latencyHit(obs.samples)
    /\ "route_path_anomaly" \notin risks
    /\ "ns_ip_hijack" \in risks <=> nsIPHit(baseline, obs)
    /\ "ns_name_hijack" \in risks <=> nsNameHit(baseline, obs)
    /\ "resolver_divergence" \in risks <=> divergenceHit(obs)
    /\ "wildcard_poisoning" \in risks <=> ~ host.allowWildcard /\ obs.wildcard
    /\ "dns_rebind" \in risks <=> rebindHit(host, baseline, obs)
    /\ "axfr_exposed" \in risks <=> ~ host.allowAXFR /\ obs.axfr

LEMMA RisksAre ==
    Risks = {"unreach", "no_service", "refused", "empty_answer", "record_deletion",
             "resolution_path_anomaly", "latency_distribution_anomaly", "route_path_anomaly",
             "ns_ip_hijack", "ns_name_hijack", "resolver_divergence", "wildcard_poisoning",
             "dns_rebind", "axfr_exposed"}
BY DEF Risks, RiskSeverity

LEMMA EngineDecides ==
    ASSUME NEW host, NEW baseline, NEW obs
    PROVE  Decided(host, baseline, obs, Evaluate(host, baseline, obs))
BY RisksAre DEF Evaluate, Decided

\* The highest severity and tier are those of some risk.
LEMMA SeverityOfSome ==
    ASSUME NEW risks \in SUBSET Risks
    PROVE  HighestSeverity(risks) \in {"", "medium", "high", "critical"}
<1> DEFINE rank(r) == SeverityRank(RiskSeverity[r])
           P == {4 - rank(r) : r \in risks}
<1>1. \A r \in Risks : rank(r) \in 0..4 /\ RiskSeverity[r] \in {"medium", "high", "critical"}
  <2>1. \A r \in Risks : RiskSeverity[r] \in {"medium", "high", "critical"}
    BY RisksAre DEF RiskSeverity
  <2>2. \A v \in {"medium", "high", "critical"} : SeverityRank(v) \in 0..4
    BY DEF SeverityRank
  <2> QED
    BY <2>1, <2>2
<1> HIDE DEF rank
<1>2. CASE risks = {}
  BY <1>2 DEF HighestSeverity
<1>3. CASE risks # {}
  <2>1. P \in SUBSET Nat /\ P # {}
    BY <1>1, <1>3
  <2>2. PICK n \in P : \A m \in P : n =< m
    <3> HIDE DEF P
    <3> QED
      BY <2>1, LeastNumber
  <2>3. PICK r \in risks : n = 4 - rank(r)
    BY <2>2
  <2>4. \A s \in risks : rank(r) >= rank(s)
    <3> SUFFICES ASSUME NEW s \in risks
                 PROVE  rank(r) >= rank(s)
      OBVIOUS
    <3>1. 4 - rank(r) =< 4 - rank(s)
      BY <2>2, <2>3
    <3> QED
      BY <1>1, <3>1
  <2> DEFINE top == CHOOSE q \in risks : \A s \in risks : rank(q) >= rank(s)
  <2>5. top \in risks
    BY <2>4
  <2>6. HighestSeverity(risks) = RiskSeverity[top]
    BY <1>3 DEF HighestSeverity, rank
  <2> QED
    BY <1>1, <2>5, <2>6
<1> QED
  BY <1>2, <1>3

Bounded(S) == \E b \in Nat : \A m \in S : m =< b

LEMMA FiniteIsBounded ==
    ASSUME NEW P \in SUBSET Nat, IsFiniteSet(P)
    PROVE  Bounded(P)
<1> DEFINE Sizes == {n \in Nat : \E S \in SUBSET Nat :
                           IsFiniteSet(S) /\ Cardinality(S) = n /\ ~ Bounded(S)}
<1> SUFFICES ASSUME ~ Bounded(P)
             PROVE  FALSE
  OBVIOUS
<1>1. Sizes \in SUBSET Nat /\ Sizes # {}
  BY FS_CardinalityType
<1>2. PICK n \in Sizes : \A m \in Sizes : n =< m
  <2> HIDE DEF Sizes
  <2> QED
    BY <1>1, LeastNumber
<1>3. PICK S \in SUBSET Nat : IsFiniteSet(S) /\ Cardinality(S) = n /\ ~ Bounded(S)
  BY <1>2
<1>4. PICK x : x \in S
  <2>1. S # {}
    BY <1>3 DEF Bounded
  <2> QED
    BY <2>1
<1> DEFINE T == S \ {x}
<1>5. IsFiniteSet(T) /\ Cardinality(T) = n - 1 /\ n - 1 \in Nat
  <2>1. IsFiniteSet(T) /\ Cardinality(T) = Cardinality(S) - 1
    BY <1>3, <1>4, FS_RemoveElement
  <2>2. Cardinality(T) \in Nat
    BY <2>1, FS_CardinalityType
  <2> HIDE DEF T
  <2> QED
    BY <1>3, <2>1, <2>2
<1>6. Bounded(T)
  BY <1>2, <1>5
<1>7. PICK b \in Nat : \A m \in T : m =< b
  BY <1>6 DEF Bounded
<1>8. x \in Nat
  BY <1>4
<1> DEFINE c == IF b < x THEN x ELSE b
<1>9. c \in Nat /\ \A m \in S : m =< c
  BY <1>7, <1>8
<1> QED
  BY <1>3, <1>9 DEF Bounded

\* The largest of a finite set of numbers.
LEMMA LargestNumber ==
    ASSUME NEW P \in SUBSET Nat, P # {}, IsFiniteSet(P)
    PROVE  Max(P) \in P /\ \A m \in P : m =< Max(P)
<1>1. PICK b \in Nat : \A m \in P : m =< b
  BY FiniteIsBounded DEF Bounded
<1> DEFINE Bounds == {n \in Nat : \A m \in P : m =< n}
<1>2. Bounds \in SUBSET Nat /\ Bounds # {}
  BY <1>1
<1>3. PICK n \in Bounds : \A m \in Bounds : n =< m
  <2> HIDE DEF Bounds
  <2> QED
    BY <1>2, LeastNumber
<1>4. n \in P
  <2> SUFFICES ASSUME n \notin P
               PROVE  FALSE
    OBVIOUS
  <2>1. \A m \in P : m < n
    BY <1>3
  <2>2. n > 0
    <3>1. PICK m : m \in P
      OBVIOUS
    <3> QED
      BY <2>1, <3>1
  <2>3. n - 1 \in Bounds
    BY <2>1, <2>2
  <2> QED
    BY <1>3, <2>3
<1>5. \A m \in P : n >= m
  BY <1>3
<1> QED
  BY <1>4, <1>5 DEF Max

LEMMA SmallestNumber ==
    ASSUME NEW P \in SUBSET Nat, P # {}
    PROVE  Min(P) \in P /\ \A m \in P : Min(P) =< m
BY LeastNumber DEF Min

\* A set of equal values has at most one.
LEMMA OneOfEquals ==
    ASSUME NEW S, IsFiniteSet(S), Cardinality(S) > 1
    PROVE  \E x, y \in S : x # y
<1> SUFFICES ASSUME \A x, y \in S : x = y
             PROVE  FALSE
  OBVIOUS
<1>1. CASE S = {}
  BY <1>1, FS_EmptySet
<1>2. CASE S # {}
  <2>1. PICK x : S = {x}
    BY <1>2
  <2>2. Cardinality(S) = 1
    BY <2>1, FS_Singleton
  <2> QED
    BY <2>2
<1> QED
  BY <1>1, <1>2
-----------------------------------------------------------------------------
(* What is computed is what the operators say.                             *)

\* The region and the node of each place of a task.
Places(g) ==
    LET codes == normalizeRegionCodes(g.regions, g.nodes, g.codes, g.limit)
    IN [i \in DOMAIN codes |->
            [code |-> codes[i], node |-> getSingleExecutionNode(g.nodes, codes[i], "auto")]]

\* The plans of a single and of a batch probe.
Plans(g) == [single |-> SinglePlan(g.target, g.raw), batch |-> BatchPlan(g.target, g.raw)]

\* The verdict on a host.
Judged(g) == scanHost(g.host, g.baseline, g.events, g.resolvers, g.random)

\* The items of a manifest, as they are written and normalised.
ManifestRead(g) ==
    LET items == parseYAMLSubsetManifest(g.lines)
    IN [items |-> items, normal |-> IF items = Refused THEN Refused ELSE normalizeManifest(items)]

\* A probe on the board, and the two pages of the board.
Reported(g) == LET row == StoredRow(g.probe) IN [row |-> row, severity |-> protocolAnomaly(row)]
Boards(g) ==
    [overview |-> BuildRiskBoardOverview(g.board), nodes |-> BuildNodeDistribution(g.board)]

IInv ==
    /\ given \in Inputs
    /\ given.kind = "node" /\ result # Unknown =>
          result = getSingleExecutionNode(given.nodes, given.region, given.mode)
    /\ given.kind = "regions" /\ result # Unknown => result = Places(given)
    /\ given.kind = "options" /\ result # Unknown => result = Cleaned(given)
    /\ given.kind = "dns" /\ result # Unknown => result = Plans(given)
    /\ given.kind = "trace" /\ result # Unknown =>
          result = TraceResolutionPath(given.world, given.maxHops)
    /\ given.kind = "probe" /\ result # Unknown => result = ExecuteDNS(given.plan, given.oracle)
    /\ given.kind = "scan" /\ result # Unknown => result = Judged(given)
    /\ given.kind = "text" /\ result # Unknown =>
          result = ParseBatchInput(TextRows(given.lines))
    /\ given.kind = "csv" /\ result # Unknown =>
          result = ParseBatchInput(CsvRows(given.records))
    /\ given.kind = "day" /\ result # Unknown =>
          result = AggregateDailyMetrics(given.single, given.batch)
    /\ given.kind = "manifest" /\ result # Unknown => result = ManifestRead(given)
    /\ given.kind = "sets" /\ result # Unknown => result = BuildSetAnalysis(given.query)
    /\ given.kind = "report" /\ result # Unknown => result = Reported(given)
    /\ given.kind = "board" /\ result # Unknown => result = Boards(given)

LEMMA Computed == Spec => []IInv
<1>1. Init => IInv
  BY DEF Init, IInv
<1>2. IInv /\ [Next]_vars => IInv'
  <2> SUFFICES ASSUME IInv, [Next]_vars
               PROVE  IInv'
    OBVIOUS
  <2>1. CASE SelectNode
    BY <2>1 DEF SelectNode, Compute, IInv
  <2>2. CASE PlaceTask
    BY <2>2 DEF PlaceTask, Compute, IInv, Places
  <2>3. CASE ReportProbe
    BY <2>3 DEF ReportProbe, Compute, IInv, Reported
  <2>4. CASE JudgeHost
    BY <2>4 DEF JudgeHost, Compute, IInv, Judged
  <2>5. CASE CleanOptions
    BY <2>5 DEF CleanOptions, Compute, IInv, Cleaned
  <2>6. CASE PlanDns
    BY <2>6 DEF PlanDns, Compute, IInv, Plans
  <2>7. CASE ReadText
    BY <2>7 DEF ReadText, Compute, IInv
  <2>8. CASE ReadCsv
    BY <2>8 DEF ReadCsv, Compute, IInv
  <2>9. CASE AggregateDay
    BY <2>9 DEF AggregateDay, Compute, IInv
  <2>10. CASE Trace
    BY <2>10 DEF Trace, Compute, IInv
  <2>11. CASE ProbeDns
    BY <2>11 DEF ProbeDns, Compute, IInv
  <2>12. CASE ReadManifest
    BY <2>12 DEF ReadManifest, Compute, IInv, ManifestRead
  <2>13. CASE ShowBoard
    BY <2>13 DEF ShowBoard, Compute, IInv, Boards
  <2>14. CASE AnalyseSets
    BY <2>14 DEF AnalyseSets, Compute, IInv
  <2>15. CASE UNCHANGED vars
    BY <2>15 DEF vars, IInv, Places, Cleaned, Plans, Judged, ManifestRead, Reported, Boards
  <2> QED
    BY <2>1, <2>2, <2>3, <2>4, <2>5, <2>6, <2>7, <2>8, <2>9, <2>10, <2>11, <2>12, <2>13,
       <2>14, <2>15 DEF Next
<1> QED
  BY <1>1, <1>2, PTL DEF Spec

-----------------------------------------------------------------------------
(* Nodes and regions are placed best.                                      *)

LEMMA NodePreferred == IInv => SelectionPrefers
<1> SUFFICES ASSUME IInv, Is("node")
             PROVE  SelectionPrefers
  BY DEF SelectionPrefers
<1> DEFINE nodes == given.nodes
<1>1. NodeTable(nodes) /\ result = getSingleExecutionNode(nodes, given.region, given.mode)
  BY RulesAssumption DEF IInv, Is
<1>2. CASE nodes = {}
  <2>1. schedulableNodes(nodes) = {}
    BY <1>2 DEF schedulableNodes
  <2>2. InRegion({}, given.region) = {}
    BY DEF InRegion
  <2>3. OfMode({}, given.mode) = {}
    BY DEF OfMode, Prefer
  <2>4. result = NoNode
    BY <1>1, <1>2, <2>1, <2>2, <2>3 DEF getSingleExecutionNode, getDefaultNode, AnyNode
  <2> QED
    BY <1>2, <2>4 DEF SelectionPrefers
<1>3. CASE nodes # {}
  <2>1. /\ result \in nodes
        /\ \A n \in nodes \ {result} : Before(Preference(result, nodes, given.region, given.mode),
                                              Preference(n, nodes, given.region, given.mode))
    BY <1>1, <1>3, SelectionRanks
  <2>2. result # NoNode
    <3>1. result.id # 0
      BY <1>1, <2>1 DEF NodeTable
    <3> QED
      BY <3>1 DEF NoNode
  <2> QED
    BY <1>3, <2>1, <2>2 DEF SelectionPrefers, Preference, Placed, Fits
<1> QED
  BY <1>2, <1>3

LEMMA RegionsPlaced ==
    ASSUME IInv, Is("regions")
    PROVE  /\ NodeTable(given.nodes) /\ RegionTable(given.regions) /\ given.limit \in Nat
           /\ given.codes \in Seq({given.codes[i] : i \in DOMAIN given.codes})
           /\ result = Places(given)
BY RulesAssumption DEF IInv, Is

LEMMA RegionsAsked == IInv => RegionsAreAsked
<1> SUFFICES ASSUME IInv, Is("regions")
             PROVE  RegionsAreAsked
  BY DEF RegionsAreAsked
<1> DEFINE c == normalizeRegionCodes(given.regions, given.nodes, given.codes, given.limit)
           A == Active(given.regions)
           s == [i \in DOMAIN result |-> result[i].code]
<1>1. PICK N \in Nat :
         /\ c \in [1..N -> A]
         /\ IsInjective(c)
         /\ N = 0 <=> A = {}
         /\ given.limit > 0 => N =< given.limit
         /\ A \cap ToSet(given.codes) # {} =>
               /\ ToSet(c) \subseteq ToSet(given.codes)
               /\ given.limit = 0 => ToSet(c) = A \cap ToSet(given.codes)
  <2> DEFINE C == {given.codes[i] : i \in DOMAIN given.codes}
  <2>1. RegionTable(given.regions) /\ given.limit \in Nat /\ given.codes \in Seq(C)
    BY RegionsPlaced
  <2>2. c = normalizeRegionCodes(given.regions, given.nodes, given.codes, given.limit)
    OBVIOUS
  <2> HIDE DEF C, c
  <2> QED
    BY <2>1, <2>2, RegionsOfTask
<1>2. s = c
  <2>1. result = Places(given)
    BY RegionsPlaced
  <2> HIDE DEF c
  <2>2. result = [i \in DOMAIN c |-> [code |-> c[i],
                     node |-> getSingleExecutionNode(given.nodes, c[i], "auto")]]
    BY <2>1 DEF Places, c
  <2>3. DOMAIN result = DOMAIN c /\ \A i \in DOMAIN c : result[i].code = c[i]
    BY <2>2
  <2> QED
    BY <1>1, <2>3
<1> HIDE DEF c, s
<1>3. Len(s) = N /\ (s = <<>> <=> N = 0)
  BY <1>1, <1>2, IsASeq
<1>4. \A i \in DOMAIN s : s[i] \in A
  BY <1>1, <1>2
<1> HIDE DEF A
<1>5. /\ IsInjective(s) /\ \A i \in DOMAIN s : s[i] \in A
      /\ s = <<>> <=> A = {}
      /\ given.limit > 0 => Len(s) =< given.limit
      /\ A \cap ToSet(given.codes) # {} =>
            /\ ToSet(s) \subseteq ToSet(given.codes)
            /\ given.limit = 0 => ToSet(s) = A \cap ToSet(given.codes)
  BY <1>1, <1>2, <1>3, <1>4
<1> QED
  BY <1>5 DEF RegionsAreAsked, s, A, Active

LEMMA OnlineIfAny == IInv => DefaultIsOnline
<1> SUFFICES ASSUME IInv, Is("regions"), given.codes = <<>>, result # <<>>
             PROVE  DefaultIsOnline
  BY DEF DefaultIsOnline
<1> DEFINE nodes == given.nodes
           regions == given.regions
           c == normalizeRegionCodes(regions, nodes, given.codes, given.limit)
           d == defaultRegionCodes(regions, nodes, given.limit)
           C == {given.codes[i] : i \in DOMAIN given.codes}
<1>1. /\ NodeTable(nodes) /\ RegionTable(regions) /\ given.limit \in Nat
      /\ given.codes \in Seq(C) /\ result = Places(given)
  BY RegionsPlaced
<1>2. PICK N \in Nat : c \in [1..N -> Active(regions)] /\ c = d
  <2>1. c = normalizeRegionCodes(regions, nodes, given.codes, given.limit)
    OBVIOUS
  <2> HIDE DEF C, c, d, regions, nodes
  <2>2. /\ RegionTable(regions) /\ given.codes \in Seq(C) /\ given.limit \in Nat
        /\ c = normalizeRegionCodes(regions, nodes, given.codes, given.limit)
    BY <1>1, <2>1
  <2>3. \E N \in Nat : c \in [1..N -> Active(regions)]
    BY <2>2, RegionsOfTask
  <2>4. c = defaultRegionCodes(regions, nodes, given.limit)
    BY <2>2, NoneAsked
  <2> QED
    BY <2>3, <2>4 DEF d
<1>3. PICK K \in Nat : /\ d \in [1..K -> Active(regions)]
                       /\ K > 0 => \E r \in regions :
                             /\ d[1] = r.code
                             /\ \A q \in regions \ {r} :
                                   Before(regionRank(r, nodes), regionRank(q, nodes))
  BY <1>1, DefaultsRanked
<1>4. result = [i \in DOMAIN c |->
                   [code |-> c[i], node |-> getSingleExecutionNode(nodes, c[i], "auto")]]
  BY <1>1 DEF Places
<1> HIDE DEF c, d
<1>5. DOMAIN d = 1..K /\ DOMAIN c = 1..K
  BY <1>2, <1>3
<1>6. K > 0
  <2> SUFFICES ASSUME K = 0
               PROVE  FALSE
    BY <1>3
  <2>1. result = <<>>
    BY <1>4, <1>5
  <2> QED
    BY <2>1
<1>7. PICK r \in regions : /\ d[1] = r.code
                           /\ \A q \in regions \ {r} :
                                 Before(regionRank(r, nodes), regionRank(q, nodes))
  BY <1>3, <1>6
<1> DEFINE best == result[1].node
<1>8. best = getSingleExecutionNode(nodes, r.code, "auto")
  <2>1. 1 \in DOMAIN c /\ c[1] = r.code
    BY <1>2, <1>5, <1>6, <1>7
  <2> QED
    BY <1>4, <2>1
<1> HIDE DEF best
<1>9. \A n \in Usable(nodes, r.code) : nodeOnline(best) /\ (~ n.local => ~ best.local)
  BY <1>1, <1>8, SelectOnline DEF Usable
<1> DEFINE usable == {n \in nodes : n.schedulable /\ nodeOnline(n)
                                    /\ \E q \in regions : q.code = n.region}
<1>10. \A n \in usable : /\ Usable(nodes, r.code) # {}
                         /\ ~ n.local => \E m \in Usable(nodes, r.code) : ~ m.local
  <2> SUFFICES ASSUME NEW n \in usable
               PROVE  /\ Usable(nodes, r.code) # {}
                      /\ ~ n.local => \E m \in Usable(nodes, r.code) : ~ m.local
    OBVIOUS
  <2>1. PICK q \in regions : q.code = n.region
    OBVIOUS
  <2>2. n \in Usable(nodes, q.code)
    BY <2>1 DEF Usable, Placed
  <2>3. r # q => Before(regionRank(r, nodes), regionRank(q, nodes))
    BY <1>7, <2>1
  <2> QED
    BY <1>1, <2>2, <2>3, FirstRegion
<1> HIDE DEF nodes, regions
<1>11. /\ usable # {} => nodeOnline(best)
       /\ (\E n \in usable : ~ n.local) => ~ best.local
  <2> HIDE DEF usable
  <2> QED
    BY <1>9, <1>10
<1> QED
  BY <1>11 DEF DefaultIsOnline, best, nodes, regions

\* The node that is chosen comes before every other; the regions of a task are
\* those asked for, within the limit; and a task that names none is probed by an
\* online node whenever an active region has one: for every table of nodes and of
\* regions and every request, whatever the other kinds of input are.
THEOREM PlacementsAreBest == Spec => []PlacementIsBest
<1>1. IInv => PlacementIsBest
  BY NodePreferred, RegionsAsked, OnlineIfAny DEF PlacementIsBest
<1> QED
  BY <1>1, Computed, PTL

-----------------------------------------------------------------------------
(* DNS probes and options.                                                 *)

LEMMA OptionsCleaned ==
    ASSUME IInv, Is("options")
    PROVE  /\ given.protocol \in Protocols \ {"dns"} /\ RawOptions(given.raw)
           /\ result.stored = CleanBatch(given.protocol, given.raw)
           /\ result.used = CleanBatch(given.protocol, given.raw)
           /\ result.single = CleanProber(given.protocol, given.raw)
<1>1. given.protocol \in Protocols \ {"dns"} /\ RawOptions(given.raw)
  BY RulesAssumption DEF IInv, Is, RawOptions
<1>2. result = Cleaned(given)
  BY DEF IInv, Is
<1>3. CleanProber(given.protocol, CleanBatch(given.protocol, given.raw))
          = CleanBatch(given.protocol, given.raw)
  BY <1>1, StoredIsUsed
<1> QED
  BY <1>1, <1>2, <1>3 DEF Cleaned

LEMMA NothingIsCut == IInv => OptionsSurvive
BY OptionsCleaned DEF OptionsSurvive

LEMMA CommandsFit == IInv => BudgetCovers
<1> SUFFICES ASSUME IInv, Is("options")
             PROVE  BudgetCovers
  BY DEF BudgetCovers
<1> DEFINE p == given.protocol
           raw == given.raw
<1>1. /\ p \in Protocols \ {"dns"} /\ RawOptions(raw)
      /\ result.used = CleanBatch(p, raw) /\ result.single = CleanProber(p, raw)
  BY OptionsCleaned
<1>2. CASE p = "http"
  <2>1. PICK t \in 10..300 : CleanBatch("http", raw) = [timeout |-> t]
    BY <1>1, StoredHttp
  <2>2. result.used.timeout = t
    BY <1>1, <1>2, <2>1
  <2>3. result.single.timeout = Clamp(raw.timeout, Knob(1, 1200, 100))
    BY <1>1, <1>2, SingleHttp
  <2>4. /\ result.single.timeout < CallerBudget("single", raw)
        /\ result.used.timeout <= CallerBudget("batch", raw)
    BY <1>1, <2>2, <2>3, HttpFits
  <2> QED
    BY <1>2, <2>4 DEF BudgetCovers
<1>3. CASE p = "ping"
  <2>1. ASSUME NEW o, NEW c \in Nat, NEW t \in Nat, o = [count |-> c, timeout |-> t]
        PROVE  LongestRun("ping", o) < Budget("ping", o)
    BY <2>1, PingFits
  <2>2. PICK c \in 1..10, t \in 10..100 : result.used = [count |-> c, timeout |-> t]
    BY <1>1, <1>3, StoredPing
  <2>3. PICK d \in 1..10, u \in 10..100 : result.single = [count |-> d, timeout |-> u]
    <3>1. \E c_1 \in 1..10, t_1 \in 10..100 :
             CleanProber("ping", raw) = [count |-> c_1, timeout |-> t_1]
      <4> HIDE DEF raw
      <4> QED
        BY <1>1, SinglePing
    <3> QED
      BY <1>1, <1>3, <3>1
  <2>4. LongestRun("ping", result.used) < Budget("ping", result.used)
    <3>1. c \in Nat /\ t \in Nat
      OBVIOUS
    <3> QED
      BY <2>1, <2>2, <3>1
  <2>5. LongestRun("ping", result.single) < Budget("ping", result.single)
    <3>1. d \in Nat /\ u \in Nat
      OBVIOUS
    <3> QED
      BY <2>1, <2>3, <3>1
  <2> QED
    BY <1>3, <2>4, <2>5 DEF BudgetCovers
<1>4. CASE p \in {"mtr", "traceroute"}
  <2>1. ASSUME NEW o, NEW h \in Nat, NEW c \in Nat, NEW t \in Nat,
               o = [hops |-> h, count |-> c, timeout |-> t]
        PROVE  LongestRun(p, o) < Budget(p, o)
    BY <1>4, <2>1, RouteFits
  <2>2. PICK h \in 1..30, c \in 1..10, t \in 10..100 :
            result.used = [hops |-> h, count |-> c, timeout |-> t]
    <3> HIDE DEF p, raw
    <3>1. \E h_1 \in 1..30, c_1 \in 1..10, t_1 \in 10..100 :
             CleanBatch(p, raw) = [hops |-> h_1, count |-> c_1, timeout |-> t_1]
      BY <1>1, <1>4, StoredRoute
    <3> QED
      BY <1>1, <3>1
  <2>3. PICK g \in 1..30, d \in 1..10, u \in 1..100 :
            result.single = [hops |-> g, count |-> d, timeout |-> u]
    <3> HIDE DEF p, raw
    <3>1. \E h_1 \in 1..30, c_1 \in 1..10, t_1 \in 1..100 :
             CleanProber(p, raw) = [hops |-> h_1, count |-> c_1, timeout |-> t_1]
      BY <1>1, <1>4, SingleRoute
    <3> QED
      BY <1>1, <3>1
  <2>4. LongestRun(p, result.used) < Budget(p, result.used)
    <3>1. h \in Nat /\ c \in Nat /\ t \in Nat
      OBVIOUS
    <3> QED
      BY <2>1, <2>2, <3>1
  <2>5. LongestRun(p, result.single) < Budget(p, result.single)
    <3>1. g \in Nat /\ d \in Nat /\ u \in Nat
      OBVIOUS
    <3> QED
      BY <2>1, <2>3, <3>1
  <2> QED
    BY <1>4, <2>4, <2>5 DEF BudgetCovers
<1> QED
  BY <1>1, <1>2, <1>3, <1>4 DEF Protocols

LEMMA PlansAgree == IInv => BatchPlanAsSingle
<1> SUFFICES ASSUME IInv, Is("dns")
             PROVE  BatchPlanAsSingle
  BY DEF BatchPlanAsSingle
<1>1. RawPlan(given.raw)
  BY RulesAssumption DEF IInv, Is, RawPlan
<1>2. /\ result.single = SinglePlan(given.target, given.raw)
      /\ result.batch = BatchPlan(given.target, given.raw)
  BY DEF IInv, Is, Plans
<1>3. /\ IsRejected(result.single) <=> IsRejected(result.batch)
      /\ ~ IsRejected(result.single) =>
            /\ DOMAIN result.single.plan = DOMAIN result.batch.plan
            /\ \A i \in DOMAIN result.single.plan :
                  Unnamed(result.single.plan[i]) = Unnamed(result.batch.plan[i])
  BY <1>1, <1>2, PlansAlike
<1> QED
  BY <1>3 DEF BatchPlanAsSingle, Unnamed

LEMMA TraceBounded == IInv => TraceFallsShort
<1> SUFFICES ASSUME IInv, Is("trace")
             PROVE  TraceFallsShort
  BY DEF TraceFallsShort
<1>1. /\ given.world.labels \in Nat \ {0} /\ given.world.cut \in 0..given.world.labels
      /\ given.maxHops \in Int
  BY RulesAssumption DEF IInv, Is
<1>2. result = TraceResolutionPath(given.world, given.maxHops)
  BY DEF IInv, Is
<1> QED
  BY <1>1, <1>2, TraceEnds DEF TraceFallsShort

LEMMA EvidenceStays == IInv => EvidenceIsKept
<1> SUFFICES ASSUME IInv, Is("probe")
             PROVE  EvidenceIsKept
  BY DEF EvidenceIsKept
<1>1. QueryPlanOk(given.plan)
  BY RulesAssumption DEF IInv, Is, QueryPlanOk
<1>2. result = ExecuteDNS(given.plan, given.oracle)
  BY DEF IInv, Is
<1>3. ASSUME NEW n \in 1..Len(given.plan)
      PROVE  LET before == ExecuteDNS(SubSeq(given.plan, 1, n), given.oracle)
             IN  /\ before.success = result.success
                 /\ before.wildcard => result.wildcard
                 /\ before.hash => result.hash
  BY <1>1, <1>2, EvidenceGrows
<1>4. result.axfr => result.hash
  BY <1>1, <1>2, TransferHasZone
<1> QED
  BY <1>3, <1>4 DEF EvidenceIsKept

\* A batch probe uses the options its task stores and a prober's context
\* outlives its command; a batch DNS probe asks what a single one would; a trace
\* never reaches the servers of a deeply delegated name; and what a DNS probe has
\* shown is not lost: for every options, plan of queries, name and answers.
THEOREM ProbesAreAlwaysSound == Spec => []ProbesAreSound
<1>1. IInv => ProbesAreSound
  BY NothingIsCut, CommandsFit, PlansAgree, TraceBounded, EvidenceStays DEF ProbesAreSound
<1> QED
  BY <1>1, Computed, PTL

-----------------------------------------------------------------------------
(* Hosts are judged.                                                       *)

\* The results of the queries of a scan, and what is seen of the host.
Queried == [i \in DOMAIN Asked |-> RunQuery(Asked[i])]
Observed == Observe(given.host, Queried, given.resolvers, given.random)

LEMMA ScanOfPlan ==
    ASSUME IInv, Is("scan")
    PROVE  LET N == Len(QueryPlan(given.host))
           IN /\ N \in Nat /\ N >= 1 /\ DOMAIN Asked = 1..N
              /\ DOMAIN Queried = 1..N /\ Len(Queried) = N
              /\ \A i \in 1..N : Event(Asked[i]) /\ Queried[i] = RunQuery(Asked[i])
              /\ IsFiniteSet(given.baseline)
              /\ IsFiniteSet(DOMAIN given.resolvers)
              /\ \A b \in given.baseline : {b.min, b.max} \subseteq Nat \cup {NoBound}
<1> DEFINE plan == QueryPlan(given.host)
           N == Len(plan)
<1>1. /\ given.host.role \in {"apex", "ns", "other"}
      /\ IsFiniteSet(given.baseline) /\ IsFiniteSet(DOMAIN given.resolvers)
      /\ \A b \in given.baseline : {b.min, b.max} \subseteq Nat \cup {NoBound}
      /\ \A i \in DOMAIN plan : Event(given.events[plan[i]])
  BY RulesAssumption DEF IInv, Is
<1>2. N \in Nat /\ N >= 1 /\ DOMAIN plan = 1..N
  <2>1. plan \in {<<"A", "AAAA", "NS", "SOA">>, <<"A", "AAAA">>, <<"A", "AAAA", "CNAME">>}
    BY DEF QueryPlan
  <2> HIDE DEF plan
  <2>2. CASE plan = <<"A", "AAAA", "NS", "SOA">>
    BY <2>2
  <2>3. CASE plan = <<"A", "AAAA">>
    BY <2>3
  <2>4. CASE plan = <<"A", "AAAA", "CNAME">>
    BY <2>4
  <2> QED
    BY <2>1, <2>2, <2>3, <2>4
<1> HIDE DEF N
<1>3. Asked = [i \in DOMAIN plan |-> given.events[plan[i]]]
  BY DEF Asked
<1> HIDE DEF plan
<1>4. DOMAIN Asked = 1..N /\ \A i \in 1..N : Asked[i] = given.events[plan[i]]
  BY <1>2, <1>3
<1>5. Queried = [i \in 1..N |-> RunQuery(Asked[i])]
  BY <1>4 DEF Queried
<1>6. Len(Queried) = N
  BY <1>2, <1>5, IsASeq
<1> QED
  BY <1>1, <1>2, <1>4, <1>5, <1>6 DEF N, plan

LEMMA ScanIsJudged ==
    ASSUME IInv, Is("scan")
    PROVE  /\ result.risks = Evaluate(given.host, given.baseline, Observed)
           /\ result.status = IF result.risks = {} THEN "normal" ELSE "suspicious"
           /\ result.severity = HighestSeverity(result.risks)
           /\ result.tier = HighestConfidenceTier(result.risks)
<1> DEFINE plan == QueryPlan(given.host)
           q == [i \in DOMAIN plan |-> RunQuery(given.events[plan[i]])]
           risks == Evaluate(given.host, given.baseline,
                             Observe(given.host, q, given.resolvers, given.random))
<1>1. result = [status |-> IF risks = {} THEN "normal" ELSE "suspicious",
                risks |-> risks,
                severity |-> HighestSeverity(risks),
                tier |-> HighestConfidenceTier(risks)]
  BY DEF IInv, Is, Judged, scanHost
<1>2. q = Queried
  <2>1. Asked = [i \in DOMAIN plan |-> given.events[plan[i]]]
    BY DEF Asked
  <2> HIDE DEF plan
  <2> QED
    BY <2>1 DEF Queried
<1> HIDE DEF q
<1>3. risks = Evaluate(given.host, given.baseline, Observed)
  BY <1>2 DEF Observed
<1> HIDE DEF risks
<1> QED
  BY <1>1, <1>3

LEMMA QueryResult ==
    ASSUME NEW e, Event(e)
    PROVE  LET q == RunQuery(e)
           IN /\ Result(q)
              /\ q.rcode = "NOERROR" <=> e.event = "reply" /\ e.rcode = "NOERROR"
              /\ Failing(q) /\ q.kind = "timeout" <=> e.event = "timeout"
              /\ Failing(q) /\ q.kind \in {"servfail", "connection_refused"}
                   <=> e.event = "refused" \/ q.rcode = "SERVFAIL"
              /\ q.records = IF e.event = "reply" THEN e.records ELSE {}
<1>1. CASE e.event = "timeout"
  BY <1>1 DEF RunQuery, Failing, Result
<1>2. CASE e.event = "refused"
  BY <1>2 DEF RunQuery, DetectErrorKind, Failing, Result
<1>3. CASE e.event = "unresolved"
  BY <1>3 DEF RunQuery, DetectErrorKind, Failing, Result
<1>4. CASE e.event = "reply"
  BY <1>4 DEF RunQuery, DetectErrorKind, Failing, Result, Event
<1> QED
  BY <1>1, <1>2, <1>3, <1>4 DEF Event

LEMMA FirstFails == IInv => FirstFailureDecides
<1> SUFFICES ASSUME IInv, Is("scan")
             PROVE  FirstFailureDecides
  BY DEF FirstFailureDecides
<1> DEFINE N == Len(QueryPlan(given.host))
           s == Snapshot(Queried)
           expected == primaryExpected(given.baseline) # {}
<1>1. /\ N \in Nat /\ N >= 1 /\ DOMAIN Asked = 1..N /\ Len(Queried) = N
      /\ \A i \in 1..N : Event(Asked[i]) /\ Queried[i] = RunQuery(Asked[i])
  BY ScanOfPlan
<1> HIDE DEF N
<1>2. \A i \in 1..N : Result(Queried[i])
  BY <1>1, QueryResult
<1>3. ShownAt(Queried, N, s)
  BY <1>1, <1>2, SnapshotShows
<1>4. Observed.rcode = s.rcode /\ Observed.kind = s.kind
  BY DEF Observed, Observe
<1> HIDE DEF s
<1>5. /\ "refused" \in result.risks <=> s.rcode = "REFUSED"
      /\ "unreach" \in result.risks <=> expected /\ s.kind = "timeout"
      /\ "no_service" \in result.risks <=>
             expected /\ s.kind \in {"servfail", "connection_refused"}
  BY <1>4, ScanIsJudged, EngineDecides DEF Decided
<1> DEFINE failed == {i \in DOMAIN Asked : RunQuery(Asked[i]).rcode # "NOERROR"}
           q == Queried[1]
<1>6. failed = {i \in 1..N : Failing(Queried[i])}
  BY <1>1 DEF Failing
<1>7. 1 \in 1..N /\ q = RunQuery(Asked[1])
  BY <1>1
<1>8. /\ Failing(q) /\ q.kind = "timeout" <=> Asked[1].event = "timeout"
      /\ Failing(q) /\ q.kind \in {"servfail", "connection_refused"}
           <=> Asked[1].event = "refused" \/ q.rcode = "SERVFAIL"
  BY <1>1, <1>7, QueryResult
<1>9. CASE failed = {}
  <2>1. s.rcode = "NOERROR" /\ s.kind = ""
    BY <1>3, <1>6, <1>9 DEF ShownAt
  <2>2. ~ Failing(q)
    BY <1>6, <1>7, <1>9
  <2> QED
    BY <1>5, <1>7, <1>8, <1>9, <2>1, <2>2 DEF FirstFailureDecides
<1>10. CASE failed # {}
  <2>1. failed \in SUBSET Nat
    BY <1>6
  <2> DEFINE f == Min(failed)
  <2>2. f \in failed /\ \A i \in failed : f =< i
    <3> HIDE DEF failed
    <3> QED
      BY <1>10, <2>1, SmallestNumber
  <2> HIDE DEF f
  <2>3. /\ f \in 1..N /\ Failing(Queried[f])
        /\ \A i \in 1..(f - 1) : ~ Failing(Queried[i])
    <3> HIDE DEF failed
    <3>1. f \in 1..N /\ Failing(Queried[f])
      BY <1>6, <2>2
    <3>2. ASSUME NEW i \in 1..(f - 1)
          PROVE  ~ Failing(Queried[i])
      <4>1. i \in 1..N /\ ~ (f =< i)
        BY <1>1, <3>1
      <4> QED
        BY <1>6, <2>2, <4>1
    <3> QED
      BY <3>1, <3>2
  <2>4. s.rcode = Queried[f].rcode /\ s.kind = IF f = 1 THEN q.kind ELSE ""
    BY <1>3, <2>3 DEF ShownAt
  <2>5. Queried[f].rcode = RunQuery(Asked[f]).rcode
    BY <1>1, <2>3
  <2>6. Failing(q) <=> f = 1
    <3>1. CASE f = 1
      BY <2>3, <3>1
    <3>2. CASE f # 1
      <4>1. 1 \in 1..(f - 1)
        BY <2>3, <3>2
      <4> QED
        BY <2>3, <3>2, <4>1
    <3> QED
      BY <3>1, <3>2
  <2>7. "refused" \in result.risks <=> failed # {} /\ RunQuery(Asked[Min(failed)]).rcode = "REFUSED"
    BY <1>5, <1>10, <2>4, <2>5 DEF f
  <2>8. s.kind = "timeout" <=> Asked[1].event = "timeout"
    BY <1>8, <2>4, <2>6
  <2>9. s.kind \in {"servfail", "connection_refused"}
          <=> Asked[1].event = "refused" \/ q.rcode = "SERVFAIL"
    BY <1>8, <2>4, <2>6
  <2> QED
    BY <1>5, <1>7, <2>7, <2>8, <2>9 DEF FirstFailureDecides
<1> QED
  BY <1>9, <1>10

LEMMA Unanswered == IInv => UnansweredIsSuspicious
<1> SUFFICES ASSUME IInv, Is("scan"), Answers(given.baseline) # {},
                    \A i \in DOMAIN Asked : Answers(Asked[i].records) = {}
             PROVE  result.status = "suspicious"
  BY DEF UnansweredIsSuspicious
<1> DEFINE N == Len(QueryPlan(given.host))
           records == Observed.records
<1>1. /\ DOMAIN Asked = 1..N /\ DOMAIN Queried = 1..N
      /\ \A i \in 1..N : Event(Asked[i]) /\ Queried[i] = RunQuery(Asked[i])
  BY ScanOfPlan
<1> HIDE DEF N
<1>2. records = UNION {Queried[i].records : i \in 1..N}
  BY <1>1 DEF Observed, Observe
<1> HIDE DEF records
<1>3. Answers(records) = {}
  <2> SUFFICES ASSUME NEW r \in records, r.section = "answer"
               PROVE  FALSE
    BY DEF Answers
  <2>1. PICK i \in 1..N : r \in Queried[i].records
    BY <1>2
  <2>2. r \in Asked[i].records
    BY <1>1, <2>1, QueryResult
  <2> QED
    BY <1>1, <2>2 DEF Answers
<1>4. NameTypes(records) = {} /\ NameTypes(given.baseline) # {}
  BY <1>3 DEF NameTypes
<1>5. recordDeletionHit(given.baseline, Observed)
  BY <1>4 DEF recordDeletionHit, records
<1>6. "record_deletion" \in result.risks
  BY <1>5, ScanIsJudged, EngineDecides DEF Decided
<1> QED
  BY <1>6, ScanIsJudged

\* A scan that was answered as approved: what is seen of the host.
SeenAsApproved(records, baseline) ==
    /\ \A r \in records : \E b \in baseline :
           /\ b.section = r.section /\ b.name = r.name /\ b.type = r.type /\ b.value = r.value
           /\ b.min # NoBound => b.min =< r.ttl
           /\ b.max # NoBound => r.ttl =< b.max
    /\ \A b \in baseline : \E r \in records :
           b.section = r.section /\ b.name = r.name /\ b.type = r.type /\ b.value = r.value
    /\ \A r \in records : r.ttl \in Nat

LEMMA ApprovedSeen ==
    ASSUME IInv, Is("scan"), AnswersAsApproved
    PROVE  /\ SeenAsApproved(Observed.records, given.baseline)
           /\ Observed.rcode = "NOERROR" /\ Observed.kind = ""
<1> DEFINE N == Len(QueryPlan(given.host))
           seen == UNION {Asked[i].records : i \in DOMAIN Asked}
           baseline == given.baseline
<1>1. /\ N \in Nat /\ N >= 1 /\ DOMAIN Asked = 1..N /\ DOMAIN Queried = 1..N /\ Len(Queried) = N
      /\ \A i \in 1..N : Event(Asked[i]) /\ Queried[i] = RunQuery(Asked[i])
  BY ScanOfPlan
<1> HIDE DEF N
<1>2. /\ \A i \in 1..N : Asked[i].event = "reply" /\ Asked[i].rcode = "NOERROR"
      /\ {<<r.section, r.name, r.type, r.value>> : r \in seen}
            = {<<r.section, r.name, r.type, r.value>> : r \in baseline}
      /\ \A r \in seen : \A b \in baseline :
            <<r.name, r.type>> = <<b.name, b.type>> =>
                (b.min # NoBound => b.min =< r.ttl) /\ (b.max # NoBound => r.ttl =< b.max)
  BY <1>1 DEF AnswersAsApproved
<1>3. \A i \in 1..N : /\ Result(Queried[i]) /\ ~ Failing(Queried[i])
                      /\ Queried[i].records = Asked[i].records
  BY <1>1, <1>2, QueryResult DEF Failing
<1>4. Observed.records = seen
  BY <1>1, <1>3 DEF Observed, Observe
<1>5. \A r \in seen : r.ttl \in Nat
  BY <1>1 DEF Event
<1> DEFINE s == Snapshot(Queried)
<1>6. ShownAt(Queried, N, s)
  BY <1>1, <1>3, SnapshotShows
<1>7. Observed.rcode = s.rcode /\ Observed.kind = s.kind
  BY DEF Observed, Observe
<1> HIDE DEF s, seen, baseline
<1>8. Observed.rcode = "NOERROR" /\ Observed.kind = ""
  BY <1>3, <1>6, <1>7 DEF ShownAt
<1>9. ASSUME NEW r \in seen
      PROVE  \E b \in baseline :
           /\ b.section = r.section /\ b.name = r.name /\ b.type = r.type /\ b.value = r.value
           /\ b.min # NoBound => b.min =< r.ttl
           /\ b.max # NoBound => r.ttl =< b.max
  <2>1. PICK b \in baseline :
           <<r.section, r.name, r.type, r.value>> = <<b.section, b.name, b.type, b.value>>
    <3>1. <<r.section, r.name, r.type, r.value>>
            \in {<<x.section, x.name, x.type, x.value>> : x \in seen}
      OBVIOUS
    <3>2. <<r.section, r.name, r.type, r.value>>
            \in {<<x.section, x.name, x.type, x.value>> : x \in baseline}
      BY <1>2, <3>1
    <3> QED
      BY <3>2
  <2> QED
    BY <1>2, <2>1
<1>10. ASSUME NEW b \in baseline
       PROVE  \E r \in seen :
           b.section = r.section /\ b.name = r.name /\ b.type = r.type /\ b.value = r.value
  <2>1. PICK r \in seen :
           <<r.section, r.name, r.type, r.value>> = <<b.section, b.name, b.type, b.value>>
    <3>1. <<b.section, b.name, b.type, b.value>>
            \in {<<x.section, x.name, x.type, x.value>> : x \in baseline}
      OBVIOUS
    <3>2. <<b.section, b.name, b.type, b.value>>
            \in {<<x.section, x.name, x.type, x.value>> : x \in seen}
      BY <1>2, <3>1
    <3> QED
      BY <3>2
  <2> QED
    BY <2>1
<1>11. SeenAsApproved(seen, baseline)
  BY <1>5, <1>9, <1>10 DEF SeenAsApproved
<1> QED
  BY <1>4, <1>8, <1>11 DEF baseline

\* The risks of what is seen as approved, one by one.
LEMMA ApprovedNames ==
    ASSUME NEW host, NEW baseline, NEW obs, SeenAsApproved(obs.records, baseline),
           obs.ns = {r.value : r \in {o \in obs.records : o.type = "NS" /\ o.name = host.zone}},
           nsNameHit(baseline, obs)
    PROVE  \E b \in baseline : b.type = "NS" /\ b.name # host.zone
<1> SUFFICES ASSUME \A b \in baseline : b.type = "NS" => b.name = host.zone
             PROVE  FALSE
  OBVIOUS
<1>1. ASSUME NEW v \in baselineNSNames(baseline)
      PROVE  v \in obs.ns
  <2>1. PICK b \in baseline : b.type = "NS" /\ b.value = v
    BY DEF baselineNSNames
  <2>2. PICK r \in obs.records : b.name = r.name /\ b.type = r.type /\ b.value = r.value
    BY DEF SeenAsApproved
  <2> QED
    BY <2>1, <2>2
<1>2. ASSUME NEW v \in obs.ns
      PROVE  v \in baselineNSNames(baseline)
  <2>1. PICK r \in obs.records : r.type = "NS" /\ r.value = v
    OBVIOUS
  <2>2. PICK b \in baseline : b.type = r.type /\ b.value = r.value
    BY DEF SeenAsApproved
  <2> QED
    BY <2>1, <2>2 DEF baselineNSNames
<1>3. baselineNSNames(baseline) = obs.ns
  BY <1>1, <1>2
<1> QED
  BY <1>3 DEF nsNameHit

LEMMA ApprovedGlue ==
    ASSUME NEW baseline, NEW obs, SeenAsApproved(obs.records, baseline),
           obs.glue = {r.value : r \in {o \in obs.records : o.section = "additional"
                                                              /\ o.type \in Addresses}},
           nsIPHit(baseline, obs)
    PROVE  \E b \in baseline : /\ b.section = "additional" /\ b.type \in Addresses
                               /\ b.name \notin baselineNSNames(baseline)
<1>1. obs.glue # {} /\ baselineGlueIPs(baseline) \cap obs.glue = {}
  BY DEF nsIPHit
<1>2. PICK r \in obs.records : r.section = "additional" /\ r.type \in Addresses
                                 /\ r.value \in obs.glue
  BY <1>1
<1>3. PICK b \in baseline : b.section = r.section /\ b.type = r.type /\ b.value = r.value
  BY DEF SeenAsApproved
<1>4. b.name \in baselineNSNames(baseline) => b.value \in baselineGlueIPs(baseline)
  BY <1>2, <1>3 DEF baselineGlueIPs
<1>5. b.name \notin baselineNSNames(baseline)
  BY <1>1, <1>2, <1>3, <1>4
<1> QED
  BY <1>2, <1>3, <1>5

LEMMA ApprovedAnswers ==
    ASSUME NEW host, NEW baseline, NEW obs, SeenAsApproved(obs.records, baseline)
    PROVE  /\ ~ recordDeletionHit(baseline, obs)
           /\ primaryObserved(host, obs) = {} =>
                \A b \in Answers(baseline) : b.type \in Primary => b.name # host.name
<1>1. ASSUME NEW nt \in NameTypes(baseline)
      PROVE  nt \in NameTypes(obs.records)
  <2>1. PICK b \in Answers(baseline) : nt = <<b.name, b.type>>
    BY DEF NameTypes
  <2>2. PICK r \in obs.records : b.section = r.section /\ b.name = r.name /\ b.type = r.type
    BY DEF SeenAsApproved, Answers
  <2>3. r \in Answers(obs.records)
    BY <2>1, <2>2 DEF Answers
  <2> QED
    BY <2>1, <2>2, <2>3 DEF NameTypes
<1>2. ASSUME primaryObserved(host, obs) = {}, NEW b \in Answers(baseline), b.type \in Primary,
             b.name = host.name
      PROVE  FALSE
  <2>1. PICK r \in obs.records : b.section = r.section /\ b.name = r.name /\ b.type = r.type
    BY DEF SeenAsApproved, Answers
  <2>2. r \in Answers(obs.records)
    BY <2>1 DEF Answers
  <2>3. r.value \in primaryObserved(host, obs)
    BY <1>2, <2>1, <2>2 DEF primaryObserved
  <2> QED
    BY <1>2, <2>3
<1> QED
  BY <1>1, <1>2 DEF recordDeletionHit

RebindApproved(host, baseline) ==
    LET addresses == {b \in Answers(baseline) : b.type \in Addresses}
    IN /\ ~ host.allowRebind
       /\ \E b, c \in addresses : \/ ipClass(b.value) # ipClass(c.value)
                                  \/ b.min = NoBound /\ c.min # NoBound
                                  \/ b.max = NoBound /\ c.max # NoBound

LEMMA ApprovedAddresses ==
    ASSUME NEW host, NEW baseline, NEW obs, SeenAsApproved(obs.records, baseline),
           IsFiniteSet(baseline),
           \A b \in baseline : {b.min, b.max} \subseteq Nat \cup {NoBound},
           obs.ips = {r.value : r \in {o \in Answers(obs.records) : o.type \in Addresses
                                                                     /\ o.name = host.name}},
           rebindHit(host, baseline, obs)
    PROVE  RebindApproved(host, baseline)
<1> DEFINE addresses == {b \in Answers(baseline) : b.type \in Addresses}
<1>1. ~ host.allowRebind /\ Cardinality(obs.ips) > 1
  BY DEF rebindHit
<1>2. ASSUME NEW ip \in obs.ips
      PROVE  \E b \in addresses : b.value = ip
  <2>1. PICK r \in Answers(obs.records) : r.type \in Addresses /\ r.value = ip
    OBVIOUS
  <2>2. PICK b \in baseline : b.section = r.section /\ b.type = r.type /\ b.value = r.value
    BY DEF SeenAsApproved, Answers
  <2>3. b \in addresses
    BY <2>1, <2>2 DEF Answers
  <2> QED
    BY <2>1, <2>2, <2>3
<1>3. CASE Cardinality({ipClass(ip) : ip \in obs.ips}) > 1
  <2> DEFINE classes == {ipClass(ip) : ip \in obs.ips}
  <2>1. IsFiniteSet(classes)
    <3>1. classes \subseteq {"private", "public"}
      BY DEF ipClass
    <3>2. IsFiniteSet({"private", "public"})
      <4>1. IsFiniteSet({"private"})
        BY FS_Singleton
      <4>2. IsFiniteSet({"private"} \cup {"public"})
        BY <4>1, FS_AddElement
      <4>3. {"private"} \cup {"public"} = {"private", "public"}
        OBVIOUS
      <4> QED
        BY <4>2, <4>3
    <3> HIDE DEF classes
    <3> QED
      BY <3>1, <3>2, FS_Subset
  <2>2. PICK x, y \in classes : x # y
    <3> HIDE DEF classes
    <3> QED
      BY <1>3, <2>1, OneOfEquals DEF classes
  <2>3. PICK i, j \in obs.ips : ipClass(i) # ipClass(j)
    BY <2>2
  <2>4. PICK b \in addresses : b.value = i
    BY <1>2
  <2>5. PICK c \in addresses : c.value = j
    BY <1>2
  <2> QED
    BY <1>1, <2>3, <2>4, <2>5 DEF RebindApproved
<1>4. obs.ips \subseteq primaryExpected(baseline)
  <2> SUFFICES ASSUME NEW ip \in obs.ips
               PROVE  ip \in primaryExpected(baseline)
    OBVIOUS
  <2>1. PICK b \in addresses : b.value = ip
    BY <1>2
  <2> QED
    BY <2>1 DEF primaryExpected, Primary
<1>5. CASE ttlOut(host, baseline, obs)
  <2>1. PICK r \in Answers(obs.records) :
           /\ r.type = "A"
           /\ \/ TTLMins(baseline) # {} /\ r.ttl < Min(TTLMins(baseline))
              \/ TTLMaxs(baseline) # {} /\ r.ttl > Max(TTLMaxs(baseline))
    BY <1>5 DEF ttlOut
  <2>2. PICK b \in baseline : /\ b.section = r.section /\ b.type = r.type
                              /\ b.min # NoBound => b.min =< r.ttl
                              /\ b.max # NoBound => r.ttl =< b.max
    BY DEF SeenAsApproved, Answers
  <2>3. b \in addresses /\ r.ttl \in Nat
    BY <2>1, <2>2 DEF Answers, Addresses, SeenAsApproved
  <2>4. CASE TTLMins(baseline) # {} /\ r.ttl < Min(TTLMins(baseline))
    <3>1. TTLMins(baseline) \in SUBSET Nat
      BY DEF TTLMins, Answers
    <3>2. \A m \in TTLMins(baseline) : Min(TTLMins(baseline)) =< m
      BY <2>4, <3>1, SmallestNumber
    <3>3. Min(TTLMins(baseline)) \in Nat
      BY <2>4, <3>1, SmallestNumber
    <3>4. PICK c \in addresses : c.min # NoBound
      BY <2>4 DEF TTLMins
    <3>5. b.min = NoBound
      <4> SUFFICES ASSUME b.min # NoBound
                   PROVE  FALSE
        OBVIOUS
      <4>1. b.min \in TTLMins(baseline) /\ b.min \in Nat
        BY <2>3 DEF TTLMins, Answers
      <4> QED
        BY <2>2, <2>3, <2>4, <3>2, <3>3, <4>1
    <3> QED
      BY <1>1, <2>3, <3>4, <3>5 DEF RebindApproved
  <2>5. CASE TTLMaxs(baseline) # {} /\ r.ttl > Max(TTLMaxs(baseline))
    <3>1. TTLMaxs(baseline) \in SUBSET Nat
      BY DEF TTLMaxs, Answers
    <3>2. IsFiniteSet(TTLMaxs(baseline))
      <4> DEFINE all == {x.max : x \in baseline}
      <4>1. IsFiniteSet(all)
        <5> DEFINE f == [x \in baseline |-> x.max]
        <5>1. f \in Surjection(baseline, all)
          BY DEF Surjection
        <5> HIDE DEF f, all
        <5> QED
          BY <5>1, FS_Surjection
      <4>2. TTLMaxs(baseline) \subseteq all
        BY DEF TTLMaxs, Answers
      <4> HIDE DEF all
      <4> QED
        BY <4>1, <4>2, FS_Subset
    <3>3. \A m \in TTLMaxs(baseline) : m =< Max(TTLMaxs(baseline))
      BY <2>5, <3>1, <3>2, LargestNumber
    <3>4. Max(TTLMaxs(baseline)) \in Nat
      BY <2>5, <3>1, <3>2, LargestNumber
    <3>5. PICK c \in addresses : c.max # NoBound
      BY <2>5 DEF TTLMaxs
    <3>6. b.max = NoBound
      <4> SUFFICES ASSUME b.max # NoBound
                   PROVE  FALSE
        OBVIOUS
      <4>1. b.max \in TTLMaxs(baseline) /\ b.max \in Nat
        BY <2>3 DEF TTLMaxs, Answers
      <4> QED
        BY <2>2, <2>3, <2>5, <3>3, <3>4, <4>1
    <3> QED
      BY <1>1, <2>3, <3>5, <3>6 DEF RebindApproved
  <2> QED
    BY <2>1, <2>4, <2>5
<1> QED
  BY <1>3, <1>4, <1>5 DEF rebindHit

LEMMA Approved == IInv => ApprovedIsNormal
<1> SUFFICES ASSUME IInv, Is("scan"), AnswersAsApproved
             PROVE  ApprovedIsNormal
  BY DEF ApprovedIsNormal
<1> DEFINE host == given.host
           baseline == given.baseline
           obs == Observed
           risks == result.risks
<1>1. /\ SeenAsApproved(obs.records, baseline)
      /\ obs.rcode = "NOERROR" /\ obs.kind = ""
  BY ApprovedSeen
<1>2. Decided(host, baseline, obs, risks)
  BY ScanIsJudged, EngineDecides
<1>3. /\ obs.ns = {r.value : r \in {o \in obs.records : o.type = "NS" /\ o.name = host.zone}}
      /\ obs.glue = {r.value : r \in {o \in obs.records : o.section = "additional"
                                                            /\ o.type \in Addresses}}
      /\ obs.ips = {r.value : r \in {o \in Answers(obs.records) : o.type \in Addresses
                                                                    /\ o.name = host.name}}
      /\ obs.resolvers = given.resolvers
      /\ obs.wildcard = (host.role = "apex" /\ given.random)
      /\ obs.traceBroken = FALSE /\ obs.samples = <<>> /\ obs.axfr = FALSE
  BY DEF Observed, Observe
<1>4. /\ IsFiniteSet(baseline)
      /\ \A b \in baseline : {b.min, b.max} \subseteq Nat \cup {NoBound}
      /\ IsFiniteSet(DOMAIN given.resolvers)
  BY ScanOfPlan
<1>5. /\ Cardinality({given.resolvers[r] : r \in DOMAIN given.resolvers}) =< 1
      /\ given.random => host.allowWildcard \/ host.role # "apex"
  BY DEF AnswersAsApproved
<1> HIDE DEF host, baseline, obs, risks
<1>6. {"unreach", "no_service", "refused"} \cap risks = {}
  BY <1>1, <1>2 DEF Decided
<1>7. "record_deletion" \notin risks
  BY <1>1, <1>2, ApprovedAnswers DEF Decided
<1>8. {"resolution_path_anomaly", "latency_distribution_anomaly", "route_path_anomaly",
       "axfr_exposed"} \cap risks = {}
  <2>1. ~ latencyHit(obs.samples)
    BY <1>3 DEF latencyHit
  <2> QED
    BY <1>2, <1>3, <2>1 DEF Decided
<1>9. "resolver_divergence" \notin risks
  <2>1. Cardinality({obs.resolvers[r] : r \in DOMAIN obs.resolvers}) \in Nat
    <3> DEFINE all == {given.resolvers[r] : r \in DOMAIN given.resolvers}
               f == [r \in DOMAIN given.resolvers |-> given.resolvers[r]]
    <3>1. f \in Surjection(DOMAIN given.resolvers, all)
      BY DEF Surjection
    <3>2. IsFiniteSet(all)
      <4> HIDE DEF f, all
      <4> QED
        BY <1>4, <3>1, FS_Surjection
    <3> QED
      BY <1>3, <3>2, FS_CardinalityType
  <2>2. ~ divergenceHit(obs)
    BY <1>3, <1>5, <2>1 DEF divergenceHit
  <2> QED
    BY <1>2, <2>2 DEF Decided
<1>10. "wildcard_poisoning" \notin risks
  BY <1>2, <1>3, <1>5 DEF Decided
<1>11. risks \subseteq {"dns_rebind", "ns_name_hijack", "ns_ip_hijack", "empty_answer"}
  <2>1. risks \subseteq Risks
    BY <1>2 DEF Decided
  <2> QED
    BY <1>6, <1>7, <1>8, <1>9, <1>10, <2>1, RisksAre
<1>12. "dns_rebind" \in risks => RebindApproved(host, baseline)
  <2> SUFFICES ASSUME "dns_rebind" \in risks
               PROVE  RebindApproved(host, baseline)
    OBVIOUS
  <2>1. rebindHit(host, baseline, obs)
    BY <1>2 DEF Decided
  <2> QED
    BY <1>1, <1>3, <1>4, <2>1, ApprovedAddresses
<1>13. "ns_name_hijack" \in risks => \E b \in baseline : b.type = "NS" /\ b.name # host.zone
  BY <1>1, <1>2, <1>3, ApprovedNames DEF Decided
<1>14. "ns_ip_hijack" \in risks =>
           \E b \in baseline : /\ b.section = "additional" /\ b.type \in Addresses
                               /\ b.name \notin baselineNSNames(baseline)
  BY <1>1, <1>2, <1>3, ApprovedGlue DEF Decided
<1>15. "empty_answer" \in risks =>
           \A b \in Answers(baseline) : b.type \in Primary => b.name # host.name
  BY <1>1, <1>2, ApprovedAnswers DEF Decided
<1> QED
  BY <1>11, <1>12, <1>13, <1>14, <1>15
  DEF ApprovedIsNormal, RebindApproved, risks, host, baseline

LEMMA ScanTyped ==
    ASSUME IInv, Is("scan")
    PROVE  /\ result.status \in {"normal", "suspicious"} /\ result.risks \subseteq Risks
           /\ result.severity \in {"", "low", "medium", "high", "critical"}
           /\ result.tier \in {"", "review_required", "high_confidence"}
<1>1. result.risks \subseteq Risks
  BY ScanIsJudged, EngineDecides DEF Decided
<1>2. result.severity \in {"", "medium", "high", "critical"}
  BY <1>1, ScanIsJudged, SeverityOfSome
<1>3. result.tier \in {"", "review_required", "high_confidence"}
  BY ScanIsJudged DEF HighestConfidenceTier
<1> QED
  BY <1>1, <1>2, <1>3, ScanIsJudged

LEMMA ChosenNode ==
    ASSUME IInv, Is("node")
    PROVE  result \in given.nodes \cup {NoNode}
<1> DEFINE nodes == given.nodes
<1>1. NodeTable(nodes) /\ result = getSingleExecutionNode(nodes, given.region, given.mode)
  BY RulesAssumption DEF IInv, Is
<1>2. CASE nodes = {}
  BY <1>2, NodePreferred DEF SelectionPrefers
<1>3. CASE nodes # {}
  BY <1>1, <1>3, SelectionRanks
<1> QED
  BY <1>2, <1>3

LEMMA InputMarked ==
    ASSUME NEW rows
    PROVE  LET read == ParseBatchInput(rows)
           IN read = Nothing \/ \A i \in DOMAIN read :
                                    read[i].status \in {"valid", "invalid", "duplicate"}
<1> DEFINE kept == NamedRows(rows)
           records == [i \in DOMAIN kept |->
                           [line |-> kept[i].line,
                            target |-> NormalizeBatchDomain(kept[i].value),
                            status |-> Mark(kept, i)]]
<1>1. ParseBatchInput(rows) \in {Nothing, records}
  BY DEF ParseBatchInput
<1>2. \A i \in DOMAIN records : records[i].status \in {"valid", "invalid", "duplicate"}
  BY DEF Mark
<1> HIDE DEF records
<1> QED
  BY <1>1, <1>2

LEMMA ResultTyped == IInv => TypeOK
<1> SUFFICES ASSUME IInv
             PROVE  TypeOK
  OBVIOUS
<1>1. Is("node") => result \in given.nodes \cup {NoNode}
  BY ChosenNode
<1>2. Is("scan") =>
          /\ result.status \in {"normal", "suspicious"} /\ result.risks \subseteq Risks
          /\ result.severity \in {"", "low", "medium", "high", "critical"}
          /\ result.tier \in {"", "review_required", "high_confidence"}
  BY ScanTyped
<1>3. Is("text") \/ Is("csv") =>
          result = Nothing \/ \A i \in DOMAIN result :
                                  result[i].status \in {"valid", "invalid", "duplicate"}
  <2>1. CASE Is("text")
    BY <2>1, InputMarked DEF IInv, Is
  <2>2. CASE Is("csv")
    BY <2>2, InputMarked DEF IInv, Is
  <2> QED
    BY <2>1, <2>2
<1> QED
  BY <1>1, <1>2, <1>3 DEF TypeOK

\* A scanned host gets the verdict its first failure calls for, is suspicious if
\* it answers nothing of what was approved, and normal if it answers as approved,
\* but for what was approved against the rules themselves: for every host, approved
\* records, answers and resolvers.
THEOREM HostsAreAlwaysJudged == Spec => []HostIsJudged
<1>1. IInv => HostIsJudged
  BY ResultTyped, FirstFails, Approved, Unanswered DEF HostIsJudged
<1> QED
  BY <1>1, Computed, PTL

-----------------------------------------------------------------------------
(* Set analysis.                                                           *)

\* What a function takes on a finite set is finite.
LEMMA ImageFinite ==
    ASSUME NEW S, IsFiniteSet(S), NEW f
    PROVE  IsFiniteSet({f[x] : x \in S})
<1> DEFINE g == [x \in S |-> f[x]]
           T == {f[x] : x \in S}
<1>1. g \in Surjection(S, T)
  BY DEF Surjection
<1> HIDE DEF g, T
<1>2. IsFiniteSet(T)
  BY <1>1, FS_Surjection
<1> QED
  BY <1>2 DEF T

\* The results of the job, or of the window of time.
LookedAt(results, job) ==
    {i \in DOMAIN results : IF job = 0 THEN results[i].recent ELSE results[i].job = job}

LEMMA SelectedResults ==
    ASSUME NEW R, NEW results \in Seq(R), NEW job
    PROVE  \E N \in Nat : Selected(results, job) \in [1..N -> LookedAt(results, job)]
<1> DEFINE ids == LookedAt(results, job)
           key == [i \in ids |-> <<-i>>]
           order == InOrder(ids, key)
           N == Cardinality(ids)
           n == 1
<1>1. ids \subseteq 1..Len(results) /\ IsFiniteSet(1..Len(results))
  <2>1. DOMAIN results = 1..Len(results) /\ Len(results) \in Nat
    OBVIOUS
  <2> QED
    BY <2>1, FS_Interval DEF LookedAt
<1>2. IsFiniteSet(ids) /\ N \in Nat
  BY <1>1, FS_Subset, FS_CardinalityType
<1>3. Selected(results, job) = FirstOf(order, ResultLimit)
  BY DEF Selected, LookedAt
<1>4. n \in Nat /\ \A i \in ids : key[i] \in Keys(n) /\ key[i][1] = -i /\ i \in Int
  BY <1>1 DEF Keys
<1>5. \A i, j \in ids : key[i] = key[j] => i = j
  BY <1>4
<1>6. order \in Bijection(1..N, ids)
  <2> HIDE DEF ids, key, N, n
  <2> QED
    BY <1>2, <1>4, <1>5, InOrderSorts DEF N
<1>7. order \in [1..N -> ids] /\ ResultLimit \in Nat
  BY <1>6, ResultLimitAssumption DEF Bijection, Injection
<1> HIDE DEF order, ids, N
<1>8. FirstOf(order, ResultLimit) \in [1..(IF ResultLimit < N THEN ResultLimit ELSE N) -> ids]
  BY <1>2, <1>7, FirstOfSeq
<1>9. (IF ResultLimit < N THEN ResultLimit ELSE N) \in Nat
  BY <1>2, <1>7
<1> QED
  BY <1>3, <1>8, <1>9 DEF ids

\* The elements of a query.
ElementsOf(q, ids, N) ==
    /\ N \in Nat
    /\ ids = Selected(q.results, q.job)
    /\ ids \in [1..N -> LookedAt(q.results, q.job)]
    /\ Elements(q) = [n \in 1..N |->
                        [key |-> KeyOf(q.results, q.hosts, ids[n]), result |-> ids[n],
                         risks |-> q.results[ids[n]].risks]]

LEMMA ElementsAre ==
    ASSUME NEW q, SetQuery(q)
    PROVE  \E ids, N : ElementsOf(q, ids, N)
<1>1. PICK N \in Nat : Selected(q.results, q.job) \in [1..N -> LookedAt(q.results, q.job)]
  BY SelectedResults DEF SetQuery
<1>2. ElementsOf(q, Selected(q.results, q.job), N)
  BY <1>1 DEF ElementsOf, Elements
<1> QED
  BY <1>2

LEMMA KeysOfHosts ==
    ASSUME NEW q, SetQuery(q), NEW ids, NEW N, ElementsOf(q, ids, N)
    PROVE  /\ \A n \in 1..N : ids[n] \in DOMAIN q.results /\ Elements(q)[n].key \in Int
           /\ \A n \in 1..N : Elements(q)[n].risks \subseteq Nat
           /\ \A n \in 1..N : IsFiniteSet(Elements(q)[n].risks)
<1>1. \A n \in 1..N : ids[n] \in LookedAt(q.results, q.job)
  BY DEF ElementsOf
<1>2. \A n \in 1..N : ids[n] \in DOMAIN q.results
  BY <1>1 DEF LookedAt
<1>3. DOMAIN q.results \subseteq Nat
  BY DEF SetQuery
<1>4. \A i \in DOMAIN q.results : KeyOf(q.results, q.hosts, i) \in Int
  BY <1>3 DEF KeyOf, SetQuery
<1>5. \A n \in 1..N : /\ Elements(q)[n].key = KeyOf(q.results, q.hosts, ids[n])
                      /\ Elements(q)[n].risks = q.results[ids[n]].risks
  BY DEF ElementsOf
<1>6. \A i \in DOMAIN q.results : q.results[i].risks \subseteq Nat /\ IsFiniteSet(q.results[i].risks)
  BY DEF SetQuery
<1> QED
  BY <1>2, <1>4, <1>5, <1>6

\* In one job results with the same key are one.
LEMMA KeysOfJob ==
    ASSUME NEW q, SetQuery(q), NEW ids, NEW N, ElementsOf(q, ids, N), q.job # 0,
           NEW m \in 1..N, NEW n \in 1..N, Elements(q)[m].key = Elements(q)[n].key
    PROVE  ids[m] = ids[n]
<1> DEFINE i == ids[m]
           j == ids[n]
<1>1. i \in LookedAt(q.results, q.job) /\ j \in LookedAt(q.results, q.job)
  BY DEF ElementsOf
<1>2. /\ i \in DOMAIN q.results /\ j \in DOMAIN q.results
      /\ q.results[i].job = q.job /\ q.results[j].job = q.job
  BY <1>1 DEF LookedAt
<1>3. KeyOf(q.results, q.hosts, i) = KeyOf(q.results, q.hosts, j)
  BY DEF ElementsOf
<1> HIDE DEF i, j
<1>4. /\ i \in Nat \ {0} /\ j \in Nat \ {0}
      /\ q.results[i].host \in Nat \ {0} /\ q.results[j].host \in Nat \ {0}
  BY <1>2 DEF SetQuery
<1>5. i = j \/ q.results[i].host = q.results[j].host
  BY <1>3, <1>4 DEF KeyOf
<1>6. i = j
  BY <1>2, <1>5 DEF SetQuery
<1> QED
  BY <1>6 DEF i, j

LEMMA SetsFinite ==
    ASSUME NEW q, SetQuery(q)
    PROVE  /\ IsFiniteSet(Universe(Elements(q))) /\ Universe(Elements(q)) \subseteq Int
           /\ \A risk : SetOf(Elements(q), risk) \subseteq Universe(Elements(q))
           /\ \A risk : Cardinality(SetOf(Elements(q), risk)) \in Nat
<1>1. PICK ids, N : ElementsOf(q, ids, N)
  BY ElementsAre
<1> DEFINE els == Elements(q)
           keys == [n \in 1..N |-> els[n].key]
<1>2. N \in Nat /\ DOMAIN els = 1..N /\ \A n \in 1..N : els[n].key \in Int
  BY <1>1, KeysOfHosts DEF ElementsOf
<1> HIDE DEF els
<1>3. Universe(els) = {keys[n] : n \in 1..N} /\ Universe(els) \subseteq Int
  BY <1>2 DEF Universe
<1>4. IsFiniteSet(Universe(els))
  <2>1. IsFiniteSet(1..N)
    BY <1>2, FS_Interval
  <2> HIDE DEF keys
  <2>2. IsFiniteSet({keys[n] : n \in 1..N})
    BY <2>1, ImageFinite
  <2> QED
    BY <1>3, <2>2
<1>5. \A risk : SetOf(els, risk) \subseteq Universe(els)
  BY DEF SetOf, Universe
<1>6. \A risk : Cardinality(SetOf(els, risk)) \in Nat
  BY <1>4, <1>5, FS_Subset, FS_CardinalityType
<1> QED
  BY <1>3, <1>4, <1>5, <1>6 DEF els

LEMMA CodesAre ==
    ASSUME NEW q, SetQuery(q)
    PROVE  \E N \in Nat : \E T : SetCodes(Elements(q), q.asked) \in [1..N -> T]
<1> DEFINE els == Elements(q)
           found == UNION {els[n].risks : n \in DOMAIN els}
           size(risk) == Cardinality(SetOf(els, risk))
           key == [risk \in found |-> <<-size(risk), risk>>]
           largest == InOrder(found, key)
           N == Cardinality(found)
           n == 2
           three == 3
<1>1. CASE q.asked # <<>>
  <2>1. SetCodes(els, q.asked) = q.asked
    BY <1>1 DEF SetCodes
  <2> DEFINE T == {q.asked[i] : i \in DOMAIN q.asked}
  <2>2. q.asked \in Seq(T)
    BY DEF SetQuery
  <2> HIDE DEF T
  <2>3. q.asked \in [1..Len(q.asked) -> T] /\ Len(q.asked) \in Nat
    BY <2>2
  <2> QED
    BY <2>1, <2>3
<1>2. CASE q.asked = <<>>
  <2>1. SetCodes(els, q.asked) = FirstOf(largest, three)
    BY <1>2 DEF SetCodes
  <2>2. PICK ids, M : ElementsOf(q, ids, M)
    BY ElementsAre
  <2>3. /\ M \in Nat /\ DOMAIN els = 1..M
        /\ \A m \in 1..M : els[m].risks \subseteq Nat /\ IsFiniteSet(els[m].risks)
    <3>1. M \in Nat /\ DOMAIN els = 1..M
      BY <2>2 DEF ElementsOf
    <3>2. \A m \in 1..M : els[m].risks \subseteq Nat
      BY <2>2, KeysOfHosts
    <3>3. \A m \in 1..M : IsFiniteSet(els[m].risks)
      BY <2>2, KeysOfHosts
    <3> QED
      BY <3>1, <3>2, <3>3
  <2>4. IsFiniteSet(found) /\ found \subseteq Nat
    <3> DEFINE risks == [m \in 1..M |-> els[m].risks]
               sets == {risks[m] : m \in 1..M}
    <3> HIDE DEF els
    <3>1. found = UNION sets /\ \A s \in sets : IsFiniteSet(s) /\ s \subseteq Nat
      BY <2>3
    <3>2. IsFiniteSet(1..M)
      BY <2>3, FS_Interval
    <3>3. IsFiniteSet(sets)
      <4> HIDE DEF risks
      <4> QED
        BY <3>2, ImageFinite
    <3> HIDE DEF sets, found
    <3>4. IsFiniteSet(UNION sets)
      BY <3>1, <3>3, FS_UNION
    <3> QED
      BY <3>1, <3>4
  <2>5. \A risk \in found : size(risk) \in Nat
    BY SetsFinite
  <2>6. /\ n \in Nat
        /\ \A risk \in found : key[risk] \in Keys(n) /\ key[risk][2] = risk
    <3> HIDE DEF size, found
    <3> QED
      BY <2>4, <2>5 DEF Keys
  <2>7. \A x, y \in found : key[x] = key[y] => x = y
    <3> HIDE DEF key, found
    <3> QED
      BY <2>6
  <2>8. N \in Nat
    BY <2>4, FS_CardinalityType
  <2>9. largest \in Bijection(1..N, found)
    <3> HIDE DEF key, found, N, n
    <3> QED
      BY <2>4, <2>6, <2>7, InOrderSorts DEF N
  <2>10. largest \in [1..N -> found] /\ three \in Nat
    BY <2>9 DEF Bijection, Injection
  <2> HIDE DEF largest, found, N, three
  <2>11. FirstOf(largest, three) \in [1..(IF three < N THEN three ELSE N) -> found]
    BY <2>8, <2>10, FirstOfSeq
  <2>12. (IF three < N THEN three ELSE N) \in Nat
    BY <2>8, <2>10
  <2> QED
    BY <2>1, <2>11, <2>12
<1> QED
  BY <1>1, <1>2

\* The keys of the operation asked for, in order.
OperationKeys(q) == Operations(Elements(q), SetCodes(Elements(q), q.asked))[q.operation]
Ordered(q) == InOrder(OperationKeys(q), [key \in OperationKeys(q) |-> <<key>>])

LEMMA OperationsFinite ==
    ASSUME NEW q, SetQuery(q)
    PROVE  /\ OperationKeys(q) \subseteq Universe(Elements(q))
           /\ IsFiniteSet(OperationKeys(q)) /\ Cardinality(OperationKeys(q)) \in Nat
           /\ Ordered(q) \in Bijection(1..Cardinality(OperationKeys(q)), OperationKeys(q))
<1> DEFINE els == Elements(q)
           codes == SetCodes(els, q.asked)
           ops == Operations(els, codes)
<1>1. \A risk : SetOf(els, risk) \subseteq Universe(els)
  BY SetsFinite
<1>2. IsFiniteSet(Universe(els)) /\ Universe(els) \subseteq Int
  BY SetsFinite
<1>3. OperationKeys(q) \subseteq Universe(els)
  <2> HIDE DEF els, codes
  <2>1. /\ ops["union"] \subseteq Universe(els) /\ ops["complement"] \subseteq Universe(els)
        /\ ops["intersection"] \subseteq Universe(els)
        /\ ops["difference"] \subseteq Universe(els)
    BY <1>1 DEF Operations
  <2>2. OperationKeys(q) = ops[q.operation]
    BY DEF OperationKeys, els, codes
  <2>3. q.operation \in {"union", "intersection", "difference", "complement"}
    BY DEF SetQuery
  <2> HIDE DEF ops
  <2> QED
    BY <2>1, <2>2, <2>3
<1> HIDE DEF els
<1>4. IsFiniteSet(OperationKeys(q))
  BY <1>2, <1>3, FS_Subset
<1>5. OperationKeys(q) \in SUBSET Int
  BY <1>2, <1>3
<1>6. Ordered(q) \in Bijection(1..Cardinality(OperationKeys(q)), OperationKeys(q))
  <2> DEFINE S == OperationKeys(q)
             key == [x \in S |-> <<x>>]
  <2>1. Ordered(q) = InOrder(S, key)
    BY DEF Ordered
  <2>2. key = [i \in S |-> <<i>>]
    OBVIOUS
  <2> HIDE DEF S, key
  <2>3. InOrder(S, key) \in Bijection(1..Cardinality(S), S)
    BY <1>4, <1>5, <2>2, PlacesSort DEF S
  <2> QED
    BY <2>1, <2>3 DEF S
<1> QED
  BY <1>3, <1>4, <1>6, FS_CardinalityType DEF els

-----------------------------------------------------------------------------
(* Pages.                                                                  *)

LEMMA PagesCover ==
    ASSUME NEW N \in Nat, NEW size \in Nat \ {0}
    PROVE  /\ TotalPages(N, size) \in Nat
           /\ N <= TotalPages(N, size) * size /\ TotalPages(N, size) * size < N + size
<1> DEFINE a == N + size - 1
<1>1. a \in Nat
  OBVIOUS
<1> HIDE DEF a
<1>2. a \div size \in Nat /\ size * (a \div size) <= a /\ a < size * (a \div size) + size
  BY <1>1
<1> DEFINE t == a \div size
<1>3. TotalPages(N, size) = t
  BY DEF TotalPages, a
<1> HIDE DEF t
<1>4. t \in Nat /\ size * t <= a /\ a < size * t + size
  BY <1>2 DEF t
<1>5. size * t \in Nat /\ size * t = t * size
  BY <1>4
<1>6. t * size <= N + size - 1 /\ N + size - 1 < t * size + size
  BY <1>4, <1>5 DEF a
<1>7. t * size \in Nat
  BY <1>5
<1> QED
  BY <1>3, <1>4, <1>6, <1>7

\* How many a page shows.
OnPage(N, page, size) == IF page * size <= N THEN size ELSE N - (page - 1) * size

\* The part of a sequence a page shows.
PagePart(N, s, page, size) == [k \in 1..OnPage(N, page, size) |-> s[(page - 1) * size + k]]

\* A page within the book shows its part of the whole.
LEMMA PageShows ==
    ASSUME NEW N \in Nat, NEW T, NEW s \in [1..N -> T], NEW size \in Nat \ {0},
           NEW page \in 1..TotalPages(N, size)
    PROVE  /\ OnPage(N, page, size) \in 1..size
           /\ (page - 1) * size + OnPage(N, page, size) <= N
           /\ (page - 1) * size \in Nat
           /\ PageOf(s, page, size) = PagePart(N, s, page, size)
           /\ page < TotalPages(N, size) => OnPage(N, page, size) = size
           /\ page = TotalPages(N, size) => (page - 1) * size + OnPage(N, page, size) = N
<1> DEFINE t == TotalPages(N, size)
           before == (page - 1) * size
           m == OnPage(N, page, size)
<1>1. t \in Nat /\ t * size \in Nat /\ N <= t * size /\ t * size < N + size
  <2>1. t \in Nat /\ N <= t * size /\ t * size < N + size
    BY PagesCover
  <2> HIDE DEF t
  <2> QED
    BY <2>1
<1>2. page \in Nat /\ page >= 1 /\ page <= t
  BY <1>1
<1>3. before \in Nat /\ page * size = before + size
  BY <1>2
<1> HIDE DEF t, before
<1>4. page < t => before + size + size <= t * size
  <2> SUFFICES ASSUME page < t
               PROVE  before + size + size <= t * size
    OBVIOUS
  <2>1. (page + 1) * size <= t * size
    BY <1>1, <1>2
  <2>2. (page + 1) * size = page * size + size
    BY <1>2
  <2> QED
    BY <1>3, <2>1, <2>2
<1>5. page = t => t * size = before + size
  BY <1>3
<1>6. before < N
  BY <1>1, <1>2, <1>3, <1>4, <1>5
<1>7. m = IF before + size <= N THEN size ELSE N - before
  BY <1>3 DEF OnPage, before
<1> HIDE DEF m
<1>8. m \in 1..size /\ before + m <= N
  BY <1>3, <1>6, <1>7
<1>9. page < t => m = size
  BY <1>1, <1>2, <1>3, <1>4, <1>7
<1>10. page = t => before + m = N
  BY <1>1, <1>3, <1>5, <1>7
<1>11. s \in Seq(T) /\ Len(s) = N
  BY IsASeq
<1>12. PageOf(s, page, size) = SubSeq(s, before + 1, before + m)
  <2> DEFINE start == Min({before, N})
             end == Min({before + size, N})
  <2>1. start = before
    <3>1. {before, N} \in SUBSET Nat /\ {before, N} # {}
      BY <1>3
    <3>2. start \in {before, N} /\ \A x \in {before, N} : start =< x
      BY <3>1, SmallestNumber
    <3> QED
      BY <1>3, <1>6, <3>2
  <2>2. end = before + m
    <3>1. {before + size, N} \in SUBSET Nat /\ {before + size, N} # {}
      BY <1>3
    <3>2. end \in {before + size, N} /\ \A x \in {before + size, N} : end =< x
      BY <3>1, SmallestNumber
    <3> QED
      BY <1>3, <1>7, <3>2
  <2>3. PageOf(s, page, size) = SubSeq(s, start + 1, Min({start + size, N}))
    <3>1. ~ (page > t)
      BY <1>1, <1>2
    <3> QED
      BY <1>11, <3>1 DEF PageOf, t, before
  <2> QED
    BY <2>1, <2>2, <2>3
<1>13. SubSeq(s, before + 1, before + m) = [k \in 1..m |-> s[before + k]]
  <2>1. before + 1 \in 1..N + 1 /\ before + m \in Nat
    BY <1>3, <1>6, <1>8
  <2>2. SubSeq(s, before + 1, before + m)
            = [k \in 1..((before + m) - (before + 1) + 1) |-> s[k + (before + 1) - 1]]
    BY <1>3, <1>8, <1>11, <2>1
  <2>3. (before + m) - (before + 1) + 1 = m /\ \A k \in 1..m : k + (before + 1) - 1 = before + k
    BY <1>3, <1>8
  <2> QED
    BY <2>2, <2>3
<1> QED
  BY <1>3, <1>8, <1>9, <1>10, <1>12, <1>13 DEF t, before, m, PagePart

\* A page beyond the end is the last one.
LEMMA PagesEnd ==
    ASSUME NEW N \in Nat, NEW T, NEW s \in [1..N -> T], NEW size \in Nat \ {0},
           NEW page \in Nat, page > TotalPages(N, size), TotalPages(N, size) > 0
    PROVE  PageOf(s, page, size) = PageOf(s, TotalPages(N, size), size)
<1>1. TotalPages(N, size) \in Nat /\ Len(s) = N
  BY PagesCover, IsASeq
<1>2. ~ (TotalPages(N, size) > TotalPages(N, size))
  BY <1>1
<1> QED
  BY <1>1, <1>2 DEF PageOf

\* Every place is on one page.
LEMMA PageOfPlace ==
    ASSUME NEW N \in Nat, NEW size \in Nat \ {0}, NEW i \in 1..N
    PROVE  \E page \in 1..TotalPages(N, size) : \E k \in 1..OnPage(N, page, size) :
                i = (page - 1) * size + k
<1> DEFINE t == TotalPages(N, size)
           a == i - 1
           b == a \div size
<1>1. a \in Nat
  OBVIOUS
<1> HIDE DEF a
<1>2. b \in Nat /\ size * b <= a /\ a < size * b + size
  BY <1>1
<1>3. t \in Nat /\ t * size \in Nat /\ N <= t * size /\ t * size < N + size
  <2>1. t \in Nat /\ N <= t * size /\ t * size < N + size
    BY PagesCover
  <2> HIDE DEF t
  <2> QED
    BY <2>1
<1> HIDE DEF b, t
<1>4. b * size \in Nat /\ b * size <= i - 1 /\ i - 1 < b * size + size
  BY <1>2 DEF a
<1>5. b < t
  <2> SUFFICES ASSUME t <= b
               PROVE  FALSE
    BY <1>2, <1>3
  <2>1. t * size <= b * size
    BY <1>2, <1>3
  <2> QED
    BY <1>3, <1>4, <2>1
<1> DEFINE page == b + 1
           k == i - b * size
<1>6. page \in 1..t /\ (page - 1) * size = b * size /\ page * size = b * size + size
  BY <1>2, <1>3, <1>5
<1> HIDE DEF page
<1>7. k \in 1..OnPage(N, page, size)
  BY <1>4, <1>6 DEF OnPage
<1>8. i = (page - 1) * size + k
  BY <1>4, <1>6
<1> QED
  BY <1>6, <1>7, <1>8 DEF t

\* Places on pages are the same only at the same place of the same page.
LEMMA PlacesOnPages ==
    ASSUME NEW size \in Nat \ {0}, NEW m \in Nat, NEW n \in Nat,
           NEW k \in 1..size, NEW l \in 1..size, m * size + k = n * size + l
    PROVE  m = n /\ k = l
<1>1. m * size \in Nat /\ n * size \in Nat
  OBVIOUS
<1>2. ~ (m < n)
  <2> SUFFICES ASSUME m < n
               PROVE  FALSE
    OBVIOUS
  <2>1. (m + 1) * size <= n * size /\ (m + 1) * size = m * size + size
    OBVIOUS
  <2> QED
    BY <1>1, <2>1
<1>3. ~ (n < m)
  <2> SUFFICES ASSUME n < m
               PROVE  FALSE
    OBVIOUS
  <2>1. (n + 1) * size <= m * size /\ (n + 1) * size = n * size + size
    OBVIOUS
  <2> QED
    BY <1>1, <2>1
<1>4. m = n
  BY <1>2, <1>3
<1> QED
  BY <1>1, <1>4

-----------------------------------------------------------------------------
(* The three properties of a set analysis.                                 *)

LEMMA AnalysisIs ==
    ASSUME NEW q, SetQuery(q)
    PROVE  LET els == Elements(q)
               codes == SetCodes(els, q.asked)
           IN /\ BuildSetAnalysis(q).operations = Operations(els, codes)
              /\ BuildSetAnalysis(q).codes = codes
              /\ BuildSetAnalysis(q).total = Cardinality(OperationKeys(q))
              /\ BuildSetAnalysis(q).rows = Rows(els, PageOf(Ordered(q), q.page, q.size))
<1>1. Len(Ordered(q)) = Cardinality(OperationKeys(q))
  <2>1. Ordered(q) \in [1..Cardinality(OperationKeys(q)) -> OperationKeys(q)]
    BY OperationsFinite DEF Bijection, Injection
  <2> QED
    BY <2>1, OperationsFinite, IsASeq
<1> QED
  BY <1>1 DEF BuildSetAnalysis, Analysis, Ordered, OperationKeys

\* What OperationsAccount says of an analysis.
OperationsRight(q, analysis) ==
    LET ops == analysis.operations
        seen == ToSet(Selected(q.results, q.job))
        shows(i) == {KeyOf(q.results, q.hosts, j) :
                        j \in {l \in seen : analysis.codes[i] \in q.results[l].risks}}
        all == {KeyOf(q.results, q.hosts, j) : j \in seen}
        chosen == DOMAIN analysis.codes
    IN /\ ops.union = UNION {shows(i) : i \in chosen}
       /\ ops.complement = all \ ops.union
       /\ \A key \in all : key \in ops.intersection
                <=> chosen # {} /\ \A i \in chosen : key \in shows(i)
       /\ Len(analysis.codes) = 2 => ops.difference = shows(1) \ shows(2)
       /\ Len(analysis.codes) < 2 => ops.difference = {}

LEMMA OperationsAre ==
    ASSUME NEW q, SetQuery(q)
    PROVE  OperationsRight(q, BuildSetAnalysis(q))
<1> DEFINE els == Elements(q)
           codes == SetCodes(els, q.asked)
           ops == Operations(els, codes)
           seen == ToSet(Selected(q.results, q.job))
           shows(i) == {KeyOf(q.results, q.hosts, j) :
                           j \in {l \in seen : codes[i] \in q.results[l].risks}}
           all == {KeyOf(q.results, q.hosts, j) : j \in seen}
           chosen == DOMAIN codes
<1>1. PICK ids, N : ElementsOf(q, ids, N)
  BY ElementsAre
<1>2. seen = {ids[n] : n \in 1..N}
  BY <1>1 DEF ElementsOf, ToSet
<1>3. all = Universe(els)
  BY <1>1, <1>2 DEF ElementsOf, Universe
<1>4. \A risk : SetOf(els, risk) = {KeyOf(q.results, q.hosts, j) :
                                     j \in {l \in seen : risk \in q.results[l].risks}}
  <2> SUFFICES ASSUME NEW risk
               PROVE  SetOf(els, risk) = {KeyOf(q.results, q.hosts, j) :
                                             j \in {l \in seen : risk \in q.results[l].risks}}
    OBVIOUS
  <2>1. DOMAIN els = 1..N
    BY <1>1 DEF ElementsOf
  <2>2. \A n \in 1..N : /\ els[n].key = KeyOf(q.results, q.hosts, ids[n])
                        /\ els[n].risks = q.results[ids[n]].risks
    BY <1>1 DEF ElementsOf
  <2> HIDE DEF els, seen
  <2> QED
    BY <1>2, <2>1, <2>2 DEF SetOf
<1>5. \A i : shows(i) = SetOf(els, codes[i])
  BY <1>4
<1>6. PICK C \in Nat : \E T : codes \in [1..C -> T]
  BY CodesAre
<1>7. chosen = 1..C /\ Len(codes) = C
  BY <1>6, IsASeq
<1> HIDE DEF els, codes, all, seen, shows, chosen
<1>8. ops.union = UNION {shows(i) : i \in chosen}
  <2>1. ops.union = {key \in Universe(els) : \E i \in DOMAIN codes : key \in SetOf(els, codes[i])}
    BY DEF Operations
  <2>2. \A i : SetOf(els, codes[i]) \subseteq Universe(els)
    BY SetsFinite DEF els
  <2> QED
    BY <1>5, <2>1, <2>2 DEF chosen
<1>9. ops.complement = all \ ops.union
  BY <1>3 DEF Operations
<1>10. \A key \in all : key \in ops.intersection
                       <=> chosen # {} /\ \A i \in chosen : key \in shows(i)
  <2>1. CASE codes = <<>>
    <3>1. chosen = {} /\ ops.intersection = {}
      BY <2>1 DEF Operations, chosen
    <3> QED
      BY <3>1
  <2>2. CASE codes # <<>>
    <3>1. ops.intersection = {key \in Universe(els) : \A i \in DOMAIN codes :
                                                            key \in SetOf(els, codes[i])}
      BY <2>2 DEF Operations
    <3>2. chosen # {}
      BY <1>6, <1>7, <2>2
    <3> QED
      BY <1>3, <1>5, <3>1, <3>2 DEF chosen
  <2> QED
    BY <2>1, <2>2
<1>11. Len(codes) = 2 => ops.difference = shows(1) \ shows(2)
  <2> SUFFICES ASSUME Len(codes) = 2
               PROVE  ops.difference = shows(1) \ shows(2)
    OBVIOUS
  <2>1. DOMAIN codes = {1, 2}
    BY <1>7 DEF chosen
  <2>2. ops.difference = SetOf(els, codes[1])
                            \ {key \in Universe(els) : \A i \in DOMAIN codes :
                                                            key \in SetOf(els, codes[i])}
    BY DEF Operations
  <2>3. SetOf(els, codes[1]) \subseteq Universe(els)
    BY SetsFinite DEF els
  <2>4. shows(1) = SetOf(els, codes[1]) /\ shows(2) = SetOf(els, codes[2])
    BY <1>5
  <2> QED
    BY <2>1, <2>2, <2>3, <2>4
<1>12. Len(codes) < 2 => ops.difference = {}
  BY <1>7 DEF Operations
<1>13. BuildSetAnalysis(q).operations = ops /\ BuildSetAnalysis(q).codes = codes
  BY AnalysisIs DEF els, codes
<1> HIDE DEF ops
<1> QED
  BY <1>8, <1>9, <1>10, <1>11, <1>12, <1>13
     DEF OperationsRight, els, codes, all, seen, shows, chosen

\* Another page of the same analysis.
AtPage(q, n) == [q EXCEPT !.page = n]

LEMMA OtherPage ==
    ASSUME NEW q, SetQuery(q), NEW n \in Nat \ {0}
    PROVE  BuildSetAnalysis(AtPage(q, n)).rows = Rows(Elements(q), PageOf(Ordered(q), n, q.size))
<1> DEFINE r == AtPage(q, n)
<1>1. /\ r.results = q.results /\ r.hosts = q.hosts /\ r.job = q.job /\ r.asked = q.asked
      /\ r.operation = q.operation /\ r.page = n /\ r.size = q.size
      /\ DOMAIN r = DOMAIN q
  BY DEF SetQuery, AtPage
<1> HIDE DEF r
<1>2. SetQuery(r)
  BY <1>1 DEF SetQuery
<1>3. Elements(r) = Elements(q)
  BY <1>1 DEF Elements
<1>4. Ordered(r) = Ordered(q)
  BY <1>1, <1>3 DEF Ordered, OperationKeys
<1>5. BuildSetAnalysis(r).rows = Rows(Elements(r), PageOf(Ordered(r), r.page, r.size))
  BY <1>2, AnalysisIs
<1> QED
  BY <1>1, <1>3, <1>4, <1>5 DEF r

\* The rows of a page within the book.
LEMMA PageRows ==
    ASSUME NEW q, SetQuery(q),
           NEW n \in 1..TotalPages(Cardinality(OperationKeys(q)), q.size)
    PROVE  LET N == Cardinality(OperationKeys(q))
               rows == BuildSetAnalysis(AtPage(q, n)).rows
           IN /\ DOMAIN rows = 1..OnPage(N, n, q.size) /\ Len(rows) = OnPage(N, n, q.size)
              /\ \A k \in 1..OnPage(N, n, q.size) : rows[k].key = Ordered(q)[(n - 1) * q.size + k]
<1> DEFINE N == Cardinality(OperationKeys(q))
           s == Ordered(q)
           size == q.size
           m == OnPage(N, n, size)
           shown == PageOf(s, n, size)
           rows == BuildSetAnalysis(AtPage(q, n)).rows
<1>1. N \in Nat /\ size \in Nat \ {0} /\ s \in [1..N -> OperationKeys(q)]
  BY OperationsFinite DEF SetQuery, Bijection, Injection
<1>2. n \in 1..TotalPages(N, size) /\ n \in Nat \ {0}
  BY <1>1, PagesCover
<1>3. rows = Rows(Elements(q), shown)
  BY <1>2, OtherPage
<1> HIDE DEF N, s, size
<1>4. m \in 1..size
  BY <1>1, <1>2, PageShows
<1>5. shown = [k \in 1..m |-> s[(n - 1) * size + k]]
  <2>1. PageOf(s, n, size) = PagePart(N, s, n, size)
    BY <1>1, <1>2, PageShows
  <2> QED
    BY <2>1 DEF PagePart
<1> HIDE DEF m, shown, rows
<1>6. rows = [k \in 1..m |-> [key |-> shown[k], result |-> RowOf(Elements(q), shown[k])]]
  BY <1>3, <1>5 DEF Rows
<1>7. Len(rows) = m
  BY <1>4, <1>6
<1> QED
  <2>1. DOMAIN rows = 1..m /\ \A k \in 1..m : rows[k].key = s[(n - 1) * size + k]
    BY <1>5, <1>6
  <2> QED
    BY <1>7, <2>1 DEF N, s, size, m, rows

LEMMA PagesTurn ==
    ASSUME NEW q, SetQuery(q)
    PROVE  LET pages == TotalPages(BuildSetAnalysis(q).total, q.size)
               page(n) == BuildSetAnalysis(AtPage(q, n)).rows
               shown == UNION {{<<n, k>> : k \in DOMAIN page(n)} : n \in 1..pages}
               key(at) == page(at[1])[at[2]].key
           IN /\ {key(at) : at \in shown} = OperationKeys(q)
              /\ \A at, other \in shown : key(at) = key(other) => at = other
              /\ q.page > pages /\ pages > 0 => BuildSetAnalysis(q).rows = page(pages)
              /\ \A n \in 1..(pages - 1) : Len(page(n)) = q.size
<1> DEFINE N == Cardinality(OperationKeys(q))
           s == Ordered(q)
           size == q.size
           pages == TotalPages(N, size)
           page(n) == BuildSetAnalysis(AtPage(q, n)).rows
           shown == UNION {{<<n, k>> : k \in DOMAIN page(n)} : n \in 1..pages}
           key(at) == page(at[1])[at[2]].key
           m(n) == OnPage(N, n, size)
<1>1. N \in Nat /\ size \in Nat \ {0}
  BY OperationsFinite DEF SetQuery
<1>2. /\ s \in [1..N -> OperationKeys(q)] /\ IsInjective(s)
      /\ \A x \in OperationKeys(q) : \E i \in 1..N : s[i] = x
  BY OperationsFinite DEF Bijection, Injection, Surjection
<1>3. \A n \in 1..pages : /\ DOMAIN page(n) = 1..m(n) /\ Len(page(n)) = m(n)
                          /\ \A k \in 1..m(n) : page(n)[k].key = s[(n - 1) * size + k]
  BY PageRows
<1>4. pages \in Nat
  BY <1>1, PagesCover
<1>5. \A n \in 1..pages : m(n) \in 1..size /\ (n - 1) * size + m(n) <= N
                          /\ (n - 1) * size \in Nat /\ (n < pages => m(n) = size)
  <2> SUFFICES ASSUME NEW n \in 1..pages
               PROVE  m(n) \in 1..size /\ (n - 1) * size + m(n) <= N
                      /\ (n - 1) * size \in Nat /\ (n < pages => m(n) = size)
    OBVIOUS
  <2> HIDE DEF N, s, size
  <2> QED
    BY <1>1, <1>2, PageShows
<1> HIDE DEF N, s, size
<1>6. \A i \in 1..N : \E n \in 1..pages : \E k \in 1..m(n) : i = (n - 1) * size + k
  BY <1>1, PageOfPlace
<1>7. BuildSetAnalysis(q).total = N
  BY AnalysisIs DEF N
<1> HIDE DEF pages, m
<1>8. /\ shown = {at \in (1..pages) \X (1..size) : at[2] <= m(at[1])}
      /\ \A at \in shown : key(at) = s[(at[1] - 1) * size + at[2]]
                        /\ (at[1] - 1) * size + at[2] \in 1..N
  <2> HIDE DEF page
  <2>1. \A at \in shown : /\ at \in (1..pages) \X (1..size) /\ at[2] <= m(at[1])
                         /\ at[1] \in 1..pages /\ at[2] \in 1..m(at[1])
    BY <1>1, <1>3, <1>4, <1>5
  <2>2. \A at \in (1..pages) \X (1..size) : at[2] <= m(at[1]) => at \in shown
    <3> SUFFICES ASSUME NEW n \in 1..pages, NEW k \in 1..size, k <= m(n)
                 PROVE  <<n, k>> \in shown
      OBVIOUS
    <3>1. k \in DOMAIN page(n)
      BY <1>3, <1>5
    <3> QED
      BY <3>1
  <2>3. \A at \in shown : key(at) = s[(at[1] - 1) * size + at[2]]
    BY <1>3, <2>1
  <2>4. \A n \in 1..pages : \A k \in 1..m(n) : (n - 1) * size + k \in 1..N
    <3> SUFFICES ASSUME NEW n \in 1..pages, NEW k \in 1..m(n)
                 PROVE  (n - 1) * size + k \in 1..N
      OBVIOUS
    <3> DEFINE b == (n - 1) * size
    <3>1. b \in Nat /\ m(n) \in 1..size /\ b + m(n) <= N
      BY <1>5
    <3> HIDE DEF b
    <3>2. b + k \in 1..N
      BY <1>1, <3>1
    <3> QED
      BY <3>2 DEF b
  <2> HIDE DEF shown, key
  <2> QED
    BY <2>1, <2>2, <2>3, <2>4
<1> HIDE DEF shown, key, page
<1>9. {key(at) : at \in shown} = OperationKeys(q)
  <2>1. \A at \in shown : key(at) \in OperationKeys(q)
    BY <1>2, <1>8
  <2>2. \A x \in OperationKeys(q) : \E at \in shown : key(at) = x
    <3> SUFFICES ASSUME NEW x \in OperationKeys(q)
                 PROVE  \E at \in shown : key(at) = x
      OBVIOUS
    <3>1. PICK i \in 1..N : s[i] = x
      BY <1>2
    <3>2. PICK n \in 1..pages : \E k \in 1..m(n) : i = (n - 1) * size + k
      BY <1>6
    <3>5. PICK k \in 1..m(n) : i = (n - 1) * size + k
      BY <3>2
    <3>3. <<n, k>> \in shown
      BY <1>1, <1>5, <1>8
    <3>4. key(<<n, k>>) = s[(n - 1) * size + k]
      BY <1>8, <3>3
    <3> QED
      BY <3>1, <3>3, <3>4, <3>5
  <2> QED
    BY <2>1, <2>2
<1>10. \A at, other \in shown : key(at) = key(other) => at = other
  <2> SUFFICES ASSUME NEW at \in shown, NEW other \in shown, key(at) = key(other)
               PROVE  at = other
    OBVIOUS
  <2>1. /\ at \in (1..pages) \X (1..size) /\ other \in (1..pages) \X (1..size)
        /\ at = <<at[1], at[2]>> /\ other = <<other[1], other[2]>>
    BY <1>8
  <2>2. (at[1] - 1) * size + at[2] = (other[1] - 1) * size + other[2]
    BY <1>2, <1>8 DEF IsInjective
  <2>3. at[1] - 1 = other[1] - 1 /\ at[2] = other[2]
    <3>1. /\ at[1] - 1 \in Nat /\ other[1] - 1 \in Nat
          /\ at[2] \in 1..size /\ other[2] \in 1..size
      BY <1>4, <2>1
    <3> DEFINE u == at[1] - 1
               v == other[1] - 1
               k == at[2]
               l == other[2]
    <3>2. u * size + k = v * size + l
      BY <2>2
    <3> HIDE DEF u, v, k, l
    <3>3. u \in Nat /\ v \in Nat /\ k \in 1..size /\ l \in 1..size
      BY <3>1 DEF u, v, k, l
    <3>4. u = v /\ k = l
      BY <1>1, <3>2, <3>3, PlacesOnPages
    <3> QED
      BY <3>4 DEF u, v, k, l
  <2>4. at[1] = other[1]
    BY <2>1, <2>3, <1>4
  <2> QED
    BY <2>1, <2>3, <2>4
<1>11. q.page > pages /\ pages > 0 => BuildSetAnalysis(q).rows = page(pages)
  <2> SUFFICES ASSUME q.page > pages, pages > 0
               PROVE  BuildSetAnalysis(q).rows = page(pages)
    OBVIOUS
  <2>1. PageOf(s, q.page, size) = PageOf(s, pages, size)
    <3>1. q.page \in Nat /\ q.page > TotalPages(N, size) /\ TotalPages(N, size) > 0
      BY DEF pages, SetQuery
    <3> QED
      BY <1>1, <1>2, <3>1, PagesEnd DEF pages
  <2>2. BuildSetAnalysis(q).rows = Rows(Elements(q), PageOf(s, q.page, size))
    BY AnalysisIs DEF s, size
  <2>3. page(pages) = Rows(Elements(q), PageOf(s, pages, size))
    BY <1>4, OtherPage DEF page, s, size
  <2> QED
    BY <2>1, <2>2, <2>3
<1>12. \A n \in 1..(pages - 1) : Len(page(n)) = size
  BY <1>3, <1>4, <1>5
<1> QED
  BY <1>7, <1>9, <1>10, <1>11, <1>12 DEF N, s, size, pages, page, shown, key

\* With the results of one job the row of a host in the union shows what it is
\* in the union for.
LEMMA RowInUnion ==
    ASSUME NEW q, SetQuery(q), q.job # 0, q.operation = "union",
           NEW n \in DOMAIN BuildSetAnalysis(q).rows
    PROVE  q.results[BuildSetAnalysis(q).rows[n].result].risks
                \cap ToSet(BuildSetAnalysis(q).codes) # {}
<1> DEFINE els == Elements(q)
           codes == SetCodes(els, q.asked)
           s == Ordered(q)
           N == Cardinality(OperationKeys(q))
           size == q.size
           shown == PageOf(s, q.page, size)
           total == TotalPages(N, size)
           page == IF q.page > total /\ total > 0 THEN total ELSE q.page
           start == (page - 1) * size
           first == Min({start, N})
           last == Min({first + size, N})
<1>1. /\ BuildSetAnalysis(q).codes = codes
      /\ BuildSetAnalysis(q).rows = Rows(els, shown)
  BY AnalysisIs
<1>2. /\ N \in Nat /\ size \in Nat \ {0} /\ q.page \in Nat \ {0}
      /\ s \in [1..N -> OperationKeys(q)]
  BY OperationsFinite DEF SetQuery, Bijection, Injection
<1>3. s \in Seq(OperationKeys(q)) /\ Len(s) = N
  BY <1>2, IsASeq
<1> HIDE DEF s, N, size
<1>4. shown \in Seq(OperationKeys(q))
  <2>1. total \in Nat
    BY <1>2, PagesCover
  <2>2. page \in Nat \ {0}
    BY <1>2, <2>1
  <2> HIDE DEF page
  <2>3. start \in Nat
    BY <1>2, <2>2
  <2>4. shown = SubSeq(s, first + 1, last)
    BY <1>3 DEF PageOf, page
  <2> HIDE DEF start
  <2>5. first \in Nat
    <3>1. {start, N} \in SUBSET Nat /\ {start, N} # {}
      BY <1>2, <2>3
    <3>2. first \in {start, N}
      BY <3>1, SmallestNumber
    <3> QED
      BY <1>2, <2>3, <3>2
  <2> HIDE DEF first
  <2>6. last \in Nat /\ last <= N
    <3>1. {first + size, N} \in SUBSET Nat /\ {first + size, N} # {}
      BY <1>2, <2>5
    <3>2. last \in {first + size, N} /\ \A x \in {first + size, N} : last =< x
      BY <3>1, SmallestNumber
    <3> QED
      BY <1>2, <2>5, <3>2
  <2> HIDE DEF last
  <2>7. SubSeq(s, first + 1, last) \in Seq(OperationKeys(q))
    <3>1. first + 1 >= 1 /\ first + 1 \in Int /\ last \in Int /\ last <= Len(s)
      BY <1>3, <2>5, <2>6
    <3>2. \A i \in (first + 1)..last : s[i] \in OperationKeys(q)
      BY <1>2, <2>5, <2>6
    <3> QED
      BY <1>3, <3>1, <3>2, SubSeqProperties
  <2> QED
    BY <2>4, <2>7
<1> HIDE DEF shown
<1>5. n \in DOMAIN shown /\ BuildSetAnalysis(q).rows[n].result = RowOf(els, shown[n])
  BY <1>1 DEF Rows
<1> DEFINE key == shown[n]
<1>6. key \in OperationKeys(q)
  BY <1>4, <1>5
<1> HIDE DEF key
<1>7. OperationKeys(q) = {k \in Universe(els) :
                             \E i \in DOMAIN codes : k \in SetOf(els, codes[i])}
  BY DEF OperationKeys, Operations
<1>8. PICK i \in DOMAIN codes : key \in SetOf(els, codes[i])
  BY <1>6, <1>7
<1>9. PICK m \in DOMAIN els : els[m].key = key /\ codes[i] \in els[m].risks
  BY <1>8 DEF SetOf
<1>10. PICK ids, M : ElementsOf(q, ids, M)
  BY ElementsAre
<1>11. M \in Nat /\ DOMAIN els = 1..M
  BY <1>10 DEF ElementsOf
<1> DEFINE same == {l \in DOMAIN els : els[l].key = key}
           l == Min(same)
<1>12. l \in same
  <2>1. same \in SUBSET Nat /\ same # {}
    BY <1>9, <1>11
  <2> HIDE DEF same
  <2> QED
    BY <2>1, SmallestNumber
<1>13. RowOf(els, key) = els[l].result
  BY DEF RowOf
<1> HIDE DEF l
<1>14. l \in 1..M /\ m \in 1..M /\ els[l].key = els[m].key
  BY <1>9, <1>11, <1>12
<1>15. ids[l] = ids[m]
  BY <1>10, <1>14, KeysOfJob
<1>16. els[l].result = ids[l] /\ els[m].risks = q.results[ids[m]].risks
  BY <1>10, <1>14 DEF ElementsOf
<1>17. codes[i] \in ToSet(codes)
  BY DEF ToSet
<1>18. BuildSetAnalysis(q).rows[n].result = ids[m]
  BY <1>5, <1>13, <1>15, <1>16 DEF key
<1>19. codes[i] \in q.results[ids[m]].risks
  BY <1>9, <1>16
<1> HIDE DEF els, codes
<1> QED
  BY <1>1, <1>17, <1>18, <1>19

\* The operations of a set analysis are those on the sets of hosts that show a
\* risk, its pages show each host once, and the row of a host in the union of one
\* scan shows one of the risks: for every query and all results.
THEOREM SetsAlwaysAccount == Spec => []SetsAccount
<1>1. IInv => SetsAccount
  <2> SUFFICES ASSUME IInv, Is("sets")
               PROVE  SetsAccount
    BY DEF SetsAccount, OperationsAccount, PagesPartition, RowShowsItsRisk, Is
  <2> DEFINE q == given.query
  <2>1. SetQuery(q) /\ result = BuildSetAnalysis(q)
    BY RulesAssumption DEF IInv, Is
  <2>2. OperationsAccount
    <3>1. OperationsRight(q, result)
      BY <2>1, OperationsAre
    <3> QED
      BY <3>1 DEF OperationsRight, OperationsAccount
  <2>3. PagesPartition
    <3>1. result.operations[q.operation] = OperationKeys(q)
      BY <2>1, AnalysisIs DEF OperationKeys
    <3> QED
      BY <2>1, <3>1, PagesTurn DEF PagesPartition, AtPage
  <2>4. RowShowsItsRisk
    BY <2>1, RowInUnion DEF RowShowsItsRisk
  <2> QED
    BY <2>2, <2>3, <2>4 DEF SetsAccount
<1> QED
  BY <1>1, Computed, PTL

-----------------------------------------------------------------------------
(* What is kept of a sequence.                                             *)

\* at names the places of a set in their order.
Ascends(at, N, places) ==
    /\ N \in Nat /\ N = Cardinality(places)
    /\ at \in [1..N -> places]
    /\ \A i, j \in 1..N : i < j => at[i] < at[j]
    /\ \A p \in places : \E k \in 1..N : at[k] = p

KeptAt(s, places, at, N) ==
    Ascends(at, N, places) /\ Kept(s, places) = [k \in 1..N |-> s[at[k]]]

\* The places of a set in their order.
At(places) == InOrder(places, [i \in places |-> <<i>>])

LEMMA PlacesAscend ==
    ASSUME NEW M \in Nat, NEW places, places \subseteq 1..M
    PROVE  Ascends(At(places), Cardinality(places), places)
<1> DEFINE key == [i \in places |-> <<i>>]
           at == InOrder(places, key)
           N == Cardinality(places)
<1>1. IsFiniteSet(1..M) /\ places \in SUBSET (1..M) /\ places \in SUBSET Int
  BY FS_Interval
<1>2. IsFiniteSet(places) /\ N \in Nat
  <2>1. IsFiniteSet(places)
    BY <1>1, FS_Subset
  <2> QED
    BY <2>1, FS_CardinalityType
<1>3. /\ at \in Bijection(1..N, places)
      /\ \A i, j \in 1..N : i < j => Before(key[at[i]], key[at[j]])
  <2>1. key = [i \in places |-> <<i>>]
    OBVIOUS
  <2> HIDE DEF key
  <2>2. at \in Bijection(1..N, places)
    BY <1>1, <1>2, <2>1, PlacesSort
  <2>3. \A i, j \in 1..N : i < j => Before(key[at[i]], key[at[j]])
    BY <1>1, <1>2, <2>1, PlacesSort
  <2> QED
    BY <2>2, <2>3
<1>4. at \in [1..N -> places] /\ \A p \in places : \E k \in 1..N : at[k] = p
  <2> HIDE DEF at, N
  <2> QED
    BY <1>3 DEF Bijection, Injection, Surjection
<1>5. At(places) = at
  BY DEF At
<1> HIDE DEF at
<1>6. \A i, j \in 1..N : i < j => at[i] < at[j]
  <2> SUFFICES ASSUME NEW i \in 1..N, NEW j \in 1..N, i < j
               PROVE  at[i] < at[j]
    OBVIOUS
  <2>1. at[i] \in places /\ at[j] \in places /\ at[i] \in Int /\ at[j] \in Int
    BY <1>1, <1>4
  <2>2. Before(<<at[i]>>, <<at[j]>>)
    BY <1>3, <2>1
  <2>3. PICK p \in DOMAIN <<at[i]>> : <<at[i]>>[p] < <<at[j]>>[p]
    BY <2>2 DEF Before
  <2>4. p = 1
    BY <2>3
  <2> QED
    BY <2>3, <2>4
<1> QED
  BY <1>2, <1>4, <1>5, <1>6 DEF Ascends

\* What is kept at some of the places 1 to M.
LEMMA KeptIs ==
    ASSUME NEW M \in Nat, NEW places, places \subseteq 1..M, NEW s
    PROVE  KeptAt(s, places, At(places), Cardinality(places))
<1>1. Ascends(At(places), Cardinality(places), places)
  BY PlacesAscend
<1>2. DOMAIN At(places) = 1..Cardinality(places)
  BY <1>1 DEF Ascends
<1> QED
  BY <1>1, <1>2 DEF KeptAt, Kept, At

LEMMA KeptOf ==
    ASSUME NEW M \in Nat, NEW s, NEW places, places \subseteq 1..M
    PROVE  \E at, N : KeptAt(s, places, at, N)
BY KeptIs

LEMMA KeptLength ==
    ASSUME NEW s, NEW places, NEW at, NEW N, KeptAt(s, places, at, N)
    PROVE  DOMAIN Kept(s, places) = 1..N /\ Len(Kept(s, places)) = N /\ N \in Nat
BY DEF KeptAt, Ascends

\* A function that is one to one counts.
LEMMA CountsAgree ==
    ASSUME NEW S, IsFiniteSet(S), NEW T, NEW f,
           \A x \in S : f[x] \in T,
           \A y \in T : \E x \in S : f[x] = y,
           \A x, y \in S : f[x] = f[y] => x = y
    PROVE  IsFiniteSet(T) /\ Cardinality(T) = Cardinality(S)
<1> DEFINE g == [x \in S |-> f[x]]
<1>1. g \in Bijection(S, T)
  BY DEF Bijection, Injection, Surjection, IsInjective
<1>2. ExistsBijection(S, T)
  BY <1>1 DEF ExistsBijection
<1> QED
  BY <1>2, FS_Bijection

-----------------------------------------------------------------------------
(* Batch input.                                                            *)

\* Rows that hold the values of a sequence.
RowsOf(rows, values) ==
    /\ Len(values) \in Nat /\ DOMAIN values = 1..Len(values)
    /\ DOMAIN rows = 1..Len(values)
    /\ \A i \in 1..Len(values) : rows[i].value = values[i]

LEMMA ParsedRows ==
    ASSUME NEW values, NEW rows, RowsOf(rows, values), result = ParseBatchInput(rows)
    PROVE  Accounts(values)
<1> DEFINE M == Len(values)
           Name(i) == NormalizeBatchDomain(values[i])
           places == {i \in 1..M : ~ IsBlank(Name(i))}
           kept == NamedRows(rows)
           names == {Name(i) : i \in DOMAIN values}
           valid == {n \in names : IsValidBatchDomain(n)}
<1>1. /\ M \in Nat /\ DOMAIN values = 1..M /\ DOMAIN rows = 1..M
      /\ \A i \in 1..M : rows[i].value = values[i]
  BY DEF RowsOf
<1>2. kept = Kept(rows, places)
  <2>1. places = {i \in DOMAIN rows : ~ IsBlank(NormalizeBatchDomain(rows[i].value))}
    BY <1>1
  <2> QED
    BY <2>1 DEF NamedRows
<1>3. PICK at, N : Ascends(at, N, places) /\ kept = [k \in 1..N |-> rows[at[k]]]
  <2>1. places \subseteq 1..M
    OBVIOUS
  <2> HIDE DEF places
  <2>2. PICK at, N : KeptAt(rows, places, at, N)
    BY <1>1, <2>1, KeptOf
  <2> QED
    BY <1>2, <2>2 DEF KeptAt
<1> DEFINE target(k) == Name(at[k])
           records == [k \in 1..N |-> [line |-> kept[k].line,
                                       target |-> NormalizeBatchDomain(kept[k].value),
                                       status |-> Mark(kept, k)]]
           first == {k \in 1..N : records[k].status = "valid"}
<1>4. /\ N \in Nat /\ N = Cardinality(places) /\ \A k \in 1..N : at[k] \in places /\ at[k] \in 1..M
      /\ \A p \in places : \E k \in 1..N : at[k] = p
  BY <1>3 DEF Ascends
<1>5. DOMAIN kept = 1..N /\ \A k \in 1..N : NormalizeBatchDomain(kept[k].value) = target(k)
  BY <1>1, <1>3, <1>4
<1> HIDE DEF places, kept, Name
<1>6. \A k \in 1..N :
        records[k].status =
            IF ~ IsValidBatchDomain(target(k)) THEN "invalid"
            ELSE IF \E j \in 1..(k - 1) : target(j) = target(k) THEN "duplicate" ELSE "valid"
  <2> SUFFICES ASSUME NEW k \in 1..N
               PROVE  records[k].status =
                        IF ~ IsValidBatchDomain(target(k)) THEN "invalid"
                        ELSE IF \E j \in 1..(k - 1) : target(j) = target(k)
                             THEN "duplicate" ELSE "valid"
    OBVIOUS
  <2>1. records[k].status = Mark(kept, k)
    OBVIOUS
  <2>2. 1..(k - 1) \subseteq 1..N
    BY <1>4
  <2>3. \A j \in 1..(k - 1) : NormalizeBatchDomain(kept[j].value) = target(j)
    BY <1>5, <2>2
  <2>4. NormalizeBatchDomain(kept[k].value) = target(k)
    BY <1>5
  <2> HIDE DEF target, records
  <2> QED
    BY <2>1, <2>3, <2>4 DEF Mark
<1>7. \A k \in 1..N : records[k].target = target(k)
  BY <1>5
<1>8. Len(records) = N /\ DOMAIN records = 1..N
  BY <1>4
<1>9. \A k \in 1..N : target(k) \in names
  BY <1>1, <1>4
<1>10. \A n \in valid : \E k \in 1..N : target(k) = n
  <2> SUFFICES ASSUME NEW n \in valid
               PROVE  \E k \in 1..N : target(k) = n
    OBVIOUS
  <2>1. PICK i \in 1..M : Name(i) = n
    BY <1>1
  <2>2. ~ IsBlank(n)
    BY DomainsAssumption DEF IsBlank, IsValidBatchDomain
  <2>3. i \in places
    BY <2>1, <2>2 DEF places
  <2> QED
    BY <1>4, <2>1, <2>3
<1> DEFINE tgt == [k \in 1..N |-> target(k)]
<1>11. tgt = [k \in 1..N |-> target(k)]
  OBVIOUS
<1> HIDE DEF target, tgt, records, names
<1>12. /\ \A k \in first : tgt[k] \in valid
       /\ \A n \in valid : \E k \in first : tgt[k] = n
       /\ \A j, k \in first : tgt[j] = tgt[k] => j = k
  <2>1. \A k \in first : tgt[k] \in valid
    BY <1>6, <1>9, <1>11
  <2>2. \A n \in valid : \E k \in first : tgt[k] = n
    <3> SUFFICES ASSUME NEW n \in valid
                 PROVE  \E k \in first : tgt[k] = n
      OBVIOUS
    <3> DEFINE P == {k \in 1..N : tgt[k] = n}
    <3>1. P # {} /\ P \in SUBSET Nat
      BY <1>10, <1>11
    <3>2. PICK k \in P : \A j \in P : k =< j
      BY <3>1, LeastNumber
    <3>3. \A j \in 1..(k - 1) : tgt[j] # n /\ j \in 1..N
      BY <1>4, <3>2
    <3>4. records[k].status = "valid"
      BY <1>6, <1>11, <3>2, <3>3
    <3> QED
      BY <3>2, <3>4
  <2>3. \A j, k \in first : tgt[j] = tgt[k] => j = k
    <3> SUFFICES ASSUME NEW j \in first, NEW k \in first, j < k, tgt[j] = tgt[k]
                 PROVE  FALSE
      BY <1>4
    <3>1. j \in 1..(k - 1) /\ j \in 1..N /\ k \in 1..N
      BY <1>4
    <3>2. target(j) = target(k)
      BY <1>11, <3>1
    <3> QED
      BY <1>6, <3>1, <3>2
  <2> QED
    BY <2>1, <2>2, <2>3
<1>13. /\ IsFiniteSet(first) /\ IsFiniteSet(valid)
       /\ Cardinality(first) = Cardinality(valid) /\ Cardinality(valid) \in Nat
  <2> HIDE DEF valid
  <2>1. IsFiniteSet(1..N) /\ first \subseteq 1..N
    BY <1>4, FS_Interval
  <2>2. IsFiniteSet(first)
    BY <2>1, FS_Subset
  <2> HIDE DEF first
  <2>3. IsFiniteSet(valid) /\ Cardinality(valid) = Cardinality(first)
    BY <1>12, <2>2, CountsAgree
  <2> QED
    BY <2>2, <2>3, FS_CardinalityType
<1>14. {records[k].target : k \in first} = valid
  BY <1>7, <1>11, <1>12
<1>15. \A i, j \in 1..N : records[i].status = "valid" /\ records[j].status = "duplicate"
                            /\ records[i].target = records[j].target => i < j
  <2> SUFFICES ASSUME NEW i \in 1..N, NEW j \in 1..N, records[i].status = "valid",
                      records[j].status = "duplicate", target(i) = target(j)
               PROVE  i < j
    BY <1>7
  <2>1. \A k \in 1..(i - 1) : target(k) # target(i)
    BY <1>6
  <2>2. IsValidBatchDomain(target(j)) /\ \E k \in 1..(j - 1) : target(k) = target(j)
    BY <1>6
  <2>3. PICK k \in 1..(j - 1) : target(k) = target(j)
    BY <2>2
  <2>4. k \in Int /\ k >= 1 /\ k < j
    BY <1>4
  <2>5. ~ (k <= i - 1)
    BY <1>4, <2>1, <2>3, <2>4
  <2> QED
    BY <1>4, <2>4, <2>5
<1>16. result = IF rows = <<>> \/ Cardinality(first) = 0 \/ Cardinality(first) > MaxValidTarget
                THEN Nothing ELSE records
  <2>1. {i \in DOMAIN records : records[i].status = "valid"} = first
    BY <1>8
  <2>2. records = [i \in DOMAIN kept |-> [line |-> kept[i].line,
                                          target |-> NormalizeBatchDomain(kept[i].value),
                                          status |-> Mark(kept, i)]]
    BY <1>5 DEF records
  <2> QED
    BY <2>1, <2>2 DEF ParseBatchInput, kept
<1>17. valid = {} <=> Cardinality(first) = 0
  BY <1>13, FS_EmptySet
<1>18. rows = <<>> => valid = {}
  <2> SUFFICES ASSUME rows = <<>>, valid # {}
               PROVE  FALSE
    OBVIOUS
  <2>1. PICK k \in 1..N : TRUE
    BY <1>10
  <2> QED
    BY <1>1, <1>4, <2>1
<1>19. IF valid = {} \/ Cardinality(valid) > MaxValidTarget THEN result = Nothing
       ELSE /\ result # Nothing
            /\ {result[i].target : i \in {j \in DOMAIN result : result[j].status = "valid"}} = valid
            /\ Cardinality({j \in DOMAIN result : result[j].status = "valid"}) = Cardinality(valid)
            /\ Len(result) = Cardinality(places)
            /\ \A i, j \in DOMAIN result :
                    result[i].status = "valid" /\ result[j].status = "duplicate"
                        /\ result[i].target = result[j].target => i < j
  <2>1. CASE valid = {} \/ Cardinality(valid) > MaxValidTarget
    BY <1>13, <1>16, <1>17, <2>1
  <2>2. CASE ~ (valid = {} \/ Cardinality(valid) > MaxValidTarget)
    <3>1. result = records
      BY <1>13, <1>16, <1>17, <1>18, <2>2
    <3>2. result # Nothing
      <4>1. PICK k \in 1..N : TRUE
        BY <1>10, <2>2
      <4>2. N # 0
        BY <1>4, <4>1
      <4> QED
        BY <1>8, <3>1, <4>2 DEF Nothing
    <3>3. {j \in DOMAIN result : result[j].status = "valid"} = first
      BY <1>8, <3>1
    <3>4. {result[i].target : i \in {j \in DOMAIN result : result[j].status = "valid"}} = valid
      BY <1>14, <3>1, <3>3
    <3>5. Cardinality({j \in DOMAIN result : result[j].status = "valid"}) = Cardinality(valid)
      BY <1>13, <3>3
    <3>6. Len(result) = Cardinality(places)
      BY <1>4, <1>8, <3>1
    <3>7. \A i, j \in DOMAIN result :
                    result[i].status = "valid" /\ result[j].status = "duplicate"
                        /\ result[i].target = result[j].target => i < j
      BY <1>8, <1>15, <3>1
    <3> QED
      BY <2>2, <3>2, <3>4, <3>5, <3>6, <3>7
  <2> QED
    BY <2>1, <2>2
<1>20. places = {i \in DOMAIN values : ~ IsBlank(NormalizeBatchDomain(values[i]))}
  BY <1>1 DEF places, Name
<1> QED
  BY <1>19, <1>20 DEF Accounts, names, Name

\* The lines of a text that are read.
TextOf(lines) == Kept(lines, {i \in DOMAIN lines : lines[i] \notin {Empty, Comment}})

LEMMA RowsOfText ==
    ASSUME NEW M \in Nat, NEW lines, DOMAIN lines = 1..M
    PROVE  RowsOf(TextRows(lines), TextOf(lines))
<1> DEFINE places == {i \in DOMAIN lines : lines[i] \notin {Empty, Comment}}
           numbered == [i \in DOMAIN lines |-> [line |-> i, value |-> lines[i]]]
           at == At(places)
           N == Cardinality(places)
<1>1. places \subseteq 1..M
  OBVIOUS
<1>2. TextOf(lines) = Kept(lines, places) /\ TextRows(lines) = Kept(numbered, places)
  BY DEF TextOf, TextRows
<1> HIDE DEF places, at, N
<1>3. KeptAt(lines, places, at, N) /\ KeptAt(numbered, places, at, N)
  <2>1. KeptAt(lines, places, at, N)
    BY <1>1, KeptIs DEF at, N
  <2> HIDE DEF numbered
  <2>2. KeptAt(numbered, places, at, N)
    BY <1>1, KeptIs DEF at, N
  <2> QED
    BY <2>1, <2>2
<1>4. Len(TextOf(lines)) = N /\ DOMAIN TextOf(lines) = 1..N /\ N \in Nat
  BY <1>2, <1>3, KeptLength
<1>5. \A k \in 1..N : at[k] \in DOMAIN lines
  BY <1>1, <1>3 DEF KeptAt, Ascends
<1>6. DOMAIN TextRows(lines) = 1..N
  BY <1>2, <1>3 DEF KeptAt
<1>7. \A k \in 1..N : TextRows(lines)[k].value = TextOf(lines)[k]
  <2> SUFFICES ASSUME NEW k \in 1..N
               PROVE  TextRows(lines)[k].value = TextOf(lines)[k]
    OBVIOUS
  <2>1. TextOf(lines)[k] = lines[at[k]]
    BY <1>2, <1>3 DEF KeptAt
  <2>2. TextRows(lines)[k] = numbered[at[k]]
    <3> HIDE DEF numbered
    <3> QED
      BY <1>2, <1>3 DEF KeptAt
  <2> QED
    BY <1>5, <2>1, <2>2
<1> QED
  BY <1>4, <1>6, <1>7 DEF RowsOf


LEMMA TextIsRead == IInv => TargetsAccount
<1> SUFFICES ASSUME IInv, Is("text")
             PROVE  TargetsAccount
  BY DEF TargetsAccount
<1>1. given.lines \in Seq({given.lines[i] : i \in DOMAIN given.lines})
  BY RulesAssumption DEF IInv, Is
<1>2. Len(given.lines) \in Nat /\ DOMAIN given.lines = 1..Len(given.lines)
  BY <1>1
<1>3. RowsOf(TextRows(given.lines), TextOf(given.lines))
  BY <1>2, RowsOfText
<1>4. result = ParseBatchInput(TextRows(given.lines))
  BY DEF IInv, Is
<1>5. Accounts(TextOf(given.lines))
  BY <1>3, <1>4, ParsedRows
<1> QED
  BY <1>5 DEF TargetsAccount, TextOf

LEMMA NothingParsed == ParseBatchInput(<<>>) = Nothing
BY DEF ParseBatchInput

LEMMA CsvIsRead == IInv => CsvIsOneColumn
<1> SUFFICES ASSUME IInv, Is("csv")
             PROVE  CsvIsOneColumn
  BY DEF CsvIsOneColumn
<1> DEFINE records == given.records
           even == \A i \in DOMAIN records : Len(records[i]) = Len(records[1])
           known == {i \in DOMAIN records[1] : records[1][i] \notin {Empty, Comment}
                                                /\ records[1][i].name \in Headers}
           header == known # {}
           column(c) == [i \in DOMAIN records |-> IF header /\ i = 1 THEN Empty ELSE records[i][c]]
           named == csvTargetColumn(records[1])
           R == {records[i] : i \in DOMAIN records}
           M == Len(records)
<1>1. CsvFile(records) /\ result = ParseBatchInput(CsvRows(records))
  BY RulesAssumption DEF IInv, Is
<1>2. M \in Nat /\ DOMAIN records = 1..M
  BY <1>1 DEF CsvFile
<1>3. ASSUME records = <<>> \/ ~ even
      PROVE  result = Nothing
  BY <1>1, <1>3, NothingParsed DEF CsvRows
<1>4. ASSUME records # <<>>, even
      PROVE  \E c \in DOMAIN records[1] :
                /\ header \/ c = 1
                /\ CsvRows(records) = TextRows(column(c))
  <2>1. 1 \in DOMAIN records
    BY <1>1, <1>2, <1>4 DEF CsvFile
  <2> DEFINE first == records[1]
             F == {first[j] : j \in DOMAIN first}
  <2>2. first \in Seq(F) /\ first # <<>>
    BY <1>1, <2>1 DEF CsvFile
  <2> HIDE DEF F
  <2>3. DOMAIN first \in SUBSET Nat /\ 1 \in DOMAIN first
    BY <2>2
  <2>4. named = IF known = {} THEN 0 ELSE Min(known)
    BY DEF csvTargetColumn
  <2>5. CsvRows(records) = TextRows([i \in DOMAIN records |->
                              IF named = 0 THEN records[i][1]
                              ELSE IF i = 1 THEN Empty ELSE records[i][named]])
    BY <1>4 DEF CsvRows
  <2>6. CASE header
    <3>1. named \in known
      <4>1. known \in SUBSET Nat /\ known # {}
        BY <2>3, <2>6
      <4> HIDE DEF known
      <4> QED
        BY <2>4, <4>1, SmallestNumber
    <3>2. named \in DOMAIN first /\ named # 0
      BY <2>2, <3>1
    <3> HIDE DEF named, known
    <3>3. CsvRows(records) = TextRows(column(named))
      BY <2>5, <2>6, <3>2
    <3> QED
      BY <2>6, <3>2, <3>3
  <2>7. CASE ~ header
    <3>1. named = 0
      BY <2>4, <2>7
    <3> HIDE DEF named, known
    <3>2. CsvRows(records) = TextRows(column(1))
      BY <2>5, <2>7, <3>1
    <3> QED
      BY <2>3, <3>2
  <2> QED
    BY <2>6, <2>7
<1> DEFINE Read(c) == Kept(column(c), {i \in DOMAIN records : column(c)[i] \notin {Empty, Comment}})
<1>5. ASSUME NEW c, CsvRows(records) = TextRows(column(c))
      PROVE  Accounts(Read(c))
  <2> DEFINE lines == column(c)
  <2>1. DOMAIN lines = 1..M /\ DOMAIN lines = DOMAIN records
    BY <1>2
  <2> HIDE DEF lines
  <2>2. RowsOf(TextRows(lines), TextOf(lines))
    BY <1>2, <2>1, RowsOfText
  <2>3. result = ParseBatchInput(TextRows(lines))
    BY <1>1, <1>5 DEF lines
  <2>4. Accounts(TextOf(lines))
    BY <2>2, <2>3, ParsedRows
  <2>5. TextOf(lines) = Read(c)
    BY <2>1 DEF TextOf, lines
  <2> QED
    BY <2>4, <2>5
<1>6. header <=> \E i \in DOMAIN records[1] : records[1][i] \notin {Empty, Comment}
                                               /\ records[1][i].name \in Headers
  OBVIOUS
<1> HIDE DEF known, Read
<1>7. IF records = <<>> \/ ~ even THEN result = Nothing
      ELSE \E c \in DOMAIN records[1] : (header \/ c = 1) /\ Accounts(Read(c))
  BY <1>3, <1>4, <1>5
<1> QED
  BY <1>6, <1>7 DEF CsvIsOneColumn, Read

-----------------------------------------------------------------------------
(* Daily figures.                                                          *)

\* The samples of some rows in the order of their latencies.
LatencyKey(rows) == [i \in Sampled(rows) |-> <<rows[i].latency, i>>]
InLatency(rows, order, N) ==
    /\ N \in Nat /\ N = Cardinality(Sampled(rows)) /\ IsFiniteSet(Sampled(rows))
    /\ order \in [1..N -> Sampled(rows)]
    /\ \A j, k \in 1..N : order[j] = order[k] => j = k
    /\ \A j, k \in 1..N : j <= k => rows[order[j]].latency <= rows[order[k]].latency
    /\ Latencies(rows) = [k \in 1..N |-> rows[order[k]].latency]

LEMMA LatenciesInOrder ==
    ASSUME NEW M \in Nat, NEW rows, DOMAIN rows = 1..M, \A i \in 1..M : rows[i].latency \in Int
    PROVE  \E order, N : InLatency(rows, order, N)
<1> DEFINE S == Sampled(rows)
           key == LatencyKey(rows)
           order == InOrder(S, key)
           N == Cardinality(S)
           n == 2
<1>1. S \subseteq 1..M
  BY DEF Sampled
<1>2. IsFiniteSet(S) /\ N \in Nat
  <2>1. IsFiniteSet(1..M) /\ S \in SUBSET (1..M)
    BY <1>1, FS_Interval
  <2>2. IsFiniteSet(S)
    BY <2>1, FS_Subset
  <2> QED
    BY <2>2, FS_CardinalityType
<1>3. /\ n \in Nat
      /\ \A i \in S : key[i] \in Keys(n) /\ key[i] = <<rows[i].latency, i>>
  BY <1>1 DEF Keys, LatencyKey
<1>4. \A i, j \in S : key[i] = key[j] => i = j
  BY <1>3
<1> HIDE DEF n, key, N, S
<1>5. order \in Bijection(1..N, S)
  BY <1>2, <1>3, <1>4, InOrderSorts DEF N
<1>6. \A j, k \in 1..N : j < k => Before(key[order[j]], key[order[k]])
  BY <1>2, <1>3, <1>4, InOrderSorts DEF N
<1>7. order \in [1..N -> S] /\ \A j, k \in 1..N : order[j] = order[k] => j = k
  BY <1>5 DEF Bijection, Injection, IsInjective
<1>8. Latencies(rows) = [k \in 1..N |-> rows[order[k]].latency]
  <2>1. DOMAIN order = 1..N
    BY <1>7
  <2> QED
    BY <2>1 DEF Latencies, S, key, LatencyKey
<1> HIDE DEF order
<1>9. \A j, k \in 1..N : j <= k => rows[order[j]].latency <= rows[order[k]].latency
  <2> SUFFICES ASSUME NEW j \in 1..N, NEW k \in 1..N, j <= k
               PROVE  rows[order[j]].latency <= rows[order[k]].latency
    OBVIOUS
  <2>1. order[j] \in S /\ order[k] \in S /\ order[j] \in 1..M /\ order[k] \in 1..M
    BY <1>1, <1>7
  <2> DEFINE a1 == rows[order[j]].latency
             b1 == rows[order[k]].latency
             a2 == order[j]
             b2 == order[k]
  <2>2. a1 \in Int /\ b1 \in Int /\ a2 \in Int /\ b2 \in Int
    BY <2>1
  <2>3. j < k => Before(<<a1, a2>>, <<b1, b2>>)
    BY <1>3, <1>6, <2>1
  <2>4. j = k => a1 = b1
    OBVIOUS
  <2> HIDE DEF a1, a2, b1, b2
  <2>5. a1 <= b1
    BY <2>2, <2>3, <2>4, BeforeTwo
  <2> QED
    BY <2>5 DEF a1, b1
<1>10. InLatency(rows, order, N)
  BY <1>2, <1>7, <1>8, <1>9 DEF InLatency, N, S
<1> QED
  BY <1>10

\* The place of a percentile.
PlaceOf(N, p) == ((N - 1) * p) \div 100 + 1

LEMMA PlacesOfPercentiles ==
    ASSUME NEW N \in Nat \ {0}
    PROVE  /\ PlaceOf(N, 50) \in 1..N /\ PlaceOf(N, 95) \in 1..N
           /\ PlaceOf(N, 50) <= PlaceOf(N, 95)
           /\ 2 * (N - PlaceOf(N, 50) + 1) >= N
           /\ 20 * (N - PlaceOf(N, 95) + 1) >= N
<1> DEFINE a == ((N - 1) * 50) \div 100
           b == ((N - 1) * 95) \div 100
<1>1. a \in Int /\ 100 * a <= (N - 1) * 50 /\ (N - 1) * 50 < 100 * a + 100
  OBVIOUS
<1>2. b \in Int /\ 100 * b <= (N - 1) * 95 /\ (N - 1) * 95 < 100 * b + 100
  OBVIOUS
<1>3. PlaceOf(N, 50) = a + 1 /\ PlaceOf(N, 95) = b + 1
  BY DEF PlaceOf
<1> HIDE DEF a, b
<1> QED
  BY <1>1, <1>2, <1>3

\* As many samples are at least at a percentile as come after it.
LEMMA AbovePercentile ==
    ASSUME NEW rows, NEW order, NEW N, InLatency(rows, order, N), NEW p \in 1..N,
           \A i \in Sampled(rows) : rows[i].latency \in Int
    PROVE  Cardinality({i \in Sampled(rows) : rows[i].latency >= rows[order[p]].latency})
                >= N - p + 1
<1> DEFINE T == {i \in Sampled(rows) : rows[i].latency >= rows[order[p]].latency}
           f == [k \in p..N |-> order[k]]
<1>1. N \in Nat /\ \A k \in p..N : k \in 1..N
  BY DEF InLatency
<1>2. \A k \in p..N : order[k] \in T
  BY <1>1 DEF InLatency
<1>3. \A j, k \in p..N : order[j] = order[k] => j = k
  BY <1>1 DEF InLatency
<1>4. IsFiniteSet(T) /\ Cardinality(T) \in Nat
  <2>1. IsFiniteSet(Sampled(rows)) /\ T \in SUBSET Sampled(rows)
    BY DEF InLatency
  <2>2. IsFiniteSet(T)
    BY <2>1, FS_Subset
  <2> QED
    BY <2>2, FS_CardinalityType
<1> HIDE DEF T
<1>5. f \in Injection(p..N, T)
  BY <1>2, <1>3 DEF Injection, IsInjective
<1> HIDE DEF f
<1>6. Cardinality(p..N) <= Cardinality(T)
  BY <1>4, <1>5, FS_Injection
<1>7. Cardinality(p..N) = N - p + 1
  BY <1>1, FS_Interval
<1> QED
  BY <1>4, <1>6, <1>7 DEF T

LEMMA DayIsMeasured == IInv => PercentilesAreSamples
<1> SUFFICES ASSUME IInv, Is("day"), result # Nothing,
                    {i \in DOMAIN (given.single \o given.batch) :
                        (given.single \o given.batch)[i].latency >= 0} # {}
             PROVE  PercentilesAreSamples
  BY DEF PercentilesAreSamples
<1> DEFINE rows == given.single \o given.batch
           S == Sampled(rows)
           above(v) == Cardinality({i \in S : rows[i].latency >= v})
           M == Len(given.single) + Len(given.batch)
           sorted == Latencies(rows)
<1>1. /\ DayRows(given.single) /\ DayRows(given.batch)
      /\ result = AggregateDailyMetrics(given.single, given.batch)
  BY RulesAssumption DEF IInv, Is
<1>2. M \in Nat /\ DOMAIN rows = 1..M /\ \A i \in 1..M : rows[i].latency \in Int
  <2>1. /\ Len(given.single) \in Nat /\ Len(given.batch) \in Nat
        /\ DOMAIN given.single = 1..Len(given.single)
        /\ DOMAIN given.batch = 1..Len(given.batch)
    BY <1>1 DEF DayRows
  <2> DEFINE T == {given.single[i] : i \in DOMAIN given.single}
                    \cup {given.batch[i] : i \in DOMAIN given.batch}
  <2>2. given.single \in Seq(T) /\ given.batch \in Seq(T)
    <3>1. /\ given.single \in Seq({given.single[i] : i \in DOMAIN given.single})
          /\ given.batch \in Seq({given.batch[i] : i \in DOMAIN given.batch})
      BY <1>1 DEF DayRows
    <3> QED
      BY <2>1, <3>1
  <2>3. \A t \in T : t.latency \in Int
    BY <1>1 DEF DayRows
  <2> HIDE DEF T
  <2>4. rows \in Seq(T) /\ Len(rows) = M
    BY <2>2
  <2> HIDE DEF rows, M
  <2> QED
    BY <2>3, <2>4
<1>3. S = {i \in DOMAIN rows : rows[i].latency >= 0} /\ S # {}
  BY DEF Sampled
<1> HIDE DEF rows, S, M
<1>4. PICK order, N : InLatency(rows, order, N)
  BY <1>2, LatenciesInOrder
<1>5. N \in Nat \ {0} /\ sorted = [k \in 1..N |-> rows[order[k]].latency] /\ Len(sorted) = N
  <2>1. N \in Nat /\ sorted = [k \in 1..N |-> rows[order[k]].latency]
    BY <1>4 DEF InLatency
  <2>2. N # 0
    <3>1. IsFiniteSet(S) /\ N = Cardinality(S)
      BY <1>4 DEF InLatency, S
    <3> QED
      BY <1>3, <3>1, FS_EmptySet
  <2> HIDE DEF sorted
  <2> QED
    BY <2>1, <2>2
<1> DEFINE m == PlaceOf(N, 50)
           n == PlaceOf(N, 95)
<1> HIDE DEF sorted
<1>6. result.p50 = rows[order[m]].latency /\ result.p95 = rows[order[n]].latency
  <2>1. given.batch # <<>>
    BY <1>1 DEF AggregateDailyMetrics
  <2>2. sorted # <<>>
    BY <1>5
  <2>3. result.p50 = percentile(sorted, 50) /\ result.p95 = percentile(sorted, 95)
    BY <1>1, <2>1, <2>2 DEF AggregateDailyMetrics, sorted, rows
  <2>4. percentile(sorted, 50) = sorted[m] /\ percentile(sorted, 95) = sorted[n]
    BY <1>5 DEF percentile, PlaceOf
  <2>5. m \in 1..N /\ n \in 1..N
    BY <1>5, PlacesOfPercentiles
  <2> HIDE DEF m, n
  <2> QED
    BY <1>5, <2>3, <2>4, <2>5
<1>7. m \in 1..N /\ n \in 1..N /\ m <= n /\ 2 * (N - m + 1) >= N /\ 20 * (N - n + 1) >= N
  BY <1>5, PlacesOfPercentiles
<1> HIDE DEF m, n
<1>8. \A i \in S : i \in 1..M /\ rows[i].latency \in Int
  BY <1>2, <1>3
<1>9. order[m] \in S /\ order[n] \in S
  BY <1>4, <1>7 DEF InLatency, S
<1>10. {result.p50, result.p95} \subseteq {rows[i].latency : i \in S}
  BY <1>6, <1>9
<1>11. result.p50 <= result.p95
  BY <1>4, <1>6, <1>7 DEF InLatency
<1>12. above(result.p50) >= N - m + 1 /\ above(result.p95) >= N - n + 1
  BY <1>4, <1>6, <1>7, <1>8, AbovePercentile DEF S
<1>13. Cardinality(S) = N /\ above(result.p50) \in Nat /\ above(result.p95) \in Nat
  <2>1. IsFiniteSet(S) /\ N = Cardinality(S)
    BY <1>4 DEF InLatency, S
  <2>2. \A v : IsFiniteSet({i \in S : rows[i].latency >= v})
    BY <2>1, FS_Subset
  <2> QED
    BY <2>1, <2>2, FS_CardinalityType
<1>14. 2 * above(result.p50) >= Cardinality(S) /\ 20 * above(result.p95) >= Cardinality(S)
  <2> HIDE DEF above
  <2> QED
    BY <1>5, <1>7, <1>12, <1>13
<1> QED
  BY <1>3, <1>10, <1>11, <1>14 DEF PercentilesAreSamples, rows

-----------------------------------------------------------------------------
(* A manifest that is written the documented way is read back.             *)

HostOf(fqdn, enabled, notes) == [fqdn |-> fqdn, enabled |-> enabled, notes |-> notes]
ItemOf(domain, environment, enabled, hosts) ==
    [domain |-> domain, environment |-> environment, enabled |-> enabled, hosts |-> hosts]

\* The lines that begin an item and a host, and those of their fields.
ItemLine(domain) == Line(0, TRUE, "domain", domain)
HostLine(fqdn) == Line(4, TRUE, "fqdn", fqdn)
FieldLine(indent, key, value) == Line(indent, FALSE, key, value)

\* The reader.
Now(items, reads, item, host) ==
    [items |-> items, reads |-> reads, item |-> item, host |-> host]

\* The next item is read after those.
Flushed(s, items) == \E item : flushItem(s) = Now(items, "nothing", item, NoHost)

LEMMA HostIsSome ==
    ASSUME NEW fqdn, NEW enabled, NEW notes
    PROVE  HostOf(fqdn, enabled, notes) # NoHost
<1>1. "notes" \in DOMAIN HostOf(fqdn, enabled, notes) /\ "notes" \notin DOMAIN NoHost
  BY DEF HostOf, NoHost
<1> QED
  BY <1>1

\* A host that is read is put with its item.
LEMMA HostFlushed ==
    ASSUME NEW items, NEW domain, NEW environment, NEW enabled, NEW hosts,
           NEW name, NEW flag, NEW notes
    PROVE  flushHost(Now(items, "hosts", ItemOf(domain, environment, enabled, hosts),
                         HostOf(name, flag, notes)))
            = Now(items, "hosts", ItemOf(domain, environment, enabled,
                                         Append(hosts, HostOf(name, flag, notes))), NoHost)
<1> DEFINE host == HostOf(name, flag, notes)
           item == ItemOf(domain, environment, enabled, hosts)
           other == ItemOf(domain, environment, enabled, Append(hosts, host))
           s == Now(items, "hosts", item, host)
           after == [s EXCEPT !.item = [s.item EXCEPT !.hosts = Append(@, s.host)], !.host = NoHost]
<1>1. s.host = host /\ host # NoHost /\ s.item = item
  BY HostIsSome DEF Now
<1>2. flushHost(s) = after
  <2>1. flushHost(s) = [s EXCEPT !.item.hosts = Append(@, s.host), !.host = NoHost]
    <3> HIDE DEF s, host
    <3> QED
      BY <1>1 DEF flushHost
  <2> HIDE DEF s
  <2> QED
    BY <2>1
<1>3. after.item = other
  <2>1. [item EXCEPT !.hosts = Append(@, host)] = other
    <3> HIDE DEF host
    <3> QED
      BY DEF ItemOf
  <2>2. [s.item EXCEPT !.hosts = Append(@, s.host)] = [item EXCEPT !.hosts = Append(@, host)]
    <3> HIDE DEF s, item, host
    <3> QED
      BY <1>1
  <2> HIDE DEF other
  <2> QED
    BY <2>1, <2>2 DEF Now
<1>4. after.items = items /\ after.reads = "hosts" /\ after.host = NoHost
  BY DEF Now
<1>5. DOMAIN after = {"items", "reads", "item", "host"} /\ after = [x \in DOMAIN after |-> after[x]]
  BY DEF Now
<1> HIDE DEF after, other
<1>6. after = [items |-> items, reads |-> "hosts", item |-> other, host |-> NoHost]
  BY <1>3, <1>4, <1>5
<1> QED
  BY <1>2, <1>6 DEF Now, s, host, item, other

LEMMA NoHostFlushed ==
    ASSUME NEW items, NEW reads, NEW item
    PROVE  flushHost(Now(items, reads, item, NoHost)) = Now(items, reads, item, NoHost)
BY DEF flushHost, Now

\* The line that begins an item.
LEMMA ItemBegins ==
    ASSUME NEW s, NEW items, Flushed(s, items), NEW domain
    PROVE  ReadLine(s, ItemLine(domain)) = Now(items, "item", NewItem(domain), NoHost)
<1>1. PICK item : flushItem(s) = Now(items, "nothing", item, NoHost)
  BY DEF Flushed
<1> DEFINE f == flushItem(s)
           new == NewItem(domain)
           after == [f EXCEPT !.reads = "item", !.item = new]
<1>2. ReadLine(s, ItemLine(domain)) = after
  BY DEF ReadLine, ItemLine, Line, NameOf
<1> HIDE DEF f, new
<1>3. DOMAIN after = {"items", "reads", "item", "host"} /\ after = [x \in DOMAIN after |-> after[x]]
  BY <1>1 DEF Now, f
<1>4. after.items = items /\ after.reads = "item" /\ after.item = new /\ after.host = NoHost
  BY <1>1 DEF Now, f
<1> HIDE DEF after
<1>5. after = [items |-> items, reads |-> "item", item |-> new, host |-> NoHost]
  BY <1>3, <1>4
<1> QED
  BY <1>2, <1>5 DEF Now, new

\* The lines of an item's own fields.
LEMMA ItemFieldRead ==
    ASSUME NEW items, NEW item, NEW key \in {"environment", "enabled"}, NEW value
    PROVE  ReadLine(Now(items, "item", item, NoHost), FieldLine(2, key, value))
            = Now(items, "item", applyItemField(item, key, value), NoHost)
<1> DEFINE s == Now(items, "item", item, NoHost)
           line == FieldLine(2, key, value)
           after == applyItemField(item, key, value)
<1>1. /\ line.indent = 2 /\ ~ line.dash /\ line.key = key /\ line.value = value
      /\ s.reads = "item" /\ s.item = item
  BY DEF ItemLine, HostLine, FieldLine, Line, Now
<1>2. [s EXCEPT !.item = after] = Now(items, "item", after, NoHost)
  <2> HIDE DEF after
  <2> QED
    BY DEF Now
<1> HIDE DEF s, line
<1>3. ReadLine(s, line) = field(s, line)
  <2>1. key # "" /\ key # "key_hosts" /\ key # "hosts"
    OBVIOUS
  <2>2. line.key # "" /\ line.key # "key_hosts" /\ line.key # "hosts"
    BY <1>1, <2>1
  <2>3. line.indent # 0 /\ ~ line.dash
    BY <1>1
  <2>4. s.reads # "nothing"
    BY <1>1
  <2> QED
    BY <2>2, <2>3, <2>4 DEF ReadLine
<1>4. field(s, line) = [s EXCEPT !.item = applyItemField(@, line.key, line.value)]
  BY <1>1 DEF field
<1>5. field(s, line) = [s EXCEPT !.item = after]
  BY <1>1, <1>4
<1> HIDE DEF after
<1> QED
  BY <1>2, <1>3, <1>5 DEF s, line, after

LEMMA EnvironmentRead ==
    ASSUME NEW items, NEW domain, NEW before, NEW enabled, NEW hosts, NEW environment
    PROVE  ReadLine(Now(items, "item", ItemOf(domain, before, enabled, hosts), NoHost),
                    FieldLine(2, "environment", environment))
            = Now(items, "item", ItemOf(domain, environment, enabled, hosts), NoHost)
<1>1. applyItemField(ItemOf(domain, before, enabled, hosts), "environment", environment)
        = ItemOf(domain, environment, enabled, hosts)
  BY DEF applyItemField, ItemOf
<1>2. ReadLine(Now(items, "item", ItemOf(domain, before, enabled, hosts), NoHost),
               FieldLine(2, "environment", environment))
        = Now(items, "item", applyItemField(ItemOf(domain, before, enabled, hosts),
                                            "environment", environment), NoHost)
  BY ItemFieldRead
<1> QED
  BY <1>1, <1>2

LEMMA EnabledRead ==
    ASSUME NEW items, NEW domain, NEW environment, NEW before, NEW hosts, NEW enabled \in BOOLEAN
    PROVE  ReadLine(Now(items, "item", ItemOf(domain, environment, before, hosts), NoHost),
                    FieldLine(2, "enabled", YesNo(enabled)))
            = Now(items, "item", ItemOf(domain, environment, enabled, hosts), NoHost)
<1>1. (YesNo(enabled) # "false") = enabled
  BY DEF YesNo
<1>2. applyItemField(ItemOf(domain, environment, before, hosts), "enabled", YesNo(enabled))
        = ItemOf(domain, environment, enabled, hosts)
  BY <1>1 DEF applyItemField, ItemOf
<1>3. ReadLine(Now(items, "item", ItemOf(domain, environment, before, hosts), NoHost),
               FieldLine(2, "enabled", YesNo(enabled)))
        = Now(items, "item", applyItemField(ItemOf(domain, environment, before, hosts),
                                            "enabled", YesNo(enabled)), NoHost)
  BY ItemFieldRead
<1> QED
  BY <1>2, <1>3

LEMMA HostsBegin ==
    ASSUME NEW items, NEW item, NEW value
    PROVE  ReadLine(Now(items, "item", item, NoHost), FieldLine(2, "key_hosts", value))
            = Now(items, "hosts", item, NoHost)
<1> DEFINE s == Now(items, "item", item, NoHost)
           line == FieldLine(2, "key_hosts", value)
<1>1. /\ line.indent = 2 /\ ~ line.dash /\ line.key = "key_hosts"
      /\ s.reads = "item" /\ flushHost(s) = s
  BY NoHostFlushed DEF ItemLine, HostLine, FieldLine, Line, Now
<1>2. [s EXCEPT !.reads = "hosts"] = Now(items, "hosts", item, NoHost)
  BY DEF Now
<1> HIDE DEF s, line
<1>3. ReadLine(s, line) = [s EXCEPT !.reads = "hosts"]
  BY <1>1 DEF ReadLine
<1> QED
  BY <1>2, <1>3 DEF s, line

\* The lines of a host.
LEMMA HostBegins ==
    ASSUME NEW s, NEW items, NEW item, NEW fqdn, s.reads = "hosts",
           flushHost(s) = Now(items, "hosts", item, NoHost)
    PROVE  ReadLine(s, HostLine(fqdn)) = Now(items, "hosts", item, NewHost(fqdn))
<1> DEFINE line == HostLine(fqdn)
           new == NewHost(fqdn)
<1>1. /\ line.indent = 4 /\ line.dash /\ line.key = "fqdn" /\ line.value = fqdn
  BY DEF ItemLine, HostLine, FieldLine, Line
<1> HIDE DEF line
<1>2. NameOf(line, "fqdn") = fqdn
  BY <1>1 DEF NameOf
<1>3. ReadLine(s, line) = [flushHost(s) EXCEPT !.host = new]
  BY <1>1, <1>2 DEF ReadLine
<1> HIDE DEF new
<1>4. [flushHost(s) EXCEPT !.host = new] = Now(items, "hosts", item, new)
  BY DEF Now
<1> QED
  BY <1>3, <1>4 DEF line, new

LEMMA FirstHostBegins ==
    ASSUME NEW items, NEW item, NEW fqdn
    PROVE  ReadLine(Now(items, "hosts", item, NoHost), HostLine(fqdn))
            = Now(items, "hosts", item, NewHost(fqdn))
<1> DEFINE s == Now(items, "hosts", item, NoHost)
<1>1. s.reads = "hosts" /\ flushHost(s) = s
  BY NoHostFlushed DEF Now
<1> HIDE DEF s
<1>2. flushHost(s) = Now(items, "hosts", item, NoHost)
  BY <1>1 DEF s
<1>3. ReadLine(s, HostLine(fqdn)) = Now(items, "hosts", item, NewHost(fqdn))
  BY <1>1, <1>2, HostBegins
<1> QED
  BY <1>3 DEF s

LEMMA NextHostBegins ==
    ASSUME NEW items, NEW domain, NEW environment, NEW enabled, NEW hosts,
           NEW name, NEW flag, NEW notes, NEW fqdn
    PROVE  ReadLine(Now(items, "hosts", ItemOf(domain, environment, enabled, hosts),
                        HostOf(name, flag, notes)), HostLine(fqdn))
            = Now(items, "hosts", ItemOf(domain, environment, enabled,
                                         Append(hosts, HostOf(name, flag, notes))), NewHost(fqdn))
<1> DEFINE host == HostOf(name, flag, notes)
           s == Now(items, "hosts", ItemOf(domain, environment, enabled, hosts), host)
           item == ItemOf(domain, environment, enabled, Append(hosts, host))
<1>1. s.reads = "hosts"
  BY DEF Now
<1>2. flushHost(s) = Now(items, "hosts", item, NoHost)
  BY HostFlushed
<1> HIDE DEF s, item, host
<1> QED
  BY <1>1, <1>2, HostBegins DEF s, item, host

LEMMA HostFieldRead ==
    ASSUME NEW items, NEW item, NEW fqdn, NEW enabled, NEW notes,
           NEW key \in {"enabled", "notes"}, NEW value
    PROVE  ReadLine(Now(items, "hosts", item, HostOf(fqdn, enabled, notes)),
                    FieldLine(6, key, value))
            = Now(items, "hosts", item, applyHostField(HostOf(fqdn, enabled, notes), key, value))
<1> DEFINE host == HostOf(fqdn, enabled, notes)
           s == Now(items, "hosts", item, host)
           line == FieldLine(6, key, value)
           after == applyHostField(host, key, value)
<1>1. /\ line.indent = 6 /\ ~ line.dash /\ line.key = key /\ line.value = value
      /\ s.reads = "hosts" /\ s.host = host /\ host # NoHost
  BY HostIsSome DEF ItemLine, HostLine, FieldLine, Line, Now
<1>2. [s EXCEPT !.host = after] = Now(items, "hosts", item, after)
  <2> HIDE DEF after
  <2> QED
    BY DEF Now
<1> HIDE DEF s, line, host
<1>3. ReadLine(s, line) = field(s, line)
  <2>1. key # "" /\ key # "key_hosts" /\ key # "hosts"
    OBVIOUS
  <2>2. line.key # "" /\ line.key # "key_hosts" /\ line.key # "hosts"
    BY <1>1, <2>1
  <2>3. line.indent # 0 /\ ~ line.dash
    BY <1>1
  <2>4. s.reads # "nothing"
    BY <1>1
  <2> QED
    BY <2>2, <2>3, <2>4 DEF ReadLine
<1>4. field(s, line) = [s EXCEPT !.host = applyHostField(@, line.key, line.value)]
  BY <1>1 DEF field
<1>5. field(s, line) = [s EXCEPT !.host = after]
  BY <1>1, <1>4
<1> HIDE DEF after
<1> QED
  BY <1>2, <1>3, <1>5 DEF s, line, host, after

LEMMA HostEnabledRead ==
    ASSUME NEW items, NEW item, NEW fqdn, NEW before, NEW notes, NEW enabled \in BOOLEAN
    PROVE  ReadLine(Now(items, "hosts", item, HostOf(fqdn, before, notes)),
                    FieldLine(6, "enabled", YesNo(enabled)))
            = Now(items, "hosts", item, HostOf(fqdn, enabled, notes))
<1>1. (YesNo(enabled) # "false") = enabled
  BY DEF YesNo
<1>2. applyHostField(HostOf(fqdn, before, notes), "enabled", YesNo(enabled))
        = HostOf(fqdn, enabled, notes)
  BY <1>1 DEF applyHostField, HostOf
<1>3. ReadLine(Now(items, "hosts", item, HostOf(fqdn, before, notes)),
               FieldLine(6, "enabled", YesNo(enabled)))
        = Now(items, "hosts", item, applyHostField(HostOf(fqdn, before, notes),
                                                   "enabled", YesNo(enabled)))
  BY HostFieldRead
<1> QED
  BY <1>2, <1>3

LEMMA NotesRead ==
    ASSUME NEW items, NEW item, NEW fqdn, NEW enabled, NEW before, NEW notes
    PROVE  ReadLine(Now(items, "hosts", item, HostOf(fqdn, enabled, before)),
                    FieldLine(6, "notes", notes))
            = Now(items, "hosts", item, HostOf(fqdn, enabled, notes))
<1>1. applyHostField(HostOf(fqdn, enabled, before), "notes", notes)
        = HostOf(fqdn, enabled, notes)
  BY DEF applyHostField, HostOf
<1>2. ReadLine(Now(items, "hosts", item, HostOf(fqdn, enabled, before)),
               FieldLine(6, "notes", notes))
        = Now(items, "hosts", item, applyHostField(HostOf(fqdn, enabled, before),
                                                   "notes", notes))
  BY HostFieldRead
<1> QED
  BY <1>1, <1>2

\* An item ends with the next one and with the manifest.
LEMMA ItemEnds ==
    ASSUME NEW s, NEW items, NEW item, flushHost(s) = Now(items, "hosts", item, NoHost)
    PROVE  Flushed(s, Append(items, item))
<1> DEFINE f == Now(items, "hosts", item, NoHost)
           more == Append(items, item)
           after == [f EXCEPT !.items = Append(@, f.item), !.reads = "nothing"]
<1>1. f.reads = "hosts" /\ f.item = item /\ f.items = items
  BY DEF Now
<1>2. flushItem(s) = after
  <2>1. flushHost(s) = f
    OBVIOUS
  <2> HIDE DEF f
  <2> QED
    BY <1>1, <2>1 DEF flushItem
<1>3. DOMAIN after = {"items", "reads", "item", "host"} /\ after = [x \in DOMAIN after |-> after[x]]
  BY DEF Now
<1>4. after.items = more /\ after.reads = "nothing" /\ after.item = item /\ after.host = NoHost
  BY DEF Now
<1> HIDE DEF after, more
<1>5. after = [items |-> more, reads |-> "nothing", item |-> item, host |-> NoHost]
  BY <1>3, <1>4
<1> QED
  BY <1>2, <1>5 DEF Flushed, Now, more

LEMMA BareItemEnds ==
    ASSUME NEW items, NEW item
    PROVE  Flushed(Now(items, "hosts", item, NoHost), Append(items, item))
BY ItemEnds, NoHostFlushed

LEMMA LastHostEnds ==
    ASSUME NEW items, NEW domain, NEW environment, NEW enabled, NEW hosts,
           NEW name, NEW flag, NEW notes
    PROVE  Flushed(Now(items, "hosts", ItemOf(domain, environment, enabled, hosts),
                       HostOf(name, flag, notes)),
                   Append(items, ItemOf(domain, environment, enabled,
                                        Append(hosts, HostOf(name, flag, notes)))))
BY HostFlushed, ItemEnds

LEMMA NothingRead == Flushed(Reader, <<>>)
<1> DEFINE item == NewItem(NoName)
           s == Now(<<>>, "nothing", item, NoHost)
<1>1. Reader = s
  BY DEF Reader, Now
<1> HIDE DEF item
<1>2. flushHost(s) = s /\ s.reads = "nothing"
  BY NoHostFlushed DEF Now
<1> HIDE DEF s
<1>3. flushItem(s) = s
  BY <1>2 DEF flushItem
<1> QED
  BY <1>1, <1>3 DEF Flushed, item, s

\* The reader after each line.
ReadsTo(lines, n, f) ==
    f = [k \in 0..n |-> IF k = 0 THEN Reader ELSE ReadLine(f[k - 1], lines[k])]

LEMMA ReadsExist ==
    ASSUME NEW lines, NEW n \in Nat
    PROVE  \E f : ReadsTo(lines, n, f)
<1> DEFINE Missing == {m \in Nat : ~ \E f : ReadsTo(lines, m, f)}
<1> SUFFICES ASSUME Missing # {}
             PROVE  FALSE
  OBVIOUS
<1>1. PICK m \in Missing : \A k \in Missing : m =< k
  BY LeastNumber
<1>2. CASE m = 0
  <2> DEFINE f == [k \in 0..0 |-> Reader]
  <2>1. f = [k \in 0..0 |-> IF k = 0 THEN Reader ELSE ReadLine(f[k - 1], lines[k])]
    OBVIOUS
  <2> HIDE DEF f
  <2>2. ReadsTo(lines, 0, f)
    BY <2>1 DEF ReadsTo
  <2> QED
    BY <1>1, <1>2, <2>2
<1>3. CASE m # 0
  <2>1. m - 1 \in Nat /\ m - 1 \notin Missing
    BY <1>1, <1>3
  <2>2. PICK f : ReadsTo(lines, m - 1, f)
    BY <2>1
  <2> DEFINE g == [k \in 0..m |-> IF k < m THEN f[k] ELSE ReadLine(f[k - 1], lines[k])]
  <2>3. \A k \in 0..m : g[k] = IF k = 0 THEN Reader ELSE ReadLine(g[k - 1], lines[k])
    <3> SUFFICES ASSUME NEW k \in 0..m
                 PROVE  g[k] = IF k = 0 THEN Reader ELSE ReadLine(g[k - 1], lines[k])
      OBVIOUS
    <3>1. CASE k < m
      <4>1. k \in 0..(m - 1) /\ g[k] = f[k]
        BY <2>1, <3>1
      <4>2. f[k] = IF k = 0 THEN Reader ELSE ReadLine(f[k - 1], lines[k])
        BY <2>2, <4>1 DEF ReadsTo
      <4>3. k # 0 => g[k - 1] = f[k - 1]
        BY <2>1, <3>1
      <4> HIDE DEF g
      <4> QED
        BY <4>1, <4>2, <4>3
    <3>2. CASE k = m
      <4>1. g[k] = ReadLine(f[k - 1], lines[k])
        BY <3>2
      <4>2. g[k - 1] = f[k - 1]
        BY <1>1, <1>3, <3>2
      <4> HIDE DEF g
      <4> QED
        BY <1>3, <3>2, <4>1, <4>2
    <3>3. k < m \/ k = m
      BY <1>1
    <3> QED
      BY <3>1, <3>2, <3>3
  <2>4. g = [k \in 0..m |-> g[k]]
    OBVIOUS
  <2> HIDE DEF g
  <2>5. g = [k \in 0..m |-> IF k = 0 THEN Reader ELSE ReadLine(g[k - 1], lines[k])]
    BY <2>3, <2>4
  <2> QED
    BY <1>1, <2>5 DEF ReadsTo
<1> QED
  BY <1>2, <1>3

\* The reader goes from line to line.
Reads(lines, after, N) ==
    /\ N \in Nat /\ after[0] = Reader
    /\ \A n \in 1..N : after[n] = ReadLine(after[n - 1], lines[n])

LEMMA ReadingReads ==
    ASSUME NEW lines, Len(lines) \in Nat
    PROVE  Reads(lines, Reading(lines), Len(lines))
<1> DEFINE N == Len(lines)
           f == CHOOSE g : ReadsTo(lines, N, g)
<1>1. ReadsTo(lines, N, f)
  BY ReadsExist
<1>2. Reading(lines) = f
  BY DEF Reading, ReadsTo
<1> HIDE DEF f
<1> DEFINE step(k) == IF k = 0 THEN Reader ELSE ReadLine(f[k - 1], lines[k])
<1>3. \A k \in 0..N : f[k] = step(k)
  BY <1>1 DEF ReadsTo
<1>4. f[0] = step(0) /\ \A n \in 1..N : f[n] = step(n)
  <2> HIDE DEF step
  <2> QED
    BY <1>3
<1>5. f[0] = Reader
  BY <1>4
<1>6. \A n \in 1..N : f[n] = ReadLine(f[n - 1], lines[n])
  BY <1>4
<1> QED
  BY <1>2, <1>5, <1>6 DEF Reads

LEMMA NewHostIs ==
    ASSUME NEW fqdn
    PROVE  \E flag, notes : NewHost(fqdn) = HostOf(fqdn, flag, notes)
<1> DEFINE flag == TRUE
           notes == ""
<1>1. NewHost(fqdn) = HostOf(fqdn, flag, notes)
  BY DEF NewHost, HostOf
<1> HIDE DEF flag, notes
<1> QED
  BY <1>1

LEMMA NewItemIs ==
    ASSUME NEW domain
    PROVE  \E flag, environment : /\ NewItem(domain) = ItemOf(domain, environment, flag, <<>>)
                                  /\ environment = ""
<1> DEFINE flag == TRUE
           environment == ""
<1>1. NewItem(domain) = ItemOf(domain, environment, flag, <<>>) /\ environment = ""
  BY DEF NewItem, ItemOf
<1> HIDE DEF flag, environment
<1> QED
  BY <1>1

LEMMA HostLinesRead ==
    ASSUME NEW items, NEW item, NEW fqdn, NEW enabled \in BOOLEAN, NEW notes
    PROVE  ReadLine(ReadLine(Now(items, "hosts", item, NewHost(fqdn)),
                             FieldLine(6, "enabled", YesNo(enabled))),
                    FieldLine(6, "notes", notes))
            = Now(items, "hosts", item, HostOf(fqdn, enabled, notes))
<1>1. PICK flag, none : NewHost(fqdn) = HostOf(fqdn, flag, none)
  BY NewHostIs
<1>2. ReadLine(Now(items, "hosts", item, HostOf(fqdn, flag, none)),
               FieldLine(6, "enabled", YesNo(enabled)))
        = Now(items, "hosts", item, HostOf(fqdn, enabled, none))
  BY HostEnabledRead
<1>3. ReadLine(Now(items, "hosts", item, HostOf(fqdn, enabled, none)), FieldLine(6, "notes", notes))
        = Now(items, "hosts", item, HostOf(fqdn, enabled, notes))
  BY NotesRead
<1> QED
  BY <1>1, <1>2, <1>3

\* The three lines of a host.
LEMMA HostRead ==
    ASSUME NEW lines, NEW after, NEW N, Reads(lines, after, N), NEW items, NEW item,
           NEW host, NEW start \in Nat, start + 3 =< N, WrittenHost(lines, host, start),
           ReadLine(after[start], HostLine(host.fqdn)) = Now(items, "hosts", item, NewHost(host.fqdn))
    PROVE  /\ after[start + 3] = Now(items, "hosts", item, host)
           /\ host = HostOf(host.fqdn, host.enabled, host.notes)
<1>1. /\ host = HostOf(host.fqdn, host.enabled, host.notes) /\ host.enabled \in BOOLEAN
      /\ lines[start + 1] = HostLine(host.fqdn)
      /\ lines[start + 2] = FieldLine(6, "enabled", YesNo(host.enabled))
      /\ lines[start + 3] = FieldLine(6, "notes", host.notes)
  BY DEF WrittenHost, HostOf, HostLine, FieldLine
<1>2. /\ start + 1 \in 1..N /\ start + 2 \in 1..N /\ start + 3 \in 1..N
      /\ (start + 1) - 1 = start /\ (start + 2) - 1 = start + 1 /\ (start + 3) - 1 = start + 2
  BY DEF Reads
<1>3. /\ after[start + 1] = ReadLine(after[start], lines[start + 1])
      /\ after[start + 2] = ReadLine(after[start + 1], lines[start + 2])
      /\ after[start + 3] = ReadLine(after[start + 2], lines[start + 3])
  <2>1. \A n \in 1..N : after[n] = ReadLine(after[n - 1], lines[n])
    BY DEF Reads
  <2>2. after[start + 1] = ReadLine(after[(start + 1) - 1], lines[start + 1])
    BY <1>2, <2>1
  <2>3. after[start + 2] = ReadLine(after[(start + 2) - 1], lines[start + 2])
    BY <1>2, <2>1
  <2>4. after[start + 3] = ReadLine(after[(start + 3) - 1], lines[start + 3])
    BY <1>2, <2>1
  <2> QED
    BY <1>2, <2>2, <2>3, <2>4
<1> DEFINE fqdn == host.fqdn
           enabled == host.enabled
           notes == host.notes
<1> HIDE DEF fqdn, enabled, notes
<1>4. ReadLine(ReadLine(Now(items, "hosts", item, NewHost(fqdn)),
                        FieldLine(6, "enabled", YesNo(enabled))),
               FieldLine(6, "notes", notes))
        = Now(items, "hosts", item, HostOf(fqdn, enabled, notes))
  <2>1. enabled \in BOOLEAN
    BY <1>1 DEF enabled
  <2> QED
    BY <2>1, HostLinesRead
<1>5. after[start + 1] = Now(items, "hosts", item, NewHost(fqdn))
  BY <1>1, <1>3 DEF fqdn
<1>6. after[start + 3] = Now(items, "hosts", item, HostOf(fqdn, enabled, notes))
  <2>1. /\ lines[start + 2] = FieldLine(6, "enabled", YesNo(enabled))
        /\ lines[start + 3] = FieldLine(6, "notes", notes)
    BY <1>1 DEF enabled, notes
  <2> QED
    BY <1>3, <1>4, <1>5, <2>1
<1> QED
  BY <1>1, <1>6 DEF fqdn, enabled, notes

\* All hosts of an item.
LEMMA PrefixGrows ==
    ASSUME NEW T, NEW s \in Seq(T), NEW k \in 1..Len(s)
    PROVE  SubSeq(s, 1, k) = Append(SubSeq(s, 1, k - 1), s[k])
<1>1. Len(s) \in Nat /\ 1 \in 1..Len(s) /\ k \in 1..Len(s)
  OBVIOUS
<1>2. SubSeq(s, 1, k) = SubSeq(s, 1, k - 1) \o <<s[k]>>
  BY <1>1, SubSeqRecursiveSecond
<1>3. SubSeq(s, 1, k - 1) \in Seq(T)
  <2>1. \A i \in 1..(k - 1) : s[i] \in T
    BY <1>1
  <2> QED
    BY <1>1, <2>1, SubSeqProperties
<1> DEFINE p == SubSeq(s, 1, k - 1)
<1> HIDE DEF p
<1>4. p \o <<s[k]>> = Append(p, s[k])
  BY <1>3 DEF p
<1> QED
  BY <1>2, <1>4 DEF p

LEMMA HostsRead ==
    ASSUME NEW lines, NEW after, NEW N, Reads(lines, after, N), NEW items, NEW domain,
           NEW environment, NEW enabled, NEW T, NEW hosts \in Seq(T), NEW begins \in Nat,
           begins + 3 * Len(hosts) =< N,
           after[begins] = Now(items, "hosts", ItemOf(domain, environment, enabled, <<>>), NoHost),
           \A k \in 1..Len(hosts) : WrittenHost(lines, hosts[k], begins + 3 * (k - 1))
    PROVE  Flushed(after[begins + 3 * Len(hosts)],
                   Append(items, ItemOf(domain, environment, enabled, hosts)))
<1> DEFINE M == Len(hosts)
           first(k) == SubSeq(hosts, 1, k)
           with(k) == ItemOf(domain, environment, enabled, first(k))
           Right(k) == /\ after[begins + 3 * k] = Now(items, "hosts", with(k - 1), hosts[k])
                       /\ hosts[k] = HostOf(hosts[k].fqdn, hosts[k].enabled, hosts[k].notes)
           Wrong == {k \in 1..M : ~ Right(k)}
<1>1. M \in Nat /\ N \in Nat
  BY DEF Reads
<1>2. first(0) = <<>> /\ first(M) = hosts
  BY SubSeqEmpty, SubSeqFull
<1>3. \A k \in 1..M : first(k) = Append(first(k - 1), hosts[k])
  BY PrefixGrows
<1>4. ASSUME NEW k \in 1..M,
             ReadLine(after[begins + 3 * (k - 1)], HostLine(hosts[k].fqdn))
                = Now(items, "hosts", with(k - 1), NewHost(hosts[k].fqdn))
      PROVE  Right(k)
  <2> DEFINE start == begins + 3 * (k - 1)
             item == with(k - 1)
           host == hosts[k]
  <2>1. start \in Nat /\ start + 3 =< N /\ start + 3 = begins + 3 * k
    BY <1>1
  <2>2. WrittenHost(lines, host, start)
    OBVIOUS
  <2>3. ReadLine(after[start], HostLine(host.fqdn)) = Now(items, "hosts", item, NewHost(host.fqdn))
    BY <1>4
  <2> HIDE DEF start, item, with, host
  <2>4. /\ after[start + 3] = Now(items, "hosts", item, host)
        /\ host = HostOf(host.fqdn, host.enabled, host.notes)
    BY <2>1, <2>2, <2>3, HostRead
  <2> QED
    BY <2>1, <2>4 DEF item, host
<1>5. Wrong = {}
  <2> SUFFICES ASSUME Wrong # {}
               PROVE  FALSE
    OBVIOUS
  <2>1. Wrong \in SUBSET Nat
    OBVIOUS
  <2>2. PICK k \in Wrong : \A j \in Wrong : k =< j
    <3> HIDE DEF Wrong
    <3> QED
      BY <2>1, LeastNumber
  <2>3. k \in 1..M /\ ~ Right(k)
    BY <2>2
  <2>4. CASE k = 1
    <3>1. begins + 3 * (k - 1) = begins /\ first(k - 1) = <<>>
      BY <1>2, <2>4
    <3>2. ReadLine(Now(items, "hosts", with(0), NoHost), HostLine(hosts[k].fqdn))
            = Now(items, "hosts", with(0), NewHost(hosts[k].fqdn))
      <4> HIDE DEF with
      <4> QED
        BY FirstHostBegins
    <3>3. after[begins] = Now(items, "hosts", with(0), NoHost)
      <4> HIDE DEF first
      <4> QED
        BY <1>2
    <3>4. ReadLine(after[begins + 3 * (k - 1)], HostLine(hosts[k].fqdn))
            = Now(items, "hosts", with(k - 1), NewHost(hosts[k].fqdn))
      BY <2>4, <3>1, <3>2, <3>3
    <3> HIDE DEF Right
    <3> QED
      BY <1>4, <2>3, <3>4
  <2>5. CASE k # 1
    <3>1. k - 1 \in 1..M /\ k - 1 \notin Wrong
      BY <1>1, <2>2, <2>3, <2>5
    <3>2. Right(k - 1)
      BY <3>1
    <3> DEFINE j == k - 1
               host == hosts[j]
    <3>3. /\ after[begins + 3 * j] = Now(items, "hosts", with(j - 1), host)
          /\ host = HostOf(host.fqdn, host.enabled, host.notes)
      BY <3>2
    <3>4. ReadLine(Now(items, "hosts", with(j - 1), HostOf(host.fqdn, host.enabled, host.notes)),
                   HostLine(hosts[k].fqdn))
            = Now(items, "hosts", ItemOf(domain, environment, enabled,
                        Append(first(j - 1), HostOf(host.fqdn, host.enabled, host.notes))),
                  NewHost(hosts[k].fqdn))
      <4> HIDE DEF first, host, j
      <4> QED
        BY NextHostBegins
    <3>5. first(j) = Append(first(j - 1), host)
      BY <1>3, <3>1
    <3> HIDE DEF host, first
    <3>6. ReadLine(after[begins + 3 * j], HostLine(hosts[k].fqdn))
            = Now(items, "hosts", with(j), NewHost(hosts[k].fqdn))
      BY <3>3, <3>4, <3>5
    <3> HIDE DEF Right, with
    <3> QED
      BY <1>4, <2>3, <3>6
  <2> QED
    BY <2>4, <2>5
<1>6. CASE M = 0
  <2>1. hosts = <<>> /\ begins + 3 * M = begins
    BY <1>6
  <2>2. Flushed(Now(items, "hosts", ItemOf(domain, environment, enabled, hosts), NoHost),
                Append(items, ItemOf(domain, environment, enabled, hosts)))
    BY BareItemEnds
  <2> QED
    BY <2>1, <2>2
<1>7. CASE M # 0
  <2>1. M \in 1..M /\ M \notin Wrong
    BY <1>1, <1>5, <1>7
  <2> DEFINE host == hosts[M]
             before == first(M - 1)
  <2>2. Right(M)
    BY <2>1
  <2>3. /\ after[begins + 3 * M] = Now(items, "hosts", ItemOf(domain, environment, enabled, before), host)
        /\ host = HostOf(host.fqdn, host.enabled, host.notes)
    BY <2>2
  <2>4. hosts = Append(before, host)
    BY <1>2, <1>3, <2>1
  <2> HIDE DEF before, host
  <2>5. Flushed(Now(items, "hosts", ItemOf(domain, environment, enabled, before),
                    HostOf(host.fqdn, host.enabled, host.notes)),
                Append(items, ItemOf(domain, environment, enabled,
                                Append(before, HostOf(host.fqdn, host.enabled, host.notes)))))
    BY LastHostEnds
  <2> QED
    BY <2>3, <2>4, <2>5
<1> QED
  BY <1>6, <1>7

\* An item with its hosts.
LEMMA SequenceIs ==
    ASSUME NEW s, s \in Seq({s[k] : k \in DOMAIN s})
    PROVE  Len(s) \in Nat /\ DOMAIN s = 1..Len(s) /\ (s # <<>> => Len(s) # 0)
<1> DEFINE T == {s[k] : k \in DOMAIN s}
<1>1. s \in Seq(T)
  OBVIOUS
<1> HIDE DEF T
<1> QED
  BY <1>1

LEMMA ItemRead ==
    ASSUME NEW lines, NEW after, NEW N, Reads(lines, after, N), NEW items, NEW item,
           NEW start \in Nat \ {0}, WrittenItem(lines, item, start),
           Flushed(after[start - 1], items),
           HostsLine(item, start) + 3 * Len(item.hosts) =< N
    PROVE  Flushed(after[HostsLine(item, start) + 3 * Len(item.hosts)], Append(items, item))
<1> DEFINE begins == HostsLine(item, start)
           domain == item.domain
           environment == item.environment
           enabled == item.enabled
           hosts == item.hosts
<1>1. /\ item = ItemOf(domain, environment, enabled, hosts) /\ enabled \in BOOLEAN
      /\ hosts \in Seq({hosts[k] : k \in DOMAIN hosts})
      /\ lines[start] = ItemLine(domain)
      /\ environment # "" => lines[start + 1] = FieldLine(2, "environment", environment)
      /\ lines[begins - 1] = FieldLine(2, "enabled", YesNo(enabled))
      /\ lines[begins] = FieldLine(2, "key_hosts", "")
      /\ \A k \in DOMAIN hosts : WrittenHost(lines, hosts[k], begins + 3 * (k - 1))
  BY DEF WrittenItem, ItemOf, ItemLine, FieldLine
<1>2. /\ environment = "" => begins = start + 2
      /\ environment # "" => begins = start + 3
  BY DEF HostsLine
<1>3. begins + 3 * Len(hosts) =< N
  OBVIOUS
<1> HIDE DEF begins, domain, environment, enabled, hosts
<1>4. N \in Nat /\ Len(hosts) \in Nat /\ begins \in Nat /\ begins >= start + 2 /\ begins =< N
  <2>1. Len(hosts) \in Nat
    BY <1>1, SequenceIs
  <2>2. begins = start + 2 \/ begins = start + 3
    BY <1>2
  <2>3. N \in Nat
    BY DEF Reads
  <2>4. start \in Nat /\ start # 0
    OBVIOUS
  <2> DEFINE n == Len(hosts)
  <2> HIDE DEF n
  <2>5. n \in Nat /\ begins + 3 * n =< N
    BY <1>3, <2>1 DEF n
  <2>6. begins \in Nat /\ begins >= start + 2
    BY <2>2, <2>4
  <2>7. begins =< N
    BY <2>3, <2>5, <2>6
  <2> QED
    BY <2>3, <2>5, <2>6, <2>7 DEF n
<1>5. \A n \in 1..N : after[n] = ReadLine(after[n - 1], lines[n])
  BY DEF Reads
<1>6. after[start] = Now(items, "item", NewItem(domain), NoHost)
  <2>1. start \in 1..N
    BY <1>4
  <2>2. ReadLine(after[start - 1], ItemLine(domain)) = Now(items, "item", NewItem(domain), NoHost)
    BY ItemBegins
  <2> QED
    BY <1>1, <1>5, <2>1, <2>2
<1>7. PICK flag, none : NewItem(domain) = ItemOf(domain, none, flag, <<>>) /\ none = ""
  BY NewItemIs
<1>8. after[begins - 2] = Now(items, "item", ItemOf(domain, environment, flag, <<>>), NoHost)
  <2>1. CASE environment = ""
    <3>1. begins = start + 2 /\ environment = none /\ start \in Nat
      BY <1>2, <1>7, <2>1
    <3>2. begins - 2 = start
      BY <3>1
    <3> QED
      BY <1>6, <1>7, <3>1, <3>2
  <2>2. CASE environment # ""
    <3>1. begins - 2 = start + 1 /\ start + 1 \in 1..N /\ (start + 1) - 1 = start
      <4>1. begins = start + 3 /\ start \in Nat
        BY <1>2, <2>2
      <4> QED
        BY <1>4, <4>1
    <3>2. after[start + 1] = ReadLine(after[(start + 1) - 1], lines[start + 1])
      BY <1>5, <3>1
    <3>3. lines[start + 1] = FieldLine(2, "environment", environment)
      BY <1>1, <2>2
    <3>4. ReadLine(Now(items, "item", ItemOf(domain, none, flag, <<>>), NoHost),
                   FieldLine(2, "environment", environment))
            = Now(items, "item", ItemOf(domain, environment, flag, <<>>), NoHost)
      BY EnvironmentRead
    <3> QED
      BY <1>6, <1>7, <3>1, <3>2, <3>3, <3>4
  <2> QED
    BY <2>1, <2>2
<1>9. after[begins - 1] = Now(items, "item", ItemOf(domain, environment, enabled, <<>>), NoHost)
  <2>1. begins - 1 \in 1..N /\ (begins - 1) - 1 = begins - 2
    BY <1>4
  <2>2. after[begins - 1] = ReadLine(after[(begins - 1) - 1], lines[begins - 1])
    BY <1>5, <2>1
  <2>3. enabled \in BOOLEAN /\ lines[begins - 1] = FieldLine(2, "enabled", YesNo(enabled))
    BY <1>1
  <2>4. ReadLine(Now(items, "item", ItemOf(domain, environment, flag, <<>>), NoHost),
                 FieldLine(2, "enabled", YesNo(enabled)))
          = Now(items, "item", ItemOf(domain, environment, enabled, <<>>), NoHost)
    BY <2>3, EnabledRead
  <2> QED
    BY <1>8, <2>1, <2>2, <2>3, <2>4
<1>10. after[begins] = Now(items, "hosts", ItemOf(domain, environment, enabled, <<>>), NoHost)
  <2>1. begins \in 1..N
    BY <1>4
  <2>2. after[begins] = ReadLine(after[begins - 1], lines[begins])
    BY <1>5, <2>1
  <2> DEFINE value == ""
             item0 == ItemOf(domain, environment, enabled, <<>>)
  <2>3. lines[begins] = FieldLine(2, "key_hosts", value)
    BY <1>1
  <2> HIDE DEF value, item0
  <2>4. ReadLine(Now(items, "item", item0, NoHost), FieldLine(2, "key_hosts", value))
          = Now(items, "hosts", item0, NoHost)
    BY HostsBegin
  <2> QED
    BY <1>9, <2>2, <2>3, <2>4 DEF item0
<1>11. Flushed(after[begins + 3 * Len(hosts)],
               Append(items, ItemOf(domain, environment, enabled, hosts)))
  <2> DEFINE T == {hosts[k] : k \in DOMAIN hosts}
  <2>1. hosts \in Seq(T) /\ DOMAIN hosts = 1..Len(hosts)
    BY <1>1, SequenceIs
  <2>2. \A k \in 1..Len(hosts) : WrittenHost(lines, hosts[k], begins + 3 * (k - 1))
    BY <1>1, <2>1
  <2> HIDE DEF T
  <2> QED
    BY <1>3, <1>4, <1>10, <2>1, <2>2, HostsRead
<1> QED
  BY <1>1, <1>11 DEF begins, hosts

\* All items of a manifest.
LEMMA ItemsWithin ==
    ASSUME NEW lines, NEW items, NEW at, Written(lines, items, at)
    PROVE  /\ Len(lines) \in Nat /\ Len(items) \in Nat \ {0}
           /\ \A i \in 1..Len(items) :
                /\ at[i] \in Nat \ {0} /\ at[i + 1] =< Len(lines) + 1
                /\ at[i + 1] - 1 = HostsLine(items[i], at[i]) + 3 * Len(items[i].hosts)
<1> DEFINE M == Len(items)
           N == Len(lines)
<1>1. /\ M \in Nat \ {0} /\ N \in Nat /\ DOMAIN items = 1..M
      /\ at \in [1..(M + 1) -> Nat] /\ at[1] = 1 /\ at[M + 1] = N + 1
      /\ \A i \in 1..M : /\ WrittenItem(lines, items[i], at[i])
                          /\ at[i + 1] = HostsLine(items[i], at[i]) + 3 * Len(items[i].hosts) + 1
  <2>1. M \in Nat /\ DOMAIN items = 1..M /\ M # 0 /\ N \in Nat
    BY SequenceIs DEF Written
  <2> QED
    BY <2>1 DEF Written
<1> HIDE DEF M, N
<1>2. ASSUME NEW i \in 1..M
      PROVE  /\ at[i] \in Nat /\ at[i + 1] \in Nat /\ at[i + 1] > at[i]
             /\ at[i + 1] - 1 = HostsLine(items[i], at[i]) + 3 * Len(items[i].hosts)
  <2> DEFINE n == Len(items[i].hosts)
  <2>1. n \in Nat
    <3>1. items[i].hosts \in Seq({items[i].hosts[k] : k \in DOMAIN items[i].hosts})
      BY <1>1 DEF WrittenItem
    <3> QED
      BY <3>1, SequenceIs
  <2>2. HostsLine(items[i], at[i]) = at[i] + 2 \/ HostsLine(items[i], at[i]) = at[i] + 3
    BY DEF HostsLine
  <2>3. at[i] \in Nat /\ at[i + 1] \in Nat /\ i + 1 \in 1..(M + 1)
    BY <1>1
  <2>4. at[i + 1] = HostsLine(items[i], at[i]) + 3 * n + 1
    BY <1>1
  <2> HIDE DEF n
  <2> DEFINE h == HostsLine(items[i], at[i])
  <2>5. h \in Nat /\ h > at[i] /\ at[i + 1] - 1 = h + 3 * n
    BY <2>1, <2>2, <2>3, <2>4
  <2> QED
    BY <2>1, <2>3, <2>4, <2>5 DEF n
<1>3. \A i \in 1..(M + 1) : at[i] =< N + 1
  <2> DEFINE Over == {i \in 1..(M + 1) : ~ (at[i] =< N + 1)}
  <2> SUFFICES ASSUME Over # {}
               PROVE  FALSE
    OBVIOUS
  <2>1. PICK i \in Over : \A j \in Over : j =< i
    <3>1. M + 1 \in Nat /\ Over \in SUBSET (1..(M + 1))
      BY <1>1
    <3> HIDE DEF Over
    <3> QED
      BY <3>1, GreatestNumber
  <2>2. i \in 1..M
    BY <1>1, <2>1
  <2>3. i + 1 \in 1..(M + 1) /\ i + 1 \notin Over
    BY <1>1, <2>1, <2>2
  <2>4. at[i + 1] =< N + 1
    BY <2>3
  <2> QED
    BY <1>1, <1>2, <2>1, <2>2, <2>4
<1>4. \A i \in 1..(M + 1) : at[i] >= 1
  <2> DEFINE Under == {i \in 1..(M + 1) : ~ (at[i] >= 1)}
  <2> SUFFICES ASSUME Under # {}
               PROVE  FALSE
    OBVIOUS
  <2>1. PICK i \in Under : i # 1
    BY <1>1
  <2>2. i - 1 \in 1..M /\ (i - 1) + 1 = i
    BY <1>1, <2>1
  <2>3. at[(i - 1) + 1] > at[i - 1] /\ at[i - 1] \in Nat
    BY <1>2, <2>2
  <2> QED
    BY <1>1, <2>1, <2>2, <2>3
<1>5. ASSUME NEW i \in 1..M
      PROVE  /\ at[i] \in Nat \ {0} /\ at[i + 1] =< N + 1
             /\ at[i + 1] - 1 = HostsLine(items[i], at[i]) + 3 * Len(items[i].hosts)
  <2>1. i \in 1..(M + 1) /\ i + 1 \in 1..(M + 1)
    BY <1>1
  <2> QED
    BY <1>2, <1>3, <1>4, <2>1
<1> QED
  BY <1>1, <1>5 DEF M, N

LEMMA ManifestItems ==
    ASSUME NEW lines, NEW items, NEW at, Written(lines, items, at)
    PROVE  parseYAMLSubsetManifest(lines) = items
<1> DEFINE M == Len(items)
           N == Len(lines)
           after == Reading(lines)
           first(i) == SubSeq(items, 1, i)
           Right(i) == Flushed(after[at[i + 1] - 1], first(i))
           Wrong == {i \in 0..M : ~ Right(i)}
<1>1. /\ M \in Nat \ {0} /\ N \in Nat
      /\ \A i \in 1..M : /\ at[i] \in Nat \ {0} /\ at[i + 1] =< N + 1
                          /\ at[i + 1] - 1 = HostsLine(items[i], at[i]) + 3 * Len(items[i].hosts)
  BY ItemsWithin
<1>2. /\ items \in Seq({items[i] : i \in DOMAIN items}) /\ items # <<>> /\ DOMAIN items = 1..M
      /\ at \in [1..(M + 1) -> Nat] /\ at[1] = 1 /\ at[M + 1] = N + 1
      /\ \A i \in 1..M : WrittenItem(lines, items[i], at[i])
  <2>1. DOMAIN items = 1..M
    BY SequenceIs DEF Written
  <2> QED
    BY <2>1 DEF Written
<1>3. Reads(lines, after, N)
  BY <1>1, ReadingReads
<1> HIDE DEF M, N, after
<1>4. first(0) = <<>> /\ first(M) = items
  BY <1>2, SubSeqEmpty, SubSeqFull DEF M
<1>5. ASSUME NEW i \in 1..M
      PROVE  first(i) = Append(first(i - 1), items[i])
  BY <1>2, PrefixGrows DEF M
<1> HIDE DEF first
<1>6. Wrong = {}
  <2> SUFFICES ASSUME Wrong # {}
               PROVE  FALSE
    OBVIOUS
  <2>1. Wrong \in SUBSET Nat
    BY <1>1
  <2>2. PICK i \in Wrong : \A j \in Wrong : i =< j
    <3> HIDE DEF Wrong
    <3> QED
      BY <2>1, LeastNumber
  <2>3. i \in 0..M /\ ~ Right(i)
    BY <2>2
  <2>4. CASE i = 0
    <3>1. at[i + 1] - 1 = 0
      BY <1>2, <2>4
    <3>2. after[0] = Reader
      BY <1>3 DEF Reads
    <3> QED
      BY <1>4, <2>3, <2>4, <3>1, <3>2, NothingRead
  <2>5. CASE i # 0
    <3> DEFINE start == at[i]
               item == items[i]
               done == first(i - 1)
    <3>1. i \in 1..M /\ i - 1 \in 0..M /\ i - 1 \notin Wrong /\ (i - 1) + 1 = i
      BY <1>1, <2>2, <2>3, <2>5
    <3>2. Right(i - 1)
      BY <3>1
    <3>3. Flushed(after[start - 1], done)
      BY <3>1, <3>2
    <3>4. /\ start \in Nat \ {0} /\ WrittenItem(lines, item, start)
          /\ at[i + 1] - 1 = HostsLine(item, start) + 3 * Len(item.hosts)
          /\ at[i + 1] =< N + 1 /\ at[i + 1] \in Nat
      <4>1. i + 1 \in 1..(M + 1)
        BY <1>1, <3>1
      <4> QED
        BY <1>1, <1>2, <3>1, <4>1
    <3>5. first(i) = Append(done, item)
      BY <1>5, <3>1
    <3> HIDE DEF start, item, done
    <3> DEFINE last == HostsLine(item, start) + 3 * Len(item.hosts)
    <3>6. last =< N
      BY <1>1, <3>4
    <3>7. Flushed(after[last], Append(done, item))
      BY <1>3, <3>3, <3>4, <3>6, ItemRead
    <3> QED
      BY <2>3, <3>4, <3>5, <3>7
  <2> QED
    BY <2>4, <2>5
<1>7. Flushed(after[N], items)
  <2>1. M \in 0..M /\ at[M + 1] - 1 = N
    BY <1>1, <1>2
  <2>2. Right(M)
    BY <1>6, <2>1
  <2> QED
    BY <1>4, <2>1, <2>2
<1>8. flushItem(after[N]).items = items
  BY <1>7 DEF Flushed, Now
<1>9. lines[1] = Line(0, TRUE, "domain", items[1].domain)
  <2>1. 1 \in 1..M
    BY <1>1
  <2> QED
    BY <1>2, <2>1 DEF WrittenItem
<1>10. lines[1].indent = 0 /\ lines[1].dash
  BY <1>9 DEF Line
<1> QED
  BY <1>2, <1>8, <1>10 DEF parseYAMLSubsetManifest, after, N

LEMMA ManifestIsReadBack == IInv => ManifestIsRead
<1> SUFFICES ASSUME IInv, Is("manifest")
             PROVE  result.items = given.items
  BY DEF ManifestIsRead
<1>1. Written(given.lines, given.items, given.at) /\ result = ManifestRead(given)
  BY RulesAssumption DEF IInv, Is
<1>2. parseYAMLSubsetManifest(given.lines) = given.items
  BY <1>1, ManifestItems
<1> QED
  BY <1>1, <1>2 DEF ManifestRead

\* The names of some hosts are those, once each.
NamedOnce(hosts, names) ==
    /\ \A a, b \in DOMAIN hosts : hosts[a].fqdn = hosts[b].fqdn => a = b
    /\ {hosts[k].fqdn : k \in DOMAIN hosts} = names

Listed(hosts) == {hosts[k].fqdn : k \in DOMAIN hosts} \ {NoName}

LEMMA ApexOnce ==
    ASSUME NEW item, "hosts" \in DOMAIN item,
           item.hosts \in Seq({item.hosts[k] : k \in DOMAIN item.hosts})
    PROVE  NamedOnce(withApex(item).hosts, {item.domain} \cup Listed(item.hosts))
<1> DEFINE H == item.hosts
           M == Len(H)
           first(i) == \A j \in 1..(i - 1) : H[j].fqdn # H[i].fqdn
           places == {i \in DOMAIN H : first(i) /\ H[i].fqdn # NoName}
           at == At(places)
           N == Cardinality(places)
           K == Kept(H, places)
           apex == [NewHost(item.domain) EXCEPT !.notes = "auto apex"]
<1>1. M \in Nat /\ DOMAIN H = 1..M
  BY SequenceIs
<1>2. places \subseteq 1..M
  BY <1>1
<1>3. withApex(item).hosts
        = IF \E i \in DOMAIN K : K[i].fqdn = item.domain THEN K ELSE <<apex>> \o K
  BY DEF withApex
<1>4. apex.fqdn = item.domain
  BY DEF NewHost
<1>5. \A i \in places : \A j \in places : i < j => H[i].fqdn # H[j].fqdn
  <2> SUFFICES ASSUME NEW i \in places, NEW j \in places, i < j
               PROVE  H[i].fqdn # H[j].fqdn
    OBVIOUS
  <2>1. i \in 1..(j - 1) /\ first(j)
    BY <1>2
  <2> HIDE DEF places
  <2> QED
    BY <2>1
<1>6. \A i \in places : H[i].fqdn \in Listed(H)
  BY DEF Listed
<1>7. \A name \in Listed(H) : \E i \in places : H[i].fqdn = name
  <2> SUFFICES ASSUME NEW name \in Listed(H)
               PROVE  \E i \in places : H[i].fqdn = name
    OBVIOUS
  <2> DEFINE Same == {i \in 1..M : H[i].fqdn = name}
  <2>1. Same # {} /\ Same \in SUBSET Nat /\ name # NoName
    BY <1>1 DEF Listed
  <2>2. PICK i \in Same : \A j \in Same : i =< j
    <3> HIDE DEF Same
    <3> QED
      BY <2>1, LeastNumber
  <2>3. i \in 1..M /\ H[i].fqdn = name
    BY <2>2
  <2>4. first(i)
    <3> SUFFICES ASSUME NEW j \in 1..(i - 1), H[j].fqdn = H[i].fqdn
                 PROVE  FALSE
      OBVIOUS
    <3>1. j \in Same /\ j < i
      BY <1>1, <2>3
    <3> QED
      BY <2>2, <3>1
  <2>5. i \in places
    BY <1>1, <2>1, <2>3, <2>4
  <2> QED
    BY <2>3, <2>5
<1> HIDE DEF places
<1>8. KeptAt(H, places, at, N)
  BY <1>1, <1>2, KeptIs
<1> HIDE DEF at, N
<1>9. /\ N \in Nat /\ K = [k \in 1..N |-> H[at[k]]] /\ \A k \in 1..N : at[k] \in places
      /\ \A i, j \in 1..N : i < j => at[i] < at[j]
      /\ \A p \in places : \E k \in 1..N : at[k] = p
  BY <1>8 DEF KeptAt, Ascends
<1> HIDE DEF K, H
<1>10. DOMAIN K = 1..N /\ \A k \in 1..N : K[k].fqdn = H[at[k]].fqdn
  BY <1>9
<1>11. \A a, b \in 1..N : K[a].fqdn = K[b].fqdn => a = b
  <2> SUFFICES ASSUME NEW a \in 1..N, NEW b \in 1..N, a < b
               PROVE  K[a].fqdn # K[b].fqdn
    BY <1>9
  <2>1. at[a] \in places /\ at[b] \in places /\ at[a] < at[b]
    BY <1>9
  <2> QED
    BY <1>5, <1>10, <2>1
<1>12. {K[k].fqdn : k \in 1..N} = Listed(H)
  <2>1. \A k \in 1..N : K[k].fqdn \in Listed(H)
    BY <1>6, <1>9, <1>10
  <2>2. \A name \in Listed(H) : \E k \in 1..N : K[k].fqdn = name
    BY <1>7, <1>9, <1>10
  <2> QED
    BY <2>1, <2>2
<1>13. CASE \E i \in DOMAIN K : K[i].fqdn = item.domain
  <2>1. withApex(item).hosts = K /\ item.domain \in Listed(H)
    BY <1>3, <1>10, <1>12, <1>13
  <2>2. {K[k].fqdn : k \in DOMAIN K} = {item.domain} \cup Listed(H)
    BY <1>10, <1>12, <2>1
  <2>3. \A a, b \in DOMAIN K : K[a].fqdn = K[b].fqdn => a = b
    BY <1>10, <1>11
  <2> QED
    BY <2>1, <2>2, <2>3 DEF NamedOnce, H
<1>14. CASE ~ \E i \in DOMAIN K : K[i].fqdn = item.domain
  <2> DEFINE W == <<apex>> \o K
  <2>1. /\ DOMAIN W = 1..(N + 1) /\ W[1].fqdn = item.domain
        /\ \A k \in 1..N : W[k + 1] = K[k]
    <3> DEFINE T == {apex} \cup {K[k] : k \in 1..N}
    <3>1. K \in Seq(T) /\ Len(K) = N
      <4>1. K = [k \in 1..N |-> K[k]] /\ \A k \in 1..N : K[k] \in T
        BY <1>9
      <4> HIDE DEF T
      <4> QED
        BY <1>9, <4>1, IsASeq
    <3>2. apex \in T
      OBVIOUS
    <3> HIDE DEF T, apex
    <3>3. /\ DOMAIN W = 1..(N + 1) /\ W[1] = apex
          /\ \A k \in 1..N : W[k + 1] = K[k]
      BY <1>9, <3>1, <3>2
    <3> QED
      BY <1>4, <3>3 DEF apex
  <2>2. withApex(item).hosts = W
    BY <1>3, <1>14
  <2> HIDE DEF W
  <2>3. \A k \in 1..N : K[k].fqdn # item.domain
    BY <1>10, <1>14
  <2>4. \A a \in 1..(N + 1) : a = 1 \/ (a - 1 \in 1..N /\ W[a] = K[a - 1])
    <3> SUFFICES ASSUME NEW a \in 1..(N + 1), a # 1
                 PROVE  a - 1 \in 1..N /\ W[a] = K[a - 1]
      OBVIOUS
    <3>1. a - 1 \in 1..N /\ (a - 1) + 1 = a
      BY <1>9
    <3> QED
      BY <2>1, <3>1
  <2>5. \A a, b \in 1..(N + 1) : W[a].fqdn = W[b].fqdn => a = b
    <3> SUFFICES ASSUME NEW a \in 1..(N + 1), NEW b \in 1..(N + 1), W[a].fqdn = W[b].fqdn
                 PROVE  a = b
      OBVIOUS
    <3>1. CASE a = 1 \/ b = 1
      BY <2>1, <2>3, <2>4, <3>1
    <3>2. CASE a # 1 /\ b # 1
      <4>1. a - 1 \in 1..N /\ b - 1 \in 1..N /\ K[a - 1].fqdn = K[b - 1].fqdn
        BY <2>4, <3>2
      <4>2. a - 1 = b - 1
        BY <1>11, <4>1
      <4> QED
        BY <1>9, <4>2
    <3> QED
      BY <3>1, <3>2
  <2>6. {W[k].fqdn : k \in 1..(N + 1)} = {item.domain} \cup Listed(H)
    <3>1. \A k \in 1..(N + 1) : W[k].fqdn \in {item.domain} \cup Listed(H)
      BY <1>12, <2>1, <2>4
    <3>2. \A name \in {item.domain} \cup Listed(H) : \E k \in 1..(N + 1) : W[k].fqdn = name
      <4> SUFFICES ASSUME NEW name \in {item.domain} \cup Listed(H)
                   PROVE  \E k \in 1..(N + 1) : W[k].fqdn = name
        OBVIOUS
      <4>1. CASE name = item.domain
        BY <1>9, <2>1, <4>1
      <4>2. CASE name \in Listed(H)
        <5>1. PICK k \in 1..N : K[k].fqdn = name
          BY <1>12, <4>2
        <5>2. k + 1 \in 1..(N + 1) /\ W[k + 1].fqdn = name
          BY <1>9, <2>1, <5>1
        <5> QED
          BY <5>2
      <4> QED
        BY <4>1, <4>2
    <3> QED
      BY <3>1, <3>2
  <2> DEFINE names == {item.domain} \cup Listed(H)
  <2> HIDE DEF names
  <2>7. {W[k].fqdn : k \in 1..(N + 1)} = names
    BY <2>6 DEF names
  <2>8. NamedOnce(W, names)
    BY <2>1, <2>5, <2>7 DEF NamedOnce
  <2> QED
    BY <2>2, <2>8 DEF H, names
<1> QED
  BY <1>13, <1>14

LEMMA ManifestNormal == IInv => NormalManifest
<1> SUFFICES ASSUME IInv, Is("manifest"), result.normal # Refused, NEW i \in DOMAIN result.normal.items
             PROVE  LET item == result.normal.items[i]
                        names == [k \in DOMAIN item.hosts |-> item.hosts[k].fqdn]
                        listed == {given.items[i].hosts[k].fqdn : k \in DOMAIN given.items[i].hosts}
                    IN /\ IsInjective(names)
                       /\ ToSet(names) = {item.domain} \cup (listed \ {NoName})
                       /\ item.environment = result.normal.environment
  BY DEF NormalManifest
<1> DEFINE items == given.items
           item == items[i]
           normal == result.normal.items[i]
           hosts == withApex(item).hosts
<1>1. Written(given.lines, items, given.at) /\ result = ManifestRead(given)
  BY RulesAssumption DEF IInv, Is
<1>2. parseYAMLSubsetManifest(given.lines) = items
  BY <1>1, ManifestItems
<1>3. result.normal = IF items = Refused THEN Refused ELSE normalizeManifest(items)
  BY <1>1, <1>2 DEF ManifestRead
<1>4. /\ result.normal.items
            = [n \in DOMAIN items |-> [withApex(items[n]) EXCEPT !.environment = EnvironmentOf(items[n])]]
      /\ result.normal.environment = EnvironmentOf(items[1])
      /\ \A n \in DOMAIN items : EnvironmentOf(items[n]) = EnvironmentOf(items[1])
  <2>1. items # <<>>
    BY <1>1 DEF Written
  <2> QED
    BY <1>3, <2>1 DEF normalizeManifest
<1>5. i \in DOMAIN items /\ normal = [withApex(item) EXCEPT !.environment = EnvironmentOf(item)]
  BY <1>4
<1>6. /\ item = [domain |-> item.domain, environment |-> item.environment,
                 enabled |-> item.enabled, hosts |-> item.hosts]
      /\ item.hosts \in Seq({item.hosts[k] : k \in DOMAIN item.hosts})
  <2>1. DOMAIN items = 1..Len(items)
    BY <1>1, SequenceIs DEF Written
  <2> QED
    BY <1>1, <1>5, <2>1 DEF Written, WrittenItem
<1>7. normal.hosts = hosts /\ normal.domain = item.domain /\ normal.environment = EnvironmentOf(item)
  BY <1>5, <1>6 DEF withApex
<1>8. NamedOnce(hosts, {item.domain} \cup Listed(item.hosts))
  <2>1. "hosts" \in DOMAIN item
    BY <1>6
  <2> HIDE DEF item
  <2> QED
    BY <1>6, <2>1, ApexOnce
<1> HIDE DEF hosts, normal, item
<1>9. IsInjective([k \in DOMAIN normal.hosts |-> normal.hosts[k].fqdn])
  BY <1>7, <1>8 DEF IsInjective, NamedOnce
<1>10. ToSet([k \in DOMAIN normal.hosts |-> normal.hosts[k].fqdn])
        = {normal.domain} \cup ({item.hosts[k].fqdn : k \in DOMAIN item.hosts} \ {NoName})
  BY <1>7, <1>8 DEF ToSet, NamedOnce, Listed
<1>11. normal.environment = result.normal.environment
  BY <1>4, <1>5, <1>7 DEF item
<1> QED
  BY <1>9, <1>10, <1>11 DEF normal, item

\* Targets, columns, manifests and samples are read as they were given (batch.go
\* 62-171, 864-898; trust.go 114-307).
THEOREM InputIsAlwaysRead == Spec => []InputIsRead
<1>1. IInv => InputIsRead
  BY TextIsRead, CsvIsRead, ManifestIsReadBack, ManifestNormal, DayIsMeasured DEF InputIsRead
<1> QED
  BY <1>1, Computed, PTL

-----------------------------------------------------------------------------
(* A probe on the board.                                                   *)

\* The names of the API are told apart.
LEMMA NamesDiffer == \A a, b \in DOMAIN ApiName : ApiName[a] = ApiName[b] => a = b
BY DEF ApiName

\* The detail has its values under the new names.
LEMMA DetailRenamed ==
    ASSUME NEW detail, DOMAIN detail \subseteq DOMAIN ApiName
    PROVE  /\ DOMAIN protocolDetailForAPI(detail) = {ApiName[old] : old \in DOMAIN detail}
           /\ \A old \in DOMAIN detail : protocolDetailForAPI(detail)[ApiName[old]] = detail[old]
<1> DEFINE name(new) == CHOOSE old \in DOMAIN detail : ApiName[old] = new
<1>1. protocolDetailForAPI(detail)
        = [new \in {ApiName[old] : old \in DOMAIN detail} |-> detail[name(new)]]
  BY DEF protocolDetailForAPI
<1>2. \A old \in DOMAIN detail : name(ApiName[old]) = old
  BY NamesDiffer
<1> HIDE DEF name
<1> QED
  BY <1>1, <1>2

LEMMA HttpDetail ==
    ASSUME NEW status, NEW time
    PROVE  LET d == protocolDetailForAPI([http_status |-> status, total_ms |-> time])
           IN /\ Number(d, "httpStatus") = IF status # Nil THEN status ELSE 0
              /\ Number(d, "totalMs") = IF time # Nil THEN time ELSE 0
<1> DEFINE detail == [http_status |-> status, total_ms |-> time]
           d == protocolDetailForAPI(detail)
<1>1. DOMAIN detail = {"http_status", "total_ms"} /\ detail["http_status"] = status /\ detail["total_ms"] = time
  OBVIOUS
<1>2. /\ {"http_status", "total_ms"} \subseteq DOMAIN ApiName
      /\ ApiName["http_status"] = "httpStatus" /\ ApiName["total_ms"] = "totalMs"
  BY DEF ApiName
<1> HIDE DEF detail
<1>3. /\ DOMAIN d = {ApiName[old] : old \in DOMAIN detail}
      /\ \A old \in DOMAIN detail : d[ApiName[old]] = detail[old]
  BY <1>1, <1>2, DetailRenamed
<1> HIDE DEF d
<1>4. /\ "httpStatus" \in DOMAIN d /\ d["httpStatus"] = status
      /\ "totalMs" \in DOMAIN d /\ d["totalMs"] = time
  BY <1>1, <1>2, <1>3
<1>5. /\ Number(d, "httpStatus") = IF status # Nil THEN status ELSE 0
      /\ Number(d, "totalMs") = IF time # Nil THEN time ELSE 0
  BY <1>4 DEF Number, Found
<1> QED
  BY <1>5 DEF d, detail

LEMMA PingDetail ==
    ASSUME NEW loss, NEW avg
    PROVE  LET d == protocolDetailForAPI([loss_pct |-> loss, avg_ms |-> avg])
           IN /\ Number(d, "lossPct") = IF loss # Nil THEN loss ELSE 0
              /\ Number(d, "avgMs") = IF avg # Nil THEN avg ELSE 0
<1> DEFINE detail == [loss_pct |-> loss, avg_ms |-> avg]
           d == protocolDetailForAPI(detail)
<1>1. DOMAIN detail = {"loss_pct", "avg_ms"} /\ detail["loss_pct"] = loss /\ detail["avg_ms"] = avg
  OBVIOUS
<1>2. /\ {"loss_pct", "avg_ms"} \subseteq DOMAIN ApiName
      /\ ApiName["loss_pct"] = "lossPct" /\ ApiName["avg_ms"] = "avgMs"
  BY DEF ApiName
<1> HIDE DEF detail
<1>3. /\ DOMAIN d = {ApiName[old] : old \in DOMAIN detail}
      /\ \A old \in DOMAIN detail : d[ApiName[old]] = detail[old]
  BY <1>1, <1>2, DetailRenamed
<1> HIDE DEF d
<1>4. /\ "lossPct" \in DOMAIN d /\ d["lossPct"] = loss
      /\ "avgMs" \in DOMAIN d /\ d["avgMs"] = avg
  BY <1>1, <1>2, <1>3
<1>5. /\ Number(d, "lossPct") = IF loss # Nil THEN loss ELSE 0
      /\ Number(d, "avgMs") = IF avg # Nil THEN avg ELSE 0
  BY <1>4 DEF Number, Found
<1> QED
  BY <1>5 DEF d, detail

LEMMA MtrDetail ==
    ASSUME NEW hops, NEW reached
    PROVE  LET d == protocolDetailForAPI([hop_count |-> hops, destination_reached |-> reached,
                                          packet_loss_pct |-> Nil, avg_latency_ms |-> Nil])
           IN /\ Number(d, "packetLossPct") = 0 /\ Number(d, "avgMs") = 0
              /\ Unreached(d) <=> ~ reached
<1> DEFINE detail == [hop_count |-> hops, destination_reached |-> reached,
                      packet_loss_pct |-> Nil, avg_latency_ms |-> Nil]
           d == protocolDetailForAPI(detail)
           names == {"hop_count", "destination_reached", "packet_loss_pct", "avg_latency_ms"}
<1>1. /\ DOMAIN detail = names /\ detail["destination_reached"] = reached
      /\ detail["packet_loss_pct"] = Nil
  OBVIOUS
<1>2. /\ names \subseteq DOMAIN ApiName
      /\ ApiName["hop_count"] = "hopCount"
      /\ ApiName["destination_reached"] = "destinationReached"
      /\ ApiName["packet_loss_pct"] = "packetLossPct"
      /\ ApiName["avg_latency_ms"] = "avgLatencyMs"
  BY DEF ApiName
<1> HIDE DEF detail
<1>3. /\ DOMAIN d = {ApiName[old] : old \in DOMAIN detail}
      /\ \A old \in DOMAIN detail : d[ApiName[old]] = detail[old]
  BY <1>1, <1>2, DetailRenamed
<1> HIDE DEF d
<1>4. /\ "destinationReached" \in DOMAIN d /\ d["destinationReached"] = reached
      /\ d["packetLossPct"] = Nil
      /\ DOMAIN d = {"hopCount", "destinationReached", "packetLossPct", "avgLatencyMs"}
  BY <1>1, <1>2, <1>3
<1>5. Number(d, "packetLossPct") = 0 /\ Number(d, "avgMs") = 0
  BY <1>4 DEF Number, Found
<1>6. Unreached(d) <=> ~ reached
  BY <1>4 DEF Unreached, Found
<1> QED
  BY <1>5, <1>6 DEF d, detail

LEMMA TracerouteDetail ==
    ASSUME NEW hops \in Nat, NEW reached
    PROVE  LET d == protocolDetailForAPI([hop_count |-> hops, destination_reached |-> reached])
           IN Number(d, "hopCount") = hops /\ (Unreached(d) <=> ~ reached)
<1> DEFINE detail == [hop_count |-> hops, destination_reached |-> reached]
           d == protocolDetailForAPI(detail)
           names == {"hop_count", "destination_reached"}
<1>1. /\ DOMAIN detail = names /\ detail["destination_reached"] = reached
      /\ detail["hop_count"] = hops
  OBVIOUS
<1>2. /\ names \subseteq DOMAIN ApiName
      /\ ApiName["hop_count"] = "hopCount"
      /\ ApiName["destination_reached"] = "destinationReached"
  BY DEF ApiName
<1> HIDE DEF detail
<1>3. /\ DOMAIN d = {ApiName[old] : old \in DOMAIN detail}
      /\ \A old \in DOMAIN detail : d[ApiName[old]] = detail[old]
  BY <1>1, <1>2, DetailRenamed
<1> HIDE DEF d
<1>4. /\ "destinationReached" \in DOMAIN d /\ d["destinationReached"] = reached
      /\ "hopCount" \in DOMAIN d /\ d["hopCount"] = hops
  BY <1>1, <1>2, <1>3
<1>5. Number(d, "hopCount") = hops
  <2>1. hops # Nil
    BY NilAssumption
  <2> QED
    BY <1>4, <2>1 DEF Number, Found
<1>6. Unreached(d) <=> ~ reached
  BY <1>4 DEF Unreached, Found
<1> QED
  BY <1>5, <1>6 DEF d, detail

\* The sum of times that are all at least a limit.
SumsTo(times, n, f) == f = [k \in 0..n |-> IF k = 0 THEN 0 ELSE f[k - 1] + times[k]]

LEMMA SumsExist ==
    ASSUME NEW times, NEW n \in Nat
    PROVE  \E f : SumsTo(times, n, f)
<1> DEFINE Missing == {m \in Nat : ~ \E f : SumsTo(times, m, f)}
<1> SUFFICES ASSUME Missing # {}
             PROVE  FALSE
  OBVIOUS
<1>1. PICK m \in Missing : \A k \in Missing : m =< k
  BY LeastNumber
<1>2. CASE m = 0
  <2> DEFINE f == [k \in 0..0 |-> 0]
  <2>1. f = [k \in 0..0 |-> IF k = 0 THEN 0 ELSE f[k - 1] + times[k]]
    OBVIOUS
  <2> HIDE DEF f
  <2>2. SumsTo(times, 0, f)
    BY <2>1 DEF SumsTo
  <2> QED
    BY <1>1, <1>2, <2>2
<1>3. CASE m # 0
  <2>1. m - 1 \in Nat /\ m - 1 \notin Missing
    BY <1>1, <1>3
  <2>2. PICK f : SumsTo(times, m - 1, f)
    BY <2>1
  <2> DEFINE g == [k \in 0..m |-> IF k < m THEN f[k] ELSE f[k - 1] + times[k]]
  <2>3. \A k \in 0..m : g[k] = IF k = 0 THEN 0 ELSE g[k - 1] + times[k]
    <3> SUFFICES ASSUME NEW k \in 0..m
                 PROVE  g[k] = IF k = 0 THEN 0 ELSE g[k - 1] + times[k]
      OBVIOUS
    <3>1. CASE k < m
      <4>1. k \in 0..(m - 1) /\ g[k] = f[k]
        BY <2>1, <3>1
      <4>2. f[k] = IF k = 0 THEN 0 ELSE f[k - 1] + times[k]
        BY <2>2, <4>1 DEF SumsTo
      <4>3. k # 0 => g[k - 1] = f[k - 1]
        BY <2>1, <3>1
      <4> HIDE DEF g
      <4> QED
        BY <4>1, <4>2, <4>3
    <3>2. CASE k = m
      <4>1. g[k] = f[k - 1] + times[k]
        BY <3>2
      <4>2. g[k - 1] = f[k - 1]
        BY <1>1, <1>3, <3>2
      <4> HIDE DEF g
      <4> QED
        BY <1>3, <3>2, <4>1, <4>2
    <3>3. k < m \/ k = m
      BY <1>1
    <3> QED
      BY <3>1, <3>2, <3>3
  <2>4. g = [k \in 0..m |-> g[k]]
    OBVIOUS
  <2> HIDE DEF g
  <2>5. g = [k \in 0..m |-> IF k = 0 THEN 0 ELSE g[k - 1] + times[k]]
    BY <2>3, <2>4
  <2> QED
    BY <1>1, <2>5 DEF SumsTo
<1> QED
  BY <1>2, <1>3

LEMMA SumAtLeast ==
    ASSUME NEW times \in Seq(Nat), NEW limit \in Nat, \A k \in DOMAIN times : times[k] >= limit
    PROVE  SumOf(times) \in Nat /\ SumOf(times) >= limit * Len(times)
<1> DEFINE N == Len(times)
           f == CHOOSE g : SumsTo(times, N, g)
           Right(n) == f[n] \in Nat /\ f[n] >= limit * n
           Wrong == {n \in 0..N : ~ Right(n)}
<1>1. N \in Nat /\ DOMAIN times = 1..N
  OBVIOUS
<1>2. SumsTo(times, N, f)
  BY <1>1, SumsExist
<1>3. SumOf(times) = f[N]
  BY DEF SumOf, SumsTo
<1> HIDE DEF f, N
<1>4. \A k \in 0..N : f[k] = IF k = 0 THEN 0 ELSE f[k - 1] + times[k]
  BY <1>2 DEF SumsTo
<1>5. Wrong = {}
  <2> SUFFICES ASSUME Wrong # {}
               PROVE  FALSE
    OBVIOUS
  <2>1. PICK n \in Wrong : \A m \in Wrong : n =< m
    <3>1. Wrong \in SUBSET Nat
      BY <1>1
    <3> HIDE DEF Wrong
    <3> QED
      BY <3>1, LeastNumber
  <2>2. n \in 0..N /\ n \in Nat
    BY <1>1, <2>1
  <2>3. CASE n = 0
    BY <1>4, <2>1, <2>2, <2>3
  <2>4. CASE n # 0
    <3>1. n - 1 \in 0..N /\ n \in 1..N /\ Right(n - 1)
      BY <1>1, <2>1, <2>2, <2>4
    <3>2. f[n] = f[n - 1] + times[n] /\ times[n] \in Nat /\ times[n] >= limit
      <4>1. n \in DOMAIN times
        BY <1>1, <3>1
      <4>2. f[n] = IF n = 0 THEN 0 ELSE f[n - 1] + times[n]
        BY <1>4, <2>2
      <4> QED
        BY <2>4, <4>1, <4>2
    <3>3. f[n] \in Nat /\ f[n] >= limit * (n - 1) + limit
      BY <2>2, <3>1, <3>2
    <3>4. limit * (n - 1) + limit = limit * n
      BY <2>2
    <3> QED
      BY <2>1, <3>3, <3>4
  <2> QED
    BY <2>3, <2>4
<1>6. N \in 0..N
  BY <1>1
<1> QED
  BY <1>3, <1>5, <1>6 DEF N

\* An average below a limit has a time below it.
LEMMA SomeBelowAverage ==
    ASSUME NEW times \in Seq(Nat), times # <<>>, NEW limit \in Nat,
           SumOf(times) \div Len(times) < limit
    PROVE  \E k \in DOMAIN times : times[k] < limit
<1> SUFFICES ASSUME \A k \in DOMAIN times : times[k] >= limit
             PROVE  FALSE
  OBVIOUS
<1> DEFINE n == Len(times)
           sum == SumOf(times)
           q == sum \div n
<1>1. sum \in Nat /\ sum >= limit * n
  BY SumAtLeast
<1>2. n \in Nat /\ n > 0
  OBVIOUS
<1> HIDE DEF n, sum
<1>3. q \in Nat /\ sum < (q + 1) * n
  BY <1>1, <1>2
<1>4. q + 1 =< limit
  BY <1>3 DEF n, sum
<1>5. (q + 1) * n =< limit * n
  BY <1>2, <1>3, <1>4
<1> QED
  BY <1>1, <1>2, <1>3, <1>5

\* The row and its place on the board, of each kind of probe.
LEMMA FailedIsHigh ==
    ASSUME NEW p, p.protocol \in {"http", "ping", "mtr", "traceroute"}, p.seen.error
    PROVE  protocolAnomaly(StoredRow(p)) = "high"
<1>1. executeProtocol(p) = failedResult
  BY DEF executeProtocol, ExecuteHTTP, ExecutePING, ExecuteRoute
<1> DEFINE row == StoredRow(p)
<1>2. row.protocol = p.protocol /\ ~ row.success
  BY <1>1 DEF StoredRow, failedResult
<1> HIDE DEF row
<1>3. protocolAnomaly(row) = "high"
  <2>1. CASE row.protocol = "http"
    BY <1>2, <2>1 DEF protocolAnomaly
  <2>2. CASE row.protocol = "ping"
    BY <1>2, <2>2 DEF protocolAnomaly
  <2>3. CASE row.protocol = "mtr"
    BY <1>2, <2>3 DEF protocolAnomaly
  <2>4. CASE row.protocol = "traceroute"
    BY <1>2, <2>4 DEF protocolAnomaly
  <2> QED
    BY <1>2, <2>1, <2>2, <2>3, <2>4
<1> QED
  BY <1>3 DEF row

HttpIsShown(p) ==
    protocolAnomaly(StoredRow(p)) = IF p.seen.status \notin 200..299 THEN "high"
                                    ELSE IF p.seen.time >= 1500 THEN "medium" ELSE ""

LEMMA HttpShown ==
    ASSUME NEW p, p.protocol = "http", ~ p.seen.error, p.seen.status \in Nat, p.seen.time \in Nat
    PROVE  HttpIsShown(p)
<1> DEFINE row == StoredRow(p)
           d == row.detail
           status == p.seen.status
           time == p.seen.time
           success == status \in 200..299
           error == ~ success
           none == ""
<1>1. executeProtocol(p) = [success |-> success, error |-> error, latency |-> time,
                            detail |-> [http_status |-> status, total_ms |-> time]]
  BY DEF executeProtocol, ExecuteHTTP
<1> HIDE DEF success, error, none
<1>2. /\ row.protocol = "http" /\ row.latency = time
      /\ d = protocolDetailForAPI([http_status |-> status, total_ms |-> time])
      /\ row.success = success
      /\ row.error = error
  BY <1>1 DEF StoredRow
<1>3. Number(d, "httpStatus") = status /\ Number(d, "totalMs") = time
  <2>1. status # Nil /\ time # Nil
    BY NilAssumption
  <2> QED
    BY <1>2, <2>1, HttpDetail
<1> HIDE DEF row
<1>4. NumberOr(d, "totalMs", row.latency) = time
  BY <1>2, <1>3, NilAssumption DEF NumberOr
<1>5. protocolAnomaly(row) = IF (~ row.success \/ row.error) \/ Number(d, "httpStatus") >= 500
                             THEN "high"
                             ELSE IF NumberOr(d, "totalMs", row.latency) >= 1500
                             THEN "medium" ELSE none
  BY <1>2 DEF protocolAnomaly, none
<1>6. success => ~ (status >= 500)
  BY DEF success
<1>7. (row.success <=> success) /\ (row.error <=> error)
  BY <1>2
<1>8. (~ row.success \/ row.error) <=> status \notin 200..299
  BY <1>7 DEF success, error
<1>9. status \in 200..299 => ~ (status >= 500)
  BY <1>6 DEF success
<1>10. protocolAnomaly(row) = IF status \notin 200..299 THEN "high"
                             ELSE IF time >= 1500 THEN "medium" ELSE none
  <2> HIDE DEF status, time, d
  <2>1. Number(d, "httpStatus") >= 500 <=> status >= 500
    BY <1>3
  <2> DEFINE good == status \in 200..299
             slow == time >= 1500
  <2>2. NumberOr(d, "totalMs", row.latency) >= 1500 <=> slow
    BY <1>4
  <2>3. ~ good => protocolAnomaly(row) = "high"
    BY <1>5, <1>8
  <2>4. good => protocolAnomaly(row) = IF NumberOr(d, "totalMs", row.latency) >= 1500
                                       THEN "medium" ELSE none
    <3>1. good => ~ ((~ row.success \/ row.error) \/ Number(d, "httpStatus") >= 500)
      BY <1>8, <1>9, <2>1
    <3> QED
      BY <1>5, <3>1
  <2>5. protocolAnomaly(row) = IF ~ good THEN "high" ELSE IF slow THEN "medium" ELSE none
    <3> HIDE DEF good, slow
    <3>1. good /\ slow => protocolAnomaly(row) = "medium"
      BY <2>2, <2>4
    <3>2. good /\ ~ slow => protocolAnomaly(row) = none
      BY <2>2, <2>4
    <3> QED
      BY <2>3, <3>1, <3>2
  <2> QED
    BY <2>5
<1> QED
  BY <1>10 DEF row, none, HttpIsShown

LEMMA PingShown ==
    ASSUME NEW p, p.protocol = "ping", ~ p.seen.error, Seen("ping", p.seen), p.elapsed \in Nat
    PROVE  LET received == Len(p.seen.times) IN
           /\ received = 0 => protocolAnomaly(StoredRow(p)) = "high"
           /\ received # 0 => protocolAnomaly(StoredRow(p))
                = IF \/ (100 * (p.seen.sent - received)) \div p.seen.sent >= 20
                     \/ SumOf(p.seen.times) \div received >= 300 THEN "medium" ELSE ""
<1> DEFINE row == StoredRow(p)
           d == row.detail
           received == Len(p.seen.times)
           avg == IF received = 0 THEN Nil ELSE SumOf(p.seen.times) \div received
           loss == (100 * (p.seen.sent - received)) \div p.seen.sent
           success == received > 0
           error == received = 0
<1>1. executeProtocol(p) = [success |-> success, error |-> error,
                            latency |-> IF avg = Nil THEN p.elapsed ELSE avg,
                            detail |-> [loss_pct |-> loss, avg_ms |-> avg]]
  BY DEF executeProtocol, ExecutePING
<1> HIDE DEF success, error
<1>2. /\ row.protocol = "ping" /\ row.latency = IF avg = Nil THEN p.elapsed ELSE avg
      /\ d = protocolDetailForAPI([loss_pct |-> loss, avg_ms |-> avg])
      /\ row.success = success
      /\ row.error = error
  BY <1>1 DEF StoredRow
<1>3. p.seen.sent \in Nat \ {0} /\ p.seen.times \in Seq(Nat) /\ received =< p.seen.sent
  BY DEF Seen
<1>4. received \in Nat
  BY <1>3
<1>5. SumOf(p.seen.times) \in Nat
  <2>1. 0 \in Nat /\ \A k \in DOMAIN p.seen.times : p.seen.times[k] >= 0
    BY <1>3
  <2> QED
    BY <1>3, <2>1, SumAtLeast
<1>6. loss \in Int
  <2> DEFINE sent == p.seen.sent
             lost == 100 * (sent - received)
  <2>1. sent \in Nat \ {0} /\ lost \in Int
    BY <1>3, <1>4
  <2> HIDE DEF sent, lost
  <2>2. lost \div sent \in Int
    BY <2>1
  <2> QED
    BY <2>2 DEF sent, lost
<1>7. Number(d, "lossPct") = loss /\ Number(d, "avgMs") = IF avg # Nil THEN avg ELSE 0
  <2>1. loss # Nil
    BY <1>6, NilAssumption
  <2> HIDE DEF loss, avg
  <2> QED
    BY <1>2, <2>1, PingDetail
<1>8. protocolAnomaly(row) = IF ~ row.success \/ row.error THEN "high"
                             ELSE IF \/ Number(d, "lossPct") >= 20
                                     \/ NumberOr(d, "avgMs", row.latency) >= 300
                             THEN "medium" ELSE ""
  <2> HIDE DEF row
  <2> QED
    BY <1>2 DEF protocolAnomaly
<1> HIDE DEF row, loss
<1>9. CASE received = 0
  BY <1>2, <1>8, <1>9 DEF row, error
<1>10. CASE received # 0
  <2>1. avg = SumOf(p.seen.times) \div received /\ avg \in Nat /\ avg # Nil
    <3> DEFINE sum == SumOf(p.seen.times)
    <3>1. sum \in Nat /\ received \in Nat /\ received > 0
      BY <1>4, <1>5, <1>10
    <3> HIDE DEF sum, received
    <3>2. sum \div received \in Nat
      BY <3>1
    <3> QED
      BY <1>10, <3>2, NilAssumption DEF sum
  <2> HIDE DEF avg
  <2>2. NumberOr(d, "avgMs", row.latency) = avg
    BY <1>2, <1>7, <2>1 DEF NumberOr
  <2>3. row.success /\ ~ row.error
    <3>1. (row.success <=> success) /\ (row.error <=> error)
      BY <1>2
    <3> QED
      BY <1>4, <1>10, <3>1 DEF success, error
  <2>4. protocolAnomaly(row) = IF loss >= 20 \/ avg >= 300 THEN "medium" ELSE ""
    BY <1>7, <1>8, <2>2, <2>3
  <2> QED
    BY <1>10, <2>1, <2>4 DEF row, loss
<1> QED
  BY <1>9, <1>10

\* What is parsed of a route.
LEMMA RouteParsed ==
    ASSUME NEW protocol \in {"mtr", "traceroute"}, NEW seen, Seen(protocol, seen), ~ seen.error
    PROVE  LET parsed == buildRouteParse(seen.lines) IN
           /\ parsed.hops = Len(seen.lines) /\ parsed.hops \in Nat
           /\ parsed.reached <=> \E i \in DOMAIN seen.lines : seen.lines[i].address = Destination
           /\ parsed.reached =>
                \E i \in DOMAIN seen.lines :
                    /\ seen.lines[i].address = Destination
                    /\ parsed.latency \in Nat
                    /\ protocol = "mtr" => parsed.latency = seen.lines[i].avg
                    /\ protocol = "traceroute" =>
                        \E k \in DOMAIN seen.lines[i].times :
                            parsed.latency = seen.lines[i].times[k]
<1> DEFINE lines == seen.lines
           parsed == buildRouteParse(lines)
           places == {i \in DOMAIN lines : lines[i].address = Destination}
           reached == places # {}
<1>1. Len(lines) \in Nat /\ DOMAIN lines = 1..Len(lines)
  BY SequenceIs DEF Seen
<1>2. \A i \in DOMAIN lines :
        LET line == lines[i] IN
        IF protocol = "mtr" THEN "avg" \in DOMAIN line /\ line.avg \in Nat
        ELSE /\ "avg" \notin DOMAIN line /\ line.times \in Seq(Nat)
             /\ line.address = Destination => line.times # <<>>
  BY DEF Seen
<1> HIDE DEF lines
<1>3. /\ parsed.hops = Len(lines)
      /\ parsed.reached = reached
      /\ places # {} => parsed.latency = LatencyAt(lines[Min(places)])
  <2> HIDE DEF reached
  <2>1. /\ parsed.hops = Len(lines)
        /\ parsed.reached = reached
    BY DEF buildRouteParse, reached
  <2> QED
    BY <2>1 DEF buildRouteParse
<1>4. parsed.reached <=> places # {}
  <2> HIDE DEF reached
  <2>1. parsed.reached <=> reached
    BY <1>3
  <2> QED
    BY <2>1 DEF reached
<1>5. ASSUME places # {}
      PROVE  \E i \in DOMAIN lines :
                /\ lines[i].address = Destination
                /\ parsed.latency \in Nat
                /\ protocol = "mtr" => parsed.latency = lines[i].avg
                /\ protocol = "traceroute" =>
                    \E k \in DOMAIN lines[i].times : parsed.latency = lines[i].times[k]
  <2> DEFINE i == Min(places)
             line == lines[i]
  <2>1. i \in places
    <3>1. places \in SUBSET Nat
      BY <1>1
    <3> HIDE DEF places
    <3> QED
      BY <1>5, <3>1, SmallestNumber
  <2> HIDE DEF i
  <2>2. i \in DOMAIN lines /\ line.address = Destination
    BY <2>1
  <2>3. parsed.latency = LatencyAt(line)
    BY <1>3, <1>5 DEF i
  <2>4. CASE protocol = "mtr"
    <3>1. "avg" \in DOMAIN line /\ line.avg \in Nat
      BY <1>2, <2>2, <2>4
    <3>2. parsed.latency = line.avg
      BY <2>3, <3>1 DEF LatencyAt
    <3> QED
      BY <2>2, <2>4, <3>1, <3>2
  <2>5. CASE protocol = "traceroute"
    <3>1. "avg" \notin DOMAIN line /\ line.times \in Seq(Nat) /\ line.times # <<>>
      BY <1>2, <2>2, <2>5
    <3> DEFINE times == line.times
    <3> HIDE DEF times
    <3>2. times \in Seq(Nat) /\ times # <<>>
      BY <3>1 DEF times
    <3>3. parsed.latency = times[Len(times)]
      BY <2>3, <3>1 DEF LatencyAt, Last, times
    <3>4. Len(times) \in DOMAIN times /\ times[Len(times)] \in Nat
      BY <3>2
    <3> QED
      BY <2>2, <2>5, <3>3, <3>4 DEF times
  <2> QED
    BY <2>4, <2>5
<1> QED
  BY <1>1, <1>3, <1>4, <1>5 DEF lines

RouteIsShown(p) ==
    LET parsed == buildRouteParse(p.seen.lines)
        severity == protocolAnomaly(StoredRow(p)) IN
    /\ ~ parsed.reached => severity = "high"
    /\ parsed.reached =>
         severity = IF \/ p.protocol = "mtr" /\ parsed.latency >= 500
                       \/ p.protocol = "traceroute"
                             /\ (Len(p.seen.lines) >= 20 \/ parsed.latency >= 800)
                    THEN "medium" ELSE ""

LEMMA RouteShown ==
    ASSUME NEW p, p.protocol \in {"mtr", "traceroute"}, ~ p.seen.error, Seen(p.protocol, p.seen)
    PROVE  RouteIsShown(p)
<1> DEFINE row == StoredRow(p)
           d == row.detail
           parsed == buildRouteParse(p.seen.lines)
           reached == parsed.reached
           hops == parsed.hops
           success == reached \/ p.complete
           error == ~ success
           latency == IF parsed.latency = Nil THEN p.elapsed ELSE parsed.latency
           detail == IF p.protocol = "mtr"
                     THEN [hop_count |-> hops, destination_reached |-> reached,
                           packet_loss_pct |-> Nil, avg_latency_ms |-> Nil]
                     ELSE [hop_count |-> hops, destination_reached |-> reached]
<1>1. executeProtocol(p) = [success |-> success, error |-> error, latency |-> latency,
                            detail |-> detail]
  BY DEF executeProtocol, ExecuteRoute, buildRouteResult
<1> HIDE DEF success, error, latency, detail
<1>2. /\ row.protocol = p.protocol /\ row.latency = latency
      /\ d = protocolDetailForAPI(detail)
      /\ row.success = success
      /\ row.error = error
  BY <1>1 DEF StoredRow
<1>3. (row.success <=> success) /\ (row.error <=> error)
  BY <1>2
<1>4. (~ row.success \/ row.error) => ~ reached
  BY <1>3 DEF success, error
<1>5. hops = Len(p.seen.lines) /\ hops \in Nat
  BY RouteParsed
<1>6. reached => parsed.latency \in Nat
  BY RouteParsed
<1> HIDE DEF row, parsed, reached, hops
<1>7. reached => latency = parsed.latency /\ latency \in Nat /\ latency # Nil
  BY <1>6, NilAssumption DEF latency
<1>8. CASE p.protocol = "mtr"
  <2>1. d = protocolDetailForAPI([hop_count |-> hops, destination_reached |-> reached,
                                  packet_loss_pct |-> Nil, avg_latency_ms |-> Nil])
    BY <1>2, <1>8 DEF detail
  <2>2. /\ Number(d, "packetLossPct") = 0 /\ Number(d, "avgMs") = 0
        /\ Unreached(d) <=> ~ reached
    BY <2>1, MtrDetail
  <2>3. protocolAnomaly(row) = IF (~ row.success \/ row.error) \/ Unreached(d) THEN "high"
                               ELSE IF \/ Number(d, "packetLossPct") >= 20
                                       \/ NumberOr(d, "avgMs", row.latency) >= 500
                               THEN "medium" ELSE ""
    BY <1>2, <1>8 DEF protocolAnomaly
  <2>4. CASE ~ reached
    BY <2>2, <2>3, <2>4 DEF row, parsed, reached, RouteIsShown
  <2>5. CASE reached
    <3>1. NumberOr(d, "avgMs", row.latency) = latency
      BY <1>2, <1>7, <2>2, <2>5 DEF NumberOr
    <3>2. protocolAnomaly(row) = IF latency >= 500 THEN "medium" ELSE ""
      <4>1. ~ ((~ row.success \/ row.error) \/ Unreached(d))
        BY <1>4, <2>2, <2>5
      <4>2. ~ (Number(d, "packetLossPct") >= 20)
        BY <2>2
      <4> QED
        BY <2>3, <3>1, <4>1, <4>2
    <3>3. protocolAnomaly(row) = IF parsed.latency >= 500 THEN "medium" ELSE ""
      BY <1>7, <2>5, <3>2
    <3> QED
      BY <1>8, <2>5, <3>3 DEF row, parsed, reached, RouteIsShown
  <2> QED
    BY <2>4, <2>5
<1>9. CASE p.protocol = "traceroute"
  <2>1. d = protocolDetailForAPI([hop_count |-> hops, destination_reached |-> reached])
    BY <1>2, <1>9 DEF detail
  <2>2. Number(d, "hopCount") = hops /\ (Unreached(d) <=> ~ reached)
    BY <1>5, <2>1, TracerouteDetail
  <2>3. protocolAnomaly(row) = IF (~ row.success \/ row.error) \/ Unreached(d) THEN "high"
                               ELSE IF \/ Number(d, "hopCount") >= 20
                                       \/ (row.latency # Nil /\ row.latency >= 800)
                               THEN "medium" ELSE ""
    BY <1>2, <1>9 DEF protocolAnomaly
  <2>4. CASE ~ reached
    BY <2>2, <2>3, <2>4 DEF row, parsed, reached, RouteIsShown
  <2>5. CASE reached
    <3>1. protocolAnomaly(row) = IF hops >= 20 \/ latency >= 800 THEN "medium" ELSE ""
      BY <1>2, <1>4, <1>7, <2>2, <2>3, <2>5
    <3>2. protocolAnomaly(row) = IF Len(p.seen.lines) >= 20 \/ parsed.latency >= 800
                                 THEN "medium" ELSE ""
      BY <1>5, <1>7, <2>5, <3>1
    <3> QED
      BY <1>9, <2>5, <3>2 DEF row, parsed, reached, RouteIsShown
  <2> QED
    BY <2>4, <2>5
<1> QED
  BY <1>8, <1>9

SeverityOf(p) == protocolAnomaly(StoredRow(p))

\* A target that is reached in time.
Quick(p, limit) ==
    \E i \in DOMAIN p.seen.lines :
        LET line == p.seen.lines[i] IN
        /\ line.address = Destination
        /\ IF p.protocol = "mtr" THEN line.avg < limit
           ELSE \E k \in DOMAIN line.times : line.times[k] < limit

Healthy(p) ==
    CASE p.protocol = "http" -> p.seen.time < 1500
      [] p.protocol = "ping" ->
             /\ \E k \in DOMAIN p.seen.times : p.seen.times[k] < 300
             /\ 5 * (p.seen.sent - Len(p.seen.times)) < p.seen.sent
      [] p.protocol = "mtr" -> Quick(p, 500)
      [] p.protocol = "traceroute" -> Quick(p, 800) /\ Len(p.seen.lines) < 20

ShownAsSeen(p) ==
    /\ SeverityOf(p) = "high" <=> ~ Answered(p)
    /\ SeverityOf(p) = "" => Healthy(p)

LEMMA HttpJudged ==
    ASSUME NEW p, p.protocol = "http", ~ p.seen.error, Seen("http", p.seen)
    PROVE  ShownAsSeen(p)
<1> DEFINE severity == SeverityOf(p)
           good == p.seen.status \in 200..299
           slow == p.seen.time >= 1500
           none == ""
<1>1. p.seen.status \in Nat /\ p.seen.time \in Nat
  BY DEF Seen
<1>2. severity = IF ~ good THEN "high" ELSE IF slow THEN "medium" ELSE none
  <2>1. protocolAnomaly(StoredRow(p))
            = IF p.seen.status \notin 200..299 THEN "high"
              ELSE IF p.seen.time >= 1500 THEN "medium" ELSE ""
    <3>1. HttpIsShown(p)
      BY <1>1, HttpShown
    <3> QED
      BY <3>1 DEF HttpIsShown
  <2>2. severity = protocolAnomaly(StoredRow(p))
    BY DEF SeverityOf
  <2> HIDE DEF severity
  <2> QED
    BY <2>1, <2>2
<1>3. Answered(p) <=> good
  BY DEF Answered
<1>4. ~ slow => Healthy(p)
  BY <1>1 DEF Healthy
<1>5. none # "high" /\ none # "medium" /\ severity = "" <=> severity = none
  OBVIOUS
<1> HIDE DEF severity, good, slow, none
<1>6. severity = "high" <=> ~ good
  BY <1>2, <1>5
<1>7. severity = none => ~ slow
  BY <1>2, <1>5
<1> QED
  BY <1>3, <1>4, <1>6, <1>7 DEF severity, none, ShownAsSeen

LEMMA PingJudged ==
    ASSUME NEW p, p.protocol = "ping", ~ p.seen.error, Seen("ping", p.seen), p.elapsed \in Nat
    PROVE  ShownAsSeen(p)
<1> DEFINE severity == SeverityOf(p)
           received == Len(p.seen.times)
           loss == (100 * (p.seen.sent - received)) \div p.seen.sent
           avg == SumOf(p.seen.times) \div received
           lossy == loss >= 20
           slow == avg >= 300
           none == ""
<1>1. p.seen.sent \in Nat \ {0} /\ p.seen.times \in Seq(Nat) /\ received =< p.seen.sent
  BY DEF Seen
<1>2. received \in Nat /\ (received = 0 <=> p.seen.times = <<>>)
  BY <1>1
<1>3. received = 0 => severity = "high"
  BY PingShown DEF SeverityOf
<1>4. received # 0 => severity = IF lossy \/ slow THEN "medium" ELSE none
  BY PingShown DEF SeverityOf
<1>5. Answered(p) <=> received # 0
  BY <1>2 DEF Answered
<1>6. ~ lossy => 5 * (p.seen.sent - received) < p.seen.sent
  <2> DEFINE sent == p.seen.sent
             lost == sent - received
             share == (100 * lost) \div sent
  <2>1. sent \in Nat \ {0} /\ lost \in Nat
    BY <1>1, <1>2
  <2> HIDE DEF sent, lost
  <2>2. share < 20 => 5 * lost < sent
    BY <2>1
  <2>3. ~ lossy => share < 20
    <3>1. share \in Int
      BY <2>1
    <3> QED
      BY <3>1 DEF sent, lost
  <2> QED
    BY <2>2, <2>3 DEF sent, lost
<1>7. received # 0 /\ ~ slow => \E k \in DOMAIN p.seen.times : p.seen.times[k] < 300
  <2> SUFFICES ASSUME received # 0, ~ slow
               PROVE  \E k \in DOMAIN p.seen.times : p.seen.times[k] < 300
    OBVIOUS
  <2> DEFINE sum == SumOf(p.seen.times)
  <2>1. sum \in Nat
    <3>1. 0 \in Nat /\ \A k \in DOMAIN p.seen.times : p.seen.times[k] >= 0
      BY <1>1
    <3> QED
      BY <1>1, <3>1, SumAtLeast
  <2>2. avg < 300
    <3> HIDE DEF sum, received
    <3>1. sum \div received \in Nat
      BY <1>2, <2>1
    <3> QED
      BY <3>1 DEF sum
  <2>3. p.seen.times # <<>> /\ 300 \in Nat
    BY <1>2
  <2> QED
    BY <1>1, <2>2, <2>3, SomeBelowAverage
<1>8. received # 0 /\ ~ lossy /\ ~ slow => Healthy(p)
  BY <1>6, <1>7 DEF Healthy
<1>9. none # "high" /\ none # "medium"
  OBVIOUS
<1> HIDE DEF severity, received, lossy, slow, none
<1>10. severity = "high" <=> received = 0
  BY <1>3, <1>4, <1>9
<1>11. severity = none => received # 0 /\ ~ lossy /\ ~ slow
  BY <1>3, <1>4, <1>9
<1> QED
  BY <1>5, <1>8, <1>10, <1>11 DEF severity, none, ShownAsSeen

LEMMA RouteJudged ==
    ASSUME NEW p, p.protocol \in {"mtr", "traceroute"}, ~ p.seen.error,
           Seen(p.protocol, p.seen), p.elapsed \in Nat
    PROVE  ShownAsSeen(p)
<1> DEFINE severity == SeverityOf(p)
           parsed == buildRouteParse(p.seen.lines)
           reached == \E i \in DOMAIN p.seen.lines : p.seen.lines[i].address = Destination
           slow == \/ p.protocol = "mtr" /\ parsed.latency >= 500
                   \/ p.protocol = "traceroute"
                        /\ (Len(p.seen.lines) >= 20 \/ parsed.latency >= 800)
           none == ""
<1>1. parsed.reached <=> reached
  BY RouteParsed
<1>2. /\ ~ parsed.reached => severity = "high"
      /\ parsed.reached => severity = IF slow THEN "medium" ELSE none
  <2>1. RouteIsShown(p)
    BY RouteShown
  <2> QED
    BY <2>1 DEF RouteIsShown, SeverityOf
<1>3. /\ ~ reached => severity = "high"
      /\ reached => severity = IF slow THEN "medium" ELSE none
  <2> HIDE DEF parsed, reached, severity, slow, none
  <2> QED
    BY <1>1, <1>2
<1>4. Answered(p) <=> reached
  BY DEF Answered
<1>5. reached /\ ~ slow => Healthy(p)
  <2> SUFFICES ASSUME reached, ~ slow
               PROVE  Healthy(p)
    OBVIOUS
  <2> HIDE DEF parsed
  <2>1. PICK i \in DOMAIN p.seen.lines :
            /\ p.seen.lines[i].address = Destination
            /\ parsed.latency \in Nat
            /\ p.protocol = "mtr" => parsed.latency = p.seen.lines[i].avg
            /\ p.protocol = "traceroute" =>
                \E k \in DOMAIN p.seen.lines[i].times :
                    parsed.latency = p.seen.lines[i].times[k]
    BY <1>1, RouteParsed DEF parsed
  <2>2. CASE p.protocol = "mtr"
    <3>1. p.seen.lines[i].avg < 500
      BY <2>1, <2>2
    <3>2. Quick(p, 500)
      BY <2>1, <2>2, <3>1 DEF Quick
    <3> QED
      BY <2>2, <3>2 DEF Healthy
  <2>3. CASE p.protocol = "traceroute"
    <3>1. \E k \in DOMAIN p.seen.lines[i].times : p.seen.lines[i].times[k] < 800
      BY <2>1, <2>3
    <3>2. Quick(p, 800)
      BY <2>1, <2>3, <3>1 DEF Quick
    <3>3. Len(p.seen.lines) < 20
      <4>1. Len(p.seen.lines) \in Nat
        BY <2>3, RouteParsed
      <4> QED
        BY <2>3, <4>1
    <3> QED
      BY <2>3, <3>2, <3>3 DEF Healthy
  <2> QED
    BY <2>2, <2>3
<1>6. none # "high" /\ none # "medium"
  OBVIOUS
<1> HIDE DEF severity, reached, slow, none
<1>7. severity = "high" <=> ~ reached
  BY <1>3, <1>6
<1>8. severity = none => reached /\ ~ slow
  BY <1>3, <1>6
<1> QED
  BY <1>4, <1>5, <1>7, <1>8 DEF severity, none, ShownAsSeen

LEMMA ReportShown ==
    ASSUME NEW p, p.protocol \in {"http", "ping", "mtr", "traceroute"}, p.elapsed \in Nat,
           Seen(p.protocol, p.seen)
    PROVE  ShownAsSeen(p)
<1>1. CASE p.seen.error
  <2>1. SeverityOf(p) = "high" /\ ~ Answered(p)
    BY <1>1, FailedIsHigh DEF SeverityOf, Answered
  <2>2. SeverityOf(p) # ""
    BY <2>1
  <2> QED
    BY <2>1, <2>2 DEF ShownAsSeen
<1>2. CASE ~ p.seen.error
  <2>1. CASE p.protocol = "http"
    BY <1>2, <2>1, HttpJudged
  <2>2. CASE p.protocol = "ping"
    BY <1>2, <2>2, PingJudged
  <2>3. CASE p.protocol \in {"mtr", "traceroute"}
    BY <1>2, <2>3, RouteJudged
  <2> QED
    BY <2>1, <2>2, <2>3
<1> QED
  BY <1>1, <1>2

LEMMA ReportsAreTrue == IInv => FailureIsShown /\ QuietIsHealthy
<1> SUFFICES ASSUME IInv, Is("report")
             PROVE  FailureIsShown /\ QuietIsHealthy
  BY DEF FailureIsShown, QuietIsHealthy, Is
<1> DEFINE p == given.probe
<1>1. /\ p.protocol \in {"http", "ping", "mtr", "traceroute"} /\ p.elapsed \in Nat
      /\ Seen(p.protocol, p.seen)
  BY RulesAssumption DEF IInv, Is, Protocols
<1>2. result.severity = SeverityOf(p)
  BY DEF IInv, Is, Reported, SeverityOf
<1>3. ShownAsSeen(p)
  <2> HIDE DEF p
  <2> QED
    BY <1>1, ReportShown
<1>4. FailureIsShown
  BY <1>2, <1>3 DEF FailureIsShown, ShownAsSeen
<1>5. QuietIsHealthy
  BY <1>2, <1>3 DEF QuietIsHealthy, ShownAsSeen, Healthy, Quick
<1> QED
  BY <1>4, <1>5

-----------------------------------------------------------------------------
(* The pages of the board.                                                 *)

AllOf(T, share) == UNION {share[v] : v \in T}

LEMMA UpTo == \A m \in Nat : IsFiniteSet(1..m) /\ Cardinality(1..m) = m
<1> TAKE m \in Nat
<1>1. 1 \in Int /\ m \in Int
  OBVIOUS
<1>2. IsFiniteSet(1..m)
  BY <1>1, FS_Interval
<1>3. Cardinality(1..m) = m
  BY <1>1, FS_Interval
<1> QED
  BY <1>2, <1>3

\* Disjoint sets of places: their sizes add up to the size of their union.
LEMMA SharesAdd ==
    ASSUME NEW M \in Nat, NEW T, NEW share,
           \A v \in T : share[v] \subseteq 1..M,
           \A v, w \in T : \A k \in share[v] : k \in share[w] => v = w,
           NEW f, f = [v \in T |-> Cardinality(share[v])]
    PROVE  IsFiniteSet(AllOf(T, share)) /\ Total(f) = Cardinality(AllOf(T, share))
<1> DEFINE U == UNION {share[v] : v \in T}
           P == UNION {{v} \X (1..f[v]) : v \in T}
           pos == [x \in P |-> At(share[x[1]])[x[2]]]
           pair == [k \in U |-> CHOOSE x \in P : pos[x] = k]
<1>1. IsFiniteSet(U)
  <2>1. IsFiniteSet(1..M)
    BY FS_Interval
  <2>2. U \in SUBSET (1..M)
    OBVIOUS
  <2> HIDE DEF U
  <2> QED
    BY <2>1, <2>2, FS_Subset
<1>2. \A v \in T : Ascends(At(share[v]), f[v], share[v])
  BY PlacesAscend
<1>3. \A v \in T : \A n \in 1..f[v] : <<v, n>> \in P
  OBVIOUS
<1>4. \A x \in P : x = <<x[1], x[2]>> /\ x[1] \in T /\ x[2] \in 1..f[x[1]]
  OBVIOUS
<1>5. \A v \in T : \A n \in 1..f[v] : pos[<<v, n>>] = At(share[v])[n]
  BY <1>3
<1> HIDE DEF P, pos
<1>6. \A v \in T : \A n \in 1..f[v] : pos[<<v, n>>] \in share[v]
  <2> SUFFICES ASSUME NEW v \in T, NEW n \in 1..f[v]
               PROVE  pos[<<v, n>>] \in share[v]
    OBVIOUS
  <2>1. At(share[v]) \in [1..f[v] -> share[v]]
    BY <1>2 DEF Ascends
  <2>2. At(share[v])[n] \in share[v]
    BY <2>1
  <2>3. pos[<<v, n>>] = At(share[v])[n]
    BY <1>5
  <2> QED
    BY <2>2, <2>3
<1>7. \A k \in U : \E x \in P : pos[x] = k
  <2> SUFFICES ASSUME NEW k \in U
               PROVE  \E x \in P : pos[x] = k
    OBVIOUS
  <2>1. PICK v \in T : k \in share[v]
    OBVIOUS
  <2>2. PICK n \in 1..f[v] : At(share[v])[n] = k
    BY <1>2, <2>1 DEF Ascends
  <2> QED
    BY <1>3, <1>5, <2>2
<1>8. \A x \in P : pos[x] \in U
  <2> SUFFICES ASSUME NEW x \in P
               PROVE  pos[x] \in U
    OBVIOUS
  <2>1. pos[<<x[1], x[2]>>] \in share[x[1]]
    BY <1>4, <1>6
  <2>2. pos[x] \in share[x[1]] /\ x[1] \in T
    BY <1>4, <2>1
  <2> QED
    BY <2>2
<1>9. \A x, y \in P : pos[x] = pos[y] => x = y
  <2> SUFFICES ASSUME NEW x \in P, NEW y \in P, pos[x] = pos[y]
               PROVE  x = y
    OBVIOUS
  <2> DEFINE v == x[1]
             n == x[2]
             w == y[1]
             m == y[2]
  <2>1. x = <<v, n>> /\ y = <<w, m>> /\ v \in T /\ w \in T /\ n \in 1..f[v] /\ m \in 1..f[w]
    BY <1>4
  <2> HIDE DEF v, n, w, m
  <2>2. v = w
    <3>1. pos[<<v, n>>] \in share[v] /\ pos[<<w, m>>] \in share[w]
      BY <1>6, <2>1
    <3> QED
      BY <2>1, <3>1
  <2>3. At(share[v])[n] = At(share[v])[m]
    BY <1>5, <2>1, <2>2
  <2>4. n = m
    <3> DEFINE a == At(share[v])
               N == f[v]
    <3>1. N \in Nat /\ a \in [1..N -> share[v]] /\ \A i, j \in 1..N : i < j => a[i] < a[j]
      BY <1>2, <2>1 DEF Ascends
    <3>2. n \in 1..N /\ m \in 1..N /\ a[n] = a[m] /\ share[v] \subseteq 1..M
      BY <2>1, <2>2, <2>3
    <3> HIDE DEF a, N
    <3>3. a[n] \in Int
      BY <3>1, <3>2
    <3>4. ~ (n < m)
      BY <3>1, <3>2, <3>3
    <3>5. ~ (m < n)
      BY <3>1, <3>2, <3>3
    <3> QED
      BY <3>1, <3>2, <3>4, <3>5
  <2> QED
    BY <2>1, <2>2, <2>4
<1> HIDE DEF U
<1>10. \A k \in U : pair[k] \in P /\ pos[pair[k]] = k
  BY <1>7
<1> HIDE DEF pair
<1>11. \A x \in P : \E k \in U : pair[k] = x
  <2> SUFFICES ASSUME NEW x \in P
               PROVE  \E k \in U : pair[k] = x
    OBVIOUS
  <2>1. pos[x] \in U /\ pair[pos[x]] \in P /\ pos[pair[pos[x]]] = pos[x]
    BY <1>8, <1>10
  <2>2. pair[pos[x]] = x
    BY <1>9, <2>1
  <2> QED
    BY <2>1, <2>2
<1>12. \A k, l \in U : pair[k] = pair[l] => k = l
  BY <1>10
<1>13. Cardinality(P) = Cardinality(U)
  <2>1. \A k \in U : pair[k] \in P
    BY <1>10
  <2> QED
    BY <1>1, <1>11, <1>12, <2>1, CountsAgree
<1>14. Total(f) = Cardinality(P)
  BY DEF Total, P
<1> QED
  BY <1>1, <1>13, <1>14 DEF U, AllOf

\* A tally counts every value once.
LEMMA TallyAdds ==
    ASSUME NEW M \in Nat, NEW values, DOMAIN values = 1..M
    PROVE  Total(Tally(values)) = M
<1> DEFINE T == {values[k] : k \in 1..M}
           share == [v \in T |-> {k \in 1..M : values[k] = v}]
           f == [v \in T |-> Cardinality(share[v])]
<1>1. Tally(values) = f
  BY DEF Tally
<1>2. \A v \in T : share[v] \subseteq 1..M
  OBVIOUS
<1>3. \A v, w \in T : \A k \in share[v] : k \in share[w] => v = w
  OBVIOUS
<1>4. AllOf(T, share) = 1..M
  <2>1. \A k \in 1..M : values[k] \in T /\ k \in share[values[k]]
    OBVIOUS
  <2> HIDE DEF T, share
  <2> QED
    BY <1>2, <2>1 DEF AllOf
<1>5. f = [v \in T |-> Cardinality(share[v])]
  OBVIOUS
<1> HIDE DEF T, share, f
<1>6. Total(f) = Cardinality(AllOf(T, share))
  BY <1>2, <1>3, <1>5, SharesAdd
<1>7. Cardinality(1..M) = M
  BY FS_Interval
<1> QED
  BY <1>1, <1>4, <1>6, <1>7

\* The element at a place has as many before it as there are places before that.
LEMMA RankIs ==
    ASSUME NEW S, IsFiniteSet(S), NEW n \in Nat, NEW key,
           \A x \in S : key[x] \in Keys(n),
           \A x, y \in S : key[x] = key[y] => x = y
    PROVE  \A k \in 1..Cardinality(S) :
              Cardinality({y \in S : Before(key[y], key[InOrder(S, key)[k]])}) = k - 1
<1> DEFINE N == Cardinality(S)
           o == InOrder(S, key)
<1>1. N \in Nat
  BY FS_CardinalityType
<1>2. /\ o \in [1..N -> S]
      /\ \A i, j \in 1..N : i < j => Before(key[o[i]], key[o[j]])
      /\ \A x \in S : \E i \in 1..N : o[i] = x
      /\ \A i, j \in 1..N : o[i] = o[j] => i = j
  <2>1. o \in Bijection(1..N, S)
    BY InOrderSorts
  <2>2. \A i, j \in 1..N : i < j => Before(key[o[i]], key[o[j]])
    BY InOrderSorts
  <2> HIDE DEF o, N
  <2> QED
    BY <2>1, <2>2 DEF Bijection, Injection, Surjection, IsInjective
<1> HIDE DEF o, N
<1>3. \A x \in Keys(n) : ~ Before(x, x)
  <2> SUFFICES ASSUME NEW x \in Keys(n), Before(x, x)
               PROVE  FALSE
    OBVIOUS
  <2>1. PICK i \in 1..n : x[i] < x[i]
    BY BeforeKeys
  <2>2. x[i] \in Int
    BY <2>1 DEF Keys
  <2> QED
    BY <2>1, <2>2
<1>4. \A x, y \in Keys(n) : Before(x, y) => ~ Before(y, x)
  BY <1>3, BeforeTransitive
<1> SUFFICES ASSUME NEW k \in 1..N
             PROVE  Cardinality({y \in S : Before(key[y], key[o[k]])}) = k - 1
  BY DEF o, N
<1> DEFINE R == {y \in S : Before(key[y], key[o[k]])}
           I == 1..(k - 1)
<1>5. \A i \in I : o[i] \in R
  BY <1>1, <1>2
<1>6. \A y \in R : \E i \in I : o[i] = y
  <2> SUFFICES ASSUME NEW y \in R
               PROVE  \E i \in I : o[i] = y
    OBVIOUS
  <2>1. PICK i \in 1..N : o[i] = y
    BY <1>2
  <2>2. ~ (k < i)
    <3> SUFFICES ASSUME k < i
                 PROVE  FALSE
      OBVIOUS
    <3>1. Before(key[o[k]], key[y])
      BY <1>2, <2>1
    <3>2. key[y] \in Keys(n) /\ key[o[k]] \in Keys(n)
      BY <1>2
    <3> QED
      BY <1>4, <3>1, <3>2
  <2>3. i # k
    <3> SUFFICES ASSUME i = k
                 PROVE  FALSE
      OBVIOUS
    <3>1. Before(key[y], key[y]) /\ key[y] \in Keys(n)
      BY <2>1
    <3> QED
      BY <1>3, <3>1
  <2>4. i \in I
    BY <1>1, <2>1, <2>2, <2>3
  <2> QED
    BY <2>1, <2>4
<1>7. \A i, j \in I : o[i] = o[j] => i = j
  BY <1>1, <1>2
<1>8. IsFiniteSet(I) /\ Cardinality(I) = k - 1
  <2>1. k - 1 \in Nat
    BY <1>1
  <2> QED
    BY <2>1, UpTo
<1> HIDE DEF R, I
<1>9. Cardinality(R) = Cardinality(I)
  BY <1>5, <1>6, <1>7, <1>8, CountsAgree
<1> QED
  BY <1>8, <1>9 DEF R

LEMMA BeforeTwoIs ==
    ASSUME NEW a1 \in Int, NEW a2 \in Int, NEW b1 \in Int, NEW b2 \in Int
    PROVE  Before(<<a1, a2>>, <<b1, b2>>) <=> a1 < b1 \/ (a1 = b1 /\ a2 < b2)
<1> DEFINE x == <<a1, a2>>
           y == <<b1, b2>>
<1>1. Before(x, y) <=> \E i \in 1..2 : x[i] < y[i] /\ \A j \in 1..(i - 1) : x[j] = y[j]
  BY DEF Before
<1>2. x[1] = a1 /\ x[2] = a2 /\ y[1] = b1 /\ y[2] = b2
  OBVIOUS
<1> HIDE DEF x, y
<1>3. ASSUME a1 < b1 \/ (a1 = b1 /\ a2 < b2)
      PROVE  \E i \in 1..2 : x[i] < y[i] /\ \A j \in 1..(i - 1) : x[j] = y[j]
  <2>1. CASE a1 < b1
    <3>1. x[1] < y[1] /\ \A j \in 1..(1 - 1) : x[j] = y[j]
      BY <1>2, <2>1
    <3> QED
      BY <3>1
  <2>2. CASE a1 = b1 /\ a2 < b2
    <3>1. x[2] < y[2] /\ \A j \in 1..(2 - 1) : x[j] = y[j]
      BY <1>2, <2>2
    <3> QED
      BY <3>1
  <2> QED
    BY <1>3, <2>1, <2>2
<1>4. ASSUME NEW i \in 1..2, x[i] < y[i], \A j \in 1..(i - 1) : x[j] = y[j]
      PROVE  a1 < b1 \/ (a1 = b1 /\ a2 < b2)
  <2>1. CASE i = 1
    BY <1>2, <1>4, <2>1
  <2>2. CASE i = 2
    BY <1>2, <1>4, <2>2
  <2> QED
    BY <2>1, <2>2
<1>5. (\E i \in 1..2 : x[i] < y[i] /\ \A j \in 1..(i - 1) : x[j] = y[j])
        => a1 < b1 \/ (a1 = b1 /\ a2 < b2)
  BY <1>4
<1> QED
  BY <1>1, <1>3, <1>5 DEF x, y

\* A sequence that names every element of a finite set once.
ListsOnce(s, S) ==
    /\ IsFiniteSet(S) /\ Cardinality(S) \in Nat
    /\ s \in [1..Cardinality(S) -> S]
    /\ \A i, j \in 1..Cardinality(S) : s[i] = s[j] => i = j
    /\ \A x \in S : \E i \in 1..Cardinality(S) : s[i] = x

ListsAll(s, S, N) == ListsOnce(s, S) /\ Cardinality(S) = N

LEMMA ListedOnce ==
    ASSUME NEW N \in Nat, NEW S, NEW s \in [1..N -> S],
           \A i, j \in 1..N : s[i] = s[j] => i = j,
           \A x \in S : \E i \in 1..N : s[i] = x
    PROVE  ListsAll(s, S, N)
<1>1. IsFiniteSet(1..N) /\ Cardinality(1..N) = N
  BY UpTo
<1>2. \A i \in 1..N : s[i] \in S
  OBVIOUS
<1> DEFINE D == 1..N
<1>3. IsFiniteSet(S) /\ Cardinality(S) = Cardinality(D)
  <2>1. /\ \A i \in D : s[i] \in S
        /\ \A x \in S : \E i \in D : s[i] = x
        /\ \A i, j \in D : s[i] = s[j] => i = j
    BY <1>2
  <2> HIDE DEF D
  <2> QED
    BY <1>1, <2>1, CountsAgree DEF D
<1> QED
  BY <1>1, <1>3 DEF ListsOnce, ListsAll

\* The rows a query is about, and those of them that are newer than a row.
Wanted(rows, since, protocols) ==
    {i \in DOMAIN rows : rows[i].time >= since /\ rows[i].probe.protocol \in protocols}

Newer(rows, S, i) ==
    {j \in S : rows[j].time > rows[i].time \/ (rows[j].time = rows[i].time /\ j > i)}

Newests(rows, S) == {i \in S : Cardinality(Newer(rows, S, i)) < RowLimit}

LEMMA LookedIs ==
    ASSUME NEW rows, BoardRows(rows), NEW since, NEW protocols
    PROVE  ListsOnce(Looked(rows, since, protocols),
                     Newests(rows, Wanted(rows, since, protocols)))
<1> DEFINE S == Wanted(rows, since, protocols)
           N == Cardinality(S)
           key == [i \in S |-> <<- rows[i].time, - i>>]
           s == InOrder(S, key)
           M == IF RowLimit < N THEN RowLimit ELSE N
           first == FirstOf(s, RowLimit)
           seen == Newests(rows, S)
<1>1. /\ S \subseteq 1..Len(rows) /\ Len(rows) \in Nat
      /\ \A i \in S : rows[i].time \in Nat /\ i \in Nat
  <2>1. Len(rows) \in Nat /\ DOMAIN rows = 1..Len(rows)
    <3>1. rows \in Seq({rows[k] : k \in DOMAIN rows})
      BY DEF BoardRows
    <3> QED
      BY <3>1, SequenceIs
  <2> QED
    BY <2>1 DEF BoardRows, Wanted
<1>2. Looked(rows, since, protocols) = first
  BY DEF Looked, Newest, Wanted
<1> HIDE DEF S
<1>3. IsFiniteSet(S) /\ N \in Nat
  <2>1. IsFiniteSet(1..Len(rows))
    BY <1>1, UpTo
  <2>2. IsFiniteSet(S)
    <3>1. S \in SUBSET (1..Len(rows))
      BY <1>1
    <3> QED
      BY <2>1, <3>1, FS_Subset
  <2> QED
    BY <2>2, FS_CardinalityType
<1>4. \A i \in S : key[i] \in Keys(2) /\ key[i] = <<- rows[i].time, - i>>
  BY <1>1 DEF Keys
<1>5. \A i, j \in S : key[i] = key[j] => i = j
  <2> SUFFICES ASSUME NEW i \in S, NEW j \in S, key[i] = key[j]
               PROVE  i = j
    OBVIOUS
  <2>1. - i = - j
    BY <1>4
  <2> QED
    BY <1>1, <2>1
<1>6. \A i, j \in S : Before(key[j], key[i]) <=> j \in Newer(rows, S, i)
  <2> SUFFICES ASSUME NEW i \in S, NEW j \in S
               PROVE  Before(key[j], key[i]) <=> j \in Newer(rows, S, i)
    OBVIOUS
  <2> DEFINE t == rows[i].time
             u == rows[j].time
  <2>1. t \in Nat /\ u \in Nat /\ i \in Nat /\ j \in Nat
    BY <1>1
  <2>2. key[i] = <<- t, - i>> /\ key[j] = <<- u, - j>>
    BY <1>4
  <2>3. j \in Newer(rows, S, i) <=> u > t \/ (u = t /\ j > i)
    BY DEF Newer
  <2> HIDE DEF key, t, u
  <2>4. Before(<<- u, - j>>, <<- t, - i>>) <=> - u < - t \/ (- u = - t /\ - j < - i)
    <3>1. - u \in Int /\ - j \in Int /\ - t \in Int /\ - i \in Int
      BY <2>1
    <3> QED
      BY <3>1, BeforeTwoIs
  <2>5. (- u < - t \/ (- u = - t /\ - j < - i)) <=> u > t \/ (u = t /\ j > i)
    BY <2>1
  <2> QED
    BY <2>2, <2>3, <2>4, <2>5
<1> HIDE DEF key
<1>7. /\ s \in [1..N -> S]
      /\ \A i, j \in 1..N : s[i] = s[j] => i = j
      /\ \A x \in S : \E i \in 1..N : s[i] = x
  <2>1. s \in Bijection(1..N, S)
    <3> DEFINE n == 2
    <3>1. n \in Nat /\ \A x \in S : key[x] \in Keys(n)
      BY <1>4
    <3> HIDE DEF n
    <3> QED
      BY <1>3, <1>5, <3>1, InOrderSorts
  <2> HIDE DEF s, N
  <2> QED
    BY <2>1 DEF Bijection, Injection, Surjection, IsInjective
<1>8. \A k \in 1..N : Cardinality(Newer(rows, S, s[k])) = k - 1
  <2> SUFFICES ASSUME NEW k \in 1..N
               PROVE  Cardinality(Newer(rows, S, s[k])) = k - 1
    OBVIOUS
  <2> DEFINE R == {y \in S : Before(key[y], key[s[k]])}
  <2>1. Cardinality(R) = k - 1
    <3> DEFINE n == 2
    <3>1. n \in Nat /\ \A x \in S : key[x] \in Keys(n)
      BY <1>4
    <3> HIDE DEF n
    <3>2. \A l \in 1..N : Cardinality({y \in S : Before(key[y], key[s[l]])}) = l - 1
      BY <1>3, <1>5, <3>1, RankIs
    <3> QED
      BY <3>2
  <2>2. s[k] \in S
    BY <1>7
  <2> HIDE DEF s
  <2>3. R = Newer(rows, S, s[k])
    <3>1. R \subseteq S /\ Newer(rows, S, s[k]) \subseteq S
      BY DEF Newer
    <3> QED
      BY <1>6, <2>2, <3>1
  <2> QED
    BY <2>1, <2>3
<1> HIDE DEF s, N
<1>9. RowLimit \in Nat /\ M \in Nat /\ M =< N /\ \A k \in 1..N : k - 1 < RowLimit <=> k =< M
  BY <1>3, LimitsAssumption
<1>10. first \in [1..M -> S] /\ \A k \in 1..M : first[k] = s[k]
  <2>1. first \in [1..M -> S]
    BY <1>3, <1>7, <1>9, FirstOfSeq
  <2>2. \A k \in 1..M : first[k] = s[k]
    <3>1. \A T : \A t \in [1..N -> T] : \A limit \in Nat :
            \A i \in 1..(IF limit < N THEN limit ELSE N) : FirstOf(t, limit)[i] = t[i]
      BY <1>3, FirstOfEntries
    <3>2. \A i \in 1..(IF RowLimit < N THEN RowLimit ELSE N) : FirstOf(s, RowLimit)[i] = s[i]
      BY <1>7, <1>9, <3>1
    <3> QED
      BY <3>2
  <2> QED
    BY <2>1, <2>2
<1> HIDE DEF M, first
<1>11. \A k \in 1..N : s[k] \in seen <=> k =< M
  BY <1>7, <1>8, <1>9 DEF Newests
<1>12. first \in [1..M -> seen]
  <2>1. \A k \in 1..M : k \in 1..N /\ k =< M
    BY <1>3, <1>9
  <2>2. \A k \in 1..M : first[k] \in seen
    BY <1>10, <1>11, <2>1
  <2> HIDE DEF seen
  <2> QED
    BY <1>10, <2>2
<1>13. \A i, j \in 1..M : first[i] = first[j] => i = j
  BY <1>3, <1>7, <1>9, <1>10
<1>14. \A x \in seen : \E k \in 1..M : first[k] = x
  <2> SUFFICES ASSUME NEW x \in seen
               PROVE  \E k \in 1..M : first[k] = x
    OBVIOUS
  <2>1. PICK k \in 1..N : s[k] = x
    BY <1>7 DEF Newests
  <2>2. k \in 1..M
    BY <1>3, <1>9, <1>11, <2>1
  <2> QED
    BY <1>10, <2>1, <2>2
<1> HIDE DEF seen
<1>15. ListsOnce(first, seen)
  <2>1. ListsAll(first, seen, M)
    BY <1>9, <1>12, <1>13, <1>14, ListedOnce
  <2> QED
    BY <2>1 DEF ListsAll
<1> QED
  BY <1>2, <1>15 DEF seen, S

\* The events of rows, each named by its row.
Anomalous(rows, S) == {i \in S : protocolAnomaly(rows[i].probe) # ""}

Tells(evs, rows, regions, at, H) ==
    /\ ListsOnce(at, H)
    /\ evs = [k \in 1..Cardinality(H) |-> EventOf(rows[at[k]], regions)]

LEMMA EventsAre ==
    ASSUME NEW rows, NEW S, NEW ids, ListsOnce(ids, S), NEW regions
    PROVE  \E at : Tells(Events(rows, ids, regions), rows, regions, at, Anomalous(rows, S))
<1> DEFINE n == Cardinality(S)
           all == [k \in DOMAIN ids |-> EventOf(rows[ids[k]], regions)]
           places == {k \in 1..n : all[k].severity # ""}
           p == At(places)
           N == Cardinality(places)
           at == [k \in 1..N |-> ids[p[k]]]
           H == Anomalous(rows, S)
<1>1. /\ n \in Nat /\ DOMAIN ids = 1..n
      /\ \A k \in 1..n : ids[k] \in S
      /\ \A i, j \in 1..n : ids[i] = ids[j] => i = j
      /\ \A x \in S : \E i \in 1..n : ids[i] = x
  BY DEF ListsOnce
<1>2. Events(rows, ids, regions) = Kept(all, places)
  BY <1>1 DEF Events
<1>3. \A k \in 1..n : all[k] = EventOf(rows[ids[k]], regions)
  BY <1>1
<1>4. \A i : EventOf(rows[i], regions).severity = protocolAnomaly(rows[i].probe)
  BY DEF EventOf
<1>5. \A k \in 1..n : k \in places <=> ids[k] \in H
  BY <1>1, <1>3, <1>4 DEF Anomalous
<1>6. KeptAt(all, places, p, N)
  <2>1. places \subseteq 1..n
    OBVIOUS
  <2> HIDE DEF places, all
  <2> QED
    BY <1>1, <2>1, KeptIs
<1> HIDE DEF all, p, N
<1>7. /\ N \in Nat /\ p \in [1..N -> places]
      /\ \A i, j \in 1..N : i < j => p[i] < p[j]
      /\ \A q \in places : \E k \in 1..N : p[k] = q
      /\ Kept(all, places) = [k \in 1..N |-> all[p[k]]]
  BY <1>6 DEF KeptAt, Ascends
<1>8. \A k \in 1..N : p[k] \in places /\ p[k] \in 1..n /\ p[k] \in Int
  <2>1. places \subseteq 1..n
    OBVIOUS
  <2> HIDE DEF places, n
  <2>2. \A k \in 1..N : p[k] \in places
    BY <1>7
  <2>3. \A k \in 1..N : p[k] \in 1..n
    BY <2>1, <2>2
  <2> QED
    BY <1>1, <2>2, <2>3
<1> HIDE DEF places
<1>9. \A i, j \in 1..N : p[i] = p[j] => i = j
  <2> SUFFICES ASSUME NEW i \in 1..N, NEW j \in 1..N, p[i] = p[j]
               PROVE  i = j
    OBVIOUS
  <2>1. ~ (i < j) /\ ~ (j < i)
    BY <1>7, <1>8
  <2> QED
    BY <1>7, <2>1
<1>10. at \in [1..N -> H]
  BY <1>5, <1>8
<1>11. \A i, j \in 1..N : at[i] = at[j] => i = j
  BY <1>1, <1>8, <1>9
<1>12. \A x \in H : \E k \in 1..N : at[k] = x
  <2> SUFFICES ASSUME NEW x \in H
               PROVE  \E k \in 1..N : at[k] = x
    OBVIOUS
  <2>1. PICK i \in 1..n : ids[i] = x
    BY <1>1 DEF Anomalous
  <2>2. PICK k \in 1..N : p[k] = i
    BY <1>5, <1>7, <2>1
  <2> QED
    BY <2>1, <2>2
<1>13. Events(rows, ids, regions) = [k \in 1..N |-> EventOf(rows[at[k]], regions)]
  <2>1. \A k \in 1..N : all[p[k]] = EventOf(rows[at[k]], regions)
    BY <1>3, <1>8
  <2> HIDE DEF at
  <2> QED
    BY <1>2, <1>7, <2>1
<1> HIDE DEF at, H
<1>14. ListsOnce(at, H) /\ Cardinality(H) = N
  <2>1. ListsAll(at, H, N)
    BY <1>7, <1>10, <1>11, <1>12, ListedOnce
  <2> QED
    BY <2>1 DEF ListsAll
<1>15. Tells(Events(rows, ids, regions), rows, regions, at, H)
  BY <1>13, <1>14 DEF Tells
<1> QED
  BY <1>15 DEF H

LEMMA PairsDiffer == \A a, b, c, d : <<a, b>> = <<c, d>> => a = c /\ b = d
OBVIOUS

LEMMA MapsTo ==
    ASSUME NEW f, NEW D, NEW R, f = [i \in D |-> f[i]], \A i \in D : f[i] \in R
    PROVE  f \in [D -> R]
OBVIOUS

\* Rows of the two kinds together.
Tagged(A, C) == ({1} \X A) \cup ({2} \X C)

LEMMA TaggedCount ==
    ASSUME NEW A, NEW C, IsFiniteSet(A), IsFiniteSet(C)
    PROVE  IsFiniteSet(Tagged(A, C)) /\ Cardinality(Tagged(A, C)) = Cardinality(A) + Cardinality(C)
<1> DEFINE L == {1} \X A
           R == {2} \X C
           left == [x \in A |-> <<1, x>>]
           right == [x \in C |-> <<2, x>>]
<1>1. IsFiniteSet(L) /\ Cardinality(L) = Cardinality(A)
  <2>1. /\ \A x \in A : left[x] \in L
        /\ \A y \in L : \E x \in A : left[x] = y
        /\ \A x, y \in A : left[x] = left[y] => x = y
    OBVIOUS
  <2> HIDE DEF L, left
  <2> QED
    BY <2>1, CountsAgree
<1>2. IsFiniteSet(R) /\ Cardinality(R) = Cardinality(C)
  <2>1. /\ \A x \in C : right[x] \in R
        /\ \A y \in R : \E x \in C : right[x] = y
        /\ \A x, y \in C : right[x] = right[y] => x = y
    OBVIOUS
  <2> HIDE DEF R, right
  <2> QED
    BY <2>1, CountsAgree
<1>3. L \cap R = {} /\ Tagged(A, C) = L \cup R
  BY DEF Tagged
<1> HIDE DEF L, R
<1>4. /\ IsFiniteSet(L \cup R)
      /\ Cardinality(L \cup R) = Cardinality(L) + Cardinality(R) - Cardinality(L \cap R)
  BY <1>1, <1>2, FS_Union
<1>5. Cardinality(L \cap R) = 0
  <2>1. IsFiniteSet({}) /\ Cardinality({}) = 0
    BY FS_EmptySet
  <2> QED
    BY <1>3, <2>1
<1>6. Cardinality(A) \in Nat /\ Cardinality(C) \in Nat
  BY FS_CardinalityType
<1> QED
  BY <1>1, <1>2, <1>3, <1>4, <1>5, <1>6

RowAt(board, x) == IF x[1] = 1 THEN board.single[x[2]] ELSE board.batch[x[2]]

Hits(board, rows) ==
    Anomalous(rows, Newests(rows, Wanted(rows, board.since, nonDNSProtocols(board.protocol))))

AllHits(board) == Tagged(Hits(board, board.single), Hits(board, board.batch))

\* The events are those of the rows that are hits, the latest first.
Told(board, events, at) ==
    LET N == Cardinality(AllHits(board)) IN
    /\ ListsOnce(at, AllHits(board))
    /\ events = [k \in 1..N |-> EventOf(RowAt(board, at[k]), board.regions)]
    /\ \A i, j \in 1..N : i < j => events[i].time >= events[j].time

\* Two lists of events, one after the other.
TellsBoth(board, all, at) ==
    LET N == Cardinality(AllHits(board)) IN
    /\ ListsOnce(at, AllHits(board))
    /\ all = [k \in 1..N |-> EventOf(RowAt(board, at[k]), board.regions)]

LEMMA BothTold ==
    ASSUME NEW board, NEW a, NEW b, NEW one, NEW two,
           Tells(a, board.single, board.regions, one, Hits(board, board.single)),
           Tells(b, board.batch, board.regions, two, Hits(board, board.batch))
    PROVE  \E at : TellsBoth(board, a \o b, at)
<1> DEFINE A == Hits(board, board.single)
           C == Hits(board, board.batch)
           H == AllHits(board)
           n == Cardinality(A)
           m == Cardinality(C)
           N == n + m
           at == [i \in 1..N |-> IF i =< n THEN <<1, one[i]>> ELSE <<2, two[i - n]>>]
           all == a \o b
<1>1. /\ n \in Nat /\ one \in [1..n -> A]
      /\ \A i, j \in 1..n : one[i] = one[j] => i = j
      /\ \A x \in A : \E i \in 1..n : one[i] = x
      /\ a = [k \in 1..n |-> EventOf(board.single[one[k]], board.regions)]
  BY DEF Tells, ListsOnce
<1>2. /\ m \in Nat /\ two \in [1..m -> C]
      /\ \A i, j \in 1..m : two[i] = two[j] => i = j
      /\ \A x \in C : \E i \in 1..m : two[i] = x
      /\ b = [k \in 1..m |-> EventOf(board.batch[two[k]], board.regions)]
  BY DEF Tells, ListsOnce
<1>3. H = Tagged(A, C)
  BY DEF AllHits
<1> HIDE DEF A, C, n, m, H
<1>4. DOMAIN all = 1..N /\ \A i \in 1..N : all[i] = IF i =< n THEN a[i] ELSE b[i - n]
  <2> DEFINE T == {a[k] : k \in 1..n} \cup {b[k] : k \in 1..m}
  <2>1. a \in [1..n -> T]
    BY <1>1
  <2>2. b \in [1..m -> T]
    BY <1>2
  <2> HIDE DEF T
  <2>3. a \in Seq(T) /\ Len(a) = n
    BY <1>1, <2>1, IsASeq
  <2>4. b \in Seq(T) /\ Len(b) = m
    BY <1>2, <2>2, IsASeq
  <2>5. all \in Seq(T) /\ Len(all) = Len(a) + Len(b)
    BY <2>3, <2>4, ConcatProperties
  <2>6. \A i \in 1..(Len(a) + Len(b)) : all[i] = IF i =< Len(a) THEN a[i] ELSE b[i - Len(a)]
    BY <2>3, <2>4, ConcatProperties
  <2> HIDE DEF all
  <2> QED
    BY <2>3, <2>4, <2>5, <2>6
<1>5. \A i \in 1..N : \/ i \in 1..n /\ i =< n /\ at[i] = <<1, one[i]>>
                      \/ i - n \in 1..m /\ ~ (i =< n) /\ at[i] = <<2, two[i - n]>>
  BY <1>1, <1>2
<1>6. \A x \in A : <<1, x>> \in H
  BY <1>3 DEF Tagged
<1>7. \A x \in C : <<2, x>> \in H
  BY <1>3 DEF Tagged
<1>8. at \in [1..N -> H]
  <2>1. \A i \in 1..N : at[i] \in H
    BY <1>1, <1>2, <1>5, <1>6, <1>7
  <2>2. at = [i \in 1..N |-> at[i]]
    OBVIOUS
  <2> DEFINE D == 1..N
  <2> HIDE DEF at
  <2>3. at = [i \in D |-> at[i]] /\ \A i \in D : at[i] \in H
    BY <2>1, <2>2
  <2> HIDE DEF D
  <2>4. at \in [D -> H]
    BY <2>3, MapsTo
  <2> QED
    BY <2>4 DEF D
<1>9. \A i \in 1..n : i \in 1..N /\ at[i] = <<1, one[i]>>
  BY <1>1, <1>2
<1>10. \A i \in 1..m : i + n \in 1..N /\ at[i + n] = <<2, two[i]>>
  <2> SUFFICES ASSUME NEW i \in 1..m
               PROVE  i + n \in 1..N /\ at[i + n] = <<2, two[i]>>
    OBVIOUS
  <2>1. i + n \in 1..N /\ ~ (i + n =< n) /\ i + n - n = i
    BY <1>1, <1>2
  <2> DEFINE l == i + n
  <2> HIDE DEF l
  <2>2. l \in 1..N /\ ~ (l =< n) /\ l - n = i
    BY <1>1, <1>2 DEF l
  <2>3. at[l] = <<2, two[l - n]>>
    BY <2>2
  <2> HIDE DEF at
  <2> QED
    BY <2>1, <2>2, <2>3 DEF l
<1> HIDE DEF at
<1>11. \A i, j \in 1..N : at[i] = at[j] => i = j
  <2> SUFFICES ASSUME NEW i \in 1..N, NEW j \in 1..N, at[i] = at[j]
               PROVE  i = j
    OBVIOUS
  <2>1. CASE i =< n
    <3>1. i \in 1..n /\ at[i] = <<1, one[i]>>
      BY <1>1, <1>5, <2>1
    <3>2. at[j] # <<2, two[j - n]>>
      BY <3>1
    <3>3. j \in 1..n /\ at[j] = <<1, one[j]>>
      BY <1>5, <3>2
    <3>4. one[i] = one[j]
      <4>1. <<1, one[i]>> = <<1, one[j]>>
        BY <3>1, <3>3
      <4> QED
        BY <4>1, PairsDiffer
    <3> QED
      BY <1>1, <3>1, <3>3, <3>4
  <2>2. CASE ~ (i =< n)
    <3>1. i - n \in 1..m /\ at[i] = <<2, two[i - n]>>
      BY <1>1, <1>5, <2>2
    <3>2. at[j] # <<1, one[j]>>
      BY <3>1
    <3>3. j - n \in 1..m /\ at[j] = <<2, two[j - n]>>
      BY <1>5, <3>2
    <3>4. two[i - n] = two[j - n]
      <4>1. <<2, two[i - n]>> = <<2, two[j - n]>>
        BY <3>1, <3>3
      <4> QED
        BY <4>1, PairsDiffer
    <3>5. i - n = j - n
      BY <1>2, <3>1, <3>3, <3>4
    <3> QED
      BY <1>1, <3>5
  <2> QED
    BY <2>1, <2>2
<1>12. \A x \in H : \E i \in 1..N : at[i] = x
  <2> SUFFICES ASSUME NEW x \in H
               PROVE  \E i \in 1..N : at[i] = x
    OBVIOUS
  <2>1. CASE \E y \in A : x = <<1, y>>
    <3>1. PICK y \in A : x = <<1, y>>
      BY <2>1
    <3>2. PICK i \in 1..n : one[i] = y
      BY <1>1
    <3> QED
      BY <1>9, <3>1, <3>2
  <2>2. CASE \E y \in C : x = <<2, y>>
    <3>1. PICK y \in C : x = <<2, y>>
      BY <2>2
    <3>2. PICK i \in 1..m : two[i] = y
      BY <1>2
    <3> QED
      BY <1>10, <3>1, <3>2
  <2> QED
    BY <1>3, <2>1, <2>2 DEF Tagged
<1>13. ListsOnce(at, H) /\ Cardinality(H) = N
  <2>1. N \in Nat
    BY <1>1, <1>2
  <2> HIDE DEF N
  <2>2. ListsAll(at, H, N)
    BY <1>8, <1>11, <1>12, <2>1, ListedOnce
  <2> QED
    BY <2>2 DEF ListsAll
<1>14. \A i \in 1..N : all[i] = EventOf(RowAt(board, at[i]), board.regions)
  <2> SUFFICES ASSUME NEW i \in 1..N
               PROVE  all[i] = EventOf(RowAt(board, at[i]), board.regions)
    OBVIOUS
  <2>1. CASE i =< n
    <3>1. i \in 1..n /\ at[i] = <<1, one[i]>>
      BY <1>1, <1>5, <2>1
    <3>2. RowAt(board, at[i]) = board.single[one[i]]
      BY <3>1 DEF RowAt
    <3>3. all[i] = a[i]
      BY <1>4, <2>1
    <3>4. a[i] = EventOf(board.single[one[i]], board.regions)
      BY <1>1, <3>1
    <3> QED
      BY <3>2, <3>3, <3>4
  <2>2. CASE ~ (i =< n)
    <3>1. i - n \in 1..m /\ at[i] = <<2, two[i - n]>>
      BY <1>1, <1>5, <2>2
    <3>2. RowAt(board, at[i]) = board.batch[two[i - n]]
      BY <3>1 DEF RowAt
    <3>3. all[i] = b[i - n]
      BY <1>4, <2>2
    <3>4. b[i - n] = EventOf(board.batch[two[i - n]], board.regions)
      BY <1>2, <3>1
    <3> QED
      BY <3>2, <3>3, <3>4
  <2> QED
    BY <2>1, <2>2
<1>15. all = [i \in 1..N |-> EventOf(RowAt(board, at[i]), board.regions)]
  <2>1. all = [i \in DOMAIN all |-> all[i]]
    BY <1>4, <1>1, <1>2
  <2> HIDE DEF all
  <2> QED
    BY <1>4, <1>14, <2>1
<1>16. TellsBoth(board, all, at)
  BY <1>13, <1>15 DEF TellsBoth, H
<1> QED
  BY <1>16

LEMMA RowTimes ==
    ASSUME NEW board, BoardTables(board)
    PROVE  \A x \in AllHits(board) : RowAt(board, x).time \in Nat
<1> SUFFICES ASSUME NEW x \in AllHits(board)
             PROVE  RowAt(board, x).time \in Nat
  OBVIOUS
<1>1. CASE \E y \in Hits(board, board.single) : x = <<1, y>>
  <2>1. PICK y \in Hits(board, board.single) : x = <<1, y>>
    BY <1>1
  <2>2. RowAt(board, x) = board.single[y] /\ y \in DOMAIN board.single
    BY <2>1 DEF RowAt, Hits, Anomalous, Newests, Wanted
  <2> QED
    BY <2>2 DEF BoardTables, BoardRows
<1>2. CASE \E y \in Hits(board, board.batch) : x = <<2, y>>
  <2>1. PICK y \in Hits(board, board.batch) : x = <<2, y>>
    BY <1>2
  <2>2. RowAt(board, x) = board.batch[y]
    <3>1. x[1] = 2 /\ x[2] = y
      BY <2>1
    <3> QED
      BY <3>1 DEF RowAt
  <2>3. y \in DOMAIN board.batch
    BY <2>1 DEF Hits, Anomalous, Newests, Wanted
  <2> QED
    BY <2>2, <2>3 DEF BoardTables, BoardRows
<1> QED
  BY <1>1, <1>2 DEF AllHits, Tagged

LEMMA LatestTold ==
    ASSUME NEW board, BoardTables(board), NEW all, NEW one, TellsBoth(board, all, one)
    PROVE  \E at : Told(board, LatestFirst(all), at)
<1> DEFINE H == AllHits(board)
           N == Cardinality(H)
           time(i) == all[i].time
           key == [i \in 1..N |-> <<- time(i), i>>]
           o == InOrder(1..N, key)
           at == [k \in 1..N |-> one[o[k]]]
           events == LatestFirst(all)
<1>1. /\ N \in Nat /\ one \in [1..N -> H]
      /\ \A i, j \in 1..N : one[i] = one[j] => i = j
      /\ \A x \in H : \E i \in 1..N : one[i] = x
      /\ all = [k \in 1..N |-> EventOf(RowAt(board, one[k]), board.regions)]
  BY DEF TellsBoth, ListsOnce
<1>2. \A x \in H : RowAt(board, x).time \in Nat
  BY RowTimes
<1> HIDE DEF H, N
<1>3. DOMAIN all = 1..N /\ \A i \in 1..N : time(i) \in Nat
  <2>1. \A i \in 1..N : one[i] \in H
    BY <1>1
  <2> QED
    BY <1>1, <1>2, <2>1 DEF EventOf
<1>4. events = [k \in DOMAIN o |-> all[o[k]]]
  BY <1>3 DEF LatestFirst
<1> HIDE DEF time
<1>5. \A i \in 1..N : key[i] \in Keys(2) /\ key[i] = <<- time(i), i>>
  BY <1>1, <1>3 DEF Keys
<1>6. \A i, j \in 1..N : key[i] = key[j] => i = j
  <2> SUFFICES ASSUME NEW i \in 1..N, NEW j \in 1..N, key[i] = key[j]
               PROVE  i = j
    OBVIOUS
  <2>1. key[i][2] = i /\ key[j][2] = j
    BY <1>5
  <2> QED
    BY <2>1
<1> HIDE DEF key
<1>7. /\ o \in [1..N -> 1..N]
      /\ \A i, j \in 1..N : o[i] = o[j] => i = j
      /\ \A x \in 1..N : \E i \in 1..N : o[i] = x
      /\ \A i, j \in 1..N : i < j => Before(key[o[i]], key[o[j]])
  <2> DEFINE S == 1..N
             n == 2
  <2>1. IsFiniteSet(S) /\ Cardinality(S) = N
    BY <1>1, UpTo
  <2>2. /\ n \in Nat /\ \A x \in S : key[x] \in Keys(n)
        /\ \A x, y \in S : key[x] = key[y] => x = y
    BY <1>5, <1>6
  <2> HIDE DEF S, n
  <2>3. InOrder(S, key) \in Bijection(1..Cardinality(S), S)
    BY <2>1, <2>2, InOrderSorts
  <2>4. \A i, j \in 1..Cardinality(S) :
            i < j => Before(key[InOrder(S, key)[i]], key[InOrder(S, key)[j]])
    BY <2>1, <2>2, InOrderSorts
  <2>5. o = InOrder(S, key)
    BY DEF S
  <2> HIDE DEF o
  <2> USE DEF S
  <2> QED
    BY <2>1, <2>3, <2>4, <2>5 DEF Bijection, Injection, Surjection, IsInjective
<1> HIDE DEF o
<1>8. \A i \in 1..N : o[i] \in 1..N
  BY <1>7
<1>9. events = [k \in 1..N |-> all[o[k]]]
  BY <1>4, <1>7
<1>10. \A k \in 1..N : at[k] \in H /\ events[k] = EventOf(RowAt(board, at[k]), board.regions)
  BY <1>1, <1>8, <1>9
<1>11. at \in [1..N -> H]
  BY <1>10
<1>12. \A i, j \in 1..N : at[i] = at[j] => i = j
  BY <1>1, <1>7, <1>8
<1>13. \A x \in H : \E i \in 1..N : at[i] = x
  <2> SUFFICES ASSUME NEW x \in H
               PROVE  \E i \in 1..N : at[i] = x
    OBVIOUS
  <2>1. PICK i \in 1..N : one[i] = x
    BY <1>1
  <2>2. PICK k \in 1..N : o[k] = i
    BY <1>7
  <2> QED
    BY <2>1, <2>2
<1> HIDE DEF at
<1>14. ListsOnce(at, H)
  <2>1. ListsAll(at, H, N)
    BY <1>1, <1>11, <1>12, <1>13, ListedOnce
  <2> QED
    BY <2>1 DEF ListsAll
<1>15. events = [k \in 1..N |-> EventOf(RowAt(board, at[k]), board.regions)]
  <2> HIDE DEF events
  <2> QED
    BY <1>9, <1>10
<1>16. \A i, j \in 1..N : i < j => events[i].time >= events[j].time
  <2> SUFFICES ASSUME NEW i \in 1..N, NEW j \in 1..N, i < j
               PROVE  events[i].time >= events[j].time
    OBVIOUS
  <2> DEFINE p == o[i]
             q == o[j]
  <2>1. p \in 1..N /\ q \in 1..N /\ Before(key[p], key[q])
    BY <1>7, <1>8
  <2>2. events[i].time = time(p) /\ events[j].time = time(q)
    BY <1>9 DEF time
  <2> HIDE DEF p, q
  <2>3. Before(<<- time(p), p>>, <<- time(q), q>>)
    BY <1>5, <2>1
  <2>4. time(p) \in Nat /\ time(q) \in Nat /\ - time(p) \in Int /\ - time(q) \in Int
        /\ p \in Int /\ q \in Int
    BY <1>1, <1>3, <2>1
  <2>5. - time(p) < - time(q) \/ (- time(p) = - time(q) /\ p < q)
    BY <2>3, <2>4, BeforeTwo
  <2> HIDE DEF events
  <2> QED
    BY <2>2, <2>4, <2>5
<1>17. Told(board, events, at)
  BY <1>14, <1>15, <1>16 DEF Told, H, N
<1> QED
  BY <1>17

LEMMA BoardTold ==
    ASSUME NEW board, BoardTables(board)
    PROVE  \E at : Told(board, buildRiskEvents(board), at)
<1> DEFINE protocols == nonDNSProtocols(board.protocol)
           looked(rows) == Looked(rows, board.since, protocols)
           events(rows) == Events(rows, looked(rows), board.regions)
           W(rows) == Newests(rows, Wanted(rows, board.since, protocols))
<1>1. ASSUME NEW rows, BoardRows(rows)
      PROVE  \E at : Tells(events(rows), rows, board.regions, at, Hits(board, rows))
  <2>1. ListsOnce(looked(rows), W(rows))
    BY <1>1, LookedIs
  <2>2. Hits(board, rows) = Anomalous(rows, W(rows))
    BY DEF Hits
  <2> HIDE DEF looked, W
  <2>3. \E at : Tells(Events(rows, looked(rows), board.regions), rows, board.regions, at,
                      Anomalous(rows, W(rows)))
    BY <2>1, EventsAre
  <2> QED
    BY <2>2, <2>3
<1>2. buildRiskEvents(board) = LatestFirst(events(board.single) \o events(board.batch))
  BY DEF buildRiskEvents
<1> HIDE DEF events
<1>3. BoardRows(board.single) /\ BoardRows(board.batch)
  BY DEF BoardTables
<1>4. PICK one : Tells(events(board.single), board.single, board.regions, one,
                       Hits(board, board.single))
  BY <1>1, <1>3
<1>5. PICK two : Tells(events(board.batch), board.batch, board.regions, two,
                       Hits(board, board.batch))
  BY <1>1, <1>3
<1>6. PICK both : TellsBoth(board, events(board.single) \o events(board.batch), both)
  BY <1>4, <1>5, BothTold
<1> QED
  BY <1>2, <1>6, LatestTold

\* The rows the board is about, as the property names them.
ShownRow(board, rows, i) ==
    /\ rows[i].time >= board.since
    /\ rows[i].probe.protocol # "dns"
    /\ board.protocol \in {"all", rows[i].probe.protocol}

NewerRows(board, rows, i) ==
    {j \in DOMAIN rows : ShownRow(board, rows, j) /\
        <<rows[j].time, j>> # <<rows[i].time, i>>
        /\ ~ Before(<<rows[j].time, j>>, <<rows[i].time, i>>)}

HitRows(board, rows) ==
    {i \in DOMAIN rows : /\ ShownRow(board, rows, i)
                         /\ Cardinality(NewerRows(board, rows, i)) < RowLimit
                         /\ protocolAnomaly(rows[i].probe) # ""}

LEMMA HitsAre ==
    ASSUME NEW board, NEW rows, BoardRows(rows)
    PROVE  HitRows(board, rows) = Hits(board, rows)
<1> DEFINE protocols == nonDNSProtocols(board.protocol)
           W == Wanted(rows, board.since, protocols)
<1>1. /\ DOMAIN rows = 1..Len(rows) /\ Len(rows) \in Nat
      /\ \A i \in DOMAIN rows : rows[i].time \in Nat
      /\ \A i \in DOMAIN rows :
            rows[i].probe.protocol \in {"http", "ping", "mtr", "traceroute", "dns"}
  <2>1. Len(rows) \in Nat /\ DOMAIN rows = 1..Len(rows)
    <3>1. rows \in Seq({rows[k] : k \in DOMAIN rows})
      BY DEF BoardRows
    <3> QED
      BY <3>1, SequenceIs
  <2> QED
    BY <2>1 DEF BoardRows
<1>2. \A p \in {"http", "ping", "mtr", "traceroute", "dns"} :
        p \in protocols <=> p # "dns" /\ board.protocol \in {"all", p}
  <2>1. CASE board.protocol = "dns"
    <3>1. protocols = {}
      BY <2>1 DEF nonDNSProtocols
    <3> QED
      BY <2>1, <3>1
  <2>2. CASE board.protocol = "all"
    <3>1. protocols = {"http", "ping", "mtr", "traceroute"}
      BY <2>2 DEF nonDNSProtocols
    <3> QED
      BY <2>2, <3>1
  <2>3. CASE board.protocol # "dns" /\ board.protocol # "all"
    <3>1. protocols = {board.protocol}
      BY <2>3 DEF nonDNSProtocols
    <3> QED
      BY <2>3, <3>1
  <2> QED
    BY <2>1, <2>2, <2>3
<1> HIDE DEF protocols
<1>3. \A i \in DOMAIN rows : ShownRow(board, rows, i) <=> i \in W
  BY <1>1, <1>2 DEF ShownRow, Wanted
<1>4. W \subseteq DOMAIN rows
  BY DEF Wanted
<1> HIDE DEF W
<1>5. \A i \in W : NewerRows(board, rows, i) = Newer(rows, W, i)
  <2> SUFFICES ASSUME NEW i \in W
               PROVE  NewerRows(board, rows, i) = Newer(rows, W, i)
    OBVIOUS
  <2>1. ASSUME NEW j \in DOMAIN rows
        PROVE  (<<rows[j].time, j>> # <<rows[i].time, i>>
                /\ ~ Before(<<rows[j].time, j>>, <<rows[i].time, i>>))
               <=> (rows[j].time > rows[i].time \/ (rows[j].time = rows[i].time /\ j > i))
    <3> DEFINE t == rows[i].time
               u == rows[j].time
    <3>1. t \in Int /\ u \in Int /\ i \in Int /\ j \in Int
      BY <1>1, <1>4, <2>1
    <3> HIDE DEF t, u
    <3>2. Before(<<u, j>>, <<t, i>>) <=> u < t \/ (u = t /\ j < i)
      BY <3>1, BeforeTwoIs
    <3>3. <<u, j>> = <<t, i>> <=> u = t /\ j = i
      BY PairsDiffer
    <3>4. <<u, j>> # <<t, i>> /\ ~ Before(<<u, j>>, <<t, i>>) <=> u > t \/ (u = t /\ j > i)
      BY <3>1, <3>2, <3>3
    <3> QED
      BY <3>4 DEF t, u
  <2>2. NewerRows(board, rows, i)
            = {j \in DOMAIN rows : ShownRow(board, rows, j)
                 /\ (rows[j].time > rows[i].time \/ (rows[j].time = rows[i].time /\ j > i))}
    BY <2>1 DEF NewerRows
  <2> QED
    BY <1>3, <1>4, <2>2 DEF Newer
<1>6. HitRows(board, rows) = {i \in W : /\ Cardinality(Newer(rows, W, i)) < RowLimit
                                        /\ protocolAnomaly(rows[i].probe) # ""}
  BY <1>3, <1>4, <1>5 DEF HitRows
<1> QED
  BY <1>6 DEF Hits, Anomalous, Newests, W, protocols

LEMMA HitsFinite ==
    ASSUME NEW board, NEW rows, BoardRows(rows)
    PROVE  IsFiniteSet(Hits(board, rows))
<1>1. Len(rows) \in Nat /\ DOMAIN rows = 1..Len(rows)
  <2>1. rows \in Seq({rows[k] : k \in DOMAIN rows})
    BY DEF BoardRows
  <2> QED
    BY <2>1, SequenceIs
<1>2. IsFiniteSet(1..Len(rows))
  BY <1>1, UpTo
<1>3. Hits(board, rows) \in SUBSET (1..Len(rows))
  BY <1>1 DEF Hits, Anomalous, Newests, Wanted
<1> QED
  BY <1>2, <1>3, FS_Subset

\* The hits that are later than a time.
LaterHits(board, rows, t) == {i \in Hits(board, rows) : rows[i].time > t}

LEMMA AboveIs ==
    ASSUME NEW board, BoardTables(board), NEW events, NEW at, Told(board, events, at),
           NEW k \in 1..Cardinality(AllHits(board))
    PROVE  Cardinality(LaterHits(board, board.single, events[k].time))
             + Cardinality(LaterHits(board, board.batch, events[k].time)) < k
<1> DEFINE N == Cardinality(AllHits(board))
           H == AllHits(board)
           t == events[k].time
           A == LaterHits(board, board.single, t)
           C == LaterHits(board, board.batch, t)
           J == {j \in 1..N : events[j].time > t}
           B == Tagged(A, C)
<1>1. /\ N \in Nat /\ at \in [1..N -> H]
      /\ \A i, j \in 1..N : at[i] = at[j] => i = j
      /\ \A x \in H : \E i \in 1..N : at[i] = x
      /\ events = [i \in 1..N |-> EventOf(RowAt(board, at[i]), board.regions)]
      /\ \A i, j \in 1..N : i < j => events[i].time >= events[j].time
  BY DEF Told, ListsOnce
<1>2. \A i \in 1..N : at[i] \in H /\ events[i].time = RowAt(board, at[i]).time
  BY <1>1 DEF EventOf
<1>3. \A i \in 1..N : events[i].time \in Nat
  BY <1>2, RowTimes
<1>4. IsFiniteSet(A) /\ IsFiniteSet(C)
  <2>1. IsFiniteSet(Hits(board, board.single)) /\ IsFiniteSet(Hits(board, board.batch))
    BY HitsFinite DEF BoardTables
  <2>2. A \in SUBSET Hits(board, board.single) /\ C \in SUBSET Hits(board, board.batch)
    BY DEF LaterHits
  <2> HIDE DEF A, C
  <2> QED
    BY <2>1, <2>2, FS_Subset
<1>5. \A x \in H : RowAt(board, x).time > t <=> x \in B
  <2> SUFFICES ASSUME NEW x \in H
               PROVE  RowAt(board, x).time > t <=> x \in B
    OBVIOUS
  <2>1. CASE \E y \in Hits(board, board.single) : x = <<1, y>>
    <3>1. PICK y \in Hits(board, board.single) : x = <<1, y>>
      BY <2>1
    <3>2. x[1] = 1 /\ x[2] = y
      BY <3>1
    <3>3. RowAt(board, x) = board.single[y]
      BY <3>2 DEF RowAt
    <3>4. x \in B <=> y \in A
      BY <3>1, PairsDiffer DEF Tagged
    <3> QED
      BY <3>3, <3>4 DEF LaterHits
  <2>2. CASE \E y \in Hits(board, board.batch) : x = <<2, y>>
    <3>1. PICK y \in Hits(board, board.batch) : x = <<2, y>>
      BY <2>2
    <3>2. x[1] = 2 /\ x[2] = y
      BY <3>1
    <3>3. RowAt(board, x) = board.batch[y]
      BY <3>2 DEF RowAt
    <3>4. x \in B <=> y \in C
      BY <3>1, PairsDiffer DEF Tagged
    <3> QED
      BY <3>3, <3>4 DEF LaterHits
  <2> QED
    BY <2>1, <2>2 DEF AllHits, Tagged
<1>6. B \subseteq H
  BY DEF LaterHits, AllHits, Tagged
<1> HIDE DEF A, C, H, N, B, t
<1>7. J \subseteq 1..(k - 1)
  <2> SUFFICES ASSUME NEW j \in J
               PROVE  j \in 1..(k - 1)
    OBVIOUS
  <2>1. k \in 1..N /\ t = events[k].time /\ t \in Nat
    <3>1. k \in 1..N
      BY DEF N
    <3> QED
      BY <1>3, <3>1 DEF t
  <2>2. j \in 1..N /\ events[j].time > t /\ events[j].time \in Nat
    BY <1>3
  <2>3. ~ (k < j)
    BY <1>1, <2>1, <2>2
  <2>4. j # k
    BY <2>1, <2>2
  <2> QED
    BY <1>1, <2>1, <2>2, <2>3, <2>4
<1>8. k - 1 \in Nat /\ k \in Nat
  BY <1>1 DEF N
<1>9. IsFiniteSet(J) /\ Cardinality(J) =< k - 1
  <2> DEFINE I == 1..(k - 1)
  <2>1. IsFiniteSet(I) /\ Cardinality(I) = k - 1
    BY <1>8, UpTo
  <2>2. J \in SUBSET I
    BY <1>7
  <2> HIDE DEF I, J
  <2> QED
    BY <2>1, <2>2, FS_Subset
<1>10. \A j \in J : at[j] \in B
  BY <1>2, <1>5
<1>11. \A x \in B : \E j \in J : at[j] = x
  <2> SUFFICES ASSUME NEW x \in B
               PROVE  \E j \in J : at[j] = x
    OBVIOUS
  <2>1. PICK j \in 1..N : at[j] = x
    BY <1>1, <1>6
  <2>2. j \in J
    BY <1>2, <1>5, <1>6, <2>1
  <2> QED
    BY <2>1, <2>2
<1>12. \A i, j \in J : at[i] = at[j] => i = j
  BY <1>1
<1> HIDE DEF J
<1>13. Cardinality(B) = Cardinality(J)
  BY <1>9, <1>10, <1>11, <1>12, CountsAgree
<1>14. Cardinality(B) = Cardinality(A) + Cardinality(C)
  BY <1>4, TaggedCount DEF B
<1>15. Cardinality(A) \in Nat /\ Cardinality(C) \in Nat /\ Cardinality(J) \in Nat
  BY <1>4, <1>9, FS_CardinalityType
<1>16. Cardinality(A) + Cardinality(C) < k
  BY <1>8, <1>9, <1>13, <1>14, <1>15
<1> QED
  BY <1>16 DEF A, C, t

LEMMA BoardsAccount == IInv => BoardAccounts
<1> SUFFICES ASSUME IInv, Is("board")
             PROVE  BoardAccounts
  BY DEF BoardAccounts
<1> DEFINE board == given.board
           events == buildRiskEvents(board)
           over == result.overview
           A == Hits(board, board.single)
           C == Hits(board, board.batch)
           N == Cardinality(AllHits(board))
           M == IF StreamLimit < N THEN StreamLimit ELSE N
<1>1. BoardTables(board)
  BY RulesAssumption DEF IInv, Is
<1>2. over = Overview(board, events) /\ result.nodes = Distribution(board, events)
  BY DEF IInv, Is, Boards, BuildRiskBoardOverview, BuildNodeDistribution
<1> HIDE DEF board, events, A, C, N
<1>3. PICK at : Told(board, events, at)
  BY <1>1, BoardTold DEF events
<1>4. /\ N \in Nat /\ DOMAIN events = 1..N /\ Len(events) = N
      /\ events \in [1..N -> {events[k] : k \in 1..N}]
  <2>1. N \in Nat /\ DOMAIN events = 1..N
    BY <1>3 DEF Told, ListsOnce, N
  <2>2. events = [k \in 1..N |-> EventOf(RowAt(board, at[k]), board.regions)]
    BY <1>3 DEF Told, N
  <2>3. events \in [1..N -> {events[k] : k \in 1..N}]
    BY <2>2
  <2>4. Len(events) = N
    BY <2>1, <2>3, IsASeq
  <2> QED
    BY <2>1, <2>3, <2>4
<1>5. N = Cardinality(A) + Cardinality(C)
  <2>1. IsFiniteSet(A) /\ IsFiniteSet(C)
    BY <1>1, HitsFinite DEF BoardTables, A, C
  <2> QED
    BY <2>1, TaggedCount DEF AllHits, A, C, N
<1>6. HitRows(board, board.single) = A /\ HitRows(board, board.batch) = C
  BY <1>1, HitsAre DEF BoardTables, A, C
<1>7. over.total = N /\ result.nodes.total = N
  BY <1>2, <1>4 DEF Overview, Distribution
<1>8. Total(over.protocols) = N
  <2> DEFINE values == [k \in DOMAIN events |-> events[k].protocol]
  <2>1. DOMAIN values = 1..N
    BY <1>4
  <2>2. over.protocols = Tally(values)
    BY <1>2 DEF Overview
  <2> HIDE DEF values
  <2> QED
    BY <1>4, <2>1, <2>2, TallyAdds
<1>9. Total(over.severities) = N
  <2> DEFINE values == [k \in DOMAIN events |-> events[k].severity]
  <2>1. DOMAIN values = 1..N
    BY <1>4
  <2>2. over.severities = Tally(values)
    BY <1>2 DEF Overview
  <2> HIDE DEF values
  <2> QED
    BY <1>4, <2>1, <2>2, TallyAdds
<1>10. over.stream = FirstOf(events, StreamLimit) /\ StreamLimit \in Nat
  BY <1>2, LimitsAssumption DEF Overview
<1>11. M \in Nat /\ M =< N
  BY <1>4, <1>10
<1>12. /\ DOMAIN over.stream = 1..M /\ Len(over.stream) = M
       /\ \A k \in 1..M : over.stream[k] = events[k]
  <2> DEFINE T == {events[k] : k \in 1..N}
  <2>1. \A R : \A t \in [1..N -> R] : \A limit \in Nat :
            FirstOf(t, limit) \in [1..(IF limit < N THEN limit ELSE N) -> R]
    BY <1>4, FirstOfSeq
  <2>2. \A R : \A t \in [1..N -> R] : \A limit \in Nat :
            \A i \in 1..(IF limit < N THEN limit ELSE N) : FirstOf(t, limit)[i] = t[i]
    BY <1>4, FirstOfEntries
  <2>3. events \in [1..N -> T]
    BY <1>4
  <2> HIDE DEF T
  <2>4. FirstOf(events, StreamLimit) \in [1..M -> T]
    BY <1>10, <2>1, <2>3
  <2>5. \A i \in 1..M : FirstOf(events, StreamLimit)[i] = events[i]
    BY <1>10, <2>2, <2>3
  <2> HIDE DEF M, over
  <2>6. over.stream \in [1..M -> T]
    BY <1>10, <2>4
  <2>7. Len(over.stream) = M
    BY <1>11, <2>6, IsASeq
  <2> QED
    BY <1>10, <2>5, <2>6, <2>7
<1>13. \A k \in 1..M :
          Cardinality({i \in A : board.single[i].time > over.stream[k].time})
            + Cardinality({i \in C : board.batch[i].time > over.stream[k].time}) < k
  <2> SUFFICES ASSUME NEW k \in 1..M
               PROVE  Cardinality({i \in A : board.single[i].time > over.stream[k].time})
                        + Cardinality({i \in C : board.batch[i].time > over.stream[k].time}) < k
    OBVIOUS
  <2>1. k \in 1..N /\ over.stream[k] = events[k]
    BY <1>4, <1>11, <1>12
  <2>2. Cardinality(LaterHits(board, board.single, events[k].time))
          + Cardinality(LaterHits(board, board.batch, events[k].time)) < k
    <3>1. k \in 1..Cardinality(AllHits(board))
      BY <2>1 DEF N
    <3> QED
      BY <1>1, <1>3, <3>1, AboveIs
  <2> QED
    BY <2>1, <2>2 DEF LaterHits, A, C
<1> HIDE DEF M, over
<1>14. \A k \in DOMAIN over.stream :
          LET times == [i \in A |-> board.single[i].time]
              batchTimes == [i \in C |-> board.batch[i].time]
          IN Cardinality({i \in A : times[i] > over.stream[k].time})
               + Cardinality({i \in C : batchTimes[i] > over.stream[k].time}) < k
  <2> SUFFICES ASSUME NEW k \in 1..M
               PROVE  LET times == [i \in A |-> board.single[i].time]
                          batchTimes == [i \in C |-> board.batch[i].time]
                      IN Cardinality({i \in A : times[i] > over.stream[k].time})
                           + Cardinality({i \in C : batchTimes[i] > over.stream[k].time}) < k
    BY <1>12
  <2> DEFINE times == [i \in A |-> board.single[i].time]
             batchTimes == [i \in C |-> board.batch[i].time]
             t == over.stream[k].time
  <2>1. /\ {i \in A : times[i] > t} = {i \in A : board.single[i].time > t}
        /\ {i \in C : batchTimes[i] > t} = {i \in C : board.batch[i].time > t}
    OBVIOUS
  <2> QED
    BY <1>13, <2>1
<1>15. Len(over.stream) = IF StreamLimit < over.total THEN StreamLimit ELSE over.total
  BY <1>7, <1>12 DEF over, M
<1> DEFINE Right(X, Y) ==
        /\ over.total = Cardinality(X) + Cardinality(Y)
        /\ over.total = result.nodes.total
        /\ Total(over.protocols) = over.total
        /\ Total(over.severities) = over.total
        /\ Len(over.stream) = IF StreamLimit < over.total THEN StreamLimit ELSE over.total
        /\ \A k \in DOMAIN over.stream :
              LET times == [i \in X |-> board.single[i].time]
                  batchTimes == [i \in Y |-> board.batch[i].time]
              IN Cardinality({i \in X : times[i] > over.stream[k].time})
                   + Cardinality({i \in Y : batchTimes[i] > over.stream[k].time}) < k
<1>16. Right(A, C)
  <2>1. over.total = N /\ result.nodes.total = N
    BY <1>7 DEF over
  <2>2. Total(over.protocols) = N /\ Total(over.severities) = N
    BY <1>8, <1>9 DEF over
  <2> QED
    BY <1>5, <1>14, <1>15, <2>1, <2>2
<1> HIDE DEF Right
<1>17. Right(HitRows(board, board.single), HitRows(board, board.batch))
  BY <1>6, <1>16
<1> QED
  BY <1>17 DEF BoardAccounts, Right, HitRows, NewerRows, ShownRow, over, board

\* Where an event is put: a region that is active, or the one that stands in.
Homeless(regions) == \A r \in regions : r.active => r.code # GlobalCode

PlacedIn(regions, source) ==
    \/ \E r \in regions : r.active /\ source = [code |-> r.code, name |-> r.name]
    \/ Homeless(regions) /\ source = [code |-> GlobalCode, name |-> GlobalName]

LEMMA SourceIs ==
    ASSUME NEW regions, \A r, s \in regions : r.code = s.code => r = s, NEW code
    PROVE  PlacedIn(regions, buildSource(regions, code))
<1> DEFINE active == {r \in regions : r.active}
           at(c) == CHOOSE r \in active : r.code = c
<1>1. ASSUME NEW c, \E r \in active : r.code = c
      PROVE  \E r \in regions : r.active /\ [code |-> c, name |-> at(c).name] = [code |-> r.code, name |-> r.name]
  <2>1. at(c) \in active /\ at(c).code = c
    BY <1>1
  <2> HIDE DEF at
  <2>2. at(c) \in regions /\ at(c).active
    BY <2>1
  <2> QED
    BY <2>1, <2>2
<1>2. CASE \E r \in active : r.code = code
  <2>1. buildSource(regions, code) = [code |-> code, name |-> at(code).name]
    BY <1>2 DEF buildSource
  <2> QED
    BY <1>1, <1>2, <2>1 DEF PlacedIn
<1>3. CASE (\A r \in active : r.code # code) /\ (\E r \in active : r.code = GlobalCode)
  <2>1. buildSource(regions, code) = [code |-> GlobalCode, name |-> at(GlobalCode).name]
    BY <1>3 DEF buildSource
  <2> QED
    BY <1>1, <1>3, <2>1 DEF PlacedIn
<1>4. CASE (\A r \in active : r.code # code) /\ (\A r \in active : r.code # GlobalCode)
  <2>1. buildSource(regions, code) = [code |-> GlobalCode, name |-> GlobalName]
    BY <1>4 DEF buildSource
  <2>2. Homeless(regions)
    BY <1>4 DEF Homeless
  <2> QED
    BY <2>1, <2>2 DEF PlacedIn
<1> QED
  BY <1>2, <1>3, <1>4

LEMMA NamesTell ==
    ASSUME NEW S, IsFiniteSet(S), Cardinality({r.name : r \in S}) = Cardinality(S)
    PROVE  \A r, s \in S : r.name = s.name => r = s
<1> DEFINE T == {r.name : r \in S}
           f == [r \in S |-> r.name]
<1>1. f \in Surjection(S, T)
  BY DEF Surjection
<1>2. Cardinality(T) = Cardinality(S)
  OBVIOUS
<1> HIDE DEF T, f
<1>3. f \in Injection(S, T)
  BY <1>1, <1>2, FS_Surjection
<1>4. \A r, s \in S : f[r] = f[s] => r = s
  BY <1>3 DEF Injection, IsInjective
<1> QED
  BY <1>4 DEF f

\* What the events of a board have as sources.
FromRegions(board, events, N) ==
    /\ N \in Nat /\ DOMAIN events = 1..N /\ Len(events) = N
    /\ \A k \in 1..N : PlacedIn(board.regions, events[k].source)

LEMMA TheyAreFromRegions ==
    ASSUME NEW board, BoardTables(board)
    PROVE  \E N : FromRegions(board, buildRiskEvents(board), N)
<1> DEFINE events == buildRiskEvents(board)
           N == Cardinality(AllHits(board))
<1>1. PICK at : Told(board, events, at)
  BY BoardTold
<1> HIDE DEF events
<1>2. N \in Nat /\ events = [k \in 1..N |-> EventOf(RowAt(board, at[k]), board.regions)]
  BY <1>1 DEF Told, ListsOnce
<1> HIDE DEF N
<1>3. DOMAIN events = 1..N /\ Len(events) = N
  <2> DEFINE T == {events[k] : k \in 1..N}
  <2>1. events \in [1..N -> T]
    BY <1>2
  <2> HIDE DEF T
  <2> QED
    BY <1>2, <2>1, IsASeq
<1>4. \A k \in 1..N : events[k].source = buildSource(board.regions, RowAt(board, at[k]).region)
  BY <1>2 DEF EventOf
<1>5. \A r, s \in board.regions : r.code = s.code => r = s
  BY DEF BoardTables
<1>6. FromRegions(board, events, N)
  BY <1>2, <1>3, <1>4, <1>5, SourceIs DEF FromRegions
<1> QED
  BY <1>6 DEF events

LEMMA PagesAgree ==
    ASSUME NEW board, BoardTables(board), NEW events, NEW N, FromRegions(board, events, N),
           NEW active, active = {r \in board.regions : r.active},
           Cardinality({r.name : r \in active}) = Cardinality(active),
           Homeless(board.regions) => GlobalName \notin {r.name : r \in active}
    PROVE  LET over == Overview(board, events)
               dist == Distribution(board, events)
           IN /\ over.points = dist.regions
              /\ over.impacted = dist.impacted
                    + boolToInt(Homeless(board.regions) /\ Total(dist.regions) < over.total)
<1> DEFINE over == Overview(board, events)
           dist == Distribution(board, events)
           homeless == Homeless(board.regions)
           away(k) == /\ homeless
                      /\ events[k].source.code = GlobalCode /\ events[k].source.name = GlobalName
           isAt(k, r) == events[k].source.code = r.code /\ events[k].source.name = r.name
           share == [r \in active |-> {k \in 1..N : events[k].source.code = r.code}]
           counts == [r \in active |-> Cardinality(share[r])]
           hit == {r \in active : counts[r] > 0}
           codes == {events[k].source.code : k \in 1..N}
           hitCodes == {r.code : r \in hit}
           home == AllOf(active, share)
<1>1. /\ N \in Nat /\ DOMAIN events = 1..N /\ Len(events) = N
      /\ \A k \in 1..N : away(k) \/ \E r \in active : isAt(k, r)
  <2>1. N \in Nat /\ DOMAIN events = 1..N /\ Len(events) = N
    BY DEF FromRegions
  <2>2. ASSUME NEW k \in 1..N
        PROVE  away(k) \/ \E r \in active : isAt(k, r)
    <3>1. CASE \E r \in board.regions : r.active /\ events[k].source = [code |-> r.code, name |-> r.name]
      <4>1. PICK r \in board.regions : r.active /\ events[k].source = [code |-> r.code, name |-> r.name]
        BY <3>1
      <4>2. r \in active /\ isAt(k, r)
        BY <4>1
      <4> QED
        BY <4>2
    <3>2. CASE homeless /\ events[k].source = [code |-> GlobalCode, name |-> GlobalName]
      BY <3>2
    <3> QED
      BY <3>1, <3>2 DEF FromRegions, PlacedIn
  <2> QED
    BY <2>1, <2>2
<1>2. \A r, s \in active : r.code = s.code => r = s
  BY DEF BoardTables
<1>3. \A r, s \in active : r.name = s.name => r = s
  <2>1. IsFiniteSet(active)
    <3>1. IsFiniteSet(board.regions) /\ active \in SUBSET board.regions
      BY DEF BoardTables
    <3> QED
      BY <3>1, FS_Subset
  <2> QED
    BY <2>1, NamesTell
<1>4. homeless => \A r \in active : r.code # GlobalCode /\ r.name # GlobalName
  BY DEF Homeless
<1>5. over.points = counts /\ dist.regions = counts
  <2>1. \A r \in active : {k \in 1..N : events[k].source.name = r.name} = share[r]
    <3> SUFFICES ASSUME NEW r \in active, NEW k \in 1..N
                 PROVE  events[k].source.name = r.name <=> events[k].source.code = r.code
      OBVIOUS
    <3>1. CASE away(k)
      BY <1>4, <3>1
    <3>2. CASE \E s \in active : isAt(k, s)
      BY <1>2, <1>3, <3>2
    <3> QED
      BY <1>1, <3>1, <3>2
  <2>2. over.points = [r \in active |-> Cardinality({k \in 1..N : events[k].source.name = r.name})]
    BY <1>1 DEF Overview
  <2>3. dist.regions = [r \in active |-> Cardinality({k \in 1..N : events[k].source.code = r.code})]
    BY <1>1 DEF Distribution
  <2>4. over.points = counts
    <3> HIDE DEF over
    <3> QED
      BY <2>1, <2>2
  <2>5. dist.regions = counts
    <3> HIDE DEF dist
    <3> QED
      BY <2>3
  <2> QED
    BY <2>4, <2>5
<1>6. over.total = N /\ over.impacted = Cardinality(codes)
  BY <1>1 DEF Overview
<1>7. dist.impacted = Cardinality(hit)
  <2>1. dist.regions = counts
    BY <1>5
  <2>2. dist.impacted = Cardinality({r \in DOMAIN dist.regions : dist.regions[r] > 0})
    BY DEF Distribution
  <2> HIDE DEF dist
  <2>3. {r \in DOMAIN dist.regions : dist.regions[r] > 0} = hit
    BY <2>1
  <2> QED
    BY <2>2, <2>3
<1> HIDE DEF over, dist, homeless
<1>8. \A r \in active : r \in hit <=> share[r] # {}
  <2> SUFFICES ASSUME NEW r \in active
               PROVE  Cardinality(share[r]) > 0 <=> share[r] # {}
    OBVIOUS
  <2> DEFINE s == share[r]
  <2>1. IsFiniteSet(1..N) /\ s \in SUBSET (1..N)
    BY <1>1, UpTo
  <2> HIDE DEF s
  <2>2. IsFiniteSet(s)
    BY <2>1, FS_Subset
  <2>3. Cardinality(s) \in Nat /\ (Cardinality(s) = 0 <=> s = {})
    BY <2>2, FS_CardinalityType, FS_EmptySet
  <2>4. Cardinality(s) > 0 <=> s # {}
    BY <2>3
  <2> QED
    BY <2>4 DEF s
<1> HIDE DEF hit
<1>9. IsFiniteSet(home) /\ Total(counts) = Cardinality(home) /\ home \subseteq 1..N
  <2>1. \A r \in active : share[r] \subseteq 1..N
    OBVIOUS
  <2>2. \A r, s \in active : \A k \in share[r] : k \in share[s] => r = s
    BY <1>2
  <2>3. counts = [r \in active |-> Cardinality(share[r])]
    OBVIOUS
  <2> HIDE DEF share, counts
  <2>4. IsFiniteSet(home) /\ Total(counts) = Cardinality(home)
    BY <1>1, <2>1, <2>2, <2>3, SharesAdd
  <2> QED
    BY <2>1, <2>4 DEF AllOf
<1> HIDE DEF counts
<1>10. \A k \in 1..N : k \in home <=> \E r \in active : events[k].source.code = r.code
  <2>1. \A r \in active : \A k \in 1..N : k \in share[r] <=> events[k].source.code = r.code
    OBVIOUS
  <2> HIDE DEF share
  <2> QED
    BY <2>1 DEF AllOf
<1>11. \A k \in 1..N : k \in home <=> ~ away(k)
  <2> SUFFICES ASSUME NEW k \in 1..N
               PROVE  k \in home <=> ~ away(k)
    OBVIOUS
  <2> HIDE DEF home
  <2>1. CASE away(k)
    BY <1>4, <1>10, <2>1
  <2>2. CASE ~ away(k)
    <3>1. PICK r \in active : isAt(k, r)
      BY <1>1, <2>2
    <3> QED
      BY <1>10, <2>2, <3>1
  <2> QED
    BY <2>1, <2>2
<1>12. hit \subseteq active /\ \A r \in active : r \in hit <=> \E k \in 1..N : events[k].source.code = r.code
  <2>1. hit \subseteq active
    BY DEF hit
  <2> QED
    BY <1>8, <2>1
<1> HIDE DEF home, share
<1>13. IsFiniteSet(1..N) /\ Cardinality(1..N) = N
  BY <1>1, UpTo
<1>14. IsFiniteSet(hit) /\ IsFiniteSet(hitCodes) /\ Cardinality(hitCodes) = Cardinality(hit)
  <2>1. IsFiniteSet(hit)
    <3>1. IsFiniteSet(board.regions) /\ hit \in SUBSET board.regions
      BY <1>12 DEF BoardTables
    <3> QED
      BY <3>1, FS_Subset
  <2> DEFINE f == [r \in hit |-> r.code]
  <2>2. /\ \A r \in hit : f[r] \in hitCodes
        /\ \A c \in hitCodes : \E r \in hit : f[r] = c
        /\ \A r, s \in hit : f[r] = f[s] => r = s
    BY <1>2, <1>12
  <2> HIDE DEF f, hitCodes
  <2>3. IsFiniteSet(hitCodes) /\ Cardinality(hitCodes) = Cardinality(hit)
    BY <2>1, <2>2, CountsAgree
  <2> QED
    BY <2>1, <2>3
<1>15. \A c \in hitCodes : c \in codes
  BY <1>12
<1>16. \A k \in 1..N : ~ away(k) => events[k].source.code \in hitCodes
  <2> SUFFICES ASSUME NEW k \in 1..N, ~ away(k)
               PROVE  events[k].source.code \in hitCodes
    OBVIOUS
  <2>1. PICK r \in active : isAt(k, r)
    BY <1>1
  <2>2. r \in hit
    BY <1>12, <2>1
  <2> QED
    BY <2>1, <2>2
<1>17. Cardinality(home) \in Nat /\ Cardinality(home) =< N
       /\ (Cardinality(home) = N => home = 1..N)
  <2> DEFINE U == 1..N
  <2>1. IsFiniteSet(U) /\ home \in SUBSET U /\ Cardinality(U) = N
    BY <1>9, <1>13
  <2> HIDE DEF U
  <2>2. /\ Cardinality(home) =< Cardinality(U)
        /\ Cardinality(home) = Cardinality(U) => home = U
    BY <2>1, FS_Subset
  <2>3. Cardinality(home) \in Nat
    BY <1>9, FS_CardinalityType
  <2> QED
    BY <2>1, <2>2, <2>3 DEF U
<1>18. Total(dist.regions) < over.total <=> \E k \in 1..N : away(k)
  <2>1. Total(dist.regions) = Cardinality(home) /\ over.total = N
    BY <1>5, <1>6, <1>9
  <2>2. CASE \E k \in 1..N : away(k)
    <3>1. home # 1..N
      BY <1>11, <2>2
    <3> HIDE DEF away
    <3> QED
      BY <1>1, <1>17, <2>1, <2>2, <3>1
  <2>3. CASE ~ \E k \in 1..N : away(k)
    <3>1. home = 1..N
      BY <1>9, <1>11, <2>3
    <3>2. Cardinality(home) = N
      BY <1>13, <3>1
    <3> HIDE DEF away
    <3> QED
      BY <1>1, <2>1, <2>3, <3>2
  <2> QED
    BY <2>2, <2>3
<1>19. Cardinality(codes) = Cardinality(hit)
         + boolToInt(homeless /\ Total(dist.regions) < over.total)
  <2>1. Cardinality(hit) \in Nat
    BY <1>14, FS_CardinalityType
  <2>2. CASE \E k \in 1..N : away(k)
    <3>1. codes = hitCodes \cup {GlobalCode}
      <4>1. \A k \in 1..N : events[k].source.code \in hitCodes \cup {GlobalCode}
        BY <1>16
      <4>2. GlobalCode \in codes
        BY <2>2
      <4> QED
        BY <1>15, <4>1, <4>2
    <3>2. GlobalCode \notin hitCodes
      BY <1>4, <1>12, <2>2
    <3>3. Cardinality(hitCodes \cup {GlobalCode}) = Cardinality(hitCodes) + 1
      <4> HIDE DEF hitCodes
      <4> QED
        BY <1>14, <3>2, FS_AddElement
    <3>4. homeless /\ Total(dist.regions) < over.total
      BY <1>18, <2>2
    <3> HIDE DEF codes, hitCodes
    <3> QED
      BY <1>14, <2>1, <3>1, <3>3, <3>4 DEF boolToInt
  <2>3. CASE ~ \E k \in 1..N : away(k)
    <3>1. codes = hitCodes
      BY <1>15, <1>16, <2>3
    <3>2. ~ (homeless /\ Total(dist.regions) < over.total)
      BY <1>18, <2>3
    <3> HIDE DEF codes, hitCodes
    <3> QED
      BY <1>14, <2>1, <3>1, <3>2 DEF boolToInt
  <2> QED
    BY <2>2, <2>3
<1>20. over.points = dist.regions
  BY <1>5
<1>21. over.impacted = dist.impacted + boolToInt(homeless /\ Total(dist.regions) < over.total)
  BY <1>6, <1>7, <1>19
<1> QED
  BY <1>20, <1>21 DEF over, dist, homeless

LEMMA BoardsDoAgree == IInv => BoardsAgree
<1> DEFINE board == given.board
           events == buildRiskEvents(board)
           active == {r \in board.regions : r.active}
           over == result.overview
           dist == result.nodes
           homeless == Homeless(board.regions)
<1> SUFFICES ASSUME IInv, Is("board"),
                    Cardinality({r.name : r \in active}) = Cardinality(active),
                    homeless => GlobalName \notin {r.name : r \in active}
             PROVE  /\ over.points = dist.regions
                    /\ over.impacted = dist.impacted
                        + boolToInt(homeless /\ Total(dist.regions) < over.total)
  <2>1. homeless <=> \A r \in active : r.code # GlobalCode
    BY DEF Homeless
  <2> HIDE DEF homeless
  <2> QED
    BY <2>1 DEF BoardsAgree
<1>1. BoardTables(board)
  BY RulesAssumption DEF IInv, Is
<1>2. over = Overview(board, events) /\ dist = Distribution(board, events)
  BY DEF IInv, Is, Boards, BuildRiskBoardOverview, BuildNodeDistribution
<1> HIDE DEF board, events, over, dist
<1>3. PICK N : FromRegions(board, events, N)
  BY <1>1, TheyAreFromRegions DEF events
<1>4. active = {r \in board.regions : r.active}
  OBVIOUS
<1> HIDE DEF active
<1>5. LET o == Overview(board, events)
          d == Distribution(board, events)
      IN /\ o.points = d.regions
         /\ o.impacted = d.impacted
               + boolToInt(Homeless(board.regions) /\ Total(d.regions) < o.total)
  BY <1>1, <1>3, <1>4, PagesAgree
<1> QED
  BY <1>2, <1>5

\* A probe is shown as its command saw it, and the two pages of the board count
\* every anomaly among the newest rows once, show the newest of them and agree on
\* each region: for all rows, regions, limits and sizes.
THEOREM BoardIsAlwaysTrue == Spec => []BoardIsTrue
<1>1. IInv => BoardIsTrue
  BY ReportsAreTrue, BoardsAccount, BoardsDoAgree DEF BoardIsTrue
<1> QED
  BY <1>1, Computed, PTL
=============================================================================
