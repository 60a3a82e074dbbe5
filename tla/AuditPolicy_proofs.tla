-------------------------- MODULE AuditPolicy_proofs --------------------------
(***************************************************************************)
(* Proofs that the answers of the permission graph agree with one another  *)
(* and with those of SQL, and that joins keep the audit policy and         *)
(* promotions restore it.  What is reached in the graph is computed level  *)
(* by level: the lemmas on iteration and on Spread say what that computes. *)
(***************************************************************************)
EXTENDS AuditPolicy, FiniteSetTheorems, WellFoundedInduction, TLAPS

-----------------------------------------------------------------------------
(* Iteration.                                                              *)

\* Induction: a set of numbers with 0 that has the successor of each is Nat.
LEMMA Counting ==
    ASSUME NEW S \in SUBSET Nat, 0 \in S, \A n \in S : n + 1 \in S
    PROVE  S = Nat
<1>1. SUFFICES ASSUME Nat \ S # {}
      PROVE FALSE
  OBVIOUS
<1> DEFINE lt == OpToRel(<, Nat)
<1>2. IsWellFoundedOn(lt, Nat)
  BY NatLessThanWellFounded
<1>3. \E x \in Nat \ S : \A y \in Nat \ S : <<y, x>> \notin lt
  <2>1. Nat \ S \subseteq Nat
    OBVIOUS
  <2> HIDE DEF lt
  <2> QED BY <1>1, <1>2, <2>1, WFMin
<1>4. PICK x \in Nat \ S : \A y \in Nat \ S : ~(y < x)
  BY <1>3 DEF OpToRel
<1>5. x # 0 /\ x - 1 \in Nat /\ x - 1 < x
  BY <1>4
<1> QED
  BY <1>4, <1>5

\* f holds the first n iterates of F from x.
Iteration(F, x, f, n) == f[0] = x /\ \A k \in 1..n : f[k] = F[f[k - 1]]

\* Two such functions have the same values.
LEMMA IterationsAgree ==
    ASSUME NEW F, NEW x, NEW f, NEW g, NEW m \in Nat, NEW n \in Nat, m <= n,
           Iteration(F, x, f, m), Iteration(F, x, g, n)
    PROVE  f[m] = g[m]
<1> DEFINE S == {k \in Nat : k <= m => f[k] = g[k]}
<1>1. 0 \in S
  BY DEF Iteration
<1>2. ASSUME NEW k \in S
      PROVE  k + 1 \in S
  <2>1. CASE k + 1 <= m
    <3>1. f[k] = g[k] /\ k + 1 \in 1..m /\ k + 1 \in 1..n /\ k + 1 - 1 = k
      BY <1>2, <2>1
    <3> QED
      BY <3>1 DEF Iteration
  <2>2. CASE ~(k + 1 <= m)
    BY <2>2
  <2> QED
    BY <2>1, <2>2
<1>3. S = Nat
  <2>1. S \in SUBSET Nat
    OBVIOUS
  <2> HIDE DEF S
  <2> QED
    BY <1>1, <1>2, <2>1, Counting
<1> QED
  BY <1>3

\* There is one for every n.
LEMMA IterationExists ==
    ASSUME NEW F, NEW x
    PROVE  \A n \in Nat : \E f : Iteration(F, x, f, n)
<1> DEFINE S == {n \in Nat : \E f : Iteration(F, x, f, n)}
<1>1. 0 \in S
  <2>1. Iteration(F, x, [k \in {0} |-> x], 0)
    BY DEF Iteration
  <2> QED
    BY <2>1
<1>2. ASSUME NEW n \in S
      PROVE  n + 1 \in S
  <2>1. PICK f : Iteration(F, x, f, n)
    OBVIOUS
  <2> DEFINE g == [k \in 0..(n + 1) |-> IF k = n + 1 THEN F[f[n]] ELSE f[k]]
  <2>2. \A k \in 1..(n + 1) : g[k] = F[g[k - 1]]
    <3> TAKE k \in 1..(n + 1)
    <3>1. CASE k = n + 1
      <4>1. g[k] = F[f[n]] /\ g[k - 1] = f[n]
        BY <3>1
      <4> QED
        BY <4>1
    <3>2. CASE k # n + 1
      <4>1. k \in 1..n /\ g[k] = f[k] /\ g[k - 1] = f[k - 1]
        BY <3>2
      <4> QED
        BY <2>1, <4>1 DEF Iteration
    <3> QED
      BY <3>1, <3>2
  <2>3. g[0] = x
    BY <2>1 DEF Iteration
  <2> HIDE DEF g
  <2>4. Iteration(F, x, g, n + 1)
    BY <2>2, <2>3 DEF Iteration
  <2> QED
    BY <2>4
<1>3. S = Nat
  <2>1. S \in SUBSET Nat
    OBVIOUS
  <2> HIDE DEF S
  <2> QED
    BY <1>1, <1>2, <2>1, Counting
<1> QED
  BY <1>3

\* The recursive function of Iterated satisfies its definition.
LEMMA Iterates ==
    ASSUME NEW F, NEW x
    PROVE  /\ Iterated(F, x, 0) = x
           /\ \A n \in Nat : Iterated(F, x, n + 1) = F[Iterated(F, x, n)]
<1> DEFINE Def(f) == f = [k \in Nat |-> IF k = 0 THEN x ELSE F[f[k - 1]]]
           it == CHOOSE f : Def(f)
<1>1. \E f : Def(f)
  <2> DEFINE upTo(n) == CHOOSE f : Iteration(F, x, f, n)
             f == [n \in Nat |-> upTo(n)[n]]
  <2>1. \A n \in Nat : Iteration(F, x, upTo(n), n)
    BY IterationExists
  <2> HIDE DEF upTo
  <2>2. ASSUME NEW n \in Nat
        PROVE  f[n] = IF n = 0 THEN x ELSE F[f[n - 1]]
    <3>1. CASE n = 0
      BY <2>1, <3>1 DEF Iteration
    <3>2. CASE n # 0
      <4>1. n - 1 \in Nat /\ n - 1 <= n /\ n \in 1..n
        BY <3>2
      <4>2. upTo(n)[n] = F[upTo(n)[n - 1]]
        BY <2>1, <4>1 DEF Iteration
      <4>3. Iteration(F, x, upTo(n - 1), n - 1) /\ Iteration(F, x, upTo(n), n)
        BY <2>1, <4>1
      <4>4. upTo(n - 1)[n - 1] = upTo(n)[n - 1]
        BY <4>1, <4>3, IterationsAgree
      <4> QED
        BY <3>2, <4>1, <4>2, <4>4
    <3> QED
      BY <3>1, <3>2
  <2>3. f = [k \in Nat |-> IF k = 0 THEN x ELSE F[f[k - 1]]]
    <3> HIDE DEF f
    <3>1. f = [k \in Nat |-> f[k]]
      BY DEF f
    <3> QED
      BY <2>2, <3>1
  <2> QED
    BY <2>3
<1>2. Def(it)
  BY <1>1, Zenon
<1>3. \A n : Iterated(F, x, n) = it[n]
  BY DEF Iterated
<1> HIDE DEF it
<1>4. \A n \in Nat : it[n] = IF n = 0 THEN x ELSE F[it[n - 1]]
  BY <1>2
<1> QED
  BY <1>3, <1>4
-----------------------------------------------------------------------------
(* What is reached along arcs.                                             *)

Closed(S, arcs) == \A x \in S, m \in Members : <<x, m>> \in arcs => m \in S

Level(S, arcs) == S \union {m \in Members \ S : \E x \in S : <<x, m>> \in arcs}

Levels(L, start, arcs) ==
    /\ L \in [Nat -> SUBSET Members]
    /\ L[0] = start
    /\ \A n \in Nat : L[n + 1] = Level(L[n], arcs)
    /\ Spread(start, arcs) = L[Cardinality(Members)]

\* The levels that Spread goes through.
LEMMA SpreadLevels ==
    ASSUME NEW start \in SUBSET Members, NEW arcs
    PROVE  \E L : Levels(L, start, arcs)
<1> DEFINE level == [S \in SUBSET Members |->
                       S \union {m \in Members \ S : \E x \in S : <<x, m>> \in arcs}]
           N == {n \in Nat : Iterated(level, start, n) \in SUBSET Members}
           L == [n \in Nat |-> Iterated(level, start, n)]
<1>1. Spread(start, arcs) = Iterated(level, start, Cardinality(Members))
  BY DEF Spread
<1>2. \A S \in SUBSET Members : level[S] = Level(S, arcs) /\ level[S] \in SUBSET Members
  BY DEF Level
<1> HIDE DEF level
<1>3. /\ Iterated(level, start, 0) = start
      /\ \A n \in Nat : Iterated(level, start, n + 1) = level[Iterated(level, start, n)]
  BY Iterates
<1>4. N = Nat
  <2>1. 0 \in N /\ N \in SUBSET Nat /\ \A n \in N : n + 1 \in N
    BY <1>2, <1>3
  <2> HIDE DEF N
  <2> QED
    BY <2>1, Counting
<1>5. \A n \in Nat : Iterated(level, start, n) \in SUBSET Members
  BY <1>4
<1>6. Cardinality(Members) \in Nat
  BY GraphAssumption, FS_CardinalityType DEF Members
<1>7. L \in [Nat -> SUBSET Members] /\ L[Cardinality(Members)] = Spread(start, arcs)
  BY <1>1, <1>5, <1>6
<1>8. L[0] = start /\ \A n \in Nat : L[n + 1] = Level(L[n], arcs)
  BY <1>2, <1>3, <1>5
<1> HIDE DEF L
<1> QED
  BY <1>7, <1>8 DEF Levels

\* One element more.
LEMMA OneMore ==
    ASSUME NEW S, NEW x, IsFiniteSet(S), x \notin S
    PROVE  Cardinality(S \union {x}) = Cardinality(S) + 1
BY FS_AddElement

\* All the nodes that are reached lie in every closed set around the start.
LEMMA SpreadIsLeast ==
    ASSUME NEW start \in SUBSET Members, NEW arcs, NEW S, start \subseteq S, Closed(S, arcs)
    PROVE  Spread(start, arcs) \subseteq S
<1>0. PICK L : Levels(L, start, arcs)
  BY SpreadLevels
<1>1. /\ L \in [Nat -> SUBSET Members] /\ L[0] = start
      /\ \A n \in Nat : L[n + 1] = Level(L[n], arcs)
      /\ Spread(start, arcs) = L[Cardinality(Members)]
  BY <1>0 DEF Levels
<1> DEFINE N == {n \in Nat : L[n] \subseteq S}
<1>2. 0 \in N /\ N \in SUBSET Nat
  BY <1>1
<1>3. ASSUME NEW n \in N
      PROVE  n + 1 \in N
  <2>1. L[n] \subseteq S /\ L[n + 1] = Level(L[n], arcs)
    BY <1>1
  <2>2. Level(L[n], arcs) \subseteq S
    BY <2>1 DEF Level, Closed
  <2> QED
    BY <2>1, <2>2
<1>4. N = Nat
  <2> HIDE DEF N
  <2> QED
    BY <1>2, <1>3, Counting
<1>5. Cardinality(Members) \in Nat
  BY GraphAssumption, FS_CardinalityType DEF Members
<1> QED
  BY <1>1, <1>4, <1>5

\* Spread is closed itself: each level that is not has more nodes than the one
\* before, and there are no more than Members.
LEMMA SpreadCloses ==
    ASSUME NEW start \in SUBSET Members, NEW arcs
    PROVE  /\ start \subseteq Spread(start, arcs)
           /\ Spread(start, arcs) \subseteq Members
           /\ Closed(Spread(start, arcs), arcs)
<1>0. PICK L : Levels(L, start, arcs)
  BY SpreadLevels
<1>1. /\ L \in [Nat -> SUBSET Members] /\ L[0] = start
      /\ \A n \in Nat : L[n + 1] = Level(L[n], arcs)
      /\ Spread(start, arcs) = L[Cardinality(Members)]
  BY <1>0 DEF Levels
<1>2. Cardinality(Members) \in Nat /\ IsFiniteSet(Members)
  BY GraphAssumption, FS_CardinalityType DEF Members
<1> DEFINE K == {n \in Nat : start \subseteq L[n]}
           N == {n \in Nat : Closed(L[n], arcs) \/ Cardinality(L[n]) >= n}
<1>3. K = Nat
  <2>1. 0 \in K /\ K \in SUBSET Nat
    BY <1>1
  <2>2. ASSUME NEW n \in K
        PROVE  n + 1 \in K
    BY <1>1 DEF Level
  <2> HIDE DEF K
  <2> QED
    BY <2>1, <2>2, Counting
<1>4. \A n \in Nat : IsFiniteSet(L[n]) /\ Cardinality(L[n]) \in Nat
  BY <1>1, <1>2, FS_Subset, FS_CardinalityType
<1>5. ASSUME NEW n \in N
      PROVE  n + 1 \in N
  <2>1. L[n] \in SUBSET Members /\ L[n + 1] = Level(L[n], arcs)
    BY <1>1
  <2>2. CASE Closed(L[n], arcs)
    <3>1. L[n + 1] = L[n]
      BY <2>1, <2>2 DEF Closed, Level
    <3> QED
      BY <2>2, <3>1
  <2>3. CASE ~Closed(L[n], arcs)
    <3>1. PICK x \in L[n], m \in Members : <<x, m>> \in arcs /\ m \notin L[n]
      BY <2>3 DEF Closed
    <3>2. L[n] \union {m} \in SUBSET L[n + 1]
      BY <2>1, <3>1 DEF Level
    <3>3. Cardinality(L[n] \union {m}) = Cardinality(L[n]) + 1
      <4>1. IsFiniteSet(L[n]) /\ m \notin L[n]
        BY <1>4, <3>1
      <4> QED
        BY <4>1, OneMore
    <3>4. n + 1 \in Nat
      OBVIOUS
    <3>5. Cardinality(L[n] \union {m}) <= Cardinality(L[n + 1])
      BY <1>4, <3>2, <3>4, FS_Subset
    <3>6. Cardinality(L[n]) >= n
      BY <2>3
    <3>7. Cardinality(L[n + 1]) >= n + 1
      BY <1>4, <3>3, <3>4, <3>5, <3>6
    <3> QED
      BY <3>4, <3>7
  <2> QED
    BY <2>2, <2>3
<1>6. 0 \in N /\ N \in SUBSET Nat
  BY <1>4
<1>7. N = Nat
  <2> HIDE DEF N
  <2> QED
    BY <1>5, <1>6, Counting
<1>8. Closed(Spread(start, arcs), arcs)
  <2>1. Spread(start, arcs) \in SUBSET Members
    BY <1>1, <1>2
  <2>2. CASE Cardinality(Spread(start, arcs)) >= Cardinality(Members)
    <3>1. Spread(start, arcs) = Members
      <4>1. Cardinality(Spread(start, arcs)) \in Nat
        BY <1>1, <1>2, <1>4
      <4>2. Cardinality(Spread(start, arcs)) <= Cardinality(Members)
        BY <1>2, <2>1, FS_Subset
      <4>3. Cardinality(Members) = Cardinality(Spread(start, arcs))
        BY <1>2, <2>2, <4>1, <4>2
      <4> QED
        BY <1>2, <2>1, <4>3, FS_Subset
    <3> QED
      BY <3>1 DEF Closed
  <2> QED
    BY <1>1, <1>2, <1>7, <2>2
<1> QED
  BY <1>1, <1>2, <1>3, <1>8

\* Found holds its start, is closed and has nodes only.
LEMMA FoundCloses ==
    ASSUME NEW x \in Members, NEW arcs
    PROVE  /\ x \in Found(x, arcs) /\ Found(x, arcs) \subseteq Members
           /\ Closed(Found(x, arcs), arcs)
<1>1. {x} \in SUBSET Members
  OBVIOUS
<1>2. /\ {x} \subseteq Spread({x}, arcs)
      /\ Spread({x}, arcs) \subseteq Members
      /\ Closed(Spread({x}, arcs), arcs)
  BY <1>1, SpreadCloses
<1> QED
  BY <1>2 DEF Found

\* It lies in every closed set that holds its start.
LEMMA FoundIsLeast ==
    ASSUME NEW x \in Members, NEW arcs, NEW S, x \in S, Closed(S, arcs)
    PROVE  Found(x, arcs) \subseteq S
<1>1. {x} \in SUBSET Members /\ {x} \subseteq S
  OBVIOUS
<1> QED
  BY <1>1, SpreadIsLeast DEF Found

\* What is found from what is found is found.
LEMMA FoundTransitive ==
    ASSUME NEW x \in Members, NEW arcs, NEW y \in Found(x, arcs)
    PROVE  Found(y, arcs) \subseteq Found(x, arcs)
<1>1. y \in Members /\ Closed(Found(x, arcs), arcs)
  BY FoundCloses
<1> QED
  BY <1>1, FoundIsLeast

\* The last arc on the way.
LEMMA FoundLast ==
    ASSUME NEW x \in Members, NEW arcs, NEW y \in Found(x, arcs), y # x
    PROVE  \E z \in Found(x, arcs) : <<z, y>> \in arcs
<1> DEFINE S == {m \in Found(x, arcs) :
                    m = x \/ \E z \in Found(x, arcs) : <<z, m>> \in arcs}
<1>1. x \in S /\ Closed(S, arcs)
  BY FoundCloses DEF Closed
<1>2. Found(x, arcs) \subseteq S
  <2> HIDE DEF S
  <2> QED
    BY <1>1, FoundIsLeast
<1> QED
  BY <1>2

\* The first one.
LEMMA FoundFirst ==
    ASSUME NEW x \in Members, NEW arcs, NEW y \in Found(x, arcs), y # x
    PROVE  \E z \in Members : <<x, z>> \in arcs /\ y \in Found(z, arcs)
<1> DEFINE S == {m \in Members :
                    m = x \/ \E z \in Members : <<x, z>> \in arcs /\ m \in Found(z, arcs)}
<1>1. Closed(S, arcs)
  <2>1. ASSUME NEW m \in S, NEW k \in Members, <<m, k>> \in arcs
        PROVE  k \in S
    <3>1. CASE m = x
      <4>1. k \in Found(k, arcs)
        BY FoundCloses
      <4> QED
        BY <2>1, <3>1, <4>1
    <3>2. ASSUME NEW z \in Members, <<x, z>> \in arcs, m \in Found(z, arcs)
          PROVE  k \in S
      <4>1. k \in Found(z, arcs)
        BY <2>1, <3>2, FoundCloses DEF Closed
      <4> QED
        BY <3>2, <4>1
    <3> QED
      BY <3>1, <3>2
  <2> HIDE DEF S
  <2> QED
    BY <2>1 DEF Closed
<1>2. x \in S
  OBVIOUS
<1>3. Found(x, arcs) \subseteq S
  <2> HIDE DEF S
  <2> QED
    BY <1>1, <1>2, FoundIsLeast
<1> QED
  BY <1>3

\* From a set of nodes: what is found from one of them.
LEMMA SpreadIsUnion ==
    ASSUME NEW start \in SUBSET Members, NEW arcs
    PROVE  Spread(start, arcs) = UNION {Found(x, arcs) : x \in start}
<1> DEFINE S == UNION {Found(x, arcs) : x \in start}
<1>1. start \subseteq S /\ Closed(S, arcs)
  BY FoundCloses DEF Closed
<1>2. Spread(start, arcs) \subseteq S
  <2> HIDE DEF S
  <2> QED
    BY <1>1, SpreadIsLeast
<1>3. ASSUME NEW x \in start
      PROVE  Found(x, arcs) \subseteq Spread(start, arcs)
  <2>1. x \in Spread(start, arcs) /\ Closed(Spread(start, arcs), arcs)
    BY SpreadCloses
  <2> QED
    BY <2>1, FoundIsLeast
<1> QED
  BY <1>2, <1>3

\* More arcs find more.
LEMMA FoundMonotone ==
    ASSUME NEW x \in Members, NEW arcs, NEW more,
           \A a, b \in Members : <<a, b>> \in arcs => <<a, b>> \in more
    PROVE  Found(x, arcs) \subseteq Found(x, more)
<1>1. Closed(Found(x, more), arcs) /\ x \in Found(x, more)
  BY FoundCloses DEF Closed
<1> QED
  BY <1>1, FoundIsLeast

\* Walking back.
LEMMA FoundBack ==
    ASSUME NEW arcs, NEW back,
           \A a, b \in Members : <<a, b>> \in arcs => <<b, a>> \in back,
           NEW x \in Members, NEW y \in Found(x, arcs)
    PROVE  x \in Found(y, back)
<1> DEFINE S == {m \in Members : x \in Found(m, back)}
<1>1. x \in S
  BY FoundCloses
<1>2. Closed(S, arcs)
  <2>1. ASSUME NEW m \in S, NEW k \in Members, <<m, k>> \in arcs
        PROVE  k \in S
    <3>1. m \in Found(k, back)
      BY <2>1, FoundCloses DEF Closed
    <3> QED
      BY <3>1, FoundTransitive
  <2> HIDE DEF S
  <2> QED
    BY <2>1 DEF Closed
<1>3. Found(x, arcs) \subseteq S
  <2> HIDE DEF S
  <2> QED
    BY <1>1, <1>2, FoundIsLeast
<1> QED
  BY <1>3

-----------------------------------------------------------------------------
(* The invariant: groups are plain members of groups; so are role users,   *)
(* where no membership of theirs may have another role.                    *)

\* No member in X has a role other than "member"; and none can be given one.
Plain(X) == \A g \in Groups, m \in X : edges[g][m] \in {"none", "member"}

PlainEdges(X) == \A e \in PossibleEdges : e[2] \in X => e[3] = "member"

\* The inductive invariant: group members are "member", so that no np-owner
\* stands in between two groups.
GraphInv == TypeOK /\ Plain(Groups)

LEMMA InitPlain ==
    ASSUME NEW X \in SUBSET Members, PlainEdges(X)
    PROVE  Init => TypeOK /\ Plain(X)
<1> SUFFICES ASSUME Init PROVE TypeOK /\ Plain(X)
  OBVIOUS
<1>1. PICK kept \in SUBSET {e \in PossibleEdges :
              e[2] \in Services \/ (e[2] \in RoleUsers /\ e[3] = "member")} :
          edges = [g \in Groups |-> [m \in Members |->
                IF \E e \in kept : e[1] = g /\ e[2] = m
                THEN (CHOOSE e \in kept : e[1] = g /\ e[2] = m)[3] ELSE "none"]]
  BY DEF Init
<1>2. ASSUME NEW g \in Groups, NEW m \in Members
      PROVE  /\ edges[g][m] \in Roles \union {"none"}
             /\ m \in X => edges[g][m] \in {"none", "member"}
  <2>1. edges[g][m] = IF \E e \in kept : e[1] = g /\ e[2] = m
                      THEN (CHOOSE e \in kept : e[1] = g /\ e[2] = m)[3] ELSE "none"
    BY <1>1
  <2>2. CASE \E e \in kept : e[1] = g /\ e[2] = m
    <3> DEFINE e == CHOOSE e \in kept : e[1] = g /\ e[2] = m
    <3>1. e \in kept /\ e[1] = g /\ e[2] = m
      BY <2>2
    <3>2. edges[g][m] = e[3]
      BY <2>1, <2>2
    <3> HIDE DEF e
    <3>3. e[3] \in Roles /\ (m \in X => e[3] = "member")
      BY <1>1, <3>1, PolicyAssumption DEF PlainEdges
    <3> QED
      BY <3>2, <3>3
  <2> QED
    BY <2>1, <2>2
<1>3. edges = [g \in Groups |-> [m \in Members |-> edges[g][m]]]
  BY <1>1
<1>4. edges \in [Groups -> [Members -> Roles \union {"none"}]]
  BY <1>2, <1>3
<1>5. Plain(X)
  BY <1>2 DEF Plain
<1> QED
  BY <1>4, <1>5 DEF Init, TypeOK

\* One membership changes.
LEMMA MemberChanges ==
    ASSUME NEW X \in SUBSET Members, TypeOK, Plain(X),
           NEW g \in Groups, NEW m \in Members, NEW role \in Roles \union {"none"},
           m \in X => role \in {"none", "member"},
           edges' = [edges EXCEPT ![g][m] = role], UNCHANGED <<enabled, grants, audited>>
    PROVE  (TypeOK /\ Plain(X))'
<1>1. edges \in [Groups -> [Members -> Roles \union {"none"}]]
  BY DEF TypeOK
<1>2. ASSUME NEW h \in Groups, NEW k \in Members
      PROVE  edges'[h][k] = IF h = g /\ k = m THEN role ELSE edges[h][k]
  BY <1>1
<1>3. edges' \in [Groups -> [Members -> Roles \union {"none"}]]
  BY <1>1
<1>4. Plain(X)'
  BY <1>2 DEF Plain
<1> QED
  BY <1>3, <1>4 DEF TypeOK

LEMMA NextPlain ==
    ASSUME NEW X \in SUBSET Members, PlainEdges(X)
    PROVE  TypeOK /\ Plain(X) /\ [Next]_db => (TypeOK /\ Plain(X))'
<1> SUFFICES ASSUME TypeOK, Plain(X), [Next]_db PROVE (TypeOK /\ Plain(X))'
  OBVIOUS
<1>1. ASSUME NEW e \in PossibleEdges,
             Join(e[1], e[2], e[3]) \/ EditMember(e[1], e[2], e[3]) \/ Leave(e[1], e[2])
      PROVE  (TypeOK /\ Plain(X))'
  <2>1. /\ e[1] \in Groups /\ e[2] \in Members /\ e[3] \in Roles
        /\ e[2] \in X => e[3] = "member"
    BY PolicyAssumption DEF PlainEdges
  <2>2. /\ UNCHANGED <<enabled, grants, audited>>
        /\ \/ edges' = [edges EXCEPT ![e[1]][e[2]] = e[3]]
           \/ edges' = [edges EXCEPT ![e[1]][e[2]] = "none"]
    BY <1>1 DEF Join, EditMember, Leave
  <2> QED
    BY <2>1, <2>2, MemberChanges
<1>2. ASSUME NEW u \in Users, DisableUser(u)
      PROVE  (TypeOK /\ Plain(X))'
  BY <1>2 DEF DisableUser, Plain, TypeOK
<1>3. ASSUME NEW u \in Users, NEW preserve \in BOOLEAN, EnableUser(u, preserve)
      PROVE  (TypeOK /\ Plain(X))'
  <2>1. edges \in [Groups -> [Members -> Roles \union {"none"}]]
    BY DEF GraphInv, TypeOK
  <2>2. \A g \in Groups : edges'[g] = IF g \in enabled /\ ~preserve
                                      THEN [edges[g] EXCEPT ![u] = "none"] ELSE edges[g]
    BY <1>3 DEF EnableUser
  <2>3. \A g \in Groups : edges'[g] \in [Members -> Roles \union {"none"}]
    BY <2>1, <2>2
  <2>4. edges' \in [Groups -> [Members -> Roles \union {"none"}]]
    BY <1>3, <2>1, <2>3 DEF EnableUser
  <2>5. Plain(X)'
    <3>1. ASSUME NEW g \in Groups, NEW m \in X
          PROVE  edges'[g][m] \in {"none", "member"}
      <4>1. edges[g] \in [Members -> Roles \union {"none"}] /\ m \in Members
        BY <2>1
      <4>2. edges'[g][m] \in {"none", edges[g][m]}
        BY <2>2, <4>1
      <4> QED
        BY <4>2 DEF Plain
    <3> QED
      BY <3>1 DEF Plain
  <2>6. UNCHANGED <<grants, audited>> /\ enabled' \subseteq Members
    BY <1>3 DEF EnableUser, TypeOK, Members
  <2> QED
    BY <2>4, <2>5, <2>6 DEF TypeOK
<1>4. ASSUME NEW g \in Groups, ToggleGroup(g)
      PROVE  (TypeOK /\ Plain(X))'
  BY <1>4 DEF ToggleGroup, Plain, TypeOK, Members
<1>5. ASSUME NEW x \in PossibleGrants,
             Grant(x[1], x[2]) \/ GrantToService(x[1], x[2]) \/ Revoke(x[1], x[2])
      PROVE  (TypeOK /\ Plain(X))'
  <2>1. <<x[1], x[2]>> \in (Groups \union Services) \X Permissions
    BY PolicyAssumption
  <2>2. grants' \subseteq (Groups \union Services) \X Permissions
    BY <1>5, <2>1 DEF Grant, GrantToService, Revoke, TypeOK
  <2>3. UNCHANGED <<enabled, edges, audited>>
    BY <1>5 DEF Grant, GrantToService, Revoke
  <2> QED
    BY <2>2, <2>3 DEF Plain, TypeOK
<1>6. ASSUME NEW p \in Permissions, ToggleAudited(p)
      PROVE  (TypeOK /\ Plain(X))'
  BY <1>6 DEF ToggleAudited, Plain, TypeOK
<1>7. CASE PromoteNonauditors
  <2>1. edges \in [Groups -> [Members -> Roles \union {"none"}]] /\ AuditorsGroup \in Groups
    BY PolicyAssumption DEF TypeOK
  <2> DEFINE promoted == [m \in Members |-> IF m \in NonauditorApprovers THEN "member"
                                            ELSE edges[AuditorsGroup][m]]
  <2>2. edges' = [edges EXCEPT ![AuditorsGroup] = promoted]
    BY <1>7 DEF PromoteNonauditors
  <2>3. promoted \in [Members -> Roles \union {"none"}]
    BY <2>1 DEF Roles
  <2>4. \A m \in X : promoted[m] \in {"none", "member"}
    BY <2>1 DEF Plain
  <2> HIDE DEF promoted
  <2>5. /\ edges' \in [Groups -> [Members -> Roles \union {"none"}]]
        /\ Plain(X)'
    BY <2>1, <2>2, <2>3, <2>4 DEF Plain
  <2> QED
    BY <1>7, <2>5 DEF PromoteNonauditors, TypeOK
<1>8. CASE UNCHANGED db
  BY <1>8 DEF db, Plain, TypeOK
<1> QED
  BY <1>1, <1>2, <1>3, <1>4, <1>5, <1>6, <1>7, <1>8 DEF Next

LEMMA GraphInvariance == Spec => []GraphInv
<1>1. Groups \in SUBSET Members /\ PlainEdges(Groups)
  BY PolicyAssumption DEF Members, PlainEdges
<1>2. Init => GraphInv
  BY <1>1, InitPlain DEF GraphInv
<1>3. GraphInv /\ [Next]_db => GraphInv'
  BY <1>1, NextPlain DEF GraphInv
<1> QED
  BY <1>2, <1>3, PTL DEF Spec

-----------------------------------------------------------------------------
(* Up and down.                                                            *)

LEMMA UpIsDown ==
    ASSUME NEW x \in Members, NEW y \in Members
    PROVE  y \in Found(x, UpArcs) <=> x \in Found(y, DownArcs)
<1>1. \A a, b \in Members : <<a, b>> \in UpArcs <=> <<b, a>> \in DownArcs
  BY DEF UpArcs, DownArcs
<1> QED
  BY <1>1, FoundBack

\* Above a group there are groups only.
LEMMA UpIsGroups ==
    ASSUME NEW g \in Groups
    PROVE  g \in Members /\ Found(g, UpArcs) \subseteq Groups
<1>1. g \in Members /\ Closed(Groups, UpArcs)
  BY DEF Closed, UpArcs, Members
<1> QED
  BY <1>1, FoundIsLeast

\* What is found below a group, save itself, is enabled, and so is the group.
LEMMA FoundIsEnabled ==
    ASSUME NEW x \in Members, NEW y \in Found(x, DownArcs), y # x
    PROVE  y \in enabled /\ x \in enabled /\ x \in Groups
<1>1. PICK z \in Found(x, DownArcs) : <<z, y>> \in DownArcs
  BY FoundLast
<1>2. PICK w \in Members : <<x, w>> \in DownArcs
  BY FoundFirst
<1> QED
  BY <1>1, <1>2 DEF DownArcs, Arc

\* Whom the grants of g reach: members, not as np-owners, of groups below.
LEMMA HoldersBelow ==
    ASSUME GraphInv, NEW g \in Groups, NEW u \in Users
    PROVE  u \in Found(g, DownGrantArcs) <=>
              \E h \in Found(g, DownArcs) \cap Groups : GrantArc(h, u)
<1>0. g \in Members /\ u \in Members /\ g # u
  BY GraphAssumption DEF Members
<1>1. ASSUME u \in Found(g, DownGrantArcs)
      PROVE  \E h \in Found(g, DownArcs) \cap Groups : GrantArc(h, u)
  <2>1. PICK h \in Found(g, DownGrantArcs) : <<h, u>> \in DownGrantArcs
    BY <1>0, <1>1, FoundLast
  <2>2. Found(g, DownGrantArcs) \subseteq Found(g, DownArcs)
    <3>1. \A a, b \in Members : <<a, b>> \in DownGrantArcs => <<a, b>> \in DownArcs
      BY DEF DownGrantArcs, DownArcs, GrantArc
    <3> QED
      BY <1>0, <3>1, FoundMonotone
  <2> QED
    BY <2>1, <2>2 DEF DownGrantArcs
<1>2. ASSUME NEW h \in Found(g, DownArcs) \cap Groups, GrantArc(h, u)
      PROVE  u \in Found(g, DownGrantArcs)
  <2> DEFINE F == Found(g, DownGrantArcs)
  <2>1. g \in F /\ Closed(F, DownGrantArcs)
    BY <1>0, FoundCloses
  <2>2. Closed(F \union Users, DownArcs)
    <3>1. ASSUME NEW x \in F \union Users, NEW m \in Members, <<x, m>> \in DownArcs
          PROVE  m \in F \union Users
      <4>1. x \in Groups /\ x \in F /\ Arc(x, m)
        BY <3>1, GraphAssumption DEF DownArcs
      <4>2. CASE m \in Groups
        <5>1. <<x, m>> \in DownGrantArcs
          BY <4>1, <4>2 DEF DownGrantArcs, GrantArc, GraphInv, Plain
        <5> QED
          BY <2>1, <4>1, <5>1 DEF Closed
      <4> QED
        BY <4>2 DEF Members
    <3> HIDE DEF F
    <3> QED
      BY <3>1 DEF Closed
  <2>3. h \in F
    <3>1. Found(g, DownArcs) \subseteq F \union Users
      <4> HIDE DEF F
      <4> QED
        BY <1>0, <2>1, <2>2, FoundIsLeast
    <3> QED
      BY <3>1, GraphAssumption
  <2>4. <<h, u>> \in DownGrantArcs
    BY <1>0, <1>2 DEF DownGrantArcs
  <2> QED
    BY <1>0, <2>1, <2>3, <2>4 DEF Closed
<1> QED
  BY <1>1, <1>2

\* A user inherits from a group if and only if its grants reach the user.
LEMMA InheritsIsHeld ==
    ASSUME GraphInv, NEW g \in Groups, NEW u \in Users
    PROVE  g \in InheritedGroups(u) <=> u \in Found(g, DownGrantArcs)
<1>1. g \in InheritedGroups(u) <=>
         \E h \in Groups : GrantArc(h, u) /\ g \in Found(h, UpArcs)
  BY DEF InheritedGroups
<1>2. \A h \in Groups : g \in Found(h, UpArcs) <=> h \in Found(g, DownArcs)
  BY UpIsDown DEF Members
<1> QED
  BY <1>1, <1>2, HoldersBelow

LEMMA InheritedAreGroups ==
    ASSUME NEW u
    PROVE  InheritedGroups(u) \subseteq Groups
BY UpIsGroups DEF InheritedGroups

-----------------------------------------------------------------------------
(* Whom a permission is granted to, and who is told so.                    *)

LEMMA HoldersAreTold ==
    ASSUME GraphInv, NEW u \in Users \ Services, NEW p \in Permissions
    PROVE  (\E x \in UserGrants(u) : x[2] = p) <=> u \in HoldersByGroup(p)
<1>1. (\E x \in UserGrants(u) : x[2] = p) <=>
         \E g \in InheritedGroups(u) : p \in GrantsOf(g)
  <2>1. UserGrants(u) = {x \in InheritedGroups(u) \X Permissions : x[2] \in GrantsOf(x[1])}
    BY DEF UserGrants
  <2>2. ASSUME NEW x \in UserGrants(u), x[2] = p
        PROVE  \E g \in InheritedGroups(u) : p \in GrantsOf(g)
    BY <2>1, <2>2
  <2>3. ASSUME NEW g \in InheritedGroups(u), p \in GrantsOf(g)
        PROVE  \E x \in UserGrants(u) : x[2] = p
    <3>1. <<g, p>> \in UserGrants(u)
      BY <2>1, <2>3
    <3> QED
      BY <3>1
  <2> QED
    BY <2>2, <2>3
<1>2. u \in HoldersByGroup(p) <=>
         \E g \in Groups : p \in GrantsOf(g) /\ u \in Found(g, DownGrantArcs)
  BY DEF HoldersByGroup
<1> QED
  BY <1>1, <1>2, InheritsIsHeld, InheritedAreGroups

LEMMA HoldersAreEnabled ==
    ASSUME GraphInv, NEW p \in Permissions, NEW u \in HoldersByGroup(p)
    PROVE  u \in Users \ Services /\ u \in enabled
<1>1. PICK g \in Groups : u \in Found(g, DownGrantArcs)
  BY DEF HoldersByGroup
<1>2. u \in Users \ Services
  BY DEF HoldersByGroup
<1> QED
  BY <1>1, <1>2, HoldersBelow DEF GrantArc, Arc

\* Whatever the memberships, roles, grants and disabled accounts: the accounts
\* that _get_grants_by_permission lists for a permission, walking down from its
\* groups, are those that get_user_details says have it, walking up.
THEOREM MirrorHolds == Spec => []GrantsMirrorUserDetails
<1>1. GraphInv => GrantsMirrorUserDetails
  <2> SUFFICES ASSUME GraphInv PROVE GrantsMirrorUserDetails
    OBVIOUS
  <2> DEFINE details == MultiUsers(Users)
  <2>1. \A u \in Users : details[u].permissions = UserGrants(u)
    BY DEF MultiUsers, HasUserInfo, IsServiceAccount, UserMetadata, IndividualUserInfo
  <2>2. /\ ListedUsers(FALSE) \subseteq Users \ (Services \union RoleUsers)
        /\ ListedServiceAccounts \ RoleUsers = Services
        /\ AllUserMetadata = {u \in Users : u \in enabled /\ u \notin Services}
    BY GraphAssumption DEF ListedUsers, ListedServiceAccounts, AllUserMetadata,
       IsServiceAccount, UserMetadata
  <2> HIDE DEF details
  <2>3. ASSUME NEW p \in Permissions, NEW u \in ListedUsers(FALSE)
        PROVE  (\E x \in details[u].permissions : x[2] = p) <=>
                  u \in GrantsOfPermission(p).users
    <3>1. u \in Users \ Services /\ u \notin RoleUsers
      BY <2>2
    <3> QED
      BY <2>1, <3>1, HoldersAreTold DEF GrantsOfPermission, HumanHolders
  <2>4. ASSUME NEW p \in Permissions, NEW s \in ListedServiceAccounts \ RoleUsers
        PROVE  (\E x \in details[s].permissions : x[2] = p) <=>
                  s \in GrantsOfPermission(p).service_accounts
    <3>1. s \in Services /\ s \in Users
      BY <2>2, GraphAssumption
    <3>2. details[s].permissions = {<<s, q>> : q \in GrantsOf(s)}
      BY <2>1, <3>1 DEF UserGrants
    <3>3. GrantsOfPermission(p).service_accounts = {r \in Services : p \in GrantsOf(r)}
      BY DEF GrantsOfPermission, ServiceHolders
    <3>4. (\E x \in {<<s, q>> : q \in GrantsOf(s)} : x[2] = p) <=> p \in GrantsOf(s)
      <4>1. \A q : <<s, q>>[2] = q
        OBVIOUS
      <4> QED
        BY <4>1
    <3> QED
      BY <3>1, <3>2, <3>3, <3>4
  <2>5. ASSUME NEW p \in Permissions
        PROVE  GrantsOfPermission(p).users \union GrantsOfPermission(p).role_users
                  \subseteq AllUserMetadata
    <3>1. GrantsOfPermission(p).users \union GrantsOfPermission(p).role_users
             \subseteq HoldersByGroup(p)
      BY DEF GrantsOfPermission, HumanHolders, RoleHolders
    <3> QED
      BY <2>2, <3>1, HoldersAreEnabled
  <2> QED
    BY <2>3, <2>4, <2>5 DEF GrantsMirrorUserDetails, details
<1> QED
  BY <1>1, GraphInvariance, PTL

-----------------------------------------------------------------------------
(* The groups with a permission.                                           *)

\* A group and those above it.
LEMMA AboveIsFound ==
    ASSUME NEW g \in Groups
    PROVE  /\ Supergroups(g) \union {g} = Found(g, UpArcs)
           /\ Found(g, UpArcs) = {h \in Groups : g \in Found(h, DownArcs)}
<1>1. g \in Found(g, UpArcs) /\ Found(g, UpArcs) \subseteq Groups /\ g \in Members
  BY FoundCloses, UpIsGroups
<1>2. \A h \in Groups : h \in Found(g, UpArcs) <=> g \in Found(h, DownArcs)
  BY UpIsDown DEF Members
<1> QED
  BY <1>1, <1>2 DEF Supergroups

LEMMA GroupHas ==
    ASSUME NEW g \in Groups, NEW p \in Permissions
    PROVE  (\E x \in GroupPermissions(g) : x[2] = p) <=> g \in PermissionGroups(p)
<1>1. GroupPermissions(g) =
         {x \in Found(g, UpArcs) \X Permissions : x[2] \in GrantsOf(x[1])}
  BY AboveIsFound DEF GroupPermissions
<1>2. g \in PermissionGroups(p) <=> \E h \in Found(g, UpArcs) : p \in GrantsOf(h)
  <2>1. g \in PermissionGroups(p) <=>
           \E h \in Groups : p \in GrantsOf(h) /\ g \in Found(h, DownArcs)
    BY DEF PermissionGroups
  <2> QED
    BY <2>1, AboveIsFound
<1>3. ASSUME NEW h \in Found(g, UpArcs), p \in GrantsOf(h)
      PROVE  <<h, p>> \in GroupPermissions(g)
  BY <1>1, <1>3
<1>4. \A h : <<h, p>>[2] = p
  OBVIOUS
<1> QED
  BY <1>1, <1>2, <1>3, <1>4

LEMMA PermissionGroupsEnabled ==
    ASSUME NEW p, NEW g \in PermissionGroups(p)
    PROVE  g \in Groups \cap enabled
<1>1. PICK h \in Groups : p \in GrantsOf(h) /\ g \in Found(h, DownArcs) /\ g \in Groups
  BY DEF PermissionGroups
<1>2. h \in enabled /\ h \in Members
  BY <1>1 DEF GrantsOf, Members
<1> QED
  BY <1>1, <1>2, FoundIsEnabled

\* The audited groups are those with an audited permission.
LEMMA AuditedAre ==
    ASSUME GraphInv
    PROVE  /\ AuditedGroups = UNION {PermissionGroups(p) : p \in audited}
           /\ AuditedGroups = {g \in Groups \cap enabled : GroupAudited(g)}
<1>1. audited \subseteq Permissions
  BY DEF GraphInv, TypeOK
<1>2. \A g : g \in AuditedGroups <=>
         \E h \in Groups : h \in DirectlyAudited /\ g \in Found(h, DownArcs) /\ g \in Groups
  BY DEF AuditedGroups, DirectlyAudited
<1>3. \A h \in Groups : h \in DirectlyAudited <=> \E p \in audited : p \in GrantsOf(h)
  BY <1>1 DEF DirectlyAudited, GrantsOf
<1>4. \A g, p : g \in PermissionGroups(p) <=>
         \E h \in Groups : p \in GrantsOf(h) /\ g \in Found(h, DownArcs) /\ g \in Groups
  BY DEF PermissionGroups
<1>5. \A g : g \in AuditedGroups <=> \E p \in audited : g \in PermissionGroups(p)
  BY <1>2, <1>3, <1>4
<1>6. \A g \in Groups : GroupAudited(g) <=> \E p \in audited : g \in PermissionGroups(p)
  <2> TAKE g \in Groups
  <2>1. GroupAudited(g) <=> \E x \in GroupPermissions(g) : x[2] \in audited
    BY DEF GroupAudited
  <2>2. \A p \in audited : (\E x \in GroupPermissions(g) : x[2] = p) <=> g \in PermissionGroups(p)
    BY <1>1, GroupHas
  <2> QED
    BY <2>1, <2>2
<1>7. \A g \in AuditedGroups : g \in Groups \cap enabled
  BY <1>5, PermissionGroupsEnabled
<1> QED
  BY <1>5, <1>6, <1>7

\* The groups that get_groups finds audited, down from the audited grants, are
\* those that get_group_details finds audited, up from the group, in every graph.
THEOREM AuditedAgree == Spec => []AuditedMatchesDetails
<1>1. GraphInv => AuditedMatchesDetails
  <2> SUFFICES ASSUME GraphInv PROVE AuditedMatchesDetails
    OBVIOUS
  <2>1. /\ AuditedGroups = {g \in Groups \cap enabled : GroupAudited(g)}
        /\ AuditedGroups = UNION {PermissionGroups(p) : p \in audited}
        /\ audited \subseteq Permissions
    BY AuditedAre DEF GraphInv, TypeOK
  <2>2. \A g \in GroupsView(TRUE, FALSE) \ GroupsView(TRUE, TRUE) : ~GroupAudited(g)
    BY <2>1 DEF GroupsView
  <2>3. \A p \in Permissions : PermissionDetails(p).groups = PermissionGroups(p)
    BY DEF PermissionDetails
  <2>4. ASSUME NEW p \in Permissions
        PROVE  PermissionGroups(p) =
                  {g \in Groups \cap enabled : \E x \in GroupPermissions(g) : x[2] = p}
    BY GroupHas, PermissionGroupsEnabled
  <2>5. ListPermissions(TRUE) = audited
    BY <2>1 DEF ListPermissions
  <2>6. AuditedGroups = UNION {PermissionDetails(p).groups : p \in ListPermissions(TRUE)}
    BY <2>1, <2>3, <2>5
  <2> QED
    BY <2>1, <2>2, <2>3, <2>4, <2>6 DEF AuditedMatchesDetails
<1> QED
  BY <1>1, GraphInvariance, PTL

-----------------------------------------------------------------------------
(* The graph and SQL.                                                      *)

\* The loop over parents finds, from an enabled group, what lies above it.
LEMMA ParentsAreAbove ==
    ASSUME GraphInv, NEW g \in Groups \cap enabled
    PROVE  /\ Found(g, ParentArcs) = Found(g, UpArcs)
           /\ Found(g, UpArcs) \subseteq Groups \cap enabled
<1> DEFINE A == Found(g, UpArcs)
           P == Found(g, ParentArcs)
<1>1. /\ g \in Members /\ A \subseteq Groups
      /\ g \in A /\ Closed(A, UpArcs) /\ g \in P /\ Closed(P, ParentArcs)
  BY UpIsGroups, FoundCloses
<1>2. A \subseteq enabled
  <2>1. ASSUME NEW y \in A, y # g
        PROVE  y \in enabled
    <3>1. PICK z \in A : <<z, y>> \in UpArcs
      BY <1>1, <2>1, FoundLast
    <3> QED
      BY <3>1 DEF UpArcs, Arc
  <2> QED
    BY <2>1
<1>3. P \subseteq A
  <2>1. Closed(A, ParentArcs)
    <3>1. ASSUME NEW x \in A, NEW m \in Members, <<x, m>> \in ParentArcs
          PROVE  <<x, m>> \in UpArcs
      BY <1>1, <1>2, <3>1 DEF ParentArcs, UpArcs, Arc
    <3> HIDE DEF A
    <3> QED
      BY <1>1, <3>1 DEF Closed
  <2> HIDE DEF A
  <2> QED
    BY <1>1, <2>1, FoundIsLeast
<1>4. A \subseteq P
  <2>1. P \subseteq Groups
    BY <1>1, <1>3
  <2>2. Closed(P, UpArcs)
    <3>1. ASSUME NEW x \in P, NEW m \in Members, <<x, m>> \in UpArcs
          PROVE  <<x, m>> \in ParentArcs
      <4>1. x \in Groups /\ m \in Groups /\ Arc(m, x)
        BY <2>1, <3>1 DEF UpArcs
      <4> QED
        BY <4>1 DEF GraphInv, Plain, ParentArcs, Arc, Members
    <3> HIDE DEF P
    <3> QED
      BY <1>1, <3>1 DEF Closed
  <2> HIDE DEF P
  <2> QED
    BY <1>1, <2>2, FoundIsLeast
<1> QED
  BY <1>1, <1>2, <1>3, <1>4

\* Grants are pairs, of those with enabled holders.
LEMMA GrantsAre ==
    ASSUME GraphInv, NEW G, G \subseteq (Groups \union Services) \cap enabled
    PROVE  {x \in grants : x[1] \in G} = {x \in G \X Permissions : x[2] \in GrantsOf(x[1])}
<1>1. grants \subseteq (Groups \union Services) \X Permissions
  BY DEF GraphInv, TypeOK
<1>2. ASSUME NEW x \in grants, x[1] \in G
      PROVE  x \in G \X Permissions /\ x[2] \in GrantsOf(x[1])
  <2>1. x = <<x[1], x[2]>> /\ x[2] \in Permissions
    BY <1>1
  <2> QED
    BY <1>2, <2>1 DEF GrantsOf
<1>3. ASSUME NEW x \in G \X Permissions, x[2] \in GrantsOf(x[1])
      PROVE  x \in grants /\ x[1] \in G
  <2>1. x = <<x[1], x[2]>>
    OBVIOUS
  <2> QED
    BY <1>3, <2>1 DEF GrantsOf
<1> QED
  BY <1>2, <1>3

LEMMA UsersAgree ==
    ASSUME GraphInv, NEW u \in Users \ (Services \union RoleUsers)
    PROVE  /\ SqlUserGrants(u) = UserGrants(u)
           /\ UserPage(u).groups \subseteq UserGroups(u)
           /\ \A x \in UserPermissions(u) : edges[x[1]][u] # "np-owner" => x \in UserGrants(u)
<1>1. SqlGroups(u) = {g \in Groups : GrantArc(g, u)}
  BY DEF SqlGroups, GrantArc, Arc
<1>2. InheritedGroups(u) = SqlParents(SqlGroups(u))
  <2>1. SqlGroups(u) \in SUBSET Members
    BY <1>1 DEF Members
  <2>2. SqlParents(SqlGroups(u)) = UNION {Found(g, ParentArcs) : g \in SqlGroups(u)}
    BY <2>1, SpreadIsUnion DEF SqlParents
  <2>3. \A g \in SqlGroups(u) : Found(g, ParentArcs) = Found(g, UpArcs)
    BY <1>1, ParentsAreAbove DEF GrantArc, Arc
  <2>4. UNION {Found(g, ParentArcs) : g \in SqlGroups(u)}
           = UNION {Found(g, UpArcs) : g \in SqlGroups(u)}
    BY <2>3
  <2> QED
    BY <1>1, <2>2, <2>4 DEF InheritedGroups
<1>3. InheritedGroups(u) \subseteq Groups \cap enabled
  BY ParentsAreAbove DEF InheritedGroups, GrantArc, Arc
<1>4. UserGrants(u) = {x \in InheritedGroups(u) \X Permissions : x[2] \in GrantsOf(x[1])}
  BY DEF UserGrants
<1>5. UserGrants(u) = {x \in grants : x[1] \in InheritedGroups(u)}
  BY <1>3, <1>4, GrantsAre
<1>6. SqlUserGrants(u) = UserGrants(u)
  BY <1>2, <1>5 DEF SqlUserGrants, SqlGrants
<1>7. UserPage(u).groups \subseteq UserGroups(u)
  BY DEF UserPage, UserGroups, DirectGroups
<1>8. ASSUME NEW x \in UserPermissions(u), edges[x[1]][u] # "np-owner"
      PROVE  x \in UserGrants(u)
  <2>1. x \in grants /\ x[1] \in Groups /\ GrantArc(x[1], u)
    BY <1>8 DEF UserPermissions, GrantArc
  <2>2. x[1] \in Found(x[1], UpArcs)
    BY <2>1, FoundCloses DEF Members
  <2> QED
    BY <1>5, <2>1, <2>2 DEF InheritedGroups
<1> QED
  BY <1>6, <1>7, <1>8

LEMMA ServicesAgree ==
    ASSUME GraphInv, NEW s \in Services
    PROVE  SqlServiceGrants(s) = UserGrants(s) /\ UserPage(s).permissions = UserGrants(s)
<1>1. UserGrants(s) = {<<s, p>> : p \in GrantsOf(s)}
  BY DEF UserGrants
<1>2. SqlServiceGrants(s) = {x \in grants : x[1] = s /\ s \in enabled}
  BY DEF SqlServiceGrants
<1>3. \A x \in grants : x = <<x[1], x[2]>> /\ x[2] \in Permissions
  BY DEF GraphInv, TypeOK
<1>4. \A p : <<s, p>>[1] = s /\ (p \in GrantsOf(s) <=>
                p \in Permissions /\ s \in enabled /\ <<s, p>> \in grants)
  BY DEF GrantsOf
<1>5. SqlServiceGrants(s) = UserGrants(s)
  <2>1. ASSUME NEW x \in SqlServiceGrants(s)
        PROVE  x \in UserGrants(s)
    <3>1. x = <<s, x[2]>> /\ x[2] \in GrantsOf(s)
      BY <1>2, <1>3, <1>4
    <3> QED
      BY <1>1, <3>1
  <2>2. ASSUME NEW p \in GrantsOf(s)
        PROVE  <<s, p>> \in SqlServiceGrants(s)
    BY <1>2, <1>4
  <2> QED
    BY <1>1, <2>1, <2>2
<1>6. UserPage(s).permissions = SqlServiceGrants(s)
  BY <1>2 DEF UserPage
<1> QED
  BY <1>5, <1>6

LEMMA GroupsAgree ==
    ASSUME GraphInv, NEW g \in Groups \cap enabled
    PROVE  LET page == GroupPage(g)
               details == GroupDetails(g)
           IN  /\ SqlGroupGrants(g) = details.permissions
               /\ {<<g, p>> : p \in page.my_permissions} \subseteq page.permissions
               /\ details.groups = (UNION {{x} \union Supergroups(x) : x \in page.groups}) \ {g}
               /\ details.users \ Services =
                     UNION {MyUsers(x) : x \in {g} \union details.subgroups}
<1>0. g \in Groups /\ g \in Members
  BY DEF Members
<1>1. SqlGroupGrants(g) = GroupPermissions(g)
  <2>1. SqlGroupGrants(g) = {x \in grants : x[1] \in Found(g, ParentArcs)}
    BY DEF SqlGroupGrants, SqlGrants, SqlParents, Found
  <2>2. GroupPermissions(g) =
           {x \in Found(g, UpArcs) \X Permissions : x[2] \in GrantsOf(x[1])}
    BY AboveIsFound DEF GroupPermissions
  <2> QED
    BY <2>1, <2>2, ParentsAreAbove, GrantsAre
<1>2. {<<g, p>> : p \in MyPermissions(g)} \subseteq GroupPermissions(g)
  <2>1. ASSUME NEW p \in MyPermissions(g)
        PROVE  <<g, p>> \in GroupPermissions(g)
    <3>1. p \in Permissions /\ p \in GrantsOf(g)
      BY DEF MyPermissions, GrantsOf
    <3>2. <<g, p>> \in (Supergroups(g) \union {g}) \X Permissions
      BY <3>1
    <3>3. <<g, p>>[1] = g /\ <<g, p>>[2] = p
      OBVIOUS
    <3> QED
      BY <3>1, <3>2, <3>3 DEF GroupPermissions
  <2> QED
    BY <2>1
<1>3. Supergroups(g) = (UNION {{x} \union Supergroups(x) : x \in MyGroups(g)}) \ {g}
  <2>1. MyGroups(g) \subseteq Groups /\ \A x : x \in MyGroups(g) <=> <<g, x>> \in UpArcs
    BY <1>0 DEF MyGroups, UpArcs
  <2>2. \A x \in MyGroups(g) : {x} \union Supergroups(x) = Found(x, UpArcs)
    BY <2>1, AboveIsFound
  <2>3. ASSUME NEW h \in Supergroups(g)
        PROVE  \E x \in MyGroups(g) : h \in Found(x, UpArcs)
    BY <1>0, <2>1, FoundFirst DEF Supergroups
  <2>4. ASSUME NEW x \in MyGroups(g)
        PROVE  Found(x, UpArcs) \subseteq Found(g, UpArcs)
    <3>1. x \in Found(g, UpArcs)
      BY <1>0, <2>1, FoundCloses DEF Closed, Members
    <3> QED
      BY <1>0, <3>1, FoundTransitive
  <2>5. UNION {{x} \union Supergroups(x) : x \in MyGroups(g)}
           = UNION {Found(x, UpArcs) : x \in MyGroups(g)}
    BY <2>2
  <2> QED
    BY <2>3, <2>4, <2>5 DEF Supergroups
<1>4. GroupUsers(g) \ Services = UNION {MyUsers(x) : x \in {g} \union Subgroups(g)}
  <2>1. {g} \union Subgroups(g) = Found(g, DownArcs) \cap Groups
    BY <1>0, FoundCloses DEF Subgroups
  <2>2. ASSUME NEW u \in GroupUsers(g) \ Services
        PROVE  \E x \in Found(g, DownArcs) \cap Groups : u \in MyUsers(x)
    <3>1. u \in Users \ Services /\ u \in Found(g, DownArcs) /\ u # g
      BY <1>0, GraphAssumption DEF GroupUsers
    <3>2. PICK z \in Found(g, DownArcs) : <<z, u>> \in DownArcs
      BY <1>0, <3>1, FoundLast
    <3> QED
      BY <3>1, <3>2 DEF DownArcs, MyUsers
  <2>3. ASSUME NEW x \in Found(g, DownArcs) \cap Groups, NEW u \in MyUsers(x)
        PROVE  u \in GroupUsers(g) \ Services
    <3>1. u \in Users \ Services /\ <<x, u>> \in DownArcs /\ u \in Members
      BY DEF MyUsers, DownArcs, Members
    <3> QED
      BY <1>0, <3>1, FoundCloses DEF Closed, GroupUsers
  <2>4. UNION {MyUsers(x) : x \in {g} \union Subgroups(g)}
           = UNION {MyUsers(x) : x \in Found(g, DownArcs) \cap Groups}
    BY <2>1
  <2> QED
    BY <2>2, <2>3, <2>4
<1> QED
  BY <1>1, <1>2, <1>3, <1>4 DEF GroupPage, GroupDetails

\* Whatever the database, what the SQL repositories and user_permissions say of
\* an account, a group or a permission is what the graph says.
THEOREM SqlAgrees == Spec => []SqlMatchesGraph
<1>1. GraphInv => SqlMatchesGraph
  <2> SUFFICES ASSUME GraphInv PROVE SqlMatchesGraph
    OBVIOUS
  <2>1. /\ ListedUsers(FALSE) \subseteq Users \ (Services \union RoleUsers)
        /\ UsersView(TRUE, FALSE) = AllUserMetadata \ RoleUsers
    <3>1. \A u \in Users : /\ IsServiceAccount(u) <=> u \in RoleUsers \union Services
                           /\ UserMetadata[u].enabled = (u \in enabled)
                           /\ UserMetadata[u].service_account = (u \in Services)
      BY DEF IsServiceAccount, UserMetadata
    <3>2. ListedUsers(FALSE) = {u \in Users : ~IsServiceAccount(u)}
      BY DEF ListedUsers
    <3>3. AllUserMetadata = {u \in Users : u \in enabled /\ u \notin Services}
      BY <3>1 DEF AllUserMetadata
    <3>4. UsersView(TRUE, FALSE) =
             {u \in Users : u \in enabled /\ u \notin RoleUsers \union Services}
      BY DEF UsersView
    <3> QED
      BY <3>1, <3>2, <3>3, <3>4
  <2>2. ASSUME NEW u \in ListedUsers(FALSE)
        PROVE  /\ SqlUserGrants(u) = IndividualUserInfo(u).permissions
               /\ UserPage(u).groups \subseteq IndividualUserInfo(u).groups
               /\ \A x \in UserPermissions(u) :
                     edges[x[1]][u] # "np-owner" => x \in UserGrants(u)
    <3>1. u \in Users \ (Services \union RoleUsers)
      BY <2>1
    <3> QED
      BY <3>1, UsersAgree DEF IndividualUserInfo
  <2>3. ASSUME NEW p \in Permissions
        PROVE  /\ GroupGrantsForPermission(p) \subseteq PermissionDetails(p).groups
               /\ ServiceGrantsForPermission(p) \cap enabled =
                     PermissionDetails(p).service_accounts
    <3>1. ASSUME NEW g \in GroupGrantsForPermission(p)
          PROVE  g \in PermissionGroups(p)
      <4>1. g \in Groups /\ p \in GrantsOf(g) /\ g \in Found(g, DownArcs)
        BY FoundCloses DEF GroupGrantsForPermission, GrantsOf, Members
      <4> QED
        BY <4>1 DEF PermissionGroups
    <3>2. ServiceGrantsForPermission(p) \cap enabled = PermissionServices(p)
      BY DEF ServiceGrantsForPermission, PermissionServices, GrantsOf
    <3> QED
      BY <3>1, <3>2 DEF PermissionDetails
  <2> QED
    BY <2>1, <2>2, <2>3, ServicesAgree, GroupsAgree DEF SqlMatchesGraph
<1> QED
  BY <1>1, GraphInvariance, PTL

-----------------------------------------------------------------------------
(* The walk through the controllers of a group and of those below.         *)

\* Names of users and groups are unique and groups have no @ in theirs; only a
\* role user shares its name, with its group.
NamesDiffer == \A x, y \in Members \ RoleUsers : NameOf[x] = NameOf[y] => x = y

\* Role users are plain members wherever they are members: one that controls a
\* group is passed over by the walk once the group of its name has been seen.
PlainRoleUsers == PlainEdges(RoleUsers)

Looked(w, x) == NameOf[x] \in w.checked

\* What every run that has not raised knows by now: of the groups it has looked
\* at, and of the users.
WalkInv(g, w) ==
    /\ w \in Walks
    /\ g \in w.queue \/ Looked(w, g)
    /\ \A x \in Groups : Looked(w, x) =>
          /\ \A u \in Controllers(x) : UserIsAuditor(u)
          /\ \A y \in DirectSubgroups(x) : y \in w.queue \/ Looked(w, y)
    /\ \A u \in Users \ RoleUsers : Looked(w, u) => UserIsAuditor(u)

LEMMA ControllersAreNoRoleUsers ==
    ASSUME Plain(RoleUsers), NEW x \in Groups, NEW u \in Controllers(x)
    PROVE  u \in Users \ RoleUsers
BY DEF Plain, Controllers, Arc

LEMMA VisitKeeps ==
    ASSUME NamesDiffer, Plain(RoleUsers), NEW g \in Groups, NEW w, WalkInv(g, w),
           NEW x \in w.queue, NEW v \in Visit(w, x)
    PROVE  WalkInv(g, v)
<1> DEFINE others == w.queue \ {x}
           now == w.checked \union {NameOf[x]}
           users == Unchecked(x, now)
<1>1. /\ x \in Groups /\ w.queue \subseteq Groups
      /\ w.checked \subseteq {NameOf[m] : m \in Members}
      /\ w = [queue |-> w.queue, checked |-> w.checked]
  BY DEF WalkInv, Walks
<1>2. CASE NameOf[x] \in w.checked
  <2>1. v = [w EXCEPT !.queue = others]
    BY <1>2 DEF Visit
  <2>2. v.queue = others /\ v.checked = w.checked /\ v \in Walks
    BY <1>1, <2>1 DEF Walks
  <2> QED
    BY <1>2, <2>2 DEF WalkInv, Looked
<1>3. CASE NameOf[x] \notin w.checked
  <2> DEFINE after == [queue |-> others \union DirectSubgroups(x),
                       checked |-> now \union {NameOf[u] : u \in users}]
  <2>1. v = after /\ \A u \in users : UserIsAuditor(u)
    BY <1>3 DEF Visit
  <2>2. /\ v.queue = others \union DirectSubgroups(x)
        /\ v.checked = now \union {NameOf[u] : u \in users}
    BY <2>1
  <2>3. users = {u \in Controllers(x) : NameOf[u] \notin now}
    BY DEF Unchecked
  <2> HIDE DEF after, users
  <2>4. v \in Walks
    <3>1. DirectSubgroups(x) \subseteq Groups /\ users \subseteq Users
      BY <2>3 DEF DirectSubgroups, Controllers
    <3>2. v.queue \subseteq Groups /\ v.checked \subseteq {NameOf[m] : m \in Members}
      BY <1>1, <2>2, <3>1 DEF Members
    <3> QED
      BY <2>1, <2>2, <3>2 DEF Walks, after
  <2>5. ASSUME NEW u \in Controllers(x)
        PROVE  UserIsAuditor(u) /\ Looked(v, u)
    <3>1. u \in Users \ RoleUsers /\ u \in Members /\ x \in Members \ RoleUsers /\ u # x
      BY <1>1, ControllersAreNoRoleUsers, GraphAssumption DEF Members
    <3>2. NameOf[u] # NameOf[x]
      BY <3>1 DEF NamesDiffer
    <3>3. CASE Looked(w, u)
      BY <2>2, <3>1, <3>3 DEF WalkInv, Looked
    <3>4. CASE ~Looked(w, u)
      <4>1. u \in users
        BY <2>3, <3>2, <3>4 DEF Looked
      <4> QED
        BY <2>1, <2>2, <4>1 DEF Looked
    <3> QED
      BY <3>3, <3>4
  <2>6. ASSUME NEW y \in Members \ RoleUsers, Looked(v, y)
        PROVE  Looked(w, y) \/ y = x \/ y \in users
    <3>1. CASE NameOf[y] = NameOf[x]
      BY <1>1, <3>1, GraphAssumption DEF NamesDiffer, Members
    <3>2. ASSUME NEW u \in users, NameOf[y] = NameOf[u]
          PROVE  y = u
      <4>1. u \in Members \ RoleUsers
        BY <1>1, <2>3, ControllersAreNoRoleUsers DEF Members
      <4> QED
        BY <3>2, <4>1 DEF NamesDiffer
    <3> QED
      BY <2>2, <2>6, <3>1, <3>2 DEF Looked
  <2>7. ASSUME NEW y \in Groups, Looked(v, y)
        PROVE  Looked(w, y) \/ y = x
    <3>1. y \in Members \ RoleUsers /\ y \notin users
      BY <2>3, GraphAssumption DEF Members, Controllers
    <3> QED
      BY <2>6, <2>7, <3>1
  <2>8. ASSUME NEW y \in Groups, Looked(w, y) \/ y \in w.queue
        PROVE  Looked(v, y) \/ y \in v.queue
    BY <2>2, <2>8 DEF Looked
  <2>9. ASSUME NEW y \in Groups, Looked(v, y)
        PROVE  /\ \A u \in Controllers(y) : UserIsAuditor(u)
               /\ \A z \in DirectSubgroups(y) : z \in v.queue \/ Looked(v, z)
    <3>1. CASE y = x
      BY <2>2, <2>5, <3>1
    <3>2. CASE Looked(w, y)
      <4>1. /\ \A u \in Controllers(y) : UserIsAuditor(u)
            /\ \A z \in DirectSubgroups(y) : z \in w.queue \/ Looked(w, z)
        BY <3>2 DEF WalkInv
      <4>2. DirectSubgroups(y) \subseteq Groups
        BY DEF DirectSubgroups
      <4> QED
        BY <2>8, <4>1, <4>2
    <3> QED
      BY <2>7, <2>9, <3>1, <3>2
  <2>10. ASSUME NEW u \in Users \ RoleUsers, Looked(v, u)
         PROVE  UserIsAuditor(u)
    <3>1. u \in Members \ RoleUsers /\ u # x
      BY <1>1, GraphAssumption DEF Members
    <3>2. Looked(w, u) \/ u \in users
      BY <2>6, <2>10, <3>1
    <3> QED
      BY <2>1, <3>2 DEF WalkInv
  <2>11. g \in v.queue \/ Looked(v, g)
    BY <2>8 DEF WalkInv
  <2> QED
    BY <2>4, <2>9, <2>10, <2>11 DEF WalkInv
<1> QED
  BY <1>2, <1>3

\* The start of a run, and what all runs have in common after n turns, by
\* induction; where no turn ends them all, there is a run at the end.
Started(g) == [queue |-> {g}, checked |-> {}]

LEMMA RunsAre ==
    ASSUME NEW g \in Groups, NEW Good \in [Nat -> SUBSET Walks], Started(g) \in Good[0],
           \A n \in Nat : \A v \in Good[n] : Turn(v) \subseteq Good[n + 1]
    PROVE  /\ MaxTurns \in Nat /\ Runs(g) \subseteq Good[MaxTurns]
           /\ (\A n \in Nat : \A v \in Good[n] : Turn(v) # {}) => Runs(g) # {}
<1> DEFINE turns == [W \in SUBSET Walks |-> UNION {Turn(v) : v \in W}]
           start == {Started(g)}
           After(n) == Iterated(turns, start, n)
           goes == \A n \in Nat : \A v \in Good[n] : Turn(v) # {}
           N == {n \in Nat : After(n) \subseteq Good[n] /\ (goes => After(n) # {})}
<1>1. Runs(g) = After(MaxTurns)
  BY DEF Runs, Started
<1>2. start \subseteq Good[0] /\ start # {}
  OBVIOUS
<1>3. ASSUME NEW n \in Nat, NEW W, W \subseteq Good[n]
      PROVE  turns[W] \subseteq Good[n + 1] /\ (goes /\ W # {} => turns[W] # {})
  <2>1. W \in SUBSET Walks
    BY <1>3
  <2>2. turns[W] = UNION {Turn(v) : v \in W}
    BY <2>1
  <2> QED
    BY <1>3, <2>2
<1> HIDE DEF turns, start, goes
<1>4. /\ After(0) = start
      /\ \A n \in Nat : After(n + 1) = turns[After(n)]
  BY Iterates
<1> HIDE DEF After
<1>5. 0 \in N /\ N \in SUBSET Nat
  BY <1>2, <1>4
<1>6. ASSUME NEW n \in N
      PROVE  n + 1 \in N
  <2>1. n \in Nat /\ After(n) \subseteq Good[n] /\ (goes => After(n) # {})
    OBVIOUS
  <2>2. /\ turns[After(n)] \subseteq Good[n + 1]
        /\ goes /\ After(n) # {} => turns[After(n)] # {}
    BY <1>3, <2>1
  <2> QED
    BY <1>4, <2>1, <2>2
<1>7. N = Nat
  <2> HIDE DEF N
  <2> QED
    BY <1>5, <1>6, Counting
<1>8. MaxTurns \in Nat
  <2>1. IsFiniteSet(Groups)
    BY GraphAssumption, FS_Subset
  <2>2. Cardinality(Groups) \in Nat
    BY <2>1, FS_CardinalityType
  <2> QED
    BY <2>2 DEF MaxTurns
<1> QED
  BY <1>1, <1>7, <1>8 DEF goes

LEMMA RunsKeep ==
    ASSUME NamesDiffer, Plain(RoleUsers), NEW g \in Groups, NEW w \in Runs(g)
    PROVE  WalkInv(g, w)
<1> DEFINE good == {v \in Walks : WalkInv(g, v)}
           Good == [n \in Nat |-> good]
<1>1. Started(g) \in good
  <2> DEFINE v == Started(g)
  <2>1. v.queue = {g} /\ v.checked = {} /\ v \in Walks
    BY DEF Walks, Started
  <2> HIDE DEF v
  <2>2. WalkInv(g, v)
    BY <2>1 DEF WalkInv, Looked
  <2> QED
    BY <2>1, <2>2 DEF v
<1>2. ASSUME NEW v \in good, NEW t \in Turn(v)
      PROVE  t \in good
  <2>1. WalkInv(g, v)
    BY <1>2
  <2>2. CASE v.queue = {}
    BY <1>2, <2>2 DEF Turn
  <2>3. CASE v.queue # {}
    <3>1. PICK x \in v.queue : t \in Visit(v, x)
      BY <1>2, <2>3 DEF Turn
    <3>2. WalkInv(g, t)
      BY <2>1, <3>1, VisitKeeps
    <3> QED
      BY <3>2 DEF WalkInv
  <2> QED
    BY <2>2, <2>3
<1>3. good \subseteq Walks /\ \A v \in good : WalkInv(g, v)
  OBVIOUS
<1> HIDE DEF good
<1>4. Good \in [Nat -> SUBSET Walks] /\ Started(g) \in Good[0]
  BY <1>1, <1>3
<1>5. \A n \in Nat : \A v \in Good[n] : Turn(v) \subseteq Good[n + 1]
  BY <1>2
<1>6. MaxTurns \in Nat /\ Runs(g) \subseteq Good[MaxTurns]
  <2> HIDE DEF Good
  <2> QED
    BY <1>4, <1>5, RunsAre
<1> QED
  BY <1>3, <1>6

\* A run ends: each group that it looks into for the first time puts no more
\* than Cardinality(Groups) groups into the queue.
LEMMA LookedGrows ==
    ASSUME NEW q \in Nat, NEW r \in Nat, NEW a \in Nat, NEW b \in Nat, NEW c \in Nat,
           NEW n \in Nat, a + 1 <= b, r <= q - 1 + c, n + q <= 1 + c * a
    PROVE  n + 1 + r <= 1 + c * b
<1>1. PICK d \in Nat : b = a + 1 + d
  <2>1. b - (a + 1) \in Nat /\ b = a + 1 + (b - (a + 1))
    OBVIOUS
  <2> QED
    BY <2>1
<1>2. c * b = c * a + c + c * d /\ c * d \in Nat /\ c * a \in Nat
  BY <1>1
<1> QED
  BY <1>2

LEMMA RunsEnd ==
    ASSUME NEW g \in Groups, NEW w \in Runs(g)
    PROVE  w.queue = {}
<1> DEFINE L(v) == {x \in Groups : Looked(v, x)}
           c == Cardinality(Groups)
           Bound(n, v) == n + Cardinality(v.queue) <= 1 + c * Cardinality(L(v))
           Good == [n \in Nat |-> {v \in Walks : v.queue = {} \/ Bound(n, v)}]
<1>1. \A S \in SUBSET Groups : /\ IsFiniteSet(S) /\ Cardinality(S) \in Nat
                               /\ Cardinality(S) <= c
  <2>1. IsFiniteSet(Groups)
    BY GraphAssumption, FS_Subset
  <2> QED
    BY <2>1, FS_Subset, FS_CardinalityType
<1>2. c \in Nat /\ \A v : L(v) \in SUBSET Groups
  BY <1>1
<1>3. Started(g) \in Good[0]
  <2> DEFINE v == Started(g)
  <2>1. v.queue = {g} /\ v \in Walks
    BY DEF Walks, Started
  <2> HIDE DEF v, L
  <2>2. Cardinality(L(v)) \in Nat
    BY <1>1, <1>2
  <2>3. c * Cardinality(L(v)) \in Nat
    BY <1>2, <2>2
  <2>4. Cardinality(v.queue) = 1
    BY <2>1, FS_Singleton
  <2>5. Bound(0, v)
    BY <2>3, <2>4
  <2> QED
    BY <2>1, <2>5 DEF v
<1>4. ASSUME NEW n \in Nat, NEW v \in Good[n], NEW t \in Turn(v)
      PROVE  t \in Good[n + 1]
  <2>1. v \in Walks /\ (v.queue = {} \/ Bound(n, v))
    OBVIOUS
  <2>2. CASE v.queue = {}
    <3>1. t = v
      BY <2>2, <1>4 DEF Turn
    <3> QED
      BY <2>1, <2>2, <3>1
  <2>3. CASE v.queue # {}
    <3>1. PICK x \in v.queue : t \in Visit(v, x)
      BY <1>4, <2>3 DEF Turn
    <3> DEFINE others == v.queue \ {x}
               now == v.checked \union {NameOf[x]}
               users == Unchecked(x, now)
    <3>2. /\ x \in Groups /\ v.queue \subseteq Groups
          /\ v.checked \subseteq {NameOf[m] : m \in Members}
          /\ v = [queue |-> v.queue, checked |-> v.checked]
      BY <2>1, <3>1 DEF Walks
    <3>3. /\ Cardinality(others) = Cardinality(v.queue) - 1 /\ Cardinality(others) \in Nat
          /\ Cardinality(v.queue) \in Nat /\ IsFiniteSet(others)
      BY <1>1, <3>1, <3>2, FS_RemoveElement
    <3>4. Cardinality(L(v)) \in Nat /\ Bound(n, v)
      BY <1>1, <1>2, <2>1, <2>3
    <3>5. CASE NameOf[x] \in v.checked
      <4>1. t = [v EXCEPT !.queue = others]
        BY <3>1, <3>5 DEF Visit
      <4>2. t.queue = others /\ t.checked = v.checked /\ t \in Walks
        BY <3>2, <4>1 DEF Walks
      <4>3. L(t) = L(v)
        BY <4>2 DEF Looked
      <4> HIDE DEF L
      <4>4. c * Cardinality(L(v)) \in Nat
        BY <1>2, <3>4
      <4>5. Bound(n + 1, t)
        BY <3>3, <3>4, <4>2, <4>3, <4>4
      <4> HIDE DEF Bound
      <4> QED
        BY <4>2, <4>5
    <3>6. CASE NameOf[x] \notin v.checked
      <4> DEFINE after == [queue |-> others \union DirectSubgroups(x),
                           checked |-> now \union {NameOf[u] : u \in users}]
      <4>1. t = after
        BY <3>1, <3>6 DEF Visit
      <4>2. /\ t.queue = others \union DirectSubgroups(x)
            /\ t.checked = now \union {NameOf[u] : u \in users}
        BY <4>1
      <4>3. t \in Walks
        <5>1. DirectSubgroups(x) \subseteq Groups /\ users \subseteq Users
          BY DEF DirectSubgroups, Unchecked, Controllers
        <5> HIDE DEF users
        <5>2. t.queue \subseteq Groups /\ t.checked \subseteq {NameOf[m] : m \in Members}
          BY <3>2, <4>2, <5>1 DEF Members
        <5> QED
          BY <4>1, <4>2, <5>2 DEF Walks
      <4>4. L(v) \union {x} \subseteq L(t) /\ x \notin L(v)
        BY <3>2, <3>6, <4>2 DEF Looked
      <4> HIDE DEF L, after, users, now
      <4>5. Cardinality(L(v)) + 1 <= Cardinality(L(t)) /\ Cardinality(L(t)) \in Nat
        <5>1. IsFiniteSet(L(v)) /\ IsFiniteSet(L(t)) /\ Cardinality(L(t)) \in Nat
          BY <1>1, <1>2
        <5>2. Cardinality(L(v) \union {x}) = Cardinality(L(v)) + 1
          BY <4>4, <5>1, OneMore
        <5>3. Cardinality(L(v) \union {x}) <= Cardinality(L(t))
          BY <4>4, <5>1, FS_Subset
        <5> QED
          BY <5>1, <5>2, <5>3
      <4>6. /\ Cardinality(t.queue) <= Cardinality(v.queue) - 1 + c
            /\ Cardinality(t.queue) \in Nat
        <5> DEFINE D == DirectSubgroups(x)
        <5>1. D \in SUBSET Groups /\ others \cap D \in SUBSET Groups
          BY DEF DirectSubgroups
        <5>2. /\ IsFiniteSet(D) /\ Cardinality(D) \in Nat /\ Cardinality(D) <= c
              /\ Cardinality(others \cap D) \in Nat
          BY <1>1, <5>1
        <5> HIDE DEF D
        <5>3. Cardinality(others \union D)
                 = Cardinality(others) + Cardinality(D) - Cardinality(others \cap D)
          BY <3>3, <5>2, FS_Union
        <5>4. t.queue = others \union D /\ Cardinality(t.queue) \in Nat
          BY <1>1, <3>2, <4>2, <4>3, <5>1 DEF D, Walks
        <5> QED
          BY <1>2, <3>3, <5>2, <5>3, <5>4
      <4>7. Bound(n + 1, t)
        BY <1>2, <3>3, <3>4, <4>5, <4>6, LookedGrows
      <4> HIDE DEF Bound
      <4> QED
        BY <4>3, <4>7
    <3> QED
      BY <3>5, <3>6
  <2> QED
    BY <2>2, <2>3
<1>5. Good \in [Nat -> SUBSET Walks]
  OBVIOUS
<1>6. MaxTurns \in Nat /\ w \in Good[MaxTurns]
  <2> HIDE DEF Good
  <2> QED
    BY <1>3, <1>4, <1>5, RunsAre
<1>7. w \in Walks /\ (w.queue = {} \/ Bound(MaxTurns, w))
  BY <1>6
<1>8. ASSUME w.queue # {}
      PROVE  FALSE
  <2>1. w.queue \in SUBSET Groups
    BY <1>7 DEF Walks
  <2>2. /\ Cardinality(w.queue) \in Nat /\ Cardinality(w.queue) # 0
        /\ Cardinality(L(w)) \in Nat /\ Cardinality(L(w)) <= c
    BY <1>1, <1>2, <1>8, <2>1, FS_EmptySet
  <2>3. Bound(MaxTurns, w) /\ MaxTurns = 1 + c * c
    BY <1>7, <1>8 DEF MaxTurns
  <2> HIDE DEF L
  <2>4. PICK d \in Nat : c = Cardinality(L(w)) + d
    <3>1. c - Cardinality(L(w)) \in Nat /\ c = Cardinality(L(w)) + (c - Cardinality(L(w)))
      BY <1>2, <2>2
    <3> QED
      BY <3>1
  <2>5. c * c = c * Cardinality(L(w)) + c * d /\ c * d \in Nat /\ c * Cardinality(L(w)) \in Nat
    <3> HIDE DEF c
    <3> DEFINE l == Cardinality(L(w))
    <3>1. l \in Nat /\ c \in Nat /\ c = l + d
      BY <1>2, <2>2, <2>4
    <3> HIDE DEF l
    <3>2. c * c = c * l + c * d /\ c * d \in Nat /\ c * l \in Nat
      BY <3>1
    <3> QED
      BY <3>2 DEF l
  <2> QED
    BY <2>2, <2>3, <2>5
<1> QED
  BY <1>8

\* Whoever is accepted has auditors in control of all that lies below.
LEMMA AcceptedIsCovered ==
    ASSUME NamesDiffer, Plain(RoleUsers), NEW g \in Groups, AssertControllersAreAuditors(g)
    PROVE  \A u \in ControllersBelow(g) : UserIsAuditor(u)
<1>1. PICK w \in Runs(g) : w.queue = {}
  BY DEF AssertControllersAreAuditors
<1>2. WalkInv(g, w)
  BY RunsKeep
<1> DEFINE C == {x \in Groups : Looked(w, x)}
<1>3. g \in C /\ g \in Members
  BY <1>1, <1>2 DEF WalkInv, Members
<1>4. Closed(C \union Users, DownArcs)
  <2>1. ASSUME NEW x \in C \union Users, NEW m \in Members, <<x, m>> \in DownArcs
        PROVE  m \in C \union Users
    <3>1. x \in Groups /\ Looked(w, x) /\ Arc(x, m)
      BY <2>1, GraphAssumption DEF DownArcs
    <3>2. CASE m \in Groups
      <4>1. m \in DirectSubgroups(x)
        BY <3>1, <3>2 DEF DirectSubgroups
      <4> QED
        BY <1>1, <1>2, <3>1, <3>2, <4>1 DEF WalkInv
    <3> QED
      BY <3>2 DEF Members
  <2> HIDE DEF C
  <2> QED
    BY <2>1 DEF Closed
<1>5. Found(g, DownArcs) \subseteq C \union Users
  <2> HIDE DEF C
  <2> QED
    BY <1>3, <1>4, FoundIsLeast
<1>6. {g} \union Subgroups(g) \subseteq C
  BY <1>3, <1>5, GraphAssumption DEF Subgroups
<1>7. \A x \in C : \A u \in Controllers(x) : UserIsAuditor(u)
  BY <1>2 DEF WalkInv
<1> QED
  BY <1>6, <1>7 DEF ControllersBelow

\* Whoever has auditors in control of all that lies below is accepted: no run
\* raises, and all of them end.
LEMMA CoveredIsAccepted ==
    ASSUME NEW g \in Groups, \A u \in ControllersBelow(g) : UserIsAuditor(u)
    PROVE  AssertControllersAreAuditors(g)
<1> DEFINE below == {g} \union Subgroups(g)
           good == {v \in Walks : v.queue \subseteq below}
           Good == [n \in Nat |-> good]
<1>1. below \subseteq Groups /\ below \subseteq Found(g, DownArcs)
  BY FoundCloses DEF Subgroups, Members
<1>2. \A x \in below : DirectSubgroups(x) \subseteq below
  <2>1. ASSUME NEW x \in below, NEW y \in DirectSubgroups(x)
        PROVE  y \in below
    <3>1. g \in Members /\ x \in Members /\ y \in Groups /\ y \in Members /\ Arc(x, y)
      BY <1>1, <2>1 DEF Members, DirectSubgroups
    <3>2. <<x, y>> \in DownArcs /\ x \in Found(g, DownArcs)
      BY <1>1, <2>1, <3>1 DEF DownArcs
    <3>3. y \in Found(g, DownArcs)
      BY <3>1, <3>2, FoundCloses DEF Closed
    <3> QED
      BY <3>1, <3>3 DEF Subgroups
  <2> QED
    BY <2>1
<1>3. \A x \in below : \A u \in Controllers(x) : UserIsAuditor(u)
  BY DEF ControllersBelow
<1>4. Started(g) \in good
  <2> DEFINE v == Started(g)
  <2>1. v.queue = {g} /\ v \in Walks
    BY DEF Walks, Started
  <2> HIDE DEF v
  <2> QED
    BY <2>1 DEF v
<1> HIDE DEF below
<1>5. ASSUME NEW v \in good, v.queue # {}, NEW x \in v.queue
      PROVE  /\ Visit(v, x) # {}
             /\ \A t \in Visit(v, x) : t \in good
  <2> DEFINE others == v.queue \ {x}
             now == v.checked \union {NameOf[x]}
             users == Unchecked(x, now)
             after == [queue |-> others \union DirectSubgroups(x),
                       checked |-> now \union {NameOf[u] : u \in users}]
  <2>1. /\ x \in below /\ v.queue \subseteq below /\ x \in Groups
        /\ v.queue \subseteq Groups /\ v.checked \subseteq {NameOf[m] : m \in Members}
        /\ v = [queue |-> v.queue, checked |-> v.checked]
    BY <1>1, <1>5 DEF Walks
  <2>2. \A u \in users : UserIsAuditor(u)
    BY <1>3, <2>1 DEF Unchecked
  <2>3. CASE NameOf[x] \in v.checked
    <3>1. Visit(v, x) = {[v EXCEPT !.queue = others]}
      BY <2>3 DEF Visit
    <3>2. [v EXCEPT !.queue = others] \in good
      BY <2>1 DEF Walks
    <3> QED
      BY <3>1, <3>2
  <2>4. CASE NameOf[x] \notin v.checked
    <3>1. Visit(v, x) = {after}
      BY <2>2, <2>4 DEF Visit
    <3>2. users \subseteq Users /\ DirectSubgroups(x) \subseteq below
      BY <1>2, <2>1 DEF Unchecked, Controllers
    <3> HIDE DEF users
    <3>3. /\ after.queue \subseteq below /\ after.queue \subseteq Groups
          /\ after.checked \subseteq {NameOf[m] : m \in Members}
      BY <1>1, <2>1, <3>2 DEF Members
    <3>4. after \in good
      BY <3>3 DEF Walks
    <3> QED
      BY <3>1, <3>4
  <2> QED
    BY <2>3, <2>4
<1>6. ASSUME NEW v \in good
      PROVE  Turn(v) # {} /\ Turn(v) \subseteq good
  <2>1. CASE v.queue = {}
    BY <2>1, <1>6 DEF Turn
  <2>2. CASE v.queue # {}
    <3>1. Turn(v) = UNION {Visit(v, x) : x \in v.queue}
      BY <2>2 DEF Turn
    <3> HIDE DEF good
    <3> QED
      BY <1>5, <2>2, <3>1
  <2> QED
    BY <2>1, <2>2
<1>7. good \subseteq Walks
  OBVIOUS
<1> HIDE DEF good
<1>8. /\ Good \in [Nat -> SUBSET Walks] /\ Started(g) \in Good[0]
      /\ \A n \in Nat : \A v \in Good[n] : Turn(v) # {} /\ Turn(v) \subseteq Good[n + 1]
  BY <1>4, <1>6, <1>7
<1>9. Runs(g) # {}
  <2> HIDE DEF Good
  <2> QED
    BY <1>8, RunsAre
<1> QED
  BY <1>9, RunsEnd DEF AssertControllersAreAuditors

LEMMA RoleUsersArePlain ==
    ASSUME PlainRoleUsers
    PROVE  Spec => []Plain(RoleUsers)
<1>1. RoleUsers \in SUBSET Members /\ PlainEdges(RoleUsers)
  BY GraphAssumption DEF Members, PlainRoleUsers
<1>2. Init => TypeOK /\ Plain(RoleUsers)
  BY <1>1, InitPlain
<1>3. TypeOK /\ Plain(RoleUsers) /\ [Next]_db => (TypeOK /\ Plain(RoleUsers))'
  BY <1>1, NextPlain
<1> QED
  BY <1>2, <1>3, PTL DEF Spec

\* Where no role user controls a group: whatever order the groups below are
\* walked in, with cycles and with users met several times,
\* assert_controllers_are_auditors accepts a group if and only if everybody who
\* controls it or a group below is an auditor.
THEOREM WalkCovers ==
    ASSUME NamesDiffer, PlainRoleUsers
    PROVE  Spec => []AssertCoversSubgroups
<1>1. Plain(RoleUsers) => AssertCoversSubgroups
  BY AcceptedIsCovered, CoveredIsAccepted DEF AssertCoversSubgroups
<1> QED
  BY <1>1, RoleUsersArePlain, PTL

-----------------------------------------------------------------------------
(* Changes of memberships.                                                 *)

\* A step that adds memberships and inheritance and takes none away.
MoreArcs ==
    /\ \A a \in Groups, b \in Members : /\ Arc(a, b) => Arc(a, b)'
                                        /\ GrantArc(a, b) => GrantArc(a, b)'
    /\ UNCHANGED <<enabled, grants, audited>>

\* It makes nobody less of an auditor.
LEMMA AuditorsStay ==
    ASSUME MoreArcs, NEW u \in Users, UserIsAuditor(u)
    PROVE  UserIsAuditor(u)'
<1>1. PICK x \in UserGrants(u) : x[2] = Auditor
  BY DEF UserIsAuditor
<1>2. \A y : GrantsOf(y)' = GrantsOf(y)
  BY DEF MoreArcs, GrantsOf
<1>3. CASE u \in Services
  <2>1. UserGrants(u)' = UserGrants(u)
    BY <1>2, <1>3 DEF UserGrants
  <2> QED
    BY <1>1, <2>1 DEF UserIsAuditor
<1>4. CASE u \notin Services
  <2>1. UserGrants(u) = {y \in InheritedGroups(u) \X Permissions : y[2] \in GrantsOf(y[1])}
    BY <1>4 DEF UserGrants
  <2>2. UserGrants(u)' =
           {y \in InheritedGroups(u)' \X Permissions : y[2] \in GrantsOf(y[1])'}
    BY <1>4 DEF UserGrants
  <2>3. InheritedGroups(u) \subseteq InheritedGroups(u)'
    <3>1. \A a, b \in Members : <<a, b>> \in UpArcs => <<a, b>> \in UpArcs'
      BY DEF MoreArcs, UpArcs
    <3>2. \A g \in Groups : Found(g, UpArcs) \subseteq Found(g, UpArcs')
      BY <3>1, FoundMonotone DEF Members
    <3>3. \A g \in Groups : GrantArc(g, u) => GrantArc(g, u)'
      BY DEF MoreArcs, Members
    <3>4. InheritedGroups(u) = UNION {Found(g, UpArcs) : g \in {y \in Groups : GrantArc(y, u)}}
      BY DEF InheritedGroups
    <3>5. InheritedGroups(u)' =
             UNION {Found(g, UpArcs') : g \in {y \in Groups : GrantArc(y, u)'}}
      BY DEF InheritedGroups
    <3> QED
      BY <3>2, <3>3, <3>4, <3>5
  <2>4. x \in UserGrants(u)'
    BY <1>1, <1>2, <2>1, <2>2, <2>3
  <2> QED
    BY <1>1, <2>4 DEF UserIsAuditor
<1> QED
  BY <1>3, <1>4

\* Where one group g comes below another, m, the groups that become audited by
\* it lie below m; where a user joins there are none.
LEMMA AuditedGrowsBelow ==
    ASSUME UNCHANGED <<enabled, grants, audited>>, NEW g \in Groups, NEW m,
           \A a, b \in Groups : Arc(a, b)' => Arc(a, b) \/ (a = g /\ b = m),
           NEW a \in AuditedGroups'
    PROVE  \/ a \in AuditedGroups
           \/ g \in AuditedGroups /\ m \in Groups \cap enabled /\ a \in Found(m, DownArcs)
<1>1. DirectlyAudited' = DirectlyAudited
  BY DEF DirectlyAudited, GrantsOf
<1>2. AuditedGroups' = UNION {Found(h, DownArcs') \cap Groups : h \in DirectlyAudited'}
  BY DEF AuditedGroups
<1>3. PICK h \in DirectlyAudited : a \in Found(h, DownArcs') /\ a \in Groups
  BY <1>1, <1>2
<1>4. h \in Groups /\ h \in Members /\ Found(h, DownArcs) \cap Groups \subseteq AuditedGroups
  BY DEF DirectlyAudited, AuditedGroups, Members
<1> DEFINE F == Found(h, DownArcs)
           M == Found(m, DownArcs)
           B == {x \in M : g \in F /\ m \in Groups \cap enabled}
           S == F \union Users \union B
<1>5. h \in F /\ Closed(F, DownArcs)
  BY <1>4, FoundCloses
<1>6. m \in Groups => m \in M /\ Closed(M, DownArcs)
  BY FoundCloses DEF Members
<1> HIDE DEF F, M
<1>7. Closed(S, DownArcs')
  <2>1. ASSUME NEW x \in S, NEW y \in Members, <<x, y>> \in DownArcs'
        PROVE  y \in S
    <3>1. x \in Groups /\ x \notin Users /\ Arc(x, y)'
      BY <2>1, GraphAssumption DEF DownArcs
    <3>2. CASE y \in Users
      BY <3>2
    <3>3. CASE y \in Groups /\ Arc(x, y)
      <4>1. <<x, y>> \in DownArcs
        BY <3>1, <3>3 DEF DownArcs, Members
      <4> QED
        BY <1>5, <1>6, <2>1, <3>1, <4>1 DEF Closed
    <3>4. CASE y \in Groups /\ x = g /\ y = m
      <4>1. m \in Groups \cap enabled
        BY <3>1, <3>4 DEF Arc
      <4> QED
        BY <1>6, <2>1, <3>1, <3>4, <4>1
    <3> QED
      BY <3>1, <3>2, <3>3, <3>4 DEF Members
  <2> HIDE DEF S
  <2> QED
    BY <2>1 DEF Closed
<1>8. Found(h, DownArcs') \subseteq S
  <2>1. h \in S
    BY <1>5
  <2> HIDE DEF S
  <2> QED
    BY <1>4, <1>7, <2>1, FoundIsLeast
<1>9. a \in F \/ a \in B
  BY <1>3, <1>8, GraphAssumption
<1> QED
  BY <1>3, <1>4, <1>9 DEF F, M

\* A change of one membership that assert_can_join has let through.
LEMMA LetThrough ==
    ASSUME NamesDiffer, Plain(RoleUsers), GraphInv,
           NEW g \in Groups \cap enabled, NEW m \in Members,
           NEW role \in {"member", "manager", "owner"},
           AssertCanJoin(g, m, role), PolicyHolds(Users),
           edges' = [edges EXCEPT ![g][m] = role], UNCHANGED <<enabled, grants, audited>>
    PROVE  PolicyHolds(Users)'
<1>1. \A a \in Groups, b \in Members :
         edges'[a][b] = IF a = g /\ b = m THEN role ELSE edges[a][b]
  BY DEF GraphInv, TypeOK
<1>2. \A a, b : Arc(a, b)' <=> a \in enabled /\ b \in enabled /\ edges'[a][b] # "none"
  BY DEF Arc
<1>3. MoreArcs
  <2>1. \A a, b : GrantArc(a, b)' <=> Arc(a, b)' /\ edges'[a][b] # "np-owner"
    BY DEF GrantArc
  <2> QED
    BY <1>1, <1>2, <2>1 DEF MoreArcs, Arc, GrantArc
<1>4. ASSUME NEW a \in AuditedGroups'
      PROVE  \/ a \in AuditedGroups
             \/ g \in AuditedGroups /\ m \in Groups \cap enabled /\ a \in Found(m, DownArcs)
  <2>1. \A b, c \in Groups : Arc(b, c)' => Arc(b, c) \/ (b = g /\ c = m)
    BY <1>1, <1>2 DEF Arc, Members
  <2> QED
    BY <1>4, <2>1, AuditedGrowsBelow
<1>5. AuditedGroups' \subseteq Groups
  BY DEF AuditedGroups
<1>6. g \in AuditedGroups => GroupAudited(g)
  BY AuditedAre
<1>7. ASSUME NEW u \in Users, NEW a \in AuditedGroups',
             Arc(a, u)', edges'[a][u] \in ApproverRoles
      PROVE  UserIsAuditor(u)'
  <2>0. a \in Groups /\ u \in Members
    BY <1>5 DEF Members
  <2>1. CASE a = g /\ u = m
    <3>1. m \in Users /\ m \notin Groups /\ role # "member" /\ a \in AuditedGroups
      BY <1>1, <1>4, <1>7, <2>0, <2>1, GraphAssumption DEF ApproverRoles
    <3>2. UserIsAuditor(m)
      BY <1>6, <2>1, <3>1 DEF AssertCanJoin
    <3> QED
      BY <1>3, <2>1, <3>1, <3>2, AuditorsStay
  <2>2. CASE ~(a = g /\ u = m)
    <3>1. Arc(a, u) /\ edges[a][u] \in ApproverRoles
      BY <1>1, <1>2, <1>7, <2>0, <2>2 DEF Arc
    <3>2. CASE a \in AuditedGroups
      <4>1. UserIsAuditor(u)
        BY <3>1, <3>2 DEF PolicyHolds
      <4> QED
        BY <1>3, <4>1, AuditorsStay
    <3>3. CASE g \in AuditedGroups /\ m \in Groups \cap enabled /\ a \in Found(m, DownArcs)
      <4>1. AssertControllersAreAuditors(m)
        BY <1>6, <3>3, GraphAssumption DEF AssertCanJoin
      <4>2. a \in {m} \union Subgroups(m)
        BY <2>0, <3>3 DEF Subgroups
      <4>3. u \in Controllers(a)
        BY <3>1 DEF Controllers, ApproverRoles
      <4>4. UserIsAuditor(u)
        BY <3>3, <4>1, <4>2, <4>3, AcceptedIsCovered DEF ControllersBelow
      <4> QED
        BY <1>3, <4>4, AuditorsStay
    <3> QED
      BY <1>4, <1>7, <3>2, <3>3
  <2> QED
    BY <2>1, <2>2
<1> QED
  BY <1>7 DEF PolicyHolds

\* Where no role user controls a group: no join and no new role but np-owner
\* that assert_can_join lets through breaks the policy, in whatever graph,
\* however deep the group below is.
THEOREM JoinsKeep ==
    ASSUME NamesDiffer, PlainRoleUsers
    PROVE  Spec => JoinsKeepPolicy
<1>1. ASSUME GraphInv, Plain(RoleUsers), NEW e \in PossibleEdges, e[3] # "np-owner",
             Join(e[1], e[2], e[3]) \/ EditMember(e[1], e[2], e[3]), PolicyHolds(Users)
      PROVE  PolicyHolds(Users)'
  <2>1. e[1] \in Groups /\ e[2] \in Members /\ e[3] \in {"member", "manager", "owner"}
    BY <1>1, PolicyAssumption DEF Roles
  <2>2. /\ e[1] \in enabled /\ AssertCanJoin(e[1], e[2], e[3])
        /\ edges' = [edges EXCEPT ![e[1]][e[2]] = e[3]]
        /\ UNCHANGED <<enabled, grants, audited>>
    BY <1>1 DEF Join, EditMember
  <2> QED
    BY <1>1, <2>1, <2>2, LetThrough
<1>2. GraphInv /\ Plain(RoleUsers) =>
         \A e \in PossibleEdges :
            /\ e[3] # "np-owner"
            /\ Join(e[1], e[2], e[3]) \/ EditMember(e[1], e[2], e[3])
            /\ PolicyHolds(Users)
            => PolicyHolds(Users)'
  BY <1>1
<1> QED
  BY <1>2, GraphInvariance, RoleUsersArePlain, PTL DEF JoinsKeepPolicy

\* One pass of promote_nonauditors makes the policy hold for all accounts but
\* service accounts.
THEOREM PromotionRestores == Spec => PromotionRestoresPolicy
<1>1. ASSUME GraphInv, PromoteNonauditors, AuditorsGroup \in enabled
      PROVE  PolicyHolds(Users \ Services)'
  <2> DEFINE G == AuditorsGroup
  <2>1. /\ \A a \in Groups, b \in Members :
              edges'[a][b] = IF a = G /\ b \in NonauditorApprovers THEN "member"
                             ELSE edges[a][b]
        /\ UNCHANGED <<enabled, grants, audited>>
        /\ <<G, Auditor>> \in grants /\ G \in Groups
    BY <1>1, PolicyAssumption DEF PromoteNonauditors, GraphInv, TypeOK
  <2> HIDE DEF G
  <2>2. \A a, b : /\ Arc(a, b)' <=> a \in enabled /\ b \in enabled /\ edges'[a][b] # "none"
                  /\ GrantArc(a, b)' <=> Arc(a, b)' /\ edges'[a][b] # "np-owner"
    BY <2>1 DEF Arc, GrantArc
  <2>3. MoreArcs
    BY <2>1, <2>2 DEF MoreArcs, Arc, GrantArc
  <2>4. NonauditorApprovers \subseteq Users
    BY DEF NonauditorApprovers
  <2>5. AuditedGroups' \subseteq AuditedGroups
    <3>1. \A b, c \in Groups : Arc(b, c)' => Arc(b, c)
      BY <2>1, <2>2, <2>4, GraphAssumption DEF Arc, Members
    <3>2. \A a \in AuditedGroups' : a \in AuditedGroups
      BY <2>1, <3>1, GraphAssumption, AuditedGrowsBelow
    <3> QED
      BY <3>2
  <2>6. ASSUME NEW u \in Users \ Services, NEW a \in AuditedGroups',
               Arc(a, u)', edges'[a][u] \in ApproverRoles
        PROVE  UserIsAuditor(u)'
    <3>0. a \in AuditedGroups /\ a \in Groups /\ u \in Members
      BY <2>5 DEF AuditedGroups, Members
    <3>1. CASE u \in NonauditorApprovers
      <4>1. u \in enabled
        BY <3>1 DEF NonauditorApprovers, Arc
      <4>2. GrantArc(G, u)'
        BY <1>1, <2>1, <2>2, <3>0, <3>1, <4>1 DEF G
      <4>3. G \in Found(G, UpArcs')
        BY <2>1, FoundCloses DEF Members
      <4>4. InheritedGroups(u)' =
               UNION {Found(g, UpArcs') : g \in {y \in Groups : GrantArc(y, u)'}}
        BY DEF InheritedGroups
      <4>5. G \in InheritedGroups(u)'
        BY <2>1, <4>2, <4>3, <4>4
      <4>6. Auditor \in GrantsOf(G)' /\ Auditor \in Permissions
        BY <1>1, <2>1, GraphAssumption DEF GrantsOf, G
      <4>7. UserGrants(u)' =
               {x \in InheritedGroups(u)' \X Permissions : x[2] \in GrantsOf(x[1])'}
        BY DEF UserGrants
      <4>8. <<G, Auditor>> \in UserGrants(u)' /\ <<G, Auditor>>[2] = Auditor
        BY <4>5, <4>6, <4>7
      <4> QED
        BY <4>8 DEF UserIsAuditor
    <3>2. CASE u \notin NonauditorApprovers
      <4>1. Arc(a, u) /\ edges[a][u] \in ApproverRoles
        BY <2>1, <2>2, <2>6, <3>0, <3>2 DEF Arc
      <4>2. UserIsAuditor(u)
        BY <3>0, <3>2, <4>1 DEF NonauditorApprovers
      <4> QED
        BY <2>3, <4>2, AuditorsStay
    <3> QED
      BY <3>1, <3>2
  <2> QED
    BY <2>6 DEF PolicyHolds
<1>2. GraphInv => (PromoteNonauditors /\ AuditorsGroup \in enabled
                      => PolicyHolds(Users \ Services)')
  BY <1>1
<1> QED
  BY <1>2, GraphInvariance, PTL DEF PromotionRestoresPolicy

=============================================================================
