-------------------------- MODULE MallocSizeProofs --------------------------
(***************************************************************************)
(* Measuring a structure, for every structure and any number of threads:     *)
(* only a std Mutex around something that cannot be measured is poisoned,    *)
(* a sum misses nothing that the walk passes, and a walk that nobody         *)
(* disturbs counts each block once.                                          *)
(***************************************************************************)
EXTENDS MallocSize, FiniteSetTheorems, WellFoundedInduction, SequenceTheorems, TLAPS

Values == [ty : DOMAIN Types, cap : Nat, kids : Seq(Nodes)]
Frames == [node : Nodes, release : BOOLEAN]

\* Writing does not change what a value is, nor adds parts it never had; only
\* an Option and a Vec can be empty for a time.
Shape ==
    /\ born \in Heaps /\ heap \in [Nodes -> Values]
    /\ \A n \in Nodes :
        /\ heap[n].ty = born[n].ty
        /\ heap[n].kids = born[n].kids \/ (heap[n].kids = <<>> /\ Con(n) \in {"Option", "Vec"})

\* The locks that a recursion has still to release.
Guards(s) == {s[i].node : i \in {j \in DOMAIN s : s[j].release}}

\* Whatever comes before the release of a lock is strictly below that lock.
NestedIn(n, s) == \A j \in DOMAIN s : s[j].release => n \in Below[s[j].node] \ {s[j].node}
Nested(s) ==
    \A i, j \in DOMAIN s : i < j /\ s[j].release => s[i].node \in Below[s[j].node] \ {s[j].node}

Walks ==
    /\ pc \in [Walkers -> {"idle", "walking", "done", "panicked"}]
    /\ todo \in [Walkers -> Seq(Frames)]
    /\ start \in [Walkers -> Nodes]
    /\ \A w \in Walkers : /\ Nested(todo[w])
                          /\ pc[w] # "walking" => todo[w] = <<>>

\* A walk holds exclusively only mutexes, and their guards are on its stack.
GuardsOnStack ==
    /\ writer \in [Nodes -> Free]
    /\ \A l \in Nodes : \A w \in Walkers :
           writer[l] = w => Con(l) \in Mutexes /\ l \in Guards(todo[w])

MallocInv ==
    /\ Shape /\ Walks /\ GuardsOnStack
    /\ poisoned \subseteq Nodes /\ PoisonComesFromBelow

-----------------------------------------------------------------------------
(* What is below a value.                                                    *)

\* A set of values that has the parts of its values, and the least such set
\* around n.
Closed(S) == \A a \in S : Range(born[a].kids) \subseteq S
Closure(n) == {m \in Nodes : \A S \in SUBSET Nodes : n \in S /\ Closed(S) => m \in S}

\* The parts of a value are values that come after it.
LEMMA PartsComeAfter ==
    ASSUME born \in Heaps, NEW n \in Nodes
    PROVE  \A k \in Range(born[n].kids) : k \in Nodes /\ n < k
  <1>1. born[n].kids \in Seq(Nodes)
    BY MallocAssumption
  <1> QED BY <1>1, MallocAssumption DEF Range

\* The closure satisfies the recursion of Below.
LEMMA ClosureUnfolds ==
    ASSUME born \in Heaps, NEW n \in Nodes
    PROVE  Closure(n) = {n} \union UNION {Closure(k) : k \in Range(born[n].kids)}
  <1> DEFINE D == {n} \union UNION {Closure(k) : k \in Range(born[n].kids)}
  <1>0. \A m \in Nodes : Range(born[m].kids) \subseteq Nodes
    BY PartsComeAfter
  <1>1. D \subseteq Closure(n)
    <2>1. n \in Closure(n)
      BY DEF Closure
    <2>2. ASSUME NEW k \in Range(born[n].kids), NEW m \in Closure(k) PROVE m \in Closure(n)
      BY <2>2 DEF Closure, Closed
    <2> QED BY <2>1, <2>2
  <1>2. Closed(D) /\ D \in SUBSET Nodes
    <2>1. D \in SUBSET Nodes
      BY DEF Closure
    <2>2. Range(born[n].kids) \subseteq D
      BY <1>0 DEF Closure
    <2>3. ASSUME NEW k \in Range(born[n].kids), NEW a \in Closure(k)
          PROVE  Range(born[a].kids) \subseteq Closure(k)
      <3>1. a \in Nodes /\ Range(born[a].kids) \subseteq Nodes
        BY <1>0 DEF Closure
      <3>2. ASSUME NEW b \in Range(born[a].kids), NEW S \in SUBSET Nodes, k \in S, Closed(S)
            PROVE  b \in S
        BY <3>2 DEF Closure, Closed
      <3> QED BY <3>1, <3>2 DEF Closure
    <2> QED BY <2>1, <2>2, <2>3 DEF Closed
  <1>3. Closure(n) \subseteq D
    BY <1>2 DEF Closure
  <1> QED BY <1>1, <1>3

\* So the recursion has a solution.
LEMMA BelowUnfolds ==
    ASSUME born \in Heaps
    PROVE  Below = [n \in Nodes |-> {n} \union UNION {Below[k] : k \in Range(born[n].kids)}]
  <1> DEFINE C == [n \in Nodes |-> Closure(n)]
  <1>1. C = [n \in Nodes |-> {n} \union UNION {C[k] : k \in Range(born[n].kids)}]
    <2>1. ASSUME NEW n \in Nodes
          PROVE  C[n] = {n} \union UNION {C[k] : k \in Range(born[n].kids)}
      <3>1. \A k \in Range(born[n].kids) : C[k] = Closure(k)
        BY PartsComeAfter
      <3>2. {C[k] : k \in Range(born[n].kids)} = {Closure(k) : k \in Range(born[n].kids)}
        BY <3>1
      <3>3. C[n] = Closure(n)
        OBVIOUS
      <3> HIDE DEF C
      <3> QED BY <3>2, <3>3, ClosureUnfolds
    <2> QED BY <2>1
  <1> HIDE DEF C
  <1> QED BY <1>1 DEF Below

\* A set of numbers has a least one, ...
LEMMA LeastOf ==
    ASSUME NEW T, T \subseteq Nat, T # {} PROVE \E x \in T : \A y \in T : x \leq y
  <1> DEFINE R == OpToRel(<, Nat)
  <1>1. \A x, y \in Nat : <<y, x>> \in R <=> y < x
    BY DEF OpToRel
  <1>2. IsWellFoundedOn(R, Nat)
    BY NatLessThanWellFounded
  <1> HIDE DEF R
  <1>3. \E x \in T : \A y \in T : ~(<<y, x>> \in R)
    BY <1>2, WFMin
  <1>4. PICK x \in T : \A y \in T : ~(<<y, x>> \in R)
    BY <1>3
  <1>5. ASSUME NEW y \in T PROVE x \leq y
    <2>1. x \in Nat /\ y \in Nat /\ ~(<<y, x>> \in R)
      BY <1>4
    <2>2. ~(y < x)
      BY <1>1, <2>1
    <2> QED BY <2>1, <2>2
  <1> QED BY <1>5

\* ... and a set of values one that comes last.
LEMMA LastOf ==
    ASSUME NEW T, T \subseteq Nodes, T # {} PROVE \E x \in T : \A y \in T : y \leq x
  <1> DEFINE HasLast(S) == \E x \in S : \A y \in S : y \leq x
             Without == {S \in SUBSET Nodes : S # {} /\ ~HasLast(S)}
  <1>1. \A S \in SUBSET Nodes : IsFiniteSet(S) /\ Cardinality(S) \in Nat
    BY MallocAssumption, FS_Subset, FS_CardinalityType
  <1>2. SUFFICES Without = {}
    OBVIOUS
  <1>3. SUFFICES ASSUME Without # {} PROVE FALSE
    OBVIOUS
  <1>4. PICK S \in Without : \A Q \in Without : Cardinality(S) \leq Cardinality(Q)
    <2> DEFINE K == {Cardinality(Q) : Q \in Without}
    <2>1. K \subseteq Nat /\ K # {}
      BY <1>1, <1>3
    <2> HIDE DEF K
    <2>2. PICK k \in K : \A j \in K : k \leq j
      BY <2>1, LeastOf
    <2> QED BY <2>2 DEF K
  <1>5. PICK s \in S : TRUE
    OBVIOUS
  <1>6. Cardinality(S \ {s}) = Cardinality(S) - 1 /\ Cardinality(S) \in Nat
    BY <1>1, <1>5, FS_RemoveElement
  <1>7. S \ {s} \notin Without
    <2> HIDE DEF Without
    <2> SUFFICES ASSUME S \ {s} \in Without PROVE FALSE
      OBVIOUS
    <2>1. Cardinality(S) \leq Cardinality(S \ {s})
      BY <1>4
    <2> QED BY <2>1, <1>6
  <1>8. \A x \in S : x \in Nat
    BY MallocAssumption
  <1>9. CASE S \ {s} = {}
    BY <1>5, <1>8, <1>9
  <1>10. CASE S \ {s} # {}
    <2>1. PICK x \in S \ {s} : \A y \in S \ {s} : y \leq x
      BY <1>7, <1>10
    <2>2. CASE s \leq x
      <3>1. \A y \in S : y \leq x
        BY <2>1, <2>2
      <3> QED BY <3>1, <2>1
    <2>3. CASE ~(s \leq x)
      <3>1. \A y \in S : y \leq s
        BY <2>1, <2>3, <1>5, <1>8
      <3> QED BY <3>1, <1>5
    <2> QED BY <2>2, <2>3
  <1> QED BY <1>9, <1>10

\* The recursion goes to later values, so its solution is the closure.
LEMMA BelowIsClosure ==
    ASSUME born \in Heaps PROVE \A n \in Nodes : Below[n] = Closure(n)
  <1> DEFINE Bad == {n \in Nodes : Below[n] # Closure(n)}
  <1> SUFFICES ASSUME Bad # {} PROVE FALSE
    OBVIOUS
  <1>1. PICK n \in Bad : \A m \in Bad : m \leq n
    BY LastOf
  <1>2. ASSUME NEW k \in Range(born[n].kids) PROVE Below[k] = Closure(k)
    <2>1. n \in Nodes /\ k \in Nodes /\ n < k
      BY PartsComeAfter
    <2>2. n \in Nat /\ k \in Nat
      BY <2>1, MallocAssumption
    <2>3. ~(k \leq n)
      BY <2>1, <2>2
    <2>4. k \notin Bad
      BY <1>1, <2>3
    <2> QED BY <2>1, <2>4
  <1>3. {Below[k] : k \in Range(born[n].kids)} = {Closure(k) : k \in Range(born[n].kids)}
    BY <1>2
  <1>4. Below[n] = {n} \union UNION {Below[k] : k \in Range(born[n].kids)}
    BY BelowUnfolds
  <1>5. Below[n] = Closure(n)
    BY <1>3, <1>4, ClosureUnfolds
  <1> QED BY <1>5

\* What is below a value is no earlier, and what is below that is below the
\* value too.
LEMMA BelowIsOrdered ==
    ASSUME born \in Heaps, NEW n \in Nodes
    PROVE  /\ \A m \in Below[n] : m \in Nodes /\ n \leq m /\ Below[m] \subseteq Below[n]
           /\ n \in Below[n]
           /\ Range(born[n].kids) \subseteq Below[n] \ {n}
  <1>1. \A m \in Nodes : Below[m] = Closure(m)
    BY BelowIsClosure
  <1>2. n \in Closure(n)
    BY DEF Closure
  <1>3. ASSUME NEW m \in Closure(n) PROVE m \in Nodes /\ n \leq m /\ Closure(m) \subseteq Closure(n)
    <2>1. m \in Nodes
      BY DEF Closure
    <2> DEFINE later == {a \in Nodes : n \leq a}
    <2>2. Closed(later)
      <3>1. ASSUME NEW a \in later, NEW k \in Range(born[a].kids) PROVE k \in later
        <4>1. k \in Nodes /\ a < k
          BY PartsComeAfter
        <4>2. n \in Nat /\ a \in Nat /\ k \in Nat /\ n \leq a
          BY <4>1, MallocAssumption
        <4> QED BY <4>1, <4>2
      <3> QED BY <3>1 DEF Closed
    <2>3. n \in later
      BY MallocAssumption
    <2>4. m \in later
      BY <2>2, <2>3 DEF Closure
    <2>5. Closure(m) \subseteq Closure(n)
      BY DEF Closure
    <2> QED BY <2>1, <2>4, <2>5
  <1>4. ASSUME NEW k \in Range(born[n].kids) PROVE k \in Closure(n) /\ k # n
    <2>1. k \in Nodes /\ n < k
      BY PartsComeAfter
    <2>2. k \in Closure(k) /\ k # n
      BY <2>1, MallocAssumption DEF Closure
    <2> QED BY <2>2, ClosureUnfolds
  <1> QED BY <1>1, <1>2, <1>3, <1>4

\* Strictly below is transitive.
LEMMA StrictlyBelow ==
    ASSUME born \in Heaps, NEW l \in Nodes, NEW n \in Below[l] \ {l}
    PROVE  n \in Nodes /\ Below[n] \subseteq Below[l] \ {l}
  <1>1. n \in Nodes /\ l \leq n /\ Below[n] \subseteq Below[l]
    BY BelowIsOrdered
  <1>2. \A m \in Below[n] : m \in Nodes /\ n \leq m
    BY <1>1, BelowIsOrdered
  <1>3. l \notin Below[n]
    <2> SUFFICES ASSUME l \in Below[n] PROVE FALSE
      OBVIOUS
    <2>1. l \leq n /\ n \leq l /\ l \in Nat /\ n \in Nat /\ n # l
      BY <1>1, <1>2, MallocAssumption
    <2> QED BY <2>1
  <1> QED BY <1>1, <1>3

-----------------------------------------------------------------------------
(* The stack of a walk.                                                      *)

\* The frames of a stack with visits pushed on it.
LEMMA Pushed ==
    ASSUME NEW ks \in Seq(Nodes), NEW s \in Seq(Frames)
    PROVE  /\ Visits(ks) \in Seq(Frames) /\ Visits(ks) \o s \in Seq(Frames)
           /\ Len(Visits(ks) \o s) = Len(ks) + Len(s)
           /\ \A i \in 1..Len(ks) : (Visits(ks) \o s)[i] = Visit(ks[i])
           /\ \A i \in 1..Len(s) : (Visits(ks) \o s)[Len(ks) + i] = s[i]
  <1>1. Visits(ks) \in Seq(Frames) /\ Len(Visits(ks)) = Len(ks)
        /\ \A i \in 1..Len(ks) : Visits(ks)[i] = Visit(ks[i])
    <2>1. Len(ks) \in Nat /\ DOMAIN ks = 1..Len(ks) /\ \A i \in DOMAIN ks : ks[i] \in Nodes
      OBVIOUS
    <2>2. \A n \in Nodes : Visit(n) \in Frames
      BY DEF Visit, Frames
    <2>3. Visits(ks) = [i \in 1..Len(ks) |-> Visit(ks[i])]
      BY <2>1 DEF Visits
    <2>4. \A i \in 1..Len(ks) : Visit(ks[i]) \in Frames
      BY <2>1, <2>2
    <2>5. Visits(ks) \in [1..Len(ks) -> Frames]
      BY <2>3, <2>4
    <2> QED BY <2>1, <2>3, <2>5
  <1> DEFINE v == Visits(ks)
  <1>2. v \in Seq(Frames) /\ Len(v) = Len(ks) /\ \A i \in 1..Len(ks) : v[i] = Visit(ks[i])
    BY <1>1
  <1> HIDE DEF v
  <1>3. v \o s \in Seq(Frames) /\ Len(v \o s) = Len(v) + Len(s)
    BY <1>2
  <1>4. \A i \in 1..Len(v) : (v \o s)[i] = v[i]
    BY <1>2
  <1>5. ASSUME NEW i \in 1..Len(s) PROVE (v \o s)[Len(v) + i] = s[i]
    BY <1>2
  <1>6. Len(v) = Len(ks)
    BY <1>2
  <1> QED BY <1>2, <1>3, <1>4, <1>5, <1>6 DEF v

\* Pushing visits of values that are nested in what is on the stack.
LEMMA PushVisits ==
    ASSUME NEW ks \in Seq(Nodes), NEW s \in Seq(Frames), Nested(s),
           \A k \in Range(ks) : NestedIn(k, s)
    PROVE  Nested(Visits(ks) \o s) /\ Guards(Visits(ks) \o s) = Guards(s)
  <1> DEFINE q == Visits(ks) \o s
  <1>1. /\ q \in Seq(Frames) /\ Len(q) = Len(ks) + Len(s)
        /\ \A i \in 1..Len(ks) : q[i] = Visit(ks[i])
        /\ \A i \in 1..Len(s) : q[Len(ks) + i] = s[i]
    BY Pushed
  <1> HIDE DEF q
  <1>2. /\ Len(ks) \in Nat /\ Len(s) \in Nat /\ Len(q) \in Nat
        /\ DOMAIN q = 1..Len(q) /\ DOMAIN s = 1..Len(s) /\ DOMAIN ks = 1..Len(ks)
    BY <1>1
  <1>3. ASSUME NEW j \in DOMAIN q, q[j].release
        PROVE  j > Len(ks) /\ j - Len(ks) \in DOMAIN s /\ q[j] = s[j - Len(ks)]
    <2>1. ~(j \in 1..Len(ks))
      <3> SUFFICES ASSUME j \in 1..Len(ks) PROVE FALSE
        OBVIOUS
      <3>1. q[j] = Visit(ks[j])
        BY <1>1
      <3>2. ~Visit(ks[j]).release
        BY DEF Visit
      <3> QED BY <1>3, <3>1, <3>2
    <2>2. j \in Nat /\ j > Len(ks) /\ j - Len(ks) \in 1..Len(s)
      BY <1>1, <1>2, <2>1
    <2>3. q[Len(ks) + (j - Len(ks))] = s[j - Len(ks)]
      BY <1>1, <2>2
    <2>4. Len(ks) + (j - Len(ks)) = j
      BY <1>2, <2>2
    <2> QED BY <1>2, <2>2, <2>3, <2>4
  <1>4. Nested(q)
    <2> SUFFICES ASSUME NEW i \in DOMAIN q, NEW j \in DOMAIN q, i < j, q[j].release
                 PROVE  q[i].node \in Below[q[j].node] \ {q[j].node}
      BY DEF Nested
    <2>1. j > Len(ks) /\ j - Len(ks) \in DOMAIN s /\ q[j] = s[j - Len(ks)]
      BY <1>3
    <2>2. CASE i \in 1..Len(ks)
      <3>1. q[i] = Visit(ks[i]) /\ Visit(ks[i]).node = ks[i]
        BY <1>1, <2>2 DEF Visit
      <3>2. ks[i] \in Range(ks)
        BY <1>2, <2>2 DEF Range
      <3> QED BY <2>1, <3>1, <3>2 DEF NestedIn
    <2>3. CASE ~(i \in 1..Len(ks))
      <3>1. i \in Nat /\ j \in Nat /\ i - Len(ks) \in 1..Len(s) /\ i - Len(ks) < j - Len(ks)
        BY <1>1, <1>2, <2>3
      <3>2. q[Len(ks) + (i - Len(ks))] = s[i - Len(ks)]
        BY <1>1, <3>1
      <3>4. Len(ks) + (i - Len(ks)) = i
        BY <1>2, <3>1
      <3>3. s[i - Len(ks)].node \in Below[s[j - Len(ks)].node] \ {s[j - Len(ks)].node}
        BY <1>2, <2>1, <3>1 DEF Nested
      <3> QED BY <2>1, <3>2, <3>3, <3>4
    <2> QED BY <2>2, <2>3
  <1>5. Guards(q) = Guards(s)
    <2>1. Guards(q) \subseteq Guards(s)
      BY <1>3 DEF Guards
    <2>2. ASSUME NEW i \in DOMAIN s, s[i].release PROVE s[i].node \in Guards(q)
      <3>1. Len(ks) + i \in DOMAIN q /\ q[Len(ks) + i] = s[i]
        BY <1>1, <1>2
      <3> QED BY <2>2, <3>1 DEF Guards
    <2> QED BY <2>1, <2>2 DEF Guards
  <1> QED BY <1>4, <1>5 DEF q

\* Popping a frame.
LEMMA Popped ==
    ASSUME NEW s \in Seq(Frames), s # <<>>, Nested(s)
    PROVE  /\ Tail(s) \in Seq(Frames) /\ Nested(Tail(s))
           /\ Guards(Tail(s)) \subseteq Guards(s)
           /\ Guards(s) \subseteq Guards(Tail(s)) \union {Head(s).node}
           /\ ~Head(s).release => Guards(s) = Guards(Tail(s))
           /\ NestedIn(Head(s).node, Tail(s))
  <1>1. /\ Tail(s) \in Seq(Frames) /\ Len(s) \in Nat \ {0} /\ Len(Tail(s)) = Len(s) - 1
        /\ DOMAIN s = 1..Len(s) /\ DOMAIN Tail(s) = 1..(Len(s) - 1)
        /\ \A i \in DOMAIN Tail(s) : Tail(s)[i] = s[i + 1]
        /\ Head(s) = s[1]
    OBVIOUS
  <1>2. \A i \in DOMAIN Tail(s) : i + 1 \in DOMAIN s /\ 1 < i + 1
    BY <1>1
  <1>3. \A i, j \in DOMAIN Tail(s) : i < j => i + 1 < j + 1
    BY <1>1
  <1>4. 1 \in DOMAIN s /\ \A i \in DOMAIN s : i # 1 => i - 1 \in DOMAIN Tail(s) /\ s[i] = Tail(s)[i - 1]
    <2>1. 1 \in DOMAIN s
      BY <1>1
    <2>2. ASSUME NEW i \in DOMAIN s, i # 1 PROVE i - 1 \in DOMAIN Tail(s) /\ s[i] = Tail(s)[i - 1]
      <3>1. i \in Nat /\ i - 1 \in DOMAIN Tail(s) /\ (i - 1) + 1 = i
        BY <1>1, <2>2
      <3> QED BY <1>1, <3>1
    <2> QED BY <2>1, <2>2
  <1>5. Nested(Tail(s))
    BY <1>1, <1>2, <1>3 DEF Nested
  <1>6. NestedIn(Head(s).node, Tail(s))
    BY <1>1, <1>2, <1>4 DEF Nested, NestedIn
  <1>7. Guards(Tail(s)) \subseteq Guards(s)
    BY <1>1, <1>2 DEF Guards
  <1>8. \A i \in DOMAIN s : s[i].release => (i = 1 /\ Head(s).release) \/ s[i].node \in Guards(Tail(s))
    BY <1>1, <1>4 DEF Guards
  <1>9. Guards(s) \subseteq Guards(Tail(s)) \union {Head(s).node}
    BY <1>1, <1>8 DEF Guards
  <1>10. ~Head(s).release => Guards(s) \subseteq Guards(Tail(s))
    BY <1>8 DEF Guards
  <1> QED BY <1>1, <1>5, <1>6, <1>7, <1>9, <1>10

\* What is nested in a stack, its parts are too.
LEMMA DeeperNested ==
    ASSUME born \in Heaps, NEW s \in Seq(Frames), NEW n, NestedIn(n, s), NEW k \in Below[n]
    PROVE  NestedIn(k, s)
  <1> SUFFICES ASSUME NEW j \in DOMAIN s, s[j].release PROVE k \in Below[s[j].node] \ {s[j].node}
    BY DEF NestedIn
  <1>1. s[j] \in Frames
    OBVIOUS
  <1>2. s[j].node \in Nodes /\ n \in Below[s[j].node] \ {s[j].node}
    BY <1>1 DEF Frames, NestedIn
  <1> QED BY <1>2, StrictlyBelow

\* The visit of a lock becomes its release.
LEMMA LockPushed ==
    ASSUME born \in Heaps, NEW s \in Seq(Frames), s # <<>>, Nested(s), ~Head(s).release
    PROVE  LET q == <<Release(Head(s).node)>> \o Tail(s)
           IN  /\ q \in Seq(Frames) /\ Nested(q)
               /\ Guards(s) \subseteq Guards(q) /\ Head(s).node \in Guards(q)
               /\ \A k \in Below[Head(s).node] \ {Head(s).node} : NestedIn(k, q)
  <1> DEFINE q == <<Release(Head(s).node)>> \o Tail(s)
  <1>1. /\ Head(s) \in Frames /\ Head(s) = s[1] /\ Len(s) \in Nat \ {0} /\ DOMAIN s = 1..Len(s)
        /\ Tail(s) \in Seq(Frames) /\ Len(Tail(s)) = Len(s) - 1
        /\ \A i \in 1..(Len(s) - 1) : Tail(s)[i] = s[i + 1]
    OBVIOUS
  <1>2. <<Release(Head(s).node)>> \in Seq(Frames)
    BY <1>1 DEF Release, Frames
  <1>3. q \in Seq(Frames) /\ Len(q) = Len(s) /\ DOMAIN q = 1..Len(s)
    BY <1>1, <1>2
  <1>4. q[1] = Release(Head(s).node)
    BY <1>1, <1>2
  <1>5. ASSUME NEW i \in DOMAIN s, i # 1 PROVE q[i] = s[i]
    <2>1. i \in Nat /\ i > 1 /\ i - 1 \in 1..(Len(s) - 1) /\ (i - 1) + 1 = i
      BY <1>1, <1>5
    <2>2. q[i] = Tail(s)[i - 1]
      BY <1>1, <1>2, <2>1
    <2> QED BY <1>1, <2>1, <2>2
  <1>6. \A i \in DOMAIN s : q[i].node = s[i].node
    BY <1>1, <1>4, <1>5 DEF Release
  <1> HIDE DEF q
  <1>7. ASSUME NEW i \in DOMAIN q, NEW j \in DOMAIN q, i < j, q[j].release
        PROVE  q[i].node \in Below[q[j].node] \ {q[j].node}
    <2>1. j # 1
      BY <1>3, <1>7
    <2>2. q[j] = s[j] /\ q[i].node = s[i].node
      BY <1>1, <1>3, <1>5, <1>6, <2>1
    <2> QED BY <1>1, <1>3, <1>7, <2>2 DEF Nested
  <1>8. ASSUME NEW k \in Below[Head(s).node] \ {Head(s).node} PROVE NestedIn(k, q)
    <2>1. NestedIn(k, Tail(s))
      BY <1>1, Popped, DeeperNested
    <2> SUFFICES ASSUME NEW j \in DOMAIN q, q[j].release PROVE k \in Below[q[j].node] \ {q[j].node}
      BY DEF NestedIn
    <2>2. CASE j = 1
      BY <1>4, <2>2 DEF Release
    <2>3. CASE j # 1
      <3>1. j \in Nat /\ j - 1 \in 1..(Len(s) - 1) /\ (j - 1) + 1 = j
        BY <1>1, <1>3, <2>3
      <3>2. q[j] = Tail(s)[j - 1] /\ j - 1 \in DOMAIN Tail(s)
        BY <1>1, <1>3, <1>5, <2>3, <3>1
      <3> QED BY <2>1, <3>2 DEF NestedIn
    <2> QED BY <2>2, <2>3
  <1>9. Guards(s) \subseteq Guards(q)
    BY <1>1, <1>3, <1>5 DEF Guards
  <1>10. Head(s).node \in Guards(q)
    BY <1>1, <1>3, <1>4 DEF Guards, Release
  <1>11. Nested(q)
    BY <1>7 DEF Nested
  <1> QED BY <1>3, <1>8, <1>9, <1>10, <1>11 DEF q

-----------------------------------------------------------------------------
(* The steps.                                                                *)

\* What a value is, and what was below it, never changes.
LEMMA ShapeStays ==
    ASSUME Shape, UNCHANGED <<heap, born>>
    PROVE  Shape' /\ Below' = Below /\ \A n \in Nodes : Con(n)' = Con(n)
  <1>1. Below' = Below
    BY DEF Below
  <1>2. Shape' /\ \A n \in Nodes : Con(n)' = Con(n)
    BY DEF Shape, Con
  <1> QED BY <1>1, <1>2

\* The parts that a value has now it had in the beginning.
LEMMA PartsAreBelow ==
    ASSUME Shape, NEW n \in Nodes
    PROVE  heap[n].kids \in Seq(Nodes) /\ Range(heap[n].kids) \subseteq Below[n] \ {n}
  <1>1. heap[n].kids \in Seq(Nodes)
    BY DEF Shape, Values
  <1>2. heap[n].kids = <<>> \/ heap[n].kids = born[n].kids
    BY DEF Shape
  <1>3. Range(<<>>) = {}
    BY DEF Range
  <1>4. Range(born[n].kids) \subseteq Below[n] \ {n}
    BY BelowIsOrdered DEF Shape
  <1> QED BY <1>1, <1>2, <1>3, <1>4

\* What a walk does next.
LEMMA OnTop ==
    ASSUME Walks, NEW w \in Walkers, todo[w] # <<>>
    PROVE  /\ todo[w] \in Seq(Frames) /\ Nested(todo[w])
           /\ Next1(w) = Head(todo[w]) /\ Next1(w).node \in Nodes
  <1>1. todo[w] \in Seq(Frames) /\ Nested(todo[w])
    BY DEF Walks
  <1>2. Head(todo[w]) \in Frames
    BY <1>1
  <1> QED BY <1>1, <1>2 DEF Next1, Frames

\* One walk changes its stack.
LEMMA WalksStep ==
    ASSUME Walks, Below' = Below, NEW w \in Walkers, NEW q \in Seq(Frames), Nested(q),
           NEW p \in {"idle", "walking", "done", "panicked"}, p # "walking" => q = <<>>,
           todo' = [todo EXCEPT ![w] = q], pc' = [pc EXCEPT ![w] = p], UNCHANGED start
    PROVE  Walks'
  <1>1. todo' \in [Walkers -> Seq(Frames)] /\ pc' \in [Walkers -> {"idle", "walking", "done", "panicked"}]
    BY DEF Walks
  <1>2. ASSUME NEW v \in Walkers PROVE Nested(todo[v])' /\ (pc'[v] # "walking" => todo'[v] = <<>>)
    <2>1. CASE v = w
      <3>1. todo'[v] = q /\ pc'[v] = p
        BY <2>1 DEF Walks
      <3> QED BY <3>1 DEF Nested
    <2>2. CASE v # w
      <3>1. todo'[v] = todo[v] /\ pc'[v] = pc[v]
        BY <2>2 DEF Walks
      <3>2. Nested(todo[v]) /\ (pc[v] # "walking" => todo[v] = <<>>)
        BY DEF Walks
      <3> QED BY <3>1, <3>2 DEF Nested
    <2> QED BY <2>1, <2>2
  <1> QED BY <1>1, <1>2 DEF Walks

\* No poison is added or lost, nor its source.
LEMMA PoisonStays ==
    ASSUME PoisonComesFromBelow, poisoned \subseteq Nodes, Shape, Below' = Below,
           \A n \in Nodes : Con(n)' = Con(n), UNCHANGED <<poisoned, broken>>
    PROVE  PoisonComesFromBelow' /\ poisoned' \subseteq Nodes
  <1> SUFFICES ASSUME NEW l \in poisoned \ broken
               PROVE  /\ Con(l) = "StdMutex"
                      /\ \E b \in Below[l] \ {l} : b \in broken \/ Con(b)' = "CondArc"
    BY DEF PoisonComesFromBelow
  <1>1. l \in Nodes /\ Con(l) = "StdMutex"
    BY DEF PoisonComesFromBelow
  <1>2. PICK b \in Below[l] \ {l} : b \in broken \/ Con(b) = "CondArc"
    BY DEF PoisonComesFromBelow
  <1>3. b \in Nodes
    BY <1>1, BelowIsOrdered DEF Shape
  <1> QED BY <1>1, <1>2, <1>3

\* A value is visited that is no lock.
LEMMA AddsKeepsInv ==
    ASSUME MallocInv, NEW w \in Walkers, pc[w] = "walking", todo[w] # <<>>, ~Next1(w).release,
           NEW own, NEW ks \in {<<>>, heap[Next1(w).node].kids}, Adds(w, own, ks)
    PROVE  MallocInv'
  <1> DEFINE s == todo[w]
             n == Next1(w).node
             q == Visits(ks) \o Tail(s)
  <1>1. s \in Seq(Frames) /\ s # <<>> /\ Nested(s) /\ ~Head(s).release
        /\ n = Head(s).node /\ n \in Nodes
    BY OnTop DEF MallocInv
  <1>2. ks \in Seq(Nodes) /\ Range(ks) \subseteq Below[n] \ {n}
    <2>1. <<>> \in Seq(Nodes) /\ Range(<<>>) = {}
      BY DEF Range
    <2> QED BY <1>1, <2>1, PartsAreBelow DEF MallocInv
  <1>3. /\ todo' = [todo EXCEPT ![w] = q]
        /\ UNCHANGED <<heap, born, pc, start, writer, poisoned, broken>>
    BY DEF Adds, Rest, locks
  <1> HIDE DEF s, n, q
  <1>4. Shape' /\ Below' = Below /\ \A m \in Nodes : Con(m)' = Con(m)
    BY <1>3, ShapeStays DEF MallocInv
  <1>5. /\ Tail(s) \in Seq(Frames) /\ Nested(Tail(s)) /\ Guards(Tail(s)) = Guards(s)
        /\ NestedIn(n, Tail(s))
    BY <1>1, Popped
  <1>6. \A k \in Range(ks) : NestedIn(k, Tail(s))
    <2>1. born \in Heaps /\ \A k \in Range(ks) : k \in Below[n]
      BY <1>2 DEF MallocInv, Shape
    <2> QED BY <1>5, <2>1, DeeperNested
  <1>7. q \in Seq(Frames) /\ Nested(q) /\ Guards(q) = Guards(s)
    BY <1>2, <1>5, <1>6, PushVisits, Pushed DEF q
  <1>8. Walks'
    <2>1. pc' = [pc EXCEPT ![w] = "walking"]
      BY <1>3 DEF MallocInv, Walks
    <2> QED BY <1>3, <1>4, <1>7, <2>1, WalksStep DEF MallocInv
  <1>9. GuardsOnStack'
    <2>1. \A v \in Walkers : Guards(todo'[v]) = Guards(todo[v])
      BY <1>3, <1>7 DEF MallocInv, Walks, s
    <2>2. \A l \in Nodes : \A v \in Walkers :
              writer'[l] = v => Con(l)' \in Mutexes /\ l \in Guards(todo'[v])
      BY <1>3, <1>4, <2>1 DEF MallocInv, GuardsOnStack
    <2> QED BY <1>3, <2>2 DEF MallocInv, GuardsOnStack, Guards
  <1>10. PoisonComesFromBelow' /\ poisoned' \subseteq Nodes
    BY <1>3, <1>4, PoisonStays DEF MallocInv
  <1> QED BY <1>4, <1>8, <1>9, <1>10 DEF MallocInv

LEMMA FramesAssociate == \A a, b, c \in Seq(Frames) : (a \o b) \o c = a \o (b \o c)
  <1> TAKE a, b, c \in Seq(Frames)
  <1> QED BY ONLY a \in Seq(Frames), b \in Seq(Frames), c \in Seq(Frames), ConcatAssociative

\* size_of takes a lock.
LEMMA AcquireKeepsInv ==
    ASSUME MallocInv, NEW w \in Walkers, pc[w] = "walking", todo[w] # <<>>,
           AcquireLock(w, Next1(w).node)
    PROVE  MallocInv'
  <1> DEFINE s == todo[w]
             n == Next1(w).node
             r == <<Release(n)>> \o Tail(s)
             q == Visits(heap[n].kids) \o r
  <1>1. s \in Seq(Frames) /\ s # <<>> /\ Nested(s) /\ ~Head(s).release
        /\ n = Head(s).node /\ n \in Nodes
    BY OnTop DEF MallocInv, AcquireLock, At
  <1>2. heap[n].kids \in Seq(Nodes) /\ Range(heap[n].kids) \subseteq Below[n] \ {n}
    BY <1>1, PartsAreBelow DEF MallocInv
  <1>3. /\ r \in Seq(Frames) /\ Nested(r) /\ Guards(s) \subseteq Guards(r) /\ n \in Guards(r)
        /\ \A k \in Below[n] \ {n} : NestedIn(k, r)
    BY <1>1, LockPushed DEF MallocInv, Shape
  <1>4. q \in Seq(Frames) /\ Nested(q) /\ Guards(s) \subseteq Guards(q) /\ n \in Guards(q)
    <2> HIDE DEF r, n
    <2>1. \A k \in Range(heap[n].kids) : NestedIn(k, r)
      BY <1>2, <1>3
    <2> QED BY <1>2, <1>3, <2>1, PushVisits, Pushed DEF q
  <1>5. /\ todo' = [todo EXCEPT ![w] = q]
        /\ UNCHANGED <<heap, born, pc, start, poisoned, broken>>
    <2>1. /\ todo' = [todo EXCEPT ![w] = Visits(heap[n].kids) \o <<Release(n)>> \o Tail(s)]
          /\ UNCHANGED <<heap, born, pc, start, poisoned, broken>>
      BY DEF AcquireLock, Rest
    <2>2. Visits(heap[n].kids) \in Seq(Frames) /\ <<Release(n)>> \in Seq(Frames) /\ Tail(s) \in Seq(Frames)
      <3>1. Visits(heap[n].kids) \in Seq(Frames)
        BY <1>2, <1>3, Pushed
      <3>2. Release(n) \in Frames
        BY <1>1 DEF Release, Frames
      <3> QED BY <1>1, <3>1, <3>2
    <2>3. Visits(heap[n].kids) \o <<Release(n)>> \o Tail(s) = q
      <3> HIDE DEF s, n
      <3> QED BY <2>2, FramesAssociate, Zenon DEF q, r
    <2> QED BY <2>1, <2>3
  <1>6. writer' \in [Nodes -> Free]
        /\ \A l \in Nodes : writer'[l] = writer[l] \/ (l = n /\ writer'[l] = w /\ Con(n) \in Mutexes)
    BY <1>1 DEF AcquireLock, MallocInv, GuardsOnStack, Free, Threads
  <1> HIDE DEF s, n, q, r
  <1>7. Shape' /\ Below' = Below /\ \A m \in Nodes : Con(m)' = Con(m)
    BY <1>5, ShapeStays DEF MallocInv
  <1>8. Walks'
    <2>1. pc' = [pc EXCEPT ![w] = "walking"]
      BY <1>5 DEF MallocInv, Walks
    <2> QED BY <1>4, <1>5, <1>7, <2>1, WalksStep DEF MallocInv
  <1>9. GuardsOnStack'
    <2>1. \A v \in Walkers : Guards(todo[v]) \subseteq Guards(todo'[v])
      BY <1>4, <1>5 DEF MallocInv, Walks, s
    <2>2. n \in Guards(todo'[w])
      BY <1>4, <1>5 DEF MallocInv, Walks
    <2>3. ASSUME NEW l \in Nodes, NEW v \in Walkers, writer'[l] = v
          PROVE  Con(l)' \in Mutexes /\ l \in Guards(todo'[v])
      BY <1>6, <1>7, <2>1, <2>2, <2>3 DEF MallocInv, GuardsOnStack
    <2> QED BY <1>6, <2>3 DEF GuardsOnStack, Guards
  <1>10. PoisonComesFromBelow' /\ poisoned' \subseteq Nodes
    BY <1>5, <1>7, PoisonStays DEF MallocInv
  <1> QED BY <1>7, <1>8, <1>9, <1>10 DEF MallocInv

\* A guard is dropped in the end of its size_of.
LEMMA ReleaseKeepsInv ==
    ASSUME MallocInv, NEW w \in Walkers, pc[w] = "walking", todo[w] # <<>>, ReleaseLock(w)
    PROVE  MallocInv'
  <1> DEFINE s == todo[w]
             n == Next1(w).node
  <1>1. s \in Seq(Frames) /\ s # <<>> /\ Nested(s) /\ n = Head(s).node
    BY OnTop DEF MallocInv
  <1>2. Tail(s) \in Seq(Frames) /\ Nested(Tail(s)) /\ Guards(s) \subseteq Guards(Tail(s)) \union {n}
    BY <1>1, Popped
  <1>3. /\ todo' = [todo EXCEPT ![w] = Tail(s)]
        /\ writer' = [writer EXCEPT ![n] = IF @ = w THEN None ELSE @]
        /\ UNCHANGED <<heap, born, pc, start, poisoned, broken>>
    BY DEF ReleaseLock, Rest
  <1>4. writer' \in [Nodes -> Free]
        /\ \A l \in Nodes : writer'[l] = None \/ (writer'[l] = writer[l] /\ ~(l = n /\ writer[l] = w))
    BY <1>3 DEF MallocInv, GuardsOnStack, Free
  <1> HIDE DEF s, n
  <1>5. Shape' /\ Below' = Below /\ \A m \in Nodes : Con(m)' = Con(m)
    BY <1>3, ShapeStays DEF MallocInv
  <1>6. Walks'
    <2>1. pc' = [pc EXCEPT ![w] = "walking"]
      BY <1>3 DEF MallocInv, Walks
    <2> QED BY <1>2, <1>3, <1>5, <2>1, WalksStep DEF MallocInv
  <1>7. GuardsOnStack'
    <2>1. \A v \in Walkers : v # w => todo'[v] = todo[v]
      BY <1>3 DEF MallocInv, Walks
    <2>2. todo'[w] = Tail(s)
      BY <1>3 DEF MallocInv, Walks
    <2>3. ASSUME NEW l \in Nodes, NEW v \in Walkers, writer'[l] = v
          PROVE  Con(l)' \in Mutexes /\ l \in Guards(todo'[v])
      <3>1. writer[l] = v /\ ~(l = n /\ v = w)
        BY <1>4, <2>3, MallocAssumption
      <3>2. Con(l) \in Mutexes /\ l \in Guards(todo[v])
        BY <3>1 DEF MallocInv, GuardsOnStack
      <3>3. CASE v = w
        BY <1>2, <1>5, <2>2, <3>1, <3>2, <3>3 DEF s
      <3>4. CASE v # w
        BY <1>5, <2>1, <3>2, <3>4
      <3> QED BY <3>3, <3>4
    <2> QED BY <1>4, <2>3 DEF GuardsOnStack, Guards
  <1>8. PoisonComesFromBelow' /\ poisoned' \subseteq Nodes
    BY <1>3, <1>5, PoisonStays DEF MallocInv
  <1> QED BY <1>5, <1>6, <1>7, <1>8 DEF MallocInv

\* A walk panics: the mutexes it holds are poisoned, and it holds them because
\* what it panics at is below them.
LEMMA UnwindKeepsInv ==
    ASSUME MallocInv, NEW w \in Walkers, pc[w] = "walking", todo[w] # <<>>,
           Unwind(w, Next1(w).node)
    PROVE  MallocInv'
  <1> DEFINE s == todo[w]
             n == Next1(w).node
             held == {l \in Nodes : writer[l] = w /\ Con(l) \in Poisonable}
  <1>1. s \in Seq(Frames) /\ s # <<>> /\ Nested(s) /\ ~Head(s).release
        /\ n = Head(s).node /\ n \in Nodes
    BY OnTop DEF MallocInv, Unwind, At
  <1>2. Guards(s) = Guards(Tail(s)) /\ Tail(s) \in Seq(Frames) /\ NestedIn(n, Tail(s))
    BY <1>1, Popped
  <1>3. /\ n \in poisoned \/ Con(n) = "CondArc"
        /\ poisoned' = poisoned \union held
        /\ writer' = [l \in Nodes |-> IF writer[l] = w THEN None ELSE writer[l]]
        /\ todo' = [todo EXCEPT ![w] = <<>>] /\ pc' = [pc EXCEPT ![w] = "panicked"]
        /\ UNCHANGED <<heap, born, start, broken>>
    BY DEF Unwind
  <1> HIDE DEF s, n, held
  <1>4. Shape' /\ Below' = Below /\ \A m \in Nodes : Con(m)' = Con(m)
    BY <1>3, ShapeStays DEF MallocInv
  <1>5. Walks'
    <2>1. <<>> \in Seq(Frames) /\ Nested(<<>>)
      BY DEF Nested
    <2> QED BY <1>3, <1>4, <2>1, WalksStep DEF MallocInv
  <1>6. GuardsOnStack'
    <2>1. writer' \in [Nodes -> Free]
      BY <1>3 DEF MallocInv, GuardsOnStack, Free
    <2>2. ASSUME NEW l \in Nodes, NEW v \in Walkers, writer'[l] = v
          PROVE  Con(l)' \in Mutexes /\ l \in Guards(todo'[v])
      <3>1. writer[l] = v /\ v # w
        BY <1>3, <2>2, MallocAssumption
      <3>2. todo'[v] = todo[v]
        BY <1>3, <3>1 DEF MallocInv, Walks
      <3> QED BY <1>4, <3>1, <3>2 DEF MallocInv, GuardsOnStack
    <2> QED BY <2>1, <2>2 DEF GuardsOnStack, Guards
  <1>7. ASSUME NEW l \in held
        PROVE  /\ l \in Nodes /\ Con(l) = "StdMutex"
               /\ \E b \in Below[l] \ {l} : b \in broken \/ Con(b) = "CondArc"
    <2>1. l \in Nodes /\ Con(l) \in Mutexes \intersect Poisonable /\ l \in Guards(Tail(s))
      BY <1>2 DEF held, s, MallocInv, GuardsOnStack
    <2>2. Con(l) = "StdMutex"
      BY <2>1 DEF Mutexes, Poisonable
    <2>3. n \in Below[l] \ {l}
      BY <1>2, <2>1 DEF Guards, NestedIn
    <2>4. Below[n] \subseteq Below[l] \ {l}
      BY <2>1, <2>3, StrictlyBelow DEF MallocInv, Shape
    <2>5. CASE n \in broken \/ Con(n) = "CondArc"
      BY <2>1, <2>2, <2>3, <2>5
    <2>6. CASE n \in poisoned \ broken
      <3>1. PICK b \in Below[n] \ {n} : b \in broken \/ Con(b) = "CondArc"
        BY <2>6 DEF MallocInv, PoisonComesFromBelow
      <3> QED BY <2>1, <2>2, <2>4, <3>1
    <2> QED BY <1>3, <2>5, <2>6
  <1>8. PoisonComesFromBelow' /\ poisoned' \subseteq Nodes
    <2>1. ASSUME NEW l \in poisoned' \ broken
          PROVE  /\ l \in Nodes /\ Con(l) = "StdMutex"
                 /\ \E b \in Below[l] \ {l} : b \in broken \/ Con(b) = "CondArc"
      BY <1>3, <1>7 DEF MallocInv, PoisonComesFromBelow
    <2>2. ASSUME NEW l \in poisoned' \ broken
          PROVE  /\ Con(l)' = "StdMutex"
                 /\ \E b \in Below[l] \ {l} : b \in broken \/ Con(b)' = "CondArc"
      <3>1. PICK b \in Below[l] \ {l} : b \in broken \/ Con(b) = "CondArc"
        BY <2>1
      <3>2. l \in Nodes /\ b \in Nodes
        BY <2>1, BelowIsOrdered DEF MallocInv, Shape
      <3> QED BY <1>4, <2>1, <3>1, <3>2
    <2>3. poisoned' \subseteq Nodes
      BY <1>3 DEF MallocInv, held
    <2> QED BY <1>3, <1>4, <2>2, <2>3 DEF PoisonComesFromBelow
  <1> QED BY <1>4, <1>5, <1>6, <1>8 DEF MallocInv

\* A walk begins, or is done.
LEMMA BeginAndEndKeepInv ==
    ASSUME MallocInv, NEW w \in Walkers, MallocSizeOf(w) \/ Finish(w)
    PROVE  MallocInv'
  <1>1. /\ UNCHANGED <<heap, born, start, writer, poisoned, broken>>
        /\ todo[w] = <<>>
        /\ \/ pc' = [pc EXCEPT ![w] = "walking"] /\ todo' = [todo EXCEPT ![w] = <<Visit(start[w])>>]
           \/ pc' = [pc EXCEPT ![w] = "done"] /\ todo' = [todo EXCEPT ![w] = <<>>]
    <2>1. CASE MallocSizeOf(w)
      BY <2>1 DEF MallocSizeOf, MallocInv, Walks, locks
    <2>2. CASE Finish(w)
      BY <2>2 DEF Finish, MallocInv, Walks, locks
    <2> QED BY <2>1, <2>2
  <1>2. Shape' /\ Below' = Below /\ \A m \in Nodes : Con(m)' = Con(m)
    BY <1>1, ShapeStays DEF MallocInv
  <1>3. Walks'
    <2>1. Visit(start[w]) \in Frames /\ ~Visit(start[w]).release
      BY DEF MallocInv, Walks, Visit, Frames
    <2>2. <<Visit(start[w])>> \in Seq(Frames) /\ Nested(<<Visit(start[w])>>)
      BY <2>1 DEF Nested
    <2>3. <<>> \in Seq(Frames) /\ Nested(<<>>)
      BY DEF Nested
    <2> QED BY <1>1, <1>2, <2>2, <2>3, WalksStep DEF MallocInv
  <1>4. GuardsOnStack'
    <2>1. \A l \in Nodes : writer[l] # w
      BY <1>1 DEF MallocInv, GuardsOnStack, Guards
    <2>2. \A v \in Walkers : v # w => todo'[v] = todo[v]
      BY <1>1 DEF MallocInv, Walks
    <2>3. \A l \in Nodes : \A v \in Walkers :
              writer'[l] = v => Con(l)' \in Mutexes /\ l \in Guards(todo'[v])
      BY <1>1, <1>2, <2>1, <2>2 DEF MallocInv, GuardsOnStack
    <2> QED BY <1>1, <2>3 DEF MallocInv, GuardsOnStack, Guards
  <1>5. PoisonComesFromBelow' /\ poisoned' \subseteq Nodes
    BY <1>1, <1>2, PoisonStays DEF MallocInv
  <1> QED BY <1>2, <1>3, <1>4, <1>5 DEF MallocInv

LEMMA StepKeepsInv ==
    ASSUME MallocInv, NEW w \in Walkers, Step(w)
    PROVE  MallocInv'
  <1>1. CASE Finish(w)
    BY <1>1, BeginAndEndKeepInv
  <1> SUFFICES ASSUME pc[w] = "walking", todo[w] # <<>>, ~Finish(w) PROVE MallocInv'
    BY <1>1 DEF Step
  <1> DEFINE n == Next1(w).node
  <1>2. CASE ReleaseLock(w)
    BY <1>2, ReleaseKeepsInv
  <1>3. CASE AcquireLock(w, n)
    BY <1>3, AcquireKeepsInv
  <1>4. CASE Unwind(w, n)
    BY <1>4, UnwindKeepsInv
  <1>5. CASE VisitCollection(w, n) \/ VisitValue(w, n) \/ VisitConditionally(w, n)
    <2>1. ~Next1(w).release /\ \E own : \E ks \in {<<>>, heap[n].kids} : Adds(w, own, ks)
      <3>1. CASE VisitCollection(w, n)
        BY <3>1 DEF VisitCollection, At
      <3>2. CASE VisitValue(w, n)
        BY <3>2 DEF VisitValue, At
      <3>3. CASE VisitConditionally(w, n)
        BY <3>3 DEF VisitConditionally, At
      <3> QED BY <1>5, <3>1, <3>2, <3>3
    <2> QED BY <2>1, AddsKeepsInv
  <1> QED BY <1>2, <1>3, <1>4, <1>5 DEF Step

\* A writer takes, uses, drops or breaks a lock.
LEMMA UseKeepsInv ==
    ASSUME MallocInv, NEW x \in Writers, Use(x)
    PROVE  MallocInv'
  <1>0. \/ \E l \in Nodes : WriterWants(x, l) \/ WriterLocks(x, l) \/ Write(x, l)
        \/ WriterUnlocks(x) \/ WriterPanics(x)
    BY DEF Use
  <1>1. UNCHANGED <<born, pc, todo, start>>
    BY <1>0 DEF WriterWants, WriterLocks, Write, WriterUnlocks, WriterPanics, walk
  <1>2. Shape' /\ \A m \in Nodes : Con(m)' = Con(m)
    <2>1. ASSUME NEW l \in Nodes, Write(x, l) PROVE Shape' /\ \A m \in Nodes : Con(m)' = Con(m)
      <3>1. PICK n : \/ \E c \in 0..MaxCap : heap' = [heap EXCEPT ![n].cap = c]
                     \/ /\ Con(n) \in {"Option", "Vec"}
                        /\ \E ks \in {<<>>, born[n].kids} : heap' = [heap EXCEPT ![n].kids = ks]
        BY <2>1 DEF Write
      <3>2. n \in Nodes
        <4>1. heap' # heap /\ heap \in [Nodes -> Values]
          BY <2>1 DEF Write, MallocInv, Shape
        <4> QED BY <3>1, <4>1
      <3>3. born[n].kids \in Seq(Nodes) /\ <<>> \in Seq(Nodes) /\ 0..MaxCap \subseteq Nat
        <4>1. born \in [Nodes -> Values] /\ MaxCap \in Nat
          BY MallocAssumption DEF MallocInv, Shape, Values
        <4>2. born[n].kids \in Seq(Nodes)
          BY <3>2, <4>1 DEF Values
        <4> QED BY <4>1, <4>2
      <3> DEFINE Fits(ks) == ks = born[n].kids \/ (ks = <<>> /\ Con(n) \in {"Option", "Vec"})
      <3>4. PICK v \in Values : v.ty = heap[n].ty /\ Fits(v.kids) /\ heap' = [heap EXCEPT ![n] = v]
        <4>1. heap[n] \in Values /\ Fits(heap[n].kids)
          BY <3>2 DEF MallocInv, Shape
        <4>2. ASSUME NEW c \in Nat
              PROVE  LET v == [heap[n] EXCEPT !.cap = c]
                     IN  v \in Values /\ v.ty = heap[n].ty /\ v.kids = heap[n].kids
          BY <4>1 DEF Values
        <4>3. ASSUME NEW ks \in Seq(Nodes)
              PROVE  LET v == [heap[n] EXCEPT !.kids = ks]
                     IN  v \in Values /\ v.ty = heap[n].ty /\ v.kids = ks
          BY <4>1 DEF Values
        <4>4. ASSUME NEW c \in 0..MaxCap, heap' = [heap EXCEPT ![n].cap = c]
              PROVE  \E v \in Values : v.ty = heap[n].ty /\ Fits(v.kids) /\ heap' = [heap EXCEPT ![n] = v]
          <5> DEFINE v == [heap[n] EXCEPT !.cap = c]
          <5>1. v \in Values /\ v.ty = heap[n].ty /\ v.kids = heap[n].kids
            BY <3>3, <4>2
          <5>2. heap' = [heap EXCEPT ![n] = v]
            BY <4>4
          <5> HIDE DEF v
          <5> QED BY <4>1, <5>1, <5>2
        <4>5. ASSUME Con(n) \in {"Option", "Vec"}, NEW ks \in {<<>>, born[n].kids},
                     heap' = [heap EXCEPT ![n].kids = ks]
              PROVE  \E v \in Values : v.ty = heap[n].ty /\ Fits(v.kids) /\ heap' = [heap EXCEPT ![n] = v]
          <5> DEFINE v == [heap[n] EXCEPT !.kids = ks]
          <5>1. v \in Values /\ v.ty = heap[n].ty /\ v.kids = ks
            BY <3>3, <4>3
          <5>2. heap' = [heap EXCEPT ![n] = v]
            BY <4>5
          <5> HIDE DEF v
          <5> QED BY <4>5, <5>1, <5>2
        <4> QED BY <3>1, <4>4, <4>5
      <3>5. heap' \in [Nodes -> Values] /\ heap'[n] = v /\ \A m \in Nodes : m # n => heap'[m] = heap[m]
        BY <3>2, <3>4 DEF MallocInv, Shape
      <3> QED BY <1>1, <3>4, <3>5 DEF MallocInv, Shape, Con
    <2>2. CASE UNCHANGED heap
      BY <1>1, <2>2, ShapeStays DEF MallocInv
    <2> QED BY <1>0, <2>1, <2>2 DEF WriterWants, WriterLocks, WriterUnlocks, WriterPanics
  <1>3. Below' = Below
    BY <1>1 DEF Below
  <1>4. Walks'
    BY <1>1, <1>3 DEF MallocInv, Walks, Nested
  <1>5. GuardsOnStack'
    <2>1. writer' \in [Nodes -> Free] /\ \A m \in Nodes : writer'[m] \in {writer[m], x, None}
      BY <1>0 DEF MallocInv, GuardsOnStack, Free, Threads, locks, LetGo,
                  WriterWants, WriterLocks, Write, WriterUnlocks, WriterPanics
    <2>2. ASSUME NEW m \in Nodes, NEW w \in Walkers, writer'[m] = w
          PROVE  Con(m)' \in Mutexes /\ m \in Guards(todo'[w])
      <3>1. writer[m] = w
        BY <2>1, <2>2, MallocAssumption
      <3> QED BY <1>1, <1>2, <3>1 DEF MallocInv, GuardsOnStack
    <2> QED BY <2>1, <2>2 DEF GuardsOnStack, Guards
  <1>6. PoisonComesFromBelow' /\ poisoned' \subseteq Nodes
    <2>1. CASE UNCHANGED <<poisoned, broken>>
      BY <1>2, <1>3, <2>1, PoisonStays DEF MallocInv
    <2>2. CASE WriterPanics(x)
      <3>1. poisoned' = poisoned \union broken' /\ broken \subseteq broken' /\ broken' \subseteq Nodes
        BY <2>2 DEF WriterPanics, HeldBy
      <3>2. ASSUME NEW m \in poisoned' \ broken'
            PROVE  /\ Con(m)' = "StdMutex"
                   /\ \E b \in Below[m] \ {m} : b \in broken' \/ Con(b)' = "CondArc"
        <4>1. m \in Nodes /\ m \in poisoned \ broken
          BY <3>1 DEF MallocInv
        <4>2. PICK b \in Below[m] \ {m} : b \in broken \/ Con(b) = "CondArc"
          BY <4>1 DEF MallocInv, PoisonComesFromBelow
        <4>3. b \in Nodes /\ Con(m) = "StdMutex"
          BY <4>1, <4>2, BelowIsOrdered DEF MallocInv, Shape, PoisonComesFromBelow
        <4> QED BY <1>2, <3>1, <4>1, <4>2, <4>3
      <3> QED BY <1>3, <3>1, <3>2 DEF MallocInv, PoisonComesFromBelow
    <2> QED BY <1>0, <2>1, <2>2 DEF WriterWants, WriterLocks, Write, WriterUnlocks, locks
  <1> QED BY <1>2, <1>4, <1>5, <1>6 DEF MallocInv

\* The invariant of threads that measure and use one structure.
THEOREM MallocInvariance == Spec => []MallocInv
  <1>1. Init => MallocInv
    <2> SUFFICES ASSUME Init PROVE MallocInv
      OBVIOUS
    <2>1. Shape
      BY MallocAssumption DEF Init, Shape, Values
    <2>2. Walks
      <3>1. <<>> \in Seq(Frames) /\ Nested(<<>>)
        BY DEF Nested
      <3> QED BY <3>1, MallocAssumption DEF Init, Walks
    <2>3. GuardsOnStack
      BY MallocAssumption DEF Init, GuardsOnStack, Free, Threads
    <2> QED BY <2>1, <2>2, <2>3 DEF Init, MallocInv, PoisonComesFromBelow
  <1>2. MallocInv /\ [Next]_vars => MallocInv'
    <2> SUFFICES ASSUME MallocInv, [Next]_vars PROVE MallocInv'
      OBVIOUS
    <2>1. CASE UNCHANGED vars
      <3>1. UNCHANGED <<heap, born, pc, todo, start, writer, poisoned, broken>>
        BY <2>1 DEF vars, walk, locks
      <3>2. Shape' /\ Below' = Below /\ \A m \in Nodes : Con(m)' = Con(m)
        BY <3>1, ShapeStays DEF MallocInv
      <3>3. PoisonComesFromBelow' /\ poisoned' \subseteq Nodes
        BY <3>1, <3>2, PoisonStays DEF MallocInv
      <3>4. Walks' /\ GuardsOnStack'
        BY <3>1, <3>2 DEF MallocInv, Walks, GuardsOnStack, Nested, Guards
      <3> QED BY <3>2, <3>3, <3>4 DEF MallocInv
    <2> QED BY <2>1, BeginAndEndKeepInv, StepKeepsInv, UseKeepsInv DEF Next
  <1> QED BY <1>1, <1>2, PTL DEF Spec

\* Measuring poisons only a std Mutex, and only one around something that
\* cannot be measured, in every structure and with any number of threads
\* (malloc_size.rs:162, 558, 579).
THEOREM PoisonHasASource == Spec => []PoisonComesFromBelow
  <1>1. MallocInv => PoisonComesFromBelow
    BY DEF MallocInv
  <1> QED BY <1>1, MallocInvariance, PTL

-----------------------------------------------------------------------------
(* Recursive functions and sums.                                             *)

\* Induction on the numbers.
LEMMA Induct ==
    ASSUME NEW G \in SUBSET Nat, 0 \in G, \A k \in G : k + 1 \in G PROVE G = Nat
  <1> SUFFICES ASSUME Nat \ G # {} PROVE FALSE
    OBVIOUS
  <1>1. PICK m \in Nat \ G : \A k \in Nat \ G : m \leq k
    BY LeastOf
  <1>2. m # 0 /\ m - 1 \in Nat /\ ~(m \leq m - 1)
    BY <1>1
  <1>3. m - 1 \in G
    BY <1>1, <1>2
  <1>4. (m - 1) + 1 = m
    BY <1>1
  <1> QED BY <1>1, <1>3, <1>4

\* A recursion on S, with values in V, whose body looks only at arguments of
\* smaller rank ...
Recursion(S, V, N, rank, B) ==
    /\ N \in Nat /\ rank \in [S -> 0..N] /\ B \in [[S -> V] -> [S -> V]]
    /\ \A f, g \in [S -> V] : \A x \in S :
           (\A y \in S : rank[y] < rank[x] => f[y] = g[y]) => B[f][x] = B[g][x]

\* ... has a solution.
LEMMA Solution ==
    ASSUME NEW S, NEW V, NEW v \in V, NEW N, NEW rank, NEW B, Recursion(S, V, N, rank, B)
    PROVE  \E f \in [S -> V] : f = B[f]
  <1>0. /\ N \in Nat /\ rank \in [S -> 0..N] /\ B \in [[S -> V] -> [S -> V]]
        /\ \A f, g \in [S -> V] : \A x \in S :
               (\A y \in S : rank[y] < rank[x] => f[y] = g[y]) => B[f][x] = B[g][x]
    BY DEF Recursion
  <1> DEFINE Solves(f, k) == \A x \in S : rank[x] < k => f[x] = B[f][x]
             G == {k \in Nat : \E f \in [S -> V] : Solves(f, k)}
  <1>1. 0 \in G
    <2>1. [x \in S |-> v] \in [S -> V]
      OBVIOUS
    <2>2. \A x \in S : ~(rank[x] < 0)
      BY <1>0
    <2> QED BY <2>1, <2>2
  <1>2. ASSUME NEW k \in G PROVE k + 1 \in G
    <2>1. PICK f \in [S -> V] : Solves(f, k)
      OBVIOUS
    <2>2. B[f] \in [S -> V] /\ k \in Nat
      BY <1>0
    <2>3. ASSUME NEW x \in S, rank[x] < k + 1 PROVE B[f][x] = B[B[f]][x]
      <3>1. ASSUME NEW y \in S, rank[y] < rank[x] PROVE f[y] = B[f][y]
        <4>1. rank[x] \in Nat /\ rank[y] \in Nat
          BY <1>0
        <4>2. rank[y] < k
          BY <2>2, <2>3, <3>1, <4>1
        <4> QED BY <2>1, <4>2
      <3> QED BY <1>0, <2>2, <3>1
    <2>4. Solves(B[f], k + 1)
      BY <2>3
    <2> HIDE DEF Solves
    <2> QED BY <2>2, <2>4
  <1>3. G = Nat
    <2> HIDE DEF G
    <2>1. G \in SUBSET Nat
      BY DEF G
    <2> QED BY <1>1, <1>2, <2>1, Induct
  <1>4. PICK f \in [S -> V] : Solves(f, N + 1)
    <2>1. N + 1 \in Nat
      BY <1>0
    <2> HIDE DEF Solves
    <2> QED BY <1>3, <2>1
  <1>5. \A x \in S : f[x] = B[f][x]
    <2> TAKE x \in S
    <2>1. rank[x] < N + 1
      BY <1>0
    <2> QED BY <1>4, <2>1
  <1>6. f = B[f]
    BY <1>0, <1>5
  <1> QED BY <1>6

\* The sums of the prefixes.
UpTo(ns) == CHOOSE f : f = [i \in 0..Len(ns) |-> IF i = 0 THEN 0 ELSE f[i - 1] + ns[i]]

SumsUp(u, ns) ==
    /\ u \in [0..Len(ns) -> Nat] /\ u[0] = 0
    /\ \A i \in 1..Len(ns) : u[i] = u[i - 1] + ns[i]

LEMMA UpToSums ==
    ASSUME NEW ns \in Seq(Nat)
    PROVE  SumsUp(UpTo(ns), ns) /\ Sum(ns) = UpTo(ns)[Len(ns)]
  <1> DEFINE I == 0..Len(ns)
             F == [I -> Nat]
             Body(f) == [i \in I |-> IF i = 0 THEN 0 ELSE f[i - 1] + ns[i]]
             B == [f \in F |-> Body(f)]
             rank == [i \in I |-> i]
             u == UpTo(ns)
  <1>0. Len(ns) \in Nat /\ \A i \in 1..Len(ns) : ns[i] \in Nat
    OBVIOUS
  <1>1. B \in [F -> F]
    <2>1. ASSUME NEW f \in F PROVE Body(f) \in F
      <3>1. ASSUME NEW i \in I PROVE (IF i = 0 THEN 0 ELSE f[i - 1] + ns[i]) \in Nat
        <4>1. CASE i = 0
          BY <4>1
        <4>2. CASE i # 0
          <5>1. i - 1 \in I /\ i \in 1..Len(ns)
            BY <1>0, <4>2
          <5>2. f[i - 1] \in Nat /\ ns[i] \in Nat
            BY <5>1, <1>0
          <5> QED BY <5>2, <4>2
        <4> QED BY <4>1, <4>2
      <3> QED BY <3>1
    <2> QED BY <2>1
  <1>2. rank \in [I -> 0..Len(ns)]
    OBVIOUS
  <1>3. ASSUME NEW f \in F, NEW g \in F, NEW x \in I,
               \A y \in I : rank[y] < rank[x] => f[y] = g[y]
        PROVE  B[f][x] = B[g][x]
    <2>1. CASE x = 0
      BY <2>1
    <2>2. CASE x # 0
      <3>1. x - 1 \in I /\ rank[x - 1] < rank[x]
        BY <1>0, <2>2
      <3> QED BY <1>3, <2>2, <3>1
    <2> QED BY <2>1, <2>2
  <1>4. \E f \in F : f = B[f]
    <2> HIDE DEF B, rank, I
    <2>1. Recursion(I, Nat, Len(ns), rank, B)
      BY <1>0, <1>1, <1>2, <1>3 DEF Recursion
    <2>2. 0 \in Nat
      OBVIOUS
    <2> HIDE DEF F
    <2>3. \E f \in [I -> Nat] : f = B[f]
      BY <2>1, <2>2, Solution
    <2> QED BY <2>3 DEF F
  <1>5. u = Body(u)
    <2>1. PICK f \in F : f = Body(f)
      BY <1>4
    <2> QED BY <2>1 DEF UpTo
  <1> HIDE DEF u
  <1>6. u[0] = 0 /\ DOMAIN u = I
    <2>1. 0 \in I
      BY <1>0
    <2> QED BY <1>5, <2>1
  <1>7. \A i \in 1..Len(ns) : u[i] = u[i - 1] + ns[i]
    <2> TAKE i \in 1..Len(ns)
    <2>1. i \in I /\ i # 0
      BY <1>0
    <2> QED BY <1>5, <2>1
  <1>8. \A i \in I : u[i] \in Nat
    <2> DEFINE G == {k \in Nat : k \leq Len(ns) => u[k] \in Nat}
    <2>1. 0 \in G
      BY <1>6
    <2>2. ASSUME NEW k \in G PROVE k + 1 \in G
      <3> SUFFICES ASSUME k + 1 \leq Len(ns) PROVE u[k + 1] \in Nat
        OBVIOUS
      <3>1. k \in Nat /\ k \leq Len(ns) /\ k + 1 \in 1..Len(ns) /\ (k + 1) - 1 = k
        BY <1>0
      <3>2. u[k] \in Nat /\ ns[k + 1] \in Nat /\ u[k + 1] = u[(k + 1) - 1] + ns[k + 1]
        BY <1>0, <1>7, <3>1
      <3> QED BY <3>1, <3>2
    <2>3. G = Nat
      <3> HIDE DEF G
      <3>1. G \in SUBSET Nat
        BY DEF G
      <3> QED BY <2>1, <2>2, <3>1, Induct
    <2> QED BY <1>0, <2>3
  <1>9. Sum(ns) = u[Len(ns)]
    BY DEF Sum, u, UpTo
  <1>10. u \in [I -> Nat]
    BY <1>5, <1>8
  <1> QED BY <1>6, <1>7, <1>9, <1>10 DEF SumsUp, u

\* Whatever has the sums of the prefixes has the sum.
LEMMA SumBy ==
    ASSUME NEW ns \in Seq(Nat), NEW u, SumsUp(u, ns)
    PROVE  Sum(ns) = u[Len(ns)] /\ Sum(ns) \in Nat
  <1> DEFINE v == UpTo(ns)
             G == {k \in Nat : k \leq Len(ns) => u[k] = v[k]}
  <1>0. Len(ns) \in Nat /\ SumsUp(v, ns) /\ Sum(ns) = v[Len(ns)]
    BY UpToSums
  <1> HIDE DEF v
  <1>1. 0 \in G
    BY <1>0 DEF SumsUp
  <1>2. ASSUME NEW k \in G PROVE k + 1 \in G
    <2> SUFFICES ASSUME k + 1 \leq Len(ns) PROVE u[k + 1] = v[k + 1]
      OBVIOUS
    <2>1. k \in Nat /\ k \leq Len(ns) /\ k + 1 \in 1..Len(ns) /\ (k + 1) - 1 = k
      BY <1>0
    <2>2. u[k] = v[k]
      BY <2>1
    <2>3. u[k + 1] = u[(k + 1) - 1] + ns[k + 1] /\ v[k + 1] = v[(k + 1) - 1] + ns[k + 1]
      BY <1>0, <2>1 DEF SumsUp
    <2> QED BY <2>1, <2>2, <2>3
  <1>3. G = Nat
    <2> HIDE DEF G
    <2>1. G \in SUBSET Nat
      BY DEF G
    <2> QED BY <1>1, <1>2, <2>1, Induct
  <1>4. u[Len(ns)] = v[Len(ns)] /\ u[Len(ns)] \in Nat
    BY <1>0, <1>3 DEF SumsUp
  <1> QED BY <1>0, <1>4

LEMMA SumIsNat ==
    ASSUME NEW ns \in Seq(Nat) PROVE Sum(ns) \in Nat
  BY UpToSums, SumBy

LEMMA SumOfNone == Sum(<<>>) = 0
  <1>1. <<>> \in Seq(Nat) /\ Len(<<>>) = 0
    OBVIOUS
  <1>2. SumsUp(UpTo(<<>>), <<>>) /\ Sum(<<>>) = UpTo(<<>>)[Len(<<>>)]
    BY <1>1, UpToSums
  <1> QED BY <1>1, <1>2 DEF SumsUp

LEMMA SumOfOne ==
    ASSUME NEW x \in Nat PROVE Sum(<<x>>) = x
  <1> DEFINE ns == <<x>>
  <1>1. ns \in Seq(Nat) /\ Len(ns) = 1 /\ ns[1] = x
    OBVIOUS
  <1> HIDE DEF ns
  <1>2. SumsUp(UpTo(ns), ns) /\ Sum(ns) = UpTo(ns)[1]
    BY <1>1, UpToSums
  <1>3. UpTo(ns)[0] = 0 /\ UpTo(ns)[1] = UpTo(ns)[1 - 1] + ns[1]
    BY <1>1, <1>2 DEF SumsUp
  <1>4. Sum(ns) = x
    BY <1>1, <1>2, <1>3
  <1> QED BY <1>4 DEF ns

\* The sum of two sequences put together.
LEMMA SumOfConcat ==
    ASSUME NEW s \in Seq(Nat), NEW t \in Seq(Nat)
    PROVE  s \o t \in Seq(Nat) /\ Sum(s \o t) = Sum(s) + Sum(t)
  <1> DEFINE q == s \o t
             us == UpTo(s)
             ut == UpTo(t)
             u == [i \in 0..Len(q) |-> IF i \leq Len(s) THEN us[i] ELSE us[Len(s)] + ut[i - Len(s)]]
  <1>1. /\ q \in Seq(Nat) /\ Len(s) \in Nat /\ Len(t) \in Nat /\ Len(q) = Len(s) + Len(t)
        /\ \A i \in 1..Len(s) : q[i] = s[i]
        /\ \A i \in 1..Len(q) : i > Len(s) => q[i] = t[i - Len(s)]
    OBVIOUS
  <1>2. SumsUp(us, s) /\ Sum(s) = us[Len(s)] /\ SumsUp(ut, t) /\ Sum(t) = ut[Len(t)]
    BY UpToSums
  <1> HIDE DEF q, us, ut
  <1>9. (\A i \in 0..Len(s) : us[i] \in Nat) /\ (\A i \in 0..Len(t) : ut[i] \in Nat)
    <2>1. us \in [0..Len(s) -> Nat] /\ ut \in [0..Len(t) -> Nat]
      BY <1>2 DEF SumsUp
    <2> QED BY <2>1
  <1>3. u \in [0..Len(q) -> Nat]
    <2> SUFFICES ASSUME NEW i \in 0..Len(q)
                 PROVE  (IF i \leq Len(s) THEN us[i] ELSE us[Len(s)] + ut[i - Len(s)]) \in Nat
      OBVIOUS
    <2>1. i \leq Len(s) => us[i] \in Nat
      BY <1>1, <1>9
    <2>2. ~(i \leq Len(s)) => us[Len(s)] \in Nat /\ ut[i - Len(s)] \in Nat
      BY <1>1, <1>9
    <2> QED BY <2>1, <2>2
  <1>4. u[0] = 0
    BY <1>1, <1>2 DEF SumsUp
  <1>5. ASSUME NEW i \in 1..Len(q) PROVE u[i] = u[i - 1] + q[i]
    <2>1. i \in 0..Len(q) /\ i - 1 \in 0..Len(q) /\ i \in Nat
      BY <1>1
    <2>2. CASE i \leq Len(s)
      <3>1. u[i] = us[i] /\ u[i - 1] = us[i - 1] /\ i \in 1..Len(s)
        BY <1>1, <2>1, <2>2
      <3> HIDE DEF u
      <3> QED BY <1>1, <1>2, <3>1 DEF SumsUp
    <2>3. CASE ~(i \leq Len(s))
      <3>1. i - Len(s) \in 1..Len(t) /\ q[i] = t[i - Len(s)]
        BY <1>1, <2>1, <2>3
      <3>2. ut[i - Len(s)] = ut[(i - Len(s)) - 1] + t[i - Len(s)]
        BY <1>2, <3>1 DEF SumsUp
      <3>3. (i - Len(s)) - 1 \in 0..Len(t) /\ us[Len(s)] \in Nat /\ t[i - Len(s)] \in Nat
            /\ ut[(i - Len(s)) - 1] \in Nat /\ ut[0] = 0 /\ (i - Len(s)) - 1 = (i - 1) - Len(s)
        <4> HIDE DEF u
        <4>1. Len(s) \in Nat /\ Len(t) \in Nat /\ i \in Nat /\ i - Len(s) \in 1..Len(t)
          BY <1>1, <2>1, <3>1
        <4>2. /\ (i - Len(s)) - 1 \in 0..Len(t) /\ Len(s) \in 0..Len(s)
              /\ (i - Len(s)) - 1 = (i - 1) - Len(s)
          BY <4>1
        <4>3. us[Len(s)] \in Nat /\ ut[(i - Len(s)) - 1] \in Nat
          BY <1>9, <4>2
        <4>4. ut[0] = 0
          BY <1>2 DEF SumsUp
        <4>5. t[i - Len(s)] \in Nat
          BY <3>1
        <4> QED BY <4>2, <4>3, <4>4, <4>5
      <3>4. u[i] = us[Len(s)] + ut[i - Len(s)]
        BY <2>1, <2>3
      <3>5. u[i - 1] = us[Len(s)] + ut[(i - 1) - Len(s)]
        <4>1. CASE i - 1 \leq Len(s)
          <5>1. i - 1 = Len(s) /\ (i - 1) - Len(s) = 0
            <6>1. Len(s) \in Nat /\ i \in Nat /\ ~(i \leq Len(s)) /\ i - 1 \leq Len(s)
              BY <1>1, <2>1, <2>3, <4>1
            <6> HIDE DEF u
            <6> QED BY <6>1
          <5>2. u[i - 1] = us[Len(s)]
            BY <2>1, <4>1, <5>1
          <5>3. us[Len(s)] \in Nat /\ ut[(i - 1) - Len(s)] = 0
            BY <3>3, <5>1
          <5> HIDE DEF u
          <5> QED BY <5>2, <5>3
        <4>2. CASE ~(i - 1 \leq Len(s))
          BY <2>1, <4>2
        <4> QED BY <4>1, <4>2
      <3> DEFINE x == us[Len(s)]
                 y == ut[i - Len(s)]
                 z == ut[(i - Len(s)) - 1]
                 e == t[i - Len(s)]
      <3>6. x \in Nat /\ z \in Nat /\ e \in Nat /\ y = z + e
        BY <3>2, <3>3
      <3>7. u[i] = x + y /\ u[i - 1] = x + z /\ q[i] = e
        BY <3>1, <3>3, <3>4, <3>5
      <3> HIDE DEF u, x, y, z, e
      <3> QED BY <3>6, <3>7
    <2> QED BY <2>2, <2>3
  <1>6. SumsUp(u, q)
    BY <1>3, <1>4, <1>5 DEF SumsUp
  <1>7. u[Len(q)] = Sum(s) + Sum(t)
    <2>1. Len(q) \in 0..Len(q) /\ us[Len(s)] \in Nat
      BY <1>1, <1>9
    <2>2. CASE Len(t) = 0
      <3>1. Len(q) = Len(s) /\ ut[Len(t)] = 0
        BY <1>1, <1>2, <2>2 DEF SumsUp
      <3> QED BY <1>1, <1>2, <2>1, <3>1
    <2>3. CASE Len(t) # 0
      <3>1. ~(Len(q) \leq Len(s)) /\ Len(q) - Len(s) = Len(t)
        BY <1>1, <2>3
      <3> QED BY <1>2, <2>1, <3>1
    <2> QED BY <2>2, <2>3
  <1> HIDE DEF u
  <1>8. Sum(q) = Sum(s) + Sum(t)
    BY <1>1, <1>6, <1>7, SumBy
  <1> QED BY <1>1, <1>8 DEF q

\* The sum of a sequence of equal numbers, ...
LEMMA SumOfEqual ==
    ASSUME NEW ns \in Seq(Nat), NEW a \in Nat, \A i \in 1..Len(ns) : ns[i] = a
    PROVE  Sum(ns) = Len(ns) * a
  <1> DEFINE u == [i \in 0..Len(ns) |-> i * a]
  <1>0. Len(ns) \in Nat
    OBVIOUS
  <1>1. u \in [0..Len(ns) -> Nat] /\ u[0] = 0
    BY <1>0
  <1>2. ASSUME NEW i \in 1..Len(ns) PROVE u[i] = u[i - 1] + ns[i]
    <2>1. u[i] = i * a /\ u[i - 1] = (i - 1) * a
      BY <1>0
    <2>2. i * a = (i - 1) * a + a
      BY <1>0
    <2> HIDE DEF u
    <2> QED BY <2>1, <2>2
  <1>3. u[Len(ns)] = Len(ns) * a
    BY <1>0
  <1>4. SumsUp(u, ns)
    BY <1>1, <1>2 DEF SumsUp
  <1> HIDE DEF u
  <1> QED BY <1>3, <1>4, SumBy

\* ... and of one of equal pairs.
LEMMA SumOfPairs ==
    ASSUME NEW ns \in Seq(Nat), NEW a \in Nat, NEW b \in Nat, Len(ns) % 2 = 0,
           \A i \in 1..Len(ns) : ns[i] = IF i % 2 = 1 THEN a ELSE b
    PROVE  Sum(ns) = (Len(ns) \div 2) * (a + b)
  <1> DEFINE U(i) == (i \div 2) * (a + b) + (IF i % 2 = 1 THEN a ELSE 0)
             u == [i \in 0..Len(ns) |-> U(i)]
  <1>0. Len(ns) \in Nat
    OBVIOUS
  <1>1. u \in [0..Len(ns) -> Nat] /\ u[0] = 0
    <2>1. \A i \in 0..Len(ns) : i \div 2 \in Nat
      BY <1>0
    <2>2. \A p \in Nat : p * (a + b) \in Nat
      OBVIOUS
    <2>3. ASSUME NEW i \in 0..Len(ns) PROVE U(i) \in Nat
      <3>1. (i \div 2) * (a + b) \in Nat
        BY <2>1, <2>2
      <3> DEFINE x == (i \div 2) * (a + b)
                 y == IF i % 2 = 1 THEN a ELSE 0
      <3>2. y \in Nat
        OBVIOUS
      <3> HIDE DEF x, y
      <3>3. x \in Nat
        BY <3>1 DEF x
      <3>4. x + y \in Nat
        BY <3>2, <3>3
      <3> QED BY <3>4 DEF x, y
    <2>4. 0 \div 2 = 0 /\ 0 % 2 = 0 /\ 0 * (a + b) = 0
      OBVIOUS
    <2>5. U(0) = 0
      BY <2>4
    <2> HIDE DEF U
    <2> QED BY <1>0, <2>3, <2>5
  <1>2. ASSUME NEW i \in 1..Len(ns) PROVE u[i] = u[i - 1] + ns[i]
    <2>1. u[i] = U(i) /\ u[i - 1] = U(i - 1)
      BY <1>0
    <2>2. U(i) = U(i - 1) + (IF i % 2 = 1 THEN a ELSE b)
      <3>1. CASE i % 2 = 1
        <4>1. (i - 1) \div 2 = i \div 2 /\ (i - 1) % 2 # 1
          BY <3>1
        <4> QED BY <3>1, <4>1
      <3>2. CASE i % 2 # 1
        <4>1. (i - 1) \div 2 = (i \div 2) - 1 /\ (i - 1) % 2 = 1
          BY <3>2
        <4>2. i \div 2 \in Nat
          OBVIOUS
        <4>3. \A p \in Nat : p * (a + b) = (p - 1) * (a + b) + (a + b)
          OBVIOUS
        <4>4. (i \div 2) * (a + b) = ((i - 1) \div 2) * (a + b) + (a + b)
          BY <4>1, <4>2, <4>3
        <4>5. ((i - 1) \div 2) * (a + b) \in Int
          BY <4>1, <4>2
        <4> QED BY <3>2, <4>1, <4>4, <4>5
      <3> QED BY <3>1, <3>2
    <2> HIDE DEF U, u
    <2> QED BY <2>1, <2>2
  <1>3. u[Len(ns)] = (Len(ns) \div 2) * (a + b)
    BY <1>0
  <1>4. SumsUp(u, ns)
    BY <1>1, <1>2 DEF SumsUp
  <1> HIDE DEF u
  <1> QED BY <1>3, <1>4, SumBy

-----------------------------------------------------------------------------
(* Constant sizes.                                                           *)

ArgSizes(f, t) == [i \in DOMAIN Types[t].args |-> f[Types[t].args[i]]]

\* The constant size by constructor and the constant sizes of the arguments.
ConstantOf(c, of) ==
    CASE c = "Zero"   -> 0
      [] c = "Two"    -> 2
      [] c = "Tuple"  -> TupleConstant(of)
      [] c = "Option" -> OptionConstant(of[1])
      [] c = "Result" -> ResultConstant(of[1], of[2])
      [] c = "Cell"   -> of[1]
      [] OTHER        -> NotConstant

LEMMA SeqFacts ==
    ASSUME NEW S, NEW s \in Seq(S)
    PROVE  /\ Len(s) \in Nat /\ DOMAIN s = 1..Len(s)
           /\ \A i \in 1..Len(s) : s[i] \in S /\ s[i] \in Range(s)
           /\ \A x \in Range(s) : x \in S /\ \E i \in 1..Len(s) : x = s[i]
  BY DEF Range

LEMMA TupleConstantIsNat ==
    ASSUME NEW ss \in Seq(Nat) PROVE TupleConstant(ss) \in Nat
  <1>1. Sum(ss) \in Nat
    BY SumIsNat
  <1> QED BY <1>1 DEF TupleConstant, NotConstant

LEMMA ArgSizesAreNat ==
    ASSUME NEW f \in [DOMAIN Types -> Nat], NEW t \in DOMAIN Types
    PROVE  /\ ArgSizes(f, t) \in Seq(Nat) /\ Len(ArgSizes(f, t)) = Len(Types[t].args)
           /\ \A i \in 1..Len(Types[t].args) : /\ Types[t].args[i] \in DOMAIN Types
                                               /\ ArgSizes(f, t)[i] = f[Types[t].args[i]]
  <1> DEFINE as == Types[t].args
  <1>1. as \in Seq(DOMAIN Types)
    BY TypesAssumption
  <1> HIDE DEF as
  <1>2. Len(as) \in Nat /\ DOMAIN as = 1..Len(as) /\ \A i \in 1..Len(as) : as[i] \in DOMAIN Types
    BY <1>1, SeqFacts
  <1>3. [i \in 1..Len(as) |-> f[as[i]]] \in [1..Len(as) -> Nat]
    BY <1>2
  <1>4. ArgSizes(f, t) = [i \in 1..Len(as) |-> f[as[i]]]
    BY <1>2 DEF ArgSizes, as
  <1> QED BY <1>2, <1>3, <1>4 DEF as

\* The recursion of constant_size goes down in depth, so every type has one.
LEMMA ConstantSizes ==
    /\ constant_size \in [DOMAIN Types -> Nat]
    /\ \A t \in DOMAIN Types :
           constant_size[t] = ConstantOf(Types[t].c, ArgSizes(constant_size, t))
  <1> DEFINE D == DOMAIN Types
             Body(f) == [t \in D |-> ConstantOf(Types[t].c, ArgSizes(f, t))]
             F == [D -> Nat]
             B == [f \in F |-> Body(f)]
  <1>1. ASSUME NEW f \in F, NEW t \in D PROVE ConstantOf(Types[t].c, ArgSizes(f, t)) \in Nat
    <2> DEFINE of == ArgSizes(f, t)
    <2>1. of \in Seq(Nat) /\ Len(of) = Len(Types[t].args)
      BY ArgSizesAreNat
    <2>2. /\ Types[t].c \in {"Option", "Cell"} => Len(of) = 1
          /\ Types[t].c = "Result" => Len(of) = 2
      BY <2>1, TypesAssumption
    <2> HIDE DEF of
    <2>3. TupleConstant(of) \in Nat
      BY <2>1, TupleConstantIsNat
    <2>4. /\ Types[t].c \in {"Option", "Cell"} => of[1] \in Nat
          /\ Types[t].c = "Result" => of[1] \in Nat /\ of[2] \in Nat
      BY <2>1, <2>2
    <2>5. ConstantOf(Types[t].c, of) \in Nat
      BY <2>3, <2>4 DEF ConstantOf, OptionConstant, ResultConstant, NotConstant
    <2> QED BY <2>5 DEF of
  <1>2. B \in [F -> F]
    BY <1>1
  <1>3. ASSUME NEW f, NEW g, NEW t \in D,
               \A a \in D : Depth[a] < Depth[t] => f[a] = g[a]
        PROVE  Body(f)[t] = Body(g)[t]
    <2>1. CASE Types[t].c \in InPlace
      <3>1. Types[t].args \in Seq(D) /\ \A a \in Range(Types[t].args) : Depth[a] < Depth[t]
        BY <2>1, TypesAssumption
      <3>2. \A i \in DOMAIN Types[t].args : Types[t].args[i] \in D /\ Depth[Types[t].args[i]] < Depth[t]
        BY <3>1, SeqFacts
      <3>3. ArgSizes(f, t) = ArgSizes(g, t)
        BY <1>3, <3>2 DEF ArgSizes
      <3> QED BY <3>3
    <2>2. CASE Types[t].c \notin InPlace
      <3>1. ConstantOf(Types[t].c, ArgSizes(f, t)) = ConstantOf(Types[t].c, ArgSizes(g, t))
        BY <2>2 DEF ConstantOf, InPlace
      <3> QED BY <3>1
    <2> QED BY <2>1, <2>2
  <1>4. \E f \in F : f = Body(f)
    <2>5. ASSUME NEW f \in F, NEW g \in F, NEW t \in D,
                 \A a \in D : Depth[a] < Depth[t] => f[a] = g[a]
          PROVE  B[f][t] = B[g][t]
      <3>1. B[f] = Body(f) /\ B[g] = Body(g)
        OBVIOUS
      <3> HIDE DEF B, Body
      <3> QED BY <1>3, <2>5, <3>1
    <2> HIDE DEF B, D
    <2>1. MaxDepth \in Nat /\ Depth \in [D -> 0..MaxDepth]
      BY TypesAssumption DEF D
    <2>2. Recursion(D, Nat, MaxDepth, Depth, B)
      BY <1>2, <2>5, <2>1 DEF Recursion
    <2>3. 0 \in Nat
      OBVIOUS
    <2>4. \E f \in [D -> Nat] : f = B[f]
      BY <2>2, <2>3, Solution
    <2> QED BY <2>4 DEF B
  <1>5. constant_size = CHOOSE f : f = Body(f)
    BY DEF constant_size, ConstantOf, ArgSizes
  <1>6. PICK f \in F : f = Body(f)
    BY <1>4
  <1>7. constant_size = Body(constant_size)
    BY <1>5, <1>6
  <1>8. \A t \in D : constant_size[t] \in Nat
    <2> DEFINE Bad == {t \in D : constant_size[t] \notin Nat}
               R == {Depth[t] : t \in Bad}
               g == [t \in D |-> IF constant_size[t] \in Nat THEN constant_size[t] ELSE 0]
    <2> SUFFICES ASSUME Bad # {} PROVE FALSE
      OBVIOUS
    <2>1. \A t \in D : Depth[t] \in Nat
      BY TypesAssumption
    <2>2. R \subseteq Nat /\ R # {}
      BY <2>1
    <2>3. PICK r \in R : \A q \in R : r \leq q
      <3> HIDE DEF R
      <3> QED BY <2>2, LeastOf
    <2>4. PICK t \in Bad : \A a \in Bad : Depth[t] \leq Depth[a]
      BY <2>3
    <2>5. ASSUME NEW a \in D, Depth[a] < Depth[t] PROVE constant_size[a] = g[a]
      <3>1. ~(Depth[t] \leq Depth[a])
        BY <2>1, <2>5
      <3>2. a \notin Bad
        BY <2>4, <3>1
      <3> QED BY <3>2
    <2>6. g \in F
      OBVIOUS
    <2> HIDE DEF g, Body
    <2>7. Body(constant_size)[t] = Body(g)[t]
      BY <1>3, <2>5
    <2>8. Body(g)[t] \in Nat
      BY <1>1, <2>6 DEF Body
    <2> QED BY <1>7, <2>7, <2>8
  <1> QED BY <1>7, <1>8

-----------------------------------------------------------------------------
(* What a value owns.                                                        *)

\* The parts that a value has now.
LEMMA PartsNow ==
    ASSUME Shape, NEW n \in Nodes
    PROVE  /\ heap[n].kids \in Seq(Nodes)
           /\ Range(heap[n].kids) \subseteq Range(born[n].kids)
           /\ \A k \in Range(heap[n].kids) : k \in Nodes /\ n < k
           /\ Len(heap[n].kids) \in Nat /\ DOMAIN heap[n].kids = 1..Len(heap[n].kids)
           /\ \A i \in DOMAIN heap[n].kids : heap[n].kids[i] \in Range(heap[n].kids)
  <1>1. heap[n].kids \in Seq(Nodes)
    BY PartsAreBelow
  <1>2. Range(<<>>) = {}
    BY DEF Range
  <1>3. Range(heap[n].kids) \subseteq Range(born[n].kids)
    BY <1>2 DEF Shape
  <1>4. \A k \in Range(born[n].kids) : k \in Nodes /\ n < k
    BY PartsComeAfter DEF Shape
  <1>5. /\ Len(heap[n].kids) \in Nat /\ DOMAIN heap[n].kids = 1..Len(heap[n].kids)
        /\ \A i \in DOMAIN heap[n].kids : heap[n].kids[i] \in Range(heap[n].kids)
    BY <1>1, SeqFacts
  <1> QED BY <1>1, <1>3, <1>4, <1>5

\* A structure stays well typed.
LEMMA StillWellTyped ==
    ASSUME Shape, NEW n \in Nodes PROVE WellTyped(heap, n)
  <1>1. WellTyped(born, n)
    BY StructureAssumption DEF Shape
  <1>2. \A m \in Nodes : heap[m].ty = born[m].ty
    BY DEF Shape
  <1>3. CASE heap[n].kids = born[n].kids
    <2>1. \A i \in DOMAIN heap[n].kids : heap[heap[n].kids[i]].ty = born[born[n].kids[i]].ty
      BY <1>2, <1>3, PartsNow
    <2>2. Len(heap[n].kids) = 1 => 1 \in DOMAIN heap[n].kids
      BY PartsNow
    <2> DEFINE c == Types[heap[n].ty].c
               ks == heap[n].kids
               Is(h, i, j) == h[h[n].kids[i]].ty = Types[h[n].ty].args[j]
    <2>3. \A i \in DOMAIN ks : \A j : Is(heap, i, j) <=> Is(born, i, j)
      BY <1>2, <1>3, <2>1
    <2>4. /\ c = Types[born[n].ty].c /\ ks = born[n].kids
          /\ Types[heap[n].ty].args = Types[born[n].ty].args
      BY <1>2, <1>3
    <2> SUFFICES /\ c \in {"Zero", "Two", "String"} => ks = <<>>
                 /\ c \in {"Cell", "Result", "Box"} \union Arcs => Len(ks) = 1
                 /\ c = "Cell" => Is(heap, 1, 1)
                 /\ c = "Result" => Is(heap, 1, 1) \/ Is(heap, 1, 2)
                 /\ c = "Option" => Len(ks) \leq 1
                 /\ c = "Tuple" => /\ Len(ks) = Len(Types[heap[n].ty].args)
                                   /\ \A i \in DOMAIN ks : Is(heap, i, i)
                 /\ c \in Sequential \union {"Option"} => \A i \in DOMAIN ks : Is(heap, i, 1)
                 /\ c \in Maps => /\ Len(ks) % 2 = 0
                                  /\ \A i \in DOMAIN ks : Is(heap, i, IF i % 2 = 1 THEN 1 ELSE 2)
      BY DEF WellTyped
    <2>5. /\ c \in {"Zero", "Two", "String"} => ks = <<>>
          /\ c \in {"Cell", "Result", "Box"} \union Arcs => Len(ks) = 1
          /\ c = "Cell" => Is(born, 1, 1)
          /\ c = "Result" => Is(born, 1, 1) \/ Is(born, 1, 2)
          /\ c = "Option" => Len(ks) \leq 1
          /\ c = "Tuple" => /\ Len(ks) = Len(Types[heap[n].ty].args)
                            /\ \A i \in DOMAIN ks : Is(born, i, i)
          /\ c \in Sequential \union {"Option"} => \A i \in DOMAIN ks : Is(born, i, 1)
          /\ c \in Maps => /\ Len(ks) % 2 = 0
                           /\ \A i \in DOMAIN ks : Is(born, i, IF i % 2 = 1 THEN 1 ELSE 2)
      BY <1>1, <2>4, Zenon DEF WellTyped
    <2> HIDE DEF c, ks, Is
    <2>6. Len(ks) = 1 => 1 \in DOMAIN ks
      BY <2>2 DEF ks
    <2> QED BY <2>3, <2>5, <2>6
  <1>4. CASE heap[n].kids = <<>> /\ Con(n) \in {"Option", "Vec"}
    <2>1. Len(<<>>) = 0 /\ DOMAIN <<>> = {}
      OBVIOUS
    <2> QED BY <1>4, <2>1 DEF WellTyped, Con, Sequential, Maps, Arcs
  <1> QED BY <1>3, <1>4 DEF Shape

LEMMA LengthIsNat ==
    ASSUME Shape, NEW n \in Nodes PROVE Length(n) \in Nat
  <1>1. Len(heap[n].kids) \in Nat
    BY PartsNow
  <1>2. \A x \in Nat : x \div 1 \in Nat /\ x \div 2 \in Nat
    OBVIOUS
  <1> QED BY <1>1, <1>2 DEF Length, Arity

LEMMA StorageIsNat ==
    ASSUME Shape, NEW n \in Nodes PROVE Storage(n) \in Nat
  <1>1. heap[n].cap \in Nat
    BY DEF Shape, Values
  <1>2. Length(n) \in Nat
    BY LengthIsNat
  <1>3. Con(n) = "Box" => BoxStorage(n) \in Nat
    <2> SUFFICES ASSUME Con(n) = "Box" PROVE BoxStorage(n) \in Nat
      OBVIOUS
    <2>1. Len(heap[n].kids) = 1
      BY StillWellTyped DEF WellTyped, Con
    <2>2. heap[n].kids[1] \in Nodes
      BY <2>1, PartsNow
    <2>3. Length(heap[n].kids[1]) \in Nat
      BY <2>2, LengthIsNat
    <2> QED BY <2>3 DEF BoxStorage
  <1>4. Con(n) \in Sequential => SequenceStorage(n) \in Nat
    BY <1>1, <1>2 DEF Sequential, SequenceStorage
  <1>5. Con(n) \in Maps => MapStorage(n) \in Nat
    BY <1>1, <1>2 DEF Maps, MapStorage
  <1> QED BY <1>1, <1>3, <1>4, <1>5 DEF Storage

\* A part is of smaller rank than its owner.
LEMMA Ranked ==
    \E N \in Nat : \E rank \in [Nodes -> 0..N] : \A m, n \in Nodes : m < n => rank[n] < rank[m]
  <1>0. \A n \in Nodes : n \in Nat
    BY MallocAssumption
  <1>1. CASE Nodes = {}
    <2>1. [n \in Nodes |-> 0] \in [Nodes -> 0..0]
      OBVIOUS
    <2> QED BY <1>1, <2>1, 0 \in Nat
  <1>2. CASE Nodes # {}
    <2>1. PICK top \in Nodes : \A n \in Nodes : n \leq top
      BY <1>2, LastOf
    <2> DEFINE rank == [n \in Nodes |-> top - n]
    <2>2. rank \in [Nodes -> 0..top] /\ top \in Nat
      BY <1>0, <2>1
    <2>3. \A m, n \in Nodes : m < n => rank[n] < rank[m]
      BY <1>0, <2>1
    <2> HIDE DEF rank
    <2> QED BY <2>2, <2>3
  <1> QED BY <1>1, <1>2

PartsOf(f, n) == [i \in DOMAIN heap[n].kids |-> f[heap[n].kids[i]]]
OwnedOf(f, n) == Storage(n) + (IF IsLock(n) THEN 0 ELSE Sum(PartsOf(f, n)))

LEMMA PartsOfAreNat ==
    ASSUME Shape, NEW n \in Nodes, NEW f, \A k \in Range(heap[n].kids) : f[k] \in Nat
    PROVE  /\ PartsOf(f, n) \in Seq(Nat) /\ Len(PartsOf(f, n)) = Len(heap[n].kids)
           /\ \A i \in 1..Len(heap[n].kids) : PartsOf(f, n)[i] = f[heap[n].kids[i]]
           /\ OwnedOf(f, n) \in Nat
  <1> DEFINE ks == heap[n].kids
  <1>1. Len(ks) \in Nat /\ DOMAIN ks = 1..Len(ks) /\ \A i \in DOMAIN ks : ks[i] \in Range(ks)
    BY PartsNow
  <1>2. PartsOf(f, n) = [i \in 1..Len(ks) |-> f[ks[i]]]
    BY <1>1 DEF PartsOf
  <1> HIDE DEF ks
  <1>3. [i \in 1..Len(ks) |-> f[ks[i]]] \in [1..Len(ks) -> Nat]
    BY <1>1 DEF ks
  <1>4. /\ PartsOf(f, n) \in Seq(Nat) /\ Len(PartsOf(f, n)) = Len(ks)
        /\ \A i \in 1..Len(ks) : PartsOf(f, n)[i] = f[ks[i]]
    BY <1>1, <1>2, <1>3
  <1>5. Sum(PartsOf(f, n)) \in Nat /\ Storage(n) \in Nat
    BY <1>4, SumIsNat, StorageIsNat
  <1>6. OwnedOf(f, n) \in Nat
    BY <1>5 DEF OwnedOf
  <1> QED BY <1>4, <1>6 DEF ks

\* The recursion of Owned has a solution: what every value owns is a number.
OwnedSizes ==
    /\ Owned \in [Nodes -> Nat]
    /\ \A n \in Nodes : Owned[n] = OwnedOf(Owned, n)

LEMMA OwnedUnfolds ==
    ASSUME Shape PROVE OwnedSizes
  <1> DEFINE F == [Nodes -> Nat]
             Body(f) == [n \in Nodes |-> OwnedOf(f, n)]
             B == [f \in F |-> Body(f)]
  <1>1. ASSUME NEW f \in F, NEW n \in Nodes PROVE OwnedOf(f, n) \in Nat
    <2>1. \A k \in Range(heap[n].kids) : f[k] \in Nat
      BY PartsNow
    <2> QED BY <2>1, PartsOfAreNat
  <1>2. B \in [F -> F]
    BY <1>1
  <1>3. ASSUME NEW f, NEW g, NEW n \in Nodes, \A k \in Nodes : n < k => f[k] = g[k]
        PROVE  OwnedOf(f, n) = OwnedOf(g, n)
    <2>1. \A i \in DOMAIN heap[n].kids : f[heap[n].kids[i]] = g[heap[n].kids[i]]
      BY <1>3, PartsNow
    <2>2. PartsOf(f, n) = PartsOf(g, n)
      BY <2>1 DEF PartsOf
    <2> QED BY <2>2 DEF OwnedOf
  <1>4. \E f \in F : f = Body(f)
    <2>1. PICK N \in Nat : \E rank \in [Nodes -> 0..N] :
              \A m, n \in Nodes : m < n => rank[n] < rank[m]
      BY Ranked
    <2>2. PICK rank \in [Nodes -> 0..N] : \A m, n \in Nodes : m < n => rank[n] < rank[m]
      BY <2>1
    <2>3. ASSUME NEW f \in F, NEW g \in F, NEW n \in Nodes,
                 \A k \in Nodes : rank[k] < rank[n] => f[k] = g[k]
          PROVE  B[f][n] = B[g][n]
      <3>1. B[f][n] = OwnedOf(f, n) /\ B[g][n] = OwnedOf(g, n)
        OBVIOUS
      <3>2. \A k \in Nodes : n < k => f[k] = g[k]
        BY <2>2, <2>3
      <3> QED BY <1>3, <3>1, <3>2
    <2> HIDE DEF B
    <2>4. Recursion(Nodes, Nat, N, rank, B)
      BY <1>2, <2>2, <2>3 DEF Recursion
    <2>5. 0 \in Nat
      OBVIOUS
    <2>6. \E f \in [Nodes -> Nat] : f = B[f]
      BY <2>4, <2>5, Solution
    <2> QED BY <2>6 DEF B
  <1>5. Owned = CHOOSE f : f = Body(f)
    BY DEF Owned, OwnedOf, PartsOf
  <1>6. PICK f \in F : f = Body(f)
    BY <1>4
  <1>7. Owned = Body(Owned)
    BY <1>5, <1>6
  <1>8. \A n \in Nodes : Owned[n] \in Nat
    <2> DEFINE Bad == {n \in Nodes : Owned[n] \notin Nat}
    <2> SUFFICES ASSUME Bad # {} PROVE FALSE
      OBVIOUS
    <2>1. PICK n \in Bad : \A m \in Bad : m \leq n
      BY LastOf
    <2>2. ASSUME NEW k \in Range(heap[n].kids) PROVE Owned[k] \in Nat
      <3>1. k \in Nodes /\ n < k /\ n \in Nat /\ k \in Nat
        BY PartsNow, MallocAssumption
      <3>2. ~(k \leq n)
        BY <3>1
      <3> QED BY <2>1, <3>1, <3>2
    <2>3. OwnedOf(Owned, n) \in Nat
      BY <2>2, PartsOfAreNat
    <2> QED BY <1>7, <2>3
  <1> QED BY <1>7, <1>8 DEF OwnedSizes

\* The size of a value whose type has a constant size is that constant ...
ConstantIsOwned ==
    \A n \in Nodes : constant_size[heap[n].ty] # NotConstant => Owned[n] = constant_size[heap[n].ty]

LEMMA ConstantsAreExact ==
    ASSUME Shape PROVE ConstantIsOwned
  <1> DEFINE cs == constant_size
             Right(n) == cs[heap[n].ty] # NotConstant => Owned[n] = cs[heap[n].ty]
             Bad == {n \in Nodes : ~Right(n)}
  <1> SUFFICES ASSUME Bad # {} PROVE FALSE
    BY DEF ConstantIsOwned
  <1>1. PICK n \in Bad : \A m \in Bad : m \leq n
    BY LastOf
  <1> DEFINE t == heap[n].ty
             c == Types[t].c
             of == ArgSizes(cs, t)
             ks == heap[n].kids
             ps == PartsOf(Owned, n)
  <1>2. n \in Nodes /\ t \in DOMAIN Types /\ cs[t] # NotConstant
    BY DEF Shape, Values
  <1>3. cs[t] = ConstantOf(c, of) /\ cs \in [DOMAIN Types -> Nat]
    BY <1>2, ConstantSizes
  <1>4. /\ of \in Seq(Nat) /\ Len(of) = Len(Types[t].args)
        /\ \A i \in 1..Len(of) : of[i] = cs[Types[t].args[i]]
    BY <1>2, <1>3, ArgSizesAreNat
  <1>5. /\ Owned[n] = Storage(n) + (IF IsLock(n) THEN 0 ELSE Sum(ps))
        /\ \A k \in Nodes : Owned[k] \in Nat
    BY <1>2, OwnedUnfolds DEF OwnedSizes, OwnedOf
  <1>6. /\ ps \in Seq(Nat) /\ Len(ps) = Len(ks) /\ Len(ks) \in Nat
        /\ \A i \in 1..Len(ks) : ps[i] = Owned[ks[i]]
    BY <1>2, <1>5, PartsNow, PartsOfAreNat
  <1>7. ASSUME NEW i \in 1..Len(ks) PROVE ks[i] \in Nodes /\ Right(ks[i])
    <2>1. ks[i] \in Nodes /\ n < ks[i] /\ n \in Nat /\ ks[i] \in Nat
      BY <1>2, PartsNow, MallocAssumption
    <2>2. ~(ks[i] \leq n)
      BY <2>1
    <2>3. ks[i] \notin Bad
      BY <1>1, <2>2
    <2> QED BY <2>1, <2>3
  <1>8. WellTyped(heap, n)
    BY <1>2, StillWellTyped
  <1>9. Len(ks) = 1 => Sum(ps) = Owned[ks[1]]
    <2> SUFFICES ASSUME Len(ks) = 1 PROVE Sum(ps) = Owned[ks[1]]
      OBVIOUS
    <2>1. ks[1] \in Nodes /\ ps[1] = Owned[ks[1]]
      BY <1>6, <1>7
    <2>2. Owned[ks[1]] \in Nat
      BY <1>5, <2>1
    <2> HIDE DEF ps, ks
    <2>3. ps = <<Owned[ks[1]]>>
      BY <1>6, <2>1, <2>2
    <2> QED BY <2>2, <2>3, SumOfOne
  <1>10. ASSUME c \in {"Zero", "Two", "Tuple", "Option", "Result", "Cell"}
         PROVE  ~IsLock(n) /\ Storage(n) = IF c = "Two" THEN 2 ELSE 0
    BY <1>10 DEF IsLock, Con, Mutexes, RwLocks, Storage, Sequential, Maps, Arcs
  <1>11. ks = <<>> => Sum(ps) = 0
    <2>1. ks = <<>> => ps = <<>>
      BY <1>6
    <2> QED BY <2>1, SumOfNone
  <1> USE DEF NotConstant
  <1>12. CASE c = "Zero" \/ c = "Two"
    <2>1. ks = <<>>
      BY <1>8, <1>12 DEF WellTyped
    <2>2. cs[t] = IF c = "Two" THEN 2 ELSE 0
      BY <1>3, <1>12 DEF ConstantOf
    <2> QED BY <1>2, <1>5, <1>10, <1>11, <1>12, <2>1, <2>2
  <1>13. CASE c = "Tuple"
    <2>1. Len(ks) = Len(of) /\ \A i \in 1..Len(ks) : heap[ks[i]].ty = Types[t].args[i]
      BY <1>2, <1>4, <1>8, <1>13, PartsNow DEF WellTyped
    <2>2. cs[t] = TupleConstant(of)
      BY <1>3, <1>13 DEF ConstantOf
    <2>3. NotConstant \notin Range(of) /\ cs[t] = Sum(of)
      BY <1>2, <2>2 DEF TupleConstant
    <2>4. ASSUME NEW i \in 1..Len(ks) PROVE ps[i] = of[i]
      <3>1. of[i] # NotConstant
        BY <1>4, <2>1, <2>3, SeqFacts
      <3>2. of[i] = cs[heap[ks[i]].ty]
        <4>1. i \in 1..Len(of) /\ heap[ks[i]].ty = Types[t].args[i]
          BY <2>1
        <4> HIDE DEF of, ks, t
        <4> QED BY <1>4, <4>1
      <3> QED BY <1>6, <1>7, <3>1, <3>2
    <2>5. ps = of
      <3> HIDE DEF ps, of, ks
      <3> QED BY <1>4, <1>6, <2>1, <2>4, SeqEqual
    <2>6. Sum(of) \in Nat
      BY <1>4, SumIsNat
    <2> QED BY <1>2, <1>5, <1>10, <1>13, <2>3, <2>5, <2>6
  <1>14. CASE c = "Option"
    <2>1. cs[t] = OptionConstant(of[1])
      BY <1>3, <1>14 DEF ConstantOf
    <2>2. of[1] = 0 /\ cs[t] = 0
      BY <1>2, <2>1 DEF OptionConstant
    <2>3. Len(ks) \leq 1 /\ Len(Types[t].args) = 1
      BY <1>2, <1>8, <1>14, TypesAssumption DEF WellTyped
    <2>4. CASE Len(ks) = 0
      <3>1. ks = <<>>
        BY <2>4, <1>2, PartsNow
      <3> QED BY <1>2, <1>5, <1>10, <1>11, <1>14, <2>2, <3>1
    <2>5. CASE Len(ks) = 1
      <3>1. heap[ks[1]].ty = Types[t].args[1]
        BY <1>2, <1>8, <1>14, <2>5, PartsNow DEF WellTyped
      <3>2. cs[heap[ks[1]].ty] = 0
        BY <1>4, <2>2, <2>3, <3>1
      <3>3. Owned[ks[1]] = 0
        BY <1>7, <2>5, <3>2
      <3> QED BY <1>2, <1>5, <1>9, <1>10, <1>14, <2>2, <2>5, <3>3
    <2>6. Len(ks) = 0 \/ Len(ks) = 1
      <3> HIDE DEF ks
      <3> QED BY <1>6, <2>3
    <2> QED BY <2>4, <2>5, <2>6
  <1>15. CASE c = "Result" \/ c = "Cell"
    <2>1. cs[t] = of[1] /\ (c = "Result" => of[1] = of[2])
      BY <1>2, <1>3, <1>15 DEF ConstantOf, ResultConstant
    <2>2. Len(ks) = 1 /\ Len(Types[t].args) = IF c = "Result" THEN 2 ELSE 1
      BY <1>2, <1>8, <1>15, TypesAssumption DEF WellTyped
    <2>3. \/ heap[ks[1]].ty = Types[t].args[1]
          \/ c = "Result" /\ heap[ks[1]].ty = Types[t].args[2]
      BY <1>8, <1>15 DEF WellTyped
    <2>4. cs[heap[ks[1]].ty] = cs[t]
      BY <1>4, <2>1, <2>2, <2>3
    <2>5. Owned[ks[1]] = cs[t] /\ Owned[ks[1]] \in Nat
      BY <1>2, <1>5, <1>7, <2>2, <2>4
    <2> QED BY <1>2, <1>5, <1>9, <1>10, <1>15, <2>2, <2>5
  <1> QED BY <1>2, <1>3, <1>12, <1>13, <1>14, <1>15 DEF ConstantOf

\* ... so len * constant_size is the sum over the elements of a collection.
LEMMA ElementsAreExact ==
    ASSUME Shape, NEW n \in Nodes, Con(n) \in Collections, ElementConstant(n) # NotConstant
    PROVE  Owned[n] = Storage(n) + Length(n) * ElementConstant(n)
  <1> DEFINE t == heap[n].ty
             cs == constant_size
             of == ArgSizes(cs, t)
             ks == heap[n].kids
             ps == PartsOf(Owned, n)
  <1>1. t \in DOMAIN Types
    BY DEF Shape, Values
  <1>2. /\ of \in Seq(Nat) /\ Len(of) = Len(Types[t].args)
        /\ \A i \in 1..Len(of) : of[i] = cs[Types[t].args[i]]
    BY <1>1, ConstantSizes, ArgSizesAreNat
  <1>3. ElementConstant(n) = TupleConstant(of)
    BY DEF ElementConstant, ArgSizes
  <1>4. NotConstant \notin Range(of) /\ ElementConstant(n) = Sum(of)
    BY <1>3 DEF TupleConstant
  <1>5. /\ Owned[n] = Storage(n) + Sum(ps)
        /\ \A k \in Nodes : Owned[k] \in Nat
    <2>1. ~IsLock(n)
      BY DEF IsLock, Collections, Sequential, Maps, Mutexes, RwLocks
    <2> QED BY <2>1, OwnedUnfolds DEF OwnedSizes, OwnedOf
  <1>6. /\ ps \in Seq(Nat) /\ Len(ps) = Len(ks) /\ Len(ks) \in Nat
        /\ \A i \in 1..Len(ks) : ps[i] = Owned[ks[i]] /\ ks[i] \in Nodes
    BY <1>5, PartsNow, PartsOfAreNat
  <1>7. WellTyped(heap, n) /\ DOMAIN ks = 1..Len(ks)
    BY StillWellTyped, PartsNow
  <1>8. ASSUME NEW i \in 1..Len(ks), NEW j \in 1..Len(of), heap[ks[i]].ty = Types[t].args[j]
        PROVE  ps[i] = of[j]
    <2>1. of[j] = cs[heap[ks[i]].ty] /\ of[j] # NotConstant
      BY <1>2, <1>4, <1>8, SeqFacts
    <2>2. Owned[ks[i]] = cs[heap[ks[i]].ty]
      BY <1>6, <2>1, ConstantsAreExact DEF ConstantIsOwned
    <2> QED BY <1>6, <2>1, <2>2
  <1>9. CASE Con(n) \in Sequential
    <2>1. Len(of) = 1 /\ \A i \in 1..Len(ks) : heap[ks[i]].ty = Types[t].args[1]
      <3>1. Types[t].c \in Sequential
        BY <1>9 DEF Con
      <3>2. Len(Types[t].args) = 1
        BY <1>1, <3>1, TypesAssumption
      <3>3. \A i \in DOMAIN ks : heap[ks[i]].ty = Types[t].args[1]
        BY <1>7, <3>1 DEF WellTyped
      <3> QED BY <1>2, <1>7, <3>2, <3>3
    <2>2. of[1] \in Nat /\ \A i \in 1..Len(ps) : ps[i] = of[1]
      <3>1. 1 \in 1..Len(of)
        BY <2>1
      <3>2. \A i \in 1..Len(ks) : ps[i] = of[1]
        BY <1>8, <2>1, <3>1
      <3> HIDE DEF of, ps, ks
      <3>3. of[1] \in Nat
        BY <1>2, <3>1
      <3> QED BY <1>6, <3>2, <3>3
    <2>3. Length(n) = Len(ks)
      <3>1. Arity(n) = 1
        BY <1>9 DEF Arity, Sequential, Maps
      <3>2. \A x \in Nat : x \div 1 = x
        OBVIOUS
      <3> QED BY <1>6, <3>1, <3>2 DEF Length
    <2> HIDE DEF ps, of, ks
    <2>4. Sum(of) = of[1]
      <3>1. of = <<of[1]>>
        BY <1>2, <2>1, <2>2
      <3>2. Sum(<<of[1]>>) = of[1]
        BY <2>2, SumOfOne
      <3> QED BY <3>1, <3>2
    <2>5. Sum(ps) = Len(ps) * of[1]
      BY <1>6, <2>2, SumOfEqual
    <2> QED BY <1>4, <1>5, <1>6, <2>3, <2>4, <2>5
  <1>10. CASE Con(n) \in Maps
    <2>1. /\ Len(of) = 2 /\ Len(ks) % 2 = 0
          /\ \A i \in 1..Len(ks) : heap[ks[i]].ty = Types[t].args[IF i % 2 = 1 THEN 1 ELSE 2]
      <3>1. Types[t].c \in Maps
        BY <1>10 DEF Con
      <3>2. Len(Types[t].args) = 2
        BY <1>1, <3>1, TypesAssumption
      <3>3. /\ Len(ks) % 2 = 0
            /\ \A i \in DOMAIN ks : heap[ks[i]].ty = Types[t].args[IF i % 2 = 1 THEN 1 ELSE 2]
        BY <1>7, <3>1 DEF WellTyped
      <3> QED BY <1>2, <1>7, <3>2, <3>3
    <2>2. /\ of[1] \in Nat /\ of[2] \in Nat
          /\ \A i \in 1..Len(ps) : ps[i] = IF i % 2 = 1 THEN of[1] ELSE of[2]
      <3>1. of[1] \in Nat /\ of[2] \in Nat
        BY <1>2, <2>1
      <3>2. ASSUME NEW i \in 1..Len(ks) PROVE ps[i] = IF i % 2 = 1 THEN of[1] ELSE of[2]
        <4> DEFINE j == IF i % 2 = 1 THEN 1 ELSE 2
        <4>1. j \in 1..Len(of) /\ heap[ks[i]].ty = Types[t].args[j]
          BY <2>1
        <4> HIDE DEF j
        <4>2. ps[i] = of[j]
          BY <1>8, <4>1
        <4> QED BY <4>2 DEF j
      <3> QED BY <1>6, <3>1, <3>2
    <2>3. Length(n) = Len(ks) \div 2
      BY <1>10 DEF Length, Arity
    <2> HIDE DEF ps, of, ks
    <2>4. Sum(of) = of[1] + of[2]
      <3>1. of = <<of[1]>> \o <<of[2]>>
        BY <1>2, <2>1, <2>2
      <3>2. <<of[1]>> \in Seq(Nat) /\ <<of[2]>> \in Seq(Nat)
        BY <2>2
      <3>3. Sum(<<of[1]>> \o <<of[2]>>) = Sum(<<of[1]>>) + Sum(<<of[2]>>)
        BY <3>2, SumOfConcat
      <3>4. Sum(<<of[1]>>) = of[1] /\ Sum(<<of[2]>>) = of[2]
        BY <2>2, SumOfOne
      <3> QED BY <3>1, <3>3, <3>4
    <2>5. Sum(ps) = (Len(ps) \div 2) * (of[1] + of[2])
      BY <1>6, <2>1, <2>2, SumOfPairs
    <2> QED BY <1>4, <1>5, <1>6, <2>3, <2>4, <2>5
  <1> QED BY <1>9, <1>10 DEF Collections

\* What the other values own.
LEMMA PartsAreExact ==
    ASSUME Shape, NEW n \in Nodes
    PROVE  /\ PartsOf(Owned, n) \in Seq(Nat) /\ Sum(PartsOf(Owned, n)) \in Nat
           /\ Len(PartsOf(Owned, n)) = Len(heap[n].kids)
           /\ \A i \in 1..Len(heap[n].kids) : PartsOf(Owned, n)[i] = Owned[heap[n].kids[i]]
           /\ Owned[n] \in Nat /\ Storage(n) \in Nat
           /\ ~IsLock(n) => Owned[n] = Storage(n) + Sum(PartsOf(Owned, n))
           /\ IsLock(n) => Owned[n] = 0
  <1>1. /\ Owned[n] = Storage(n) + (IF IsLock(n) THEN 0 ELSE Sum(PartsOf(Owned, n)))
        /\ \A k \in Nodes : Owned[k] \in Nat
    BY OwnedUnfolds DEF OwnedSizes, OwnedOf
  <1>2. /\ PartsOf(Owned, n) \in Seq(Nat) /\ Len(PartsOf(Owned, n)) = Len(heap[n].kids)
        /\ \A i \in 1..Len(heap[n].kids) : PartsOf(Owned, n)[i] = Owned[heap[n].kids[i]]
    BY <1>1, PartsNow, PartsOfAreNat
  <1>3. Sum(PartsOf(Owned, n)) \in Nat /\ Storage(n) \in Nat
    BY <1>2, SumIsNat, StorageIsNat
  <1>4. IsLock(n) => Storage(n) = 0
    BY DEF IsLock, Storage, Mutexes, RwLocks, Sequential, Maps, Arcs
  <1> QED BY <1>1, <1>2, <1>3, <1>4

-----------------------------------------------------------------------------
(* What a lock protects.                                                     *)

BornCon(n) == Types[born[n].ty].c

LEMMA ConIsBorn ==
    ASSUME Shape, NEW n \in Nodes
    PROVE  Con(n) = BornCon(n) /\ (IsLock(n) <=> BornCon(n) \in Mutexes \union RwLocks)
  BY DEF Shape, Con, BornCon, IsLock

\* The values inside l: its parts and theirs, but not what a lock among them or
\* an Arc leads to.
ClosedIn(l, S) ==
    \A p \in S \union {l} : BornCon(p) \notin Arcs =>
        \A k \in Range(born[p].kids) : BornCon(k) \notin Mutexes \union RwLocks => k \in S
Inner(l) == {m \in Nodes : \A S \in SUBSET Nodes : ClosedIn(l, S) => m \in S}

LEMMA InnerIsClosed ==
    ASSUME born \in Heaps, NEW l \in Nodes PROVE ClosedIn(l, Inner(l))
  <1>1. SUFFICES ASSUME NEW p \in Inner(l) \union {l}, BornCon(p) \notin Arcs,
                        NEW k \in Range(born[p].kids), BornCon(k) \notin Mutexes \union RwLocks,
                        NEW S \in SUBSET Nodes, ClosedIn(l, S)
                 PROVE  k \in Nodes /\ k \in S
    <2>1. SUFFICES ASSUME NEW p \in Inner(l) \union {l}, BornCon(p) \notin Arcs,
                          NEW k \in Range(born[p].kids), BornCon(k) \notin Mutexes \union RwLocks
                   PROVE  k \in Inner(l)
      BY DEF ClosedIn
    <2>2. p \in Nodes
      BY DEF Inner
    <2>3. k \in Nodes
      BY <2>2, PartsComeAfter
    <2> QED BY <1>1, <2>1, <2>3 DEF Inner
  <1>2. p \in Nodes /\ p \in S \union {l}
    BY <1>1 DEF Inner
  <1>3. k \in Nodes
    BY <1>2, PartsComeAfter
  <1> QED BY <1>1, <1>2, <1>3 DEF ClosedIn

\* A value inside l has one owner, and that is l or inside l as well.
LEMMA OneOwnerInside ==
    ASSUME born \in Heaps, NEW l \in Nodes, NEW k \in Inner(l)
    PROVE  /\ \A m \in Nodes : k \in Range(born[m].kids) => m \in Inner(l) \union {l}
           /\ k \notin Roots[born]
  <1> DEFINE Owns(p, m) == BornCon(p) \notin Arcs /\ m \in Range(born[p].kids)
             S == {m \in Inner(l) : \E p \in Inner(l) \union {l} : Owns(p, m)}
  <1>1. ClosedIn(l, S)
    <2> SUFFICES ASSUME NEW p \in S \union {l}, BornCon(p) \notin Arcs,
                        NEW m \in Range(born[p].kids), BornCon(m) \notin Mutexes \union RwLocks
                 PROVE  m \in S
      BY DEF ClosedIn
    <2>1. p \in Inner(l) \union {l}
      OBVIOUS
    <2>2. m \in Inner(l)
      BY <2>1, InnerIsClosed DEF ClosedIn
    <2> QED BY <2>1, <2>2
  <1>2. S \in SUBSET Nodes
    BY DEF Inner
  <1> HIDE DEF S
  <1>3. k \in S
    BY <1>1, <1>2 DEF Inner
  <1>4. PICK p \in Inner(l) \union {l} : Owns(p, k)
    BY <1>3 DEF S
  <1>5. p \in Nodes
    BY DEF Inner
  <1>6. ASSUME NEW m \in Nodes, k \in Range(born[m].kids) PROVE m = p
    <2> SUFFICES ASSUME m # p PROVE FALSE
      OBVIOUS
    <2>1. Range(born[m].kids) \intersect Range(born[p].kids) # {}
      BY <1>4, <1>6
    <2>2. {Types[born[m].ty].c, Types[born[p].ty].c} \subseteq Arcs
      BY <1>5, <2>1, StructureAssumption
    <2> QED BY <1>4, <2>2 DEF BornCon
  <1>7. k \notin Roots[born]
    BY <1>4, <1>5, StructureAssumption DEF BornCon
  <1> QED BY <1>6, <1>7

ProtectsOf(f, n) ==
    {n} \union (IF Con(n) \in Arcs THEN {}
                ELSE UNION {IF IsLock(k) THEN {} ELSE f[k] : k \in Parts(n)})

LEMMA ProtectsUnfolds ==
    ASSUME Shape PROVE \A n \in Nodes : Protects[n] = ProtectsOf(Protects, n)
  <1> DEFINE V == SUBSET Nodes
             F == [Nodes -> V]
             Body(f) == [n \in Nodes |-> ProtectsOf(f, n)]
             B == [f \in F |-> Body(f)]
  <1>1. \A n \in Nodes : \A k \in Parts(n) : k \in Nodes /\ n < k
    BY PartsNow DEF Parts
  <1>2. B \in [F -> F]
    <2>1. ASSUME NEW f \in F, NEW n \in Nodes PROVE ProtectsOf(f, n) \in V
      BY <1>1 DEF ProtectsOf
    <2> QED BY <2>1
  <1>3. ASSUME NEW f, NEW g, NEW n \in Nodes, \A k \in Nodes : n < k => f[k] = g[k]
        PROVE  ProtectsOf(f, n) = ProtectsOf(g, n)
    <2>1. \A k \in Parts(n) : (IF IsLock(k) THEN {} ELSE f[k]) = (IF IsLock(k) THEN {} ELSE g[k])
      BY <1>1, <1>3
    <2>2. {IF IsLock(k) THEN {} ELSE f[k] : k \in Parts(n)} = {IF IsLock(k) THEN {} ELSE g[k] : k \in Parts(n)}
      BY <2>1
    <2> QED BY <2>2 DEF ProtectsOf
  <1>4. \E f \in F : f = Body(f)
    <2>1. PICK N \in Nat : \E rank \in [Nodes -> 0..N] :
              \A m, n \in Nodes : m < n => rank[n] < rank[m]
      BY Ranked
    <2>2. PICK rank \in [Nodes -> 0..N] : \A m, n \in Nodes : m < n => rank[n] < rank[m]
      BY <2>1
    <2>3. ASSUME NEW f \in F, NEW g \in F, NEW n \in Nodes,
                 \A k \in Nodes : rank[k] < rank[n] => f[k] = g[k]
          PROVE  B[f][n] = B[g][n]
      <3>1. B[f][n] = ProtectsOf(f, n) /\ B[g][n] = ProtectsOf(g, n)
        OBVIOUS
      <3>2. \A k \in Nodes : n < k => f[k] = g[k]
        BY <2>2, <2>3
      <3> QED BY <1>3, <3>1, <3>2
    <2>5. {} \in V
      OBVIOUS
    <2> HIDE DEF B, V
    <2>4. Recursion(Nodes, V, N, rank, B)
      BY <1>2, <2>2, <2>3 DEF Recursion
    <2>6. \E f \in [Nodes -> V] : f = B[f]
      BY <2>4, <2>5, Solution
    <2> QED BY <2>6 DEF B
  <1>5. Protects = CHOOSE f : f = Body(f)
    BY DEF Protects, ProtectsOf
  <1>6. PICK f \in F : f = Body(f)
    BY <1>4
  <1>7. Protects = Body(Protects)
    BY <1>5, <1>6
  <1> QED BY <1>7

\* What may be written under l is inside l.
LEMMA ProtectedIsInside ==
    ASSUME Shape, NEW l \in Nodes PROVE Protects[l] \ {l} \subseteq Inner(l)
  <1> DEFINE Bad == {n \in Inner(l) \union {l} : ~(Protects[n] \subseteq Inner(l) \union {n})}
  <1> SUFFICES ASSUME Bad # {} PROVE FALSE
    OBVIOUS
  <1>0. Inner(l) \union {l} \subseteq Nodes
    BY DEF Inner
  <1>1. PICK n \in Bad : \A m \in Bad : m \leq n
    <2>1. Bad \subseteq Nodes
      BY <1>0
    <2> HIDE DEF Bad
    <2> QED BY <2>1, LastOf
  <1>2. n \in Nodes /\ n \in Inner(l) \union {l} /\ Protects[n] = ProtectsOf(Protects, n)
    BY <1>0, ProtectsUnfolds
  <1>3. ASSUME Con(n) \notin Arcs, NEW k \in Parts(n), ~IsLock(k)
        PROVE  Protects[k] \subseteq Inner(l)
    <2>1. k \in Nodes /\ n < k /\ k \in Range(born[n].kids) /\ n \in Nat /\ k \in Nat
      BY <1>2, PartsNow, MallocAssumption DEF Parts
    <2>2. BornCon(n) \notin Arcs /\ BornCon(k) \notin Mutexes \union RwLocks
      BY <1>2, <1>3, <2>1, ConIsBorn
    <2>3. k \in Inner(l)
      BY <1>2, <2>1, <2>2, InnerIsClosed DEF ClosedIn, Shape
    <2>4. ~(k \leq n)
      BY <2>1
    <2>5. k \notin Bad
      BY <1>1, <2>4
    <2> QED BY <2>3, <2>5
  <1>4. ProtectsOf(Protects, n) \subseteq Inner(l) \union {n}
    BY <1>3 DEF ProtectsOf
  <1> QED BY <1>2, <1>4

-----------------------------------------------------------------------------
(* The sum and what is left to visit.                                        *)

\* When the values of S and what they own stay as they are, so do their sizes.
LEMMA OwnedStays ==
    ASSUME Shape, Shape', NEW S \in SUBSET Nodes,
           \A m \in S : heap'[m] = heap[m] /\ (~IsLock(m) => Parts(m) \subseteq S),
           \A k \in Nodes : Con(k)' = Con(k) /\ (Con(k) = "Slice" => heap'[k] = heap[k])
    PROVE  \A m \in S : Owned'[m] = Owned[m]
  <1> DEFINE Bad == {m \in S : Owned'[m] # Owned[m]}
  <1> SUFFICES ASSUME Bad # {} PROVE FALSE
    OBVIOUS
  <1>1. PICK n \in Bad : \A m \in Bad : m \leq n
    <2>1. Bad \subseteq Nodes
      OBVIOUS
    <2> HIDE DEF Bad
    <2> QED BY <2>1, LastOf
  <1>2. n \in S /\ n \in Nodes /\ heap'[n] = heap[n] /\ Con(n)' = Con(n)
    OBVIOUS
  <1>3. Storage(n)' = Storage(n)
    <2>1. Length(n)' = Length(n)
      BY <1>2 DEF Length, Arity
    <2>2. Con(n) = "Box" => BoxStorage(n)' = BoxStorage(n)
      <3> SUFFICES ASSUME Con(n) = "Box" PROVE BoxStorage(n)' = BoxStorage(n)
        OBVIOUS
      <3>1. PICK k \in Nodes : heap[n].kids[1] = k /\ heap'[n].kids[1] = k
        <4>1. Len(heap[n].kids) = 1
          BY <1>2, StillWellTyped DEF WellTyped, Con
        <4> QED BY <1>2, <4>1, PartsNow
      <3>2. Con(k)' = Con(k) /\ (Con(k) = "Slice" => Length(k)' = Length(k))
        BY <3>1 DEF Length, Arity
      <3>3. /\ BoxStorage(n) = IF Con(k) = "Slice" THEN Length(k) ELSE 1
            /\ BoxStorage(n)' = IF Con(k)' = "Slice" THEN Length(k)' ELSE 1
        BY <3>1 DEF BoxStorage, Con, Length, Arity
      <3> QED BY <3>2, <3>3
    <2>3. SequenceStorage(n)' = SequenceStorage(n) /\ MapStorage(n)' = MapStorage(n)
      BY <1>2, <2>1 DEF SequenceStorage, MapStorage
    <2> QED BY <1>2, <2>2, <2>3 DEF Storage
  <1>4. ASSUME ~IsLock(n), NEW k \in Range(heap[n].kids) PROVE Owned'[k] = Owned[k]
    <2>1. k \in S /\ k \in Nodes /\ n < k /\ n \in Nat /\ k \in Nat
      BY <1>2, <1>4, PartsNow, MallocAssumption DEF Parts
    <2>2. ~(k \leq n)
      BY <2>1
    <2> QED BY <1>1, <2>1, <2>2
  <1>5. ~IsLock(n) => PartsOf(Owned, n)' = PartsOf(Owned, n)
    <2> SUFFICES ASSUME ~IsLock(n) PROVE PartsOf(Owned, n)' = PartsOf(Owned, n)
      OBVIOUS
    <2>1. \A i \in DOMAIN heap[n].kids : Owned'[heap[n].kids[i]] = Owned[heap[n].kids[i]]
      BY <1>2, <1>4, PartsNow
    <2> QED BY <1>2, <2>1 DEF PartsOf
  <1>6. IsLock(n)' = IsLock(n)
    BY <1>2 DEF IsLock
  <1>7. Owned[n] = Storage(n) + (IF IsLock(n) THEN 0 ELSE Sum(PartsOf(Owned, n)))
    BY <1>2, OwnedUnfolds DEF OwnedSizes, OwnedOf
  <1>8. Owned'[n] = Storage(n)' + (IF IsLock(n)' THEN 0 ELSE Sum(PartsOf(Owned, n)'))
    <2>1. (Shape => OwnedSizes)'
      BY OwnedUnfolds, PTL
    <2>2. OwnedSizes'
      BY <2>1
    <2> QED BY <1>2, <2>2 DEF OwnedSizes, OwnedOf, Sum
  <1>9. Owned'[n] = Owned[n]
    BY <1>3, <1>5, <1>6, <1>7, <1>8
  <1> QED BY <1>9

\* What the frames of a stack stand for, and the sum of that.
Weights(f, s) == [i \in DOMAIN s |-> IF s[i].release THEN 0 ELSE f[s[i].node]]
Weight(f, s) == Sum(Weights(f, s))

LEMMA WeightsAreNat ==
    ASSUME NEW f \in [Nodes -> Nat], NEW s \in Seq(Frames)
    PROVE  /\ Weights(f, s) \in Seq(Nat) /\ Len(Weights(f, s)) = Len(s) /\ Weight(f, s) \in Nat
           /\ \A i \in 1..Len(s) : Weights(f, s)[i] = IF s[i].release THEN 0 ELSE f[s[i].node]
  <1>1. Len(s) \in Nat /\ DOMAIN s = 1..Len(s) /\ \A i \in 1..Len(s) : s[i].node \in Nodes
    <2>1. Len(s) \in Nat /\ DOMAIN s = 1..Len(s) /\ \A i \in 1..Len(s) : s[i] \in Frames
      BY SeqFacts
    <2> QED BY <2>1 DEF Frames
  <1>2. Weights(f, s) = [i \in 1..Len(s) |-> IF s[i].release THEN 0 ELSE f[s[i].node]]
    BY <1>1 DEF Weights
  <1>3. \A i \in 1..Len(s) : (IF s[i].release THEN 0 ELSE f[s[i].node]) \in Nat
    BY <1>1
  <1>4. Weights(f, s) \in [1..Len(s) -> Nat]
    BY <1>2, <1>3
  <1>5. Weights(f, s) \in Seq(Nat) /\ Len(Weights(f, s)) = Len(s)
    BY <1>1, <1>4
  <1>6. Weight(f, s) \in Nat
    BY <1>5, SumIsNat DEF Weight
  <1> QED BY <1>2, <1>5, <1>6

LEMMA ConcatFacts ==
    ASSUME NEW S, NEW s \in Seq(S), NEW t \in Seq(S)
    PROVE  /\ s \o t \in Seq(S) /\ Len(s) \in Nat /\ Len(t) \in Nat /\ Len(s \o t) = Len(s) + Len(t)
           /\ DOMAIN s = 1..Len(s) /\ DOMAIN t = 1..Len(t) /\ DOMAIN (s \o t) = 1..Len(s \o t)
           /\ \A i \in 1..Len(s) : (s \o t)[i] = s[i]
           /\ \A i \in 1..Len(s \o t) : i > Len(s) => (s \o t)[i] = t[i - Len(s)] /\ i - Len(s) \in 1..Len(t)
  OBVIOUS

LEMMA WeightOfConcat ==
    ASSUME NEW f \in [Nodes -> Nat], NEW s \in Seq(Frames), NEW t \in Seq(Frames)
    PROVE  Weight(f, s \o t) = Weight(f, s) + Weight(f, t)
  <1> DEFINE a == Weights(f, s)
             b == Weights(f, t)
             q == s \o t
             c == Weights(f, q)
  <1>1. /\ q \in Seq(Frames) /\ Len(s) \in Nat /\ Len(t) \in Nat /\ Len(q) = Len(s) + Len(t)
        /\ \A i \in 1..Len(s) : q[i] = s[i]
        /\ \A i \in 1..Len(q) : i > Len(s) => q[i] = t[i - Len(s)] /\ i - Len(s) \in 1..Len(t)
    BY ConcatFacts
  <1> HIDE DEF q
  <1>2. /\ a \in Seq(Nat) /\ Len(a) = Len(s)
        /\ \A i \in 1..Len(s) : a[i] = IF s[i].release THEN 0 ELSE f[s[i].node]
    BY WeightsAreNat
  <1>3. /\ b \in Seq(Nat) /\ Len(b) = Len(t)
        /\ \A i \in 1..Len(t) : b[i] = IF t[i].release THEN 0 ELSE f[t[i].node]
    BY WeightsAreNat
  <1>4. /\ c \in Seq(Nat) /\ Len(c) = Len(q)
        /\ \A i \in 1..Len(q) : c[i] = IF q[i].release THEN 0 ELSE f[q[i].node]
    BY <1>1, WeightsAreNat
  <1> HIDE DEF a, b, c
  <1>5. /\ a \o b \in Seq(Nat) /\ Len(a \o b) = Len(a) + Len(b)
        /\ \A i \in 1..Len(a) : (a \o b)[i] = a[i]
        /\ \A i \in 1..Len(a \o b) : i > Len(a) => (a \o b)[i] = b[i - Len(a)] /\ i - Len(a) \in 1..Len(b)
    <2>1. a \in Seq(Nat) /\ b \in Seq(Nat)
      BY <1>2, <1>3
    <2> QED BY <2>1, ConcatFacts
  <1>6. ASSUME NEW i \in 1..Len(c) PROVE c[i] = (a \o b)[i]
    <2>1. CASE i \leq Len(s)
      <3>1. i \in 1..Len(s)
        BY <1>1, <1>4, <2>1
      <3>2. (a \o b)[i] = a[i]
        BY <1>2, <1>5, <3>1
      <3>3. q[i] = s[i]
        BY <1>1, <3>1
      <3>4. c[i] = IF q[i].release THEN 0 ELSE f[q[i].node]
        BY <1>4
      <3> QED BY <1>2, <3>1, <3>2, <3>3, <3>4
    <2>2. CASE i > Len(s)
      <3>1. i - Len(s) \in 1..Len(t) /\ q[i] = t[i - Len(s)]
        BY <1>1, <1>4, <2>2
      <3>2. (a \o b)[i] = b[i - Len(s)]
        BY <1>1, <1>2, <1>3, <1>4, <1>5, <2>2
      <3> QED BY <1>3, <1>4, <3>1, <3>2
    <2>3. i \leq Len(s) \/ i > Len(s)
      <3>1. Len(c) \in Nat /\ Len(s) \in Nat
        BY <1>1, <1>4
      <3> QED BY <3>1
    <2> QED BY <2>1, <2>2, <2>3
  <1>7. c = a \o b
    <2>1. Len(c) = Len(a \o b)
      BY <1>1, <1>2, <1>3, <1>4, <1>5
    <2> QED BY <1>4, <1>5, <1>6, <2>1, SeqEqual
  <1>8. Sum(c) = Sum(a) + Sum(b)
    BY <1>2, <1>3, <1>7, SumOfConcat
  <1> QED BY <1>8 DEF Weight, a, b, c, q

LEMMA WeightOfOne ==
    ASSUME NEW f \in [Nodes -> Nat], NEW x \in Frames
    PROVE  Weight(f, <<x>>) = IF x.release THEN 0 ELSE f[x.node]
  <1> DEFINE s == <<x>>
             y == IF x.release THEN 0 ELSE f[x.node]
  <1>1. s \in Seq(Frames) /\ Len(s) = 1 /\ s[1] = x
    OBVIOUS
  <1>2. y \in Nat
    BY DEF Frames
  <1> HIDE DEF s
  <1>3. Weights(f, s) \in Seq(Nat) /\ Len(Weights(f, s)) = 1 /\ Weights(f, s)[1] = y
    BY <1>1, WeightsAreNat
  <1> HIDE DEF y
  <1>4. Weights(f, s) = <<y>>
    <2> DEFINE ws == Weights(f, s)
    <2>1. ws \in Seq(Nat) /\ Len(ws) = 1 /\ ws[1] = y
      BY <1>3
    <2> HIDE DEF ws
    <2>2. ws = <<y>>
      BY <2>1
    <2> QED BY <2>2 DEF ws
  <1>5. Weight(f, s) = y
    BY <1>2, <1>4, SumOfOne DEF Weight
  <1> QED BY <1>5 DEF s, y

\* The frame on top and the rest.
LEMMA WeightOfTop ==
    ASSUME NEW f \in [Nodes -> Nat], NEW s \in Seq(Frames), s # <<>>
    PROVE  /\ Weight(f, s) = (IF Head(s).release THEN 0 ELSE f[Head(s).node]) + Weight(f, Tail(s))
           /\ Weight(f, Tail(s)) \in Nat
  <1>1. Head(s) \in Frames /\ Tail(s) \in Seq(Frames) /\ s = <<Head(s)>> \o Tail(s)
    OBVIOUS
  <1>2. <<Head(s)>> \in Seq(Frames)
    BY <1>1
  <1>3. Weight(f, <<Head(s)>> \o Tail(s)) = Weight(f, <<Head(s)>>) + Weight(f, Tail(s))
    BY <1>1, <1>2, WeightOfConcat
  <1>4. Weight(f, <<Head(s)>>) = IF Head(s).release THEN 0 ELSE f[Head(s).node]
    BY <1>1, WeightOfOne
  <1>5. Weight(f, Tail(s)) \in Nat
    BY <1>1, WeightsAreNat
  <1> QED BY <1>1, <1>3, <1>4, <1>5

\* The visits of the parts of a value.
LEMMA WeightOfVisits ==
    ASSUME Shape, NEW n \in Nodes
    PROVE  Visits(heap[n].kids) \in Seq(Frames) /\ Weight(Owned, Visits(heap[n].kids)) = Sum(PartsOf(Owned, n))
  <1> DEFINE ks == heap[n].kids
             vs == Visits(ks)
             ps == PartsOf(Owned, n)
             ws == Weights(Owned, vs)
  <1>1. ks \in Seq(Nodes) /\ Len(ks) \in Nat /\ DOMAIN ks = 1..Len(ks)
    BY PartsNow
  <1>2. vs \in Seq(Frames)
    <2>1. <<>> \in Seq(Frames)
      OBVIOUS
    <2> QED BY <1>1, <2>1, Pushed
  <1>3. Len(vs) = Len(ks) /\ \A i \in 1..Len(ks) : vs[i] = Visit(ks[i])
    <2> HIDE DEF ks
    <2>1. vs = [i \in 1..Len(ks) |-> Visit(ks[i])]
      BY <1>1 DEF Visits
    <2> HIDE DEF vs
    <2> QED BY <1>1, <2>1
  <1>4. Owned \in [Nodes -> Nat]
    BY OwnedUnfolds DEF OwnedSizes
  <1>5. /\ ws \in Seq(Nat) /\ Len(ws) = Len(vs)
        /\ \A i \in 1..Len(vs) : ws[i] = IF vs[i].release THEN 0 ELSE Owned[vs[i].node]
    BY <1>2, <1>4, WeightsAreNat
  <1>6. ps \in Seq(Nat) /\ Len(ps) = Len(ks) /\ \A i \in 1..Len(ks) : ps[i] = Owned[ks[i]]
    BY PartsAreExact
  <1> HIDE DEF ks, vs, ps, ws
  <1>7. \A i \in 1..Len(ws) : ws[i] = ps[i]
    <2> TAKE i \in 1..Len(ws)
    <2>1. i \in 1..Len(ks) /\ i \in 1..Len(vs)
      BY <1>3, <1>5
    <2>2. ~vs[i].release /\ vs[i].node = ks[i]
      <3>1. vs[i] = Visit(ks[i])
        BY <1>3, <2>1
      <3>2. ~Visit(ks[i]).release /\ Visit(ks[i]).node = ks[i]
        BY DEF Visit
      <3> QED BY <3>1, <3>2
    <2> QED BY <1>5, <1>6, <2>1, <2>2
  <1>8. ws = ps
    BY <1>3, <1>5, <1>6, <1>7, SeqEqual
  <1> QED BY <1>2, <1>8 DEF Weight, ks, vs, ps, ws

-----------------------------------------------------------------------------
(* The invariant of the sum.                                                 *)

\* Whoever has still to release a lock holds it, and only locks are held.
Held ==
    /\ readers \in [Nodes -> SUBSET Walkers]
    /\ \A l \in Nodes :
        /\ writer[l] # None => IsLock(l)
        /\ readers[l] # {} => Con(l) \in RwLocks /\ writer[l] = None
        /\ \A w \in Walkers : l \in Guards(todo[w]) => writer[l] = w \/ w \in readers[l]

\* The locks around n are still to be released by a recursion.
ShelteredIn(n, s) ==
    \A l \in Nodes : BornCon(l) \in Mutexes \union RwLocks /\ n \in Inner(l) => l \in Guards(s)

\* What is to be visited inside a lock is visited before the lock is released.
Sheltered(s) ==
    \A i \in DOMAIN s : ~s[i].release =>
        \A l \in Nodes : BornCon(l) \in Mutexes \union RwLocks /\ s[i].node \in Inner(l) =>
            \E j \in DOMAIN s : i < j /\ s[j].release /\ s[j].node = l

Within(s, B) == \A i \in DOMAIN s : s[i].node \in B

OnTheWay ==
    /\ start \in [Walkers -> Roots[born]]
    /\ \A w \in Walkers : Sheltered(todo[w]) /\ Within(todo[w], Below[start[w]])

Sums ==
    /\ total \in [Walkers -> Nat] /\ due \in [Walkers -> Int]
    /\ \A w \in Walkers : pc[w] = "idle" => total[w] = 0

AccountInv == Held /\ OnTheWay /\ Sums /\ AccountsForEverything

\* Popping a frame.
LEMMA ShelterPopped ==
    ASSUME NEW s \in Seq(Frames), s # <<>>, Sheltered(s), NEW B, Within(s, B)
    PROVE  /\ Sheltered(Tail(s)) /\ Within(Tail(s), B) /\ Head(s).node \in B
           /\ ~Head(s).release => ShelteredIn(Head(s).node, Tail(s))
  <1> DEFINE t == Tail(s)
  <1>1. /\ Len(s) \in Nat \ {0} /\ DOMAIN s = 1..Len(s) /\ DOMAIN t = 1..(Len(s) - 1)
        /\ \A i \in DOMAIN t : t[i] = s[i + 1]
        /\ Head(s) = s[1]
    OBVIOUS
  <1> HIDE DEF t
  <1>2. \A i \in DOMAIN t : i + 1 \in DOMAIN s /\ t[i] = s[i + 1]
    BY <1>1
  <1>3. ASSUME NEW j \in DOMAIN s, 1 < j PROVE j - 1 \in DOMAIN t /\ t[j - 1] = s[j]
    <2>1. j \in Nat /\ j - 1 \in DOMAIN t /\ (j - 1) + 1 = j
      BY <1>1, <1>3
    <2> QED BY <1>2, <2>1
  <1>4. Sheltered(t)
    <2> SUFFICES ASSUME NEW i \in DOMAIN t, ~t[i].release, NEW l \in Nodes,
                        BornCon(l) \in Mutexes \union RwLocks, t[i].node \in Inner(l)
                 PROVE  \E j \in DOMAIN t : i < j /\ t[j].release /\ t[j].node = l
      BY DEF Sheltered
    <2>1. PICK j \in DOMAIN s : i + 1 < j /\ s[j].release /\ s[j].node = l
      BY <1>2 DEF Sheltered
    <2>2. i \in Nat /\ j \in Nat /\ 1 < j /\ i < j - 1
      BY <1>1, <2>1
    <2>3. j - 1 \in DOMAIN t /\ t[j - 1] = s[j]
      BY <1>3, <2>2
    <2> QED BY <2>1, <2>2, <2>3
  <1>5. Within(t, B)
    BY <1>2 DEF Within
  <1>6. Head(s).node \in B
    BY <1>1 DEF Within
  <1>7. ~Head(s).release => ShelteredIn(Head(s).node, t)
    <2> SUFFICES ASSUME ~s[1].release, NEW l \in Nodes,
                        BornCon(l) \in Mutexes \union RwLocks, s[1].node \in Inner(l)
                 PROVE  l \in Guards(t)
      BY <1>1 DEF ShelteredIn
    <2>1. 1 \in DOMAIN s
      BY <1>1
    <2>2. PICK j \in DOMAIN s : 1 < j /\ s[j].release /\ s[j].node = l
      BY <2>1 DEF Sheltered
    <2>3. j - 1 \in DOMAIN t /\ t[j - 1] = s[j]
      BY <1>3, <2>2
    <2> QED BY <2>2, <2>3 DEF Guards
  <1> QED BY <1>4, <1>5, <1>6, <1>7 DEF t

\* Pushing visits of values that are sheltered by what is on the stack.
LEMMA ShelterPushed ==
    ASSUME NEW ks \in Seq(Nodes), NEW s \in Seq(Frames), Sheltered(s), NEW B, Within(s, B),
           \A k \in Range(ks) : k \in B /\ ShelteredIn(k, s)
    PROVE  Sheltered(Visits(ks) \o s) /\ Within(Visits(ks) \o s, B)
  <1> DEFINE q == Visits(ks) \o s
  <1>1. /\ q \in Seq(Frames) /\ Len(q) = Len(ks) + Len(s)
        /\ \A i \in 1..Len(ks) : q[i] = Visit(ks[i])
        /\ \A i \in 1..Len(s) : q[Len(ks) + i] = s[i]
    BY Pushed
  <1> HIDE DEF q
  <1>2. /\ Len(ks) \in Nat /\ Len(s) \in Nat
        /\ DOMAIN q = 1..Len(q) /\ DOMAIN s = 1..Len(s)
        /\ \A i \in 1..Len(ks) : ks[i] \in Range(ks)
    BY <1>1, SeqFacts
  <1>3. ASSUME NEW j \in DOMAIN s
        PROVE  Len(ks) + j \in DOMAIN q /\ q[Len(ks) + j] = s[j] /\ \A i \in 1..Len(ks) : i < Len(ks) + j
    BY <1>1, <1>2
  <1>4. ASSUME NEW i \in DOMAIN q, ~(i \in 1..Len(ks))
        PROVE  i - Len(ks) \in DOMAIN s /\ q[i] = s[i - Len(ks)]
    <2>1. i \in Nat /\ i - Len(ks) \in 1..Len(s) /\ Len(ks) + (i - Len(ks)) = i
      BY <1>1, <1>2, <1>4
    <2>2. q[Len(ks) + (i - Len(ks))] = s[i - Len(ks)]
      BY <1>1, <2>1
    <2> QED BY <1>2, <2>1, <2>2
  <1>5. ASSUME NEW i \in 1..Len(ks) PROVE q[i].node = ks[i] /\ ks[i] \in Range(ks)
    <2>1. q[i] = Visit(ks[i]) /\ ks[i] \in Range(ks)
      BY <1>1, <1>2
    <2> QED BY <2>1 DEF Visit
  <1>6. Within(q, B)
    <2> SUFFICES ASSUME NEW i \in DOMAIN q PROVE q[i].node \in B
      BY DEF Within
    <2>1. CASE i \in 1..Len(ks)
      BY <1>5, <2>1
    <2>2. CASE ~(i \in 1..Len(ks))
      BY <1>4, <2>2 DEF Within
    <2> QED BY <2>1, <2>2
  <1>7. Sheltered(q)
    <2> SUFFICES ASSUME NEW i \in DOMAIN q, ~q[i].release, NEW l \in Nodes,
                        BornCon(l) \in Mutexes \union RwLocks, q[i].node \in Inner(l)
                 PROVE  \E j \in DOMAIN q : i < j /\ q[j].release /\ q[j].node = l
      BY DEF Sheltered
    <2>1. CASE i \in 1..Len(ks)
      <3>1. l \in Guards(s)
        BY <1>5, <2>1 DEF ShelteredIn
      <3>2. PICK j \in DOMAIN s : s[j].release /\ s[j].node = l
        BY <3>1 DEF Guards
      <3> QED BY <1>3, <2>1, <3>2
    <2>2. CASE ~(i \in 1..Len(ks))
      <3>1. i - Len(ks) \in DOMAIN s /\ q[i] = s[i - Len(ks)]
        BY <1>4, <2>2
      <3>2. PICK j \in DOMAIN s : i - Len(ks) < j /\ s[j].release /\ s[j].node = l
        BY <3>1 DEF Sheltered
      <3>3. i \in Nat /\ j \in Nat /\ i < Len(ks) + j
        BY <1>1, <1>2, <3>2
      <3> QED BY <1>3, <3>2, <3>3
    <2> QED BY <2>1, <2>2
  <1> QED BY <1>6, <1>7 DEF q

\* Pushing a release.
LEMMA ReleasePushed ==
    ASSUME NEW n \in Nodes, NEW s \in Seq(Frames), Sheltered(s), NEW B, Within(s, B), n \in B
    PROVE  /\ <<Release(n)>> \o s \in Seq(Frames)
           /\ Sheltered(<<Release(n)>> \o s) /\ Within(<<Release(n)>> \o s, B)
           /\ Guards(<<Release(n)>> \o s) = Guards(s) \union {n}
  <1> DEFINE r == <<Release(n)>>
             q == r \o s
  <1>1. r \in Seq(Frames) /\ Len(r) = 1 /\ r[1].release /\ r[1].node = n
    <2>1. Release(n) \in Frames /\ Release(n).release /\ Release(n).node = n
      BY DEF Release, Frames
    <2> QED BY <2>1
  <1> HIDE DEF r
  <1>2. /\ q \in Seq(Frames) /\ Len(s) \in Nat /\ Len(q) = 1 + Len(s)
        /\ DOMAIN s = 1..Len(s) /\ DOMAIN q = 1..Len(q) /\ q[1] = r[1]
        /\ \A i \in 1..Len(q) : i > 1 => q[i] = s[i - 1] /\ i - 1 \in 1..Len(s)
    <2>1. r \in Seq(Frames)
      BY <1>1
    <2>2. /\ q \in Seq(Frames) /\ Len(s) \in Nat /\ Len(q) = Len(r) + Len(s)
          /\ DOMAIN s = 1..Len(s) /\ DOMAIN q = 1..Len(q)
          /\ \A i \in 1..Len(r) : q[i] = r[i]
          /\ \A i \in 1..Len(q) : i > Len(r) => q[i] = s[i - Len(r)] /\ i - Len(r) \in 1..Len(s)
      BY <2>1, ConcatFacts
    <2> HIDE DEF q
    <2>3. 1 \in 1..Len(r) /\ Len(r) = 1
      BY <1>1
    <2> QED BY <2>2, <2>3
  <1> HIDE DEF q
  <1>3. ASSUME NEW j \in DOMAIN s PROVE j + 1 \in DOMAIN q /\ q[j + 1] = s[j]
    <2>1. j \in Nat /\ j + 1 \in 1..Len(q) /\ j + 1 > 1 /\ (j + 1) - 1 = j
      BY <1>2
    <2> QED BY <1>2, <2>1
  <1>4. \A i \in DOMAIN q : i = 1 \/ (i > 1 /\ i - 1 \in DOMAIN s /\ q[i] = s[i - 1])
    BY <1>2
  <1>5. Within(q, B)
    BY <1>1, <1>2, <1>4 DEF Within
  <1>6. Sheltered(q)
    <2> SUFFICES ASSUME NEW i \in DOMAIN q, ~q[i].release, NEW l \in Nodes,
                        BornCon(l) \in Mutexes \union RwLocks, q[i].node \in Inner(l)
                 PROVE  \E j \in DOMAIN q : i < j /\ q[j].release /\ q[j].node = l
      BY DEF Sheltered
    <2>1. i - 1 \in DOMAIN s /\ q[i] = s[i - 1]
      BY <1>1, <1>2, <1>4
    <2>2. PICK j \in DOMAIN s : i - 1 < j /\ s[j].release /\ s[j].node = l
      BY <2>1 DEF Sheltered
    <2>3. i < j + 1
      BY <1>2, <2>2
    <2> QED BY <1>3, <2>2, <2>3
  <1>7. Guards(q) = Guards(s) \union {n}
    <2>1. ASSUME NEW i \in DOMAIN q, q[i].release PROVE q[i].node \in Guards(s) \union {n}
      BY <1>1, <1>2, <1>4, <2>1 DEF Guards
    <2>2. ASSUME NEW j \in DOMAIN s, s[j].release PROVE s[j].node \in Guards(q)
      BY <1>3, <2>2 DEF Guards
    <2>3. n \in Guards(q)
      <3>1. 1 \in DOMAIN q
        BY <1>2
      <3> QED BY <1>1, <1>2, <3>1 DEF Guards
    <2> QED BY <2>1, <2>2, <2>3 DEF Guards
  <1> QED BY <1>2, <1>5, <1>6, <1>7 DEF q, r

\* What is inside a lock, and whether a value is stored twice, never changes.
LEMMA StructureStays ==
    ASSUME Shape, Shape', UNCHANGED born
    PROVE  /\ Below' = Below
           /\ \A l \in Nodes : Inner(l)' = Inner(l) /\ BornCon(l)' = BornCon(l)
           /\ \A m \in Nodes : /\ Con(m)' = Con(m) /\ IsLock(m)' = IsLock(m)
                               /\ StoredTwice(m)' = StoredTwice(m)
  <1>1. Below' = Below
    BY DEF Below
  <1>2. \A l \in Nodes : Inner(l)' = Inner(l) /\ BornCon(l)' = BornCon(l)
    BY DEF Inner, ClosedIn, BornCon
  <1>3. ASSUME NEW m \in Nodes
        PROVE  /\ Con(m)' = Con(m) /\ IsLock(m)' = IsLock(m)
               /\ StoredTwice(m)' = StoredTwice(m)
    <2>1. heap'[m].ty = heap[m].ty
      BY DEF Shape
    <2>2. Con(m)' = Con(m)
      BY <2>1 DEF Con
    <2>3. ElementConstant(m)' = ElementConstant(m)
      BY <2>1 DEF ElementConstant, constant_size, TupleConstant, Sum
    <2> QED BY <2>2, <2>3 DEF IsLock, StoredTwice, NotConstant
  <1> QED BY <1>1, <1>2, <1>3

LEMMA OwnedUnchanged ==
    ASSUME Shape, Shape', UNCHANGED <<heap, born>> PROVE Owned' = Owned
  <1>1. \A m \in Nodes : heap'[m] = heap[m] /\ (~IsLock(m) => Parts(m) \subseteq Nodes)
    BY PartsNow DEF Parts
  <1>2. \A k \in Nodes : Con(k)' = Con(k) /\ (Con(k) = "Slice" => heap'[k] = heap[k])
    BY StructureStays
  <1>3. \A m \in Nodes : Owned'[m] = Owned[m]
    BY <1>1, <1>2, OwnedStays
  <1>4. OwnedSizes /\ OwnedSizes'
    <2>1. (Shape => OwnedSizes)'
      BY OwnedUnfolds, PTL
    <2> QED BY <2>1, OwnedUnfolds
  <1>5. Owned \in [Nodes -> Nat] /\ Owned' \in [Nodes -> Nat]
    BY <1>4 DEF OwnedSizes
  <1> QED BY <1>3, <1>5

\* A walk is accounted for.
Accounted(v) ==
    pc[v] \in {"walking", "done"} /\ NothingStoredTwice(start[v]) =>
        due[v] = total[v] + Weight(Owned, todo[v])

LEMMA AllAccounted == AccountsForEverything <=> \A v \in Walkers : Accounted(v)
  BY DEF AccountsForEverything, Accounted, Weight, Weights

\* One walk goes on.
LEMMA WalkGoesOn ==
    ASSUME MallocInv, MallocInv', AccountInv, NEW w \in Walkers, UNCHANGED <<heap, born, start>>,
           NEW q \in Seq(Frames), NEW p \in {"walking", "done", "panicked"}, NEW a \in Nat, NEW d \in Int,
           todo' = [todo EXCEPT ![w] = q], pc' = [pc EXCEPT ![w] = p],
           total' = [total EXCEPT ![w] = a], due' = [due EXCEPT ![w] = d],
           Sheltered(q), Within(q, Below[start[w]]),
           p # "panicked" /\ NothingStoredTwice(start[w]) => d = a + Weight(Owned, q)
    PROVE  OnTheWay' /\ Sums' /\ AccountsForEverything'
  <1>1. /\ Below' = Below /\ Owned' = Owned
        /\ \A l \in Nodes : Inner(l)' = Inner(l) /\ BornCon(l)' = BornCon(l)
        /\ \A m \in Nodes : StoredTwice(m)' = StoredTwice(m)
    BY StructureStays, OwnedUnchanged DEF MallocInv
  <1>2. /\ todo \in [Walkers -> Seq(Frames)] /\ start \in [Walkers -> Nodes]
        /\ pc \in [Walkers -> {"idle", "walking", "done", "panicked"}]
        /\ total \in [Walkers -> Nat] /\ due \in [Walkers -> Int]
    BY DEF MallocInv, Walks, AccountInv, Sums
  <1>3. /\ todo'[w] = q /\ pc'[w] = p /\ total'[w] = a /\ due'[w] = d
        /\ \A v \in Walkers : v # w => /\ todo'[v] = todo[v] /\ pc'[v] = pc[v]
                                       /\ total'[v] = total[v] /\ due'[v] = due[v]
    BY <1>2
  <1>4. OnTheWay'
    <2>1. start' \in [Walkers -> Roots[born']]
      BY DEF AccountInv, OnTheWay
    <2>2. ASSUME NEW v \in Walkers PROVE Sheltered(todo[v])' /\ Within(todo'[v], Below'[start'[v]])
      <3>1. Sheltered(todo'[v]) /\ Within(todo'[v], Below[start[v]])
        BY <1>3 DEF AccountInv, OnTheWay
      <3>2. Sheltered(todo[v])'
        BY <1>1, <3>1 DEF Sheltered
      <3> QED BY <1>1, <3>1, <3>2
    <2> QED BY <2>1, <2>2 DEF OnTheWay, Within
  <1>5. Sums'
    BY <1>2, <1>3 DEF AccountInv, Sums
  <1>6. ASSUME NEW v \in Walkers PROVE Accounted(v)'
    <2>1. NothingStoredTwice(start[v])' <=> NothingStoredTwice(start[v])
      <3>1. \A m \in Below[start[v]] : m \in Nodes
        BY <1>2, BelowIsOrdered DEF MallocInv, Shape
      <3> QED BY <1>1, <3>1 DEF NothingStoredTwice
    <2>2. Weight(Owned, todo[v])' = Weight(Owned, todo'[v])
      BY <1>1 DEF Weight, Weights, Sum
    <2>3. CASE v = w
      BY <1>3, <2>1, <2>2, <2>3 DEF Accounted
    <2>4. CASE v # w
      <3>1. Accounted(v)
        BY AllAccounted DEF AccountInv
      <3> QED BY <1>3, <2>1, <2>2, <2>4, <3>1 DEF Accounted
    <2> QED BY <2>3, <2>4
  <1>7. AccountsForEverything'
    <2>1. (AccountsForEverything <=> \A v \in Walkers : Accounted(v))'
      BY AllAccounted, PTL
    <2> QED BY <1>6, <2>1
  <1> QED BY <1>4, <1>5, <1>7

\* The locks are held as before.
LEMMA HeldStays ==
    ASSUME MallocInv, MallocInv', AccountInv, UNCHANGED <<born, writer, readers>>,
           \A v \in Walkers : Guards(todo'[v]) \subseteq Guards(todo[v])
    PROVE  Held'
  <1>1. \A l \in Nodes : Con(l)' = Con(l) /\ IsLock(l)' = IsLock(l)
    BY StructureStays DEF MallocInv
  <1>2. ASSUME NEW l \in Nodes
        PROVE  /\ writer'[l] # None => IsLock(l)'
               /\ readers'[l] # {} => Con(l)' \in RwLocks /\ writer'[l] = None
               /\ \A w \in Walkers : l \in Guards(todo'[w]) => writer'[l] = w \/ w \in readers'[l]
    BY <1>1 DEF AccountInv, Held
  <1>3. readers' \in [Nodes -> SUBSET Walkers]
    BY DEF AccountInv, Held
  <1> QED BY <1>2, <1>3 DEF Held, Guards

\* The parts of n are sheltered where n is, and by n itself when it is a lock.
LEMMA PartsSheltered ==
    ASSUME Shape, NEW n \in Nodes, NEW s, ShelteredIn(n, s), NEW r, Guards(s) \subseteq Guards(r),
           IsLock(n) => n \in Guards(r)
    PROVE  \A k \in Range(heap[n].kids) : ShelteredIn(k, r)
  <1> SUFFICES ASSUME NEW k \in Range(heap[n].kids), NEW l \in Nodes,
                      BornCon(l) \in Mutexes \union RwLocks, k \in Inner(l)
               PROVE  l \in Guards(r)
    BY DEF ShelteredIn
  <1>1. k \in Range(born[n].kids)
    BY PartsNow
  <1>2. n \in Inner(l) \union {l}
    BY <1>1, OneOwnerInside DEF Shape
  <1>3. CASE n \in Inner(l)
    BY <1>3 DEF ShelteredIn
  <1>4. CASE n = l
    BY <1>4, ConIsBorn
  <1> QED BY <1>2, <1>3, <1>4

\* What is on top of a walk in a state with the invariants.
LEMMA TopOfWalk ==
    ASSUME MallocInv, AccountInv, NEW w \in Walkers, todo[w] # <<>>
    PROVE  LET s == todo[w]
               n == Next1(w).node
           IN  /\ s \in Seq(Frames) /\ Tail(s) \in Seq(Frames) /\ Next1(w) = Head(s) /\ n \in Nodes
               /\ Sheltered(Tail(s)) /\ Within(Tail(s), Below[start[w]]) /\ n \in Below[start[w]]
               /\ ~Next1(w).release => ShelteredIn(n, Tail(s)) /\ Guards(s) = Guards(Tail(s))
               /\ Guards(Tail(s)) \subseteq Guards(s)
               /\ NestedIn(n, Tail(s))
               /\ Owned \in [Nodes -> Nat] /\ Weight(Owned, Tail(s)) \in Nat
               /\ Weight(Owned, s) = (IF Next1(w).release THEN 0 ELSE Owned[n]) + Weight(Owned, Tail(s))
               /\ start[w] \in Nodes /\ total[w] \in Nat /\ due[w] \in Int
               /\ pc[w] = "walking" /\ NothingStoredTwice(start[w]) => due[w] = total[w] + Weight(Owned, s)
               /\ \A k \in Range(heap[n].kids) : k \in Below[start[w]]
  <1> DEFINE s == todo[w]
             n == Next1(w).node
  <1>1. s \in Seq(Frames) /\ s # <<>> /\ Nested(s) /\ Next1(w) = Head(s) /\ n \in Nodes
    BY OnTop DEF MallocInv
  <1>2. /\ Tail(s) \in Seq(Frames) /\ NestedIn(n, Tail(s))
        /\ Guards(Tail(s)) \subseteq Guards(s)
        /\ ~Next1(w).release => Guards(s) = Guards(Tail(s))
    BY <1>1, Popped
  <1>3. Sheltered(s) /\ Within(s, Below[start[w]])
    BY DEF AccountInv, OnTheWay
  <1>4. /\ Sheltered(Tail(s)) /\ Within(Tail(s), Below[start[w]]) /\ n \in Below[start[w]]
        /\ ~Next1(w).release => ShelteredIn(n, Tail(s))
    BY <1>1, <1>3, ShelterPopped
  <1>5. Owned \in [Nodes -> Nat]
    BY OwnedUnfolds DEF MallocInv, OwnedSizes
  <1>6. /\ Weight(Owned, s) = (IF Next1(w).release THEN 0 ELSE Owned[n]) + Weight(Owned, Tail(s))
        /\ Weight(Owned, Tail(s)) \in Nat
    BY <1>1, <1>5, WeightOfTop
  <1>7. start[w] \in Nodes /\ total[w] \in Nat /\ due[w] \in Int
    BY DEF MallocInv, Walks, AccountInv, Sums
  <1>8. pc[w] = "walking" /\ NothingStoredTwice(start[w]) => due[w] = total[w] + Weight(Owned, s)
    BY AllAccounted DEF AccountInv, Accounted
  <1>9. \A k \in Range(heap[n].kids) : k \in Below[start[w]]
    BY <1>1, <1>4, <1>7, PartsAreBelow, BelowIsOrdered DEF MallocInv, Shape
  <1> QED BY <1>1, <1>2, <1>4, <1>5, <1>6, <1>7, <1>8, <1>9

\* A value is visited that is no lock: the sum takes over what is not left to
\* its parts.
LEMMA VisitKeepsAccount ==
    ASSUME MallocInv, MallocInv', AccountInv, NEW w \in Walkers, pc[w] = "walking", todo[w] # <<>>,
           NEW n \in Nodes, n = Next1(w).node, ~Next1(w).release, ~IsLock(n),
           NEW own \in Nat, NEW ks \in {<<>>, heap[n].kids}, Adds(w, own, ks),
           NEW d \in Int, due' = [due EXCEPT ![w] = d],
           NothingStoredTwice(start[w]) =>
               d = due[w] - Owned[n] + own + (IF ks = <<>> THEN 0 ELSE Sum(PartsOf(Owned, n)))
    PROVE  AccountInv'
  <1> DEFINE s == todo[w]
             q == Visits(ks) \o Tail(s)
  <1>1. /\ s \in Seq(Frames) /\ Tail(s) \in Seq(Frames)
        /\ Sheltered(Tail(s)) /\ Within(Tail(s), Below[start[w]])
        /\ ShelteredIn(n, Tail(s)) /\ Guards(s) = Guards(Tail(s)) /\ NestedIn(n, Tail(s))
        /\ Owned \in [Nodes -> Nat] /\ Weight(Owned, Tail(s)) \in Nat
        /\ Weight(Owned, s) = Owned[n] + Weight(Owned, Tail(s))
        /\ total[w] \in Nat /\ due[w] \in Int
        /\ NothingStoredTwice(start[w]) => due[w] = total[w] + Weight(Owned, s)
        /\ \A k \in Range(heap[n].kids) : k \in Below[start[w]]
    BY TopOfWalk
  <1>2. /\ ks \in Seq(Nodes) /\ Visits(ks) \in Seq(Frames)
        /\ Weight(Owned, Visits(ks)) = IF ks = <<>> THEN 0 ELSE Sum(PartsOf(Owned, n))
        /\ Range(ks) \subseteq Range(heap[n].kids)
    <2>1. CASE ks = <<>>
      <3>1. <<>> \in Seq(Nodes) /\ <<>> \in Seq(Frames) /\ Range(<<>>) = {} /\ Visits(<<>>) = <<>>
        BY DEF Range, Visits
      <3>2. Weight(Owned, <<>>) = 0
        <4>1. Weights(Owned, <<>>) = <<>>
          BY DEF Weights
        <4> QED BY <4>1, SumOfNone DEF Weight
      <3> QED BY <2>1, <3>1, <3>2
    <2>2. CASE ks # <<>>
      <3>1. ks = heap[n].kids
        BY <2>2
      <3>2. heap[n].kids \in Seq(Nodes)
        BY PartsNow DEF MallocInv
      <3>3. /\ Visits(heap[n].kids) \in Seq(Frames)
            /\ Weight(Owned, Visits(heap[n].kids)) = Sum(PartsOf(Owned, n))
        BY WeightOfVisits DEF MallocInv
      <3> QED BY <2>2, <3>1, <3>2, <3>3
    <2> QED BY <2>1, <2>2
  <1>3. /\ todo' = [todo EXCEPT ![w] = q] /\ total' = [total EXCEPT ![w] = total[w] + own]
        /\ UNCHANGED <<heap, born, pc, start, writer, readers>>
    BY DEF Adds, Rest, locks
  <1> HIDE DEF s, q
  <1>4. \A k \in Range(ks) : k \in Below[start[w]] /\ ShelteredIn(k, Tail(s))
    <2>1. \A k \in Range(heap[n].kids) : ShelteredIn(k, Tail(s))
      BY <1>1, PartsSheltered DEF MallocInv
    <2> QED BY <1>1, <1>2, <2>1
  <1>5. q \in Seq(Frames) /\ Sheltered(q) /\ Within(q, Below[start[w]])
    BY <1>1, <1>2, <1>4, ShelterPushed, Pushed DEF q
  <1>6. Weight(Owned, q) = Weight(Owned, Visits(ks)) + Weight(Owned, Tail(s))
    BY <1>1, <1>2, WeightOfConcat DEF q
  <1>7. NothingStoredTwice(start[w]) => d = (total[w] + own) + Weight(Owned, q)
    <2> SUFFICES ASSUME NothingStoredTwice(start[w]) PROVE d = (total[w] + own) + Weight(Owned, q)
      OBVIOUS
    <2> DEFINE x == IF ks = <<>> THEN 0 ELSE Sum(PartsOf(Owned, n))
    <2>1. Owned[n] \in Nat /\ x \in Nat /\ total[w] \in Nat /\ Weight(Owned, Tail(s)) \in Nat
      BY <1>1, PartsAreExact DEF MallocInv
    <2>2. due[w] = total[w] + (Owned[n] + Weight(Owned, Tail(s))) /\ d = due[w] - Owned[n] + own + x
      BY <1>1
    <2>3. Weight(Owned, q) = x + Weight(Owned, Tail(s))
      BY <1>2, <1>6
    <2> HIDE DEF x
    <2> QED BY <2>1, <2>2, <2>3
  <1>8. OnTheWay' /\ Sums' /\ AccountsForEverything'
    <2>1. pc' = [pc EXCEPT ![w] = "walking"] /\ total[w] + own \in Nat
      BY <1>1, <1>3 DEF MallocInv, Walks
    <2> QED BY <1>3, <1>5, <1>7, <2>1, WalkGoesOn
  <1>9. Held'
    <2>1. \A k \in Range(ks) : NestedIn(k, Tail(s))
      <3>1. \A k \in Range(heap[n].kids) : k \in Below[n]
        BY PartsAreBelow DEF MallocInv
      <3> QED BY <1>1, <1>2, <3>1, DeeperNested DEF MallocInv, Shape
    <2>2. Nested(Tail(s))
      <3>1. Nested(s) /\ s # <<>>
        BY DEF MallocInv, Walks, s
      <3> QED BY <1>1, <3>1, Popped
    <2>3. Guards(q) = Guards(s)
      BY <1>1, <1>2, <2>1, <2>2, PushVisits DEF q
    <2>4. \A v \in Walkers : Guards(todo'[v]) \subseteq Guards(todo[v])
      BY <1>3, <2>3 DEF MallocInv, Walks, s
    <2> QED BY <1>3, <2>4, HeldStays
  <1> QED BY <1>8, <1>9 DEF AccountInv

LEMMA VisitsKeepAccount ==
    ASSUME MallocInv, MallocInv', AccountInv, NEW w \in Walkers, pc[w] = "walking", todo[w] # <<>>,
           NEW n \in Nodes, n = Next1(w).node,
           VisitCollection(w, n) \/ VisitValue(w, n) \/ VisitConditionally(w, n)
    PROVE  AccountInv'
  <1>1. /\ Storage(n) \in Nat /\ Owned[n] \in Nat /\ Sum(PartsOf(Owned, n)) \in Nat
        /\ ~IsLock(n) => Owned[n] = Storage(n) + Sum(PartsOf(Owned, n))
    BY PartsAreExact DEF MallocInv
  <1>2. /\ due[w] \in Int /\ due = [due EXCEPT ![w] = due[w]]
        /\ n \in Below[start[w]]
    BY TopOfWalk DEF AccountInv, Sums
  <1>3. heap[n].kids = <<>> => Sum(PartsOf(Owned, n)) = 0
    <2>1. PartsOf(Owned, n) \in Seq(Nat) /\ Len(PartsOf(Owned, n)) = Len(heap[n].kids)
      BY PartsAreExact DEF MallocInv
    <2>2. heap[n].kids = <<>> => PartsOf(Owned, n) = <<>>
      BY <2>1
    <2> QED BY <2>2, SumOfNone
  <1>4. CASE VisitCollection(w, n)
    <2>1. ~Next1(w).release /\ Con(n) \in Collections /\ due' = [due EXCEPT ![w] = due[w]]
      BY <1>2, <1>4 DEF VisitCollection, At
    <2>2. ~IsLock(n)
      BY <2>1 DEF IsLock, Collections, Sequential, Maps, Mutexes, RwLocks
    <2>3. CASE ElementConstant(n) # NotConstant
      <3>1. Adds(w, Storage(n) + Length(n) * ElementConstant(n), <<>>)
        BY <1>4, <2>3 DEF VisitCollection
      <3>2. Owned[n] = Storage(n) + Length(n) * ElementConstant(n)
        BY <2>1, <2>3, ElementsAreExact DEF MallocInv
      <3>3. Adds(w, Owned[n], <<>>)
        BY <3>1, <3>2
      <3>4. due[w] = due[w] - Owned[n] + Owned[n] + (IF <<>> = <<>> THEN 0 ELSE Sum(PartsOf(Owned, n)))
        BY <1>1, <1>2
      <3> QED BY <1>1, <1>2, <2>1, <2>2, <3>3, <3>4, VisitKeepsAccount
    <2>4. CASE ElementConstant(n) = NotConstant
      <3> DEFINE own == IF StoredTwice(n) THEN 2 * Storage(n) ELSE Storage(n)
      <3>1. Adds(w, own, heap[n].kids)
        BY <1>4, <2>4 DEF VisitCollection
      <3>2. own \in Nat
        BY <1>1
      <3>3. ASSUME NothingStoredTwice(start[w])
            PROVE  due[w] = due[w] - Owned[n] + own
                            + (IF heap[n].kids = <<>> THEN 0 ELSE Sum(PartsOf(Owned, n)))
        <4>1. ~StoredTwice(n)
          BY <1>2, <3>3 DEF NothingStoredTwice
        <4> QED BY <1>1, <1>2, <1>3, <2>2, <4>1
      <3> HIDE DEF own
      <3> QED BY <1>2, <2>1, <2>2, <3>1, <3>2, <3>3, VisitKeepsAccount
    <2> QED BY <2>3, <2>4
  <1>5. ASSUME ~Next1(w).release, ~IsLock(n), Adds(w, Storage(n), heap[n].kids), UNCHANGED due
        PROVE  AccountInv'
    <2>1. PICK own \in Nat : own = Storage(n)
      BY <1>1
    <2>2. PICK d \in Int : d = due[w]
      BY <1>2
    <2>3. d = due[w] - Owned[n] + own + (IF heap[n].kids = <<>> THEN 0 ELSE Sum(PartsOf(Owned, n)))
      BY <1>1, <1>2, <1>3, <1>5, <2>1, <2>2
    <2>4. due' = [due EXCEPT ![w] = d] /\ Adds(w, own, heap[n].kids)
      BY <1>2, <1>5, <2>1, <2>2
    <2>5. ~Next1(w).release /\ ~IsLock(n) /\ heap[n].kids \in {<<>>, heap[n].kids}
      BY <1>5
    <2> QED BY <2>3, <2>4, <2>5, VisitKeepsAccount
  <1>6. CASE VisitValue(w, n)
    BY <1>5, <1>6 DEF VisitValue, At
  <1>7. CASE VisitConditionally(w, n)
    <2>1. ~Next1(w).release /\ ~IsLock(n)
      BY <1>7 DEF VisitConditionally, At, IsLock, Mutexes, RwLocks
    <2>2. CASE Parts(n) \subseteq seen[w]
      <3>1. Adds(w, 0, <<>>) /\ due' = [due EXCEPT ![w] = due[w] - Owned[n]]
        BY <1>7, <2>2 DEF VisitConditionally
      <3>2. /\ due[w] - Owned[n] \in Int /\ 0 \in Nat
            /\ due[w] - Owned[n] = due[w] - Owned[n] + 0 + (IF <<>> = <<>> THEN 0 ELSE Sum(PartsOf(Owned, n)))
        BY <1>1, <1>2
      <3> QED BY <2>1, <3>1, <3>2, VisitKeepsAccount
    <2>3. CASE ~(Parts(n) \subseteq seen[w])
      <3>1. Adds(w, Storage(n), heap[n].kids) /\ UNCHANGED due
        BY <1>7, <2>3 DEF VisitConditionally
      <3> QED BY <1>5, <2>1, <3>1
    <2> QED BY <2>2, <2>3
  <1> QED BY <1>4, <1>6, <1>7

\* A lock is taken: what it protects is accounted for from now on.
LEMMA AcquireKeepsAccount ==
    ASSUME MallocInv, MallocInv', AccountInv, NEW w \in Walkers, pc[w] = "walking", todo[w] # <<>>,
           NEW n \in Nodes, n = Next1(w).node, AcquireLock(w, n)
    PROVE  AccountInv'
  <1> DEFINE s == todo[w]
             B == Below[start[w]]
             r == <<Release(n)>> \o Tail(s)
             vs == Visits(heap[n].kids)
             q == vs \o r
             d == due[w] + Sum(PartsOf(Owned, n))
  <1>0. ~Next1(w).release /\ IsLock(n) /\ writer[n] = None
    BY DEF AcquireLock, At
  <1>1. /\ s \in Seq(Frames) /\ Tail(s) \in Seq(Frames)
        /\ Sheltered(Tail(s)) /\ Within(Tail(s), B) /\ n \in B
        /\ ShelteredIn(n, Tail(s)) /\ Guards(s) = Guards(Tail(s)) /\ NestedIn(n, Tail(s))
        /\ Owned \in [Nodes -> Nat] /\ Weight(Owned, Tail(s)) \in Nat
        /\ Weight(Owned, s) = Owned[n] + Weight(Owned, Tail(s))
        /\ total[w] \in Nat /\ due[w] \in Int
        /\ NothingStoredTwice(start[w]) => due[w] = total[w] + Weight(Owned, s)
        /\ \A k \in Range(heap[n].kids) : k \in B
    BY <1>0, TopOfWalk
  <1>2. /\ Owned[n] = 0 /\ Sum(PartsOf(Owned, n)) \in Nat
        /\ heap[n].kids \in Seq(Nodes) /\ vs \in Seq(Frames)
        /\ Weight(Owned, vs) = Sum(PartsOf(Owned, n))
    BY <1>0, PartsAreExact, PartsNow, WeightOfVisits DEF MallocInv
  <1>3. r \in Seq(Frames) /\ Sheltered(r) /\ Within(r, B) /\ Guards(r) = Guards(s) \union {n}
    BY <1>1, ReleasePushed
  <1>4. /\ todo' = [todo EXCEPT ![w] = q] /\ due' = [due EXCEPT ![w] = d]
        /\ UNCHANGED <<heap, born, pc, start, total>>
        /\ \/ Con(n) \in Mutexes /\ writer' = [writer EXCEPT ![n] = w] /\ UNCHANGED readers
           \/ /\ Con(n) \notin Mutexes /\ readers' = [readers EXCEPT ![n] = @ \union {w}]
              /\ UNCHANGED writer
    <2>1. /\ todo' = [todo EXCEPT ![w] = vs \o <<Release(n)>> \o Tail(s)]
          /\ due' = [due EXCEPT ![w] = d] /\ UNCHANGED <<heap, born, pc, start, total>>
          /\ \/ Con(n) \in Mutexes /\ writer' = [writer EXCEPT ![n] = w] /\ UNCHANGED readers
             \/ /\ Con(n) \notin Mutexes /\ readers' = [readers EXCEPT ![n] = @ \union {w}]
                /\ UNCHANGED writer
      BY DEF AcquireLock, Rest, PartsOf
    <2>2. <<Release(n)>> \in Seq(Frames)
      <3>1. Release(n) \in Frames
        BY DEF Release, Frames
      <3> QED BY <3>1
    <2>3. vs \o <<Release(n)>> \o Tail(s) = q
      <3> HIDE DEF s, vs
      <3> QED BY <1>1, <1>2, <2>2, FramesAssociate, Zenon DEF q, r
    <2> QED BY <2>1, <2>3
  <1> HIDE DEF s, B, r, vs, q, d
  <1>5. \A k \in Range(heap[n].kids) : k \in B /\ ShelteredIn(k, r)
    BY <1>0, <1>1, <1>3, PartsSheltered DEF MallocInv
  <1>6. q \in Seq(Frames) /\ Sheltered(q) /\ Within(q, B)
    BY <1>2, <1>3, <1>5, ShelterPushed, Pushed DEF q, vs
  <1>7. Weight(Owned, q) = Sum(PartsOf(Owned, n)) + Weight(Owned, Tail(s))
    <2>1. Release(n) \in Frames /\ Release(n).release
      BY DEF Release, Frames
    <2>2. <<Release(n)>> \in Seq(Frames) /\ Weight(Owned, <<Release(n)>>) = 0
      BY <1>1, <2>1, WeightOfOne
    <2>3. Weight(Owned, r) = 0 + Weight(Owned, Tail(s))
      BY <1>1, <2>2, WeightOfConcat DEF r
    <2>4. Weight(Owned, q) = Weight(Owned, vs) + Weight(Owned, r)
      BY <1>1, <1>2, <1>3, WeightOfConcat DEF q
    <2> QED BY <1>1, <1>2, <2>3, <2>4
  <1>8. OnTheWay' /\ Sums' /\ AccountsForEverything'
    <2>1. /\ pc' = [pc EXCEPT ![w] = "walking"] /\ total' = [total EXCEPT ![w] = total[w]]
      BY <1>4 DEF MallocInv, Walks, AccountInv, Sums
    <2>2. d \in Int
      BY <1>1, <1>2 DEF d
    <2>3. NothingStoredTwice(start[w]) => d = total[w] + Weight(Owned, q)
      <3> DEFINE x == Sum(PartsOf(Owned, n))
                 y == Weight(Owned, Tail(s))
                 z == Weight(Owned, s)
      <3>1. x \in Nat /\ y \in Nat /\ Owned[n] = 0 /\ z = Owned[n] + y /\ total[w] \in Nat
        BY <1>1, <1>2
      <3>2. Weight(Owned, q) = x + y /\ d = due[w] + x
        BY <1>7 DEF d
      <3>3. NothingStoredTwice(start[w]) => due[w] = total[w] + z
        BY <1>1
      <3> HIDE DEF x, y, z
      <3> QED BY <3>1, <3>2, <3>3
    <2> DEFINE a == total[w]
    <2>4. /\ q \in Seq(Frames) /\ a \in Nat /\ "walking" \in {"walking", "done", "panicked"}
          /\ todo' = [todo EXCEPT ![w] = q] /\ due' = [due EXCEPT ![w] = d]
          /\ UNCHANGED <<heap, born, start>>
      BY <1>1, <1>4, <1>6
    <2>5. Sheltered(q) /\ Within(q, Below[start[w]])
      BY <1>6 DEF B
    <2> HIDE DEF a
    <2>6. total' = [total EXCEPT ![w] = a] /\ (NothingStoredTwice(start[w]) => d = a + Weight(Owned, q))
      BY <2>1, <2>3 DEF a
    <2> QED BY <2>1, <2>2, <2>4, <2>5, <2>6, WalkGoesOn
  <1>9. Held'
    <2>1. Guards(q) = Guards(s) \union {n}
      <3>1. Nested(Tail(s))
        <4>1. Nested(s) /\ s # <<>>
          BY DEF MallocInv, Walks, s
        <4> QED BY <1>1, <4>1, Popped
      <3>2. Nested(r) /\ \A k \in Below[n] \ {n} : NestedIn(k, r)
        <4>1. /\ Nested(s) /\ s # <<>> /\ ~Head(s).release /\ n = Head(s).node /\ born \in Heaps
          BY <1>0 DEF MallocInv, Walks, s, Next1, Shape
        <4> QED BY <1>1, <4>1, LockPushed DEF r
      <3>3. \A k \in Range(heap[n].kids) : NestedIn(k, r)
        BY <3>2, PartsAreBelow DEF MallocInv
      <3> QED BY <1>2, <1>3, <3>2, <3>3, PushVisits DEF q, vs
    <2>2. todo'[w] = q /\ \A v \in Walkers : v # w => todo'[v] = todo[v]
      BY <1>4 DEF MallocInv, Walks
    <2>3. \A v \in Walkers : Guards(todo'[v]) = IF v = w THEN Guards(todo[v]) \union {n} ELSE Guards(todo[v])
      BY <2>1, <2>2 DEF s
    <2>4. \A l \in Nodes : Con(l)' = Con(l) /\ IsLock(l)' = IsLock(l)
      BY <1>4, StructureStays DEF MallocInv
    <2>5. readers' \in [Nodes -> SUBSET Walkers] /\ readers \in [Nodes -> SUBSET Walkers]
          /\ writer \in [Nodes -> Free]
      BY <1>4 DEF AccountInv, Held, MallocInv, GuardsOnStack
    <2>6. ASSUME NEW l \in Nodes
          PROVE  /\ writer'[l] # None => IsLock(l)'
                 /\ readers'[l] # {} => Con(l)' \in RwLocks /\ writer'[l] = None
                 /\ \A v \in Walkers : l \in Guards(todo'[v]) => writer'[l] = v \/ v \in readers'[l]
      <3>0. /\ writer[l] # None => IsLock(l)
            /\ readers[l] # {} => Con(l) \in RwLocks /\ writer[l] = None
            /\ \A v \in Walkers : l \in Guards(todo[v]) => writer[l] = v \/ v \in readers[l]
        BY DEF AccountInv, Held
      <3>1. CASE l # n
        <4>1. writer'[l] = writer[l] /\ readers'[l] = readers[l]
          BY <1>4, <2>5, <3>1
        <4>2. \A v \in Walkers : l \in Guards(todo'[v]) => l \in Guards(todo[v])
          BY <2>3, <3>1
        <4> QED BY <2>4, <3>0, <4>1, <4>2
      <3>2. CASE l = n
        <4>1. CASE Con(n) \in Mutexes
          <5>1. writer'[n] = w /\ readers'[n] = readers[n] /\ Con(n) \notin RwLocks
            BY <1>4, <2>5, <4>1 DEF Mutexes, RwLocks
          <5>2. readers[n] = {}
            BY <3>0, <3>2, <5>1
          <5>3. \A v \in Walkers : n \notin Guards(todo[v])
            BY <1>0, <3>0, <3>2, <5>2, MallocAssumption
          <5> QED BY <1>0, <2>3, <2>4, <3>2, <5>1, <5>2, <5>3
        <4>2. CASE Con(n) \notin Mutexes
          <5>1. writer'[n] = None /\ readers'[n] = readers[n] \union {w} /\ Con(n) \in RwLocks
            BY <1>0, <1>4, <2>5, <4>2 DEF IsLock
          <5>2. \A v \in Walkers : n \in Guards(todo[v]) => v \in readers[n]
            BY <1>0, <3>0, <3>2, MallocAssumption
          <5> QED BY <2>3, <2>4, <3>2, <5>1, <5>2
        <4> QED BY <4>1, <4>2
      <3> QED BY <3>1, <3>2
    <2> QED BY <2>5, <2>6 DEF Held, Guards
  <1> QED BY <1>8, <1>9 DEF AccountInv

\* A guard is dropped: it is the innermost, so the others stay held.
LEMMA ReleaseKeepsAccount ==
    ASSUME MallocInv, MallocInv', AccountInv, NEW w \in Walkers, pc[w] = "walking", todo[w] # <<>>,
           NEW n \in Nodes, n = Next1(w).node, ReleaseLock(w)
    PROVE  AccountInv'
  <1> DEFINE s == todo[w]
  <1>0. Next1(w).release
    BY DEF ReleaseLock
  <1>1. /\ Tail(s) \in Seq(Frames) /\ Sheltered(Tail(s)) /\ Within(Tail(s), Below[start[w]])
        /\ NestedIn(n, Tail(s)) /\ Guards(Tail(s)) \subseteq Guards(s)
        /\ Weight(Owned, Tail(s)) \in Nat /\ Weight(Owned, s) = 0 + Weight(Owned, Tail(s))
        /\ total[w] \in Nat /\ due[w] \in Int
        /\ NothingStoredTwice(start[w]) => due[w] = total[w] + Weight(Owned, s)
    BY <1>0, TopOfWalk
  <1>2. /\ todo' = [todo EXCEPT ![w] = Tail(s)]
        /\ writer' = [writer EXCEPT ![n] = IF @ = w THEN None ELSE @]
        /\ readers' = [readers EXCEPT ![n] = @ \ {w}]
        /\ UNCHANGED <<heap, born, pc, start, total, due>>
    BY DEF ReleaseLock, Rest
  <1>3. OnTheWay' /\ Sums' /\ AccountsForEverything'
    <2>1. /\ pc' = [pc EXCEPT ![w] = "walking"] /\ total' = [total EXCEPT ![w] = total[w]]
          /\ due' = [due EXCEPT ![w] = due[w]]
      BY <1>2 DEF MallocInv, Walks, AccountInv, Sums
    <2>2. NothingStoredTwice(start[w]) => due[w] = total[w] + Weight(Owned, Tail(s))
      BY <1>1
    <2> HIDE DEF s
    <2> QED BY <1>1, <1>2, <2>1, <2>2, WalkGoesOn
  <1>4. Held'
    <2>1. n \notin Guards(Tail(s))
      BY <1>1 DEF NestedIn, Guards
    <2>2. todo'[w] = Tail(s) /\ \A v \in Walkers : v # w => todo'[v] = todo[v]
      BY <1>2 DEF MallocInv, Walks
    <2>3. \A l \in Nodes : Con(l)' = Con(l) /\ IsLock(l)' = IsLock(l)
      BY <1>2, StructureStays DEF MallocInv
    <2>4. readers' \in [Nodes -> SUBSET Walkers] /\ readers \in [Nodes -> SUBSET Walkers]
          /\ writer \in [Nodes -> Free]
      BY <1>2 DEF AccountInv, Held, MallocInv, GuardsOnStack
    <2>5. ASSUME NEW l \in Nodes
          PROVE  /\ writer'[l] # None => IsLock(l)'
                 /\ readers'[l] # {} => Con(l)' \in RwLocks /\ writer'[l] = None
                 /\ \A v \in Walkers : l \in Guards(todo'[v]) => writer'[l] = v \/ v \in readers'[l]
      <3>0. /\ writer[l] # None => IsLock(l)
            /\ readers[l] # {} => Con(l) \in RwLocks /\ writer[l] = None
            /\ \A v \in Walkers : l \in Guards(todo[v]) => writer[l] = v \/ v \in readers[l]
        BY DEF AccountInv, Held
      <3>1. /\ writer'[l] \in {None, writer[l]} /\ readers'[l] \subseteq readers[l]
            /\ \A v \in Walkers : ~(v = w /\ l = n) => (writer[l] = v => writer'[l] = v)
                                                       /\ (v \in readers[l] => v \in readers'[l])
        BY <1>2, <2>4
      <3>2. ASSUME NEW v \in Walkers, l \in Guards(todo'[v]) PROVE writer'[l] = v \/ v \in readers'[l]
        <4>1. l \in Guards(todo[v]) /\ ~(v = w /\ l = n)
          BY <1>1, <2>1, <2>2, <3>2
        <4> QED BY <3>0, <3>1, <4>1
      <3>3. writer'[l] # None => IsLock(l)'
        BY <2>3, <3>0, <3>1
      <3>4. readers'[l] # {} => Con(l)' \in RwLocks /\ writer'[l] = None
        BY <2>3, <3>0, <3>1
      <3> QED BY <3>2, <3>3, <3>4
    <2> QED BY <2>4, <2>5 DEF Held, Guards
  <1> QED BY <1>3, <1>4 DEF AccountInv

\* A walk panics, and nothing is left on its stack.
LEMMA UnwindKeepsAccount ==
    ASSUME MallocInv, MallocInv', AccountInv, NEW w \in Walkers, NEW n, Unwind(w, n)
    PROVE  AccountInv'
  <1>1. /\ writer' = [l \in Nodes |-> IF writer[l] = w THEN None ELSE writer[l]]
        /\ readers' = [l \in Nodes |-> readers[l] \ {w}]
        /\ pc' = [pc EXCEPT ![w] = "panicked"] /\ todo' = [todo EXCEPT ![w] = <<>>]
        /\ UNCHANGED <<heap, born, start, total, due>>
    BY DEF Unwind
  <1>2. <<>> \in Seq(Frames) /\ Sheltered(<<>>) /\ Within(<<>>, Below[start[w]]) /\ Guards(<<>>) = {}
    BY DEF Sheltered, Within, Guards
  <1>3. OnTheWay' /\ Sums' /\ AccountsForEverything'
    <2>1. /\ total' = [total EXCEPT ![w] = total[w]] /\ due' = [due EXCEPT ![w] = due[w]]
          /\ total[w] \in Nat /\ due[w] \in Int
      BY <1>1 DEF AccountInv, Sums
    <2> QED BY <1>1, <1>2, <2>1, WalkGoesOn
  <1>4. Held'
    <2>1. todo'[w] = <<>> /\ \A v \in Walkers : v # w => todo'[v] = todo[v]
      BY <1>1 DEF MallocInv, Walks
    <2>2. \A l \in Nodes : Con(l)' = Con(l) /\ IsLock(l)' = IsLock(l)
      BY <1>1, StructureStays DEF MallocInv
    <2>3. readers' \in [Nodes -> SUBSET Walkers]
      BY <1>1 DEF AccountInv, Held
    <2>4. ASSUME NEW l \in Nodes
          PROVE  /\ writer'[l] # None => IsLock(l)'
                 /\ readers'[l] # {} => Con(l)' \in RwLocks /\ writer'[l] = None
                 /\ \A v \in Walkers : l \in Guards(todo'[v]) => writer'[l] = v \/ v \in readers'[l]
      <3>0. /\ writer[l] # None => IsLock(l)
            /\ readers[l] # {} => Con(l) \in RwLocks /\ writer[l] = None
            /\ \A v \in Walkers : l \in Guards(todo[v]) => writer[l] = v \/ v \in readers[l]
        BY DEF AccountInv, Held
      <3>1. /\ writer'[l] \in {None, writer[l]} /\ readers'[l] \subseteq readers[l]
            /\ \A v \in Walkers : v # w => (writer[l] = v => writer'[l] = v)
                                           /\ (v \in readers[l] => v \in readers'[l])
        BY <1>1
      <3>2. ASSUME NEW v \in Walkers, l \in Guards(todo'[v]) PROVE writer'[l] = v \/ v \in readers'[l]
        <4>1. l \in Guards(todo[v]) /\ v # w
          BY <1>2, <2>1, <3>2
        <4> QED BY <3>0, <3>1, <4>1
      <3>3. writer'[l] # None => IsLock(l)'
        BY <2>2, <3>0, <3>1
      <3>4. readers'[l] # {} => Con(l)' \in RwLocks /\ writer'[l] = None
        BY <2>2, <3>0, <3>1
      <3> QED BY <3>2, <3>3, <3>4
    <2> QED BY <2>3, <2>4 DEF Held, Guards
  <1> QED BY <1>3, <1>4 DEF AccountInv

\* A walk begins at a value that is inside no lock, or is done.
LEMMA BeginAndEndKeepAccount ==
    ASSUME MallocInv, MallocInv', AccountInv, NEW w \in Walkers, MallocSizeOf(w) \/ Finish(w)
    PROVE  AccountInv'
  <1>0. /\ start[w] \in Nodes /\ start[w] \in Roots[born] /\ total[w] \in Nat /\ due[w] \in Int
        /\ total = [total EXCEPT ![w] = total[w]]
        /\ pc[w] # "walking" => todo[w] = <<>>
    BY DEF MallocInv, Walks, AccountInv, Sums, OnTheWay
  <1>1. CASE MallocSizeOf(w)
    <2> DEFINE x == Visit(start[w])
               q == <<x>>
    <2>1. /\ pc[w] = "idle" /\ todo' = [todo EXCEPT ![w] = q] /\ pc' = [pc EXCEPT ![w] = "walking"]
          /\ due' = [due EXCEPT ![w] = Owned[start[w]]]
          /\ UNCHANGED <<heap, born, start, total, writer, readers>>
      BY <1>1 DEF MallocSizeOf, locks
    <2>2. x \in Frames /\ ~x.release /\ x.node = start[w]
      BY <1>0 DEF Visit, Frames
    <2> HIDE DEF x
    <2>3. q \in Seq(Frames) /\ DOMAIN q = {1} /\ q[1] = x
      BY <2>2
    <2>4. Owned \in [Nodes -> Nat] /\ Owned[start[w]] \in Nat /\ Owned[start[w]] \in Int /\ total[w] = 0
      <3>1. Owned \in [Nodes -> Nat]
        BY OwnedUnfolds DEF MallocInv, OwnedSizes
      <3> QED BY <1>0, <2>1, <3>1 DEF AccountInv, Sums
    <2>5. Weight(Owned, q) = Owned[start[w]]
      BY <2>2, <2>4, WeightOfOne
    <2> HIDE DEF q
    <2>6. Sheltered(q)
      <3>1. \A l \in Nodes : start[w] \notin Inner(l)
        BY <1>0, OneOwnerInside DEF MallocInv, Shape
      <3> QED BY <2>2, <2>3, <3>1 DEF Sheltered
    <2>7. Within(q, Below[start[w]])
      BY <1>0, <2>2, <2>3, BelowIsOrdered DEF Within, MallocInv, Shape
    <2>8. Owned[start[w]] = total[w] + Weight(Owned, q)
      BY <2>4, <2>5
    <2>9. OnTheWay' /\ Sums' /\ AccountsForEverything'
      <3>1. total' = [total EXCEPT ![w] = total[w]]
        BY <1>0, <2>1
      <3> QED BY <1>0, <2>1, <2>3, <2>4, <2>6, <2>7, <2>8, <3>1, WalkGoesOn
    <2>10. Held'
      <3>1. Guards(q) = {}
        BY <2>2, <2>3 DEF Guards
      <3>2. \A v \in Walkers : Guards(todo'[v]) \subseteq Guards(todo[v])
        BY <2>1, <3>1 DEF MallocInv, Walks
      <3> QED BY <2>1, <3>2, HeldStays
    <2> QED BY <2>9, <2>10 DEF AccountInv
  <1>2. CASE Finish(w)
    <2>1. /\ pc[w] = "walking" /\ todo[w] = <<>> /\ pc' = [pc EXCEPT ![w] = "done"]
          /\ UNCHANGED <<heap, born, todo, start, total, due, writer, readers>>
      BY <1>2 DEF Finish, locks
    <2>2. /\ todo[w] \in Seq(Frames) /\ Sheltered(todo[w]) /\ Within(todo[w], Below[start[w]])
          /\ todo' = [todo EXCEPT ![w] = todo[w]] /\ due' = [due EXCEPT ![w] = due[w]]
          /\ total' = [total EXCEPT ![w] = total[w]]
      BY <1>0, <2>1 DEF AccountInv, OnTheWay, MallocInv, Walks, Sums
    <2>3. NothingStoredTwice(start[w]) => due[w] = total[w] + Weight(Owned, todo[w])
      BY <2>1, AllAccounted DEF AccountInv, Accounted
    <2>4. OnTheWay' /\ Sums' /\ AccountsForEverything'
      <3> DEFINE q == todo[w]
                 a == total[w]
                 d == due[w]
      <3>1. /\ q \in Seq(Frames) /\ a \in Nat /\ d \in Int
            /\ "done" \in {"walking", "done", "panicked"}
        BY <1>0, <2>2 DEF AccountInv, Sums
      <3>2. /\ todo' = [todo EXCEPT ![w] = q] /\ pc' = [pc EXCEPT ![w] = "done"]
            /\ total' = [total EXCEPT ![w] = a] /\ due' = [due EXCEPT ![w] = d]
            /\ UNCHANGED <<heap, born, start>>
        BY <2>1, <2>2
      <3>3. /\ Sheltered(q) /\ Within(q, Below[start[w]])
            /\ NothingStoredTwice(start[w]) => d = a + Weight(Owned, q)
        BY <2>2, <2>3
      <3> HIDE DEF q, a, d
      <3> QED BY <1>0, <3>1, <3>2, <3>3, WalkGoesOn
    <2>5. Held'
      BY <2>1, HeldStays
    <2> QED BY <2>4, <2>5 DEF AccountInv
  <1> QED BY <1>1, <1>2

\* No walk moves, and the sizes of what they have to visit stay.
LEMMA WalksStand ==
    ASSUME MallocInv, MallocInv', AccountInv, UNCHANGED <<born, pc, todo, start, total, due>>,
           \A w \in Walkers : \A i \in DOMAIN todo[w] :
               ~todo[w][i].release => Owned'[todo[w][i].node] = Owned[todo[w][i].node]
    PROVE  OnTheWay' /\ Sums' /\ AccountsForEverything'
  <1>1. /\ Below' = Below
        /\ \A l \in Nodes : Inner(l)' = Inner(l) /\ BornCon(l)' = BornCon(l)
        /\ \A m \in Nodes : StoredTwice(m)' = StoredTwice(m)
    BY StructureStays DEF MallocInv
  <1>2. OnTheWay'
    <2>1. start' \in [Walkers -> Roots[born']]
      BY DEF AccountInv, OnTheWay
    <2>2. ASSUME NEW v \in Walkers PROVE Sheltered(todo[v])' /\ Within(todo'[v], Below'[start'[v]])
      <3>1. Sheltered(todo'[v]) /\ Within(todo'[v], Below[start[v]])
        BY DEF AccountInv, OnTheWay
      <3>2. Sheltered(todo[v])'
        BY <1>1, <3>1 DEF Sheltered
      <3> QED BY <1>1, <3>1, <3>2
    <2> QED BY <2>1, <2>2 DEF OnTheWay, Within
  <1>3. Sums'
    BY DEF AccountInv, Sums
  <1>4. ASSUME NEW v \in Walkers PROVE Accounted(v)'
    <2>1. NothingStoredTwice(start[v])' <=> NothingStoredTwice(start[v])
      <3>1. \A m \in Below[start[v]] : m \in Nodes
        BY BelowIsOrdered DEF MallocInv, Shape, Walks
      <3> QED BY <1>1, <3>1 DEF NothingStoredTwice
    <2>2. Weight(Owned, todo[v])' = Weight(Owned, todo[v])
      <3>1. Weights(Owned, todo[v])' = Weights(Owned, todo[v])
        BY DEF Weights
      <3> QED BY <3>1 DEF Weight, Sum
    <2>3. Accounted(v)
      BY AllAccounted DEF AccountInv
    <2> QED BY <2>1, <2>2, <2>3 DEF Accounted
  <1>5. AccountsForEverything'
    <2>1. (AccountsForEverything <=> \A v \in Walkers : Accounted(v))'
      BY AllAccounted, PTL
    <2> QED BY <1>4, <2>1
  <1> QED BY <1>2, <1>3, <1>5

\* Nobody has something to visit that is inside a lock a writer holds, so what
\* is written there changes no size that is still to be added.
LEMMA WriteKeepsAccount ==
    ASSUME MallocInv, MallocInv', AccountInv, NEW x \in Writers, NEW l \in Nodes, Write(x, l)
    PROVE  AccountInv'
  <1>1. /\ writer[l] = x
        /\ UNCHANGED <<born, pc, todo, start, total, due, writer, readers>>
        /\ \E n \in Protects[l] \ {l} :
            /\ Con(n) \in {"String", "Option", "Vec"}
            /\ \/ \E c \in 0..MaxCap : heap' = [heap EXCEPT ![n].cap = c]
               \/ \E ks \in {<<>>, born[n].kids} : heap' = [heap EXCEPT ![n].kids = ks]
    BY DEF Write, locks
  <1>2. PICK n \in Protects[l] \ {l} :
            /\ Con(n) \in {"String", "Option", "Vec"}
            /\ \/ \E c \in 0..MaxCap : heap' = [heap EXCEPT ![n].cap = c]
               \/ \E ks \in {<<>>, born[n].kids} : heap' = [heap EXCEPT ![n].kids = ks]
    BY <1>1
  <1>3. n \in Inner(l)
    BY ProtectedIsInside DEF MallocInv
  <1>4. IsLock(l) /\ BornCon(l) \in Mutexes \union RwLocks
    <2>1. x # None
      BY MallocAssumption
    <2>2. IsLock(l)
      BY <1>1, <2>1 DEF AccountInv, Held
    <2> QED BY <2>2, ConIsBorn DEF MallocInv
  <1>5. \A m \in Nodes : m # n => heap'[m] = heap[m]
    <2>1. heap \in [Nodes -> Values]
      BY DEF MallocInv, Shape
    <2> QED BY <1>2, <2>1
  <1>6. \A k \in Nodes : Con(k)' = Con(k)
    BY <1>1, StructureStays DEF MallocInv
  <1> DEFINE S == Nodes \ Inner(l)
  <1>7. \A m \in S : Owned'[m] = Owned[m]
    <2>1. ASSUME NEW m \in S PROVE heap'[m] = heap[m] /\ (~IsLock(m) => Parts(m) \subseteq S)
      <3>1. heap'[m] = heap[m]
        BY <1>3, <1>5
      <3>2. ASSUME ~IsLock(m), NEW k \in Parts(m) PROVE k \in S
        <4>1. k \in Range(born[m].kids) /\ k \in Nodes
          BY PartsNow DEF Parts, MallocInv
        <4>2. m # l
          BY <1>4, <3>2
        <4>3. k \notin Inner(l)
          BY <4>1, <4>2, OneOwnerInside DEF MallocInv, Shape
        <4> QED BY <4>1, <4>3
      <3> QED BY <3>1, <3>2
    <2>2. ASSUME NEW k \in Nodes, Con(k) = "Slice" PROVE heap'[k] = heap[k]
      <3>1. k # n
        BY <1>2, <2>2
      <3> QED BY <1>5, <3>1
    <2>3. S \in SUBSET Nodes
      OBVIOUS
    <2> HIDE DEF S
    <2> QED BY <1>6, <2>1, <2>2, <2>3, OwnedStays DEF MallocInv
  <1>8. ASSUME NEW w \in Walkers, NEW i \in DOMAIN todo[w], ~todo[w][i].release
        PROVE  todo[w][i].node \in S
    <2>1. todo[w][i].node \in Nodes
      <3>1. todo[w] \in Seq(Frames)
        BY DEF MallocInv, Walks
      <3>2. todo[w][i] \in Frames
        BY <3>1, SeqFacts
      <3> QED BY <3>2 DEF Frames
    <2>2. SUFFICES ASSUME todo[w][i].node \in Inner(l) PROVE FALSE
      BY <2>1
    <2>3. PICK j \in DOMAIN todo[w] : todo[w][j].release /\ todo[w][j].node = l
      BY <1>4, <1>8, <2>2 DEF AccountInv, OnTheWay, Sheltered
    <2>4. l \in Guards(todo[w])
      BY <2>3 DEF Guards
    <2>5. writer[l] = w \/ w \in readers[l]
      BY <2>4 DEF AccountInv, Held
    <2>6. x # w /\ x # None
      BY MallocAssumption
    <2>7. w \in readers[l] => writer[l] = None
      BY DEF AccountInv, Held
    <2> QED BY <1>1, <2>5, <2>6, <2>7
  <1>9. OnTheWay' /\ Sums' /\ AccountsForEverything'
    <2> HIDE DEF S
    <2>1. \A w \in Walkers : \A i \in DOMAIN todo[w] :
              ~todo[w][i].release => Owned'[todo[w][i].node] = Owned[todo[w][i].node]
      BY <1>7, <1>8
    <2> QED BY <1>1, <2>1, WalksStand
  <1>10. Held'
    BY <1>1, HeldStays
  <1> QED BY <1>9, <1>10 DEF AccountInv

LEMMA UseKeepsAccount ==
    ASSUME MallocInv, MallocInv', AccountInv, NEW x \in Writers, Use(x)
    PROVE  AccountInv'
  <1>0. \/ \E l \in Nodes : WriterWants(x, l) \/ WriterLocks(x, l) \/ Write(x, l)
        \/ WriterUnlocks(x) \/ WriterPanics(x)
    BY DEF Use
  <1>1. ASSUME NEW l \in Nodes, Write(x, l) PROVE AccountInv'
    BY <1>1, WriteKeepsAccount
  <1>2. CASE \/ \E l \in Nodes : WriterWants(x, l) \/ WriterLocks(x, l)
             \/ WriterUnlocks(x) \/ WriterPanics(x)
    <2>0. writer \in [Nodes -> Free]
      BY DEF MallocInv, GuardsOnStack
    <2>1. /\ UNCHANGED <<heap, born, pc, todo, start, total, due, readers>>
          /\ \A m \in Nodes :
                \/ writer'[m] = writer[m]
                \/ IsLock(m) /\ writer[m] = None /\ readers[m] = {} /\ writer'[m] = x
                \/ writer[m] = x /\ writer'[m] = None
      BY <1>2, <2>0 DEF WriterWants, WriterLocks, WriterUnlocks, WriterPanics, LetGo, walk, locks
    <2>2. OnTheWay' /\ Sums' /\ AccountsForEverything'
      <3>1. Owned' = Owned
        BY <2>1, OwnedUnchanged DEF MallocInv
      <3>2. \A w \in Walkers : \A i \in DOMAIN todo[w] :
                ~todo[w][i].release => Owned'[todo[w][i].node] = Owned[todo[w][i].node]
        BY <3>1
      <3> QED BY <2>1, <3>2, WalksStand
    <2>3. x # None /\ x \notin Walkers /\ writer \in [Nodes -> Free]
      BY MallocAssumption DEF MallocInv, GuardsOnStack
    <2>4. \A m \in Nodes : Con(m)' = Con(m) /\ IsLock(m)' = IsLock(m)
      BY <2>1, StructureStays DEF MallocInv
    <2>5. ASSUME NEW m \in Nodes
          PROVE  /\ writer'[m] # None => IsLock(m)'
                 /\ readers'[m] # {} => Con(m)' \in RwLocks /\ writer'[m] = None
                 /\ \A v \in Walkers : m \in Guards(todo'[v]) => writer'[m] = v \/ v \in readers'[m]
      <3>0. /\ writer[m] # None => IsLock(m)
            /\ readers[m] # {} => Con(m) \in RwLocks /\ writer[m] = None
            /\ \A v \in Walkers : m \in Guards(todo[v]) => writer[m] = v \/ v \in readers[m]
        BY DEF AccountInv, Held
      <3>1. CASE writer'[m] = writer[m]
        <4>1. readers'[m] = readers[m] /\ todo' = todo
          BY <2>1
        <4> QED BY <2>4, <3>0, <3>1, <4>1
      <3>2. CASE writer'[m] # writer[m]
        <4>1. readers[m] = {} /\ \A v \in Walkers : m \notin Guards(todo[v])
          BY <2>1, <2>3, <3>0, <3>2, MallocAssumption
        <4>2. writer'[m] # None => IsLock(m)
          BY <2>1, <2>3, <3>0, <3>2
        <4> QED BY <2>1, <2>4, <3>2, <4>1, <4>2
      <3> QED BY <3>1, <3>2
    <2>6. Held'
      <3>1. readers' \in [Nodes -> SUBSET Walkers]
        BY <2>1 DEF AccountInv, Held
      <3> QED BY <2>5, <3>1 DEF Held, Guards
    <2> QED BY <2>2, <2>6 DEF AccountInv
  <1> QED BY <1>0, <1>1, <1>2

\* The invariant of the sums, for every structure and any number of threads.
THEOREM AccountInvariance == Spec => []AccountInv
  <1>1. Init => AccountInv
    <2> SUFFICES ASSUME Init PROVE AccountInv
      OBVIOUS
    <2>1. Guards(<<>>) = {} /\ Sheltered(<<>>) /\ \A B : Within(<<>>, B)
      BY DEF Guards, Sheltered, Within
    <2>2. Held
      BY <2>1 DEF Init, Held
    <2>3. OnTheWay
      BY <2>1 DEF Init, OnTheWay
    <2>4. Sums /\ AccountsForEverything
      BY DEF Init, Sums, AccountsForEverything
    <2> QED BY <2>2, <2>3, <2>4 DEF AccountInv
  <1>2. MallocInv /\ MallocInv' /\ AccountInv /\ [Next]_vars => AccountInv'
    <2> SUFFICES ASSUME MallocInv, MallocInv', AccountInv, [Next]_vars PROVE AccountInv'
      OBVIOUS
    <2>1. CASE UNCHANGED vars
      <3>1. UNCHANGED <<heap, born, pc, todo, start, total, due, writer, readers>>
        BY <2>1 DEF vars, walk, locks
      <3>2. Owned' = Owned
        BY <3>1, OwnedUnchanged DEF MallocInv
      <3>3. OnTheWay' /\ Sums' /\ AccountsForEverything'
        BY <3>1, <3>2, WalksStand
      <3>4. Held'
        BY <3>1, HeldStays
      <3> QED BY <3>3, <3>4 DEF AccountInv
    <2>2. ASSUME NEW w \in Walkers, Step(w), ~Finish(w) PROVE AccountInv'
      <3>1. pc[w] = "walking" /\ todo[w] # <<>>
        BY <2>2 DEF Step
      <3>2. PICK n \in Nodes : n = Next1(w).node
        BY <3>1, OnTop DEF MallocInv
      <3>3. \/ VisitCollection(w, n) \/ VisitValue(w, n) \/ VisitConditionally(w, n)
            \/ AcquireLock(w, n) \/ Unwind(w, n) \/ ReleaseLock(w)
        BY <2>2, <3>2 DEF Step
      <3> QED BY <3>1, <3>2, <3>3, VisitsKeepAccount, AcquireKeepsAccount, UnwindKeepsAccount,
                 ReleaseKeepsAccount
    <2> QED BY <2>1, <2>2, BeginAndEndKeepAccount, UseKeepsAccount DEF Next
  <1> QED BY <1>1, <1>2, MallocInvariance, PTL DEF Spec

\* The sum of a walk and what it has still to visit are what the structure owned
\* when it began and what each lock protected when it was taken, whatever the
\* structure is and however many threads measure and write it
\* (malloc_size.rs:170-172, external_impls.rs).
THEOREM NothingIsMissed == Spec => []AccountsForEverything
  <1>1. AccountInv => AccountsForEverything
    BY DEF AccountInv
  <1> QED BY <1>1, AccountInvariance, PTL

-----------------------------------------------------------------------------
(* Sums over sets of values.                                                 *)

\* Among sets of values one is smallest.
LEMMA SmallestOf ==
    ASSUME NEW T, T \subseteq SUBSET Nodes, T # {}
    PROVE  \E s \in T : \A x \in s : s \ {x} \notin T
  <1> DEFINE K == {Cardinality(s) : s \in T}
  <1>1. \A s \in SUBSET Nodes : IsFiniteSet(s) /\ Cardinality(s) \in Nat
    BY MallocAssumption, FS_Subset, FS_CardinalityType
  <1>2. PICK k \in K : \A j \in K : k \leq j
    <2>1. K \subseteq Nat /\ K # {}
      BY <1>1
    <2> HIDE DEF K
    <2> QED BY <2>1, LeastOf
  <1>3. PICK s \in T : k = Cardinality(s)
    OBVIOUS
  <1>4. ASSUME NEW x \in s, s \ {x} \in T PROVE FALSE
    <2>1. Cardinality(s \ {x}) = Cardinality(s) - 1 /\ Cardinality(s) \in Nat
      BY <1>1, FS_RemoveElement
    <2>2. Cardinality(s) \leq Cardinality(s \ {x})
      BY <1>2, <1>3, <1>4
    <2> QED BY <2>1, <2>2
  <1> QED BY <1>4

Pick(s) == CHOOSE x \in s : TRUE
SumBody(A, f, D) ==
    [s \in SUBSET D |-> IF s = {} THEN 0 ELSE f[Pick(s)] + A[s \ {Pick(s)}]]

\* A has the sum of f over each subset of D.
AddsUp(A, f, D) ==
    /\ A \in [SUBSET D -> Nat] /\ A[{}] = 0
    /\ \A s \in SUBSET D : s # {} => A[s] = f[Pick(s)] + A[s \ {Pick(s)}]

\* The member of a set that CHOOSE takes is in it.
LEMMA PickIsIn ==
    ASSUME NEW s, s # {} PROVE Pick(s) \in s
  BY DEF Pick

\* A solution of the recursion adds up f over each subset of D.
LEMMA BodyAddsUp ==
    ASSUME NEW D \in SUBSET Nodes, NEW f \in [Nodes -> Nat], NEW A, A = SumBody(A, f, D)
    PROVE  AddsUp(A, f, D)
  <1>1. \A s \in SUBSET D : A[s] = IF s = {} THEN 0 ELSE f[Pick(s)] + A[s \ {Pick(s)}]
    BY DEF SumBody
  <1>2. DOMAIN A = SUBSET D /\ A = [s \in SUBSET D |-> A[s]]
    <2>1. DOMAIN A = SUBSET D
      BY DEF SumBody
    <2>2. A = [s \in DOMAIN A |-> A[s]]
      BY DEF SumBody
    <2> QED BY <2>1, <2>2
  <1> DEFINE Bad == {s \in SUBSET D : A[s] \notin Nat}
  <1>3. Bad = {}
    <2> SUFFICES ASSUME Bad # {} PROVE FALSE
      OBVIOUS
    <2>1. PICK s \in Bad : \A x \in s : s \ {x} \notin Bad
      <3>1. Bad \subseteq SUBSET Nodes
        OBVIOUS
      <3> HIDE DEF Bad
      <3> QED BY <3>1, SmallestOf
    <2>2. CASE s = {}
      BY <1>1, <2>2
    <2>3. CASE s # {}
      <3>1. Pick(s) \in s /\ s \ {Pick(s)} \in SUBSET D /\ s \ {Pick(s)} \notin Bad
        BY <2>1, <2>3, PickIsIn
      <3>2. A[s \ {Pick(s)}] \in Nat /\ f[Pick(s)] \in Nat
        BY <3>1
      <3>3. A[s] = f[Pick(s)] + A[s \ {Pick(s)}]
        BY <1>1, <2>3
      <3>4. A[s] \in Nat
        BY <3>2, <3>3
      <3> QED BY <3>4
    <2> QED BY <2>2, <2>3
  <1>4. A \in [SUBSET D -> Nat]
    BY <1>2, <1>3
  <1> QED BY <1>1, <1>4 DEF AddsUp

\* The recursion has a solution, ...
LEMMA SumExists ==
    ASSUME NEW D \in SUBSET Nodes, NEW f \in [Nodes -> Nat]
    PROVE  \E A : A = SumBody(A, f, D)
  <1> DEFINE I == SUBSET D
             F == [I -> Nat]
             B == [A \in F |-> SumBody(A, f, D)]
             rank == [s \in I |-> Cardinality(s)]
             N == Cardinality(D)
  <1>1. /\ IsFiniteSet(D) /\ N \in Nat
        /\ \A s \in I : IsFiniteSet(s) /\ Cardinality(s) \in Nat /\ Cardinality(s) \leq N
    <2>1. IsFiniteSet(D)
      BY MallocAssumption, FS_Subset
    <2> QED BY <2>1, FS_Subset, FS_CardinalityType
  <1>2. \A s \in I : s # {} =>
            /\ Pick(s) \in Nodes /\ s \ {Pick(s)} \in I
            /\ Cardinality(s \ {Pick(s)}) < Cardinality(s)
    <2> TAKE s \in I
    <2> HAVE s # {}
    <2>1. Pick(s) \in s /\ IsFiniteSet(s) /\ Cardinality(s) \in Nat
      BY <1>1, PickIsIn
    <2>2. Cardinality(s \ {Pick(s)}) = Cardinality(s) - 1
      BY <2>1, FS_RemoveElement
    <2> QED BY <2>1, <2>2
  <1>3. B \in [F -> F]
    <2> SUFFICES ASSUME NEW A \in F PROVE SumBody(A, f, D) \in F
      OBVIOUS
    <2>1. ASSUME NEW s \in I PROVE (IF s = {} THEN 0 ELSE f[Pick(s)] + A[s \ {Pick(s)}]) \in Nat
      <3>1. s # {} => f[Pick(s)] \in Nat /\ A[s \ {Pick(s)}] \in Nat
        BY <1>2
      <3> QED BY <3>1
    <2> QED BY <2>1 DEF SumBody
  <1>4. rank \in [I -> 0..N]
    BY <1>1
  <1>5. ASSUME NEW A \in F, NEW C \in F, NEW s \in I,
               \A q \in I : rank[q] < rank[s] => A[q] = C[q]
        PROVE  B[A][s] = B[C][s]
    <2>1. /\ B[A][s] = IF s = {} THEN 0 ELSE f[Pick(s)] + A[s \ {Pick(s)}]
          /\ B[C][s] = IF s = {} THEN 0 ELSE f[Pick(s)] + C[s \ {Pick(s)}]
      BY DEF SumBody
    <2>2. s # {} => A[s \ {Pick(s)}] = C[s \ {Pick(s)}]
      BY <1>2, <1>5
    <2> QED BY <2>1, <2>2
  <1> HIDE DEF I, B, rank, N
  <1>6. Recursion(I, Nat, N, rank, B)
    BY <1>1, <1>3, <1>4, <1>5 DEF Recursion
  <1>7. 0 \in Nat
    OBVIOUS
  <1>8. PICK A \in [I -> Nat] : A = B[A]
    BY <1>6, <1>7, Solution
  <1>9. A = SumBody(A, f, D)
    BY <1>8 DEF B, I
  <1> QED BY <1>9

SumOver(f, D) == CHOOSE A : A = SumBody(A, f, D)
SumOf(f, s) == SumOver(f, Nodes)[s]

\* ... and only one.
LEMMA SumIsUnique ==
    ASSUME NEW D \in SUBSET Nodes, NEW f \in [Nodes -> Nat], NEW A, AddsUp(A, f, D),
           NEW C, AddsUp(C, f, Nodes)
    PROVE  \A s \in SUBSET D : A[s] = C[s]
  <1> DEFINE Bad == {s \in SUBSET D : A[s] # C[s]}
  <1> SUFFICES ASSUME Bad # {} PROVE FALSE
    OBVIOUS
  <1>1. PICK s \in Bad : \A x \in s : s \ {x} \notin Bad
    <2>1. Bad \subseteq SUBSET Nodes
      OBVIOUS
    <2> HIDE DEF Bad
    <2> QED BY <2>1, SmallestOf
  <1>2. CASE s = {}
    BY <1>2 DEF AddsUp
  <1>3. CASE s # {}
    <2>1. Pick(s) \in s /\ s \ {Pick(s)} \in SUBSET D /\ s \ {Pick(s)} \notin Bad
      BY <1>1, <1>3, PickIsIn
    <2>2. A[s \ {Pick(s)}] = C[s \ {Pick(s)}]
      BY <2>1
    <2>3. A[s] = f[Pick(s)] + A[s \ {Pick(s)}] /\ C[s] = f[Pick(s)] + C[s \ {Pick(s)}]
      BY <1>3 DEF AddsUp
    <2>4. A[s] = C[s]
      BY <2>2, <2>3
    <2> QED BY <2>4
  <1> QED BY <1>2, <1>3

\* So the sum over a set is 0, or the member that CHOOSE takes and the rest.
LEMMA SumOverAddsUp ==
    ASSUME NEW D \in SUBSET Nodes, NEW f \in [Nodes -> Nat]
    PROVE  AddsUp(SumOver(f, D), f, D)
  <1>1. SumOver(f, D) = SumBody(SumOver(f, D), f, D)
    BY SumExists DEF SumOver
  <1> HIDE DEF SumOver
  <1> QED BY <1>1, BodyAddsUp

\* The order does not matter: any element can be taken out of a sum.
LEMMA SumTakesOut ==
    ASSUME NEW f \in [Nodes -> Nat]
    PROVE  /\ SumOf(f, {}) = 0
           /\ \A s \in SUBSET Nodes : SumOf(f, s) \in Nat
           /\ \A s \in SUBSET Nodes : \A x \in s : SumOf(f, s) = f[x] + SumOf(f, s \ {x})
  <1> DEFINE T == SumOver(f, Nodes)
             Bad == {s \in SUBSET Nodes : \E x \in s : T[s] # f[x] + T[s \ {x}]}
  <1>1. AddsUp(T, f, Nodes)
    BY SumOverAddsUp
  <1> HIDE DEF T
  <1>2. T[{}] = 0 /\ \A s \in SUBSET Nodes : T[s] \in Nat
    BY <1>1 DEF AddsUp
  <1>3. Bad = {}
    <2> SUFFICES ASSUME Bad # {} PROVE FALSE
      OBVIOUS
    <2>1. PICK s \in Bad : \A x \in s : s \ {x} \notin Bad
      <3>1. Bad \subseteq SUBSET Nodes
        OBVIOUS
      <3> HIDE DEF Bad
      <3> QED BY <3>1, SmallestOf
    <2>2. PICK x \in s : T[s] # f[x] + T[s \ {x}]
      OBVIOUS
    <2> DEFINE c == Pick(s)
               r == s \ {x, c}
    <2>3. c \in s /\ T[s] = f[c] + T[s \ {c}]
      BY <1>1, <2>2, PickIsIn DEF AddsUp
    <2> HIDE DEF c
    <2>4. x # c
      BY <2>2, <2>3
    <2>5. (s \ {c}) \ {x} = r /\ (s \ {x}) \ {c} = r /\ r \in SUBSET Nodes
      OBVIOUS
    <2>6. T[s \ {c}] = f[x] + T[r]
      BY <2>1, <2>3, <2>4, <2>5
    <2>7. T[s \ {x}] = f[c] + T[r]
      BY <2>1, <2>3, <2>4, <2>5
    <2>8. f[x] \in Nat /\ f[c] \in Nat /\ T[r] \in Nat
      BY <1>2, <2>3, <2>5
    <2> QED BY <2>2, <2>3, <2>6, <2>7, <2>8
  <1> QED BY <1>2, <1>3 DEF SumOf, T

\* The sum over one value.
LEMMA SumOfSingle ==
    ASSUME NEW f \in [Nodes -> Nat], NEW x \in Nodes PROVE SumOf(f, {x}) = f[x]
  <1>1. {x} \ {x} = {} /\ {x} \in SUBSET Nodes /\ x \in {x}
    OBVIOUS
  <1>2. SumOf(f, {x}) = f[x] + SumOf(f, {}) /\ SumOf(f, {}) = 0
    BY <1>1, SumTakesOut
  <1> QED BY <1>2

\* The sum over two sets with nothing in common, ...
LEMMA SumOfDisjoint ==
    ASSUME NEW f \in [Nodes -> Nat], NEW a \in SUBSET Nodes, NEW b \in SUBSET Nodes,
           a \intersect b = {}
    PROVE  SumOf(f, a \union b) = SumOf(f, a) + SumOf(f, b)
  <1> DEFINE Bad == {s \in SUBSET Nodes : a \intersect s = {} /\ SumOf(f, a \union s) # SumOf(f, a) + SumOf(f, s)}
  <1>0. SumOf(f, {}) = 0 /\ \A s \in SUBSET Nodes : SumOf(f, s) \in Nat
    BY SumTakesOut
  <1> SUFFICES ASSUME Bad # {} PROVE FALSE
    OBVIOUS
  <1>1. PICK s \in Bad : \A x \in s : s \ {x} \notin Bad
    <2>1. Bad \subseteq SUBSET Nodes
      OBVIOUS
    <2> HIDE DEF Bad
    <2> QED BY <2>1, SmallestOf
  <1>2. CASE s = {}
    <2>1. a \union s = a
      BY <1>2
    <2>2. SumOf(f, a \union s) = SumOf(f, a) + SumOf(f, s)
      BY <1>0, <1>2, <2>1
    <2> QED BY <2>2
  <1>3. CASE s # {}
    <2>1. PICK x \in s : TRUE
      BY <1>3
    <2>2. (a \union s) \ {x} = a \union (s \ {x}) /\ a \intersect (s \ {x}) = {} /\ x \in a \union s
      OBVIOUS
    <2>3. SumOf(f, a \union (s \ {x})) = SumOf(f, a) + SumOf(f, s \ {x})
      BY <1>1, <2>2
    <2>4. a \union s \in SUBSET Nodes /\ s \in SUBSET Nodes /\ s \ {x} \in SUBSET Nodes
      OBVIOUS
    <2>5. /\ SumOf(f, a \union s) = f[x] + SumOf(f, a \union (s \ {x}))
          /\ SumOf(f, s) = f[x] + SumOf(f, s \ {x})
      <3> DEFINE q == a \union s
      <3>1. q \in SUBSET Nodes /\ x \in q /\ q \ {x} = a \union (s \ {x})
        BY <2>2, <2>4
      <3> HIDE DEF q
      <3>2. SumOf(f, q) = f[x] + SumOf(f, q \ {x})
        BY <3>1, SumTakesOut
      <3>3. SumOf(f, s) = f[x] + SumOf(f, s \ {x})
        BY <2>4, SumTakesOut
      <3> QED BY <3>1, <3>2, <3>3 DEF q
    <2>6. f[x] \in Nat /\ SumOf(f, a) \in Nat /\ SumOf(f, s \ {x}) \in Nat
      BY <1>0, <2>4
    <2>7. SumOf(f, a \union s) = SumOf(f, a) + SumOf(f, s)
      BY <2>3, <2>5, <2>6
    <2> QED BY <2>7
  <1> QED BY <1>2, <1>3

\* ... and over a sequence of such sets.
Pieces(f, R, ns) ==
    /\ \A i \in 1..Len(ns) : R[i] \in SUBSET Nodes /\ ns[i] = SumOf(f, R[i])
    /\ \A i, j \in 1..Len(ns) : i # j => R[i] \intersect R[j] = {}
Whole(R, ns) == UNION {R[i] : i \in 1..Len(ns)}

\* The sum over disjoint sets is the sum of their sums.
LEMMA SumOfPieces ==
    ASSUME NEW f \in [Nodes -> Nat], NEW R, NEW ns \in Seq(Nat), Pieces(f, R, ns)
    PROVE  SumOf(f, Whole(R, ns)) = Sum(ns)
  <1> USE DEF Pieces
  <1> DEFINE U(i) == UNION {R[j] : j \in 1..i}
             u == [i \in 0..Len(ns) |-> SumOf(f, U(i))]
  <1>0. Len(ns) \in Nat /\ \A i \in 0..Len(ns) : U(i) \in SUBSET Nodes
    OBVIOUS
  <1>1. u \in [0..Len(ns) -> Nat]
    BY <1>0, SumTakesOut
  <1>2. u[0] = 0
    <2>1. U(0) = {} /\ 0 \in 0..Len(ns)
      BY <1>0
    <2> QED BY <2>1, SumTakesOut
  <1>3. ASSUME NEW i \in 1..Len(ns) PROVE u[i] = u[i - 1] + ns[i]
    <2>1. i \in 0..Len(ns) /\ i - 1 \in 0..Len(ns) /\ i \in Nat /\ i - 1 \in Nat
      BY <1>0
    <2>2. \A j : j \in 1..i <=> j \in 1..(i - 1) \/ j = i
      BY <2>1
    <2>3. U(i) = U(i - 1) \union R[i]
      BY <2>2
    <2>4. U(i - 1) \intersect R[i] = {}
      <3>1. \A j \in 1..(i - 1) : j \in 1..Len(ns) /\ j # i
        BY <1>0, <2>1
      <3> QED BY <3>1
    <2>5. U(i - 1) \in SUBSET Nodes /\ R[i] \in SUBSET Nodes
      BY <1>0, <2>1
    <2>6. u[i] = SumOf(f, U(i)) /\ u[i - 1] = SumOf(f, U(i - 1))
      BY <2>1
    <2>7. ns[i] = SumOf(f, R[i])
      OBVIOUS
    <2> HIDE DEF U, u
    <2>8. PICK a \in SUBSET Nodes, b \in SUBSET Nodes : a = U(i - 1) /\ b = R[i]
      BY <2>5
    <2>9. a \intersect b = {}
      BY <2>4, <2>8
    <2>10. SumOf(f, a \union b) = SumOf(f, a) + SumOf(f, b)
      BY ONLY <2>9, SumOfDisjoint, f \in [Nodes -> Nat], a \in SUBSET Nodes, b \in SUBSET Nodes
    <2> QED BY <2>3, <2>6, <2>7, <2>8, <2>10
  <1>4. SumsUp(u, ns)
    BY <1>1, <1>2, <1>3 DEF SumsUp
  <1>5. u[Len(ns)] = SumOf(f, U(Len(ns)))
    BY <1>0
  <1> HIDE DEF u
  <1> QED BY <1>4, <1>5, SumBy DEF Whole

\* The storage of each value.
Stored == [n \in Nodes |-> Storage(n)]

\* The sum in ReallyOwned is this one.
LEMMA StoredSums ==
    ASSUME Shape, NEW S \in SUBSET Nodes
    PROVE  Stored \in [Nodes -> Nat] /\ MapThenSumSet(Storage, S) = SumOf(Stored, S)
  <1>1. Stored \in [Nodes -> Nat] /\ \A n \in Nodes : Stored[n] = Storage(n)
    BY StorageIsNat DEF Stored
  <1> DEFINE Body(A) == [s \in SUBSET S |-> IF s = {} THEN 0
                            ELSE Storage(Pick(s)) + A[s \ {Pick(s)}]]
             C == CHOOSE A : A = Body(A)
  <1>2. MapThenSumSet(Storage, S) = C[S]
    BY Zenon DEF MapThenSumSet, MapThenFoldSet, Pick
  <1>3. ASSUME NEW A PROVE Body(A) = SumBody(A, Stored, S)
    <2>1. \A s \in SUBSET S : s # {} => Storage(Pick(s)) = Stored[Pick(s)]
      BY <1>1, PickIsIn
    <2>2. \A s \in SUBSET S :
              (IF s = {} THEN 0 ELSE Storage(Pick(s)) + A[s \ {Pick(s)}])
              = (IF s = {} THEN 0 ELSE Stored[Pick(s)] + A[s \ {Pick(s)}])
      BY <2>1
    <2> QED BY <2>2 DEF SumBody
  <1>4. \E A : A = Body(A)
    BY <1>1, <1>3, SumExists
  <1>5. C = Body(C)
    BY <1>4
  <1> HIDE DEF C, Body
  <1>6. AddsUp(C, Stored, S)
    BY <1>1, <1>3, <1>5, BodyAddsUp
  <1>7. AddsUp(SumOver(Stored, Nodes), Stored, Nodes)
    BY <1>1, SumOverAddsUp
  <1>8. C[S] = SumOver(Stored, Nodes)[S]
    BY <1>1, <1>6, <1>7, SumIsUnique
  <1> QED BY <1>1, <1>2, <1>8 DEF SumOf

-----------------------------------------------------------------------------
(* The values that are reached.                                              *)

ReachOf(f, n) == {n} \union UNION {f[k] : k \in Parts(n)}

\* Reach satisfies its equation.
LEMMA ReachUnfolds ==
    ASSUME Shape PROVE \A n \in Nodes : Reach[n] = ReachOf(Reach, n)
  <1> DEFINE V == SUBSET Nodes
             F == [Nodes -> V]
             Body(f) == [n \in Nodes |-> ReachOf(f, n)]
             B == [f \in F |-> Body(f)]
  <1>1. \A n \in Nodes : \A k \in Parts(n) : k \in Nodes /\ n < k
    BY PartsNow DEF Parts
  <1>2. B \in [F -> F]
    <2>1. ASSUME NEW f \in F, NEW n \in Nodes PROVE ReachOf(f, n) \in V
      BY <1>1 DEF ReachOf
    <2> QED BY <2>1
  <1>3. ASSUME NEW f, NEW g, NEW n \in Nodes, \A k \in Nodes : n < k => f[k] = g[k]
        PROVE  ReachOf(f, n) = ReachOf(g, n)
    <2>1. \A k \in Parts(n) : f[k] = g[k]
      BY <1>1, <1>3
    <2>2. {f[k] : k \in Parts(n)} = {g[k] : k \in Parts(n)}
      BY <2>1
    <2> QED BY <2>2 DEF ReachOf
  <1>4. \E f \in F : f = Body(f)
    <2>1. PICK N \in Nat : \E rank \in [Nodes -> 0..N] :
              \A m, n \in Nodes : m < n => rank[n] < rank[m]
      BY Ranked
    <2>2. PICK rank \in [Nodes -> 0..N] : \A m, n \in Nodes : m < n => rank[n] < rank[m]
      BY <2>1
    <2>3. ASSUME NEW f \in F, NEW g \in F, NEW n \in Nodes,
                 \A k \in Nodes : rank[k] < rank[n] => f[k] = g[k]
          PROVE  B[f][n] = B[g][n]
      <3>1. B[f][n] = ReachOf(f, n) /\ B[g][n] = ReachOf(g, n)
        OBVIOUS
      <3>2. \A k \in Nodes : n < k => f[k] = g[k]
        BY <2>2, <2>3
      <3> QED BY <1>3, <3>1, <3>2
    <2>5. {} \in V
      OBVIOUS
    <2> HIDE DEF B, V
    <2>4. Recursion(Nodes, V, N, rank, B)
      BY <1>2, <2>2, <2>3 DEF Recursion
    <2>6. \E f \in [Nodes -> V] : f = B[f]
      BY <2>4, <2>5, Solution
    <2> QED BY <2>6 DEF B
  <1>5. Reach = CHOOSE f : f = Body(f)
    BY DEF Reach, ReachOf
  <1>6. PICK f \in F : f = Body(f)
    BY <1>4
  <1>7. Reach = Body(Reach)
    BY <1>5, <1>6
  <1> QED BY <1>7

\* Reach[n] is the least set that has n and the parts of what it has.
ClosedNow(S) == \A a \in S : Parts(a) \subseteq S
IsReach(n) ==
    /\ n \in Reach[n] /\ Reach[n] \in SUBSET Nodes /\ ClosedNow(Reach[n])
    /\ \A a \in Reach[n] : n \leq a
    /\ \A a \in Reach[n] : a # n => \E p \in Reach[n] : a \in Parts(p)
    /\ \A S \in SUBSET Nodes : n \in S /\ ClosedNow(S) => Reach[n] \subseteq S

\* By the last value at which it would fail.
LEMMA ReachIsLeast ==
    ASSUME Shape PROVE \A n \in Nodes : IsReach(n)
  <1> DEFINE Bad == {n \in Nodes : ~IsReach(n)}
  <1> SUFFICES ASSUME Bad # {} PROVE FALSE
    OBVIOUS
  <1>1. PICK n \in Bad : \A m \in Bad : m \leq n
    BY LastOf
  <1>2. n \in Nodes /\ n \in Nat /\ Reach[n] = {n} \union UNION {Reach[k] : k \in Parts(n)}
    BY ReachUnfolds, MallocAssumption DEF ReachOf
  <1>3. ASSUME NEW k \in Parts(n) PROVE IsReach(k) /\ n < k /\ k \in Nodes /\ k \in Nat
    <2>1. k \in Nodes /\ n < k /\ k \in Nat
      BY <1>2, PartsNow, MallocAssumption DEF Parts
    <2>2. ~(k \leq n)
      BY <1>2, <2>1
    <2> QED BY <1>1, <2>1, <2>2
  <1>4. n \in Reach[n] /\ Reach[n] \in SUBSET Nodes
    BY <1>2, <1>3 DEF IsReach
  <1>5. ClosedNow(Reach[n])
    <2> SUFFICES ASSUME NEW a \in Reach[n], NEW b \in Parts(a) PROVE b \in Reach[n]
      BY DEF ClosedNow
    <2>1. CASE a = n
      BY <1>2, <1>3, <2>1 DEF IsReach
    <2>2. CASE a # n
      <3>1. PICK k \in Parts(n) : a \in Reach[k]
        BY <1>2, <2>2
      <3>2. b \in Reach[k]
        BY <1>3, <3>1 DEF IsReach, ClosedNow
      <3> QED BY <1>2, <3>2
    <2> QED BY <2>1, <2>2
  <1>6. ASSUME NEW a \in Reach[n] PROVE n \leq a /\ (a # n => \E p \in Reach[n] : a \in Parts(p))
    <2>1. CASE a = n
      BY <1>2, <2>1
    <2>2. CASE a # n
      <3>1. PICK k \in Parts(n) : a \in Reach[k]
        BY <1>2, <2>2
      <3>2. /\ k \leq a /\ a \in Nodes /\ Reach[k] \subseteq Reach[n]
            /\ a # k => \E p \in Reach[k] : a \in Parts(p)
        BY <1>2, <1>3, <3>1 DEF IsReach
      <3>3. n \leq a
        <4>1. a \in Nat /\ k \in Nat /\ n < k
          BY <1>3, <3>2, MallocAssumption
        <4> QED BY <1>2, <3>2, <4>1
      <3>4. \E p \in Reach[n] : a \in Parts(p)
        BY <1>4, <3>1, <3>2
      <3> QED BY <3>3, <3>4
    <2> QED BY <2>1, <2>2
  <1>7. ASSUME NEW S \in SUBSET Nodes, n \in S, ClosedNow(S) PROVE Reach[n] \subseteq S
    <2>1. \A k \in Parts(n) : k \in S
      BY <1>7 DEF ClosedNow
    <2>2. \A k \in Parts(n) : Reach[k] \subseteq S
      BY <1>3, <1>7, <2>1 DEF IsReach
    <2> QED BY <1>2, <1>7, <2>2
  <1>8. IsReach(n)
    BY <1>4, <1>5, <1>6, <1>7 DEF IsReach
  <1> QED BY <1>8

\* What the proofs below use of it.
LEMMA ReachFacts ==
    ASSUME Shape, NEW n \in Nodes
    PROVE  /\ n \in Reach[n] /\ Reach[n] \in SUBSET Nodes
           /\ \A a \in Reach[n] : /\ n \leq a /\ Parts(a) \subseteq Reach[n]
                                  /\ Reach[a] \subseteq Reach[n]
                                  /\ a # n => \E p \in Reach[n] : a \in Parts(p)
           /\ Reach[n] = {n} \union UNION {Reach[k] : k \in Parts(n)}
  <1>1. IsReach(n)
    BY ReachIsLeast
  <1>2. \A a \in Reach[n] : Reach[a] \subseteq Reach[n]
    <2> TAKE a \in Reach[n]
    <2>1. a \in Nodes /\ IsReach(a)
      BY <1>1, ReachIsLeast DEF IsReach
    <2> QED BY <1>1, <2>1 DEF IsReach
  <1> QED BY <1>1, <1>2, ReachUnfolds DEF IsReach, ReachOf, ClosedNow

\* A value has one owner, unless its owners are Arcs; and its parts differ.
LEMMA OneOwner ==
    ASSUME Shape, NEW a \in Nodes, NEW b \in Nodes, NEW k, k \in Parts(a), k \in Parts(b), a # b
    PROVE  Con(a) \in Arcs /\ Con(b) \in Arcs
  <1>1. k \in Range(born[a].kids) /\ k \in Range(born[b].kids)
    BY PartsNow DEF Parts
  <1>2. {Types[born[a].ty].c, Types[born[b].ty].c} \subseteq Arcs
    BY <1>1, StructureAssumption DEF Shape
  <1> QED BY <1>2, ConIsBorn DEF BornCon

\* A value is one part of its owner.
LEMMA PartsDiffer ==
    ASSUME Shape, NEW n \in Nodes, NEW i \in DOMAIN heap[n].kids, NEW j \in DOMAIN heap[n].kids,
           heap[n].kids[i] = heap[n].kids[j]
    PROVE  i = j
  <1>1. CASE heap[n].kids = born[n].kids
    BY <1>1, StructureAssumption DEF Shape
  <1>2. CASE heap[n].kids = <<>>
    BY <1>2
  <1> QED BY <1>1, <1>2 DEF Shape

-----------------------------------------------------------------------------
(* A value of constant size is a tree without Arcs and locks.                *)

\* The type of a part is an argument of the type.
LEMMA ArgumentOfPart ==
    ASSUME Shape, NEW n \in Nodes, NEW k \in Parts(n), Con(n) \in InPlace \union Collections
    PROVE  \E j \in 1..Len(Types[heap[n].ty].args) : heap[k].ty = Types[heap[n].ty].args[j]
  <1> DEFINE t == heap[n].ty
             ks == heap[n].kids
             as == Types[t].args
  <1>1. t \in DOMAIN Types /\ WellTyped(heap, n) /\ Types[t].c = Con(n)
    BY StillWellTyped DEF Shape, Values, Con
  <1>2. PICK i \in 1..Len(ks) : k = ks[i]
    BY PartsNow, SeqFacts DEF Parts
  <1>3. DOMAIN ks = 1..Len(ks) /\ Len(ks) \in Nat
    BY PartsNow
  <1>4. CASE Con(n) \in Sequential \union {"Option"}
    <2>1. heap[k].ty = as[1]
      BY <1>1, <1>2, <1>3, <1>4 DEF WellTyped
    <2>2. Len(as) = 1
      BY <1>1, <1>4, TypesAssumption
    <2> QED BY <2>1, <2>2
  <1>5. CASE Con(n) = "Tuple"
    <2>1. heap[k].ty = as[i] /\ Len(ks) = Len(as)
      BY <1>1, <1>2, <1>3, <1>5 DEF WellTyped
    <2> QED BY <2>1
  <1>6. CASE Con(n) \in Maps
    <2>1. heap[k].ty = as[IF i % 2 = 1 THEN 1 ELSE 2]
      BY <1>1, <1>2, <1>3, <1>6 DEF WellTyped
    <2>2. Len(as) = 2
      BY <1>1, <1>6, TypesAssumption
    <2> QED BY <2>1, <2>2
  <1>7. CASE Con(n) \in {"Result", "Cell"}
    <2>1. Len(ks) = 1
      BY <1>1, <1>7 DEF WellTyped
    <2>2. i = 1
      BY <2>1
    <2>3. heap[k].ty = as[1] \/ (Con(n) = "Result" /\ heap[k].ty = as[2])
      BY <1>1, <1>2, <1>7, <2>2 DEF WellTyped
    <2>4. Len(as) = IF Con(n) = "Result" THEN 2 ELSE 1
      BY <1>1, <1>7, TypesAssumption
    <2> QED BY <2>3, <2>4
  <1> QED BY <1>4, <1>5, <1>6, <1>7 DEF InPlace, Collections

Constant(n) == constant_size[heap[n].ty] # NotConstant

\* The parts of a value of constant size have one as well.
LEMMA PartsOfConstant ==
    ASSUME Shape, NEW n \in Nodes,
           Constant(n) \/ (Con(n) \in Collections /\ ElementConstant(n) # NotConstant)
    PROVE  Con(n) \notin Arcs /\ ~IsLock(n) /\ \A k \in Parts(n) : Constant(k)
  <1> DEFINE t == heap[n].ty
             cs == constant_size
             of == ArgSizes(cs, t)
             as == Types[t].args
  <1>1. t \in DOMAIN Types /\ Types[t].c = Con(n) /\ WellTyped(heap, n)
    BY StillWellTyped DEF Shape, Values, Con
  <1>2. cs \in [DOMAIN Types -> Nat] /\ cs[t] = ConstantOf(Con(n), of)
    BY <1>1, ConstantSizes
  <1>3. /\ of \in Seq(Nat) /\ Len(of) = Len(as)
        /\ \A j \in 1..Len(as) : of[j] = cs[as[j]]
    BY <1>1, <1>2, ArgSizesAreNat
  <1>4. CASE Con(n) \in Collections /\ ElementConstant(n) # NotConstant
    <2>1. ElementConstant(n) = TupleConstant(of)
      BY DEF ElementConstant, ArgSizes
    <2>2. NotConstant \notin Range(of)
      BY <1>4, <2>1 DEF TupleConstant
    <2>3. ASSUME NEW k \in Parts(n) PROVE Constant(k)
      <3>1. PICK j \in 1..Len(as) : heap[k].ty = as[j]
        BY <1>4, ArgumentOfPart
      <3>2. of[j] = cs[heap[k].ty] /\ of[j] \in Range(of)
        BY <1>3, <3>1, SeqFacts
      <3> QED BY <2>2, <3>2 DEF Constant
    <2> QED BY <1>4, <2>3 DEF IsLock, Collections, Sequential, Maps, Arcs, Mutexes, RwLocks
  <1>5. CASE Constant(n)
    <2>1. Con(n) \in {"Zero", "Two"} \union InPlace
      BY <1>2, <1>5 DEF ConstantOf, InPlace, Constant
    <2>2. ASSUME NEW k \in Parts(n) PROVE Constant(k)
      <3>1. Con(n) \in InPlace
        <4> SUFFICES ASSUME Con(n) \in {"Zero", "Two"} PROVE FALSE
          BY <2>1
        <4>1. heap[n].kids = <<>>
          BY <1>1 DEF WellTyped
        <4> QED BY <4>1 DEF Parts, Range
      <3>2. PICK j \in 1..Len(as) : heap[k].ty = as[j]
        BY <3>1, ArgumentOfPart
      <3>3. of[j] = cs[heap[k].ty] /\ of[j] \in Range(of) /\ cs[t] # NotConstant
        BY <1>3, <1>5, <3>2, SeqFacts DEF Constant
      <3>4. SUFFICES of[j] # NotConstant
        BY <3>3 DEF Constant
      <3>5. CASE Con(n) = "Tuple"
        <4>1. cs[t] = TupleConstant(of)
          BY <1>2, <3>5 DEF ConstantOf
        <4> QED BY <3>3, <4>1 DEF TupleConstant
      <3>6. CASE Con(n) = "Option" \/ Con(n) = "Cell"
        <4>1. j = 1
          <5>1. Len(as) = 1
            BY <1>1, <3>6, TypesAssumption
          <5> QED BY <5>1
        <4>2. cs[t] = IF Con(n) = "Option" THEN OptionConstant(of[1]) ELSE of[1]
          BY <1>2, <3>6 DEF ConstantOf
        <4> QED BY <3>3, <4>1, <4>2 DEF OptionConstant, NotConstant
      <3>7. CASE Con(n) = "Result"
        <4>1. j = 1 \/ j = 2
          <5>1. Len(as) = 2
            BY <1>1, <3>7, TypesAssumption
          <5> QED BY <5>1
        <4>2. cs[t] = ResultConstant(of[1], of[2])
          BY <1>2, <3>7 DEF ConstantOf
        <4> QED BY <3>3, <4>1, <4>2 DEF ResultConstant
      <3> QED BY <3>1, <3>5, <3>6, <3>7 DEF InPlace
    <2> QED BY <2>1, <2>2 DEF IsLock, InPlace, Arcs, Mutexes, RwLocks
  <1> QED BY <1>4, <1>5

NoArcsIn(S) == \A m \in S : Con(m) \notin Arcs

\* Two parts of a value have nothing in common.
LEMMA PartsAreApart ==
    ASSUME Shape, NEW n \in Nodes, Con(n) \notin Arcs, NEW a \in Parts(n), NEW b \in Parts(n), a # b,
           NoArcsIn(Reach[a]), NoArcsIn(Reach[b])
    PROVE  Reach[a] \intersect Reach[b] = {}
  <1>1. a \in Nodes /\ b \in Nodes /\ n < a /\ n < b /\ n \in Nat /\ a \in Nat /\ b \in Nat
    BY PartsNow, MallocAssumption DEF Parts
  <1> SUFFICES ASSUME Reach[a] \intersect Reach[b] # {} PROVE FALSE
    OBVIOUS
  <1>2. PICK x \in Reach[a] \intersect Reach[b] : \A y \in Reach[a] \intersect Reach[b] : x \leq y
    <2>1. Reach[a] \intersect Reach[b] \subseteq Nat
      BY <1>1, ReachFacts, MallocAssumption
    <2> QED BY <2>1, LeastOf
  <1>3. ASSUME NEW c \in Parts(n), NEW d \in Parts(n), c # d, x = c, x \in Reach[d] PROVE FALSE
    <2>1. c \in Nodes /\ d \in Nodes /\ n < d /\ n \in Nat /\ d \in Nat
      BY PartsNow, MallocAssumption DEF Parts
    <2>2. PICK p \in Reach[d] : c \in Parts(p)
      BY <1>3, <2>1, ReachFacts
    <2>3. p \in Nodes /\ d \leq p
      BY <2>1, <2>2, ReachFacts
    <2>4. p # n
      BY <2>1, <2>3
    <2> QED BY <2>2, <2>3, <2>4, OneOwner
  <1>4. x # a /\ x # b
    BY <1>2, <1>3
  <1>5. PICK p \in Reach[a] : x \in Parts(p)
    BY <1>1, <1>2, <1>4, ReachFacts
  <1>6. PICK q \in Reach[b] : x \in Parts(q)
    BY <1>1, <1>2, <1>4, ReachFacts
  <1>7. p \in Nodes /\ q \in Nodes
    BY <1>1, ReachFacts
  <1>8. p # q
    <2> SUFFICES ASSUME p = q PROVE FALSE
      OBVIOUS
    <2>1. x \leq p
      BY <1>2, <1>5, <1>6
    <2>2. p < x /\ p \in Nat /\ x \in Nat
      BY <1>5, <1>7, PartsNow, MallocAssumption DEF Parts
    <2> QED BY <2>1, <2>2
  <1> QED BY <1>5, <1>6, <1>7, <1>8, OneOwner DEF NoArcsIn

\* What a tree owns is what its values store.
LEMMA TreeSum ==
    ASSUME Shape, NEW n \in Nodes, Con(n) \notin Arcs, ~IsLock(n),
           \A k \in Parts(n) : NoArcsIn(Reach[k]) /\ SumOf(Stored, Reach[k]) = Owned[k]
    PROVE  NoArcsIn(Reach[n]) /\ SumOf(Stored, Reach[n]) = Owned[n]
  <1> DEFINE ks == heap[n].kids
             ns == PartsOf(Owned, n)
             R == [i \in 1..Len(ks) |-> Reach[ks[i]]]
             W == Whole(R, ns)
  <1>1. /\ ns \in Seq(Nat) /\ Len(ns) = Len(ks) /\ Len(ks) \in Nat
        /\ \A i \in 1..Len(ks) : ns[i] = Owned[ks[i]]
        /\ Owned[n] = Storage(n) + Sum(ns) /\ Storage(n) \in Nat /\ Sum(ns) \in Nat
    BY PartsAreExact, PartsNow
  <1>2. /\ \A i \in 1..Len(ks) : ks[i] \in Parts(n) /\ ks[i] \in Nodes /\ n < ks[i]
        /\ \A k \in Parts(n) : \E i \in 1..Len(ks) : k = ks[i]
        /\ \A i, j \in 1..Len(ks) : i # j => ks[i] # ks[j]
    <2>1. ks \in Seq(Nodes)
      BY PartsNow
    <2>2. DOMAIN ks = 1..Len(ks)
      BY PartsNow
    <2>3. \A i, j \in 1..Len(ks) : i # j => ks[i] # ks[j]
      BY <2>2, PartsDiffer
    <2>4. \A k \in Parts(n) : \E i \in 1..Len(ks) : k = ks[i]
      BY <2>1, SeqFacts DEF Parts
    <2>5. \A i \in 1..Len(ks) : ks[i] \in Parts(n) /\ ks[i] \in Nodes /\ n < ks[i]
      BY <2>2, PartsNow DEF Parts
    <2> QED BY <2>3, <2>4, <2>5
  <1> HIDE DEF ns, ks
  <1>3. Stored \in [Nodes -> Nat] /\ Stored[n] = Storage(n)
    <2>1. {} \in SUBSET Nodes
      OBVIOUS
    <2> QED BY <2>1, StoredSums DEF Stored
  <1>4. \A i \in 1..Len(ns) : R[i] \in SUBSET Nodes /\ ns[i] = SumOf(Stored, R[i])
    <2> TAKE i \in 1..Len(ns)
    <2>1. R[i] = Reach[ks[i]] /\ ks[i] \in Parts(n) /\ ks[i] \in Nodes /\ ns[i] = Owned[ks[i]]
      BY <1>1, <1>2
    <2> HIDE DEF R
    <2> QED BY <2>1, ReachFacts
  <1>5. \A i, j \in 1..Len(ns) : i # j => R[i] \intersect R[j] = {}
    <2> TAKE i, j \in 1..Len(ns)
    <2> HAVE i # j
    <2>1. /\ R[i] = Reach[ks[i]] /\ R[j] = Reach[ks[j]] /\ ks[i] # ks[j]
          /\ ks[i] \in Parts(n) /\ ks[j] \in Parts(n)
      BY <1>1, <1>2
    <2> HIDE DEF R
    <2> QED BY <2>1, PartsAreApart
  <1>6. SumOf(Stored, W) = Sum(ns)
    <2> HIDE DEF R
    <2>1. ns \in Seq(Nat) /\ Pieces(Stored, R, ns)
      BY <1>1, <1>4, <1>5 DEF Pieces
    <2> QED BY <1>3, <2>1, SumOfPieces
  <1>7. Reach[n] = {n} \union W
    <2>1. W = UNION {Reach[k] : k \in Parts(n)}
      <3>1. \A i \in 1..Len(ns) : R[i] = Reach[ks[i]] /\ ks[i] \in Parts(n)
        BY <1>1, <1>2
      <3>2. \A k \in Parts(n) : \E i \in 1..Len(ns) : k = ks[i]
        BY <1>1, <1>2
      <3> HIDE DEF R
      <3> QED BY <3>1, <3>2 DEF Whole
    <2> QED BY <2>1, ReachFacts
  <1>8. n \notin W /\ W \in SUBSET Nodes
    <2>1. ASSUME NEW i \in 1..Len(ns), n \in R[i] PROVE FALSE
      <3>1. R[i] = Reach[ks[i]] /\ ks[i] \in Nodes /\ n < ks[i]
        BY <1>1, <1>2
      <3>2. ks[i] \leq n
        BY <2>1, <3>1, ReachFacts
      <3>3. n \in Nat /\ ks[i] \in Nat
        BY <3>1, MallocAssumption
      <3> QED BY <3>1, <3>2, <3>3
    <2> QED BY <1>4, <2>1 DEF Whole
  <1>9. NoArcsIn(Reach[n])
    <2>1. \A m \in W : Con(m) \notin Arcs
      BY <1>1, <1>2 DEF NoArcsIn, Whole
    <2> QED BY <1>7, <2>1 DEF NoArcsIn
  <1> HIDE DEF W
  <1>10. PICK a \in SUBSET Nodes, b \in SUBSET Nodes : a = {n} /\ b = W
    BY <1>8
  <1>11. a \intersect b = {}
    BY <1>8, <1>10
  <1>12. SumOf(Stored, a \union b) = SumOf(Stored, a) + SumOf(Stored, b)
    BY ONLY <1>3, <1>11, SumOfDisjoint, a \in SUBSET Nodes, b \in SUBSET Nodes
  <1>13. SumOf(Stored, a) = Stored[n]
    BY <1>3, <1>10, SumOfSingle
  <1> QED BY <1>1, <1>3, <1>6, <1>7, <1>9, <1>10, <1>12, <1>13

\* Such a value has no Arcs below it, and what it stores is what it owns.
LEMMA ConstantsAreTrees ==
    ASSUME Shape
    PROVE  \A n \in Nodes : Constant(n) => NoArcsIn(Reach[n]) /\ SumOf(Stored, Reach[n]) = Owned[n]
  <1> DEFINE Tree(n) == NoArcsIn(Reach[n]) /\ SumOf(Stored, Reach[n]) = Owned[n]
             Bad == {n \in Nodes : Constant(n) /\ ~Tree(n)}
  <1> SUFFICES ASSUME Bad # {} PROVE FALSE
    OBVIOUS
  <1>1. PICK n \in Bad : \A m \in Bad : m \leq n
    BY LastOf
  <1>2. n \in Nodes /\ Constant(n)
    OBVIOUS
  <1>3. Con(n) \notin Arcs /\ ~IsLock(n) /\ \A k \in Parts(n) : Constant(k)
    BY <1>2, PartsOfConstant
  <1>4. ASSUME NEW k \in Parts(n) PROVE Tree(k)
    <2>1. k \in Nodes /\ n < k /\ n \in Nat /\ k \in Nat /\ Constant(k)
      BY <1>2, <1>3, PartsNow, MallocAssumption DEF Parts
    <2>2. ~(k \leq n)
      BY <2>1
    <2>3. k \notin Bad
      BY <1>1, <2>2
    <2> QED BY <2>1, <2>3
  <1>5. Tree(n)
    BY <1>2, <1>3, <1>4, TreeSum
  <1> QED BY <1>5

\* The elements of a collection that are not visited.
LEMMA ElementsAreTrees ==
    ASSUME Shape, NEW n \in Nodes, Con(n) \in Collections, ElementConstant(n) # NotConstant
    PROVE  /\ NoArcsIn(Reach[n])
           /\ SumOf(Stored, Reach[n]) = Storage(n) + Length(n) * ElementConstant(n)
  <1>1. Con(n) \notin Arcs /\ ~IsLock(n) /\ \A k \in Parts(n) : Constant(k)
    BY PartsOfConstant
  <1>2. \A k \in Parts(n) : NoArcsIn(Reach[k]) /\ SumOf(Stored, Reach[k]) = Owned[k]
    BY <1>1, ConstantsAreTrees, PartsNow DEF Parts
  <1>3. NoArcsIn(Reach[n]) /\ SumOf(Stored, Reach[n]) = Owned[n]
    BY <1>1, <1>2, TreeSum
  <1> QED BY <1>3, ElementsAreExact

-----------------------------------------------------------------------------
(* What a set of values costs: the storage of each, and each value that      *)
(* Arcs lead to once.                                                        *)

ArcsIn(V) == {m \in V : Con(m) \in Arcs}
Targets(V) == UNION {Parts(m) : m \in ArcsIn(V)}
Cost(V) == SumOf(Stored, V \ ArcsIn(V)) + Cardinality(Targets(V))

\* Sums and counts are numbers.
LEMMA CostIsNat ==
    ASSUME Shape, NEW V \in SUBSET Nodes
    PROVE  /\ Stored \in [Nodes -> Nat] /\ \A n \in Nodes : Stored[n] = Storage(n)
           /\ SumOf(Stored, V \ ArcsIn(V)) \in Nat
           /\ Targets(V) \in SUBSET Nodes /\ IsFiniteSet(Targets(V))
           /\ Cardinality(Targets(V)) \in Nat /\ Cost(V) \in Nat
  <1>1. Stored \in [Nodes -> Nat] /\ \A n \in Nodes : Stored[n] = Storage(n)
    BY StoredSums DEF Stored
  <1>2. SumOf(Stored, V \ ArcsIn(V)) \in Nat
    <2>1. V \ ArcsIn(V) \in SUBSET Nodes
      OBVIOUS
    <2> QED BY <1>1, <2>1, SumTakesOut
  <1>3. Targets(V) \in SUBSET Nodes
    BY PartsNow DEF Targets, ArcsIn, Parts
  <1>4. IsFiniteSet(Targets(V)) /\ Cardinality(Targets(V)) \in Nat
    BY <1>3, MallocAssumption, FS_Subset, FS_CardinalityType
  <1>5. Cost(V) \in Nat
    BY <1>2, <1>4 DEF Cost
  <1> QED BY <1>1, <1>2, <1>3, <1>4, <1>5

\* Nothing costs nothing.
LEMMA CostOfNone ==
    ASSUME Shape PROVE Cost({}) = 0
  <1>1. ArcsIn({}) = {} /\ {} \ {} = {}
    BY DEF ArcsIn
  <1>2. Targets({}) = {}
    BY <1>1 DEF Targets
  <1>3. SumOf(Stored, {}) = 0
    BY CostIsNat, SumTakesOut
  <1>4. Cardinality({}) = 0
    BY FS_EmptySet
  <1> QED BY <1>1, <1>2, <1>3, <1>4 DEF Cost

\* What a value really owns is the cost of all that is reached from it.
LEMMA CostOfReach ==
    ASSUME Shape, NEW n \in Nodes PROVE ReallyOwned(n) = Cost(Reach[n])
  <1> DEFINE R == Reach[n]
             A == ArcsIn(R)
  <1>1. R \ A \in SUBSET Nodes
    BY ReachFacts
  <1>2. ReallyOwned(n) = MapThenSumSet(Storage, R \ A) + Cardinality(UNION {Parts(m) : m \in A})
    BY DEF ReallyOwned, ArcsIn
  <1> HIDE DEF R, A
  <1>3. MapThenSumSet(Storage, R \ A) = SumOf(Stored, R \ A)
    BY <1>1, StoredSums
  <1> QED BY <1>2, <1>3 DEF Cost, Targets, R, A

\* Values that are not Arcs add what they store, ...
LEMMA CostOfValues ==
    ASSUME Shape, NEW V \in SUBSET Nodes, NEW D \in SUBSET Nodes, V \intersect D = {}, NoArcsIn(D)
    PROVE  Cost(V \union D) = Cost(V) + SumOf(Stored, D)
  <1>1. ArcsIn(V \union D) = ArcsIn(V)
    BY DEF ArcsIn, NoArcsIn
  <1>2. Targets(V \union D) = Targets(V)
    BY <1>1 DEF Targets
  <1>3. PICK a \in SUBSET Nodes : a = V \ ArcsIn(V)
    OBVIOUS
  <1>4. (V \union D) \ ArcsIn(V \union D) = a \union D /\ a \intersect D = {}
    BY <1>1, <1>3 DEF ArcsIn
  <1>5. Stored \in [Nodes -> Nat] /\ SumOf(Stored, a) \in Nat /\ Cardinality(Targets(V)) \in Nat
    BY <1>3, CostIsNat
  <1>6. SumOf(Stored, a \union D) = SumOf(Stored, a) + SumOf(Stored, D)
    BY ONLY <1>4, <1>5, SumOfDisjoint, a \in SUBSET Nodes, D \in SUBSET Nodes
  <1>7. SumOf(Stored, D) \in Nat
    BY <1>5, SumTakesOut
  <1>8. /\ Cost(V \union D) = SumOf(Stored, a \union D) + Cardinality(Targets(V))
        /\ Cost(V) = SumOf(Stored, a) + Cardinality(Targets(V))
    BY <1>2, <1>3, <1>4 DEF Cost
  <1> QED BY <1>5, <1>6, <1>7, <1>8

\* ... and an Arc adds the value it leads to.
LEMMA ArcHasOnePart ==
    ASSUME Shape, NEW n \in Nodes, Con(n) \in Arcs
    PROVE  Storage(n) = 1 /\ \E k \in Nodes : Parts(n) = {k}
  <1>1. Storage(n) = 1
    BY DEF Storage, Arcs, Sequential, Maps
  <1>2. heap[n].kids \in Seq(Nodes) /\ Len(heap[n].kids) = 1
    BY StillWellTyped, PartsNow DEF WellTyped, Con
  <1>3. Range(heap[n].kids) = {heap[n].kids[1]} /\ heap[n].kids[1] \in Nodes
    BY <1>2 DEF Range
  <1> QED BY <1>1, <1>3 DEF Parts

\* An Arc adds its block unless another Arc to the value has added it.
LEMMA CostOfArc ==
    ASSUME Shape, NEW V \in SUBSET Nodes, NEW n \in Nodes, n \notin V, Con(n) \in Arcs
    PROVE  /\ Parts(n) \intersect Targets(V) = {} => Cost(V \union {n}) = Cost(V) + Storage(n)
           /\ Parts(n) \subseteq Targets(V) => Cost(V \union {n}) = Cost(V)
  <1>1. PICK k \in Nodes : Parts(n) = {k}
    BY ArcHasOnePart
  <1>2. ArcsIn(V \union {n}) = ArcsIn(V) \union {n}
    BY DEF ArcsIn
  <1>3. Targets(V \union {n}) = Targets(V) \union {k}
    BY <1>1, <1>2 DEF Targets
  <1>4. (V \union {n}) \ ArcsIn(V \union {n}) = V \ ArcsIn(V)
    BY <1>2
  <1>5. /\ IsFiniteSet(Targets(V)) /\ Cardinality(Targets(V)) \in Nat
        /\ SumOf(Stored, V \ ArcsIn(V)) \in Nat
    BY CostIsNat
  <1>6. /\ Cost(V \union {n}) = SumOf(Stored, V \ ArcsIn(V)) + Cardinality(Targets(V) \union {k})
        /\ Cost(V) = SumOf(Stored, V \ ArcsIn(V)) + Cardinality(Targets(V))
    BY <1>3, <1>4 DEF Cost
  <1>7. ASSUME Parts(n) \intersect Targets(V) = {} PROVE Cost(V \union {n}) = Cost(V) + Storage(n)
    <2>1. Cardinality(Targets(V) \union {k}) = Cardinality(Targets(V)) + 1
      <3>1. k \notin Targets(V)
        BY <1>1, <1>7
      <3> QED BY <1>5, <3>1, FS_AddElement
    <2>2. Storage(n) = 1
      BY ArcHasOnePart
    <2> QED BY <1>5, <1>6, <2>1, <2>2
  <1>8. ASSUME Parts(n) \subseteq Targets(V) PROVE Cost(V \union {n}) = Cost(V)
    <2>1. Targets(V) \union {k} = Targets(V)
      BY <1>1, <1>8
    <2> QED BY <1>6, <2>1
  <1> QED BY <1>7, <1>8

-----------------------------------------------------------------------------
(* A walk that nobody disturbs.                                              *)

\* From r, the walk has been to V and has still to visit P; it has counted x and
\* its op has seen sn.
CondTargets(V) == UNION {Parts(m) : m \in {a \in V : Con(a) = "CondArc"}}
Explored(V, P, r, x, sn) ==
    /\ V \subseteq Reach[r] /\ P \subseteq Reach[r] /\ V \intersect P = {} /\ r \in V \union P
    /\ x = Cost(V)
    /\ \A m \in V : Parts(m) \subseteq V \union P
    /\ \A m \in V \union P : m # r => \E p \in V : m \in Parts(p)
    /\ sn # NoOp => sn = CondTargets(V)

\* A walk begins with all to visit ...
LEMMA BeginsExploring ==
    ASSUME Shape, NEW r \in Nodes, NEW sn \in {{}, NoOp}
    PROVE  Explored({}, {r}, r, 0, sn)
  <1>1. r \in Reach[r]
    BY ReachFacts
  <1>2. CondTargets({}) = {}
    BY DEF CondTargets
  <1>3. Cost({}) = 0
    BY CostOfNone
  <1> QED BY <1>1, <1>2, <1>3 DEF Explored

\* ... and when there is nothing left to visit it has measured everything.
LEMMA EndsExploring ==
    ASSUME Shape, NEW r \in Nodes, NEW V, NEW x, NEW sn, Explored(V, {}, r, x, sn)
    PROVE  x = ReallyOwned(r)
  <1>1. IsReach(r)
    BY ReachIsLeast
  <1>2. V \in SUBSET Nodes /\ r \in V /\ ClosedNow(V) /\ V \subseteq Reach[r] /\ x = Cost(V)
    BY <1>1 DEF Explored, ClosedNow, IsReach
  <1>3. V = Reach[r]
    BY <1>1, <1>2 DEF IsReach
  <1> QED BY <1>2, <1>3, CostOfReach

\* What no Arc was counted for is new with its parts.
LEMMA PartsAreNew ==
    ASSUME Shape, NEW r \in Nodes, CountedOnce(r), NEW V, NEW P, NEW x, NEW sn,
           Explored(V, P, r, x, sn), NEW n \in P,
           Con(n) = "CondArc" => sn # NoOp /\ ~(Parts(n) \subseteq sn)
    PROVE  /\ n \in Nodes /\ n \notin V /\ n \in Reach[r] /\ Parts(n) \subseteq Reach[r]
           /\ \A k \in Parts(n) : /\ k \notin V \union P
                                  /\ \A p \in V : k \notin Parts(p)
  <1>1. /\ n \in Reach[r] /\ Reach[r] \in SUBSET Nodes /\ Parts(n) \subseteq Reach[r] /\ r \leq n
        /\ V \subseteq Reach[r] /\ n \notin V
    BY ReachFacts DEF Explored
  <1>2. ASSUME NEW k \in Parts(n), NEW p \in V, k \in Parts(p) PROVE FALSE
    <2>1. p \in Reach[r] /\ p # n
      BY <1>1
    <2>2. Con(n) = "CondArc" /\ Con(p) = "CondArc"
      BY <1>1, <1>2, <2>1 DEF CountedOnce
    <2>3. PICK j \in Nodes : Parts(n) = {j}
      BY <1>1, <2>2, ArcHasOnePart DEF Arcs
    <2>4. k \in CondTargets(V)
      BY <1>2, <2>2 DEF CondTargets
    <2>5. Parts(n) \subseteq sn
      BY <2>2, <2>3, <2>4 DEF Explored
    <2> QED BY <2>2, <2>5
  <1>3. ASSUME NEW k \in Parts(n) PROVE k \notin V \union P
    <2>1. k \in Nodes /\ n < k /\ n \in Nat /\ k \in Nat /\ r \in Nat
      BY <1>1, PartsNow, MallocAssumption DEF Parts
    <2>2. k # r
      BY <1>1, <2>1
    <2> QED BY <1>2, <2>2 DEF Explored
  <1> QED BY <1>1, <1>2, <1>3

\* A value is visited and its parts are next.
LEMMA VisitExplores ==
    ASSUME Shape, NEW r \in Nodes, CountedOnce(r), NEW V, NEW P, NEW x, NEW sn,
           Explored(V, P, r, x, sn), NEW n \in P,
           Con(n) = "CondArc" => sn # NoOp /\ ~(Parts(n) \subseteq sn),
           NEW sn2, Con(n) = "CondArc" => sn2 = sn \union Parts(n), Con(n) # "CondArc" => sn2 = sn
    PROVE  /\ Explored(V \union {n}, (P \ {n}) \union Parts(n), r, x + Storage(n), sn2)
           /\ Parts(n) \intersect (P \ {n}) = {}
  <1> DEFINE V2 == V \union {n}
             P2 == (P \ {n}) \union Parts(n)
  <1>1. /\ n \in Nodes /\ n \notin V /\ n \in Reach[r] /\ Parts(n) \subseteq Reach[r]
        /\ \A k \in Parts(n) : k \notin V \union P /\ \A p \in V : k \notin Parts(p)
    BY PartsAreNew
  <1>2. V \in SUBSET Nodes
    BY ReachFacts DEF Explored
  <1>3. x + Storage(n) = Cost(V2)
    <2>1. CASE Con(n) \in Arcs
      <3>1. Parts(n) \intersect Targets(V) = {}
        BY <1>1 DEF Targets, ArcsIn
      <3> QED BY <1>1, <1>2, <2>1, <3>1, CostOfArc DEF Explored
    <2>2. CASE Con(n) \notin Arcs
      <3>1. PICK D \in SUBSET Nodes : D = {n}
        BY <1>1
      <3>2. V \intersect D = {} /\ NoArcsIn(D)
        BY <1>1, <2>2, <3>1 DEF NoArcsIn
      <3>3. Cost(V \union D) = Cost(V) + SumOf(Stored, D)
        BY <1>2, <3>2, CostOfValues
      <3>4. SumOf(Stored, {n}) = Storage(n)
        BY <1>1, <1>2, CostIsNat, SumOfSingle
      <3> QED BY <3>1, <3>3, <3>4 DEF Explored
    <2> QED BY <2>1, <2>2
  <1>4. V2 \subseteq Reach[r] /\ P2 \subseteq Reach[r] /\ r \in V2 \union P2
    BY <1>1 DEF Explored
  <1>5. V2 \intersect P2 = {}
    <2>1. n \notin Parts(n)
      BY <1>1
    <2> QED BY <1>1, <2>1 DEF Explored
  <1>6. \A m \in V2 : Parts(m) \subseteq V2 \union P2
    BY DEF Explored
  <1>7. \A m \in V2 \union P2 : m # r => \E p \in V2 : m \in Parts(p)
    BY DEF Explored
  <1>8. sn2 # NoOp => sn2 = CondTargets(V2)
    <2>1. CASE Con(n) = "CondArc"
      <3>1. sn = CondTargets(V)
        BY <2>1 DEF Explored
      <3>2. CondTargets(V2) = CondTargets(V) \union Parts(n)
        BY <2>1 DEF CondTargets
      <3> QED BY <2>1, <3>1, <3>2
    <2>2. CASE Con(n) # "CondArc"
      <3>1. CondTargets(V2) = CondTargets(V)
        BY <2>2 DEF CondTargets
      <3> QED BY <2>2, <3>1 DEF Explored
    <2> QED BY <2>1, <2>2
  <1>9. Parts(n) \intersect (P \ {n}) = {}
    BY <1>1
  <1> HIDE DEF V2, P2
  <1>10. Explored(V2, P2, r, x + Storage(n), sn2)
    BY <1>3, <1>4, <1>5, <1>6, <1>7, <1>8 DEF Explored
  <1> QED BY <1>9, <1>10 DEF V2, P2

\* An Arc is skipped because another one led to its value.
LEMMA SkipExplores ==
    ASSUME Shape, NEW r \in Nodes, NEW V, NEW P, NEW x, NEW sn, Explored(V, P, r, x, sn),
           NEW n \in P, Con(n) = "CondArc", sn # NoOp, Parts(n) \subseteq sn
    PROVE  Explored(V \union {n}, P \ {n}, r, x, sn)
  <1> DEFINE V2 == V \union {n}
             P2 == P \ {n}
  <1>1. V \in SUBSET Nodes /\ n \in Nodes /\ n \notin V
    BY ReachFacts DEF Explored
  <1>2. sn = CondTargets(V) /\ Parts(n) \subseteq CondTargets(V)
    BY DEF Explored
  <1>3. Parts(n) \subseteq Targets(V)
    BY <1>2 DEF Targets, ArcsIn, CondTargets, Arcs
  <1>4. x = Cost(V2)
    BY <1>1, <1>3, CostOfArc DEF Explored, Arcs
  <1>5. V2 \subseteq Reach[r] /\ P2 \subseteq Reach[r] /\ V2 \intersect P2 = {} /\ r \in V2 \union P2
    BY DEF Explored
  <1>6. Parts(n) \subseteq V2 \union P2
    <2>1. CondTargets(V) \subseteq V \union P
      BY DEF CondTargets, Explored
    <2> QED BY <1>2, <2>1
  <1>7. \A m \in V2 : Parts(m) \subseteq V2 \union P2
    BY <1>6 DEF Explored
  <1>8. \A m \in V2 \union P2 : m # r => \E p \in V2 : m \in Parts(p)
    BY DEF Explored
  <1>9. CondTargets(V2) = CondTargets(V)
    <2>1. CondTargets(V2) = CondTargets(V) \union Parts(n)
      BY DEF CondTargets
    <2> QED BY <1>2, <2>1
  <1> HIDE DEF V2, P2
  <1>10. Explored(V2, P2, r, x, sn)
    BY <1>2, <1>4, <1>5, <1>7, <1>8, <1>9 DEF Explored
  <1> QED BY <1>10 DEF V2, P2

\* The elements of a collection are new when their sizes are constant, ...
LEMMA ElementsAreNew ==
    ASSUME Shape, NEW r \in Nodes, CountedOnce(r), NEW V, NEW P, NEW x, NEW sn,
           Explored(V, P, r, x, sn), NEW n \in P, NoArcsIn(Reach[n])
    PROVE  Reach[n] \intersect (V \union (P \ {n})) = {}
  <1> DEFINE R == Reach[n]
             B == R \intersect (V \union (P \ {n}))
  <1>1. /\ n \in Reach[r] /\ n \in Nodes /\ Reach[r] \in SUBSET Nodes /\ r \leq n /\ n \notin V
        /\ V \subseteq Reach[r]
    BY ReachFacts DEF Explored
  <1>2. R \in SUBSET Nodes /\ R \subseteq Reach[r] /\ \A a \in R : n \leq a
    BY <1>1, ReachFacts
  <1> SUFFICES ASSUME B # {} PROVE FALSE
    OBVIOUS
  <1>3. PICK a \in B : \A b \in B : a \leq b
    <2>1. B \subseteq Nat
      BY <1>2, MallocAssumption
    <2> QED BY <2>1, LeastOf
  <1>4. a # n /\ a \in R /\ a \in Nodes
    BY <1>1, <1>2, <1>3
  <1>5. a # r
    <2>1. n \leq a /\ n \in Nat /\ a \in Nat /\ r \in Nat
      BY <1>1, <1>2, <1>4, MallocAssumption
    <2> QED BY <1>1, <1>4, <2>1
  <1>6. PICK p \in V : a \in Parts(p)
    BY <1>3, <1>5 DEF Explored
  <1>7. PICK q \in R : a \in Parts(q)
    BY <1>1, <1>4, ReachFacts
  <1>8. p # q
    <2> SUFFICES ASSUME p = q PROVE FALSE
      OBVIOUS
    <2>1. a \leq p
      BY <1>3, <1>6, <1>7
    <2>2. p \in Nodes /\ p < a /\ p \in Nat /\ a \in Nat
      BY <1>1, <1>4, <1>6, PartsNow, MallocAssumption DEF Parts
    <2> QED BY <2>1, <2>2
  <1>9. p \in Reach[r] /\ q \in Reach[r] /\ Parts(p) \intersect Parts(q) # {}
    BY <1>1, <1>2, <1>6, <1>7
  <1>10. Con(q) = "CondArc"
    BY <1>8, <1>9 DEF CountedOnce
  <1> QED BY <1>7, <1>10 DEF NoArcsIn, Arcs

\* ... and len * constant counts them as a visit of each would.
LEMMA CollectionExplores ==
    ASSUME Shape, NEW r \in Nodes, CountedOnce(r), NEW V, NEW P, NEW x, NEW sn,
           Explored(V, P, r, x, sn), NEW n \in P,
           Con(n) \in Collections, ElementConstant(n) # NotConstant
    PROVE  Explored(V \union Reach[n], P \ {n}, r,
                    x + (Storage(n) + Length(n) * ElementConstant(n)), sn)
  <1> DEFINE V2 == V \union Reach[n]
             P2 == P \ {n}
  <1>1. /\ n \in Reach[r] /\ n \in Nodes /\ V \subseteq Reach[r] /\ V \in SUBSET Nodes
        /\ Reach[n] \subseteq Reach[r]
    BY ReachFacts DEF Explored
  <1>2. /\ NoArcsIn(Reach[n])
        /\ SumOf(Stored, Reach[n]) = Storage(n) + Length(n) * ElementConstant(n)
    BY <1>1, ElementsAreTrees
  <1>3. Reach[n] \intersect (V \union P2) = {}
    BY <1>2, ElementsAreNew
  <1>4. PICK D \in SUBSET Nodes : D = Reach[n]
    BY <1>1, ReachFacts
  <1>5. Cost(V2) = x + (Storage(n) + Length(n) * ElementConstant(n))
    <2>1. V \intersect D = {} /\ NoArcsIn(D)
      BY <1>2, <1>3, <1>4
    <2>2. Cost(V \union D) = Cost(V) + SumOf(Stored, D)
      BY <1>1, <2>1, CostOfValues
    <2>3. x = Cost(V)
      BY DEF Explored
    <2> QED BY <1>2, <1>4, <2>2, <2>3
  <1>6. V2 \subseteq Reach[r] /\ P2 \subseteq Reach[r] /\ V2 \intersect P2 = {} /\ r \in V2 \union P2
    <2>1. n \in Reach[n]
      BY <1>1, ReachFacts
    <2> QED BY <1>1, <1>3, <2>1 DEF Explored
  <1>7. \A m \in V2 : Parts(m) \subseteq V2 \union P2
    <2> TAKE m \in V2
    <2>1. CASE m \in V
      <3>1. Parts(m) \subseteq V \union P /\ n \in Reach[n]
        BY <1>1, <2>1, ReachFacts DEF Explored
      <3> QED BY <3>1
    <2>2. CASE m \in Reach[n]
      BY <1>1, <2>2, ReachFacts
    <2> QED BY <2>1, <2>2
  <1>8. \A m \in V2 \union P2 : m # r => \E p \in V2 : m \in Parts(p)
    <2> SUFFICES ASSUME NEW m \in V2 \union P2, m # r PROVE \E p \in V2 : m \in Parts(p)
      OBVIOUS
    <2>1. CASE m \in Reach[n] /\ m # n
      <3>1. \E p \in Reach[n] : m \in Parts(p)
        BY <1>1, <2>1, ReachFacts
      <3> QED BY <3>1
    <2>2. CASE m \notin Reach[n] \/ m = n
      BY <2>2 DEF Explored
    <2> QED BY <2>1, <2>2
  <1>9. CondTargets(V2) = CondTargets(V)
    <2>1. \A a \in V2 : Con(a) = "CondArc" => a \in V
      BY <1>2 DEF NoArcsIn, Arcs
    <2>2. {a \in V2 : Con(a) = "CondArc"} = {a \in V : Con(a) = "CondArc"}
      BY <2>1
    <2> QED BY <2>2 DEF CondTargets
  <1>10. sn # NoOp => sn = CondTargets(V2)
    BY <1>9 DEF Explored
  <1> HIDE DEF V2, P2
  <1>11. Explored(V2, P2, r, x + (Storage(n) + Length(n) * ElementConstant(n)), sn)
    BY <1>5, <1>6, <1>7, <1>8, <1>10 DEF Explored
  <1> QED BY <1>11 DEF V2, P2

-----------------------------------------------------------------------------
(* What a recursion has still to visit, each value once.                     *)

Pending(s) == {s[i].node : i \in {j \in DOMAIN s : ~s[j].release}}
Once(s) ==
    \A i, j \in DOMAIN s : ~s[i].release /\ ~s[j].release /\ s[i].node = s[j].node => i = j

\* The frame on top is taken off.
LEMMA PendingPopped ==
    ASSUME NEW s \in Seq(Frames), s # <<>>, Once(s)
    PROVE  /\ Once(Tail(s))
           /\ Head(s).release => Pending(Tail(s)) = Pending(s)
           /\ ~Head(s).release => /\ Head(s).node \in Pending(s)
                                  /\ Pending(Tail(s)) = Pending(s) \ {Head(s).node}
  <1> DEFINE t == Tail(s)
  <1>1. /\ Len(s) \in Nat /\ Len(s) > 0 /\ DOMAIN s = 1..Len(s) /\ Head(s) = s[1]
        /\ t \in Seq(Frames) /\ DOMAIN t = 1..(Len(s) - 1)
        /\ \A i \in DOMAIN t : t[i] = s[i + 1] /\ i + 1 \in DOMAIN s /\ i \in Nat
    OBVIOUS
  <1>2. \A i \in DOMAIN s : i # 1 => i - 1 \in DOMAIN t /\ t[i - 1] = s[i]
    BY <1>1
  <1> HIDE DEF t
  <1>3. Once(t)
    <2> SUFFICES ASSUME NEW i \in DOMAIN t, NEW j \in DOMAIN t,
                        ~t[i].release, ~t[j].release, t[i].node = t[j].node
                 PROVE  i = j
      BY DEF Once
    <2>1. i + 1 = j + 1
      BY <1>1 DEF Once
    <2> QED BY <1>1, <2>1
  <1>4. ASSUME NEW m \in Pending(s) PROVE m \in Pending(t) \/ (~s[1].release /\ m = s[1].node)
    <2>1. PICK i \in DOMAIN s : ~s[i].release /\ m = s[i].node
      BY DEF Pending
    <2>2. CASE i = 1
      BY <2>1, <2>2
    <2>3. CASE i # 1
      BY <1>2, <2>1, <2>3 DEF Pending
    <2> QED BY <2>2, <2>3
  <1>5. ASSUME NEW m \in Pending(t) PROVE m \in Pending(s) /\ (~s[1].release => m # s[1].node)
    <2>1. PICK i \in DOMAIN t : ~t[i].release /\ m = t[i].node
      BY DEF Pending
    <2>2. t[i] = s[i + 1] /\ i + 1 \in DOMAIN s /\ i + 1 # 1 /\ 1 \in DOMAIN s
      BY <1>1
    <2> QED BY <2>1, <2>2 DEF Pending, Once
  <1>6. ~s[1].release => s[1].node \in Pending(s)
    BY <1>1 DEF Pending
  <1> QED BY <1>1, <1>3, <1>4, <1>5, <1>6 DEF t

\* Parts that are not pending are pushed.
LEMMA PendingPushed ==
    ASSUME NEW ks \in Seq(Nodes), NEW t \in Seq(Frames), Once(t),
           \A i, j \in DOMAIN ks : ks[i] = ks[j] => i = j,
           Range(ks) \intersect Pending(t) = {}
    PROVE  Once(Visits(ks) \o t) /\ Pending(Visits(ks) \o t) = Range(ks) \union Pending(t)
  <1> DEFINE q == Visits(ks) \o t
  <1>1. /\ q \in Seq(Frames) /\ Len(q) = Len(ks) + Len(t)
        /\ \A i \in 1..Len(ks) : q[i] = Visit(ks[i])
        /\ \A i \in 1..Len(t) : q[Len(ks) + i] = t[i]
    BY Pushed
  <1> HIDE DEF q
  <1>2. /\ Len(ks) \in Nat /\ Len(t) \in Nat /\ DOMAIN q = 1..(Len(ks) + Len(t))
        /\ DOMAIN ks = 1..Len(ks) /\ DOMAIN t = 1..Len(t)
    BY <1>1
  <1>3. \A i \in DOMAIN ks : i \in DOMAIN q /\ ~q[i].release /\ q[i].node = ks[i] /\ ks[i] \in Range(ks)
    <2> SUFFICES ASSUME NEW i \in DOMAIN ks
                 PROVE  i \in DOMAIN q /\ ~q[i].release /\ q[i].node = ks[i] /\ ks[i] \in Range(ks)
      OBVIOUS
    <2>1. i \in 1..Len(ks) /\ i \in DOMAIN q
      BY <1>2
    <2>2. q[i] = Visit(ks[i])
      BY <1>1, <2>1
    <2>3. ~q[i].release /\ q[i].node = ks[i]
      BY <2>2 DEF Visit
    <2>4. ks[i] \in Range(ks)
      BY DEF Range
    <2> QED BY <2>1, <2>3, <2>4
  <1>4. \A i \in DOMAIN q : i \notin DOMAIN ks => i - Len(ks) \in DOMAIN t /\ q[i] = t[i - Len(ks)]
    <2> SUFFICES ASSUME NEW i \in DOMAIN q, i \notin DOMAIN ks
                 PROVE  i - Len(ks) \in DOMAIN t /\ q[i] = t[i - Len(ks)]
      OBVIOUS
    <2>1. i - Len(ks) \in 1..Len(t) /\ Len(ks) + (i - Len(ks)) = i
      BY <1>2
    <2> QED BY <1>1, <1>2, <2>1
  <1>5. \A i \in DOMAIN t : Len(ks) + i \in DOMAIN q /\ q[Len(ks) + i] = t[i]
    BY <1>1, <1>2
  <1>6. Pending(q) = Range(ks) \union Pending(t)
    <2>1. ASSUME NEW m \in Pending(q) PROVE m \in Range(ks) \union Pending(t)
      <3>1. PICK i \in DOMAIN q : ~q[i].release /\ m = q[i].node
        BY DEF Pending
      <3> QED BY <1>3, <1>4, <3>1 DEF Pending
    <2>2. Range(ks) \subseteq Pending(q)
      <3>1. \A k \in Range(ks) : \E i \in DOMAIN ks : k = ks[i]
        BY DEF Range
      <3> QED BY <1>3, <3>1 DEF Pending
    <2>3. Pending(t) \subseteq Pending(q)
      <3> SUFFICES ASSUME NEW m \in Pending(t) PROVE m \in Pending(q)
        OBVIOUS
      <3>1. PICK i \in DOMAIN t : ~t[i].release /\ m = t[i].node
        BY DEF Pending
      <3> QED BY <1>5, <3>1 DEF Pending
    <2> QED BY <2>1, <2>2, <2>3
  <1>7. Once(q)
    <2> SUFFICES ASSUME NEW i \in DOMAIN q, NEW j \in DOMAIN q,
                        ~q[i].release, ~q[j].release, q[i].node = q[j].node
                 PROVE  i = j
      BY DEF Once
    <2>1. \A a \in DOMAIN q : a \notin DOMAIN ks /\ ~q[a].release => q[a].node \in Pending(t)
      BY <1>4 DEF Pending
    <2>2. CASE i \in DOMAIN ks /\ j \in DOMAIN ks
      BY <1>3, <2>2
    <2>3. CASE i \in DOMAIN ks /\ j \notin DOMAIN ks
      BY <1>3, <2>1, <2>3
    <2>4. CASE i \notin DOMAIN ks /\ j \in DOMAIN ks
      BY <1>3, <2>1, <2>4
    <2>5. CASE i \notin DOMAIN ks /\ j \notin DOMAIN ks
      <3>1. i - Len(ks) = j - Len(ks)
        BY <1>4, <2>5 DEF Once
      <3> QED BY <1>2, <3>1
    <2> QED BY <2>2, <2>3, <2>4, <2>5
  <1> QED BY <1>6, <1>7 DEF q

\* A release is pushed.
LEMMA PendingUnderLock ==
    ASSUME NEW n \in Nodes, NEW t \in Seq(Frames), Once(t)
    PROVE  /\ <<Release(n)>> \o t \in Seq(Frames) /\ Once(<<Release(n)>> \o t)
           /\ Pending(<<Release(n)>> \o t) = Pending(t)
  <1> DEFINE q == <<Release(n)>> \o t
  <1>1. Release(n) \in Frames /\ Release(n).release
    BY DEF Release, Frames
  <1>2. /\ q \in Seq(Frames) /\ Len(q) = 1 + Len(t) /\ q[1] = Release(n)
        /\ \A i \in 1..Len(t) : q[1 + i] = t[i]
    BY <1>1
  <1> HIDE DEF q
  <1>3. Len(t) \in Nat /\ DOMAIN q = 1..(1 + Len(t)) /\ DOMAIN t = 1..Len(t)
    BY <1>2
  <1>4. \A i \in DOMAIN q : ~q[i].release => i - 1 \in DOMAIN t /\ q[i] = t[i - 1]
    <2> SUFFICES ASSUME NEW i \in DOMAIN q, ~q[i].release
                 PROVE  i - 1 \in DOMAIN t /\ q[i] = t[i - 1]
      OBVIOUS
    <2>1. i - 1 \in 1..Len(t) /\ 1 + (i - 1) = i
      BY <1>1, <1>2, <1>3
    <2> QED BY <1>2, <1>3, <2>1
  <1>5. \A i \in DOMAIN t : 1 + i \in DOMAIN q /\ q[1 + i] = t[i]
    BY <1>2, <1>3
  <1>6. Pending(q) = Pending(t)
    <2>1. ASSUME NEW m \in Pending(q) PROVE m \in Pending(t)
      <3>1. PICK i \in DOMAIN q : ~q[i].release /\ m = q[i].node
        BY DEF Pending
      <3> QED BY <1>4, <3>1 DEF Pending
    <2>2. ASSUME NEW m \in Pending(t) PROVE m \in Pending(q)
      <3>1. PICK i \in DOMAIN t : ~t[i].release /\ m = t[i].node
        BY DEF Pending
      <3> QED BY <1>5, <3>1 DEF Pending
    <2> QED BY <2>1, <2>2
  <1>7. Once(q)
    <2> SUFFICES ASSUME NEW i \in DOMAIN q, NEW j \in DOMAIN q,
                        ~q[i].release, ~q[j].release, q[i].node = q[j].node
                 PROVE  i = j
      BY DEF Once
    <2>1. i - 1 = j - 1
      BY <1>4 DEF Once
    <2> QED BY <1>3, <2>1
  <1> QED BY <1>2, <1>6, <1>7 DEF q

-----------------------------------------------------------------------------
(* The invariant of the walks that nobody disturbs.                          *)

Measured(v) ==
    pc[v] \in {"walking", "done"} /\ ~disturbed[v]
    /\ CountedOnce(start[v]) /\ NothingStoredTwice(start[v]) =>
        /\ Once(todo[v])
        /\ \E V \in SUBSET Nodes : Explored(V, Pending(todo[v]), start[v], total[v], seen[v])

ExactInv ==
    /\ seen \in [Walkers -> SUBSET (Nodes \union {None})]
    /\ disturbed \in [Walkers -> BOOLEAN]
    /\ \A v \in Walkers : Measured(v)

\* What is said of a structure stays while nobody writes.
LEMMA HeapStays ==
    ASSUME UNCHANGED <<heap, born>>
    PROVE  /\ Reach' = Reach
           /\ \A n : /\ CountedOnce(n)' <=> CountedOnce(n)
                     /\ NothingStoredTwice(n)' <=> NothingStoredTwice(n)
           /\ \A V, P, r, x, sn : Explored(V, P, r, x, sn)' <=> Explored(V, P, r, x, sn)
  <1>1. Reach' = Reach
    BY DEF Reach, Parts
  <1>2. \A n : Parts(n)' = Parts(n) /\ Con(n)' = Con(n)
    BY DEF Parts, Con
  <1>3. \A n : CountedOnce(n)' <=> CountedOnce(n)
    BY <1>1, <1>2 DEF CountedOnce
  <1>4. \A n : NothingStoredTwice(n)' <=> NothingStoredTwice(n)
    <2>1. Below' = Below
      BY DEF Below
    <2>2. \A m : ElementConstant(m)' = ElementConstant(m)
      BY DEF ElementConstant
    <2> QED BY <1>2, <2>1, <2>2 DEF NothingStoredTwice, StoredTwice
  <1>5. Stored' = Stored
    <2>1. \A m : /\ SequenceStorage(m)' = SequenceStorage(m) /\ MapStorage(m)' = MapStorage(m)
                 /\ BoxStorage(m)' = BoxStorage(m)
      BY <1>2 DEF SequenceStorage, MapStorage, BoxStorage, Length, Arity, Con
    <2>2. \A m : Storage(m)' = Storage(m)
      BY <1>2, <2>1 DEF Storage
    <2> QED BY <2>2 DEF Stored
  <1>6. \A V : ArcsIn(V)' = ArcsIn(V) /\ Targets(V)' = Targets(V) /\ CondTargets(V)' = CondTargets(V)
    <2>1. \A V : ArcsIn(V)' = ArcsIn(V)
      BY <1>2 DEF ArcsIn
    <2>2. \A V : Targets(V)' = Targets(V)
      BY <1>2, <2>1 DEF Targets
    <2>3. \A V : CondTargets(V)' = CondTargets(V)
      BY <1>2 DEF CondTargets
    <2> QED BY <2>1, <2>2, <2>3
  <1>7. \A V : Cost(V)' = Cost(V)
    BY <1>5, <1>6 DEF Cost, SumOf, SumOver
  <1>8. \A V, P, r, x, sn : Explored(V, P, r, x, sn)' <=> Explored(V, P, r, x, sn)
    BY <1>1, <1>2, <1>6, <1>7 DEF Explored
  <1> QED BY <1>1, <1>3, <1>4, <1>8

\* One walk goes on.
LEMMA WalkExplores ==
    ASSUME MallocInv, AccountInv, ExactInv, NEW w \in Walkers, UNCHANGED <<heap, born, start>>,
           NEW q \in Seq(Frames), NEW p \in {"walking", "done", "panicked"}, NEW a \in Nat,
           NEW sn \in SUBSET (Nodes \union {None}), NEW d \in BOOLEAN,
           todo' = [todo EXCEPT ![w] = q], pc' = [pc EXCEPT ![w] = p],
           total' = [total EXCEPT ![w] = a], seen' = [seen EXCEPT ![w] = sn],
           disturbed' = [disturbed EXCEPT ![w] = d],
           p # "panicked" /\ ~d /\ CountedOnce(start[w]) /\ NothingStoredTwice(start[w]) =>
               Once(q) /\ \E V \in SUBSET Nodes : Explored(V, Pending(q), start[w], a, sn)
    PROVE  ExactInv'
  <1>1. /\ \A n : /\ CountedOnce(n)' <=> CountedOnce(n)
                  /\ NothingStoredTwice(n)' <=> NothingStoredTwice(n)
        /\ \A V, P, r, x, s : Explored(V, P, r, x, s)' <=> Explored(V, P, r, x, s)
    BY HeapStays
  <1>2. /\ todo \in [Walkers -> Seq(Frames)] /\ total \in [Walkers -> Nat]
        /\ pc \in [Walkers -> {"idle", "walking", "done", "panicked"}]
        /\ seen \in [Walkers -> SUBSET (Nodes \union {None})] /\ disturbed \in [Walkers -> BOOLEAN]
    BY DEF MallocInv, Walks, AccountInv, Sums, ExactInv
  <1>3. /\ todo'[w] = q /\ pc'[w] = p /\ total'[w] = a /\ seen'[w] = sn /\ disturbed'[w] = d
        /\ \A v \in Walkers : v # w => /\ todo'[v] = todo[v] /\ pc'[v] = pc[v] /\ total'[v] = total[v]
                                       /\ seen'[v] = seen[v] /\ disturbed'[v] = disturbed[v]
    BY <1>2
  <1>4. /\ seen' \in [Walkers -> SUBSET (Nodes \union {None})]
        /\ disturbed' \in [Walkers -> BOOLEAN]
    BY <1>2
  <1>5. ASSUME NEW v \in Walkers PROVE Measured(v)'
    <2>1. SUFFICES ASSUME pc'[v] \in {"walking", "done"}, ~disturbed'[v],
                          CountedOnce(start[v]), NothingStoredTwice(start[v])
                   PROVE  /\ Once(todo'[v])
                          /\ \E V \in SUBSET Nodes :
                                 Explored(V, Pending(todo'[v]), start[v], total'[v], seen'[v])
      BY <1>1 DEF Measured, Once, Pending
    <2>2. CASE v = w
      BY <1>3, <2>1, <2>2
    <2>3. CASE v # w
      <3>1. Measured(v)
        BY DEF ExactInv
      <3> QED BY <1>3, <2>1, <2>3, <3>1 DEF Measured
    <2> QED BY <2>2, <2>3
  <1> QED BY <1>4, <1>5 DEF ExactInv

\* A walk that nobody disturbed, of values that are counted and stored once.
Undisturbed(w) == ~disturbed[w] /\ CountedOnce(start[w]) /\ NothingStoredTwice(start[w])

\* The value on top is one of those to visit.
LEMMA TopIsPending ==
    ASSUME MallocInv, AccountInv, ExactInv, NEW w \in Walkers, pc[w] = "walking", todo[w] # <<>>,
           Undisturbed(w), NEW n \in Nodes, n = Next1(w).node
    PROVE  /\ Rest(w) \in Seq(Frames) /\ Once(Rest(w))
           /\ Next1(w).release => Pending(Rest(w)) = Pending(todo[w])
           /\ ~Next1(w).release => /\ n \in Pending(todo[w]) /\ ~StoredTwice(n)
                                   /\ Pending(Rest(w)) = Pending(todo[w]) \ {n}
           /\ start[w] \in Nodes /\ CountedOnce(start[w])
           /\ \E V \in SUBSET Nodes : Explored(V, Pending(todo[w]), start[w], total[w], seen[w])
  <1>1. /\ todo[w] \in Seq(Frames) /\ Tail(todo[w]) \in Seq(Frames) /\ n \in Below[start[w]]
        /\ start[w] \in Nodes /\ Next1(w) = Head(todo[w])
    BY TopOfWalk
  <1>2. Measured(w)
    BY DEF ExactInv
  <1>3. /\ Once(todo[w]) /\ CountedOnce(start[w])
        /\ \E V \in SUBSET Nodes : Explored(V, Pending(todo[w]), start[w], total[w], seen[w])
    BY <1>2 DEF Measured, Undisturbed
  <1>4. ~StoredTwice(n)
    BY <1>1 DEF Undisturbed, NothingStoredTwice
  <1> QED BY <1>1, <1>3, <1>4, PendingPopped DEF Rest

\* The parts of a value are pushed, or none of them.
LEMMA PushesParts ==
    ASSUME Shape, NEW n \in Nodes, NEW ks \in {<<>>, heap[n].kids}, NEW t \in Seq(Frames), Once(t),
           Range(ks) \intersect Pending(t) = {}
    PROVE  /\ Visits(ks) \o t \in Seq(Frames) /\ Once(Visits(ks) \o t)
           /\ Pending(Visits(ks) \o t) = Range(ks) \union Pending(t)
  <1>1. ks \in Seq(Nodes)
    <2>1. heap[n].kids \in Seq(Nodes) /\ <<>> \in Seq(Nodes)
      BY PartsNow
    <2> QED BY <2>1
  <1>2. \A i, j \in DOMAIN heap[n].kids : heap[n].kids[i] = heap[n].kids[j] => i = j
    BY PartsDiffer
  <1>3. \A i, j \in DOMAIN ks : ks[i] = ks[j] => i = j
    <2>1. DOMAIN <<>> = {}
      OBVIOUS
    <2> QED BY <1>2, <2>1
  <1> QED BY <1>1, <1>3, Pushed, PendingPushed

\* size_of of n adds `own`, and its parts are explored later or were counted.
LEMMA AddsExplores ==
    ASSUME MallocInv, AccountInv, ExactInv, NEW w \in Walkers, pc[w] = "walking", todo[w] # <<>>,
           NEW n \in Nodes, n = Next1(w).node, ~Next1(w).release,
           NEW own \in Nat, NEW ks \in {<<>>, heap[n].kids}, Adds(w, own, ks),
           NEW sn \in SUBSET (Nodes \union {None}), seen' = [seen EXCEPT ![w] = sn],
           Undisturbed(w) =>
               /\ Range(ks) \intersect (Pending(todo[w]) \ {n}) = {}
               /\ \E V \in SUBSET Nodes :
                      Explored(V, (Pending(todo[w]) \ {n}) \union Range(ks), start[w], total[w] + own, sn)
    PROVE  ExactInv'
  <1> DEFINE q == Visits(ks) \o Rest(w)
             a == total[w] + own
  <1>1. /\ todo' = [todo EXCEPT ![w] = q] /\ total' = [total EXCEPT ![w] = a]
        /\ UNCHANGED <<heap, born, start, pc, disturbed>>
    BY DEF Adds
  <1>2. /\ total[w] \in Nat /\ pc' = [pc EXCEPT ![w] = "walking"] /\ disturbed[w] \in BOOLEAN
        /\ disturbed' = [disturbed EXCEPT ![w] = disturbed[w]]
    BY <1>1 DEF MallocInv, Walks, AccountInv, Sums, ExactInv
  <1>3. a \in Nat
    BY <1>2
  <1>4. Rest(w) \in Seq(Frames) /\ ks \in Seq(Nodes)
    <2>1. heap[n].kids \in Seq(Nodes) /\ <<>> \in Seq(Nodes)
      BY PartsNow DEF MallocInv
    <2>2. ks \in Seq(Nodes)
      BY <2>1
    <2>3. Tail(todo[w]) \in Seq(Frames)
      BY TopOfWalk
    <2> QED BY <2>2, <2>3 DEF Rest
  <1>5. q \in Seq(Frames)
    BY <1>4, Pushed
  <1>6. ASSUME Undisturbed(w)
        PROVE  Once(q) /\ \E V \in SUBSET Nodes : Explored(V, Pending(q), start[w], a, sn)
    <2>1. Once(Rest(w)) /\ Pending(Rest(w)) = Pending(todo[w]) \ {n}
      BY <1>6, TopIsPending
    <2>2. Range(ks) \intersect Pending(Rest(w)) = {}
      BY <1>6, <2>1
    <2>3. Once(q) /\ Pending(q) = Range(ks) \union Pending(Rest(w))
      BY <1>4, <2>1, <2>2, PushesParts DEF MallocInv
    <2>4. Pending(q) = (Pending(todo[w]) \ {n}) \union Range(ks)
      BY <2>1, <2>3
    <2> QED BY <1>6, <2>3, <2>4
  <1> HIDE DEF q, a
  <1>7. ~disturbed[w] /\ CountedOnce(start[w]) /\ NothingStoredTwice(start[w]) =>
            Once(q) /\ \E V \in SUBSET Nodes : Explored(V, Pending(q), start[w], a, sn)
    BY <1>6 DEF Undisturbed
  <1> QED BY <1>1, <1>2, <1>3, <1>5, <1>7, WalkExplores

\* A value that is no lock is visited, with its parts or as a whole.
LEMMA VisitsKeepExact ==
    ASSUME MallocInv, AccountInv, ExactInv, NEW w \in Walkers, pc[w] = "walking", todo[w] # <<>>,
           NEW n \in Nodes, n = Next1(w).node,
           VisitCollection(w, n) \/ VisitValue(w, n) \/ VisitConditionally(w, n)
    PROVE  ExactInv'
  <1> DEFINE P == Pending(todo[w])
  <1>1. /\ Shape /\ ~Next1(w).release /\ Storage(n) \in Nat /\ Range(<<>>) = {}
        /\ Range(heap[n].kids) = Parts(n) /\ Parts(n) \in SUBSET Nodes /\ total[w] \in Nat
    <2>1. Storage(n) \in Nat /\ Parts(n) \in SUBSET Nodes
      BY PartsAreExact, PartsNow DEF MallocInv, Parts
    <2> QED BY <2>1 DEF MallocInv, VisitCollection, VisitValue, VisitConditionally, At, Range, Parts,
                    AccountInv, Sums
  <1>2. seen[w] \in SUBSET (Nodes \union {None}) /\ seen = [seen EXCEPT ![w] = seen[w]]
    BY DEF ExactInv
  <1>3. ASSUME Undisturbed(w)
        PROVE  /\ n \in P /\ ~StoredTwice(n) /\ start[w] \in Nodes /\ CountedOnce(start[w])
               /\ \E V \in SUBSET Nodes : Explored(V, P, start[w], total[w], seen[w])
    BY <1>1, <1>3, TopIsPending
  <1> HIDE DEF P
  \* A value that is visited with its parts.
  <1>4. ASSUME NEW sn \in SUBSET (Nodes \union {None}), seen' = [seen EXCEPT ![w] = sn],
               NEW own \in Nat, Undisturbed(w) => own = Storage(n), Adds(w, own, heap[n].kids),
               Con(n) = "CondArc" => seen[w] # NoOp /\ ~(Parts(n) \subseteq seen[w]),
               sn = IF Con(n) = "CondArc" THEN seen[w] \union Parts(n) ELSE seen[w]
        PROVE  ExactInv'
    <2>1. ASSUME Undisturbed(w)
          PROVE  /\ Parts(n) \intersect (P \ {n}) = {}
                 /\ \E V \in SUBSET Nodes :
                        Explored(V, (P \ {n}) \union Parts(n), start[w], total[w] + own, sn)
      <3>1. PICK V \in SUBSET Nodes : Explored(V, P, start[w], total[w], seen[w])
        BY <1>3, <2>1
      <3>2. PICK r \in Nodes, x \in Nat, s \in SUBSET (Nodes \union {None}), Q \in SUBSET Nodes :
                r = start[w] /\ x = total[w] /\ s = seen[w] /\ Q = P
        <4>1. P \in SUBSET Nodes
          BY <1>1, <1>3, <2>1, <3>1, ReachFacts DEF Explored
        <4> QED BY <1>1, <1>2, <1>3, <2>1, <4>1
      <3>3. /\ Shape /\ CountedOnce(r) /\ Explored(V, Q, r, x, s) /\ n \in Q
            /\ Con(n) = "CondArc" => s # NoOp /\ ~(Parts(n) \subseteq s)
            /\ Con(n) = "CondArc" => sn = s \union Parts(n)
            /\ Con(n) # "CondArc" => sn = s
        BY <1>1, <1>3, <1>4, <2>1, <3>1, <3>2
      <3>4. /\ Explored(V \union {n}, (Q \ {n}) \union Parts(n), r, x + Storage(n), sn)
            /\ Parts(n) \intersect (Q \ {n}) = {}
        BY ONLY <3>3, VisitExplores, r \in Nodes, n \in Nodes
      <3>5. V \union {n} \in SUBSET Nodes /\ own = Storage(n)
        BY <1>4, <2>1
      <3> QED BY <3>2, <3>5, <3>3, <3>4
    <2>2. heap[n].kids \in {<<>>, heap[n].kids}
      OBVIOUS
    <2> QED BY <1>1, <1>4, <2>1, <2>2, AddsExplores DEF P
  \* A value that is done with at once.
  <1>5. ASSUME NEW own \in Nat, Adds(w, own, <<>>), UNCHANGED seen,
               Undisturbed(w) => \E V \in SUBSET Nodes :
                                     Explored(V, P \ {n}, start[w], total[w] + own, seen[w])
        PROVE  ExactInv'
    <2>1. PICK ks \in {<<>>, heap[n].kids} : ks = <<>>
      OBVIOUS
    <2>2. PICK sn \in SUBSET (Nodes \union {None}) : sn = seen[w]
      BY <1>2
    <2>3. /\ Range(ks) \intersect (P \ {n}) = {} /\ (P \ {n}) \union Range(ks) = P \ {n}
          /\ Adds(w, own, ks) /\ seen' = [seen EXCEPT ![w] = sn]
      BY <1>1, <1>2, <1>5, <2>1, <2>2
    <2>4. Undisturbed(w) =>
              /\ Range(ks) \intersect (P \ {n}) = {}
              /\ \E V \in SUBSET Nodes : Explored(V, (P \ {n}) \union Range(ks), start[w], total[w] + own, sn)
      <3> SUFFICES ASSUME Undisturbed(w)
                   PROVE  \E V \in SUBSET Nodes :
                              Explored(V, (P \ {n}) \union Range(ks), start[w], total[w] + own, sn)
        BY <2>3
      <3>1. PICK V \in SUBSET Nodes : Explored(V, P \ {n}, start[w], total[w] + own, seen[w])
        BY <1>5
      <3> QED BY <2>2, <2>3, <3>1
    <2> QED BY <1>1, <2>3, <2>4, AddsExplores DEF P
  <1>6. CASE VisitCollection(w, n)
    <2>1. Con(n) \in Collections /\ UNCHANGED seen
      BY <1>6 DEF VisitCollection
    <2>2. Con(n) # "CondArc"
      BY <2>1 DEF Collections, Sequential, Maps
    <2>3. CASE ElementConstant(n) # NotConstant
      <3>1. PICK own \in Nat : own = Storage(n) + Length(n) * ElementConstant(n)
        <4>1. Storage(n) + Length(n) * ElementConstant(n) = Owned[n] /\ Owned[n] \in Nat
          BY <2>1, <2>3, ElementsAreExact, PartsAreExact DEF MallocInv
        <4> QED BY <4>1
      <3>2. Adds(w, own, <<>>)
        BY <1>6, <2>3, <3>1 DEF VisitCollection
      <3>3. ASSUME Undisturbed(w)
            PROVE  \E V \in SUBSET Nodes : Explored(V, P \ {n}, start[w], total[w] + own, seen[w])
        <4>1. PICK V \in SUBSET Nodes : Explored(V, P, start[w], total[w], seen[w])
          BY <1>3, <3>3
        <4>2. Explored(V \union Reach[n], P \ {n}, start[w], total[w] + own, seen[w])
          BY <1>1, <1>3, <2>1, <2>3, <3>1, <3>3, <4>1, CollectionExplores
        <4>3. V \union Reach[n] \in SUBSET Nodes
          BY <1>1, ReachFacts
        <4> QED BY <4>2, <4>3
      <3> QED BY <1>5, <2>1, <3>2, <3>3
    <2>4. CASE ElementConstant(n) = NotConstant
      <3>1. PICK own \in Nat : own = IF StoredTwice(n) THEN 2 * Storage(n) ELSE Storage(n)
        BY <1>1
      <3>2. Adds(w, own, heap[n].kids)
        BY <1>6, <2>4, <3>1 DEF VisitCollection
      <3>3. Undisturbed(w) => own = Storage(n)
        BY <1>3, <3>1
      <3> QED BY <1>2, <1>4, <2>1, <2>2, <3>2, <3>3
    <2> QED BY <2>3, <2>4
  <1>7. CASE VisitValue(w, n)
    <2>1. Adds(w, Storage(n), heap[n].kids) /\ Con(n) # "CondArc" /\ UNCHANGED seen
      BY <1>7 DEF VisitValue
    <2> QED BY <1>1, <1>2, <1>4, <2>1
  <1>8. CASE VisitConditionally(w, n)
    <2>1. Con(n) = "CondArc" /\ seen[w] # NoOp
      BY <1>8 DEF VisitConditionally
    <2>2. CASE Parts(n) \subseteq seen[w]
      <3>1. Adds(w, 0, <<>>) /\ UNCHANGED seen
        BY <1>8, <2>2 DEF VisitConditionally
      <3>2. ASSUME Undisturbed(w)
            PROVE  \E V \in SUBSET Nodes : Explored(V, P \ {n}, start[w], total[w] + 0, seen[w])
        <4>1. PICK V \in SUBSET Nodes : Explored(V, P, start[w], total[w], seen[w])
          BY <1>3, <3>2
        <4>2. Explored(V \union {n}, P \ {n}, start[w], total[w], seen[w])
          BY <1>1, <1>3, <2>1, <2>2, <3>2, <4>1, SkipExplores
        <4>3. V \union {n} \in SUBSET Nodes /\ total[w] + 0 = total[w]
          BY <1>1
        <4> QED BY <4>2, <4>3
      <3>3. 0 \in Nat
        OBVIOUS
      <3> QED BY <1>5, <3>1, <3>2, <3>3
    <2>3. CASE ~(Parts(n) \subseteq seen[w])
      <3>1. Adds(w, Storage(n), heap[n].kids) /\ seen' = [seen EXCEPT ![w] = seen[w] \union Parts(n)]
        BY <1>8, <2>3 DEF VisitConditionally
      <3>2. PICK sn \in SUBSET (Nodes \union {None}) : sn = seen[w] \union Parts(n)
        BY <1>1, <1>2
      <3> QED BY <1>1, <1>4, <2>1, <2>3, <3>1, <3>2
    <2> QED BY <2>2, <2>3
  <1> QED BY <1>6, <1>7, <1>8

\* One walk goes on and adds nothing.
LEMMA WalkAddsNothing ==
    ASSUME MallocInv, AccountInv, ExactInv, NEW w \in Walkers,
           UNCHANGED <<heap, born, start, total, seen, disturbed>>,
           NEW q \in Seq(Frames), NEW p \in {"walking", "done", "panicked"},
           todo' = [todo EXCEPT ![w] = q], pc' = [pc EXCEPT ![w] = p],
           p # "panicked" /\ Undisturbed(w) =>
               Once(q) /\ \E V \in SUBSET Nodes : Explored(V, Pending(q), start[w], total[w], seen[w])
    PROVE  ExactInv'
  <1>1. /\ total[w] \in Nat /\ total = [total EXCEPT ![w] = total[w]]
        /\ seen[w] \in SUBSET (Nodes \union {None}) /\ seen = [seen EXCEPT ![w] = seen[w]]
        /\ disturbed[w] \in BOOLEAN /\ disturbed = [disturbed EXCEPT ![w] = disturbed[w]]
    BY DEF AccountInv, Sums, ExactInv
  <1>2. PICK a \in Nat : a = total[w]
    BY <1>1
  <1>3. PICK sn \in SUBSET (Nodes \union {None}) : sn = seen[w]
    BY <1>1
  <1>4. PICK d \in BOOLEAN : d = disturbed[w]
    BY <1>1
  <1>5. /\ total' = [total EXCEPT ![w] = a] /\ seen' = [seen EXCEPT ![w] = sn]
        /\ disturbed' = [disturbed EXCEPT ![w] = d] /\ UNCHANGED <<heap, born, start>>
    BY <1>1, <1>2, <1>3, <1>4
  <1>6. p # "panicked" /\ ~d /\ CountedOnce(start[w]) /\ NothingStoredTwice(start[w]) =>
            Once(q) /\ \E V \in SUBSET Nodes : Explored(V, Pending(q), start[w], a, sn)
    BY <1>2, <1>3, <1>4 DEF Undisturbed
  <1> QED BY <1>5, <1>6, WalkExplores

\* A lock is taken: it stores nothing itself, and its contents come next.
LEMMA AcquireKeepsExact ==
    ASSUME MallocInv, AccountInv, ExactInv, NEW w \in Walkers, pc[w] = "walking", todo[w] # <<>>,
           NEW n \in Nodes, n = Next1(w).node, AcquireLock(w, n)
    PROVE  ExactInv'
  <1> DEFINE ks == heap[n].kids
             r == <<Release(n)>> \o Rest(w)
             q == Visits(ks) \o r
  <1>0. ~Next1(w).release /\ IsLock(n) /\ Shape
    BY DEF AcquireLock, At, MallocInv
  <1>1. ks \in Seq(Nodes) /\ Rest(w) \in Seq(Frames)
    BY <1>0, PartsNow, TopOfWalk DEF Rest
  <1>2. <<Release(n)>> \in Seq(Frames) /\ r \in Seq(Frames)
    <2>1. Release(n) \in Frames
      BY DEF Release, Frames
    <2> QED BY <1>1, <2>1
  <1>3. Visits(ks) \in Seq(Frames) /\ q \in Seq(Frames)
    <2> HIDE DEF ks, r
    <2> QED BY <1>1, <1>2, Pushed
  <1>4. /\ todo' = [todo EXCEPT ![w] = q]
        /\ UNCHANGED <<heap, born, pc, start, total, seen, disturbed>>
    <2>1. /\ todo' = [todo EXCEPT ![w] = Visits(ks) \o <<Release(n)>> \o Rest(w)]
          /\ UNCHANGED <<heap, born, pc, start, total, seen, disturbed>>
      BY DEF AcquireLock
    <2>2. Visits(ks) \o <<Release(n)>> \o Rest(w) = q
      BY <1>1, <1>2, <1>3, FramesAssociate
    <2> QED BY <2>1, <2>2
  <1>5. pc' = [pc EXCEPT ![w] = "walking"] /\ total[w] \in Nat
    BY <1>4 DEF MallocInv, Walks, AccountInv, Sums
  <1>6. ASSUME Undisturbed(w)
        PROVE  Once(q) /\ \E V \in SUBSET Nodes : Explored(V, Pending(q), start[w], total[w], seen[w])
    <2>1. /\ Once(Rest(w)) /\ n \in Pending(todo[w]) /\ Pending(Rest(w)) = Pending(todo[w]) \ {n}
          /\ start[w] \in Nodes /\ CountedOnce(start[w])
          /\ \E V \in SUBSET Nodes : Explored(V, Pending(todo[w]), start[w], total[w], seen[w])
      BY <1>0, <1>6, TopIsPending
    <2>2. Once(r) /\ Pending(r) = Pending(Rest(w))
      BY <1>1, <2>1, PendingUnderLock
    <2>3. PICK V \in SUBSET Nodes : Explored(V, Pending(todo[w]), start[w], total[w], seen[w])
      BY <2>1
    <2>4. Con(n) # "CondArc" /\ Storage(n) = 0
      BY <1>0, PartsAreExact DEF IsLock, Mutexes, RwLocks, Storage, Sequential, Maps, Arcs
    <2>5. PICK P, x, sn, m : P = Pending(todo[w]) /\ x = total[w] /\ sn = seen[w] /\ m = start[w]
      OBVIOUS
    <2>6. /\ Explored(V \union {n}, (P \ {n}) \union Parts(n), m, x + Storage(n), sn)
          /\ Parts(n) \intersect (P \ {n}) = {}
      <3>1. m \in Nodes /\ CountedOnce(m) /\ Explored(V, P, m, x, sn) /\ n \in P
        BY <2>1, <2>3, <2>5
      <3> QED BY ONLY <1>0, <2>4, <3>1, VisitExplores
    <2>7. x + Storage(n) = total[w]
      BY <1>5, <2>4, <2>5
    <2>8. Range(ks) \intersect Pending(r) = {} /\ Range(ks) = Parts(n)
      BY <2>1, <2>2, <2>5, <2>6 DEF Parts
    <2>9. Once(q) /\ Pending(q) = Range(ks) \union Pending(r)
      <3> HIDE DEF r
      <3>1. ks \in {<<>>, heap[n].kids}
        OBVIOUS
      <3> HIDE DEF ks
      <3> QED BY <1>0, <1>2, <2>2, <2>8, <3>1, PushesParts
    <2>10. Pending(q) = (P \ {n}) \union Parts(n)
      BY <2>1, <2>2, <2>5, <2>8, <2>9
    <2>11. V \union {n} \in SUBSET Nodes
      OBVIOUS
    <2> HIDE DEF q
    <2> QED BY <2>5, <2>6, <2>7, <2>9, <2>10, <2>11
  <1> HIDE DEF q
  <1> QED BY <1>3, <1>4, <1>5, <1>6, WalkAddsNothing

\* A lock is released, or the walk unwinds and has measured nothing.
LEMMA ReleaseKeepsExact ==
    ASSUME MallocInv, AccountInv, ExactInv, NEW w \in Walkers, pc[w] = "walking", todo[w] # <<>>,
           NEW n \in Nodes, n = Next1(w).node, ReleaseLock(w) \/ Unwind(w, n)
    PROVE  ExactInv'
  <1>1. UNCHANGED <<heap, born, start, total, seen, disturbed>>
    BY DEF ReleaseLock, Unwind
  <1>2. CASE ReleaseLock(w)
    <2>1. /\ Next1(w).release /\ todo' = [todo EXCEPT ![w] = Rest(w)]
          /\ Rest(w) \in Seq(Frames) /\ pc' = [pc EXCEPT ![w] = "walking"]
      <3>1. Tail(todo[w]) \in Seq(Frames)
        BY TopOfWalk
      <3> QED BY <1>2, <3>1 DEF ReleaseLock, Rest, MallocInv, Walks
    <2>2. PICK q \in Seq(Frames) : q = Rest(w)
      BY <2>1
    <2>3. Undisturbed(w) =>
              Once(q) /\ \E V \in SUBSET Nodes : Explored(V, Pending(q), start[w], total[w], seen[w])
      BY <2>1, <2>2, TopIsPending
    <2> QED BY <1>1, <2>1, <2>2, <2>3, WalkAddsNothing
  <1>3. CASE Unwind(w, n)
    <2>0. <<>> \in Seq(Frames)
      OBVIOUS
    <2>1. PICK q \in Seq(Frames) : q = <<>>
      BY ONLY <2>0
    <2>2. todo' = [todo EXCEPT ![w] = q] /\ pc' = [pc EXCEPT ![w] = "panicked"]
      BY <1>3, <2>1 DEF Unwind
    <2> QED BY <1>1, <2>2, WalkAddsNothing
  <1> QED BY <1>2, <1>3

\* size_of is called, or returns.
LEMMA BeginAndEndKeepExact ==
    ASSUME MallocInv, AccountInv, ExactInv, NEW w \in Walkers, MallocSizeOf(w) \/ Finish(w)
    PROVE  ExactInv'
  <1>0. start[w] \in Nodes /\ Shape /\ todo[w] \in Seq(Frames)
    BY DEF MallocInv, Walks
  <1>1. CASE MallocSizeOf(w)
    <2>1. /\ pc[w] = "idle" /\ todo' = [todo EXCEPT ![w] = <<Visit(start[w])>>]
          /\ pc' = [pc EXCEPT ![w] = "walking"] /\ disturbed' = [disturbed EXCEPT ![w] = FALSE]
          /\ UNCHANGED <<heap, born, start, total>>
      BY <1>1 DEF MallocSizeOf
    <2>2. PICK op \in Ops[born] : seen' = [seen EXCEPT ![w] = op]
      BY <1>1 DEF MallocSizeOf
    <2>3. PICK sn \in {{}, NoOp} : sn = op
      BY <1>0, MallocAssumption DEF Shape
    <2>4. total[w] = 0 /\ total' = [total EXCEPT ![w] = 0]
      BY <2>1 DEF AccountInv, Sums
    <2>5. Visit(start[w]) \in Frames /\ ~Visit(start[w]).release /\ Visit(start[w]).node = start[w]
      BY <1>0 DEF Visit, Frames
    <2>6. PICK q \in Seq(Frames) : q = <<Visit(start[w])>>
      <3> DEFINE x == Visit(start[w])
      <3>1. x \in Frames
        BY <2>5
      <3> HIDE DEF x
      <3>2. <<x>> \in Seq(Frames)
        BY <3>1
      <3> QED BY ONLY <3>2 DEF x
    <2>7. DOMAIN q = {1} /\ q[1] = Visit(start[w])
      BY <2>6
    <2>8. Once(q) /\ Pending(q) = {start[w]}
      BY <2>5, <2>7 DEF Once, Pending
    <2>9. Explored({}, Pending(q), start[w], 0, sn)
      BY <1>0, <2>8, BeginsExploring
    <2>10. /\ sn \in SUBSET (Nodes \union {None}) /\ {} \in SUBSET Nodes /\ FALSE \in BOOLEAN /\ 0 \in Nat
           /\ todo' = [todo EXCEPT ![w] = q] /\ seen' = [seen EXCEPT ![w] = sn]
      BY <2>1, <2>2, <2>3, <2>6 DEF NoOp
    <2> QED BY <2>1, <2>4, <2>8, <2>9, <2>10, WalkExplores
  <1>2. CASE Finish(w)
    <2>1. /\ pc[w] = "walking" /\ pc' = [pc EXCEPT ![w] = "done"]
          /\ UNCHANGED <<heap, born, todo, start, total, seen, disturbed>>
      BY <1>2 DEF Finish
    <2>2. PICK q \in Seq(Frames) : q = todo[w]
      BY <1>0
    <2>3. todo' = [todo EXCEPT ![w] = q]
      BY <2>1, <2>2 DEF MallocInv, Walks
    <2>4. Measured(w)
      BY DEF ExactInv
    <2>5. Undisturbed(w) =>
              Once(q) /\ \E V \in SUBSET Nodes : Explored(V, Pending(q), start[w], total[w], seen[w])
      BY <2>1, <2>2, <2>4 DEF Measured, Undisturbed
    <2> QED BY <2>1, <2>3, <2>5, WalkAddsNothing
  <1> QED BY <1>1, <1>2

\* No walk moves: either the structure stays, or every walk is disturbed.
LEMMA OthersKeepExact ==
    ASSUME ExactInv, UNCHANGED vars \/ \E x \in Writers : Use(x)
    PROVE  ExactInv'
  <1>1. CASE UNCHANGED <<heap, born, pc, todo, start, total, seen, disturbed>>
    <2>1. /\ \A n : /\ CountedOnce(n)' <=> CountedOnce(n)
                    /\ NothingStoredTwice(n)' <=> NothingStoredTwice(n)
          /\ \A V, P, r, x, s : Explored(V, P, r, x, s)' <=> Explored(V, P, r, x, s)
      BY <1>1, HeapStays
    <2>2. ASSUME NEW v \in Walkers PROVE Measured(v)'
      <3>1. Measured(v)
        BY DEF ExactInv
      <3> QED BY <1>1, <2>1, <3>1 DEF Measured, Once, Pending
    <2> QED BY <1>1, <2>2 DEF ExactInv
  <1>2. CASE disturbed' = [w \in Walkers |-> TRUE] /\ UNCHANGED seen
    <2>1. \A v \in Walkers : disturbed'[v]
      BY <1>2
    <2>2. \A v \in Walkers : Measured(v)'
      BY <2>1 DEF Measured
    <2> QED BY <1>2, <2>2 DEF ExactInv
  <1>3. CASE UNCHANGED vars
    BY <1>1, <1>3 DEF vars, walk
  <1>4. ASSUME NEW x \in Writers, Use(x) PROVE ExactInv'
    <2>1. CASE \E l \in Nodes : Write(x, l)
      BY <1>2, <2>1 DEF Write
    <2>2. CASE \/ \E l \in Nodes : WriterWants(x, l) \/ WriterLocks(x, l)
               \/ WriterUnlocks(x) \/ WriterPanics(x)
      BY <1>1, <2>2 DEF WriterWants, WriterLocks, WriterUnlocks, WriterPanics, walk
    <2> QED BY <1>4, <2>1, <2>2 DEF Use
  <1> QED BY <1>3, <1>4

\* The invariant of the walks that nobody disturbs, for every structure and any
\* number of threads.
THEOREM ExactInvariance == Spec => []ExactInv
  <1>1. Init => ExactInv
    BY DEF Init, ExactInv, Measured
  <1>2. MallocInv /\ AccountInv /\ ExactInv /\ [Next]_vars => ExactInv'
    <2> SUFFICES ASSUME MallocInv, AccountInv, ExactInv, [Next]_vars PROVE ExactInv'
      OBVIOUS
    <2>1. ASSUME NEW w \in Walkers, Step(w), ~Finish(w) PROVE ExactInv'
      <3>1. pc[w] = "walking" /\ todo[w] # <<>>
        BY <2>1 DEF Step
      <3>2. PICK n \in Nodes : n = Next1(w).node
        BY <3>1, OnTop DEF MallocInv
      <3>3. \/ VisitCollection(w, n) \/ VisitValue(w, n) \/ VisitConditionally(w, n)
            \/ AcquireLock(w, n) \/ Unwind(w, n) \/ ReleaseLock(w)
        BY <2>1, <3>2 DEF Step
      <3> QED BY <3>1, <3>2, <3>3, VisitsKeepExact, AcquireKeepsExact, ReleaseKeepsExact
    <2> QED BY <2>1, BeginAndEndKeepExact, OthersKeepExact DEF Next
  <1> QED BY <1>1, <1>2, MallocInvariance, AccountInvariance, PTL DEF Spec

\* A walk that nobody disturbed returns the blocks of the structure, each once,
\* whatever the structure is: with conditional_size_of however many Arcs share a
\* value, and without it where no Arc shares one (malloc_size.rs:38-45).
THEOREM CountsEachBlockOnce == Spec => []ExactWhenCountedOnce
  <1>1. MallocInv /\ ExactInv => ExactWhenCountedOnce
    <2> SUFFICES ASSUME MallocInv, ExactInv, NEW w \in Walkers, pc[w] = "done", ~disturbed[w],
                        CountedOnce(start[w]), NothingStoredTwice(start[w])
                 PROVE  total[w] = ReallyOwned(start[w])
      BY DEF ExactWhenCountedOnce
    <2>1. Measured(w) /\ todo[w] = <<>> /\ start[w] \in Nodes /\ Shape
      BY DEF ExactInv, MallocInv, Walks
    <2>2. PICK V \in SUBSET Nodes : Explored(V, Pending(todo[w]), start[w], total[w], seen[w])
      BY <2>1 DEF Measured
    <2>3. Pending(todo[w]) = {}
      BY <2>1 DEF Pending
    <2> QED BY <2>1, <2>2, <2>3, EndsExploring
  <1> QED BY <1>1, MallocInvariance, ExactInvariance, PTL
=============================================================================
