----------------------------- MODULE MallocSize -----------------------------
(***************************************************************************)
(* Measuring the heap usage of a data structure while other threads use it   *)
(* (crates/mysten-util-mem, default features).  A walk is the recursion of    *)
(* MallocSizeOf::size_of: its call stack is todo, and the guard of a lock      *)
(* lives until the release that is pushed below the contents it protects.      *)
(* Every value takes one unit in place, so size_of::<T>() is 1.                *)
(***************************************************************************)
EXTENDS Naturals, Sequences, FiniteSets, SequencesExt, FiniteSetsExt

CONSTANTS Types,     \* Types[t] = [c, args]: constructor and type arguments
          Depth,     \* Depth[t]: how deep t nests others in place, at most MaxDepth
          MaxDepth,
          Nodes,     \* the values of a structure; a value comes before its parts
          Heaps,     \* the structures, functions from Nodes to [ty, cap, kids]
          Roots,     \* Roots[h]: the values of h a measurement may start at
          Ops,       \* Ops[h]: the have_seen_ptr_op of h's callers, {} or NoOp
          Walkers,   \* threads that measure
          Writers,   \* threads that change what the locks protect
          MaxCap,    \* bound: largest capacity a writer gives a block
          MaxWrites, \* bound: writes in a behaviour
          None       \* nobody

NoOp == {None}

ASSUME MallocAssumption ==
    /\ Nodes \subseteq Nat /\ IsFiniteSet(Nodes) /\ Roots \in [Heaps -> SUBSET Nodes]
    /\ Ops \in [Heaps -> SUBSET {{}, NoOp}]
    /\ MaxCap \in Nat /\ MaxWrites \in Nat
    /\ None \notin Walkers \union Writers /\ Walkers \intersect Writers = {}
    /\ \A h \in Heaps :
        /\ h \in [Nodes -> [ty : DOMAIN Types, cap : Nat, kids : Seq(Nodes)]]
        /\ \A n \in Nodes : \A k \in Range(h[n].kids) : n < k

VARIABLES
    heap,      \* the structure
    born,      \* the structure at the start
    pc,        \* of a walker: "idle", "walking", "done" or "panicked"
    todo,      \* what its recursion has still to visit or to release
    start,     \* the value it measures
    total,     \* the sum so far
    due,       \* history: what the sum has to account for
    seen,      \* what its have_seen_ptr_op has seen; NoOp when it has none
    disturbed, \* history: something was written since it started
    writer,    \* writer[l]: the thread that holds lock l exclusively
    readers,   \* readers[l]: the threads that hold it shared
    poisoned,  \* the poisoned locks
    broken,    \* history: the locks under which a writer panicked
    writes,    \* history: writes so far
    wants      \* wants[x]: the lock that writer x waits for

walk == <<pc, todo, start, total, due, seen, disturbed>>
locks == <<writer, readers, poisoned>>
vars == <<heap, born, walk, locks, broken, writes, wants>>

Threads == Walkers \union Writers
Free == Threads \union {None}

-----------------------------------------------------------------------------
(* The types that implement MallocSizeOf, by their rule.                     *)

Sequential == {"Slice", "Vec", "VecDeque", "HashSet", "BTreeSet", "SmallVec"}
Maps == {"HashMap", "BTreeMap", "IndexMap"}
Collections == Sequential \union Maps
Mutexes == {"StdMutex", "Mutex"}        \* of std::sync and of parking_lot
RwLocks == {"StdRwLock", "RwLock"}
Poisonable == {"StdMutex", "StdRwLock"}
\* An Arc measured through MallocSizeOf, and one that a hand-written
\* implementation measures with conditional_size_of.
Arcs == {"Arc", "CondArc"}

InPlace == {"Tuple", "Option", "Result", "Cell"}

\* The arguments that types have, and types of finite size.
ASSUME TypesAssumption ==
    /\ MaxDepth \in Nat /\ Depth \in [DOMAIN Types -> 0..MaxDepth]
    /\ \A t \in DOMAIN Types :
        /\ Types[t].args \in Seq(DOMAIN Types)
        /\ Types[t].c \in Sequential \union {"Option", "Cell"} => Len(Types[t].args) = 1
        /\ Types[t].c \in Maps \union {"Result"} => Len(Types[t].args) = 2
        /\ Types[t].c \in InPlace => \A a \in Range(Types[t].args) : Depth[a] < Depth[t]

\* The parts of a value have the types that its own type says.
WellTyped(h, n) ==
    LET c == Types[h[n].ty].c
        ks == h[n].kids
        Is(i, j) == h[ks[i]].ty = Types[h[n].ty].args[j]
    IN  /\ c \in {"Zero", "Two", "String"} => ks = <<>>
        /\ c \in {"Cell", "Result", "Box"} \union Arcs => Len(ks) = 1
        /\ c = "Cell" => Is(1, 1)
        /\ c = "Result" => Is(1, 1) \/ Is(1, 2)
        /\ c = "Option" => Len(ks) \leq 1
        /\ c = "Tuple" => /\ Len(ks) = Len(Types[h[n].ty].args)
                          /\ \A i \in DOMAIN ks : Is(i, i)
        /\ c \in Sequential \union {"Option"} => \A i \in DOMAIN ks : Is(i, 1)
        /\ c \in Maps => /\ Len(ks) % 2 = 0
                         /\ \A i \in DOMAIN ks : Is(i, IF i % 2 = 1 THEN 1 ELSE 2)

\* Structures are well typed, a value has one owner and is one part of it, unless
\* its owners are Arcs, and what is measured is no part of a value that others may
\* lock: it has no owner in the structure, or Arcs.
ASSUME StructureAssumption ==
    \A h \in Heaps :
        /\ \A n \in Nodes :
            /\ WellTyped(h, n)
            /\ \A i, j \in DOMAIN h[n].kids : h[n].kids[i] = h[n].kids[j] => i = j
        /\ \A a, b \in Nodes : a # b /\ Range(h[a].kids) \intersect Range(h[b].kids) # {} =>
               {Types[h[a].ty].c, Types[h[b].ty].c} \subseteq Arcs
        /\ \A r \in Roots[h], a \in Nodes : r \in Range(h[a].kids) => Types[h[a].ty].c \in Arcs

Con(n) == Types[heap[n].ty].c
IsLock(n) == Con(n) \in Mutexes \union RwLocks
Parts(n) == Range(heap[n].kids)

\* The sum of a sequence of numbers.
Sum(ns) == LET upTo[i \in 0..Len(ns)] == IF i = 0 THEN 0 ELSE upTo[i - 1] + ns[i]
           IN  upTo[Len(ns)]

NotConstant == 99   \* constant_size() is None

\* Mutant of OptionConstant: Some(v) and None are taken to measure the same.
OptionConstant_Any(s) == s

\* Option::constant_size: only a zero is the size of None as well.
OptionConstant(s) == IF s = 0 THEN 0 ELSE NotConstant

\* Result::constant_size: both variants have to agree.
ResultConstant(s, e) == IF s = e THEN s ELSE NotConstant

\* The constant_size of a tuple, and the k + v of the maps.
TupleConstant(ss) ==
    IF NotConstant \in Range(ss) THEN NotConstant ELSE Sum(ss)

\* T::constant_size() for every type.  "Two" stands for a type whose own
\* implementation declares the constant 2.
constant_size[t \in DOMAIN Types] ==
    LET of == [i \in DOMAIN Types[t].args |-> constant_size[Types[t].args[i]]]
    IN  CASE Types[t].c = "Zero"   -> 0
          [] Types[t].c = "Two"    -> 2
          [] Types[t].c = "Tuple"  -> TupleConstant(of)
          [] Types[t].c = "Option" -> OptionConstant(of[1])
          [] Types[t].c = "Result" -> ResultConstant(of[1], of[2])
          [] Types[t].c = "Cell"   -> of[1]
          [] OTHER                 -> NotConstant

\* k + v, or t, when the elements of collection n need no iteration.
ElementConstant(n) ==
    TupleConstant([i \in DOMAIN Types[heap[n].ty].args |->
                      constant_size[Types[heap[n].ty].args[i]]])

Arity(n) == IF Con(n) \in Maps THEN 2 ELSE 1
Length(n) == Len(heap[n].kids) \div Arity(n)

InlineCap == 1   \* bound: elements a SmallVec keeps in place (32 and 36)

\* The storage of a sequence, without what its elements own.
SequenceStorage(n) ==
    CASE Con(n) \in {"Vec", "VecDeque"} -> heap[n].cap
      [] Con(n) = "HashSet"  -> heap[n].cap * 2
      [] Con(n) = "BTreeSet" -> Length(n) * 2
      [] Con(n) = "SmallVec" -> IF heap[n].cap > InlineCap THEN heap[n].cap ELSE 0
      [] Con(n) = "Slice"    -> 0

\* The storage of a map.
MapStorage(n) ==
    CASE Con(n) = "HashMap"  -> heap[n].cap * 3
      [] Con(n) = "BTreeMap" -> Length(n) * 3
      [] Con(n) = "IndexMap" -> heap[n].cap * 4

\* size_of_val of the target of a Box: a slice is as long as its elements.
BoxStorage(n) ==
    LET target == heap[n].kids[1]
    IN  IF Con(target) = "Slice" THEN Length(target) ELSE 1

\* shallow_size_of, and the size_of of a value without parts.
Storage(n) ==
    CASE Con(n) \in Sequential     -> SequenceStorage(n)
      [] Con(n) \in Maps           -> MapStorage(n)
      [] Con(n) = "String"         -> heap[n].cap
      [] Con(n) = "Box"            -> BoxStorage(n)
      [] Con(n) \in Arcs           -> 1
      [] Con(n) = "Two"            -> 2
      [] OTHER                     -> 0

-----------------------------------------------------------------------------
(* The reference: iteration over everything, and the blocks really owned.    *)

\* What iteration over everything below n counts, up to the locks below it.
\* It is the sum over a tree: what two Arcs lead to is in it twice.
Owned[n \in Nodes] ==
    Storage(n) + (IF IsLock(n) THEN 0
                  ELSE Sum([i \in DOMAIN heap[n].kids |-> Owned[heap[n].kids[i]]]))

\* The values reachable from n, each once.
Reach[n \in Nodes] == {n} \union UNION {Reach[k] : k \in Parts(n)}

\* The blocks reachable from n: the storage of each value, but the block of
\* a shared value counted once for all its Arcs.
ReallyOwned(n) ==
    LET values == Reach[n]
        arcs == {m \in values : Con(m) \in Arcs}
    IN  MapThenSumSet(Storage, values \ arcs)
        + Cardinality(UNION {Parts(m) : m \in arcs})

\* No value below n has two owners that would both count it.
CountedOnce(n) ==
    \A a, b \in Reach[n] :
        a # b /\ Parts(a) \intersect Parts(b) # {} => Con(a) = "CondArc" /\ Con(b) = "CondArc"

\* The values that were below n in the beginning.
Below[n \in Nodes] == {n} \union UNION {Below[k] : k \in Range(born[n].kids)}

-----------------------------------------------------------------------------
(* The walk.                                                                 *)

Visit(n) == [node |-> n, release |-> FALSE]
Release(n) == [node |-> n, release |-> TRUE]
Visits(ns) == [i \in DOMAIN ns |-> Visit(ns[i])]

Init ==
    /\ born \in Heaps
    /\ heap = born
    /\ pc = [w \in Walkers |-> "idle"]
    /\ todo = [w \in Walkers |-> <<>>]
    /\ start \in [Walkers -> Roots[born]]
    /\ total = [w \in Walkers |-> 0]
    /\ due = [w \in Walkers |-> 0]
    /\ seen = [w \in Walkers |-> {}]
    /\ disturbed = [w \in Walkers |-> FALSE]
    /\ writer = [n \in Nodes |-> None]
    /\ readers = [n \in Nodes |-> {}]
    /\ poisoned = {} /\ broken = {} /\ writes = 0
    /\ wants = [x \in Writers |-> None]

\* size_of with fresh operations: those of malloc_size and malloc_size_of have
\* no have_seen_ptr_op, the caller's own may have one.
MallocSizeOf(w) ==
    /\ pc[w] = "idle"
    /\ \E op \in Ops[born] : seen' = [seen EXCEPT ![w] = op]
    /\ todo' = [todo EXCEPT ![w] = <<Visit(start[w])>>]
    /\ due' = [due EXCEPT ![w] = Owned[start[w]]]
    /\ pc' = [pc EXCEPT ![w] = "walking"]
    /\ disturbed' = [disturbed EXCEPT ![w] = FALSE]
    /\ UNCHANGED <<heap, born, start, total, locks, broken, writes, wants>>

Next1(w) == Head(todo[w])
Rest(w) == Tail(todo[w])
At(w, n) == ~Next1(w).release /\ n = Next1(w).node

\* size_of of n adds `own` and goes on with `parts`.
Adds(w, own, parts) ==
    /\ total' = [total EXCEPT ![w] = @ + own]
    /\ todo' = [todo EXCEPT ![w] = Visits(parts) \o Rest(w)]
    /\ UNCHANGED <<heap, born, pc, start, disturbed, locks, broken, writes, wants>>

\* The fold of an IndexMap starts with its storage and is added to it.
StoredTwice(n) == Con(n) = "IndexMap" /\ ElementConstant(n) = NotConstant

\* A collection: len * constant, or a fold over the elements.
VisitCollection(w, n) ==
    /\ At(w, n) /\ Con(n) \in Collections
    /\ IF ElementConstant(n) # NotConstant
       THEN Adds(w, Storage(n) + Length(n) * ElementConstant(n), <<>>)
       ELSE Adds(w, IF StoredTwice(n) THEN 2 * Storage(n) ELSE Storage(n), heap[n].kids)
    /\ UNCHANGED <<due, seen>>

\* What is neither collection nor lock: Option, Result, Cow and OnceCell have
\* the part they hold, a derived struct the fields that are not ignored, and
\* Arc has its value, once for every Arc that leads to it.
VisitValue(w, n) ==
    /\ At(w, n) /\ Con(n) \notin Collections \union {"CondArc"} /\ ~IsLock(n)
    /\ Adds(w, Storage(n), heap[n].kids)
    /\ UNCHANGED <<due, seen>>

\* Mutant of VisitConditionally: the pointer is not remembered.
VisitConditionally_Forgets(w, n) ==
    /\ At(w, n) /\ Con(n) = "CondArc" /\ seen[w] # NoOp
    /\ Adds(w, Storage(n), heap[n].kids)
    /\ UNCHANGED <<due, seen>>

\* conditional_size_of: only the first Arc that leads to a value counts it.
VisitConditionally(w, n) ==
    /\ At(w, n) /\ Con(n) = "CondArc" /\ seen[w] # NoOp
    /\ IF Parts(n) \subseteq seen[w]
       THEN /\ Adds(w, 0, <<>>)
            /\ due' = [due EXCEPT ![w] = @ - Owned[n]]
            /\ UNCHANGED seen
       ELSE /\ Adds(w, Storage(n), heap[n].kids)
            /\ seen' = [seen EXCEPT ![w] = @ \union Parts(n)]
            /\ UNCHANGED due

\* lock() or read(): the guard lives until the contents are measured.
AcquireLock(w, n) ==
    /\ At(w, n) /\ IsLock(n)
    /\ n \notin poisoned
    /\ writer[n] = None
    /\ IF Con(n) \in Mutexes
       THEN writer' = [writer EXCEPT ![n] = w] /\ UNCHANGED readers
       ELSE readers' = [readers EXCEPT ![n] = @ \union {w}] /\ UNCHANGED writer
    /\ todo' = [todo EXCEPT ![w] = Visits(heap[n].kids) \o <<Release(n)>> \o Rest(w)]
    /\ due' = [due EXCEPT ![w] =
                  @ + Sum([i \in DOMAIN heap[n].kids |-> Owned[heap[n].kids[i]]])]
    /\ UNCHANGED <<heap, born, pc, start, total, seen, disturbed, poisoned, broken, writes, wants>>

\* Mutant of ReleaseLock: the guard is forgotten.
ReleaseLock_Leaks(w) ==
    /\ Next1(w).release
    /\ todo' = [todo EXCEPT ![w] = Rest(w)]
    /\ UNCHANGED <<heap, born, pc, start, total, due, seen, disturbed, locks, broken, writes, wants>>

\* The guard is dropped.
ReleaseLock(w) ==
    /\ Next1(w).release
    /\ LET n == Next1(w).node IN
        /\ writer' = [writer EXCEPT ![n] = IF @ = w THEN None ELSE @]
        /\ readers' = [readers EXCEPT ![n] = @ \ {w}]
    /\ todo' = [todo EXCEPT ![w] = Rest(w)]
    /\ UNCHANGED <<heap, born, pc, start, total, due, seen, disturbed, poisoned, broken, writes, wants>>

\* Mutant of Unwind: the guards of a RwLock poison it as well.
Unwind_Readers(w, n) ==
    /\ At(w, n)
    /\ \/ n \in poisoned /\ writer[n] = None
       \/ Con(n) = "CondArc" /\ seen[w] = NoOp
    /\ poisoned' = poisoned \union {l \in Nodes :
            (writer[l] = w \/ w \in readers[l]) /\ Con(l) \in Poisonable}
    /\ writer' = [l \in Nodes |-> IF writer[l] = w THEN None ELSE writer[l]]
    /\ readers' = [l \in Nodes |-> readers[l] \ {w}]
    /\ pc' = [pc EXCEPT ![w] = "panicked"]
    /\ todo' = [todo EXCEPT ![w] = <<>>]
    /\ UNCHANGED <<heap, born, start, total, due, seen, disturbed, broken, writes, wants>>

\* unwrap() of a poisoned lock and have_seen_ptr without an op panic.  Unwinding
\* drops the guards the walk holds, and a std MutexGuard that is dropped by a
\* panicking thread poisons its mutex.
Unwind(w, n) ==
    /\ At(w, n)
    /\ \/ n \in poisoned /\ writer[n] = None
       \/ Con(n) = "CondArc" /\ seen[w] = NoOp
    /\ poisoned' = poisoned \union
            {l \in Nodes : writer[l] = w /\ Con(l) \in Poisonable}
    /\ writer' = [l \in Nodes |-> IF writer[l] = w THEN None ELSE writer[l]]
    /\ readers' = [l \in Nodes |-> readers[l] \ {w}]
    /\ pc' = [pc EXCEPT ![w] = "panicked"]
    /\ todo' = [todo EXCEPT ![w] = <<>>]
    /\ UNCHANGED <<heap, born, start, total, due, seen, disturbed, broken, writes, wants>>

\* size_of returns.
Finish(w) ==
    /\ pc[w] = "walking" /\ todo[w] = <<>>
    /\ pc' = [pc EXCEPT ![w] = "done"]
    /\ UNCHANGED <<heap, born, todo, start, total, due, seen, disturbed, locks, broken, writes, wants>>

Step(w) ==
    \/ /\ pc[w] = "walking" /\ todo[w] # <<>>
       /\ \/ \E n \in {Next1(w).node} :
              \/ VisitCollection(w, n) \/ VisitValue(w, n)
              \/ VisitConditionally(w, n) \/ AcquireLock(w, n) \/ Unwind(w, n)
          \/ ReleaseLock(w)
    \/ Finish(w)

-----------------------------------------------------------------------------
(* The threads that use the structure.  They hold locks while they wait for  *)
(* others, taken in an order that goes with the nesting: no lock is waited    *)
(* for under one inside it.  Only what a lock protects is written.  External  *)
(* to the crate.                                                              *)

\* The values a lock protects: what it owns without another lock or an Arc.
Protects[n \in Nodes] ==
    {n} \union (IF Con(n) \in Arcs THEN {}
                ELSE UNION {IF IsLock(k) THEN {} ELSE Protects[k] : k \in Parts(n)})

\* A writer starts to wait for a lock, with the ones it has.
WriterWants(x, l) ==
    /\ wants[x] = None
    /\ IsLock(l)
    /\ \A m \in Nodes : writer[m] = x => m < l
    /\ writes < MaxWrites
    /\ wants' = [wants EXCEPT ![x] = l]
    /\ UNCHANGED <<heap, born, walk, locks, broken, writes>>

\* It gets the lock, or the error of one that is poisoned.
WriterLocks(x, l) ==
    /\ wants[x] = l
    /\ IsLock(l)
    /\ writer[l] = None /\ readers[l] = {}
    /\ writer' = IF l \in poisoned THEN writer ELSE [writer EXCEPT ![l] = x]
    /\ wants' = [wants EXCEPT ![x] = None]
    /\ UNCHANGED <<heap, born, walk, readers, poisoned, broken, writes>>

\* A block grows or shrinks, or a container loses or gets back its parts.
Write(x, l) ==
    /\ wants[x] = None /\ writer[l] = x
    /\ writes < MaxWrites
    /\ \E n \in Protects[l] \ {l} :
        \/ /\ Con(n) = "String"
           /\ \E c \in 0..MaxCap : heap' = [heap EXCEPT ![n].cap = c]
        \/ /\ Con(n) \in {"Option", "Vec"}
           /\ \E ks \in {<<>>, born[n].kids} : heap' = [heap EXCEPT ![n].kids = ks]
    /\ heap' # heap
    /\ writes' = writes + 1
    /\ disturbed' = [w \in Walkers |-> TRUE]
    /\ UNCHANGED <<born, pc, todo, start, total, due, seen, locks, broken, wants>>

\* The locks that x holds, and the locks without them.
HeldBy(x) == {l \in Nodes : writer[l] = x}
LetGo(x) == [l \in Nodes |-> IF writer[l] = x THEN None ELSE writer[l]]

\* The writer drops its guards, waiting for nothing between them.
WriterUnlocks(x) ==
    /\ wants[x] = None /\ HeldBy(x) # {}
    /\ writer' = LetGo(x)
    /\ UNCHANGED <<heap, born, walk, readers, poisoned, broken, writes, wants>>

\* The writer panics under its locks; once in a behaviour.
WriterPanics(x) ==
    /\ wants[x] = None
    /\ broken = {}
    /\ broken' = {l \in HeldBy(x) : Con(l) \in Poisonable}
    /\ broken' # {}
    /\ poisoned' = poisoned \union broken'
    /\ writer' = LetGo(x)
    /\ UNCHANGED <<heap, born, walk, readers, writes, wants>>

Use(x) ==
    \/ \E l \in Nodes : WriterWants(x, l) \/ WriterLocks(x, l) \/ Write(x, l)
    \/ WriterUnlocks(x) \/ WriterPanics(x)

Next == \/ \E w \in Walkers : MallocSizeOf(w) \/ Step(w)
        \/ \E x \in Writers : Use(x)

Spec == Init /\ [][Next]_vars

\* A measuring thread runs, locks that are free again and again are granted in
\* the end, and a writer that waits for none lets go of those it has.
FairSpec ==
    /\ Spec
    /\ \A w \in Walkers : SF_vars(Step(w))
    /\ \A x \in Writers : /\ SF_vars(\E l \in Nodes : WriterLocks(x, l))
                          /\ SF_vars(WriterUnlocks(x))

-----------------------------------------------------------------------------
(* Properties.                                                               *)

NothingStoredTwice(n) == \A m \in Below[n] : ~StoredTwice(m)

\* Nothing is missed on the way (malloc_size.rs:170-172): the sum and what the
\* recursion still has to visit are together what a visit to everything, along
\* every path, would count of the structure when the walk began and of what
\* each lock protected when it was taken.  So len * constant_size is the sum
\* over the elements, and the contents of a lock are measured as one snapshot
\* although others write.  A value under two Arcs is counted at each (the
\* comment at malloc_size.rs:550-552 sees no risk of that); what is counted
\* once is for ExactWhenCountedOnce.
\* An IndexMap of elements without a constant size counts its storage twice
\* (external_impls.rs:44), and structures with one are left out.
AccountsForEverything ==
    \A w \in Walkers : pc[w] \in {"walking", "done"} /\ NothingStoredTwice(start[w]) =>
        due[w] = total[w] + Sum([i \in DOMAIN todo[w] |->
                     IF todo[w][i].release THEN 0 ELSE Owned[todo[w][i].node]])

\* A walk that nobody disturbed has measured the blocks of the structure, each
\* once, unless an Arc that is measured unconditionally shares one; measured
\* with conditional_size_of, sharing makes no difference (malloc_size.rs:38-45).
ExactWhenCountedOnce ==
    \A w \in Walkers :
        /\ pc[w] = "done" /\ ~disturbed[w]
        /\ CountedOnce(start[w]) /\ NothingStoredTwice(start[w])
        => total[w] = ReallyOwned(start[w])

\* What measuring does to the locks it passes: it poisons a std Mutex, and that
\* only on its way out of something below that cannot be measured, a lock that
\* a writer left poisoned or an Arc measured conditionally without an op
\* (malloc_size.rs:162, 558, 579); a RwLock is only read and never poisoned.
PoisonComesFromBelow ==
    \A l \in poisoned \ broken :
        /\ Con(l) = "StdMutex"
        /\ \E b \in Below[l] \ {l} : b \in broken \/ Con(b) = "CondArc"

\* A walk over a structure without cycles ends (malloc_size.rs:556-588): it
\* waits for inner locks with the outer ones held, as others do that measure
\* and that use the structure, and none of them waits for ever as long as
\* those who use it take nested locks from the outside in, as a walk does.
WalksEnd == \A w \in Walkers : pc[w] = "walking" ~> pc[w] \in {"done", "panicked"}
=============================================================================
