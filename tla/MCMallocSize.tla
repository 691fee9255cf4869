---------------------------- MODULE MCMallocSize ----------------------------
(***************************************************************************)
(* Small structures for MallocSize: collections over every rule of            *)
(* constant_size, and nested and shared locks of every kind.                   *)
(***************************************************************************)
EXTENDS MallocSize

T(c, args) == [c |-> c, args |-> args]

MCTypes == [
    u64 |-> T("Zero", <<>>), two |-> T("Two", <<>>), str |-> T("String", <<>>),
    opt |-> T("Option", <<"two">>), optStr |-> T("Option", <<"str">>),
    optNum |-> T("Option", <<"u64">>),
    same |-> T("Result", <<"two", "two">>), differ |-> T("Result", <<"two", "u64">>),
    tup |-> T("Tuple", <<"two", "u64", "cell">>), cell |-> T("Cell", <<"two">>),
    cow |-> T("Cow", <<"str">>), once |-> T("OnceCell", <<"str">>),
    vecOpt |-> T("Vec", <<"opt">>), vecNum |-> T("SmallVec", <<"optNum">>),
    vecTup |-> T("VecDeque", <<"tup">>), vecStr |-> T("Vec", <<"str">>),
    setSame |-> T("HashSet", <<"same">>), setDiffer |-> T("BTreeSet", <<"differ">>),
    slice |-> T("Slice", <<"str">>), box |-> T("Box", <<"slice">>),
    mapTwo |-> T("HashMap", <<"u64", "two">>), mapStr |-> T("BTreeMap", <<"u64", "str">>),
    index |-> T("IndexMap", <<"u64", "two">>), indexStr |-> T("IndexMap", <<"u64", "str">>),
    fields |-> T("Struct", <<>>),
    arc |-> T("Arc", <<>>), condArc |-> T("CondArc", <<>>),
    stdMutex |-> T("StdMutex", <<>>), mutex |-> T("Mutex", <<>>),
    stdRwLock |-> T("StdRwLock", <<>>), rwLock |-> T("RwLock", <<>>)]

MCDepth[t \in DOMAIN MCTypes] ==
    IF MCTypes[t].args = <<>> THEN 0
    ELSE 1 + Max({MCDepth[a] : a \in Range(MCTypes[t].args)})

V(ty, cap, kids) == [ty |-> ty, cap |-> cap, kids |-> kids]
Num == V("u64", 0, <<>>)
Two == V("two", 0, <<>>)
MCNodes == 1..14
Fill(vs) == [n \in MCNodes |-> IF n \in DOMAIN vs THEN vs[n] ELSE Num]

\* Sequences whose elements have, and have not, a constant size.
OfSequences == Fill(<<
    V("fields", 0, <<2, 3, 4>>),
    V("vecOpt", 3, <<5, 6>>), V("vecTup", 2, <<7>>), V("vecNum", 2, <<8>>),
    V("opt", 0, <<9>>), V("opt", 0, <<>>),
    V("tup", 0, <<10, 11, 12>>), V("optNum", 0, <<>>),
    Two, Two, Num, V("cell", 0, <<13>>), Two>>)

OfSets == Fill(<<
    V("fields", 0, <<2, 3, 12>>),
    V("setSame", 3, <<4, 5>>), V("setDiffer", 0, <<6, 7>>),
    V("same", 0, <<8>>), V("same", 0, <<9>>),
    V("differ", 0, <<10>>), V("differ", 0, <<11>>), Two, Two, Two, Num,
    V("cow", 0, <<13>>), V("str", 1, <<>>)>>)

OfMaps == Fill(<<
    V("fields", 0, <<2, 3, 4, 5>>),
    V("mapTwo", 2, <<6, 7>>), V("mapStr", 0, <<8, 9>>), V("index", 1, <<10, 11>>),
    V("box", 0, <<12>>),
    Num, Two, Num, V("str", 2, <<>>), Num, Two,
    V("slice", 0, <<13, 14>>), V("str", 1, <<>>), V("str", 2, <<>>)>>)

\* An IndexMap whose values have to be visited.
OfIndexes == Fill(<<V("indexStr", 1, <<2, 3>>), Num, V("str", 1, <<>>)>>)

\* A mutex in a mutex, shared so that walks may start at the inner one too.
InMutexes == Fill(<<
    V("arc", 0, <<2>>),
    V("stdMutex", 0, <<3>>), V("fields", 0, <<4, 5>>),
    V("optStr", 0, <<6>>), V("arc", 0, <<7>>), V("str", 1, <<>>),
    V("stdMutex", 0, <<8>>), V("vecStr", 2, <<9>>), V("str", 1, <<>>)>>)

\* Read-write locks around the other mutex, in Arcs counted conditionally.
InRwLocks == Fill(<<
    V("fields", 0, <<2, 3>>), V("condArc", 0, <<4>>), V("condArc", 0, <<4>>),
    V("stdRwLock", 0, <<5>>), V("fields", 0, <<6, 7>>),
    V("once", 0, <<8>>), V("mutex", 0, <<9>>), V("str", 1, <<>>),
    V("rwLock", 0, <<10>>), V("str", 1, <<>>)>>)

\* A value with two Arcs, measured once for each of them, and an Arc counted
\* conditionally below locks.
Shared == Fill(<<
    V("fields", 0, <<2, 3, 4>>), V("arc", 0, <<5>>), V("arc", 0, <<5>>),
    V("stdRwLock", 0, <<6>>), V("vecStr", 2, <<8>>), V("stdMutex", 0, <<7>>),
    V("condArc", 0, <<9>>), V("str", 1, <<>>), V("str", 1, <<>>)>>)

MCHeaps == {OfSequences, OfSets, OfMaps, OfIndexes, InMutexes, InRwLocks, Shared}
MCRoots == [h \in MCHeaps |-> IF h = InMutexes THEN {1, 7} ELSE {1}]
MCOps == [h \in MCHeaps |-> IF h \in {InRwLocks, Shared} THEN {NoOp, {}} ELSE {NoOp}]
=============================================================================
