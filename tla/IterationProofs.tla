-------------------------- MODULE IterationProofs ---------------------------
(***************************************************************************)
(* Iterators and dumps for every set of keys, width and page: what a loop      *)
(* over an iterator returns, and which entries are on a page.                   *)
(***************************************************************************)
EXTENDS Iteration, FiniteSetTheorems, WellFoundedInduction, TLAPS

\* Is x reached before y?
Before(x, y) == IF dir = "forward" THEN Ser(x) < Ser(y) ELSE Ser(x) > Ser(y)

\* Is y the entry the iterator starts on?  The positioning operations say which
\* that is, independently of how the seeks find it.
Starts(y) ==
    /\ origin.how = "at" => y = origin.key
    /\ origin.how = "first" => \A z \in snap : Ser(y) \leq Ser(z)
    /\ origin.how = "last" => \A z \in snap : Ser(y) \geq Ser(z)
    /\ origin.how = "to" =>
         Ser(y) \geq Ser(origin.key)
           /\ \A z \in snap : Ser(z) \geq Ser(origin.key) => Ser(y) \leq Ser(z)
    /\ origin.how = "prior" =>
         Ser(y) \leq Ser(origin.key)
           /\ \A z \in snap : Ser(z) \leq Ser(origin.key) => Ser(y) \geq Ser(z)

\* The entries the iterator is on or beyond when it starts.
Ahead(x) == x \in snap /\ \E y \in snap : Starts(y) /\ ~Before(x, y)

\* What a loop sees, in the order of the encodings and for keys of any sign: the
\* entries from the one the raw iterator was put on, up to the first that does
\* not decode.
YieldsInByteOrder ==
    /\ \A i, j \in DOMAIN yielded : i < j => Before(yielded[i], yielded[j])
    /\ phase = "ended" =>
        {yielded[i] : i \in DOMAIN yielded} =
            {x \in snap : Ahead(x) /\ x \notin Undecodable
                           /\ \A y \in Undecodable :
                                Ahead(y) => Before(x, y)}

\* Types; a raw iterator is on an entry it sees or on none.
IterTypeOK ==
    /\ db \subseteq IntKeys /\ snap \subseteq IntKeys
    /\ kind \in {"iter", "keys", "values"}
    /\ pos \in snap \union {NoKey}
    /\ dir \in {"forward", "reverse"}
    /\ phase \in {"none", "made", "reading", "ended"}
    /\ origin \in [how : {"at", "first", "last", "to", "prior"}, key : IntKeys \union {NoKey}]
    /\ origin.how \in {"to", "prior"} => origin.key \in IntKeys
    /\ yielded \in Seq(snap)
    /\ sec \in (SUBSET IntKeys) \union {NoReader}

\* The secondary is opened before anything is dumped or counted.
ReaderOpen ==
    /\ db \subseteq IntKeys /\ sec \in (SUBSET IntKeys) \union {NoReader}
    /\ job # NoJob => sec # NoReader

\* The entries that next returned.
Seen == {yielded[i] : i \in DOMAIN yielded}

\* Nothing is read before the iterator is, and it is on the entry it starts on.
AtStart ==
    /\ phase \in {"none", "made"} => yielded = <<>>
    /\ phase = "made" =>
        /\ pos # NoKey => Starts(pos)
        /\ pos = NoKey => \A y \in snap : ~Starts(y)

\* While it is read, what next returned are the entries from the start up to
\* the one it is on, and all of them decoded.
SeenSoFar ==
    phase \in {"made", "reading"} =>
        /\ Seen = {x \in snap : Ahead(x) /\ (pos # NoKey => Before(x, pos))}
        /\ pos # NoKey => \A x \in snap : ~Before(x, pos) => Ahead(x)
        /\ Seen \intersect Undecodable = {}

IterInv == IterTypeOK /\ AtStart /\ SeenSoFar /\ YieldsInByteOrder

Jobs == [op : {"dump"}, size : PageSizes, number : PageNumbers] \union [op : {"count"}]

\* The number of entries with smaller encodings.
Rank(x) == Cardinality({y \in snap : Ser(y) < Ser(x)})

\* A dump or count reads forwards and from the start what it caught up to.  So
\* the i-th entry it read has i - 1 entries before it, and a dump reads no
\* further than its page.
JobInv ==
    job # NoJob =>
        /\ job \in Jobs
        /\ phase # "none" =>
            /\ snap = sec /\ dir = "forward" /\ origin.how = "first"
            /\ \A i \in DOMAIN yielded : Rank(yielded[i]) = i - 1
            /\ phase # "ended" /\ pos # NoKey => Rank(pos) = Len(yielded)
            /\ job.op = "dump" => Len(yielded) \leq Skipped + job.size

-----------------------------------------------------------------------------
(* The order of the encodings.                                               *)

\* be_fix_int_ser gives distinct keys distinct numbers.
LEMMA SerOfKeys ==
    /\ \A k \in IntKeys : Ser(k) \in Nat /\ Ser(k) < Modulus
    /\ \A j, k \in IntKeys : Ser(j) = Ser(k) => j = k
  <1>1. ASSUME NEW k \in IntKeys PROVE k % Modulus \in Nat /\ k % Modulus < Modulus
    <2>1. k \in Int /\ Modulus \in Nat \ {0}
      BY IterationAssumption
    <2> QED BY <2>1
  <1> QED BY <1>1, IterationAssumption DEF Ser

\* A set of numbers has a least one.
LEMMA Least ==
    ASSUME NEW T, T \subseteq Nat, T # {} PROVE \E x \in T : \A y \in T : x \leq y
  <1> DEFINE R == OpToRel(<, Nat)
  <1>1. IsWellFoundedOn(R, Nat)
    BY NatLessThanWellFounded
  <1>2. \A x, y \in Nat : <<y, x>> \in R <=> y < x
    BY DEF OpToRel
  <1> HIDE DEF R
  <1>3. \E x \in T : \A y \in T : ~(<<y, x>> \in R)
    BY <1>1, WFMin
  <1>4. PICK x \in T : \A y \in T : ~(<<y, x>> \in R)
    BY <1>3
  <1>5. \A y \in T : x \leq y
    <2> TAKE y \in T
    <2>1. x \in Nat /\ y \in Nat
      OBVIOUS
    <2>2. ~(y < x)
      BY <1>4, <1>2, <2>1
    <2> QED BY <2>1, <2>2
  <1> QED BY <1>5

\* seek_to_first finds the least entry ...
LEMMA FirstIs ==
    ASSUME NEW S \in SUBSET IntKeys
    PROVE  /\ S = {} => First(S) = NoKey
           /\ S # {} => First(S) \in S /\ \A y \in S : Ser(First(S)) \leq Ser(y)
  <1> SUFFICES ASSUME S # {}
               PROVE  First(S) \in S /\ \A y \in S : Ser(First(S)) \leq Ser(y)
    BY DEF First
  <1> DEFINE T == {Ser(x) : x \in S}
  <1>1. T \subseteq Nat /\ T # {}
    BY SerOfKeys
  <1>2. PICK t \in T : \A u \in T : t \leq u
    BY <1>1, Least
  <1>3. \E x \in S : \A y \in S : Ser(x) \leq Ser(y)
    BY <1>2
  <1> QED BY <1>3 DEF First

\* ... and seek_to_last the greatest.
LEMMA LastIs ==
    ASSUME NEW S \in SUBSET IntKeys
    PROVE  /\ S = {} => Last(S) = NoKey
           /\ S # {} => Last(S) \in S /\ \A y \in S : Ser(y) \leq Ser(Last(S))
  <1> SUFFICES ASSUME S # {}
               PROVE  Last(S) \in S /\ \A y \in S : Ser(y) \leq Ser(Last(S))
    BY DEF Last
  <1> DEFINE T == {Modulus - Ser(x) : x \in S}
  <1>0. Modulus \in Nat
    BY IterationAssumption
  <1>1. T \subseteq Nat /\ T # {}
    <2>1. ASSUME NEW x \in S PROVE Modulus - Ser(x) \in Nat
      BY <1>0, SerOfKeys
    <2> QED BY <2>1
  <1>2. PICK t \in T : \A u \in T : t \leq u
    BY <1>1, Least
  <1>3. PICK x \in S : t = Modulus - Ser(x)
    BY <1>2
  <1>4. ASSUME NEW y \in S PROVE Ser(y) \leq Ser(x)
    <2>1. Modulus - Ser(x) \leq Modulus - Ser(y)
      BY <1>2, <1>3
    <2>2. Ser(x) \in Nat /\ Ser(y) \in Nat
      BY SerOfKeys
    <2> QED BY <2>1, <2>2, <1>0
  <1> QED BY <1>3, <1>4 DEF Last

\* The order of reading is total.
LEMMA BeforeIsOrder ==
    /\ \A x, y \in IntKeys : x = y \/ Before(x, y) \/ Before(y, x)
    /\ \A x, y \in IntKeys : Before(x, y) => ~Before(y, x) /\ x # y
    /\ \A x, y, z \in IntKeys : Before(x, y) /\ Before(y, z) => Before(x, z)
  <1>1. \A x, y \in IntKeys : x = y \/ Before(x, y) \/ Before(y, x)
    BY SerOfKeys DEF Before
  <1>2. \A x, y \in IntKeys : Before(x, y) => ~Before(y, x) /\ x # y
    BY SerOfKeys DEF Before
  <1>3. \A x, y, z \in IntKeys : Before(x, y) /\ Before(y, z) => Before(x, z)
    BY SerOfKeys DEF Before
  <1> QED BY <1>1, <1>2, <1>3

\* next moves the raw iterator to the next entry in its direction.
LEMMA AdvancedIs ==
    ASSUME snap \subseteq IntKeys, pos \in snap, dir \in {"forward", "reverse"}
    PROVE  /\ Advanced \in snap \union {NoKey}
           /\ Advanced # NoKey =>
                \A x \in snap : Before(x, Advanced) <=> x = pos \/ Before(x, pos)
           /\ Advanced = NoKey => \A x \in snap : x = pos \/ Before(x, pos)
  <1>0. NoKey \notin snap
    BY IterationAssumption
  <1>a. /\ \A x \in snap : Ser(x) \in Nat
        /\ \A x, y \in snap : Ser(x) = Ser(y) => x = y
    BY SerOfKeys
  <1>1. CASE dir = "forward"
    <2> DEFINE S == {x \in snap : Ser(x) > Ser(pos)}
    <2>1. S \in SUBSET IntKeys /\ Advanced = First(S)
      BY <1>1 DEF Advanced
    <2>2. CASE S = {}
      <3>1. Advanced = NoKey
        BY <2>1, <2>2, FirstIs
      <3>2. \A x \in snap : ~(Ser(x) > Ser(pos))
        BY <2>2
      <3>3. \A x \in snap : x = pos \/ Ser(x) < Ser(pos)
        BY <3>2, <1>a
      <3> QED BY <3>1, <3>3, <1>1 DEF Before
    <2>3. CASE S # {}
      <3>1. Advanced \in S /\ \A y \in S : Ser(Advanced) \leq Ser(y)
        <4> HIDE DEF S
        <4> QED BY <2>1, <2>3, FirstIs
      <3>2. Advanced \in snap /\ Ser(Advanced) > Ser(pos) /\ Advanced # NoKey
        BY <3>1, <1>0
      <3>3. ASSUME NEW x \in snap
            PROVE  Ser(x) < Ser(Advanced) <=> x = pos \/ Ser(x) < Ser(pos)
        <4>1. Ser(x) > Ser(pos) => Ser(Advanced) \leq Ser(x)
          BY <3>1
        <4> QED BY <4>1, <3>2, <1>a
      <3> QED BY <3>2, <3>3, <1>1 DEF Before
    <2> QED BY <2>2, <2>3
  <1>2. CASE dir = "reverse"
    <2> DEFINE S == {x \in snap : Ser(x) < Ser(pos)}
    <2>1. S \in SUBSET IntKeys /\ Advanced = Last(S)
      BY <1>2 DEF Advanced
    <2>2. CASE S = {}
      <3>1. Advanced = NoKey
        BY <2>1, <2>2, LastIs
      <3>2. \A x \in snap : ~(Ser(x) < Ser(pos))
        BY <2>2
      <3>3. \A x \in snap : x = pos \/ Ser(x) > Ser(pos)
        BY <3>2, <1>a
      <3> QED BY <3>1, <3>3, <1>2 DEF Before
    <2>3. CASE S # {}
      <3>1. Advanced \in S /\ \A y \in S : Ser(y) \leq Ser(Advanced)
        <4> HIDE DEF S
        <4> QED BY <2>1, <2>3, LastIs
      <3>2. Advanced \in snap /\ Ser(Advanced) < Ser(pos) /\ Advanced # NoKey
        BY <3>1, <1>0
      <3>3. ASSUME NEW x \in snap
            PROVE  Ser(x) > Ser(Advanced) <=> x = pos \/ Ser(x) > Ser(pos)
        <4>1. Ser(x) < Ser(pos) => Ser(x) \leq Ser(Advanced)
          BY <3>1
        <4> QED BY <4>1, <3>2, <1>a
      <3> QED BY <3>2, <3>3, <1>2 DEF Before
    <2> QED BY <2>2, <2>3
  <1> QED BY <1>1, <1>2

-----------------------------------------------------------------------------
(* What a loop returns.                                                      *)

\* An iterator starts on one entry at most.
LEMMA OneStart ==
    ASSUME IterTypeOK, NEW y \in snap, NEW z \in snap, Starts(y), Starts(z)
    PROVE  y = z
  <1>1. /\ y \in IntKeys /\ z \in IntKeys
        /\ Ser(y) \in Nat /\ Ser(z) \in Nat /\ (Ser(y) = Ser(z) => y = z)
    BY SerOfKeys DEF IterTypeOK
  <1>2. CASE origin.how = "at"
    BY <1>2 DEF Starts
  <1>3. CASE origin.how = "first"
    BY <1>1, <1>3 DEF Starts
  <1>4. CASE origin.how = "last"
    BY <1>1, <1>4 DEF Starts
  <1>5. CASE origin.how = "to"
    BY <1>1, <1>5 DEF Starts
  <1>6. CASE origin.how = "prior"
    BY <1>1, <1>6 DEF Starts
  <1>7. origin.how \in {"at", "first", "last", "to", "prior"}
    BY DEF IterTypeOK
  <1> QED BY <1>2, <1>3, <1>4, <1>5, <1>6, <1>7

\* An iterator that has just been positioned has everything before it.
LEMMA StartSeen ==
    IterTypeOK /\ AtStart /\ phase = "made" => SeenSoFar /\ YieldsInByteOrder
  <1> SUFFICES ASSUME IterTypeOK, AtStart, phase = "made"
               PROVE  SeenSoFar /\ YieldsInByteOrder
    OBVIOUS
  <1>1. yielded = <<>> /\ DOMAIN yielded = {} /\ Seen = {}
    <2>1. yielded = <<>>
      BY DEF AtStart
    <2> QED BY <2>1 DEF Seen
  <1>2. YieldsInByteOrder
    BY <1>1 DEF YieldsInByteOrder
  <1>3. CASE pos = NoKey
    <2>1. \A x \in snap : ~Ahead(x)
      BY <1>3 DEF AtStart, Ahead
    <2> QED BY <2>1, <1>1, <1>2, <1>3 DEF SeenSoFar
  <1>4. CASE pos # NoKey
    <2>1. pos \in snap /\ Starts(pos)
      BY <1>4 DEF IterTypeOK, AtStart
    <2>2. \A x \in snap : Ahead(x) <=> ~Before(x, pos)
      <3> SUFFICES ASSUME NEW x \in snap PROVE Ahead(x) <=> ~Before(x, pos)
        OBVIOUS
      <3>1. ASSUME Ahead(x) PROVE ~Before(x, pos)
        <4>1. PICK y \in snap : Starts(y) /\ ~Before(x, y)
          BY <3>1 DEF Ahead
        <4>2. y = pos
          BY <4>1, <2>1, OneStart
        <4> QED BY <4>1, <4>2
      <3>2. ASSUME ~Before(x, pos) PROVE Ahead(x)
        BY <3>2, <2>1 DEF Ahead
      <3> QED BY <3>1, <3>2
    <2> QED BY <2>2, <1>1, <1>2, <1>4 DEF SeenSoFar
  <1> QED BY <1>3, <1>4

LEMMA StartSeenNext ==
    (IterTypeOK /\ AtStart /\ phase = "made" => SeenSoFar /\ YieldsInByteOrder)'
  BY StartSeen, PTL

\* iter(), keys(), values(), and the iterator of a dump or count.
LEMMA MadeKeeps ==
    ASSUME IterInv, NEW kd \in {"iter", "keys", "values"}, NEW c \in SUBSET IntKeys,
           MadeOn(kd, c), UNCHANGED <<db, sec>>
    PROVE  IterInv'
  <1>1. /\ (c = {} => First(c) = NoKey)
        /\ (c # {} => First(c) \in c /\ \A y \in c : Ser(First(c)) \leq Ser(y))
    BY FirstIs
  <1>2. NoKey \notin c
    BY IterationAssumption
  <1>3. IterTypeOK'
    BY <1>1 DEF IterInv, IterTypeOK, MadeOn
  <1>4. AtStart'
    <2>1. /\ phase' = "made" /\ yielded' = <<>> /\ pos' = First(c) /\ snap' = c
          /\ origin' = [how |-> "first", key |-> NoKey]
      BY DEF MadeOn
    <2>2. c # {} => First(c) # NoKey
      BY <1>1, <1>2
    <2> QED BY <2>1, <2>2, <1>1 DEF AtStart, Starts
  <1>5. phase' = "made"
    BY DEF MadeOn
  <1> QED BY <1>3, <1>4, <1>5, StartSeenNext DEF IterInv

\* The skip methods.
LEMMA RepositionKeeps ==
    ASSUME IterInv, NEW how \in {"last", "to", "prior"}, NEW k \in IntKeys \union {NoKey},
           how # "last" => k \in IntKeys,
           NEW to \in snap \union {NoKey}, Reposition(how, k, to),
           to # NoKey => Starts(to)', to = NoKey => \A y \in snap : ~(Starts(y)')
    PROVE  IterInv'
  <1>1. IterTypeOK'
    BY DEF IterInv, IterTypeOK, Reposition
  <1>2. AtStart'
    BY DEF AtStart, Reposition
  <1>3. phase' = "made"
    BY DEF Reposition
  <1> QED BY <1>1, <1>2, <1>3, StartSeenNext DEF IterInv

LEMMA SkipToKeeps == ASSUME IterInv, NEW k \in IntKeys, SkipTo(k) PROVE IterInv'
  <1> DEFINE S == {x \in snap : Ser(x) \geq Ser(k)}
  <1>1. S \in SUBSET IntKeys /\ snap \subseteq IntKeys /\ NoKey \notin IntKeys
    BY IterationAssumption DEF IterInv, IterTypeOK
  <1>2. /\ Reposition("to", k, First(S)) /\ snap' = snap
        /\ origin' = [how |-> "to", key |-> k]
    BY DEF SkipTo, Seek, Reposition
  <1>3. /\ S = {} => First(S) = NoKey
        /\ S # {} => First(S) \in S /\ \A y \in S : Ser(First(S)) \leq Ser(y)
    BY <1>1, FirstIs
  <1>4. PICK f \in snap \union {NoKey} : f = First(S)
    BY <1>3
  <1>5. ASSUME f # NoKey PROVE Starts(f)'
    <2>1. f \in S /\ \A y \in S : Ser(f) \leq Ser(y)
      BY <1>3, <1>4, <1>5
    <2> QED BY <2>1, <1>2 DEF Starts
  <1>6. ASSUME f = NoKey PROVE \A y \in snap : ~(Starts(y)')
    <2>1. S = {}
      BY <1>1, <1>3, <1>4, <1>6
    <2> QED BY <2>1, <1>2 DEF Starts
  <1>7. Reposition("to", k, f)
    BY <1>2, <1>4
  <1> QED BY <1>5, <1>6, <1>7, RepositionKeeps

LEMMA SkipPriorToKeeps == ASSUME IterInv, NEW k \in IntKeys, SkipPriorTo(k) PROVE IterInv'
  <1> DEFINE S == {x \in snap : Ser(x) \leq Ser(k)}
  <1>1. S \in SUBSET IntKeys /\ snap \subseteq IntKeys /\ NoKey \notin IntKeys
    BY IterationAssumption DEF IterInv, IterTypeOK
  <1>2. /\ Reposition("prior", k, Last(S)) /\ snap' = snap
        /\ origin' = [how |-> "prior", key |-> k]
    BY DEF SkipPriorTo, SeekForPrev, Reposition
  <1>3. /\ S = {} => Last(S) = NoKey
        /\ S # {} => Last(S) \in S /\ \A y \in S : Ser(y) \leq Ser(Last(S))
    BY <1>1, LastIs
  <1>4. PICK f \in snap \union {NoKey} : f = Last(S)
    BY <1>3
  <1>5. ASSUME f # NoKey PROVE Starts(f)'
    <2>1. f \in S /\ \A y \in S : Ser(y) \leq Ser(f)
      BY <1>3, <1>4, <1>5
    <2> QED BY <2>1, <1>2 DEF Starts
  <1>6. ASSUME f = NoKey PROVE \A y \in snap : ~(Starts(y)')
    <2>1. S = {}
      BY <1>1, <1>3, <1>4, <1>6
    <2> QED BY <2>1, <1>2 DEF Starts
  <1>7. Reposition("prior", k, f)
    BY <1>2, <1>4
  <1> QED BY <1>5, <1>6, <1>7, RepositionKeeps

LEMMA SkipToLastKeeps == ASSUME IterInv, SkipToLast PROVE IterInv'
  <1> DEFINE S == snap
  <1>1. S \in SUBSET IntKeys /\ snap \subseteq IntKeys /\ NoKey \notin IntKeys
    BY IterationAssumption DEF IterInv, IterTypeOK
  <1>2. /\ Reposition("last", NoKey, Last(S)) /\ snap' = snap
        /\ origin' = [how |-> "last", key |-> NoKey]
    BY DEF SkipToLast, Reposition
  <1>3. /\ S = {} => Last(S) = NoKey
        /\ S # {} => Last(S) \in S /\ \A y \in S : Ser(y) \leq Ser(Last(S))
    BY <1>1, LastIs
  <1>4. PICK f \in snap \union {NoKey} : f = Last(S)
    BY <1>3
  <1>5. ASSUME f # NoKey PROVE Starts(f)'
    <2>1. f \in S /\ \A y \in S : Ser(y) \leq Ser(f)
      BY <1>3, <1>4, <1>5
    <2> QED BY <2>1, <1>2 DEF Starts
  <1>6. ASSUME f = NoKey PROVE \A y \in snap : ~(Starts(y)')
    <2>1. S = {}
      BY <1>1, <1>3, <1>4, <1>6
    <2> QED BY <2>1, <1>2 DEF Starts
  <1>7. Reposition("last", NoKey, f)
    BY <1>2, <1>4
  <1> QED BY <1>5, <1>6, <1>7, RepositionKeeps

\* Iter::reverse() starts from the entry the iterator is on.
LEMMA ReverseKeeps == ASSUME IterInv, Reverse PROVE IterInv'
  <1>1. IterTypeOK'
    <2>1. origin' \in [how : {"at", "first", "last", "to", "prior"},
                       key : IntKeys \union {NoKey}]
      <3>1. pos \in IntKeys \union {NoKey}
        BY DEF IterInv, IterTypeOK
      <3> QED BY <3>1 DEF IterInv, IterTypeOK, Reverse
    <2>2. origin'.how \in {"to", "prior"} => origin'.key \in IntKeys
      BY DEF IterInv, IterTypeOK, Reverse
    <2> QED BY <2>1, <2>2 DEF IterInv, IterTypeOK, Reverse
  <1>2. AtStart'
    <2>1. pos \in snap \union {NoKey} /\ NoKey \notin snap
      BY IterationAssumption DEF IterInv, IterTypeOK
    <2>2. CASE phase = "made"
      BY <2>2 DEF IterInv, AtStart, Starts, Reverse
    <2>3. CASE phase # "made"
      <3>1. origin' = [how |-> "at", key |-> pos] /\ pos' = pos /\ snap' = snap
            /\ yielded' = <<>>
        BY <2>3 DEF Reverse
      <3> QED BY <3>1, <2>1 DEF AtStart, Starts
    <2> QED BY <2>2, <2>3
  <1>3. phase' = "made"
    BY DEF Reverse
  <1> QED BY <1>1, <1>2, <1>3, StartSeenNext DEF IterInv

\* next(): one more entry, or the end.
LEMMA NextItemKeeps == ASSUME IterInv, NextItem PROVE IterInv'
  <1> USE DEF IterInv
  <1>1. /\ phase \in {"made", "reading"} /\ snap \subseteq IntKeys
        /\ pos \in snap \union {NoKey} /\ NoKey \notin snap /\ yielded \in Seq(snap)
        /\ dir \in {"forward", "reverse"}
        /\ UNCHANGED <<db, kind, snap, dir, origin, sec>>
    BY IterationAssumption DEF NextItem, IterTypeOK
  <1>2. /\ Seen = {x \in snap : Ahead(x) /\ (pos # NoKey => Before(x, pos))}
        /\ pos # NoKey => \A x \in snap : ~Before(x, pos) => Ahead(x)
        /\ Seen \intersect Undecodable = {}
    BY <1>1 DEF SeenSoFar
  \* The frame: none of these depend on what changes.
  <1>3. /\ \A x : Ahead(x)' <=> Ahead(x)
        /\ \A x, y : Before(x, y)' <=> Before(x, y)
        /\ Undecodable' = Undecodable
    BY <1>1 DEF Ahead, Starts, Before, Undecodable, FailingKeys, FailingValues
  <1>4. /\ \A x, y \in snap : x = y \/ Before(x, y) \/ Before(y, x)
        /\ \A x, y \in snap : Before(x, y) => ~Before(y, x) /\ x # y
        /\ \A x, y, z \in snap : Before(x, y) /\ Before(y, z) => Before(x, z)
    BY <1>1, BeforeIsOrder
  <1>5. \A x : Ahead(x) => x \in snap
    BY DEF Ahead
  <1>6. CASE pos = NoKey
    <2>1. /\ phase' = "ended" /\ yielded' = yielded /\ pos' = pos
      BY <1>6 DEF NextItem
    <2>2. Seen' = Seen /\ Seen = {x \in snap : Ahead(x)}
      BY <2>1, <1>2, <1>6 DEF Seen
    <2>3. Seen = {x \in snap : Ahead(x) /\ x \notin Undecodable
                               /\ \A y \in Undecodable : Ahead(y) => Before(x, y)}
      <3>1. \A y \in Undecodable : ~Ahead(y)
        BY <2>2, <1>2, <1>5
      <3> QED BY <3>1, <2>2, <1>2
    <2>4. YieldsInByteOrder'
      <3>1. \A i, j \in DOMAIN yielded : i < j => Before(yielded[i], yielded[j])
        BY DEF YieldsInByteOrder
      <3> HIDE DEF IterInv
      <3> QED BY <3>1, <2>1, <2>2, <2>3, <1>1, <1>3 DEF YieldsInByteOrder, Seen
    <2>5. IterTypeOK'
      BY <2>1, <1>1 DEF IterTypeOK
    <2> QED BY <2>1, <2>4, <2>5 DEF AtStart, SeenSoFar
  <1>7. CASE pos # NoKey
    <2>1. pos \in snap /\ pos' = Advanced
      BY <1>1, <1>7 DEF NextItem
    <2>2. /\ pos' \in snap \union {NoKey}
          /\ pos' # NoKey => \A x \in snap : Before(x, pos') <=> x = pos \/ Before(x, pos)
          /\ pos' = NoKey => \A x \in snap : x = pos \/ Before(x, pos)
      BY <2>1, <1>1, AdvancedIs
    <2>3. CASE pos \in Undecodable
      <3>1. phase' = "ended" /\ yielded' = yielded
        BY <1>7, <2>3 DEF NextItem
      <3>2. Seen = {x \in snap : Ahead(x) /\ Before(x, pos)}
        BY <1>2, <1>7
      <3>3. Ahead(pos)
        BY <1>2, <1>4, <1>7, <2>1
      <3>4. Seen = {x \in snap : Ahead(x) /\ x \notin Undecodable
                                 /\ \A y \in Undecodable : Ahead(y) => Before(x, y)}
        <4>1. ASSUME NEW x \in snap, Ahead(x), Before(x, pos),
                     NEW y \in Undecodable, Ahead(y)
              PROVE  Before(x, y)
          <5>1. y \in snap /\ ~Before(y, pos)
            BY <4>1, <1>2, <1>5, <3>2
          <5> QED BY <4>1, <5>1, <1>4, <2>1
        <4>2. ASSUME NEW x \in snap, Ahead(x), Before(x, pos) PROVE x \notin Undecodable
          BY <4>2, <3>2, <1>2
        <4>3. ASSUME NEW x \in snap, \A y \in Undecodable : Ahead(y) => Before(x, y)
              PROVE  Before(x, pos)
          BY <4>3, <2>3, <3>3
        <4> QED BY <3>2, <4>1, <4>2, <4>3
      <3>5. YieldsInByteOrder'
        <4>1. \A i, j \in DOMAIN yielded : i < j => Before(yielded[i], yielded[j])
          BY DEF YieldsInByteOrder
        <4> HIDE DEF IterInv
        <4> QED BY <3>1, <3>4, <4>1, <1>1, <1>3 DEF YieldsInByteOrder, Seen
      <3>6. IterTypeOK'
        BY <2>2, <3>1, <1>1 DEF IterTypeOK
      <3> QED BY <3>1, <3>5, <3>6 DEF AtStart, SeenSoFar
    <2>4. CASE pos \notin Undecodable
      <3>1. phase' = "reading" /\ yielded' = Append(yielded, pos)
        BY <1>7, <2>4 DEF NextItem
      <3>2. /\ yielded' \in Seq(snap) /\ Len(yielded') = Len(yielded) + 1
            /\ Len(yielded) \in Nat
            /\ DOMAIN yielded = 1..Len(yielded) /\ DOMAIN yielded' = 1..(Len(yielded) + 1)
            /\ yielded'[Len(yielded) + 1] = pos
            /\ \A i \in 1..Len(yielded) : yielded'[i] = yielded[i] /\ yielded[i] \in snap
        BY <3>1, <2>1, <1>1
      <3>3. Seen' = Seen \union {pos}
        <4> HIDE DEF IterInv
        <4>1. Seen' = {yielded'[i] : i \in 1..(Len(yielded) + 1)}
              /\ Seen = {yielded[i] : i \in 1..Len(yielded)}
          BY <3>2 DEF Seen
        <4>2. 1..(Len(yielded) + 1) = 1..Len(yielded) \union {Len(yielded) + 1}
          BY <3>2
        <4> QED BY <4>1, <4>2, <3>2
      <3>4. Seen = {x \in snap : Ahead(x) /\ Before(x, pos)} /\ Ahead(pos)
        BY <1>2, <1>4, <1>7, <2>1
      <3>5. SeenSoFar'
        <4>1. Seen' = {x \in snap : Ahead(x) /\ (pos' # NoKey => Before(x, pos'))}
          BY <3>3, <3>4, <2>1, <2>2
        <4>2. pos' # NoKey => \A x \in snap : ~Before(x, pos') => Ahead(x)
          BY <2>2, <1>2, <1>7
        <4>3. Seen' \intersect Undecodable = {}
          BY <3>3, <2>4, <1>2
        <4>4. \A x : Before(x, pos)' <=> Before(x, pos')
          BY <1>1 DEF Before
        <4> HIDE DEF IterInv
        <4> QED BY <4>1, <4>2, <4>3, <4>4, <1>1, <1>3 DEF SeenSoFar
      <3>6. YieldsInByteOrder'
        <4>1. ASSUME NEW i \in DOMAIN yielded', NEW j \in DOMAIN yielded', i < j
              PROVE  Before(yielded'[i], yielded'[j])
          <5>1. i \in 1..Len(yielded)
            BY <4>1, <3>2
          <5>2. CASE j \in 1..Len(yielded)
            BY <4>1, <5>1, <5>2, <3>2 DEF YieldsInByteOrder
          <5>3. CASE j = Len(yielded) + 1
            <6>1. yielded[i] \in Seen
              BY <5>1, <3>2 DEF Seen
            <6> QED BY <6>1, <5>1, <5>3, <3>2, <3>4
          <5> QED BY <5>2, <5>3, <3>2
        <4>2. \A i, j \in DOMAIN yielded' :
                  i < j => (Before(yielded[i], yielded[j]))'
          BY <4>1, <1>1 DEF Before
        <4> QED BY <4>2, <3>1 DEF YieldsInByteOrder
      <3>7. IterTypeOK'
        BY <2>2, <3>1, <3>2, <1>1 DEF IterTypeOK
      <3> QED BY <3>1, <3>5, <3>6, <3>7 DEF AtStart
    <2> QED BY <2>3, <2>4
  <1> QED BY <1>6, <1>7

\* Whatever leaves the iterator alone leaves what it has seen alone.
LEMMA FrameKeeps ==
    ASSUME IterInv, UNCHANGED iterVars, db' \subseteq IntKeys,
           sec' \in (SUBSET IntKeys) \union {NoReader}
    PROVE  IterInv'
  <1>1. UNCHANGED <<kind, snap, pos, dir, origin, phase, yielded>>
    BY DEF iterVars
  <1>2. IterTypeOK'
    BY <1>1 DEF IterInv, IterTypeOK
  <1>3. /\ \A x : Ahead(x)' <=> Ahead(x)
        /\ \A x : Starts(x)' <=> Starts(x)
        /\ \A x, y : Before(x, y)' <=> Before(x, y)
        /\ Undecodable' = Undecodable /\ Seen' = Seen
    BY <1>1 DEF Ahead, Starts, Before, Undecodable, FailingKeys, FailingValues, Seen
  <1>4. AtStart'
    BY <1>1 DEF IterInv, AtStart, Starts
  <1>5. SeenSoFar'
    BY <1>1 DEF IterInv, SeenSoFar, Seen, Ahead, Starts, Before, Undecodable,
                FailingKeys, FailingValues
  <1>6. YieldsInByteOrder'
    BY <1>1 DEF IterInv, YieldsInByteOrder, Ahead, Starts, Before, Undecodable,
                FailingKeys, FailingValues
  <1> QED BY <1>2, <1>4, <1>5, <1>6 DEF IterInv

LEMMA DropKeeps == ASSUME IterInv, Drop PROVE IterInv'
  <1>1. IterTypeOK'
    BY DEF IterInv, IterTypeOK, Drop
  <1> QED BY <1>1 DEF IterInv, Drop, AtStart, SeenSoFar, YieldsInByteOrder

\* A dump or count has a secondary to read.
LEMMA ReaderInvariance == Spec => []ReaderOpen
  <1>1. Init => ReaderOpen
    BY DEF Init, ReaderOpen
  <1>2. ReaderOpen /\ [Next]_vars => ReaderOpen'
    <2> SUFFICES ASSUME ReaderOpen, [Next]_vars PROVE ReaderOpen'
      OBVIOUS
    <2>0. \A S \in SUBSET IntKeys : NoReader # S
      BY IterationAssumption
    <2>1. CASE OpenReadOnly
      BY <2>0, <2>1 DEF ReaderOpen, OpenReadOnly, CaughtUp
    <2>2. ASSUME NEW j, StartJob(j) PROVE ReaderOpen'
      BY <2>0, <2>2 DEF ReaderOpen, StartJob, CaughtUp
    <2>3. CASE CountKeys
      BY <2>2, <2>3 DEF CountKeys
    <2>4. ASSUME NEW size \in PageSizes, NEW number \in PageNumbers, Dump(size, number)
          PROVE  ReaderOpen'
      BY <2>2, <2>4 DEF Dump
    <2>5. ASSUME NEW k \in IntKeys, Write(k) PROVE ReaderOpen'
      BY <2>5 DEF ReaderOpen, Write
    <2>6. ASSUME UNCHANGED <<db, sec>>, job' \in {job, NoJob} PROVE ReaderOpen'
      BY <2>6 DEF ReaderOpen
    <2>7. CASE JobIterates
      BY <2>6, <2>7 DEF JobIterates
    <2>8. ASSUME NEW kd \in {"iter", "keys", "values"}, Iter(kd) PROVE ReaderOpen'
      BY <2>6, <2>8 DEF Iter
    <2>9. CASE SkipToLast \/ Reverse \/ NextItem \/ Drop
      BY <2>6, <2>9 DEF SkipToLast, Reposition, Reverse, NextItem, Drop
    <2>10. ASSUME NEW k \in IntKeys, SkipTo(k) \/ SkipPriorTo(k) PROVE ReaderOpen'
      BY <2>6, <2>10 DEF SkipTo, SkipPriorTo, Reposition
    <2>11. CASE UNCHANGED vars
      BY <2>6, <2>11 DEF vars
    <2> QED BY <2>1, <2>3, <2>4, <2>5, <2>7, <2>8, <2>9, <2>10, <2>11 DEF Next
  <1> QED BY <1>1, <1>2, PTL DEF Spec

\* The invariant is inductive.
LEMMA IterInvariance == Spec => []IterInv
  <1>1. Init => IterInv
    <2> SUFFICES ASSUME Init PROVE IterInv
      OBVIOUS
    <2>1. IterTypeOK
      <3>1. yielded \in Seq(snap) /\ origin.how = "first"
            /\ origin \in [how : {"at", "first", "last", "to", "prior"},
                           key : IntKeys \union {NoKey}]
        BY DEF Init
      <3> QED BY <3>1 DEF Init, IterTypeOK
    <2> QED BY <2>1 DEF IterInv, Init, AtStart, SeenSoFar, YieldsInByteOrder
  <1>2. IterInv /\ ReaderOpen /\ [Next]_vars => IterInv'
    <2> SUFFICES ASSUME IterInv, ReaderOpen, [Next]_vars PROVE IterInv'
      OBVIOUS
    <2>0. db \subseteq IntKeys /\ sec \in (SUBSET IntKeys) \union {NoReader}
      BY DEF IterInv, IterTypeOK
    <2>1. CASE OpenReadOnly \/ CountKeys
      BY <2>0, <2>1, FrameKeeps DEF OpenReadOnly, CountKeys, StartJob, CaughtUp
    <2>2. ASSUME NEW size \in PageSizes, NEW number \in PageNumbers, Dump(size, number)
          PROVE  IterInv'
      BY <2>0, <2>2, FrameKeeps DEF Dump, StartJob, CaughtUp
    <2>3. CASE JobIterates
      BY <2>3, MadeKeeps DEF JobIterates, ReaderOpen
    <2>4. ASSUME NEW kd \in {"iter", "keys", "values"}, Iter(kd) PROVE IterInv'
      BY <2>0, <2>4, MadeKeeps DEF Iter
    <2>5. CASE SkipToLast \/ Reverse \/ NextItem \/ Drop
      BY <2>5, SkipToLastKeeps, ReverseKeeps, NextItemKeeps, DropKeeps
    <2>6. ASSUME NEW k \in IntKeys, Write(k) PROVE IterInv'
      BY <2>0, <2>6, FrameKeeps DEF Write
    <2>7. ASSUME NEW k \in IntKeys, SkipTo(k) \/ SkipPriorTo(k) PROVE IterInv'
      BY <2>7, SkipToKeeps, SkipPriorToKeeps
    <2>8. CASE UNCHANGED vars
      BY <2>0, <2>8, FrameKeeps DEF vars, iterVars
    <2> QED BY <2>1, <2>2, <2>3, <2>4, <2>5, <2>6, <2>7, <2>8 DEF Next
  <1> QED BY <1>1, <1>2, ReaderInvariance, PTL DEF Spec

\* Among keys of one sign the encodings are ordered as the keys are.
LEMMA SerKeepsOrder ==
    ASSUME NEW x \in IntKeys, NEW y \in IntKeys,
           (x \geq 0 /\ y \geq 0) \/ (x < 0 /\ y < 0)
    PROVE  Ser(x) < Ser(y) <=> x < y
<1>1. ASSUME NEW k \in IntKeys
      PROVE  /\ k \in Int /\ Modulus \in Nat \ {0}
             /\ k \geq 0 => k % Modulus = k
             /\ k < 0 => k % Modulus = k + Modulus
  <2>1. k \in Int /\ Modulus \in Nat \ {0} /\ -Modulus \leq k /\ k < Modulus
    BY IterationAssumption
  <2>2. k \geq 0 => k % Modulus = k
    BY <2>1
  <2>3. k < 0 => k % Modulus = k + Modulus
    BY <2>1
  <2> QED BY <2>1, <2>2, <2>3
<1> QED BY <1>1 DEF Ser

\* For keys of one sign, what was said of encodings holds of keys.
LEMMA BytesAreKeys ==
    ASSUME IterTypeOK, OneSign, Positioned
    PROVE  /\ \A x, y \in snap : Before(x, y) <=> InOrder(x, y)
           /\ \A y \in snap : Starts(y) <=> StartsOn(y)
<1> DEFINE ks == snap \cup ({origin.key} \ {NoKey})
<1>1. /\ ks \subseteq IntKeys
      /\ (\A k \in ks : k \geq 0) \/ (\A k \in ks : k < 0)
  BY DEF IterTypeOK, OneSign
<1>2. ASSUME NEW x \in ks, NEW y \in ks
      PROVE  /\ x \in Int /\ y \in Int /\ Ser(x) \in Int /\ Ser(y) \in Int
             /\ Ser(x) < Ser(y) <=> x < y
             /\ Ser(y) < Ser(x) <=> y < x
  <2>0. x \in IntKeys /\ y \in IntKeys
    BY <1>1
  <2>1. x \in IntKeys /\ y \in IntKeys /\ x \in Int /\ y \in Int
    BY <2>0, IterationAssumption
  <2>2. (x \geq 0 /\ y \geq 0) \/ (x < 0 /\ y < 0)
    BY <1>1
  <2> QED BY <2>1, <2>2, SerKeepsOrder, SerOfKeys
<1>3. \A x, y \in snap : Before(x, y) <=> InOrder(x, y)
  BY <1>2 DEF Before, InOrder
<1>4. origin.how \in {"to", "prior"} => origin.key \in ks
  BY IterationAssumption DEF IterTypeOK
<1>5. ASSUME NEW y \in snap PROVE Starts(y) <=> StartsOn(y)
  <2>1. CASE origin.how = "at"
    BY <2>1 DEF Positioned
  <2>2. CASE origin.how = "first"
    <3>1. \A z \in snap : Ser(y) \leq Ser(z) <=> y \leq z
      BY <1>2
    <3> QED BY <2>2, <3>1 DEF Starts, StartsOn
  <2>3. CASE origin.how = "last"
    <3>1. \A z \in snap : Ser(y) \geq Ser(z) <=> y \geq z
      BY <1>2
    <3> QED BY <2>3, <3>1 DEF Starts, StartsOn
  <2>4. CASE origin.how = "to"
    <3>1. /\ \A z \in snap : Ser(y) \leq Ser(z) <=> y \leq z
          /\ \A z \in snap : Ser(z) \geq Ser(origin.key) <=> z \geq origin.key
      BY <1>2, <1>4, <2>4
    <3> QED BY <2>4, <3>1 DEF Starts, StartsOn
  <2>5. CASE origin.how = "prior"
    <3>1. /\ \A z \in snap : Ser(y) \geq Ser(z) <=> y \geq z
          /\ \A z \in snap : Ser(z) \leq Ser(origin.key) <=> z \leq origin.key
      BY <1>2, <1>4, <2>5
    <3> QED BY <2>5, <3>1 DEF Starts, StartsOn
  <2> QED BY <2>1, <2>2, <2>3, <2>4, <2>5 DEF IterTypeOK
<1> QED BY <1>3, <1>5

\* A loop over an iterator returns exactly the entries from the one it was
\* positioned on, in the order of the keys where they have one sign, and up to
\* the first that does not decode, as of the moment it was made
\* (iter.rs:46-112).
THEOREM LoopsYieldTheRest == Spec => []YieldsTheRest
<1>1. IterInv => YieldsTheRest
  <2> SUFFICES ASSUME IterInv, OneSign, Positioned
               PROVE  YieldsTheRest!2
    BY DEF YieldsTheRest
  <2>1. /\ \A x, y \in snap : Before(x, y) <=> InOrder(x, y)
        /\ \A y \in snap : Starts(y) <=> StartsOn(y)
    BY BytesAreKeys DEF IterInv
  <2>2. \A i \in DOMAIN yielded : yielded[i] \in snap
    BY DEF IterInv, IterTypeOK
  <2>3. \A x : Ahead(x) <=> x \in Remaining
    BY <2>1 DEF Ahead, Remaining
  <2>4. \A i, j \in DOMAIN yielded : i < j => InOrder(yielded[i], yielded[j])
    BY <2>1, <2>2 DEF IterInv, YieldsInByteOrder
  <2>5. ASSUME phase = "ended"
        PROVE  {yielded[i] : i \in DOMAIN yielded} =
                 {x \in Remaining \ Undecodable :
                    \A y \in Remaining \cap Undecodable : InOrder(x, y)}
    <3>1. {yielded[i] : i \in DOMAIN yielded} =
            {x \in snap : Ahead(x) /\ x \notin Undecodable
                            /\ \A y \in Undecodable : Ahead(y) => Before(x, y)}
      BY <2>5 DEF IterInv, YieldsInByteOrder
    <3>2. Remaining \subseteq snap
      BY DEF Remaining
    <3> QED BY <3>1, <3>2, <2>1, <2>3
  <2> QED BY <2>4, <2>5
<1> QED BY <1>1, IterInvariance, PTL

-----------------------------------------------------------------------------
(* Pages.                                                                    *)

\* Which numbers have a given quotient.
LEMMA DivIs ==
    ASSUME NEW c \in Nat, NEW d \in Nat \ {0}, NEW q \in Nat
    PROVE  c \div d = q <=> q * d \leq c /\ c < q * d + d
  <1>1. /\ c \div d \in Nat /\ c % d \in 0..(d - 1)
        /\ c = d * (c \div d) + (c % d)
    OBVIOUS
  <1>2. ASSUME q * d \leq c, c < q * d + d PROVE c \div d = q
    <2> DEFINE p == c \div d
               r == c % d
    <2>1. p \in Nat /\ r \in 0..(d - 1) /\ c = d * p + r
      BY <1>1
    <2> SUFFICES p = q
      OBVIOUS
    <2> HIDE DEF p, r
    <2>2. d * p + r < d * q + d /\ d * q \leq d * p + r
      BY <1>2, <2>1
    <2>3. CASE p - q \geq 1
      <3>1. d * (p - q) \geq d
        BY <2>1, <2>3
      <3> QED BY <3>1, <2>1, <2>2
    <2>4. CASE p - q \leq -1
      <3>1. d * (p - q) \leq -d
        BY <2>1, <2>4
      <3> QED BY <3>1, <2>1, <2>2
    <2> QED BY <2>1, <2>3, <2>4
  <1>3. ASSUME c \div d = q PROVE q * d \leq c /\ c < q * d + d
    BY <1>1, <1>3
  <1> QED BY <1>2, <1>3

\* The entries below one are finitely many.
LEMMA BelowIsFinite ==
    ASSUME snap \subseteq IntKeys, NEW x
    PROVE  /\ IsFiniteSet({y \in snap : Ser(y) < Ser(x)})
           /\ Rank(x) \in Nat
  <1>1. IsFiniteSet((-Modulus)..(Modulus - 1))
    BY IterationAssumption, FS_Interval
  <1>2. IsFiniteSet({y \in snap : Ser(y) < Ser(x)})
    <2>1. {y \in snap : Ser(y) < Ser(x)} \subseteq (-Modulus)..(Modulus - 1)
      BY IterationAssumption
    <2> QED BY <1>1, <2>1, FS_Subset
  <1> QED BY <1>2, FS_CardinalityType DEF Rank

\* A later entry has no fewer before it.
LEMMA RankIsMonotone ==
    ASSUME snap \subseteq IntKeys, NEW x \in snap, NEW y \in snap, Ser(x) \leq Ser(y)
    PROVE  Rank(x) \leq Rank(y)
  <1>1. {z \in snap : Ser(z) < Ser(x)} \subseteq {z \in snap : Ser(z) < Ser(y)}
    BY SerOfKeys
  <1> QED BY <1>1, BelowIsFinite, FS_Subset DEF Rank

\* Everything is ahead of an iterator that starts at the first entry.
LEMMA AllAhead ==
    ASSUME snap \subseteq IntKeys, dir = "forward", origin.how = "first", NEW x \in snap
    PROVE  Ahead(x)
  <1>1. First(snap) \in snap /\ \A y \in snap : Ser(First(snap)) \leq Ser(y)
    BY FirstIs
  <1>2. Starts(First(snap))
    BY <1>1 DEF Starts
  <1>3. ~Before(x, First(snap))
    <2>1. Ser(x) \in Nat /\ Ser(First(snap)) \in Nat
      BY <1>1, SerOfKeys
    <2>2. Ser(First(snap)) \leq Ser(x)
      BY <1>1
    <2>3. ~(Ser(x) < Ser(First(snap)))
      BY <2>1, <2>2
    <2> QED BY <2>3 DEF Before
  <1> QED BY <1>1, <1>2, <1>3 DEF Ahead

\* The page of a dump.
LEMMA DumpHasPage ==
    ASSUME job \in Jobs, job.op = "dump"
    PROVE  /\ job.size \in Nat \ {0} /\ job.number \in Nat
           /\ Skipped = job.number * job.size /\ Skipped \in Nat
  <1>1. job.size \in PageSizes /\ job.number \in PageNumbers
    BY DEF Jobs
  <1>2. job.size \in Nat \ {0} /\ job.number \in Nat
    BY <1>1, IterationAssumption
  <1> QED BY <1>2 DEF Skipped

\* A dump or count makes its iterator.
LEMMA JobIteratesKeepsJob ==
    ASSUME IterInv, ReaderOpen, JobInv, JobIterates PROVE JobInv'
  <1>1. /\ job' = job /\ job # NoJob /\ sec' = sec /\ snap' = sec /\ pos' = First(sec)
        /\ dir' = "forward" /\ origin'.how = "first" /\ yielded' = <<>> /\ phase' = "made"
    BY DEF JobIterates, MadeOn
  <1>2. job \in Jobs /\ sec \in SUBSET IntKeys
    BY <1>1 DEF JobInv, ReaderOpen
  <1>3. pos' # NoKey => Rank(pos)' = 0
    <2> SUFFICES ASSUME pos' # NoKey
                 PROVE  Cardinality({y \in sec : Ser(y) < Ser(pos')}) = 0
      BY <1>1 DEF Rank, Ser
    <2>1. pos' \in sec /\ \A y \in sec : Ser(pos') \leq Ser(y)
      BY <1>1, <1>2, FirstIs
    <2>2. ASSUME NEW y \in sec PROVE ~(Ser(y) < Ser(pos'))
      <3>1. Ser(y) \in Nat /\ Ser(pos') \in Nat /\ Ser(pos') \leq Ser(y)
        BY <1>2, <2>1, SerOfKeys
      <3> QED BY <3>1
    <2>3. {y \in sec : Ser(y) < Ser(pos')} = {}
      BY <2>2
    <2> QED BY <2>3, FS_EmptySet
  <1>4. job.op = "dump" => 0 \leq Skipped + job.size
    <2> SUFFICES ASSUME job.op = "dump" PROVE 0 \leq Skipped + job.size
      OBVIOUS
    <2>1. job.size \in Nat /\ Skipped \in Nat
      BY <1>2, DumpHasPage
    <2> QED BY <2>1
  <1>5. Len(yielded') = 0 /\ DOMAIN yielded' = {} /\ Skipped' = Skipped
    BY <1>1 DEF Skipped
  <1> QED BY <1>1, <1>2, <1>3, <1>4, <1>5 DEF JobInv

\* A dump or count reads on.
LEMMA NextItemKeepsJob ==
    ASSUME IterInv, JobInv, NextItem PROVE JobInv'
  <1> SUFFICES ASSUME job # NoJob PROVE JobInv'
    BY DEF JobInv, NextItem
  <1>1. /\ phase \in {"made", "reading"} /\ ~PageRead
        /\ UNCHANGED <<snap, dir, origin, sec, job>>
    BY DEF NextItem
  <1>2. /\ job \in Jobs /\ snap = sec /\ dir = "forward" /\ origin.how = "first"
        /\ \A i \in DOMAIN yielded : Rank(yielded[i]) = i - 1
        /\ pos # NoKey => Rank(pos) = Len(yielded)
        /\ job.op = "dump" => Len(yielded) \leq Skipped + job.size
    BY <1>1 DEF JobInv
  <1>3. /\ snap \subseteq IntKeys /\ pos \in snap \union {NoKey} /\ yielded \in Seq(snap)
        /\ Len(yielded) \in Nat
    BY DEF IterInv, IterTypeOK
  <1>4. Skipped' = Skipped
    BY <1>1 DEF Skipped
  <1>5. \A x : Cardinality({y \in snap' : Ser(y) < Ser(x)}) = Rank(x)
    BY <1>1 DEF Rank
  <1>6. CASE phase' = "ended" /\ yielded' = yielded
    <2>1. \A i \in DOMAIN yielded' : Rank(yielded[i])' = i - 1
      BY <1>6, <1>2, <1>5 DEF Rank, Ser
    <2> QED BY <2>1, <1>1, <1>2, <1>4, <1>6 DEF JobInv
  <1>7. CASE /\ pos # NoKey /\ pos' = Advanced
             /\ phase' = "reading" /\ yielded' = Append(yielded, pos)
    <2>1. pos \in snap
      BY <1>3, <1>7
    <2>2. /\ Len(yielded') = Len(yielded) + 1
          /\ DOMAIN yielded = 1..Len(yielded) /\ DOMAIN yielded' = 1..(Len(yielded) + 1)
          /\ yielded'[Len(yielded) + 1] = pos
          /\ \A i \in 1..Len(yielded) : yielded'[i] = yielded[i]
      BY <2>1, <1>3, <1>7
    <2>3. ASSUME NEW i \in DOMAIN yielded' PROVE Rank(yielded[i])' = i - 1
      <3>1. Rank(yielded'[i]) = i - 1
        <4>1. CASE i \in 1..Len(yielded)
          BY <4>1, <2>2, <1>2
        <4>2. CASE i = Len(yielded) + 1
          BY <4>2, <2>2, <1>2, <1>3, <1>7
        <4> QED BY <4>1, <4>2, <2>2, <1>3
      <3> QED BY <3>1, <1>5 DEF Rank, Ser
    <2>4. pos' # NoKey => Rank(pos)' = Len(yielded')
      <3> SUFFICES ASSUME pos' # NoKey PROVE Rank(pos') = Len(yielded) + 1
        BY <2>2, <1>5 DEF Rank, Ser
      <3> DEFINE B == {y \in snap : Ser(y) < Ser(pos)}
      <3>1. \A x \in snap : Before(x, Advanced) <=> x = pos \/ Before(x, pos)
        BY <2>1, <1>2, <1>3, <1>7, AdvancedIs
      <3>2. \A x \in snap : Ser(x) < Ser(pos') <=> x = pos \/ Ser(x) < Ser(pos)
        BY <3>1, <1>2, <1>7 DEF Before
      <3>3. {y \in snap : Ser(y) < Ser(pos')} = B \union {pos}
        BY <3>2, <2>1
      <3>4. IsFiniteSet(B) /\ pos \notin B /\ Cardinality(B) = Len(yielded)
        <4>1. IsFiniteSet(B)
          BY <1>3, BelowIsFinite
        <4>2. pos \notin B
          <5>1. Ser(pos) \in Nat
            BY <2>1, <1>3, SerOfKeys
          <5>2. ~(Ser(pos) < Ser(pos))
            BY <5>1
          <5> QED BY <5>2
        <4>3. Cardinality(B) = Rank(pos)
          BY DEF Rank
        <4> QED BY <4>1, <4>2, <4>3, <1>2, <1>7
      <3> HIDE DEF B
      <3>5. Cardinality(B \union {pos}) = Cardinality(B) + 1
        BY <3>4, FS_AddElement
      <3> QED BY <3>3, <3>4, <3>5 DEF Rank
    <2>5. job.op = "dump" => Len(yielded') \leq Skipped + job.size
      <3> SUFFICES ASSUME job.op = "dump" PROVE Len(yielded) + 1 \leq Skipped + job.size
        BY <2>2
      <3>1. job.size \in Nat /\ Skipped \in Nat
        BY <1>2, DumpHasPage
      <3>2. Len(yielded) # Skipped + job.size
        BY <1>1 DEF PageRead
      <3>3. Len(yielded) \leq Skipped + job.size
        BY <1>2
      <3> QED BY <3>1, <3>2, <3>3, <1>3
    <2> QED BY <2>3, <2>4, <2>5, <1>1, <1>2, <1>4 DEF JobInv
  <1> QED BY <1>6, <1>7 DEF NextItem

\* Dumps and counts keep to their contents and their page.
LEMMA JobInvariance == Spec => []JobInv
  <1>1. Init => JobInv
    BY DEF Init, JobInv
  <1>2. IterInv /\ ReaderOpen /\ JobInv /\ [Next]_vars => JobInv'
    <2> SUFFICES ASSUME IterInv, ReaderOpen, JobInv, [Next]_vars PROVE JobInv'
      OBVIOUS
    <2>1. ASSUME job' = NoJob PROVE JobInv'
      BY <2>1 DEF JobInv
    <2>2. ASSUME UNCHANGED <<iterVars, sec, job>> PROVE JobInv'
      BY <2>2 DEF JobInv, iterVars, Rank, Skipped, Ser
    <2>3. CASE OpenReadOnly
      <3>1. job = NoJob /\ job' = job
        BY <2>3 DEF OpenReadOnly, ReaderOpen
      <3> QED BY <3>1, <2>1
    <2>4. ASSUME NEW j \in Jobs, StartJob(j) PROVE JobInv'
      BY <2>4 DEF StartJob, JobInv, iterVars
    <2>5. CASE CountKeys
      <3>1. [op |-> "count"] \in Jobs
        BY DEF Jobs
      <3> QED BY <3>1, <2>4, <2>5 DEF CountKeys
    <2>6. ASSUME NEW size \in PageSizes, NEW number \in PageNumbers, Dump(size, number)
          PROVE  JobInv'
      <3>1. [op |-> "dump", size |-> size, number |-> number] \in Jobs
        BY DEF Jobs
      <3> QED BY <3>1, <2>4, <2>6 DEF Dump
    <2>7. ASSUME NEW kd \in {"iter", "keys", "values"}, Iter(kd) PROVE JobInv'
      BY <2>1, <2>7 DEF Iter
    <2>8. CASE SkipToLast \/ Reverse \/ Drop
      BY <2>1, <2>8 DEF SkipToLast, Reposition, Reverse, Drop
    <2>9. ASSUME NEW k \in IntKeys, SkipTo(k) \/ SkipPriorTo(k) PROVE JobInv'
      BY <2>1, <2>9 DEF SkipTo, SkipPriorTo, Reposition
    <2>10. ASSUME NEW k \in IntKeys, Write(k) PROVE JobInv'
      BY <2>2, <2>10 DEF Write
    <2>11. CASE UNCHANGED vars
      BY <2>2, <2>11 DEF vars
    <2> QED BY <2>3, <2>5, <2>6, <2>7, <2>8, <2>9, <2>10, <2>11,
               JobIteratesKeepsJob, NextItemKeepsJob DEF Next
  <1> QED BY <1>1, <1>2, IterInvariance, ReaderInvariance, PTL DEF Spec

\* A dump returns the entries of its page, counted from the first key of the
\* table it caught up to, cut short by an entry that does not decode
\* (derive/lib.rs:536-552).
THEOREM DumpsReturnThePage == Spec => []DumpIsThePage
  <1>1. IterInv /\ JobInv => DumpIsThePage
    <2> SUFFICES ASSUME IterInv, JobInv, job # NoJob, job.op = "dump", phase # "none",
                        PageRead \/ phase = "ended"
                 PROVE  Page = {x \in sec :
                    /\ Cardinality({y \in sec : Ser(y) < Ser(x)}) \div job.size = job.number
                    /\ \A y \in sec : Ser(y) \leq Ser(x) => y \notin Undecodable}
      BY DEF DumpIsThePage
    <2> DEFINE n == Len(yielded)
               d == job.size
               q == job.number
               Good(x) == \A y \in snap : Ser(y) \leq Ser(x) => y \notin Undecodable
    <2>1. /\ snap = sec /\ dir = "forward" /\ origin.how = "first"
          /\ \A i \in DOMAIN yielded : Rank(yielded[i]) = i - 1
          /\ phase # "ended" /\ pos # NoKey => Rank(pos) = n
          /\ n \leq Skipped + d
      BY DEF JobInv
    <2>2. d \in Nat \ {0} /\ q \in Nat /\ Skipped = q * d
      BY DumpHasPage DEF JobInv
    <2>3. /\ snap \subseteq IntKeys /\ pos \in snap \union {NoKey}
          /\ n \in Nat /\ DOMAIN yielded = 1..n /\ \A i \in 1..n : yielded[i] \in snap
          /\ phase \in {"none", "made", "reading", "ended"}
          /\ \A x \in snap : Ser(x) \in Nat
      BY SerOfKeys DEF IterInv, IterTypeOK
    <2>4. \A x \in snap : Ahead(x)
      BY <2>1, <2>3, AllAhead
    <2>5. \A x, y : Before(x, y) <=> Ser(x) < Ser(y)
      BY <2>1 DEF Before
    <2>6. \A y : Ahead(y) => y \in snap
      BY DEF Ahead
    <2>7. ASSUME phase = "ended"
          PROVE  /\ \A x \in Seen : x \in snap /\ Good(x)
                 /\ \A x \in snap : Rank(x) \div d = q /\ Good(x) => x \in Seen
      <3>1. Seen = {x \in snap : Ahead(x) /\ x \notin Undecodable
                                 /\ \A y \in Undecodable : Ahead(y) => Before(x, y)}
        BY <2>7 DEF IterInv, YieldsInByteOrder, Seen
      <3>2. \A x \in Seen : x \in snap /\ Good(x)
        <4> TAKE x \in Seen
        <4>1. x \in snap /\ \A y \in Undecodable : y \in snap => Ser(x) < Ser(y)
          BY <3>1, <2>4, <2>5
        <4>2. ASSUME NEW y \in snap, Ser(y) \leq Ser(x) PROVE y \notin Undecodable
          <5>1. ~(Ser(x) < Ser(y))
            BY <4>1, <4>2, <2>3
          <5> QED BY <4>1, <5>1
        <4> QED BY <4>1, <4>2
      <3>3. \A x \in snap : Good(x) => x \in Seen
        <4> SUFFICES ASSUME NEW x \in snap, Good(x) PROVE x \in Seen
          OBVIOUS
        <4>1. x \notin Undecodable
          <5>1. Ser(x) \leq Ser(x)
            BY <2>3
          <5> QED BY <5>1
        <4>2. ASSUME NEW y \in Undecodable, Ahead(y) PROVE Before(x, y)
          <5>1. y \in snap
            BY <4>2, <2>6
          <5>2. ~(Ser(y) \leq Ser(x))
            BY <4>2, <5>1
          <5>3. Ser(x) < Ser(y)
            BY <5>1, <5>2, <2>3
          <5> QED BY <5>3, <2>5
        <4> QED BY <4>1, <4>2, <3>1, <2>4
      <3> HIDE DEF Good
      <3>4. \A x \in snap : Rank(x) \div d = q /\ Good(x) => x \in Seen
        BY <3>3
      <3> QED BY <3>2, <3>4
    <2>8. ASSUME phase # "ended"
          PROVE  /\ \A x \in Seen : x \in snap /\ Good(x)
                 /\ \A x \in snap : Rank(x) \div d = q /\ Good(x) => x \in Seen
      <3>1. /\ Seen = {x \in snap : pos # NoKey => Ser(x) < Ser(pos)}
            /\ Seen \intersect Undecodable = {}
        BY <2>3, <2>4, <2>5, <2>8 DEF IterInv, SeenSoFar
      <3>2. \A x \in Seen : x \in snap /\ Good(x)
        <4> TAKE x \in Seen
        <4>1. x \in snap
          BY <3>1
        <4>2. ASSUME NEW y \in snap, Ser(y) \leq Ser(x) PROVE y \notin Undecodable
          <5>1. pos # NoKey => Ser(y) < Ser(pos)
            BY <4>1, <4>2, <3>1, <2>3
          <5> QED BY <5>1, <3>1
        <4> QED BY <4>1, <4>2
      <3>3. ASSUME NEW x \in snap, Rank(x) \div d = q PROVE x \in Seen
        <4> SUFFICES ASSUME x \notin Seen PROVE FALSE
          OBVIOUS
        <4>1. pos \in snap /\ Ser(pos) \leq Ser(x) /\ Rank(pos) = n
          BY <3>1, <2>1, <2>3, <2>8
        <4>2. n \leq Rank(x)
          BY <4>1, <2>3, RankIsMonotone
        <4>3. Rank(x) \in Nat
          BY <2>3, BelowIsFinite
        <4>4. Rank(x) < q * d + d
          BY <3>3, <4>3, <2>2, DivIs
        <4>5. n = q * d + d
          BY <2>2, <2>8 DEF PageRead
        <4> QED BY <4>2, <4>3, <4>4, <4>5, <2>3
      <3> HIDE DEF Good
      <3> QED BY <3>2, <3>3
    <2>9. /\ \A x \in Seen : x \in snap /\ Good(x)
          /\ \A x \in snap : Rank(x) \div d = q /\ Good(x) => x \in Seen
      BY <2>7, <2>8
    <2>10. ASSUME NEW i \in 1..n PROVE i > Skipped <=> Rank(yielded[i]) \div d = q
      <3>1. i - 1 \in Nat /\ Rank(yielded[i]) = i - 1
        BY <2>1, <2>3
      <3>2. (i - 1) \div d = q <=> q * d \leq i - 1 /\ i - 1 < q * d + d
        BY <3>1, <2>2, DivIs
      <3>3. q * d \in Nat /\ i \leq q * d + d
        BY <2>1, <2>2, <2>3
      <3> QED BY <3>1, <3>2, <3>3, <2>2
    <2>11. Page = {yielded[i] : i \in {j \in 1..n : j > Skipped}}
           /\ Seen = {yielded[i] : i \in 1..n}
      BY <2>3 DEF Page, Seen
    <2> HIDE DEF Good, n, d, q
    <2>12. Page = {x \in snap : Rank(x) \div d = q /\ Good(x)}
      BY <2>9, <2>10, <2>11
    <2>13. \A x : Rank(x) = Cardinality({y \in sec : Ser(y) < Ser(x)})
      BY <2>1 DEF Rank
    <2> QED BY <2>1, <2>12, <2>13 DEF Good, d, q
  <1> QED BY <1>1, IterInvariance, JobInvariance, PTL
=============================================================================
