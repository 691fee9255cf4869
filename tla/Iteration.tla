------------------------------ MODULE Iteration -----------------------------
(***************************************************************************)
(* Iterators over a column family (crates/typed-store/src/rocks/iter.rs,     *)
(* keys.rs, values.rs).  RocksDB orders entries by the bytes of their keys,   *)
(* which be_fix_int_ser makes from the typed key; an iterator reads the        *)
(* column family as it was when the iterator was made, and an entry that does  *)
(* not decode makes next return None.                                          *)
(*                                                                            *)
(* The read-only handle that DBMapUtils derives for a struct of tables        *)
(* (typed-store-derive/src/lib.rs) opens the database as a secondary, whose    *)
(* contents are the primary's as of the last catch-up, and dumps a page of a    *)
(* table or counts its keys by reading such an iterator.                       *)
(*                                                                            *)
(* Keys are the integers of a type of the given width, signed if some are      *)
(* negative.                                                                   *)
(***************************************************************************)
EXTENDS Integers, Sequences, FiniteSets

CONSTANTS IntKeys,      \* the typed keys
          Modulus,      \* 2^w for keys of w bits
          BadKeys,      \* the entries whose key does not decode
          BadValues,    \* the entries whose value does not decode
          NoKey,        \* the raw iterator is not valid
          PageSizes,    \* page sizes that dump is called with
          PageNumbers,  \* page numbers that dump is called with
          NoJob, NoReader

ASSUME IterationAssumption ==
    /\ Modulus \in Nat \ {0}
    /\ IntKeys \subseteq (-Modulus)..(Modulus - 1)
    /\ \A j, k \in IntKeys : j % Modulus = k % Modulus => j = k
    /\ BadKeys \subseteq IntKeys /\ BadValues \subseteq IntKeys
    /\ NoKey \notin IntKeys /\ \A S \in SUBSET IntKeys : NoReader # S
    /\ PageSizes \subseteq Nat \ {0} /\ PageNumbers \subseteq Nat

VARIABLES
    db,       \* the keys present in the column family
    kind,     \* of the iterator: "iter", "keys" or "values"
    snap,     \* those the iterator sees
    pos,      \* the entry the raw iterator is on
    dir,      \* "forward" or "reverse"
    origin,   \* history: how the iterator was positioned last
    phase,    \* "none", "made", "reading", or "ended" (next returned None)
    yielded,  \* history: the keys of the entries that next returned
    sec,      \* the keys a read-only handle has caught up to, or NoReader
    job       \* the dump or count that reads the iterator, or NoJob

iterVars == <<kind, snap, pos, dir, origin, phase, yielded>>
vars == <<db, iterVars, sec, job>>

\* be_fix_int_ser: a fixed number of bytes, big endian, a negative number in
\* two's complement.  Bytes are compared as unsigned numbers are.
Ser(k) == k % Modulus

\* What seek_to_first, seek_to_last, seek and seek_for_prev land on.
First(S) ==
    IF S = {} THEN NoKey ELSE CHOOSE x \in S : \A y \in S : Ser(x) \leq Ser(y)
Last(S) ==
    IF S = {} THEN NoKey ELSE CHOOSE x \in S : \A y \in S : Ser(y) \leq Ser(x)
Seek(S, k) == First({x \in S : Ser(x) \geq Ser(k)})
SeekForPrev(S, k) == Last({x \in S : Ser(x) \leq Ser(k)})

Init ==
    /\ db \in SUBSET IntKeys
    /\ kind = "iter"
    /\ snap = {}
    /\ pos = NoKey
    /\ dir = "forward"
    /\ origin = [how |-> "first", key |-> NoKey]
    /\ phase = "none"
    /\ yielded = <<>>
    /\ sec = NoReader
    /\ job = NoJob

\* Somebody inserts or removes an entry.
Write(k) ==
    /\ db' = IF k \in db THEN db \ {k} ELSE db \cup {k}
    /\ UNCHANGED <<iterVars, sec, job>>

\* An iterator, its raw iterator on the first entry of the given contents.
MadeOn(kd, contents) ==
    /\ phase = "none"
    /\ kind' = kd
    /\ snap' = contents
    /\ pos' = First(contents)
    /\ dir' = "forward"
    /\ origin' = [how |-> "first", key |-> NoKey]
    /\ phase' = "made"
    /\ yielded' = <<>>

\* iter(), keys() and values().
Iter(kd) ==
    /\ job = NoJob
    /\ MadeOn(kd, db)
    /\ UNCHANGED <<db, sec, job>>

\* The skip methods take the iterator and give it back, on another entry; they
\* may be called before, during or after a loop.  Values has none of them.
Reposition(how, k, to) ==
    /\ phase # "none"
    /\ job = NoJob
    /\ kind # "values"
    /\ dir = "forward"
    /\ pos' = to
    /\ origin' = [how |-> how, key |-> k]
    /\ phase' = "made"
    /\ yielded' = <<>>
    /\ UNCHANGED <<db, kind, snap, dir, sec, job>>

SkipTo(k) == Reposition("to", k, Seek(snap, k))

SkipPriorTo(k) == Reposition("prior", k, SeekForPrev(snap, k))

SkipToLast == Reposition("last", NoKey, Last(snap))

\* Iter::reverse(): the entries are read backwards, from the same entry on.  A
\* RevIter has no skip methods.
Reverse ==
    /\ phase # "none"
    /\ job = NoJob
    /\ kind = "iter"
    /\ dir = "forward"
    /\ dir' = "reverse"
    /\ origin' = IF phase = "made" THEN origin ELSE [how |-> "at", key |-> pos]
    /\ phase' = "made"
    /\ yielded' = <<>>
    /\ UNCHANGED <<db, kind, snap, pos, sec, job>>

\* The entry after pos in the direction of the iterator.
Advanced ==
    IF dir = "forward" THEN First({x \in snap : Ser(x) > Ser(pos)})
    ELSE Last({x \in snap : Ser(x) < Ser(pos)})

\* Mutant of Skipped: the page number counts entries.
Skipped_Number == job.number

\* A dump reads the entries of the pages before its own, which it passes over,
\* and its own; a count reads all there are.
Skipped == job.number * job.size
PageRead == job # NoJob /\ job.op = "dump" /\ Len(yielded) = Skipped + job.size

\* The entries that make next return None: Keys decodes the keys only, Values the
\* values only, Iter both.
FailingKeys == IF kind = "values" THEN {} ELSE BadKeys
FailingValues == IF kind = "keys" THEN {} ELSE BadValues
Undecodable == FailingKeys \cup FailingValues

\* Mutant of NextItem: it passes over an entry that does not decode.
NextItem_PassesOver ==
    /\ phase \in {"made", "reading"}
    /\ ~PageRead
    /\ IF pos = NoKey THEN phase' = "ended" /\ UNCHANGED <<pos, yielded>>
       ELSE /\ pos' = Advanced
            /\ phase' = "reading"
            /\ yielded' = IF pos \in Undecodable THEN yielded ELSE Append(yielded, pos)
    /\ UNCHANGED <<db, kind, snap, dir, origin, sec, job>>

\* next(): the entry under the raw iterator, which then moves on; None at the
\* end, and at an entry that does not decode.
NextItem ==
    /\ phase \in {"made", "reading"}
    /\ ~PageRead
    /\ IF pos = NoKey THEN phase' = "ended" /\ UNCHANGED <<pos, yielded>>
       ELSE /\ pos' = Advanced
            /\ IF pos \in Undecodable
               THEN phase' = "ended" /\ UNCHANGED yielded
               ELSE phase' = "reading" /\ yielded' = Append(yielded, pos)
    /\ UNCHANGED <<db, kind, snap, dir, origin, sec, job>>

\* The iterator is dropped; with it, a dump or count returns.
Drop ==
    /\ phase # "none"
    /\ phase' = "none"
    /\ snap' = {}
    /\ pos' = NoKey
    /\ yielded' = <<>>
    /\ job' = NoJob
    /\ UNCHANGED <<db, kind, dir, origin, sec>>

-----------------------------------------------------------------------------
(* The read-only handle.                                                     *)

\* open_cf_opts_secondary, try_catch_up_with_primary: the secondary has what the
\* primary has now.
CaughtUp == db

\* get_read_only_handle: the database is opened as a secondary.
OpenReadOnly ==
    /\ sec = NoReader
    /\ sec' = CaughtUp
    /\ UNCHANGED <<db, iterVars, job>>

\* dump and count_keys first catch up with the primary ...
StartJob(j) ==
    /\ sec # NoReader
    /\ job = NoJob
    /\ phase = "none"
    /\ sec' = CaughtUp
    /\ job' = j
    /\ UNCHANGED <<db, iterVars>>

Dump(size, number) == StartJob([op |-> "dump", size |-> size, number |-> number])
CountKeys == StartJob([op |-> "count"])

\* ... and then iterate over what they caught up to.
JobIterates ==
    /\ job # NoJob
    /\ MadeOn("iter", sec)
    /\ UNCHANGED <<db, sec, job>>

Next ==
    \/ OpenReadOnly \/ CountKeys \/ JobIterates
    \/ \E size \in PageSizes, number \in PageNumbers : Dump(size, number)
    \/ \E kd \in {"iter", "keys", "values"} : Iter(kd)
    \/ SkipToLast \/ Reverse \/ NextItem \/ Drop
    \/ \E k \in IntKeys : Write(k) \/ SkipTo(k) \/ SkipPriorTo(k)

Spec == Init /\ [][Next]_vars

-----------------------------------------------------------------------------
(* Properties.                                                               *)

\* Is x read before y?
InOrder(x, y) == IF dir = "forward" THEN x < y ELSE x > y

\* Is y the entry the iterator starts on?  What the positioning methods say in
\* terms of the keys, independently of how the seeks find it: skip_to "skips all
\* the elements that are smaller than the given key", skip_prior_to moves to the
\* given key "or the one prior to it", skip_to_last to "the last key".
StartsOn(y) ==
    /\ origin.how = "first" => \A z \in snap : y \leq z
    /\ origin.how = "last" => \A z \in snap : y \geq z
    /\ origin.how = "to" => y \geq origin.key
                              /\ \A z \in snap : z \geq origin.key => y \leq z
    /\ origin.how = "prior" => y \leq origin.key
                                 /\ \A z \in snap : z \leq origin.key => y \geq z

\* The entries from the one the iterator starts on.
Remaining == {x \in snap : \E y \in snap : StartsOn(y) /\ ~InOrder(x, y)}

\* The keys the iterator sees, and the one it was positioned with, are all
\* negative or none is.
OneSign ==
    LET ks == snap \cup ({origin.key} \ {NoKey})
    IN (\A k \in ks : k \geq 0) \/ (\A k \in ks : k < 0)

\* Not a RevIter that was made where nothing positioned it, which reads the first
\* entry only, nor one made in the middle of a loop, which reads back from there.
Positioned == origin.how # "at" /\ (dir = "reverse" => origin.how # "first")

\* A loop over an iterator sees, of the column family as it was when the
\* iterator was made, exactly the entries from the one the positioning methods
\* speak of, each once and in the order of the keys (backwards for a RevIter), up
\* to the first that does not decode, whoever writes meanwhile (iter.rs:46-112;
\* keys.rs, values.rs).  It is about keys of one sign: two's complement puts the
\* negative ones behind the others, where the comments at iter.rs:82-84 and
\* keys.rs:44-46 say otherwise.
YieldsTheRest ==
    OneSign /\ Positioned =>
        /\ \A i, j \in DOMAIN yielded : i < j => InOrder(yielded[i], yielded[j])
        /\ phase = "ended" =>
            {yielded[i] : i \in DOMAIN yielded} =
                {x \in Remaining \ Undecodable :
                    \A y \in Remaining \cap Undecodable : InOrder(x, y)}

\* The keys dump has collected: what it read after the entries it passed over.
Page == {yielded[i] : i \in {j \in DOMAIN yielded : j > Skipped}}

\* A dump returns the entries of its page, counting from the first key of the
\* table as it was when dump caught up, cut short by an entry that does not
\* decode; so pages dumped while nobody writes neither overlap nor leave an
\* entry out (derive/lib.rs:536-552).
DumpIsThePage ==
    (job # NoJob /\ job.op = "dump" /\ phase # "none" /\ (PageRead \/ phase = "ended")) =>
        Page = {x \in sec :
                    /\ Cardinality({y \in sec : Ser(y) < Ser(x)}) \div job.size = job.number
                    /\ \A y \in sec : Ser(y) \leq Ser(x) => y \notin Undecodable}
=============================================================================
