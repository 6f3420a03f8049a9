----------------------------- MODULE MCHashSet -----------------------------
(***************************************************************************)
(* Instances of HashSet for TLC.  The hash tables below give the keys      *)
(* chosen collisions: keys that share a bucket (and so overflow chains),   *)
(* keys that share a tophash (so lookups must compare keys), and keys that *)
(* split between the X and Y halves when the table doubles.                *)
(***************************************************************************)
EXTENDS HashSet, TLC

\* One cell per bucket, up to 8 buckets (hash values 0..15).  Seed 0 puts
\* keys 1, 2, 3 in bucket 1 of a 4-bucket array; keys 1 and 2 share a tophash.
\* Seed 1 spreads them over buckets 2 and 3, and key 3 moves to Y on doubling.
HashGrow3 == [s \in {0, 1} |-> IF s = 0 THEN [k \in 0..3 |-> CASE k = 1 -> 1 [] k = 2 -> 5
                                                                  [] k = 3 -> 9 [] OTHER -> 0]
                                       ELSE [k \in 0..3 |-> CASE k = 1 -> 2 [] k = 2 -> 11
                                                                  [] k = 3 -> 6 [] OTHER -> 0]]

\* Two cells per bucket, up to 4 buckets (hash values 0..7).  Seed 0 puts
\* every key in bucket 0 of a 2-bucket array; seed 1 spreads them.
HashCells2 == [s \in {0, 1} |-> IF s = 0 THEN [k \in 0..4 |-> (2 * k) % 8]
                                        ELSE [k \in 0..4 |-> (3 * k) % 8]]

\* One cell per bucket, hash values 0..15.  Under a 4-bucket array seed s
\* puts keys 1 and 2 in bucket s and key 3 in bucket s + 2.  Filling bucket
\* s links an overflow bucket; emptying the set reseeds it, and the next
\* seed fills another bucket, so overflow buckets pile up below the load
\* factor until tooManyOverflowBuckets fires.
HashReseed == [s \in 0..3 |-> [k \in 0..3 |-> CASE k = 1 -> s [] k = 2 -> s + 4
                                               [] k = 3 -> 8 + ((s + 2) % 4) [] OTHER -> 0]]

\* One cell per bucket, 16 buckets (hash values 0..31).  Seed 0 puts every
\* key in bucket 0, keys 1 and 3 with one tophash; seed 1 puts keys 1 and 2
\* in bucket 3 and key 3 in bucket 0.
HashPrealloc == [s \in {0, 1} |-> IF s = 0 THEN [k \in 0..3 |-> IF k = 2 THEN 16 ELSE 0]
                                          ELSE [k \in 0..3 |-> CASE k = 1 -> 3 [] k = 2 -> 19
                                                                     [] OTHER -> 0]]

\* Programs that call insert, delete and clear on the main handle only.
MainOps == \E k \in Keys \cup NaNs : Insert(Main, k) \/ Delete(Main, k) \/ Clear(Main)
SpecMain == Init /\ [][MainOps]_vars

\* ... and clone the main handle into the others.
CloneOps == MainOps \/ \E dst \in Tables : Clone(Main, dst)
SpecClone == Init /\ [][CloneOps]_vars

\* Programs that write the main handle, then collect it into the other
\* handle with sets.Collect(sets.Elems(s)), as often as they like.
Coll == CHOOSE t \in Tables : t # Main
SpecCollect == Init /\ [][(itState = "idle" /\ MainOps) \/ CollectStart(Coll) \/ CollectStep(Coll)]_vars

\* sets.Collect(sets.Elems(s)) returns a set with exactly the elements of s:
\* the loop's inserts grow the new set from no buckets while the iterator
\* walks s, perhaps in the middle of a growth, in the same heap.
CollectCopies == itState = "done" => Contents(St, Coll) = Contents(St, Main)

\* ... and range over the main handle, breaking out or running to the end.
SpecIter == Init /\ [][MainOps \/ IterOps]_vars

\* ... that insert and clear, and range over the main handle.
SpecIterClear == Init /\ [][(\E k \in Keys \cup NaNs : Insert(Main, k)) \/ Clear(Main) \/ IterOps]_vars

\* ... with clear(s) called only while no range loop over s runs.
LoopOps == \E k \in Keys \cup NaNs : Insert(Main, k) \/ Delete(Main, k)
SpecIterNoClear == Init /\ [][LoopOps \/ (itState # "active" /\ Clear(Main)) \/ IterOps]_vars

\* The same program in which the range loop, once started, keeps going: the
\* loop statement runs setiternext again after each body, whatever calls the
\* body makes in between.  Writes and breaking out stay unforced.
\* ENABLED <<IterStep>>_vars: the loop is active and setiternext would end
\* it, move the iterator, or count a key produced again.
IterStepEnabled ==
  /\ itState = "active"
  /\ LET itr == IterNext(St, it, it.bucket, it.bptr, it.i, it.checkBucket)
     IN itr.key = NoKey \/ itr # it \/ yielded[itr.key] < 2

\* WF_vars(IterStep), with its ENABLED computed by IterStepEnabled (TLC's
\* own ENABLED re-evaluates IterNext's arguments at every recursion level).
LoopFairness == []<>~IterStepEnabled \/ []<><<IterStep>>_vars
SpecIterFair == SpecIter /\ LoopFairness

==============================================================================
