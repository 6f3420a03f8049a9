------------------------------ MODULE HashSet ------------------------------
(***************************************************************************)
(* The hash-table engine behind Wo's set type (src/runtime/set.go).        *)
(*                                                                         *)
(* A table (hset) owns an array of 2^B buckets; a bucket holds BucketCnt   *)
(* cells (a tophash byte and a key each) and a pointer to an overflow      *)
(* bucket.  Growth allocates a new array and moves ("evacuates") old       *)
(* buckets into it a few at a time, as a side effect of later writes.      *)
(* Iterators walk the array they saw at start and cooperate with growth.   *)
(*                                                                         *)
(* Memory is modelled as a heap of buckets addressed by pointers, so that  *)
(* an iterator holding a pointer into an array that the table has since    *)
(* dropped, cleared or unlinked sees exactly what the code would see.      *)
(* Every operation of the program is one atomic step: the engine is        *)
(* single-threaded and callers serialise their calls (spec section 5).     *)
(***************************************************************************)
EXTENDS Integers, SequencesExt

CONSTANTS
  Keys,            \* element values a program inserts (naturals)
  NaNs,            \* NaN values a program inserts: each equals nothing, itself included
  NaNHashes,       \* values t.Hasher may return for a NaN: a fresh random hash per call
  ZeroKey,         \* the zero value of the element type: what cleared key memory holds
  Seeds,           \* values rand() may return as a hash seed
  Hash,            \* Hash[seed][k]: t.Hasher(k, seed) keeping its low MaxB + 1 bits
  MaxB,            \* largest B the hash bits can address
  BucketCnt,       \* abi.MapBucketCount (8 in the build, scaled down for TLC)
  Hints,           \* size hints a program passes to make(set[E], hint)
  ElemHasPointers, \* t.Bucket.Pointers(): the element type holds pointers
  Fast32,          \* the element type is a 32-bit integer: delete and lookup go through set_fast32.go
  Tables,          \* set handles of the program
  Main,            \* the handle created at start, and the one the program ranges over
  BucketBytes,     \* t.BucketSize of the build: the bytes of one 8-cell bucket
  SizeClasses,     \* malloc size classes roundupsize may round an array up to
  NArrays,         \* bound: bucket arrays alive at once
  NOvf             \* bound: overflow buckets alive at once

ASSUME Keys \subseteq Nat /\ ZeroKey \in Nat
ASSUME BucketCnt \in {1, 2, 4, 8}
ASSUME MaxB \in 0..4
ASSUME Main \in Tables
ASSUME Fast32 \in BOOLEAN
\* NaNs exist only for float elements, which never take the uint32 fast path
ASSUME NaNs \subseteq Nat /\ NaNs \cap (Keys \cup {ZeroKey}) = {} /\ (Fast32 => NaNs = {})
ASSUME NaNHashes # {} /\ NaNHashes \subseteq 0..(2 * 2^MaxB - 1)

AllKeys == Keys \cup NaNs \cup {ZeroKey}
Slots   == 0..(BucketCnt - 1)
MaxSize == 2^MaxB

\* The buckets makeSetBucketArray allocates for 2^b: from b = 4 on, room for
\* 2^(b-4) overflow buckets more, rounded up to fill a malloc size class.
ArrayLen(b) ==
  LET n  == 2^b + (IF b >= 4 THEN 2^(b - 4) ELSE 0)
      up == Min({c \in SizeClasses : c >= BucketBytes * n})
  IN IF b >= 4 /\ up # BucketBytes * n THEN up \div BucketBytes ELSE n

ASSUME MaxB >= 4 => \E c \in SizeClasses : c >= BucketBytes * (2^MaxB + 2^(MaxB - 4))

\* bound: the buckets of the longest array, overflow buckets included
ArraySlots == ArrayLen(MaxB)

(* Tophash sentinels and the load factor (set.go lines 61-77).            *)
EmptyRest      == 0  \* this cell and every later cell of the chain is empty
EmptyOne       == 1  \* this cell is empty
EvacuatedX     == 2  \* key moved to the first half of the larger table
EvacuatedY     == 3  \* key moved to the second half
EvacuatedEmpty == 4  \* cell was empty when its bucket was evacuated
MinTopHash     == 5  \* smallest tophash of a full cell
LoadFactorDen  == 2
LoadFactorNum  == (LoadFactorDen * BucketCnt * 13) \div 16

NoKey   == -1          \* it.key == nil, setaccessK returning nil
NoCheck == -1          \* noCheck
Nil     == 0           \* a nil bucket-array pointer
NilPtr  == <<0, 0>>    \* a nil bucket pointer
NilCell == <<NilPtr, 0>>

ArrayIds == 1..NArrays
OvfIds   == 1..NOvf
(* A bucket pointer is <<array, index>> for a bucket of an array and        *)
(* <<0, o>> for an overflow bucket.                                        *)
Ptrs == (ArrayIds \X (0..(ArraySlots - 1))) \cup ({0} \X OvfIds)

\* bound: no overflow chain of distinct buckets is longer than this
ChainBound == Cardinality(Ptrs)

Bucket == [th : [Slots -> 0..(MinTopHash + 1)], key : [Slots -> AllKeys],
           next : Ptrs \cup {NilPtr}]
EmptyBucket == [th |-> [i \in Slots |-> EmptyRest], key |-> [i \in Slots |-> ZeroKey],
                next |-> NilPtr]

Flags == {"iterator", "oldIterator", "sameSizeGrow"}

VARIABLES
  h,          \* h[t]: the hset header of handle t
  heap,       \* heap[p]: the bucket at pointer p
  it,         \* the hsetiter of the range loop over Main
  itState,    \* "active" while a range loop runs, "done" after it ran out, else "idle"
  yielded,    \* history: yielded[k] = times the loop produced k since k was last removed
  mustYield,  \* history: keys present when the loop started and not removed since
  call,       \* history: the last call on a handle, [op, t, arg]
  growWrites  \* history: growWrites[t] = writes on t that did grow work since its growth began

vars == <<h, heap, it, itState, yielded, mustYield, call, growWrites>>

-----------------------------------------------------------------------------
(* Helpers of map.go that set.go calls (spec_modelled).                    *)

IsEmpty(x) == x <= EmptyOne

\* mutant: the tophash taken from the low bits of the hash
TopHashLowBits(hash) == IF hash < MinTopHash THEN hash + MinTopHash ELSE hash

\* tophash(): the top bits of the hash, moved above the sentinels
TopHash(hash) ==
  LET top == hash \div MaxSize
  IN IF top < MinTopHash THEN top + MinTopHash ELSE top

OverLoadFactor(count, B) ==
  count > BucketCnt /\ count > LoadFactorNum * (2^B \div LoadFactorDen)

TooManyOverflowBuckets(noverflow, B) ==
  noverflow >= 2^(IF B > 15 THEN 15 ELSE B)

-----------------------------------------------------------------------------
(* The heap.  A step works on a state record S = [h, heap, pin] where pin  *)
(* is the set of pointers the iterator holds; the helpers below return an  *)
(* updated S, and an action commits the final one.                         *)

RECURSIVE ChainUpTo(_, _, _)
\* the first n buckets of the overflow chain starting at p
ChainUpTo(hp, p, n) ==
  IF p = NilPtr \/ n = 0 THEN <<>> ELSE <<p>> \o ChainUpTo(hp, hp[p].next, n - 1)

\* the buckets of the overflow chain starting at p, the walk of every loop
\* `for ; b != nil; b = b.overflow(t)`; a chain that closed into a cycle
\* would never end, and is cut at ChainBound buckets
ChainFrom(hp, p) == ChainUpTo(hp, p, ChainBound)

\* the cells of a chain in scan order, as <<bucket, index>>
CellList(hp, p) ==
  LET c == ChainFrom(hp, p)
  IN [n \in 1..(Len(c) * BucketCnt) |-> <<c[(n - 1) \div BucketCnt + 1], (n - 1) % BucketCnt>>]

ThAt(hp, c)  == hp[c[1]].th[c[2]]
KeyAt(hp, c) == hp[c[1]].key[c[2]]

LiveArrays(S) ==
  ({S.h[t].buckets : t \in Tables} \cup {S.h[t].oldbuckets : t \in Tables}
     \cup {p[1] : p \in S.pin}) \ {Nil}

Reachable(S) ==
  UNION {Range(ChainFrom(S.heap, p)) :
           p \in (LiveArrays(S) \X (0..(ArraySlots - 1))) \cup S.pin}

FreeArray(S) == CHOOSE a \in ArrayIds : a \notin LiveArrays(S)

\* newarray / memclr of a bucket array: every bucket zeroed
ClearArray(hp, a) == [p \in DOMAIN hp |-> IF p[1] = a THEN EmptyBucket ELSE hp[p]]

\* evacuatedSet(b)
Evacuated(hp, p) == hp[p].th[0] > EmptyOne /\ hp[p].th[0] < MinTopHash

Growing(hh)      == hh.oldbuckets # Nil
SameSizeGrow(hh) == "sameSizeGrow" \in hh.flags
NOldBuckets(hh)  == 2^(IF SameSizeGrow(hh) THEN hh.B ELSE hh.B - 1)

\* makeSetBucketArray(t, b, a): array a zeroed (newarray, or the memclr of a
\* dirty array); when it has room for overflow buckets, the first of them
\* is the nextOverflow returned, and the last one's overflow pointer is set
\* to the array itself, a non-nil sentinel
MakeBucketArray(hp, b, a) ==
  LET n == ArrayLen(b)
  IN IF n = 2^b THEN [heap |-> ClearArray(hp, a), next |-> NilPtr]
     ELSE [heap |-> [ClearArray(hp, a) EXCEPT ![<<a, n - 1>>].next = <<a, 0>>],
           next |-> <<a, 2^b>>]

\* mutant: the last preallocated bucket is handed out with its sentinel
NewOverflowNoReset(S, t, b) ==
  LET nx == S.h[t].nextOverflow
      o  == IF nx # NilPtr THEN nx ELSE <<0, CHOOSE x \in OvfIds : <<0, x>> \notin Reachable(S)>>
      hp == IF nx # NilPtr THEN S.heap ELSE [S.heap EXCEPT ![o] = EmptyBucket]
      nx2 == IF nx # NilPtr /\ S.heap[nx].next = NilPtr THEN <<nx[1], nx[2] + 1>> ELSE NilPtr
  IN [S |-> [S EXCEPT !.heap = [hp EXCEPT ![b].next = o],
                      !.h[t].noverflow = @ + 1, !.h[t].nextOverflow = nx2],
      ovf |-> o]

\* h.newoverflow(t, b) with h.incrnoverflow(): link an empty bucket after b,
\* the next preallocated one while there is one, else a new object.  A
\* preallocated bucket whose overflow pointer is nil has a successor; the
\* last one has the sentinel, which is reset before the bucket is linked.
NewOverflow(S, t, b) ==
  LET nx == S.h[t].nextOverflow
      o  == IF nx # NilPtr THEN nx ELSE <<0, CHOOSE x \in OvfIds : <<0, x>> \notin Reachable(S)>>
      hp == IF nx # NilPtr THEN [S.heap EXCEPT ![o].next = NilPtr]
            ELSE [S.heap EXCEPT ![o] = EmptyBucket]
      nx2 == IF nx # NilPtr /\ S.heap[nx].next = NilPtr THEN <<nx[1], nx[2] + 1>> ELSE NilPtr
  IN [S |-> [S EXCEPT !.heap = [hp EXCEPT ![b].next = o],
                      !.h[t].noverflow = @ + 1, !.h[t].nextOverflow = nx2],
      ovf |-> o]

NewTable(B, buckets, seed) ==
  [nil |-> FALSE, count |-> 0, flags |-> {}, B |-> B, noverflow |-> 0, hash0 |-> seed,
   buckets |-> buckets, oldbuckets |-> Nil, nevacuate |-> 0, nextOverflow |-> NilPtr]

NilTable == [NewTable(0, Nil, 0) EXCEPT !.nil = TRUE]

\* makeset_small: make(set) with no hint, a header and no buckets yet
MakeSetSmall(S, t, seed) == [S EXCEPT !.h[t] = NewTable(0, Nil, seed)]

\* makeset(t, hint, nil): the smallest B that holds hint elements
MakeSet(S, t, hint, seed) ==
  LET B == Min({b \in 0..(MaxB + 1) : ~OverLoadFactor(hint, b)})
      a == FreeArray(S)
      R == MakeBucketArray(S.heap, B, a)
  IN IF B = 0 THEN [S EXCEPT !.h[t] = NewTable(0, Nil, seed)]
     ELSE [S EXCEPT !.heap = R.heap, !.h[t] = [NewTable(B, a, seed) EXCEPT !.nextOverflow = R.next]]

-----------------------------------------------------------------------------
(* Lookup.                                                                 *)

\* t.Hasher(k, h.hash0).  A NaN hashes to a fresh random value on every
\* call; S.r is the value the hasher returns for a NaN during this step.
KeyHash(S, t, k) == IF k \in NaNs THEN S.r ELSE Hash[S.h[t].hash0][k]

\* mutant: a match on the tophash alone, without comparing keys
ProbeTopOnly(hp, cl, k, top) ==
  LET hits == {n \in DOMAIN cl : /\ ThAt(hp, cl[n]) = top
                                 /\ \A m \in 1..(n - 1) : ThAt(hp, cl[m]) # EmptyRest}
  IN IF hits = {} THEN 0 ELSE Min(hits)

\* mutant: the scan stops at any empty cell, not only at EmptyRest
ProbeStopsAtEmpty(hp, cl, k, top) ==
  LET hits == {n \in DOMAIN cl : /\ ThAt(hp, cl[n]) = top
                                 /\ KeyAt(hp, cl[n]) = k
                                 /\ \A m \in 1..(n - 1) : ~IsEmpty(ThAt(hp, cl[m]))}
  IN IF hits = {} THEN 0 ELSE Min(hits)

\* Index in cl of the cell holding k, scanning in order and stopping at the
\* first EmptyRest; 0 when there is none.
Probe(hp, cl, k, top) ==
  LET hits == {n \in DOMAIN cl : /\ ThAt(hp, cl[n]) = top
                                 /\ KeyAt(hp, cl[n]) = k
                                 /\ \A m \in 1..(n - 1) : ThAt(hp, cl[m]) # EmptyRest}
  IN IF hits = {} THEN 0 ELSE Min(hits)

\* mutant: readers ignore the old buckets of a growth in progress
ReadBucketNewOnly(S, t, hash) == <<S.h[t].buckets, hash % 2^S.h[t].B>>

\* mutant: the old array is taken to be half as large in a same-size growth too
ReadBucketHalfMask(S, t, hash) ==
  LET hh   == S.h[t]
      oldb == <<hh.oldbuckets, hash % (2^hh.B \div 2)>>
  IN IF Growing(hh) /\ ~Evacuated(S.heap, oldb) THEN oldb ELSE <<hh.buckets, hash % 2^hh.B>>

\* The bucket a reader searches: the old one while it is not yet evacuated.
ReadBucket(S, t, hash) ==
  LET hh   == S.h[t]
      m    == 2^hh.B
      mo   == IF SameSizeGrow(hh) THEN m ELSE m \div 2
      oldb == <<hh.oldbuckets, hash % mo>>
  IN IF Growing(hh) /\ ~Evacuated(S.heap, oldb) THEN oldb ELSE <<hh.buckets, hash % m>>

\* setaccessK: the stored key equal to k, or NoKey
SetAccessK(S, t, k) ==
  IF S.h[t].count = 0 THEN NoKey
  ELSE LET hash == KeyHash(S, t, k)
           cl   == CellList(S.heap, ReadBucket(S, t, hash))
           n    == Probe(S.heap, cl, k, TopHash(hash))
       IN IF n = 0 THEN NoKey ELSE KeyAt(S.heap, cl[n])

\* setaccess2: is k in the set?
SetAccess2(S, t, k) ==
  /\ S.h[t].count # 0
  /\ LET hash == KeyHash(S, t, k)
     IN Probe(S.heap, CellList(S.heap, ReadBucket(S, t, hash)), k, TopHash(hash)) # 0

-----------------------------------------------------------------------------
(* Growth and evacuation.                                                  *)

\* advanceEvacuationMarkSet: step nevacuate past evacuated buckets; when it
\* reaches the old array's length the growth is over.
AdvanceEvacuationMark(S, t, newbit) ==
  LET hh   == S.h[t]
      n1   == hh.nevacuate + 1
      stop == IF n1 + 1024 > newbit THEN newbit ELSE n1 + 1024
      nv   == Min({m \in n1..stop : m = stop \/ ~Evacuated(S.heap, <<hh.oldbuckets, m>>)})
      done == nv = newbit
  IN [S EXCEPT !.h[t].nevacuate  = nv,
               !.h[t].oldbuckets = IF done THEN Nil ELSE @,
               !.h[t].flags      = IF done THEN @ \ {"sameSizeGrow"} ELSE @]

\* mutant: a NaN's half is drawn from its hash even while an iterator runs
EvacDestHashOnly(S, t, k, top, newbit) ==
  [y   |-> IF ~SameSizeGrow(S.h[t]) /\ (KeyHash(S, t, k) \div newbit) % 2 = 1 THEN 1 ELSE 0,
   top |-> top]

\* evacuateSet's decision for key k with tophash top: y = 1 sends it to the
\* Y half, and top is the tophash it is stored with.  While an iterator may
\* run, a NaN follows the low bit of its tophash, the bit setiternext
\* filters on, and takes a fresh random tophash for the next growth.
EvacDest(S, t, k, top, newbit) ==
  LET hh  == S.h[t]
      nan == k \in NaNs /\ "iterator" \in hh.flags
  IN CASE SameSizeGrow(hh) -> [y |-> 0, top |-> top]
       [] nan              -> [y |-> top % 2, top |-> TopHash(S.r)]
       [] OTHER            -> [y |-> (KeyHash(S, t, k) \div newbit) % 2, top |-> top]

RECURSIVE EvacCells(_, _, _, _, _, _)
\* The loop of evacuateSet over the old chain's cells cl, from cell n on;
\* xy[1], xy[2] are the X and Y destinations [b |-> bucket, i |-> next cell].
EvacCells(S, t, cl, n, xy, newbit) ==
  IF n > Len(cl) THEN S
  ELSE
    LET c   == cl[n]
        top == ThAt(S.heap, c)
        k   == KeyAt(S.heap, c)
        hh  == S.h[t]
    IN IF IsEmpty(top)
       THEN EvacCells([S EXCEPT !.heap[c[1]].th[c[2]] = EvacuatedEmpty], t, cl, n + 1, xy, newbit)
       ELSE
         LET d    == EvacDest(S, t, k, top, newbit)
             useY == d.y
             S1   == [S EXCEPT !.heap[c[1]].th[c[2]] = EvacuatedX + useY]
             dst  == xy[useY + 1]
             full == dst.i = BucketCnt
             R    == NewOverflow(S1, t, dst.b)
             S2   == IF full THEN R.S ELSE S1
             db   == IF full THEN R.ovf ELSE dst.b
             di   == IF full THEN 0 ELSE dst.i
             S3   == [S2 EXCEPT !.heap[db].th[di] = d.top, !.heap[db].key[di] = k]
         IN EvacCells(S3, t, cl, n + 1, [xy EXCEPT ![useY + 1] = [b |-> db, i |-> di + 1]], newbit)

\* mutant: the old bucket is freed even when an iterator may still walk it
MayFreeOldAlways(hh) == ElemHasPointers

\* no iterator can be walking the old buckets and the keys hold pointers
MayFreeOld(hh) == "oldIterator" \notin hh.flags /\ ElemHasPointers

\* the end of evacuateSet's work on a bucket: unlink the overflow chain and
\* clear the keys, keeping the tophash marks, when no iterator may walk it
EvacFree(S, hh, b) ==
  IF MayFreeOld(hh)
  THEN [S EXCEPT !.heap[b].key = [i \in Slots |-> ZeroKey], !.heap[b].next = NilPtr]
  ELSE S

\* the tail of evacuateSet: advance the mark when oldbucket is the next one due
EvacMark(S, t, oldbucket, newbit) ==
  IF oldbucket = S.h[t].nevacuate THEN AdvanceEvacuationMark(S, t, newbit) ELSE S

\* evacuateSet(t, h, oldbucket)
Evacuate(S, t, oldbucket) ==
  LET hh     == S.h[t]
      b      == <<hh.oldbuckets, oldbucket>>
      newbit == NOldBuckets(hh)
      xy     == << [b |-> <<hh.buckets, oldbucket>>, i |-> 0],
                  [b |-> <<hh.buckets, oldbucket + newbit>>, i |-> 0] >>
  IN EvacMark(IF Evacuated(S.heap, b) THEN S
              ELSE EvacFree(EvacCells(S, t, CellList(S.heap, b), 1, xy, newbit), hh, b),
              t, oldbucket, newbit)

\* mutant: grow work only advances the evacuation mark
GrowWorkMarkOnly(S, t, bucket) == Evacuate(S, t, S.h[t].nevacuate)

\* the second half of growWorkSet: one more old bucket, if still growing
\* mutant: grow work evacuates only the bucket the write is about to use
GrowWorkNextSkip(S, t) == S

GrowWorkNext(S, t) == IF Growing(S.h[t]) THEN Evacuate(S, t, S.h[t].nevacuate) ELSE S

\* growWorkSet: evacuate the old bucket behind `bucket`, then one more
GrowWork(S, t, bucket) == GrowWorkNext(Evacuate(S, t, bucket % NOldBuckets(S.h[t])), t)

\* mutant: a same-size growth that does not set the sameSizeGrow flag
HashGrowNoFlag(S, t) ==
  LET hh     == S.h[t]
      bigger == IF OverLoadFactor(hh.count + 1, hh.B) THEN 1 ELSE 0
      f2     == (hh.flags \ {"iterator", "oldIterator"})
                  \cup (IF "iterator" \in hh.flags THEN {"oldIterator"} ELSE {})
      a      == FreeArray(S)
      R      == MakeBucketArray(S.heap, hh.B + bigger, a)
  IN [S EXCEPT !.heap = R.heap,
               !.h[t] = [@ EXCEPT !.B = @ + bigger, !.flags = f2, !.oldbuckets = hh.buckets,
                                  !.buckets = a, !.nevacuate = 0, !.noverflow = 0,
                                  !.nextOverflow = IF R.next # NilPtr THEN R.next ELSE @]]

\* hashGrowSet: start a bigger or a same-size growth; h.extra.nextOverflow
\* changes only when the new array has overflow buckets of its own
HashGrow(S, t) ==
  LET hh     == S.h[t]
      bigger == IF OverLoadFactor(hh.count + 1, hh.B) THEN 1 ELSE 0
      f1     == IF bigger = 0 THEN hh.flags \cup {"sameSizeGrow"} ELSE hh.flags
      f2     == (f1 \ {"iterator", "oldIterator"})
                  \cup (IF "iterator" \in f1 THEN {"oldIterator"} ELSE {})
      a      == FreeArray(S)
      R      == MakeBucketArray(S.heap, hh.B + bigger, a)
  IN [S EXCEPT !.heap = R.heap,
               !.h[t] = [@ EXCEPT !.B = @ + bigger, !.flags = f2, !.oldbuckets = hh.buckets,
                                  !.buckets = a, !.nevacuate = 0, !.noverflow = 0,
                                  !.nextOverflow = IF R.next # NilPtr THEN R.next ELSE @]]

-----------------------------------------------------------------------------
(* Insert: setassign.                                                      *)

\* setassign's scan of bucket `bucket` for k and for the first empty cell
ScanBucket(S, t, k, hash, bucket) ==
  LET b     == <<S.h[t].buckets, bucket>>
      cl    == CellList(S.heap, b)
      free  == {n \in DOMAIN cl : /\ IsEmpty(ThAt(S.heap, cl[n]))
                                  /\ \A m \in 1..(n - 1) : ThAt(S.heap, cl[m]) # EmptyRest}
  IN [S     |-> S,
      found |-> Probe(S.heap, cl, k, TopHash(hash)) # 0,
      ins   |-> IF free = {} THEN NilCell ELSE cl[Min(free)],
      last  |-> Last(ChainFrom(S.heap, b))]

\* From the label again: of setassign: grow work, then the scan.
AssignScan(S, t, k, hash) ==
  LET bucket == hash % 2^S.h[t].B
  IN ScanBucket(IF Growing(S.h[t]) THEN GrowWork(S, t, bucket) ELSE S, t, k, hash, bucket)

\* mutant: the new key is stored without counting it
AssignStoreNoCount(A, t, k, hash) ==
  LET R  == NewOverflow(A.S, t, A.last)
      S1 == IF A.ins = NilCell THEN R.S ELSE A.S
      c  == IF A.ins = NilCell THEN <<R.ovf, 0>> ELSE A.ins
  IN [S1 EXCEPT !.heap[c[1]].key[c[2]] = k, !.heap[c[1]].th[c[2]] = TopHash(hash)]

\* store k in the free cell found, or in a new overflow bucket
AssignStore(A, t, k, hash) ==
  LET R  == NewOverflow(A.S, t, A.last)
      S1 == IF A.ins = NilCell THEN R.S ELSE A.S
      c  == IF A.ins = NilCell THEN <<R.ovf, 0>> ELSE A.ins
  IN [S1 EXCEPT !.heap[c[1]].key[c[2]] = k,
                !.heap[c[1]].th[c[2]]  = TopHash(hash),
                !.h[t].count = @ + 1]

\* A new key in a table not growing that is over its load factor or has
\* too many overflow buckets starts a growth, and the scan runs again.
AssignGrow(A, t, k, hash) ==
  LET hh == A.S.h[t]
  IN IF /\ ~A.found
        /\ ~Growing(hh)
        /\ OverLoadFactor(hh.count + 1, hh.B) \/ TooManyOverflowBuckets(hh.noverflow, hh.B)
     THEN AssignScan(HashGrow(A.S, t), t, k, hash)
     ELSE A

\* a key already present is left as it is; a new one is stored
AssignDone(A, t, k, hash) == IF A.found THEN A.S ELSE AssignStore(A, t, k, hash)

SetAssign(S, t, k) ==
  LET hash == KeyHash(S, t, k)
      a    == FreeArray(S)
      S1   == IF S.h[t].buckets = Nil
              THEN [S EXCEPT !.heap = ClearArray(@, a), !.h[t].buckets = a]
              ELSE S
  IN AssignDone(AssignGrow(AssignScan(S1, t, k, hash), t, k, hash), t, k, hash)

-----------------------------------------------------------------------------
(* Delete and clear.                                                       *)

\* set the tophash of every cell in cells to v
SetCells(hp, cells, v) ==
  [p \in DOMAIN hp |->
     [hp[p] EXCEPT !.th = [i \in Slots |-> IF <<p, i>> \in cells THEN v ELSE @[i]]]]

\* mutant: the EmptyRest cascade runs even when a later cell is in use
DeleteMarkAlways(hp, cl, n) ==
  LET lo == Max({0} \cup {m \in 1..(n - 1) : ThAt(hp, cl[m]) # EmptyOne})
  IN SetCells(hp, {cl[m] : m \in (lo + 1)..n}, EmptyRest)

\* After setdelete empties cell n of the chain cl: if no later cell is in
\* use, turn the run of EmptyOne cells ending at n into EmptyRest.
DeleteMark(hp, cl, n) ==
  LET notLast == n < Len(cl) /\ ThAt(hp, cl[n + 1]) # EmptyRest
      lo      == Max({0} \cup {m \in 1..(n - 1) : ThAt(hp, cl[m]) # EmptyOne})
  IN IF notLast THEN hp ELSE SetCells(hp, {cl[m] : m \in (lo + 1)..n}, EmptyRest)

\* setdelete after its grow work: find k in bucket `bucket` and empty its cell
DeleteKey(S, t, k, seed, hash, bucket) ==
  LET cl  == CellList(S.heap, <<S.h[t].buckets, bucket>>)
      n   == Probe(S.heap, cl, k, TopHash(hash))
      c   == cl[n]
      cnt == S.h[t].count - 1
  IN IF n = 0 THEN S
     ELSE [S EXCEPT !.heap = DeleteMark([@ EXCEPT ![c[1]].key[c[2]] = IF ElemHasPointers
                                                                  THEN ZeroKey ELSE @,
                                                ![c[1]].th[c[2]] = EmptyOne], cl, n),
                    !.h[t].count = cnt, !.h[t].hash0 = IF cnt = 0 THEN seed ELSE @]

\* setdelete; seed is what rand() returns if the set becomes empty
SetDelete(S, t, k, seed) ==
  IF S.h[t].count = 0 THEN S
  ELSE
    LET hash   == KeyHash(S, t, k)
        bucket == hash % 2^S.h[t].B
    IN DeleteKey(IF Growing(S.h[t]) THEN GrowWork(S, t, bucket) ELSE S, t, k, seed, hash, bucket)

-----------------------------------------------------------------------------
(* The uint32 fast path (set_fast32.go).  Its loops compare the stored     *)
(* key itself, with no tophash test and no stop at EmptyRest, and skip     *)
(* cells whose tophash is empty.                                           *)

\* evacuateSet_fast32: evacuateSet with the key copied as a uint32; a
\* uint32 equals itself, so the x/y choice is the hash's newbit alone
EvacuateFast32(S, t, oldbucket) == Evacuate(S, t, oldbucket)

\* mutant: the fast loops take a stale key in an emptied cell for a live one
Fast32HitsNoEmptyCheck(hp, cl, k) == {n \in DOMAIN cl : KeyAt(hp, cl[n]) = k}

\* the cells of chain cl the fast loops stop at when looking for k
Fast32Hits(hp, cl, k) == {n \in DOMAIN cl : KeyAt(hp, cl[n]) = k /\ ~IsEmpty(ThAt(hp, cl[n]))}

\* mutant: the fast lookup reads the new bucket only, as for a one-bucket table
SetAccess2Fast32NewOnly(S, t, k) ==
  LET hh == S.h[t]
  IN hh.count # 0 /\ Fast32Hits(S.heap, CellList(S.heap, <<hh.buckets, Hash[hh.hash0][k] % 2^hh.B>>), k) # {}

\* setaccess2_fast32: a one-bucket table is read without hashing or looking
\* at old buckets
SetAccess2Fast32(S, t, k) ==
  LET hh == S.h[t]
      b  == IF hh.B = 0 THEN <<hh.buckets, 0>> ELSE ReadBucket(S, t, Hash[hh.hash0][k])
  IN hh.count # 0 /\ Fast32Hits(S.heap, CellList(S.heap, b), k) # {}

\* mutant: the fast grow work evacuates only the bucket about to be used
GrowWorkFast32OwnOnly(S, t, bucket) == EvacuateFast32(S, t, bucket % NOldBuckets(S.h[t]))

\* growWorkSet_fast32
GrowWorkFast32(S, t, bucket) == GrowWorkNext(EvacuateFast32(S, t, bucket % NOldBuckets(S.h[t])), t)

\* setdelete_fast32's search loop: the key of a 64-bit build is never
\* cleared (goarch.PtrSize == 4 is false), only its tophash
DeleteKeyFast32(S, t, k, seed, bucket) ==
  LET cl   == CellList(S.heap, <<S.h[t].buckets, bucket>>)
      hits == Fast32Hits(S.heap, cl, k)
      n    == Min(hits)
      c    == cl[n]
      cnt  == S.h[t].count - 1
  IN IF hits = {} THEN S
     ELSE [S EXCEPT !.heap = DeleteMark([@ EXCEPT ![c[1]].th[c[2]] = EmptyOne], cl, n),
                    !.h[t].count = cnt, !.h[t].hash0 = IF cnt = 0 THEN seed ELSE @]

\* setdelete_fast32
SetDeleteFast32(S, t, k, seed) ==
  IF S.h[t].count = 0 THEN S
  ELSE
    LET bucket == Hash[S.h[t].hash0][k] % 2^S.h[t].B
    IN DeleteKeyFast32(IF Growing(S.h[t]) THEN GrowWorkFast32(S, t, bucket) ELSE S,
                       t, k, seed, bucket)

\* the lookup and delete the compiler picks for the element type
Access2(S, t, k)          == IF Fast32 THEN SetAccess2Fast32(S, t, k) ELSE SetAccess2(S, t, k)
Deleted(S, t, k, seed)    == IF Fast32 THEN SetDeleteFast32(S, t, k, seed) ELSE SetDelete(S, t, k, seed)

-----------------------------------------------------------------------------
\* mutant: setclear leaves the old buckets of a growth unmarked
SetClearNoOldMark(S, t, seed) ==
  IF S.h[t].count = 0 THEN S
  ELSE
    LET hh        == S.h[t]
        ArrayCells(a, n) == UNION {Range(ChainFrom(S.heap, <<a, j>>)) : j \in 0..(n - 1)}
        marked    == ArrayCells(hh.buckets, 2^hh.B)
        hp1       == SetCells(S.heap, marked \X Slots, EmptyRest)
        R         == MakeBucketArray(hp1, hh.B, hh.buckets)
    IN [S EXCEPT !.heap = R.heap,
                 !.h[t] = [@ EXCEPT !.flags = @ \ {"sameSizeGrow"}, !.oldbuckets = Nil,
                                    !.nevacuate = 0, !.noverflow = 0, !.count = 0,
                                    !.hash0 = seed, !.nextOverflow = R.next]]

\* setclear
SetClear(S, t, seed) ==
  IF S.h[t].count = 0 THEN S
  ELSE
    LET hh        == S.h[t]
        ArrayCells(a, n) == UNION {Range(ChainFrom(S.heap, <<a, j>>)) : j \in 0..(n - 1)}
        marked    == ArrayCells(hh.buckets, 2^hh.B)
                       \cup (IF Growing(hh) THEN ArrayCells(hh.oldbuckets, NOldBuckets(hh)) ELSE {})
        hp1       == SetCells(S.heap, marked \X Slots, EmptyRest)
        \* *h.extra = setextra{}, then the array is cleared in place and
        \* its overflow buckets handed out again from the first
        R         == MakeBucketArray(hp1, hh.B, hh.buckets)
    IN [S EXCEPT !.heap = R.heap,
                 !.h[t] = [@ EXCEPT !.flags = @ \ {"sameSizeGrow"}, !.oldbuckets = Nil,
                                    !.nevacuate = 0, !.noverflow = 0, !.count = 0,
                                    !.hash0 = seed, !.nextOverflow = R.next]]

-----------------------------------------------------------------------------
(* Clone: setclone2 and moveToBset.                                        *)

RECURSIVE MoveCells(_, _, _, _, _, _)
\* moveToBset from cell i of src on: each full cell goes to the first empty
\* cell of dst at or after pos, a new overflow bucket when dst is full.
MoveCells(S, t, dst, pos, src, i) ==
  IF i = BucketCnt THEN [S |-> S, dst |-> dst, pos |-> pos]
  ELSE IF IsEmpty(S.heap[src].th[i]) THEN MoveCells(S, t, dst, pos, src, i + 1)
  ELSE
    LET free == {q \in pos..(BucketCnt - 1) : IsEmpty(S.heap[dst].th[q])}
        R    == NewOverflow(S, t, dst)
        S1   == IF free = {} THEN R.S ELSE S
        d1   == IF free = {} THEN R.ovf ELSE dst
        q    == IF free = {} THEN 0 ELSE Min(free)
        S2   == [S1 EXCEPT !.heap[d1].th[q]  = S.heap[src].th[i],
                           !.heap[d1].key[q] = S.heap[src].key[i],
                           !.h[t].count = @ + 1]
    IN MoveCells(S2, t, d1, q + 1, src, i + 1)

RECURSIVE MoveChain(_, _, _, _, _)
\* moveToBset over a list of source buckets, carrying dst and pos along
MoveChain(S, t, dst, pos, srcs) ==
  IF srcs = <<>> THEN [S |-> S, dst |-> dst, pos |-> pos]
  ELSE LET R == MoveCells(S, t, dst, pos, Head(srcs), 0)
       IN MoveChain(R.S, t, R.dst, R.pos, Tail(srcs))

\* the buckets of the chains of array a at indexes first, first + step, ... below n
RECURSIVE Chains(_, _, _, _, _)
Chains(hp, a, first, step, n) ==
  IF first >= n THEN <<>>
  ELSE ChainFrom(hp, <<a, first>>) \o Chains(hp, a, first + step, step, n)

RECURSIVE CloneCurrent(_, _, _, _)
\* the loop over destination buckets i of setclone2
CloneCurrent(S, t, hs, i) ==
  LET dsize == 2^S.h[t].B
  IN IF i = dsize THEN S
     ELSE LET R == MoveChain(S, t, <<S.h[t].buckets, i>>, 0,
                             Chains(S.heap, hs.buckets, i, dsize, 2^hs.B))
          IN CloneCurrent(R.S, t, hs, i + 1)

RECURSIVE CloneOld(_, _, _, _, _)
\* the loop of setclone2 over the source's old buckets not yet evacuated
CloneOld(S, t, hs, oldB, i) ==
  IF i = 2^oldB THEN S
  ELSE
    LET old   == <<hs.oldbuckets, i>>
        dB    == S.h[t].B
        chain == ChainFrom(S.heap, <<S.h[t].buckets, i % 2^dB>>)
        R     == MoveChain(S, t, Last(chain), 0, ChainFrom(S.heap, old))
    IN IF Evacuated(S.heap, old) THEN CloneOld(S, t, hs, oldB, i + 1)
       ELSE IF oldB >= dB THEN CloneOld(R.S, t, hs, oldB, i + 1)
       \* oldB < dst.B: the cells are visited and nothing is stored
       ELSE CloneOld(S, t, hs, oldB, i + 1)

\* mutant: the quick copy hands the clone the source's bucket itself
CloneFlatShared(S1, hs, dst, a) ==
  [S1 EXCEPT !.h[dst].buckets = hs.buckets, !.h[dst].count = hs.count]

\* setclone2's quick copy of a one-bucket source into the new bucket a:
\* typedmemmove copies the whole bucket, its overflow pointer included
CloneFlat(S1, hs, dst, a) ==
  [S1 EXCEPT !.heap = [ClearArray(@, a) EXCEPT ![<<a, 0>>] = S1.heap[<<hs.buckets, 0>>]],
             !.h[dst].buckets = a, !.h[dst].count = hs.count]

\* setclone2(src) into handle dst; seed is makeset's rand()
SetClone(S, src, dst, seed) ==
  LET hs   == S.h[src]
      hint == IF OverLoadFactor(hs.count, hs.B)
              THEN LoadFactorNum * (2^hs.B \div LoadFactorDen) ELSE hs.count
      S1   == [MakeSet(S, dst, hint, seed) EXCEPT !.h[dst].hash0 = hs.hash0]
      a    == FreeArray(S1)
      S2   == IF S1.h[dst].B = 0
              THEN [S1 EXCEPT !.heap = ClearArray(@, a), !.h[dst].buckets = a] ELSE S1
      S3   == CloneCurrent(S2, dst, hs, 0)
      oldB == IF SameSizeGrow(hs) THEN hs.B ELSE hs.B - 1
  IN IF hs.count = 0 THEN S1
     ELSE IF hs.B = 0 THEN CloneFlat(S1, hs, dst, a)
     ELSE IF ~Growing(hs) THEN S3
     ELSE CloneOld(S3, dst, hs, oldB, 0)

-----------------------------------------------------------------------------
(* Iteration: setiterinit and setiternext.                                 *)

\* Walking an old bucket that the growth splits, setiternext skips a key
\* bound for the other new bucket than checkBucket.  A NaN's hash cannot be
\* computed again, so the low bit of its tophash names its half: the bit
\* evacuateSet follows, and which evacuatedX and evacuatedY keep.
IterOtherHalf(S, itr, th, k, checkBucket) ==
  /\ checkBucket # NoCheck
  /\ ~SameSizeGrow(S.h[itr.t])
  /\ IF k \in NaNs THEN checkBucket \div 2^(itr.B - 1) # th % 2
     ELSE KeyHash(S, itr.t, k) % 2^itr.B # checkBucket

\* mutant: a key whose cell was evacuated is produced without looking it up
IterCellNoRelookup(S, itr, b, j, checkBucket) ==
  LET offi == (j + itr.offset) % BucketCnt
      th   == S.heap[b].th[offi]
      k    == S.heap[b].key[offi]
  IN IF IsEmpty(th) \/ th = EvacuatedEmpty THEN NoKey
     ELSE IF IterOtherHalf(S, itr, th, k, checkBucket) THEN NoKey
     ELSE k

\* mutant: an evacuated NaN is looked up again like any other key
IterCellNaNRelookup(S, itr, b, j, checkBucket) ==
  LET offi == (j + itr.offset) % BucketCnt
      th   == S.heap[b].th[offi]
      k    == S.heap[b].key[offi]
  IN IF IsEmpty(th) \/ th = EvacuatedEmpty THEN NoKey
     ELSE IF IterOtherHalf(S, itr, th, k, checkBucket) THEN NoKey
     ELSE IF th # EvacuatedX /\ th # EvacuatedY THEN k
     ELSE SetAccessK(S, itr.t, k)

\* mutant: old buckets are walked without filtering keys bound elsewhere
IterCellNoFilter(S, itr, b, j, checkBucket) ==
  LET offi == (j + itr.offset) % BucketCnt
      th   == S.heap[b].th[offi]
      k    == S.heap[b].key[offi]
  IN IF IsEmpty(th) \/ th = EvacuatedEmpty THEN NoKey
     ELSE IF (th # EvacuatedX /\ th # EvacuatedY) \/ k \in NaNs THEN k
     ELSE SetAccessK(S, itr.t, k)

\* The key the cell at loop index j of bucket b produces, or NoKey when the
\* loop skips it.
IterCell(S, itr, b, j, checkBucket) ==
  LET offi == (j + itr.offset) % BucketCnt
      th   == S.heap[b].th[offi]
      k    == S.heap[b].key[offi]
  IN IF IsEmpty(th) \/ th = EvacuatedEmpty THEN NoKey
     ELSE IF IterOtherHalf(S, itr, th, k, checkBucket) THEN NoKey
     \* golden data, or a NaN: no write can have removed or replaced a NaN
     ELSE IF (th # EvacuatedX /\ th # EvacuatedY) \/ k \in NaNs THEN k
     \* the key has moved: look it up in the table as it is now
     ELSE SetAccessK(S, itr.t, k)

\* mutant: the iterator saves the index of the cell it produced, not the next
IterYieldSameCell(itr, k, bucket, b, j, checkBucket) ==
  [itr EXCEPT !.key = k, !.bucket = bucket, !.bptr = b, !.i = j, !.checkBucket = checkBucket]

\* setiternext's return with key k from cell j of bucket b: the next round
\* resumes at the cell after it
IterYield(itr, k, bucket, b, j, checkBucket) ==
  [itr EXCEPT !.key = k, !.bucket = bucket, !.bptr = b, !.i = j + 1, !.checkBucket = checkBucket]

\* mutant: the iterator walks an old bucket without asking whether it was evacuated
IterUseOldNoEvacCheck(S, itr, bucket) ==
  Growing(S.h[itr.t]) /\ itr.B = S.h[itr.t].B

\* setiternext walks old bucket bucket & oldbucketmask instead of the new
\* bucket: the loop started during a growth that is still going on, and
\* the old bucket has not been evacuated yet
IterUseOld(S, itr, bucket) ==
  LET hh == S.h[itr.t]
  IN Growing(hh) /\ itr.B = hh.B
     /\ ~Evacuated(S.heap, <<hh.oldbuckets, bucket % NOldBuckets(hh)>>)

RECURSIVE IterNext(_, _, _, _, _, _)
\* setiternext from the label next:, with its locals bucket, b, i, checkBucket
IterNext(S, itr, bucket, b, i, checkBucket) ==
  IF b = NilPtr
  THEN IF bucket = itr.startBucket /\ itr.wrapped
       THEN [itr EXCEPT !.key = NoKey]
       ELSE
         LET hh     == S.h[itr.t]
             oldb   == <<hh.oldbuckets, bucket % NOldBuckets(hh)>>
             useOld == IterUseOld(S, itr, bucket)
             wrap   == bucket + 1 = 2^itr.B
         IN IterNext(S, IF wrap THEN [itr EXCEPT !.wrapped = TRUE] ELSE itr,
                     IF wrap THEN 0 ELSE bucket + 1,
                     IF useOld THEN oldb ELSE <<itr.buckets, bucket>>,
                     0,
                     IF useOld THEN bucket ELSE NoCheck)
  ELSE
    LET hits == {j \in i..(BucketCnt - 1) : IterCell(S, itr, b, j, checkBucket) # NoKey}
        j    == Min(hits)
    IN IF hits = {} THEN IterNext(S, itr, bucket, S.heap[b].next, 0, checkBucket)
       ELSE IterYield(itr, IterCell(S, itr, b, j, checkBucket), bucket, b, j, checkBucket)

\* setiterinit's fresh iterator, with rand() giving startBucket and offset
IterInit(hh, startBucket, offset) ==
  [t |-> Main, buckets |-> hh.buckets, B |-> hh.B, startBucket |-> startBucket,
   offset |-> offset, wrapped |-> FALSE, bucket |-> startBucket, bptr |-> NilPtr,
   i |-> 0, checkBucket |-> 0, key |-> NoKey]

-----------------------------------------------------------------------------
(* Export: keysSet and copyKeysSet, the runtime half of maps.Keys, which  *)
(* appends every element to a slice of capacity len(s).  r is its rand(). *)

\* mutant: every cell of the chain is copied, emptied ones included
CopyKeysSetNoEmptyCheck(hp, b, offset) ==
  LET ch == ChainFrom(hp, b)
  IN FlattenSeq([j \in 1..Len(ch) |-> [n \in 1..BucketCnt |-> hp[ch[j]].key[(n - 1 + offset) % BucketCnt]]])

\* copyKeysSet: the keys of the full cells of the chain from b, each bucket
\* read from cell `offset` on, wrapping around
CopyKeysSet(hp, b, offset) ==
  LET ch       == ChainFrom(hp, b)
      Cells(q) == SelectSeq([i \in 1..BucketCnt |-> (i - 1 + offset) % BucketCnt],
                            LAMBDA o : ~IsEmpty(hp[q].th[o]))
  IN FlattenSeq([j \in 1..Len(ch) |-> [n \in 1..Len(Cells(ch[j])) |-> hp[ch[j]].key[Cells(ch[j])[n]]]])

\* the keys copied from the old buckets not yet evacuated, from bucket r on
KeysOld(S, t, r, offset) ==
  LET hh == S.h[t]
      no == NOldBuckets(hh)
      b(i) == <<hh.oldbuckets, (i - 1 + r) % no>>
  IN IF ~Growing(hh) THEN <<>>
     ELSE FlattenSeq([i \in 1..no |-> IF Evacuated(S.heap, b(i)) THEN <<>>
                                      ELSE CopyKeysSet(S.heap, b(i), offset)])

\* mutant: the export skips the old buckets of a growth in progress
KeysSetNewOnly(S, t, r) ==
  LET hh == S.h[t]
      n  == 2^hh.B
      offset == (r \div n) % BucketCnt
  IN IF hh.count = 0 THEN <<>>
     ELSE FlattenSeq([i \in 1..n |-> CopyKeysSet(S.heap, <<hh.buckets, (i - 1 + r) % n>>, offset)])

\* keysSet: the current array from bucket r on, then the unevacuated old
\* buckets; a one-bucket table is copied without looking at old buckets
KeysSet(S, t, r) ==
  LET hh     == S.h[t]
      n      == 2^hh.B
      offset == (r \div n) % BucketCnt
  IN IF hh.count = 0 THEN <<>>
     ELSE IF hh.B = 0 THEN CopyKeysSet(S.heap, <<hh.buckets, 0>>, offset)
     ELSE FlattenSeq([i \in 1..n |-> CopyKeysSet(S.heap, <<hh.buckets, (i - 1 + r) % n>>, offset)])
            \o KeysOld(S, t, r, offset)

-----------------------------------------------------------------------------
(* The program: any sequence of calls on the handles, interleaved with the *)
(* steps of one range loop over Main.                                      *)

\* pointers the running iterator keeps alive
Pinned == IF itState = "active" THEN {<<it.buckets, 0>>, it.bptr} \ {NilPtr} ELSE {}

St == [h |-> h, heap |-> heap, pin |-> Pinned, r |-> 0]

\* the state with r as what the hasher returns for a NaN in this step
Hashing(S, r) == [S EXCEPT !.r = r]

\* The chains a reader of table t may search: those of the current array and
\* of the old buckets not yet evacuated.
Heads(S, t) ==
  LET hh == S.h[t]
  IN IF hh.buckets = Nil THEN {}
     ELSE ({hh.buckets} \X (0..(2^hh.B - 1)))
            \cup (IF Growing(hh)
                  THEN {p \in {hh.oldbuckets} \X (0..(NOldBuckets(hh) - 1)) : ~Evacuated(S.heap, p)}
                  ELSE {})

\* the keys held in the full cells of those chains
Contents(S, t) ==
  LET bs == UNION {Range(ChainFrom(S.heap, p)) : p \in Heads(S, t)}
  IN UNION {{S.heap[b].key[i] : i \in {j \in Slots : S.heap[b].th[j] >= MinTopHash}} : b \in bs}

\* Memory that no table and no iterator can reach is never read again, and
\* every allocation (newarray, newobject) zeroes what it hands out: a step
\* leaves such memory zeroed, so states differing only in garbage coincide.
ZeroUnreachable(hp, live) == [p \in DOMAIN hp |-> IF p \in live THEN hp[p] ELSE EmptyBucket]

Commit(S) == h' = S.h /\ heap' = ZeroUnreachable(S.heap, Reachable(S))

Init ==
  \E hint \in Hints, seed \in Seeds :
    LET S == MakeSet([h |-> [t \in Tables |-> NilTable],
                      heap |-> [p \in Ptrs |-> EmptyBucket], pin |-> {}, r |-> 0], Main, hint, seed)
    IN /\ h = S.h
       /\ heap = S.heap
       /\ it = IterInit(S.h[Main], 0, 0)
       /\ itState = "idle"
       /\ yielded = [k \in AllKeys |-> 0]
       /\ mustYield = {}
       /\ call = [op |-> "none"]
       /\ growWrites = [t \in Tables |-> 0]

\* growWrites after a write took table t from hh to hh2: an insert that
\* finishes one growth and starts the next is the first write of the new one
GrowCount(hh, hh2, n) == CASE ~Growing(hh2) -> 0
                           [] hh2.oldbuckets # hh.oldbuckets -> 1
                           [] OTHER -> n + 1

\* A NaN argument is a new value: it equals no element of t, and it hashes
\* to any of NaNHashes.  A write may also hash a NaN it evacuates.
Fresh(t, k) == k \in NaNs => k \notin Contents(St, t)

\* s[k] = v
Insert(t, k) ==
  /\ ~h[t].nil /\ Fresh(t, k)
  /\ \E r \in NaNHashes : Commit(SetAssign(Hashing(St, r), t, k))
  /\ call' = [op |-> "insert", t |-> t, arg |-> k]
  /\ growWrites' = [growWrites EXCEPT ![t] = GrowCount(h[t], h'[t], @)]
  /\ UNCHANGED <<it, itState, yielded, mustYield>>

\* delete(s, k)
Delete(t, k) ==
  /\ Fresh(t, k)
  /\ \E seed \in Seeds, r \in NaNHashes : Commit(Deleted(Hashing(St, r), t, k, seed))
  /\ call' = [op |-> "delete", t |-> t, arg |-> k]
  \* a delete on an empty table returns before its grow work
  /\ growWrites' = [growWrites EXCEPT ![t] = IF ~Growing(h'[t]) THEN 0
                                             ELSE IF h[t].count # 0 THEN @ + 1 ELSE @]
  /\ yielded' = IF t = Main THEN [yielded EXCEPT ![k] = 0] ELSE yielded
  /\ mustYield' = IF t = Main THEN mustYield \ {k} ELSE mustYield
  /\ UNCHANGED <<it, itState>>

\* clear(s)
Clear(t) ==
  /\ \E seed \in Seeds : Commit(SetClear(St, t, seed))
  /\ call' = [op |-> "clear", t |-> t, arg |-> t]
  /\ growWrites' = [growWrites EXCEPT ![t] = 0]
  /\ yielded' = IF t = Main THEN [k \in AllKeys |-> 0] ELSE yielded
  /\ mustYield' = IF t = Main THEN {} ELSE mustYield
  /\ UNCHANGED <<it, itState>>

\* dst = maps.Clone(src)
Clone(src, dst) ==
  /\ src # dst /\ dst # Main /\ ~h[src].nil
  /\ \E seed \in Seeds : Commit(SetClone(St, src, dst, seed))
  /\ call' = [op |-> "clone", t |-> dst, arg |-> src]
  /\ growWrites' = [growWrites EXCEPT ![dst] = 0]
  /\ UNCHANGED <<it, itState, yielded, mustYield>>

\* setiterinit on Main in state S, rand() giving startBucket sb and offset
\* off, and its first setiternext (a set with count == 0 runs no loop)
IterBegin(S, sb, off) ==
  LET S1  == [S EXCEPT !.h[Main].flags = @ \cup {"iterator", "oldIterator"}]
      itr == IterNext(S1, IterInit(S1.h[Main], sb, off), sb, NilPtr, 0, 0)
  IN /\ h' = S1.h
     /\ it' = itr
     /\ itState' = IF itr.key = NoKey THEN "done" ELSE "active"
     /\ yielded' = [k \in AllKeys |-> IF k = itr.key THEN 1 ELSE 0]
     /\ mustYield' = Contents(S, Main)

\* for k := range s
IterStart ==
  /\ itState # "active"
  /\ h[Main].count > 0
  /\ \E sb \in 0..(2^h[Main].B - 1), off \in Slots : IterBegin(St, sb, off)
  /\ UNCHANGED <<heap, call, growWrites>>

\* setiternext in state S
IterAdvance(S) ==
  LET itr == IterNext(S, it, it.bucket, it.bptr, it.i, it.checkBucket)
  IN /\ it' = itr
     /\ itState' = IF itr.key = NoKey THEN "done" ELSE "active"
     /\ yielded' = IF itr.key = NoKey THEN yielded
                   ELSE [yielded EXCEPT ![itr.key] = IF @ < 2 THEN @ + 1 ELSE 2]

\* the next round of the loop
IterStep ==
  /\ itState = "active"
  /\ IterAdvance(St)
  /\ UNCHANGED <<h, heap, mustYield, call, growWrites>>

\* break out of the loop
IterBreak ==
  /\ itState = "active"
  /\ itState' = "idle"
  /\ UNCHANGED <<h, heap, it, yielded, mustYield, call, growWrites>>

\* dst = sets.Collect(sets.Elems(s)), whose loop inserts into dst every key
\* the loop over Main produces; nothing else runs until the loop ends.
\* Collect's make(map) is makeset_small, then the range loop starts.
CollectStart(dst) ==
  /\ dst # Main /\ itState # "active"
  /\ h[Main].count > 0
  /\ \E seed \in Seeds, sb \in 0..(2^h[Main].B - 1), off \in Slots :
       LET S == MakeSetSmall(St, dst, seed)
       IN IterBegin(S, sb, off) /\ heap' = ZeroUnreachable(S.heap, Reachable(S))
  /\ growWrites' = [growWrites EXCEPT ![dst] = 0]
  /\ UNCHANGED call

\* a round of sets.Insert's loop in state S, after its body m[k] = v
CollectRound(S, dst) ==
  /\ Commit(S)
  /\ IterAdvance(S)
  /\ growWrites' = [growWrites EXCEPT ![dst] = GrowCount(h[dst], S.h[dst], @)]

\* the body m[k] = v with the key produced, then setiternext
CollectStep(dst) ==
  /\ itState = "active"
  /\ \E r \in NaNHashes : CollectRound(SetAssign(Hashing(St, r), dst, it.key), dst)
  /\ UNCHANGED <<mustYield, call>>

\* the calls on set handles
SetOps ==
  \/ \E t \in Tables, k \in Keys \cup NaNs : Insert(t, k) \/ Delete(t, k)
  \/ \E t \in Tables : Clear(t)
  \/ \E src, dst \in Tables : Clone(src, dst)

\* the steps of the range loop
IterOps == IterStart \/ IterStep \/ IterBreak

Next == SetOps \/ IterOps

Spec == Init /\ [][Next]_vars

\* every key the loop had to produce, it produced
AllProduced == \A k \in mustYield : yielded[k] >= 1

\* The last call is history that no step reads.  The loop's history
\* matters only while it runs; once it ran out, only whether it produced
\* every key (which later calls cannot falsify).
View == <<h, growWrites, CASE itState = "active" -> <<it, yielded, mustYield>>
               [] itState = "done"   -> AllProduced
               [] OTHER              -> itState,
          heap>>

-----------------------------------------------------------------------------
(* Properties.                                                             *)

TypeOK ==
  /\ h \in [Tables -> [nil : BOOLEAN, count : 0..Cardinality(Keys \cup NaNs), flags : SUBSET Flags,
                       B : 0..MaxB, noverflow : 0..NOvf, hash0 : Seeds,
                       buckets : ArrayIds \cup {Nil}, oldbuckets : ArrayIds \cup {Nil},
                       nevacuate : 0..MaxSize, nextOverflow : Ptrs \cup {NilPtr}]]
  /\ heap \in [Ptrs -> Bucket]
  /\ itState \in {"idle", "active", "done"}
  /\ yielded \in [AllKeys -> 0..2]
  /\ mustYield \subseteq Keys \cup NaNs
  /\ growWrites \in [Tables -> Nat]

\* Evacuation terminates (spec section 8): a growth is over after at most as
\* many writes as the old array has buckets, because every write on a
\* growing table (setassign, and setdelete unless the table is empty) has
\* growWorkSet evacuate the bucket at nevacuate as well as its own, and
\* advanceEvacuationMarkSet then moves nevacuate past it.
GrowthBounded ==
  \A t \in Tables : Growing(h[t]) => growWrites[t] < NOldBuckets(h[t])

\* maps.Keys (keysSet) exports every element exactly once, whatever rand()
\* gives it, also in the middle of a growth: the slice gets exactly len(s)
\* keys, so copyKeysSet never reaches its capacity check, and they are the
\* set's elements (an evacuated old bucket is skipped, not copied again).
KeysExportContents ==
  \A t \in Tables, r \in 0..(MaxSize * BucketCnt - 1) :
    LET ks == KeysSet(St, t, r)
    IN Len(ks) = h[t].count /\ Range(ks) = Contents(St, t)

\* Within every chain a reader trusts, an EmptyRest cell is followed only by
\* EmptyRest cells: the lookup loops stop at the first one (setaccess2,
\* setassign, setdelete), so a key stored after it would be lost.  setdelete
\* restores this after every removal with its backward EmptyRest cascade.
EmptyRestEndsChain ==
  \A t \in Tables : \A p \in Heads(St, t) :
    LET cl == CellList(heap, p)
    IN \A n, m \in DOMAIN cl :
         n < m /\ ThAt(heap, cl[n]) = EmptyRest => ThAt(heap, cl[m]) = EmptyRest

\* A lookup (setaccess2, or setaccess2_fast32 for 32-bit keys) finds exactly
\* the keys the table holds: no held key sits in a chain or half-evacuated
\* bucket the lookup does not search, and no stale key left in an emptied
\* cell is taken for a live one.
LookupFindsContents ==
  \A t \in Tables, k \in Keys : Access2(St, t, k) <=> k \in Contents(St, t)

\* len(s) (h.count) equals the number of distinct elements a lookup finds,
\* through growths, evacuations, deletes and clears.
LenMatchesContents ==
  \A t \in Tables : h[t].count = Cardinality(Contents(St, t))

\* Every key the range loop produced is in the set when produced, and no key
\* is produced twice unless it was removed and inserted again in between
\* (setiternext's old-bucket filter and its re-lookup of evacuated keys).
IterYieldSound ==
  itState = "active" =>
    LET now == Contents(St, Main)
    IN \A k \in AllKeys : yielded[k] <= 1 /\ (yielded[k] = 1 => k \in now)

\* A loop that ran to the end produced every key that was in the set when
\* it started and was not removed while it ran.
IterComplete ==
  itState = "done" => AllProduced

ClearEndsLoop ==
  [][call.op = "clear" /\ call.t = Main /\ itState = "active" /\ it' # it => it'.key = NoKey]_vars

\* A range loop that keeps calling setiternext ends (spec section 5): writes
\* between its rounds may grow the table under it and move keys between old
\* and new buckets, but setiternext only moves forward through the buckets
\* of the array it started on and stops when it wraps to startBucket.
LoopTerminates == itState = "active" ~> itState # "active"

\* the buckets of every chain of table t's current and old arrays
TableMemory(S, t) ==
  UNION {Range(ChainFrom(S.heap, p)) :
           p \in ({S.h[t].buckets, S.h[t].oldbuckets} \ {Nil}) \X (0..(ArraySlots - 1))}

\* No bucket belongs to two handles, so a write to a clone never shows in
\* its source (spec section 8).  setclone2's quick copy of a one-bucket
\* source copies the bucket's overflow pointer too: the clone would share
\* the source's overflow chain if a one-bucket table could have one, which
\* the load factor check in setassign prevents by growing the table first.
TablesDisjoint ==
  \A t1, t2 \in Tables : t1 # t2 => TableMemory(St, t1) \cap TableMemory(St, t2) = {}

\* the heads of table t's chains: its buckets, and its old buckets in a growth
AllHeads(S, t) ==
  LET hh == S.h[t]
  IN (IF hh.buckets = Nil THEN {} ELSE {hh.buckets} \X (0..(2^hh.B - 1)))
       \cup (IF Growing(hh) THEN {hh.oldbuckets} \X (0..(NOldBuckets(hh) - 1)) ELSE {})

\* the preallocated overflow buckets of t's array newoverflow has not
\* handed out yet: from h.extra.nextOverflow to the end of the array
FreeOverflow(S, t) ==
  LET nx == S.h[t].nextOverflow
  IN IF nx = NilPtr THEN {} ELSE {nx[1]} \X (nx[2]..(ArrayLen(S.h[t].B) - 1))

\* The overflow chains of a table are separate lists that end in nil, and
\* the preallocated buckets not yet handed out are empty, on no chain, and
\* end with the sentinel: so every loop `for ; b != nil; b = b.overflow(t)`
\* ends and a write through one chain never shows in another.
\* makeSetBucketArray points the last preallocated bucket at the array's
\* first bucket as a non-nil sentinel (set.go 345); newoverflow must reset
\* it before linking that bucket (set.go 203), or the chain runs on into
\* bucket 0's chain, and around it forever when that chain is its own.
OverflowChainsPrivate ==
  \A t \in Tables :
    LET hs   == AllHeads(St, t)
        free == FreeOverflow(St, t)
        last == ArrayLen(h[t].B) - 1
    IN /\ \A p \in hs : heap[Last(ChainFrom(heap, p))].next = NilPtr
       \* no bucket met twice, on the chains or among the free ones
       /\ Cardinality((UNION {Range(ChainFrom(heap, p)) : p \in hs}) \cup free)
            = MapThenSumSet(LAMBDA p : Len(ChainFrom(heap, p)), hs) + Cardinality(free)
       /\ \A f \in free : /\ heap[f].th = [i \in Slots |-> EmptyRest]
                          /\ heap[f].next = IF f[2] = last THEN <<f[1], 0>> ELSE NilPtr

\* maps.Clone returns a set holding exactly the elements of its argument,
\* whatever state of growth the argument is in (setclone2).
CloneKeepsElements ==
  [][\A src, dst \in Tables : Clone(src, dst) => Contents(St', dst) = Contents(St, src)]_vars

\* The table implements a set: each call of the program has exactly the
\* effect SetSpec gives it on the elements a table holds (an insert adds its
\* key, a delete removes it, a clear empties, a clone copies), and the steps
\* of a range loop change no set.
ContentsMap == [t \in Tables |-> Contents(St, t)]
AbsSet == INSTANCE SetSpec WITH elems <- ContentsMap, Keys <- Keys \cup NaNs
RefinesSetSpec == AbsSet!Spec

==============================================================================
