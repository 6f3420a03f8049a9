------------------------------ MODULE SetSpec ------------------------------
(***************************************************************************)
(* What a set handle promises (spec section 6): insert, delete, clear and  *)
(* clone act on a finite set of elements, and nothing else changes it.     *)
(* `call` records the last call made, so that a call that has no effect    *)
(* when it should have one is a visible step, not a stutter.               *)
(***************************************************************************)
CONSTANTS Tables, Keys

VARIABLES
  elems,  \* elems[t]: the elements of handle t
  call    \* the last call: [op, t, arg]

Call(op, t, arg) == [op |-> op, t |-> t, arg |-> arg]

Init ==
  /\ elems = [t \in Tables |-> {}]
  /\ call = [op |-> "none"]

\* s[k] = v
Insert(t, k) ==
  /\ elems' = [elems EXCEPT ![t] = @ \cup {k}]
  /\ call' = Call("insert", t, k)

\* delete(s, k)
Delete(t, k) ==
  /\ elems' = [elems EXCEPT ![t] = @ \ {k}]
  /\ call' = Call("delete", t, k)

\* clear(s)
Clear(t) ==
  /\ elems' = [elems EXCEPT ![t] = {}]
  /\ call' = Call("clear", t, t)

\* dst = maps.Clone(src)
Clone(src, dst) ==
  /\ elems' = [elems EXCEPT ![dst] = elems[src]]
  /\ call' = Call("clone", dst, src)

Next ==
  \/ \E t \in Tables, k \in Keys : Insert(t, k) \/ Delete(t, k)
  \/ \E t \in Tables : Clear(t)
  \/ \E src, dst \in Tables : Clone(src, dst)

Spec == Init /\ [][Next]_<<elems, call>>

==============================================================================
