------------------------------ MODULE FifoQueue ------------------------------
(***************************************************************************)
(* The bounded queue of whist/utils/queue.c: an array used as a ring, with *)
(* the indices of the next item to read and of the next place to write.    *)
(* Every operation runs under the queue's mutex; a caller that waits for   *)
(* room or for an item is a guard of the module that uses the queue.       *)
(***************************************************************************)
EXTENDS Integers, Sequences

\* A queue for max_items items; the array holds no item yet.
Create(max_items, nothing) ==
    [read_idx |-> 0, write_idx |-> 0, num_items |-> 0, max_items |-> max_items,
     data |-> [i \in 0 .. max_items - 1 |-> nothing]]

IsFull(q) == q.num_items >= q.max_items
IsEmpty(q) == q.num_items <= 0

\* Faulty: the index stays at the end of the array.
StaysAtTheEnd(q, idx) == IF idx + 1 = q.max_items THEN idx ELSE idx + 1

IncrementIdx(q, idx) == IF idx + 1 = q.max_items THEN 0 ELSE idx + 1

EnqueueItem(q, item) ==
    [q EXCEPT !.num_items = @ + 1,
              !.data = [@ EXCEPT ![q.write_idx] = item],
              !.write_idx = IncrementIdx(q, @)]

NextItem(q) == q.data[q.read_idx]

DequeueItem(q) ==
    [q EXCEPT !.num_items = @ - 1,
              !.read_idx = IncrementIdx(q, @)]

-----------------------------------------------------------------------------
\* The place in the array of the i-th item, counted from 1.
Place(q, i) == IF q.read_idx + i - 1 < q.max_items
               THEN q.read_idx + i - 1
               ELSE q.read_idx + i - 1 - q.max_items

\* What the queue promises: a sequence, first in, first out.
Items(q) == [i \in 1 .. q.num_items |-> q.data[Place(q, i)]]

\* The indices are those of the array, and as far apart as there are items.
IsQueue(q, S) ==
    /\ q \in [read_idx : Nat, write_idx : Nat, num_items : Nat, max_items : Nat \ {0},
              data : [0 .. q.max_items - 1 -> S]]
    /\ q.num_items <= q.max_items
    /\ q.read_idx < q.max_items
    /\ q.write_idx = Place(q, q.num_items + 1)
=============================================================================
