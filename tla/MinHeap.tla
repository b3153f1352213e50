------------------------------ MODULE MinHeap ------------------------------
(***************************************************************************)
(* The binary heap of rr_minheap.c in the growing array of rr_array.c.     *)
(* A heap is a record: elm are the nelm elements the array has given out,  *)
(* nrest the slots it can give out before it must grow, cap the slots of   *)
(* the block it has allocated, len the elements of the heap.  Slots from   *)
(* len on are left over from minheap_pop and hold Junk.  Indices are the   *)
(* code's, from 0.  Allocation never fails: the out-of-memory handler of   *)
(* rr_malloc.c ends the process.                                           *)
(***************************************************************************)
EXTENDS Integers, Sequences

CONSTANTS
  Item,          \* what a slot can hold
  Junk,          \* the content of a slot beyond the heap
  Before(_, _)   \* heap->comp(a, b) < 0

Slot == Item \cup {Junk}

Heap == [elm: Seq(Slot), nrest: Nat, cap: Nat, len: Nat]

At(s, i) == s[i + 1]

Swap(s, i, j) == [s EXCEPT ![i + 1] = At(s, j), ![j + 1] = At(s, i)]

(* array_create: the spare slots of a new array *)
ArrayCreate(n) == IF n = 0 THEN 1 ELSE n

(* minheap_create *)
Create(n) == [elm |-> << >>, nrest |-> ArrayCreate(n), cap |-> ArrayCreate(n), len |-> 0]

(* The slot that asked for the growth is not taken off the new ones. *)
BugArrayPush(h) ==
  [h EXCEPT !.elm = Append(@, Junk),
            !.nrest = IF h.nrest > 0 THEN @ - 1 ELSE Len(h.elm),
            !.cap = IF h.nrest > 0 THEN @ ELSE 2 * Len(h.elm)]

(* array_push: take a spare slot, or double the array and take the first of *)
(* the new ones.                                                            *)
ArrayPush(h) ==
  [h EXCEPT !.elm = Append(@, Junk),
            !.nrest = IF h.nrest > 0 THEN @ - 1 ELSE Len(h.elm) - 1,
            !.cap = IF h.nrest > 0 THEN @ ELSE 2 * Len(h.elm)]

(* n turns of a loop with the given body, from state x. *)
Repeat(body, x, n) ==
  LET turn[k \in 0 .. n] == IF k = 0 THEN x ELSE body[turn[k - 1]]
  IN  turn[n]

(* The state of both loops: the array, and the index of the element moved. *)
Moving == [elm: Seq(Slot), at: Nat]

Exchange(m, i) == [elm |-> Swap(m.elm, m.at, i), at |-> i]

Parent(i) == (i - 1) \div 2

(* shiftdown: exchange the element with its parent while it goes before it; *)
(* an element at index end has at most end of them above it.                *)
Rise ==
  [m \in Moving |->
     IF m.at > 0 /\ Before(At(m.elm, m.at), At(m.elm, Parent(m.at)))
     THEN Exchange(m, Parent(m.at)) ELSE m]

Shiftdown(s, end) == Repeat(Rise, [elm |-> s, at |-> end], end).elm

(* The smaller child of i in a heap of length len, the left one in a draw. *)
SmallerChild(s, len, i) ==
  IF 2 * i + 2 < len /\ Before(At(s, 2 * i + 2), At(s, 2 * i + 1))
  THEN 2 * i + 2 ELSE 2 * i + 1

(* shiftup: move the element all the way down along the smaller children,  *)
(* then up again to its place.                                              *)
Sink(len) ==
  [m \in Moving |->
     IF 2 * m.at + 1 < len THEN Exchange(m, SmallerChild(m.elm, len, m.at)) ELSE m]

Shiftup(s, len, i) ==
  LET m == Repeat(Sink(len), [elm |-> s, at |-> i], len)
  IN  Shiftdown(m.elm, m.at)

Push(h, item) ==
  LET a == IF h.len = Len(h.elm) THEN ArrayPush(h) ELSE h
  IN  [a EXCEPT !.elm = Shiftdown([a.elm EXCEPT ![h.len + 1] = item], h.len),
                !.len = @ + 1]

Min(h) == At(h.elm, 0)

(* minheap_pop of a heap that is not empty: the first element and the heap *)
(* without it.  The caller gets a pointer to the slot just vacated.        *)
Pop(h) ==
  LET n == h.len - 1
      s == Shiftup(Swap(h.elm, 0, n), n, 0)
  IN  [item |-> At(s, n),
       heap |-> [h EXCEPT !.elm = [s EXCEPT ![n + 1] = Junk], !.len = n]]

(* n times minheap_pop *)
PopNext ==
  [p \in [items: Seq(Item), heap: Heap] |->
     [items |-> Append(p.items, Pop(p.heap).item), heap |-> Pop(p.heap).heap]]

PopN(h, n) == Repeat(PopNext, [items |-> << >>, heap |-> h], n)
=============================================================================
