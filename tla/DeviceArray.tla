---------------------------- MODULE DeviceArray ----------------------------
(***************************************************************************)
(* device_context_array_t, the dynamic array of device contexts: a block   *)
(* of memory (items, one slot per unit of capacity) whose first count      *)
(* slots are in use. A pointer to a context is the index of a slot, so it  *)
(* keeps naming the slot, and not the context, when contexts move.         *)
(*                                                                         *)
(* A context is a record with at least the fields handle and address.      *)
(***************************************************************************)
EXTENDS Naturals, Sequences, SequencesExt

CONSTANT InitCap   \* the first capacity: 4 in the code

ASSUME InitCapPositive == InitCap \in Nat \ {0}

Empty == [items |-> <<>>, count |-> 0]

Capacity(arr) == Len(arr.items)

Used(arr) == 1 .. arr.count

\* The contexts in use.
Contexts(arr) == SubSeq(arr.items, 1, arr.count)

\* Broken: exact growth, realloc at every call.
FullAlways(arr) == TRUE

\* The next dca_add_new calls realloc.
Full(arr) == arr.count = Capacity(arr)

\* Broken: the capacity is not doubled.
SameCapacity(capacity) == InitCap

NewCapacity(capacity) == IF capacity = 0 THEN InitCap ELSE 2 * capacity

\* The block that dca_add_new writes to. A new slot is cleared before its
\* first use, so fresh may stand for its contents.
Room(arr, fresh) ==
  IF Full(arr)
  THEN arr.items \o [i \in 1 .. NewCapacity(Capacity(arr)) - Capacity(arr) |-> fresh]
  ELSE arr.items

\* The new context is the last one, at index dca_add_new(arr, fresh).count.
dca_add_new(arr, fresh) ==
  [items |-> [Room(arr, fresh) EXCEPT ![arr.count + 1] = fresh], count |-> arr.count + 1]

\* The first match, or 0 for NULL.
dca_find_by_handle(arr, handle) ==
  SelectInSubSeq(arr.items, 1, arr.count, LAMBDA ctx : ctx.handle = handle)

\* Broken: takes the context that was added last.
LatestContext(arr, address) == arr.count

dca_find_by_addr(arr, address) ==
  SelectInSubSeq(arr.items, 1, arr.count, LAMBDA ctx : ctx.address = address)

\* Broken: the items after the hole stay where they are.
RemoveLeavingHole(arr, handle) ==
  IF dca_find_by_handle(arr, handle) = 0 THEN arr ELSE [arr EXCEPT !.count = @ - 1]

\* The contexts behind the removed one move down a slot, and the slot that
\* leaves the array keeps what it holds.
dca_remove(arr, handle) ==
  LET i == dca_find_by_handle(arr, handle)
  IN IF i = 0 THEN arr
     ELSE [items |-> [j \in 1 .. Capacity(arr) |->
                        IF j \in i .. arr.count - 1 THEN arr.items[j + 1] ELSE arr.items[j]],
           count |-> arr.count - 1]
============================================================================
