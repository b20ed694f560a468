-------------------------- MODULE ConnectionProofs --------------------------
(***************************************************************************)
(* Theorems about Connection, for any devices, handles, capacities and     *)
(* bounds: its types; handles and the contract DeviceLinks where links do  *)
(* not drop and answers are not late; one context per connection and calls *)
(* that succeed where nothing fails; the callback's context and mutex for  *)
(* a single device, whatever fails.                                        *)
(***************************************************************************)
EXTENDS Connection, SequenceTheorems, FiniteSetTheorems, TLAPS

(* The functions of device_context_array_t                                 *)

Arrays == [items : Seq(Context), count : Nat]

InBounds(arr) == arr \in Arrays /\ arr.count <= Capacity(arr)

(* A set of numbers that is not empty has a least one, and Min finds it.   *)
LEMMA LeastIndex ==
  ASSUME NEW I \in SUBSET Nat, I # {}
  PROVE  Min(I) \in I /\ \A j \in I : Min(I) <= j
  <1> DEFINE Below == {1 .. i : i \in I}
  <1>1. \A i \in I : IsFiniteSet(1 .. i) /\ 1 .. i \in SUBSET Nat
    BY FS_Interval
  <1>2. Below \subseteq FiniteSubsetsOf(Nat) /\ Below # {}
    BY <1>1 DEF FiniteSubsetsOf
  <1> HIDE DEF Below
  <1>3. PICK K \in Below : \A L \in Below : ~ (<<L, K>> \in StrictSubsetOrdering(Nat))
    BY <1>2, FS_StrictSubsetOrderingWellFounded, WFMin
  <1>4. PICK i \in I : K = 1 .. i
    BY <1>3 DEF Below
  <1>5. ASSUME NEW j \in I, j < i PROVE FALSE
    <2>1. 1 .. j \in Below /\ 1 .. j \subseteq 1 .. i /\ 1 .. j # 1 .. i /\ 1 .. i \in SUBSET Nat
      BY <1>5 DEF Below
    <2> QED
      BY <2>1, <1>3, <1>4 DEF StrictSubsetOrdering
  <1>6. \A j \in I : i <= j
    BY <1>5
  <1> QED
    BY <1>6 DEF Min

\* i is the first of the places I, or 0 when there is none.
First(i, I) == i = IF I # {} THEN Min(I) ELSE 0

(* The first place of a set, as SelectInSubSeq finds it.                   *)
LEMMA FirstPlace ==
  ASSUME NEW n \in Nat, NEW I \in SUBSET (1 .. n), NEW i, First(i, I)
  PROVE  /\ i \in 0 .. n
         /\ i = 0 <=> I = {}
         /\ i # 0 => i \in I /\ \A j \in I : i <= j
  <1>1. I # {} => Min(I) \in I /\ \A j \in I : Min(I) <= j
    BY LeastIndex
  <1>2. CASE I = {}
    BY <1>2 DEF First
  <1>3. CASE I # {}
    <2>1. i \in I /\ \A j \in I : i <= j
      BY <1>1, <1>3 DEF First
    <2>2. i \in 1 .. n
      BY <2>1
    <2> QED
      BY <1>3, <2>1, <2>2
  <1> QED
    BY <1>2, <1>3

(* dca_find_by_handle gives the first context in use with the handle.      *)
LEMMA FindByHandle ==
  ASSUME NEW arr, InBounds(arr), NEW h, NEW i, i = dca_find_by_handle(arr, h)
  PROVE  /\ i \in 0 .. arr.count
         /\ i = 0 => \A j \in Used(arr) : arr.items[j].handle # h
         /\ i # 0 => /\ i \in Used(arr)
                     /\ arr.items[i].handle = h
                     /\ \A j \in 1 .. i - 1 : arr.items[j].handle # h
  <1> DEFINE I == {j \in 1 .. arr.count : arr.items[j].handle = h}
  <1>1. First(i, I)
    BY DEF dca_find_by_handle, SelectInSubSeq, First
  <1>2. arr.count \in Nat
    BY DEF InBounds, Arrays
  <1>3. /\ i \in 0 .. arr.count
        /\ i = 0 <=> I = {}
        /\ i # 0 => i \in I /\ \A j \in I : i <= j
    BY ZenonT(60), <1>1, <1>2, FirstPlace
  <1> QED
    BY <1>2, <1>3 DEF Used

(* dca_find_by_addr gives the first context in use with the address.       *)
LEMMA FindByAddr ==
  ASSUME NEW arr, InBounds(arr), NEW a, NEW i, i = dca_find_by_addr(arr, a)
  PROVE  /\ i \in 0 .. arr.count
         /\ i = 0 => \A j \in Used(arr) : arr.items[j].address # a
         /\ i # 0 => /\ i \in Used(arr)
                     /\ arr.items[i].address = a
                     /\ \A j \in 1 .. i - 1 : arr.items[j].address # a
  <1> DEFINE I == {j \in 1 .. arr.count : arr.items[j].address = a}
  <1>1. First(i, I)
    BY DEF dca_find_by_addr, SelectInSubSeq, First
  <1>2. arr.count \in Nat
    BY DEF InBounds, Arrays
  <1>3. /\ i \in 0 .. arr.count
        /\ i = 0 <=> I = {}
        /\ i # 0 => i \in I /\ \A j \in I : i <= j
    BY ZenonT(60), <1>1, <1>2, FirstPlace
  <1> QED
    BY <1>2, <1>3 DEF Used

(* dca_add_new makes room when there is none, keeps the contexts in use    *)
(* where they are, and the new one comes behind them.                      *)
LEMMA AddNew ==
  ASSUME NEW arr, InBounds(arr), NEW c \in Context, NEW new, new = dca_add_new(arr, c)
  PROVE  /\ InBounds(new)
         /\ new.count = arr.count + 1
         /\ Capacity(new) >= Capacity(arr)
         /\ new.items[arr.count + 1] = c
         /\ \A j \in Used(arr) : new.items[j] = arr.items[j]
  <1> DEFINE more == NewCapacity(Capacity(arr)) - Capacity(arr)
             slots == [k \in 1 .. more |-> c]
             room == Room(arr, c)
  <1>1. arr.items \in Seq(Context) /\ arr.count \in Nat /\ Capacity(arr) \in Nat
    BY DEF InBounds, Arrays, Capacity
  <1>2. more \in Nat /\ more > 0
    BY <1>1, InitCapPositive DEF NewCapacity
  <1>3. slots \in Seq(Context) /\ Len(slots) = more
    BY <1>2
  <1>4. /\ room \in Seq(Context)
        /\ Len(room) >= Capacity(arr)
        /\ arr.count + 1 \in 1 .. Len(room)
        /\ \A j \in 1 .. Capacity(arr) : room[j] = arr.items[j]
    <2>1. CASE Full(arr)
      <3>1. room = arr.items \o slots
        BY <2>1 DEF Room
      <3> HIDE DEF slots, more
      <3>2. /\ arr.items \o slots \in Seq(Context)
            /\ Len(arr.items \o slots) = Len(arr.items) + Len(slots)
            /\ \A j \in 1 .. Len(arr.items) + Len(slots) :
                 (arr.items \o slots)[j]
                   = IF j <= Len(arr.items) THEN arr.items[j] ELSE slots[j - Len(arr.items)]
        BY <1>1, <1>3, ConcatProperties
      <3>3. /\ room \in Seq(Context)
            /\ Len(room) = Capacity(arr) + more
            /\ \A j \in 1 .. Capacity(arr) : room[j] = arr.items[j]
        BY <1>1, <1>2, <1>3, <3>1, <3>2 DEF Capacity
      <3> QED
        BY <1>1, <1>2, <2>1, <3>3 DEF Full
    <2>2. CASE ~Full(arr)
      BY <1>1, <2>2 DEF Full, Room, InBounds, Capacity
    <2> QED
      BY <2>1, <2>2
  <1>5. new = [items |-> [room EXCEPT ![arr.count + 1] = c], count |-> arr.count + 1]
    BY DEF dca_add_new
  <1> HIDE DEF room
  <1>6. /\ new.items \in Seq(Context)
        /\ Len(new.items) = Len(room)
        /\ \A j \in 1 .. Len(room) : new.items[j] = IF j = arr.count + 1 THEN c ELSE room[j]
    BY <1>4, <1>5, ExceptSeq
  <1> QED
    BY <1>1, <1>4, <1>5, <1>6 DEF InBounds, Arrays, Capacity, Used

\* Where the context at place j was before the one at place i was removed.
Before(j, i) == IF j < i THEN j ELSE j + 1

(* dca_remove takes the first context with the handle out of the array and *)
(* keeps the others, in their order.                                       *)
LEMMA RemoveFound ==
  ASSUME NEW arr, InBounds(arr), NEW h, NEW i, i = dca_find_by_handle(arr, h), i # 0,
         NEW new, new = dca_remove(arr, h)
  PROVE  /\ InBounds(new)
         /\ new.count = arr.count - 1
         /\ Capacity(new) = Capacity(arr)
         /\ \A j \in Used(new) : new.items[j] = arr.items[Before(j, i)]
  <1>1. arr.items \in Seq(Context) /\ arr.count \in Nat /\ Capacity(arr) \in Nat
        /\ arr.count <= Capacity(arr) /\ i \in 1 .. arr.count
    BY FindByHandle DEF InBounds, Arrays, Capacity, Used
  <1> DEFINE slot(j) == IF j \in i .. arr.count - 1 THEN arr.items[j + 1] ELSE arr.items[j]
  <1>2. new = [items |-> [j \in 1 .. Capacity(arr) |-> slot(j)], count |-> arr.count - 1]
    BY DEF dca_remove
  <1>3. \A j \in 1 .. Capacity(arr) : slot(j) \in Context
    BY <1>1 DEF Capacity
  <1> HIDE DEF slot
  <1>4. new.items \in Seq(Context) /\ Len(new.items) = Capacity(arr)
    BY <1>1, <1>2, <1>3
  <1>5. \A j \in 1 .. Capacity(arr) : new.items[j] = slot(j)
    BY <1>2
  <1> QED
    BY <1>1, <1>2, <1>4, <1>5 DEF slot, InBounds, Arrays, Capacity, Used, Before

(* The others close ranks: each keeps its rank among them.                 *)
LEMMA RemoveShifts ==
  ASSUME NEW arr, InBounds(arr), NEW h, NEW i, i = dca_find_by_handle(arr, h), i # 0,
         NEW new, new = dca_remove(arr, h)
  PROVE  /\ \A j \in Used(new) : /\ Before(j, i) \in Used(arr)
                                 /\ Before(j, i) # i
                                 /\ new.items[j] = arr.items[Before(j, i)]
         /\ \A k, j \in Used(new) : Before(k, i) = Before(j, i) => k = j
         /\ \A k \in Used(arr) : k # i => \E j \in Used(new) : k = Before(j, i)
         /\ \A k \in Used(new) : \A j \in 1 .. k - 1 :
              j \in Used(new) /\ Before(j, i) \in 1 .. Before(k, i) - 1
  <1>1. arr.count \in Nat /\ i \in 1 .. arr.count
    BY FindByHandle DEF InBounds, Arrays, Used
  <1>2. /\ new.count = arr.count - 1
        /\ \A j \in Used(new) : new.items[j] = arr.items[Before(j, i)]
    BY RemoveFound
  <1>3. ASSUME NEW k \in Used(arr), k # i PROVE \E j \in Used(new) : k = Before(j, i)
    <2>1. CASE k < i
      BY <1>1, <1>2, <2>1 DEF Used, Before
    <2>2. CASE ~(k < i)
      <3>1. k - 1 \in Used(new) /\ k = Before(k - 1, i)
        BY <1>1, <1>2, <1>3, <2>2 DEF Used, Before
      <3> QED
        BY <3>1
    <2> QED
      BY <2>1, <2>2
  <1> QED
    BY <1>1, <1>2, <1>3 DEF Used, Before

\* new is arr with c in the slot i.
Overwritten(new, arr, i, c) == new = [arr EXCEPT !.items[i] = c]

(* A slot is overwritten, and no other.                                    *)
LEMMA Overwrite ==
  ASSUME NEW arr, InBounds(arr), NEW i \in 1 .. Capacity(arr), NEW c \in Context,
         NEW new, Overwritten(new, arr, i, c)
  PROVE  /\ InBounds(new)
         /\ new.count = arr.count
         /\ Capacity(new) = Capacity(arr)
         /\ \A j \in 1 .. Capacity(arr) : new.items[j] = IF j = i THEN c ELSE arr.items[j]
  <1>1. new = [arr EXCEPT !.items = [arr.items EXCEPT ![i] = c]]
    BY DEF Overwritten
  <1>2. arr.items \in Seq(Context) /\ i \in 1 .. Len(arr.items)
    BY DEF InBounds, Arrays, Capacity
  <1>3. /\ [arr.items EXCEPT ![i] = c] \in Seq(Context)
        /\ Len([arr.items EXCEPT ![i] = c]) = Len(arr.items)
        /\ \A j \in 1 .. Len(arr.items) :
             [arr.items EXCEPT ![i] = c][j] = IF j = i THEN c ELSE arr.items[j]
    BY <1>2, ExceptSeq
  <1>4. new.items = [arr.items EXCEPT ![i] = c] /\ new.count = arr.count /\ new \in Arrays
    BY <1>1, <1>3 DEF InBounds, Arrays
  <1> QED
    BY <1>3, <1>4 DEF InBounds, Capacity

----------------------------------------------------------------------------
(* Types                                                                   *)

\* Beyond its type: the array is one, a call has its context among those in
\* use, and the callback thread points into the block that it has found.
Typed ==
  /\ TypeOK
  /\ InBounds(devices)
  /\ pc # "idle" => ctx \in Used(devices)
  /\ cb # Resting => cb.ctx \in 1 .. Capacity(devices)

(* The array is empty at first.                                            *)
LEMMA InitTyped == Init => Typed
  <1> SUFFICES ASSUME Init PROVE Typed
    OBVIOUS
  <1>1. events \in Seq(Event) /\ devices.items \in Seq(Context) /\ devices \in Arrays
    BY DEF Init, Empty, Arrays
  <1>2. devices.count = 0 /\ Capacity(devices) = 0
    BY DEF Init, Empty, Capacity
  <1> QED
    BY <1>1, <1>2 DEF Init, Typed, TypeOK, InBounds, AppPCs, HandleOrNull, Used

(* The handle of a context in use, and its place in the block.             *)
LEMMA ContextInUse ==
  ASSUME InBounds(devices), NEW i \in Used(devices)
  PROVE  i \in 1 .. Capacity(devices) /\ devices.items[i] \in Context
  BY DEF InBounds, Arrays, Used, Capacity

(* dca_add_new keeps the array in bounds, and the context is its last.     *)
LEMMA AddTyped ==
  ASSUME Typed, NEW a \in Addrs, AddContext(a)
  PROVE  Typed'
  <1>1. Fresh(a) \in Context
    BY DEF Fresh, Context, HandleOrNull
  <1>2. /\ InBounds(devices') /\ devices'.count = devices.count + 1
        /\ Capacity(devices') >= Capacity(devices)
    BY <1>1, AddNew DEF Typed, AddContext
  <1>3. devices'.items \in Seq(Context) /\ devices'.count \in 0 .. Capacity(devices')
        /\ Capacity(devices) \in Nat /\ Capacity(devices') \in Nat /\ devices.count \in Nat
    BY <1>2 DEF Typed, InBounds, Arrays, Capacity
  <1>4. ctx' \in Used(devices') /\ ctx' \in Nat /\ dev' \in Addrs /\ pc' \in AppPCs
    <2>1. ctx' = devices.count + 1
      BY DEF AddContext
    <2>2. dev' \in Addrs /\ pc' \in AppPCs
      BY DEF AddContext, AppPCs
    <2>3. ctx' \in Nat
      BY <1>3, <2>1
    <2>4. ctx' \in 1 .. devices'.count
      BY <1>2, <1>3, <2>1
    <2> QED
      BY <2>2, <2>3, <2>4 DEF Used
  <1>5. cb' = cb \/ (cb # Resting /\ cb' = [cb EXCEPT !.dangling = TRUE])
    BY DEF AddContext
  <1>6. /\ cb' = Resting \/ cb' \in [pc : {"found", "locked"}, event : Event, ctx : Nat, dangling : BOOLEAN]
        /\ cb' # Resting => cb # Resting /\ cb'.ctx = cb.ctx
    BY <1>5 DEF Typed, TypeOK
  <1>7. cb' # Resting => cb'.ctx \in 1 .. Capacity(devices')
    BY <1>2, <1>3, <1>6 DEF Typed
  <1>8. UNCHANGED <<status, got, link, hnd, events>>
    BY DEF AddContext, aceVars
  <1> QED
    BY <1>2, <1>3, <1>4, <1>6, <1>7, <1>8 DEF Typed, TypeOK

(* The steps of the application that leave the array alone.                *)
LEMMA CallTyped ==
  ASSUME Typed,
         \/ RequestConnect \/ ConnectRefused \/ ConnectHeard \/ ConnectTimeout \/ CopyHandle
         \/ RequestDisconnect \/ DisconnectRefused \/ DisconnectHeard \/ DisconnectTimeout
         \/ \E a \in Addrs : FindContext(a)
         \/ \E h \in Handles : NoContext(h)
  PROVE  Typed'
  <1> USE DEF Typed, TypeOK, AppPCs, Goto, Return, aceVars
  <1>1. CASE RequestConnect \/ RequestDisconnect
    BY <1>1 DEF RequestConnect, RequestDisconnect
  <1>2. CASE ConnectHeard \/ DisconnectHeard
    BY <1>2 DEF ConnectHeard, DisconnectHeard
  <1>3. CASE ConnectRefused \/ ConnectTimeout \/ DisconnectRefused \/ DisconnectTimeout
    <2>1. \E h \in HandleOrNull : got' = [got EXCEPT ![dev] = h]
      BY <1>3 DEF ConnectRefused, ConnectTimeout, DisconnectRefused, DisconnectTimeout, HandleOrNull
    <2>2. /\ pc' = "idle" /\ status' \in {"REFUSED", "TIMEOUT"} /\ ctx' = 0
          /\ UNCHANGED <<devices, dev, link, hnd, events, cb>>
      BY <1>3 DEF ConnectRefused, ConnectTimeout, DisconnectRefused, DisconnectTimeout
    <2> QED
      BY <2>1, <2>2
  <1>4. CASE CopyHandle
    <2>1. This.handle \in HandleOrNull
      BY <1>4, ContextInUse DEF CopyHandle, This, Context
    <2> QED
      BY <1>4, <2>1 DEF CopyHandle
  <1>5. ASSUME NEW a \in Addrs, FindContext(a) PROVE Typed'
    <2>1. ctx' = dca_find_by_handle(devices, got[a]) /\ ctx' # 0
      BY <1>5 DEF FindContext
    <2>2. ctx' \in 0 .. devices.count /\ InBounds(devices)
      BY <2>1, FindByHandle
    <2>3. ctx' \in Used(devices) /\ ctx' \in Nat
      <3> HIDE DEF Typed, TypeOK, AppPCs, Goto, Return
      <3> QED
        BY <2>1, <2>2 DEF Used, InBounds, Arrays
    <2> QED
      BY <1>5, <2>3 DEF FindContext
  <1>6. ASSUME NEW h \in Handles, NoContext(h) PROVE Typed'
    BY <1>6 DEF NoContext, HandleOrNull
  <1> QED
    BY <1>1, <1>2, <1>3, <1>4, <1>5, <1>6

(* dca_remove keeps the array in bounds.                                   *)
LEMMA RemoveTyped ==
  ASSUME Typed, RemoveContext
  PROVE  Typed'
  <1>1. InBounds(devices') /\ Capacity(devices') = Capacity(devices)
    <2>1. CASE dca_find_by_handle(devices, got[dev]) = 0
      BY <2>1 DEF RemoveContext, dca_remove, Typed
    <2>2. CASE dca_find_by_handle(devices, got[dev]) # 0
      BY <2>2, RemoveFound DEF RemoveContext, Typed
    <2> QED
      BY <2>1, <2>2
  <1>2. devices'.items \in Seq(Context) /\ devices'.count \in 0 .. Capacity(devices')
    BY <1>1 DEF InBounds, Arrays, Capacity
  <1> QED
    BY <1>1, <1>2 DEF RemoveContext, Return, Typed, TypeOK, aceVars, AppPCs, HandleOrNull

(* What the callback thread holds while it handles an event.               *)
LEMMA BusyRecord ==
  ASSUME Typed, cb.pc \in {"found", "locked"}
  PROVE  /\ cb # Resting
         /\ cb \in [pc : {"found", "locked"}, event : Event, ctx : Nat, dangling : BOOLEAN]
         /\ cb.ctx \in 1 .. Capacity(devices)
         /\ devices.items[cb.ctx] \in Context
  BY DEF Typed, TypeOK, Resting, InBounds, Arrays, Capacity

(* An update leaves a context, with its address.                           *)
LEMMA UpdatedContext ==
  ASSUME NEW c \in Context, NEW e \in Event
  PROVE  Updated(c, e) \in Context /\ Updated(c, e).address = c.address
  BY DEF Updated, Context, Event, HandleOrNull

\* CbLock and CbUpdate as assignments to the slot.
Locked(c) == [c EXCEPT !.held = TRUE]

(* The callback's lock changes one context.                                *)
LEMMA LockOverwrites ==
  ASSUME Typed, CbLock, ~cb.dangling
  PROVE  /\ Overwritten(devices', devices, cb.ctx, Locked(devices.items[cb.ctx]))
         /\ Locked(devices.items[cb.ctx]) \in Context
  <1>1. devices.items[cb.ctx] \in Context
    BY BusyRecord DEF CbLock
  <1> QED
    BY <1>1 DEF CbLock, Locked, Context, Overwritten

(* So does its update.                                                     *)
LEMMA UpdateOverwrites ==
  ASSUME Typed, CbUpdate, ~cb.dangling
  PROVE  LET c == devices.items[cb.ctx]
         IN  /\ Overwritten(devices', devices, cb.ctx, Updated(c, cb.event))
             /\ Updated(c, cb.event) \in Context
  <1>1. devices.items[cb.ctx] \in Context /\ cb.event \in Event
    BY BusyRecord DEF CbUpdate
  <1> QED
    BY <1>1, UpdatedContext DEF CbUpdate, Overwritten

\* The callback thread has found the context at i for the event e.
Found(e, i) == [pc |-> "found", event |-> e, ctx |-> i, dangling |-> FALSE]

(* What CbFind finds: nothing, or the first context with the address.      *)
LEMMA FindingFinds ==
  ASSUME Typed, CbFind
  PROVE  /\ cb' # Resting =>
              \E i \in Used(devices) :
                /\ cb' = Found(Head(events), i)
                /\ i = dca_find_by_addr(devices, Head(events).addr)
                /\ Head(events).kind # "failed"
         /\ cb' = Resting =>
              \/ dca_find_by_addr(devices, Head(events).addr) = 0
              \/ Head(events).kind = "failed"
  <1> DEFINE e == Head(events)
             i == dca_find_by_addr(devices, e.addr)
  <1>1. i # 0 => i \in Used(devices)
    BY FindByAddr DEF Typed
  <1>2. cb' = IF i = 0 \/ e.kind = "failed" THEN Resting ELSE Found(e, i)
    BY DEF CbFind, Found
  <1>3. Found(e, i) # Resting
    BY DEF Found, Resting
  <1> QED
    BY <1>1, <1>2, <1>3

(* The callback keeps the types.                                           *)
LEMMA CallbackTyped ==
  ASSUME Typed, Callback
  PROVE  Typed'
  <1>1. CASE CbFind
    <2>1. Head(events) \in Event /\ events' \in Seq(Event)
      BY <1>1, HeadTailProperties DEF CbFind, Typed, TypeOK
    <2>2. cb' # Resting => \E i \in Used(devices) : cb' = Found(Head(events), i)
      BY <1>1, FindingFinds
    <2>3. ASSUME cb' # Resting
          PROVE  /\ cb' \in [pc : {"found", "locked"}, event : Event, ctx : Nat, dangling : BOOLEAN]
                 /\ cb'.ctx \in 1 .. Capacity(devices)
      <3>1. PICK i \in Used(devices) : cb' = Found(Head(events), i)
        BY <2>2, <2>3
      <3>2. i \in Nat /\ i \in 1 .. Capacity(devices)
        BY ContextInUse DEF Used, Typed
      <3> QED
        BY <2>1, <3>1, <3>2 DEF Found
    <2>4. /\ cb' = Resting \/ cb' \in [pc : {"found", "locked"}, event : Event, ctx : Nat, dangling : BOOLEAN]
          /\ cb' # Resting => cb'.ctx \in 1 .. Capacity(devices)
      BY <2>3
    <2> QED
      BY <1>1, <2>1, <2>4 DEF CbFind, Typed, TypeOK, appVars
  <1>2. CASE CbLock
    <2>1. InBounds(devices') /\ Capacity(devices') = Capacity(devices) /\ devices'.count = devices.count
      <3>1. CASE cb.dangling
        BY <1>2, <3>1 DEF CbLock, Typed
      <3>2. CASE ~cb.dangling
        BY <1>2, <3>2, LockOverwrites, BusyRecord, Overwrite DEF CbLock, Typed
      <3> QED
        BY <3>1, <3>2
    <2>2. /\ cb' \in [pc : {"found", "locked"}, event : Event, ctx : Nat, dangling : BOOLEAN]
          /\ cb'.ctx \in 1 .. Capacity(devices)
      BY <1>2, BusyRecord DEF CbLock
    <2>3. devices'.items \in Seq(Context) /\ devices'.count \in 0 .. Capacity(devices')
      BY <2>1 DEF InBounds, Arrays, Capacity
    <2> QED
      BY <1>2, <2>1, <2>2, <2>3 DEF CbLock, Typed, TypeOK, appVars, aceVars, Used
  <1>3. CASE CbUpdate
    <2>1. InBounds(devices') /\ Capacity(devices') = Capacity(devices) /\ devices'.count = devices.count
      <3>1. CASE cb.dangling
        BY <1>3, <3>1 DEF CbUpdate, Typed
      <3>2. CASE ~cb.dangling
        BY <1>3, <3>2, BusyRecord, UpdateOverwrites, Overwrite DEF CbUpdate, Typed
      <3> QED
        BY <3>1, <3>2
    <2>2. devices'.items \in Seq(Context) /\ devices'.count \in 0 .. Capacity(devices')
      BY <2>1 DEF InBounds, Arrays, Capacity
    <2> QED
      BY <1>3, <2>1, <2>2 DEF CbUpdate, Typed, TypeOK, appVars, aceVars, Used
  <1> QED
    BY <1>1, <1>2, <1>3 DEF Callback

(* So does ace_bt.                                                         *)
LEMMA AceTyped ==
  ASSUME Typed, NEW a \in Addrs, Ace(a)
  PROVE  Typed'
  <1>1. ASSUME NEW kind \in {"connected", "disconnected", "failed"}, NEW h \in HandleOrNull, Emit(kind, a, h)
        PROVE  events' \in Seq(Event)
    <2>1. [kind |-> kind, addr |-> a, handle |-> h] \in Event
      BY DEF Event
    <2> QED
      BY <1>1, <2>1, AppendProperties DEF Emit, Typed, TypeOK
  <1>2. CASE LinkUp(a)
    <2>1. PICK h \in HandlesOf[a] : hnd' = [hnd EXCEPT ![a] = h] /\ Emit("connected", a, h)
      BY <1>2 DEF LinkUp
    <2>2. h \in HandleOrNull
      BY ConnectionAssumption DEF HandleOrNull
    <2> QED
      BY <1>1, <1>2, <2>1, <2>2 DEF LinkUp, Typed, TypeOK, appVars
  <1>3. CASE LinkFails(a)
    BY <1>1, <1>3 DEF LinkFails, Typed, TypeOK, appVars, HandleOrNull
  <1>4. CASE LinkDown(a)
    BY <1>1, <1>4 DEF LinkDown, Typed, TypeOK, appVars, HandleOrNull
  <1> QED
    BY <1>2, <1>3, <1>4 DEF Ace

(* So does every step.                                                     *)
LEMMA NextTyped == Typed /\ [Next]_vars => Typed'
  <1> SUFFICES ASSUME Typed, [Next]_vars PROVE Typed'
    OBVIOUS
  <1>1. CASE UNCHANGED vars
    BY <1>1 DEF vars, appVars, aceVars, Typed, TypeOK
  <1>2. CASE Next
    BY <1>2, AddTyped, CallTyped, RemoveTyped, CallbackTyped, AceTyped DEF Next, Continue
  <1> QED
    BY <1>1, <1>2

(* The array is in bounds in every state.                                  *)
LEMMA TypedInvariant == Spec => []Typed
  BY InitTyped, NextTyped, PTL DEF Spec

(* The variables keep their types, whatever fails, drops or is late.       *)
THEOREM TypeCorrect == Spec => []TypeOK
  <1>1. Typed => TypeOK
    BY DEF Typed
  <1> QED
    BY TypedInvariant, <1>1, PTL
----------------------------------------------------------------------------
(* Links that do not drop, and answers that are not late                   *)

Prompt == Faults \cap {"drop", "late"} = {}

\* There is no event between ace_bt and the application.
Quiet == events = <<>> /\ cb = Resting

EventOf(kind, a, h) == [kind |-> kind, addr |-> a, handle |-> h]

\* There is just the event e, in the queue or in the callback's hands.
Pending(e) ==
  \/ events = <<e>> /\ cb = Resting
  \/ events = <<>> /\ cb # Resting /\ cb.event = e

\* The context at i is the first one with its address.
FirstOf(i) == \A j \in 1 .. i - 1 : devices.items[j].address # devices.items[i].address

LinksInOrder ==
  /\ \A a \in Addrs : hnd[a] = NoHandle <=> link[a] \in {"down", "connecting"}
  /\ \A a, b \in Addrs : hnd[a] = hnd[b] /\ hnd[a] # NoHandle => a = b
  /\ \A a \in Addrs : link[a] = "connecting" => pc = "await connected" /\ dev = a
  /\ \A a \in Addrs : link[a] = "closing" => pc = "await disconnected" /\ dev = a

\* The call of bleDisconnect after ace_bt has taken its request.
Leaving == pc \in {"await disconnected", "remove"}

\* Only the first context of a device ever gets a handle, that of the link.
HandlesInOrder ==
  /\ \A i, j \in Used(devices) :
       devices.items[i].handle = devices.items[j].handle /\ devices.items[i].handle # NoHandle => i = j
  /\ \A i \in Used(devices) :
       LET c == devices.items[i]
       IN c.handle # NoHandle =>
            /\ FirstOf(i)
            /\ hnd[c.address] = c.handle \/ (Leaving /\ i = ctx)

\* A handle in use is that of a link that is up, and of a context.
GotInOrder ==
  \A a \in Addrs :
    got[a] # NoHandle =>
      /\ \E i \in Used(devices) :
           /\ devices.items[i].address = a
           /\ devices.items[i].handle = got[a]
           /\ ~devices.items[i].disconnected \/ (Leaving /\ a = dev)
      /\ (link[a] = "up" /\ hnd[a] = got[a]) \/ (Leaving /\ a = dev)

Connected ==
  /\ Quiet
  /\ link[dev] = "up"
  /\ This.connected
  /\ ~This.disconnected
  /\ This.handle = hnd[dev]

\* The answer is under way, or has gone to an older context of the device.
Unconnected ==
  /\ ~This.connected
  /\ This.handle = NoHandle
  /\ \/ Quiet
     \/ link[dev] = "up" /\ Pending(EventOf("connected", dev, hnd[dev]))
     \/ /\ link[dev] = "down"
        /\ events = <<EventOf("failed", dev, NoHandle)>> /\ cb = Resting

\* The steps of bleConnect, those of bleDisconnect, and neither.
CallInOrder ==
  /\ pc = "idle" => Quiet
  /\ pc \in {"request connect", "await connected", "copy handle"} =>
       got[dev] = NoHandle /\ This.address = dev
  /\ pc = "request connect" => Quiet /\ ~This.connected /\ This.handle = NoHandle
  /\ pc = "await connected" => Connected \/ Unconnected
  /\ pc = "copy handle" => Connected
  /\ pc \in {"request disconnect", "await disconnected", "remove"} =>
       got[dev] # NoHandle /\ This.address = dev /\ This.handle = got[dev]
  /\ pc = "request disconnect" => Quiet
  /\ pc = "await disconnected" =>
       \/ Quiet /\ link[dev] = "closing" /\ hnd[dev] = got[dev] /\ ~This.disconnected
       \/ /\ link[dev] = "down" /\ ~This.disconnected
          /\ Pending(EventOf("disconnected", dev, got[dev]))
       \/ Quiet /\ link[dev] = "down" /\ This.disconnected
  /\ pc = "remove" => Quiet /\ link[dev] = "down"

CallbackInOrder == CallbackHitsContext /\ (cb # Resting => FirstOf(cb.ctx))

InOrder ==
  /\ LinksInOrder
  /\ HandlesInOrder
  /\ GotInOrder
  /\ CallInOrder
  /\ CallbackInOrder
  /\ NoOrphanedLock

PromptInv == Typed /\ InOrder

(* All is in order while there is no context.                              *)
LEMMA InitInOrder == Init => InOrder
  <1> SUFFICES ASSUME Init PROVE InOrder
    OBVIOUS
  <1>1. Used(devices) = {}
    BY DEF Init, Empty, Used
  <1> QED
    BY <1>1 DEF Init, InOrder, LinksInOrder, HandlesInOrder, GotInOrder, CallInOrder,
       CallbackInOrder, CallbackHitsContext, NoOrphanedLock, Quiet

(* Two contexts that both come first with their address are one.           *)
LEMMA OneFirst ==
  ASSUME Typed, NEW i \in Used(devices), NEW j \in Used(devices),
         FirstOf(i), FirstOf(j), devices.items[i].address = devices.items[j].address
  PROVE  i = j
  <1>1. devices.count \in Nat
    BY DEF Typed, InBounds, Arrays
  <1> QED
    BY <1>1 DEF Used, FirstOf

(* A handle in use, and that of a call of bleDisconnect, has one context.  *)
LEMMA OneContext ==
  ASSUME HandlesInOrder, NEW i \in Used(devices), NEW j \in Used(devices),
         devices.items[i].handle = devices.items[j].handle, devices.items[i].handle # NoHandle
  PROVE  i = j
  BY DEF HandlesInOrder

(* What a step keeps that leaves the array and the links alone.            *)
LEMMA SameHandles ==
  ASSUME HandlesInOrder, UNCHANGED <<devices, hnd>>, Leaving => Leaving' /\ ctx' = ctx
  PROVE  HandlesInOrder'
  <1>1. \A i : FirstOf(i)' <=> FirstOf(i)
    BY DEF FirstOf
  <1>2. Used(devices)' = Used(devices)
    BY DEF Used
  <1> QED
    BY <1>1, <1>2 DEF HandlesInOrder

(* Handles stay in order when none is added and their links do not change. *)
LEMMA SameGot ==
  ASSUME GotInOrder, UNCHANGED devices, Leaving => Leaving' /\ dev' = dev,
         \A a \in Addrs :
           got'[a] = NoHandle \/ (got'[a] = got[a] /\ link'[a] = link[a] /\ hnd'[a] = hnd[a])
  PROVE  GotInOrder'
  <1>2. Used(devices)' = Used(devices)
    BY DEF Used
  <1> QED
    BY <1>2 DEF GotInOrder

(* The callback's context stays in order when neither changes.             *)
LEMMA SameCallback ==
  ASSUME CallbackInOrder, NoOrphanedLock, UNCHANGED <<devices, cb>>
  PROVE  CallbackInOrder' /\ NoOrphanedLock'
  <1>1. \A i : FirstOf(i)' <=> FirstOf(i)
    BY DEF FirstOf
  <1>2. Used(devices)' = Used(devices)
    BY DEF Used
  <1> QED
    BY <1>1, <1>2 DEF CallbackInOrder, CallbackHitsContext, NoOrphanedLock

(* A request to connect is made of a link that is down.                    *)
LEMMA RequestConnectInOrder ==
  ASSUME PromptInv, RequestConnect
  PROVE  InOrder'
  <1> USE DEF PromptInv, InOrder
  <1>1. LinksInOrder'
    BY DEF RequestConnect, Goto, LinksInOrder, Typed, TypeOK
  <1>2. HandlesInOrder'
    BY SameHandles DEF RequestConnect, Goto, Leaving
  <1>3. GotInOrder'
    <2>1. got[dev] = NoHandle
      BY DEF RequestConnect, Goto, CallInOrder
    <2> QED
      BY <2>1, SameGot DEF RequestConnect, Goto, Leaving, Typed, TypeOK
  <1>4. CallInOrder'
    BY DEF RequestConnect, Goto, CallInOrder, Unconnected, Quiet, This
  <1>5. CallbackInOrder' /\ NoOrphanedLock'
    BY SameCallback DEF RequestConnect
  <1> QED
    BY <1>1, <1>2, <1>3, <1>4, <1>5

(* No event about a device is under way when its link is settled.          *)
LEMMA SettledIsQuiet ==
  ASSUME NEW e, Settled(e.addr)
  PROVE  events # <<e>> /\ ~Pending(e)
  <1>1. Len(<<e>>) = 1 /\ <<e>>[1] = e /\ 1 \in 1 .. 1
    OBVIOUS
  <1>2. events # <<e>>
    BY <1>1 DEF Settled
  <1> QED
    BY <1>2 DEF Settled, Pending

(* Both ways for bleConnect to fail.                                       *)
LEMMA NotConnectedInOrder ==
  ASSUME PromptInv, Prompt, ConnectRefused \/ ConnectTimeout
  PROVE  InOrder'
  <1> USE DEF PromptInv, InOrder
  <1>1. /\ UNCHANGED <<devices, link, hnd, events, cb, dev>>
        /\ pc \in {"request connect", "await connected"}
        /\ pc' = "idle"
        /\ got' = [got EXCEPT ![dev] = NoHandle]
    BY DEF ConnectRefused, ConnectTimeout, Return, aceVars
  <1>2. Quiet /\ link[dev] # "connecting"
    <2>1. CASE ConnectRefused
      BY <2>1 DEF ConnectRefused, CallInOrder, LinksInOrder, Typed, TypeOK
    <2>2. CASE ConnectTimeout
      <3>1. pc = "await connected" /\ ~This.connected /\ Settled(dev)
        BY <2>2 DEF ConnectTimeout, TimedOut, Prompt
      <3>2. Unconnected
        BY <3>1 DEF CallInOrder, Connected
      <3> DEFINE yes == EventOf("connected", dev, hnd[dev])
                 no == EventOf("failed", dev, NoHandle)
      <3>3. yes.addr = dev /\ no.addr = dev
        BY DEF EventOf
      <3>4. Quiet \/ Pending(yes) \/ events = <<no>>
        BY <3>2 DEF Unconnected
      <3> HIDE DEF yes, no
      <3>5. Quiet
        BY <3>1, <3>3, <3>4, SettledIsQuiet
      <3> QED
        BY <3>1, <3>5 DEF Settled
    <2> QED
      BY <2>1, <2>2
  <1>3. LinksInOrder'
    BY <1>1, <1>2 DEF LinksInOrder
  <1>4. HandlesInOrder'
    BY <1>1, SameHandles DEF Leaving
  <1>5. GotInOrder'
    BY <1>1, SameGot DEF Leaving, Typed, TypeOK
  <1>6. CallInOrder'
    BY <1>1, <1>2 DEF CallInOrder, Quiet
  <1>7. CallbackInOrder' /\ NoOrphanedLock'
    BY <1>1, SameCallback
  <1> QED
    BY <1>3, <1>4, <1>5, <1>6, <1>7

(* bleConnect sees the flag that the callback has set.                     *)
LEMMA ConnectHeardInOrder ==
  ASSUME PromptInv, ConnectHeard
  PROVE  InOrder'
  <1> USE DEF PromptInv, InOrder
  <1>1. /\ UNCHANGED <<devices, dev, ctx, got, link, hnd, events, cb>>
        /\ pc = "await connected"
        /\ pc' = "copy handle"
    BY DEF ConnectHeard, Goto, aceVars
  <1>2. Connected
    BY DEF ConnectHeard, Goto, Heard, CallInOrder, Unconnected
  <1>3. LinksInOrder'
    BY <1>1, <1>2 DEF LinksInOrder, Connected
  <1>4. HandlesInOrder'
    BY <1>1, SameHandles DEF Leaving
  <1>5. GotInOrder'
    BY <1>1, SameGot DEF Leaving
  <1>6. CallInOrder'
    BY <1>1, <1>2 DEF CallInOrder, Connected, Quiet, This
  <1>7. CallbackInOrder' /\ NoOrphanedLock'
    BY <1>1, SameCallback
  <1> QED
    BY <1>3, <1>4, <1>5, <1>6, <1>7

(* It hands out the handle of the link that is up.                         *)
LEMMA CopyHandleInOrder ==
  ASSUME PromptInv, CopyHandle
  PROVE  InOrder'
  <1> USE DEF PromptInv, InOrder
  <1>1. /\ UNCHANGED <<devices, dev, link, hnd, events, cb>>
        /\ pc = "copy handle"
        /\ pc' = "idle"
        /\ got' = [got EXCEPT ![dev] = hnd[dev]]
        /\ Connected
        /\ This.address = dev
    BY DEF CopyHandle, Return, aceVars, CallInOrder, Connected
  <1>2. Used(devices)' = Used(devices)
    BY <1>1 DEF Used
  <1>3. LinksInOrder'
    BY <1>1 DEF LinksInOrder
  <1>4. HandlesInOrder'
    BY <1>1, SameHandles DEF Leaving
  <1>5. GotInOrder'
    <2>1. ctx \in Used(devices)
      BY <1>1 DEF Typed
    <2> SUFFICES ASSUME NEW a \in Addrs, got'[a] # NoHandle
                 PROVE  /\ \E i \in Used(devices) :
                             /\ devices.items[i].address = a
                             /\ devices.items[i].handle = got'[a]
                             /\ ~devices.items[i].disconnected
                        /\ link[a] = "up"
                        /\ hnd[a] = got'[a]
      BY <1>1, <1>2 DEF GotInOrder
    <2>2. CASE a = dev
      BY <1>1, <2>1, <2>2 DEF Connected, This, Typed, TypeOK
    <2>3. CASE a # dev
      BY <1>1, <2>3 DEF GotInOrder, Leaving, Typed, TypeOK
    <2> QED
      BY <2>2, <2>3
  <1>6. CallInOrder'
    BY <1>1 DEF CallInOrder, Connected, Quiet
  <1>7. CallbackInOrder' /\ NoOrphanedLock'
    BY <1>1, SameCallback
  <1> QED
    BY <1>3, <1>4, <1>5, <1>6, <1>7

(* The context that a handle in use finds is that of its device.           *)
LEMMA HandleFinds ==
  ASSUME Typed, HandlesInOrder, GotInOrder, NEW a \in Addrs, got[a] # NoHandle,
         NEW i, i = dca_find_by_handle(devices, got[a])
  PROVE  /\ i \in Used(devices) /\ i # 0
         /\ devices.items[i].address = a
         /\ devices.items[i].handle = got[a]
         /\ devices.items[i].disconnected => Leaving /\ a = dev
  <1>1. InBounds(devices)
    BY DEF Typed
  <1>2. /\ i = 0 => \A j \in Used(devices) : devices.items[j].handle # got[a]
        /\ i # 0 => i \in Used(devices) /\ devices.items[i].handle = got[a]
    BY <1>1, FindByHandle
  <1>3. PICK j \in Used(devices) :
          /\ devices.items[j].address = a
          /\ devices.items[j].handle = got[a]
          /\ ~devices.items[j].disconnected \/ (Leaving /\ a = dev)
    BY DEF GotInOrder
  <1>4. i \in Used(devices) /\ i # 0 /\ i = j
    BY <1>2, <1>3, OneContext
  <1> QED
    BY <1>3, <1>4

(* bleDisconnect finds the context of its handle.                          *)
LEMMA FindContextInOrder ==
  ASSUME PromptInv, NEW a \in Addrs, FindContext(a)
  PROVE  InOrder'
  <1> USE DEF PromptInv, InOrder
  <1>1. /\ UNCHANGED <<devices, got, link, hnd, events, cb>>
        /\ pc = "idle"
        /\ pc' = "request disconnect"
        /\ got[a] # NoHandle
        /\ ctx' = dca_find_by_handle(devices, got[a])
        /\ dev' = a
    BY DEF FindContext, Goto, aceVars
  <1>2. devices.items[ctx'].address = a /\ devices.items[ctx'].handle = got[a]
    <2>1. PICK i : i = dca_find_by_handle(devices, got[a])
      OBVIOUS
    <2>2. devices.items[i].address = a /\ devices.items[i].handle = got[a]
      BY ZenonT(60), <1>1, <2>1, HandleFinds
    <2> QED
      BY <1>1, <2>1, <2>2
  <1>3. LinksInOrder'
    BY <1>1 DEF LinksInOrder
  <1>4. HandlesInOrder'
    BY <1>1, SameHandles DEF Leaving
  <1>5. GotInOrder'
    BY <1>1, SameGot DEF Leaving
  <1>6. CallInOrder'
    BY <1>1, <1>2 DEF CallInOrder, Quiet, This
  <1>7. CallbackInOrder' /\ NoOrphanedLock'
    BY <1>1, SameCallback
  <1> QED
    BY <1>3, <1>4, <1>5, <1>6, <1>7

(* It finds none only for a handle that is no longer in use.               *)
LEMMA NoContextInOrder ==
  ASSUME PromptInv, NEW h \in Handles, NoContext(h)
  PROVE  InOrder'
  <1> USE DEF PromptInv, InOrder
  <1>1. /\ UNCHANGED <<devices, pc, dev, ctx, link, hnd, events, cb>>
        /\ pc = "idle"
        /\ \A a \in Addrs : got'[a] = NoHandle \/ got'[a] = got[a]
    BY DEF NoContext, aceVars
  <1>3. LinksInOrder'
    BY <1>1 DEF LinksInOrder
  <1>4. HandlesInOrder'
    BY <1>1, SameHandles DEF Leaving
  <1>5. GotInOrder'
    BY <1>1, SameGot DEF Leaving
  <1>6. CallInOrder'
    BY <1>1 DEF CallInOrder, Quiet, This
  <1>7. CallbackInOrder' /\ NoOrphanedLock'
    BY <1>1, SameCallback
  <1> QED
    BY <1>3, <1>4, <1>5, <1>6, <1>7

(* A request to disconnect is made of the link that the handle is of.      *)
LEMMA RequestDisconnectInOrder ==
  ASSUME PromptInv, RequestDisconnect
  PROVE  InOrder'
  <1> USE DEF PromptInv, InOrder
  <1>1. /\ UNCHANGED <<devices, dev, ctx, got, hnd, events, cb>>
        /\ pc = "request disconnect"
        /\ pc' = "await disconnected"
        /\ link[dev] = "up"
        /\ hnd[dev] = got[dev]
        /\ link' = [link EXCEPT ![dev] = "closing"]
    BY DEF RequestDisconnect, Goto
  <1>2. Used(devices)' = Used(devices)
    BY <1>1 DEF Used
  <1>3. LinksInOrder'
    BY <1>1 DEF LinksInOrder, Typed, TypeOK
  <1>4. HandlesInOrder'
    BY <1>1, SameHandles DEF Leaving
  <1>5. GotInOrder'
    BY ZenonT(60), <1>1, <1>2 DEF GotInOrder, Leaving, Typed, TypeOK
  <1>6. CallInOrder'
    <2>1. This.handle = got[dev] /\ got[dev] # NoHandle /\ ctx \in Used(devices)
      BY <1>1 DEF CallInOrder, Typed
    <2>2. PICK i \in Used(devices) :
            devices.items[i].handle = got[dev] /\ ~devices.items[i].disconnected
      BY <1>1, <2>1 DEF GotInOrder, Leaving, Typed, TypeOK
    <2>3. ~This.disconnected
      BY <2>1, <2>2, OneContext DEF This
    <2>4. link'[dev] = "closing"
      BY <1>1 DEF Typed, TypeOK
    <2> QED
      BY <1>1, <2>3, <2>4 DEF CallInOrder, Quiet, This
  <1>7. CallbackInOrder' /\ NoOrphanedLock'
    BY <1>1, SameCallback
  <1> QED
    BY <1>3, <1>4, <1>5, <1>6, <1>7

(* A refused one leaves link and context as they are.                      *)
LEMMA DisconnectRefusedInOrder ==
  ASSUME PromptInv, DisconnectRefused
  PROVE  InOrder'
  <1> USE DEF PromptInv, InOrder
  <1>1. /\ UNCHANGED <<devices, dev, link, hnd, events, cb>>
        /\ pc = "request disconnect"
        /\ pc' = "idle"
        /\ got' = [got EXCEPT ![dev] = NoHandle]
    BY DEF DisconnectRefused, Return, aceVars
  <1>3. LinksInOrder'
    BY <1>1 DEF LinksInOrder
  <1>4. HandlesInOrder'
    BY <1>1, SameHandles DEF Leaving
  <1>5. GotInOrder'
    BY <1>1, SameGot DEF Leaving, Typed, TypeOK
  <1>6. CallInOrder'
    BY <1>1 DEF CallInOrder, Quiet
  <1>7. CallbackInOrder' /\ NoOrphanedLock'
    BY <1>1, SameCallback
  <1> QED
    BY <1>3, <1>4, <1>5, <1>6, <1>7

(* bleDisconnect sees the flag that the callback has set.                  *)
LEMMA DisconnectHeardInOrder ==
  ASSUME PromptInv, DisconnectHeard
  PROVE  InOrder'
  <1> USE DEF PromptInv, InOrder
  <1>1. /\ UNCHANGED <<devices, dev, ctx, got, link, hnd, events, cb>>
        /\ pc = "await disconnected"
        /\ pc' = "remove"
        /\ Quiet /\ link[dev] = "down"
    BY DEF DisconnectHeard, Goto, Heard, aceVars, CallInOrder
  <1>3. LinksInOrder'
    BY <1>1 DEF LinksInOrder
  <1>4. HandlesInOrder'
    BY <1>1, SameHandles DEF Leaving
  <1>5. GotInOrder'
    BY <1>1, SameGot DEF Leaving
  <1>6. CallInOrder'
    BY <1>1 DEF CallInOrder, Quiet, This
  <1>7. CallbackInOrder' /\ NoOrphanedLock'
    BY <1>1, SameCallback
  <1> QED
    BY <1>3, <1>4, <1>5, <1>6, <1>7

(* bleDisconnect always hears of the end of the link.                      *)
LEMMA NoDisconnectTimeout ==
  ASSUME PromptInv, Prompt, DisconnectTimeout
  PROVE  FALSE
  <1>1. pc = "await disconnected" /\ ~This.disconnected /\ Settled(dev)
    BY DEF DisconnectTimeout, TimedOut, Prompt
  <1> DEFINE gone == EventOf("disconnected", dev, got[dev])
  <1>2. gone.addr = dev
    BY DEF EventOf
  <1>3. link[dev] = "closing" \/ Pending(gone)
    BY <1>1 DEF PromptInv, InOrder, CallInOrder
  <1> HIDE DEF gone
  <1> QED
    BY <1>1, <1>2, <1>3, SettledIsQuiet DEF Settled

(* The array after AddContext.                                             *)
LEMMA AddArray ==
  ASSUME Typed, NEW a \in Addrs, AddContext(a)
  PROVE  /\ Used(devices) \subseteq Used(devices')
         /\ \A j \in Used(devices) : devices'.items[j] = devices.items[j]
         /\ \A j \in Used(devices') : j \notin Used(devices) => j = ctx'
         /\ \A j \in Used(devices) : 1 .. j - 1 \subseteq Used(devices)
         /\ ctx' \in Used(devices') /\ ctx' \notin Used(devices)
         /\ devices'.items[ctx'] = Fresh(a)
  <1>1. Fresh(a) \in Context /\ InBounds(devices) /\ devices.count \in Nat
    BY DEF Fresh, Context, HandleOrNull, Typed, InBounds, Arrays
  <1>2. devices' = dca_add_new(devices, Fresh(a)) /\ ctx' = devices.count + 1
    BY DEF AddContext
  <1>3. /\ devices'.count = devices.count + 1
        /\ devices'.items[devices.count + 1] = Fresh(a)
        /\ \A j \in Used(devices) : devices'.items[j] = devices.items[j]
    BY <1>1, <1>2, AddNew
  <1> QED
    BY <1>1, <1>2, <1>3 DEF Used

(* A new context comes behind the others, while nothing is under way.      *)
LEMMA AddContextInOrder ==
  ASSUME PromptInv, NEW a \in Addrs, AddContext(a)
  PROVE  InOrder'
  <1> USE DEF PromptInv, InOrder
  <1>1. /\ UNCHANGED <<got, link, hnd, events>>
        /\ pc = "idle"
        /\ pc' = "request connect"
        /\ got[a] = NoHandle
        /\ dev' = a
    BY DEF AddContext, aceVars
  <1>2. cb = Resting /\ cb' = Resting /\ events = <<>>
    BY <1>1 DEF AddContext, CallInOrder, Quiet
  <1>3. /\ Used(devices) \subseteq Used(devices')
        /\ \A j \in Used(devices) : devices'.items[j] = devices.items[j]
        /\ \A j \in Used(devices') : j \notin Used(devices) => j = ctx'
        /\ \A j \in Used(devices) : 1 .. j - 1 \subseteq Used(devices)
        /\ ctx' \in Used(devices') /\ devices'.items[ctx'] = Fresh(a)
    BY AddArray
  <1>4. /\ Fresh(a).handle = NoHandle /\ Fresh(a).address = a
        /\ ~Fresh(a).held /\ ~Fresh(a).connected
    BY DEF Fresh
  <1>5. \A i \in Used(devices) : FirstOf(i) => FirstOf(i)'
    BY <1>3 DEF FirstOf
  <1>6. LinksInOrder'
    BY <1>1 DEF LinksInOrder
  <1>7. HandlesInOrder'
    <2>1. \A i \in Used(devices)' : devices'.items[i].handle # NoHandle =>
            i \in Used(devices) /\ devices'.items[i] = devices.items[i]
      BY <1>3, <1>4
    <2> QED
      BY <1>1, <1>5, <2>1 DEF HandlesInOrder, Leaving
  <1>8. GotInOrder'
    <2> SUFFICES ASSUME NEW b \in Addrs, got[b] # NoHandle
                 PROVE  /\ \E i \in Used(devices') :
                             /\ devices'.items[i].address = b
                             /\ devices'.items[i].handle = got[b]
                             /\ ~devices'.items[i].disconnected
                        /\ link[b] = "up" /\ hnd[b] = got[b]
      BY <1>1 DEF GotInOrder
    <2>1. PICK i \in Used(devices) :
            /\ devices.items[i].address = b
            /\ devices.items[i].handle = got[b]
            /\ ~devices.items[i].disconnected
      BY <1>1 DEF GotInOrder, Leaving
    <2>2. link[b] = "up" /\ hnd[b] = got[b]
      BY <1>1 DEF GotInOrder, Leaving
    <2> QED
      BY <1>3, <2>1, <2>2
  <1>9. CallInOrder'
    BY <1>1, <1>2, <1>3, <1>4 DEF CallInOrder, Quiet, This
  <1>10. NoOrphanedLock'
    BY <1>2, <1>3, <1>4 DEF NoOrphanedLock
  <1> QED
    BY <1>2, <1>6, <1>7, <1>8, <1>9, <1>10 DEF CallbackInOrder, CallbackHitsContext

(* The array after RemoveContext: the context of the call is gone.         *)
LEMMA RemoveArray ==
  ASSUME PromptInv, RemoveContext
  PROVE  /\ \A j \in Used(devices') : /\ Before(j, ctx) \in Used(devices)
                                      /\ Before(j, ctx) # ctx
                                      /\ devices'.items[j] = devices.items[Before(j, ctx)]
         /\ \A i, j \in Used(devices') : Before(i, ctx) = Before(j, ctx) => i = j
         /\ \A i \in Used(devices) : i # ctx => \E j \in Used(devices') : i = Before(j, ctx)
         /\ \A i \in Used(devices') : \A j \in 1 .. i - 1 :
              j \in Used(devices') /\ Before(j, ctx) \in 1 .. Before(i, ctx) - 1
  <1>1. PICK i : i = dca_find_by_handle(devices, got[dev])
    OBVIOUS
  <1>2. /\ got[dev] # NoHandle /\ This.handle = got[dev]
        /\ ctx \in Used(devices) /\ dev \in Addrs /\ InBounds(devices)
    BY DEF RemoveContext, PromptInv, InOrder, CallInOrder, Typed, TypeOK
  <1>3. i \in Used(devices) /\ i # 0 /\ devices.items[i].handle = got[dev]
    BY <1>1, <1>2, HandleFinds DEF PromptInv, InOrder
  <1>4. i = ctx
    BY <1>2, <1>3, OneContext DEF This, PromptInv, InOrder
  <1>5. devices' = dca_remove(devices, got[dev])
    BY DEF RemoveContext
  <1>6. /\ \A j \in Used(devices') : /\ Before(j, i) \in Used(devices)
                                     /\ Before(j, i) # i
                                     /\ devices'.items[j] = devices.items[Before(j, i)]
        /\ \A k, j \in Used(devices') : Before(k, i) = Before(j, i) => k = j
        /\ \A k \in Used(devices) : k # i => \E j \in Used(devices') : k = Before(j, i)
        /\ \A k \in Used(devices') : \A j \in 1 .. k - 1 :
             j \in Used(devices') /\ Before(j, i) \in 1 .. Before(k, i) - 1
    BY <1>1, <1>2, <1>3, <1>5, RemoveShifts
  <1> QED
    BY <1>4, <1>6

(* The removed context is at rest, and those behind it move as they are.   *)
LEMMA RemoveContextInOrder ==
  ASSUME PromptInv, RemoveContext
  PROVE  InOrder'
  <1> USE DEF PromptInv, InOrder
  <1>1. /\ UNCHANGED <<dev, link, hnd, events, cb>>
        /\ pc = "remove"
        /\ pc' = "idle"
        /\ got' = [got EXCEPT ![dev] = NoHandle]
        /\ Quiet /\ link[dev] = "down"
        /\ got[dev] # NoHandle /\ This.address = dev /\ This.handle = got[dev]
        /\ ctx \in Used(devices)
    BY DEF RemoveContext, Return, aceVars, CallInOrder, Typed
  <1>3. /\ \A j \in Used(devices') : /\ Before(j, ctx) \in Used(devices)
                                     /\ Before(j, ctx) # ctx
                                     /\ devices'.items[j] = devices.items[Before(j, ctx)]
        /\ \A i, j \in Used(devices') : Before(i, ctx) = Before(j, ctx) => i = j
        /\ \A i \in Used(devices) : i # ctx => \E j \in Used(devices') : i = Before(j, ctx)
        /\ \A i \in Used(devices') : \A j \in 1 .. i - 1 :
             j \in Used(devices') /\ Before(j, ctx) \in 1 .. Before(i, ctx) - 1
    BY RemoveArray
  <1>4. \A j \in Used(devices') : FirstOf(Before(j, ctx)) => FirstOf(j)'
    BY <1>3 DEF FirstOf
  <1>5. LinksInOrder'
    BY <1>1 DEF LinksInOrder
  <1>6. HandlesInOrder'
    BY <1>1, <1>3, <1>4 DEF HandlesInOrder, Leaving
  <1>7. GotInOrder'
    <2> SUFFICES ASSUME NEW a \in Addrs, got'[a] # NoHandle
                 PROVE  /\ \E j \in Used(devices') :
                             /\ devices'.items[j].address = a
                             /\ devices'.items[j].handle = got'[a]
                             /\ ~devices'.items[j].disconnected
                        /\ link'[a] = "up" /\ hnd'[a] = got'[a]
      BY DEF GotInOrder
    <2>1. a # dev /\ got'[a] = got[a]
      BY <1>1 DEF Typed, TypeOK
    <2>2. PICK i \in Used(devices) :
            /\ devices.items[i].address = a
            /\ devices.items[i].handle = got[a]
            /\ ~devices.items[i].disconnected
      BY <2>1 DEF GotInOrder
    <2>3. link[a] = "up" /\ hnd[a] = got[a]
      BY <2>1 DEF GotInOrder
    <2>4. i # ctx
      BY <1>1, <2>1, <2>2 DEF This
    <2> QED
      BY <1>1, <1>3, <2>1, <2>2, <2>3, <2>4
  <1>8. CallInOrder'
    BY <1>1 DEF CallInOrder, Quiet
  <1>9. NoOrphanedLock'
    BY <1>1, <1>3 DEF NoOrphanedLock, Quiet
  <1> QED
    BY <1>1, <1>5, <1>6, <1>7, <1>8, <1>9 DEF CallbackInOrder, CallbackHitsContext, Quiet

(* Which event is under way, and for whom.                                 *)
LEMMA EventUnderWay ==
  ASSUME PromptInv, ~Quiet
  PROVE  \/ /\ pc = "await connected" /\ Unconnected /\ link[dev] = "up"
            /\ Pending(EventOf("connected", dev, hnd[dev]))
         \/ /\ pc = "await connected" /\ Unconnected /\ link[dev] = "down"
            /\ events = <<EventOf("failed", dev, NoHandle)>> /\ cb = Resting
         \/ /\ pc = "await disconnected" /\ link[dev] = "down" /\ ~This.disconnected
            /\ Pending(EventOf("disconnected", dev, got[dev]))
  BY DEF PromptInv, InOrder, CallInOrder, Connected, Unconnected, Typed, TypeOK, AppPCs

(* The fields of an event.                                                 *)
LEMMA EventFields ==
  \A kind, a, h : /\ EventOf(kind, a, h).kind = kind
                  /\ EventOf(kind, a, h).addr = a
                  /\ EventOf(kind, a, h).handle = h
  BY DEF EventOf

(* A sequence of one event determines it.                                  *)
LEMMA Singletons == \A d, e : <<d>> = <<e>> => d = e
  OBVIOUS

(* A waiter's context is one in use, for its device.                       *)
LEMMA WaitersContext ==
  ASSUME PromptInv, pc \in {"await connected", "await disconnected"}
  PROVE  ctx \in Used(devices) /\ This.address = dev
  BY DEF PromptInv, InOrder, CallInOrder, Typed

(* The callback finds the context on which the caller waits.               *)
LEMMA CbFindInOrder ==
  ASSUME PromptInv, CbFind
  PROVE  InOrder'
  <1> USE DEF PromptInv, InOrder
  <1>1. /\ UNCHANGED <<devices, pc, dev, ctx, got, link, hnd>>
        /\ cb = Resting
        /\ events # <<>>
        /\ events' = Tail(events)
    BY DEF CbFind, appVars
  <1>2. ~Quiet
    BY <1>1 DEF Quiet
  <1>3. PICK e : events = <<e>> /\ e.addr = dev
    <2>1. \E kind, h : events = <<EventOf(kind, dev, h)>>
      BY <1>1, <1>2, EventUnderWay DEF Pending
    <2> QED
      BY <2>1, EventFields
  <1>4. events' = <<>> /\ Head(events) = e
    BY <1>1, <1>3
  <1>5. ctx \in Used(devices) /\ This.address = dev
    BY <1>2, EventUnderWay, WaitersContext
  <1>6. LinksInOrder'
    BY <1>1 DEF LinksInOrder
  <1>7. HandlesInOrder'
    BY <1>1, SameHandles DEF Leaving
  <1>8. GotInOrder'
    BY <1>1, SameGot DEF Leaving
  <1>9. CASE e.kind = "failed"
    <2>1. cb' = Resting
      BY <1>4, <1>9, FindingFinds
    <2>2. pc = "await connected" /\ Unconnected
      <3>1. \A h : /\ ~Pending(EventOf("connected", dev, h))
                   /\ ~Pending(EventOf("disconnected", dev, h))
        BY <1>1, <1>3, <1>9, Singletons, EventFields DEF Pending
      <3> QED
        BY <1>2, <3>1, EventUnderWay
    <2>3. CallInOrder'
      BY <1>1, <1>4, <2>1, <2>2 DEF CallInOrder, Unconnected, Quiet, This
    <2> QED
      BY <1>1, <1>6, <1>7, <1>8, <2>1, <2>3, SameCallback
  <1>10. CASE e.kind # "failed"
    <2>1. dca_find_by_addr(devices, e.addr) # 0
      BY <1>3, <1>5, FindByAddr DEF This, Typed
    <2>2. cb' # Resting
      BY <1>4, <1>10, <2>1, FindingFinds
    <2>3. PICK i \in Used(devices) : cb' = Found(e, i) /\ i = dca_find_by_addr(devices, e.addr)
      BY <1>4, <2>2, FindingFinds
    <2>4. devices.items[i].address = dev /\ FirstOf(i)
      BY <1>3, <2>1, <2>3, FindByAddr DEF FirstOf, Typed
    <2>5. cb'.event = e /\ cb'.ctx = i /\ cb'.dangling = FALSE
      BY <2>3 DEF Found
    <2>6. CallbackInOrder'
      <3>1. FirstOf(i)' /\ i \in Used(devices')
        BY <1>1, <2>4 DEF FirstOf, Used
      <3> QED
        BY <1>1, <1>3, <2>4, <2>5, <3>1 DEF CallbackInOrder, CallbackHitsContext
    <2>7. NoOrphanedLock'
      BY <1>1 DEF NoOrphanedLock, Used
    <2>8. Pending(e)' /\ (\A d : Pending(d) => d = e)
      BY <1>1, <1>3, <1>4, <2>2, <2>5, Singletons DEF Pending
    <2>9. CallInOrder'
      <3>1. \/ /\ pc = "await connected" /\ Unconnected /\ link[dev] = "up"
               /\ e = EventOf("connected", dev, hnd[dev])
            \/ /\ pc = "await disconnected" /\ link[dev] = "down" /\ ~This.disconnected
               /\ e = EventOf("disconnected", dev, got[dev])
        <4>1. events # <<EventOf("failed", dev, NoHandle)>>
          BY <1>3, <1>10, Singletons, EventFields
        <4> QED
          BY <1>2, <2>8, <4>1, EventUnderWay
      <3>2. CASE pc = "await connected"
        <4>1. Pending(EventOf("connected", dev, hnd[dev]))'
          BY <1>1, <2>8, <3>1, <3>2
        <4> QED
          BY <1>1, <3>1, <3>2, <4>1 DEF CallInOrder, Unconnected, This
      <3>3. CASE pc = "await disconnected"
        <4>1. Pending(EventOf("disconnected", dev, got[dev]))'
          BY <1>1, <2>8, <3>1, <3>3
        <4> QED
          BY <1>1, <3>1, <3>3, <4>1 DEF CallInOrder, This
      <3> QED
        BY <3>1, <3>2, <3>3
    <2> QED
      BY <1>6, <1>7, <1>8, <2>6, <2>7, <2>9
  <1> QED
    BY <1>9, <1>10

(* While the callback thread handles an event, the call waits, and the     *)
(* event is the only one.                                                  *)
LEMMA BusyWait ==
  ASSUME PromptInv, cb.pc \in {"found", "locked"}
  PROVE  /\ cb # Resting /\ ~cb.dangling /\ events = <<>>
         /\ cb.ctx \in Used(devices) /\ cb.ctx \in 1 .. Capacity(devices)
         /\ devices.items[cb.ctx].address = dev /\ FirstOf(cb.ctx)
         /\ ctx \in Used(devices) /\ This.address = dev
         /\ \/ /\ pc = "await connected" /\ Unconnected /\ link[dev] = "up"
               /\ cb.event = EventOf("connected", dev, hnd[dev])
            \/ /\ pc = "await disconnected" /\ link[dev] = "down" /\ ~This.disconnected
               /\ cb.event = EventOf("disconnected", dev, got[dev])
  <1>1. cb # Resting /\ cb.ctx \in 1 .. Capacity(devices)
    BY BusyRecord DEF PromptInv
  <1>2. /\ events = <<>>
        /\ \/ /\ pc = "await connected" /\ Unconnected /\ link[dev] = "up"
              /\ cb.event = EventOf("connected", dev, hnd[dev])
           \/ /\ pc = "await disconnected" /\ link[dev] = "down" /\ ~This.disconnected
              /\ cb.event = EventOf("disconnected", dev, got[dev])
    BY <1>1, EventUnderWay DEF Quiet, Pending
  <1>3. ctx \in Used(devices) /\ This.address = dev
    BY <1>2, WaitersContext
  <1>4. cb.event.addr = dev
    <2>1. \E kind, h : cb.event = EventOf(kind, dev, h)
      BY <1>2
    <2> QED
      BY <2>1, EventFields
  <1> QED
    BY <1>1, <1>2, <1>3, <1>4 DEF PromptInv, InOrder, CallbackInOrder, CallbackHitsContext

(* The array after CbLock: nothing but the lock has changed.               *)
LEMMA CbLockArray ==
  ASSUME PromptInv, CbLock
  PROVE  /\ UNCHANGED <<pc, dev, ctx, status, got, link, hnd, events>>
         /\ cb.pc = "found"
         /\ cb # Resting /\ cb.ctx \in Used(devices) /\ ctx \in Used(devices)
         /\ cb' # Resting /\ cb'.pc = "locked" /\ cb'.event = cb.event
         /\ cb'.ctx = cb.ctx /\ ~cb'.dangling
         /\ Used(devices)' = Used(devices)
         /\ \A j \in Used(devices) :
              /\ devices'.items[j].address = devices.items[j].address
              /\ devices'.items[j].handle = devices.items[j].handle
              /\ devices'.items[j].connected = devices.items[j].connected
              /\ devices'.items[j].disconnected = devices.items[j].disconnected
              /\ j # cb.ctx => devices'.items[j].held = devices.items[j].held
         /\ \A i \in Used(devices) : FirstOf(i) => FirstOf(i)'
  <1> USE DEF PromptInv, InOrder
  <1>1. /\ UNCHANGED <<pc, dev, ctx, status, got, link, hnd, events>>
        /\ cb.pc = "found"
        /\ cb' = [cb EXCEPT !.pc = "locked"]
    BY DEF CbLock, appVars, aceVars
  <1>2. /\ cb # Resting /\ ~cb.dangling
        /\ cb.ctx \in Used(devices) /\ cb.ctx \in 1 .. Capacity(devices)
        /\ ctx \in Used(devices)
    BY <1>1, BusyWait
  <1>3. cb \in [pc : {"found", "locked"}, event : Event, ctx : Nat, dangling : BOOLEAN]
    BY <1>1, BusyRecord
  <1>4. /\ cb' # Resting /\ cb'.pc = "locked" /\ cb'.event = cb.event
        /\ cb'.ctx = cb.ctx /\ ~cb'.dangling
    BY <1>1, <1>2, <1>3 DEF Resting
  <1>5. /\ Used(devices)' = Used(devices)
        /\ \A j \in Used(devices) :
             devices'.items[j] = IF j = cb.ctx THEN Locked(devices.items[j]) ELSE devices.items[j]
    <2>1. /\ Overwritten(devices', devices, cb.ctx, Locked(devices.items[cb.ctx]))
          /\ Locked(devices.items[cb.ctx]) \in Context
      BY <1>2, LockOverwrites
    <2>2. devices'.count = devices.count
          /\ \A j \in 1 .. Capacity(devices) :
               devices'.items[j] = IF j = cb.ctx THEN Locked(devices.items[cb.ctx]) ELSE devices.items[j]
      BY <1>2, <2>1, Overwrite DEF Typed
    <2> QED
      BY <2>2, ContextInUse DEF Used, Typed
  <1>6. \A j \in Used(devices) :
          /\ devices'.items[j].address = devices.items[j].address
          /\ devices'.items[j].handle = devices.items[j].handle
          /\ devices'.items[j].connected = devices.items[j].connected
          /\ devices'.items[j].disconnected = devices.items[j].disconnected
          /\ j # cb.ctx => devices'.items[j].held = devices.items[j].held
    <2>1. \A c \in Context :
            /\ Locked(c).address = c.address /\ Locked(c).handle = c.handle
            /\ Locked(c).connected = c.connected /\ Locked(c).disconnected = c.disconnected
      BY DEF Locked, Context
    <2> QED
      BY <1>5, <2>1, ContextInUse DEF Typed
  <1>7. \A i \in Used(devices) : FirstOf(i) => FirstOf(i)'
    <2>1. \A i \in Used(devices) : \A j \in 1 .. i - 1 : j \in Used(devices)
      BY DEF Used, Typed, InBounds, Arrays
    <2> QED
      BY <1>6, <2>1 DEF FirstOf
  <1> QED
    BY <1>1, <1>2, <1>4, <1>5, <1>6, <1>7

(* It locks that context and no other.                                     *)
LEMMA CbLockInOrder ==
  ASSUME PromptInv, CbLock
  PROVE  InOrder'
  <1> USE DEF PromptInv, InOrder
  <1>1. /\ UNCHANGED <<pc, dev, ctx, got, link, hnd, events>>
        /\ cb.pc = "found"
        /\ cb # Resting /\ cb.ctx \in Used(devices) /\ ctx \in Used(devices)
        /\ cb' # Resting /\ cb'.pc = "locked" /\ cb'.event = cb.event
        /\ cb'.ctx = cb.ctx /\ ~cb'.dangling
        /\ Used(devices)' = Used(devices)
    BY CbLockArray
  <1>6. \A j \in Used(devices) :
          /\ devices'.items[j].address = devices.items[j].address
          /\ devices'.items[j].handle = devices.items[j].handle
          /\ devices'.items[j].connected = devices.items[j].connected
          /\ devices'.items[j].disconnected = devices.items[j].disconnected
          /\ j # cb.ctx => devices'.items[j].held = devices.items[j].held
    BY CbLockArray
  <1>7. \A i \in Used(devices) : FirstOf(i) => FirstOf(i)'
    BY CbLockArray
  <1>8. LinksInOrder'
    BY <1>1 DEF LinksInOrder
  <1>9. HandlesInOrder'
    BY ZenonT(60), <1>1, <1>6, <1>7 DEF HandlesInOrder, Leaving
  <1>10. GotInOrder'
    <2> SUFFICES ASSUME NEW a \in Addrs, got[a] # NoHandle
                 PROVE  /\ \E i \in Used(devices) :
                             /\ devices'.items[i].address = a
                             /\ devices'.items[i].handle = got[a]
                             /\ ~devices'.items[i].disconnected \/ (Leaving' /\ a = dev')
                        /\ (link[a] = "up" /\ hnd[a] = got[a]) \/ (Leaving' /\ a = dev')
      BY <1>1 DEF GotInOrder
    <2>1. Leaving' <=> Leaving
      BY <1>1 DEF Leaving
    <2>2. PICK i \in Used(devices) :
            /\ devices.items[i].address = a
            /\ devices.items[i].handle = got[a]
            /\ ~devices.items[i].disconnected \/ (Leaving /\ a = dev)
      BY DEF GotInOrder
    <2>3. (link[a] = "up" /\ hnd[a] = got[a]) \/ (Leaving /\ a = dev)
      BY DEF GotInOrder
    <2> QED
      BY <1>1, <1>6, <2>1, <2>2, <2>3
  <1>11. CallInOrder'
    <2>1. \A e : Pending(e) => Pending(e)'
      BY <1>1 DEF Pending
    <2>2. /\ This'.address = This.address /\ This'.handle = This.handle
          /\ This'.connected = This.connected /\ This'.disconnected = This.disconnected
      BY <1>1, <1>6 DEF This
    <2>3. CASE pc = "await connected" /\ Unconnected /\ link[dev] = "up"
               /\ cb.event = EventOf("connected", dev, hnd[dev])
      <3>1. Pending(EventOf("connected", dev, hnd[dev]))'
        BY <1>1, <2>3, BusyWait DEF Pending
      <3> QED
        BY <1>1, <2>2, <2>3, <3>1 DEF CallInOrder, Unconnected
    <2>4. CASE pc = "await disconnected" /\ link[dev] = "down" /\ ~This.disconnected
               /\ cb.event = EventOf("disconnected", dev, got[dev])
      <3>1. Pending(EventOf("disconnected", dev, got[dev]))'
        BY <1>1, <2>4, BusyWait DEF Pending
      <3> QED
        BY <1>1, <2>2, <2>4, <3>1 DEF CallInOrder
    <2> QED
      BY <1>1, <2>3, <2>4, BusyWait
  <1>12. CallbackInOrder'
    BY <1>1, <1>6, <1>7 DEF CallbackInOrder, CallbackHitsContext
  <1>13. NoOrphanedLock'
    BY <1>1, <1>6 DEF NoOrphanedLock
  <1> QED
    BY <1>8, <1>9, <1>10, <1>11, <1>12, <1>13

(* What the update leaves of a context, and what it makes of it.           *)
LEMMA UpdateOf ==
  ASSUME NEW c \in Context, NEW e \in Event
  PROVE  LET d == Updated(c, e)
         IN  /\ d.address = c.address /\ ~d.held
             /\ e.kind = "connected" => d.connected /\ ~d.disconnected /\ d.handle = e.handle
             /\ e.kind = "disconnected" => ~d.connected /\ d.disconnected /\ d.handle = c.handle
  BY DEF Updated, Context, Event

(* The array after the update.                                             *)
LEMMA CbUpdateArray ==
  ASSUME PromptInv, CbUpdate
  PROVE  /\ UNCHANGED <<pc, dev, ctx, status, got, link, hnd, events>>
         /\ cb' = Resting
         /\ Used(devices)' = Used(devices)
         /\ \A j \in Used(devices) : j # cb.ctx => devices'.items[j] = devices.items[j]
         /\ devices'.items[cb.ctx] = Updated(devices.items[cb.ctx], cb.event)
         /\ \A j \in Used(devices) : devices'.items[j].address = devices.items[j].address
         /\ \A i \in Used(devices) : FirstOf(i) => FirstOf(i)'
  <1>1. /\ UNCHANGED <<pc, dev, ctx, status, got, link, hnd, events>>
        /\ cb.pc = "locked"
        /\ cb' = Resting
    BY DEF CbUpdate, appVars, aceVars
  <1>2. ~cb.dangling /\ cb.ctx \in Used(devices) /\ cb.ctx \in 1 .. Capacity(devices)
    BY <1>1, BusyWait
  <1>3. Typed /\ InBounds(devices) /\ cb.event \in Event /\ devices.items[cb.ctx] \in Context
    BY <1>1, BusyRecord DEF PromptInv, Typed
  <1> DEFINE c == Updated(devices.items[cb.ctx], cb.event)
  <1>4. Overwritten(devices', devices, cb.ctx, c) /\ c \in Context
    BY <1>2, <1>3, UpdateOverwrites
  <1>5. c.address = devices.items[cb.ctx].address
    BY <1>3, UpdatedContext
  <1> HIDE DEF c
  <1>6. /\ devices'.count = devices.count
        /\ \A j \in 1 .. Capacity(devices) :
             devices'.items[j] = IF j = cb.ctx THEN c ELSE devices.items[j]
    BY <1>2, <1>3, <1>4, Overwrite
  <1>7. /\ Used(devices)' = Used(devices)
        /\ \A j \in Used(devices) :
             devices'.items[j] = IF j = cb.ctx THEN c ELSE devices.items[j]
    BY <1>3, <1>6, ContextInUse DEF Used
  <1>8. \A j \in Used(devices) : devices'.items[j].address = devices.items[j].address
    BY <1>5, <1>7
  <1>9. \A i \in Used(devices) : FirstOf(i) => FirstOf(i)'
    <2>1. \A i \in Used(devices) : \A j \in 1 .. i - 1 : j \in Used(devices)
      BY <1>3 DEF Used, InBounds, Arrays
    <2> QED
      BY <1>8, <2>1 DEF FirstOf
  <1> QED
    BY <1>1, <1>2, <1>7, <1>8, <1>9 DEF c

(* It writes what the event says, and unlocks.                             *)
LEMMA CbUpdateInOrder ==
  ASSUME PromptInv, CbUpdate
  PROVE  InOrder'
  <1> USE DEF PromptInv, InOrder
  <1> DEFINE k == cb.ctx
  <1>1. cb.pc = "locked"
    BY DEF CbUpdate
  <1>2. /\ cb # Resting /\ k \in Used(devices) /\ FirstOf(k)
        /\ devices.items[k].address = dev
        /\ ctx \in Used(devices) /\ This.address = dev
        /\ events = <<>>
    BY <1>1, BusyWait
  <1>3. /\ UNCHANGED <<pc, dev, ctx, got, link, hnd, events>>
        /\ cb' = Resting
        /\ Used(devices)' = Used(devices)
        /\ \A j \in Used(devices) : j # k => devices'.items[j] = devices.items[j]
        /\ devices'.items[k] = Updated(devices.items[k], cb.event)
        /\ \A j \in Used(devices) : devices'.items[j].address = devices.items[j].address
        /\ \A i \in Used(devices) : FirstOf(i) => FirstOf(i)'
    BY CbUpdateArray
  <1>4. devices.items[k] \in Context /\ cb.event \in Event
    BY <1>1, BusyRecord
  <1> HIDE DEF k
  <1>5. Quiet'
    BY <1>2, <1>3 DEF Quiet
  <1>6. CallbackInOrder'
    BY <1>3 DEF CallbackInOrder, CallbackHitsContext
  <1>7. NoOrphanedLock'
    <2>1. ~devices'.items[k].held
      BY <1>3, <1>4, UpdateOf
    <2>2. \A j \in Used(devices) : j # k => ~devices.items[j].held
      BY DEF NoOrphanedLock, k
    <2> QED
      BY <1>3, <2>1, <2>2 DEF NoOrphanedLock
  <1>8. LinksInOrder'
    BY <1>3 DEF LinksInOrder
  <1>9. CASE /\ pc = "await connected" /\ Unconnected /\ link[dev] = "up"
             /\ cb.event = EventOf("connected", dev, hnd[dev])
    <2>1. cb.event.kind = "connected" /\ cb.event.handle = hnd[dev]
      <3>1. cb.event = EventOf("connected", dev, hnd[dev])
        BY <1>9
      <3> QED
        BY <3>1, EventFields
    <2>2. /\ devices'.items[k].connected /\ ~devices'.items[k].disconnected
          /\ devices'.items[k].handle = hnd[dev]
      BY <1>3, <1>4, <2>1, UpdateOf
    <2>3. dev \in Addrs /\ hnd[dev] # NoHandle /\ got[dev] = NoHandle
      BY <1>9 DEF LinksInOrder, CallInOrder, Typed, TypeOK
    <2>4. ~Leaving /\ ~Leaving'
      BY <1>3, <1>9 DEF Leaving
    <2>5. \A i \in Used(devices) : i # k => devices.items[i].handle # hnd[dev]
      <3> SUFFICES ASSUME NEW i \in Used(devices), devices.items[i].handle = hnd[dev] PROVE i = k
        OBVIOUS
      <3>1. devices.items[i].address \in Addrs
        BY ContextInUse DEF Typed, Context
      <3>2. FirstOf(i) /\ hnd[devices.items[i].address] = hnd[dev]
        BY <2>3, <2>4 DEF HandlesInOrder
      <3>3. devices.items[i].address = dev
        BY <2>3, <3>1, <3>2 DEF LinksInOrder
      <3> QED
        BY <1>2, <3>2, <3>3, OneFirst
    <2>6. HandlesInOrder'
      <3> SUFFICES /\ \A i, j \in Used(devices) :
                        /\ devices'.items[i].handle = devices'.items[j].handle
                        /\ devices'.items[i].handle # NoHandle
                        => i = j
                   /\ \A i \in Used(devices) :
                        devices'.items[i].handle # NoHandle =>
                          FirstOf(i)' /\ hnd[devices'.items[i].address] = devices'.items[i].handle
        BY <1>3 DEF HandlesInOrder
      <3>1. \A i, j \in Used(devices) :
              devices'.items[i].handle = devices'.items[j].handle /\ devices'.items[i].handle # NoHandle
              => i = j
        BY <1>2, <1>3, <2>2, <2>5 DEF HandlesInOrder
      <3>2. ASSUME NEW i \in Used(devices), devices'.items[i].handle # NoHandle
            PROVE  FirstOf(i)' /\ hnd[devices'.items[i].address] = devices'.items[i].handle
        <4>1. CASE i = k
          BY <1>2, <1>3, <2>2, <4>1
        <4>2. CASE i # k
          BY <1>3, <2>4, <3>2, <4>2 DEF HandlesInOrder
        <4> QED
          BY <4>1, <4>2
      <3> QED
        BY <3>1, <3>2
    <2>7. GotInOrder'
      <3> SUFFICES ASSUME NEW a \in Addrs, got[a] # NoHandle
                   PROVE  /\ \E i \in Used(devices) :
                               /\ devices'.items[i].address = a
                               /\ devices'.items[i].handle = got[a]
                               /\ ~devices'.items[i].disconnected
                          /\ link[a] = "up" /\ hnd[a] = got[a]
        BY <1>3 DEF GotInOrder
      <3>1. PICK i \in Used(devices) :
              /\ devices.items[i].address = a
              /\ devices.items[i].handle = got[a]
              /\ ~devices.items[i].disconnected
        BY <2>4 DEF GotInOrder
      <3>2. link[a] = "up" /\ hnd[a] = got[a]
        BY <2>4 DEF GotInOrder
      <3>3. i # k
        BY <1>2, <2>3, <3>1
      <3> QED
        BY <1>3, <3>1, <3>2, <3>3
    <2>8. CallInOrder'
      <3>1. Connected' \/ Unconnected'
        <4>1. CASE ctx = k
          BY <1>3, <1>5, <1>9, <2>2, <4>1 DEF Connected, This
        <4>2. CASE ctx # k
          BY <1>2, <1>3, <1>5, <1>9, <4>2 DEF Unconnected, This
        <4> QED
          BY <4>1, <4>2
      <3>2. This'.address = dev
        BY <1>2, <1>3 DEF This
      <3> QED
        BY <1>3, <1>9, <2>3, <3>1, <3>2 DEF CallInOrder
    <2> QED
      BY <1>6, <1>7, <1>8, <2>6, <2>7, <2>8
  <1>10. CASE /\ pc = "await disconnected" /\ link[dev] = "down" /\ ~This.disconnected
              /\ cb.event = EventOf("disconnected", dev, got[dev])
    <2>1. cb.event.kind = "disconnected"
      <3>1. cb.event = EventOf("disconnected", dev, got[dev])
        BY <1>10
      <3> QED
        BY <3>1, EventFields
    <2>2. got[dev] # NoHandle /\ This.handle = got[dev]
      BY <1>10 DEF CallInOrder
    <2>3. k = ctx
      BY <1>2, <2>2, OneFirst DEF HandlesInOrder, This
    <2>4. devices'.items[k].disconnected /\ devices'.items[k].handle = devices.items[k].handle
      BY <1>3, <1>4, <2>1, UpdateOf
    <2>5. Leaving /\ Leaving'
      BY <1>3, <1>10 DEF Leaving
    <2>6. \A i \in Used(devices) : devices'.items[i].handle = devices.items[i].handle
      BY <1>3, <2>4
    <2>7. HandlesInOrder'
      BY <1>3, <2>5, <2>6 DEF HandlesInOrder
    <2>8. GotInOrder'
      <3> SUFFICES ASSUME NEW a \in Addrs, got[a] # NoHandle
                   PROVE  /\ \E i \in Used(devices) :
                               /\ devices'.items[i].address = a
                               /\ devices'.items[i].handle = got[a]
                               /\ ~devices'.items[i].disconnected \/ a = dev
                          /\ (link[a] = "up" /\ hnd[a] = got[a]) \/ a = dev
        BY <1>3, <2>5 DEF GotInOrder
      <3>1. PICK i \in Used(devices) :
              /\ devices.items[i].address = a
              /\ devices.items[i].handle = got[a]
              /\ ~devices.items[i].disconnected \/ a = dev
        BY DEF GotInOrder
      <3>2. (link[a] = "up" /\ hnd[a] = got[a]) \/ a = dev
        BY DEF GotInOrder
      <3>3. a # dev => i # k
        BY <1>2, <3>1
      <3> QED
        BY <1>3, <2>6, <3>1, <3>2, <3>3
    <2>9. CallInOrder'
      <3>1. This'.disconnected /\ This'.address = dev /\ This'.handle = got[dev]
        BY <1>2, <1>3, <2>2, <2>3, <2>4, <2>6 DEF This
      <3> QED
        BY <1>3, <1>5, <1>10, <2>2, <3>1 DEF CallInOrder
    <2> QED
      BY <1>6, <1>7, <1>8, <2>7, <2>8, <2>9
  <1> QED
    BY <1>1, <1>9, <1>10, BusyWait

(* An event is alone when no other is under way.                           *)
LEMMA EmitAlone ==
  ASSUME events = <<>>, NEW kind, NEW a, NEW h, Emit(kind, a, h)
  PROVE  events' = <<EventOf(kind, a, h)>>
  <1>1. \A e : Append(<<>>, e) = <<e>>
    OBVIOUS
  <1> QED
    BY <1>1 DEF Emit, EventOf

(* ace_bt settles the link on which bleConnect waits.                      *)
LEMMA ConnectingLink ==
  ASSUME PromptInv, NEW a \in Addrs, link[a] = "connecting"
  PROVE  /\ a = dev /\ pc = "await connected" /\ Quiet /\ Unconnected
         /\ hnd[a] = NoHandle /\ got[a] = NoHandle
         /\ ~Leaving
  <1>1. a = dev /\ pc = "await connected" /\ hnd[a] = NoHandle
    BY DEF PromptInv, InOrder, LinksInOrder
  <1>2. Unconnected /\ Quiet /\ got[a] = NoHandle
    BY <1>1 DEF PromptInv, InOrder, CallInOrder, Connected, Unconnected
  <1> QED
    BY <1>1, <1>2 DEF Leaving

(* A link that comes up has a handle that no other link has.               *)
LEMMA LinkUpInOrder ==
  ASSUME PromptInv, NEW a \in Addrs, LinkUp(a)
  PROVE  InOrder'
  <1> USE DEF PromptInv, InOrder
  <1>1. PICK h \in HandlesOf[a] :
          /\ \A b \in Addrs : hnd[b] # h
          /\ hnd' = [hnd EXCEPT ![a] = h]
          /\ Emit("connected", a, h)
    BY DEF LinkUp
  <1>2. h # NoHandle
    BY ConnectionAssumption
  <1>3. /\ link[a] = "connecting"
        /\ link' = [link EXCEPT ![a] = "up"]
        /\ UNCHANGED <<devices, pc, dev, ctx, got, cb>>
    BY DEF LinkUp, appVars
  <1>4. /\ a = dev /\ pc = "await connected" /\ Quiet /\ Unconnected
        /\ hnd[a] = NoHandle /\ got[a] = NoHandle /\ ~Leaving
    BY <1>3, ConnectingLink
  <1>5. /\ hnd'[a] = h /\ link'[a] = "up"
        /\ \A b \in Addrs : b # a => hnd'[b] = hnd[b] /\ link'[b] = link[b]
    BY <1>1, <1>3 DEF Typed, TypeOK
  <1>6. LinksInOrder'
    <2>1. \A b \in Addrs : hnd'[b] = NoHandle <=> link'[b] \in {"down", "connecting"}
      BY <1>2, <1>5 DEF LinksInOrder
    <2>2. \A b, c \in Addrs : hnd'[b] = hnd'[c] /\ hnd'[b] # NoHandle => b = c
      <3> SUFFICES ASSUME NEW b \in Addrs, NEW c \in Addrs, hnd'[b] = hnd'[c], hnd'[b] # NoHandle
                   PROVE  b = c
        OBVIOUS
      <3>1. hnd[b] # h /\ hnd[c] # h
        BY <1>1
      <3>2. CASE b # a /\ c # a
        <4>1. hnd[b] = hnd[c] /\ hnd[b] # NoHandle
          BY <1>5, <3>2
        <4> QED
          BY <4>1 DEF LinksInOrder
      <3> QED
        BY <1>5, <3>1, <3>2
    <2>3. \A b \in Addrs : /\ link'[b] # "connecting"
                            /\ link'[b] # "closing"
      BY <1>3, <1>4, <1>5 DEF LinksInOrder
    <2> QED
      BY <2>1, <2>2, <2>3 DEF LinksInOrder
  <1>7. HandlesInOrder'
    <2>1. \A i : FirstOf(i)' <=> FirstOf(i)
      BY <1>3 DEF FirstOf
    <2>2. \A i \in Used(devices) : devices.items[i].address \in Addrs
      BY ContextInUse DEF Typed, Context
    <2>3. Used(devices)' = Used(devices)
      BY <1>3 DEF Used
    <2> QED
      BY <1>3, <1>4, <1>5, <2>1, <2>2, <2>3 DEF HandlesInOrder
  <1>8. GotInOrder'
    <2>1. ~Leaving'
      BY <1>3, <1>4 DEF Leaving
    <2>2. Used(devices)' = Used(devices)
      BY <1>3 DEF Used
    <2> QED
      BY ZenonT(60), <1>3, <1>4, <1>5, <2>1, <2>2 DEF GotInOrder
  <1>9. CallInOrder'
    <2>1. Pending(EventOf("connected", dev, hnd[dev]))'
      <3>1. events' = <<EventOf("connected", dev, h)>>
        BY <1>1, <1>4, EmitAlone DEF Quiet
      <3>2. dev' = dev /\ hnd'[dev'] = h /\ cb' = Resting
        BY <1>3, <1>4, <1>5 DEF Quiet
      <3> QED
        BY <3>1, <3>2 DEF Pending
    <2> QED
      BY <1>3, <1>4, <1>5, <2>1 DEF CallInOrder, Unconnected, This
  <1>10. CallbackInOrder' /\ NoOrphanedLock'
    BY <1>3, SameCallback
  <1> QED
    BY <1>6, <1>7, <1>8, <1>9, <1>10

(* A link that fails is down, and its event is under way.                  *)
LEMMA LinkFailsInOrder ==
  ASSUME PromptInv, NEW a \in Addrs, LinkFails(a)
  PROVE  InOrder'
  <1> USE DEF PromptInv, InOrder
  <1>1. /\ link[a] = "connecting"
        /\ link' = [link EXCEPT ![a] = "down"]
        /\ Emit("failed", a, NoHandle)
        /\ UNCHANGED <<devices, pc, dev, ctx, got, hnd, cb>>
    BY DEF LinkFails, appVars
  <1>2. /\ a = dev /\ pc = "await connected" /\ Quiet /\ Unconnected
        /\ hnd[a] = NoHandle /\ got[a] = NoHandle /\ ~Leaving
    BY <1>1, ConnectingLink
  <1>3. LinksInOrder'
    BY <1>1, <1>2 DEF LinksInOrder, Typed, TypeOK
  <1>4. HandlesInOrder'
    BY <1>1, <1>2, SameHandles
  <1>5. GotInOrder'
    BY <1>1, <1>2, SameGot DEF Typed, TypeOK
  <1>6. CallInOrder'
    <2>1. events' = <<EventOf("failed", dev, NoHandle)>> /\ cb' = Resting
      BY <1>1, <1>2, EmitAlone DEF Quiet
    <2>2. link'[dev] = "down"
      BY <1>1, <1>2 DEF Typed, TypeOK
    <2> QED
      BY <1>1, <1>2, <2>1, <2>2 DEF CallInOrder, Unconnected, This
  <1>7. CallbackInOrder' /\ NoOrphanedLock'
    BY <1>1, SameCallback
  <1> QED
    BY <1>3, <1>4, <1>5, <1>6, <1>7

(* A link goes down because bleDisconnect asked for it.                    *)
LEMMA LinkDownInOrder ==
  ASSUME PromptInv, Prompt, NEW a \in Addrs, LinkDown(a)
  PROVE  InOrder'
  <1> USE DEF PromptInv, InOrder
  <1>1. /\ link[a] = "closing"
        /\ link' = [link EXCEPT ![a] = "down"]
        /\ hnd' = [hnd EXCEPT ![a] = NoHandle]
        /\ Emit("disconnected", a, hnd[a])
        /\ UNCHANGED <<devices, pc, dev, ctx, got, cb>>
    BY DEF LinkDown, appVars, Prompt
  <1>2. /\ a = dev /\ pc = "await disconnected" /\ Quiet
        /\ hnd[dev] = got[dev] /\ got[dev] # NoHandle /\ ~This.disconnected
        /\ This.handle = got[dev] /\ ctx \in Used(devices)
    BY <1>1 DEF LinksInOrder, CallInOrder, Typed
  <1>3. /\ hnd'[a] = NoHandle /\ link'[a] = "down"
        /\ \A b \in Addrs : b # a => hnd'[b] = hnd[b] /\ link'[b] = link[b]
    BY <1>1 DEF Typed, TypeOK
  <1>4. Leaving /\ Leaving'
    BY <1>1, <1>2 DEF Leaving
  <1>5. LinksInOrder'
    <2>1. \A b \in Addrs : hnd'[b] = NoHandle <=> link'[b] \in {"down", "connecting"}
      BY <1>3 DEF LinksInOrder
    <2>2. \A b, c \in Addrs : hnd'[b] = hnd'[c] /\ hnd'[b] # NoHandle => b = c
      BY ZenonT(60), <1>3 DEF LinksInOrder
    <2>3. \A b \in Addrs : /\ link'[b] # "connecting"
                            /\ link'[b] # "closing"
      BY <1>1, <1>2, <1>3 DEF LinksInOrder
    <2> QED
      BY <2>1, <2>2, <2>3 DEF LinksInOrder
  <1>6. HandlesInOrder'
    <2>1. \A i : FirstOf(i)' <=> FirstOf(i)
      BY <1>1 DEF FirstOf
    <2>2. Used(devices)' = Used(devices)
      BY <1>1 DEF Used
    <2>3. ASSUME NEW i \in Used(devices), devices.items[i].handle # NoHandle
          PROVE  FirstOf(i) /\ (hnd'[devices.items[i].address] = devices.items[i].handle \/ i = ctx)
      <3>1. devices.items[i].address \in Addrs
        BY ContextInUse DEF Typed, Context
      <3>2. FirstOf(i) /\ (hnd[devices.items[i].address] = devices.items[i].handle \/ i = ctx)
        BY <2>3 DEF HandlesInOrder
      <3>3. CASE devices.items[i].address = dev /\ i # ctx
        BY <1>2, <2>3, <3>2, <3>3, OneContext DEF This
      <3> QED
        BY <1>2, <1>3, <3>1, <3>2, <3>3
    <2> QED
      BY <1>1, <1>4, <2>1, <2>2, <2>3 DEF HandlesInOrder
  <1>7. GotInOrder'
    <2>1. Used(devices)' = Used(devices)
      BY <1>1 DEF Used
    <2> QED
      BY ZenonT(60), <1>1, <1>2, <1>3, <1>4, <2>1 DEF GotInOrder
  <1>8. CallInOrder'
    <2>1. Pending(EventOf("disconnected", dev, got[dev]))'
      BY <1>1, <1>2, EmitAlone DEF Pending, Quiet
    <2>2. This' = This
      BY <1>1 DEF This
    <2>3. This.address = dev
      BY <1>2 DEF CallInOrder
    <2> QED
      BY <1>1, <1>2, <1>3, <2>1, <2>2, <2>3 DEF CallInOrder
  <1>9. CallbackInOrder' /\ NoOrphanedLock'
    BY <1>1, SameCallback
  <1> QED
    BY <1>5, <1>6, <1>7, <1>8, <1>9

(* Every step keeps the order.                                             *)
LEMMA NextInOrder == Prompt /\ PromptInv /\ [Next]_vars => PromptInv'
  <1> SUFFICES ASSUME Prompt, PromptInv, [Next]_vars PROVE PromptInv'
    OBVIOUS
  <1>1. Typed'
    BY NextTyped DEF PromptInv
  <1>2. CASE UNCHANGED vars
    <2>1. UNCHANGED <<devices, pc, dev, ctx, got, link, hnd, events, cb>>
      BY <1>2 DEF vars, appVars, aceVars
    <2>2. HandlesInOrder' /\ GotInOrder'
      BY <2>1, SameHandles, SameGot DEF Leaving, PromptInv, InOrder
    <2>3. CallbackInOrder' /\ NoOrphanedLock'
      BY <2>1, SameCallback DEF PromptInv, InOrder
    <2>4. LinksInOrder'
      BY <2>1 DEF LinksInOrder, PromptInv, InOrder
    <2>5. CallInOrder'
      BY <2>1 DEF CallInOrder, Connected, Unconnected, Quiet, Pending, This, PromptInv, InOrder
    <2> QED
      BY <1>1, <2>2, <2>3, <2>4, <2>5 DEF PromptInv, InOrder
  <1>3. CASE Next
    <2>1. CASE \E a \in Addrs : AddContext(a) \/ FindContext(a) \/ Ace(a)
      BY <2>1, AddContextInOrder, FindContextInOrder, LinkUpInOrder, LinkFailsInOrder,
         LinkDownInOrder, <1>1 DEF Ace, PromptInv
    <2>2. CASE \E h \in Handles : NoContext(h)
      BY <2>2, NoContextInOrder, <1>1 DEF PromptInv
    <2>3. CASE Continue
      BY <2>3, RequestConnectInOrder, NotConnectedInOrder, ConnectHeardInOrder, CopyHandleInOrder,
         RequestDisconnectInOrder, DisconnectRefusedInOrder, DisconnectHeardInOrder,
         NoDisconnectTimeout, RemoveContextInOrder, <1>1 DEF Continue, PromptInv
    <2>4. CASE Callback
      BY <2>4, CbFindInOrder, CbLockInOrder, CbUpdateInOrder, <1>1 DEF Callback, PromptInv
    <2> QED
      BY <1>3, <2>1, <2>2, <2>3, <2>4 DEF Next
  <1> QED
    BY <1>2, <1>3

(* So all is in order in every state.                                      *)
LEMMA PromptInvariant ==
  ASSUME Prompt
  PROVE  Spec => []PromptInv
  <1>1. Init => PromptInv
    BY InitTyped, InitInOrder DEF PromptInv
  <1>2. PromptInv /\ [Next]_vars => PromptInv'
    BY NextInOrder
  <1> QED
    BY <1>1, <1>2, PTL DEF Spec

(* When links do not drop and answers are not late, a handle keeps finding  *)
(* the context of its device, even when contexts of earlier, failed calls   *)
(* for that device are left in the array.                                   *)
THEOREM HandlesFindTheirDevices ==
  ASSUME Prompt
  PROVE  Spec => []HandleFindsItsDevice
  <1>1. PromptInv => HandleFindsItsDevice
    <2> SUFFICES ASSUME PromptInv, NEW a \in Addrs, got[a] # NoHandle,
                        NEW i, i = dca_find_by_handle(devices, got[a])
                 PROVE  i # 0 /\ devices.items[i].address = a
      BY DEF HandleFindsItsDevice
    <2> QED
      BY HandleFinds DEF PromptInv, InOrder
  <1> QED
    BY PromptInvariant, <1>1, PTL
----------------------------------------------------------------------------
(* The promises of DeviceLinks                                             *)

(* What the application's thread does, in the words of DeviceLinks.        *)
Doing ==
  CASE pc = "idle" -> [op |-> "none"]
    [] pc \in {"request connect", "await connected", "copy handle"} ->
         [op |-> "connect", addr |-> dev]
    [] OTHER -> [op |-> "disconnect", addr |-> dev]

(* The call that the abstract specification sees.                          *)
LEMMA DoingWhat ==
  /\ pc = "idle" => Doing = [op |-> "none"]
  /\ pc \in {"request connect", "await connected", "copy handle"} =>
       Doing = [op |-> "connect", addr |-> dev]
  /\ pc \in {"request disconnect", "await disconnected", "remove"} =>
       Doing = [op |-> "disconnect", addr |-> dev]
  BY DEF Doing

(* The same after a step.                                                  *)
LEMMA DoingNext ==
  /\ pc' = "idle" => Doing' = [op |-> "none"]
  /\ pc' \in {"request connect", "await connected", "copy handle"} =>
       Doing' = [op |-> "connect", addr |-> dev']
  /\ pc' \in {"request disconnect", "await disconnected", "remove"} =>
       Doing' = [op |-> "disconnect", addr |-> dev']
  BY DEF Doing

Links == INSTANCE DeviceLinks WITH up <- hnd, call <- Doing

(* One step of Connection is one of DeviceLinks, or none.                  *)
LEMMA StepRefines ==
  ASSUME Prompt, PromptInv, [Next]_vars
  PROVE  [Links!Next]_(Links!vars)
  <1> USE DoingWhat, DoingNext DEF Goto, Return, aceVars, appVars
  <1>0. dev \in Addrs /\ got \in [Addrs -> HandleOrNull] /\ hnd \in [Addrs -> HandleOrNull]
    BY DEF PromptInv, Typed, TypeOK
  <1>1. ASSUME NEW a \in Addrs, AddContext(a) \/ FindContext(a) PROVE Links!Begin(a)
    BY <1>1 DEF AddContext, FindContext, Links!Begin, Links!NoCall
  <1>2. ASSUME NEW a \in Addrs, LinkUp(a) PROVE \E h \in Handles : Links!LinkUp(a, h)
    <2>1. PICK h \in HandlesOf[a] : /\ \A b \in Addrs : hnd[b] # h
                                    /\ hnd' = [hnd EXCEPT ![a] = h]
      BY <1>2 DEF LinkUp
    <2>2. h \in Handles
      BY ConnectionAssumption
    <2>3. UNCHANGED <<pc, dev, got, status>> /\ hnd[a] = NoHandle
      BY <1>2, ConnectingLink DEF LinkUp
    <2>4. Doing' = Doing
      BY <2>3 DEF Doing
    <2> QED
      BY <2>1, <2>2, <2>3, <2>4 DEF Links!LinkUp
  <1>3. ASSUME NEW a \in Addrs, LinkDown(a) PROVE Links!LinkDown(a)
    <2>1. hnd[a] # NoHandle
      BY <1>3 DEF LinkDown, PromptInv, InOrder, LinksInOrder
    <2>2. UNCHANGED <<pc, dev, got, status>> /\ hnd' = [hnd EXCEPT ![a] = NoHandle]
      BY <1>3 DEF LinkDown
    <2>3. Doing' = Doing
      BY <2>2 DEF Doing
    <2> QED
      BY <2>1, <2>2, <2>3 DEF Links!LinkDown
  <1>4. ASSUME NEW h \in Handles, NoContext(h) PROVE Links!Unknown(h)
    <2>1. pc = "idle" /\ UNCHANGED <<pc, dev, hnd>> /\ dca_find_by_handle(devices, h) = 0
          /\ status' = "UNINITIALIZED"
          /\ got' = [a \in Addrs |-> IF got[a] = h THEN NoHandle ELSE got[a]]
      BY <1>4 DEF NoContext
    <2>2. h # NoHandle
      BY ConnectionAssumption
    <2>3. ASSUME NEW a \in Addrs, got[a] = h PROVE FALSE
      BY <2>1, <2>2, <2>3, HandleFinds DEF PromptInv, InOrder
    <2>4. got' = got
      BY <1>0, <2>1, <2>3
    <2> QED
      BY <2>1, <2>3, <2>4 DEF Links!Unknown, Links!NoCall
  <1>5. ASSUME ConnectRefused \/ ConnectTimeout PROVE Links!NotConnected(dev)
    BY <1>5 DEF ConnectRefused, ConnectTimeout, Links!NotConnected, Links!End, Links!NoCall
  <1>6. ASSUME CopyHandle PROVE Links!Connected(dev)
    <2>1. This.handle = hnd[dev] /\ hnd[dev] # NoHandle
      BY <1>0, <1>6 DEF CopyHandle, PromptInv, InOrder, CallInOrder, Connected, LinksInOrder
    <2> QED
      BY <1>6, <2>1 DEF CopyHandle, Links!Connected, Links!End, Links!NoCall
  <1>7. ASSUME DisconnectRefused PROVE Links!NotDisconnected(dev)
    BY <1>7 DEF DisconnectRefused, Links!NotDisconnected, Links!End, Links!NoCall
  <1>8. ASSUME RemoveContext PROVE Links!Disconnected(dev)
    <2>1. hnd[dev] = NoHandle
      BY <1>0, <1>8 DEF RemoveContext, PromptInv, InOrder, CallInOrder, LinksInOrder
    <2> QED
      BY <1>8, <2>1 DEF RemoveContext, Links!Disconnected, Links!End, Links!NoCall
  <1>9. ASSUME \/ RequestConnect \/ ConnectHeard \/ RequestDisconnect \/ DisconnectHeard
               \/ Callback \/ (\E a \in Addrs : LinkFails(a)) \/ UNCHANGED vars
        PROVE  UNCHANGED Links!vars
    <2>1. UNCHANGED <<dev, got, status, hnd>>
      BY <1>9 DEF RequestConnect, ConnectHeard, RequestDisconnect, DisconnectHeard,
         Callback, CbFind, CbLock, CbUpdate, LinkFails, vars
    <2>2. Doing' = Doing
      <3>1. CASE RequestConnect \/ ConnectHeard \/ RequestDisconnect \/ DisconnectHeard
        BY <2>1, <3>1 DEF RequestConnect, ConnectHeard, RequestDisconnect, DisconnectHeard
      <3>2. CASE pc' = pc
        BY <2>1, <3>2 DEF Doing
      <3> QED
        BY <1>9, <3>1, <3>2 DEF Callback, CbFind, CbLock, CbUpdate, LinkFails, vars
    <2> QED
      BY <2>1, <2>2 DEF Links!vars
  <1>10. ~DisconnectTimeout
    BY NoDisconnectTimeout
  <1> QED
    BY <1>0, <1>1, <1>2, <1>3, <1>4, <1>5, <1>6, <1>7, <1>8, <1>9, <1>10
       DEF Next, Ace, Continue, Links!Next

(* When links do not drop and answers are not late, bleConnect and         *)
(* bleDisconnect keep the promises of DeviceLinks: a handle that bleConnect *)
(* hands out is that of the link, and the link of a handle that             *)
(* bleDisconnect took back is gone.                                         *)
THEOREM DeviceLinksImplemented ==
  ASSUME Prompt
  PROVE  Spec => ImplementsDeviceLinks
  <1>1. Init => Links!Init
    BY DoingWhat DEF Init, Links!Init, Links!NoCall
  <1>2. PromptInv /\ [Next]_vars => [Links!Next]_(Links!vars)
    BY StepRefines
  <1>3. Links!Init => Abstract!Init
    BY DEF Links!Init, Abstract!Init, Links!NoCall, Abstract!NoCall, Doing
  <1>4. [Links!Next]_(Links!vars) => [Abstract!Next]_(Abstract!vars)
    BY DEF Links!Next, Abstract!Next, Links!vars, Abstract!vars, Doing,
       Links!NoCall, Abstract!NoCall, Links!End, Abstract!End, Links!Unknown, Abstract!Unknown,
       Links!LinkUp, Abstract!LinkUp, Links!LinkDown, Abstract!LinkDown, Links!Begin, Abstract!Begin,
       Links!Connected, Abstract!Connected, Links!NotConnected, Abstract!NotConnected,
       Links!Disconnected, Abstract!Disconnected, Links!NotDisconnected, Abstract!NotDisconnected
  <1> QED
    BY <1>1, <1>2, <1>3, <1>4, PromptInvariant, PTL DEF Spec, ImplementsDeviceLinks, Abstract!Spec
----------------------------------------------------------------------------
(* An ace_bt on which nothing fails                                        *)

Reliable == Faults = {}

Connecting == pc \in {"request connect", "await connected", "copy handle"}

OneEach ==
  \A i, j \in Used(devices) : devices.items[i].address = devices.items[j].address => i = j

\* Each context but that of a call of bleConnect has the handle that the
\* application uses for the device.
OwnHandles ==
  \A i \in Used(devices) :
    LET c == devices.items[i]
    IN (Connecting /\ i = ctx) \/ (c.handle = got[c.address] /\ c.handle # NoHandle)

\* A link without a handle is one that bleConnect waits for.
NoStrayLink ==
  \A a \in Addrs :
    got[a] = NoHandle => link[a] = "down" \/ (dev = a /\ pc \in {"await connected", "copy handle"})

AnswerUnderWay ==
  pc = "await connected" =>
    \/ Connected
    \/ link[dev] = "connecting"
    \/ link[dev] = "up" /\ Pending(EventOf("connected", dev, hnd[dev]))

Orderly ==
  /\ OneEach
  /\ OwnHandles
  /\ NoStrayLink
  /\ AnswerUnderWay
  /\ CallsSucceed

ReliableInv == PromptInv /\ Orderly

(* Where nothing fails, nothing drops or is late.                          *)
LEMMA ReliableIsPrompt == Reliable => Prompt
  BY DEF Reliable, Prompt

(* No call is refused, and no wait ends without its answer.                *)
LEMMA NothingFails ==
  ASSUME Reliable, ReliableInv
  PROVE  /\ ~ConnectRefused /\ ~ConnectTimeout
         /\ ~DisconnectRefused /\ ~DisconnectTimeout
         /\ \A h \in Handles : ~NoContext(h)
         /\ \A a \in Addrs : ~LinkFails(a)
  <1> USE DEF ReliableInv, Orderly
  <1>0. dev \in Addrs
    BY DEF PromptInv, Typed, TypeOK
  <1>1. ~ConnectRefused
    BY <1>0 DEF ConnectRefused, Reliable, NoStrayLink, PromptInv, InOrder, CallInOrder
  <1>2. ~ConnectTimeout
    <2> SUFFICES ASSUME ConnectTimeout PROVE FALSE
      OBVIOUS
    <2>1. pc = "await connected" /\ ~This.connected /\ Settled(dev)
      BY DEF ConnectTimeout, TimedOut, Reliable
    <2> DEFINE yes == EventOf("connected", dev, hnd[dev])
    <2>2. yes.addr = dev
      BY DEF EventOf
    <2>3. link[dev] = "connecting" \/ Pending(yes)
      BY <2>1 DEF AnswerUnderWay, Connected
    <2> HIDE DEF yes
    <2> QED
      BY <2>1, <2>2, <2>3, SettledIsQuiet DEF Settled
  <1>3. ~DisconnectRefused
    <2> SUFFICES ASSUME DisconnectRefused PROVE FALSE
      OBVIOUS
    <2>1. pc = "request disconnect" /\ (link[dev] # "up" \/ hnd[dev] # got[dev])
      BY DEF DisconnectRefused, Reliable
    <2>2. got[dev] # NoHandle
      BY <2>1 DEF PromptInv, InOrder, CallInOrder
    <2> QED
      BY <1>0, <2>1, <2>2 DEF PromptInv, InOrder, GotInOrder, Leaving
  <1>4. ~DisconnectTimeout
    BY ReliableIsPrompt, NoDisconnectTimeout
  <1>5. ASSUME NEW h \in Handles, NoContext(h) PROVE FALSE
    <2>1. dca_find_by_handle(devices, h) = 0 /\ \E a \in Addrs : got[a] = h
      BY <1>5 DEF NoContext, Reliable
    <2>2. h # NoHandle
      BY ConnectionAssumption
    <2> QED
      BY <2>1, <2>2, HandleFinds DEF PromptInv, InOrder
  <1>6. \A a \in Addrs : ~LinkFails(a)
    BY DEF LinkFails, Reliable
  <1> QED
    BY <1>1, <1>2, <1>3, <1>4, <1>5, <1>6

(* There is no context at first, and no call has failed.                   *)
LEMMA InitOrderly == Init => Orderly
  <1> SUFFICES ASSUME Init PROVE Orderly
    OBVIOUS
  <1>1. Used(devices) = {}
    BY DEF Init, Empty, Used
  <1> QED
    BY <1>1 DEF Init, Orderly, OneEach, OwnHandles, NoStrayLink, AnswerUnderWay, CallsSucceed

(* bleConnect adds the only context of its device.                         *)
LEMMA AddContextOrderly ==
  ASSUME ReliableInv, NEW a \in Addrs, AddContext(a)
  PROVE  Orderly'
  <1> USE DEF ReliableInv, Orderly
  <1>1. /\ UNCHANGED <<got, link, status>>
        /\ pc = "idle" /\ pc' = "request connect"
        /\ got[a] = NoHandle /\ dev' = a
    BY DEF AddContext, aceVars
  <1>2. /\ \A j \in Used(devices) : devices'.items[j] = devices.items[j]
        /\ \A j \in Used(devices') : j \notin Used(devices) => j = ctx'
        /\ ctx' \in Used(devices') /\ devices'.items[ctx'] = Fresh(a)
    BY AddArray DEF PromptInv
  <1>3. Fresh(a).address = a
    BY DEF Fresh
  <1>4. \A j \in Used(devices) : devices.items[j].address # a
    BY <1>1 DEF OwnHandles, Connecting
  <1>5. OneEach'
    BY <1>2, <1>3, <1>4 DEF OneEach
  <1>6. OwnHandles'
    BY <1>1, <1>2 DEF OwnHandles, Connecting
  <1>7. NoStrayLink' /\ AnswerUnderWay' /\ CallsSucceed'
    BY <1>1 DEF NoStrayLink, AnswerUnderWay, CallsSucceed
  <1> QED
    BY <1>5, <1>6, <1>7

(* The steps that leave the array alone, and the handles in use.           *)
LEMMA WaitingOrderly ==
  ASSUME Reliable, ReliableInv,
         \/ RequestConnect \/ ConnectHeard \/ RequestDisconnect \/ DisconnectHeard
         \/ \E a \in Addrs : FindContext(a) \/ LinkUp(a) \/ LinkDown(a)
  PROVE  Orderly'
  <1> USE DEF ReliableInv, Orderly
  <1>1. UNCHANGED <<devices, got, status>>
    BY DEF RequestConnect, ConnectHeard, RequestDisconnect, DisconnectHeard,
       FindContext, LinkUp, LinkDown, aceVars, appVars
  <1>2. Used(devices)' = Used(devices)
    BY <1>1 DEF Used
  <1>3. OneEach' /\ CallsSucceed'
    BY <1>1, <1>2 DEF OneEach, CallsSucceed
  <1>4. Connecting => Connecting' /\ ctx' = ctx
    BY DEF RequestConnect, ConnectHeard, RequestDisconnect, DisconnectHeard,
       FindContext, LinkUp, LinkDown, aceVars, appVars, Goto, Connecting
  <1>5. OwnHandles'
    BY <1>1, <1>2, <1>4 DEF OwnHandles
  <1>6. link \in [Addrs -> {"down", "connecting", "up", "closing"}] /\ dev \in Addrs
    BY DEF PromptInv, Typed, TypeOK
  <1>7. NoStrayLink' /\ AnswerUnderWay'
    <2>1. CASE RequestConnect
      BY <1>6, <2>1 DEF RequestConnect, Goto, NoStrayLink, AnswerUnderWay
    <2>2. CASE ConnectHeard
      BY <1>6, <2>2 DEF ConnectHeard, Goto, aceVars, NoStrayLink, AnswerUnderWay
    <2>3. CASE RequestDisconnect
      <3>1. got[dev] # NoHandle
        BY <2>3 DEF RequestDisconnect, Goto, PromptInv, InOrder, CallInOrder
      <3> QED
        BY <1>6, <2>3, <3>1 DEF RequestDisconnect, Goto, NoStrayLink, AnswerUnderWay
    <2>4. CASE DisconnectHeard
      BY <1>6, <2>4 DEF DisconnectHeard, Goto, aceVars, NoStrayLink, AnswerUnderWay
    <2>5. ASSUME NEW a \in Addrs, FindContext(a) PROVE NoStrayLink' /\ AnswerUnderWay'
      BY <1>6, <2>5 DEF FindContext, Goto, aceVars, NoStrayLink, AnswerUnderWay
    <2>6. ASSUME NEW a \in Addrs, LinkUp(a) PROVE NoStrayLink' /\ AnswerUnderWay'
      <3>1. a = dev /\ pc = "await connected" /\ Quiet
        BY <2>6, ConnectingLink DEF LinkUp
      <3>2. UNCHANGED <<pc, dev, ctx, got, cb>> /\ link' = [link EXCEPT ![a] = "up"]
        BY <2>6 DEF LinkUp, appVars
      <3>3. PICK h \in HandlesOf[a] : hnd' = [hnd EXCEPT ![a] = h] /\ Emit("connected", a, h)
        BY <2>6 DEF LinkUp
      <3>4. events' = <<EventOf("connected", dev, h)>> /\ hnd'[dev] = h
        BY <3>1, <3>3, EmitAlone DEF Quiet, PromptInv, Typed, TypeOK
      <3>5. Pending(EventOf("connected", dev, hnd[dev]))'
        BY <3>1, <3>2, <3>4 DEF Pending, Quiet
      <3> QED
        BY <1>6, <3>1, <3>2, <3>5 DEF NoStrayLink, AnswerUnderWay
    <2>7. ASSUME NEW a \in Addrs, LinkDown(a) PROVE NoStrayLink' /\ AnswerUnderWay'
      <3>1. UNCHANGED <<pc, dev, got>> /\ link' = [link EXCEPT ![a] = "down"]
        BY <2>7 DEF LinkDown, appVars
      <3>2. NoStrayLink'
        BY <1>6, <3>1 DEF NoStrayLink
      <3>3. pc = "await disconnected"
        BY <2>7 DEF LinkDown, Reliable, PromptInv, InOrder, LinksInOrder
      <3> QED
        BY <3>1, <3>2, <3>3 DEF AnswerUnderWay
    <2> QED
      BY <2>1, <2>2, <2>3, <2>4, <2>5, <2>6, <2>7
  <1> QED
    BY <1>3, <1>5, <1>7

(* The handle that bleConnect hands out is that of this context.           *)
LEMMA CopyHandleOrderly ==
  ASSUME ReliableInv, CopyHandle
  PROVE  Orderly'
  <1> USE DEF ReliableInv, Orderly
  <1>1. /\ UNCHANGED <<devices, link, dev>>
        /\ pc = "copy handle" /\ pc' = "idle" /\ status' = "OK"
        /\ got' = [got EXCEPT ![dev] = This.handle]
    BY DEF CopyHandle, Return, aceVars
  <1>2. /\ This.address = dev /\ This.handle = hnd[dev] /\ hnd[dev] # NoHandle
        /\ ctx \in Used(devices) /\ link[dev] = "up"
        /\ dev \in Addrs /\ got \in [Addrs -> HandleOrNull]
    BY <1>1 DEF PromptInv, InOrder, CallInOrder, Connected, LinksInOrder, Typed, TypeOK
  <1>3. Used(devices)' = Used(devices)
    BY <1>1 DEF Used
  <1>4. \A i \in Used(devices) : i # ctx => devices.items[i].address \in Addrs \ {dev}
    BY <1>2, ContextInUse DEF OneEach, This, PromptInv, Typed, Context
  <1>5. OwnHandles'
    <2> SUFFICES ASSUME NEW i \in Used(devices)
                 PROVE  /\ devices.items[i].handle = got'[devices.items[i].address]
                        /\ devices.items[i].handle # NoHandle
      BY <1>1, <1>3 DEF OwnHandles
    <2>1. CASE i = ctx
      BY <1>1, <1>2, <2>1 DEF This
    <2>2. CASE i # ctx
      BY <1>1, <1>2, <1>4, <2>2 DEF OwnHandles
    <2> QED
      BY <2>1, <2>2
  <1>6. OneEach' /\ AnswerUnderWay' /\ CallsSucceed'
    BY <1>1, <1>3 DEF OneEach, AnswerUnderWay, CallsSucceed
  <1>7. NoStrayLink'
    BY <1>1, <1>2 DEF NoStrayLink
  <1> QED
    BY <1>5, <1>6, <1>7

(* bleDisconnect removes the only context of its device.                   *)
LEMMA RemoveContextOrderly ==
  ASSUME ReliableInv, RemoveContext
  PROVE  Orderly'
  <1> USE DEF ReliableInv, Orderly
  <1>1. /\ UNCHANGED <<link, dev>>
        /\ pc = "remove" /\ pc' = "idle" /\ status' = "OK"
        /\ got' = [got EXCEPT ![dev] = NoHandle]
    BY DEF RemoveContext, Return, aceVars
  <1>2. /\ This.address = dev /\ link[dev] = "down" /\ ctx \in Used(devices)
        /\ dev \in Addrs /\ got \in [Addrs -> HandleOrNull]
    BY <1>1 DEF PromptInv, InOrder, CallInOrder, Typed, TypeOK
  <1>3. /\ \A j \in Used(devices') : /\ Before(j, ctx) \in Used(devices)
                                     /\ Before(j, ctx) # ctx
                                     /\ devices'.items[j] = devices.items[Before(j, ctx)]
        /\ \A i, j \in Used(devices') : Before(i, ctx) = Before(j, ctx) => i = j
    BY RemoveArray
  <1>4. \A i \in Used(devices) : i # ctx => devices.items[i].address \in Addrs \ {dev}
    BY <1>2, ContextInUse DEF OneEach, This, PromptInv, Typed, Context
  <1>5. OneEach'
    BY <1>3 DEF OneEach
  <1>6. OwnHandles'
    <2> SUFFICES ASSUME NEW j \in Used(devices')
                 PROVE  /\ devices'.items[j].handle = got'[devices'.items[j].address]
                        /\ devices'.items[j].handle # NoHandle
      BY DEF OwnHandles
    <2>1. PICK i \in Used(devices) : i # ctx /\ devices'.items[j] = devices.items[i]
      BY <1>3
    <2> QED
      BY <1>1, <1>2, <1>4, <2>1 DEF OwnHandles, Connecting
  <1>7. NoStrayLink' /\ AnswerUnderWay' /\ CallsSucceed'
    BY <1>1, <1>2 DEF NoStrayLink, AnswerUnderWay, CallsSucceed
  <1> QED
    BY <1>5, <1>6, <1>7

(* An event that is not a failure stays under way when CbFind takes it.    *)
LEMMA EventFound ==
  ASSUME PromptInv, CbFind, NEW e, Pending(e), e.addr = dev, e.kind # "failed"
  PROVE  Pending(e)'
  <1>1. cb = Resting /\ events = <<e>> /\ events' = Tail(events)
    BY DEF CbFind, Pending
  <1>2. events' = <<>> /\ Head(events) = e
    BY <1>1
  <1>3. ~Quiet
    BY <1>1, <1>2 DEF CbFind, Quiet
  <1>4. ctx \in Used(devices) /\ This.address = dev
    BY <1>3, EventUnderWay, WaitersContext
  <1>5. dca_find_by_addr(devices, e.addr) # 0
    BY <1>4, FindByAddr DEF This, PromptInv, Typed
  <1>6. cb' # Resting
    BY <1>2, <1>5, FindingFinds DEF PromptInv
  <1>7. \E i : cb' = Found(e, i)
    BY <1>2, <1>6, FindingFinds DEF PromptInv
  <1>8. cb'.event = e
    BY <1>7 DEF Found
  <1> QED
    BY <1>2, <1>6, <1>8 DEF Pending

(* The callback brings the answer to the context that waits for it.        *)
LEMMA CallbackOrderly ==
  ASSUME ReliableInv, Callback
  PROVE  Orderly'
  <1> USE DEF ReliableInv, Orderly
  <1>1. UNCHANGED <<pc, dev, ctx, status, got, link, hnd>>
    BY DEF Callback, CbFind, CbLock, CbUpdate, appVars, aceVars
  <1>2. NoStrayLink' /\ CallsSucceed'
    BY <1>1 DEF NoStrayLink, CallsSucceed
  <1>3. PromptInv'
    <2>1. InOrder'
      BY CbFindInOrder, CbLockInOrder, CbUpdateInOrder DEF Callback
    <2>2. Typed'
      BY CallbackTyped DEF PromptInv
    <2> QED
      BY <2>1, <2>2 DEF PromptInv
  <1>4. CASE CbFind
    <2>1. devices' = devices
      BY <1>4 DEF CbFind
    <2>2. Used(devices)' = Used(devices)
      BY <2>1 DEF Used
    <2>3. OneEach' /\ OwnHandles'
      BY <1>1, <2>1, <2>2 DEF OneEach, OwnHandles, Connecting
    <2>4. AnswerUnderWay'
      <3> SUFFICES ASSUME pc = "await connected", link[dev] # "connecting" PROVE AnswerUnderWay'
        BY <1>1 DEF AnswerUnderWay
      <3>1. ~Quiet
        BY <1>4 DEF CbFind, Quiet
      <3>2. link[dev] = "up" /\ Pending(EventOf("connected", dev, hnd[dev]))
        BY <3>1 DEF AnswerUnderWay, Connected
      <3>3. Pending(EventOf("connected", dev, hnd[dev]))'
        <4> DEFINE e == EventOf("connected", dev, hnd[dev])
        <4>1. e.addr = dev /\ e.kind # "failed"
          BY DEF EventOf
        <4>2. Pending(e)
          BY <3>2
        <4>3. e' = e
          BY <1>1
        <4>4. \A d : Pending(d) /\ d.addr = dev /\ d.kind # "failed" => Pending(d)'
          BY <1>4, EventFound
        <4> HIDE DEF e
        <4>5. PICK d : d = e
          OBVIOUS
        <4>6. Pending(d)'
          BY <4>1, <4>2, <4>4, <4>5
        <4>7. Pending(e)'
          BY <4>3, <4>5, <4>6
        <4> QED
          BY <4>7 DEF e
      <3> QED
        BY <1>1, <3>2, <3>3 DEF AnswerUnderWay
    <2> QED
      BY <1>2, <2>3, <2>4
  <1>5. CASE CbLock
    <2>1. /\ cb.pc = "found" /\ cb # Resting /\ cb' # Resting /\ cb'.event = cb.event
          /\ events' = events /\ Used(devices)' = Used(devices)
          /\ \A j \in Used(devices) : /\ devices'.items[j].address = devices.items[j].address
                                      /\ devices'.items[j].handle = devices.items[j].handle
      BY <1>5, CbLockArray
    <2>2. OneEach' /\ OwnHandles'
      BY <1>1, <2>1 DEF OneEach, OwnHandles, Connecting
    <2>3. AnswerUnderWay'
      <3> SUFFICES ASSUME pc = "await connected" PROVE AnswerUnderWay'
        BY <1>1 DEF AnswerUnderWay
      <3>1. /\ link[dev] = "up" /\ events = <<>>
            /\ cb.event = EventOf("connected", dev, hnd[dev])
        BY <2>1, BusyWait
      <3>2. Pending(EventOf("connected", dev, hnd[dev]))'
        BY <1>1, <2>1, <3>1 DEF Pending
      <3> QED
        BY <1>1, <3>1, <3>2 DEF AnswerUnderWay
    <2> QED
      BY <1>2, <2>2, <2>3
  <1>6. CASE CbUpdate
    <2> DEFINE k == cb.ctx
    <2>1. /\ cb.pc = "locked" /\ cb' = Resting /\ events' = events
          /\ Used(devices)' = Used(devices)
          /\ \A j \in Used(devices) : j # k => devices'.items[j] = devices.items[j]
          /\ devices'.items[k] = Updated(devices.items[k], cb.event)
          /\ \A j \in Used(devices) : devices'.items[j].address = devices.items[j].address
      BY <1>6, CbUpdateArray DEF CbUpdate
    <2>2. /\ k \in Used(devices) /\ devices.items[k].address = dev
          /\ ctx \in Used(devices) /\ This.address = dev /\ events = <<>>
          /\ devices.items[k] \in Context /\ cb.event \in Event
      <3>1. cb.pc = "locked"
        BY <2>1
      <3>2. Typed
        BY DEF PromptInv
      <3> QED
        BY <3>1, <3>2, BusyWait, BusyRecord
    <2>3. k = ctx
      BY <2>2 DEF OneEach, This
    <2> HIDE DEF k
    <2>4. OneEach'
      BY <2>1 DEF OneEach
    <2>5. CASE pc = "await connected"
      <3>1. link[dev] = "up" /\ cb.event = EventOf("connected", dev, hnd[dev])
        BY <2>1, <2>5, BusyWait
      <3>2. cb.event.kind = "connected" /\ cb.event.handle = hnd[dev]
        <4>1. cb.event = EventOf("connected", dev, hnd[dev])
          BY <3>1
        <4> QED
          BY <4>1, EventFields
      <3>3. /\ devices'.items[k].connected /\ ~devices'.items[k].disconnected
            /\ devices'.items[k].handle = hnd[dev]
        BY <2>1, <2>2, <3>2, UpdateOf
      <3>4. Connected'
        BY <1>1, <2>1, <2>2, <2>3, <3>1, <3>3 DEF Connected, Quiet, This
      <3>5. OwnHandles'
        BY <1>1, <2>1, <2>3, <2>5 DEF OwnHandles, Connecting
      <3> QED
        BY <1>2, <2>4, <3>4, <3>5 DEF AnswerUnderWay
    <2>6. CASE pc # "await connected"
      <3>1. cb.event = EventOf("disconnected", dev, got[dev])
        BY <2>1, <2>6, BusyWait
      <3>2. cb.event.kind = "disconnected"
        BY <3>1, EventFields
      <3>3. devices'.items[k].handle = devices.items[k].handle
        BY <2>1, <2>2, <3>2, UpdateOf
      <3>4. \A j \in Used(devices) : devices'.items[j].handle = devices.items[j].handle
        BY <2>1, <3>3
      <3>5. OwnHandles'
        BY <1>1, <2>1, <3>4 DEF OwnHandles, Connecting
      <3> QED
        BY <1>1, <1>2, <2>4, <2>6, <3>5 DEF AnswerUnderWay
    <2> QED
      BY <2>5, <2>6
  <1> QED
    BY <1>4, <1>5, <1>6 DEF Callback

(* Every step keeps this, too.                                             *)
LEMMA NextOrderly ==
  ASSUME Reliable, ReliableInv, [Next]_vars
  PROVE  ReliableInv'
  <1>1. PromptInv'
    BY ReliableIsPrompt, NextInOrder DEF ReliableInv
  <1>2. CASE UNCHANGED vars
    BY <1>1, <1>2 DEF vars, appVars, aceVars, ReliableInv, Orderly, OneEach, OwnHandles, NoStrayLink,
       AnswerUnderWay, CallsSucceed, Connecting, Connected, Pending, Quiet, This, Used
  <1>3. CASE Next
    BY <1>1, <1>3, NothingFails, AddContextOrderly, WaitingOrderly, CopyHandleOrderly,
       RemoveContextOrderly, CallbackOrderly DEF Next, Ace, Continue, ReliableInv
  <1> QED
    BY <1>2, <1>3

(* So it holds in every state.                                             *)
LEMMA ReliableInvariant ==
  ASSUME Reliable
  PROVE  Spec => []ReliableInv
  <1>1. Init => ReliableInv
    BY InitTyped, InitInOrder, InitOrderly DEF PromptInv, ReliableInv
  <1>2. ReliableInv /\ [Next]_vars => ReliableInv'
    BY NextOrderly
  <1> QED
    BY <1>1, <1>2, PTL DEF Spec

(* When nothing fails, the array holds one context, with its handle, for   *)
(* each device that the application has a handle for.                      *)
THEOREM OneContextPerConnection ==
  ASSUME Reliable
  PROVE  Spec => []ContextPerConnection
  <1>1. ReliableInv => ContextPerConnection
    <2> SUFFICES ASSUME ReliableInv, pc = "idle"
                 PROVE  /\ OneEach
                        /\ {<<devices.items[i].address, devices.items[i].handle>> : i \in Used(devices)}
                             = {<<a, got[a]>> : a \in {b \in Addrs : got[b] # NoHandle}}
      BY DEF ContextPerConnection, OneEach
    <2>1. \A i \in Used(devices) :
            /\ devices.items[i].address \in Addrs
            /\ devices.items[i].handle = got[devices.items[i].address]
            /\ devices.items[i].handle # NoHandle
      BY ContextInUse DEF ReliableInv, Orderly, OwnHandles, Connecting, PromptInv, Typed, Context
    <2>2. \A a \in Addrs : got[a] # NoHandle =>
            \E i \in Used(devices) : devices.items[i].address = a /\ devices.items[i].handle = got[a]
      BY DEF ReliableInv, PromptInv, InOrder, GotInOrder
    <2> QED
      BY <2>1, <2>2 DEF ReliableInv, Orderly
  <1> QED
    BY ReliableInvariant, <1>1, PTL

(* The answer to a request reaches the context on which the caller waits.  *)
THEOREM AnswersReachCallers ==
  ASSUME Reliable
  PROVE  Spec => []AnswerReachesCaller
  <1>1. ReliableInv => AnswerReachesCaller
    <2> SUFFICES ASSUME ReliableInv, Settled(dev)
                 PROVE  /\ pc = "await connected" /\ link[dev] = "up" => This.connected
                        /\ pc = "await disconnected" /\ link[dev] = "down" => This.disconnected
      BY DEF AnswerReachesCaller
    <2> DEFINE yes == EventOf("connected", dev, hnd[dev])
               gone == EventOf("disconnected", dev, got[dev])
    <2>1. yes.addr = dev /\ gone.addr = dev
      BY DEF EventOf
    <2>2. ~Pending(yes) /\ ~Pending(gone)
      <3> HIDE DEF yes, gone
      <3> QED
        BY <2>1, SettledIsQuiet
    <2> QED
      BY <2>2 DEF ReliableInv, Orderly, AnswerUnderWay, Connected, PromptInv, InOrder, CallInOrder
  <1> QED
    BY ReliableInvariant, <1>1, PTL

(* And every call succeeds.                                                *)
THEOREM NoCallFails ==
  ASSUME Reliable
  PROVE  Spec => []CallsSucceed
  <1>1. ReliableInv => CallsSucceed
    BY DEF ReliableInv, Orderly
  <1> QED
    BY ReliableInvariant, <1>1, PTL
----------------------------------------------------------------------------
(* One device, and an array that does not grow under it                    *)

OneDevice == \A a, b \in Addrs : a = b

\* Contexts do not outgrow the first block, and so it is not moved.
Sheltered == OneDevice /\ MaxCtx <= InitCap

RoomEnough == Capacity(devices) = 0 \/ Capacity(devices) >= InitCap

\* All is over for the device: its link is down, and no event is under way.
Over == Quiet /\ link[dev] = "down"

\* The callback works on the first context only: the others, which belong to
\* failed calls, never hear of an event.
AtTheFirst ==
  /\ \A i \in Used(devices) : i # 1 => ~devices.items[i].connected
  /\ cb # Resting => /\ ~cb.dangling /\ cb.ctx = 1 /\ 1 \in Used(devices)
                     /\ cb.event.kind # "failed"

\* A handle is known only as long as there is no other context.
CallerAlone ==
  /\ pc \in {"request connect", "await connected", "copy handle"} => ctx = devices.count
  /\ \/ got[dev] # NoHandle
     \/ pc \in {"copy handle", "request disconnect", "await disconnected", "remove"}
     => devices.count = 1
  /\ pc = "remove" => devices.items[1].disconnected

\* The first context hears of the link's end last of all, and is removed when
\* nothing is left to hear.
LifeOfFirst ==
  /\ devices.count = 0 => Over
  /\ devices.count = 1 =>
       /\ devices.items[1].disconnected => Over
       /\ \A i \in 1 .. Len(events) :
            events[i].kind = "disconnected" => i = Len(events) /\ link[dev] = "down"
       /\ cb # Resting /\ cb.event.kind = "disconnected" => events = <<>> /\ link[dev] = "down"
       /\ pc = "request connect" => Over /\ ~devices.items[1].disconnected

ShelteredInv ==
  Typed /\ RoomEnough /\ AtTheFirst /\ CallerAlone /\ LifeOfFirst /\ NoOrphanedLock

(* No block is allocated at first, and all is over for the device.         *)
LEMMA InitSheltered == Init => ShelteredInv
  <1> SUFFICES ASSUME Init PROVE ShelteredInv
    OBVIOUS
  <1>1. Used(devices) = {} /\ Capacity(devices) = 0 /\ devices.count = 0
    BY DEF Init, Empty, Used, Capacity
  <1>2. got[dev] = NoHandle /\ link[dev] = "down" /\ cb = Resting /\ events = <<>> /\ pc = "idle"
    BY DEF Init
  <1> QED
    BY <1>1, <1>2, InitTyped DEF ShelteredInv, RoomEnough, AtTheFirst, CallerAlone, LifeOfFirst,
       NoOrphanedLock, Over, Quiet

(* Counts and places.                                                      *)
LEMMA Places ==
  ASSUME Typed
  PROVE  /\ devices.count \in Nat /\ Capacity(devices) \in Nat /\ dev \in Addrs
         /\ pc # "idle" => ctx \in 1 .. devices.count
         /\ devices.count = 1 => Used(devices) = {1}
  BY DEF Typed, TypeOK, InBounds, Arrays, Capacity, Used

(* The calls' steps that only look at the array.                           *)
LEMMA LookingSheltered ==
  ASSUME Sheltered, ShelteredInv, Typed',
         \/ ConnectRefused \/ ConnectHeard \/ ConnectTimeout \/ CopyHandle
         \/ DisconnectRefused \/ DisconnectHeard \/ DisconnectTimeout
         \/ \E a \in Addrs : FindContext(a)
         \/ \E h \in Handles : NoContext(h)
  PROVE  ShelteredInv'
  <1> USE DEF Goto, Return, aceVars
  <1>1. /\ UNCHANGED <<devices, link, events, cb>>
        /\ dev' = dev
        /\ pc' # "request connect"
    <2>1. \A a \in Addrs : a = dev
      BY Places DEF Sheltered, OneDevice, ShelteredInv
    <2> QED
      BY <2>1 DEF ConnectRefused, ConnectHeard, ConnectTimeout, CopyHandle, DisconnectRefused,
         DisconnectHeard, DisconnectTimeout, FindContext, NoContext
  <1>2. RoomEnough' /\ AtTheFirst' /\ LifeOfFirst' /\ NoOrphanedLock'
    BY <1>1 DEF ShelteredInv, RoomEnough, AtTheFirst, LifeOfFirst, NoOrphanedLock, Over, Quiet,
       Capacity, Used
  <1>3. CallerAlone'
    <2>1. CASE ConnectRefused \/ ConnectTimeout \/ DisconnectRefused
      <3>1. pc' = "idle" /\ got' = [got EXCEPT ![dev] = NoHandle]
        BY <2>1 DEF ConnectRefused, ConnectTimeout, DisconnectRefused
      <3>2. got'[dev'] = NoHandle
        BY <1>1, <3>1 DEF ShelteredInv, Typed, TypeOK
      <3> QED
        BY <3>1, <3>2 DEF CallerAlone
    <2>2. CASE CopyHandle \/ DisconnectTimeout
      <3>1. pc' = "idle" /\ devices.count = 1
        BY <2>2 DEF CopyHandle, DisconnectTimeout, ShelteredInv, CallerAlone
      <3> QED
        BY <1>1, <3>1 DEF CallerAlone
    <2>3. CASE ConnectHeard
      <3>1. pc = "await connected" /\ pc' = "copy handle" /\ ctx' = ctx
            /\ devices.items[ctx].connected
        BY <2>3 DEF ConnectHeard, Heard, This
      <3>2. ctx = devices.count /\ ctx \in Used(devices) /\ ctx = 1
        BY <3>1 DEF ShelteredInv, CallerAlone, AtTheFirst, Typed
      <3> QED
        BY <1>1, <3>1, <3>2 DEF CallerAlone
    <2>4. CASE DisconnectHeard
      <3>1. pc = "await disconnected" /\ pc' = "remove" /\ devices.items[ctx].disconnected
        BY <2>4 DEF DisconnectHeard, Heard, This
      <3>2. devices.count = 1
        BY <3>1 DEF ShelteredInv, CallerAlone
      <3>3. ctx \in 1 .. devices.count
        BY <3>1, Places DEF ShelteredInv
      <3>4. ctx = 1
        BY <3>2, <3>3
      <3> QED
        BY <1>1, <3>1, <3>2, <3>4 DEF CallerAlone
    <2>5. ASSUME NEW a \in Addrs, FindContext(a) PROVE CallerAlone'
      <3>1. pc' = "request disconnect" /\ got' = got /\ got[dev] # NoHandle
        BY <1>1, <2>5 DEF FindContext
      <3> QED
        BY <1>1, <3>1 DEF ShelteredInv, CallerAlone
    <2>6. ASSUME NEW h \in Handles, NoContext(h) PROVE CallerAlone'
      <3>1. pc = "idle" /\ pc' = pc /\ (got'[dev] # NoHandle => got[dev] # NoHandle)
        BY <2>6, Places DEF NoContext, ShelteredInv
      <3> QED
        BY <1>1, <3>1 DEF ShelteredInv, CallerAlone
    <2> QED
      BY <2>1, <2>2, <2>3, <2>4, <2>5, <2>6
  <1> QED
    BY <1>2, <1>3 DEF ShelteredInv

(* A request is made of a link that is down or up.                         *)
LEMMA RequestSheltered ==
  ASSUME Sheltered, ShelteredInv, Typed', RequestConnect \/ RequestDisconnect
  PROVE  ShelteredInv'
  <1>1. /\ UNCHANGED <<devices, dev, ctx, got, events, cb>>
        /\ \/ pc = "request connect" /\ pc' = "await connected"
           \/ pc = "request disconnect" /\ pc' = "await disconnected" /\ link[dev] = "up"
    BY DEF RequestConnect, RequestDisconnect, Goto
  <1>2. devices.count # 0
    <2>1. ctx \in 1 .. devices.count /\ devices.count \in Nat
      BY <1>1, Places DEF ShelteredInv
    <2> QED
      BY <2>1
  <1>3. devices.count = 1 =>
          /\ ~devices.items[1].disconnected
          /\ \A i \in 1 .. Len(events) : events[i].kind # "disconnected"
          /\ cb # Resting => cb.event.kind # "disconnected"
    <2>1. CASE pc = "request connect"
      <3>1. Len(<<>>) = 0 /\ 1 .. 0 = {}
        OBVIOUS
      <3>2. devices.count = 1 => events = <<>> /\ cb = Resting /\ ~devices.items[1].disconnected
        BY <2>1 DEF ShelteredInv, LifeOfFirst, Over, Quiet
      <3> QED
        BY <3>1, <3>2
    <2>2. CASE link[dev] = "up"
      BY <2>2 DEF ShelteredInv, LifeOfFirst, Over
    <2> QED
      BY <1>1, <2>1, <2>2
  <1>4. LifeOfFirst'
    BY <1>1, <1>2, <1>3 DEF LifeOfFirst
  <1>5. CallerAlone'
    BY <1>1 DEF ShelteredInv, CallerAlone
  <1>6. RoomEnough' /\ AtTheFirst' /\ NoOrphanedLock'
    BY <1>1 DEF ShelteredInv, RoomEnough, AtTheFirst, NoOrphanedLock, Capacity, Used
  <1> QED
    BY <1>4, <1>5, <1>6 DEF ShelteredInv

(* The first block has room for InitCap contexts.                          *)
LEMMA FirstBlock ==
  ASSUME NEW arr, InBounds(arr), Capacity(arr) = 0, NEW c \in Context
  PROVE  Capacity(dca_add_new(arr, c)) = InitCap
  <1> DEFINE slots == [k \in 1 .. InitCap |-> c]
  <1>1. arr.items = <<>> /\ arr.count = 0 /\ Full(arr)
    BY DEF InBounds, Arrays, Capacity, Full
  <1>2. slots \in Seq(Context) /\ Len(slots) = InitCap
    BY InitCapPositive
  <1>3. Room(arr, c) = <<>> \o slots
    <2>1. NewCapacity(Capacity(arr)) - Capacity(arr) = InitCap
      BY InitCapPositive DEF NewCapacity
    <2> QED
      BY <1>1, <2>1 DEF Room
  <1> HIDE DEF slots
  <1>4. Room(arr, c) = slots
    BY <1>2, <1>3, ConcatEmptySeq
  <1>5. 1 \in 1 .. Len(slots)
    BY <1>2, InitCapPositive
  <1>6. dca_add_new(arr, c).items = [slots EXCEPT ![1] = c]
    BY <1>1, <1>4 DEF dca_add_new
  <1>7. Len([slots EXCEPT ![1] = c]) = InitCap
    BY <1>2, <1>5, ExceptSeq
  <1> QED
    BY <1>6, <1>7 DEF Capacity

(* A new context comes behind the others, in the same block.               *)
LEMMA AddSheltered ==
  ASSUME Sheltered, ShelteredInv, Typed', NEW a \in Addrs, AddContext(a)
  PROVE  ShelteredInv'
  <1>1. a = dev /\ dev' = dev /\ got' = got /\ got[dev] = NoHandle /\ UNCHANGED <<link, events>>
        /\ pc = "idle" /\ pc' = "request connect" /\ ctx' = devices.count + 1
        /\ devices.count < MaxCtx
    BY Places DEF Sheltered, OneDevice, ShelteredInv, AddContext, aceVars
  <1>2. Fresh(a) \in Context /\ ~Fresh(a).connected /\ ~Fresh(a).disconnected /\ ~Fresh(a).held
    BY DEF Fresh, Context, HandleOrNull
  <1>3. /\ devices'.count = devices.count + 1
        /\ Capacity(devices') >= Capacity(devices)
        /\ devices'.items[devices.count + 1] = Fresh(a)
        /\ \A j \in Used(devices) : devices'.items[j] = devices.items[j]
    <2>1. InBounds(devices) /\ devices' = dca_add_new(devices, Fresh(a))
      BY DEF AddContext, ShelteredInv, Typed
    <2> QED
      BY <1>2, <2>1, AddNew
  <1>4. Capacity(devices) = 0 => Capacity(devices') = InitCap
    BY <1>2, FirstBlock DEF AddContext, ShelteredInv, Typed
  <1>5. devices.count \in Nat /\ Capacity(devices) \in Nat /\ Capacity(devices') \in Nat
        /\ devices.count <= Capacity(devices)
    BY Places DEF ShelteredInv, Typed, InBounds, Capacity
  <1>6. Used(devices') = Used(devices) \cup {devices.count + 1} /\ devices.count + 1 \notin Used(devices)
    BY <1>3, <1>5 DEF Used
  <1>7. RoomEnough'
    BY <1>3, <1>4, <1>5, InitCapPositive DEF ShelteredInv, RoomEnough
  <1>8. cb' = cb
    <2>1. CASE cb = Resting
      BY <2>1 DEF AddContext
    <2>2. CASE cb # Resting
      <3>1. devices.count # 0
        BY <2>2, <1>5 DEF ShelteredInv, AtTheFirst, Used
      <3>2. Capacity(devices) >= InitCap
        BY <1>5, <3>1 DEF ShelteredInv, RoomEnough
      <3>3. ~Full(devices)
        <4>1. MaxCtx \in Nat /\ InitCap \in Nat /\ MaxCtx <= InitCap
          BY InitCapPositive, ConnectionAssumption DEF Sheltered
        <4>2. devices.count \in Nat /\ Capacity(devices) \in Nat /\ devices.count < MaxCtx
          BY <1>1, <1>5
        <4>3. devices.count < InitCap
          BY <4>1, <4>2
        <4>4. devices.count < Capacity(devices)
          BY <3>2, <4>1, <4>2, <4>3
        <4> QED
          BY <4>2, <4>4 DEF Full
      <3> QED
        BY <3>3 DEF AddContext
    <2> QED
      BY <2>1, <2>2
  <1>9. AtTheFirst'
    BY <1>2, <1>3, <1>6, <1>8 DEF ShelteredInv, AtTheFirst
  <1>10. NoOrphanedLock'
    BY <1>2, <1>3, <1>6, <1>8 DEF ShelteredInv, NoOrphanedLock
  <1>11. CallerAlone'
    BY <1>1, <1>3 DEF CallerAlone
  <1>12. LifeOfFirst'
    <2>1. devices'.count # 0
      BY <1>3, <1>5
    <2>2. devices'.count = 1 => Over' /\ ~devices'.items[1].disconnected
      <3>1. devices'.count = 1 => devices.count = 0
        BY <1>3, <1>5
      <3> QED
        BY <1>1, <1>2, <1>3, <1>8, <3>1 DEF ShelteredInv, LifeOfFirst, Over, Quiet
    <2>3. 1 .. Len(<<>>) = {}
      OBVIOUS
    <2> QED
      BY <2>1, <2>2, <2>3 DEF LifeOfFirst, Over, Quiet
  <1> QED
    BY <1>7, <1>9, <1>10, <1>11, <1>12 DEF ShelteredInv

(* bleDisconnect leaves no context behind, or the array as it was.         *)
LEMMA RemoveSheltered ==
  ASSUME Sheltered, ShelteredInv, Typed', RemoveContext
  PROVE  ShelteredInv'
  <1>1. /\ pc = "remove" /\ pc' = "idle" /\ dev' = dev /\ UNCHANGED <<link, events, cb>>
        /\ got' = [got EXCEPT ![dev] = NoHandle]
    BY DEF RemoveContext, Return, aceVars
  <1>2. got'[dev'] = NoHandle
    BY <1>1 DEF ShelteredInv, Typed, TypeOK
  <1>3. devices.count = 1 /\ Over
    BY <1>1 DEF ShelteredInv, CallerAlone, LifeOfFirst
  <1>4. CASE dca_find_by_handle(devices, got[dev]) = 0
    <2>1. devices' = devices
      BY <1>4 DEF RemoveContext, dca_remove
    <2> QED
      BY <1>1, <1>2, <2>1 DEF ShelteredInv, RoomEnough, AtTheFirst, CallerAlone, LifeOfFirst,
         NoOrphanedLock, Over, Quiet, Capacity, Used
  <1>5. CASE dca_find_by_handle(devices, got[dev]) # 0
    <2>1. devices'.count = 0 /\ Capacity(devices') = Capacity(devices)
      BY <1>3, <1>5, RemoveFound DEF RemoveContext, ShelteredInv, Typed
    <2>2. Used(devices') = {}
      BY <2>1 DEF Used
    <2> QED
      BY <1>1, <1>2, <1>3, <2>1, <2>2 DEF ShelteredInv, RoomEnough, AtTheFirst, CallerAlone,
         LifeOfFirst, NoOrphanedLock, Over, Quiet
  <1> QED
    BY <1>4, <1>5

(* The callback finds the first context, and tells it of the end last.     *)
LEMMA CallbackSheltered ==
  ASSUME Sheltered, ShelteredInv, Typed', Callback
  PROVE  ShelteredInv'
  <1>1. UNCHANGED <<pc, dev, ctx, got, link>>
    BY DEF Callback, CbFind, CbLock, CbUpdate, appVars, aceVars
  <1>2. CASE CbFind
    <2> DEFINE e == Head(events)
    <2>1. events \in Seq(Event) /\ events # <<>> /\ events' = Tail(events) /\ cb = Resting /\ devices' = devices
      BY <1>2 DEF CbFind, ShelteredInv, Typed, TypeOK
    <2>2. /\ e \in Event /\ e = events[1] /\ Len(events') = Len(events) - 1 /\ Len(events) \in Nat
          /\ \A i \in 1 .. Len(events') : events'[i] = events[i + 1]
      BY <2>1, HeadTailProperties, LenProperties
    <2>3. devices.count # 0
      BY <2>1 DEF ShelteredInv, LifeOfFirst, Over, Quiet
    <2>4. 1 \in Used(devices) /\ devices.items[1].address = e.addr
      <3>1. 1 \in Used(devices)
        BY <2>3, Places DEF ShelteredInv, Used
      <3>2. devices.items[1].address \in Addrs /\ e.addr \in Addrs
        BY <2>2, <3>1, ContextInUse DEF ShelteredInv, Typed, Context, Event
      <3> QED
        BY <3>1, <3>2 DEF Sheltered, OneDevice
    <2>5. cb' # Resting => cb' = Found(e, 1) /\ e.kind # "failed"
      <3> SUFFICES ASSUME cb' # Resting PROVE cb' = Found(e, 1) /\ e.kind # "failed"
        OBVIOUS
      <3>1. PICK i \in Used(devices) : cb' = Found(e, i) /\ i = dca_find_by_addr(devices, e.addr)
                                       /\ e.kind # "failed"
        BY <1>2, FindingFinds DEF ShelteredInv
      <3>2. \A j \in 1 .. i - 1 : devices.items[j].address # e.addr
        BY <3>1, <2>3, FindByAddr DEF ShelteredInv, Typed, Used
      <3>3. i = 1
        <4>1. i \in Nat /\ i >= 1
          BY Places DEF ShelteredInv, Used
        <4>2. i # 1 => 1 \in 1 .. i - 1
          BY <4>1
        <4> QED
          BY <2>4, <3>2, <4>2
      <3> QED
        BY <3>1, <3>3
    <2> HIDE DEF e
    <2>6. AtTheFirst'
      BY <2>1, <2>4, <2>5 DEF ShelteredInv, AtTheFirst, Found
    <2>7. NoOrphanedLock'
      BY <2>1 DEF ShelteredInv, NoOrphanedLock
    <2>8. LifeOfFirst'
      <3> SUFFICES ASSUME devices.count = 1 PROVE LifeOfFirst'
        BY <2>1, <2>3 DEF LifeOfFirst
      <3>1. ~devices.items[1].disconnected /\ pc # "request connect"
        BY <2>1 DEF ShelteredInv, LifeOfFirst, Over, Quiet
      <3>2. ASSUME NEW i \in 1 .. Len(events'), events'[i].kind = "disconnected"
            PROVE  i = Len(events') /\ link[dev] = "down"
        <4>1. i + 1 \in 1 .. Len(events) /\ events[i + 1].kind = "disconnected"
          BY <2>2, <3>2
        <4>2. i + 1 = Len(events) /\ link[dev] = "down"
          BY <4>1 DEF ShelteredInv, LifeOfFirst
        <4> QED
          BY <2>2, <4>2
      <3>3. ASSUME cb' # Resting, cb'.event.kind = "disconnected"
            PROVE  events' = <<>> /\ link[dev] = "down"
        <4>1. events[1].kind = "disconnected"
          BY <2>2, <2>5, <3>3 DEF Found
        <4>2. 1 \in 1 .. Len(events)
          BY <2>1, <2>2, EmptySeq
        <4>3. 1 = Len(events) /\ link[dev] = "down"
          BY <4>1, <4>2 DEF ShelteredInv, LifeOfFirst
        <4>4. events' \in Seq(Event) /\ Len(events') = 0
          BY <2>1, <2>2, <4>3, HeadTailProperties
        <4> QED
          BY <4>3, <4>4, EmptySeq
      <3> QED
        BY <1>1, <2>1, <2>3, <3>1, <3>2, <3>3 DEF LifeOfFirst
    <2> QED
      BY <1>1, <2>1, <2>6, <2>7, <2>8 DEF ShelteredInv, RoomEnough, CallerAlone, Capacity
  <1>3. CASE CbLock
    <2>1. /\ cb.pc = "found" /\ cb # Resting /\ ~cb.dangling /\ cb.ctx = 1 /\ 1 \in Used(devices)
          /\ cb.event.kind # "failed" /\ events' = events
      BY <1>3, BusyRecord DEF CbLock, ShelteredInv, AtTheFirst, aceVars
    <2>2. /\ cb' # Resting /\ cb'.pc = "locked" /\ ~cb'.dangling /\ cb'.ctx = 1 /\ cb'.event = cb.event
      <3>1. cb' = [cb EXCEPT !.pc = "locked"]
        BY <1>3 DEF CbLock
      <3>2. cb \in [pc : {"found", "locked"}, event : Event, ctx : Nat, dangling : BOOLEAN]
        BY <2>1, BusyRecord DEF ShelteredInv
      <3> QED
        BY <2>1, <3>1, <3>2 DEF Resting
    <2>3. devices.items[1] \in Context /\ 1 \in 1 .. Capacity(devices)
      BY <2>1, ContextInUse DEF ShelteredInv, Typed
    <2>4. /\ devices'.count = devices.count /\ Capacity(devices') = Capacity(devices)
          /\ \A j \in 1 .. Capacity(devices) :
               devices'.items[j] = IF j = 1 THEN Locked(devices.items[1]) ELSE devices.items[j]
      BY <1>3, <2>1, <2>3, LockOverwrites, Overwrite DEF ShelteredInv, Typed
    <2>5. Locked(devices.items[1]).disconnected = devices.items[1].disconnected
      BY <2>3 DEF Locked, Context
    <2>6. /\ Used(devices') = Used(devices)
          /\ \A j \in Used(devices) : j \in 1 .. Capacity(devices)
          /\ \A j \in Used(devices) : j # 1 => devices'.items[j] = devices.items[j]
          /\ devices'.items[1].disconnected = devices.items[1].disconnected
      BY <2>3, <2>4, <2>5, ContextInUse DEF Used, ShelteredInv, Typed
    <2>7. AtTheFirst'
      BY <2>1, <2>2, <2>6 DEF ShelteredInv, AtTheFirst
    <2>8. NoOrphanedLock'
      BY <2>1, <2>2, <2>6 DEF ShelteredInv, NoOrphanedLock
    <2>9. CallerAlone'
      BY <1>1, <2>4, <2>6 DEF ShelteredInv, CallerAlone
    <2>10. LifeOfFirst'
      BY <1>1, <2>1, <2>2, <2>4, <2>6 DEF ShelteredInv, LifeOfFirst, Over, Quiet
    <2> QED
      BY <2>4, <2>7, <2>8, <2>9, <2>10 DEF ShelteredInv, RoomEnough
  <1>4. CASE CbUpdate
    <2>1. /\ cb.pc = "locked" /\ cb # Resting /\ ~cb.dangling /\ cb.ctx = 1 /\ 1 \in Used(devices)
          /\ cb.event.kind # "failed" /\ events' = events /\ cb' = Resting /\ cb.event \in Event
      BY <1>4, BusyRecord DEF CbUpdate, ShelteredInv, AtTheFirst, aceVars
    <2> DEFINE c == devices.items[1]
               d == Updated(c, cb.event)
    <2>2. c \in Context /\ 1 \in 1 .. Capacity(devices)
      BY <2>1, ContextInUse DEF ShelteredInv, Typed
    <2>3. /\ devices'.count = devices.count /\ Capacity(devices') = Capacity(devices)
          /\ \A j \in 1 .. Capacity(devices) : devices'.items[j] = IF j = 1 THEN d ELSE devices.items[j]
      BY <1>4, <2>1, <2>2, UpdateOverwrites, Overwrite DEF ShelteredInv, Typed
    <2>4. /\ ~d.held
          /\ cb.event.kind = "disconnected" => d.disconnected
          /\ cb.event.kind # "disconnected" => ~d.disconnected
      BY <2>1, <2>2 DEF Updated, Context, Event
    <2>5. /\ Used(devices') = Used(devices) /\ devices'.items[1] = d
          /\ \A j \in Used(devices) : j # 1 => devices'.items[j] = devices.items[j]
      BY <2>2, <2>3, ContextInUse DEF Used, ShelteredInv, Typed
    <2> HIDE DEF c, d
    <2>6. AtTheFirst'
      BY <2>1, <2>5 DEF ShelteredInv, AtTheFirst
    <2>7. NoOrphanedLock'
      BY <2>1, <2>4, <2>5 DEF ShelteredInv, NoOrphanedLock
    <2>8. devices.count # 0
      BY <2>1, Places DEF ShelteredInv, Used
    <2>9. devices.count = 1 /\ pc \in {"remove", "request connect"} => cb = Resting
      BY DEF ShelteredInv, CallerAlone, LifeOfFirst, Over, Quiet
    <2>10. CallerAlone'
      BY <1>1, <2>1, <2>3, <2>5, <2>9 DEF ShelteredInv, CallerAlone
    <2>11. LifeOfFirst'
      BY <1>1, <2>1, <2>3, <2>4, <2>5, <2>8, <2>9 DEF ShelteredInv, LifeOfFirst, Over, Quiet
    <2> QED
      BY <2>3, <2>6, <2>7, <2>10, <2>11 DEF ShelteredInv, RoomEnough
  <1> QED
    BY <1>2, <1>3, <1>4 DEF Callback

(* ace_bt ends a link once, and nothing follows until the next request.    *)
LEMMA AceSheltered ==
  ASSUME Sheltered, ShelteredInv, Typed', NEW a \in Addrs, Ace(a)
  PROVE  ShelteredInv'
  <1>1. a = dev /\ UNCHANGED <<devices, pc, dev, ctx, got, cb>>
    BY Places DEF Sheltered, OneDevice, ShelteredInv, Ace, LinkUp, LinkFails, LinkDown, appVars
  <1>2. link[dev] # "down"
    BY <1>1 DEF Ace, LinkUp, LinkFails, LinkDown
  <1>3. PICK e \in Event : /\ events' = Append(events, e)
                           /\ e.kind = "disconnected" => link'[dev] = "down"
    <2>1. link \in [Addrs -> {"down", "connecting", "up", "closing"}] /\ hnd[a] \in HandleOrNull
      BY DEF ShelteredInv, Typed, TypeOK
    <2>2. CASE LinkUp(a)
      <3>1. PICK h \in HandlesOf[a] : Emit("connected", a, h)
        BY <2>2 DEF LinkUp
      <3>2. h \in HandleOrNull
        BY ConnectionAssumption DEF HandleOrNull
      <3> QED
        BY <3>1, <3>2 DEF Emit, Event
    <2>3. CASE LinkFails(a)
      <3>1. Emit("failed", a, NoHandle)
        BY <2>3 DEF LinkFails
      <3> QED
        BY <3>1 DEF Emit, Event, HandleOrNull
    <2>4. CASE LinkDown(a)
      <3>1. Emit("disconnected", a, hnd[a]) /\ link'[dev] = "down"
        BY <1>1, <2>1, <2>4 DEF LinkDown
      <3> QED
        BY <2>1, <3>1 DEF Emit, Event
    <2> QED
      BY <2>2, <2>3, <2>4 DEF Ace
  <1>4. events \in Seq(Event) /\ Len(events) \in Nat
    BY LenProperties DEF ShelteredInv, Typed, TypeOK
  <1>5. /\ Len(events') = Len(events) + 1
        /\ \A i \in 1 .. Len(events) : events'[i] = events[i]
        /\ events'[Len(events) + 1] = e
    BY <1>3, <1>4, AppendProperties
  <1>6. devices.count # 0
    BY <1>2 DEF ShelteredInv, LifeOfFirst, Over
  <1>7. LifeOfFirst'
    <2> SUFFICES ASSUME devices.count = 1 PROVE LifeOfFirst'
      BY <1>1, <1>6 DEF LifeOfFirst
    <2>1. /\ ~devices.items[1].disconnected /\ pc # "request connect"
          /\ cb # Resting => cb.event.kind # "disconnected"
          /\ \A i \in 1 .. Len(events) : events[i].kind # "disconnected"
      BY <1>2 DEF ShelteredInv, LifeOfFirst, Over
    <2>2. ASSUME NEW i \in 1 .. Len(events'), events'[i].kind = "disconnected"
          PROVE  i = Len(events') /\ link'[dev] = "down"
      <3>1. i \in 1 .. Len(events) \/ i = Len(events) + 1
        BY <1>4, <1>5
      <3>2. i = Len(events) + 1
        BY <1>5, <2>1, <2>2, <3>1
      <3> QED
        BY <1>3, <1>5, <2>2, <3>2
    <2> QED
      BY <1>1, <1>6, <2>1, <2>2 DEF LifeOfFirst
  <1> QED
    BY <1>1, <1>7 DEF ShelteredInv, RoomEnough, AtTheFirst, CallerAlone, NoOrphanedLock, Capacity, Used

(* Every step keeps the device's contexts in this order.                   *)
LEMMA NextSheltered ==
  ASSUME Sheltered, ShelteredInv, [Next]_vars
  PROVE  ShelteredInv'
  <1>1. Typed'
    BY NextTyped DEF ShelteredInv
  <1>2. CASE UNCHANGED vars
    BY <1>1, <1>2 DEF vars, appVars, aceVars, ShelteredInv, RoomEnough, AtTheFirst, CallerAlone,
       LifeOfFirst, NoOrphanedLock, Over, Quiet, Capacity, Used
  <1>3. CASE Next
    BY <1>1, <1>3, LookingSheltered, RequestSheltered, AddSheltered, RemoveSheltered,
       CallbackSheltered, AceSheltered DEF Next, Continue
  <1> QED
    BY <1>2, <1>3

(* So they are in every state.                                             *)
LEMMA ShelteredInvariant ==
  ASSUME Sheltered
  PROVE  Spec => []ShelteredInv
  <1>1. ShelteredInv /\ [Next]_vars => ShelteredInv'
    BY NextSheltered
  <1> QED
    BY InitSheltered, <1>1, PTL DEF Spec

(* With one device, and no more contexts than fit into the first block,    *)
(* the callback hits a context of the device whatever fails: links that    *)
(* drop, answers that come after bleConnect or bleDisconnect has returned, *)
(* and handles that are used twice.                                        *)
THEOREM CallbackHitsContextOfOneDevice ==
  ASSUME Sheltered
  PROVE  Spec => []CallbackHitsContext
  <1>1. ShelteredInv => CallbackHitsContext
    <2> SUFFICES ASSUME ShelteredInv, cb # Resting
                 PROVE  devices.items[1].address = cb.event.addr
      BY DEF ShelteredInv, AtTheFirst, CallbackHitsContext
    <2>1. devices.items[1].address \in Addrs
      BY ContextInUse DEF ShelteredInv, AtTheFirst, Typed, Context
    <2>2. cb.event.addr \in Addrs
      BY DEF ShelteredInv, Typed, TypeOK, Event
    <2> QED
      BY <2>1, <2>2 DEF Sheltered, OneDevice
  <1> QED
    BY ShelteredInvariant, <1>1, PTL

(* Nor does dca_remove then copy a mutex that is locked.                   *)
THEOREM NoOrphanedLockOfOneDevice ==
  ASSUME Sheltered
  PROVE  Spec => []NoOrphanedLock
  <1>1. ShelteredInv => NoOrphanedLock
    BY DEF ShelteredInv
  <1> QED
    BY ShelteredInvariant, <1>1, PTL
=============================================================================
