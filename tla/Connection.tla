---------------------------- MODULE Connection -----------------------------
(***************************************************************************)
(* bleConnect, bleDisconnect and bleConnStateChangedCallback.              *)
(*                                                                         *)
(* One application thread makes the calls; ace_bt reports what becomes of  *)
(* them on a thread of its own, one event after the other. The two threads *)
(* meet in devices_context: the array itself has no lock, a context has a  *)
(* mutex that is stored in the context and moves with it. The waits are    *)
(* those of TimedFlag.                                                     *)
(*                                                                         *)
(* The application is a careful one: it connects to a device that it has   *)
(* no handle for and disconnects with the handle that bleConnect gave it.  *)
(***************************************************************************)
EXTENDS DeviceArray

CONSTANTS
  Addrs,      \* the devices
  Handles,    \* the connection handles that ace_bt can give out
  HandlesOf,  \* HandlesOf[a]: those that it can give to a link of a
  NoHandle,   \* NULL
  Faults,     \* what may go wrong, a subset of AllFaults
  MaxCtx,     \* bound: contexts in the array
  MaxEvents   \* bound: events on their way

\* "refuse": a request returns an error; "fail": ace_bt reports that a
\* connection failed; "drop": a link is lost; "late": an answer takes more
\* than the ten seconds that waitForCondition waits; "twice": the application
\* calls bleDisconnect with a handle that it has disconnected before.
AllFaults == {"refuse", "fail", "drop", "late", "twice"}

ASSUME ConnectionAssumption ==
  /\ NoHandle \notin Handles
  /\ HandlesOf \in [Addrs -> SUBSET Handles]
  /\ Faults \subseteq AllFaults
  /\ MaxCtx \in Nat \ {0}
  /\ MaxEvents \in Nat \ {0}

VARIABLES
  devices,  \* devices_context
  pc,       \* where the application's thread stands
  dev,      \* the device of its current or last call
  ctx,      \* ctx of that call: an index of devices.items
  status,   \* what the last call returned
  got,      \* got[a]: the handle that the application uses for a
  link,     \* link[a]: the state of a's link in ace_bt
  hnd,      \* hnd[a]: the handle of that link
  events,   \* the events that ace_bt has not delivered yet
  cb        \* the callback thread: pc, event, ctx and dangling (see CbFind)

appVars == <<pc, dev, ctx, status, got>>
aceVars == <<link, hnd, events>>
vars == <<devices, appVars, aceVars, cb>>

HandleOrNull == Handles \cup {NoHandle}

Context ==
  [address : Addrs, handle : HandleOrNull, held : BOOLEAN,
   connected : BOOLEAN, disconnected : BOOLEAN]

Event == [kind : {"connected", "disconnected", "failed"}, addr : Addrs, handle : HandleOrNull]

AppPCs == {"idle", "request connect", "await connected", "copy handle",
           "request disconnect", "await disconnected", "remove"}

\* No event is being handled.
Resting == [pc |-> "idle"]

TypeOK ==
  /\ devices.items \in Seq(Context)
  /\ devices.count \in 0 .. Capacity(devices)
  /\ pc \in AppPCs
  /\ dev \in Addrs
  /\ ctx \in Nat
  /\ status \in {"none", "OK", "REFUSED", "TIMEOUT", "UNINITIALIZED"}
  /\ got \in [Addrs -> HandleOrNull]
  /\ link \in [Addrs -> {"down", "connecting", "up", "closing"}]
  /\ hnd \in [Addrs -> HandleOrNull]
  /\ events \in Seq(Event)
  /\ cb = Resting \/ cb \in [pc : {"found", "locked"}, event : Event, ctx : Nat, dangling : BOOLEAN]

\* A context after memset, pthread_mutex_init and the copy of the address.
Fresh(a) ==
  [address |-> a, handle |-> NoHandle, held |-> FALSE, connected |-> FALSE, disconnected |-> FALSE]

Init ==
  /\ devices = Empty
  /\ pc = "idle"
  /\ dev \in Addrs
  /\ ctx = 0
  /\ status = "none"
  /\ got = [a \in Addrs |-> NoHandle]
  /\ link = [a \in Addrs |-> "down"]
  /\ hnd = [a \in Addrs |-> NoHandle]
  /\ events = <<>>
  /\ cb = Resting

This == devices.items[ctx]

Goto(from, to) == pc = from /\ pc' = to

\* The call in progress returns s, and h is the handle that the application
\* uses for the device from now on.
Return(s, h) ==
  /\ pc' = "idle"
  /\ status' = s
  /\ got' = [got EXCEPT ![dev] = h]
  /\ ctx' = 0
  /\ UNCHANGED dev

\* Nothing more will happen to a: its link is at rest and its events are done.
Settled(a) ==
  /\ link[a] \in {"down", "up"}
  /\ \A i \in 1 .. Len(events) : events[i].addr # a
  /\ cb # Resting => cb.event.addr # a

\* waitForCondition on a flag of This. Either way it ends with This's mutex
\* in its hands, and then releases it.
Heard(f) == f /\ ~This.held

\* Broken: pthread_cond_wait, with no deadline.
NeverTimedOut(f) == FALSE

TimedOut(f) ==
  /\ ~This.held
  /\ "late" \in Faults \/ (~f /\ Settled(dev))
----------------------------------------------------------------------------
(* bleConnect *)

\* dca_add_new, and the address. realloc may move the block; a callback that
\* has its pointer already then points into freed memory.
AddContext(a) ==
  /\ pc = "idle"
  /\ got[a] = NoHandle
  /\ devices.count < MaxCtx
  /\ devices' = dca_add_new(devices, Fresh(a))
  /\ \E moved \in BOOLEAN :
       /\ moved => Full(devices)
       /\ cb' = IF moved /\ cb # Resting THEN [cb EXCEPT !.dangling = TRUE] ELSE cb
  /\ pc' = "request connect"
  /\ dev' = a
  /\ ctx' = devices.count + 1
  /\ UNCHANGED <<status, got, aceVars>>

\* aceBt_bleConnect returns ACE_STATUS_OK.
RequestConnect ==
  /\ Goto("request connect", "await connected")
  /\ link[dev] = "down"
  /\ link' = [link EXCEPT ![dev] = "connecting"]
  /\ UNCHANGED <<devices, dev, ctx, status, got, hnd, events, cb>>

\* It returns an error. The context stays.
ConnectRefused ==
  /\ pc = "request connect"
  /\ link[dev] # "down" \/ "refuse" \in Faults
  /\ Return("REFUSED", NoHandle)
  /\ UNCHANGED <<devices, aceVars, cb>>

\* Broken: does not wait for the answer.
ConnectNotHeard ==
  /\ Goto("await connected", "copy handle")
  /\ UNCHANGED <<devices, dev, ctx, status, got, aceVars, cb>>

ConnectHeard ==
  /\ Goto("await connected", "copy handle")
  /\ Heard(This.connected)
  /\ UNCHANGED <<devices, dev, ctx, status, got, aceVars, cb>>

\* The context stays here, too.
ConnectTimeout ==
  /\ pc = "await connected"
  /\ TimedOut(This.connected)
  /\ Return("TIMEOUT", NoHandle)
  /\ UNCHANGED <<devices, aceVars, cb>>

CopyHandle ==
  /\ pc = "copy handle"
  /\ ~This.held
  /\ Return("OK", This.handle)
  /\ UNCHANGED <<devices, aceVars, cb>>
----------------------------------------------------------------------------
(* bleDisconnect *)

FindContext(a) ==
  /\ Goto("idle", "request disconnect")
  /\ got[a] # NoHandle
  /\ dca_find_by_handle(devices, got[a]) # 0
  /\ ctx' = dca_find_by_handle(devices, got[a])
  /\ dev' = a
  /\ UNCHANGED <<devices, status, got, aceVars, cb>>

\* ACE_STATUS_UNINITIALIZED for a handle that no context has.
NoContext(h) ==
  /\ pc = "idle"
  /\ "twice" \in Faults \/ \E a \in Addrs : got[a] = h
  /\ dca_find_by_handle(devices, h) = 0
  /\ status' = "UNINITIALIZED"
  /\ got' = [a \in Addrs |-> IF got[a] = h THEN NoHandle ELSE got[a]]
  /\ UNCHANGED <<devices, pc, dev, ctx, aceVars, cb>>

\* aceBT_bleDisconnect returns ACE_STATUS_OK.
RequestDisconnect ==
  /\ Goto("request disconnect", "await disconnected")
  /\ link[dev] = "up"
  /\ hnd[dev] = got[dev]
  /\ link' = [link EXCEPT ![dev] = "closing"]
  /\ UNCHANGED <<devices, dev, ctx, status, got, hnd, events, cb>>

DisconnectRefused ==
  /\ pc = "request disconnect"
  /\ link[dev] # "up" \/ hnd[dev] # got[dev] \/ "refuse" \in Faults
  /\ Return("REFUSED", NoHandle)
  /\ UNCHANGED <<devices, aceVars, cb>>

\* Broken: does not wait for the answer.
DisconnectNotHeard ==
  /\ Goto("await disconnected", "remove")
  /\ UNCHANGED <<devices, dev, ctx, status, got, aceVars, cb>>

DisconnectHeard ==
  /\ Goto("await disconnected", "remove")
  /\ Heard(This.disconnected)
  /\ UNCHANGED <<devices, dev, ctx, status, got, aceVars, cb>>

DisconnectTimeout ==
  /\ pc = "await disconnected"
  /\ TimedOut(This.disconnected)
  /\ Return("TIMEOUT", got[dev])
  /\ UNCHANGED <<devices, aceVars, cb>>

\* Broken: the context stays.
ForgetToRemove ==
  /\ pc = "remove"
  /\ Return("OK", NoHandle)
  /\ UNCHANGED <<devices, aceVars, cb>>

\* dca_remove, by the handle once more and without the context's mutex.
RemoveContext ==
  /\ pc = "remove"
  /\ devices' = dca_remove(devices, got[dev])
  /\ Return("OK", NoHandle)
  /\ UNCHANGED <<aceVars, cb>>
----------------------------------------------------------------------------
(* bleConnStateChangedCallback, on ace_bt's thread *)

\* dca_find_by_addr gives a pointer into the array. dangling: the block that
\* it points into has been freed since.
CbFind ==
  /\ cb = Resting
  /\ events # <<>>
  /\ events' = Tail(events)
  /\ LET e == Head(events)
         i == dca_find_by_addr(devices, e.addr)
     IN cb' = IF i = 0 \/ e.kind = "failed" THEN Resting
              ELSE [pc |-> "found", event |-> e, ctx |-> i, dangling |-> FALSE]
  /\ UNCHANGED <<devices, appVars, link, hnd>>

CbLock ==
  /\ cb.pc = "found"
  /\ cb' = [cb EXCEPT !.pc = "locked"]
  /\ IF cb.dangling THEN UNCHANGED devices
     ELSE /\ ~devices.items[cb.ctx].held
          /\ devices' = [devices EXCEPT !.items[cb.ctx].held = TRUE]
  /\ UNCHANGED <<appVars, aceVars>>

\* Broken: forgets about gattc_disconnected.
UpdatedConnectedOnly(c, e) ==
  IF e.kind = "connected"
  THEN [c EXCEPT !.connected = TRUE, !.handle = e.handle, !.held = FALSE]
  ELSE [c EXCEPT !.connected = FALSE, !.held = FALSE]

\* Broken: returns with the mutex locked.
UpdatedLocked(c, e) ==
  IF e.kind = "connected"
  THEN [c EXCEPT !.connected = TRUE, !.disconnected = FALSE, !.handle = e.handle]
  ELSE [c EXCEPT !.connected = FALSE, !.disconnected = TRUE]

\* What the callback makes of a context: flags, handle and the free mutex.
Updated(c, e) ==
  IF e.kind = "connected"
  THEN [c EXCEPT !.connected = TRUE, !.disconnected = FALSE, !.handle = e.handle, !.held = FALSE]
  ELSE [c EXCEPT !.connected = FALSE, !.disconnected = TRUE, !.held = FALSE]

\* The update, pthread_cond_signal and the unlock.
CbUpdate ==
  /\ cb.pc = "locked"
  /\ cb' = Resting
  /\ devices' = IF cb.dangling THEN devices
                ELSE [devices EXCEPT !.items[cb.ctx] = Updated(@, cb.event)]
  /\ UNCHANGED <<appVars, aceVars>>
----------------------------------------------------------------------------
(* ace_bt *)

Emit(kind, a, h) ==
  /\ Len(events) < MaxEvents
  /\ events' = Append(events, [kind |-> kind, addr |-> a, handle |-> h])

LinkUp(a) ==
  /\ link[a] = "connecting"
  /\ link' = [link EXCEPT ![a] = "up"]
  /\ \E h \in HandlesOf[a] :
       /\ \A b \in Addrs : hnd[b] # h
       /\ hnd' = [hnd EXCEPT ![a] = h]
       /\ Emit("connected", a, h)
  /\ UNCHANGED <<devices, appVars, cb>>

LinkFails(a) ==
  /\ "fail" \in Faults
  /\ link[a] = "connecting"
  /\ link' = [link EXCEPT ![a] = "down"]
  /\ Emit("failed", a, NoHandle)
  /\ UNCHANGED <<devices, appVars, hnd, cb>>

LinkDown(a) ==
  /\ link[a] = "closing" \/ (link[a] = "up" /\ "drop" \in Faults)
  /\ link' = [link EXCEPT ![a] = "down"]
  /\ hnd' = [hnd EXCEPT ![a] = NoHandle]
  /\ Emit("disconnected", a, hnd[a])
  /\ UNCHANGED <<devices, appVars, cb>>
----------------------------------------------------------------------------
\* A call that has begun goes on.
Continue ==
  \/ RequestConnect
  \/ ConnectRefused
  \/ ConnectHeard
  \/ ConnectTimeout
  \/ CopyHandle
  \/ RequestDisconnect
  \/ DisconnectRefused
  \/ DisconnectHeard
  \/ DisconnectTimeout
  \/ RemoveContext

Callback == CbFind \/ CbLock \/ CbUpdate

Ace(a) == LinkUp(a) \/ LinkFails(a) \/ LinkDown(a)

Next ==
  \/ \E a \in Addrs : AddContext(a) \/ FindContext(a) \/ Ace(a)
  \/ \E h \in Handles : NoContext(h)
  \/ Continue
  \/ Callback

Spec == Init /\ [][Next]_vars

(***************************************************************************)
(* The thread inside a call and the callback thread keep running, and each *)
(* gets a mutex that is free again and again (as in TimedWait). ace_bt     *)
(* brings a request to an end. Links need not fail or drop, and nobody has *)
(* to make a call.                                                         *)
(***************************************************************************)
Fairness ==
  /\ SF_vars(Continue)
  /\ SF_vars(CbLock)
  /\ WF_vars(CbFind)
  /\ WF_vars(CbUpdate)
  /\ \A a \in Addrs : WF_vars(LinkUp(a)) /\ WF_vars(link[a] = "closing" /\ LinkDown(a))

FairSpec == Spec /\ Fairness
----------------------------------------------------------------------------
(* Between its search and its unlock, bleConnStateChangedCallback works on *)
(* the context of the device that the event is about: the array has not    *)
(* been moved, shortened or shifted under it.                              *)
CallbackHitsContext ==
  cb # Resting =>
    /\ ~cb.dangling
    /\ cb.ctx \in Used(devices)
    /\ devices.items[cb.ctx].address = cb.event.addr

(* The mutex of a context in use is locked only while the callback thread  *)
(* is working on that context: a mutex that is copied with its context     *)
(* while it is held would never be released.                               *)
NoOrphanedLock ==
  \A i \in Used(devices) :
    devices.items[i].held => cb # Resting /\ cb.pc = "locked" /\ ~cb.dangling /\ cb.ctx = i

(* The answer to a request reaches the context on which the caller waits:  *)
(* when ace_bt has done what bleConnect or bleDisconnect asked it for and  *)
(* its events have been handled, the caller's flag is set.                 *)
AnswerReachesCaller ==
  /\ pc = "await connected" /\ link[dev] = "up" /\ Settled(dev) => This.connected
  /\ pc = "await disconnected" /\ link[dev] = "down" /\ Settled(dev) => This.disconnected

(* Between two calls the array holds one context for each device that the  *)
(* application has a handle for, with that handle in it, and no other.     *)
ContextPerConnection ==
  pc = "idle" =>
    /\ \A i, j \in Used(devices) :
         devices.items[i].address = devices.items[j].address => i = j
    /\ {<<devices.items[i].address, devices.items[i].handle>> : i \in Used(devices)}
         = {<<a, got[a]>> : a \in {b \in Addrs : got[b] # NoHandle}}

(* A handle that bleConnect gave out finds the context of the device it    *)
(* was given out for, as long as the application uses it.                  *)
HandleFindsItsDevice ==
  \A a \in Addrs :
    got[a] # NoHandle =>
      /\ dca_find_by_handle(devices, got[a]) # 0
      /\ devices.items[dca_find_by_handle(devices, got[a])].address = a

(* Every call of bleConnect and bleDisconnect returns.                     *)
CallsReturn == pc # "idle" ~> pc = "idle"

(* When ace_bt answers every request in time, every call of bleConnect     *)
(* and bleDisconnect succeeds.                                             *)
CallsSucceed == status \in {"none", "OK"}

(* To the application, the two calls are those of DeviceLinks.             *)
Abstract ==
  INSTANCE DeviceLinks WITH
    up <- hnd,
    call <- CASE pc = "idle" -> [op |-> "none"]
              [] pc \in {"request connect", "await connected", "copy handle"} ->
                   [op |-> "connect", addr |-> dev]
              [] OTHER -> [op |-> "disconnect", addr |-> dev]

ImplementsDeviceLinks == Abstract!Spec
============================================================================
