------------------------------ MODULE GattDb -------------------------------
(***************************************************************************)
(* bleDiscoverAllServices, bleGetDatabase and the callbacks that answer    *)
(* them, for one device and one connection to it after the other.          *)
(*                                                                         *)
(* The application's thread calls, ace_bt's thread delivers the answers.   *)
(* The context of the connection carries two flags, a mutex and the        *)
(* pointers to which the database is written out. The waits are those of   *)
(* TimedFlag, the context's life is that of Connection.                    *)
(***************************************************************************)
EXTENDS Naturals, Sequences, FiniteSets

CONSTANTS
  Handles,    \* handles of connections to the device
  Vars,       \* variables of the application that take a database
  Null,       \* the pointer to no variable
  Faults,     \* what may go wrong, a subset of AllFaults
  Repeat,     \* may the application make a call twice in a connection?
  Keeps,      \* does it keep a variable until it gives another or disconnects?
  MaxEvents   \* bound: requests and answers on their way

\* "refuse": a request returns an error; "fail": discovery fails, a database
\* is never sent; "lost": a request for discovery goes astray and reports
\* success; "clone": aceBT_bleCloneGattService fails; "late": an answer takes
\* more than ten seconds; "stray": an answer comes after the connection has
\* been closed; "callback": the application makes a waiting call from one of
\* its callbacks.
AllFaults == {"refuse", "fail", "lost", "clone", "late", "stray", "callback"}

ASSUME GattDbAssumption ==
  /\ Null \notin Vars \cup Handles
  /\ Faults \subseteq AllFaults
  /\ Repeat \in BOOLEAN
  /\ Keeps \in BOOLEAN
  /\ MaxEvents \in Nat \ {0}

VARIABLES
  ctx,      \* the device_context_t of the connection
  pc,       \* where the application's thread stands
  var,      \* the variable of its last bleGetDatabase
  status,   \* what the last call returned
  made,     \* the calls that it has made in this connection
  alive,    \* the variables that are in scope
  filled,   \* has a database been written to var since it was given?
  asked,    \* the requests that ace_bt works on
  events,   \* the answers that it has not delivered yet
  known,    \* has it discovered the services of this connection? A history
            \* variable, for DiscoveryFinished
  cb        \* the callback thread

appVars == <<pc, var, status, made, alive>>
vars == <<ctx, appVars, filled, asked, events, known, cb>>

Calls == {"discover", "database"}

Request == [call : Calls, handle : Handles]

Context ==
  [handle : Handles \cup {Null}, held : BOOLEAN, discovered : BOOLEAN, retrieved : BOOLEAN,
   out : Vars \cup {Null}]

Resting == [pc |-> "idle"]
Calling == [pc |-> "application"]

TypeOK ==
  /\ ctx \in Context
  /\ pc \in {"idle", "connecting", "request discovery", "await discovered",
             "store pointers", "request database", "await retrieved"}
  /\ pc # "connecting" => ctx.handle \in Handles
  /\ var \in Vars
  /\ status \in {"none", "OK", "ERROR"}
  /\ made \in SUBSET Calls
  /\ alive \in SUBSET Vars
  /\ filled \in BOOLEAN
  /\ asked \in SUBSET Request
  /\ events \in Seq([call : Calls, handle : Handles, ok : BOOLEAN])
  /\ known \in BOOLEAN
  /\ cb \in {Resting, Calling} \cup [pc : {"found", "locked"}, call : Calls]

\* The context that bleConnect adds for a connection with the handle h.
Fresh(h) ==
  [handle |-> h, held |-> FALSE, discovered |-> FALSE, retrieved |-> FALSE, out |-> Null]

Init ==
  /\ \E h \in Handles : ctx = Fresh(h)
  /\ pc = "idle"
  /\ var \in Vars
  /\ status = "none"
  /\ made = {}
  /\ alive = {}
  /\ filled = FALSE
  /\ asked = {}
  /\ events = <<>>
  /\ known = FALSE
  /\ cb = Resting

Goto(from, to) == pc = from /\ pc' = to

Return(s) ==
  /\ pc' = "idle"
  /\ status' = s
  /\ UNCHANGED <<var, made, alive>>

\* The call has been answered or never will be.
Settled(call) ==
  /\ [call |-> call, handle |-> ctx.handle] \notin asked
  /\ events = <<>>
  /\ cb = Resting

\* waitForCondition: it returns with the mutex in its hands, then releases it.
Heard(f) == f /\ ~ctx.held

\* Broken: pthread_cond_wait, with no deadline.
NeverTimedOut(f, call) == FALSE

\* No answer comes to a call that is made on the thread that brings them.
TimedOut(f, call) ==
  /\ ~ctx.held
  /\ "late" \in Faults \/ (~f /\ (Settled(call) \/ cb = Calling))

Ask(call) ==
  /\ Cardinality(asked) + Len(events) < MaxEvents
  /\ asked' = asked \cup {[call |-> call, handle |-> ctx.handle]}

May(call) == Repeat \/ call \notin made
----------------------------------------------------------------------------
(* bleDiscoverAllServices and bleGetDatabase *)

\* No context has the handle: ACE_STATUS_UNINITIALIZED.
NoContext(h) ==
  /\ pc = "idle"
  /\ h # ctx.handle
  /\ Return("ERROR")
  /\ UNCHANGED <<ctx, filled, asked, events, known, cb>>

Discover ==
  /\ Goto("idle", "request discovery")
  /\ May("discover")
  /\ made' = made \cup {"discover"}
  /\ UNCHANGED <<ctx, var, status, alive, filled, asked, events, known, cb>>

RequestDiscovery ==
  /\ Goto("request discovery", "await discovered")
  /\ Ask("discover")
  /\ UNCHANGED <<ctx, var, status, made, alive, filled, events, known, cb>>

\* The status of the AIPC call is dropped, and out_status says OK.
DiscoveryLost ==
  /\ "lost" \in Faults
  /\ Goto("request discovery", "await discovered")
  /\ UNCHANGED <<ctx, var, status, made, alive, filled, asked, events, known, cb>>

\* Broken: the application's pointer is not taken.
GetDatabaseNull(v) ==
  /\ Goto("idle", "store pointers")
  /\ May("database")
  /\ made' = made \cup {"database"}
  /\ var' = Null
  /\ UNCHANGED <<ctx, status, alive, filled, asked, events, known, cb>>

\* The application gives a variable that is in scope from now on. ctx is
\* found by the handle.
GetDatabase(v) ==
  /\ Goto("idle", "store pointers")
  /\ May("database")
  /\ made' = made \cup {"database"}
  /\ var' = v
  /\ alive' = alive \cup {v}
  /\ filled' = FALSE
  /\ UNCHANGED <<ctx, status, asked, events, known, cb>>

StorePointers ==
  /\ Goto("store pointers", "request database")
  /\ ~ctx.held
  /\ ctx' = [ctx EXCEPT !.out = var]
  /\ UNCHANGED <<var, status, made, alive, filled, asked, events, known, cb>>

\* gattdb_retrieved keeps the value that an earlier answer gave it.
RequestDatabase ==
  /\ Goto("request database", "await retrieved")
  /\ Ask("database")
  /\ UNCHANGED <<ctx, var, status, made, alive, filled, events, known, cb>>

Refused ==
  /\ "refuse" \in Faults
  /\ pc \in {"request discovery", "request database"}
  /\ Return("ERROR")
  /\ UNCHANGED <<ctx, filled, asked, events, known, cb>>

Discovered ==
  /\ pc = "await discovered"
  /\ Heard(ctx.discovered)
  /\ Return("OK")
  /\ UNCHANGED <<ctx, filled, asked, events, known, cb>>

Retrieved ==
  /\ pc = "await retrieved"
  /\ Heard(ctx.retrieved)
  /\ Return("OK")
  /\ UNCHANGED <<ctx, filled, asked, events, known, cb>>

Timeout ==
  /\ \/ pc = "await discovered" /\ TimedOut(ctx.discovered, "discover")
     \/ pc = "await retrieved" /\ TimedOut(ctx.retrieved, "database")
  /\ Return("ERROR")
  /\ UNCHANGED <<ctx, filled, asked, events, known, cb>>
----------------------------------------------------------------------------
(* The application between two calls *)

\* A local variable goes out of scope.
Retire(v) ==
  /\ pc = "idle"
  /\ v \in alive
  /\ Keeps => v # var \/ "database" \notin made
  /\ alive' = alive \ {v}
  /\ UNCHANGED <<ctx, pc, var, status, made, filled, asked, events, known, cb>>

\* bleDisconnect and bleConnect, both with success. The slot of the array is
\* cleared for a new context, which has no handle yet: Null, which no event has.
\* bleDisconnect returns when the callback thread has come to the event of the
\* disconnection. The answers to the connection's calls came before it, but
\* for stray ones.
Reconnect ==
  /\ Goto("idle", "connecting")
  /\ IF "stray" \in Faults THEN cb # Calling /\ UNCHANGED asked
     ELSE events = <<>> /\ cb = Resting /\ asked' = {}
  /\ ctx' = Fresh(Null)
  /\ made' = {}
  /\ UNCHANGED <<var, status, alive, filled, events, known, cb>>

\* The callback thread has handled the event of the new connection, and
\* whatever it had in hands before.
Connected ==
  /\ Goto("connecting", "idle")
  /\ cb = Resting
  /\ \E h \in Handles : ctx' = [ctx EXCEPT !.handle = h]
  /\ known' = FALSE
  /\ UNCHANGED <<var, status, made, alive, filled, asked, events, cb>>
----------------------------------------------------------------------------
(* bleGattcServiceDiscoveredCallback and bleGattcGetDbCallback *)

\* Broken: whatever the status is.
FindAnyStatus(e) == e.handle = ctx.handle /\ (e.call = "database" => ctx.out # Null)

\* Broken: whether there are pointers or not.
FindAnyPointers(e) == e.handle = ctx.handle /\ (e.call = "discover" => e.ok)

\* dca_find_by_handle, and the look at the status or at the pointers, both
\* without the mutex.
Found(e) ==
  /\ e.handle = ctx.handle
  /\ e.call = "discover" => e.ok
  /\ e.call = "database" => ctx.out # Null

CbFind ==
  /\ cb = Resting
  /\ events # <<>>
  /\ events' = Tail(events)
  /\ LET e == Head(events)
     IN cb' = IF Found(e) THEN [pc |-> "found", call |-> e.call] ELSE Resting
  /\ UNCHANGED <<ctx, appVars, filled, asked, known>>

CbLock ==
  /\ cb.pc = "found"
  /\ ~ctx.held
  /\ ctx' = [ctx EXCEPT !.held = TRUE]
  /\ cb' = [cb EXCEPT !.pc = "locked"]
  /\ UNCHANGED <<appVars, filled, asked, events, known>>

\* setCallbackVariable on gattc_discovered.
CbDiscovered ==
  /\ cb.pc = "locked"
  /\ cb.call = "discover"
  /\ ctx' = [ctx EXCEPT !.discovered = TRUE, !.held = FALSE]
  /\ cb' = Resting
  /\ UNCHANGED <<appVars, filled, asked, events, known>>

\* Broken: returns with the mutex locked.
CbRetrievedLocked ==
  /\ cb.pc = "locked"
  /\ cb.call = "database"
  /\ filled' = (filled \/ ctx.out = var)
  /\ ctx' = [ctx EXCEPT !.retrieved = TRUE]
  /\ cb' = Resting
  /\ UNCHANGED <<appVars, asked, events, known>>

\* Broken: the flag is set and the database is not written.
CbRetrievedOnly ==
  /\ cb.pc = "locked"
  /\ cb.call = "database"
  /\ ctx' = [ctx EXCEPT !.retrieved = TRUE, !.held = FALSE]
  /\ cb' = Resting
  /\ UNCHANGED <<appVars, filled, asked, events, known>>

\* The clone, the count, the flag, the signal and the unlock.
CbRetrieved ==
  /\ cb.pc = "locked"
  /\ cb.call = "database"
  /\ filled' = (filled \/ ctx.out = var)
  /\ ctx' = [ctx EXCEPT !.retrieved = TRUE, !.held = FALSE]
  /\ cb' = Resting
  /\ UNCHANGED <<appVars, asked, events, known>>

\* The clone fails: the callback returns, and the mutex stays locked.
CbCloneFails ==
  /\ "clone" \in Faults
  /\ cb.pc = "locked"
  /\ cb.call = "database"
  /\ cb' = Resting
  /\ UNCHANGED <<ctx, appVars, filled, asked, events, known>>
----------------------------------------------------------------------------
(* The application's callbacks, which the wrappers call when the library's *)
(* have returned. While one makes calls, the application's thread makes    *)
(* none, and the callback thread delivers nothing.                         *)

CallBack ==
  /\ "callback" \in Faults
  /\ pc = "idle"
  /\ cb = Resting
  /\ cb' = Calling
  /\ UNCHANGED <<ctx, appVars, filled, asked, events, known>>

CallBackReturns ==
  /\ cb = Calling
  /\ pc = "idle"
  /\ cb' = Resting
  /\ UNCHANGED <<ctx, appVars, filled, asked, events, known>>
----------------------------------------------------------------------------
(* ace_bt *)

Answer(r) ==
  /\ r \in asked
  /\ asked' = asked \ {r}
  /\ \E ok \in IF r.call = "discover" /\ "fail" \in Faults THEN BOOLEAN ELSE {TRUE} :
       /\ events' = Append(events, [call |-> r.call, handle |-> r.handle, ok |-> ok])
       /\ known' = (known \/ (ok /\ r.call = "discover" /\ r.handle = ctx.handle))
  /\ UNCHANGED <<ctx, appVars, filled, cb>>

NoAnswer(r) ==
  /\ "fail" \in Faults
  /\ r \in asked
  /\ r.call = "database"
  /\ asked' = asked \ {r}
  /\ UNCHANGED <<ctx, appVars, filled, events, known, cb>>
----------------------------------------------------------------------------
Continue ==
  \/ RequestDiscovery
  \/ DiscoveryLost
  \/ StorePointers
  \/ RequestDatabase
  \/ Refused
  \/ Discovered
  \/ Retrieved
  \/ Timeout
  \/ Connected

Callback == CbFind \/ CbLock \/ CbDiscovered \/ CbRetrieved \/ CbCloneFails \/ CallBackReturns

Next ==
  \/ \E h \in Handles : NoContext(h)
  \/ \E v \in Vars : GetDatabase(v) \/ Retire(v)
  \/ Discover
  \/ Reconnect
  \/ Continue
  \/ Callback
  \/ CallBack
  \/ \E r \in Request : Answer(r) \/ NoAnswer(r)

Spec == Init /\ [][Next]_vars

\* As in Connection: calls and callbacks go on, requests come to an end.
Fairness ==
  /\ SF_vars(Continue)
  /\ SF_vars(CbLock)
  /\ WF_vars(Callback)
  /\ \A r \in Request : WF_vars(Answer(r) \/ NoAnswer(r))

FairSpec == Spec /\ Fairness
----------------------------------------------------------------------------
(* bleGetDatabase returns ACE_STATUS_OK only when the variable that it was *)
(* given holds a database that came after the call began.                  *)
DatabaseDelivered ==
  [][pc = "await retrieved" /\ pc' = "idle" /\ status' = "OK" => filled]_vars

(* bleDiscoverAllServices returns ACE_STATUS_OK only when ace_bt has       *)
(* discovered the services of this very connection: not for a request that *)
(* went astray, a discovery that failed, or one of an earlier connection.  *)
DiscoveryFinished ==
  [][pc = "await discovered" /\ pc' = "idle" /\ status' = "OK" => known]_vars

\* The callback thread is between its search and its return for the call.
InHands(call) == cb \notin {Resting, Calling} /\ cb.call = call

(* bleGattcGetDbCallback writes to a variable that is in scope, although   *)
(* it looks at the pointers before it takes the mutex, although answers    *)
(* come when the call has long returned, and other calls have been made.   *)
(* Only a stray answer is written through NULL: in the middle of its       *)
(* handling bleConnect clears the context.                                 *)
WritesInScope ==
  InHands("database") =>
    \/ ctx.out \in alive
    \/ "stray" \in Faults /\ pc = "connecting" /\ ctx.out = Null

(* The context's mutex is locked only while a callback works on it.        *)
NoOrphanedLock == ctx.held => cb # Resting /\ cb.pc = "locked"

(* Every call returns.                                                     *)
CallsReturn == pc # "idle" ~> pc = "idle"
============================================================================
