---------------------------- MODULE Registration ----------------------------
(***************************************************************************)
(* Sessions, registration as a BLE client and as a GATT client, and the    *)
(* way of an event of btmanagerd to the application's callback.            *)
(*                                                                         *)
(* The GATT client is that of firmware before 5.17, where KindleBT itself  *)
(* registers with ace_bt and btmanagerd. As in Connection one application  *)
(* thread calls, and ace_bt's thread delivers one event after the other.   *)
(* ace_bt keeps three things for a session: the pointer to the client's    *)
(* callbacks, the handler for its events, and whether it is a BLE client.  *)
(* btmanagerd keeps the GATT clients that it sends events to.              *)
(*                                                                         *)
(* The application is a careful one: it has one session at a time, does    *)
(* not register as a GATT client twice and deregisters before it closes.   *)
(***************************************************************************)
EXTENDS Naturals, Sequences

CONSTANTS
  Sessions,     \* the session handles
  Kinds,        \* the kinds of GATT events
  Wrapped,      \* those for which gatt_client_callbacks has a wrapper
  AppCallbacks, \* the callback structs of the application: the kinds of each
  Faults,       \* what may go wrong, a subset of AllFaults
  MaxEvents     \* bound: events on their way

\* "refuse": a request returns an error; "fail": ace_bt reports that a
\* registration failed; "tables": registerBTClientData or registerBTEvtHandler
\* fails; "late": an answer takes more than ten seconds; "shrink": the
\* application brings a struct that lacks a callback of the one before it.
AllFaults == {"refuse", "fail", "tables", "late", "shrink"}

ASSUME RegistrationAssumption ==
  /\ "ble" \notin Kinds
  /\ Wrapped \in (SUBSET Kinds) \ {{}}
  /\ AppCallbacks \subseteq SUBSET Kinds
  /\ Faults \subseteq AllFaults
  /\ MaxEvents \in Nat \ {0}

VARIABLES
  registered,  \* callback_vars.ble_registered
  appCbs,      \* application_gatt_client_callbacks: the kinds that it has
  pc,          \* where the application's thread stands
  session,     \* the session of its current or last call
  roles,       \* roles[s]: what the calls have told it that s is
  open,        \* the open sessions
  ble,         \* ble[s]: what ace_bt knows of s as a BLE client
  clientData,  \* the sessions with client data
  handler,     \* the sessions with an event handler
  server,      \* server[s]: the kinds that btmanagerd sends to s
  events,      \* the events that ace_bt has not delivered yet
  cb           \* the callback thread

libVars == <<registered, appCbs>>
callVars == <<pc, session, roles>>
tables == <<clientData, handler>>
vars == <<libVars, callVars, open, ble, tables, server, events, cb>>

Event == [kind : {"ble"}, session : Sessions, ok : BOOLEAN] \cup [kind : Kinds, session : Sessions]

Resting == [pc |-> "idle"]

AppPCs == {"idle", "request register", "await registered", "request deregister", "clear flag",
           "store data", "store handler", "tell server", "clear data", "clear handler",
           "untell server"}

TypeOK ==
  /\ registered \in BOOLEAN
  /\ appCbs \in SUBSET Kinds
  /\ pc \in AppPCs
  /\ session \in Sessions
  /\ roles \in [Sessions -> SUBSET {"ble", "gatt"}]
  /\ open \in SUBSET Sessions
  /\ ble \in [Sessions -> {"none", "pending", "registered"}]
  /\ clientData \in SUBSET Sessions
  /\ handler \in SUBSET Sessions
  /\ server \in [Sessions -> SUBSET Kinds]
  /\ events \in Seq(Event)
  /\ cb = Resting \/ cb \in [pc : {"call"}, kind : Kinds] \/ cb = [pc |-> "crashed"]

Init ==
  /\ registered = FALSE
  /\ appCbs = {}
  /\ pc = "idle"
  /\ session \in Sessions
  /\ roles = [s \in Sessions |-> {}]
  /\ open = {}
  /\ ble = [s \in Sessions |-> "none"]
  /\ clientData = {}
  /\ handler = {}
  /\ server = [s \in Sessions |-> {}]
  /\ events = <<>>
  /\ cb = Resting

Goto(from, to) == pc = from /\ pc' = to

\* The call in progress returns; from now on the session has the roles R.
Return(R) ==
  /\ pc' = "idle"
  /\ roles' = [roles EXCEPT ![session] = R]
  /\ UNCHANGED session

Mine == roles[session]

Begin(s, to) ==
  /\ Goto("idle", to)
  /\ s \in open
  /\ session' = s
  /\ UNCHANGED roles

Refused == "refuse" \in Faults
----------------------------------------------------------------------------
(* openSession, closeSession *)

OpenSession(s) ==
  /\ pc = "idle"
  /\ open = {}
  /\ open' = {s}
  /\ UNCHANGED <<libVars, callVars, ble, tables, server, events, cb>>

\* ace_bt forgets the session and its events. No other is open or has any.
CloseSession(s) ==
  /\ pc = "idle"
  /\ s \in open
  /\ roles[s] = {}
  /\ open' = open \ {s}
  /\ ble' = [ble EXCEPT ![s] = "none"]
  /\ clientData' = clientData \ {s}
  /\ handler' = handler \ {s}
  /\ events' = <<>>
  /\ UNCHANGED <<libVars, callVars, server, cb>>
----------------------------------------------------------------------------
(* bleRegister, bleDeregister *)

\* ble_registered is set: ACE_STATUS_OK, whatever the session.
AlreadyRegistered(s) ==
  /\ pc = "idle"
  /\ s \in open
  /\ registered
  /\ session' = s
  /\ roles' = [roles EXCEPT ![s] = @ \cup {"ble"}]
  /\ UNCHANGED <<libVars, pc, open, ble, tables, server, events, cb>>

BleRegister(s) ==
  /\ Begin(s, "request register")
  /\ ~registered
  /\ UNCHANGED <<libVars, open, ble, tables, server, events, cb>>

RegisterAccepted ==
  /\ Goto("request register", "await registered")
  /\ ble[session] = "none"
  /\ ble' = [ble EXCEPT ![session] = "pending"]
  /\ UNCHANGED <<libVars, session, roles, open, tables, server, events, cb>>

RegisterRefused ==
  /\ pc = "request register"
  /\ ble[session] # "none" \/ Refused
  /\ Return(Mine)
  /\ UNCHANGED <<libVars, open, ble, tables, server, events, cb>>

RegisterHeard ==
  /\ pc = "await registered"
  /\ registered
  /\ Return(Mine \cup {"ble"})
  /\ UNCHANGED <<libVars, open, ble, tables, server, events, cb>>

\* The answer has come and been handled.
Settled ==
  /\ ble[session] # "pending"
  /\ \A i \in 1 .. Len(events) : events[i].kind # "ble"

\* Broken: pthread_cond_wait, with no deadline.
NeverTimedOut == FALSE

\* The ten seconds of waitForCondition are over.
TimedOut == "late" \in Faults \/ (~registered /\ Settled)

RegisterTimeout ==
  /\ pc = "await registered"
  /\ TimedOut
  /\ Return(Mine)
  /\ UNCHANGED <<libVars, open, ble, tables, server, events, cb>>

BleDeregister(s) ==
  /\ Begin(s, "request deregister")
  /\ UNCHANGED <<libVars, open, ble, tables, server, events, cb>>

DeregisterAccepted ==
  /\ Goto("request deregister", "clear flag")
  /\ ble[session] # "none"
  /\ ble' = [ble EXCEPT ![session] = "none"]
  /\ UNCHANGED <<libVars, session, roles, open, tables, server, events, cb>>

DeregisterRefused ==
  /\ pc = "request deregister"
  /\ ble[session] = "none" \/ Refused
  /\ Return(Mine)
  /\ UNCHANGED <<libVars, open, ble, tables, server, events, cb>>

\* Broken: returns what aceBT_bleDeRegister returned, and leaves the flag.
LeaveFlag ==
  /\ pc = "clear flag"
  /\ Return(Mine \ {"ble"})
  /\ UNCHANGED <<libVars, open, ble, tables, server, events, cb>>

ClearFlag ==
  /\ pc = "clear flag"
  /\ registered' = FALSE
  /\ Return(Mine \ {"ble"})
  /\ UNCHANGED <<appCbs, open, ble, tables, server, events, cb>>
----------------------------------------------------------------------------
(* bleRegisterGattClient, bleDeregisterGattClient *)

\* Broken: also asks for the event that ace_bt does not implement.
MaskAll == Wrapped \cup {"registered"}

\* The kinds of events that the client asks btmanagerd for.
Mask == Wrapped

\* The application has a struct of the callbacks C to bring.
Brings(C) == C \in AppCallbacks /\ ("shrink" \in Faults \/ appCbs \subseteq C)

\* Broken: no struct takes the callbacks away.
DropCallbacks == appCbs' = {} \/ Brings(appCbs')

\* A struct replaces the application's callbacks, no struct leaves them. This
\* comes first, whatever becomes of the registration.
TakeCallbacks == appCbs' = appCbs \/ Brings(appCbs')

\* The application sets its callbacks itself, without a call.
SetCallbacks ==
  /\ pc = "idle"
  /\ Brings(appCbs')
  /\ UNCHANGED <<registered, callVars, open, ble, tables, server, events, cb>>

\* getSessionInfo finds the session.
RegisterGattClient(s) ==
  /\ Begin(s, "store data")
  /\ "gatt" \notin roles[s]
  /\ TakeCallbacks
  /\ UNCHANGED <<registered, open, ble, tables, server, events, cb>>

\* It does not: ACE_STATUS_BAD_PARAM.
RegisterUnknownSession(s) ==
  /\ pc = "idle"
  /\ "gatt" \notin roles[s]
  /\ s \notin open \/ Refused
  /\ TakeCallbacks
  /\ UNCHANGED <<registered, callVars, open, ble, tables, server, events, cb>>

\* Broken: forgets about the handler.
StoreDataOnly ==
  /\ Goto("store data", "tell server")
  /\ clientData' = clientData \cup {session}
  /\ UNCHANGED <<libVars, session, roles, open, ble, handler, server, events, cb>>

StoreData ==
  /\ Goto("store data", "store handler")
  /\ clientData' = clientData \cup {session}
  /\ UNCHANGED <<libVars, session, roles, open, ble, handler, server, events, cb>>

StoreHandler ==
  /\ Goto("store handler", "tell server")
  /\ handler' = handler \cup {session}
  /\ UNCHANGED <<libVars, session, roles, open, ble, clientData, server, events, cb>>

\* Either fails. What has been stored stays.
StoreFails ==
  /\ pc \in {"store data", "store handler"}
  /\ "tables" \in Faults
  /\ Return(Mine)
  /\ UNCHANGED <<libVars, open, ble, tables, server, events, cb>>

TellServer ==
  /\ pc = "tell server"
  /\ server' = [server EXCEPT ![session] = Mask]
  /\ Return(Mine \cup {"gatt"})
  /\ UNCHANGED <<libVars, open, ble, tables, events, cb>>

\* The AIPC call fails: both entries are taken back, then the status returned.
TellServerFails ==
  /\ Goto("tell server", "clear data")
  /\ Refused
  /\ UNCHANGED <<libVars, session, roles, open, ble, tables, server, events, cb>>

ClearData ==
  /\ Goto("clear data", "clear handler")
  /\ clientData' = clientData \ {session}
  /\ UNCHANGED <<libVars, session, roles, open, ble, handler, server, events, cb>>

ClearHandler ==
  /\ pc = "clear handler"
  /\ handler' = handler \ {session}
  /\ Return(Mine)
  /\ UNCHANGED <<libVars, open, ble, clientData, server, events, cb>>

DeregisterGattClient(s) ==
  /\ Begin(s, "untell server")
  /\ UNCHANGED <<libVars, open, ble, tables, server, events, cb>>

\* Client data and handler stay.
UntellServer ==
  /\ pc = "untell server"
  /\ server' = [server EXCEPT ![session] = {}]
  /\ Return(Mine \ {"gatt"})
  /\ UNCHANGED <<libVars, open, ble, tables, events, cb>>

UntellServerFails ==
  /\ pc = "untell server"
  /\ Refused
  /\ Return(Mine)
  /\ UNCHANGED <<libVars, open, ble, tables, server, events, cb>>
----------------------------------------------------------------------------
(* The callback thread *)

\* bleRegCallback sets the flag when the report is a good one.
Reported(e) == registered \/ e.ok

CbRegistered ==
  /\ cb = Resting
  /\ events # <<>>
  /\ Head(events).kind = "ble"
  /\ registered' = Reported(Head(events))
  /\ events' = Tail(events)
  /\ UNCHANGED <<appCbs, callVars, open, ble, tables, server, cb>>

\* The test for NULL in a wrapper.
AppHas(k) == k \in appCbs

\* pre5170_gattc_cb_handler, the wrapper, and its test.
CbDispatch ==
  /\ cb = Resting
  /\ events # <<>>
  /\ events' = Tail(events)
  /\ LET e == Head(events)
     IN /\ e.kind # "ble"
        /\ cb' = IF /\ e.session \in open \cap handler \cap clientData
                    /\ e.kind \in Wrapped
                    /\ AppHas(e.kind)
                 THEN [pc |-> "call", kind |-> e.kind]
                 ELSE Resting
  /\ UNCHANGED <<libVars, callVars, open, ble, tables, server>>

\* The wrapper reads the pointer once more and calls it.
CbCall ==
  /\ cb.pc = "call"
  /\ cb' = IF cb.kind \in appCbs THEN Resting ELSE [pc |-> "crashed"]
  /\ UNCHANGED <<libVars, callVars, open, ble, tables, server, events>>
----------------------------------------------------------------------------
(* ace_bt and btmanagerd *)

\* ace_bt has registered the BLE client, or has not.
Report(s, ok) ==
  /\ ok \/ "fail" \in Faults
  /\ ble[s] = "pending"
  /\ Len(events) < MaxEvents
  /\ ble' = [ble EXCEPT ![s] = IF ok THEN "registered" ELSE "none"]
  /\ events' = Append(events, [kind |-> "ble", session |-> s, ok |-> ok])
  /\ UNCHANGED <<libVars, callVars, open, tables, server, cb>>

Send(s, k) ==
  /\ k \in server[s]
  /\ Len(events) < MaxEvents
  /\ events' = Append(events, [kind |-> k, session |-> s])
  /\ UNCHANGED <<libVars, callVars, open, ble, tables, server, cb>>
----------------------------------------------------------------------------
\* A call that has begun goes on.
Continue ==
  \/ RegisterAccepted \/ RegisterRefused \/ RegisterHeard \/ RegisterTimeout
  \/ DeregisterAccepted \/ DeregisterRefused \/ ClearFlag
  \/ StoreData \/ StoreHandler \/ StoreFails
  \/ TellServer \/ TellServerFails \/ ClearData \/ ClearHandler
  \/ UntellServer \/ UntellServerFails

Callback == CbRegistered \/ CbDispatch \/ CbCall

Ask(s) ==
  \/ OpenSession(s) \/ CloseSession(s)
  \/ AlreadyRegistered(s) \/ BleRegister(s) \/ BleDeregister(s)
  \/ RegisterGattClient(s) \/ RegisterUnknownSession(s) \/ DeregisterGattClient(s)
  \/ SetCallbacks

Next ==
  \/ \E s \in Sessions : Ask(s) \/ \E ok \in BOOLEAN : Report(s, ok)
  \/ \E s \in Sessions, k \in Kinds : Send(s, k)
  \/ Continue
  \/ Callback

Spec == Init /\ [][Next]_vars

(***************************************************************************)
(* The thread inside a call and the callback thread keep running, and      *)
(* ace_bt reports on a registration one way or the other.                  *)
(***************************************************************************)
Fairness ==
  /\ WF_vars(Continue)
  /\ WF_vars(Callback)
  /\ \A s \in Sessions : SF_vars(\E ok \in BOOLEAN : Report(s, ok))

FairSpec == Spec /\ Fairness
----------------------------------------------------------------------------
(* A session that the application takes for registered, because a call     *)
(* said so, is registered: "already registered" is said of the right one.  *)
NoFalseRegistration ==
  pc = "idle" =>
    \A s \in Sessions :
      /\ "ble" \in roles[s] => ble[s] = "registered"
      /\ "gatt" \in roles[s] => server[s] # {}

(* Between two calls the application, going by what the calls returned,    *)
(* knows what its session is: a BLE client of ace_bt, and a GATT client of *)
(* btmanagerd. Calls that fail have changed neither.                       *)
RolesAgree ==
  pc = "idle" =>
    \A s \in Sessions :
      /\ "ble" \in roles[s] <=> ble[s] = "registered"
      /\ "gatt" \in roles[s] <=> server[s] # {}

(* While btmanagerd sends events to a client, ace_bt has the handler and   *)
(* the callbacks that they need: a registration stores them before it asks *)
(* for events, and only takes them back when there will be none.           *)
ServerIsHeard ==
  \A s \in Sessions : server[s] # {} => s \in open \cap handler \cap clientData

(* No wrapper calls an application callback that is not there, although it *)
(* reads the pointer twice, and in between bleRegisterGattClient or the    *)
(* application may replace the struct by one that has more callbacks.      *)
NoNullCall == cb.pc # "crashed"

(* Every call returns.                                                     *)
CallsReturn == pc # "idle" ~> pc = "idle"
============================================================================
