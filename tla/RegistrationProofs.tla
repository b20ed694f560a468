------------------------- MODULE RegistrationProofs -------------------------
(***************************************************************************)
(* Theorems about Registration, for any sessions, kinds and faults.        *)
(***************************************************************************)
EXTENDS Registration, SequenceTheorems, TLAPS

\* The registration of a GATT client that is under way: what its session has
\* at each step. None of these sessions is a client yet, so that taking the
\* entries back cannot silence one.
Underway ==
  /\ pc # "idle" => session \in open
  /\ pc \in {"store data", "store handler", "tell server", "clear data", "clear handler"} =>
       server[session] = {}
  /\ pc \in {"store handler", "tell server"} => session \in clientData
  /\ pc = "tell server" => session \in handler

\* btmanagerd has the clients that the calls have reported.
Known == \A s \in Sessions : server[s] = IF "gatt" \in roles[s] THEN Mask ELSE {}

IInv == TypeOK /\ ServerIsHeard /\ Underway /\ Known

(* The initial state satisfies the inductive invariant. *)
LEMMA InitIInv == Init => IInv
<1> SUFFICES ASSUME Init PROVE IInv
  OBVIOUS
<1>1. events \in Seq(Event)
  BY DEF Init
<1>2. TypeOK
  BY <1>1 DEF Init, TypeOK, AppPCs
<1>3. ServerIsHeard /\ Known
  BY DEF Init, ServerIsHeard, Known
<1>4. Underway
  BY DEF Init, Underway
<1> QED
  BY <1>2, <1>3, <1>4 DEF IInv

(* A call of the application that begins, or ends at once, keeps it. *)
LEMMA AskIInv ==
  ASSUME NEW s \in Sessions, IInv, Ask(s)
  PROVE  IInv'
<1> USE DEF IInv, Underway, Known, ServerIsHeard
<1>1. CASE OpenSession(s)
  BY <1>1 DEF OpenSession, TypeOK, libVars, callVars, tables
<1>2. CASE CloseSession(s)
  BY <1>2 DEF CloseSession, TypeOK, libVars, callVars, tables
<1>3. CASE AlreadyRegistered(s)
  BY <1>3 DEF AlreadyRegistered, TypeOK, libVars, tables
<1>4. CASE BleRegister(s)
  BY <1>4 DEF BleRegister, Begin, Goto, TypeOK, AppPCs, libVars, tables
<1>5. CASE BleDeregister(s)
  BY <1>5 DEF BleDeregister, Begin, Goto, TypeOK, AppPCs, libVars, tables
<1>6. CASE RegisterGattClient(s)
  BY <1>6, RegistrationAssumption
     DEF RegisterGattClient, TakeCallbacks, Brings, Begin, Goto, TypeOK, AppPCs, tables
<1>7. CASE RegisterUnknownSession(s)
  BY <1>7, RegistrationAssumption
     DEF RegisterUnknownSession, TakeCallbacks, Brings, TypeOK, callVars, tables
<1>8. CASE DeregisterGattClient(s)
  BY <1>8 DEF DeregisterGattClient, Begin, Goto, TypeOK, AppPCs, libVars, tables
<1>9. CASE SetCallbacks
  BY <1>9, RegistrationAssumption DEF SetCallbacks, Brings, TypeOK, callVars, tables
<1> QED
  BY <1>1, <1>2, <1>3, <1>4, <1>5, <1>6, <1>7, <1>8, <1>9 DEF Ask

(* The steps of bleRegister and bleDeregister keep it. *)
LEMMA BleIInv ==
  ASSUME IInv,
         \/ RegisterAccepted \/ RegisterRefused \/ RegisterHeard \/ RegisterTimeout
         \/ DeregisterAccepted \/ DeregisterRefused \/ ClearFlag
  PROVE  IInv'
<1> USE DEF IInv, Underway, Known, ServerIsHeard, TypeOK, AppPCs, Goto, Return, Mine
<1>1. CASE RegisterAccepted
  BY <1>1 DEF RegisterAccepted, libVars, tables
<1>2. CASE RegisterRefused
  BY <1>2 DEF RegisterRefused, libVars, tables
<1>3. CASE RegisterHeard
  BY <1>3 DEF RegisterHeard, libVars, tables
<1>4. CASE RegisterTimeout
  BY <1>4 DEF RegisterTimeout, libVars, tables
<1>5. CASE DeregisterAccepted
  BY <1>5 DEF DeregisterAccepted, libVars, tables
<1>6. CASE DeregisterRefused
  BY <1>6 DEF DeregisterRefused, libVars, tables
<1>7. CASE ClearFlag
  BY <1>7 DEF ClearFlag, tables
<1> QED
  BY <1>1, <1>2, <1>3, <1>4, <1>5, <1>6, <1>7

(* The steps of bleRegisterGattClient and bleDeregisterGattClient keep it. *)
LEMMA GattIInv ==
  ASSUME IInv,
         \/ StoreData \/ StoreHandler \/ StoreFails
         \/ TellServer \/ TellServerFails \/ ClearData \/ ClearHandler
         \/ UntellServer \/ UntellServerFails
  PROVE  IInv'
<1> USE DEF IInv, Underway, Known, ServerIsHeard, TypeOK, AppPCs, Goto, Return, Mine
<1>1. CASE StoreData
  BY <1>1 DEF StoreData, libVars
<1>2. CASE StoreHandler
  BY <1>2 DEF StoreHandler, libVars
<1>3. CASE StoreFails
  BY <1>3 DEF StoreFails, libVars, tables
<1>4. CASE TellServer
  BY ZenonT(60), <1>4, RegistrationAssumption DEF TellServer, Mask, libVars, tables
<1>5. CASE TellServerFails
  BY <1>5 DEF TellServerFails, libVars, tables
<1>6. CASE ClearData
  BY <1>6 DEF ClearData, libVars
<1>7. CASE ClearHandler
  BY <1>7 DEF ClearHandler, libVars
<1>8. CASE UntellServer
  BY <1>8 DEF UntellServer, libVars, tables
<1>9. CASE UntellServerFails
  BY <1>9 DEF UntellServerFails, libVars, tables
<1> QED
  BY <1>1, <1>2, <1>3, <1>4, <1>5, <1>6, <1>7, <1>8, <1>9

(* Events that are added to the queue or taken from it are events. *)
LEMMA EventAdded ==
  ASSUME TypeOK, NEW e \in Event, events' = Append(events, e)
  PROVE  events' \in Seq(Event)
  BY AppendProperties DEF TypeOK

(* The same when one is taken. *)
LEMMA EventTaken ==
  ASSUME TypeOK, events # <<>>, events' = Tail(events)
  PROVE  Head(events) \in Event /\ events' \in Seq(Event)
  BY HeadTailProperties DEF TypeOK

(* The steps of the callback thread keep it. *)
LEMMA CallbackIInv ==
  ASSUME IInv, Callback
  PROVE  IInv'
<1> USE DEF IInv, Underway, Known, ServerIsHeard, TypeOK, AppPCs, Resting
<1>1. CASE CbRegistered
  <2>1. Head(events) \in Event /\ events' \in Seq(Event)
    BY <1>1, EventTaken DEF CbRegistered
  <2>2. Head(events).ok \in BOOLEAN
    BY <1>1, <2>1, RegistrationAssumption DEF CbRegistered, Event
  <2>3. registered' \in BOOLEAN /\ UNCHANGED <<appCbs, callVars, open, ble, tables, server, cb>>
    BY <1>1, <2>2 DEF CbRegistered, Reported
  <2> QED
    BY <2>1, <2>3 DEF callVars, tables
<1>2. CASE CbDispatch
  <2>1. events' \in Seq(Event)
    BY <1>2, EventTaken DEF CbDispatch
  <2>2. cb' = Resting \/ cb' \in [pc : {"call"}, kind : Kinds]
    BY <1>2, RegistrationAssumption DEF CbDispatch
  <2>3. UNCHANGED <<libVars, callVars, open, ble, tables, server>>
    BY <1>2 DEF CbDispatch
  <2> QED
    BY <2>1, <2>2, <2>3 DEF libVars, callVars, tables
<1>3. CASE CbCall
  BY <1>3 DEF CbCall, libVars, callVars, tables
<1> QED
  BY <1>1, <1>2, <1>3 DEF Callback

(* The steps of ace_bt and btmanagerd keep it. *)
LEMMA AceIInv ==
  ASSUME IInv,
         \/ \E s \in Sessions, ok \in BOOLEAN : Report(s, ok)
         \/ \E s \in Sessions, k \in Kinds : Send(s, k)
  PROVE  IInv'
<1> USE DEF IInv, Underway, Known, ServerIsHeard, TypeOK, AppPCs, Resting
<1>1. ASSUME NEW s \in Sessions, NEW ok \in BOOLEAN, Report(s, ok)
      PROVE  IInv'
  <2>1. [kind |-> "ble", session |-> s, ok |-> ok] \in Event
    BY DEF Event
  <2>2. events' \in Seq(Event)
    BY <1>1, <2>1, EventAdded DEF Report
  <2>3. ble' \in [Sessions -> {"none", "pending", "registered"}]
    BY <1>1 DEF Report
  <2>4. UNCHANGED <<libVars, callVars, open, tables, server, cb>>
    BY <1>1 DEF Report
  <2> QED
    BY <2>2, <2>3, <2>4 DEF libVars, callVars, tables
<1>2. ASSUME NEW s \in Sessions, NEW k \in Kinds, Send(s, k)
      PROVE  IInv'
  <2>1. [kind |-> k, session |-> s] \in Event
    BY DEF Event
  <2>2. events' \in Seq(Event)
    BY <1>2, <2>1, EventAdded DEF Send
  <2>3. UNCHANGED <<libVars, callVars, open, ble, tables, server, cb>>
    BY <1>2 DEF Send
  <2> QED
    BY <2>2, <2>3 DEF libVars, callVars, tables
<1> QED
  BY <1>1, <1>2

(* IInv is inductive. *)
LEMMA NextIInv ==
  ASSUME IInv, [Next]_vars
  PROVE  IInv'
<1>1. CASE \E s \in Sessions : Ask(s)
  BY <1>1, AskIInv
<1>2. CASE \/ \E s \in Sessions, ok \in BOOLEAN : Report(s, ok)
           \/ \E s \in Sessions, k \in Kinds : Send(s, k)
  BY <1>2, AceIInv
<1>3. CASE Continue
  BY <1>3, BleIInv, GattIInv DEF Continue
<1>4. CASE Callback
  BY <1>4, CallbackIInv
<1>5. CASE UNCHANGED vars
  BY <1>5 DEF IInv, TypeOK, ServerIsHeard, Underway, Known, vars, libVars, callVars, tables
<1> QED
  BY <1>1, <1>2, <1>3, <1>4, <1>5 DEF Next
----------------------------------------------------------------------------
(* The variables keep their types. *)
THEOREM TypeCorrect == Spec => []TypeOK
<1>1. IInv => TypeOK
  BY DEF IInv
<1> QED
  BY InitIInv, NextIInv, <1>1, PTL DEF Spec

(* While btmanagerd sends events to a client, ace_bt has the handler and   *)
(* the callbacks that they need, whichever step of a registration fails.   *)
THEOREM EventsAreHeard == Spec => []ServerIsHeard
<1>1. IInv => ServerIsHeard
  BY DEF IInv
<1> QED
  BY InitIInv, NextIInv, <1>1, PTL DEF Spec
----------------------------------------------------------------------------
\* The one callback that a wrapper is about to call is there.
CallIsBacked == cb = Resting \/ (cb.pc = "call" /\ cb.kind \in appCbs)

(* An application whose structs only add callbacks to those before, be it  *)
(* that it brings them to bleRegisterGattClient or sets them itself, need  *)
(* not fear the second reading of a pointer in the wrappers.               *)
THEOREM NoNullCallOfGrowingStructs ==
  ASSUME "shrink" \notin Faults
  PROVE  Spec => []NoNullCall
<1>1. Init => CallIsBacked
  BY DEF Init, CallIsBacked
<1>2. ASSUME CallIsBacked, [Next]_vars PROVE CallIsBacked'
  <2> USE <1>2 DEF CallIsBacked
  <2>1. ASSUME NEW s \in Sessions, Ask(s) PROVE CallIsBacked'
    <3>1. cb' = cb /\ appCbs \subseteq appCbs'
      BY <2>1 DEF Ask, OpenSession, CloseSession, AlreadyRegistered, BleRegister, BleDeregister,
         RegisterGattClient, RegisterUnknownSession, DeregisterGattClient, SetCallbacks,
         TakeCallbacks, Brings, libVars
    <3> QED
      BY <3>1
  <2>2. CASE Continue
    <3>1. UNCHANGED <<cb, appCbs>>
      BY <2>2 DEF Continue, RegisterAccepted, RegisterRefused, RegisterHeard, RegisterTimeout,
         DeregisterAccepted, DeregisterRefused, ClearFlag, StoreData, StoreHandler, StoreFails,
         TellServer, TellServerFails, ClearData, ClearHandler, UntellServer, UntellServerFails,
         libVars
    <3> QED
      BY <3>1
  <2>3. CASE Callback
    BY <2>3 DEF Callback, CbRegistered, CbDispatch, CbCall, AppHas, Resting, libVars
  <2>4. CASE \/ \E s \in Sessions, ok \in BOOLEAN : Report(s, ok)
             \/ \E s \in Sessions, k \in Kinds : Send(s, k)
    <3>1. UNCHANGED <<cb, appCbs>>
      BY <2>4 DEF Report, Send, libVars
    <3> QED
      BY <3>1
  <2>5. CASE UNCHANGED vars
    BY <2>5 DEF vars, libVars
  <2> QED
    BY <1>2, <2>1, <2>2, <2>3, <2>4, <2>5 DEF Next
<1>3. CallIsBacked => NoNullCall
  BY DEF CallIsBacked, NoNullCall, Resting
<1> QED
  BY <1>1, <1>2, <1>3, PTL DEF Spec
----------------------------------------------------------------------------
(* Answers that come in time: ten seconds are enough for ace_bt to report. *)

\* No event is of the kind; the event e is the only one that is.
IsOf(e, kind) == e.kind = kind

NoEvent(es, kind) == \A i \in 1 .. Len(es) : ~IsOf(es[i], kind)

OnlyEvent(es, kind, e) ==
  /\ IsOf(e, kind)
  /\ \E i \in 1 .. Len(es) :
       es[i] = e /\ \A j \in 1 .. Len(es) : IsOf(es[j], kind) => j = i

\* The same of the reports on registrations.
NoReport(es) == NoEvent(es, "ble")

OneReport(es, ok) == \E e \in Event : e.ok = ok /\ OnlyEvent(es, "ble", e)

\* A session that is not open has no part in anything.
OneSession ==
  /\ \A s, t \in open : s = t
  /\ \A s \in Sessions \ open : ble[s] = "none" /\ roles[s] = {}

\* The only flag of the library says what ace_bt knows of the only session.
FlagAgrees ==
  /\ registered => open # {}
  /\ pc \notin {"await registered", "clear flag"} =>
       \A s \in open :
         /\ ble[s] = IF registered THEN "registered" ELSE "none"
         /\ "ble" \in roles[s] <=> registered
  /\ pc = "request register" => ~registered
  /\ pc = "clear flag" => registered /\ ble[session] = "none" /\ "ble" \in roles[session]

\* A registration waits for ace_bt, then for the one report on it.
ReportAwaited ==
  /\ pc # "await registered" => NoReport(events)
  /\ pc = "await registered" =>
       /\ "ble" \notin roles[session]
       /\ \/ ~registered /\ ble[session] = "pending" /\ NoReport(events)
          \/ ~registered /\ ble[session] = "registered" /\ OneReport(events, TRUE)
          \/ ~registered /\ ble[session] = "none" /\ OneReport(events, FALSE)
          \/ ~registered /\ ble[session] = "none" /\ NoReport(events)
          \/ registered /\ ble[session] = "registered" /\ NoReport(events)

PromptInv == IInv /\ OneSession /\ FlagAgrees /\ ReportAwaited

(* What becomes of the events of a kind when an event is added to the      *)
(* others, or the first one is taken.                                      *)
LEMMA NothingQueued == \A kind : NoEvent(<<>>, kind)
  BY DEF NoEvent

(* An event that is added comes last. *)
LEMMA Added ==
  ASSUME NEW es \in Seq(Event), NEW e \in Event
  PROVE  /\ Len(Append(es, e)) = Len(es) + 1 /\ Len(es) \in Nat
         /\ \A i \in 1 .. Len(es) : Append(es, e)[i] = es[i] /\ i \in 1 .. Len(Append(es, e))
         /\ Append(es, e)[Len(es) + 1] = e
         /\ \A i \in 1 .. Len(Append(es, e)) : i \in 1 .. Len(es) \/ i = Len(es) + 1
  BY AppendProperties, LenProperties

(* An event of another kind makes no difference. *)
LEMMA OtherAdded ==
  ASSUME NEW es \in Seq(Event), NEW e \in Event, NEW kind, ~IsOf(e, kind)
  PROVE  /\ NoEvent(es, kind) => NoEvent(Append(es, e), kind)
         /\ \A f : OnlyEvent(es, kind, f) => OnlyEvent(Append(es, e), kind, f)
<1>1. \A i \in 1 .. Len(Append(es, e)) :
        IsOf(Append(es, e)[i], kind) => i \in 1 .. Len(es) /\ IsOf(es[i], kind)
  BY Added
<1> HIDE DEF IsOf
<1>2. NoEvent(es, kind) => NoEvent(Append(es, e), kind)
  BY <1>1 DEF NoEvent
<1>3. ASSUME NEW f, OnlyEvent(es, kind, f) PROVE OnlyEvent(Append(es, e), kind, f)
  <2>1. PICK i \in 1 .. Len(es) :
          es[i] = f /\ \A j \in 1 .. Len(es) : IsOf(es[j], kind) => j = i
    BY <1>3 DEF OnlyEvent
  <2>2. i \in 1 .. Len(Append(es, e)) /\ Append(es, e)[i] = es[i]
    BY Added
  <2> QED
    BY <1>1, <1>3, <2>1, <2>2 DEF OnlyEvent
<1> QED
  BY <1>2, <1>3

(* The first event of its kind is the only one. *)
LEMMA FirstAdded ==
  ASSUME NEW es \in Seq(Event), NEW e \in Event, NEW kind, IsOf(e, kind), NoEvent(es, kind)
  PROVE  OnlyEvent(Append(es, e), kind, e)
<1>1. \A j \in 1 .. Len(Append(es, e)) : IsOf(Append(es, e)[j], kind) => j = Len(es) + 1
  BY Added DEF NoEvent
<1>2. Len(es) + 1 \in 1 .. Len(Append(es, e))
  BY Added
<1> QED
  BY <1>1, <1>2, Added DEF OnlyEvent

(* What is left of a kind when the first event is taken. *)
LEMMA HeadTaken ==
  ASSUME NEW es \in Seq(Event), es # <<>>, NEW kind
  PROVE  /\ NoEvent(es, kind) => ~IsOf(Head(es), kind) /\ NoEvent(Tail(es), kind)
         /\ \A f : OnlyEvent(es, kind, f) =>
              IF IsOf(Head(es), kind) THEN Head(es) = f /\ NoEvent(Tail(es), kind)
              ELSE OnlyEvent(Tail(es), kind, f)
<1>1. /\ Len(es) \in Nat \ {0} /\ Head(es) = es[1] /\ Len(Tail(es)) = Len(es) - 1
      /\ \A i \in 1 .. Len(Tail(es)) : Tail(es)[i] = es[i + 1]
  BY HeadTailProperties, LenProperties, EmptySeq
<1>2. 1 \in 1 .. Len(es) /\ \A i \in 1 .. Len(Tail(es)) : i + 1 \in 1 .. Len(es) /\ i + 1 # 1
  BY <1>1
<1>3. NoEvent(es, kind) => ~IsOf(Head(es), kind) /\ NoEvent(Tail(es), kind)
  BY <1>1, <1>2 DEF NoEvent
<1>4. ASSUME NEW f, OnlyEvent(es, kind, f)
      PROVE  IF IsOf(Head(es), kind) THEN Head(es) = f /\ NoEvent(Tail(es), kind)
             ELSE OnlyEvent(Tail(es), kind, f)
  <2>1. PICK i \in 1 .. Len(es) :
          es[i] = f /\ \A j \in 1 .. Len(es) : IsOf(es[j], kind) => j = i
    BY <1>4 DEF OnlyEvent
  <2>2. IsOf(es[i], kind)
    BY <1>4, <2>1 DEF OnlyEvent
  <2>3. CASE IsOf(Head(es), kind)
    <3>1. i = 1
      BY <1>1, <1>2, <2>1, <2>3
    <3> QED
      BY <1>1, <1>2, <2>1, <2>3, <3>1 DEF NoEvent
  <2>4. CASE ~IsOf(Head(es), kind)
    <3>1. i # 1
      BY <1>1, <2>2, <2>4
    <3>2. i - 1 \in 1 .. Len(Tail(es)) /\ Tail(es)[i - 1] = es[i]
      BY <1>1, <2>1, <3>1
    <3>3. \A j \in 1 .. Len(Tail(es)) : IsOf(Tail(es)[j], kind) => j = i - 1
      BY <1>1, <1>2, <2>1
    <3> QED
      BY <1>4, <2>1, <2>4, <3>2, <3>3 DEF OnlyEvent
  <2> QED
    BY <2>3, <2>4
<1> QED
  BY <1>3, <1>4

(* The application begins a call, or one that ends at once.                *)
LEMMA AskPrompt ==
  ASSUME NEW s \in Sessions, PromptInv, Ask(s)
  PROVE  OneSession' /\ FlagAgrees' /\ ReportAwaited'
<1> USE DEF PromptInv, IInv, Underway, OneSession, FlagAgrees, ReportAwaited
<1> HIDE DEF TypeOK
<1>t. /\ session \in Sessions /\ open \in SUBSET Sessions
      /\ roles \in [Sessions -> SUBSET {"ble", "gatt"}]
      /\ ble \in [Sessions -> {"none", "pending", "registered"}]
  BY DEF TypeOK
<1>1. CASE OpenSession(s)
  BY <1>t, <1>1 DEF OpenSession, libVars, callVars, tables
<1>2. CASE CloseSession(s)
  <2>1. ~registered
    BY <1>2 DEF CloseSession
  <2>2. NoReport(<<>>)
    BY NothingQueued DEF NoReport
  <2>3. pc = "idle" /\ open' = {} /\ ble' = [ble EXCEPT ![s] = "none"] /\ roles[s] = {}
        /\ UNCHANGED <<registered, pc, session, roles>> /\ events' = <<>> /\ s \in open
    BY <1>2 DEF CloseSession, libVars, callVars
  <2> QED
    BY <1>t, <2>1, <2>2, <2>3
<1>3. CASE AlreadyRegistered(s)
  BY <1>t, <1>3 DEF AlreadyRegistered, libVars, tables
<1>4. CASE BleRegister(s)
  BY <1>t, <1>4 DEF BleRegister, Begin, Goto, libVars, tables
<1>5. CASE BleDeregister(s)
  BY <1>t, <1>5 DEF BleDeregister, Begin, Goto, libVars, tables
<1>6. CASE RegisterGattClient(s) \/ DeregisterGattClient(s)
  <2>1. /\ pc = "idle" /\ pc' \in {"store data", "untell server"} /\ s \in open
        /\ session' = s /\ UNCHANGED <<registered, roles, open, ble, events>>
    BY <1>6 DEF RegisterGattClient, DeregisterGattClient, Begin, Goto, libVars
  <2> QED
    BY <1>t, <2>1
<1>7. CASE RegisterUnknownSession(s) \/ SetCallbacks
  <2>1. UNCHANGED <<registered, pc, session, roles, open, ble, events>>
    BY <1>7 DEF RegisterUnknownSession, SetCallbacks, callVars
  <2> QED
    BY <2>1
<1> QED
  BY <1>1, <1>2, <1>3, <1>4, <1>5, <1>6, <1>7 DEF Ask

(* bleRegister and bleDeregister go on. A call whose time is over has had  *)
(* the report, or was told that there is none.                             *)
LEMMA BlePrompt ==
  ASSUME PromptInv, "late" \notin Faults,
         \/ RegisterAccepted \/ RegisterRefused \/ RegisterHeard \/ RegisterTimeout
         \/ DeregisterAccepted \/ DeregisterRefused \/ ClearFlag
  PROVE  OneSession' /\ FlagAgrees' /\ ReportAwaited'
<1> USE DEF PromptInv, IInv, Underway, OneSession, FlagAgrees, ReportAwaited, Goto, Return, Mine
<1>t. /\ session \in Sessions /\ open \in SUBSET Sessions
      /\ roles \in [Sessions -> SUBSET {"ble", "gatt"}]
      /\ ble \in [Sessions -> {"none", "pending", "registered"}]
  BY DEF TypeOK
<1>1. CASE RegisterAccepted
  BY <1>t, <1>1 DEF RegisterAccepted, libVars, tables
<1>2. CASE RegisterRefused
  BY <1>t, <1>2 DEF RegisterRefused, libVars, tables
<1>3. CASE RegisterHeard
  BY <1>t, <1>3 DEF RegisterHeard, libVars, tables
<1>4. CASE RegisterTimeout
  <2>1. NoReport(events) /\ ble[session] # "pending" /\ ~registered
    BY <1>4 DEF RegisterTimeout, TimedOut, Settled, NoReport, NoEvent, IsOf
  <2>2. ~OneReport(events, TRUE) /\ ~OneReport(events, FALSE)
    BY <2>1 DEF NoReport, OneReport, NoEvent, OnlyEvent
  <2>3. ble[session] = "none"
    BY <1>4, <2>1, <2>2 DEF RegisterTimeout
  <2> QED
    BY <1>t, <1>4, <2>1, <2>3 DEF RegisterTimeout, libVars, tables
<1>5. CASE DeregisterAccepted
  BY ZenonT(60), <1>t, <1>5 DEF DeregisterAccepted, libVars, tables
<1>6. CASE DeregisterRefused
  BY <1>t, <1>6 DEF DeregisterRefused, libVars, tables
<1>7. CASE ClearFlag
  BY ZenonT(60), <1>t, <1>7 DEF ClearFlag, tables
<1> QED
  BY <1>1, <1>2, <1>3, <1>4, <1>5, <1>6, <1>7

(* Registration as a GATT client has nothing to do with the flag.          *)
LEMMA GattPrompt ==
  ASSUME PromptInv,
         \/ StoreData \/ StoreHandler \/ StoreFails
         \/ TellServer \/ TellServerFails \/ ClearData \/ ClearHandler
         \/ UntellServer \/ UntellServerFails
  PROVE  OneSession' /\ FlagAgrees' /\ ReportAwaited'
<1> USE DEF PromptInv, IInv, Underway, OneSession, FlagAgrees, ReportAwaited
<1>t. /\ session \in Sessions /\ open \in SUBSET Sessions
      /\ roles \in [Sessions -> SUBSET {"ble", "gatt"}]
  BY DEF TypeOK
<1>1. /\ UNCHANGED <<registered, session, open, ble, events>>
      /\ pc \notin {"idle", "request register", "await registered", "request deregister", "clear flag"}
      /\ pc' \notin {"request register", "await registered", "request deregister", "clear flag"}
  BY DEF StoreData, StoreHandler, StoreFails, TellServer, TellServerFails, ClearData, ClearHandler,
     UntellServer, UntellServerFails, Goto, Return, libVars
<1>2. \/ roles' = roles
      \/ roles' = [roles EXCEPT ![session] = roles[session]]
      \/ roles' = [roles EXCEPT ![session] = roles[session] \cup {"gatt"}]
      \/ roles' = [roles EXCEPT ![session] = roles[session] \ {"gatt"}]
  BY DEF StoreData, StoreHandler, StoreFails, TellServer, TellServerFails, ClearData, ClearHandler,
     UntellServer, UntellServerFails, Goto, Return, Mine, libVars
<1>3. session \in open
  BY <1>1
<1>4. \A s \in open : "ble" \in roles'[s] <=> "ble" \in roles[s]
  <2>1. \/ roles'[session] = roles[session]
        \/ roles'[session] = roles[session] \cup {"gatt"}
        \/ roles'[session] = roles[session] \ {"gatt"}
    BY <1>t, <1>2
  <2>2. "ble" \in roles'[session] <=> "ble" \in roles[session]
    BY <2>1
  <2> QED
    BY <1>3, <2>2
<1>5. \A s \in Sessions \ open : roles'[s] = roles[s]
  BY <1>t, <1>2, <1>3
<1> QED
  BY <1>t, <1>1, <1>3, <1>4, <1>5

(* The callback thread takes an event, the report on a registration for    *)
(* the one that waits for it.                                              *)
LEMMA CallbackPrompt ==
  ASSUME PromptInv, Callback
  PROVE  OneSession' /\ FlagAgrees' /\ ReportAwaited'
<1> USE DEF PromptInv, IInv, OneSession, FlagAgrees
<1>t. events \in Seq(Event)
  BY DEF TypeOK
<1>1. CASE CbRegistered
  <2>1. /\ IsOf(Head(events), "ble") /\ events # <<>> /\ events' = Tail(events)
        /\ registered' = (registered \/ Head(events).ok)
        /\ UNCHANGED <<pc, session, roles, open, ble>>
    BY <1>1 DEF CbRegistered, Reported, IsOf, callVars
  <2>2. ~NoReport(events) /\ \A ok : OneReport(events, ok) => Head(events).ok = ok /\ NoReport(events')
    BY <1>t, <2>1, HeadTaken DEF NoReport, OneReport
  <2>3. CASE ~registered /\ ble[session] = "registered" /\ OneReport(events, TRUE)
    BY <2>1, <2>2, <2>3 DEF ReportAwaited, Underway
  <2>4. CASE ~registered /\ ble[session] = "none" /\ OneReport(events, FALSE)
    BY <2>1, <2>2, <2>4 DEF ReportAwaited, Underway
  <2> QED
    BY <2>2, <2>3, <2>4 DEF ReportAwaited
<1>2. CASE CbDispatch
  <2>1. /\ ~IsOf(Head(events), "ble") /\ events # <<>> /\ events' = Tail(events)
        /\ UNCHANGED <<registered, pc, session, roles, open, ble>>
    BY <1>2 DEF CbDispatch, IsOf, libVars, callVars
  <2>2. /\ NoReport(events) => NoReport(events')
        /\ \A ok : OneReport(events, ok) => OneReport(events', ok)
    BY <1>t, <2>1, HeadTaken DEF NoReport, OneReport
  <2> QED
    BY <2>1, <2>2 DEF ReportAwaited
<1>3. CASE CbCall
  BY <1>3 DEF CbCall, ReportAwaited, libVars, callVars
<1> QED
  BY <1>1, <1>2, <1>3 DEF Callback

(* ace_bt reports once on a registration, btmanagerd sends other events.   *)
LEMMA AcePrompt ==
  ASSUME PromptInv,
         \/ \E s \in Sessions, ok \in BOOLEAN : Report(s, ok)
         \/ \E s \in Sessions, k \in Kinds : Send(s, k)
  PROVE  OneSession' /\ FlagAgrees' /\ ReportAwaited'
<1> USE DEF PromptInv, IInv, OneSession, FlagAgrees
<1>t. /\ events \in Seq(Event) /\ open \in SUBSET Sessions /\ session \in Sessions
      /\ ble \in [Sessions -> {"none", "pending", "registered"}]
  BY DEF TypeOK
<1>1. ASSUME NEW s \in Sessions, NEW ok \in BOOLEAN, Report(s, ok)
      PROVE  OneSession' /\ FlagAgrees' /\ ReportAwaited'
  <2>1. ble[s] = "pending"
    BY <1>1 DEF Report
  <2>2. s \in open
    BY <1>t, <2>1
  <2>3. pc # "idle"
    BY <2>1, <2>2
  <2>4. s = session
    BY <2>2, <2>3 DEF Underway
  <2>5. pc = "await registered" /\ ~registered /\ NoReport(events) /\ "ble" \notin roles[session]
    BY <2>1, <2>2, <2>4 DEF ReportAwaited
  <2> DEFINE e == [kind |-> "ble", session |-> s, ok |-> ok]
  <2>6. e \in Event /\ IsOf(e, "ble") /\ e.ok = ok
    BY DEF Event, IsOf
  <2>7. events' = Append(events, e)
    BY <1>1 DEF Report
  <2> HIDE DEF e
  <2>8. OneReport(events', ok)
    BY <1>t, <2>5, <2>6, <2>7, FirstAdded DEF NoReport, OneReport
  <2>9. /\ ble' = [ble EXCEPT ![s] = IF ok THEN "registered" ELSE "none"]
        /\ UNCHANGED <<registered, pc, session, roles, open>>
    BY <1>1 DEF Report, libVars, callVars
  <2>10. OneSession' /\ FlagAgrees'
    BY <1>t, <2>2, <2>5, <2>9
  <2>11. ReportAwaited'
    BY <1>t, <2>4, <2>5, <2>8, <2>9 DEF ReportAwaited
  <2> QED
    BY <2>10, <2>11
<1>2. ASSUME NEW s \in Sessions, NEW k \in Kinds, Send(s, k)
      PROVE  OneSession' /\ FlagAgrees' /\ ReportAwaited'
  <2> DEFINE e == [kind |-> k, session |-> s]
  <2>1. e \in Event /\ ~IsOf(e, "ble")
    BY RegistrationAssumption DEF Event, IsOf
  <2>2. events' = Append(events, e) /\ UNCHANGED <<registered, pc, session, roles, open, ble>>
    BY <1>2 DEF Send, libVars, callVars
  <2> HIDE DEF e
  <2>3. /\ NoReport(events) => NoReport(events')
        /\ \A ok : OneReport(events, ok) => OneReport(events', ok)
    BY <1>t, <2>1, <2>2, OtherAdded DEF NoReport, OneReport
  <2> QED
    BY <2>2, <2>3 DEF ReportAwaited
<1> QED
  BY <1>1, <1>2

(* When ace_bt reports in time, the roles that the calls have told the     *)
(* application are those that ace_bt and btmanagerd know of, whatever is   *)
(* refused, fails or cannot be stored.                                     *)
THEOREM RolesAgreeWhenPrompt ==
  ASSUME "late" \notin Faults
  PROVE  Spec => []RolesAgree
<1>1. Init => PromptInv
  <2> SUFFICES ASSUME Init PROVE PromptInv
    OBVIOUS
  <2>1. NoReport(events)
    BY NothingQueued DEF Init, NoReport
  <2> QED
    BY <2>1, InitIInv DEF Init, PromptInv, OneSession, FlagAgrees, ReportAwaited
<1>2. PromptInv /\ [Next]_vars => PromptInv'
  <2> SUFFICES ASSUME PromptInv, [Next]_vars PROVE PromptInv'
    OBVIOUS
  <2>1. IInv'
    BY NextIInv DEF PromptInv
  <2>2. OneSession' /\ FlagAgrees' /\ ReportAwaited'
    <3>1. CASE \E s \in Sessions : Ask(s)
      BY <3>1, AskPrompt
    <3>2. CASE \/ \E s \in Sessions, ok \in BOOLEAN : Report(s, ok)
               \/ \E s \in Sessions, k \in Kinds : Send(s, k)
      BY <3>2, AcePrompt
    <3>3. CASE Continue
      BY <3>3, BlePrompt, GattPrompt DEF Continue
    <3>4. CASE Callback
      BY <3>4, CallbackPrompt
    <3>5. CASE UNCHANGED vars
      BY <3>5 DEF PromptInv, OneSession, FlagAgrees, ReportAwaited, vars, libVars, callVars
    <3> QED
      BY <3>1, <3>2, <3>3, <3>4, <3>5 DEF Next
  <2> QED
    BY <2>1, <2>2 DEF PromptInv
<1>3. PromptInv => RolesAgree
  <2> SUFFICES ASSUME PromptInv, pc = "idle", NEW s \in Sessions
               PROVE  /\ "ble" \in roles[s] <=> ble[s] = "registered"
                      /\ "gatt" \in roles[s] <=> server[s] # {}
    BY DEF RolesAgree
  <2>1. "gatt" \in roles[s] <=> server[s] # {}
    BY RegistrationAssumption DEF PromptInv, IInv, Known, Mask
  <2>2. "ble" \in roles[s] <=> ble[s] = "registered"
    BY DEF PromptInv, OneSession, FlagAgrees
  <2> QED
    BY <2>1, <2>2
<1> QED
  BY <1>1, <1>2, <1>3, PTL DEF Spec
=============================================================================
