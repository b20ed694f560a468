------------------------- MODULE GattRequestsProofs -------------------------
(***************************************************************************)
(* Theorems about GattRequests: the requests leave the registration as it  *)
(* is specified, and bleSetNotification says what is so.                   *)
(***************************************************************************)
EXTENDS GattRequests, RegistrationProofs

allVars == <<vars, reqVars>>

(* A request changes no variable of Registration. *)
LEMMA RequestsAside ==
  ASSUME \/ \E op \in Ops : RequestFails(op) \/ \E enable \in BOOLEAN : Request(op, enable)
         \/ Proceed
  PROVE  UNCHANGED vars
BY DEF RequestFails, Request, Proceed, Read, Write, WriteFails, Forward, ForwardFails, Lookup,
   LookupFails, WriteDescriptor, DescriptorFails

(* Every step is a step of Registration or leaves its variables alone. *)
LEMMA StepMaps == [NextReq]_allVars => [Next]_vars
BY RequestsAside DEF NextReq, Next, AskRegistration, ReportRegistration, SendEvent,
   ContinueRegistration, Deliver, allVars

(* With requests on top, Registration is still what it was, and so its     *)
(* theorems hold.                                                          *)
THEOREM KeepsRegistration == SpecReq => Spec
<1>1. InitReq => Init
  BY DEF InitReq
<1> QED
  BY <1>1, StepMaps, PTL DEF SpecReq, Spec, allVars
----------------------------------------------------------------------------
\* A request is made by a client between two calls of the registration.
ByClient == req # None => pc = "idle" /\ \E s \in Sessions : "gatt" \in roles[s]

\* Is a bleSetNotification between its two effects?
Halfway == At("notification", "lookup") \/ At("notification", "descriptor")

\* What the calls have told is so, but for a bleSetNotification under way.
ToldIsSo ==
  /\ ~Halfway =>
       /\ told = "on" => cccd /\ forward
       /\ told = "off" => ~cccd /\ ~forward
  /\ Halfway => forward = req.enable

\* btmanagerd forwards to a client only.
ForwardToClient == forward => \E s \in Sessions : "gatt" \in roles[s]

ReqInv == IInv /\ TypeOKReq /\ ByClient /\ ToldIsSo /\ ForwardToClient

(* The initial state satisfies ReqInv. *)
LEMMA InitReqInv == InitReq => ReqInv
<1> SUFFICES ASSUME InitReq PROVE ReqInv
  OBVIOUS
<1>1. IInv
  BY InitIInv DEF InitReq
<1>2. TypeOKReq
  BY <1>1 DEF InitReq, TypeOKReq, IInv
<1>3. ByClient /\ ToldIsSo /\ ForwardToClient
  BY DEF InitReq, ByClient, ToldIsSo, ForwardToClient, Halfway, At
<1> QED
  BY <1>1, <1>2, <1>3 DEF ReqInv

(* The steps of requests keep it. *)
LEMMA RequestReqInv ==
  ASSUME ReqInv,
         \/ \E op \in Ops : RequestFails(op) \/ \E enable \in BOOLEAN : Request(op, enable)
         \/ Proceed
  PROVE  ReqInv'
<1>1. UNCHANGED vars
  BY RequestsAside
<1>2. UNCHANGED <<pc, roles>> /\ IInv' /\ TypeOK'
  BY <1>1, NextIInv DEF ReqInv, IInv, vars, callVars
<1> USE <1>2 DEF ReqInv, TypeOKReq, ByClient, ToldIsSo, ForwardToClient, Halfway, At, Finish,
     Tell, None
<1>3. ASSUME NEW op \in Ops, RequestFails(op) PROVE ReqInv'
  BY <1>3 DEF RequestFails, Client
<1>4. ASSUME NEW op \in Ops, NEW enable \in BOOLEAN, Request(op, enable) PROVE ReqInv'
  BY <1>4 DEF Request, Client, Ops
<1>5. CASE Read
  BY <1>5 DEF Read
<1>6. CASE Write
  BY <1>6 DEF Write
<1>7. CASE WriteFails
  BY <1>7 DEF WriteFails
<1>8. CASE Forward
  BY <1>8 DEF Forward, Ops
<1>9. CASE ForwardFails
  BY <1>9 DEF ForwardFails
<1>10. CASE Lookup
  BY <1>10 DEF Lookup, Ops
<1>11. CASE LookupFails
  BY <1>11 DEF LookupFails, Ops
<1>12. CASE WriteDescriptor
  BY <1>12 DEF WriteDescriptor, Written
<1>13. CASE DescriptorFails
  BY <1>13 DEF DescriptorFails
<1> QED
  BY <1>3, <1>4, <1>5, <1>6, <1>7, <1>8, <1>9, <1>10, <1>11, <1>12, <1>13 DEF Proceed

(* Server and roles change together: while no session loses or gains its   *)
(* role as a GATT client, btmanagerd has the clients that it had.          *)
LEMMA ServerFollowsRoles ==
  ASSUME IInv, IInv', \A s \in Sessions : "gatt" \in roles'[s] <=> "gatt" \in roles[s]
  PROVE  server' = server
<1>1. \A s \in Sessions : server'[s] = server[s]
  BY DEF IInv, Known, Mask
<1> QED
  BY <1>1 DEF IInv, TypeOK

(* Registration steps keep it: told is "on" afterwards only if btmanagerd  *)
(* has the same clients as before.                                         *)
LEMMA RegistrationReqInv ==
  ASSUME ReqInv, Next, Forget, req # None => UNCHANGED <<pc, roles>>
  PROVE  ReqInv'
<1>1. IInv' /\ TypeOK'
  BY NextIInv DEF ReqInv, IInv
<1>2. TypeOKReq'
  BY <1>1 DEF ReqInv, TypeOKReq, Forget, None
<1>3. ByClient'
  BY DEF ReqInv, ByClient, Forget
<1>4. ForwardToClient'
  <2>1. SUFFICES ASSUME forward' PROVE \E s \in Sessions : "gatt" \in roles'[s]
    BY DEF ForwardToClient
  <2>2. PICK s \in Sessions : server'[s] # {}
    BY <2>1 DEF Forget
  <2> QED
    BY <1>1, <2>2 DEF IInv, Known
<1>5. CASE req # None
  <2>1. server' = server
    BY <1>1, <1>5, ServerFollowsRoles DEF ReqInv
  <2>2. forward => \E s \in Sessions : server[s] # {}
    BY <1>5, RegistrationAssumption DEF ReqInv, ForwardToClient, IInv, Known, Mask
  <2>3. UNCHANGED <<req, told, forward, cccd>>
    BY <2>1, <2>2 DEF Forget, ReqInv, TypeOKReq
  <2>4. ToldIsSo'
    BY <2>3 DEF ReqInv, ToldIsSo, Halfway, At
  <2> QED
    BY <1>1, <1>2, <1>3, <1>4, <2>4 DEF ReqInv
<1>6. CASE req = None
  <2>1. ~Halfway /\ ~Halfway'
    BY <1>6 DEF Halfway, At, Forget
  <2>2. told' = "on" => cccd' /\ forward'
    <3>1. SUFFICES ASSUME told' = "on" PROVE cccd' /\ forward'
      OBVIOUS
    <3>2. told = "on" /\ server' = server
      BY <3>1 DEF Forget
    <3>3. cccd /\ forward
      BY <2>1, <3>2 DEF ReqInv, ToldIsSo
    <3>4. \E s \in Sessions : server[s] # {}
      BY <3>3, RegistrationAssumption DEF ReqInv, ForwardToClient, IInv, Known, Mask
    <3> QED
      BY <3>2, <3>3, <3>4 DEF Forget
  <2>3. told' = "off" => ~cccd' /\ ~forward'
    BY <2>1 DEF ReqInv, ToldIsSo, Forget
  <2> QED
    BY <1>1, <1>2, <1>3, <1>4, <2>1, <2>2, <2>3 DEF ReqInv, ToldIsSo
<1> QED
  BY <1>5, <1>6

(* ReqInv is inductive. *)
LEMMA NextReqInv ==
  ASSUME ReqInv, [NextReq]_allVars
  PROVE  ReqInv'
<1>1. CASE \/ \E op \in Ops : RequestFails(op) \/ \E enable \in BOOLEAN : Request(op, enable)
           \/ Proceed
  BY <1>1, RequestReqInv
<1>2. ASSUME NEW s \in Sessions, AskRegistration(s) PROVE ReqInv'
  BY <1>2, RegistrationReqInv DEF AskRegistration, Next
<1>3. CASE ContinueRegistration
  <2>1. pc # "idle"
    BY <1>3 DEF ContinueRegistration, Continue, RegisterAccepted, RegisterRefused, RegisterHeard,
       RegisterTimeout, DeregisterAccepted, DeregisterRefused, ClearFlag, StoreData, StoreHandler,
       StoreFails, TellServer, TellServerFails, ClearData, ClearHandler, UntellServer,
       UntellServerFails, Goto
  <2>2. req = None
    BY <2>1 DEF ReqInv, ByClient
  <2> QED
    BY <1>3, <2>2, RegistrationReqInv DEF ContinueRegistration, Next
<1>4. CASE \/ Deliver
           \/ \E s \in Sessions, ok \in BOOLEAN : ReportRegistration(s, ok)
           \/ \E s \in Sessions, k \in Kinds : SendEvent(s, k)
           \/ UNCHANGED allVars
  <2>1. [Next]_vars /\ UNCHANGED <<pc, roles, reqVars>>
    BY <1>4 DEF Deliver, Callback, CbRegistered, CbDispatch, CbCall, ReportRegistration, Report,
       SendEvent, Send, Next, allVars, vars, callVars
  <2>2. IInv' /\ TypeOK'
    BY <2>1, NextIInv DEF ReqInv, IInv
  <2> QED
    BY <2>1, <2>2 DEF ReqInv, TypeOKReq, ByClient, ToldIsSo, ForwardToClient, Halfway, At, reqVars,
       None
<1> QED
  BY <1>1, <1>2, <1>3, <1>4 DEF NextReq

(* The invariant of the requests holds in every state.                     *)
LEMMA RequestsInvariance == SpecReq => []ReqInv
  BY InitReqInv, NextReqInv, PTL DEF SpecReq, allVars
----------------------------------------------------------------------------
(* When bleSetNotification said that notifications are on, they have their *)
(* way through device, btmanagerd and ace_bt, if a client asks for them.   *)
THEOREM OnMeansOn ==
  ASSUME "notify" \in Wrapped
  PROVE  SpecReq => []NotificationsFlow
<1>1. ReqInv => NotificationsFlow
  <2> SUFFICES ASSUME ReqInv, told = "on", req = None
               PROVE  /\ cccd /\ forward
                      /\ \E s \in open \cap handler \cap clientData : "notify" \in server[s]
    BY DEF NotificationsFlow
  <2>1. cccd /\ forward
    BY DEF ReqInv, ToldIsSo, Halfway, At
  <2>2. PICK s \in Sessions : "gatt" \in roles[s]
    BY <2>1 DEF ReqInv, ForwardToClient
  <2>3. server[s] = Mask
    BY <2>2 DEF ReqInv, IInv, Known
  <2>4. "notify" \in server[s] /\ s \in open \cap handler \cap clientData
    BY <2>3 DEF Mask, ReqInv, IInv, ServerIsHeard
  <2> QED
    BY <2>1, <2>4
<1> QED
  BY InitReqInv, NextReqInv, <1>1, PTL DEF SpecReq, allVars

(* When it said that they are off, neither end is set to send any. *)
THEOREM OffMeansOff == SpecReq => []NotificationsStop
<1>1. ReqInv => NotificationsStop
  BY DEF ReqInv, ToldIsSo, Halfway, At, NotificationsStop
<1> QED
  BY InitReqInv, NextReqInv, <1>1, PTL DEF SpecReq, allVars
----------------------------------------------------------------------------
\* While there is a descriptor's buffer, bleWriteDescriptor is at work.
BufferInHand == "descriptor" \in buffers => req # None /\ req.at = "descriptor"

(* Requests keep it: the buffer comes with the step before and goes with   *)
(* the write or its failure.                                               *)
LEMMA RequestBuffer ==
  ASSUME TypeOKReq, BufferInHand,
         \/ \E op \in Ops : RequestFails(op) \/ \E enable \in BOOLEAN : Request(op, enable)
         \/ Proceed
  PROVE  BufferInHand'
<1> USE DEF BufferInHand, At, Finish, None, TypeOKReq
<1>1. ASSUME NEW op \in Ops, RequestFails(op) PROVE BufferInHand'
  BY <1>1 DEF RequestFails, Client
<1>2. ASSUME NEW op \in Ops, NEW enable \in BOOLEAN, Request(op, enable) PROVE BufferInHand'
  BY <1>2 DEF Request, Client
<1>3. CASE Read \/ Write \/ WriteFails
  BY <1>3 DEF Read, Write, WriteFails
<1>4. CASE Forward \/ ForwardFails
  BY <1>4 DEF Forward, ForwardFails
<1>5. CASE Lookup
  <2>1. /\ req' = [req EXCEPT !.at = "descriptor"]
        /\ req \in [op : Ops, at : {"call", "lookup", "descriptor"}, enable : BOOLEAN]
    BY <1>5 DEF Lookup
  <2>2. req'.at = "descriptor" /\ req'.op = req.op /\ req.op # "none"
    BY <2>1 DEF Ops
  <2> QED
    BY <2>2
<1>6. CASE LookupFails
  BY <1>6 DEF LookupFails
<1>7. CASE WriteDescriptor \/ DescriptorFails
  BY <1>7 DEF WriteDescriptor, DescriptorFails
<1> QED
  BY <1>1, <1>2, <1>3, <1>4, <1>5, <1>6, <1>7 DEF Proceed

(* Whatever fails, bleWriteDescriptor returns with its buffer freed.       *)
THEOREM BufferFreed == SpecReq => []DescriptorBufferFreed
<1>1. InitReq => BufferInHand
  BY DEF InitReq, BufferInHand
<1>2. ReqInv /\ BufferInHand /\ [NextReq]_allVars => BufferInHand'
  <2> SUFFICES ASSUME ReqInv, BufferInHand, [NextReq]_allVars PROVE BufferInHand'
    OBVIOUS
  <2>1. CASE UNCHANGED <<req, buffers>>
    BY <2>1 DEF BufferInHand
  <2>2. CASE \/ \E op \in Ops : RequestFails(op) \/ \E enable \in BOOLEAN : Request(op, enable)
             \/ Proceed
    BY <2>2, RequestBuffer DEF ReqInv
  <2>3. CASE \/ \E s \in Sessions : AskRegistration(s) \/ \E ok \in BOOLEAN : ReportRegistration(s, ok)
             \/ \E s \in Sessions, k \in Kinds : SendEvent(s, k)
             \/ ContinueRegistration
             \/ Deliver
             \/ UNCHANGED allVars
    BY <2>1, <2>3 DEF AskRegistration, ReportRegistration, SendEvent, ContinueRegistration, Deliver,
       Forget, reqVars, allVars
  <2> QED
    BY <2>2, <2>3 DEF NextReq
<1>3. BufferInHand => DescriptorBufferFreed
  BY DEF BufferInHand, DescriptorBufferFreed
<1> QED
  BY InitReqInv, NextReqInv, <1>1, <1>2, <1>3, PTL DEF SpecReq, allVars
=============================================================================
