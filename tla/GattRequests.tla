---------------------------- MODULE GattRequests ----------------------------
(***************************************************************************)
(* bleReadCharacteristic, bleWriteCharacteristic, bleWriteDescriptor and   *)
(* bleSetNotification before 5.17, on top of Registration.                 *)
(*                                                                         *)
(* Each is one AIPC call to btmanagerd, except bleSetNotification, which   *)
(* is two: it first has btmanagerd forward the notifications of the        *)
(* characteristic, then has the device send them by a write to a           *)
(* descriptor (the CCCD). The answers come as events. Writes are           *)
(* serialised to a buffer that ace_bt allocates and KindleBT must free.    *)
(*                                                                         *)
(* There is one device with one characteristic, and the application makes  *)
(* requests while it is a GATT client. The descriptors that it writes      *)
(* itself, with bleWriteDescriptor, are others than the CCCD.              *)
(***************************************************************************)
EXTENDS Registration, FiniteSets

CONSTANT RequestFaults  \* what may go wrong with a request

\* "refuse": an AIPC call fails; "device": the device rejects a descriptor;
\* "memory": no buffer; "descriptor": the characteristic has no CCCD.
ASSUME RequestsAssumption == RequestFaults \subseteq {"refuse", "device", "memory", "descriptor", "late"}

VARIABLES
  req,      \* the request that the application's thread is in
  status,   \* what the last request returned
  buffers,  \* the requests whose buffer has not been freed
  told,     \* what the calls have told the application of notifications
  forward,  \* does btmanagerd forward the notifications?
  cccd      \* does the device send them?

reqVars == <<req, status, buffers, told, forward, cccd>>

Ops == {"read", "write", "descriptor", "notification"}

None == [op |-> "none"]

TypeOKReq ==
  /\ TypeOK
  /\ req = None \/ req \in [op : Ops, at : {"call", "lookup", "descriptor"}, enable : BOOLEAN]
  /\ status \in {"none", "OK", "ERROR"}
  /\ buffers \in SUBSET Ops
  /\ told \in {"on", "off", "unsure"}
  /\ forward \in BOOLEAN
  /\ cccd \in BOOLEAN

InitReq ==
  /\ Init
  /\ req = None
  /\ status = "none"
  /\ buffers = {}
  /\ told = "off"
  /\ forward = FALSE
  /\ cccd = FALSE
----------------------------------------------------------------------------
(* The requests *)

MayFail(f) == f \in RequestFaults

Finish(st) == req' = None /\ status' = st

\* What a request says of notifications when it ends.
Tell(t) == told' = IF req.op = "notification" THEN t ELSE told

Client == pc = "idle" /\ req = None /\ \E s \in Sessions : "gatt" \in roles[s]

\* getSessionInfo fails, or a write cannot be serialised.
RequestFails(op) ==
  /\ Client
  /\ MayFail("refuse") \/ (op \in {"write", "descriptor"} /\ MayFail("memory"))
  /\ Finish("ERROR")
  /\ UNCHANGED <<vars, buffers, told, forward, cccd>>

\* The request is serialised, that of a write to a buffer.
Request(op, enable) ==
  /\ Client
  /\ req' = [op |-> op, at |-> IF op = "descriptor" THEN op ELSE "call", enable |-> enable]
  /\ buffers' = buffers \cup ({op} \cap {"write", "descriptor"})
  /\ UNCHANGED <<vars, status, told, forward, cccd>>

At(op, stage) == req # None /\ req.op = op /\ req.at = stage

Read ==
  /\ At("read", "call")
  /\ \E st \in {"OK"} \cup (IF MayFail("refuse") THEN {"ERROR"} ELSE {}) : Finish(st)
  /\ UNCHANGED <<vars, buffers, told, forward, cccd>>

Write ==
  /\ At("write", "call")
  /\ Finish("OK")
  /\ buffers' = buffers \ {"write"}
  /\ UNCHANGED <<vars, told, forward, cccd>>

\* Returns before the buffer is freed.
WriteFails ==
  /\ At("write", "call")
  /\ MayFail("refuse")
  /\ Finish("ERROR")
  /\ UNCHANGED <<vars, buffers, told, forward, cccd>>

\* The first call of bleSetNotification.
Forward ==
  /\ At("notification", "call")
  /\ forward' = req.enable
  /\ req' = [req EXCEPT !.at = "lookup"]
  /\ UNCHANGED <<vars, status, buffers, told, cccd>>

ForwardFails ==
  /\ At("notification", "call")
  /\ MayFail("refuse")
  /\ Finish("ERROR")
  /\ Tell("unsure")
  /\ UNCHANGED <<vars, buffers, forward, cccd>>

\* The CCCD is in the list of descriptors. Its value is a blob that nobody
\* frees; bleWriteDescriptor serialises it to a buffer of its own.
Lookup ==
  /\ At("notification", "lookup")
  /\ req' = [req EXCEPT !.at = "descriptor"]
  /\ buffers' = buffers \cup {"notification", "descriptor"}
  /\ UNCHANGED <<vars, status, told, forward, cccd>>

\* It is not, or there is no memory for the value; or bleWriteDescriptor gets
\* no session or no buffer, and the value stays behind.
LookupFails ==
  /\ At("notification", "lookup")
  /\ \/ MayFail("descriptor") /\ UNCHANGED buffers
     \/ MayFail("memory") /\ UNCHANGED buffers
     \/ MayFail("memory") /\ buffers' = buffers \cup {"notification"}
     \/ MayFail("refuse") /\ buffers' = buffers \cup {"notification"}
  /\ Finish("ERROR")
  /\ Tell("unsure")
  /\ UNCHANGED <<vars, forward, cccd>>

\* Broken: writes the value that switches notifications on.
WrittenOn == cccd' = IF req.op = "notification" THEN TRUE ELSE cccd

Written == cccd' = IF req.op = "notification" THEN req.enable ELSE cccd

WriteDescriptor ==
  /\ At("descriptor", "descriptor") \/ At("notification", "descriptor")
  /\ Written
  /\ Finish("OK")
  /\ Tell(IF req.enable THEN "on" ELSE "off")
  /\ buffers' = buffers \ {"descriptor"}
  /\ UNCHANGED <<vars, forward>>

\* Broken: does not look at the status in the answer.
DescriptorFailsUnseen ==
  /\ At("descriptor", "descriptor") \/ At("notification", "descriptor")
  /\ MayFail("refuse") \/ MayFail("device")
  /\ Finish("OK")
  /\ Tell(IF req.enable THEN "on" ELSE "off")
  /\ buffers' = buffers \ {"descriptor"}
  /\ UNCHANGED <<vars, forward, cccd>>

\* Broken: returns before the buffer is freed, as a write does.
DescriptorFailsEarly ==
  /\ At("descriptor", "descriptor") \/ At("notification", "descriptor")
  /\ MayFail("refuse") \/ MayFail("device")
  /\ Finish("ERROR")
  /\ Tell("unsure")
  /\ UNCHANGED <<vars, buffers, forward, cccd>>

\* The AIPC call fails, or brings back that the device did not accept it.
DescriptorFails ==
  /\ At("descriptor", "descriptor") \/ At("notification", "descriptor")
  /\ MayFail("refuse") \/ MayFail("device")
  /\ Finish("ERROR")
  /\ Tell("unsure")
  /\ buffers' = buffers \ {"descriptor"}
  /\ UNCHANGED <<vars, forward, cccd>>

Proceed ==
  \/ Read \/ Write \/ WriteFails
  \/ Forward \/ ForwardFails \/ Lookup \/ LookupFails
  \/ WriteDescriptor \/ DescriptorFails
----------------------------------------------------------------------------
(* Registration, with what it means for notifications: btmanagerd forwards *)
(* none to a client that has deregistered.                                 *)

Forget ==
  /\ forward' = (forward /\ \E s \in Sessions : server'[s] # {})
  /\ told' = IF server' # server /\ told = "on" THEN "unsure" ELSE told
  /\ UNCHANGED <<req, status, buffers, cccd>>

AskRegistration(s) == Ask(s) /\ req = None /\ Forget
ContinueRegistration == Continue /\ Forget
Deliver == Callback /\ UNCHANGED reqVars
ReportRegistration(s, ok) == Report(s, ok) /\ UNCHANGED reqVars
SendEvent(s, k) == (k = "notify" => forward /\ cccd) /\ Send(s, k) /\ UNCHANGED reqVars

NextReq ==
  \/ \E op \in Ops : RequestFails(op) \/ \E enable \in BOOLEAN : Request(op, enable)
  \/ Proceed
  \/ \E s \in Sessions : AskRegistration(s) \/ \E ok \in BOOLEAN : ReportRegistration(s, ok)
  \/ \E s \in Sessions, k \in Kinds : SendEvent(s, k)
  \/ ContinueRegistration
  \/ Deliver

SpecReq == InitReq /\ [][NextReq]_<<vars, reqVars>>

FairnessReq ==
  /\ WF_<<vars, reqVars>>(ContinueRegistration)
  /\ WF_<<vars, reqVars>>(Deliver)
  /\ \A s \in Sessions : SF_<<vars, reqVars>>(\E ok \in BOOLEAN : ReportRegistration(s, ok))

FairSpecReq == SpecReq /\ FairnessReq
----------------------------------------------------------------------------
(* When bleSetNotification has said that notifications are on, every link  *)
(* of their way is there: the device sends them, btmanagerd forwards them  *)
(* to a client that asked for them, and ace_bt knows whom to call.         *)
NotificationsFlow ==
  told = "on" /\ pc = "idle" /\ req = None =>
    /\ cccd
    /\ forward
    /\ \E s \in open \cap handler \cap clientData : "notify" \in server[s]

(* When it has said that they are off, neither the device nor btmanagerd   *)
(* is set to send any.                                                     *)
NotificationsStop == told = "off" /\ req = None => ~cccd /\ ~forward

(* The buffer of a descriptor is freed when bleWriteDescriptor returns,    *)
(* whatever it returns and whoever called it.                              *)
DescriptorBufferFreed == req = None => "descriptor" \notin buffers
============================================================================
