----------------------------- MODULE BasicUsage -----------------------------
(***************************************************************************)
(* The example application, examples/basic_usage.c, on top of              *)
(* GattRequests, and the blob of a value that it frees and sets with the   *)
(* library's helpers.                                                      *)
(*                                                                         *)
(* main is a list of calls, each of which must succeed; a loop that reads  *)
(* and writes a characteristic; and four calls whose status it prints.     *)
(* Two flags tell it of the answers: the application's callbacks set them  *)
(* on ace_bt's thread, main looks at them once a second for ten seconds.   *)
(*                                                                         *)
(* line = "any" stands for the other applications that GattRequests        *)
(* describes, so that what is said of those is checked here too.           *)
(***************************************************************************)
EXTENDS GattRequests

CONSTANT Rounds  \* how often main reads and writes: 20 in the code

ASSUME RoundsAssumption == Rounds \in Nat \ {0}

VARIABLES
  line,    \* the call of main that is next or under way
  inCall,  \* is it under way?
  flags,   \* which of read_characteristic and wrote_characteristic are set
  owed,    \* the requests that btmanagerd has to answer
  value,   \* the blob of the characteristic's value
  round    \* i

mainVars == <<line, inCall, flags, owed, value, round>>
everything == <<vars, reqVars, mainVars>>

\* What follows when all is well: the calls, and the three places between.
After ==
  [start |-> "open", open |-> "register", register |-> "register_gatt",
   register_gatt |-> "connect", connect |-> "discover", discover |-> "database",
   database |-> "find", find |-> "notify", notify |-> "silence", silence |-> "read",
   read |-> "await_read", await_read |-> "fill", fill |-> "write", write |-> "await_write",
   await_write |-> "disconnect", disconnect |-> "deregister_gatt",
   deregister_gatt |-> "deregister", deregister |-> "close", close |-> "done"]

Answers == {"read", "write"}

Blob == [data : {"null", "live", "dangling"}, bytes : {"nothing", "cloned", "OFF", "ON"}]

Ended == line \in {"done", "failed"}

TypeOKMain ==
  /\ TypeOKReq
  /\ line \in DOMAIN After \cup {"done", "failed", "any"}
  /\ inCall \in BOOLEAN
  /\ flags \in SUBSET Answers
  /\ owed \in SUBSET Answers
  /\ value \in Blob
  /\ round \in 0 .. Rounds
----------------------------------------------------------------------------
(* The blob of a value: its data, and the bytes that its size promises.    *)

NoBlob == [data |-> "null", bytes |-> "nothing"]

\* Broken: the pointer is left.
FreeOnly(v) == IF v.data = "null" THEN v ELSE [v EXCEPT !.data = "dangling"]

freeGattBlob(v) == IF v.data = "null" THEN v ELSE NoBlob

\* The result r: the old data is freed, then there is memory for the new one,
\* or the pointer still points to the old one.
setGattBlobFromBytes(v, bytes, r) ==
  \/ r = [data |-> "live", bytes |-> bytes]
  \/ MayFail("memory") /\ r = IF v.data = "null" THEN v ELSE [v EXCEPT !.data = "dangling"]

States(i) == IF i % 2 = 0 THEN "OFF" ELSE "ON"
----------------------------------------------------------------------------
(* main *)

InitMain ==
  /\ InitReq
  /\ line \in {"start", "any"}
  /\ inCall = FALSE
  /\ flags = {}
  /\ owed = {}
  /\ value = NoBlob
  /\ round = 0

Advance == line' = After[line]

GiveUp == line' = "failed"

\* Calls that either succeed or not, and that other modules look into. The
\* clone of the database brings a first value with it.
Step ==
  /\ line \in {"start", "connect", "discover", "database", "find", "disconnect"}
  /\ Advance \/ (line # "disconnect" /\ MayFail("refuse") /\ GiveUp)
  /\ value' \in IF line = "database" THEN {NoBlob, [data |-> "live", bytes |-> "cloned"]} ELSE {value}
  /\ UNCHANGED <<vars, reqVars, inCall, flags, owed, round>>

\* gatt_app_callbacks
MainCallbacks == {"notify", "read", "write"}

\* The calls on the session.
SessionCall(s) ==
  /\ \/ line = "open" /\ OpenSession(s)
     \/ line = "register" /\ (BleRegister(s) \/ AlreadyRegistered(s))
     \/ line = "register_gatt" /\ (RegisterGattClient(s) \/ RegisterUnknownSession(s))
          /\ s \in open /\ appCbs' = MainCallbacks
     \/ line = "deregister_gatt" /\ DeregisterGattClient(s)
     \/ line = "deregister" /\ BleDeregister(s)
     \/ line = "close" /\ CloseSession(s)
  /\ Forget

RequestCall ==
  \/ line \in {"notify", "silence"}
       /\ (Request("notification", line = "notify") \/ RequestFails("notification"))
  \/ line \in Answers /\ (Request(line, FALSE) \/ RequestFails(line))

Call ==
  /\ ~inCall
  /\ inCall' = TRUE
  /\ (\E s \in Sessions : SessionCall(s)) \/ RequestCall
  /\ UNCHANGED <<line, flags, owed, value, round>>

\* openSession fails; or closeSession is called for a session that could not
\* be deregistered, and the process ends with it.
NoSession ==
  /\ \/ line = "open" /\ ~inCall /\ MayFail("refuse") /\ GiveUp
     \/ line = "close" /\ ~inCall /\ (\E s \in open : roles[s] # {}) /\ Advance
  /\ UNCHANGED <<vars, reqVars, inCall, flags, owed, value, round>>

\* What main takes for success.
Succeeded ==
  CASE line = "register" -> \E s \in open : "ble" \in roles[s]
    [] line = "register_gatt" -> \E s \in open : "gatt" \in roles[s]
    [] line \in {"notify", "silence", "read", "write"} -> status = "OK"
    [] OTHER -> TRUE

Returned ==
  /\ inCall
  /\ pc = "idle"
  /\ req = None
  /\ inCall' = FALSE
  /\ IF Succeeded THEN Advance ELSE GiveUp
  /\ UNCHANGED <<vars, reqVars, flags, owed, value, round>>

\* Broken: the flag is not reset.
KeepFlag(k) == UNCHANGED flags

ResetFlag(k) == flags' = flags \ {k}

\* Between the reading and the writing the blob is freed and set anew.
ReadAnswered ==
  /\ line = "await_read"
  /\ "read" \in flags
  /\ ResetFlag("read")
  /\ value' = freeGattBlob(value)
  /\ Advance
  /\ UNCHANGED <<vars, reqVars, inCall, owed, round>>

Fill ==
  /\ line = "fill"
  /\ \E r \in Blob : setGattBlobFromBytes(value, States(round), r) /\ value' = r
  /\ Advance
  /\ UNCHANGED <<vars, reqVars, inCall, flags, owed, round>>

WriteAnswered ==
  /\ line = "await_write"
  /\ "write" \in flags
  /\ ResetFlag("write")
  /\ value' = freeGattBlob(value)
  /\ round' = round + 1
  /\ IF round' < Rounds THEN line' = "read" ELSE Advance
  /\ UNCHANGED <<vars, reqVars, inCall, owed>>

\* Broken: looks at the flag for ever.
NoPatience == FALSE

\* Ten looks at the flag, and none has found it set.
AwaitTimeout ==
  /\ \/ line = "await_read" /\ "read" \notin flags
     \/ line = "await_write" /\ "write" \notin flags
  /\ MayFail("late")
  /\ GiveUp
  /\ UNCHANGED <<vars, reqVars, inCall, flags, owed, value, round>>

Main == Step \/ Call \/ NoSession \/ Returned \/ ReadAnswered \/ Fill \/ WriteAnswered \/ AwaitTimeout
----------------------------------------------------------------------------
(* The library, ace_bt and btmanagerd while main runs *)

\* A read or a write that btmanagerd has accepted will be answered.
MainProceed ==
  /\ Proceed
  /\ owed' = owed \cup (IF status' = "OK" THEN {req.op} \cap Answers ELSE {})
  /\ UNCHANGED <<line, inCall, flags, value, round>>

\* The application's callbacks: those of answers set a flag.
MainDeliver ==
  /\ Deliver
  /\ flags' = IF cb.pc = "call" /\ cb' = Resting THEN flags \cup ({cb.kind} \cap Answers) ELSE flags
  /\ UNCHANGED <<line, inCall, owed, value, round>>

MainAnswer(s, k) ==
  /\ k \in Answers => k \in owed
  /\ SendEvent(s, k)
  /\ owed' = owed \ {k}
  /\ UNCHANGED <<line, inCall, flags, value, round>>

Running == line # "any" /\ ~Ended

NextMain ==
  \/ Main
  \/ Running /\ ContinueRegistration /\ UNCHANGED mainVars
  \/ Running /\ MainProceed
  \/ Running /\ MainDeliver
  \/ Running /\ \E s \in Sessions, ok \in BOOLEAN : ReportRegistration(s, ok) /\ UNCHANGED mainVars
  \/ Running /\ \E s \in Sessions, k \in Kinds : MainAnswer(s, k)
  \/ Ended /\ UNCHANGED everything
  \/ line = "any" /\ NextReq /\ UNCHANGED mainVars

SpecMain == InitMain /\ [][NextMain]_everything

(***************************************************************************)
(* As in Registration; and main's thread keeps running, in main or in the  *)
(* library. That btmanagerd answers a read or a write is not assumed.      *)
(***************************************************************************)
FairnessMain ==
  /\ WF_everything(Main)
  /\ WF_everything(Running /\ MainProceed)
  /\ WF_everything(~Ended /\ ContinueRegistration /\ UNCHANGED mainVars)
  /\ WF_everything(Running /\ MainDeliver)
  /\ WF_everything(line = "any" /\ Deliver /\ UNCHANGED mainVars)
  /\ \A s \in Sessions :
       SF_everything(~Ended /\ (\E ok \in BOOLEAN : ReportRegistration(s, ok)) /\ UNCHANGED mainVars)

FairSpecMain == SpecMain /\ FairnessMain
----------------------------------------------------------------------------
\* An answer that main has not taken note of.
Waiting(k) ==
  \/ k \in flags \cup owed
  \/ \E i \in 1 .. Len(events) : events[i].kind = k
  \/ cb.pc = "call" /\ cb.kind = k

(* An answer that main has not taken note of is that of the request that   *)
(* it is at: no wait ends with the flag of an earlier answer, and none is  *)
(* on its way while main reads or writes the next time.                    *)
AnswersInTurn ==
  Running =>
    /\ Waiting("read") => line \in {"read", "await_read"}
    /\ Waiting("write") => line \in {"write", "await_write"}

(* Neither freeing nor setting the value finds a pointer to freed memory,  *)
(* and bleWriteCharacteristic sends the bytes of its round, or nothing     *)
(* when there was no memory for them.                                      *)
ValueIsSound ==
  /\ value.data # "dangling"
  /\ line = "write" => value \in {NoBlob, [data |-> "live", bytes |-> States(round)]}

(* main ends, whatever fails and whether its requests are answered or not. *)
MainEnds == Running ~> Ended
============================================================================
