-------------------------- MODULE BasicUsageProofs --------------------------
(***************************************************************************)
(* Theorems about the example: it is one of the careful applications that  *)
(* GattRequests describes, it keeps the value that it writes in order, and *)
(* each of its waits ends with the answer to its own request.              *)
(***************************************************************************)
EXTENDS BasicUsage, GattRequestsProofs

CallLines ==
  {"open", "register", "register_gatt", "notify", "silence", "read", "write",
   "deregister_gatt", "deregister", "close"}

\* Where main stands, and that a request is one that it waits for.
Standing ==
  /\ line \in DOMAIN After \cup {"done", "failed", "any"}
  /\ inCall => line \in CallLines
  /\ line # "any" /\ ~inCall => req = None

\* The value, from the clone of the database to the last write.
ValueInOrder ==
  /\ value \in Blob
  /\ value.data = "null" => value = NoBlob
  /\ line = "fill" => value = NoBlob
  /\ ValueIsSound

MainInv == Standing /\ ValueInOrder

(* What follows what: only the wait for a read is before the filling of    *)
(* the value, and only that is before a write.                             *)
LEMMA AfterFacts ==
  /\ \A l \in DOMAIN After : After[l] \in DOMAIN After \cup {"done"}
  /\ \A l \in DOMAIN After : After[l] = "fill" => l = "await_read"
  /\ \A l \in DOMAIN After : After[l] = "write" => l = "fill"
  /\ CallLines \subseteq DOMAIN After
  /\ "any" \notin DOMAIN After /\ "failed" \notin DOMAIN After
  /\ After["await_read"] = "fill" /\ After["fill"] = "write" /\ After["await_write"] = "disconnect"
  BY DEF After, CallLines

(* main begins at its first call, without a value.                         *)
LEMMA InitMainInv == InitMain => MainInv
  BY DEF InitMain, InitReq, MainInv, Standing, ValueInOrder, ValueIsSound, NoBlob, Blob, After
----------------------------------------------------------------------------
(* main's own calls are calls of GattRequests, the rest of main leaves its *)
(* variables alone.                                                        *)
LEMMA CallMaps ==
  ASSUME Standing, Call
  PROVE  NextReq
  <1>1. line # "any" /\ req = None
    BY DEF Call, SessionCall, RequestCall, Standing, Answers
  <1>2. ASSUME NEW s \in Sessions, SessionCall(s) PROVE AskRegistration(s)
    BY <1>1, <1>2 DEF SessionCall, AskRegistration, Ask
  <1>3. ASSUME RequestCall
        PROVE  \E op \in Ops : RequestFails(op) \/ \E enable \in BOOLEAN : Request(op, enable)
    BY <1>3 DEF RequestCall, Ops, Answers
  <1> QED
    BY <1>2, <1>3 DEF Call, NextReq

(* Every step of the example is a step of a careful application.           *)
LEMMA MainMaps ==
  ASSUME Standing, [NextMain]_everything
  PROVE  [NextReq]_allVars
  <1>1. CASE Main
    <2>1. CASE Call
      BY <2>1, CallMaps
    <2>2. CASE ~Call
      BY <1>1, <2>2 DEF Main, Step, NoSession, Returned, ReadAnswered, Fill, WriteAnswered,
                        AwaitTimeout, allVars
    <2> QED
      BY <2>1, <2>2
  <1>2. CASE \/ ContinueRegistration \/ MainProceed \/ MainDeliver
             \/ \E s \in Sessions, ok \in BOOLEAN : ReportRegistration(s, ok)
             \/ \E s \in Sessions, k \in Kinds : MainAnswer(s, k)
             \/ NextReq
    BY <1>2 DEF NextReq, MainProceed, MainDeliver, MainAnswer
  <1>3. CASE UNCHANGED everything
    BY <1>3 DEF everything, allVars
  <1> QED
    BY <1>1, <1>2, <1>3 DEF NextMain
----------------------------------------------------------------------------
(* main alone goes from line to line.                                      *)
LEMMA MainKeeps ==
  ASSUME MainInv, Main
  PROVE  MainInv'
  <1> USE DEF MainInv, Standing
  <1>1. CASE Step
    <2>1. line \in {"start", "connect", "discover", "database", "find", "disconnect"}
      BY <1>1 DEF Step
    <2>2. Standing'
      BY <1>1, <2>1, AfterFacts DEF Step, Advance, GiveUp, CallLines, After, reqVars
    <2>3. line' # "fill" /\ line' # "write"
      BY <1>1, <2>1, AfterFacts DEF Step, Advance, GiveUp, After
    <2>4. value' \in {NoBlob, [data |-> "live", bytes |-> "cloned"], value}
      BY <1>1 DEF Step
    <2>5. ValueInOrder'
      BY <2>3, <2>4 DEF ValueInOrder, ValueIsSound, NoBlob, Blob
    <2> QED
      BY <2>2, <2>5
  <1>2. CASE Call
    <2>1. line \in CallLines
      BY <1>2 DEF Call, SessionCall, RequestCall, CallLines, Answers
    <2>2. UNCHANGED <<line, value, round>> /\ inCall'
      BY <1>2 DEF Call
    <2> QED
      BY <2>1, <2>2 DEF ValueInOrder, ValueIsSound
  <1>3. CASE NoSession
    <2>1. line \in {"open", "close"} /\ ~inCall /\ UNCHANGED <<req, inCall, value, round>>
      BY <1>3 DEF NoSession, reqVars
    <2>2. line' \in {"done", "failed"}
      BY <1>3 DEF NoSession, Advance, GiveUp, After
    <2> QED
      BY <2>1, <2>2 DEF ValueInOrder, ValueIsSound
  <1>4. CASE Returned
    <2>1. line \in CallLines /\ req' = None /\ ~inCall' /\ UNCHANGED <<value, round>>
      BY <1>4 DEF Returned, reqVars
    <2>2. line' = After[line] \/ line' = "failed"
      BY <1>4 DEF Returned, Advance, GiveUp
    <2>3. Standing'
      BY <2>1, <2>2, AfterFacts DEF CallLines
    <2>4. line' # "fill" /\ line' # "write"
      BY <2>1, <2>2, AfterFacts DEF CallLines
    <2> QED
      BY <2>1, <2>3, <2>4 DEF ValueInOrder, ValueIsSound
  <1>5. CASE ReadAnswered
    <2>1. /\ line' = "fill" /\ value' = freeGattBlob(value)
          /\ ~inCall /\ UNCHANGED <<req, inCall, round>>
      BY <1>5, AfterFacts DEF ReadAnswered, Advance, CallLines, reqVars
    <2>2. value' = NoBlob
      BY <2>1 DEF ValueInOrder, freeGattBlob
    <2>3. Standing'
      BY <1>5, <2>1 DEF ReadAnswered, CallLines, After
    <2> QED
      BY <2>1, <2>2, <2>3 DEF ValueInOrder, ValueIsSound, NoBlob, Blob
  <1>6. CASE Fill
    <2>1. /\ line = "fill" /\ line' = "write"
          /\ ~inCall /\ UNCHANGED <<req, inCall, round>>
      BY <1>6, AfterFacts DEF Fill, Advance, CallLines, reqVars
    <2>2. value' \in {NoBlob, [data |-> "live", bytes |-> States(round)]}
      BY <1>6, <2>1 DEF Fill, setGattBlobFromBytes, ValueInOrder, NoBlob
    <2>3. States(round)' = States(round) /\ States(round) \in {"OFF", "ON"}
      BY <2>1 DEF States
    <2>4. ValueInOrder'
      BY <2>1, <2>2, <2>3 DEF ValueInOrder, ValueIsSound, NoBlob, Blob
    <2>5. Standing'
      BY <2>1, AfterFacts DEF CallLines
    <2> QED
      BY <2>4, <2>5
  <1>7. CASE WriteAnswered
    <2>1. /\ line' \in {"read", "disconnect"} /\ value' = freeGattBlob(value)
          /\ ~inCall /\ UNCHANGED <<req, inCall>>
      BY <1>7, AfterFacts DEF WriteAnswered, Advance, CallLines, reqVars
    <2>2. value' = NoBlob
      BY <2>1 DEF ValueInOrder, freeGattBlob
    <2>3. Standing'
      BY <1>7, <2>1 DEF WriteAnswered, After
    <2> QED
      BY <2>1, <2>2, <2>3 DEF ValueInOrder, ValueIsSound, NoBlob, Blob
  <1>8. CASE AwaitTimeout
    <2>1. /\ line \in {"await_read", "await_write"} /\ line' = "failed"
          /\ UNCHANGED <<req, inCall, value, round>>
      BY <1>8 DEF AwaitTimeout, GiveUp, reqVars
    <2> QED
      BY <2>1 DEF ValueInOrder, ValueIsSound, CallLines
  <1> QED
    BY <1>1, <1>2, <1>3, <1>4, <1>5, <1>6, <1>7, <1>8 DEF Main

(* The others do not touch main, and end no request before its call.       *)
LEMMA OthersKeep ==
  ASSUME MainInv, UNCHANGED <<line, inCall, value, round>>, line # "any" /\ ~inCall => req' = None
  PROVE  MainInv'
  BY DEF MainInv, Standing, ValueInOrder, ValueIsSound, States

(* Every step keeps the place of main and the value in order.              *)
LEMMA NextMainInv ==
  ASSUME MainInv, [NextMain]_everything
  PROVE  MainInv'
  <1>1. CASE Main
    BY <1>1, MainKeeps
  <1>2. CASE \/ Running /\ ContinueRegistration /\ UNCHANGED mainVars
             \/ Running /\ MainDeliver
             \/ Running /\ \E s \in Sessions, ok \in BOOLEAN :
                             ReportRegistration(s, ok) /\ UNCHANGED mainVars
             \/ Running /\ \E s \in Sessions, k \in Kinds : MainAnswer(s, k)
             \/ UNCHANGED everything
    <2>1. UNCHANGED <<req, line, inCall, value, round>>
      BY <1>2 DEF ContinueRegistration, Forget, MainDeliver, Deliver, ReportRegistration, MainAnswer,
                  SendEvent, reqVars, mainVars, everything
    <2> QED
      BY <2>1, OthersKeep DEF MainInv, Standing
  <1>3. CASE Running /\ MainProceed
    <2>1. req # None
      BY <1>3 DEF MainProceed, Proceed, Read, Write, WriteFails, Forward, ForwardFails, Lookup,
                  LookupFails, WriteDescriptor, DescriptorFails, At
    <2>2. UNCHANGED <<line, inCall, value, round>>
      BY <1>3 DEF MainProceed
    <2> QED
      BY <2>1, <2>2, OthersKeep DEF MainInv, Standing
  <1>4. CASE line = "any" /\ NextReq /\ UNCHANGED mainVars
    BY <1>4, OthersKeep DEF mainVars
  <1> QED
    BY <1>1, <1>2, <1>3, <1>4 DEF NextMain

(* So they are in order in every state.                                    *)
LEMMA MainInvariance == SpecMain => []MainInv
  BY InitMainInv, NextMainInv, PTL DEF SpecMain
----------------------------------------------------------------------------
(* main is one of the careful applications: what is proved of these holds  *)
(* for it.                                                                 *)
THEOREM MainIsCareful == SpecMain => SpecReq
  <1>1. InitMain => InitReq
    BY DEF InitMain
  <1>2. MainInv /\ [NextMain]_everything => [NextReq]_allVars
    BY MainMaps DEF MainInv
  <1> QED
    BY <1>1, <1>2, MainInvariance, PTL DEF SpecReq, SpecMain, allVars

(* Neither main's frees nor its sets find a pointer to freed memory, and   *)
(* it writes the bytes of its round or, for want of memory, none.          *)
THEOREM ValueStaysSound == SpecMain => []ValueIsSound
  <1>1. MainInv => ValueIsSound
    BY DEF MainInv, ValueInOrder
  <1> QED
    BY <1>1, MainInvariance, PTL
----------------------------------------------------------------------------
(* Answers: where the answer to a read or a write is on its way to main.   *)

AwaitLine == [read |-> "await_read", write |-> "await_write"]

\* A callback is about to tell the application of an answer.
InHand(k) == cb.pc = "call" /\ cb.kind = k

\* The answer is in one place at most: owed by btmanagerd, among the events,
\* with the callback thread, or noted in a flag.
OnePlace(k) ==
  /\ NoEvent(events, k) \/ \E e \in Event : OnlyEvent(events, k, e)
  /\ k \in owed => NoEvent(events, k) /\ ~InHand(k) /\ k \notin flags
  /\ ~NoEvent(events, k) => ~InHand(k) /\ k \notin flags
  /\ InHand(k) => k \notin flags

\* It is somewhere only from the request that asks for it to the end of the
\* wait for it.
InTurn(k) ==
  Waiting(k) => line = AwaitLine[k] \/ (line = k /\ inCall /\ req = None)

\* A request that is under way is that of main's line.
RequestOfLine ==
  req # None => \/ line \in Answers /\ req.op = line
                \/ line \in {"notify", "silence"} /\ req.op = "notification"

TurnInv == Running => RequestOfLine /\ \A k \in Answers : OnePlace(k) /\ InTurn(k)

\* Lines that are over when main has read and written often enough.
LastLines == {"disconnect", "deregister_gatt", "deregister", "close", "done", "failed"}

RoundInRange ==
  /\ round \in 0 .. Rounds
  /\ line \notin LastLines => round < Rounds
  /\ flags \in SUBSET Answers
  /\ owed \in SUBSET Answers
  /\ inCall \in BOOLEAN

(* What it means that an answer is on its way: set, owed, queued or in hand.*)
LEMMA WaitingIs ==
  ASSUME NEW k
  PROVE  Waiting(k) <=> k \in flags \/ k \in owed \/ ~NoEvent(events, k) \/ InHand(k)
  BY DEF Waiting, NoEvent, IsOf, InHand

(* A step that touches no answer leaves all where they are.                *)
LEMMA AnswersAside ==
  ASSUME NEW k, UNCHANGED <<events, cb, flags, owed>>
  PROVE  OnePlace(k)' = OnePlace(k) /\ Waiting(k)' = Waiting(k)
  BY DEF OnePlace, Waiting, InHand, NoEvent, OnlyEvent, IsOf

(* What follows what, for the lines between which answers come.            *)
LEMMA AnswerLines ==
  /\ Answers = {"read", "write"}
  /\ AwaitLine["read"] = "await_read" /\ AwaitLine["write"] = "await_write"
  /\ After["read"] = "await_read" /\ After["write"] = "await_write"
  /\ \A l \in DOMAIN After : After[l] \in {"await_read", "await_write"} => l \in Answers
  BY DEF Answers, AwaitLine, After

(* main's own steps: an answer is noted before main goes on.               *)
LEMMA MainInTurn ==
  ASSUME TypeOKMain, Standing, TurnInv, Main
  PROVE  TurnInv'
  <1> SUFFICES ASSUME Running' PROVE RequestOfLine' /\ \A k \in Answers : OnePlace(k)' /\ InTurn(k)'
    BY DEF TurnInv
  <1>0. line \in DOMAIN After /\ RequestOfLine /\ \A k \in Answers : OnePlace(k) /\ InTurn(k)
    <2>1. line \notin {"any", "done", "failed"}
      BY DEF Main, Step, Call, SessionCall, RequestCall, NoSession, Returned, ReadAnswered, Fill,
             WriteAnswered, AwaitTimeout, Answers, Standing, CallLines
    <2> QED
      BY <2>1 DEF TurnInv, Running, Ended, Standing
  <1> USE AnswerLines
  <1>1. CASE Step
    <2>1. /\ UNCHANGED <<req, inCall, flags, owed, events, cb>>
          /\ line \notin {"read", "write", "await_read", "await_write", "notify", "silence"}
      BY <1>1 DEF Step, vars, reqVars
    <2>2. \A k \in Answers : ~Waiting(k) /\ OnePlace(k)
      BY <1>0, <2>1 DEF InTurn
    <2>3. req = None
      BY <1>0, <2>1 DEF RequestOfLine
    <2> QED
      BY <2>1, <2>2, <2>3, AnswersAside DEF InTurn, RequestOfLine, None
  <1>2. CASE Call
    <2>1. ~inCall /\ UNCHANGED <<line, flags, owed>>
      BY <1>2 DEF Call
    <2>2. req = None
      BY <1>0, <2>1, AfterFacts DEF Standing
    <2>3. \A k \in Answers : Waiting(k) => line = AwaitLine[k]
      BY <1>0, <2>1 DEF InTurn
    <2>4. CASE RequestCall
      <3>1. line \in {"notify", "silence", "read", "write"} /\ UNCHANGED <<events, cb>>
        BY <2>4 DEF RequestCall, Request, RequestFails, vars
      <3>2. RequestOfLine'
        BY <2>1, <2>4 DEF RequestCall, Request, RequestFails, Finish, RequestOfLine
      <3>3. \A k \in Answers : ~Waiting(k)
        BY <2>3, <3>1
      <3> QED
        BY <1>0, <2>1, <3>1, <3>2, <3>3, AnswersAside DEF InTurn
    <2>5. ASSUME NEW s \in Sessions, SessionCall(s)
          PROVE  RequestOfLine' /\ \A k \in Answers : OnePlace(k)' /\ InTurn(k)'
      <3>1. /\ line \notin {"await_read", "await_write", "read", "write"}
            /\ req' = None /\ cb' = cb
        BY <2>2, <2>5 DEF SessionCall, Forget, OpenSession, CloseSession, AlreadyRegistered, BleRegister,
               BleDeregister, RegisterGattClient, RegisterUnknownSession, DeregisterGattClient
      <3>2. events' = events \/ events' = <<>>
        BY <2>5 DEF SessionCall, OpenSession, CloseSession, AlreadyRegistered, BleRegister,
               BleDeregister, RegisterGattClient, RegisterUnknownSession, DeregisterGattClient
      <3>3. \A k \in Answers : k \notin flags /\ k \notin owed /\ NoEvent(events, k) /\ ~InHand(k)
        BY <2>3, <3>1, WaitingIs
      <3>4. \A k \in Answers : k \notin flags' /\ k \notin owed' /\ NoEvent(events', k) /\ ~InHand(k)'
        BY <2>1, <3>1, <3>2, <3>3, NothingQueued DEF InHand
      <3>5. \A k \in Answers : OnePlace(k)' /\ ~Waiting(k)'
        BY <3>4 DEF OnePlace, Waiting, InHand, NoEvent, IsOf
      <3> QED
        BY <3>1, <3>5 DEF RequestOfLine, InTurn
    <2> QED
      BY <1>2, <2>4, <2>5 DEF Call
  <1>3. CASE NoSession
    <2>1. line' \in {"done", "failed"}
      BY <1>3 DEF NoSession, Advance, GiveUp, After
    <2> QED
      BY <2>1 DEF Running, Ended
  <1>4. CASE Returned
    <2>1. /\ inCall /\ req = None /\ UNCHANGED <<req, events, cb, flags, owed>>
          /\ line' = After[line] \/ line' = "failed"
      BY <1>4 DEF Returned, Advance, GiveUp, vars, reqVars
    <2>2. line' = After[line] /\ line \in CallLines
      BY <1>0, <2>1, AfterFacts DEF Running, Ended, Standing
    <2>3. \A k \in Answers : Waiting(k) => line = k
      <3>1. line \notin {"await_read", "await_write"}
        BY <2>2 DEF CallLines
      <3> QED
        BY <1>0, <3>1 DEF InTurn
    <2>4. \A k \in Answers : Waiting(k)' => line' = AwaitLine[k]
      BY <2>1, <2>2, <2>3, AnswersAside
    <2> QED
      BY <1>0, <2>1, <2>4, AnswersAside DEF InTurn, RequestOfLine
  <1>5. CASE ReadAnswered \/ WriteAnswered
    <2>1. PICK k \in Answers : line = AwaitLine[k] /\ k \in flags /\ flags' = flags \ {k}
      BY <1>5 DEF ReadAnswered, WriteAnswered, ResetFlag
    <2>2. UNCHANGED <<req, owed, events, cb, inCall>> /\ req = None
      BY <1>0, <1>5 DEF ReadAnswered, WriteAnswered, RequestOfLine, vars, reqVars
    <2>3. k \notin owed /\ NoEvent(events, k) /\ ~InHand(k)
      BY <1>0, <2>1 DEF OnePlace
    <2>4. \A l \in Answers : l # k => l \notin flags /\ l \notin owed /\ NoEvent(events, l) /\ ~InHand(l)
      BY <1>0, <2>1, WaitingIs DEF InTurn
    <2>5. \A l \in Answers : l \notin flags' /\ l \notin owed' /\ NoEvent(events', l) /\ ~InHand(l)'
      BY <2>1, <2>2, <2>3, <2>4 DEF InHand
    <2>6. \A l \in Answers : OnePlace(l)' /\ ~Waiting(l)'
      BY <2>5 DEF OnePlace, Waiting, InHand, NoEvent, IsOf
    <2> QED
      BY <2>2, <2>6 DEF InTurn, RequestOfLine
  <1>6. CASE Fill
    <2>1. UNCHANGED <<req, flags, owed, events, cb, inCall>> /\ line = "fill"
      BY <1>6 DEF Fill, vars, reqVars
    <2>2. req = None /\ \A k \in Answers : ~Waiting(k)
      BY <1>0, <2>1 DEF InTurn, RequestOfLine
    <2> QED
      BY <1>0, <2>1, <2>2, AnswersAside DEF InTurn, RequestOfLine
  <1>7. CASE AwaitTimeout
    BY <1>7 DEF AwaitTimeout, GiveUp, Running, Ended
  <1> QED
    BY <1>1, <1>2, <1>3, <1>4, <1>5, <1>6, <1>7 DEF Main

(* A request that goes on: btmanagerd owes an answer once it has accepted  *)
(* the only request of main's line.                                        *)
LEMMA ProceedInTurn ==
  ASSUME TypeOKMain, Standing, TurnInv, Running, MainProceed
  PROVE  TurnInv'
  <1>0. RequestOfLine /\ \A k \in Answers : OnePlace(k) /\ InTurn(k)
    BY DEF TurnInv
  <1>1. /\ UNCHANGED <<line, inCall, flags, events, cb>> /\ req # None
        /\ owed' \in {owed, owed \cup ({req.op} \cap Answers)}
    BY DEF MainProceed, Proceed, Read, Write, WriteFails, Forward, ForwardFails, Lookup,
           LookupFails, WriteDescriptor, DescriptorFails, At, vars
  <1>2. inCall
    BY <1>1 DEF Standing, Running
  <1>3. \A k \in Answers : ~Waiting(k) \/ line = AwaitLine[k]
    BY <1>0, <1>1 DEF InTurn
  <1>4. CASE req' # None
    <2>1. Forward \/ Lookup
      BY <1>4 DEF MainProceed, Proceed, Read, Write, WriteFails, ForwardFails, LookupFails,
                  WriteDescriptor, DescriptorFails, Finish
    <2>2. req.op = "notification" /\ req'.op = req.op
      <3>1. req \in [op : Ops, at : {"call", "lookup", "descriptor"}, enable : BOOLEAN]
        BY <1>1 DEF TypeOKMain, TypeOKReq
      <3> QED
        BY <2>1, <3>1 DEF Forward, Lookup, At
    <2>3. owed' = owed
      BY <1>1, <2>2 DEF Answers
    <2> QED
      BY <1>0, <1>1, <1>3, <2>2, <2>3, AnswersAside DEF TurnInv, InTurn, RequestOfLine, Answers
  <1>5. CASE req' = None
    <2>1. RequestOfLine'
      BY <1>5 DEF RequestOfLine
    <2>2. ASSUME NEW k \in Answers PROVE OnePlace(k)' /\ InTurn(k)'
      <3>1. CASE req.op = k
        <4>1. line = k
          BY <1>0, <1>1, <3>1 DEF RequestOfLine, Answers
        <4>2. ~Waiting(k)
          BY <1>3, <4>1 DEF Answers, AwaitLine
        <4>3. k \notin flags /\ NoEvent(events, k) /\ ~InHand(k)
          BY <4>2, WaitingIs
        <4>4. OnePlace(k)'
          BY <1>1, <4>3 DEF OnePlace, InHand
        <4> QED
          BY <1>1, <1>2, <1>5, <4>1, <4>4 DEF InTurn
      <3>2. CASE req.op # k
        <4>1. k \in owed' <=> k \in owed
          BY <1>1, <3>2
        <4>2. OnePlace(k)' /\ (Waiting(k)' => Waiting(k))
          BY <1>0, <1>1, <4>1 DEF OnePlace, Waiting, InHand
        <4> QED
          BY <1>1, <1>3, <4>2 DEF InTurn
      <3> QED
        BY <3>1, <3>2
    <2> QED
      BY <2>1, <2>2 DEF TurnInv
  <1> QED
    BY <1>4, <1>5

(* The callback thread hands an answer on: from the events to a callback,  *)
(* from the callback to the flag.                                          *)
LEMMA DeliverInTurn ==
  ASSUME TypeOKMain, TurnInv, Running, MainDeliver
  PROVE  TurnInv'
  <1>0. RequestOfLine /\ \A k \in Answers : OnePlace(k) /\ InTurn(k)
    BY DEF TurnInv
  <1>1. UNCHANGED <<line, inCall, owed, req>> /\ Callback
    BY DEF MainDeliver, Deliver, reqVars
  <1>2. RequestOfLine'
    BY <1>0, <1>1 DEF RequestOfLine
  <1>t. events \in Seq(Event)
    BY DEF TypeOKMain, TypeOKReq, TypeOK
  <1>3. ASSUME NEW k \in Answers PROVE OnePlace(k)' /\ (Waiting(k)' => Waiting(k))
    <2> USE <1>0
    <2>1. CASE CbRegistered \/ CbDispatch
      <3>1. /\ events # <<>> /\ events' = Tail(events) /\ flags' = flags
            /\ cb' = cb \/ cb' = Resting \/ (cb'.kind = Head(events).kind /\ cb'.pc = "call")
            /\ cb = Resting
        BY <2>1 DEF MainDeliver, CbRegistered, CbDispatch, Resting
      <3>2. ~InHand(k)
        BY <3>1 DEF InHand, Resting
      <3>3. InHand(k)' => IsOf(Head(events), k)
        BY <3>1 DEF InHand, IsOf, Resting
      <3>4. CASE NoEvent(events, k)
        <4>1. NoEvent(events', k) /\ ~InHand(k)'
          BY <1>t, <3>1, <3>3, <3>4, HeadTaken
        <4>2. OnePlace(k)'
          BY <1>1, <3>1, <4>1 DEF OnePlace
        <4> QED
          BY <1>1, <3>1, <4>1, <4>2, WaitingIs DEF Waiting, NoEvent, IsOf, InHand
      <3>5. CASE ~NoEvent(events, k)
        <4>1. PICK e \in Event : OnlyEvent(events, k, e)
          BY <3>5 DEF OnePlace
        <4>2. k \notin owed /\ k \notin flags
          BY <3>5 DEF OnePlace
        <4>3. Waiting(k)
          BY <3>5, WaitingIs
        <4>4. CASE IsOf(Head(events), k)
          <5>1. NoEvent(events', k)
            BY <1>t, <3>1, <4>1, <4>4, HeadTaken
          <5> QED
            BY <1>1, <3>1, <4>2, <4>3, <5>1 DEF OnePlace
        <4>5. CASE ~IsOf(Head(events), k)
          <5>1. OnlyEvent(events', k, e) /\ ~InHand(k)'
            BY <1>t, <3>1, <3>3, <4>1, <4>5, HeadTaken
          <5> QED
            BY <1>1, <3>1, <4>2, <4>3, <5>1 DEF OnePlace
        <4> QED
          BY <4>4, <4>5
      <3> QED
        BY <3>4, <3>5
    <2>2. CASE CbCall
      <3>1. events' = events /\ cb.pc = "call" /\ cb'.pc # "call"
            /\ flags' \in {flags, flags \cup ({cb.kind} \cap Answers)}
        BY <2>2 DEF MainDeliver, CbCall, Resting
      <3>2. ~InHand(k)'
        BY <3>1 DEF InHand
      <3>3. k \in flags' => k \in flags \/ InHand(k)
        BY <3>1 DEF InHand
      <3>4. OnePlace(k)'
        BY <1>1, <3>1, <3>2, <3>3 DEF OnePlace
      <3> QED
        BY <1>1, <3>1, <3>2, <3>3, <3>4, WaitingIs DEF Waiting, NoEvent, IsOf, InHand
    <2> QED
      BY <1>1, <2>1, <2>2 DEF Callback
  <1> QED
    BY <1>0, <1>1, <1>2, <1>3 DEF TurnInv, InTurn

(* btmanagerd answers what it owes, ace_bt reports on registrations.       *)
LEMMA AceInTurn ==
  ASSUME TypeOKMain, TurnInv, Running,
         \/ \E s \in Sessions, ok \in BOOLEAN : ReportRegistration(s, ok) /\ UNCHANGED mainVars
         \/ \E s \in Sessions, k \in Kinds : MainAnswer(s, k)
  PROVE  TurnInv'
  <1>0. RequestOfLine /\ \A k \in Answers : OnePlace(k) /\ InTurn(k)
    BY DEF TurnInv
  <1>t. events \in Seq(Event)
    BY DEF TypeOKMain, TypeOKReq, TypeOK
  <1>1. PICK e \in Event :
          /\ events' = Append(events, e)
          /\ owed' = owed \ {e.kind}
          /\ e.kind \in Answers => e.kind \in owed
          /\ UNCHANGED <<line, inCall, flags, cb, req>>
    <2>1. ASSUME NEW s \in Sessions, NEW ok \in BOOLEAN, ReportRegistration(s, ok), UNCHANGED mainVars
          PROVE  \E e \in Event : /\ events' = Append(events, e)
                                  /\ owed' = owed \ {e.kind}
                                  /\ e.kind \in Answers => e.kind \in owed
                                  /\ UNCHANGED <<line, inCall, flags, cb, req>>
      <3> DEFINE e == [kind |-> "ble", session |-> s, ok |-> ok]
      <3>1. e \in Event /\ e.kind = "ble"
        BY DEF Event
      <3>2. events' = Append(events, e) /\ UNCHANGED <<line, inCall, flags, cb, req, owed>>
        BY <2>1 DEF ReportRegistration, Report, reqVars, mainVars
      <3> HIDE DEF e
      <3>3. "ble" \notin owed /\ "ble" \notin Answers
        BY DEF TypeOKMain, Answers
      <3> QED
        BY <3>1, <3>2, <3>3
    <2>2. ASSUME NEW s \in Sessions, NEW k \in Kinds, MainAnswer(s, k)
          PROVE  \E e \in Event : /\ events' = Append(events, e)
                                  /\ owed' = owed \ {e.kind}
                                  /\ e.kind \in Answers => e.kind \in owed
                                  /\ UNCHANGED <<line, inCall, flags, cb, req>>
      <3> DEFINE e == [kind |-> k, session |-> s]
      <3>1. e \in Event /\ e.kind = k
        BY DEF Event
      <3>2. events' = Append(events, e) /\ UNCHANGED <<line, inCall, flags, cb, req>>
            /\ owed' = owed \ {k} /\ (k \in Answers => k \in owed)
        BY <2>2 DEF MainAnswer, SendEvent, Send, reqVars, mainVars
      <3> HIDE DEF e
      <3> QED
        BY <3>1, <3>2
    <2> QED
      BY <2>1, <2>2
  <1>2. ASSUME NEW k \in Answers PROVE OnePlace(k)' /\ (Waiting(k)' => Waiting(k))
    <2> USE <1>0
    <2>1. CASE IsOf(e, k)
      <3>1. k \in owed /\ k \notin owed'
        BY <1>1, <2>1 DEF IsOf
      <3>2. NoEvent(events, k) /\ ~InHand(k) /\ k \notin flags
        BY <3>1 DEF OnePlace
      <3>3. OnlyEvent(events', k, e)
        BY <1>t, <1>1, <2>1, <3>2, FirstAdded
      <3>4. OnePlace(k)'
        BY <1>1, <3>1, <3>2, <3>3 DEF OnePlace, InHand
      <3> QED
        BY <3>1, <3>4 DEF Waiting
    <2>2. CASE ~IsOf(e, k)
      <3>1. /\ NoEvent(events, k) => NoEvent(events', k)
            /\ \A f : OnlyEvent(events, k, f) => OnlyEvent(events', k, f)
        BY <1>t, <1>1, <2>2, OtherAdded
      <3>2. UNCHANGED <<flags, cb>> /\ (k \in owed' => k \in owed)
        BY <1>1
      <3>3. OnePlace(k)'
        BY <3>1, <3>2 DEF OnePlace, InHand
      <3>4. Waiting(k)' => k \in flags' \/ k \in owed' \/ ~NoEvent(events', k) \/ InHand(k)'
        BY DEF Waiting, NoEvent, IsOf, InHand
      <3> QED
        BY <3>1, <3>2, <3>3, <3>4, WaitingIs DEF InHand
    <2> QED
      BY <2>1, <2>2
  <1> QED
    BY <1>0, <1>1, <1>2 DEF TurnInv, InTurn, RequestOfLine
----------------------------------------------------------------------------
(* The types of main's variables: main stops its loop in time.             *)
LEMMA LastLinesLast ==
  /\ \A l \in DOMAIN After \cap LastLines : After[l] \in LastLines
  /\ {"done", "failed"} \subseteq LastLines
  /\ {"await_write", "any"} \cap LastLines = {}
  BY DEF After, LastLines

(* main's own steps keep the round in its range.                           *)
LEMMA MainInRange ==
  ASSUME MainInv, RoundInRange, Main
  PROVE  RoundInRange'
  <1> USE DEF RoundInRange
  <1>1. CASE WriteAnswered
    <2>1. /\ line = "await_write" /\ round' = round + 1 /\ UNCHANGED <<owed, inCall>>
          /\ flags' \in SUBSET Answers
      BY <1>1 DEF WriteAnswered, ResetFlag
    <2>2. round' \in 0 .. Rounds /\ round \in 0 .. Rounds
      <3>1. round < Rounds
        BY <2>1, LastLinesLast
      <3> QED
        BY <2>1, <3>1, RoundsAssumption
    <2>3. line' \notin LastLines => round' < Rounds
      BY <1>1, <2>1 DEF WriteAnswered, Advance, After, LastLines
    <2> QED
      BY <2>1, <2>2, <2>3
  <1>2. CASE ~WriteAnswered
    <2>1. round' = round /\ owed' = owed /\ flags' \in SUBSET Answers /\ inCall' \in BOOLEAN
      BY <1>2 DEF Main, Step, Call, NoSession, Returned, ReadAnswered, Fill, AwaitTimeout, ResetFlag
    <2>2. line' \in {line, "failed"} \/ (line \in DOMAIN After /\ line' = After[line])
      <3>1. line # "any"
        BY DEF Main, Step, Call, SessionCall, RequestCall, NoSession, Returned, ReadAnswered, Fill,
               WriteAnswered, AwaitTimeout, Answers, MainInv, Standing, CallLines
      <3>2. line' \in {line, "failed", After[line]}
        BY <1>2 DEF Main, Step, Call, NoSession, Returned, ReadAnswered, Fill, AwaitTimeout,
                    Advance, GiveUp
      <3>3. line' # line => line \notin {"done", "failed"}
        BY DEF Main, Step, Call, SessionCall, RequestCall, NoSession, Returned, ReadAnswered, Fill,
               WriteAnswered, AwaitTimeout, Answers, MainInv, Standing, CallLines
      <3> QED
        BY <3>1, <3>2, <3>3 DEF MainInv, Standing
    <2>3. line \in LastLines => line' \in LastLines
      BY <2>2, LastLinesLast
    <2> QED
      BY <2>1, <2>3
  <1> QED
    BY <1>1, <1>2

(* So does every other step.                                               *)
LEMMA NextInRange ==
  ASSUME MainInv, RoundInRange, TypeOKReq, [NextMain]_everything
  PROVE  RoundInRange'
  <1>1. CASE Main
    BY <1>1, MainInRange
  <1>2. CASE Running /\ MainProceed
    BY <1>2 DEF MainProceed, RoundInRange
  <1>3. CASE Running /\ MainDeliver
    BY <1>3 DEF MainDeliver, RoundInRange
  <1>4. CASE Running /\ \E s \in Sessions, k \in Kinds : MainAnswer(s, k)
    BY <1>4 DEF MainAnswer, RoundInRange
  <1>5. CASE UNCHANGED mainVars
    BY <1>5 DEF mainVars, RoundInRange
  <1> QED
    BY <1>1, <1>2, <1>3, <1>4, <1>5 DEF NextMain, everything

(* The variables keep their types, and main counts no round beyond the     *)
(* last one.                                                               *)
THEOREM MainTypeCorrect == SpecMain => []TypeOKMain
  <1>1. InitMain => RoundInRange
    <2>1. 0 \in 0 .. Rounds /\ 0 < Rounds
      BY RoundsAssumption
    <2> QED
      BY <2>1 DEF InitMain, RoundInRange
  <1>2. ReqInv /\ MainInv /\ RoundInRange => TypeOKMain
    BY DEF ReqInv, MainInv, Standing, ValueInOrder, RoundInRange, TypeOKMain
  <1>3. ReqInv /\ MainInv /\ RoundInRange /\ [NextMain]_everything => RoundInRange'
    BY NextInRange DEF ReqInv
  <1> QED
    BY <1>1, <1>2, <1>3, MainInvariance, MainIsCareful, RequestsInvariance, PTL DEF SpecMain
----------------------------------------------------------------------------
(* An answer that main has not noted is that of the request that it is at, *)
(* although btmanagerd, the events, the callback thread and the flags may  *)
(* each hold one, and although main gives up waiting.                      *)
THEOREM AnswersComeInTurn == SpecMain => []AnswersInTurn
  <1>1. InitMain => TurnInv
    <2>1. ASSUME InitMain, NEW k \in Answers PROVE OnePlace(k) /\ InTurn(k)
      <3>1. NoEvent(events, k)
        BY <2>1, NothingQueued DEF InitMain, InitReq, Init
      <3>2. ~InHand(k) /\ k \notin flags /\ k \notin owed
        BY <2>1 DEF InitMain, InitReq, Init, InHand, Resting
      <3> QED
        BY <3>1, <3>2, WaitingIs DEF OnePlace, InTurn
    <2>2. InitMain => RequestOfLine
      BY DEF InitMain, InitReq, RequestOfLine
    <2> QED
      BY <2>1, <2>2 DEF TurnInv
  <1>2. TypeOKMain /\ MainInv /\ TurnInv /\ [NextMain]_everything => TurnInv'
    <2> SUFFICES ASSUME TypeOKMain, MainInv, TurnInv, [NextMain]_everything PROVE TurnInv'
      OBVIOUS
    <2>0. Standing
      BY DEF MainInv
    <2>1. CASE Main
      BY <2>0, <2>1, MainInTurn
    <2>2. CASE Running /\ MainProceed
      BY <2>0, <2>2, ProceedInTurn
    <2>3. CASE Running /\ MainDeliver
      BY <2>3, DeliverInTurn
    <2>4. CASE Running /\ (\/ \E s \in Sessions, ok \in BOOLEAN :
                                ReportRegistration(s, ok) /\ UNCHANGED mainVars
                           \/ \E s \in Sessions, k \in Kinds : MainAnswer(s, k))
      BY <2>4, AceInTurn
    <2>5. CASE \/ Running /\ ContinueRegistration /\ UNCHANGED mainVars
               \/ UNCHANGED everything
      <3>1. UNCHANGED <<line, inCall, flags, owed, events, cb, req>>
        BY <2>5 DEF ContinueRegistration, Forget, Continue, RegisterAccepted, RegisterRefused,
           RegisterHeard, RegisterTimeout, DeregisterAccepted, DeregisterRefused, ClearFlag,
           StoreData, StoreHandler, StoreFails, TellServer, TellServerFails, ClearData,
           ClearHandler, UntellServer, UntellServerFails, mainVars, everything, vars, reqVars
      <3> QED
        BY <3>1, AnswersAside DEF TurnInv, InTurn, RequestOfLine, Running, Ended
    <2>6. CASE line = "any" /\ UNCHANGED mainVars
      BY <2>6 DEF TurnInv, Running, mainVars
    <2> QED
      BY <2>1, <2>2, <2>3, <2>4, <2>5, <2>6 DEF NextMain
  <1>3. TurnInv => AnswersInTurn
    BY DEF TurnInv, InTurn, AnswersInTurn, Answers, AwaitLine
  <1> QED
    BY <1>1, <1>2, <1>3, MainInvariance, MainTypeCorrect, PTL DEF SpecMain

(* main acts on roles that are so: the calls that its firmware answers in  *)
(* time have told it what ace_bt and btmanagerd know of its session.       *)
THEOREM MainKnowsItsRoles ==
  ASSUME "late" \notin Faults
  PROVE  SpecMain => []RolesAgree
  BY MainIsCareful, KeepsRegistration, RolesAgreeWhenPrompt, PTL
=============================================================================
