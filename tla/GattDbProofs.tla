---------------------------- MODULE GattDbProofs ----------------------------
(***************************************************************************)
(* Theorems about GattDb, for any handles, variables and bounds: its types;*)
(* that only the failing clone leaves the mutex of a context locked; that  *)
(* an application which keeps its variables has no other memory written    *)
(* to, however late the answers come; and what OK means without stray      *)
(* answers.                                                                *)
(***************************************************************************)
EXTENDS GattDb, SequenceTheorems, TLAPS

Event == [call : Calls, handle : Handles, ok : BOOLEAN]

(* The types hold at first.                                                *)
LEMMA InitTypes == Init => TypeOK
  <1> SUFFICES ASSUME Init PROVE TypeOK
    OBVIOUS
  <1>1. events \in Seq(Event)
    BY DEF Init
  <1>2. PICK h \in Handles : ctx = Fresh(h)
    BY DEF Init
  <1>3. ctx \in Context /\ ctx.handle \in Handles
    BY <1>2 DEF Fresh, Context
  <1> QED
    BY <1>1, <1>3 DEF Init, TypeOK, Event

(* The application's side: its calls, and what it does between them.       *)
LEMMA AppTypes ==
  ASSUME TypeOK,
         \/ \E h \in Handles : NoContext(h)
         \/ \E v \in Vars : GetDatabase(v) \/ Retire(v)
         \/ Discover \/ Reconnect \/ CallBack \/ CallBackReturns
         \/ Continue
  PROVE  TypeOK'
  <1> USE DEF TypeOK, Goto, Return, Calls
  <1>1. CASE \E h \in Handles : NoContext(h)
    BY <1>1 DEF NoContext
  <1>2. CASE \E v \in Vars : GetDatabase(v) \/ Retire(v)
    BY <1>2 DEF GetDatabase, Retire
  <1>3. CASE Discover \/ CallBack \/ CallBackReturns
    BY <1>3 DEF Discover, CallBack, CallBackReturns, appVars
  <1>4. CASE Reconnect
    <2>1. ctx' \in Context
      BY <1>4 DEF Reconnect, Fresh, Context
    <2>2. asked' \in SUBSET Request
      BY <1>4 DEF Reconnect
    <2>3. UNCHANGED <<var, status, alive, filled, events, known, cb>> /\ made' = {}
          /\ pc' = "connecting"
      BY <1>4 DEF Reconnect
    <2>4. pc' # "connecting" => ctx'.handle \in Handles
      BY <2>3
    <2> QED
      BY <2>1, <2>2, <2>3, <2>4
  <1>5. CASE RequestDiscovery \/ RequestDatabase
    <2>1. ctx.handle \in Handles
      BY <1>5 DEF RequestDiscovery, RequestDatabase
    <2>2. \A call \in Calls : [call |-> call, handle |-> ctx.handle] \in Request
      BY <2>1 DEF Request
    <2>3. asked' \in SUBSET Request
      BY <1>5, <2>2 DEF RequestDiscovery, RequestDatabase, Ask
    <2> QED
      BY <1>5, <2>3 DEF RequestDiscovery, RequestDatabase, Ask
  <1>6. CASE StorePointers
    <2>1. ctx' \in Context /\ ctx'.handle = ctx.handle
      BY <1>6 DEF StorePointers, Context
    <2> QED
      BY <1>6, <2>1 DEF StorePointers
  <1>7. CASE DiscoveryLost \/ Refused \/ Discovered \/ Retrieved \/ Timeout
    BY <1>7 DEF DiscoveryLost, Refused, Discovered, Retrieved, Timeout
  <1>8. CASE Connected
    <2>1. ctx' \in Context /\ ctx'.handle \in Handles
      BY <1>8 DEF Connected, Context
    <2> QED
      BY <1>8, <2>1 DEF Connected
  <1> QED
    BY <1>1, <1>2, <1>3, <1>4, <1>5, <1>6, <1>7, <1>8 DEF Continue

(* A callback that has found its context has a call to answer.             *)
LEMMA FoundRecord ==
  ASSUME TypeOK, cb.pc = "found"
  PROVE  cb \in [pc : {"found", "locked"}, call : Calls]
  <1>1. Resting.pc # "found" /\ Calling.pc # "found"
    BY DEF Resting, Calling
  <1> QED
    BY <1>1 DEF TypeOK

(* The callbacks, and the answers that bring them about.                   *)
LEMMA CallbackTypes ==
  ASSUME TypeOK,
         CbFind \/ CbLock \/ CbDiscovered \/ CbRetrieved \/ CbCloneFails
         \/ \E r \in Request : Answer(r) \/ NoAnswer(r)
  PROVE  TypeOK'
  <1>1. CASE CbFind
    <2>1. events \in Seq(Event) /\ events # <<>> /\ events' = Tail(events)
      BY <1>1 DEF CbFind, TypeOK, Event
    <2>2. Head(events) \in Event /\ events' \in Seq(Event)
      BY <2>1, HeadTailProperties
    <2>3. cb' \in {Resting, [pc |-> "found", call |-> Head(events).call]}
      BY <1>1 DEF CbFind
    <2>4. [pc |-> "found", call |-> Head(events).call] \in [pc : {"found", "locked"}, call : Calls]
      BY <2>2 DEF Event
    <2>5. cb' \in {Resting, Calling} \cup [pc : {"found", "locked"}, call : Calls]
      BY <2>3, <2>4
    <2>6. UNCHANGED <<ctx, appVars, filled, asked, known>>
      BY <1>1 DEF CbFind
    <2> QED
      BY <2>2, <2>5, <2>6 DEF TypeOK, Event, appVars
  <1>2. CASE CbLock
    <2>1. ctx' \in Context /\ cb' = [cb EXCEPT !.pc = "locked"] /\ cb.pc = "found"
          /\ ctx'.handle = ctx.handle
      BY <1>2 DEF CbLock, TypeOK, Context
    <2>2. cb \in [pc : {"found", "locked"}, call : Calls]
      BY <2>1, FoundRecord
    <2>3. cb' \in [pc : {"found", "locked"}, call : Calls]
      BY <2>1, <2>2
    <2> QED
      BY <1>2, <2>1, <2>3 DEF CbLock, TypeOK, appVars
  <1>3. CASE CbDiscovered \/ CbRetrieved \/ CbCloneFails
    <2>1. ctx' \in Context /\ cb' = Resting /\ ctx'.handle = ctx.handle
      BY <1>3 DEF CbDiscovered, CbRetrieved, CbCloneFails, TypeOK, Context
    <2>2. filled' \in BOOLEAN
      BY <1>3 DEF CbDiscovered, CbRetrieved, CbCloneFails, TypeOK, Context
    <2> QED
      BY <1>3, <2>1, <2>2 DEF CbDiscovered, CbRetrieved, CbCloneFails, TypeOK, appVars
  <1>4. ASSUME NEW r \in Request, Answer(r) PROVE TypeOK'
    <2>1. PICK ok \in BOOLEAN :
            /\ events' = Append(events, [call |-> r.call, handle |-> r.handle, ok |-> ok])
            /\ known' = (known \/ (ok /\ r.call = "discover" /\ r.handle = ctx.handle))
      BY <1>4 DEF Answer
    <2>4. known' \in BOOLEAN
      BY <2>1 DEF TypeOK
    <2>2. [call |-> r.call, handle |-> r.handle, ok |-> ok] \in Event
      BY <1>4 DEF Request, Event
    <2>3. events' \in Seq(Event)
      BY <2>1, <2>2, AppendProperties DEF TypeOK, Event
    <2> QED
      BY <1>4, <2>3, <2>4 DEF Answer, TypeOK, Event, appVars
  <1>5. ASSUME NEW r \in Request, NoAnswer(r) PROVE TypeOK'
    BY <1>5 DEF NoAnswer, TypeOK, appVars
  <1> QED
    BY <1>1, <1>2, <1>3, <1>4, <1>5

(* Every step keeps the types.                                             *)
LEMMA NextTypes == TypeOK /\ [Next]_vars => TypeOK'
  <1> SUFFICES ASSUME TypeOK, [Next]_vars PROVE TypeOK'
    OBVIOUS
  <1>1. CASE UNCHANGED vars
    BY <1>1 DEF vars, appVars, TypeOK
  <1>2. CASE Next
    BY <1>2, AppTypes, CallbackTypes DEF Next, Callback
  <1> QED
    BY <1>1, <1>2

(* The variables keep their types, whatever fails.                         *)
THEOREM TypeCorrect == Spec => []TypeOK
  BY InitTypes, NextTypes, PTL DEF Spec
----------------------------------------------------------------------------
(* Calls do not touch the mutex, and a new context has one that is free.   *)
LEMMA AppLock ==
  ASSUME TypeOK, NoOrphanedLock,
         \/ \E h \in Handles : NoContext(h)
         \/ \E v \in Vars : GetDatabase(v) \/ Retire(v)
         \/ Discover \/ Reconnect \/ CallBack \/ CallBackReturns
         \/ Continue
         \/ \E r \in Request : Answer(r) \/ NoAnswer(r)
  PROVE  NoOrphanedLock'
  <1>1. CASE Reconnect
    <2>1. ~ctx'.held
      BY <1>1 DEF Reconnect, Fresh
    <2> QED
      BY <2>1 DEF NoOrphanedLock
  <1>2. CASE CallBack \/ CallBackReturns
    <2>1. ~ctx.held
      BY <1>2 DEF CallBack, CallBackReturns, NoOrphanedLock, Resting, Calling
    <2> QED
      BY <1>2, <2>1 DEF CallBack, CallBackReturns, NoOrphanedLock
  <1>3. CASE StorePointers \/ Connected
    <2>1. ctx'.held = ctx.held /\ UNCHANGED cb
      BY <1>3 DEF StorePointers, Connected, TypeOK, Context
    <2> QED
      BY <2>1 DEF NoOrphanedLock
  <1>4. CASE ~Reconnect /\ ~CallBack /\ ~CallBackReturns /\ ~StorePointers /\ ~Connected
    <2>1. UNCHANGED <<ctx, cb>>
      BY <1>4 DEF NoContext, GetDatabase, Retire, Discover, Continue, RequestDiscovery,
         DiscoveryLost, RequestDatabase, Refused, Discovered, Retrieved, Timeout, Answer, NoAnswer
    <2> QED
      BY <2>1 DEF NoOrphanedLock
  <1> QED
    BY <1>1, <1>2, <1>3, <1>4

(* A callback locks a free mutex, and all its ways out but one unlock it.  *)
LEMMA CallbackLock ==
  ASSUME TypeOK, NoOrphanedLock, "clone" \notin Faults,
         CbFind \/ CbLock \/ CbDiscovered \/ CbRetrieved \/ CbCloneFails
  PROVE  NoOrphanedLock'
  <1>1. CASE CbFind
    BY <1>1 DEF CbFind, NoOrphanedLock
  <1>2. CASE CbLock
    <2>1. cb \in [pc : {"found", "locked"}, call : Calls]
      BY <1>2, FoundRecord DEF CbLock
    <2>2. cb'.pc = "locked"
      BY <1>2, <2>1 DEF CbLock
    <2> QED
      BY <2>2 DEF NoOrphanedLock, Resting
  <1>3. CASE CbDiscovered \/ CbRetrieved
    <2>1. ~ctx'.held
      BY <1>3 DEF CbDiscovered, CbRetrieved, TypeOK, Context
    <2> QED
      BY <2>1 DEF NoOrphanedLock
  <1>4. CASE CbCloneFails
    BY <1>4 DEF CbCloneFails
  <1> QED
    BY <1>1, <1>2, <1>3, <1>4

(* Without a clone that fails, the mutex is locked only while a callback   *)
(* works on the context: repeated and late calls, lost requests and new    *)
(* connections orphan no lock.                                             *)
THEOREM LockReleased ==
  ASSUME "clone" \notin Faults
  PROVE  Spec => []NoOrphanedLock
  <1>1. Init => NoOrphanedLock
    BY DEF Init, Fresh, NoOrphanedLock
  <1>2. TypeOK /\ NoOrphanedLock /\ [Next]_vars => NoOrphanedLock'
    <2> SUFFICES ASSUME TypeOK, NoOrphanedLock, [Next]_vars PROVE NoOrphanedLock'
      OBVIOUS
    <2>1. CASE UNCHANGED vars
      BY <2>1 DEF vars, NoOrphanedLock
    <2>2. CASE Next
      BY <2>2, AppLock, CallbackLock DEF Next, Callback
    <2> QED
      BY <2>1, <2>2
  <1> QED
    BY <1>1, <1>2, TypeCorrect, PTL DEF Spec
----------------------------------------------------------------------------
(* What the callback thread, the answers and the requests can come from    *)

Queue == {events[i] : i \in 1 .. Len(events)}

(* The first answer of the queue is in it.                                 *)
LEMMA HeadQueued ==
  ASSUME TypeOK, events # <<>>
  PROVE  Head(events) \in Queue /\ Head(events) \in Event
  <1>1. events \in Seq(Event)
    BY DEF TypeOK, Event
  <1>2. 1 \in 1 .. Len(events) /\ Head(events) = events[1] /\ events[1] \in Event
    BY <1>1
  <1> QED
    BY <1>2 DEF Queue

(* The callback thread handles an answer when it has found it in the queue.*)
LEMMA HandsKept ==
  ASSUME TypeOK, [Next]_vars, NEW call, InHands(call)'
  PROVE  \/ InHands(call)
         \/ CbFind /\ events # <<>> /\ Head(events).call = call /\ Found(Head(events))
  <1>1. CASE UNCHANGED cb
    BY <1>1 DEF InHands
  <1>2. CASE CbFind
    <2>1. cb' # Resting /\ cb'.call = call /\ events # <<>>
      BY <1>2 DEF InHands, CbFind
    <2>2. Found(Head(events)) /\ cb' = [pc |-> "found", call |-> Head(events).call]
      BY <1>2, <2>1 DEF CbFind
    <2> QED
      BY <1>2, <2>1, <2>2
  <1>3. CASE CbLock
    <2>1. cb \in [pc : {"found", "locked"}, call : Calls] /\ cb.pc = "found"
      BY <1>3, FoundRecord DEF CbLock
    <2>2. cb'.call = cb.call
      BY <1>3, <2>1 DEF CbLock
    <2>3. cb # Resting /\ cb # Calling
      BY <2>1 DEF Resting, Calling
    <2> QED
      BY <2>2, <2>3 DEF InHands
  <1>4. CASE cb' = Resting \/ cb' = Calling
    BY <1>4 DEF InHands
  <1>5. CASE ~CbFind /\ ~CbLock
    <2>1. UNCHANGED cb \/ cb' = Resting \/ cb' = Calling
      BY <1>5 DEF Next, NoContext, GetDatabase, Retire, Discover, Reconnect, Continue, RequestDiscovery,
         DiscoveryLost, StorePointers, RequestDatabase, Refused, Discovered, Retrieved, Timeout,
         Connected, Callback, CbDiscovered, CbRetrieved, CbCloneFails, CallBackReturns, CallBack,
         Answer, NoAnswer, vars
    <2> QED
      BY <1>1, <1>4, <2>1
  <1> QED
    BY <1>2, <1>3, <1>5

(* Only ace_bt puts an answer into the queue.                              *)
LEMMA QueueKept ==
  ASSUME TypeOK, [Next]_vars, NEW e \in Queue'
  PROVE  \/ e \in Queue
         \/ \E r \in asked : \E ok \in BOOLEAN :
              /\ e = [call |-> r.call, handle |-> r.handle, ok |-> ok]
              /\ known' = (known \/ (ok /\ r.call = "discover" /\ r.handle = ctx.handle))
  <1>0. events \in Seq(Event)
    BY DEF TypeOK, Event
  <1>1. CASE UNCHANGED events
    BY <1>1 DEF Queue
  <1>2. CASE CbFind
    <2>1. events # <<>> /\ events' = Tail(events)
      BY <1>2 DEF CbFind
    <2>2. PICK i \in 1 .. Len(events') : e = events'[i]
      BY DEF Queue
    <2>3. i + 1 \in 1 .. Len(events) /\ e = events[i + 1]
      BY <1>0, <2>1, <2>2
    <2> QED
      BY <2>3 DEF Queue
  <1>3. ASSUME NEW r \in Request, Answer(r)
        PROVE  \/ e \in Queue
               \/ \E ok \in BOOLEAN :
                    /\ e = [call |-> r.call, handle |-> r.handle, ok |-> ok]
                    /\ known' = (known \/ (ok /\ r.call = "discover" /\ r.handle = ctx.handle))
    <2>1. PICK ok \in BOOLEAN :
            /\ events' = Append(events, [call |-> r.call, handle |-> r.handle, ok |-> ok])
            /\ known' = (known \/ (ok /\ r.call = "discover" /\ r.handle = ctx.handle))
      BY <1>3 DEF Answer
    <2> DEFINE new == [call |-> r.call, handle |-> r.handle, ok |-> ok]
    <2>2. events' = Append(events, new)
      BY <2>1
    <2> HIDE DEF new
    <2>3. PICK i \in 1 .. Len(events') : e = events'[i]
      BY DEF Queue
    <2>4. e = new \/ (i \in 1 .. Len(events) /\ e = events[i])
      BY <1>0, <2>2, <2>3
    <2> QED
      BY <2>1, <2>4 DEF Queue, new
  <1>4. CASE ~CbFind /\ ~\E r \in Request : Answer(r)
    <2>1. UNCHANGED events
      BY <1>4 DEF Next, NoContext, GetDatabase, Retire, Discover, Reconnect, Continue, RequestDiscovery,
         DiscoveryLost, StorePointers, RequestDatabase, Refused, Discovered, Retrieved, Timeout,
         Connected, Callback, CbLock, CbDiscovered, CbRetrieved, CbCloneFails, CallBackReturns, CallBack,
         NoAnswer, vars
    <2> QED
      BY <1>1, <2>1
  <1>5. \A r \in Request : Answer(r) => r \in asked
    BY DEF Answer
  <1> QED
    BY <1>2, <1>3, <1>4, <1>5

(* Only bleDiscoverAllServices and bleGetDatabase ask.                     *)
LEMMA AskedKept ==
  ASSUME [Next]_vars, NEW r \in asked'
  PROVE  \/ r \in asked
         \/ RequestDiscovery /\ r = [call |-> "discover", handle |-> ctx.handle]
         \/ RequestDatabase /\ r = [call |-> "database", handle |-> ctx.handle]
  <1>1. CASE RequestDiscovery \/ RequestDatabase
    BY <1>1 DEF RequestDiscovery, RequestDatabase, Ask
  <1>2. CASE ~RequestDiscovery /\ ~RequestDatabase
    BY <1>2 DEF Next, NoContext, GetDatabase, Retire, Discover, Reconnect, Continue, DiscoveryLost,
       StorePointers, Refused, Discovered, Retrieved, Timeout, Connected, Callback, CbFind, CbLock,
       CbDiscovered, CbRetrieved, CbCloneFails, CallBackReturns, CallBack, Answer, NoAnswer, vars
  <1> QED
    BY <1>1, <1>2

(* What a step does to the fields of the context.                          *)
LEMMA ContextKept ==
  ASSUME TypeOK, [Next]_vars
  PROVE  \/ /\ UNCHANGED <<ctx.handle, ctx.discovered, ctx.retrieved>>
            /\ ctx'.out = ctx.out \/ (StorePointers /\ ctx'.out = var)
         \/ CbDiscovered /\ UNCHANGED <<ctx.handle, ctx.retrieved, ctx.out>>
         \/ CbRetrieved /\ UNCHANGED <<ctx.handle, ctx.discovered, ctx.out>>
         \/ /\ Reconnect
            /\ ctx'.handle = Null /\ ~ctx'.discovered /\ ~ctx'.retrieved /\ ctx'.out = Null
         \/ Connected /\ UNCHANGED <<ctx.discovered, ctx.retrieved, ctx.out>>
  <1>0. ctx \in Context
    BY DEF TypeOK
  <1>1. CASE StorePointers \/ CbLock \/ CbDiscovered \/ CbRetrieved \/ Connected
    BY <1>0, <1>1 DEF StorePointers, CbLock, CbDiscovered, CbRetrieved, Connected, Context
  <1>2. CASE Reconnect
    BY <1>2 DEF Reconnect, Fresh
  <1>3. CASE /\ ~StorePointers /\ ~CbLock /\ ~CbDiscovered /\ ~CbRetrieved /\ ~Connected
             /\ ~Reconnect
    <2>1. UNCHANGED ctx
      BY <1>3 DEF Next, NoContext, GetDatabase, Retire, Discover, Continue, RequestDiscovery,
         DiscoveryLost, RequestDatabase, Refused, Discovered, Retrieved, Timeout, Callback, CbFind,
         CbCloneFails, CallBackReturns, CallBack, Answer, NoAnswer, vars
    <2> QED
      BY <2>1
  <1> QED
    BY <1>1, <1>2, <1>3
----------------------------------------------------------------------------
(* Where a database is written to                                          *)

\* The pointer of the context leads to the variable of the last call, which
\* is in scope as long as the application keeps it. Only bleConnect clears it.
PointersInScope ==
  /\ ctx.out # Null => ctx.out \in alive
  /\ pc # "store pointers" /\ ctx.out # Null => ctx.out = var /\ "database" \in made
  /\ pc = "store pointers" => var \in alive /\ "database" \in made
  /\ pc = "connecting" => ctx.out = Null
  /\ InHands("database") => ctx.out # Null \/ ("stray" \in Faults /\ pc = "connecting")

(* The application's thread moves the pointer, or keeps what it leads to.  *)
LEMMA CallsInScope ==
  ASSUME Keeps, TypeOK, PointersInScope, InHands("database")' => InHands("database"),
         \/ \E h \in Handles : NoContext(h)
         \/ \E v \in Vars : GetDatabase(v) \/ Retire(v)
         \/ Discover \/ Reconnect \/ CallBack
         \/ Continue
  PROVE  PointersInScope'
  <1> USE DEF PointersInScope, Goto, Return
  <1>1. CASE \E h \in Handles : NoContext(h)
    BY <1>1 DEF NoContext
  <1>2. CASE \E v \in Vars : GetDatabase(v)
    BY <1>2 DEF GetDatabase
  <1>3. CASE \E v \in Vars : Retire(v)
    BY <1>3 DEF Retire
  <1>4. CASE Discover \/ CallBack
    BY <1>4 DEF Discover, CallBack, appVars
  <1>5. CASE Reconnect
    <2>1. ctx'.out = Null
      BY <1>5 DEF Reconnect, Fresh
    <2>2. "stray" \notin Faults => ~InHands("database")
      BY <1>5 DEF Reconnect, InHands
    <2> QED
      BY <1>5, <2>1, <2>2 DEF Reconnect
  <1>6. CASE StorePointers
    <2>1. ctx'.out = var /\ var # Null
      BY <1>6, GattDbAssumption DEF StorePointers, TypeOK, Context
    <2>2. pc = "store pointers" /\ pc' = "request database" /\ UNCHANGED <<var, made, alive>>
      BY <1>6 DEF StorePointers
    <2> QED
      BY <2>1, <2>2
  <1>7. CASE Connected
    <2>1. ctx'.out = ctx.out /\ ~InHands("database")
      BY <1>7 DEF Connected, TypeOK, Context, InHands
    <2> QED
      BY <1>7, <2>1 DEF Connected
  <1>8. CASE RequestDiscovery \/ DiscoveryLost \/ RequestDatabase
    BY <1>8 DEF RequestDiscovery, DiscoveryLost, RequestDatabase
  <1>9. CASE Refused \/ Discovered \/ Retrieved \/ Timeout
    BY <1>9 DEF Refused, Discovered, Retrieved, Timeout
  <1> QED
    BY <1>1, <1>2, <1>3, <1>4, <1>5, <1>6, <1>7, <1>8, <1>9 DEF Continue

(* The callback thread and ace_bt leave the pointer alone.                 *)
LEMMA CallbacksInScope ==
  ASSUME TypeOK, PointersInScope, [Next]_vars,
         Callback \/ \E r \in Request : Answer(r) \/ NoAnswer(r)
  PROVE  PointersInScope'
  <1>1. ctx'.out = ctx.out
    BY DEF Callback, CbFind, CbLock, CbDiscovered, CbRetrieved, CbCloneFails, CallBackReturns, Answer,
       NoAnswer, TypeOK, Context
  <1>2. UNCHANGED <<pc, var, made, alive>>
    BY DEF Callback, CbFind, CbLock, CbDiscovered, CbRetrieved, CbCloneFails, CallBackReturns, Answer,
       NoAnswer, appVars
  <1>3. InHands("database")' => InHands("database") \/ ctx.out # Null
    BY HandsKept DEF Found
  <1> QED
    BY <1>1, <1>2, <1>3 DEF PointersInScope

(* An application that keeps the variable it gave until it gives another   *)
(* or disconnects has no other memory written to: not by an answer that    *)
(* comes after the call has given up, and not by one that the callback     *)
(* looked at before another call moved the pointer. A stray answer may be  *)
(* written through NULL while bleConnect clears the context, and that is   *)
(* the only such case.                                                     *)
THEOREM DatabaseWrittenInScope ==
  ASSUME Keeps
  PROVE  Spec => []WritesInScope
  <1>1. Init => PointersInScope
    <2> SUFFICES ASSUME Init PROVE PointersInScope
      OBVIOUS
    <2>1. ctx.out = Null
      BY DEF Init, Fresh
    <2> QED
      BY <2>1 DEF Init, PointersInScope, InHands
  <1>2. TypeOK /\ PointersInScope /\ [Next]_vars => PointersInScope'
    <2> SUFFICES ASSUME TypeOK, PointersInScope, [Next]_vars PROVE PointersInScope'
      OBVIOUS
    <2>1. CASE UNCHANGED vars
      BY <2>1 DEF vars, appVars, PointersInScope, InHands
    <2>2. CASE Callback \/ \E r \in Request : Answer(r) \/ NoAnswer(r)
      BY <2>2, CallbacksInScope
    <2>3. CASE \/ \E h \in Handles : NoContext(h)
               \/ \E v \in Vars : GetDatabase(v) \/ Retire(v)
               \/ Discover \/ Reconnect \/ CallBack
               \/ Continue
      <3>1. UNCHANGED cb \/ cb' = Calling
        BY <2>3 DEF NoContext, GetDatabase, Retire, Discover, Reconnect, CallBack, Continue,
           RequestDiscovery, DiscoveryLost, StorePointers, RequestDatabase, Refused, Discovered,
           Retrieved, Timeout, Connected
      <3>2. InHands("database")' => InHands("database")
        BY <3>1 DEF InHands
      <3> QED
        BY <2>3, <3>2, CallsInScope
    <2> QED
      BY <2>1, <2>2, <2>3 DEF Next
  <1>3. PointersInScope => WritesInScope
    BY DEF PointersInScope, WritesInScope
  <1> QED
    BY <1>1, <1>2, <1>3, TypeCorrect, PTL DEF Spec
----------------------------------------------------------------------------
(* What OK of bleGetDatabase means                                         *)

\* No database is asked for, on its way, or in the callback's hands.
NoDatabase ==
  /\ \A r \in asked : r.call # "database"
  /\ \A e \in Queue : e.call # "database"
  /\ ~InHands("database")

\* gattdb_retrieved is FALSE until the answer to the connection's only call
\* has been written through the pointer of that call.
FreshInv ==
  /\ "database" \notin made \/ pc \in {"store pointers", "request database"} =>
       NoDatabase /\ ~ctx.retrieved
  /\ pc \in {"store pointers", "request database", "await retrieved"} => "database" \in made
  /\ pc \in {"request database", "await retrieved"} => ctx.out = var
  /\ pc = "await retrieved" /\ ctx.retrieved => filled

(* A database is on its way only when one has been asked for.              *)
LEMMA NoDatabaseKept ==
  ASSUME TypeOK, NoDatabase, [Next]_vars, ~RequestDatabase
  PROVE  NoDatabase' /\ (~ctx.retrieved => ~ctx'.retrieved)
  <1>1. ASSUME NEW r \in asked' PROVE r.call # "database"
    BY <1>1, AskedKept DEF NoDatabase
  <1>2. ASSUME NEW e \in Queue' PROVE e.call # "database"
    BY <1>2, QueueKept DEF NoDatabase
  <1>3. ~InHands("database")'
    BY HandsKept, HeadQueued DEF NoDatabase
  <1>4. ~CbRetrieved
    BY DEF CbRetrieved, NoDatabase, InHands, Resting, Calling
  <1>5. ~ctx.retrieved => ~ctx'.retrieved
    BY <1>4, ContextKept
  <1> QED
    BY <1>1, <1>2, <1>3, <1>5 DEF NoDatabase

(* A disconnection that no answer outlives leaves none behind.             *)
LEMMA ReconnectedFresh ==
  ASSUME "stray" \notin Faults, Reconnect
  PROVE  NoDatabase' /\ ~ctx'.retrieved
  <1>1. asked' = {} /\ events' = <<>> /\ cb' = Resting
    BY DEF Reconnect
  <1>2. Queue' = {}
    <2>1. 1 .. Len(<<>>) = {}
      OBVIOUS
    <2> QED
      BY <1>1, <2>1 DEF Queue
  <1>3. ~ctx'.retrieved
    BY DEF Reconnect, Fresh
  <1> QED
    BY <1>1, <1>2, <1>3 DEF NoDatabase, InHands

(* FreshInv is inductive when the call is made once in a connection.       *)
LEMMA FreshKept ==
  ASSUME TypeOK, FreshInv, ~Repeat, "stray" \notin Faults, Next
  PROVE  FreshInv'
  <1> USE DEF FreshInv, Goto, Return
  <1>1. ~RequestDatabase /\ ("database" \notin made \/ pc \in {"store pointers", "request database"})
          => NoDatabase' /\ ~ctx'.retrieved
    BY NoDatabaseKept
  <1>2. CASE Reconnect
    BY <1>2, ReconnectedFresh DEF Reconnect
  <1>3. CASE \E v \in Vars : GetDatabase(v)
    BY <1>1, <1>3 DEF GetDatabase, May, RequestDatabase
  <1>4. CASE StorePointers
    <2>1. ctx'.out = var
      BY <1>4 DEF StorePointers, TypeOK, Context
    <2> QED
      BY <1>1, <1>4, <2>1 DEF StorePointers, RequestDatabase
  <1>5. CASE RequestDatabase
    BY <1>5 DEF RequestDatabase
  <1>6. CASE CbRetrieved
    <2>0. InHands("database")
      <3>1. cb.pc = "locked" /\ cb.call = "database"
        BY <1>6 DEF CbRetrieved
      <3>2. Resting.pc = "idle" /\ Calling.pc = "application"
        BY DEF Resting, Calling
      <3>3. cb # Resting /\ cb # Calling
        BY <3>1, <3>2
      <3> QED
        BY <3>1, <3>3 DEF InHands
    <2>1. ctx'.out = ctx.out
      BY <1>6 DEF CbRetrieved, TypeOK, Context
    <2>2. "database" \in made /\ pc \notin {"store pointers", "request database"}
      BY <2>0 DEF NoDatabase
    <2>3. UNCHANGED <<pc, var, made>> /\ (ctx.out = var => filled')
      BY <1>6 DEF CbRetrieved, appVars
    <2> QED
      BY <2>1, <2>2, <2>3
  <1>7. CASE CbLock \/ CbDiscovered \/ Connected
    <2>1. ctx'.out = ctx.out /\ ctx'.retrieved = ctx.retrieved
      BY <1>7 DEF CbLock, CbDiscovered, Connected, TypeOK, Context
    <2>2. /\ UNCHANGED <<var, made, filled>>
          /\ pc' \in {"store pointers", "request database", "await retrieved"} => pc = pc'
      BY <1>7 DEF CbLock, CbDiscovered, Connected, appVars, Goto
    <2>3. ~RequestDatabase
      BY <1>7 DEF CbLock, CbDiscovered, Connected, RequestDatabase, appVars
    <2> QED
      BY <1>1, <2>1, <2>2, <2>3
  <1>8. CASE \/ \E h \in Handles : NoContext(h)
             \/ \E v \in Vars : Retire(v)
             \/ Discover \/ RequestDiscovery \/ DiscoveryLost
             \/ Refused \/ Discovered \/ Retrieved \/ Timeout
    <2>1. UNCHANGED <<ctx, var, filled>>
          /\ pc' \notin {"store pointers", "request database", "await retrieved"}
          /\ ("database" \in made <=> "database" \in made')
      BY <1>8 DEF NoContext, Retire, Discover, RequestDiscovery, DiscoveryLost, Refused, Discovered,
         Retrieved, Timeout
    <2>2. ~RequestDatabase
      BY <2>1 DEF RequestDatabase
    <2> QED
      BY <1>1, <2>1, <2>2
  <1>9. CASE \/ CbFind \/ CbCloneFails \/ CallBack \/ CallBackReturns
             \/ \E r \in Request : Answer(r) \/ NoAnswer(r)
    <2>1. UNCHANGED <<ctx, pc, var, made, filled>>
      BY <1>9 DEF CbFind, CbCloneFails, CallBack, CallBackReturns, Answer, NoAnswer, appVars
    <2>2. ~RequestDatabase
      BY <2>1 DEF RequestDatabase
    <2> QED
      BY <1>1, <2>1, <2>2
  <1> QED
    BY <1>2, <1>3, <1>4, <1>5, <1>6, <1>7, <1>8, <1>9 DEF Next, Continue, Callback

(* When an application calls bleGetDatabase once in a connection, OK means *)
(* that the database is in the variable, for late answers as well. A       *)
(* second call need not wait for its answer (gattdb_retrieved is not       *)
(* reset), and a stray answer may set the flag of the next connection.     *)
THEOREM FreshDatabase ==
  ASSUME ~Repeat, "stray" \notin Faults
  PROVE  Spec => DatabaseDelivered
  <1>1. Init => FreshInv
    <2> SUFFICES ASSUME Init PROVE FreshInv
      OBVIOUS
    <2>1. ~ctx.retrieved
      BY DEF Init, Fresh
    <2>2. Queue = {}
      <3>1. 1 .. Len(<<>>) = {}
        OBVIOUS
      <3> QED
        BY <3>1 DEF Init, Queue
    <2> QED
      BY <2>1, <2>2 DEF Init, FreshInv, NoDatabase, InHands
  <1>2. TypeOK /\ FreshInv /\ [Next]_vars => FreshInv'
    <2> SUFFICES ASSUME TypeOK, FreshInv, UNCHANGED vars PROVE FreshInv'
      BY FreshKept
    <2> QED
      BY DEF vars, appVars, FreshInv, NoDatabase, Queue, InHands
  <1>3. FreshInv /\ [Next]_vars =>
          [pc = "await retrieved" /\ pc' = "idle" /\ status' = "OK" => filled]_vars
    <2> SUFFICES ASSUME FreshInv, Next, pc = "await retrieved", pc' = "idle", status' = "OK"
                 PROVE  filled
      OBVIOUS
    <2>1. Retrieved
      BY DEF Next, NoContext, GetDatabase, Retire, Discover, Reconnect, Continue, Callback, CallBack,
         Answer, NoAnswer, RequestDiscovery, DiscoveryLost, StorePointers, RequestDatabase, Refused,
         Discovered, Timeout, Connected, CbFind, CbLock, CbDiscovered, CbRetrieved, CbCloneFails,
         CallBackReturns, Goto, Return, appVars
    <2> QED
      BY <2>1 DEF Retrieved, Heard, FreshInv
  <1> QED
    BY <1>1, <1>2, <1>3, TypeCorrect, PTL DEF Spec, DatabaseDelivered
----------------------------------------------------------------------------
(* What OK of bleDiscoverAllServices means                                 *)

\* gattc_discovered, and all that can set it, tells of a discovery that ace_bt
\* has finished in this connection. None outlives the connection.
DiscoveryInv ==
  /\ pc = "connecting" => asked = {} /\ events = <<>> /\ cb = Resting /\ ~ctx.discovered
  /\ \A e \in Queue : e.call = "discover" /\ Found(e) => known
  /\ InHands("discover") => known
  /\ ctx.discovered => known

(* What ace_bt has discovered it has until the next connection.            *)
LEMMA KnownKept ==
  ASSUME TypeOK, [Next]_vars, ~Connected, known
  PROVE  known'
  BY DEF Next, NoContext, GetDatabase, Retire, Discover, Reconnect, Continue, Callback, CallBack,
     Answer, NoAnswer, RequestDiscovery, DiscoveryLost, StorePointers, RequestDatabase, Refused,
     Discovered, Retrieved, Timeout, CbFind, CbLock, CbDiscovered, CbRetrieved, CbCloneFails,
     CallBackReturns, vars, TypeOK

(* Between two connections nothing of the first is left.                   *)
LEMMA ConnectionFresh ==
  ASSUME TypeOK, DiscoveryInv, "stray" \notin Faults, Reconnect \/ Connected
  PROVE  DiscoveryInv'
  <1>1. events' = <<>> /\ cb' = Resting /\ ~ctx'.discovered /\ asked' = {}
    <2>1. CASE Reconnect
      BY <2>1 DEF Reconnect, Fresh
    <2>2. CASE Connected
      <3>1. ctx'.discovered = ctx.discovered
        BY <2>2 DEF Connected, TypeOK, Context
      <3> QED
        BY <2>2, <3>1 DEF Connected, DiscoveryInv, Goto
    <2> QED
      BY <2>1, <2>2
  <1>2. Queue' = {}
    <2>1. 1 .. Len(<<>>) = {}
      OBVIOUS
    <2> QED
      BY <1>1, <2>1 DEF Queue
  <1> QED
    BY <1>1, <1>2 DEF DiscoveryInv, InHands

(* DiscoveryInv is inductive when no answer outlives its connection.       *)
LEMMA DiscoveryKept ==
  ASSUME TypeOK, DiscoveryInv, "stray" \notin Faults, Next
  PROVE  DiscoveryInv'
  <1>1. CASE Reconnect \/ Connected
    BY <1>1, ConnectionFresh
  <1>2. CASE ~Reconnect /\ ~Connected
    <2>1. ctx'.handle = ctx.handle /\ (ctx'.discovered => ctx.discovered \/ CbDiscovered)
      BY <1>2, ContextKept
    <2>2. known => known'
      BY <1>2, KnownKept
    <2>3. ASSUME pc' = "connecting"
          PROVE  asked' = {} /\ events' = <<>> /\ cb' = Resting /\ ~ctx'.discovered
      <3>1. pc = "connecting"
        BY <1>2, <2>3 DEF Next, NoContext, GetDatabase, Retire, Discover, Continue, Callback, CallBack,
           Answer, NoAnswer, RequestDiscovery, DiscoveryLost, StorePointers, RequestDatabase, Refused,
           Discovered, Retrieved, Timeout, CbFind, CbLock, CbDiscovered, CbRetrieved, CbCloneFails,
           CallBackReturns, Goto, Return, appVars
      <3>2. asked = {} /\ events = <<>> /\ cb = Resting /\ ~ctx.discovered
        BY <3>1 DEF DiscoveryInv
      <3>3. Resting.pc = "idle" /\ Resting # Calling
        BY DEF Resting, Calling
      <3>4. UNCHANGED <<asked, events, cb, ctx>>
        BY <1>2, <3>1, <3>2, <3>3 DEF Next, NoContext, GetDatabase, Retire, Discover, Continue, Callback,
           CallBack, Answer, NoAnswer, RequestDiscovery, DiscoveryLost, StorePointers, RequestDatabase,
           Refused, Discovered, Retrieved, Timeout, CbFind, CbLock, CbDiscovered, CbRetrieved,
           CbCloneFails, CallBackReturns, Goto
      <3> QED
        BY <3>2, <3>4
    <2>4. ASSUME NEW e \in Queue', e.call = "discover", Found(e)' PROVE known'
      <3>1. e.ok /\ e.handle = ctx.handle
        BY <2>1, <2>4 DEF Found
      <3>2. CASE e \in Queue
        <4>1. Found(e)
          BY <2>4, <3>1 DEF Found
        <4> QED
          BY <2>2, <2>4, <3>2, <4>1 DEF DiscoveryInv
      <3>3. CASE e \notin Queue
        <4>1. PICK r \in asked, ok \in BOOLEAN :
                /\ e = [call |-> r.call, handle |-> r.handle, ok |-> ok]
                /\ known' = (known \/ (ok /\ r.call = "discover" /\ r.handle = ctx.handle))
          BY <2>4, <3>3, QueueKept
        <4>2. ok /\ r.call = "discover" /\ r.handle = ctx.handle
          BY <2>4, <3>1, <4>1
        <4> QED
          BY <4>1, <4>2
      <3> QED
        BY <3>2, <3>3
    <2>5. ASSUME InHands("discover")' PROVE known'
      BY <2>2, <2>5, HandsKept, HeadQueued DEF DiscoveryInv
    <2>6. ASSUME CbDiscovered PROVE known'
      BY <2>2, <2>6 DEF CbDiscovered, DiscoveryInv, InHands, Resting, Calling
    <2> QED
      BY <2>1, <2>2, <2>3, <2>4, <2>5, <2>6 DEF DiscoveryInv
  <1> QED
    BY <1>1, <1>2

(* bleDiscoverAllServices returns ACE_STATUS_OK only when ace_bt has       *)
(* discovered the services of the connection, however often it is called   *)
(* and although requests go astray, fail, or are answered after the call   *)
(* has given up: the flag that is not reset is that of this connection.    *)
THEOREM DiscoveryComplete ==
  ASSUME "stray" \notin Faults
  PROVE  Spec => DiscoveryFinished
  <1>1. Init => DiscoveryInv
    <2> SUFFICES ASSUME Init PROVE DiscoveryInv
      OBVIOUS
    <2>1. ~ctx.discovered
      BY DEF Init, Fresh
    <2>2. Queue = {}
      <3>1. 1 .. Len(<<>>) = {}
        OBVIOUS
      <3> QED
        BY <3>1 DEF Init, Queue
    <2> QED
      BY <2>1, <2>2 DEF Init, DiscoveryInv, InHands
  <1>2. TypeOK /\ DiscoveryInv /\ [Next]_vars => DiscoveryInv'
    <2> SUFFICES ASSUME TypeOK, DiscoveryInv, UNCHANGED vars PROVE DiscoveryInv'
      BY DiscoveryKept
    <2> QED
      BY DEF vars, appVars, DiscoveryInv, Queue, Found, InHands
  <1>3. DiscoveryInv /\ [Next]_vars =>
          [pc = "await discovered" /\ pc' = "idle" /\ status' = "OK" => known]_vars
    <2> SUFFICES ASSUME DiscoveryInv, Next, pc = "await discovered", pc' = "idle", status' = "OK"
                 PROVE  known
      OBVIOUS
    <2>1. Discovered
      BY DEF Next, NoContext, GetDatabase, Retire, Discover, Reconnect, Continue, Callback, CallBack,
         Answer, NoAnswer, RequestDiscovery, DiscoveryLost, StorePointers, RequestDatabase, Refused,
         Retrieved, Timeout, Connected, CbFind, CbLock, CbDiscovered, CbRetrieved, CbCloneFails,
         CallBackReturns, Goto, Return, appVars
    <2> QED
      BY <2>1 DEF Discovered, Heard, DiscoveryInv
  <1> QED
    BY <1>1, <1>2, <1>3, TypeCorrect, PTL DEF Spec, DiscoveryFinished
=============================================================================
