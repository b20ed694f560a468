-------------------------- MODULE TimedWaitProofs --------------------------
(***************************************************************************)
(* Theorems about TimedWait for any sets of waiters, setters and flags.    *)
(*                                                                         *)
(* IInv is the inductive invariant: the type, the ownership of the mutex,  *)
(* and what a waiter that is about to return has established. MutexOwned   *)
(* alone is inductive with TypeOK; the other two parts are what the        *)
(* refinement needs at the step Return.                                    *)
(***************************************************************************)
EXTENDS TimedWait, TLAPS

\* The flag is still set when the waiter leaves: it holds the mutex since it
\* tested the flag.
SuccessHolds == \A t \in Waiters : pc[t] = "success" => flag[arg[t]]

\* Only a thread whose deadline has passed gives up.
GivenUpIsLate == \A t \in Waiters : pc[t] \in {"expired", "giveup"} => t \in late

IInv == TypeOK /\ MutexOwned /\ SuccessHolds /\ GivenUpIsLate

(* A set of waiters with at most one member. *)
OneWaiter == \A t, u \in Waiters : t = u
----------------------------------------------------------------------------
(* The threads and the program counters of two sides are apart: used where *)
(* an action of one side must be seen to leave the other side alone.       *)
LEMMA ThreadsSplit ==
  /\ Threads = Waiters \cup Setters
  /\ \A t \in Waiters : t \in Threads /\ t \notin Setters /\ t # NoThread
  /\ \A s \in Setters : s \in Threads /\ s \notin Waiters /\ s # NoThread
BY ThreadsDistinct DEF Threads

(* Every variable of waitForCondition and setCallbackVariable keeps its    *)
(* type: one step.                                                         *)
LEMMA TypeStep ==
  ASSUME TypeOK, [Next]_vars
  PROVE  TypeOK'
<1> USE ThreadsSplit DEF TypeOK, WaiterPCs, SetterPCs, Goto, Acquire, Release
<1>1. ASSUME NEW t \in Waiters, NEW f \in Flags, Call(t, f) PROVE TypeOK'
  BY <1>1 DEF Call
<1>2. ASSUME NEW t \in Waiters, Enter(t) PROVE TypeOK'
  BY <1>2 DEF Enter
<1>3. ASSUME NEW t \in Waiters, Test(t) PROVE TypeOK'
  BY <1>3 DEF Test
<1>4. ASSUME NEW t \in Waiters, Deadline(t) PROVE TypeOK'
  BY <1>4 DEF Deadline
<1>5. ASSUME NEW t \in Waiters, WakeSpuriously(t) PROVE TypeOK'
  BY <1>5 DEF WakeSpuriously
<1>6. ASSUME NEW t \in Waiters, Expire(t) PROVE TypeOK'
  BY <1>6 DEF Expire
<1>7. ASSUME NEW t \in Waiters, Reacquire(t) PROVE TypeOK'
  BY <1>7 DEF Reacquire
<1>8. ASSUME NEW t \in Waiters, Return(t) PROVE TypeOK'
  BY <1>8 DEF Return
<1>9. ASSUME NEW s \in Setters, NEW f \in Flags, NEW v \in BOOLEAN, SetCall(s, f, v)
      PROVE TypeOK'
  BY <1>9 DEF SetCall
<1>10. ASSUME NEW s \in Setters, SetEnter(s) PROVE TypeOK'
  BY <1>10 DEF SetEnter
<1>11. ASSUME NEW s \in Setters, Write(s) PROVE TypeOK'
  BY <1>11 DEF Write
<1>12. ASSUME NEW s \in Setters, Signal(s) PROVE TypeOK'
  BY <1>12 DEF Signal, Asleep
<1>13. ASSUME NEW s \in Setters, Leave(s) PROVE TypeOK'
  BY <1>13 DEF Leave
<1>14. CASE UNCHANGED vars
  BY <1>14 DEF vars
<1> QED
  BY SMTT(20), <1>1, <1>2, <1>3, <1>4, <1>5, <1>6, <1>7, <1>8, <1>9, <1>10, <1>11, <1>12, <1>13,
     <1>14 DEF Next, Waiter, Setter

(* The types hold at first.                                                *)
LEMMA TypeInit ==
  ASSUME Init
  PROVE  TypeOK
BY ThreadsSplit DEF Init, TypeOK, WaiterPCs, SetterPCs

(* waitForCondition and setCallbackVariable keep every flag, owner,        *)
(* deadline and status within its type, whoever calls them.                *)
THEOREM TypeCorrect == Spec => []TypeOK
<1>1. Init => TypeOK
  BY TypeInit
<1>2. TypeOK /\ [Next]_vars => TypeOK'
  BY TypeStep
<1> QED
  BY <1>1, <1>2, PTL DEF Spec
----------------------------------------------------------------------------
(* One step keeps the mutex with the thread that is inside, keeps the flag *)
(* of a waiter that leaves with OK set, and lets only a late waiter give   *)
(* up. A write is made by the owner of the mutex, so no waiter is at       *)
(* "success" at that time.                                                 *)
LEMMA IInvStep ==
  ASSUME IInv, [Next]_vars
  PROVE  IInv'
<1>0. TypeOK'
  BY TypeStep DEF IInv
<1> USE ThreadsSplit, <1>0
    DEF IInv, TypeOK, MutexOwned, SuccessHolds, GivenUpIsLate, WaiterPCs, SetterPCs, Critical,
        Goto, Acquire, Release
<1>1. ASSUME NEW t \in Waiters, NEW f \in Flags, Call(t, f) PROVE IInv'
  BY <1>1 DEF Call
<1>2. ASSUME NEW t \in Waiters, Enter(t) PROVE IInv'
  BY <1>2 DEF Enter
<1>3. ASSUME NEW t \in Waiters, Test(t) PROVE IInv'
  BY <1>3 DEF Test
<1>4. ASSUME NEW t \in Waiters, Deadline(t) PROVE IInv'
  BY <1>4 DEF Deadline
<1>5. ASSUME NEW t \in Waiters, WakeSpuriously(t) PROVE IInv'
  BY <1>5 DEF WakeSpuriously
<1>6. ASSUME NEW t \in Waiters, Expire(t) PROVE IInv'
  BY <1>6 DEF Expire
<1>7. ASSUME NEW t \in Waiters, Reacquire(t) PROVE IInv'
  BY <1>7 DEF Reacquire
<1>8. ASSUME NEW t \in Waiters, Return(t) PROVE IInv'
  BY <1>8 DEF Return
<1>9. ASSUME NEW s \in Setters, NEW f \in Flags, NEW v \in BOOLEAN, SetCall(s, f, v)
      PROVE IInv'
  BY <1>9 DEF SetCall
<1>10. ASSUME NEW s \in Setters, SetEnter(s) PROVE IInv'
  BY <1>10 DEF SetEnter
<1>11. ASSUME NEW s \in Setters, Write(s) PROVE IInv'
  BY <1>11 DEF Write
<1>12. ASSUME NEW s \in Setters, Signal(s) PROVE IInv'
  BY <1>12 DEF Signal, Asleep
<1>13. ASSUME NEW s \in Setters, Leave(s) PROVE IInv'
  BY <1>13 DEF Leave
<1>14. CASE UNCHANGED vars
  BY <1>14 DEF vars
<1> QED
  BY <1>1, <1>2, <1>3, <1>4, <1>5, <1>6, <1>7, <1>8, <1>9, <1>10, <1>11, <1>12, <1>13,
     <1>14 DEF Next, Waiter, Setter

(* Nobody waits at first.                                                  *)
LEMMA IInvInit ==
  ASSUME Init
  PROVE  IInv
<1>1. TypeOK
  BY TypeInit
<1> QED
  BY <1>1, ThreadsSplit
  DEF Init, IInv, MutexOwned, SuccessHolds, GivenUpIsLate, Critical, TypeOK

(* The invariant holds in every state.                                     *)
LEMMA InductiveInvariant == Spec => []IInv
<1>1. IInv /\ [Next]_vars => IInv'
  BY IInvStep
<1> QED
  BY <1>1, IInvInit, PTL DEF Spec

(* The mutex is held by exactly the thread that is between its lock and    *)
(* its unlock, the block inside pthread_cond_timedwait taken out: no two   *)
(* threads touch a flag at once, and no return leaves the mutex locked.    *)
THEOREM MutualExclusion == Spec => []MutexOwned
<1>1. IInv => MutexOwned
  BY DEF IInv
<1> QED
  BY <1>1, InductiveInvariant, PTL
----------------------------------------------------------------------------
(* A step of the threads is a step of the abstract timed wait, or none.    *)
LEMMA StepRefines ==
  ASSUME IInv, [Next]_vars
  PROVE  [Abstract!Next]_(Abstract!vars)
<1> DEFINE W == {t \in Waiters : pc[t] # "idle"}
<1> DEFINE want == [t \in Waiters |-> arg[t]]
<1> USE ThreadsSplit DEF IInv, TypeOK, WaiterPCs, SetterPCs, Goto
<1>1. ASSUME NEW t \in Waiters, NEW f \in Flags, Call(t, f) PROVE Abstract!Begin(t, f)
  <2>1. t \notin W /\ W' = W \cup {t}
    BY <1>1 DEF Call
  <2>2. want' = [want EXCEPT ![t] = f]
    BY <1>1 DEF Call
  <2> QED
    BY <1>1, <2>1, <2>2 DEF Call, Abstract!Begin
<1>2. ASSUME NEW t \in Waiters, Deadline(t) PROVE Abstract!Deadline(t)
  BY <1>2 DEF Deadline, Abstract!Deadline
<1>3. ASSUME NEW t \in Waiters, Return(t) PROVE Abstract!Succeed(t) \/ Abstract!GiveUp(t)
  <2>1. t \in W /\ W' = W \ {t}
    BY <1>3 DEF Return
  <2>2. UNCHANGED <<flag, want, late>>
    BY <1>3 DEF Return
  <2>3. CASE pc[t] = "success"
    <3>1. result' = [result EXCEPT ![t] = "OK"]
      BY <1>3, <2>3 DEF Return
    <3>2. flag[want[t]]
      BY <2>3 DEF SuccessHolds
    <3> QED
      BY <2>1, <2>2, <3>1, <3>2 DEF Abstract!Succeed, Abstract!End
  <2>4. CASE pc[t] = "giveup"
    <3>1. result' = [result EXCEPT ![t] = "TIMEOUT"]
      BY <1>3, <2>4 DEF Return
    <3>2. t \in late
      BY <2>4 DEF GivenUpIsLate
    <3> QED
      BY <2>1, <2>2, <3>1, <3>2 DEF Abstract!GiveUp, Abstract!End
  <2> QED
    BY <1>3, <2>3, <2>4 DEF Return
<1>4. ASSUME NEW s \in Setters, Write(s) PROVE Abstract!Change(arg[s], val[s])
  <2>1. W' = W
    BY <1>4 DEF Write
  <2> QED
    BY <1>4, <2>1 DEF Write, Abstract!Change
<1>5. ASSUME NEW t \in Waiters,
             Enter(t) \/ Test(t) \/ WakeSpuriously(t) \/ Expire(t) \/ Reacquire(t)
      PROVE  UNCHANGED Abstract!vars
  <2>1. W' = W
    BY <1>5 DEF Enter, Test, WakeSpuriously, Expire, Reacquire
  <2>2. UNCHANGED <<flag, arg, late, result>>
    BY <1>5 DEF Enter, Test, WakeSpuriously, Expire, Reacquire
  <2> QED
    BY <2>1, <2>2 DEF Abstract!vars
<1>6. ASSUME NEW s \in Setters,
             SetEnter(s) \/ Signal(s) \/ Leave(s) \/ \E f \in Flags, v \in BOOLEAN : SetCall(s, f, v)
      PROVE  UNCHANGED Abstract!vars
  <2>1. W' = W
    BY <1>6 DEF SetEnter, Signal, Leave, SetCall, Asleep
  <2>2. want' = want
    BY <1>6 DEF SetEnter, Signal, Leave, SetCall
  <2>3. UNCHANGED <<flag, late, result>>
    BY <1>6 DEF SetEnter, Signal, Leave, SetCall
  <2> QED
    BY <2>1, <2>2, <2>3 DEF Abstract!vars
<1>7. CASE UNCHANGED vars
  BY <1>7 DEF vars, Abstract!vars
<1>8. \A s \in Setters : arg[s] \in Flags /\ val[s] \in BOOLEAN
  OBVIOUS
<1> QED
  BY <1>1, <1>2, <1>3, <1>4, <1>5, <1>6, <1>7, <1>8 DEF Next, Waiter, Setter, Abstract!Next

(* waitForCondition and setCallbackVariable, with their mutex, condition   *)
(* variable, spurious wake-ups and signals, are a timed wait: OK only at   *)
(* an instant at which the flag is set, TIMEOUT only after the deadline.   *)
THEOREM Refinement == Spec => ImplementsTimedFlag
<1>1. Init => Abstract!Init
  BY ThreadsSplit DEF Init, Abstract!Init
<1>2. IInv /\ [Next]_vars => [Abstract!Next]_(Abstract!vars)
  BY StepRefines
<1> QED
  BY <1>1, <1>2, InductiveInvariant, PTL DEF Spec, ImplementsTimedFlag, Abstract!Spec
----------------------------------------------------------------------------
(* With one waiter at most, the single pthread_cond_signal of              *)
(* setCallbackVariable reaches it.                                         *)
LEMMA WakeupStep ==
  ASSUME OneWaiter, TypeOK, NoLostWakeup, [Next]_vars
  PROVE  NoLostWakeup'
<1> USE ThreadsSplit DEF TypeOK, NoLostWakeup, WaiterPCs, SetterPCs, Goto
<1>1. ASSUME NEW t \in Waiters, Waiter(t) \/ \E f \in Flags : Call(t, f) PROVE NoLostWakeup'
  BY <1>1 DEF Waiter, Call, Enter, Test, Deadline, WakeSpuriously, Expire, Reacquire, Return
<1>2. ASSUME NEW s \in Setters, Signal(s) PROVE NoLostWakeup'
  <2>1. PICK woken \in SUBSET Asleep :
          /\ woken = {} => Asleep = {}
          /\ pc' = [t \in Threads |-> IF t = s THEN "leave"
                                      ELSE IF t \in woken THEN "woken" ELSE pc[t]]
    BY <1>2 DEF Signal
  <2>2. \A t \in Waiters : pc'[t] # "asleep"
    BY <2>1 DEF Asleep, OneWaiter
  <2> QED
    BY <2>2
<1>3. ASSUME NEW s \in Setters,
             SetEnter(s) \/ Write(s) \/ Leave(s) \/ \E f \in Flags, v \in BOOLEAN : SetCall(s, f, v)
      PROVE  NoLostWakeup'
  BY <1>3 DEF SetEnter, Write, Leave, SetCall
<1>4. CASE UNCHANGED vars
  BY <1>4 DEF vars
<1> QED
  BY <1>1, <1>2, <1>3, <1>4 DEF Next, Setter

(* As long as one thread at a time waits on a condition variable, no       *)
(* update of a flag by a callback is missed by the thread that sleeps on   *)
(* it, however many callbacks and flags share the condition variable.      *)
THEOREM OneWaiterNeverMisses == ASSUME OneWaiter PROVE Spec => []NoLostWakeup
<1>1. Init => NoLostWakeup
  BY ThreadsSplit DEF Init, NoLostWakeup
<1>2. TypeOK /\ NoLostWakeup /\ [Next]_vars => NoLostWakeup'
  BY WakeupStep
<1> QED
  BY <1>1, <1>2, TypeCorrect, PTL DEF Spec
============================================================================
