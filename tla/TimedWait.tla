----------------------------- MODULE TimedWait -----------------------------
(***************************************************************************)
(* waitForCondition and setCallbackVariable: the application's threads     *)
(* wait, with a deadline, for flags that ace_bt's callback threads set.    *)
(* One mutex and one condition variable guard several flags: the three     *)
(* flags of callback_vars share callback_vars_cond, the four flags of a    *)
(* device_context_t share its cond.                                        *)
(*                                                                         *)
(* A step is what a thread does between two points at which the mutex can  *)
(* change hands or another thread can look at its state.                   *)
(***************************************************************************)
CONSTANTS
  Waiters,   \* threads that call waitForCondition
  Setters,   \* threads that call setCallbackVariable
  Flags,     \* flags that share the mutex and the condition variable
  NoThread   \* the owner of a free mutex

ASSUME ThreadsDistinct ==
  /\ Waiters \cap Setters = {}
  /\ NoThread \notin Waiters \cup Setters

Threads == Waiters \cup Setters

VARIABLES
  flag,    \* flag[f]: the bool that the callers pass a pointer to
  lock,    \* the owner of the mutex
  pc,      \* pc[t]: where t stands
  arg,     \* arg[t]: the flag of t's current call
  val,     \* val[s]: the value that setter s writes
  late,    \* the waiters whose deadline (ts) has passed
  result   \* result[t]: the status of t's last waitForCondition

vars == <<flag, lock, pc, arg, val, late, result>>

WaiterPCs == {"idle", "enter", "test", "asleep", "woken", "expired", "success", "giveup"}
SetterPCs == {"idle", "enter", "write", "signal", "leave"}

\* Where a thread owns the mutex.
Critical == {"test", "success", "giveup", "write", "signal", "leave"}

Asleep == {t \in Waiters : pc[t] = "asleep"}

TypeOK ==
  /\ flag \in [Flags -> BOOLEAN]
  /\ lock \in Threads \cup {NoThread}
  /\ pc \in [Threads -> WaiterPCs \cup SetterPCs]
  /\ \A t \in Waiters : pc[t] \in WaiterPCs
  /\ \A s \in Setters : pc[s] \in SetterPCs
  /\ arg \in [Threads -> Flags]
  /\ val \in [Setters -> BOOLEAN]
  /\ late \in SUBSET Waiters
  /\ result \in [Waiters -> {"none", "OK", "TIMEOUT"}]

Init ==
  /\ flag = [f \in Flags |-> FALSE]
  /\ lock = NoThread
  /\ pc = [t \in Threads |-> "idle"]
  /\ arg \in [Threads -> Flags]
  /\ val = [s \in Setters |-> FALSE]
  /\ late = {}
  /\ result = [t \in Waiters |-> "none"]

Goto(t, from, to) ==
  /\ pc[t] = from
  /\ pc' = [pc EXCEPT ![t] = to]

Acquire(t) == lock = NoThread /\ lock' = t
Release(t) == lock = t /\ lock' = NoThread
----------------------------------------------------------------------------
(* waitForCondition *)

\* The deadline is computed before the mutex is taken.
Call(t, f) ==
  /\ Goto(t, "idle", "enter")
  /\ arg' = [arg EXCEPT ![t] = f]
  /\ late' = late \ {t}
  /\ UNCHANGED <<flag, lock, val, result>>

Enter(t) ==
  /\ Goto(t, "enter", "test")
  /\ Acquire(t)
  /\ UNCHANGED <<flag, arg, val, late, result>>

\* Broken: blocks with the mutex held.
TestHoldingLock(t) ==
  /\ Goto(t, "test", IF flag[arg[t]] THEN "success" ELSE "asleep")
  /\ UNCHANGED <<flag, lock, arg, val, late, result>>

\* Broken: ts is computed anew in every round of the loop.
TestRearming(t) ==
  /\ Goto(t, "test", IF flag[arg[t]] THEN "success" ELSE "asleep")
  /\ IF flag[arg[t]] THEN UNCHANGED <<lock, late>> ELSE Release(t) /\ late' = late \ {t}
  /\ UNCHANGED <<flag, arg, val, result>>

\* while (!*flag): leave the loop, or release the mutex and block, in one step.
Test(t) ==
  \/ /\ flag[arg[t]]
     /\ Goto(t, "test", "success")
     /\ UNCHANGED <<flag, lock, arg, val, late, result>>
  \/ /\ ~flag[arg[t]]
     /\ Goto(t, "test", "asleep")
     /\ Release(t)
     /\ UNCHANGED <<flag, arg, val, late, result>>

\* Ten seconds after Call.
Deadline(t) ==
  /\ pc[t] # "idle"
  /\ t \notin late
  /\ late' = late \cup {t}
  /\ UNCHANGED <<flag, lock, pc, arg, val, result>>

\* pthread_cond_timedwait stops blocking: with 0 and no signal, or with ETIMEDOUT.
WakeSpuriously(t) ==
  /\ Goto(t, "asleep", "woken")
  /\ UNCHANGED <<flag, lock, arg, val, late, result>>

Expire(t) ==
  /\ t \in late
  /\ Goto(t, "asleep", "expired")
  /\ UNCHANGED <<flag, lock, arg, val, late, result>>

\* Broken: if (!*flag) in the place of while (!*flag).
ReacquireOnce(t) ==
  /\ Goto(t, "woken", "success") \/ Goto(t, "expired", "giveup")
  /\ Acquire(t)
  /\ UNCHANGED <<flag, arg, val, late, result>>

\* It owns the mutex again when it returns. ETIMEDOUT leaves the loop with no
\* further look at the flag.
Reacquire(t) ==
  /\ Goto(t, "woken", "test") \/ Goto(t, "expired", "giveup")
  /\ Acquire(t)
  /\ UNCHANGED <<flag, arg, val, late, result>>

\* Broken: returns what pthread_cond_timedwait returned last.
ReturnErrno(t) ==
  /\ \/ /\ Goto(t, "success", "idle")
        /\ result' = [result EXCEPT ![t] = "OK"]
     \/ /\ Goto(t, "giveup", "idle")
        /\ result' = [result EXCEPT ![t] = "ETIMEDOUT"]
  /\ Release(t)
  /\ UNCHANGED <<flag, arg, val, late>>

Return(t) ==
  /\ \/ /\ Goto(t, "success", "idle")
        /\ result' = [result EXCEPT ![t] = "OK"]
     \/ /\ Goto(t, "giveup", "idle")
        /\ result' = [result EXCEPT ![t] = "TIMEOUT"]
  /\ Release(t)
  /\ UNCHANGED <<flag, arg, val, late>>
----------------------------------------------------------------------------
(* setCallbackVariable *)

SetCall(s, f, v) ==
  /\ Goto(s, "idle", "enter")
  /\ arg' = [arg EXCEPT ![s] = f]
  /\ val' = [val EXCEPT ![s] = v]
  /\ UNCHANGED <<flag, lock, late, result>>

SetEnter(s) ==
  /\ Goto(s, "enter", "write")
  /\ Acquire(s)
  /\ UNCHANGED <<flag, arg, val, late, result>>

\* Broken: no signal after the write.
WriteSilently(s) ==
  /\ Goto(s, "write", "leave")
  /\ flag' = [flag EXCEPT ![arg[s]] = val[s]]
  /\ UNCHANGED <<lock, arg, val, late, result>>

Write(s) ==
  /\ Goto(s, "write", "signal")
  /\ flag' = [flag EXCEPT ![arg[s]] = val[s]]
  /\ UNCHANGED <<lock, arg, val, late, result>>

\* pthread_cond_signal unblocks at least one of the threads that are blocked.
Signal(s) ==
  /\ pc[s] = "signal"
  /\ \E woken \in SUBSET Asleep :
       /\ woken = {} => Asleep = {}
       /\ pc' = [t \in Threads |-> IF t = s THEN "leave"
                                   ELSE IF t \in woken THEN "woken" ELSE pc[t]]
  /\ UNCHANGED <<flag, lock, arg, val, late, result>>

Leave(s) ==
  /\ Goto(s, "leave", "idle")
  /\ Release(s)
  /\ UNCHANGED <<flag, arg, val, late, result>>
----------------------------------------------------------------------------
Waiter(t) ==
  \/ Enter(t)
  \/ Test(t)
  \/ Deadline(t)
  \/ WakeSpuriously(t)
  \/ Expire(t)
  \/ Reacquire(t)
  \/ Return(t)

Setter(s) ==
  \/ SetEnter(s)
  \/ Write(s)
  \/ Signal(s)
  \/ Leave(s)

Next ==
  \/ \E t \in Waiters : Waiter(t) \/ \E f \in Flags : Call(t, f)
  \/ \E s \in Setters : Setter(s) \/ \E f \in Flags, v \in BOOLEAN : SetCall(s, f, v)

Spec == Init /\ [][Next]_vars

(***************************************************************************)
(* Threads that are inside a call keep running, time passes, and a thread  *)
(* that finds the mutex free again and again gets it some time. Spurious   *)
(* wake-ups do not hide a deadline that has passed for ever: the thread    *)
(* waits again with the same ts, and an expired ts makes it return with    *)
(* ETIMEDOUT. Nobody has to make a call.                                   *)
(***************************************************************************)
Fairness ==
  /\ \A t \in Waiters :
       /\ SF_vars(Enter(t))
       /\ SF_vars(Reacquire(t))
       /\ WF_vars(Test(t))
       /\ WF_vars(Deadline(t))
       /\ SF_vars(Expire(t))
       /\ WF_vars(Return(t))
  /\ \A s \in Setters : SF_vars(SetEnter(s)) /\ WF_vars(Setter(s))

FairSpec == Spec /\ Fairness
----------------------------------------------------------------------------
(* A thread is inside its critical section exactly while it owns the mutex *)
(* (pthread_mutex_lock ... pthread_mutex_unlock, and the mutex that        *)
(* pthread_cond_timedwait gives up and takes back).                        *)
MutexOwned == \A t \in Threads : pc[t] \in Critical <=> lock = t

(* A thread blocked in pthread_cond_timedwait whose flag is set is about   *)
(* to be signalled: no callback's update is missed until the deadline.     *)
(* With one waiter the one signal of setCallbackVariable is enough; with   *)
(* two on one condition variable it is not.                                *)
NoLostWakeup ==
  \A t \in Waiters : pc[t] = "asleep" /\ flag[arg[t]]
                       => \E s \in Setters : pc[s] = "signal"

(* Every call of waitForCondition returns: the deadline bounds the wait,   *)
(* whatever the callbacks do.                                              *)
WaitReturns == \A t \in Waiters : pc[t] # "idle" ~> pc[t] = "idle"

(* The protocol of mutex, signal and re-test gives its callers the timed   *)
(* wait of TimedFlag: OK at an instant at which the flag is set, TIMEOUT   *)
(* after the deadline, and no other effect.                                *)
Abstract ==
  INSTANCE TimedFlag WITH
    waiting <- {t \in Waiters : pc[t] # "idle"},
    want <- [t \in Waiters |-> arg[t]]

ImplementsTimedFlag == Abstract!Spec
============================================================================
