----------------------------- MODULE TimedFlag -----------------------------
(***************************************************************************)
(* What a caller may expect of a wait on a flag with a deadline, with no   *)
(* mutex, no condition variable and no wake-ups: flags change one at a     *)
(* time, a waiting call ends with OK only at an instant at which its flag  *)
(* is set, and with TIMEOUT only once its deadline is behind it.           *)
(*                                                                         *)
(* TimedWait, the model of waitForCondition and setCallbackVariable,       *)
(* implements this specification; Connection and GattDb take their waits   *)
(* from it.                                                                *)
(***************************************************************************)
CONSTANTS
  Waiters,  \* the threads that wait
  Flags     \* the flags guarded by one mutex and one condition variable

VARIABLES
  flag,     \* flag[f]: the value of f
  waiting,  \* the set of threads that are inside a wait
  want,     \* want[t]: the flag that t waits for
  late,     \* the set of threads whose deadline has passed
  result    \* result[t]: the status that t's last wait returned

vars == <<flag, waiting, want, late, result>>

Results == {"none", "OK", "TIMEOUT"}

Init ==
  /\ flag \in [Flags -> BOOLEAN]
  /\ waiting = {}
  /\ want \in [Waiters -> Flags]
  /\ late = {}
  /\ result = [t \in Waiters |-> "none"]

Begin(t, f) ==
  /\ t \notin waiting
  /\ waiting' = waiting \cup {t}
  /\ want' = [want EXCEPT ![t] = f]
  /\ late' = late \ {t}
  /\ UNCHANGED <<flag, result>>

Deadline(t) ==
  /\ t \in waiting
  /\ late' = late \cup {t}
  /\ UNCHANGED <<flag, waiting, want, result>>

Change(f, v) ==
  /\ flag' = [flag EXCEPT ![f] = v]
  /\ UNCHANGED <<waiting, want, late, result>>

End(t, r) ==
  /\ t \in waiting
  /\ waiting' = waiting \ {t}
  /\ result' = [result EXCEPT ![t] = r]
  /\ UNCHANGED <<flag, want, late>>

Succeed(t) == flag[want[t]] /\ End(t, "OK")

GiveUp(t) == t \in late /\ End(t, "TIMEOUT")

Next ==
  \/ \E f \in Flags, v \in BOOLEAN : Change(f, v)
  \/ \E t \in Waiters :
       \/ \E f \in Flags : Begin(t, f)
       \/ Deadline(t)
       \/ Succeed(t)
       \/ GiveUp(t)

Spec == Init /\ [][Next]_vars
============================================================================
