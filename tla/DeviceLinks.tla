---------------------------- MODULE DeviceLinks ----------------------------
(***************************************************************************)
(* What bleConnect and bleDisconnect promise to the application: bleConnect*)
(* hands out the handle of the link that is up, bleDisconnect reports      *)
(* success when the link is gone, and a call that fails hands out nothing. *)
(* Contexts, events and callbacks do not appear.                           *)
(***************************************************************************)
CONSTANTS Addrs, Handles, NoHandle

VARIABLES
  up,      \* up[a]: the handle of a's link, or NoHandle
  call,    \* the call in progress
  got,     \* got[a]: the handle that the application uses for a
  status   \* the status of the last call that returned

vars == <<up, call, got, status>>

NoCall == [op |-> "none"]

Init ==
  /\ up = [a \in Addrs |-> NoHandle]
  /\ call = NoCall
  /\ got = [a \in Addrs |-> NoHandle]
  /\ status = "none"

LinkUp(a, h) ==
  /\ up[a] = NoHandle
  /\ \A b \in Addrs : up[b] # h
  /\ up' = [up EXCEPT ![a] = h]
  /\ UNCHANGED <<call, got, status>>

LinkDown(a) ==
  /\ up[a] # NoHandle
  /\ up' = [up EXCEPT ![a] = NoHandle]
  /\ UNCHANGED <<call, got, status>>

Begin(a) ==
  /\ call = NoCall
  /\ call' = [op |-> IF got[a] = NoHandle THEN "connect" ELSE "disconnect", addr |-> a]
  /\ UNCHANGED <<up, got, status>>

End(op, a, h, s) ==
  /\ call = [op |-> op, addr |-> a]
  /\ call' = NoCall
  /\ got' = [got EXCEPT ![a] = h]
  /\ status' = s
  /\ UNCHANGED up

Connected(a) == up[a] # NoHandle /\ End("connect", a, up[a], "OK")

NotConnected(a) == \E s \in {"REFUSED", "TIMEOUT"} : End("connect", a, NoHandle, s)

Disconnected(a) == up[a] = NoHandle /\ End("disconnect", a, NoHandle, "OK")

\* After an error the application gives the handle up; after a time-out it
\* may try again.
NotDisconnected(a) ==
  \/ End("disconnect", a, NoHandle, "REFUSED")
  \/ End("disconnect", a, got[a], "TIMEOUT")

\* bleDisconnect knows every handle that is in use.
Unknown(h) ==
  /\ call = NoCall
  /\ \A a \in Addrs : got[a] # h
  /\ status' = "UNINITIALIZED"
  /\ UNCHANGED <<up, call, got>>

Next ==
  \/ \E h \in Handles : Unknown(h)
  \/ \E a \in Addrs :
       \/ \E h \in Handles : LinkUp(a, h)
       \/ LinkDown(a)
       \/ Begin(a)
       \/ Connected(a)
       \/ NotConnected(a)
       \/ Disconnected(a)
       \/ NotDisconnected(a)

Spec == Init /\ [][Next]_vars
============================================================================
