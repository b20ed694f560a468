------------------------------- MODULE Shims -------------------------------
(***************************************************************************)
(* The choice between the functions of firmware 5.17 and those of before.  *)
(*                                                                         *)
(* Every function that differs has a shim with static variables: pointers  *)
(* that dlsym fills on the first call, and a flag that tells the next      *)
(* calls so. Several threads may call a shim, the application's and the    *)
(* one that runs its callbacks, and nothing orders what they store: each   *)
(* thread sees its own stores, and those of the others one by one, in any  *)
(* order. What threads store is the same, so that only the set of stores   *)
(* that a thread sees matters.                                             *)
(***************************************************************************)
EXTENDS FiniteSets

CONSTANTS
  Threads,   \* threads that call
  Functions, \* the shims that they call
  ForceOld   \* is FORCE_OLD_API defined?

\* The nine of the GATT client API are one alike, but for bleWriteDescriptor.
Gatt == {"register", "deregister", "discover", "database", "cleanup", "read", "write",
         "notification"}

ASSUME ShimsAssumption ==
  /\ Functions \subseteq Gatt \cup {"write descriptor", "session", "free", "abi"}
  /\ ForceOld \in BOOLEAN

VARIABLES
  firmware,  \* the API that the firmware has, "old" or "new"
  stores,    \* stores[f]: the static variables of f that were stored
  sees,      \* sees[t][f]: the stores that t sees
  call       \* call[t]: where in which shim t stands

shimVars == <<firmware, stores, sees, call>>

Statics == {"pointer", "initialized"}

Places == {"out", "resolve", "store", "choose", "called"}

Out == [at |-> "out", f |-> "none", api |-> "none"]

TypeOKShims ==
  /\ firmware \in {"old", "new"}
  /\ stores \in [Functions -> SUBSET Statics]
  /\ sees \in [Threads -> [Functions -> SUBSET Statics]]
  /\ \A t \in Threads, f \in Functions : sees[t][f] \subseteq stores[f]
  /\ call \in [Threads -> [at : Places, f : Functions \cup {"none"}, api : {"old", "new", "none"}]]
  /\ \A t \in Threads : call[t] = Out \/ call[t].f \in Functions

InitShims ==
  /\ firmware \in {"old", "new"}
  /\ stores = [f \in Functions |-> {}]
  /\ sees = [t \in Threads |-> [f \in Functions |-> {}]]
  /\ call = [t \in Threads |-> Out]
----------------------------------------------------------------------------
(* What a shim calls when it sees its pointers, and when it does not.      *)

\* getSessionFromHandler has a pointer for either firmware, aceAlloc_free is
\* in both, and acebt_abi_version remembers what it has found.
Resolved(f) ==
  CASE f \in Gatt \cup {"write descriptor"} -> IF ForceOld THEN "old" ELSE firmware
    [] f \in {"session", "abi"} -> firmware
    [] f = "free" -> "old"

\* "none": -1 for a session, a buffer that is not freed.
Unresolved(f) == IF f \in {"session", "free"} THEN "none" ELSE "old"
----------------------------------------------------------------------------
Stands(t, place) == call[t].at = place

Moves(t, place) == call' = [call EXCEPT ![t].at = place]

StoreStatic(t, x) ==
  LET f == call[t].f
  IN /\ stores' = [stores EXCEPT ![f] = @ \cup {x}]
     /\ sees' = [sees EXCEPT ![t][f] = @ \cup {x}]

Tested(t, f) == "initialized" \in sees[t][f]

\* A call, and the test of the flag.
EnterShim(t, f) ==
  /\ Stands(t, "out")
  /\ call' = [call EXCEPT ![t] = [at |-> IF Tested(t, f) THEN "choose" ELSE "resolve",
                                  f |-> f, api |-> "none"]]
  /\ UNCHANGED <<firmware, stores, sees>>

\* Broken: dlsym's result is used and not kept.
ResolveForNow(t) ==
  /\ Stands(t, "resolve")
  /\ Moves(t, "store")
  /\ UNCHANGED <<firmware, stores, sees>>

ResolvePointer(t) ==
  /\ Stands(t, "resolve")
  /\ StoreStatic(t, "pointer")
  /\ Moves(t, "store")
  /\ UNCHANGED firmware

\* Broken: bleWriteDescriptor sets the flag as the others do.
FlagsAll == Functions

\* bleWriteDescriptor never sets its flag, and resolves on every call.
Flags == Functions \ {"write descriptor"}

SetInitialized(t) ==
  /\ Stands(t, "store")
  /\ IF call[t].f \in Flags THEN StoreStatic(t, "initialized") ELSE UNCHANGED <<stores, sees>>
  /\ Moves(t, "choose")
  /\ UNCHANGED firmware

ChooseApi(t) ==
  /\ Stands(t, "choose")
  /\ LET f == call[t].f
         api == IF "pointer" \in sees[t][f] THEN Resolved(f) ELSE Unresolved(f)
     IN call' = [call EXCEPT ![t].at = "called", ![t].api = api]
  /\ UNCHANGED <<firmware, stores, sees>>

LeaveShim(t) ==
  /\ Stands(t, "called")
  /\ call' = [call EXCEPT ![t] = Out]
  /\ UNCHANGED <<firmware, stores, sees>>

\* A store of another thread reaches t.
Reach(t, f, x) ==
  /\ x \in stores[f] \ sees[t][f]
  /\ sees' = [sees EXCEPT ![t][f] = @ \cup {x}]
  /\ UNCHANGED <<firmware, stores, call>>

Walk(t) == ResolvePointer(t) \/ SetInitialized(t) \/ ChooseApi(t) \/ LeaveShim(t)

NextShims ==
  \/ \E t \in Threads : Walk(t) \/ \E f \in Functions : EnterShim(t, f)
  \/ \E t \in Threads, f \in Functions, x \in Statics : Reach(t, f, x)

\* Threads run on, and stores do not stay in one processor for ever.
FairnessShims ==
  /\ \A t \in Threads : WF_shimVars(Walk(t))
  /\ \A t \in Threads, f \in Functions, x \in Statics : WF_shimVars(Reach(t, f, x))

FairSpecShims == InitShims /\ [][NextShims]_shimVars /\ FairnessShims
----------------------------------------------------------------------------
Wrong(t) == Stands(t, "called") /\ call[t].api # Resolved(call[t].f)

(* A shim goes the wrong way only where another thread has its pointer     *)
(* already. An application that calls from one thread gets the firmware's  *)
(* API always, and so does bleWriteDescriptor, which has no flag that      *)
(* could be seen before the pointer.                                       *)
WrongOnlyInRace ==
  \A t \in Threads :
    Wrong(t) => /\ call[t].f # "write descriptor"
                /\ \E u \in Threads \ {t} : "pointer" \in sees[u][call[t].f]

(* A wrong choice is not kept: from some time on every call of every shim  *)
(* goes to the API of the firmware.                                        *)
ChoicesSettle == <>[](\A t \in Threads : ~Wrong(t))
============================================================================
