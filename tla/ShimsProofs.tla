---------------------------- MODULE ShimsProofs ----------------------------
(***************************************************************************)
(* Theorems about Shims, for any threads and any shims: a race on the      *)
(* first call is the only way to the wrong API, and bleWriteDescriptor     *)
(* does not know even that one.                                            *)
(***************************************************************************)
EXTENDS Shims, TLAPS

\* A flag that is set says that some thread has its pointer.
FlagMeansPointer ==
  \A f \in Functions :
    "initialized" \in stores[f] =>
      f # "write descriptor" /\ \E u \in Threads : "pointer" \in sees[u][f]

\* A thread chooses when it has the pointer, or believes so for the flag.
ChoosesWithReason ==
  \A t \in Threads :
    /\ Stands(t, "store") => "pointer" \in sees[t][call[t].f]
    /\ Stands(t, "choose") =>
         "pointer" \in sees[t][call[t].f] \/ "initialized" \in sees[t][call[t].f]

IInv ==
  /\ TypeOKShims
  /\ FlagMeansPointer
  /\ ChoosesWithReason
  /\ WrongOnlyInRace

(* What the shims call, seen or not, is one of the two APIs or nothing.    *)
LEMMA ApiTypes ==
  ASSUME NEW f \in Functions, firmware \in {"old", "new"}
  PROVE  Resolved(f) \in {"old", "new"} /\ Unresolved(f) \in {"old", "none"}
  BY ShimsAssumption DEF Resolved, Unresolved, Gatt

(* Nothing is resolved at first.                                           *)
LEMMA InitInvariant == InitShims => IInv
  <1> SUFFICES ASSUME InitShims PROVE IInv
    OBVIOUS
  <1> USE DEF InitShims
  <1>1. TypeOKShims
    <2>1. Out \in [at : Places, f : Functions \cup {"none"}, api : {"old", "new", "none"}]
      BY DEF Out, Places
    <2> QED
      BY <2>1 DEF TypeOKShims
  <1>2. \A t \in Threads : ~Stands(t, "store") /\ ~Stands(t, "choose") /\ ~Stands(t, "called")
    BY DEF Stands, Out
  <1>3. FlagMeansPointer
    BY DEF FlagMeansPointer
  <1>4. ChoosesWithReason
    BY <1>2 DEF ChoosesWithReason
  <1>5. WrongOnlyInRace
    BY <1>2 DEF WrongOnlyInRace, Wrong
  <1> QED
    BY <1>1, <1>3, <1>4, <1>5 DEF IInv

(* Stores that reach a thread, its own included, take nothing back.        *)
Grows == \A t \in Threads, f \in Functions : sees[t][f] \subseteq sees'[t][f]

(* Threads that do not move have the reasons that they had.                *)
LEMMA OthersStay ==
  ASSUME IInv, Grows, UNCHANGED firmware, NEW t \in Threads, call'[t] = call[t]
  PROVE  /\ Stands(t, "store")' => "pointer" \in sees'[t][call'[t].f]
         /\ Stands(t, "choose")' =>
              "pointer" \in sees'[t][call'[t].f] \/ "initialized" \in sees'[t][call'[t].f]
         /\ Wrong(t)' => /\ \E u \in Threads \ {t} : "pointer" \in sees'[u][call'[t].f]
                         /\ call'[t].f # "write descriptor"
  <1>1. call[t].at # "out" => call[t].f \in Functions
    BY DEF IInv, TypeOKShims, Out
  <1>2. Resolved(call[t].f)' = Resolved(call[t].f)
    BY DEF Resolved
  <1>3. Wrong(t)' => Wrong(t)
    BY <1>2 DEF Wrong, Stands
  <1>4. Wrong(t) => call[t].f \in Functions
    BY <1>1 DEF Wrong, Stands
  <1>5. Wrong(t)' => \E u \in Threads \ {t} : "pointer" \in sees'[u][call'[t].f]
    BY <1>3, <1>4 DEF IInv, WrongOnlyInRace, Grows
  <1>6. Wrong(t)' => call'[t].f # "write descriptor"
    BY <1>3 DEF IInv, WrongOnlyInRace
  <1>7. Stands(t, "store")' => "pointer" \in sees'[t][call'[t].f]
    BY <1>1 DEF IInv, ChoosesWithReason, Grows, Stands
  <1>8. Stands(t, "choose")' =>
          "pointer" \in sees'[t][call'[t].f] \/ "initialized" \in sees'[t][call'[t].f]
    BY <1>1 DEF IInv, ChoosesWithReason, Grows, Stands
  <1> QED
    BY <1>5, <1>6, <1>7, <1>8

(* A step that only moves the thread t: the invariant is a matter of what  *)
(* t has a reason for, and of the stores.                                  *)
LEMMA OneMoves ==
  ASSUME IInv, NEW t \in Threads, UNCHANGED firmware, Grows,
         \A u \in Threads \ {t} : call'[u] = call[u],
         TypeOKShims', FlagMeansPointer',
         Stands(t, "store")' => "pointer" \in sees'[t][call'[t].f],
         Stands(t, "choose")' =>
           "pointer" \in sees'[t][call'[t].f] \/ "initialized" \in sees'[t][call'[t].f],
         Wrong(t)' => /\ \E u \in Threads \ {t} : "pointer" \in sees'[u][call'[t].f]
                      /\ call'[t].f # "write descriptor"
  PROVE  IInv'
  <1>1. ASSUME NEW u \in Threads
        PROVE  /\ Stands(u, "store")' => "pointer" \in sees'[u][call'[u].f]
               /\ Stands(u, "choose")' =>
                    "pointer" \in sees'[u][call'[u].f] \/ "initialized" \in sees'[u][call'[u].f]
               /\ Wrong(u)' => /\ \E v \in Threads \ {u} : "pointer" \in sees'[v][call'[u].f]
                               /\ call'[u].f # "write descriptor"
    <2>1. CASE u = t
      BY <2>1
    <2>2. CASE u # t
      BY <2>2, OthersStay
    <2> QED
      BY <2>1, <2>2
  <1>2. ChoosesWithReason'
    BY <1>1 DEF ChoosesWithReason
  <1>3. WrongOnlyInRace'
    BY <1>1 DEF WrongOnlyInRace
  <1> QED
    BY <1>2, <1>3 DEF IInv

(* Entering: a flag that is seen is a reason to choose at once.            *)
LEMMA EnterKeeps ==
  ASSUME IInv, NEW t \in Threads, NEW f \in Functions, EnterShim(t, f)
  PROVE  IInv'
  <1> DEFINE new == [at |-> IF Tested(t, f) THEN "choose" ELSE "resolve", f |-> f, api |-> "none"]
  <1>1. /\ call' = [call EXCEPT ![t] = new]
        /\ UNCHANGED <<firmware, stores, sees>>
    BY DEF EnterShim
  <1>2. new \in [at : Places, f : Functions \cup {"none"}, api : {"old", "new", "none"}]
    BY DEF Places
  <1>3. call'[t] = new /\ \A u \in Threads \ {t} : call'[u] = call[u]
    BY <1>1 DEF IInv, TypeOKShims
  <1>4. TypeOKShims'
    BY <1>1, <1>2, <1>3 DEF IInv, TypeOKShims
  <1>5. FlagMeansPointer' /\ Grows
    BY <1>1 DEF IInv, FlagMeansPointer, Grows
  <1>6. ~Stands(t, "store")' /\ ~Wrong(t)'
    BY <1>3 DEF Stands, Wrong
  <1>7. Stands(t, "choose")' => "initialized" \in sees'[t][call'[t].f]
    BY <1>1, <1>3 DEF Stands, Tested
  <1> QED
    BY <1>1, <1>3, <1>4, <1>5, <1>6, <1>7, OneMoves

(* What a store of one's own does to the stores and to what is seen.       *)
LEMMA StoreTypes ==
  ASSUME IInv, NEW t \in Threads, NEW x \in Statics, call[t].f \in Functions, StoreStatic(t, x)
  PROVE  /\ stores' \in [Functions -> SUBSET Statics]
         /\ sees' \in [Threads -> [Functions -> SUBSET Statics]]
         /\ \A u \in Threads, f \in Functions : sees'[u][f] \subseteq stores'[f]
         /\ Grows
         /\ x \in sees'[t][call[t].f]
         /\ \A f \in Functions : stores'[f] \subseteq stores[f] \cup {x}
         /\ \A f \in Functions \ {call[t].f} : stores'[f] = stores[f]
  <1> DEFINE f == call[t].f
             kept == stores[f] \cup {x}
             known == sees[t][f] \cup {x}
             seen == [sees[t] EXCEPT ![f] = known]
  <1>1. stores' = [stores EXCEPT ![f] = kept] /\ sees' = [sees EXCEPT ![t] = seen]
    BY DEF StoreStatic, IInv, TypeOKShims
  <1>2. /\ stores \in [Functions -> SUBSET Statics]
        /\ sees \in [Threads -> [Functions -> SUBSET Statics]]
        /\ \A u \in Threads, g \in Functions : sees[u][g] \subseteq stores[g]
    BY DEF IInv, TypeOKShims
  <1>3. kept \in SUBSET Statics /\ known \in SUBSET Statics /\ known \subseteq kept
    BY <1>2
  <1> HIDE DEF kept, known
  <1>4. /\ seen \in [Functions -> SUBSET Statics]
        /\ seen[f] = known
        /\ \A g \in Functions \ {f} : seen[g] = sees[t][g]
    BY <1>2, <1>3
  <1> HIDE DEF seen
  <1>5. /\ sees' \in [Threads -> [Functions -> SUBSET Statics]]
        /\ sees'[t] = seen
        /\ \A u \in Threads \ {t} : sees'[u] = sees[u]
    BY <1>1, <1>2, <1>4
  <1>6. /\ stores' \in [Functions -> SUBSET Statics]
        /\ stores'[f] = kept
        /\ \A g \in Functions \ {f} : stores'[g] = stores[g]
    BY <1>1, <1>2, <1>3
  <1>7. ASSUME NEW u \in Threads, NEW g \in Functions
        PROVE  sees[u][g] \subseteq sees'[u][g] /\ sees'[u][g] \subseteq stores'[g]
    <2>1. CASE u = t /\ g = f
      <3>1. sees'[u][g] = known /\ stores'[g] = kept
        BY <2>1, <1>4, <1>5, <1>6
      <3>2. sees[u][g] \subseteq known
        BY <2>1 DEF known
      <3> QED
        BY <3>1, <3>2, <1>3
    <2>2. CASE u # t \/ g # f
      <3>1. sees'[u][g] = sees[u][g]
        BY <2>2, <1>4, <1>5
      <3>2. stores[g] \subseteq stores'[g]
        BY <1>6 DEF kept
      <3> QED
        BY <3>1, <3>2, <1>2
    <2> QED
      BY <2>1, <2>2
  <1>8. x \in sees'[t][f]
    BY <1>4, <1>5 DEF known
  <1>9. \A g \in Functions : stores'[g] \subseteq stores[g] \cup {x}
    BY <1>6 DEF kept
  <1> QED
    BY <1>5, <1>6, <1>7, <1>8, <1>9 DEF Grows

(* Moving within a shim.                                                   *)
LEMMA MoveTypes ==
  ASSUME IInv, NEW t \in Threads, NEW place \in Places \ {"out"}, Moves(t, place),
         call[t].f \in Functions
  PROVE  /\ call' \in [Threads -> [at : Places, f : Functions \cup {"none"},
                                   api : {"old", "new", "none"}]]
         /\ \A u \in Threads : call'[u] = Out \/ call'[u].f \in Functions
         /\ call'[t].at = place /\ call'[t].f = call[t].f
         /\ \A u \in Threads \ {t} : call'[u] = call[u]
  BY DEF IInv, TypeOKShims, Moves

(* Whoever is in a shim is in one of Functions.                            *)
LEMMA InsideShim ==
  ASSUME IInv, NEW t \in Threads, ~Stands(t, "out")
  PROVE  call[t].f \in Functions
  BY DEF IInv, TypeOKShims, Stands, Out

(* The pointer is stored.                                                  *)
LEMMA ResolveKeeps ==
  ASSUME IInv, NEW t \in Threads, ResolvePointer(t)
  PROVE  IInv'
  <1> DEFINE f == call[t].f
  <1>1. /\ Stands(t, "resolve") /\ Moves(t, "store") /\ UNCHANGED firmware
        /\ StoreStatic(t, "pointer")
    BY DEF ResolvePointer
  <1>2. f \in Functions
    BY <1>1, InsideShim DEF Stands
  <1>3. "pointer" \in Statics /\ "store" \in Places \ {"out"}
    BY DEF Statics, Places
  <1>4. /\ stores' \in [Functions -> SUBSET Statics]
        /\ sees' \in [Threads -> [Functions -> SUBSET Statics]]
        /\ \A u \in Threads, g \in Functions : sees'[u][g] \subseteq stores'[g]
        /\ Grows
        /\ "pointer" \in sees'[t][f]
        /\ \A g \in Functions : stores'[g] \subseteq stores[g] \cup {"pointer"}
    BY <1>1, <1>2, <1>3, StoreTypes
  <1>5. /\ call' \in [Threads -> [at : Places, f : Functions \cup {"none"},
                                  api : {"old", "new", "none"}]]
        /\ \A u \in Threads : call'[u] = Out \/ call'[u].f \in Functions
        /\ call'[t].at = "store" /\ call'[t].f = f
        /\ \A u \in Threads \ {t} : call'[u] = call[u]
    BY <1>1, <1>2, <1>3, MoveTypes
  <1>6. TypeOKShims'
    BY <1>1, <1>4, <1>5 DEF TypeOKShims, IInv
  <1>7. FlagMeansPointer'
    BY <1>4 DEF FlagMeansPointer, IInv, Grows
  <1>8. ~Stands(t, "choose")' /\ ~Wrong(t)'
    BY <1>5 DEF Stands, Wrong
  <1> QED
    BY <1>1, <1>4, <1>5, <1>6, <1>7, <1>8, OneMoves

(* The flag is stored, or not.                                             *)
LEMMA SetKeeps ==
  ASSUME IInv, NEW t \in Threads, SetInitialized(t)
  PROVE  IInv'
  <1> DEFINE f == call[t].f
  <1>1. Stands(t, "store") /\ Moves(t, "choose") /\ UNCHANGED firmware
    BY DEF SetInitialized
  <1>2. f \in Functions /\ "pointer" \in sees[t][f]
    BY <1>1, InsideShim DEF Stands, IInv, ChoosesWithReason
  <1>3. "initialized" \in Statics /\ "choose" \in Places \ {"out"}
    BY DEF Statics, Places
  <1>4. /\ call' \in [Threads -> [at : Places, f : Functions \cup {"none"},
                                  api : {"old", "new", "none"}]]
        /\ \A u \in Threads : call'[u] = Out \/ call'[u].f \in Functions
        /\ call'[t].at = "choose" /\ call'[t].f = f
        /\ \A u \in Threads \ {t} : call'[u] = call[u]
    BY <1>1, <1>2, <1>3, MoveTypes
  <1>5. /\ stores' \in [Functions -> SUBSET Statics]
        /\ sees' \in [Threads -> [Functions -> SUBSET Statics]]
        /\ \A u \in Threads, g \in Functions : sees'[u][g] \subseteq stores'[g]
        /\ Grows
        /\ FlagMeansPointer'
    <2>1. CASE f \in Flags
      <3>1. StoreStatic(t, "initialized")
        BY <2>1 DEF SetInitialized
      <3>2. /\ stores' \in [Functions -> SUBSET Statics]
            /\ sees' \in [Threads -> [Functions -> SUBSET Statics]]
            /\ \A u \in Threads, g \in Functions : sees'[u][g] \subseteq stores'[g]
            /\ Grows
            /\ \A g \in Functions \ {f} : stores'[g] = stores[g]
        BY <1>2, <1>3, <3>1, StoreTypes
      <3>3. FlagMeansPointer'
        BY <1>2, <2>1, <3>2 DEF FlagMeansPointer, IInv, Grows, Flags
      <3> QED
        BY <3>2, <3>3
    <2>2. CASE f \notin Flags
      BY <2>2 DEF SetInitialized, IInv, TypeOKShims, Grows, FlagMeansPointer
    <2> QED
      BY <2>1, <2>2
  <1>6. TypeOKShims'
    BY <1>1, <1>4, <1>5 DEF TypeOKShims, IInv
  <1>7. "pointer" \in sees'[t][call'[t].f]
    BY <1>2, <1>4, <1>5 DEF Grows
  <1>8. ~Stands(t, "store")' /\ ~Wrong(t)'
    BY <1>4 DEF Stands, Wrong
  <1> QED
    BY <1>1, <1>4, <1>5, <1>6, <1>7, <1>8, OneMoves

(* The choice goes wrong only without the pointer, and then the flag tells *)
(* of another thread's.                                                    *)
LEMMA ChooseKeeps ==
  ASSUME IInv, NEW t \in Threads, ChooseApi(t)
  PROVE  IInv'
  <1> DEFINE f == call[t].f
             api == IF "pointer" \in sees[t][f] THEN Resolved(f) ELSE Unresolved(f)
  <1>1. /\ Stands(t, "choose")
        /\ call' = [call EXCEPT ![t].at = "called", ![t].api = api]
        /\ UNCHANGED <<firmware, stores, sees>>
    BY DEF ChooseApi
  <1>2. f \in Functions
    BY <1>1, InsideShim DEF Stands
  <1>3. api \in {"old", "new", "none"}
    BY <1>2, ApiTypes DEF IInv, TypeOKShims
  <1>4. /\ call'[t].at = "called" /\ call'[t].f = f
        /\ call'[t].api = api
        /\ call'[t] \in [at : Places, f : Functions \cup {"none"}, api : {"old", "new", "none"}]
        /\ \A u \in Threads \ {t} : call'[u] = call[u]
    BY <1>1, <1>2, <1>3 DEF IInv, TypeOKShims, Places
  <1>5. TypeOKShims'
    BY <1>1, <1>2, <1>4 DEF IInv, TypeOKShims
  <1>6. Grows /\ FlagMeansPointer'
    BY <1>1 DEF IInv, Grows, FlagMeansPointer
  <1>7. Wrong(t)' => "pointer" \notin sees[t][f]
    BY <1>1, <1>4 DEF Wrong, Resolved
  <1>8. "pointer" \notin sees[t][f] =>
          f # "write descriptor" /\ \E u \in Threads : "pointer" \in sees[u][f]
    BY <1>1, <1>2 DEF IInv, TypeOKShims, ChoosesWithReason, FlagMeansPointer
  <1>9. Wrong(t)' => /\ \E u \in Threads \ {t} : "pointer" \in sees'[u][call'[t].f]
                     /\ call'[t].f # "write descriptor"
    BY <1>1, <1>4, <1>7, <1>8
  <1>10. ~Stands(t, "store")' /\ ~Stands(t, "choose")'
    BY <1>4 DEF Stands
  <1> QED
    BY <1>1, <1>4, <1>5, <1>6, <1>9, <1>10, OneMoves

(* A call that returns keeps the invariant.                                *)
LEMMA LeaveKeeps ==
  ASSUME IInv, NEW t \in Threads, LeaveShim(t)
  PROVE  IInv'
  <1>1. call' = [call EXCEPT ![t] = Out] /\ UNCHANGED <<firmware, stores, sees>>
    BY DEF LeaveShim
  <1>2. Out \in [at : Places, f : Functions \cup {"none"}, api : {"old", "new", "none"}]
    BY DEF Out, Places
  <1>3. call'[t] = Out /\ \A u \in Threads \ {t} : call'[u] = call[u]
    BY <1>1 DEF IInv, TypeOKShims
  <1>4. TypeOKShims'
    BY <1>1, <1>2, <1>3 DEF IInv, TypeOKShims
  <1>5. Grows /\ FlagMeansPointer'
    BY <1>1 DEF IInv, Grows, FlagMeansPointer
  <1>6. ~Stands(t, "store")' /\ ~Stands(t, "choose")' /\ ~Wrong(t)'
    BY <1>3 DEF Stands, Out, Wrong
  <1> QED
    BY <1>1, <1>3, <1>4, <1>5, <1>6, OneMoves

(* A store that arrives.                                                   *)
LEMMA ReachKeeps ==
  ASSUME IInv, NEW t \in Threads, NEW f \in Functions, NEW x \in Statics, Reach(t, f, x)
  PROVE  IInv'
  <1> DEFINE known == sees[t][f] \cup {x}
             seen == [sees[t] EXCEPT ![f] = known]
  <1>1. /\ x \in stores[f]
        /\ sees' = [sees EXCEPT ![t] = seen]
        /\ UNCHANGED <<firmware, stores, call>>
    BY DEF Reach, IInv, TypeOKShims
  <1>2. /\ stores \in [Functions -> SUBSET Statics]
        /\ sees \in [Threads -> [Functions -> SUBSET Statics]]
        /\ \A u \in Threads, g \in Functions : sees[u][g] \subseteq stores[g]
    BY DEF IInv, TypeOKShims
  <1>3. known \in SUBSET Statics /\ known \subseteq stores[f] /\ sees[t][f] \subseteq known
    BY <1>1, <1>2
  <1> HIDE DEF known
  <1>4. /\ seen \in [Functions -> SUBSET Statics]
        /\ seen[f] = known
        /\ \A g \in Functions \ {f} : seen[g] = sees[t][g]
    BY <1>2, <1>3
  <1> HIDE DEF seen
  <1>5. /\ sees' \in [Threads -> [Functions -> SUBSET Statics]]
        /\ sees'[t] = seen
        /\ \A u \in Threads \ {t} : sees'[u] = sees[u]
    BY <1>1, <1>2, <1>4
  <1>6. ASSUME NEW u \in Threads, NEW g \in Functions
        PROVE  sees[u][g] \subseteq sees'[u][g] /\ sees'[u][g] \subseteq stores[g]
    <2>1. CASE u = t /\ g = f
      BY <2>1, <1>3, <1>4, <1>5
    <2>2. CASE u # t \/ g # f
      BY <2>2, <1>2, <1>4, <1>5
    <2> QED
      BY <2>1, <2>2
  <1>7. Grows
    BY <1>6 DEF Grows
  <1>8. TypeOKShims'
    BY <1>1, <1>5, <1>6 DEF IInv, TypeOKShims
  <1>9. FlagMeansPointer'
    BY <1>1, <1>7 DEF IInv, FlagMeansPointer, Grows
  <1>10. ASSUME NEW u \in Threads
         PROVE  /\ Stands(u, "store")' => "pointer" \in sees'[u][call'[u].f]
                /\ Stands(u, "choose")' =>
                     "pointer" \in sees'[u][call'[u].f] \/ "initialized" \in sees'[u][call'[u].f]
                /\ Wrong(u)' => /\ \E v \in Threads \ {u} : "pointer" \in sees'[v][call'[u].f]
                                /\ call'[u].f # "write descriptor"
    BY <1>1, <1>7, OthersStay
  <1> QED
    BY <1>1, <1>7, <1>8, <1>9, <1>10, OneMoves

(* Every step keeps the invariant.                                         *)
LEMMA StepInvariant == IInv /\ [NextShims]_shimVars => IInv'
  <1> SUFFICES ASSUME IInv, [NextShims]_shimVars PROVE IInv'
    OBVIOUS
  <1>1. CASE UNCHANGED shimVars
    BY <1>1 DEF shimVars, IInv, TypeOKShims, FlagMeansPointer, ChoosesWithReason, WrongOnlyInRace,
             Wrong, Stands, Resolved
  <1>2. ASSUME NEW t \in Threads, Walk(t) PROVE IInv'
    BY <1>2, ResolveKeeps, SetKeeps, ChooseKeeps, LeaveKeeps DEF Walk
  <1>3. ASSUME NEW t \in Threads, NEW f \in Functions, EnterShim(t, f) PROVE IInv'
    BY <1>3, EnterKeeps
  <1>4. ASSUME NEW t \in Threads, NEW f \in Functions, NEW x \in Statics, Reach(t, f, x)
        PROVE IInv'
    BY <1>4, ReachKeeps
  <1> QED
    BY <1>1, <1>2, <1>3, <1>4 DEF NextShims

(* So it holds in every state.                                             *)
LEMMA Invariance == FairSpecShims => []IInv
  BY InitInvariant, StepInvariant, PTL DEF FairSpecShims

(* A shim goes the wrong way only for a thread that races with another on  *)
(* its first call, and bleWriteDescriptor never, whatever the threads.     *)
THEOREM RaceOnly == FairSpecShims => []WrongOnlyInRace
  <1>1. IInv => WrongOnlyInRace
    BY DEF IInv
  <1> QED
    BY <1>1, Invariance, PTL

(* The statics and the calls keep their types.                             *)
THEOREM TypeCorrect == FairSpecShims => []TypeOKShims
  <1>1. IInv => TypeOKShims
    BY DEF IInv
  <1> QED
    BY <1>1, Invariance, PTL
============================================================================
