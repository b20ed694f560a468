------------------------------ MODULE MCClient ------------------------------
(***************************************************************************)
(* Applications on one device. Either they run on firmware before 5.17 and *)
(* make their calls from one thread: any careful application, or the       *)
(* example. Or they make them from several threads, and only the way that  *)
(* their calls take is looked at. Or they call a helper, once.             *)
(***************************************************************************)
EXTENDS BasicUsage, Conversions, LogBuffer, Shims

CONSTANTS main, callback

GrowingCallbacks == {{"notify"}, MainCallbacks}

VARIABLE application  \* the kind of it

InitClient ==
  /\ InitMain
  /\ InitShims
  /\ application \in {"one thread", "threads", "helper"}
  /\ application # "one thread" => line = "any"
  /\ application # "threads" => firmware = "old"
  /\ IF application = "helper"
       THEN \/ InitConversions /\ dump = NoDump
            \/ InitDump /\ input = NoInput
       ELSE input = NoInput /\ dump = NoDump

NextClient ==
  /\ \/ application = "one thread" /\ NextMain /\ UNCHANGED shimVars
     \/ application = "threads" /\ NextShims /\ UNCHANGED everything
     \/ application = "helper" /\ UNCHANGED <<everything, shimVars>>
  /\ UNCHANGED <<application, input, dump>>

FairSpecClient ==
  /\ InitClient
  /\ [][NextClient]_<<everything, shimVars, application, input, dump>>
  /\ FairnessMain
  /\ FairnessShims
============================================================================
