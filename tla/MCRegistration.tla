--------------------------- MODULE MCRegistration ---------------------------
(* An application whose callbacks are for notifications only.              *)
EXTENDS Registration

NotifyOnly == {{"notify"}}
============================================================================
