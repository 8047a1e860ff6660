--------------------------- MODULE MCRunRegistry ---------------------------
(***************************************************************************)
(* Two runs of one scenario, with a cluster, without one, or with one that *)
(* comes and goes; on a pipeline of the control alone, or of an agent and  *)
(* the control. A worker is in one call at a time.                         *)
(***************************************************************************)
EXTENDS RunRegistry

TwoNodes == <<"A1", "CONTROL">>
OneNode  == <<"CONTROL">>
=============================================================================
