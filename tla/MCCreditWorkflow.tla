-------------------------- MODULE MCCreditWorkflow --------------------------
(***************************************************************************)
(* Instances of CreditWorkflow. The runs differ in how the workers are     *)
(* spread over processes and in which agents may fail to answer.           *)
(***************************************************************************)
EXTENDS CreditWorkflow, TLC

CONSTANTS w1, w2, p1, p2

\* One process with one event loop, which is what "credit_agent_poc run"
\* starts; and the worker process of the README beside the web server, whose
\* own runner polls the same queue.
OneHome  == w1 :> p1
TwoHomes == w1 :> p1 @@ w2 :> p2

\* Who may lose an answer: the intake, a branch and a debater of each debate
\* may exceed the time of an attempt, a branch and an agent whose failure ends
\* the workflow that of all attempts. The integrity analyst has a run of its
\* own.
SomeAgents == {"A1", "A2", "A7", "A10"}
SomeGiveUp == {"A4", "A9"}
IntegrityOnly   == {"A3"}
Nobody          == {}
=============================================================================
