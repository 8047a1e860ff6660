---------------------------- MODULE CasePipeline ----------------------------
(***************************************************************************)
(* What running a case promises, wherever and on whatever its steps run:   *)
(* there is one record, each step adds its own result to all that was      *)
(* there before, in the order of the barriers, and a step that is tried    *)
(* again adds its result again before anybody has built on it.             *)
(***************************************************************************)
EXTENDS CaseRecord

VARIABLES record,   \* the case
          done      \* the steps the pipeline has passed

pipelineVars == <<record, done>>

Init == record = Fresh /\ done = {}

\* Nobody has passed a barrier that n is in front of.
Open(n) == Before(n) \subseteq done /\ \A m \in done : n \notin Before(m)

\* n leaves its result; the pipeline may not hear of it, and n be run again.
Publish(n) ==
    /\ Open(n)
    /\ record' \in Results(record, n)
    /\ done' \in {done, done \cup {n}}

\* The barrier lets go of a branch that gave up.
Skip(n) ==
    /\ n \in Branches
    /\ Open(n)
    /\ done' = done \cup {n}
    /\ UNCHANGED record

Next == \E n \in Steps : Publish(n) \/ Skip(n)

Spec == Init /\ [][Next]_pipelineVars
=============================================================================
