--------------------------- MODULE CreditWorkflow ---------------------------
(***************************************************************************)
(* CreditCoApprovalWorkflow with its five stages, run by Temporal workers  *)
(* for one case. The workflow passes only the case id from step to step    *)
(* (claim check); the record itself is kept by the tiered store: a cache   *)
(* in the memory of each process (L1) over the shared database (L3). There *)
(* is no L2 unless REDIS_URL is set.                                       *)
(*                                                                         *)
(* A worker is an event loop. An activity has no await between loading the *)
(* record and storing it, so one worker runs one activity at a time and    *)
(* the activities of different workers interleave: Start loads, Finish     *)
(* runs the agent and stores. The server may meanwhile have timed the      *)
(* attempt out; the attempt runs on, and its answer is ignored.            *)
(***************************************************************************)
EXTENDS CaseRecord, FiniteSets

CONSTANTS
    Workers, Processes,
    Home,            \* the process a worker (event loop) belongs to
    MaxAttempts,     \* RetryPolicy.maximum_attempts
    MayTimeOut,      \* agents whose attempts may exceed start_to_close
    MayGiveUp,       \* agents that may exceed schedule_to_close
    DbFails,         \* whether a write to the database may fail
    MaxCrashes,      \* bound on process crashes
    None             \* no record

ASSUME WorkflowAssumptions ==
    /\ Home \in [Workers -> Processes]
    /\ MaxAttempts \in Nat \ {0}
    /\ MayTimeOut \subseteq Agents
    /\ MayGiveUp \subseteq Agents
    /\ DbFails \in BOOLEAN
    /\ MaxCrashes \in Nat
    /\ None \notin Record

VARIABLES
    l1,        \* InMemoryClaimCheckStore of each process
    db,        \* the row of credit_cases
    job,       \* what each worker is running
    status,    \* what the workflow knows of each step
    attempts,  \* attempts of each step that are over without an answer
    crashes    \* number of process crashes so far

vars == <<l1, db, job, status, attempts, crashes>>

\* "live": the server still waits for the answer of this attempt.
Idle == [step |-> "", live |-> FALSE, record |-> None]

Init ==
    /\ l1 = [p \in Processes |-> None]
    /\ db = None
    /\ job = [w \in Workers |-> Idle]
    /\ status = [n \in Steps |-> "todo"]
    /\ attempts = [n \in Steps |-> 0]
    /\ crashes = 0

----------------------------------------------------------------------------
\* Activities

\* TieredClaimCheckStore.get
Load(p) == IF l1[p] # None THEN l1[p] ELSE db

\* Fault: the cache of the process is not looked after by the store.
StoreUncached(p, r) ==
    /\ db' \in IF DbFails THEN {db, r} ELSE {r}
    /\ UNCHANGED l1

\* TieredClaimCheckStore.put: a database error is logged and forgotten.
Store(p, r) ==
    /\ l1' = [l1 EXCEPT ![p] = r]
    /\ db' \in IF DbFails THEN {db, r} ELSE {r}

\* Fault: the barrier lets A5 through before every branch is over.
ReadyAtFirst(n) ==
    /\ status[n] = "todo"
    /\ \/ \A m \in Before(n) : status[m] = "done"
       \/ n = "A5" /\ \E m \in Branches : status[m] = "done"

\* Fault: the debaters are not kept in turn.
ReadyToSpeak(n) ==
    /\ status[n] = "todo"
    /\ \A m \in Before(n) \ Debaters : status[m] = "done" \/ (m \in Branches /\ status[m] = "failed")

\* The workflow has scheduled n: the steps before it have answered, or, for
\* the fan-out gathered with return_exceptions, given up.
Ready(n) ==
    /\ status[n] = "todo"
    /\ \A m \in Before(n) : status[m] = "done" \/ (m \in Branches /\ status[m] = "failed")

Running(n) == \E w \in Workers : job[w].step = n /\ job[w].live

\* A worker takes the task and loads the record. An agent that finds none
\* begins a new one, and stores it at once; the control raises ValueError and
\* is tried again, to the same effect for as long as there is no record.
Start(w, n) ==
    /\ job[w] = Idle
    /\ Ready(n) /\ ~Running(n)
    /\ LET p == Home[w] IN
       \/ /\ Load(p) # None
          /\ job' = [job EXCEPT ![w] = [step |-> n, live |-> TRUE, record |-> Load(p)]]
          /\ l1' = [l1 EXCEPT ![p] = Load(p)]
          /\ UNCHANGED db
       \/ /\ Load(p) = None /\ n # "CONTROL"
          /\ job' = [job EXCEPT ![w] = [step |-> n, live |-> TRUE, record |-> Fresh]]
          /\ Store(p, Fresh)
    /\ UNCHANGED <<status, attempts, crashes>>

\* The agent runs on the loaded copy, the result is stored, and the server is
\* told if it still wants to know.
Finish(w) ==
    LET n == job[w].step IN
    /\ job[w] # Idle
    /\ \E r \in Results(job[w].record, n) : Store(Home[w], r)
    /\ job' = [job EXCEPT ![w] = Idle]
    /\ status' = IF job[w].live THEN [status EXCEPT ![n] = "done"] ELSE status
    /\ attempts' = IF job[w].live THEN [attempts EXCEPT ![n] = 0] ELSE attempts
    /\ UNCHANGED crashes

----------------------------------------------------------------------------
\* The server, and the machine the workers run on

\* Fault: an attempt without an answer is not counted.
LoseUncounted(lost) == UNCHANGED <<status, attempts>>

\* Fault: one attempt too many.
LoseTooLate(lost) ==
    LET failed == {n \in lost \ {"CONTROL"} : attempts[n] >= MaxAttempts} IN
    /\ status' = [n \in Steps |-> IF n \in failed THEN "failed" ELSE status[n]]
    /\ attempts' = [n \in Steps |-> IF n \in failed THEN 0
                                    ELSE IF n \in lost \ {"CONTROL"} THEN attempts[n] + 1
                                    ELSE attempts[n]]

\* Attempts of these steps are over without an answer: another one follows,
\* up to the limit. The control has no retry policy of its own, hence no limit.
Lose(lost) ==
    LET failed == {n \in lost \ {"CONTROL"} : attempts[n] + 1 >= MaxAttempts} IN
    /\ status' = [n \in Steps |-> IF n \in failed THEN "failed" ELSE status[n]]
    /\ attempts' = [n \in Steps |-> IF n \in failed THEN 0
                                    ELSE IF n \in lost \ {"CONTROL"} THEN attempts[n] + 1
                                    ELSE attempts[n]]

\* start_to_close has passed. The attempt itself goes on.
TimeOut(w) ==
    /\ job[w].live /\ job[w].step \in MayTimeOut
    /\ Lose({job[w].step})
    /\ job' = [job EXCEPT ![w].live = FALSE]
    /\ UNCHANGED <<l1, db, crashes>>

\* schedule_to_close has passed, whether or not an attempt is running.
GiveUp(n) ==
    /\ n \in MayGiveUp /\ Ready(n)
    /\ status' = [status EXCEPT ![n] = "failed"]
    /\ attempts' = [attempts EXCEPT ![n] = 0]
    /\ job' = [w \in Workers |-> IF job[w].step = n THEN [job[w] EXCEPT !.live = FALSE]
                                 ELSE job[w]]
    /\ UNCHANGED <<l1, db, crashes>>

\* Other cases push this one out of the cache.
Evict(p) ==
    /\ l1[p] # None
    /\ l1' = [l1 EXCEPT ![p] = None]
    /\ UNCHANGED <<db, job, status, attempts, crashes>>

\* A process dies and is started again. The attempts that were running in it
\* are lost; the workflow history is the server's and survives.
Crash(p) ==
    LET dead == {w \in Workers : Home[w] = p}
    IN
    /\ crashes < MaxCrashes
    /\ crashes' = crashes + 1
    /\ l1' = [l1 EXCEPT ![p] = None]
    /\ job' = [w \in Workers |-> IF w \in dead THEN Idle ELSE job[w]]
    /\ Lose({n \in Steps : \E w \in dead : job[w].step = n /\ job[w].live})
    /\ UNCHANGED db

Next ==
    \/ \E w \in Workers : (\E n \in Steps : Start(w, n)) \/ Finish(w) \/ TimeOut(w)
    \/ \E n \in Steps : GiveUp(n)
    \/ \E p \in Processes : Evict(p) \/ Crash(p)

\* Temporal hands every scheduled task to a worker that asks for one, and an
\* activity that was started comes to its end.
Fairness ==
    \A w \in Workers : WF_vars(\E n \in Steps : Start(w, n)) /\ WF_vars(Finish(w))

Spec     == Init /\ [][Next]_vars
FairSpec == Spec /\ Fairness

----------------------------------------------------------------------------
\* Properties

TypeOK ==
    /\ l1 \in [Processes -> Record \cup {None}]
    /\ db \in Record \cup {None}
    /\ job \in [Workers -> {Idle} \cup [step: Steps, live: BOOLEAN, record: Record]]
    /\ status \in [Steps -> {"todo", "done", "failed"}]
    /\ attempts \in [Steps -> 0..(MaxAttempts - 1)]
    /\ crashes \in 0..MaxCrashes

\* What the pipeline has passed.
Passed == {n \in Steps : status[n] = "done" \/ (n \in Branches /\ status[n] = "failed")}

\* One process running one activity at a time keeps the promise of the
\* pipeline in spite of caches, crashes, timeouts and retries: every step is
\* run on a record that holds everything that came before it, and leaves all
\* but its own part of it alone (README: the branches are "merged through
\* State ownership").
Pipeline == INSTANCE CasePipeline WITH
    record <- IF db = None THEN Fresh ELSE db,
    done <- Passed

KeepsPipeline == Pipeline!Spec

\* The result of every step that has answered is in the record the next step
\* will be run on, whichever process it lands in. (A debater is looked for by
\* its turn.)
Holds(r, n) ==
    IF n \in CreditDebaters THEN \E i \in DOMAIN r.credit_debate : r.credit_debate[i] = n
    ELSE IF n \in Debaters THEN \E i \in DOMAIN r.risk_debate : r.risk_debate[i] = n
    ELSE \A f \in Owned(n) \ {"case_file"} : r.field[f] # "absent"

NothingLost ==
    \A n \in Steps, p \in Processes :
        status[n] = "done" => Load(p) # None /\ Holds(Load(p), n)

\* The reports of the branches are merged by ownership: whatever interleaving
\* the parallel branches run in, and wherever, the stored record holds the
\* report of every branch that has answered.
MergedByOwnership ==
    \A n \in Branches : status[n] = "done" => db # None /\ Holds(db, n)

\* The control is fail-closed: a case is presented as ready for human review
\* only when all the evidence is there, raises no objection, and a deal is
\* proposed. A model may have said anything in between.
ReadyOnlyOnEvidence ==
    (status["CONTROL"] = "done" /\ db.field["control"] = "READY_FOR_HUMAN_REVIEW") =>
        /\ \A f \in Reports \cup {"data_quality", "deal_proposal"} : db.field[f] = "clear"
        /\ db.field["coapproval_opinion"] = "APPROVE_WITH_CONDITIONS"

\* A retried debater may repeat its turn but never speaks out of turn.
Order == <<"A6", "A7", "A10", "A11", "A12">>
InTurn(debate) ==
    \A i, j \in DOMAIN debate, k, l \in DOMAIN Order :
        i < j /\ debate[i] = Order[k] /\ debate[j] = Order[l] => k <= l

TurnsInOrder ==
    \A p \in Processes : Load(p) # None =>
        InTurn(Load(p).credit_debate) /\ InTurn(Load(p).risk_debate)

\* The workflow comes to an end: judged by the control, or failed in a step
\* whose failure the stage does not absorb.
Over == status["CONTROL"] = "done" \/ \E n \in Agents \ Branches : status[n] = "failed"
Ends == <>Over
=============================================================================
