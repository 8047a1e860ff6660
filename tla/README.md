# Verification of CreditAgent

TLA+ models of `credit_agent_poc`, the multi-agent credit co-approval system:
thirteen agents analyse a credit case in a Temporal workflow or in memory, a
deterministic control judges the result, an explanation of it is shown, and
people sign it through a decision layer. The models are checked with TLC on
small instances; the decision layer, the workflow with one worker, the in-memory
engine, the circuit breaker of the tool gateway, the decision records and the
registry of runs are also proved correct with TLAPS for instances of any size.

All paths below are under `src/src/credit_agent_poc/` of the repository.

## 1. The system

| Component | State | Operations | Why it is hard | What makes it correct |
|---|---|---|---|---|
| Human decision layer, `control_gate.py` | `Case` (revision, source hash, control state), `DecisionStore`, `AcknowledgementStore`, audit log, notification sinks, model risk feedback | `submit`, `acknowledge`, `evaluate`, `apply_case_revision` | threads share one service; only `insert` takes a lock; audit and notifications can fail half-way; revisions arrive during a submit | one terminal decision per revision; audit before notification before row; no signature against the opinion without authority, reason and acknowledgement; truthful answers; a closed case is only looked at |
| Temporal workflow, `workflow.py` | history of the server; per process: active model, gateway, observer | `CreditCoApprovalWorkflow` and its five stages, `execute_agent_node`, `evaluate_control_node`, degraded fallback | parallel branches on several workers, retries of attempts that still run, timeouts, crashes | a step sees everything before it and spoils nothing; the control is fail-closed; the run ends |
| In-memory engine, `workflow.py` | one `CreditState` | `execute_workflow_in_memory` | any agent may be replaced by a substitute, in any combination | only a sound case is presented as ready |
| Claim check store, `claim_check.py` | LRU cache per process, optional Redis, database | `get`, `put`, `delete`, `clear` | stale caches, eviction of running cases, back-fill races, swallowed database errors | a load returns the last store |
| Case record, `models.py` | `CreditState`, `OWNERSHIP`, `state_version` | `apply_patch` | optimistic versions that every caller rewrites | nobody writes what another step owns |
| Agents, `agents/`, `model.py` | none | `AgentRuntime.run` for A1..A13 | context builders that raise on missing reports; tools that answer nothing; arbitrary model output | an agent writes its own part or its degraded substitute |
| State repository, `db.py` | cases, checkpoints, audit events, human decisions | `save_case`, `save_checkpoint`, `record_human_decision` (and `_v2`), `verify_decision_integrity_seal` | upserts without version; checkpoints keyed without the run; lookup and insert on two connections | records of different runs do not mix; a key records once; a seal tells what was changed |
| Tool gateway, `tools/` | circuit per tool, rate window | `ToolGateway.call` | no locks: methods overlap in threads, counts are lost; calls that end after the circuit changed | no circuit opens without cause, a tool that is gone has its circuit opened, one that is back is used again; while callers wait for each other, a tool is skipped just when it is due |
| Orchestrator, `orchestrator.py` | none of its own | `run` | wraps the engine | as the engine |
| Web API and CLI, `web.py`, `cli.py` | registry of runs | HTTP handlers, a thread per run | runs share the observer and the tables; activities report late; logging may raise | a run is reported as it ended, shows its own nodes, and is explained by its own case |
| Outcomes, risk propagation, explainer | none | pure functions of a finished case | thresholds of their own, defaults for what is missing | they do not contradict the control |
| Dossiers and tool back ends, `scenarios.py`, `dossier_generator.py`, `tools/simulated/` | none | pure functions of a dossier | several thresholds for one question | a dossier comes to its expected outcome |
| LLM synthesizer, prompts, adapters | none | HTTP | none | input and output |

How they interact: a client starts a run in a thread of the web server; the
engine runs it on the cluster or in memory. On the cluster the workflow passes
the case id from step to step; each activity loads the record from the claim
check store, runs an agent (which calls tools through the gateway), applies the
patches and stores the whole record. The control reads the stored record. Its
verdict and A13's opinion, with the outcomes, risk paths and explanation made of
them, are what a person sees; that person acts through `DecisionService.submit`,
which asks the gate, writes the audit event, notifies, and inserts the decision,
or through the endpoint that writes to `human_decisions`.

## 2. The modules

| Module | Models | Kind |
|---|---|---|
| `ControlGate` | rules of the gate, reason codes, notifications, next state | operators |
| `DecisionService` | `submit`, `acknowledge` and `apply_case_revision`, called by several threads | state machine |
| `DecisionLedger` | what a decision service promises: audit, deliver, commit | abstract specification |
| `DecisionServiceProofs` | theorems about `DecisionService`: types, order of a submit, one decision, the ledger | proofs |
| `DecisionRowsProofs` | theorems about what `DecisionService` records and answers | proofs |
| `DecisionSerialProofs` | theorems about callers that wait for each other | proofs |
| `CaseRecord` | the record, what each agent and the control make of it when a model may answer anything | operators |
| `CreditWorkflow` | workflow, server, workers, tiered store, crashes | state machine |
| `CreditWorkflowProofs` | theorems about `CreditWorkflow`, with any number of workers and with one | proofs |
| `CasePipeline` | what running a case promises | abstract specification |
| `CreditScenario` | dossiers, and what the simulated back ends answer about one | operators |
| `ScenarioAgents` | the thirteen agents on the deterministic model, their substitutes, the control | operators |
| `ScenarioReport` | outcome of each node, paths of the risks | operators |
| `CaseExplanation` | risk level, drivers and colours of the explanation | operators |
| `ScenarioRun` | the in-memory engine on a dossier | state machine |
| `ScenarioRunProofs` | theorems about `ScenarioRun` | proofs |
| `ToolGateway` | allowlist, limiter, circuit breaker, overlapping callers in the middle of their methods | state machine |
| `ToolGatewayProofs` | theorems about `ToolGateway` | proofs |
| `DecisionRecords` | `human_decisions`: both ways a row gets there, seals | state machine |
| `DecisionRecordsProofs` | theorems about `DecisionRecords` | proofs |
| `RunRegistry` | background runs of the web server, engine choice and fallback, observer and late activities, cases, checkpoints | state machine |
| `RunRegistryProofs` | theorems about `RunRegistry` | proofs |
| `MC...` | instances for TLC | model checking |

`DecisionService` extends `ControlGate` and implements `DecisionLedger`.
`CreditWorkflow` extends `CaseRecord` and implements `CasePipeline`.
`ScenarioRun` extends `CaseExplanation`, `ScenarioReport`, `ScenarioAgents` and
`CreditScenario` in turn and implements `CasePipeline` as well: the two engines
are two implementations of one pipeline. `MCToolGateway` takes the tools of each
agent from `ScenarioAgents` and assumes (TLC evaluates it) that none calls a tool
outside of its allowlist.

Operators whose comment begins with "Fault:" are never used by a specification.
Each is a plausible bug in the operator below it, kept to show that the property
named in `PROJECT.json` notices it.

### The decision layer

`ControlGate` translates `ControlGate.evaluate` as what it answers: the stage at
which the function returns (`Stage`: closed case, outage, no valid opinion, stale opinion,
evidence review, opinion in force), what is `Offered` there, and what
is left after the authority check (`Allowed`). `WarningHash`, `IsFresh` and
`AckValid` are the freshness rules. `ReasonVerdict`, `Notifications`,
`NextState` and `Alignment` are the private methods of the service. Hashes are
the tuples they are computed from: equal exactly when the inputs are equal.

`DecisionService` has one call in flight per thread, at a program counter `pc`
that follows `submit`: `Begin` (or `Replay` of an idempotency key), the gate
(`GateRefuses`, `ReasonRefuses`, `GatePasses`), `WriteAudit`, `Notify` once per
notification, `Seal`, `Insert` under the store's lock, `Feedback`. Every failure
path of the code is an action (`AuditWriteFails`, `DigestFails`,
`MandatoryFails`, `SealFails`, `InsertConflicts`). `Revise` is split where the
code has three separate assignments. `SerialSpec` is the service behind callers
that wait for each other: a submit or a revision runs alone. What the callers do between calls (new
opinion, new rules, outage, evidence flag, time) is external.

Abstractions:
- Evaluating the gate is one step. It reads the case several times, but the
  torn reads a concurrent revision can cause only change which refusal is given:
  the hash of the warning is recomputed after freshness is tested.
- of the fields of the case that a decision copies, the model keeps the
  revision, read where the code reads it.
- `supersede_all` is one step, and `audit_log` (line 1099) returns.

### The workflow

`CaseRecord` keeps, per field, whether it is absent, clear or adverse: that is
all the control and the later agents tell apart. A degraded substitute is
adverse. The model behind an agent may return anything. The version of the
record is left out, because every caller rewrites the version of a patch to that
of the record (`workflow.py:191`), so that it never refuses one.

In `CreditWorkflow` a worker is an event loop. An activity has no `await`
between load and store, so a worker runs one activity at a time and `Start`
(load) and `Finish` (agent, patches or substitute, store, answer) of different
workers interleave. `TimeOut` ends the server's interest in an attempt that runs
on; `GiveUp` is the schedule-to-close timeout; `Lose` counts attempts; `Evict`
is the LRU limit; `Crash` kills the workers and the cache of a process. A branch
that fails is absorbed by the gather of stage 1, any other failure ends the
workflow. The agents `A2`, `A3`, `A4` share a barrier before `A5`.

`CasePipeline` knows one record and the set of passed steps. The mapping: the
record is the row of the database, and a step is passed when the workflow has
its answer (or, for a branch, its failure).

### The in-memory engine and its dossiers

A dossier (`CreditScenario`) has the fields that some agent or back end compares
with a threshold; ratios are hundredths. `Catalog` is the registered scenarios,
`Generated` the archetypes of the generator (a random draw is one of the ends of
its range), `CustomAround` dossiers just at and just below each threshold. A
back end's answer is an operator of the dossier.

`ScenarioAgents` has one operator per agent: what `ScenarioModel._aN` puts into
its output, of what later agents and reports look at. `Raises` is when the agent
does not get so far: a tool it needs has not answered, or a report it needs is
missing. `Substitute` is the dictionary `execute_workflow_in_memory` then writes.
`ScenarioRun` runs them in order; `Complete` and `Degrade` choose which of the
agent's tools answer, fail or are skipped by an open circuit, within a bound on
failures the dossier does not ask for.

`ScenarioReport` and `CaseExplanation` are functions of a finished run. The
outcome rules meet a substitute without any key they look for, which
`OutcomeOfError` translates rule by rule; the explanation has defaults for that
(`StatementMonths`, `DscrVal`, ...). Of the explanation, the decisions in it are
modelled (which drivers, which colours), not its prose.

### The tool gateway

Nothing in `tools/` is locked, and threads share a gateway: `_ACTIVE_GATEWAY` is
one per process, used by the activities of every run on the cluster
(`workflow.py:719`). So each access to what callers share is an action, and what
a method has read stays in variables of the caller meanwhile. `Clean`, `Keep`,
`Room` and `Enter` are `RateLimiter.allow`; `Look`, `Last` and `Decide` are
`get_state`, which puts an open circuit on trial as a side effect; `Close` and
`Zero` are `record_success`; `Count`, `Write`, `Stamp` and `Judge` are
`record_failure`. `Raise` is an exception other than `ToolExecutionError`, of
which the breaker never hears. Times are ages in ticks, capped where they no
longer matter. Back ends come and go (`Switch`). `reported` is no state of the
code: it counts what callers have reported, for the properties to compare with.
Abstraction: the limiter takes the time and runs over its list in one step.

A run that was never on the cluster has a gateway that no other thread uses
(`orchestrator.py:74` makes one per orchestrator, `web.py:44` one of those per
run), and its agents' calls, which are not asynchronous, wait for each other in
one event loop. `FailsFastJustWhenDue` and `RateIsKept`, which overlapping callers
break, speak of behaviours as long as no call was begun during another
(`reported.alone`).

### Decision records

A row has the columns the seal and the gate of `db.py` look at. A seal is what is
hashed: the pieces between the bars of the payload, so that a text with bars in it
(`Barred`) is several pieces, and two payloads have one seal just when they are
one text. That hashes do not collide is assumed. `SealV1` has eight fields,
`SealV2` nine; `Stored` is what the columns make of a decision (`Columned`: an
INTEGER column keeps 1.0 as 1), `Read` what verification reads of a row
(`opinion_id or ''`, `opinion_version or 1`). `Null` is None and NULL; its text
"None" is kept apart from a client's string "None". `Record` is the upsert of
`record_human_decision`; `Lookup` and `Insert` are the two connections
`record_human_decision_v2` opens; `LIKE '%key%'` is the constant `Occurs`. `Edit`
is a change of the table from outside, which the seal is there to show.

### The registry of runs

A run is a thread at a position: its nodes' events, then its checkpoints, then
its case. `Engine` chooses the cluster or memory; `ClusterFails` is the one
retry on a RuntimeError and the fallback to memory; `Return` and `RunFails` pass
through the `finally` that resets the module global `_ACTIVE_OBSERVER`. On the
cluster an activity reads the observer (`Activity`, of the attempt the cluster
waits for, or `LateActivity`, of any other), and the call of it waits for
`runs_lock` until `Tell`: whose run it was may be over by then. In memory the
observer is the run's own (`Event`). The rows of `cases` and `state_checkpoints`
are what `save_case` and `save_checkpoint` leave.
Abstractions: the inserts of audit events, whose failure is swallowed, are left
out; what nodes compute is in the other modules.

## 3. The runs

| Run | Question | Result |
|---|---|---|
| `decision_concurrent` | two submits, acknowledgement, revision and failures in every order | one terminal row per revision, no plain signature on an unfavourable opinion, truthful answers, implements `DecisionLedger` |
| `decision_serial` | callers that wait for each other | idempotent retries, signatures on the current revision, closed stays closed but for a VIEW without audit entry, every call answered |
| `decision_sole` | one call, every kind of request, opinion and failure, expiry, outage | exceptions are authorised, explained and reported; authority where it is asked for |
| `decision_revised_under_submit` | is the signature for the acknowledged revision? | no, when the case is revised during the submit |
| `workflow_pipeline` | one process, one event loop, timeouts, retries, eviction, a crash | nothing lost, fail-closed, turns in order, ends, implements `CasePipeline` |
| `workflow_fail_open` | A3 never answers | the case is presented as ready |
| `workflow_lost_report` | workers in two processes | a branch's report disappears |
| `scenario_run` | every dossier, in memory, with two failures anywhere | ready only if the dossier is sound and the deciding agents ran; expected outcomes; outcomes, risk paths and explanation agree with the control |
| `tool_gateway` | callers that overlap inside the methods, or wait for each other; a limit; a tool that comes and goes | no circuit opens without cause; one whose tool is gone opens; a tool that is back is used again; while callers wait for each other, the breaker answers just when it is due and the rate is kept |
| `decision_records` | concurrent requests through both write paths, edits, fields with bars | one row per key; without bars under a decision_id, its seal tells, and what verifies was let through |
| `run_registry` | two background runs, cluster or memory, fallback, late activities, failing log | runs end for their clients and stay as they ended; a run in memory shows its own nodes; the observer and the explanation are of a run that fits |
| `run_checkpoints` | does each run find its checkpoints? | no: the second run overwrites the first and finds none |

The runs with expectation "violation" each refute a sentence of the repository's
documentation or comments; `findings` in `PROJECT.json` quotes it.

Some properties say less than one would wish, because the code does less; each
says in its comment what it leaves out. `ClosedUnlessUnaudited` lets a VIEW
whose audit entry fails reopen a closed case, and is about callers that wait for
each other. `MemoryIsItsOwn` is silent about runs that were on the cluster, and
`ObserverIsRunning` does not say that the observer still runs when it is told.
`ExplanationNotOlder` lets a run in memory be explained by a later one.
`OnlyForward` lets a success become a failure when its logging fails.
`OpensForCause` forgets a reported failure only for a success that no failure's
recording overlapped. `FailsFastJustWhenDue` and `RateIsKept` are about callers
that have waited for each other so far. `SealTells` and `VerifiedIsLegitimate` are about decision_ids
under which no field with a bar was recorded (`Separated`).
`SignalsAgree` leaves out the agents whose colours go by stricter limits.
`DecidedWithAuthority` lets anybody reject when no opinion is in force.

**Bounds.** Decision runs: two threads, because every property relates at most
two calls; two revisions, so that one change happens during a submit; one
acknowledgement per thread's actor is enough to be superseded; notification
failures are enabled one trigger at a time where more would only repeat the same
path. `Required` is one authority level, with actors below and at it, so both
sides of each comparison occur; `decision_sole` varies the data the other runs
fix. `ValidityDays` is 0 or 1, so an opinion can expire within the bound.
Workflow runs: `MaxAttempts` is 2 (3 in the code), enough for a retry and for
exhaustion; `MaxCrashes` is 1; an intake, a branch and a debater of each debate
may time out, and a branch and a later agent may give up: one of each role, as
agents of a role are treated alike. In `workflow_pipeline` the integrity analyst
does not give up: that it may is what `workflow_fail_open` is about.
`scenario_run`: `MaxFaults` is 2, so that one failure may hide another; a tool or
an agent counts as one. The amounts are one on each side of the limit of three
billion, `CustomAround` adds the limit and one more.
`tool_gateway`: threshold 2 (3 in the code), so that of two failures that overlap one
is lost, and cooldown two ticks: below the threshold, at it, within the cooldown and
after it all occur; two callers at one tool, so that one is anywhere inside a method
while the other changes the circuit; one of two agents may call it, so that the
allowlist refuses; a limit of one call in a window of one tick, so that both wait for
one place. That circuits of two tools are apart is left to the proofs.
`decision_records`: three calls, for a row, an upsert over it and a third that
meets both; one key that occurs in the other; an amount of "1.0", which comes
back as "1", a request that leaves opinion_id and version to the opinion, and a date with a bar.
`run_registry`: two runs of one scenario, because properties relate at most two
runs; one scenario, because runs of two share only the observer and the
checkpoints, which two runs of one share as well; one node, the control, which
every pipeline ends with: an agent before it repeats what it does before the last
step (`run_checkpoints` has one); one worker that may be in a call while either run
goes on, retries or ends. The proofs are for any number.

**Deadlock.** `tool_gateway` is checked for it. The other runs stop when their
calls have been answered or the run is over, hence `CHECK_DEADLOCK FALSE`;
`Answered`, `Ends` and `RunsEnd` say that they do not stop earlier.

**Fairness.** `DecisionService`: each call in flight goes on, weakly fair per
thread, as a thread of the HTTP server does; nothing is assumed of the callers,
of time or of failures. `CreditWorkflow`: a worker that can take a task takes
one and an activity that was started ends, weakly fair per worker: the server
hands out scheduled tasks and activities are bounded computations. Timeouts,
evictions and crashes are not fair; crashes are bounded in number. Without the
retry limit the workflow need not end (fault `LoseUncounted`). `RunRegistry`:
each thread is weakly fair, and neither cluster nor database blocks for ever:
the engine brings its own worker, the agents' activities have schedule-to-close
timeouts, so that the cluster gives up a run whose activity does not return
(workers themselves need not be fair), and SQLite gives up on a lock. (The activity of the control has no such
timeout; that it is taken by the worker is assumed.) `ToolGateway`: time goes by, and a call
that was begun ends; that somebody calls again, and that the back end stays up,
are hypotheses of `Recovers`; that it stays away and that failures go on being
reported, of `Trips`.

## 4. The proofs

`DecisionServiceProofs` proves, from `ServiceAssumptions` (the constants have
their types) and for any number of threads, actors, keys, revisions and
failures:

- `TypeCorrect`: `Spec => []TypeOK`.
- `OrderOfSubmit`: `Spec => []IInv`. `IInv` strengthens the type invariant by
  what a call has put on record at each program counter (`CallInv`: the audit
  event from `WriteAudit` on, the notifications counted so far), that each row
  was inserted by its own call with its audit event and all it owes
  (`RowsInserted`), that no row is ahead of the case's revision, and that no
  revision has two terminal rows. It is needed because the abstract `Commit`
  demands audit and notifications that the concrete `Insert` never looks at: the
  program counter is the only witness.
- `OneDecision`: `Spec => []OneDecisionPerRevision`, from `IInv`.
- `ImplementsLedger`: `Spec => Ledger!Spec`. Each action maps to `Audit`,
  `Deliver`, `Commit` or a stutter.
- `DecisionsAreAccounted`: what the ledger's steps mean for the stores, by the
  refinement: every row has its audit event and its mandatory notifications, and
  rows, events and notifications are never taken back.
- `CallsComeNearer`: the safety half of `Answered`. `StepsLeft` is at most ten, each
  step of a call lowers it, and no other call, revision or caller raises it. That
  the notifications are few (`FewTriggers`) is what bounds the loop; under the fault
  `DigestRestarts` the step `DigestFails` would not lower it.

`ToolGatewayProofs` proves, from `GatewayAssumptions` (threshold, cooldown and
window are positive), for any agents and tools, threshold, cooldown and rate:

- `TypeCorrect`: `Spec => []TypeOK`, for any number of callers, with what each
  holds in the middle of a method and what the limiter remembers. Its filter is
  a recursive function (`Kept`); that there is one at all (`FilterExists`), and what
  it returns, goes by induction over the length of the history. The library's
  induction takes an operator, so `SetInduction` derives one that takes a set from
  the well-foundedness of < on the naturals.
- `NeverWithoutCause`: `Spec => []OpensForCause`, for any number of callers that
  overlap as they may. A circuit is opened by the count a caller holds, which may be older
  than what others have stored since. So the invariant (`Caused`) says that no
  count, stored or held, is above what has been reported since the last success
  whose recording no failure's overlapped, and that while such a success is
  recorded nobody holds a count and the circuit is not open.
- `FailsFast`: `Spec => FailsFastJustWhenDue`, for any number of callers. While they
  have waited for each other at most one is under way (`InTurn`), and whoever is (`Sole`)
  finds circuits that are settled but for the one it is recording in (`SoleBreaker`): closed
  just when failures are few, on trial only after the cooldown, every failure
  counted. A circuit on trial was opened, so that "admitted implies not due" needs to
  know that a failure during a trial reopens it at age 0, and that no step but the
  cooldown puts it on trial again.
- `RateKept`: `Spec => RateIsKept`, likewise: the limiter never remembers more than
  `MaxRate` calls, forgets none within a window, and refuses a call only for `MaxRate`
  others of the window before it was begun.

That callers wait for each other is what the code gives runs in memory, and not those
that have been on a cluster. Without it both statements are false: section 5.

`RunRegistryProofs` proves, from `RegistryAssumptions` (no run, scenario, entry or
call is taken for nobody, and the nodes are a sequence) and for any number of runs,
workers, scenarios and nodes:

- `RegistryCorrect`: `Spec => []RegistryInv`. None of the properties is
  inductive. `RegistryInv` ties the program counter of each thread
  to the status of its run (`OnItsWay`), says that the observer is a thread in the
  engine that will reset it (`WillLeave`; a thread that leaves may reset the
  observer of another run, but never leaves itself behind), and that a thread
  back from the engine has a case to show (`HasCase`).
- `TypeCorrect`, `ObserverRuns`: `[]TypeOK`, `[]ObserverIsRunning`.
- `OwnNodes`: `[]MemoryIsItsOwn`. A call that waits for the lock is to a run that has
  once set the observer, for ever since it is not one that ran in memory only; so
  what comes late, to whomever, is not told to such a run.
- `NoWayBack`: `Spec => OnlyForward`, by cases of the only five actions that
  change the registry.
- `ExplainsNoOlder`: `[]ExplanationNotOlder`, from a second invariant on top of the
  first, `SavesInv`: the result of a run is the case its thread has saved
  (`ResultIsCase`, `HasSaved`), the case of a run on the cluster is saved by no other
  run (`OwnCase`), and a case that was saved has a last save, without which the
  CHOOSE of `Row` would stand for anything (`HasLast`).
- `RunsComeNearer`: the safety half of `RunsEnd`. `StepsLeft` bounds the steps of a
  thread by three passes through the engine; each step lowers it, a failing
  cluster, too, and no other run raises it. When none are left, the run has
  ended for its client as well (`EndIsTold`), unless its thread was gone at its first line.

`DecisionRecordsProofs` proves, for any number of requests, keys, opinions and
users, whatever is asked:

- `RecordsCorrect`: `Spec => []RecordInv`. A row alone does not say how it got
  there; `Provenance` says that its seal is one of `record_human_decision`, or
  that of a call of `record_human_decision_v2` that the gate has let through, with
  the role, recommendation and explanation of that call in the row. Nothing that
  comes over the row later changes those but an upsert, which changes the seal as
  well. `InTable` says that the row of an answered call stays in the table.
- `KeyRecordsOnce`: `[]OneSuccessPerKey`, from `InTable` and the primary key.
- `VerifiedWasAllowed`: `[]VerifiedIsLegitimate`, and `SealIsExact`: `[]SealTells`,
  from `Provenance` and facts about payloads. `SealV1` joins eight fields and
  `SealV2` nine, whatever the fields are; if none of the eight has a bar in it the
  payload is of eight pieces, and one that verification recomputes has nine at
  least (`SealsDiffer`). Two payloads of nine fields that are equal, one of them
  without bars, are of the same fields (`SameFields`, peeling one off after the
  other). Without the hypothesis `Separated` neither holds.
- `TypeCorrect`: `[]TypeOK`.

`DecisionRowsProofs` proves what is recorded and answered, from the same
assumptions as `DecisionServiceProofs` and on top of its `IInv`:

- `RowsCorrect`: `Spec => []RowsInv`. A row is written many steps after the gate
  was asked, when case, opinion, acknowledgement and rules may all be others; so
  `RowsInv` says what the answer of the gate vouches for (`Vouched`), that each
  call which has passed carries it unchanged (`CallsVouched`), and that each row
  says it (`RowsVouched`, with what the notices of an exception are). That the
  case is SIGNED just when somebody signed it (`SignedBySignature`) is not
  inductive over rows alone: a request that does not close the case stores the
  state it was told, so the invariant also covers calls that were told SIGNED.
  `AnswersDue` ties what a call will answer to what it has inserted.
- `NeverSignedAgainstTheOpinion`, `ExceptionsAreAuthorised`,
  `DecisionsHaveAuthority`, `AnswersAreTrue`: `[]SignedOnlyIfFavourable`,
  `[]ExceptionsAuthorised`, `[]DecidedWithAuthority`, `[]AnswersTellTheTruth`.

`DecisionSerialProofs` proves the properties that overlapping callers break, for
`SerialSpec` and any number of calls and revisions:

- `SerialCorrect`: `SerialSpec => []SerialInv`. `Alone` says that at most one
  thing is in flight, `VerdictHolds` that what the gate answered is still so
  (`Holding`), `KeyIsNew` that the key looked up has not been used since.
- `KeysAreIdempotent`, `SignaturesAreCurrent`: `[]OneRowPerKey`,
  `[]SignedOnCurrentRevision`.
- `ClosedForGood`: `SerialSpec => ClosedUnlessUnaudited`. The answer of the gate to
  a call on a closed case allows VIEW alone, and still holds when the call goes on
  (`VerdictHolds`); a VIEW owes no notification and its row leaves the state as it
  is, so that the audit entry is all that can go wrong. When it does, the case is
  reopened (section 5).

`CreditWorkflowProofs` proves, for any number of processes, crashes and attempts,
any home of the worker, and any agents that time out or give up:

- `TypeCorrect`: `Spec => []TypeOK`, for any number of workers.
- `HistoryStands`, for any number of workers and a database that may fail:
  `Spec => []HistoryInv /\ [][Stands]_vars`. The server waits only for attempts of
  steps that are ready (`LiveIsReady`) and for one of each at a time
  (`OneWaitedFor`), so that whatever comes late, is lost or given up settles a
  step once, and nobody passes a barrier that is not open. The two runners of
  `workflow_lost_report` lose a report, but not the order of the steps.
- `AttemptsAreLimited`, under the same conditions: an agent is tried `MaxAttempts`
  times at most, since every attempt that ends lowers `AttemptsLeft` and nothing
  raises it. It says nothing of the control, whose attempts are not limited.
- `SoleWorkerCorrect`: `Spec /\ Sole => []IInv`, where `Sole` is one worker and a
  database that takes every write. A worker of the model is an event loop, so
  this is a `credit_agent_poc` worker process however many `Worker` objects it
  runs (`workflow.py:1155`), or a runner that serves its own queue alone
  (`workflow.py:726`). It is not two runners on one queue: with two event
  loops the run `workflow_lost_report` refutes `NothingLost`. `IInv` says that
  a cache has the row of the database or nothing (`Coherent`), that the cluster
  opens no step before those it builds on (`Closed`), that the worker's attempt
  is of a step that nobody has built on yet, even one the server has given up
  waiting for (`Working`), that the record it holds is the row (`Held`), that the
  row has what each passed step has left (`RecordOK`), and that the verdict is
  the control's on the record as it is (`Judged`). `Held` is the heart: it is why
  a late attempt stores nothing that is older than what it replaces, and it needs
  the other parts to survive evictions and crashes.
- `NothingIsLost`, `DebatesInTurn`: `[]NothingLost`, `[]TurnsInOrder`. The turns of
  a debater that is tried again may be doubled (`workflow.py:143`); no attempt,
  however late, speaks out of turn.
- `ReadyUnlessIntegrityGivesUp`: as long as A3 has not failed for good,
  `ReadyOnlyOnEvidence` holds. The hypothesis is needed: that A3 may give up is
  what `workflow_fail_open` refutes.
- `ImplementsPipeline`: `Spec /\ Sole => KeepsPipeline`, by cases of the actions:
  the `Finish` of an open step is `Step`, that of a late one repeats what it did
  or stutters, a branch whose failure is absorbed is `Skip`.

`ScenarioRunProofs` proves, from `RunAssumptions` (the dossiers are records of
figures and of tools that fail) and for any set of dossiers, with any figures,
and any number of failures:

- `RunCorrect`: `Spec => []RunInv`. The nodes that have run are the first of the
  pipeline, and each has left its substitute, or what it makes of the tools that
  answered and of the nodes before it (`LeftBy`). That this stays so needs
  `OnlyReads`: an agent looks at no other nodes than those in `Reads`, which have
  run before it and do not change. The properties then say something of
  the thirteen reports at once, of which `Report1` to `Report13` say what is in
  each, according to how its agent ended.
- `OpinionsStand`: `[]OpinionStands`. The argument is `ApprovalRests`: A13 looks
  neither for a cash flow report that was replaced nor for a failure of A8; but
  it approves only what A9 proposes, A9 raises without A1 and A8, and A8 holds
  off when the report was replaced. Take away any of these and an approval
  reaches the control that it has to block.
- `ReadyIsSound`: `[]ReadyOnlyIfSound`, by the same lemma; the missing documents
  that A1 may fail to notice are covered by the validation of the deal.
- `ComesToExpected`: `Spec` and dossiers that expect what their figures call for
  (`Honest`) imply `[]ExpectedUnlessDegraded`. `Honest` is about the data alone;
  TLC evaluates it (`DossiersAreHonest` in `MCScenarioRun`) for the whole catalog,
  each archetype of the generator and the dossiers around the thresholds.
- `OutcomesDoAgree`, `ReasonsAreTraceable`, `ExplanationDoesAgree`:
  `[]OutcomesAgree`, `[]ReasonsTraceable`, `[]ExplanationAgrees`. Outcome rules, risk names and colours
  have thresholds and tables of their own; the proofs compare them with those of
  the back ends for every value of a figure, not just around the thresholds.
- `TypeCorrect`: `[]TypeOK`.
- `ImplementsPipeline`: `Spec => KeepsPipeline`. `Degraded`, `Done`, `Spoken` and
  `Judged` say what each kind of step does to the record the nodes stand for,
  `ContextThere` that an agent which got through had its context.

That `ScenarioRun` implements `CasePipeline` is proved and in no run; that
`CreditWorkflow` does is checked as well.

Only model-checked: liveness (`Answered`, `Ends`, `Trips`, `Recovers`, `RunsEnd`). Fairness
and ENABLED are out of the prover's reach; of `Answered` and `RunsEnd` the variants
are proved, so that what is left to the runs is that a thread which has a step to
take takes it.

## 5. Divergences without a run

Seen while translating, not counted as findings:
- `docs/06:578` (of the file on human approval) blocks every terminal action
  under an invalid or stale opinion, but REJECT is offered (`control_gate.py:658`,
  `669`), whoever asks, though `docs/06:89` blocks it without authority.
- A control state BLOCKED does not stop the gate (`docs/06:90`,
  `control_gate.py:626`).
- An acknowledgement serves other actors too: `_ack_valid` (line 753) does not
  compare the actor.
- ESCALATED does not lock the terminal actions (`docs/06:491`).
- A late ESCALATE, REQUEST_INFO or WITHDRAW moves a case that another signer has
  closed meanwhile (`control_gate.py:1097`; the gate calls those states read-only
  at line 625), and so does one whose audit entry or notification fails (lines 1034
  and 1048): `ClosedUnlessUnaudited` holds only for callers that wait.
- A request to VIEW a closed case passes the gate and is audited like any other
  action; if that entry cannot be written, `control_gate.py:1034` sets BLOCKED,
  and the case that was signed is open again (line 625: a terminal state is only
  read). It takes no overlapping callers: two calls one after the other, with
  `SerialSpec`, are enough (confirmed with TLC). `ClosedUnlessUnaudited` says
  that it takes such a VIEW.
- Two concurrent requests under one key that do not close the case are both
  recorded (`control_gate.py:984`; `docs/06:600`): `OneRowPerKey` likewise.
- In HALF_OPEN the circuit breaker admits every caller (`circuit_breaker.py:35`);
  `docs/09:139` speaks of one trial request.
- Overlapping callers lose failure counts (`circuit_breaker.py:42`), so that a circuit
  may stay closed after the three failures of `docs/09:138`, and one may be open
  although a success has just been recorded. They also exceed the rate of the
  limiter, which promises them nothing (`gateway.py:25`); it is off unless a rate
  is given, as only a test does (`tests/test_poc.py:122`).
- The specialised task queues of `AGENT_EXECUTION_POLICIES` are never passed to
  `execute_activity` (`workflow.py:118`).

Of the workflow and its reports:
- The checkpoints keep the debates by speakers (`workflow.py:781` and `1066`) of
  which the deterministic model uses none for A10 to A12, so that their
  checkpoints lack the debate (`docs/01:96`: a snapshot after every node). After
  A6 and A10 they show later turns as well.
- If `validate_case_completeness` fails, A1 takes the documents for complete
  (`docs/09:140`: fail-closed); the validation of the deal notices it later.
- With its circuit open, the forced failure of `reject_tool_failure` ends in an
  escalation, not in the rejection that `README.md:82` promises.
- A degraded A1, A4, A6, A9 has the outcome PASS (`outcomes.py`).
- A dossier of an unknown archetype above three billion expects approval and is
  escalated.
- Events of concurrent runs on the cluster reach whichever run set the observer
  last (`workflow.py:1116`), and may be told after it is over: a NODE_STARTED that
  waits for `runs_lock` (`web.py:400`) leaves an active node in a run that is
  COMPLETED, for good. `/api/run-custom` may replace a scenario that is
  running.
- `web.py` imports neither `asyncio` nor `AuditEvent`: the background worker
  never starts, and the audit inserts at 419, 434 and 447 fail silently.
- `audit_log` at `web.py:416` is outside the try: if it raises, the run stays
  RUNNING. At 431 it makes FAILED of a completed run, which keeps its result.

Of the records in `db.py`:
- Rows of `record_human_decision` are not meant to verify: their seal leaves out
  the amount (line 263) that verification includes.
- Payloads are joined by a bar (lines 263, 502, 557) that nothing keeps out of the
  fields, a client's among them, so that different decisions may have one payload:
  what the seal promises, it promises for decision_ids whose recorded fields have none.
- A row nobody has changed may fail to verify: an opinion_id that was None is read
  as the empty text, a version of 0 as 1, and an amount of 1.0 comes back from an
  INTEGER column as 1 (line 557).
- A key that is part of another's decision_id finds that decision, and the
  answer is SUCCESS_IDEMPOTENT for something that was never recorded (line 463).
- The upsert (line 274) keeps the signer and replaces the decision.
- The gate of `db.py` compares the opinion's revision with the constant 1 and
  nobody reads its `blocked_reasons`; the human decision is never compared with
  the action; acknowledgements are never consulted.

Of the explanation (`explainer.py`):
- A1 writes no `documents_complete`, so missing documents with twelve months of
  statements show A1 in green (line 359). Six to eleven months show it in red in a
  case that is ready.
- A circular score from 0.40 to 0.79 shows A3 and A7 in red in a case of low
  risk, whose text claims a score of 0.05 (line 366).
- A4 is green when it failed for want of statements; A9 is green when it declined
  without violations; A10 is green when it opposes; substitutes of A10 to A12 are
  green.
- A case escalated because A3 degraded has no driver. An escalated case of
  eighteen months has the driver of a tenor exception, whatever the reason.

## 6. Not modelled

- The hash chain of the audit log and the bytes of hashes: cryptography. Seals are
  compared by what is hashed.
- Redis, TTL, `delete` and `clear` of the store: no activity reaches them without
  `REDIS_URL`.
- What the checkpoints hold: a copy of parts of the final record.
- The acknowledgement table of `db.py`, which nothing else reads, its audit
  events and its quality figures (which count a DIVERGENT row as agreement).
- Prose, Markdown and HTML of the explanation, the LLM synthesizer and its
  prompts, logging, report layout, the static page: wording and layout.
- Mock server and production adapters: input and output.
- The operations of the Temporal server itself, beyond what the code relies on:
  one open attempt per activity, retries as configured, durable history.
- `scripts/load_test.py`, and the skill scripts beside the sources, which are not
  part of the program.

## 7. Plan

What is left, in order:

1. `ClaimCheckStore`: `get` and `put` split at the tiers with several threads;
   property: a load that begins after a store ended returns it, per process.
