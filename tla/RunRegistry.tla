----------------------------- MODULE RunRegistry -----------------------------
(***************************************************************************)
(* The runs the web server starts in the background: the registry that     *)
(* clients poll (POCRequestHandler.runs), the thread of each run           *)
(* (_run_async, the orchestrator and the engine under it), the workers     *)
(* that execute the Temporal activities, and what the threads share        *)
(* besides: the observer the activities report to, and the tables of cases *)
(* and checkpoints.                                                        *)
(*                                                                         *)
(* A run is its position in the events of its nodes; what the agents do is *)
(* in CreditWorkflow and ScenarioRun. The run_id of the engine, of which a *)
(* run has one that is saved, is the run. An activity reads the observer,  *)
(* and calls it later: the call waits for runs_lock. Inserts of audit      *)
(* events, whose failure is swallowed, are left out.                       *)
(***************************************************************************)
EXTENDS Naturals, Sequences

CONSTANTS
    Runs,          \* runs to come
    Scenarios,     \* what they may be runs of
    Workers,       \* the threads that execute activities of any run
    Nodes,         \* the nodes of the pipeline with the control, in order
    Alive,         \* answers to whether a Temporal cluster is there
    LogFails,      \* which of audit_log's calls may raise
    None           \* nobody, nothing

Events  == 2 * Len(Nodes)
NodeSet == {Nodes[i] : i \in DOMAIN Nodes}

EventOf(k) == [event |-> IF k % 2 = 0 THEN "NODE_STARTED" ELSE "NODE_COMPLETED",
               node  |-> Nodes[k \div 2 + 1]]

\* What an observer is told
Happening == [event: {"NODE_STARTED", "NODE_COMPLETED"}, node: NodeSet]

\* Which run and attempt waits for the activity, if any, what it reports, and
\* to whom
Call == [for: Runs \cup {None}, try: 0..2, event: Happening, to: Runs]

\* What the registry knows of a run
Entry == [scenario: Scenarios, status: {"RUNNING", "COMPLETED", "FAILED"},
          active: SUBSET NodeSet, result: Runs \cup Scenarios \cup {None}]

ASSUME RegistryAssumptions ==
    /\ None \notin Runs \cup Scenarios /\ Runs \cap Scenarios = {}
    /\ None \notin Entry /\ None \notin Call
    /\ Nodes \in Seq(STRING) /\ Alive \subseteq BOOLEAN /\ Alive # {}
    /\ LogFails \subseteq {"STARTED", "COMPLETED"}

VARIABLES
    runs,          \* the registry
    thread,        \* of each run: where it is, how far the engine has got,
                   \* whether it set the observer, its attempts on the cluster,
                   \* and the id of the case it has saved
    observer,      \* _ACTIVE_OBSERVER: the run that is told of activities
    saves,         \* save_case, in order: the row of a case is the last one
    checkpoints,   \* position -> row: its run_id, and who wrote the data
    calls          \* of each worker: the call of an observer it is in

vars == <<runs, thread, observer, saves, checkpoints, calls>>

NoThread == [at |-> "none", done |-> 0, observed |-> FALSE, tries |-> 0, case |-> None]

Init ==
    /\ runs = [r \in Runs |-> None]
    /\ thread = [r \in Runs |-> NoThread]
    /\ observer = None
    /\ saves = << >>
    /\ checkpoints = [i \in DOMAIN Nodes |-> None]
    /\ calls = [w \in Workers |-> None]

Goto(r, at) == thread' = [thread EXCEPT ![r].at = at]

----------------------------------------------------------------------------
\* The web server

\* POST /api/run-async, or /api/run-custom, which registers the scenario, too.
RunAsync(r, s) ==
    /\ runs[r] = None
    /\ runs' = [runs EXCEPT ![r] = [scenario |-> s, status |-> "RUNNING", active |-> {},
                                    result |-> None]]
    /\ Goto(r, "start")
    /\ UNCHANGED <<observer, saves, checkpoints, calls>>

\* The first line of the thread is outside of its try: if it raises, it is gone.
Start(r) ==
    /\ thread[r].at = "start"
    /\ \/ Goto(r, "engine")
       \/ "STARTED" \in LogFails /\ Goto(r, "gone")
    /\ UNCHANGED <<runs, observer, saves, checkpoints, calls>>

\* observe: it does not ask whether the run is still running.
Told(run, e) ==
    [run EXCEPT !.active = IF e.event = "NODE_STARTED" THEN @ \cup {e.node} ELSE @ \ {e.node}]

\* Fault: the run is left as it is.
FailUnnoticed(run) == run

Failed(run) == [run EXCEPT !.status = "FAILED", !.active = {}]

Completed(run, case) == [run EXCEPT !.status = "COMPLETED", !.active = {}, !.result = case]

\* Fault: the run is taken up again.
AnnouncedAgain(run) == [run EXCEPT !.status = "RUNNING", !.result = None]

\* The success is logged inside of the try: if that raises, it is a failure.
Announced(run) == Failed(run)

Announce(r) ==
    /\ thread[r].at = "announce"
    /\ Goto(r, "over")
    /\ \/ UNCHANGED runs
       \/ "COMPLETED" \in LogFails /\ runs' = [runs EXCEPT ![r] = Announced(runs[r])]
    /\ UNCHANGED <<observer, saves, checkpoints, calls>>

----------------------------------------------------------------------------
\* The engine: execute_workflow

\* On the cluster, if it is there, with the observer of this run for all the
\* activities of the process; else in memory.
Engine(r) ==
    /\ thread[r].at = "engine"
    /\ \/ /\ TRUE \in Alive
          /\ thread' = [thread EXCEPT ![r].at = "cluster", ![r].observed = TRUE, ![r].tries = 1]
          /\ observer' = r
       \/ FALSE \in Alive /\ Goto(r, "memory") /\ UNCHANGED observer
    /\ UNCHANGED <<runs, saves, checkpoints, calls>>

\* Fault: who is told is the observer of the process.
ListenerOfAll(r) == IF observer = None THEN r ELSE observer

\* The observer the engine in memory was given
Listener(r) == r

\* In memory, the next node begins, or comes to its end.
Event(r) ==
    LET k == thread[r].done IN
    /\ thread[r].at = "memory" /\ k < Events
    /\ thread' = [thread EXCEPT ![r].done = k + 1]
    /\ runs' = [runs EXCEPT ![Listener(r)] = Told(runs[Listener(r)], EventOf(k))]
    /\ UNCHANGED <<observer, saves, checkpoints, calls>>

\* The cluster waits for the activity that is in a call.
Awaited(r) == \E w \in Workers :
    calls[w] # None /\ calls[w].for = r /\ calls[w].try = thread[r].tries

\* The activity reads whoever is the observer now.
Reports(w, for, try, k) ==
    /\ calls[w] = None
    /\ calls' = [calls EXCEPT ![w] =
                   IF observer = None THEN None
                   ELSE [for |-> for, try |-> try, event |-> EventOf(k), to |-> observer]]

\* On the cluster, the next node begins, or comes to its end, at some worker.
Activity(r) ==
    LET k == thread[r].done IN
    /\ thread[r].at = "cluster" /\ k < Events /\ ~Awaited(r)
    /\ thread' = [thread EXCEPT ![r].done = k + 1]
    /\ \E w \in Workers : Reports(w, r, thread[r].tries, k)
    /\ UNCHANGED <<runs, observer, saves, checkpoints>>

\* An attempt that timed out gets on, or a workflow whose client has given up.
LateActivity(r, w) ==
    /\ thread[r].tries > 0
    /\ \E k \in 0..(Events - 1) :
          /\ k < thread[r].done \/ thread[r].tries = 2 \/ thread[r].at # "cluster"
          /\ Reports(w, None, 0, k)
    /\ UNCHANGED <<runs, thread, observer, saves, checkpoints>>

\* The call gets hold of runs_lock.
Tell(w) ==
    /\ calls[w] # None
    /\ runs' = [runs EXCEPT ![calls[w].to] = Told(runs[calls[w].to], calls[w].event)]
    /\ calls' = [calls EXCEPT ![w] = None]
    /\ UNCHANGED <<thread, observer, saves, checkpoints>>

\* save_checkpoint, one after the other when the nodes are through. The id is
\* the position; a row that is there keeps its run.
SaveCheckpoint(r) ==
    LET i == thread[r].done - Events + 1 IN
    /\ thread[r].at \in {"memory", "cluster"} /\ i \in DOMAIN Nodes
    /\ thread[r].at = "cluster" => ~Awaited(r)
    /\ checkpoints' = [checkpoints EXCEPT ![i] =
                         [run |-> IF @ = None THEN r ELSE @.run, by |-> r]]
    /\ thread' = [thread EXCEPT ![r].done = @ + 1]
    /\ UNCHANGED <<runs, observer, saves, calls>>

\* save_case, of the state that is then handed back to the thread. The case of
\* a run on the cluster has an id of its own, one in memory that of all the
\* runs of the scenario.
SaveCase(r) ==
    LET id == IF thread[r].at = "cluster" THEN r ELSE runs[r].scenario IN
    /\ thread[r].at \in {"memory", "cluster"} /\ thread[r].done = Events + Len(Nodes)
    /\ saves' = Append(saves, [case |-> id, run |-> r])
    /\ thread' = [thread EXCEPT ![r].at = "back", ![r].case = id]
    /\ UNCHANGED <<runs, observer, checkpoints, calls>>

\* Fault: every RuntimeError gets the run another attempt.
ClusterFailsAgain(r) ==
    /\ thread[r].at = "cluster"
    /\ thread' = [thread EXCEPT ![r].done = 0, ![r].tries = @ + 1]
    /\ UNCHANGED <<runs, observer, saves, checkpoints, calls>>

\* The cluster, or the database, fails the run: a RuntimeError gets it a second
\* attempt, anything else, or a second one, a run in memory.
ClusterFails(r) ==
    /\ thread[r].at = "cluster"
    /\ \/ /\ thread[r].tries = 1
          /\ thread' = [thread EXCEPT ![r].done = 0, ![r].tries = 2]
       \/ thread' = [thread EXCEPT ![r].at = "memory", ![r].done = 0]
    /\ UNCHANGED <<runs, observer, saves, checkpoints, calls>>

\* Fault: there is no finally.
StaysObserved(r) == UNCHANGED observer

\* finally
Unobserved(r) == observer' = IF thread[r].observed THEN None ELSE observer

\* The database fails a run in memory, or cannot even be opened.
RunFails(r) ==
    /\ \/ thread[r].at = "engine"
       \/ thread[r].at = "memory" /\ thread[r].done >= Events
    /\ Unobserved(r)
    /\ runs' = [runs EXCEPT ![r] = Failed(runs[r])]
    /\ Goto(r, "over")
    /\ UNCHANGED <<saves, checkpoints, calls>>

\* Out of execute_workflow.
Return(r) ==
    /\ thread[r].at = "back"
    /\ Unobserved(r)
    /\ Goto(r, "complete")
    /\ UNCHANGED <<runs, saves, checkpoints, calls>>

Complete(r) ==
    /\ thread[r].at = "complete"
    /\ runs' = [runs EXCEPT ![r] = Completed(runs[r], thread[r].case)]
    /\ Goto(r, "announce")
    /\ UNCHANGED <<observer, saves, checkpoints, calls>>

Step(r) ==
    \/ Start(r) \/ Engine(r) \/ Event(r) \/ Activity(r) \/ SaveCheckpoint(r) \/ SaveCase(r)
    \/ ClusterFails(r) \/ RunFails(r) \/ Return(r) \/ Complete(r) \/ Announce(r)

Next ==
    \/ \E r \in Runs : Step(r) \/ \E s \in Scenarios : RunAsync(r, s)
    \/ \E w \in Workers : Tell(w) \/ \E r \in Runs : LateActivity(r, w)

\* Threads are scheduled, and neither the cluster nor the database keeps one
\* waiting for ever: the cluster gives a run up whose activity does not return.
Fairness == \A r \in Runs : WF_vars(Step(r))

Spec == Init /\ [][Next]_vars /\ Fairness

----------------------------------------------------------------------------
\* What clients read

\* Fault: the row that is there is kept.
RowKept(case) ==
    LET those == {i \in DOMAIN saves : saves[i].case = case} IN
    CHOOSE i \in those : \A j \in those : i <= j

\* load_case: which of the saves it returns
Row(case) ==
    LET those == {i \in DOMAIN saves : saves[i].case = case} IN
    CHOOSE i \in those : \A j \in those : j <= i

\* /api/case-explanation: whose case is shown for a run
Explained(r) == IF runs[r] = None \/ runs[r].result = None THEN None
                ELSE saves[Row(runs[r].result)].run

\* get_checkpoints: who wrote what there is of a run
Checkpoints(r) == [i \in {j \in DOMAIN Nodes : checkpoints[j] # None /\ checkpoints[j].run = r}
                   |-> checkpoints[i].by]

----------------------------------------------------------------------------
\* Properties

TypeOK ==
    /\ runs \in [Runs -> Entry \cup {None}]
    /\ \A r \in Runs : /\ thread[r].at = "none" <=> runs[r] = None
                       /\ thread[r].done \in 0..(Events + Len(Nodes))
                       /\ thread[r].tries \in 0..2
    /\ observer \in Runs \cup {None} /\ calls \in [Workers -> Call \cup {None}]
    /\ \A i \in DOMAIN saves : saves[i] \in [case: Runs \cup Scenarios, run: Runs]
    /\ \A i \in DOMAIN checkpoints : checkpoints[i] \in [run: Runs, by: Runs] \cup {None}

\* A run that was never on the cluster shows the node it is at, and none when
\* it is not at one, whatever the activities of others report and whenever they
\* do. (A run that was may be told late, and then shows a node when it is over.)
MemoryIsItsOwn ==
    \A r \in Runs : runs[r] # None /\ ~thread[r].observed =>
        runs[r].active = IF thread[r].at = "memory" /\ thread[r].done < Events
                             /\ thread[r].done % 2 = 1
                         THEN {Nodes[thread[r].done \div 2 + 1]} ELSE {}

\* The observer that is set belongs to a run that is not over: an activity that
\* reads it now reads one that is running, though it may tell it later.
ObserverIsRunning == observer # None => runs[observer].status = "RUNNING"

\* The explanation of a run that is there to be explained is of that run if its
\* case is its own, and of a later one at worst. (In memory all runs of a
\* scenario share a case.)
ExplanationNotOlder ==
    \A r \in Runs : Explained(r) # None =>
        \E i \in DOMAIN saves :
            /\ saves[i] = [case |-> runs[r].result, run |-> r]
            /\ i <= Row(runs[r].result)
            /\ runs[r].result = r => Explained(r) = r

\* What a client has seen of a run stays true, but for a success whose logging
\* fails: it is a failure then, and keeps its result.
OnlyForward ==
    [][\A r \in Runs : runs[r] # None /\ runs[r].status # "RUNNING" =>
        /\ runs'[r].result = runs[r].result
        /\ runs'[r].status # runs[r].status =>
              /\ runs'[r].status = "FAILED" /\ runs[r].result # None
              /\ "COMPLETED" \in LogFails]_vars

\* Every run comes to an end its client hears of, if the thread gets so far as
\* to begin.
RunsEnd ==
    \A r \in Runs : thread[r].at = "engine" ~> runs[r] # None /\ runs[r].status # "RUNNING"

\* A run that is over finds its checkpoints in the table, all of them, and as
\* it has written them.
CheckpointsOfRun ==
    \A r \in Runs : runs[r] # None /\ runs[r].status = "COMPLETED" =>
        Checkpoints(r) = [i \in DOMAIN Nodes |-> r]
=============================================================================
