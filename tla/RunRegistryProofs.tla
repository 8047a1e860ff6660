------------------------- MODULE RunRegistryProofs -------------------------
(***************************************************************************)
(* RunRegistry for any number of runs, scenarios and nodes: what the       *)
(* registry says of a run that is over stays true, however late it is told *)
(* of activities, and a run in memory shows its own nodes only.            *)
(***************************************************************************)
EXTENDS RunRegistry, TLAPS

Places  == {"none", "start", "engine", "cluster", "memory", "back", "complete", "announce",
            "over", "gone"}
Ids     == Runs \cup Scenarios
Steps   == 0..(Events + Len(Nodes))
NoId    == Ids \cup {None}
Threads == [at: Places, done: Steps, observed: BOOLEAN, tries: 0..2, case: NoId]
Saves   == [case: Ids, run: Runs]
Rows    == [run: Runs, by: Runs]

Types ==
    /\ runs \in [Runs -> Entry \cup {None}]
    /\ thread \in [Runs -> Threads]
    /\ observer \in Runs \cup {None}
    /\ saves \in Seq(Saves)
    /\ checkpoints \in [DOMAIN Nodes -> Rows \cup {None}]
    /\ calls \in [Workers -> Call \cup {None}]

Begun == \A r \in Runs : thread[r].at = "none" <=> runs[r] = None

\* As long as its thread is on its way, a run is running.
RunningAt == {"start", "engine", "cluster", "memory", "back", "complete"}
OnItsWay  == \A r \in Runs : thread[r].at \in RunningAt => runs[r].status = "RUNNING"

\* A thread that is back from the engine has a case, and a run that is about to
\* be logged as completed has a result.
HasCase == \A r \in Runs :
    /\ thread[r].at \in {"back", "complete"} => thread[r].case # None
    /\ thread[r].at = "announce" => runs[r].status = "COMPLETED" /\ runs[r].result # None

\* The observer is still in the engine, and will clean up behind itself.
InTheEngine == {"cluster", "memory", "back"}
WillLeave == observer # None => thread[observer].observed /\ thread[observer].at \in InTheEngine

\* Whom a worker is about to tell has been asked for.
Addressed == \A w \in Workers : calls[w] # None => runs[calls[w].to] # None

RegistryInv == Types /\ Begun /\ OnItsWay /\ HasCase /\ Addressed /\ WillLeave

----------------------------------------------------------------------------
\* The position among the events is a node.
LEMMA NodeOfEvent ==
    ASSUME NEW k \in Nat, k < Events
    PROVE  Nodes[k \div 2 + 1] \in NodeSet
<1>1. Len(Nodes) \in Nat /\ DOMAIN Nodes = 1..Len(Nodes)
  BY RegistryAssumptions
<1>2. k < 2 * Len(Nodes)
  BY DEF Events
<1>3. k \div 2 + 1 \in 1..Len(Nodes)
  BY <1>1, <1>2
<1> QED BY <1>1, <1>3 DEF NodeSet

\* What Goto leaves as it is
LEMMA Moves ==
    ASSUME Types, NEW r \in Runs, NEW at \in Places, thread' = [thread EXCEPT ![r].at = at]
    PROVE  /\ thread' \in [Runs -> Threads]
           /\ thread'[r].at = at
           /\ \A q \in Runs : /\ thread'[q].observed = thread[q].observed
                              /\ thread'[q].case = thread[q].case
                              /\ q # r => thread'[q].at = thread[q].at
<1>1. thread \in [Runs -> Threads] /\ thread[r] \in Threads
  BY DEF Types
<1>2. [thread[r] EXCEPT !.at = at] \in Threads
  BY <1>1 DEF Threads
<1>3. thread' = [thread EXCEPT ![r] = [thread[r] EXCEPT !.at = at]]
  OBVIOUS
<1>4. thread' \in [Runs -> Threads]
  BY <1>1, <1>2, <1>3
<1> QED BY <1>1, <1>3, <1>4 DEF Threads

\* Before anything was asked for.
LEMMA InitInv == Init => RegistryInv
<1> SUFFICES ASSUME Init PROVE RegistryInv
  OBVIOUS
<1>0. Len(Nodes) \in Nat /\ Events \in Nat
  BY RegistryAssumptions DEF Events
<1>1. NoThread \in Threads
  BY <1>0 DEF NoThread, Threads, Places, Steps, NoId
<1>2. Types
  BY <1>1 DEF Init, Types
<1>3. Begun /\ OnItsWay /\ HasCase /\ Addressed /\ WillLeave
  BY DEF Init, NoThread, Begun, OnItsWay, RunningAt, HasCase, Addressed, WillLeave
<1> QED BY <1>2, <1>3 DEF RegistryInv

\* A run that was not there had no thread, so it was not the observer.
LEMMA RunAsyncInv == ASSUME RegistryInv, NEW r \in Runs, NEW s \in Scenarios, RunAsync(r, s)
                     PROVE  RegistryInv'
<1> USE DEF RegistryInv
<1> DEFINE new == [scenario |-> s, status |-> "RUNNING", active |-> {}, result |-> None]
<1>1. /\ runs[r] = None
      /\ runs' = [runs EXCEPT ![r] = new]
      /\ thread' = [thread EXCEPT ![r].at = "start"]
      /\ UNCHANGED <<observer, saves, checkpoints, calls>>
  BY DEF RunAsync, Goto
<1>2. new \in Entry /\ new # None
  BY RegistryAssumptions DEF Entry
<1>3. thread[r].at = "none"
  BY <1>1 DEF Begun
<1>4. Types'
  <2>1. runs' \in [Runs -> Entry \cup {None}]
    BY <1>1, <1>2 DEF Types
  <2>2. thread' \in [Runs -> Threads]
    BY <1>1, Moves DEF Places
  <2> QED BY <1>1, <2>1, <2>2 DEF Types
<1>5. Begun' /\ OnItsWay' /\ HasCase' /\ Addressed'
  BY <1>1, <1>2 DEF Types, Threads, Begun, OnItsWay, RunningAt, HasCase, Addressed
<1>6. WillLeave'
  BY <1>1, <1>3 DEF Types, Threads, WillLeave, InTheEngine
<1> QED BY <1>4, <1>5, <1>6

\* Nobody who starts is the observer yet.
LEMMA StartInv == ASSUME RegistryInv, NEW r \in Runs, Start(r) PROVE RegistryInv'
<1> USE DEF RegistryInv
<1>1. PICK at \in {"engine", "gone"} : thread' = [thread EXCEPT ![r].at = at]
  BY DEF Start, Goto
<1>2. thread[r].at = "start" /\ UNCHANGED <<runs, observer, saves, checkpoints, calls>>
  BY DEF Start
<1>3. Types'
  BY <1>1, <1>2 DEF Types, Threads, Places
<1>4. Begun' /\ OnItsWay' /\ HasCase' /\ Addressed'
  BY <1>1, <1>2 DEF Types, Threads, Begun, OnItsWay, RunningAt, HasCase, Addressed
<1>5. WillLeave'
  BY <1>1, <1>2 DEF Types, Threads, WillLeave, InTheEngine
<1> QED BY <1>3, <1>4, <1>5

\* The new observer is in the engine, and has taken note of it.
LEMMA EngineInv == ASSUME RegistryInv, NEW r \in Runs, Engine(r) PROVE RegistryInv'
<1> USE DEF RegistryInv
<1>1. thread[r].at = "engine" /\ UNCHANGED <<runs, saves, checkpoints, calls>>
  BY DEF Engine
<1>2. CASE /\ thread' = [thread EXCEPT ![r].at = "cluster", ![r].observed = TRUE, ![r].tries = 1]
           /\ observer' = r
  <2>1. Types'
    <3>1. thread[r] \in Threads
      BY DEF Types
    <3> DEFINE one == 1
    <3>2. one \in 0..2
      OBVIOUS
    <3> HIDE DEF one
    <3>3. [thread[r] EXCEPT !.at = "cluster", !.observed = TRUE, !.tries = one] \in Threads
      BY <3>1, <3>2 DEF Threads, Places
    <3>4. thread' = [thread EXCEPT ![r] = [thread[r] EXCEPT !.at = "cluster", !.observed = TRUE,
                                                            !.tries = one]]
      BY <1>2 DEF one
    <3>5. thread' \in [Runs -> Threads]
      BY <3>3, <3>4 DEF Types
    <3> QED BY <1>1, <1>2, <3>5 DEF Types
  <2>2. Begun' /\ OnItsWay' /\ HasCase' /\ Addressed'
    BY <1>1, <1>2 DEF Types, Threads, Begun, OnItsWay, RunningAt, HasCase, Addressed
  <2>3. WillLeave'
    BY <1>1, <1>2 DEF Types, Threads, WillLeave, InTheEngine
  <2> QED BY <2>1, <2>2, <2>3
<1>3. CASE thread' = [thread EXCEPT ![r].at = "memory"] /\ UNCHANGED observer
  <2>1. Types'
    BY <1>1, <1>3 DEF Types, Threads, Places
  <2>2. Begun' /\ OnItsWay' /\ HasCase' /\ Addressed'
    BY <1>1, <1>3 DEF Types, Threads, Begun, OnItsWay, RunningAt, HasCase, Addressed
  <2>3. WillLeave'
    BY <1>1, <1>3 DEF Types, Threads, WillLeave, InTheEngine
  <2> QED BY <2>1, <2>2, <2>3
<1> QED BY <1>2, <1>3 DEF Engine, Goto

\* Who is told of something keeps all but the nodes that are active.
LEMMA ToldStep ==
    ASSUME Types, NEW q \in Runs, runs[q] # None, NEW e \in Happening,
           runs' = [runs EXCEPT ![q] = Told(runs[q], e)]
    PROVE  /\ runs' \in [Runs -> Entry \cup {None}]
           /\ \A p \in Runs : /\ runs'[p] = None <=> runs[p] = None
                              /\ runs[p] # None => /\ runs'[p].status = runs[p].status
                                                   /\ runs'[p].result = runs[p].result
                              /\ p # q => runs'[p] = runs[p]
<1> DEFINE told == Told(runs[q], e)
<1>1. runs[q] \in Entry
  BY DEF Types
<1>2. /\ told \in Entry /\ told # None
      /\ told.status = runs[q].status /\ told.result = runs[q].result
  BY <1>1, RegistryAssumptions DEF Told, Entry, Happening
<1> HIDE DEF told
<1>3. runs' = [runs EXCEPT ![q] = told]
  BY DEF told
<1> QED BY <1>1, <1>2, <1>3 DEF Types

\* A step that tells one run, and leaves all threads where they are.
LEMMA TellingInv ==
    ASSUME RegistryInv, NEW q \in Runs, runs[q] # None, NEW e \in Happening,
           runs' = [runs EXCEPT ![q] = Told(runs[q], e)],
           thread' \in [Runs -> Threads],
           \A p \in Runs : /\ thread'[p].at = thread[p].at /\ thread'[p].case = thread[p].case
                           /\ thread'[p].observed = thread[p].observed,
           \A w \in Workers : calls'[w] \in {calls[w], None},
           calls' \in [Workers -> Call \cup {None}],
           UNCHANGED <<observer, saves, checkpoints>>
    PROVE  RegistryInv'
<1> USE DEF RegistryInv
<1>1. /\ runs' \in [Runs -> Entry \cup {None}]
      /\ \A p \in Runs : /\ runs'[p] = None <=> runs[p] = None
                         /\ runs[p] # None => /\ runs'[p].status = runs[p].status
                                              /\ runs'[p].result = runs[p].result
  BY ToldStep
<1>2. Types'
  BY <1>1 DEF Types
<1>3. Begun'
  BY <1>1 DEF Begun
<1>4. OnItsWay' /\ HasCase'
  BY <1>1 DEF OnItsWay, RunningAt, HasCase, Begun
<1>5. Addressed'
  BY <1>1 DEF Addressed, Types, Call
<1>6. WillLeave'
  BY DEF WillLeave, Types
<1> QED BY <1>2, <1>3, <1>4, <1>5, <1>6

\* The position among the events, and what is reported there
LEMMA Happens ==
    ASSUME NEW k \in Nat, k < Events
    PROVE  /\ EventOf(k) \in Happening
           /\ k \in Steps /\ k + 1 \in Steps
<1>1. Events \in Nat /\ Len(Nodes) \in Nat
  BY RegistryAssumptions DEF Events
<1>2. EventOf(k) \in Happening
  BY NodeOfEvent DEF EventOf, Happening
<1> QED BY <1>1, <1>2 DEF Steps

\* A run in memory tells itself.
LEMMA EventInv == ASSUME RegistryInv, NEW r \in Runs, Event(r) PROVE RegistryInv'
<1> USE DEF RegistryInv
<1> DEFINE k == thread[r].done
<1>1. /\ thread[r].at = "memory" /\ k < Events
      /\ thread' = [thread EXCEPT ![r].done = k + 1]
      /\ runs' = [runs EXCEPT ![r] = Told(runs[r], EventOf(k))]
      /\ UNCHANGED <<observer, saves, checkpoints, calls>>
  BY DEF Event, Listener
<1>2. k \in Nat
  BY RegistryAssumptions DEF Types, Threads, Steps, Events
<1>3. EventOf(k) \in Happening /\ k + 1 \in Steps
  BY <1>1, <1>2, Happens
<1>4. /\ thread' \in [Runs -> Threads]
      /\ \A q \in Runs : /\ thread'[q].at = thread[q].at /\ thread'[q].case = thread[q].case
                         /\ thread'[q].observed = thread[q].observed
  BY <1>1, <1>3 DEF Types, Threads
<1>5. runs[r] # None
  BY <1>1 DEF Begun
<1>6. calls' \in [Workers -> Call \cup {None}] /\ \A w \in Workers : calls'[w] \in {calls[w], None}
  BY <1>1 DEF Types
<1> HIDE DEF k, RegistryInv
<1> QED BY <1>1, <1>3, <1>4, <1>5, <1>6, TellingInv

\* An activity, late or not, addresses the observer, which is in the engine.
LEMMA ReportsInv ==
    ASSUME RegistryInv, NEW w \in Workers, NEW for \in Runs \cup {None}, NEW try \in 0..2,
           NEW k \in Nat, k < Events, Reports(w, for, try, k)
    PROVE  /\ calls' \in [Workers -> Call \cup {None}]
           /\ \A v \in Workers : \/ calls'[v] \in {calls[v], None}
                                 \/ observer # None /\ calls'[v].to = observer
<1> USE DEF RegistryInv
<1> DEFINE call == [for |-> for, try |-> try, event |-> EventOf(k), to |-> observer]
<1>1. calls' = [calls EXCEPT ![w] = IF observer = None THEN None ELSE call]
  BY DEF Reports
<1>2. observer # None => call \in Call
  BY Happens DEF Types, Call
<1>3. call.to = observer
  OBVIOUS
<1> HIDE DEF call
<1>4. calls' \in [Workers -> Call \cup {None}]
  BY <1>1, <1>2 DEF Types
<1> QED BY <1>1, <1>3, <1>4 DEF Types

\* The steps of the activities that only address somebody
LEMMA AddressingInv ==
    ASSUME RegistryInv, thread' \in [Runs -> Threads],
           \A p \in Runs : /\ thread'[p].at = thread[p].at /\ thread'[p].case = thread[p].case
                           /\ thread'[p].observed = thread[p].observed,
           calls' \in [Workers -> Call \cup {None}],
           \A v \in Workers : \/ calls'[v] \in {calls[v], None}
                              \/ observer # None /\ calls'[v].to = observer,
           UNCHANGED <<runs, observer, saves, checkpoints>>
    PROVE  RegistryInv'
<1> USE DEF RegistryInv
<1>1. Types'
  BY DEF Types
<1>2. Begun' /\ OnItsWay' /\ HasCase'
  BY DEF Begun, OnItsWay, HasCase
<1>3. Addressed'
  <2>1. observer # None => runs[observer] # None
    BY DEF WillLeave, InTheEngine, Begun, Types
  <2> QED BY <2>1 DEF Addressed
<1>4. WillLeave'
  BY DEF WillLeave, Types
<1> QED BY <1>1, <1>2, <1>3, <1>4

LEMMA ActivityInv == ASSUME RegistryInv, NEW r \in Runs, Activity(r) PROVE RegistryInv'
<1> USE DEF RegistryInv
<1> DEFINE k == thread[r].done
<1>1. /\ thread[r].at = "cluster" /\ k < Events
      /\ thread' = [thread EXCEPT ![r].done = k + 1]
      /\ UNCHANGED <<runs, observer, saves, checkpoints>>
  BY DEF Activity
<1>2. PICK w \in Workers : Reports(w, r, thread[r].tries, k)
  BY DEF Activity
<1>3. k \in Nat /\ thread[r].tries \in 0..2
  BY RegistryAssumptions DEF Types, Threads, Steps, Events
<1>4. k + 1 \in Steps
  BY <1>1, <1>3, Happens
<1>5. /\ thread' \in [Runs -> Threads]
      /\ \A q \in Runs : /\ thread'[q].at = thread[q].at /\ thread'[q].case = thread[q].case
                         /\ thread'[q].observed = thread[q].observed
  BY <1>1, <1>4 DEF Types, Threads
<1> HIDE DEF k, RegistryInv
<1> QED BY <1>1, <1>2, <1>3, <1>5, ReportsInv, AddressingInv

LEMMA LateActivityInv ==
    ASSUME RegistryInv, NEW r \in Runs, NEW w \in Workers, LateActivity(r, w)
    PROVE  RegistryInv'
<1>1. PICK k \in 0..(Events - 1) : Reports(w, None, 0, k)
  BY DEF LateActivity
<1>2. UNCHANGED <<runs, thread, observer, saves, checkpoints>>
  BY DEF LateActivity
<1>3. k \in Nat /\ k < Events
  BY <1>1, RegistryAssumptions DEF Events
<1>4. thread' \in [Runs -> Threads]
  BY <1>2 DEF RegistryInv, Types
<1> QED BY <1>1, <1>2, <1>3, <1>4, ReportsInv, AddressingInv

\* Whoever is told, in time or late, is a run that has been asked for.
LEMMA TellInv == ASSUME RegistryInv, NEW w \in Workers, Tell(w) PROVE RegistryInv'
<1>1. /\ calls[w] # None
      /\ runs' = [runs EXCEPT ![calls[w].to] = Told(runs[calls[w].to], calls[w].event)]
      /\ calls' = [calls EXCEPT ![w] = None]
      /\ UNCHANGED <<thread, observer, saves, checkpoints>>
  BY DEF Tell
<1>2. calls[w].to \in Runs /\ calls[w].event \in Happening /\ runs[calls[w].to] # None
  BY <1>1 DEF RegistryInv, Types, Call, Addressed
<1>3. calls' \in [Workers -> Call \cup {None}] /\ \A v \in Workers : calls'[v] \in {calls[v], None}
  BY <1>1 DEF RegistryInv, Types
<1>4. thread' \in [Runs -> Threads]
  BY <1>1 DEF RegistryInv, Types
<1> QED BY <1>1, <1>2, <1>3, <1>4, TellingInv

\* Whoever is told of activities keeps status and result.
Kept == \A q \in Runs : /\ runs'[q] = None <=> runs[q] = None
                        /\ runs[q] # None => /\ runs'[q].status = runs[q].status
                                             /\ runs'[q].result = runs[q].result

LEMMA EventTells == ASSUME RegistryInv, NEW r \in Runs, Event(r) PROVE Kept
<1>1. /\ thread[r].at = "memory" /\ thread[r].done < Events
      /\ runs' = [runs EXCEPT ![r] = Told(runs[r], EventOf(thread[r].done))]
  BY DEF Event, Listener
<1>2. thread[r].done \in Nat
  BY RegistryAssumptions DEF RegistryInv, Types, Threads, Steps, Events
<1>3. EventOf(thread[r].done) \in Happening
  BY <1>1, <1>2, Happens
<1>4. runs[r] # None
  BY <1>1 DEF RegistryInv, Begun
<1> QED BY <1>1, <1>3, <1>4, ToldStep DEF RegistryInv, Kept

LEMMA TellTells == ASSUME RegistryInv, NEW w \in Workers, Tell(w) PROVE Kept
<1>1. /\ calls[w] # None
      /\ runs' = [runs EXCEPT ![calls[w].to] = Told(runs[calls[w].to], calls[w].event)]
  BY DEF Tell
<1>2. calls[w].to \in Runs /\ calls[w].event \in Happening /\ runs[calls[w].to] # None
  BY <1>1 DEF RegistryInv, Types, Call, Addressed
<1> QED BY <1>1, <1>2, ToldStep DEF RegistryInv, Kept

\* Checkpoints and cases are written by runs, and change no run.
LEMMA SaveCheckpointInv == ASSUME RegistryInv, NEW r \in Runs, SaveCheckpoint(r) PROVE RegistryInv'
<1> USE DEF RegistryInv
<1> DEFINE i == thread[r].done - Events + 1
<1>1. /\ thread[r].at \in {"memory", "cluster"} /\ i \in DOMAIN Nodes
      /\ checkpoints' = [checkpoints EXCEPT ![i] = [run |-> IF @ = None THEN r ELSE @.run, by |-> r]]
      /\ thread' = [thread EXCEPT ![r].done = @ + 1]
      /\ UNCHANGED <<runs, observer, saves, calls>>
  BY DEF SaveCheckpoint
<1>2. Events \in Nat /\ Len(Nodes) \in Nat /\ DOMAIN Nodes = 1..Len(Nodes)
  BY RegistryAssumptions DEF Events
<1>3. thread[r].done + 1 \in Steps
  <2>1. thread[r].done \in Steps
    BY DEF Types, Threads
  <2> QED BY <1>1, <1>2, <2>1 DEF Steps
<1>4. thread' \in [Runs -> Threads]
  BY <1>1, <1>3 DEF Types, Threads
<1> HIDE DEF i
<1>5. [run |-> IF checkpoints[i] = None THEN r ELSE checkpoints[i].run, by |-> r] \in Rows
  BY <1>1 DEF Types, Rows
<1>6. Types'
  BY <1>1, <1>4, <1>5 DEF Types
<1>7. \A q \in Runs : /\ thread'[q].at = thread[q].at /\ thread'[q].case = thread[q].case
                      /\ thread'[q].observed = thread[q].observed
  BY <1>1 DEF Types, Threads
<1> QED BY <1>1, <1>6, <1>7 DEF Types, Begun, OnItsWay, HasCase, Addressed, WillLeave

\* The case has an id, that of the run or that of the scenario.
LEMMA SaveCaseInv == ASSUME RegistryInv, NEW r \in Runs, SaveCase(r) PROVE RegistryInv'
<1> USE DEF RegistryInv
<1> DEFINE id == IF thread[r].at = "cluster" THEN r ELSE runs[r].scenario
<1>1. /\ thread[r].at \in {"memory", "cluster"}
      /\ saves' = Append(saves, [case |-> id, run |-> r])
      /\ thread' = [thread EXCEPT ![r].at = "back", ![r].case = id]
      /\ UNCHANGED <<runs, observer, checkpoints, calls>>
  BY DEF SaveCase
<1>2. runs[r] \in Entry
  BY <1>1 DEF Types, Begun
<1>3. id \in Ids /\ id # None
  BY <1>2, RegistryAssumptions DEF Entry, Ids
<1> HIDE DEF id
<1>4. Types'
  <2>1. thread' \in [Runs -> Threads]
    <3>1. [thread[r] EXCEPT !.at = "back", !.case = id] \in Threads
      BY <1>3 DEF Types, Threads, Places, NoId
    <3>2. thread' = [thread EXCEPT ![r] = [thread[r] EXCEPT !.at = "back", !.case = id]]
      BY <1>1
    <3> QED BY <3>1, <3>2 DEF Types
  <2>2. [case |-> id, run |-> r] \in Saves
    BY <1>3 DEF Saves
  <2>3. saves' \in Seq(Saves)
    BY <1>1, <2>2 DEF Types
  <2> QED BY <1>1, <2>1, <2>3 DEF Types
<1>5. Begun' /\ OnItsWay' /\ HasCase' /\ Addressed'
  BY <1>1, <1>3 DEF Types, Threads, Begun, OnItsWay, RunningAt, HasCase, Addressed
<1>6. WillLeave'
  BY <1>1 DEF Types, Threads, WillLeave, InTheEngine
<1> QED BY <1>4, <1>5, <1>6

\* A second attempt, or the run in memory: still in the engine.
LEMMA ClusterFailsInv == ASSUME RegistryInv, NEW r \in Runs, ClusterFails(r) PROVE RegistryInv'
<1> USE DEF RegistryInv
<1>1. thread[r].at = "cluster" /\ UNCHANGED <<runs, observer, saves, checkpoints, calls>>
  BY DEF ClusterFails
<1>2. 0 \in Steps /\ thread[r] \in Threads
  BY RegistryAssumptions DEF Events, Steps, Types
<1>3. thread' \in [Runs -> Threads]
  <2>1. CASE thread' = [thread EXCEPT ![r].done = 0, ![r].tries = 2]
    <3> DEFINE two == 2
    <3>0. two \in 0..2
      OBVIOUS
    <3> HIDE DEF two
    <3>1. [thread[r] EXCEPT !.done = 0, !.tries = two] \in Threads
      BY <1>2, <3>0 DEF Threads
    <3>2. thread' = [thread EXCEPT ![r] = [thread[r] EXCEPT !.done = 0, !.tries = two]]
      BY <2>1 DEF two
    <3> QED BY <3>1, <3>2 DEF Types
  <2>2. CASE thread' = [thread EXCEPT ![r].at = "memory", ![r].done = 0]
    <3>1. [thread[r] EXCEPT !.at = "memory", !.done = 0] \in Threads
      BY <1>2 DEF Threads, Places
    <3>2. thread' = [thread EXCEPT ![r] = [thread[r] EXCEPT !.at = "memory", !.done = 0]]
      BY <2>2
    <3> QED BY <3>1, <3>2 DEF Types
  <2> QED BY <2>1, <2>2 DEF ClusterFails
<1>4. Types'
  BY <1>1, <1>3 DEF Types
<1>5. \A q \in Runs : /\ thread'[q].case = thread[q].case /\ thread'[q].observed = thread[q].observed
                      /\ q # r => thread'[q].at = thread[q].at
                      /\ thread'[r].at \in {"cluster", "memory"}
  BY <1>1 DEF ClusterFails, Types, Threads
<1>6. Begun' /\ OnItsWay' /\ HasCase' /\ Addressed'
  BY <1>1, <1>5 DEF Begun, OnItsWay, RunningAt, HasCase, Addressed
<1>7. WillLeave'
  BY <1>1, <1>5 DEF Types, WillLeave, InTheEngine
<1> QED BY <1>4, <1>6, <1>7

\* Who leaves the engine is no longer the observer.
LEMMA Leaves ==
    ASSUME RegistryInv, NEW r \in Runs, Unobserved(r)
    PROVE  observer' \in Runs \cup {None} /\ observer' # r /\ (observer' # None => observer' = observer)
BY RegistryAssumptions DEF RegistryInv, Types, WillLeave, Unobserved

\* A run that fails leaves the engine, and no active node.
LEMMA RunFailsInv == ASSUME RegistryInv, NEW r \in Runs, RunFails(r) PROVE RegistryInv'
<1> USE DEF RegistryInv
<1> DEFINE failed == Failed(runs[r])
<1>1. /\ thread[r].at \in {"engine", "memory"}
      /\ Unobserved(r)
      /\ runs' = [runs EXCEPT ![r] = failed]
      /\ thread' = [thread EXCEPT ![r].at = "over"]
      /\ UNCHANGED <<saves, checkpoints, calls>>
  BY DEF RunFails, Goto
<1>2. runs[r] \in Entry
  BY <1>1 DEF Types, Begun
<1>3. failed \in Entry /\ failed # None /\ failed.status = "FAILED" /\ failed.active = {}
  BY <1>2, RegistryAssumptions DEF Failed, Entry
<1> HIDE DEF failed
<1>4. Types'
  <2>1. thread' \in [Runs -> Threads]
    BY <1>1, Moves DEF Places
  <2> QED BY <1>1, <1>3, <2>1, Leaves DEF Types
<1>5. Begun' /\ OnItsWay' /\ HasCase' /\ Addressed'
  BY <1>1, <1>3 DEF Types, Threads, Begun, OnItsWay, RunningAt, HasCase, Addressed
<1>6. WillLeave'
  BY <1>1, Leaves DEF Types, Threads, WillLeave, InTheEngine
<1> QED BY <1>4, <1>5, <1>6

\* The thread leaves the engine with its case; the run is running still.
LEMMA ReturnInv == ASSUME RegistryInv, NEW r \in Runs, Return(r) PROVE RegistryInv'
<1> USE DEF RegistryInv
<1>1. /\ thread[r].at = "back"
      /\ Unobserved(r)
      /\ thread' = [thread EXCEPT ![r].at = "complete"]
      /\ UNCHANGED <<runs, saves, checkpoints, calls>>
  BY DEF Return, Goto
<1>2. Types'
  <2>1. thread' \in [Runs -> Threads]
    BY <1>1, Moves DEF Places
  <2> QED BY <1>1, <2>1, Leaves DEF Types
<1>3. Begun' /\ OnItsWay' /\ HasCase' /\ Addressed'
  BY <1>1 DEF Types, Threads, Begun, OnItsWay, RunningAt, HasCase, Addressed
<1>4. WillLeave'
  BY <1>1, Leaves DEF Types, Threads, WillLeave, InTheEngine
<1> QED BY <1>2, <1>3, <1>4

\* The run is over, with the case for a result, and no active node.
LEMMA CompleteInv == ASSUME RegistryInv, NEW r \in Runs, Complete(r) PROVE RegistryInv'
<1> USE DEF RegistryInv
<1> DEFINE completed == Completed(runs[r], thread[r].case)
<1>1. /\ thread[r].at = "complete"
      /\ runs' = [runs EXCEPT ![r] = completed]
      /\ thread' = [thread EXCEPT ![r].at = "announce"]
      /\ UNCHANGED <<observer, saves, checkpoints, calls>>
  BY DEF Complete, Goto
<1>2. runs[r] \in Entry /\ thread[r].case \in Ids
  BY <1>1 DEF Types, Threads, NoId, Begun, HasCase
<1>3. /\ completed \in Entry /\ completed # None /\ completed.active = {}
      /\ completed.status = "COMPLETED" /\ completed.result # None
  BY <1>2, RegistryAssumptions DEF Completed, Entry, Ids
<1> HIDE DEF completed
<1>4. Types'
  <2>1. thread' \in [Runs -> Threads]
    BY <1>1, Moves DEF Places
  <2> QED BY <1>1, <1>3, <2>1 DEF Types
<1>5. Begun' /\ OnItsWay' /\ HasCase' /\ Addressed'
  BY <1>1, <1>3 DEF Types, Threads, Begun, OnItsWay, RunningAt, HasCase, Addressed
<1>6. WillLeave'
  BY <1>1 DEF Types, Threads, WillLeave, InTheEngine
<1> QED BY <1>4, <1>5, <1>6

\* Whether the success is logged or not, the run stays over.
LEMMA AnnounceInv == ASSUME RegistryInv, NEW r \in Runs, Announce(r) PROVE RegistryInv'
<1> USE DEF RegistryInv
<1> DEFINE failed == Announced(runs[r])
<1>1. /\ thread[r].at = "announce"
      /\ runs' = runs \/ runs' = [runs EXCEPT ![r] = failed]
      /\ thread' = [thread EXCEPT ![r].at = "over"]
      /\ UNCHANGED <<observer, saves, checkpoints, calls>>
  BY DEF Announce, Goto
<1>2. runs[r] \in Entry
  BY <1>1 DEF Types, Begun
<1>3. failed \in Entry /\ failed # None /\ failed.active = {}
  BY <1>2, RegistryAssumptions DEF Announced, Failed, Entry
<1> HIDE DEF failed
<1>4. Types'
  <2>1. thread' \in [Runs -> Threads]
    BY <1>1, Moves DEF Places
  <2> QED BY <1>1, <1>3, <2>1 DEF Types
<1>5. Begun' /\ OnItsWay' /\ HasCase' /\ Addressed'
  <2>1. /\ thread'[r].at = "over"
        /\ \A q \in Runs : /\ thread'[q].case = thread[q].case
                           /\ q # r => thread'[q].at = thread[q].at /\ runs'[q] = runs[q]
    BY <1>1, Moves DEF Types, Places
  <2>2. runs'[r] = runs[r] \/ runs'[r] = failed
    BY <1>1 DEF Types
  <2>3. \A q \in Runs : runs'[q] = None <=> runs[q] = None
    BY <1>1, <1>3, <2>1, <2>2 DEF Begun
  <2>4. Begun' /\ OnItsWay' /\ HasCase'
    BY <1>1, <2>1, <2>3 DEF Begun, OnItsWay, RunningAt, HasCase
  <2>5. Addressed'
    BY <1>1, <2>3 DEF Addressed, Types, Call
  <2> QED BY <2>4, <2>5
<1>6. WillLeave'
  BY <1>1 DEF Types, Threads, WillLeave, InTheEngine
<1> QED BY <1>4, <1>5, <1>6

\* Every step keeps the invariant.
LEMMA StepInv == ASSUME RegistryInv, [Next]_vars PROVE RegistryInv'
<1>1. CASE UNCHANGED vars
  BY <1>1 DEF vars, RegistryInv, Types, Begun, OnItsWay, HasCase, Addressed, WillLeave
<1>2. ASSUME NEW r \in Runs, Step(r) PROVE RegistryInv'
  BY <1>2, StartInv, EngineInv, EventInv, ActivityInv, SaveCheckpointInv, SaveCaseInv, ClusterFailsInv,
     RunFailsInv, ReturnInv, CompleteInv, AnnounceInv DEF Step
<1>3. ASSUME NEW r \in Runs, NEW s \in Scenarios, RunAsync(r, s) PROVE RegistryInv'
  BY <1>3, RunAsyncInv
<1>4. ASSUME NEW w \in Workers, Tell(w) \/ \E r \in Runs : LateActivity(r, w) PROVE RegistryInv'
  BY <1>4, TellInv, LateActivityInv
<1> QED BY <1>1, <1>2, <1>3, <1>4 DEF Next

----------------------------------------------------------------------------
\* The inductive invariant: a thread on its way has a run that is running, and
\* the observer is in the engine.
THEOREM RegistryCorrect == Spec => []RegistryInv
<1>1. Init => RegistryInv
  BY InitInv
<1>2. RegistryInv /\ [Next]_vars => RegistryInv'
  BY StepInv
<1> QED BY <1>1, <1>2, PTL DEF Spec

\* Every variable keeps its type, and a run is in the registry just when it has
\* a thread (_run_async).
THEOREM TypeCorrect == Spec => []TypeOK
<1>1. ASSUME RegistryInv PROVE TypeOK
  <2>1. \A r \in Runs : /\ thread[r].at = "none" <=> runs[r] = None
                        /\ thread[r].done \in 0..(Events + Len(Nodes))
                        /\ thread[r].tries \in 0..2
    BY <1>1 DEF RegistryInv, Types, Begun, Threads, Steps
  <2>2. \A i \in DOMAIN saves : saves[i] \in Saves
    BY <1>1 DEF RegistryInv, Types
  <2>3. \A i \in DOMAIN checkpoints : checkpoints[i] \in Rows \cup {None}
    BY <1>1 DEF RegistryInv, Types
  <2> QED BY <1>1, <2>1, <2>2, <2>3 DEF RegistryInv, Types, TypeOK, Rows, Saves, Ids
<1> QED BY <1>1, RegistryCorrect, PTL

\* A run on the cluster has been there, one that has not begun has not, and
\* whoever is being told has been there, too.
Fresh == \A r \in Runs :
    /\ thread[r].at = "cluster" => thread[r].observed
    /\ thread[r].at \in {"none", "start", "engine"} => thread[r].done = 0
ToldOnCluster == \A w \in Workers : calls[w] # None => thread[calls[w].to].observed

OwnInv == MemoryIsItsOwn /\ Fresh /\ ToldOnCluster

\* What MemoryIsItsOwn says of one run
Own(r) == runs[r] # None /\ ~thread[r].observed =>
    runs[r].active = IF thread[r].at = "memory" /\ thread[r].done < Events
                         /\ thread[r].done % 2 = 1
                     THEN {Nodes[thread[r].done \div 2 + 1]} ELSE {}

LEMMA OwnStep == ASSUME RegistryInv, OwnInv, [Next]_vars PROVE OwnInv'
<1> USE DEF OwnInv
<1>a. /\ Types /\ Begun /\ Addressed /\ thread \in [Runs -> Threads]
      /\ runs \in [Runs -> Entry \cup {None}] /\ WillLeave
      /\ Events \in Nat /\ Len(Nodes) \in Nat /\ Events = 2 * Len(Nodes)
  BY RegistryAssumptions DEF RegistryInv, Types, Events
<1>b. \A r \in Runs : thread[r].done \in Nat
  BY <1>a DEF Threads, Steps
<1>c. \A r \in Runs : Own(r)
  BY DEF MemoryIsItsOwn, Own
<1>0. /\ Types /\ Begun /\ Addressed /\ thread \in [Runs -> Threads]
      /\ runs \in [Runs -> Entry \cup {None}] /\ WillLeave
      /\ Events \in Nat /\ Len(Nodes) \in Nat /\ Events = 2 * Len(Nodes)
      /\ \A r \in Runs : thread[r].done \in Nat /\ Own(r)
  BY <1>a, <1>b, <1>c
<1>1. ASSUME NEW r \in Runs,
             \A q \in Runs : q # r => runs'[q] = runs[q] /\ thread'[q] = thread[q],
             Own(r)', thread[r].observed => thread'[r].observed,
             thread'[r].at = "cluster" => thread'[r].observed,
             thread'[r].at \in {"none", "start", "engine"} => thread'[r].done = 0,
             \A w \in Workers : calls'[w] # None =>
                 calls'[w] = calls[w] \/ thread[calls'[w].to].observed,
             calls' \in [Workers -> Call \cup {None}]
      PROVE  OwnInv'
  <2>1. Fresh'
    BY <1>1 DEF Fresh
  <2>2. \A q \in Runs : Own(q)'
    <3> SUFFICES ASSUME NEW q \in Runs, q # r PROVE Own(q)'
      BY <1>1
    <3>1. runs'[q] = runs[q] /\ thread'[q] = thread[q]
      BY <1>1
    <3> QED BY <1>0, <3>1 DEF Own
  <2>3. ToldOnCluster'
    <3> SUFFICES ASSUME NEW w \in Workers, calls'[w] # None PROVE thread'[calls'[w].to].observed
      BY DEF ToldOnCluster
    <3>1. calls'[w].to \in Runs /\ thread[calls'[w].to].observed
      BY <1>1 DEF ToldOnCluster, Call
    <3> QED BY <1>1, <3>1
  <2>4. MemoryIsItsOwn'
    BY <2>2 DEF Own, MemoryIsItsOwn
  <2> QED BY <2>1, <2>3, <2>4
<1>2. CASE UNCHANGED vars
  BY <1>2 DEF vars, MemoryIsItsOwn, Fresh, ToldOnCluster
<1>3. ASSUME NEW r \in Runs, NEW s \in Scenarios, RunAsync(r, s) PROVE OwnInv'
  <2> DEFINE new == [scenario |-> s, status |-> "RUNNING", active |-> {}, result |-> None]
  <2>1. /\ runs[r] = None /\ runs' = [runs EXCEPT ![r] = new]
        /\ thread' = [thread EXCEPT ![r].at = "start"] /\ calls' = calls
    BY <1>3 DEF RunAsync, Goto
  <2>2. thread[r].done = 0
    BY <1>0, <2>1 DEF Begun, Fresh
  <2>3. runs'[r].active = {} /\ thread'[r].at = "start"
    BY <1>0, <2>1, Moves DEF Places
  <2>4. Own(r)'
    BY <2>3 DEF Own
  <2>5. thread'[r].done = 0 /\ thread'[r].observed = thread[r].observed
    BY <1>0, <2>1, <2>2 DEF Threads
  <2> QED BY <1>0, <1>1, <2>1, <2>3, <2>4, <2>5 DEF Types
<1>4. ASSUME NEW r \in Runs, Start(r) \/ Return(r) PROVE OwnInv'
  <2>1. PICK at \in {"engine", "gone", "complete"} :
           /\ thread' = [thread EXCEPT ![r].at = at] /\ runs' = runs /\ calls' = calls
           /\ thread[r].at \in {"start", "back"} /\ (at = "engine" => thread[r].at = "start")
    BY <1>4 DEF Start, Return, Goto
  <2>2. /\ thread'[r].at = at /\ thread'[r].done = thread[r].done
        /\ thread'[r].observed = thread[r].observed
    BY <1>0, <2>1 DEF Threads
  <2>3. Own(r)'
    BY <1>0, <2>1, <2>2 DEF Own
  <2> QED BY <1>0, <1>1, <2>1, <2>2, <2>3 DEF Types, Fresh
<1>5. ASSUME NEW r \in Runs, Engine(r) PROVE OwnInv'
  <2>1. CASE thread' = [thread EXCEPT ![r].at = "cluster", ![r].observed = TRUE, ![r].tries = 1]
    <3>1. thread'[r].at = "cluster" /\ thread'[r].observed /\ runs' = runs /\ calls' = calls
      BY <1>0, <1>5, <2>1 DEF Engine, Threads
    <3> QED BY <1>0, <1>1, <2>1, <3>1 DEF Types, Own
  <2>2. CASE thread' = [thread EXCEPT ![r].at = "memory"]
    <3>1. /\ thread'[r].at = "memory" /\ thread'[r].done = thread[r].done
          /\ thread'[r].observed = thread[r].observed /\ runs' = runs /\ calls' = calls
      BY <1>0, <1>5, <2>2 DEF Engine, Threads
    <3>2. thread[r].done = 0 /\ thread[r].at = "engine"
      BY <1>5 DEF Engine, Fresh
    <3>3. thread'[r].done % 2 # 1 /\ runs'[r] = runs[r]
      BY <3>1, <3>2
    <3>4. ~thread[r].observed /\ runs[r] # None => runs[r].active = {}
      BY <1>c, <3>2 DEF Own
    <3>5. Own(r)'
      BY <3>1, <3>3, <3>4 DEF Own
    <3> QED BY <1>0, <1>1, <2>2, <3>1, <3>5 DEF Types
  <2> QED BY <1>5, <2>1, <2>2 DEF Engine, Goto
<1>6. ASSUME NEW r \in Runs, Event(r) PROVE OwnInv'
  <2> DEFINE k == thread[r].done
             n == Nodes[k \div 2 + 1]
  <2>1. /\ thread[r].at = "memory" /\ k < Events /\ calls' = calls
        /\ thread' = [thread EXCEPT ![r].done = k + 1]
        /\ runs' = [runs EXCEPT ![r] = Told(runs[r], EventOf(k))]
    BY <1>6 DEF Event, Listener
  <2>2. /\ thread'[r].at = "memory" /\ thread'[r].done = k + 1
        /\ thread'[r].observed = thread[r].observed
    BY <1>0, <2>1 DEF Threads
  <2>3. runs[r] \in Entry /\ runs[r] # None
    BY <1>0, <2>1 DEF Begun
  <2>4. runs'[r].active = IF k % 2 = 0 THEN runs[r].active \cup {n} ELSE runs[r].active \ {n}
    BY <1>0, <2>1, <2>3 DEF Told, EventOf, Entry
  <2>5. ~thread[r].observed => runs[r].active = IF k % 2 = 1 THEN {n} ELSE {}
    BY <1>0, <2>1, <2>3 DEF Own
  <2>6. k \in Nat
    BY <1>0
  <2>a. /\ calls' \in [Workers -> Call \cup {None}]
        /\ \A q \in Runs : q # r => runs'[q] = runs[q] /\ thread'[q] = thread[q]
    BY <1>0, <2>1 DEF Types
  <2>b. ASSUME Own(r)' PROVE OwnInv'
    BY <1>1, <2>1, <2>2, <2>a, <2>b
  <2> HIDE DEF k, n
  <2>7. CASE k % 2 = 0
    <3>1. (k + 1) % 2 = 1 /\ (k + 1) \div 2 = k \div 2
      BY <2>6, <2>7
    <3>2. k + 1 < Events
      BY <1>a, <2>1, <2>6, <2>7
    <3>3. ~thread[r].observed => runs'[r].active = {n}
      BY <2>4, <2>5, <2>7
    <3>4. n = Nodes[(k + 1) \div 2 + 1]
      BY <3>1 DEF n
    <3>5. Own(r)'
      BY <2>2, <3>1, <3>2, <3>3, <3>4 DEF Own
    <3> QED BY <2>b, <3>5
  <2>8. CASE k % 2 = 1
    <3>1. (k + 1) % 2 # 1
      BY <2>6, <2>8
    <3>2. ~thread[r].observed => runs'[r].active = {}
      BY <2>4, <2>5, <2>8
    <3>3. Own(r)'
      BY <2>2, <3>1, <3>2 DEF Own
    <3> QED BY <2>b, <3>3
  <2>9. k % 2 \in {0, 1}
    BY <2>6
  <2> QED BY <2>7, <2>8, <2>9
<1>7. ASSUME NEW r \in Runs, Activity(r) PROVE OwnInv'
  <2>1. /\ thread[r].at = "cluster" /\ runs' = runs
        /\ thread' = [thread EXCEPT ![r].done = thread[r].done + 1]
    BY <1>7 DEF Activity
  <2>2. thread'[r].at = "cluster" /\ thread'[r].observed
    BY <1>0, <2>1 DEF Threads, Fresh
  <2>3. calls' \in [Workers -> Call \cup {None}]
    BY <1>7, ActivityInv DEF RegistryInv, Types
  <2>4. PICK w \in Workers : Reports(w, r, thread[r].tries, thread[r].done)
    BY <1>7 DEF Activity
  <2>5. \A v \in Workers : calls'[v] # None =>
                 calls'[v] = calls[v] \/ thread[calls'[v].to].observed
    BY <1>0, <2>4 DEF Reports, WillLeave, Types
  <2> QED BY <1>0, <1>1, <2>1, <2>2, <2>3, <2>5 DEF Own
<1>8. ASSUME NEW r \in Runs, SaveCheckpoint(r) PROVE OwnInv'
  <2>1. /\ thread[r].at \in {"memory", "cluster"} /\ runs' = runs /\ calls' = calls
        /\ thread' = [thread EXCEPT ![r].done = thread[r].done + 1]
        /\ thread[r].done - Events + 1 \in DOMAIN Nodes /\ DOMAIN Nodes = 1..Len(Nodes)
    BY <1>8, RegistryAssumptions DEF SaveCheckpoint
  <2>2. /\ thread'[r].at = thread[r].at /\ thread'[r].done = thread[r].done + 1
        /\ thread'[r].observed = thread[r].observed
    BY <1>0, <2>1 DEF Threads
  <2>3. ~(thread[r].done < Events) /\ ~(thread[r].done + 1 < Events)
    BY <1>a, <1>b, <2>1
  <2>4. Own(r)'
    BY <1>c, <2>1, <2>2, <2>3 DEF Own
  <2> QED BY <1>0, <1>1, <2>1, <2>2, <2>4 DEF Types, Fresh
<1>9. ASSUME NEW r \in Runs, SaveCase(r) PROVE OwnInv'
  <2>1. PICK id : /\ thread[r].at \in {"memory", "cluster"} /\ runs' = runs /\ calls' = calls
                  /\ thread' = [thread EXCEPT ![r].at = "back", ![r].case = id]
                  /\ thread[r].done = Events + Len(Nodes)
    BY <1>9 DEF SaveCase
  <2>2. thread'[r].at = "back" /\ thread'[r].observed = thread[r].observed
    BY <1>0, <2>1 DEF Threads
  <2>3. ~(thread[r].done < Events)
    BY <1>a, <2>1
  <2>4. Own(r)'
    BY <1>c, <2>1, <2>2, <2>3 DEF Own
  <2> QED BY <1>0, <1>1, <2>1, <2>2, <2>4 DEF Types, Fresh
<1>10. ASSUME NEW r \in Runs, ClusterFails(r) PROVE OwnInv'
  <2>1. thread[r].at = "cluster" /\ runs' = runs /\ calls' = calls
    BY <1>10 DEF ClusterFails
  <2>2. /\ thread'[r].at \in {"cluster", "memory"} /\ thread'[r].observed
        /\ \A q \in Runs : q # r => thread'[q] = thread[q]
    <3>1. thread[r].observed
      BY <2>1 DEF Fresh
    <3> QED BY <1>0, <1>10, <2>1, <3>1 DEF ClusterFails, Threads
  <2> QED BY <1>0, <1>1, <2>1, <2>2 DEF Types, Own
<1>11. ASSUME NEW r \in Runs, RunFails(r) \/ Complete(r) \/ Announce(r) PROVE OwnInv'
  <2>1. /\ calls' = calls
        /\ \/ runs' = runs /\ thread[r].at = "announce"
           \/ runs' = [runs EXCEPT ![r] = Failed(runs[r])]
           \/ runs' = [runs EXCEPT ![r] = Completed(runs[r], thread[r].case)]
        /\ \E at \in {"over", "announce"} : thread' = [thread EXCEPT ![r].at = at]
        /\ thread[r].at # "none"
    BY <1>11 DEF RunFails, Complete, Announce, Announced, Goto
  <2>2. /\ thread'[r].at \in {"over", "announce"} /\ thread'[r].observed = thread[r].observed
        /\ \A q \in Runs : q # r => thread'[q] = thread[q] /\ runs'[q] = runs[q]
    BY <1>0, <2>1 DEF Threads
  <2>3. runs[r] \in Entry /\ runs[r] # None
    BY <1>0, <2>1 DEF Begun
  <2>a. Failed(runs[r]).active = {} /\ Completed(runs[r], thread[r].case).active = {}
    BY <2>3 DEF Failed, Completed, Entry
  <2>4. (runs' = runs /\ thread[r].at = "announce") \/ runs'[r].active = {}
    BY <1>a, <2>1, <2>a
  <2>5. Own(r)'
    <3>1. CASE runs' = runs /\ thread[r].at = "announce"
      BY <1>0, <2>2, <3>1 DEF Own
    <3>2. CASE runs'[r].active = {}
      BY <2>2, <3>2 DEF Own
    <3> QED BY <2>4, <3>1, <3>2
  <2> QED BY <1>0, <1>1, <2>1, <2>2, <2>5 DEF Types
<1>12. ASSUME NEW w \in Workers, Tell(w) PROVE OwnInv'
  <2>0. PICK q \in Runs : q = calls[w].to
    BY <1>0, <1>12 DEF Tell, Types, Call
  <2>1. /\ calls[w] # None /\ thread' = thread
        /\ runs' = [runs EXCEPT ![q] = Told(runs[q], calls[w].event)]
        /\ calls' = [calls EXCEPT ![w] = None]
    BY <1>12, <2>0 DEF Tell
  <2>2. thread[q].observed
    BY <2>0, <2>1 DEF ToldOnCluster
  <2>3. \A p \in Runs : p # q => runs'[p] = runs[p]
    BY <1>0, <2>1
  <2>4. Own(q)'
    BY <2>1, <2>2 DEF Own
  <2>5. calls' \in [Workers -> Call \cup {None}]
        /\ \A v \in Workers : calls'[v] # None => calls'[v] = calls[v]
    BY <1>0, <2>1 DEF Types
  <2>6. /\ thread'[q].at = "cluster" => thread'[q].observed
        /\ thread'[q].at \in {"none", "start", "engine"} => thread'[q].done = 0
    BY <2>1, <2>2 DEF Fresh
  <2> QED BY <1>1, <2>1, <2>2, <2>3, <2>4, <2>5, <2>6
<1>13. ASSUME NEW w \in Workers, NEW r \in Runs, LateActivity(r, w) PROVE OwnInv'
  <2>1. UNCHANGED <<runs, thread>>
    BY <1>13 DEF LateActivity
  <2>2. calls' \in [Workers -> Call \cup {None}]
    BY <1>13, LateActivityInv DEF RegistryInv, Types
  <2>3. PICK k \in 0..(Events - 1) : Reports(w, None, 0, k)
    BY <1>13 DEF LateActivity
  <2>4. \A v \in Workers : calls'[v] # None =>
                 calls'[v] = calls[v] \/ thread[calls'[v].to].observed
    BY <1>0, <2>3 DEF Reports, WillLeave, Types
  <2>5. Own(r)'
    BY <1>0, <2>1 DEF Own
  <2> QED BY <1>1, <2>1, <2>2, <2>4, <2>5 DEF Fresh
<1> QED BY <1>2, <1>3, <1>4, <1>5, <1>6, <1>7, <1>8, <1>9, <1>10, <1>11, <1>12, <1>13 DEF Next, Step

\* A run that was never on the cluster shows the node it is at and no other,
\* whatever is told to whom, and however late (Listener, observe).
THEOREM OwnNodes == Spec => []MemoryIsItsOwn
<1>1. Init => OwnInv
  BY DEF Init, NoThread, OwnInv, MemoryIsItsOwn, Fresh, ToldOnCluster
<1>2. RegistryInv /\ OwnInv /\ [Next]_vars => OwnInv'
  BY OwnStep
<1>3. OwnInv => MemoryIsItsOwn
  BY DEF OwnInv
<1> QED BY <1>1, <1>2, <1>3, RegistryCorrect, PTL DEF Spec

\* The observer of the activities is a run that is not over (_ACTIVE_OBSERVER).
THEOREM ObserverRuns == Spec => []ObserverIsRunning
<1>1. RegistryInv => ObserverIsRunning
  BY DEF RegistryInv, Types, OnItsWay, RunningAt, WillLeave, InTheEngine, ObserverIsRunning
<1> QED BY <1>1, RegistryCorrect, PTL

\* What OnlyForward says of one run and one step
Forward(r) ==
    runs[r] # None /\ runs[r].status # "RUNNING" =>
        /\ runs'[r].result = runs[r].result
        /\ runs'[r].status # runs[r].status =>
              /\ runs'[r].status = "FAILED" /\ runs[r].result # None
              /\ "COMPLETED" \in LogFails

\* Of the actions that change more than the active nodes, only Announce finds
\* its run over.
LEMMA StepForward == ASSUME RegistryInv, [Next]_vars, NEW q \in Runs PROVE Forward(q)
<1> USE DEF RegistryInv
<1> SUFFICES ASSUME runs[q] # None, runs[q].status # "RUNNING",
                    ~(runs'[q].status = runs[q].status /\ runs'[q].result = runs[q].result)
             PROVE  /\ runs'[q].result = runs[q].result
                    /\ runs'[q].status = "FAILED" /\ runs[q].result # None
                    /\ "COMPLETED" \in LogFails
  BY DEF Forward
<1>1. runs[q] \in Entry /\ thread[q].at \notin RunningAt
  BY DEF Types, OnItsWay
<1>2. PICK r \in Runs : \/ \E s \in Scenarios : RunAsync(r, s)
                        \/ Event(r) \/ RunFails(r) \/ Complete(r) \/ Announce(r)
                        \/ \E w \in Workers : Tell(w)
  BY DEF Next, Step, vars, Start, Engine, Activity, LateActivity, SaveCheckpoint, SaveCase,
         ClusterFails, Return
<1>3. ASSUME NEW s \in Scenarios, RunAsync(r, s) PROVE FALSE
  BY <1>3 DEF RunAsync, Types
<1>4. ASSUME Event(r) \/ \E w \in Workers : Tell(w) PROVE FALSE
  BY <1>4, EventTells, TellTells DEF Kept
<1>5. ASSUME RunFails(r) PROVE FALSE
  BY <1>1, <1>5 DEF RunFails, Types, RunningAt
<1>6. ASSUME Complete(r) PROVE FALSE
  BY <1>1, <1>6 DEF Complete, Types, RunningAt
<1>7. CASE Announce(r)
  <2>1. /\ thread[r].at = "announce" /\ "COMPLETED" \in LogFails
        /\ runs' = [runs EXCEPT ![r] = Failed(runs[r])]
    BY <1>7 DEF Announce, Announced
  <2>2. r = q
    BY <2>1 DEF Types
  <2>3. runs[q].result # None
    BY <2>1, <2>2 DEF HasCase
  <2>4. runs'[q] = Failed(runs[q])
    BY <2>1, <2>2 DEF Types
  <2>5. Failed(runs[q]).result = runs[q].result /\ Failed(runs[q]).status = "FAILED"
    BY <1>1 DEF Failed, Entry
  <2> QED BY <2>1, <2>3, <2>4, <2>5
<1> QED BY <1>2, <1>3, <1>4, <1>5, <1>6, <1>7

\* What clients have seen of a run that is over stays true, but for a success
\* whose logging fails (the second try of _run_async).
THEOREM NoWayBack == Spec => OnlyForward
<1>1. RegistryInv /\ [Next]_vars => [\A r \in Runs : Forward(r)]_vars
  BY StepForward
<1>2. [\A r \in Runs : Forward(r)]_vars =>
        [\A r \in Runs : runs[r] # None /\ runs[r].status # "RUNNING" =>
           /\ runs'[r].result = runs[r].result
           /\ runs'[r].status # runs[r].status =>
                 /\ runs'[r].status = "FAILED" /\ runs[r].result # None
                 /\ "COMPLETED" \in LogFails]_vars
  BY DEF Forward
<1> QED BY <1>1, <1>2, RegistryCorrect, PTL DEF Spec, OnlyForward

----------------------------------------------------------------------------
\* Whose case is shown

\* A case that was saved has a last save, the row of load_case.
HasLast == \A id \in Ids : (\E i \in DOMAIN saves : saves[i].case = id) =>
    \E i \in DOMAIN saves : /\ saves[i].case = id
                           /\ \A j \in DOMAIN saves : saves[j].case = id => j <= i

\* The case of a run on the cluster is saved by that run alone.
OwnCase == \A i \in DOMAIN saves : saves[i].case \in Runs => saves[i].run = saves[i].case

\* What the thread of a run takes for its case has been saved by it.
HasSaved == \A r \in Runs : thread[r].case # None =>
    \E i \in DOMAIN saves : saves[i] = [case |-> thread[r].case, run |-> r]

\* A run has no other result than its case, and none before it is over.
ResultIsCase == \A r \in Runs : runs[r] # None =>
    /\ runs[r].result \in {None, thread[r].case}
    /\ runs[r].status = "RUNNING" => runs[r].result = None

SavesInv == HasLast /\ OwnCase /\ HasSaved /\ ResultIsCase

\* What becomes of the entry of q in a step that saves no case: nothing, a new
\* run, one that goes on or fails with the result it had, or one that has
\* completed.
Becomes(q) ==
    \/ runs'[q] = runs[q]
    \/ runs'[q].result = None
    \/ /\ runs[q] # None /\ runs'[q].result = runs[q].result
       /\ runs'[q].status = "RUNNING" => runs[q].status = "RUNNING"
    \/ runs'[q].result = thread[q].case /\ runs'[q].status # "RUNNING"

LEMMA RunAsyncSaves == ASSUME RegistryInv, NEW r \in Runs, NEW s \in Scenarios, RunAsync(r, s)
                       PROVE  \A q \in Runs : Becomes(q) /\ thread'[q].case = thread[q].case
<1> DEFINE new == [scenario |-> s, status |-> "RUNNING", active |-> {}, result |-> None]
<1>1. /\ runs' = [runs EXCEPT ![r] = new]
      /\ thread' = [thread EXCEPT ![r].at = "start"]
  BY DEF RunAsync, Goto
<1>2. new.result = None
  OBVIOUS
<1> HIDE DEF new
<1>3. \A q \in Runs : Becomes(q)
  BY <1>1, <1>2 DEF RegistryInv, Types, Becomes
<1> QED BY <1>1, <1>3 DEF RegistryInv, Types, Threads

LEMMA KeptSaves == ASSUME Types, Kept PROVE \A q \in Runs : Becomes(q)
<1> SUFFICES ASSUME NEW q \in Runs PROVE Becomes(q)
  OBVIOUS
<1> QED BY DEF Kept, Becomes

LEMMA OverSaves == ASSUME RegistryInv, NEW r \in Runs, RunFails(r) \/ Complete(r) \/ Announce(r)
                   PROVE  \A q \in Runs : Becomes(q) /\ thread'[q].case = thread[q].case
<1> USE DEF RegistryInv
<1>1. PICK at \in Places : thread' = [thread EXCEPT ![r].at = at]
  BY DEF RunFails, Complete, Announce, Goto, Places
<1>2. \A q \in Runs : thread'[q].case = thread[q].case
  BY <1>1, Moves
<1>3. runs[r] \in Entry /\ runs[r] # None
  BY DEF RunFails, Complete, Announce, Types, Begun
<1>4. /\ Failed(runs[r]).result = runs[r].result /\ Failed(runs[r]).status = "FAILED"
      /\ Completed(runs[r], thread[r].case).result = thread[r].case
      /\ Completed(runs[r], thread[r].case).status = "COMPLETED"
  BY <1>3 DEF Failed, Completed, Entry
<1>5. \/ runs' = runs \/ runs' = [runs EXCEPT ![r] = Failed(runs[r])]
      \/ runs' = [runs EXCEPT ![r] = Completed(runs[r], thread[r].case)]
  BY DEF RunFails, Complete, Announce, Announced
<1>6. \A q \in Runs : Becomes(q)
  BY <1>3, <1>4, <1>5 DEF Types, Becomes
<1> QED BY <1>2, <1>6

\* The save of a run is the last of its case; the others stay where they are.
LEMMA SaveCaseSaves == ASSUME RegistryInv, SavesInv, NEW r \in Runs, SaveCase(r) PROVE SavesInv'
<1> USE DEF RegistryInv, SavesInv
<1> DEFINE id  == IF thread[r].at = "cluster" THEN r ELSE runs[r].scenario
           new == [case |-> id, run |-> r]
           n   == Len(saves)
<1>1. /\ thread[r].at \in {"memory", "cluster"}
      /\ saves' = Append(saves, new)
      /\ thread' = [thread EXCEPT ![r].at = "back", ![r].case = id]
      /\ UNCHANGED runs
  BY DEF SaveCase
<1>2. id \in Ids /\ (id \in Runs => id = r)
  <2>1. runs[r] \in Entry
    BY <1>1 DEF Types, Begun
  <2> QED BY <1>1, <2>1, RegistryAssumptions DEF Entry, Ids
<1>3. new.case = id /\ new.run = r
  OBVIOUS
<1>4. runs[r] # None => runs[r].status = "RUNNING"
  BY <1>1 DEF OnItsWay, RunningAt
<1>5. /\ thread'[r].case = id
      /\ \A q \in Runs : q # r => thread'[q].case = thread[q].case
  BY <1>1 DEF Types, Threads
<1> HIDE DEF id
<1>6. /\ n \in Nat /\ DOMAIN saves = 1..n /\ DOMAIN saves' = 1..(n + 1)
      /\ saves'[n + 1] = new /\ \A i \in 1..n : saves'[i] = saves[i]
  BY <1>1 DEF Types
<1> HIDE DEF n, new
<1>7. HasLast'
  <2> SUFFICES ASSUME NEW c \in Ids, NEW i \in 1..(n + 1), saves'[i].case = c
               PROVE  \E k \in 1..(n + 1) : /\ saves'[k].case = c
                                           /\ \A j \in 1..(n + 1) : saves'[j].case = c => j <= k
    BY <1>6 DEF HasLast
  <2>1. CASE c = id
    <3>1. saves'[n + 1].case = c /\ \A j \in 1..(n + 1) : j <= n + 1
      BY <1>3, <1>6, <2>1
    <3> QED BY <1>6, <3>1
  <2>2. CASE c # id
    <3>1. i \in 1..n /\ saves[i].case = c
      BY <1>3, <1>6, <2>2
    <3>2. PICK k \in 1..n : saves[k].case = c /\ \A j \in 1..n : saves[j].case = c => j <= k
      BY <1>6, <3>1 DEF HasLast
    <3>3. \A j \in 1..(n + 1) : saves'[j].case = c => j \in 1..n /\ saves[j].case = c
      BY <1>3, <1>6, <2>2
    <3>4. k \in 1..(n + 1) /\ saves'[k].case = c
      BY <1>6, <3>2
    <3> QED BY <3>2, <3>3, <3>4
  <2> QED BY <2>1, <2>2
<1>8. OwnCase'
  <2> SUFFICES ASSUME NEW i \in 1..(n + 1), saves'[i].case \in Runs
               PROVE  saves'[i].run = saves'[i].case
    BY <1>6 DEF OwnCase
  <2>1. CASE i \in 1..n
    BY <1>6, <2>1 DEF OwnCase
  <2>2. CASE i = n + 1
    BY <1>2, <1>3, <1>6, <2>2
  <2> QED BY <1>6, <2>1, <2>2
<1>9. HasSaved'
  <2> SUFFICES ASSUME NEW q \in Runs, thread'[q].case # None
               PROVE  \E i \in 1..(n + 1) : saves'[i] = [case |-> thread'[q].case, run |-> q]
    BY <1>6 DEF HasSaved
  <2>1. CASE q = r
    <3>1. n + 1 \in 1..(n + 1)
      BY <1>6
    <3> QED BY <1>5, <1>6, <2>1, <3>1 DEF new
  <2>2. CASE q # r
    <3>1. PICK i \in 1..n : saves[i] = [case |-> thread[q].case, run |-> q]
      BY <1>5, <1>6, <2>2 DEF HasSaved
    <3>2. i \in 1..(n + 1)
      BY <1>6
    <3> QED BY <1>5, <1>6, <2>2, <3>1, <3>2
  <2> QED BY <2>1, <2>2
<1>10. ResultIsCase'
  BY <1>1, <1>4, <1>5 DEF ResultIsCase
<1> QED BY <1>7, <1>8, <1>9, <1>10

LEMMA SavesStep == ASSUME RegistryInv, SavesInv, [Next]_vars PROVE SavesInv'
<1>1. ASSUME saves' = saves, \A q \in Runs : Becomes(q) /\ thread'[q].case = thread[q].case
      PROVE  SavesInv'
  <2>1. HasLast' /\ OwnCase'
    BY <1>1 DEF SavesInv, HasLast, OwnCase
  <2>2. HasSaved'
    BY <1>1 DEF SavesInv, HasSaved
  <2>3. ResultIsCase'
    BY <1>1 DEF SavesInv, ResultIsCase, Becomes
  <2> QED BY <2>1, <2>2, <2>3 DEF SavesInv
<1>2. CASE UNCHANGED vars
  BY <1>1, <1>2 DEF vars, Becomes
<1>3. ASSUME NEW r \in Runs, NEW s \in Scenarios, RunAsync(r, s) PROVE SavesInv'
  <2>1. saves' = saves
    BY <1>3 DEF RunAsync
  <2> QED BY <1>1, <1>3, <2>1, RunAsyncSaves
<1>4. ASSUME NEW r \in Runs, Step(r) PROVE SavesInv'
  <2>1. CASE SaveCase(r)
    BY <2>1, SaveCaseSaves
  <2>2. CASE Event(r)
    <3>1. saves' = saves /\ thread' = [thread EXCEPT ![r].done = thread[r].done + 1]
      BY <2>2 DEF Event
    <3>2. \A q \in Runs : thread'[q].case = thread[q].case
      BY <3>1 DEF RegistryInv, Types, Threads
    <3> QED BY <1>1, <2>2, <3>1, <3>2, EventTells, KeptSaves DEF RegistryInv
  <2>3. CASE RunFails(r) \/ Complete(r) \/ Announce(r)
    <3>1. saves' = saves
      BY <2>3 DEF RunFails, Complete, Announce
    <3> QED BY <1>1, <2>3, <3>1, OverSaves
  <2>4. CASE \/ Start(r) \/ Engine(r) \/ Activity(r) \/ SaveCheckpoint(r) \/ ClusterFails(r)
             \/ Return(r)
    <3>1. saves' = saves /\ runs' = runs
      BY <2>4 DEF Start, Engine, Activity, SaveCheckpoint, ClusterFails, Return
    <3>2. \A q \in Runs : thread'[q].case = thread[q].case
      <4>1. CASE Start(r)
        <5>1. PICK at \in Places : thread' = [thread EXCEPT ![r].at = at]
          BY <4>1 DEF Start, Goto, Places
        <5> QED BY <5>1, Moves DEF RegistryInv
      <4>2. CASE Engine(r)
        <5>1. \/ thread' = [thread EXCEPT ![r].at = "cluster", ![r].observed = TRUE, ![r].tries = 1]
              \/ thread' = [thread EXCEPT ![r].at = "memory"]
          BY <4>2 DEF Engine, Goto
        <5>2. CASE thread' = [thread EXCEPT ![r].at = "cluster", ![r].observed = TRUE, ![r].tries = 1]
          BY <5>2 DEF RegistryInv, Types, Threads
        <5>3. CASE thread' = [thread EXCEPT ![r].at = "memory"]
          BY <5>3 DEF RegistryInv, Types, Threads
        <5> QED BY <5>1, <5>2, <5>3
      <4>3. CASE Activity(r) \/ SaveCheckpoint(r)
        <5>1. thread' = [thread EXCEPT ![r].done = @ + 1]
          BY <4>3 DEF Activity, SaveCheckpoint
        <5> QED BY <5>1 DEF RegistryInv, Types, Threads
      <4>4. CASE ClusterFails(r)
        <5>1. \/ thread' = [thread EXCEPT ![r].done = 0, ![r].tries = 2]
              \/ thread' = [thread EXCEPT ![r].at = "memory", ![r].done = 0]
          BY <4>4 DEF ClusterFails
        <5>2. CASE thread' = [thread EXCEPT ![r].done = 0, ![r].tries = 2]
          BY <5>2 DEF RegistryInv, Types, Threads
        <5>3. CASE thread' = [thread EXCEPT ![r].at = "memory", ![r].done = 0]
          BY <5>3 DEF RegistryInv, Types, Threads
        <5> QED BY <5>1, <5>2, <5>3
      <4>5. CASE Return(r)
        <5>1. thread' = [thread EXCEPT ![r].at = "complete"]
          BY <4>5 DEF Return, Goto
        <5> QED BY <5>1 DEF RegistryInv, Types, Threads
      <4> QED BY <2>4, <4>1, <4>2, <4>3, <4>4, <4>5
    <3> QED BY <1>1, <3>1, <3>2 DEF Becomes
  <2> QED BY <1>4, <2>1, <2>2, <2>3, <2>4 DEF Step
<1>5. ASSUME NEW w \in Workers, Tell(w) PROVE SavesInv'
  <2>1. saves' = saves /\ thread' = thread
    BY <1>5 DEF Tell
  <2> QED BY <1>1, <1>5, <2>1, TellTells, KeptSaves DEF RegistryInv
<1>6. ASSUME NEW w \in Workers, NEW r \in Runs, LateActivity(r, w) PROVE SavesInv'
  <2>1. saves' = saves /\ thread' = thread /\ runs' = runs
    BY <1>6 DEF LateActivity
  <2> QED BY <1>1, <2>1 DEF Becomes
<1> QED BY <1>2, <1>3, <1>4, <1>5, <1>6 DEF Next

\* The cases: who has saved them, and that a result is one.
LEMMA SavesCorrect == Spec => []SavesInv
<1>1. Init => SavesInv
  BY DEF Init, NoThread, SavesInv, HasLast, OwnCase, HasSaved, ResultIsCase
<1>2. RegistryInv /\ SavesInv /\ [Next]_vars => SavesInv'
  BY SavesStep
<1> QED BY <1>1, <1>2, RegistryCorrect, PTL DEF Spec

\* What is shown for a run is its own case, or, of a case that runs share, that
\* of no earlier run (load_case in get_case_explanation).
THEOREM ExplainsNoOlder == Spec => []ExplanationNotOlder
<1>1. ASSUME RegistryInv, SavesInv PROVE ExplanationNotOlder
  <2> USE <1>1 DEF RegistryInv, SavesInv
  <2> SUFFICES ASSUME NEW r \in Runs, Explained(r) # None
               PROVE  \E i \in DOMAIN saves :
                        /\ saves[i] = [case |-> runs[r].result, run |-> r]
                        /\ i <= Row(runs[r].result)
                        /\ runs[r].result = r => Explained(r) = r
    BY DEF ExplanationNotOlder
  <2> DEFINE c == runs[r].result
             those == {i \in DOMAIN saves : saves[i].case = c}
  <2>1. runs[r] # None /\ c # None /\ Explained(r) = saves[Row(c)].run
    BY DEF Explained
  <2>2. c = thread[r].case
    BY <2>1 DEF ResultIsCase
  <2>3. PICK i \in DOMAIN saves : saves[i] = [case |-> c, run |-> r]
    BY <2>1, <2>2 DEF HasSaved
  <2>4. saves[i].case = c /\ c \in Ids
    <3>1. thread[r].case \in NoId
      BY DEF Types, Threads
    <3> QED BY <2>1, <2>2, <2>3, <3>1 DEF NoId
  <2>5. PICK k \in DOMAIN saves : saves[k].case = c
                                  /\ \A j \in DOMAIN saves : saves[j].case = c => j <= k
    BY <2>3, <2>4 DEF HasLast
  <2>6. Row(c) = CHOOSE k2 \in those : \A j \in those : j <= k2
    BY DEF Row
  <2>7. k \in those /\ \A j \in those : j <= k
    BY <2>5
  <2> HIDE DEF c
  <2>8. Row(c) \in those /\ \A j \in those : j <= Row(c)
    <3> HIDE DEF those
    <3> QED BY <2>6, <2>7, Zenon
  <2>9. i <= Row(c)
    BY <2>3, <2>4, <2>8
  <2>10. c = r => saves[Row(c)].run = r
    BY <2>8 DEF OwnCase
  <2> QED BY <2>1, <2>3, <2>9, <2>10 DEF c
<1> QED BY <1>1, RegistryCorrect, SavesCorrect, PTL

----------------------------------------------------------------------------
\* Whoever has got through is told so: the last line of a thread leaves its run
\* completed or failed, whatever other threads report to it later.
EndIsTold == \A r \in Runs : thread[r].at = "over" => runs[r] # None /\ runs[r].status # "RUNNING"

LEMMA EndIsToldStep == ASSUME RegistryInv, EndIsTold, [Next]_vars PROVE EndIsTold'
<1> SUFFICES ASSUME NEW q \in Runs, thread'[q].at = "over"
             PROVE  runs'[q] # None /\ runs'[q].status # "RUNNING"
  BY DEF EndIsTold
<1>1. /\ Types /\ Begun /\ HasCase /\ runs \in [Runs -> Entry \cup {None}]
      /\ thread \in [Runs -> Threads] /\ None \notin Entry
  BY RegistryAssumptions DEF RegistryInv, Types
<1>2. CASE runs'[q] = runs[q] /\ thread[q].at = "over"
  BY <1>2 DEF EndIsTold
<1>3. CASE UNCHANGED vars
  BY <1>2, <1>3 DEF vars
<1>4. ASSUME NEW r \in Runs, NEW s \in Scenarios, RunAsync(r, s)
      PROVE  runs'[q] # None /\ runs'[q].status # "RUNNING"
  <2>1. q # r
    BY <1>1, <1>4, Moves DEF RunAsync, Goto, Places
  <2> QED BY <1>1, <1>2, <1>4, <2>1 DEF RunAsync, Goto
<1>5. ASSUME NEW r \in Runs, Step(r)
      PROVE  runs'[q] # None /\ runs'[q].status # "RUNNING"
  <2>1. CASE \/ Start(r) \/ Engine(r) \/ Activity(r) \/ SaveCheckpoint(r) \/ SaveCase(r)
             \/ ClusterFails(r) \/ Return(r)
    <3>1. runs' = runs
      BY <2>1 DEF Start, Engine, Activity, SaveCheckpoint, SaveCase, ClusterFails, Return
    <3>2. CASE Start(r) \/ Engine(r) \/ Return(r)
      <4>1. /\ \A p \in Runs : p # r => thread'[p] = thread[p]
            /\ thread'[r].at # "over"
        <5>1. \E t : thread' = [thread EXCEPT ![r] = t] /\ t.at # "over"
          <6>1. PICK at \in Places \ {"over"} :
                  \/ thread' = [thread EXCEPT ![r].at = at]
                  \/ thread' = [thread EXCEPT ![r].at = at, ![r].observed = TRUE, ![r].tries = 1]
            BY <3>2 DEF Start, Engine, Return, Goto, Places
          <6>2. thread[r] \in Threads
            BY <1>1
          <6> DEFINE t1 == [thread[r] EXCEPT !.at = at]
                     t2 == [thread[r] EXCEPT !.at = at, !.observed = TRUE, !.tries = 1]
          <6>3. t1.at = at /\ t2.at = at
            BY <6>2 DEF Threads
          <6>4. thread' = [thread EXCEPT ![r] = t1] \/ thread' = [thread EXCEPT ![r] = t2]
            BY <6>1
          <6> HIDE DEF t1, t2
          <6> QED BY <6>1, <6>3, <6>4
        <5> QED BY <1>1, <5>1
      <4> QED BY <1>2, <3>1, <4>1
    <3>3. CASE Activity(r) \/ SaveCheckpoint(r) \/ SaveCase(r)
      BY <1>1, <1>2, <3>1, <3>3 DEF Activity, SaveCheckpoint, SaveCase, Threads
    <3>4. CASE ClusterFails(r)
      BY <1>1, <1>2, <3>1, <3>4 DEF ClusterFails, Threads
    <3> QED BY <2>1, <3>2, <3>3, <3>4
  <2>2. CASE Event(r)
    <3>1. thread[q].at = "over"
      BY <1>1, <2>2 DEF Event, Threads
    <3> QED BY <2>2, <3>1, EventTells DEF Kept, EndIsTold
  <2>3. CASE RunFails(r) \/ Complete(r) \/ Announce(r)
    <3>1. CASE q # r
      <4>1. runs'[q] = runs[q] /\ thread'[q] = thread[q]
        BY <1>1, <2>3, <3>1 DEF RunFails, Complete, Announce, Goto
      <4> QED BY <1>2, <4>1
    <3>2. CASE q = r
      <4>1. runs[r] \in Entry
        BY <1>1, <2>3 DEF RunFails, Complete, Announce, Begun
      <4>2. Failed(runs[r]) \in Entry /\ Failed(runs[r]).status = "FAILED"
        BY <4>1 DEF Failed, Entry
      <4>3. CASE RunFails(r)
        BY <1>1, <3>2, <4>2, <4>3 DEF RunFails
      <4>4. CASE Complete(r)
        BY <1>1, <3>2, <4>4 DEF Complete, Goto, Threads
      <4>5. CASE Announce(r)
        BY <1>1, <3>2, <4>1, <4>2, <4>5 DEF Announce, Announced, HasCase
      <4> QED BY <2>3, <4>3, <4>4, <4>5
    <3> QED BY <3>1, <3>2
  <2> QED BY <1>5, <2>1, <2>2, <2>3 DEF Step
<1>6. ASSUME NEW w \in Workers, Tell(w) PROVE runs'[q] # None /\ runs'[q].status # "RUNNING"
  <2>1. thread[q].at = "over"
    BY <1>6 DEF Tell
  <2> QED BY <1>6, <2>1, TellTells DEF Kept, EndIsTold
<1>7. ASSUME NEW w \in Workers, NEW r \in Runs, LateActivity(r, w)
      PROVE  runs'[q] # None /\ runs'[q].status # "RUNNING"
  BY <1>2, <1>7 DEF LateActivity
<1> QED BY <1>3, <1>4, <1>5, <1>6, <1>7 DEF Next

LEMMA EndIsToldCorrect == Spec => []EndIsTold
<1>1. Init => EndIsTold
  BY DEF Init, NoThread, EndIsTold
<1>2. RegistryInv /\ EndIsTold /\ [Next]_vars => EndIsTold'
  BY EndIsToldStep
<1> QED BY <1>1, <1>2, RegistryCorrect, PTL DEF Spec

----------------------------------------------------------------------------
\* How many steps a run has left at most: three times through the engine (twice
\* on the cluster, once in memory), and what comes before and after.
Pass == Events + Len(Nodes) + 1

StepsLeft(t) ==
    CASE t.at = "start"    -> 3 * Pass + 5
      [] t.at = "engine"   -> 3 * Pass + 4
      [] t.at = "cluster"  -> (IF t.tries = 1 THEN 2 * Pass ELSE Pass) + (Pass - t.done) + 3
      [] t.at = "memory"   -> (Pass - t.done) + 3
      [] t.at = "back"     -> 3
      [] t.at = "complete" -> 2
      [] t.at = "announce" -> 1
      [] OTHER             -> 0

\* A step of the run leaves it fewer steps, and nobody else's takes it back.
Fewer(r)  == StepsLeft(thread'[r]) < StepsLeft(thread[r])
Nearer(r) == (Step(r) => Fewer(r)) /\ (thread[r].at # "none" => thread'[r] = thread[r] \/ Fewer(r))

LEMMA StepsLeftBounded ==
    ASSUME NEW t \in Threads
    PROVE  StepsLeft(t) \in 0..(3 * Pass + 5)
<1>1. Pass \in Nat /\ t.done \in 0..(Pass - 1)
  BY RegistryAssumptions DEF Pass, Events, Threads, Steps
<1> QED BY <1>1 DEF StepsLeft, Threads

LEMMA StepNearer ==
    ASSUME Types, NEW r \in Runs, Step(r)
    PROVE  Fewer(r) /\ \A q \in Runs : q # r => thread'[q] = thread[q]
<1> DEFINE t == thread[r]
<1>1. Pass \in Nat /\ Events + Len(Nodes) = Pass - 1 /\ Events \in Nat /\ Len(Nodes) \in Nat
  BY RegistryAssumptions DEF Pass, Events
<1>2. t \in Threads /\ t.done \in 0..(Pass - 1) /\ thread \in [Runs -> Threads]
  BY <1>1 DEF Types, Threads, Steps
<1>3. ASSUME NEW u, thread' = [thread EXCEPT ![r] = u], StepsLeft(u) < StepsLeft(t)
      PROVE  Fewer(r) /\ \A q \in Runs : q # r => thread'[q] = thread[q]
  BY <1>2, <1>3 DEF Fewer
<1>4. CASE Start(r)
  <2>1. PICK at \in {"engine", "gone"} : thread' = [thread EXCEPT ![r] = [t EXCEPT !.at = at]]
    BY <1>4 DEF Start, Goto
  <2>2. StepsLeft([t EXCEPT !.at = at]) < StepsLeft(t)
    BY <1>1, <1>2, <1>4 DEF Start, StepsLeft, Threads
  <2> HIDE DEF t
  <2> QED BY <1>3, <2>1, <2>2
<1>5. CASE Engine(r)
  <2>1. PICK u \in {[t EXCEPT !.at = "cluster", !.observed = TRUE, !.tries = 1],
                    [t EXCEPT !.at = "memory"]} : thread' = [thread EXCEPT ![r] = u]
    BY <1>5 DEF Engine, Goto
  <2>2. u.done = t.done /\ (u.at = "memory" \/ (u.at = "cluster" /\ u.tries = 1))
    BY <1>2 DEF Threads
  <2>3. StepsLeft(u) < StepsLeft(t)
    BY <1>1, <1>2, <1>5, <2>2 DEF Engine, StepsLeft
  <2> QED BY <1>3, <2>1, <2>3
<1>6. CASE Event(r) \/ Activity(r) \/ SaveCheckpoint(r)
  <2>1. thread' = [thread EXCEPT ![r] = [t EXCEPT !.done = @ + 1]]
    BY <1>6 DEF Event, Activity, SaveCheckpoint
  <2>2. t.at \in {"cluster", "memory"} /\ t.done + 1 <= Pass - 1
    BY <1>1, <1>2, <1>6 DEF Event, Activity, SaveCheckpoint
  <2>3. StepsLeft([t EXCEPT !.done = @ + 1]) < StepsLeft(t)
    BY <1>1, <1>2, <2>2 DEF StepsLeft, Threads
  <2> HIDE DEF t
  <2> QED BY <1>3, <2>1, <2>3
<1>7. CASE SaveCase(r)
  <2>1. PICK id : thread' = [thread EXCEPT ![r] = [t EXCEPT !.at = "back", !.case = id]]
    BY <1>7 DEF SaveCase
  <2>2. StepsLeft([t EXCEPT !.at = "back", !.case = id]) < StepsLeft(t)
    BY <1>1, <1>2, <1>7 DEF SaveCase, StepsLeft, Threads
  <2> HIDE DEF t
  <2> QED BY <1>3, <2>1, <2>2
<1>8. CASE ClusterFails(r)
  <2>1. t.at = "cluster"
    BY <1>8 DEF ClusterFails
  <2>2. CASE t.tries = 1 /\ thread' = [thread EXCEPT ![r] = [t EXCEPT !.done = 0, !.tries = 2]]
    <3>1. StepsLeft([t EXCEPT !.done = 0, !.tries = 2]) < StepsLeft(t)
      BY <1>1, <1>2, <2>1, <2>2 DEF StepsLeft, Threads
    <3> HIDE DEF t
    <3> QED BY <1>3, <2>2, <3>1
  <2>3. CASE thread' = [thread EXCEPT ![r] = [t EXCEPT !.at = "memory", !.done = 0]]
    <3>1. StepsLeft([t EXCEPT !.at = "memory", !.done = 0]) < StepsLeft(t)
      BY <1>1, <1>2, <2>1 DEF StepsLeft, Threads
    <3> HIDE DEF t
    <3> QED BY <1>3, <2>3, <3>1
  <2> QED BY <1>8, <2>2, <2>3 DEF ClusterFails
<1>9. CASE RunFails(r) \/ Return(r) \/ Complete(r) \/ Announce(r)
  <2>1. PICK at \in {"over", "complete", "announce"} :
          /\ thread' = [thread EXCEPT ![r] = [t EXCEPT !.at = at]]
          /\ \/ at = "over" /\ t.at \in {"engine", "memory", "announce"}
             \/ at = "complete" /\ t.at = "back"
             \/ at = "announce" /\ t.at = "complete"
    BY <1>9 DEF RunFails, Return, Complete, Announce, Goto
  <2>2. StepsLeft([t EXCEPT !.at = at]) < StepsLeft(t)
    BY <1>1, <1>2, <2>1 DEF StepsLeft, Threads
  <2> HIDE DEF t
  <2> QED BY <1>3, <2>1, <2>2
<1> QED BY <1>4, <1>5, <1>6, <1>7, <1>8, <1>9 DEF Step

\* No run goes on for ever: each step of its thread brings it nearer to its end,
\* however often the cluster fails it, whoever else runs (the attempts of
\* execute_workflow, and its fallback to memory); and when none is left, its client
\* is told of an end, but for a thread that was gone before it began. That each
\* step is taken in the end is what the fairness of RunsEnd adds.
THEOREM RunsComeNearer ==
    Spec => /\ []EndIsTold
            /\ [](\A r \in Runs : StepsLeft(thread[r]) \in 0..(3 * Pass + 5))
            /\ [][\A r \in Runs : Nearer(r)]_vars
<1>1. ASSUME RegistryInv
      PROVE  \A r \in Runs : StepsLeft(thread[r]) \in 0..(3 * Pass + 5)
  BY <1>1, StepsLeftBounded DEF RegistryInv, Types
<1>2. ASSUME RegistryInv, [Next]_vars
      PROVE  \A r \in Runs : Nearer(r)
  <2>0. Types /\ Begun
    BY <1>2 DEF RegistryInv
  <2> SUFFICES ASSUME NEW r \in Runs, thread[r].at # "none", ~Fewer(r)
               PROVE  thread'[r] = thread[r]
    BY <2>0, StepNearer DEF Nearer
  <2>1. CASE UNCHANGED vars
    BY <2>1 DEF vars
  <2>2. ASSUME NEW q \in Runs, Step(q) PROVE thread'[r] = thread[r]
    BY <2>0, <2>2, StepNearer
  <2>3. ASSUME NEW q \in Runs, NEW s \in Scenarios, RunAsync(q, s)
        PROVE  thread'[r] = thread[r]
    BY <2>0, <2>3 DEF RunAsync, Goto, Begun, Types
  <2>4. ASSUME NEW w \in Workers, Tell(w) \/ \E q \in Runs : LateActivity(q, w)
        PROVE  thread'[r] = thread[r]
    BY <2>4 DEF Tell, LateActivity
  <2> QED BY <1>2, <2>1, <2>2, <2>3, <2>4 DEF Next
<1>3. RegistryInv /\ [Next]_vars => [\A r \in Runs : Nearer(r)]_vars
  BY <1>2
<1> QED BY <1>1, <1>3, RegistryCorrect, EndIsToldCorrect, PTL DEF Spec
=============================================================================
