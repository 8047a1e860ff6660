------------------------ MODULE CreditWorkflowProofs ------------------------
(***************************************************************************)
(* Proofs about CreditWorkflow: for any number of workers, types, what the *)
(* server's history says, and the limit of attempts; for one worker over a *)
(* database that takes every write, that caches, crashes, timeouts and     *)
(* retries lose nothing, do nothing out of turn, and that the workflow     *)
(* runs the pipeline of CasePipeline.                                      *)
(***************************************************************************)
EXTENDS CreditWorkflow, TLAPS

USE WorkflowAssumptions

----------------------------------------------------------------------------
\* What a step makes of a record

LEMMA FreshType == Fresh \in Record
BY DEF Fresh, Record, Values

LEMMA OwnedFields == \A n \in Steps : Owned(n) \subseteq Fields
BY DEF Owned, Steps, Agents, Fields, Reports

LEMMA ControlStatusType == \A r : ControlStatus(r) \in ControlStatuses
BY DEF ControlStatus, ControlStatuses

LEMMA WriteIs ==
    ASSUME NEW r \in Record, NEW S, NEW v \in Values
    PROVE  /\ Write(r, S, v) \in Record
           /\ Write(r, S, v).credit_debate = r.credit_debate
           /\ Write(r, S, v).risk_debate = r.risk_debate
           /\ \A f \in Fields : Write(r, S, v).field[f] = IF f \in S THEN v ELSE r.field[f]
BY DEF Write, Record

\* A turn is added at the end, and nothing else changes.
LEMMA SpeakIs ==
    ASSUME NEW r \in Record, NEW n \in Debaters
    PROVE  /\ Speak(r, n) \in Record
           /\ Speak(r, n).field = r.field
           /\ n \in CreditDebaters => /\ Speak(r, n).credit_debate = Append(r.credit_debate, n)
                                      /\ Speak(r, n).risk_debate = r.risk_debate
           /\ n \notin CreditDebaters => /\ Speak(r, n).credit_debate = r.credit_debate
                                         /\ Speak(r, n).risk_debate = Append(r.risk_debate, n)
<1>1. r.credit_debate \in Seq(CreditDebaters) /\ r.risk_debate \in Seq(Debaters \ CreditDebaters)
  BY DEF Record
<1>2. CASE n \in CreditDebaters
  <2>1. Append(r.credit_debate, n) \in Seq(CreditDebaters)
    BY <1>1, <1>2
  <2>2. Speak(r, n) = [r EXCEPT !.credit_debate = Append(r.credit_debate, n)]
    BY <1>2 DEF Speak
  <2> QED BY <1>1, <1>2, <2>1, <2>2 DEF Record
<1>3. CASE n \notin CreditDebaters
  <2>1. Append(r.risk_debate, n) \in Seq(Debaters \ CreditDebaters)
    BY <1>1, <1>3
  <2>2. Speak(r, n) = [r EXCEPT !.risk_debate = Append(r.risk_debate, n)]
    BY <1>3 DEF Speak
  <2> QED BY <1>1, <1>3, <2>1, <2>2 DEF Record
<1> QED BY <1>2, <1>3

\* Values a field may take, whoever writes it.
FieldValues(f) ==
    CASE f = "coapproval_opinion" -> Decisions
      [] f = "control" -> ControlStatuses
      [] OTHER -> Verdicts

\* A step that is no debater's writes the fields it owns and no other, and
\* leaves each with a value of the field's kind; the case file of a failed
\* intake alone may stay as it was.
Writes(r, n, s) ==
    /\ s.credit_debate = r.credit_debate /\ s.risk_debate = r.risk_debate
    /\ \A f \in Fields : IF f \in Owned(n)
                         THEN s.field[f] \in FieldValues(f) \/ (f = "case_file" /\ s.field[f] = r.field[f])
                         ELSE s.field[f] = r.field[f]

LEMMA ResultIs ==
    ASSUME NEW r \in Record, NEW n \in Steps, NEW s \in Results(r, n)
    PROVE  /\ s \in Record
           /\ IF n \in Debaters THEN s = Speak(r, n) ELSE Writes(r, n, s)
<1>1. CASE n = "CONTROL"
  <2>1. s = Write(r, Owned(n), ControlStatus(r)) /\ n \notin Debaters
    BY <1>1 DEF Results, Control, Debaters
  <2>2. ControlStatus(r) \in Values /\ ControlStatus(r) \in FieldValues("control")
    BY ControlStatusType DEF Values, FieldValues
  <2>3. Owned(n) = {"control"}
    BY <1>1 DEF Owned
  <2> QED BY <2>1, <2>2, <2>3, WriteIs DEF Writes
<1>2. CASE n # "CONTROL" /\ n \in Debaters
  <2>1. s = Speak(r, n)
    BY <1>2 DEF Results, AgentResults, Degrade, Complete
  <2> QED BY <1>2, <2>1, SpeakIs
<1>3. CASE n # "CONTROL" /\ n \notin Debaters
  <2>1. CASE s = Degrade(r, n)
    <3> DEFINE v == IF n = "A13" THEN "REJECT_INSUFFICIENT_EVIDENCE" ELSE "adverse"
    <3>1. s = Write(r, Owned(n) \ {"case_file"}, v) /\ v \in Values
      BY <1>3, <2>1 DEF Degrade, Values, Decisions, Verdicts
    <3>2. \A f \in Owned(n) : v \in FieldValues(f)
      BY <1>3 DEF FieldValues, Owned, Steps, Agents, Decisions, Verdicts
    <3> HIDE DEF v
    <3> QED BY <1>3, <3>1, <3>2, WriteIs DEF Writes
  <2>2. ASSUME NEW v \in Outputs(n), s = Complete(r, n, v)
        PROVE  s \in Record /\ Writes(r, n, s)
    <3> DEFINE q == Write(r, Owned(n), v)
    <3>1. v \in Values /\ "clear" \in Values
      BY <2>2 DEF Outputs, Values, Decisions, Verdicts
    <3>2. s = Write(q, Owned(n) \cap {"case_file"}, "clear")
      BY <1>3, <2>2 DEF Complete
    <3>3. \A f \in Owned(n) : v \in FieldValues(f)
      BY <1>3, <2>2 DEF FieldValues, Owned, Outputs, Steps, Agents, Decisions, Verdicts
    <3>4. "clear" \in FieldValues("case_file")
      BY DEF FieldValues, Verdicts
    <3>5. /\ q \in Record /\ q.credit_debate = r.credit_debate /\ q.risk_debate = r.risk_debate
          /\ \A f \in Fields : q.field[f] = IF f \in Owned(n) THEN v ELSE r.field[f]
      BY <3>1, WriteIs
    <3> HIDE DEF q
    <3>6. /\ s \in Record /\ s.credit_debate = q.credit_debate /\ s.risk_debate = q.risk_debate
          /\ \A f \in Fields : s.field[f] = IF f \in Owned(n) \cap {"case_file"} THEN "clear" ELSE q.field[f]
      BY <3>1, <3>2, <3>5, WriteIs
    <3> QED BY <3>3, <3>4, <3>5, <3>6 DEF Writes
  <2> QED BY <1>3, <2>1, <2>2 DEF Results, AgentResults
<1> QED BY <1>1, <1>2, <1>3

\* The structuring agent proposes only on a record that has the cash flow.
LEMMA DealNeedsCashflow ==
    ASSUME NEW r \in Record, NEW s \in Results(r, "A9"), s.field["deal_proposal"] = "clear"
    PROVE  s.field["cashflow"] # "absent"
<1>1. Owned("A9") = {"deal_proposal"} /\ "A9" \notin Debaters
  BY DEF Owned, Debaters
<1>2. s # Degrade(r, "A9")
  <2>1. "adverse" \in Values
    BY DEF Values, Verdicts
  <2>2. Degrade(r, "A9") = Write(r, {"deal_proposal"}, "adverse")
    BY <1>1 DEF Degrade
  <2> QED BY <2>1, <2>2, WriteIs DEF Fields
<1>3. r.field["cashflow"] # "absent"
  BY <1>2 DEF Results, AgentResults, ContextMissing
<1>4. s.field["cashflow"] = r.field["cashflow"]
  BY <1>1, ResultIs DEF Writes, Fields, Reports, Steps, Agents
<1> QED BY <1>3, <1>4

----------------------------------------------------------------------------
\* Types, for any number of workers and processes

Jobs == {Idle} \cup [step: Steps, live: BOOLEAN, record: Record]

LEMMA IdleIs == Idle.step \notin Steps /\ ~Idle.live /\ Idle \notin [step: Steps, live: BOOLEAN, record: Record]
BY DEF Idle, Steps, Agents

LEMMA JobIs ==
    ASSUME TypeOK, NEW w \in Workers, job[w] # Idle
    PROVE  job[w] \in [step: Steps, live: BOOLEAN, record: Record]
BY DEF TypeOK

LEMMA BusyIs ==
    ASSUME TypeOK, NEW w \in Workers, job[w].step \in Steps \/ job[w].live
    PROVE  job[w] # Idle
BY IdleIs

LEMMA StoreType ==
    ASSUME TypeOK, NEW p \in Processes, NEW r \in Record, Store(p, r)
    PROVE  l1' \in [Processes -> Record \cup {None}] /\ db' \in Record \cup {None}
BY DEF TypeOK, Store

\* Whatever attempts are lost, an attempt more is one below the limit.
LEMMA LoseType ==
    ASSUME TypeOK, NEW lost, Lose(lost)
    PROVE  /\ status' \in [Steps -> {"todo", "done", "failed"}]
           /\ attempts' \in [Steps -> 0..(MaxAttempts - 1)]
<1> DEFINE failed == {n \in lost \ {"CONTROL"} : attempts[n] + 1 >= MaxAttempts}
<1>1. /\ status' = [n \in Steps |-> IF n \in failed THEN "failed" ELSE status[n]]
      /\ attempts' = [n \in Steps |-> IF n \in failed THEN 0
                                      ELSE IF n \in lost \ {"CONTROL"} THEN attempts[n] + 1
                                      ELSE attempts[n]]
  BY DEF Lose
<1>2. status' \in [Steps -> {"todo", "done", "failed"}]
  <2> HIDE DEF failed
  <2> QED BY <1>1 DEF TypeOK
<1>3. \A n \in Steps : attempts[n] \in 0..(MaxAttempts - 1)
  BY DEF TypeOK
<1>4. \A n \in lost \ {"CONTROL"} : n \notin failed => ~(attempts[n] + 1 >= MaxAttempts)
  OBVIOUS
<1> HIDE DEF failed
<1>5. \A n \in Steps : attempts'[n] \in 0..(MaxAttempts - 1)
  BY <1>1, <1>3, <1>4
<1> QED BY <1>1, <1>2, <1>5

LEMMA TypeInit == Init => TypeOK
BY DEF Init, TypeOK

LEMMA TypeNext == TypeOK /\ [Next]_vars => TypeOK'
<1> SUFFICES ASSUME TypeOK, [Next]_vars PROVE TypeOK'
  OBVIOUS
<1>1. ASSUME NEW w \in Workers, NEW n \in Steps, Start(w, n) PROVE TypeOK'
  <2> DEFINE p == Home[w]
  <2>1. p \in Processes /\ UNCHANGED <<status, attempts, crashes>>
    BY <1>1 DEF Start
  <2>2. CASE Load(p) # None /\ job' = [job EXCEPT ![w] = [step |-> n, live |-> TRUE, record |-> Load(p)]]
             /\ l1' = [l1 EXCEPT ![p] = Load(p)] /\ db' = db
    <3>1. Load(p) \in Record
      BY <2>1, <2>2 DEF TypeOK, Load
    <3> QED BY <2>1, <2>2, <3>1 DEF TypeOK
  <2>3. CASE job' = [job EXCEPT ![w] = [step |-> n, live |-> TRUE, record |-> Fresh]] /\ Store(p, Fresh)
    BY <2>1, <2>3, StoreType, FreshType DEF TypeOK
  <2> QED BY <1>1, <2>2, <2>3 DEF Start
<1>2. ASSUME NEW w \in Workers, Finish(w) PROVE TypeOK'
  <2>1. job[w] \in [step: Steps, live: BOOLEAN, record: Record]
    BY <1>2, JobIs DEF Finish
  <2>2. PICK r \in Results(job[w].record, job[w].step) : Store(Home[w], r)
    BY <1>2 DEF Finish
  <2>3. r \in Record /\ Home[w] \in Processes
    BY <2>1, <2>2, ResultIs
  <2>4. l1' \in [Processes -> Record \cup {None}] /\ db' \in Record \cup {None}
    BY <2>2, <2>3, StoreType
  <2>5. /\ job' = [job EXCEPT ![w] = Idle] /\ crashes' = crashes
        /\ status' = status \/ status' = [status EXCEPT ![job[w].step] = "done"]
        /\ attempts' = attempts \/ attempts' = [attempts EXCEPT ![job[w].step] = 0]
    BY <1>2 DEF Finish
  <2> QED BY <2>1, <2>4, <2>5 DEF TypeOK
<1>3. ASSUME NEW w \in Workers, TimeOut(w) PROVE TypeOK'
  <2>1. job[w] \in [step: Steps, live: BOOLEAN, record: Record]
    BY <1>3, JobIs, BusyIs DEF TimeOut
  <2>2. job' \in [Workers -> Jobs]
    BY <1>3, <2>1 DEF TimeOut, TypeOK, Jobs
  <2> QED BY <1>3, <2>2, LoseType DEF TimeOut, TypeOK, Jobs
<1>4. ASSUME NEW n \in Steps, GiveUp(n) PROVE TypeOK'
  <2>1. \A w \in Workers : job[w].step = n => job[w] \in [step: Steps, live: BOOLEAN, record: Record]
    BY JobIs, BusyIs
  <2>2. job' \in [Workers -> Jobs]
    BY <1>4, <2>1 DEF GiveUp, TypeOK, Jobs
  <2> QED BY <1>4, <2>2 DEF GiveUp, TypeOK, Jobs
<1>5. ASSUME NEW p \in Processes, Evict(p) PROVE TypeOK'
  BY <1>5 DEF Evict, TypeOK
<1>6. ASSUME NEW p \in Processes, Crash(p) PROVE TypeOK'
  <2>1. job' \in [Workers -> Jobs] /\ l1' \in [Processes -> Record \cup {None}]
    BY <1>6 DEF Crash, TypeOK, Jobs
  <2>2. crashes' \in 0..MaxCrashes
    BY <1>6 DEF Crash, TypeOK
  <2>3. status' \in [Steps -> {"todo", "done", "failed"}] /\ attempts' \in [Steps -> 0..(MaxAttempts - 1)]
    BY <1>6, LoseType DEF Crash
  <2> QED BY <1>6, <2>1, <2>2, <2>3 DEF Crash, TypeOK, Jobs
<1>7. CASE UNCHANGED vars
  BY <1>7 DEF vars, TypeOK
<1> QED BY <1>1, <1>2, <1>3, <1>4, <1>5, <1>6, <1>7 DEF Next

\* The state has its types, for any number of workers, processes and crashes.
THEOREM TypeCorrect == Spec => []TypeOK
BY TypeInit, TypeNext, PTL DEF Spec

----------------------------------------------------------------------------
\* One worker, and a database that takes every write

Sole == (\A v, w \in Workers : v = w) /\ ~DbFails

\* A cache has the row of the database, or nothing, like that of a process no
\* worker runs in.
Coherent ==
    \A p \in Processes : l1[p] # None => l1[p] = db /\ \E w \in Workers : Home[w] = p

\* Nobody is past a barrier that is not open.
Closed == \A n \in Passed : Before(n) \subseteq Passed

\* Those before n are over, and nobody has passed the barrier behind it.
Open(n) == Before(n) \subseteq Passed /\ \A m \in Passed : n \notin Before(m)

\* The attempt that runs has the record as it is, and nobody has passed the
\* barrier behind it, even when the server has given it up.
Working ==
    \A w \in Workers : job[w] # Idle =>
        LET n == job[w].step IN
        /\ job[w].record = db
        /\ Open(n)
        /\ status[n] # "done"
        /\ job[w].live => status[n] = "todo"

Held == \A n \in Steps : status[n] = "done" => db # None /\ Holds(db, n)

\* A debate is in turn, and whoever has spoken had been let in.
DebateOK(debate) ==
    /\ InTurn(debate)
    /\ \A i \in DOMAIN debate : Before(debate[i]) \subseteq Passed

RecordOK ==
    db # None =>
        /\ \A f \in Fields : db.field[f] \in FieldValues(f) \cup {"absent"}
        /\ db.field["deal_proposal"] = "clear" => db.field["cashflow"] # "absent"
        /\ DebateOK(db.credit_debate) /\ DebateOK(db.risk_debate)

\* The verdict of the control is that of the record as it stands.
Judged == status["CONTROL"] = "done" => db # None /\ db.field["control"] = ControlStatus(db)

IInv == Sole /\ TypeOK /\ Coherent /\ Closed /\ Working /\ Held /\ RecordOK /\ Judged

----------------------------------------------------------------------------
\* What the steps do to the record and to what the workflow knows

Begins == status' = status /\ (db' = db \/ (db = None /\ db' = Fresh))

Publishes(n) ==
    /\ db # None /\ Open(n) /\ status[n] # "done"
    /\ db' \in Results(db, n)
    /\ \/ status' = status
       \/ status[n] = "todo" /\ status' = [status EXCEPT ![n] = "done"]

GivesUp(n) ==
    /\ n # "CONTROL" /\ Open(n) /\ status[n] = "todo"
    /\ db' = db /\ status' = [status EXCEPT ![n] = "failed"]

LEMMA NotBeforeItself == \A n \in Steps : n \notin Before(n)
BY DEF Before, Steps, Agents, Branches

LEMMA BranchAfterIntake == \A n \in Branches : Before(n) = {"A1"}
BY DEF Before, Branches

LEMMA BeforeSteps == \A n \in Steps : Before(n) \subseteq Steps
BY DEF Before, Steps, Agents, Branches

LEMMA ReadyIsOpen ==
    ASSUME IInv, NEW n \in Steps, Ready(n)
    PROVE  Open(n) /\ status[n] = "todo"
<1>1. status[n] = "todo" /\ n \notin Passed
  BY DEF Ready, Passed
<1>2. Before(n) \subseteq Passed
  BY BeforeSteps DEF Ready, Passed
<1> QED BY <1>1, <1>2 DEF IInv, Closed, Open

\* One attempt lost fails its step or leaves everything as it is.
LEMMA LoseOne ==
    ASSUME TypeOK, NEW n \in Steps, NEW lost, lost \subseteq {n}, Lose(lost)
    PROVE  \/ status' = status
           \/ n \in lost /\ n # "CONTROL" /\ status' = [status EXCEPT ![n] = "failed"]
<1> DEFINE failed == {m \in lost \ {"CONTROL"} : attempts[m] + 1 >= MaxAttempts}
<1>1. status' = [m \in Steps |-> IF m \in failed THEN "failed" ELSE status[m]]
  BY DEF Lose
<1>2. failed \subseteq {n} /\ (n \in failed => n \in lost /\ n # "CONTROL")
  OBVIOUS
<1>3. status = [m \in Steps |-> status[m]]
  BY DEF TypeOK
<1> HIDE DEF failed
<1>4. CASE n \in failed
  <2>1. [status EXCEPT ![n] = "failed"] = [m \in Steps |-> IF m \in failed THEN "failed" ELSE status[m]]
    BY <1>2, <1>4 DEF TypeOK
  <2> QED BY <1>1, <1>2, <1>4, <2>1
<1>5. CASE n \notin failed
  <2>1. status = [m \in Steps |-> IF m \in failed THEN "failed" ELSE status[m]]
    BY <1>2, <1>3, <1>5
  <2> QED BY <1>1, <2>1
<1> QED BY <1>4, <1>5

\* With one worker, a process that dies takes at most the one attempt with it.
LEMMA CrashLoses ==
    ASSUME IInv, NEW p \in Processes, Crash(p)
    PROVE  \/ status' = status
           \/ \E w \in Workers :
                /\ Home[w] = p /\ job[w].live /\ job[w].step \in Steps \ {"CONTROL"}
                /\ status' = [status EXCEPT ![job[w].step] = "failed"]
<1> DEFINE dead == {w \in Workers : Home[w] = p}
           lost == {n \in Steps : \E w \in dead : job[w].step = n /\ job[w].live}
<1>1. Lose(lost)
  BY DEF Crash
<1>2. TypeOK /\ \A v, w \in Workers : v = w
  BY DEF IInv, Sole
<1>3. CASE lost = {}
  <2>1. "A1" \in Steps /\ lost \subseteq {"A1"}
    BY <1>3 DEF Steps, Agents
  <2> HIDE DEF lost
  <2>2. status' = status \/ "A1" \in lost
    BY <1>1, <1>2, <2>1, LoseOne
  <2> QED BY <1>3, <2>2
<1>4. CASE lost # {}
  <2>1. PICK n \in Steps, w \in dead : job[w].step = n /\ job[w].live
    BY <1>4
  <2>2. lost \subseteq {n}
    BY <1>2, <2>1
  <2> HIDE DEF lost
  <2>3. status' = status \/ (n # "CONTROL" /\ status' = [status EXCEPT ![n] = "failed"])
    BY <1>1, <1>2, <2>2, LoseOne
  <2> QED BY <2>1, <2>3
<1> QED BY <1>3, <1>4

\* Every step begins, publishes or gives up.
LEMMA StepKinds ==
    ASSUME IInv, [Next]_vars
    PROVE  Begins \/ \E n \in Steps : Publishes(n) \/ GivesUp(n)
<1>1. TypeOK /\ ~DbFails /\ Coherent /\ Working
  BY DEF IInv, Sole
<1>2. ASSUME NEW w \in Workers, NEW n \in Steps, Start(w, n) PROVE Begins
  <2>1. CASE db' = db
    BY <1>2, <2>1 DEF Start, Begins
  <2>2. CASE Load(Home[w]) = None /\ Store(Home[w], Fresh)
    BY <1>1, <1>2, <2>2 DEF Start, Begins, Load, Store
  <2> QED BY <1>2, <2>1, <2>2 DEF Start
<1>3. ASSUME NEW w \in Workers, Finish(w) PROVE \E n \in Steps : Publishes(n)
  <2> DEFINE n == job[w].step
  <2>1. job[w] \in [step: Steps, live: BOOLEAN, record: Record] /\ job[w] # Idle
    BY <1>1, <1>3, JobIs DEF Finish
  <2>2. job[w].record = db /\ Open(n) /\ status[n] # "done" /\ (job[w].live => status[n] = "todo")
    BY <1>1, <2>1 DEF Working
  <2>3. db # None
    BY <2>1, <2>2
  <2>4. PICK r \in Results(db, n) : Store(Home[w], r)
    BY <1>3, <2>2 DEF Finish
  <2>5. db' \in Results(db, n)
    BY <1>1, <2>4 DEF Store
  <2>6. status' = IF job[w].live THEN [status EXCEPT ![n] = "done"] ELSE status
    BY <1>3 DEF Finish
  <2>7. Publishes(n)
    BY <2>2, <2>3, <2>5, <2>6 DEF Publishes
  <2> QED BY <2>1, <2>7
<1>4. ASSUME NEW w \in Workers, TimeOut(w) PROVE Begins \/ \E n \in Steps : GivesUp(n)
  <2> DEFINE n == job[w].step
  <2>1. job[w] \in [step: Steps, live: BOOLEAN, record: Record] /\ job[w] # Idle /\ job[w].live
    BY <1>1, <1>4, BusyIs, JobIs DEF TimeOut
  <2>2. Open(n) /\ status[n] = "todo"
    BY <1>1, <2>1 DEF Working
  <2>3. status' = status \/ (n # "CONTROL" /\ status' = [status EXCEPT ![n] = "failed"])
    <3>1. Lose({n})
      BY <1>4 DEF TimeOut
    <3> QED BY <1>1, <2>1, <3>1, LoseOne
  <2> QED BY <1>4, <2>1, <2>2, <2>3 DEF TimeOut, Begins, GivesUp
<1>5. ASSUME NEW n \in Steps, GiveUp(n) PROVE GivesUp(n)
  <2>1. n # "CONTROL"
    BY <1>5 DEF GiveUp, Agents
  <2> QED BY <1>5, <2>1, ReadyIsOpen DEF GiveUp, GivesUp
<1>6. ASSUME NEW p \in Processes, Crash(p) PROVE Begins \/ \E n \in Steps : GivesUp(n)
  <2>1. db' = db
    BY <1>6 DEF Crash
  <2>2. CASE status' = status
    BY <2>1, <2>2 DEF Begins
  <2>3. ASSUME NEW w \in Workers, job[w].live, job[w].step \in Steps \ {"CONTROL"},
               status' = [status EXCEPT ![job[w].step] = "failed"]
        PROVE  GivesUp(job[w].step)
    BY <1>1, <2>1, <2>3, BusyIs DEF Working, GivesUp
  <2> QED BY <1>6, <2>2, <2>3, CrashLoses
<1>7. ASSUME NEW p \in Processes, Evict(p) PROVE Begins
  BY <1>7 DEF Evict, Begins
<1>8. CASE UNCHANGED vars
  BY <1>8 DEF vars, Begins
<1> QED BY <1>2, <1>3, <1>4, <1>5, <1>6, <1>7, <1>8 DEF Next

\* What has been passed grows by at most the step that is dealt with.
LEMMA PassedStep ==
    ASSUME IInv, NEW n \in Steps, Publishes(n) \/ GivesUp(n)
    PROVE  /\ Passed' \in {Passed, Passed \cup {n}}
           /\ status'[n] = "done" => Passed' = Passed \cup {n}
           /\ status'[n] # "done" /\ n \notin Branches => Passed' = Passed
           /\ \A m \in Steps \ {n} : status'[m] = status[m]
<1>1. status \in [Steps -> {"todo", "done", "failed"}]
  BY DEF IInv, TypeOK
<1> QED BY <1>1 DEF Publishes, GivesUp, Passed

LEMMA ClosedStep == IInv /\ [Next]_vars => Closed'
<1> SUFFICES ASSUME IInv, [Next]_vars PROVE Closed'
  OBVIOUS
<1>1. Closed
  BY DEF IInv
<1>2. CASE Begins
  BY <1>1, <1>2 DEF Begins, Closed, Passed
<1>3. ASSUME NEW n \in Steps, Publishes(n) \/ GivesUp(n) PROVE Closed'
  <2>1. Passed' \in {Passed, Passed \cup {n}} /\ Before(n) \subseteq Passed
    BY <1>3, PassedStep DEF Publishes, GivesUp, Open
  <2> QED BY <1>1, <2>1 DEF Closed
<1> QED BY <1>2, <1>3, StepKinds

LEMMA CoherentStep == IInv /\ [Next]_vars => Coherent'
<1> SUFFICES ASSUME IInv, [Next]_vars PROVE Coherent'
  OBVIOUS
<1>1. TypeOK /\ ~DbFails /\ Coherent /\ Working /\ \A v, w \in Workers : v = w
  BY DEF IInv, Sole
<1>2. l1 \in [Processes -> Record \cup {None}]
  BY <1>1 DEF TypeOK
<1>3. ASSUME NEW w \in Workers, NEW n \in Steps, Start(w, n) PROVE Coherent'
  <2> DEFINE p == Home[w]
  <2>1. CASE Load(p) # None /\ l1' = [l1 EXCEPT ![p] = Load(p)] /\ db' = db
    BY <1>1, <1>2, <2>1 DEF Load, Coherent
  <2>2. CASE Load(p) = None /\ Store(p, Fresh)
    <3>1. db = None
      BY <1>1, <2>2 DEF Load
    <3>2. \A q \in Processes : l1[q] = None
      BY <1>1, <3>1 DEF Coherent
    <3> QED BY <1>1, <1>2, <2>2, <3>2 DEF Store, Coherent
  <2> QED BY <1>3, <2>1, <2>2 DEF Start
<1>4. ASSUME NEW w \in Workers, Finish(w) PROVE Coherent'
  <2>1. PICK r : Store(Home[w], r)
    BY <1>4 DEF Finish
  <2>2. db' = r /\ l1' = [l1 EXCEPT ![Home[w]] = r]
    BY <1>1, <2>1 DEF Store
  <2>3. \A q \in Processes : l1[q] # None => q = Home[w]
    BY <1>1 DEF Coherent
  <2> QED BY <1>2, <2>2, <2>3 DEF Coherent
<1>5. ASSUME NEW w \in Workers, TimeOut(w) PROVE Coherent'
  BY <1>1, <1>5 DEF TimeOut, Coherent
<1>6. ASSUME NEW n \in Steps, GiveUp(n) PROVE Coherent'
  BY <1>1, <1>6 DEF GiveUp, Coherent
<1>7. ASSUME NEW p \in Processes, Evict(p) \/ Crash(p) PROVE Coherent'
  BY <1>1, <1>2, <1>7 DEF Evict, Crash, Coherent
<1>8. CASE UNCHANGED vars
  BY <1>1, <1>8 DEF vars, Coherent
<1> QED BY <1>3, <1>4, <1>5, <1>6, <1>7, <1>8 DEF Next

\* The attempt that runs keeps its record and its place, until it is over.
LEMMA WorkingStep == IInv /\ [Next]_vars => Working'
<1> SUFFICES ASSUME IInv, [Next]_vars, NEW w \in Workers, job'[w] # Idle
    PROVE  /\ job'[w].record = db' /\ Open(job[w].step)' /\ status'[job'[w].step] # "done"
           /\ job'[w].live => status'[job'[w].step] = "todo"
  BY DEF Working
<1> DEFINE n == job[w].step
           Going == /\ job[w] # Idle /\ job'[w].step = n /\ job'[w].record = job[w].record
                    /\ db' = db
           Live  == job'[w].live => job[w].live
<1>1. TypeOK /\ ~DbFails /\ Working /\ \A v \in Workers : v = w
  BY DEF IInv, Sole
<1>2. job \in [Workers -> Jobs] /\ status \in [Steps -> {"todo", "done", "failed"}]
  BY <1>1 DEF TypeOK, Jobs
<1>3. job[w] # Idle => /\ n \in Steps /\ job[w].record = db /\ Open(n) /\ status[n] # "done"
                       /\ job[w].live => status[n] = "todo"
  BY <1>1, JobIs DEF Working
<1>4. ASSUME NEW v \in Workers, NEW m \in Steps, Start(v, m)
      PROVE  /\ job'[w].record = db' /\ Open(n)' /\ status'[job'[w].step] = "todo"
  <2>1. v = w /\ Open(m) /\ status[m] = "todo" /\ status' = status
    BY <1>1, <1>4, ReadyIsOpen DEF Start
  <2>2. job'[w].step = m /\ job'[w].record = db'
    <3>1. CASE Load(Home[w]) = None /\ Store(Home[w], Fresh)
               /\ job' = [job EXCEPT ![w] = [step |-> m, live |-> TRUE, record |-> Fresh]]
      BY <1>1, <1>2, <3>1 DEF Store
    <3>2. CASE Load(Home[w]) # None /\ db' = db
               /\ job' = [job EXCEPT ![w] = [step |-> m, live |-> TRUE, record |-> Load(Home[w])]]
      <4>1. Load(Home[w]) = db
        BY <3>2 DEF Load, IInv, Coherent
      <4> QED BY <1>2, <3>2, <4>1
    <3>3. Start(w, m)
      BY <1>4, <2>1
    <3> QED BY <3>1, <3>2, <3>3 DEF Start
  <2> QED BY <2>1, <2>2 DEF Open, Passed
<1>5. ASSUME NEW v \in Workers, Finish(v) PROVE FALSE
  BY <1>1, <1>2, <1>5 DEF Finish
<1>6. ASSUME Going, Live, status' = status
      PROVE  /\ job'[w].record = db' /\ Open(n)' /\ status'[n] # "done"
             /\ job'[w].live => status'[n] = "todo"
  BY <1>3, <1>6 DEF Open, Passed
<1>7. ASSUME Going, Live, NEW m \in Steps, GivesUp(m), m = n => ~job'[w].live
      PROVE  /\ job'[w].record = db' /\ Open(n)' /\ status'[n] # "done"
             /\ job'[w].live => status'[n] = "todo"
  <2>1. Passed' \in {Passed, Passed \cup {m}} /\ (m \notin Branches => Passed' = Passed)
    BY <1>2, <1>7, PassedStep DEF GivesUp
  <2>2. m \in Branches => n \notin Before(m)
    <3>1. m \in Branches => "A1" \in Passed
      BY <1>7, BranchAfterIntake DEF GivesUp, Open
    <3>2. "A1" \in Passed => status["A1"] = "done"
      BY DEF Passed, Branches
    <3> QED BY <1>3, <1>7, <3>1, <3>2, BranchAfterIntake
  <2>3. Open(n)'
    BY <1>3, <1>7, <2>1, <2>2, NotBeforeItself DEF Open
  <2>4. status'[n] # "done" /\ (job'[w].live => status'[n] = "todo")
    BY <1>2, <1>3, <1>7 DEF GivesUp
  <2> QED BY <1>3, <1>7, <2>3, <2>4
<1>8. ASSUME NEW v \in Workers, TimeOut(v)
      PROVE  Going /\ ~job'[w].live /\ (status' = status \/ GivesUp(n))
  <2>1. v = w /\ job[w] # Idle /\ job[w].live /\ job[w] \in [step: Steps, live: BOOLEAN, record: Record]
    BY <1>1, <1>8, BusyIs, JobIs DEF TimeOut
  <2>2. Going /\ ~job'[w].live
    BY <1>2, <1>8, <2>1 DEF TimeOut
  <2>3. status' = status \/ (n # "CONTROL" /\ status' = [status EXCEPT ![n] = "failed"])
    <3>1. Lose({n})
      BY <1>8, <2>1 DEF TimeOut
    <3> QED BY <1>1, <2>1, <3>1, LoseOne
  <2> QED BY <1>3, <2>1, <2>2, <2>3 DEF GivesUp
<1>9. ASSUME NEW m \in Steps, GiveUp(m)
      PROVE  Going /\ Live /\ GivesUp(m) /\ (m = n => ~job'[w].live)
  <2>1. job'[w] = IF n = m THEN [job[w] EXCEPT !.live = FALSE] ELSE job[w]
    BY <1>9 DEF GiveUp
  <2>2. job[w] # Idle
    BY <2>1, IdleIs
  <2>3. job[w] \in [step: Steps, live: BOOLEAN, record: Record]
    BY <1>1, <2>2, JobIs
  <2>4. GivesUp(m)
    <3>1. m # "CONTROL"
      BY <1>9 DEF GiveUp, Agents
    <3> QED BY <1>9, <3>1, ReadyIsOpen DEF GiveUp, GivesUp
  <2> QED BY <1>9, <2>1, <2>2, <2>3, <2>4 DEF GiveUp
<1>10. ASSUME NEW p \in Processes, Crash(p)
       PROVE  Going /\ Live /\ status' = status
  <2>1. Home[w] # p /\ job'[w] = job[w] /\ db' = db
    BY <1>10 DEF Crash
  <2>2. status' = status
    BY <1>1, <1>10, <2>1, CrashLoses
  <2> QED BY <2>1, <2>2
<1>11. ASSUME UNCHANGED <<db, job, status>>
       PROVE  Going /\ Live /\ status' = status
  BY <1>11
<1>12. ASSUME NEW p \in Processes, Evict(p) PROVE UNCHANGED <<db, job, status>>
  BY <1>12 DEF Evict
<1> QED
  BY <1>3, <1>4, <1>5, <1>6, <1>7, <1>8, <1>9, <1>10, <1>11, <1>12 DEF Next, vars

----------------------------------------------------------------------------
\* What a step adds stays, and is in turn

LEMMA NeverAbsentAgain == \A f : "absent" \notin FieldValues(f)
BY DEF FieldValues, Verdicts, Decisions, ControlStatuses

LEMMA FieldsStay ==
    ASSUME NEW r \in Record, NEW n \in Steps, NEW s \in Results(r, n), NEW f \in Fields
    PROVE  r.field[f] # "absent" => s.field[f] # "absent"
<1>1. CASE n \in Debaters
  BY <1>1, ResultIs, SpeakIs
<1>2. CASE n \notin Debaters
  BY <1>2, ResultIs, NeverAbsentAgain DEF Writes
<1> QED BY <1>1, <1>2

LEMMA TurnsStay ==
    ASSUME NEW r \in Record, NEW n \in Steps, NEW s \in Results(r, n)
    PROVE  /\ \A i \in DOMAIN r.credit_debate :
                i \in DOMAIN s.credit_debate /\ s.credit_debate[i] = r.credit_debate[i]
           /\ \A i \in DOMAIN r.risk_debate :
                i \in DOMAIN s.risk_debate /\ s.risk_debate[i] = r.risk_debate[i]
<1>1. r.credit_debate \in Seq(CreditDebaters) /\ r.risk_debate \in Seq(Debaters \ CreditDebaters)
  BY DEF Record
<1>2. \A S, m : \A d \in Seq(S) : m \in S =>
        \A i \in DOMAIN d : i \in DOMAIN Append(d, m) /\ Append(d, m)[i] = d[i]
  OBVIOUS
<1>3. CASE n \in CreditDebaters
  <2>1. n \in Debaters
    BY <1>3 DEF CreditDebaters, Debaters
  <2>2. s.credit_debate = Append(r.credit_debate, n) /\ s.risk_debate = r.risk_debate
    BY <1>3, <2>1, ResultIs, SpeakIs
  <2> QED BY <1>1, <1>2, <1>3, <2>2
<1>4. CASE n \in Debaters \ CreditDebaters
  <2>1. s.credit_debate = r.credit_debate /\ s.risk_debate = Append(r.risk_debate, n)
    BY <1>4, ResultIs, SpeakIs
  <2> QED BY <1>1, <1>2, <1>4, <2>1
<1>5. CASE n \notin Debaters
  BY <1>5, ResultIs DEF Writes
<1> QED BY <1>3, <1>4, <1>5

LEMMA HoldsStays ==
    ASSUME NEW r \in Record, NEW n \in Steps, NEW s \in Results(r, n),
           NEW m \in Steps, Holds(r, m)
    PROVE  Holds(s, m)
<1>1. CASE m \in Debaters
  BY <1>1, TurnsStay DEF Holds
<1>2. CASE m \notin Debaters
  <2>1. m \notin CreditDebaters
    BY <1>2 DEF Debaters, CreditDebaters
  <2> QED BY <1>2, <2>1, FieldsStay, OwnedFields DEF Holds
<1> QED BY <1>1, <1>2

LEMMA HoldsOwn ==
    ASSUME NEW r \in Record, NEW n \in Steps, NEW s \in Results(r, n)
    PROVE  Holds(s, n)
<1>1. CASE n \in Debaters
  <2>1. s = Speak(r, n) /\ r.credit_debate \in Seq(CreditDebaters)
        /\ r.risk_debate \in Seq(Debaters \ CreditDebaters)
    BY <1>1, ResultIs DEF Record
  <2>2. \A S : \A d \in Seq(S) : n \in S => \E i \in DOMAIN Append(d, n) : Append(d, n)[i] = n
    <3> SUFFICES ASSUME NEW S, NEW d \in Seq(S), n \in S
                 PROVE  Len(d) + 1 \in DOMAIN Append(d, n) /\ Append(d, n)[Len(d) + 1] = n
      OBVIOUS
    <3> QED OBVIOUS
  <2>3. CASE n \in CreditDebaters
    BY <1>1, <2>1, <2>2, <2>3, SpeakIs DEF Holds
  <2>4. CASE n \notin CreditDebaters
    BY <1>1, <2>1, <2>2, <2>4, SpeakIs DEF Holds
  <2> QED BY <2>3, <2>4
<1>2. CASE n \notin Debaters
  <2>1. n \notin CreditDebaters
    BY <1>2 DEF Debaters, CreditDebaters
  <2> QED BY <1>2, <2>1, ResultIs, OwnedFields, NeverAbsentAgain DEF Holds, Writes
<1> QED BY <1>1, <1>2

\* The result of every step that has answered stays in the record.
LEMMA HeldStep == IInv /\ [Next]_vars => Held'
<1> SUFFICES ASSUME IInv, [Next]_vars PROVE Held'
  OBVIOUS
<1>1. Held /\ TypeOK
  BY DEF IInv
<1>2. CASE Begins
  BY <1>1, <1>2 DEF Begins, Held
<1>3. ASSUME NEW n \in Steps, Publishes(n) PROVE Held'
  <2>1. db \in Record /\ db' \in Results(db, n)
    BY <1>1, <1>3 DEF Publishes, TypeOK
  <2>2. db' # None
    BY <2>1, ResultIs
  <2>3. \A m \in Steps : status'[m] = "done" => status[m] = "done" \/ m = n
    BY <1>3, PassedStep
  <2>4. \A m \in Steps : status'[m] = "done" => Holds(db', m)
    BY <1>1, <2>1, <2>3, HoldsStays, HoldsOwn DEF Held
  <2> QED BY <2>2, <2>4 DEF Held
<1>4. ASSUME NEW n \in Steps, GivesUp(n) PROVE Held'
  <2>1. \A m \in Steps : status'[m] = "done" => status[m] = "done"
    BY <1>1, <1>4 DEF GivesUp, TypeOK
  <2> QED BY <1>1, <1>4, <2>1 DEF GivesUp, Held
<1> QED BY <1>2, <1>3, <1>4, StepKinds

LEMMA OrderIs ==
    /\ DOMAIN Order = 1..5
    /\ Order[1] = "A6" /\ Order[2] = "A7" /\ Order[3] = "A10" /\ Order[4] = "A11" /\ Order[5] = "A12"
BY DEF Order

LEMMA InTurnAppend ==
    ASSUME NEW d \in Seq(Debaters), InTurn(d), NEW n \in Debaters,
           \A i \in DOMAIN d, k, l \in DOMAIN Order : d[i] = Order[k] /\ n = Order[l] => k <= l
    PROVE  InTurn(Append(d, n))
<1> DEFINE e == Append(d, n)
<1>1. /\ DOMAIN e = 1..(Len(d) + 1) /\ DOMAIN d = 1..Len(d) /\ Len(d) \in Nat
      /\ e[Len(d) + 1] = n /\ \A i \in DOMAIN d : e[i] = d[i]
  OBVIOUS
<1> HIDE DEF e
<1> SUFFICES ASSUME NEW i \in DOMAIN e, NEW j \in DOMAIN e,
                    NEW k \in DOMAIN Order, NEW l \in DOMAIN Order,
                    i < j, e[i] = Order[k], e[j] = Order[l]
             PROVE  k <= l
  BY DEF InTurn, e
<1>2. i \in DOMAIN d
  BY <1>1
<1>3. CASE j \in DOMAIN d
  BY <1>1, <1>2, <1>3 DEF InTurn
<1>4. CASE j = Len(d) + 1
  BY <1>1, <1>2, <1>4
<1> QED BY <1>1, <1>3, <1>4

\* Whoever spoke had been let in, so a later one is not let in before him.
LEMMA TurnComes ==
    ASSUME IInv, NEW n \in Debaters, Publishes(n), NEW m \in Debaters,
           m \in CreditDebaters <=> n \in CreditDebaters, Before(m) \subseteq Passed,
           NEW k \in DOMAIN Order, NEW l \in DOMAIN Order, m = Order[k], n = Order[l]
    PROVE  k <= l
<1>1. n \notin Passed
  BY DEF Publishes, Passed, Debaters, Branches
<1>2. "A11" \in Passed => "A10" \in Passed
  BY DEF IInv, Closed, Before, Branches
<1>3. /\ m = "A7" => "A6" \in Passed
      /\ m = "A11" => "A10" \in Passed
      /\ m = "A12" => "A11" \in Passed
  BY DEF Before, Branches
<1>4. /\ k \in 1..5 /\ l \in 1..5
      /\ Order[1] = "A6" /\ Order[2] = "A7" /\ Order[3] = "A10" /\ Order[4] = "A11" /\ Order[5] = "A12"
  BY OrderIs
<1>5. m \in {"A6", "A7"} <=> n \in {"A6", "A7"}
  BY DEF CreditDebaters
<1> QED BY <1>1, <1>2, <1>3, <1>4, <1>5

LEMMA DebateStep ==
    ASSUME IInv, NEW n \in Debaters, Publishes(n), NEW S \in {CreditDebaters, Debaters \ CreditDebaters},
           n \in S, NEW d \in Seq(S), DebateOK(d)
    PROVE  DebateOK(Append(d, n))'
<1> DEFINE e == Append(d, n)
<1>1. /\ DOMAIN e = 1..(Len(d) + 1) /\ DOMAIN d = 1..Len(d) /\ Len(d) \in Nat
      /\ e[Len(d) + 1] = n /\ \A i \in DOMAIN d : e[i] = d[i] /\ d[i] \in S
  OBVIOUS
<1>2. CreditDebaters \subseteq Debaters /\ n \in Steps
  BY DEF CreditDebaters, Debaters, Steps, Agents
<1>3. \A i \in DOMAIN d : d[i] \in Debaters /\ (d[i] \in CreditDebaters <=> n \in CreditDebaters)
  BY <1>1, <1>2
<1>4. InTurn(e)
  <2>1. d \in Seq(Debaters)
    BY <1>2
  <2>2. \A i \in DOMAIN d, k, l \in DOMAIN Order : d[i] = Order[k] /\ n = Order[l] => k <= l
    BY <1>3, TurnComes DEF DebateOK
  <2> QED BY <2>1, <2>2, InTurnAppend DEF DebateOK
<1>5. Passed \subseteq Passed' /\ Before(n) \subseteq Passed
  BY <1>2, PassedStep DEF Publishes, Open
<1>6. \A i \in DOMAIN e : Before(e[i]) \subseteq Passed'
  <2> HIDE DEF e
  <2> QED BY <1>1, <1>5 DEF DebateOK
<1> QED BY <1>4, <1>6 DEF DebateOK, InTurn

LEMMA RecordStep == IInv /\ [Next]_vars => RecordOK'
<1> SUFFICES ASSUME IInv, [Next]_vars, db' # None
             PROVE  /\ \A f \in Fields : db'.field[f] \in FieldValues(f) \cup {"absent"}
                    /\ db'.field["deal_proposal"] = "clear" => db'.field["cashflow"] # "absent"
                    /\ DebateOK(db.credit_debate)' /\ DebateOK(db.risk_debate)'
  BY DEF RecordOK
<1>1. TypeOK /\ RecordOK
  BY DEF IInv
<1>2. CASE db' = db /\ Passed \subseteq Passed'
  BY <1>1, <1>2 DEF RecordOK, DebateOK, InTurn
<1>3. CASE Begins
  <2>1. Passed' = Passed
    BY <1>3 DEF Begins, Passed
  <2>2. CASE db = None /\ db' = Fresh
    <3>1. \A f \in Fields : db'.field[f] = "absent"
      BY <2>2 DEF Fresh
    <3>2. db'.credit_debate = <<>> /\ db'.risk_debate = <<>>
      BY <2>2 DEF Fresh
    <3> QED BY <3>1, <3>2 DEF DebateOK, InTurn, Fields
  <2> QED BY <1>2, <1>3, <2>1, <2>2 DEF Begins
<1>4. ASSUME NEW n \in Steps, GivesUp(n) PROVE db' = db /\ Passed \subseteq Passed'
  BY <1>4, PassedStep DEF GivesUp
<1>5. ASSUME NEW n \in Steps, Publishes(n)
      PROVE  /\ \A f \in Fields : db'.field[f] \in FieldValues(f) \cup {"absent"}
             /\ db'.field["deal_proposal"] = "clear" => db'.field["cashflow"] # "absent"
             /\ DebateOK(db.credit_debate)' /\ DebateOK(db.risk_debate)'
  <2>1. /\ db \in Record /\ db' \in Results(db, n) /\ db # None
        /\ db.credit_debate \in Seq(CreditDebaters)
        /\ db.risk_debate \in Seq(Debaters \ CreditDebaters)
    BY <1>1, <1>5 DEF Publishes, TypeOK, Record
  <2>2. /\ \A f \in Fields : db.field[f] \in FieldValues(f) \cup {"absent"}
        /\ db.field["deal_proposal"] = "clear" => db.field["cashflow"] # "absent"
        /\ DebateOK(db.credit_debate) /\ DebateOK(db.risk_debate)
    BY <1>1, <2>1 DEF RecordOK
  <2>3. Passed \subseteq Passed'
    BY <1>5, PassedStep
  <2>4. CASE n \in Debaters
    <3>1. db' = Speak(db, n) /\ db'.field = db.field
      BY <2>1, <2>4, ResultIs, SpeakIs
    <3>2. CASE n \in CreditDebaters
      <4>1. db'.credit_debate = Append(db.credit_debate, n) /\ db'.risk_debate = db.risk_debate
        BY <2>1, <2>4, <3>1, <3>2, SpeakIs
      <4>2. DebateOK(db.credit_debate)'
        BY <1>5, <2>1, <2>2, <2>4, <3>2, <4>1, DebateStep DEF DebateOK, InTurn
      <4>3. DebateOK(db.risk_debate)'
        BY <2>2, <2>3, <4>1 DEF DebateOK, InTurn
      <4> QED BY <2>2, <3>1, <4>2, <4>3
    <3>3. CASE n \notin CreditDebaters
      <4>1. db'.risk_debate = Append(db.risk_debate, n) /\ db'.credit_debate = db.credit_debate
        BY <2>1, <2>4, <3>1, <3>3, SpeakIs
      <4>2. DebateOK(db.risk_debate)'
        BY <1>5, <2>1, <2>2, <2>4, <3>3, <4>1, DebateStep DEF DebateOK, InTurn
      <4>3. DebateOK(db.credit_debate)'
        BY <2>2, <2>3, <4>1 DEF DebateOK, InTurn
      <4> QED BY <2>2, <3>1, <4>2, <4>3
    <3> QED BY <3>2, <3>3
  <2>5. CASE n \notin Debaters
    <3>1. Writes(db, n, db')
      BY <2>1, <2>5, ResultIs
    <3>2. DebateOK(db.credit_debate)' /\ DebateOK(db.risk_debate)'
      BY <2>2, <2>3, <3>1 DEF Writes, DebateOK, InTurn
    <3>3. \A f \in Fields : db'.field[f] \in FieldValues(f) \cup {"absent"}
      BY <2>2, <3>1 DEF Writes
    <3>4. db'.field["deal_proposal"] = "clear" => db'.field["cashflow"] # "absent"
      <4>1. CASE n = "A9"
        BY <2>1, <4>1, DealNeedsCashflow
      <4>2. CASE n # "A9"
        <5>1. {"deal_proposal", "cashflow"} \subseteq Fields /\ "deal_proposal" \notin Owned(n)
          BY <4>2 DEF Fields, Reports, Owned, Steps, Agents
        <5>2. db'.field["deal_proposal"] = db.field["deal_proposal"]
          BY <3>1, <5>1 DEF Writes
        <5> QED BY <2>1, <2>2, <5>1, <5>2, FieldsStay
      <4> QED BY <4>1, <4>2
    <3> QED BY <3>2, <3>3, <3>4
  <2> QED BY <2>4, <2>5
<1> QED BY <1>2, <1>3, <1>4, <1>5, StepKinds

\* Whoever has passed the last barrier has passed them all.
LEMMA AllPassed ==
    ASSUME IInv, "CONTROL" \in Passed
    PROVE  Steps \subseteq Passed
<1>1. \A n \in Passed : Before(n) \subseteq Passed
  BY DEF IInv, Closed
<1>2. {"A13", "A12", "A11", "A10"} \subseteq Passed
  BY <1>1 DEF Before, Branches
<1>3. {"A9", "A8", "A7", "A6"} \subseteq Passed
  BY <1>1, <1>2 DEF Before, Branches
<1>4. {"A5", "A4", "A3", "A2", "A1"} \subseteq Passed
  BY <1>1, <1>3 DEF Before, Branches
<1> QED BY <1>2, <1>3, <1>4 DEF Steps, Agents

\* and leaves nothing to be run again.
LEMMA NothingOpen ==
    ASSUME IInv, status["CONTROL"] = "done", NEW n \in Steps, Open(n), status[n] # "done"
    PROVE  FALSE
<1>1. Steps \subseteq Passed
  BY AllPassed DEF Passed, Steps
<1>2. \A m \in Steps : n \notin Before(m)
  BY <1>1 DEF Open
<1>3. n # "CONTROL"
  OBVIOUS
<1>4. \E m \in Steps : n \in Before(m)
  <2>1. n \in Before("A2") \/ n \in Before("A5") \/ n \in Before("A6") \/ n \in Before("A7")
        \/ n \in Before("A8") \/ n \in Before("A9") \/ n \in Before("A10") \/ n \in Before("A11")
        \/ n \in Before("A12") \/ n \in Before("A13") \/ n \in Before("CONTROL")
    BY <1>3 DEF Before, Branches, Steps, Agents
  <2> QED BY <2>1 DEF Steps, Agents
<1> QED BY <1>2, <1>4

\* The control's verdict is not among the fields it looks at.
LEMMA ControlIsStable ==
    ASSUME NEW r \in Record
    PROVE  LET s == Control(r) IN s.field["control"] = ControlStatus(s)
<1> DEFINE s == Control(r)
<1>1. /\ \A f \in Fields : s.field[f] = IF f = "control" THEN ControlStatus(r) ELSE r.field[f]
  <2>1. ControlStatus(r) \in Values /\ Owned("CONTROL") = {"control"}
    BY ControlStatusType DEF Values, Owned
  <2> QED BY <2>1, WriteIs DEF Control
<1> HIDE DEF s
<1>2. \A f \in {"data_quality", "cashflow", "financial_capacity", "transaction_integrity",
                "policy", "deal_proposal", "coapproval_opinion"} : s.field[f] = r.field[f]
  BY <1>1 DEF Fields, Reports
<1>3. \A o \in Objections : Objection(s, o) = Objection(r, o)
  BY <1>2 DEF Objection, Objections
<1>4. Invalid(s) = Invalid(r)
  BY <1>2, <1>3 DEF Invalid
<1>5. ControlStatus(s) = ControlStatus(r)
  BY <1>2, <1>4 DEF ControlStatus
<1>6. s.field["control"] = ControlStatus(r)
  BY <1>1 DEF Fields
<1> QED BY <1>5, <1>6 DEF s

LEMMA JudgedStep == IInv /\ [Next]_vars => Judged'
<1> SUFFICES ASSUME IInv, [Next]_vars, status'["CONTROL"] = "done"
             PROVE  db' # None /\ db'.field["control"] = ControlStatus(db)'
  BY DEF Judged
<1>1. TypeOK /\ Judged /\ "CONTROL" \in Steps
  BY DEF IInv, Steps
<1>2. CASE Begins
  BY <1>1, <1>2 DEF Begins, Judged
<1>3. ASSUME NEW n \in Steps, GivesUp(n)
      PROVE  db' # None /\ db'.field["control"] = ControlStatus(db)'
  BY <1>1, <1>3 DEF GivesUp, Judged, TypeOK
<1>4. ASSUME NEW n \in Steps, Publishes(n)
      PROVE  db' # None /\ db'.field["control"] = ControlStatus(db)'
  <2>1. status["CONTROL"] # "done"
    BY <1>4, NothingOpen DEF Publishes
  <2>2. n = "CONTROL"
    BY <1>1, <1>4, <2>1, PassedStep
  <2>3. db \in Record /\ db' = Control(db)
    BY <1>1, <1>4, <2>2 DEF Publishes, TypeOK, Results
  <2>4. db' # None
    BY <1>4, <2>2, <2>3, ResultIs DEF Publishes
  <2> QED BY <2>3, <2>4, ControlIsStable
<1> QED BY <1>2, <1>3, <1>4, StepKinds

----------------------------------------------------------------------------
\* The invariant

LEMMA InvInit == Sole /\ Init => IInv
<1> SUFFICES ASSUME Sole, Init PROVE IInv
  OBVIOUS
<1>1. /\ db = None /\ \A p \in Processes : l1[p] = None
      /\ \A w \in Workers : job[w] = Idle
  BY DEF Init
<1>2. \A n \in Steps : status[n] = "todo"
  BY DEF Init
<1>3. Passed = {}
  BY <1>2 DEF Passed
<1> QED
  BY <1>1, <1>2, <1>3, TypeInit DEF IInv, Coherent, Closed, Working, Held, RecordOK, Judged, Steps

LEMMA InvNext == IInv /\ [Next]_vars => IInv'
BY TypeNext, CoherentStep, ClosedStep, WorkingStep, HeldStep, RecordStep, JudgedStep DEF IInv, Sole

\* With one worker, whatever crashes, times out or is given up: the caches
\* agree with the database, every attempt runs on the record as it is and
\* before anybody builds on it, and what has been answered is in the record.
THEOREM SoleWorkerCorrect == Spec /\ Sole => []IInv
BY InvInit, InvNext, PTL DEF Spec

----------------------------------------------------------------------------
\* The properties

LEMMA InvNothingLost == IInv => NothingLost
<1> SUFFICES ASSUME IInv, NEW n \in Steps, NEW p \in Processes, status[n] = "done"
             PROVE  Load(p) # None /\ Holds(Load(p), n)
  BY DEF NothingLost
<1>1. Load(p) = db
  BY DEF IInv, Coherent, Load
<1> QED BY <1>1 DEF IInv, Held

LEMMA InvTurnsInOrder == IInv => TurnsInOrder
<1> SUFFICES ASSUME IInv, NEW p \in Processes, Load(p) # None
             PROVE  InTurn(Load(p).credit_debate) /\ InTurn(Load(p).risk_debate)
  BY DEF TurnsInOrder
<1>1. Load(p) = db
  BY DEF IInv, Coherent, Load
<1> QED BY <1>1 DEF IInv, RecordOK, DebateOK

\* A case that the control has judged ready has all the evidence, unless the
\* integrity analyst gave up for good: a missing integrity report raises no
\* objection.
LEMMA InvReady == IInv /\ status["A3"] # "failed" => ReadyOnlyOnEvidence
<1> SUFFICES ASSUME IInv, status["A3"] # "failed", status["CONTROL"] = "done",
                    db.field["control"] = "READY_FOR_HUMAN_REVIEW"
             PROVE  /\ \A f \in Reports \cup {"data_quality", "deal_proposal"} : db.field[f] = "clear"
                    /\ db.field["coapproval_opinion"] = "APPROVE_WITH_CONDITIONS"
  BY DEF ReadyOnlyOnEvidence
<1>1. /\ db # None /\ ControlStatus(db) = "READY_FOR_HUMAN_REVIEW"
      /\ \A f \in Fields : db.field[f] \in FieldValues(f) \cup {"absent"}
      /\ db.field["deal_proposal"] = "clear" => db.field["cashflow"] # "absent"
  BY DEF IInv, Judged, RecordOK
<1>2. db.field["coapproval_opinion"] = "APPROVE_WITH_CONDITIONS" /\ ~Invalid(db)
  BY <1>1 DEF ControlStatus
<1>3. /\ db.field["deal_proposal"] = "clear" /\ db.field["financial_capacity"] = "clear"
      /\ \A f \in {"data_quality", "cashflow", "transaction_integrity", "policy"} :
            db.field[f] # "adverse"
  BY <1>2 DEF Invalid, Objection, Objections
<1>4. Steps \subseteq Passed
  BY AllPassed DEF Passed, Steps
<1>5. status["A1"] = "done" /\ status["A5"] = "done" /\ status["A3"] = "done"
  BY <1>4 DEF Passed, Steps, Agents, Branches
<1>6. Holds(db, "A1") /\ Holds(db, "A3") /\ Holds(db, "A5")
  BY <1>5 DEF IInv, Held, Steps, Agents
<1>7. /\ db.field["data_quality"] # "absent" /\ db.field["transaction_integrity"] # "absent"
      /\ db.field["policy"] # "absent"
  BY <1>6 DEF Holds, Owned, CreditDebaters, Debaters
<1>8. \A f \in {"data_quality", "cashflow", "transaction_integrity", "policy"} :
         db.field[f] \in {"clear", "adverse", "absent"}
  BY <1>1 DEF FieldValues, Fields, Reports, Verdicts
<1> QED BY <1>1, <1>2, <1>3, <1>7, <1>8 DEF Reports

\* The result of every step that has answered is in the record that any
\* process will load: caches, evictions, crashes and late attempts lose none.
THEOREM NothingIsLost == Spec /\ Sole => []NothingLost
BY SoleWorkerCorrect, InvNothingLost, PTL

\* A debater whose turn is tried again may have it twice in the debate, as the
\* code does, but no attempt, late or repeated, speaks out of turn.
THEOREM DebatesInTurn == Spec /\ Sole => []TurnsInOrder
BY SoleWorkerCorrect, InvTurnsInOrder, PTL

\* The control is fail-closed, in every state in which the integrity analyst
\* has not given up for good.
THEOREM ReadyUnlessIntegrityGivesUp ==
    Spec /\ Sole => [](status["A3"] # "failed" => ReadyOnlyOnEvidence)
BY SoleWorkerCorrect, InvReady, PTL

----------------------------------------------------------------------------
\* The workflow runs the pipeline

LEMMA SameResults == \A r, n : Pipeline!Results(r, n) = Results(r, n)
BY DEF Results, Control, AgentResults, Degrade, Complete, ContextMissing, Outputs, Speak, Write,
       Owned, ControlStatus, Invalid, Objection, Objections, Decisions, Verdicts, Debaters,
       CreditDebaters, Fields, Reports,
       Pipeline!Results, Pipeline!Control, Pipeline!AgentResults, Pipeline!Degrade,
       Pipeline!Complete, Pipeline!ContextMissing, Pipeline!Outputs, Pipeline!Speak,
       Pipeline!Write, Pipeline!Owned, Pipeline!ControlStatus, Pipeline!Invalid,
       Pipeline!Objection, Pipeline!Objections, Pipeline!Decisions, Pipeline!Verdicts,
       Pipeline!Debaters, Pipeline!CreditDebaters, Pipeline!Fields, Pipeline!Reports

LEMMA SameOpen == \A n : Pipeline!Open(n) = Open(n)
BY DEF Open, Before, Branches, Pipeline!Open, Pipeline!Before, Pipeline!Branches

LEMMA SameSets == Pipeline!Steps = Steps /\ Pipeline!Branches = Branches /\ Pipeline!Fresh = Fresh
BY DEF Steps, Agents, Branches, Fresh, Fields, Reports,
       Pipeline!Steps, Pipeline!Agents, Pipeline!Branches, Pipeline!Fresh, Pipeline!Fields,
       Pipeline!Reports

LEMMA PipelineInit == Init => Pipeline!Init
<1> SUFFICES ASSUME Init PROVE Pipeline!Init
  OBVIOUS
<1>1. db = None /\ Passed = {}
  BY DEF Init, Passed
<1> QED BY <1>1, SameSets DEF Pipeline!Init

\* An attempt that ends publishes, a branch that gives up is skipped, and
\* caches, timeouts and crashes change nothing.
LEMMA PipelineStep == IInv /\ [Next]_vars => [Pipeline!Next]_Pipeline!pipelineVars
<1> DEFINE record == IF db = None THEN Fresh ELSE db
<1> SUFFICES ASSUME IInv, [Next]_vars, ~(record' = record /\ Passed' = Passed)
             PROVE  Pipeline!Next
  BY SameSets DEF Pipeline!pipelineVars
<1>1. ~Begins
  <2>1. None # Fresh
    BY FreshType
  <2> QED BY <2>1 DEF Begins, Passed
<1>2. ASSUME NEW n \in Steps, Publishes(n) PROVE Pipeline!Publish(n)
  <2>1. db \in Record /\ db' \in Record /\ db' \in Results(db, n)
    BY <1>2, ResultIs DEF Publishes, IInv, TypeOK
  <2>2. record = db /\ record' = db'
    BY <2>1
  <2>3. Passed' \in {Passed, Passed \cup {n}} /\ Open(n)
    BY <1>2, PassedStep DEF Publishes
  <2> HIDE DEF record
  <2> QED BY <2>1, <2>2, <2>3, SameResults, SameOpen, SameSets DEF Pipeline!Publish, record
<1>3. ASSUME NEW n \in Steps, GivesUp(n) PROVE Pipeline!Skip(n)
  <2>1. status \in [Steps -> {"todo", "done", "failed"}] /\ db' = db /\ Open(n)
    BY <1>3 DEF GivesUp, IInv, TypeOK
  <2>2. Passed' = Passed \cup {n} /\ n \in Branches
    <3>1. status'[n] = "failed"
      BY <1>3, <2>1 DEF GivesUp
    <3>2. Passed' # Passed
      BY <2>1
    <3> QED BY <1>3, <3>1, <3>2, PassedStep
  <2> QED BY <2>1, <2>2, SameOpen, SameSets DEF Pipeline!Skip
<1> QED BY <1>1, <1>2, <1>3, StepKinds, SameSets DEF Pipeline!Next

\* One worker keeps the promise of CasePipeline in spite of caches, crashes,
\* timeouts and retries.
THEOREM ImplementsPipeline == Spec /\ Sole => KeepsPipeline
BY PipelineInit, PipelineStep, SoleWorkerCorrect, PTL DEF Spec, KeepsPipeline, Pipeline!Spec

----------------------------------------------------------------------------
\* What the server knows, for any number of workers and any database

\* The server waits for attempts of steps it has scheduled, and for one of each.
LiveIsReady  == \A w \in Workers : job[w].live => job[w].step \in Steps /\ Ready(job[w].step)
OneWaitedFor == \A v, w \in Workers :
                   job[v].live /\ job[w].live /\ job[v].step = job[w].step => v = w

HistoryInv == TypeOK /\ LiveIsReady /\ OneWaitedFor /\ Closed

\* What is known of a step stays so.
Stands == \A n \in Steps : status[n] # "todo" => status'[n] = status[n]

\* A step that settles steps that are ready, and leaves the server waiting for
\* one attempt each of others that are.
LEMMA Settles ==
    ASSUME HistoryInv, TypeOK',
           NEW over \in SUBSET Steps, \A n \in over : Ready(n),
           \A n \in Steps \ over : status'[n] = status[n],
           \A w \in Workers : job'[w].live =>
               job'[w].step \in Steps \ over /\ Ready(job'[w].step),
           OneWaitedFor'
    PROVE  HistoryInv' /\ Stands
<1>1. Stands
  BY DEF Stands, Ready
<1>2. Passed \subseteq Passed'
  BY <1>1 DEF Passed, Stands
<1>3. LiveIsReady'
  <2> SUFFICES ASSUME NEW w \in Workers, job'[w].live
               PROVE  job'[w].step \in Steps /\ Ready(job[w].step)'
    BY DEF LiveIsReady
  <2> DEFINE n == job'[w].step
  <2>1. n \in Steps \ over /\ Ready(n)
    OBVIOUS
  <2>2. status'[n] = "todo" /\ \A m \in Before(n) : m \in Steps /\ status'[m] = status[m]
    BY <1>1, <2>1, BeforeSteps DEF Ready, Stands
  <2> QED BY <2>1, <2>2 DEF Ready
<1>4. Closed'
  <2>1. \A n \in over : Before(n) \subseteq Passed
    BY BeforeSteps DEF Ready, Passed
  <2>2. \A n \in Passed' : n \in Passed \/ n \in over
    BY DEF Passed
  <2> QED BY <1>2, <2>1, <2>2 DEF Closed, HistoryInv
<1> QED BY <1>1, <1>3, <1>4 DEF HistoryInv

LEMMA SettlesOne ==
    ASSUME HistoryInv, TypeOK',
           NEW n \in Steps, Ready(n),
           \A m \in Steps \ {n} : status'[m] = status[m],
           \A w \in Workers : job'[w].live =>
               job'[w].step \in Steps \ {n} /\ Ready(job'[w].step),
           OneWaitedFor'
    PROVE  HistoryInv' /\ Stands
<1> DEFINE over == {n}
<1>1. over \in SUBSET Steps /\ \A m \in over : Ready(m)
  OBVIOUS
<1>2. /\ \A m \in Steps \ over : status'[m] = status[m]
      /\ \A w \in Workers : job'[w].live =>
            job'[w].step \in Steps \ over /\ Ready(job'[w].step)
  OBVIOUS
<1> HIDE DEF over
<1> QED BY <1>1, <1>2, Settles

LEMMA SettlesNone ==
    ASSUME HistoryInv, TypeOK', status' = status,
           \A w \in Workers : job'[w].live => job'[w].step \in Steps /\ Ready(job'[w].step),
           OneWaitedFor'
    PROVE  HistoryInv' /\ Stands
<1> DEFINE over == {}
<1>1. over \in SUBSET Steps /\ \A m \in over : Ready(m)
  OBVIOUS
<1>2. /\ \A m \in Steps \ over : status'[m] = status[m]
      /\ \A w \in Workers : job'[w].live =>
            job'[w].step \in Steps \ over /\ Ready(job'[w].step)
  OBVIOUS
<1> HIDE DEF over
<1> QED BY <1>1, <1>2, Settles

LEMMA LoseSettles ==
    ASSUME TypeOK, NEW lost, Lose(lost)
    PROVE  \A n \in Steps \ lost : status'[n] = status[n]
<1>1. status' = [n \in Steps |->
          IF n \in {m \in lost \ {"CONTROL"} : attempts[m] + 1 >= MaxAttempts}
          THEN "failed" ELSE status[n]]
  BY DEF Lose
<1> QED BY <1>1

LEMMA HistoryStep == HistoryInv /\ [Next]_vars => HistoryInv' /\ Stands
<1> SUFFICES ASSUME HistoryInv, [Next]_vars PROVE HistoryInv' /\ Stands
  OBVIOUS
<1> USE DEF HistoryInv
<1>0. TypeOK' /\ job \in [Workers -> Jobs]
  BY TypeNext DEF TypeOK, Jobs
<1>1. CASE status' = status /\ job' = job
  <2>1. OneWaitedFor'
    BY <1>1 DEF OneWaitedFor
  <2> QED BY <1>0, <1>1, <2>1, SettlesNone DEF LiveIsReady
<1>2. ASSUME NEW w \in Workers, NEW n \in Steps, Start(w, n) PROVE HistoryInv' /\ Stands
  <2>1. PICK r : job' = [job EXCEPT ![w] = [step |-> n, live |-> TRUE, record |-> r]]
    BY <1>2 DEF Start
  <2>2. status' = status /\ Ready(n) /\ ~Running(n)
    BY <1>2 DEF Start
  <2>3. /\ job'[w].step = n /\ \A v \in Workers \ {w} : job'[v] = job[v]
        /\ \A v \in Workers : job[v].live => job[v].step # n
    BY <1>0, <2>1, <2>2 DEF Running
  <2>4. OneWaitedFor'
    <3> SUFFICES ASSUME NEW u \in Workers, NEW v \in Workers, job'[u].live, job'[v].live,
                        job'[u].step = job'[v].step
                 PROVE  u = v
      BY DEF OneWaitedFor
    <3> QED BY <2>3 DEF OneWaitedFor
  <2>5. \A v \in Workers : job'[v].live => job'[v].step \in Steps /\ Ready(job'[v].step)
    BY <2>2, <2>3 DEF LiveIsReady
  <2> QED BY <1>0, <2>2, <2>4, <2>5, SettlesNone
<1>3. ASSUME NEW w \in Workers, Finish(w) PROVE HistoryInv' /\ Stands
  <2> DEFINE n == job[w].step
  <2>1. /\ job' = [job EXCEPT ![w] = Idle]
        /\ status' = IF job[w].live THEN [status EXCEPT ![n] = "done"] ELSE status
    BY <1>3 DEF Finish
  <2>2. ~job'[w].live /\ \A v \in Workers \ {w} : job'[v] = job[v]
    BY <1>0, <2>1, IdleIs
  <2>3. OneWaitedFor'
    BY <2>2 DEF OneWaitedFor
  <2>4. CASE job[w].live
    <3>1. n \in Steps /\ Ready(n) /\ \A m \in Steps \ {n} : status'[m] = status[m]
      BY <2>1, <2>4 DEF LiveIsReady, TypeOK
    <3>2. \A v \in Workers : job'[v].live => job'[v].step \in Steps \ {n} /\ Ready(job'[v].step)
      BY <2>2, <2>4 DEF LiveIsReady, OneWaitedFor
    <3> HIDE DEF n
    <3> QED BY <1>0, <2>3, <3>1, <3>2, SettlesOne
  <2>5. CASE ~job[w].live
    BY <1>0, <2>1, <2>2, <2>3, <2>5, SettlesNone DEF LiveIsReady
  <2> QED BY <2>4, <2>5
<1>4. ASSUME NEW w \in Workers, TimeOut(w) PROVE HistoryInv' /\ Stands
  <2> DEFINE n == job[w].step
  <2>1. job[w].live /\ Lose({n}) /\ job' = [job EXCEPT ![w].live = FALSE]
    BY <1>4 DEF TimeOut
  <2>2. ~job'[w].live /\ \A v \in Workers \ {w} : job'[v] = job[v]
    <3>1. job[w] \in [step: Steps, live: BOOLEAN, record: Record]
      BY <2>1, BusyIs, JobIs
    <3> QED BY <1>0, <2>1, <3>1
  <2>3. OneWaitedFor'
    BY <2>2 DEF OneWaitedFor
  <2>4. n \in Steps /\ Ready(n) /\ \A m \in Steps \ {n} : status'[m] = status[m]
    BY <2>1, LoseSettles DEF LiveIsReady
  <2>5. \A v \in Workers : job'[v].live => job'[v].step \in Steps \ {n} /\ Ready(job'[v].step)
    BY <2>1, <2>2 DEF LiveIsReady, OneWaitedFor
  <2> HIDE DEF n
  <2> QED BY <1>0, <2>3, <2>4, <2>5, SettlesOne
<1>5. ASSUME NEW n \in Steps, GiveUp(n) PROVE HistoryInv' /\ Stands
  <2>1. /\ Ready(n) /\ status' = [status EXCEPT ![n] = "failed"]
        /\ job' = [w \in Workers |-> IF job[w].step = n THEN [job[w] EXCEPT !.live = FALSE]
                                     ELSE job[w]]
    BY <1>5 DEF GiveUp
  <2>2. \A w \in Workers : /\ job[w].step = n => ~job'[w].live
                           /\ job[w].step # n => job'[w] = job[w]
    <3>1. \A w \in Workers : job[w].step = n => job[w] \in [step: Steps, live: BOOLEAN, record: Record]
      BY BusyIs, JobIs
    <3> QED BY <2>1, <3>1
  <2>3. OneWaitedFor'
    BY <2>2 DEF OneWaitedFor
  <2>4. \A m \in Steps \ {n} : status'[m] = status[m]
    BY <2>1 DEF TypeOK
  <2>5. \A v \in Workers : job'[v].live => job'[v].step \in Steps \ {n} /\ Ready(job'[v].step)
    BY <2>2 DEF LiveIsReady
  <2> QED BY <1>0, <2>1, <2>3, <2>4, <2>5, SettlesOne
<1>6. ASSUME NEW p \in Processes, Crash(p) PROVE HistoryInv' /\ Stands
  <2> DEFINE dead == {w \in Workers : Home[w] = p}
             lost == {n \in Steps : \E w \in dead : job[w].step = n /\ job[w].live}
  <2>1. Lose(lost) /\ job' = [w \in Workers |-> IF w \in dead THEN Idle ELSE job[w]]
    BY <1>6 DEF Crash
  <2>2. \A w \in Workers : /\ w \in dead => ~job'[w].live
                           /\ w \notin dead => job'[w] = job[w]
    BY <2>1, IdleIs
  <2>3. OneWaitedFor'
    BY <2>2 DEF OneWaitedFor
  <2>4. lost \subseteq Steps /\ \A n \in lost : Ready(n)
    BY DEF LiveIsReady
  <2>5. \A n \in Steps \ lost : status'[n] = status[n]
    <3> HIDE DEF lost
    <3> QED BY <2>1, LoseSettles
  <2>6. \A v \in Workers : job'[v].live => job'[v].step \in Steps \ lost /\ Ready(job'[v].step)
    BY <2>2 DEF LiveIsReady, OneWaitedFor
  <2> HIDE DEF lost
  <2> QED BY <1>0, <2>3, <2>4, <2>5, <2>6, Settles
<1>7. ASSUME NEW p \in Processes, Evict(p) PROVE HistoryInv' /\ Stands
  BY <1>1, <1>7 DEF Evict
<1>8. CASE UNCHANGED vars
  BY <1>1, <1>8 DEF vars
<1> QED BY <1>2, <1>3, <1>4, <1>5, <1>6, <1>7, <1>8 DEF Next

\* Whatever times out, is given up, crashes, comes late or is tried again, on any
\* number of workers: the server waits for one attempt of a step at a time, only
\* for steps whose barrier is open, nobody is past a barrier that is not, and
\* what the history says of a step is never taken back or answered a second time
\* (the awaits and the gather of the stages, and the retries of
\* get_agent_policy).
THEOREM HistoryStands == Spec => []HistoryInv /\ [][Stands]_vars
<1>1. Init => HistoryInv
  BY TypeInit, IdleIs DEF Init, HistoryInv, LiveIsReady, OneWaitedFor, Closed, Passed
<1>2. HistoryInv /\ [Next]_vars => HistoryInv' /\ [Stands]_vars
  BY HistoryStep
<1> QED BY <1>1, <1>2, PTL DEF Spec

\* The attempts a step has left, the one that runs included.
AttemptsLeft(n) == IF status[n] = "todo" THEN MaxAttempts - attempts[n] ELSE 0

\* An attempt that ends is one less, and nothing gives it back.
Used(n) == /\ AttemptsLeft(n)' <= AttemptsLeft(n)
           /\ Running(n) /\ ~Running(n)' => AttemptsLeft(n)' < AttemptsLeft(n)

LEMMA AttemptsAre ==
    ASSUME TypeOK, NEW n \in Steps
    PROVE  /\ AttemptsLeft(n) \in 0..MaxAttempts
           /\ status[n] = "todo" => AttemptsLeft(n) > 0
BY DEF TypeOK, AttemptsLeft

LEMMA LoseUses ==
    ASSUME TypeOK, NEW lost \in SUBSET Steps, Lose(lost), \A n \in lost : status[n] = "todo"
    PROVE  \A n \in Agents : /\ AttemptsLeft(n)' <= AttemptsLeft(n)
                             /\ n \in lost => AttemptsLeft(n)' < AttemptsLeft(n)
<1> DEFINE failed == {n \in lost \ {"CONTROL"} : attempts[n] + 1 >= MaxAttempts}
<1> TAKE n \in Agents
<1>1. /\ status' = [m \in Steps |-> IF m \in failed THEN "failed" ELSE status[m]]
      /\ attempts' = [m \in Steps |-> IF m \in failed THEN 0
                                      ELSE IF m \in lost \ {"CONTROL"} THEN attempts[m] + 1
                                      ELSE attempts[m]]
  BY DEF Lose
<1>2. n \in Steps /\ n # "CONTROL"
  BY DEF Steps, Agents
<1>3. attempts[n] \in 0..(MaxAttempts - 1) /\ AttemptsLeft(n) \in 0..MaxAttempts
      /\ (status[n] = "todo" => AttemptsLeft(n) > 0)
  BY <1>2, AttemptsAre DEF TypeOK
<1>4. failed \subseteq lost
  OBVIOUS
<1> HIDE DEF failed
<1>5. CASE n \in failed
  <2>1. AttemptsLeft(n)' = 0
    BY <1>1, <1>2, <1>5 DEF AttemptsLeft
  <2> QED BY <1>3, <1>4, <1>5, <2>1
<1>6. CASE n \in lost \ failed
  <2>1. AttemptsLeft(n)' = MaxAttempts - (attempts[n] + 1) /\ AttemptsLeft(n) = MaxAttempts - attempts[n]
    BY <1>1, <1>2, <1>6 DEF AttemptsLeft
  <2> QED BY <1>3, <2>1
<1>7. CASE n \notin lost
  <2>1. AttemptsLeft(n)' = AttemptsLeft(n)
    BY <1>1, <1>2, <1>4, <1>7 DEF AttemptsLeft
  <2> QED BY <1>3, <1>7, <2>1
<1> QED BY <1>5, <1>6, <1>7

\* Who is not running a live attempt of n any more has lost or finished it.
LEMMA StillRunning ==
    ASSUME NEW n, \A w \in Workers : job[w].live /\ job[w].step = n => job'[w] = job[w]
    PROVE  Running(n) => Running(n)'
BY DEF Running

LEMMA UsedStep == HistoryInv /\ [Next]_vars => \A n \in Agents : Used(n)
<1> SUFFICES ASSUME HistoryInv, [Next]_vars, NEW n \in Agents PROVE Used(n)
  OBVIOUS
<1> USE DEF HistoryInv
<1>0. /\ n \in Steps /\ job \in [Workers -> Jobs] /\ AttemptsLeft(n) \in 0..MaxAttempts
      /\ status[n] = "todo" => AttemptsLeft(n) > 0
  BY AttemptsAre DEF Steps, TypeOK, Jobs
<1>1. ASSUME status'[n] = status[n], attempts'[n] = attempts[n],
             \A w \in Workers : job[w].live /\ job[w].step = n => job'[w] = job[w]
      PROVE  Used(n)
  <2>1. AttemptsLeft(n)' = AttemptsLeft(n)
    BY <1>1 DEF AttemptsLeft
  <2> QED BY <1>0, <1>1, <2>1, StillRunning DEF Used
<1>2. ASSUME NEW w \in Workers, NEW m \in Steps, Start(w, m) PROVE Used(n)
  <2>1. job[w] = Idle /\ \A v \in Workers \ {w} : job'[v] = job[v]
    BY <1>0, <1>2 DEF Start
  <2> QED BY <1>1, <1>2, <2>1, IdleIs DEF Start
<1>3. ASSUME NEW w \in Workers, Finish(w) PROVE Used(n)
  <2>1. /\ \A v \in Workers \ {w} : job'[v] = job[v]
        /\ status' = IF job[w].live THEN [status EXCEPT ![job[w].step] = "done"] ELSE status
        /\ attempts' = IF job[w].live THEN [attempts EXCEPT ![job[w].step] = 0] ELSE attempts
    BY <1>0, <1>3 DEF Finish
  <2>2. CASE job[w].live /\ job[w].step = n
    <3>1. AttemptsLeft(n)' = 0
      BY <1>0, <2>1, <2>2 DEF AttemptsLeft, TypeOK
    <3>2. AttemptsLeft(n) > 0
      BY <1>0, <2>2 DEF LiveIsReady, Ready
    <3> QED BY <1>0, <3>1, <3>2 DEF Used
  <2>3. CASE ~(job[w].live /\ job[w].step = n)
    BY <1>0, <1>1, <2>1, <2>3 DEF TypeOK
  <2> QED BY <2>2, <2>3
<1>4. ASSUME NEW w \in Workers, TimeOut(w) PROVE Used(n)
  <2> DEFINE lost == {job[w].step}
  <2>1. Lose(lost) /\ lost \in SUBSET Steps /\ (\A m \in lost : status[m] = "todo")
    BY <1>4 DEF TimeOut, LiveIsReady, Ready
  <2>2. \A v \in Workers \ {w} : job'[v] = job[v]
    BY <1>0, <1>4 DEF TimeOut
  <2>3. n \notin lost => (Running(n) => Running(n)')
    BY <2>2, StillRunning
  <2> HIDE DEF lost
  <2> QED BY <2>1, <2>3, LoseUses DEF Used
<1>5. ASSUME NEW m \in Steps, GiveUp(m) PROVE Used(n)
  <2>1. /\ Ready(m) /\ status' = [status EXCEPT ![m] = "failed"] /\ attempts' = [attempts EXCEPT ![m] = 0]
        /\ \A w \in Workers : job[w].step # m => job'[w] = job[w]
    BY <1>5 DEF GiveUp
  <2>2. CASE m = n
    <3>1. AttemptsLeft(n)' = 0
      BY <1>0, <2>1, <2>2 DEF AttemptsLeft, TypeOK
    <3>2. AttemptsLeft(n) > 0
      BY <1>0, <2>1, <2>2 DEF Ready
    <3> QED BY <1>0, <3>1, <3>2 DEF Used
  <2>3. CASE m # n
    BY <1>0, <1>1, <2>1, <2>3 DEF TypeOK
  <2> QED BY <2>2, <2>3
<1>6. ASSUME NEW p \in Processes, Crash(p) PROVE Used(n)
  <2> DEFINE dead == {w \in Workers : Home[w] = p}
             lost == {m \in Steps : \E w \in dead : job[w].step = m /\ job[w].live}
  <2>1. Lose(lost) /\ lost \in SUBSET Steps /\ (\A m \in lost : status[m] = "todo")
    BY <1>6 DEF Crash, LiveIsReady, Ready
  <2>2. \A v \in Workers \ dead : job'[v] = job[v]
    BY <1>6 DEF Crash
  <2>3. n \notin lost => (Running(n) => Running(n)')
    BY <1>0, <2>2, StillRunning
  <2> HIDE DEF lost
  <2> QED BY <2>1, <2>3, LoseUses DEF Used
<1>7. CASE UNCHANGED vars \/ \E p \in Processes : Evict(p)
  BY <1>1, <1>7 DEF vars, Evict
<1> QED BY <1>2, <1>3, <1>4, <1>5, <1>6, <1>7 DEF Next

\* An agent is tried MaxAttempts times at most: each of its attempts that ends,
\* with an answer, without one, or with the process it ran in, is one less, and
\* no crash, late answer or other step gives it back (the
\* RetryPolicy that get_agent_policy gives it). The control has no limit.
THEOREM AttemptsAreLimited ==
    Spec => /\ [](\A n \in Agents : AttemptsLeft(n) \in 0..MaxAttempts)
            /\ [][\A n \in Agents : Used(n)]_vars
<1>1. HistoryInv => \A n \in Agents : AttemptsLeft(n) \in 0..MaxAttempts
  BY AttemptsAre DEF HistoryInv, Steps
<1>2. HistoryInv /\ [Next]_vars => [\A n \in Agents : Used(n)]_vars
  BY UsedStep
<1> QED BY <1>1, <1>2, HistoryStands, PTL DEF Spec
=============================================================================
