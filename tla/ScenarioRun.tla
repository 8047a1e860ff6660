---------------------------- MODULE ScenarioRun ----------------------------
(***************************************************************************)
(* execute_workflow_in_memory: one dossier through the thirteen agents and *)
(* the control, one after the other, on the deterministic model and back   *)
(* ends. A tool may fail on its own account, its circuit may be open, and  *)
(* an agent may raise for any other reason; whatever raises is replaced by *)
(* a substitute, and the run goes on.                                      *)
(***************************************************************************)
EXTENDS CaseExplanation

CONSTANTS
    Dossiers,     \* the dossiers a run may be given
    MaxFaults     \* bound on failures that the dossier does not ask for

ASSUME RunAssumptions == Dossiers \subseteq Dossier /\ MaxFaults \in Nat

VARIABLES
    dossier,   \* the scenario of the run
    node,      \* what each node that has run has left (ScenarioAgents)
    faults     \* failures so far

vars == <<dossier, node, faults>>

Init == dossier \in Dossiers /\ node = << >> /\ faults = 0

\* for node_id in PIPELINE: those before n have run.
Turn(n) == \E i \in DOMAIN NodeOrder : /\ NodeOrder[i] = n
                                      /\ DOMAIN node = {NodeOrder[j] : j \in 1 .. i - 1}

\* What n leaves is added to what they have left.
Leaves(n, out) == node' = [m \in DOMAIN node \cup {n} |-> IF m = n THEN out ELSE node[m]]

\* How the tools of n may answer: those that succeed, whether one of the
\* others answered ERROR, and how many fail that were not asked to. (The other
\* answer without data is DEGRADED_MODE, from an open circuit.)
Answers(n) ==
    LET forced == {t \in ToolsOf(n) : BackendFails(dossier, t)}
        failing == {bad \in SUBSET ToolsOf(n) : forced \subseteq bad}
    IN {[ok |-> ToolsOf(n) \ bad, error |-> error, faults |-> Cardinality(bad \ forced)] :
        bad \in failing, error \in BOOLEAN}

Possible(n) ==
    {a \in Answers(n) : /\ a.error => a.ok # ToolsOf(n)
                        /\ faults + a.faults <= MaxFaults}

\* The agent gets through: its context, the model, the patches.
Complete(n) ==
    /\ Turn(n)
    /\ \E a \in Possible(n) :
        /\ ~Raises(n, node, a.ok, a.error)
        /\ Leaves(n, Output(n, dossier, node, a.ok, a.error))
        /\ faults' = faults + a.faults
    /\ UNCHANGED dossier

\* It raises, for want of an answer or of what another agent should have left,
\* or for a reason of its own, which is a failure more.
Degrade(n) ==
    /\ Turn(n)
    /\ \/ \E a \in Possible(n) : /\ Raises(n, node, a.ok, a.error)
                                 /\ faults' = faults + a.faults
       \/ faults < MaxFaults /\ faults' = faults + 1
    /\ Leaves(n, Substitute(n))
    /\ UNCHANGED dossier

Judge ==
    /\ Turn("CONTROL")
    /\ Leaves("CONTROL", Control(node))
    /\ UNCHANGED <<dossier, faults>>

Agents == {Pipeline[i] : i \in DOMAIN Pipeline}

Next == Judge \/ \E n \in Agents : Complete(n) \/ Degrade(n)

Spec == Init /\ [][Next]_vars

----------------------------------------------------------------------------
\* Properties

Over == "CONTROL" \in DOMAIN node
Completed(n) == n \in DOMAIN node /\ ~node[n].failed

\* Every node leaves what the others look for, with values they know.
TypeOK ==
    /\ dossier \in Dossiers
    /\ DOMAIN node \subseteq {NodeOrder[i] : i \in DOMAIN NodeOrder}
    /\ \A n \in DOMAIN node : node[n].failed \in BOOLEAN
    /\ \A n \in DOMAIN node : OutcomeMap(node)[n] \in Outcomes
    /\ Over => \A n \in Agents : VerdictSignal(n, dossier, node) \in Colours
    /\ faults \in 0..MaxFaults

\* Whatever tools and agents fail, in whatever combination, a case is shown as
\* ready for approval only if the dossier itself is one to approve, and the
\* analysts, the arbiter and the structurer have all done their work. (The
\* tool that looks for documents may fail without anybody noticing; that the
\* deal is validated against them later is what saves the day.)
ReadyOnlyIfSound ==
    (Over /\ node["CONTROL"].status = "READY_FOR_HUMAN_REVIEW") =>
        /\ Sound(dossier)
        /\ \A n \in {"A1", "A2", "A3", "A4", "A5", "A8", "A9", "A13"} : Completed(n)

\* The opinion is never one that the control must refuse: A13 looks at less
\* than the control does, and relies on what A8 and A9 make of the rest.
OpinionStands == Over => node["CONTROL"].status # "BLOCKED_INVALID_OPINION"

\* The dossiers come with the outcome they were made for (expected_outcome),
\* and a run in which nothing fails, and no circuit is open, comes to it.
ExpectedUnlessDegraded ==
    (Over /\ faults = 0 /\ \A n \in Agents : Completed(n)) =>
        dossier.expected \in {"", node["A13"].decision}

\* What the figures of a dossier call for, and a dossier that expects just that,
\* or nothing. (Whether A2 notices that the transactions themselves are not to
\* be had depends on the circuit.)
Due(s) ==
    IF \/ "validate_case_completeness" \notin s.forced /\ Missing(s) # {}
       \/ ToolsOf("A2") \cap s.forced # {}
       \/ ~PrimaryRepaymentViable(s)
    THEN "REJECT_INSUFFICIENT_EVIDENCE"
    ELSE IF EscalationRequired(s) \/ ~DealValid(s) THEN "ESCALATE_TO_CRO_RISK"
    ELSE "APPROVE_WITH_CONDITIONS"

Honest(s) == s.expected # "" => s.expected = Due(s) /\ "query_transactions" \notin s.forced

\* The outcome of the control does not contradict the ones of the agents: what
\* passes has not failed anywhere, nor been escalated, as far as agents ran.
OutcomesAgree ==
    (Over /\ OutcomeMap(node)["CONTROL"] = "PASS") =>
        \A n \in Agents : Completed(n) => OutcomeMap(node)[n] \in {"PASS", "WARNING"}

\* What the control holds against a case can be traced back to the analyst who
\* found it, by way of the same risk under other names.
AnalystOf(reason) ==
    CASE reason = "CRITICAL_DATA_GAP" -> "A1"
      [] reason = "CASHFLOW_TOOL_OR_COVERAGE_GAP" -> "A2"
      [] reason = "PRIMARY_REPAYMENT_NOT_VIABLE" -> "A4"
      [] reason = "MATERIAL_TRANSACTION_INTEGRITY_RISK" -> "A3"
      [] reason = "MANDATORY_POLICY_ESCALATION" -> "A5"

ReasonsTraceable ==
    Over => \A reason \in node["CONTROL"].reasons :
        Completed(AnalystOf(reason)) =>
            \E r \in Propagated(node) :
                /\ StartsPath(AnalystOf(reason), RiskPath(r, node))
                /\ "CONTROL" \in RiskPath(r, node)

\* The explanation of a case that has run (explainer.py) does not say the
\* opposite of what it explains. A low risk comes with no agent in the colour
\* of a rejection or an escalation, but for those that it judges by stricter
\* limits than the back ends do (A1, A2, A3, A7); and whom the outcome rules
\* show as escalating, A9 aside, it does not show in green.
SignalsAgree ==
    Over => /\ RiskLevel(node) = "LOW" =>
                 \A n \in Agents \ {"A1", "A2", "A3", "A7", "A11"} :
                     VerdictSignal(n, dossier, node) = "GREEN"
            /\ \A n \in Agents \ {"A9"} :
                 OutcomeMap(node)[n] = "ESCALATE" =>
                     VerdictSignal(n, dossier, node) \in {"RED", "PURPLE"}

\* No decision goes without a reason in the explanation, as long as those on
\* whom it rests have done their work: the one it has no words for, that the
\* structure of the deal alone does not hold, shows in the colour of A9.
DecisionExplained ==
    (Over /\ \A n \in {"A2", "A3", "A9", "A13"} : Completed(n)) =>
        Drivers(dossier, node) # {} \/ VerdictSignal("A9", dossier, node) = "PURPLE"

\* The explanation of a case that has run, in its colours and in its reasons
ExplanationAgrees == SignalsAgree /\ DecisionExplained

----------------------------------------------------------------------------
\* The run is one of the pipeline (CasePipeline), whose agents may say anything.

Has(n) == n \in DOMAIN node
Verdict(n, adverse) == IF ~Has(n) THEN "absent" ELSE IF adverse THEN "adverse" ELSE "clear"

Field(f) ==
    CASE f = "case_file" -> IF Completed("A1") THEN "clear" ELSE "absent"
      [] f = "data_quality" -> Verdict("A1", Has("A1") /\ node["A1"].gap)
      [] f = "cashflow" ->
           Verdict("A2", Has("A2") /\ node["A2"].status \in {"PARTIAL", "DEGRADED_TIMEOUT"})
      [] f = "transaction_integrity" -> Verdict("A3", Has("A3") /\ node["A3"].rating = "CRITICAL")
      [] f = "financial_capacity" -> Verdict("A4", Has("A4") /\ ~node["A4"].viable)
      [] f = "policy" -> Verdict("A5", Has("A5") /\ node["A5"].escalation)
      [] f = "credit_assessment" -> Verdict("A8", ~Completed("A8"))
      [] f = "deal_proposal" -> Verdict("A9", Has("A9") /\ node["A9"].action # "PROPOSE")
      [] f = "coapproval_opinion" -> IF Has("A13") THEN node["A13"].decision ELSE "absent"
      [] f = "control" -> IF Over THEN node["CONTROL"].status ELSE "absent"

CreditDebate == IF Has("A7") THEN <<"A6", "A7">> ELSE IF Has("A6") THEN <<"A6">> ELSE <<>>
RiskDebate   == IF Has("A12") THEN <<"A10", "A11", "A12">>
                ELSE IF Has("A11") THEN <<"A10", "A11">>
                ELSE IF Has("A10") THEN <<"A10">> ELSE <<>>

CaseFields == {"case_file", "data_quality", "cashflow", "transaction_integrity",
               "financial_capacity", "policy", "credit_assessment", "deal_proposal",
               "coapproval_opinion", "control"}

AsRecord == [field |-> [f \in CaseFields |-> Field(f)],
             credit_debate |-> CreditDebate, risk_debate |-> RiskDebate]

Case == INSTANCE CasePipeline WITH record <- AsRecord, done <- DOMAIN node

\* One step, one result, in the order of the barriers, and the control judges
\* the record as the one of the other engine does.
KeepsPipeline == Case!Spec
=============================================================================
