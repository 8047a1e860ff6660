--------------------------- MODULE CaseExplanation ---------------------------
(***************************************************************************)
(* CaseExplainer.explain: the risk level of a case, what its decision is   *)
(* put down to, and the colour each agent is shown in. The explanation     *)
(* looks at the state of the case once more and has thresholds of its own, *)
(* which are not those of the back ends or of outcome_policy.json. What no *)
(* report carries has a default. Its prose is left out. Operators only.    *)
(***************************************************************************)
EXTENDS ScenarioReport

Colours == {"GREEN", "YELLOW", "RED", "PURPLE"}

----------------------------------------------------------------------------
\* The figures, as the explanation finds them. Of the case file it reads more
\* than A1 writes: whether the documents are complete, for instance, is not
\* there, and taken for granted.
StatementMonths(s, node) == IF node["A1"].failed THEN 12 ELSE s.months
ReqTenor(s, node)        == IF node["A1"].failed THEN 12 ELSE s.tenor
DscrVal(s, node)         == IF node["A4"].failed THEN 0 ELSE s.dscr
CircScore(s, node)       == IF node["A3"].failed THEN 0 ELSE s.circular
DocsComplete             == TRUE

\* Fault: the exception is one of the case file only.
PolicyExcOfCaseFile(node) == FALSE

PolicyExc(node) == node["A5"].escalation

\* Observed inflow over declared revenue. Without revenue it is over itself,
\* or over one.
InflowRatio(s, node) ==
    IF node["A2"].failed \/ node["A2"].status = "PARTIAL" THEN 0
    ELSE IF node["A1"].failed THEN 100 ELSE s.match

InflowConc(s, node) ==
    IF node["A2"].failed \/ node["A2"].status = "PARTIAL" THEN 32 ELSE s.concentration

Authority(s, node) ==
    IF ~node["A5"].failed /\ EscalationRequired(s) THEN "CRO_RISK" ELSE "CREDIT_COMMITTEE"

----------------------------------------------------------------------------
RiskLevel(node) ==
    CASE node["A13"].decision = "APPROVE_WITH_CONDITIONS" ->
           IF node["CONTROL"].status = "READY_FOR_HUMAN_REVIEW" THEN "LOW" ELSE "MEDIUM"
      [] node["A13"].decision = "ESCALATE_TO_CRO_RISK" -> "HIGH"
      [] OTHER -> "CRITICAL"

\* What the figures say for the decision
FigureDrivers(s, node) ==
    CASE node["A13"].decision = "APPROVE_WITH_CONDITIONS" -> {"REPAYMENT", "DOCUMENTS", "NO_CYCLES"}
      [] node["A13"].decision = "ESCALATE_TO_CRO_RISK" ->
           IfSo(PolicyExc(node) \/ ReqTenor(s, node) > 12, {"TENOR", "AUTHORITY"})
           \cup IfSo(CircScore(s, node) >= 40, {"CYCLES"})
      [] OTHER -> IfSo(~DocsComplete \/ StatementMonths(s, node) < 12, {"DOCUMENTS"})
                  \cup IfSo(DscrVal(s, node) < 100, {"REPAYMENT"})

\* primary_decision_drivers: a rejection has those of the control as well.
Drivers(s, node) ==
    FigureDrivers(s, node)
    \cup IfSo(RiskLevel(node) = "CRITICAL", node["CONTROL"].reasons)

----------------------------------------------------------------------------
\* verdict_signal, of the analysts
AnalystSignal(n, s, node) ==
    CASE n = "A1" -> IF DocsComplete /\ StatementMonths(s, node) >= 12 THEN "GREEN" ELSE "RED"
      [] n = "A2" -> IF InflowRatio(s, node) >= 80 /\ InflowConc(s, node) < 40 THEN "GREEN"
                     ELSE IF InflowRatio(s, node) >= 60 THEN "YELLOW" ELSE "RED"
      [] n = "A3" -> IF CircScore(s, node) >= 40 THEN "RED" ELSE "GREEN"
      [] n = "A4" -> IF DscrVal(s, node) >= 120 THEN "GREEN"
                     ELSE IF DscrVal(s, node) >= 100 THEN "YELLOW" ELSE "RED"
      [] n = "A5" -> IF PolicyExc(node) \/ Authority(s, node) = "CRO_RISK" THEN "PURPLE"
                     ELSE "GREEN"

\* of the debate: neither looks at what was said in it
DebateSignal(n, s, node) ==
    CASE n = "A6" -> IF DscrVal(s, node) >= 100 /\ DocsComplete THEN "GREEN" ELSE "RED"
      [] n = "A7" -> IF CircScore(s, node) >= 40 \/ DscrVal(s, node) < 100 THEN "RED"
                     ELSE IF PolicyExc(node) THEN "PURPLE" ELSE "YELLOW"

\* of the arbiter and of A13: the decision
DecisionSignal(node) ==
    CASE node["A13"].decision = "APPROVE_WITH_CONDITIONS" -> "GREEN"
      [] node["A13"].decision = "ESCALATE_TO_CRO_RISK" -> "PURPLE"
      [] OTHER -> "RED"

\* of the structurer: the violations, whatever the action
DealSignal(node) == IF ~node["A9"].failed /\ node["A9"].invalid THEN "PURPLE" ELSE "GREEN"

\* of the committee. A substitute takes no position, and that is green.
CommitteeSignal(n, node) ==
    CASE n = "A10" -> IF ~node[n].failed /\ node[n].position = "ESCALATE" THEN "PURPLE" ELSE "GREEN"
      [] n = "A11" -> IF ~node[n].failed /\ node[n].position = "MODIFY" THEN "YELLOW" ELSE "GREEN"
      [] n = "A12" -> IF ~node[n].failed /\ node[n].escalation THEN "PURPLE" ELSE "GREEN"

VerdictSignal(n, s, node) ==
    CASE n \in {"A1", "A2", "A3", "A4", "A5"} -> AnalystSignal(n, s, node)
      [] n \in {"A6", "A7"} -> DebateSignal(n, s, node)
      [] n \in {"A8", "A13"} -> DecisionSignal(node)
      [] n = "A9" -> DealSignal(node)
      [] n \in {"A10", "A11", "A12"} -> CommitteeSignal(n, node)
=============================================================================
