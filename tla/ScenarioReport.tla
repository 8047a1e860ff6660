--------------------------- MODULE ScenarioReport ---------------------------
(***************************************************************************)
(* What the system shows of a case that has run: the business outcome of   *)
(* each node (outcomes.py) and how each risk travelled through the nodes   *)
(* (risk_propagation.py). Both look at the history of the nodes, where an  *)
(* agent that degraded has left only its error, and at the control.        *)
(* Operators only.                                                         *)
(***************************************************************************)
EXTENDS ScenarioAgents, FiniteSets

Outcomes == {"PASS", "WARNING", "ESCALATE", "FAIL"}

\* Thresholds of outcome_policy.json
MinRelatedPartyCoverage == 80
MinStressedDscr         == 110
MinRevenueMatch         == 80

\* classify_agent_outcome of the output of n
Fails(n, out) ==
    CASE n = "A1" -> out.gap
      [] n = "A2" -> out.rating \in {"FAIL", "UNKNOWN"}
      [] n = "A3" -> out.rating = "CRITICAL"
      [] n = "A4" -> ~out.viable
      [] n = "A6" -> ~out.supportable
      [] n = "A7" -> out.challenges \cap {"weak_primary_repayment", "circular_funds_pattern"} # {}
      [] n = "A8" -> HoldsOff(out.rating)
      [] n = "A9" -> out.action = "DECLINE" \/ (out.action = "PROPOSE" /\ out.invalid)
      [] n \in {"A10", "A11"} -> out.position = "OPPOSE"
      [] n = "A13" -> out.decision = "REJECT_INSUFFICIENT_EVIDENCE"
      [] OTHER -> FALSE

Escalates(n, out) ==
    CASE n \in {"A5", "A12"} -> out.escalation
      [] n = "A7"  -> "mandatory_policy_escalation" \in out.challenges
      [] n = "A9"  -> out.action = "ESCALATE"
      [] n = "A10" -> out.position = "ESCALATE"
      [] n = "A13" -> out.decision = "ESCALATE_TO_CRO_RISK"
      [] OTHER -> FALSE

Warns(n, out) ==
    CASE n = "A2" -> out.rating # "PASS" \/ out.findings # {}
      [] n = "A3" -> out.coverage < MinRelatedPartyCoverage
      [] n = "A4" -> out.stressed < MinStressedDscr \/ out.match < MinRevenueMatch
      [] n = "A7" -> out.challenges # {}
      [] n = "A8" -> out.rating # "APPROVE" \/ out.unresolved # {}
      [] n = "A9" -> out.conditions # {}
      [] n = "A11" -> out.position = "MODIFY"
      [] n = "A12" -> out.dissent
      [] n = "A13" -> TRUE
      [] OTHER -> FALSE

\* Fault: an error has no outcome.
OutcomeOfErrorUnknown(n) == "UNKNOWN"

\* Each rule meets an output without any of the keys it looks for.
OutcomeOfError(n) ==
    CASE n = "A2" -> "FAIL" [] n \in {"A3", "A5", "A8", "A13"} -> "WARNING" [] OTHER -> "PASS"

Outcome(n, out) ==
    IF out.failed THEN OutcomeOfError(n)
    ELSE IF Fails(n, out) THEN "FAIL"
    ELSE IF Escalates(n, out) THEN "ESCALATE"
    ELSE IF Warns(n, out) THEN "WARNING" ELSE "PASS"

\* classify_control_outcome
ControlOutcome(status) ==
    CASE status = "READY_FOR_HUMAN_REVIEW" -> "PASS"
      [] status = "ESCALATED_FOR_HUMAN_REVIEW" -> "ESCALATE"
      [] OTHER -> "FAIL"

\* build_outcome_map
OutcomeMap(node) ==
    [n \in DOMAIN node |-> IF n = "CONTROL" THEN ControlOutcome(node[n].status)
                           ELSE Outcome(n, node[n])]

----------------------------------------------------------------------------
\* The names under which one risk goes. A name that is in no class is its own.
Aliases(risk) ==
    CASE risk = "CASHFLOW_QUALITY_OR_COVERAGE" ->
           {"high_customer_concentration", "cashflow_quality_or_coverage",
            "cashflow_metrics_unavailable", "deterministic_cashflow_backend_failed",
            "CASHFLOW_TOOL_OR_COVERAGE_GAP", "COND-CONCENTRATION"}
      [] risk = "CIRCULAR_FUNDS_PATTERN" ->
           {"pattern_consistent_with_circular_funds", "circular_funds_pattern",
            "MATERIAL_TRANSACTION_INTEGRITY_RISK"}
      [] risk = "WEAK_PRIMARY_REPAYMENT" ->
           {"weak_primary_repayment", "primary_repayment_not_demonstrated",
            "PRIMARY_REPAYMENT_NOT_VIABLE"}
      [] risk = "MANDATORY_POLICY_ESCALATION" ->
           {"mandatory_policy_escalation", "MANDATORY_POLICY_ESCALATION"}
      [] risk = "STRESS_CASE_BELOW_1X" -> {"stress_case_below_1x"}
      [] risk = "CRITICAL_DATA_GAP" -> {"CRITICAL_DATA_GAP"}
      [] risk = "REVENUE_MISMATCH_GAP" -> {"revenue_mismatch_gap"}
      [] risk = "MONITORING_CONDITIONS_MUST_BE_ENFORCEABLE" ->
           {"monitoring_conditions_must_be_enforceable"}

Risks == {"CASHFLOW_QUALITY_OR_COVERAGE", "CIRCULAR_FUNDS_PATTERN", "WEAK_PRIMARY_REPAYMENT",
          "MANDATORY_POLICY_ESCALATION", "STRESS_CASE_BELOW_1X", "CRITICAL_DATA_GAP",
          "REVENUE_MISMATCH_GAP", "MONITORING_CONDITIONS_MUST_BE_ENFORCEABLE"}

IfSo(condition, names) == IF condition THEN names ELSE {}

\* _signals, of an output. (The one whom A11 challenges counts as a risk, too,
\* but only there, so that it never propagates.)
SignalNames(n, out) ==
    CASE n = "A1" -> IfSo(out.gap, {"CRITICAL_DATA_GAP"})
      [] n = "A2" -> out.findings
      [] n = "A3" -> IfSo(out.rating # "PASS", {"pattern_consistent_with_circular_funds"})
      [] n = "A4" -> IfSo(~out.viable, {"weak_primary_repayment"})
      [] n = "A5" -> IfSo(out.escalation, {"mandatory_policy_escalation"})
                     \cup IfSo(out.rule = "RULE-INTEGRITY-007", {"circular_funds_pattern"})
      [] n = "A6" -> IfSo(~out.supportable, {"primary_repayment_not_demonstrated"})
      [] n = "A7" -> out.challenges
      [] n = "A8" -> out.unresolved
      [] n = "A9" -> out.conditions
      [] n \in {"A10", "A11"} -> out.residual
      [] n = "A12" -> out.residual \cup IfSo(out.escalation, {"mandatory_policy_escalation"})
      [] n = "A13" -> out.residual \cup out.conditions
      [] n = "CONTROL" -> out.reasons \cup IfSo(out.status = "ESCALATED_FOR_HUMAN_REVIEW",
                                                {"mandatory_policy_escalation"})

\* Fault: the control has a name of its own for a risk.
SignalsUnaliased(n, out) ==
    {r \in Risks : ~out.failed
                   /\ (SignalNames(n, out) \ {"PRIMARY_REPAYMENT_NOT_VIABLE"}) \cap Aliases(r) # {}}

Signals(n, out) == {r \in Risks : ~out.failed /\ SignalNames(n, out) \cap Aliases(r) # {}}

\* build_risk_propagation: the path of a risk is made of the nodes it shows up
\* in, in NODE_ORDER. One that shows up once has not propagated.
NodeOrder == Append(Pipeline, "CONTROL")
RiskPath(risk, node) == {n \in DOMAIN node : risk \in Signals(n, node[n])}
Propagated(node) == {r \in Risks : \E m, n \in RiskPath(r, node) : m # n}

StartsPath(n, path) ==
    /\ n \in path
    /\ \A i, j \in DOMAIN NodeOrder : i < j /\ NodeOrder[j] = n => NodeOrder[i] \notin path

=============================================================================
