--------------------------- MODULE ScenarioAgents ---------------------------
(***************************************************************************)
(* The agents as ScenarioModel plays them: for a dossier s, the nodes that *)
(* have run (a function from their names to what they left) and the set ok *)
(* of tools that succeeded, what an agent leaves, or that it raises. The   *)
(* substitute for an agent that raised is the one of the in-memory engine. *)
(*                                                                         *)
(* What a node left is its output, or the substitute, with the fields that *)
(* a later agent, the control, the outcome rules or the risk map read.     *)
(* "failed" tells a substitute, for which the history has only the error.  *)
(***************************************************************************)
EXTENDS CreditScenario, Sequences

Pipeline == <<"A1", "A2", "A3", "A4", "A5", "A6", "A7", "A8", "A9", "A10", "A11", "A12", "A13">>

----------------------------------------------------------------------------
\* When an agent raises: the context builder or the model indexes a key that
\* is not in the answer of a failed tool, or not in a substitute.

HoldsOff(rating) == rating \in {"REJECT", "HOLD_FOR_INFO"}

\* valid is read only of a deal that is neither declined nor escalated anyway.
A9Raises(node, ok) ==
    \/ node["A1"].failed \/ node["A8"].failed
    \/ ~({"calculate_amortization", "resolve_pricing_band"} \subseteq ok)
    \/ /\ ~node["A8"].failed /\ ~HoldsOff(node["A8"].rating)
       /\ ~node["A5"].escalation
       /\ "validate_deal_structure" \notin ok

Raises(n, node, ok, error) ==
    CASE n = "A1" -> ~({"extract_document_fields", "parse_bank_statement"} \subseteq ok)
      [] n = "A2" -> ~error /\ ~({"compute_cashflow_metrics", "detect_cashflow_anomalies"} \subseteq ok)
      [] n \in {"A3", "A4", "A5"} -> ~(ToolsOf(n) \subseteq ok)
      [] n = "A9"  -> A9Raises(node, ok)
      [] n = "A10" -> node["A8"].failed
      [] n = "A11" -> node["A8"].failed \/ node["A4"].failed
      [] n = "A12" -> node["A11"].failed
      [] n = "A13" -> node["A5"].failed
      [] OTHER -> FALSE

----------------------------------------------------------------------------
\* What the model makes of a context

\* An answer that does not come has no missing documents.
A1(s, ok) == [failed |-> FALSE,
              gap |-> "validate_case_completeness" \in ok /\ Missing(s) # {}]

A2(s, error) ==
    IF error
    THEN [failed |-> FALSE, status |-> "PARTIAL", rating |-> "UNKNOWN",
          findings |-> {"cashflow_metrics_unavailable", "deterministic_cashflow_backend_failed"}]
    ELSE [failed |-> FALSE, status |-> "COMPLETE",
          rating |-> IF s.concentration >= 45 THEN "CAUTION" ELSE "PASS",
          findings |-> Anomalies(s)]

A3(s) == [failed |-> FALSE, rating |-> IF s.circular >= 80 THEN "CRITICAL" ELSE "PASS",
          coverage |-> s.coverage]

A4(s) == [failed |-> FALSE, viable |-> PrimaryRepaymentViable(s), match |-> s.match,
          stressed |-> StressedDscr(s)]

A5(s) == [failed |-> FALSE, rule |-> PolicyRule(s),
          escalation |-> \/ EscalationRequired(s)
                         \/ Disposition(PolicyRule(s)) = "MANDATORY_ESCALATION"]

A6(node) == [failed |-> FALSE, supportable |-> node["A4"].viable]

Challenges(node) ==
    {c \in {"cashflow_quality_or_coverage", "circular_funds_pattern", "weak_primary_repayment",
            "mandatory_policy_escalation"} :
        \/ c = "cashflow_quality_or_coverage" /\ node["A2"].rating # "PASS"
        \/ c = "circular_funds_pattern" /\ node["A3"].rating = "CRITICAL"
        \/ c = "weak_primary_repayment" /\ ~node["A4"].viable
        \/ c = "mandatory_policy_escalation" /\ node["A5"].escalation}

A7(node) == [failed |-> FALSE,
             challenges |-> IF Challenges(node) = {} THEN {"monitoring_conditions_must_be_enforceable"}
                            ELSE Challenges(node)]

\* Fault: only a partial cash flow report makes the arbiter hold.
RatingOnPartial(node) ==
    IF node["A2"].status = "PARTIAL" \/ node["A1"].gap THEN "HOLD_FOR_INFO"
    ELSE IF ~node["A4"].viable THEN "REJECT"
    ELSE IF node["A3"].rating = "CRITICAL" \/ node["A5"].escalation THEN "OVERWEIGHT_CAUTION"
    ELSE "APPROVE"

Rating(node) ==
    IF node["A2"].status \in {"PARTIAL", "DEGRADED_TIMEOUT"} \/ node["A1"].gap
    THEN "HOLD_FOR_INFO"
    ELSE IF ~node["A4"].viable THEN "REJECT"
    ELSE IF node["A3"].rating = "CRITICAL" \/ node["A5"].escalation THEN "OVERWEIGHT_CAUTION"
    ELSE "APPROVE"

A8(node) == [failed |-> FALSE, rating |-> Rating(node), unresolved |-> node["A7"].challenges]

\* Fault: the structure of the deal does not matter.
A9Unvalidated(s, node, ok) ==
    [failed |-> FALSE,
     action |-> IF HoldsOff(node["A8"].rating) THEN "DECLINE"
                ELSE IF node["A5"].escalation THEN "ESCALATE" ELSE "PROPOSE",
     invalid |-> FALSE,
     conditions |-> IF node["A2"].rating = "CAUTION" THEN {"COND-CONCENTRATION"} ELSE {}]

A9(s, node, ok) ==
    [failed |-> FALSE,
     action |-> IF HoldsOff(node["A8"].rating) THEN "DECLINE"
                ELSE IF node["A5"].escalation \/ ~DealValid(s) THEN "ESCALATE" ELSE "PROPOSE",
     invalid |-> "validate_deal_structure" \in ok /\ ~DealValid(s),
     conditions |-> IF node["A2"].rating = "CAUTION" THEN {"COND-CONCENTRATION"} ELSE {}]

A10(node) ==
    [failed |-> FALSE, residual |-> node["A8"].unresolved,
     position |-> CASE node["A9"].action = "PROPOSE"  -> "SUPPORT"
                    [] node["A9"].action = "ESCALATE" -> "ESCALATE"
                    [] OTHER -> "OPPOSE"]

A11(node) ==
    LET residual == node["A8"].unresolved \cup
                    (IF node["A4"].stressed < 100 THEN {"stress_case_below_1x"} ELSE {}) IN
    [failed |-> FALSE, residual |-> residual,
     position |-> IF node["A9"].action = "DECLINE" THEN "OPPOSE"
                  ELSE IF residual # {} THEN "MODIFY" ELSE "SUPPORT"]

A12(node) ==
    [failed |-> FALSE, residual |-> node["A11"].residual, dissent |-> node["A11"].residual # {},
     escalation |-> node["A5"].escalation]

\* Fault: what must be escalated is escalated, whatever the evidence.
DecisionEscalatedFirst(node) ==
    IF node["A5"].escalation \/ node["A3"].rating = "CRITICAL" THEN "ESCALATE_TO_CRO_RISK"
    ELSE IF node["A1"].gap \/ node["A2"].status = "PARTIAL" \/ ~node["A4"].viable
    THEN "REJECT_INSUFFICIENT_EVIDENCE"
    ELSE IF node["A9"].action = "PROPOSE" THEN "APPROVE_WITH_CONDITIONS"
    ELSE "ESCALATE_TO_CRO_RISK"

Decision(node) ==
    IF node["A1"].gap \/ node["A2"].status = "PARTIAL" \/ ~node["A4"].viable
    THEN "REJECT_INSUFFICIENT_EVIDENCE"
    ELSE IF node["A5"].escalation \/ node["A3"].rating = "CRITICAL" THEN "ESCALATE_TO_CRO_RISK"
    ELSE IF node["A9"].action = "PROPOSE" THEN "APPROVE_WITH_CONDITIONS"
    ELSE "ESCALATE_TO_CRO_RISK"

A13(node) == [failed |-> FALSE, decision |-> Decision(node), conditions |-> node["A9"].conditions,
              residual |-> IF node["A12"].failed THEN {} ELSE node["A12"].residual]

\* ScenarioModel.generate
Output(n, s, node, ok, error) ==
    CASE n = "A1" -> A1(s, ok)     [] n = "A2"  -> A2(s, error)   [] n = "A3"  -> A3(s)
      [] n = "A4" -> A4(s)         [] n = "A5"  -> A5(s)          [] n = "A6"  -> A6(node)
      [] n = "A7" -> A7(node)      [] n = "A8"  -> A8(node)       [] n = "A9"  -> A9(s, node, ok)
      [] n = "A10" -> A10(node)    [] n = "A11" -> A11(node)      [] n = "A12" -> A12(node)
      [] n = "A13" -> A13(node)

----------------------------------------------------------------------------
\* The substitute for an agent that raised. It leaves out what the agent would
\* have said beyond the verdict; a turn without challenges is an empty one.
Substitute(n) ==
    CASE n = "A1" -> [failed |-> TRUE, gap |-> TRUE]
      [] n = "A2" -> [failed |-> TRUE, status |-> "DEGRADED_TIMEOUT", rating |-> "FAIL"]
      [] n = "A3" -> [failed |-> TRUE, rating |-> "CRITICAL"]
      [] n = "A4" -> [failed |-> TRUE, viable |-> FALSE]
      [] n = "A5" -> [failed |-> TRUE, escalation |-> TRUE]
      [] n = "A7" -> [failed |-> TRUE, challenges |-> {}]
      [] n = "A9" -> [failed |-> TRUE, action |-> "BLOCKED", conditions |-> {}]
      [] n = "A13" -> [failed |-> TRUE, decision |-> "REJECT_INSUFFICIENT_EVIDENCE"]
      [] OTHER -> [failed |-> TRUE]

----------------------------------------------------------------------------
\* The control of the in-memory engine

BlockedReasons(node) ==
    {r \in {"CRITICAL_DATA_GAP", "CASHFLOW_TOOL_OR_COVERAGE_GAP", "PRIMARY_REPAYMENT_NOT_VIABLE",
            "MATERIAL_TRANSACTION_INTEGRITY_RISK", "MANDATORY_POLICY_ESCALATION"} :
        \/ r = "CRITICAL_DATA_GAP" /\ node["A1"].gap
        \/ r = "CASHFLOW_TOOL_OR_COVERAGE_GAP"
           /\ node["A2"].status \in {"PARTIAL", "DEGRADED_TIMEOUT"}
        \/ r = "PRIMARY_REPAYMENT_NOT_VIABLE" /\ ~node["A4"].viable
        \/ r = "MATERIAL_TRANSACTION_INTEGRITY_RISK" /\ node["A3"].rating = "CRITICAL"
        \/ r = "MANDATORY_POLICY_ESCALATION" /\ node["A5"].escalation}

\* Fault: a case that is recommended for rejection is ready, too.
ControlOnReject(node) ==
    LET decision == node["A13"].decision IN
    [failed |-> FALSE, reasons |-> BlockedReasons(node),
     status |-> IF decision = "ESCALATE_TO_CRO_RISK" THEN "ESCALATED_FOR_HUMAN_REVIEW"
                ELSE "READY_FOR_HUMAN_REVIEW"]

Control(node) ==
    LET decision == node["A13"].decision
        reasons  == BlockedReasons(node) IN
    [failed |-> FALSE, reasons |-> reasons,
     status |-> CASE decision = "APPROVE_WITH_CONDITIONS" ->
                       IF reasons # {} \/ node["A9"].action # "PROPOSE"
                       THEN "BLOCKED_INVALID_OPINION" ELSE "READY_FOR_HUMAN_REVIEW"
                  [] decision = "ESCALATE_TO_CRO_RISK" -> "ESCALATED_FOR_HUMAN_REVIEW"
                  [] OTHER -> "HUMAN_REVIEW_RECOMMENDED_REJECT"]
=============================================================================
