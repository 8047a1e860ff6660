----------------------------- MODULE CaseRecord -----------------------------
(***************************************************************************)
(* The record of a credit case (CreditState) and what one step of the      *)
(* pipeline does to it: an agent A1..A13 that completes or degrades, and   *)
(* the deterministic control that judges the result. Operators only; the   *)
(* modules that run the pipeline hold the state.                           *)
(*                                                                         *)
(* What an agent writes is reduced to what the control and the later       *)
(* agents tell apart: "clear" is an output that raises no objection (no    *)
(* critical gap, cash flow covered, repayment viable, integrity not        *)
(* CRITICAL, no escalation, a deal with action PROPOSE), "adverse" one     *)
(* that does, as does the substitute written when the agent fails. The     *)
(* model behind an agent is any model: each output is possible in every    *)
(* context. Histories, audit events and prompts are left out, and so is    *)
(* state_version: every caller of apply_patch gives each patch the version *)
(* of the record it is applied to, so that the check of the version, like  *)
(* that of the owner, never refuses one.                                   *)
(***************************************************************************)
EXTENDS Integers, Sequences

Agents == {"A1", "A2", "A3", "A4", "A5", "A6", "A7", "A8", "A9", "A10", "A11", "A12", "A13"}
Steps  == Agents \cup {"CONTROL"}
Branches == {"A2", "A3", "A4"}

Debaters == {"A6", "A7", "A10", "A11", "A12"}
CreditDebaters == {"A6", "A7"}

Reports   == {"cashflow", "transaction_integrity", "financial_capacity", "policy"}
Fields    == Reports \cup {"case_file", "data_quality", "credit_assessment",
                           "deal_proposal", "coapproval_opinion", "control"}

Verdicts  == {"clear", "adverse"}
Decisions == {"APPROVE_WITH_CONDITIONS", "ESCALATE_TO_CRO_RISK", "REJECT_INSUFFICIENT_EVIDENCE"}
ControlStatuses == {"BLOCKED_INVALID_OPINION", "READY_FOR_HUMAN_REVIEW",
                    "ESCALATED_FOR_HUMAN_REVIEW", "HUMAN_REVIEW_RECOMMENDED_REJECT"}
Values    == Verdicts \cup Decisions \cup ControlStatuses \cup {"absent"}

Record == [field: [Fields -> Values], credit_debate: Seq(CreditDebaters),
           risk_debate: Seq(Debaters \ CreditDebaters)]

Fresh == [field |-> [f \in Fields |-> "absent"], credit_debate |-> <<>>,
          risk_debate |-> <<>>]

\* OWNERSHIP: what each step may write. The two debates are shared lists.
Owned(n) ==
    CASE n = "A1"  -> {"case_file", "data_quality"}
      [] n = "A2"  -> {"cashflow"}
      [] n = "A3"  -> {"transaction_integrity"}
      [] n = "A4"  -> {"financial_capacity"}
      [] n = "A5"  -> {"policy"}
      [] n = "A8"  -> {"credit_assessment"}
      [] n = "A9"  -> {"deal_proposal"}
      [] n = "A13" -> {"coapproval_opinion"}
      [] n = "CONTROL" -> {"control"}
      [] OTHER -> {}

\* The barriers of the pipeline: what must be over before a step begins.
Before(n) ==
    CASE n = "A1" -> {}
      [] n \in Branches -> {"A1"}
      [] n = "A5"  -> Branches
      [] n = "A6"  -> {"A5"}
      [] n = "A7"  -> {"A6"}
      [] n = "A8"  -> {"A7"}
      [] n = "A9"  -> {"A8"}
      [] n = "A10" -> {"A9"}
      [] n = "A11" -> {"A10"}
      [] n = "A12" -> {"A11"}
      [] n = "A13" -> {"A12"}
      [] n = "CONTROL" -> {"A13"}

\* What a model may make of its prompt.
Outputs(n) == IF n = "A13" THEN Decisions ELSE Verdicts

\* A context builder that indexes what is not there raises KeyError.
ContextMissing(r, n) ==
    \/ n = "A9"  /\ "absent" \in {r.field["policy"], r.field["cashflow"], r.field["case_file"]}
    \/ n = "A11" /\ r.field["financial_capacity"] = "absent"
    \/ n = "A12" /\ r.field["policy"] = "absent"

\* APPEND of a turn
Speak(r, n) ==
    IF n \in CreditDebaters THEN [r EXCEPT !.credit_debate = Append(@, n)]
    ELSE [r EXCEPT !.risk_debate = Append(@, n)]

\* SET of the paths in S
Write(r, S, v) == [r EXCEPT !.field = [f \in Fields |-> IF f \in S THEN v ELSE @[f]]]

\* The patches of a completed agent. A case file is a case file, whatever the
\* quality of its data.
Complete(r, n, v) ==
    IF n \in Debaters THEN Speak(r, n)
    ELSE Write(Write(r, Owned(n), v), Owned(n) \cap {"case_file"}, "clear")

\* The substitute for an agent that raised. Only the data quality stands in
\* for a failed intake.
Degrade(r, n) ==
    IF n \in Debaters THEN Speak(r, n)
    ELSE Write(r, Owned(n) \ {"case_file"},
               IF n = "A13" THEN "REJECT_INSUFFICIENT_EVIDENCE" ELSE "adverse")

\* What an agent can leave behind when it is run on a record.
AgentResults(r, n) ==
    {Degrade(r, n)} \cup
    (IF ContextMissing(r, n) THEN {} ELSE {Complete(r, n, v) : v \in Outputs(n)})

----------------------------------------------------------------------------
\* The control, which no model takes part in

Objections == {"CRITICAL_DATA_GAP", "CASHFLOW_TOOL_OR_COVERAGE_GAP",
               "PRIMARY_REPAYMENT_NOT_VIABLE", "MATERIAL_TRANSACTION_INTEGRITY_RISK",
               "MANDATORY_POLICY_ESCALATION"}

\* A field that is absent raises an objection only where the code asks for a
\* positive finding, which is the repayment capacity.
Objection(r, o) ==
    LET bad(f) == r.field[f] = "adverse" IN
    CASE o = "CRITICAL_DATA_GAP" -> bad("data_quality")
      [] o = "CASHFLOW_TOOL_OR_COVERAGE_GAP" -> bad("cashflow")
      [] o = "PRIMARY_REPAYMENT_NOT_VIABLE" -> r.field["financial_capacity"] # "clear"
      [] o = "MATERIAL_TRANSACTION_INTEGRITY_RISK" -> bad("transaction_integrity")
      [] o = "MANDATORY_POLICY_ESCALATION" -> bad("policy")

\* Fault: the deal is not looked at.
InvalidDespiteDeal(r) == \E o \in Objections : Objection(r, o)

\* An approval that the record does not carry.
Invalid(r) ==
    \/ \E o \in Objections : Objection(r, o)
    \/ r.field["deal_proposal"] # "clear"

\* Anything but a decision for approval or escalation recommends to reject.
ControlStatus(r) ==
    LET decision == r.field["coapproval_opinion"] IN
    CASE decision = "APPROVE_WITH_CONDITIONS" /\ Invalid(r)  -> "BLOCKED_INVALID_OPINION"
      [] decision = "APPROVE_WITH_CONDITIONS" /\ ~Invalid(r) -> "READY_FOR_HUMAN_REVIEW"
      [] decision = "ESCALATE_TO_CRO_RISK" -> "ESCALATED_FOR_HUMAN_REVIEW"
      [] OTHER -> "HUMAN_REVIEW_RECOMMENDED_REJECT"

Control(r) == Write(r, Owned("CONTROL"), ControlStatus(r))

\* What a step can make of the record it is run on.
Results(r, n) == IF n = "CONTROL" THEN {Control(r)} ELSE AgentResults(r, n)
=============================================================================
