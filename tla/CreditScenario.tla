--------------------------- MODULE CreditScenario ---------------------------
(***************************************************************************)
(* The dossiers the system is run on (Scenario, SCENARIOS, the archetypes  *)
(* of SyntheticDossierGenerator) and what the deterministic back ends      *)
(* answer about one (SimulatedBackend, ScenarioDataGenerator). Operators   *)
(* only.                                                                   *)
(*                                                                         *)
(* Ratios are hundredths, amounts are millions. Declared revenue and       *)
(* observed inflow appear as their ratio, "match". A random draw of the    *)
(* generator is one of the ends of its range. What no agent looks at       *)
(* (names, references, collateral, pricing) is left out.                   *)
(***************************************************************************)
EXTENDS Integers

\* Scenario
Dossier == [expected : STRING, amount : Int, tenor : Int, docs : BOOLEAN, months : Int,
            match : Int, dscr : Int, concentration : Int, circular : Int, coverage : Int,
            exception : BOOLEAN, authority : BOOLEAN, forced : SUBSET STRING]

\* with its defaults
Scenario(expected, amount) ==
    [expected |-> expected, amount |-> amount, tenor |-> 12, docs |-> TRUE, months |-> 12,
     match |-> 95, dscr |-> 155, concentration |-> 32, circular |-> 5,
     coverage |-> 90, exception |-> FALSE, authority |-> FALSE, forced |-> {}]

\* SCENARIOS
Catalog ==
    {[Scenario("APPROVE_WITH_CONDITIONS", 2000) EXCEPT !.dscr = 162, !.concentration = 48],
     [Scenario("ESCALATE_TO_CRO_RISK", 3500) EXCEPT !.tenor = 36, !.dscr = 145,
                                                    !.exception = TRUE, !.authority = TRUE],
     [Scenario("REJECT_INSUFFICIENT_EVIDENCE", 1200) EXCEPT !.docs = FALSE, !.months = 3,
                                                            !.dscr = 125],
     [Scenario("ESCALATE_TO_CRO_RISK", 4000) EXCEPT !.tenor = 18, !.dscr = 170,
                                                    !.circular = 91, !.coverage = 95],
     [Scenario("REJECT_INSUFFICIENT_EVIDENCE", 5000) EXCEPT !.tenor = 24, !.match = 52,
                                                            !.dscr = 72],
     [Scenario("REJECT_INSUFFICIENT_EVIDENCE", 900)
        EXCEPT !.tenor = 9, !.forced = {"compute_cashflow_metrics"}]}

\* generate_scenario: the dossiers of each archetype, the amount that of the
\* request where the archetype does not fix it.
Generated(arch, amount) ==
    CASE arch = "HEALTHY_PRIME" ->
           {[Scenario("APPROVE_WITH_CONDITIONS", a)
               EXCEPT !.dscr = d, !.circular = 8, !.concentration = 35, !.coverage = 85,
                      !.match = m] : a \in {1000, 3000}, d \in {150, 220}, m \in {85, 115}}
      [] arch = "POLICY_EXCEPTION_TENOR" ->
           {[Scenario("ESCALATE_TO_CRO_RISK", amount)
               EXCEPT !.tenor = 36, !.dscr = d, !.coverage = 80, !.exception = TRUE,
                      !.authority = TRUE] :
            d \in {135, 180}}
      [] arch = "SUSPICIOUS_AML" ->
           {[Scenario("ESCALATE_TO_CRO_RISK", amount)
               EXCEPT !.tenor = t, !.dscr = 145, !.circular = c, !.concentration = 70,
                      !.coverage = 90] : t \in {6, 36}, c \in {88, 96}}
      [] arch = "WEAK_CASHFLOW" ->
           {[Scenario("REJECT_INSUFFICIENT_EVIDENCE", amount)
               EXCEPT !.tenor = t, !.dscr = d, !.match = 40] : t \in {6, 36}, d \in {55, 85}}
      [] arch = "INCOMPLETE_DOCS" ->
           {[Scenario("REJECT_INSUFFICIENT_EVIDENCE", amount)
               EXCEPT !.tenor = t, !.dscr = d, !.docs = FALSE, !.months = m] :
            t \in {6, 36}, d \in {110, 130}, m \in {2, 4}}

Archetypes == {"HEALTHY_PRIME", "POLICY_EXCEPTION_TENOR", "SUSPICIOUS_AML",
               "WEAK_CASHFLOW", "INCOMPLETE_DOCS"}

\* custom_params may ask for any of the parameters; these are the thresholds.
CustomAround(s) ==
    {[s EXCEPT !.months = 5], [s EXCEPT !.months = 6], [s EXCEPT !.docs = FALSE],
     [s EXCEPT !.dscr = 119], [s EXCEPT !.dscr = 120], [s EXCEPT !.circular = 79],
     [s EXCEPT !.circular = 80], [s EXCEPT !.amount = 3001],
     [s EXCEPT !.exception = TRUE], [s EXCEPT !.concentration = 45], [s EXCEPT !.circular = 40]}

\* What makes a dossier one to approve.
Sound(s) ==
    /\ s.docs /\ s.months >= 6 /\ s.dscr >= 120 /\ s.circular < 80
    /\ ~s.exception /\ ~s.authority /\ s.amount <= 3000

----------------------------------------------------------------------------
\* The tools of each agent (its context builder), those whose answer reaches
\* the model. The others are called and their answer dropped.
ToolsOf(n) ==
    CASE n = "A1" -> {"extract_document_fields", "parse_bank_statement",
                      "validate_case_completeness"}
      [] n = "A2" -> {"query_transactions", "compute_cashflow_metrics",
                      "detect_cashflow_anomalies"}
      [] n = "A3" -> {"build_entity_transaction_graph", "detect_transaction_cycles"}
      [] n = "A4" -> {"reconcile_declared_revenue", "calculate_credit_capacity",
                      "stress_repayment_capacity"}
      [] n = "A5" -> {"search_policy", "evaluate_policy_rule", "validate_policy_citation",
                      "resolve_approval_authority"}
      [] n = "A9" -> {"calculate_amortization", "resolve_pricing_band",
                      "validate_deal_structure"}
      [] OTHER -> {}

\* SimulatedBackend.execute: a forced failure never succeeds.
BackendFails(s, tool) == tool \in s.forced

\* validate_case_completeness
Missing(s) ==
    {m \in {"financial_statement", "minimum_6_month_bank_statement"} :
        \/ m = "financial_statement" /\ ~s.docs
        \/ m = "minimum_6_month_bank_statement" /\ s.months < 6}

\* detect_cashflow_anomalies
Anomalies(s) ==
    {a \in {"high_customer_concentration", "revenue_mismatch_gap"} :
        \/ a = "high_customer_concentration" /\ s.concentration >= 45
        \/ a = "revenue_mismatch_gap" /\ s.match < 70}

\* calculate_credit_capacity
PrimaryRepaymentViable(s) == s.dscr >= 120 /\ s.months >= 6

\* stress_repayment_capacity: 22 per cent less, rounded to hundredths
StressedDscr(s) == (s.dscr * 78 + 50) \div 100

\* evaluate_policy_rule
PolicyRule(s) ==
    IF s.circular >= 80 THEN "RULE-INTEGRITY-007"
    ELSE IF s.exception THEN "RULE-TENOR-003" ELSE "RULE-WC-BASE"

Disposition(rule) == IF rule = "RULE-WC-BASE" THEN "ADVISORY" ELSE "MANDATORY_ESCALATION"

\* resolve_approval_authority
EscalationRequired(s) ==
    s.authority \/ s.exception \/ s.circular >= 80 \/ s.amount > 3000

\* validate_deal_structure
DealValid(s) == s.dscr >= 120 /\ s.circular < 80 /\ ~s.exception /\ s.docs
=============================================================================
