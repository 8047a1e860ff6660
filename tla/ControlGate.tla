---------------------------- MODULE ControlGate ----------------------------
(***************************************************************************)
(* The decision rules of the human control layer, as operators without     *)
(* state: what ControlGate.evaluate reports and allows, and what           *)
(* DecisionService.submit derives from its verdict before it records       *)
(* anything (alignment, reason code checks, notifications, next state).    *)
(*                                                                         *)
(* Data is abstracted to what the rules tell apart:                        *)
(*   - a case carries its revision, its source snapshot hash and one       *)
(*     number standing for the pair policy snapshot / ruleset;             *)
(*   - an opinion is identified by its version; its findings are reduced   *)
(*     to the strongest HARD_BLOCK among them, its conditions to whether   *)
(*     each has an owner and a due point;                                  *)
(*   - a warning hash is the pair <<case revision, opinion version>>: the  *)
(*     other hashed fields are functions of the (immutable) opinion.       *)
(*                                                                         *)
(* An operator introduced by a comment that begins with "Fault:" is no     *)
(* part of the model: it is what the next definition would say if the code *)
(* had that bug, kept to show that a property notices it.                  *)
(***************************************************************************)
EXTENDS Integers, Sequences

CONSTANT ValidityDays      \* GatePolicy.opinion_validity_days

ASSUME ValidityAssumption == ValidityDays \in Nat

----------------------------------------------------------------------------
\* Vocabulary

TerminalActions == {"SIGN", "SIGN_WITH_DIVERGENCE", "REJECT"}
SigningActions  == {"SIGN", "SIGN_WITH_DIVERGENCE"}
OpenActions     == {"VIEW", "REQUEST_INFO", "WITHDRAW", "ESCALATE"}
Actions         == OpenActions \cup TerminalActions \cup {"REANALYZE"}

TerminalStates == {"SIGNED", "SIGNED_WITH_DIVERGENCE", "SIGNED_PENDING_REVIEW",
                   "REJECTED", "WITHDRAWN"}
ControlStates  == TerminalStates \cup
                  {"AI_REVIEW_REQUIRED", "NEEDS_EVIDENCE_REVIEW", "AI_OPINION_READY",
                   "APPROVABLE", "DIVERGENCE_REQUIRED", "ESCALATED",
                   "AI_UNAVAILABLE", "BLOCKED"}

RM               == 10
CreditOfficer    == 20
BranchDirector   == 30
CreditAuthority  == 40
CRO              == 50
AuthorityLevels  == {RM, CreditOfficer, BranchDirector, CreditAuthority, CRO}

\* GatePolicy.hard_block_min_authority
HardBlockMinAuthority == CreditAuthority

NegativeDecisions == {"ESCALATE_TO_CRO_RISK", "REJECT_INSUFFICIENT_EVIDENCE"}
Decisions         == NegativeDecisions \cup {"APPROVE_WITH_CONDITIONS"}
OpinionStatuses   == {"VALIDATED", "INVALID"}

\* "non_overridable" is a HARD_BLOCK whose code the policy lists as such
\* (HB_AML_SANCTION); "overridable" is any other HARD_BLOCK.
Blocks == {"none", "overridable", "non_overridable"}

Case    == [revision: Nat, source: Nat, rules: Nat, required: AuthorityLevels,
            state: ControlStates, evidence: BOOLEAN, ai: {"AVAILABLE", "UNAVAILABLE"}]
Opinion == [version: Nat, revision: Nat, source: Nat, rules: Nat, issued: Nat,
            decision: Decisions, status: OpinionStatuses \cup {"NONE"},
            block: Blocks, complete: BOOLEAN]
Ack     == [version: Nat, hash: Nat \X Nat, active: BOOLEAN]

\* submit() was called without an opinion; without an acknowledgement.
NoOpinion == [version |-> 0, revision |-> 0, source |-> 0, rules |-> 0, issued |-> 0,
              decision |-> "REJECT_INSUFFICIENT_EVIDENCE", status |-> "NONE",
              block |-> "none", complete |-> TRUE]
NoHash    == <<0, 0>>

----------------------------------------------------------------------------
\* ControlGate.evaluate

\* Fault: only the age of the opinion counts.
IsFreshByAge(c, o, now) == now - o.issued <= ValidityDays

IsFresh(c, o, now) ==
    /\ o.revision = c.revision
    /\ o.source = c.source
    /\ o.rules = c.rules
    /\ now - o.issued <= ValidityDays

WarningHash(c, o) == <<c.revision, o.version>>

\* _ack_valid: an ACTIVE acknowledgement of exactly this warning set. Who gave
\* it is not looked at.
AckValid(c, o, ack) ==
    /\ ack.active
    /\ ack.version = o.version
    /\ ack.hash = WarningHash(c, o)

AuthorityOk(c, level) == level >= c.required

\* Fault: a withdrawn case is not treated as closed.
StageReopens(c, o, now) ==
    IF c.state \in TerminalStates \ {"WITHDRAWN"} THEN "CASE_CLOSED"
    ELSE IF c.ai = "UNAVAILABLE"      THEN "AI_UNAVAILABLE"
    ELSE IF o.status # "VALIDATED"    THEN "NO_VALID_OPINION"
    ELSE IF ~IsFresh(c, o, now)       THEN "STALE_OPINION"
    ELSE IF c.evidence                THEN "EVIDENCE_REVIEW_REQUIRED"
    ELSE "IN_FORCE"

\* The branch evaluate() leaves through: the first early return whose
\* condition holds, "IN_FORCE" when a valid and fresh opinion can be acted on.
Stage(c, o, now) ==
    IF c.state \in TerminalStates     THEN "CASE_CLOSED"
    ELSE IF c.ai = "UNAVAILABLE"      THEN "AI_UNAVAILABLE"
    ELSE IF o.status # "VALIDATED"    THEN "NO_VALID_OPINION"
    ELSE IF ~IsFresh(c, o, now)       THEN "STALE_OPINION"
    ELSE IF c.evidence                THEN "EVIDENCE_REVIEW_REQUIRED"
    ELSE "IN_FORCE"

\* Fault: a negative opinion can be signed like a favourable one.
OffersPlainSignature(o, level) ==
    IF o.block # "none" THEN {"REJECT"} ELSE {"REJECT", "SIGN"}

\* Fault: nobody asks for exception authority on a hard block.
OffersToAnyone(o, level) ==
    IF o.block = "non_overridable" THEN {"REJECT"}
    ELSE IF o.block = "overridable" \/ o.decision \in NegativeDecisions
         THEN {"REJECT", "SIGN_WITH_DIVERGENCE"}
    ELSE IF o.complete THEN {"REJECT", "SIGN"} ELSE {"REJECT"}

\* Terminal actions the opinion itself leaves open, before authority and
\* acknowledgement are looked at.
OpinionOffers(o, level) ==
    IF o.block = "non_overridable" THEN {"REJECT"}
    ELSE IF o.block = "overridable"
         THEN IF level >= HardBlockMinAuthority
              THEN {"REJECT", "SIGN_WITH_DIVERGENCE"} ELSE {"REJECT"}
    ELSE IF o.decision \in NegativeDecisions THEN {"REJECT", "SIGN_WITH_DIVERGENCE"}
    ELSE IF o.complete THEN {"REJECT", "SIGN"} ELSE {"REJECT"}

Offered(c, o, level, now) ==
    LET stage == Stage(c, o, now) IN
    CASE stage = "CASE_CLOSED" -> {"VIEW"}
      [] stage = "AI_UNAVAILABLE" ->
           OpenActions \cup {"REANALYZE", "REJECT"}
             \cup (IF o.block # "none" /\ IsFresh(c, o, now) THEN {} ELSE {"SIGN"})
      [] stage \in {"NO_VALID_OPINION", "STALE_OPINION"} ->
           OpenActions \cup {"REANALYZE", "REJECT"}
      [] stage = "EVIDENCE_REVIEW_REQUIRED" -> OpenActions \cup {"REANALYZE"}
      [] stage = "IN_FORCE" -> OpenActions \cup {"REANALYZE"} \cup OpinionOffers(o, level)

\* Fault: authority is asked for a signature only.
AllowedToReject(c, o, level, ack, now) ==
    LET stage == Stage(c, o, now) IN
    {a \in Offered(c, o, level, now) :
        a \in SigningActions =>
            /\ stage \in {"AI_UNAVAILABLE", "IN_FORCE"} => AuthorityOk(c, level)
            /\ stage = "IN_FORCE" => AckValid(c, o, ack)}

\* Authority is asked for only where evaluate() gets that far: the two early
\* returns for a missing or stale opinion leave REJECT to anybody.
Allowed(c, o, level, ack, now) ==
    LET stage == Stage(c, o, now) IN
    {a \in Offered(c, o, level, now) :
        /\ (a \in TerminalActions /\ stage \in {"AI_UNAVAILABLE", "IN_FORCE"})
              => AuthorityOk(c, level)
        /\ (a \in SigningActions /\ stage = "IN_FORCE") => AckValid(c, o, ack)}

BlockedReasons(c, o, level, now) ==
    LET stage == Stage(c, o, now) IN
    {r \in {"CASE_CLOSED", "AI_UNAVAILABLE", "NO_VALID_OPINION", "STALE_OPINION",
            "EVIDENCE_REVIEW_REQUIRED", "NON_OVERRIDABLE_HARD_BLOCK",
            "UNRESOLVED_HARD_BLOCK", "HARD_BLOCK_AUTHORITY_REQUIRED",
            "CONDITION_INCOMPLETE", "INSUFFICIENT_AUTHORITY"} :
        \/ r = stage
        \/ /\ r = "INSUFFICIENT_AUTHORITY"
           /\ stage \in {"AI_UNAVAILABLE", "IN_FORCE"}
           /\ ~AuthorityOk(c, level)
        \/ /\ r = "UNRESOLVED_HARD_BLOCK"
           /\ \/ stage = "AI_UNAVAILABLE" /\ o.block # "none" /\ IsFresh(c, o, now)
              \/ stage = "IN_FORCE" /\ o.block = "overridable"
        \/ /\ stage = "IN_FORCE"
           /\ \/ r = "NON_OVERRIDABLE_HARD_BLOCK" /\ o.block = "non_overridable"
              \/ /\ r = "HARD_BLOCK_AUTHORITY_REQUIRED"
                 /\ o.block = "overridable" /\ level < HardBlockMinAuthority
              \/ /\ r = "CONDITION_INCOMPLETE"
                 /\ o.block = "none" /\ o.decision \notin NegativeDecisions /\ ~o.complete}

\* ControlDecision.control_state
ReportedState(c, o, now) ==
    LET stage == Stage(c, o, now) IN
    CASE stage = "CASE_CLOSED" -> c.state
      [] stage = "AI_UNAVAILABLE" -> "AI_UNAVAILABLE"
      [] stage \in {"NO_VALID_OPINION", "STALE_OPINION"} -> "AI_REVIEW_REQUIRED"
      [] stage = "EVIDENCE_REVIEW_REQUIRED" -> "NEEDS_EVIDENCE_REVIEW"
      [] stage = "IN_FORCE" ->
           IF o.block = "non_overridable" THEN "ESCALATED"
           ELSE IF o.block = "overridable" \/ o.decision \in NegativeDecisions
                THEN "DIVERGENCE_REQUIRED"
           ELSE IF o.complete THEN "APPROVABLE" ELSE "AI_OPINION_READY"

ReportedHash(c, o, now) ==
    IF Stage(c, o, now) = "IN_FORCE" THEN WarningHash(c, o) ELSE NoHash

PostReviewRequired(c, o, now) == Stage(c, o, now) = "AI_UNAVAILABLE"

----------------------------------------------------------------------------
\* What DecisionService.submit derives from the verdict

\* _rejection_code
RejectionCode(c, o, level, ack, now) ==
    LET reasons == BlockedReasons(c, o, level, now) IN
    IF "STALE_OPINION" \in reasons THEN "STALE_OPINION"
    ELSE IF "INSUFFICIENT_AUTHORITY" \in reasons THEN "INSUFFICIENT_AUTHORITY"
    ELSE IF Stage(c, o, now) = "IN_FORCE" /\ ~AckValid(c, o, ack) THEN "ACK_SUPERSEDED"
    ELSE "ACTION_NOT_ALLOWED"

\* _resolve_alignment
Alignment(o, action, reasons) ==
    IF o.status = "NONE" THEN "NO_AI_OPINION"
    ELSE IF action = "SIGN_WITH_DIVERGENCE"
         THEN IF "UNRESOLVED_HARD_BLOCK" \in reasons
              THEN "AUTHORIZED_EXCEPTION" ELSE "DIVERGENT"
    ELSE IF action = "REJECT" /\ o.decision \notin NegativeDecisions THEN "DIVERGENT"
    ELSE "CONCURRENT"

\* The reason code table. "" is a request without a code, any other string a
\* code the table does not know.
LoosenCodes   == {"NEW_EVIDENCE_PROVIDED", "AI_FINDING_FACTUALLY_WRONG",
                  "COLLATERAL_EXCEPTION_REQUEST", "STRATEGIC_CUSTOMER_EXCEPTION"}
TightenCodes  == {"ADDITIONAL_RISK_OBSERVED", "LOCAL_KNOWLEDGE_NEGATIVE"}
ReasonCodes   == LoosenCodes \cup TightenCodes \cup
                 {"POLICY_INTERPRETATION_DISPUTE", "OTHER_REQUIRES_REVIEW"}
FeedbackCodes == {"AI_FINDING_FACTUALLY_WRONG", "ADDITIONAL_RISK_OBSERVED"}

MinReasonAuthority(code) ==
    IF code \in {"COLLATERAL_EXCEPTION_REQUEST", "STRATEGIC_CUSTOMER_EXCEPTION"}
    THEN CreditAuthority ELSE BranchDirector

\* _validate_reason: the code of the first check that fails, "OK" when none does.
ReasonVerdict(o, q, level, alignment) ==
    LET opposite == IF q.action \in SigningActions THEN TightenCodes ELSE LoosenCodes IN
    IF alignment \in {"CONCURRENT", "NO_AI_OPINION"} THEN "OK"
    ELSE IF q.reason = "" THEN "REASON_CODE_REQUIRED"
    ELSE IF q.reason \notin ReasonCodes THEN "UNKNOWN_REASON_CODE"
    ELSE IF ~q.narrative THEN "NARRATIVE_TOO_SHORT"
    ELSE IF q.reason \in opposite THEN "REASON_DIRECTION_MISMATCH"
    ELSE IF q.reason = "NEW_EVIDENCE_PROVIDED" /\ ~q.documents
         THEN "SUPPORTING_DOCUMENTS_REQUIRED"
    ELSE IF level < MinReasonAuthority(q.reason) THEN "INSUFFICIENT_AUTHORITY"
    ELSE IF o.block # "none" /\ q.reason = "STRATEGIC_CUSTOMER_EXCEPTION"
         THEN "REASON_NOT_ALLOWED_WITH_HARD_BLOCK"
    ELSE "OK"

\* _build_notifications: the triggers in the order they are sent.
Notifications(alignment, action, postReview) ==
    (CASE alignment = "AUTHORIZED_EXCEPTION" ->
            <<"DIVERGENCE_ON_HARD_BLOCK", "DIVERGENCE_ON_HARD_BLOCK_AUDIT">>
       [] alignment = "DIVERGENT" -> <<"DIVERGENCE_STANDARD">>
       [] OTHER -> <<>>)
    \o (IF action = "ESCALATE" THEN <<"ESCALATION_RAISED">> ELSE <<>>)
    \o (IF postReview THEN <<"POST_REVIEW_QUEUED">> ELSE <<>>)

MandatoryTriggers == {"DIVERGENCE_ON_HARD_BLOCK", "DIVERGENCE_ON_HARD_BLOCK_AUDIT",
                      "ESCALATION_RAISED"}
Triggers == MandatoryTriggers \cup {"DIVERGENCE_STANDARD", "POST_REVIEW_QUEUED"}

\* Fault: the action itself is stored as the state.
NextStateNamed(action, reported, postReview) ==
    IF action = "SIGN" THEN "SIGNED" ELSE action

\* _next_state
NextState(action, reported, postReview) ==
    CASE action = "SIGN" -> IF postReview THEN "SIGNED_PENDING_REVIEW" ELSE "SIGNED"
      [] action = "SIGN_WITH_DIVERGENCE" -> "SIGNED_WITH_DIVERGENCE"
      [] action = "REJECT" -> "REJECTED"
      [] action = "WITHDRAW" -> "WITHDRAWN"
      [] action = "ESCALATE" -> "ESCALATED"
      [] OTHER -> reported
============================================================================
