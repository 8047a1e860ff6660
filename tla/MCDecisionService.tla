------------------------- MODULE MCDecisionService -------------------------
(***************************************************************************)
(* A small instance of DecisionService: a director, a holder of exception  *)
(* authority and a relationship manager, on a case a director may decide.  *)
(***************************************************************************)
EXTENDS DecisionService, TLC

MCActors == {"rm", "director", "authority"}

MCAuthority == [a \in MCActors |-> CASE a = "rm" -> RM
                                     [] a = "director" -> BranchDirector
                                     [] a = "authority" -> CreditAuthority]

MCKeys    == {"k", "k1", "k2", "k3"}
MCCodes   == ReasonCodes \cup {"", "GUT_FEELING"}

\* A request whose narrative, documents and human decision are in order.
Ask(a, k, act, code) == [actor |-> a, key |-> k, action |-> act, reason |-> code,
                         narrative |-> TRUE, documents |-> TRUE, decided |-> TRUE]

\* What competing signers may ask for at the same time.
ConcurrentRequests ==
    {Ask("director", "k1", "SIGN", ""),
     Ask("director", "k1", "ESCALATE", ""),
     Ask("authority", "k2", "SIGN_WITH_DIVERGENCE", "AI_FINDING_FACTUALLY_WRONG"),
     Ask("authority", "k2", "REJECT", "ADDITIONAL_RISK_OBSERVED")}

\* Retries and competing decisions, one after the other.
SerialRequests ==
    {Ask("director", "k1", "SIGN", ""),
     Ask("director", "k1", "REQUEST_INFO", ""),
     Ask("authority", "k2", "SIGN_WITH_DIVERGENCE", "AI_FINDING_FACTUALLY_WRONG"),
     Ask("authority", "k2", "REJECT", "ADDITIONAL_RISK_OBSERVED"),
     Ask("rm", "k3", "REJECT", ""),
     Ask("rm", "k3", "WITHDRAW", ""),
     Ask("rm", "k", "VIEW", "")}

\* One call: each kind of request, by people who may and may not make it.
SoleRequests ==
    {Ask(a, "k", "SIGN", "") : a \in {"rm", "director"}} \cup
    {Ask("director", "k", "SIGN_WITH_DIVERGENCE", code) :
        code \in {"", "GUT_FEELING", "AI_FINDING_FACTUALLY_WRONG", "LOCAL_KNOWLEDGE_NEGATIVE"}} \cup
    {Ask("authority", "k", "SIGN_WITH_DIVERGENCE", code) :
        code \in {"COLLATERAL_EXCEPTION_REQUEST", "STRATEGIC_CUSTOMER_EXCEPTION"}} \cup
    {[Ask("authority", "k", "SIGN_WITH_DIVERGENCE", "NEW_EVIDENCE_PROVIDED")
        EXCEPT !.narrative = n, !.documents = FALSE] : n \in BOOLEAN} \cup
    {[Ask("director", "k", "SIGN", "") EXCEPT !.decided = FALSE],
     Ask("rm", "k", "VIEW", ""),
     Ask("rm", "k", "REJECT", "LOCAL_KNOWLEDGE_NEGATIVE"),
     Ask("rm", "k", "ESCALATE", "")}

Kind(d, b) == [decision |-> d, status |-> "VALIDATED", block |-> b, complete |-> TRUE]

MCOpinionKinds ==
    {Kind("APPROVE_WITH_CONDITIONS", "none"),
     Kind("ESCALATE_TO_CRO_RISK", "none"),
     Kind("ESCALATE_TO_CRO_RISK", "overridable")}

Symmetry == Permutations(Threads)

AllKinds ==
    MCOpinionKinds \cup
    {Kind("APPROVE_WITH_CONDITIONS", "overridable"),
     Kind("APPROVE_WITH_CONDITIONS", "non_overridable"),
     [Kind("APPROVE_WITH_CONDITIONS", "none") EXCEPT !.complete = FALSE],
     [Kind("APPROVE_WITH_CONDITIONS", "none") EXCEPT !.status = "INVALID"]}
============================================================================
