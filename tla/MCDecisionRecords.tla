------------------------- MODULE MCDecisionRecords -------------------------
(***************************************************************************)
(* Three requests of two users about one case: an officer and the CRO, who *)
(* may choose a key that is in use, or one that occurs in it. Amounts come *)
(* as integers and as floats, and a date may have a bar in it.             *)
(***************************************************************************)
EXTENDS DecisionRecords, TLC

CONSTANTS c1, c2, c3, key1, key11

TwoKeys == {key1, key11}
OccursIn == key1 :> {key1, key11} @@ key11 :> {key11}

SomeCalls == Permutations({c1, c2, c3})

BarIn == "now|late" :> <<"now", "late">>
Integers == "1.0" :> "1"

Roles == "officer" :> "BRANCH_DIRECTOR" @@ "cro" :> "CRO"

Asks(id, u, human, justified, created) ==
    [id |-> id, case |-> "case", user |-> u, role |-> Roles[u],
     opinion_id |-> "op", opinion_version |-> "1",
     ai |-> "APPROVE_WITH_CONDITIONS", human |-> human, type |-> "",
     justified |-> justified, amount |-> "1", created |-> created]

\* Agreeing, overriding with a justification and without, and a date with a bar
V1 == {Asks(id, u, h, h = "REJECTED", "now") :
           id \in TwoKeys \cup {NoKey}, u \in DOMAIN Roles,
           h \in {"APPROVE_WITH_CONDITIONS", "REJECTED"}}
      \cup {Asks(key1, "officer", "REJECTED", FALSE, "now"),
            Asks(key11, "officer", "APPROVE_WITH_CONDITIONS", FALSE, "now|late")}

Opinion(decision, hard) ==
    [status |-> "VALIDATED", revision |-> 1, id |-> "op", version |-> "1", decision |-> decision,
     hard_block |-> hard]

Approving == Opinion("APPROVE_WITH_CONDITIONS", FALSE)
Opinions == {Approving, Opinion("APPROVE_WITH_CONDITIONS", TRUE),
             Opinion("REJECT_INSUFFICIENT_EVIDENCE", FALSE)}
Unusable == {[Approving EXCEPT !.status = "DRAFT"], [Approving EXCEPT !.revision = 2]}

Signs(k, u, act, amount, op) ==
    [key |-> k, case |-> "case", user |-> u, role |-> Roles[u], action |-> act.action,
     opinion_id |-> Null, opinion_version |-> Null,
     alignment |-> act.alignment, reason_code |-> TRUE, narrative |-> act.narrative,
     human |-> "APPROVED", amount |-> amount, created |-> "now", opinion |-> op]

\* A plain signature, and a divergent one
Plain == [action |-> "SIGN", alignment |-> "CONCURRENT", narrative |-> FALSE]
Divergent(explained) ==
    [action |-> "SIGN_WITH_DIVERGENCE", alignment |-> "DIVERGENT", narrative |-> explained]

V2 == {Signs(k, u, act, "1", op) :
           k \in TwoKeys \cup {NoKey}, u \in DOMAIN Roles, act \in {Plain, Divergent(TRUE)},
           op \in Opinions}
      \cup {Signs(key1, "officer", Divergent(FALSE), "1", Approving),
            Signs(key1, "cro", Plain, "1.0", Approving)}
      \cup {Signs(NoKey, "cro", Divergent(TRUE), "1", op) : op \in Unusable}
=============================================================================
