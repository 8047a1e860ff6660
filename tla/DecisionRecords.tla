-------------------------- MODULE DecisionRecords --------------------------
(***************************************************************************)
(* The table human_decisions of StateRepository, and the two ways a        *)
(* decision gets there: record_human_decision, which the web server calls  *)
(* (an upsert), and record_human_decision_v2 (a lookup by idempotency key, *)
(* a gate of its own, and a plain insert). Every request is a thread with  *)
(* a connection of its own; a statement is a transaction.                  *)
(*                                                                         *)
(* A seal is what is hashed, the pieces between the bars of the payload:   *)
(* no two payloads have one hash. Everything a request has is the text it  *)
(* is written as; a version "0" is the number. The decision_id of a        *)
(* request with a key is that key, that of a request without one is new,   *)
(* here the call itself.                                                   *)
(***************************************************************************)
EXTENDS Naturals, FiniteSets, Sequences

CONSTANTS
    Calls,          \* requests to come
    Keys,           \* idempotency keys, and decision_ids a client may choose
    Occurs,         \* Occurs[k]: the decision_ids LIKE %k%
    Requests,       \* what a client may ask for through record_human_decision
    RequestsV2,     \* and through record_human_decision_v2, with the opinion
    NoKey,          \* no key, no decision_id, nothing asked
    Null,           \* None in Python, NULL in the table
    Barred,         \* Barred[x]: the pieces of a text x with bars in it
    Columned        \* Columned[x]: what an INTEGER column makes of x, if not x

ASSUME RecordAssumptions ==
    /\ Barred \in [DOMAIN Barred -> Seq(STRING)] /\ \A x \in DOMAIN Barred : Len(Barred[x]) > 1
    /\ NoKey \notin Keys /\ Keys \cap Calls = {}
    /\ Occurs \in [Keys -> SUBSET Keys] /\ \A k \in Keys : k \in Occurs[k]
    /\ \A req \in Requests : req.id \in Keys \cup {NoKey}
    /\ \A req \in RequestsV2 : req.key \in Keys \cup {NoKey}

VARIABLES
    rows,    \* decision_id -> row of human_decisions
    call     \* what each call is, the answer it got, and, of one that
             \* is or may be recorded, what it asked for

vars == <<rows, call>>

NoCall == [at |-> "idle", by |-> "", req |-> NoKey, answer |-> ""]
Init == rows = << >> /\ call = [c \in Calls |-> NoCall]

\* Fault: an error is swallowed, and the client is left without an answer.
OverSilently(c, by, answer) ==
    call' = [call EXCEPT ![c] = [at |-> "done", by |-> by, req |-> NoKey, answer |-> ""]]

\* The answer to a request: the response, or the exception.
Over(c, by, answer) ==
    call' = [call EXCEPT ![c] = [at |-> "done", by |-> by, req |-> NoKey, answer |-> answer]]

\* A row takes its place in the table.
Put(r) == rows' = [id \in DOMAIN rows \cup {r.id} |-> IF id = r.id THEN r ELSE rows[id]]

----------------------------------------------------------------------------
\* Seals

Parts(x) == IF x \in DOMAIN Barred THEN Barred[x] ELSE <<x>>

\* {x}|rest
Bar(x, rest) == Parts(x) \o rest

Head7(d, rest) ==
    Bar(d.id, Bar(d.case, Bar(d.opinion_id, Bar(d.opinion_version,
        Bar(d.user, Bar(d.human, Bar(d.type, rest)))))))

\* What record_human_decision_v2 hashes of a decision d.
SealV2(d) == Head7(d, Bar(d.amount, Parts(d.created)))

\* What record_human_decision hashes: there is no amount.
SealV1(d) == Head7(d, Parts(d.created))

\* What is inserted of a decision
Column(x) == IF x \in DOMAIN Columned THEN Columned[x] ELSE x
Stored(d, seal) ==
    [d EXCEPT !.opinion_version = Column(@), !.amount = Column(@), !.seal = seal]

\* Python's x or y
Or(x, y) == IF x \in {Null, "", "0"} THEN y ELSE x

\* verify_decision_integrity_seal, of a stored row
Read(r) == [r EXCEPT !.opinion_id = Or(@, ""), !.opinion_version = Or(@, "1")]

\* Fault: the amount is not part of what is verified.
SealWithoutAmount(r) == SealV1(Read(r))

Recomputed(r) == SealV2(Read(r))
Verifies(r) == Recomputed(r) = r.seal

----------------------------------------------------------------------------
\* record_human_decision

DecisionType(req) ==
    IF req.type # "" THEN req.type
    ELSE IF req.human = req.ai THEN "AGREE_WITH_AI" ELSE "OVERRIDE_AI"

\* An override without ten characters of justification is refused.
Unjustified(req) == DecisionType(req) = "OVERRIDE_AI" /\ ~req.justified

DecisionV1(c, req) ==
    [id |-> IF req.id = NoKey THEN c ELSE req.id, case |-> req.case,
     opinion_id |-> req.opinion_id, opinion_version |-> req.opinion_version,
     user |-> req.user, role |-> req.role, ai |-> req.ai, human |-> req.human,
     type |-> DecisionType(req), justified |-> req.justified, amount |-> req.amount,
     created |-> req.created, seal |-> << >>]

RowV1(c, req) == Stored(DecisionV1(c, req), SealV1(DecisionV1(c, req)))

\* ON CONFLICT: the old row keeps its case, its signer and its date.
Upserted(old, new) ==
    [old EXCEPT !.opinion_id = new.opinion_id, !.opinion_version = new.opinion_version, !.human = new.human,
                !.type = new.type, !.justified = new.justified, !.amount = new.amount,
                !.seal = new.seal]

Record(c, req) ==
    LET new == RowV1(c, req) IN
    /\ call[c] = NoCall
    /\ IF Unjustified(req)
       THEN Over(c, "v1", "invalid_request") /\ UNCHANGED rows
       ELSE /\ call' = [call EXCEPT ![c] = [at |-> "done", by |-> "v1", req |-> req,
                                            answer |-> "SUCCESS"]]
            /\ Put(IF new.id \in DOMAIN rows THEN Upserted(rows[new.id], new) ELSE new)

----------------------------------------------------------------------------
\* record_human_decision_v2

Valid(op) == op.status = "VALIDATED"

\* evaluate_control_gate, which takes the revision of the case to be 1. What
\* it finds to block is not looked at.
AllowedActions(op) ==
    LET always == {"VIEW", "REQUEST_INFO", "REANALYZE", "ESCALATE", "REJECT", "WITHDRAW"} IN
    IF ~Valid(op) \/ op.revision # 1 THEN always
    ELSE always \cup {"SIGN_WITH_DIVERGENCE"}
         \cup (IF op.decision = "APPROVE_WITH_CONDITIONS" /\ ~op.hard_block THEN {"SIGN"} ELSE {})

\* Fault: every role is one that may decide on a hard block.
AuthorizedAnyhow(req) == TRUE

\* 403
Authorized(req) == req.opinion.hard_block => req.role \in {"CRO", "CREDIT_AUTHORITY"}

\* 422
Explained(req) == req.alignment = "DIVERGENT" => req.reason_code /\ req.narrative

Verdict(req) ==
    IF ~Authorized(req) THEN "403"
    ELSE IF req.action \notin AllowedActions(req.opinion) THEN "409"
    ELSE IF ~Explained(req) THEN "422" ELSE "insert"

DecisionV2(c, req) ==
    [id |-> IF req.key = NoKey THEN c ELSE req.key, case |-> req.case,
     opinion_id |-> Or(req.opinion_id, req.opinion.id),
     opinion_version |-> Or(req.opinion_version, req.opinion.version),
     user |-> req.user, role |-> req.role, ai |-> req.opinion.decision, human |-> req.human,
     type |-> req.alignment, justified |-> req.narrative, amount |-> req.amount,
     created |-> req.created, seal |-> << >>]

RowV2(c, req) == Stored(DecisionV2(c, req), SealV2(DecisionV2(c, req)))

\* An earlier decision of this user on this case under this key, or what LIKE
\* takes for it.
Existing(req) ==
    {id \in DOMAIN rows : /\ req.key # NoKey
                          /\ id \in Occurs[req.key]
                          /\ rows[id].case = req.case /\ rows[id].user = req.user}

\* The lookup, and whatever is decided without the table.
Lookup(c, req) ==
    /\ call[c] = NoCall
    /\ \/ Existing(req) # {} /\ Over(c, "v2", "SUCCESS_IDEMPOTENT")
       \/ Existing(req) = {} /\ Verdict(req) # "insert" /\ Over(c, "v2", Verdict(req))
       \/ /\ Existing(req) = {} /\ Verdict(req) = "insert"
          /\ call' = [call EXCEPT ![c] = [at |-> "insert", by |-> "v2", req |-> req, answer |-> ""]]
    /\ UNCHANGED rows

\* Fault: the insert takes over a row that is there.
InsertOver(c) ==
    LET new == RowV2(c, call[c].req) IN
    /\ call[c].at = "insert"
    /\ Put(new)
    /\ call' = [call EXCEPT ![c].at = "done", ![c].answer = "SUCCESS"]

\* The insert: a decision_id that is taken is an IntegrityError.
Insert(c) ==
    LET new == RowV2(c, call[c].req) IN
    /\ call[c].at = "insert"
    /\ IF new.id \in DOMAIN rows
       THEN Over(c, "v2", "IntegrityError") /\ UNCHANGED rows
       ELSE /\ Put(new)
            /\ call' = [call EXCEPT ![c].at = "done", ![c].answer = "SUCCESS"]

----------------------------------------------------------------------------
\* Somebody changes the amount of a row without the repository.
Edit(id) ==
    /\ id \in DOMAIN rows
    /\ rows' = [rows EXCEPT ![id].amount = "0"]
    /\ UNCHANGED call

Next ==
    \/ \E c \in Calls : \/ \E req \in Requests : Record(c, req)
                        \/ \E req \in RequestsV2 : Lookup(c, req)
                        \/ Insert(c)
    \/ \E id \in DOMAIN rows : Edit(id)

Spec == Init /\ [][Next]_vars

----------------------------------------------------------------------------
\* Properties

TypeOK ==
    /\ DOMAIN rows \subseteq Keys \cup Calls
    /\ \A id \in DOMAIN rows : rows[id].id = id
    /\ \A c \in Calls : /\ call[c].at \in {"idle", "insert", "done"}
                        /\ call[c].at = "done" <=> call[c].answer # ""
                        /\ call[c].by \in {"", "v1", "v2"}
                        /\ call[c].answer \in {"", "SUCCESS", "SUCCESS_IDEMPOTENT", "invalid_request",
                                               "403", "409", "422", "IntegrityError"}

SealedFields ==
    {"id", "case", "opinion_id", "opinion_version", "user", "human", "type", "amount", "created"}

Succeeded(c) == call[c].by \in {"v1", "v2"} /\ call[c].answer = "SUCCESS"
DecisionOf(c) == IF call[c].by = "v1" THEN DecisionV1(c, call[c].req)
                 ELSE DecisionV2(c, call[c].req)

\* Nothing that was recorded under this decision_id has a bar in it, which
\* neither of the two ways forbids.
Separated(id) ==
    \A c \in Calls : Succeeded(c) /\ DecisionOf(c).id = id =>
        \A x \in SealedFields : DecisionOf(c)[x] \notin DOMAIN Barred

\* The call through v2 whose decision a row has, field by field, as far as it
\* is sealed and as it is read for the seal
Recorded(c, r) ==
    /\ Succeeded(c) /\ call[c].by = "v2"
    /\ \A x \in SealedFields : Read(r)[x] = DecisionOf(c)[x]

\* A decision that verifies is, field by field, what its signer submitted
\* through record_human_decision_v2: neither an edit of the table nor an upsert
\* of somebody else's decision over it goes unnoticed (docs/06: a changed record
\* is detected), as long as no field has the bar that separates them. And what
\* is as it was submitted verifies, unless an upsert has put its own seal there.
SealTells ==
    \A id \in DOMAIN rows :
        /\ Separated(id) /\ Verifies(rows[id]) => \E c \in Calls : Recorded(c, rows[id])
        /\ /\ \E c \in Calls : Recorded(c, rows[id])
           /\ \A c \in Calls : Succeeded(c) /\ call[c].by = "v1" => DecisionOf(c).id # id
           => Verifies(rows[id])

\* Of all the requests under one key, concurrent or one after the other, on
\* whatever case and by whomever, one is recorded.
OneSuccessPerKey ==
    \A c, d \in Calls :
        /\ {call[c].by, call[d].by} = {"v2"}
        /\ {call[c].answer, call[d].answer} = {"SUCCESS"}
        /\ call[c].req.key = call[d].req.key
        => c = d \/ call[c].req.key = NoKey

\* A decision that verifies was let through by the gate and is explained, in
\* the row itself, and the row has the authority it was taken with, as long as
\* no field that was recorded there has a bar in it.
VerifiedIsLegitimate ==
    \A id \in DOMAIN rows : Separated(id) /\ Verifies(rows[id]) =>
        /\ rows[id].type = "DIVERGENT" => rows[id].justified
        /\ \E c \in Calls :
            /\ Recorded(c, rows[id])
            /\ call[c].req.opinion.hard_block => rows[id].role \in {"CRO", "CREDIT_AUTHORITY"}
            /\ call[c].req.action = "SIGN" => rows[id].ai = "APPROVE_WITH_CONDITIONS"
=============================================================================
