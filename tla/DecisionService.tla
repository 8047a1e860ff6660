-------------------------- MODULE DecisionService --------------------------
(***************************************************************************)
(* DecisionService.submit, acknowledge and apply_case_revision running     *)
(* concurrently on one case. The Case object, the acknowledgements, the    *)
(* audit log, the notifier and the decision rows are shared by all calls;  *)
(* each call of submit is a thread of its own, cut into the steps between  *)
(* which other threads run:                                                *)
(*                                                                         *)
(*   idle -> gate -> audit -> notify -> insert -> feedback -> done         *)
(*                                                                         *)
(* with "done" reachable from every step that raises. A thread stands for  *)
(* one call, and for the decision_id (a fresh uuid) that call creates; a   *)
(* client's retry is another thread with the same idempotency key.         *)
(*                                                                         *)
(* The caller, who builds opinions and flips the flags of the case, is not *)
(* part of the repository's control layer: its actions are marked          *)
(* "caller".                                                               *)
(***************************************************************************)
EXTENDS ControlGate, FiniteSets

CONSTANTS
    Threads,        \* calls of submit
    Actors,         \* people who sign
    Authority,      \* Actor.authority_level
    Required,       \* Case.required_authority
    Keys, Codes,    \* idempotency keys and reason codes a client may send
    Requests,       \* the DecisionRequests that may be submitted
    OpinionKinds,   \* the opinions the pipeline may issue
    AuditFails,     \* the audit events whose write may fail
    FailTriggers,   \* the notification triggers whose delivery may fail
    AiFails,        \* whether the AI may become unavailable
    DataFlagged,    \* whether an evidence review may be requested
    \* bounds: every counter below is capped by one of these
    MaxRevision, MaxVersion, MaxRules, MaxAcks, MaxDay

AuditEvents == {"human_decision_submitted", "human_decision_rejected"}

ASSUME ServiceAssumptions ==
    /\ Authority \in [Actors -> AuthorityLevels]
    /\ Required \in AuthorityLevels
    /\ Requests \subseteq [actor: Actors, key: Keys, action: Actions, reason: Codes,
                           narrative: BOOLEAN, documents: BOOLEAN, decided: BOOLEAN]
    /\ OpinionKinds \subseteq [decision: Decisions, status: OpinionStatuses,
                               block: Blocks, complete: BOOLEAN]
    /\ AuditFails \subseteq AuditEvents
    /\ FailTriggers \subseteq Triggers
    /\ AiFails \in BOOLEAN /\ DataFlagged \in BOOLEAN
    /\ {MaxRevision, MaxVersion, MaxRules, MaxAcks, MaxDay} \subseteq Nat
    /\ MaxRevision >= 1      \* the revision a case starts with

VARIABLES
    case,       \* the shared, mutable Case object
    opinion,    \* the opinion the caller would load now
    day,        \* the clock, in days
    acks,       \* AcknowledgementStore, in order of creation
    revising,   \* next step of the running apply_case_revision
    audit,      \* AuditLog, as the set of its entries
    sent,       \* Notifier.sent: <<decision, trigger>>
    rows,       \* DecisionStore: the recorded decisions
    backlog,    \* ModelRiskBacklog: decisions that fed an item back
    pc,         \* next step of each call
    call,       \* what each call was made with: request, opinion, ack, now
    verdict,    \* what the gate told each call
    step,       \* index of the notification to send next
    draft,      \* case_revision of the built, not yet inserted Decision
    answer      \* what the client was told

store == <<acks, audit, sent, rows, backlog>>
local == <<call, verdict, step, draft>>
vars  == <<case, opinion, day, revising, store, pc, local, answer>>

PCs == {"idle", "gate", "audit", "notify", "insert", "feedback", "done"}
Answers == {"NONE", "201 CREATED", "200 OK", "STALE_OPINION", "INSUFFICIENT_AUTHORITY",
            "ACK_SUPERSEDED", "ACTION_NOT_ALLOWED", "REASON_CODE_REQUIRED",
            "UNKNOWN_REASON_CODE", "NARRATIVE_TOO_SHORT", "REASON_DIRECTION_MISMATCH",
            "SUPPORTING_DOCUMENTS_REQUIRED", "REASON_NOT_ALLOWED_WITH_HARD_BLOCK",
            "AUDIT_WRITE_FAILED", "NOTIFICATION_FAILED", "SEAL_PAYLOAD_ERROR",
            "CONFLICT_TERMINAL_DECISION"}
Alignments == {"CONCURRENT", "DIVERGENT", "AUTHORIZED_EXCEPTION", "NO_AI_OPINION"}

NoRequest == [actor |-> "", key |-> "", action |-> "VIEW", reason |-> "",
              narrative |-> FALSE, documents |-> FALSE, decided |-> FALSE]
NoVerdict == [state |-> "AI_REVIEW_REQUIRED", postReview |-> FALSE, fresh |-> FALSE,
              alignment |-> "NO_AI_OPINION", hash |-> NoHash]
NoAck     == [version |-> 0, hash |-> NoHash, active |-> FALSE]

NoCall    == [request |-> NoRequest, opinion |-> NoOpinion, ack |-> 0, now |-> 0]

Init ==
    /\ case = [revision |-> 1, source |-> 1, rules |-> 1, required |-> Required,
               state |-> "AI_REVIEW_REQUIRED", evidence |-> FALSE, ai |-> "AVAILABLE"]
    /\ opinion = NoOpinion
    /\ day = 0
    /\ acks = <<>>
    /\ revising = "idle"
    /\ audit = {} /\ sent = {} /\ rows = {} /\ backlog = {}
    /\ pc = [t \in Threads |-> "idle"]
    /\ call = [t \in Threads |-> NoCall]
    /\ verdict = [t \in Threads |-> NoVerdict]
    /\ step = [t \in Threads |-> 1]
    /\ draft = [t \in Threads |-> 0]
    /\ answer = [t \in Threads |-> "NONE"]

----------------------------------------------------------------------------
\* submit

Request(t)   == call[t].request
Level(t)     == Authority[Request(t).actor]
AckOf(t)     == IF call[t].ack \in DOMAIN acks THEN acks[call[t].ack] ELSE NoAck
Triggered(t) == Notifications(verdict[t].alignment, Request(t).action, verdict[t].postReview)

Goto(t, from, to) == pc[t] = from /\ pc' = [pc EXCEPT ![t] = to]

\* The call returns or raises, and its locals are gone.
Finish(t, from, code) ==
    /\ Goto(t, from, "done")
    /\ answer' = [answer EXCEPT ![t] = code]
    /\ call' = [call EXCEPT ![t] = NoCall]
    /\ verdict' = [verdict EXCEPT ![t] = NoVerdict]
    /\ step' = [step EXCEPT ![t] = 1]
    /\ draft' = [draft EXCEPT ![t] = 0]

Block == case' = [case EXCEPT !.state = "BLOCKED"]

\* Fault: only terminal decisions are remembered under their key.
RecordedTerminal(q) ==
    \E r \in rows : r.actor = q.actor /\ r.key = q.key /\ r.action \in TerminalActions

\* find_by_idempotency, which takes no lock
Recorded(q) == \E r \in rows : r.actor = q.actor /\ r.key = q.key

\* The caller loads the opinion and the time and calls submit, whose first act
\* is to look the idempotency key up.
Begin(t) ==
    \E q \in Requests, a \in 0..Len(acks) :
        /\ ~Recorded(q)
        /\ Goto(t, "idle", "gate")
        /\ call' = [call EXCEPT ![t] = [request |-> q, opinion |-> opinion,
                                        ack |-> a, now |-> day]]
        /\ UNCHANGED <<case, opinion, day, revising, store, verdict, step, draft, answer>>

\* A known key is answered at once with the row recorded under it.
Replay(t) ==
    /\ \E q \in Requests : Recorded(q)
    /\ Finish(t, "idle", "200 OK")
    /\ UNCHANGED <<case, opinion, day, revising, store>>

Reasons(t) == BlockedReasons(case, call[t].opinion, Level(t), call[t].now)
Permits(t) == Request(t).action \in Allowed(case, call[t].opinion, Level(t), AckOf(t), call[t].now)
ReasonCheck(t) == ReasonVerdict(call[t].opinion, Request(t), Level(t),
                                Alignment(call[t].opinion, Request(t).action, Reasons(t)))

\* The gate, evaluated on the server, refuses: the refusal is audited, and an
\* audit failure changes nothing about it.
GateRefuses(t) ==
    /\ Finish(t, "gate", RejectionCode(case, call[t].opinion, Level(t), AckOf(t), call[t].now))
    /\ ~Permits(t)
    /\ \/ audit' = audit \cup {<<"human_decision_rejected", t>>}
       \/ "human_decision_rejected" \in AuditFails /\ audit' = audit
    /\ UNCHANGED <<case, opinion, day, revising, acks, sent, rows, backlog>>

ReasonRefuses(t) ==
    /\ Finish(t, "gate", ReasonCheck(t))
    /\ Permits(t)
    /\ ReasonCheck(t) # "OK"
    /\ UNCHANGED <<case, opinion, day, revising, store>>

\* "fresh" is auxiliary: whether the opinion was fresh when the gate looked.
GatePasses(t) ==
    /\ Goto(t, "gate", "audit")
    /\ Permits(t)
    /\ ReasonCheck(t) = "OK"
    /\ LET o == call[t].opinion  now == call[t].now IN
       verdict' = [verdict EXCEPT ![t] =
           [state      |-> ReportedState(case, o, now),
            postReview |-> PostReviewRequired(case, o, now),
            fresh      |-> IsFresh(case, o, now),
            alignment  |-> Alignment(o, Request(t).action, Reasons(t)),
            hash       |-> ReportedHash(case, o, now)]]
    /\ UNCHANGED <<case, opinion, day, revising, store, call, step, draft, answer>>

WriteAudit(t) ==
    /\ Goto(t, "audit", "notify")
    /\ audit' = audit \cup {<<"human_decision_submitted", t>>}
    /\ UNCHANGED <<case, opinion, day, revising, acks, sent, rows, backlog, local, answer>>

AuditWriteFails(t) ==
    /\ "human_decision_submitted" \in AuditFails
    /\ Finish(t, "audit", "AUDIT_WRITE_FAILED")
    /\ Block
    /\ UNCHANGED <<opinion, day, revising, store>>

\* One turn of the loop over the notifications, in order.
Notify(t) ==
    /\ pc[t] = "notify"
    /\ step[t] \in DOMAIN Triggered(t)
    /\ step' = [step EXCEPT ![t] = @ + 1]
    /\ sent' = sent \cup {<<t, Triggered(t)[step[t]]>>}
    /\ UNCHANGED <<case, opinion, day, revising, acks, audit, rows, backlog, pc,
                   call, verdict, draft, answer>>

\* Fault: a failed digest makes the loop start over.
DigestRestarts(t) ==
    /\ pc[t] = "notify"
    /\ step[t] \in DOMAIN Triggered(t)
    /\ Triggered(t)[step[t]] \in FailTriggers \ MandatoryTriggers
    /\ step' = [step EXCEPT ![t] = 1]
    /\ UNCHANGED <<case, opinion, day, revising, store, pc, call, verdict, draft, answer>>

\* A digest that cannot be sent does not stop the decision ...
DigestFails(t) ==
    /\ pc[t] = "notify"
    /\ step[t] \in DOMAIN Triggered(t)
    /\ Triggered(t)[step[t]] \in FailTriggers \ MandatoryTriggers
    /\ step' = [step EXCEPT ![t] = @ + 1]
    /\ UNCHANGED <<case, opinion, day, revising, store, pc, call, verdict, draft, answer>>

\* Fault: the failure of a mandatory notification is swallowed.
MandatorySwallowed(t) ==
    /\ pc[t] = "notify"
    /\ step[t] \in DOMAIN Triggered(t)
    /\ Triggered(t)[step[t]] \in FailTriggers \cap MandatoryTriggers
    /\ step' = [step EXCEPT ![t] = @ + 1]
    /\ UNCHANGED <<case, opinion, day, revising, store, pc, call, verdict, draft, answer>>

\* ... a mandatory notification does.
MandatoryFails(t) ==
    /\ Finish(t, "notify", "NOTIFICATION_FAILED")
    /\ step[t] \in DOMAIN Triggered(t)
    /\ Triggered(t)[step[t]] \in FailTriggers \cap MandatoryTriggers
    /\ Block
    /\ UNCHANGED <<opinion, day, revising, store>>

\* After the last one the Decision is built from the fields the shared Case
\* has by now, and sealed ...
Seal(t) ==
    /\ Goto(t, "notify", "insert")
    /\ step[t] \notin DOMAIN Triggered(t)
    /\ Request(t).decided
    /\ draft' = [draft EXCEPT ![t] = case.revision]
    /\ UNCHANGED <<case, opinion, day, revising, store, call, verdict, step, answer>>

\* ... but compute_integrity_seal refuses a payload without human_decision.
SealFails(t) ==
    /\ Finish(t, "notify", "SEAL_PAYLOAD_ERROR")
    /\ step[t] \notin DOMAIN Triggered(t)
    /\ ~Request(t).decided
    /\ UNCHANGED <<case, opinion, day, revising, store>>

Row(t) == [id        |-> t,
           actor     |-> Request(t).actor,
           key       |-> Request(t).key,
           action    |-> Request(t).action,
           reason    |-> Request(t).reason,
           revision  |-> draft[t],
           opinion   |-> call[t].opinion,
           alignment |-> verdict[t].alignment,
           hash      |-> verdict[t].hash,
           postReview |-> verdict[t].postReview,
           fresh     |-> verdict[t].fresh]

HasTerminal(revision) ==
    \E r \in rows : r.action \in TerminalActions /\ r.revision = revision

\* Fault: the unique key includes the action.
ConflictsOnAction(t) ==
    /\ Request(t).action \in TerminalActions
    /\ \E r \in rows : r.action = Request(t).action /\ r.revision = draft[t]

Conflicts(t) == Request(t).action \in TerminalActions /\ HasTerminal(draft[t])

\* insert() and the state transition, in one critical section of decisions.lock
Insert(t) ==
    /\ Goto(t, "insert", "feedback")
    /\ ~Conflicts(t)
    /\ rows' = rows \cup {Row(t)}
    /\ case' = [case EXCEPT !.state = NextState(Request(t).action, verdict[t].state,
                                               verdict[t].postReview)]
    /\ UNCHANGED <<opinion, day, revising, acks, audit, sent, backlog, local, answer>>

\* Fault: the conflict is taken for a success.
ConflictReported201(t) ==
    /\ Finish(t, "insert", "201 CREATED")
    /\ Conflicts(t)
    /\ UNCHANGED <<case, opinion, day, revising, store>>

InsertConflicts(t) ==
    /\ Finish(t, "insert", "CONFLICT_TERMINAL_DECISION")
    /\ Conflicts(t)
    /\ UNCHANGED <<case, opinion, day, revising, store>>

\* The model risk backlog is fed whatever the alignment is.
Feedback(t) ==
    /\ Finish(t, "feedback", "201 CREATED")
    /\ backlog' = IF Request(t).reason \in FeedbackCodes THEN backlog \cup {t} ELSE backlog
    /\ UNCHANGED <<case, opinion, day, revising, acks, audit, sent, rows>>

Submit(t) ==
    \/ Begin(t) \/ Replay(t)
    \/ GateRefuses(t) \/ ReasonRefuses(t) \/ GatePasses(t)
    \/ WriteAudit(t) \/ AuditWriteFails(t)
    \/ Notify(t) \/ DigestFails(t) \/ MandatoryFails(t)
    \/ Seal(t) \/ SealFails(t)
    \/ Insert(t) \/ InsertConflicts(t)
    \/ Feedback(t)

----------------------------------------------------------------------------
\* acknowledge and apply_case_revision

\* A warning hash that is not the expected one raises STALE_WARNING_SET and
\* changes nothing, so only the matching case is an action. Neither the status
\* nor the freshness of the opinion is looked at; who acknowledges is stored,
\* but nothing that submit() does depends on it.
Acknowledge ==
    /\ opinion # NoOpinion
    /\ Len(acks) < MaxAcks
    /\ acks' = Append(acks, [version |-> opinion.version,
                             hash |-> WarningHash(case, opinion), active |-> TRUE])
    /\ UNCHANGED <<case, opinion, day, revising, audit, sent, rows, backlog, pc, local, answer>>

\* The three statements of apply_case_revision; no lock is held.
ReviseCase ==
    /\ revising = "idle"
    /\ case.revision < MaxRevision
    /\ case' = [case EXCEPT !.revision = @ + 1]
    /\ revising' = "hash"
    /\ UNCHANGED <<opinion, day, store, pc, local, answer>>

ReviseSource ==
    /\ revising = "hash"
    /\ case' = [case EXCEPT !.source = @ + 1]
    /\ revising' = "supersede"
    /\ UNCHANGED <<opinion, day, store, pc, local, answer>>

SupersedeAcks ==
    /\ revising = "supersede"
    /\ acks' = [i \in DOMAIN acks |-> [acks[i] EXCEPT !.active = FALSE]]
    /\ revising' = "idle"
    /\ UNCHANGED <<case, opinion, day, audit, sent, rows, backlog, pc, local, answer>>

----------------------------------------------------------------------------
\* The caller

\* The pipeline issues the next opinion on the case as it is now.
IssueOpinion ==
    /\ opinion.version < MaxVersion
    /\ \E k \in OpinionKinds :
        opinion' = [version |-> opinion.version + 1, revision |-> case.revision,
                    source |-> case.source, rules |-> case.rules, issued |-> day,
                    decision |-> k.decision, status |-> k.status,
                    block |-> k.block, complete |-> k.complete]
    /\ UNCHANGED <<case, day, revising, store, pc, local, answer>>

\* A new policy snapshot or ruleset applies to the case.
ChangeRules ==
    /\ case.rules < MaxRules
    /\ case' = [case EXCEPT !.rules = @ + 1]
    /\ UNCHANGED <<opinion, day, revising, store, pc, local, answer>>

SwitchAi ==
    /\ AiFails
    /\ case' = [case EXCEPT !.ai = IF @ = "AVAILABLE" THEN "UNAVAILABLE" ELSE "AVAILABLE"]
    /\ UNCHANGED <<opinion, day, revising, store, pc, local, answer>>

FlagEvidence ==
    /\ DataFlagged
    /\ case' = [case EXCEPT !.evidence = ~@]
    /\ UNCHANGED <<opinion, day, revising, store, pc, local, answer>>

NextDay ==
    /\ day < MaxDay
    /\ day' = day + 1
    /\ UNCHANGED <<case, opinion, revising, store, pc, local, answer>>

Caller == IssueOpinion \/ ChangeRules \/ SwitchAi \/ FlagEvidence \/ NextDay

Revise == ReviseCase \/ ReviseSource \/ SupersedeAcks

Next ==
    \/ \E t \in Threads : Submit(t)
    \/ Acknowledge
    \/ Revise
    \/ Caller

\* A call of submit runs to its end: nothing in it waits for another call
\* except for the short critical section of decisions.lock.
InFlight(t) == pc[t] \notin {"idle", "done"}
Fairness == \A t \in Threads : WF_vars(InFlight(t) /\ Submit(t))

Spec == Init /\ [][Next]_vars
FairSpec == Spec /\ Fairness

\* The same service behind callers that serialise everything: a submit or a
\* revision runs alone from its first step to its last.
Running == {t \in Threads : InFlight(t)}

SerialNext ==
    \/ /\ revising = "idle"
       /\ \E t \in Threads : Running \subseteq {t} /\ Submit(t)
    \/ Running = {} /\ Revise
    \/ Running = {} /\ revising = "idle" /\ (Caller \/ Acknowledge)

SerialSpec == Init /\ [][SerialNext]_vars /\ Fairness

----------------------------------------------------------------------------
\* Properties

\* The Case and what surrounds it have their types,
CaseTypeOK ==
    /\ case \in Case
    /\ opinion \in Opinion
    /\ day \in Nat
    /\ revising \in {"idle", "hash", "supersede"}

RowType == [id: Threads, actor: Actors \cup {""}, key: Keys \cup {""},
            action: Actions, reason: Codes \cup {""}, revision: Nat, opinion: Opinion, alignment: Alignments, hash: Nat \X Nat,
            postReview: BOOLEAN, fresh: BOOLEAN]

\* so have the stores,
StoreTypeOK ==
    /\ acks \in Seq(Ack)
    /\ audit \subseteq AuditEvents \X Threads
    /\ sent \subseteq Threads \X Triggers
    /\ rows \subseteq RowType
    /\ backlog \subseteq Threads

CallType    == [request: Requests \cup {NoRequest}, opinion: Opinion, ack: Nat, now: Nat]
VerdictType == [state: ControlStates, postReview: BOOLEAN, fresh: BOOLEAN,
                alignment: Alignments, hash: Nat \X Nat]

\* and so have the locals of every call.
CallTypeOK ==
    /\ pc \in [Threads -> PCs]
    /\ call \in [Threads -> CallType]
    /\ verdict \in [Threads -> VerdictType]
    /\ step \in [Threads -> Nat \ {0}]
    /\ draft \in [Threads -> Nat]
    /\ answer \in [Threads -> Answers]

TypeOK == CaseTypeOK /\ StoreTypeOK /\ CallTypeOK

\* What a decision owes before it may be recorded.
Owed(action, alignment, postReview) ==
    LET due == Notifications(alignment, action, postReview)
    IN  {due[i] : i \in DOMAIN due} \cap MandatoryTriggers

Submitted == {t \in Threads : <<"human_decision_submitted", t>> \in audit}

Entry(r) == [id |-> r.id, revision |-> r.revision,
             terminal |-> r.action \in TerminalActions,
             owed |-> Owed(r.action, r.alignment, r.postReview)]

Entries == {Entry(r) : r \in rows}

\* The service keeps the promise of the ledger: audit, then the mandatory
\* notifications, then the row, and never a second terminal row for a
\* revision, in every interleaving of submits, revisions and failures.
Ledger == INSTANCE DecisionLedger WITH
    Ids <- Threads,
    Names <- Triggers,
    Revisions <- 0..MaxRevision,
    audited <- Submitted,
    delivered <- sent,
    ledger <- Entries

KeepsLedger == Ledger!Spec

\* AC16: two people cannot both decide one revision of the case, although
\* submit() looks for an earlier decision only through the gate, long before
\* it inserts its own.
OneDecisionPerRevision ==
    \A r, s \in rows :
        (r.action \in TerminalActions /\ s.action \in TerminalActions
           /\ r.revision = s.revision) => r = s

Favourable(o) ==
    /\ o.status = "VALIDATED" /\ o.decision \notin NegativeDecisions
    /\ o.block = "none" /\ o.complete

\* AC20: no path leads from a negative or blocked opinion to SIGNED. A case
\* stands at SIGNED only through a concurring signature on a favourable
\* opinion whose warnings were acknowledged. Signing without that is possible
\* only while the AI is unavailable, is marked for post review, and never
\* passes over a hard block that is still fresh.
SignedOnlyIfFavourable ==
    /\ case.state = "SIGNED" =>
         \E r \in rows : /\ r.action = "SIGN" /\ ~r.postReview
                        /\ Favourable(r.opinion) /\ r.hash # NoHash
    /\ \A r \in rows : (r.action = "SIGN" /\ ~Favourable(r.opinion)) =>
         /\ r.postReview
         /\ r.opinion.block # "none" => ~r.fresh

\* Section 8.2: a signature against a hard block is an exception only a holder
\* of exception authority can make, with a reason code of the loosening
\* direction, and CRO and internal audit have been told before it is recorded;
\* a sanctions block cannot be excepted at all. Any other signature needs the
\* authority the case requires.
ExceptionsAuthorised ==
    \A r \in rows : r.action \in SigningActions =>
        /\ Authority[r.actor] >= Required
        /\ r.action = "SIGN_WITH_DIVERGENCE" =>
             /\ r.opinion.block # "non_overridable"
             /\ r.reason \in ReasonCodes \ TightenCodes
             /\ r.opinion.block = "overridable" =>
                  /\ Authority[r.actor] >= HardBlockMinAuthority
                  /\ r.alignment = "AUTHORIZED_EXCEPTION"
                  /\ {<<r.id, "DIVERGENCE_ON_HARD_BLOCK">>,
                      <<r.id, "DIVERGENCE_ON_HARD_BLOCK_AUDIT">>} \subseteq sent

\* AC10, AC11 and the answers of section 9.3: the client is told 201 exactly
\* when its decision is recorded and its model risk feedback is in the
\* backlog; every error means that nothing was recorded under this call, even
\* when its audit entry or its notifications are already out.
AnswersTellTheTruth ==
    \A t \in Threads : pc[t] = "done" =>
        /\ answer[t] = "201 CREATED" <=> \E r \in rows : r.id = t
        /\ \A r \in rows : (r.id = t /\ r.reason \in FeedbackCodes) => t \in backlog
        /\ t \in backlog => answer[t] = "201 CREATED"

\* A request to look at the case is told that its audit entry cannot be written.
UnauditedView ==
    \E t \in Threads : /\ InFlight(t) /\ Request(t).action = "VIEW"
                       /\ pc'[t] = "done" /\ answer'[t] = "AUDIT_WRITE_FAILED"

\* A closed case keeps the state it was closed in, for callers that wait for
\* each other, until a request to look at it is told AUDIT_WRITE_FAILED, which
\* blocks the case: no signature, rejection or withdrawal, no failed
\* notification and no retry ever does. Of overlapping calls this is not so,
\* they decide on a state they have read before the case was closed.
ClosedUnlessUnaudited ==
    [][case.state \in TerminalStates =>
         case'.state = case.state \/ (case'.state = "BLOCKED" /\ UnauditedView)]_vars

\* AC15: one idempotency key of an actor stands for one row.
OneRowPerKey ==
    \A r, s \in rows : (r.actor = s.actor /\ r.key = s.key) => r = s

\* AC4: after the revision of the case has changed, nothing is signed on the
\* acknowledgement of an earlier one: the warnings a signature rests on are
\* those of the revision it is recorded for.
SignedOnCurrentRevision ==
    \A r \in rows : (r.action \in SigningActions /\ ~r.postReview) =>
        /\ r.hash = <<r.revision, r.opinion.version>>
        /\ r.opinion.revision = r.revision

\* Section 2.2 of docs/06: whoever lacks the authority the case asks for takes
\* no terminal action, a rejection no more than a signature, unless there is
\* no valid and fresh opinion to take it on: then anybody may reject, which is
\* more than the document allows.
DecidedWithAuthority ==
    \A r \in rows : (r.action \in TerminalActions /\ Authority[r.actor] < Required) =>
        /\ r.action = "REJECT"
        /\ r.opinion.status # "VALIDATED" \/ ~r.fresh

\* Every call of submit is answered, and no path leaves it waiting.
Answered == \A t \in Threads : InFlight(t) ~> pc[t] = "done"
============================================================================
