------------------------- MODULE DecisionRowsProofs -------------------------
(***************************************************************************)
(* What a recorded decision says about itself, and what the client was     *)
(* told: proofs about DecisionService for any number of overlapping calls. *)
(***************************************************************************)
EXTENDS DecisionServiceProofs

----------------------------------------------------------------------------
\* What the gate vouches for

\* What is true of a request q on opinion o that the gate and the reason
\* check have let through with verdict v, whatever becomes of the case later.
\* A row has the fields of all three.
Vouched(q, o, v) ==
    /\ q.actor \in Actors
    /\ q.action = "SIGN" =>
         \/ Favourable(o) /\ v.hash # NoHash /\ ~v.postReview
         \/ v.postReview /\ (o.block # "none" => ~v.fresh)
    /\ q.action \in SigningActions => Authority[q.actor] >= Required
    /\ q.action = "SIGN_WITH_DIVERGENCE" =>
         /\ o.block # "non_overridable"
         /\ q.reason \in ReasonCodes \ TightenCodes
         /\ o.block = "overridable" => /\ Authority[q.actor] >= HardBlockMinAuthority
                                       /\ v.alignment = "AUTHORIZED_EXCEPTION"
    /\ (q.action \in TerminalActions /\ Authority[q.actor] < Required) =>
         /\ q.action = "REJECT"
         /\ o.status # "VALIDATED" \/ ~v.fresh

\* The gate and the reason check together: what evaluate() allows and
\* _validate_reason lets pass.
LEMMA GateVouches ==
    ASSUME NEW c \in Case, c.required = Required, c.revision >= 1,
           NEW o \in Opinion, NEW q, q.actor \in Actors, q.action \in Actions,
           NEW ack, NEW now, NEW v,
           q.action \in Allowed(c, o, Authority[q.actor], ack, now),
           v.alignment = Alignment(o, q.action, BlockedReasons(c, o, Authority[q.actor], now)),
           ReasonVerdict(o, q, Authority[q.actor], v.alignment) = "OK",
           v.postReview = PostReviewRequired(c, o, now),
           v.fresh = IsFresh(c, o, now),
           v.hash = ReportedHash(c, o, now)
    PROVE  Vouched(q, o, v)
<1> DEFINE level == Authority[q.actor]
           stage == Stage(c, o, now)
<1>1. /\ level \in Int /\ Required \in Int
      /\ o.block \in Blocks /\ o.decision \in Decisions /\ c.revision \in Nat /\ c.revision >= 1
  BY ServiceAssumptions DEF AuthorityLevels, RM, CreditOfficer, BranchDirector, CreditAuthority,
       CRO, Opinion, Case
<1>2. stage \in {"CASE_CLOSED", "AI_UNAVAILABLE", "NO_VALID_OPINION", "STALE_OPINION",
                 "EVIDENCE_REVIEW_REQUIRED", "IN_FORCE"}
  BY DEF Stage
<1>3. /\ q.action \in Offered(c, o, level, now)
      /\ (q.action \in TerminalActions /\ stage \in {"AI_UNAVAILABLE", "IN_FORCE"})
            => level >= Required
  BY DEF Allowed, AuthorityOk
<1>4. stage = "IN_FORCE" => o.status = "VALIDATED" /\ IsFresh(c, o, now)
  BY DEF Stage
<1>5. stage \in {"NO_VALID_OPINION", "STALE_OPINION"} => o.status # "VALIDATED" \/ ~IsFresh(c, o, now)
  BY DEF Stage
<1>6. CASE stage = "CASE_CLOSED"
  <2>1. q.action = "VIEW"
    BY <1>3, <1>6 DEF Offered
  <2> QED BY <2>1 DEF Vouched, SigningActions, TerminalActions
<1>7. CASE stage = "AI_UNAVAILABLE"
  <2>1. q.action \in OpenActions \cup {"REANALYZE", "REJECT", "SIGN"}
    BY <1>3, <1>7 DEF Offered
  <2>2. q.action = "SIGN" => ~(o.block # "none" /\ IsFresh(c, o, now))
    BY <1>3, <1>7 DEF Offered, OpenActions
  <2>3. v.postReview
    BY <1>7 DEF PostReviewRequired
  <2>4. q.action \in TerminalActions => level >= Required
    BY <1>3, <1>7
  <2> QED
    BY <1>1, <2>1, <2>2, <2>3, <2>4 DEF Vouched, SigningActions, TerminalActions, OpenActions
<1>8. CASE stage \in {"NO_VALID_OPINION", "STALE_OPINION"}
  <2>1. q.action \in OpenActions \cup {"REANALYZE", "REJECT"}
    BY <1>3, <1>8 DEF Offered
  <2> QED
    BY <1>5, <1>8, <2>1 DEF Vouched, SigningActions, TerminalActions, OpenActions
<1>9. CASE stage = "EVIDENCE_REVIEW_REQUIRED"
  <2>1. q.action \in OpenActions \cup {"REANALYZE"}
    BY <1>3, <1>9 DEF Offered
  <2> QED BY <2>1 DEF Vouched, SigningActions, TerminalActions, OpenActions
<1>10. CASE stage = "IN_FORCE"
  <2>1. q.action \in OpenActions \cup {"REANALYZE"} \cup OpinionOffers(o, level)
    BY <1>3, <1>10 DEF Offered
  <2>2. q.action \in TerminalActions => level >= Required
    BY <1>3, <1>10
  <2>3. v.hash # NoHash /\ ~v.postReview
    <3>1. v.hash = <<c.revision, o.version>> /\ ~v.postReview
      BY <1>10 DEF ReportedHash, WarningHash, PostReviewRequired
    <3>2. <<c.revision, o.version>>[1] # NoHash[1]
      BY <1>1 DEF NoHash
    <3> QED BY <3>1, <3>2
  <2>4. q.action = "SIGN" => Favourable(o)
    BY <1>1, <1>4, <1>10, <2>1 DEF OpinionOffers, OpenActions, Favourable, Blocks
  <2>5. ASSUME q.action = "SIGN_WITH_DIVERGENCE"
        PROVE  /\ o.block # "non_overridable"
               /\ o.block = "overridable" => level >= HardBlockMinAuthority
    BY <2>1, <2>5 DEF OpinionOffers, OpenActions
  <2>6. ASSUME q.action = "SIGN_WITH_DIVERGENCE"
        PROVE  /\ v.alignment \in {"AUTHORIZED_EXCEPTION", "DIVERGENT"}
               /\ o.block = "overridable" => v.alignment = "AUTHORIZED_EXCEPTION"
    BY <1>4, <1>10, <2>6 DEF Alignment, BlockedReasons
  <2>7. ASSUME q.action = "SIGN_WITH_DIVERGENCE"
        PROVE  q.reason \in ReasonCodes \ TightenCodes
    BY <2>6, <2>7 DEF ReasonVerdict, SigningActions
  <2> QED
    BY <1>1, <2>1, <2>2, <2>3, <2>4, <2>5, <2>6, <2>7
    DEF Vouched, SigningActions, TerminalActions, OpenActions
<1> QED BY <1>2, <1>6, <1>7, <1>8, <1>9, <1>10

----------------------------------------------------------------------------
\* What the steps of submit do to rows, answers and the state of the case

\* The steps of a call that has passed the gate and not yet inserted.
Decided == {"audit", "notify", "insert"}

Returns(t) ==
    /\ pc[t] \notin {"feedback", "done"} /\ pc'[t] = "done"
    /\ answer'[t] # "201 CREATED"
    /\ rows' = rows /\ backlog' = backlog
    /\ case'.state \in {case.state, "BLOCKED"}

Begins(t) ==
    /\ pc[t] = "idle" /\ pc'[t] = "gate"
    /\ call'[t].request \in Requests /\ call'[t].opinion = opinion
    /\ rows' = rows /\ backlog' = backlog /\ case' = case /\ answer' = answer

Advances(t) ==
    /\ pc[t] \in Decided /\ pc'[t] \in Decided
    /\ call' = call /\ verdict' = verdict
    /\ rows' = rows /\ backlog' = backlog /\ case' = case /\ answer' = answer

Inserts(t) ==
    /\ pc[t] = "insert" /\ pc'[t] = "feedback"
    /\ call' = call
    /\ rows' = rows \cup {Row(t)} /\ backlog' = backlog /\ answer' = answer
    /\ case'.state = NextState(Request(t).action, verdict[t].state, verdict[t].postReview)

FeedsBack(t) ==
    /\ pc[t] = "feedback" /\ pc'[t] = "done"
    /\ answer'[t] = "201 CREATED"
    /\ backlog' = IF Request(t).reason \in FeedbackCodes THEN backlog \cup {t} ELSE backlog
    /\ rows' = rows /\ case' = case

\* Every step of submit is of one of these kinds, or the gate's own.
LEMMA SubmitKinds ==
    ASSUME TypeOK, NEW t \in Threads, Submit(t)
    PROVE  /\ \/ Returns(t) \/ Begins(t) \/ Advances(t) \/ Inserts(t) \/ FeedsBack(t)
              \/ /\ GatePasses(t) /\ pc[t] = "gate" /\ pc'[t] = "audit"
                 /\ call' = call /\ rows' = rows /\ backlog' = backlog /\ case' = case
                 /\ answer' = answer
           /\ \A u \in Threads \ {t} : answer'[u] = answer[u]
           /\ case'.required = case.required
<1>1. /\ pc \in [Threads -> PCs] /\ answer \in [Threads -> Answers]
      /\ call \in [Threads -> CallType] /\ verdict \in [Threads -> VerdictType]
      /\ case \in Case
  BY DEF TypeOK, CallTypeOK, CaseTypeOK
<1>2. ASSUME NEW from \in PCs \ {"feedback", "done"}, NEW code, code # "201 CREATED",
             Finish(t, from, code), rows' = rows, backlog' = backlog, case' = case \/ Block
      PROVE  Returns(t) /\ case'.required = case.required
                        /\ \A u \in Threads \ {t} : answer'[u] = answer[u]
  <2>1. pc[t] = from /\ pc'[t] = "done" /\ answer'[t] = code
        /\ \A u \in Threads \ {t} : answer'[u] = answer[u]
    BY <1>1, <1>2 DEF Finish, Goto
  <2>2. case'.state \in {case.state, "BLOCKED"} /\ case'.required = case.required
    BY <1>1, <1>2 DEF Block, Case
  <2> QED BY <1>2, <2>1, <2>2 DEF Returns
<1>3. \A c, o, level, ack, now : RejectionCode(c, o, level, ack, now) # "201 CREATED"
  BY DEF RejectionCode
<1>4. ReasonCheck(t) # "201 CREATED"
  BY DEF ReasonCheck, ReasonVerdict
<1>5. CASE Begin(t)
  <2> PICK q \in Requests, a \in 0..Len(acks) :
        /\ Goto(t, "idle", "gate")
        /\ call' = [call EXCEPT ![t] = [request |-> q, opinion |-> opinion,
                                        ack |-> a, now |-> day]]
        /\ UNCHANGED <<case, opinion, day, revising, store, verdict, step, draft, answer>>
    BY <1>5 DEF Begin
  <2> QED BY <1>1 DEF Begins, Goto, store
<1>6. CASE \/ Replay(t) \/ GateRefuses(t) \/ ReasonRefuses(t) \/ AuditWriteFails(t)
           \/ MandatoryFails(t) \/ SealFails(t) \/ InsertConflicts(t)
  BY <1>2, <1>3, <1>4, <1>6 DEF Replay, GateRefuses, ReasonRefuses, AuditWriteFails,
     MandatoryFails, SealFails, InsertConflicts, store, PCs
<1>7. CASE WriteAudit(t) \/ Notify(t) \/ DigestFails(t) \/ Seal(t)
  BY <1>1, <1>7 DEF WriteAudit, Notify, DigestFails, Seal, Goto, Advances, Decided, store, local
<1>8. CASE Insert(t)
  BY <1>1, <1>8 DEF Insert, Goto, Inserts, local, Case
<1>9. CASE Feedback(t)
  BY <1>1, <1>9 DEF Feedback, Finish, Goto, FeedsBack
<1>10. CASE GatePasses(t)
  BY <1>1, <1>10 DEF GatePasses, Goto, store
<1> QED BY <1>5, <1>6, <1>7, <1>8, <1>9, <1>10 DEF Submit

\* Outside submit the state of the case stays what it is, and so does who may
\* decide it; its revision never goes back.
LEMMA SurroundingsKeep ==
    ASSUME TypeOK, Acknowledge \/ Revise \/ Caller
    PROVE  /\ UNCHANGED <<rows, backlog, sent, pc, local, answer>>
           /\ case'.state = case.state /\ case'.required = case.required
           /\ case'.revision >= case.revision
<1>1. case \in Case /\ case.revision \in Nat
  BY DEF TypeOK, CaseTypeOK, Case
<1>2. CASE Acknowledge \/ SupersedeAcks \/ IssueOpinion \/ NextDay
  BY <1>1, <1>2 DEF Acknowledge, SupersedeAcks, IssueOpinion, NextDay, store
<1>3. CASE ReviseCase
  BY <1>1, <1>3 DEF ReviseCase, store, Case
<1>4. CASE ReviseSource \/ ChangeRules
  BY <1>1, <1>4 DEF ReviseSource, ChangeRules, store, Case
<1>5. CASE SwitchAi
  BY <1>1, <1>5 DEF SwitchAi, store, Case
<1>6. CASE FlagEvidence
  BY <1>1, <1>6 DEF FlagEvidence, store, Case
<1> QED BY <1>2, <1>3, <1>4, <1>5, <1>6 DEF Revise, Caller

----------------------------------------------------------------------------
\* The invariant

\* A signature that stands for the case being SIGNED.
Signature(r) == /\ r.action = "SIGN" /\ ~r.postReview
                /\ Favourable(r.opinion) /\ r.hash # NoHash

\* The case is never SIGNED without one, nor does a call that was told so
\* (a VIEW of a closed case stores the state it was told) outlive it.
SignedBySignature ==
    /\ case.state = "SIGNED" => \E r \in rows : Signature(r)
    /\ \A t \in Threads : (pc[t] \in Decided /\ verdict[t].state = "SIGNED")
                           => \E r \in rows : Signature(r)

CallsVouched ==
    \A t \in Threads :
        /\ pc[t] \in {"gate"} \cup Decided => Request(t) \in Requests
        /\ pc[t] \in Decided => Vouched(Request(t), call[t].opinion, verdict[t])

RowsVouched ==
    \A r \in rows :
        /\ Vouched(r, r.opinion, r)
        /\ r.alignment = "AUTHORIZED_EXCEPTION" =>
             {<<r.id, "DIVERGENCE_ON_HARD_BLOCK">>,
              <<r.id, "DIVERGENCE_ON_HARD_BLOCK_AUDIT">>} \subseteq sent

\* What an answer will say is decided by where the call is.
AnswersDue ==
    \A t \in Threads :
        /\ pc[t] # "done" => t \notin backlog
        /\ pc[t] = "feedback" => \E r \in rows : r.id = t
        /\ pc[t] = "feedback" => \A r \in rows : r.id = t => r.reason = Request(t).reason

RowsInv ==
    /\ case.required = Required /\ case.revision >= 1
    /\ CallsVouched /\ RowsVouched /\ SignedBySignature
    /\ AnswersDue /\ AnswersTellTheTruth

----------------------------------------------------------------------------
LEMMA RowsInit == Init => RowsInv
<1> SUFFICES ASSUME Init PROVE RowsInv
  OBVIOUS
<1>1. case.required = Required /\ case.revision >= 1 /\ case.state = "AI_REVIEW_REQUIRED"
  BY DEF Init
<1>2. rows = {} /\ backlog = {} /\ \A t \in Threads : pc[t] = "idle"
  BY DEF Init
<1> QED
  BY <1>1, <1>2 DEF RowsInv, CallsVouched, RowsVouched, SignedBySignature, Decided, AnswersDue,
     AnswersTellTheTruth

\* The verdict a call takes from the gate vouches for its request.
LEMMA GateStep ==
    ASSUME IInv, RowsInv, NEW t \in Threads, GatePasses(t)
    PROVE  /\ Vouched(Request(t), call[t].opinion, verdict'[t])
           /\ verdict'[t].state = "SIGNED" => case.state = "SIGNED"
<1> DEFINE o == call[t].opinion  q == Request(t)  now == call[t].now
<1>1. /\ pc[t] = "gate" /\ Permits(t) /\ ReasonCheck(t) = "OK"
      /\ verdict'[t] = [state      |-> ReportedState(case, o, now),
                        postReview |-> PostReviewRequired(case, o, now),
                        fresh      |-> IsFresh(case, o, now),
                        alignment  |-> Alignment(o, q.action, Reasons(t)),
                        hash       |-> ReportedHash(case, o, now)]
  BY DEF GatePasses, Goto, IInv, TypeOK, CallTypeOK
<1>2. q \in Requests /\ q.actor \in Actors /\ q.action \in Actions
  BY <1>1, ServiceAssumptions DEF RowsInv, CallsVouched
<1>3. case \in Case /\ o \in Opinion /\ case.required = Required /\ case.revision >= 1
  BY RequestType DEF IInv, TypeOK, CaseTypeOK, CallType, RowsInv
<1>4. /\ q.action \in Allowed(case, o, Authority[q.actor], AckOf(t), now)
      /\ verdict'[t].alignment = Alignment(o, q.action, BlockedReasons(case, o, Authority[q.actor], now))
      /\ ReasonVerdict(o, q, Authority[q.actor], verdict'[t].alignment) = "OK"
      /\ verdict'[t].postReview = PostReviewRequired(case, o, now)
      /\ verdict'[t].fresh = IsFresh(case, o, now)
      /\ verdict'[t].hash = ReportedHash(case, o, now)
  BY <1>1 DEF Permits, ReasonCheck, Level, Reasons
<1>5. Vouched(q, o, verdict'[t])
  <2> DEFINE v == verdict'[t]
  <2> HIDE DEF v
  <2> QED BY <1>2, <1>3, <1>4, GateVouches DEF v
<1>6. verdict'[t].state = "SIGNED" => case.state = "SIGNED"
  BY <1>1 DEF ReportedState, Stage
<1> QED BY <1>5, <1>6

\* What is appended to a sequence of two or more leaves its first two in place.
LEMMA AfterTwo ==
    ASSUME NEW S, NEW head \in Seq(S), NEW tail \in Seq(S), Len(head) >= 2
    PROVE  /\ head \o tail \in Seq(S) /\ Len(head \o tail) >= 2
           /\ (head \o tail)[1] = head[1] /\ (head \o tail)[2] = head[2]
<1>1. head \o tail \in Seq(S) /\ Len(head \o tail) = Len(head) + Len(tail)
  OBVIOUS
<1>2. Len(head) \in Nat /\ Len(tail) \in Nat
  OBVIOUS
<1>3. \A i \in 1 .. Len(head) : (head \o tail)[i] = head[i]
  OBVIOUS
<1> QED BY <1>1, <1>2, <1>3

\* An exception to a hard block owes two notices, which come first.
LEMMA ExceptionNotices ==
    ASSUME NEW action, NEW postReview
    PROVE  LET due == Notifications("AUTHORIZED_EXCEPTION", action, postReview) IN
           /\ {1, 2} \subseteq DOMAIN due
           /\ due[1] = "DIVERGENCE_ON_HARD_BLOCK" /\ due[2] = "DIVERGENCE_ON_HARD_BLOCK_AUDIT"
<1> DEFINE both == <<"DIVERGENCE_ON_HARD_BLOCK", "DIVERGENCE_ON_HARD_BLOCK_AUDIT">>
           escalation == IF action = "ESCALATE" THEN <<"ESCALATION_RAISED">> ELSE <<>>
           review == IF postReview THEN <<"POST_REVIEW_QUEUED">> ELSE <<>>
<1>1. Notifications("AUTHORIZED_EXCEPTION", action, postReview) = (both \o escalation) \o review
  BY DEF Notifications
<1>2. both \in Seq(Triggers) /\ Len(both) = 2
  BY DEF Triggers, MandatoryTriggers
<1>3. escalation \in Seq(Triggers)
  <2>1. <<"ESCALATION_RAISED">> \in Seq(Triggers) /\ <<>> \in Seq(Triggers)
    BY DEF Triggers, MandatoryTriggers
  <2> QED BY <2>1, Zenon
<1>4. review \in Seq(Triggers)
  <2>1. <<"POST_REVIEW_QUEUED">> \in Seq(Triggers) /\ <<>> \in Seq(Triggers)
    BY DEF Triggers
  <2> QED BY <2>1, Zenon
<1>5. both[1] = "DIVERGENCE_ON_HARD_BLOCK" /\ both[2] = "DIVERGENCE_ON_HARD_BLOCK_AUDIT"
  OBVIOUS
<1> HIDE DEF both, escalation, review
<1>6. /\ {1, 2} \subseteq DOMAIN ((both \o escalation) \o review)
      /\ ((both \o escalation) \o review)[1] = both[1]
      /\ ((both \o escalation) \o review)[2] = both[2]
  <2> DEFINE front == both \o escalation
  <2>1. /\ front \in Seq(Triggers) /\ Len(front) >= 2
        /\ front[1] = both[1] /\ front[2] = both[2]
    <3>1. Len(both) >= 2
      BY <1>2
    <3> QED BY <1>2, <1>3, <3>1, AfterTwo, Zenon
  <2> HIDE DEF front
  <2>2. /\ front \o review \in Seq(Triggers) /\ Len(front \o review) >= 2
        /\ (front \o review)[1] = front[1] /\ (front \o review)[2] = front[2]
    BY <2>1, <1>4, AfterTwo
  <2>3. {1, 2} \subseteq DOMAIN (front \o review)
    BY <2>2
  <2> QED BY <2>1, <2>2, <2>3 DEF front
<1> QED BY <1>1, <1>5, <1>6

\* The row a call inserts says what its call was vouched for.
LEMMA RowVouched ==
    ASSUME IInv, RowsInv, NEW t \in Threads, pc[t] = "insert"
    PROVE  /\ Vouched(Row(t), Row(t).opinion, Row(t))
           /\ Row(t).alignment = "AUTHORIZED_EXCEPTION" =>
                {<<Row(t).id, "DIVERGENCE_ON_HARD_BLOCK">>,
                 <<Row(t).id, "DIVERGENCE_ON_HARD_BLOCK_AUDIT">>} \subseteq sent
<1> DEFINE r == Row(t)
<1>1. /\ r.id = t /\ r.actor = Request(t).actor /\ r.action = Request(t).action
      /\ r.reason = Request(t).reason /\ r.opinion = call[t].opinion
      /\ r.alignment = verdict[t].alignment /\ r.hash = verdict[t].hash
      /\ r.postReview = verdict[t].postReview /\ r.fresh = verdict[t].fresh
  BY DEF Row
<1>2. Vouched(Request(t), call[t].opinion, verdict[t])
  BY DEF RowsInv, CallsVouched, Decided
<1>3. Vouched(r, r.opinion, r)
  <2> HIDE DEF r
  <2> QED BY <1>1, <1>2 DEF Vouched
<1>4. ASSUME r.alignment = "AUTHORIZED_EXCEPTION"
      PROVE  {<<t, "DIVERGENCE_ON_HARD_BLOCK">>, <<t, "DIVERGENCE_ON_HARD_BLOCK_AUDIT">>} \subseteq sent
  <2> DEFINE due == Notifications(verdict[t].alignment, Request(t).action, verdict[t].postReview)
  <2>1. due[1] = "DIVERGENCE_ON_HARD_BLOCK" /\ due[2] = "DIVERGENCE_ON_HARD_BLOCK_AUDIT"
        /\ {1, 2} \subseteq DOMAIN due
    BY <1>1, <1>4, ExceptionNotices
  <2>2. {"DIVERGENCE_ON_HARD_BLOCK", "DIVERGENCE_ON_HARD_BLOCK_AUDIT"}
            \subseteq Owed(Request(t).action, verdict[t].alignment, verdict[t].postReview)
    <3> HIDE DEF due
    <3>1. {due[i] : i \in DOMAIN due} \cap MandatoryTriggers
             = Owed(Request(t).action, verdict[t].alignment, verdict[t].postReview)
      BY DEF Owed, due
    <3> QED BY <2>1, <3>1 DEF MandatoryTriggers
  <2> QED BY <2>2, OwedSent
<1> QED BY <1>1, <1>3, <1>4

\* No step takes a notification back, and none touches another call.
LEMMA OthersKeep ==
    ASSUME IInv, NEW t \in Threads, Submit(t)
    PROVE  /\ sent \subseteq sent'
           /\ \A u \in Threads \ {t} : /\ pc'[u] = pc[u] /\ Request(u)' = Request(u)
                                       /\ call'[u] = call[u] /\ verdict'[u] = verdict[u]
                                       /\ answer'[u] = answer[u]
BY SubmitFrame, SubmitKinds DEF IInv, Request

\* The gate's part and everybody's vouchers
LEMMA CallsVouchedStep ==
    ASSUME IInv, RowsInv, NEW t \in Threads, Submit(t)
    PROVE  CallsVouched'
<1> DEFINE Good(u) == /\ pc[u] \in {"gate"} \cup Decided => Request(u) \in Requests
                      /\ pc[u] \in Decided => Vouched(Request(u), call[u].opinion, verdict[u])
<1>1. \A u \in Threads : Good(u)
  BY DEF RowsInv, CallsVouched
<1>2. \A u \in Threads \ {t} : Good(u)'
  BY <1>1, OthersKeep DEF Vouched
<1>3. CASE Returns(t) \/ FeedsBack(t) \/ Inserts(t)
  <2>1. Good(t)'
    BY <1>3 DEF Returns, FeedsBack, Inserts, Decided
  <2> QED BY <1>2, <2>1 DEF CallsVouched
<1>4. CASE Begins(t)
  <2>1. Good(t)'
    BY <1>4 DEF Begins, Decided, Request
  <2> QED BY <1>2, <2>1 DEF CallsVouched
<1>5. CASE Advances(t)
  <2>1. Good(t)'
    BY <1>1, <1>5 DEF Advances, Request, Vouched
  <2> QED BY <1>2, <2>1 DEF CallsVouched
<1>6. CASE GatePasses(t) /\ pc[t] = "gate" /\ call' = call
  <2>1. Vouched(Request(t), call[t].opinion, verdict'[t])
    BY <1>6, GateStep
  <2>2. Good(t)'
    BY <1>1, <1>6, <2>1 DEF Request, Vouched
  <2> QED BY <1>2, <2>2 DEF CallsVouched
<1> QED BY <1>3, <1>4, <1>5, <1>6, SubmitKinds DEF IInv

\* A row stays as good as it was inserted.
LEMMA RowsVouchedStep ==
    ASSUME IInv, RowsInv, NEW t \in Threads, Submit(t)
    PROVE  RowsVouched'
<1> DEFINE Good(r) == /\ Vouched(r, r.opinion, r)
                      /\ r.alignment = "AUTHORIZED_EXCEPTION" =>
                           {<<r.id, "DIVERGENCE_ON_HARD_BLOCK">>,
                            <<r.id, "DIVERGENCE_ON_HARD_BLOCK_AUDIT">>} \subseteq sent
<1>1. sent \subseteq sent'
  BY OthersKeep
<1>2. \A r \in rows : Good(r)
  BY DEF RowsInv, RowsVouched
<1>3. CASE rows' = rows
  BY <1>1, <1>2, <1>3 DEF RowsVouched
<1>4. CASE pc[t] = "insert" /\ rows' = rows \cup {Row(t)}
  <2>1. Good(Row(t))
    BY <1>4, RowVouched
  <2> HIDE DEF Good
  <2>2. \A r \in rows' : Good(r)
    BY <1>2, <1>4, <2>1
  <2> QED BY <1>1, <2>2 DEF RowsVouched, Good
<1> QED BY <1>3, <1>4, SubmitKinds DEF IInv, Returns, Begins, Advances, Inserts, FeedsBack

\* The case becomes SIGNED by a signature, or because a call puts back the
\* state it was told, which was by a signature then.
LEMMA SignedStep ==
    ASSUME IInv, RowsInv, NEW t \in Threads, Submit(t)
    PROVE  SignedBySignature'
<1> DEFINE Signed == \E r \in rows : Signature(r)
<1>1. Signed => Signed'
  BY SubmitKinds DEF IInv, Returns, Begins, Advances, Inserts, FeedsBack
<1>2. case.state = "SIGNED" => Signed
  BY DEF RowsInv, SignedBySignature
<1>3. \A u \in Threads : (pc[u] \in Decided /\ verdict[u].state = "SIGNED") => Signed
  BY DEF RowsInv, SignedBySignature
<1>4. case'.state = "SIGNED" => Signed'
  <2>1. CASE case'.state \in {case.state, "BLOCKED"}
    BY <1>1, <1>2, <2>1
  <2>2. CASE Inserts(t)
    <3> DEFINE q == Request(t)
    <3>1. /\ pc[t] = "insert" /\ rows' = rows \cup {Row(t)}
          /\ case'.state = NextState(q.action, verdict[t].state, verdict[t].postReview)
      BY <2>2 DEF Inserts
    <3>2. verdict[t].postReview \in BOOLEAN
      BY DEF IInv, TypeOK, CallTypeOK, VerdictType
    <3>3. ASSUME case'.state = "SIGNED"
          PROVE  \/ q.action = "SIGN" /\ ~verdict[t].postReview
                 \/ verdict[t].state = "SIGNED"
      BY <3>1, <3>2, <3>3 DEF NextState
    <3>4. ASSUME q.action = "SIGN", ~verdict[t].postReview
          PROVE  Signature(Row(t))
      <4>1. Vouched(q, call[t].opinion, verdict[t])
        BY <3>1 DEF RowsInv, CallsVouched, Decided
      <4>2. Favourable(call[t].opinion) /\ verdict[t].hash # NoHash
        BY <3>4, <4>1 DEF Vouched
      <4>3. /\ Row(t).action = q.action /\ Row(t).opinion = call[t].opinion
            /\ Row(t).hash = verdict[t].hash /\ Row(t).postReview = verdict[t].postReview
        BY DEF Row
      <4> QED BY <3>4, <4>2, <4>3 DEF Signature
    <3>5. (\E r \in rows' : Signature(r)) = Signed'
      OBVIOUS
    <3> QED BY <1>1, <1>3, <3>1, <3>3, <3>4, <3>5 DEF Decided
  <2>3. case'.state \in {case.state, "BLOCKED"} \/ Inserts(t)
    BY SubmitKinds DEF IInv, Returns, Begins, Advances, FeedsBack
  <2> QED BY <2>1, <2>2, <2>3
<1>5. ASSUME NEW u \in Threads, pc'[u] \in Decided, verdict'[u].state = "SIGNED"
      PROVE  Signed'
  <2>1. CASE u # t
    BY <1>1, <1>3, <1>5, <2>1, OthersKeep
  <2>2. CASE u = t /\ Advances(t)
    BY <1>1, <1>3, <1>5, <2>2 DEF Advances
  <2>3. CASE u = t /\ GatePasses(t)
    BY <1>1, <1>2, <1>5, <2>3, GateStep
  <2>4. u = t => Advances(t) \/ GatePasses(t)
    BY <1>5, SubmitKinds DEF IInv, Returns, Begins, Inserts, FeedsBack, Decided
  <2> QED BY <2>1, <2>2, <2>3, <2>4
<1> QED BY <1>4, <1>5 DEF SignedBySignature

\* What the client is told, now and later.
LEMMA AnswersStep ==
    ASSUME IInv, RowsInv, NEW t \in Threads, Submit(t)
    PROVE  AnswersDue' /\ AnswersTellTheTruth'
<1> DEFINE Due(u) == /\ pc[u] # "done" => u \notin backlog
                     /\ pc[u] = "feedback" => \E r \in rows : r.id = u
                     /\ pc[u] = "feedback" => \A r \in rows : r.id = u => r.reason = Request(u).reason
           Truth(u) == pc[u] = "done" =>
                     /\ answer[u] = "201 CREATED" <=> \E r \in rows : r.id = u
                     /\ \A r \in rows : (r.id = u /\ r.reason \in FeedbackCodes) => u \in backlog
                     /\ u \in backlog => answer[u] = "201 CREATED"
<1>1. \A u \in Threads : Due(u) /\ Truth(u)
  BY DEF RowsInv, AnswersDue, AnswersTellTheTruth
<1>2. /\ \A r \in rows : pc[r.id] \in {"feedback", "done"}
      /\ Row(t).id = t /\ Row(t).reason = Request(t).reason
  BY DEF IInv, RowsInserted, Row
<1>3. /\ rows' = rows \/ (rows' = rows \cup {Row(t)} /\ Inserts(t))
      /\ backlog' = backlog \/ (backlog' = backlog \cup {t} /\ FeedsBack(t))
  BY SubmitKinds DEF IInv, Returns, Begins, Advances, Inserts, FeedsBack
<1>4. \A u \in Threads \ {t} : Due(u)' /\ Truth(u)'
  <2> SUFFICES ASSUME NEW u \in Threads \ {t} PROVE Due(u)' /\ Truth(u)'
    OBVIOUS
  <2>1. pc'[u] = pc[u] /\ Request(u)' = Request(u) /\ answer'[u] = answer[u]
    BY OthersKeep
  <2>2. rows \subseteq rows' /\ \A r \in rows' : r.id = u => r \in rows
    BY <1>2, <1>3
  <2>3. u \in backlog' <=> u \in backlog
    BY <1>3
  <2>4. Due(u)'
    <3>1. pc'[u] # "done" => u \notin backlog'
      BY <1>1, <2>1, <2>3
    <3>2. pc'[u] = "feedback" => \E r \in rows' : r.id = u
      BY <1>1, <2>1, <2>2
    <3>3. ASSUME pc'[u] = "feedback", NEW r \in rows', r.id = u
          PROVE  r.reason = Request(u)'.reason
      <4>1. r.reason = Request(u).reason
        BY <1>1, <2>1, <2>2, <3>3
      <4> QED BY <2>1, <4>1
    <3> QED BY <3>1, <3>2, <3>3
  <2>5. Truth(u)'
    BY <1>1, <2>1, <2>2, <2>3
  <2> QED BY <2>4, <2>5
<1>5. CASE Returns(t)
  <2>1. /\ pc[t] \notin {"feedback", "done"} /\ pc'[t] = "done"
        /\ answer'[t] # "201 CREATED" /\ rows' = rows /\ backlog' = backlog
    BY <1>5 DEF Returns
  <2>2. t \notin backlog /\ \A r \in rows : r.id # t
    BY <1>1, <1>2, <2>1
  <2>3. Due(t)'
    BY <2>1
  <2>4. Truth(t)'
    BY <2>1, <2>2
  <2> QED BY <1>4, <2>3, <2>4 DEF AnswersDue, AnswersTellTheTruth
<1>6. CASE Begins(t) \/ Advances(t)
  BY <1>1, <1>4, <1>6 DEF Begins, Advances, Decided, AnswersDue, AnswersTellTheTruth
<1>7. CASE GatePasses(t) /\ pc[t] = "gate" /\ pc'[t] = "audit" /\ rows' = rows /\ backlog' = backlog
  BY <1>1, <1>4, <1>7 DEF AnswersDue, AnswersTellTheTruth
<1>8. CASE Inserts(t)
  <2>1. Due(t)' /\ Truth(t)'
    BY <1>1, <1>2, <1>8 DEF Inserts, Request
  <2> QED BY <1>4, <2>1 DEF AnswersDue, AnswersTellTheTruth
<1>9. CASE FeedsBack(t)
  <2>1. Due(t)' /\ Truth(t)'
    BY <1>1, <1>9 DEF FeedsBack
  <2> QED BY <1>4, <2>1 DEF AnswersDue, AnswersTellTheTruth
<1> QED BY <1>5, <1>6, <1>7, <1>8, <1>9, SubmitKinds DEF IInv

\* Every step keeps the invariant: a call's own, a revision, an acknowledgement
\* and whatever the caller does to the case meanwhile.
LEMMA RowsNext == IInv /\ RowsInv /\ [Next]_vars => RowsInv'
<1> SUFFICES ASSUME IInv, RowsInv, [Next]_vars PROVE RowsInv'
  OBVIOUS
<1>1. ASSUME NEW t \in Threads, Submit(t) PROVE RowsInv'
  <2>1. case'.required = case.required
    BY <1>1, SubmitKinds DEF IInv
  <2>2. case'.revision = case.revision
    BY <1>1, SubmitFrame DEF IInv
  <2>3. CallsVouched' /\ RowsVouched'
    BY <1>1, CallsVouchedStep, RowsVouchedStep
  <2>4. SignedBySignature'
    BY <1>1, SignedStep
  <2>5. AnswersDue' /\ AnswersTellTheTruth'
    BY <1>1, AnswersStep
  <2> QED BY <2>1, <2>2, <2>3, <2>4, <2>5 DEF RowsInv
<1>2. CASE Acknowledge \/ Revise \/ Caller
  <2>1. /\ UNCHANGED <<rows, backlog, sent, pc, local, answer>>
        /\ case'.state = case.state /\ case'.required = case.required
        /\ case'.revision >= case.revision
    BY <1>2, SurroundingsKeep DEF IInv
  <2>2. case.revision \in Nat /\ case'.revision \in Nat
    <3>1. TypeOK /\ TypeOK'
      BY TypeNext DEF IInv
    <3> QED BY <3>1 DEF TypeOK, CaseTypeOK, Case
  <2>3. case'.required = Required /\ case'.revision >= 1
    BY <2>1, <2>2 DEF RowsInv
  <2>4. CallsVouched' /\ RowsVouched' /\ SignedBySignature'
    BY <2>1 DEF RowsInv, CallsVouched, RowsVouched, SignedBySignature, Vouched, Signature, Request, local
  <2>5. AnswersDue' /\ AnswersTellTheTruth'
    BY <2>1 DEF RowsInv, AnswersDue, AnswersTellTheTruth, Request, local
  <2> QED BY <2>3, <2>4, <2>5 DEF RowsInv
<1>3. CASE UNCHANGED vars
  <2>1. case' = case /\ UNCHANGED <<rows, backlog, sent, pc, local, answer>>
    BY <1>3 DEF vars, store
  <2>2. CallsVouched' /\ RowsVouched' /\ SignedBySignature'
    BY <2>1 DEF RowsInv, CallsVouched, RowsVouched, SignedBySignature, Vouched, Signature, Request, local
  <2>3. AnswersDue' /\ AnswersTellTheTruth'
    BY <2>1 DEF RowsInv, AnswersDue, AnswersTellTheTruth, Request, local
  <2> QED BY <2>1, <2>2, <2>3 DEF RowsInv
<1> QED BY <1>1, <1>2, <1>3 DEF Next

\* Every recorded decision was vouched for by the gate when it looked, and every
\* answer is about to come true, in every interleaving of any number of calls.
THEOREM RowsCorrect == Spec => []RowsInv
<1>1. Init => RowsInv
  BY RowsInit
<1>2. IInv /\ RowsInv /\ [Next]_vars => RowsInv'
  BY RowsNext
<1> QED BY <1>1, <1>2, OrderOfSubmit, PTL DEF Spec

----------------------------------------------------------------------------
\* The properties

LEMMA RowsInvSigned == RowsInv => SignedOnlyIfFavourable
<1> SUFFICES ASSUME RowsInv PROVE SignedOnlyIfFavourable
  OBVIOUS
<1>1. case.state = "SIGNED" => \E r \in rows : Signature(r)
  BY DEF RowsInv, SignedBySignature
<1>2. \A r \in rows : (r.action = "SIGN" /\ ~Favourable(r.opinion)) =>
        r.postReview /\ (r.opinion.block # "none" => ~r.fresh)
  BY DEF RowsInv, RowsVouched, Vouched
<1> QED BY <1>1, <1>2 DEF SignedOnlyIfFavourable, Signature

LEMMA RowsInvExceptions == RowsInv => ExceptionsAuthorised
<1> SUFFICES ASSUME RowsInv, NEW r \in rows, r.action \in SigningActions
    PROVE  /\ Authority[r.actor] >= Required
           /\ r.action = "SIGN_WITH_DIVERGENCE" =>
                /\ r.opinion.block # "non_overridable"
                /\ r.reason \in ReasonCodes \ TightenCodes
                /\ r.opinion.block = "overridable" =>
                     /\ Authority[r.actor] >= HardBlockMinAuthority
                     /\ r.alignment = "AUTHORIZED_EXCEPTION"
                     /\ {<<r.id, "DIVERGENCE_ON_HARD_BLOCK">>,
                         <<r.id, "DIVERGENCE_ON_HARD_BLOCK_AUDIT">>} \subseteq sent
  BY DEF ExceptionsAuthorised
<1>1. /\ Vouched(r, r.opinion, r)
      /\ r.alignment = "AUTHORIZED_EXCEPTION" =>
           {<<r.id, "DIVERGENCE_ON_HARD_BLOCK">>,
            <<r.id, "DIVERGENCE_ON_HARD_BLOCK_AUDIT">>} \subseteq sent
  BY DEF RowsInv, RowsVouched
<1> QED BY <1>1 DEF Vouched

LEMMA RowsInvAuthority == RowsInv => DecidedWithAuthority
BY DEF RowsInv, RowsVouched, Vouched, DecidedWithAuthority

\* AC20: no path leads from a negative or blocked opinion to SIGNED. The state
\* needs the other calls too: one that was told SIGNED stores it again.
THEOREM NeverSignedAgainstTheOpinion == Spec => []SignedOnlyIfFavourable
BY RowsCorrect, RowsInvSigned, PTL

\* A signature against a hard block is made by a holder of exception authority,
\* for a loosening reason, and after CRO and internal audit have been told.
THEOREM ExceptionsAreAuthorised == Spec => []ExceptionsAuthorised
BY RowsCorrect, RowsInvExceptions, PTL

\* Whoever lacks the authority the case asks for takes no terminal action, but
\* for a rejection where there is no valid and fresh opinion.
THEOREM DecisionsHaveAuthority == Spec => []DecidedWithAuthority
BY RowsCorrect, RowsInvAuthority, PTL

\* 201 means recorded and fed back; every error means that nothing was.
THEOREM AnswersAreTrue == Spec => []AnswersTellTheTruth
<1>1. RowsInv => AnswersTellTheTruth
  BY DEF RowsInv
<1> QED BY <1>1, RowsCorrect, PTL
=============================================================================
