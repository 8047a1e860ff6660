------------------------ MODULE DecisionSerialProofs ------------------------
(***************************************************************************)
(* What DecisionService guarantees when its callers wait for each other:   *)
(* proofs about SerialSpec, for any number of calls and revisions.         *)
(***************************************************************************)
EXTENDS DecisionRowsProofs

----------------------------------------------------------------------------
\* The invariant

\* One call at a time, and none during a revision.
Alone ==
    /\ \A t, u \in Threads : InFlight(t) /\ InFlight(u) => t = u
    /\ \A t \in Threads : InFlight(t) => revising = "idle"

\* The key a call looked up is still new when it inserts its row,
KeyIsNew ==
    \A t \in Threads : pc[t] \in {"gate"} \cup Decided => ~Recorded(Request(t))

\* What the gate says of a request q on opinion o, for as long as nothing
\* happens to the case: a closed case is only read, without notices to anybody,
\* and a signature is for the revision its warnings are of.
Holding(q, o, v) ==
    /\ case.state \in TerminalStates =>
         /\ q.action = "VIEW" /\ v.state = case.state
         /\ v.alignment \in {"NO_AI_OPINION", "CONCURRENT"} /\ ~v.postReview
    /\ (q.action \in SigningActions /\ ~v.postReview) =>
         /\ v.hash = <<case.revision, o.version>>
         /\ o.revision = case.revision

\* and so is the verdict of the gate still true.
VerdictHolds ==
    \A t \in Threads : pc[t] \in Decided =>
        /\ Holding(Request(t), call[t].opinion, verdict[t])
        /\ pc[t] = "insert" => draft[t] = case.revision

SerialInv == Alone /\ KeyIsNew /\ VerdictHolds /\ OneRowPerKey /\ SignedOnCurrentRevision

----------------------------------------------------------------------------
\* Steps of a call

LEMMA SerialIsNext == [SerialNext]_vars => [Next]_vars
BY DEF SerialNext, Next

\* A call has to itself whatever it touches.
LEMMA SubmitAlone ==
    ASSUME IInv, Alone, revising = "idle", NEW t \in Threads, Running \subseteq {t}, Submit(t)
    PROVE  /\ Alone'
           /\ revising' = "idle"
           /\ \A u \in Threads \ {t} : pc'[u] \in {"idle", "done"}
<1>1. revising' = revising
  BY DEF Submit, Begin, Replay, GateRefuses, ReasonRefuses, GatePasses, WriteAudit,
       AuditWriteFails, Notify, DigestFails, MandatoryFails, Seal, SealFails, Insert,
       InsertConflicts, Feedback
<1>2. \A u \in Threads \ {t} : pc'[u] = pc[u] /\ ~InFlight(u)
  BY OthersKeep DEF Running
<1> QED BY <1>1, <1>2 DEF Alone, InFlight

\* The gate lets a closed case be read and no more, and a signature through
\* only on the warnings of the revision as it is.
LEMMA GateHolds ==
    ASSUME IInv, NEW t \in Threads, GatePasses(t), Request(t) \in Requests
    PROVE  Holding(Request(t), call[t].opinion, verdict'[t])
<1> DEFINE o == call[t].opinion  q == Request(t)  now == call[t].now  v == verdict'[t]
           stage == Stage(case, o, now)
<1>1. /\ v.state = ReportedState(case, o, now) /\ v.postReview = PostReviewRequired(case, o, now)
      /\ v.alignment = Alignment(o, q.action, Reasons(t)) /\ v.hash = ReportedHash(case, o, now)
  BY DEF GatePasses, IInv, TypeOK, CallTypeOK
<1>2. q.action \in Offered(case, o, Level(t), now)
  BY DEF GatePasses, Permits, Allowed
<1>3. stage = "CASE_CLOSED" <=> case.state \in TerminalStates
  BY DEF Stage
<1>4. ASSUME case.state \in TerminalStates
      PROVE  /\ q.action = "VIEW" /\ v.state = case.state
             /\ v.alignment \in {"NO_AI_OPINION", "CONCURRENT"} /\ ~v.postReview
  <2>1. q.action = "VIEW"
    BY <1>2, <1>3, <1>4 DEF Offered
  <2>2. v.state = case.state /\ ~v.postReview
    BY <1>1, <1>3, <1>4 DEF ReportedState, PostReviewRequired
  <2>3. v.alignment \in {"NO_AI_OPINION", "CONCURRENT"}
    BY <1>1, <2>1 DEF Alignment
  <2> QED BY <2>1, <2>2, <2>3
<1>5. ASSUME q.action \in SigningActions, ~v.postReview
      PROVE  v.hash = <<case.revision, o.version>> /\ o.revision = case.revision
  <2>1. stage # "AI_UNAVAILABLE"
    BY <1>1, <1>5 DEF PostReviewRequired
  <2>2. stage = "IN_FORCE"
    <3>1. stage \in {"CASE_CLOSED", "AI_UNAVAILABLE", "NO_VALID_OPINION", "STALE_OPINION",
                     "EVIDENCE_REVIEW_REQUIRED", "IN_FORCE"}
      BY DEF Stage
    <3>2. q.action \in {"SIGN", "SIGN_WITH_DIVERGENCE"}
      BY <1>5 DEF SigningActions
    <3> HIDE DEF stage
    <3> QED BY <1>2, <2>1, <3>1, <3>2 DEF Offered, OpenActions, stage
  <2>3. IsFresh(case, o, now)
    BY <2>2 DEF Stage
  <2> QED BY <1>1, <2>2, <2>3 DEF ReportedHash, WarningHash, IsFresh
<1> HIDE DEF v
<1> QED BY <1>4, <1>5 DEF Holding, v

\* A call that only reads the case tells nobody.
LEMMA NoNotices ==
    ASSUME NEW alignment \in {"NO_AI_OPINION", "CONCURRENT"}
    PROVE  Notifications(alignment, "VIEW", FALSE) = <<>>
BY DEF Notifications

LEMMA KeyIsNewStep ==
    ASSUME IInv, RowsInv, KeyIsNew, NEW t \in Threads, Submit(t),
           \A u \in Threads \ {t} : pc'[u] \in {"idle", "done"}
    PROVE  KeyIsNew'
<1> SUFFICES ASSUME pc'[t] \in {"gate"} \cup Decided PROVE ~Recorded(Request(t))'
  BY DEF KeyIsNew, Decided
<1>1. CASE Begin(t)
  <2>1. PICK q \in Requests, a \in 0..Len(acks) :
          /\ ~Recorded(q)
          /\ call' = [call EXCEPT ![t] = [request |-> q, opinion |-> opinion,
                                          ack |-> a, now |-> day]]
          /\ rows' = rows
    BY <1>1 DEF Begin, store
  <2>2. Request(t)' = q
    BY <2>1 DEF Request, IInv, TypeOK, CallTypeOK
  <2> QED BY <2>1, <2>2 DEF Recorded
<1>2. CASE Advances(t) \/ (GatePasses(t) /\ pc[t] = "gate" /\ call' = call /\ rows' = rows)
  <2>1. Request(t)' = Request(t) /\ rows' = rows /\ pc[t] \in {"gate"} \cup Decided
    BY <1>2 DEF Advances, Request
  <2> QED BY <2>1 DEF KeyIsNew, Recorded
<1>3. CASE Returns(t) \/ Inserts(t) \/ FeedsBack(t)
  BY <1>3 DEF Returns, Inserts, FeedsBack, Decided
<1>4. CASE Begins(t) /\ ~Begin(t)
  <2>1. pc[t] = "idle" /\ pc'[t] = "gate"
    BY <1>4 DEF Begins
  <2> QED
    BY <1>4, <2>1 DEF Submit, Replay, GateRefuses, ReasonRefuses, GatePasses, WriteAudit,
       AuditWriteFails, Notify, DigestFails, MandatoryFails, Seal, SealFails, Insert,
       InsertConflicts, Feedback, Finish, Goto, IInv, TypeOK, CallTypeOK
<1> QED BY <1>1, <1>2, <1>3, <1>4, SubmitKinds DEF IInv

LEMMA VerdictStep ==
    ASSUME IInv, RowsInv, VerdictHolds, NEW t \in Threads, Submit(t),
           \A u \in Threads \ {t} : pc'[u] \in {"idle", "done"}
    PROVE  VerdictHolds'
<1> SUFFICES ASSUME pc'[t] \in Decided
             PROVE  /\ Holding(Request(t), call[t].opinion, verdict[t])'
                    /\ pc'[t] = "insert" => draft'[t] = case'.revision
  BY DEF VerdictHolds, Decided
<1>1. CASE Advances(t)
  <2>1. Holding(Request(t), call[t].opinion, verdict[t])'
    BY <1>1 DEF Advances, VerdictHolds, Holding, Request
  <2>2. ASSUME pc'[t] = "insert" PROVE Seal(t)
    BY <1>1, <2>2 DEF Advances, Decided, IInv, TypeOK, CallTypeOK,
       Submit, Begin, Replay, GateRefuses, ReasonRefuses, GatePasses, WriteAudit,
       AuditWriteFails, Notify, DigestFails, MandatoryFails, SealFails, Insert,
       InsertConflicts, Feedback, Finish, Goto
  <2>3. Seal(t) => draft'[t] = case'.revision
    BY DEF Seal, IInv, TypeOK, CallTypeOK
  <2> QED BY <2>1, <2>2, <2>3
<1>2. CASE GatePasses(t) /\ pc[t] = "gate" /\ pc'[t] = "audit" /\ call' = call /\ case' = case
  <2>1. Holding(Request(t), call[t].opinion, verdict'[t])
    BY <1>2, GateHolds DEF RowsInv, CallsVouched
  <2> QED BY <1>2, <2>1 DEF Holding, Request
<1>3. CASE Returns(t) \/ Begins(t) \/ Inserts(t) \/ FeedsBack(t)
  BY <1>3 DEF Returns, Begins, Inserts, FeedsBack, Decided
<1> QED BY <1>1, <1>2, <1>3, SubmitKinds DEF IInv

LEMMA RecordStep ==
    ASSUME IInv, SerialInv, NEW t \in Threads, Submit(t)
    PROVE  OneRowPerKey' /\ SignedOnCurrentRevision'
<1>1. CASE rows' = rows
  BY <1>1 DEF SerialInv, OneRowPerKey, SignedOnCurrentRevision
<1>2. CASE pc[t] = "insert" /\ rows' = rows \cup {Row(t)}
  <2> DEFINE n == Row(t)
  <2>1. /\ n.actor = Request(t).actor /\ n.key = Request(t).key /\ n.action = Request(t).action
        /\ n.revision = draft[t] /\ n.opinion = call[t].opinion
        /\ n.hash = verdict[t].hash /\ n.postReview = verdict[t].postReview
    BY DEF Row
  <2>2. \A r \in rows : ~(r.actor = n.actor /\ r.key = n.key)
    BY <1>2, <2>1 DEF SerialInv, KeyIsNew, Decided, Recorded
  <2>3. (n.action \in SigningActions /\ ~n.postReview) =>
          n.hash = <<n.revision, n.opinion.version>> /\ n.opinion.revision = n.revision
    BY <1>2, <2>1 DEF SerialInv, VerdictHolds, Decided, Holding
  <2> HIDE DEF n
  <2>4. rows' = rows \cup {n}
    BY <1>2 DEF n
  <2>5. OneRowPerKey'
    BY <2>2, <2>4 DEF SerialInv, OneRowPerKey
  <2>6. SignedOnCurrentRevision'
    BY <2>3, <2>4 DEF SerialInv, SignedOnCurrentRevision
  <2> QED BY <2>5, <2>6
<1> QED BY <1>1, <1>2, RowsStep

LEMMA SerialInit == Init => SerialInv
BY DEF Init, SerialInv, Alone, InFlight, KeyIsNew, VerdictHolds, Decided, OneRowPerKey,
       SignedOnCurrentRevision

LEMMA SerialStep == IInv /\ RowsInv /\ SerialInv /\ [SerialNext]_vars => SerialInv'
<1> SUFFICES ASSUME IInv, RowsInv, SerialInv, [SerialNext]_vars PROVE SerialInv'
  OBVIOUS
<1>1. ASSUME NEW t \in Threads, revising = "idle", Running \subseteq {t}, Submit(t)
      PROVE  SerialInv'
  <2>1. Alone' /\ \A u \in Threads \ {t} : pc'[u] \in {"idle", "done"}
    BY <1>1, SubmitAlone DEF SerialInv
  <2>2. KeyIsNew'
    BY <1>1, <2>1, KeyIsNewStep DEF SerialInv
  <2>3. VerdictHolds'
    BY <1>1, <2>1, VerdictStep DEF SerialInv
  <2> QED BY <1>1, <2>1, <2>2, <2>3, RecordStep DEF SerialInv
<1>2. CASE Running = {} /\ (Revise \/ Caller \/ Acknowledge)
  <2>1. UNCHANGED <<pc, rows>>
    BY <1>2, SurroundingsKeep DEF IInv
  <2>2. \A t \in Threads : pc'[t] \in {"idle", "done"}
    BY <1>2, <2>1 DEF Running, InFlight
  <2> QED
    BY <2>1, <2>2 DEF SerialInv, Alone, InFlight, KeyIsNew, VerdictHolds, Decided, OneRowPerKey,
       SignedOnCurrentRevision
<1>3. CASE UNCHANGED vars
  <2>1. UNCHANGED <<case, revising, pc, rows, call, verdict, draft>>
    BY <1>3 DEF vars, store, local
  <2> QED
    BY <2>1 DEF SerialInv, Alone, InFlight, KeyIsNew, VerdictHolds, Holding, Decided, Recorded,
       Request, OneRowPerKey, SignedOnCurrentRevision
<1> QED BY <1>1, <1>2, <1>3 DEF SerialNext

----------------------------------------------------------------------------
\* The properties

\* Every behaviour of callers that wait is one of DecisionService.
LEMMA SerialRefines == SerialSpec => []IInv /\ []RowsInv
<1>1. Init /\ [][SerialNext]_vars => Spec
  BY SerialIsNext, PTL DEF Spec
<1> QED BY <1>1, OrderOfSubmit, RowsCorrect, PTL DEF SerialSpec

\* A call that runs alone finds at its insert step what the gate has seen.
THEOREM SerialCorrect == SerialSpec => []SerialInv
BY SerialInit, SerialStep, SerialRefines, PTL DEF SerialSpec

\* AC15: one idempotency key of an actor stands for one row, for callers that
\* wait for each other.
THEOREM KeysAreIdempotent == SerialSpec => []OneRowPerKey
<1>1. SerialInv => OneRowPerKey
  BY DEF SerialInv
<1> QED BY <1>1, SerialCorrect, PTL

\* AC4: a signature rests on the warnings of the revision it is recorded for,
\* for callers that wait for each other.
THEOREM SignaturesAreCurrent == SerialSpec => []SignedOnCurrentRevision
<1>1. SerialInv => SignedOnCurrentRevision
  BY DEF SerialInv
<1> QED BY <1>1, SerialCorrect, PTL

\* A closed case keeps its state through a step of submit, but for a request
\* to look at it that is told its audit entry cannot be written.
LEMMA ClosedStays ==
    ASSUME IInv, RowsInv, SerialInv, NEW t \in Threads, Submit(t), case.state \in TerminalStates
    PROVE  case'.state = case.state \/ (case'.state = "BLOCKED" /\ UnauditedView)
<1>1. pc[t] \in Decided => /\ Request(t) \in Requests /\ Request(t).action = "VIEW"
                           /\ verdict[t].state = case.state
                           /\ Triggered(t) = <<>>
  <2> SUFFICES ASSUME pc[t] \in Decided
               PROVE  /\ Request(t) \in Requests /\ Request(t).action = "VIEW"
                      /\ verdict[t].state = case.state /\ Triggered(t) = <<>>
    OBVIOUS
  <2>1. /\ Request(t) \in Requests /\ Request(t).action = "VIEW" /\ verdict[t].state = case.state
        /\ verdict[t].alignment \in {"NO_AI_OPINION", "CONCURRENT"}
        /\ verdict[t].postReview = FALSE
    BY DEF SerialInv, VerdictHolds, Holding, RowsInv, CallsVouched, IInv, TypeOK, CallTypeOK,
           VerdictType
  <2> QED BY <2>1, NoNotices DEF Triggered
<1>2. case' = case \/ AuditWriteFails(t) \/ MandatoryFails(t) \/ Insert(t)
  BY DEF Submit, Begin, Replay, GateRefuses, ReasonRefuses, GatePasses, WriteAudit, Notify,
       DigestFails, Seal, SealFails, InsertConflicts, Feedback
<1>3. CASE AuditWriteFails(t)
  <2>1. /\ pc[t] = "audit" /\ pc' = [pc EXCEPT ![t] = "done"]
        /\ answer' = [answer EXCEPT ![t] = "AUDIT_WRITE_FAILED"]
    BY <1>3 DEF AuditWriteFails, Finish, Goto
  <2>2. pc'[t] = "done" /\ answer'[t] = "AUDIT_WRITE_FAILED"
    BY <2>1 DEF IInv, TypeOK, CallTypeOK
  <2>3. InFlight(t)
    BY <2>1 DEF InFlight
  <2>4. case'.state = "BLOCKED"
    BY <1>3 DEF AuditWriteFails, Block, IInv, TypeOK, CaseTypeOK, Case
  <2> QED BY <1>1, <2>1, <2>2, <2>3, <2>4 DEF Decided, UnauditedView
<1>4. ~MandatoryFails(t)
  <2>1. DOMAIN <<>> = {}
    OBVIOUS
  <2> QED BY <1>1, <2>1 DEF MandatoryFails, Finish, Goto, Decided
<1>5. CASE Insert(t)
  <2>1. pc[t] \in Decided
    BY <1>5 DEF Insert, Goto, Decided
  <2>2. case'.state = NextState("VIEW", case.state, verdict[t].postReview)
    BY <1>1, <1>5, <2>1 DEF Insert, IInv, TypeOK, CaseTypeOK, Case
  <2> QED BY <2>2 DEF NextState
<1> QED BY <1>2, <1>3, <1>4, <1>5

\* A closed case keeps the state it was closed in, for callers that wait for
\* each other, until a request to look at it cannot be audited.
THEOREM ClosedForGood == SerialSpec => ClosedUnlessUnaudited
<1>1. IInv /\ RowsInv /\ SerialInv /\ [SerialNext]_vars
        => [case.state \in TerminalStates =>
              case'.state = case.state \/ (case'.state = "BLOCKED" /\ UnauditedView)]_vars
  <2> SUFFICES ASSUME IInv, RowsInv, SerialInv, SerialNext, case.state \in TerminalStates
               PROVE  case'.state = case.state \/ (case'.state = "BLOCKED" /\ UnauditedView)
    OBVIOUS
  <2>1. ASSUME NEW t \in Threads, Submit(t)
        PROVE  case'.state = case.state \/ (case'.state = "BLOCKED" /\ UnauditedView)
    BY <2>1, ClosedStays
  <2>2. CASE Revise \/ Caller \/ Acknowledge
    <3>1. case'.state = case.state
      BY <2>2, SurroundingsKeep DEF IInv
    <3> QED BY <3>1
  <2> QED BY <2>1, <2>2 DEF SerialNext
<1> QED
  BY <1>1, SerialRefines, SerialCorrect, PTL DEF SerialSpec, ClosedUnlessUnaudited
=============================================================================
