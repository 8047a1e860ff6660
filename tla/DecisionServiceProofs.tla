----------------------- MODULE DecisionServiceProofs -----------------------
(***************************************************************************)
(* Proofs about DecisionService, for any number of threads, actors,        *)
(* requests and opinions, and any values of the bounds.                    *)
(***************************************************************************)
EXTENDS DecisionService, TLAPS

----------------------------------------------------------------------------
\* Lemmas about the rules of ControlGate

\* The gate reports a state of the control state machine.
LEMMA ReportedStateType ==
    ASSUME NEW c \in Case, NEW o, NEW now
    PROVE  ReportedState(c, o, now) \in ControlStates
BY DEF ReportedState, Stage, Case, ControlStates, TerminalStates

\* The warning hash the gate reports is a hash.
LEMMA ReportedHashType ==
    ASSUME NEW c \in Case, NEW o \in Opinion, NEW now
    PROVE  ReportedHash(c, o, now) \in Nat \X Nat
BY DEF ReportedHash, WarningHash, NoHash, Case, Opinion

LEMMA NextStateType ==
    ASSUME NEW action \in Actions, NEW reported \in ControlStates, NEW postReview
    PROVE  NextState(action, reported, postReview) \in ControlStates
BY DEF NextState, ControlStates, TerminalStates

LEMMA AlignmentType ==
    ASSUME NEW o, NEW action, NEW reasons
    PROVE  Alignment(o, action, reasons) \in Alignments
BY DEF Alignment, Alignments

\* What a refused client is told is one of the answers of the interface.
LEMMA RejectionCodeType ==
    ASSUME NEW c, NEW o, NEW level, NEW ack, NEW now
    PROVE  RejectionCode(c, o, level, ack, now) \in Answers
BY DEF RejectionCode, Answers

LEMMA ReasonVerdictType ==
    ASSUME NEW o, NEW q, NEW level, NEW alignment
    PROVE  ReasonVerdict(o, q, level, alignment) \in Answers \cup {"OK"}
BY DEF ReasonVerdict, Answers

\* The notifications form a sequence of known triggers.
LEMMA NotificationsType ==
    ASSUME NEW alignment, NEW action, NEW postReview
    PROVE  Notifications(alignment, action, postReview) \in Seq(Triggers)
<1> DEFINE divergence ==
        CASE alignment = "AUTHORIZED_EXCEPTION" ->
               <<"DIVERGENCE_ON_HARD_BLOCK", "DIVERGENCE_ON_HARD_BLOCK_AUDIT">>
          [] alignment = "DIVERGENT" -> <<"DIVERGENCE_STANDARD">>
          [] OTHER -> <<>>
           escalation == IF action = "ESCALATE" THEN <<"ESCALATION_RAISED">> ELSE <<>>
           review == IF postReview THEN <<"POST_REVIEW_QUEUED">> ELSE <<>>
<1>1. divergence \in Seq(Triggers)
  <2>1. /\ <<"DIVERGENCE_ON_HARD_BLOCK", "DIVERGENCE_ON_HARD_BLOCK_AUDIT">> \in Seq(Triggers)
        /\ <<"DIVERGENCE_STANDARD">> \in Seq(Triggers)
        /\ <<>> \in Seq(Triggers)
    BY DEF Triggers, MandatoryTriggers
  <2> QED  BY <2>1, Zenon
<1>2. escalation \in Seq(Triggers)
  <2>1. <<"ESCALATION_RAISED">> \in Seq(Triggers) /\ <<>> \in Seq(Triggers)
    BY DEF Triggers, MandatoryTriggers
  <2> QED  BY <2>1, Zenon
<1>3. review \in Seq(Triggers)
  <2>1. <<"POST_REVIEW_QUEUED">> \in Seq(Triggers) /\ <<>> \in Seq(Triggers)
    BY DEF Triggers
  <2> QED  BY <2>1, Zenon
<1>4. Notifications(alignment, action, postReview) = (divergence \o escalation) \o review
  BY DEF Notifications
<1> QED
  BY <1>1, <1>2, <1>3, <1>4

\* Every notification a call triggers is a known one, and they are numbered
\* from one.
LEMMA TriggeredType ==
    ASSUME NEW t
    PROVE  /\ Len(Triggered(t)) \in Nat
           /\ DOMAIN Triggered(t) = 1..Len(Triggered(t))
           /\ \A i \in DOMAIN Triggered(t) : Triggered(t)[i] \in Triggers
<1>1. Triggered(t) \in Seq(Triggers)
  BY NotificationsType DEF Triggered
<1> QED
  BY <1>1

----------------------------------------------------------------------------
\* Type correctness

\* A request that may be made, or none, has the fields of a request.
LEMMA RequestType ==
    ASSUME CallTypeOK, NEW t \in Threads
    PROVE  /\ call[t] \in CallType
           /\ Request(t).actor \in Actors \cup {""} /\ Request(t).key \in Keys \cup {""}
           /\ Request(t).reason \in Codes \cup {""} /\ Request(t).action \in Actions
<1>1. call[t] \in CallType
  BY DEF CallTypeOK
<1>2. Request(t) \in Requests \cup {NoRequest}
  BY <1>1 DEF CallType, Request
<1>3. CASE Request(t) \in Requests
  BY <1>1, <1>3, ServiceAssumptions
<1>4. CASE Request(t) = NoRequest
  <2>1. NoRequest.actor = "" /\ NoRequest.key = "" /\ NoRequest.reason = ""
    BY DEF NoRequest
  <2>2. NoRequest.action \in Actions
    BY DEF NoRequest, Actions, OpenActions
  <2> QED
    BY <1>1, <1>4, <2>1, <2>2
<1> QED
  BY <1>2, <1>3, <1>4

\* The values of the locals of a call that is not running.
LEMMA IdleType == NoCall \in CallType /\ NoVerdict \in VerdictType /\ NoOpinion \in Opinion
<1>1. NoOpinion \in Opinion
  BY DEF NoOpinion, Opinion, Decisions, NegativeDecisions, Blocks
<1>2. NoCall \in CallType
  BY <1>1 DEF NoCall, CallType
<1>3. NoVerdict \in VerdictType
  BY DEF NoVerdict, VerdictType, ControlStates, NoHash, Alignments
<1> QED
  BY <1>1, <1>2, <1>3

\* Returning leaves the locals of a call as they were before it, and an answer
\* of the interface behind.
LEMMA FinishType ==
    ASSUME CallTypeOK, NEW t \in Threads, NEW from, NEW code \in Answers,
           Finish(t, from, code)
    PROVE  CallTypeOK'
BY IdleType DEF Finish, Goto, CallTypeOK, PCs

LEMMA BlockType ==
    ASSUME CaseTypeOK, Block, UNCHANGED <<opinion, day, revising>>
    PROVE  CaseTypeOK'
BY DEF Block, CaseTypeOK, Case, ControlStates

LEMMA TypeInit == Init => TypeOK
<1> SUFFICES ASSUME Init PROVE TypeOK
  OBVIOUS
<1>1. CaseTypeOK
  BY IdleType, ServiceAssumptions DEF Init, CaseTypeOK, Case, ControlStates
<1>2. StoreTypeOK
  BY DEF Init, StoreTypeOK
<1>3. CallTypeOK
  BY IdleType DEF Init, CallTypeOK, PCs, Answers
<1> QED
  BY <1>1, <1>2, <1>3 DEF TypeOK

\* The part of the state a step of submit may leave alone.
LEMMA SubmitType ==
    ASSUME TypeOK, NEW t \in Threads, Submit(t)
    PROVE  TypeOK'
<1> USE DEF TypeOK
<1>1. CASE Begin(t)
  <2> PICK q \in Requests, a \in 0..Len(acks) :
        /\ Goto(t, "idle", "gate")
        /\ call' = [call EXCEPT ![t] = [request |-> q, opinion |-> opinion,
                                        ack |-> a, now |-> day]]
        /\ UNCHANGED <<case, opinion, day, revising, store, verdict, step, draft, answer>>
    BY <1>1 DEF Begin
  <2>1. [request |-> q, opinion |-> opinion, ack |-> a, now |-> day] \in CallType
    BY DEF CallType, CaseTypeOK, StoreTypeOK
  <2>2. CallTypeOK'
    BY <2>1 DEF CallTypeOK, Goto, PCs
  <2>3. CaseTypeOK' /\ StoreTypeOK'
    BY DEF CaseTypeOK, StoreTypeOK, store
  <2> QED
    BY <2>2, <2>3
<1>2. CASE Replay(t)
  <2>1. CallTypeOK'
    BY <1>2, FinishType DEF Replay, Answers
  <2>2. CaseTypeOK' /\ StoreTypeOK'
    BY <1>2 DEF Replay, CaseTypeOK, StoreTypeOK, store
  <2> QED
    BY <2>1, <2>2
<1>3. CASE GateRefuses(t)
  <2>1. CallTypeOK'
    BY <1>3, FinishType, RejectionCodeType DEF GateRefuses
  <2>2. CaseTypeOK'
    BY <1>3 DEF GateRefuses, CaseTypeOK
  <2>3. StoreTypeOK'
    BY <1>3 DEF GateRefuses, StoreTypeOK, AuditEvents
  <2> QED
    BY <2>1, <2>2, <2>3
<1>4. CASE ReasonRefuses(t)
  <2>1. ReasonCheck(t) \in Answers
    BY <1>4, ReasonVerdictType DEF ReasonRefuses, ReasonCheck
  <2>2. CallTypeOK'
    BY <1>4, <2>1, FinishType DEF ReasonRefuses
  <2>3. CaseTypeOK' /\ StoreTypeOK'
    BY <1>4 DEF ReasonRefuses, CaseTypeOK, StoreTypeOK, store
  <2> QED
    BY <2>2, <2>3
<1>5. CASE GatePasses(t)
  <2> DEFINE o == call[t].opinion
             now == call[t].now
             v == [state      |-> ReportedState(case, o, now),
                   postReview |-> PostReviewRequired(case, o, now),
                   fresh      |-> IsFresh(case, o, now),
                   alignment  |-> Alignment(o, Request(t).action, Reasons(t)),
                   hash       |-> ReportedHash(case, o, now)]
  <2>1. case \in Case /\ o \in Opinion
    BY RequestType DEF CaseTypeOK, CallType
  <2>2. v \in VerdictType
    <3>1. /\ PostReviewRequired(case, o, now) \in BOOLEAN
          /\ IsFresh(case, o, now) \in BOOLEAN
      BY DEF PostReviewRequired, IsFresh
    <3> QED
      BY <2>1, <3>1, ReportedStateType, ReportedHashType, AlignmentType DEF VerdictType
  <2>3. verdict' = [verdict EXCEPT ![t] = v]
    BY <1>5 DEF GatePasses
  <2>4. CallTypeOK'
    BY <1>5, <2>2, <2>3 DEF GatePasses, CallTypeOK, Goto, PCs
  <2>5. CaseTypeOK' /\ StoreTypeOK'
    BY <1>5 DEF GatePasses, CaseTypeOK, StoreTypeOK, store
  <2> QED
    BY <2>4, <2>5
<1>6. CASE WriteAudit(t)
  BY <1>6 DEF WriteAudit, CaseTypeOK, StoreTypeOK, CallTypeOK, Goto, PCs, AuditEvents, local
<1>7. CASE AuditWriteFails(t)
  <2>1. CallTypeOK'
    BY <1>7, FinishType DEF AuditWriteFails, Answers
  <2>2. CaseTypeOK'
    BY <1>7, BlockType DEF AuditWriteFails
  <2>3. StoreTypeOK'
    BY <1>7 DEF AuditWriteFails, StoreTypeOK, store
  <2> QED
    BY <2>1, <2>2, <2>3
<1>8. CASE Notify(t)
  <2>1. StoreTypeOK'
    BY <1>8, TriggeredType DEF Notify, StoreTypeOK
  <2>2. CallTypeOK'
    BY <1>8 DEF Notify, CallTypeOK
  <2>3. CaseTypeOK'
    BY <1>8 DEF Notify, CaseTypeOK
  <2> QED
    BY <2>1, <2>2, <2>3
<1>9. CASE DigestFails(t)
  BY <1>9 DEF DigestFails, CaseTypeOK, StoreTypeOK, CallTypeOK, store
<1>10. CASE MandatoryFails(t)
  <2>1. CallTypeOK'
    BY <1>10, FinishType DEF MandatoryFails, Answers
  <2>2. CaseTypeOK'
    BY <1>10, BlockType DEF MandatoryFails
  <2>3. StoreTypeOK'
    BY <1>10 DEF MandatoryFails, StoreTypeOK, store
  <2> QED
    BY <2>1, <2>2, <2>3
<1>11. CASE Seal(t)
  <2>1. case.revision \in Nat
    BY DEF CaseTypeOK, Case
  <2> QED
    BY <1>11, <2>1 DEF Seal, CaseTypeOK, StoreTypeOK, CallTypeOK, Goto, PCs, store
<1>12. CASE SealFails(t)
  <2>1. CallTypeOK'
    BY <1>12, FinishType DEF SealFails, Answers
  <2>2. CaseTypeOK' /\ StoreTypeOK'
    BY <1>12 DEF SealFails, CaseTypeOK, StoreTypeOK, store
  <2> QED
    BY <2>1, <2>2
<1>13. CASE Insert(t)
  <2>1. /\ call[t].opinion \in Opinion
        /\ verdict[t] \in VerdictType
        /\ draft[t] \in Nat
    BY RequestType DEF CallTypeOK, CallType
  <2>2. Row(t) \in RowType
    BY <2>1, RequestType DEF Row, RowType, VerdictType
  <2>3. StoreTypeOK'
    BY <1>13, <2>2 DEF Insert, StoreTypeOK
  <2>4. NextState(Request(t).action, verdict[t].state, verdict[t].postReview) \in ControlStates
    BY <2>1, RequestType, NextStateType DEF VerdictType
  <2>5. CaseTypeOK'
    BY <1>13, <2>4 DEF Insert, CaseTypeOK, Case
  <2>6. CallTypeOK'
    BY <1>13 DEF Insert, CallTypeOK, Goto, PCs, local
  <2> QED
    BY <2>3, <2>5, <2>6
<1>14. CASE InsertConflicts(t)
  <2>1. CallTypeOK'
    BY <1>14, FinishType DEF InsertConflicts, Answers
  <2>2. CaseTypeOK' /\ StoreTypeOK'
    BY <1>14 DEF InsertConflicts, CaseTypeOK, StoreTypeOK, store
  <2> QED
    BY <2>1, <2>2
<1>15. CASE Feedback(t)
  <2>1. CallTypeOK'
    BY <1>15, FinishType DEF Feedback, Answers
  <2>2. CaseTypeOK' /\ StoreTypeOK'
    BY <1>15 DEF Feedback, CaseTypeOK, StoreTypeOK
  <2> QED
    BY <2>1, <2>2
<1> QED
  BY <1>1, <1>2, <1>3, <1>4, <1>5, <1>6, <1>7, <1>8, <1>9, <1>10, <1>11, <1>12, <1>13,
     <1>14, <1>15 DEF Submit

\* Acknowledgements, revisions of the case and what the caller does to it.
LEMMA SurroundingsType ==
    ASSUME TypeOK, Acknowledge \/ Revise \/ Caller
    PROVE  TypeOK'
<1> USE DEF TypeOK
<1>1. case \in Case /\ opinion \in Opinion /\ acks \in Seq(Ack)
  BY DEF CaseTypeOK, StoreTypeOK
<1>2. CASE Acknowledge
  <2>1. [version |-> opinion.version, hash |-> WarningHash(case, opinion), active |-> TRUE] \in Ack
    BY <1>1 DEF Ack, WarningHash, Case, Opinion
  <2>2. acks' \in Seq(Ack)
    BY <1>1, <1>2, <2>1 DEF Acknowledge
  <2> QED
    BY <1>2, <2>2 DEF Acknowledge, CaseTypeOK, StoreTypeOK, CallTypeOK, local
<1>3. CASE ReviseCase
  <2>1. case.revision + 1 \in Nat
    BY <1>1 DEF Case
  <2>2. case' \in Case
    BY <1>1, <1>3, <2>1 DEF ReviseCase, Case
  <2> QED
    BY <1>3, <2>2 DEF ReviseCase, CaseTypeOK, StoreTypeOK, CallTypeOK, local, store
<1>4. CASE ReviseSource
  <2>1. case.source + 1 \in Nat
    BY <1>1 DEF Case
  <2>2. case' \in Case
    BY <1>1, <1>4, <2>1 DEF ReviseSource, Case
  <2> QED
    BY <1>4, <2>2 DEF ReviseSource, CaseTypeOK, StoreTypeOK, CallTypeOK, local, store
<1>5. CASE SupersedeAcks
  <2>1. ASSUME NEW i \in DOMAIN acks PROVE [acks[i] EXCEPT !.active = FALSE] \in Ack
    <3>1. acks[i] \in Ack
      BY <1>1
    <3> QED
      BY <3>1 DEF Ack
  <2>2. acks' \in Seq(Ack)
    BY <1>1, <1>5, <2>1 DEF SupersedeAcks
  <2> QED
    BY <1>5, <2>2 DEF SupersedeAcks, CaseTypeOK, StoreTypeOK, CallTypeOK, local
<1>6. CASE IssueOpinion
  <2> PICK k \in OpinionKinds :
        opinion' = [version |-> opinion.version + 1, revision |-> case.revision,
                    source |-> case.source, rules |-> case.rules, issued |-> day,
                    decision |-> k.decision, status |-> k.status,
                    block |-> k.block, complete |-> k.complete]
    BY <1>6 DEF IssueOpinion
  <2>1. k \in [decision: Decisions, status: OpinionStatuses, block: Blocks, complete: BOOLEAN]
    BY ServiceAssumptions
  <2>2. opinion' \in Opinion
    BY <1>1, <2>1 DEF Opinion, Case, CaseTypeOK
  <2> QED
    BY <1>6, <2>2 DEF IssueOpinion, CaseTypeOK, StoreTypeOK, CallTypeOK, local, store
<1>7. CASE ChangeRules
  <2>1. case.rules + 1 \in Nat
    BY <1>1 DEF Case
  <2>2. case' \in Case
    BY <1>1, <1>7, <2>1 DEF ChangeRules, Case
  <2> QED
    BY <1>7, <2>2 DEF ChangeRules, CaseTypeOK, StoreTypeOK, CallTypeOK, local, store
<1>8. CASE SwitchAi
  BY <1>1, <1>8 DEF SwitchAi, CaseTypeOK, StoreTypeOK, CallTypeOK, Case, local, store
<1>9. CASE FlagEvidence
  BY <1>1, <1>9 DEF FlagEvidence, CaseTypeOK, StoreTypeOK, CallTypeOK, Case, local, store
<1>10. CASE NextDay
  BY <1>10 DEF NextDay, CaseTypeOK, StoreTypeOK, CallTypeOK, local, store
<1> QED
  BY <1>2, <1>3, <1>4, <1>5, <1>6, <1>7, <1>8, <1>9, <1>10 DEF Revise, Caller

LEMMA TypeNext == TypeOK /\ [Next]_vars => TypeOK'
<1>1. ASSUME TypeOK, UNCHANGED vars PROVE TypeOK'
  BY <1>1 DEF TypeOK, CaseTypeOK, StoreTypeOK, CallTypeOK, vars, store, local
<1> QED
  BY <1>1, SubmitType, SurroundingsType DEF Next

\* Every variable keeps its type: submit never leaves the case in a state the
\* state machine does not know, nor a client without one of the answers of the
\* interface.
THEOREM TypeCorrect == Spec => []TypeOK
BY TypeInit, TypeNext, PTL DEF Spec

----------------------------------------------------------------------------
\* The order of submit

\* What a call has behind it: before the notify step it has sent nothing; past the audit step its audit event is written;
\* the notifications before step[t] that are mandatory have been sent; and at
\* the insert step there is none left to send.
CallInv(t) ==
    /\ pc[t] \in {"idle", "gate", "audit"} => step[t] = 1
    /\ pc[t] \in {"notify", "insert"} => t \in Submitted
    /\ pc[t] = "insert" => step[t] \notin DOMAIN Triggered(t)
    /\ pc[t] \in {"notify", "insert"} =>
         \A i \in DOMAIN Triggered(t) :
            (i < step[t] /\ Triggered(t)[i] \in MandatoryTriggers)
                => <<t, Triggered(t)[i]>> \in sent
    /\ draft[t] <= MaxRevision

\* Only a call past its insert step has a row.
RowsInserted == \A r \in rows : pc[r.id] \in {"feedback", "done"}

IInv == /\ TypeOK
        /\ \A t \in Threads : CallInv(t)
        /\ RowsInserted
        /\ case.revision <= MaxRevision
        /\ OneDecisionPerRevision

\* A step of one call leaves the locals of the others alone, and takes nothing
\* out of the audit log and the notifier.
LEMMA SubmitFrame ==
    ASSUME TypeOK, NEW t \in Threads, Submit(t)
    PROVE  /\ \A u \in Threads \ {t} :
                 /\ pc'[u] = pc[u] /\ step'[u] = step[u] /\ draft'[u] = draft[u]
                 /\ call'[u] = call[u] /\ verdict'[u] = verdict[u]
           /\ audit \subseteq audit' /\ sent \subseteq sent'
           /\ case'.revision = case.revision
<1>1. /\ pc \in [Threads -> PCs] /\ call \in [Threads -> CallType]
      /\ verdict \in [Threads -> VerdictType] /\ step \in [Threads -> Nat \ {0}]
      /\ draft \in [Threads -> Nat] /\ case \in Case
  BY DEF TypeOK, CallTypeOK, CaseTypeOK
<1>2. CASE Begin(t) \/ GatePasses(t) \/ WriteAudit(t) \/ Notify(t) \/ DigestFails(t) \/ Seal(t)
  BY <1>1, <1>2 DEF Begin, GatePasses, WriteAudit, Notify, DigestFails, Seal, Goto, store, local
<1>3. CASE Insert(t)
  BY <1>1, <1>3 DEF Insert, Goto, local, Case
<1>4. CASE Replay(t) \/ GateRefuses(t) \/ ReasonRefuses(t) \/ SealFails(t) \/ InsertConflicts(t) \/ Feedback(t)
  BY <1>1, <1>4 DEF Replay, GateRefuses, ReasonRefuses, SealFails, InsertConflicts, Feedback,
                    Finish, Goto, store
<1>5. CASE AuditWriteFails(t) \/ MandatoryFails(t)
  BY <1>1, <1>5 DEF AuditWriteFails, MandatoryFails, Finish, Goto, Block, store, Case
<1> QED
  BY <1>2, <1>3, <1>4, <1>5 DEF Submit

\* So whatever another call has behind it stays behind it.
LEMMA OtherCalls ==
    ASSUME IInv, NEW t \in Threads, Submit(t), NEW u \in Threads \ {t}
    PROVE  CallInv(u)'
<1>1. Triggered(u)' = Triggered(u)
  BY SubmitFrame DEF IInv, Triggered, Request
<1>2. u \in Submitted => u \in Submitted'
  BY SubmitFrame DEF IInv, Submitted
<1> QED
  BY <1>1, <1>2, SubmitFrame DEF IInv, CallInv

\* A call that has finished has nothing behind it to answer for.
LEMMA FinishedCall ==
    ASSUME IInv, NEW t \in Threads, NEW from, NEW code, Finish(t, from, code)
    PROVE  CallInv(t)'
<1>1. pc' [t] = "done" /\ draft' [t] = 0
  BY DEF Finish, Goto, IInv, TypeOK, CallTypeOK
<1> QED
  BY <1>1, ServiceAssumptions DEF CallInv

\* Each step of a call keeps what the call has behind it.
LEMMA OwnCall ==
    ASSUME IInv, NEW t \in Threads, Submit(t)
    PROVE  CallInv(t)'
<1>1. /\ CallInv(t) /\ pc \in [Threads -> PCs] /\ step \in [Threads -> Nat \ {0}]
      /\ draft \in [Threads -> Nat] /\ case \in Case /\ case.revision <= MaxRevision
      /\ case.revision \in Nat /\ step[t] \in Nat \ {0} /\ MaxRevision \in Nat
  BY ServiceAssumptions DEF IInv, TypeOK, CallTypeOK, CaseTypeOK, Case
<1>2. CASE Begin(t) \/ GatePasses(t)
  BY <1>1, <1>2 DEF Begin, GatePasses, Goto, CallInv
<1>3. CASE \/ Replay(t) \/ GateRefuses(t) \/ ReasonRefuses(t) \/ AuditWriteFails(t)
           \/ MandatoryFails(t) \/ SealFails(t) \/ InsertConflicts(t) \/ Feedback(t)
  BY <1>3, FinishedCall DEF Replay, GateRefuses, ReasonRefuses, AuditWriteFails,
       MandatoryFails, SealFails, InsertConflicts, Feedback
<1>4. CASE Insert(t)
  BY <1>1, <1>4 DEF Insert, Goto, CallInv, local
<1>5. ASSUME UNCHANGED <<call, verdict>>
      PROVE  Triggered(t)' = Triggered(t)
  BY <1>5 DEF Triggered, Request
<1>6. CASE WriteAudit(t)
  <2>1. pc' = [pc EXCEPT ![t] = "notify"] /\ pc[t] = "audit"
    BY <1>6 DEF WriteAudit, Goto
  <2>2. t \in Submitted'
    BY <1>6 DEF WriteAudit, Submitted
  <2>3. pc'[t] = "notify" /\ step'[t] = 1 /\ draft'[t] = draft[t]
    BY <1>1, <1>6, <2>1 DEF WriteAudit, local, CallInv
  <2>4. \A i \in DOMAIN Triggered(t)' : ~(i < step'[t])
    BY <1>5, <1>6, <2>3, TriggeredType DEF WriteAudit, local
  <2> QED
    BY <1>1, <2>2, <2>3, <2>4 DEF CallInv
<1>7. CASE Notify(t)
  <2>1. /\ pc[t] = "notify" /\ pc' = pc /\ draft' = draft /\ audit' = audit
        /\ step[t] \in DOMAIN Triggered(t) /\ step'[t] = step[t] + 1
        /\ sent' = sent \cup {<<t, Triggered(t)[step[t]]>>}
    BY <1>1, <1>7 DEF Notify
  <2>2. Triggered(t)' = Triggered(t) /\ Submitted' = Submitted
    BY <1>5, <1>7, <2>1 DEF Notify, Submitted
  <2>3. \A i \in DOMAIN Triggered(t) : i < step'[t] => i < step[t] \/ i = step[t]
    BY <1>1, <2>1, TriggeredType
  <2> QED
    BY <1>1, <2>1, <2>2, <2>3 DEF CallInv
<1>8. CASE DigestFails(t)
  <2>1. /\ pc[t] = "notify" /\ pc' = pc /\ draft' = draft /\ audit' = audit /\ sent' = sent
        /\ step[t] \in DOMAIN Triggered(t) /\ step'[t] = step[t] + 1
        /\ Triggered(t)[step[t]] \notin MandatoryTriggers
    BY <1>1, <1>8 DEF DigestFails, store
  <2>2. Triggered(t)' = Triggered(t) /\ Submitted' = Submitted
    BY <1>5, <1>8, <2>1 DEF DigestFails, Submitted
  <2>3. \A i \in DOMAIN Triggered(t) : i < step'[t] => i < step[t] \/ i = step[t]
    BY <1>1, <2>1, TriggeredType
  <2> QED
    BY <1>1, <2>1, <2>2, <2>3 DEF CallInv
<1>9. CASE Seal(t)
  <2>1. /\ pc[t] = "notify" /\ pc'[t] = "insert" /\ audit' = audit /\ sent' = sent
        /\ step[t] \notin DOMAIN Triggered(t) /\ step' = step
        /\ draft'[t] = case.revision
    BY <1>1, <1>9 DEF Seal, Goto, store
  <2>2. Triggered(t)' = Triggered(t) /\ Submitted' = Submitted
    BY <1>5, <1>9, <2>1 DEF Seal, Submitted
  <2> QED
    BY <1>1, <2>1, <2>2 DEF CallInv
<1> QED
  BY <1>2, <1>3, <1>4, <1>6, <1>7, <1>8, <1>9 DEF Submit

\* At the insert step everything mandatory has been sent.
LEMMA OwedSent ==
    ASSUME IInv, NEW t \in Threads, pc[t] = "insert",
           NEW n \in Owed(Request(t).action, verdict[t].alignment, verdict[t].postReview)
    PROVE  <<t, n>> \in sent
<1>1. PICK i \in DOMAIN Triggered(t) : n = Triggered(t)[i] /\ n \in MandatoryTriggers
  BY DEF Owed, Triggered
<1>2. /\ step[t] \notin DOMAIN Triggered(t) /\ step[t] \in Nat \ {0}
      /\ (i < step[t] => <<t, n>> \in sent)
  BY <1>1 DEF IInv, CallInv, TypeOK, CallTypeOK
<1>3. i < step[t]
  BY <1>2, TriggeredType
<1> QED
  BY <1>2, <1>3

\* Rows appear at the insert step of their own call, and only there.
LEMMA RowsStep ==
    ASSUME IInv, NEW t \in Threads, Submit(t)
    PROVE  \/ rows' = rows
           \/ /\ Insert(t) /\ rows' = rows \cup {Row(t)}
              /\ pc[t] = "insert" /\ pc'[t] = "feedback"
<1>1. CASE Insert(t)
  BY <1>1 DEF Insert, Goto, IInv, TypeOK, CallTypeOK
<1> QED
  BY <1>1 DEF Submit, Begin, Replay, GateRefuses, ReasonRefuses, GatePasses, WriteAudit,
       AuditWriteFails, Notify, DigestFails, MandatoryFails, Seal, SealFails, InsertConflicts,
       Feedback, store

LEMMA RowsInsertedStep ==
    ASSUME IInv, NEW t \in Threads, Submit(t)
    PROVE  RowsInserted'
<1>1. pc[t] \in {"feedback", "done"} => pc'[t] \in {"feedback", "done"}
  BY DEF IInv, TypeOK, CallTypeOK, Submit, Begin, Replay, GateRefuses, ReasonRefuses, GatePasses,
       WriteAudit, AuditWriteFails, Notify, DigestFails, MandatoryFails, Seal, SealFails, Insert,
       InsertConflicts, Feedback, Finish, Goto
<1>2. \A r \in rows : r.id \in Threads
  BY DEF IInv, TypeOK, StoreTypeOK, RowType
<1>3. \A r \in rows : pc'[r.id] \in {"feedback", "done"}
  BY <1>1, <1>2, SubmitFrame DEF IInv, RowsInserted
<1>4. Row(t).id = t
  BY DEF Row
<1> QED
  BY <1>3, <1>4, RowsStep DEF RowsInserted

\* The check inside insert() is what keeps a revision to one decision.
LEMMA OneDecisionStep ==
    ASSUME IInv, NEW t \in Threads, Submit(t)
    PROVE  OneDecisionPerRevision'
<1>1. CASE rows' = rows
  BY <1>1 DEF IInv, OneDecisionPerRevision
<1>2. CASE Insert(t) /\ rows' = rows \cup {Row(t)}
  <2>1. ~Conflicts(t)
    BY <1>2 DEF Insert
  <2>2. Row(t).action = Request(t).action /\ Row(t).revision = draft[t]
    BY DEF Row
  <2>3. \A r \in rows : ~(r.action \in TerminalActions /\ Row(t).action \in TerminalActions
                            /\ r.revision = Row(t).revision)
    BY <2>1, <2>2 DEF Conflicts, HasTerminal
  <2> QED
    BY <1>2, <2>3 DEF IInv, OneDecisionPerRevision
<1> QED
  BY <1>1, <1>2, RowsStep

LEMMA InvInit == Init => IInv
<1> SUFFICES ASSUME Init PROVE IInv
  OBVIOUS
<1>1. \A t \in Threads : CallInv(t)
  BY ServiceAssumptions DEF Init, CallInv
<1>2. RowsInserted /\ OneDecisionPerRevision /\ case.revision <= MaxRevision
  BY ServiceAssumptions DEF Init, RowsInserted, OneDecisionPerRevision
<1> QED
  BY <1>1, <1>2, TypeInit DEF IInv

\* Outside submit nothing happens to the calls, the audit log, the notifier or
\* the rows, and the revision stays within its bound.
LEMMA SurroundingsFrame ==
    ASSUME IInv, Acknowledge \/ Revise \/ Caller
    PROVE  /\ UNCHANGED <<audit, sent, rows, pc, local>>
           /\ case'.revision <= MaxRevision
<1>1. case \in Case /\ case.revision \in Nat /\ case.revision <= MaxRevision /\ MaxRevision \in Nat
  BY ServiceAssumptions DEF IInv, TypeOK, CaseTypeOK, Case
<1>2. CASE Acknowledge \/ SupersedeAcks \/ IssueOpinion \/ NextDay
  BY <1>1, <1>2 DEF Acknowledge, SupersedeAcks, IssueOpinion, NextDay, store
<1>3. CASE ReviseCase
  BY <1>1, <1>3 DEF ReviseCase, store, Case
<1>4. CASE ReviseSource \/ ChangeRules
  BY <1>1, <1>4 DEF ReviseSource, ChangeRules, store, Case
<1>5. CASE SwitchAi
  BY <1>1, <1>5 DEF SwitchAi, store, Case
<1>6. CASE FlagEvidence
  BY <1>1, <1>6 DEF FlagEvidence, store, Case
<1> QED
  BY <1>2, <1>3, <1>4, <1>5, <1>6 DEF Revise, Caller

LEMMA InvNext == IInv /\ [Next]_vars => IInv'
<1> SUFFICES ASSUME IInv, [Next]_vars PROVE IInv'
  OBVIOUS
<1>1. TypeOK'
  BY TypeNext DEF IInv
<1>2. ASSUME NEW t \in Threads, Submit(t)
      PROVE  IInv'
  <2>1. \A u \in Threads : CallInv(u)'
    BY <1>2, OwnCall, OtherCalls
  <2>2. case'.revision <= MaxRevision
    BY <1>2, SubmitFrame DEF IInv
  <2> QED
    BY <1>1, <1>2, <2>1, <2>2, RowsInsertedStep, OneDecisionStep DEF IInv
<1>3. ASSUME UNCHANGED <<audit, sent, rows, pc, local>>, case'.revision <= MaxRevision
      PROVE  IInv'
  <2>1. \A u \in Threads : CallInv(u)'
    BY <1>3 DEF IInv, CallInv, Triggered, Request, Submitted, local
  <2>2. RowsInserted' /\ OneDecisionPerRevision'
    BY <1>3 DEF IInv, RowsInserted, OneDecisionPerRevision
  <2> QED
    BY <1>1, <1>3, <2>1, <2>2 DEF IInv
<1>4. CASE UNCHANGED vars
  BY <1>3, <1>4 DEF vars, store, IInv
<1> QED
  BY <1>2, <1>3, <1>4, SurroundingsFrame DEF Next

\* The audit event precedes the notifications and the mandatory notifications
\* precede the row, in every call and every interleaving.
THEOREM OrderOfSubmit == Spec => []IInv
BY InvInit, InvNext, PTL DEF Spec

\* Whatever the number of signers and however their calls interleave, a
\* revision of the case gets at most one terminal decision (AC16): the check
\* DecisionStore.insert repeats under the lock is enough, although the gate
\* decided long before on a state that may be gone.
THEOREM OneDecision == Spec => []OneDecisionPerRevision
BY OrderOfSubmit, PTL DEF IInv

----------------------------------------------------------------------------
\* The service implements the ledger

\* A step of the service is an audit, a delivery or a commit of the ledger, or
\* a step the ledger does not see.
LEMMA LedgerStep == IInv /\ [Next]_vars => [Ledger!Next]_Ledger!ledgerVars
<1> SUFFICES ASSUME IInv, [Next]_vars PROVE [Ledger!Next]_Ledger!ledgerVars
  OBVIOUS
<1>1. ASSUME UNCHANGED <<audit, sent, rows>>
      PROVE  UNCHANGED Ledger!ledgerVars
  BY <1>1 DEF Ledger!ledgerVars, Submitted, Entries
<1>2. ASSUME NEW t \in Threads, Submit(t)
      PROVE  [Ledger!Next]_Ledger!ledgerVars
  <2>1. CASE WriteAudit(t)
    <3>1. audit' = audit \cup {<<"human_decision_submitted", t>>} /\ sent' = sent /\ rows' = rows
      BY <2>1 DEF WriteAudit
    <3>2. Submitted' = Submitted \cup {t} /\ Entries' = Entries
      BY <3>1 DEF Submitted, Entries
    <3>3. CASE t \in Submitted
      BY <3>1, <3>2, <3>3 DEF Ledger!ledgerVars
    <3>4. CASE t \notin Submitted
      BY <3>1, <3>2, <3>4 DEF Ledger!Next, Ledger!Audit
    <3> QED
      BY <3>3, <3>4
  <2>2. CASE GateRefuses(t)
    <3>1. sent' = sent /\ rows' = rows
          /\ (audit' = audit \/ audit' = audit \cup {<<"human_decision_rejected", t>>})
      BY <2>2 DEF GateRefuses
    <3>2. Submitted' = Submitted /\ Entries' = Entries
      BY <3>1 DEF Submitted, Entries
    <3> QED
      BY <3>1, <3>2 DEF Ledger!ledgerVars
  <2>3. CASE Notify(t)
    <3> DEFINE n == Triggered(t)[step[t]]
    <3>1. /\ pc[t] = "notify" /\ step[t] \in DOMAIN Triggered(t)
          /\ sent' = sent \cup {<<t, n>>} /\ audit' = audit /\ rows' = rows
      BY <2>3 DEF Notify
    <3>2. t \in Submitted /\ n \in Triggers
      BY <3>1, TriggeredType DEF IInv, CallInv
    <3>3. Submitted' = Submitted /\ Entries' = Entries
      BY <3>1 DEF Submitted, Entries
    <3> QED
      BY <3>1, <3>2, <3>3 DEF Ledger!Next, Ledger!Deliver
  <2>4. CASE Insert(t)
    <3> DEFINE e == Entry(Row(t))
    <3>1. /\ rows' = rows \cup {Row(t)} /\ audit' = audit /\ sent' = sent
          /\ pc[t] = "insert" /\ ~Conflicts(t)
      BY <2>4 DEF Insert, Goto
    <3>2. Submitted' = Submitted /\ Entries' = Entries \cup {e}
      BY <3>1 DEF Submitted, Entries
    <3>3. /\ Row(t).id = t /\ Row(t).revision = draft[t] /\ Row(t).action = Request(t).action
          /\ Row(t).alignment = verdict[t].alignment /\ Row(t).postReview = verdict[t].postReview
      BY DEF Row
    <3>4. /\ e.id = t /\ e.revision = draft[t]
          /\ e.terminal = (Request(t).action \in TerminalActions)
          /\ e.owed = Owed(Request(t).action, verdict[t].alignment, verdict[t].postReview)
      BY <3>3 DEF Entry
    <3>5. e \in Ledger!Entry
      <4>1. draft[t] \in 0..MaxRevision
        BY ServiceAssumptions DEF IInv, CallInv, TypeOK, CallTypeOK
      <4>2. e.owed \subseteq Triggers
        BY <3>4 DEF Owed, Triggers
      <4> QED
        BY <3>3, <3>4, <4>1, <4>2 DEF Entry, Ledger!Entry
    <3>6. e.id \in Submitted
      BY <3>1, <3>4 DEF IInv, CallInv
    <3>7. \A n \in e.owed : <<e.id, n>> \in sent
      BY <3>1, <3>4, OwedSent
    <3>8. \A f \in Entries : f.id # e.id
      BY <3>1, <3>4 DEF IInv, RowsInserted, Entries, Entry
    <3>9. ASSUME e.terminal, NEW f \in Entries, f.terminal
          PROVE  f.revision # e.revision
      <4>1. PICK r \in rows : f = Entry(r)
        BY DEF Entries
      <4>2. f.revision = r.revision /\ r.action \in TerminalActions
        BY <3>9, <4>1 DEF Entry
      <4>3. Request(t).action \in TerminalActions /\ ~HasTerminal(draft[t])
        BY <3>1, <3>4, <3>9 DEF Conflicts
      <4> QED
        BY <3>4, <4>2, <4>3 DEF HasTerminal
    <3> QED
      BY <3>1, <3>2, <3>5, <3>6, <3>7, <3>8, <3>9 DEF Ledger!Next, Ledger!Commit
  <2>5. CASE ~(WriteAudit(t) \/ GateRefuses(t) \/ Notify(t) \/ Insert(t))
    BY <1>1, <1>2, <2>5 DEF Submit, Begin, Replay, ReasonRefuses, GatePasses, AuditWriteFails,
         DigestFails, MandatoryFails, Seal, SealFails, InsertConflicts, Feedback, store
  <2> QED
    BY <2>1, <2>2, <2>3, <2>4, <2>5
<1>3. CASE Acknowledge \/ Revise \/ Caller
  BY <1>1, <1>3, SurroundingsFrame
<1>4. CASE UNCHANGED vars
  BY <1>1, <1>4 DEF vars, store
<1> QED
  BY <1>2, <1>3, <1>4 DEF Next

LEMMA LedgerInit == Init => Ledger!Init
BY DEF Init, Ledger!Init, Submitted, Entries

\* The service implements the ledger: audit first, then the mandatory
\* notifications, then the row, one terminal row per revision.
THEOREM ImplementsLedger == Spec => KeepsLedger
<1>1. Init => Ledger!Init
  BY LedgerInit
<1>2. IInv /\ [Next]_vars => [Ledger!Next]_Ledger!ledgerVars
  BY LedgerStep
<1> QED
  BY <1>1, <1>2, OrderOfSubmit, PTL DEF Spec, KeepsLedger, Ledger!Spec

\* Every recorded decision has its audit event, and whoever is to know of it has
\* been told.
Accounted == \A e \in Entries : e.id \in Submitted /\ \A n \in e.owed : <<e.id, n>> \in sent

\* What is on record is never taken back.
OnRecord == Submitted \subseteq Submitted' /\ sent \subseteq sent' /\ Entries \subseteq Entries'

\* The ledger lets nothing in that is not accounted for, and nothing out.
LEMMA LedgerAccounts ==
    ASSUME [Ledger!Next]_Ledger!ledgerVars
    PROVE  OnRecord /\ (Accounted => Accounted')
<1>1. OnRecord
  BY DEF OnRecord, Ledger!Next, Ledger!ledgerVars, Ledger!Audit, Ledger!Deliver, Ledger!Commit
<1>2. Entries' = Entries \/ \E e \in Ledger!Entry : Ledger!Commit(e)
  BY DEF Ledger!Next, Ledger!ledgerVars, Ledger!Audit, Ledger!Deliver
<1>3. CASE Entries' = Entries
  BY <1>1, <1>3 DEF OnRecord, Accounted
<1>4. ASSUME NEW e \in Ledger!Entry, Ledger!Commit(e), Accounted PROVE Accounted'
  <2>1. /\ Entries' = Entries \cup {e} /\ e.id \in Submitted
        /\ \A n \in e.owed : <<e.id, n>> \in sent
    BY <1>4 DEF Ledger!Commit
  <2> QED BY <1>1, <1>4, <2>1 DEF OnRecord, Accounted
<1> QED BY <1>1, <1>2, <1>3, <1>4

\* What the promise of the ledger means for the stores: however submits overlap
\* and whatever fails, no decision is there without its audit event and its
\* mandatory notifications (docstring of DecisionService), and neither row, nor
\* event, nor notification ever goes away.
THEOREM DecisionsAreAccounted == Spec => []Accounted /\ [][OnRecord]_vars
<1>1. Init => Accounted
  BY DEF Init, Accounted, Entries
<1>2. IInv /\ [Next]_vars => OnRecord /\ (Accounted => Accounted')
  BY LedgerStep, LedgerAccounts
<1>3. IInv /\ [Next]_vars => [OnRecord]_vars
  BY <1>2
<1> QED BY <1>1, <1>2, <1>3, OrderOfSubmit, PTL DEF Spec

----------------------------------------------------------------------------
\* How many steps a call has left at most

LEMMA Short ==
    ASSUME NEW x \in Triggers, NEW y \in Triggers
    PROVE  /\ <<>> \in Seq(Triggers) /\ Len(<<>>) = 0
           /\ <<x>> \in Seq(Triggers) /\ Len(<<x>>) = 1
           /\ <<x, y>> \in Seq(Triggers) /\ Len(<<x, y>>) = 2
<1>1. <<>> \in Seq(Triggers) /\ <<x>> \in Seq(Triggers) /\ <<x, y>> \in Seq(Triggers)
  OBVIOUS
<1>2. Len(<<>>) = 0 /\ Len(<<x>>) = 1 /\ Len(<<x, y>>) = 2
  OBVIOUS
<1> QED BY <1>1, <1>2

\* The notifications of a decision are few.
LEMMA FewTriggers == ASSUME NEW t PROVE Len(Triggered(t)) <= 4
<1> DEFINE v == verdict[t]
           divergence ==
             CASE v.alignment = "AUTHORIZED_EXCEPTION" ->
                    <<"DIVERGENCE_ON_HARD_BLOCK", "DIVERGENCE_ON_HARD_BLOCK_AUDIT">>
               [] v.alignment = "DIVERGENT" -> <<"DIVERGENCE_STANDARD">>
               [] OTHER -> <<>>
           escalation == IF Request(t).action = "ESCALATE" THEN <<"ESCALATION_RAISED">> ELSE <<>>
           review == IF v.postReview THEN <<"POST_REVIEW_QUEUED">> ELSE <<>>
<1>1. divergence \in Seq(Triggers) /\ Len(divergence) <= 2
  <2>1. divergence \in {<<"DIVERGENCE_ON_HARD_BLOCK", "DIVERGENCE_ON_HARD_BLOCK_AUDIT">>,
                        <<"DIVERGENCE_STANDARD">>, <<>>}
    BY Zenon
  <2>2. /\ <<"DIVERGENCE_ON_HARD_BLOCK", "DIVERGENCE_ON_HARD_BLOCK_AUDIT">> \in Seq(Triggers)
        /\ Len(<<"DIVERGENCE_ON_HARD_BLOCK", "DIVERGENCE_ON_HARD_BLOCK_AUDIT">>) <= 2
    BY Short DEF Triggers, MandatoryTriggers
  <2>3. <<"DIVERGENCE_STANDARD">> \in Seq(Triggers) /\ Len(<<"DIVERGENCE_STANDARD">>) <= 2
    BY Short DEF Triggers, MandatoryTriggers
  <2>4. <<>> \in Seq(Triggers) /\ Len(<<>>) <= 2
    BY Short DEF Triggers, MandatoryTriggers
  <2> HIDE DEF divergence
  <2> QED BY <2>1, <2>2, <2>3, <2>4, Zenon
<1>2. escalation \in Seq(Triggers) /\ Len(escalation) <= 1
  <2>1. escalation \in {<<"ESCALATION_RAISED">>, <<>>}
    BY Zenon
  <2>2. <<"ESCALATION_RAISED">> \in Seq(Triggers) /\ Len(<<"ESCALATION_RAISED">>) <= 1
    BY Short DEF Triggers, MandatoryTriggers
  <2>3. <<>> \in Seq(Triggers) /\ Len(<<>>) <= 1
    BY Short DEF Triggers, MandatoryTriggers
  <2> HIDE DEF escalation
  <2> QED BY <2>1, <2>2, <2>3, Zenon
<1>3. review \in Seq(Triggers) /\ Len(review) <= 1
  <2>1. review \in {<<"POST_REVIEW_QUEUED">>, <<>>}
    BY Zenon
  <2>2. <<"POST_REVIEW_QUEUED">> \in Seq(Triggers) /\ Len(<<"POST_REVIEW_QUEUED">>) <= 1
    BY Short DEF Triggers, MandatoryTriggers
  <2>3. <<>> \in Seq(Triggers) /\ Len(<<>>) <= 1
    BY Short DEF Triggers, MandatoryTriggers
  <2> HIDE DEF review
  <2> QED BY <2>1, <2>2, <2>3, Zenon
<1>4. Triggered(t) = (divergence \o escalation) \o review
  BY DEF Triggered, Notifications
<1> HIDE DEF divergence, escalation, review
<1>5. /\ divergence \o escalation \in Seq(Triggers)
      /\ Len(divergence \o escalation) = Len(divergence) + Len(escalation)
  BY <1>1, <1>2
<1>6. Len(Triggered(t)) = Len(divergence \o escalation) + Len(review)
  BY <1>3, <1>4, <1>5
<1>7. Len(divergence) \in Nat /\ Len(escalation) \in Nat /\ Len(review) \in Nat
  BY <1>1, <1>2, <1>3
<1> QED BY <1>1, <1>2, <1>3, <1>5, <1>6, <1>7

StepsLeft(t) ==
    CASE pc[t] = "idle"     -> 10
      [] pc[t] = "gate"     -> 9
      [] pc[t] = "audit"    -> 8
      [] pc[t] = "notify"   -> 3 + (IF step[t] \in DOMAIN Triggered(t)
                                    THEN Len(Triggered(t)) + 1 - step[t] ELSE 0)
      [] pc[t] = "insert"   -> 2
      [] pc[t] = "feedback" -> 1
      [] OTHER              -> 0

\* A step of the call leaves it fewer steps, and nobody else's takes it back.
Fewer(t)  == StepsLeft(t)' < StepsLeft(t)
Nearer(t) == (Submit(t) => Fewer(t)) /\ (StepsLeft(t)' = StepsLeft(t) \/ Fewer(t))

LEMMA StepsLeftBounded ==
    ASSUME TypeOK, NEW t \in Threads
    PROVE  StepsLeft(t) \in 0..10
<1>1. pc[t] \in PCs /\ step[t] \in Nat \ {0}
  BY DEF TypeOK, CallTypeOK
<1>2. /\ Len(Triggered(t)) \in 0..4
      /\ step[t] \in DOMAIN Triggered(t) => step[t] <= Len(Triggered(t))
  <2>1. /\ Len(Triggered(t)) \in Nat /\ Len(Triggered(t)) <= 4
        /\ DOMAIN Triggered(t) = 1..Len(Triggered(t))
    BY TriggeredType, FewTriggers
  <2> QED BY <1>1, <2>1
<1>3. CASE pc[t] = "notify"
  <2>1. CASE step[t] \in DOMAIN Triggered(t)
    <3>1. StepsLeft(t) = 3 + (Len(Triggered(t)) + 1 - step[t])
      BY <1>3, <2>1 DEF StepsLeft
    <3>2. PICK n \in 0..4 : n = Len(Triggered(t))
      BY <1>2
    <3>3. step[t] \in 1..n
      BY <1>1, <1>2, <2>1, <3>2
    <3>4. StepsLeft(t) = 3 + (n + 1 - step[t])
      BY <3>1, <3>2
    <3> QED BY <3>3, <3>4
  <2>2. CASE step[t] \notin DOMAIN Triggered(t)
    <3>1. StepsLeft(t) = 3
      BY <1>3, <2>2 DEF StepsLeft
    <3> QED BY <3>1
  <2> QED BY <2>1, <2>2
<1>4. CASE pc[t] # "notify"
  BY <1>1, <1>4 DEF StepsLeft, PCs
<1> QED BY <1>3, <1>4

LEMMA SubmitNearer ==
    ASSUME TypeOK, NEW t \in Threads, Submit(t)
    PROVE  Fewer(t)
<1>1. /\ pc[t] \in PCs /\ pc \in [Threads -> PCs] /\ step[t] \in Nat \ {0}
      /\ step \in [Threads -> Nat \ {0}]
      /\ DOMAIN Triggered(t) = 1..Len(Triggered(t))
      /\ Len(Triggered(t)) \in Nat /\ Len(Triggered(t)) <= 4
  BY TriggeredType, FewTriggers DEF TypeOK, CallTypeOK
<1>2. ASSUME NEW from \in PCs \ {"done"}, NEW code, Finish(t, from, code) PROVE Fewer(t)
  <2>1. pc[t] # "done" /\ pc'[t] = "done"
    BY <1>1, <1>2 DEF Finish, Goto
  <2> QED BY <1>1, <2>1 DEF Fewer, StepsLeft, PCs
<1>3. CASE \/ Replay(t) \/ GateRefuses(t) \/ ReasonRefuses(t) \/ AuditWriteFails(t)
           \/ MandatoryFails(t) \/ SealFails(t) \/ InsertConflicts(t) \/ Feedback(t)
  <2>1. PICK from \in {"idle", "gate", "audit", "notify", "insert", "feedback"} :
          \E code : Finish(t, from, code)
    BY <1>3 DEF Replay, GateRefuses, ReasonRefuses, AuditWriteFails, MandatoryFails, SealFails,
         InsertConflicts, Feedback
  <2> QED BY <1>2, <2>1 DEF PCs
<1>4. CASE Begin(t)
  BY <1>1, <1>4 DEF Begin, Goto, Fewer, StepsLeft
<1>5. CASE GatePasses(t)
  BY <1>1, <1>5 DEF GatePasses, Goto, Fewer, StepsLeft
<1>6. CASE WriteAudit(t)
  <2>1. pc[t] = "audit" /\ pc'[t] = "notify"
    BY <1>1, <1>6 DEF WriteAudit, Goto
  <2>2. Triggered(t)' = Triggered(t) /\ step' = step
    BY <1>6 DEF WriteAudit, local, Triggered, Request
  <2>3. StepsLeft(t)' <= 7 /\ StepsLeft(t) = 8
    BY <1>1, <2>1, <2>2 DEF StepsLeft
  <2>4. StepsLeft(t)' \in Nat
    BY <1>1, <2>1, <2>2 DEF StepsLeft
  <2> QED BY <2>3, <2>4 DEF Fewer
<1>7. CASE Notify(t) \/ DigestFails(t)
  <2>1. /\ pc[t] = "notify" /\ pc' = pc /\ step[t] \in DOMAIN Triggered(t)
        /\ step'[t] = step[t] + 1
    BY <1>1, <1>7 DEF Notify, DigestFails
  <2>2. Triggered(t)' = Triggered(t)
    BY <1>7 DEF Notify, DigestFails, Triggered, Request
  <2> QED BY <1>1, <2>1, <2>2 DEF Fewer, StepsLeft
<1>8. CASE Seal(t)
  BY <1>1, <1>8 DEF Seal, Goto, Fewer, StepsLeft
<1>9. CASE Insert(t)
  BY <1>1, <1>9 DEF Insert, Goto, Fewer, StepsLeft
<1> QED BY <1>3, <1>4, <1>5, <1>6, <1>7, <1>8, <1>9 DEF Submit

\* No call of submit goes on for ever: it takes at most ten steps, the
\* notifications one by one, whatever fails on the way and whatever the other
\* calls, revisions and the caller do in between (the loop over the
\* notifications, the early returns and raises of submit). That each step is
\* taken in the end is what the fairness of Answered adds.
THEOREM CallsComeNearer ==
    Spec => /\ [](\A t \in Threads : StepsLeft(t) \in 0..10)
            /\ [][\A t \in Threads : Nearer(t)]_vars
<1>1. TypeOK => \A t \in Threads : StepsLeft(t) \in 0..10
  BY StepsLeftBounded
<1>2. IInv /\ [Next]_vars => [\A t \in Threads : Nearer(t)]_vars
  <2> SUFFICES ASSUME IInv, [Next]_vars, NEW t \in Threads
               PROVE  StepsLeft(t)' = StepsLeft(t) \/ Submit(t)
    BY SubmitNearer DEF Nearer, IInv
  <2>1. ASSUME pc'[t] = pc[t], step'[t] = step[t], call'[t] = call[t], verdict'[t] = verdict[t]
        PROVE  StepsLeft(t)' = StepsLeft(t)
    BY <2>1 DEF StepsLeft, Triggered, Request
  <2>2. CASE UNCHANGED vars
    BY <2>1, <2>2 DEF vars, local
  <2>3. ASSUME NEW u \in Threads \ {t}, Submit(u) PROVE StepsLeft(t)' = StepsLeft(t)
    BY <2>1, <2>3, SubmitFrame DEF IInv
  <2>4. CASE Acknowledge \/ Revise \/ Caller
    BY <2>1, <2>4, SurroundingsFrame DEF local
  <2> QED BY <2>2, <2>3, <2>4 DEF Next
<1>3. IInv => TypeOK
  BY DEF IInv
<1> QED BY <1>1, <1>2, <1>3, OrderOfSubmit, PTL DEF Spec
============================================================================
