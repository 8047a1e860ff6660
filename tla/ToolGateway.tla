---------------------------- MODULE ToolGateway ----------------------------
(***************************************************************************)
(* One ToolGateway with its RateLimiter and CircuitBreaker, called by the  *)
(* agents of several runs at once: the activities of every worker of the   *)
(* process use the gateway of the run that was started last.               *)
(*                                                                         *)
(* Nothing here is locked. A call passes the allowlist and the limiter     *)
(* (Ask to Enter), then the breaker (Look to Decide), then waits for the   *)
(* back end and tells the breaker how it went (Close and Zero, or Count to *)
(* Judge); each access to what the callers share is a step of its own, and *)
(* what a method has read it keeps in variables of its own meanwhile.      *)
(* Times are ages in ticks, kept up to the Horizon from which they no      *)
(* longer matter, and failures are counted up to the threshold.            *)
(***************************************************************************)
EXTENDS Naturals, Sequences, FiniteSets

CONSTANTS
    Callers,
    Nodes,         \* the agents the callers run
    Tools,         \* the tools they call
    Threshold,     \* failure_threshold
    Cooldown,      \* cooldown_seconds
    MaxRate,       \* max_calls_per_second, 0 for no limit
    Window         \* a second

ASSUME GatewayAssumptions ==
    /\ Threshold \in Nat \ {0}
    /\ Cooldown \in Nat \ {0}
    /\ MaxRate \in Nat
    /\ Window \in Nat \ {0}

VARIABLES
    circuit,    \* of each tool: state, failures counted, age of the last one
    history,    \* ages of the calls the limiter has let through
    call,       \* where each caller is, what it holds, and the answer it got last
    up,         \* the tools whose back end answers
    reported    \* for the properties to compare with: what the callers have reported,
                \* and whether they have waited for each other so far

vars == <<circuit, history, call, up, reported>>

Horizon == IF Window > Cooldown THEN Window ELSE Cooldown

Older(age) == IF age < Horizon THEN age + 1 ELSE age

\* TOOL_ALLOWLIST
Allowlist(n) ==
    CASE n = "A1" -> {"document_inventory", "classify_document", "extract_document_fields",
                      "parse_bank_statement", "resolve_borrower_identity",
                      "validate_case_completeness"}
      [] n = "A2" -> {"query_transactions", "compute_cashflow_metrics",
                      "detect_cashflow_anomalies"}
      [] n = "A3" -> {"query_transactions", "build_entity_transaction_graph",
                      "detect_transaction_cycles", "trace_funds"}
      [] n = "A4" -> {"reconcile_declared_revenue", "calculate_credit_capacity",
                      "stress_repayment_capacity", "assess_refinancing_pattern"}
      [] n = "A5" -> {"search_policy", "get_policy_clause", "evaluate_policy_rule",
                      "validate_policy_citation", "resolve_approval_authority"}
      [] n = "A9" -> {"calculate_credit_capacity", "stress_repayment_capacity",
                      "evaluate_policy_rule", "resolve_approval_authority",
                      "calculate_amortization", "resolve_pricing_band",
                      "validate_deal_structure"}
      [] OTHER -> {}

Answers == {"none", "TOOL_ACCESS_ERROR", "TOOL_RATE_LIMIT_ERROR", "DEGRADED_MODE", "SUCCESS",
            "ERROR", "RAISED"}

\* A caller: the step it is at, its tool, the answer to its last call, and the
\* method's own variables: the calls kept by the limiter, an age, a count.
Resting(answer) == [at |-> "idle", tool |-> "", answer |-> answer,
                    kept |-> << >>, age |-> 0, count |-> 0]

Init ==
    /\ circuit = [t \in Tools |-> [state |-> "CLOSED", failures |-> 0, age |-> Horizon]]
    /\ history = << >>
    /\ call = [c \in Callers |-> Resting("none")]
    /\ up = Tools
    /\ reported = [failures |-> [t \in Tools |-> 0], clean |-> {}, alone |-> TRUE]

----------------------------------------------------------------------------
\* ToolGateway.call

\* Fault: what ought to return goes on.
AnsweredOnly(c, answer) == call' = [call EXCEPT ![c].answer = answer]

Answered(c, answer) == call' = [call EXCEPT ![c] = Resting(answer)]

GoesTo(c, step) == call' = [call EXCEPT ![c].at = step]

\* Not for this agent.
Refuse(c, n, t) ==
    /\ call[c].at = "idle"
    /\ t \notin Allowlist(n)
    /\ Answered(c, "TOOL_ACCESS_ERROR")
    /\ UNCHANGED <<circuit, history, up, reported>>

Ask(c, n, t) ==
    /\ call[c].at = "idle"
    /\ t \in Allowlist(n)
    /\ call' = [call EXCEPT ![c] = [Resting("none") EXCEPT
                   !.at = IF MaxRate > 0 THEN "clean" ELSE "look", !.tool = t]]
    /\ reported' = [reported EXCEPT !.alone = @ /\ \A d \in Callers : call[d].at = "idle"]
    /\ UNCHANGED <<circuit, history, up>>

----------------------------------------------------------------------------
\* RateLimiter.allow

\* What the list comprehension keeps of the first n calls
Kept[n \in 0..Len(history)] ==
    IF n = 0 THEN << >>
    ELSE IF history[n] < Window THEN Append(Kept[n - 1], history[n]) ELSE Kept[n - 1]

Recent == Kept[Len(history)]

\* The time is taken, and the calls of the last window are collected
Clean(c) ==
    /\ call[c].at = "clean"
    /\ call' = [call EXCEPT ![c].at = "keep", ![c].kept = Recent, ![c].age = 0]
    /\ UNCHANGED <<circuit, history, up, reported>>

\* and replace the others.
Keep(c) ==
    /\ call[c].at = "keep"
    /\ history' = call[c].kept
    /\ GoesTo(c, "room")
    /\ UNCHANGED <<circuit, up, reported>>

\* Fault: the limit is exceeded by one.
HasRoomForOneMore == Len(history) <= MaxRate

HasRoom == Len(history) < MaxRate

\* Not now, if there are too many.
Room(c) ==
    /\ call[c].at = "room"
    /\ IF HasRoom THEN GoesTo(c, "append") ELSE Answered(c, "TOOL_RATE_LIMIT_ERROR")
    /\ UNCHANGED <<circuit, history, up, reported>>

\* The call is remembered by the time taken first.
Enter(c) ==
    /\ call[c].at = "append"
    /\ history' = Append(history, call[c].age)
    /\ call' = [call EXCEPT ![c].at = "look", ![c].kept = << >>, ![c].age = 0]
    /\ UNCHANGED <<circuit, up, reported>>

----------------------------------------------------------------------------
\* CircuitBreaker.allow_execution

\* Fault: a circuit on trial is not open.
AllowsWhenClosed(state) == state = "CLOSED"

Allows(state) == state \in {"CLOSED", "HALF_OPEN"}

\* get_state reads the state,
Look(c) ==
    LET state == circuit[call[c].tool].state IN
    /\ call[c].at = "look"
    /\ \/ state = "OPEN" /\ GoesTo(c, "last")
       \/ state # "OPEN" /\ Allows(state)
            /\ GoesTo(c, IF state = "CLOSED" THEN "execute" ELSE "try")
       \/ state # "OPEN" /\ ~Allows(state) /\ Answered(c, "DEGRADED_MODE")
    /\ UNCHANGED <<circuit, history, up, reported>>

\* of an open circuit the time of the last failure,
Last(c) ==
    /\ call[c].at = "last"
    /\ call' = [call EXCEPT ![c].at = "decide", ![c].age = circuit[call[c].tool].age]
    /\ UNCHANGED <<circuit, history, up, reported>>

\* and once the cooldown is over puts it on trial, whatever it has become.
Decide(c) ==
    LET t == call[c].tool IN
    /\ call[c].at = "decide"
    /\ \/ /\ call[c].age >= Cooldown
          /\ circuit' = [circuit EXCEPT ![t].state = "HALF_OPEN"]
          /\ IF Allows("HALF_OPEN")
             THEN call' = [call EXCEPT ![c].at = "try", ![c].age = 0]
             ELSE Answered(c, "DEGRADED_MODE")
       \/ /\ call[c].age < Cooldown
          /\ Answered(c, "DEGRADED_MODE")
          /\ UNCHANGED circuit
    /\ UNCHANGED <<history, up, reported>>

----------------------------------------------------------------------------
\* The back end ("execute", or "try" if the circuit is on trial), and what the
\* breaker is told of it. Recording(t): who is in record_failure for t.
Recording(t) == {c \in Callers : call[c].tool = t /\ call[c].at \in {"write", "stamp", "judge"}}

\* The back end has answered: record_success closes the circuit
Close(c) ==
    LET t == call[c].tool IN
    /\ call[c].at \in {"execute", "try"}
    /\ t \in up
    /\ circuit' = [circuit EXCEPT ![t].state = "CLOSED"]
    /\ reported' = [reported EXCEPT !.clean = IF Recording(t) = {} THEN @ \cup {c} ELSE @ \ {c}]
    /\ GoesTo(c, "zero")
    /\ UNCHANGED <<history, up>>

\* Fault: the failures are not forgotten.
StillCounted(t) == circuit[t].failures

ZeroOf(t) == 0

\* and forgets the failures.
Zero(c) ==
    LET t == call[c].tool IN
    /\ call[c].at = "zero"
    /\ circuit' = [circuit EXCEPT ![t].failures = ZeroOf(t)]
    /\ reported' = [reported EXCEPT !.failures[t] = IF c \in reported.clean THEN 0 ELSE @]
    /\ Answered(c, "SUCCESS")
    /\ UNCHANGED <<history, up>>

OneMore(n) == IF n < Threshold THEN n + 1 ELSE Threshold

\* The back end has failed in the way that is foreseen: record_failure reads
\* the count,
Count(c) ==
    LET t == call[c].tool IN
    /\ call[c].at \in {"execute", "try"}
    /\ t \notin up
    /\ call' = [call EXCEPT ![c].at = "write", ![c].count = OneMore(circuit[t].failures)]
    /\ reported' = [reported EXCEPT !.failures[t] = OneMore(@),
                                    !.clean = {d \in @ : call[d].tool # t}]
    /\ UNCHANGED <<circuit, history, up>>

\* writes it,
Write(c) ==
    /\ call[c].at = "write"
    /\ circuit' = [circuit EXCEPT ![call[c].tool].failures = call[c].count]
    /\ GoesTo(c, "stamp")
    /\ UNCHANGED <<history, up, reported>>

\* writes the time, taken at some moment since,
Stamp(c) ==
    /\ call[c].at = "stamp"
    /\ \E age \in 0..call[c].age : circuit' = [circuit EXCEPT ![call[c].tool].age = age]
    /\ call' = [call EXCEPT ![c].at = "judge", ![c].age = 0]
    /\ UNCHANGED <<history, up, reported>>

\* Fault: only a closed circuit opens.
TooManyWhenClosed(c) == call[c].count >= Threshold /\ circuit[call[c].tool].state = "CLOSED"

\* Fault: one failure less is enough.
TooManyEarly(c) == call[c].count + 1 >= Threshold

TooMany(c) == call[c].count >= Threshold

\* and opens the circuit by the count that it read itself.
Judge(c) ==
    /\ call[c].at = "judge"
    /\ circuit' = IF TooMany(c) THEN [circuit EXCEPT ![call[c].tool].state = "OPEN"] ELSE circuit
    /\ Answered(c, "ERROR")
    /\ UNCHANGED <<history, up, reported>>

\* An exception of any other kind passes through, and the breaker never knows.
Raise(c) ==
    /\ call[c].at \in {"execute", "try"}
    /\ call[c].tool \notin up
    /\ Answered(c, "RAISED")
    /\ UNCHANGED <<circuit, history, up, reported>>

----------------------------------------------------------------------------
\* The clock, and the back ends

\* The ages a caller holds: of the calls it keeps; since it took the time, of
\* the failure it read, or since it wrote the count.
Aged(held) ==
    [held EXCEPT !.kept = [i \in DOMAIN held.kept |-> Older(held.kept[i])],
                 !.age = IF held.at \in {"keep", "room", "append", "decide", "stamp"}
                         THEN Older(@) ELSE @]

Tick ==
    /\ circuit' = [t \in Tools |-> [circuit[t] EXCEPT !.age = Older(@)]]
    /\ history' = [i \in DOMAIN history |-> Older(history[i])]
    /\ call' = [c \in Callers |-> Aged(call[c])]
    /\ UNCHANGED <<up, reported>>

Switch(t) ==
    /\ up' = IF t \in up THEN up \ {t} ELSE up \cup {t}
    /\ UNCHANGED <<circuit, history, call, reported>>

\* A call that was begun goes on.
Step(c) ==
    \/ Clean(c) \/ Keep(c) \/ Room(c) \/ Enter(c)
    \/ Look(c) \/ Last(c) \/ Decide(c)
    \/ Close(c) \/ Zero(c)
    \/ Count(c) \/ Write(c) \/ Stamp(c) \/ Judge(c)
    \/ Raise(c)

Next ==
    \/ \E c \in Callers :
        \/ \E n \in Nodes, t \in Tools : Refuse(c, n, t) \/ Ask(c, n, t)
        \/ Step(c)
    \/ Tick
    \/ \E t \in Tools : Switch(t)

\* Time goes by, and a call that was begun comes to its end.
Fairness == WF_vars(Tick) /\ \A c \in Callers : WF_vars(Step(c))

Spec     == Init /\ [][Next]_vars
FairSpec == Spec /\ Fairness

----------------------------------------------------------------------------
\* Properties

Steps == {"idle", "clean", "keep", "room", "append", "look", "last", "decide", "execute",
          "try", "zero", "write", "stamp", "judge"}

\* Types; and a call that is under way has a tool, and no answer yet.
TypeOK ==
    /\ circuit \in [Tools -> [state: {"CLOSED", "OPEN", "HALF_OPEN"}, failures: 0..Threshold,
                              age: 0..Horizon]]
    /\ history \in Seq(0..Horizon)
    /\ call \in [Callers -> [at: Steps, tool: Tools \cup {""}, answer: Answers,
                             kept: Seq(0..Horizon), age: 0..Horizon, count: 0..Threshold]]
    /\ \A c \in Callers : call[c].at # "idle" => call[c].tool \in Tools /\ call[c].answer = "none"
    /\ up \subseteq Tools
    /\ reported \in [failures: [Tools -> 0..Threshold], clean: SUBSET Callers, alone: BOOLEAN]

\* However the callers overlap, counts may be lost but never made up: a circuit
\* is open only if its tool has failed Threshold times since the last success
\* whose recording no failure's overlapped. (Of a success that one did overlap
\* the circuit may open although it has just been reported.)
OpensForCause == \A t \in Tools : circuit[t].state = "OPEN" => reported.failures[t] >= Threshold

\* However many counts are lost: a tool that is gone for good has its circuit
\* opened again and again, if only its failures go on being reported.
Reported(t) == \E c \in Callers : call[c].tool = t /\ Judge(c)

Trips ==
    \A t \in Tools :
        (<>[](t \notin up) /\ []<><<Reported(t)>>_vars) => []<>(circuit[t].state = "OPEN")

\* A tool whose back end is there for good is used again, and for good, if
\* only somebody goes on calling it.
Called(t) == \E c \in Callers : call[c].tool = t /\ Look(c)

Recovers ==
    \A t \in Tools :
        (<>[](t \in up) /\ []<><<Called(t)>>_vars) => <>[](circuit[t].state = "CLOSED")

\* As long as the callers have waited for each other: a call goes to the back
\* end unless the tool has failed Threshold times since it last succeeded, the
\* last time less than Cooldown ago; and just then it is answered in its place.
Due(t) == reported.failures[t] >= Threshold /\ circuit[t].age < Cooldown

FailsFastJustWhenDue ==
    [][\A c \in Callers : (reported.alone /\ call[c].at \in {"look", "decide"}) =>
         /\ call'[c].at \in {"execute", "try"} => ~Due(call[c].tool)
         /\ call'[c].answer = "DEGRADED_MODE" => Due(call[c].tool)]_vars

\* As long as the callers have waited for each other: never more than MaxRate
\* calls are remembered, none is forgotten within a window, and only calls of the
\* window before it was begun keep another from being let through.
Young(h) == {i \in DOMAIN h : h[i] < Window}

RateIsKept ==
    /\ [](reported.alone => Len(history) <= MaxRate)
    /\ [][\A c \in Callers : (reported.alone /\ Keep(c)) =>
            Cardinality(Young(history')) >= Cardinality(Young(history))]_vars
    /\ [][\A c \in Callers :
            (reported.alone /\ call[c].at = "room" /\ call'[c].answer = "TOOL_RATE_LIMIT_ERROR") =>
               Cardinality({i \in DOMAIN history : history[i] < Window + call[c].age}) >= MaxRate]_vars
=============================================================================
