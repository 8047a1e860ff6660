------------------------- MODULE ToolGatewayProofs -------------------------
(***************************************************************************)
(* ToolGateway for any agents and tools, any threshold, cooldown and rate. *)
(* For any number of callers, whose unlocked steps overlap as they may:    *)
(* the types, and that no circuit opens without its cause. As long as the  *)
(* callers wait for each other, as the agents of a run in memory do: the   *)
(* breaker replaces the back end just when it should, and the limiter      *)
(* keeps its rate.                                                         *)
(***************************************************************************)
EXTENDS ToolGateway, FiniteSetTheorems, SequenceTheorems, TLAPS

Circuits == [Tools -> [state: {"CLOSED", "OPEN", "HALF_OPEN"}, failures: 0..Threshold,
                       age: 0..Horizon]]
Held     == [at: Steps, tool: Tools \cup {""}, answer: Answers, kept: Seq(0..Horizon),
             age: 0..Horizon, count: 0..Threshold]
Reports  == [failures: [Tools -> 0..Threshold], clean: SUBSET Callers, alone: BOOLEAN]

LEMMA Bounds ==
    /\ Threshold \in Nat /\ 0 < Threshold /\ 0 \in 0..Threshold
    /\ Cooldown \in Nat /\ 0 < Cooldown /\ Window \in Nat /\ 0 < Window /\ MaxRate \in Nat
    /\ Horizon \in Nat /\ Cooldown <= Horizon /\ Window <= Horizon
    /\ 0 \in 0..Horizon /\ Horizon \in 0..Horizon
BY GatewayAssumptions DEF Horizon

LEMMA OlderType == ASSUME NEW a \in 0..Horizon PROVE Older(a) \in 0..Horizon /\ a <= Older(a)
BY Bounds DEF Older

LEMMA OneMoreType == ASSUME NEW n \in 0..Threshold PROVE OneMore(n) \in 0..Threshold /\ n <= OneMore(n)
BY Bounds DEF OneMore

LEMMA OlderSeq ==
    ASSUME NEW h \in Seq(0..Horizon)
    PROVE  /\ [i \in DOMAIN h |-> Older(h[i])] \in Seq(0..Horizon)
           /\ Len([i \in DOMAIN h |-> Older(h[i])]) = Len(h)
           /\ DOMAIN [i \in DOMAIN h |-> Older(h[i])] = DOMAIN h
<1> DEFINE L == Len(h)
           R == 0..Horizon
<1> HIDE DEF R
<1>a. h \in Seq(R)
  BY DEF R
<1>1. L \in Nat /\ DOMAIN h = 1..L /\ \A i \in 1..L : h[i] \in R
  BY <1>a
<1>2. \A i \in 1..L : Older(h[i]) \in R
  BY <1>1, OlderType DEF R
<1> HIDE DEF L
<1>3. [i \in 1..L |-> Older(h[i])] \in Seq(R) /\ Len([i \in 1..L |-> Older(h[i])]) = L
  BY <1>1, <1>2
<1>4. [i \in DOMAIN h |-> Older(h[i])] = [i \in 1..L |-> Older(h[i])]
  BY <1>1
<1>5. DOMAIN [i \in 1..L |-> Older(h[i])] = 1..L
  OBVIOUS
<1> QED BY <1>1, <1>3, <1>4, <1>5 DEF R

LEMMA RestingType == ASSUME NEW a \in Answers PROVE Resting(a) \in Held
<1>1. << >> \in Seq(0..Horizon)
  OBVIOUS
<1> QED BY <1>1, Bounds DEF Resting, Held, Steps

\* The clock leaves the place and the rest of what a caller holds.
LEMMA AgedType ==
    ASSUME NEW h \in Held
    PROVE  /\ Aged(h) \in Held
           /\ Aged(h).at = h.at /\ Aged(h).tool = h.tool /\ Aged(h).answer = h.answer
           /\ Aged(h).count = h.count
           /\ Aged(h).kept = [i \in DOMAIN h.kept |-> Older(h.kept[i])]
           /\ Aged(h).age = IF h.at \in {"keep", "room", "append", "decide", "stamp"}
                            THEN Older(h.age) ELSE h.age
<1> DEFINE k == [i \in DOMAIN h.kept |-> Older(h.kept[i])]
           a == IF h.at \in {"keep", "room", "append", "decide", "stamp"}
                THEN Older(h.age) ELSE h.age
<1>1. h.kept \in Seq(0..Horizon) /\ h.age \in 0..Horizon
  BY DEF Held
<1>2. k \in Seq(0..Horizon) /\ a \in 0..Horizon
  BY <1>1, OlderSeq, OlderType
<1> HIDE DEF k, a
<1>3. Aged(h) = [h EXCEPT !.kept = k, !.age = a]
  BY DEF Aged, k, a
<1> QED BY <1>2, <1>3 DEF Held, k, a

----------------------------------------------------------------------------
\* The list comprehension of allow

\* Induction over the naturals, with a set for the predicate: the least number
\* that is not in the set is neither 0 nor the successor of one that is.
LEMMA SetInduction ==
    ASSUME NEW S, 0 \in S, \A n \in Nat : n \in S => n + 1 \in S
    PROVE  \A n \in Nat : n \in S
<1> DEFINE R == OpToRel(<, Nat)
           T == {n \in Nat : n \notin S}
<1>1. \A x, y \in Nat : <<x, y>> \in R <=> x < y
  BY DEF OpToRel
<1>2. IsWellFoundedOn(R, Nat)
  BY NatLessThanWellFounded
<1> SUFFICES ASSUME T # {} PROVE FALSE
  OBVIOUS
<1> HIDE DEF R
<1>3. PICK m \in T : \A y \in T : ~(<<y, m>> \in R)
  BY <1>2, WFMin
<1>4. m \in Nat /\ m - 1 \in Nat /\ m - 1 \in T /\ m - 1 < m
  OBVIOUS
<1> QED BY <1>1, <1>3, <1>4

\* How the filter of allow goes on with the n-th call
Filtered(kept, n) == IF history[n] < Window THEN Append(kept, history[n]) ELSE kept

IsFilter(f, m) == f = [n \in 0..m |-> IF n = 0 THEN << >> ELSE Filtered(f[n - 1], n)]

\* There is such a filter for each length, so that Kept is one.
LEMMA FilterExists == \A m \in Nat : \E f : IsFilter(f, m)
<1> DEFINE S == {m \in Nat : \E f : IsFilter(f, m)}
<1>1. 0 \in S
  <2> DEFINE f == [n \in 0..0 |-> << >>]
  <2>1. IsFilter(f, 0)
    BY DEF IsFilter
  <2> QED BY <2>1
<1>2. ASSUME NEW m \in Nat, m \in S PROVE m + 1 \in S
  <2>1. PICK f : IsFilter(f, m)
    BY <1>2
  <2> DEFINE g == [n \in 0..(m + 1) |-> IF n \in 0..m THEN f[n] ELSE Filtered(f[m], m + 1)]
  <2>2. ASSUME NEW n \in 0..(m + 1)
        PROVE  g[n] = IF n = 0 THEN << >> ELSE Filtered(g[n - 1], n)
    <3>1. CASE n \in 0..m
      <4>1. f[n] = IF n = 0 THEN << >> ELSE Filtered(f[n - 1], n)
        BY <2>1, <3>1 DEF IsFilter
      <4>2. n # 0 => n - 1 \in 0..m /\ n - 1 \in 0..(m + 1)
        BY <3>1
      <4> QED BY <2>2, <3>1, <4>1, <4>2
    <3>2. CASE n = m + 1
      <4>1. n # 0 /\ n \notin 0..m /\ n - 1 = m /\ m \in 0..m /\ m \in 0..(m + 1)
        BY <3>2
      <4> QED BY <2>2, <3>2, <4>1
    <3> QED BY <2>2, <3>1, <3>2
  <2>3. g = [n \in 0..(m + 1) |-> g[n]]
    OBVIOUS
  <2> HIDE DEF g
  <2>4. IsFilter(g, m + 1)
    BY <2>2, <2>3 DEF IsFilter
  <2> QED BY <2>4
<1> HIDE DEF S
<1>3. \A m \in Nat : m \in S
  BY <1>1, <1>2, SetInduction
<1> QED BY <1>3 DEF S

LEMMA KeptIsFilter == ASSUME NEW Ages, history \in Seq(Ages) PROVE IsFilter(Kept, Len(history))
<1>1. Len(history) \in Nat
  OBVIOUS
<1>2. \E f : f = [n \in 0..Len(history) |->
                    IF n = 0 THEN << >>
                    ELSE IF history[n] < Window THEN Append(f[n - 1], history[n]) ELSE f[n - 1]]
  BY <1>1, FilterExists DEF IsFilter, Filtered
<1> QED BY <1>2 DEF Kept, IsFilter, Filtered

\* The calls that the filter keeps are among those it looks at.
LEMMA RecentType == ASSUME NEW Ages, history \in Seq(Ages) PROVE Recent \in Seq(Ages)
<1> DEFINE L == Len(history)
           S == {n \in Nat : n \in 0..L => Kept[n] \in Seq(Ages)}
<1>1. /\ L \in Nat /\ << >> \in Seq(Ages)
      /\ \A n \in 1..L : history[n] \in Ages
  OBVIOUS
<1>2. \A n \in 0..L : Kept[n] = IF n = 0 THEN << >> ELSE Filtered(Kept[n - 1], n)
  BY KeptIsFilter DEF IsFilter
<1> HIDE DEF L
<1>3. 0 \in S
  <2>1. Kept[0] = << >>
    BY <1>1, <1>2
  <2> QED BY <1>1, <2>1
<1>4. ASSUME NEW n \in Nat, n \in S PROVE n + 1 \in S
  <2> SUFFICES ASSUME n + 1 \in 0..L PROVE Kept[n + 1] \in Seq(Ages)
    OBVIOUS
  <2>1. n \in 0..L /\ n + 1 \in 1..L /\ n + 1 # 0 /\ (n + 1) - 1 = n
    BY <1>1
  <2>2. Kept[n] \in Seq(Ages) /\ history[n + 1] \in Ages
    BY <1>1, <1>4, <2>1
  <2>3. Kept[n + 1] = Filtered(Kept[n], n + 1)
    BY <1>2, <2>1
  <2> QED BY <2>2, <2>3 DEF Filtered
<1> HIDE DEF S
<1>5. \A n \in Nat : n \in S
  BY <1>3, <1>4, SetInduction
<1>6. L \in 0..L
  BY <1>1
<1> QED BY <1>1, <1>5, <1>6 DEF S, L, Recent

----------------------------------------------------------------------------
\* Types

LEMMA InitType == Init => TypeOK
<1> SUFFICES ASSUME Init PROVE TypeOK
  OBVIOUS
<1>1. Resting("none") \in Held /\ Resting("none").at = "idle"
  BY RestingType DEF Answers, Resting
<1>2. call \in [Callers -> Held] /\ \A c \in Callers : call[c].at = "idle"
  BY <1>1 DEF Init
<1>3. circuit \in Circuits
  BY Bounds DEF Init, Circuits
<1>4. history \in Seq(0..Horizon) /\ up \subseteq Tools
  BY DEF Init
<1>5. reported \in Reports
  BY Bounds DEF Init, Reports
<1> QED BY <1>2, <1>3, <1>4, <1>5 DEF TypeOK, Held, Circuits, Reports

\* What a step of one caller does to the callers: it is well-typed, if what
\* that caller holds after it is, and has a tool and no answer unless it rests.
LEMMA OneCaller ==
    ASSUME TypeOK, NEW c \in Callers, NEW h \in Held, call' = [call EXCEPT ![c] = h],
           h.at # "idle" => h.tool \in Tools /\ h.answer = "none"
    PROVE  /\ call' \in [Callers -> Held]
           /\ \A d \in Callers : call'[d].at # "idle" => call'[d].tool \in Tools
                                                        /\ call'[d].answer = "none"
<1>1. call \in [Callers -> Held]
  BY DEF TypeOK, Held
<1> QED BY <1>1 DEF TypeOK

LEMMA StepType == TypeOK /\ [Next]_vars => TypeOK'
<1> SUFFICES ASSUME TypeOK, [Next]_vars PROVE TypeOK'
  OBVIOUS
<1>0. /\ call \in [Callers -> Held] /\ circuit \in Circuits /\ history \in Seq(0..Horizon)
      /\ up \subseteq Tools /\ reported \in Reports
      /\ \A c \in Callers : call[c].at # "idle" => call[c].tool \in Tools /\ call[c].answer = "none"
  BY DEF TypeOK, Held, Circuits, Reports
<1> DEFINE CallsOK == /\ call \in [Callers -> Held]
                      /\ \A c \in Callers : call[c].at # "idle" => call[c].tool \in Tools
                                                                  /\ call[c].answer = "none"
           RestOK  == /\ circuit \in Circuits /\ history \in Seq(0..Horizon) /\ up \subseteq Tools
                      /\ reported \in Reports
<1>a. CallsOK' /\ RestOK' => TypeOK'
  BY DEF TypeOK, Held, Circuits, Reports
<1>b. ASSUME NEW c \in Callers, NEW a \in Answers, Answered(c, a) PROVE CallsOK'
  BY <1>b, OneCaller, RestingType DEF Answered, Resting
<1>c. ASSUME NEW c \in Callers, NEW s \in Steps, call[c].at # "idle", GoesTo(c, s) PROVE CallsOK'
  <2> DEFINE h == [call[c] EXCEPT !.at = s]
  <2>1. call[c] \in Held /\ h \in Held /\ h.tool = call[c].tool /\ h.answer = call[c].answer
    BY <1>0, <1>c DEF Held
  <2>2. call' = [call EXCEPT ![c] = h]
    BY <1>0, <1>c DEF GoesTo
  <2> HIDE DEF h
  <2> QED BY <1>0, <1>c, <2>1, <2>2, OneCaller
<1>d. Recent \in Seq(0..Horizon)
  BY <1>0, RecentType
<1>1. ASSUME NEW c \in Callers, NEW n \in Nodes, NEW t \in Tools, Refuse(c, n, t)
      PROVE  TypeOK'
  <2>1. CallsOK'
    BY <1>1, <1>b DEF Refuse, Answers
  <2> QED BY <1>0, <1>1, <1>a, <2>1 DEF Refuse
<1>2. ASSUME NEW c \in Callers, NEW n \in Nodes, NEW t \in Tools, Ask(c, n, t)
      PROVE  TypeOK'
  <2> DEFINE h == [Resting("none") EXCEPT !.at = IF MaxRate > 0 THEN "clean" ELSE "look", !.tool = t]
  <2>1. Resting("none") \in Held /\ Resting("none").answer = "none"
    BY RestingType DEF Answers, Resting
  <2>2. h \in Held /\ h.tool = t /\ h.answer = "none"
    BY <2>1 DEF Held, Steps
  <2>3. call' = [call EXCEPT ![c] = h]
    BY <1>2 DEF Ask
  <2> HIDE DEF h
  <2>4. CallsOK'
    BY <2>2, <2>3, OneCaller
  <2>5. reported' \in Reports
    BY <1>0, <1>2 DEF Ask, Reports
  <2> QED BY <1>0, <1>2, <1>a, <2>4, <2>5 DEF Ask
<1>3. ASSUME NEW c \in Callers, Clean(c) PROVE TypeOK'
  <2> DEFINE h == [call[c] EXCEPT !.at = "keep", !.kept = Recent, !.age = 0]
  <2>1. call[c] \in Held /\ h \in Held /\ h.tool = call[c].tool /\ h.answer = call[c].answer
    BY <1>0, <1>d, Bounds DEF Held, Steps
  <2>2. call' = [call EXCEPT ![c] = h] /\ call[c].at # "idle"
    BY <1>0, <1>3 DEF Clean
  <2> HIDE DEF h
  <2>3. CallsOK'
    BY <1>0, <2>1, <2>2, OneCaller
  <2> QED BY <1>0, <1>3, <1>a, <2>3 DEF Clean
<1>4. ASSUME NEW c \in Callers, Keep(c) PROVE TypeOK'
  <2>1. CallsOK'
    BY <1>4, <1>c DEF Keep, Steps
  <2>2. history' \in Seq(0..Horizon)
    BY <1>0, <1>4 DEF Keep, Held
  <2> QED BY <1>0, <1>4, <1>a, <2>1, <2>2 DEF Keep
<1>5. ASSUME NEW c \in Callers, Room(c) PROVE TypeOK'
  <2>1. CallsOK'
    BY <1>5, <1>b, <1>c DEF Room, Steps, Answers
  <2> QED BY <1>0, <1>5, <1>a, <2>1 DEF Room
<1>6. ASSUME NEW c \in Callers, Enter(c) PROVE TypeOK'
  <2> DEFINE h == [call[c] EXCEPT !.at = "look", !.kept = << >>, !.age = 0]
  <2>1. call[c] \in Held /\ << >> \in Seq(0..Horizon)
    BY <1>0
  <2>2. h \in Held /\ h.tool = call[c].tool /\ h.answer = call[c].answer
    BY <2>1, Bounds DEF Held, Steps
  <2>3. call' = [call EXCEPT ![c] = h] /\ call[c].at # "idle"
    BY <1>0, <1>6 DEF Enter
  <2> HIDE DEF h
  <2>4. CallsOK'
    BY <1>0, <2>2, <2>3, OneCaller
  <2>5. history' = Append(history, call[c].age) /\ call[c].age \in 0..Horizon
    BY <1>6, <2>1 DEF Enter, Held
  <2>6. history' \in Seq(0..Horizon)
    BY <1>0, <2>5
  <2> QED BY <1>0, <1>6, <1>a, <2>4, <2>6 DEF Enter
<1>7. ASSUME NEW c \in Callers, Look(c) PROVE TypeOK'
  <2>1. CallsOK'
    BY <1>7, <1>b, <1>c DEF Look, Steps, Answers
  <2> QED BY <1>0, <1>7, <1>a, <2>1 DEF Look
<1>8. ASSUME NEW c \in Callers, Last(c) PROVE TypeOK'
  <2> DEFINE h == [call[c] EXCEPT !.at = "decide", !.age = circuit[call[c].tool].age]
  <2>1. call[c] \in Held /\ call[c].at # "idle" /\ circuit[call[c].tool].age \in 0..Horizon
    BY <1>0, <1>8 DEF Last, Circuits
  <2>2. h \in Held /\ h.tool = call[c].tool /\ h.answer = call[c].answer
    BY <2>1 DEF Held, Steps
  <2>3. call' = [call EXCEPT ![c] = h]
    BY <1>0, <1>8 DEF Last
  <2> HIDE DEF h
  <2>4. CallsOK'
    BY <1>0, <2>1, <2>2, <2>3, OneCaller
  <2> QED BY <1>0, <1>8, <1>a, <2>4 DEF Last
<1>9. ASSUME NEW c \in Callers, Decide(c) PROVE TypeOK'
  <2> DEFINE h == [call[c] EXCEPT !.at = "try", !.age = 0]
  <2>1. call[c] \in Held /\ call[c].at # "idle" /\ call[c].tool \in Tools
    <3>1. call[c].at = "decide"
      BY <1>9 DEF Decide
    <3> QED BY <1>0, <3>1
  <2>2. h \in Held /\ h.tool = call[c].tool /\ h.answer = call[c].answer
    BY <2>1, Bounds DEF Held, Steps
  <2>3. call' = [call EXCEPT ![c] = h] \/ Answered(c, "DEGRADED_MODE")
    <3>1. h = [call[c] EXCEPT !.at = "try", !.age = 0]
      OBVIOUS
    <3> HIDE DEF h
    <3>2. CASE call[c].age >= Cooldown /\ Allows("HALF_OPEN")
      <4>0. call[c].age \in 0..Horizon
        BY <2>1 DEF Held
      <4>1. ~(call[c].age < Cooldown)
        BY <3>2, <4>0, Bounds
      <4>2. call' = [call EXCEPT ![c].at = "try", ![c].age = 0]
        BY <1>9, <3>2, <4>1 DEF Decide
      <4> QED BY <1>0, <3>1, <4>2
    <3>3. CASE ~(call[c].age >= Cooldown /\ Allows("HALF_OPEN"))
      BY <1>9, <3>3 DEF Decide
    <3> QED BY <3>2, <3>3
  <2> HIDE DEF h
  <2>4. CallsOK'
    BY <1>0, <1>b, <2>1, <2>2, <2>3, OneCaller DEF Answers
  <2>5. circuit' \in Circuits
    <3>1. circuit' = circuit \/ circuit' = [circuit EXCEPT ![call[c].tool].state = "HALF_OPEN"]
      BY <1>9 DEF Decide
    <3>2. CASE circuit' = circuit
      BY <1>0, <3>2
    <3>3. CASE circuit' = [circuit EXCEPT ![call[c].tool].state = "HALF_OPEN"]
      BY <1>0, <2>1, <3>3 DEF Circuits
    <3> QED BY <3>1, <3>2, <3>3
  <2> QED BY <1>0, <1>9, <1>a, <2>4, <2>5 DEF Decide
<1>10. ASSUME NEW c \in Callers, Close(c) PROVE TypeOK'
  <2>1. CallsOK' /\ call[c].tool \in Tools
    BY <1>0, <1>10, <1>c DEF Close, Steps
  <2>2. circuit' \in Circuits
    BY <1>0, <1>10, <2>1 DEF Close, Circuits
  <2>3. reported' \in Reports
    BY <1>0, <1>10 DEF Close, Reports
  <2> QED BY <1>0, <1>10, <1>a, <2>1, <2>2, <2>3 DEF Close
<1>11. ASSUME NEW c \in Callers, Zero(c) PROVE TypeOK'
  <2>1. CallsOK' /\ call[c].tool \in Tools
    BY <1>0, <1>11, <1>b DEF Zero, Answers
  <2>2. circuit' \in Circuits
    BY <1>0, <1>11, <2>1, Bounds DEF Zero, ZeroOf, Circuits
  <2>3. reported' \in Reports
    BY <1>0, <1>11, <2>1, Bounds DEF Zero, Reports
  <2> QED BY <1>0, <1>11, <1>a, <2>1, <2>2, <2>3 DEF Zero
<1>12. ASSUME NEW c \in Callers, Count(c) PROVE TypeOK'
  <2> DEFINE t == call[c].tool
             h == [call[c] EXCEPT !.at = "write", !.count = OneMore(circuit[t].failures)]
  <2>1. call[c] \in Held /\ call[c].at # "idle" /\ t \in Tools
        /\ circuit[t].failures \in 0..Threshold /\ reported.failures[t] \in 0..Threshold
    BY <1>0, <1>12 DEF Count, Circuits, Reports
  <2>2. OneMore(circuit[t].failures) \in 0..Threshold /\ OneMore(reported.failures[t]) \in 0..Threshold
    BY <2>1, OneMoreType
  <2>3. h \in Held /\ h.tool = call[c].tool /\ h.answer = call[c].answer
    BY <2>1, <2>2 DEF Held, Steps
  <2>4. call' = [call EXCEPT ![c] = h]
    BY <1>0, <1>12 DEF Count
  <2>5. reported' \in Reports
    BY <1>0, <1>12, <2>2 DEF Count, Reports
  <2> HIDE DEF h
  <2>6. CallsOK'
    BY <1>0, <2>1, <2>3, <2>4, OneCaller
  <2> QED BY <1>0, <1>12, <1>a, <2>5, <2>6 DEF Count
<1>13. ASSUME NEW c \in Callers, Write(c) PROVE TypeOK'
  <2>1. CallsOK' /\ call[c].tool \in Tools
    BY <1>0, <1>13, <1>c DEF Write, Steps
  <2>2. circuit' \in Circuits
    BY <1>0, <1>13, <2>1 DEF Write, Circuits, Held
  <2> QED BY <1>0, <1>13, <1>a, <2>1, <2>2 DEF Write
<1>14. ASSUME NEW c \in Callers, Stamp(c) PROVE TypeOK'
  <2> DEFINE h == [call[c] EXCEPT !.at = "judge", !.age = 0]
  <2>1. call[c] \in Held /\ call[c].at # "idle" /\ call[c].tool \in Tools /\ call[c].age \in 0..Horizon
    BY <1>0, <1>14 DEF Stamp, Held
  <2>2. h \in Held /\ h.tool = call[c].tool /\ h.answer = call[c].answer
    BY <2>1, Bounds DEF Held, Steps
  <2>3. call' = [call EXCEPT ![c] = h]
    BY <1>0, <1>14 DEF Stamp
  <2>4. PICK a \in 0..call[c].age : circuit' = [circuit EXCEPT ![call[c].tool].age = a]
    BY <1>14 DEF Stamp
  <2>5. a \in 0..Horizon
    BY <2>1, <2>4, Bounds
  <2>6. circuit' \in Circuits
    BY <1>0, <2>1, <2>4, <2>5 DEF Circuits
  <2> HIDE DEF h
  <2>7. CallsOK'
    BY <1>0, <2>1, <2>2, <2>3, OneCaller
  <2> QED BY <1>0, <1>14, <1>a, <2>6, <2>7 DEF Stamp
<1>15. ASSUME NEW c \in Callers, Judge(c) PROVE TypeOK'
  <2>1. CallsOK' /\ call[c].tool \in Tools
    BY <1>0, <1>15, <1>b DEF Judge, Answers
  <2>2. circuit' \in Circuits
    BY <1>0, <1>15, <2>1 DEF Judge, Circuits
  <2> QED BY <1>0, <1>15, <1>a, <2>1, <2>2 DEF Judge
<1>16. ASSUME NEW c \in Callers, Raise(c) PROVE TypeOK'
  <2>1. CallsOK'
    BY <1>16, <1>b DEF Raise, Answers
  <2> QED BY <1>0, <1>16, <1>a, <2>1 DEF Raise
<1>17. CASE Tick
  <2>1. CallsOK'
    <3>1. ASSUME NEW c \in Callers
          PROVE  call'[c] \in Held /\ (call'[c].at # "idle" => call'[c].tool \in Tools
                                                              /\ call'[c].answer = "none")
      BY <1>0, <1>17, AgedType DEF Tick
    <3> QED BY <1>17, <3>1 DEF Tick
  <2>2. circuit' \in Circuits
    <3>1. ASSUME NEW t \in Tools
          PROVE  [circuit[t] EXCEPT !.age = Older(@)] \in
                   [state: {"CLOSED", "OPEN", "HALF_OPEN"}, failures: 0..Threshold, age: 0..Horizon]
      BY <1>0, OlderType DEF Circuits
    <3> QED BY <1>17, <3>1 DEF Tick, Circuits
  <2>3. history' \in Seq(0..Horizon)
    BY <1>0, <1>17, OlderSeq DEF Tick
  <2> QED BY <1>0, <1>17, <1>a, <2>1, <2>2, <2>3 DEF Tick
<1>18. ASSUME NEW t \in Tools, Switch(t) PROVE TypeOK'
  BY <1>0, <1>18, <1>a DEF Switch
<1>19. CASE UNCHANGED vars
  BY <1>0, <1>19, <1>a DEF vars
<1> QED BY <1>1, <1>2, <1>3, <1>4, <1>5, <1>6, <1>7, <1>8, <1>9, <1>10, <1>11, <1>12, <1>13,
           <1>14, <1>15, <1>16, <1>17, <1>18, <1>19 DEF Next, Step

\* The types of circuits, calls, back ends and of what the limiter remembers,
\* however many callers overlap; and a call that is under way has a tool and no
\* answer yet.
THEOREM TypeCorrect == Spec => []TypeOK
BY InitType, StepType, PTL DEF Spec

----------------------------------------------------------------------------
\* What opens a circuit

InRecord(d) == call[d].at \in {"write", "stamp", "judge"}

\* No count, shared or held, exceeds what has been reported; and while a
\* success that nothing has overlapped so far is recorded, no failure is, and
\* the circuit is not open.
Caused ==
    /\ \A t \in Tools : circuit[t].failures <= reported.failures[t]
    /\ \A d \in Callers : InRecord(d) => call[d].count <= reported.failures[call[d].tool]
    /\ OpensForCause
    /\ \A d \in reported.clean : call[d].at = "zero" =>
          circuit[call[d].tool].state # "OPEN" /\ Recording(call[d].tool) = {}

\* Steps that report nothing, raise no count and open no circuit
LEMMA CausedKept ==
    ASSUME TypeOK, Caused, reported'.failures = reported.failures, reported'.clean = reported.clean,
           \A t \in Tools : circuit'[t].failures = circuit[t].failures
                            /\ (circuit'[t].state = "OPEN" => circuit[t].state = "OPEN"),
           \A d \in Callers :
              InRecord(d)' => InRecord(d) /\ call'[d].count = call[d].count
                              /\ call'[d].tool = call[d].tool,
           \A d \in Callers : call'[d].at = "zero" => call[d].at = "zero"
                                                     /\ call'[d].tool = call[d].tool
    PROVE  Caused'
<1>1. \A t \in Tools : circuit'[t].failures <= reported'.failures[t]
  BY DEF Caused
<1>2. \A d \in Callers : InRecord(d)' => call'[d].count <= reported'.failures[call'[d].tool]
  BY DEF Caused
<1>3. OpensForCause'
  BY DEF Caused, OpensForCause
<1>4. ASSUME NEW d \in reported'.clean, call'[d].at = "zero"
      PROVE  circuit'[call'[d].tool].state # "OPEN" /\ (Recording(call[d].tool) = {})'
  <2>1. d \in Callers /\ d \in reported.clean
    BY <1>4 DEF TypeOK
  <2>2. call[d].at = "zero" /\ call'[d].tool = call[d].tool /\ call[d].tool \in Tools
    BY <1>4, <2>1 DEF TypeOK
  <2>3. circuit[call[d].tool].state # "OPEN" /\ Recording(call[d].tool) = {}
    BY <2>1, <2>2 DEF Caused
  <2>4. ASSUME NEW e \in Callers, call'[e].tool = call'[d].tool, InRecord(e)' PROVE FALSE
    BY <2>2, <2>3, <2>4 DEF Recording, InRecord
  <2> QED BY <2>2, <2>3, <2>4 DEF Recording, InRecord
<1> QED BY <1>1, <1>2, <1>3, <1>4 DEF Caused

LEMMA StepCaused == TypeOK /\ Caused /\ [Next]_vars => Caused'
<1> SUFFICES ASSUME TypeOK, Caused, [Next]_vars PROVE Caused'
  OBVIOUS
<1>0. /\ call \in [Callers -> Held] /\ circuit \in Circuits
      /\ reported \in Reports
      /\ reported.failures \in [Tools -> 0..Threshold] /\ reported.clean \subseteq Callers
      /\ \A d \in Callers : call[d].at # "idle" => call[d].tool \in Tools
  BY DEF TypeOK, Held, Circuits, Reports
\* A caller that leaves for a place where it records nothing
<1>a. ASSUME NEW c \in Callers, NEW h, call' = [call EXCEPT ![c] = h],
             reported'.failures = reported.failures, reported'.clean = reported.clean,
             h.at \notin {"write", "stamp", "judge", "zero"},
             \A t \in Tools : circuit'[t].failures = circuit[t].failures
                              /\ (circuit'[t].state = "OPEN" => circuit[t].state = "OPEN")
      PROVE  Caused'
  <2>1. \A d \in Callers : call'[d] = IF d = c THEN h ELSE call[d]
    BY <1>0, <1>a
  <2>2. \A d \in Callers : InRecord(d)' => InRecord(d) /\ call'[d] = call[d]
    BY <1>a, <2>1 DEF InRecord
  <2>3. \A d \in Callers : call'[d].at = "zero" => call'[d] = call[d]
    BY <1>a, <2>1
  <2> QED BY <1>a, <2>2, <2>3, CausedKept
<1>b. ASSUME NEW c \in Callers, NEW a, Answered(c, a), circuit' = circuit, reported' = reported
      PROVE  Caused'
  <2>1. Resting(a).at = "idle"
    BY DEF Resting
  <2> QED BY <1>a, <1>b, <2>1 DEF Answered
<1>c. ASSUME NEW c \in Callers, NEW s, s \notin {"write", "stamp", "judge", "zero"},
             GoesTo(c, s), circuit' = circuit, reported' = reported
      PROVE  Caused'
  <2> DEFINE h == [call[c] EXCEPT !.at = s]
  <2>1. call' = [call EXCEPT ![c] = h] /\ h.at = s
    BY <1>0, <1>c DEF GoesTo, Held
  <2> HIDE DEF h
  <2> QED BY <1>a, <1>c, <2>1
<1>1. ASSUME NEW c \in Callers, NEW n \in Nodes, NEW t \in Tools, Refuse(c, n, t) PROVE Caused'
  BY <1>1, <1>b DEF Refuse
<1>2. ASSUME NEW c \in Callers, NEW n \in Nodes, NEW t \in Tools, Ask(c, n, t) PROVE Caused'
  <2> DEFINE h == [Resting("none") EXCEPT !.at = IF MaxRate > 0 THEN "clean" ELSE "look", !.tool = t]
  <2>1. call' = [call EXCEPT ![c] = h] /\ h.at \in {"clean", "look"}
    BY <1>2 DEF Ask, Resting
  <2>2. reported'.failures = reported.failures /\ reported'.clean = reported.clean
    BY <1>0, <1>2 DEF Ask, Reports
  <2> HIDE DEF h
  <2> QED BY <1>2, <1>a, <2>1, <2>2 DEF Ask
<1>3. ASSUME NEW c \in Callers, Clean(c) PROVE Caused'
  <2> DEFINE h == [call[c] EXCEPT !.at = "keep", !.kept = Recent, !.age = 0]
  <2>1. call' = [call EXCEPT ![c] = h] /\ h.at = "keep"
    BY <1>0, <1>3 DEF Clean, Held
  <2> HIDE DEF h
  <2> QED BY <1>3, <1>a, <2>1 DEF Clean
<1>4. ASSUME NEW c \in Callers, Keep(c) \/ Room(c) \/ Look(c) \/ Raise(c) PROVE Caused'
  BY <1>4, <1>b, <1>c DEF Keep, Room, Look, Raise
<1>5. ASSUME NEW c \in Callers, Enter(c) PROVE Caused'
  <2> DEFINE h == [call[c] EXCEPT !.at = "look", !.kept = << >>, !.age = 0]
  <2>1. call' = [call EXCEPT ![c] = h] /\ h.at = "look"
    BY <1>0, <1>5 DEF Enter, Held
  <2> HIDE DEF h
  <2> QED BY <1>5, <1>a, <2>1 DEF Enter
<1>6. ASSUME NEW c \in Callers, Last(c) PROVE Caused'
  <2> DEFINE h == [call[c] EXCEPT !.at = "decide", !.age = circuit[call[c].tool].age]
  <2>1. call' = [call EXCEPT ![c] = h] /\ h.at = "decide"
    BY <1>0, <1>6 DEF Last, Held
  <2> HIDE DEF h
  <2> QED BY <1>6, <1>a, <2>1 DEF Last
<1>7. ASSUME NEW c \in Callers, Decide(c) PROVE Caused'
  <2> DEFINE h == [call[c] EXCEPT !.at = "try", !.age = 0]
  <2>1. call' = [call EXCEPT ![c] = h] \/ Answered(c, "DEGRADED_MODE")
    <3>1. [call EXCEPT ![c].at = "try", ![c].age = 0] = [call EXCEPT ![c] = h]
      BY <1>0
    <3> HIDE DEF h
    <3> QED BY <1>7, <3>1 DEF Decide
  <2>2. h.at = "try" /\ Resting("DEGRADED_MODE").at = "idle"
    BY <1>0 DEF Held, Resting
  <2>3. circuit' = circuit \/ circuit' = [circuit EXCEPT ![call[c].tool].state = "HALF_OPEN"]
    BY <1>7 DEF Decide
  <2>4. \A t \in Tools : circuit'[t].failures = circuit[t].failures
                         /\ (circuit'[t].state = "OPEN" => circuit[t].state = "OPEN")
    BY <1>0, <2>3 DEF Circuits
  <2>5. reported' = reported
    BY <1>7 DEF Decide
  <2> HIDE DEF h
  <2> QED BY <1>a, <2>1, <2>2, <2>4, <2>5 DEF Answered
<1>8. ASSUME NEW c \in Callers, Close(c) PROVE Caused'
  <2> DEFINE t == call[c].tool
  <2>0. t \in Tools /\ ~InRecord(c) /\ call[c].at # "zero"
    BY <1>0, <1>8 DEF Close, InRecord
  <2>1. \A u \in Tools : /\ circuit'[u].failures = circuit[u].failures
                         /\ circuit'[u].state = IF u = t THEN "CLOSED" ELSE circuit[u].state
    BY <1>0, <1>8, <2>0 DEF Close, Circuits
  <2>2. \A d \in Callers : /\ call'[d].tool = call[d].tool /\ call'[d].count = call[d].count
                           /\ call'[d].at = IF d = c THEN "zero" ELSE call[d].at
    BY <1>0, <1>8 DEF Close, GoesTo, Held
  <2>3. \A d \in Callers : InRecord(d)' <=> InRecord(d)
    BY <2>0, <2>2 DEF InRecord
  <2>4. /\ reported'.failures = reported.failures
        /\ reported'.clean = IF Recording(t) = {} THEN reported.clean \cup {c}
                                                  ELSE reported.clean \ {c}
    BY <1>0, <1>8 DEF Close, Reports
  <2>5. \A u : Recording(u)' = Recording(u)
    BY <2>2, <2>3 DEF Recording, InRecord
  <2>6. ASSUME NEW d \in reported'.clean, call'[d].at = "zero"
        PROVE  circuit'[call'[d].tool].state # "OPEN" /\ (Recording(call[d].tool) = {})'
    <3>1. d \in Callers
      BY <1>0, <2>4
    <3>2. CASE d = c
      BY <2>0, <2>1, <2>2, <2>4, <2>5, <2>6, <3>1, <3>2
    <3>3. CASE d # c
      <4>1. d \in reported.clean /\ call[d].at = "zero" /\ call[d].tool \in Tools
        BY <1>0, <2>2, <2>4, <2>6, <3>1, <3>3
      <4>2. circuit[call[d].tool].state # "OPEN" /\ Recording(call[d].tool) = {}
        BY <4>1 DEF Caused
      <4> QED BY <2>1, <2>2, <2>5, <3>1, <4>1, <4>2
    <3> QED BY <3>2, <3>3
  <2>7. OpensForCause'
    BY <2>1, <2>4 DEF Caused, OpensForCause
  <2>8. \A u \in Tools : circuit'[u].failures <= reported'.failures[u]
    BY <2>1, <2>4 DEF Caused
  <2>9. \A d \in Callers : InRecord(d)' => call'[d].count <= reported'.failures[call'[d].tool]
    BY <2>2, <2>3, <2>4 DEF Caused
  <2> QED BY <2>6, <2>7, <2>8, <2>9 DEF Caused
<1>9. ASSUME NEW c \in Callers, Zero(c) PROVE Caused'
  <2> DEFINE t == call[c].tool
             n == IF c \in reported.clean THEN 0 ELSE reported.failures[t]
  <2>0. t \in Tools /\ call[c].at = "zero" /\ ~InRecord(c)
    BY <1>0, <1>9 DEF Zero, InRecord
  <2>1. \A u \in Tools : /\ circuit'[u].failures = IF u = t THEN 0 ELSE circuit[u].failures
                         /\ circuit'[u].state = circuit[u].state
    BY <1>0, <1>9, <2>0 DEF Zero, ZeroOf, Circuits, Reports
  <2>2. \A d \in Callers : call'[d] = IF d = c THEN Resting("SUCCESS") ELSE call[d]
    BY <1>0, <1>9 DEF Zero, Answered
  <2>3. /\ reported'.clean = reported.clean
        /\ \A u \in Tools : reported'.failures[u] = IF u = t THEN n ELSE reported.failures[u]
    BY <1>0, <1>9, <2>0 DEF Zero, Reports
  <2>4. Resting("SUCCESS").at = "idle"
    BY DEF Resting
  <2>5. \A d \in Callers : /\ InRecord(d)' => InRecord(d) /\ call'[d] = call[d]
                           /\ call'[d].at = "zero" => call'[d] = call[d]
    BY <2>2, <2>4 DEF InRecord
  <2>6. c \in reported.clean => circuit[t].state # "OPEN" /\ Recording(t) = {}
    BY <2>0 DEF Caused
  <2>7. \A u \in Tools : circuit'[u].failures <= reported'.failures[u]
    BY <1>0, <2>0, <2>1, <2>3, Bounds DEF Caused
  <2>8. \A d \in Callers : InRecord(d)' => call'[d].count <= reported'.failures[call'[d].tool]
    <3> SUFFICES ASSUME NEW d \in Callers, InRecord(d)'
                 PROVE  call'[d].count <= reported'.failures[call'[d].tool]
      OBVIOUS
    <3>1. InRecord(d) /\ call'[d] = call[d] /\ call[d].tool \in Tools
      BY <1>0, <2>5 DEF InRecord
    <3>2. c \in reported.clean => call[d].tool # t
      BY <2>6, <3>1 DEF Recording, InRecord
    <3> QED BY <2>3, <3>1, <3>2 DEF Caused
  <2>9. OpensForCause'
    BY <2>1, <2>3, <2>6 DEF Caused, OpensForCause
  <2>10. ASSUME NEW d \in reported'.clean, call'[d].at = "zero"
         PROVE  circuit'[call'[d].tool].state # "OPEN" /\ (Recording(call[d].tool) = {})'
    <3>1. d \in Callers /\ d \in reported.clean /\ call'[d] = call[d] /\ call[d].tool \in Tools
      BY <1>0, <2>3, <2>5, <2>10
    <3>2. circuit[call[d].tool].state # "OPEN" /\ Recording(call[d].tool) = {}
      BY <2>10, <3>1 DEF Caused
    <3>3. ASSUME NEW e \in Callers, call'[e].tool = call[d].tool, InRecord(e)' PROVE FALSE
      BY <2>5, <3>2, <3>3 DEF Recording, InRecord
    <3> QED BY <2>1, <3>1, <3>2, <3>3 DEF Recording, InRecord
  <2> QED BY <2>7, <2>8, <2>9, <2>10 DEF Caused
<1>10. ASSUME NEW c \in Callers, Count(c) PROVE Caused'
  <2> DEFINE t == call[c].tool
             n == OneMore(reported.failures[t])
  <2>0. /\ t \in Tools /\ call[c].at \in {"execute", "try"}
        /\ reported.failures[t] \in 0..Threshold /\ circuit[t].failures \in 0..Threshold
    BY <1>0, <1>10 DEF Count, Circuits, Reports
  <2>1. /\ reported.failures[t] <= n /\ OneMore(circuit[t].failures) <= n
        /\ n \in 0..Threshold /\ OneMore(circuit[t].failures) \in 0..Threshold
    BY <2>0, OneMoreType, Bounds DEF Caused, OneMore
  <2>2. /\ reported'.clean = {d \in reported.clean : call[d].tool # t}
        /\ \A u \in Tools : reported'.failures[u] = IF u = t THEN n ELSE reported.failures[u]
    BY <1>0, <1>10, <2>0 DEF Count, Reports
  <2>3. \A d \in Callers : /\ call'[d].tool = call[d].tool
                           /\ d # c => call'[d] = call[d]
    BY <1>0, <1>10 DEF Count, Held
  <2>4. call'[c].at = "write" /\ call'[c].count = OneMore(circuit[t].failures)
    BY <1>0, <1>10 DEF Count, Held
  <2>5. circuit' = circuit
    BY <1>10 DEF Count, Reports
  <2> HIDE DEF n
  <2>6. \A u \in Tools : circuit'[u].failures <= reported'.failures[u]
    <3> SUFFICES ASSUME NEW u \in Tools PROVE circuit[u].failures <= reported'.failures[u]
      BY <2>5
    <3>1. circuit[u].failures <= reported.failures[u] /\ circuit[u].failures \in 0..Threshold
          /\ reported.failures[u] \in 0..Threshold
      BY <1>0 DEF Caused, Circuits, Reports
    <3> QED BY <2>1, <2>2, <3>1, Bounds
  <2>7. \A d \in Callers : InRecord(d)' => call'[d].count <= reported'.failures[call'[d].tool]
    <3> SUFFICES ASSUME NEW d \in Callers, InRecord(d)'
                 PROVE  call'[d].count <= reported'.failures[call'[d].tool]
      OBVIOUS
    <3>1. CASE d = c
      BY <2>0, <2>1, <2>2, <2>3, <2>4, <3>1
    <3>2. CASE d # c
      <4>1. InRecord(d) /\ call'[d] = call[d] /\ call[d].tool \in Tools /\ call[d].count \in 0..Threshold
        BY <1>0, <2>3, <3>2 DEF InRecord, Held
      <4>2. call[d].count <= reported.failures[call[d].tool]
            /\ reported.failures[call[d].tool] \in 0..Threshold
        BY <1>0, <4>1 DEF Caused
      <4> QED BY <2>1, <2>2, <4>1, <4>2, Bounds
    <3> QED BY <3>1, <3>2
  <2>8. OpensForCause'
    BY <1>0, <2>0, <2>1, <2>2, <2>5, Bounds DEF Caused, OpensForCause
  <2>9. ASSUME NEW d \in reported'.clean, call'[d].at = "zero"
        PROVE  circuit'[call'[d].tool].state # "OPEN" /\ (Recording(call[d].tool) = {})'
    <3>1. d \in Callers /\ d \in reported.clean /\ call[d].tool # t
      BY <1>0, <2>2, <2>9
    <3>2. d # c /\ call'[d] = call[d]
      BY <2>3, <3>1
    <3>3. circuit[call[d].tool].state # "OPEN" /\ Recording(call[d].tool) = {}
      BY <2>9, <3>1, <3>2 DEF Caused
    <3>4. ASSUME NEW e \in Callers, call'[e].tool = call[d].tool, InRecord(e)' PROVE FALSE
      <4>1. e # c
        BY <2>3, <3>1, <3>4
      <4>2. call'[e] = call[e]
        BY <2>3, <4>1
      <4> QED BY <3>3, <3>4, <4>2 DEF Recording, InRecord
    <3> QED BY <2>5, <3>2, <3>3, <3>4 DEF Recording, InRecord
  <2> QED BY <2>6, <2>7, <2>8, <2>9 DEF Caused
<1>11. ASSUME NEW c \in Callers, Write(c) \/ Stamp(c) PROVE Caused'
  <2> DEFINE t == call[c].tool
  <2>0. t \in Tools /\ InRecord(c)
    BY <1>0, <1>11 DEF Write, Stamp, InRecord
  <2>1. \A d \in Callers : /\ call'[d].tool = call[d].tool /\ call'[d].count = call[d].count
                           /\ d # c => call'[d] = call[d]
    <3>1. CASE Write(c)
      BY <1>0, <3>1 DEF Write, GoesTo, Held
    <3>2. CASE Stamp(c)
      <4>1. call' = [call EXCEPT ![c].at = "judge", ![c].age = 0]
        BY <3>2 DEF Stamp
      <4> QED BY <1>0, <4>1 DEF Held
    <3> QED BY <1>11, <3>1, <3>2
  <2>2. InRecord(c)'
    BY <1>0, <1>11 DEF Write, Stamp, GoesTo, Held, InRecord
  <2>3. \A d \in Callers : InRecord(d)' <=> InRecord(d)
    BY <2>0, <2>1, <2>2 DEF InRecord
  <2>4. reported' = reported
    BY <1>11 DEF Write, Stamp
  <2>5. \A u \in Tools : /\ circuit'[u].state = circuit[u].state
                         /\ circuit'[u].failures = circuit[u].failures
                              \/ (u = t /\ circuit'[u].failures = call[c].count)
    <3>1. CASE Write(c)
      BY <1>0, <2>0, <3>1 DEF Write, Circuits
    <3>2. CASE Stamp(c)
      <4>1. PICK a \in 0..call[c].age : circuit' = [circuit EXCEPT ![t].age = a]
        BY <3>2 DEF Stamp
      <4> QED BY <1>0, <2>0, <4>1 DEF Circuits
    <3> QED BY <1>11, <3>1, <3>2
  <2>6. \A u \in Tools : circuit'[u].failures <= reported'.failures[u]
    BY <2>0, <2>4, <2>5 DEF Caused
  <2>7. \A d \in Callers : InRecord(d)' => call'[d].count <= reported'.failures[call'[d].tool]
    BY <2>1, <2>3, <2>4 DEF Caused
  <2>8. OpensForCause'
    BY <2>4, <2>5 DEF Caused, OpensForCause
  <2>9. ASSUME NEW d \in reported'.clean, call'[d].at = "zero"
        PROVE  circuit'[call'[d].tool].state # "OPEN" /\ (Recording(call[d].tool) = {})'
    <3>1. d \in Callers /\ d \in reported.clean
      BY <1>0, <2>4, <2>9
    <3>2. d # c /\ call'[d] = call[d]
      BY <2>1, <2>2, <2>9, <3>1 DEF InRecord
    <3>3. circuit[call[d].tool].state # "OPEN" /\ Recording(call[d].tool) = {} /\ call[d].tool \in Tools
      BY <1>0, <2>9, <3>1, <3>2 DEF Caused
    <3>4. ASSUME NEW e \in Callers, call'[e].tool = call[d].tool, InRecord(e)' PROVE FALSE
      BY <2>1, <2>3, <3>3, <3>4 DEF Recording, InRecord
    <3> QED BY <2>5, <3>2, <3>3, <3>4 DEF Recording, InRecord
  <2> QED BY <2>6, <2>7, <2>8, <2>9 DEF Caused
<1>12. ASSUME NEW c \in Callers, Judge(c) PROVE Caused'
  <2> DEFINE t == call[c].tool
  <2>0. /\ t \in Tools /\ InRecord(c) /\ call[c].count \in 0..Threshold
        /\ reported.failures[t] \in 0..Threshold
    BY <1>0, <1>12 DEF Judge, InRecord, Held, Reports
  <2>1. \A d \in Callers : call'[d] = IF d = c THEN Resting("ERROR") ELSE call[d]
    BY <1>0, <1>12 DEF Judge, Answered
  <2>2. Resting("ERROR").at = "idle"
    BY DEF Resting
  <2>3. \A d \in Callers : /\ InRecord(d)' => InRecord(d) /\ call'[d] = call[d]
                           /\ call'[d].at = "zero" => call'[d] = call[d]
    BY <2>1, <2>2 DEF InRecord
  <2>4. reported' = reported
    BY <1>12 DEF Judge
  <2>5. \A u \in Tools : /\ circuit'[u].failures = circuit[u].failures
                         /\ circuit'[u].state = circuit[u].state
                              \/ (u = t /\ call[c].count >= Threshold)
    BY <1>0, <1>12, <2>0 DEF Judge, TooMany, Circuits
  <2>6. \A u \in Tools : circuit'[u].failures <= reported'.failures[u]
    BY <2>4, <2>5 DEF Caused
  <2>7. \A d \in Callers : InRecord(d)' => call'[d].count <= reported'.failures[call'[d].tool]
    BY <2>3, <2>4 DEF Caused
  <2>8. OpensForCause'
    <3>1. call[c].count >= Threshold => reported.failures[t] >= Threshold
      BY <2>0, Bounds DEF Caused
    <3> QED BY <2>4, <2>5, <3>1 DEF Caused, OpensForCause
  <2>9. ASSUME NEW d \in reported'.clean, call'[d].at = "zero"
        PROVE  circuit'[call'[d].tool].state # "OPEN" /\ (Recording(call[d].tool) = {})'
    <3>1. d \in Callers /\ d \in reported.clean /\ call'[d] = call[d] /\ call[d].tool \in Tools
      BY <1>0, <2>3, <2>4, <2>9
    <3>2. circuit[call[d].tool].state # "OPEN" /\ Recording(call[d].tool) = {}
      BY <2>9, <3>1 DEF Caused
    <3>3. call[d].tool # t
      BY <2>0, <3>2 DEF Recording, InRecord
    <3>4. ASSUME NEW e \in Callers, call'[e].tool = call[d].tool, InRecord(e)' PROVE FALSE
      BY <2>3, <3>2, <3>4 DEF Recording, InRecord
    <3> QED BY <2>5, <3>1, <3>2, <3>3, <3>4 DEF Recording, InRecord
  <2> QED BY <2>6, <2>7, <2>8, <2>9 DEF Caused
<1>13. CASE Tick
  <2>1. \A d \in Callers : /\ call'[d].at = call[d].at /\ call'[d].tool = call[d].tool
                           /\ call'[d].count = call[d].count
    BY <1>0, <1>13, AgedType DEF Tick
  <2>2. \A t \in Tools : circuit'[t].failures = circuit[t].failures
                         /\ circuit'[t].state = circuit[t].state
    BY <1>0, <1>13 DEF Tick, Circuits
  <2>3. reported' = reported
    BY <1>13 DEF Tick
  <2> QED BY <2>1, <2>2, <2>3, CausedKept DEF InRecord
<1>14. ASSUME NEW t \in Tools, Switch(t) PROVE Caused'
  BY <1>14, CausedKept DEF Switch, InRecord
<1>15. CASE UNCHANGED vars
  BY <1>15, CausedKept DEF vars, InRecord
<1> QED BY <1>1, <1>2, <1>3, <1>4, <1>5, <1>6, <1>7, <1>8, <1>9, <1>10, <1>11, <1>12, <1>13,
           <1>14, <1>15 DEF Next, Step

\* However many callers overlap in the breaker's unlocked methods, at however
\* many tools, and whatever the threshold and the cooldown: counts may be lost
\* but are never made up, so that a circuit is open only if its tool has failed
\* Threshold times since the last success whose recording no failure overlapped.
THEOREM NeverWithoutCause == Spec => []OpensForCause
<1>1. Init => Caused
  <2> SUFFICES ASSUME Init PROVE Caused
    OBVIOUS
  <2>1. \A d \in Callers : call[d].at = "idle"
    BY DEF Init, Resting
  <2> QED BY <2>1, Bounds DEF Init, Caused, OpensForCause, InRecord
<1>2. Caused => OpensForCause
  BY DEF Caused
<1> QED BY <1>1, <1>2, StepCaused, TypeCorrect, PTL DEF Spec

----------------------------------------------------------------------------
\* As long as the callers wait for each other

\* Nobody else is under way.
Sole(c) == \A d \in Callers : d # c => call[d].at = "idle"

\* A step that c may see: one of its own, of the clock or of the back ends.
Seen(c) ==
    \/ \E n \in Nodes, t \in Tools : Refuse(c, n, t) \/ Ask(c, n, t)
    \/ Step(c)
    \/ Tick
    \/ \E t \in Tools : Switch(t)
    \/ UNCHANGED vars

Closes(t) == circuit[t].state = "CLOSED" <=> circuit[t].failures < Threshold
Tries(t)  == circuit[t].state = "HALF_OPEN" => circuit[t].age >= Cooldown

\* Between the records: closed means that the failures are few, on trial that
\* the cooldown is over, and every failure is counted.
Settled(t) == Closes(t) /\ Tries(t) /\ circuit[t].failures = reported.failures[t]

\* Within a record, between its writes
Underway(c) ==
    LET t == call[c].tool IN
    /\ call[c].at = "zero" => circuit[t].state = "CLOSED" /\ c \in reported.clean
    /\ call[c].at = "write" => /\ Closes(t) /\ Tries(t)
                               /\ call[c].count = OneMore(circuit[t].failures)
                               /\ call[c].count = reported.failures[t]
    /\ call[c].at \in {"stamp", "judge"} =>
          /\ circuit[t].failures = call[c].count /\ call[c].count = reported.failures[t]
          /\ circuit[t].state = "CLOSED" \/ call[c].count >= Threshold

Records == {"zero", "write", "stamp", "judge"}

SoleBreaker(c) ==
    /\ \A t \in Tools : IF call[c].tool = t /\ call[c].at \in Records THEN Underway(c) ELSE Settled(t)
    /\ call[c].at \in {"last", "decide"} => circuit[call[c].tool].state = "OPEN"
    /\ call[c].at = "decide" => call[c].age = circuit[call[c].tool].age

\* The callers have waited for each other so far: at most one is under way.
InTurn == reported.alone => \A c, d \in Callers : c # d => call[c].at = "idle" \/ call[d].at = "idle"

\* A caller's step moves nobody else, and only asking takes it from its rest.
LEMMA OthersStay ==
    ASSUME TypeOK, NEW c \in Callers,
           (\E n \in Nodes, t \in Tools : Refuse(c, n, t) \/ Ask(c, n, t)) \/ Step(c)
    PROVE  /\ \A d \in Callers : d # c => call'[d] = call[d]
           /\ reported'.alone => reported.alone
           /\ call[c].at = "idle" /\ call'[c].at # "idle" /\ reported'.alone =>
                 \A d \in Callers : call[d].at = "idle"
           /\ call[c].at = "idle" /\ call'[c].at = "idle" =>
                 /\ circuit' = circuit /\ history' = history
                 /\ reported'.failures = reported.failures /\ reported'.clean = reported.clean
<1>0. call \in [Callers -> Held] /\ reported \in Reports
  BY DEF TypeOK, Held, Reports
<1>1. ASSUME NEW n \in Nodes, NEW t \in Tools, Refuse(c, n, t)
      PROVE  /\ \A d \in Callers : d # c => call'[d] = call[d]
             /\ call'[c].at = "idle"
             /\ circuit' = circuit /\ history' = history /\ reported' = reported
  BY <1>0, <1>1 DEF Refuse, Answered, Resting
<1>2. ASSUME NEW n \in Nodes, NEW t \in Tools, Ask(c, n, t)
      PROVE  /\ \A d \in Callers : d # c => call'[d] = call[d]
             /\ call'[c].at # "idle"
             /\ reported'.alone => reported.alone /\ \A d \in Callers : call[d].at = "idle"
  <2>1. \A d \in Callers : d # c => call'[d] = call[d]
    BY <1>0, <1>2 DEF Ask
  <2>2. call'[c].at \in {"clean", "look"}
    BY <1>0, <1>2 DEF Ask, Resting
  <2>3. reported'.alone = (reported.alone /\ \A d \in Callers : call[d].at = "idle")
    BY <1>0, <1>2 DEF Ask, Reports
  <2> QED BY <2>1, <2>2, <2>3
<1>3. ASSUME Step(c)
      PROVE  /\ \A d \in Callers : d # c => call'[d] = call[d]
             /\ call[c].at # "idle"
             /\ reported'.alone = reported.alone
  <2>1. call[c].at # "idle"
    BY <1>3 DEF Step, Clean, Keep, Room, Enter, Look, Last, Decide, Close, Zero, Count, Write, Stamp,
                Judge, Raise
  <2>2. reported'.alone = reported.alone
    BY <1>0, <1>3 DEF Step, Clean, Keep, Room, Enter, Look, Last, Decide, Close, Zero, Count, Write,
                      Stamp, Judge, Raise, Reports
  <2>3. \A d \in Callers : d # c => call'[d] = call[d]
    <3>1. CASE Clean(c) \/ Enter(c) \/ Last(c) \/ Count(c) \/ Stamp(c)
      BY <1>0, <3>1 DEF Clean, Enter, Last, Count, Stamp
    <3>2. CASE Keep(c) \/ Room(c) \/ Look(c) \/ Decide(c)
      BY <1>0, <3>2 DEF Keep, Room, Look, Decide, GoesTo, Answered
    <3>3. CASE Close(c) \/ Zero(c) \/ Write(c) \/ Judge(c) \/ Raise(c)
      BY <1>0, <3>3 DEF Close, Zero, Write, Judge, Raise, GoesTo, Answered
    <3> QED BY <1>3, <3>1, <3>2, <3>3 DEF Step
  <2> QED BY <2>1, <2>2, <2>3
<1> QED BY <1>1, <1>2, <1>3

\* The clock and the back ends move nobody.
LEMMA NobodyMoves ==
    ASSUME TypeOK, Tick \/ (\E t \in Tools : Switch(t)) \/ UNCHANGED vars
    PROVE  reported' = reported /\ \A d \in Callers : call'[d].at = call[d].at
<1>1. CASE Tick
  BY <1>1, AgedType DEF Tick, TypeOK, Held
<1>2. CASE (\E t \in Tools : Switch(t)) \/ UNCHANGED vars
  BY <1>2 DEF Switch, vars
<1> QED BY <1>1, <1>2

LEMMA StepInTurn == TypeOK /\ InTurn /\ [Next]_vars => InTurn'
<1> SUFFICES ASSUME TypeOK, InTurn, [Next]_vars, reported'.alone,
                    NEW c \in Callers, NEW d \in Callers, c # d
             PROVE  call'[c].at = "idle" \/ call'[d].at = "idle"
  BY DEF InTurn
<1>1. ASSUME NEW e \in Callers,
             (\E n \in Nodes, t \in Tools : Refuse(e, n, t) \/ Ask(e, n, t)) \/ Step(e)
      PROVE  call'[c].at = "idle" \/ call'[d].at = "idle"
  BY <1>1, OthersStay DEF InTurn
<1>2. CASE Tick \/ (\E t \in Tools : Switch(t)) \/ UNCHANGED vars
  BY <1>2, NobodyMoves DEF InTurn
<1> QED BY <1>1, <1>2 DEF Next

\* Who is alone under way after a step was so before it, and saw the step; or
\* another has taken it, that was alone under way itself and has come to rest,
\* or has rested all along.
LEMMA SoleBefore ==
    ASSUME TypeOK, InTurn, [Next]_vars, reported'.alone, NEW c \in Callers, Sole(c)'
    PROVE  /\ reported.alone
           /\ \/ Sole(c) /\ Seen(c)
              \/ \E d \in Callers : /\ d # c /\ Sole(d) /\ Seen(d)
                                    /\ call'[c] = call[c] /\ call'[d].at = "idle"
                                    /\ call[c].at = "idle"
              \/ /\ Sole(c) /\ call'[c] = call[c] /\ circuit' = circuit /\ history' = history
                 /\ reported'.failures = reported.failures /\ reported'.clean = reported.clean
<1>1. ASSUME NEW d \in Callers,
             (\E n \in Nodes, t \in Tools : Refuse(d, n, t) \/ Ask(d, n, t)) \/ Step(d)
      PROVE  /\ reported.alone
             /\ \/ Sole(c) /\ Seen(c)
                \/ d # c /\ Sole(d) /\ Seen(d) /\ call'[c] = call[c] /\ call'[d].at = "idle"
                   /\ call[c].at = "idle"
                \/ /\ Sole(c) /\ call'[c] = call[c] /\ circuit' = circuit /\ history' = history
                   /\ reported'.failures = reported.failures /\ reported'.clean = reported.clean
  <2>1. reported.alone /\ \A e \in Callers : e # d => call'[e] = call[e]
    BY <1>1, OthersStay
  <2>2. CASE d = c
    BY <1>1, <2>1, <2>2 DEF Sole, Seen
  <2>3. CASE d # c /\ call[d].at = "idle"
    <3>1. call'[d].at = "idle"
      BY <2>3 DEF Sole
    <3> QED BY <1>1, <2>1, <2>3, <3>1, OthersStay DEF Sole
  <2>4. CASE d # c /\ call[d].at # "idle"
    <3>1. call'[d].at = "idle" /\ Sole(d) /\ call[c].at = "idle"
      BY <2>1, <2>4 DEF Sole, InTurn
    <3> QED BY <1>1, <2>1, <2>4, <3>1 DEF Seen
  <2> QED BY <2>2, <2>3, <2>4
<1>2. CASE Tick \/ (\E t \in Tools : Switch(t)) \/ UNCHANGED vars
  BY <1>2, NobodyMoves DEF Sole, Seen
<1> QED BY <1>1, <1>2 DEF Next

LEMMA StepSoleBreaker ==
    ASSUME NEW c \in Callers, TypeOK, Sole(c), SoleBreaker(c), Seen(c)
    PROVE  SoleBreaker(c)'
<1>0. /\ call \in [Callers -> Held] /\ circuit \in Circuits
      /\ reported \in Reports
      /\ reported.failures \in [Tools -> 0..Threshold] /\ reported.clean \subseteq Callers
      /\ call[c].at # "idle" => call[c].tool \in Tools
  BY DEF TypeOK, Held, Circuits, Reports
<1>t. ASSUME NEW t \in Tools
      PROVE  /\ circuit[t] \in [state: {"CLOSED", "OPEN", "HALF_OPEN"}, failures: 0..Threshold,
                                age: 0..Horizon]
             /\ circuit[t].failures \in 0..Threshold /\ circuit[t].age \in 0..Horizon
             /\ circuit[t].state \in {"CLOSED", "OPEN", "HALF_OPEN"}
             /\ reported.failures[t] \in 0..Threshold
  BY <1>0 DEF Circuits, Reports
\* The circuits stay as they are, and the caller is, and was, in no record.
<1>a. ASSUME circuit' = circuit, reported'.failures = reported.failures,
             call[c].at \notin Records, call'[c].at \notin Records,
             call'[c].at \in {"last", "decide"} => circuit[call'[c].tool].state = "OPEN",
             call'[c].at = "decide" => call'[c].age = circuit[call'[c].tool].age
      PROVE  SoleBreaker(c)'
  <2>1. \A t \in Tools : Settled(t)
    BY <1>a DEF SoleBreaker
  <2>2. \A t \in Tools : Settled(t)'
    BY <1>a, <2>1 DEF Settled, Closes, Tries
  <2> QED BY <1>a, <2>2 DEF SoleBreaker
<1>b. ASSUME NEW a, Answered(c, a), circuit' = circuit, reported' = reported,
             call[c].at \notin Records
      PROVE  SoleBreaker(c)'
  <2>1. call'[c].at = "idle"
    BY <1>0, <1>b DEF Answered, Resting
  <2> QED BY <1>a, <1>b, <2>1 DEF Records
<1>1. ASSUME NEW n \in Nodes, NEW t \in Tools, Refuse(c, n, t) \/ Ask(c, n, t)
      PROVE  SoleBreaker(c)'
  <2>1. CASE Refuse(c, n, t)
    BY <2>1, <1>b DEF Refuse, Records
  <2>2. CASE Ask(c, n, t)
    <3>1. call'[c].at \in {"clean", "look"}
      BY <1>0, <2>2 DEF Ask, Resting
    <3>2. reported'.failures = reported.failures
      BY <1>0, <2>2 DEF Ask, Reports
    <3> QED BY <2>2, <3>1, <3>2, <1>a DEF Ask, Records
  <2> QED BY <1>1, <2>1, <2>2
<1>2. CASE Clean(c) \/ Keep(c) \/ Enter(c)
  <2>1. call'[c].at \in {"keep", "room", "look"}
    <3>1. CASE Clean(c)
      BY <1>0, <3>1 DEF Clean, Held
    <3>2. CASE Keep(c)
      BY <1>0, <3>2 DEF Keep, GoesTo, Held
    <3>3. CASE Enter(c)
      BY <1>0, <3>3 DEF Enter, Held
    <3> QED BY <1>2, <3>1, <3>2, <3>3
  <2>2. call[c].at \in {"clean", "keep", "append"} /\ circuit' = circuit /\ reported' = reported
    BY <1>2 DEF Clean, Keep, Enter
  <2> QED BY <2>1, <2>2, <1>a DEF Records
<1>3. CASE Room(c) \/ Raise(c)
  <2>1. CASE Answered(c, "TOOL_RATE_LIMIT_ERROR") \/ Answered(c, "RAISED")
    BY <1>3, <2>1, <1>b DEF Room, Raise, Records
  <2>2. CASE GoesTo(c, "append")
    <3>1. call'[c].at = "append"
      BY <1>0, <2>2 DEF GoesTo, Held
    <3> QED BY <1>3, <3>1, <1>a DEF Room, Raise, Records
  <2> QED BY <1>3, <2>1, <2>2 DEF Room, Raise
<1>4. CASE Look(c)
  <2>1. call[c].at = "look" /\ circuit' = circuit /\ reported' = reported
    BY <1>4 DEF Look
  <2>2. CASE Answered(c, "DEGRADED_MODE")
    BY <2>1, <2>2, <1>b DEF Records
  <2>3. CASE circuit[call[c].tool].state = "OPEN" /\ GoesTo(c, "last")
    <3>1. call'[c].at = "last" /\ call'[c].tool = call[c].tool
      BY <1>0, <2>3 DEF GoesTo, Held
    <3> QED BY <2>1, <2>3, <3>1, <1>a DEF Records
  <2>4. ASSUME NEW s \in {"execute", "try"}, GoesTo(c, s) PROVE SoleBreaker(c)'
    <3>1. call'[c].at = s
      BY <1>0, <2>4 DEF GoesTo, Held
    <3> QED BY <2>1, <3>1, <1>a DEF Records
  <2> QED BY <1>4, <2>2, <2>3, <2>4 DEF Look
<1>5. CASE Last(c)
  <2>1. /\ call'[c].at = "decide" /\ call'[c].tool = call[c].tool
        /\ call'[c].age = circuit[call[c].tool].age
    BY <1>0, <1>5 DEF Last, Held
  <2>2. call[c].at = "last" /\ circuit' = circuit /\ reported' = reported
    BY <1>5 DEF Last
  <2>3. circuit[call[c].tool].state = "OPEN"
    BY <2>2 DEF SoleBreaker
  <2> QED BY <2>1, <2>2, <2>3, <1>a DEF Records
<1>6. CASE Decide(c)
  <2> DEFINE t == call[c].tool
  <2>1. /\ call[c].at = "decide" /\ t \in Tools /\ circuit[t].state = "OPEN"
        /\ call[c].age = circuit[t].age /\ reported' = reported
    BY <1>0, <1>6 DEF Decide, SoleBreaker
  <2>2. CASE call[c].age < Cooldown /\ Answered(c, "DEGRADED_MODE") /\ UNCHANGED circuit
    BY <2>1, <2>2, <1>b DEF Records
  <2>3. CASE call[c].age >= Cooldown /\ circuit' = [circuit EXCEPT ![t].state = "HALF_OPEN"]
    <3>1. \A u \in Tools : Settled(u)
      BY <2>1 DEF SoleBreaker, Records
    <3>2. \A u \in Tools : /\ circuit'[u].failures = circuit[u].failures
                           /\ circuit'[u].age = circuit[u].age
                           /\ circuit'[u].state = IF u = t THEN "HALF_OPEN" ELSE circuit[u].state
      BY <1>0, <2>1, <2>3 DEF Circuits
    <3>3. \A u \in Tools : Settled(u)'
      BY <2>1, <2>3, <3>1, <3>2 DEF Settled, Closes, Tries
    <3>4. call'[c].at \in {"try", "idle"}
      <4>1. call'[c] = [call[c] EXCEPT !.at = "try", !.age = 0] \/ call'[c] = Resting("DEGRADED_MODE")
        <5>1. [call EXCEPT ![c].at = "try", ![c].age = 0][c] = [call[c] EXCEPT !.at = "try", !.age = 0]
          BY <1>0 DEF Held
        <5>2. call' = [call EXCEPT ![c].at = "try", ![c].age = 0] \/ Answered(c, "DEGRADED_MODE")
          BY <1>6 DEF Decide
        <5> QED BY <1>0, <5>1, <5>2 DEF Answered
      <4>2. [call[c] EXCEPT !.at = "try", !.age = 0].at = "try"
        BY <1>0 DEF Held
      <4>3. Resting("DEGRADED_MODE").at = "idle"
        BY DEF Resting
      <4> QED BY <4>1, <4>2, <4>3
    <3> QED BY <3>3, <3>4 DEF SoleBreaker, Records
  <2> QED BY <1>6, <2>2, <2>3 DEF Decide
<1>7. CASE Close(c)
  <2> DEFINE t == call[c].tool
  <2>1. call[c].at \in {"execute", "try"} /\ t \in Tools
    BY <1>0, <1>7 DEF Close, Reports
  <2>2. Recording(t) = {}
    BY <2>1 DEF Recording, Sole
  <2>3. c \in reported'.clean /\ reported'.failures = reported.failures
    BY <1>0, <1>7, <2>2 DEF Close, Reports
  <2>4. call'[c].at = "zero" /\ call'[c].tool = t
    BY <1>0, <1>7 DEF Close, GoesTo, Held
  <2>5. circuit'[t].state = "CLOSED" /\ \A u \in Tools : u # t => circuit'[u] = circuit[u]
    BY <1>0, <1>7, <2>1 DEF Close, Circuits
  <2>6. \A u \in Tools : Settled(u)
    BY <2>1 DEF SoleBreaker, Records
  <2>7. \A u \in Tools : u # t => Settled(u)'
    BY <2>3, <2>5, <2>6 DEF Settled, Closes, Tries
  <2>8. Underway(c)'
    BY <2>3, <2>4, <2>5 DEF Underway
  <2> QED BY <2>4, <2>7, <2>8 DEF SoleBreaker, Records
<1>8. CASE Zero(c)
  <2> DEFINE t == call[c].tool
  <2>1. call[c].at = "zero" /\ t \in Tools
    BY <1>0, <1>8 DEF Zero, Reports
  <2>2. circuit[t].state = "CLOSED" /\ c \in reported.clean
    BY <2>1 DEF SoleBreaker, Records, Underway
  <2>3. \A u \in Tools : u # t => Settled(u)
    BY <2>1 DEF SoleBreaker
  <2>4. /\ circuit'[t].state = "CLOSED" /\ circuit'[t].failures = 0 /\ reported'.failures[t] = 0
        /\ \A u \in Tools : u # t => circuit'[u] = circuit[u]
                                     /\ reported'.failures[u] = reported.failures[u]
    BY <1>0, <1>8, <2>1, <2>2 DEF Zero, ZeroOf, Circuits, Reports
  <2>5. \A u \in Tools : Settled(u)'
    BY <2>3, <2>4, Bounds DEF Settled, Closes, Tries
  <2>6. call'[c].at = "idle"
    BY <1>0, <1>8 DEF Zero, Answered, Resting
  <2> QED BY <2>5, <2>6 DEF SoleBreaker, Records
<1>9. CASE Count(c)
  <2> DEFINE t == call[c].tool
  <2>1. call[c].at \in {"execute", "try"} /\ t \in Tools
    BY <1>0, <1>9 DEF Count, Reports
  <2>2. \A u \in Tools : Settled(u)
    BY <2>1 DEF SoleBreaker, Records
  <2>3. call'[c].at = "write" /\ call'[c].tool = t /\ call'[c].count = OneMore(circuit[t].failures)
    BY <1>0, <1>9 DEF Count, Held
  <2>4. circuit' = circuit /\ reported'.failures = [reported.failures EXCEPT ![t] = OneMore(@)]
    BY <1>9 DEF Count, Reports
  <2>5. \A u \in Tools : u # t => Settled(u)'
    BY <1>0, <2>2, <2>4 DEF Settled, Closes, Tries
  <2>6. reported'.failures[t] = OneMore(circuit[t].failures)
    BY <1>0, <2>1, <2>2, <2>4 DEF Settled
  <2>7. \A u \in Tools : Closes(u)' /\ Tries(u)'
    <3>1. circuit' = circuit
      BY <2>4
    <3> QED BY <2>2, <3>1 DEF Settled, Closes, Tries
  <2>8. Underway(c)'
    BY <2>1, <2>3, <2>4, <2>6, <2>7 DEF Underway, Closes, Tries
  <2> QED BY <2>3, <2>5, <2>8 DEF SoleBreaker, Records
<1>10. CASE Write(c)
  <2> DEFINE t == call[c].tool
  <2>1. call[c].at = "write" /\ t \in Tools
    BY <1>0, <1>10 DEF Write
  <2>2. /\ Closes(t) /\ call[c].count = OneMore(circuit[t].failures)
        /\ call[c].count = reported.failures[t]
    BY <2>1 DEF SoleBreaker, Records, Underway
  <2>3. \A u \in Tools : u # t => Settled(u)
    BY <2>1 DEF SoleBreaker
  <2>4. call'[c].at = "stamp" /\ call'[c].tool = t /\ call'[c].count = call[c].count
    BY <1>0, <1>10 DEF Write, GoesTo, Held
  <2>5. /\ circuit'[t].failures = call[c].count /\ circuit'[t].state = circuit[t].state
        /\ \A u \in Tools : u # t => circuit'[u] = circuit[u]
        /\ reported' = reported
    BY <1>0, <1>10, <2>1 DEF Write, Circuits
  <2>6. circuit[t].state = "CLOSED" \/ call[c].count >= Threshold
    BY <1>t, <2>1, <2>2, Bounds DEF Closes, OneMore
  <2>7. \A u \in Tools : u # t => Settled(u)'
    BY <2>3, <2>5 DEF Settled, Closes, Tries
  <2>8. Underway(c)'
    BY <2>2, <2>4, <2>5, <2>6 DEF Underway
  <2> QED BY <2>4, <2>7, <2>8 DEF SoleBreaker, Records
<1>11. CASE Stamp(c)
  <2> DEFINE t == call[c].tool
  <2>1. call[c].at = "stamp" /\ t \in Tools
    BY <1>0, <1>11 DEF Stamp
  <2>2. /\ circuit[t].failures = call[c].count /\ call[c].count = reported.failures[t]
        /\ circuit[t].state = "CLOSED" \/ call[c].count >= Threshold
    BY <2>1 DEF SoleBreaker, Records, Underway
  <2>3. \A u \in Tools : u # t => Settled(u)
    BY <2>1 DEF SoleBreaker
  <2>4. call'[c].at = "judge" /\ call'[c].tool = t /\ call'[c].count = call[c].count
    <3>1. call' = [call EXCEPT ![c].at = "judge", ![c].age = 0]
      BY <1>11 DEF Stamp
    <3> QED BY <1>0, <3>1 DEF Held
  <2>5. /\ circuit'[t].failures = circuit[t].failures /\ circuit'[t].state = circuit[t].state
        /\ \A u \in Tools : u # t => circuit'[u] = circuit[u]
        /\ reported' = reported
    <3>1. PICK a \in 0..call[c].age : circuit' = [circuit EXCEPT ![t].age = a]
      BY <1>11 DEF Stamp
    <3>2. reported' = reported
      BY <1>11 DEF Stamp
    <3> QED BY <1>0, <2>1, <3>1, <3>2 DEF Circuits
  <2>6. \A u \in Tools : u # t => Settled(u)'
    BY <2>3, <2>5 DEF Settled, Closes, Tries
  <2>7. Underway(c)'
    BY <2>2, <2>4, <2>5 DEF Underway
  <2> QED BY <2>4, <2>6, <2>7 DEF SoleBreaker, Records
<1>12. CASE Judge(c)
  <2> DEFINE t == call[c].tool
  <2>1. call[c].at = "judge" /\ t \in Tools
    BY <1>0, <1>12 DEF Judge
  <2>2. /\ circuit[t].failures = call[c].count /\ call[c].count = reported.failures[t]
        /\ circuit[t].state = "CLOSED" \/ call[c].count >= Threshold
    BY <2>1 DEF SoleBreaker, Records, Underway
  <2>3. \A u \in Tools : u # t => Settled(u)
    BY <2>1 DEF SoleBreaker
  <2>4. call'[c].at = "idle"
    BY <1>0, <1>12 DEF Judge, Answered, Resting
  <2>5. /\ circuit'[t].failures = circuit[t].failures
        /\ circuit'[t].state = IF call[c].count >= Threshold THEN "OPEN" ELSE circuit[t].state
        /\ \A u \in Tools : u # t => circuit'[u] = circuit[u]
        /\ reported' = reported
    BY <1>0, <1>12, <2>1 DEF Judge, TooMany, Circuits
  <2>6. circuit[t].failures < Threshold <=> ~(call[c].count >= Threshold)
    BY <1>t, <2>1, <2>2, Bounds
  <2>7. ASSUME NEW u \in Tools, u = t PROVE Settled(u)'
    <3>1. circuit'[u].failures = reported'.failures[u]
      BY <2>2, <2>5, <2>7
    <3>2. CASE call[c].count >= Threshold
      BY <2>5, <2>6, <2>7, <3>1, <3>2 DEF Settled, Closes, Tries
    <3>3. CASE ~(call[c].count >= Threshold)
      BY <2>2, <2>5, <2>6, <2>7, <3>1, <3>3 DEF Settled, Closes, Tries
    <3> QED BY <3>2, <3>3
  <2>8. \A u \in Tools : u # t => Settled(u)'
    BY <2>3, <2>5 DEF Settled, Closes, Tries
  <2> QED BY <2>4, <2>7, <2>8 DEF SoleBreaker, Records
<1>13. CASE Tick
  <2>1. /\ call'[c].at = call[c].at /\ call'[c].tool = call[c].tool
        /\ call'[c].count = call[c].count
        /\ call[c].at = "decide" => call'[c].age = Older(call[c].age)
    BY <1>0, <1>13, AgedType DEF Tick
  <2>2. reported' = reported
    BY <1>13 DEF Tick
  <2>3. ASSUME NEW t \in Tools
        PROVE  /\ circuit'[t].failures = circuit[t].failures
               /\ circuit'[t].state = circuit[t].state
               /\ circuit'[t].age = Older(circuit[t].age)
               /\ circuit[t].age >= Cooldown => circuit'[t].age >= Cooldown
    <3>1. circuit'[t] = [circuit[t] EXCEPT !.age = Older(@)]
      BY <1>13 DEF Tick
    <3>2. circuit'[t].age = Older(circuit[t].age)
      BY <1>t, <3>1
    <3>3. circuit[t].age >= Cooldown => Older(circuit[t].age) >= Cooldown
      BY <1>t, Bounds DEF Older
    <3> QED BY <1>t, <3>1, <3>2, <3>3
  <2>4. \A t \in Tools : Closes(t)' <=> Closes(t)
    BY <2>3 DEF Closes
  <2>5. \A t \in Tools : Tries(t) => Tries(t)'
    BY <2>3 DEF Tries
  <2>6. \A t \in Tools : Settled(t) => Settled(t)'
    BY <2>2, <2>3, <2>4, <2>5 DEF Settled
  <2>7. call[c].at \in Records /\ Underway(c) => Underway(c)'
    <3>1. call[c].at \in Records => call[c].tool \in Tools
      BY <1>0 DEF Records
    <3> QED BY <2>1, <2>2, <2>3, <2>4, <2>5, <3>1 DEF Underway, Closes, Tries
  <2>8. call[c].at \in {"last", "decide"} => call[c].tool \in Tools
    BY <1>0
  <2> QED BY <2>1, <2>3, <2>6, <2>7, <2>8 DEF SoleBreaker
<1>14. CASE (\E t \in Tools : Switch(t)) \/ UNCHANGED vars
  BY <1>14 DEF Switch, vars, SoleBreaker, Settled, Closes, Tries, Underway
<1> QED BY <1>1, <1>2, <1>3, <1>4, <1>5, <1>6, <1>7, <1>8, <1>9, <1>10, <1>11, <1>12, <1>13,
           <1>14 DEF Seen, Step

\* Only the reading of an open circuit's last failure, or of the state, sends a
\* call to the back end or answers in its place; and it does so by what is due.
LEMMA StepFailsFast ==
    ASSUME NEW c \in Callers, TypeOK, SoleBreaker(c), Seen(c),
           call[c].at \in {"look", "decide"}
    PROVE  /\ call'[c].at \in {"execute", "try"} => ~Due(call[c].tool)
           /\ call'[c].answer = "DEGRADED_MODE" => Due(call[c].tool)
<1> DEFINE t == call[c].tool
<1>1. /\ call \in [Callers -> Held] /\ t \in Tools /\ call[c].answer = "none"
      /\ circuit[t].state \in {"CLOSED", "OPEN", "HALF_OPEN"}
      /\ circuit[t].failures \in 0..Threshold /\ circuit[t].age \in 0..Horizon
  BY DEF TypeOK, Held
<1>2. Settled(t)
  BY <1>1 DEF SoleBreaker, Records
<1>3. Due(t) <=> circuit[t].state # "CLOSED" /\ ~(circuit[t].age >= Cooldown)
  BY <1>1, <1>2, Bounds DEF Due, Settled, Closes
<1>4. CASE Look(c)
  <2>1. CASE circuit[t].state = "OPEN"
    <3>1. call'[c].at = "last" /\ call'[c].answer = "none"
      BY <1>1, <1>4, <2>1 DEF Look, GoesTo, Held
    <3> QED BY <3>1
  <2>2. CASE circuit[t].state # "OPEN"
    <3>1. ~Due(t)
      BY <1>1, <1>2, <1>3, <2>2 DEF Settled, Tries
    <3>2. Allows(circuit[t].state)
      BY <1>1, <2>2 DEF Allows
    <3>3. GoesTo(c, IF circuit[t].state = "CLOSED" THEN "execute" ELSE "try")
      BY <1>4, <2>2, <3>2 DEF Look
    <3>4. call'[c].answer = "none"
      BY <1>1, <3>3 DEF GoesTo, Held
    <3> QED BY <3>1, <3>4
  <2> QED BY <2>1, <2>2
<1>5. CASE Decide(c)
  <2>1. circuit[t].state = "OPEN" /\ call[c].age = circuit[t].age
    BY <1>5 DEF Decide, SoleBreaker
  <2>2. CASE call[c].age >= Cooldown
    <3>1. ~Due(t) /\ ~(call[c].age < Cooldown)
      BY <1>1, <1>3, <2>1, <2>2, Bounds
    <3>2. call' = [call EXCEPT ![c].at = "try", ![c].age = 0]
      BY <1>5, <3>1 DEF Decide, Allows
    <3>3. call'[c].answer = "none"
      BY <1>1, <3>2 DEF Held
    <3> QED BY <3>1, <3>3
  <2>3. CASE ~(call[c].age >= Cooldown)
    <3>1. Due(t) /\ Answered(c, "DEGRADED_MODE")
      BY <1>3, <1>5, <2>1, <2>3 DEF Decide
    <3>2. call'[c].at = "idle"
      BY <1>1, <3>1 DEF Answered, Resting
    <3> QED BY <3>1, <3>2
  <2> QED BY <2>2, <2>3
<1>6. CASE Tick
  <2>1. call'[c] = Aged(call[c])
    BY <1>6 DEF Tick
  <2>2. call'[c].at = call[c].at /\ call'[c].answer = "none"
    BY <1>1, <2>1, AgedType
  <2> QED BY <2>2
<1>7. CASE (\E u \in Tools : Switch(u)) \/ UNCHANGED vars
  BY <1>1, <1>7 DEF Switch, vars
<1> QED BY <1>4, <1>5, <1>6, <1>7
     DEF Seen, Step, Refuse, Ask, Clean, Keep, Room, Enter, Last, Close, Zero, Count, Write, Stamp,
         Judge, Raise

\* For any number of callers, as long as they have waited for each other,
\* whatever the threshold and the cooldown and however time goes by within a
\* call: a call reaches the back end unless the tool has failed Threshold times
\* since it last succeeded, the last time less than Cooldown ago, and just then
\* it is answered in its place.
THEOREM FailsFast == Spec => FailsFastJustWhenDue
<1> DEFINE Inv == InTurn /\ (reported.alone => \A c \in Callers : Sole(c) => SoleBreaker(c))
<1>1. Init => Inv
  <2> SUFFICES ASSUME Init PROVE Inv
    OBVIOUS
  <2>1. \A c \in Callers : call[c].at = "idle"
    BY DEF Init, Resting
  <2>2. \A t \in Tools : Settled(t)
    BY Bounds DEF Init, Settled, Closes, Tries
  <2> QED BY <2>1, <2>2 DEF InTurn, SoleBreaker, Records
<1>2. TypeOK /\ Inv /\ [Next]_vars => Inv'
  <2> SUFFICES ASSUME TypeOK, Inv, [Next]_vars, reported'.alone, NEW c \in Callers, Sole(c)'
               PROVE  SoleBreaker(c)'
    BY StepInTurn
  <2>0. reported.alone
    BY SoleBefore
  <2>1. CASE Sole(c) /\ Seen(c)
    BY <2>0, <2>1, StepSoleBreaker
  <2>2. ASSUME NEW d \in Callers, Sole(d), Seen(d), call'[c] = call[c], call'[d].at = "idle",
               call[c].at = "idle"
        PROVE  SoleBreaker(c)'
    <3>1. SoleBreaker(d)'
      BY <2>0, <2>2, StepSoleBreaker
    <3> QED BY <2>2, <3>1 DEF SoleBreaker, Records
  <2>3. CASE /\ Sole(c) /\ call'[c] = call[c] /\ circuit' = circuit
             /\ reported'.failures = reported.failures /\ reported'.clean = reported.clean
    <3>1. SoleBreaker(c)
      BY <2>0, <2>3
    <3> QED BY <2>3, <3>1 DEF SoleBreaker, Settled, Closes, Tries, Underway
  <2> QED BY <2>1, <2>2, <2>3, SoleBefore
<1>3. TypeOK /\ Inv /\ [Next]_vars =>
        \A c \in Callers : (reported.alone /\ call[c].at \in {"look", "decide"}) =>
          /\ call'[c].at \in {"execute", "try"} => ~Due(call[c].tool)
          /\ call'[c].answer = "DEGRADED_MODE" => Due(call[c].tool)
  <2> SUFFICES ASSUME TypeOK, Inv, [Next]_vars, NEW c \in Callers, reported.alone,
                      call[c].at \in {"look", "decide"}
               PROVE  /\ call'[c].at \in {"execute", "try"} => ~Due(call[c].tool)
                      /\ call'[c].answer = "DEGRADED_MODE" => Due(call[c].tool)
    OBVIOUS
  <2>1. Sole(c) /\ SoleBreaker(c)
    BY DEF InTurn, Sole
  <2>2. CASE Seen(c)
    BY <2>1, <2>2, StepFailsFast
  <2>3. ASSUME NEW d \in Callers, d # c,
               (\E n \in Nodes, t \in Tools : Refuse(d, n, t) \/ Ask(d, n, t)) \/ Step(d)
        PROVE  call'[c] = call[c]
    BY <2>3, OthersStay
  <2>4. call[c].answer = "none"
    BY DEF TypeOK
  <2> QED BY <2>2, <2>3, <2>4 DEF Next, Seen
<1> HIDE DEF Inv
<1> QED BY <1>1, <1>2, <1>3, TypeCorrect, PTL DEF Spec, FailsFastJustWhenDue

----------------------------------------------------------------------------
\* The limiter, as long as the callers wait for each other

\* The first n calls of h that are younger than w
Below(h, n, w) == {i \in 1..n : h[i] < w}
Youngs(h, w)   == Cardinality(Below(h, Len(h), w))

LEMMA BelowFinite ==
    ASSUME NEW h, NEW n \in Nat, NEW w
    PROVE  IsFiniteSet(Below(h, n, w)) /\ Cardinality(Below(h, n, w)) \in Nat
<1>1. IsFiniteSet(1..n) /\ Below(h, n, w) \in SUBSET (1..n)
  BY FS_Interval DEF Below
<1> QED BY <1>1, FS_Subset, FS_CardinalityType

LEMMA BelowAdd ==
    ASSUME NEW h, NEW n \in Nat, NEW w
    PROVE  Cardinality(Below(h, n + 1, w)) =
             IF h[n + 1] < w THEN Cardinality(Below(h, n, w)) + 1 ELSE Cardinality(Below(h, n, w))
<1>1. IsFiniteSet(Below(h, n, w)) /\ n + 1 \notin Below(h, n, w)
  BY BelowFinite DEF Below
<1>2. CASE h[n + 1] < w
  <2>1. Below(h, n + 1, w) = Below(h, n, w) \cup {n + 1}
    BY <1>2 DEF Below
  <2> QED BY <1>1, <1>2, <2>1, FS_AddElement
<1>3. CASE ~(h[n + 1] < w)
  <2>1. Below(h, n + 1, w) = Below(h, n, w)
    BY <1>3 DEF Below
  <2> QED BY <1>3, <2>1
<1> QED BY <1>2, <1>3

LEMMA BelowAppend ==
    ASSUME NEW S, NEW k \in Seq(S), NEW x, NEW w
    PROVE  Youngs(Append(k, x), w) = IF x < w THEN Youngs(k, w) + 1 ELSE Youngs(k, w)
<1> DEFINE n == Len(k)
           g == Append(k, x)
<1>1. n \in Nat /\ Len(g) = n + 1 /\ g[n + 1] = x /\ \A i \in 1..n : g[i] = k[i]
  <2>1. k \in Seq(S \cup {x})
    BY SeqMonotonic
  <2> QED BY <2>1
<1>2. Below(g, n, w) = Below(k, n, w)
  BY <1>1 DEF Below
<1> HIDE DEF n, g
<1>3. Cardinality(Below(g, n + 1, w)) =
        IF g[n + 1] < w THEN Cardinality(Below(g, n, w)) + 1 ELSE Cardinality(Below(g, n, w))
  BY <1>1, BelowAdd
<1> QED BY <1>1, <1>2, <1>3 DEF Youngs, n, g

\* The filter keeps just what is younger than a window: of any younger age as
\* many calls as there were.
LEMMA KeptIsYoung ==
    ASSUME history \in Seq(0..Horizon), NEW n \in 0..Len(history), NEW w \in 0..Window
    PROVE  /\ Kept[n] \in Seq(0..(Window - 1)) /\ Len(Kept[n]) <= n
           /\ Youngs(Kept[n], w) = Cardinality(Below(history, n, w))
<1> DEFINE L == Len(history)
           P(k) == /\ Kept[k] \in Seq(0..(Window - 1)) /\ Len(Kept[k]) <= k
                   /\ Youngs(Kept[k], w) = Cardinality(Below(history, k, w))
           S == {k \in Nat : k \in 0..L => P(k)}
<1>1. L \in Nat /\ Window \in Nat \ {0} /\ w \in Nat /\ w <= Window
      /\ \A k \in 1..L : history[k] \in 0..Horizon
  BY Bounds
<1>2. \A k \in 0..L : Kept[k] = IF k = 0 THEN << >> ELSE Filtered(Kept[k - 1], k)
  BY KeptIsFilter DEF IsFilter
<1> HIDE DEF L
<1>3. 0 \in S
  <2>1. Kept[0] = << >> /\ Below(history, 0, w) = {}
    BY <1>1, <1>2 DEF Below
  <2>2. << >> \in Seq(0..(Window - 1)) /\ Len(<< >>) = 0
    OBVIOUS
  <2>3. Below(<< >>, 0, w) = {}
    BY DEF Below
  <2>4. Youngs(Kept[0], w) = Cardinality({}) /\ Cardinality(Below(history, 0, w)) = Cardinality({})
    BY <2>1, <2>2, <2>3 DEF Youngs
  <2>5. P(0)
    BY <2>1, <2>2, <2>4
  <2> QED BY <2>5
<1>4. ASSUME NEW k \in Nat, k \in S PROVE k + 1 \in S
  <2> SUFFICES ASSUME k + 1 \in 0..L PROVE P(k + 1)
    OBVIOUS
  <2>1. k \in 0..L /\ k + 1 \in 1..L /\ k + 1 # 0 /\ (k + 1) - 1 = k
    BY <1>1
  <2>2. P(k)
    BY <1>4, <2>1
  <2>3. Kept[k + 1] = Filtered(Kept[k], k + 1)
    BY <1>2, <2>1
  <2>4. Cardinality(Below(history, k + 1, w)) =
          IF history[k + 1] < w THEN Cardinality(Below(history, k, w)) + 1
          ELSE Cardinality(Below(history, k, w))
    BY BelowAdd
  <2>5. CASE history[k + 1] < Window
    <3>1. Kept[k + 1] = Append(Kept[k], history[k + 1]) /\ history[k + 1] \in 0..(Window - 1)
      BY <1>1, <2>1, <2>3, <2>5 DEF Filtered
    <3>2. Kept[k + 1] \in Seq(0..(Window - 1)) /\ Len(Kept[k + 1]) = Len(Kept[k]) + 1
          /\ Len(Kept[k]) \in Nat
      BY <2>2, <3>1
    <3>3. Youngs(Kept[k + 1], w) =
            IF history[k + 1] < w THEN Youngs(Kept[k], w) + 1 ELSE Youngs(Kept[k], w)
      BY <2>2, <3>1, BelowAppend
    <3> QED BY <2>2, <2>4, <3>2, <3>3
  <2>6. CASE ~(history[k + 1] < Window)
    <3>1. ~(history[k + 1] < w) /\ Kept[k + 1] = Kept[k] /\ Len(Kept[k]) \in Nat
      BY <1>1, <2>1, <2>2, <2>3, <2>6, Bounds DEF Filtered
    <3> QED BY <2>2, <2>4, <3>1
  <2> QED BY <2>5, <2>6
<1> HIDE DEF S
<1>5. \A k \in Nat : k \in S
  BY <1>3, <1>4, SetInduction
<1>6. n \in Nat /\ n \in 0..L
  BY <1>1 DEF L
<1> QED BY <1>5, <1>6 DEF S

\* A tick later as many calls are younger than w + 1 as were younger than w.
LEMMA OlderYoungs ==
    ASSUME NEW h \in Seq(0..Horizon), NEW w \in 1..Window
    PROVE  Youngs([i \in DOMAIN h |-> Older(h[i])], w) = Youngs(h, w - 1)
<1> DEFINE g == [i \in DOMAIN h |-> Older(h[i])]
<1>1. Len(g) = Len(h) /\ DOMAIN h = 1..Len(h) /\ \A i \in 1..Len(h) : h[i] \in 0..Horizon
  <2>1. \A i \in 1..Len(h) : h[i] \in 0..Horizon
    BY ElementOfSeq
  <2>2. DOMAIN h = 1..Len(h)
    BY LenProperties
  <2> QED BY <2>1, <2>2, OlderSeq
<1>2. \A i \in 1..Len(h) : g[i] < w <=> h[i] < w - 1
  <2> TAKE i \in 1..Len(h)
  <2>1. g[i] = Older(h[i]) /\ h[i] \in 0..Horizon
    BY <1>1
  <2> QED BY <2>1, Bounds DEF Older
<1>3. Below(g, Len(g), w) = Below(h, Len(h), w - 1)
  BY <1>1, <1>2 DEF Below
<1> QED BY <1>3 DEF Youngs

LEMMA NoneYounger ==
    ASSUME NEW h \in Seq(0..Horizon) PROVE Youngs(h, 0) = 0
<1>1. \A i \in 1..Len(h) : ~(h[i] < 0)
  <2> TAKE i \in 1..Len(h)
  <2>1. h[i] \in 0..Horizon
    BY ElementOfSeq
  <2> QED BY <2>1, Bounds
<1>2. Below(h, Len(h), 0) = {}
  BY <1>1 DEF Below
<1> QED BY <1>2, FS_EmptySet DEF Youngs

\* What the limiter remembers never exceeds the rate; and what a caller that is
\* in allow has collected are the calls of the window before it took the time,
\* none of them missing.
SoleLimiter(c) ==
    /\ Len(history) <= MaxRate
    /\ call[c].at \in {"clean", "keep", "room", "append"} => MaxRate > 0
    /\ call[c].at = "keep" =>
          /\ Len(call[c].kept) <= MaxRate
          /\ \A i \in 1..Len(call[c].kept) : call[c].kept[i] < Window + call[c].age
          /\ \A w \in 0..Window : Youngs(call[c].kept, w) = Youngs(history, w)
    /\ call[c].at = "room" => \A i \in 1..Len(history) : history[i] < Window + call[c].age
    /\ call[c].at = "append" => Len(history) < MaxRate

LEMMA StepSoleLimiter ==
    ASSUME NEW c \in Callers, TypeOK, SoleLimiter(c), Seen(c)
    PROVE  SoleLimiter(c)'
<1>0. /\ call \in [Callers -> Held] /\ history \in Seq(0..Horizon)
      /\ call[c] \in Held /\ call[c].kept \in Seq(0..Horizon) /\ call[c].age \in 0..Horizon
      /\ Len(history) \in Nat /\ Len(call[c].kept) \in Nat
  <2>1. call \in [Callers -> Held] /\ history \in Seq(0..Horizon)
    BY DEF TypeOK, Held
  <2>2. call[c] \in Held
    BY <2>1
  <2>3. call[c].kept \in Seq(0..Horizon) /\ call[c].age \in 0..Horizon
    BY <2>2 DEF Held
  <2> QED BY <2>1, <2>2, <2>3, LenProperties
<1>1. ASSUME history' = history, call'[c].at \notin {"clean", "keep", "room", "append"}
      PROVE  SoleLimiter(c)'
  BY <1>1 DEF SoleLimiter
<1>2. ASSUME NEW a, Answered(c, a), history' = history PROVE SoleLimiter(c)'
  <2>1. call'[c].at = "idle"
    BY <1>0, <1>2 DEF Answered, Resting
  <2> QED BY <1>1, <1>2, <2>1
<1>3. ASSUME NEW n \in Nodes, NEW t \in Tools, Refuse(c, n, t) PROVE SoleLimiter(c)'
  BY <1>2, <1>3 DEF Refuse
<1>4. ASSUME NEW n \in Nodes, NEW t \in Tools, Ask(c, n, t) PROVE SoleLimiter(c)'
  <2>1. call'[c].at = IF MaxRate > 0 THEN "clean" ELSE "look"
    BY <1>0, <1>4 DEF Ask, Resting
  <2> QED BY <1>4, <2>1 DEF Ask, SoleLimiter
<1>5. CASE Clean(c)
  <2>1. call'[c].at = "keep" /\ call'[c].kept = Recent /\ call'[c].age = 0 /\ history' = history
    BY <1>0, <1>5 DEF Clean, Held
  <2>2. \A w \in 0..Window : /\ Recent \in Seq(0..(Window - 1)) /\ Len(Recent) <= Len(history)
                             /\ Youngs(Recent, w) = Youngs(history, w)
    <3>1. Len(history) \in 0..Len(history)
      BY <1>0
    <3> QED BY <1>0, <3>1, KeptIsYoung DEF Recent, Youngs
  <2>3. Recent \in Seq(0..(Window - 1)) /\ Len(Recent) <= Len(history)
    BY <2>2, Bounds
  <2>4. \A i \in 1..Len(Recent) : Recent[i] < Window + 0
    <3> TAKE i \in 1..Len(Recent)
    <3>1. Recent[i] \in 0..(Window - 1)
      BY <2>3, ElementOfSeq
    <3> QED BY <3>1, Bounds
  <2>5. Len(Recent) <= MaxRate
    <3>1. Len(Recent) \in Nat
      BY <2>3, LenProperties
    <3> QED BY <1>0, <2>3, <3>1, Bounds DEF SoleLimiter
  <2>6. call[c].at = "clean" /\ MaxRate > 0 /\ Len(history) <= MaxRate
    BY <1>5 DEF Clean, SoleLimiter
  <2> QED BY <2>1, <2>2, <2>4, <2>5, <2>6 DEF SoleLimiter
<1>6. CASE Keep(c)
  <2>1. call'[c].at = "room" /\ call'[c].age = call[c].age /\ history' = call[c].kept
    BY <1>0, <1>6 DEF Keep, GoesTo, Held
  <2>2. call[c].at = "keep"
    BY <1>6 DEF Keep
  <2> QED BY <2>1, <2>2 DEF SoleLimiter
<1>7. CASE Room(c)
  <2>1. CASE Answered(c, "TOOL_RATE_LIMIT_ERROR")
    BY <1>2, <1>7, <2>1 DEF Room
  <2>2. CASE GoesTo(c, "append") /\ HasRoom
    <3>1. call'[c].at = "append"
      BY <1>0, <2>2 DEF GoesTo, Held
    <3>2. history' = history /\ call[c].at = "room" /\ Len(history) < MaxRate
      BY <1>7, <2>2 DEF Room, HasRoom
    <3> QED BY <3>1, <3>2 DEF SoleLimiter
  <2> QED BY <1>7, <2>1, <2>2 DEF Room
<1>8. CASE Enter(c)
  <2>1. call'[c].at = "look"
    BY <1>0, <1>8 DEF Enter, Held
  <2>2. history' = Append(history, call[c].age) /\ call[c].at = "append"
    BY <1>8 DEF Enter
  <2>3. Len(history') = Len(history) + 1 /\ Len(history) < MaxRate
    BY <1>0, <2>2 DEF SoleLimiter
  <2>4. Len(history') <= MaxRate
    BY <1>0, <2>3, Bounds
  <2> QED BY <2>1, <2>4 DEF SoleLimiter
<1>9. CASE Look(c) \/ Last(c) \/ Close(c) \/ Count(c) \/ Write(c) \/ Stamp(c)
  <2>1. history' = history
    BY <1>9 DEF Look, Last, Close, Count, Write, Stamp
  <2>2. CASE Look(c)
    <3>1. ASSUME NEW s \in {"last", "execute", "try"}, GoesTo(c, s) PROVE SoleLimiter(c)'
      <4>1. call'[c].at = s
        BY <1>0, <3>1 DEF GoesTo, Held
      <4> QED BY <1>1, <2>1, <4>1
    <3> QED BY <1>2, <2>1, <2>2, <3>1 DEF Look
  <2>3. CASE Last(c) \/ Count(c)
    <3>1. call'[c].at \in {"decide", "write"}
      <4>1. CASE Last(c)
        BY <1>0, <4>1 DEF Last, Held
      <4>2. CASE Count(c)
        BY <1>0, <4>2 DEF Count, Held
      <4> QED BY <2>3, <4>1, <4>2
    <3> QED BY <1>1, <2>1, <3>1
  <2>4. CASE Close(c) \/ Write(c)
    <3>1. call'[c].at \in {"zero", "stamp"}
      BY <1>0, <2>4 DEF Close, Write, GoesTo, Held
    <3> QED BY <1>1, <2>1, <3>1
  <2>5. CASE Stamp(c)
    <3>1. call'[c].at = "judge"
      BY <1>0, <2>5 DEF Stamp, Held
    <3> QED BY <1>1, <2>1, <3>1
  <2> QED BY <1>9, <2>2, <2>3, <2>4, <2>5
<1>10. CASE Decide(c)
  <2>1. history' = history
    BY <1>10 DEF Decide
  <2>2. CASE Answered(c, "DEGRADED_MODE")
    BY <1>2, <2>1, <2>2
  <2>3. CASE call' = [call EXCEPT ![c].at = "try", ![c].age = 0]
    <3>1. call'[c].at = "try"
      BY <1>0, <2>3 DEF Held
    <3> QED BY <1>1, <2>1, <3>1
  <2> QED BY <1>10, <2>2, <2>3 DEF Decide
<1>11. CASE Zero(c) \/ Judge(c) \/ Raise(c)
  BY <1>2, <1>11 DEF Zero, Judge, Raise
<1>12. CASE Tick
  <2>1. /\ call'[c].at = call[c].at
        /\ call'[c].kept = [i \in DOMAIN call[c].kept |-> Older(call[c].kept[i])]
        /\ call[c].at \in {"keep", "room", "append"} => call'[c].age = Older(call[c].age)
    BY <1>0, <1>12, AgedType DEF Tick
  <2>2. history' = [i \in DOMAIN history |-> Older(history[i])]
    BY <1>12 DEF Tick
  <2>3. ASSUME NEW h \in Seq(0..Horizon), NEW a \in 0..Horizon,
               \A i \in 1..Len(h) : h[i] < Window + a
        PROVE  \A i \in 1..Len(h) : Older(h[i]) < Window + Older(a)
    <3> TAKE i \in 1..Len(h)
    <3>1. h[i] \in 0..Horizon /\ h[i] < Window + a
      BY <2>3, ElementOfSeq
    <3> QED BY <3>1, Bounds DEF Older
  <2>4. \A h \in Seq(0..Horizon) :
           /\ Len([i \in DOMAIN h |-> Older(h[i])]) = Len(h)
           /\ \A i \in 1..Len(h) : [j \in DOMAIN h |-> Older(h[j])][i] = Older(h[i])
    BY OlderSeq, LenProperties
  <2>5. /\ Len(history') = Len(history) /\ Len(call'[c].kept) = Len(call[c].kept)
        /\ \A i \in 1..Len(history) : history'[i] = Older(history[i])
        /\ \A i \in 1..Len(call[c].kept) : call'[c].kept[i] = Older(call[c].kept[i])
    BY <1>0, <2>1, <2>2, <2>4
  <2>6. ASSUME call[c].at = "keep", NEW w \in 0..Window
        PROVE  Youngs(call'[c].kept, w) = Youngs(history', w)
    <3>1. CASE w = 0
      <4>1. call'[c].kept \in Seq(0..Horizon) /\ history' \in Seq(0..Horizon)
        BY <1>0, <2>1, <2>2, OlderSeq
      <4> QED BY <3>1, <4>1, NoneYounger
    <3>2. CASE w # 0
      <4>1. w \in 1..Window /\ w - 1 \in 0..Window
        BY <3>2, Bounds
      <4>2. Youngs(call[c].kept, w - 1) = Youngs(history, w - 1)
        BY <2>6, <4>1 DEF SoleLimiter
      <4> QED BY <1>0, <2>1, <2>2, <4>1, <4>2, OlderYoungs
    <3> QED BY <3>1, <3>2
  <2>7. ASSUME call[c].at = "keep"
        PROVE  \A i \in 1..Len(call'[c].kept) : call'[c].kept[i] < Window + call'[c].age
    <3>1. \A i \in 1..Len(call[c].kept) : call[c].kept[i] < Window + call[c].age
      BY <2>7 DEF SoleLimiter
    <3>2. \A i \in 1..Len(call[c].kept) : Older(call[c].kept[i]) < Window + Older(call[c].age)
      BY <1>0, <2>3, <3>1
    <3> QED BY <2>1, <2>5, <2>7, <3>2
  <2>8. ASSUME call[c].at = "room"
        PROVE  \A i \in 1..Len(history') : history'[i] < Window + call'[c].age
    <3>1. \A i \in 1..Len(history) : history[i] < Window + call[c].age
      BY <2>8 DEF SoleLimiter
    <3>2. \A i \in 1..Len(history) : Older(history[i]) < Window + Older(call[c].age)
      BY <1>0, <2>3, <3>1
    <3> QED BY <2>1, <2>5, <2>8, <3>2
  <2> QED BY <2>1, <2>5, <2>6, <2>7, <2>8 DEF SoleLimiter
<1>13. CASE (\E t \in Tools : Switch(t)) \/ UNCHANGED vars
  BY <1>13 DEF Switch, vars, SoleLimiter
<1> QED BY <1>3, <1>4, <1>5, <1>6, <1>7, <1>8, <1>9, <1>10, <1>11, <1>12, <1>13 DEF Seen, Step

\* For any number of callers, as long as they have waited for each other,
\* whatever the rate and the window and however time goes by within a call:
\* never more than MaxRate calls are remembered, none is forgotten within a
\* window, and a call is refused only for MaxRate others of the window before it
\* was begun.
THEOREM RateKept == Spec => RateIsKept
<1> DEFINE Inv == /\ InTurn
                  /\ reported.alone => /\ Len(history) <= MaxRate
                                       /\ \A c \in Callers : Sole(c) => SoleLimiter(c)
           Forgets == \A c \in Callers : (reported.alone /\ Keep(c)) =>
                         Cardinality(Young(history')) >= Cardinality(Young(history))
           Refuses == \A c \in Callers :
                         (reported.alone /\ call[c].at = "room"
                            /\ call'[c].answer = "TOOL_RATE_LIMIT_ERROR") =>
                            Cardinality({i \in DOMAIN history : history[i] < Window + call[c].age})
                              >= MaxRate
<1>1. Init => Inv
  <2> SUFFICES ASSUME Init PROVE Inv
    OBVIOUS
  <2>1. history = << >> /\ \A c \in Callers : call[c].at = "idle"
    BY DEF Init, Resting
  <2>2. Len(history) = 0
    BY <2>1, EmptySeq
  <2> QED BY <2>1, <2>2, Bounds DEF InTurn, SoleLimiter
<1>2. TypeOK /\ Inv /\ [Next]_vars => Inv'
  <2> SUFFICES ASSUME TypeOK, Inv, [Next]_vars, reported'.alone
               PROVE  Len(history') <= MaxRate /\ \A c \in Callers : Sole(c)' => SoleLimiter(c)'
    BY StepInTurn
  <2>1. ASSUME NEW c \in Callers, Sole(c)' PROVE SoleLimiter(c)'
    <3>0. reported.alone
      BY <2>1, SoleBefore
    <3>1. CASE Sole(c) /\ Seen(c)
      BY <3>0, <3>1, StepSoleLimiter
    <3>2. ASSUME NEW d \in Callers, Sole(d), Seen(d), call'[c] = call[c], call[c].at = "idle"
          PROVE  SoleLimiter(c)'
      <4>1. SoleLimiter(d)'
        BY <3>0, <3>2, StepSoleLimiter
      <4> QED BY <3>2, <4>1 DEF SoleLimiter
    <3>3. CASE Sole(c) /\ call'[c] = call[c] /\ history' = history
      <4>1. SoleLimiter(c)
        BY <3>0, <3>3
      <4> QED BY <3>3, <4>1 DEF SoleLimiter
    <3> QED BY <2>1, <3>1, <3>2, <3>3, SoleBefore
  <2>2. Len(history') <= MaxRate
    <3>1. InTurn'
      BY StepInTurn
    <3>2. CASE \E c \in Callers : TRUE
      <4>1. PICK c \in Callers : \A d \in Callers : d # c => call'[d].at = "idle"
        BY <3>1, <3>2 DEF InTurn
      <4> QED BY <2>1, <4>1 DEF Sole, SoleLimiter
    <3>3. CASE Callers = {}
      <4>1. Tick \/ (\E t \in Tools : Switch(t)) \/ UNCHANGED vars
        BY <3>3 DEF Next
      <4>2. reported.alone /\ history \in Seq(0..Horizon)
        BY <4>1, NobodyMoves DEF TypeOK
      <4>3. Len(history') = Len(history)
        <5>1. CASE Tick
          BY <4>2, <5>1, OlderSeq DEF Tick
        <5>2. CASE (\E t \in Tools : Switch(t)) \/ UNCHANGED vars
          BY <5>2 DEF Switch, vars
        <5> QED BY <4>1, <5>1, <5>2
      <4> QED BY <4>2, <4>3
    <3> QED BY <3>2, <3>3
  <2> QED BY <2>1, <2>2
<1>3. Inv => (reported.alone => Len(history) <= MaxRate)
  OBVIOUS
<1>a. ASSUME Inv, NEW c \in Callers, reported.alone, call[c].at # "idle" PROVE SoleLimiter(c)
  BY <1>a DEF InTurn, Sole
<1>4. \A h \in Seq(0..Horizon) : Cardinality(Young(h)) = Youngs(h, Window) /\ Youngs(h, Window) \in Nat
  <2> TAKE h \in Seq(0..Horizon)
  <2>1. DOMAIN h = 1..Len(h) /\ Len(h) \in Nat
    OBVIOUS
  <2>2. Young(h) = Below(h, Len(h), Window)
    BY <2>1 DEF Young, Below
  <2> QED BY <2>1, <2>2, BelowFinite DEF Youngs
<1>5. TypeOK /\ Inv /\ [Next]_vars => Forgets
  <2> SUFFICES ASSUME TypeOK, Inv, NEW c \in Callers, reported.alone, Keep(c)
               PROVE  Cardinality(Young(history')) >= Cardinality(Young(history))
    OBVIOUS
  <2>1. history \in Seq(0..Horizon) /\ history' \in Seq(0..Horizon) /\ history' = call[c].kept
    BY DEF TypeOK, Keep
  <2>2. Youngs(history', Window) = Youngs(history, Window)
    <3>1. Window \in 0..Window
      BY Bounds
    <3>2. SoleLimiter(c)
      BY <1>a DEF Keep
    <3> QED BY <2>1, <3>1, <3>2 DEF SoleLimiter, Keep
  <2> QED BY <1>4, <2>1, <2>2
<1>6. TypeOK /\ Inv /\ [Next]_vars => Refuses
  <2> SUFFICES ASSUME TypeOK, Inv, [Next]_vars, NEW c \in Callers, reported.alone, call[c].at = "room",
                      call'[c].answer = "TOOL_RATE_LIMIT_ERROR"
               PROVE  Cardinality({i \in DOMAIN history : history[i] < Window + call[c].age})
                        >= MaxRate
    OBVIOUS
  <2>1. history \in Seq(0..Horizon) /\ call \in [Callers -> Held] /\ call[c].answer = "none"
    BY DEF TypeOK, Held
  <2>2. DOMAIN history = 1..Len(history) /\ Len(history) \in Nat
    BY <2>1
  <2>3. {i \in DOMAIN history : history[i] < Window + call[c].age} = 1..Len(history)
    BY <1>a, <2>2 DEF SoleLimiter
  <2>4. ~HasRoom
    <3>1. CASE Room(c)
      <4>1. ~GoesTo(c, "append")
        BY <2>1 DEF GoesTo, Held
      <4> QED BY <3>1, <4>1 DEF Room
    <3>2. CASE Tick
      <4>1. call'[c].answer = "none"
        BY <2>1, <3>2, AgedType DEF Tick
      <4> QED BY <4>1
    <3>3. CASE (\E t \in Tools : Switch(t)) \/ UNCHANGED vars
      BY <2>1, <3>3 DEF Switch, vars
    <3>4. ASSUME NEW d \in Callers, d # c,
                 (\E n \in Nodes, t \in Tools : Refuse(d, n, t) \/ Ask(d, n, t)) \/ Step(d)
          PROVE  FALSE
      BY <2>1, <3>4, OthersStay
    <3>5. CASE (\E n \in Nodes, t \in Tools : Refuse(c, n, t) \/ Ask(c, n, t)) \/ Step(c)
      BY <3>1, <3>5 DEF Step, Refuse, Ask, Clean, Keep, Enter, Look, Last, Decide, Close, Zero, Count,
                        Write, Stamp, Judge, Raise
    <3> QED BY <3>2, <3>3, <3>4, <3>5 DEF Next
  <2>5. Len(history) >= MaxRate
    BY <2>2, <2>4, Bounds DEF HasRoom
  <2>6. Cardinality(1..Len(history)) = Len(history)
    BY <2>2, FS_Interval
  <2> QED BY <2>3, <2>5, <2>6
<1> HIDE DEF Inv
<1> QED BY <1>1, <1>2, <1>3, <1>5, <1>6, TypeCorrect, PTL DEF Spec, RateIsKept

=============================================================================
