------------------------- MODULE ScenarioRunProofs -------------------------
(***************************************************************************)
(* Theorems about the in-memory engine, for dossiers with any figures and  *)
(* any number of failures.                                                 *)
(***************************************************************************)
EXTENDS ScenarioRun, FiniteSetTheorems, SequenceTheorems, TLAPS

\* The first k nodes of the pipeline.
First(k) == {NodeOrder[j] : j \in 1 .. k}

Ordered == \E k \in 0 .. 14 : DOMAIN node = First(k)

\* The tools of n that answered, as the run has it. Without faults these are
\* all but those the dossier makes fail.
ToolsAnswered(n, ok, error) ==
    /\ ok \subseteq ToolsOf(n)
    /\ error => ok # ToolsOf(n)
    /\ ok \cap dossier.forced = {}
    /\ faults = 0 => ToolsOf(n) \ dossier.forced \subseteq ok

\* What n has left is its substitute, or what it makes of its tools and of
\* what the nodes before it have left.
LeftBy(n) ==
    \/ node[n] = Substitute(n)
    \/ \E ok \in SUBSET ToolsOf(n), error \in BOOLEAN :
        /\ ToolsAnswered(n, ok, error)
        /\ ~Raises(n, node, ok, error)
        /\ node[n] = Output(n, dossier, node, ok, error)

RunInv ==
    /\ dossier \in Dossiers
    /\ faults \in 0 .. MaxFaults
    /\ Ordered
    /\ \A n \in Agents : n \in DOMAIN node => LeftBy(n)
    /\ Over => node["CONTROL"] = Control(node)

----------------------------------------------------------------------------
\* The order of the nodes

LEMMA NodesInOrder ==
    /\ DOMAIN NodeOrder = 1 .. 14
    /\ NodeOrder[1] = "A1" /\ NodeOrder[2] = "A2" /\ NodeOrder[3] = "A3" /\ NodeOrder[4] = "A4"
    /\ NodeOrder[5] = "A5" /\ NodeOrder[6] = "A6" /\ NodeOrder[7] = "A7" /\ NodeOrder[8] = "A8"
    /\ NodeOrder[9] = "A9" /\ NodeOrder[10] = "A10" /\ NodeOrder[11] = "A11"
    /\ NodeOrder[12] = "A12" /\ NodeOrder[13] = "A13" /\ NodeOrder[14] = "CONTROL"
BY DEF NodeOrder, Pipeline

LEMMA AgentsAre ==
    Agents = {"A1", "A2", "A3", "A4", "A5", "A6", "A7", "A8", "A9", "A10", "A11", "A12", "A13"}
<1>1. /\ DOMAIN Pipeline = 1 .. 13
      /\ Pipeline[1] = "A1" /\ Pipeline[2] = "A2" /\ Pipeline[3] = "A3" /\ Pipeline[4] = "A4"
      /\ Pipeline[5] = "A5" /\ Pipeline[6] = "A6" /\ Pipeline[7] = "A7" /\ Pipeline[8] = "A8"
      /\ Pipeline[9] = "A9" /\ Pipeline[10] = "A10" /\ Pipeline[11] = "A11"
      /\ Pipeline[12] = "A12" /\ Pipeline[13] = "A13"
  BY DEF Pipeline
<1>2. DOMAIN Pipeline = {1, 2, 3, 4, 5, 6, 7, 8, 9, 10, 11, 12, 13}
  BY <1>1
<1>3. \A n : n \in Agents <=> \E i \in DOMAIN Pipeline : n = Pipeline[i]
  BY DEF Agents
<1>4. \A n : n \in Agents <=> \E i \in {1, 2, 3, 4, 5, 6, 7, 8, 9, 10, 11, 12, 13} : n = Pipeline[i]
  BY <1>2, <1>3
<1> QED BY <1>1, <1>4

\* Whose reports a node reads.
Reads(n) ==
    CASE n = "A6" -> {"A4"}
      [] n = "A7" -> {"A2", "A3", "A4", "A5"}
      [] n = "A8" -> {"A1", "A2", "A3", "A4", "A5", "A7"}
      [] n = "A9" -> {"A1", "A2", "A5", "A8"}
      [] n = "A10" -> {"A8", "A9"}
      [] n = "A11" -> {"A4", "A8", "A9"}
      [] n = "A12" -> {"A5", "A11"}
      [] n = "A13" -> {"A1", "A2", "A3", "A4", "A5", "A9", "A12"}
      [] n = "CONTROL" -> {"A1", "A2", "A3", "A4", "A5", "A9", "A13"}
      [] OTHER -> {}

\* Whose turn it is has not run, and those it reads have.
LEMMA TurnReads ==
    ASSUME NEW n, Turn(n)
    PROVE  n \notin DOMAIN node /\ Reads(n) \subseteq DOMAIN node
<1>1. PICK i \in 1 .. 14 : NodeOrder[i] = n /\ DOMAIN node = {NodeOrder[j] : j \in 1 .. i - 1}
  BY NodesInOrder DEF Turn
<1>2. \A j \in 1 .. i - 1 : NodeOrder[j] # n
  BY <1>1, NodesInOrder
<1>3. n \notin DOMAIN node
  BY <1>1, <1>2
<1>4. \A m \in Reads(n) : \E j \in 1 .. i - 1 : NodeOrder[j] = m
  BY <1>1, NodesInOrder DEF Reads
<1> QED BY <1>1, <1>3, <1>4

LEMMA TurnOrdered ==
    ASSUME NEW n, Turn(n), NEW out, Leaves(n, out)
    PROVE  Ordered'
<1>1. PICK i \in 1 .. 14 : NodeOrder[i] = n /\ DOMAIN node = {NodeOrder[j] : j \in 1 .. i - 1}
  BY NodesInOrder DEF Turn
<1>2. DOMAIN node' = DOMAIN node \cup {n}
  BY DEF Leaves
<1>3. DOMAIN node' = First(i)
  BY <1>1, <1>2 DEF First
<1> QED BY <1>3 DEF Ordered, First

\* A node depends on those it reads alone, and these never change.
LEMMA OnlyReads ==
    ASSUME NEW n \in Agents, NEW s, NEW ok, NEW error, NEW f, NEW g,
           \A m \in Reads(n) : f[m] = g[m]
    PROVE  /\ Raises(n, f, ok, error) = Raises(n, g, ok, error)
           /\ Output(n, s, f, ok, error) = Output(n, s, g, ok, error)
<1> USE DEF Reads, Raises, Output
<1>1. CASE n = "A1"
  BY <1>1
<1>2. CASE n = "A2"
  BY <1>2
<1>3. CASE n = "A3"
  BY <1>3
<1>4. CASE n = "A4"
  BY <1>4
<1>5. CASE n = "A5"
  BY <1>5
<1>6. CASE n = "A6"
  BY <1>6 DEF A6
<1>7. CASE n = "A7"
  BY <1>7 DEF A7, Challenges
<1>8. CASE n = "A8"
  BY <1>8 DEF A8, Rating
<1>9. CASE n = "A9"
  BY <1>9 DEF A9, A9Raises
<1>10. CASE n = "A10"
  BY <1>10 DEF A10
<1>11. CASE n = "A11"
  BY <1>11 DEF A11
<1>12. CASE n = "A12"
  BY <1>12 DEF A12
<1>13. CASE n = "A13"
  BY <1>13 DEF A13, Decision
<1> QED BY <1>1, <1>2, <1>3, <1>4, <1>5, <1>6, <1>7, <1>8, <1>9, <1>10, <1>11, <1>12, <1>13, AgentsAre

\* What has been left stays as it was left, by the same tools.
LEMMA LeftStays ==
    ASSUME RunInv, NEW n \in Agents, n \in DOMAIN node,
           \A m \in DOMAIN node : m \in DOMAIN node' /\ node'[m] = node[m],
           Reads(n) \subseteq DOMAIN node,
           dossier' = dossier, faults' = 0 => faults = 0
    PROVE  LeftBy(n)'
<1>1. CASE node[n] = Substitute(n)
  BY <1>1 DEF LeftBy
<1>2. CASE node[n] # Substitute(n)
  <2>1. PICK ok \in SUBSET ToolsOf(n), error \in BOOLEAN :
          /\ ToolsAnswered(n, ok, error)
          /\ ~Raises(n, node, ok, error)
          /\ node[n] = Output(n, dossier, node, ok, error)
    BY <1>2 DEF RunInv, LeftBy
  <2>2. /\ Raises(n, node', ok, error) = Raises(n, node, ok, error)
        /\ Output(n, dossier, node', ok, error) = Output(n, dossier, node, ok, error)
    <3>1. \A m \in Reads(n) : node'[m] = node[m]
      OBVIOUS
    <3> DEFINE after == node'
    <3>2. \A m \in Reads(n) : after[m] = node[m]
      BY <3>1
    <3> HIDE DEF after
    <3>3. /\ Raises(n, after, ok, error) = Raises(n, node, ok, error)
          /\ Output(n, dossier, after, ok, error) = Output(n, dossier, node, ok, error)
      BY <3>2, OnlyReads
    <3> QED BY <3>3 DEF after
  <2>3. ToolsAnswered(n, ok, error)'
    BY <2>1 DEF ToolsAnswered
  <2>4. node'[n] = node[n]
    OBVIOUS
  <2> QED BY <2>1, <2>2, <2>3, <2>4 DEF LeftBy
<1> QED BY <1>1, <1>2

\* Whoever has run has had all it reads.
LEMMA ReadsHaveRun ==
    ASSUME Ordered, NEW n \in DOMAIN node
    PROVE  Reads(n) \subseteq DOMAIN node
<1>1. PICK k \in 0 .. 14 : DOMAIN node = {NodeOrder[j] : j \in 1 .. k}
  BY DEF Ordered, First
<1>2. PICK i \in 1 .. k : n = NodeOrder[i]
  BY <1>1
<1>3. \A m \in Reads(n) : \E j \in 1 .. i : NodeOrder[j] = m
  BY <1>2, NodesInOrder DEF Reads
<1> QED BY <1>1, <1>3

LEMMA InvInit == Init => RunInv
<1> SUFFICES ASSUME Init PROVE RunInv
  OBVIOUS
<1>1. DOMAIN node = {}
  BY DEF Init
<1>2. DOMAIN node = First(0)
  BY <1>1 DEF First
<1> QED BY <1>1, <1>2, RunAssumptions DEF Init, RunInv, Ordered, Over

LEMMA SmallSets ==
    \A x, y, z, w : IsFiniteSet({x, y}) /\ IsFiniteSet({x, y, z}) /\ IsFiniteSet({x, y, z, w})
<1> SUFFICES ASSUME NEW x, NEW y, NEW z, NEW w
             PROVE  IsFiniteSet({x, y}) /\ IsFiniteSet({x, y, z}) /\ IsFiniteSet({x, y, z, w})
  OBVIOUS
<1>1. IsFiniteSet({x})
  BY FS_Singleton, Zenon
<1>2. IsFiniteSet({x} \cup {y})
  BY <1>1, FS_AddElement, Zenon
<1>3. IsFiniteSet(({x} \cup {y}) \cup {z})
  BY <1>2, FS_AddElement, Zenon
<1>4. IsFiniteSet((({x} \cup {y}) \cup {z}) \cup {w})
  BY <1>3, FS_AddElement, Zenon
<1>5. /\ {x, y} = {x} \cup {y} /\ {x, y, z} = ({x} \cup {y}) \cup {z}
      /\ {x, y, z, w} = (({x} \cup {y}) \cup {z}) \cup {w}
  OBVIOUS
<1> QED BY <1>2, <1>3, <1>4, <1>5, Zenon

\* How many tools fail is a number.
LEMMA FaultsCount ==
    ASSUME NEW n, NEW a \in Answers(n)
    PROVE  /\ a.faults \in Nat
           /\ a.ok \subseteq ToolsOf(n) /\ a.error \in BOOLEAN
           /\ a.ok \cap dossier.forced = {}
           /\ a.faults = 0 => ToolsOf(n) \ dossier.forced \subseteq a.ok
<1> DEFINE forced == {t \in ToolsOf(n) : BackendFails(dossier, t)}
<1>1. PICK bad \in SUBSET ToolsOf(n), error \in BOOLEAN :
        /\ forced \subseteq bad
        /\ a = [ok |-> ToolsOf(n) \ bad, error |-> error, faults |-> Cardinality(bad \ forced)]
  BY DEF Answers
<1>2. IsFiniteSet(bad \ forced)
  <2>1. IsFiniteSet(ToolsOf(n))
    <3> QED BY SmallSets, FS_EmptySet DEF ToolsOf
  <2> QED BY <2>1, FS_Subset
<1>3. Cardinality(bad \ forced) \in Nat /\ (Cardinality(bad \ forced) = 0 => bad \ forced = {})
  BY <1>2, FS_CardinalityType, FS_EmptySet
<1>4. forced = ToolsOf(n) \cap dossier.forced
  BY DEF BackendFails
<1> HIDE DEF forced
<1> QED BY <1>1, <1>3, <1>4

\* A step of n adds what it leaves, and nothing else changes.
LEMMA Adds ==
    ASSUME NEW n, Turn(n), NEW out, Leaves(n, out)
    PROVE  /\ n \notin DOMAIN node /\ DOMAIN node' = DOMAIN node \cup {n}
           /\ node'[n] = out
           /\ \A m \in DOMAIN node : node'[m] = node[m]
BY TurnReads DEF Leaves

LEMMA OthersStay ==
    ASSUME RunInv, NEW n, Turn(n), NEW out, Leaves(n, out),
           dossier' = dossier, faults' = 0 => faults = 0
    PROVE  /\ Ordered'
           /\ \A m \in Agents : m \in DOMAIN node => LeftBy(m)'
           /\ "CONTROL" \in DOMAIN node =>
                  node'["CONTROL"] = node["CONTROL"] /\ Control(node') = Control(node)
<1>1. Ordered'
  BY TurnOrdered
<1>2. ASSUME NEW m \in Agents, m \in DOMAIN node PROVE LeftBy(m)'
  BY <1>2, Adds, LeftStays, ReadsHaveRun DEF RunInv
<1>3. ASSUME "CONTROL" \in DOMAIN node
      PROVE  node'["CONTROL"] = node["CONTROL"] /\ Control(node') = Control(node)
  <2>1. Reads("CONTROL") \subseteq DOMAIN node
    BY <1>3, ReadsHaveRun DEF RunInv
  <2>2. \A m \in {"A1", "A2", "A3", "A4", "A5", "A9", "A13"} : node'[m] = node[m]
    BY <2>1, Adds DEF Reads
  <2> QED BY <1>3, <2>2, Adds DEF Control, BlockedReasons
<1> QED BY <1>1, <1>2, <1>3

LEMMA AgentStep ==
    ASSUME RunInv, NEW n \in Agents, Turn(n), NEW out, Leaves(n, out),
           dossier' = dossier, faults' \in 0 .. MaxFaults, faults' = 0 => faults = 0,
           LeftBy(n)'
    PROVE  RunInv'
<1>1. n # "CONTROL"
  BY AgentsAre
<1>2. /\ Ordered'
      /\ \A m \in Agents : m \in DOMAIN node => LeftBy(m)'
      /\ "CONTROL" \in DOMAIN node =>
             node'["CONTROL"] = node["CONTROL"] /\ Control(node') = Control(node)
  BY OthersStay
<1>3. DOMAIN node' = DOMAIN node \cup {n}
  BY Adds
<1>4. \A m \in Agents : m \in DOMAIN node' => LeftBy(m)'
  BY <1>2, <1>3
<1>5. Over' => node'["CONTROL"] = Control(node')
  BY <1>1, <1>2, <1>3 DEF RunInv, Over
<1> QED BY <1>2, <1>4, <1>5 DEF RunInv

LEMMA InvNext == RunInv /\ [Next]_vars => RunInv'
<1> SUFFICES ASSUME RunInv, [Next]_vars PROVE RunInv'
  OBVIOUS
<1> USE DEF RunInv
<1>1. ASSUME NEW n \in Agents, Complete(n) PROVE RunInv'
  <2>1. PICK a \in Possible(n) :
          /\ ~Raises(n, node, a.ok, a.error)
          /\ Leaves(n, Output(n, dossier, node, a.ok, a.error))
          /\ faults' = faults + a.faults
    BY <1>1 DEF Complete
  <2>2. Turn(n) /\ dossier' = dossier
    BY <1>1 DEF Complete
  <2>3. a \in Answers(n) /\ (a.error => a.ok # ToolsOf(n)) /\ faults + a.faults <= MaxFaults
    BY DEF Possible
  <2>4. faults' \in 0 .. MaxFaults /\ (faults' = 0 => faults = 0 /\ a.faults = 0)
    BY <2>1, <2>3, FaultsCount, RunAssumptions
  <2>5. ToolsAnswered(n, a.ok, a.error)'
    BY <2>1, <2>2, <2>3, <2>4, FaultsCount DEF ToolsAnswered
  <2> DEFINE after == node'
  <2>6. after[n] = Output(n, dossier, node, a.ok, a.error) /\ \A m \in Reads(n) : after[m] = node[m]
    BY <2>1, <2>2, Adds, TurnReads
  <2> HIDE DEF after
  <2>7. /\ Raises(n, after, a.ok, a.error) = Raises(n, node, a.ok, a.error)
        /\ Output(n, dossier, after, a.ok, a.error) = Output(n, dossier, node, a.ok, a.error)
    BY <2>6, OnlyReads
  <2>8. ~Raises(n, node', a.ok, a.error) /\ node'[n] = Output(n, dossier', node', a.ok, a.error)
    BY <2>1, <2>2, <2>6, <2>7 DEF after
  <2>9. LeftBy(n)'
    BY <2>3, <2>5, <2>8, FaultsCount DEF LeftBy
  <2> QED BY <2>1, <2>2, <2>4, <2>9, AgentStep
<1>2. ASSUME NEW n \in Agents, Degrade(n) PROVE RunInv'
  <2>1. Turn(n) /\ Leaves(n, Substitute(n)) /\ dossier' = dossier
    BY <1>2 DEF Degrade
  <2>2. faults' \in 0 .. MaxFaults /\ (faults' = 0 => faults = 0)
    <3>1. CASE faults < MaxFaults /\ faults' = faults + 1
      BY <3>1, RunAssumptions
    <3>2. CASE \E a \in Possible(n) : faults' = faults + a.faults
      <4>1. PICK a \in Possible(n) : faults' = faults + a.faults
        BY <3>2
      <4>2. a \in Answers(n) /\ faults + a.faults <= MaxFaults
        BY DEF Possible
      <4> QED BY <4>1, <4>2, FaultsCount, RunAssumptions
    <3> QED BY <1>2, <3>1, <3>2 DEF Degrade
  <2>3. LeftBy(n)'
    BY <2>1, Adds DEF LeftBy
  <2> QED BY <2>1, <2>2, <2>3, AgentStep
<1>3. ASSUME Judge PROVE RunInv'
  <2>1. Turn("CONTROL") /\ Leaves("CONTROL", Control(node)) /\ dossier' = dossier /\ faults' = faults
    BY <1>3 DEF Judge
  <2>2. Reads("CONTROL") \subseteq DOMAIN node /\ "CONTROL" \notin DOMAIN node
    BY <2>1, TurnReads
  <2>3. \A m \in {"A1", "A2", "A3", "A4", "A5", "A9", "A13"} : node'[m] = node[m]
    BY <2>1, <2>2, Adds DEF Reads
  <2>4. Control(node') = Control(node)
    BY <2>3 DEF Control, BlockedReasons
  <2>5. \A m \in Agents : m \in DOMAIN node' => LeftBy(m)'
    <3>1. /\ DOMAIN node' = DOMAIN node \cup {"CONTROL"}
          /\ \A m \in Agents : m \in DOMAIN node => LeftBy(m)'
      BY <2>1, Adds, OthersStay
    <3> QED BY <3>1, AgentsAre
  <2>6. Ordered' /\ node'["CONTROL"] = Control(node)
    BY <2>1, Adds, OthersStay
  <2> QED BY <2>1, <2>4, <2>5, <2>6
<1>4. ASSUME UNCHANGED vars PROVE RunInv'
  <2>1. /\ \A n \in Agents : n \in DOMAIN node => LeftBy(n)'
        /\ Ordered' /\ Control(node)' = Control(node) /\ Over' = Over
    BY <1>4 DEF vars, LeftBy, ToolsAnswered, Ordered, Over
  <2> QED BY <1>4, <2>1 DEF vars
<1> QED BY <1>1, <1>2, <1>3, <1>4 DEF Next

\* Each node has left its substitute, or what it makes of its tools and of the
\* nodes before it, whatever fails.
THEOREM RunCorrect == Spec => []RunInv
BY InvInit, InvNext, PTL DEF Spec

----------------------------------------------------------------------------
\* What is in the report of each agent that has run

LEMMA Substitutes ==
    /\ Substitute("A1") = [failed |-> TRUE, gap |-> TRUE]
    /\ Substitute("A2") = [failed |-> TRUE, status |-> "DEGRADED_TIMEOUT", rating |-> "FAIL"]
    /\ Substitute("A3") = [failed |-> TRUE, rating |-> "CRITICAL"]
    /\ Substitute("A4") = [failed |-> TRUE, viable |-> FALSE]
    /\ Substitute("A5") = [failed |-> TRUE, escalation |-> TRUE]
    /\ Substitute("A6") = [failed |-> TRUE]
    /\ Substitute("A7") = [failed |-> TRUE, challenges |-> {}]
    /\ Substitute("A8") = [failed |-> TRUE]
    /\ Substitute("A9") = [failed |-> TRUE, action |-> "BLOCKED", conditions |-> {}]
    /\ Substitute("A10") = [failed |-> TRUE]
    /\ Substitute("A11") = [failed |-> TRUE]
    /\ Substitute("A12") = [failed |-> TRUE]
    /\ Substitute("A13") = [failed |-> TRUE, decision |-> "REJECT_INSUFFICIENT_EVIDENCE"]
BY DEF Substitute

LEMMA OutputOf ==
    ASSUME NEW s, NEW f, NEW ok, NEW error
    PROVE  /\ Output("A1", s, f, ok, error) = A1(s, ok)
           /\ Output("A2", s, f, ok, error) = A2(s, error)
           /\ Output("A3", s, f, ok, error) = A3(s)
           /\ Output("A4", s, f, ok, error) = A4(s)
           /\ Output("A5", s, f, ok, error) = A5(s)
           /\ Output("A6", s, f, ok, error) = A6(f)
           /\ Output("A7", s, f, ok, error) = A7(f)
           /\ Output("A8", s, f, ok, error) = A8(f)
           /\ Output("A9", s, f, ok, error) = A9(s, f, ok)
           /\ Output("A10", s, f, ok, error) = A10(f)
           /\ Output("A11", s, f, ok, error) = A11(f)
           /\ Output("A12", s, f, ok, error) = A12(f)
           /\ Output("A13", s, f, ok, error) = A13(f)
BY DEF Output

LEMMA Report1 ==
    ASSUME RunInv, "A1" \in DOMAIN node
    PROVE  /\ node["A1"].failed \in BOOLEAN /\ node["A1"].gap \in BOOLEAN
           /\ node["A1"].failed => node["A1"].gap
           /\ (~node["A1"].failed /\ faults = 0) =>
                  (node["A1"].gap <=> /\ "validate_case_completeness" \notin dossier.forced
                                      /\ Missing(dossier) # {})
<1>1. LeftBy("A1")
  BY AgentsAre DEF RunInv
<1>2. dossier \in Dossier
  BY RunAssumptions DEF RunInv
<1>3. CASE node["A1"] = Substitute("A1")
  <2>1. node["A1"] = [failed |-> TRUE, gap |-> TRUE]
    BY <1>3, Substitutes
  <2> QED BY <2>1
<1>4. ASSUME NEW ok \in SUBSET ToolsOf("A1"), NEW error \in BOOLEAN, ToolsAnswered("A1", ok, error),
             ~Raises("A1", node, ok, error), node["A1"] = Output("A1", dossier, node, ok, error)
      PROVE  /\ node["A1"].failed \in BOOLEAN /\ node["A1"].gap \in BOOLEAN
             /\ node["A1"].failed => node["A1"].gap
             /\ (~node["A1"].failed /\ faults = 0) =>
                    (node["A1"].gap <=> /\ "validate_case_completeness" \notin dossier.forced
                                        /\ Missing(dossier) # {})
  <2>1. node["A1"] = A1(dossier, ok)
    BY <1>4, OutputOf
  <2>2. faults = 0 => ("validate_case_completeness" \in ok <=> "validate_case_completeness" \notin dossier.forced)
    BY <1>4 DEF ToolsAnswered, ToolsOf
  <2>3. /\ node["A1"].failed = FALSE
        /\ node["A1"].gap = ("validate_case_completeness" \in ok /\ Missing(dossier) # {})
    BY <2>1 DEF A1
  <2> QED BY <2>2, <2>3
<1> QED BY <1>1, <1>3, <1>4 DEF LeftBy

LEMMA Report2 ==
    ASSUME RunInv, "A2" \in DOMAIN node
    PROVE  /\ node["A2"].failed \in BOOLEAN
           /\ node["A2"].failed => node["A2"].status = "DEGRADED_TIMEOUT" /\ node["A2"].rating = "FAIL"
           /\ ~node["A2"].failed =>
                  \/ node["A2"].status = "PARTIAL" /\ node["A2"].rating = "UNKNOWN"
                  \/ node["A2"].status = "COMPLETE" /\ node["A2"].rating \in {"CAUTION", "PASS"}
           /\ (~node["A2"].failed /\ faults = 0 /\ "query_transactions" \notin dossier.forced) =>
                  (node["A2"].status = "PARTIAL" <=> ToolsOf("A2") \cap dossier.forced # {})
<1>1. LeftBy("A2")
  BY AgentsAre DEF RunInv
<1>2. dossier \in Dossier
  BY RunAssumptions DEF RunInv
<1>3. CASE node["A2"] = Substitute("A2")
  <2>1. node["A2"] = [failed |-> TRUE, status |-> "DEGRADED_TIMEOUT", rating |-> "FAIL"]
    BY <1>3, Substitutes
  <2> QED BY <2>1
<1>4. ASSUME NEW ok \in SUBSET ToolsOf("A2"), NEW error \in BOOLEAN, ToolsAnswered("A2", ok, error),
             ~Raises("A2", node, ok, error), node["A2"] = Output("A2", dossier, node, ok, error)
      PROVE  /\ node["A2"].failed \in BOOLEAN
             /\ node["A2"].failed => node["A2"].status = "DEGRADED_TIMEOUT" /\ node["A2"].rating = "FAIL"
             /\ ~node["A2"].failed =>
                    \/ node["A2"].status = "PARTIAL" /\ node["A2"].rating = "UNKNOWN"
                    \/ node["A2"].status = "COMPLETE" /\ node["A2"].rating \in {"CAUTION", "PASS"}
             /\ (~node["A2"].failed /\ faults = 0 /\ "query_transactions" \notin dossier.forced) =>
                    (node["A2"].status = "PARTIAL" <=> ToolsOf("A2") \cap dossier.forced # {})
  <2>1. node["A2"] = A2(dossier, error)
    BY <1>4, OutputOf
  <2>2. ~error => {"compute_cashflow_metrics", "detect_cashflow_anomalies"} \subseteq ok
    BY <1>4 DEF Raises
  <2>3. (faults = 0 /\ "query_transactions" \notin dossier.forced) =>
            (error <=> ToolsOf("A2") \cap dossier.forced # {})
    BY <1>4, <2>2 DEF ToolsAnswered, ToolsOf
  <2>4. /\ node["A2"].failed = FALSE
        /\ error => node["A2"].status = "PARTIAL" /\ node["A2"].rating = "UNKNOWN"
        /\ ~error => node["A2"].status = "COMPLETE" /\ node["A2"].rating \in {"CAUTION", "PASS"}
    BY <2>1 DEF A2
  <2> QED BY <2>3, <2>4
<1> QED BY <1>1, <1>3, <1>4 DEF LeftBy

LEMMA Report3 ==
    ASSUME RunInv, "A3" \in DOMAIN node
    PROVE  /\ node["A3"].failed \in BOOLEAN /\ node["A3"].rating \in {"CRITICAL", "PASS"}
           /\ node["A3"].failed => node["A3"].rating = "CRITICAL"
           /\ ~node["A3"].failed => (node["A3"].rating = "CRITICAL" <=> dossier.circular >= 80)
<1>1. LeftBy("A3")
  BY AgentsAre DEF RunInv
<1>2. dossier \in Dossier
  BY RunAssumptions DEF RunInv
<1>3. CASE node["A3"] = Substitute("A3")
  <2>1. node["A3"] = [failed |-> TRUE, rating |-> "CRITICAL"]
    BY <1>3, Substitutes
  <2> QED BY <2>1
<1>4. ASSUME NEW ok \in SUBSET ToolsOf("A3"), NEW error \in BOOLEAN, ToolsAnswered("A3", ok, error),
             ~Raises("A3", node, ok, error), node["A3"] = Output("A3", dossier, node, ok, error)
      PROVE  /\ node["A3"].failed \in BOOLEAN /\ node["A3"].rating \in {"CRITICAL", "PASS"}
             /\ node["A3"].failed => node["A3"].rating = "CRITICAL"
             /\ ~node["A3"].failed => (node["A3"].rating = "CRITICAL" <=> dossier.circular >= 80)
  <2>1. node["A3"] = A3(dossier)
    BY <1>4, OutputOf
  <2> QED BY <1>2, <2>1 DEF Dossier, A3
<1> QED BY <1>1, <1>3, <1>4 DEF LeftBy

LEMMA Report4 ==
    ASSUME RunInv, "A4" \in DOMAIN node
    PROVE  /\ node["A4"].failed \in BOOLEAN /\ node["A4"].viable \in BOOLEAN
           /\ node["A4"].failed => ~node["A4"].viable
           /\ ~node["A4"].failed => (node["A4"].viable <=> PrimaryRepaymentViable(dossier))
<1>1. LeftBy("A4")
  BY AgentsAre DEF RunInv
<1>2. dossier \in Dossier
  BY RunAssumptions DEF RunInv
<1>3. CASE node["A4"] = Substitute("A4")
  <2>1. node["A4"] = [failed |-> TRUE, viable |-> FALSE]
    BY <1>3, Substitutes
  <2> QED BY <2>1
<1>4. ASSUME NEW ok \in SUBSET ToolsOf("A4"), NEW error \in BOOLEAN, ToolsAnswered("A4", ok, error),
             ~Raises("A4", node, ok, error), node["A4"] = Output("A4", dossier, node, ok, error)
      PROVE  /\ node["A4"].failed \in BOOLEAN /\ node["A4"].viable \in BOOLEAN
             /\ node["A4"].failed => ~node["A4"].viable
             /\ ~node["A4"].failed => (node["A4"].viable <=> PrimaryRepaymentViable(dossier))
  <2>1. node["A4"] = A4(dossier)
    BY <1>4, OutputOf
  <2>2. node["A4"].failed = FALSE /\ node["A4"].viable = PrimaryRepaymentViable(dossier)
    BY <2>1 DEF A4
  <2> QED BY <2>2 DEF PrimaryRepaymentViable
<1> QED BY <1>1, <1>3, <1>4 DEF LeftBy

LEMMA Report5 ==
    ASSUME RunInv, "A5" \in DOMAIN node
    PROVE  /\ node["A5"].failed \in BOOLEAN /\ node["A5"].escalation \in BOOLEAN
           /\ node["A5"].failed => node["A5"].escalation
           /\ ~node["A5"].failed => (node["A5"].escalation <=> EscalationRequired(dossier))
<1>1. LeftBy("A5")
  BY AgentsAre DEF RunInv
<1>2. dossier \in Dossier
  BY RunAssumptions DEF RunInv
<1>3. CASE node["A5"] = Substitute("A5")
  <2>1. node["A5"] = [failed |-> TRUE, escalation |-> TRUE]
    BY <1>3, Substitutes
  <2> QED BY <2>1
<1>4. ASSUME NEW ok \in SUBSET ToolsOf("A5"), NEW error \in BOOLEAN, ToolsAnswered("A5", ok, error),
             ~Raises("A5", node, ok, error), node["A5"] = Output("A5", dossier, node, ok, error)
      PROVE  /\ node["A5"].failed \in BOOLEAN /\ node["A5"].escalation \in BOOLEAN
             /\ node["A5"].failed => node["A5"].escalation
             /\ ~node["A5"].failed => (node["A5"].escalation <=> EscalationRequired(dossier))
  <2>1. node["A5"] = A5(dossier)
    BY <1>4, OutputOf
  <2> QED BY <2>1 DEF A5, EscalationRequired, Disposition, PolicyRule
<1> QED BY <1>1, <1>3, <1>4 DEF LeftBy

LEMMA Report6 ==
    ASSUME RunInv, "A6" \in DOMAIN node
    PROVE  /\ node["A6"].failed \in BOOLEAN
           /\ ~node["A6"].failed => node["A6"].supportable = node["A4"].viable
<1>1. LeftBy("A6")
  BY AgentsAre DEF RunInv
<1>2. dossier \in Dossier
  BY RunAssumptions DEF RunInv
<1>3. CASE node["A6"] = Substitute("A6")
  <2>1. node["A6"] = [failed |-> TRUE]
    BY <1>3, Substitutes
  <2> QED BY <2>1
<1>4. ASSUME NEW ok \in SUBSET ToolsOf("A6"), NEW error \in BOOLEAN, ToolsAnswered("A6", ok, error),
             ~Raises("A6", node, ok, error), node["A6"] = Output("A6", dossier, node, ok, error)
      PROVE  /\ node["A6"].failed \in BOOLEAN
             /\ ~node["A6"].failed => node["A6"].supportable = node["A4"].viable
  <2>1. node["A6"] = A6(node)
    BY <1>4, OutputOf
  <2> QED BY <2>1 DEF A6
<1> QED BY <1>1, <1>3, <1>4 DEF LeftBy

LEMMA Report7 ==
    ASSUME RunInv, "A7" \in DOMAIN node
    PROVE  /\ node["A7"].failed \in BOOLEAN
           /\ ~node["A7"].failed => node["A7"].challenges = A7(node).challenges
<1>1. LeftBy("A7")
  BY AgentsAre DEF RunInv
<1>2. dossier \in Dossier
  BY RunAssumptions DEF RunInv
<1>3. CASE node["A7"] = Substitute("A7")
  <2>1. node["A7"] = [failed |-> TRUE, challenges |-> {}]
    BY <1>3, Substitutes
  <2> QED BY <2>1
<1>4. ASSUME NEW ok \in SUBSET ToolsOf("A7"), NEW error \in BOOLEAN, ToolsAnswered("A7", ok, error),
             ~Raises("A7", node, ok, error), node["A7"] = Output("A7", dossier, node, ok, error)
      PROVE  /\ node["A7"].failed \in BOOLEAN
             /\ ~node["A7"].failed => node["A7"].challenges = A7(node).challenges
  <2>1. node["A7"] = A7(node)
    BY <1>4, OutputOf
  <2> QED BY <2>1 DEF A7
<1> QED BY <1>1, <1>3, <1>4 DEF LeftBy

LEMMA Report8 ==
    ASSUME RunInv, "A8" \in DOMAIN node
    PROVE  /\ node["A8"].failed \in BOOLEAN
           /\ ~node["A8"].failed => node["A8"].rating = Rating(node)
<1>1. LeftBy("A8")
  BY AgentsAre DEF RunInv
<1>2. dossier \in Dossier
  BY RunAssumptions DEF RunInv
<1>3. CASE node["A8"] = Substitute("A8")
  <2>1. node["A8"] = [failed |-> TRUE]
    BY <1>3, Substitutes
  <2> QED BY <2>1
<1>4. ASSUME NEW ok \in SUBSET ToolsOf("A8"), NEW error \in BOOLEAN, ToolsAnswered("A8", ok, error),
             ~Raises("A8", node, ok, error), node["A8"] = Output("A8", dossier, node, ok, error)
      PROVE  /\ node["A8"].failed \in BOOLEAN
             /\ ~node["A8"].failed => node["A8"].rating = Rating(node)
  <2>1. node["A8"] = A8(node)
    BY <1>4, OutputOf
  <2> QED BY <2>1 DEF A8
<1> QED BY <1>1, <1>3, <1>4 DEF LeftBy

LEMMA Report9 ==
    ASSUME RunInv, "A9" \in DOMAIN node
    PROVE  /\ node["A9"].failed \in BOOLEAN
           /\ node["A9"].failed => node["A9"].action = "BLOCKED"
           /\ ~node["A9"].failed =>
                  /\ ~node["A1"].failed /\ ~node["A8"].failed
                  /\ node["A9"].action = IF HoldsOff(node["A8"].rating) THEN "DECLINE"
                                         ELSE IF node["A5"].escalation \/ ~DealValid(dossier)
                                              THEN "ESCALATE" ELSE "PROPOSE"
                  /\ node["A9"].invalid \in BOOLEAN
                  /\ node["A9"].invalid => ~DealValid(dossier)
                  /\ (~HoldsOff(node["A8"].rating) /\ ~node["A5"].escalation) =>
                         (node["A9"].invalid <=> ~DealValid(dossier))
<1>1. LeftBy("A9")
  BY AgentsAre DEF RunInv
<1>2. dossier \in Dossier
  BY RunAssumptions DEF RunInv
<1>3. CASE node["A9"] = Substitute("A9")
  <2>1. node["A9"] = [failed |-> TRUE, action |-> "BLOCKED", conditions |-> {}]
    BY <1>3, Substitutes
  <2> QED BY <2>1
<1>4. ASSUME NEW ok \in SUBSET ToolsOf("A9"), NEW error \in BOOLEAN, ToolsAnswered("A9", ok, error),
             ~Raises("A9", node, ok, error), node["A9"] = Output("A9", dossier, node, ok, error)
      PROVE  /\ node["A9"].failed \in BOOLEAN
             /\ node["A9"].failed => node["A9"].action = "BLOCKED"
             /\ ~node["A9"].failed =>
                    /\ ~node["A1"].failed /\ ~node["A8"].failed
                    /\ node["A9"].action = IF HoldsOff(node["A8"].rating) THEN "DECLINE"
                                           ELSE IF node["A5"].escalation \/ ~DealValid(dossier)
                                                THEN "ESCALATE" ELSE "PROPOSE"
                    /\ node["A9"].invalid \in BOOLEAN
                    /\ node["A9"].invalid => ~DealValid(dossier)
                    /\ (~HoldsOff(node["A8"].rating) /\ ~node["A5"].escalation) =>
                           (node["A9"].invalid <=> ~DealValid(dossier))
  <2>1. node["A9"] = A9(dossier, node, ok)
    BY <1>4, OutputOf
  <2>2. ~A9Raises(node, ok)
    BY <1>4 DEF Raises
  <2>3. /\ node["A9"].failed = FALSE
        /\ node["A9"].action = IF HoldsOff(node["A8"].rating) THEN "DECLINE"
                               ELSE IF node["A5"].escalation \/ ~DealValid(dossier)
                                    THEN "ESCALATE" ELSE "PROPOSE"
        /\ node["A9"].invalid = ("validate_deal_structure" \in ok /\ ~DealValid(dossier))
    BY <2>1 DEF A9
  <2> QED BY <2>2, <2>3 DEF A9Raises
<1> QED BY <1>1, <1>3, <1>4 DEF LeftBy

LEMMA Report10 ==
    ASSUME RunInv, "A10" \in DOMAIN node
    PROVE  /\ node["A10"].failed \in BOOLEAN
           /\ ~node["A10"].failed => node["A10"].position = A10(node).position
<1>1. LeftBy("A10")
  BY AgentsAre DEF RunInv
<1>2. dossier \in Dossier
  BY RunAssumptions DEF RunInv
<1>3. CASE node["A10"] = Substitute("A10")
  <2>1. node["A10"] = [failed |-> TRUE]
    BY <1>3, Substitutes
  <2> QED BY <2>1
<1>4. ASSUME NEW ok \in SUBSET ToolsOf("A10"), NEW error \in BOOLEAN, ToolsAnswered("A10", ok, error),
             ~Raises("A10", node, ok, error), node["A10"] = Output("A10", dossier, node, ok, error)
      PROVE  /\ node["A10"].failed \in BOOLEAN
             /\ ~node["A10"].failed => node["A10"].position = A10(node).position
  <2>1. node["A10"] = A10(node)
    BY <1>4, OutputOf
  <2> QED BY <2>1 DEF A10
<1> QED BY <1>1, <1>3, <1>4 DEF LeftBy

LEMMA Report11 ==
    ASSUME RunInv, "A11" \in DOMAIN node
    PROVE  /\ node["A11"].failed \in BOOLEAN
           /\ ~node["A11"].failed => node["A11"].position = A11(node).position
<1>1. LeftBy("A11")
  BY AgentsAre DEF RunInv
<1>2. dossier \in Dossier
  BY RunAssumptions DEF RunInv
<1>3. CASE node["A11"] = Substitute("A11")
  <2>1. node["A11"] = [failed |-> TRUE]
    BY <1>3, Substitutes
  <2> QED BY <2>1
<1>4. ASSUME NEW ok \in SUBSET ToolsOf("A11"), NEW error \in BOOLEAN, ToolsAnswered("A11", ok, error),
             ~Raises("A11", node, ok, error), node["A11"] = Output("A11", dossier, node, ok, error)
      PROVE  /\ node["A11"].failed \in BOOLEAN
             /\ ~node["A11"].failed => node["A11"].position = A11(node).position
  <2>1. node["A11"] = A11(node)
    BY <1>4, OutputOf
  <2> QED BY <2>1 DEF A11
<1> QED BY <1>1, <1>3, <1>4 DEF LeftBy

LEMMA Report12 ==
    ASSUME RunInv, "A12" \in DOMAIN node
    PROVE  /\ node["A12"].failed \in BOOLEAN
           /\ ~node["A12"].failed => /\ node["A12"].escalation = node["A5"].escalation
                                     /\ node["A12"].dissent \in BOOLEAN
<1>1. LeftBy("A12")
  BY AgentsAre DEF RunInv
<1>2. dossier \in Dossier
  BY RunAssumptions DEF RunInv
<1>3. CASE node["A12"] = Substitute("A12")
  <2>1. node["A12"] = [failed |-> TRUE]
    BY <1>3, Substitutes
  <2> QED BY <2>1
<1>4. ASSUME NEW ok \in SUBSET ToolsOf("A12"), NEW error \in BOOLEAN, ToolsAnswered("A12", ok, error),
             ~Raises("A12", node, ok, error), node["A12"] = Output("A12", dossier, node, ok, error)
      PROVE  /\ node["A12"].failed \in BOOLEAN
             /\ ~node["A12"].failed => /\ node["A12"].escalation = node["A5"].escalation
                                       /\ node["A12"].dissent \in BOOLEAN
  <2>1. node["A12"] = A12(node)
    BY <1>4, OutputOf
  <2> QED BY <2>1 DEF A12
<1> QED BY <1>1, <1>3, <1>4 DEF LeftBy

LEMMA Report13 ==
    ASSUME RunInv, "A13" \in DOMAIN node
    PROVE  /\ node["A13"].failed \in BOOLEAN
           /\ node["A13"].failed => node["A13"].decision = "REJECT_INSUFFICIENT_EVIDENCE"
           /\ ~node["A13"].failed => node["A13"].decision = Decision(node)
<1>1. LeftBy("A13")
  BY AgentsAre DEF RunInv
<1>2. dossier \in Dossier
  BY RunAssumptions DEF RunInv
<1>3. CASE node["A13"] = Substitute("A13")
  <2>1. node["A13"] = [failed |-> TRUE, decision |-> "REJECT_INSUFFICIENT_EVIDENCE"]
    BY <1>3, Substitutes
  <2> QED BY <2>1
<1>4. ASSUME NEW ok \in SUBSET ToolsOf("A13"), NEW error \in BOOLEAN, ToolsAnswered("A13", ok, error),
             ~Raises("A13", node, ok, error), node["A13"] = Output("A13", dossier, node, ok, error)
      PROVE  /\ node["A13"].failed \in BOOLEAN
             /\ node["A13"].failed => node["A13"].decision = "REJECT_INSUFFICIENT_EVIDENCE"
             /\ ~node["A13"].failed => node["A13"].decision = Decision(node)
  <2>1. node["A13"] = A13(node)
    BY <1>4, OutputOf
  <2> QED BY <2>1 DEF A13
<1> QED BY <1>1, <1>3, <1>4 DEF LeftBy

----------------------------------------------------------------------------
\* What the run comes to

LEMMA AllHaveRun ==
    ASSUME RunInv, Over
    PROVE  /\ {"A1", "A2", "A3", "A4", "A5", "A6", "A7", "A8", "A9", "A10", "A11", "A12", "A13"}
                  \subseteq DOMAIN node
           /\ node["CONTROL"] = Control(node)
<1>1. PICK k \in 0 .. 14 : DOMAIN node = {NodeOrder[j] : j \in 1 .. k}
  BY DEF RunInv, Ordered, First
<1>2. k = 14
  BY <1>1, NodesInOrder DEF Over
<1>3. \A i \in 1 .. 14 : NodeOrder[i] \in DOMAIN node
  BY <1>1, <1>2
<1> QED BY <1>3, NodesInOrder DEF RunInv

\* An approval of A13 rests on A9, which rests on A8: together they look at
\* all that the control does.
LEMMA ApprovalRests ==
    ASSUME RunInv, Over, node["A13"].decision = "APPROVE_WITH_CONDITIONS"
    PROVE  /\ ~node["A1"].gap /\ node["A2"].status \notin {"PARTIAL", "DEGRADED_TIMEOUT"}
           /\ node["A4"].viable /\ node["A3"].rating # "CRITICAL" /\ ~node["A5"].escalation
           /\ node["A9"].action = "PROPOSE" /\ DealValid(dossier)
           /\ \A n \in {"A1", "A2", "A3", "A4", "A5", "A8", "A9", "A13"} : ~node[n].failed
           /\ ~HoldsOff(node["A8"].rating)
<1>1. ~node["A13"].failed /\ Decision(node) = "APPROVE_WITH_CONDITIONS"
  BY AllHaveRun, Report13
<1>2. /\ ~node["A1"].gap /\ node["A2"].status # "PARTIAL" /\ node["A4"].viable
      /\ ~node["A5"].escalation /\ node["A3"].rating # "CRITICAL" /\ node["A9"].action = "PROPOSE"
  BY <1>1 DEF Decision
<1>3. /\ ~node["A1"].failed /\ ~node["A8"].failed /\ ~node["A9"].failed
      /\ ~HoldsOff(node["A8"].rating) /\ DealValid(dossier)
  BY <1>2, AllHaveRun, Report9
<1>4. node["A8"].rating = Rating(node)
  BY <1>3, AllHaveRun, Report8
<1>5. node["A2"].status # "DEGRADED_TIMEOUT"
  BY <1>3, <1>4 DEF Rating, HoldsOff
<1>6. ~node["A2"].failed /\ ~node["A3"].failed /\ ~node["A4"].failed /\ ~node["A5"].failed
  BY <1>2, <1>5, AllHaveRun, Report2, Report3, Report4, Report5
<1> QED BY <1>1, <1>2, <1>3, <1>5, <1>6

LEMMA InvOpinionStands == RunInv => OpinionStands
<1> SUFFICES ASSUME RunInv, Over PROVE node["CONTROL"].status # "BLOCKED_INVALID_OPINION"
  BY DEF OpinionStands
<1>1. node["CONTROL"].status = Control(node).status
  BY AllHaveRun
<1>2. CASE node["A13"].decision = "APPROVE_WITH_CONDITIONS"
  <2>1. BlockedReasons(node) = {}
    BY <1>2, ApprovalRests DEF BlockedReasons
  <2>2. node["A9"].action = "PROPOSE"
    BY <1>2, ApprovalRests
  <2> QED BY <1>1, <1>2, <2>1, <2>2 DEF Control
<1>3. CASE node["A13"].decision # "APPROVE_WITH_CONDITIONS"
  BY <1>1, <1>3 DEF Control
<1> QED BY <1>2, <1>3

\* A case is ready just when A13 approves.
LEMMA ReadyIsApproved ==
    ASSUME RunInv, Over
    PROVE  node["CONTROL"].status = "READY_FOR_HUMAN_REVIEW"
               <=> node["A13"].decision = "APPROVE_WITH_CONDITIONS"
<1>1. node["CONTROL"].status = Control(node).status
  BY AllHaveRun
<1>2. node["CONTROL"].status # "BLOCKED_INVALID_OPINION"
  BY InvOpinionStands DEF OpinionStands
<1> QED BY <1>1, <1>2 DEF Control

LEMMA InvReadyOnlyIfSound == RunInv => ReadyOnlyIfSound
<1> SUFFICES ASSUME RunInv, Over, node["CONTROL"].status = "READY_FOR_HUMAN_REVIEW"
             PROVE  /\ Sound(dossier)
                    /\ \A n \in {"A1", "A2", "A3", "A4", "A5", "A8", "A9", "A13"} : Completed(n)
  BY DEF ReadyOnlyIfSound
<1>1. node["A13"].decision = "APPROVE_WITH_CONDITIONS"
  BY ReadyIsApproved
<1>2. \A n \in {"A1", "A2", "A3", "A4", "A5", "A8", "A9", "A13"} : Completed(n)
  BY <1>1, ApprovalRests, AllHaveRun DEF Completed
<1>3. PrimaryRepaymentViable(dossier) /\ ~EscalationRequired(dossier) /\ DealValid(dossier)
  BY <1>1, ApprovalRests, AllHaveRun, Report4, Report5
<1>4. dossier \in Dossier
  BY RunAssumptions DEF RunInv
<1>5. Sound(dossier)
  BY <1>3, <1>4 DEF PrimaryRepaymentViable, EscalationRequired, DealValid, Sound, Dossier
<1> QED BY <1>2, <1>5

\* The opinion is never one that the control must refuse, for any dossiers and
\* whatever fails.
THEOREM OpinionsStand == Spec => []OpinionStands
BY RunCorrect, InvOpinionStands, PTL

\* Only a sound dossier is presented as ready, and only by those who decide
\* having done their work, for any dossiers and whatever fails.
THEOREM ReadyIsSound == Spec => []ReadyOnlyIfSound
BY RunCorrect, InvReadyOnlyIfSound, PTL

----------------------------------------------------------------------------
\* The reports, seen from outside

LEMMA OutcomeOfAgent ==
    ASSUME NEW n \in DOMAIN node, n \in Agents
    PROVE  OutcomeMap(node)[n] = Outcome(n, node[n])
BY AgentsAre DEF OutcomeMap

LEMMA OutcomeOfControl ==
    ASSUME Over
    PROVE  OutcomeMap(node)["CONTROL"] = ControlOutcome(node["CONTROL"].status)
BY DEF OutcomeMap, Over

\* What an approval of A13 makes of the other agents.
LEMMA ApprovedReports ==
    ASSUME RunInv, Over, node["A13"].decision = "APPROVE_WITH_CONDITIONS",
           NEW n \in Agents, ~node[n].failed
    PROVE  ~Fails(n, node[n]) /\ ~Escalates(n, node[n])
<1> USE DEF Fails, Escalates
<1>1. CASE n = "A1"
  BY <1>1, ApprovalRests
<1>2. CASE n = "A2"
  BY <1>2, ApprovalRests, AllHaveRun, Report2
<1>3. CASE n = "A3"
  BY <1>3, ApprovalRests
<1>4. CASE n = "A4"
  BY <1>4, ApprovalRests
<1>5. CASE n = "A5"
  BY <1>5, ApprovalRests
<1>6. CASE n = "A6"
  BY <1>6, ApprovalRests, AllHaveRun, Report6
<1>7. CASE n = "A7"
  <2>1. /\ "weak_primary_repayment" \notin node["A7"].challenges
        /\ "circular_funds_pattern" \notin node["A7"].challenges
        /\ "mandatory_policy_escalation" \notin node["A7"].challenges
    BY <1>7, ApprovalRests, AllHaveRun, Report7 DEF A7, Challenges
  <2> QED BY <1>7, <2>1
<1>8. CASE n = "A8"
  BY <1>8, ApprovalRests
<1>9. CASE n = "A9"
  BY <1>9, ApprovalRests, AllHaveRun, Report9
<1>10. CASE n = "A10"
  BY <1>10, ApprovalRests, AllHaveRun, Report10 DEF A10
<1>11. CASE n = "A11"
  BY <1>11, ApprovalRests, AllHaveRun, Report11 DEF A11
<1>12. CASE n = "A12"
  BY <1>12, ApprovalRests, AllHaveRun, Report12
<1>13. CASE n = "A13"
  BY <1>13
<1> QED BY <1>1, <1>2, <1>3, <1>4, <1>5, <1>6, <1>7, <1>8, <1>9, <1>10, <1>11, <1>12, <1>13, AgentsAre

LEMMA InvOutcomesAgree == RunInv => OutcomesAgree
<1> SUFFICES ASSUME RunInv, Over, OutcomeMap(node)["CONTROL"] = "PASS",
                    NEW n \in Agents, Completed(n)
             PROVE  OutcomeMap(node)[n] \in {"PASS", "WARNING"}
  BY DEF OutcomesAgree
<1>1. node["A13"].decision = "APPROVE_WITH_CONDITIONS"
  BY OutcomeOfControl, ReadyIsApproved DEF ControlOutcome
<1>2. ~Fails(n, node[n]) /\ ~Escalates(n, node[n])
  BY <1>1, ApprovedReports DEF Completed
<1> QED BY <1>2, OutcomeOfAgent DEF Completed, Outcome

\* The outcomes of the agents do not contradict that of the control, for any
\* dossiers and whatever fails.
THEOREM OutcomesDoAgree == Spec => []OutcomesAgree
BY RunCorrect, InvOutcomesAgree, PTL

\* In a case of low risk every figure is one that the explanation shows in
\* green, for the agents that it judges by the limits of the back ends.
LEMMA LowRiskIsGreen ==
    ASSUME RunInv, Over, RiskLevel(node) = "LOW",
           NEW n \in Agents \ {"A1", "A2", "A3", "A7", "A11"}
    PROVE  VerdictSignal(n, dossier, node) = "GREEN"
<1>1. node["A13"].decision = "APPROVE_WITH_CONDITIONS"
  BY DEF RiskLevel
<1>2. dossier \in Dossier /\ PrimaryRepaymentViable(dossier) /\ ~EscalationRequired(dossier)
  BY <1>1, ApprovalRests, AllHaveRun, Report4, Report5, RunAssumptions DEF RunInv
<1>3. DscrVal(dossier, node) >= 120 /\ dossier.dscr \in Int /\ DscrVal(dossier, node) = dossier.dscr
  BY <1>1, <1>2, ApprovalRests DEF DscrVal, PrimaryRepaymentViable, Dossier
<1> USE DEF VerdictSignal
<1>4. CASE n = "A4"
  BY <1>3, <1>4 DEF AnalystSignal
<1>5. CASE n = "A5"
  BY <1>1, <1>2, <1>5, ApprovalRests DEF AnalystSignal, PolicyExc, Authority
<1>6. CASE n = "A6"
  BY <1>3, <1>6 DEF DebateSignal, DocsComplete
<1>7. CASE n \in {"A8", "A13"}
  BY <1>1, <1>7 DEF DecisionSignal
<1>8. CASE n = "A9"
  BY <1>1, <1>8, ApprovalRests, AllHaveRun, Report9 DEF DealSignal
<1>9. CASE n = "A10"
  BY <1>1, <1>9, ApprovalRests, AllHaveRun, Report10 DEF CommitteeSignal, A10
<1>10. CASE n = "A12"
  BY <1>1, <1>10, ApprovalRests, AllHaveRun, Report12 DEF CommitteeSignal
<1> QED BY <1>4, <1>5, <1>6, <1>7, <1>8, <1>9, <1>10, AgentsAre

\* Whom the outcome rules show as escalating is not shown in green.
LEMMA EscalationShows ==
    ASSUME RunInv, Over, NEW n \in Agents \ {"A9"}, OutcomeMap(node)[n] = "ESCALATE"
    PROVE  VerdictSignal(n, dossier, node) \in {"RED", "PURPLE"}
<1>1. ~node[n].failed /\ Escalates(n, node[n])
  <2>1. Outcome(n, node[n]) = "ESCALATE"
    BY OutcomeOfAgent, AllHaveRun, AgentsAre
  <2>2. OutcomeOfError(n) # "ESCALATE"
    BY DEF OutcomeOfError
  <2> QED BY <2>1, <2>2 DEF Outcome
<1> USE DEF VerdictSignal
<1>2. CASE n = "A5"
  BY <1>1, <1>2 DEF Escalates, AnalystSignal, PolicyExc
<1>3. CASE n = "A7"
  <2>1. node["A5"].escalation
    BY <1>1, <1>3, AllHaveRun, Report7 DEF Escalates, A7, Challenges
  <2> QED BY <1>3, <2>1 DEF DebateSignal, PolicyExc
<1>4. CASE n = "A10"
  BY <1>1, <1>4 DEF Escalates, CommitteeSignal
<1>5. CASE n = "A12"
  BY <1>1, <1>5 DEF Escalates, CommitteeSignal
<1>6. CASE n = "A13"
  BY <1>1, <1>6 DEF Escalates, DecisionSignal
<1>7. n \in {"A5", "A7", "A10", "A12", "A13"}
  BY <1>1, AgentsAre DEF Escalates
<1> QED BY <1>2, <1>3, <1>4, <1>5, <1>6, <1>7

LEMMA InvSignalsAgree == RunInv => SignalsAgree
BY LowRiskIsGreen, EscalationShows DEF SignalsAgree

\* An escalation has figures that say why, but for one that is due to the
\* structure of the deal alone.
LEMMA EscalationExplained ==
    ASSUME RunInv, Over, node["A13"].decision = "ESCALATE_TO_CRO_RISK",
           \A n \in {"A2", "A3", "A9", "A13"} : ~node[n].failed
    PROVE  FigureDrivers(dossier, node) # {} \/ VerdictSignal("A9", dossier, node) = "PURPLE"
<1> USE DEF IfSo
<1>1. Decision(node) = "ESCALATE_TO_CRO_RISK"
  BY AllHaveRun, Report13
<1>2. /\ ~node["A1"].gap /\ node["A2"].status # "PARTIAL" /\ node["A4"].viable
      /\ node["A5"].escalation \/ node["A3"].rating = "CRITICAL" \/ node["A9"].action # "PROPOSE"
  BY <1>1 DEF Decision
<1>3. CASE node["A5"].escalation
  BY <1>3 DEF FigureDrivers, PolicyExc
<1>4. CASE node["A3"].rating = "CRITICAL"
  <2>1. dossier.circular >= 80 /\ dossier.circular \in Int
    BY <1>4, AllHaveRun, Report3, RunAssumptions DEF RunInv, Dossier
  <2>2. CircScore(dossier, node) >= 40
    BY <2>1 DEF CircScore
  <2> QED BY <2>2 DEF FigureDrivers
<1>5. CASE ~node["A5"].escalation /\ node["A3"].rating # "CRITICAL"
  <2>1. node["A9"].action # "PROPOSE" /\ ~node["A8"].failed
    BY <1>2, <1>5, AllHaveRun, Report9
  <2>2. node["A2"].status # "DEGRADED_TIMEOUT"
    BY AllHaveRun, Report2
  <2>3. node["A8"].rating = "APPROVE"
    BY <1>2, <1>5, <2>1, <2>2, AllHaveRun, Report8 DEF Rating
  <2>4. node["A9"].invalid
    BY <1>5, <2>1, <2>3, AllHaveRun, Report9 DEF HoldsOff
  <2> QED BY <2>4 DEF VerdictSignal, DealSignal
<1> QED BY <1>2, <1>3, <1>4, <1>5

LEMMA InvDecisionExplained == RunInv => DecisionExplained
<1> SUFFICES ASSUME RunInv, Over, \A n \in {"A2", "A3", "A9", "A13"} : Completed(n)
             PROVE  Drivers(dossier, node) # {} \/ VerdictSignal("A9", dossier, node) = "PURPLE"
  BY DEF DecisionExplained
<1> USE DEF Completed
<1>1. CASE node["A13"].decision = "APPROVE_WITH_CONDITIONS"
  BY <1>1 DEF Drivers, FigureDrivers
<1>2. CASE node["A13"].decision = "ESCALATE_TO_CRO_RISK"
  BY <1>2, EscalationExplained DEF Drivers
<1>3. CASE node["A13"].decision \notin {"APPROVE_WITH_CONDITIONS", "ESCALATE_TO_CRO_RISK"}
  <2>1. node["A1"].gap \/ node["A2"].status = "PARTIAL" \/ ~node["A4"].viable
    BY <1>3, AllHaveRun, Report13 DEF Decision
  <2>2. BlockedReasons(node) # {}
    BY <2>1 DEF BlockedReasons
  <2>3. node["CONTROL"].reasons # {} /\ RiskLevel(node) = "CRITICAL"
    BY <1>3, <2>2, AllHaveRun DEF Control, RiskLevel
  <2> QED BY <2>3 DEF Drivers, IfSo
<1> QED BY <1>1, <1>2, <1>3

\* What the explanation shows in colours does not contradict the decision it
\* explains, nor the outcomes, for any dossiers and whatever fails; and no
\* decision goes without a reason in it, as far as those on whom it rests have
\* done their work.
THEOREM ExplanationDoesAgree == Spec => []ExplanationAgrees
<1>1. RunInv => ExplanationAgrees
  BY InvSignalsAgree, InvDecisionExplained DEF ExplanationAgrees
<1> QED BY <1>1, RunCorrect, PTL

LEMMA CircularEscalates == \A s \in Dossier : s.circular >= 80 => EscalationRequired(s)
BY DEF EscalationRequired, Dossier

LEMMA InvExpected ==
    RunInv /\ (\A s \in Dossiers : Honest(s)) => ExpectedUnlessDegraded
<1> SUFFICES ASSUME RunInv, Honest(dossier), Over, faults = 0, \A n \in Agents : Completed(n),
                    dossier.expected # ""
             PROVE  node["A13"].decision = dossier.expected
  BY DEF ExpectedUnlessDegraded, RunInv
<1>1. \A n \in Agents : ~node[n].failed
  BY DEF Completed
<1>2. dossier.expected = Due(dossier) /\ "query_transactions" \notin dossier.forced
  BY DEF Honest
<1>3. node["A1"].gap <=> "validate_case_completeness" \notin dossier.forced /\ Missing(dossier) # {}
  BY <1>1, AllHaveRun, AgentsAre, Report1
<1>4. /\ node["A2"].status \in {"PARTIAL", "COMPLETE"}
      /\ node["A2"].status = "PARTIAL" <=> ToolsOf("A2") \cap dossier.forced # {}
  BY <1>1, <1>2, AllHaveRun, AgentsAre, Report2
<1>5. node["A3"].rating = "CRITICAL" => EscalationRequired(dossier)
  BY <1>1, AllHaveRun, AgentsAre, Report3, CircularEscalates, RunAssumptions DEF RunInv
<1>6. node["A4"].viable <=> PrimaryRepaymentViable(dossier)
  BY <1>1, AllHaveRun, AgentsAre, Report4
<1>7. node["A5"].escalation <=> EscalationRequired(dossier)
  BY <1>1, AllHaveRun, AgentsAre, Report5
<1>8. node["A8"].rating = Rating(node)
  BY <1>1, AllHaveRun, AgentsAre, Report8
<1>9. node["A9"].action = IF HoldsOff(node["A8"].rating) THEN "DECLINE"
                         ELSE IF node["A5"].escalation \/ ~DealValid(dossier)
                              THEN "ESCALATE" ELSE "PROPOSE"
  BY <1>1, AllHaveRun, AgentsAre, Report9
<1>10. node["A13"].decision = Decision(node)
  BY <1>1, AllHaveRun, AgentsAre, Report13
<1>11. HoldsOff(node["A8"].rating) <=>
           node["A2"].status = "PARTIAL" \/ node["A1"].gap \/ ~node["A4"].viable
  BY <1>4, <1>8 DEF Rating, HoldsOff
<1> QED BY <1>2, <1>3, <1>4, <1>5, <1>6, <1>7, <1>9, <1>10, <1>11 DEF Due, Decision

\* A run in which nothing fails comes to what the figures of its dossier call
\* for, and so to the expected outcome of any dossier that expects just that.
THEOREM ComesToExpected ==
    Spec /\ (\A s \in Dossiers : Honest(s)) => []ExpectedUnlessDegraded
<1>1. (\A s \in Dossiers : Honest(s)) => [](\A s \in Dossiers : Honest(s))
  <2> DEFINE H == \A s \in Dossiers : Honest(s)
  <2>1. H => H'
    BY DEF Honest
  <2> QED BY <2>1, PTL
<1> QED BY <1>1, RunCorrect, InvExpected, PTL

----------------------------------------------------------------------------
\* Types

LEMMA AgentTypes ==
    ASSUME RunInv, NEW n \in Agents, n \in DOMAIN node
    PROVE  node[n].failed \in BOOLEAN /\ OutcomeMap(node)[n] \in Outcomes
<1>1. node[n].failed \in BOOLEAN
  BY AgentsAre, Report1, Report2, Report3, Report4, Report5, Report6, Report7, Report8, Report9,
     Report10, Report11, Report12, Report13
<1>2. Outcome(n, node[n]) \in Outcomes
  BY DEF Outcome, OutcomeOfError, Outcomes
<1> QED BY <1>1, <1>2, OutcomeOfAgent

LEMMA Coloured ==
    ASSUME NEW n \in Agents
    PROVE  VerdictSignal(n, dossier, node) \in Colours
<1> USE DEF VerdictSignal, Colours
<1>1. CASE n \in {"A1", "A2", "A3", "A4", "A5"}
  BY <1>1 DEF AnalystSignal
<1>2. CASE n \in {"A6", "A7"}
  BY <1>2 DEF DebateSignal
<1>3. CASE n \in {"A8", "A13"}
  BY <1>3 DEF DecisionSignal
<1>4. CASE n = "A9"
  BY <1>4 DEF DealSignal
<1>5. CASE n \in {"A10", "A11", "A12"}
  BY <1>5 DEF CommitteeSignal
<1> QED BY <1>1, <1>2, <1>3, <1>4, <1>5, AgentsAre

LEMMA InvTypes == RunInv => TypeOK
<1> SUFFICES ASSUME RunInv PROVE TypeOK
  OBVIOUS
<1>1. DOMAIN node \subseteq {NodeOrder[i] : i \in DOMAIN NodeOrder}
  BY NodesInOrder DEF RunInv, Ordered, First
<1>2. \A n \in DOMAIN node : n \in Agents \/ n = "CONTROL"
  BY <1>1, NodesInOrder, AgentsAre
<1>3. "CONTROL" \in DOMAIN node => /\ node["CONTROL"].failed = FALSE
                                  /\ OutcomeMap(node)["CONTROL"] \in Outcomes
  <2> SUFFICES ASSUME Over PROVE /\ node["CONTROL"].failed = FALSE
                                /\ OutcomeMap(node)["CONTROL"] \in Outcomes
    BY DEF Over
  <2>1. node["CONTROL"].failed = FALSE
    BY AllHaveRun DEF Control
  <2>2. ControlOutcome(node["CONTROL"].status) \in Outcomes
    BY DEF ControlOutcome, Outcomes
  <2> QED BY <2>1, <2>2, OutcomeOfControl
<1> QED BY <1>1, <1>2, <1>3, AgentTypes, Coloured DEF TypeOK, RunInv

\* Every node leaves what the others look for, for any dossiers and whatever
\* fails.
THEOREM TypeCorrect == Spec => []TypeOK
BY RunCorrect, InvTypes, PTL

----------------------------------------------------------------------------
\* Where the objections of the control come from

\* What A2 finds, and what it writes of an answer it did not get.
LEMMA FindingsOfA2 ==
    ASSUME RunInv, "A2" \in DOMAIN node, ~node["A2"].failed
    PROVE  /\ node["A2"].findings \subseteq
                  {"cashflow_metrics_unavailable", "deterministic_cashflow_backend_failed",
                   "high_customer_concentration", "revenue_mismatch_gap"}
           /\ node["A2"].status = "PARTIAL" =>
                  "cashflow_metrics_unavailable" \in node["A2"].findings
<1>1. LeftBy("A2") /\ node["A2"] # Substitute("A2")
  <2>1. node["A2"] # [failed |-> TRUE, status |-> "DEGRADED_TIMEOUT", rating |-> "FAIL"]
    OBVIOUS
  <2> QED BY <2>1, Substitutes, AgentsAre DEF RunInv
<1>2. PICK ok \in SUBSET ToolsOf("A2"), error \in BOOLEAN :
        node["A2"] = Output("A2", dossier, node, ok, error)
  BY <1>1 DEF LeftBy
<1>3. node["A2"] = A2(dossier, error)
  BY <1>2, OutputOf
<1>4. /\ error => node["A2"].findings = {"cashflow_metrics_unavailable",
                                         "deterministic_cashflow_backend_failed"}
      /\ ~error => node["A2"].findings = Anomalies(dossier) /\ node["A2"].status = "COMPLETE"
  BY <1>3 DEF A2
<1>5. Anomalies(dossier) \subseteq {"high_customer_concentration", "revenue_mismatch_gap"}
  BY DEF Anomalies
<1> QED BY <1>4, <1>5

\* The names the first five agents have for the risks, by which the analyst
\* who found one is told from those who came before.
LEMMA EarlySignals ==
    ASSUME RunInv, Over
    PROVE  /\ Signals("A1", node["A1"]) \subseteq {"CRITICAL_DATA_GAP"}
           /\ Signals("A2", node["A2"]) \subseteq {"CASHFLOW_QUALITY_OR_COVERAGE", "REVENUE_MISMATCH_GAP"}
           /\ Signals("A3", node["A3"]) \subseteq {"CIRCULAR_FUNDS_PATTERN"}
           /\ Signals("A4", node["A4"]) \subseteq {"WEAK_PRIMARY_REPAYMENT"}
<1> USE DEF Risks
<1>1. SignalNames("A1", node["A1"]) \subseteq {"CRITICAL_DATA_GAP"}
  BY DEF SignalNames, IfSo
<1>2. ~node["A2"].failed => SignalNames("A2", node["A2"]) \subseteq
          {"cashflow_metrics_unavailable", "deterministic_cashflow_backend_failed",
           "high_customer_concentration", "revenue_mismatch_gap"}
  BY AllHaveRun, FindingsOfA2 DEF SignalNames
<1>3. SignalNames("A3", node["A3"]) \subseteq {"pattern_consistent_with_circular_funds"}
  BY DEF SignalNames, IfSo
<1>4. SignalNames("A4", node["A4"]) \subseteq {"weak_primary_repayment"}
  BY DEF SignalNames, IfSo
<1>5. \A r \in Risks : "CRITICAL_DATA_GAP" \in Aliases(r) => r = "CRITICAL_DATA_GAP"
  BY DEF Aliases
<1>6. \A r \in Risks :
          Aliases(r) \cap {"cashflow_metrics_unavailable", "deterministic_cashflow_backend_failed",
                          "high_customer_concentration", "revenue_mismatch_gap"} # {}
              => r \in {"CASHFLOW_QUALITY_OR_COVERAGE", "REVENUE_MISMATCH_GAP"}
  BY DEF Aliases
<1>7. \A r \in Risks : "pattern_consistent_with_circular_funds" \in Aliases(r)
                          => r = "CIRCULAR_FUNDS_PATTERN"
  BY DEF Aliases
<1>8. \A r \in Risks : "weak_primary_repayment" \in Aliases(r) => r = "WEAK_PRIMARY_REPAYMENT"
  BY DEF Aliases
<1> HIDE DEF Risks
<1>9. Signals("A1", node["A1"]) \subseteq {"CRITICAL_DATA_GAP"}
  BY <1>1, <1>5 DEF Signals
<1>10. Signals("A2", node["A2"]) \subseteq {"CASHFLOW_QUALITY_OR_COVERAGE", "REVENUE_MISMATCH_GAP"}
  BY <1>2, <1>6 DEF Signals
<1>11. Signals("A3", node["A3"]) \subseteq {"CIRCULAR_FUNDS_PATTERN"}
  BY <1>3, <1>7 DEF Signals
<1>12. Signals("A4", node["A4"]) \subseteq {"WEAK_PRIMARY_REPAYMENT"}
  BY <1>4, <1>8 DEF Signals
<1> QED BY <1>9, <1>10, <1>11, <1>12

\* The names of the control stand for the risks of the analysts.
LEMMA ControlSignals ==
    ASSUME RunInv, Over, NEW reason \in node["CONTROL"].reasons,
           NEW r \in Risks, reason \in Aliases(r)
    PROVE  "CONTROL" \in RiskPath(r, node)
<1>1. ~node["CONTROL"].failed
  BY AllHaveRun DEF Control
<1>2. reason \in SignalNames("CONTROL", node["CONTROL"])
  BY DEF SignalNames
<1>3. r \in Signals("CONTROL", node["CONTROL"])
  BY <1>1, <1>2 DEF Signals
<1> QED BY <1>3 DEF RiskPath, Over

\* Whose risk it is starts the path, if those before know nothing of it.
LEMMA PathStarts ==
    ASSUME RunInv, Over, NEW i \in 1 .. 5, NEW r \in Risks,
           NodeOrder[i] \in DOMAIN node, r \in Signals(NodeOrder[i], node[NodeOrder[i]]),
           \A j \in 1 .. i - 1 : r \notin Signals(NodeOrder[j], node[NodeOrder[j]])
    PROVE  StartsPath(NodeOrder[i], RiskPath(r, node))
<1>1. \A j, k \in 1 .. 14 : NodeOrder[j] = NodeOrder[k] => j = k
  BY NodesInOrder
<1> QED BY <1>1, NodesInOrder DEF StartsPath, RiskPath

LEMMA InvReasonsTraceable == RunInv => ReasonsTraceable
<1> SUFFICES ASSUME RunInv, Over, NEW reason \in node["CONTROL"].reasons,
                    Completed(AnalystOf(reason))
             PROVE  \E r \in Propagated(node) :
                        /\ StartsPath(AnalystOf(reason), RiskPath(r, node))
                        /\ "CONTROL" \in RiskPath(r, node)
  BY DEF ReasonsTraceable
<1>1. ASSUME NEW i \in 1 .. 5, AnalystOf(reason) = NodeOrder[i], NEW r \in Risks, reason \in Aliases(r),
             r \in Signals(NodeOrder[i], node[NodeOrder[i]]),
             \A j \in 1 .. i - 1 : r \notin Signals(NodeOrder[j], node[NodeOrder[j]])
      PROVE  \E q \in Propagated(node) :
                 /\ StartsPath(AnalystOf(reason), RiskPath(q, node))
                 /\ "CONTROL" \in RiskPath(q, node)
  <2>1. NodeOrder[i] \in DOMAIN node /\ NodeOrder[i] # "CONTROL"
    BY <1>1, NodesInOrder DEF Completed
  <2>2. StartsPath(AnalystOf(reason), RiskPath(r, node))
    BY <1>1, <2>1, PathStarts
  <2>3. "CONTROL" \in RiskPath(r, node)
    BY <1>1, ControlSignals
  <2>4. r \in Propagated(node)
    BY <1>1, <2>1, <2>2, <2>3 DEF Propagated, StartsPath
  <2> QED BY <2>2, <2>3, <2>4
<1>2. node["CONTROL"].reasons = BlockedReasons(node)
  BY AllHaveRun DEF Control
<1>3. reason \in BlockedReasons(node)
  BY <1>2
<1>4. CASE reason = "CRITICAL_DATA_GAP"
  <2>1. AnalystOf(reason) = "A1" /\ ~node["A1"].failed /\ node["A1"].gap
    BY <1>3, <1>4 DEF AnalystOf, Completed, BlockedReasons
  <2>2. "CRITICAL_DATA_GAP" \in Signals("A1", node["A1"])
    BY <2>1 DEF Signals, SignalNames, IfSo, Aliases, Risks
  <2>3. reason \in Aliases("CRITICAL_DATA_GAP") /\ "CRITICAL_DATA_GAP" \in Risks
    BY <1>4 DEF Aliases, Risks
  <2> QED BY <1>1, <2>1, <2>2, <2>3, NodesInOrder
<1>5. CASE reason = "CASHFLOW_TOOL_OR_COVERAGE_GAP"
  <2>1. AnalystOf(reason) = "A2" /\ ~node["A2"].failed
    BY <1>5 DEF AnalystOf, Completed
  <2>2. node["A2"].status \in {"PARTIAL", "DEGRADED_TIMEOUT"}
    BY <1>3, <1>5 DEF BlockedReasons
  <2>3. "cashflow_metrics_unavailable" \in node["A2"].findings
    BY <2>1, <2>2, AllHaveRun, Report2, FindingsOfA2
  <2>4. "CASHFLOW_QUALITY_OR_COVERAGE" \in Signals("A2", node["A2"])
    BY <2>1, <2>3 DEF Signals, SignalNames, Aliases, Risks
  <2>5. reason \in Aliases("CASHFLOW_QUALITY_OR_COVERAGE") /\ "CASHFLOW_QUALITY_OR_COVERAGE" \in Risks
    BY <1>5 DEF Aliases, Risks
  <2>6. "CASHFLOW_QUALITY_OR_COVERAGE" \notin Signals("A1", node["A1"])
    BY EarlySignals
  <2> QED BY <1>1, <2>1, <2>4, <2>5, <2>6, NodesInOrder
<1>6. CASE reason = "MATERIAL_TRANSACTION_INTEGRITY_RISK"
  <2>1. AnalystOf(reason) = "A3" /\ ~node["A3"].failed /\ node["A3"].rating = "CRITICAL"
    BY <1>3, <1>6 DEF AnalystOf, Completed, BlockedReasons
  <2>2. "CIRCULAR_FUNDS_PATTERN" \in Signals("A3", node["A3"])
    BY <2>1 DEF Signals, SignalNames, IfSo, Aliases, Risks
  <2>3. reason \in Aliases("CIRCULAR_FUNDS_PATTERN") /\ "CIRCULAR_FUNDS_PATTERN" \in Risks
    BY <1>6 DEF Aliases, Risks
  <2>4. \A n \in {"A1", "A2"} : "CIRCULAR_FUNDS_PATTERN" \notin Signals(n, node[n])
    BY EarlySignals
  <2> QED BY <1>1, <2>1, <2>2, <2>3, <2>4, NodesInOrder
<1>7. CASE reason = "PRIMARY_REPAYMENT_NOT_VIABLE"
  <2>1. AnalystOf(reason) = "A4" /\ ~node["A4"].failed /\ ~node["A4"].viable
    BY <1>3, <1>7 DEF AnalystOf, Completed, BlockedReasons
  <2>2. "WEAK_PRIMARY_REPAYMENT" \in Signals("A4", node["A4"])
    BY <2>1 DEF Signals, SignalNames, IfSo, Aliases, Risks
  <2>3. reason \in Aliases("WEAK_PRIMARY_REPAYMENT") /\ "WEAK_PRIMARY_REPAYMENT" \in Risks
    BY <1>7 DEF Aliases, Risks
  <2>4. \A n \in {"A1", "A2", "A3"} : "WEAK_PRIMARY_REPAYMENT" \notin Signals(n, node[n])
    BY EarlySignals
  <2> QED BY <1>1, <2>1, <2>2, <2>3, <2>4, NodesInOrder
<1>8. CASE reason = "MANDATORY_POLICY_ESCALATION"
  <2>1. AnalystOf(reason) = "A5" /\ ~node["A5"].failed /\ node["A5"].escalation
    BY <1>3, <1>8 DEF AnalystOf, Completed, BlockedReasons
  <2>2. "MANDATORY_POLICY_ESCALATION" \in Signals("A5", node["A5"])
    BY <2>1 DEF Signals, SignalNames, IfSo, Aliases, Risks
  <2>3. reason \in Aliases("MANDATORY_POLICY_ESCALATION") /\ "MANDATORY_POLICY_ESCALATION" \in Risks
    BY <1>8 DEF Aliases, Risks
  <2>4. \A n \in {"A1", "A2", "A3", "A4"} : "MANDATORY_POLICY_ESCALATION" \notin Signals(n, node[n])
    BY EarlySignals
  <2> QED BY <1>1, <2>1, <2>2, <2>3, <2>4, NodesInOrder
<1> QED BY <1>3, <1>4, <1>5, <1>6, <1>7, <1>8 DEF BlockedReasons

\* What the control holds against a case is a risk whose path begins with the
\* analyst who found it, as long as the analyst got through.
THEOREM ReasonsAreTraceable == Spec => []ReasonsTraceable
BY RunCorrect, InvReasonsTraceable, PTL

----------------------------------------------------------------------------
\* The run as one of the pipeline

\* Whose turn it is may run, as the pipeline sees it, and nobody behind has.
LEMMA TurnOpen ==
    ASSUME NEW n, Turn(n)
    PROVE  n \in Case!Steps /\ Case!Open(n)
<1>1. PICK i \in 1 .. 14 : NodeOrder[i] = n /\ DOMAIN node = {NodeOrder[j] : j \in 1 .. i - 1}
  BY NodesInOrder DEF Turn
<1>2. n \in Case!Steps
  BY <1>1, NodesInOrder DEF Case!Steps, Case!Agents
<1>3. \A m \in Case!Before(n) : \E j \in 1 .. i - 1 : NodeOrder[j] = m
  BY <1>1, NodesInOrder DEF Case!Before, Case!Branches
<1>4. \A j \in 1 .. i - 1 : n \notin Case!Before(NodeOrder[j])
  BY <1>1, NodesInOrder DEF Case!Before, Case!Branches
<1> QED BY <1>1, <1>2, <1>3, <1>4 DEF Case!Open

\* The debates as they stand when it is somebody's turn.
LEMMA TurnToSpeak ==
    /\ Turn("A6") => CreditDebate = <<>>
    /\ Turn("A7") => CreditDebate = <<"A6">>
    /\ Turn("A10") => RiskDebate = <<>>
    /\ Turn("A11") => RiskDebate = <<"A10">>
    /\ Turn("A12") => RiskDebate = <<"A10", "A11">>
<1>1. ASSUME NEW n, Turn(n)
      PROVE  \A i \in 1 .. 14 : n = NodeOrder[i] =>
                 \A j \in 1 .. 14 : Has(NodeOrder[j]) <=> j < i
  <2>1. PICK k \in 1 .. 14 : NodeOrder[k] = n /\ DOMAIN node = {NodeOrder[j] : j \in 1 .. k - 1}
    BY <1>1, NodesInOrder DEF Turn
  <2>2. \A i, j \in 1 .. 14 : NodeOrder[i] = NodeOrder[j] => i = j
    BY NodesInOrder
  <2> QED BY <2>1, <2>2 DEF Has
<1>2. Turn("A6") => ~Has("A6") /\ ~Has("A7")
  BY <1>1, NodesInOrder
<1>3. Turn("A7") => Has("A6") /\ ~Has("A7")
  BY <1>1, NodesInOrder
<1>4. Turn("A10") => ~Has("A10") /\ ~Has("A11") /\ ~Has("A12")
  BY <1>1, NodesInOrder
<1>5. Turn("A11") => Has("A10") /\ ~Has("A11") /\ ~Has("A12")
  BY <1>1, NodesInOrder
<1>6. Turn("A12") => Has("A10") /\ Has("A11") /\ ~Has("A12")
  BY <1>1, NodesInOrder
<1> QED BY <1>2, <1>3, <1>4, <1>5, <1>6 DEF CreditDebate, RiskDebate

\* Who writes a field of the record.
Writer(f) ==
    CASE f \in {"case_file", "data_quality"} -> "A1"
      [] f = "cashflow" -> "A2"
      [] f = "transaction_integrity" -> "A3"
      [] f = "financial_capacity" -> "A4"
      [] f = "policy" -> "A5"
      [] f = "credit_assessment" -> "A8"
      [] f = "deal_proposal" -> "A9"
      [] f = "coapproval_opinion" -> "A13"
      [] f = "control" -> "CONTROL"

\* A step changes no field but those that n writes.
LEMMA OtherFields ==
    ASSUME NEW n, Turn(n), NEW out, Leaves(n, out), NEW f \in CaseFields, Writer(f) # n
    PROVE  Field(f)' = Field(f)
<1> DEFINE w == Writer(f)
<1>0. \A m : m # n => /\ m \in DOMAIN node' <=> m \in DOMAIN node
                      /\ m \in DOMAIN node => node'[m] = node[m]
  BY Adds
<1>1. /\ w \in DOMAIN node' <=> w \in DOMAIN node
      /\ w \in DOMAIN node => node'[w] = node[w]
  BY <1>0, Zenon
<1> HIDE DEF w
<1> USE <1>1 DEF Field, Verdict, Has, Completed, Over
<1>2. CASE f \in {"case_file", "data_quality"}
  <2>1. w = "A1"
    BY <1>2 DEF Writer, w
  <2> QED BY <1>2, <2>1
<1>3. CASE f = "cashflow"
  <2>1. w = "A2"
    BY <1>3 DEF Writer, w
  <2> QED BY <1>3, <2>1
<1>4. CASE f = "transaction_integrity"
  <2>1. w = "A3"
    BY <1>4 DEF Writer, w
  <2> QED BY <1>4, <2>1
<1>5. CASE f = "financial_capacity"
  <2>1. w = "A4"
    BY <1>5 DEF Writer, w
  <2> QED BY <1>5, <2>1
<1>6. CASE f = "policy"
  <2>1. w = "A5"
    BY <1>6 DEF Writer, w
  <2> QED BY <1>6, <2>1
<1>7. CASE f = "credit_assessment"
  <2>1. w = "A8"
    BY <1>7 DEF Writer, w
  <2> QED BY <1>7, <2>1
<1>8. CASE f = "deal_proposal"
  <2>1. w = "A9"
    BY <1>8 DEF Writer, w
  <2> QED BY <1>8, <2>1
<1>9. CASE f = "coapproval_opinion"
  <2>1. w = "A13"
    BY <1>9 DEF Writer, w
  <2> QED BY <1>9, <2>1
<1>10. CASE f = "control"
  <2>1. w = "CONTROL"
    BY <1>10 DEF Writer, w
  <2> QED BY <1>10, <2>1
<1> QED BY <1>2, <1>3, <1>4, <1>5, <1>6, <1>7, <1>8, <1>9, <1>10 DEF CaseFields

LEMMA FieldsAre == Case!Fields = CaseFields
BY DEF Case!Fields, Case!Reports, CaseFields

LEMMA WriteOf ==
    ASSUME NEW S, NEW v
    PROVE  Case!Write(AsRecord, S, v) =
               [field |-> [f \in CaseFields |-> IF f \in S THEN v ELSE Field(f)],
                credit_debate |-> CreditDebate, risk_debate |-> RiskDebate]
<1>1. AsRecord.field = [f \in CaseFields |-> Field(f)]
  BY DEF AsRecord
<1>2. Case!Write(AsRecord, S, v) =
          [AsRecord EXCEPT !.field = [f \in CaseFields |-> IF f \in S THEN v ELSE AsRecord.field[f]]]
  BY FieldsAre DEF Case!Write
<1>3. [f \in CaseFields |-> IF f \in S THEN v ELSE AsRecord.field[f]]
          = [f \in CaseFields |-> IF f \in S THEN v ELSE Field(f)]
  BY <1>1
<1> QED BY <1>2, <1>3 DEF AsRecord

LEMMA WriteOfWrite ==
    ASSUME NEW S, NEW v, NEW T, NEW w
    PROVE  Case!Write(Case!Write(AsRecord, S, v), T, w) =
               [field |-> [f \in CaseFields |->
                              IF f \in T THEN w ELSE IF f \in S THEN v ELSE Field(f)],
                credit_debate |-> CreditDebate, risk_debate |-> RiskDebate]
<1> DEFINE written == [f \in CaseFields |-> IF f \in S THEN v ELSE Field(f)]
<1> DEFINE r == [field |-> written, credit_debate |-> CreditDebate, risk_debate |-> RiskDebate]
<1>1. Case!Write(AsRecord, S, v) = r
  BY WriteOf
<1>2. Case!Write(r, T, w) =
          [r EXCEPT !.field = [f \in CaseFields |-> IF f \in T THEN w ELSE r.field[f]]]
  BY FieldsAre DEF Case!Write
<1>3. [f \in CaseFields |-> IF f \in T THEN w ELSE r.field[f]]
          = [f \in CaseFields |-> IF f \in T THEN w ELSE IF f \in S THEN v ELSE Field(f)]
  OBVIOUS
<1> QED BY <1>1, <1>2, <1>3

\* A step of nobody who debates writes its fields.
LEMMA Written ==
    ASSUME NEW n, n \notin {"A6", "A7", "A10", "A11", "A12"}, Turn(n), NEW out, Leaves(n, out),
           NEW S, NEW v,
           \A f \in CaseFields : Writer(f) = n =>
               Field(f)' = (IF f \in S THEN v ELSE Field(f)),
           \A f \in S : f \in CaseFields => Writer(f) = n
    PROVE  AsRecord' = Case!Write(AsRecord, S, v)
<1>1. \A f \in CaseFields : Field(f)' = IF f \in S THEN v ELSE Field(f)
  BY OtherFields
<1>2. CreditDebate' = CreditDebate /\ RiskDebate' = RiskDebate
  BY Adds DEF CreditDebate, RiskDebate, Has
<1> DEFINE after(f) == Field(f)'
<1>3. [f \in CaseFields |-> after(f)] = [f \in CaseFields |-> IF f \in S THEN v ELSE Field(f)]
  BY <1>1
<1>4. AsRecord' = [field |-> [f \in CaseFields |-> after(f)],
                   credit_debate |-> CreditDebate, risk_debate |-> RiskDebate]
  BY <1>2 DEF AsRecord
<1> QED BY <1>3, <1>4, WriteOf

LEMMA WrittenTwice ==
    ASSUME NEW n, n \notin {"A6", "A7", "A10", "A11", "A12"}, Turn(n), NEW out, Leaves(n, out),
           NEW S, NEW v, NEW T, NEW w,
           \A f \in CaseFields : Writer(f) = n =>
               Field(f)' = (IF f \in T THEN w ELSE IF f \in S THEN v ELSE Field(f)),
           \A f \in S \cup T : f \in CaseFields => Writer(f) = n
    PROVE  AsRecord' = Case!Write(Case!Write(AsRecord, S, v), T, w)
<1> DEFINE value(f) == IF f \in T THEN w ELSE IF f \in S THEN v ELSE Field(f)
<1>1. \A f \in CaseFields : Field(f)' = value(f)
  BY OtherFields
<1>2. CreditDebate' = CreditDebate /\ RiskDebate' = RiskDebate
  BY Adds DEF CreditDebate, RiskDebate, Has
<1> DEFINE after(f) == Field(f)'
<1>3. [f \in CaseFields |-> after(f)] = [f \in CaseFields |-> value(f)]
  BY <1>1
<1>4. AsRecord' = [field |-> [f \in CaseFields |-> after(f)],
                   credit_debate |-> CreditDebate, risk_debate |-> RiskDebate]
  BY <1>2 DEF AsRecord
<1> QED BY <1>3, <1>4, WriteOfWrite

LEMMA OwnedFields ==
    /\ Case!Owned("A1") = {"case_file", "data_quality"}
    /\ Case!Owned("A2") = {"cashflow"}
    /\ Case!Owned("A3") = {"transaction_integrity"}
    /\ Case!Owned("A4") = {"financial_capacity"}
    /\ Case!Owned("A5") = {"policy"}
    /\ Case!Owned("A8") = {"credit_assessment"}
    /\ Case!Owned("A9") = {"deal_proposal"}
    /\ Case!Owned("A13") = {"coapproval_opinion"}
    /\ Case!Owned("CONTROL") = {"control"}
BY DEF Case!Owned

LEMMA Writers ==
    \A f \in CaseFields :
        /\ Writer(f) \in {"A1", "A2", "A3", "A4", "A5", "A8", "A9", "A13", "CONTROL"}
        /\ f \in Case!Owned(Writer(f))
        /\ \A n \in {"A1", "A2", "A3", "A4", "A5", "A8", "A9", "A13", "CONTROL"} :
               f \in Case!Owned(n) => Writer(f) = n
<1>1. /\ Writer("case_file") = "A1" /\ Writer("data_quality") = "A1"
      /\ Writer("cashflow") = "A2" /\ Writer("transaction_integrity") = "A3"
      /\ Writer("financial_capacity") = "A4" /\ Writer("policy") = "A5"
      /\ Writer("credit_assessment") = "A8" /\ Writer("deal_proposal") = "A9"
      /\ Writer("coapproval_opinion") = "A13" /\ Writer("control") = "CONTROL"
  BY DEF Writer
<1> QED BY <1>1, OwnedFields DEF CaseFields

\* The field of an agent that has one, after its step.
LEMMA OneField ==
    ASSUME NEW n, n \in {"A2", "A3", "A4", "A5", "A8", "A9", "A13", "CONTROL"}, Turn(n),
           NEW out, Leaves(n, out), NEW F, Case!Owned(n) = {F}, NEW v, Field(F)' = v
    PROVE  AsRecord' = Case!Write(AsRecord, {F}, v)
<1>1. \A f \in CaseFields : Writer(f) = n => f = F
  BY Writers
<1>2. \A f \in CaseFields : f = F => Writer(f) = n
  BY Writers
<1> DEFINE after(f) == Field(f)'
<1>3. \A f : f = F => after(f) = after(F)
  OBVIOUS
<1>4. \A f \in CaseFields : Writer(f) = n => Field(f)' = (IF f \in {F} THEN v ELSE Field(f))
  BY <1>1, <1>3
<1> QED BY <1>2, <1>4, Written, Zenon

LEMMA OneFieldCompleted ==
    ASSUME NEW n, n \in {"A2", "A3", "A4", "A5", "A8", "A9", "A13"}, Turn(n),
           NEW out, Leaves(n, out), NEW F, F # "case_file", Case!Owned(n) = {F},
           NEW v, Field(F)' = v
    PROVE  AsRecord' = Case!Complete(AsRecord, n, v)
<1>1. \A f \in CaseFields : Writer(f) = n => f = F
  BY Writers
<1>2. \A f \in CaseFields : f = F => Writer(f) = n
  BY Writers
<1> DEFINE after(f) == Field(f)'
<1>3. \A f : f = F => after(f) = after(F)
  OBVIOUS
<1>4. \A f \in CaseFields : Writer(f) = n =>
          Field(f)' = (IF f \in {} THEN "clear" ELSE IF f \in {F} THEN v ELSE Field(f))
  BY <1>1, <1>3
<1>5. AsRecord' = Case!Write(Case!Write(AsRecord, {F}, v), {}, "clear")
  BY <1>2, <1>4, WrittenTwice
<1>6. Case!Owned(n) = {F} /\ Case!Owned(n) \cap {"case_file"} = {}
  OBVIOUS
<1>7. n \notin Case!Debaters
  BY DEF Case!Debaters
<1> QED BY <1>5, <1>6, <1>7 DEF Case!Complete

LEMMA Appends ==
    \A x, y, z : /\ Append(<<>>, x) = <<x>>
                 /\ Append(<<x>>, y) = <<x, y>>
                 /\ Append(<<x, y>>, z) = <<x, y, z>>
<1> SUFFICES ASSUME NEW x, NEW y, NEW z
             PROVE  /\ Append(<<>>, x) = <<x>>
                    /\ Append(<<x>>, y) = <<x, y>>
                    /\ Append(<<x, y>>, z) = <<x, y, z>>
  OBVIOUS
<1> DEFINE S == {x, y, z}
<1>1. Append(<<>>, x) = <<x>>
  OBVIOUS
<1>2. Append(<<x>>, y) = <<x, y>>
  <2>1. <<x>> \in Seq(S) /\ Append(<<x>>, y) \in Seq(S) /\ <<x, y>> \in Seq(S)
    OBVIOUS
  <2>2. Len(Append(<<x>>, y)) = 2 /\ Append(<<x>>, y)[1] = x /\ Append(<<x>>, y)[2] = y
    BY <2>1
  <2>3. Len(<<x, y>>) = 2 /\ \A i \in 1 .. 2 : Append(<<x>>, y)[i] = <<x, y>>[i]
    BY <2>2
  <2> QED BY <2>1, <2>2, <2>3, SeqEqual
<1>3. Append(<<x, y>>, z) = <<x, y, z>>
  <2>1. <<x, y>> \in Seq(S) /\ Append(<<x, y>>, z) \in Seq(S) /\ <<x, y, z>> \in Seq(S)
    OBVIOUS
  <2>2. /\ Len(Append(<<x, y>>, z)) = 3
        /\ Append(<<x, y>>, z)[1] = x /\ Append(<<x, y>>, z)[2] = y /\ Append(<<x, y>>, z)[3] = z
    BY <2>1
  <2>3. Len(<<x, y, z>>) = 3 /\ \A i \in 1 .. 3 : Append(<<x, y>>, z)[i] = <<x, y, z>>[i]
    BY <2>2
  <2> QED BY <2>1, <2>2, <2>3, SeqEqual
<1> QED BY <1>1, <1>2, <1>3

\* The two debates, one turn longer.
LEMMA DebatesAppend ==
    /\ Append(<<>>, "A6") = <<"A6">> /\ Append(<<"A6">>, "A7") = <<"A6", "A7">>
    /\ Append(<<>>, "A10") = <<"A10">> /\ Append(<<"A10">>, "A11") = <<"A10", "A11">>
    /\ Append(<<"A10", "A11">>, "A12") = <<"A10", "A11", "A12">>
BY Appends, Zenon

\* The turn of a debater, completed or not.
LEMMA Spoken ==
    ASSUME NEW n, n \in {"A6", "A7", "A10", "A11", "A12"}, Turn(n), NEW out, Leaves(n, out)
    PROVE  AsRecord' = Case!Speak(AsRecord, n)
<1> DEFINE after(f) == Field(f)'
<1>1. \A f \in CaseFields : after(f) = Field(f)
  BY Writers, OtherFields
<1>2. [f \in CaseFields |-> after(f)] = [f \in CaseFields |-> Field(f)]
  BY <1>1
<1> HIDE DEF after
<1>3. AsRecord' = [field |-> [f \in CaseFields |-> Field(f)],
                   credit_debate |-> CreditDebate', risk_debate |-> RiskDebate']
  BY <1>2 DEF AsRecord, after
<1>4. n \in DOMAIN node' /\ \A m : m # n => (m \in DOMAIN node' <=> m \in DOMAIN node)
  BY Adds
<1> USE DEF Has
<1>5. CASE n = "A6"
  <2>1. CreditDebate' = Append(CreditDebate, "A6") /\ RiskDebate' = RiskDebate
    BY <1>4, <1>5, TurnToSpeak, DebatesAppend DEF CreditDebate, RiskDebate
  <2> QED BY <1>3, <1>5, <2>1 DEF Case!Speak, Case!CreditDebaters, AsRecord
<1>6. CASE n = "A7"
  <2>1. CreditDebate' = Append(CreditDebate, "A7") /\ RiskDebate' = RiskDebate
    BY <1>4, <1>6, TurnToSpeak, DebatesAppend DEF CreditDebate, RiskDebate
  <2> QED BY <1>3, <1>6, <2>1 DEF Case!Speak, Case!CreditDebaters, AsRecord
<1>7. CASE n = "A10"
  <2>1. RiskDebate' = Append(RiskDebate, "A10") /\ CreditDebate' = CreditDebate
    BY <1>4, <1>7, TurnToSpeak, DebatesAppend DEF CreditDebate, RiskDebate
  <2> QED BY <1>3, <1>7, <2>1 DEF Case!Speak, Case!CreditDebaters, AsRecord
<1>8. CASE n = "A11"
  <2>1. RiskDebate' = Append(RiskDebate, "A11") /\ CreditDebate' = CreditDebate
    BY <1>4, <1>8, TurnToSpeak, DebatesAppend DEF CreditDebate, RiskDebate
  <2> QED BY <1>3, <1>8, <2>1 DEF Case!Speak, Case!CreditDebaters, AsRecord
<1>9. CASE n = "A12"
  <2>1. RiskDebate' = Append(RiskDebate, "A12") /\ CreditDebate' = CreditDebate
    BY <1>4, <1>9, TurnToSpeak, DebatesAppend DEF CreditDebate, RiskDebate
  <2> QED BY <1>3, <1>9, <2>1 DEF Case!Speak, Case!CreditDebaters, AsRecord
<1> QED BY <1>5, <1>6, <1>7, <1>8, <1>9

\* What a substitute leaves in the record.
LEMMA Degraded ==
    ASSUME NEW n, n \in Agents, Turn(n), Leaves(n, Substitute(n))
    PROVE  AsRecord' = Case!Degrade(AsRecord, n)
<1>1. n \in DOMAIN node' /\ node'[n] = Substitute(n) /\ ~Has(n)
  BY Adds DEF Has
<1> USE DEF Verdict, Has, Completed
<1>2. CASE n \in {"A6", "A7", "A10", "A11", "A12"}
  BY <1>2, Spoken DEF Case!Degrade, Case!Debaters
<1>3. CASE n = "A1"
  <2>1. node'["A1"].failed = TRUE /\ node'["A1"].gap = TRUE
    BY <1>1, <1>3, Substitutes
  <2>2. Field("case_file")' = "absent" /\ Field("case_file") = "absent"
    BY <1>1, <1>3, <2>1 DEF Field
  <2>3. Field("data_quality")' = "adverse"
    BY <1>1, <1>3, <2>1 DEF Field
  <2>4. \A f \in CaseFields : Writer(f) = "A1" => f \in {"case_file", "data_quality"}
    BY Writers, OwnedFields
  <2>5. \A f \in CaseFields : Writer(f) = "A1" =>
            Field(f)' = (IF f \in {"data_quality"} THEN "adverse" ELSE Field(f))
    BY <2>2, <2>3, <2>4
  <2>6. Writer("data_quality") = "A1"
    BY DEF Writer
  <2>7. AsRecord' = Case!Write(AsRecord, {"data_quality"}, "adverse")
    BY <1>3, <2>5, <2>6, Written
  <2>8. Case!Owned(n) \ {"case_file"} = {"data_quality"}
    BY <1>3, OwnedFields
  <2> QED BY <1>3, <2>7, <2>8 DEF Case!Degrade, Case!Debaters
<1>4. CASE n = "A2"
  <2>1. node'["A2"].status = "DEGRADED_TIMEOUT"
    BY <1>1, <1>4, Substitutes
  <2>2. Field("cashflow")' = "adverse"
    BY <1>1, <1>4, <2>1 DEF Field
  <2>3. AsRecord' = Case!Write(AsRecord, {"cashflow"}, "adverse")
    BY <1>4, <2>2, OneField, OwnedFields
  <2>4. Case!Owned(n) \ {"case_file"} = {"cashflow"}
    BY <1>4, OwnedFields
  <2> QED BY <1>4, <2>3, <2>4 DEF Case!Degrade, Case!Debaters
<1>5. CASE n = "A3"
  <2>1. node'["A3"].rating = "CRITICAL"
    BY <1>1, <1>5, Substitutes
  <2>2. Field("transaction_integrity")' = "adverse"
    BY <1>1, <1>5, <2>1 DEF Field
  <2>3. AsRecord' = Case!Write(AsRecord, {"transaction_integrity"}, "adverse")
    BY <1>5, <2>2, OneField, OwnedFields
  <2>4. Case!Owned(n) \ {"case_file"} = {"transaction_integrity"}
    BY <1>5, OwnedFields
  <2> QED BY <1>5, <2>3, <2>4 DEF Case!Degrade, Case!Debaters
<1>6. CASE n = "A4"
  <2>1. node'["A4"].viable = FALSE
    BY <1>1, <1>6, Substitutes
  <2>2. Field("financial_capacity")' = "adverse"
    BY <1>1, <1>6, <2>1 DEF Field
  <2>3. AsRecord' = Case!Write(AsRecord, {"financial_capacity"}, "adverse")
    BY <1>6, <2>2, OneField, OwnedFields
  <2>4. Case!Owned(n) \ {"case_file"} = {"financial_capacity"}
    BY <1>6, OwnedFields
  <2> QED BY <1>6, <2>3, <2>4 DEF Case!Degrade, Case!Debaters
<1>7. CASE n = "A5"
  <2>1. node'["A5"].escalation = TRUE
    BY <1>1, <1>7, Substitutes
  <2>2. Field("policy")' = "adverse"
    BY <1>1, <1>7, <2>1 DEF Field
  <2>3. AsRecord' = Case!Write(AsRecord, {"policy"}, "adverse")
    BY <1>7, <2>2, OneField, OwnedFields
  <2>4. Case!Owned(n) \ {"case_file"} = {"policy"}
    BY <1>7, OwnedFields
  <2> QED BY <1>7, <2>3, <2>4 DEF Case!Degrade, Case!Debaters
<1>8. CASE n = "A8"
  <2>1. node'["A8"].failed = TRUE
    BY <1>1, <1>8, Substitutes
  <2>2. Field("credit_assessment")' = "adverse"
    BY <1>1, <1>8, <2>1 DEF Field
  <2>3. AsRecord' = Case!Write(AsRecord, {"credit_assessment"}, "adverse")
    BY <1>8, <2>2, OneField, OwnedFields
  <2>4. Case!Owned(n) \ {"case_file"} = {"credit_assessment"}
    BY <1>8, OwnedFields
  <2> QED BY <1>8, <2>3, <2>4 DEF Case!Degrade, Case!Debaters
<1>9. CASE n = "A9"
  <2>1. node'["A9"].action = "BLOCKED"
    BY <1>1, <1>9, Substitutes
  <2>2. Field("deal_proposal")' = "adverse"
    BY <1>1, <1>9, <2>1 DEF Field
  <2>3. AsRecord' = Case!Write(AsRecord, {"deal_proposal"}, "adverse")
    BY <1>9, <2>2, OneField, OwnedFields
  <2>4. Case!Owned(n) \ {"case_file"} = {"deal_proposal"}
    BY <1>9, OwnedFields
  <2> QED BY <1>9, <2>3, <2>4 DEF Case!Degrade, Case!Debaters
<1>10. CASE n = "A13"
  <2>1. node'["A13"].decision = "REJECT_INSUFFICIENT_EVIDENCE"
    BY <1>1, <1>10, Substitutes
  <2>2. Field("coapproval_opinion")' = "REJECT_INSUFFICIENT_EVIDENCE"
    BY <1>1, <1>10, <2>1 DEF Field
  <2>3. AsRecord' = Case!Write(AsRecord, {"coapproval_opinion"}, "REJECT_INSUFFICIENT_EVIDENCE")
    BY <1>10, <2>2, OneField, OwnedFields
  <2>4. Case!Owned(n) \ {"case_file"} = {"coapproval_opinion"}
    BY <1>10, OwnedFields
  <2> QED BY <1>10, <2>3, <2>4 DEF Case!Degrade, Case!Debaters
<1> QED BY <1>2, <1>3, <1>4, <1>5, <1>6, <1>7, <1>8, <1>9, <1>10, AgentsAre

LEMMA InRecord == \A f \in CaseFields : AsRecord.field[f] = Field(f)
BY DEF AsRecord

\* An agent that gets through has had its context.
LEMMA ContextThere ==
    ASSUME NEW n, Turn(n), NEW ok, NEW error, ~Raises(n, node, ok, error)
    PROVE  ~Case!ContextMissing(AsRecord, n)
<1> USE DEF Verdict, Has, Completed
<1>1. ASSUME n = "A9"
      PROVE  "absent" \notin {AsRecord.field["policy"], AsRecord.field["cashflow"],
                              AsRecord.field["case_file"]}
  <2>1. {"A1", "A2", "A5"} \subseteq DOMAIN node
    BY <1>1, TurnReads DEF Reads
  <2>2. Raises("A9", node, ok, error) = A9Raises(node, ok)
    BY DEF Raises
  <2>3. ~node["A1"].failed
    BY <1>1, <2>2 DEF A9Raises
  <2>4. Field("policy") # "absent"
    BY <2>1 DEF Field
  <2>5. Field("cashflow") # "absent"
    BY <2>1 DEF Field
  <2>6. Field("case_file") # "absent"
    BY <2>1, <2>3 DEF Field
  <2> QED BY <2>4, <2>5, <2>6, InRecord DEF CaseFields
<1>2. ASSUME n = "A11" PROVE AsRecord.field["financial_capacity"] # "absent"
  <2>1. "A4" \in DOMAIN node
    BY <1>2, TurnReads DEF Reads
  <2>2. Field("financial_capacity") # "absent"
    BY <2>1 DEF Field
  <2> QED BY <2>2, InRecord DEF CaseFields
<1>3. ASSUME n = "A12" PROVE AsRecord.field["policy"] # "absent"
  <2>1. "A5" \in DOMAIN node
    BY <1>3, TurnReads DEF Reads
  <2>2. Field("policy") # "absent"
    BY <2>1 DEF Field
  <2> QED BY <2>2, InRecord DEF CaseFields
<1> QED BY <1>1, <1>2, <1>3 DEF Case!ContextMissing

\* What the output of an agent leaves in the record.
LEMMA Done ==
    ASSUME NEW n, n \in Agents, Turn(n), NEW ok, NEW error,
           Leaves(n, Output(n, dossier, node, ok, error))
    PROVE  \E v \in Case!Outputs(n) : AsRecord' = Case!Complete(AsRecord, n, v)
<1> DEFINE out == Output(n, dossier, node, ok, error)
<1>1. n \in DOMAIN node' /\ node'[n] = out
  BY Adds
<1> USE DEF Verdict, Has, Completed
<1>2. n # "A13" => Case!Outputs(n) = {"clear", "adverse"}
  BY DEF Case!Outputs, Case!Verdicts
<1>3. CASE n \in {"A6", "A7", "A10", "A11", "A12"}
  <2>1. AsRecord' = Case!Complete(AsRecord, n, "clear")
    BY <1>3, Spoken DEF Case!Complete, Case!Debaters
  <2> QED BY <1>2, <1>3, <2>1
<1>4. CASE n = "A1"
  <2> DEFINE v == IF node'["A1"].gap THEN "adverse" ELSE "clear"
  <2>1. node'["A1"].failed = FALSE
    <3>1. out = A1(dossier, ok)
      BY <1>4, OutputOf
    <3> QED BY <1>1, <1>4, <3>1 DEF A1
  <2>2. Field("case_file")' = "clear"
    BY <1>1, <1>4, <2>1 DEF Field
  <2>3. Field("data_quality")' = v
    BY <1>1, <1>4 DEF Field
  <2> HIDE DEF v
  <2>4. \A f \in CaseFields : Writer(f) = "A1" => f \in {"case_file", "data_quality"}
    BY Writers, OwnedFields
  <2>5. \A f \in CaseFields : Writer(f) = "A1" =>
            Field(f)' = (IF f \in {"case_file"} THEN "clear"
                         ELSE IF f \in {"case_file", "data_quality"} THEN v ELSE Field(f))
    BY <2>2, <2>3, <2>4
  <2>6. Writer("case_file") = "A1" /\ Writer("data_quality") = "A1"
    BY DEF Writer
  <2>7. AsRecord' = Case!Write(Case!Write(AsRecord, {"case_file", "data_quality"}, v),
                               {"case_file"}, "clear")
    BY <1>4, <2>5, <2>6, WrittenTwice
  <2>8. Case!Owned(n) = {"case_file", "data_quality"}
        /\ Case!Owned(n) \cap {"case_file"} = {"case_file"}
    BY <1>4, OwnedFields
  <2>9. AsRecord' = Case!Complete(AsRecord, n, v)
    BY <1>4, <2>7, <2>8 DEF Case!Complete, Case!Debaters
  <2>10. v \in {"clear", "adverse"}
    BY DEF v
  <2> QED BY <1>2, <1>4, <2>9, <2>10
<1>5. CASE n = "A2"
  <2> DEFINE v == IF node'["A2"].status \in {"PARTIAL", "DEGRADED_TIMEOUT"} THEN "adverse" ELSE "clear"
  <2>1. Field("cashflow")' = v
    BY <1>1, <1>5 DEF Field
  <2>2. v \in {"clear", "adverse"}
    OBVIOUS
  <2> HIDE DEF v
  <2>3. AsRecord' = Case!Complete(AsRecord, n, v)
    BY <1>5, <2>1, OneFieldCompleted, OwnedFields
  <2> QED BY <1>2, <1>5, <2>2, <2>3
<1>6. CASE n = "A3"
  <2> DEFINE v == IF node'["A3"].rating = "CRITICAL" THEN "adverse" ELSE "clear"
  <2>1. Field("transaction_integrity")' = v
    BY <1>1, <1>6 DEF Field
  <2>2. v \in {"clear", "adverse"}
    OBVIOUS
  <2> HIDE DEF v
  <2>3. AsRecord' = Case!Complete(AsRecord, n, v)
    BY <1>6, <2>1, OneFieldCompleted, OwnedFields
  <2> QED BY <1>2, <1>6, <2>2, <2>3
<1>7. CASE n = "A4"
  <2> DEFINE v == IF ~node'["A4"].viable THEN "adverse" ELSE "clear"
  <2>1. Field("financial_capacity")' = v
    BY <1>1, <1>7 DEF Field
  <2>2. v \in {"clear", "adverse"}
    OBVIOUS
  <2> HIDE DEF v
  <2>3. AsRecord' = Case!Complete(AsRecord, n, v)
    BY <1>7, <2>1, OneFieldCompleted, OwnedFields
  <2> QED BY <1>2, <1>7, <2>2, <2>3
<1>8. CASE n = "A5"
  <2> DEFINE v == IF node'["A5"].escalation THEN "adverse" ELSE "clear"
  <2>1. Field("policy")' = v
    BY <1>1, <1>8 DEF Field
  <2>2. v \in {"clear", "adverse"}
    OBVIOUS
  <2> HIDE DEF v
  <2>3. AsRecord' = Case!Complete(AsRecord, n, v)
    BY <1>8, <2>1, OneFieldCompleted, OwnedFields
  <2> QED BY <1>2, <1>8, <2>2, <2>3
<1>9. CASE n = "A8"
  <2> DEFINE v == IF node'["A8"].failed THEN "adverse" ELSE "clear"
  <2>1. Field("credit_assessment")' = v
    BY <1>1, <1>9 DEF Field
  <2>2. v \in {"clear", "adverse"}
    OBVIOUS
  <2> HIDE DEF v
  <2>3. AsRecord' = Case!Complete(AsRecord, n, v)
    BY <1>9, <2>1, OneFieldCompleted, OwnedFields
  <2> QED BY <1>2, <1>9, <2>2, <2>3
<1>10. CASE n = "A9"
  <2> DEFINE v == IF node'["A9"].action # "PROPOSE" THEN "adverse" ELSE "clear"
  <2>1. Field("deal_proposal")' = v
    BY <1>1, <1>10 DEF Field
  <2>2. v \in {"clear", "adverse"}
    OBVIOUS
  <2> HIDE DEF v
  <2>3. AsRecord' = Case!Complete(AsRecord, n, v)
    BY <1>10, <2>1, OneFieldCompleted, OwnedFields
  <2> QED BY <1>2, <1>10, <2>2, <2>3
<1>11. CASE n = "A13"
  <2> DEFINE v == Decision(node)
  <2>1. node'["A13"].decision = v
    <3>1. out = A13(node)
      BY <1>11, OutputOf
    <3> QED BY <1>1, <1>11, <3>1 DEF A13
  <2>2. Field("coapproval_opinion")' = v
    BY <1>1, <1>11, <2>1 DEF Field
  <2>3. v \in Case!Outputs("A13")
    BY DEF Decision, Case!Outputs, Case!Decisions
  <2> HIDE DEF v
  <2>4. AsRecord' = Case!Complete(AsRecord, n, v)
    BY <1>11, <2>2, OneFieldCompleted, OwnedFields
  <2> QED BY <1>11, <2>3, <2>4
<1> QED BY <1>3, <1>4, <1>5, <1>6, <1>7, <1>8, <1>9, <1>10, <1>11, AgentsAre

\* The control finds in the nodes what the one of the pipeline finds in the
\* record.
LEMMA Judged ==
    ASSUME Turn("CONTROL"), Leaves("CONTROL", Control(node))
    PROVE  AsRecord' = Case!Control(AsRecord)
<1>1. {"A1", "A2", "A3", "A4", "A5", "A9", "A13"} \subseteq DOMAIN node
  BY TurnReads DEF Reads
<1> USE DEF Verdict, Has
<1>2. (Field("data_quality") = "adverse") <=> node["A1"].gap
  BY <1>1 DEF Field
<1>3. (Field("cashflow") = "adverse") <=> node["A2"].status \in {"PARTIAL", "DEGRADED_TIMEOUT"}
  BY <1>1 DEF Field
<1>4. (Field("transaction_integrity") = "adverse") <=> node["A3"].rating = "CRITICAL"
  BY <1>1 DEF Field
<1>5. (Field("financial_capacity") # "clear") <=> ~node["A4"].viable
  BY <1>1 DEF Field
<1>6. (Field("policy") = "adverse") <=> node["A5"].escalation
  BY <1>1 DEF Field
<1>7. (Field("deal_proposal") # "clear") <=> node["A9"].action # "PROPOSE"
  BY <1>1 DEF Field
<1>8. Field("coapproval_opinion") = node["A13"].decision
  BY <1>1 DEF Field
<1>9. /\ Case!Objection(AsRecord, "CRITICAL_DATA_GAP") <=> node["A1"].gap
      /\ Case!Objection(AsRecord, "CASHFLOW_TOOL_OR_COVERAGE_GAP")
             <=> node["A2"].status \in {"PARTIAL", "DEGRADED_TIMEOUT"}
      /\ Case!Objection(AsRecord, "PRIMARY_REPAYMENT_NOT_VIABLE") <=> ~node["A4"].viable
      /\ Case!Objection(AsRecord, "MATERIAL_TRANSACTION_INTEGRITY_RISK")
             <=> node["A3"].rating = "CRITICAL"
      /\ Case!Objection(AsRecord, "MANDATORY_POLICY_ESCALATION") <=> node["A5"].escalation
  BY <1>2, <1>3, <1>4, <1>5, <1>6, InRecord DEF Case!Objection, CaseFields
<1>10. (\E o \in Case!Objections : Case!Objection(AsRecord, o)) <=> BlockedReasons(node) # {}
  BY <1>9 DEF Case!Objections, BlockedReasons
<1>11. Case!Invalid(AsRecord) <=> BlockedReasons(node) # {} \/ node["A9"].action # "PROPOSE"
  BY <1>7, <1>10, InRecord DEF Case!Invalid, CaseFields
<1>12. AsRecord.field["coapproval_opinion"] = node["A13"].decision
  BY <1>8, InRecord DEF CaseFields
<1>13. Case!ControlStatus(AsRecord) = Control(node).status
  BY <1>11, <1>12 DEF Case!ControlStatus, Control
<1> DEFINE status == Control(node).status
<1>14. Field("control")' = status
  BY Adds DEF Field, Over
<1> HIDE DEF status
<1>15. AsRecord' = Case!Write(AsRecord, {"control"}, status)
  BY <1>14, OneField, OwnedFields
<1> QED BY <1>13, <1>15, OwnedFields DEF Case!Control, status

----------------------------------------------------------------------------

\* To start, nobody has left anything.
LEMMA InitFresh == Init => Case!Init
<1> SUFFICES ASSUME Init PROVE Case!Init
  OBVIOUS
<1>1. DOMAIN node = {}
  BY DEF Init
<1>2. \A f \in CaseFields : Field(f) = "absent"
  BY <1>1 DEF CaseFields, Field, Verdict, Has, Completed, Over
<1>3. CreditDebate = <<>> /\ RiskDebate = <<>>
  BY <1>1 DEF CreditDebate, RiskDebate, Has
<1>4. AsRecord = Case!Fresh
  BY <1>2, <1>3, FieldsAre DEF AsRecord, Case!Fresh
<1> QED BY <1>1, <1>4 DEF Case!Init

\* Each step is that of one node of the pipeline, which leaves its result.
LEMMA StepPublishes == [Next]_vars => [Case!Next]_(Case!pipelineVars)
<1> SUFFICES ASSUME [Next]_vars PROVE [Case!Next]_(Case!pipelineVars)
  OBVIOUS
<1>1. ASSUME NEW n, Turn(n), NEW out, Leaves(n, out), AsRecord' \in Case!Results(AsRecord, n)
      PROVE  Case!Next
  <2>1. n \in Case!Steps /\ Case!Open(n)
    BY <1>1, TurnOpen
  <2>2. DOMAIN node' = DOMAIN node \cup {n}
    BY <1>1, Adds
  <2>3. Case!Publish(n)
    BY <1>1, <2>1, <2>2 DEF Case!Publish
  <2> QED BY <2>1, <2>3 DEF Case!Next
<1>2. \A n \in Agents : n # "CONTROL"
  BY AgentsAre
<1>3. ASSUME NEW n \in Agents, Complete(n) PROVE Case!Next
  <2>1. PICK a \in Possible(n) :
          /\ ~Raises(n, node, a.ok, a.error)
          /\ Leaves(n, Output(n, dossier, node, a.ok, a.error))
    BY <1>3 DEF Complete
  <2>2. Turn(n)
    BY <1>3 DEF Complete
  <2>3. PICK v \in Case!Outputs(n) : AsRecord' = Case!Complete(AsRecord, n, v)
    BY <2>1, <2>2, Done
  <2>4. ~Case!ContextMissing(AsRecord, n)
    BY <2>1, <2>2, ContextThere
  <2>5. AsRecord' \in Case!Results(AsRecord, n)
    BY <1>2, <2>3, <2>4 DEF Case!Results, Case!AgentResults
  <2> QED BY <1>1, <2>1, <2>2, <2>5
<1>4. ASSUME NEW n \in Agents, Degrade(n) PROVE Case!Next
  <2>1. Turn(n) /\ Leaves(n, Substitute(n))
    BY <1>4 DEF Degrade
  <2>2. AsRecord' = Case!Degrade(AsRecord, n)
    BY <2>1, Degraded
  <2>3. AsRecord' \in Case!Results(AsRecord, n)
    BY <1>2, <2>2 DEF Case!Results, Case!AgentResults
  <2> QED BY <1>1, <2>1, <2>3
<1>5. ASSUME Judge PROVE Case!Next
  <2>1. Turn("CONTROL") /\ Leaves("CONTROL", Control(node))
    BY <1>5 DEF Judge
  <2>2. AsRecord' \in Case!Results(AsRecord, "CONTROL")
    BY <2>1, Judged DEF Case!Results
  <2> QED BY <1>1, <2>1, <2>2
<1>6. ASSUME UNCHANGED vars PROVE UNCHANGED Case!pipelineVars
  <2>1. node' = node
    BY <1>6 DEF vars
  <2> DEFINE after(f) == Field(f)'
  <2>2. \A f : after(f) = Field(f)
    BY <2>1 DEF Field, Verdict, Has, Completed, Over
  <2>3. AsRecord' = [field |-> [f \in CaseFields |-> after(f)],
                     credit_debate |-> CreditDebate', risk_debate |-> RiskDebate']
    BY DEF AsRecord
  <2>4. CreditDebate' = CreditDebate /\ RiskDebate' = RiskDebate
    BY <2>1 DEF CreditDebate, RiskDebate, Has
  <2>5. [f \in CaseFields |-> after(f)] = [f \in CaseFields |-> Field(f)]
    BY <2>2
  <2>6. AsRecord' = AsRecord
    BY <2>3, <2>4, <2>5 DEF AsRecord
  <2> QED BY <2>1, <2>6 DEF Case!pipelineVars
<1> QED BY <1>3, <1>4, <1>5, <1>6 DEF Next

\* The in-memory engine runs a case as the pipeline promises: one node after
\* the other in the order of the barriers, each adding its own result to what
\* was there, and the control judging the whole.
THEOREM ImplementsPipeline == Spec => KeepsPipeline
<1>1. Init => Case!Init
  BY InitFresh
<1>2. [Next]_vars => [Case!Next]_(Case!pipelineVars)
  BY StepPublishes
<1> QED BY <1>1, <1>2, PTL DEF Spec, KeepsPipeline, Case!Spec
=============================================================================
