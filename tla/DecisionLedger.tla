--------------------------- MODULE DecisionLedger ---------------------------
(***************************************************************************)
(* What the decision service promises, whatever its concurrency: the       *)
(* docstring of DecisionService fixes the order audit, then mandatory      *)
(* notifications, then the decision, the docstring of DecisionStore that   *)
(* rows are only ever inserted and that a case revision has one terminal   *)
(* decision.                                                               *)
(***************************************************************************)
CONSTANTS Ids,         \* decisions
          Names,       \* the notifications there are
          Revisions    \* revisions of the case

VARIABLES audited,     \* decisions whose audit event is written
          delivered,   \* <<decision, notification>> sent
          ledger       \* the recorded decisions

ledgerVars == <<audited, delivered, ledger>>

Entry == [id: Ids, revision: Revisions, terminal: BOOLEAN, owed: SUBSET Names]

Init == audited = {} /\ delivered = {} /\ ledger = {}

Audit(d) ==
    /\ d \notin audited
    /\ audited' = audited \cup {d}
    /\ UNCHANGED <<delivered, ledger>>

\* Only an audited decision is announced to anybody.
Deliver(d, n) ==
    /\ d \in audited
    /\ delivered' = delivered \cup {<<d, n>>}
    /\ UNCHANGED <<audited, ledger>>

\* Nothing is recorded before its audit event and all the notifications it
\* owes, nothing is recorded twice, and a revision is decided once.
Commit(e) ==
    /\ e.id \in audited
    /\ \A n \in e.owed : <<e.id, n>> \in delivered
    /\ \A f \in ledger : f.id # e.id
    /\ e.terminal => \A f \in ledger : f.terminal => f.revision # e.revision
    /\ ledger' = ledger \cup {e}
    /\ UNCHANGED <<audited, delivered>>

Next ==
    \/ \E d \in Ids : Audit(d)
    \/ \E d \in Ids, n \in Names : Deliver(d, n)
    \/ \E e \in Entry : Commit(e)

Spec == Init /\ [][Next]_ledgerVars
============================================================================
