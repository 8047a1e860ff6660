--------------------------- MODULE MCScenarioRun ---------------------------
(***************************************************************************)
(* Runs of the catalog, of what the generator makes of each archetype, and *)
(* of dossiers around each threshold.                                      *)
(***************************************************************************)
EXTENDS ScenarioRun

Amounts == {900, 4500}

Healthy == {s \in Generated("HEALTHY_PRIME", 900) : s.dscr = 150 /\ s.match = 85}

Custom == {[s EXCEPT !.expected = ""] : s \in UNION {CustomAround(h) : h \in Healthy}}

AllDossiers == Catalog \cup Custom \cup UNION {Generated(a, n) : a \in Archetypes, n \in Amounts}

\* The catalog and the generator expect what their figures call for.
ASSUME DossiersAreHonest == \A s \in AllDossiers : Honest(s)
=============================================================================
