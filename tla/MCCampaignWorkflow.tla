------------------------- MODULE MCCampaignWorkflow -------------------------
(***************************************************************************)
(* Two parts that share nothing, for TLC: the campaigns on their way to    *)
(* publication, and a run of the ephemeral environment with its ledger.  A *)
(* behaviour is one of the part picked at its start.                       *)
(***************************************************************************)
EXTENDS CampaignWorkflow, TLC

CONSTANTS
  Starts, Lives, Paces, Gates, Limit, MaxLife, Cutoff, NoLedger

VARIABLES
  part,
  started, expires, clock, status, journal, gates, left, retained, filed

Run == INSTANCE RunLedger

ASSUME RunIsAssumed == Run!RunAssumption

runRows == <<started, expires, clock, status, journal, gates, left, retained, filed>>

MCInit ==
  /\ part \in {"campaign", "run"}
  /\ Init /\ Run!Init
  /\ part = "campaign" => expires = Cutoff

MCNext ==
  /\ UNCHANGED part
  /\ \/ part = "campaign" /\ Next /\ UNCHANGED runRows
     \/ part = "run" /\ Run!Next /\ UNCHANGED vars

MCSpec == MCInit /\ [][MCNext]_<<part, vars, runRows>>

\* The tests pass, one fails, or one is skipped.
MCGates == {{"passed"}, {"passed", "failed"}, {"passed", "skipped"}}

\* Every phase may take one hour.
MCLimit == [phase \in {"apply", "tests", "rollback", "destroy", "reconciliation"} |-> 1]

Interchangeable == Permutations(Campaigns) \cup Permutations(Keys) \cup Permutations(Events)

-----------------------------------------------------------------------------
\* RunLedger: an accepted ledger is the run's own.
AcceptedRunIsTrue == Run!AcceptedRunIsTrue

\* RunLedger: a run a phase of which broke its limit is filed with an incident
\* (violated by an apply).
TimeoutOpensIncident == Run!TimeoutOpensIncident
=============================================================================
