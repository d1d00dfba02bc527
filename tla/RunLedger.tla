------------------------------ MODULE RunLedger ------------------------------
(***************************************************************************)
(* One run of the ephemeral environment and the ledger filed about it:     *)
(* the states and transitions of ephemeral-run-ledger.v1.json, and what    *)
(* validate-ephemeral-run-ledger.mjs accepts.                              *)
(*                                                                         *)
(* The run is people's and pipelines' work: its phases take their time,    *)
(* tests pass or are skipped, a destroy leaves resources behind, and who   *)
(* reconciles may overlook them.  The ledger is written afterwards.  Its   *)
(* evidence and its counts are taken from the run, but an event may be     *)
(* lost, doubled or out of order, and labels and incident are whatever its *)
(* author claims.  A refused ledger changes nothing.                       *)
(*                                                                         *)
(* A record has no names: references, digests, actors and plan bindings,   *)
(* which the validator compares with constants, are left out.              *)
(***************************************************************************)
EXTENDS Naturals, Sequences, SequencesExt

CONSTANTS
  Starts,    \* times of day at which a run may start
  Lives,     \* planned lengths of a run
  Paces,     \* how long a phase may take
  Gates,     \* what the test gates may come to, each a set of results
  Limit,     \* timeoutMinutes of each phase
  MaxLife,   \* expirationPolicy.maxHours
  Cutoff,    \* expirationPolicy.cutoffHourAmericaNewYork
  NoLedger

Phases == {"apply", "tests", "rollback", "destroy", "reconciliation"}

\* What the constants must be.
RunAssumption ==
  /\ Starts \subseteq Nat /\ Lives \subseteq Nat /\ Paces \subseteq Nat
  /\ Limit \in [Phases -> Nat]
  /\ MaxLife \in Nat /\ Cutoff \in Nat

VARIABLES
  started, expires,   \* the window of the run
  clock,              \* the time of day
  status,             \* where the run is
  journal,            \* its events
  gates,              \* the results of the test gates
  left,               \* disposable resources in the Terraform state and live
  retained,           \* the retained control plane is intact
  filed               \* the ledger that was accepted

window == <<started, expires>>
vars   == <<window, clock, status, journal, gates, left, retained, filed>>

AllowedTransitions ==
  [plan_approved          |-> {"apply_started"},
   apply_started          |-> {"apply_succeeded", "apply_failed"},
   apply_succeeded        |-> {"tests_started"},
   apply_failed           |-> {"incident_opened"},
   tests_started          |-> {"tests_passed", "tests_failed"},
   tests_passed           |-> {"continue_approved"},
   tests_failed           |-> {"rollback_started"},
   continue_approved      |-> {"destroy_plan_reviewed"},
   rollback_started       |-> {"rollback_succeeded", "rollback_failed"},
   rollback_succeeded     |-> {"destroy_plan_reviewed"},
   rollback_failed        |-> {"incident_opened"},
   destroy_plan_reviewed  |-> {"destroy_started"},
   destroy_started        |-> {"destroy_succeeded", "destroy_failed", "destroy_timed_out"},
   destroy_succeeded      |-> {"reconciliation_started"},
   destroy_failed         |-> {"incident_opened"},
   destroy_timed_out      |-> {"incident_opened"},
   incident_opened        |-> {"reconciliation_started"},
   reconciliation_started |-> {"reconciled_clean", "orphan_detected", "inventory_mismatch"},
   reconciled_clean       |-> {"complete", "escalated"},
   orphan_detected        |-> {"escalated"},
   inventory_mismatch     |-> {"escalated"},
   complete               |-> {},
   escalated              |-> {}]

TerminalStates == {"complete", "escalated"}

\* The phases that take time, by the state they start in.
PhaseOf ==
  [apply_started |-> "apply", tests_started |-> "tests", rollback_started |-> "rollback",
   destroy_started |-> "destroy", reconciliation_started |-> "reconciliation"]

StartOf(phase) == CHOOSE s \in DOMAIN PhaseOf : PhaseOf[s] = phase

-----------------------------------------------------------------------------
(* The run.                                                                *)
Count == [state : {0, 1}, live : {0, 1}]

Init ==
  /\ started \in Starts /\ expires \in {started + life : life \in Lives}
  /\ clock = started /\ status = "plan_approved" /\ journal = <<>>
  /\ gates = {} /\ left = [state |-> 0, live |-> 0] /\ retained = TRUE
  /\ filed = NoLedger

Finds ==
  /\ gates' \in IF status = "tests_started" THEN Gates ELSE {gates}
  /\ left' \in IF status = "apply_started" THEN {[state |-> 1, live |-> 1]}
               ELSE IF status = "destroy_started" THEN Count ELSE {left}
  /\ retained' \in IF status = "destroy_started" THEN BOOLEAN ELSE {retained}

Step(to) ==
  /\ filed = NoLedger
  /\ to \in AllowedTransitions[status]
  /\ \E pace \in IF status \in DOMAIN PhaseOf THEN Paces ELSE {0} :
       /\ clock' = clock + pace
       /\ journal' = Append(journal, [from |-> status, to |-> to, at |-> clock + pace])
  /\ status' = to
  /\ Finds
  /\ UNCHANGED <<window, filed>>

-----------------------------------------------------------------------------
(* The ledger.                                                             *)
NotRun == [result |-> "none", start |-> 0, finish |-> 0]

\* The first event that reaches a state, if there is one.
EntryOf(events, state) ==
  {events[i] : i \in {j \in DOMAIN events : /\ events[j].to = state
                                            /\ \A k \in 1 .. j - 1 : events[k].to # state}}

\* What the evidence of a phase says, from the run itself, which never comes
\* back to a state.
Evidence(phase) ==
  LET ends == {e \in Range(journal) : e.from = StartOf(phase)} IN
  IF ends = {} THEN NotRun
  ELSE LET start == CHOOSE e \in EntryOf(journal, StartOf(phase)) : TRUE
           end   == CHOOSE e \in ends : TRUE
       IN [result |-> end.to, start |-> start.at, finish |-> end.at]

\* The journal as it may reach the ledger: whole, or with one event lost,
\* doubled or before its time.
Copies ==
  {journal}
    \cup {RemoveAt(journal, i) : i \in 1 .. Len(journal)}
    \cup {InsertAt(journal, i, journal[i]) : i \in 1 .. Len(journal)}
    \cup {[journal EXCEPT ![i] = journal[i + 1], ![i + 1] = journal[i]] :
            i \in 1 .. Len(journal) - 1}

Ledgers ==
  [events : Copies, outcome : TerminalStates, evidence : {[p \in DOMAIN Limit |-> Evidence(p)]},
   overdue : BOOLEAN,      \* apply.status is timed_out or failed, whatever the event says
   labelledEmpty : BOOLEAN, incident : BOOLEAN]

Visited(l) == {l.events[i].to : i \in DOMAIN l.events}

WithinLimit(l, phase) == l.evidence[phase].finish - l.evidence[phase].start <= Limit[phase]

(* assertRunBoundary: one calendar day, at most eight hours, the end by    *)
(* the expiry and the expiry by the cutoff.                                *)
IsBounded(l) ==
  /\ clock <= expires
  /\ expires - started <= MaxLife
  /\ expires <= Cutoff

(* assertTestAndDecisionEvidence.                                          *)
TestsAgree(l) ==
  \/ /\ l.evidence["tests"].result = "tests_passed" /\ gates = {"passed"}
     /\ l.evidence["rollback"] = NotRun
  \/ /\ l.evidence["tests"].result = "tests_failed" /\ "failed" \in gates
     /\ l.evidence["rollback"] # NotRun

(* assertEvidenceTimings.                                                  *)
TimingsAgree(l) ==
  /\ ~l.overdue => WithinLimit(l, "apply")
  /\ WithinLimit(l, "tests") /\ WithinLimit(l, "reconciliation")
  /\ l.evidence["rollback"].result = "rollback_succeeded" => WithinLimit(l, "rollback")
  /\ l.evidence["destroy"].result = "destroy_succeeded" => WithinLimit(l, "destroy")
  /\ l.evidence["destroy"].result = "destroy_timed_out" => ~WithinLimit(l, "destroy")

\* Mutant: asks the Terraform state only.
StateAgrees(l) ==
  LET found == l.evidence["reconciliation"].result IN
  /\ retained
  /\ found = "reconciled_clean" => left.state = 0
  /\ found = "orphan_detected" => left.state > 0

(* assertInventories: the retained classes are all there, and a clean      *)
(* reconciliation has counted nothing, in the state or live.               *)
InventoriesAgree(l) ==
  LET found == l.evidence["reconciliation"].result IN
  /\ retained
  /\ found = "reconciled_clean" => left.state = 0 /\ left.live = 0
  /\ found = "orphan_detected" => left.state + left.live > 0

Before(events, i) ==
  IF i = 1 THEN [to |-> "plan_approved", at |-> started] ELSE events[i - 1]

\* An event goes on from the one before it, in state and in time.
Follows(events, i) ==
  /\ events[i].from = Before(events, i).to
  /\ events[i].to \in AllowedTransitions[events[i].from]
  /\ Before(events, i).at <= events[i].at /\ events[i].at <= clock

\* The events make a path of allowed transitions in the order of their times,
\* from plan_approved to the first terminal state, which is the outcome.
IsPath(l) ==
  /\ l.events # <<>>
  /\ \A i \in DOMAIN l.events : Follows(l.events, i)
  /\ Last(l.events).to = l.outcome

\* The evidence of a phase is dated by its first events.
IsDated(l, phase) ==
  LET At(state) == {e.at : e \in EntryOf(l.events, state)} IN
  /\ l.evidence[phase].start \in At(StartOf(phase))
  /\ \/ phase = "apply" /\ l.overdue
     \/ l.evidence[phase].finish \in At(l.evidence[phase].result)

(* assertEventLedger.  Only a rollback may be missing.                     *)
EventsAgree(l) ==
  /\ IsPath(l)
  /\ \A phase \in DOMAIN Limit :
       \/ phase = "rollback" /\ l.evidence[phase] = NotRun
       \/ IsDated(l, phase)

FailureStates ==
  {"apply_failed", "rollback_failed", "destroy_failed", "destroy_timed_out",
   "orphan_detected", "inventory_mismatch"}

(* assertIncidentAndCompletion.                                            *)
CompletionAgrees(l) ==
  /\ l.incident <=> Visited(l) \cap FailureStates # {} \/ l.outcome = "escalated"
  /\ l.incident => "incident_opened" \in Visited(l)
  /\ LET destroyed  == l.evidence["destroy"].result = "destroy_succeeded"
         reconciled == l.evidence["reconciliation"].result = "reconciled_clean"
     IN
     IF l.outcome = "complete"
       THEN /\ destroyed /\ reconciled /\ l.labelledEmpty
            /\ \/ l.evidence["tests"].result = "tests_passed"
               \/ l.evidence["rollback"].result = "rollback_succeeded"
       ELSE ~l.labelledEmpty \/ ~destroyed \/ ~reconciled

(* validateLedger.                                                         *)
ValidateLedger(l) ==
  /\ IsBounded(l) /\ TestsAgree(l) /\ TimingsAgree(l) /\ InventoriesAgree(l)
  /\ EventsAgree(l) /\ CompletionAgrees(l)

\* A ledger is filed when the run is over.
File ==
  /\ filed = NoLedger /\ status \in TerminalStates
  /\ \E l \in Ledgers : ValidateLedger(l) /\ filed' = l
  /\ UNCHANGED <<window, clock, status, journal, gates, left, retained>>

Next == File \/ \E to \in DOMAIN AllowedTransitions : Step(to)

Spec == Init /\ [][Next]_vars

-----------------------------------------------------------------------------
TypeOK ==
  /\ started \in Starts /\ expires \in Nat /\ clock \in Nat
  /\ status \in DOMAIN AllowedTransitions
  /\ gates \in Gates \cup {{}} /\ left \in Count /\ retained \in BOOLEAN

\* The states that the run went through.
Went == {journal[i].to : i \in DOMAIN journal}

\* A phase that was not run took no time.
InTime(phase) == Evidence(phase).finish - Evidence(phase).start <= Limit[phase]

\* What a ledger tells.
TellsTheRun(l) ==
  /\ l.events = journal /\ l.outcome = status
  /\ clock <= expires /\ clock - started <= MaxLife /\ clock <= Cutoff
  /\ retained
  /\ l.outcome = "complete" =>
       /\ left.state = 0 /\ left.live = 0
       /\ "destroy_succeeded" \in Went /\ InTime("destroy")
       /\ \/ gates = {"passed"} /\ "tests_passed" \in Went
          \/ "rollback_succeeded" \in Went /\ InTime("rollback")
  /\ Went \cap FailureStates # {} => l.incident /\ l.outcome = "escalated"
  /\ \A phase \in Phases :
       \/ InTime(phase)
       \/ phase = "apply" /\ l.overdue
       \/ l.incident /\ l.outcome = "escalated"

(* An accepted ledger is the run's own: its events are the run's, none     *)
(* lost, doubled or moved; the run kept its window and its control plane;  *)
(* a run filed as complete left nothing behind, destroyed in time, and     *)
(* passed every gate or was rolled back in time; a run that reached a      *)
(* failure state, or a phase of which other than the apply broke its       *)
(* limit, is filed with its incident and never as complete; and an apply   *)
(* that broke its limit is at least not filed as succeeded, though it may  *)
(* be filed without an incident, as complete (see TimeoutOpensIncident).   *)
AcceptedRunIsTrue == filed # NoLedger => TellsTheRun(filed)

(* What the contract says of timeouts (ephemeral-run-ledger.v1.json,       *)
(* openIncidentRequiredForFailureOrTimeout): a run a phase of which broke  *)
(* its limit is filed with an incident.  False of an apply: timed_out is a *)
(* status of its evidence and no state of the run, and the validator looks *)
(* for failures among the states.                                          *)
TimeoutOpensIncident ==
  filed # NoLedger => \A phase \in Phases : InTime(phase) \/ filed.incident

-----------------------------------------------------------------------------
(* What the proof needs beside it: the journal is a path to where the run  *)
(* is, and a run that opened an incident was not destroyed in order.       *)
AfterIncident ==
  {"incident_opened", "reconciliation_started", "reconciled_clean", "orphan_detected",
   "inventory_mismatch", "complete", "escalated"}

AfterDestroy == (AfterIncident \ {"incident_opened"}) \cup {"destroy_succeeded"}

States == DOMAIN AllowedTransitions

JournalIsPath ==
  /\ journal \in Seq([from : States, to : States, at : Nat])
  /\ \A i \in DOMAIN journal : Follows(journal, i)
  /\ status = Before(journal, Len(journal) + 1).to
  /\ Before(journal, Len(journal) + 1).at <= clock

IncidentOrDestroy ==
  /\ "incident_opened" \in Went => "destroy_succeeded" \notin Went /\ status \in AfterIncident
  /\ "destroy_succeeded" \in Went => status \in AfterDestroy

InductiveInvariant ==
  TypeOK /\ JournalIsPath /\ IncidentOrDestroy /\ AcceptedRunIsTrue
=============================================================================
