------------------------------ MODULE JobPromise ------------------------------
(***************************************************************************)
(* What the notification outbox and the two evidence deletion queues       *)
(* promise about a job, without clocks, leases or counters: it is worked   *)
(* on by one worker at a time, only the worker it was handed to last can   *)
(* end it, and it ends once.  A job that was given up may be opened again. *)
(***************************************************************************)
CONSTANTS Jobs, Workers, NoWorker

VARIABLES
  state,  \* of each job
  owner,  \* the worker each job was handed to last, while it has one
  ender   \* the worker that ended its last piece of work

Init ==
  /\ state = [j \in Jobs |-> "absent"]
  /\ owner = [j \in Jobs |-> NoWorker]
  /\ ender = [j \in Jobs |-> NoWorker]

MoveTo(j, s, w) ==
  /\ state' = [state EXCEPT ![j] = s]
  /\ owner' = [owner EXCEPT ![j] = w]

Open(j) ==
  /\ state[j] \in {"absent", "given up"}
  /\ MoveTo(j, "waiting", NoWorker)
  /\ UNCHANGED ender

Hand(j, w) ==
  /\ state[j] \in {"waiting", "taken"}
  /\ MoveTo(j, "taken", w)
  /\ UNCHANGED ender

EndAs(j, w, s) ==
  /\ state[j] = "taken" /\ owner[j] = w
  /\ MoveTo(j, s, NoWorker)
  /\ ender' = [ender EXCEPT ![j] = w]

Next ==
  \E j \in Jobs :
     \/ Open(j)
     \/ \E w \in Workers :
          \/ Hand(j, w)
          \/ \E s \in {"done", "waiting", "given up"} : EndAs(j, w, s)

Spec == Init /\ [][Next]_<<state, owner, ender>>
=============================================================================
