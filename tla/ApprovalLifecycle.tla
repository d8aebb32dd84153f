------------------------- MODULE ApprovalLifecycle -------------------------
(***************************************************************************)
(* What the approval workflow promises about a dispatch proposal, without  *)
(* requests, rows or topics: a proposal moves along the status graph of    *)
(* services/approval-workflow/src/status-machine.js, and a proposal that   *)
(* has become ready_to_dispatch is announced at most once.                 *)
(***************************************************************************)

CONSTANTS Commands,   \* ids of rows of dispatch_commands
          Requests    \* reviewers' HTTP requests, the authors of a change

VARIABLES status,     \* status[c]: the status column of proposal c
          announced   \* announced[c]: the requests that announced c as ready

lifecycleVars == <<status, announced>>

STATUSES == {"proposed", "reviewed", "approved", "rejected", "ready_to_dispatch"}

Absent == "absent"    \* there is no row with this id yet

ALLOWED_TRANSITIONS ==
  [proposed          |-> {"reviewed", "rejected"},
   reviewed          |-> {"approved", "rejected"},
   approved          |-> {"ready_to_dispatch"},
   rejected          |-> {},
   ready_to_dispatch |-> {}]

-----------------------------------------------------------------------------

LifecycleInit ==
  /\ status = [c \in Commands |-> Absent]
  /\ announced = [c \in Commands |-> {}]

\* A proposal appears, always as "proposed".
Propose(c) ==
  /\ status[c] = Absent
  /\ status' = [status EXCEPT ![c] = "proposed"]
  /\ UNCHANGED announced

\* A reviewer's decision moves the proposal along one edge of the graph.
Decide(c) ==
  /\ status[c] \in STATUSES
  /\ \E s \in ALLOWED_TRANSITIONS[status[c]] : status' = [status EXCEPT ![c] = s]
  /\ UNCHANGED announced

\* The one announcement of a ready proposal.
Announce(c, r) ==
  /\ status[c] = "ready_to_dispatch"
  /\ announced[c] = {}
  /\ announced' = [announced EXCEPT ![c] = {r}]
  /\ UNCHANGED status

LifecycleNext ==
  \E c \in Commands : \/ Propose(c)
                      \/ Decide(c)
                      \/ \E r \in Requests : Announce(c, r)

LifecycleSpec == LifecycleInit /\ [][LifecycleNext]_lifecycleVars
=============================================================================
