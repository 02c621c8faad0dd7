-------------------------- MODULE ApprovalContract --------------------------
(***************************************************************************)
(* What the agent service promises about a command it proposed, whoever    *)
(* asks for it and however requests interleave: nothing starts before the  *)
(* user said yes, one yes starts the command at most once, a no is final.  *)
(*                                                                         *)
(* The contract knows nothing of runs, agents, requests or crashes.        *)
(* AgentRuns is the detailed specification shown to implement it.          *)
(***************************************************************************)
EXTENDS Naturals

CONSTANT Actions     \* ids of pending_actions rows

VARIABLES
  status,    \* Actions -> the row's status column, "none" while there is no row
  started    \* Actions -> how many times the stored command was handed to a tool

vars == <<status, started>>

Statuses == {"none", "pending", "approved", "rejected", "executed"}

ContractTypeOK ==
  /\ status \in [Actions -> Statuses]
  /\ started \in [Actions -> Nat]

Init ==
  /\ status = [p \in Actions |-> "none"]
  /\ started = [p \in Actions |-> 0]

Move(p, from, to) ==
  /\ status[p] = from
  /\ status' = [status EXCEPT ![p] = to]

\* The agent wants to run a command and the user has to be asked.
Ask(p) == Move(p, "none", "pending") /\ UNCHANGED started

\* The user's answer.
Answer(p) ==
  /\ \/ Move(p, "pending", "approved")
     \/ Move(p, "pending", "rejected")
  /\ UNCHANGED started

\* The approval is used up and the command starts, as one step.
Execute(p) ==
  /\ Move(p, "approved", "executed")
  /\ started' = [started EXCEPT ![p] = @ + 1]

\* The approval is used up and the process dies before the command starts.
Waste(p) == Move(p, "approved", "executed") /\ UNCHANGED started

Next == \E p \in Actions : Ask(p) \/ Answer(p) \/ Execute(p) \/ Waste(p)

Spec == Init /\ [][Next]_vars

-----------------------------------------------------------------------------

\* A command that was started was approved first, and it was started once: no row that is
\* still waiting for an answer, was denied, or is only approved has a started command.
StartedOnce ==
  \A p \in Actions :
    /\ started[p] <= 1
    /\ started[p] = 1 => status[p] = "executed"
=============================================================================
