---------------------------- MODULE CallContract ----------------------------
(***************************************************************************)
(* What the agent may rely on when it calls a tool, however connections    *)
(* break: the tool starts at most once, the call is answered at most once, *)
(* the answer is true, and nothing starts for a call that was answered.    *)
(*                                                                         *)
(* The contract knows nothing of managers, connections, processes or       *)
(* timers. ToolServer is the detailed specification shown to implement it. *)
(***************************************************************************)

CONSTANT Calls

VARIABLES
  told,  \* Calls -> what the agent was told, "none" until then
  tool   \* Calls -> where the called tool is

vars == <<told, tool>>

\* The agent is told what happened, or that nobody knows.
Known == {"result", "timed out", "not sent"}
Unsure == {"unknown", "no answer"}

ContractTypeOK ==
  /\ told \in [Calls -> {"none"} \cup Known \cup Unsure]
  /\ tool \in [Calls -> {"idle", "running", "over"}]

Init ==
  /\ told = [c \in Calls |-> "none"]
  /\ tool = [c \in Calls |-> "idle"]

Moves(c, from, to) == tool[c] = from /\ tool'[c] = to

\* Nobody was told anything yet, and now it is this.
Tells(c, answer) == told[c] = "none" /\ told'[c] = answer

\* The tool starts, for somebody who waits for it.
Starts(c) == Moves(c, "idle", "running") /\ told[c] = "none" /\ told'[c] = "none"

\* The tool comes to its end, whether or not somebody still waits.
Ends(c) == Moves(c, "running", "over") /\ told'[c] = told[c]

\* The end of the tool is reported.
Reports(c) == Moves(c, "over", "over") /\ (Tells(c, "result") \/ Tells(c, "timed out"))

\* The call could not be made.
Fails(c) == Moves(c, "idle", "idle") /\ Tells(c, "not sent")

\* Nobody waits any longer. The tool may go on.
GivesUp(c) == tool'[c] = tool[c] /\ Tells(c, "no answer")

\* The connection is lost, and the tool with it if it runs.
Lost(c) ==
  /\ Moves(c, "idle", "idle") \/ Moves(c, "running", "over") \/ Moves(c, "over", "over")
  /\ Tells(c, "unknown")

Step(c) == Starts(c) \/ Ends(c) \/ Reports(c) \/ Fails(c) \/ GivesUp(c) \/ Lost(c)

\* Calls know nothing of each other, and what ends a connection ends several of them at once.
Next ==
  /\ ContractTypeOK'
  /\ \A c \in Calls : Step(c) \/ (told'[c] = told[c] /\ tool'[c] = tool[c])

Spec == Init /\ [][Next]_vars

-----------------------------------------------------------------------------

\* What the agent was told is true when it is told, and stays true.
ToldTheTruth ==
  \A c \in Calls :
    /\ told[c] \in {"result", "timed out"} => tool[c] = "over"
    /\ told[c] = "not sent" => tool[c] = "idle"
=============================================================================
