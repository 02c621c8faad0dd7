------------------------------ MODULE AgentRuns ------------------------------
(***************************************************************************)
(* Runs of the user's agents and the approvals they wait for.              *)
(*                                                                         *)
(* Three SQLite tables (pending_actions, agent_runs, agents) and the set   *)
(* of runs in progress, which lives in memory, are shared by every request *)
(* to the agent service: starting and resuming a run, a chat message, a    *)
(* task, the user's decision, editing and deleting an agent.               *)
(*                                                                         *)
(* Node runs one callback at a time, so the code between two awaits is one *)
(* step here. A request suspends in two places, and everybody else runs    *)
(* meanwhile: while the model answers ("routing", "thinking") and while a  *)
(* tool runs ("calling"). A crash can also fall between two SQL statements of one    *)
(* callback; those are the CrashAfter actions.                             *)
(***************************************************************************)
EXTENDS Naturals, FiniteSets

CONSTANTS
  Actions,     \* ids a pending_actions row can get
  Runs,        \* ids an agent_runs row can get
  Agents,      \* ids an agents row can get
  Workers,     \* requests that can be in progress at once
  Workspaces,
  Tools,       \* names of tools the model can ask for
  Modes,       \* approval modes a chat may send
  MaxSteps,    \* maxIterations of the orchestrator's loop
  MaxFaults,   \* bound of the model: crashes and failed log writes
  Null         \* SQL null, and no such thing

ASSUME RunsAssumption ==
  /\ Null \notin Actions \cup Runs \cup Agents \cup Workspaces \cup Tools
  /\ Modes \subseteq {"ask", "auto", "bypass"}
  /\ MaxSteps \in Nat \ {0}
  /\ MaxFaults \in Nat

VARIABLES
  actions,    \* Actions -> row of pending_actions
  agents,     \* Agents -> row of agents
  runs,       \* Runs -> row of agent_runs
  active,     \* runs being worked on, in memory only
  workers,    \* Workers -> the request in progress and its orchestrator
  faults,     \* how many crashes and failed log writes there were
  \* What really happened, kept for the properties; the code has no such state.
  decision,   \* Actions -> the user's answer
  started,    \* Actions -> how many times the stored command was handed to a tool
  startedBy   \* Actions -> the run (Null: a chat or a task) that did so last

rows == <<actions, agents, runs>>
history == <<decision, started, startedBy>>
vars == <<actions, agents, runs, active, workers, faults, decision, started, startedBy>>

-----------------------------------------------------------------------------
(* The tables. *)

\* bash and python are the tools whose every call needs an approval.
Dangerous == Tools \cap {"bash", "python"}

ActionRow == [status : {"none", "pending", "approved", "rejected", "executed"},
              workspaceId : Workspaces \cup {Null},
              tool : Tools \cup {Null}]

AgentRow == [state : {"absent", "present", "deleted"},
             workspaceId : Workspaces \cup {Null},
             tools : SUBSET Tools]

RunStatuses == {"none", "error", "awaiting_approval", "completed", "cancelled", "deleted"}

\* What the row tells the user, as far as the properties tell texts apart.
Outputs == {"none", "unfinished", "waiting", "stopped", "denied", "elsewhere", "result"}

RunRow == [status : RunStatuses,
           agentId : Agents \cup {Null},
           output : Outputs,
           pendingActionId : Actions \cup {Null}]

NoRun == [status |-> "none", agentId |-> Null, output |-> "none", pendingActionId |-> Null]

\* signal: "none" when the caller passes no abort signal, "open" until the client goes away.
\* claimed: the approved action whose stored command the current call runs.
\* lone: resumed on its own, with no instructions to go on with.
Worker == [phase : {"idle", "routing", "thinking", "calling"},
           run : Runs \cup {Null},
           workspaceId : Workspaces \cup {Null},
           tools : SUBSET Tools,
           mode : {"ask", "auto", "bypass"},
           signal : {"none", "open", "aborted"},
           tool : Tools \cup {Null},
           claimed : Actions \cup {Null},
           lone : BOOLEAN,
           step : 0 .. MaxSteps]

Idle == [phase |-> "idle", run |-> Null, workspaceId |-> Null, tools |-> {}, mode |-> "ask",
         signal |-> "none", tool |-> Null, claimed |-> Null, lone |-> FALSE, step |-> 0]

\* The row getAgentRunByPendingAction finds: the run waits for this action.
WaitsFor(r, p) == runs[r].pendingActionId = p

Waiting(p) == \E r \in Runs : WaitsFor(r, p)

\* Bug: a null is not told from a field that is left out, so the row keeps its old action.
UpdateRunKeepsAction(r, status, output, p) ==
  runs' = [runs EXCEPT ![r] =
             IF @.status = "deleted" THEN @
             ELSE [@ EXCEPT !.status = status, !.output = output,
                            !.pendingActionId = IF p = Null THEN @ ELSE p]]

\* An UPDATE of agent_runs by id, which finds nothing once the row is deleted.
UpdateRun(r, status, output, p) ==
  runs' = [runs EXCEPT ![r] =
             IF @.status = "deleted" THEN @
             ELSE [@ EXCEPT !.status = status, !.output = output, !.pendingActionId = p]]

Init ==
  /\ actions = [p \in Actions |-> [status |-> "none", workspaceId |-> Null, tool |-> Null]]
  /\ agents = [g \in Agents |-> [state |-> "absent", workspaceId |-> Null, tools |-> {}]]
  /\ runs = [r \in Runs |-> NoRun]
  /\ active = {}
  /\ workers = [w \in Workers |-> Idle]
  /\ faults = 0
  /\ decision = [p \in Actions |-> "none"]
  /\ started = [p \in Actions |-> 0]
  /\ startedBy = [p \in Actions |-> Null]

-----------------------------------------------------------------------------
(* The agents page. *)

CreateAgent(g) ==
  /\ agents[g].state = "absent"
  /\ \E ws \in Workspaces, T \in SUBSET Tools :
       agents' = [agents EXCEPT ![g] = [state |-> "present", workspaceId |-> ws, tools |-> T]]
  /\ UNCHANGED <<actions, runs, active, workers, faults, history>>

\* Takes effect for runs started or resumed later: a request in progress keeps its persona.
UpdateAgent(g) ==
  /\ agents[g].state = "present"
  /\ \E T \in SUBSET Tools : agents' = [agents EXCEPT ![g].tools = T]
  /\ UNCHANGED <<actions, runs, active, workers, faults, history>>

\* One transaction: the agent's runs go with it, also those in progress. Actions stay.
DeleteAgent(g) ==
  /\ agents[g].state = "present"
  /\ agents' = [agents EXCEPT ![g].state = "deleted"]
  /\ runs' = [r \in Runs |-> IF runs[r].agentId = g
                             THEN [runs[r] EXCEPT !.status = "deleted", !.pendingActionId = Null]
                             ELSE runs[r]]
  /\ UNCHANGED <<actions, active, workers, faults, history>>

-----------------------------------------------------------------------------
(* Requests begin. *)

\* The first iteration of the loop, suspended on the model.
Thinking(r, ws, T, mode, signal) ==
  [Idle EXCEPT !.phase = "thinking", !.run = r, !.workspaceId = ws, !.tools = T,
               !.mode = mode, !.signal = signal, !.step = 1]

\* The row of a new run: it is unfinished until the request that made it saves how it ended.
CreateAgentRun(r, g) ==
  runs' = [runs EXCEPT ![r] = [status |-> "error", agentId |-> g, output |-> "unfinished",
                               pendingActionId |-> Null]]

\* A run of agent g on a new task, from its page (with a signal) or from an automation. The
\* row is saved as unfinished first.
StartRun(w, g, r) ==
  /\ workers[w].phase = "idle"
  /\ agents[g].state = "present"
  /\ runs[r].status = "none"
  /\ CreateAgentRun(r, g)
  /\ active' = active \cup {r}
  /\ \E signal \in {"open", "none"} :
       workers' = [workers EXCEPT ![w] =
                     Thinking(r, agents[g].workspaceId, agents[g].tools, "ask", signal)]
  /\ UNCHANGED <<actions, agents, faults, history>>

\* Whom a request without a run works as: one of the workspace's agents, or nobody, who is
\* not restricted to a list of tools.
Personas(ws) ==
  {Tools} \cup {agents[g].tools : g \in {h \in Agents : /\ agents[h].state = "present"
                                                        /\ agents[h].workspaceId = ws}}

\* A chat message, or a task or automation (no persona, no signal, mode "ask"). The first
\* iteration routes it, unless it names an action that can't be claimed.
StartPlain(w) ==
  /\ workers[w].phase = "idle"
  /\ \E ws \in Workspaces, phase \in {"routing", "thinking"} :
       \/ \E T \in Personas(ws), mode \in Modes :
            workers' = [workers EXCEPT
                          ![w] = [Thinking(Null, ws, T, mode, "open") EXCEPT !.phase = phase]]
       \/ workers' = [workers EXCEPT
                          ![w] = [Thinking(Null, ws, Tools, "ask", "none") EXCEPT !.phase = phase]]
  /\ UNCHANGED <<rows, active, faults, history>>

\* Bug: an approval can be claimed again.
MayClaimTwice(p, ws) ==
  /\ actions[p].status \in {"approved", "executed"}
  /\ actions[p].workspaceId = ws

\* Bug: the claim does not look at the workspace.
MayClaimAnywhere(p, ws) == actions[p].status = "approved" /\ ws \in Workspaces

\* consumeApprovedAction's WHERE clause.
MayClaim(p, ws) ==
  /\ actions[p].status = "approved"
  /\ actions[p].workspaceId = ws

\* Bug: the active set is not consulted.
NeverInProgress(r) == r \notin Runs

InProgress(r) == r \in active

\* The claim and the start of the stored command: nothing is awaited between them. x is the
\* request as it starts, by run x.run or by nobody's.
ClaimAndCall(w, p, x) ==
  /\ actions' = [actions EXCEPT ![p].status = "executed"]
  /\ workers' = [workers EXCEPT ![w] = [x EXCEPT !.phase = "calling", !.claimed = p,
                                                 !.tool = actions[p].tool]]
  /\ started' = [started EXCEPT ![p] = @ + 1]
  /\ startedBy' = [startedBy EXCEPT ![p] = x.run]

\* resumeRun on an approved command: the run goes on under its agent's present tools. From
\* its own page with a signal, from the Tasks page without one.
ResumeRun(w, r, p) ==
  LET g == runs[r].agentId
  IN  /\ workers[w].phase = "idle"
      /\ WaitsFor(r, p)
      /\ ~InProgress(r)
      /\ MayClaim(p, agents[g].workspaceId)
      /\ actions[p].tool \in agents[g].tools
      /\ \E signal \in {"open", "none"} :
           ClaimAndCall(w, p, Thinking(r, agents[g].workspaceId, agents[g].tools, "ask", signal))
      /\ active' = active \cup {r}
      /\ UNCHANGED <<agents, runs, faults, decision>>

\* The agent lost the tool since it asked: the run ends with an error and the approval is left
\* unclaimed, all in one callback.
ResumeRefused(r, p) ==
  /\ WaitsFor(r, p)
  /\ ~InProgress(r)
  /\ actions[p].status = "approved"
  /\ actions[p].tool \notin agents[runs[r].agentId].tools
  /\ UpdateRun(r, "error", "result", Null)
  /\ UNCHANGED <<actions, agents, active, workers, faults, history>>

\* Bug: a command without a decision is taken for a denied one.
ResumeUndecided(r, p) ==
  /\ WaitsFor(r, p)
  /\ ~InProgress(r)
  /\ \/ /\ actions[p].status \in {"pending", "rejected"}
        /\ UpdateRun(r, "cancelled", "denied", Null)
     \/ /\ actions[p].status = "executed"
        /\ UpdateRun(r, "completed", "elsewhere", Null)
  /\ UNCHANGED <<actions, agents, active, workers, faults, history>>

\* resumeRun on a command that was denied, or was already run, closes the run. A command with
\* no decision yet leaves everything as it is. (A missing row is answered too, but no statement
\* of the program deletes one.)
ResumeSettled(r, p) ==
  /\ WaitsFor(r, p)
  /\ ~InProgress(r)
  /\ \/ /\ actions[p].status = "rejected"
        /\ UpdateRun(r, "cancelled", "denied", Null)
     \/ /\ actions[p].status = "executed"
        /\ UpdateRun(r, "completed", "elsewhere", Null)
  /\ UNCHANGED <<actions, agents, active, workers, faults, history>>

\* A chat that names a pending action claims it, also when an agent's run waits for it.
\* Anything but a claim leaves the tables alone and goes on, if at all, as StartPlain.
ChatResume(w, p) ==
  /\ workers[w].phase = "idle"
  /\ \E ws \in Workspaces : \E T \in Personas(ws), mode \in Modes, lone \in BOOLEAN :
       /\ MayClaim(p, ws)
       /\ actions[p].tool \in T
       /\ ClaimAndCall(w, p, [Thinking(Null, ws, T, mode, "open") EXCEPT !.lone = lone])
  /\ UNCHANGED <<agents, runs, active, faults, decision>>

\* The Tasks page resumes a command on its own, if no agent's run waits for it.
TaskResume(w, p) ==
  /\ workers[w].phase = "idle"
  /\ ~Waiting(p)
  /\ \E ws \in Workspaces, lone \in BOOLEAN :
       /\ MayClaim(p, ws)
       /\ ClaimAndCall(w, p, [Thinking(Null, ws, Tools, "ask", "none") EXCEPT !.lone = lone])
  /\ UNCHANGED <<agents, runs, active, faults, decision>>

-----------------------------------------------------------------------------
(* A request in progress. *)

\* The client closed the connection.
Abort(w) ==
  /\ workers[w].phase # "idle"
  /\ workers[w].signal = "open"
  /\ workers' = [workers EXCEPT ![w].signal = "aborted"]
  /\ UNCHANGED <<rows, active, faults, history>>

Aborted(w) == workers[w].signal = "aborted"

\* Bug: the run is not taken out of the active set when it ends.
SaveRunStaysActive(w, status, output, p) ==
  /\ IF workers[w].run = Null THEN UNCHANGED runs
     ELSE IF Aborted(w) THEN UpdateRun(workers[w].run, "cancelled", "stopped", Null)
     ELSE IF p # Null THEN UpdateRun(workers[w].run, "awaiting_approval", "waiting", p)
     ELSE UpdateRun(workers[w].run, status, output, Null)
  /\ UNCHANGED active
  /\ workers' = [workers EXCEPT ![w] = Idle]

\* How execute() saves a run: an aborted one is cancelled whatever the orchestrator returned,
\* one with a pending action waits for it. A chat or a task saves no row.
SaveRun(w, status, output, p) ==
  /\ IF workers[w].run = Null THEN UNCHANGED runs
     ELSE IF Aborted(w) THEN UpdateRun(workers[w].run, "cancelled", "stopped", Null)
     ELSE IF p # Null THEN UpdateRun(workers[w].run, "awaiting_approval", "waiting", p)
     ELSE UpdateRun(workers[w].run, status, output, Null)
  /\ active' = active \ {workers[w].run}
  /\ workers' = [workers EXCEPT ![w] = Idle]

\* Without a run: the message is answered from memories or as a conversation, or is stored, in
\* the iteration after it was routed. Whatever goes wrong is told, and nothing follows.
Answer(w) ==
  /\ workers[w].phase = "thinking"
  /\ workers[w].run = Null /\ workers[w].step = 2
  /\ SaveRun(w, "completed", "result", Null)
  /\ UNCHANGED <<actions, agents, faults, history>>

\* The loop ends without a tool: an answer, an error of the model, a step refused twice, or a
\* client that went away.
Finish(w) ==
  /\ workers[w].phase = "thinking"
  /\ \E status \in {"completed", "error"} : SaveRun(w, status, "result", Null)
  /\ UNCHANGED <<actions, agents, faults, history>>

\* Bug: one iteration too many.
MayGoOnOnce(w) == ~Aborted(w) /\ workers[w].step <= MaxSteps

\* Back to the top of the loop, which stops on the signal and at maxIterations.
MayGoOn(w) == ~Aborted(w) /\ workers[w].step < MaxSteps

\* Bug: iterations are not counted.
GoOnForever(w) ==
  /\ workers' = [workers EXCEPT ![w].phase = "thinking", ![w].tool = Null, ![w].claimed = Null]
  /\ UNCHANGED <<runs, active>>

GoOn(w) ==
  /\ workers' = [workers EXCEPT ![w].phase = "thinking", ![w].tool = Null, ![w].claimed = Null,
                                ![w].step = @ + 1]
  /\ UNCHANGED <<runs, active>>

LoopBack(w) == IF MayGoOn(w) THEN GoOn(w) ELSE SaveRun(w, "error", "result", Null)

\* The message is routed to what the next iteration does, also when the model fails. A question
\* for the assistant's name is answered at once.
Route(w) ==
  /\ workers[w].phase = "routing"
  /\ LoopBack(w) \/ SaveRun(w, "completed", "result", Null)
  /\ UNCHANGED <<actions, agents, faults, history>>

\* A reply that names no usable step is answered with a notice and the model is asked again.
Retry(w) ==
  /\ workers[w].phase = "thinking"
  /\ LoopBack(w)
  /\ UNCHANGED <<actions, agents, faults, history>>

\* Whether a call waits for the user. In "auto" some calls do not; which ones is decided
\* from their arguments, which are not modelled.
MustAsk(mode, tool) == tool \in Dangerous /\ mode = "ask"
MayAsk(mode, tool) == tool \in Dangerous /\ mode # "bypass"

\* A request without a persona may use every tool.
allowsTool(w, tool) == tool \in workers[w].tools

\* The model asks for a tool, and the call starts unless the client went away.
CallTool(w, tool) ==
  /\ workers[w].phase = "thinking"
  /\ allowsTool(w, tool)
  /\ ~MustAsk(workers[w].mode, tool)
  /\ IF Aborted(w) THEN SaveRun(w, "error", "result", Null)
     ELSE /\ workers' = [workers EXCEPT ![w].phase = "calling", ![w].tool = tool]
          /\ UNCHANGED <<runs, active>>
  /\ UNCHANGED <<actions, agents, faults, history>>

\* A message that asks for a summary of the workspace: the iteration after it was routed scans it
\* without asking the model, unless the persona lacks that tool. Then it goes on as any other.
ScanRepo(w) ==
  /\ workers[w].run = Null /\ workers[w].step = 2
  /\ \E tool \in Tools \ Dangerous : CallTool(w, tool)

\* The new row of a command that has to be approved.
CreateAction(w, p, tool) ==
  /\ actions[p].status = "none"
  /\ actions' = [actions EXCEPT ![p] = [status |-> "pending", tool |-> tool,
                                        workspaceId |-> workers[w].workspaceId]]

\* The model asks for a command that needs an approval: the row is created and the request
\* ends, waiting. The signal is not looked at before the row is created.
ProposeAction(w, p, tool) ==
  /\ workers[w].phase = "thinking"
  /\ allowsTool(w, tool)
  /\ MayAsk(workers[w].mode, tool)
  /\ CreateAction(w, p, tool)
  /\ SaveRun(w, "completed", "result", p)
  /\ UNCHANGED <<agents, faults, history>>

\* The tool answers, or fails. An approved command goes back to the loop, or ends the request
\* when it was resumed on its own; the call of an ordinary step may also end the run.
ToolReturns(w) ==
  /\ workers[w].phase = "calling"
  /\ \/ /\ ~workers[w].lone \/ workers[w].claimed = Null
        /\ LoopBack(w)
     \/ /\ workers[w].lone \/ workers[w].claimed = Null
        /\ \E status \in {"completed", "error"} : SaveRun(w, status, "result", Null)
  /\ UNCHANGED <<actions, agents, faults, history>>

\* The tool ran and its result can't be written to execution_logs. The exception ends the loop
\* before the orchestrator forgets the pending action it claimed.
LogWriteFails(w) ==
  /\ faults < MaxFaults
  /\ faults' = faults + 1
  /\ workers[w].phase = "calling"
  /\ SaveRun(w, "error", "result", workers[w].claimed)
  /\ UNCHANGED <<actions, agents, history>>

-----------------------------------------------------------------------------
(* The user's decision, at /api/agent/approve. *)

\* Bug: a decision can be changed.
ApproveAfterAll(p) ==
  /\ actions[p].status \in {"pending", "rejected"}
  /\ actions' = [actions EXCEPT ![p].status = "approved"]
  /\ decision' = [decision EXCEPT ![p] = "approved"]
  /\ UNCHANGED <<agents, runs, active, workers, faults, started, startedBy>>

Approve(p) ==
  /\ actions[p].status = "pending"
  /\ actions' = [actions EXCEPT ![p].status = "approved"]
  /\ decision' = [decision EXCEPT ![p] = "approved"]
  /\ UNCHANGED <<agents, runs, active, workers, faults, started, startedBy>>

\* Bug: the decision is not settled with the run.
RejectUnsettled(p) ==
  /\ actions[p].status = "pending"
  /\ actions' = [actions EXCEPT ![p].status = "rejected"]
  /\ decision' = [decision EXCEPT ![p] = "rejected"]
  /\ UNCHANGED <<agents, runs, active, workers, faults, started, startedBy>>

\* settleDecision: the run that waits for a denied command is closed at once.
Reject(p) ==
  /\ actions[p].status = "pending"
  /\ actions' = [actions EXCEPT ![p].status = "rejected"]
  /\ decision' = [decision EXCEPT ![p] = "rejected"]
  /\ IF Waiting(p)
     THEN \E r \in Runs : WaitsFor(r, p) /\ UpdateRun(r, "cancelled", "denied", Null)
     ELSE UNCHANGED runs
  /\ UNCHANGED <<agents, active, workers, faults, started, startedBy>>

-----------------------------------------------------------------------------
(* Crash and restart: the tables survive, requests and the active set do not. *)

Restart ==
  /\ faults < MaxFaults
  /\ faults' = faults + 1
  /\ active' = {}
  /\ workers' = [w \in Workers |-> Idle]

Crash ==
  /\ \E w \in Workers : workers[w].phase # "idle"
  /\ Restart
  /\ UNCHANGED <<rows, history>>

\* After the claim, before the tool got the command.
CrashAfterClaim(p) ==
  /\ Restart
  /\ \E ws \in Workspaces : MayClaim(p, ws)
  /\ actions' = [actions EXCEPT ![p].status = "executed"]
  /\ UNCHANGED <<agents, runs, history>>

\* After the denial was recorded, before the waiting run was closed.
CrashAfterReject(p) ==
  /\ Restart
  /\ actions[p].status = "pending"
  /\ actions' = [actions EXCEPT ![p].status = "rejected"]
  /\ decision' = [decision EXCEPT ![p] = "rejected"]
  /\ UNCHANGED <<agents, runs, started, startedBy>>

\* After the row of a proposed command was created, before the run was saved as waiting.
CrashAfterPropose(w, p, tool) ==
  /\ Restart
  /\ workers[w].phase = "thinking"
  /\ allowsTool(w, tool)
  /\ MayAsk(workers[w].mode, tool)
  /\ CreateAction(w, p, tool)
  /\ UNCHANGED <<agents, runs, history>>

-----------------------------------------------------------------------------

Step(w) ==
  \/ Route(w)
  \/ Answer(w)
  \/ Finish(w)
  \/ Retry(w)
  \/ ScanRepo(w)
  \/ \E tool \in Tools : CallTool(w, tool)
  \/ \E p \in Actions, tool \in Tools : ProposeAction(w, p, tool)
  \/ ToolReturns(w)

Next ==
  \/ \E g \in Agents : CreateAgent(g) \/ UpdateAgent(g) \/ DeleteAgent(g)
  \/ \E w \in Workers, g \in Agents, r \in Runs : StartRun(w, g, r)
  \/ \E w \in Workers : StartPlain(w) \/ Abort(w) \/ Step(w) \/ LogWriteFails(w)
  \/ \E w \in Workers, r \in Runs, p \in Actions : ResumeRun(w, r, p)
  \/ \E r \in Runs, p \in Actions : ResumeRefused(r, p) \/ ResumeSettled(r, p)
  \/ \E w \in Workers, p \in Actions : ChatResume(w, p) \/ TaskResume(w, p)
  \/ \E p \in Actions : Approve(p) \/ Reject(p)
  \/ Crash
  \/ \E p \in Actions : CrashAfterClaim(p) \/ CrashAfterReject(p)
  \/ \E w \in Workers, p \in Actions, tool \in Tools : CrashAfterPropose(w, p, tool)

Spec == Init /\ [][Next]_vars

\* Every request in progress gets on: the model's answer and a tool's result arrive or time out.
FairSpec == Spec /\ \A w \in Workers : WF_vars(Step(w))

-----------------------------------------------------------------------------
(* Properties. *)

TypeOK ==
  /\ actions \in [Actions -> ActionRow]
  /\ agents \in [Agents -> AgentRow]
  /\ runs \in [Runs -> RunRow]
  /\ active \in SUBSET Runs
  /\ workers \in [Workers -> Worker]
  /\ faults \in 0 .. MaxFaults
  /\ decision \in [Actions -> {"none", "approved", "rejected"}]
  /\ started \in [Actions -> Nat]
  /\ startedBy \in [Actions -> Runs \cup {Null}]

\* However many pages resume the same approval, and across crashes: the stored command of an
\* action was handed to a tool at most once, and only if the user approved it. (A test approves
\* once and resumes twice; here chats, tasks and runs race for it.)
RunsOnceAsApproved ==
  \A p \in Actions :
    /\ started[p] <= 1
    /\ started[p] = 1 => decision[p] = "approved"

\* The in-memory set is exactly what is being worked on, and no two requests work on one run:
\* nothing leaks out of it on any way a run can end, or a run could never be resumed again.
ActiveIsInProgress ==
  /\ active = {workers[w].run : w \in Workers} \ {Null}
  /\ \A v, w \in Workers : workers[v].run = workers[w].run => v = w \/ workers[v].run = Null

\* A row waits exactly when it names an action, and that action is a command of the run's own
\* workspace that no other run waits for. Otherwise a decision would carry on the wrong run.
WaitingFits ==
  \A r \in Runs :
    /\ runs[r].status = "awaiting_approval" <=> runs[r].pendingActionId # Null
    /\ \A p \in Actions : WaitsFor(r, p) =>
         /\ actions[p].workspaceId = agents[runs[r].agentId].workspaceId
         /\ actions[p].tool \in Dangerous
         /\ \A q \in Runs : WaitsFor(q, p) => q = r

\* A tool call in progress is one its persona has. A command in the default mode is a claimed
\* one, of this workspace, and is the stored command.
CallsAreAllowed ==
  \A w \in Workers : LET x == workers[w] IN x.phase = "calling" =>
    /\ x.tool \in x.tools
    /\ x.tool \in Dangerous /\ x.mode = "ask" => x.claimed # Null
    /\ x.claimed # Null => /\ actions[x.claimed].workspaceId = x.workspaceId
                           /\ actions[x.claimed].tool = x.tool
                           /\ actions[x.claimed].status = "executed"

\* What makes these three inductive. A row has an agent from the moment it exists, and the
\* action it waits for exists. (A run could otherwise be given to a command proposed later.)
RowsFit ==
  \A r \in Runs :
    /\ runs[r].status = "none" <=> runs[r].agentId = Null
    /\ runs[r].agentId # Null => agents[runs[r].agentId].state # "absent"
    /\ \A p \in Actions : WaitsFor(r, p) => actions[p].status # "none"

\* While a claimed command runs, the row of its run still waits for it, or is deleted: nobody
\* closes, moves or resumes a run that is in progress.
InProgressFits ==
  \A w \in Workers : LET x == workers[w] IN
    /\ x.phase = "idle" => x.run = Null
    /\ x.claimed # Null => actions[x.claimed].status = "executed"
    /\ x.run # Null =>
         /\ runs[x.run].agentId # Null
         /\ x.workspaceId = agents[runs[x.run].agentId].workspaceId
         /\ x.claimed # Null => runs[x.run].status = "deleted" \/ WaitsFor(x.run, x.claimed)

\* The table of approvals agrees with what the user said and with what was started.
Ledger ==
  \A p \in Actions :
    /\ started[p] = 0 \/ (started[p] = 1 /\ actions[p].status = "executed")
    /\ actions[p].status \in {"approved", "executed"} => decision[p] = "approved"

\* The inductive invariant behind RunsOnceAsApproved, ActiveIsInProgress and WaitingFits.
IInv == RowsFit /\ InProgressFits /\ ActiveIsInProgress /\ WaitingFits /\ Ledger

\* Without faults, a denied command leaves no run waiting, and a run that waits for a command
\* that was already run, while nobody works on it, waits for one that somebody else ran: the
\* text RUN_ELSEWHERE is then true.
NothingWaitsInVain ==
  faults = 0 => \A r \in Runs, p \in Actions : WaitsFor(r, p) =>
    /\ actions[p].status # "rejected"
    /\ actions[p].status = "executed" /\ r \notin active => startedBy[p] # r

\* A run that was closed keeps its result: no late answer of an older request overwrites it.
ClosedRunsStay ==
  [][\A r \in Runs :
       /\ runs[r].status \in {"completed", "error", "cancelled"}
       /\ runs[r].output # "unfinished"
       => runs'[r] = runs[r] \/ runs'[r].status = "deleted"]_vars

\* A waiting run is not taken up or closed before the user decided, unless its agent is deleted.
WaitsForTheUser ==
  [][\A r \in Runs, p \in Actions :
       WaitsFor(r, p) /\ ~WaitsFor(r, p)' => decision'[p] # "none" \/ runs'[r].status = "deleted"]_vars

\* The approval contract, of the pending_actions table and what was started.
Contract == INSTANCE ApprovalContract WITH status <- [p \in Actions |-> actions[p].status]

\* The tables and requests together do what the contract promises, with every crash included.
KeepsContract == Contract!Spec

\* A run somebody works on stops being worked on: it ends, waits for the user, or the server dies.
RunsEnd == \A r \in Runs : r \in active ~> r \notin active

=============================================================================
