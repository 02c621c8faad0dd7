-------------------------- MODULE AgentRunsProofs --------------------------
(* Proofs about AgentRuns, for every number of actions, runs, agents, requests and faults. *)
EXTENDS AgentRuns, TLAPS

USE RunsAssumption

-----------------------------------------------------------------------------
(* Type correctness. *)

\* An UPDATE of agent_runs with a proper status, text and action leaves proper rows.
LEMMA UpdateRunType ==
  ASSUME runs \in [Runs -> RunRow], NEW r \in Runs, NEW status \in RunStatuses,
         NEW output \in Outputs, NEW p \in Actions \cup {Null}, UpdateRun(r, status, output, p)
  PROVE  runs' \in [Runs -> RunRow]
BY DEF UpdateRun, RunRow

\* A free slot is a proper request.
LEMMA IdleType == Idle \in Worker
BY DEF Idle, Worker

\* A request that begins is a proper request.
LEMMA ThinkingType ==
  ASSUME NEW r \in Runs \cup {Null}, NEW ws \in Workspaces \cup {Null}, NEW T \in SUBSET Tools,
         NEW mode \in {"ask", "auto", "bypass"}, NEW signal \in {"none", "open", "aborted"}
  PROVE  Thinking(r, ws, T, mode, signal) \in Worker
<1>1. 1 \in 0 .. MaxSteps
  OBVIOUS
<1> QED
  BY <1>1, IdleType DEF Thinking, Worker

\* A request that ends leaves proper rows, a proper active set and proper requests.
LEMMA SaveRunType ==
  ASSUME TypeOK, NEW w \in Workers, NEW status \in {"completed", "error"},
         NEW p \in Actions \cup {Null}, SaveRun(w, status, "result", p)
  PROVE  /\ runs' \in [Runs -> RunRow]
         /\ active' \in SUBSET Runs
         /\ workers' \in [Workers -> Worker]
<1>1. runs' \in [Runs -> RunRow]
  <2>1. CASE workers[w].run = Null
    BY <2>1 DEF SaveRun, TypeOK
  <2>2. CASE workers[w].run # Null
    <3>1. workers[w].run \in Runs
      BY <2>2 DEF TypeOK, Worker
    <3>2. \E st \in RunStatuses, o \in Outputs, q \in Actions \cup {Null} :
            UpdateRun(workers[w].run, st, o, q)
      BY <2>2 DEF SaveRun, RunStatuses, Outputs
    <3> QED
      BY <3>1, <3>2, UpdateRunType DEF TypeOK
  <2> QED
    BY <2>1, <2>2
<1>2. active' \in SUBSET Runs
  BY DEF SaveRun, TypeOK
<1>3. workers' \in [Workers -> Worker]
  BY IdleType DEF SaveRun, TypeOK
<1> QED
  BY <1>1, <1>2, <1>3

\* So does a request that goes back to the top of the loop; the iteration stays bounded.
LEMMA LoopBackType ==
  ASSUME TypeOK, NEW w \in Workers, LoopBack(w)
  PROVE  /\ runs' \in [Runs -> RunRow]
         /\ active' \in SUBSET Runs
         /\ workers' \in [Workers -> Worker]
<1>1. CASE MayGoOn(w) /\ GoOn(w)
  <2>1. workers[w].step \in 0 .. MaxSteps /\ workers[w].step < MaxSteps
    BY <1>1 DEF MayGoOn, TypeOK, Worker
  <2>2. workers[w].step + 1 \in 0 .. MaxSteps
    BY <2>1
  <2>3. workers' \in [Workers -> Worker]
    BY <1>1, <2>2 DEF GoOn, TypeOK, Worker
  <2> QED
    BY <1>1, <2>3 DEF GoOn, TypeOK
<1>2. CASE SaveRun(w, "error", "result", Null)
  BY <1>2, SaveRunType
<1> QED
  BY <1>1, <1>2 DEF LoopBack

\* A claim keeps the types of what it changes.
LEMMA ClaimType ==
  ASSUME TypeOK, NEW w \in Workers, NEW p \in Actions, NEW x \in Worker, ClaimAndCall(w, p, x)
  PROVE  /\ actions' \in [Actions -> ActionRow]
         /\ workers' \in [Workers -> Worker]
         /\ started' \in [Actions -> Nat]
         /\ startedBy' \in [Actions -> Runs \cup {Null}]
<1>1. actions' \in [Actions -> ActionRow]
  BY DEF ClaimAndCall, TypeOK, ActionRow
<1>2. actions[p].tool \in Tools \cup {Null}
  BY DEF TypeOK, ActionRow
<1>3. [x EXCEPT !.phase = "calling", !.claimed = p, !.tool = actions[p].tool] \in Worker
  BY <1>2 DEF Worker
<1>4. workers' \in [Workers -> Worker]
  BY <1>3 DEF ClaimAndCall, TypeOK
<1>5. started' \in [Actions -> Nat]
  BY DEF ClaimAndCall, TypeOK
<1>6. x.run \in Runs \cup {Null}
  BY DEF Worker
<1>7. startedBy' \in [Actions -> Runs \cup {Null}]
  BY <1>6 DEF ClaimAndCall, TypeOK
<1> QED
  BY <1>1, <1>4, <1>5, <1>7

\* The empty tables are proper tables.
LEMMA InitType == Init => TypeOK
<1> SUFFICES ASSUME Init PROVE TypeOK
  OBVIOUS
<1>1. /\ actions \in [Actions -> ActionRow]
      /\ agents \in [Agents -> AgentRow]
      /\ runs \in [Runs -> RunRow]
  BY DEF Init, ActionRow, AgentRow, RunRow, NoRun, RunStatuses, Outputs
<1>2. workers \in [Workers -> Worker]
  BY IdleType DEF Init
<1>3. faults \in 0 .. MaxFaults
  BY DEF Init
<1> QED
  BY <1>1, <1>2, <1>3 DEF Init, TypeOK

\* Creating an agent keeps the types.
LEMMA CreateAgentType ==
  ASSUME TypeOK, NEW g \in Agents, CreateAgent(g)
  PROVE  TypeOK'
<1>1. PICK ws \in Workspaces, T \in SUBSET Tools :
        agents' = [agents EXCEPT ![g] = [state |-> "present", workspaceId |-> ws, tools |-> T]]
  BY DEF CreateAgent
<1>2. agents' \in [Agents -> AgentRow]
  BY <1>1 DEF TypeOK, AgentRow
<1> QED
  BY <1>2 DEF CreateAgent, TypeOK, history

\* Editing an agent keeps the types.
LEMMA UpdateAgentType ==
  ASSUME TypeOK, NEW g \in Agents, UpdateAgent(g)
  PROVE  TypeOK'
<1>1. PICK T \in SUBSET Tools : agents' = [agents EXCEPT ![g].tools = T]
  BY DEF UpdateAgent
<1>2. agents' \in [Agents -> AgentRow]
  BY <1>1 DEF TypeOK, AgentRow
<1> QED
  BY <1>2 DEF UpdateAgent, TypeOK, history

\* Deleting an agent, with its runs, keeps the types.
LEMMA DeleteAgentType ==
  ASSUME TypeOK, NEW g \in Agents, DeleteAgent(g)
  PROVE  TypeOK'
<1>1. [agents[g] EXCEPT !.state = "deleted"] \in AgentRow
  BY DEF TypeOK, AgentRow
<1>2. agents' \in [Agents -> AgentRow]
  BY <1>1 DEF DeleteAgent, TypeOK
<1>3. ASSUME NEW r \in Runs
      PROVE  [runs[r] EXCEPT !.status = "deleted", !.pendingActionId = Null] \in RunRow
  <2>1. runs[r] \in RunRow
    BY DEF TypeOK
  <2>2. "deleted" \in RunStatuses
    BY DEF RunStatuses
  <2> QED
    BY <2>1, <2>2 DEF RunRow
<1>4. runs' \in [Runs -> RunRow]
  BY <1>3 DEF DeleteAgent, TypeOK
<1> QED
  BY <1>2, <1>4 DEF DeleteAgent, TypeOK, history

\* Starting a run keeps the types.
LEMMA StartRunType ==
  ASSUME TypeOK, NEW w \in Workers, NEW g \in Agents, NEW r \in Runs, StartRun(w, g, r)
  PROVE  TypeOK'
<1>1. PICK signal \in {"open", "none"} :
        workers' = [workers EXCEPT ![w] =
                      Thinking(r, agents[g].workspaceId, agents[g].tools, "ask", signal)]
  BY DEF StartRun, CreateAgentRun
<1>2. agents[g].workspaceId \in Workspaces \cup {Null} /\ agents[g].tools \in SUBSET Tools
  BY DEF TypeOK, AgentRow
<1>3. workers' \in [Workers -> Worker]
  BY <1>1, <1>2, ThinkingType DEF TypeOK
<1>4. runs' \in [Runs -> RunRow] /\ active' \in SUBSET Runs
  BY DEF StartRun, CreateAgentRun, TypeOK, RunRow, RunStatuses, Outputs
<1> QED
  BY <1>3, <1>4 DEF StartRun, CreateAgentRun, TypeOK, history

\* Every persona of a workspace has a set of tools.
LEMMA PersonasType ==
  ASSUME TypeOK, NEW ws \in Workspaces
  PROVE  Personas(ws) \subseteq SUBSET Tools
BY DEF Personas, TypeOK, AgentRow

\* Starting a chat, a task or an automation keeps the types.
LEMMA StartPlainType ==
  ASSUME TypeOK, NEW w \in Workers, StartPlain(w)
  PROVE  TypeOK'
<1>1. PICK ws \in Workspaces, phase \in {"routing", "thinking"} :
        \/ \E T \in Personas(ws), mode \in Modes :
             workers' = [workers EXCEPT
                           ![w] = [Thinking(Null, ws, T, mode, "open") EXCEPT !.phase = phase]]
        \/ workers' = [workers EXCEPT
                           ![w] = [Thinking(Null, ws, Tools, "ask", "none") EXCEPT !.phase = phase]]
  BY DEF StartPlain
<1>3. \A x \in Worker : [x EXCEPT !.phase = phase] \in Worker
  BY DEF Worker
<1>4. \A T \in Personas(ws), mode \in Modes : Thinking(Null, ws, T, mode, "open") \in Worker
  BY PersonasType, ThinkingType
<1>5. Thinking(Null, ws, Tools, "ask", "none") \in Worker
  BY ThinkingType
<1>2. workers' \in [Workers -> Worker]
  BY <1>1, <1>3, <1>4, <1>5 DEF TypeOK
<1> QED
  BY <1>2 DEF StartPlain, TypeOK, rows, history

\* Resuming a run keeps the types if the run has an agent, which the invariant says.
LEMMA ResumeRunType ==
  ASSUME TypeOK, NEW w \in Workers, NEW r \in Runs, NEW p \in Actions, ResumeRun(w, r, p),
         runs[r].agentId \in Agents
  PROVE  TypeOK'
<1> DEFINE g == runs[r].agentId
<1>1. PICK signal \in {"open", "none"} :
        ClaimAndCall(w, p, Thinking(r, agents[g].workspaceId, agents[g].tools, "ask", signal))
  BY DEF ResumeRun
<1>2. agents[g].workspaceId \in Workspaces \cup {Null} /\ agents[g].tools \in SUBSET Tools
  BY DEF TypeOK, AgentRow
<1>3. Thinking(r, agents[g].workspaceId, agents[g].tools, "ask", signal) \in Worker
  BY <1>2, ThinkingType
<1>4. /\ actions' \in [Actions -> ActionRow] /\ workers' \in [Workers -> Worker]
      /\ started' \in [Actions -> Nat] /\ startedBy' \in [Actions -> Runs \cup {Null}]
  BY <1>1, <1>3, ClaimType
<1> QED
  BY <1>4 DEF ResumeRun, TypeOK

\* Claiming a command from a chat or a task keeps the types.
LEMMA PlainResumeType ==
  ASSUME TypeOK, NEW w \in Workers, NEW p \in Actions, ChatResume(w, p) \/ TaskResume(w, p)
  PROVE  TypeOK'
<1>1. PICK ws \in Workspaces, T \in SUBSET Tools, mode \in {"ask", "auto", "bypass"},
           signal \in {"none", "open"}, lone \in BOOLEAN :
        ClaimAndCall(w, p, [Thinking(Null, ws, T, mode, signal) EXCEPT !.lone = lone])
  <2>1. CASE ChatResume(w, p)
    BY <2>1, PersonasType DEF ChatResume
  <2>2. CASE TaskResume(w, p)
    BY <2>2 DEF TaskResume
  <2> QED
    BY <2>1, <2>2
<1>2. Thinking(Null, ws, T, mode, signal) \in Worker
  BY ThinkingType
<1>3. [Thinking(Null, ws, T, mode, signal) EXCEPT !.lone = lone] \in Worker
  BY <1>2 DEF Worker
<1>4. /\ actions' \in [Actions -> ActionRow] /\ workers' \in [Workers -> Worker]
      /\ started' \in [Actions -> Nat] /\ startedBy' \in [Actions -> Runs \cup {Null}]
  BY <1>1, <1>3, ClaimType
<1> QED
  BY <1>4 DEF ChatResume, TaskResume, TypeOK

\* Closing a run instead of resuming it keeps the types.
LEMMA ResumeClosesType ==
  ASSUME TypeOK, NEW r \in Runs, NEW p \in Actions, ResumeRefused(r, p) \/ ResumeSettled(r, p)
  PROVE  TypeOK'
<1>1. \E status \in RunStatuses, output \in Outputs, q \in Actions \cup {Null} :
        UpdateRun(r, status, output, q)
  BY DEF ResumeRefused, ResumeSettled, RunStatuses, Outputs
<1>2. runs' \in [Runs -> RunRow]
  BY <1>1, UpdateRunType DEF TypeOK
<1> QED
  BY <1>2 DEF ResumeRefused, ResumeSettled, TypeOK, history

\* A closed connection keeps the types.
LEMMA AbortType ==
  ASSUME TypeOK, NEW w \in Workers, Abort(w)
  PROVE  TypeOK'
<1>1. workers' \in [Workers -> Worker]
  BY DEF Abort, TypeOK, Worker
<1> QED
  BY <1>1 DEF Abort, TypeOK, rows, history

\* The row of a new command is a proper row.
LEMMA CreateActionType ==
  ASSUME TypeOK, NEW w \in Workers, NEW p \in Actions, NEW tool \in Tools, CreateAction(w, p, tool)
  PROVE  actions' \in [Actions -> ActionRow]
<1>1. workers[w].workspaceId \in Workspaces \cup {Null}
  BY DEF TypeOK, Worker
<1> QED
  BY <1>1 DEF CreateAction, TypeOK, ActionRow

\* A step of a request in progress keeps the types.
LEMMA StepType ==
  ASSUME TypeOK, NEW w \in Workers, Step(w)
  PROVE  TypeOK'
<1>1. CASE Route(w)
  <2>1. CASE LoopBack(w)
    BY <1>1, <2>1, LoopBackType DEF Route, TypeOK, history
  <2>2. CASE SaveRun(w, "completed", "result", Null)
    BY <1>1, <2>2, SaveRunType DEF Route, TypeOK, history
  <2> QED
    BY <1>1, <2>1, <2>2 DEF Route
<1>6. CASE Answer(w)
  BY <1>6, SaveRunType DEF Answer, TypeOK, history
<1>7. CASE Finish(w)
  <2>1. PICK status \in {"completed", "error"} : SaveRun(w, status, "result", Null)
    BY <1>7 DEF Finish
  <2> QED
    BY <1>7, <2>1, SaveRunType DEF Finish, TypeOK, history
<1>2. CASE Retry(w)
  BY <1>2, LoopBackType DEF Retry, TypeOK, history
<1>3. ASSUME NEW tool \in Tools, CallTool(w, tool)
      PROVE  TypeOK'
  <2>1. CASE SaveRun(w, "error", "result", Null)
    BY <1>3, <2>1, SaveRunType DEF CallTool, TypeOK, history
  <2>2. CASE /\ workers' = [workers EXCEPT ![w].phase = "calling", ![w].tool = tool]
             /\ UNCHANGED <<runs, active>>
    <3>1. [workers[w] EXCEPT !.phase = "calling", !.tool = tool] \in Worker
      <4>1. workers[w] \in Worker
        BY DEF TypeOK
      <4> QED
        BY <4>1 DEF Worker
    <3>2. workers' \in [Workers -> Worker]
      BY <2>2, <3>1 DEF TypeOK
    <3> QED
      BY <1>3, <2>2, <3>2 DEF CallTool, TypeOK, history
  <2> QED
    BY <1>3, <2>1, <2>2 DEF CallTool
<1>4. ASSUME NEW p \in Actions, NEW tool \in Tools, ProposeAction(w, p, tool)
      PROVE  TypeOK'
  <2>1. actions' \in [Actions -> ActionRow]
    BY <1>4, CreateActionType DEF ProposeAction
  <2> QED
    BY <1>4, <2>1, SaveRunType DEF ProposeAction, TypeOK, history
<1>5. CASE ToolReturns(w)
  <2>1. CASE LoopBack(w)
    BY <1>5, <2>1, LoopBackType DEF ToolReturns, TypeOK, history
  <2>2. ASSUME NEW status \in {"completed", "error"}, SaveRun(w, status, "result", Null)
        PROVE  TypeOK'
    BY <1>5, <2>2, SaveRunType DEF ToolReturns, TypeOK, history
  <2> QED
    BY <1>5, <2>1, <2>2 DEF ToolReturns
<1> QED
  BY <1>1, <1>2, <1>3, <1>4, <1>5, <1>6, <1>7 DEF Step, ScanRepo

\* A failed log write keeps the types.
LEMMA LogWriteFailsType ==
  ASSUME TypeOK, NEW w \in Workers, LogWriteFails(w)
  PROVE  TypeOK'
<1>1. workers[w].claimed \in Actions \cup {Null}
  BY DEF TypeOK, Worker
<1>2. faults' \in 0 .. MaxFaults
  BY DEF LogWriteFails, TypeOK
<1> QED
  BY <1>1, <1>2, SaveRunType DEF LogWriteFails, TypeOK, history

\* The user's decision keeps the types.
LEMMA DecideType ==
  ASSUME TypeOK, NEW p \in Actions, Approve(p) \/ Reject(p)
  PROVE  TypeOK'
<1>1. actions' \in [Actions -> ActionRow]
  BY DEF Approve, Reject, TypeOK, ActionRow
<1>2. decision' \in [Actions -> {"none", "approved", "rejected"}]
  BY DEF Approve, Reject, TypeOK
<1>3. runs' \in [Runs -> RunRow]
  <2>1. CASE UNCHANGED runs
    BY <2>1 DEF TypeOK
  <2>2. ASSUME NEW r \in Runs, UpdateRun(r, "cancelled", "denied", Null)
        PROVE  runs' \in [Runs -> RunRow]
    BY <2>2, UpdateRunType DEF TypeOK, RunStatuses, Outputs
  <2> QED
    BY <2>1, <2>2 DEF Approve, Reject
<1> QED
  BY <1>1, <1>2, <1>3 DEF Approve, Reject, TypeOK

\* A restart leaves proper requests and an active set.
LEMMA RestartType ==
  ASSUME TypeOK, Restart
  PROVE  faults' \in 0 .. MaxFaults /\ active' \in SUBSET Runs /\ workers' \in [Workers -> Worker]
BY IdleType DEF Restart, TypeOK

\* A crash at any point keeps the types.
LEMMA CrashType ==
  ASSUME TypeOK,
         \/ Crash
         \/ \E p \in Actions : CrashAfterClaim(p) \/ CrashAfterReject(p)
         \/ \E w \in Workers, p \in Actions, tool \in Tools : CrashAfterPropose(w, p, tool)
  PROVE  TypeOK'
<1>1. CASE Crash
  BY <1>1, RestartType DEF Crash, TypeOK, rows, history
<1>2. ASSUME NEW p \in Actions, CrashAfterClaim(p)
      PROVE  TypeOK'
  <2>1. actions' \in [Actions -> ActionRow]
    BY <1>2 DEF CrashAfterClaim, TypeOK, ActionRow
  <2> QED
    BY <1>2, <2>1, RestartType DEF CrashAfterClaim, TypeOK, history
<1>3. ASSUME NEW p \in Actions, CrashAfterReject(p)
      PROVE  TypeOK'
  <2>1. actions' \in [Actions -> ActionRow]
    BY <1>3 DEF CrashAfterReject, TypeOK, ActionRow
  <2>2. decision' \in [Actions -> {"none", "approved", "rejected"}]
    BY <1>3 DEF CrashAfterReject, TypeOK
  <2> QED
    BY <1>3, <2>1, <2>2, RestartType DEF CrashAfterReject, TypeOK
<1>4. ASSUME NEW w \in Workers, NEW p \in Actions, NEW tool \in Tools,
             CrashAfterPropose(w, p, tool)
      PROVE  TypeOK'
  <2>1. actions' \in [Actions -> ActionRow]
    BY <1>4, CreateActionType DEF CrashAfterPropose
  <2> QED
    BY <1>4, <2>1, RestartType DEF CrashAfterPropose, TypeOK, history
<1> QED
  BY <1>1, <1>2, <1>3, <1>4

-----------------------------------------------------------------------------
(* What the shared pieces of the actions do to the fields the invariants look at. *)

\* A row of pending_actions never disappears and never changes what it asks for; once the
\* command is executed it stays so.
ActionsGrow ==
  \A p \in Actions : actions[p].status # "none" =>
    /\ actions'[p].status # "none"
    /\ actions'[p].workspaceId = actions[p].workspaceId
    /\ actions'[p].tool = actions[p].tool
    /\ actions[p].status = "executed" => actions'[p].status = "executed"

\* Agents in use keep their workspace.
AgentsStay ==
  \A g \in Agents : agents[g].state # "absent" =>
    agents'[g].state # "absent" /\ agents'[g].workspaceId = agents[g].workspaceId

\* An UPDATE touches one row, never its agent, and nothing when the row was deleted.
LEMMA UpdateRunEffect ==
  ASSUME TypeOK, NEW r \in Runs, NEW status, NEW output, NEW p, UpdateRun(r, status, output, p)
  PROVE  /\ \A q \in Runs : runs'[q].agentId = runs[q].agentId
         /\ \A q \in Runs : q # r => runs'[q] = runs[q]
         /\ runs[r].status = "deleted" => runs'[r] = runs[r]
         /\ runs[r].status # "deleted" => runs'[r].status = status /\ runs'[r].pendingActionId = p
<1>1. runs \in [Runs -> RunRow]
  BY DEF TypeOK
<1> QED
  BY <1>1 DEF UpdateRun, RunRow

\* The rows of agent_runs stay in order under an update that names an action only together
\* with the status that says so.
LEMMA UpdateRunFits ==
  ASSUME TypeOK, RowsFit, WaitingFits, ActionsGrow, AgentsStay,
         NEW r \in Runs, runs[r].agentId # Null,
         NEW status \in RunStatuses \ {"none"}, NEW output, NEW p \in Actions \cup {Null},
         UpdateRun(r, status, output, p),
         status = "awaiting_approval" <=> p # Null,
         p # Null => /\ actions'[p].status # "none"
                     /\ actions'[p].workspaceId = agents[runs[r].agentId].workspaceId
                     /\ actions'[p].tool \in Dangerous
                     /\ \A q \in Runs \ {r} : ~WaitsFor(q, p)
  PROVE  RowsFit' /\ WaitingFits'
<1>1. \A q \in Runs : runs[q].agentId \in Agents \cup {Null}
  BY DEF TypeOK, RunRow
<1>2. Null \notin Actions
  OBVIOUS
<1>3. RowsFit'
  BY <1>1, <1>2, UpdateRunEffect DEF RowsFit, WaitsFor, ActionsGrow, AgentsStay
<1>4. WaitingFits'
  BY <1>1, <1>2, UpdateRunEffect DEF RowsFit, WaitingFits, WaitsFor, ActionsGrow, AgentsStay
<1> QED
  BY <1>3, <1>4

\* The rows of agent_runs stay in order when the other tables only grow.
LEMMA RowsStay ==
  ASSUME TypeOK, RowsFit, WaitingFits, ActionsGrow, AgentsStay, UNCHANGED runs
  PROVE  RowsFit' /\ WaitingFits'
<1>1. \A q \in Runs : runs[q].agentId \in Agents \cup {Null}
  BY DEF TypeOK, RunRow
<1> QED
  BY <1>1 DEF RowsFit, WaitingFits, WaitsFor, ActionsGrow, AgentsStay

\* A table of approvals that does not change grows.
LEMMA SameActionsGrow == UNCHANGED actions => ActionsGrow
BY DEF ActionsGrow

\* Agents that do not change stay.
LEMMA SameAgentsStay == UNCHANGED agents => AgentsStay
BY DEF AgentsStay

\* The fields of a free slot.
LEMMA IdleFields == Idle.run = Null /\ Idle.claimed = Null /\ Idle.phase = "idle"
BY DEF Idle

\* The fields of a request that begins.
LEMMA ThinkingFields ==
  ASSUME NEW r, NEW ws, NEW T, NEW mode, NEW signal
  PROVE  /\ Thinking(r, ws, T, mode, signal).run = r
         /\ Thinking(r, ws, T, mode, signal).workspaceId = ws
         /\ Thinking(r, ws, T, mode, signal).claimed = Null
BY DEF Thinking, Idle

-----------------------------------------------------------------------------
(* The requests in progress, after a step that works on request w alone. *)

\* The job of request v is untouched: what it works on, where, and for which claim.
SameJob(v) ==
  /\ workers'[v].phase = "idle" => workers[v].phase = "idle"
  /\ workers'[v].run = workers[v].run
  /\ workers'[v].workspaceId = workers[v].workspaceId
  /\ workers'[v].claimed = workers[v].claimed

\* Request v still fits.
Fits(v) == LET x == workers[v] IN
  /\ x.phase = "idle" => x.run = Null
  /\ x.claimed # Null => actions[x.claimed].status = "executed"
  /\ x.run # Null =>
       /\ runs[x.run].agentId # Null
       /\ x.workspaceId = agents[runs[x.run].agentId].workspaceId
       /\ x.claimed # Null => runs[x.run].status = "deleted" \/ WaitsFor(x.run, x.claimed)

\* A request whose job is untouched still fits, if its row is the same or was deleted.
LEMMA OthersFit ==
  ASSUME TypeOK, RowsFit, InProgressFits, ActionsGrow, AgentsStay,
         NEW v \in Workers, SameJob(v),
         LET r == workers[v].run IN r # Null =>
           \/ runs'[r] = runs[r]
           \/ runs'[r].agentId = runs[r].agentId /\ runs'[r].status = "deleted"
  PROVE  Fits(v)'
<1>1. workers[v].run \in Runs \cup {Null} /\ workers[v].claimed \in Actions \cup {Null}
  BY DEF TypeOK, Worker
<1>2. \A r \in Runs : runs[r].agentId \in Agents \cup {Null}
  BY DEF TypeOK, RunRow
<1>3. Fits(v)
  BY DEF InProgressFits, Fits
<1> QED
  BY <1>1, <1>2, <1>3 DEF Fits, SameJob, RowsFit, ActionsGrow, AgentsStay, WaitsFor

\* InProgressFits holds when each request fits.
LEMMA AllFit == (\A v \in Workers : Fits(v)') => InProgressFits'
BY DEF Fits, InProgressFits

-----------------------------------------------------------------------------
(* The active set. *)

\* The active set stays right when nobody takes up or leaves a run.
LEMMA SameRunsActive ==
  ASSUME TypeOK, ActiveIsInProgress, UNCHANGED active,
         \A v \in Workers : workers'[v].run = workers[v].run
  PROVE  ActiveIsInProgress'
BY DEF ActiveIsInProgress

\* The active set stays right when a request ends.
LEMMA SaveRunActive ==
  ASSUME TypeOK, ActiveIsInProgress, NEW w \in Workers,
         NEW status, NEW output, NEW p, SaveRun(w, status, output, p)
  PROVE  ActiveIsInProgress'
<1>1. workers'[w].run = Null /\ \A v \in Workers \ {w} : workers'[v] = workers[v]
  BY IdleFields DEF SaveRun, TypeOK
<1>2. active' = active \ {workers[w].run}
  BY DEF SaveRun
<1>3. \A v \in Workers \ {w} : workers[v].run = workers[w].run => workers[v].run = Null
  BY DEF ActiveIsInProgress
<1> QED
  BY <1>1, <1>2, <1>3 DEF ActiveIsInProgress

\* The active set stays right when a free slot takes up a run that nobody works on.
LEMMA JoinActive ==
  ASSUME TypeOK, ActiveIsInProgress, NEW w \in Workers, NEW r \in Runs, r \notin active,
         workers[w].run = Null, workers'[w].run = r,
         \A v \in Workers \ {w} : workers'[v] = workers[v],
         active' = active \cup {r}
  PROVE  ActiveIsInProgress'
<1>1. \A v \in Workers : workers[v].run # r
  BY DEF ActiveIsInProgress
<1>2. r # Null
  OBVIOUS
<1> QED
  BY <1>1, <1>2 DEF ActiveIsInProgress

\* The empty active set is right after a restart.
LEMMA RestartActive ==
  ASSUME Restart
  PROVE  ActiveIsInProgress'
BY IdleFields DEF Restart, ActiveIsInProgress

\* A run that is not active is nobody's.
LEMMA NotActive ==
  ASSUME ActiveIsInProgress, NEW r \in Runs, r \notin active
  PROVE  \A v \in Workers : workers[v].run # r
BY DEF ActiveIsInProgress

\* A free slot fits.
LEMMA IdleFits == ASSUME NEW v \in Workers, workers'[v] = Idle PROVE Fits(v)'
BY IdleFields DEF Fits

\* A request that ends leaves everything in order, if the action its run then waits for is one
\* of its own workspace that nobody else waits for.
LEMMA SaveRunFits ==
  ASSUME TypeOK, IInv, ActionsGrow, AgentsStay, NEW w \in Workers,
         NEW status \in {"completed", "error"}, NEW p \in Actions \cup {Null},
         SaveRun(w, status, "result", p),
         LET x == workers[w] IN
           p # Null /\ x.run # Null /\ runs[x.run].status # "deleted" =>
             /\ actions'[p].status # "none"
             /\ actions'[p].workspaceId = x.workspaceId
             /\ actions'[p].tool \in Dangerous
             /\ \A q \in Runs \ {x.run} : ~WaitsFor(q, p)
  PROVE  RowsFit' /\ WaitingFits' /\ ActiveIsInProgress' /\ InProgressFits'
<1> DEFINE r == workers[w].run
<1>1. /\ workers[w].run \in Runs \cup {Null}
      /\ workers'[w] = Idle
      /\ \A v \in Workers \ {w} : workers'[v] = workers[v]
  BY DEF SaveRun, TypeOK, Worker
<1>2. CASE r = Null
  <2>1. UNCHANGED runs
    BY <1>2 DEF SaveRun
  <2>2. RowsFit' /\ WaitingFits'
    BY <2>1, RowsStay DEF IInv
  <2>3. \A v \in Workers \ {w} : Fits(v)'
    BY <1>1, <2>1, OthersFit DEF IInv, SameJob
  <2> QED
    BY <1>1, <2>2, <2>3, IdleFits, AllFit, SaveRunActive DEF IInv
<1>3. CASE r # Null
  <2>1. r \in Runs
    BY <1>1, <1>3
  <2>2. /\ runs[r].agentId # Null
        /\ workers[w].workspaceId = agents[runs[r].agentId].workspaceId
    BY <1>3 DEF IInv, InProgressFits
  <2>3. PICK st \in RunStatuses \ {"none"}, o \in Outputs, q \in {Null, p} :
          UpdateRun(r, st, o, q) /\ (st = "awaiting_approval" <=> q # Null)
    BY <1>3 DEF SaveRun, RunStatuses, Outputs
  <2>4. RowsFit' /\ WaitingFits'
    <3>1. CASE runs[r].status = "deleted"
      <4>1. runs' = runs
        BY <2>1, <2>3, <3>1 DEF UpdateRun, TypeOK
      <4> QED
        BY <4>1, RowsStay DEF IInv
    <3>2. CASE runs[r].status # "deleted"
      BY <2>1, <2>2, <2>3, <3>2, <1>3, UpdateRunFits DEF IInv
    <3> QED
      BY <3>1, <3>2
  <2>5. \A v \in Workers \ {w} : workers[v].run # Null => runs'[workers[v].run] = runs[workers[v].run]
    <3>1. \A v \in Workers \ {w} : workers[v].run # Null => workers[v].run # r
      BY <1>3 DEF IInv, ActiveIsInProgress
    <3>2. \A v \in Workers : workers[v].run \in Runs \cup {Null}
      BY DEF TypeOK, Worker
    <3> QED
      BY <2>1, <2>3, <3>1, <3>2, UpdateRunEffect
  <2>6. \A v \in Workers \ {w} : Fits(v)'
    BY <1>1, <2>5, OthersFit DEF IInv, SameJob
  <2> QED
    BY <1>1, <2>4, <2>6, IdleFits, AllFit, SaveRunActive DEF IInv
<1> QED
  BY <1>2, <1>3

\* A request that goes on forgets the command it had claimed.
LEMMA GoOnFits ==
  ASSUME TypeOK, IInv, ActionsGrow, AgentsStay, NEW w \in Workers, GoOn(w)
  PROVE  RowsFit' /\ WaitingFits' /\ ActiveIsInProgress' /\ InProgressFits'
<1>1. UNCHANGED <<runs, active>>
  BY DEF GoOn
<1>2. /\ workers'[w].phase = "thinking" /\ workers'[w].claimed = Null
      /\ workers'[w].run = workers[w].run /\ workers'[w].workspaceId = workers[w].workspaceId
      /\ \A v \in Workers \ {w} : workers'[v] = workers[v]
  BY DEF GoOn, TypeOK, Worker
<1>3. \A v \in Workers \ {w} : Fits(v)'
  BY <1>1, <1>2, OthersFit DEF IInv, SameJob
<1>4. Fits(w)'
  <2>1. workers[w].run \in Runs \cup {Null}
    BY DEF TypeOK, Worker
  <2>2. \A r \in Runs : runs[r].agentId \in Agents \cup {Null}
    BY DEF TypeOK, RunRow
  <2>3. Fits(w)
    BY DEF IInv, InProgressFits, Fits
  <2> QED
    BY <1>1, <1>2, <2>1, <2>2, <2>3 DEF Fits, IInv, RowsFit, AgentsStay
<1> QED
  BY <1>1, <1>2, <1>3, <1>4, AllFit, RowsStay, SameRunsActive DEF IInv

\* Going back to the top of the loop, or ending there, leaves everything in order.
LEMMA LoopBackFits ==
  ASSUME TypeOK, IInv, UNCHANGED <<actions, agents>>, NEW w \in Workers, LoopBack(w)
  PROVE  RowsFit' /\ WaitingFits' /\ ActiveIsInProgress' /\ InProgressFits'
<1>1. ActionsGrow /\ AgentsStay
  BY SameActionsGrow, SameAgentsStay
<1> QED
  BY <1>1, GoOnFits, SaveRunFits DEF LoopBack

-----------------------------------------------------------------------------
(* The invariant without the ledger, action by action. *)

\* The tables of runs and agents, the active set and the requests agree.
Order == RowsFit /\ WaitingFits /\ ActiveIsInProgress /\ InProgressFits

\* A step that leaves the runs and the jobs alone leaves everything in order.
LEMMA QuietFits ==
  ASSUME TypeOK, IInv, ActionsGrow, AgentsStay, UNCHANGED <<runs, active>>,
         \A v \in Workers : SameJob(v)
  PROVE  Order'
<1>1. \A v \in Workers : Fits(v)'
  BY OthersFit DEF IInv
<1>2. \A v \in Workers : workers'[v].run = workers[v].run
  BY DEF SameJob
<1> QED
  BY <1>1, <1>2, AllFit, RowsStay, SameRunsActive DEF IInv, Order

\* Untouched requests keep their jobs.
LEMMA SameWorkersSameJobs == UNCHANGED workers => \A v \in Workers : SameJob(v)
BY DEF SameJob

\* Creating and editing an agent: requests in progress are not concerned.
LEMMA EditAgentFits ==
  ASSUME TypeOK, IInv, NEW g \in Agents, CreateAgent(g) \/ UpdateAgent(g)
  PROVE  Order'
<1>1. AgentsStay
  <2>1. CASE CreateAgent(g)
    <3>1. agents[g].state = "absent" /\ \A h \in Agents \ {g} : agents'[h] = agents[h]
      BY <2>1 DEF CreateAgent, TypeOK
    <3> QED
      BY <3>1 DEF AgentsStay
  <2>2. CASE UpdateAgent(g)
    <3>1. PICK T \in SUBSET Tools : agents' = [agents EXCEPT ![g].tools = T]
      BY <2>2 DEF UpdateAgent
    <3>2. \A h \in Agents : /\ agents'[h].state = agents[h].state
                            /\ agents'[h].workspaceId = agents[h].workspaceId
      BY <3>1 DEF TypeOK, AgentRow
    <3> QED
      BY <3>2 DEF AgentsStay
  <2> QED
    BY <2>1, <2>2
<1>2. UNCHANGED <<actions, runs, active, workers>>
  BY DEF CreateAgent, UpdateAgent
<1> QED
  BY <1>1, <1>2, SameActionsGrow, SameWorkersSameJobs, QuietFits

\* Deleting an agent: its runs wait for nothing, and requests that work on them go on.
LEMMA DeleteAgentFits ==
  ASSUME TypeOK, IInv, NEW g \in Agents, DeleteAgent(g)
  PROVE  Order'
<1>1. AgentsStay
  <2>1. agents' = [agents EXCEPT ![g].state = "deleted"]
    BY DEF DeleteAgent
  <2>2. \A h \in Agents : /\ agents'[h].state \in {agents[h].state, "deleted"}
                          /\ agents'[h].workspaceId = agents[h].workspaceId
    BY <2>1 DEF TypeOK, AgentRow
  <2> QED
    BY <2>2 DEF AgentsStay
<1>2. ActionsGrow
  BY SameActionsGrow DEF DeleteAgent
<1>3. ASSUME NEW r \in Runs
      PROVE  /\ runs'[r].agentId = runs[r].agentId
             /\ \/ runs'[r] = runs[r]
                \/ /\ runs[r].agentId = g
                   /\ runs'[r].status = "deleted" /\ runs'[r].pendingActionId = Null
  <2>1. runs[r] \in RunRow
    BY DEF TypeOK
  <2>2. CASE runs[r].agentId = g
    BY <2>1, <2>2 DEF DeleteAgent, RunRow
  <2>3. CASE runs[r].agentId # g
    BY <2>3 DEF DeleteAgent
  <2> QED
    BY <2>2, <2>3
<1>4. \A r \in Runs : runs[r].agentId \in Agents \cup {Null}
  BY DEF TypeOK, RunRow
<1>5. g # Null /\ Null \notin Actions
  OBVIOUS
<1>6. RowsFit' /\ WaitingFits'
  BY <1>1, <1>2, <1>3, <1>4, <1>5
     DEF IInv, RowsFit, WaitingFits, WaitsFor, ActionsGrow, AgentsStay
<1>7. UNCHANGED <<active, workers>>
  BY DEF DeleteAgent
<1>8. \A v \in Workers : workers[v].run \in Runs \cup {Null}
  BY DEF TypeOK, Worker
<1>9. \A v \in Workers : Fits(v)'
  BY <1>1, <1>2, <1>3, <1>7, <1>8, SameWorkersSameJobs, OthersFit DEF IInv
<1> QED
  BY <1>6, <1>7, <1>9, AllFit, SameRunsActive DEF Order, IInv

\* A run that does not exist yet is nobody's.
LEMMA NewRunIsFree ==
  ASSUME TypeOK, IInv, NEW r \in Runs, runs[r].status = "none"
  PROVE  /\ r \notin active
         /\ \A v \in Workers : workers[v].run # r
         /\ runs[r].pendingActionId = Null
<1>1. r # Null
  OBVIOUS
<1>2. \A v \in Workers : workers[v].run # r
  BY <1>1 DEF IInv, RowsFit, InProgressFits
<1> QED
  BY <1>2 DEF IInv, WaitingFits, ActiveIsInProgress

\* Starting a run: a fresh row, a fresh member of the active set.
LEMMA StartRunFits ==
  ASSUME TypeOK, IInv, NEW w \in Workers, NEW g \in Agents, NEW r \in Runs, StartRun(w, g, r)
  PROVE  Order'
<1>1. PICK signal \in {"open", "none"} :
        workers' = [workers EXCEPT ![w] =
                      Thinking(r, agents[g].workspaceId, agents[g].tools, "ask", signal)]
  BY DEF StartRun, CreateAgentRun
<1>2. /\ workers'[w].run = r /\ workers'[w].claimed = Null
      /\ workers'[w].workspaceId = agents[g].workspaceId /\ workers'[w].phase = "thinking"
  BY <1>1, ThinkingFields DEF TypeOK, Thinking, Idle
<1>3. \A v \in Workers \ {w} : workers'[v] = workers[v]
  BY <1>1 DEF TypeOK
<1>4. ActionsGrow /\ AgentsStay
  BY SameActionsGrow, SameAgentsStay DEF StartRun, CreateAgentRun
<1>5. /\ r \notin active /\ runs[r].pendingActionId = Null
      /\ \A v \in Workers : workers[v].run # r
  BY NewRunIsFree DEF StartRun, CreateAgentRun
<1>6. workers[w].run = Null
  BY DEF StartRun, CreateAgentRun, IInv, InProgressFits
<1>7. /\ \A q \in Runs \ {r} : runs'[q] = runs[q]
      /\ runs'[r].status = "error" /\ runs'[r].agentId = g /\ runs'[r].pendingActionId = Null
      /\ agents[g].state = "present" /\ UNCHANGED <<agents, actions>> /\ active' = active \cup {r}
  BY DEF StartRun, CreateAgentRun, TypeOK
<1>8. RowsFit' /\ WaitingFits'
  <2>1. g # Null /\ Null \notin Actions
    OBVIOUS
  <2> QED
    BY <1>7, <2>1 DEF IInv, RowsFit, WaitingFits, WaitsFor
<1>9. ActiveIsInProgress'
  BY <1>2, <1>3, <1>5, <1>6, <1>7, JoinActive DEF IInv
<1>10. \A v \in Workers \ {w} : Fits(v)'
  <2>1. \A v \in Workers : workers[v].run \in Runs \cup {Null}
    BY DEF TypeOK, Worker
  <2> QED
    BY <2>1, <1>3, <1>4, <1>5, <1>7, OthersFit DEF IInv, SameJob
<1>11. Fits(w)'
  <2>1. g # Null
    OBVIOUS
  <2> QED
    BY <1>2, <1>7, <2>1 DEF Fits
<1> QED
  BY <1>8, <1>9, <1>10, <1>11, AllFit DEF Order

\* Starting a chat or a task touches no row.
LEMMA StartPlainFits ==
  ASSUME TypeOK, IInv, NEW w \in Workers, StartPlain(w)
  PROVE  Order'
<1>1. PICK ws, T, mode, signal, phase :
        workers' = [workers EXCEPT
                      ![w] = [Thinking(Null, ws, T, mode, signal) EXCEPT !.phase = phase]]
  BY DEF StartPlain
<1>2. workers'[w].run = Null /\ workers'[w].claimed = Null
  BY <1>1 DEF TypeOK, Thinking, Idle
<1>3. \A v \in Workers \ {w} : workers'[v] = workers[v]
  BY <1>1 DEF TypeOK
<1>4. UNCHANGED <<actions, agents, runs, active>>
  BY DEF StartPlain, rows
<1>5. ActionsGrow /\ AgentsStay
  BY <1>4, SameActionsGrow, SameAgentsStay
<1>6. workers[w].run = Null
  BY DEF StartPlain, IInv, InProgressFits
<1>7. \A v \in Workers \ {w} : Fits(v)'
  BY <1>3, <1>4, <1>5, OthersFit DEF IInv, SameJob
<1>8. Fits(w)'
  BY <1>2 DEF Fits
<1> QED
  BY <1>2, <1>3, <1>4, <1>5, <1>6, <1>7, <1>8, AllFit, RowsStay, SameRunsActive DEF IInv, Order

\* What a claim changes.
LEMMA ClaimEffect ==
  ASSUME TypeOK, IInv, NEW w \in Workers, NEW p \in Actions, NEW x \in Worker,
         actions[p].status = "approved", ClaimAndCall(w, p, x)
  PROVE  /\ ActionsGrow
         /\ actions'[p].status = "executed"
         /\ \A v \in Workers \ {w} : workers'[v] = workers[v]
         /\ workers'[w].run = x.run /\ workers'[w].workspaceId = x.workspaceId
         /\ workers'[w].claimed = p /\ workers'[w].phase = "calling"
<1>1. /\ \A q \in Actions \ {p} : actions'[q] = actions[q]
      /\ actions'[p].status = "executed"
      /\ actions'[p].workspaceId = actions[p].workspaceId
      /\ actions'[p].tool = actions[p].tool
  BY DEF ClaimAndCall, TypeOK, ActionRow
<1>2. workers' = [workers EXCEPT ![w] = [x EXCEPT !.phase = "calling", !.claimed = p,
                                                  !.tool = actions[p].tool]]
  BY DEF ClaimAndCall
<1>3. /\ \A v \in Workers \ {w} : workers'[v] = workers[v]
      /\ workers'[w].run = x.run /\ workers'[w].workspaceId = x.workspaceId
      /\ workers'[w].claimed = p /\ workers'[w].phase = "calling"
  BY <1>2 DEF TypeOK, Worker
<1>4. ActionsGrow
  BY <1>1 DEF ActionsGrow
<1> QED
  BY <1>1, <1>3, <1>4

\* Resuming a run: it was not active, and its row goes on waiting while the command runs.
LEMMA ResumeRunFits ==
  ASSUME TypeOK, IInv, NEW w \in Workers, NEW r \in Runs, NEW p \in Actions, ResumeRun(w, r, p)
  PROVE  Order'
<1> DEFINE g == runs[r].agentId
           x(signal) == Thinking(r, agents[g].workspaceId, agents[g].tools, "ask", signal)
<1>1. PICK signal \in {"open", "none"} : ClaimAndCall(w, p, x(signal))
  BY DEF ResumeRun
<1>2. g \in Agents
  <2>1. runs[r].status # "none"
    BY DEF ResumeRun, IInv, WaitingFits, WaitsFor
  <2> QED
    BY <2>1 DEF IInv, RowsFit, TypeOK, RunRow
<1>3. x(signal) \in Worker
  BY <1>2, ThinkingType DEF TypeOK, AgentRow
<1>4. x(signal).run = r /\ x(signal).workspaceId = agents[g].workspaceId
  BY ThinkingFields
<1> HIDE DEF x
<1>5. actions[p].status = "approved"
  BY DEF ResumeRun, MayClaim
<1>6. /\ ActionsGrow /\ actions'[p].status = "executed"
      /\ \A v \in Workers \ {w} : workers'[v] = workers[v]
      /\ workers'[w].run = r /\ workers'[w].workspaceId = agents[g].workspaceId
      /\ workers'[w].claimed = p /\ workers'[w].phase = "calling"
  BY <1>1, <1>3, <1>4, <1>5, ClaimEffect
<1>7. UNCHANGED <<agents, runs>> /\ active' = active \cup {r} /\ r \notin active /\ WaitsFor(r, p)
  BY DEF ResumeRun, InProgress
<1>8. workers[w].run = Null
  BY DEF ResumeRun, IInv, InProgressFits
<1>9. ActiveIsInProgress'
  BY <1>6, <1>7, <1>8, JoinActive DEF IInv
<1>10. \A v \in Workers \ {w} : Fits(v)'
  BY <1>6, <1>7, SameAgentsStay, OthersFit DEF IInv, SameJob
<1>11. Fits(w)'
  <2>1. g # Null
    BY <1>2
  <2> QED
    BY <1>6, <1>7, <2>1 DEF Fits, WaitsFor
<1>12. RowsFit' /\ WaitingFits'
  BY <1>6, <1>7, SameAgentsStay, RowsStay DEF IInv
<1> QED
  BY <1>9, <1>10, <1>11, <1>12, AllFit DEF Order

\* A chat or a task that claims a command works on no run.
LEMMA PlainResumeFits ==
  ASSUME TypeOK, IInv, NEW w \in Workers, NEW p \in Actions, ChatResume(w, p) \/ TaskResume(w, p)
  PROVE  Order'
<1>1. PICK ws \in Workspaces, T \in SUBSET Tools, mode \in {"ask", "auto", "bypass"},
           signal \in {"none", "open"}, lone \in BOOLEAN :
        /\ MayClaim(p, ws)
        /\ ClaimAndCall(w, p, [Thinking(Null, ws, T, mode, signal) EXCEPT !.lone = lone])
  BY PersonasType DEF ChatResume, TaskResume
<1> DEFINE x == [Thinking(Null, ws, T, mode, signal) EXCEPT !.lone = lone]
<1>2. x \in Worker /\ x.run = Null
  <2>1. Thinking(Null, ws, T, mode, signal) \in Worker /\ Thinking(Null, ws, T, mode, signal).run = Null
    BY ThinkingType, ThinkingFields
  <2> QED
    BY <2>1 DEF Worker
<1>3. actions[p].status = "approved" /\ ClaimAndCall(w, p, x)
  BY <1>1 DEF MayClaim
<1> HIDE DEF x
<1>4. /\ ActionsGrow /\ actions'[p].status = "executed"
      /\ \A v \in Workers \ {w} : workers'[v] = workers[v]
      /\ workers'[w].run = Null /\ workers'[w].claimed = p
  BY <1>2, <1>3, ClaimEffect
<1>5. UNCHANGED <<agents, runs, active>> /\ workers[w].run = Null
  BY DEF ChatResume, TaskResume, IInv, InProgressFits
<1>6. \A v \in Workers \ {w} : Fits(v)'
  BY <1>4, <1>5, SameAgentsStay, OthersFit DEF IInv, SameJob
<1>7. Fits(w)'
  BY <1>4 DEF Fits
<1>8. RowsFit' /\ WaitingFits'
  BY <1>4, <1>5, SameAgentsStay, RowsStay DEF IInv
<1>9. ActiveIsInProgress'
  BY <1>4, <1>5, SameRunsActive DEF IInv
<1> QED
  BY <1>6, <1>7, <1>8, <1>9, AllFit DEF Order

\* A run nobody works on is closed: everything stays in order.
LEMMA CloseRunFits ==
  ASSUME TypeOK, IInv, ActionsGrow, AgentsStay, UNCHANGED <<active, workers>>,
         NEW r \in Runs, runs[r].agentId # Null,
         NEW status \in {"error", "cancelled", "completed"}, NEW output,
         UpdateRun(r, status, output, Null),
         \A v \in Workers : workers[v].run = r =>
           workers[v].claimed = Null \/ runs'[r].status = "deleted"
  PROVE  Order'
<1>1. RowsFit' /\ WaitingFits'
  BY UpdateRunFits DEF IInv, RunStatuses
<1>2. r # Null
  OBVIOUS
<1>3. \A q \in Runs : /\ runs'[q].agentId = runs[q].agentId
                      /\ q # r \/ runs[q].status = "deleted" => runs'[q] = runs[q]
  BY UpdateRunEffect
<1>4. ASSUME NEW v \in Workers
      PROVE  Fits(v)'
  <2>1. CASE workers[v].run # r
    <3>1. workers[v].run \in Runs \cup {Null}
      BY DEF TypeOK, Worker
    <3> QED
      BY <2>1, <3>1, <1>3, SameWorkersSameJobs, OthersFit DEF IInv
  <2>2. CASE workers[v].run = r /\ runs'[r].status = "deleted"
    BY <2>2, <1>3, SameWorkersSameJobs, OthersFit DEF IInv
  <2>3. CASE workers[v].run = r /\ runs'[r].status # "deleted"
    <3>1. workers'[v].claimed = Null
      BY <2>3
    <3>2. Fits(v) /\ workers' = workers
      BY DEF IInv, InProgressFits, Fits
    <3>3. runs[r].agentId \in Agents /\ agents[runs[r].agentId].state # "absent"
      BY DEF TypeOK, RunRow, IInv, RowsFit
    <3> QED
      BY <1>2, <1>3, <2>3, <3>1, <3>2, <3>3 DEF Fits, AgentsStay
  <2> QED
    BY <2>1, <2>2, <2>3
<1> QED
  BY <1>1, <1>4, AllFit, SameRunsActive DEF IInv, Order

\* A run that waits for an action has an agent and the status that says so.
LEMMA WaitingHasAgent ==
  ASSUME TypeOK, IInv, NEW r \in Runs, NEW p \in Actions, WaitsFor(r, p)
  PROVE  runs[r].agentId # Null /\ runs[r].status = "awaiting_approval"
<1>1. runs[r].status = "awaiting_approval"
  BY DEF IInv, WaitingFits, WaitsFor
<1> QED
  BY <1>1 DEF IInv, RowsFit

\* Closing a run instead of resuming it: nobody works on it.
LEMMA ResumeClosesFits ==
  ASSUME TypeOK, IInv, NEW r \in Runs, NEW p \in Actions, ResumeRefused(r, p) \/ ResumeSettled(r, p)
  PROVE  Order'
<1>1. PICK status \in {"error", "cancelled", "completed"}, output \in Outputs :
        UpdateRun(r, status, output, Null)
  BY DEF ResumeRefused, ResumeSettled, Outputs
<1>2. /\ WaitsFor(r, p) /\ r \notin active
      /\ UNCHANGED <<actions, agents, active, workers>>
  BY DEF ResumeRefused, ResumeSettled, InProgress
<1> QED
  BY <1>1, <1>2, WaitingHasAgent, NotActive, CloseRunFits, SameActionsGrow, SameAgentsStay
     DEF IInv

\* The user's decision changes the status of one pending row.
DecisionOn(p) ==
  /\ actions[p].status = "pending"
  /\ \E status \in {"approved", "rejected"} :
       /\ actions' = [actions EXCEPT ![p].status = status]
       /\ decision' = [decision EXCEPT ![p] = status]
  /\ UNCHANGED started

\* A decision takes no row away and changes no command.
LEMMA DecisionGrows ==
  ASSUME TypeOK, NEW p \in Actions, DecisionOn(p)
  PROVE  ActionsGrow
<1>1. PICK status \in {"approved", "rejected"} : actions' = [actions EXCEPT ![p].status = status]
  BY DEF DecisionOn
<1>2. \A q \in Actions : /\ q # p => actions'[q] = actions[q]
                         /\ actions'[q].workspaceId = actions[q].workspaceId
                         /\ actions'[q].tool = actions[q].tool
  BY <1>1 DEF TypeOK, ActionRow
<1>3. actions[p].status = "pending" /\ actions'[p].status = status
  BY <1>1 DEF DecisionOn, TypeOK, ActionRow
<1> QED
  BY <1>2, <1>3 DEF ActionsGrow

\* A decision closes a waiting run only if no request runs a claimed command for it.
LEMMA DecideFits ==
  ASSUME TypeOK, IInv, NEW p \in Actions, Approve(p) \/ Reject(p)
  PROVE  Order' /\ DecisionOn(p)
<1>1. DecisionOn(p) /\ UNCHANGED <<agents, active, workers>>
  BY DEF Approve, Reject, DecisionOn
<1>2. ActionsGrow /\ AgentsStay /\ \A v \in Workers : SameJob(v)
  BY <1>1, DecisionGrows, SameAgentsStay, SameWorkersSameJobs
<1>3. CASE UNCHANGED runs
  BY <1>1, <1>2, <1>3, QuietFits
<1>4. ASSUME NEW r \in Runs, WaitsFor(r, p), UpdateRun(r, "cancelled", "denied", Null)
      PROVE  Order'
  <2>1. ASSUME NEW v \in Workers, workers[v].run = r, runs'[r].status # "deleted"
        PROVE  workers[v].claimed = Null
    <3>1. runs[r].status = "awaiting_approval"
      BY <1>4, WaitingHasAgent
    <3>2. r # Null
      OBVIOUS
    <3>3. ASSUME workers[v].claimed # Null
          PROVE  FALSE
      <4>1. WaitsFor(r, workers[v].claimed) /\ actions[workers[v].claimed].status = "executed"
        BY <2>1, <3>1, <3>2, <3>3 DEF IInv, InProgressFits
      <4> QED
        BY <1>1, <1>4, <4>1 DEF WaitsFor, DecisionOn
    <3> QED
      BY <3>3
  <2> QED
    BY <1>1, <1>2, <1>4, <2>1, WaitingHasAgent, CloseRunFits
<1> QED
  BY <1>1, <1>3, <1>4 DEF Approve, Reject

\* A closed connection changes no job.
LEMMA AbortFits ==
  ASSUME TypeOK, IInv, NEW w \in Workers, Abort(w)
  PROVE  Order'
<1>1. \A v \in Workers : SameJob(v)
  BY DEF Abort, SameJob, TypeOK, Worker
<1> QED
  BY <1>1, QuietFits, SameActionsGrow, SameAgentsStay DEF Abort, rows

\* A new command takes an unused row.
LEMMA CreateActionGrows ==
  ASSUME TypeOK, NEW w \in Workers, NEW p \in Actions, NEW tool \in Tools, CreateAction(w, p, tool)
  PROVE  /\ ActionsGrow
         /\ actions'[p].status = "pending" /\ actions'[p].tool = tool
         /\ actions'[p].workspaceId = workers[w].workspaceId
         /\ \A q \in Actions \ {p} : actions'[q] = actions[q]
BY DEF CreateAction, ActionsGrow, TypeOK

\* Each step of a request in progress leaves everything in order.
LEMMA StepFits ==
  ASSUME TypeOK, IInv, NEW w \in Workers, Step(w)
  PROVE  Order'
<1>1. CASE Route(w)
  <2>1. CASE LoopBack(w)
    BY <1>1, <2>1, LoopBackFits DEF Route, Order
  <2>2. CASE SaveRun(w, "completed", "result", Null)
    BY <1>1, <2>2, SaveRunFits, SameActionsGrow, SameAgentsStay DEF Route, Order
  <2> QED
    BY <1>1, <2>1, <2>2 DEF Route
<1>6. CASE Answer(w)
  BY <1>6, SaveRunFits, SameActionsGrow, SameAgentsStay DEF Answer, Order
<1>7. CASE Finish(w)
  <2>1. PICK status \in {"completed", "error"} : SaveRun(w, status, "result", Null)
    BY <1>7 DEF Finish
  <2> QED
    BY <1>7, <2>1, SaveRunFits, SameActionsGrow, SameAgentsStay DEF Finish, Order
<1>2. CASE Retry(w)
  BY <1>2, LoopBackFits DEF Retry, Order
<1>3. ASSUME NEW tool \in Tools, CallTool(w, tool)
      PROVE  Order'
  <2>1. CASE SaveRun(w, "error", "result", Null)
    BY <1>3, <2>1, SaveRunFits, SameActionsGrow, SameAgentsStay DEF CallTool, Order
  <2>2. CASE /\ workers' = [workers EXCEPT ![w].phase = "calling", ![w].tool = tool]
             /\ UNCHANGED <<runs, active>>
    <3>1. \A v \in Workers : SameJob(v)
      BY <2>2 DEF SameJob, TypeOK, Worker
    <3> QED
      BY <1>3, <2>2, <3>1, QuietFits, SameActionsGrow, SameAgentsStay DEF CallTool
  <2> QED
    BY <1>3, <2>1, <2>2 DEF CallTool
<1>4. ASSUME NEW p \in Actions, NEW tool \in Tools, ProposeAction(w, p, tool)
      PROVE  Order'
  <2>1. CreateAction(w, p, tool) /\ SaveRun(w, "completed", "result", p) /\ UNCHANGED agents
    BY <1>4 DEF ProposeAction
  <2>2. tool \in Dangerous /\ actions[p].status = "none"
    BY <1>4 DEF ProposeAction, MayAsk, CreateAction
  <2>3. \A q \in Runs : ~WaitsFor(q, p)
    BY <2>2 DEF IInv, RowsFit
  <2> QED
    BY <2>1, <2>2, <2>3, CreateActionGrows, SaveRunFits, SameAgentsStay DEF Order
<1>5. CASE ToolReturns(w)
  <2>1. CASE LoopBack(w)
    BY <1>5, <2>1, LoopBackFits DEF ToolReturns, Order
  <2>2. ASSUME NEW status \in {"completed", "error"}, SaveRun(w, status, "result", Null)
        PROVE  Order'
    BY <1>5, <2>2, SaveRunFits, SameActionsGrow, SameAgentsStay DEF ToolReturns, Order
  <2> QED
    BY <1>5, <2>1, <2>2 DEF ToolReturns
<1> QED
  BY <1>1, <1>2, <1>3, <1>4, <1>5, <1>6, <1>7 DEF Step, ScanRepo

\* After a failed log write the run waits again for the command it had claimed.
LEMMA LogWriteFailsFits ==
  ASSUME TypeOK, IInv, NEW w \in Workers, LogWriteFails(w)
  PROVE  Order'
<1> DEFINE p == workers[w].claimed
           r == workers[w].run
<1>1. p \in Actions \cup {Null} /\ r \in Runs \cup {Null}
  BY DEF TypeOK, Worker
<1>2. SaveRun(w, "error", "result", p) /\ UNCHANGED <<actions, agents>>
  BY DEF LogWriteFails
<1>3. p # Null /\ r # Null /\ runs[r].status # "deleted" =>
        /\ WaitsFor(r, p) /\ actions[p].status = "executed"
        /\ workers[w].workspaceId = agents[runs[r].agentId].workspaceId
  BY DEF IInv, InProgressFits
<1>4. p # Null /\ r # Null /\ runs[r].status # "deleted" =>
        /\ actions'[p].status # "none"
        /\ actions'[p].workspaceId = workers[w].workspaceId
        /\ actions'[p].tool \in Dangerous
        /\ \A q \in Runs \ {r} : ~WaitsFor(q, p)
  BY <1>1, <1>2, <1>3 DEF IInv, WaitingFits
<1> QED
  BY <1>1, <1>2, <1>4, SaveRunFits, SameActionsGrow, SameAgentsStay DEF Order

\* After a restart nobody is at work, and the rows are as they were.
LEMMA RestartFits ==
  ASSUME TypeOK, IInv, Restart, ActionsGrow, UNCHANGED <<agents, runs>>
  PROVE  Order'
<1>1. \A v \in Workers : Fits(v)'
  BY IdleFits DEF Restart
<1> QED
  BY <1>1, RestartActive, RowsStay, SameAgentsStay, AllFit DEF Order, IInv

\* So it is when the crash falls between two statements.
LEMMA CrashAfterFits ==
  ASSUME TypeOK, IInv, NEW p \in Actions,
         \/ CrashAfterClaim(p) \/ CrashAfterReject(p)
         \/ \E w \in Workers, tool \in Tools : CrashAfterPropose(w, p, tool)
  PROVE  Order'
<1>1. CASE CrashAfterClaim(p)
  <2>1. actions[p].status = "approved"
    BY <1>1 DEF CrashAfterClaim, MayClaim
  <2>2. ActionsGrow
    BY <1>1, <2>1 DEF CrashAfterClaim, ActionsGrow, TypeOK, ActionRow
  <2> QED
    BY <1>1, <2>2, RestartFits DEF CrashAfterClaim
<1>2. CASE CrashAfterReject(p)
  <2>1. DecisionOn(p)
    BY <1>2 DEF CrashAfterReject, DecisionOn
  <2> QED
    BY <1>2, <2>1, DecisionGrows, RestartFits DEF CrashAfterReject
<1>3. ASSUME NEW w \in Workers, NEW tool \in Tools, CrashAfterPropose(w, p, tool)
      PROVE  Order'
  BY <1>3, CreateActionGrows, RestartFits DEF CrashAfterPropose
<1> QED
  BY <1>1, <1>2, <1>3

\* So it is when the crash falls between two callbacks.
LEMMA CrashFits ==
  ASSUME TypeOK, IInv, Crash
  PROVE  Order'
BY RestartFits, SameActionsGrow DEF Crash, rows

-----------------------------------------------------------------------------
(* The four things a step can do to the table of approvals: nothing, a new command, the user's *)
(* answer, or the use of an approval.                                                          *)

\* The table of approvals is left alone.
Untouched == UNCHANGED <<actions, decision, started>>

\* A command is proposed.
Asked(p) ==
  /\ \E w \in Workers, tool \in Tools : CreateAction(w, p, tool)
  /\ UNCHANGED <<decision, started>>

\* An approval is used up, and the command starts or the process dies first.
UsedUp(p) ==
  /\ actions[p].status = "approved"
  /\ actions' = [actions EXCEPT ![p].status = "executed"]
  /\ started' \in {started, [started EXCEPT ![p] = @ + 1]}
  /\ UNCHANGED decision

\* Asking adds one row and leaves the others alone.
LEMMA AskedEffect ==
  ASSUME TypeOK, NEW p \in Actions, Asked(p)
  PROVE  /\ actions[p].status = "none" /\ actions'[p].status = "pending"
         /\ \A q \in Actions \ {p} : actions'[q] = actions[q]
         /\ UNCHANGED <<decision, started>>
<1>1. PICK w \in Workers, tool \in Tools : CreateAction(w, p, tool)
  BY DEF Asked
<1>2. actions[p].status = "none"
  BY <1>1 DEF CreateAction
<1> QED
  BY <1>1, <1>2, CreateActionGrows DEF Asked

\* Every step of the system is one of the four, or leaves the table alone.
LEMMA TableSteps ==
  ASSUME TypeOK, IInv, Next
  PROVE  Untouched \/ \E p \in Actions : Asked(p) \/ DecisionOn(p) \/ UsedUp(p)
<1>1. ASSUME NEW g \in Agents, CreateAgent(g) \/ UpdateAgent(g) \/ DeleteAgent(g)
      PROVE  Untouched
  BY <1>1 DEF CreateAgent, UpdateAgent, DeleteAgent, Untouched, history
<1>2. ASSUME NEW w \in Workers, NEW g \in Agents, NEW r \in Runs, StartRun(w, g, r)
      PROVE  Untouched
  BY <1>2 DEF StartRun, CreateAgentRun, Untouched, history
<1>3. ASSUME NEW w \in Workers, StartPlain(w) \/ Abort(w) \/ LogWriteFails(w)
      PROVE  Untouched
  BY <1>3 DEF StartPlain, Abort, LogWriteFails, Untouched, rows, history
<1>4. ASSUME NEW w \in Workers, Step(w)
      PROVE  Untouched \/ \E p \in Actions : Asked(p)
  BY <1>4 DEF Step, Route, Answer, Finish, Retry, ScanRepo, CallTool, ProposeAction, ToolReturns, Untouched, Asked, history
<1>5. ASSUME NEW w \in Workers, NEW r \in Runs, NEW p \in Actions, ResumeRun(w, r, p)
      PROVE  UsedUp(p)
  BY <1>5 DEF ResumeRun, ClaimAndCall, MayClaim, UsedUp
<1>6. ASSUME NEW r \in Runs, NEW p \in Actions, ResumeRefused(r, p) \/ ResumeSettled(r, p)
      PROVE  Untouched
  BY <1>6 DEF ResumeRefused, ResumeSettled, Untouched, history
<1>7. ASSUME NEW w \in Workers, NEW p \in Actions, ChatResume(w, p) \/ TaskResume(w, p)
      PROVE  UsedUp(p)
  BY <1>7 DEF ChatResume, TaskResume, ClaimAndCall, MayClaim, UsedUp
<1>8. ASSUME NEW p \in Actions, Approve(p) \/ Reject(p)
      PROVE  DecisionOn(p)
  BY <1>8 DEF Approve, Reject, DecisionOn
<1>9. CASE Crash
  BY <1>9 DEF Crash, Untouched, rows, history
<1>10. ASSUME NEW p \in Actions, CrashAfterClaim(p)
       PROVE  UsedUp(p)
  BY <1>10 DEF CrashAfterClaim, MayClaim, UsedUp, history
<1>11. ASSUME NEW p \in Actions, CrashAfterReject(p)
       PROVE  DecisionOn(p)
  BY <1>11 DEF CrashAfterReject, DecisionOn
<1>12. ASSUME NEW w \in Workers, NEW p \in Actions, NEW tool \in Tools,
              CrashAfterPropose(w, p, tool)
       PROVE  Asked(p)
  BY <1>12 DEF CrashAfterPropose, Asked, history
<1> QED
  BY <1>1, <1>2, <1>3, <1>4, <1>5, <1>6, <1>7, <1>8, <1>9, <1>10, <1>11, <1>12 DEF Next

\* The four keep the table, the decisions and the starts in agreement.
LEMMA LedgerStep ==
  ASSUME TypeOK, Ledger,
         Untouched \/ \E p \in Actions : Asked(p) \/ DecisionOn(p) \/ UsedUp(p)
  PROVE  Ledger'
<1>1. CASE Untouched
  BY <1>1 DEF Untouched, Ledger
<1>2. ASSUME NEW p \in Actions, Asked(p)
      PROVE  Ledger'
  <2>1. /\ actions[p].status = "none" /\ actions'[p].status = "pending"
        /\ \A q \in Actions \ {p} : actions'[q] = actions[q]
        /\ UNCHANGED <<decision, started>>
    BY <1>2, AskedEffect
  <2> QED
    BY <2>1 DEF Ledger
<1>3. ASSUME NEW p \in Actions, DecisionOn(p)
      PROVE  Ledger'
  <2>1. PICK status \in {"approved", "rejected"} :
          /\ actions' = [actions EXCEPT ![p].status = status]
          /\ decision' = [decision EXCEPT ![p] = status]
    BY <1>3 DEF DecisionOn
  <2>2. /\ actions'[p].status = status /\ decision'[p] = status
        /\ \A q \in Actions \ {p} : actions'[q] = actions[q] /\ decision'[q] = decision[q]
    BY <2>1 DEF TypeOK, ActionRow
  <2>3. actions[p].status = "pending" /\ UNCHANGED started
    BY <1>3 DEF DecisionOn
  <2> QED
    BY <2>2, <2>3 DEF Ledger
<1>4. ASSUME NEW p \in Actions, UsedUp(p)
      PROVE  Ledger'
  <2>1. /\ actions'[p].status = "executed" /\ actions[p].status = "approved"
        /\ \A q \in Actions \ {p} : actions'[q] = actions[q] /\ started'[q] = started[q]
        /\ UNCHANGED decision
    BY <1>4 DEF UsedUp, TypeOK, ActionRow
  <2>2. started[p] = 0 /\ started'[p] \in {0, 1}
    BY <1>4, <2>1 DEF Ledger, UsedUp, TypeOK
  <2> QED
    BY <2>1, <2>2 DEF Ledger
<1> QED
  BY <1>1, <1>2, <1>3, <1>4

-----------------------------------------------------------------------------
(* The theorems. *)

\* The tables are empty and nobody is at work at first.
LEMMA InitInvariant == Init => IInv
BY IdleFields
   DEF Init, NoRun, IInv, RowsFit, InProgressFits, ActiveIsInProgress, WaitingFits, Ledger, WaitsFor

\* Every step keeps the types; the invariant tells that a waiting run has an agent.
LEMMA TypeStep ==
  ASSUME TypeOK, IInv, [Next]_vars
  PROVE  TypeOK'
<1>1. CASE UNCHANGED vars
  BY <1>1 DEF vars, TypeOK
<1>2. ASSUME NEW w \in Workers, NEW r \in Runs, NEW p \in Actions, ResumeRun(w, r, p)
      PROVE  TypeOK'
  <2>1. runs[r].agentId # Null
    BY <1>2, WaitingHasAgent DEF ResumeRun
  <2>2. runs[r].agentId \in Agents
    BY <2>1 DEF TypeOK, RunRow
  <2> QED
    BY <1>2, <2>2, ResumeRunType
<1>3. CASE Next /\ ~\E w \in Workers, r \in Runs, p \in Actions : ResumeRun(w, r, p)
  BY <1>3, CreateAgentType, UpdateAgentType, DeleteAgentType, StartRunType, StartPlainType,
     PlainResumeType, ResumeClosesType, AbortType, StepType, LogWriteFailsType, DecideType,
     CrashType DEF Next
<1> QED
  BY <1>1, <1>2, <1>3

\* Every step leaves the tables and the requests in order.
LEMMA OrderStep ==
  ASSUME TypeOK, IInv, [Next]_vars
  PROVE  Order'
<1>1. CASE UNCHANGED vars
  <2>1. UNCHANGED <<actions, agents, runs, active, workers>>
    BY <1>1 DEF vars
  <2> QED
    BY <2>1, QuietFits, SameActionsGrow, SameAgentsStay, SameWorkersSameJobs
<1>2. CASE Next
  BY <1>2, EditAgentFits, DeleteAgentFits, StartRunFits, StartPlainFits, ResumeRunFits,
     PlainResumeFits, ResumeClosesFits, AbortFits, StepFits, LogWriteFailsFits, DecideFits,
     CrashFits, CrashAfterFits DEF Next
<1> QED
  BY <1>1, <1>2

\* Every step keeps the ledger.
LEMMA LedgerInvariant ==
  ASSUME TypeOK, IInv, [Next]_vars
  PROVE  Ledger'
<1>1. CASE UNCHANGED vars
  BY <1>1, LedgerStep DEF vars, Untouched, IInv
<1>2. CASE Next
  BY <1>2, TableSteps, LedgerStep DEF IInv
<1> QED
  BY <1>1, <1>2

\* The inductive invariant: IInv, with the types it needs and that need it.
THEOREM Invariance == Spec => [](TypeOK /\ IInv)
<1>1. Init => TypeOK /\ IInv
  BY InitType, InitInvariant
<1>2. TypeOK /\ IInv /\ [Next]_vars => TypeOK' /\ IInv'
  BY TypeStep, OrderStep, LedgerInvariant DEF Order, IInv
<1> QED
  BY <1>1, <1>2, PTL DEF Spec

\* Every table, request and counter keeps its type.
THEOREM TypeCorrect == Spec => []TypeOK
BY Invariance, PTL

\* The stored command of an action starts at most once, and only with the user's approval, for
\* any number of pages, runs and crashes.
THEOREM OnceAsApproved == Spec => []RunsOnceAsApproved
<1>1. TypeOK /\ IInv => RunsOnceAsApproved
  BY DEF IInv, Ledger, RunsOnceAsApproved, TypeOK
<1> QED
  BY <1>1, Invariance, PTL

\* The active set is exactly the runs that a request works on, one request each.
THEOREM ActiveCorrect == Spec => []ActiveIsInProgress
<1>1. IInv => ActiveIsInProgress
  BY DEF IInv
<1> QED
  BY <1>1, Invariance, PTL

\* A waiting run waits for a command of its own workspace that no other run waits for.
THEOREM WaitingCorrect == Spec => []WaitingFits
<1>1. IInv => WaitingFits
  BY DEF IInv
<1> QED
  BY <1>1, Invariance, PTL

\* The detailed specification implements the approval contract: each change of the table of
\* approvals is one the contract allows, and every other step is a stutter.
THEOREM Refinement == Spec => KeepsContract
<1> DEFINE st == [p \in Actions |-> actions[p].status]
<1>1. Init => Contract!Init
  BY DEF Init, Contract!Init
<1>2. TypeOK /\ IInv /\ [Next]_vars => [Contract!Next]_(Contract!vars)
  <2> SUFFICES ASSUME TypeOK, IInv, [Next]_vars PROVE [Contract!Next]_(Contract!vars)
    OBVIOUS
  <2>1. ASSUME Untouched
        PROVE  UNCHANGED Contract!vars
    BY <2>1 DEF Untouched, Contract!vars
  <2>2. ASSUME NEW p \in Actions, Asked(p)
        PROVE  Contract!Ask(p)
    <3>1. /\ actions[p].status = "none" /\ actions'[p].status = "pending"
          /\ \A q \in Actions \ {p} : actions'[q] = actions[q]
          /\ UNCHANGED started
      BY <2>2, AskedEffect
    <3>2. st' = [st EXCEPT ![p] = "pending"]
      BY <3>1
    <3> QED
      BY <3>1, <3>2 DEF Contract!Ask, Contract!Move
  <2>3. ASSUME NEW p \in Actions, DecisionOn(p)
        PROVE  Contract!Answer(p)
    <3>1. PICK status \in {"approved", "rejected"} :
            actions' = [actions EXCEPT ![p].status = status]
      BY <2>3 DEF DecisionOn
    <3>2. \A q \in Actions : actions'[q].status = IF q = p THEN status ELSE actions[q].status
      BY <3>1 DEF TypeOK, ActionRow
    <3>3. st' = [st EXCEPT ![p] = status]
      BY <3>2
    <3> QED
      BY <2>3, <3>3 DEF DecisionOn, Contract!Answer, Contract!Move
  <2>4. ASSUME NEW p \in Actions, UsedUp(p)
        PROVE  Contract!Execute(p) \/ Contract!Waste(p)
    <3>1. \A q \in Actions : actions'[q].status = IF q = p THEN "executed" ELSE actions[q].status
      BY <2>4 DEF UsedUp, TypeOK, ActionRow
    <3>2. st' = [st EXCEPT ![p] = "executed"]
      BY <3>1
    <3> QED
      BY <2>4, <3>2 DEF UsedUp, Contract!Execute, Contract!Waste, Contract!Move
  <2>5. CASE UNCHANGED vars
    BY <2>1, <2>5 DEF vars, Untouched
  <2>6. CASE Next
    BY <2>1, <2>2, <2>3, <2>4, <2>6, TableSteps DEF Contract!Next
  <2> QED
    BY <2>5, <2>6
<1> QED
  BY <1>1, <1>2, Invariance, PTL DEF Spec, KeepsContract, Contract!Spec

\* What the contract's steps keep: types, and that only an executed row was started, once.
ContractInv == Contract!ContractTypeOK /\ Contract!StartedOnce

\* Whatever implements the contract starts a command once and never before a yes: rows that are
\* pending, rejected or merely approved have no started command (the guarded updates of
\* pending_actions in memory/src/index.ts). Nothing of AgentRuns is used but the table.
THEOREM ContractIsSafe == Contract!Spec => []Contract!StartedOnce
<1>1. Contract!Init => ContractInv
  BY DEF Contract!Init, ContractInv, Contract!ContractTypeOK, Contract!StartedOnce, Contract!Statuses
<1>2. ContractInv /\ [Contract!Next]_(Contract!vars) => ContractInv'
  <2> SUFFICES ASSUME ContractInv, [Contract!Next]_(Contract!vars) PROVE ContractInv'
    OBVIOUS
  <2> DEFINE status == [p \in Actions |-> actions[p].status]
  <2>1. /\ status \in [Actions -> Contract!Statuses] /\ started \in [Actions -> Nat]
        /\ \A p \in Actions : started[p] <= 1 /\ (started[p] = 1 => status[p] = "executed")
    BY DEF ContractInv, Contract!ContractTypeOK, Contract!StartedOnce
  <2>2. ASSUME status' \in [Actions -> Contract!Statuses], started' \in [Actions -> Nat],
               \A p \in Actions : started'[p] <= 1 /\ (started'[p] = 1 => status'[p] = "executed")
        PROVE  ContractInv'
    BY <2>2 DEF ContractInv, Contract!ContractTypeOK, Contract!StartedOnce
  <2>3. CASE UNCHANGED Contract!vars
    BY <2>1, <2>2, <2>3 DEF Contract!vars
  <2>4. ASSUME NEW p \in Actions, Contract!Ask(p) PROVE ContractInv'
    <3>1. status[p] = "none" /\ status' = [status EXCEPT ![p] = "pending"] /\ UNCHANGED started
      BY <2>4 DEF Contract!Ask, Contract!Move
    <3> HIDE DEF status
    <3> QED
      BY <2>1, <2>2, <3>1 DEF Contract!Statuses
  <2>5. ASSUME NEW p \in Actions, Contract!Answer(p) PROVE ContractInv'
    <3>1. /\ status[p] = "pending" /\ UNCHANGED started
          /\ \E to \in {"approved", "rejected"} : status' = [status EXCEPT ![p] = to]
      BY <2>5 DEF Contract!Answer, Contract!Move
    <3> HIDE DEF status
    <3> QED
      BY <2>1, <2>2, <3>1 DEF Contract!Statuses
  <2>6. ASSUME NEW p \in Actions, Contract!Execute(p) PROVE ContractInv'
    <3>1. /\ status[p] = "approved" /\ status' = [status EXCEPT ![p] = "executed"]
          /\ started' = [started EXCEPT ![p] = @ + 1]
      BY <2>6 DEF Contract!Execute, Contract!Move
    <3> HIDE DEF status
    <3>2. started[p] = 0
      BY <2>1, <3>1
    <3> QED
      BY <2>1, <2>2, <3>1, <3>2 DEF Contract!Statuses
  <2>7. ASSUME NEW p \in Actions, Contract!Waste(p) PROVE ContractInv'
    <3>1. status[p] = "approved" /\ status' = [status EXCEPT ![p] = "executed"] /\ UNCHANGED started
      BY <2>7 DEF Contract!Waste, Contract!Move
    <3> HIDE DEF status
    <3> QED
      BY <2>1, <2>2, <3>1 DEF Contract!Statuses
  <2> QED
    BY <2>3, <2>4, <2>5, <2>6, <2>7 DEF Contract!Next
<1>3. ContractInv => Contract!StartedOnce
  BY DEF ContractInv
<1> QED
  BY <1>1, <1>2, <1>3, PTL DEF Contract!Spec

\* So the tables and requests of the server start an approved command once, and no other.
COROLLARY StartsOnce == Spec => []Contract!StartedOnce
BY Refinement, ContractIsSafe, PTL DEF KeepsContract

-----------------------------------------------------------------------------
(* What a step does to one run. *)

\* While a run is worked on its row is deleted, is unfinished, or waits for a command that was
\* claimed: nothing that somebody else may close.
OpenRow(r) ==
  \/ runs[r].status = "deleted"
  \/ runs[r].status = "error" /\ runs[r].output = "unfinished"
  \/ \E p \in Actions : WaitsFor(r, p) /\ actions[p].status = "executed"

OpenRows == \A r \in active : OpenRow(r)

\* A denied command was denied by the user.
DeniedIsSaid == \A p \in Actions : actions[p].status = "rejected" => decision[p] = "rejected"

\* A run's row and its place in the active set stay, and what it waits for, if anything, is not
\* denied, nor run on its behalf, meanwhile.
StaysPut(r) ==
  /\ runs'[r] = runs[r]
  /\ r \in active' <=> r \in active
  /\ \A p \in Actions : WaitsFor(r, p) =>
       /\ actions'[p].status = "rejected" => actions[p].status = "rejected"
       /\ actions'[p].status = "executed" =>
            \/ actions[p].status = "executed" /\ startedBy'[p] = startedBy[p]
            \/ startedBy'[p] = Null

\* A new run.
Begins(r) ==
  /\ runs[r].status = "none"
  /\ runs'[r].status = "error" /\ runs'[r].output = "unfinished"
  /\ runs'[r].pendingActionId = Null

\* A run whose command was claimed for it.
TakenUp(r) ==
  /\ runs'[r] = runs[r]
  /\ r \notin active /\ r \in active'
  /\ \E p \in Actions : WaitsFor(r, p) /\ actions'[p].status = "executed"

\* A run that nobody works on and whose command is decided.
Closed(r) ==
  /\ r \notin active /\ r \notin active'
  /\ \E p \in Actions : WaitsFor(r, p) /\ actions'[p].status \in {"approved", "executed", "rejected"}
  /\ runs'[r].pendingActionId = Null

\* A run whose request ends, perhaps with a new command to wait for.
Ends(r) ==
  /\ r \in active /\ r \notin active'
  /\ runs'[r].pendingActionId # Null => actions'[runs'[r].pendingActionId].status = "pending"

\* A run that is worked on no more, because of a crash or a failed write.
Fails(r) ==
  /\ faults' # faults /\ r \notin active'
  /\ runs'[r] = runs[r] \/ r \in active

\* A run that goes with its agent.
Goes(r) == runs'[r].status = "deleted"

RunStep(r) == StaysPut(r) \/ Begins(r) \/ TakenUp(r) \/ Closed(r) \/ Ends(r) \/ Fails(r) \/ Goes(r)

\* Rows, active set and approvals that are left alone.
LEMMA QuietRunStep ==
  ASSUME UNCHANGED <<runs, active, actions, startedBy>>, NEW r \in Runs
  PROVE  RunStep(r)
BY DEF RunStep, StaysPut

\* A request that ends: its run waits for nothing, or for the new command.
LEMMA SaveRunStep ==
  ASSUME TypeOK, IInv, NEW w \in Workers, NEW status, NEW output, NEW p \in Actions \cup {Null},
         SaveRun(w, status, output, p), NEW r \in Runs
  PROVE  /\ r # workers[w].run => runs'[r] = runs[r] /\ (r \in active' <=> r \in active)
         /\ r = workers[w].run => /\ r \in active /\ r \notin active'
                                  /\ runs'[r].pendingActionId \in {Null, p}
<1>1. active' = active \ {workers[w].run}
  BY DEF SaveRun
<1>2. CASE r # workers[w].run
  <2>1. workers[w].run \in Runs \cup {Null}
    BY DEF TypeOK, Worker
  <2> QED
    BY <1>1, <1>2, <2>1, UpdateRunEffect DEF SaveRun
<1>3. CASE r = workers[w].run
  <2>1. r # Null /\ r \in active
    BY <1>3 DEF IInv, ActiveIsInProgress
  <2>2. \E st, o, q : UpdateRun(r, st, o, q) /\ q \in {Null, p}
    BY <1>3, <2>1 DEF SaveRun
  <2>3. runs[r].status = "deleted" => runs[r].pendingActionId = Null
    BY DEF IInv, WaitingFits
  <2> QED
    BY <1>1, <1>3, <2>1, <2>2, <2>3, UpdateRunEffect
<1> QED
  BY <1>2, <1>3

\* A step of a request: its own run ends or stays, the others stay.
LEMMA StepRunStep ==
  ASSUME TypeOK, IInv, NEW w \in Workers, Step(w), NEW r \in Runs
  PROVE  RunStep(r)
<1>1. UNCHANGED startedBy
  BY DEF Step, Route, Answer, Finish, Retry, ScanRepo, CallTool, ProposeAction, ToolReturns, history
<1>2. ASSUME UNCHANGED actions, NEW status, SaveRun(w, status, "result", Null)
      PROVE  RunStep(r)
  BY <1>1, <1>2, SaveRunStep DEF RunStep, StaysPut, Ends
<1>3. ASSUME UNCHANGED actions, LoopBack(w)
      PROVE  RunStep(r)
  BY <1>1, <1>2, <1>3, QuietRunStep DEF LoopBack, GoOn
<1>4. CASE Route(w)
  BY <1>2, <1>3, <1>4 DEF Route
<1>5. CASE Answer(w) \/ Finish(w)
  BY <1>2, <1>5 DEF Answer, Finish
<1>6. CASE Retry(w)
  BY <1>3, <1>6 DEF Retry
<1>7. ASSUME NEW tool \in Tools, CallTool(w, tool)
      PROVE  RunStep(r)
  BY <1>1, <1>2, <1>7, QuietRunStep DEF CallTool
<1>8. ASSUME NEW p \in Actions, NEW tool \in Tools, ProposeAction(w, p, tool)
      PROVE  RunStep(r)
  <2>1. CreateAction(w, p, tool) /\ SaveRun(w, "completed", "result", p)
    BY <1>8 DEF ProposeAction
  <2>2. /\ actions[p].status = "none" /\ actions'[p].status = "pending"
        /\ \A q \in Actions \ {p} : actions'[q] = actions[q]
    BY <2>1, CreateActionGrows DEF CreateAction
  <2>3. r # workers[w].run => StaysPut(r)
    BY <1>1, <2>1, <2>2, SaveRunStep DEF StaysPut
  <2>4. r = workers[w].run => Ends(r)
    BY <2>1, <2>2, SaveRunStep DEF Ends
  <2> QED
    BY <2>3, <2>4 DEF RunStep
<1>9. CASE ToolReturns(w)
  BY <1>2, <1>3, <1>9 DEF ToolReturns
<1> QED
  BY <1>4, <1>5, <1>6, <1>7, <1>8, <1>9 DEF Step, ScanRepo

\* A claim by a run takes up that run; a claim by a chat or a task is nobody's.
LEMMA ClaimRunStep ==
  ASSUME TypeOK, IInv, NEW w \in Workers, NEW p \in Actions, NEW r \in Runs,
         \/ \E q \in Runs : ResumeRun(w, q, p)
         \/ ChatResume(w, p) \/ TaskResume(w, p)
  PROVE  RunStep(r)
<1>1. PICK x : ClaimAndCall(w, p, x) /\ UNCHANGED runs
               /\ \/ x.run = Null /\ UNCHANGED active
                  \/ x.run \in Runs /\ WaitsFor(x.run, p) /\ x.run \notin active
                     /\ active' = active \cup {x.run}
  <2>1. ASSUME NEW q \in Runs, ResumeRun(w, q, p)
        PROVE  \E x : ClaimAndCall(w, p, x) /\ x.run = q
    BY <2>1, ThinkingFields DEF ResumeRun
  <2>2. ASSUME ChatResume(w, p) \/ TaskResume(w, p)
        PROVE  \E x : ClaimAndCall(w, p, x) /\ x.run = Null
    <3>1. PICK ws, T, mode, signal, lone :
            ClaimAndCall(w, p, [Thinking(Null, ws, T, mode, signal) EXCEPT !.lone = lone])
      BY <2>2 DEF ChatResume, TaskResume
    <3>2. [Thinking(Null, ws, T, mode, signal) EXCEPT !.lone = lone].run = Null
      BY DEF Thinking, Idle
    <3> QED
      BY <3>1, <3>2
  <2> QED
    BY <2>1, <2>2 DEF ResumeRun, ChatResume, TaskResume, InProgress
<1>2. /\ actions'[p].status = "executed" /\ startedBy'[p] = x.run
      /\ \A q \in Actions \ {p} : actions'[q] = actions[q] /\ startedBy'[q] = startedBy[q]
  BY <1>1 DEF ClaimAndCall, TypeOK, ActionRow
<1>3. CASE r = x.run
  BY <1>1, <1>2, <1>3 DEF RunStep, TakenUp
<1>4. CASE r # x.run
  <2>1. WaitsFor(r, p) => x.run = Null
    BY <1>1, <1>4 DEF IInv, WaitingFits
  <2> QED
    BY <1>1, <1>2, <1>4, <2>1 DEF RunStep, StaysPut
<1> QED
  BY <1>3, <1>4

\* A run that is closed instead of resumed, or when its command is denied.
LEMMA CloseRunStep ==
  ASSUME TypeOK, NEW q \in Runs, NEW p \in Actions, WaitsFor(q, p), q \notin active,
         NEW status, NEW output, UpdateRun(q, status, output, Null), UNCHANGED <<active, startedBy>>,
         actions'[p].status \in {"approved", "executed", "rejected"},
         \A o \in Actions \ {p} : actions'[o] = actions[o],
         \A s \in Runs : WaitsFor(s, p) => s = q,
         NEW r \in Runs
  PROVE  RunStep(r)
<1>1. CASE r = q
  BY <1>1, UpdateRunEffect DEF RunStep, Closed, Goes
<1>2. CASE r # q
  <2>1. runs'[r] = runs[r] /\ ~WaitsFor(r, p)
    BY <1>2, UpdateRunEffect
  <2> QED
    BY <2>1 DEF RunStep, StaysPut
<1> QED
  BY <1>1, <1>2

\* A decision: a denial closes the run that waits, which nobody works on; an approval moves none.
LEMMA DecideRunStep ==
  ASSUME TypeOK, IInv, OpenRows, NEW p \in Actions, Approve(p) \/ Reject(p), NEW r \in Runs
  PROVE  RunStep(r)
<1>1. PICK status \in {"approved", "rejected"} :
        /\ actions[p].status = "pending" /\ actions'[p].status = status
        /\ \A q \in Actions \ {p} : actions'[q] = actions[q]
        /\ UNCHANGED <<active, startedBy>>
        /\ Approve(p) => status = "approved"
  BY DEF Approve, Reject, TypeOK, ActionRow
<1>2. CASE UNCHANGED runs /\ (status = "approved" \/ ~Waiting(p))
  BY <1>1, <1>2 DEF RunStep, StaysPut, Waiting
<1>3. ASSUME NEW q \in Runs, WaitsFor(q, p), UpdateRun(q, "cancelled", "denied", Null)
      PROVE  RunStep(r)
  <2>1. q \notin active
    BY <1>1, <1>3, WaitingHasAgent DEF OpenRows, OpenRow, WaitsFor
  <2>2. \A s \in Runs : WaitsFor(s, p) => s = q
    BY <1>3 DEF IInv, WaitingFits
  <2> QED
    BY <1>1, <1>3, <2>1, <2>2, CloseRunStep
<1> QED
  BY <1>1, <1>2, <1>3 DEF Approve, Reject

\* A crash, and a result that can't be written, are faults.
LEMMA FaultRunStep ==
  ASSUME TypeOK, IInv, NEW r \in Runs,
         \/ Crash
         \/ \E w \in Workers : LogWriteFails(w)
         \/ \E p \in Actions : CrashAfterClaim(p) \/ CrashAfterReject(p)
         \/ \E w \in Workers, p \in Actions, tool \in Tools : CrashAfterPropose(w, p, tool)
  PROVE  RunStep(r)
<1>1. CASE Restart /\ UNCHANGED runs
  <2>1. faults \in Nat
    BY DEF TypeOK
  <2>2. faults' # faults /\ r \notin active' /\ runs'[r] = runs[r]
    BY <1>1, <2>1 DEF Restart
  <2> QED
    BY <2>2 DEF RunStep, Fails
<1>2. ASSUME NEW w \in Workers, LogWriteFails(w)
      PROVE  RunStep(r)
  <2>1. /\ SaveRun(w, "error", "result", workers[w].claimed)
        /\ UNCHANGED <<actions, startedBy>> /\ faults' # faults
    BY <1>2 DEF LogWriteFails, history, TypeOK
  <2>2. workers[w].claimed \in Actions \cup {Null}
    BY DEF TypeOK, Worker
  <2> QED
    BY <2>1, <2>2, SaveRunStep DEF RunStep, StaysPut, Fails
<1> QED
  BY <1>1, <1>2 DEF Crash, CrashAfterClaim, CrashAfterReject, CrashAfterPropose, rows

\* Every step of the system does one of the seven things to a run.
LEMMA RunSteps ==
  ASSUME TypeOK, IInv, OpenRows, [Next]_vars, NEW r \in Runs
  PROVE  RunStep(r)
<1>1. CASE UNCHANGED vars
  BY <1>1, QuietRunStep DEF vars
<1>2. ASSUME NEW g \in Agents, CreateAgent(g) \/ UpdateAgent(g)
      PROVE  RunStep(r)
  BY <1>2, QuietRunStep DEF CreateAgent, UpdateAgent, history
<1>3. ASSUME NEW g \in Agents, DeleteAgent(g)
      PROVE  RunStep(r)
  <2>1. /\ runs'[r] = runs[r] \/ runs'[r].status = "deleted"
        /\ UNCHANGED <<active, actions, startedBy>>
    <3>1. runs[r] \in RunRow
      BY DEF TypeOK
    <3>2. runs'[r] = IF runs[r].agentId = g
                     THEN [runs[r] EXCEPT !.status = "deleted", !.pendingActionId = Null]
                     ELSE runs[r]
      BY <1>3 DEF DeleteAgent
    <3> QED
      BY <1>3, <3>1, <3>2 DEF DeleteAgent, RunRow, history
  <2> QED
    BY <2>1 DEF RunStep, StaysPut, Goes
<1>4. ASSUME NEW w \in Workers, NEW g \in Agents, NEW q \in Runs, StartRun(w, g, q)
      PROVE  RunStep(r)
  <2>1. /\ runs[q].status = "none" /\ active' = active \cup {q}
        /\ runs' = [runs EXCEPT ![q] = [status |-> "error", agentId |-> g, output |-> "unfinished",
                                        pendingActionId |-> Null]]
        /\ UNCHANGED <<actions, startedBy>>
    BY <1>4 DEF StartRun, CreateAgentRun, history
  <2>2. CASE r = q
    BY <2>1, <2>2 DEF RunStep, Begins, TypeOK
  <2>3. CASE r # q
    BY <2>1, <2>3 DEF RunStep, StaysPut, TypeOK
  <2> QED
    BY <2>2, <2>3
<1>5. ASSUME NEW w \in Workers, StartPlain(w) \/ Abort(w)
      PROVE  RunStep(r)
  BY <1>5, QuietRunStep DEF StartPlain, Abort, rows, history
<1>6. ASSUME NEW q \in Runs, NEW p \in Actions, ResumeRefused(q, p) \/ ResumeSettled(q, p)
      PROVE  RunStep(r)
  <2>1. PICK status, output : UpdateRun(q, status, output, Null)
    BY <1>6 DEF ResumeRefused, ResumeSettled
  <2>2. /\ WaitsFor(q, p) /\ q \notin active
        /\ actions[p].status \in {"approved", "executed", "rejected"}
        /\ UNCHANGED <<actions, active, startedBy>>
    BY <1>6 DEF ResumeRefused, ResumeSettled, InProgress, history
  <2>3. \A s \in Runs : WaitsFor(s, p) => s = q
    BY <2>2 DEF IInv, WaitingFits
  <2> QED
    BY <2>1, <2>2, <2>3, CloseRunStep
<1>7. CASE Next
  BY <1>2, <1>3, <1>4, <1>5, <1>6, <1>7, StepRunStep, ClaimRunStep, DecideRunStep, FaultRunStep
     DEF Next
<1> QED
  BY <1>1, <1>7

-----------------------------------------------------------------------------
(* What a waiting run waits for. *)

\* What a command was asked for stays answered: it is executed for good, and its denial is the
\* user's.
LEMMA TableStays ==
  ASSUME TypeOK, IInv, DeniedIsSaid, [Next]_vars
  PROVE  /\ \A p \in Actions : actions[p].status = "executed" => actions'[p].status = "executed"
         /\ DeniedIsSaid'
<1>1. CASE Untouched
  BY <1>1 DEF Untouched, DeniedIsSaid
<1>2. ASSUME NEW p \in Actions, Asked(p)
      PROVE  /\ \A q \in Actions : actions[q].status = "executed" => actions'[q].status = "executed"
             /\ DeniedIsSaid'
  <2>1. /\ actions[p].status = "none" /\ actions'[p].status = "pending"
        /\ \A q \in Actions \ {p} : actions'[q] = actions[q]
        /\ UNCHANGED decision
    BY <1>2, AskedEffect
  <2> QED
    BY <2>1 DEF DeniedIsSaid
<1>3. ASSUME NEW p \in Actions, DecisionOn(p)
      PROVE  /\ \A q \in Actions : actions[q].status = "executed" => actions'[q].status = "executed"
             /\ DeniedIsSaid'
  <2>1. PICK status \in {"approved", "rejected"} :
          /\ actions' = [actions EXCEPT ![p].status = status]
          /\ decision' = [decision EXCEPT ![p] = status]
    BY <1>3 DEF DecisionOn
  <2>2. /\ actions[p].status = "pending"
        /\ actions'[p].status = status /\ decision'[p] = status
        /\ \A q \in Actions \ {p} : actions'[q] = actions[q] /\ decision'[q] = decision[q]
    BY <1>3, <2>1 DEF DecisionOn, TypeOK, ActionRow
  <2> QED
    BY <2>2 DEF DeniedIsSaid
<1>4. ASSUME NEW p \in Actions, UsedUp(p)
      PROVE  /\ \A q \in Actions : actions[q].status = "executed" => actions'[q].status = "executed"
             /\ DeniedIsSaid'
  <2>1. /\ actions'[p].status = "executed"
        /\ \A q \in Actions \ {p} : actions'[q] = actions[q]
        /\ UNCHANGED decision
    BY <1>4 DEF UsedUp, TypeOK, ActionRow
  <2> QED
    BY <2>1 DEF DeniedIsSaid
<1>5. CASE UNCHANGED vars
  BY <1>1, <1>5 DEF vars, Untouched
<1>6. CASE Next
  BY <1>1, <1>2, <1>3, <1>4, <1>6, TableSteps
<1> QED
  BY <1>5, <1>6

\* Faults are counted and never forgotten.
LEMMA FaultsGrow ==
  ASSUME TypeOK, [Next]_vars, faults' = 0
  PROVE  faults = 0
<1>1. faults \in Nat
  BY DEF TypeOK
<1>2. CASE UNCHANGED faults
  BY <1>2
<1>3. CASE faults' = faults + 1
  BY <1>1, <1>3
<1> QED
  BY <1>2, <1>3 DEF vars, Next, CreateAgent, UpdateAgent, DeleteAgent, StartRun, StartPlain, Abort,
     Step, Route, Answer, Finish, Retry, ScanRepo, CallTool, ProposeAction, ToolReturns, LogWriteFails,
     ResumeRun, ResumeRefused, ResumeSettled, ChatResume, TaskResume, Approve, Reject, Crash,
     CrashAfterClaim, CrashAfterReject, CrashAfterPropose, Restart

\* A run that is worked on stays out of everybody else's hands.
LEMMA OpenRowsStep ==
  ASSUME TypeOK, IInv, OpenRows, DeniedIsSaid, [Next]_vars
  PROVE  OpenRows'
<1>1. ASSUME NEW r \in Runs, r \in active'
      PROVE  OpenRow(r)'
  <2>1. RunStep(r)
    BY RunSteps
  <2>2. CASE StaysPut(r)
    <3>1. OpenRow(r) /\ runs'[r] = runs[r]
      BY <1>1, <2>2 DEF OpenRows, StaysPut
    <3> QED
      BY <3>1, TableStays DEF OpenRow, WaitsFor
  <2>3. CASE Begins(r) \/ TakenUp(r) \/ Goes(r)
    BY <2>3 DEF Begins, TakenUp, Goes, OpenRow, WaitsFor
  <2>4. ~Closed(r) /\ ~Ends(r) /\ ~Fails(r)
    BY <1>1 DEF Closed, Ends, Fails
  <2> QED
    BY <2>1, <2>2, <2>3, <2>4 DEF RunStep
<1>2. active' \in SUBSET Runs
  BY TypeStep DEF TypeOK
<1> QED
  BY <1>1, <1>2 DEF OpenRows

\* No run comes to wait in vain: it waits for a new command, or for the one it already waited
\* for, which is neither denied nor run on its behalf unless the run is taken up or closed.
LEMMA NothingWaitsStep ==
  ASSUME TypeOK, IInv, OpenRows, DeniedIsSaid, NothingWaitsInVain, [Next]_vars
  PROVE  NothingWaitsInVain'
<1> SUFFICES ASSUME faults' = 0, NEW r \in Runs, NEW p \in Actions, WaitsFor(r, p)'
             PROVE  /\ actions'[p].status # "rejected"
                    /\ actions'[p].status = "executed" /\ r \notin active' => startedBy'[p] # r
  BY DEF NothingWaitsInVain
<1>1. faults = 0
  BY FaultsGrow
<1>2. runs'[r].pendingActionId = p /\ p # Null /\ r # Null
  BY DEF WaitsFor
<1>3. CASE StaysPut(r)
  <2>1. WaitsFor(r, p) /\ (r \in active' <=> r \in active)
    BY <1>2, <1>3 DEF StaysPut, WaitsFor
  <2> QED
    BY <1>1, <1>2, <1>3, <2>1 DEF StaysPut, NothingWaitsInVain
<1>4. CASE TakenUp(r)
  BY <1>2, <1>4 DEF TakenUp, WaitsFor
<1>5. CASE Ends(r)
  BY <1>2, <1>5 DEF Ends
<1>6. ~Begins(r) /\ ~Closed(r) /\ ~Fails(r)
  BY <1>1, <1>2 DEF Begins, Closed, Fails
<1>7. ~Goes(r)
  BY <1>2, OrderStep DEF Order, WaitingFits, Goes
<1> QED
  BY <1>3, <1>4, <1>5, <1>6, <1>7, RunSteps DEF RunStep

\* The invariant behind the next three theorems.
Waits == OpenRows /\ DeniedIsSaid /\ NothingWaitsInVain

\* It is inductive together with the types and IInv.
LEMMA WaitsInvariance == Spec => [](TypeOK /\ IInv /\ Waits)
<1>1. Init => Waits
  BY DEF Init, NoRun, Waits, OpenRows, DeniedIsSaid, NothingWaitsInVain, WaitsFor
<1>2. TypeOK /\ IInv /\ Waits /\ [Next]_vars => Waits'
  BY OpenRowsStep, TableStays, NothingWaitsStep DEF Waits
<1> QED
  BY <1>1, <1>2, Invariance, PTL DEF Spec

\* Without faults no run waits for a command that was denied, or for one that was already run
\* on its behalf: settling a decision, resuming and saving a run never leave it stranded.
THEOREM WaitsCorrect == Spec => []NothingWaitsInVain
<1>1. Waits => NothingWaitsInVain
  BY DEF Waits
<1> QED
  BY <1>1, WaitsInvariance, PTL

\* A run that was closed keeps its result: whoever still works on a run, works on one that is
\* unfinished, deleted, or waits for the command that was claimed.
THEOREM ClosedCorrect == Spec => ClosedRunsStay
<1> DEFINE Stays ==
      \A r \in Runs :
        /\ runs[r].status \in {"completed", "error", "cancelled"}
        /\ runs[r].output # "unfinished"
        => runs'[r] = runs[r] \/ runs'[r].status = "deleted"
<1>1. TypeOK /\ IInv /\ Waits /\ [Next]_vars => Stays
  <2> SUFFICES ASSUME TypeOK, IInv, Waits, [Next]_vars, NEW r \in Runs,
                      runs[r].status \in {"completed", "error", "cancelled"},
                      runs[r].output # "unfinished"
               PROVE  runs'[r] = runs[r] \/ runs'[r].status = "deleted"
    OBVIOUS
  <2>1. RunStep(r)
    BY RunSteps DEF Waits
  <2>2. \A p \in Actions : ~WaitsFor(r, p)
    BY WaitingHasAgent
  <2>3. ~OpenRow(r)
    BY <2>2 DEF OpenRow
  <2>4. r \notin active
    BY <2>3 DEF Waits, OpenRows
  <2> QED
    BY <2>1, <2>2, <2>4 DEF RunStep, StaysPut, Begins, TakenUp, Closed, Ends, Fails, Goes
<1> QED
  BY <1>1, WaitsInvariance, PTL DEF Spec, ClosedRunsStay

\* A waiting run is taken up or closed only once the user decided, or with its agent.
THEOREM UserDecides == Spec => WaitsForTheUser
<1> DEFINE Decided ==
      \A r \in Runs, p \in Actions :
        WaitsFor(r, p) /\ ~WaitsFor(r, p)' => decision'[p] # "none" \/ runs'[r].status = "deleted"
<1>1. TypeOK /\ IInv /\ Waits /\ [Next]_vars => Decided
  <2> SUFFICES ASSUME TypeOK, IInv, Waits, [Next]_vars, NEW r \in Runs, NEW p \in Actions,
                      WaitsFor(r, p), ~WaitsFor(r, p)'
               PROVE  decision'[p] # "none" \/ runs'[r].status = "deleted"
    OBVIOUS
  <2>1. RunStep(r)
    BY RunSteps DEF Waits
  <2>2. runs[r].status = "awaiting_approval" /\ runs'[r] # runs[r]
    BY WaitingHasAgent DEF WaitsFor
  <2>3. actions'[p].status \in {"approved", "executed", "rejected"} => decision'[p] # "none"
    <3>1. Ledger' /\ DeniedIsSaid'
      BY TableStays, LedgerInvariant DEF Waits
    <3> QED
      BY <3>1 DEF Ledger, DeniedIsSaid
  <2>4. r \in active => actions'[p].status = "executed"
    <3>1. r \in active => actions[p].status = "executed"
      BY <2>2 DEF Waits, OpenRows, OpenRow, WaitsFor
    <3> QED
      BY <3>1, TableStays DEF Waits
  <2>5. Closed(r) => actions'[p].status \in {"approved", "executed", "rejected"}
    BY DEF Closed, WaitsFor
  <2> QED
    BY <2>1, <2>2, <2>3, <2>4, <2>5
       DEF RunStep, StaysPut, Begins, TakenUp, Ends, Fails, Goes
<1> QED
  BY <1>1, WaitsInvariance, PTL DEF Spec, WaitsForTheUser

-----------------------------------------------------------------------------
(* What a step does to one request, as far as its tool call is concerned. *)

\* A row of pending_actions asks for a tool.
AskedTools == \A p \in Actions : actions[p].status # "none" => actions[p].tool \in Tools

\* A claim is held only while its command runs.
ClaimsEnd == \A w \in Workers : workers[w].phase # "calling" => workers[w].claimed = Null

\* Every table of approvals grows, and asks for tools.
LEMMA ApprovalsGrow ==
  ASSUME TypeOK, IInv, AskedTools, [Next]_vars
  PROVE  ActionsGrow /\ AskedTools'
<1>1. ASSUME ActionsGrow, \A p \in Actions : actions'[p].status # "none" => actions[p].status # "none"
      PROVE  ActionsGrow /\ AskedTools'
  BY <1>1 DEF ActionsGrow, AskedTools
<1>2. CASE Untouched
  BY <1>1, <1>2, SameActionsGrow DEF Untouched
<1>3. ASSUME NEW p \in Actions, Asked(p)
      PROVE  ActionsGrow /\ AskedTools'
  <2>1. PICK w \in Workers, tool \in Tools : CreateAction(w, p, tool)
    BY <1>3 DEF Asked
  <2> QED
    BY <2>1, CreateActionGrows DEF AskedTools
<1>4. ASSUME NEW p \in Actions, DecisionOn(p)
      PROVE  ActionsGrow /\ AskedTools'
  <2>1. PICK status : actions' = [actions EXCEPT ![p].status = status]
    BY <1>4 DEF DecisionOn
  <2>2. \A q \in Actions : q # p => actions'[q] = actions[q]
    BY <2>1 DEF TypeOK
  <2>3. actions[p].status = "pending"
    BY <1>4 DEF DecisionOn
  <2> QED
    BY <1>1, <1>4, <2>2, <2>3, DecisionGrows
<1>5. ASSUME NEW p \in Actions, UsedUp(p)
      PROVE  ActionsGrow /\ AskedTools'
  <2>1. /\ actions[p].status = "approved" /\ actions'[p].status = "executed"
        /\ actions'[p].tool = actions[p].tool /\ actions'[p].workspaceId = actions[p].workspaceId
        /\ \A q \in Actions \ {p} : actions'[q] = actions[q]
    BY <1>5 DEF UsedUp, TypeOK, ActionRow
  <2> QED
    BY <1>1, <2>1 DEF ActionsGrow
<1>6. CASE UNCHANGED vars
  BY <1>2, <1>6 DEF vars, Untouched
<1>7. CASE Next
  BY <1>2, <1>3, <1>4, <1>5, <1>7, TableSteps
<1> QED
  BY <1>6, <1>7

\* The request's call, if any, is the same.
SameCall(v) ==
  /\ workers'[v].phase = workers[v].phase
  /\ workers'[v].workspaceId = workers[v].workspaceId
  /\ workers'[v].tools = workers[v].tools
  /\ workers'[v].mode = workers[v].mode
  /\ workers'[v].tool = workers[v].tool
  /\ workers'[v].claimed = workers[v].claimed

\* The request makes no call.
NoCall(v) == workers'[v].phase # "calling" /\ workers'[v].claimed = Null

\* The request starts a call the model asked for, which needs no approval.
StartsCall(v) ==
  /\ workers'[v].claimed = Null
  /\ workers'[v].tool \in workers'[v].tools
  /\ ~MustAsk(workers'[v].mode, workers'[v].tool)

\* The request starts an approved command of its workspace.
StartsClaim(v) ==
  \E p \in Actions :
    /\ actions'[p].status = "executed"
    /\ workers'[v].phase = "calling"
    /\ workers'[v].claimed = p
    /\ workers'[v].tool = actions'[p].tool
    /\ workers'[v].tool \in workers'[v].tools
    /\ workers'[v].workspaceId = actions'[p].workspaceId

CallStep(v) ==
  SameCall(v) \/ NoCall(v) \/ (StartsCall(v) /\ workers'[v].phase = "calling") \/ StartsClaim(v)

\* Requests that are left alone.
LEMMA SameCallStep ==
  ASSUME NEW v \in Workers, workers'[v] = workers[v]
  PROVE  CallStep(v)
BY DEF CallStep, SameCall

\* A request that ends, and one that goes back to the loop.
LEMMA LoopCallStep ==
  ASSUME TypeOK, NEW w \in Workers, NEW v \in Workers,
         \/ LoopBack(w)
         \/ \E status, output, p : SaveRun(w, status, output, p)
  PROVE  CallStep(v)
<1>1. ASSUME NEW status, NEW output, NEW p, SaveRun(w, status, output, p)
      PROVE  CallStep(v)
  <2>1. workers'[v] = IF v = w THEN Idle ELSE workers[v]
    BY <1>1 DEF SaveRun, TypeOK
  <2> QED
    BY <2>1, IdleFields, SameCallStep DEF CallStep, NoCall
<1>2. CASE GoOn(w)
  <2>1. \/ v # w /\ workers'[v] = workers[v]
        \/ v = w /\ workers'[v].phase = "thinking" /\ workers'[v].claimed = Null
    BY <1>2 DEF GoOn, TypeOK, Worker
  <2> QED
    BY <2>1, SameCallStep DEF CallStep, NoCall
<1> QED
  BY <1>1, <1>2 DEF LoopBack

\* A step of a request.
LEMMA StepCallStep ==
  ASSUME TypeOK, ClaimsEnd, NEW w \in Workers, Step(w), NEW v \in Workers
  PROVE  CallStep(v)
<1>1. ASSUME NEW tool \in Tools, CallTool(w, tool), ~Aborted(w)
      PROVE  CallStep(v)
  <2>1. /\ workers' = [workers EXCEPT ![w].phase = "calling", ![w].tool = tool]
        /\ tool \in workers[w].tools /\ ~MustAsk(workers[w].mode, tool)
        /\ workers[w].phase = "thinking"
    BY <1>1 DEF CallTool, allowsTool
  <2>2. CASE v # w
    BY <2>1, <2>2, SameCallStep DEF TypeOK
  <2>3. CASE v = w
    <3>1. /\ workers'[w].phase = "calling" /\ workers'[w].tool = tool
          /\ workers'[w].tools = workers[w].tools /\ workers'[w].mode = workers[w].mode
          /\ workers'[w].claimed = workers[w].claimed
      BY <2>1 DEF TypeOK, Worker
    <3>2. workers[w].claimed = Null
      BY <2>1 DEF ClaimsEnd
    <3> QED
      BY <2>1, <2>3, <3>1, <3>2 DEF CallStep, StartsCall
  <2> QED
    BY <2>2, <2>3
<1>2. CASE \E tool \in Tools : CallTool(w, tool) /\ Aborted(w)
  BY <1>2, LoopCallStep DEF CallTool
<1>3. CASE Route(w) \/ Answer(w) \/ Finish(w) \/ Retry(w) \/ ToolReturns(w)
  BY <1>3, LoopCallStep DEF Route, Answer, Finish, Retry, ToolReturns
<1>4. CASE \E p \in Actions, tool \in Tools : ProposeAction(w, p, tool)
  BY <1>4, LoopCallStep DEF ProposeAction
<1> QED
  BY <1>1, <1>2, <1>3, <1>4 DEF Step, ScanRepo

\* A claim: the persona has the tool, and the command is the stored one of its workspace.
LEMMA ClaimCallStep ==
  ASSUME TypeOK, IInv, AskedTools, NEW w \in Workers, NEW p \in Actions, NEW v \in Workers,
         \/ \E r \in Runs : ResumeRun(w, r, p)
         \/ ChatResume(w, p) \/ TaskResume(w, p)
  PROVE  CallStep(v)
<1>1. PICK x \in Worker : /\ ClaimAndCall(w, p, x)
                          /\ MayClaim(p, x.workspaceId) /\ actions[p].tool \in x.tools
  <2>1. ASSUME NEW r \in Runs, ResumeRun(w, r, p)
        PROVE  \E x \in Worker : /\ ClaimAndCall(w, p, x)
                                 /\ MayClaim(p, x.workspaceId) /\ actions[p].tool \in x.tools
    <3> DEFINE g == runs[r].agentId
               x(signal) == Thinking(r, agents[g].workspaceId, agents[g].tools, "ask", signal)
    <3>1. PICK signal \in {"open", "none"} : ClaimAndCall(w, p, x(signal))
      BY <2>1 DEF ResumeRun
    <3>2. g \in Agents
      BY <2>1, WaitingHasAgent DEF ResumeRun, TypeOK, RunRow
    <3>3. x(signal) \in Worker
      BY <3>2, ThinkingType DEF TypeOK, AgentRow
    <3>4. x(signal).workspaceId = agents[g].workspaceId /\ x(signal).tools = agents[g].tools
      BY DEF Thinking, Idle
    <3>5. MayClaim(p, agents[g].workspaceId) /\ actions[p].tool \in agents[g].tools
      BY <2>1 DEF ResumeRun
    <3> QED
      BY <3>1, <3>3, <3>4, <3>5
  <2>2. ASSUME ChatResume(w, p) \/ TaskResume(w, p)
        PROVE  \E x \in Worker : /\ ClaimAndCall(w, p, x)
                                 /\ MayClaim(p, x.workspaceId) /\ actions[p].tool \in x.tools
    <3>1. actions[p].status = "approved" => actions[p].tool \in Tools
      BY DEF AskedTools
    <3>2. PICK ws \in Workspaces, T \in SUBSET Tools, mode \in {"ask", "auto", "bypass"},
               signal \in {"none", "open"}, lone \in BOOLEAN :
            /\ MayClaim(p, ws) /\ actions[p].tool \in T
            /\ ClaimAndCall(w, p, [Thinking(Null, ws, T, mode, signal) EXCEPT !.lone = lone])
      BY <2>2, <3>1, PersonasType DEF ChatResume, TaskResume, MayClaim
    <3> DEFINE x == [Thinking(Null, ws, T, mode, signal) EXCEPT !.lone = lone]
    <3>3. /\ Thinking(Null, ws, T, mode, signal) \in Worker
          /\ Thinking(Null, ws, T, mode, signal).workspaceId = ws
          /\ Thinking(Null, ws, T, mode, signal).tools = T
      BY ThinkingType DEF Thinking, Idle
    <3>4. x \in Worker /\ x.workspaceId = ws /\ x.tools = T
      BY <3>3 DEF Worker
    <3> QED
      BY <3>2, <3>4
  <2> QED
    BY <2>1, <2>2
<1>2. /\ actions'[p].status = "executed"
      /\ actions'[p].tool = actions[p].tool /\ actions'[p].workspaceId = actions[p].workspaceId
  BY <1>1 DEF ClaimAndCall, TypeOK, ActionRow
<1>3. CASE v # w
  BY <1>1, <1>3, SameCallStep DEF ClaimAndCall, TypeOK
<1>4. CASE v = w
  <2>1. /\ workers'[w].phase = "calling" /\ workers'[w].claimed = p
        /\ workers'[w].tool = actions[p].tool /\ workers'[w].tools = x.tools
        /\ workers'[w].workspaceId = x.workspaceId
    BY <1>1 DEF ClaimAndCall, TypeOK, Worker
  <2> QED
    BY <1>1, <1>2, <1>4, <2>1 DEF CallStep, StartsClaim, MayClaim
<1> QED
  BY <1>3, <1>4

\* Every step of the system does one of the four things to a request.
LEMMA CallSteps ==
  ASSUME TypeOK, IInv, AskedTools, ClaimsEnd, [Next]_vars, NEW v \in Workers
  PROVE  CallStep(v)
<1>1. CASE UNCHANGED workers
  BY <1>1, SameCallStep
<1>2. ASSUME NEW w \in Workers, NEW g \in Agents, NEW r \in Runs, StartRun(w, g, r)
      PROVE  CallStep(v)
  <2>1. PICK ws, T, signal : workers' = [workers EXCEPT ![w] = Thinking(r, ws, T, "ask", signal)]
    BY <1>2 DEF StartRun
  <2>2. /\ Thinking(r, ws, T, "ask", signal).phase = "thinking"
        /\ Thinking(r, ws, T, "ask", signal).claimed = Null
    BY DEF Thinking, Idle
  <2>3. workers'[v] = IF v = w THEN Thinking(r, ws, T, "ask", signal) ELSE workers[v]
    BY <2>1 DEF TypeOK
  <2> QED
    BY <2>2, <2>3, SameCallStep DEF CallStep, NoCall
<1>3. ASSUME NEW w \in Workers, StartPlain(w)
      PROVE  CallStep(v)
  <2>1. PICK ws, T, mode, signal, phase :
          /\ workers' = [workers EXCEPT
                           ![w] = [Thinking(Null, ws, T, mode, signal) EXCEPT !.phase = phase]]
          /\ phase # "calling"
    BY <1>3 DEF StartPlain
  <2> DEFINE x == [Thinking(Null, ws, T, mode, signal) EXCEPT !.phase = phase]
  <2>2. x.phase # "calling" /\ x.claimed = Null
    BY <2>1 DEF Thinking, Idle
  <2>3. workers'[v] = IF v = w THEN x ELSE workers[v]
    BY <2>1 DEF TypeOK
  <2> QED
    BY <2>2, <2>3, SameCallStep DEF CallStep, NoCall
<1>4. ASSUME NEW w \in Workers, Abort(w)
      PROVE  CallStep(v)
  BY <1>4 DEF Abort, TypeOK, Worker, CallStep, SameCall
<1>5. CASE Restart
  BY <1>5, IdleFields DEF Restart, CallStep, NoCall
<1>6. ASSUME NEW w \in Workers, LogWriteFails(w)
      PROVE  CallStep(v)
  BY <1>6, LoopCallStep DEF LogWriteFails
<1>7. CASE UNCHANGED vars
  BY <1>1, <1>7 DEF vars
<1>8. CASE Next
  BY <1>1, <1>2, <1>3, <1>4, <1>5, <1>6, <1>8, StepCallStep, ClaimCallStep
     DEF Next, CreateAgent, UpdateAgent, DeleteAgent, ResumeRefused, ResumeSettled, Approve, Reject,
         Crash, CrashAfterClaim, CrashAfterReject, CrashAfterPropose
<1> QED
  BY <1>7, <1>8

\* What makes CallsAreAllowed inductive.
Calls == AskedTools /\ ClaimsEnd /\ CallsAreAllowed

\* One of the four keeps each request's call allowed.
LEMMA CallsKept ==
  ASSUME TypeOK, IInv, Calls, [Next]_vars
  PROVE  Calls'
<1>1. ActionsGrow /\ AskedTools'
  BY ApprovalsGrow DEF Calls
<1>2. ASSUME NEW v \in Workers
      PROVE  CallStep(v)
  BY CallSteps DEF Calls
<1>3. ClaimsEnd'
  BY <1>2 DEF Calls, ClaimsEnd, CallStep, SameCall, NoCall, StartsClaim
<1>4. CallsAreAllowed'
  <2> SUFFICES ASSUME NEW v \in Workers, workers'[v].phase = "calling"
               PROVE  LET x == workers'[v] IN
                        /\ x.tool \in x.tools
                        /\ x.tool \in Dangerous /\ x.mode = "ask" => x.claimed # Null
                        /\ x.claimed # Null => /\ actions'[x.claimed].workspaceId = x.workspaceId
                                               /\ actions'[x.claimed].tool = x.tool
                                               /\ actions'[x.claimed].status = "executed"
    BY DEF CallsAreAllowed
  <2>1. CASE SameCall(v)
    <3>1. workers[v].claimed \in Actions \cup {Null}
      BY DEF TypeOK, Worker
    <3> QED
      BY <1>1, <2>1, <3>1 DEF SameCall, Calls, CallsAreAllowed, ActionsGrow
  <2>2. CASE StartsCall(v)
    BY <2>2 DEF StartsCall, MustAsk
  <2>3. CASE StartsClaim(v)
    BY <2>3 DEF StartsClaim
  <2> QED
    BY <1>2, <2>1, <2>2, <2>3 DEF CallStep, NoCall
<1> QED
  BY <1>1, <1>3, <1>4 DEF Calls

\* In every mode, with every crash: a tool that runs is one the persona has, and a command that
\* needed the user is the one that was approved, in the workspace it was approved for.
THEOREM CallsCorrect == Spec => []CallsAreAllowed
<1>1. Init => Calls
  BY IdleFields DEF Init, Calls, AskedTools, ClaimsEnd, CallsAreAllowed
<1>2. TypeOK /\ IInv /\ Calls /\ [Next]_vars => Calls'
  BY CallsKept
<1>3. Calls => CallsAreAllowed
  BY DEF Calls
<1> QED
  BY <1>1, <1>2, <1>3, Invariance, PTL DEF Spec
=============================================================================
