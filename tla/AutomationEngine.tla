--------------------------- MODULE AutomationEngine ---------------------------
(***************************************************************************)
(* The background automations: the 30-second scheduler, the handlers of    *)
(* workspace events and the "run now" button all run workflows of one      *)
(* table, and the set inFlight is to keep them from running one twice.     *)
(*                                                                         *)
(* Node runs one callback at a time; a run suspends once, inside the       *)
(* workflow's action. A handler of an event takes the matching workflows   *)
(* as they are at the event and runs them one after another.               *)
(***************************************************************************)
EXTENDS Naturals, Sequences, FiniteSets

CONSTANTS
  Workflows,    \* ids an automations row can get
  Handlers,     \* events being handled at once
  Requests,     \* "run now" requests in progress at once
  MaxStimuli,   \* bound of the model: what users and the clock do
  MaxFaults,    \* bound of the model: crashes and failed writes
  MaxCount,     \* bound of the model: counts from here on are not told apart
  Null          \* no workflow

ASSUME EngineAssumption ==
  /\ Workflows \cap Handlers = {} /\ Requests \cap (Workflows \cup Handlers) = {}
  /\ Null \notin Workflows
  /\ MaxStimuli \in Nat /\ MaxFaults \in Nat /\ MaxCount \in Nat

VARIABLES
  automations,   \* Workflows -> row of the table
  inFlight,      \* workflows being run, in memory only
  calls,         \* Callers -> the run in progress
  stimuli,       \* how often a user or the clock did something
  faults,        \* how many crashes and failed writes there were
  \* What really happened, kept for the properties; the code has no such state.
  logged,        \* Workflows -> runs written to automation_logs
  starts         \* Workflows -> runs the scheduler started since the workflow became due

vars == <<automations, inFlight, calls, stimuli, faults, logged, starts>>

-----------------------------------------------------------------------------

\* due: what isWorkflowDue says of a scheduled row. Time makes it true, lastRunAt false.
Row == [state : {"absent", "active", "paused", "deleted"},
        trigger : {"schedule", "event", "manual"},
        due : BOOLEAN,
        runCount : Nat]

\* The scheduler's call for a workflow is named after it: there is never a second one.
Callers == Workflows \cup Handlers \cup Requests

\* A workflow as it was read from the table, with the count it had then.
Snapshot == [workflow : Workflows, runCount : Nat]

\* todo: the workflows an event's handler has still to come to.
Call == [running : Workflows \cup {Null}, runCount : Nat, todo : Seq(Snapshot), mayEmit : BOOLEAN]

Increment(n) == IF n < MaxCount THEN n + 1 ELSE n

NoCall == [running |-> Null, runCount |-> 0, todo |-> <<>>, mayEmit |-> FALSE]

Exists(w) == automations[w].state \in {"active", "paused"}

Read(w) == [workflow |-> w, runCount |-> automations[w].runCount]

\* executeWorkflow up to the action's first await.
Running(s, todo) == [running |-> s.workflow, runCount |-> s.runCount, todo |-> todo,
                     mayEmit |-> TRUE]

\* A database left by an earlier session; the counts start at zero.
Init ==
  /\ automations \in [Workflows -> {r \in [state : {"absent", "active", "paused"},
                                           trigger : {"schedule", "event", "manual"},
                                           due : BOOLEAN, runCount : {0}] :
                                      r.due => r.trigger = "schedule" /\ r.state # "absent"}]
  /\ inFlight = {}
  /\ calls = [c \in Callers |-> NoCall]
  /\ stimuli = 0
  /\ faults = 0
  /\ logged = [w \in Workflows |-> 0]
  /\ starts = [w \in Workflows |-> 0]

-----------------------------------------------------------------------------
(* Users and the clock. *)

Stimulus == stimuli < MaxStimuli /\ stimuli' = stimuli + 1

\* A row with its trigger and status, by a user; what makes it due is computed from both.
Save(w, runCount) ==
  \E state \in {"active", "paused"}, trigger \in {"schedule", "event", "manual"}, due \in BOOLEAN :
    /\ due => trigger = "schedule"
    /\ automations' = [automations EXCEPT ![w] = [state |-> state, trigger |-> trigger,
                                                  due |-> due, runCount |-> runCount]]

CreateAutomation(w) ==
  /\ Stimulus
  /\ automations[w].state = "absent"
  /\ Save(w, 0)
  /\ UNCHANGED <<inFlight, calls, faults, logged, starts>>

\* Run statistics are not the user's to change.
UpdateAutomation(w) ==
  /\ Stimulus
  /\ Exists(w)
  /\ Save(w, automations[w].runCount)
  /\ starts' = [starts EXCEPT ![w] = 0]
  /\ UNCHANGED <<inFlight, calls, faults, logged>>

DeleteAutomation(w) ==
  /\ Stimulus
  /\ Exists(w)
  /\ automations' = [automations EXCEPT ![w].state = "deleted", ![w].due = FALSE]
  /\ UNCHANGED <<inFlight, calls, faults, logged, starts>>

\* The period since the last run elapsed, or the time of day came.
BecomesDue(w) ==
  /\ Stimulus
  /\ Exists(w)
  /\ automations[w].trigger = "schedule"
  /\ ~automations[w].due
  /\ automations' = [automations EXCEPT ![w].due = TRUE]
  /\ starts' = [starts EXCEPT ![w] = 0]
  /\ UNCHANGED <<inFlight, calls, faults, logged>>

-----------------------------------------------------------------------------
(* Runs begin. *)

Due(w) ==
  /\ automations[w].state = "active"
  /\ automations[w].trigger = "schedule"
  /\ automations[w].due

\* Bug: a run in progress does not keep the scheduler from starting the next one.
MayRunAnyway(w, busy) == w \in Workflows \cup busy

MayRun(w, busy) == w \notin busy

\* One tick of the scheduler starts everything that is due, in one callback.
CheckScheduledWorkflows ==
  LET D == {w \in Workflows : Due(w) /\ MayRun(w, inFlight)}
  IN  /\ D # {}
      /\ calls' = [c \in Callers |-> IF c \in D THEN Running(Read(c), <<>>) ELSE calls[c]]
      /\ inFlight' = inFlight \cup D
      /\ starts' = [w \in Workflows |-> IF w \in D THEN starts[w] + 1 ELSE starts[w]]
      /\ UNCHANGED <<automations, stimuli, faults, logged>>

\* The loop of handleEventTrigger as far as its next run: workflows in flight are passed over.
Continue(todo, busy) ==
  LET Free == {i \in DOMAIN todo : MayRun(todo[i].workflow, busy)}
  IN  IF Free = {} THEN NoCall
      ELSE LET i == CHOOSE j \in Free : \A k \in Free : j <= k
           IN  Running(todo[i], SubSeq(todo, i + 1, Len(todo)))

\* Which workflows an event runs, by its name and their filters. Ids are in no order of creation.
Matching(todo) ==
  /\ \A i \in DOMAIN todo : automations[todo[i].workflow].state = "active"
                         /\ automations[todo[i].workflow].trigger = "event"
  /\ \A i, j \in DOMAIN todo : i # j => todo[i].workflow # todo[j].workflow

Todos == UNION {[1 .. n -> {Read(w) : w \in Workflows}] : n \in 1 .. Cardinality(Workflows)}

HandleEventTrigger(h) ==
  /\ calls[h].running = Null
  /\ \E todo \in Todos :
       /\ Matching(todo)
       /\ LET call == Continue(todo, inFlight)
          IN  /\ call # NoCall
              /\ calls' = [calls EXCEPT ![h] = call]
              /\ inFlight' = inFlight \cup {call.running}

\* An event of a user's own doing: a memory, a task or a chat.
UserEvent(h) ==
  /\ Stimulus
  /\ HandleEventTrigger(h)
  /\ UNCHANGED <<automations, faults, logged, starts>>

\* "Run now", also of a paused workflow.
TriggerNow(q, w) ==
  /\ Stimulus
  /\ Exists(w)
  /\ calls[q].running = Null
  /\ calls' = [calls EXCEPT ![q] = Running(Read(w), <<>>)]
  /\ UNCHANGED <<automations, inFlight, faults, logged, starts>>

-----------------------------------------------------------------------------
(* A run in progress. *)

\* What an action leaves behind: an agent task may store the memory of its run. Reports, work on
\* the graph and the runs of a user's agents emit nothing that an automation listens to.
MayStore(c) == calls[c].mayEmit

\* An agent task stores a memory, and its MEMORY_CREATED is handled before the run goes on.
StoresMemory(c, h) ==
  /\ MayStore(c)
  /\ c # h
  /\ calls[h].running = Null
  /\ \E todo \in Todos :
       /\ Matching(todo)
       /\ LET call == Continue(todo, inFlight)
          IN  /\ call # NoCall
              /\ calls' = [calls EXCEPT ![h] = call, ![c].mayEmit = FALSE]
              /\ inFlight' = inFlight \cup {call.running}
  /\ UNCHANGED <<automations, stimuli, faults, logged, starts>>

\* Bug: a run that throws stays in flight.
EndKeepsFailed(c, ok) ==
  LET busy == IF ok /\ c \notin Requests THEN inFlight \ {calls[c].running} ELSE inFlight
      next == IF ok THEN Continue(calls[c].todo, busy) ELSE NoCall
  IN  /\ calls' = [calls EXCEPT ![c] = next]
      /\ inFlight' = busy \cup ({next.running} \ {Null})

\* The run leaves inFlight, unless it was asked for by "run now". A handler goes on with its
\* next workflow, but not after a write that failed: the exception leaves its loop.
End(c, ok) ==
  LET busy == IF c \in Requests THEN inFlight ELSE inFlight \ {calls[c].running}
      next == IF ok THEN Continue(calls[c].todo, busy) ELSE NoCall
  IN  /\ calls' = [calls EXCEPT ![c] = next]
      /\ inFlight' = busy \cup ({next.running} \ {Null})

\* Bug: the run is counted before it is logged.
CountWithoutLog(c) ==
  /\ automations' = [automations EXCEPT ![calls[c].running].runCount = Increment(@)]
  /\ UNCHANGED logged

NoRecord(c) == UNCHANGED <<automations, logged>>

\* The end of executeWorkflow. The log row refers to the automation: it can't be written once
\* that was deleted. The count is the one read when the run was decided on, plus one.
FinishWorkflow(c) ==
  LET w == calls[c].running
  IN  /\ w # Null
      /\ IF Exists(w)
         THEN /\ logged' = [logged EXCEPT ![w] = Increment(@)]
              /\ automations' = [automations EXCEPT ![w].runCount = Increment(calls[c].runCount),
                                                    ![w].due = FALSE]
              /\ End(c, TRUE)
         ELSE NoRecord(c) /\ End(c, FALSE)
      /\ UNCHANGED <<stimuli, faults, starts>>

\* The log row can't be written for another reason, so lastRunAt is not written either.
LogFails(c) ==
  /\ faults < MaxFaults
  /\ faults' = faults + 1
  /\ calls[c].running # Null
  /\ NoRecord(c)
  /\ End(c, FALSE)
  /\ UNCHANGED <<stimuli, starts>>

-----------------------------------------------------------------------------
(* Crash and restart: the tables survive. *)

Restart ==
  /\ faults < MaxFaults
  /\ faults' = faults + 1
  /\ inFlight' = {}
  /\ calls' = [c \in Callers |-> NoCall]

Crash ==
  /\ \E c \in Callers : calls[c].running # Null
  /\ Restart
  /\ UNCHANGED <<automations, stimuli, logged, starts>>

\* After the log row was written, before the row of the automation was.
CrashAfterLog(c) ==
  /\ Restart
  /\ calls[c].running # Null
  /\ Exists(calls[c].running)
  /\ logged' = [logged EXCEPT ![calls[c].running] = Increment(@)]
  /\ UNCHANGED <<automations, stimuli, starts>>

-----------------------------------------------------------------------------

Next ==
  \/ \E w \in Workflows :
       CreateAutomation(w) \/ UpdateAutomation(w) \/ DeleteAutomation(w) \/ BecomesDue(w)
  \/ CheckScheduledWorkflows
  \/ \E h \in Handlers : UserEvent(h)
  \/ \E q \in Requests, w \in Workflows : TriggerNow(q, w)
  \/ \E c \in Callers, h \in Handlers : StoresMemory(c, h)
  \/ \E c \in Callers : FinishWorkflow(c) \/ LogFails(c)
  \/ Crash
  \/ \E c \in Callers : CrashAfterLog(c)

Spec == Init /\ [][Next]_vars

\* The timer ticks, and every action of a workflow ends or times out.
FairSpec ==
  /\ Spec
  /\ WF_vars(CheckScheduledWorkflows)
  /\ \A c \in Callers : WF_vars(FinishWorkflow(c))

-----------------------------------------------------------------------------
(* Properties. *)

\* A handler comes to a workflow once.
ComesOnce(c) ==
  LET todo == calls[c].todo
  IN  /\ \A i \in DOMAIN todo : todo[i].workflow # calls[c].running
      /\ \A i, j \in DOMAIN todo : i # j => todo[i].workflow # todo[j].workflow

TypeOK ==
  /\ automations \in [Workflows -> Row]
  /\ inFlight \subseteq Workflows
  /\ calls \in [Callers -> Call]
  /\ \A c \in Callers : ComesOnce(c)
  /\ stimuli \in 0 .. MaxStimuli
  /\ faults \in 0 .. MaxFaults
  /\ logged \in [Workflows -> Nat]
  /\ starts \in [Workflows -> Nat]

Guarded == Workflows \cup Handlers

\* inFlight is exactly what the scheduler and the event handlers are running, and no two of them
\* run one workflow: on every way a run can end, thrown or not, it leaves the set, or the
\* workflow would never run again. A handler comes to a workflow once; every variable keeps its
\* type.
InFlightIsExact ==
  /\ TypeOK
  /\ inFlight = {calls[c].running : c \in Guarded} \ {Null}
  /\ \A c, d \in Guarded : calls[c].running = calls[d].running => c = d \/ calls[c].running = Null

\* A run that is due happens once and is counted at most once: the scheduler starts a workflow
\* once in the time it is due, but for crashes and failed writes, which lose lastRunAt, and
\* whatever stale counts are written back, no run is counted that was not logged.
RunsAreCounted ==
  \A w \in Workflows :
    /\ starts[w] <= 1 + faults
    /\ automations[w].runCount <= logged[w]

\* A workflow that is due is run, unless somebody pauses, edits or deletes it first.
DueRuns ==
  \A w \in Workflows : Due(w) ~> ~Due(w) \/ \E c \in Callers : calls[c].running = w

Idle == \A c \in Callers : calls[c].running = Null

\* A workflow whose action emits its own trigger does not keep itself running: with one workflow
\* that listens to events, the engine comes to rest once users and the clock do.
SelfTriggersStop ==
  [](Cardinality({w \in Workflows : automations[w].trigger = "event"}) <= 1) => <>[]Idle

=============================================================================
