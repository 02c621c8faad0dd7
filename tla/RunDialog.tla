------------------------------ MODULE RunDialog ------------------------------
(***************************************************************************)
(* The dialog that runs one agent, over the rows of its runs: it starts a  *)
(* run, shows the command a run waits for, sends the user's decision,      *)
(* tells the run about it, stops the request that is out, and lists the    *)
(* recent runs. It may be closed and opened again while any of that is     *)
(* under way, and the same commands are decided on the Tasks page.         *)
(***************************************************************************)
EXTENDS Naturals, FiniteSets, Functions

CONSTANTS
  Runs,        \* the runs of the agent
  Ids,         \* names of the requests to run that are out; their number bounds the model
  Null,
  MaxCommands, \* bound of the model: commands of each run
  Waiting,     \* the runs that already wait for a command
  MaxDecisions, \* bound of the model: decisions that are out at once
  MaxFaults    \* bound of the model: lost connections, and decisions on other pages

ASSUME RunDialogAssumption ==
  /\ Null \notin Runs \cup (Runs \X Nat) \cup Ids
  /\ MaxCommands \in [Runs -> Nat] /\ {MaxDecisions, MaxFaults} \subseteq Nat
  /\ Waiting \subseteq {r \in Runs : MaxCommands[r] > 0}

VARIABLES
  rows,      \* agent_runs: status, the command that is waited for, and how often the row was written
  commands,  \* pending_actions: the status of each command
  active,    \* runs being worked on: the request that waits for it, if that is one of this dialog
  screen,    \* state of RunBody
  card,      \* state of the ApprovalCard that is shown, or Null
  requests,  \* run requests that are out, by id
  decisions, \* decisions that are out
  loads,     \* requests for the recent runs that are out
  excused,   \* commands that were approved elsewhere, or whose run was not told because of a Stop or a
             \* lost connection; kept for the properties
  faults

vars == <<rows, commands, active, screen, card, requests, decisions, loads, excused, faults>>
server == <<rows, commands, active>>

-----------------------------------------------------------------------------

Commands == UNION {{r} \X (1 .. MaxCommands[r]) : r \in Runs}
CommandsOrNull == Commands \cup {Null}

\* ended: completed, cancelled, or error, which a run also is from its start.
Statuses == {"none", "awaiting_approval", "ended"}
Row == [status : Statuses, command : CommandsOrNull, writes : Nat]
NoRow == [status |-> "none", command |-> Null, writes |-> 0]

\* A function with one more argument.
And(f, x, value) == [y \in DOMAIN f \cup {x} |-> IF y = x THEN value ELSE f[y]]

\* A run as it is shown.
Copy == [id : Runs, row : Row]

\* mine: the dialog that is open waits for it. handled: the server took it.
NewRequest(mode, command, target) ==
  [mode |-> mode, command |-> command, target |-> target, mine |-> TRUE,
   aborted |-> FALSE, handled |-> FALSE, answer |-> Null]

\* The answer is not used any more, because the dialog was closed or the request given up. In the second
\* case it may never have reached the server.
Unawaited(q, aborted) ==
  [q EXCEPT !.mine = FALSE, !.target = Null, !.aborted = aborted /\ ~q.handled,
            !.mode = IF @ = "starting" THEN @ ELSE "checking"]

\* What a request is answered with: a run, or an error.
RunIs(run) == [kind |-> "run", run |-> run]
Refusal(why) == [kind |-> why, run |-> Null]

\* None of them is no answer.
ASSUME AnswerAssumption == \A why \in {"error", "undecided", "none"} : Null # Refusal(why)

Modes == {"starting", "continuing", "checking", "closing"}
ModeOf(decision) == IF decision = "approved" THEN "continuing" ELSE "closing"

Blank == [run |-> Null, busy |-> Null, error |-> FALSE, retry |-> Null,
          controller |-> Null, history |-> [r \in Runs |-> NoRow], historyError |-> FALSE, open |-> FALSE]

NewLoad == [newest |-> TRUE, found |-> Null]

\* Only the newest load counts. Of the older ones the last is kept, if the server answered it already.
Overtaken == {[l EXCEPT !.newest = FALSE] : l \in {x \in loads : x.newest /\ x.found # Null}}
LoadHistory == loads' = Overtaken \cup {NewLoad}

Waits(c) == {r \in Runs : rows[r].status = "awaiting_approval" /\ rows[r].command = c}

pendingId(s) == IF s.run # Null /\ s.run.row.status = "awaiting_approval" THEN s.run.row.command ELSE Null

NewCard(c) == [command |-> c, shows |-> Null, found |-> Null, decision |-> Null]

\* The card has the command as its key: another command gets a new card, which asks the server for it.
Keyed(c) == IF card # Null /\ card.command = c THEN card ELSE NewCard(c)

CardFor(s) == IF pendingId(s) = Null THEN Null ELSE Keyed(pendingId(s))

Render(s) == screen' = s /\ card' = CardFor(s)

showRun(s, run) == [s EXCEPT !.run = run, !.retry = Null, !.error = FALSE]

Fault == faults < MaxFaults /\ faults' = faults + 1

Init ==
  /\ rows = [r \in Runs |-> IF r \in Waiting
               THEN [status |-> "awaiting_approval", command |-> <<r, 1>>, writes |-> 1] ELSE NoRow]
  /\ commands = [c \in Commands |-> IF c[1] \in Waiting /\ c[2] = 1 THEN "pending" ELSE "none"]
  /\ active = [r \in {} |-> Null]
  /\ screen = Blank
  /\ card = Null
  /\ requests = [i \in {} |-> Null]
  /\ decisions = {}
  /\ loads = {}
  /\ excused = {}
  /\ faults = 0

-----------------------------------------------------------------------------
(* The dialog. *)

Open ==
  /\ ~screen.open
  /\ screen' = [Blank EXCEPT !.open = TRUE]
  /\ LoadHistory
  /\ UNCHANGED <<server, card, requests, decisions, excused, faults>>

\* What is out stays out: a run goes on without the dialog.
Close ==
  /\ screen.open
  /\ screen' = Blank
  /\ card' = Null
  /\ requests' = [i \in {x \in DOMAIN requests : requests[x].answer = Null} |-> Unawaited(requests[i], requests[i].aborted)]
  /\ decisions' = {[d EXCEPT !.mine = FALSE] : d \in {x \in decisions : x.answer \in {Null, Refusal("none")}}}
  /\ loads' = {}
  /\ UNCHANGED <<server, excused, faults>>

\* perform: a request, and for the open dialog its busy state and Stop button.
Perform(s, request) ==
  \E id \in Ids \ DOMAIN requests :
    /\ requests' = And(requests, id, request)
    /\ Render([s EXCEPT !.busy = request.mode, !.error = FALSE, !.retry = Null, !.controller = id])

\* The bound on runs counts those that are about to be made.
Starts(i) == requests[i].mode = "starting" /\ ~requests[i].handled

handleSubmit ==
  /\ screen.open /\ screen.busy = Null /\ pendingId(screen) = Null
  /\ Cardinality({r \in Runs : rows[r] = NoRow}) > Cardinality({i \in DOMAIN requests : Starts(i)})
  /\ Perform([screen EXCEPT !.run = Null], NewRequest("starting", Null, Null))
  /\ UNCHANGED <<server, decisions, loads, excused, faults>>

\* The button Review of a row that waits. Decisions that are out do not count as busy.
reviewRun(r) ==
  /\ screen.open /\ screen.busy = Null
  /\ screen.history[r].status = "awaiting_approval"
  /\ LET target == [id |-> r, row |-> screen.history[r]]
     IN  Perform([screen EXCEPT !.run = Null], NewRequest("checking", target.row.command, target))
  /\ UNCHANGED <<server, decisions, loads, excused, faults>>

TryAgain ==
  /\ screen.open /\ screen.busy = Null /\ screen.error /\ screen.retry # Null
  /\ Perform(screen, NewRequest(ModeOf(screen.retry.decision), screen.retry.command, Null))
  /\ UNCHANGED <<server, decisions, loads, excused, faults>>

ReloadHistory ==
  /\ screen.open /\ screen.historyError
  /\ LoadHistory
  /\ UNCHANGED <<server, screen, card, requests, decisions, excused, faults>>

Excused(c) == {x \in {c} : x # Null /\ commands[x] = "approved"}

stop ==
  /\ screen.open /\ screen.busy \notin {Null, "closing"}
  /\ screen.controller # Null
  /\ ~requests[screen.controller].aborted
  /\ requests' = [requests EXCEPT ![screen.controller].aborted = TRUE]
  /\ excused' = excused \cup Excused(requests[screen.controller].command)
  /\ UNCHANGED <<server, screen, card, decisions, loads, faults>>

\* The card asks for the commands that wait for a decision.
CardAsks ==
  /\ card # Null /\ card.found = Null
  /\ card' = [card EXCEPT !.found = IF commands[card.command] = "pending" THEN "pending" ELSE "gone"]
  /\ UNCHANGED <<server, screen, requests, decisions, loads, excused, faults>>

CardLoads ==
  /\ card # Null /\ card.found \in {"pending", "gone"}
  /\ card' = [card EXCEPT !.found = "shown", !.shows = IF card.found = "pending" THEN card.command ELSE Null]
  /\ UNCHANGED <<server, screen, requests, decisions, loads, excused, faults>>

canDecide == card # Null /\ card.shows # Null /\ screen.busy = Null /\ card.decision = Null

decide(d) ==
  /\ canDecide /\ Cardinality(decisions) < MaxDecisions
  /\ card' = [card EXCEPT !.decision = d]
  /\ screen' = [screen EXCEPT !.error = FALSE]
  /\ decisions' = decisions \cup
       {[command |-> card.command, decision |-> d, seen |-> card.shows, mine |-> TRUE, answer |-> Null]}
  /\ UNCHANGED <<server, requests, loads, excused, faults>>

-----------------------------------------------------------------------------
(* The server. *)

Write(r, status, command) == [rows EXCEPT ![r] = [status |-> status, command |-> command, writes |-> @.writes + 1]]

CopyOf(r, after) == [id |-> r, row |-> after[r]]

\* A request that nobody waits for is forgotten once it is handled.
Answer(i, answer) ==
  requests' = IF requests[i].mine THEN [requests EXCEPT ![i].handled = TRUE, ![i].answer = answer]
              ELSE Restrict(requests, DOMAIN requests \ {i})

\* closeRun.
Closes(i, r) ==
  /\ rows' = Write(r, "ended", Null)
  /\ Answer(i, RunIs(CopyOf(r, rows')))
  /\ UNCHANGED <<commands, active>>

Works(i, r) ==
  /\ active' = And(active, r, i)
  /\ requests' = [requests EXCEPT ![i].handled = TRUE, ![i].aborted = @ /\ requests[i].mine]

startRun(i) ==
  /\ i \in DOMAIN requests /\ Starts(i)
  /\ \E r \in Runs :
       /\ rows[r] = NoRow
       /\ rows' = Write(r, "ended", Null)
       /\ Works(i, r)
  /\ UNCHANGED <<commands, screen, card, decisions, loads, excused, faults>>

resumeRun(i) ==
  /\ i \in DOMAIN requests /\ requests[i].mode # "starting" /\ ~requests[i].handled
  /\ LET c == requests[i].command
     IN  \/ /\ Waits(c) \subseteq DOMAIN active
            /\ Answer(i, Refusal("error"))
            /\ UNCHANGED server
         \/ \E r \in Waits(c) \ DOMAIN active :
              CASE commands[c] = "pending" -> Answer(i, Refusal("undecided")) /\ UNCHANGED server
                [] commands[c] \in {"rejected", "executed"} -> Closes(i, r)
                [] commands[c] = "approved" ->
                     /\ Works(i, r)
                     /\ commands' = [commands EXCEPT ![c] = "executed"]
                     /\ UNCHANGED rows
  /\ excused' = excused \ {c \in Commands : commands'[c] = "executed"}
  /\ UNCHANGED <<screen, card, decisions, loads, faults>>

\* The end of execute.
WorkEnds(r) ==
  /\ r \in DOMAIN active
  /\ \/ rows' = Write(r, "ended", Null) /\ UNCHANGED commands
     \/ \E n \in 1 .. MaxCommands[r] :
          /\ commands[<<r, n>>] = "none" /\ (n > 1 => commands[<<r, n - 1>>] # "none")
          /\ commands' = [commands EXCEPT ![<<r, n>>] = "pending"]
          /\ rows' = Write(r, "awaiting_approval", <<r, n>>)
  /\ IF active[r] = Null THEN UNCHANGED requests ELSE Answer(active[r], RunIs(CopyOf(r, rows')))
  /\ active' = Restrict(active, DOMAIN active \ {r})
  /\ UNCHANGED <<screen, card, decisions, loads, excused, faults>>

\* A decision is recorded for a command that waits for one. A denial closes the run.
Settle(c, decision) ==
  /\ commands[c] = "pending"
  /\ commands' = [commands EXCEPT ![c] = decision]
  /\ rows' = IF decision = "approved" THEN rows
             ELSE [r \in Runs |-> IF r \in Waits(c) THEN Write(r, "ended", Null)[r] ELSE rows[r]]
  /\ UNCHANGED active

\* Of what a closed dialog is answered only one thing is used: that a run has to be told. (If the
\* answer to a denial is lost it asks for the run too, which is closed: that is left out.)
Answers(d, answer) ==
  decisions' = (decisions \ {d}) \cup {x \in {[d EXCEPT !.answer = answer]} : d.mine \/ answer = Refusal("none")}

Decided(d) ==
  /\ d \in decisions /\ d.answer = Null
  /\ IF commands[d.command] # "pending" THEN Answers(d, Refusal("error")) /\ UNCHANGED server
     ELSE /\ Settle(d.command, d.decision)
          /\ LET closed == {r \in Waits(d.command) : d.decision = "rejected"}
             IN  Answers(d, IF closed = {} THEN Refusal("none")
                            ELSE RunIs(CopyOf(CHOOSE r \in closed : TRUE, rows')))
  /\ UNCHANGED <<screen, card, requests, loads, excused, faults>>

\* The server stops and starts again: what it worked on is gone, with the answers.
Restart ==
  /\ DOMAIN active # {}
  /\ Fault
  /\ active' = [r \in {} |-> Null]
  /\ requests' = [i \in {x \in DOMAIN requests : requests[x].mine \/ ~requests[x].handled} |->
                    IF requests[i].handled /\ requests[i].answer = Null
                      THEN [requests[i] EXCEPT !.answer = Refusal("error")] ELSE requests[i]]
  /\ UNCHANGED <<rows, commands, screen, card, decisions, loads, excused>>

\* The Tasks page, or another tab.
DecideElsewhere(c) ==
  /\ Fault
  /\ \E decision \in {"approved", "rejected"} : Settle(c, decision)
  /\ excused' = excused \cup {c}
  /\ UNCHANGED <<screen, card, requests, decisions, loads>>

ResumeElsewhere(c) ==
  /\ commands[c] = "approved"
  /\ \E r \in Waits(c) \ DOMAIN active : active' = And(active, r, Null)
  /\ commands' = [commands EXCEPT ![c] = "executed"]
  /\ excused' = excused \ {c}
  /\ UNCHANGED <<rows, screen, card, requests, decisions, loads, faults>>

-----------------------------------------------------------------------------
(* The answers. *)

\* The request is over for the dialog; the server may still have to do with it.
Done(i) ==
  IF requests[i].answer # Null THEN Restrict(requests, DOMAIN requests \ {i})
  ELSE [requests EXCEPT ![i] = Unawaited(@, TRUE)]

\* perform after the answer, and what its caller makes of it.
Continue(i, answer) ==
  LET q == requests[i]
      s == [screen EXCEPT !.busy = Null, !.controller = IF @ = i THEN Null ELSE @]
  IN  /\ requests' = Done(i)
      /\ LoadHistory
      /\ Render(CASE answer.kind = "stopped" -> [s EXCEPT !.run = Null]
                  [] answer.kind = "run" -> showRun(s, answer.run)
                  [] answer.kind = "undecided" /\ q.mode = "checking" -> showRun(s, q.target)
                  [] OTHER -> [s EXCEPT !.error = TRUE,
                                        !.retry = IF q.mode \in {"starting", "checking"} THEN @
                                                  ELSE [command |-> q.command,
                                                        decision |-> IF q.mode = "continuing" THEN "approved"
                                                                     ELSE "rejected"]])

Answered(i) ==
  /\ i \in DOMAIN requests /\ requests[i].mine /\ ~requests[i].aborted /\ requests[i].answer # Null
  /\ Continue(i, requests[i].answer)
  /\ UNCHANGED <<server, decisions, excused, faults>>

Stopped(i) ==
  /\ i \in DOMAIN requests /\ requests[i].mine /\ requests[i].aborted
  /\ Continue(i, Refusal("stopped"))
  /\ UNCHANGED <<server, decisions, excused, faults>>

Lose(i) ==
  /\ i \in DOMAIN requests /\ ~requests[i].aborted
  /\ Fault
  /\ IF requests[i].mine THEN Continue(i, Refusal("error"))
     ELSE /\ ~requests[i].handled
          /\ requests' = [requests EXCEPT ![i].aborted = TRUE]
          /\ UNCHANGED <<screen, card, loads>>
  /\ excused' = excused \cup Excused(requests[i].command)
  /\ UNCHANGED <<server, decisions>>

\* A request that was given up never reaches the server.
NeverArrives(i) ==
  /\ i \in DOMAIN requests /\ ~requests[i].mine /\ requests[i].aborted /\ ~requests[i].handled
  /\ requests' = Restrict(requests, DOMAIN requests \ {i})
  /\ UNCHANGED <<server, screen, card, decisions, loads, excused, faults>>

Undecide(d) ==
  /\ screen' = IF d.mine THEN [screen EXCEPT !.error = TRUE] ELSE screen
  /\ card' = IF d.mine /\ card # Null /\ card.command = d.command THEN [card EXCEPT !.decision = Null] ELSE card

OnlyIfOpen(d) == d.mine
\* The run is told even if the dialog was closed.
MustTell(d) == TRUE

Tell(d) ==
  LET request == NewRequest(ModeOf(d.decision), d.command, Null)
  IN  IF d.mine THEN Perform(screen, request)
      ELSE /\ \E id \in Ids \ DOMAIN requests :
                requests' = IF MustTell(d) THEN And(requests, id, Unawaited(request, FALSE)) ELSE requests
           /\ UNCHANGED <<screen, card>>

\* resolveApproval after the answer.
DecisionAnswered(d) ==
  /\ d \in decisions /\ d.answer # Null
  /\ decisions' = decisions \ {d}
  /\ CASE d.answer.kind = "error" -> Undecide(d) /\ UNCHANGED <<requests, loads>>
       [] d.answer.kind = "run" ->
            Render(showRun(screen, d.answer.run)) /\ LoadHistory /\ UNCHANGED requests
       [] d.answer.kind = "none" -> Tell(d) /\ UNCHANGED loads
  /\ UNCHANGED <<server, excused, faults>>

\* No answer at all, or one whose body is lost: then the denied run is asked for although it is closed.
LoseDecision(d) ==
  /\ d \in decisions
  /\ Fault
  /\ decisions' = decisions \ {d}
  /\ excused' = excused \cup Excused(d.command)
  /\ \/ Undecide(d) /\ UNCHANGED requests
     \/ d.answer # Null /\ d.answer.kind = "run" /\ Tell(d)
  /\ UNCHANGED <<server, loads>>

LoadReads(l) ==
  /\ l \in loads /\ l.found = Null
  /\ loads' = (loads \ {l}) \cup {[l EXCEPT !.found = rows]}
  /\ UNCHANGED <<server, screen, card, requests, decisions, excused, faults>>

Anyway(l) == TRUE
Current(l) == l.newest

LoadArrives(l) ==
  /\ l \in loads /\ l.found # Null
  /\ loads' = loads \ {l}
  /\ screen' = IF Current(l) THEN [screen EXCEPT !.history = l.found, !.historyError = FALSE] ELSE screen
  /\ UNCHANGED <<server, card, requests, decisions, excused, faults>>

LoadFails(l) ==
  /\ l \in loads
  /\ Fault
  /\ loads' = loads \ {l}
  /\ screen' = IF Current(l) THEN [screen EXCEPT !.historyError = TRUE] ELSE screen
  /\ UNCHANGED <<server, card, requests, decisions, excused>>

User ==
  \/ Open \/ Close \/ handleSubmit \/ TryAgain \/ ReloadHistory \/ stop
  \/ \E r \in Runs : reviewRun(r)
  \/ \E d \in {"approved", "rejected"} : decide(d)

Next ==
  \/ User
  \/ CardAsks \/ CardLoads
  \/ \E i \in Ids : startRun(i) \/ resumeRun(i) \/ Answered(i) \/ Stopped(i) \/ Lose(i) \/ NeverArrives(i)
  \/ \E r \in Runs : WorkEnds(r)
  \/ Restart
  \/ \E d \in decisions : Decided(d) \/ DecisionAnswered(d) \/ LoseDecision(d)
  \/ \E c \in Commands : DecideElsewhere(c) \/ ResumeElsewhere(c)
  \/ \E l \in loads : LoadReads(l) \/ LoadArrives(l) \/ LoadFails(l)

Spec == Init /\ [][Next]_vars

-----------------------------------------------------------------------------
(* Properties. *)

TypeOK ==
  /\ rows \in [Runs -> Row] /\ DOMAIN commands = Commands
  /\ \A c \in Commands : commands[c] \in {"none", "pending", "approved", "rejected", "executed"}
  /\ DOMAIN active \subseteq Runs /\ DOMAIN requests \subseteq Ids
  /\ screen.run \in Copy \cup {Null} /\ screen.busy \in Modes \cup {Null}
  /\ card # Null => card.command \in Commands /\ card.decision \in {Null, "approved", "rejected"}
  /\ \A i \in DOMAIN requests : requests[i].mode \in Modes /\ requests[i].command \in CommandsOrNull
  /\ Cardinality(decisions) <= MaxDecisions + 1 /\ excused \subseteq Commands
  /\ faults \in 0 .. MaxFaults

Tellers(c) == {i \in DOMAIN requests : requests[i].command = c /\ ~requests[i].handled}

\* An approval that the dialog got recorded reaches its run, whether the dialog is still open or not,
\* and whatever else it is doing: as long as the run waits, it is worked on, or someone is about to
\* tell it, but for a Stop, a lost connection, and what was approved elsewhere. And a decision is
\* about the command that was on the card, also when one command of a run follows another in the
\* same place. Every variable keeps its type.
ApprovedIsCarriedOn ==
  /\ TypeOK
  /\ \A d \in decisions : d.seen = d.command
  /\ \A r \in Runs :
       LET c == rows[r].command
       IN  c # Null /\ c \notin excused /\ commands[c] = "approved" =>
             \/ r \in DOMAIN active
             \/ \E d \in decisions : d.command = c
             \/ Tellers(c) # {}

\* When no load is under way, the recent runs are at least as new as the run that is shown: of two
\* loads that overtake each other the newer is kept.
HistoryKeepsUp ==
  screen.open /\ ~screen.historyError /\ screen.run # Null /\ {l \in loads : l.newest} = {} =>
    screen.history[screen.run.id].writes >= screen.run.row.writes

=============================================================================
