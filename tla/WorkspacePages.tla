--------------------------- MODULE WorkspacePages ---------------------------
(***************************************************************************)
(* The pages of the web app that show a workspace's rows: its automations, *)
(* its commands that wait for an approval (the Tasks page), its memories   *)
(* (the Knowledge page) and its agents. One page is open; the user changes *)
(* rows, goes to another workspace while requests are under way, and the   *)
(* server's answers come when they come.                                   *)
(*                                                                         *)
(* A load is answered by the server at one moment, reaches the page at a   *)
(* later one, and its body is read later still. The Agents page numbers    *)
(* its loads and takes only the newest; the others check once, before the  *)
(* body is read, that the workspace is still the one on screen.            *)
(***************************************************************************)
EXTENDS Naturals, FiniteSets

CONSTANTS
  Workspaces,
  Starters,   \* the rows the server makes itself, one of them for a workspace
  Others,     \* rows that are made later
  Home,       \* the workspace of a row
  Null,       \* no workspace, no row
  MaxLoads,   \* bound of the model: loads under way
  MaxChanges, \* bound of the model: the user's changes under way
  MaxFaults   \* bound of the model: failures, and changes from elsewhere

Rows == Starters \cup Others

ASSUME WorkspacePagesAssumption ==
  /\ Null \notin Workspaces \cup Rows
  /\ Starters \cap Others = {}
  /\ Home \in [Rows -> Workspaces]
  /\ MaxLoads \in Nat \ {0} /\ MaxChanges \in Nat /\ MaxFaults \in Nat

VARIABLES
  page,      \* the page that is open
  field,     \* the field of a row that the model follows: on and off are its values
  workspace, \* the workspace on screen, currentWorkspace.current
  server,    \* the server's rows
  seeded,    \* workspaces whose settings say that the starters were made
  rows,      \* the rows the page shows
  loading,   \* the page's spinner
  failed,    \* the page's loadError
  loads,     \* loads under way
  changes,   \* the user's changes under way
  faults,
  torn,      \* a load of a workspace that had been left was shown; kept for the properties
  late,      \* the load that set the spinner last is of a workspace that had been left; likewise
  old,       \* the rows are from a load that was not the newest; likewise
  missed     \* the server changed and no load since then was shown; likewise

screen == <<rows, loading, failed, loads, torn, late, old, missed>>
vars == <<page, field, workspace, server, seeded, rows, loading, failed, loads, changes, faults,
          torn, late, old, missed>>

-----------------------------------------------------------------------------

Pages == {"automations", "tasks", "knowledge", "agents"}

\* An automation's status or the agent it runs as; the other rows have one field that is changed.
FieldsOf(p) == IF p = "automations" THEN {"status", "agent"} ELSE {"status"}

\* A row that is there is "on" or "off": an automation that is active or paused, or that runs as one
\* agent or another, an agent before and after an edit. A command is "on" while it waits for a
\* decision, a memory while it is stored.
There == {"on", "off"}
Shown == There \cup {"none"}

Lists == [Rows -> Shown]
Empty == [r \in Rows |-> "none"]

\* What the server answers for a workspace.
ListOf(w, s) == [r \in Rows |-> IF Home[r] = w /\ s[r] \in There THEN s[r] ELSE "none"]

\* "partly": the Tasks page asks for executions too, and only those were refused.
Answers == {"rows", "partly", "refused", "lost"}

\* newest: its number is latestLoad.current, on the Agents page. covers: since it answered, the server
\* has not changed behind the page's back, or by a choice that no load follows.
Load == [id : 1 .. MaxLoads, newest : BOOLEAN, ws : Workspaces, stage : {"asked", "answered", "reading"},
         answer : Answers, list : Lists, covers : BOOLEAN]

Kinds == {"toggle", "run as", "delete", "add", "run", "approve", "reject", "resume", "consolidate"}

\* ws: the workspace of the render the handler belongs to. to: what the row becomes.
Change == [kind : Kinds, row : Rows \cup {Null}, to : There, ws : Workspaces,
           stage : {"sent", "done", "refused", "lost"}]

Fault == faults < MaxFaults /\ faults' = faults + 1

Init ==
  /\ page \in Pages
  /\ field \in FieldsOf(page)
  /\ workspace = Null
  /\ server = [r \in Rows |-> IF page \in {"tasks", "knowledge"} /\ r \in Starters
                              THEN "on" ELSE "none"]
  /\ seeded = {}
  /\ rows = Empty
  /\ loading = TRUE
  /\ failed = FALSE
  /\ loads = {}
  /\ changes = {}
  /\ faults = 0
  /\ torn = FALSE
  /\ late = FALSE
  /\ old = FALSE
  /\ missed = FALSE

-----------------------------------------------------------------------------
(* Loading the rows: fetchAutomations, fetchData, fetchKnowledge, loadAgents. *)

MayAlwaysLoad(w, now) == TRUE

\* Only the Agents page ignores a call from a workspace the user has left.
MayLoad(w, now) == page = "agents" => w = now

\* The load that a handler or an effect of workspace w starts when `now` is on screen. The Agents
\* page shows its spinner only when asked to.
StartLoad(w, now, spin) ==
  IF MayLoad(w, now)
  THEN LET free == {i \in 1 .. MaxLoads : \A l \in loads : l.id # i}
           newest == page = "agents" \/ w = now
       IN  /\ free # {}
           /\ loads' = {[l EXCEPT !.newest = @ /\ ~newest] : l \in loads} \cup
                       {[id |-> CHOOSE i \in free : TRUE, newest |-> newest, ws |-> w,
                         stage |-> "asked", answer |-> "rows", list |-> Empty, covers |-> TRUE]}
           /\ loading' = (loading \/ spin \/ page # "agents")
           /\ late' = (w # now)
  ELSE UNCHANGED <<loads, loading, late>>

\* The effect of a new workspace empties the page and loads.
Switch(w) ==
  /\ w # workspace
  /\ workspace' = w
  /\ rows' = Empty
  /\ failed' = FALSE
  /\ StartLoad(w, w, TRUE)
  /\ torn' = FALSE
  /\ old' = FALSE
  /\ missed' = FALSE
  /\ UNCHANGED <<page, field, server, seeded, changes, faults>>

\* Refresh and Retry. While the spinner turns Refresh is disabled, but the message of a load that
\* failed keeps its button.
Refresh ==
  /\ workspace # Null
  /\ failed \/ (~loading /\ page # "agents")
  /\ StartLoad(workspace, workspace, TRUE)
  /\ UNCHANGED <<page, field, workspace, server, seeded, rows, failed, changes, faults, torn, old, missed>>

\* The Tasks page loads every 8 seconds. The timer goes with the effect of the workspace.
Poll ==
  /\ page = "tasks"
  /\ workspace # Null
  /\ StartLoad(workspace, workspace, TRUE)
  /\ UNCHANGED <<page, field, workspace, server, seeded, rows, failed, changes, faults, torn, old, missed>>

WithStarters(w) == [r \in Rows |-> IF r \in Starters /\ Home[r] = w THEN "on" ELSE server[r]]

\* Bug: the starters come back when the last of them was deleted.
SeedWhenEmpty(w) == IF ListOf(w, server) # Empty THEN server ELSE WithStarters(w)

\* The starters are made once for a workspace: automations only when it has none.
Seed(w) == IF w \in seeded \/ (page = "automations" /\ ListOf(w, server) # Empty)
           THEN server
           ELSE WithStarters(w)

\* Reading automations or agents makes the starters first.
Serve(w) ==
  IF page \in {"automations", "agents"}
  THEN server' = Seed(w) /\ seeded' = seeded \cup {w}
  ELSE UNCHANGED <<server, seeded>>

\* The server answers for the workspace of the load, not for the one on screen.
Answer(l) ==
  /\ l.stage = "asked"
  /\ \E answer \in Answers :
       /\ IF answer = "rows" THEN UNCHANGED faults ELSE Fault
       /\ answer = "partly" => page = "tasks"
       /\ IF answer \in {"rows", "partly"} THEN Serve(l.ws) ELSE UNCHANGED <<server, seeded>>
       /\ loads' = (loads \ {l}) \cup
                   {[l EXCEPT !.stage = "answered", !.answer = answer,
                              !.list = IF answer \in {"rows", "partly"}
                                       THEN ListOf(l.ws, server') ELSE Empty]}
  /\ UNCHANGED <<page, field, workspace, rows, loading, failed, changes, torn, late, old, missed>>

NotLooked(l) == TRUE

\* The check after the response: the workspace is the one on screen.
IsOnScreen(l) == l.ws = workspace

\* Pages without numbers: the head of the response is here. A load of another workspace ends, and
\* leaves the spinner as it is.
Arrive(l) ==
  /\ page # "agents"
  /\ l.stage = "answered"
  /\ IF IsOnScreen(l) /\ l.answer # "lost"
     THEN /\ loads' = (loads \ {l}) \cup {[l EXCEPT !.stage = "reading"]}
          /\ failed' = (failed /\ l.answer # "rows")
          /\ UNCHANGED loading
     ELSE /\ loads' = loads \ {l}
          /\ IF IsOnScreen(l)
             THEN failed' = TRUE /\ loading' = FALSE
             ELSE UNCHANGED <<failed, loading>>
  /\ late' = (late /\ loading')
  /\ UNCHANGED <<page, field, workspace, server, seeded, rows, changes, faults, torn, old, missed>>

\* The body is here, or the connection broke. The workspace is not looked at again before the rows
\* or the server's message are shown, only before the spinner is stopped.
Finish(l) ==
  /\ page # "agents"
  /\ l.stage = "reading"
  /\ loads' = loads \ {l}
  /\ loading' = (loading /\ ~IsOnScreen(l))
  /\ \/ /\ failed' = (failed \/ l.answer # "rows")
        /\ torn' = (~IsOnScreen(l) \/ (torn /\ l.answer = "refused"))
        /\ IF l.answer = "refused"
           THEN UNCHANGED <<rows, old, missed>>
           ELSE rows' = l.list /\ old' = ~l.newest /\ missed' = ~l.covers
        /\ UNCHANGED faults
     \/ /\ Fault
        /\ failed' = (failed \/ IsOnScreen(l))
        /\ UNCHANGED <<rows, torn, old, missed>>
  /\ late' = (late /\ loading')
  /\ UNCHANGED <<page, field, workspace, server, seeded, changes>>

OfAnother(l) == l.ws # workspace

\* The Agents page reads the body first and then looks at both.
Outdated(l) == l.ws # workspace \/ ~l.newest

Take(l) ==
  /\ page = "agents"
  /\ l.stage = "answered"
  /\ loads' = loads \ {l}
  /\ IF Outdated(l)
     THEN UNCHANGED <<rows, failed, loading, torn, old, missed>>
     ELSE /\ loading' = FALSE
          /\ failed' = (l.answer # "rows")
          /\ torn' = ~IsOnScreen(l)
          /\ IF l.answer = "rows"
             THEN rows' = l.list /\ old' = ~l.newest /\ missed' = ~l.covers
             ELSE UNCHANGED <<rows, old, missed>>
  /\ late' = (late /\ loading')
  /\ UNCHANGED <<page, field, workspace, server, seeded, changes, faults>>

-----------------------------------------------------------------------------
(* Changes. Their handlers belong to the render they were started from. *)

\* Rows are hidden while the spinner turns, except the commands that wait for an approval.
Clickable(r) == rows[r] \in There /\ (loading => page = "tasks")

\* Buttons that are disabled while their request is under way: those of a form or a dialog, and all
\* decisions during one. Running another automation, or saving its agent, frees the first one's.
Free(kind) ==
  /\ kind = "add" => \A c \in changes : c.kind # "add" \/ (page = "agents" /\ c.ws # workspace)
  /\ page = "agents" /\ kind \in {"toggle", "delete"} =>
       \A c \in changes : c.kind # kind \/ c.ws # workspace
  /\ kind \in {"approve", "reject"} =>
       \A c \in changes : c.kind \notin {"approve", "reject", "resume"}

\* The buttons of a row: of an automation, with its choice of an agent, a command, a memory, an
\* agent's card.
AutomationRow == {"toggle", "run as", "delete", "run"}
CommandRow == {"approve", "reject"}
MemoryRow == {"delete"}
AgentCard == {"toggle", "delete", "run"}

RowButtons == [automations |-> AutomationRow, tasks |-> CommandRow,
               knowledge |-> MemoryRow, agents |-> AgentCard]

\* What a page offers without a row: its form, and finding themes.
NewAutomation == {"add"}
NewTask == {"add"}
NewMemory == {"add"}
FindThemes == {"consolidate"}
NewAgent == {"add"}

PageButtons == [automations |-> NewAutomation, tasks |-> NewTask,
                knowledge |-> NewMemory \cup FindThemes, agents |-> NewAgent]

Other(state) == IF state = "on" THEN "off" ELSE "on"

\* What is clicked: a button of a row, or one of the page.
Ask(c) ==
  /\ workspace # Null
  /\ Cardinality(changes) < MaxChanges
  /\ Free(c.kind)
  /\ changes' = changes \cup {c}
  /\ UNCHANGED <<page, field, workspace, server, seeded, faults>>
  /\ UNCHANGED screen

\* A save writes one field of the row, and the others stay.
Sets(kind) == kind = IF field = "agent" THEN "run as" ELSE "toggle"

New(kind, r, to) == [kind |-> kind, row |-> r, to |-> to, ws |-> workspace, stage |-> "sent"]

Click(r) == \E kind \in RowButtons[page] :
  /\ Clickable(r)
  /\ Ask(New(kind, r, IF Sets(kind) THEN Other(rows[r]) ELSE "on"))

\* What the page offers without a row.
Press == \E kind \in PageButtons[page] : Ask(New(kind, Null, "on"))

\* Rows the server can make in a workspace: ids are used once.
Unused(w) == {r \in Others : Home[r] = w /\ server[r] = "none"}

\* What the server's handlers do with a change: <<answer, row, the server's rows>>.
Edited(c) ==
  {IF server[c.row] \in There
   THEN <<"done", c.row, IF Sets(c.kind) THEN [server EXCEPT ![c.row] = c.to] ELSE server>>
   ELSE <<"refused", c.row, server>>}

\* Deleting what is not there is answered in the same way.
Deleted(c) ==
  {<<"done", c.row, IF server[c.row] \in There THEN [server EXCEPT ![c.row] = "gone"] ELSE server>>}

Decided(c) ==
  {IF server[c.row] = "on"
   THEN <<"done", c.row, [server EXCEPT ![c.row] = "gone"]>>
   ELSE <<"refused", c.row, server>>}

Created(c) ==
  IF Unused(c.ws) = {} THEN {<<"refused", Null, server>>}
  ELSE {<<"done", r, [server EXCEPT ![r] = "on"]>> : r \in Unused(c.ws)}

\* A task, or a command that was approved: the agent may ask for another command.
TaskRun(c) ==
  {<<"done", c.row, server>>} \cup
  {<<"done", c.row, [server EXCEPT ![r] = "on"]>> : r \in Unused(c.ws)}

Triggered(c) == {<<IF server[c.row] \in There THEN "done" ELSE "refused", c.row, server>>}

\* Looking for themes changes no memory.
Consolidated(c) == {<<"done", c.row, server>>}

Effects(c) ==
  CASE c.kind \in {"toggle", "run as"} -> Edited(c)
    [] c.kind = "delete" -> Deleted(c)
    [] c.kind \in {"approve", "reject"} -> Decided(c)
    [] c.kind = "add" -> IF page = "tasks" THEN TaskRun(c) ELSE Created(c)
    [] c.kind = "resume" -> TaskRun(c)
    [] c.kind = "run" -> Triggered(c)
    [] c.kind = "consolidate" -> Consolidated(c)

\* What was answered before does not cover the server any more.
Uncover == loads' = {[l EXCEPT !.covers = l.stage = "asked"] : l \in loads}

\* The server changed and no load will follow.
Unnoticed == missed' = TRUE /\ Uncover

\* Clicked in a row of another workspace: a load of the wrong workspace will follow.
Crossed(r, w) == r # Null /\ Home[r] # w

\* The request reaches the server and is answered. No load follows the choice of an agent, but the
\* page changes the row.
Process(c) ==
  /\ c.stage = "sent"
  /\ \E e \in Effects(c) :
       /\ changes' = (changes \ {c}) \cup {[c EXCEPT !.stage = e[1], !.row = e[2]]}
       /\ server' = e[3]
       /\ \/ Crossed(e[2], c.ws) /\ Unnoticed
          \/ /\ ~Crossed(e[2], c.ws)
             /\ IF c.kind = "run as" /\ e[3] # server THEN Uncover ELSE UNCHANGED loads
             /\ UNCHANGED missed
  /\ UNCHANGED <<page, field, workspace, seeded, rows, loading, failed, faults, torn, late, old>>

\* The web server's route refuses a request when it can't reach the agent, or when the agent's
\* answer is lost; or the page has no answer at all.
Failures == {"refused", "lost"}

\* The request is refused, or it or its answer is lost. Without an answer there is no load, also
\* not for the decision that came before a command's run.
Lose(c) ==
  /\ Fault
  /\ \E stage \in Failures :
       /\ changes' = (changes \ {c}) \cup {[c EXCEPT !.stage = stage]}
       /\ \/ /\ c.stage = "sent"
             /\ IF c.kind = "resume" /\ stage = "lost" THEN Unnoticed ELSE UNCHANGED <<loads, missed>>
          \/ /\ c.stage = "done"
             /\ Unnoticed
  /\ UNCHANGED <<page, field, workspace, server, seeded, rows, loading, failed, torn, late, old>>

\* Another tab, or the agent server by itself.
Elsewhere(r) ==
  /\ Fault
  /\ \E to \in There \cup {"gone"} :
       /\ to # server[r]
       /\ IF server[r] = "none" THEN r \in Others /\ to = "on" ELSE server[r] # "gone"
       /\ to = "off" => page \in {"automations", "agents"}
       /\ server' = [server EXCEPT ![r] = to]
  /\ Unnoticed
  /\ UNCHANGED <<page, field, workspace, seeded, rows, loading, failed, changes, torn, late, old>>

AsBefore(c) == rows

\* The page changes the row in the list as it is now, before the load. An agent that was saved is
\* put into the list of its own workspace, also when it was not there.
Toggled(c) == IF rows[c.row] \in There THEN [rows EXCEPT ![c.row] = c.to] ELSE rows
Removed(c) == [rows EXCEPT ![c.row] = "none"]
Saved(c) == IF Home[c.row] = workspace THEN [rows EXCEPT ![c.row] = c.to] ELSE rows

Apply(c) ==
  CASE page = "agents" /\ c.kind \in {"toggle", "add"} -> Saved(c)
    [] page # "agents" /\ Sets(c.kind) -> Toggled(c)
    [] c.kind \in {"delete", "approve", "reject"} -> Removed(c)
    [] OTHER -> rows

\* The answer of a change that was done: the row is changed on the page and the list is loaded, of
\* the workspace the handler belongs to.
Done(c) ==
  /\ c.stage = "done"
  /\ c.kind \notin {"approve", "run as"}
  /\ rows' = Apply(c)
  /\ changes' = changes \ {c}
  /\ StartLoad(c.ws, workspace, FALSE)
  /\ missed' = (missed \/ Crossed(c.row, c.ws))
  /\ UNCHANGED <<page, field, workspace, server, seeded, failed, faults, torn, old>>

\* The agent of the row was changed again before the page was told of this choice.
Overtaken(c) == Sets(c.kind) /\ server[c.row] \in There \ {c.to}

\* The answer to the choice of an agent: the page changes the row and does not load.
Chosen(c) ==
  /\ c.stage = "done"
  /\ c.kind = "run as"
  /\ rows' = Apply(c)
  /\ changes' = changes \ {c}
  /\ missed' = (missed \/ Crossed(c.row, c.ws) \/ Overtaken(c))
  /\ UNCHANGED <<page, field, workspace, server, seeded, loading, failed, loads, faults, torn, late, old>>

\* An approval only records the decision: the agent is then asked to go on.
Approved(c) ==
  /\ c.stage = "done"
  /\ c.kind = "approve"
  /\ rows' = Apply(c)
  /\ changes' = (changes \ {c}) \cup {[c EXCEPT !.kind = "resume", !.stage = "sent"]}
  /\ UNCHANGED <<page, field, workspace, server, seeded, loading, failed, loads, faults, torn, late,
                 old, missed>>

\* Refused, or lost: the page shows a message. The Agents page loads after every run, the Tasks
\* page after a command's run that was answered.
NotDone(c) ==
  /\ c.stage \in {"refused", "lost"}
  /\ changes' = changes \ {c}
  /\ IF (c.kind = "run" /\ page = "agents") \/ (c.kind = "resume" /\ c.stage = "refused")
     THEN StartLoad(c.ws, workspace, FALSE)
     ELSE UNCHANGED <<loading, loads, late>>
  /\ UNCHANGED <<page, field, workspace, server, seeded, rows, failed, faults, torn, old, missed>>

-----------------------------------------------------------------------------

Network ==
  \/ \E l \in loads : Answer(l) \/ Arrive(l) \/ Finish(l) \/ Take(l)
  \/ \E c \in changes : Process(c) \/ Done(c) \/ Chosen(c) \/ Approved(c) \/ NotDone(c)

Next ==
  \/ \E w \in Workspaces : Switch(w)
  \/ Refresh \/ Poll \/ Press
  \/ \E r \in Rows : Click(r) \/ Elsewhere(r)
  \/ \E c \in changes : Lose(c)
  \/ Network

Spec == Init /\ [][Next]_vars

-----------------------------------------------------------------------------

TypeOK ==
  /\ page \in Pages /\ field \in FieldsOf(page)
  /\ workspace \in Workspaces \cup {Null}
  /\ server \in [Rows -> Shown \cup {"gone"}]
  /\ seeded \subseteq Workspaces
  /\ rows \in Lists
  /\ {loading, failed, torn, late, old, missed} \subseteq BOOLEAN
  /\ loads \subseteq Load
  /\ changes \subseteq Change
  /\ faults \in 0 .. MaxFaults

\* The page never shows, and so never lets the user pause, delete or approve, rows of a workspace
\* that is not on screen. A body that was being read when the user left is the one way around the
\* check of the pages without numbers. Every variable keeps its type.
RowsAreOfTheWorkspace ==
  /\ TypeOK
  /\ torn \/ \A r \in Rows : rows[r] \in There => Home[r] = workspace

\* The spinner stops when the last load is over, whatever was left, refused or lost. A change that
\* is answered after its workspace was left starts a load on the pages without numbers that sets
\* the spinner and never takes it away again.
SpinnerEnds == loads = {} /\ workspace # Null /\ loading => late /\ page # "agents"

\* At rest the page shows what the server has, unless it says that it could not load or the server
\* changed in a way the page can't know. Without numbers, an older load may have been shown last. No
\* load follows the choice of an automation's agent: a list from before the choice that is shown
\* after it stays, and so does a choice the page is told of after a newer one.
ShowsTheServer ==
  \/ loads # {} \/ changes # {} \/ workspace = Null
  \/ failed \/ missed
  \/ (torn \/ old) /\ page # "agents"
  \/ rows = ListOf(workspace, server)

\* A starter the user deleted is not made again when the list is read.
StartersComeOnce == [][\A r \in Rows : server[r] = "gone" => server'[r] = "gone"]_vars
=============================================================================
