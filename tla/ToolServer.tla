----------------------------- MODULE ToolServer -----------------------------
(***************************************************************************)
(* How the agent server gets a tool to run. A manager (McpClientManager)   *)
(* holds the connection to a tool server, a process of its own that is     *)
(* started by the first call and again by the first call after it is gone. *)
(* The tool server runs commands as process groups, with a timeout.        *)
(*                                                                         *)
(* Both are Node processes and run one callback at a time. The connection  *)
(* is the MCP SDK's: `conns` has what the code in src/ relies on.          *)
(***************************************************************************)
EXTENDS Naturals, FiniteSets

CONSTANTS
  Calls,      \* tool calls of agent requests
  Conns,      \* connections, each with a tool server; bound of the model
  ToolOf,     \* Calls -> the tool that is called
  Posix,      \* the tool server does not run on Windows
  MaxFaults,  \* bound of the model: tool servers that die or do not start, late answers
  Null

\* The tools; "read_file" stands for those that only use files: write_file and repo_scan, too.
Tools == {"read_file", "bash", "python", "web_search"}

ASSUME ToolServerAssumption ==
  /\ ToolOf \in [Calls -> Tools]
  /\ Posix \in BOOLEAN
  /\ MaxFaults \in Nat
  /\ IsFiniteSet(Calls) /\ IsFiniteSet(Conns)
  /\ Cardinality(Conns) >= Cardinality(Calls)  \* a call makes at most one
  /\ Null \notin Conns \cup Nat

VARIABLES
  instance,  \* _instances: the manager that getMcpClient finds
  managers,  \* Managers -> its fields
  conns,     \* Conns -> where a connection and its tool server are
  calls,     \* Calls -> the request that makes the call
  runs,      \* Calls -> the call in the tool server, with the processes it started
  scripts,   \* calls whose temporary script is on disk
  shutdown,  \* of the agent server
  faults

vars == <<instance, managers, conns, calls, runs, scripts, shutdown, faults>>

-----------------------------------------------------------------------------

Managers == 1 .. 2

Manager == [client : Conns \cup {Null}, transport : Conns \cup {Null},
            connecting : BOOLEAN, connected : BOOLEAN]

NoManager == [client |-> Null, transport |-> Null, connecting |-> FALSE, connected |-> FALSE]

\* closing: the tool server was told to stop, and is still there.
ConnState == {"unused", "starting", "open", "closing", "closed"}

\* conn: the one being made, the one the call was sent on, or the one that has to close first.
Call == [phase : {"none", "prepared", "polling", "cleaning", "connecting", "sent", "done"},
         manager : Managers \cup {Null}, conn : Conns \cup {Null},
         answer : {"none", "result", "timed out", "unknown", "no answer", "not sent"}]

\* shell: the process of runProcess. child: what it started, on its pipes ("piped", and "own" in
\* a process group of its own) or with other output ("quiet").
\* times: how often the tool was started, kept for the properties.
Run == [phase : {"none", "working", "settled", "over"}, shell : BOOLEAN,
        child : {"none", "piped", "own", "quiet"}, timedOut : BOOLEAN,
        conn : Conns \cup {Null}, times : Nat]

NoRun == [phase |-> "none", shell |-> FALSE, child |-> "none", timedOut |-> FALSE,
          conn |-> Null, times |-> 0]

Commands == {"bash", "python"}

\* closing: the manager whose close() waits for the transport. The process exits when no request is
\* in progress or after eight seconds, which only cuts a behaviour short.
Shutdown == [phase : {"none", "closing", "waiting"}, closing : Managers \cup {Null},
             transport : Conns \cup {Null}]

NotClosing(phase) == [phase |-> phase, closing |-> Null, transport |-> Null]

Init ==
  /\ instance = Null
  /\ managers = [m \in Managers |-> NoManager]
  /\ conns = [k \in Conns |-> "unused"]
  /\ calls = [c \in Calls |-> [phase |-> "none", manager |-> Null, conn |-> Null,
                               answer |-> "none"]]
  /\ runs = [c \in Calls |-> NoRun]
  /\ scripts = {}
  /\ shutdown = NotClosing("none")
  /\ faults = 0

Fault == faults < MaxFaults /\ faults' = faults + 1

-----------------------------------------------------------------------------
(* The manager. *)

InProgress(c) == calls[c].phase \notin {"none", "done"}

\* A manager is made once, and once more after a shutdown has emptied the cache.
Instance == IF instance # Null THEN instance ELSE IF shutdown.phase = "none" THEN 1 ELSE 2

\* A request is about to ask the model what to call. While the server stops, no request is taken
\* on any more, but those in progress go on.
getMcpClient(c) ==
  /\ calls[c].phase = "none"
  /\ \/ shutdown.phase \in {"none", "closing"}
     \/ shutdown.phase = "waiting" /\ \E d \in Calls : InProgress(d)
  /\ instance' = Instance
  /\ calls' = [calls EXCEPT ![c].phase = "prepared", ![c].manager = instance']
  /\ UNCHANGED <<managers, conns, runs, scripts, shutdown, faults>>

\* What close() of a transport does at once: a process that is there is told to stop.
Told(k) == IF k # Null /\ conns[k] \in {"starting", "open"} THEN [conns EXCEPT ![k] = "closing"]
           ELSE conns

Done(x, answer) == [x EXCEPT !.phase = "done", !.answer = answer]

\* _doConnect after _cleanup, up to the handshake.
Handshake(c) ==
  LET k == CHOOSE k \in Conns : conns[k] = "unused"
  IN  /\ conns' = [conns EXCEPT ![k] = "starting"]
      /\ managers' = [managers EXCEPT ![calls[c].manager] =
           [client |-> k, transport |-> k, connecting |-> TRUE, connected |-> FALSE]]
      /\ calls' = [calls EXCEPT ![c].phase = "connecting", ![c].conn = k]

\* connect(); with a client at hand, the call is sent. Until the agent server stops, what _cleanup
\* closes is gone or was told to stop already, so that it waits for nothing (ConnectedIsLive).
Connect(c) ==
  LET x == calls[c]  m == managers[x.manager]
  IN  IF m.connected /\ m.client # Null
      THEN calls' = [calls EXCEPT ![c].phase = "sent", ![c].conn = m.client]
           /\ UNCHANGED <<managers, conns>>
      ELSE IF Told(m.transport) = conns THEN Handshake(c)
      ELSE /\ conns' = Told(m.transport)
           /\ managers' = [managers EXCEPT ![x.manager].connecting = TRUE,
                                           ![x.manager].connected = FALSE]
           /\ calls' = [calls EXCEPT ![c].phase = "cleaning", ![c].conn = m.transport]

\* Bug: a caller that has waited once goes ahead.
WaitedOnce(m) == TRUE

\* Waited for, the attempt may have failed: then it is this caller's turn, unless somebody was
\* faster.
MayConnect(m) == ~m.connecting

\* While someone else connects, look again every 50 ms. Its second attempt, for a client that
\* turns out to be "Not connected", has no step: a connected manager's client is (ConnectedIsLive).
callTool(c) ==
  /\ calls[c].phase = "prepared"
  /\ LET m == managers[calls[c].manager]
     IN  IF m.connecting /\ ~(m.connected /\ m.client # Null)
         THEN calls' = [calls EXCEPT ![c].phase = "polling"] /\ UNCHANGED <<managers, conns>>
         ELSE Connect(c)
  /\ UNCHANGED <<instance, runs, scripts, shutdown, faults>>

StopPolling(c) ==
  /\ calls[c].phase = "polling"
  /\ MayConnect(managers[calls[c].manager])
  /\ Connect(c)
  /\ UNCHANGED <<instance, runs, scripts, shutdown, faults>>

\* What _cleanup closed is gone, or its transport has given up after four seconds.
CleanedUp(c) ==
  /\ calls[c].phase = "cleaning"
  /\ \/ conns[calls[c].conn] = "closed" /\ UNCHANGED faults
     \/ Fault
  /\ Handshake(c)
  /\ UNCHANGED <<instance, runs, scripts, shutdown>>

\* The handshake is done. The call goes out on the client the manager has by now: if a close()
\* took it away, the call fails here.
Connected(c) ==
  LET x == calls[c]  m == managers[x.manager]
  IN  /\ x.phase = "connecting" /\ conns[x.conn] = "starting"
      /\ conns' = [conns EXCEPT ![x.conn] = "open"]
      /\ managers' = [managers EXCEPT ![x.manager].connected = TRUE,
                                      ![x.manager].connecting = FALSE]
      /\ calls' = [calls EXCEPT ![c] =
           IF m.client = Null THEN Done(x, "not sent")
           ELSE [x EXCEPT !.phase = "sent", !.conn = m.client]]
      /\ UNCHANGED <<instance, runs, scripts, shutdown, faults>>

\* Bug: the flag is left set when the attempt fails.
StillConnecting(m) == m

\* finally: the next caller may try.
AttemptFailed(m) == [m EXCEPT !.connecting = FALSE]

\* The SDK closes a transport whose handshake fails or takes too long.
ConnectFails(c) ==
  LET x == calls[c]
  IN  /\ x.phase = "connecting" /\ conns[x.conn] = "starting"
      /\ Fault
      /\ conns' = Told(x.conn)
      /\ managers' = [managers EXCEPT ![x.manager] = AttemptFailed(@)]
      /\ calls' = [calls EXCEPT ![c] = Done(x, "not sent")]
      /\ UNCHANGED <<instance, runs, scripts, shutdown>>

-----------------------------------------------------------------------------
(* The end of a connection. *)

\* Bug: any connection of this manager speaks for the present one.
OncloseOfAny(m, k) == [m EXCEPT !.connected = FALSE]

\* A connection that is not the manager's any more says nothing about the present one.
Onclose(m, k) == IF m.client = k THEN [m EXCEPT !.connected = FALSE] ELSE m

\* Bug: what was running is sent again.
AgainAfterClose(x) == [x EXCEPT !.phase = "prepared", !.conn = Null]

\* What was sent may have run: it is not sent again.
AfterClose(x) == Done(x, "unknown")

\* What _cleanup forgets once the transport it waited for is closed: what the manager has by then.
Forgotten(m) == [m EXCEPT !.transport = Null, !.client = Null]

\* The agent server sees that connection k is closed. A call that was waiting for its handshake
\* leaves connect() with an error. A call that was sent says that its manager is not connected,
\* though it may be again. What the tool server was doing is over, its processes stay.
ConnectionCloses(k) ==
  LET connector == {c \in Calls : calls[c].phase = "connecting" /\ calls[c].conn = k}
      sent      == {c \in Calls : calls[c].phase = "sent" /\ calls[c].conn = k}
      Of(S, m)  == \E c \in S : calls[c].manager = m
      Closed(m) == IF Of(sent, m) THEN [managers[m] EXCEPT !.connected = FALSE]
                   ELSE Onclose(managers[m], k)
      After(m)  == IF Of(connector, m) THEN AttemptFailed(Closed(m)) ELSE Closed(m)
      awaited   == shutdown.transport = k
  IN  /\ conns' = [conns EXCEPT ![k] = "closed"]
      /\ managers' = [m \in Managers |->
           IF awaited /\ m = shutdown.closing THEN Forgotten(After(m)) ELSE After(m)]
      /\ shutdown' = IF awaited THEN NotClosing("waiting") ELSE shutdown
      /\ calls' = [c \in Calls |-> CASE c \in connector -> Done(calls[c], "not sent")
                                     [] c \in sent      -> AfterClose(calls[c])
                                     [] OTHER           -> calls[c]]
      /\ runs' = [c \in Calls |-> IF runs[c].conn = k THEN [runs[c] EXCEPT !.phase = "over"]
                                  ELSE runs[c]]
      /\ UNCHANGED <<instance, scripts>>

\* The tool server was told to stop and is gone.
Stops(k) == conns[k] = "closing" /\ ConnectionCloses(k) /\ UNCHANGED faults

\* The tool server crashes or is killed.
Dies(k) == conns[k] = "open" /\ Fault /\ ConnectionCloses(k)

-----------------------------------------------------------------------------
(* The tool server. *)

\* The call is read and its tool started. A script is written before it is run.
Start(c) ==
  LET k == calls[c].conn
  IN  /\ calls[c].phase = "sent" /\ conns[k] = "open" /\ runs[c].conn # k
      /\ runs' = [runs EXCEPT ![c] =
           [NoRun EXCEPT !.phase = "working", !.shell = ToolOf[c] \in Commands,
                         !.conn = k, !.times = runs[c].times + 1]]
      /\ scripts' = IF ToolOf[c] = "python" THEN scripts \cup {c} ELSE scripts
      /\ UNCHANGED <<instance, managers, conns, calls, shutdown, faults>>

\* The program can't be started: an "error" event, then finish.
SpawnFails(c) ==
  /\ runs[c].phase = "working" /\ runs[c].shell /\ runs[c].child = "none"
  /\ ~runs[c].timedOut
  /\ Fault
  /\ runs' = [runs EXCEPT ![c].phase = "settled", ![c].shell = FALSE]
  /\ UNCHANGED <<instance, managers, conns, calls, scripts, shutdown>>

\* The command starts a process. Processes are followed as long as the tool server waits for them.
Forks(c) ==
  /\ runs[c].phase = "working" /\ runs[c].shell /\ runs[c].child = "none"
  /\ \E how \in {"piped", "own", "quiet"} : runs' = [runs EXCEPT ![c].child = how]
  /\ UNCHANGED <<instance, managers, conns, calls, scripts, shutdown, faults>>

ShellExits(c) ==
  /\ runs[c].phase = "working" /\ runs[c].shell
  /\ runs' = [runs EXCEPT ![c].shell = FALSE]
  /\ UNCHANGED <<instance, managers, conns, calls, scripts, shutdown, faults>>

ChildExits(c) ==
  /\ runs[c].phase = "working" /\ runs[c].child # "none"
  /\ runs' = [runs EXCEPT ![c].child = "none"]
  /\ UNCHANGED <<instance, managers, conns, calls, scripts, shutdown, faults>>

\* "close": the shell has ended and nobody holds its pipes. After the timeout, 250 ms are enough.
PipesClosed(r) == ~r.shell /\ r.child \notin {"piped", "own"}

Ended(r) == r.timedOut \/ PipesClosed(r)

Finish(c) ==
  /\ runs[c].phase = "working" /\ ToolOf[c] \in Commands
  /\ Ended(runs[c])
  /\ runs' = [runs EXCEPT ![c].phase = "settled"]
  /\ UNCHANGED <<instance, managers, conns, calls, scripts, shutdown, faults>>

\* Bug: the signal reaches the shell and not what it started.
KillShell(r) == [r EXCEPT !.shell = FALSE]

\* SIGKILL to the process group. Windows has none: only the process itself is killed.
KillTree(r) ==
  [r EXCEPT !.shell = FALSE, !.child = IF Posix /\ @ # "own" THEN "none" ELSE @]

\* What KillTree leaves behind: what made itself a process group of its own, and on Windows all that
\* the command started.
Killed(r) == ~r.shell /\ (Posix => r.child \in {"none", "own"})

TimesOut(c) ==
  /\ runs[c].phase = "working" /\ ToolOf[c] \in Commands /\ ~runs[c].timedOut
  /\ runs' = [runs EXCEPT ![c] = [KillTree(runs[c]) EXCEPT !.timedOut = TRUE]]
  /\ UNCHANGED <<instance, managers, conns, calls, scripts, shutdown, faults>>

Answers(c) ==
  /\ runs[c].phase = "working"
  /\ runs' = [runs EXCEPT ![c].phase = "settled"]
  /\ UNCHANGED <<instance, managers, conns, calls, scripts, shutdown, faults>>

ReadFile(c) == ToolOf[c] = "read_file" /\ Answers(c)

\* Three places are asked, one after the other, until one has results. Each is waited for until its
\* headers arrive; what comes after them has no timeout.
Search(c) == ToolOf[c] = "web_search" /\ Answers(c)

\* finally: whatever became of it.
RemoveScript(c) == scripts \ {c}

\* Bug: an answer that comes after the agent was told that there is none is taken, too.
AwaitedOrNot(x) == x.phase \in {"sent", "done"}

\* A call has one promise, which is settled once.
Awaited(x) == x.phase = "sent"

\* The script is removed and the text of formatRun goes back to the agent server, if that is
\* still waiting for it.
Respond(c) ==
  /\ runs[c].phase = "settled"
  /\ scripts' = RemoveScript(c)
  /\ runs' = [runs EXCEPT ![c].phase = "over"]
  /\ calls' = [calls EXCEPT ![c] =
       IF Awaited(@) THEN Done(@, IF runs[c].timedOut THEN "timed out" ELSE "result") ELSE @]
  /\ UNCHANGED <<instance, managers, conns, shutdown, faults>>

\* The SDK waits a minute for an answer. The tool server goes on.
RequestTimesOut(c) ==
  /\ calls[c].phase = "sent"
  /\ calls' = [calls EXCEPT ![c] = Done(@, "no answer")]
  /\ UNCHANGED <<instance, managers, conns, runs, scripts, shutdown, faults>>

-----------------------------------------------------------------------------
(* The agent server stops. *)

\* A signal: the cache of managers is emptied, and the one in it closed. Its transport is waited
\* for if that is there and was not told to stop before.
closeAllMcpClients ==
  LET m == managers[instance]
  IN  /\ shutdown.phase = "none"
      /\ instance' = Null
      /\ IF instance = Null
         THEN /\ shutdown' = NotClosing("waiting")
              /\ UNCHANGED <<managers, conns>>
         ELSE /\ conns' = Told(m.transport)
              /\ IF conns' = conns
                 THEN /\ managers' = [managers EXCEPT ![instance] = Forgotten(m)]
                      /\ shutdown' = NotClosing("waiting")
                 ELSE /\ managers' = [managers EXCEPT ![instance].connected = FALSE]
                      /\ shutdown' = [phase |-> "closing", closing |-> instance,
                                       transport |-> m.transport]
      /\ UNCHANGED <<calls, runs, scripts, faults>>

\* The tool server does not go: its transport gives up after four seconds, with a SIGKILL.
CloseGivesUp ==
  /\ shutdown.phase = "closing"
  /\ Fault
  /\ managers' = [managers EXCEPT ![shutdown.closing] = Forgotten(@)]
  /\ shutdown' = NotClosing("waiting")
  /\ UNCHANGED <<instance, conns, calls, runs, scripts>>

-----------------------------------------------------------------------------

\* What a call does next in the agent server, and what the tool server does for it.
Step(c) ==
  \/ callTool(c) \/ StopPolling(c) \/ CleanedUp(c) \/ Connected(c) \/ ConnectFails(c)
  \/ Start(c) \/ Respond(c) \/ RequestTimesOut(c)

\* The timer of runProcess, and what comes after it.
Timer(c) == TimesOut(c) \/ Finish(c)

Processes(c) == SpawnFails(c) \/ Forks(c) \/ ShellExits(c) \/ ChildExits(c)

Next ==
  \/ \E c \in Calls :
       getMcpClient(c) \/ Step(c) \/ Timer(c) \/ Processes(c) \/ Search(c) \/ ReadFile(c)
  \/ \E k \in Conns : Stops(k) \/ Dies(k)
  \/ closeAllMcpClients \/ CloseGivesUp

Spec == Init /\ [][Next]_vars

Progress ==
  \/ \E c \in Calls : Step(c) \/ Timer(c) \/ ReadFile(c)
  \/ \E k \in Conns : Stops(k)

\* Timers fire, models answer and a process that is killed ends. What a command starts may run for
\* ever, and so may a search: its timeout ends with the headers of an answer.
FairSpec == Spec /\ WF_vars(Progress)

-----------------------------------------------------------------------------
(* Properties. *)

TypeOK ==
  /\ instance \in Managers \cup {Null}
  /\ managers \in [Managers -> Manager]
  /\ conns \in [Conns -> ConnState]
  /\ calls \in [Calls -> Call]
  /\ runs \in [Calls -> Run]
  /\ scripts \subseteq Calls
  /\ shutdown \in Shutdown
  /\ faults \in 0 .. MaxFaults

\* Whatever happens to tool servers and connections, a call's tool starts at most once, and what
\* the agent is told is true of it: "not sent" of one that never starts, an output or a timeout of
\* one that ran; only "unknown" and no answer in time leave it open. A command that timed out was
\* stopped, and but on Windows its process group, too. Nor does a temporary script stay on disk when
\* the call is over, but for good if the tool server went away meanwhile. Every variable keeps its
\* type.
AnswersAreTrue ==
  /\ TypeOK
  /\ \A c \in Calls :
       /\ runs[c].times <= 1
       /\ calls[c].answer = "not sent" => runs[c].times = 0
       /\ calls[c].answer \in {"result", "timed out"} => runs[c].times = 1
       /\ calls[c].answer = "timed out" => Killed(runs[c])
       /\ c \in scripts => runs[c].phase \in {"working", "settled"} \/ conns[runs[c].conn] = "closed"

\* Where a call's tool is, for whoever only knows that it was called. A tool server that is gone
\* has ended it.
ToolPhase(r) == CASE r.phase = "none" -> "idle" [] r.phase = "working" -> "running"
                  [] OTHER -> "over"

Contract == INSTANCE CallContract WITH told <- [c \in Calls |-> calls[c].answer],
                                       tool <- [c \in Calls |-> ToolPhase(runs[c])]

\* Managers, connections, processes and timers together keep the contract of CallContract: no tool
\* is started twice or for a call that has its answer, and no late answer, lost connection or
\* timeout changes what the agent was told.
KeepsCallContract == Contract!Spec

\* A manager that says it is connected has a client that works, and it says that it is connecting
\* exactly while one call makes its connection; never two at once. Until the agent server stops, a
\* tool server that runs and was not told to stop is the manager's: none is forgotten.
ConnectedIsLive ==
  /\ \A m \in Managers :
       LET connector == {c \in Calls : /\ calls[c].phase \in {"cleaning", "connecting"}
                                       /\ calls[c].manager = m}
       IN  /\ managers[m].connected /\ managers[m].client # Null => conns[managers[m].client] = "open"
           /\ managers[m].connecting <=> connector # {}
           /\ Cardinality(connector) <= 1
  /\ shutdown.phase = "none" =>
       \A k \in Conns : conns[k] \in {"starting", "open"} =>
         instance # Null /\ managers[instance].transport = k

\* As long as the agent server is not stopping, it never closes a connection that works: calls of
\* others are running on it. The late end of an old connection must not lead to that.
WorkingIsLeftAlone ==
  [][\A k \in Conns : conns[k] = "open" /\ conns'[k] = "closing" => shutdown'.phase # "none"]_conns

\* Every call comes back to the agent, and no command is waited for by the tool server for ever,
\* whatever its processes do: from each state everything comes to rest, as calls are bounded.
\* Nobody waits for a connection that someone else failed to make.
ComesToRest ==
  []<>(/\ \A c \in Calls : ~InProgress(c)
       /\ \A c \in Calls : ToolOf[c] \in Commands => runs[c].phase # "working")
=============================================================================
