-------------------------- MODULE ToolServerProofs --------------------------
(* Proofs about ToolServer. *)
EXTENDS ToolServer, FiniteSetTheorems, TLAPS

-----------------------------------------------------------------------------
(* The inductive invariant. *)

\* Call c makes a connection for manager m, or waits for an old one to close first.
Connects(c, m) == calls[c].phase \in {"cleaning", "connecting"} /\ calls[c].manager = m

\* A manager has one connection, and is connecting exactly while a call connects for it.
ManagerFits(m) ==
  LET x == managers[m]
  IN  /\ x.client = x.transport
      /\ x.client # Null => conns[x.client] # "unused"
      /\ x.connected /\ x.client # Null => conns[x.client] = "open"
      /\ x.connecting <=> \E c \in Calls : Connects(c, m)

ManagersFit == \A m \in Managers : ManagerFits(m)

\* A call that connects does so on a connection that its manager has or, after a shutdown, has
\* forgotten.
CallFits(c) ==
  LET x == calls[c]
  IN  /\ x.phase = "none" <=> x.manager = Null
      /\ x.answer # "none" => x.phase = "done"
      /\ x.phase \in {"cleaning", "connecting", "sent"} => x.conn # Null
      /\ x.phase \in {"cleaning", "connecting"} => managers[x.manager].client \in {x.conn, Null}
      /\ x.phase = "cleaning" => conns[x.conn] \in {"closing", "closed"}
      /\ x.phase = "connecting" => conns[x.conn] \in {"starting", "closing"}

CallsFit == \A c \in Calls : CallFits(c)

\* Nobody shares a connection that is not there yet: no two managers have the same one, and no
\* two calls make the same one or connect for one manager.
Alone ==
  /\ \A m, n \in Managers : managers[m].client = managers[n].client => m = n \/ managers[m].client = Null
  /\ \A c, d \in Calls : /\ calls[c].phase = "connecting" /\ calls[d].phase = "connecting"
                         /\ calls[c].conn = calls[d].conn
                         => c = d
  /\ \A c, d \in Calls, m \in Managers : Connects(c, m) /\ Connects(d, m) => c = d

\* What a call started in a tool server, it started on the connection it was sent on. Its answer
\* is about that.
RunFits(c) ==
  LET r == runs[c]  x == calls[c]
  IN  /\ r.times = IF r.phase = "none" THEN 0 ELSE 1
      /\ r.phase = "none" => r.conn = Null
      /\ r.phase # "none" => /\ r.conn # Null /\ r.conn = x.conn
                             /\ x.phase \in {"sent", "done"} /\ x.answer # "not sent"
      /\ x.answer \in {"result", "timed out"} => r.phase # "none"
      /\ r.timedOut => Killed(r)
      /\ x.answer = "timed out" => r.timedOut
      /\ c \in scripts => \/ r.phase \in {"working", "settled"}
                          \/ r.phase # "none" /\ conns[r.conn] = "closed"

RunsFit == \A c \in Calls : RunFits(c)

\* Every connection was made by a call, which is past making one.
ConnsUsed ==
  \A k \in Conns : conns[k] # "unused" =>
    \E c \in Calls : calls[c].conn = k /\ calls[c].phase \in {"connecting", "sent", "done"}

\* Until the agent server stops, all calls have the one manager, what lives is its connection, a
\* connection that works is known to be connected, and every call that was sent is on it.
Serving ==
  shutdown.phase = "none" =>
    /\ instance # 2
    /\ \A c \in Calls : calls[c].manager \in {Null, instance}
    /\ \A k \in Conns : conns[k] \in {"starting", "open"} =>
         instance # Null /\ managers[instance].transport = k
    /\ \A m \in Managers :
         managers[m].client # Null /\ conns[managers[m].client] = "open" => managers[m].connected
    /\ \A c \in Calls : calls[c].phase = "sent" => conns[calls[c].conn] = "open"

\* What close() waits for.
ShutdownFits ==
  /\ shutdown.phase = "closing" <=> shutdown.closing # Null
  /\ shutdown.phase = "closing" <=> shutdown.transport # Null

IInv ==
  TypeOK /\ ManagersFit /\ CallsFit /\ Alone /\ RunsFit /\ ConnsUsed /\ Serving /\ ShutdownFits

-----------------------------------------------------------------------------
(* A connection is left for every call that makes one. *)

\* Calls that are about to make a connection made none, and the others at most one each.
LEMMA UnusedConn ==
  ASSUME TypeOK, ConnsUsed, NEW c \in Calls,
         calls[c].phase \in {"prepared", "polling", "cleaning"}
  PROVE  \E k \in Conns : conns[k] = "unused"
<1> SUFFICES ASSUME \A k \in Conns : conns[k] # "unused"
             PROVE  FALSE
  OBVIOUS
<1> DEFINE D == {d \in Calls : calls[d].phase \in {"connecting", "sent", "done"} /\ calls[d].conn # Null}
           f == [d \in D |-> calls[d].conn]
<1>1. IsFiniteSet(Calls \ {c}) /\ Cardinality(Calls \ {c}) = Cardinality(Calls) - 1
  BY ToolServerAssumption, FS_RemoveElement
<1>2. D \subseteq Calls \ {c}
  OBVIOUS
<1>3. IsFiniteSet(D) /\ Cardinality(D) <= Cardinality(Calls) - 1
  BY <1>1, <1>2, FS_Subset
<1>4. f \in [D -> Conns]
  BY DEF TypeOK, Call
<1>5. \A k \in Conns : \E d \in D : f[d] = k
  <2> SUFFICES ASSUME NEW k \in Conns
               PROVE  \E d \in D : f[d] = k
    OBVIOUS
  <2>1. PICK d \in Calls : calls[d].conn = k /\ calls[d].phase \in {"connecting", "sent", "done"}
    BY DEF ConnsUsed
  <2>2. d \in D
    BY <2>1, ToolServerAssumption
  <2> QED
    BY <2>1, <2>2
<1>6. f \in Surjection(D, Conns)
  BY <1>4, <1>5 DEF Surjection
<1>7. Cardinality(Conns) <= Cardinality(D)
  BY <1>3, <1>6, FS_Surjection
<1>8. /\ Cardinality(Conns) \in Nat /\ Cardinality(Calls) \in Nat /\ Cardinality(D) \in Nat
      /\ Cardinality(Conns) >= Cardinality(Calls)
  BY <1>3, ToolServerAssumption, FS_CardinalityType
<1> QED
  BY <1>3, <1>7, <1>8

\* What a handshake starts with.
LEMMA HandshakeEffect ==
  ASSUME TypeOK, CallsFit, ConnsUsed, NEW c \in Calls,
         calls[c].phase \in {"prepared", "polling", "cleaning"}, Handshake(c)
  PROVE  \E k \in Conns :
           /\ conns[k] = "unused"
           /\ conns' = [conns EXCEPT ![k] = "starting"]
           /\ managers' = [managers EXCEPT ![calls[c].manager] =
                [client |-> k, transport |-> k, connecting |-> TRUE, connected |-> FALSE]]
           /\ calls' = [calls EXCEPT ![c].phase = "connecting", ![c].conn = k]
<1> DEFINE k == CHOOSE k \in Conns : conns[k] = "unused"
<1>1. k \in Conns /\ conns[k] = "unused"
  BY UnusedConn
<1>2. /\ conns' = [conns EXCEPT ![k] = "starting"]
      /\ managers' = [managers EXCEPT ![calls[c].manager] =
           [client |-> k, transport |-> k, connecting |-> TRUE, connected |-> FALSE]]
      /\ calls' = [calls EXCEPT ![c].phase = "connecting", ![c].conn = k]
  BY DEF Handshake
<1> QED
  BY <1>1, <1>2

\* The manager of a call that exists.
LEMMA CallManager ==
  ASSUME TypeOK, CallsFit, NEW c \in Calls, calls[c].phase # "none"
  PROVE  calls[c].manager \in Managers
BY DEF TypeOK, Call, CallsFit, CallFits

\* A manager is something.
LEMMA SomeManager ==
  ASSUME NEW m \in Managers
  PROVE  m # Null
BY ToolServerAssumption DEF Managers

\* A call that was not sent.
LEMMA NoRunType == NoRun \in Run
BY DEF NoRun, Run

\* A fault is counted.
LEMMA FaultType ==
  ASSUME TypeOK, Fault
  PROVE  faults' \in 0 .. MaxFaults
BY ToolServerAssumption DEF TypeOK, Fault

-----------------------------------------------------------------------------
(* The steps of the tool server. *)

\* The invariant without what a call started.
Wired == ManagersFit /\ CallsFit /\ Alone /\ ConnsUsed /\ Serving /\ ShutdownFits

\* What the tool server does does not concern the agent server.
LEMMA SameWired ==
  ASSUME Wired, UNCHANGED <<instance, managers, conns, calls, shutdown>>
  PROVE  Wired'
BY DEF Wired, ManagersFit, ManagerFits, Connects, CallsFit, CallFits, Alone, ConnsUsed, Serving,
       ShutdownFits

\* A call keeps what it started, when nothing of it changes and closed connections stay closed.
LEMMA SameRunFits ==
  ASSUME TypeOK, RunsFit, NEW d \in Calls, runs'[d] = runs[d], d \in scripts' => d \in scripts,
         \/ calls'[d] = calls[d]
         \/ /\ calls'[d].conn = calls[d].conn /\ calls'[d].phase = "done"
            /\ calls'[d].answer \in {"unknown", "no answer"}
         \/ runs[d].phase = "none" /\ calls'[d].answer \in {"none", "not sent"},
         \A k \in Conns : conns[k] = "closed" => conns'[k] = "closed"
  PROVE  RunFits(d)'
<1>1. runs[d].conn \in Conns \cup {Null}
  BY DEF TypeOK, Run
<1>2. RunFits(d)
  BY DEF RunsFit
<1> QED
  BY <1>1, <1>2 DEF RunFits

\* A tool starts at most once: the connection it started on stays the call's.
LEMMA StartKeeps ==
  ASSUME IInv, NEW c \in Calls, Start(c)
  PROVE  IInv'
<1> DEFINE r == [NoRun EXCEPT !.phase = "working", !.shell = ToolOf[c] \in Commands,
                              !.conn = calls[c].conn, !.times = runs[c].times + 1]
<1>1. /\ calls[c].phase = "sent" /\ runs[c].conn # calls[c].conn
      /\ runs' = [runs EXCEPT ![c] = r]
      /\ scripts' \in {scripts, scripts \cup {c}}
      /\ UNCHANGED <<instance, managers, conns, calls, shutdown, faults>>
  BY DEF Start
<1>2. runs[c].phase = "none" /\ runs[c].times + 1 = 1
  <2>1. RunFits(c)
    BY DEF IInv, RunsFit
  <2>2. runs[c].phase = "none"
    BY <1>1, <2>1 DEF RunFits
  <2>3. runs[c].times = 0
    BY <2>1, <2>2 DEF RunFits
  <2> QED
    BY <2>2, <2>3
<1>3. calls[c].conn \in Conns /\ calls[c].answer = "none"
  BY <1>1 DEF IInv, CallsFit, CallFits, TypeOK, Call
<1>4. /\ r.phase = "working" /\ ~r.timedOut /\ r.conn = calls[c].conn /\ r.times = runs[c].times + 1
      /\ r \in Run
  <2>2. PICK times \in Nat : times = runs[c].times + 1
    BY <1>2
  <2>3. PICK shell \in BOOLEAN :
          r = [NoRun EXCEPT !.phase = "working", !.shell = shell, !.conn = calls[c].conn, !.times = times]
    <3>1. CASE ToolOf[c] \in Commands
      <4>1. (ToolOf[c] \in Commands) = TRUE
        BY <3>1
      <4> QED
        BY <2>2, <4>1
    <3>2. CASE ToolOf[c] \notin Commands
      <4>1. (ToolOf[c] \in Commands) = FALSE
        BY <3>2
      <4> QED
        BY <2>2, <4>1
    <3> QED
      BY <3>1, <3>2
  <2> HIDE DEF r
  <2>4. r.phase = "working" /\ r.conn = calls[c].conn /\ r.times = times /\ r \in Run
    BY <1>3, <2>3, NoRunType DEF Run
  <2>5. ~r.timedOut
    BY <2>3 DEF NoRun
  <2> QED
    BY <2>2, <2>4, <2>5
<1> HIDE DEF r
<1>5. runs'[c] = r /\ \A d \in Calls \ {c} : runs'[d] = runs[d]
  BY <1>1 DEF IInv, TypeOK
<1>6. TypeOK'
  BY <1>1, <1>4 DEF IInv, TypeOK
<1>7. RunFits(c)'
  <2>1. calls[c].conn # Null
    BY <1>3, ToolServerAssumption
  <2> QED
    BY <1>1, <1>2, <1>3, <1>4, <1>5, <2>1 DEF RunFits
<1>8. ASSUME NEW d \in Calls \ {c}
      PROVE  RunFits(d)'
  BY <1>1, <1>5, SameRunFits DEF IInv
<1>9. RunsFit'
  BY <1>7, <1>8 DEF RunsFit
<1> QED
  BY <1>1, <1>6, <1>9, SameWired DEF IInv, Wired

\* What the processes and the timer of a call that works can do to it.
LEMMA WorkEffect ==
  ASSUME IInv, NEW c \in Calls, Processes(c) \/ Timer(c) \/ Search(c) \/ ReadFile(c)
  PROVE  \E r \in Run :
           /\ runs' = [runs EXCEPT ![c] = r]
           /\ runs[c].phase = "working" /\ r.phase \in {"working", "settled"}
           /\ r.times = runs[c].times /\ r.conn = runs[c].conn
           /\ r.timedOut => Killed(r)
           /\ runs[c].timedOut => r.timedOut
<1>1. runs[c] \in Run /\ (runs[c].timedOut => Killed(runs[c]))
  BY DEF IInv, TypeOK, RunsFit, RunFits
<1>2. CASE SpawnFails(c)
  <2> DEFINE r == [runs[c] EXCEPT !.phase = "settled", !.shell = FALSE]
  <2>1. runs' = [runs EXCEPT ![c] = r] /\ r \in Run /\ r.child = "none" /\ ~runs[c].timedOut
    BY <1>1, <1>2 DEF SpawnFails, Run
  <2> QED
    BY <1>1, <1>2, <2>1 DEF SpawnFails, Run, Killed
<1>3. CASE Forks(c)
  <2>1. PICK how \in {"piped", "own", "quiet"} : runs' = [runs EXCEPT ![c].child = how]
    BY <1>3 DEF Forks
  <2> DEFINE r == [runs[c] EXCEPT !.child = how]
  <2>2. runs' = [runs EXCEPT ![c] = r] /\ r \in Run
    BY <1>1, <2>1, ToolServerAssumption DEF Run, Killed
  <2> QED
    BY <1>1, <1>3, <2>2 DEF Forks, Run, Killed
<1>4. CASE ShellExits(c)
  <2> DEFINE r == [runs[c] EXCEPT !.shell = FALSE]
  <2>1. runs' = [runs EXCEPT ![c] = r] /\ r \in Run
    BY <1>1, <1>4 DEF ShellExits, Run
  <2> QED
    BY <1>1, <1>4, <2>1 DEF ShellExits, Run, Killed
<1>5. CASE ChildExits(c)
  <2> DEFINE r == [runs[c] EXCEPT !.child = "none"]
  <2>1. runs' = [runs EXCEPT ![c] = r] /\ r \in Run
    BY <1>1, <1>5 DEF ChildExits, Run
  <2> QED
    BY <1>1, <1>5, <2>1 DEF ChildExits, Run, Killed
<1>6. CASE Finish(c) \/ Search(c) \/ ReadFile(c)
  <2> DEFINE r == [runs[c] EXCEPT !.phase = "settled"]
  <2>1. runs' = [runs EXCEPT ![c] = r] /\ r \in Run /\ runs[c].phase = "working"
    BY <1>1, <1>6 DEF Finish, Search, ReadFile, Answers, Run
  <2> QED
    BY <1>1, <2>1, ToolServerAssumption DEF Run, Killed
<1>7. CASE TimesOut(c)
  <2> DEFINE r == [runs[c] EXCEPT !.shell = FALSE, !.child = IF Posix /\ @ # "own" THEN "none" ELSE @,
                                  !.timedOut = TRUE]
  <2>1. runs' = [runs EXCEPT ![c] = r] /\ r \in Run /\ runs[c].phase = "working"
    BY <1>1, <1>7 DEF TimesOut, KillTree, Run
  <2> QED
    BY <1>1, <2>1, ToolServerAssumption DEF Run, Killed
<1> QED
  BY <1>2, <1>3, <1>4, <1>5, <1>6, <1>7 DEF Processes, Timer

\* A tool that runs goes on, with its processes, or is settled.
LEMMA WorkKeeps ==
  ASSUME IInv, NEW c \in Calls, Processes(c) \/ Timer(c) \/ Search(c) \/ ReadFile(c)
  PROVE  IInv'
<1>1. UNCHANGED <<instance, managers, conns, calls, scripts, shutdown>> /\ (Fault \/ UNCHANGED faults)
  BY DEF Processes, SpawnFails, Forks, ShellExits, ChildExits, Timer, Finish, TimesOut, Search, ReadFile,
         Answers
<1>2. PICK r \in Run :
        /\ runs' = [runs EXCEPT ![c] = r]
        /\ runs[c].phase = "working" /\ r.phase \in {"working", "settled"}
        /\ r.times = runs[c].times /\ r.conn = runs[c].conn
        /\ r.timedOut => Killed(r)
        /\ runs[c].timedOut => r.timedOut
  BY WorkEffect
<1>3. TypeOK'
  BY <1>1, <1>2, FaultType DEF IInv, TypeOK
<1>4. RunsFit'
  <2>1. RunFits(c)'
    <3>1. runs'[c] = r
      BY <1>2 DEF IInv, TypeOK
    <3>2. RunFits(c)
      BY DEF IInv, RunsFit
    <3> QED
      BY <1>1, <1>2, <3>1, <3>2 DEF RunFits
  <2>2. ASSUME NEW d \in Calls \ {c}
        PROVE  RunFits(d)'
    <3>1. runs'[d] = runs[d]
      BY <1>2 DEF IInv, TypeOK
    <3> QED
      BY <1>1, <3>1, SameRunFits DEF IInv
  <2> QED
    BY <2>1, <2>2 DEF RunsFit
<1> QED
  BY <1>1, <1>3, <1>4, SameWired DEF IInv, Wired

\* Calls that were sent may end.
LEMMA SentMayEnd ==
  ASSUME TypeOK, Wired, UNCHANGED <<instance, managers, conns, shutdown>>,
         \A d \in Calls : \/ calls'[d] = calls[d]
                          \/ /\ calls[d].phase = "sent" /\ calls'[d].phase = "done"
                             /\ calls'[d].manager = calls[d].manager /\ calls'[d].conn = calls[d].conn
  PROVE  Wired'
<1>1. \A d \in Calls, m \in Managers : Connects(d, m)' <=> Connects(d, m)
  BY DEF Connects
<1>2. ManagersFit'
  BY <1>1 DEF Wired, ManagersFit, ManagerFits
<1>3. CallsFit'
  BY DEF Wired, CallsFit, CallFits
<1>4. Alone'
  BY <1>1 DEF Wired, Alone
<1>5. ConnsUsed'
  BY DEF Wired, ConnsUsed
<1>6. Serving' /\ ShutdownFits'
  BY DEF Wired, Serving, ShutdownFits
<1> QED
  BY <1>2, <1>3, <1>4, <1>5, <1>6 DEF Wired

\* How a call ends.
LEMMA DoneEffect ==
  ASSUME NEW x \in Call,
         NEW answer \in {"none", "result", "timed out", "unknown", "no answer", "not sent"}
  PROVE  /\ Done(x, answer) \in Call
         /\ Done(x, answer).phase = "done" /\ Done(x, answer).answer = answer
         /\ Done(x, answer).manager = x.manager /\ Done(x, answer).conn = x.conn
BY DEF Done, Call

\* The tool server answers, perhaps to nobody, with what is true.
LEMMA RespondKeeps ==
  ASSUME IInv, NEW c \in Calls, Respond(c)
  PROVE  IInv'
<1> DEFINE answer == IF runs[c].timedOut THEN "timed out" ELSE "result"
           x == IF calls[c].phase = "sent" THEN Done(calls[c], answer) ELSE calls[c]
           r == [runs[c] EXCEPT !.phase = "over"]
<1>1. /\ runs[c].phase = "settled" /\ scripts' = scripts \ {c}
      /\ runs' = [runs EXCEPT ![c] = r] /\ calls' = [calls EXCEPT ![c] = x]
      /\ UNCHANGED <<instance, managers, conns, shutdown, faults>>
  BY DEF Respond, Awaited, RemoveScript
<1>2. calls[c] \in Call /\ runs[c] \in Run
  BY DEF IInv, TypeOK
<1>3. r \in Run /\ r.times = runs[c].times /\ r.conn = runs[c].conn /\ r.timedOut = runs[c].timedOut
      /\ r.shell = runs[c].shell /\ r.child = runs[c].child /\ r.phase = "over"
  BY <1>2 DEF Run
<1>4. x \in Call /\ x.conn = calls[c].conn /\ x.manager = calls[c].manager
      /\ \/ x = calls[c]
         \/ calls[c].phase = "sent" /\ x.phase = "done" /\ x.answer = answer
  BY <1>2, DoneEffect
<1> HIDE DEF r, x
<1>5. TypeOK'
  BY <1>1, <1>3, <1>4 DEF IInv, TypeOK
<1>6. /\ runs'[c] = r /\ calls'[c] = x
      /\ \A d \in Calls \ {c} : runs'[d] = runs[d] /\ calls'[d] = calls[d]
  BY <1>1 DEF IInv, TypeOK
<1>7. RunsFit'
  <2>1. RunFits(c)'
    <3>1. RunFits(c)
      BY DEF IInv, RunsFit
    <3>2. x.answer # "not sent" /\ x.phase \in {"sent", "done"} /\ (x.answer = "timed out" => r.timedOut)
      BY <1>1, <1>3, <1>4, <3>1 DEF RunFits
    <3>3. r.times = 1 /\ r.phase # "none" /\ c \notin scripts'
      BY <1>1, <1>3, <3>1 DEF RunFits
    <3>4. r.conn # Null /\ r.conn = x.conn /\ (r.timedOut => Killed(r))
      BY <1>1, <1>3, <1>4, <3>1 DEF RunFits, Run, Killed
    <3> QED
      BY <1>6, <3>2, <3>3, <3>4 DEF RunFits
  <2>2. ASSUME NEW d \in Calls \ {c}
        PROVE  RunFits(d)'
    BY <1>1, <1>6, SameRunFits DEF IInv
  <2> QED
    BY <2>1, <2>2 DEF RunsFit
<1>8. Wired'
  BY <1>1, <1>4, <1>6, SentMayEnd DEF IInv, Wired
<1> QED
  BY <1>5, <1>7, <1>8 DEF IInv, Wired

\* An answer that does not come in time leaves everything as it is in the tool server.
LEMMA RequestTimesOutKeeps ==
  ASSUME IInv, NEW c \in Calls, RequestTimesOut(c)
  PROVE  IInv'
<1> DEFINE x == Done(calls[c], "no answer")
<1>1. /\ calls[c].phase = "sent" /\ calls' = [calls EXCEPT ![c] = x]
      /\ UNCHANGED <<instance, managers, conns, runs, scripts, shutdown, faults>>
  BY DEF RequestTimesOut
<1>2. calls[c] \in Call
  BY DEF IInv, TypeOK
<1>3. x \in Call /\ x.conn = calls[c].conn /\ x.manager = calls[c].manager
      /\ x.phase = "done" /\ x.answer = "no answer"
  BY <1>2, DoneEffect
<1> HIDE DEF x
<1>4. TypeOK'
  BY <1>1, <1>3 DEF IInv, TypeOK
<1>5. calls'[c] = x /\ \A d \in Calls \ {c} : calls'[d] = calls[d]
  BY <1>1 DEF IInv, TypeOK
<1>6. RunsFit'
  BY <1>1, <1>3, <1>5, SameRunFits DEF IInv, RunsFit
<1>7. Wired'
  BY <1>1, <1>3, <1>5, SentMayEnd DEF IInv, Wired
<1> QED
  BY <1>4, <1>6, <1>7 DEF IInv, Wired

-----------------------------------------------------------------------------
(* The steps of the agent server. *)

\* What calls started stays as it is while others are asked for and connected.
LEMMA AgentRunsFit ==
  ASSUME TypeOK, RunsFit, UNCHANGED <<runs, scripts>>,
         \A k \in Conns : conns[k] = "closed" => conns'[k] = "closed",
         \A d \in Calls :
           \/ calls'[d] = calls[d]
           \/ /\ calls'[d].conn = calls[d].conn /\ calls'[d].phase = "done"
              /\ calls'[d].answer \in {"unknown", "no answer"}
           \/ calls[d].phase \notin {"sent", "done"} /\ calls'[d].answer \in {"none", "not sent"}
  PROVE  RunsFit'
<1> SUFFICES ASSUME NEW d \in Calls
             PROVE  RunFits(d)'
  BY DEF RunsFit
<1>1. calls[d].phase \notin {"sent", "done"} => runs[d].phase = "none"
  BY DEF RunsFit, RunFits
<1> QED
  BY <1>1, SameRunFits

\* What a call changes of itself.
LEMMA CallEffect ==
  ASSUME TypeOK, NEW c \in Calls, NEW x \in Call, calls' = [calls EXCEPT ![c] = x]
  PROVE  /\ calls' \in [Calls -> Call] /\ calls'[c] = x
         /\ \A d \in Calls \ {c} : calls'[d] = calls[d]
BY DEF TypeOK

\* What changes of one manager.
LEMMA ManagerEffect ==
  ASSUME TypeOK, NEW m \in Managers, NEW y \in Manager, managers' = [managers EXCEPT ![m] = y]
  PROVE  /\ managers' \in [Managers -> Manager] /\ managers'[m] = y
         /\ \A n \in Managers \ {m} : managers'[n] = managers[n]
BY DEF TypeOK

\* A request asks for the manager.
LEMMA AskKeeps ==
  ASSUME IInv, NEW c \in Calls, getMcpClient(c)
  PROVE  IInv'
<1> DEFINE x == [calls[c] EXCEPT !.phase = "prepared", !.manager = Instance]
<1>1. /\ calls[c].phase = "none" /\ instance' = Instance
      /\ calls' = [calls EXCEPT ![c] = x]
      /\ UNCHANGED <<managers, conns, runs, scripts, shutdown, faults>>
  BY DEF getMcpClient
<1>2. Instance \in Managers /\ (instance # Null => Instance = instance)
      /\ (shutdown.phase = "none" => Instance # 2 \/ instance = 2)
  BY DEF Instance, Managers, IInv, TypeOK
<1>3. calls[c] \in Call /\ CallFits(c)
  BY DEF IInv, TypeOK, CallsFit
<1>4. x \in Call /\ x.phase = "prepared" /\ x.manager = Instance /\ x.answer = calls[c].answer
      /\ x.conn = calls[c].conn
  BY <1>2, <1>3 DEF Call
<1> HIDE DEF x
<1>5. calls' \in [Calls -> Call] /\ calls'[c] = x /\ \A d \in Calls \ {c} : calls'[d] = calls[d]
  BY <1>1, <1>4, CallEffect DEF IInv
<1>6. TypeOK'
  BY <1>1, <1>2, <1>5 DEF IInv, TypeOK
<1>7. Instance # Null
  BY <1>2, ToolServerAssumption DEF Managers
<1>8. x.answer = "none"
  BY <1>1, <1>3, <1>4 DEF CallFits
<1>9. RunsFit'
  BY <1>1, <1>5, <1>8, AgentRunsFit DEF IInv
<1>10. \A d \in Calls, m \in Managers : Connects(d, m)' <=> Connects(d, m)
  BY <1>1, <1>4, <1>5 DEF Connects
<1>11. ManagersFit'
  BY <1>1, <1>10 DEF IInv, ManagersFit, ManagerFits
<1>12. CallsFit'
  BY <1>1, <1>4, <1>5, <1>7, <1>8 DEF IInv, CallsFit, CallFits
<1>13. Alone'
  BY <1>1, <1>4, <1>5, <1>10 DEF IInv, Alone
<1>14. ConnsUsed'
  BY <1>1, <1>4, <1>5 DEF IInv, ConnsUsed
<1>15. Serving'
  BY <1>1, <1>2, <1>4, <1>5 DEF IInv, Serving
<1>16. ShutdownFits'
  BY <1>1 DEF IInv, ShutdownFits
<1> QED
  BY <1>6, <1>9, <1>11, <1>12, <1>13, <1>14, <1>15, <1>16 DEF IInv

\* While someone else connects, a call waits.
LEMMA PollKeeps ==
  ASSUME IInv, NEW c \in Calls, calls[c].phase = "prepared",
         calls' = [calls EXCEPT ![c].phase = "polling"],
         UNCHANGED <<instance, managers, conns, runs, scripts, shutdown, faults>>
  PROVE  IInv'
<1> DEFINE x == [calls[c] EXCEPT !.phase = "polling"]
<1>1. calls[c] \in Call /\ CallFits(c)
  BY DEF IInv, TypeOK, CallsFit
<1>2. x \in Call /\ x.phase = "polling" /\ x.manager = calls[c].manager /\ x.answer = calls[c].answer
      /\ x.conn = calls[c].conn
  BY <1>1 DEF Call
<1>3. calls' = [calls EXCEPT ![c] = x]
  OBVIOUS
<1> HIDE DEF x
<1>4. calls' \in [Calls -> Call] /\ calls'[c] = x /\ \A d \in Calls \ {c} : calls'[d] = calls[d]
  BY <1>2, <1>3, CallEffect DEF IInv
<1>5. x.answer = "none"
  BY <1>1, <1>2 DEF CallFits
<1>6. TypeOK'
  BY <1>4 DEF IInv, TypeOK
<1>7. RunsFit'
  BY <1>4, <1>5, AgentRunsFit DEF IInv
<1>8. \A d \in Calls, m \in Managers : Connects(d, m)' <=> Connects(d, m)
  BY <1>2, <1>4 DEF Connects
<1>9. ManagersFit'
  BY <1>8 DEF IInv, ManagersFit, ManagerFits
<1>10. CallsFit'
  BY <1>2, <1>4, <1>5 DEF IInv, CallsFit, CallFits
<1>11. Alone'
  BY <1>2, <1>4, <1>8 DEF IInv, Alone
<1>12. ConnsUsed'
  BY <1>2, <1>4 DEF IInv, ConnsUsed
<1>13. Serving'
  BY <1>2, <1>4 DEF IInv, Serving
<1>14. ShutdownFits'
  BY DEF IInv, ShutdownFits
<1> QED
  BY <1>6, <1>7, <1>9, <1>10, <1>11, <1>12, <1>13, <1>14 DEF IInv

\* A call is sent on the client of a manager that is connected: that one works.
LEMMA SendKeeps ==
  ASSUME IInv, NEW c \in Calls, calls[c].phase \in {"prepared", "polling"},
         managers[calls[c].manager].connected, managers[calls[c].manager].client # Null,
         calls' = [calls EXCEPT ![c].phase = "sent", ![c].conn = managers[calls[c].manager].client],
         UNCHANGED <<instance, managers, conns, runs, scripts, shutdown, faults>>
  PROVE  IInv'
<1> DEFINE k == managers[calls[c].manager].client
           x == [calls[c] EXCEPT !.phase = "sent", !.conn = k]
<1>1. calls[c] \in Call /\ CallFits(c)
  BY DEF IInv, TypeOK, CallsFit
<1>2. k \in Conns /\ conns[k] = "open" /\ k # Null
  <2>1. calls[c].manager \in Managers
    BY CallManager DEF IInv
  <2> QED
    BY <2>1 DEF IInv, TypeOK, Manager, ManagersFit, ManagerFits
<1>3. calls' = [calls EXCEPT ![c] = x]
  OBVIOUS
<1> HIDE DEF k
<1>4. x \in Call /\ x.phase = "sent" /\ x.manager = calls[c].manager /\ x.answer = calls[c].answer
      /\ x.conn = k
  BY <1>1, <1>2 DEF Call
<1> HIDE DEF x
<1>5. calls' \in [Calls -> Call] /\ calls'[c] = x /\ \A d \in Calls \ {c} : calls'[d] = calls[d]
  BY <1>3, <1>4, CallEffect DEF IInv
<1>6. x.answer = "none"
  BY <1>1, <1>4 DEF CallFits
<1>7. TypeOK'
  BY <1>5 DEF IInv, TypeOK
<1>8. RunsFit'
  BY <1>5, <1>6, AgentRunsFit DEF IInv
<1>9. \A d \in Calls, m \in Managers : Connects(d, m)' <=> Connects(d, m)
  BY <1>4, <1>5 DEF Connects
<1>10. ManagersFit'
  BY <1>9 DEF IInv, ManagersFit, ManagerFits
<1>11. CallsFit'
  BY <1>2, <1>4, <1>5, <1>6 DEF IInv, CallsFit, CallFits
<1>12. Alone'
  BY <1>4, <1>5, <1>9 DEF IInv, Alone
<1>13. ConnsUsed'
  BY <1>4, <1>5 DEF IInv, ConnsUsed
<1>14. Serving'
  BY <1>2, <1>4, <1>5 DEF IInv, Serving
<1>15. ShutdownFits'
  BY DEF IInv, ShutdownFits
<1> QED
  BY <1>7, <1>8, <1>10, <1>11, <1>12, <1>13, <1>14, <1>15 DEF IInv

\* Nothing that lives is the connection of manager m, and nobody else connects for it.
Idle(c, m) ==
  /\ managers[m].client # Null => conns[managers[m].client] \notin {"starting", "open"}
  /\ \A d \in Calls \ {c} : ~Connects(d, m)

\* A call that goes ahead finds its manager idle.
LEMMA GoesAheadIdle ==
  ASSUME IInv, NEW c \in Calls,
         \/ /\ calls[c].phase \in {"prepared", "polling"} /\ ~managers[calls[c].manager].connecting
            /\ Told(managers[calls[c].manager].transport) = conns
         \/ calls[c].phase = "cleaning"
  PROVE  Idle(c, calls[c].manager)
<1> DEFINE m == calls[c].manager
<1>1. m \in Managers
  BY CallManager DEF IInv
<1>2. ManagerFits(m) /\ CallFits(c) /\ managers[m] \in Manager /\ conns \in [Conns -> ConnState]
  BY <1>1 DEF IInv, ManagersFit, CallsFit, TypeOK
<1>3. CASE calls[c].phase = "cleaning"
  <2>1. Connects(c, m)
    BY <1>3 DEF Connects
  <2>2. \A d \in Calls \ {c} : ~Connects(d, m)
    BY <1>1, <2>1 DEF IInv, Alone
  <2> QED
    BY <1>2, <1>3, <2>2 DEF Idle, CallFits
<1>4. CASE ~managers[m].connecting /\ Told(managers[m].transport) = conns
  <2>1. \A d \in Calls : ~Connects(d, m)
    BY <1>2, <1>4 DEF ManagerFits
  <2>2. managers[m].client # Null => managers[m].client \in Conns /\ managers[m].transport = managers[m].client
    BY <1>2 DEF Manager, ManagerFits
  <2>3. managers[m].client # Null => conns[managers[m].client] \notin {"starting", "open"}
    <3> SUFFICES ASSUME managers[m].client # Null, conns[managers[m].client] \in {"starting", "open"}
                 PROVE  FALSE
      OBVIOUS
    <3>1. conns = [conns EXCEPT ![managers[m].client] = "closing"]
      BY <1>4, <2>2 DEF Told
    <3>2. conns[managers[m].client] = "closing"
      BY <1>2, <2>2, <3>1
    <3> QED
      BY <3>2
  <2> QED
    BY <2>1, <2>3 DEF Idle
<1> QED
  BY <1>3, <1>4

\* A new connection is nobody else's.
LEMMA HandshakeKeeps ==
  ASSUME IInv, NEW c \in Calls, calls[c].phase \in {"prepared", "polling", "cleaning"},
         Idle(c, calls[c].manager), Handshake(c),
         faults' \in 0 .. MaxFaults, UNCHANGED <<instance, runs, scripts, shutdown>>
  PROVE  IInv'
<1>0. PICK m \in Managers : m = calls[c].manager
  BY CallManager DEF IInv
<1>1. PICK k \in Conns :
        /\ conns[k] = "unused"
        /\ conns' = [conns EXCEPT ![k] = "starting"]
        /\ managers' = [managers EXCEPT ![m] =
             [client |-> k, transport |-> k, connecting |-> TRUE, connected |-> FALSE]]
        /\ calls' = [calls EXCEPT ![c].phase = "connecting", ![c].conn = k]
  BY <1>0, HandshakeEffect DEF IInv
<1> DEFINE x == [calls[c] EXCEPT !.phase = "connecting", !.conn = k]
           y == [client |-> k, transport |-> k, connecting |-> TRUE, connected |-> FALSE]
<1>2. calls[c].manager = m /\ k # Null
  BY <1>0, ToolServerAssumption
<1>3. calls[c] \in Call /\ CallFits(c)
  BY DEF IInv, TypeOK, CallsFit
<1>4. calls' = [calls EXCEPT ![c] = x]
  BY <1>1
<1>5. x \in Call /\ x.phase = "connecting" /\ x.manager = m /\ x.answer = calls[c].answer /\ x.conn = k
  BY <1>2, <1>3 DEF Call
<1>6. y \in Manager /\ y.client = k /\ y.transport = k /\ y.connecting /\ ~y.connected
  BY DEF Manager
<1> HIDE DEF x, y
<1>7. calls' \in [Calls -> Call] /\ calls'[c] = x /\ \A d \in Calls \ {c} : calls'[d] = calls[d]
  BY <1>4, <1>5, CallEffect DEF IInv
<1>8. managers' \in [Managers -> Manager] /\ managers'[m] = y
      /\ \A n \in Managers \ {m} : managers'[n] = managers[n]
  BY <1>1, <1>6, ManagerEffect DEF IInv, y
<1>9. conns' \in [Conns -> ConnState] /\ conns'[k] = "starting" /\ \A j \in Conns \ {k} : conns'[j] = conns[j]
  BY <1>1 DEF IInv, TypeOK, ConnState
<1>10. x.answer = "none"
  BY <1>3, <1>5 DEF CallFits
<1>11. TypeOK'
  BY <1>7, <1>8, <1>9 DEF IInv, TypeOK
<1>12. RunsFit'
  BY <1>1, <1>7, <1>9, <1>10, AgentRunsFit DEF IInv
<1>13. /\ \A d \in Calls \ {c}, n \in Managers : Connects(d, n)' <=> Connects(d, n)
       /\ \A n \in Managers : Connects(c, n)' <=> n = m
  BY <1>5, <1>7 DEF Connects
<1>14. \A n \in Managers \ {m} :
         /\ ~Connects(c, n) /\ managers[n].client # k /\ managers[n].client \in Conns \cup {Null}
         /\ ManagerFits(n)
  BY <1>1, <1>2 DEF IInv, ManagersFit, ManagerFits, Connects, TypeOK, Manager
<1>15. ManagersFit'
  <2>1. ManagerFits(m)'
    BY <1>2, <1>6, <1>8, <1>9, <1>13 DEF ManagerFits
  <2>2. ASSUME NEW n \in Managers \ {m}
        PROVE  ManagerFits(n)'
    BY <1>8, <1>9, <1>13, <1>14 DEF ManagerFits
  <2> QED
    BY <2>1, <2>2 DEF ManagersFit
<1>16. \A d \in Calls \ {c} : CallFits(d) /\ ~Connects(d, m) /\ calls[d] \in Call
  BY <1>2 DEF IInv, CallsFit, Idle, TypeOK
<1>17. CallsFit'
  <2>1. CallFits(c)'
    BY <1>2, <1>5, <1>6, <1>7, <1>8, <1>9, <1>10, ToolServerAssumption DEF CallFits, Managers
  <2>2. ASSUME NEW d \in Calls \ {c}
        PROVE  CallFits(d)'
    <3>1. calls[d].phase \in {"cleaning", "connecting"} =>
            /\ calls[d].manager # m /\ calls[d].manager \in Managers
            /\ calls[d].conn \in Conns /\ calls[d].conn # k
      BY <1>1, <1>16, CallManager DEF Connects, CallFits, Call, IInv
    <3> QED
      BY <1>7, <1>8, <1>9, <1>16, <3>1 DEF CallFits
  <2> QED
    BY <2>1, <2>2 DEF CallsFit
<1>18. Alone'
  <2>1. \A n, o \in Managers : managers'[n].client = managers'[o].client => n = o \/ managers'[n].client = Null
    BY <1>6, <1>8, <1>14 DEF IInv, Alone
  <2>2. \A d \in Calls \ {c} : calls[d].phase = "connecting" => calls[d].conn # k
    BY <1>1, <1>16 DEF CallFits
  <2>3. \A d, e \in Calls : /\ calls'[d].phase = "connecting" /\ calls'[e].phase = "connecting"
                            /\ calls'[d].conn = calls'[e].conn
                            => d = e
    BY <1>5, <1>7, <2>2 DEF IInv, Alone
  <2>4. \A d, e \in Calls, n \in Managers : Connects(d, n)' /\ Connects(e, n)' => d = e
    BY <1>13, <1>16 DEF IInv, Alone
  <2> QED
    BY <2>1, <2>3, <2>4 DEF Alone
<1>19. ConnsUsed'
  <2> SUFFICES ASSUME NEW j \in Conns, conns'[j] # "unused"
               PROVE  \E d \in Calls : calls'[d].conn = j /\ calls'[d].phase \in {"connecting", "sent", "done"}
    BY DEF ConnsUsed
  <2>1. CASE j = k
    BY <1>5, <1>7, <2>1
  <2>2. CASE j # k
    <3>1. PICK d \in Calls : calls[d].conn = j /\ calls[d].phase \in {"connecting", "sent", "done"}
      BY <1>9, <2>2 DEF IInv, ConnsUsed
    <3> QED
      BY <1>7, <3>1
  <2> QED
    BY <2>1, <2>2
<1>20. Serving'
  <2> SUFFICES ASSUME shutdown.phase = "none"
               PROVE  Serving'
    BY DEF Serving
  <2>1. instance = m /\ instance # Null
    BY <1>2, ToolServerAssumption DEF IInv, Serving, Managers
  <2>2. managers[m].transport = managers[m].client
    BY <1>2 DEF IInv, ManagersFit, ManagerFits
  <2>3. \A j \in Conns : conns[j] \notin {"starting", "open"}
    BY <1>2, <2>1, <2>2, ToolServerAssumption DEF IInv, Serving, Idle
  <2>4. \A j \in Conns : conns'[j] \in {"starting", "open"} => j = k /\ conns'[j] = "starting"
    BY <1>9, <2>3
  <2>5. \A n \in Managers : managers'[n].client # Null /\ conns'[managers'[n].client] = "open" => FALSE
    BY <1>8, <2>4 DEF Manager
  <2>6. \A d \in Calls : calls[d].phase = "sent" => FALSE
    BY <2>3, <1>3 DEF IInv, Serving, CallsFit, CallFits, TypeOK, Call
  <2> QED
    BY <1>5, <1>6, <1>7, <1>8, <2>1, <2>4, <2>5, <2>6 DEF IInv, Serving
<1>21. ShutdownFits'
  BY DEF IInv, ShutdownFits
<1> QED
  BY <1>11, <1>12, <1>15, <1>17, <1>18, <1>19, <1>20, <1>21 DEF IInv

\* Told to stop, a tool server that is there is closing; all others stay as they are.
LEMMA ToldEffect ==
  ASSUME TypeOK, NEW k \in Conns \cup {Null}
  PROVE  /\ Told(k) \in [Conns -> ConnState]
         /\ \A j \in Conns : \/ Told(k)[j] = conns[j]
                             \/ j = k /\ conns[j] \in {"starting", "open"} /\ Told(k)[j] = "closing"
         /\ k # Null => Told(k)[k] \notin {"starting", "open"}
         /\ Told(k) # conns => k # Null /\ conns[k] \in {"starting", "open"} /\ Told(k)[k] = "closing"
BY DEF Told, TypeOK, ConnState

\* A call that finds an old connection waits for that to close.
LEMMA CleaningKeeps ==
  ASSUME IInv, NEW c \in Calls, NEW m \in Managers, NEW t \in Conns \cup {Null},
         calls[c].phase \in {"prepared", "polling"}, calls[c].manager = m,
         managers[m].transport = t, ~managers[m].connecting,
         ~(managers[m].connected /\ managers[m].client # Null),
         Told(t) # conns, conns' = Told(t),
         managers' = [managers EXCEPT ![m].connecting = TRUE, ![m].connected = FALSE],
         calls' = [calls EXCEPT ![c].phase = "cleaning", ![c].conn = t],
         UNCHANGED <<instance, runs, scripts, shutdown, faults>>
  PROVE  IInv'
<1> DEFINE x == [calls[c] EXCEPT !.phase = "cleaning", !.conn = t]
           y == [managers[m] EXCEPT !.connecting = TRUE, !.connected = FALSE]
<1>1. calls[c] \in Call /\ CallFits(c) /\ managers[m] \in Manager /\ ManagerFits(m)
  BY DEF IInv, TypeOK, CallsFit, ManagersFit
<1>2. /\ conns' \in [Conns -> ConnState]
      /\ t \in Conns /\ t # Null /\ conns[t] \in {"starting", "open"} /\ conns'[t] = "closing"
      /\ \A j \in Conns \ {t} : conns'[j] = conns[j]
  BY ToldEffect DEF IInv
<1>3. calls' = [calls EXCEPT ![c] = x] /\ managers' = [managers EXCEPT ![m] = y]
  OBVIOUS
<1>4. x \in Call /\ x.phase = "cleaning" /\ x.manager = m /\ x.answer = calls[c].answer /\ x.conn = t
  BY <1>1 DEF Call
<1>5. y \in Manager /\ y.client = t /\ y.transport = t /\ y.connecting /\ ~y.connected
  BY <1>1 DEF Manager, ManagerFits
<1> HIDE DEF x, y
<1>6. calls' \in [Calls -> Call] /\ calls'[c] = x /\ \A d \in Calls \ {c} : calls'[d] = calls[d]
  BY <1>3, <1>4, CallEffect DEF IInv
<1>7. managers' \in [Managers -> Manager] /\ managers'[m] = y
      /\ \A n \in Managers \ {m} : managers'[n] = managers[n]
  BY <1>3, <1>5, ManagerEffect DEF IInv
<1>8. x.answer = "none"
  BY <1>1, <1>4 DEF CallFits
<1>9. TypeOK'
  BY <1>2, <1>6, <1>7 DEF IInv, TypeOK
<1>10. RunsFit'
  BY <1>2, <1>6, <1>8, AgentRunsFit DEF IInv
<1>11. /\ \A d \in Calls \ {c}, n \in Managers : Connects(d, n)' <=> Connects(d, n)
       /\ \A n \in Managers : Connects(c, n)' <=> n = m
       /\ \A d \in Calls : ~Connects(d, m)
  BY <1>1, <1>4, <1>6 DEF Connects, ManagerFits
<1>12. \A n \in Managers \ {m} :
         /\ ~Connects(c, n) /\ managers[n].client # t /\ managers[n].client \in Conns \cup {Null}
         /\ ManagerFits(n)
  BY <1>1, <1>2 DEF IInv, ManagersFit, ManagerFits, Connects, TypeOK, Manager, Alone
<1>13. ManagersFit'
  <2>1. ManagerFits(m)'
    BY <1>2, <1>5, <1>7, <1>11 DEF ManagerFits
  <2>2. ASSUME NEW n \in Managers \ {m}
        PROVE  ManagerFits(n)'
    BY <1>2, <1>7, <1>11, <1>12 DEF ManagerFits
  <2> QED
    BY <2>1, <2>2 DEF ManagersFit
<1>14. \A d \in Calls \ {c} : CallFits(d) /\ calls[d] \in Call
  BY DEF IInv, CallsFit, TypeOK
<1>15. CallsFit'
  <2>1. CallFits(c)'
    <3>1. m # Null
      BY ToolServerAssumption DEF Managers
    <3>2. managers'[calls'[c].manager].client = t /\ calls'[c].answer = "none"
      BY <1>4, <1>5, <1>6, <1>7, <1>8
    <3> QED
      BY <1>2, <1>4, <1>6, <3>1, <3>2 DEF CallFits
  <2>2. ASSUME NEW d \in Calls \ {c}
        PROVE  CallFits(d)'
    <3>1. calls[d].phase \in {"cleaning", "connecting"} =>
            /\ calls[d].manager # m /\ calls[d].manager \in Managers /\ calls[d].conn \in Conns
      BY <1>11, <1>14, CallManager DEF Connects, CallFits, Call, IInv
    <3> QED
      BY <1>2, <1>6, <1>7, <1>14, <3>1 DEF CallFits
  <2> QED
    BY <2>1, <2>2 DEF CallsFit
<1>16. Alone'
  <2>1. \A n, o \in Managers : managers'[n].client = managers'[o].client => n = o \/ managers'[n].client = Null
    BY <1>5, <1>7, <1>12 DEF IInv, Alone
  <2>2. \A d, e \in Calls : /\ calls'[d].phase = "connecting" /\ calls'[e].phase = "connecting"
                            /\ calls'[d].conn = calls'[e].conn
                            => d = e
    BY <1>4, <1>6 DEF IInv, Alone
  <2>3. \A d, e \in Calls, n \in Managers : Connects(d, n)' /\ Connects(e, n)' => d = e
    BY <1>11 DEF IInv, Alone
  <2> QED
    BY <2>1, <2>2, <2>3 DEF Alone
<1>17. ConnsUsed'
  <2> SUFFICES ASSUME NEW j \in Conns, conns'[j] # "unused"
               PROVE  \E d \in Calls : calls'[d].conn = j /\ calls'[d].phase \in {"connecting", "sent", "done"}
    BY DEF ConnsUsed
  <2>1. PICK d \in Calls : calls[d].conn = j /\ calls[d].phase \in {"connecting", "sent", "done"}
    BY <1>2 DEF IInv, ConnsUsed
  <2> QED
    BY <1>6, <2>1
<1>18. Serving'
  <2> SUFFICES ASSUME shutdown.phase = "none"
               PROVE  Serving'
    BY DEF Serving
  <2>1. instance = m /\ conns[t] # "open"
    BY <1>1, <1>2, ToolServerAssumption DEF IInv, Serving, Managers, ManagerFits
  <2>2. \A j \in Conns : conns'[j] \notin {"starting", "open"}
    BY <1>2, <2>1 DEF IInv, Serving
  <2>3. \A n \in Managers : managers'[n].client # Null /\ conns'[managers'[n].client] = "open" => FALSE
    BY <1>7, <2>2 DEF Manager
  <2>4. \A d \in Calls : calls[d].phase = "sent" => FALSE
    <3> SUFFICES ASSUME NEW d \in Calls, calls[d].phase = "sent"
                 PROVE  FALSE
      OBVIOUS
    <3>1. conns[calls[d].conn] = "open" /\ calls[d].conn \in Conns
      BY DEF IInv, Serving, CallsFit, CallFits, TypeOK, Call
    <3> QED
      BY <1>2, <2>1, <2>2, <3>1
  <2> QED
    BY <1>4, <1>6, <2>1, <2>2, <2>3, <2>4 DEF IInv, Serving
<1>19. ShutdownFits'
  BY DEF IInv, ShutdownFits
<1> QED
  BY <1>9, <1>10, <1>13, <1>15, <1>16, <1>17, <1>18, <1>19 DEF IInv

\* connect() sends the call, or connects for it, or waits for an old connection.
LEMMA ConnectKeeps ==
  ASSUME IInv, NEW c \in Calls, calls[c].phase \in {"prepared", "polling"}, Connect(c),
         LET m == managers[calls[c].manager] IN m.connecting => m.connected /\ m.client # Null,
         UNCHANGED <<instance, runs, scripts, shutdown, faults>>
  PROVE  IInv'
<1>1. PICK m \in Managers : calls[c].manager = m
  BY CallManager DEF IInv
<1>2. CASE managers[m].connected /\ managers[m].client # Null
  BY <1>1, <1>2, SendKeeps DEF Connect
<1>3. CASE ~(managers[m].connected /\ managers[m].client # Null) /\ Told(managers[m].transport) = conns
  <2>1. Handshake(c) /\ ~managers[m].connecting
    BY <1>1, <1>3 DEF Connect
  <2>2. Idle(c, m)
    BY <1>1, <1>3, <2>1, GoesAheadIdle
  <2>3. faults' \in 0 .. MaxFaults
    BY DEF IInv, TypeOK
  <2> QED
    BY <1>1, <2>1, <2>2, <2>3, HandshakeKeeps
<1>4. CASE ~(managers[m].connected /\ managers[m].client # Null) /\ Told(managers[m].transport) # conns
  <2>1. PICK t \in Conns \cup {Null} : managers[m].transport = t
    BY DEF IInv, TypeOK, Manager
  <2>2. /\ conns' = Told(t) /\ Told(t) # conns /\ ~managers[m].connecting
        /\ managers' = [managers EXCEPT ![m].connecting = TRUE, ![m].connected = FALSE]
        /\ calls' = [calls EXCEPT ![c].phase = "cleaning", ![c].conn = t]
    BY <1>1, <1>4, <2>1 DEF Connect
  <2> QED
    BY <1>1, <1>4, <2>1, <2>2, CleaningKeeps
<1> QED
  BY <1>2, <1>3, <1>4

\* A call of a tool, and one that has waited for somebody else's attempt.
LEMMA CallKeeps ==
  ASSUME IInv, NEW c \in Calls, callTool(c) \/ StopPolling(c)
  PROVE  IInv'
<1> DEFINE m == managers[calls[c].manager]
<1>1. CASE callTool(c) /\ m.connecting /\ ~(m.connected /\ m.client # Null)
  BY <1>1, PollKeeps DEF callTool
<1>2. CASE callTool(c) /\ ~(m.connecting /\ ~(m.connected /\ m.client # Null))
  BY <1>2, ConnectKeeps DEF callTool
<1>3. CASE StopPolling(c)
  BY <1>3, ConnectKeeps DEF StopPolling, MayConnect
<1> QED
  BY <1>1, <1>2, <1>3

\* The old connection is closed, or given up.
LEMMA CleanedUpKeeps ==
  ASSUME IInv, NEW c \in Calls, CleanedUp(c)
  PROVE  IInv'
<1>1. faults' \in 0 .. MaxFaults
  BY FaultType DEF CleanedUp, IInv, TypeOK
<1>2. Idle(c, calls[c].manager)
  BY GoesAheadIdle DEF CleanedUp
<1> QED
  BY <1>1, <1>2, HandshakeKeeps DEF CleanedUp

\* An attempt to connect ends: the connection works or is told to close, and the call goes out on
\* it or has failed.
LEMMA AttemptEnds ==
  ASSUME IInv, NEW c \in Calls, NEW m \in Managers, NEW k \in Conns, NEW s \in {"open", "closing"},
         NEW x \in Call, NEW y \in Manager,
         calls[c].phase = "connecting", calls[c].manager = m, calls[c].conn = k,
         conns[k] = "starting", conns' = [conns EXCEPT ![k] = s],
         managers' = [managers EXCEPT ![m] = y], y.client = managers[m].client,
         y.transport = managers[m].transport, ~y.connecting,
         s = "open" => y.connected, s # "open" => y.connected = managers[m].connected,
         calls' = [calls EXCEPT ![c] = x], x.manager = m, x.conn = k,
         \/ x.phase = "sent" /\ x.answer = "none" /\ s = "open"
         \/ x.phase = "done" /\ x.answer = "not sent",
         faults' \in 0 .. MaxFaults, UNCHANGED <<instance, runs, scripts, shutdown>>
  PROVE  IInv'
<1>1. ManagerFits(m) /\ CallFits(c) /\ managers[m] \in Manager /\ k # Null /\ m # Null
  <2>1. ManagerFits(m) /\ CallFits(c) /\ managers[m] \in Manager
    BY DEF IInv, TypeOK, CallsFit, ManagersFit
  <2>2. k # Null /\ m # Null
    BY SomeManager, ToolServerAssumption
  <2> QED
    BY <2>1, <2>2
<1>2. managers[m].client \in {k, Null}
  BY <1>1 DEF CallFits
<1>3. calls' \in [Calls -> Call] /\ calls'[c] = x /\ \A d \in Calls \ {c} : calls'[d] = calls[d]
  BY CallEffect DEF IInv
<1>4. managers' \in [Managers -> Manager] /\ managers'[m] = y
      /\ \A n \in Managers \ {m} : managers'[n] = managers[n]
  BY ManagerEffect DEF IInv
<1>5. conns' \in [Conns -> ConnState] /\ conns'[k] = s /\ \A j \in Conns \ {k} : conns'[j] = conns[j]
  BY DEF IInv, TypeOK, ConnState
<1>6. TypeOK'
  BY <1>3, <1>4, <1>5 DEF IInv, TypeOK
<1>7. RunsFit'
  BY <1>3, <1>5, AgentRunsFit DEF IInv
<1>8. /\ \A d \in Calls \ {c}, n \in Managers : Connects(d, n)' <=> Connects(d, n)
      /\ \A n \in Managers : ~Connects(c, n)' /\ (Connects(c, n) <=> n = m)
      /\ \A d \in Calls \ {c} : ~Connects(d, m)
  BY <1>3 DEF Connects, IInv, Alone
<1>9. ManagersFit'
  <2>1. ManagerFits(m)'
    BY <1>1, <1>2, <1>4, <1>5, <1>8 DEF ManagerFits
  <2>2. ASSUME NEW n \in Managers \ {m}
        PROVE  ManagerFits(n)'
    <3>1. ManagerFits(n) /\ managers[n] \in Manager
      BY DEF IInv, TypeOK, ManagersFit
    <3>2. managers[n].client \in Conns \cup {Null}
      BY <3>1 DEF Manager
    <3> QED
      BY <1>4, <1>5, <1>8, <3>1, <3>2 DEF ManagerFits
  <2> QED
    BY <2>1, <2>2 DEF ManagersFit
<1>10. CallsFit'
  <2>1. CallFits(c)'
    BY <1>1, <1>3, <1>5 DEF CallFits
  <2>2. ASSUME NEW d \in Calls \ {c}
        PROVE  CallFits(d)'
    <3>1. CallFits(d) /\ calls[d] \in Call
      BY DEF IInv, CallsFit, TypeOK
    <3>2. calls[d].phase \in {"cleaning", "connecting"} =>
            /\ calls[d].manager # m /\ calls[d].manager \in Managers
            /\ calls[d].conn \in Conns /\ calls[d].conn # k
      <4>1. calls[d].phase \in {"cleaning", "connecting"} =>
              calls[d].manager # m /\ calls[d].manager \in Managers /\ calls[d].conn \in Conns
        BY <1>8, <3>1, CallManager DEF Connects, CallFits, Call, IInv
      <4>2. calls[d].phase = "cleaning" => calls[d].conn # k
        BY <3>1 DEF CallFits
      <4>3. calls[d].phase = "connecting" => calls[d].conn # k
        BY DEF IInv, Alone
      <4> QED
        BY <4>1, <4>2, <4>3
    <3> QED
      BY <1>3, <1>4, <1>5, <3>1, <3>2 DEF CallFits
  <2> QED
    BY <2>1, <2>2 DEF CallsFit
<1>11. Alone'
  <2>1. \A n, o \in Managers : managers'[n].client = managers'[o].client => n = o \/ managers'[n].client = Null
    <3>1. \A n \in Managers : managers'[n].client = managers[n].client
      BY <1>4
    <3> QED
      BY <3>1 DEF IInv, Alone
  <2>2. \A d, e \in Calls : /\ calls'[d].phase = "connecting" /\ calls'[e].phase = "connecting"
                            /\ calls'[d].conn = calls'[e].conn
                            => d = e
    BY <1>3 DEF IInv, Alone
  <2>3. \A d, e \in Calls, n \in Managers : Connects(d, n)' /\ Connects(e, n)' => d = e
    BY <1>8 DEF IInv, Alone
  <2> QED
    BY <2>1, <2>2, <2>3 DEF Alone
<1>12. ConnsUsed'
  <2> SUFFICES ASSUME NEW j \in Conns, conns'[j] # "unused"
               PROVE  \E d \in Calls : calls'[d].conn = j /\ calls'[d].phase \in {"connecting", "sent", "done"}
    BY DEF ConnsUsed
  <2>1. PICK d \in Calls : calls[d].conn = j /\ calls[d].phase \in {"connecting", "sent", "done"}
    BY <1>5 DEF IInv, ConnsUsed
  <2> QED
    BY <1>3, <2>1
<1>13. Serving'
  <2> SUFFICES ASSUME shutdown.phase = "none"
               PROVE  Serving'
    BY DEF Serving
  <2>1. instance = m /\ managers[m].client = k /\ managers[m].transport = k
    BY <1>1 DEF IInv, Serving, ManagerFits
  <2>2. \A j \in Conns : conns'[j] \in {"starting", "open"} => managers'[m].transport = j
    BY <1>4, <1>5, <2>1 DEF IInv, Serving
  <2>3. ASSUME NEW n \in Managers, managers'[n].client # Null, conns'[managers'[n].client] = "open"
        PROVE  managers'[n].connected
    <3>1. CASE n = m
      BY <1>4, <1>5, <2>1, <2>3, <3>1
    <3>2. CASE n # m
      <4>1. managers[n].client # k /\ managers[n].client \in Conns
        <5>1. managers[n].client # Null /\ managers[n] \in Manager
          BY <1>4, <2>3, <3>2 DEF IInv, TypeOK
        <5>2. managers[n].client # managers[m].client
          BY <3>2, <5>1 DEF IInv, Alone
        <5> QED
          BY <2>1, <5>1, <5>2 DEF Manager
      <4> QED
        BY <1>4, <1>5, <2>3, <3>2, <4>1 DEF IInv, Serving
    <3> QED
      BY <3>1, <3>2
  <2>4. ASSUME NEW d \in Calls, calls'[d].phase = "sent"
        PROVE  conns'[calls'[d].conn] = "open"
    <3>1. CASE d = c
      BY <1>3, <1>5, <2>4, <3>1
    <3>2. CASE d # c
      <4>1. conns[calls[d].conn] = "open" /\ calls[d].conn \in Conns
        BY <1>3, <2>4, <3>2 DEF IInv, Serving, CallsFit, CallFits, TypeOK, Call
      <4> QED
        BY <1>3, <1>5, <3>2, <4>1
    <3> QED
      BY <3>1, <3>2
  <2>5. instance # 2 /\ \A d \in Calls : calls'[d].manager \in {Null, instance}
    BY <1>3, <2>1 DEF IInv, Serving
  <2> QED
    BY <1>1, <2>1, <2>2, <2>3, <2>4, <2>5 DEF Serving
<1>14. ShutdownFits'
  BY DEF IInv, ShutdownFits
<1> QED
  BY <1>6, <1>7, <1>9, <1>10, <1>11, <1>12, <1>13, <1>14 DEF IInv

\* The handshake is done.
LEMMA ConnectedKeeps ==
  ASSUME IInv, NEW c \in Calls, Connected(c)
  PROVE  IInv'
<1>1. PICK m \in Managers : calls[c].manager = m
  BY CallManager DEF IInv, Connected
<1>2. PICK k \in Conns : calls[c].conn = k
  BY DEF IInv, Connected, CallsFit, CallFits, TypeOK, Call
<1> DEFINE y == [managers[m] EXCEPT !.connected = TRUE, !.connecting = FALSE]
           x == IF managers[m].client = Null THEN Done(calls[c], "not sent")
                ELSE [calls[c] EXCEPT !.phase = "sent", !.conn = managers[m].client]
<1>3. /\ calls[c].phase = "connecting" /\ conns[k] = "starting"
      /\ conns' = [conns EXCEPT ![k] = "open"] /\ managers' = [managers EXCEPT ![m] = y]
      /\ calls' = [calls EXCEPT ![c] = x]
      /\ UNCHANGED <<instance, runs, scripts, shutdown, faults>>
  BY <1>1, <1>2 DEF Connected
<1>4. managers[m] \in Manager /\ calls[c] \in Call /\ faults \in 0 .. MaxFaults
  BY DEF IInv, TypeOK
<1>5. y \in Manager /\ y.client = managers[m].client /\ y.transport = managers[m].transport
      /\ ~y.connecting /\ y.connected
  BY <1>4 DEF Manager
<1>6. managers[m].client \in {k, Null} /\ calls[c].answer = "none"
  BY <1>1, <1>2, <1>3 DEF IInv, CallsFit, CallFits
<1>7. /\ x \in Call /\ x.manager = m /\ x.conn = k
      /\ \/ x.phase = "sent" /\ x.answer = "none"
         \/ x.phase = "done" /\ x.answer = "not sent"
  <2>1. CASE managers[m].client = Null
    BY <1>1, <1>2, <1>4, <2>1, DoneEffect
  <2>2. CASE managers[m].client # Null
    BY <1>1, <1>2, <1>4, <1>6, <2>2 DEF Call
  <2> QED
    BY <2>1, <2>2
<1> HIDE DEF x, y
<1> QED
  BY <1>1, <1>2, <1>3, <1>4, <1>5, <1>7, AttemptEnds

\* The handshake fails.
LEMMA ConnectFailsKeeps ==
  ASSUME IInv, NEW c \in Calls, ConnectFails(c)
  PROVE  IInv'
<1>1. PICK m \in Managers : calls[c].manager = m
  BY CallManager DEF IInv, ConnectFails
<1>2. PICK k \in Conns : calls[c].conn = k
  BY DEF IInv, ConnectFails, CallsFit, CallFits, TypeOK, Call
<1> DEFINE y == AttemptFailed(managers[m])
           x == Done(calls[c], "not sent")
<1>3. /\ calls[c].phase = "connecting" /\ conns[k] = "starting"
      /\ conns' = Told(k) /\ managers' = [managers EXCEPT ![m] = y]
      /\ calls' = [calls EXCEPT ![c] = x]
      /\ Fault /\ UNCHANGED <<instance, runs, scripts, shutdown>>
  BY <1>1, <1>2 DEF ConnectFails
<1>4. managers[m] \in Manager /\ calls[c] \in Call /\ faults' \in 0 .. MaxFaults
  BY <1>3, FaultType DEF IInv, TypeOK
<1>5. y \in Manager /\ y.client = managers[m].client /\ y.transport = managers[m].transport
      /\ ~y.connecting /\ y.connected = managers[m].connected
  BY <1>4 DEF Manager, AttemptFailed
<1>6. x \in Call /\ x.manager = m /\ x.conn = k /\ x.phase = "done" /\ x.answer = "not sent"
  BY <1>1, <1>2, <1>4, DoneEffect
<1>7. conns' = [conns EXCEPT ![k] = "closing"]
  BY <1>3, ToolServerAssumption DEF Told
<1> HIDE DEF x, y
<1> QED
  BY <1>1, <1>2, <1>3, <1>4, <1>5, <1>6, <1>7, AttemptEnds

\* What the end of connection k changes.
LEMMA CloseEffect ==
  ASSUME IInv, NEW k \in Conns, conns[k] \in {"closing", "open"}, ConnectionCloses(k)
  PROVE  /\ conns' \in [Conns -> ConnState] /\ conns'[k] = "closed"
         /\ \A j \in Conns \ {k} : conns'[j] = conns[j]
         /\ shutdown' \in Shutdown /\ ShutdownFits'
         /\ shutdown'.phase = "none" => shutdown.phase = "none" /\ shutdown.transport = Null
         /\ shutdown.transport = Null => shutdown' = shutdown
         /\ UNCHANGED <<instance, scripts>>
<1>1. conns' = [conns EXCEPT ![k] = "closed"] /\ conns \in [Conns -> ConnState]
      /\ shutdown' = (IF shutdown.transport = k THEN NotClosing("waiting") ELSE shutdown)
      /\ UNCHANGED <<instance, scripts>>
  BY DEF ConnectionCloses, IInv, TypeOK
<1>2. shutdown \in Shutdown /\ k # Null /\ ShutdownFits
  BY ToolServerAssumption DEF IInv, TypeOK
<1>3. NotClosing("waiting") \in Shutdown /\ NotClosing("waiting").phase = "waiting"
      /\ NotClosing("waiting").closing = Null /\ NotClosing("waiting").transport = Null
  BY DEF NotClosing, Shutdown
<1>4. shutdown' \in Shutdown /\ ShutdownFits'
  BY <1>1, <1>2, <1>3 DEF ShutdownFits
<1>5. shutdown'.phase = "none" => shutdown.phase = "none" /\ shutdown.transport = Null
  BY <1>1, <1>2, <1>3 DEF ShutdownFits
<1>6. conns' \in [Conns -> ConnState] /\ conns'[k] = "closed" /\ \A j \in Conns \ {k} : conns'[j] = conns[j]
  BY <1>1 DEF ConnState
<1> QED
  BY <1>1, <1>2, <1>4, <1>5, <1>6

\* What it changes of the calls: those on it end.
LEMMA CloseCalls ==
  ASSUME IInv, NEW k \in Conns, ConnectionCloses(k)
  PROVE  /\ calls' \in [Calls -> Call]
         /\ \A c \in Calls :
              /\ calls'[c].manager = calls[c].manager /\ calls'[c].conn = calls[c].conn
              /\ calls[c].phase = "connecting" /\ calls[c].conn = k
                   => calls'[c].phase = "done" /\ calls'[c].answer = "not sent"
              /\ calls[c].phase = "sent" /\ calls[c].conn = k
                   => calls'[c].phase = "done" /\ calls'[c].answer = "unknown"
              /\ calls[c].conn # k \/ calls[c].phase \notin {"connecting", "sent"} => calls'[c] = calls[c]
<1> DEFINE new(c) == IF calls[c].phase = "connecting" /\ calls[c].conn = k THEN Done(calls[c], "not sent")
                     ELSE IF calls[c].phase = "sent" /\ calls[c].conn = k THEN Done(calls[c], "unknown")
                     ELSE calls[c]
<1>1. calls' = [c \in Calls |-> new(c)]
  BY DEF ConnectionCloses, AfterClose
<1>2. ASSUME NEW c \in Calls
      PROVE  /\ new(c) \in Call
             /\ new(c).manager = calls[c].manager /\ new(c).conn = calls[c].conn
             /\ calls[c].phase = "connecting" /\ calls[c].conn = k
                  => new(c).phase = "done" /\ new(c).answer = "not sent"
             /\ calls[c].phase = "sent" /\ calls[c].conn = k
                  => new(c).phase = "done" /\ new(c).answer = "unknown"
             /\ calls[c].conn # k \/ calls[c].phase \notin {"connecting", "sent"} => new(c) = calls[c]
  <2>1. calls[c] \in Call
    BY DEF IInv, TypeOK
  <2> QED
    BY <2>1, DoneEffect
<1>3. \A c \in Calls : calls'[c] = new(c)
  BY <1>1
<1> HIDE DEF new
<1> QED
  BY <1>1, <1>2, <1>3

\* What it changes of the managers: nobody is connected by it any more, and nobody goes on
\* connecting on it.
LEMMA CloseManagers ==
  ASSUME IInv, NEW k \in Conns, ConnectionCloses(k)
  PROVE  /\ managers' \in [Managers -> Manager]
         /\ \A m \in Managers :
              /\ managers'[m].client = managers'[m].transport
              /\ managers'[m].client \in {managers[m].client, Null}
              /\ shutdown.transport = Null => managers'[m].client = managers[m].client
              /\ managers'[m].connected => managers[m].connected /\ managers[m].client # k
              /\ \/ \E c \in Calls : calls[c].manager = m /\ calls[c].conn = k /\ calls[c].phase = "sent"
                 \/ managers[m].client = k
                 \/ managers'[m].connected = managers[m].connected
              /\ managers'[m].connecting =
                   IF \E c \in Calls : calls[c].manager = m /\ calls[c].conn = k /\ calls[c].phase = "connecting"
                   THEN FALSE ELSE managers[m].connecting
<1> DEFINE connector(m) == \E c \in Calls : calls[c].manager = m /\ calls[c].conn = k /\ calls[c].phase = "connecting"
           sent(m)   == \E c \in Calls : calls[c].manager = m /\ calls[c].conn = k /\ calls[c].phase = "sent"
           Closed(m) == IF sent(m) THEN [managers[m] EXCEPT !.connected = FALSE] ELSE Onclose(managers[m], k)
           After(m)  == IF connector(m) THEN AttemptFailed(Closed(m)) ELSE Closed(m)
           new(m)    == IF shutdown.transport = k /\ m = shutdown.closing THEN Forgotten(After(m)) ELSE After(m)
<1>1. managers' = [m \in Managers |-> new(m)]
  <2>1. \A m \in Managers :
          /\ connector(m) <=> \E c \in {c \in Calls : calls[c].phase = "connecting" /\ calls[c].conn = k} :
                                calls[c].manager = m
          /\ sent(m) <=> \E c \in {c \in Calls : calls[c].phase = "sent" /\ calls[c].conn = k} :
                           calls[c].manager = m
    OBVIOUS
  <2> HIDE DEF connector, sent
  <2> QED
    BY <2>1 DEF ConnectionCloses
<1>2. ASSUME NEW m \in Managers
      PROVE  /\ new(m) \in Manager
             /\ new(m).client = new(m).transport
             /\ new(m).client \in {managers[m].client, Null}
             /\ shutdown.transport = Null => new(m).client = managers[m].client
             /\ new(m).connected => managers[m].connected /\ managers[m].client # k
             /\ sent(m) \/ managers[m].client = k \/ new(m).connected = managers[m].connected
             /\ new(m).connecting = IF connector(m) THEN FALSE ELSE managers[m].connecting
  <2> HIDE DEF connector, sent
  <2>1. managers[m] \in Manager /\ managers[m].client = managers[m].transport /\ k # Null
    BY ToolServerAssumption DEF IInv, TypeOK, ManagersFit, ManagerFits
  <2>2. Closed(m) \in Manager /\ Closed(m).client = managers[m].client
        /\ Closed(m).transport = managers[m].transport /\ Closed(m).connecting = managers[m].connecting
    BY <2>1 DEF Onclose, Manager
  <2>3. /\ Closed(m).connected => managers[m].connected
        /\ sent(m) \/ managers[m].client = k \/ Closed(m).connected = managers[m].connected
    BY <2>1 DEF Onclose, Manager
  <2>4. Closed(m).connected => managers[m].client # k
    BY <2>1 DEF Onclose, Manager
  <2> HIDE DEF Closed
  <2>5. After(m) \in Manager /\ After(m).client = Closed(m).client
        /\ After(m).transport = Closed(m).transport /\ After(m).connected = Closed(m).connected
        /\ After(m).connecting = IF connector(m) THEN FALSE ELSE Closed(m).connecting
    BY <2>2 DEF AttemptFailed, Manager
  <2> HIDE DEF After
  <2>6. new(m) \in Manager /\ new(m).connected = After(m).connected
        /\ new(m).connecting = After(m).connecting
        /\ new(m).client = new(m).transport /\ new(m).client \in {managers[m].client, Null}
        /\ (shutdown.transport = Null => new(m).client = managers[m].client)
    BY <2>1, <2>2, <2>5 DEF Forgotten, Manager
  <2> HIDE DEF new
  <2> QED
    BY <2>1, <2>2, <2>3, <2>4, <2>5, <2>6
<1>3. \A m \in Managers : managers'[m] = new(m)
  BY <1>1
<1> HIDE DEF new
<1> QED
  BY <1>1, <1>2, <1>3

\* What it changes of what calls started: that is over, and stays what it was otherwise.
LEMMA CloseRuns ==
  ASSUME IInv, NEW k \in Conns, conns[k] \in {"closing", "open"}, ConnectionCloses(k)
  PROVE  RunsFit' /\ runs' \in [Calls -> Run]
<1>1. /\ conns' \in [Conns -> ConnState] /\ conns'[k] = "closed" /\ scripts' = scripts
      /\ \A j \in Conns \ {k} : conns'[j] = conns[j]
  BY CloseEffect
<1>2. runs' = [c \in Calls |-> IF runs[c].conn = k THEN [runs[c] EXCEPT !.phase = "over"] ELSE runs[c]]
  BY DEF ConnectionCloses
<1>3. ASSUME NEW c \in Calls
      PROVE  RunFits(c)' /\ runs'[c] \in Run
  <2>1. runs[c] \in Run /\ RunFits(c) /\ k # Null
    BY ToolServerAssumption DEF IInv, TypeOK, RunsFit
  <2>2. /\ calls'[c].conn = calls[c].conn
        /\ calls[c].phase = "sent" /\ calls[c].conn = k
             => calls'[c].phase = "done" /\ calls'[c].answer = "unknown"
        /\ \/ calls'[c] = calls[c]
           \/ calls[c].phase = "connecting" /\ calls'[c].answer = "not sent"
           \/ calls'[c].phase = "done" /\ calls'[c].answer = "unknown"
        /\ calls[c].phase = "done" => calls'[c] = calls[c]
    BY CloseCalls
  <2>3. CASE runs[c].conn # k
    <3>1. runs'[c] = runs[c]
      BY <1>2, <2>3
    <3>2. calls[c].phase = "connecting" => runs[c].phase = "none"
      BY <2>1 DEF RunFits
    <3> QED
      BY <1>1, <2>1, <2>2, <3>1, <3>2, SameRunFits DEF IInv
  <2>4. CASE runs[c].conn = k
    <3> DEFINE r == [runs[c] EXCEPT !.phase = "over"]
    <3>1. runs'[c] = r
      BY <1>2, <2>4
    <3>2. r \in Run /\ r.phase = "over" /\ r.conn = k /\ r.times = runs[c].times /\ r.shell = runs[c].shell
          /\ r.child = runs[c].child /\ r.timedOut = runs[c].timedOut
      BY <2>1, <2>4 DEF Run
    <3> HIDE DEF r
    <3>3. runs[c].phase # "none" /\ calls[c].conn = k /\ calls[c].phase \in {"sent", "done"}
      BY <2>1, <2>4 DEF RunFits
    <3>4. r.times = 1 /\ (r.timedOut => Killed(r))
      BY <2>1, <3>2, <3>3 DEF RunFits, Killed
    <3>5. /\ calls'[c].phase = "done" /\ calls'[c].conn = k /\ calls'[c].answer # "not sent"
          /\ calls'[c].answer = "timed out" => r.timedOut
      BY <2>1, <2>2, <3>2, <3>3 DEF RunFits
    <3> QED
      BY <1>1, <2>1, <3>1, <3>2, <3>4, <3>5 DEF RunFits
  <2> QED
    BY <2>3, <2>4
<1> QED
  BY <1>2, <1>3 DEF RunsFit

\* The end of a connection.
LEMMA ClosesKeeps ==
  ASSUME IInv, NEW k \in Conns, conns[k] \in {"closing", "open"}, ConnectionCloses(k),
         faults' \in 0 .. MaxFaults
  PROVE  IInv'
<1>1. /\ conns' \in [Conns -> ConnState] /\ conns'[k] = "closed"
      /\ \A j \in Conns \ {k} : conns'[j] = conns[j]
      /\ shutdown' \in Shutdown /\ ShutdownFits'
      /\ shutdown'.phase = "none" => shutdown.phase = "none" /\ shutdown.transport = Null
      /\ UNCHANGED <<instance, scripts>>
  BY CloseEffect
<1>2. /\ calls' \in [Calls -> Call]
      /\ \A c \in Calls :
           /\ calls'[c].manager = calls[c].manager /\ calls'[c].conn = calls[c].conn
           /\ calls[c].phase = "connecting" /\ calls[c].conn = k
                => calls'[c].phase = "done" /\ calls'[c].answer = "not sent"
           /\ calls[c].phase = "sent" /\ calls[c].conn = k
                => calls'[c].phase = "done" /\ calls'[c].answer = "unknown"
           /\ calls[c].conn # k \/ calls[c].phase \notin {"connecting", "sent"} => calls'[c] = calls[c]
  BY CloseCalls
<1>3. /\ managers' \in [Managers -> Manager]
      /\ \A m \in Managers :
           /\ managers'[m].client = managers'[m].transport
           /\ managers'[m].client \in {managers[m].client, Null}
           /\ shutdown.transport = Null => managers'[m].client = managers[m].client
           /\ managers'[m].connected => managers[m].connected /\ managers[m].client # k
           /\ \/ \E c \in Calls : calls[c].manager = m /\ calls[c].conn = k /\ calls[c].phase = "sent"
              \/ managers[m].client = k
              \/ managers'[m].connected = managers[m].connected
           /\ managers'[m].connecting =
                IF \E c \in Calls : calls[c].manager = m /\ calls[c].conn = k /\ calls[c].phase = "connecting"
                THEN FALSE ELSE managers[m].connecting
  BY CloseManagers
<1>4. RunsFit' /\ runs' \in [Calls -> Run]
  BY CloseRuns
<1>5. TypeOK'
  BY <1>1, <1>2, <1>3, <1>4 DEF IInv, TypeOK
<1>6. \A c \in Calls, m \in Managers :
        Connects(c, m)' <=> Connects(c, m) /\ ~(calls[c].phase = "connecting" /\ calls[c].conn = k)
  BY <1>2 DEF Connects
<1>7. ManagersFit'
  <2> SUFFICES ASSUME NEW m \in Managers
               PROVE  ManagerFits(m)'
    BY DEF ManagersFit
  <2>1. ManagerFits(m) /\ managers[m].client \in Conns \cup {Null}
    BY DEF IInv, ManagersFit, TypeOK, Manager
  <2>2. /\ managers'[m].client # Null => conns'[managers'[m].client] # "unused"
        /\ managers'[m].connected /\ managers'[m].client # Null => conns'[managers'[m].client] = "open"
    BY <1>1, <1>3, <2>1 DEF ManagerFits
  <2>3. managers'[m].connecting <=> \E c \in Calls : Connects(c, m)'
    <3>1. CASE \E c \in Calls : calls[c].manager = m /\ calls[c].conn = k /\ calls[c].phase = "connecting"
      <4>1. PICK c \in Calls : calls[c].manager = m /\ calls[c].conn = k /\ calls[c].phase = "connecting"
        BY <3>1
      <4>2. \A d \in Calls : Connects(d, m) => d = c
        BY <4>1 DEF IInv, Alone, Connects
      <4> QED
        BY <1>3, <1>6, <3>1, <4>1, <4>2
    <3>2. CASE ~ \E c \in Calls : calls[c].manager = m /\ calls[c].conn = k /\ calls[c].phase = "connecting"
      <4>1. managers'[m].connecting = managers[m].connecting
        BY <1>3, <3>2
      <4>2. \A c \in Calls : Connects(c, m)' <=> Connects(c, m)
        BY <1>6, <3>2 DEF Connects
      <4> QED
        BY <2>1, <4>1, <4>2 DEF ManagerFits
    <3> QED
      BY <3>1, <3>2
  <2> QED
    BY <1>3, <2>2, <2>3 DEF ManagerFits
<1>8. CallsFit'
  <2> SUFFICES ASSUME NEW c \in Calls
               PROVE  CallFits(c)'
    BY DEF CallsFit
  <2>1. CallFits(c) /\ calls[c] \in Call /\ (calls[c].phase # "none" => calls[c].manager \in Managers)
    BY CallManager DEF IInv, CallsFit, TypeOK
  <2>2. CASE calls'[c] # calls[c]
    <3>1. calls'[c].phase = "done" /\ calls[c].phase # "none"
      BY <1>2, <2>2
    <3> QED
      BY <1>2, <2>1, <3>1, SomeManager DEF CallFits
  <2>3. CASE calls'[c] = calls[c]
    <3>1. ~(calls[c].phase = "connecting" /\ calls[c].conn = k)
      BY <1>2, <2>3
    <3>2. calls[c].phase \in {"cleaning", "connecting"} =>
            managers'[calls[c].manager].client \in {calls[c].conn, Null} /\ calls[c].conn \in Conns
      BY <1>3, <2>1 DEF CallFits, Call
    <3> QED
      BY <1>1, <2>1, <2>3, <3>1, <3>2 DEF CallFits
  <2> QED
    BY <2>2, <2>3
<1>9. Alone'
  <2>1. \A m, n \in Managers : managers'[m].client = managers'[n].client => m = n \/ managers'[m].client = Null
    BY <1>3 DEF IInv, Alone
  <2>2. \A c, d \in Calls : /\ calls'[c].phase = "connecting" /\ calls'[d].phase = "connecting"
                            /\ calls'[c].conn = calls'[d].conn
                            => c = d
    <3>1. ASSUME NEW c \in Calls, calls'[c].phase = "connecting"
          PROVE  calls[c].phase = "connecting" /\ calls'[c].conn = calls[c].conn
      BY <1>2, <3>1
    <3>2. \A c, d \in Calls : /\ calls[c].phase = "connecting" /\ calls[d].phase = "connecting"
                              /\ calls[c].conn = calls[d].conn
                              => c = d
      BY DEF IInv, Alone
    <3> QED
      BY <3>1, <3>2
  <2>3. \A c, d \in Calls, m \in Managers : Connects(c, m)' /\ Connects(d, m)' => c = d
    BY <1>6 DEF IInv, Alone
  <2> QED
    BY <2>1, <2>2, <2>3 DEF Alone
<1>10. ConnsUsed'
  <2> SUFFICES ASSUME NEW j \in Conns, conns'[j] # "unused"
               PROVE  \E c \in Calls : calls'[c].conn = j /\ calls'[c].phase \in {"connecting", "sent", "done"}
    BY DEF ConnsUsed
  <2>1. conns[j] # "unused"
    BY <1>1
  <2>2. PICK c \in Calls : calls[c].conn = j /\ calls[c].phase \in {"connecting", "sent", "done"}
    BY <2>1 DEF IInv, ConnsUsed
  <2>3. calls'[c].conn = j /\ calls'[c].phase \in {"connecting", "sent", "done"}
    BY <1>2, <2>2
  <2> QED
    BY <2>3
<1>11. Serving'
  <2> SUFFICES ASSUME shutdown'.phase = "none"
               PROVE  Serving'
    BY DEF Serving
  <2>1. shutdown.phase = "none" /\ shutdown.transport = Null
    BY <1>1
  <2>2. \A m \in Managers : managers'[m].client = managers[m].client /\ managers'[m].transport = managers[m].client
    BY <1>3, <2>1
  <2>3. \A m \in Managers : managers[m].transport = managers[m].client
    BY DEF IInv, ManagersFit, ManagerFits
  <2>4. ASSUME NEW j \in Conns, conns'[j] \in {"starting", "open"}
        PROVE  instance # Null /\ managers'[instance].transport = j
    <3>1. j # k /\ conns[j] \in {"starting", "open"}
      BY <1>1, <2>4
    <3>2. instance \in Managers /\ instance # Null /\ managers[instance].transport = j
      BY <2>1, <3>1 DEF IInv, Serving, TypeOK
    <3> QED
      BY <2>2, <2>3, <3>2
  <2>5. ASSUME NEW m \in Managers, managers'[m].client # Null, conns'[managers'[m].client] = "open"
        PROVE  managers'[m].connected
    <3>1. managers[m].client \in Conns /\ managers[m].client # k /\ conns[managers[m].client] = "open"
      BY <1>1, <2>2, <2>5 DEF IInv, TypeOK, Manager
    <3>2. managers[m].connected
      BY <2>1, <2>2, <2>5, <3>1 DEF IInv, Serving
    <3>3. ASSUME NEW c \in Calls, calls[c].conn = k, calls[c].phase = "sent"
          PROVE  FALSE
      <4>1. conns[k] = "open"
        BY <2>1, <3>3 DEF IInv, Serving
      <4>2. instance # Null /\ managers[instance].transport = k
            /\ managers[instance].transport = managers[m].client
        BY <2>1, <3>1, <4>1 DEF IInv, Serving
      <4> QED
        BY <3>1, <4>2
    <3> QED
      BY <1>3, <3>1, <3>2, <3>3
  <2>6. ASSUME NEW c \in Calls, calls'[c].phase = "sent"
        PROVE  conns'[calls'[c].conn] = "open"
    <3>1. calls[c].phase = "sent" /\ calls[c].conn # k /\ calls'[c].conn = calls[c].conn
      BY <1>2, <2>6
    <3>2. calls[c].conn \in Conns /\ conns[calls[c].conn] = "open"
      BY <2>1, <3>1 DEF IInv, Serving, CallsFit, CallFits, TypeOK, Call
    <3> QED
      BY <1>1, <3>1, <3>2
  <2>7. instance # 2 /\ \A c \in Calls : calls'[c].manager \in {Null, instance}
    BY <1>2, <2>1 DEF IInv, Serving
  <2> QED
    BY <1>1, <2>4, <2>5, <2>6, <2>7 DEF Serving
<1> QED
  BY <1>1, <1>4, <1>5, <1>7, <1>8, <1>9, <1>10, <1>11 DEF IInv

\* While the agent server stops, managers may lose what they have and tool servers are told to stop.
LEMMA StoppingKeeps ==
  ASSUME IInv, UNCHANGED <<calls, runs, scripts>>, faults' \in 0 .. MaxFaults,
         instance' \in Managers \cup {Null}, shutdown' \in Shutdown, shutdown'.phase # "none", ShutdownFits',
         managers' \in [Managers -> Manager], conns' \in [Conns -> ConnState],
         \A j \in Conns : conns'[j] = conns[j] \/ (conns[j] \in {"starting", "open"} /\ conns'[j] = "closing"),
         \A m \in Managers :
           /\ managers'[m].client = managers'[m].transport
           /\ managers'[m].client \in {managers[m].client, Null}
           /\ managers'[m].connecting = managers[m].connecting
           /\ managers'[m].connected /\ managers'[m].client # Null =>
                managers[m].connected /\ conns'[managers[m].client] = conns[managers[m].client]
  PROVE  IInv'
<1>1. TypeOK'
  BY DEF IInv, TypeOK
<1>2. RunsFit'
  BY AgentRunsFit DEF IInv
<1>3. \A c \in Calls, m \in Managers : Connects(c, m)' <=> Connects(c, m)
  BY DEF Connects
<1>4. ManagersFit'
  <2> SUFFICES ASSUME NEW m \in Managers
               PROVE  ManagerFits(m)'
    BY DEF ManagersFit
  <2>1. ManagerFits(m) /\ managers[m].client \in Conns \cup {Null}
    BY DEF IInv, ManagersFit, TypeOK, Manager
  <2> QED
    BY <1>3, <2>1 DEF ManagerFits
<1>5. CallsFit'
  <2> SUFFICES ASSUME NEW c \in Calls
               PROVE  CallFits(c)'
    BY DEF CallsFit
  <2>1. CallFits(c) /\ calls[c] \in Call /\ (calls[c].phase # "none" => calls[c].manager \in Managers)
    BY CallManager DEF IInv, CallsFit, TypeOK
  <2>2. calls[c].phase \in {"cleaning", "connecting"} =>
          managers'[calls[c].manager].client \in {calls[c].conn, Null} /\ calls[c].conn \in Conns
    BY <2>1 DEF CallFits, Call
  <2> QED
    BY <2>1, <2>2 DEF CallFits
<1>6. Alone'
  <2>1. \A m, n \in Managers : managers'[m].client = managers'[n].client => m = n \/ managers'[m].client = Null
    BY DEF IInv, Alone
  <2>2. \A c, d \in Calls, m \in Managers : Connects(c, m)' /\ Connects(d, m)' => c = d
    BY <1>3 DEF IInv, Alone
  <2> QED
    BY <2>1, <2>2 DEF IInv, Alone
<1>7. ConnsUsed' /\ Serving'
  BY DEF IInv, ConnsUsed, Serving
<1> QED
  BY <1>1, <1>2, <1>4, <1>5, <1>6, <1>7 DEF IInv

\* A manager that forgets what it had.
LEMMA ForgottenEffect ==
  ASSUME NEW m \in Manager
  PROVE  /\ Forgotten(m) \in Manager /\ Forgotten(m).client = Null /\ Forgotten(m).transport = Null
         /\ Forgotten(m).connecting = m.connecting
BY DEF Forgotten, Manager

\* Nothing is waited for.
LEMMA WaitingFits ==
  ASSUME shutdown' = NotClosing("waiting")
  PROVE  shutdown' \in Shutdown /\ shutdown'.phase # "none" /\ ShutdownFits'
BY DEF NotClosing, Shutdown, ShutdownFits

\* The agent server is told to stop.
LEMMA CloseAllKeeps ==
  ASSUME IInv, closeAllMcpClients
  PROVE  IInv'
<1>1. /\ managers \in [Managers -> Manager] /\ conns \in [Conns -> ConnState] /\ faults \in 0 .. MaxFaults
      /\ instance \in Managers \cup {Null}
  BY DEF IInv, TypeOK
<1>2. UNCHANGED <<calls, runs, scripts, faults>> /\ instance' = Null
  BY DEF closeAllMcpClients
<1>3. \A m \in Managers : managers[m].client = managers[m].transport
  BY DEF IInv, ManagersFit, ManagerFits
<1>4. CASE instance = Null
  <2>1. shutdown' = NotClosing("waiting") /\ UNCHANGED <<managers, conns>>
    BY <1>4 DEF closeAllMcpClients
  <2> QED
    BY <1>1, <1>2, <1>3, <2>1, WaitingFits, StoppingKeeps
<1>5. CASE instance # Null /\ Told(managers[instance].transport) = conns
  <2>1. /\ shutdown' = NotClosing("waiting") /\ UNCHANGED conns
        /\ managers' = [managers EXCEPT ![instance] = Forgotten(managers[instance])]
    BY <1>5 DEF closeAllMcpClients
  <2>2. PICK y \in Manager : y = Forgotten(managers[instance])
    BY <1>1, <1>5, ForgottenEffect
  <2>3. /\ managers' \in [Managers -> Manager] /\ managers'[instance] = y
        /\ \A n \in Managers \ {instance} : managers'[n] = managers[n]
    BY <1>1, <1>5, <2>1, <2>2
  <2>4. y.client = Null /\ y.transport = Null /\ y.connecting = managers[instance].connecting
    BY <1>1, <1>5, <2>2, ForgottenEffect
  <2> QED
    BY <1>1, <1>2, <1>3, <2>1, <2>3, <2>4, WaitingFits, StoppingKeeps
<1>6. CASE instance # Null /\ Told(managers[instance].transport) # conns
  <2>1. PICK t \in Conns \cup {Null} : t = managers[instance].transport
    BY <1>1, <1>6 DEF Manager
  <2>2. /\ conns' = Told(t) /\ Told(t) # conns
        /\ managers' = [managers EXCEPT ![instance].connected = FALSE]
        /\ shutdown' = [phase |-> "closing", closing |-> instance, transport |-> t]
    BY <1>6, <2>1 DEF closeAllMcpClients
  <2>3. /\ conns' \in [Conns -> ConnState] /\ t \in Conns /\ t # Null
        /\ \A j \in Conns : conns'[j] = conns[j] \/ (j = t /\ conns[j] \in {"starting", "open"} /\ conns'[j] = "closing")
    BY <2>2, ToldEffect DEF IInv
  <2>4. PICK y \in Manager : y = [managers[instance] EXCEPT !.connected = FALSE]
    BY <1>1, <1>6 DEF Manager
  <2>5. /\ managers' \in [Managers -> Manager] /\ managers'[instance] = y
        /\ \A n \in Managers \ {instance} : managers'[n] = managers[n]
    BY <1>1, <1>6, <2>2, <2>4
  <2>6. y.client = managers[instance].client /\ y.transport = managers[instance].transport
        /\ y.connecting = managers[instance].connecting /\ ~y.connected
    BY <1>1, <1>6, <2>4 DEF Manager
  <2>7. shutdown' \in Shutdown /\ shutdown'.phase # "none" /\ ShutdownFits'
    BY <1>1, <1>6, <2>2, <2>3 DEF Shutdown, ShutdownFits
  <2>8. ASSUME NEW n \in Managers \ {instance}, managers'[n].client # Null
        PROVE  conns'[managers[n].client] = conns[managers[n].client]
    <3>1. managers[n].client # t
      BY <1>1, <1>3, <1>6, <2>1, <2>3 DEF IInv, Alone
    <3>2. managers[n].client \in Conns
      BY <1>1, <2>5, <2>8 DEF Manager
    <3> QED
      BY <2>3, <3>1, <3>2
  <2> QED
    BY <1>1, <1>2, <1>3, <2>3, <2>5, <2>6, <2>7, <2>8, StoppingKeeps
<1> QED
  BY <1>4, <1>5, <1>6

\* It does not wait for ever.
LEMMA CloseGivesUpKeeps ==
  ASSUME IInv, CloseGivesUp
  PROVE  IInv'
<1>1. /\ managers \in [Managers -> Manager] /\ conns \in [Conns -> ConnState]
      /\ instance \in Managers \cup {Null} /\ shutdown \in Shutdown
  BY DEF IInv, TypeOK
<1>2. PICK m \in Managers : shutdown.closing = m
  BY <1>1 DEF IInv, ShutdownFits, CloseGivesUp, Shutdown
<1>3. PICK y \in Manager : y = Forgotten(managers[m])
  BY <1>1, ForgottenEffect
<1>4. /\ managers' = [managers EXCEPT ![m] = y] /\ shutdown' = NotClosing("waiting") /\ Fault
      /\ UNCHANGED <<instance, conns, calls, runs, scripts>>
  BY <1>2, <1>3 DEF CloseGivesUp
<1>5. /\ managers' \in [Managers -> Manager] /\ managers'[m] = y
      /\ \A n \in Managers \ {m} : managers'[n] = managers[n]
  BY <1>4, ManagerEffect DEF IInv
<1>6. y.client = Null /\ y.transport = Null /\ y.connecting = managers[m].connecting
  BY <1>1, <1>3, ForgottenEffect
<1>7. \A n \in Managers : managers[n].client = managers[n].transport
  BY DEF IInv, ManagersFit, ManagerFits
<1>8. faults' \in 0 .. MaxFaults
  BY <1>4, FaultType DEF IInv
<1> QED
  BY <1>1, <1>4, <1>5, <1>6, <1>7, <1>8, WaitingFits, StoppingKeeps

-----------------------------------------------------------------------------
(* The invariant holds. *)

\* The invariant holds at the start.
LEMMA InitIInv == Init => IInv
<1> SUFFICES ASSUME Init
             PROVE  IInv
  OBVIOUS
<1> USE DEF Init
<1>1. NoManager \in Manager /\ NoManager.client = Null /\ NoManager.transport = Null
      /\ ~NoManager.connecting /\ ~NoManager.connected
  BY DEF NoManager, Manager
<1>2. \A m \in Managers : managers[m] = NoManager
  OBVIOUS
<1>3. \A c \in Calls : /\ calls[c] \in Call /\ calls[c].phase = "none" /\ calls[c].manager = Null
                       /\ calls[c].answer = "none"
  BY DEF Call
<1>4. NotClosing("none") \in Shutdown /\ NotClosing("none").phase = "none"
      /\ NotClosing("none").closing = Null /\ NotClosing("none").transport = Null
  BY DEF NotClosing, Shutdown
<1>5. TypeOK
  BY <1>1, <1>3, <1>4, NoRunType, ToolServerAssumption DEF TypeOK, ConnState
<1>6. ManagersFit /\ CallsFit /\ Alone
  BY <1>1, <1>2, <1>3 DEF ManagersFit, ManagerFits, Connects, CallsFit, CallFits, Alone
<1>7. RunsFit
  <2>1. \A c \in Calls : runs[c].phase = "none" /\ runs[c].times = 0 /\ ~runs[c].timedOut
                         /\ runs[c].conn = Null
    BY DEF NoRun
  <2> QED
    BY <1>3, <2>1 DEF RunsFit, RunFits
<1>8. ConnsUsed /\ Serving /\ ShutdownFits
  <2>1. instance # 2
    BY SomeManager DEF Managers
  <2> QED
    BY <1>1, <1>2, <1>3, <1>4, <2>1 DEF ConnsUsed, Serving, ShutdownFits
<1> QED
  BY <1>5, <1>6, <1>7, <1>8 DEF IInv

\* Every step keeps it.
LEMMA NextIInv == IInv /\ [Next]_vars => IInv'
<1> SUFFICES ASSUME IInv, [Next]_vars
             PROVE  IInv'
  OBVIOUS
<1>1. ASSUME NEW c \in Calls, getMcpClient(c)
      PROVE  IInv'
  BY <1>1, AskKeeps
<1>2. ASSUME NEW c \in Calls, Step(c)
      PROVE  IInv'
  BY <1>2, CallKeeps, CleanedUpKeeps, ConnectedKeeps, ConnectFailsKeeps, StartKeeps, RespondKeeps,
     RequestTimesOutKeeps DEF Step
<1>3. ASSUME NEW c \in Calls, Timer(c) \/ Processes(c) \/ Search(c) \/ ReadFile(c)
      PROVE  IInv'
  BY <1>3, WorkKeeps
<1>4. ASSUME NEW k \in Conns, Stops(k) \/ Dies(k)
      PROVE  IInv'
  <2>1. conns[k] \in {"closing", "open"} /\ ConnectionCloses(k)
    BY <1>4 DEF Stops, Dies
  <2>2. faults' \in 0 .. MaxFaults
    BY <1>4, FaultType DEF Stops, Dies, IInv, TypeOK
  <2> QED
    BY <2>1, <2>2, ClosesKeeps
<1>5. CASE closeAllMcpClients \/ CloseGivesUp
  BY <1>5, CloseAllKeeps, CloseGivesUpKeeps
<1>6. CASE UNCHANGED vars
  <2>1. TypeOK' /\ RunsFit'
    BY <1>6 DEF IInv, TypeOK, RunsFit, RunFits, vars
  <2> QED
    BY <1>6, <2>1, SameWired DEF IInv, Wired, vars
<1> QED
  BY <1>1, <1>2, <1>3, <1>4, <1>5, <1>6 DEF Next

\* The managers, the calls, the connections and the tool servers fit together, whatever happens.
THEOREM Invariance == Spec => []IInv
BY InitIInv, NextIInv, PTL DEF Spec

-----------------------------------------------------------------------------
(* What follows from it. *)

\* A tool starts at most once however tool servers and connections come and go, and what the agent
\* is told of a call is true of it: what timed out was stopped, and but on Windows its process group
\* with it, and no temporary script outlives its call in a tool server that is still there.
THEOREM AnswersCorrect == Spec => []AnswersAreTrue
<1>1. IInv => AnswersAreTrue
  <2> SUFFICES ASSUME IInv, NEW c \in Calls
               PROVE  /\ runs[c].times <= 1
                      /\ calls[c].answer = "not sent" => runs[c].times = 0
                      /\ calls[c].answer \in {"result", "timed out"} => runs[c].times = 1
                      /\ calls[c].answer = "timed out" => Killed(runs[c])
                      /\ c \in scripts => runs[c].phase \in {"working", "settled"} \/ conns[runs[c].conn] = "closed"
    BY DEF AnswersAreTrue, IInv
  <2>1. RunFits(c)
    BY DEF IInv, RunsFit
  <2>2. /\ calls[c].answer = "timed out" => Killed(runs[c])
        /\ c \in scripts => runs[c].phase \in {"working", "settled"} \/ conns[runs[c].conn] = "closed"
    BY <2>1 DEF RunFits
  <2>3. CASE runs[c].phase = "none"
    <3>1. runs[c].times = 0
      BY <2>1, <2>3 DEF RunFits
    <3>2. calls[c].answer \notin {"result", "timed out"}
      BY <2>1, <2>3 DEF RunFits
    <3>3. runs[c].times <= 1
      BY <3>1
    <3> QED
      BY <2>2, <3>1, <3>2, <3>3
  <2>4. CASE runs[c].phase # "none"
    <3>1. runs[c].times = 1
      BY <2>1, <2>4 DEF RunFits
    <3>2. calls[c].answer # "not sent"
      BY <2>1, <2>4 DEF RunFits
    <3>3. runs[c].times <= 1
      BY <3>1
    <3> QED
      BY <2>2, <3>1, <3>2, <3>3
  <2> QED
    BY <2>3, <2>4
<1> QED
  BY <1>1, Invariance, PTL

\* A manager that says it is connected is, at most one call connects for it, and until the agent
\* server stops no tool server that runs is forgotten.
THEOREM ConnectedCorrect == Spec => []ConnectedIsLive
<1>1. IInv => ConnectedIsLive
  <2> SUFFICES ASSUME IInv
               PROVE  ConnectedIsLive
    OBVIOUS
  <2>1. ASSUME NEW m \in Managers
        PROVE  LET connector == {c \in Calls : /\ calls[c].phase \in {"cleaning", "connecting"}
                                               /\ calls[c].manager = m}
               IN  /\ managers[m].connected /\ managers[m].client # Null
                        => conns[managers[m].client] = "open"
                   /\ managers[m].connecting <=> connector # {}
                   /\ Cardinality(connector) <= 1
    <3> DEFINE connector == {c \in Calls : /\ calls[c].phase \in {"cleaning", "connecting"}
                                           /\ calls[c].manager = m}
    <3>1. ManagerFits(m)
      BY DEF IInv, ManagersFit
    <3>2. managers[m].connecting <=> connector # {}
      BY <3>1 DEF ManagerFits, Connects
    <3>3. \A c, d \in connector : c = d
      BY DEF IInv, Alone, Connects
    <3>4. Cardinality(connector) <= 1
      <4>1. CASE connector = {}
        <5>1. Cardinality(connector) = 0
          BY <4>1, FS_EmptySet
        <5> QED
          BY <5>1
      <4>2. CASE connector # {}
        <5>1. PICK c : connector = {c}
          BY <3>3, <4>2
        <5>2. Cardinality(connector) = 1
          BY <5>1, FS_Singleton
        <5> QED
          BY <5>2
      <4> QED
        BY <4>1, <4>2
    <3> QED
      BY <3>1, <3>2, <3>4 DEF ManagerFits
  <2>2. shutdown.phase = "none" =>
          \A k \in Conns : conns[k] \in {"starting", "open"} =>
            instance # Null /\ managers[instance].transport = k
    BY DEF IInv, Serving
  <2> QED
    BY <2>1, <2>2 DEF ConnectedIsLive
<1> QED
  BY <1>1, Invariance, PTL

\* Until the agent server stops, nothing it does closes a connection that works.
THEOREM WorkingCorrect == Spec => WorkingIsLeftAlone
<1> DEFINE Left == \A k \in Conns : conns[k] = "open" /\ conns'[k] = "closing" => shutdown'.phase # "none"
<1>1. IInv /\ [Next]_vars => [Left]_conns
  <2> SUFFICES ASSUME IInv, [Next]_vars, NEW k \in Conns, conns[k] = "open", conns'[k] = "closing",
                      shutdown'.phase = "none"
               PROVE  FALSE
    BY Zenon
  <2>1. conns \in [Conns -> ConnState] /\ conns' # conns
    BY DEF IInv, TypeOK
  <2>2. ASSUME NEW c \in Calls, callTool(c) \/ StopPolling(c)
        PROVE  FALSE
    <3>1. PICK m \in Managers : calls[c].manager = m
      BY <2>2, CallManager DEF IInv, callTool, StopPolling
    <3>2. PICK t \in Conns \cup {Null} : managers[m].transport = t
      BY DEF IInv, TypeOK, Manager
    <3>3. Connect(c) /\ shutdown' = shutdown /\ calls[c].phase \in {"prepared", "polling"}
      BY <2>1, <2>2 DEF callTool, StopPolling
    <3>4. CASE Told(t) = conns
      <4>1. Handshake(c)
        BY <2>1, <3>1, <3>2, <3>3, <3>4 DEF Connect
      <4>2. PICK j \in Conns : conns' = [conns EXCEPT ![j] = "starting"]
        BY <3>3, <4>1, HandshakeEffect DEF IInv
      <4> QED
        BY <2>1, <4>2
    <3>5. CASE Told(t) # conns
      <4>1. conns' = Told(t) /\ ~(managers[m].connected /\ managers[m].client # Null)
        BY <2>1, <3>1, <3>2, <3>3, <3>5 DEF Connect
      <4>2. k = t
        BY <4>1, ToldEffect DEF IInv
      <4>3. managers[m].client = k /\ k # Null
        BY <3>2, <4>2, ToolServerAssumption DEF IInv, ManagersFit, ManagerFits
      <4>4. managers[m].connected
        BY <3>3, <4>3 DEF IInv, Serving
      <4> QED
        BY <4>1, <4>3, <4>4
    <3> QED
      BY <3>4, <3>5
  <2>3. ASSUME NEW c \in Calls, CleanedUp(c)
        PROVE  FALSE
    <3>1. PICK j \in Conns : conns' = [conns EXCEPT ![j] = "starting"]
      BY <2>3, HandshakeEffect DEF CleanedUp, IInv
    <3> QED
      BY <2>1, <3>1
  <2>4. ASSUME NEW c \in Calls, Connected(c)
        PROVE  FALSE
    BY <2>1, <2>4 DEF Connected
  <2>5. ASSUME NEW c \in Calls, ConnectFails(c)
        PROVE  FALSE
    <3>1. PICK t \in Conns : calls[c].conn = t
      BY <2>5 DEF ConnectFails, IInv, CallsFit, CallFits, TypeOK, Call
    <3>2. conns' = Told(t) /\ conns[t] = "starting"
      BY <2>5, <3>1 DEF ConnectFails
    <3> QED
      BY <3>2, ToldEffect DEF IInv
  <2>6. ASSUME NEW j \in Conns, Stops(j) \/ Dies(j)
        PROVE  FALSE
    <3>1. conns' = [conns EXCEPT ![j] = "closed"]
      BY <2>6 DEF Stops, Dies, ConnectionCloses
    <3> QED
      BY <2>1, <3>1
  <2>7. CASE closeAllMcpClients
    <3>1. shutdown' = NotClosing("waiting") \/ shutdown'.phase = "closing"
      BY <2>7 DEF closeAllMcpClients
    <3> QED
      BY <3>1 DEF NotClosing
  <2>8. ASSUME NEW c \in Calls,
               \/ getMcpClient(c) \/ Start(c) \/ Respond(c) \/ RequestTimesOut(c)
               \/ Timer(c) \/ Processes(c) \/ Search(c) \/ ReadFile(c)
        PROVE  FALSE
    BY <2>1, <2>8 DEF getMcpClient, Start, Respond, RequestTimesOut, Timer, TimesOut, Finish, Processes,
       SpawnFails, Forks, ShellExits, ChildExits, Search, ReadFile, Answers
  <2>9. CASE CloseGivesUp \/ UNCHANGED vars
    BY <2>1, <2>9 DEF CloseGivesUp, vars
  <2> QED
    BY <2>2, <2>3, <2>4, <2>5, <2>6, <2>7, <2>8, <2>9 DEF Next, Step
<1> QED
  BY <1>1, Invariance, PTL DEF Spec, WorkingIsLeftAlone

-----------------------------------------------------------------------------
(* The contract. *)

\* For whoever only knows what was called, nothing happened to call c.
Unmoved(c) == calls'[c].answer = calls[c].answer /\ ToolPhase(runs'[c]) = ToolPhase(runs[c])

\* The same in the terms of the contract, where a call takes a step or none.
Keeps(c) == Contract!Step(c) \/ Unmoved(c)

\* A step of the contract, in the terms of this specification.
LEMMA StepOf ==
  ASSUME NEW c \in Calls, NEW a, NEW t, NEW b, NEW u,
         calls[c].answer = a, ToolPhase(runs[c]) = t, calls'[c].answer = b, ToolPhase(runs'[c]) = u,
         \/ t = "idle" /\ u = "running" /\ a = "none" /\ b = "none"
         \/ t = "running" /\ u = "over" /\ b = a
         \/ t = "over" /\ u = "over" /\ a = "none" /\ b \in {"result", "timed out"}
         \/ t = "idle" /\ u = "idle" /\ a = "none" /\ b = "not sent"
         \/ u = t /\ a = "none" /\ b = "no answer"
         \/ a = "none" /\ b = "unknown" /\ <<t, u>> \in {<<"idle", "idle">>, <<"running", "over">>, <<"over", "over">>}
  PROVE  Contract!Step(c)
BY DEF Contract!Step, Contract!Starts, Contract!Ends, Contract!Reports, Contract!Fails, Contract!GivesUp,
       Contract!Lost, Contract!Moves, Contract!Tells

\* Only a call that is done has its answer, and only one that was sent has started its tool.
LEMMA AnswerAndTool ==
  ASSUME IInv, NEW c \in Calls
  PROVE  /\ calls[c].phase # "done" => calls[c].answer = "none"
         /\ calls[c].phase \notin {"sent", "done"} => runs[c].phase = "none"
BY DEF IInv, CallsFit, CallFits, RunsFit, RunFits

\* The agent server connects, or asks for a manager: neither tells the agent anything.
LEMMA ConnectMoves ==
  ASSUME IInv, NEW c \in Calls, getMcpClient(c) \/ callTool(c) \/ StopPolling(c) \/ CleanedUp(c)
  PROVE  \A d \in Calls : Unmoved(d)
<1>1. runs' = runs
  BY DEF getMcpClient, callTool, StopPolling, CleanedUp
<1>2. \A d \in Calls : calls'[d].answer = calls[d].answer
  <2>1. calls \in [Calls -> Call] /\ calls[c] \in Call
    BY DEF IInv, TypeOK
  <2>2. CASE getMcpClient(c)
    BY <2>1, <2>2 DEF getMcpClient, Call
  <2>3. ASSUME Handshake(c)
        PROVE  \A d \in Calls : calls'[d].answer = calls[d].answer
    BY <2>1, <2>3 DEF Handshake, Call
  <2>4. ASSUME Connect(c)
        PROVE  \A d \in Calls : calls'[d].answer = calls[d].answer
    <3>1. CASE calls' = [calls EXCEPT ![c].phase = "sent", ![c].conn = managers[calls[c].manager].client]
      BY <2>1, <3>1 DEF Call
    <3>2. CASE calls' = [calls EXCEPT ![c].phase = "cleaning", ![c].conn = managers[calls[c].manager].transport]
      BY <2>1, <3>2 DEF Call
    <3> QED
      BY <2>3, <2>4, <3>1, <3>2 DEF Connect
  <2>5. CASE calls' = [calls EXCEPT ![c].phase = "polling"]
    BY <2>1, <2>5 DEF Call
  <2> QED
    BY <2>2, <2>3, <2>4, <2>5 DEF callTool, StopPolling, CleanedUp
<1> QED
  BY <1>1, <1>2 DEF Unmoved

\* The call goes out on the connection or cannot be made.
LEMMA ConnectedMoves ==
  ASSUME IInv, NEW c \in Calls, Connected(c) \/ ConnectFails(c)
  PROVE  \A d \in Calls : Keeps(d)
<1>1. calls[c].phase = "connecting" /\ runs' = runs /\ calls \in [Calls -> Call] /\ calls[c] \in Call
  BY DEF Connected, ConnectFails, IInv, TypeOK
<1>2. calls[c].answer = "none" /\ ToolPhase(runs[c]) = "idle"
  BY <1>1, AnswerAndTool DEF ToolPhase
<1>3. /\ \A d \in Calls \ {c} : calls'[d] = calls[d]
      /\ calls'[c].answer \in {"none", "not sent"}
  <2>1. Done(calls[c], "not sent").answer = "not sent"
    BY <1>1, DoneEffect
  <2> QED
    BY <1>1, <1>2, <2>1 DEF Connected, ConnectFails, Call
<1>4. ASSUME NEW d \in Calls \ {c}
      PROVE  Keeps(d)
  BY <1>1, <1>3 DEF Keeps, Unmoved
<1>5. Keeps(c)
  <2>1. CASE calls'[c].answer = "none"
    BY <1>1, <1>2, <2>1 DEF Keeps, Unmoved
  <2>2. CASE calls'[c].answer = "not sent"
    <3>1. Contract!Step(c)
      BY <1>1, <1>2, <2>2, StepOf
    <3> QED
      BY <3>1 DEF Keeps
  <2> QED
    BY <1>3, <2>1, <2>2
<1> QED
  BY <1>4, <1>5

\* The tool starts, for a call that waits for it.
LEMMA StartMoves ==
  ASSUME IInv, NEW c \in Calls, Start(c)
  PROVE  \A d \in Calls : Keeps(d)
<1>1. calls[c].phase = "sent" /\ runs[c].conn # calls[c].conn /\ calls' = calls
  BY DEF Start
<1>2. runs[c].phase = "none"
  BY <1>1 DEF IInv, RunsFit, RunFits
<1>3. /\ \A d \in Calls \ {c} : runs'[d] = runs[d]
      /\ runs'[c].phase = "working"
  BY DEF Start, IInv, TypeOK, NoRun
<1>4. calls[c].answer = "none" /\ ToolPhase(runs[c]) = "idle" /\ ToolPhase(runs'[c]) = "running"
  BY <1>1, <1>2, <1>3, AnswerAndTool DEF ToolPhase
<1>5. Contract!Step(c)
  BY <1>1, <1>4, StepOf
<1> QED
  BY <1>1, <1>3, <1>5 DEF Keeps, Unmoved

\* It goes on or comes to its end.
LEMMA WorkMoves ==
  ASSUME IInv, NEW c \in Calls, Processes(c) \/ Timer(c) \/ Search(c) \/ ReadFile(c)
  PROVE  \A d \in Calls : Keeps(d)
<1>1. calls' = calls
  BY DEF Processes, SpawnFails, Forks, ShellExits, ChildExits, Timer, Finish, TimesOut, Search, ReadFile,
         Answers
<1>2. PICK r \in Run : /\ runs' = [runs EXCEPT ![c] = r]
                       /\ runs[c].phase = "working" /\ r.phase \in {"working", "settled"}
  BY WorkEffect
<1>3. runs'[c] = r /\ \A d \in Calls \ {c} : runs'[d] = runs[d]
  BY <1>2 DEF IInv, TypeOK
<1>4. ToolPhase(runs[c]) = "running" /\ ToolPhase(runs'[c]) \in {"running", "over"}
  BY <1>2, <1>3 DEF ToolPhase
<1>5. Keeps(c)
  <2>1. CASE ToolPhase(runs'[c]) = "running"
    BY <1>1, <1>4, <2>1 DEF Keeps, Unmoved
  <2>2. CASE ToolPhase(runs'[c]) = "over"
    <3>1. Contract!Step(c)
      BY <1>1, <1>4, <2>2, StepOf
    <3> QED
      BY <3>1 DEF Keeps
  <2> QED
    BY <1>4, <2>1, <2>2
<1> QED
  BY <1>1, <1>3, <1>5 DEF Keeps, Unmoved

\* Its end is reported to whoever still waits, and changes nothing for a call that has its answer.
LEMMA RespondMoves ==
  ASSUME IInv, NEW c \in Calls, Respond(c)
  PROVE  \A d \in Calls : Keeps(d)
<1>1. /\ runs[c].phase = "settled" /\ runs'[c].phase = "over"
      /\ \A d \in Calls \ {c} : runs'[d] = runs[d] /\ calls'[d] = calls[d]
  BY DEF Respond, IInv, TypeOK, Run
<1>2. ToolPhase(runs[c]) = "over" /\ ToolPhase(runs'[c]) = "over"
  BY <1>1 DEF ToolPhase
<1>3. CASE calls[c].phase # "sent"
  <2>1. calls'[c] = calls[c]
    BY <1>3 DEF Respond, Awaited, IInv, TypeOK
  <2> QED
    BY <1>1, <1>2, <2>1 DEF Keeps, Unmoved
<1>4. CASE calls[c].phase = "sent"
  <2>1. calls[c].answer = "none" /\ calls[c] \in Call
    BY <1>4, AnswerAndTool DEF IInv, TypeOK
  <2>2. calls'[c].answer \in {"result", "timed out"}
    BY <1>4, <2>1, DoneEffect DEF Respond, Awaited, IInv, TypeOK
  <2>3. Contract!Step(c)
    BY <1>2, <2>1, <2>2, StepOf
  <2> QED
    BY <1>1, <2>3 DEF Keeps, Unmoved
<1> QED
  BY <1>3, <1>4

\* The agent does not wait any longer.
LEMMA GiveUpMoves ==
  ASSUME IInv, NEW c \in Calls, RequestTimesOut(c)
  PROVE  \A d \in Calls : Keeps(d)
<1>1. calls[c].phase = "sent" /\ runs' = runs /\ \A d \in Calls \ {c} : calls'[d] = calls[d]
  BY DEF RequestTimesOut, IInv, TypeOK
<1>2. calls[c].answer = "none" /\ calls[c] \in Call
  BY <1>1, AnswerAndTool DEF IInv, TypeOK
<1>3. calls'[c].answer = "no answer"
  BY <1>2, DoneEffect DEF RequestTimesOut, IInv, TypeOK
<1>4. Contract!Step(c)
  BY <1>1, <1>2, <1>3, StepOf
<1> QED
  BY <1>1, <1>4 DEF Keeps, Unmoved

\* A connection ends, with every call on it: those that were sent lose their tools, those that were
\* waiting for it never start one, and those that have their answer keep it.
LEMMA CloseMoves ==
  ASSUME IInv, NEW k \in Conns, ConnectionCloses(k)
  PROVE  \A d \in Calls : Keeps(d)
<1> SUFFICES ASSUME NEW d \in Calls
             PROVE  Keeps(d)
  OBVIOUS
<1>1. runs[d] \in Run /\ RunFits(d) /\ k # Null
  BY ToolServerAssumption DEF IInv, TypeOK, RunsFit
<1>2. /\ runs[d].conn # k => runs'[d] = runs[d]
      /\ runs[d].conn = k => runs'[d].phase = "over"
  BY <1>1 DEF ConnectionCloses, Run
<1>3. CASE calls[d].phase = "connecting" /\ calls[d].conn = k
  <2>1. calls[d].answer = "none" /\ runs[d].phase = "none" /\ calls'[d].answer = "not sent"
    BY <1>3, AnswerAndTool, CloseCalls
  <2>2. runs[d].conn # k
    BY <1>1, <2>1 DEF RunFits
  <2>3. ToolPhase(runs[d]) = "idle" /\ ToolPhase(runs'[d]) = "idle"
    BY <1>2, <2>1, <2>2 DEF ToolPhase
  <2> QED
    BY <2>1, <2>3, StepOf DEF Keeps
<1>4. CASE calls[d].phase = "sent" /\ calls[d].conn = k
  <2>1. calls[d].answer = "none" /\ calls'[d].answer = "unknown"
    BY <1>4, AnswerAndTool, CloseCalls
  <2>2. <<ToolPhase(runs[d]), ToolPhase(runs'[d])>> \in
          {<<"idle", "idle">>, <<"running", "over">>, <<"over", "over">>}
    <3>1. CASE runs[d].phase = "none"
      BY <1>1, <1>2, <3>1 DEF RunFits, ToolPhase
    <3>2. CASE runs[d].phase # "none"
      BY <1>1, <1>2, <1>4, <3>2 DEF RunFits, ToolPhase, Run
    <3> QED
      BY <3>1, <3>2
  <2> QED
    BY <2>1, <2>2, StepOf DEF Keeps
<1>5. CASE calls[d].conn # k \/ calls[d].phase \notin {"connecting", "sent"}
  <2>1. calls'[d] = calls[d]
    BY <1>5, CloseCalls
  <2>2. CASE runs[d].conn # k \/ ToolPhase(runs[d]) = "over"
    BY <1>2, <2>1, <2>2 DEF Keeps, Unmoved, ToolPhase
  <2>3. CASE runs[d].conn = k /\ ToolPhase(runs[d]) # "over"
    <3>1. runs[d].phase # "none" /\ runs'[d].phase = "over"
      BY <1>1, <1>2, <2>3 DEF RunFits
    <3>2. ToolPhase(runs[d]) = "running" /\ ToolPhase(runs'[d]) = "over"
      BY <2>3, <3>1 DEF ToolPhase
    <3>3. Contract!Step(d)
      BY <2>1, <3>2, StepOf
    <3> QED
      BY <3>3 DEF Keeps
  <2> QED
    BY <2>2, <2>3
<1> QED
  BY <1>3, <1>4, <1>5

\* Every step is one of the contract, for every call at once.
LEMMA NextMoves ==
  ASSUME IInv, [Next]_vars
  PROVE  \A d \in Calls : Keeps(d)
<1>1. ASSUME NEW c \in Calls, Step(c)
      PROVE  \A d \in Calls : Keeps(d)
  BY <1>1, ConnectMoves, ConnectedMoves, StartMoves, RespondMoves, GiveUpMoves DEF Step, Keeps
<1>2. ASSUME NEW c \in Calls, getMcpClient(c)
      PROVE  \A d \in Calls : Keeps(d)
  BY <1>2, ConnectMoves DEF Keeps
<1>3. ASSUME NEW c \in Calls, Timer(c) \/ Processes(c) \/ Search(c) \/ ReadFile(c)
      PROVE  \A d \in Calls : Keeps(d)
  BY <1>3, WorkMoves
<1>4. ASSUME NEW k \in Conns, Stops(k) \/ Dies(k)
      PROVE  \A d \in Calls : Keeps(d)
  BY <1>4, CloseMoves DEF Stops, Dies
<1>5. CASE closeAllMcpClients \/ CloseGivesUp \/ UNCHANGED vars
  <2>1. UNCHANGED <<calls, runs>>
    BY <1>5 DEF closeAllMcpClients, CloseGivesUp, vars
  <2> QED
    BY <2>1 DEF Keeps, Unmoved
<1> QED
  BY <1>1, <1>2, <1>3, <1>4, <1>5 DEF Next

\* The types of the contract follow from those of this specification.
LEMMA ContractTypes == TypeOK => Contract!ContractTypeOK
<1> SUFFICES ASSUME TypeOK
             PROVE  Contract!ContractTypeOK
  OBVIOUS
<1>1. \A c \in Calls : calls[c].answer \in {"none"} \cup Contract!Known \cup Contract!Unsure
  BY DEF TypeOK, Call, Contract!Known, Contract!Unsure
<1>2. \A c \in Calls : ToolPhase(runs[c]) \in {"idle", "running", "over"}
  BY DEF ToolPhase
<1> QED
  BY <1>1, <1>2 DEF Contract!ContractTypeOK

\* Managers, connections, processes and timers together keep the contract: a tool starts at most
\* once and for nobody who has an answer, and what the agent was told stays what it was told.
THEOREM CallRefinement == Spec => KeepsCallContract
<1>1. Init => Contract!Init
  <2>1. ToolPhase(NoRun) = "idle"
    BY DEF ToolPhase, NoRun
  <2> QED
    BY <2>1 DEF Init, Contract!Init
<1>2. IInv /\ IInv' /\ [Next]_vars => [Contract!Next]_(Contract!vars)
  <2> SUFFICES ASSUME IInv, IInv', [Next]_vars
               PROVE  Contract!Next
    OBVIOUS
  <2>1. Contract!ContractTypeOK'
    BY ContractTypes, PTL DEF IInv
  <2>2. \A c \in Calls : Keeps(c)
    BY NextMoves
  <2> QED
    BY <2>1, <2>2 DEF Keeps, Unmoved, Contract!Next
<1> QED
  BY <1>1, <1>2, Invariance, PTL DEF Spec, KeepsCallContract, Contract!Spec

\* What the agent was told is true, and everything has its type.
TruthInv == Contract!ContractTypeOK /\ Contract!ToldTheTruth

\* What the contract is for: whoever keeps it tells the agent the truth.
THEOREM CallContractIsTrue == Contract!Spec => []Contract!ToldTheTruth
<1> DEFINE told == [c \in Calls |-> calls[c].answer]
           tool == [c \in Calls |-> ToolPhase(runs[c])]
<1>1. Contract!Init => TruthInv
  BY DEF Contract!Init, TruthInv, Contract!ContractTypeOK, Contract!ToldTheTruth
<1>2. TruthInv /\ [Contract!Next]_(Contract!vars) => TruthInv'
  <2> SUFFICES ASSUME TruthInv, [Contract!Next]_(Contract!vars)
               PROVE  TruthInv'
    OBVIOUS
  <2>1. \A c \in Calls : /\ told[c] \in {"result", "timed out"} => tool[c] = "over"
                         /\ told[c] = "not sent" => tool[c] = "idle"
    BY DEF TruthInv, Contract!ToldTheTruth
  <2>2. CASE Contract!Next
    <3>1. ASSUME NEW c \in Calls
          PROVE  /\ told'[c] \in {"result", "timed out"} => tool'[c] = "over"
                 /\ told'[c] = "not sent" => tool'[c] = "idle"
      <4>1. CASE Contract!Step(c)
        BY <2>1, <4>1 DEF Contract!Step, Contract!Starts, Contract!Ends, Contract!Reports, Contract!Fails,
           Contract!GivesUp, Contract!Lost, Contract!Moves, Contract!Tells
      <4>2. CASE told'[c] = told[c] /\ tool'[c] = tool[c]
        BY <2>1, <4>2
      <4> QED
        BY <2>2, <4>1, <4>2 DEF Contract!Next
    <3>2. Contract!ContractTypeOK'
      BY <2>2 DEF Contract!Next
    <3> QED
      BY <3>1, <3>2 DEF TruthInv, Contract!ToldTheTruth
  <2>3. CASE UNCHANGED Contract!vars
    <3>1. told' = told /\ tool' = tool
      BY <2>3 DEF Contract!vars
    <3> QED
      BY <3>1 DEF TruthInv, Contract!ContractTypeOK, Contract!ToldTheTruth, Contract!vars
  <2> QED
    BY <2>2, <2>3
<1>3. TruthInv => Contract!ToldTheTruth
  BY DEF TruthInv
<1> QED
  BY <1>1, <1>2, <1>3, PTL DEF Contract!Spec
=============================================================================
