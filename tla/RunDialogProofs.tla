-------------------------- MODULE RunDialogProofs --------------------------
(* Proofs about RunDialog. *)
EXTENDS RunDialog, FunctionTheorems, FiniteSetTheorems, TLAPS

-----------------------------------------------------------------------------
(* The inductive invariant. *)

CommandStates == {"none", "pending", "approved", "rejected", "executed"}

\* What a request to run, and what a decision, may be answered with.
RunAnswer == [kind : {"run"}, run : Copy] \cup [kind : {"error", "undecided"}, run : {Null}]
DecisionAnswer == [kind : {"run"}, run : Copy] \cup [kind : {"error", "none"}, run : {Null}]

\* A request that starts a run is about no command.
Request == {q \in [mode : Modes, command : CommandsOrNull, target : Copy \cup {Null}, mine : BOOLEAN,
                   aborted : BOOLEAN, handled : BOOLEAN, answer : RunAnswer \cup {Null}] :
              q.mode = "starting" => q.command = Null}

Decision == [command : Commands, decision : {"approved", "rejected"}, seen : CommandsOrNull,
             mine : BOOLEAN, answer : DecisionAnswer \cup {Null}]

Load == [newest : BOOLEAN, found : [Runs -> Row] \cup {Null}]

Denied == [command : CommandsOrNull, decision : {"approved", "rejected"}]

Screen == [run : Copy \cup {Null}, busy : Modes \cup {Null}, error : BOOLEAN, retry : Denied \cup {Null},
           controller : Ids \cup {Null}, history : [Runs -> Row], historyError : BOOLEAN, open : BOOLEAN]

Card == [command : Commands, shows : CommandsOrNull, found : {Null, "pending", "gone", "shown"},
         decision : {Null, "approved", "rejected"}]

ServerTyped ==
  /\ rows \in [Runs -> Row]
  /\ commands \in [Commands -> CommandStates]
  /\ DOMAIN active \subseteq Runs /\ active \in [DOMAIN active -> Ids \cup {Null}]

RequestsTyped == DOMAIN requests \subseteq Ids /\ requests \in [DOMAIN requests -> Request]

DialogTyped ==
  /\ screen \in Screen
  /\ card # Null => card \in Card
  /\ decisions \subseteq Decision
  /\ loads \subseteq Load
  /\ excused \subseteq Commands
  /\ faults \in 0 .. MaxFaults

Typed == ServerTyped /\ RequestsTyped /\ DialogTyped

\* The bound on decisions.
Bounded == IsFiniteSet(decisions) /\ Cardinality(decisions) <= MaxDecisions

\* A run waits for a command of its own. While it is worked on its command is used up, and the request
\* that waits for the work is out, the only one to wait for it.
RowFits(r) ==
  LET c == rows[r].command
  IN  /\ c # Null <=> rows[r].status = "awaiting_approval"
      /\ c # Null => c[1] = r /\ commands[c] # "none"
      /\ r \in DOMAIN active => rows[r].status # "none" /\ (c # Null => commands[c] = "executed")

WorkFits(r) ==
  active[r] # Null =>
    /\ active[r] \in DOMAIN requests
    /\ requests[active[r]].handled /\ requests[active[r]].answer = Null
    /\ \A q \in DOMAIN active : active[q] = active[r] => q = r

ServerFits == (\A r \in Runs : RowFits(r)) /\ (\A r \in DOMAIN active : WorkFits(r))

\* What is answered was handled.
Handled == \A i \in DOMAIN requests : requests[i].answer # Null => requests[i].handled

\* Stop reaches a request of the open dialog.
Stoppable == screen.controller # Null =>
  screen.controller \in DOMAIN requests /\ requests[screen.controller].mine

\* The recorded approval of command c has a decision whose answer says that the run has to be told, or
\* a request that does so and was not given up.
ByDecision(c) == \E d \in decisions : d.command = c /\ d.answer = Refusal("none")
ByRequest(c) ==
  \E i \in DOMAIN requests : requests[i].command = c /\ ~requests[i].handled /\ ~requests[i].aborted

Told(c) == ByDecision(c) \/ ByRequest(c)

\* The command of a run that waits is told of if it was approved here.
CarriedOn(r) ==
  LET c == rows[r].command
  IN  c # Null /\ c \notin excused /\ commands[c] = "approved" => Told(c)

Carried == \A r \in Runs : CarriedOn(r)

\* The card shows the command it was made for, a decision is about the one that was shown.
CardFits == card # Null => card.shows \in {Null, card.command}
AsSeen == \A d \in decisions : d.seen = d.command

\* A copy of a run is of the past.
Past(copy) == copy.row.writes <= rows[copy.id].writes
ListPast(list) == \A r \in Runs : list[r].writes <= rows[r].writes

RequestPast(q) ==
  /\ q.target # Null => Past(q.target)
  /\ q.answer # Null /\ q.answer.kind = "run" => Past(q.answer.run)

DecisionPast(d) == d.answer # Null /\ d.answer.kind = "run" => Past(d.answer.run)

Copies ==
  /\ \A i \in DOMAIN requests : RequestPast(requests[i])
  /\ \A d \in decisions : DecisionPast(d)
  /\ screen.run # Null => Past(screen.run)
  /\ ListPast(screen.history)
  /\ \A l \in loads : l.found # Null => ListPast(l.found)

\* What the newest load found is as new as the run that is shown. So is the list, when the load has
\* arrived.
ListFits(list) == screen.run # Null => list[screen.run.id].writes >= screen.run.row.writes

Newer ==
  /\ \A l \in loads : l.newest /\ l.found # Null => ListFits(l.found)
  /\ ~screen.historyError /\ {l \in loads : l.newest} = {} => ListFits(screen.history)

IInv ==
  /\ Typed /\ Bounded /\ ServerFits /\ Handled /\ Stoppable /\ Carried
  /\ CardFits /\ AsSeen /\ Copies /\ Newer

-----------------------------------------------------------------------------
(* What the operators give. *)

\* A command is a pair of its run and a number.
LEMMA CommandIs ==
  ASSUME NEW c \in Commands
  PROVE  c[1] \in Runs /\ c[2] \in 1 .. MaxCommands[c[1]] /\ c = <<c[1], c[2]>>
BY RunDialogAssumption DEF Commands

LEMMA IsCommand ==
  ASSUME NEW r \in Runs, NEW n \in 1 .. MaxCommands[r]
  PROVE  <<r, n>> \in Commands
BY DEF Commands

\* Null is no command.
LEMMA NoCommand == Null \notin Commands
BY CommandIs, RunDialogAssumption, SMT

\* A function with one more argument.
LEMMA AndIs ==
  ASSUME NEW f, NEW x, NEW v
  PROVE  /\ DOMAIN And(f, x, v) = DOMAIN f \cup {x}
         /\ And(f, x, v)[x] = v
         /\ \A y \in DOMAIN f : y # x => And(f, x, v)[y] = f[y]
BY DEF And

LEMMA AndType ==
  ASSUME NEW S, NEW f, f \in [DOMAIN f -> S], NEW x, NEW v \in S
  PROVE  And(f, x, v) \in [DOMAIN And(f, x, v) -> S]
BY DEF And

\* A function without some of its arguments.
LEMMA RestrictIs ==
  ASSUME NEW f, NEW D
  PROVE  /\ DOMAIN Restrict(f, D) = D
         /\ \A y \in D : Restrict(f, D)[y] = f[y]
BY DEF Restrict

LEMMA RestrictType ==
  ASSUME NEW S, NEW f, f \in [DOMAIN f -> S], NEW D \in SUBSET DOMAIN f
  PROVE  Restrict(f, D) \in [DOMAIN Restrict(f, D) -> S]
BY DEF Restrict

\* A row that is written.
LEMMA WriteIs ==
  ASSUME rows \in [Runs -> Row], NEW r \in Runs, NEW status \in Statuses, NEW c \in CommandsOrNull
  PROVE  /\ Write(r, status, c) \in [Runs -> Row]
         /\ Write(r, status, c)[r] = [status |-> status, command |-> c, writes |-> rows[r].writes + 1]
         /\ \A q \in Runs : q # r => Write(r, status, c)[q] = rows[q]
         /\ \A q \in Runs : rows[q].writes <= Write(r, status, c)[q].writes
BY SMT DEF Write, Row

LEMMA CopyType ==
  ASSUME NEW r \in Runs, NEW after \in [Runs -> Row]
  PROVE  CopyOf(r, after) \in Copy
BY DEF CopyOf, Copy

\* What a request is answered.
LEMMA AnswerTypes ==
  /\ \A copy \in Copy : RunIs(copy) \in RunAnswer \cap DecisionAnswer
  /\ Refusal("error") \in RunAnswer \cap DecisionAnswer
  /\ Refusal("undecided") \in RunAnswer
  /\ Refusal("none") \in DecisionAnswer
BY DEF RunIs, Refusal, RunAnswer, DecisionAnswer

LEMMA AnswerType ==
  ASSUME RequestsTyped, NEW i \in Ids, NEW a \in RunAnswer, Answer(i, a)
  PROVE  RequestsTyped'
<1>1. CASE requests[i].mine
  <2>1. requests' = [requests EXCEPT ![i].handled = TRUE, ![i].answer = a]
    BY <1>1 DEF Answer
  <2>2. ASSUME NEW j \in DOMAIN requests
        PROVE  requests'[j] \in Request
    BY <2>1, <2>2 DEF RequestsTyped, Request
  <2> QED
    BY <2>1, <2>2 DEF RequestsTyped
<1>2. CASE ~requests[i].mine
  <2>1. requests' = Restrict(requests, DOMAIN requests \ {i})
    BY <1>2 DEF Answer
  <2> QED
    BY <2>1, RestrictIs, RestrictType DEF RequestsTyped
<1> QED
  BY <1>1, <1>2

\* A request that is given up.
LEMMA UnawaitedType ==
  ASSUME NEW q \in Request, NEW aborted \in BOOLEAN
  PROVE  /\ Unawaited(q, aborted) \in Request
         /\ Unawaited(q, aborted).command = q.command
         /\ Unawaited(q, aborted).handled = q.handled
         /\ Unawaited(q, aborted).answer = q.answer
         /\ Unawaited(q, aborted).target = Null
         /\ Unawaited(q, aborted).aborted = (aborted /\ ~q.handled)
<1>1. (IF q.mode = "starting" THEN q.mode ELSE "checking") \in Modes
  BY DEF Request, Modes
<1>2. (aborted /\ ~q.handled) \in BOOLEAN
  OBVIOUS
<1> QED
  BY <1>1, <1>2 DEF Unawaited, Request

\* A new request.
LEMMA NewRequestType ==
  ASSUME NEW mode \in Modes, NEW c \in CommandsOrNull, NEW target \in Copy \cup {Null},
         mode = "starting" => c = Null
  PROVE  NewRequest(mode, c, target) \in Request
BY DEF NewRequest, Request

\* What is shown is a screen with its card.
LEMMA RenderType ==
  ASSUME card # Null => card \in Card, CardFits, NEW s \in Screen, Render(s)
  PROVE  screen' \in Screen /\ (card' # Null => card' \in Card) /\ CardFits'
<1>1. pendingId(s) \in CommandsOrNull
  BY DEF pendingId, Screen, Copy, Row, CommandsOrNull
<1>2. CASE pendingId(s) = Null
  BY <1>2 DEF Render, CardFor, CardFits
<1>3. CASE pendingId(s) # Null
  <2>1. pendingId(s) \in Commands
    BY <1>1, <1>3 DEF CommandsOrNull
  <2>2. NewCard(pendingId(s)) \in Card /\ NewCard(pendingId(s)).shows = Null
    BY <2>1 DEF NewCard, Card, CommandsOrNull
  <2> QED
    BY <1>3, <2>2 DEF Render, CardFor, Keyed, CardFits
<1> QED
  BY <1>2, <1>3

\* A request that the open dialog makes.
LEMMA PerformType ==
  ASSUME RequestsTyped, card # Null => card \in Card, CardFits,
         NEW s \in Screen, NEW q \in Request, Perform(s, q)
  PROVE  /\ RequestsTyped' /\ screen' \in Screen /\ (card' # Null => card' \in Card) /\ CardFits'
         /\ screen'.run = s.run /\ screen'.history = s.history /\ screen'.historyError = s.historyError
         /\ screen'.open = s.open
         /\ screen'.controller \in Ids \ DOMAIN requests
         /\ requests' = And(requests, screen'.controller, q)
<1> DEFINE t(id) == [s EXCEPT !.busy = q.mode, !.error = FALSE, !.retry = Null, !.controller = id]
<1>1. PICK id \in Ids \ DOMAIN requests : requests' = And(requests, id, q) /\ Render(t(id))
  BY DEF Perform
<1>2. t(id) \in Screen
  BY DEF Screen, Request
<1>3. /\ t(id).run = s.run /\ t(id).history = s.history /\ t(id).historyError = s.historyError
      /\ t(id).open = s.open /\ t(id).controller = id
  BY DEF Screen
<1>4. screen' = t(id)
  BY <1>1 DEF Render
<1>5. screen' \in Screen /\ (card' # Null => card' \in Card) /\ CardFits'
  <2> HIDE DEF t
  <2> QED
    BY <1>1, <1>2, RenderType
<1>6. RequestsTyped'
  <2>1. And(requests, id, q) \in [DOMAIN And(requests, id, q) -> Request]
    BY AndType DEF RequestsTyped
  <2>2. DOMAIN requests' = DOMAIN requests \cup {id}
    BY <1>1, AndIs
  <2> QED
    BY <1>1, <2>1, <2>2 DEF RequestsTyped
<1> HIDE DEF t
<1> QED
  BY <1>1, <1>3, <1>4, <1>5, <1>6

\* The loads after a new one was begun.
LEMMA LoadHistoryType ==
  ASSUME loads \subseteq Load, LoadHistory
  PROVE  /\ loads' \subseteq Load /\ NewLoad \in loads'
         /\ \A l \in loads' : l.newest => l.found = Null
         /\ \A l \in loads' : l.found = Null \/ \E k \in loads : l.found = k.found
<1>1. NewLoad \in Load /\ NewLoad.found = Null
  BY DEF NewLoad, Load
<1>2. ASSUME NEW l \in Overtaken
      PROVE  l \in Load /\ ~l.newest /\ \E k \in loads : l.found = k.found
  <2>1. PICK k \in loads : l = [k EXCEPT !.newest = FALSE]
    BY <1>2 DEF Overtaken
  <2> QED
    BY <2>1 DEF Load
<1> QED
  BY <1>1, <1>2 DEF LoadHistory

\* What the dialog's loads and its screen are after an answer.
ContinuedScreen(i, answer) ==
  LET q == requests[i]
      s == [screen EXCEPT !.busy = Null, !.controller = IF @ = i THEN Null ELSE @]
  IN  CASE answer.kind = "stopped" -> [s EXCEPT !.run = Null]
        [] answer.kind = "run" -> showRun(s, answer.run)
        [] answer.kind = "undecided" /\ q.mode = "checking" -> showRun(s, q.target)
        [] OTHER -> [s EXCEPT !.error = TRUE,
                              !.retry = IF q.mode \in {"starting", "checking"} THEN @
                                        ELSE [command |-> q.command,
                                              decision |-> IF q.mode = "continuing" THEN "approved"
                                                           ELSE "rejected"]]

LEMMA ContinueIs ==
  ASSUME NEW i, NEW answer, Continue(i, answer)
  PROVE  requests' = Done(i) /\ LoadHistory /\ Render(ContinuedScreen(i, answer))
BY DEF Continue, ContinuedScreen

LEMMA DoneType ==
  ASSUME RequestsTyped, NEW i \in DOMAIN requests, requests' = Done(i)
  PROVE  /\ RequestsTyped'
         /\ \A j \in DOMAIN requests : j # i => j \in DOMAIN requests' /\ requests'[j] = requests[j]
         /\ DOMAIN requests' \subseteq DOMAIN requests
         /\ requests[i].answer # Null => i \notin DOMAIN requests'
         /\ requests[i].answer = Null => /\ i \in DOMAIN requests'
                                         /\ requests'[i] = Unawaited(requests[i], TRUE)
<1>1. CASE requests[i].answer # Null
  <2>1. requests' = Restrict(requests, DOMAIN requests \ {i})
    BY <1>1 DEF Done
  <2>2. requests' \in [DOMAIN requests' -> Request]
    BY <2>1, RestrictType DEF RequestsTyped
  <2>3. DOMAIN requests' = DOMAIN requests \ {i}
        /\ \A j \in DOMAIN requests \ {i} : requests'[j] = requests[j]
    BY <2>1, RestrictIs
  <2> QED
    BY <1>1, <2>2, <2>3 DEF RequestsTyped
<1>2. CASE requests[i].answer = Null
  <2>1. requests' = [requests EXCEPT ![i] = Unawaited(requests[i], TRUE)]
    BY <1>2 DEF Done
  <2>2. Unawaited(requests[i], TRUE) \in Request
    BY UnawaitedType DEF RequestsTyped
  <2> QED
    BY <1>2, <2>1, <2>2 DEF RequestsTyped
<1> QED
  BY <1>1, <1>2

\* The screen after an answer: the run that is shown is that of the answer or of the request, or it
\* was shown before.
LEMMA ContinuedType ==
  ASSUME RequestsTyped, screen \in Screen, NEW i \in DOMAIN requests,
         NEW answer \in RunAnswer \cup {Refusal("stopped")}
  PROVE  LET t == ContinuedScreen(i, answer)
         IN  /\ t \in Screen
             /\ t.history = screen.history /\ t.historyError = screen.historyError
             /\ t.open = screen.open
             /\ t.controller \in {Null, screen.controller} /\ (t.controller # i \/ t.controller = Null)
             /\ \/ t.run \in {Null, screen.run}
                \/ answer.kind = "run" /\ t.run = answer.run
                \/ t.run = requests[i].target
<1> DEFINE q == requests[i]
           s == [screen EXCEPT !.busy = Null, !.controller = IF @ = i THEN Null ELSE @]
           t == ContinuedScreen(i, answer)
<1>1. q \in Request
  BY DEF RequestsTyped
<1>2. /\ s \in Screen /\ s.run = screen.run /\ s.history = screen.history
      /\ s.historyError = screen.historyError /\ s.open = screen.open
      /\ s.controller \in {Null, screen.controller} /\ (s.controller # i \/ s.controller = Null)
  BY DEF Screen
<1>3. CASE answer.kind = "stopped"
  <2>1. t = [s EXCEPT !.run = Null]
    BY <1>3 DEF ContinuedScreen
  <2> HIDE DEF s
  <2> QED
    BY <1>2, <2>1 DEF Screen
<1>4. CASE answer.kind = "run"
  <2>1. t = showRun(s, answer.run)
    BY <1>4 DEF ContinuedScreen
  <2>2. answer.run \in Copy
    BY <1>4 DEF RunAnswer, Refusal
  <2> HIDE DEF s
  <2> QED
    BY <1>2, <1>4, <2>1, <2>2 DEF Screen, showRun
<1>5. CASE answer.kind = "undecided" /\ q.mode = "checking"
  <2>1. t = showRun(s, q.target)
    BY <1>5 DEF ContinuedScreen
  <2>2. q.target \in Copy \cup {Null}
    BY <1>1 DEF Request
  <2> HIDE DEF s
  <2> QED
    BY <1>2, <2>1, <2>2 DEF Screen, showRun
<1>6. CASE answer.kind \notin {"stopped", "run"} /\ ~(answer.kind = "undecided" /\ q.mode = "checking")
  <2> DEFINE again == IF q.mode \in {"starting", "checking"} THEN s.retry
                      ELSE [command |-> q.command,
                            decision |-> IF q.mode = "continuing" THEN "approved" ELSE "rejected"]
  <2>1. t = [s EXCEPT !.error = TRUE, !.retry = again]
    BY <1>6 DEF ContinuedScreen
  <2>2. again \in Denied \cup {Null}
    <3> HIDE DEF s
    <3> QED
      BY <1>1, <1>2 DEF Request, Denied, Screen
  <2> HIDE DEF s, again
  <2> QED
    BY <1>2, <2>1, <2>2 DEF Screen
<1> HIDE DEF s, t
<1> QED
  BY <1>3, <1>4, <1>5, <1>6

\* What an answer does to the dialog.
LEMMA ContinueType ==
  ASSUME RequestsTyped, DialogTyped, CardFits, NEW i \in DOMAIN requests,
         NEW answer \in RunAnswer \cup {Refusal("stopped")}, Continue(i, answer)
  PROVE  /\ RequestsTyped' /\ screen' \in Screen /\ (card' # Null => card' \in Card) /\ CardFits'
         /\ loads' \subseteq Load
<1>1. ContinuedScreen(i, answer) \in Screen
  BY ContinuedType DEF DialogTyped
<1>2. Render(ContinuedScreen(i, answer)) /\ LoadHistory /\ requests' = Done(i)
  BY ContinueIs
<1>3. screen' \in Screen /\ (card' # Null => card' \in Card) /\ CardFits'
  BY <1>1, <1>2, RenderType DEF DialogTyped
<1> QED
  BY <1>2, <1>3, DoneType, LoadHistoryType DEF DialogTyped
-----------------------------------------------------------------------------
(* Types. *)

LEMMA BlankType == Blank \in Screen /\ [Blank EXCEPT !.open = TRUE] \in Screen
<1>1. [r \in Runs |-> NoRow] \in [Runs -> Row]
  BY DEF NoRow, Row, Statuses, CommandsOrNull
<1> QED
  BY <1>1 DEF Blank, Screen

\* A request that is made by the open dialog, on a screen of type Screen.
LEMMA PerformStep ==
  ASSUME Typed, CardFits, NEW s \in Screen, NEW q \in Request, Perform(s, q),
         UNCHANGED <<server, decisions, loads, excused, faults>>
  PROVE  Typed' /\ CardFits'
<1>1. RequestsTyped' /\ screen' \in Screen /\ (card' # Null => card' \in Card) /\ CardFits'
  BY PerformType DEF Typed, DialogTyped
<1> QED
  BY <1>1 DEF Typed, ServerTyped, DialogTyped, server

LEMMA ExcusedType ==
  ASSUME NEW c \in CommandsOrNull
  PROVE  Excused(c) \subseteq Commands
BY DEF Excused, CommandsOrNull

\* What the user does.
LEMMA UserTypes ==
  ASSUME Typed, CardFits, Stoppable, User
  PROVE  Typed' /\ CardFits'
<1>1. ASSUME Open
      PROVE  Typed' /\ CardFits'
  <2>1. loads' \subseteq Load
    BY <1>1, LoadHistoryType DEF Open, Typed, DialogTyped
  <2> QED
    BY <1>1, <2>1, BlankType
    DEF Open, Typed, ServerTyped, RequestsTyped, DialogTyped, CardFits, server
<1>2. ASSUME Close
      PROVE  Typed' /\ CardFits'
  <2>1. RequestsTyped'
    <3>1. DOMAIN requests' \subseteq DOMAIN requests
      BY <1>2 DEF Close
    <3>2. ASSUME NEW i \in DOMAIN requests'
          PROVE  requests'[i] \in Request
      <4>1. requests'[i] = Unawaited(requests[i], requests[i].aborted)
        BY <1>2 DEF Close
      <4>2. requests[i] \in Request /\ requests[i].aborted \in BOOLEAN
        BY <3>1 DEF Typed, RequestsTyped, Request
      <4> QED
        BY <4>1, <4>2, UnawaitedType
    <3>3. requests' = [i \in DOMAIN requests' |-> requests'[i]]
      BY <1>2 DEF Close
    <3> QED
      BY <3>1, <3>2, <3>3 DEF Typed, RequestsTyped
  <2>2. decisions' \subseteq Decision
    BY <1>2 DEF Close, Typed, DialogTyped, Decision
  <2> QED
    BY <1>2, <2>1, <2>2, BlankType DEF Close, Typed, ServerTyped, DialogTyped, CardFits, server
<1>3. ASSUME handleSubmit
      PROVE  Typed' /\ CardFits'
  <2>1. [screen EXCEPT !.run = Null] \in Screen
    BY DEF Typed, DialogTyped, Screen
  <2>2. NewRequest("starting", Null, Null) \in Request
    BY NewRequestType DEF Modes, CommandsOrNull
  <2> QED
    BY <1>3, <2>1, <2>2, PerformStep DEF handleSubmit
<1>4. ASSUME NEW r \in Runs, reviewRun(r)
      PROVE  Typed' /\ CardFits'
  <2> DEFINE target == [id |-> r, row |-> screen.history[r]]
  <2>1. [screen EXCEPT !.run = Null] \in Screen
    BY DEF Typed, DialogTyped, Screen
  <2>2. target \in Copy /\ target.row.command \in CommandsOrNull
    BY DEF Typed, DialogTyped, Screen, Copy, Row
  <2>3. NewRequest("checking", target.row.command, target) \in Request
    <3> HIDE DEF target
    <3> QED
      BY <2>2, NewRequestType DEF Modes
  <2> QED
    BY <1>4, <2>1, <2>3, PerformStep DEF reviewRun
<1>5. ASSUME TryAgain
      PROVE  Typed' /\ CardFits'
  <2>1. screen.retry.command \in CommandsOrNull /\ ModeOf(screen.retry.decision) \in Modes \ {"starting"}
    BY <1>5 DEF TryAgain, Typed, DialogTyped, Screen, Denied, ModeOf, Modes
  <2>2. NewRequest(ModeOf(screen.retry.decision), screen.retry.command, Null) \in Request
    BY <2>1, NewRequestType
  <2> QED
    BY <1>5, <2>2, PerformStep DEF TryAgain, Typed, DialogTyped
<1>6. ASSUME ReloadHistory
      PROVE  Typed' /\ CardFits'
  <2>1. loads' \subseteq Load
    BY <1>6, LoadHistoryType DEF ReloadHistory, Typed, DialogTyped
  <2> QED
    BY <1>6, <2>1 DEF ReloadHistory, Typed, ServerTyped, RequestsTyped, DialogTyped, CardFits, server
<1>7. ASSUME stop
      PROVE  Typed' /\ CardFits'
  <2>1. RequestsTyped'
    <3>1. requests' = [requests EXCEPT ![screen.controller].aborted = TRUE]
      BY <1>7 DEF stop
    <3> QED
      BY <3>1 DEF Typed, RequestsTyped, Request
  <2>2. excused' \subseteq Commands
    <3>1. requests[screen.controller].command \in CommandsOrNull
      BY <1>7 DEF stop, Stoppable, Typed, RequestsTyped, Request
    <3> QED
      BY <1>7, <3>1, ExcusedType DEF stop, Typed, DialogTyped
  <2> QED
    BY <1>7, <2>1, <2>2 DEF stop, Typed, ServerTyped, DialogTyped, CardFits, server
<1>8. ASSUME NEW d \in {"approved", "rejected"}, decide(d)
      PROVE  Typed' /\ CardFits'
  <2>1. card \in Card
    BY <1>8 DEF decide, canDecide, Typed, DialogTyped
  <2>2. /\ card' \in Card /\ card'.shows = card.shows /\ card'.command = card.command
    BY <1>8, <2>1 DEF decide, Card
  <2>3. screen' \in Screen
    BY <1>8 DEF decide, Typed, DialogTyped, Screen
  <2>4. decisions' \subseteq Decision
    <3>1. [command |-> card.command, decision |-> d, seen |-> card.shows, mine |-> TRUE,
           answer |-> Null] \in Decision
      BY <2>1 DEF Card, Decision
    <3> QED
      BY <1>8, <3>1 DEF decide, Typed, DialogTyped
  <2>5. card # Null
    BY <1>8 DEF decide, canDecide
  <2> QED
    BY <1>8, <2>2, <2>3, <2>4, <2>5
    DEF decide, Typed, ServerTyped, RequestsTyped, DialogTyped, CardFits, server
<1> QED
  BY <1>1, <1>2, <1>3, <1>4, <1>5, <1>6, <1>7, <1>8 DEF User

\* What the card asks for, and the loads of the recent runs.
LEMMA ReadTypes ==
  ASSUME Typed, CardFits, CardAsks \/ CardLoads \/ \E l \in loads : LoadReads(l) \/ LoadArrives(l) \/ LoadFails(l)
  PROVE  Typed' /\ CardFits'
<1>1. ASSUME CardAsks
      PROVE  Typed' /\ CardFits'
  <2>1. card \in Card /\ card # Null
    BY <1>1 DEF CardAsks, Typed, DialogTyped
  <2>2. card' \in Card /\ card'.shows = card.shows /\ card'.command = card.command
    BY <1>1, <2>1 DEF CardAsks, Card
  <2> QED
    BY <1>1, <2>1, <2>2 DEF CardAsks, Typed, ServerTyped, RequestsTyped, DialogTyped, CardFits, server
<1>2. ASSUME CardLoads
      PROVE  Typed' /\ CardFits'
  <2>1. card \in Card /\ card # Null
    BY <1>2 DEF CardLoads, Typed, DialogTyped
  <2>2. card' \in Card /\ card'.shows \in {Null, card.command} /\ card'.command = card.command
    BY <1>2, <2>1 DEF CardLoads, Card, CommandsOrNull
  <2> QED
    BY <1>2, <2>1, <2>2 DEF CardLoads, Typed, ServerTyped, RequestsTyped, DialogTyped, CardFits, server
<1>3. ASSUME NEW l \in loads, LoadReads(l)
      PROVE  Typed' /\ CardFits'
  <2>1. [l EXCEPT !.found = rows] \in Load
    BY DEF Typed, ServerTyped, DialogTyped, Load
  <2> QED
    BY <1>3, <2>1 DEF LoadReads, Typed, ServerTyped, RequestsTyped, DialogTyped, CardFits, server
<1>4. ASSUME NEW l \in loads, LoadArrives(l)
      PROVE  Typed' /\ CardFits'
  <2>1. l.found \in [Runs -> Row]
    BY <1>4 DEF LoadArrives, Typed, DialogTyped, Load
  <2>2. screen' \in Screen
    BY <1>4, <2>1 DEF LoadArrives, Typed, DialogTyped, Screen
  <2> QED
    BY <1>4, <2>2 DEF LoadArrives, Typed, ServerTyped, RequestsTyped, DialogTyped, CardFits, server
<1>5. ASSUME NEW l \in loads, LoadFails(l)
      PROVE  Typed' /\ CardFits'
  <2>1. screen' \in Screen
    BY <1>5 DEF LoadFails, Typed, DialogTyped, Screen
  <2>2. faults' \in 0 .. MaxFaults
    BY <1>5, RunDialogAssumption DEF LoadFails, Fault, Typed, DialogTyped
  <2> QED
    BY <1>5, <2>1, <2>2 DEF LoadFails, Typed, ServerTyped, RequestsTyped, DialogTyped, CardFits, server
<1> QED
  BY <1>1, <1>2, <1>3, <1>4, <1>5

\* A fault is counted.
LEMMA FaultType ==
  ASSUME Typed, Fault
  PROVE  faults' \in 0 .. MaxFaults
BY RunDialogAssumption DEF Fault, Typed, DialogTyped

\* The run of a command that is approved or denied.
LEMMA SettleType ==
  ASSUME Typed, NEW c \in Commands, NEW decision \in {"approved", "rejected"}, Settle(c, decision)
  PROVE  /\ ServerTyped'
         /\ \A r \in Runs : rows'[r] = rows[r] \/ (r \in Waits(c) /\ rows'[r] = Write(r, "ended", Null)[r])
<1>1. rows \in [Runs -> Row] /\ commands \in [Commands -> CommandStates]
  BY DEF Typed, ServerTyped
<1>2. \A r \in Runs : Write(r, "ended", Null)[r] \in Row
  BY <1>1, WriteIs DEF Statuses, CommandsOrNull
<1>3. rows' \in [Runs -> Row]
      /\ \A r \in Runs : rows'[r] = rows[r] \/ (r \in Waits(c) /\ rows'[r] = Write(r, "ended", Null)[r])
  BY <1>1, <1>2 DEF Settle
<1>4. commands' \in [Commands -> CommandStates]
  BY <1>1 DEF Settle, CommandStates
<1> QED
  BY <1>3, <1>4 DEF Settle, Typed, ServerTyped

\* The request that is handled, of a run that is then worked on.
LEMMA WorksType ==
  ASSUME Typed, NEW i \in DOMAIN requests, NEW r \in Runs, Works(i, r)
  PROVE  /\ DOMAIN active' \subseteq Runs /\ active' \in [DOMAIN active' -> Ids \cup {Null}]
         /\ RequestsTyped'
         /\ DOMAIN requests' = DOMAIN requests
         /\ \A j \in DOMAIN requests : j # i => requests'[j] = requests[j]
         /\ requests'[i].handled /\ requests'[i].answer = requests[i].answer
         /\ requests'[i].target = requests[i].target /\ requests'[i].mine = requests[i].mine
<1>1. active' = And(active, r, i) /\ i \in Ids \cup {Null}
  BY DEF Works, Typed, RequestsTyped
<1>2. active' \in [DOMAIN active' -> Ids \cup {Null}]
  BY <1>1, AndType DEF Typed, ServerTyped
<1>3. DOMAIN active' = DOMAIN active \cup {r}
  BY <1>1, AndIs
<1>4. requests[i] \in Request
  BY DEF Typed, RequestsTyped
<1>5. requests' = [requests EXCEPT ![i].handled = TRUE, ![i].aborted = @ /\ requests[i].mine]
  BY DEF Works
<1>6. requests'[i] \in Request /\ requests'[i].handled /\ requests'[i].answer = requests[i].answer
      /\ requests'[i].target = requests[i].target /\ requests'[i].mine = requests[i].mine
  BY <1>4, <1>5 DEF Request, Typed, RequestsTyped
<1>7. DOMAIN requests' = DOMAIN requests /\ \A j \in DOMAIN requests : j # i => requests'[j] = requests[j]
  BY <1>5 DEF Typed, RequestsTyped
<1>8. RequestsTyped'
  <2>1. \A j \in DOMAIN requests' : requests'[j] \in Request
    BY <1>6, <1>7 DEF Typed, RequestsTyped
  <2>2. requests' = [j \in DOMAIN requests' |-> requests'[j]]
    BY <1>5 DEF Typed, RequestsTyped
  <2> QED
    BY <1>7, <2>1, <2>2 DEF Typed, RequestsTyped
<1> QED
  BY <1>2, <1>3, <1>6, <1>7, <1>8 DEF Typed, ServerTyped

\* What the server does.
LEMMA ServerTypes ==
  ASSUME Typed, CardFits, ServerFits,
         \/ \E i \in Ids : startRun(i) \/ resumeRun(i)
         \/ \E r \in Runs : WorkEnds(r)
         \/ Restart
         \/ \E d \in decisions : Decided(d)
         \/ \E c \in Commands : DecideElsewhere(c) \/ ResumeElsewhere(c)
  PROVE  Typed' /\ CardFits'
<1>1. ASSUME NEW i \in Ids, startRun(i)
      PROVE  Typed' /\ CardFits'
  <2>1. PICK r \in Runs : rows' = Write(r, "ended", Null) /\ Works(i, r)
    BY <1>1 DEF startRun
  <2>2. rows' \in [Runs -> Row]
    BY <2>1, WriteIs DEF Typed, ServerTyped, Statuses, CommandsOrNull
  <2>3. i \in DOMAIN requests
    BY <1>1 DEF startRun
  <2> QED
    BY <1>1, <2>1, <2>2, <2>3, WorksType DEF startRun, Typed, ServerTyped, DialogTyped, CardFits
<1>2. ASSUME NEW i \in Ids, resumeRun(i)
      PROVE  Typed' /\ CardFits'
  <2> DEFINE c == requests[i].command
  <2>1. i \in DOMAIN requests
    BY <1>2 DEF resumeRun
  <2>2. excused' \subseteq Commands
    BY <1>2 DEF resumeRun, Typed, DialogTyped
  <2>3. ASSUME ServerTyped', RequestsTyped'
        PROVE  Typed' /\ CardFits'
    BY <1>2, <2>2, <2>3 DEF resumeRun, Typed, DialogTyped, CardFits
  <2>4. CASE UNCHANGED server /\ \E a \in RunAnswer : Answer(i, a)
    BY <2>3, <2>4, AnswerType DEF server, Typed, ServerTyped
  <2>5. ASSUME NEW r \in Waits(c) \ DOMAIN active, Closes(i, r)
        PROVE  ServerTyped' /\ RequestsTyped'
    <3>1. r \in Runs
      BY DEF Waits
    <3>2. rows' \in [Runs -> Row]
      BY <2>5, <3>1, WriteIs DEF Closes, Typed, ServerTyped, Statuses, CommandsOrNull
    <3>3. RunIs(CopyOf(r, rows')) \in RunAnswer
      BY <3>1, <3>2, CopyType, AnswerTypes
    <3> QED
      BY <2>5, <3>2, <3>3, AnswerType DEF Closes, Typed, ServerTyped
  <2>6. ASSUME NEW r \in Waits(c) \ DOMAIN active, Works(i, r), UNCHANGED rows,
               commands' = [commands EXCEPT ![c] = "executed"]
        PROVE  ServerTyped' /\ RequestsTyped'
    <3>1. r \in Runs
      BY DEF Waits
    <3>2. commands' \in [Commands -> CommandStates]
      BY <2>6 DEF Typed, ServerTyped, CommandStates
    <3> QED
      BY <2>1, <2>6, <3>1, <3>2, WorksType DEF Typed, ServerTyped
  <2>7. \/ UNCHANGED server /\ \E a \in RunAnswer : Answer(i, a)
        \/ \E r \in Waits(c) \ DOMAIN active : Closes(i, r)
        \/ \E r \in Waits(c) \ DOMAIN active :
             Works(i, r) /\ UNCHANGED rows /\ commands' = [commands EXCEPT ![c] = "executed"]
    <3>1. CASE Answer(i, Refusal("error")) /\ UNCHANGED server
      BY <3>1, AnswerTypes
    <3>2. ASSUME NEW r \in Waits(c) \ DOMAIN active,
                 CASE commands[c] = "pending" -> Answer(i, Refusal("undecided")) /\ UNCHANGED server
                   [] commands[c] \in {"rejected", "executed"} -> Closes(i, r)
                   [] commands[c] = "approved" ->
                        /\ Works(i, r)
                        /\ commands' = [commands EXCEPT ![c] = "executed"]
                        /\ UNCHANGED rows
          PROVE  \/ UNCHANGED server /\ \E a \in RunAnswer : Answer(i, a)
                 \/ Closes(i, r)
                 \/ Works(i, r) /\ UNCHANGED rows /\ commands' = [commands EXCEPT ![c] = "executed"]
      <4>1. commands[c] \in CommandStates /\ commands[c] # "none"
        <5>1. r \in Runs /\ rows[r].command = c /\ rows[r].status = "awaiting_approval"
          BY DEF Waits
        <5>2. c # Null /\ commands[c] # "none"
          BY <5>1 DEF ServerFits, RowFits
        <5>3. c \in Commands
          BY <5>1, <5>2 DEF Typed, ServerTyped, Row, CommandsOrNull
        <5> QED
          BY <5>2, <5>3 DEF Typed, ServerTyped
      <4> HIDE DEF c
      <4>2. CASE commands[c] = "pending"
        <5>1. Answer(i, Refusal("undecided")) /\ UNCHANGED server
          BY <3>2, <4>2
        <5> QED
          BY <5>1, AnswerTypes
      <4>3. CASE commands[c] \in {"rejected", "executed"}
        BY <3>2, <4>3
      <4>4. CASE commands[c] = "approved"
        BY <3>2, <4>4
      <4> QED
        BY <4>1, <4>2, <4>3, <4>4 DEF CommandStates
    <3> QED
      BY <1>2, <3>1, <3>2 DEF resumeRun
  <2> QED
    BY <2>3, <2>4, <2>5, <2>6, <2>7
<1>3. ASSUME NEW r \in Runs, WorkEnds(r)
      PROVE  Typed' /\ CardFits'
  <2>1. rows' \in [Runs -> Row] /\ commands' \in [Commands -> CommandStates]
    <3>1. CASE rows' = Write(r, "ended", Null) /\ UNCHANGED commands
      BY <3>1, WriteIs DEF Typed, ServerTyped, Statuses, CommandsOrNull
    <3>2. ASSUME NEW n \in 1 .. MaxCommands[r],
                 commands' = [commands EXCEPT ![<<r, n>>] = "pending"],
                 rows' = Write(r, "awaiting_approval", <<r, n>>)
          PROVE  rows' \in [Runs -> Row] /\ commands' \in [Commands -> CommandStates]
      BY <3>2, IsCommand, WriteIs DEF Typed, ServerTyped, Statuses, CommandsOrNull, CommandStates
    <3> QED
      BY <1>3, <3>1, <3>2 DEF WorkEnds
  <2>2. DOMAIN active' \subseteq Runs /\ active' \in [DOMAIN active' -> Ids \cup {Null}]
    <3>1. active' = Restrict(active, DOMAIN active \ {r})
      BY <1>3 DEF WorkEnds
    <3>2. DOMAIN active' \subseteq DOMAIN active
      BY <3>1, RestrictIs
    <3>3. Restrict(active, DOMAIN active \ {r})
            \in [DOMAIN Restrict(active, DOMAIN active \ {r}) -> Ids \cup {Null}]
      BY RestrictType DEF Typed, ServerTyped
    <3> QED
      BY <3>1, <3>2, <3>3 DEF Typed, ServerTyped
  <2>3. RequestsTyped'
    <3>1. CASE active[r] = Null
      BY <1>3, <3>1 DEF WorkEnds, Typed, RequestsTyped
    <3>2. CASE active[r] # Null
      <4>1. active[r] \in Ids /\ Answer(active[r], RunIs(CopyOf(r, rows')))
        BY <1>3, <3>2 DEF WorkEnds, Typed, ServerTyped
      <4>2. RunIs(CopyOf(r, rows')) \in RunAnswer
        BY <2>1, CopyType, AnswerTypes
      <4> QED
        BY <4>1, <4>2, AnswerType DEF Typed
    <3> QED
      BY <3>1, <3>2
  <2> QED
    BY <1>3, <2>1, <2>2, <2>3 DEF WorkEnds, Typed, ServerTyped, DialogTyped, CardFits
<1>4. ASSUME Restart
      PROVE  Typed' /\ CardFits'
  <2>1. DOMAIN active' \subseteq Runs /\ active' \in [DOMAIN active' -> Ids \cup {Null}]
    BY <1>4 DEF Restart
  <2>2. RequestsTyped'
    <3>1. DOMAIN requests' \subseteq DOMAIN requests
      BY <1>4 DEF Restart
    <3>2. ASSUME NEW i \in DOMAIN requests'
          PROVE  requests'[i] \in Request
      <4>1. requests'[i] = IF requests[i].handled /\ requests[i].answer = Null
                           THEN [requests[i] EXCEPT !.answer = Refusal("error")] ELSE requests[i]
        BY <1>4 DEF Restart
      <4>2. requests[i] \in Request
        BY <3>1 DEF Typed, RequestsTyped
      <4> QED
        BY <4>1, <4>2, AnswerTypes DEF Request
    <3>3. requests' = [i \in DOMAIN requests' |-> requests'[i]]
      BY <1>4 DEF Restart
    <3> QED
      BY <3>1, <3>2, <3>3 DEF Typed, RequestsTyped
  <2>3. faults' \in 0 .. MaxFaults
    BY <1>4, FaultType DEF Restart
  <2> QED
    BY <1>4, <2>1, <2>2, <2>3 DEF Restart, Typed, ServerTyped, DialogTyped, CardFits
<1>5. ASSUME NEW d \in decisions, Decided(d)
      PROVE  Typed' /\ CardFits'
  <2>1. d \in Decision
    BY DEF Typed, DialogTyped
  <2>2. ASSUME NEW a \in DecisionAnswer, Answers(d, a)
        PROVE  decisions' \subseteq Decision
    BY <2>1, <2>2 DEF Answers, Decision, Typed, DialogTyped
  <2>3. ServerTyped' /\ \E a \in DecisionAnswer : Answers(d, a)
    <3>1. CASE commands[d.command] # "pending"
      BY <1>5, <3>1, AnswerTypes DEF Decided, server, Typed, ServerTyped
    <3>2. CASE commands[d.command] = "pending"
      <4> DEFINE closed == {r \in Waits(d.command) : d.decision = "rejected"}
      <4>1. Settle(d.command, d.decision)
            /\ Answers(d, IF closed = {} THEN Refusal("none")
                          ELSE RunIs(CopyOf(CHOOSE r \in closed : TRUE, rows')))
        BY <1>5, <3>2 DEF Decided
      <4>2. ServerTyped'
        BY <2>1, <4>1, SettleType DEF Decision
      <4>3. closed # {} => (CHOOSE r \in closed : TRUE) \in Runs
        BY DEF Waits
      <4>4. closed # {} => RunIs(CopyOf(CHOOSE r \in closed : TRUE, rows')) \in DecisionAnswer
        <5> HIDE DEF closed
        <5> QED
          BY <4>2, <4>3, CopyType, AnswerTypes DEF ServerTyped
      <4> HIDE DEF closed
      <4> QED
        BY <4>1, <4>2, <4>4, AnswerTypes
    <3> QED
      BY <3>1, <3>2
  <2> QED
    BY <1>5, <2>2, <2>3 DEF Decided, Typed, RequestsTyped, DialogTyped, CardFits
<1>6. ASSUME NEW c \in Commands, DecideElsewhere(c)
      PROVE  Typed' /\ CardFits'
  <2>1. ServerTyped'
    BY <1>6, SettleType DEF DecideElsewhere
  <2>2. faults' \in 0 .. MaxFaults
    BY <1>6, FaultType DEF DecideElsewhere
  <2> QED
    BY <1>6, <2>1, <2>2 DEF DecideElsewhere, Typed, RequestsTyped, DialogTyped, CardFits
<1>7. ASSUME NEW c \in Commands, ResumeElsewhere(c)
      PROVE  Typed' /\ CardFits'
  <2>1. PICK r \in Waits(c) \ DOMAIN active : active' = And(active, r, Null)
    BY <1>7 DEF ResumeElsewhere
  <2>2. r \in Runs
    BY DEF Waits
  <2>3. DOMAIN active' \subseteq Runs /\ active' \in [DOMAIN active' -> Ids \cup {Null}]
    <3>1. And(active, r, Null) \in [DOMAIN And(active, r, Null) -> Ids \cup {Null}]
      BY AndType DEF Typed, ServerTyped
    <3>2. DOMAIN And(active, r, Null) = DOMAIN active \cup {r}
      BY AndIs
    <3> QED
      BY <2>1, <2>2, <3>1, <3>2 DEF Typed, ServerTyped
  <2>4. commands' \in [Commands -> CommandStates]
    BY <1>7 DEF ResumeElsewhere, Typed, ServerTyped, CommandStates
  <2> QED
    BY <1>7, <2>3, <2>4 DEF ResumeElsewhere, Typed, ServerTyped, RequestsTyped, DialogTyped, CardFits
<1> QED
  BY <1>1, <1>2, <1>3, <1>4, <1>5, <1>6, <1>7

\* A request that tells a run of its command.
LEMMA TellIs ==
  ASSUME Typed, CardFits, NEW d \in Decision, Tell(d)
  PROVE  /\ RequestsTyped' /\ screen' \in Screen /\ (card' # Null => card' \in Card) /\ CardFits'
         /\ \E id \in Ids \ DOMAIN requests, q \in Request :
              /\ requests' = And(requests, id, q)
              /\ q.command = d.command /\ ~q.handled /\ ~q.aborted /\ q.answer = Null /\ q.target = Null
              /\ \/ UNCHANGED screen
                 \/ /\ screen'.run = screen.run /\ screen'.history = screen.history
                    /\ screen'.historyError = screen.historyError
                    /\ screen'.controller = id /\ q.mine
<1> DEFINE request == NewRequest(ModeOf(d.decision), d.command, Null)
<1>1. request \in Request
  <2>1. ModeOf(d.decision) \in Modes \ {"starting"} /\ d.command \in CommandsOrNull
    BY DEF ModeOf, Modes, Decision, CommandsOrNull
  <2> QED
    BY <2>1, NewRequestType
<1>2. request.command = d.command /\ ~request.handled /\ ~request.aborted /\ request.answer = Null
      /\ request.target = Null /\ request.mine
  BY DEF NewRequest
<1>3. CASE d.mine
  <2> HIDE DEF request
  <2>1. Perform(screen, request)
    BY <1>3 DEF Tell, request
  <2> QED
    BY <1>1, <1>2, <2>1, PerformType DEF Typed, DialogTyped
<1>4. CASE ~d.mine
  <2> DEFINE q == Unawaited(request, FALSE)
  <2> HIDE DEF request
  <2>1. q \in Request /\ q.command = d.command /\ ~q.handled /\ ~q.aborted /\ q.answer = Null
        /\ q.target = Null
    BY <1>1, <1>2, UnawaitedType
  <2>2. UNCHANGED <<screen, card>> /\ \E id \in Ids \ DOMAIN requests : requests' = And(requests, id, q)
    BY <1>4 DEF Tell, MustTell, request
  <2> HIDE DEF q
  <2>3. PICK id \in Ids \ DOMAIN requests : requests' = And(requests, id, q)
    BY <2>2
  <2>4. And(requests, id, q) \in [DOMAIN And(requests, id, q) -> Request]
    BY <2>1, AndType DEF Typed, RequestsTyped
  <2>5. DOMAIN And(requests, id, q) = DOMAIN requests \cup {id}
    BY AndIs
  <2>6. RequestsTyped'
    BY <2>3, <2>4, <2>5 DEF Typed, RequestsTyped
  <2> QED
    BY <2>1, <2>2, <2>3, <2>6 DEF Typed, DialogTyped, CardFits
<1> QED
  BY <1>3, <1>4

\* The decision is open again.
LEMMA UndecideType ==
  ASSUME Typed, CardFits, NEW d \in decisions, Undecide(d)
  PROVE  /\ screen' \in Screen /\ (card' # Null => card' \in Card) /\ CardFits'
         /\ screen'.run = screen.run /\ screen'.history = screen.history
         /\ screen'.historyError = screen.historyError /\ screen'.controller = screen.controller
<1>1. [screen EXCEPT !.error = TRUE] \in Screen
  BY DEF Typed, DialogTyped, Screen
<1>2. card # Null => [card EXCEPT !.decision = Null] \in Card
  BY DEF Typed, DialogTyped, Card
<1>3. card # Null => /\ [card EXCEPT !.decision = Null].shows = card.shows
                     /\ [card EXCEPT !.decision = Null].command = card.command
  BY DEF Typed, DialogTyped, Card
<1>4. /\ [screen EXCEPT !.error = TRUE].run = screen.run
      /\ [screen EXCEPT !.error = TRUE].history = screen.history
      /\ [screen EXCEPT !.error = TRUE].historyError = screen.historyError
      /\ [screen EXCEPT !.error = TRUE].controller = screen.controller
  BY DEF Typed, DialogTyped, Screen
<1> QED
  BY <1>1, <1>2, <1>3, <1>4 DEF Undecide, Typed, DialogTyped, CardFits

\* What the answers do.
LEMMA AnswerTypesStep ==
  ASSUME Typed, CardFits,
         \/ \E i \in Ids : Answered(i) \/ Stopped(i) \/ Lose(i) \/ NeverArrives(i)
         \/ \E d \in decisions : DecisionAnswered(d) \/ LoseDecision(d)
  PROVE  Typed' /\ CardFits'
<1>1. ASSUME NEW i \in Ids, Answered(i)
      PROVE  Typed' /\ CardFits'
  <2>1. i \in DOMAIN requests /\ requests[i].answer \in RunAnswer /\ Continue(i, requests[i].answer)
    BY <1>1 DEF Answered, Typed, RequestsTyped, Request
  <2> QED
    BY <1>1, <2>1, ContinueType DEF Answered, Typed, ServerTyped, DialogTyped, server
<1>2. ASSUME NEW i \in Ids, Stopped(i)
      PROVE  Typed' /\ CardFits'
  <2>1. i \in DOMAIN requests /\ Continue(i, Refusal("stopped"))
    BY <1>2 DEF Stopped
  <2> QED
    BY <1>2, <2>1, ContinueType DEF Stopped, Typed, ServerTyped, DialogTyped, server
<1>3. ASSUME NEW i \in Ids, Lose(i)
      PROVE  Typed' /\ CardFits'
  <2>1. i \in DOMAIN requests /\ requests[i] \in Request
    BY <1>3 DEF Lose, Typed, RequestsTyped
  <2>2. excused' \subseteq Commands
    <3>1. requests[i].command \in CommandsOrNull
      BY <2>1 DEF Request
    <3> QED
      BY <1>3, <3>1, ExcusedType DEF Lose, Typed, DialogTyped
  <2>3. faults' \in 0 .. MaxFaults
    BY <1>3, FaultType DEF Lose
  <2>4. CASE requests[i].mine
    <3>1. Continue(i, Refusal("error"))
      BY <1>3, <2>4 DEF Lose
    <3> QED
      BY <1>3, <2>1, <2>2, <2>3, <3>1, ContinueType, AnswerTypes
      DEF Lose, Typed, ServerTyped, DialogTyped, server
  <2>5. CASE ~requests[i].mine
    <3>1. requests' = [requests EXCEPT ![i].aborted = TRUE]
      BY <1>3, <2>5 DEF Lose
    <3>2. RequestsTyped'
      BY <3>1 DEF Typed, RequestsTyped, Request
    <3> QED
      BY <1>3, <2>2, <2>3, <2>5, <3>2 DEF Lose, Typed, ServerTyped, DialogTyped, CardFits, server
  <2> QED
    BY <2>4, <2>5
<1>4. ASSUME NEW i \in Ids, NeverArrives(i)
      PROVE  Typed' /\ CardFits'
  <2>1. requests' = Restrict(requests, DOMAIN requests \ {i})
    BY <1>4 DEF NeverArrives
  <2>2. DOMAIN requests' \subseteq DOMAIN requests
    BY <2>1, RestrictIs
  <2>3. RequestsTyped'
    BY <2>1, <2>2, RestrictType DEF Typed, RequestsTyped
  <2> QED
    BY <1>4, <2>3 DEF NeverArrives, Typed, ServerTyped, DialogTyped, CardFits, server
<1>5. ASSUME NEW d \in decisions, DecisionAnswered(d)
      PROVE  Typed' /\ CardFits'
  <2>1. d \in Decision /\ d.answer \in DecisionAnswer
    BY <1>5 DEF DecisionAnswered, Typed, DialogTyped, Decision
  <2>2. decisions' \subseteq Decision
    BY <1>5 DEF DecisionAnswered, Typed, DialogTyped
  <2>3. ASSUME RequestsTyped', loads' \subseteq Load,
               screen' \in Screen, card' # Null => card' \in Card, CardFits'
        PROVE  Typed' /\ CardFits'
    BY <1>5, <2>2, <2>3 DEF DecisionAnswered, Typed, ServerTyped, DialogTyped, server
  <2>4. CASE d.answer.kind = "error"
    <3>1. Undecide(d) /\ UNCHANGED <<requests, loads>>
      BY <1>5, <2>4 DEF DecisionAnswered
    <3> QED
      BY <2>3, <3>1, UndecideType DEF Typed, RequestsTyped, DialogTyped
  <2>5. CASE d.answer.kind = "run"
    <3>1. Render(showRun(screen, d.answer.run)) /\ LoadHistory /\ UNCHANGED requests
      BY <1>5, <2>5 DEF DecisionAnswered
    <3>2. d.answer.run \in Copy
      BY <2>1, <2>5 DEF DecisionAnswer
    <3>3. showRun(screen, d.answer.run) \in Screen
      BY <3>2 DEF showRun, Typed, DialogTyped, Screen
    <3>4. screen' \in Screen /\ (card' # Null => card' \in Card) /\ CardFits'
      BY <3>1, <3>3, RenderType DEF Typed, DialogTyped
    <3> QED
      BY <2>3, <3>1, <3>4, LoadHistoryType DEF Typed, RequestsTyped, DialogTyped
  <2>6. CASE d.answer.kind = "none"
    <3>1. Tell(d) /\ UNCHANGED loads
      BY <1>5, <2>6 DEF DecisionAnswered
    <3> QED
      BY <2>1, <2>3, <3>1, TellIs DEF Typed, DialogTyped
  <2>7. d.answer.kind \in {"error", "run", "none"}
    BY <2>1 DEF DecisionAnswer
  <2> QED
    BY <2>4, <2>5, <2>6, <2>7
<1>6. ASSUME NEW d \in decisions, LoseDecision(d)
      PROVE  Typed' /\ CardFits'
  <2>1. d \in Decision /\ d.command \in CommandsOrNull
    BY DEF Typed, DialogTyped, Decision, CommandsOrNull
  <2>2. excused' \subseteq Commands
    BY <1>6, <2>1, ExcusedType DEF LoseDecision, Typed, DialogTyped
  <2>3. faults' \in 0 .. MaxFaults
    BY <1>6, FaultType DEF LoseDecision
  <2>4. CASE Undecide(d) /\ UNCHANGED requests
    BY <1>6, <2>2, <2>3, <2>4, UndecideType
    DEF LoseDecision, Typed, ServerTyped, RequestsTyped, DialogTyped, server
  <2>5. CASE Tell(d)
    BY <1>6, <2>1, <2>2, <2>3, <2>5, TellIs DEF LoseDecision, Typed, ServerTyped, DialogTyped, server
  <2> QED
    BY <1>6, <2>4, <2>5 DEF LoseDecision
<1> QED
  BY <1>1, <1>2, <1>3, <1>4, <1>5, <1>6

-----------------------------------------------------------------------------
(* What a step of the dialog leaves as it is: the runs, their commands and whoever waits for work or is
   about to tell a run. *)

\* A request that waits for work goes on doing so.
Running ==
  \A i \in DOMAIN requests : requests[i].handled /\ requests[i].answer = Null =>
    i \in DOMAIN requests' /\ requests'[i].handled /\ requests'[i].answer = Null

\* A request that is on its way stays so, or its command is excused.
Asked ==
  \A i \in DOMAIN requests : ~requests[i].handled /\ ~requests[i].aborted =>
    \/ /\ i \in DOMAIN requests' /\ requests'[i].command = requests[i].command
       /\ ~requests'[i].handled /\ ~requests'[i].aborted
    \/ Excused(requests[i].command) \subseteq excused'

\* A decision whose run has to be told is told, or its command is excused.
Owed ==
  \A d \in decisions : d.answer = Refusal("none") =>
    \/ \E e \in decisions' : e.command = d.command /\ e.answer = Refusal("none")
    \/ ByRequest(d.command)'
    \/ Excused(d.command) \subseteq excused'

DialogStep == UNCHANGED server /\ excused \subseteq excused' /\ Running /\ Asked /\ Owed

LEMMA DialogKeeps ==
  ASSUME Typed, ServerFits, Carried, DialogStep
  PROVE  ServerFits' /\ Carried'
<1>1. UNCHANGED <<rows, commands, active>>
  BY DEF DialogStep, server
<1>2. ServerFits'
  <2>1. ASSUME NEW r \in Runs
        PROVE  RowFits(r)'
    BY <1>1 DEF ServerFits, RowFits
  <2>2. ASSUME NEW r \in DOMAIN active
        PROVE  WorkFits(r)'
    BY <1>1 DEF ServerFits, WorkFits, DialogStep, Running
  <2> QED
    BY <1>1, <2>1, <2>2 DEF ServerFits
<1>3. ASSUME NEW r \in Runs
      PROVE  CarriedOn(r)'
  <2>1. SUFFICES ASSUME NEW c, c = rows[r].command, c # Null, c \notin excused', commands[c] = "approved"
                 PROVE  Told(c)'
    BY <1>1 DEF CarriedOn
  <2>2. Told(c)
    BY <2>1 DEF Carried, CarriedOn, DialogStep
  <2>3. ~(Excused(c) \subseteq excused')
    BY <2>1 DEF Excused
  <2>4. CASE ByDecision(c)
    <3>1. PICK d \in decisions : d.command = c /\ d.answer = Refusal("none")
      BY <2>4 DEF ByDecision
    <3>2. (\E e \in decisions' : e.command = c /\ e.answer = Refusal("none")) \/ ByRequest(c)'
      BY <2>3, <3>1 DEF DialogStep, Owed
    <3> QED
      BY <3>2 DEF Told, ByDecision
  <2>5. CASE ByRequest(c)
    <3>1. PICK i \in DOMAIN requests :
            requests[i].command = c /\ ~requests[i].handled /\ ~requests[i].aborted
      BY <2>5 DEF ByRequest
    <3>2. /\ i \in DOMAIN requests' /\ requests'[i].command = c
          /\ ~requests'[i].handled /\ ~requests'[i].aborted
      BY <2>3, <3>1 DEF DialogStep, Asked
    <3>3. ByRequest(c)'
      BY <3>2 DEF ByRequest
    <3> QED
      BY <3>3 DEF Told
  <2> QED
    BY <2>2, <2>4, <2>5 DEF Told
<1> QED
  BY <1>1, <1>2, <1>3 DEF Carried

\* Requests, decisions and what can be stopped are left alone.
LEMMA NothingAsked ==
  ASSUME Typed, Handled, Stoppable, UNCHANGED <<server, requests, decisions, excused>>,
         screen'.controller = screen.controller
  PROVE  DialogStep /\ Handled' /\ Stoppable'
BY DEF DialogStep, Running, Asked, Owed, Handled, Stoppable

\* A request is added.
LEMMA OneMore ==
  ASSUME Typed, Handled, Stoppable, NEW id \in Ids \ DOMAIN requests, NEW q \in Request,
         requests' = And(requests, id, q), q.answer = Null, excused \subseteq excused', UNCHANGED server,
         \/ screen'.controller = id /\ q.mine
         \/ screen'.controller \in {Null, screen.controller}
  PROVE  Running /\ Asked /\ Handled' /\ Stoppable'
<1>1. /\ DOMAIN requests' = DOMAIN requests \cup {id}
      /\ requests'[id] = q
      /\ \A i \in DOMAIN requests : requests'[i] = requests[i]
  <2>1. /\ DOMAIN And(requests, id, q) = DOMAIN requests \cup {id}
        /\ And(requests, id, q)[id] = q
        /\ \A i \in DOMAIN requests : i # id => And(requests, id, q)[i] = requests[i]
    BY DEF And
  <2> QED
    BY <2>1
<1> QED
  BY <1>1 DEF Running, Asked, Handled, Stoppable

\* The open dialog asks.
LEMMA PerformKeeps ==
  ASSUME Typed, CardFits, Handled, Stoppable, NEW s \in Screen, NEW q \in Request, q.answer = Null, q.mine,
         Perform(s, q), UNCHANGED <<server, decisions, excused>>
  PROVE  DialogStep /\ Handled' /\ Stoppable'
<1>1. requests' = And(requests, screen'.controller, q) /\ screen'.controller \in Ids \ DOMAIN requests
  BY PerformType DEF Typed, DialogTyped
<1>2. Running /\ Asked /\ Handled' /\ Stoppable'
  BY <1>1, OneMore
<1> QED
  BY <1>2 DEF DialogStep, Owed

LEMMA UserKeeps ==
  ASSUME Typed, CardFits, Handled, Stoppable, User
  PROVE  DialogStep /\ Handled' /\ Stoppable'
<1>1. ASSUME Open
      PROVE  DialogStep /\ Handled' /\ Stoppable'
  <2>1. screen'.controller = Null
    BY <1>1 DEF Open, Blank
  <2> QED
    BY <1>1, <2>1 DEF Open, DialogStep, Running, Asked, Owed, Handled, Stoppable, server
<1>2. ASSUME Close
      PROVE  DialogStep /\ Handled' /\ Stoppable'
  <2>1. /\ DOMAIN requests' = {i \in DOMAIN requests : requests[i].answer = Null}
        /\ \A i \in DOMAIN requests' : requests'[i] = Unawaited(requests[i], requests[i].aborted)
    BY <1>2 DEF Close
  <2>2. \A i \in DOMAIN requests : requests[i] \in Request /\ requests[i].aborted \in BOOLEAN
    BY DEF Typed, RequestsTyped, Request
  <2>3. ASSUME NEW i \in DOMAIN requests'
        PROVE  /\ i \in DOMAIN requests
               /\ requests'[i].command = requests[i].command /\ requests'[i].handled = requests[i].handled
               /\ requests'[i].answer = Null /\ requests[i].answer = Null
               /\ requests'[i].aborted = (requests[i].aborted /\ ~requests[i].handled)
    BY <2>1, <2>2, UnawaitedType
  <2>4. Running /\ Asked /\ Handled'
    BY <2>1, <2>3 DEF Running, Asked, Handled
  <2>5. Stoppable'
    BY <1>2 DEF Close, Blank, Stoppable
  <2>6. Owed
    <3> SUFFICES ASSUME NEW d \in decisions, d.answer = Refusal("none")
                 PROVE  \E e \in decisions' : e.command = d.command /\ e.answer = Refusal("none")
      BY DEF Owed
    <3>1. [d EXCEPT !.mine = FALSE] \in decisions'
      BY <1>2 DEF Close
    <3>2. d \in Decision
      BY DEF Typed, DialogTyped
    <3>3. [d EXCEPT !.mine = FALSE].command = d.command /\ [d EXCEPT !.mine = FALSE].answer = d.answer
      BY <3>2 DEF Decision
    <3> QED
      BY <3>1, <3>3
  <2> QED
    BY <1>2, <2>4, <2>5, <2>6 DEF Close, DialogStep
<1>3. ASSUME handleSubmit
      PROVE  DialogStep /\ Handled' /\ Stoppable'
  <2>1. [screen EXCEPT !.run = Null] \in Screen
    BY DEF Typed, DialogTyped, Screen
  <2>2. NewRequest("starting", Null, Null) \in Request
    BY NewRequestType DEF Modes, CommandsOrNull
  <2>3. NewRequest("starting", Null, Null).answer = Null /\ NewRequest("starting", Null, Null).mine
    BY DEF NewRequest
  <2> QED
    BY <1>3, <2>1, <2>2, <2>3, PerformKeeps DEF handleSubmit
<1>4. ASSUME NEW r \in Runs, reviewRun(r)
      PROVE  DialogStep /\ Handled' /\ Stoppable'
  <2> DEFINE target == [id |-> r, row |-> screen.history[r]]
             q == NewRequest("checking", target.row.command, target)
  <2>1. [screen EXCEPT !.run = Null] \in Screen
    BY DEF Typed, DialogTyped, Screen
  <2>2. target \in Copy /\ target.row.command \in CommandsOrNull
    BY DEF Typed, DialogTyped, Screen, Copy, Row
  <2>3. q \in Request
    <3> HIDE DEF target
    <3> QED
      BY <2>2, NewRequestType DEF Modes
  <2>4. q.answer = Null /\ q.mine
    BY DEF NewRequest
  <2>5. Perform([screen EXCEPT !.run = Null], q) /\ UNCHANGED <<server, decisions, excused>>
    BY <1>4 DEF reviewRun
  <2> HIDE DEF q
  <2> QED
    BY <2>1, <2>3, <2>4, <2>5, PerformKeeps
<1>5. ASSUME TryAgain
      PROVE  DialogStep /\ Handled' /\ Stoppable'
  <2> DEFINE q == NewRequest(ModeOf(screen.retry.decision), screen.retry.command, Null)
  <2>1. screen.retry.command \in CommandsOrNull /\ ModeOf(screen.retry.decision) \in Modes \ {"starting"}
    BY <1>5 DEF TryAgain, Typed, DialogTyped, Screen, Denied, ModeOf, Modes
  <2>2. q \in Request
    BY <2>1, NewRequestType
  <2>3. q.answer = Null /\ q.mine
    BY DEF NewRequest
  <2>4. Perform(screen, q) /\ UNCHANGED <<server, decisions, excused>>
    BY <1>5 DEF TryAgain
  <2> HIDE DEF q
  <2> QED
    BY <2>2, <2>3, <2>4, PerformKeeps DEF Typed, DialogTyped
<1>6. ASSUME ReloadHistory
      PROVE  DialogStep /\ Handled' /\ Stoppable'
  BY <1>6, NothingAsked DEF ReloadHistory
<1>7. ASSUME stop
      PROVE  DialogStep /\ Handled' /\ Stoppable'
  <2> DEFINE i == screen.controller
  <2>1. i \in DOMAIN requests /\ requests[i].mine
    BY <1>7 DEF stop, Stoppable
  <2>2. requests' = [requests EXCEPT ![i].aborted = TRUE]
    BY <1>7 DEF stop
  <2>3. /\ DOMAIN requests' = DOMAIN requests
        /\ \A j \in DOMAIN requests : j # i => requests'[j] = requests[j]
        /\ requests'[i].handled = requests[i].handled /\ requests'[i].answer = requests[i].answer
        /\ requests'[i].mine = requests[i].mine
    BY <2>1, <2>2 DEF Typed, RequestsTyped, Request
  <2>4. Excused(requests[i].command) \subseteq excused' /\ excused \subseteq excused'
    BY <1>7 DEF stop
  <2>5. Running /\ Asked /\ Handled' /\ Stoppable'
    <3>1. screen' = screen
      BY <1>7 DEF stop
    <3> HIDE DEF i
    <3> QED
      BY <2>1, <2>3, <2>4, <3>1 DEF Running, Asked, Handled, Stoppable, i
  <2> QED
    BY <1>7, <2>4, <2>5 DEF stop, DialogStep, Owed
<1>8. ASSUME NEW d \in {"approved", "rejected"}, decide(d)
      PROVE  DialogStep /\ Handled' /\ Stoppable'
  <2>1. decisions \subseteq decisions' /\ screen'.controller = screen.controller
    BY <1>8 DEF decide, Typed, DialogTyped, Screen
  <2> QED
    BY <1>8, <2>1 DEF decide, DialogStep, Running, Asked, Owed, Handled, Stoppable, server
<1> QED
  BY <1>1, <1>2, <1>3, <1>4, <1>5, <1>6, <1>7, <1>8 DEF User

\* The open dialog, and the loads, look at the server.
LEMMA ReadKeeps ==
  ASSUME Typed, Handled, Stoppable,
         CardAsks \/ CardLoads \/ \E l \in loads : LoadReads(l) \/ LoadArrives(l) \/ LoadFails(l)
  PROVE  DialogStep /\ Handled' /\ Stoppable'
<1>1. UNCHANGED <<server, requests, decisions, excused>>
  BY DEF CardAsks, CardLoads, LoadReads, LoadArrives, LoadFails
<1>2. screen'.controller = screen.controller
  <2>1. CASE screen' = screen
    BY <2>1
  <2>2. ASSUME NEW l \in loads, LoadArrives(l) \/ LoadFails(l)
        PROVE  screen'.controller = screen.controller
    BY <2>2 DEF LoadArrives, LoadFails, Typed, DialogTyped, Screen
  <2> QED
    BY <2>1, <2>2 DEF CardAsks, CardLoads, LoadReads
<1> QED
  BY <1>1, <1>2, NothingAsked

\* A request is over for the dialog. If it was on its way it was stopped or is excused.
LEMMA DoneKeeps ==
  ASSUME Typed, Handled, Stoppable, NEW i \in DOMAIN requests, requests' = Done(i),
         screen'.controller \in {Null, screen.controller}, screen'.controller # i \/ screen'.controller = Null,
         UNCHANGED server, excused \subseteq excused',
         \/ requests[i].handled \/ requests[i].aborted
         \/ Excused(requests[i].command) \subseteq excused'
  PROVE  Running /\ Asked /\ Handled' /\ Stoppable'
<1>1. /\ \A j \in DOMAIN requests : j # i => j \in DOMAIN requests' /\ requests'[j] = requests[j]
      /\ DOMAIN requests' \subseteq DOMAIN requests
      /\ requests[i].answer # Null => i \notin DOMAIN requests'
      /\ requests[i].answer = Null => /\ i \in DOMAIN requests'
                                      /\ requests'[i] = Unawaited(requests[i], TRUE)
  BY DoneType DEF Typed
<1>2. /\ Unawaited(requests[i], TRUE).handled = requests[i].handled
      /\ Unawaited(requests[i], TRUE).answer = requests[i].answer
  BY UnawaitedType DEF Typed, RequestsTyped
<1>3. Running
  BY <1>1, <1>2 DEF Running
<1>4. Asked
  BY <1>1 DEF Asked
<1>5. Handled'
  BY <1>1, <1>2 DEF Handled
<1>6. Stoppable'
  BY <1>1 DEF Stoppable
<1> QED
  BY <1>3, <1>4, <1>5, <1>6

\* The dialog continues after an answer.
LEMMA ContinueKeeps ==
  ASSUME Typed, Handled, Stoppable, NEW i \in DOMAIN requests,
         NEW answer \in RunAnswer \cup {Refusal("stopped")}, Continue(i, answer),
         UNCHANGED <<server, decisions>>, excused \subseteq excused',
         \/ requests[i].handled \/ requests[i].aborted
         \/ Excused(requests[i].command) \subseteq excused'
  PROVE  DialogStep /\ Handled' /\ Stoppable'
<1>1. requests' = Done(i) /\ screen' = ContinuedScreen(i, answer)
  BY ContinueIs DEF Render
<1>2. screen'.controller \in {Null, screen.controller} /\ (screen'.controller # i \/ screen'.controller = Null)
  BY <1>1, ContinuedType DEF Typed, DialogTyped
<1>3. Running /\ Asked /\ Handled' /\ Stoppable'
  BY <1>1, <1>2, DoneKeeps DEF server
<1> QED
  BY <1>3 DEF DialogStep, Owed

\* A decision that is over, whose run has to be told, is told, or its command is excused.
LEMMA OwedIs ==
  ASSUME NEW d \in decisions, decisions' = decisions \ {d}, d.answer = Refusal("none") =>
           ByRequest(d.command)' \/ Excused(d.command) \subseteq excused'
  PROVE  Owed
BY DEF Owed

\* The run is told.
LEMMA TellKeeps ==
  ASSUME Typed, CardFits, Handled, Stoppable, NEW d \in Decision, Tell(d), UNCHANGED server,
         excused \subseteq excused'
  PROVE  Running /\ Asked /\ Handled' /\ Stoppable' /\ ByRequest(d.command)'
<1>1. PICK id \in Ids \ DOMAIN requests, q \in Request :
        /\ requests' = And(requests, id, q)
        /\ q.command = d.command /\ ~q.handled /\ ~q.aborted /\ q.answer = Null
        /\ UNCHANGED screen \/ (screen'.controller = id /\ q.mine)
  BY TellIs
<1>2. Running /\ Asked /\ Handled' /\ Stoppable'
  BY <1>1, OneMore
<1>3. id \in DOMAIN requests' /\ requests'[id] = q
  BY <1>1 DEF And
<1> QED
  BY <1>1, <1>2, <1>3 DEF ByRequest

\* A decision that did not come through leaves the requests alone.
LEMMA UndecideKeeps ==
  ASSUME Typed, CardFits, Handled, Stoppable, NEW d \in decisions, Undecide(d), UNCHANGED <<server, requests>>,
         excused \subseteq excused'
  PROVE  Running /\ Asked /\ Handled' /\ Stoppable'
<1>1. screen'.controller = screen.controller
  BY UndecideType
<1> QED
  BY <1>1 DEF Running, Asked, Handled, Stoppable

LEMMA AnswersKeep ==
  ASSUME Typed, CardFits, Handled, Stoppable,
         \/ \E i \in Ids : Answered(i) \/ Stopped(i) \/ Lose(i) \/ NeverArrives(i)
         \/ \E d \in decisions : DecisionAnswered(d) \/ LoseDecision(d)
  PROVE  DialogStep /\ Handled' /\ Stoppable'
<1>1. ASSUME NEW i \in Ids, Answered(i)
      PROVE  DialogStep /\ Handled' /\ Stoppable'
  <2>1. i \in DOMAIN requests /\ requests[i].answer \in RunAnswer /\ requests[i].handled
    BY <1>1 DEF Answered, Handled, Typed, RequestsTyped, Request
  <2> QED
    BY <1>1, <2>1, ContinueKeeps DEF Answered
<1>2. ASSUME NEW i \in Ids, Stopped(i)
      PROVE  DialogStep /\ Handled' /\ Stoppable'
  BY <1>2, ContinueKeeps DEF Stopped
<1>3. ASSUME NEW i \in Ids, Lose(i)
      PROVE  DialogStep /\ Handled' /\ Stoppable'
  <2>1. i \in DOMAIN requests /\ UNCHANGED <<server, decisions>>
        /\ excused \subseteq excused' /\ Excused(requests[i].command) \subseteq excused'
    BY <1>3 DEF Lose
  <2>2. CASE requests[i].mine
    <3>1. Continue(i, Refusal("error"))
      BY <1>3, <2>2 DEF Lose
    <3> QED
      BY <2>1, <3>1, ContinueKeeps, AnswerTypes
  <2>3. CASE ~requests[i].mine
    <3>1. requests' = [requests EXCEPT ![i].aborted = TRUE] /\ screen' = screen
      BY <1>3, <2>3 DEF Lose
    <3>2. /\ DOMAIN requests' = DOMAIN requests
          /\ \A j \in DOMAIN requests : j # i => requests'[j] = requests[j]
          /\ requests'[i].handled = requests[i].handled /\ requests'[i].answer = requests[i].answer
          /\ requests'[i].mine = requests[i].mine
      BY <2>1, <3>1 DEF Typed, RequestsTyped, Request
    <3> QED
      BY <2>1, <3>1, <3>2 DEF DialogStep, Running, Asked, Owed, Handled, Stoppable
  <2> QED
    BY <2>2, <2>3
<1>4. ASSUME NEW i \in Ids, NeverArrives(i)
      PROVE  DialogStep /\ Handled' /\ Stoppable'
  <2>1. requests' = Restrict(requests, DOMAIN requests \ {i}) /\ UNCHANGED <<server, screen, decisions, excused>>
    BY <1>4 DEF NeverArrives
  <2>2. /\ DOMAIN requests' = DOMAIN requests \ {i}
        /\ \A j \in DOMAIN requests' : requests'[j] = requests[j]
    BY <2>1, RestrictIs
  <2>3. ~requests[i].mine /\ requests[i].aborted /\ ~requests[i].handled
    BY <1>4 DEF NeverArrives
  <2> QED
    BY <2>1, <2>2, <2>3 DEF DialogStep, Running, Asked, Owed, Handled, Stoppable
<1>5. ASSUME NEW d \in decisions, DecisionAnswered(d)
      PROVE  DialogStep /\ Handled' /\ Stoppable'
  <2>1. d \in Decision /\ d.answer \in DecisionAnswer
    BY <1>5 DEF DecisionAnswered, Typed, DialogTyped, Decision
  <2>2. UNCHANGED <<server, excused>> /\ decisions' = decisions \ {d}
    BY <1>5 DEF DecisionAnswered
  <2>3. CASE d.answer.kind = "error"
    <3>1. Undecide(d) /\ UNCHANGED <<server, requests>>
      BY <1>5, <2>3 DEF DecisionAnswered
    <3>2. d.answer # Refusal("none")
      BY <2>3 DEF Refusal
    <3> QED
      BY <2>2, <3>1, <3>2, UndecideKeeps, OwedIs DEF DialogStep
  <2>4. CASE d.answer.kind = "run"
    <3>1. Render(showRun(screen, d.answer.run)) /\ UNCHANGED requests
      BY <1>5, <2>4 DEF DecisionAnswered
    <3>2. screen'.controller = screen.controller
      BY <3>1 DEF Render, showRun, Typed, DialogTyped, Screen
    <3>3. d.answer # Refusal("none")
      BY <2>4 DEF Refusal
    <3>4. Running /\ Asked /\ Handled' /\ Stoppable'
      BY <2>2, <3>1, <3>2 DEF Running, Asked, Handled, Stoppable
    <3> QED
      BY <2>2, <3>3, <3>4, OwedIs DEF DialogStep
  <2>5. CASE d.answer.kind = "none"
    <3>1. Tell(d)
      BY <1>5, <2>5 DEF DecisionAnswered
    <3>2. Running /\ Asked /\ Handled' /\ Stoppable' /\ ByRequest(d.command)'
      BY <2>1, <2>2, <3>1, TellKeeps
    <3> QED
      BY <2>2, <3>2, OwedIs DEF DialogStep
  <2>6. d.answer.kind \in {"error", "run", "none"}
    BY <2>1 DEF DecisionAnswer
  <2> QED
    BY <2>3, <2>4, <2>5, <2>6
<1>6. ASSUME NEW d \in decisions, LoseDecision(d)
      PROVE  DialogStep /\ Handled' /\ Stoppable'
  <2>1. d \in Decision
    BY DEF Typed, DialogTyped
  <2>2. /\ UNCHANGED server /\ decisions' = decisions \ {d}
        /\ excused \subseteq excused' /\ Excused(d.command) \subseteq excused'
    BY <1>6 DEF LoseDecision
  <2>3. Running /\ Asked /\ Handled' /\ Stoppable'
    <3>1. CASE Undecide(d) /\ UNCHANGED requests
      BY <2>2, <3>1, UndecideKeeps
    <3>2. CASE Tell(d)
      BY <2>1, <2>2, <3>2, TellKeeps
    <3> QED
      BY <1>6, <3>1, <3>2 DEF LoseDecision
  <2> QED
    BY <2>2, <2>3, OwedIs DEF DialogStep
<1> QED
  BY <1>1, <1>2, <1>3, <1>4, <1>5, <1>6

-----------------------------------------------------------------------------
(* What a step of the server leaves true. *)

\* What one answer does.
LEMMA AnswerIs ==
  ASSUME Typed, NEW i \in DOMAIN requests, NEW a \in RunAnswer, Answer(i, a)
  PROVE  /\ \A j \in DOMAIN requests : j # i => j \in DOMAIN requests' /\ requests'[j] = requests[j]
         /\ DOMAIN requests' \subseteq DOMAIN requests
         /\ requests[i].mine => i \in DOMAIN requests'
         /\ i \in DOMAIN requests' => /\ requests'[i].handled /\ requests'[i].answer = a
                                      /\ requests'[i].target = requests[i].target
                                      /\ requests'[i].mine = requests[i].mine
<1>1. CASE requests[i].mine
  <2>1. requests' = [requests EXCEPT ![i].handled = TRUE, ![i].answer = a]
    BY <1>1 DEF Answer
  <2> QED
    BY <2>1 DEF Typed, RequestsTyped, Request
<1>2. CASE ~requests[i].mine
  <2>1. requests' = Restrict(requests, DOMAIN requests \ {i})
    BY <1>2 DEF Answer
  <2>2. DOMAIN requests' = DOMAIN requests \ {i}
        /\ \A j \in DOMAIN requests \ {i} : requests'[j] = requests[j]
    BY <2>1, RestrictIs
  <2> QED
    BY <1>2, <2>2
<1> QED
  BY <1>1, <1>2

\* All requests but i are as they were. i was handled if it is still there.
ButFor(i) ==
  /\ \A j \in DOMAIN requests : j # i => j \in DOMAIN requests' /\ requests'[j] = requests[j]
  /\ DOMAIN requests' \subseteq DOMAIN requests
  /\ i \in DOMAIN requests /\ requests[i].mine => i \in DOMAIN requests' /\ requests'[i].mine
  /\ i \in DOMAIN requests' => requests'[i].handled

LEMMA ButForKeeps ==
  ASSUME Handled, Stoppable, NEW i, ButFor(i), UNCHANGED screen
  PROVE  Handled' /\ Stoppable'
BY DEF ButFor, Handled, Stoppable

\* What c was told by stays, unless it was request i.
LEMMA ToldStays ==
  ASSUME NEW c, Told(c), NEW i, ButFor(i),
         i \in DOMAIN requests => requests[i].command # c \/ requests[i].handled,
         \A d \in decisions : d.answer = Refusal("none") => d \in decisions'
  PROVE  Told(c)'
<1>1. CASE ByDecision(c)
  <2>1. ByDecision(c)'
    BY <1>1 DEF ByDecision
  <2> QED
    BY <2>1 DEF Told
<1>2. CASE ByRequest(c)
  <2>1. PICK j \in DOMAIN requests :
          requests[j].command = c /\ ~requests[j].handled /\ ~requests[j].aborted
    BY <1>2 DEF ByRequest
  <2>2. j # i
    BY <2>1
  <2>3. j \in DOMAIN requests' /\ requests'[j] = requests[j]
    BY <2>2 DEF ButFor
  <2>4. ByRequest(c)'
    BY <2>1, <2>3 DEF ByRequest
  <2> QED
    BY <2>4 DEF Told
<1> QED
  BY <1>1, <1>2 DEF Told

\* A command that waits to be carried on is told of.
LEMMA IsTold ==
  ASSUME Carried, NEW r \in Runs, NEW c, c = rows[r].command, c # Null, c \notin excused,
         commands[c] = "approved"
  PROVE  Told(c)
BY DEF Carried, CarriedOn

\* Work that is under way stays so if its requests do.
LEMMA WorkStays ==
  ASSUME ServerFits, NEW r \in DOMAIN active, NEW i, ButFor(i), active[r] # i,
         \A q \in DOMAIN active' \ DOMAIN active : active'[q] \in {i, Null},
         \A q \in DOMAIN active' \cap DOMAIN active : active'[q] = active[q], r \in DOMAIN active'
  PROVE  WorkFits(r)'
<1>1. WorkFits(r) /\ active'[r] = active[r]
  BY DEF ServerFits
<1>2. CASE active[r] = Null
  BY <1>1, <1>2 DEF WorkFits
<1>3. CASE active[r] # Null
  <2>1. /\ active[r] \in DOMAIN requests' /\ requests'[active[r]] = requests[active[r]]
        /\ requests[active[r]].handled /\ requests[active[r]].answer = Null
        /\ \A q \in DOMAIN active : active[q] = active[r] => q = r
    BY <1>1, <1>3 DEF WorkFits, ButFor
  <2>2. \A q \in DOMAIN active' : active'[q] = active'[r] => q = r
    BY <1>1, <1>3, <2>1
  <2> QED
    BY <1>1, <2>1, <2>2 DEF WorkFits
<1> QED
  BY <1>2, <1>3

\* A command belongs to one run.
LEMMA OneRun ==
  ASSUME ServerFits, NEW r \in Runs, NEW q \in Runs, rows[r].command = rows[q].command, rows[r].command # Null
  PROVE  r = q
BY DEF ServerFits, RowFits

LEMMA StartKeeps ==
  ASSUME Typed, ServerFits, Handled, Stoppable, Carried, NEW i \in Ids, startRun(i)
  PROVE  ServerFits' /\ Handled' /\ Stoppable' /\ Carried'
<1>1. PICK r \in Runs : rows[r] = NoRow /\ rows' = Write(r, "ended", Null) /\ Works(i, r)
  BY DEF startRun
<1>2. i \in DOMAIN requests /\ ~requests[i].handled /\ requests[i].answer = Null
      /\ requests[i].mode = "starting" /\ UNCHANGED <<commands, screen, decisions, excused>>
  BY DEF startRun, Starts, Handled
<1>3. requests[i].command = Null /\ i # Null
  BY <1>2, RunDialogAssumption DEF Typed, RequestsTyped, Request
<1>4. /\ DOMAIN requests' = DOMAIN requests
      /\ \A j \in DOMAIN requests : j # i => requests'[j] = requests[j]
      /\ requests'[i].handled /\ requests'[i].answer = Null
      /\ requests'[i].mine = requests[i].mine
  BY <1>1, <1>2, WorksType
<1>5. ButFor(i)
  BY <1>4 DEF ButFor
<1>6. /\ r \notin DOMAIN active
      /\ \A q \in DOMAIN active : active[q] # i
  BY <1>1, <1>2, <1>3 DEF NoRow, ServerFits, RowFits, WorkFits, Typed, ServerTyped
<1>7. /\ DOMAIN active' = DOMAIN active \cup {r} /\ active'[r] = i
      /\ \A q \in DOMAIN active : active'[q] = active[q]
  <2>1. active' = And(active, r, i)
    BY <1>1 DEF Works
  <2> QED
    BY <1>6, <2>1 DEF And
<1>8. /\ rows'[r] = [status |-> "ended", command |-> Null, writes |-> rows[r].writes + 1]
      /\ \A q \in Runs : q # r => rows'[q] = rows[q]
  BY <1>1, WriteIs DEF Typed, ServerTyped, Statuses, CommandsOrNull
<1>9. ASSUME NEW q \in Runs
      PROVE  RowFits(q)'
  <2>1. CASE q = r
    BY <1>8, <2>1 DEF RowFits
  <2>2. CASE q # r
    BY <1>2, <1>7, <1>8, <2>2 DEF RowFits, ServerFits
  <2> QED
    BY <2>1, <2>2
<1>10. ASSUME NEW q \in DOMAIN active'
       PROVE  WorkFits(q)'
  <2>1. CASE q = r
    BY <1>2, <1>4, <1>6, <1>7, <2>1 DEF WorkFits
  <2>2. CASE q # r
    BY <1>3, <1>5, <1>6, <1>7, <2>2, WorkStays
  <2> QED
    BY <2>1, <2>2
<1>11. ASSUME NEW q \in Runs
       PROVE  CarriedOn(q)'
  <2> SUFFICES ASSUME NEW c, c = rows'[q].command, c # Null, c \notin excused', commands'[c] = "approved"
               PROVE  Told(c)'
    BY DEF CarriedOn
  <2>1. q # r /\ c = rows[q].command
    BY <1>8
  <2>2. Told(c)
    BY <1>2, <2>1, IsTold
  <2> QED
    BY <1>2, <1>3, <1>5, <2>2, ToldStays
<1> QED
  BY <1>2, <1>5, <1>9, <1>10, <1>11, ButForKeeps DEF ServerFits, Carried

\* A run that is told of its command.
LEMMA ResumeKeeps ==
  ASSUME Typed, ServerFits, Handled, Stoppable, Carried, NEW i \in Ids, resumeRun(i)
  PROVE  ServerFits' /\ Handled' /\ Stoppable' /\ Carried'
<1> DEFINE c == requests[i].command
<1>1. /\ i \in DOMAIN requests /\ ~requests[i].handled /\ requests[i].answer = Null /\ i # Null
      /\ UNCHANGED <<screen, decisions>>
  BY RunDialogAssumption DEF resumeRun, Handled
<1>2. excused' = excused \ {x \in Commands : commands'[x] = "executed"}
  BY DEF resumeRun
<1>3. \A q \in DOMAIN active : active[q] # i
  BY <1>1 DEF ServerFits, WorkFits
<1>4. \A q \in Runs : rows[q].command # Null => rows[q].command \in Commands
  BY DEF Typed, ServerTyped, Row, CommandsOrNull
\* Every run that is to be carried on afterwards was so before, by another command than c.
<1>5. ASSUME ButFor(i),
             \A q \in Runs : rows'[q].command # Null /\ commands'[rows'[q].command] = "approved" =>
               /\ rows'[q].command = rows[q].command /\ commands[rows[q].command] = "approved"
               /\ rows[q].command # c
      PROVE  Handled' /\ Stoppable' /\ Carried'
  <2>1. ASSUME NEW q \in Runs
        PROVE  CarriedOn(q)'
    <3> SUFFICES ASSUME NEW x, x = rows'[q].command, x # Null, x \notin excused', commands'[x] = "approved"
                 PROVE  Told(x)'
      BY DEF CarriedOn
    <3>1. x = rows[q].command /\ commands[x] = "approved" /\ x # c
      BY <1>5
    <3>2. x \notin excused
      BY <1>2
    <3>3. Told(x)
      BY <3>1, <3>2, IsTold
    <3> QED
      BY <1>1, <1>5, <3>1, <3>3, ToldStays
  <2> QED
    BY <1>1, <1>5, <2>1, ButForKeeps DEF Carried
<1>6. ASSUME NEW a \in RunAnswer, Answer(i, a)
      PROVE  ButFor(i)
  BY <1>1, <1>6, AnswerIs DEF ButFor
\* Only an error or a run that is closed is answered at once.
<1>7. ASSUME NEW a \in RunAnswer, Answer(i, a), UNCHANGED server,
             \A q \in Runs : rows[q].command # Null /\ commands[rows[q].command] = "approved" =>
               rows[q].command # c
      PROVE  ServerFits' /\ Handled' /\ Stoppable' /\ Carried'
  <2>1. ButFor(i)
    BY <1>6, <1>7
  <2>2. Handled' /\ Stoppable' /\ Carried'
    BY <1>5, <1>7, <2>1 DEF server
  <2>3. ASSUME NEW q \in DOMAIN active'
        PROVE  WorkFits(q)'
    BY <1>3, <1>7, <2>1, WorkStays DEF server
  <2>4. ASSUME NEW q \in Runs
        PROVE  RowFits(q)'
    BY <1>7 DEF server, ServerFits, RowFits
  <2> QED
    BY <2>2, <2>3, <2>4 DEF ServerFits
<1>8. CASE Waits(c) \subseteq DOMAIN active /\ Answer(i, Refusal("error")) /\ UNCHANGED server
  <2>1. ASSUME NEW q \in Runs, rows[q].command = c, c # Null
        PROVE  commands[c] = "executed"
    <3>1. RowFits(q)
      BY DEF ServerFits
    <3>2. q \in Waits(c)
      BY <2>1, <3>1 DEF RowFits, Waits
    <3> QED
      BY <1>8, <2>1, <3>1, <3>2 DEF RowFits
  <2> HIDE DEF c
  <2> QED
    BY <1>7, <1>8, <2>1, AnswerTypes
<1>9. ASSUME NEW r \in Waits(c) \ DOMAIN active,
             CASE commands[c] = "pending" -> Answer(i, Refusal("undecided")) /\ UNCHANGED server
               [] commands[c] \in {"rejected", "executed"} -> Closes(i, r)
               [] commands[c] = "approved" ->
                    /\ Works(i, r)
                    /\ commands' = [commands EXCEPT ![c] = "executed"]
                    /\ UNCHANGED rows
      PROVE  ServerFits' /\ Handled' /\ Stoppable' /\ Carried'
  <2>1. r \in Runs /\ rows[r].command = c /\ rows[r].status = "awaiting_approval"
    BY DEF Waits
  <2>2. c \in Commands /\ commands[c] \in CommandStates \ {"none"} /\ c # Null
    <3>1. c # Null /\ commands[c] # "none"
      BY <2>1 DEF ServerFits, RowFits
    <3> QED
      BY <1>4, <2>1, <3>1 DEF Typed, ServerTyped
  <2> HIDE DEF c
  <2>3. CASE commands[c] = "pending"
    <3>1. Answer(i, Refusal("undecided")) /\ UNCHANGED server
      BY <1>9, <2>3
    <3> QED
      BY <1>7, <2>3, <3>1, AnswerTypes
  <2>4. CASE commands[c] \in {"rejected", "executed"}
    <3>1. Closes(i, r)
      BY <1>9, <2>4
    <3>2. /\ rows'[r] = [status |-> "ended", command |-> Null, writes |-> rows[r].writes + 1]
          /\ \A q \in Runs : q # r => rows'[q] = rows[q]
          /\ rows' \in [Runs -> Row]
      BY <2>1, <3>1, WriteIs DEF Closes, Typed, ServerTyped, Statuses, CommandsOrNull
    <3>3. RunIs(CopyOf(r, rows')) \in RunAnswer /\ Answer(i, RunIs(CopyOf(r, rows')))
      BY <2>1, <3>1, <3>2, CopyType, AnswerTypes DEF Closes
    <3>4. ButFor(i)
      BY <1>6, <3>3
    <3>5. UNCHANGED <<commands, active>>
      BY <3>1 DEF Closes
    <3>6. Handled' /\ Stoppable' /\ Carried'
      <4>1. ASSUME NEW q \in Runs, rows'[q].command # Null, commands'[rows'[q].command] = "approved"
            PROVE  /\ rows'[q].command = rows[q].command /\ commands[rows[q].command] = "approved"
                   /\ rows[q].command # c
        BY <2>4, <3>2, <3>5, <4>1
      <4> QED
        BY <1>5, <3>4, <4>1
    <3>7. ASSUME NEW q \in Runs
          PROVE  RowFits(q)'
      BY <2>1, <3>2, <3>5 DEF ServerFits, RowFits
    <3>8. ASSUME NEW q \in DOMAIN active'
          PROVE  WorkFits(q)'
      BY <1>3, <3>4, <3>5, WorkStays
    <3> QED
      BY <3>6, <3>7, <3>8 DEF ServerFits
  <2>5. CASE commands[c] = "approved"
    <3>1. Works(i, r) /\ commands' = [commands EXCEPT ![c] = "executed"] /\ UNCHANGED rows
      BY <1>9, <2>5
    <3>2. /\ DOMAIN requests' = DOMAIN requests
          /\ \A j \in DOMAIN requests : j # i => requests'[j] = requests[j]
          /\ requests'[i].handled /\ requests'[i].answer = Null
          /\ requests'[i].mine = requests[i].mine
      BY <1>1, <2>1, <3>1, WorksType
    <3>3. ButFor(i)
      BY <3>2 DEF ButFor
    <3>4. /\ DOMAIN active' = DOMAIN active \cup {r} /\ active'[r] = i
          /\ \A q \in DOMAIN active : active'[q] = active[q]
      <4>1. active' = And(active, r, i)
        BY <3>1 DEF Works
      <4> QED
        BY <1>9, <4>1 DEF And
    <3>5. commands'[c] = "executed" /\ \A x \in Commands : x # c => commands'[x] = commands[x]
      BY <2>2, <3>1 DEF Typed, ServerTyped
    <3>6. Handled' /\ Stoppable' /\ Carried'
      <4>1. ASSUME NEW q \in Runs, rows'[q].command # Null, commands'[rows'[q].command] = "approved"
            PROVE  /\ rows'[q].command = rows[q].command /\ commands[rows[q].command] = "approved"
                   /\ rows[q].command # c
        BY <1>4, <3>1, <3>5, <4>1
      <4> QED
        BY <1>5, <3>3, <4>1
    <3>7. ASSUME NEW q \in Runs
          PROVE  RowFits(q)'
      <4>1. CASE q = r
        BY <2>1, <2>2, <3>1, <3>4, <3>5, <4>1 DEF ServerFits, RowFits
      <4>2. CASE q # r
        <5>1. rows[q].command # c
          BY <2>1, <2>2, <4>2, OneRun
        <5> QED
          BY <1>4, <3>1, <3>4, <3>5, <4>2, <5>1 DEF ServerFits, RowFits
      <4> QED
        BY <4>1, <4>2
    <3>8. ASSUME NEW q \in DOMAIN active'
          PROVE  WorkFits(q)'
      <4>1. CASE q = r
        BY <1>1, <1>3, <3>2, <3>4, <4>1 DEF WorkFits
      <4>2. CASE q # r
        BY <1>3, <3>3, <3>4, <4>2, WorkStays
      <4> QED
        BY <4>1, <4>2
    <3> QED
      BY <3>6, <3>7, <3>8 DEF ServerFits
  <2> QED
    BY <2>2, <2>3, <2>4, <2>5 DEF CommandStates
<1> QED
  BY <1>8, <1>9 DEF resumeRun

\* Commands other than c and runs that wait for others are left alone.
LEMMA OthersStay ==
  ASSUME ServerFits, NEW r \in Runs, rows'[r] = rows[r], r \in DOMAIN active' => r \in DOMAIN active,
         rows[r].command # Null => commands'[rows[r].command] = commands[rows[r].command]
  PROVE  RowFits(r)'
BY DEF ServerFits, RowFits

\* A run that is ended, and one that waits for a command.
LEMMA EndedIs ==
  ASSUME Typed, NEW r \in Runs
  PROVE  /\ Write(r, "ended", Null) \in [Runs -> Row]
         /\ Write(r, "ended", Null)[r].status = "ended" /\ Write(r, "ended", Null)[r].command = Null
         /\ \A q \in Runs : q # r => Write(r, "ended", Null)[q] = rows[q]
<1>1. "ended" \in Statuses /\ Null \in CommandsOrNull
  BY DEF Statuses, CommandsOrNull
<1> QED
  BY <1>1 DEF Write, Row, Typed, ServerTyped

LEMMA WaitsIs ==
  ASSUME Typed, NEW r \in Runs, NEW c \in Commands
  PROVE  LET w == Write(r, "awaiting_approval", c)
         IN  /\ w \in [Runs -> Row]
             /\ w[r].status = "awaiting_approval" /\ w[r].command = c
             /\ \A q \in Runs : q # r => w[q] = rows[q]
<1>1. "awaiting_approval" \in Statuses /\ c \in CommandsOrNull
  BY DEF Statuses, CommandsOrNull
<1> QED
  BY <1>1 DEF Write, Row, Typed, ServerTyped

LEMMA EndKeeps ==
  ASSUME Typed, ServerFits, Handled, Stoppable, Carried, NEW r \in Runs, WorkEnds(r)
  PROVE  ServerFits' /\ Handled' /\ Stoppable' /\ Carried'
<1>1. r \in DOMAIN active /\ UNCHANGED <<screen, decisions, excused>>
  BY DEF WorkEnds
<1>2. DOMAIN active' = DOMAIN active \ {r} /\ \A q \in DOMAIN active' : active'[q] = active[q]
  BY RestrictIs DEF WorkEnds
<1>3. /\ rows' \in [Runs -> Row]
      /\ \A q \in Runs : q # r => rows'[q] = rows[q]
      /\ \/ rows'[r].status = "ended" /\ rows'[r].command = Null
         \/ /\ rows'[r].status = "awaiting_approval" /\ rows'[r].command \in Commands
            /\ rows'[r].command[1] = r /\ commands'[rows'[r].command] = "pending"
      /\ \A x \in Commands : x[1] # r => commands'[x] = commands[x]
  <2>1. CASE rows' = Write(r, "ended", Null) /\ UNCHANGED commands
    BY <2>1, EndedIs
  <2>2. ASSUME NEW n \in 1 .. MaxCommands[r],
               commands' = [commands EXCEPT ![<<r, n>>] = "pending"],
               rows' = Write(r, "awaiting_approval", <<r, n>>)
        PROVE  /\ rows' \in [Runs -> Row]
               /\ \A q \in Runs : q # r => rows'[q] = rows[q]
               /\ rows'[r].status = "awaiting_approval" /\ rows'[r].command \in Commands
               /\ rows'[r].command[1] = r /\ commands'[rows'[r].command] = "pending"
               /\ \A x \in Commands : x[1] # r => commands'[x] = commands[x]
    <3>1. <<r, n>> \in Commands
      BY IsCommand
    <3>2. /\ rows' \in [Runs -> Row]
          /\ \A q \in Runs : q # r => rows'[q] = rows[q]
          /\ rows'[r].status = "awaiting_approval" /\ rows'[r].command = <<r, n>>
      BY <2>2, <3>1, WaitsIs
    <3>3. commands'[<<r, n>>] = "pending" /\ \A x \in Commands : x # <<r, n>> => commands'[x] = commands[x]
      BY <2>2, <3>1 DEF Typed, ServerTyped
    <3> QED
      BY <3>1, <3>2, <3>3
  <2> QED
    BY <2>1, <2>2 DEF WorkEnds
<1>4. \A q \in Runs : rows[q].command # Null => rows[q].command \in Commands /\ rows[q].command[1] = q
  BY DEF Typed, ServerTyped, Row, CommandsOrNull, ServerFits, RowFits
\* The answer goes to the request that waited for r, and to no other.
<1>5. /\ ButFor(active[r])
      /\ active[r] # Null => active[r] \in DOMAIN requests /\ requests[active[r]].handled
  <2>1. CASE active[r] = Null
    <3>1. UNCHANGED requests
      BY <2>1 DEF WorkEnds
    <3>2. Null \notin DOMAIN requests
      BY RunDialogAssumption DEF Typed, RequestsTyped
    <3> QED
      BY <2>1, <3>1, <3>2 DEF ButFor
  <2>2. CASE active[r] # Null
    <3>1. active[r] \in DOMAIN requests /\ requests[active[r]].handled
      BY <1>1, <2>2 DEF ServerFits, WorkFits
    <3>2. RunIs(CopyOf(r, rows')) \in RunAnswer /\ Answer(active[r], RunIs(CopyOf(r, rows')))
      BY <1>3, <2>2, CopyType, AnswerTypes DEF WorkEnds
    <3> QED
      BY <3>1, <3>2, AnswerIs DEF ButFor
  <2> QED
    BY <2>1, <2>2
<1>6. ASSUME NEW q \in Runs
      PROVE  RowFits(q)'
  <2>1. CASE q = r
    BY <1>2, <1>3, <2>1, NoCommand DEF RowFits
  <2>2. CASE q # r
    BY <1>2, <1>3, <1>4, <2>2, OthersStay
  <2> QED
    BY <2>1, <2>2
<1>7. ASSUME NEW q \in DOMAIN active'
      PROVE  WorkFits(q)'
  <2>1. CASE active[q] = Null
    BY <1>2, <2>1 DEF WorkFits
  <2>2. CASE active[q] # Null
    <3>1. active[q] # active[r]
      BY <1>1, <1>2, <2>2 DEF ServerFits, WorkFits
    <3> QED
      BY <1>2, <1>5, <3>1, WorkStays
  <2> QED
    BY <2>1, <2>2
<1>8. ASSUME NEW q \in Runs
      PROVE  CarriedOn(q)'
  <2> SUFFICES ASSUME NEW c, c = rows'[q].command, c # Null, c \notin excused', commands'[c] = "approved"
               PROVE  Told(c)'
    BY DEF CarriedOn
  <2>1. q # r
    BY <1>3
  <2>2. c = rows[q].command /\ commands[c] = "approved"
    BY <1>3, <1>4, <2>1
  <2>3. Told(c)
    BY <1>1, <2>2, IsTold
  <2>4. active[r] \in DOMAIN requests => requests[active[r]].handled
    BY <1>5, RunDialogAssumption DEF Typed, RequestsTyped
  <2> QED
    BY <1>1, <1>5, <2>3, <2>4, ToldStays
<1> QED
  BY <1>1, <1>5, <1>6, <1>7, <1>8, ButForKeeps DEF ServerFits, Carried

LEMMA RestartKeeps ==
  ASSUME Typed, ServerFits, Handled, Stoppable, Carried, Restart
  PROVE  ServerFits' /\ Handled' /\ Stoppable' /\ Carried'
<1>1. UNCHANGED <<rows, commands, screen, decisions, excused>> /\ DOMAIN active' = {}
  BY DEF Restart
<1>2. /\ DOMAIN requests' = {i \in DOMAIN requests : requests[i].mine \/ ~requests[i].handled}
      /\ \A i \in DOMAIN requests' :
           requests'[i] = IF requests[i].handled /\ requests[i].answer = Null
                          THEN [requests[i] EXCEPT !.answer = Refusal("error")] ELSE requests[i]
  BY DEF Restart
<1>3. ASSUME NEW i \in DOMAIN requests'
      PROVE  /\ requests'[i].handled = requests[i].handled /\ requests'[i].mine = requests[i].mine
             /\ ~requests[i].handled => requests'[i] = requests[i]
             /\ requests'[i].answer # Null => requests[i].handled
  <2>1. requests[i] \in Request
    BY <1>2 DEF Typed, RequestsTyped
  <2>2. CASE requests[i].handled /\ requests[i].answer = Null
    BY <1>2, <2>1, <2>2 DEF Request
  <2>3. CASE ~(requests[i].handled /\ requests[i].answer = Null)
    BY <1>2, <2>3 DEF Handled
  <2> QED
    BY <2>2, <2>3
<1>4. Handled' /\ Stoppable'
  BY <1>1, <1>2, <1>3 DEF Handled, Stoppable
<1>5. ServerFits'
  <2>1. ASSUME NEW q \in Runs
        PROVE  RowFits(q)'
    BY <1>1, OthersStay
  <2> QED
    BY <1>1, <2>1 DEF ServerFits
<1>6. ASSUME NEW q \in Runs
      PROVE  CarriedOn(q)'
  <2> SUFFICES ASSUME NEW c, c = rows[q].command, c # Null, c \notin excused, commands[c] = "approved"
               PROVE  Told(c)'
    BY <1>1 DEF CarriedOn
  <2>1. Told(c)
    BY IsTold
  <2>2. CASE ByDecision(c)
    BY <1>1, <2>2 DEF ByDecision, Told
  <2>3. CASE ByRequest(c)
    <3>1. PICK i \in DOMAIN requests :
            requests[i].command = c /\ ~requests[i].handled /\ ~requests[i].aborted
      BY <2>3 DEF ByRequest
    <3>2. i \in DOMAIN requests' /\ requests'[i] = requests[i]
      BY <1>2, <1>3, <3>1
    <3>3. ByRequest(c)'
      BY <3>1, <3>2 DEF ByRequest
    <3> QED
      BY <3>3 DEF Told
  <2> QED
    BY <2>1, <2>2, <2>3 DEF Told
<1> QED
  BY <1>4, <1>5, <1>6 DEF Carried

\* A decision that is recorded: c is approved or nobody waits for it any more.
LEMMA SettleKeeps ==
  ASSUME Typed, ServerFits, NEW c \in Commands, NEW decision \in {"approved", "rejected"},
         Settle(c, decision), UNCHANGED requests
  PROVE  /\ ServerFits'
         /\ \A q \in Runs : rows'[q].command # Null /\ commands'[rows'[q].command] = "approved" =>
              /\ rows'[q].command = rows[q].command
              /\ rows[q].command # c => commands[rows[q].command] = "approved"
              /\ rows[q].command = c => decision = "approved"
<1>1. /\ commands[c] = "pending" /\ UNCHANGED active
      /\ commands'[c] = decision /\ \A x \in Commands : x # c => commands'[x] = commands[x]
  BY DEF Settle, Typed, ServerTyped
<1>2. \A q \in Runs : rows[q].command # Null => rows[q].command \in Commands
  BY DEF Typed, ServerTyped, Row, CommandsOrNull
<1>3. ASSUME NEW q \in Runs
      PROVE  \/ rows'[q] = rows[q] /\ (rows[q].command = c => decision = "approved")
             \/ /\ rows[q].command = c
                /\ rows'[q].status = "ended" /\ rows'[q].command = Null
  <2>1. CASE decision = "approved"
    BY <2>1 DEF Settle
  <2>2. CASE decision # "approved"
    <3>1. rows'[q] = IF q \in Waits(c) THEN Write(q, "ended", Null)[q] ELSE rows[q]
      BY <2>2 DEF Settle
    <3>2. CASE q \in Waits(c)
      <4>1. rows'[q].status = "ended" /\ rows'[q].command = Null
        BY <3>1, <3>2, EndedIs
      <4> QED
        BY <3>2, <4>1 DEF Waits
    <3>3. CASE q \notin Waits(c)
      <4>1. rows[q].command # c
        BY <3>3, NoCommand DEF Waits, ServerFits, RowFits
      <4> QED
        BY <3>1, <3>3, <4>1
    <3> QED
      BY <3>2, <3>3
  <2> QED
    BY <2>1, <2>2
<1>4. ASSUME NEW q \in Runs
      PROVE  RowFits(q)'
  <2>1. CASE rows'[q] = rows[q] /\ rows[q].command # c
    BY <1>1, <1>2, <2>1, OthersStay
  <2>2. CASE rows'[q] = rows[q] /\ rows[q].command = c
    BY <1>1, <2>2, NoCommand DEF ServerFits, RowFits
  <2>3. CASE rows'[q].status = "ended" /\ rows'[q].command = Null
    BY <1>1, <2>3 DEF ServerFits, RowFits
  <2> QED
    BY <1>3, <2>1, <2>2, <2>3
<1>5. ASSUME NEW q \in DOMAIN active'
      PROVE  WorkFits(q)'
  BY <1>1 DEF ServerFits, WorkFits
<1>6. ASSUME NEW q \in Runs, rows'[q].command # Null, commands'[rows'[q].command] = "approved"
      PROVE  /\ rows'[q].command = rows[q].command
             /\ rows[q].command # c => commands[rows[q].command] = "approved"
             /\ rows[q].command = c => decision = "approved"
  BY <1>1, <1>2, <1>3, <1>6
<1> QED
  BY <1>4, <1>5, <1>6 DEF ServerFits

\* The dialog's decision arrives.
LEMMA DecidedKeeps ==
  ASSUME Typed, ServerFits, Handled, Stoppable, Carried, NEW d \in decisions, Decided(d)
  PROVE  ServerFits' /\ Handled' /\ Stoppable' /\ Carried'
<1>1. d \in Decision /\ d.answer = Null /\ UNCHANGED <<screen, requests, excused>>
  BY DEF Decided, Typed, DialogTyped
<1>2. \A e \in decisions : e.answer = Refusal("none") => e # d
  BY <1>1, AnswerAssumption
<1>3. Handled' /\ Stoppable' /\ ButFor(Null)
  BY <1>1, RunDialogAssumption DEF Handled, Stoppable, ButFor, Typed, RequestsTyped
<1>4. CASE commands[d.command] # "pending"
  <2>1. UNCHANGED server /\ \A e \in decisions : e # d => e \in decisions'
    BY <1>4 DEF Decided, Answers
  <2>2. DialogStep
    BY <1>1, <1>2, <2>1 DEF DialogStep, Running, Asked, Owed
  <2> QED
    BY <1>3, <2>2, DialogKeeps
<1>5. CASE commands[d.command] = "pending"
  <2> DEFINE closed == {r \in Waits(d.command) : d.decision = "rejected"}
             a == IF closed = {} THEN Refusal("none") ELSE RunIs(CopyOf(CHOOSE r \in closed : TRUE, rows'))
  <2>1. Settle(d.command, d.decision) /\ Answers(d, a)
    BY <1>5 DEF Decided
  <2>2. \A e \in decisions : e # d => e \in decisions'
    BY <2>1 DEF Answers
  <2>3. d.decision = "approved" => ByDecision(d.command)'
    <3>1. SUFFICES ASSUME d.decision = "approved"
                   PROVE  ByDecision(d.command)'
      OBVIOUS
    <3>2. a = Refusal("none")
      BY <3>1
    <3>3. [d EXCEPT !.answer = Refusal("none")] \in decisions'
      BY <2>1, <3>2 DEF Answers
    <3>4. /\ [d EXCEPT !.answer = Refusal("none")].command = d.command
          /\ [d EXCEPT !.answer = Refusal("none")].answer = Refusal("none")
      BY <1>1 DEF Decision
    <3> QED
      BY <3>3, <3>4 DEF ByDecision
  <2> HIDE DEF a
  <2>4. /\ ServerFits'
        /\ \A q \in Runs : rows'[q].command # Null /\ commands'[rows'[q].command] = "approved" =>
             /\ rows'[q].command = rows[q].command
             /\ rows[q].command # d.command => commands[rows[q].command] = "approved"
             /\ rows[q].command = d.command => d.decision = "approved"
    <3>1. d.command \in Commands /\ d.decision \in {"approved", "rejected"}
      BY <1>1 DEF Decision
    <3> QED
      BY <1>1, <2>1, <3>1, SettleKeeps
  <2>5. ASSUME NEW q \in Runs
        PROVE  CarriedOn(q)'
    <3> SUFFICES ASSUME NEW c, c = rows'[q].command, c # Null, c \notin excused', commands'[c] = "approved"
                 PROVE  Told(c)'
      BY DEF CarriedOn
    <3>1. CASE c = d.command
      BY <2>3, <2>4, <3>1 DEF Told
    <3>2. CASE c # d.command
      <4>1. c = rows[q].command /\ commands[c] = "approved" /\ c \notin excused
        BY <1>1, <2>4, <3>2
      <4>2. Told(c)
        BY <4>1, IsTold
      <4>3. Null \in DOMAIN requests => requests[Null].handled
        BY RunDialogAssumption DEF Typed, RequestsTyped
      <4> QED
        BY <1>2, <1>3, <2>2, <4>2, <4>3, ToldStays
    <3> QED
      BY <3>1, <3>2
  <2> QED
    BY <1>3, <2>4, <2>5 DEF Carried
<1> QED
  BY <1>4, <1>5

\* Another page decides, or tells the run.
LEMMA ElsewhereKeeps ==
  ASSUME Typed, ServerFits, Handled, Stoppable, Carried, NEW c \in Commands,
         DecideElsewhere(c) \/ ResumeElsewhere(c)
  PROVE  ServerFits' /\ Handled' /\ Stoppable' /\ Carried'
<1>1. UNCHANGED <<screen, requests, decisions>>
  BY DEF DecideElsewhere, ResumeElsewhere
<1>2. Handled' /\ Stoppable'
  BY <1>1 DEF Handled, Stoppable
<1>3. \A x : Told(x) => Told(x)'
  BY <1>1 DEF Told, ByDecision, ByRequest
<1>4. CASE DecideElsewhere(c)
  <2>1. PICK decision \in {"approved", "rejected"} : Settle(c, decision)
    BY <1>4 DEF DecideElsewhere
  <2>2. /\ ServerFits'
        /\ \A q \in Runs : rows'[q].command # Null /\ commands'[rows'[q].command] = "approved" =>
             /\ rows'[q].command = rows[q].command
             /\ rows[q].command # c => commands[rows[q].command] = "approved"
    BY <1>1, <2>1, SettleKeeps
  <2>3. excused' = excused \cup {c}
    BY <1>4 DEF DecideElsewhere
  <2>4. ASSUME NEW q \in Runs
        PROVE  CarriedOn(q)'
    <3> SUFFICES ASSUME NEW x, x = rows'[q].command, x # Null, x \notin excused', commands'[x] = "approved"
                 PROVE  Told(x)'
      BY DEF CarriedOn
    <3>1. x = rows[q].command /\ commands[x] = "approved" /\ x \notin excused
      BY <2>2, <2>3
    <3>2. Told(x)
      BY <3>1, IsTold
    <3> QED
      BY <1>3, <3>2
  <2> QED
    BY <1>2, <2>2, <2>4 DEF Carried
<1>5. CASE ResumeElsewhere(c)
  <2>1. PICK r \in Waits(c) \ DOMAIN active : active' = And(active, r, Null)
    BY <1>5 DEF ResumeElsewhere
  <2>2. r \in Runs /\ rows[r].command = c /\ rows[r].status = "awaiting_approval" /\ c # Null
    BY NoCommand DEF Waits
  <2>3. /\ DOMAIN active' = DOMAIN active \cup {r} /\ active'[r] = Null
        /\ \A q \in DOMAIN active : active'[q] = active[q]
    BY <2>1 DEF And
  <2>4. /\ commands[c] = "approved" /\ commands'[c] = "executed"
        /\ \A x \in Commands : x # c => commands'[x] = commands[x]
        /\ excused' = excused \ {c} /\ UNCHANGED rows
    BY <1>5 DEF ResumeElsewhere, Typed, ServerTyped
  <2>5. \A q \in Runs : rows[q].command # Null => rows[q].command \in Commands
    BY DEF Typed, ServerTyped, Row, CommandsOrNull
  <2>6. ASSUME NEW q \in Runs
        PROVE  RowFits(q)'
    <3>1. CASE q = r
      BY <2>2, <2>4, <3>1 DEF ServerFits, RowFits
    <3>2. CASE q # r
      <4>1. rows[q].command # c
        BY <2>2, <3>2, OneRun
      <4> QED
        BY <2>3, <2>4, <2>5, <3>2, <4>1, OthersStay
    <3> QED
      BY <3>1, <3>2
  <2>7. ASSUME NEW q \in DOMAIN active'
        PROVE  WorkFits(q)'
    BY <1>1, <2>3 DEF ServerFits, WorkFits
  <2>8. ASSUME NEW q \in Runs
        PROVE  CarriedOn(q)'
    <3> SUFFICES ASSUME NEW x, x = rows'[q].command, x # Null, x \notin excused', commands'[x] = "approved"
                 PROVE  Told(x)'
      BY DEF CarriedOn
    <3>1. x = rows[q].command /\ commands[x] = "approved" /\ x \notin excused
      BY <2>4, <2>5
    <3>2. Told(x)
      BY <3>1, IsTold
    <3> QED
      BY <1>3, <3>2
  <2> QED
    BY <1>2, <2>6, <2>7, <2>8 DEF ServerFits, Carried
<1> QED
  BY <1>4, <1>5

-----------------------------------------------------------------------------
(* The decisions that are out. *)

\* What is done to each decision does not make them more.
LEMMA ImageBound ==
  ASSUME NEW S, IsFiniteSet(S), NEW T, NEW f \in [S -> T], \A t \in T : \E s \in S : t = f[s]
  PROVE  IsFiniteSet(T) /\ Cardinality(T) <= Cardinality(S)
<1>1. f \in Surjection(S, T)
  BY DEF Surjection
<1> QED
  BY <1>1, FS_Surjection

LEMMA PartBound ==
  ASSUME Bounded, NEW S, S \subseteq decisions
  PROVE  IsFiniteSet(S) /\ Cardinality(S) <= MaxDecisions
<1>1. IsFiniteSet(S) /\ Cardinality(S) <= Cardinality(decisions)
  BY FS_Subset DEF Bounded
<1>2. Cardinality(S) \in Nat /\ Cardinality(decisions) \in Nat /\ MaxDecisions \in Nat
  BY <1>1, FS_CardinalityType, RunDialogAssumption DEF Bounded
<1> QED
  BY <1>1, <1>2 DEF Bounded

LEMMA BoundedKept ==
  ASSUME Typed, Bounded, Next
  PROVE  Bounded'
<1>0. Cardinality(decisions) \in Nat /\ MaxDecisions \in Nat
  BY FS_CardinalityType, RunDialogAssumption DEF Bounded
<1>1. CASE UNCHANGED decisions
  BY <1>1 DEF Bounded
<1>2. CASE Close
  <2> DEFINE S == {x \in decisions : x.answer \in {Null, Refusal("none")}}
             T == {[d EXCEPT !.mine = FALSE] : d \in S}
             f == [d \in S |-> [d EXCEPT !.mine = FALSE]]
  <2>1. decisions' = T
    BY <1>2 DEF Close
  <2>2. IsFiniteSet(S) /\ Cardinality(S) <= MaxDecisions
    BY PartBound
  <2>3. f \in [S -> T] /\ \A t \in T : \E s \in S : t = f[s]
    OBVIOUS
  <2> HIDE DEF S, T, f
  <2>4. IsFiniteSet(T) /\ Cardinality(T) <= Cardinality(S)
    BY <2>2, <2>3, ImageBound
  <2>5. Cardinality(S) \in Nat /\ Cardinality(T) \in Nat
    BY <2>2, <2>4, FS_CardinalityType
  <2> QED
    BY <1>0, <2>1, <2>2, <2>4, <2>5 DEF Bounded
<1>3. ASSUME NEW d \in {"approved", "rejected"}, decide(d)
      PROVE  Bounded'
  <2>1. PICK x : decisions' = decisions \cup {x}
    BY <1>3 DEF decide
  <2>2. Cardinality(decisions) < MaxDecisions
    BY <1>3 DEF decide
  <2>3. IsFiniteSet(decisions \cup {x}) /\ Cardinality(decisions \cup {x}) <= Cardinality(decisions) + 1
    BY <1>0, FS_AddElement DEF Bounded
  <2>4. Cardinality(decisions \cup {x}) \in Nat
    BY <2>3, FS_CardinalityType
  <2> QED
    BY <1>0, <2>1, <2>2, <2>3, <2>4 DEF Bounded
<1>4. ASSUME NEW d \in decisions, decisions' = decisions \ {d}
      PROVE  Bounded'
  BY <1>4, PartBound DEF Bounded
<1>5. ASSUME NEW d \in decisions, NEW a, Answers(d, a)
      PROVE  Bounded'
  <2> DEFINE rest == decisions \ {d}
  <2>1. IsFiniteSet(rest) /\ Cardinality(rest) = Cardinality(decisions) - 1
    BY FS_RemoveElement DEF Bounded
  <2>2. decisions' = rest \/ \E x : decisions' = rest \cup {x}
    BY <1>5 DEF Answers
  <2>3. CASE decisions' = rest
    BY <1>4, <2>3
  <2>4. ASSUME NEW x, decisions' = rest \cup {x}
        PROVE  Bounded'
    <3> HIDE DEF rest
    <3>1. IsFiniteSet(rest \cup {x}) /\ Cardinality(rest \cup {x}) <= Cardinality(rest) + 1
      <4>1. Cardinality(rest) \in Nat
        BY <2>1, FS_CardinalityType
      <4> QED
        BY <2>1, <4>1, FS_AddElement
    <3>2. Cardinality(rest \cup {x}) \in Nat
      BY <3>1, FS_CardinalityType
    <3> QED
      BY <1>0, <2>1, <2>4, <3>1, <3>2 DEF Bounded
  <2> QED
    BY <2>2, <2>3, <2>4
<1>6. ASSUME NEW d \in decisions, Decided(d)
      PROVE  Bounded'
  <2>1. \E a : Answers(d, a)
    BY <1>6 DEF Decided
  <2> QED
    BY <1>5, <2>1
<1>7. ASSUME NEW d \in decisions, DecisionAnswered(d) \/ LoseDecision(d)
      PROVE  Bounded'
  BY <1>4, <1>7 DEF DecisionAnswered, LoseDecision
<1>8. CASE User
  BY <1>1, <1>2, <1>3, <1>8
  DEF User, Open, handleSubmit, TryAgain, ReloadHistory, stop, reviewRun
<1>9. CASE \/ CardAsks \/ CardLoads \/ Restart
           \/ \E i \in Ids : startRun(i) \/ resumeRun(i) \/ Answered(i) \/ Stopped(i) \/ Lose(i) \/ NeverArrives(i)
           \/ \E r \in Runs : WorkEnds(r)
           \/ \E c \in Commands : DecideElsewhere(c) \/ ResumeElsewhere(c)
           \/ \E l \in loads : LoadReads(l) \/ LoadArrives(l) \/ LoadFails(l)
  BY <1>1, <1>9
  DEF CardAsks, CardLoads, Restart, startRun, resumeRun, Answered, Stopped, Lose, NeverArrives, WorkEnds,
      DecideElsewhere, ResumeElsewhere, LoadReads, LoadArrives, LoadFails
<1> QED
  BY <1>6, <1>7, <1>8, <1>9 DEF Next

\* A decision is about the command that was shown.
LEMMA AsSeenKept ==
  ASSUME Typed, CardFits, AsSeen, Next
  PROVE  AsSeen'
<1>0. \A d \in decisions : d \in Decision /\ d.seen = d.command
  BY DEF AsSeen, Typed, DialogTyped
<1>1. CASE decisions' \subseteq decisions
  BY <1>0, <1>1 DEF AsSeen
<1>2. CASE Close
  <2>1. ASSUME NEW e \in decisions'
        PROVE  e.seen = e.command
    <3>1. PICK d \in decisions : e = [d EXCEPT !.mine = FALSE]
      BY <1>2 DEF Close
    <3> QED
      BY <1>0, <3>1 DEF Decision
  <2> QED
    BY <2>1 DEF AsSeen
<1>3. ASSUME NEW d \in {"approved", "rejected"}, decide(d)
      PROVE  AsSeen'
  <2>1. card.shows = card.command
    BY <1>3 DEF decide, canDecide, CardFits
  <2> QED
    BY <1>0, <1>3, <2>1 DEF decide, AsSeen
<1>4. ASSUME NEW d \in decisions, Decided(d)
      PROVE  AsSeen'
  <2>1. PICK a : Answers(d, a)
    BY <1>4 DEF Decided
  <2>2. [d EXCEPT !.answer = a].seen = d.seen /\ [d EXCEPT !.answer = a].command = d.command
    BY <1>0 DEF Decision
  <2> QED
    BY <1>0, <2>1, <2>2 DEF Answers, AsSeen
<1>5. ASSUME NEW d \in decisions, DecisionAnswered(d) \/ LoseDecision(d)
      PROVE  AsSeen'
  BY <1>1, <1>5 DEF DecisionAnswered, LoseDecision
<1>6. CASE User
  BY <1>1, <1>2, <1>3, <1>6
  DEF User, Open, handleSubmit, TryAgain, ReloadHistory, stop, reviewRun
<1>7. CASE \/ CardAsks \/ CardLoads \/ Restart
           \/ \E i \in Ids : startRun(i) \/ resumeRun(i) \/ Answered(i) \/ Stopped(i) \/ Lose(i) \/ NeverArrives(i)
           \/ \E r \in Runs : WorkEnds(r)
           \/ \E c \in Commands : DecideElsewhere(c) \/ ResumeElsewhere(c)
           \/ \E l \in loads : LoadReads(l) \/ LoadArrives(l) \/ LoadFails(l)
  BY <1>1, <1>7
  DEF CardAsks, CardLoads, Restart, startRun, resumeRun, Answered, Stopped, Lose, NeverArrives, WorkEnds,
      DecideElsewhere, ResumeElsewhere, LoadReads, LoadArrives, LoadFails
<1> QED
  BY <1>4, <1>5, <1>6, <1>7 DEF Next

-----------------------------------------------------------------------------
(* The copies of runs that the dialog holds, and what it is answered. *)

\* The copies after a step that writes no run.
CopiesAfter ==
  /\ \A i \in DOMAIN requests' : RequestPast(requests'[i])
  /\ \A d \in decisions' : DecisionPast(d)
  /\ screen'.run # Null => Past(screen'.run)
  /\ ListPast(screen'.history)
  /\ \A l \in loads' : l.found # Null => ListPast(l.found)

LEMMA AfterIs ==
  ASSUME CopiesAfter, UNCHANGED rows
  PROVE  Copies'
BY DEF CopiesAfter, Copies, RequestPast, DecisionPast, Past, ListPast

\* The loads after a new one was begun.
LEMMA LoadHistoryKeeps ==
  ASSUME Typed, Copies, LoadHistory
  PROVE  /\ \A l \in loads' : l.found # Null => ListPast(l.found)
         /\ Newer'
<1>1. /\ loads' \subseteq Load /\ NewLoad \in loads' /\ NewLoad.newest
      /\ \A l \in loads' : l.newest => l.found = Null
      /\ \A l \in loads' : l.found = Null \/ \E k \in loads : l.found = k.found
  BY LoadHistoryType DEF Typed, DialogTyped, NewLoad
<1>2. Newer'
  BY <1>1 DEF Newer
<1> QED
  BY <1>1, <1>2 DEF Copies

\* The screen shows the same run, or none, and the loads are left alone.
LEMMA NewerStays ==
  ASSUME Newer, UNCHANGED loads, screen'.run \in {Null, screen.run}, screen'.history = screen.history,
         screen'.historyError = screen.historyError
  PROVE  Newer'
BY DEF Newer, ListFits

\* Of a request that is given up no copy is left but that of its answer.
LEMMA UnawaitedPast ==
  ASSUME NEW q \in Request, RequestPast(q), NEW aborted \in BOOLEAN
  PROVE  RequestPast(Unawaited(q, aborted))
BY UnawaitedType DEF RequestPast

\* A request is added.
LEMMA OneMorePast ==
  ASSUME Typed, Copies, NEW id \in Ids \ DOMAIN requests, NEW q \in Request, RequestPast(q),
         requests' = And(requests, id, q)
  PROVE  \A i \in DOMAIN requests' : RequestPast(requests'[i])
<1>1. /\ DOMAIN requests' = DOMAIN requests \cup {id} /\ requests'[id] = q
      /\ \A i \in DOMAIN requests : requests'[i] = requests[i]
  BY DEF And
<1> QED
  BY <1>1 DEF Copies

\* The open dialog asks.
LEMMA PerformPast ==
  ASSUME Typed, CardFits, Copies, Newer, NEW s \in Screen, NEW q \in Request, RequestPast(q), Perform(s, q),
         s.run \in {Null, screen.run}, s.history = screen.history, s.historyError = screen.historyError,
         UNCHANGED <<server, decisions, loads>>
  PROVE  Copies' /\ Newer'
<1>1. /\ screen'.run = s.run /\ screen'.history = s.history /\ screen'.historyError = s.historyError
      /\ screen'.controller \in Ids \ DOMAIN requests
      /\ requests' = And(requests, screen'.controller, q)
  BY PerformType DEF Typed, DialogTyped
<1>2. \A i \in DOMAIN requests' : RequestPast(requests'[i])
  BY <1>1, OneMorePast
<1>3. CopiesAfter
  BY <1>1, <1>2 DEF CopiesAfter, Copies
<1>4. Newer'
  BY <1>1, NewerStays
<1> QED
  BY <1>3, <1>4, AfterIs DEF server

\* An empty list is of the past.
LEMMA BlankPast ==
  ASSUME Typed
  PROVE  ListPast(Blank.history) /\ Blank.run = Null /\ Blank.controller = Null
BY DEF Typed, ServerTyped, Row, ListPast, Blank, NoRow

LEMMA UserPast ==
  ASSUME Typed, CardFits, Stoppable, Copies, Newer, User
  PROVE  Copies' /\ Newer'
<1>1. ASSUME Open
      PROVE  Copies' /\ Newer'
  <2>1. LoadHistory /\ UNCHANGED <<server, requests, decisions>>
        /\ screen'.run = Null /\ screen'.history = Blank.history
    BY <1>1 DEF Open, Blank
  <2>2. CopiesAfter
    BY <2>1, BlankPast, LoadHistoryKeeps DEF CopiesAfter, Copies
  <2> QED
    BY <2>1, <2>2, AfterIs, LoadHistoryKeeps DEF server
<1>2. ASSUME Close
      PROVE  Copies' /\ Newer'
  <2>1. /\ screen' = Blank /\ loads' = {} /\ UNCHANGED server
        /\ DOMAIN requests' \subseteq DOMAIN requests
        /\ \A i \in DOMAIN requests' : requests'[i] = Unawaited(requests[i], requests[i].aborted)
    BY <1>2 DEF Close
  <2>2. ASSUME NEW i \in DOMAIN requests'
        PROVE  RequestPast(requests'[i])
    <3>1. requests[i] \in Request /\ requests[i].aborted \in BOOLEAN /\ RequestPast(requests[i])
      BY <2>1 DEF Typed, RequestsTyped, Request, Copies
    <3> QED
      BY <2>1, <3>1, UnawaitedPast
  <2>3. ASSUME NEW e \in decisions'
        PROVE  DecisionPast(e)
    <3>1. PICK d \in decisions : e = [d EXCEPT !.mine = FALSE]
      BY <1>2 DEF Close
    <3>2. e.answer = d.answer
      BY <3>1 DEF Typed, DialogTyped, Decision
    <3> QED
      BY <3>2 DEF Copies, DecisionPast
  <2>4. CopiesAfter
    BY <2>1, <2>2, <2>3, BlankPast DEF CopiesAfter
  <2>5. Newer'
    BY <2>1, BlankPast DEF Newer, ListFits
  <2> QED
    BY <2>1, <2>4, <2>5, AfterIs DEF server
<1>3. ASSUME handleSubmit
      PROVE  Copies' /\ Newer'
  <2>1. /\ [screen EXCEPT !.run = Null] \in Screen
        /\ [screen EXCEPT !.run = Null].run = Null
        /\ [screen EXCEPT !.run = Null].history = screen.history
        /\ [screen EXCEPT !.run = Null].historyError = screen.historyError
    BY DEF Typed, DialogTyped, Screen
  <2>2. NewRequest("starting", Null, Null) \in Request
    BY NewRequestType DEF Modes, CommandsOrNull
  <2>3. RequestPast(NewRequest("starting", Null, Null))
    BY DEF NewRequest, RequestPast
  <2> QED
    BY <1>3, <2>1, <2>2, <2>3, PerformPast DEF handleSubmit
<1>4. ASSUME NEW r \in Runs, reviewRun(r)
      PROVE  Copies' /\ Newer'
  <2> DEFINE target == [id |-> r, row |-> screen.history[r]]
             q == NewRequest("checking", target.row.command, target)
  <2>1. /\ [screen EXCEPT !.run = Null] \in Screen
        /\ [screen EXCEPT !.run = Null].run = Null
        /\ [screen EXCEPT !.run = Null].history = screen.history
        /\ [screen EXCEPT !.run = Null].historyError = screen.historyError
    BY DEF Typed, DialogTyped, Screen
  <2>2. target \in Copy /\ target.row.command \in CommandsOrNull
    BY DEF Typed, DialogTyped, Screen, Copy, Row
  <2>3. q \in Request
    <3> HIDE DEF target
    <3> QED
      BY <2>2, NewRequestType DEF Modes
  <2>4. RequestPast(q)
    BY DEF NewRequest, RequestPast, Copies, ListPast, Past
  <2>5. Perform([screen EXCEPT !.run = Null], q) /\ UNCHANGED <<server, decisions, loads>>
    BY <1>4 DEF reviewRun
  <2> HIDE DEF q
  <2> QED
    BY <2>1, <2>3, <2>4, <2>5, PerformPast
<1>5. ASSUME TryAgain
      PROVE  Copies' /\ Newer'
  <2> DEFINE q == NewRequest(ModeOf(screen.retry.decision), screen.retry.command, Null)
  <2>1. screen.retry.command \in CommandsOrNull /\ ModeOf(screen.retry.decision) \in Modes \ {"starting"}
    BY <1>5 DEF TryAgain, Typed, DialogTyped, Screen, Denied, ModeOf, Modes
  <2>2. q \in Request
    BY <2>1, NewRequestType
  <2>3. RequestPast(q)
    BY DEF NewRequest, RequestPast
  <2>4. Perform(screen, q) /\ UNCHANGED <<server, decisions, loads>>
    BY <1>5 DEF TryAgain
  <2> HIDE DEF q
  <2> QED
    BY <2>2, <2>3, <2>4, PerformPast DEF Typed, DialogTyped
<1>6. ASSUME ReloadHistory
      PROVE  Copies' /\ Newer'
  <2>1. LoadHistory /\ UNCHANGED <<server, requests, decisions, screen>>
    BY <1>6 DEF ReloadHistory
  <2>2. CopiesAfter
    BY <2>1, LoadHistoryKeeps DEF CopiesAfter, Copies
  <2> QED
    BY <2>1, <2>2, AfterIs, LoadHistoryKeeps DEF server
<1>7. ASSUME stop
      PROVE  Copies' /\ Newer'
  <2> DEFINE i == screen.controller
  <2>1. i \in DOMAIN requests /\ UNCHANGED <<server, screen, decisions, loads>>
        /\ requests' = [requests EXCEPT ![i].aborted = TRUE]
    BY <1>7 DEF stop, Stoppable
  <2>2. /\ DOMAIN requests' = DOMAIN requests
        /\ \A j \in DOMAIN requests : requests'[j].answer = requests[j].answer
                                      /\ requests'[j].target = requests[j].target
    BY <2>1 DEF Typed, RequestsTyped, Request
  <2>3. CopiesAfter
    BY <2>1, <2>2 DEF CopiesAfter, Copies, RequestPast
  <2>4. Newer'
    BY <2>1, NewerStays
  <2> QED
    BY <2>1, <2>3, <2>4, AfterIs DEF server
<1>8. ASSUME NEW d \in {"approved", "rejected"}, decide(d)
      PROVE  Copies' /\ Newer'
  <2>1. /\ screen'.run = screen.run /\ screen'.history = screen.history
        /\ screen'.historyError = screen.historyError /\ UNCHANGED <<server, requests, loads>>
    BY <1>8 DEF decide, Typed, DialogTyped, Screen
  <2>2. \A e \in decisions' : e \in decisions \/ e.answer = Null
    BY <1>8 DEF decide
  <2>3. CopiesAfter
    BY <2>1, <2>2 DEF CopiesAfter, Copies, DecisionPast
  <2>4. Newer'
    BY <2>1, NewerStays
  <2> QED
    BY <2>1, <2>3, <2>4, AfterIs DEF server
<1> QED
  BY <1>1, <1>2, <1>3, <1>4, <1>5, <1>6, <1>7, <1>8 DEF User

LEMMA ReadPast ==
  ASSUME Typed, Copies, Newer,
         CardAsks \/ CardLoads \/ \E l \in loads : LoadReads(l) \/ LoadArrives(l) \/ LoadFails(l)
  PROVE  Copies' /\ Newer'
<1>0. UNCHANGED <<server, requests, decisions>>
  BY DEF CardAsks, CardLoads, LoadReads, LoadArrives, LoadFails
<1>1. CASE CardAsks \/ CardLoads
  <2>1. UNCHANGED <<screen, loads>>
    BY <1>1 DEF CardAsks, CardLoads
  <2>2. CopiesAfter
    BY <1>0, <2>1 DEF CopiesAfter, Copies
  <2> QED
    BY <1>0, <2>1, <2>2, AfterIs, NewerStays DEF server
<1>2. ASSUME NEW l \in loads, LoadReads(l)
      PROVE  Copies' /\ Newer'
  <2> DEFINE k == [l EXCEPT !.found = rows]
  <2>1. k.found = rows /\ k.newest = l.newest
    BY DEF Typed, DialogTyped, Load
  <2>2. loads' = (loads \ {l}) \cup {k} /\ UNCHANGED screen
    BY <1>2 DEF LoadReads
  <2> HIDE DEF k
  <2>3. ListPast(rows)
    BY DEF ListPast, Typed, ServerTyped, Row
  <2>4. CopiesAfter
    BY <1>0, <2>1, <2>2, <2>3 DEF CopiesAfter, Copies
  <2>5. ListFits(rows)
    BY DEF ListFits, Copies, Past
  <2>6. Newer'
    <3>1. ASSUME NEW x \in loads', x.newest, x.found # Null
          PROVE  ListFits(x.found)'
      BY <2>1, <2>2, <2>5, <3>1 DEF Newer, ListFits
    <3>2. ASSUME ~screen'.historyError, {x \in loads' : x.newest} = {}
          PROVE  ListFits(screen.history)'
      <4>1. \A x \in loads' : ~x.newest
        BY <3>2
      <4>2. {x \in loads : x.newest} = {}
        BY <2>1, <2>2, <4>1
      <4> QED
        BY <2>2, <3>2, <4>2 DEF Newer, ListFits
    <3> QED
      BY <3>1, <3>2 DEF Newer
  <2> QED
    BY <1>0, <2>4, <2>6, AfterIs DEF server
<1>3. ASSUME NEW l \in loads, LoadArrives(l)
      PROVE  Copies' /\ Newer'
  <2>1. loads' = loads \ {l} /\ l.found # Null
    BY <1>3 DEF LoadArrives
  <2>2. screen'.run = screen.run
        /\ IF l.newest THEN screen'.history = l.found
           ELSE screen'.history = screen.history /\ screen'.historyError = screen.historyError
    BY <1>3 DEF LoadArrives, Current, Typed, DialogTyped, Screen
  <2>3. CopiesAfter
    BY <1>0, <2>1, <2>2 DEF CopiesAfter, Copies
  <2>4. Newer'
    BY <2>1, <2>2 DEF Newer, ListFits
  <2> QED
    BY <1>0, <2>3, <2>4, AfterIs DEF server
<1>4. ASSUME NEW l \in loads, LoadFails(l)
      PROVE  Copies' /\ Newer'
  <2>1. loads' = loads \ {l}
    BY <1>4 DEF LoadFails
  <2>2. screen'.run = screen.run /\ screen'.history = screen.history
        /\ IF l.newest THEN screen'.historyError ELSE screen'.historyError = screen.historyError
    BY <1>4 DEF LoadFails, Current, Typed, DialogTyped, Screen
  <2>3. CopiesAfter
    BY <1>0, <2>1, <2>2 DEF CopiesAfter, Copies
  <2>4. Newer'
    BY <2>1, <2>2 DEF Newer, ListFits
  <2> QED
    BY <1>0, <2>3, <2>4, AfterIs DEF server
<1> QED
  BY <1>1, <1>2, <1>3, <1>4

\* The dialog continues after an answer.
LEMMA ContinuePast ==
  ASSUME Typed, Copies, NEW i \in DOMAIN requests,
         NEW answer \in RunAnswer \cup {Refusal("stopped")}, answer.kind = "run" => Past(answer.run),
         Continue(i, answer), UNCHANGED <<server, decisions>>
  PROVE  Copies' /\ Newer'
<1>1. requests' = Done(i) /\ LoadHistory /\ screen' = ContinuedScreen(i, answer)
  BY ContinueIs DEF Render
<1>2. /\ screen'.history = screen.history
      /\ \/ screen'.run \in {Null, screen.run}
         \/ answer.kind = "run" /\ screen'.run = answer.run
         \/ screen'.run = requests[i].target
  BY <1>1, ContinuedType DEF Typed, DialogTyped
<1>3. screen'.run # Null => Past(screen'.run)
  BY <1>2 DEF Copies, RequestPast
<1>4. ASSUME NEW j \in DOMAIN requests'
      PROVE  RequestPast(requests'[j])
  <2>1. /\ \A k \in DOMAIN requests : k # i => k \in DOMAIN requests' /\ requests'[k] = requests[k]
        /\ DOMAIN requests' \subseteq DOMAIN requests
        /\ requests[i].answer # Null => i \notin DOMAIN requests'
        /\ requests[i].answer = Null => requests'[i] = Unawaited(requests[i], TRUE)
    BY <1>1, DoneType DEF Typed
  <2>2. CASE j # i
    BY <2>1, <2>2 DEF Copies
  <2>3. CASE j = i
    <3>1. requests'[i] = Unawaited(requests[i], TRUE)
      BY <2>1, <2>3
    <3>2. RequestPast(Unawaited(requests[i], TRUE))
      BY UnawaitedPast DEF Typed, RequestsTyped, Copies
    <3> QED
      BY <2>3, <3>1, <3>2
  <2> QED
    BY <2>2, <2>3
<1>5. CopiesAfter
  BY <1>1, <1>2, <1>3, <1>4, LoadHistoryKeeps DEF CopiesAfter, Copies
<1> QED
  BY <1>1, <1>5, AfterIs, LoadHistoryKeeps DEF server

\* The run is told.
LEMMA TellPast ==
  ASSUME Typed, CardFits, Copies, Newer, NEW d \in Decision, Tell(d), UNCHANGED <<server, loads>>,
         decisions' \subseteq decisions
  PROVE  Copies' /\ Newer'
<1>1. PICK id \in Ids \ DOMAIN requests, q \in Request :
        /\ requests' = And(requests, id, q)
        /\ q.answer = Null /\ q.target = Null
        /\ \/ UNCHANGED screen
           \/ /\ screen'.run = screen.run /\ screen'.history = screen.history
              /\ screen'.historyError = screen.historyError
  BY TellIs
<1>2. \A i \in DOMAIN requests' : RequestPast(requests'[i])
  <2>1. RequestPast(q)
    BY <1>1 DEF RequestPast
  <2> QED
    BY <1>1, <2>1, OneMorePast
<1>3. CopiesAfter
  BY <1>1, <1>2 DEF CopiesAfter, Copies
<1>4. Newer'
  BY <1>1, NewerStays
<1> QED
  BY <1>3, <1>4, AfterIs DEF server

\* The decision is open again.
LEMMA UndecidePast ==
  ASSUME Typed, CardFits, Copies, Newer, NEW d \in decisions, Undecide(d),
         UNCHANGED <<server, requests, loads>>, decisions' \subseteq decisions
  PROVE  Copies' /\ Newer'
<1>1. screen'.run = screen.run /\ screen'.history = screen.history
      /\ screen'.historyError = screen.historyError
  BY UndecideType
<1>2. CopiesAfter
  BY <1>1 DEF CopiesAfter, Copies
<1> QED
  BY <1>1, <1>2, AfterIs, NewerStays DEF server

LEMMA AnswersPast ==
  ASSUME Typed, CardFits, Handled, Copies, Newer,
         \/ \E i \in Ids : Answered(i) \/ Stopped(i) \/ Lose(i) \/ NeverArrives(i)
         \/ \E d \in decisions : DecisionAnswered(d) \/ LoseDecision(d)
  PROVE  Copies' /\ Newer'
<1>1. ASSUME NEW i \in Ids, Answered(i)
      PROVE  Copies' /\ Newer'
  <2>1. i \in DOMAIN requests /\ requests[i].answer # Null /\ Continue(i, requests[i].answer)
        /\ UNCHANGED <<server, decisions>>
    BY <1>1 DEF Answered
  <2>2. requests[i].answer \in RunAnswer
        /\ (requests[i].answer.kind = "run" => Past(requests[i].answer.run))
    BY <2>1 DEF Typed, RequestsTyped, Request, Copies, RequestPast
  <2> QED
    BY <2>1, <2>2, ContinuePast
<1>2. ASSUME NEW i \in Ids, Stopped(i)
      PROVE  Copies' /\ Newer'
  <2>1. i \in DOMAIN requests /\ Continue(i, Refusal("stopped")) /\ UNCHANGED <<server, decisions>>
    BY <1>2 DEF Stopped
  <2>2. Refusal("stopped").kind # "run"
    BY DEF Refusal
  <2> QED
    BY <2>1, <2>2, ContinuePast
<1>3. ASSUME NEW i \in Ids, Lose(i)
      PROVE  Copies' /\ Newer'
  <2>1. i \in DOMAIN requests /\ UNCHANGED <<server, decisions>>
    BY <1>3 DEF Lose
  <2>2. CASE requests[i].mine
    <3>1. Continue(i, Refusal("error"))
      BY <1>3, <2>2 DEF Lose
    <3>2. Refusal("error").kind # "run"
      BY DEF Refusal
    <3> QED
      BY <2>1, <3>1, <3>2, ContinuePast, AnswerTypes
  <2>3. CASE ~requests[i].mine
    <3>1. requests' = [requests EXCEPT ![i].aborted = TRUE] /\ UNCHANGED <<screen, loads>>
      BY <1>3, <2>3 DEF Lose
    <3>2. /\ DOMAIN requests' = DOMAIN requests
          /\ \A j \in DOMAIN requests : requests'[j].answer = requests[j].answer
                                        /\ requests'[j].target = requests[j].target
      BY <2>1, <3>1 DEF Typed, RequestsTyped, Request
    <3>3. CopiesAfter
      BY <2>1, <3>1, <3>2 DEF CopiesAfter, Copies, RequestPast
    <3> QED
      BY <2>1, <3>1, <3>3, AfterIs, NewerStays DEF server
  <2> QED
    BY <2>2, <2>3
<1>4. ASSUME NEW i \in Ids, NeverArrives(i)
      PROVE  Copies' /\ Newer'
  <2>1. requests' = Restrict(requests, DOMAIN requests \ {i}) /\ UNCHANGED <<server, screen, decisions, loads>>
    BY <1>4 DEF NeverArrives
  <2>2. /\ DOMAIN requests' = DOMAIN requests \ {i}
        /\ \A j \in DOMAIN requests' : requests'[j] = requests[j]
    BY <2>1, RestrictIs
  <2>3. CopiesAfter
    BY <2>1, <2>2 DEF CopiesAfter, Copies
  <2> QED
    BY <2>1, <2>3, AfterIs, NewerStays DEF server
<1>5. ASSUME NEW d \in decisions, DecisionAnswered(d)
      PROVE  Copies' /\ Newer'
  <2>1. d \in Decision /\ d.answer \in DecisionAnswer
    BY <1>5 DEF DecisionAnswered, Typed, DialogTyped, Decision
  <2>2. UNCHANGED server /\ decisions' \subseteq decisions
    BY <1>5 DEF DecisionAnswered
  <2>3. CASE d.answer.kind = "error"
    BY <1>5, <2>2, <2>3, UndecidePast DEF DecisionAnswered
  <2>4. CASE d.answer.kind = "run"
    <3>1. screen' = showRun(screen, d.answer.run) /\ LoadHistory /\ UNCHANGED requests
      BY <1>5, <2>4 DEF DecisionAnswered, Render
    <3>2. screen'.run = d.answer.run /\ screen'.history = screen.history
      BY <3>1 DEF showRun, Typed, DialogTyped, Screen
    <3>3. Past(d.answer.run)
      BY <1>5, <2>4 DEF DecisionAnswered, Copies, DecisionPast
    <3>4. CopiesAfter
      BY <2>2, <3>1, <3>2, <3>3, LoadHistoryKeeps DEF CopiesAfter, Copies
    <3> QED
      BY <2>2, <3>1, <3>4, AfterIs, LoadHistoryKeeps DEF server
  <2>5. CASE d.answer.kind = "none"
    <3>1. Tell(d) /\ UNCHANGED loads
      BY <1>5, <2>5 DEF DecisionAnswered
    <3> QED
      BY <2>1, <2>2, <3>1, TellPast
  <2>6. d.answer.kind \in {"error", "run", "none"}
    BY <2>1 DEF DecisionAnswer
  <2> QED
    BY <2>3, <2>4, <2>5, <2>6
<1>6. ASSUME NEW d \in decisions, LoseDecision(d)
      PROVE  Copies' /\ Newer'
  <2>1. d \in Decision /\ UNCHANGED <<server, loads>> /\ decisions' \subseteq decisions
    BY <1>6 DEF LoseDecision, Typed, DialogTyped
  <2> QED
    BY <1>6, <2>1, UndecidePast, TellPast DEF LoseDecision
<1> QED
  BY <1>1, <1>2, <1>3, <1>4, <1>5, <1>6

\* Runs are only written further, and what the server answers is how a run is now.
ServerAnswers ==
  /\ \A r \in Runs : rows[r].writes <= rows'[r].writes
  /\ UNCHANGED <<screen, loads>>
  /\ \A i \in DOMAIN requests' :
       /\ i \in DOMAIN requests /\ requests'[i].target = requests[i].target
       /\ \/ requests'[i].answer \in {Null, requests[i].answer} \/ requests'[i].answer.kind # "run"
          \/ \E r \in Runs : requests'[i].answer = RunIs(CopyOf(r, rows'))
  /\ \A d \in decisions' :
       \/ d \in decisions \/ d.answer.kind # "run"
       \/ \E r \in Runs : d.answer = RunIs(CopyOf(r, rows'))

LEMMA ServerPast ==
  ASSUME Typed, Typed', Copies, Newer, ServerAnswers
  PROVE  Copies' /\ Newer'
<1>1. \A r \in Runs : rows[r].writes \in Nat /\ rows'[r].writes \in Nat /\ rows[r].writes <= rows'[r].writes
  BY DEF Typed, ServerTyped, Row, ServerAnswers
<1>2. ASSUME NEW copy \in Copy, Past(copy)
      PROVE  Past(copy)'
  BY <1>1, <1>2 DEF Copy, Row, Past
<1>3. ASSUME NEW list \in [Runs -> Row], ListPast(list)
      PROVE  ListPast(list)'
  BY <1>1, <1>3 DEF Row, ListPast
<1>4. ASSUME NEW r \in Runs, NEW copy, copy = RunIs(CopyOf(r, rows')).run
      PROVE  Past(copy)'
  BY <1>1, <1>4 DEF Past, RunIs, CopyOf
<1>5. ASSUME NEW i \in DOMAIN requests'
      PROVE  RequestPast(requests[i])'
  <2>1. i \in DOMAIN requests /\ requests'[i].target = requests[i].target
        /\ \/ requests'[i].answer \in {Null, requests[i].answer} \/ requests'[i].answer.kind # "run"
           \/ \E r \in Runs : requests'[i].answer = RunIs(CopyOf(r, rows'))
    BY DEF ServerAnswers
  <2>2. requests[i] \in Request /\ RequestPast(requests[i])
    BY <2>1 DEF Typed, RequestsTyped, Copies
  <2>3. requests[i].target # Null => requests[i].target \in Copy
    BY <2>2 DEF Request
  <2>4. requests[i].answer # Null /\ requests[i].answer.kind = "run" => requests[i].answer.run \in Copy
    BY <2>2 DEF Request, RunAnswer
  <2>5. ASSUME NEW copy, copy = requests'[i].target, copy # Null
        PROVE  Past(copy)'
    BY <1>2, <2>1, <2>2, <2>3, <2>5 DEF RequestPast
  <2>6. ASSUME NEW copy, copy = requests'[i].answer.run, requests'[i].answer # Null,
               requests'[i].answer.kind = "run"
        PROVE  Past(copy)'
    <3>1. CASE requests'[i].answer = requests[i].answer
      BY <1>2, <2>2, <2>4, <2>6, <3>1 DEF RequestPast
    <3>2. CASE \E r \in Runs : requests'[i].answer = RunIs(CopyOf(r, rows'))
      BY <1>4, <2>6, <3>2
    <3> QED
      BY <2>1, <2>6, <3>1, <3>2
  <2> QED
    BY <2>5, <2>6 DEF RequestPast, Past
<1>6. ASSUME NEW d \in decisions'
      PROVE  DecisionPast(d)'
  <2> SUFFICES ASSUME d.answer # Null, d.answer.kind = "run"
               PROVE  Past(d.answer.run)'
    BY DEF DecisionPast
  <2>1. CASE d \in decisions
    <3>1. Past(d.answer.run) /\ d.answer.run \in Copy
      BY <2>1 DEF Copies, DecisionPast, Typed, DialogTyped, Decision, DecisionAnswer
    <3> QED
      BY <1>2, <3>1
  <2>2. CASE \E r \in Runs : d.answer = RunIs(CopyOf(r, rows'))
    BY <1>4, <2>2
  <2> QED
    BY <2>1, <2>2 DEF ServerAnswers
<1>7. screen'.run # Null => Past(screen.run)'
  BY <1>2 DEF ServerAnswers, Copies, Typed, DialogTyped, Screen, Past
<1>8. ListPast(screen.history)'
  BY <1>3 DEF ServerAnswers, Copies, Typed, DialogTyped, Screen, ListPast
<1>9. ASSUME NEW l \in loads', l.found # Null
      PROVE  ListPast(l.found)'
  BY <1>3, <1>9 DEF ServerAnswers, Copies, Typed, DialogTyped, Load
<1>10. Newer'
  BY NewerStays DEF ServerAnswers
<1> QED
  BY <1>5, <1>6, <1>7, <1>8, <1>9, <1>10 DEF Copies

\* Writing a run is writing it further.
LEMMA WritesGrow ==
  ASSUME Typed, NEW r \in Runs, NEW status \in Statuses, NEW c \in CommandsOrNull
  PROVE  \A q \in Runs : rows[q].writes <= Write(r, status, c)[q].writes
BY DEF Write, Typed, ServerTyped, Row

\* The answer to i is a run as it is now, or an error.
LEMMA AnswerPast ==
  ASSUME Typed, NEW i \in DOMAIN requests, NEW a \in RunAnswer, Answer(i, a),
         a.kind # "run" \/ \E r \in Runs : a = RunIs(CopyOf(r, rows')),
         \A r \in Runs : rows[r].writes <= rows'[r].writes, UNCHANGED <<screen, loads, decisions>>
  PROVE  ServerAnswers
<1>1. /\ \A j \in DOMAIN requests : j # i => j \in DOMAIN requests' /\ requests'[j] = requests[j]
      /\ DOMAIN requests' \subseteq DOMAIN requests
      /\ i \in DOMAIN requests' => requests'[i].answer = a /\ requests'[i].target = requests[i].target
  BY AnswerIs
<1> QED
  BY <1>1 DEF ServerAnswers

LEMMA AnswersServer ==
  ASSUME Typed, Typed', ServerFits,
         \/ \E i \in Ids : startRun(i) \/ resumeRun(i)
         \/ \E r \in Runs : WorkEnds(r)
         \/ Restart
         \/ \E d \in decisions : Decided(d)
         \/ \E c \in Commands : DecideElsewhere(c) \/ ResumeElsewhere(c)
  PROVE  ServerAnswers
<1>0. /\ "ended" \in Statuses /\ "awaiting_approval" \in Statuses /\ Null \in CommandsOrNull
      /\ Commands \subseteq CommandsOrNull
      /\ \A r \in Runs : rows[r].writes \in Nat
  BY DEF Statuses, CommandsOrNull, Typed, ServerTyped, Row
<1>1. ASSUME NEW i \in Ids, startRun(i)
      PROVE  ServerAnswers
  <2>1. PICK r \in Runs : rows' = Write(r, "ended", Null) /\ Works(i, r)
    BY <1>1 DEF startRun
  <2>2. i \in DOMAIN requests /\ UNCHANGED <<screen, loads, decisions>>
    BY <1>1 DEF startRun
  <2>3. /\ DOMAIN requests' = DOMAIN requests
        /\ \A j \in DOMAIN requests : j # i => requests'[j] = requests[j]
        /\ requests'[i].answer = requests[i].answer /\ requests'[i].target = requests[i].target
    BY <2>1, <2>2, WorksType
  <2>4. \A q \in Runs : rows[q].writes <= rows'[q].writes
    BY <1>0, <2>1, WritesGrow
  <2> QED
    BY <2>2, <2>3, <2>4 DEF ServerAnswers
<1>2. ASSUME NEW i \in Ids, resumeRun(i)
      PROVE  ServerAnswers
  <2> DEFINE c == requests[i].command
  <2>1. i \in DOMAIN requests /\ UNCHANGED <<screen, loads, decisions>>
    BY <1>2 DEF resumeRun
  <2>2. ASSUME NEW a \in RunAnswer, a.kind # "run", Answer(i, a), UNCHANGED server
        PROVE  ServerAnswers
    BY <1>0, <2>1, <2>2, AnswerPast DEF server
  <2>3. ASSUME NEW r \in Waits(c), Closes(i, r)
        PROVE  ServerAnswers
    <3>1. r \in Runs
      BY DEF Waits
    <3>2. rows' = Write(r, "ended", Null) /\ Answer(i, RunIs(CopyOf(r, rows')))
      BY <2>3 DEF Closes
    <3>3. RunIs(CopyOf(r, rows')) \in RunAnswer
      BY <3>1, CopyType, AnswerTypes DEF Typed, ServerTyped
    <3>4. \A q \in Runs : rows[q].writes <= rows'[q].writes
      BY <1>0, <3>1, <3>2, WritesGrow
    <3> QED
      BY <2>1, <3>1, <3>2, <3>3, <3>4, AnswerPast
  <2>4. ASSUME NEW r \in Waits(c), Works(i, r), UNCHANGED rows
        PROVE  ServerAnswers
    <3>1. r \in Runs
      BY DEF Waits
    <3>2. /\ DOMAIN requests' = DOMAIN requests
          /\ \A j \in DOMAIN requests : j # i => requests'[j] = requests[j]
          /\ requests'[i].answer = requests[i].answer /\ requests'[i].target = requests[i].target
      BY <2>1, <2>4, <3>1, WorksType
    <3> QED
      BY <1>0, <2>1, <2>4, <3>2 DEF ServerAnswers
  <2>5. \/ \E a \in RunAnswer : a.kind # "run" /\ Answer(i, a) /\ UNCHANGED server
        \/ \E r \in Waits(c) : Closes(i, r) \/ (Works(i, r) /\ UNCHANGED rows)
    <3>1. /\ Refusal("error") \in RunAnswer /\ Refusal("error").kind # "run"
          /\ Refusal("undecided") \in RunAnswer /\ Refusal("undecided").kind # "run"
      BY AnswerTypes DEF Refusal
    <3>2. CASE Answer(i, Refusal("error")) /\ UNCHANGED server
      BY <3>1, <3>2
    <3>3. ASSUME NEW r \in Waits(c) \ DOMAIN active,
                 CASE commands[c] = "pending" -> Answer(i, Refusal("undecided")) /\ UNCHANGED server
                   [] commands[c] \in {"rejected", "executed"} -> Closes(i, r)
                   [] commands[c] = "approved" ->
                        /\ Works(i, r)
                        /\ commands' = [commands EXCEPT ![c] = "executed"]
                        /\ UNCHANGED rows
          PROVE  \/ Answer(i, Refusal("undecided")) /\ UNCHANGED server
                 \/ Closes(i, r) \/ (Works(i, r) /\ UNCHANGED rows)
      <4>1. commands[c] \in CommandStates \ {"none"}
        <5>1. r \in Runs /\ rows[r].command = c /\ rows[r].status = "awaiting_approval"
          BY DEF Waits
        <5>2. c # Null /\ commands[c] # "none"
          BY <5>1 DEF ServerFits, RowFits
        <5>3. c \in Commands
          BY <5>1, <5>2 DEF Typed, ServerTyped, Row, CommandsOrNull
        <5> QED
          BY <5>2, <5>3 DEF Typed, ServerTyped
      <4> HIDE DEF c
      <4>2. CASE commands[c] = "pending"
        BY <3>3, <4>2
      <4>3. CASE commands[c] \in {"rejected", "executed"}
        BY <3>3, <4>3
      <4>4. CASE commands[c] = "approved"
        BY <3>3, <4>4
      <4> QED
        BY <4>1, <4>2, <4>3, <4>4 DEF CommandStates
    <3> QED
      BY <1>2, <3>1, <3>2, <3>3 DEF resumeRun
  <2> QED
    BY <2>2, <2>3, <2>4, <2>5
<1>3. ASSUME NEW r \in Runs, WorkEnds(r)
      PROVE  ServerAnswers
  <2>1. UNCHANGED <<screen, loads, decisions>>
    BY <1>3 DEF WorkEnds
  <2>2. \A q \in Runs : rows[q].writes <= rows'[q].writes
    <3>1. CASE rows' = Write(r, "ended", Null)
      BY <1>0, <3>1, WritesGrow
    <3>2. ASSUME NEW n \in 1 .. MaxCommands[r], rows' = Write(r, "awaiting_approval", <<r, n>>)
          PROVE  \A q \in Runs : rows[q].writes <= rows'[q].writes
      BY <1>0, <3>2, IsCommand, WritesGrow
    <3> QED
      BY <1>3, <3>1, <3>2 DEF WorkEnds
  <2>3. CASE active[r] = Null
    <3>1. UNCHANGED requests
      BY <1>3, <2>3 DEF WorkEnds
    <3> QED
      BY <2>1, <2>2, <3>1 DEF ServerAnswers
  <2>4. CASE active[r] # Null
    <3>1. active[r] \in DOMAIN requests /\ Answer(active[r], RunIs(CopyOf(r, rows')))
      BY <1>3, <2>4 DEF WorkEnds, ServerFits, WorkFits
    <3>2. RunIs(CopyOf(r, rows')) \in RunAnswer
      BY CopyType, AnswerTypes DEF Typed, ServerTyped
    <3> QED
      BY <2>1, <2>2, <3>1, <3>2, AnswerPast
  <2> QED
    BY <2>3, <2>4
<1>4. ASSUME Restart
      PROVE  ServerAnswers
  <2>1. /\ DOMAIN requests' \subseteq DOMAIN requests /\ UNCHANGED <<rows, screen, loads, decisions>>
        /\ \A i \in DOMAIN requests' :
             requests'[i] = IF requests[i].handled /\ requests[i].answer = Null
                            THEN [requests[i] EXCEPT !.answer = Refusal("error")] ELSE requests[i]
    BY <1>4 DEF Restart
  <2>2. ASSUME NEW i \in DOMAIN requests'
        PROVE  /\ requests'[i].target = requests[i].target
               /\ requests'[i].answer = requests[i].answer \/ requests'[i].answer.kind # "run"
    <3>1. requests[i] \in Request
      BY <2>1 DEF Typed, RequestsTyped
    <3> QED
      BY <2>1, <3>1 DEF Request, Refusal
  <2> QED
    BY <1>0, <2>1, <2>2 DEF ServerAnswers
<1>5. ASSUME NEW c \in Commands, NEW decision \in {"approved", "rejected"}, Settle(c, decision)
      PROVE  \A r \in Runs : rows[r].writes <= rows'[r].writes
  <2>1. ASSUME NEW r \in Runs
        PROVE  rows[r].writes <= rows'[r].writes
    <3>1. rows'[r] = rows[r] \/ rows'[r] = Write(r, "ended", Null)[r]
      BY <1>5, SettleType
    <3> QED
      BY <1>0, <3>1, WritesGrow
  <2> QED
    BY <2>1
<1>6. ASSUME NEW d \in decisions, Decided(d)
      PROVE  ServerAnswers
  <2>1. d \in Decision /\ UNCHANGED <<screen, loads, requests>>
    BY <1>6 DEF Decided, Typed, DialogTyped
  <2>2. ASSUME NEW a, Answers(d, a), a.kind # "run" \/ \E r \in Runs : a = RunIs(CopyOf(r, rows')),
               \A r \in Runs : rows[r].writes <= rows'[r].writes
        PROVE  ServerAnswers
    <3>1. [d EXCEPT !.answer = a].answer = a
      BY <2>1 DEF Decision
    <3>2. \A e \in decisions' : e \in decisions \/ e.answer = a
      BY <2>2, <3>1 DEF Answers
    <3> QED
      BY <2>1, <2>2, <3>2 DEF ServerAnswers
  <2>3. Refusal("error").kind # "run" /\ Refusal("none").kind # "run"
    BY DEF Refusal
  <2>4. CASE commands[d.command] # "pending"
    <3>1. Answers(d, Refusal("error")) /\ UNCHANGED server
      BY <1>6, <2>4 DEF Decided
    <3> QED
      BY <1>0, <2>2, <2>3, <3>1 DEF server
  <2>5. CASE commands[d.command] = "pending"
    <3> DEFINE closed == {r \in Waits(d.command) : d.decision = "rejected"}
               a == IF closed = {} THEN Refusal("none") ELSE RunIs(CopyOf(CHOOSE r \in closed : TRUE, rows'))
    <3>1. Settle(d.command, d.decision) /\ Answers(d, a)
      BY <1>6, <2>5 DEF Decided
    <3>2. a.kind # "run" \/ \E r \in Runs : a = RunIs(CopyOf(r, rows'))
      <4>1. closed \subseteq Runs
        BY DEF Waits
      <4> HIDE DEF closed
      <4>2. closed # {} => (CHOOSE r \in closed : TRUE) \in Runs
        BY <4>1
      <4> QED
        BY <2>3, <4>2
    <3> HIDE DEF a
    <3> QED
      BY <1>5, <2>1, <2>2, <3>1, <3>2 DEF Decision
  <2> QED
    BY <2>4, <2>5
<1>7. ASSUME NEW c \in Commands, DecideElsewhere(c) \/ ResumeElsewhere(c)
      PROVE  ServerAnswers
  <2>1. UNCHANGED <<screen, loads, requests, decisions>>
    BY <1>7 DEF DecideElsewhere, ResumeElsewhere
  <2>2. \A r \in Runs : rows[r].writes <= rows'[r].writes
    BY <1>0, <1>5, <1>7 DEF DecideElsewhere, ResumeElsewhere
  <2> QED
    BY <2>1, <2>2 DEF ServerAnswers
<1> QED
  BY <1>1, <1>2, <1>3, <1>4, <1>6, <1>7

-----------------------------------------------------------------------------
(* The theorems. *)

LEMMA InitInvariant == Init => IInv
<1> SUFFICES ASSUME Init
             PROVE  IInv
  OBVIOUS
<1>0. /\ \A r \in Waiting : <<r, 1>> \in Commands
      /\ Null \in CommandsOrNull /\ Commands \subseteq CommandsOrNull
  <2>1. ASSUME NEW r \in Waiting
        PROVE  <<r, 1>> \in Commands
    <3>1. r \in Runs /\ MaxCommands[r] \in Nat /\ MaxCommands[r] > 0
      BY RunDialogAssumption
    <3>2. 1 \in 1 .. MaxCommands[r]
      BY <3>1
    <3> QED
      BY <3>1, <3>2, IsCommand
  <2> QED
    BY <2>1 DEF CommandsOrNull
<1>1. ServerTyped
  BY <1>0 DEF Init, ServerTyped, Row, NoRow, Statuses, CommandStates
<1>2. RequestsTyped
  BY DEF Init, RequestsTyped
<1>3. DialogTyped
  BY BlankType, RunDialogAssumption DEF Init, DialogTyped
<1>4. Bounded
  BY FS_EmptySet, RunDialogAssumption DEF Init, Bounded
<1>5. ServerFits
  <2>1. ASSUME NEW r \in Runs
        PROVE  RowFits(r)
    <3>1. CASE r \in Waiting
      <4>1. rows[r].command = <<r, 1>> /\ rows[r].status = "awaiting_approval"
        BY <3>1 DEF Init
      <4>2. <<r, 1>> \in Commands /\ <<r, 1>> # Null /\ commands[<<r, 1>>] = "pending"
        BY <1>0, <3>1, NoCommand DEF Init
      <4> QED
        BY <4>1, <4>2 DEF RowFits, Init
    <3>2. CASE r \notin Waiting
      BY <3>2 DEF RowFits, Init, NoRow
    <3> QED
      BY <3>1, <3>2
  <2> QED
    BY <2>1 DEF ServerFits, Init
<1>6. Handled /\ Stoppable
  BY DEF Init, Handled, Stoppable, Blank
<1>7. Carried
  <2>1. ASSUME NEW r \in Runs, rows[r].command # Null
        PROVE  commands[rows[r].command] # "approved"
    <3>1. rows[r].command \in Commands
      BY <1>1, <2>1 DEF ServerTyped, Row, CommandsOrNull
    <3> QED
      BY <3>1 DEF Init
  <2> QED
    BY <2>1 DEF Carried, CarriedOn
<1>8. CardFits /\ AsSeen
  BY DEF Init, CardFits, AsSeen
<1>9. Copies /\ Newer
  <2>1. ListPast(Blank.history) /\ Blank.run = Null
    BY <1>1, <1>2, <1>3, BlankPast DEF Typed
  <2> QED
    BY <2>1 DEF Init, Copies, Newer, ListFits
<1> QED
  BY <1>1, <1>2, <1>3, <1>4, <1>5, <1>6, <1>7, <1>8, <1>9 DEF IInv, Typed

LEMMA StepInvariant == IInv /\ [Next]_vars => IInv'
<1> SUFFICES ASSUME IInv, [Next]_vars
             PROVE  IInv'
  OBVIOUS
<1>0. /\ Typed /\ Bounded /\ ServerFits /\ Handled /\ Stoppable /\ Carried
      /\ CardFits /\ AsSeen /\ Copies /\ Newer
  BY DEF IInv
<1>1. CASE UNCHANGED vars
  BY <1>0, <1>1
  DEF vars, IInv, Typed, ServerTyped, RequestsTyped, DialogTyped, Bounded, ServerFits, RowFits, WorkFits, Handled,
      Stoppable, Carried, CarriedOn, Told, ByDecision, ByRequest, CardFits, AsSeen, Copies, RequestPast,
      DecisionPast, Past, ListPast, Newer, ListFits
<1>2. CASE Next
  <2>1. Bounded' /\ AsSeen'
    BY <1>0, <1>2, BoundedKept, AsSeenKept
  <2>2. ASSUME Typed' /\ CardFits', DialogStep, Handled' /\ Stoppable', Copies' /\ Newer'
        PROVE  IInv'
    BY <1>0, <2>1, <2>2, DialogKeeps DEF IInv
  <2>3. CASE User
    BY <1>0, <2>2, <2>3, UserTypes, UserKeeps, UserPast
  <2>4. CASE CardAsks \/ CardLoads \/ \E l \in loads : LoadReads(l) \/ LoadArrives(l) \/ LoadFails(l)
    BY <1>0, <2>2, <2>4, ReadTypes, ReadKeeps, ReadPast
  <2>5. CASE \/ \E i \in Ids : Answered(i) \/ Stopped(i) \/ Lose(i) \/ NeverArrives(i)
             \/ \E d \in decisions : DecisionAnswered(d) \/ LoseDecision(d)
    BY <1>0, <2>2, <2>5, AnswerTypesStep, AnswersKeep, AnswersPast
  <2>6. CASE \/ \E i \in Ids : startRun(i) \/ resumeRun(i)
             \/ \E r \in Runs : WorkEnds(r)
             \/ Restart
             \/ \E d \in decisions : Decided(d)
             \/ \E c \in Commands : DecideElsewhere(c) \/ ResumeElsewhere(c)
    <3>1. Typed' /\ CardFits'
      BY <1>0, <2>6, ServerTypes
    <3>2. ServerAnswers
      BY <1>0, <2>6, <3>1, AnswersServer
    <3>3. Copies' /\ Newer'
      BY <1>0, <3>1, <3>2, ServerPast
    <3>4. ServerFits' /\ Handled' /\ Stoppable' /\ Carried'
      BY <1>0, <2>6, StartKeeps, ResumeKeeps, EndKeeps, RestartKeeps, DecidedKeeps, ElsewhereKeeps
    <3> QED
      BY <2>1, <3>1, <3>3, <3>4 DEF IInv
  <2> QED
    BY <1>2, <2>3, <2>4, <2>5, <2>6 DEF Next
<1> QED
  BY <1>1, <1>2

LEMMA Invariance == Spec => []IInv
BY InitInvariant, StepInvariant, PTL DEF Spec

LEMMA CarriedOnInvariant == IInv => ApprovedIsCarriedOn
<1> SUFFICES ASSUME IInv
             PROVE  ApprovedIsCarriedOn
  OBVIOUS
<1>1. TypeOK
  <2>1. Cardinality(decisions) <= MaxDecisions + 1
    <3>1. Cardinality(decisions) \in Nat /\ MaxDecisions \in Nat /\ Cardinality(decisions) <= MaxDecisions
      BY FS_CardinalityType, RunDialogAssumption DEF IInv, Bounded
    <3> QED
      BY <3>1
  <2>2. Typed
    BY DEF IInv
  <2>3. \A c \in Commands : commands[c] \in {"none", "pending", "approved", "rejected", "executed"}
    BY <2>2 DEF Typed, ServerTyped, CommandStates
  <2>4. \A i \in DOMAIN requests : requests[i].mode \in Modes /\ requests[i].command \in CommandsOrNull
    BY <2>2 DEF Typed, RequestsTyped, Request
  <2>5. card # Null => card.command \in Commands /\ card.decision \in {Null, "approved", "rejected"}
    BY <2>2 DEF Typed, DialogTyped, Card
  <2>6. screen.run \in Copy \cup {Null} /\ screen.busy \in Modes \cup {Null}
    BY <2>2 DEF Typed, DialogTyped, Screen
  <2> QED
    BY <2>1, <2>2, <2>3, <2>4, <2>5, <2>6 DEF TypeOK, Typed, ServerTyped, RequestsTyped, DialogTyped
<1>2. \A d \in decisions : d.seen = d.command
  BY DEF IInv, AsSeen
<1>3. ASSUME NEW r \in Runs, NEW c, c = rows[r].command, c # Null, c \notin excused, commands[c] = "approved"
      PROVE  (\E d \in decisions : d.command = c) \/ Tellers(c) # {}
  <2>1. Told(c)
    BY <1>3, IsTold DEF IInv
  <2> QED
    BY <2>1 DEF Told, ByDecision, ByRequest, Tellers
<1> QED
  BY <1>1, <1>2, <1>3 DEF ApprovedIsCarriedOn

\* resolveApproval and perform: an approval that the dialog got recorded reaches its run, whether or not
\* the dialog is still open, and a decision is about the command that was on the card.
THEOREM CarriedOnCorrect == Spec => []ApprovedIsCarriedOn
BY Invariance, CarriedOnInvariant, PTL

\* loadHistory: with no load under way the recent runs are at least as new as the run that is shown.
THEOREM HistoryCorrect == Spec => []HistoryKeepsUp
<1>1. IInv => HistoryKeepsUp
  BY DEF IInv, Newer, ListFits, HistoryKeepsUp
<1> QED
  BY <1>1, Invariance, PTL
=============================================================================
