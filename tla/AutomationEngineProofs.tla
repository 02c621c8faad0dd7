----------------------- MODULE AutomationEngineProofs -----------------------
(* Proofs about AutomationEngine, for every number of workflows, events, requests and faults. *)
EXTENDS AutomationEngine, SequenceTheorems, WellFoundedInduction, TLAPS

USE EngineAssumption

-----------------------------------------------------------------------------
(* The inductive invariant. *)

\* A call that may be caller c's: the scheduler's call for a workflow runs that workflow, and
\* only a handler has more to come to, each workflow once.
FitsCaller(c, call) ==
  /\ call \in Call
  /\ c \in Workflows => call.running \in {Null, c}
  /\ c \notin Handlers => call.todo = <<>>
  /\ \A i \in DOMAIN call.todo : call.todo[i].workflow # call.running
  /\ \A i, j \in DOMAIN call.todo : i # j => call.todo[i].workflow # call.todo[j].workflow

\* The counts a call was begun with are counts of logged runs.
CountsFit(call, log) ==
  /\ call.running # Null => call.runCount <= log[call.running]
  /\ \A i \in DOMAIN call.todo : call.todo[i].runCount <= log[call.todo[i].workflow]

CallsFit == \A c \in Callers : FitsCaller(c, calls[c]) /\ CountsFit(calls[c], logged)

\* inFlight against the calls, apart from the types.
Exact ==
  /\ inFlight = {calls[c].running : c \in Guarded} \ {Null}
  /\ \A c, d \in Guarded : calls[c].running = calls[d].running => c = d \/ calls[c].running = Null

\* What is due was started once for each fault since it is due, and once more if it is running.
RowFits(w) ==
  /\ automations[w].due => Exists(w)
  /\ automations[w].state = "absent" => starts[w] = 0
  /\ automations[w].due => starts[w] <= faults + (IF calls[w].running = w THEN 1 ELSE 0)
  /\ starts[w] <= 1 + faults
  /\ automations[w].runCount <= logged[w]

RowsFit == \A w \in Workflows : RowFits(w)

IInv == TypeOK /\ Exact /\ CallsFit /\ RowsFit

-----------------------------------------------------------------------------
(* The operators. *)

\* A set of natural numbers has a least element.
LEMMA LeastNumber ==
  ASSUME NEW S \in SUBSET Nat, S # {}
  PROVE  \E i \in S : \A k \in S : i <= k
<1> DEFINE R == {p \in Nat \X Nat : p[1] < p[2]}
<1>1. IsWellFoundedOn(R, Nat)
  BY NatLessThanWellFounded DEF OpToRel
<1>2. PICK i \in S : \A k \in S : ~(<<k, i>> \in R)
  <2> HIDE DEF R
  <2> QED
    BY <1>1, WFMin
<1>3. ASSUME NEW k \in S PROVE i <= k
  <2>1. i \in Nat /\ k \in Nat
    OBVIOUS
  <2>2. <<k, i>> \in R <=> k < i
    BY <2>1
  <2> QED
    BY <1>2, <2>1, <2>2
<1> QED
  BY <1>3

\* Counting up to the bound keeps the order of two counts.
LEMMA IncrementIsMonotone ==
  ASSUME NEW m \in Nat, NEW n \in Nat, m <= n
  PROVE  Increment(m) \in Nat /\ Increment(m) <= Increment(n) /\ n <= Increment(n)
BY DEF Increment

\* A caller that runs nothing fits everywhere.
LEMMA NoCallFits ==
  ASSUME NEW c, NEW log
  PROVE  FitsCaller(c, NoCall) /\ CountsFit(NoCall, log)
<1>1. NoCall \in Call
  <2>1. <<>> \in Seq(Snapshot)
    BY EmptySeq
  <2> QED
    BY <2>1 DEF NoCall, Call
<1> QED
  BY <1>1 DEF FitsCaller, CountsFit, NoCall

\* So does the call for one workflow, with the count that was read for it, where it may run.
LEMMA SingleRunFits ==
  ASSUME NEW c, NEW log, NEW s \in Snapshot, c \in Workflows => s.workflow = c,
         s.runCount <= log[s.workflow]
  PROVE  FitsCaller(c, Running(s, <<>>)) /\ CountsFit(Running(s, <<>>), log)
<1>1. Running(s, <<>>) \in Call
  <2>1. <<>> \in Seq(Snapshot)
    BY EmptySeq
  <2> QED
    BY <2>1 DEF Running, Call, Snapshot
<1> QED
  BY <1>1 DEF FitsCaller, CountsFit, Running, Snapshot

\* Where the loop of handleEventTrigger goes on: with a workflow of its list that is not in
\* flight, and with a part of the list that does not hold that workflow; or the handler is done.
LEMMA ContinueFits ==
  ASSUME NEW h \in Handlers, NEW log, NEW busy, NEW todo \in Seq(Snapshot),
         \A i, j \in DOMAIN todo : i # j => todo[i].workflow # todo[j].workflow,
         \A i \in DOMAIN todo : todo[i].runCount <= log[todo[i].workflow]
  PROVE  /\ FitsCaller(h, Continue(todo, busy))
         /\ CountsFit(Continue(todo, busy), log)
         /\ Continue(todo, busy).running \notin busy \ {Null}
         /\ Continue(todo, busy) # NoCall => Continue(todo, busy).running \in Workflows
<1> DEFINE Free == {i \in DOMAIN todo : MayRun(todo[i].workflow, busy)}
<1>1. CASE Free = {}
  <2>1. Continue(todo, busy) = NoCall
    BY <1>1 DEF Continue
  <2>2. FitsCaller(h, NoCall) /\ CountsFit(NoCall, log)
    BY NoCallFits
  <2>3. NoCall.running = Null
    BY DEF NoCall
  <2> QED
    BY <2>1, <2>2, <2>3
<1>2. CASE Free # {}
  <2> DEFINE i == CHOOSE j \in Free : \A k \in Free : j <= k
             rest == SubSeq(todo, i + 1, Len(todo))
  <2>1. DOMAIN todo = 1 .. Len(todo) /\ Len(todo) \in Nat
    BY LenProperties
  <2>2. i \in Free
    <3>1. Free \in SUBSET Nat
      BY <2>1
    <3>2. \E j \in Free : \A k \in Free : j <= k
      BY <1>2, <3>1, LeastNumber
    <3> QED
      BY <3>2
  <2>3. Continue(todo, busy) = Running(todo[i], rest)
    BY <1>2 DEF Continue
  <2> HIDE DEF i
  <2>4. i \in 1 .. Len(todo) /\ todo[i] \in Snapshot /\ todo[i].workflow \notin busy
    BY <2>1, <2>2, ElementOfSeq DEF MayRun
  <2>5. /\ rest \in Seq(Snapshot)
        /\ \A k \in DOMAIN rest : i + k \in DOMAIN todo /\ rest[k] = todo[i + k] /\ k \in Nat \ {0}
    <3>1. i + 1 \in Int /\ Len(todo) \in Int /\ \A k \in (i + 1) .. Len(todo) : todo[k] \in Snapshot
      BY <2>1, <2>4, ElementOfSeq
    <3>2. /\ rest \in Seq(Snapshot)
          /\ Len(rest) = IF i + 1 <= Len(todo) THEN Len(todo) - (i + 1) + 1 ELSE 0
          /\ \A k \in 1 .. Len(todo) - (i + 1) + 1 : rest[k] = todo[(i + 1) + k - 1]
      <4> HIDE DEF rest
      <4> QED
        BY <3>1, SubSeqProperties DEF rest
    <3>3. DOMAIN rest = 1 .. Len(rest)
      BY <3>2, LenProperties
    <3>4. ASSUME NEW k \in DOMAIN rest
          PROVE  i + k \in DOMAIN todo /\ rest[k] = todo[i + k] /\ k \in Nat \ {0}
      <4> HIDE DEF rest
      <4>1. k \in 1 .. Len(todo) - (i + 1) + 1 /\ k \in Nat \ {0} /\ i + k \in 1 .. Len(todo)
        BY <2>1, <2>4, <3>2, <3>3
      <4>2. (i + 1) + k - 1 = i + k
        BY <2>4, <4>1
      <4> QED
        BY <2>1, <3>2, <4>1, <4>2
    <3> QED
      BY <3>2, <3>4
  <2> HIDE DEF rest
  <2>6. Running(todo[i], rest) \in Call
    BY <2>4, <2>5 DEF Running, Call, Snapshot
  <2>7. /\ Running(todo[i], rest).running = todo[i].workflow
        /\ Running(todo[i], rest).runCount = todo[i].runCount
        /\ Running(todo[i], rest).todo = rest
    BY DEF Running
  <2>8. h \notin Workflows
    OBVIOUS
  <2>9. \A k \in DOMAIN rest : rest[k].workflow # todo[i].workflow
    BY <2>1, <2>4, <2>5
  <2>10. \A k, l \in DOMAIN rest : k # l => rest[k].workflow # rest[l].workflow
    BY <2>1, <2>4, <2>5
  <2>11. FitsCaller(h, Running(todo[i], rest))
    BY <2>6, <2>7, <2>8, <2>9, <2>10 DEF FitsCaller
  <2>12. CountsFit(Running(todo[i], rest), log)
    BY <2>1, <2>4, <2>5, <2>7 DEF CountsFit
  <2> QED
    BY <2>3, <2>4, <2>7, <2>11, <2>12 DEF Snapshot
<1> QED
  BY <1>1, <1>2

\* Counts only grow, so what fits keeps fitting.
LEMMA CountsStayFit ==
  ASSUME NEW call \in Call, NEW log \in [Workflows -> Nat], NEW grown \in [Workflows -> Nat],
         \A w \in Workflows : log[w] <= grown[w], CountsFit(call, log)
  PROVE  CountsFit(call, grown)
<1>1. \A i \in DOMAIN call.todo : call.todo[i] \in Snapshot
  <2>1. call.todo \in Seq(Snapshot)
    BY DEF Call
  <2>2. DOMAIN call.todo = 1 .. Len(call.todo)
    BY <2>1, LenProperties
  <2> QED
    BY <2>1, <2>2, ElementOfSeq
<1>2. \A i \in DOMAIN call.todo : call.todo[i].runCount <= grown[call.todo[i].workflow]
  BY <1>1 DEF Snapshot, CountsFit
<1>3. call.running # Null => call.runCount <= grown[call.running]
  BY DEF Call, CountsFit
<1> QED
  BY <1>2, <1>3 DEF CountsFit

\* With nothing left on its list a loop is done.
LEMMA ContinueEmpty == ASSUME NEW busy PROVE Continue(<<>>, busy) = NoCall
<1>1. DOMAIN <<>> = {}
  OBVIOUS
<1> QED
  BY <1>1 DEF Continue

-----------------------------------------------------------------------------
(* The calls in a step. *)

\* The types of the calls follow from their fitting.
LEMMA CallsHaveTypes ==
  ASSUME DOMAIN calls = Callers, calls = [c \in Callers |-> calls[c]], CallsFit
  PROVE  calls \in [Callers -> Call] /\ \A c \in Callers : ComesOnce(c)
BY DEF CallsFit, FitsCaller, ComesOnce

\* One caller goes from what it ran to something that no guarded caller runs, or to nothing, and
\* the set in flight follows.
LEMMA OneCallMoves ==
  ASSUME Exact, NEW c \in Callers, NEW n \in Workflows \cup {Null},
         calls'[c].running = n,
         \A d \in Callers \ {c} : calls'[d].running = calls[d].running,
         c \in Requests => inFlight' = inFlight,
         c \notin Requests => /\ inFlight' = (inFlight \ {calls[c].running}) \cup ({n} \ {Null})
                              /\ n \notin inFlight \ {calls[c].running}
  PROVE  Exact'
<1>1. CASE c \in Requests
  <2>1. \A d \in Guarded : d \in Callers \ {c}
    BY <1>1 DEF Guarded, Callers
  <2>2. \A d \in Guarded : calls'[d].running = calls[d].running
    BY <2>1
  <2> QED
    BY <1>1, <2>2 DEF Exact
<1>2. CASE c \notin Requests
  <2>1. c \in Guarded /\ \A d \in Guarded \ {c} : calls'[d].running = calls[d].running
    BY <1>2 DEF Guarded, Callers
  <2>2. \A d \in Guarded \ {c} : calls[d].running = calls[c].running => calls[d].running = Null
    BY <2>1 DEF Exact
  <2>3. \A d \in Guarded \ {c} : calls[d].running = n => n = Null
    BY <1>2, <2>1, <2>2 DEF Exact
  <2>4. inFlight' = {calls'[d].running : d \in Guarded} \ {Null}
    <3>1. ASSUME NEW w \in inFlight' PROVE w \in {calls'[d].running : d \in Guarded} \ {Null}
      BY <1>2, <2>1, <3>1 DEF Exact
    <3>2. ASSUME NEW d \in Guarded, calls'[d].running # Null PROVE calls'[d].running \in inFlight'
      BY <1>2, <2>1, <2>2, <3>2 DEF Exact
    <3> QED
      BY <3>1, <3>2, <1>2 DEF Exact
  <2>5. ASSUME NEW d \in Guarded, NEW e \in Guarded, calls'[d].running = calls'[e].running
        PROVE  d = e \/ calls'[d].running = Null
    BY <2>1, <2>3, <2>5 DEF Exact
  <2> QED
    BY <2>4, <2>5 DEF Exact
<1> QED
  BY <1>1, <1>2

\* What a handler may be told to run is a proper list, with the counts of the table.
LEMMA MatchingFits ==
  ASSUME IInv, NEW todo \in Todos, Matching(todo)
  PROVE  /\ todo \in Seq(Snapshot)
         /\ \A i, j \in DOMAIN todo : i # j => todo[i].workflow # todo[j].workflow
         /\ \A i \in DOMAIN todo : todo[i].runCount <= logged[todo[i].workflow]
<1>1. \A w \in Workflows : Read(w) \in Snapshot /\ Read(w).runCount <= logged[Read(w).workflow]
  BY DEF IInv, TypeOK, RowsFit, RowFits, Row, Read, Snapshot
<1>2. PICK n \in 1 .. Cardinality(Workflows) : todo \in [1 .. n -> {Read(w) : w \in Workflows}]
  BY DEF Todos
<1>3. todo \in [1 .. n -> Snapshot] /\ n \in Nat
  BY <1>1, <1>2
<1>4. todo \in Seq(Snapshot)
  BY <1>3, SeqDef
<1> QED
  BY <1>1, <1>2, <1>4 DEF Matching

\* The run at the end of a callback: the caller goes on with its list or ends, the others stay.
LEMMA EndFits ==
  ASSUME IInv, NEW c \in Callers, NEW ok \in BOOLEAN, calls[c].running # Null, End(c, ok)
  PROVE  /\ calls' = [calls EXCEPT ![c] = calls'[c]]
         /\ c \notin Handlers => calls'[c] = NoCall
         /\ FitsCaller(c, calls'[c]) /\ CountsFit(calls'[c], logged)
         /\ inFlight' \subseteq Workflows
         /\ Exact'
<1> DEFINE busy == IF c \in Requests THEN inFlight ELSE inFlight \ {calls[c].running}
           next == IF ok THEN Continue(calls[c].todo, busy) ELSE NoCall
<1> USE DEF IInv, TypeOK
<1>1. calls' = [calls EXCEPT ![c] = next] /\ inFlight' = busy \cup ({next.running} \ {Null})
  BY DEF End
<1>2. calls'[c] = next /\ \A d \in Callers \ {c} : calls'[d] = calls[d]
  BY <1>1
<1>3. FitsCaller(c, NoCall) /\ CountsFit(NoCall, logged) /\ NoCall.running = Null
  <2>1. NoCall.running = Null
    BY DEF NoCall
  <2> QED
    BY <2>1, NoCallFits
<1>4. /\ c \notin Handlers => next = NoCall
      /\ FitsCaller(c, next) /\ CountsFit(next, logged)
      /\ next.running \notin busy \ {Null}
  <2>1. CASE ~ok
    BY <1>3, <2>1
  <2>2. CASE ok /\ c \notin Handlers
    <3>1. next = NoCall
      BY <2>2, ContinueEmpty DEF CallsFit, FitsCaller
    <3> QED
      BY <1>3, <3>1
  <2>3. CASE ok /\ c \in Handlers
    <3>1. /\ calls[c].todo \in Seq(Snapshot)
          /\ \A i, j \in DOMAIN calls[c].todo :
               i # j => calls[c].todo[i].workflow # calls[c].todo[j].workflow
          /\ \A i \in DOMAIN calls[c].todo :
               calls[c].todo[i].runCount <= logged[calls[c].todo[i].workflow]
      BY DEF CallsFit, FitsCaller, CountsFit, Call
    <3>2. next = Continue(calls[c].todo, busy)
      BY <2>3
    <3> HIDE DEF next, busy
    <3> QED
      BY <2>3, <3>1, <3>2, ContinueFits
  <2> QED
    BY <2>1, <2>2, <2>3
<1>5. next.running \in Workflows \cup {Null}
  BY <1>4 DEF FitsCaller, Call
<1>6. Null \notin inFlight
  BY DEF Exact
<1> HIDE DEF next
<1>7. c \in Requests => next.running = Null
  BY <1>3, <1>4
<1>8. Exact'
  <2>1. c \in Requests => inFlight' = inFlight
    BY <1>1, <1>7
  <2>2. c \notin Requests => /\ inFlight' = (inFlight \ {calls[c].running}) \cup ({next.running} \ {Null})
                             /\ next.running \notin inFlight \ {calls[c].running}
    BY <1>1, <1>4, <1>6
  <2> QED
    BY <1>2, <1>5, <2>1, <2>2, OneCallMoves
<1>9. inFlight' \subseteq Workflows
  BY <1>1, <1>5
<1>10. calls' = [calls EXCEPT ![c] = calls'[c]]
  BY <1>1, <1>2
<1> QED
  BY <1>2, <1>4, <1>8, <1>9, <1>10

-----------------------------------------------------------------------------
(* The actions. *)

\* The invariant speaks of nothing else: it is kept while all the state stays.
LEMMA QuietFits == IInv /\ UNCHANGED vars => IInv'
BY DEF IInv, TypeOK, ComesOnce, Exact, CallsFit, RowsFit, RowFits, Exists, vars

\* What the users and the clock change is the table and the count of starts.
LEMMA TableFits ==
  ASSUME IInv, UNCHANGED <<inFlight, calls, faults, logged>>, stimuli' \in 0 .. MaxStimuli,
         automations' \in [Workflows -> Row], starts' \in [Workflows -> Nat],
         \A w \in Workflows : RowFits(w)'
  PROVE  IInv'
BY DEF IInv, TypeOK, ComesOnce, Exact, CallsFit, RowsFit

\* A row that a user saves is a row.
LEMMA SaveType ==
  ASSUME TypeOK, NEW w \in Workflows, NEW n \in Nat, Save(w, n)
  PROVE  /\ automations' \in [Workflows -> Row]
         /\ \A v \in Workflows \ {w} : automations'[v] = automations[v]
         /\ automations'[w].state \in {"active", "paused"}
         /\ automations'[w].runCount = n
BY DEF Save, TypeOK, Row

\* A workflow that a user saves is new: nothing was started for it.
LEMMA CreateFits == ASSUME IInv, NEW w \in Workflows, CreateAutomation(w) PROVE IInv'
<1> USE DEF IInv, TypeOK
<1>1. /\ automations' \in [Workflows -> Row]
      /\ \A v \in Workflows \ {w} : automations'[v] = automations[v]
      /\ automations'[w].state \in {"active", "paused"}
      /\ automations'[w].runCount = 0
  BY SaveType DEF CreateAutomation
<1>2. starts[w] = 0
  BY DEF CreateAutomation, RowsFit, RowFits
<1>3. \A v \in Workflows : RowFits(v)'
  BY <1>1, <1>2 DEF CreateAutomation, RowsFit, RowFits, Exists
<1> QED
  BY <1>1, <1>3, TableFits DEF CreateAutomation, Stimulus

\* A workflow that a user edits keeps its count, and its starts are counted anew.
LEMMA UpdateFits == ASSUME IInv, NEW w \in Workflows, UpdateAutomation(w) PROVE IInv'
<1> USE DEF IInv, TypeOK
<1>1. automations[w].runCount \in Nat
  BY DEF Row
<1>2. /\ automations' \in [Workflows -> Row]
      /\ \A v \in Workflows \ {w} : automations'[v] = automations[v]
      /\ automations'[w].state \in {"active", "paused"}
      /\ automations'[w].runCount = automations[w].runCount
  BY <1>1, SaveType DEF UpdateAutomation
<1>3. starts' = [starts EXCEPT ![w] = 0]
  BY DEF UpdateAutomation
<1>4. \A v \in Workflows : RowFits(v)'
  BY <1>2, <1>3 DEF UpdateAutomation, RowsFit, RowFits, Exists
<1>5. UNCHANGED <<inFlight, calls, faults, logged>> /\ stimuli' \in 0 .. MaxStimuli
  BY DEF UpdateAutomation, Stimulus
<1>6. starts' \in [Workflows -> Nat]
  BY <1>3
<1> QED
  BY <1>2, <1>4, <1>5, <1>6, TableFits

\* A workflow that is deleted is not due any more.
LEMMA DeleteFits == ASSUME IInv, NEW w \in Workflows, DeleteAutomation(w) PROVE IInv'
<1> USE DEF IInv, TypeOK
<1>1. automations' = [automations EXCEPT ![w].state = "deleted", ![w].due = FALSE]
  BY DEF DeleteAutomation
<1>2. /\ automations' \in [Workflows -> Row]
      /\ \A v \in Workflows \ {w} : automations'[v] = automations[v]
      /\ automations'[w].state = "deleted" /\ ~automations'[w].due
      /\ automations'[w].runCount = automations[w].runCount
  BY <1>1 DEF Row
<1>3. \A v \in Workflows : RowFits(v)'
  BY <1>2 DEF DeleteAutomation, RowsFit, RowFits, Exists
<1>4. UNCHANGED <<inFlight, calls, faults, logged, starts>> /\ stimuli' \in 0 .. MaxStimuli
  BY DEF DeleteAutomation, Stimulus
<1> QED
  BY <1>2, <1>3, <1>4, TableFits

\* The starts of a workflow that becomes due are counted anew.
LEMMA BecomesDueFits == ASSUME IInv, NEW w \in Workflows, BecomesDue(w) PROVE IInv'
<1> USE DEF IInv, TypeOK
<1>1. automations' = [automations EXCEPT ![w].due = TRUE] /\ starts' = [starts EXCEPT ![w] = 0]
  BY DEF BecomesDue
<1>2. /\ automations' \in [Workflows -> Row]
      /\ \A v \in Workflows \ {w} : automations'[v] = automations[v]
      /\ automations'[w].state = automations[w].state
      /\ automations'[w].runCount = automations[w].runCount
  BY <1>1 DEF Row
<1>3. \A v \in Workflows : RowFits(v)'
  BY <1>1, <1>2 DEF BecomesDue, RowsFit, RowFits, Exists
<1> QED
  BY <1>1, <1>2, <1>3, TableFits DEF BecomesDue, Stimulus

\* The callers of the scheduler were idle, and what it starts was in nobody's hands.
LEMMA ScheduleFits == ASSUME IInv, CheckScheduledWorkflows PROVE IInv'
<1> DEFINE D == {w \in Workflows : Due(w) /\ MayRun(w, inFlight)}
<1> USE DEF IInv, TypeOK
<1>1. /\ calls' = [c \in Callers |-> IF c \in D THEN Running(Read(c), <<>>) ELSE calls[c]]
      /\ inFlight' = inFlight \cup D
      /\ starts' = [w \in Workflows |-> IF w \in D THEN starts[w] + 1 ELSE starts[w]]
      /\ UNCHANGED <<automations, stimuli, faults, logged>>
  BY DEF CheckScheduledWorkflows
<1>2. \A w \in D : w \in Workflows /\ w \notin inFlight /\ automations[w].due
  BY DEF Due, MayRun
<1> HIDE DEF D
<1>3. \A w \in D : calls[w].running = Null
  BY <1>2 DEF Exact, Guarded, CallsFit, FitsCaller, Callers
<1>4. \A c \in Callers : c \notin D => calls'[c] = calls[c]
  BY <1>1
<1>5. \A w \in D : calls'[w].running = w
  BY <1>1, <1>2 DEF Running, Read, Callers
<1>6. ASSUME NEW c \in Callers PROVE FitsCaller(c, calls'[c]) /\ CountsFit(calls'[c], logged)
  <2>1. CASE c \in D
    <3>1. Read(c) \in Snapshot /\ Read(c).runCount <= logged[Read(c).workflow] /\ Read(c).workflow = c
      BY <1>2, <2>1 DEF Read, Snapshot, Row, RowsFit, RowFits
    <3>2. calls'[c] = Running(Read(c), <<>>)
      BY <1>1, <2>1
    <3>3. FitsCaller(c, Running(Read(c), <<>>)) /\ CountsFit(Running(Read(c), <<>>), logged)
      BY <3>1, SingleRunFits
    <3> QED
      BY <3>2, <3>3
  <2>2. CASE c \notin D
    BY <1>4, <2>2 DEF CallsFit
  <2> QED
    BY <2>1, <2>2
<1>7. CallsFit'
  BY <1>1, <1>6 DEF CallsFit
<1>8. Exact'
  <2>1. \A c \in Guarded : c \in Callers
    BY DEF Guarded, Callers
  <2>2. \A w \in D : w \in Guarded
    BY <1>2 DEF Guarded
  <2>3. \A c \in Guarded : c \notin D => calls[c].running \notin D
    BY <1>2 DEF Exact
  <2>4. inFlight' = {calls'[c].running : c \in Guarded} \ {Null}
    <3>1. ASSUME NEW w \in inFlight' PROVE w \in {calls'[c].running : c \in Guarded} \ {Null}
      <4>1. CASE w \in D
        BY <1>2, <1>5, <2>2, <4>1
      <4>2. CASE w \in inFlight
        <5>1. PICK c \in Guarded : calls[c].running = w /\ w # Null
          BY <4>2 DEF Exact
        <5>2. c \notin D
          BY <1>3, <5>1
        <5> QED
          BY <1>4, <2>1, <5>1, <5>2
      <4> QED
        BY <1>1, <4>1, <4>2
    <3>2. ASSUME NEW c \in Guarded, calls'[c].running # Null PROVE calls'[c].running \in inFlight'
      <4>1. CASE c \in D
        BY <1>1, <1>5, <4>1
      <4>2. CASE c \notin D
        BY <1>1, <1>4, <2>1, <3>2, <4>2 DEF Exact
      <4> QED
        BY <4>1, <4>2
    <3>3. Null \notin inFlight'
      BY <1>1, <1>2 DEF Exact
    <3> QED
      BY <3>1, <3>2, <3>3
  <2>5. ASSUME NEW c \in Guarded, NEW d \in Guarded, calls'[c].running = calls'[d].running
        PROVE  c = d \/ calls'[c].running = Null
    BY <1>4, <1>5, <2>1, <2>3, <2>5 DEF Exact
  <2> QED
    BY <2>4, <2>5 DEF Exact
<1>9. ASSUME NEW w \in Workflows PROVE RowFits(w)'
  <2>1. CASE w \in D
    <3>1. starts'[w] = starts[w] + 1 /\ calls'[w].running = w /\ calls[w].running # w
      BY <1>1, <1>2, <1>3, <1>5, <2>1
    <3>2. starts[w] <= faults /\ starts[w] \in Nat /\ faults \in Nat
      BY <1>2, <2>1, <3>1 DEF RowsFit, RowFits
    <3>3. RowFits(w)
      BY DEF RowsFit
    <3> QED
      BY <1>1, <1>2, <2>1, <3>1, <3>2, <3>3 DEF RowFits, Exists
  <2>2. CASE w \notin D
    <3>1. calls'[w] = calls[w] /\ starts'[w] = starts[w]
      BY <1>1, <1>4, <2>2 DEF Callers
    <3> QED
      BY <1>1, <3>1 DEF RowsFit, RowFits, Exists
  <2> QED
    BY <2>1, <2>2
<1>10. calls' \in [Callers -> Call] /\ \A c \in Callers : ComesOnce(c)'
  BY <1>1, <1>6 DEF FitsCaller, ComesOnce
<1>11. starts' \in [Workflows -> Nat] /\ inFlight' \subseteq Workflows
  BY <1>1, <1>2
<1> QED
  BY <1>1, <1>7, <1>8, <1>9, <1>10, <1>11 DEF RowsFit

\* One call changes, of a caller that is no scheduler's or that goes on with the same workflow.
LEMMA CallFits ==
  ASSUME IInv, NEW c \in Callers, Exact', FitsCaller(c, calls'[c]), CountsFit(calls'[c], logged),
         calls' \in [Callers -> Call],
         \A d \in Callers \ {c} : /\ calls'[d].running = calls[d].running
                                  /\ calls'[d].runCount = calls[d].runCount
                                  /\ calls'[d].todo = calls[d].todo,
         c \notin Workflows, inFlight' \subseteq Workflows, stimuli' \in 0 .. MaxStimuli,
         UNCHANGED <<automations, faults, logged, starts>>
  PROVE  IInv'
<1> USE DEF IInv, TypeOK
<1>1. ASSUME NEW d \in Callers PROVE FitsCaller(d, calls'[d]) /\ CountsFit(calls'[d], logged)
  <2>1. CASE d # c
    <3>1. FitsCaller(d, calls[d]) /\ CountsFit(calls[d], logged) /\ calls'[d] \in Call
      BY DEF CallsFit
    <3> QED
      BY <2>1, <3>1 DEF FitsCaller, CountsFit
  <2> QED
    BY <2>1
<1>2. \A d \in Callers : ComesOnce(d)'
  BY <1>1 DEF FitsCaller, ComesOnce
<1>3. ASSUME NEW w \in Workflows PROVE RowFits(w)'
  <2>1. calls'[w].running = calls[w].running
    BY DEF Callers
  <2> QED
    BY <2>1 DEF RowsFit, RowFits, Exists
<1> QED
  BY <1>1, <1>2, <1>3 DEF CallsFit, RowsFit

\* A handler begins with what Continue finds for it.
LEMMA HandlerBegins ==
  ASSUME IInv, NEW h \in Handlers, calls[h].running = Null, NEW todo \in Todos, Matching(todo),
         Continue(todo, inFlight) # NoCall,
         inFlight' = inFlight \cup {Continue(todo, inFlight).running},
         calls'[h] = Continue(todo, inFlight),
         \A d \in Callers \ {h} : calls'[d].running = calls[d].running
  PROVE  FitsCaller(h, calls'[h]) /\ CountsFit(calls'[h], logged) /\ inFlight' \subseteq Workflows
         /\ Exact'
<1> DEFINE call == Continue(todo, inFlight)
<1>1. /\ FitsCaller(h, call) /\ CountsFit(call, logged)
      /\ call.running \notin inFlight \ {Null} /\ call.running \in Workflows
  <2>1. /\ todo \in Seq(Snapshot)
        /\ \A i, j \in DOMAIN todo : i # j => todo[i].workflow # todo[j].workflow
        /\ \A i \in DOMAIN todo : todo[i].runCount <= logged[todo[i].workflow]
    BY MatchingFits
  <2> QED
    BY <2>1, ContinueFits
<1> HIDE DEF call
<1>2. Null \notin inFlight /\ inFlight \subseteq Workflows
  BY DEF IInv, Exact, TypeOK
<1>3. inFlight' = (inFlight \ {calls[h].running}) \cup ({call.running} \ {Null})
  BY <1>1, <1>2 DEF call
<1>4. calls'[h].running = call.running /\ call.running \in Workflows \cup {Null}
  BY <1>1 DEF call
<1>5. call.running \notin inFlight \ {calls[h].running}
  BY <1>1, <1>2
<1>6. h \in Callers /\ h \notin Requests
  BY DEF Callers
<1>7. Exact'
  BY <1>3, <1>4, <1>5, <1>6, OneCallMoves DEF IInv
<1> QED
  BY <1>1, <1>2, <1>7 DEF call

\* A handler that a user's event begins takes nothing that is in flight.
LEMMA UserEventFits == ASSUME IInv, NEW h \in Handlers, UserEvent(h) PROVE IInv'
<1>1. PICK todo \in Todos : /\ Matching(todo)
                            /\ Continue(todo, inFlight) # NoCall
                            /\ calls' = [calls EXCEPT ![h] = Continue(todo, inFlight)]
                            /\ inFlight' = inFlight \cup {Continue(todo, inFlight).running}
  BY DEF UserEvent, HandleEventTrigger
<1>2. h \in Callers /\ h \notin Workflows
  BY DEF Callers
<1>3. calls'[h] = Continue(todo, inFlight) /\ \A d \in Callers \ {h} : calls'[d] = calls[d]
  BY <1>1, <1>2 DEF IInv, TypeOK
<1>4. calls[h].running = Null /\ UNCHANGED <<automations, faults, logged, starts>>
  BY DEF UserEvent, HandleEventTrigger
<1>5. stimuli' \in 0 .. MaxStimuli
  BY DEF UserEvent, Stimulus, IInv, TypeOK
<1>6. /\ FitsCaller(h, calls'[h]) /\ CountsFit(calls'[h], logged)
      /\ inFlight' \subseteq Workflows /\ Exact'
  BY <1>1, <1>3, <1>4, HandlerBegins
<1>7. calls' \in [Callers -> Call]
  BY <1>1, <1>3, <1>6 DEF IInv, TypeOK, FitsCaller
<1> QED
  BY <1>2, <1>3, <1>4, <1>5, <1>6, <1>7, CallFits

\* The agent task that stored the memory keeps its workflow and its list.
LEMMA StoresMemoryFits ==
  ASSUME IInv, NEW c \in Callers, NEW h \in Handlers, StoresMemory(c, h)
  PROVE  IInv'
<1>1. PICK todo \in Todos :
        /\ Matching(todo)
        /\ Continue(todo, inFlight) # NoCall
        /\ calls' = [calls EXCEPT ![h] = Continue(todo, inFlight), ![c].mayEmit = FALSE]
        /\ inFlight' = inFlight \cup {Continue(todo, inFlight).running}
  BY DEF StoresMemory
<1>2. h \in Callers /\ h \notin Workflows /\ c # h
  BY DEF Callers, StoresMemory
<1>3. /\ calls'[h] = Continue(todo, inFlight)
      /\ calls'[c] = [calls[c] EXCEPT !.mayEmit = FALSE]
      /\ \A d \in Callers \ {h, c} : calls'[d] = calls[d]
  BY <1>1, <1>2 DEF IInv, TypeOK
<1>4. calls[h].running = Null /\ UNCHANGED <<automations, stimuli, faults, logged, starts>>
  BY DEF StoresMemory
<1>5. calls[c] \in Call
  BY DEF IInv, TypeOK
<1>6. /\ calls'[c].running = calls[c].running
      /\ calls'[c].runCount = calls[c].runCount
      /\ calls'[c].todo = calls[c].todo
      /\ calls'[c] \in Call
  BY <1>3, <1>5 DEF Call
<1>7. \A d \in Callers \ {h} : /\ calls'[d].running = calls[d].running
                               /\ calls'[d].runCount = calls[d].runCount
                               /\ calls'[d].todo = calls[d].todo
  BY <1>3, <1>6
<1>8. /\ FitsCaller(h, calls'[h]) /\ CountsFit(calls'[h], logged)
      /\ inFlight' \subseteq Workflows /\ Exact'
  BY <1>1, <1>3, <1>4, <1>7, HandlerBegins
<1>9. calls' \in [Callers -> Call]
  <2>1. DOMAIN calls' = Callers /\ calls' = [d \in Callers |-> calls'[d]]
    BY <1>1 DEF IInv, TypeOK
  <2>2. \A d \in Callers : calls'[d] \in Call
    BY <1>3, <1>6, <1>8 DEF IInv, TypeOK, FitsCaller
  <2> QED
    BY <2>1, <2>2
<1>10. stimuli' \in 0 .. MaxStimuli
  BY <1>4 DEF IInv, TypeOK
<1> QED
  BY <1>2, <1>4, <1>7, <1>8, <1>9, <1>10, CallFits

\* "Run now" is outside of inFlight.
LEMMA TriggerNowFits ==
  ASSUME IInv, NEW q \in Requests, NEW w \in Workflows, TriggerNow(q, w)
  PROVE  IInv'
<1>1. calls' = [calls EXCEPT ![q] = Running(Read(w), <<>>)]
  BY DEF TriggerNow
<1>2. q \in Callers /\ q \notin Workflows
  BY DEF Callers
<1>3. calls'[q] = Running(Read(w), <<>>) /\ \A d \in Callers \ {q} : calls'[d] = calls[d]
  BY <1>1, <1>2 DEF IInv, TypeOK
<1>4. Read(w) \in Snapshot /\ Read(w).runCount <= logged[Read(w).workflow] /\ Read(w).workflow = w
  BY DEF IInv, TypeOK, RowsFit, RowFits, Row, Read, Snapshot
<1>5. FitsCaller(q, calls'[q]) /\ CountsFit(calls'[q], logged)
  BY <1>2, <1>3, <1>4, SingleRunFits
<1>6. UNCHANGED <<automations, inFlight, faults, logged, starts>> /\ stimuli' \in 0 .. MaxStimuli
  BY DEF TriggerNow, Stimulus, IInv, TypeOK
<1>7. calls'[q].running \in Workflows \cup {Null}
  BY <1>5 DEF FitsCaller, Call
<1>8. Exact'
  BY <1>2, <1>3, <1>6, <1>7, OneCallMoves DEF IInv
<1>9. calls' \in [Callers -> Call] /\ inFlight' \subseteq Workflows
  BY <1>1, <1>3, <1>5, <1>6 DEF IInv, TypeOK, FitsCaller
<1> QED
  BY <1>2, <1>3, <1>5, <1>6, <1>8, <1>9, CallFits

-----------------------------------------------------------------------------
(* Runs end. *)

\* A run that ends is taken out of its caller, whatever became of the table.
LEMMA EndedFits ==
  ASSUME IInv, NEW c \in Callers, NEW ok \in BOOLEAN, calls[c].running # Null, End(c, ok),
         logged' \in [Workflows -> Nat], \A w \in Workflows : logged[w] <= logged'[w],
         automations' \in [Workflows -> Row], faults' \in 0 .. MaxFaults,
         UNCHANGED <<stimuli, starts>>, \A w \in Workflows : RowFits(w)'
  PROVE  IInv'
<1> USE DEF IInv, TypeOK
<1>1. /\ calls' = [calls EXCEPT ![c] = calls'[c]]
      /\ FitsCaller(c, calls'[c]) /\ CountsFit(calls'[c], logged)
      /\ inFlight' \subseteq Workflows
      /\ Exact'
  BY EndFits
<1>2. \A d \in Callers \ {c} : calls'[d] = calls[d]
  BY <1>1
<1>3. ASSUME NEW d \in Callers PROVE FitsCaller(d, calls'[d]) /\ CountsFit(calls'[d], logged')
  <2>1. FitsCaller(d, calls'[d]) /\ CountsFit(calls'[d], logged)
    BY <1>1, <1>2 DEF CallsFit
  <2>2. calls'[d] \in Call
    BY <2>1 DEF FitsCaller
  <2> QED
    BY <2>1, <2>2, CountsStayFit
<1>4. \A d \in Callers : calls'[d] \in Call /\ ComesOnce(d)'
  BY <1>3 DEF FitsCaller, ComesOnce
<1>5. calls' \in [Callers -> Call]
  BY <1>1, <1>4
<1> QED
  BY <1>1, <1>3, <1>4, <1>5 DEF CallsFit, RowsFit

\* The caller of a run that ends has nothing of another workflow's schedule in its hands.
LEMMA OtherRunsStay ==
  ASSUME IInv, NEW c \in Callers, NEW ok \in BOOLEAN, calls[c].running # Null, End(c, ok),
         NEW v \in Workflows, v # calls[c].running
  PROVE  calls'[v] = calls[v]
<1>1. v # c
  BY DEF IInv, CallsFit, FitsCaller
<1>2. calls' = [calls EXCEPT ![c] = calls'[c]]
  BY EndFits
<1> QED
  BY <1>1, <1>2 DEF Callers, IInv, TypeOK

\* A run that finishes writes its log before its count, and is not due any more.
LEMMA FinishFits == ASSUME IInv, NEW c \in Callers, FinishWorkflow(c) PROVE IInv'
<1> DEFINE w == calls[c].running
<1> USE DEF IInv, TypeOK
<1>1. w \in Workflows /\ w # Null /\ calls[c].runCount \in Nat
  BY DEF FinishWorkflow, Call
<1>2. UNCHANGED <<stimuli, faults, starts>>
  BY DEF FinishWorkflow
<1>3. CASE Exists(w)
  <2>1. /\ logged' = [logged EXCEPT ![w] = Increment(@)]
        /\ automations' = [automations EXCEPT ![w].runCount = Increment(calls[c].runCount),
                                              ![w].due = FALSE]
        /\ End(c, TRUE)
    BY <1>3 DEF FinishWorkflow
  <2>2. calls[c].runCount <= logged[w]
    BY <1>1 DEF CallsFit, CountsFit
  <2>3. /\ Increment(calls[c].runCount) \in Nat /\ Increment(logged[w]) \in Nat
        /\ Increment(calls[c].runCount) <= Increment(logged[w])
        /\ logged[w] <= Increment(logged[w])
    BY <1>1, <2>2, IncrementIsMonotone
  <2> HIDE DEF w
  <2>4. logged'[w] = Increment(logged[w]) /\ \A v \in Workflows \ {w} : logged'[v] = logged[v]
    BY <1>1, <2>1
  <2>5. logged' \in [Workflows -> Nat] /\ \A v \in Workflows : logged[v] <= logged'[v]
    BY <1>1, <2>1, <2>3, <2>4
  <2>6. /\ automations' \in [Workflows -> Row]
        /\ \A v \in Workflows \ {w} : automations'[v] = automations[v]
        /\ automations'[w].state = automations[w].state /\ ~automations'[w].due
        /\ automations'[w].runCount = Increment(calls[c].runCount)
    BY <1>1, <2>1, <2>3 DEF Row
  <2>7. ASSUME NEW v \in Workflows PROVE RowFits(v)'
    <3>1. CASE v = w
      BY <1>2, <1>3, <2>3, <2>4, <2>6, <3>1 DEF RowsFit, RowFits, Exists
    <3>2. CASE v # w
      <4>1. calls'[v] = calls[v]
        BY <1>1, <2>1, <3>2, OtherRunsStay DEF w
      <4> QED
        BY <1>2, <2>4, <2>6, <3>2, <4>1 DEF RowsFit, RowFits, Exists
    <3> QED
      BY <3>1, <3>2
  <2> QED
    BY <1>1, <1>2, <2>1, <2>5, <2>6, <2>7, EndedFits DEF w
<1>4. CASE ~Exists(w)
  <2>1. UNCHANGED <<automations, logged>> /\ End(c, FALSE)
    BY <1>4 DEF FinishWorkflow, NoRecord
  <2>2. ASSUME NEW v \in Workflows PROVE RowFits(v)'
    <3>1. CASE v = w
      BY <1>2, <1>4, <2>1, <3>1 DEF RowsFit, RowFits, Exists
    <3>2. CASE v # w
      <4>1. calls'[v] = calls[v]
        BY <1>1, <2>1, <3>2, OtherRunsStay
      <4> QED
        BY <1>2, <2>1, <4>1 DEF RowsFit, RowFits, Exists
    <3> QED
      BY <3>1, <3>2
  <2>3. logged' \in [Workflows -> Nat] /\ \A v \in Workflows : logged[v] <= logged'[v]
    BY <2>1
  <2> QED
    BY <1>1, <1>2, <2>1, <2>2, <2>3, EndedFits
<1> QED
  BY <1>3, <1>4

\* A start that comes to nothing is paid for by the fault.
LEMMA LogFailsFits == ASSUME IInv, NEW c \in Callers, LogFails(c) PROVE IInv'
<1> USE DEF IInv, TypeOK
<1>1. /\ calls[c].running # Null /\ End(c, FALSE)
      /\ faults' = faults + 1 /\ faults' \in 0 .. MaxFaults
      /\ UNCHANGED <<automations, logged, stimuli, starts>>
  <2>1. faults < MaxFaults /\ faults' = faults + 1 /\ faults' \in 0 .. MaxFaults
    BY DEF LogFails
  <2> QED
    BY <2>1 DEF LogFails, NoRecord
<1>2. ASSUME NEW v \in Workflows PROVE RowFits(v)'
  <2>1. CASE v = calls[c].running
    BY <1>1, <2>1 DEF RowsFit, RowFits, Exists
  <2>2. CASE v # calls[c].running
    <3>1. calls'[v] = calls[v]
      BY <1>1, <2>2, OtherRunsStay
    <3> QED
      BY <1>1, <3>1 DEF RowsFit, RowFits, Exists
  <2> QED
    BY <2>1, <2>2
<1>3. logged' \in [Workflows -> Nat] /\ \A v \in Workflows : logged[v] <= logged'[v]
  BY <1>1
<1> QED
  BY <1>1, <1>2, <1>3, EndedFits

\* So is every start that a crash loses.
LEMMA RestartFits ==
  ASSUME IInv, Restart, UNCHANGED <<automations, stimuli, starts>>,
         logged' \in [Workflows -> Nat], \A w \in Workflows : logged[w] <= logged'[w]
  PROVE  IInv'
<1> USE DEF IInv, TypeOK
<1>1. /\ inFlight' = {} /\ calls' = [c \in Callers |-> NoCall]
      /\ faults' = faults + 1 /\ faults' \in 0 .. MaxFaults
  BY DEF Restart
<1>2. \A c \in Callers : FitsCaller(c, calls'[c]) /\ CountsFit(calls'[c], logged')
  <2>1. ASSUME NEW c \in Callers PROVE FitsCaller(c, NoCall) /\ CountsFit(NoCall, logged')
    BY NoCallFits
  <2> QED
    BY <1>1, <2>1
<1>3. calls' \in [Callers -> Call] /\ \A c \in Callers : ComesOnce(c)'
  BY <1>1, <1>2 DEF FitsCaller, ComesOnce
<1>4. \A c \in Callers : calls'[c].running = Null
  BY <1>1 DEF NoCall
<1>5. Exact'
  BY <1>1, <1>4 DEF Exact, Guarded, Callers
<1>6. ASSUME NEW w \in Workflows PROVE RowFits(w)'
  <2>1. RowFits(w) /\ starts[w] \in Nat /\ faults \in Nat
    BY DEF RowsFit
  <2>2. logged[w] \in Nat /\ logged'[w] \in Nat /\ logged[w] <= logged'[w]
    BY DEF RowsFit
  <2>3. automations[w].runCount \in Nat
    BY DEF Row
  <2> QED
    BY <1>1, <1>4, <2>1, <2>2, <2>3 DEF RowFits, Exists, Callers
<1> QED
  BY <1>1, <1>2, <1>3, <1>5, <1>6 DEF CallsFit, RowsFit

\* A crash loses the runs, and nothing that is in a table.
LEMMA CrashFits == ASSUME IInv, Crash PROVE IInv'
<1>1. logged' \in [Workflows -> Nat] /\ \A w \in Workflows : logged[w] <= logged'[w]
  BY DEF Crash, IInv, TypeOK
<1> QED
  BY <1>1, RestartFits DEF Crash

\* A crash between the log and the count leaves the count behind, never ahead.
LEMMA CrashAfterLogFits == ASSUME IInv, NEW c \in Callers, CrashAfterLog(c) PROVE IInv'
<1>1. calls[c].running \in Workflows
  BY DEF CrashAfterLog, IInv, TypeOK, Call
<1>2. logged' = [logged EXCEPT ![calls[c].running] = Increment(@)]
  BY DEF CrashAfterLog
<1>3. \A w \in Workflows : Increment(logged[w]) \in Nat /\ logged[w] <= Increment(logged[w])
  BY DEF Increment, IInv, TypeOK
<1>4. logged' \in [Workflows -> Nat] /\ \A w \in Workflows : logged[w] <= logged'[w]
  BY <1>1, <1>2, <1>3 DEF IInv, TypeOK
<1> QED
  BY <1>4, RestartFits DEF CrashAfterLog

-----------------------------------------------------------------------------
(* The theorems. *)

\* A database left by an earlier session is in order.
LEMMA InitInvariant == Init => IInv
<1> SUFFICES ASSUME Init PROVE IInv
  OBVIOUS
<1>1. \A c \in Callers : calls[c] = NoCall
  BY DEF Init
<1>2. ASSUME NEW c \in Callers PROVE FitsCaller(c, calls[c]) /\ CountsFit(calls[c], logged)
  <2>1. FitsCaller(c, NoCall) /\ CountsFit(NoCall, logged)
    BY NoCallFits
  <2> QED
    BY <1>1, <2>1
<1>3. calls \in [Callers -> Call] /\ \A c \in Callers : ComesOnce(c)
  BY <1>2 DEF Init, FitsCaller, ComesOnce
<1>4. \A c \in Callers : calls[c].running = Null
  BY <1>1 DEF NoCall
<1>5. Exact
  BY <1>4 DEF Init, Exact, Guarded, Callers
<1>6. automations \in [Workflows -> Row]
  BY DEF Init, Row
<1>7. \A w \in Workflows : /\ automations[w].runCount = 0
                           /\ automations[w].due => Exists(w)
  BY DEF Init, Exists
<1>8. RowsFit
  BY <1>7 DEF Init, RowsFit, RowFits
<1> QED
  BY <1>2, <1>3, <1>5, <1>6, <1>8 DEF Init, IInv, TypeOK, CallsFit

\* The inductive invariant: the set in flight and the calls, with the counts and the starts they
\* lead to.
THEOREM Invariance == Spec => []IInv
<1>1. IInv /\ [Next]_vars => IInv'
  <2> SUFFICES ASSUME IInv, [Next]_vars PROVE IInv'
    OBVIOUS
  <2>1. CASE UNCHANGED vars
    BY <2>1, QuietFits
  <2>2. CASE Next
    BY <2>2, CreateFits, UpdateFits, DeleteFits, BecomesDueFits, ScheduleFits, UserEventFits,
       TriggerNowFits, StoresMemoryFits, FinishFits, LogFailsFits, CrashFits, CrashAfterLogFits
       DEF Next
  <2> QED
    BY <2>1, <2>2
<1> QED
  BY <1>1, InitInvariant, PTL DEF Spec

\* inFlight is exactly what the scheduler and the event handlers run, and no two of them run one
\* workflow, for any number of workflows, events, requests, crashes and failed writes.
THEOREM InFlightCorrect == Spec => []InFlightIsExact
<1>1. IInv => InFlightIsExact
  BY DEF IInv, Exact, InFlightIsExact
<1> QED
  BY <1>1, Invariance, PTL

\* The scheduler starts what is due once, but for one start per fault, and no run is counted that
\* was not logged.
THEOREM CountsCorrect == Spec => []RunsAreCounted
<1>1. IInv => RunsAreCounted
  BY DEF IInv, RowsFit, RowFits, RunsAreCounted
<1> QED
  BY <1>1, Invariance, PTL
=============================================================================
