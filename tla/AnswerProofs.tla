---------------------------- MODULE AnswerProofs ----------------------------
(* Proofs about what goes into an answer: MemoryIndex, where the memories of a question are found,  *)
(* and ModelReply, the reply of the model.                                                          *)
EXTENDS MemoryIndex, ModelReply, WellFoundedInduction, SequenceTheorems, TLAPS


-----------------------------------------------------------------------------
(* MemoryIndex: the inductive invariant. *)

Entries == backfill.rest \cup backfill.batch \cup backfill.current

\* A request has what its kind needs, and is where its kind leads.
OpFits(x) ==
  /\ x.op \in {"store", "update"} => x.text \in Texts
  /\ x.op \in {"store", "update", "delete"} <=> x.memory \in Memories
  /\ x.phase \in {"embedding", "writing"} => x.op \in {"store", "update"}
  /\ x.phase = "removing" => x.op \in {"update", "delete"}
  /\ x.phase = "saving" => x.op \in {"store", "update", "delete"}

CallsFit == \A c \in Clients : OpFits(calls[c])

Settled(m) == points[m] = NoPoint \/ points[m].text = rows[m]

\* Request x is the only one that works on its memory: a new memory has no vector before it is
\* written, and when only the row is left to do the vector is gone or that of the new text.
Alone(x) ==
  /\ x.op = "store" /\ x.phase # "saving" => points[x.memory] = NoPoint
  /\ x.op = "update" => rows[x.memory] # Null
  /\ x.phase = "saving" => \/ points[x.memory] = NoPoint
                           \/ x.op # "delete" /\ points[x.memory].text = x.text

\* What is not given up on: at most one request works on the memory, never together with the
\* backfill, which has read the text that is in the row. With nobody at work the two agree.
MemoryFits(m) ==
  /\ \A c, d \in Clients : calls[c].memory = m /\ calls[d].memory = m => c = d
  /\ \A c \in Clients : calls[c].memory = m => Alone(calls[c])
  /\ \A c \in Clients : calls[c].memory = m => \A e \in Entries : e.memory # m
  /\ (\A c \in Clients : calls[c].memory # m) => Settled(m)
  /\ \A e \in Entries : e.memory = m => e.text = rows[m]

MemoriesFit == \A m \in Memories : m \in excused \/ MemoryFits(m)

IInv == TypeOK /\ CallsFit /\ MemoriesFit

-----------------------------------------------------------------------------
(* What the operators give. *)

\* The backfill is at a memory if one of its rows is the memory's.
LEMMA BackfillingIs ==
  ASSUME NEW m
  PROVE  Backfilling(m) <=> \E e \in Entries : e.memory = m
BY DEF Backfilling, Entries

\* Nobody changes a memory if no request is about it.
LEMMA ChangingIs ==
  ASSUME NEW m
  PROVE  Changing(m) = {} <=> \A c \in Clients : calls[c].memory # m
BY DEF Changing

\* A client without a request.
LEMMA NoCallType == NoCall \in Call /\ OpFits(NoCall) /\ NoCall.memory = Null /\ NoCall.op = "none"
BY IndexAssumption DEF NoCall, Call, OpFits

\* A memory without a vector.
LEMMA NoPointType == NoPoint \in Point
BY DEF NoPoint, Point

\* A fault is counted.
LEMMA FaultType ==
  ASSUME TypeOK, faults < MaxFaults, faults' = faults + 1
  PROVE  faults' \in 0 .. MaxFaults
BY IndexAssumption DEF TypeOK

\* What a client's request becomes.
LEMMA CallEffect ==
  ASSUME TypeOK, CallsFit, NEW c \in Clients, NEW y \in Call, OpFits(y), calls' = [calls EXCEPT ![c] = y]
  PROVE  /\ calls' \in [Clients -> Call] /\ CallsFit'
         /\ calls'[c] = y /\ \A d \in Clients \ {c} : calls'[d] = calls[d]
<1>1. calls' \in [Clients -> Call] /\ calls'[c] = y /\ \A d \in Clients \ {c} : calls'[d] = calls[d]
  BY DEF TypeOK
<1> QED
  BY <1>1 DEF CallsFit, OpFits

\* What goes on about other memories.
LEMMA OthersFit ==
  ASSUME NEW m \in Memories, MemoryFits(m), rows'[m] = rows[m], points'[m] = points[m],
         \A e \in Entries' : e.memory = m =>
           \/ \E f \in Entries : f.memory = m /\ f.text = e.text
           \/ (\A d \in Clients : calls[d].memory # m) /\ e.text = rows[m],
         \A d \in Clients : calls'[d] = calls[d] \/ (calls[d].memory # m /\ calls'[d].memory # m)
  PROVE  MemoryFits(m)'
BY DEF MemoryFits, Alone, Settled

\* What the request of client c does to its own memory, if nobody else works on that.
LEMMA OwnFits ==
  ASSUME NEW m \in Memories, NEW c \in Clients,
         \A d \in Clients \ {c} : calls'[d].memory # m,
         \A e \in Entries' : e.memory # m,
         \/ calls'[c].memory = m /\ Alone(calls[c])'
         \/ calls'[c].memory # m /\ Settled(m)'
  PROVE  MemoryFits(m)'
BY DEF MemoryFits

\* The statement on the row.
LEMMA SaveEffect ==
  ASSUME TypeOK, NEW c \in Clients, NEW x \in Call, OpFits(x), Save(c, x)
  PROVE  /\ rows' \in [Memories -> Texts \cup {Null}]
         /\ calls' = [calls EXCEPT ![c] = NoCall]
         /\ \A m \in Memories : m # x.memory => rows'[m] = rows[m]
         /\ x.op = "store" => rows'[x.memory] = x.text
         /\ x.op = "update" /\ rows[x.memory] # Null => rows'[x.memory] = x.text
<1>1. rows \in [Memories -> Texts \cup {Null}] /\ calls' = [calls EXCEPT ![c] = NoCall]
  BY DEF TypeOK, Save
<1>2. CASE x.op = "store"
  BY <1>1, <1>2 DEF Save, OpFits
<1>3. CASE x.op = "update"
  <2>1. rows' = [rows EXCEPT ![x.memory] = IF rows[x.memory] = Null THEN Null ELSE x.text]
    BY <1>3 DEF Save
  <2> QED
    BY <1>1, <1>3, <2>1 DEF OpFits
<1>4. CASE x.op = "delete"
  BY <1>1, <1>4 DEF Save, OpFits
<1>5. CASE x.op \notin {"store", "update", "delete"}
  BY <1>1, <1>5 DEF Save
<1> QED
  BY <1>2, <1>3, <1>4, <1>5

\* A request that is alone in changing its memory can save the row.
LEMMA SaveSettles ==
  ASSUME TypeOK, NEW c \in Clients, NEW x \in Call, OpFits(x), Save(c, x), x.memory \in Memories,
         x.op = "update" => rows[x.memory] # Null,
         \/ points'[x.memory] = NoPoint
         \/ x.op # "delete" /\ points'[x.memory].text = x.text
  PROVE  /\ calls'[c].memory # x.memory
         /\ points'[x.memory] = NoPoint \/ points'[x.memory].text = rows'[x.memory]
<1>1. /\ calls' = [calls EXCEPT ![c] = NoCall]
      /\ x.op = "store" => rows'[x.memory] = x.text
      /\ x.op = "update" => rows'[x.memory] = x.text
  BY SaveEffect
<1>2. calls'[c].memory # x.memory
  BY <1>1, NoCallType, IndexAssumption DEF TypeOK
<1>3. x.op \in {"store", "update", "delete"}
  BY DEF OpFits
<1> QED
  BY <1>1, <1>2, <1>3

\* Another phase of a request.
LEMMA PhaseEffect ==
  ASSUME NEW x \in Call, NEW ph \in {"none", "checking", "embedding", "writing", "removing", "saving"}
  PROVE  LET y == [x EXCEPT !.phase = ph]
         IN  /\ y \in Call /\ y.op = x.op /\ y.memory = x.memory /\ y.text = x.text /\ y.phase = ph
             /\ y.was = x.was /\ y.model = x.model
BY DEF Call

\* A request goes on.
LEMMA AwaitEffect ==
  ASSUME TypeOK, CallsFit, NEW c \in Clients, NEW x \in Call,
         NEW ph \in {"checking", "embedding", "writing", "removing", "saving"},
         Await(c, x, ph), OpFits([x EXCEPT !.phase = ph])
  PROVE  /\ rows' = rows /\ calls' \in [Clients -> Call] /\ CallsFit'
         /\ \A d \in Clients \ {c} : calls'[d] = calls[d]
         /\ calls'[c].op = x.op /\ calls'[c].memory = x.memory /\ calls'[c].text = x.text
         /\ calls'[c].phase = ph
<1>1. PICK y : y = [x EXCEPT !.phase = ph]
  OBVIOUS
<1>2. y \in Call /\ y.op = x.op /\ y.memory = x.memory /\ y.text = x.text /\ y.phase = ph
  BY <1>1 DEF Call
<1>3. OpFits(y) /\ calls' = [calls EXCEPT ![c] = y] /\ rows' = rows
  BY <1>1 DEF Await
<1> QED
  BY <1>2, <1>3, CallEffect

\* A request that ends.
LEMMA SaveKeeps ==
  ASSUME TypeOK, CallsFit, NEW c \in Clients, NEW x \in Call, OpFits(x), Save(c, x)
  PROVE  /\ rows' \in [Memories -> Texts \cup {Null}] /\ calls' \in [Clients -> Call] /\ CallsFit'
         /\ \A d \in Clients \ {c} : calls'[d] = calls[d]
         /\ calls'[c].memory = Null
         /\ \A n \in Memories : n # x.memory => rows'[n] = rows[n]
BY SaveEffect, CallEffect, NoCallType

\* What becomes of a request's own memory if no other request and no backfill is at it.
OwnOutcome(c, m) ==
  \/ calls'[c].memory = m /\ Alone(calls[c])'
  \/ calls'[c].memory # m /\ Settled(m)'

\* After initQdrant.
LEMMA ProceedKeeps ==
  ASSUME TypeOK, CallsFit, NEW c \in Clients, NEW x \in Call, OpFits(x),
         NEW reachable \in BOOLEAN, Proceed(c, x, reachable)
  PROVE  /\ rows' \in [Memories -> Texts \cup {Null}] /\ calls' \in [Clients -> Call] /\ CallsFit'
         /\ \A d \in Clients \ {c} : calls'[d] = calls[d]
         /\ calls'[c].memory \in {x.memory, Null}
         /\ \A n \in Memories : n # x.memory => rows'[n] = rows[n]
         /\ (/\ points' = points /\ x.memory \in Memories /\ Alone(x) /\ x.phase # "saving"
             /\ reachable \/ points[x.memory] = NoPoint)
            => OwnOutcome(c, x.memory)
<1>1. CASE reachable /\ x.op \in {"store", "update"}
  <2>1. Await(c, x, "embedding")
    BY <1>1 DEF Proceed
  <2>2. OpFits([x EXCEPT !.phase = "embedding"])
    BY <1>1, PhaseEffect DEF OpFits
  <2>3. /\ rows' = rows /\ calls' \in [Clients -> Call] /\ CallsFit'
        /\ \A d \in Clients \ {c} : calls'[d] = calls[d]
        /\ calls'[c].op = x.op /\ calls'[c].memory = x.memory /\ calls'[c].text = x.text
        /\ calls'[c].phase = "embedding"
    BY <2>1, <2>2, AwaitEffect
  <2> QED
    BY <2>3 DEF TypeOK, OwnOutcome, Alone
<1>2. CASE reachable /\ x.op = "delete"
  <2>1. Await(c, x, "removing")
    BY <1>2 DEF Proceed
  <2>2. OpFits([x EXCEPT !.phase = "removing"])
    BY <1>2, PhaseEffect DEF OpFits
  <2>3. /\ rows' = rows /\ calls' \in [Clients -> Call] /\ CallsFit'
        /\ \A d \in Clients \ {c} : calls'[d] = calls[d]
        /\ calls'[c].op = x.op /\ calls'[c].memory = x.memory /\ calls'[c].text = x.text
        /\ calls'[c].phase = "removing"
    BY <2>1, <2>2, AwaitEffect
  <2> QED
    BY <1>2, <2>3 DEF TypeOK, OwnOutcome, Alone
<1>3. CASE ~(reachable /\ x.op \in {"store", "update", "delete"})
  <2>1. Save(c, x)
    BY <1>3 DEF Proceed
  <2>2. ASSUME points' = points, x.memory \in Memories, Alone(x), x.phase # "saving",
               reachable \/ points[x.memory] = NoPoint
        PROVE  OwnOutcome(c, x.memory)
    <3>1. points'[x.memory] = NoPoint
      BY <1>3, <2>2 DEF OpFits
    <3>2. x.op = "update" => rows[x.memory] # Null
      BY <2>2 DEF Alone
    <3> QED
      BY <2>1, <2>2, <3>1, <3>2, SaveSettles DEF OwnOutcome, Settled
  <2> QED
    BY <2>1, <2>2, SaveKeeps
<1> QED
  BY <1>1, <1>2, <1>3

-----------------------------------------------------------------------------
(* A request begins. *)

\* What a request that begins leaves of the invariant: everything but its own memory, and that
\* one, too, if nobody else is at it and the vector goes along with the row.
LEMMA BeginKeeps ==
  ASSUME IInv, NEW c \in Clients, NEW x \in Call, OpFits(x), x.phase = "none", x.op # "none",
         Begin(c, x)
  PROVE  /\ rows' \in [Memories -> Texts \cup {Null}] /\ calls' \in [Clients -> Call] /\ CallsFit'
         /\ \A m \in Memories \ excused : m # x.memory => MemoryFits(m)'
         /\ (/\ x.memory \in Memories /\ Alone(x)
             /\ Changing(x.memory) = {} /\ ~Backfilling(x.memory)
             /\ (~fresh \/ available) \/ points[x.memory] = NoPoint)
            => MemoryFits(x.memory)'
<1>1. /\ points' = points /\ Entries' = Entries /\ calls[c].memory = Null
      /\ fresh \in BOOLEAN /\ available \in BOOLEAN
  BY NoCallType DEF Begin, Entries, IInv, TypeOK
<1>2. /\ rows' \in [Memories -> Texts \cup {Null}] /\ calls' \in [Clients -> Call] /\ CallsFit'
      /\ \A d \in Clients \ {c} : calls'[d] = calls[d]
      /\ calls'[c].memory \in {x.memory, Null}
      /\ \A n \in Memories : n # x.memory => rows'[n] = rows[n]
      /\ (/\ x.memory \in Memories /\ Alone(x)
          /\ (~fresh \/ available) \/ points[x.memory] = NoPoint)
         => OwnOutcome(c, x.memory)
  <2>1. CASE fresh
    BY <1>1, <2>1, ProceedKeeps DEF Begin, IInv
  <2>2. CASE ~fresh
    <3>1. PICK y : y = [x EXCEPT !.was = available]
      OBVIOUS
    <3>2. /\ y \in Call /\ y.op = x.op /\ y.memory = x.memory /\ y.text = x.text
          /\ OpFits([y EXCEPT !.phase = "checking"])
      BY <1>1, <3>1 DEF Call, OpFits
    <3>3. Await(c, y, "checking")
      BY <2>2, <3>1 DEF Begin
    <3>4. /\ rows' = rows /\ calls' \in [Clients -> Call] /\ CallsFit'
          /\ \A d \in Clients \ {c} : calls'[d] = calls[d]
          /\ calls'[c].op = x.op /\ calls'[c].memory = x.memory /\ calls'[c].text = x.text
          /\ calls'[c].phase = "checking"
      BY <3>2, <3>3, AwaitEffect DEF IInv
    <3> QED
      BY <1>1, <3>4 DEF IInv, TypeOK, OwnOutcome, Alone
  <2> QED
    BY <2>1, <2>2
<1>3. ASSUME NEW m \in Memories \ excused, m # x.memory
      PROVE  MemoryFits(m)'
  <2>1. MemoryFits(m) /\ m # Null
    BY IndexAssumption DEF IInv, MemoriesFit
  <2> QED
    BY <1>1, <1>2, <1>3, <2>1, OthersFit
<1>4. ASSUME x.memory \in Memories, Alone(x), Changing(x.memory) = {}, ~Backfilling(x.memory),
             (~fresh \/ available) \/ points[x.memory] = NoPoint
      PROVE  MemoryFits(x.memory)'
  <2>1. PICK m : m = x.memory
    OBVIOUS
  <2>2. /\ \A d \in Clients \ {c} : calls'[d].memory # m
        /\ \A e \in Entries' : e.memory # m
    BY <1>1, <1>2, <1>4, <2>1, BackfillingIs, ChangingIs
  <2>3. OwnOutcome(c, m)
    BY <1>2, <1>4, <2>1
  <2>4. m \in Memories
    BY <1>4, <2>1
  <2>5. MemoryFits(m)'
    BY <2>2, <2>3, <2>4, OwnFits DEF OwnOutcome
  <2> QED
    BY <2>1, <2>5
<1> QED
  BY <1>2, <1>3, <1>4

\* The variables a request that begins does not change, but for the counter and the excuses.
LEMMA BeginTypes ==
  ASSUME IInv, NEW c \in Clients, NEW x \in Call, Begin(c, x),
         rows' \in [Memories -> Texts \cup {Null}], calls' \in [Clients -> Call],
         changes' \in 0 .. MaxChanges, excused' \subseteq Memories
  PROVE  TypeOK'
BY DEF IInv, TypeOK, Begin, env

\* A search touches no memory.
LEMMA QueryKeeps ==
  ASSUME IInv, NEW c \in Clients, Query(c)
  PROVE  IInv'
<1>1. PICK x : x = [NoCall EXCEPT !.op = "query"]
  OBVIOUS
<1>2. x \in Call /\ OpFits(x) /\ x.phase = "none" /\ x.op # "none" /\ x.memory = Null
  BY <1>1, IndexAssumption DEF NoCall, Call, OpFits
<1>3. Begin(c, x) /\ changes' = changes /\ excused' = excused
  BY <1>1 DEF Query
<1>4. /\ rows' \in [Memories -> Texts \cup {Null}] /\ calls' \in [Clients -> Call] /\ CallsFit'
      /\ \A m \in Memories \ excused : MemoryFits(m)'
  BY <1>2, <1>3, BeginKeeps, IndexAssumption
<1>5. TypeOK'
  BY <1>2, <1>3, <1>4, BeginTypes DEF IInv, TypeOK
<1> QED
  BY <1>3, <1>4, <1>5 DEF IInv, MemoriesFit

\* A request that changes memory m, which it leaves excused or is alone with.
LEMMA ChangeKeeps ==
  ASSUME IInv, NEW c \in Clients, NEW m \in Memories, NEW x \in Call, OpFits(x),
         x.phase = "none", x.op # "none", x.memory = m, Change(c, x),
         excused' \subseteq Memories, excused \ {m} \subseteq excused',
         m \notin excused' =>
           /\ Alone(x) /\ Changing(m) = {} /\ ~Backfilling(m)
           /\ (~fresh \/ available) \/ points[m] = NoPoint
  PROVE  IInv'
<1>1. Begin(c, x) /\ changes' \in 0 .. MaxChanges
  BY IndexAssumption DEF Change, IInv, TypeOK
<1>2. /\ rows' \in [Memories -> Texts \cup {Null}] /\ calls' \in [Clients -> Call] /\ CallsFit'
      /\ \A n \in Memories \ excused : n # m => MemoryFits(n)'
      /\ m \notin excused' => MemoryFits(m)'
  BY <1>1, BeginKeeps
<1>3. TypeOK'
  BY <1>1, <1>2, BeginTypes
<1> QED
  BY <1>2, <1>3 DEF IInv, MemoriesFit

\* A new memory has no vector, and nobody is at it.
LEMMA StoreKeeps ==
  ASSUME IInv, NEW c \in Clients, NEW m \in Memories, NEW t \in Texts, StoreMemory(c, m, t)
  PROVE  IInv'
<1>1. PICK x : x = [NoCall EXCEPT !.op = "store", !.memory = m, !.text = t]
  OBVIOUS
<1>2. x \in Call /\ OpFits(x) /\ x.phase = "none" /\ x.op = "store" /\ x.memory = m
  BY <1>1, IndexAssumption DEF NoCall, Call, OpFits
<1>3. /\ Change(c, x) /\ excused' = excused \ {m} /\ excused \subseteq Memories
      /\ points[m] = NoPoint /\ Changing(m) = {} /\ ~Backfilling(m)
  BY <1>1 DEF StoreMemory, IInv, TypeOK
<1>4. Alone(x)
  BY <1>2, <1>3 DEF Alone
<1> QED
  BY <1>2, <1>3, <1>4, ChangeKeeps

\* An update or a removal: whatever may disturb it excuses the memory.
LEMMA TouchKeeps ==
  ASSUME IInv, NEW c \in Clients, NEW m \in Memories, NEW x \in Call, OpFits(x),
         x.phase = "none", x.op \in {"update", "delete"}, x.memory = m, Change(c, x), rows[m] # Null,
         Touch(m)
  PROVE  IInv'
<1>1. /\ excused' \subseteq Memories /\ excused \ {m} \subseteq excused'
      /\ m \notin excused' => ~Unwatched(m, ~fresh \/ available)
  BY DEF Touch, IInv, TypeOK
<1>2. Alone(x)
  BY DEF Alone
<1>3. m \notin excused' => /\ Changing(m) = {} /\ ~Backfilling(m)
                           /\ (~fresh \/ available) \/ points[m] = NoPoint
  BY <1>1 DEF Unwatched
<1> QED
  BY <1>1, <1>2, <1>3, ChangeKeeps

\* An update, from the route.
LEMMA UpdateKeeps ==
  ASSUME IInv, NEW c \in Clients, NEW m \in Memories, NEW t \in Texts, UpdateMemory(c, m, t)
  PROVE  IInv'
<1>1. PICK x : x = [NoCall EXCEPT !.op = "update", !.memory = m, !.text = t]
  OBVIOUS
<1>2. x \in Call /\ OpFits(x) /\ x.phase = "none" /\ x.op = "update" /\ x.memory = m
  BY <1>1, IndexAssumption DEF NoCall, Call, OpFits
<1>3. Change(c, x) /\ rows[m] # Null /\ Touch(m)
  BY <1>1 DEF UpdateMemory
<1> QED
  BY <1>2, <1>3, TouchKeeps

\* A removal, from the route.
LEMMA DeleteKeeps ==
  ASSUME IInv, NEW c \in Clients, NEW m \in Memories, DeleteMemory(c, m)
  PROVE  IInv'
<1>1. PICK x : x = [NoCall EXCEPT !.op = "delete", !.memory = m]
  OBVIOUS
<1>2. x \in Call /\ OpFits(x) /\ x.phase = "none" /\ x.op = "delete" /\ x.memory = m
  BY <1>1, IndexAssumption DEF NoCall, Call, OpFits
<1>3. Change(c, x) /\ rows[m] # Null /\ Touch(m)
  BY <1>1 DEF DeleteMemory
<1> QED
  BY <1>2, <1>3, TouchKeeps

-----------------------------------------------------------------------------
(* A request goes on. *)

\* Client c's step leaves the other memories to the requests and entries that are theirs.
LEMMA StepFits ==
  ASSUME IInv, NEW c \in Clients, NEW m \in Memories \ excused,
         \A d \in Clients \ {c} : calls'[d] = calls[d],
         calls'[c].memory \in {calls[c].memory, Null},
         m # calls[c].memory => rows'[m] = rows[m] /\ points'[m] = points[m],
         \A e \in Entries' : e.memory = m =>
           \/ \E f \in Entries : f.memory = m /\ f.text = e.text
           \/ (\A d \in Clients : calls[d].memory # m) /\ e.text = rows[m],
         m = calls[c].memory /\ Alone(calls[c]) => OwnOutcome(c, m)
  PROVE  MemoryFits(m)'
<1>1. MemoryFits(m) /\ m # Null
  BY IndexAssumption DEF IInv, MemoriesFit
<1>2. CASE calls[c].memory # m
  BY <1>1, <1>2, OthersFit
<1>3. CASE calls[c].memory = m
  <2>1. \A d \in Clients \ {c} : calls'[d].memory # m
    BY <1>1, <1>3 DEF MemoryFits
  <2>2. \A e \in Entries' : e.memory # m
    BY <1>1, <1>3 DEF MemoryFits
  <2>3. OwnOutcome(c, m)
    BY <1>1, <1>3 DEF MemoryFits
  <2> QED
    BY <2>1, <2>2, <2>3, OwnFits DEF OwnOutcome
<1> QED
  BY <1>2, <1>3

\* What a backfill that starts has to do.
LEMMA StartEffect ==
  ASSUME TypeOK, StartBackfill
  PROVE  /\ backfill' \in Backfill
         /\ backfill'.running <=> Entries' # {}
         /\ \A e \in Entries' : e \in Entries \/ (e.memory \in Memories /\ e.text = rows[e.memory])
<1>1. CASE backfill.running
  BY <1>1 DEF StartBackfill, TypeOK, Entries
<1>2. CASE ~backfill.running
  <2>1. PICK R : R = {m \in Memories : rows[m] # Null}
    OBVIOUS
  <2>2. PICK E : E = {[memory |-> m, text |-> rows[m], tag |-> Null] : m \in R}
    OBVIOUS
  <2>3. backfill' = [NoBackfill EXCEPT !.running = R # {}, !.rest = E]
    BY <1>2, <2>1, <2>2 DEF StartBackfill
  <2>4. backfill' = [running |-> R # {}, rest |-> E, batch |-> {}, current |-> {}, model |-> Null]
    BY <2>3 DEF NoBackfill
  <2>5. \A m \in R : m \in Memories /\ rows[m] \in Texts
    BY <2>1 DEF TypeOK
  <2>6. E \subseteq Entry /\ \A e \in E : e.memory \in Memories /\ e.text = rows[e.memory]
    BY <2>2, <2>5 DEF Entry
  <2>7. R # {} <=> E # {}
    BY <2>2
  <2>8. backfill' \in Backfill
    BY <2>4, <2>6 DEF Backfill
  <2>9. Entries' = E /\ (backfill'.running <=> R # {})
    BY <2>4 DEF Entries
  <2> QED
    BY <2>6, <2>7, <2>8, <2>9
<1> QED
  BY <1>1, <1>2 DEF TypeOK, Backfill

\* The answer of a check: a request that saves without Qdrant excuses its memory if that has a
\* vector, and a backfill that starts excuses the memories somebody is changing.
LEMMA CheckKeeps ==
  ASSUME IInv, NEW c \in Clients, CheckReturns(c)
  PROVE  IInv'
<1>1. PICK x : x = calls[c]
  OBVIOUS
<1>2. /\ x.phase = "checking" /\ Proceed(c, x, up) /\ points' = points
      /\ up' = up /\ embedder' = embedder /\ available' = up /\ fresh' = fresh
      /\ changes' = changes /\ faults' = faults
  BY <1>1 DEF CheckReturns, env
<1>3. x \in Call /\ OpFits(x) /\ up \in BOOLEAN
  BY <1>1 DEF IInv, TypeOK, CallsFit
<1>4. excused' = excused
        \cup {m \in {x.memory} \ {Null} : ~up /\ x.op # "store" /\ points[m] # NoPoint}
        \cup {m \in Memories : ~Backfilling(m) /\ Backfilling(m)' /\ Changing(m) # {}}
  BY <1>1 DEF CheckReturns
<1>5. /\ rows' \in [Memories -> Texts \cup {Null}] /\ calls' \in [Clients -> Call] /\ CallsFit'
      /\ \A d \in Clients \ {c} : calls'[d] = calls[d]
      /\ calls'[c].memory \in {x.memory, Null}
      /\ \A n \in Memories : n # x.memory => rows'[n] = rows[n]
      /\ (/\ x.memory \in Memories /\ Alone(x)
          /\ up \/ points[x.memory] = NoPoint)
         => OwnOutcome(c, x.memory)
  BY <1>2, <1>3, ProceedKeeps DEF IInv
<1>6. collection' \subseteq Models
  BY DEF CheckReturns, IInv, TypeOK
<1>7. /\ backfill' \in Backfill
      /\ backfill'.running <=> Entries' # {}
      /\ \A e \in Entries' : e \in Entries \/ (e.memory \in Memories /\ e.text = rows[e.memory])
  <2>1. CASE up /\ ~x.was
    BY <1>1, <2>1, StartEffect DEF CheckReturns, IInv
  <2>2. CASE ~(up /\ ~x.was)
    BY <1>1, <2>2 DEF CheckReturns, IInv, TypeOK, Entries
  <2> QED
    BY <2>1, <2>2
<1>8. excused' \subseteq Memories
  <2>1. x.memory \in Memories \cup {Null}
    BY <1>3 DEF Call
  <2> QED
    BY <1>4, <2>1 DEF IInv, TypeOK
<1>9. TypeOK'
  BY <1>2, <1>5, <1>6, <1>7, <1>8 DEF IInv, TypeOK, Entries
<1>10. ASSUME NEW m \in Memories, m \notin excused'
       PROVE  MemoryFits(m)'
  <2>1. /\ m \in Memories \ excused
        /\ m = x.memory => up \/ x.op = "store" \/ points[m] = NoPoint
    BY <1>4, <1>10, IndexAssumption
  <2>2. ASSUME NEW e \in Entries', e.memory = m
        PROVE  \/ \E f \in Entries : f.memory = m /\ f.text = e.text
               \/ (\A d \in Clients : calls[d].memory # m) /\ e.text = rows[m]
    <3>1. CASE Backfilling(m)
      <4>1. PICK f \in Entries : f.memory = m
        BY <3>1, BackfillingIs
      <4>2. MemoryFits(m)
        BY <2>1 DEF IInv, MemoriesFit
      <4>3. e.text = rows[m]
        BY <1>7, <2>2, <4>2 DEF MemoryFits
      <4>4. f.text = rows[m]
        BY <4>1, <4>2 DEF MemoryFits
      <4> QED
        BY <4>1, <4>3, <4>4
    <3>2. CASE ~Backfilling(m)
      <4>1. e \notin Entries
        BY <2>2, <3>2, BackfillingIs
      <4>2. Backfilling(m)'
        BY <2>2 DEF Backfilling, Entries
      <4>3. Changing(m) = {}
        BY <1>4, <1>10, <3>2, <4>2
      <4> QED
        BY <1>7, <2>2, <4>1, <4>3, ChangingIs
    <3> QED
      BY <3>1, <3>2
  <2>3. m = x.memory /\ Alone(x) => OwnOutcome(c, m)
    BY <1>2, <1>5, <2>1 DEF Alone
  <2> QED
    BY <1>1, <1>2, <1>5, <2>1, <2>2, <2>3, StepFits
<1> QED
  BY <1>5, <1>9, <1>10 DEF IInv, MemoriesFit

\* A request goes on with another phase, and perhaps with a model; it may have changed its vector.
LEMMA AwaitKeeps ==
  ASSUME IInv, NEW c \in Clients, NEW y \in Call,
         NEW ph \in {"checking", "embedding", "writing", "removing", "saving"},
         y.op = calls[c].op, y.memory = calls[c].memory, y.text = calls[c].text,
         Await(c, y, ph), OpFits([y EXCEPT !.phase = ph]),
         points' \in [Memories -> Point],
         \A n \in Memories : n # y.memory => points'[n] = points[n],
         UNCHANGED <<collection, env, check, backfill, changes>>, faults' \in 0 .. MaxFaults,
         excused \subseteq excused', excused' \subseteq Memories,
         y.memory \notin excused' /\ MemoryFits(y.memory) =>
           /\ y.op = "store" /\ ph # "saving" => points'[y.memory] = NoPoint
           /\ ph = "saving" => \/ points'[y.memory] = NoPoint
                               \/ y.op # "delete" /\ points'[y.memory].text = y.text
  PROVE  IInv'
<1>1. /\ rows' = rows /\ calls' \in [Clients -> Call] /\ CallsFit'
      /\ \A d \in Clients \ {c} : calls'[d] = calls[d]
      /\ calls'[c].op = y.op /\ calls'[c].memory = y.memory /\ calls'[c].text = y.text
      /\ calls'[c].phase = ph
  BY AwaitEffect DEF IInv
<1>2. TypeOK'
  BY <1>1 DEF IInv, TypeOK, env, check
<1>3. ASSUME NEW m \in Memories, m \notin excused'
      PROVE  MemoryFits(m)'
  <2>1. m \notin excused /\ Entries' = Entries /\ MemoryFits(m)
    BY <1>3 DEF Entries, IInv, MemoriesFit
  <2>2. m = calls[c].memory /\ Alone(calls[c]) => OwnOutcome(c, m)
    <3>1. SUFFICES ASSUME m = calls[c].memory, Alone(calls[c])
                   PROVE  Alone(calls[c])'
      BY <1>1 DEF OwnOutcome
    <3>2. /\ y.op = "store" /\ ph # "saving" => points'[m] = NoPoint
          /\ ph = "saving" => \/ points'[m] = NoPoint
                              \/ y.op # "delete" /\ points'[m].text = y.text
      BY <1>3, <2>1, <3>1
    <3>3. y.op = "update" => rows'[m] # Null
      BY <1>1, <3>1 DEF Alone
    <3> QED
      BY <1>1, <3>1, <3>2, <3>3 DEF Alone
  <2> QED
    BY <1>1, <2>1, <2>2, StepFits
<1> QED
  BY <1>1, <1>2, <1>3 DEF IInv, MemoriesFit

\* A request ends with its row, having left the vector alone.
LEMMA EndKeeps ==
  ASSUME IInv, NEW c \in Clients, Save(c, calls[c]), calls[c].memory \in Memories,
         UNCHANGED <<points, collection, env, check, backfill, changes, faults, excused>>,
         calls[c].phase = "saving" \/ (calls[c].op = "store" /\ calls[c].phase # "saving")
  PROVE  IInv'
<1>1. PICK x : x = calls[c]
  OBVIOUS
<1>2. x \in Call /\ OpFits(x) /\ Save(c, x)
  BY <1>1 DEF IInv, TypeOK, CallsFit
<1>3. /\ rows' \in [Memories -> Texts \cup {Null}] /\ calls' \in [Clients -> Call] /\ CallsFit'
      /\ \A d \in Clients \ {c} : calls'[d] = calls[d]
      /\ calls'[c].memory = Null
      /\ \A n \in Memories : n # x.memory => rows'[n] = rows[n]
  BY <1>2, SaveKeeps DEF IInv
<1>4. TypeOK'
  BY <1>3 DEF IInv, TypeOK, env, check
<1>5. ASSUME NEW m \in Memories, m \notin excused
      PROVE  MemoryFits(m)'
  <2>1. Entries' = Entries /\ points' = points
    BY DEF Entries
  <2>2. m = x.memory /\ Alone(x) => OwnOutcome(c, m)
    <3>1. SUFFICES ASSUME m = x.memory, Alone(x)
                   PROVE  OwnOutcome(c, x.memory)
      OBVIOUS
    <3>2. /\ x.op = "update" => rows[x.memory] # Null
          /\ \/ points'[x.memory] = NoPoint
             \/ x.op # "delete" /\ points'[x.memory].text = x.text
      BY <1>1, <2>1, <3>1 DEF Alone
    <3> QED
      BY <1>1, <1>2, <3>2, SaveSettles DEF IInv, OwnOutcome, Settled
  <2> QED
    BY <1>1, <1>3, <1>5, <2>1, <2>2, StepFits
<1> QED
  BY <1>3, <1>4, <1>5 DEF IInv, MemoriesFit

\* A store or an update that goes on without its vector.
LEMMA NotStoredKeeps ==
  ASSUME IInv, NEW c \in Clients, NotStored(c, calls[c]),
         calls[c].phase \in {"embedding", "writing"},
         calls[c].op = "update" \/ points' = points,
         points' \in [Memories -> Point],
         \A n \in Memories : n # calls[c].memory => points'[n] = points[n],
         UNCHANGED <<collection, env, check, backfill, changes>>, faults' \in 0 .. MaxFaults,
         excused' = excused
  PROVE  IInv'
<1>1. PICK x : x = calls[c]
  OBVIOUS
<1>2. PICK ph : ph = IF x.op = "update" THEN "removing" ELSE "saving"
  OBVIOUS
<1>3. x \in Call /\ OpFits(x) /\ x.op \in {"store", "update"} /\ Await(c, x, ph)
  BY <1>1, <1>2 DEF IInv, TypeOK, CallsFit, OpFits, NotStored
<1>4. PICK y : y = [x EXCEPT !.phase = ph]
  OBVIOUS
<1>5. OpFits(y)
  <2>1. y.op = x.op /\ y.memory = x.memory /\ y.text = x.text /\ y.phase = ph
    BY <1>3, <1>4 DEF Call
  <2> QED
    BY <1>2, <1>3, <2>1 DEF OpFits
<1>6. MemoryFits(x.memory) =>
        /\ x.op = "store" /\ ph # "saving" => points'[x.memory] = NoPoint
        /\ ph = "saving" => points'[x.memory] = NoPoint
  BY <1>1, <1>2, <1>3 DEF MemoryFits, Alone
<1>7. excused \subseteq Memories /\ ph \in {"checking", "embedding", "writing", "removing", "saving"}
  BY <1>2 DEF IInv, TypeOK
<1> QED
  BY <1>1, <1>2, <1>3, <1>4, <1>5, <1>6, <1>7, AwaitKeeps

\* The model answers: the vector is next, or the request goes on without one.
LEMMA EmbedKeeps ==
  ASSUME IInv, NEW c \in Clients, EmbedReturns(c)
  PROVE  IInv'
<1>1. PICK x : x = calls[c]
  OBVIOUS
<1>2. /\ x \in Call /\ OpFits(x) /\ x.phase = "embedding" /\ x.op \in {"store", "update"}
      /\ x.memory \in Memories
  BY <1>1 DEF EmbedReturns, IInv, TypeOK, CallsFit, OpFits
<1>3. UNCHANGED <<points, collection, env, check, backfill, changes, faults, excused>>
  BY DEF EmbedReturns
<1>4. CASE Fits(embedder)
  <2>1. PICK y : y = [x EXCEPT !.model = embedder]
    OBVIOUS
  <2>2. /\ y \in Call /\ y.op = x.op /\ y.memory = x.memory /\ y.text = x.text
        /\ OpFits([y EXCEPT !.phase = "writing"])
    BY <1>2, <2>1 DEF Call, OpFits, IInv, TypeOK
  <2>3. Await(c, y, "writing")
    BY <1>1, <1>4, <2>1 DEF EmbedReturns
  <2>4. MemoryFits(y.memory) /\ y.op = "store" => points'[y.memory] = NoPoint
    BY <1>1, <1>2, <1>3, <2>2 DEF MemoryFits, Alone
  <2> QED
    BY <1>1, <1>3, <2>2, <2>3, <2>4, AwaitKeeps DEF IInv, TypeOK
<1>5. CASE ~Fits(embedder) /\ x.op = "store"
  BY <1>1, <1>2, <1>3, <1>5, EndKeeps DEF EmbedReturns
<1>6. CASE ~Fits(embedder) /\ x.op # "store"
  BY <1>1, <1>2, <1>3, <1>6, NotStoredKeeps DEF EmbedReturns, IInv, TypeOK
<1> QED
  BY <1>4, <1>5, <1>6

\* The vector of a store or an update.
LEMMA WriteEffect ==
  ASSUME IInv, NEW c \in Clients, calls[c].phase = "writing",
         points' = [points EXCEPT ![calls[c].memory] = [text |-> calls[c].text, model |-> calls[c].model]]
  PROVE  /\ points' \in [Memories -> Point]
         /\ \A n \in Memories : n # calls[c].memory => points'[n] = points[n]
         /\ points'[calls[c].memory].text = calls[c].text
         /\ calls[c].op \in {"store", "update"}
<1>1. PICK x : x = calls[c]
  OBVIOUS
<1>2. /\ x \in Call /\ x.op \in {"store", "update"} /\ x.memory \in Memories
      /\ points \in [Memories -> Point]
  BY <1>1 DEF IInv, TypeOK, CallsFit, OpFits
<1>3. [text |-> x.text, model |-> x.model] \in Point
  BY <1>2 DEF Call, Point
<1> QED
  BY <1>1, <1>2, <1>3

\* The vector is written, and that it was is known.
LEMMA UpsertKeeps ==
  ASSUME IInv, NEW c \in Clients, Upsert(c)
  PROVE  IInv'
<1>1. PICK x : x = calls[c]
  OBVIOUS
<1>2. /\ x.phase = "writing" /\ Await(c, x, "saving")
      /\ UNCHANGED <<collection, env, check, backfill, changes, faults, excused>>
      /\ points' = [points EXCEPT ![x.memory] = [text |-> x.text, model |-> x.model]]
  BY <1>1 DEF Upsert
<1>3. /\ points' \in [Memories -> Point]
      /\ \A n \in Memories : n # x.memory => points'[n] = points[n]
      /\ points'[x.memory].text = x.text
      /\ x.op \in {"store", "update"}
  BY <1>1, <1>2, WriteEffect
<1>4. x \in Call /\ OpFits(x) /\ OpFits([x EXCEPT !.phase = "saving"])
  BY <1>1, <1>3 DEF IInv, TypeOK, CallsFit, OpFits, Call
<1> QED
  BY <1>1, <1>2, <1>3, <1>4, AwaitKeeps DEF IInv, TypeOK

\* The vector is not written.
LEMMA UpsertFailsKeeps ==
  ASSUME IInv, NEW c \in Clients, UpsertFails(c)
  PROVE  IInv'
BY NotStoredKeeps DEF UpsertFails, IInv, TypeOK

\* A vector whose answer is lost is removed again by an update.
LEMMA AnswerLostKeeps ==
  ASSUME IInv, NEW c \in Clients, UpsertAnswerLost(c), calls[c].op = "update"
  PROVE  IInv'
<1>1. /\ points' = [points EXCEPT ![calls[c].memory] = [text |-> calls[c].text, model |-> calls[c].model]]
      /\ calls[c].phase = "writing" /\ NotStored(c, calls[c])
      /\ UNCHANGED <<collection, env, check, backfill, changes, excused>>
  BY DEF UpsertAnswerLost
<1>2. faults' \in 0 .. MaxFaults
  BY FaultType DEF UpsertAnswerLost, IInv
<1> QED
  BY <1>1, <1>2, WriteEffect, NotStoredKeeps

\* A new memory's vector whose answer is lost stays, and is the right one.
LEMMA StoredAnywayKeeps ==
  ASSUME IInv, NEW c \in Clients, UpsertAnswerLost(c), calls[c].op # "update"
  PROVE  IInv'
<1>1. PICK x : x = calls[c]
  OBVIOUS
<1>2. /\ x.phase = "writing" /\ Await(c, x, "saving")
      /\ UNCHANGED <<collection, env, check, backfill, changes, excused>>
      /\ points' = [points EXCEPT ![x.memory] = [text |-> x.text, model |-> x.model]]
  BY <1>1 DEF UpsertAnswerLost, NotStored
<1>3. /\ points' \in [Memories -> Point]
      /\ \A n \in Memories : n # x.memory => points'[n] = points[n]
      /\ points'[x.memory].text = x.text
      /\ x.op \in {"store", "update"}
  BY <1>1, <1>2, WriteEffect
<1>4. x \in Call /\ OpFits(x) /\ OpFits([x EXCEPT !.phase = "saving"])
  BY <1>1, <1>3 DEF IInv, TypeOK, CallsFit, OpFits, Call
<1>5. faults' \in 0 .. MaxFaults
  BY FaultType DEF UpsertAnswerLost, IInv
<1> QED
  BY <1>1, <1>2, <1>3, <1>4, <1>5, AwaitKeeps DEF IInv, TypeOK

\* A removal that fails excuses the memory.
LEMMA RemoveKeeps ==
  ASSUME IInv, NEW c \in Clients, RemovePoint(c)
  PROVE  IInv'
<1>1. PICK x : x = calls[c]
  OBVIOUS
<1>2. /\ x.phase = "removing" /\ Await(c, x, "saving")
      /\ UNCHANGED <<collection, env, check, backfill, changes, faults>>
  BY <1>1 DEF RemovePoint
<1>3. x \in Call /\ x.op \in {"update", "delete"} /\ x.memory \in Memories
  BY <1>1, <1>2 DEF IInv, TypeOK, CallsFit, OpFits
<1>4. x \in Call /\ OpFits(x) /\ OpFits([x EXCEPT !.phase = "saving"])
  BY <1>1, <1>3 DEF IInv, TypeOK, CallsFit, OpFits, Call
<1>5. /\ points' \in [Memories -> Point]
      /\ \A n \in Memories : n # x.memory => points'[n] = points[n]
      /\ excused \subseteq excused' /\ excused' \subseteq Memories
      /\ x.memory \notin excused' => points'[x.memory] = NoPoint
  <2>1. points \in [Memories -> Point] /\ excused \subseteq Memories
    BY DEF IInv, TypeOK
  <2>2. CASE up
    BY <1>1, <1>3, <2>1, <2>2, NoPointType DEF RemovePoint
  <2>3. CASE ~up
    BY <1>1, <1>3, <2>1, <2>3 DEF RemovePoint
  <2> QED
    BY <2>2, <2>3
<1>6. faults' \in 0 .. MaxFaults
  BY <1>2 DEF IInv, TypeOK
<1> QED
  BY <1>1, <1>2, <1>3, <1>4, <1>5, <1>6, AwaitKeeps

\* The statement on the row, with the vector dealt with.
LEMMA SaveRowKeeps ==
  ASSUME IInv, NEW c \in Clients, SaveRow(c)
  PROVE  IInv'
<1>1. calls[c].memory \in Memories
  BY DEF SaveRow, IInv, CallsFit, OpFits
<1> QED
  BY <1>1, EndKeeps DEF SaveRow

-----------------------------------------------------------------------------
(* The backfill goes on. *)

\* What the invariant asks of the entries is kept when some go and others only get their tag.
LEMMA EntriesKeep ==
  ASSUME IInv, UNCHANGED <<store, env, check, calls, changes, faults, excused>>,
         backfill' \in Backfill, backfill'.running <=> Entries' # {},
         \A e \in Entries' : \E f \in Entries : f.memory = e.memory /\ f.text = e.text
  PROVE  IInv'
<1>1. TypeOK'
  BY DEF IInv, TypeOK, store, env, check, Entries
<1>2. CallsFit'
  BY DEF IInv, CallsFit
<1>3. ASSUME NEW m \in Memories, MemoryFits(m)
      PROVE  MemoryFits(m)'
  BY <1>3, OthersFit DEF store
<1> QED
  BY <1>1, <1>2, <1>3 DEF IInv, MemoriesFit

\* The loop's variables once a row is done.
LEMMA GoOnEffect ==
  ASSUME NEW rest \in SUBSET Entry, NEW batch \in SUBSET Entry, GoOn(rest, batch)
  PROVE  /\ backfill' \in Backfill /\ (backfill'.running <=> Entries' # {})
         /\ Entries' = rest \cup batch
<1>1. CASE rest = {} /\ batch = {}
  <2>1. backfill' = [running |-> FALSE, rest |-> {}, batch |-> {}, current |-> {}, model |-> Null]
    BY <1>1 DEF GoOn, NoBackfill
  <2> QED
    BY <1>1, <2>1 DEF Backfill, Entries
<1>2. CASE ~(rest = {} /\ batch = {})
  <2>1. backfill' = [running |-> TRUE, rest |-> rest, batch |-> batch, current |-> {}, model |-> Null]
    BY <1>2 DEF GoOn, NoBackfill
  <2> QED
    BY <1>2, <2>1 DEF Backfill, Entries
<1> QED
  BY <1>1, <1>2

\* A backfill that gives up.
LEMMA NoBackfillEffect ==
  ASSUME backfill' = NoBackfill
  PROVE  backfill' \in Backfill /\ (backfill'.running <=> Entries' # {}) /\ Entries' = {}
BY DEF NoBackfill, Backfill, Entries

\* The rows of a batch get the tags of their vectors.
LEMMA RetrieveKeeps ==
  ASSUME IInv, BackfillRetrieve
  PROVE  IInv'
<1>1. UNCHANGED <<store, env, check, calls, changes, faults, excused>>
  BY DEF BackfillRetrieve
<1>2. CASE up /\ collection # {}
  <2>1. PICK B \in SUBSET backfill.rest :
          GoOn(backfill.rest \ B, {[e EXCEPT !.tag = points[e.memory].model] : e \in B})
    BY <1>2 DEF BackfillRetrieve
  <2>2. PICK T : T = {[e EXCEPT !.tag = points[e.memory].model] : e \in B}
    OBVIOUS
  <2>3. backfill.rest \subseteq Entry /\ points \in [Memories -> Point]
    BY DEF IInv, TypeOK, Backfill
  <2>4. \A e \in B : /\ [e EXCEPT !.tag = points[e.memory].model] \in Entry
                     /\ [e EXCEPT !.tag = points[e.memory].model].memory = e.memory
                     /\ [e EXCEPT !.tag = points[e.memory].model].text = e.text
    BY <2>3 DEF Entry, Point
  <2>5. T \subseteq Entry /\ \A f \in T : \E e \in B : e.memory = f.memory /\ e.text = f.text
    BY <2>2, <2>4
  <2>6. GoOn(backfill.rest \ B, T)
    BY <2>1, <2>2
  <2>7. /\ backfill' \in Backfill /\ (backfill'.running <=> Entries' # {})
        /\ Entries' = (backfill.rest \ B) \cup T
    BY <2>3, <2>5, <2>6, GoOnEffect
  <2>8. \A e \in Entries' : \E f \in Entries : f.memory = e.memory /\ f.text = e.text
    BY <2>5, <2>7 DEF Entries
  <2> QED
    BY <1>1, <2>7, <2>8, EntriesKeep
<1>3. CASE ~(up /\ collection # {})
  BY <1>1, <1>3, NoBackfillEffect, EntriesKeep DEF BackfillRetrieve
<1> QED
  BY <1>2, <1>3

\* A row of the batch is passed over, or is the one that is written next.
LEMMA BackfillEmbedKeeps ==
  ASSUME IInv, BackfillEmbed
  PROVE  IInv'
<1>1. UNCHANGED <<store, env, check, calls, changes, faults, excused>>
  BY DEF BackfillEmbed
<1>2. PICK e \in backfill.batch :
        IF embedder = Null THEN backfill' = NoBackfill
        ELSE IF IsCurrent(e, embedder) \/ ~Fits(embedder)
        THEN GoOn(backfill.rest, backfill.batch \ {e})
        ELSE backfill' = [backfill EXCEPT !.batch = @ \ {e}, !.current = {e}, !.model = embedder]
  BY DEF BackfillEmbed
<1>3. backfill \in Backfill /\ backfill.running /\ embedder \in Models \cup {Null}
  BY DEF IInv, TypeOK
<1>4. CASE embedder = Null
  BY <1>1, <1>2, <1>4, NoBackfillEffect, EntriesKeep
<1>5. CASE embedder # Null /\ (IsCurrent(e, embedder) \/ ~Fits(embedder))
  <2>1. GoOn(backfill.rest, backfill.batch \ {e})
    BY <1>2, <1>5
  <2>2. backfill.rest \in SUBSET Entry /\ backfill.batch \ {e} \in SUBSET Entry
    BY <1>3 DEF Backfill
  <2>3. /\ backfill' \in Backfill /\ (backfill'.running <=> Entries' # {})
        /\ Entries' = backfill.rest \cup (backfill.batch \ {e})
    BY <2>1, <2>2, GoOnEffect
  <2> QED
    BY <1>1, <2>3, EntriesKeep DEF Entries
<1>6. CASE embedder # Null /\ ~(IsCurrent(e, embedder) \/ ~Fits(embedder))
  <2>1. backfill' = [backfill EXCEPT !.batch = backfill.batch \ {e}, !.current = {e}, !.model = embedder]
    BY <1>2, <1>6
  <2>2. /\ backfill'.running = backfill.running /\ backfill'.rest = backfill.rest
        /\ backfill'.batch = backfill.batch \ {e} /\ backfill'.current = {e}
        /\ backfill' \in Backfill
    BY <1>3, <2>1 DEF Backfill
  <2>3. Entries' \subseteq Entries /\ Entries' # {}
    BY <2>2 DEF Entries
  <2> QED
    BY <1>1, <1>3, <2>2, <2>3, EntriesKeep
<1> QED
  BY <1>4, <1>5, <1>6

\* The vector the backfill writes is that of the row, if the memory is one it keeps right.
LEMMA BackfillWriteKeeps ==
  ASSUME IInv, BackfillWrite
  PROVE  IInv'
<1>1. PICK e \in backfill.current :
        points' = IF up THEN [points EXCEPT ![e.memory] = [text |-> e.text, model |-> backfill.model]]
                  ELSE points
  BY DEF BackfillWrite
<1>2. /\ GoOn(backfill.rest, backfill.batch)
      /\ UNCHANGED <<rows, collection, env, check, calls, changes, faults, excused>>
  BY DEF BackfillWrite
<1>3. /\ backfill.rest \in SUBSET Entry /\ backfill.batch \in SUBSET Entry /\ e \in Entry
      /\ backfill.model \in Models \cup {Null} /\ points \in [Memories -> Point]
  BY DEF IInv, TypeOK, Backfill
<1>4. /\ backfill' \in Backfill /\ (backfill'.running <=> Entries' # {})
      /\ Entries' \subseteq Entries
  BY <1>2, <1>3, GoOnEffect DEF Entries
<1>5. e.memory \in Memories /\ e.text \in Texts
  BY <1>3 DEF Entry
<1>6. [text |-> e.text, model |-> backfill.model] \in Point
  BY <1>3, <1>5 DEF Point
<1>7. /\ points' \in [Memories -> Point]
      /\ \A m \in Memories : points'[m] = points[m] \/ (m = e.memory /\ points'[m].text = e.text)
  BY <1>1, <1>3, <1>5, <1>6
<1>8. TypeOK'
  BY <1>2, <1>4, <1>7 DEF IInv, TypeOK, env, check, Entries
<1>9. CallsFit'
  BY <1>2 DEF IInv, CallsFit
<1>10. ASSUME NEW m \in Memories, MemoryFits(m)
       PROVE  MemoryFits(m)'
  <2>1. CASE points'[m] = points[m]
    BY <1>2, <1>4, <1>10, <2>1, OthersFit
  <2>2. CASE m = e.memory /\ points'[m].text = e.text
    <3>1. e \in Entries
      BY DEF Entries
    <3>2. e.text = rows'[m] /\ \A d \in Clients : calls'[d].memory # m
      BY <1>2, <1>10, <2>2, <3>1 DEF MemoryFits
    <3>3. \A f \in Entries' : f.memory = m => f.text = rows'[m]
      BY <1>2, <1>4, <1>10 DEF MemoryFits
    <3> QED
      BY <2>2, <3>2, <3>3 DEF MemoryFits, Settled
  <2> QED
    BY <1>7, <2>1, <2>2
<1> QED
  BY <1>2, <1>8, <1>9, <1>10 DEF IInv, MemoriesFit

-----------------------------------------------------------------------------
(* The rest. *)

\* Time and the services touch no memory.
LEMMA ServicesKeep ==
  ASSUME IInv, Expire \/ ServicesChange
  PROVE  IInv'
<1>1. UNCHANGED <<store, backfill, calls, changes, excused>>
  BY DEF Expire, ServicesChange
<1>2. TypeOK'
  <2>1. CASE Expire
    BY <2>1 DEF IInv, TypeOK, Expire, store, env
  <2>2. CASE ServicesChange
    BY <2>2, FaultType DEF IInv, TypeOK, ServicesChange, Fault, store, check
  <2> QED
    BY <2>1, <2>2
<1>3. ASSUME NEW m \in Memories, MemoryFits(m)
      PROVE  MemoryFits(m)'
  BY <1>1, <1>3, OthersFit DEF store, Entries
<1> QED
  BY <1>1, <1>2, <1>3 DEF IInv, CallsFit, MemoriesFit

\* The server stops: the memories somebody was changing are excused.
LEMMA CrashKeeps ==
  ASSUME IInv, Crash
  PROVE  IInv'
<1>1. /\ UNCHANGED <<store, env, changes>> /\ backfill' = NoBackfill
      /\ available' = FALSE /\ fresh' = FALSE
      /\ calls' = [c \in Clients |-> NoCall]
      /\ excused' = excused \cup {m \in Memories : Changing(m) # {}}
  BY DEF Crash
<1>2. faults' \in 0 .. MaxFaults
  BY FaultType DEF Crash, Fault, IInv
<1>3. backfill' \in Backfill /\ (backfill'.running <=> Entries' # {}) /\ Entries' = {}
  BY <1>1, NoBackfillEffect
<1>4. TypeOK'
  BY <1>1, <1>2, <1>3, NoCallType DEF IInv, TypeOK, store, env, Entries
<1>5. CallsFit'
  BY <1>1, NoCallType DEF CallsFit
<1>6. ASSUME NEW m \in Memories, m \notin excused'
      PROVE  MemoryFits(m)'
  <2>1. MemoryFits(m) /\ Changing(m) = {} /\ m # Null
    BY <1>1, <1>6, IndexAssumption DEF IInv, MemoriesFit
  <2>2. Settled(m)'
    BY <1>1, <2>1, ChangingIs DEF MemoryFits, Settled, store
  <2>3. \A c \in Clients : calls'[c].memory # m
    BY <1>1, <2>1, NoCallType
  <2> QED
    BY <1>3, <2>2, <2>3 DEF MemoryFits
<1> QED
  BY <1>4, <1>5, <1>6 DEF IInv, MemoriesFit

\* The invariant holds at the start, with the tables of earlier sessions.
LEMMA InitIInv == Init => IInv
<1> SUFFICES ASSUME Init PROVE IInv
  OBVIOUS
<1>1. /\ backfill \in Backfill /\ Entries = {} /\ backfill.running = FALSE
      /\ calls = [c \in Clients |-> NoCall] /\ excused = {}
  BY DEF Init, NoBackfill, Backfill, Entries
<1>2. TypeOK
  <2>1. /\ points \in [Memories -> Point] /\ rows \in [Memories -> Texts \cup {Null}]
        /\ collection \subseteq Models /\ up \in BOOLEAN /\ embedder \in Models \cup {Null}
    BY DEF Init
  <2>2. 0 \in 0 .. MaxChanges /\ 0 \in 0 .. MaxFaults
    BY IndexAssumption
  <2> QED
    BY <1>1, <2>1, <2>2, NoCallType DEF Init, TypeOK, Entries
<1>3. CallsFit
  BY <1>1, NoCallType DEF CallsFit
<1>4. ASSUME NEW m \in Memories
      PROVE  MemoryFits(m)
  <2>1. Settled(m) /\ m # Null
    BY IndexAssumption DEF Init, Settled
  <2>2. \A c \in Clients : calls[c].memory # m
    BY <1>1, <2>1, NoCallType
  <2> QED
    BY <1>1, <2>1, <2>2 DEF MemoryFits
<1> QED
  BY <1>2, <1>3, <1>4 DEF IInv, MemoriesFit

\* Every step keeps the invariant.
LEMMA NextKeeps ==
  ASSUME IInv, [Next]_vars
  PROVE  IInv'
<1>1. CASE \E c \in Clients : Query(c) \/ Step(c) \/ UpsertAnswerLost(c)
  BY <1>1, QueryKeeps, CheckKeeps, EmbedKeeps, UpsertKeeps, UpsertFailsKeeps, RemoveKeeps,
     SaveRowKeeps, AnswerLostKeeps, StoredAnywayKeeps DEF Step
<1>2. CASE \E c \in Clients, m \in Memories :
             \/ \E t \in Texts : StoreMemory(c, m, t) \/ UpdateMemory(c, m, t)
             \/ DeleteMemory(c, m)
  BY <1>2, StoreKeeps, UpdateKeeps, DeleteKeeps
<1>3. CASE BackfillStep
  BY <1>3, RetrieveKeeps, BackfillEmbedKeeps, BackfillWriteKeeps DEF BackfillStep
<1>4. CASE Expire \/ ServicesChange \/ Crash
  BY <1>4, ServicesKeep, CrashKeeps
<1>5. CASE UNCHANGED vars
  BY <1>5 DEF vars, IInv, TypeOK, CallsFit, MemoriesFit, MemoryFits, Alone, Settled, Entries
<1> QED
  BY <1>1, <1>2, <1>3, <1>4, <1>5 DEF Next

\* The invariant holds in every state a run reaches.
THEOREM Invariance == Spec => []IInv
<1>1. Init => IInv
  BY InitIInv
<1>2. IInv /\ [Next]_vars => IInv'
  BY NextKeeps
<1> QED
  BY <1>1, <1>2, PTL DEF Spec

\* With nobody at work on a memory its vector is that of its row's text, whatever requests, the
\* backfill, Qdrant and the models did in between, unless the memory is one of the excused.
THEOREM IndexCorrect == Spec => []IndexFollows
<1>1. IInv => IndexFollows
  <2> SUFFICES ASSUME IInv PROVE IndexFollows
    OBVIOUS
  <2>1. ASSUME NEW m \in Memories \ excused, Changing(m) = {}, points[m] # NoPoint
        PROVE  points[m].text = rows[m]
    BY <2>1, ChangingIs DEF IInv, MemoriesFit, MemoryFits, Settled
  <2> QED
    BY <2>1 DEF IndexFollows, IInv
<1> QED
  BY <1>1, Invariance, PTL

-----------------------------------------------------------------------------
(* AllTexts. *)

AllTexts == Seq(Letters)

LEMMA LessThan ==
  ASSUME NEW x \in Nat, NEW y \in Nat, y < x
  PROVE  <<y, x>> \in OpToRel(<, Nat)
<1>1. <<y, x>> \in Nat \X Nat /\ <<y, x>>[1] < <<y, x>>[2]
  OBVIOUS
<1> QED
  BY <1>1 DEF OpToRel

\* The least of a set of numbers.
LEMMA MinIs ==
  ASSUME NEW S \in SUBSET Nat, S # {}
  PROVE  Min(S) \in S /\ \A y \in S : Min(S) <= y
<1>1. PICK x \in S : \A y \in S : ~(<<y, x>> \in OpToRel(<, Nat))
  BY NatLessThanWellFounded, WFMin
<1>2. \A y \in S : x <= y
  <2> SUFFICES ASSUME NEW y \in S, y < x PROVE FALSE
    OBVIOUS
  <2>1. <<y, x>> \in OpToRel(<, Nat)
    BY LessThan
  <2> QED
    BY <1>1, <2>1
<1> QED
  BY <1>1, <1>2 DEF Min

LEMMA MinIsOnly ==
  ASSUME NEW S \in SUBSET Nat, NEW x \in S, \A y \in S : x <= y
  PROVE  Min(S) = x
<1>1. Min(S) \in S /\ \A y \in S : Min(S) <= y
  BY MinIs
<1>2. Min(S) <= x /\ x <= Min(S) /\ Min(S) \in Nat /\ x \in Nat
  BY <1>1
<1> QED
  BY <1>2

\* The rest of a text from a letter on.
Rest(s, m) == SubSeq(s, m, Len(s))

LEMMA RestIs ==
  ASSUME NEW s \in AllTexts, NEW m \in 1 .. Len(s) + 1
  PROVE  /\ Rest(s, m) \in AllTexts /\ Len(Rest(s, m)) = Len(s) - m + 1
         /\ \A i \in 1 .. Len(s) - m + 1 : Rest(s, m)[i] = s[m + i - 1]
<1>1. Len(s) \in Nat /\ m \in Int /\ Len(s) \in Int
  BY LenProperties DEF AllTexts
<1>2. \A i \in m .. Len(s) : s[i] \in Letters
  BY <1>1, ElementOfSeq DEF AllTexts
<1> QED
  BY <1>1, <1>2, SubSeqProperties DEF AllTexts, Rest

LEMMA RestOfAll ==
  ASSUME NEW s \in AllTexts
  PROVE  Rest(s, 1) = s
BY SubSeqFull DEF AllTexts, Rest

LEMMA Concat ==
  ASSUME NEW s \in AllTexts, NEW p \in AllTexts
  PROVE  /\ s \o p \in AllTexts /\ Len(s \o p) = Len(s) + Len(p) /\ Len(s) \in Nat /\ Len(p) \in Nat
         /\ \A i \in 1 .. Len(s) : (s \o p)[i] = s[i]
         /\ \A i \in 1 .. Len(p) : (s \o p)[Len(s) + i] = p[i]
<1>1. Len(s) \in Nat /\ Len(p) \in Nat
  BY LenProperties DEF AllTexts
<1>2. /\ s \o p \in Seq(Letters) /\ Len(s \o p) = Len(s) + Len(p)
      /\ \A i \in 1 .. Len(s) + Len(p) : (s \o p)[i] = IF i <= Len(s) THEN s[i] ELSE p[i - Len(s)]
  BY ConcatProperties DEF AllTexts
<1> QED
  BY <1>1, <1>2 DEF AllTexts

LEMMA RestOfConcat ==
  ASSUME NEW s \in AllTexts, NEW p \in AllTexts, NEW m \in 1 .. Len(s) + 1
  PROVE  Rest(s \o p, m) = Rest(s, m) \o p
<1> DEFINE q == s \o p
           r == Rest(s, m)
<1>1. /\ q \in AllTexts /\ Len(q) = Len(s) + Len(p) /\ Len(s) \in Nat /\ Len(p) \in Nat
      /\ \A i \in 1 .. Len(s) : q[i] = s[i]
      /\ \A i \in 1 .. Len(p) : q[Len(s) + i] = p[i]
  BY Concat
<1>2. m \in 1 .. Len(q) + 1 /\ m \in Nat
  BY <1>1
<1> HIDE DEF q
<1>3. /\ Rest(q, m) \in AllTexts /\ Len(Rest(q, m)) = Len(q) - m + 1
      /\ \A i \in 1 .. Len(q) - m + 1 : Rest(q, m)[i] = q[m + i - 1]
  BY <1>1, <1>2, RestIs
<1>4. /\ r \in AllTexts /\ Len(r) = Len(s) - m + 1
      /\ \A i \in 1 .. Len(s) - m + 1 : r[i] = s[m + i - 1]
  BY RestIs
<1> HIDE DEF r
<1>5. /\ r \o p \in AllTexts /\ Len(r \o p) = Len(r) + Len(p)
      /\ \A i \in 1 .. Len(r) : (r \o p)[i] = r[i]
      /\ \A i \in 1 .. Len(p) : (r \o p)[Len(r) + i] = p[i]
  BY <1>4, Concat
<1>6. Len(r) \in Nat /\ Len(Rest(q, m)) = Len(r \o p) /\ Len(Rest(q, m)) = Len(r) + Len(p)
  BY <1>1, <1>2, <1>3, <1>4, <1>5
<1>7. ASSUME NEW i \in 1 .. Len(Rest(q, m))
      PROVE  Rest(q, m)[i] = (r \o p)[i]
  <2>1. i \in Nat /\ i \in 1 .. Len(r) + Len(p)
    BY <1>6
  <2>2. Rest(q, m)[i] = q[m + i - 1]
    BY <1>3
  <2>3. CASE i <= Len(r)
    <3>1. i \in 1 .. Len(r) /\ m + i - 1 \in 1 .. Len(s) /\ i \in 1 .. Len(s) - m + 1
      BY <1>1, <1>2, <1>4, <1>6, <2>1, <2>3
    <3> QED
      BY <1>1, <1>4, <1>5, <2>2, <3>1
  <2>4. CASE i > Len(r)
    <3> DEFINE j == i - Len(r)
    <3>1. j \in 1 .. Len(p) /\ m + i - 1 = Len(s) + j /\ i = Len(r) + j
      BY <1>1, <1>2, <1>4, <1>6, <2>1, <2>4
    <3> HIDE DEF j
    <3>2. q[Len(s) + j] = p[j] /\ (r \o p)[Len(r) + j] = p[j]
      BY <1>1, <1>5, <3>1
    <3> QED
      BY <2>2, <3>1, <3>2
  <2> QED
    BY <1>6, <2>1, <2>3, <2>4
<1>8. Rest(q, m) = r \o p
  BY <1>3, <1>5, <1>6, <1>7, SeqEqual DEF AllTexts
<1> QED
  BY <1>8 DEF q, r

LEMMA RestAfter ==
  ASSUME NEW s \in AllTexts, NEW p \in AllTexts, NEW m \in 1 .. Len(p) + 1
  PROVE  Rest(s \o p, Len(s) + m) = Rest(p, m)
<1> DEFINE q == s \o p
           k == Len(s) + m
<1>1. /\ q \in AllTexts /\ Len(q) = Len(s) + Len(p) /\ Len(s) \in Nat /\ Len(p) \in Nat
      /\ \A i \in 1 .. Len(p) : q[Len(s) + i] = p[i]
  BY Concat
<1>2. k \in 1 .. Len(q) + 1 /\ k \in Nat /\ m \in Nat /\ k = Len(s) + m
  BY <1>1
<1> HIDE DEF q, k
<1>3. /\ Rest(q, k) \in AllTexts /\ Len(Rest(q, k)) = Len(q) - k + 1
      /\ \A i \in 1 .. Len(q) - k + 1 : Rest(q, k)[i] = q[k + i - 1]
  BY <1>1, <1>2, RestIs
<1>4. /\ Rest(p, m) \in AllTexts /\ Len(Rest(p, m)) = Len(p) - m + 1
      /\ \A i \in 1 .. Len(p) - m + 1 : Rest(p, m)[i] = p[m + i - 1]
  BY RestIs
<1>5. Len(q) - k + 1 = Len(p) - m + 1
  BY <1>1, <1>2
<1>6. ASSUME NEW i \in 1 .. Len(Rest(q, k))
      PROVE  Rest(q, k)[i] = Rest(p, m)[i]
  <2>1. i \in 1 .. Len(p) - m + 1 /\ i \in 1 .. Len(q) - k + 1 /\ i \in Nat
    BY <1>3, <1>5
  <2> DEFINE j == m + i - 1
  <2>2. j \in 1 .. Len(p) /\ k + i - 1 = Len(s) + j
    BY <1>1, <1>2, <2>1
  <2>3. Rest(p, m)[i] = p[j]
    BY <1>4, <2>1
  <2> HIDE DEF j
  <2> QED
    BY <1>1, <1>3, <2>1, <2>2, <2>3
<1>7. Rest(q, k) = Rest(p, m)
  BY <1>3, <1>4, <1>5, <1>6, SeqEqual DEF AllTexts
<1> QED
  BY <1>7 DEF q, k

LEMMA TextIs ==
  ASSUME NEW s \in AllTexts
  PROVE  DOMAIN s = 1 .. Len(s) /\ Len(s) \in Nat /\ (\A i \in 1 .. Len(s) : s[i] \in Letters)
BY LenProperties, ElementOfSeq DEF AllTexts

-----------------------------------------------------------------------------
(* What is left without the blanks at the start. *)

Blanks(s) == \A i \in 1 .. Len(s) : s[i] = "blank"

\* The first letter that is not blank.
FirstInk(s, m) == s[m] # "blank" /\ \A i \in 1 .. m - 1 : s[i] = "blank"

LEMMA TrimBlanks ==
  ASSUME NEW s \in AllTexts, Blanks(s)
  PROVE  TrimStart(s) = <<>>
BY TextIs DEF TrimStart, Blanks

LEMMA TrimInk ==
  ASSUME NEW s \in AllTexts, NEW m \in 1 .. Len(s), FirstInk(s, m)
  PROVE  TrimStart(s) = Rest(s, m)
<1> DEFINE inked == {i \in DOMAIN s : s[i] # "blank"}
<1>1. DOMAIN s = 1 .. Len(s) /\ Len(s) \in Nat
  BY TextIs
<1>2. inked \in SUBSET Nat /\ m \in inked
  BY <1>1 DEF FirstInk
<1>3. \A y \in inked : m <= y
  BY <1>1 DEF FirstInk
<1>4. TrimStart(s) = IF inked = {} THEN <<>> ELSE SubSeq(s, Min(inked), Len(s))
  BY DEF TrimStart
<1> HIDE DEF inked
<1>5. Min(inked) = m
  BY <1>2, <1>3, MinIsOnly
<1> QED
  BY <1>2, <1>4, <1>5 DEF Rest

LEMMA InkOrBlanks ==
  ASSUME NEW s \in AllTexts
  PROVE  Blanks(s) \/ \E m \in 1 .. Len(s) : FirstInk(s, m)
<1> DEFINE inked == {i \in DOMAIN s : s[i] # "blank"}
<1>1. DOMAIN s = 1 .. Len(s) /\ Len(s) \in Nat
  BY TextIs
<1>2. inked \in SUBSET Nat
  BY <1>1
<1>3. CASE inked = {}
  BY <1>1, <1>3 DEF Blanks
<1>4. CASE inked # {}
  <2> DEFINE m == Min(inked)
  <2>1. m \in inked /\ \A y \in inked : m <= y
    BY <1>2, <1>4, MinIs
  <2> HIDE DEF m
  <2>2. m \in 1 .. Len(s) /\ s[m] # "blank"
    BY <1>1, <2>1
  <2>3. ASSUME NEW i \in 1 .. m - 1 PROVE s[i] = "blank"
    <3>1. i \in 1 .. Len(s) /\ ~(m <= i)
      BY <1>1, <2>2
    <3> QED
      BY <1>1, <2>1, <3>1
  <2> QED
    BY <2>2, <2>3 DEF FirstInk
<1> QED
  BY <1>3, <1>4

LEMMA TrimOf ==
  ASSUME NEW s \in AllTexts
  PROVE  /\ TrimStart(s) \in AllTexts /\ Len(TrimStart(s)) <= Len(s)
         /\ TrimStart(s) = <<>> => Blanks(s)
         /\ TrimStart(s) # <<>> => FirstInk(TrimStart(s), 1)
<1>1. CASE Blanks(s)
  <2>1. TrimStart(s) = <<>>
    BY <1>1, TrimBlanks
  <2>2. <<>> \in AllTexts /\ Len(<<>>) = 0 /\ Len(s) \in Nat
    BY EmptySeq, TextIs DEF AllTexts
  <2> QED
    BY <1>1, <2>1, <2>2
<1>2. ASSUME NEW m \in 1 .. Len(s), FirstInk(s, m)
      PROVE  /\ TrimStart(s) \in AllTexts /\ Len(TrimStart(s)) <= Len(s)
             /\ TrimStart(s) # <<>> /\ FirstInk(TrimStart(s), 1)
  <2>1. TrimStart(s) = Rest(s, m) /\ Len(s) \in Nat /\ m \in Nat /\ m \in 1 .. Len(s) + 1
    BY <1>2, TrimInk, TextIs
  <2>2. /\ Rest(s, m) \in AllTexts /\ Len(Rest(s, m)) = Len(s) - m + 1
        /\ \A i \in 1 .. Len(s) - m + 1 : Rest(s, m)[i] = s[m + i - 1]
    BY <2>1, RestIs
  <2>3. 1 \in 1 .. Len(s) - m + 1 /\ m + 1 - 1 = m
    BY <2>1
  <2>4. Rest(s, m)[1] = s[m]
    BY <2>2, <2>3
  <2>5. Len(Rest(s, m)) # 0 /\ Len(Rest(s, m)) <= Len(s)
    BY <2>1, <2>2
  <2> QED
    BY <1>2, <2>1, <2>2, <2>4, <2>5, EmptySeq DEF FirstInk, AllTexts
<1> QED
  BY <1>1, <1>2, InkOrBlanks

\* Blanks at the start stay out of it, whatever follows.
LEMMA TrimConcat ==
  ASSUME NEW s \in AllTexts, NEW p \in AllTexts
  PROVE  TrimStart(s \o p) = IF TrimStart(s) = <<>> THEN TrimStart(p) ELSE TrimStart(s) \o p
<1> DEFINE q == s \o p
<1>1. /\ q \in AllTexts /\ Len(q) = Len(s) + Len(p) /\ Len(s) \in Nat /\ Len(p) \in Nat
      /\ \A i \in 1 .. Len(s) : q[i] = s[i]
      /\ \A i \in 1 .. Len(p) : q[Len(s) + i] = p[i]
  BY Concat
<1>2. Rest(q, Len(s) + 1) = p /\ \A m \in 1 .. Len(p) : Rest(q, Len(s) + m) = Rest(p, m)
  BY <1>1, RestAfter, RestOfAll
<1>3. \A m \in 1 .. Len(s) : Rest(q, m) = Rest(s, m) \o p
  BY <1>1, RestOfConcat
<1> HIDE DEF q
<1>4. CASE TrimStart(s) # <<>>
  <2>1. PICK m \in 1 .. Len(s) : FirstInk(s, m)
    BY <1>4, InkOrBlanks, TrimBlanks
  <2>2. FirstInk(q, m) /\ m \in 1 .. Len(q)
    BY <1>1, <2>1 DEF FirstInk
  <2> QED
    BY <1>1, <1>3, <1>4, <2>1, <2>2, TrimInk DEF q
<1>5. CASE TrimStart(s) = <<>>
  <2>1. Blanks(s)
    BY <1>5, TrimOf
  <2>2. CASE Blanks(p)
    <3>1. ASSUME NEW i \in 1 .. Len(q) PROVE q[i] = "blank"
      <4>1. CASE i <= Len(s)
        BY <1>1, <2>1, <4>1 DEF Blanks
      <4>2. CASE i > Len(s)
        <5> DEFINE j == i - Len(s)
        <5>1. j \in 1 .. Len(p) /\ i = Len(s) + j
          BY <1>1, <4>2
        <5> HIDE DEF j
        <5> QED
          BY <1>1, <2>2, <5>1 DEF Blanks
      <4> QED
        BY <1>1, <4>1, <4>2
    <3>2. Blanks(q)
      BY <3>1 DEF Blanks
    <3> QED
      BY <1>1, <1>5, <2>2, <3>2, TrimBlanks DEF q
  <2>3. ASSUME NEW m \in 1 .. Len(p), FirstInk(p, m)
        PROVE  TrimStart(q) = TrimStart(p)
    <3> DEFINE k == Len(s) + m
    <3>1. k \in 1 .. Len(q) /\ k = Len(s) + m /\ m \in Nat
      BY <1>1
    <3> HIDE DEF k
    <3>2. q[k] # "blank"
      BY <1>1, <2>3, <3>1 DEF FirstInk
    <3>3. ASSUME NEW i \in 1 .. k - 1 PROVE q[i] = "blank"
      <4>1. CASE i <= Len(s)
        BY <1>1, <2>1, <4>1 DEF Blanks
      <4>2. CASE i > Len(s)
        <5> DEFINE j == i - Len(s)
        <5>1. j \in 1 .. Len(p) /\ i = Len(s) + j /\ j \in 1 .. m - 1
          BY <1>1, <3>1, <4>2
        <5> HIDE DEF j
        <5> QED
          BY <1>1, <2>3, <5>1 DEF FirstInk
      <4> QED
        BY <1>1, <4>1, <4>2
    <3>4. FirstInk(q, k)
      BY <3>2, <3>3 DEF FirstInk
    <3>5. TrimStart(q) = Rest(q, k)
      BY <1>1, <3>1, <3>4, TrimInk
    <3>6. TrimStart(p) = Rest(p, m)
      BY <2>3, TrimInk
    <3> QED
      BY <1>2, <3>1, <3>5, <3>6
  <2> QED
    BY <1>5, <2>2, <2>3, InkOrBlanks DEF q
<1> QED
  BY <1>4, <1>5

LEMMA TrimSame ==
  ASSUME NEW a \in AllTexts, NEW b \in AllTexts, NEW p \in AllTexts, TrimStart(a) = TrimStart(b)
  PROVE  TrimStart(a \o p) = TrimStart(b \o p)
BY TrimConcat

LEMMA TrimTrim ==
  ASSUME NEW s \in AllTexts
  PROVE  TrimStart(TrimStart(s)) = TrimStart(s)
<1>1. /\ TrimStart(s) \in AllTexts
      /\ TrimStart(s) # <<>> => FirstInk(TrimStart(s), 1)
  BY TrimOf
<1>2. CASE TrimStart(s) = <<>>
  <2>1. Blanks(<<>>) /\ <<>> \in AllTexts
    BY <1>1, <1>2, EmptySeq DEF Blanks
  <2> QED
    BY <1>2, <2>1, TrimBlanks
<1>3. CASE TrimStart(s) # <<>>
  <2>1. Len(TrimStart(s)) # 0 /\ Len(TrimStart(s)) \in Nat
    BY <1>1, <1>3, EmptySeq, TextIs DEF AllTexts
  <2>2. 1 \in 1 .. Len(TrimStart(s))
    BY <2>1
  <2> QED
    BY <1>1, <1>3, <2>2, TrimInk, RestOfAll
<1> QED
  BY <1>2, <1>3

-----------------------------------------------------------------------------
(* Tags. *)

LEMMA OpenIs ==
  ASSUME NEW s \in AllTexts
  PROVE  IsPrefix(Open, s) <=> Len(s) >= 2 /\ s[1] = "open1" /\ s[2] = "open2"
<1>1. Open \in AllTexts /\ Len(Open) = 2 /\ Open[1] = "open1" /\ Open[2] = "open2"
  BY DEF Open, AllTexts, Letters
<1>2. SubSeq(Open, 1, 2) = Open
  BY <1>1, SubSeqFull DEF AllTexts
<1>3. Len(s) \in Nat /\ \A i \in 1 .. Len(s) : s[i] \in Letters
  BY TextIs
<1>4. CASE Len(s) >= 2
  <2> DEFINE r == SubSeq(s, 1, 2)
  <2>1. \A i \in 1 .. 2 : s[i] \in Letters
    BY <1>3, <1>4
  <2>2. /\ r \in Seq(Letters) /\ Len(r) = (IF 1 <= 2 THEN 2 - 1 + 1 ELSE 0)
        /\ \A i \in 1 .. 2 - 1 + 1 : r[i] = s[1 + i - 1]
    BY <2>1, SubSeqProperties
  <2> HIDE DEF r
  <2>3. Len(r) = 2
    BY <2>2
  <2>4. r[1] = s[1]
    BY <2>2
  <2>5. r[2] = s[2]
    BY <2>2
  <2>6. ASSUME s[1] = "open1", s[2] = "open2" PROVE r = Open
    <3>1. ASSUME NEW i \in 1 .. Len(r) PROVE r[i] = Open[i]
      <4>1. i = 1 \/ i = 2
        BY <2>3
      <4> QED
        BY <1>1, <2>4, <2>5, <2>6, <4>1
    <3> QED
      BY <1>1, <2>2, <2>3, <3>1, SeqEqual DEF AllTexts
  <2>7. IsPrefix(Open, s) <=> r = Open
    BY <1>1, <1>2, <1>3, <1>4 DEF IsPrefix, r
  <2> QED
    BY <1>1, <1>4, <2>4, <2>5, <2>6, <2>7
<1>5. CASE ~(Len(s) >= 2)
  BY <1>1, <1>3, <1>5 DEF IsPrefix
<1> QED
  BY <1>4, <1>5

LEMMA MayBeIs ==
  ASSUME NEW s \in AllTexts
  PROVE  MayBeTag(s) <=> (s = <<>> \/ (Len(s) = 1 /\ s[1] = "open1"))
<1>1. Open \in AllTexts /\ Len(Open) = 2 /\ Open[1] = "open1" /\ Open[2] = "open2"
  BY DEF Open, AllTexts, Letters
<1>2. Len(s) \in Nat
  BY TextIs
<1>3. SubSeq(s, 1, Len(s)) = s /\ SubSeq(Open, 1, 2) = Open
  BY <1>1, SubSeqFull DEF AllTexts
<1>4. CASE Len(s) = 0
  BY <1>2, <1>4, EmptySeq DEF AllTexts, MayBeTag
<1>5. CASE Len(s) = 1
  <2> DEFINE o == SubSeq(Open, 1, 1)
  <2>1. \A i \in 1 .. 1 : Open[i] \in Letters
    BY <1>1 DEF Letters
  <2>2. /\ o \in Seq(Letters) /\ Len(o) = (IF 1 <= 1 THEN 1 - 1 + 1 ELSE 0)
        /\ \A i \in 1 .. 1 - 1 + 1 : o[i] = Open[1 + i - 1]
    BY <2>1, SubSeqProperties
  <2> HIDE DEF o
  <2>3. Len(o) = 1
    BY <2>2
  <2>4. o[1] = "open1"
    BY <1>1, <2>2
  <2>5. ASSUME s[1] = "open1" PROVE s = o
    <3>1. ASSUME NEW i \in 1 .. Len(s) PROVE s[i] = o[i]
      <4>1. i = 1
        BY <1>5
      <4> QED
        BY <2>4, <2>5, <4>1
    <3> QED
      BY <1>5, <2>2, <2>3, <3>1, SeqEqual DEF AllTexts
  <2>6. s = o => s[1] = "open1"
    BY <2>4
  <2>7. IsPrefix(s, Open) <=> s = o
    BY <1>1, <1>3, <1>5 DEF IsPrefix, o
  <2>8. s # <<>> /\ s # Open
    BY <1>1, <1>5, EmptySeq
  <2> QED
    BY <1>5, <2>5, <2>6, <2>7, <2>8 DEF MayBeTag, IsStrictPrefix
<1>6. CASE Len(s) >= 2
  <2> DEFINE n == Len(s)
  <2>a. n \in Nat /\ n >= 2
    BY <1>2, <1>6
  <2> HIDE DEF n
  <2>b. n # 1 /\ n # 0 /\ (n <= 2 => n = 2)
    BY <2>a
  <2>1. Len(s) # 1 /\ Len(s) # 0 /\ (Len(s) <= 2 => Len(s) = 2)
    BY <2>b DEF n
  <2>2. s # <<>>
    <3>1. Len(<<>>) = 0
      BY EmptySeq
    <3> QED
      BY <2>1, <3>1
  <2>3. ASSUME IsPrefix(s, Open) PROVE s = Open
    <3>1. Len(s) <= 2
      BY <1>1, <2>3 DEF IsPrefix
    <3>2. Len(s) = 2
      BY <2>1, <3>1
    <3>3. SubSeq(s, 1, Len(s)) = SubSeq(Open, 1, Len(s))
      BY <2>3 DEF IsPrefix
    <3> QED
      BY <1>3, <3>2, <3>3
  <2> QED
    BY <2>1, <2>2, <2>3 DEF IsStrictPrefix, MayBeTag
<1>7. Len(s) = 0 \/ Len(s) = 1 \/ Len(s) >= 2
  <2> DEFINE n == Len(s)
  <2>1. n \in Nat
    BY <1>2
  <2> HIDE DEF n
  <2>2. n = 0 \/ n = 1 \/ n >= 2
    BY <2>1
  <2> QED
    BY <2>2 DEF n
<1> QED
  BY <1>4, <1>5, <1>6, <1>7

\* Once it is decided whether a text begins with the tag, more of it changes nothing.
LEMMA Decided ==
  ASSUME NEW s \in AllTexts, NEW p \in AllTexts, ~MayBeTag(TrimStart(s))
  PROVE  /\ ~MayBeTag(TrimStart(s \o p))
         /\ IsPrefix(Open, TrimStart(s \o p)) <=> IsPrefix(Open, TrimStart(s))
<1> DEFINE a == TrimStart(s)
           b == a \o p
<1>1. a \in AllTexts /\ a # <<>>
  BY TrimOf DEF MayBeTag
<1>2. TrimStart(s \o p) = b
  BY <1>1, TrimConcat
<1> HIDE DEF a
<1>3. /\ b \in AllTexts /\ Len(b) = Len(a) + Len(p) /\ Len(a) \in Nat /\ Len(p) \in Nat
      /\ \A i \in 1 .. Len(a) : b[i] = a[i]
  BY <1>1, Concat
<1> HIDE DEF b
<1>4. Len(a) # 0
  BY <1>1, EmptySeq DEF AllTexts
<1>5. 1 \in 1 .. Len(a)
  BY <1>3, <1>4
<1>6. b[1] = a[1] /\ Len(b) # 0
  BY <1>3, <1>4, <1>5
<1>7. b # <<>>
  BY <1>6, EmptySeq
<1>8. ~(Len(a) = 1 /\ a[1] = "open1")
  BY <1>1, MayBeIs DEF a
<1>9. CASE a[1] # "open1"
  BY <1>1, <1>2, <1>3, <1>6, <1>7, <1>9, MayBeIs, OpenIs DEF a
<1>10. CASE Len(a) # 1
  <2> DEFINE n == Len(a)
  <2>0. n \in Nat /\ n # 0 /\ n # 1 /\ Len(b) = n + Len(p) /\ Len(p) \in Nat
    BY <1>3, <1>4, <1>10
  <2> HIDE DEF n
  <2>1a. n >= 2 /\ Len(b) >= 2 /\ Len(b) # 1
    BY <2>0
  <2>1. Len(a) >= 2 /\ Len(b) >= 2 /\ Len(b) # 1
    BY <2>1a DEF n
  <2>2. 2 \in 1 .. Len(a)
    BY <1>3, <2>1
  <2>3. b[2] = a[2]
    BY <1>3, <2>2
  <2>4. ~MayBeTag(b)
    BY <1>3, <1>7, <2>1, MayBeIs
  <2>5. IsPrefix(Open, b) <=> IsPrefix(Open, a)
    BY <1>1, <1>3, <1>6, <2>1, <2>3, OpenIs
  <2> QED
    BY <1>2, <2>4, <2>5 DEF a
<1> QED
  BY <1>8, <1>9, <1>10

LEMMA OpenIsDecided ==
  ASSUME NEW s \in AllTexts, IsPrefix(Open, s)
  PROVE  ~MayBeTag(s)
<1>1. Len(s) >= 2 /\ Len(s) \in Nat
  BY OpenIs, TextIs
<1>2. s # <<>> /\ Len(s) # 1
  <2> DEFINE n == Len(s)
  <2>0. n \in Nat /\ n >= 2
    BY <1>1
  <2> HIDE DEF n
  <2>a. n # 0 /\ n # 1
    BY <2>0
  <2>1. Len(s) # 0 /\ Len(s) # 1
    BY <2>a DEF n
  <2>2. Len(<<>>) = 0
    BY EmptySeq
  <2> QED
    BY <2>1, <2>2
<1> QED
  BY <1>2, MayBeIs

\* The first end of the reasoning stays where it is.
LEMMA FirstClose ==
  ASSUME NEW s \in AllTexts, NEW p \in AllTexts, Closes(s) # {}
  PROVE  /\ Closes(s \o p) # {} /\ Min(Closes(s \o p)) = Min(Closes(s))
         /\ Min(Closes(s)) \in Nat /\ Min(Closes(s)) + 2 \in 1 .. Len(s) + 1
<1> DEFINE q == s \o p
<1>1. /\ q \in AllTexts /\ Len(q) = Len(s) + Len(p) /\ Len(s) \in Nat /\ Len(p) \in Nat
      /\ \A i \in 1 .. Len(s) : q[i] = s[i]
  BY Concat
<1> HIDE DEF q
<1>2. Closes(s) \in SUBSET Nat /\ Closes(q) \in SUBSET Nat
  BY <1>1 DEF Closes
<1> DEFINE m == Min(Closes(s))
<1>3. m \in Closes(s) /\ \A y \in Closes(s) : m <= y
  BY <1>2, MinIs
<1> HIDE DEF m
<1>4. m \in 1 .. Len(s) - 1 /\ m \in Nat /\ s[m] = "close1" /\ s[m + 1] = "close2"
  BY <1>1, <1>3 DEF Closes
<1>5. ASSUME NEW i \in 1 .. Len(s) - 1
      PROVE  i \in Closes(s) <=> i \in Closes(q)
  <2>1. i \in 1 .. Len(s) /\ i + 1 \in 1 .. Len(s) /\ i \in 1 .. Len(q) - 1
    BY <1>1
  <2>2. q[i] = s[i] /\ q[i + 1] = s[i + 1]
    BY <1>1, <2>1
  <2> QED
    BY <2>1, <2>2 DEF Closes
<1>6. m \in Closes(q)
  BY <1>3, <1>4, <1>5
<1>7. ASSUME NEW y \in Closes(q) PROVE m <= y
  <2>1. y \in Nat /\ y >= 1
    BY <1>1 DEF Closes
  <2>2. CASE y <= Len(s) - 1
    BY <1>1, <1>3, <1>5, <2>1, <2>2
  <2>3. CASE ~(y <= Len(s) - 1)
    BY <1>1, <1>4, <2>1, <2>3
  <2> QED
    BY <2>2, <2>3
<1>8. Min(Closes(q)) = m
  BY <1>2, <1>6, <1>7, MinIsOnly
<1>9. m + 2 \in 1 .. Len(s) + 1
  BY <1>1, <1>4
<1> QED
  BY <1>4, <1>6, <1>8, <1>9 DEF q, m

LEMMA AfterCloseIs ==
  ASSUME NEW s \in AllTexts, Closes(s) # {}
  PROVE  AfterClose(s) \in AllTexts /\ Len(AfterClose(s)) <= Len(s)
<1> DEFINE k == Min(Closes(s)) + 2
<1>1. <<>> \in AllTexts
  BY EmptySeq DEF AllTexts
<1>2. k \in 1 .. Len(s) + 1 /\ Len(s) \in Nat
  BY <1>1, FirstClose, TextIs
<1> HIDE DEF k
<1>3. Rest(s, k) \in AllTexts /\ Len(Rest(s, k)) = Len(s) - k + 1
  BY <1>2, RestIs
<1>4. AfterClose(s) = TrimStart(Rest(s, k))
  BY DEF AfterClose, Rest, k
<1>5. TrimStart(Rest(s, k)) \in AllTexts /\ Len(TrimStart(Rest(s, k))) <= Len(Rest(s, k))
  BY <1>3, TrimOf
<1>6. Len(TrimStart(Rest(s, k))) \in Nat
  BY <1>5, TextIs
<1> QED
  BY <1>2, <1>3, <1>4, <1>5, <1>6

LEMMA StripIs ==
  ASSUME NEW s \in AllTexts
  PROVE  stripThinking(s) \in AllTexts /\ Len(stripThinking(s)) <= Len(s)
<1>1. <<>> \in AllTexts /\ Len(<<>>) = 0 /\ Len(s) \in Nat
  BY EmptySeq, TextIs DEF AllTexts
<1> QED
  BY <1>1, AfterCloseIs DEF stripThinking

\* Once it is known where the answer begins, all that follows is part of it.
LEMMA StripConcat ==
  ASSUME NEW s \in AllTexts, NEW p \in AllTexts, ~MayBeTag(TrimStart(s)),
         IsPrefix(Open, TrimStart(s)) => Closes(s) # {}
  PROVE  /\ TrimStart(stripThinking(s \o p)) = TrimStart(stripThinking(s) \o p)
         /\ IsPrefix(Open, TrimStart(s \o p)) => Closes(s \o p) # {}
<1>1. IsPrefix(Open, TrimStart(s \o p)) <=> IsPrefix(Open, TrimStart(s))
  BY Decided
<1>2. CASE ~IsPrefix(Open, TrimStart(s))
  BY <1>1, <1>2 DEF stripThinking
<1>3. CASE IsPrefix(Open, TrimStart(s))
  <2> DEFINE k == Min(Closes(s)) + 2
             r == Rest(s, k)
  <2>1. /\ Closes(s) # {} /\ Closes(s \o p) # {} /\ Min(Closes(s \o p)) + 2 = k
        /\ k \in 1 .. Len(s) + 1
    BY <1>3, FirstClose
  <2>2. stripThinking(s) = AfterClose(s) /\ stripThinking(s \o p) = AfterClose(s \o p)
    BY <1>1, <1>3, <2>1 DEF stripThinking
  <2>3. AfterClose(s) = TrimStart(r) /\ AfterClose(s \o p) = TrimStart(Rest(s \o p, k))
    BY <2>1 DEF AfterClose, Rest
  <2> HIDE DEF k
  <2>4. Rest(s \o p, k) = r \o p /\ r \in AllTexts
    BY <2>1, RestOfConcat, RestIs
  <2> HIDE DEF r
  <2>5. TrimStart(r) \in AllTexts /\ TrimStart(TrimStart(r)) = TrimStart(r) /\ r \o p \in AllTexts
    BY <2>4, TrimOf, TrimTrim, Concat
  <2>6. TrimStart(TrimStart(r) \o p) = TrimStart(r \o p)
    BY <2>4, <2>5, TrimSame
  <2>7. TrimStart(TrimStart(r \o p)) = TrimStart(r \o p)
    BY <2>5, TrimTrim
  <2> QED
    BY <2>1, <2>2, <2>3, <2>4, <2>6, <2>7
<1> QED
  BY <1>2, <1>3

-----------------------------------------------------------------------------
(* The filter. *)

Filters == [state : {"undecided", "thinking", "answer"}, held : AllTexts, out : AllTexts]

\* What the filter holds back and what it has let out, l, of the text s.
FilterFits(f, s, l) ==
  /\ f.state = "undecided" => f.held = s /\ l = <<>> /\ MayBeTag(TrimStart(s))
  /\ f.state = "thinking" =>
       f.held = s /\ l = <<>> /\ IsPrefix(Open, TrimStart(s)) /\ Closes(s) = {}
  /\ f.state = "answer" =>
       /\ ~MayBeTag(TrimStart(s))
       /\ IsPrefix(Open, TrimStart(s)) => Closes(s) # {}
       /\ TrimStart(l) = TrimStart(stripThinking(s))
  /\ Len(l) <= Len(s)

LEMMA TrimNothing == <<>> \in AllTexts /\ Len(<<>>) = 0 /\ TrimStart(<<>>) = <<>>
<1>1. <<>> \in AllTexts /\ Len(<<>>) = 0
  BY EmptySeq DEF AllTexts
<1>2. Blanks(<<>>)
  BY <1>1 DEF Blanks
<1> QED
  BY <1>1, <1>2, TrimBlanks

LEMMA ConcatNothing ==
  ASSUME NEW s \in AllTexts
  PROVE  s \o <<>> = s /\ <<>> \o s = s
BY ConcatEmptySeq DEF AllTexts

LEMMA PushFits ==
  ASSUME NEW f \in Filters, NEW s \in AllTexts, NEW l \in AllTexts, NEW p \in AllTexts,
         FilterFits(f, s, l)
  PROVE  /\ Push(f, p) \in Filters
         /\ FilterFits([Push(f, p) EXCEPT !.out = <<>>], s \o p, l \o Push(f, p).out)
<1> DEFINE q == s \o p
           g == Push(f, p)
<1>1. q \in AllTexts /\ Len(q) = Len(s) + Len(p) /\ Len(s) \in Nat /\ Len(p) \in Nat /\ Len(l) \in Nat
  BY Concat, TextIs
<1>2. <<>> \in AllTexts /\ Len(<<>>) = 0 /\ TrimStart(<<>>) = <<>>
  BY TrimNothing
<1>3. CASE f.state = "answer"
  <2>1. g = [f EXCEPT !.out = p]
    BY <1>3 DEF Push
  <2>2. /\ ~MayBeTag(TrimStart(s))
        /\ IsPrefix(Open, TrimStart(s)) => Closes(s) # {}
        /\ TrimStart(l) = TrimStart(stripThinking(s)) /\ Len(l) <= Len(s)
    BY <1>3 DEF FilterFits
  <2>3. ~MayBeTag(TrimStart(q))
    BY <2>2, Decided
  <2>4. /\ TrimStart(stripThinking(q)) = TrimStart(stripThinking(s) \o p)
        /\ IsPrefix(Open, TrimStart(q)) => Closes(q) # {}
    BY <2>2, StripConcat
  <2>5. TrimStart(l \o p) = TrimStart(stripThinking(s) \o p)
    BY <2>2, StripIs, TrimSame
  <2>6. Len(l \o p) = Len(l) + Len(p)
    BY Concat
  <2>7. Len(l \o p) <= Len(q)
    BY <1>1, <2>2, <2>6
  <2> HIDE DEF q, g
  <2>8. g \in Filters /\ g.state = "answer" /\ g.out = p
    BY <1>3, <2>1 DEF Filters
  <2>9. FilterFits([g EXCEPT !.out = <<>>], q, l \o p)
    BY <2>3, <2>4, <2>5, <2>7, <2>8 DEF FilterFits, Filters
  <2> QED
    BY <2>8, <2>9 DEF g, q
<1>4. CASE f.state # "answer"
  <2>1. /\ f.held = s /\ l = <<>> /\ f.state \in {"undecided", "thinking"}
        /\ f.state = "undecided" => MayBeTag(TrimStart(s))
        /\ f.state = "thinking" => IsPrefix(Open, TrimStart(s)) /\ Closes(s) = {}
    BY <1>4 DEF FilterFits, Filters
  <2>2. \A x \in AllTexts : l \o x = x
    BY <2>1, ConcatNothing
  <2>3. TrimStart(q) \in AllTexts
    BY <1>1, TrimOf
  <2>4. f.state = "thinking" => IsPrefix(Open, TrimStart(q)) /\ ~MayBeTag(TrimStart(q))
    <3>1. ASSUME f.state = "thinking" PROVE ~MayBeTag(TrimStart(s))
      BY <2>1, <3>1, TrimOf, OpenIsDecided
    <3> QED
      BY <2>1, <3>1, Decided
  <2>5. CASE f.state = "undecided" /\ MayBeTag(TrimStart(q))
    <3>1. g = [f EXCEPT !.held = q, !.out = <<>>]
      BY <2>1, <2>5 DEF Push
    <3> HIDE DEF q, g
    <3>2. g \in Filters /\ g.state = "undecided" /\ g.held = q /\ g.out = <<>>
      BY <1>1, <1>2, <2>5, <3>1 DEF Filters
    <3>3. FilterFits([g EXCEPT !.out = <<>>], q, l \o g.out)
      BY <1>1, <1>2, <2>2, <2>5, <3>2 DEF FilterFits, Filters
    <3> QED
      BY <3>2, <3>3 DEF g, q
  <2>6. CASE f.state = "undecided" /\ ~MayBeTag(TrimStart(q)) /\ ~IsPrefix(Open, TrimStart(q))
    <3>1. g = [state |-> "answer", held |-> <<>>, out |-> q]
      BY <2>1, <2>6 DEF Push
    <3>2. stripThinking(q) = q
      BY <2>6 DEF stripThinking
    <3> HIDE DEF q, g
    <3>3. g \in Filters /\ g.state = "answer" /\ g.out = q
      BY <1>1, <1>2, <3>1 DEF Filters
    <3>4. l \o g.out = q
      BY <1>1, <2>2, <3>3
    <3>5. FilterFits([g EXCEPT !.out = <<>>], q, q)
      BY <1>1, <2>6, <3>2, <3>3 DEF FilterFits, Filters
    <3> QED
      BY <3>3, <3>4, <3>5 DEF g, q
  <2>7. CASE ~MayBeTag(TrimStart(q)) /\ IsPrefix(Open, TrimStart(q))
    <3>1. g = IF Closes(q) = {} THEN [state |-> "thinking", held |-> q, out |-> <<>>]
              ELSE [state |-> "answer", held |-> <<>>, out |-> AfterClose(q)]
      BY <2>1, <2>7 DEF Push
    <3>2. CASE Closes(q) = {}
      <4> HIDE DEF q, g
      <4>1. g \in Filters /\ g.state = "thinking" /\ g.held = q /\ g.out = <<>>
        BY <1>1, <1>2, <3>1, <3>2 DEF Filters
      <4>2. FilterFits([g EXCEPT !.out = <<>>], q, l \o g.out)
        BY <1>1, <1>2, <2>2, <2>7, <3>2, <4>1 DEF FilterFits, Filters
      <4> QED
        BY <4>1, <4>2 DEF g, q
    <3>3. CASE Closes(q) # {}
      <4> DEFINE a == AfterClose(q)
      <4>1. a \in AllTexts /\ Len(a) <= Len(q) /\ stripThinking(q) = a
        BY <1>1, <2>7, <3>3, AfterCloseIs DEF stripThinking
      <4>2. g = [state |-> "answer", held |-> <<>>, out |-> a]
        BY <3>1, <3>3
      <4> HIDE DEF q, g, a
      <4>3. g \in Filters /\ g.state = "answer" /\ g.out = a
        BY <1>2, <4>1, <4>2 DEF Filters
      <4>4. l \o g.out = a
        BY <2>2, <4>1, <4>3
      <4>5. FilterFits([g EXCEPT !.out = <<>>], q, a)
        BY <2>7, <3>3, <4>1, <4>3 DEF FilterFits, Filters
      <4> QED
        BY <4>3, <4>4, <4>5 DEF g, q
    <3> QED
      BY <3>2, <3>3
  <2> QED
    BY <2>1, <2>4, <2>5, <2>6, <2>7
<1> QED
  BY <1>3, <1>4

-----------------------------------------------------------------------------
(* ModelReply: the inductive invariant. *)

Chats == [letters : AllTexts, error : BOOLEAN, final : Outputs]

ReplyTyped ==
  /\ installed \in Lists /\ tag \in Tags /\ model \in Tags /\ probes \subseteq Lists /\ applied \in Lists
  /\ ask \in Ask /\ phase \in Phases /\ aborted \in BOOLEAN /\ timedOut \in BOOLEAN
  /\ text \in AllTexts /\ reply \in AllTexts /\ Len(text) <= MaxLetters /\ Len(reply) <= MaxLetters
  /\ filter \in Filters
  /\ told \in Outcomes /\ streamed \in BOOLEAN /\ output \in Outputs
  /\ chat \in Chats
  /\ mishaps \in 0 .. MaxMishaps

\* What was shown is what the filter let out of the text so far.
ShownOfText == IF Streams THEN FilterFits(filter, text, chat.letters) ELSE chat.letters = <<>>

\* A call that goes on, or ends well, has what was shown for its reply.
ReplyIsShown ==
  /\ phase \in {"start", "recalling", "asking", "reading"} => told = "none"
  /\ Streams /\ told \in {"none", "ok"} => reply = chat.letters

\* What the node makes of the call; an error of which the user still hears goes under what was shown.
NodeFits ==
  IF told = "ok"
  THEN /\ output = IF TrimStart(reply) # <<>> THEN "answer" ELSE "fallback"
       /\ ~chat.error
       /\ streamed <=> chat.letters # <<>> /\ TrimStart(reply) # <<>>
  ELSE /\ output = "error"
       /\ streamed => chat.letters # <<>>
       /\ ~aborted => (chat.error <=> streamed)

ChatFits ==
  /\ phase \in {"start", "recalling", "asking", "reading", "returned"} =>
       /\ output = "none" /\ ~chat.error /\ chat.final = "none"
       /\ streamed <=> chat.letters # <<>>
  /\ phase \in {"start", "recalling", "asking"} => chat.letters = <<>>
  /\ phase = "done" => NodeFits /\ chat.final = "none"
  /\ phase = "ended" =>
       /\ NodeFits
       /\ ~aborted => chat.final = IF ask.stream /\ streamed THEN "none" ELSE output

\* The tag in use is one for the models of the last answer of Ollama that was used, and the request's
\* model is one for those of the last answer before its orchestrator.
TagFits ==
  /\ LET chosen == IF phase = "start" THEN tag ELSE model
     IN  IF applied = NoAnswer THEN chosen = Default ELSE chosen \in InUse(applied)
  /\ told = "missing" => phase \in {"returned", "done", "ended"} /\ installed # NoAnswer /\ model \notin installed

ReplyInv == ReplyTyped /\ ShownOfText /\ ReplyIsShown /\ ChatFits /\ TagFits

LEMMA PieceIs ==
  ASSUME NEW n \in Nat, NEW piece \in [1 .. n -> Letters]
  PROVE  piece \in AllTexts /\ Len(piece) = n
<1>1. piece \in Seq(Letters)
  BY SeqDef
<1>2. DOMAIN piece = 1 .. n /\ Len(piece) \in Nat /\ DOMAIN piece = 1 .. Len(piece)
  BY <1>1, LenProperties
<1> QED
  BY <1>1, <1>2 DEF AllTexts

LEMMA InUseIs ==
  ASSUME NEW tags \in SUBSET Tags
  PROVE  InUse(tags) \subseteq Tags
BY ModelReplyAssumption DEF InUse, matchInstalledTag, pickInstalledModel

LEMMA MishapType ==
  ASSUME mishaps \in 0 .. MaxMishaps, Mishap
  PROVE  mishaps' \in 0 .. MaxMishaps
BY ModelReplyAssumption DEF Mishap

\* Steps that leave alone what was written and shown.
LEMMA ShownStays ==
  ASSUME ReplyInv, UNCHANGED <<ask, text, filter, told, reply, streamed, output, chat>>,
         phase' \in Phases, phase' \in {"start", "recalling", "asking", "reading"} => phase \in {"start", "recalling", "asking", "reading"},
         phase' = phase \/ (phase' \in {"recalling", "asking"} /\ phase \in {"start", "recalling"})
           \/ phase' = "reading",
         aborted \in BOOLEAN, aborted' \in BOOLEAN, aborted => aborted'
  PROVE  (ShownOfText /\ ReplyIsShown /\ ChatFits)'
<1>1. ShownOfText'
  BY DEF ReplyInv, ShownOfText, FilterFits, Streams
<1>2. ReplyIsShown'
  BY DEF ReplyInv, ReplyIsShown, Streams
<1>3. ChatFits'
  BY DEF ReplyInv, ChatFits, NodeFits
<1> QED
  BY <1>1, <1>2, <1>3

LEMMA TypesAreRight == ReplyTyped => ReplyTypeOK
BY DEF ReplyTyped, ReplyTypeOK, Filters, Chats, AllTexts

-----------------------------------------------------------------------------
(* The steps. *)

LEMMA ReplyInitInv == ReplyInit => ReplyInv
<1> SUFFICES ASSUME ReplyInit PROVE ReplyInv
  OBVIOUS
<1>1. <<>> \in AllTexts /\ Len(<<>>) = 0 /\ TrimStart(<<>>) = <<>>
  BY TrimNothing
<1>2. ReplyTyped
  <2>1. filter \in Filters /\ chat \in Chats
    BY <1>1 DEF ReplyInit, Filters, Chats, Outputs
  <2>2. /\ text \in AllTexts /\ reply \in AllTexts /\ Len(text) <= MaxLetters /\ Len(reply) <= MaxLetters
    BY <1>1, ModelReplyAssumption DEF ReplyInit
  <2>3. mishaps \in 0 .. MaxMishaps
    BY ModelReplyAssumption DEF ReplyInit
  <2>4. installed \in Lists /\ tag \in Tags /\ model \in Tags /\ probes \subseteq Lists /\ applied \in Lists
    BY ModelReplyAssumption DEF ReplyInit, Lists
  <2> QED
    BY <2>1, <2>2, <2>3, <2>4 DEF ReplyInit, Phases, Outcomes, Outputs, ReplyTyped
<1>3. ShownOfText
  BY <1>1 DEF ReplyInit, ShownOfText, FilterFits, MayBeTag
<1>4. ReplyIsShown /\ ChatFits /\ TagFits
  BY DEF ReplyInit, ReplyIsShown, ChatFits, TagFits
<1> QED
  BY <1>2, <1>3, <1>4 DEF ReplyInv

\* Before the request, and while it is made.
LEMMA EarlyKeep ==
  ASSUME ReplyInv,
         probeOllama \/ OllamaChanges \/ (\E tags \in probes : Probed(tags))
         \/ newOrchestrator \/ Recall \/ Accepted \/ TimesOut \/ Stop
  PROVE  ReplyInv'
<1>1. /\ UNCHANGED <<ask, text, filter, told, reply, streamed, output, chat>>
      /\ phase' \in Phases
      /\ phase' \in {"start", "recalling", "asking", "reading"} => phase \in {"start", "recalling", "asking", "reading"}
      /\ phase' = phase \/ (phase' \in {"recalling", "asking"} /\ phase \in {"start", "recalling"})
           \/ phase' = "reading"
      /\ aborted \in BOOLEAN /\ aborted' \in BOOLEAN /\ (aborted => aborted') /\ timedOut' \in BOOLEAN
  BY DEF ReplyInv, probeOllama, OllamaChanges, Probed, newOrchestrator, Recall, Accepted, TimesOut, Stop, call,
     shown, models, Phases, ReplyTyped
<1>2. (ShownOfText /\ ReplyIsShown /\ ChatFits)'
  BY <1>1, ShownStays
<1>3. mishaps' \in 0 .. MaxMishaps
  BY MishapType DEF ReplyInv, probeOllama, OllamaChanges, Probed, newOrchestrator, Recall, Accepted, TimesOut,
     Stop, ReplyTyped
<1>4. /\ installed' \in Lists /\ tag' \in Tags /\ model' \in Tags /\ probes' \subseteq Lists /\ applied' \in Lists /\ TagFits'
  <2>0. /\ installed \in Lists /\ tag \in Tags /\ model \in Tags /\ probes \subseteq Lists /\ applied \in Lists /\ TagFits
        /\ ReplyIsShown
    BY DEF ReplyInv, ReplyTyped
  <2>1. CASE probeOllama
    BY <1>1, <2>0, <2>1 DEF probeOllama, TagFits, call, InUse
  <2>2. CASE OllamaChanges
    BY <1>1, <2>0, <2>2 DEF OllamaChanges, TagFits, InUse, call, ReplyIsShown
  <2>3. ASSUME NEW tags \in probes, Probed(tags)
        PROVE  installed' \in Lists /\ tag' \in Tags /\ model' \in Tags /\ probes' \subseteq Lists /\ applied' \in Lists /\ TagFits'
    <3>1. /\ tags \in Lists /\ told # "missing" /\ UNCHANGED <<installed, phase, model>> /\ probes' \subseteq Lists
          /\ UNCHANGED ask
      BY <2>0, <2>3 DEF Probed, ReplyIsShown, call
    <3>2. CASE tags = NoAnswer
      BY <1>1, <2>0, <2>3, <3>1, <3>2 DEF Probed, TagFits, InUse
    <3>3. CASE tags # NoAnswer
      <4>1. tags \in SUBSET Tags
        BY <3>1, <3>3 DEF Lists
      <4>2. tag' \in InUse(tags) /\ applied' = IF phase = "start" THEN tags ELSE applied
        BY <2>3, <3>3 DEF Probed
      <4>3. tag' \in Tags
        BY <4>1, <4>2, InUseIs
      <4>4. CASE phase = "start"
        BY <1>1, <2>0, <3>1, <3>3, <4>1, <4>2, <4>3, <4>4 DEF TagFits, InUse, Lists
      <4>5. CASE phase # "start"
        BY <1>1, <2>0, <3>1, <4>2, <4>3, <4>5 DEF TagFits, InUse
      <4> QED
        BY <4>4, <4>5
    <3> QED
      BY <3>2, <3>3
  <2>4. CASE newOrchestrator
    BY <1>1, <2>0, <2>4 DEF newOrchestrator, TagFits, InUse, ReplyIsShown
  <2>7. CASE Recall
    BY <1>1, <2>0, <2>7, ModelReplyAssumption DEF Recall, TagFits, InUse, ReplyIsShown
  <2>5. CASE Accepted
    BY <1>1, <2>0, <2>5, ModelReplyAssumption DEF Accepted, TagFits, InUse, ReplyIsShown, Lists
  <2>6. CASE TimesOut \/ Stop
    BY <1>1, <2>0, <2>6 DEF TimesOut, Stop, TagFits, InUse, models
  <2> QED
    BY <2>1, <2>2, <2>3, <2>4, <2>5, <2>6, <2>7
<1>5. ReplyTyped'
  <2>1. ReplyTyped
    BY DEF ReplyInv
  <2> QED
    BY <1>1, <1>3, <1>4, <2>1 DEF ReplyTyped
<1> QED
  BY <1>2, <1>4, <1>5 DEF ReplyInv

LEMMA RecallFailsKeeps ==
  ASSUME ReplyInv, RecallFails
  PROVE  ReplyInv'
<1>1. ReplyTyped
  BY DEF ReplyInv
<1>2. mishaps' \in 0 .. MaxMishaps
  BY <1>1, MishapType DEF RecallFails, ReplyTyped
<1>3. ReplyTyped'
  BY <1>1, <1>2 DEF RecallFails, models, Phases, Outputs, ReplyTyped
<1>4. told = "none"
  BY DEF ReplyInv, ReplyIsShown, RecallFails
<1>5. ShownOfText'
  BY DEF ReplyInv, ShownOfText, FilterFits, Streams, RecallFails
<1>6. ReplyIsShown' /\ TagFits'
  BY <1>4 DEF ReplyInv, ReplyIsShown, TagFits, InUse, Streams, RecallFails, models
<1>7. ChatFits'
  BY <1>4 DEF ReplyInv, ChatFits, NodeFits, RecallFails
<1> QED
  BY <1>3, <1>5, <1>6, <1>7 DEF ReplyInv

\* The end of the call.
LEMMA ReturnKeeps ==
  ASSUME ReplyInv, NEW outcome \in Outcomes, NEW s \in AllTexts, Len(s) <= MaxLetters, Return(outcome, s),
         phase \in {"asking", "reading"}, outcome # "none", outcome = "ok" /\ Streams => s = reply,
         outcome = "missing" => installed # NoAnswer /\ model \notin installed,
         mishaps' \in 0 .. MaxMishaps
  PROVE  ReplyInv'
<1>1. ReplyTyped
  BY DEF ReplyInv
<1>2. ReplyTyped'
  BY <1>1 DEF Return, models, shown, Phases, ReplyTyped
<1>3. ShownOfText'
  BY DEF ReplyInv, ShownOfText, FilterFits, Streams, Return, shown
<1>4. ReplyIsShown'
  BY DEF ReplyInv, ReplyIsShown, Streams, Return, shown
<1>5. ChatFits'
  BY DEF ReplyInv, ChatFits, Return, shown
<1>6. TagFits'
  BY DEF ReplyInv, TagFits, InUse, Return, models
<1> QED
  BY <1>2, <1>3, <1>4, <1>5, <1>6 DEF ReplyInv

LEMMA FailsKeep ==
  ASSUME ReplyInv, NotInstalled \/ Refused \/ GivenUp \/ Unreachable \/ Breaks \/ Stopped
  PROVE  ReplyInv'
<1>1. <<>> \in AllTexts /\ Len(<<>>) <= MaxLetters
  BY TrimNothing, ModelReplyAssumption
<1>2. mishaps' \in 0 .. MaxMishaps
  BY MishapType DEF ReplyInv, NotInstalled, Refused, GivenUp, Unreachable, Breaks, Stopped, ReplyTyped
<1>3. PICK outcome \in Outcomes \ {"none", "ok"} :
        /\ Return(outcome, <<>>) /\ phase \in {"asking", "reading"}
        /\ outcome = "missing" => installed # NoAnswer /\ model \notin installed
  BY DEF NotInstalled, Refused, GivenUp, Unreachable, Breaks, Stopped, Fail, Reason, Outcomes
<1> QED
  BY <1>1, <1>2, <1>3, ReturnKeeps

LEMMA EndsKeeps ==
  ASSUME ReplyInv, Ends
  PROVE  ReplyInv'
<1> DEFINE s == IF Streams THEN reply
                ELSE IF ask.provider = "ollama" THEN OllamaReply(text) ELSE CloudReply(text)
<1>1. /\ text \in AllTexts /\ reply \in AllTexts /\ Len(text) <= MaxLetters /\ Len(reply) <= MaxLetters
      /\ mishaps \in 0 .. MaxMishaps
  BY DEF ReplyInv, ReplyTyped
<1>2. stripThinking(text) \in AllTexts /\ Len(stripThinking(text)) <= Len(text)
  BY <1>1, StripIs
<1>3. Len(stripThinking(text)) \in Nat /\ Len(text) \in Nat
  BY <1>1, <1>2, TextIs
<1>4. Len(stripThinking(text)) <= MaxLetters
  BY <1>1, <1>2, <1>3, ModelReplyAssumption
<1>5. s \in AllTexts /\ Len(s) <= MaxLetters /\ (Streams => s = reply)
  BY <1>1, <1>2, <1>4 DEF OllamaReply, CloudReply
<1>6. Return("ok", s) /\ phase = "reading" /\ mishaps' = mishaps
  BY DEF Ends
<1> HIDE DEF s
<1> QED
  BY <1>1, <1>5, <1>6, ReturnKeeps DEF Outcomes

LEMMA PieceKeeps ==
  ASSUME ReplyInv, Piece
  PROVE  ReplyInv'
<1>0. ReplyTyped /\ ShownOfText /\ ReplyIsShown /\ ChatFits /\ TagFits
  BY DEF ReplyInv
<1>1. /\ phase = "reading" /\ ~aborted
      /\ UNCHANGED <<models, ask, phase, aborted, timedOut, told, output, mishaps>>
  BY DEF Piece
<1>2. PICK n \in 1 .. MaxPiece : \E piece \in [1 .. n -> Letters] :
       /\ Len(text) + n <= MaxLetters
       /\ text' = text \o piece
       /\ IF Streams
          THEN LET f == Push(filter, piece)
               IN  /\ filter' = [f EXCEPT !.out = <<>>]
                   /\ reply' = reply \o f.out
                   /\ streamed' = (streamed \/ f.out # <<>>)
                   /\ Show(f.out)
          ELSE UNCHANGED <<filter, reply, streamed, chat>>
  BY DEF Piece
<1>3. PICK piece \in [1 .. n -> Letters] :
       /\ Len(text) + n <= MaxLetters
       /\ text' = text \o piece
       /\ IF Streams
          THEN LET f == Push(filter, piece)
               IN  /\ filter' = [f EXCEPT !.out = <<>>]
                   /\ reply' = reply \o f.out
                   /\ streamed' = (streamed \/ f.out # <<>>)
                   /\ Show(f.out)
          ELSE UNCHANGED <<filter, reply, streamed, chat>>
  BY <1>2
<1>4. piece \in AllTexts /\ Len(piece) = n
  BY PieceIs, ModelReplyAssumption
<1>5. /\ text \in AllTexts /\ reply \in AllTexts /\ filter \in Filters /\ chat \in Chats /\ streamed \in BOOLEAN
      /\ Len(text) \in Nat /\ Len(reply) \in Nat /\ Len(reply) <= MaxLetters
  BY <1>0, TextIs DEF ReplyTyped
<1>6. text' \in AllTexts /\ Len(text') = Len(text) + n
  BY <1>3, <1>4, <1>5, Concat
<1>7. Len(text') <= MaxLetters
  BY <1>3, <1>6
<1>8. TagFits'
  BY <1>0, <1>1 DEF TagFits, InUse, models
<1>9. told = "none" /\ output = "none" /\ ~chat.error /\ chat.final = "none" /\ (streamed <=> chat.letters # <<>>)
  BY <1>0, <1>1 DEF ReplyIsShown, ChatFits
<1>10. CASE ~Streams
  <2>1. UNCHANGED <<filter, reply, streamed, chat>>
    BY <1>3, <1>10
  <2>2. ReplyTyped'
    BY <1>0, <1>1, <1>6, <1>7, <2>1 DEF models, ReplyTyped
  <2>3. ShownOfText' /\ ReplyIsShown' /\ ChatFits'
    BY <1>0, <1>1, <1>10, <2>1 DEF ShownOfText, ReplyIsShown, ChatFits, Streams
  <2> QED
    BY <1>8, <2>2, <2>3 DEF ReplyInv
<1>11. CASE Streams
  <2> DEFINE f == Push(filter, piece)
             l == chat.letters
  <2>1. FilterFits(filter, text, l) /\ reply = l /\ l \in AllTexts
    BY <1>0, <1>5, <1>9, <1>11 DEF ShownOfText, ReplyIsShown, Chats
  <2>2. f \in Filters /\ FilterFits([f EXCEPT !.out = <<>>], text \o piece, l \o f.out)
    BY <1>4, <1>5, <2>1, PushFits
  <2>3. /\ filter' = [f EXCEPT !.out = <<>>] /\ reply' = reply \o f.out
        /\ streamed' = (streamed \/ f.out # <<>>) /\ chat' = [chat EXCEPT !.letters = l \o f.out]
    BY <1>1, <1>3, <1>11 DEF Show
  <2> HIDE DEF f
  <2>4. f.out \in AllTexts /\ filter' \in Filters
    BY <2>2, <2>3, TrimNothing DEF Filters
  <2>5. /\ l \o f.out \in AllTexts /\ Len(l \o f.out) = Len(l) + Len(f.out)
        /\ (l \o f.out = <<>> <=> l = <<>> /\ f.out = <<>>)
    BY <2>1, <2>4, Concat, ConcatEqualIffEmpty DEF AllTexts
  <2>6. /\ chat' \in Chats /\ chat'.letters = l \o f.out /\ chat'.error = chat.error
        /\ chat'.final = chat.final /\ reply' = chat'.letters
    BY <1>5, <2>1, <2>3, <2>5 DEF Chats
  <2>7. Len(reply') <= Len(text')
    BY <1>3, <2>2, <2>6 DEF FilterFits
  <2>8. Len(reply') <= MaxLetters
    <3>1. Len(reply') \in Nat /\ Len(text') \in Nat
      BY <1>6, <2>5, <2>6, TextIs
    <3> QED
      BY <1>7, <2>7, <3>1, ModelReplyAssumption
  <2>9. ReplyTyped'
    BY <1>0, <1>1, <1>6, <1>7, <2>3, <2>4, <2>5, <2>6, <2>8, <1>5 DEF models, ReplyTyped
  <2>10. ShownOfText'
    BY <1>1, <1>3, <1>11, <2>2, <2>3, <2>6 DEF ShownOfText, Streams
  <2>11. ReplyIsShown' /\ ChatFits'
    BY <1>1, <1>9, <2>3, <2>5, <2>6 DEF ReplyIsShown, ChatFits
  <2> QED
    BY <1>8, <2>9, <2>10, <2>11 DEF ReplyInv
<1> QED
  BY <1>10, <1>11

LEMMA NodeKeeps ==
  ASSUME ReplyInv, Node
  PROVE  ReplyInv'
<1>0. ReplyTyped /\ ShownOfText /\ ReplyIsShown /\ ChatFits /\ TagFits
  BY DEF ReplyInv
<1>1. /\ phase = "returned" /\ phase' = "done"
      /\ UNCHANGED <<models, ask, aborted, timedOut, text, filter, told, reply, mishaps>>
  BY DEF Node
<1>2. /\ output = "none" /\ ~chat.error /\ chat.final = "none" /\ (streamed <=> chat.letters # <<>>)
      /\ chat \in Chats /\ streamed \in BOOLEAN /\ aborted \in BOOLEAN
  BY <1>0, <1>1 DEF ChatFits, ReplyTyped
<1>3. /\ chat' \in Chats /\ chat'.letters = chat.letters /\ chat'.final = chat.final /\ output' \in Outputs
      /\ streamed' \in BOOLEAN /\ NodeFits'
  <2>1. CASE told = "ok"
    <3>1. /\ output' = (IF TrimStart(reply) # <<>> THEN "answer" ELSE "fallback") /\ chat' = chat
          /\ streamed' = (streamed /\ TrimStart(reply) # <<>>)
      BY <2>1 DEF Node, Sent
    <3> QED
      BY <1>1, <1>2, <2>1, <3>1 DEF NodeFits, Outputs
  <2>2. CASE told # "ok"
    <3>1. /\ output' = "error" /\ streamed' = streamed
          /\ chat' = IF streamed /\ ~aborted THEN [chat EXCEPT !.error = TRUE] ELSE chat
      BY <2>2 DEF Node
    <3> QED
      BY <1>1, <1>2, <2>2, <3>1 DEF NodeFits, Outputs, Chats
  <2> QED
    BY <2>1, <2>2
<1>4. ReplyTyped'
  BY <1>0, <1>1, <1>3 DEF models, Phases, ReplyTyped
<1>5. ShownOfText'
  BY <1>0, <1>1, <1>3 DEF ShownOfText, FilterFits, Streams
<1>6. ReplyIsShown' /\ ChatFits' /\ TagFits'
  BY <1>0, <1>1, <1>2, <1>3 DEF ReplyIsShown, ChatFits, TagFits, InUse, Streams, models
<1> QED
  BY <1>4, <1>5, <1>6 DEF ReplyInv

LEMMA RouteKeeps ==
  ASSUME ReplyInv, Route
  PROVE  ReplyInv'
<1>0. ReplyTyped /\ ShownOfText /\ ReplyIsShown /\ ChatFits /\ TagFits
  BY DEF ReplyInv
<1>1. /\ phase = "done" /\ phase' = "ended"
      /\ chat' = IF aborted \/ (ask.stream /\ streamed) THEN chat ELSE [chat EXCEPT !.final = output]
      /\ UNCHANGED <<models, ask, aborted, timedOut, text, filter, told, reply, streamed, output, mishaps>>
  BY DEF Route
<1>2. NodeFits /\ chat.final = "none" /\ chat \in Chats /\ output \in Outputs
  BY <1>0, <1>1 DEF ChatFits, ReplyTyped
<1>3. /\ chat' \in Chats /\ chat'.letters = chat.letters /\ chat'.error = chat.error
      /\ ~aborted => chat'.final = IF ask.stream /\ streamed THEN "none" ELSE output
  BY <1>1, <1>2 DEF Chats
<1>4. ReplyTyped'
  BY <1>0, <1>1, <1>3 DEF models, Phases, ReplyTyped
<1>5. ShownOfText'
  BY <1>0, <1>1, <1>3 DEF ShownOfText, FilterFits, Streams
<1>6. ReplyIsShown' /\ ChatFits' /\ TagFits'
  BY <1>0, <1>1, <1>2, <1>3 DEF ReplyIsShown, ChatFits, NodeFits, TagFits, InUse, Streams, models
<1> QED
  BY <1>4, <1>5, <1>6 DEF ReplyInv

LEMMA ReplyStutter ==
  ASSUME ReplyInv, UNCHANGED replyVars
  PROVE  ReplyInv'
<1>1. ReplyTyped'
  BY DEF ReplyInv, replyVars, ReplyTyped
<1>2. (ShownOfText /\ ReplyIsShown /\ ChatFits /\ TagFits)'
  BY DEF ReplyInv, replyVars, ShownOfText, FilterFits, ReplyIsShown, ChatFits, NodeFits, TagFits, InUse, Streams
<1> QED
  BY <1>1, <1>2 DEF ReplyInv

\* What was shown, the filter and the text, and what the node and the route make of the call, fit
\* together in every state of a reply.
THEOREM ReplyInvariance == ReplySpec => []ReplyInv
<1>1. ReplyInit => ReplyInv
  BY ReplyInitInv
<1>2. ReplyInv /\ [ReplyNext]_replyVars => ReplyInv'
  <2> SUFFICES ASSUME ReplyInv, [ReplyNext]_replyVars PROVE ReplyInv'
    OBVIOUS
  <2>1. CASE ReplyNext
    BY <2>1, EarlyKeep, RecallFailsKeeps, FailsKeep, EndsKeeps, PieceKeeps, NodeKeeps, RouteKeeps DEF ReplyNext
  <2>2. CASE UNCHANGED replyVars
    BY <2>2, ReplyStutter
  <2> QED
    BY <2>1, <2>2
<1> QED
  BY <1>1, <1>2, PTL DEF ReplySpec

\* The user has been shown what would be shown of the text so far had it come whole: what the filter
\* has let out is, but for blanks, what stripThinking makes of the same text, for every text, every
\* way to cut it into pieces and every piece.
THEOREM StreamCorrect == ReplySpec => []StreamedAsWhole
<1>1. ReplyInv => StreamedAsWhole
  <2> SUFFICES ASSUME ReplyInv, Streams
               PROVE  IF MayBeTag(TrimStart(text)) THEN chat.letters = <<>>
                      ELSE TrimStart(chat.letters) = TrimStart(stripThinking(text))
    BY DEF StreamedAsWhole
  <2>1. FilterFits(filter, text, chat.letters) /\ filter \in Filters
    BY DEF ReplyInv, ReplyTyped, ShownOfText
  <2>2. CASE filter.state = "undecided"
    BY <2>1, <2>2 DEF FilterFits
  <2>3. CASE filter.state = "thinking"
    <3>1. stripThinking(text) = <<>> /\ chat.letters = <<>>
      BY <2>1, <2>3 DEF FilterFits, stripThinking
    <3> QED
      BY <3>1
  <2>4. CASE filter.state = "answer"
    BY <2>1, <2>4 DEF FilterFits
  <2> QED
    BY <2>1, <2>2, <2>3, <2>4 DEF Filters
<1> QED
  BY <1>1, ReplyInvariance, PTL

\* At its end the chat was given the answer once, in pieces or whole, or what stands in for an empty
\* one, or the error once: of streamedReply, the node's output and the route's last event no
\* combination sends a text twice or loses it.
THEOREM AnswerCorrect == ReplySpec => []AnsweredOnce
<1>1. ReplyInv => AnsweredOnce
  <2> SUFFICES ASSUME ReplyInv PROVE AnsweredOnce
    OBVIOUS
  <2>1. ReplyTypeOK
    BY TypesAreRight DEF ReplyInv
  <2>2. ASSUME phase = "ended", ~aborted
        PROVE  /\ told = "ok" /\ TrimStart(reply) # <<>> =>
                    \/ chat.letters = reply /\ chat.final = "none"
                    \/ chat.letters = <<>> /\ chat.final = "answer"
               /\ told = "ok" /\ TrimStart(reply) = <<>> =>
                    TrimStart(chat.letters) = <<>> /\ chat.final = "fallback"
               /\ told # "ok" => chat.error # (chat.final = "error")
               /\ told = "ok" => ~chat.error
    <3>1. /\ NodeFits /\ chat.final = (IF ask.stream /\ streamed THEN "none" ELSE output)
          /\ streamed \in BOOLEAN /\ chat \in Chats
      BY <2>2 DEF ReplyInv, ReplyTyped, ChatFits
    <3>2. chat.letters # <<>> => Streams /\ ask.stream
      BY DEF ReplyInv, ShownOfText, Streams
    <3>3. Streams /\ told = "ok" => reply = chat.letters
      BY DEF ReplyInv, ReplyIsShown
    <3>4. CASE told = "ok" /\ TrimStart(reply) # <<>>
      BY <3>1, <3>2, <3>3, <3>4 DEF NodeFits
    <3>5. CASE told = "ok" /\ TrimStart(reply) = <<>>
      BY <3>1, <3>2, <3>3, <3>5, TrimNothing DEF NodeFits
    <3>6. CASE told # "ok"
      <4>1. (chat.error <=> streamed) /\ output = "error" /\ (streamed => ask.stream) /\ chat.error \in BOOLEAN
        BY <2>2, <3>1, <3>2, <3>6 DEF NodeFits, Chats
      <4>2. chat.error <=> ~(chat.final = "error")
        BY <3>1, <4>1
      <4>3. chat.error # (chat.final = "error")
        BY <4>1, <4>2, Zenon
      <4> QED
        BY <3>6, <4>3
    <3> QED
      BY <3>4, <3>5, <3>6
  <2> QED
    BY <2>1, <2>2 DEF AnsweredOnce
<1> QED
  BY <1>1, ReplyInvariance, PTL

\* A model is said to be missing only if none that may be used is installed, or Ollama changed since
\* its last answer before the request's orchestrator: the choice of a tag never passes over one that
\* would do.
THEOREM MissingCorrect == ReplySpec => []MissingIsTrue
<1>1. ReplyInv => MissingIsTrue
  <2> SUFFICES ASSUME ReplyInv, told = "missing", applied = installed
               PROVE  installed \cap (IF ask.env THEN {Default} \cup Siblings ELSE Tags \ Embedding) = {}
    BY DEF MissingIsTrue
  <2>1. installed \in SUBSET Tags /\ model \in InUse(installed) /\ model \notin installed
    BY DEF ReplyInv, ReplyTyped, TagFits, Lists
  <2>2. CASE ask.env
    BY <2>1, <2>2 DEF InUse, matchInstalledTag
  <2>3. CASE ~ask.env
    BY <2>1, <2>3 DEF InUse, pickInstalledModel
  <2> QED
    BY <2>2, <2>3
<1> QED
  BY <1>1, ReplyInvariance, PTL
=============================================================================
