----------------------------- MODULE MemoryIndex -----------------------------
(***************************************************************************)
(* A memory is a row in SQLite and, if Qdrant and an embedding model can   *)
(* be reached, a vector in Qdrant. Nothing ties the two together but the   *)
(* order of the calls: requests change the vector first and the row last,  *)
(* and a backfill adds the vectors that are missing when Qdrant comes back.*)
(*                                                                         *)
(* Node runs one callback at a time. A request suspends at each call to    *)
(* Qdrant or to the model; what follows the last answer, up to the         *)
(* statement on the row, is one step with it where nothing is awaited.     *)
(***************************************************************************)
EXTENDS Naturals, FiniteSets

CONSTANTS
  Memories,    \* ids a memory can get
  Texts,       \* what a memory can say
  Models,      \* embedding models that may answer
  Clients,     \* requests in progress at once
  BatchSize,   \* rows the backfill asks Qdrant about at once (100)
  MaxChanges,  \* bound of the model: memories stored, updated and deleted
  MaxFaults,   \* bound of the model: crashes, lost answers, services that come and go
  Null

ASSUME IndexAssumption ==
  /\ Null \notin Memories \cup Texts \cup Models
  /\ BatchSize \in Nat \ {0} /\ MaxChanges \in Nat /\ MaxFaults \in Nat

VARIABLES
  rows,        \* Memories -> the text in SQLite, Null while there is no row
  points,      \* Memories -> the vector in Qdrant
  collection,  \* models whose vectors have the collection's size; {} while there is none
  up,          \* whether Qdrant answers
  embedder,    \* the model embedWithModel gets a vector from, Null: from none
  available,   \* qdrantAvailable: what the last check found
  fresh,       \* the last check is less than SERVICE_RECHECK_MS old
  backfill,    \* backfillRunning and where its loop is
  calls,       \* Clients -> the request in progress
  changes,     \* how many requests changed something
  faults,      \* how often something outside happened
  excused      \* memories the code gives up on keeping right; kept for the properties

store == <<rows, points, collection>>
env == <<up, embedder>>
check == <<available, fresh>>
vars == <<rows, points, collection, up, embedder, available, fresh, backfill, calls, changes,
          faults, excused>>

-----------------------------------------------------------------------------

\* A vector stands for the text it was made from.
Point == [text : Texts \cup {Null}, model : Models \cup {Null}]
NoPoint == [text |-> Null, model |-> Null]

\* was: what qdrantAvailable said before this request's check. model: whose embedding it has.
Call == [op : {"none", "query", "store", "update", "delete"},
         phase : {"none", "checking", "embedding", "writing", "removing", "saving"},
         memory : Memories \cup {Null},
         text : Texts \cup {Null},
         was : BOOLEAN,
         model : Models \cup {Null}]

NoCall == [op |-> "none", phase |-> "none", memory |-> Null, text |-> Null, was |-> FALSE,
           model |-> Null]

\* A row as the backfill read it, with the tag of its vector once Qdrant was asked.
Entry == [memory : Memories, text : Texts, tag : Models \cup {Null}]

\* rest: rows still to ask about. batch: rows asked about. current: the row being written.
Backfill == [running : BOOLEAN, rest : SUBSET Entry, batch : SUBSET Entry,
             current : SUBSET Entry, model : Models \cup {Null}]

NoBackfill == [running |-> FALSE, rest |-> {}, batch |-> {}, current |-> {}, model |-> Null]

Changing(m) == {c \in Clients : calls[c].memory = m}

Backfilling(m) ==
  m \in {e.memory : e \in backfill.rest \cup backfill.batch \cup backfill.current}

\* Vectors of another size are not sent to Qdrant.
Fits(model) == model # Null /\ model \in collection

\* A server that starts on tables and a collection of earlier sessions.
Init ==
  /\ rows \in [Memories -> Texts \cup {Null}]
  /\ collection \in SUBSET Models
  /\ points \in {P \in [Memories -> Point] : \A m \in Memories :
                   P[m] # NoPoint => /\ rows[m] # Null /\ P[m].text = rows[m]
                                     /\ P[m].model \in collection}
  /\ up \in BOOLEAN
  /\ embedder \in Models \cup {Null}
  /\ available = FALSE
  /\ fresh = FALSE
  /\ backfill = NoBackfill
  /\ calls = [c \in Clients |-> NoCall]
  /\ changes = 0
  /\ faults = 0
  /\ excused = {}

-----------------------------------------------------------------------------
(* The end of a request, and its way there. *)

\* The statement on the row; an UPDATE or DELETE may find it gone.
Save(c, x) ==
  /\ rows' = CASE x.op = "store"  -> [rows EXCEPT ![x.memory] = x.text]
               [] x.op = "update" -> [rows EXCEPT ![x.memory] = IF @ = Null THEN @ ELSE x.text]
               [] x.op = "delete" -> [rows EXCEPT ![x.memory] = Null]
               [] OTHER           -> rows
  /\ calls' = [calls EXCEPT ![c] = NoCall]

\* Request x goes on to its next call.
Await(c, x, phase) ==
  /\ calls' = [calls EXCEPT ![c] = [x EXCEPT !.phase = phase]]
  /\ UNCHANGED rows

\* After initQdrant. Without Qdrant only the row is changed, and the vector stays as it is.
Proceed(c, x, reachable) ==
  CASE reachable /\ x.op \in {"store", "update"} -> Await(c, x, "embedding")
    [] reachable /\ x.op = "delete"              -> Await(c, x, "removing")
    [] OTHER                                     -> Save(c, x)

\* A change of m may leave the old vector: it leaves Qdrant alone, or overlaps with another one.
Unwatched(m, reachable) ==
  (~reachable /\ points[m] # NoPoint) \/ Changing(m) # {} \/ Backfilling(m)

\* Request x begins with initQdrant, which answers from the cache or asks.
Begin(c, x) ==
  /\ calls[c] = NoCall
  /\ fresh' = TRUE
  /\ IF fresh THEN Proceed(c, x, available)
     ELSE Await(c, [x EXCEPT !.was = available], "checking")
  /\ UNCHANGED <<points, collection, env, available, backfill, faults>>

Change(c, x) ==
  /\ changes < MaxChanges
  /\ changes' = changes + 1
  /\ Begin(c, x)

\* A search, or a page that shows the state of the services. Its own reading changes nothing.
Query(c) ==
  /\ ~fresh
  /\ Begin(c, [NoCall EXCEPT !.op = "query"])
  /\ UNCHANGED <<changes, excused>>

\* The id is new. An id nobody knows stands for all of them.
StoreMemory(c, m, t) ==
  /\ rows[m] = Null /\ points[m] = NoPoint /\ Changing(m) = {} /\ ~Backfilling(m)
  /\ Change(c, [NoCall EXCEPT !.op = "store", !.memory = m, !.text = t])
  /\ excused' = excused \ {m}

\* An undisturbed change makes up for whatever went wrong before.
Touch(m) ==
  excused' = IF Unwatched(m, ~fresh \/ available) THEN excused \cup {m} ELSE excused \ {m}

UpdateMemory(c, m, t) ==
  /\ rows[m] # Null
  /\ Change(c, [NoCall EXCEPT !.op = "update", !.memory = m, !.text = t])
  /\ Touch(m)

DeleteMemory(c, m) ==
  /\ rows[m] # Null
  /\ Change(c, [NoCall EXCEPT !.op = "delete", !.memory = m])
  /\ Touch(m)

\* All rows are read at once; a backfill that is running is joined.
StartBackfill ==
  IF backfill.running THEN UNCHANGED backfill
  ELSE LET R == {m \in Memories : rows[m] # Null}
       IN  backfill' = [NoBackfill EXCEPT !.running = R # {},
                          !.rest = {[memory |-> m, text |-> rows[m], tag |-> Null] : m \in R}]

\* The answer of a check, whose requests are one step. A collection that does not exist is
\* made for the model that answers; models with vectors of the same size fit it too.
CheckReturns(c) ==
  LET x == calls[c]
  IN  /\ x.phase = "checking"
      /\ available' = up
      /\ IF up /\ collection = {} /\ embedder # Null
         THEN \E S \in SUBSET Models : embedder \in S /\ collection' = S
         ELSE UNCHANGED collection
      /\ IF up /\ ~x.was THEN StartBackfill ELSE UNCHANGED backfill
      /\ Proceed(c, x, up)
      /\ excused' = excused
           \cup {m \in {x.memory} \ {Null} : ~up /\ x.op # "store" /\ points[m] # NoPoint}
           \cup {m \in Memories : ~Backfilling(m) /\ Backfilling(m)' /\ Changing(m) # {}}
      /\ UNCHANGED <<points, env, fresh, changes, faults>>

-----------------------------------------------------------------------------
(* A request at Qdrant and at the model. *)

\* Bug: an edit that can't be embedded leaves the vector alone.
NotStoredKeepsVector(c, x) == Await(c, x, "saving")

\* An edit without a new vector removes the old one; a new memory goes on without one.
NotStored(c, x) == Await(c, x, IF x.op = "update" THEN "removing" ELSE "saving")

EmbedReturns(c) ==
  LET x == calls[c]
  IN  /\ x.phase = "embedding"
      /\ IF Fits(embedder) THEN Await(c, [x EXCEPT !.model = embedder], "writing")
         ELSE IF x.op = "store" THEN Save(c, x)
         ELSE NotStored(c, x)
      /\ UNCHANGED <<points, collection, env, check, backfill, changes, faults, excused>>

\* Qdrant has the vector, and the answer is on its way.
Upsert(c) ==
  LET x == calls[c]
  IN  /\ x.phase = "writing"
      /\ up
      /\ points' = [points EXCEPT ![x.memory] = [text |-> x.text, model |-> x.model]]
      /\ Await(c, x, "saving")
      /\ UNCHANGED <<collection, env, check, backfill, changes, faults, excused>>

UpsertFails(c) ==
  /\ calls[c].phase = "writing"
  /\ ~up
  /\ NotStored(c, calls[c])
  /\ UNCHANGED <<points, collection, env, check, backfill, changes, faults, excused>>

\* Qdrant has the vector, and the answer is lost or comes after the timeout.
UpsertAnswerLost(c) ==
  LET x == calls[c]
  IN  /\ x.phase = "writing"
      /\ up
      /\ faults < MaxFaults /\ faults' = faults + 1
      /\ points' = [points EXCEPT ![x.memory] = [text |-> x.text, model |-> x.model]]
      /\ NotStored(c, x)
      /\ UNCHANGED <<collection, env, check, backfill, changes, excused>>

\* A removal that fails is only logged.
RemovePoint(c) ==
  LET m == calls[c].memory
  IN  /\ calls[c].phase = "removing"
      /\ IF up THEN points' = [points EXCEPT ![m] = NoPoint] /\ UNCHANGED excused
         ELSE UNCHANGED points /\ excused' = excused \cup {m}
      /\ Await(c, calls[c], "saving")
      /\ UNCHANGED <<collection, env, check, backfill, changes, faults>>

SaveRow(c) ==
  /\ calls[c].phase = "saving"
  /\ Save(c, calls[c])
  /\ UNCHANGED <<points, collection, env, check, backfill, changes, faults, excused>>

-----------------------------------------------------------------------------
(* The backfill. *)

\* What is left after the current row. At the end the promise is forgotten.
GoOn(rest, batch) ==
  backfill' = IF rest = {} /\ batch = {} THEN NoBackfill
              ELSE [NoBackfill EXCEPT !.running = TRUE, !.rest = rest, !.batch = batch]

\* Qdrant tells the tags of a batch's vectors; without an answer the backfill is over.
BackfillRetrieve ==
  /\ backfill.rest # {} /\ backfill.batch = {} /\ backfill.current = {}
  /\ IF up /\ collection # {}
     THEN \E B \in SUBSET backfill.rest :
            /\ B # {} /\ Cardinality(B) <= BatchSize
            /\ B = backfill.rest \/ Cardinality(B) = BatchSize
            /\ GoOn(backfill.rest \ B, {[e EXCEPT !.tag = points[e.memory].model] : e \in B})
     ELSE backfill' = NoBackfill
  /\ UNCHANGED <<store, env, check, calls, changes, faults, excused>>

\* Bug: a vector that is missing counts as current, too.
IsCurrentIfMissing(e, model) == e.tag \in {model, Null}

IsCurrent(e, model) == e.tag = model

\* One row of the batch is embedded, from the text that was read. No model: the backfill is over.
BackfillEmbed ==
  /\ backfill.current = {}
  /\ \E e \in backfill.batch :
       IF embedder = Null THEN backfill' = NoBackfill
       ELSE IF IsCurrent(e, embedder) \/ ~Fits(embedder)
       THEN GoOn(backfill.rest, backfill.batch \ {e})
       ELSE backfill' = [backfill EXCEPT !.batch = @ \ {e}, !.current = {e}, !.model = embedder]
  /\ UNCHANGED <<store, env, check, calls, changes, faults, excused>>

\* A write that fails is passed over.
BackfillWrite ==
  /\ \E e \in backfill.current :
       points' =
         IF up
         THEN [points EXCEPT ![e.memory] = [text |-> e.text, model |-> backfill.model]]
         ELSE points
  /\ GoOn(backfill.rest, backfill.batch)
  /\ UNCHANGED <<rows, collection, env, check, calls, changes, faults, excused>>

-----------------------------------------------------------------------------
(* Time, the services and the server. *)

Expire ==
  /\ fresh /\ fresh' = FALSE
  /\ UNCHANGED <<store, env, available, backfill, calls, changes, faults, excused>>

Fault == faults < MaxFaults /\ faults' = faults + 1

\* Qdrant, or a model, is started or stopped.
ServicesChange ==
  /\ Fault
  /\ \/ up' = ~up /\ UNCHANGED embedder
     \/ embedder' \in (Models \cup {Null}) \ {embedder} /\ UNCHANGED up
  /\ UNCHANGED <<store, check, backfill, calls, changes, excused>>

\* Requests that were changing a memory may have changed only its vector.
Crash ==
  /\ Fault
  /\ available' = FALSE
  /\ fresh' = FALSE
  /\ backfill' = NoBackfill
  /\ calls' = [c \in Clients |-> NoCall]
  /\ excused' = excused \cup {m \in Memories : Changing(m) # {}}
  /\ UNCHANGED <<store, env, changes>>

-----------------------------------------------------------------------------

Step(c) ==
  CheckReturns(c) \/ EmbedReturns(c) \/ Upsert(c) \/ UpsertFails(c) \/ RemovePoint(c) \/ SaveRow(c)

BackfillStep == BackfillRetrieve \/ BackfillEmbed \/ BackfillWrite

Next ==
  \/ \E c \in Clients : Query(c) \/ Step(c) \/ UpsertAnswerLost(c)
  \/ \E c \in Clients, m \in Memories :
       \/ \E t \in Texts : StoreMemory(c, m, t) \/ UpdateMemory(c, m, t)
       \/ DeleteMemory(c, m)
  \/ BackfillStep
  \/ Expire \/ ServicesChange \/ Crash

Spec == Init /\ [][Next]_vars

\* Every call is answered or times out, and the app is used: somebody looks now and then.
FairSpec ==
  /\ Spec
  /\ WF_vars(BackfillStep) /\ WF_vars(Expire)
  /\ \A c \in Clients : WF_vars(Step(c)) /\ WF_vars(Query(c))

-----------------------------------------------------------------------------
(* Properties. *)

TypeOK ==
  /\ rows \in [Memories -> Texts \cup {Null}]
  /\ points \in [Memories -> Point]
  /\ collection \subseteq Models
  /\ up \in BOOLEAN /\ available \in BOOLEAN /\ fresh \in BOOLEAN
  /\ embedder \in Models \cup {Null}
  /\ backfill \in Backfill
  /\ backfill.running <=> backfill.rest \cup backfill.batch \cup backfill.current # {}
  /\ calls \in [Clients -> Call]
  /\ changes \in 0 .. MaxChanges
  /\ faults \in 0 .. MaxFaults
  /\ excused \subseteq Memories

\* Whenever nobody works on a memory, its vector, if there is one, was made from the text in
\* its row. The exceptions are all here: a change that overlapped with another one or with the
\* backfill, a change while Qdrant was taken to be unreachable, a removal that failed, a crash.
\* The memory's next undisturbed change ends them. Every variable keeps its type.
IndexFollows ==
  /\ TypeOK
  /\ \A m \in Memories \ excused :
       Changing(m) = {} /\ ~Backfilling(m) /\ points[m] # NoPoint => points[m].text = rows[m]

Served == up /\ Fits(embedder)

Indexed == \A m \in Memories \ excused : rows[m] # Null => points[m].model = embedder

\* Qdrant found away while no request is in progress, then there to stay, with a model at hand
\* and no answer lost: every memory gets a vector of that model, those stored in the outage and
\* those of another model, too. A backfill at work then is joined, not started over; a request in
\* progress then may save its row after the new backfill has read the rows, or end a check that
\* began before the outage was noticed and so finds Qdrant available without starting a backfill.
BackfillCatchesUp ==
  \A n \in 0 .. MaxFaults :
    [](/\ ~available /\ ~backfill.running
       /\ \A c \in Clients : calls[c] = NoCall
       /\ [](Served /\ faults = n)
       => <>[]Indexed)

=============================================================================
