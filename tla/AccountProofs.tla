--------------------------- MODULE AccountProofs ---------------------------
(* Proofs about Settings and about Access, which have no name in common: each has its own state, and *)
(* what is proved of one says nothing of the other.                                                 *)
EXTENDS Settings, Access, FiniteSetTheorems, TLAPS

-----------------------------------------------------------------------------
(* The inductive invariant. *)

Typed ==
  /\ env \in Envs
  /\ data \in SettingsFile /\ file \in SettingsFile
  /\ apiKeys \in [CloudProviders -> Keys \cup {EnvKey, Null}]
  /\ requests \subseteq Request
  /\ panel \in Payload \cup {Null}
  /\ open \in BOOLEAN /\ behind \in BOOLEAN
  /\ torn \in [CloudProviders -> {"no", "now", "before"}]
  /\ faults \in 0 .. MaxFaults

\* The client uses the keys of the settings, and the model chosen in memory and the one in the file
\* each have a key there: a restart makes the file's the one in use.
KeysFit ==
  \A p \in CloudProviders :
    /\ torn[p] # "now" => apiKeys[p] = KeyOf(data, p)
    /\ torn[p] = "no" /\ data.model = p => KeyOf(data, p) # Null
    /\ torn[p] = "no" /\ file.model = p => KeyOf(file, p) # Null

\* A request says what it has to, only the one of the panel on screen gets an answer, and an answer
\* that covers all changes says what the server holds.
RequestFits(r) ==
  /\ r.kind \in {"save", "remove"} => r.provider \in CloudProviders
  /\ r.kind = "save" => r.key \in Keys
  /\ r.kind = "auto" => r.model = Null
  /\ r.stage # "sent" => r.mine
  /\ r.kind = "test" => r.mine
  /\ r.mine => open
  /\ r.answer # Null => r.stage = "done"
  /\ r.answer # Null /\ r.covers => r.answer = settingsPayload(data)

RequestsFit == \A r \in requests : RequestFits(r)

\* The panel has one request under way.
OneMine == \A q, r \in Mine : q = r

Panel == RequestsFit /\ OneMine /\ PanelShowsServer

IInv == Typed /\ KeysFit /\ Panel

-----------------------------------------------------------------------------
(* What the operators give. *)

\* A fault is counted.
LEMMA FaultType ==
  ASSUME Typed, Fault
  PROVE  faults' \in 0 .. MaxFaults
BY SettingsAssumption DEF Typed, Fault

\* A key, if there is one, is a saved key or the one of .env.
LEMMA KeyOfType ==
  ASSUME NEW d \in SettingsFile, NEW p \in CloudProviders
  PROVE  KeyOf(d, p) \in Keys \cup {EnvKey, Null}
BY DEF KeyOf, envApiKey, SettingsFile

\* What the panel is told has its form.
LEMMA PayloadType ==
  ASSUME NEW d \in SettingsFile
  PROVE  settingsPayload(d) \in Payload
<1> DEFINE source == IF d.model # Null THEN "saved" ELSE IF env.model THEN "env" ELSE "auto"
           keys == [p \in CloudProviders |-> IF d.keys[p] # Null THEN "saved"
                                             ELSE IF p \in env.keys THEN "env" ELSE "none"]
<1>1. source \in {"saved", "env", "auto"}
  OBVIOUS
<1>2. keys \in [CloudProviders -> {"saved", "env", "none"}]
  OBVIOUS
<1>3. d.model \in Choices \cup {Null}
  BY DEF SettingsFile
<1>4. settingsPayload(d) = [source |-> source, model |-> d.model, keys |-> keys]
  BY DEF settingsPayload
<1> HIDE DEF source, keys
<1> QED
  BY <1>1, <1>2, <1>3, <1>4 DEF Payload

\* .env does not change, nor what it gives.
LEMMA SameEnv ==
  ASSUME env' = env, NEW d, NEW p
  PROVE  KeyOf(d, p)' = KeyOf(d, p) /\ settingsPayload(d)' = settingsPayload(d)
BY DEF KeyOf, envApiKey, settingsPayload

\* What a change makes of a request whose answer is under way.
LEMMA CoversEffect ==
  ASSUME NEW q \in Request, NEW b \in BOOLEAN
  PROVE  LET x == [q EXCEPT !.covers = @ /\ b]
         IN  /\ x \in Request /\ x.id = q.id /\ x.kind = q.kind /\ x.provider = q.provider
             /\ x.key = q.key /\ x.model = q.model /\ x.mine = q.mine /\ x.stage = q.stage
             /\ x.answer = q.answer /\ (x.covers => q.covers /\ b)
<1>1. CASE b = TRUE
  <2>1. [q EXCEPT !.covers = @ /\ b] = q
    BY <1>1 DEF Request
  <2> QED
    BY <1>1, <2>1
<1>2. CASE b = FALSE
  <2>1. [q EXCEPT !.covers = @ /\ b] = [q EXCEPT !.covers = FALSE]
    BY <1>2
  <2> QED
    BY <2>1 DEF Request
<1> QED
  BY <1>1, <1>2

-----------------------------------------------------------------------------
(* Requests and their answers. *)

\* x is request q after a change to d, or the same as before it.
Waits(x, q, d) ==
  /\ x = [q EXCEPT !.covers = @ /\ d = data]
  /\ x.kind = q.kind /\ x.provider = q.provider /\ x.key = q.key
  /\ x.model = q.model /\ x.mine = q.mine /\ x.stage = q.stage /\ x.answer = q.answer
  /\ x.covers => q.covers /\ d = data

\* x is the answer to request r.
AnswerTo(x, r, stage, d) ==
  /\ x = [r EXCEPT !.stage = stage, !.covers = TRUE,
                   !.answer = IF stage = "done" THEN settingsPayload(d) ELSE Null]
  /\ r.mine
  /\ x.kind = r.kind /\ x.provider = r.provider /\ x.key = r.key /\ x.model = r.model
  /\ x.mine /\ x.stage = stage /\ x.answer = IF stage = "done" THEN settingsPayload(d) ELSE Null

\* Who is answered, and what becomes of the others.
LEMMA ReplyEffect ==
  ASSUME Typed, NEW r \in requests, NEW stage \in {"done", "failed"}, NEW d \in SettingsFile,
         Reply(r, stage, d)
  PROVE  \A x \in requests' :
           /\ x \in Request
           /\ (\E q \in requests \ {r} : Waits(x, q, d)) \/ AnswerTo(x, r, stage, d)
<1> TAKE x \in requests'
<1>1. CASE \E q \in requests \ {r} : x = [q EXCEPT !.covers = @ /\ d = data]
  <2>1. PICK q \in requests \ {r} : x = [q EXCEPT !.covers = @ /\ d = data]
    BY <1>1
  <2>2. PICK b \in BOOLEAN : b = (d = data)
    OBVIOUS
  <2>3. q \in Request /\ x = [q EXCEPT !.covers = @ /\ b]
    BY <2>1, <2>2 DEF Typed
  <2>4. /\ x \in Request /\ x.kind = q.kind /\ x.provider = q.provider /\ x.key = q.key
        /\ x.model = q.model /\ x.mine = q.mine /\ x.stage = q.stage /\ x.answer = q.answer
        /\ (x.covers => q.covers /\ b)
    BY <2>3, CoversEffect
  <2> QED
    BY <2>1, <2>2, <2>4 DEF Waits
<1>2. CASE r \in Mine /\ x = [r EXCEPT !.stage = stage, !.covers = TRUE,
                                       !.answer = IF stage = "done" THEN settingsPayload(d) ELSE Null]
  <2>1. PICK answer \in Payload \cup {Null} : answer = IF stage = "done" THEN settingsPayload(d) ELSE Null
    BY PayloadType
  <2>2. r \in Request /\ r.mine
    BY <1>2 DEF Typed, Mine
  <2>3. x = [r EXCEPT !.stage = stage, !.covers = TRUE, !.answer = answer]
    BY <1>2, <2>1
  <2>4. /\ x \in Request /\ x.kind = r.kind /\ x.provider = r.provider /\ x.key = r.key
        /\ x.model = r.model /\ x.mine
        /\ x.stage = stage /\ x.answer = answer
    BY <2>2, <2>3 DEF Request
  <2> QED
    BY <1>2, <2>1, <2>2, <2>4 DEF AnswerTo
<1>3. x \in {[q EXCEPT !.covers = @ /\ d = data] : q \in requests \ {r}} \cup
       {[q EXCEPT !.stage = stage, !.covers = TRUE,
                  !.answer = IF stage = "done" THEN settingsPayload(d) ELSE Null] : q \in {r} \cap Mine}
  BY DEF Reply
<1> QED
  BY <1>1, <1>2, <1>3

\* A handler's answer says what the server holds then, and answers under way cover no change.
LEMMA ReplyKeeps ==
  ASSUME IInv, NEW r \in requests, NEW stage \in {"done", "failed"}, NEW d \in SettingsFile,
         Reply(r, stage, d), data' = d, UNCHANGED <<env, panel, open>>
  PROVE  requests' \subseteq Request /\ Panel' /\ behind' \in BOOLEAN
<1>1. \A x \in requests' :
        /\ x \in Request
        /\ (\E q \in requests \ {r} : Waits(x, q, d)) \/ AnswerTo(x, r, stage, d)
  BY ReplyEffect DEF IInv
<1>2. \A q \in requests : RequestFits(q)
  BY DEF IInv, Panel, RequestsFit
<1>3. settingsPayload(data)' = settingsPayload(d)
  BY DEF settingsPayload
<1>4. ASSUME NEW x \in requests'
      PROVE  RequestFits(x)'
  <2>1. CASE \E q \in requests \ {r} : Waits(x, q, d)
    BY <1>2, <1>3, <2>1 DEF RequestFits, Waits
  <2>2. CASE AnswerTo(x, r, stage, d)
    BY <1>2, <1>3, <2>2 DEF RequestFits, AnswerTo
  <2> QED
    BY <1>1, <2>1, <2>2
<1>5. OneMine'
  <2>1. \A q \in Mine : r.mine => q = r
    BY DEF IInv, Panel, OneMine, Mine
  <2>2. ASSUME NEW x \in requests', x.mine, NEW y \in requests', y.mine
        PROVE  x = y
    <3>1. CASE r.mine
      BY <1>1, <2>1, <2>2, <3>1 DEF Mine, Waits, AnswerTo
    <3>2. CASE ~r.mine
      <4>1. PICK q \in Mine : x = [q EXCEPT !.covers = @ /\ d = data]
        BY <1>1, <2>2, <3>2 DEF Mine, Waits, AnswerTo
      <4>2. PICK s \in Mine : y = [s EXCEPT !.covers = @ /\ d = data]
        BY <1>1, <2>2, <3>2 DEF Mine, Waits, AnswerTo
      <4>3. q = s
        BY DEF IInv, Panel, OneMine
      <4> QED
        BY <4>1, <4>2, <4>3
    <3> QED
      BY <3>1, <3>2
  <2> QED
    BY <2>2 DEF OneMine, Mine
<1>6. behind' = (behind \/ (open /\ d # data)) /\ behind \in BOOLEAN /\ open \in BOOLEAN
  BY DEF Reply, IInv, Typed
<1>7. PanelShowsServer'
  BY <1>3, <1>6 DEF IInv, Panel, PanelShowsServer
<1> QED
  BY <1>1, <1>4, <1>5, <1>6, <1>7 DEF Panel, RequestsFit

-----------------------------------------------------------------------------
(* Keys and the chosen model. *)

\* One key is set or removed.
LEMMA KeyChange ==
  ASSUME NEW before \in SettingsFile, NEW p \in CloudProviders, NEW k \in Keys \cup {Null}
  PROVE  LET d == [before EXCEPT !.keys[p] = k]
         IN  /\ d \in SettingsFile /\ d.model = before.model
             /\ KeyOf(d, p) = IF k # Null THEN k ELSE envApiKey(p)
             /\ \A q \in CloudProviders \ {p} : KeyOf(d, q) = KeyOf(before, q)
BY DEF SettingsFile, KeyOf

\* Another model is chosen, or none.
LEMMA ModelChange ==
  ASSUME NEW before \in SettingsFile, NEW c \in Choices \cup {Null}
  PROVE  LET d == [before EXCEPT !.model = c]
         IN  /\ d \in SettingsFile /\ d.model = c
             /\ \A q \in CloudProviders : KeyOf(d, q) = KeyOf(before, q)
BY DEF SettingsFile, KeyOf

\* A model that has lost its key is given up.
LEMMA AutomaticEffect ==
  ASSUME NEW d \in SettingsFile, NEW p \in CloudProviders, KeyOf(d, p) = envApiKey(p)
  PROVE  /\ Automatic(d, p) \in SettingsFile
         /\ Automatic(d, p).model \in {d.model, Null}
         /\ Automatic(d, p).model = p => KeyOf(Automatic(d, p), p) # Null
         /\ \A q \in CloudProviders : KeyOf(Automatic(d, p), q) = KeyOf(d, q)
<1>1. CASE d.model = p /\ envApiKey(p) = Null
  <2>1. Automatic(d, p) = [d EXCEPT !.model = Null]
    BY <1>1 DEF Automatic
  <2>2. p # Null
    BY SettingsAssumption DEF Choices
  <2> QED
    BY <2>1, <2>2, ModelChange
<1>2. CASE ~(d.model = p /\ envApiKey(p) = Null)
  <2>1. Automatic(d, p) = d
    BY <1>2 DEF Automatic
  <2> QED
    BY <1>2, <2>1
<1> QED
  BY <1>1, <1>2

\* The keys of a state with settings d in memory and f in the file.
LEMMA KeysFitNext ==
  ASSUME env' = env, NEW d, NEW f, data' = d, file' = f,
         \A p \in CloudProviders :
           /\ torn'[p] # "now" => apiKeys'[p] = KeyOf(d, p)
           /\ torn'[p] = "no" /\ d.model = p => KeyOf(d, p) # Null
           /\ torn'[p] = "no" /\ f.model = p => KeyOf(f, p) # Null
  PROVE  KeysFit'
BY DEF KeysFit, KeyOf, envApiKey

\* The whole invariant after a handler's change.
LEMMA HandledKeeps ==
  ASSUME IInv, NEW r \in requests, NEW stage \in {"done", "failed"},
         NEW d \in SettingsFile, NEW f \in SettingsFile,
         Reply(r, stage, d), data' = d, file' = f, UNCHANGED <<env, panel, open>>,
         apiKeys' \in [CloudProviders -> Keys \cup {EnvKey, Null}],
         torn' \in [CloudProviders -> {"no", "now", "before"}], faults' \in 0 .. MaxFaults,
         \A p \in CloudProviders :
           /\ torn'[p] # "now" => apiKeys'[p] = KeyOf(d, p)
           /\ torn'[p] = "no" /\ d.model = p => KeyOf(d, p) # Null
           /\ torn'[p] = "no" /\ f.model = p => KeyOf(f, p) # Null
  PROVE  IInv'
<1>1. KeysFit'
  BY KeysFitNext
<1>2. requests' \subseteq Request /\ Panel' /\ behind' \in BOOLEAN
  BY ReplyKeeps
<1>3. Typed'
  BY <1>2 DEF IInv, Typed
<1> QED
  BY <1>1, <1>2, <1>3 DEF IInv

\* A key is saved, in memory at least.
LEMMA SetApiKeyKeeps ==
  ASSUME IInv, NEW r \in requests, setApiKey(r)
  PROVE  IInv'
<1>1. r.kind = "save" /\ r.provider \in CloudProviders /\ r.key \in Keys /\ r.key # Null
  BY SettingsAssumption DEF setApiKey, IInv, Panel, RequestsFit, RequestFits
<1>2. PICK p \in CloudProviders, k \in Keys : p = r.provider /\ k = r.key
  BY <1>1
<1> DEFINE d == [data EXCEPT !.keys[p] = k]
<1>3. Typed /\ data \in SettingsFile /\ file \in SettingsFile /\ faults \in 0 .. MaxFaults
      /\ torn \in [CloudProviders -> {"no", "now", "before"}]
      /\ apiKeys \in [CloudProviders -> Keys \cup {EnvKey, Null}]
  BY DEF IInv, Typed
<1>4. d \in SettingsFile /\ d.model = data.model /\ KeyOf(d, p) = k
      /\ \A q \in CloudProviders \ {p} : KeyOf(d, q) = KeyOf(data, q)
  <2>1. k \in Keys \cup {Null} /\ k # Null
    BY <1>1, <1>2
  <2>2. /\ d \in SettingsFile /\ d.model = data.model
        /\ KeyOf(d, p) = IF k # Null THEN k ELSE envApiKey(p)
        /\ \A q \in CloudProviders \ {p} : KeyOf(d, q) = KeyOf(data, q)
    BY <1>3, <2>1, KeyChange
  <2> QED
    BY <2>1, <2>2
<1>5. \/ /\ data' = d /\ file' = d /\ Reply(r, "done", d) /\ UNCHANGED faults
         /\ apiKeys' = [apiKeys EXCEPT ![p] = k] /\ torn' = [torn EXCEPT ![p] = "no"]
      \/ /\ data' = d /\ file' \in {file, d} /\ Reply(r, "failed", d) /\ Fault
         /\ UNCHANGED apiKeys /\ torn' = [torn EXCEPT ![p] = "now"]
  BY <1>2 DEF setApiKey, Saved, NotSaved
<1>6. UNCHANGED <<env, panel, open>>
  BY DEF setApiKey
<1> HIDE DEF d
<1>7. CASE /\ data' = d /\ file' = d /\ Reply(r, "done", d) /\ UNCHANGED faults
           /\ apiKeys' = [apiKeys EXCEPT ![p] = k] /\ torn' = [torn EXCEPT ![p] = "no"]
  <2>1. \A q \in CloudProviders : /\ torn'[q] # "now" => apiKeys'[q] = KeyOf(d, q)
                                  /\ torn'[q] = "no" /\ d.model = q => KeyOf(d, q) # Null
    BY <1>1, <1>2, <1>3, <1>4, <1>7 DEF IInv, KeysFit
  <2>2. apiKeys' \in [CloudProviders -> Keys \cup {EnvKey, Null}]
        /\ torn' \in [CloudProviders -> {"no", "now", "before"}]
    BY <1>3, <1>7
  <2> QED
    BY <1>3, <1>4, <1>6, <1>7, <2>1, <2>2, HandledKeeps
<1>8. CASE /\ data' = d /\ file' \in {file, d} /\ Reply(r, "failed", d) /\ Fault
           /\ UNCHANGED apiKeys /\ torn' = [torn EXCEPT ![p] = "now"]
  <2>1. PICK f \in SettingsFile : f = file' /\ f \in {file, d}
    BY <1>3, <1>4, <1>8
  <2>2. torn'[p] = "now" /\ (\A q \in CloudProviders \ {p} : torn'[q] = torn[q])
        /\ torn' \in [CloudProviders -> {"no", "now", "before"}]
    BY <1>3, <1>8
  <2>3. ASSUME NEW q \in CloudProviders
        PROVE  /\ torn'[q] # "now" => apiKeys'[q] = KeyOf(d, q)
               /\ torn'[q] = "no" /\ d.model = q => KeyOf(d, q) # Null
               /\ torn'[q] = "no" /\ f.model = q => KeyOf(f, q) # Null
    BY <1>4, <1>8, <2>1, <2>2 DEF IInv, KeysFit
  <2>4. faults' \in 0 .. MaxFaults
    BY <1>3, <1>8, FaultType
  <2> QED
    BY <1>3, <1>4, <1>6, <1>8, <2>1, <2>2, <2>3, <2>4, HandledKeeps
<1> QED
  BY <1>5, <1>7, <1>8

\* A key is removed, in memory at least, and with it a choice that needs it.
LEMMA RemoveApiKeyKeeps ==
  ASSUME IInv, NEW r \in requests, removeApiKey(r)
  PROVE  IInv'
<1>1. PICK p \in CloudProviders : p = r.provider
  BY DEF removeApiKey, IInv, Panel, RequestsFit, RequestFits
<1> DEFINE d == WithoutKey(data, p)
           both == Automatic(d, p)
<1>2. Typed /\ data \in SettingsFile /\ file \in SettingsFile /\ faults \in 0 .. MaxFaults
      /\ torn \in [CloudProviders -> {"no", "now", "before"}]
      /\ apiKeys \in [CloudProviders -> Keys \cup {EnvKey, Null}]
  BY DEF IInv, Typed
<1>3. d \in SettingsFile /\ d.model = data.model /\ KeyOf(d, p) = envApiKey(p)
      /\ \A q \in CloudProviders \ {p} : KeyOf(d, q) = KeyOf(data, q)
  BY <1>2, KeyChange DEF WithoutKey
<1>4. UNCHANGED <<env, panel, open>>
  BY DEF removeApiKey
<1>5. \/ /\ data' = both /\ file' = both /\ Reply(r, "done", both) /\ UNCHANGED faults
         /\ apiKeys' = ClientWithout(p) /\ torn' = [torn EXCEPT ![p] = "no"]
      \/ /\ data' = d /\ file' \in {file, d} /\ Reply(r, "failed", d) /\ Fault
         /\ UNCHANGED apiKeys /\ torn' = [torn EXCEPT ![p] = "now"]
      \/ /\ data' = both /\ file' \in {d, both} /\ Reply(r, "failed", both) /\ Fault
         /\ apiKeys' = ClientWithout(p) /\ torn' = [torn EXCEPT ![p] = "now"]
  BY <1>1 DEF removeApiKey, Saved, NotSaved
<1> HIDE DEF d
<1>6. /\ both \in SettingsFile /\ both.model \in {d.model, Null}
      /\ both.model = p => KeyOf(both, p) # Null
      /\ \A q \in CloudProviders : KeyOf(both, q) = KeyOf(d, q)
  BY <1>3, AutomaticEffect
<1> HIDE DEF both
<1>7. /\ ClientWithout(p) \in [CloudProviders -> Keys \cup {EnvKey, Null}]
      /\ ClientWithout(p)[p] = envApiKey(p)
      /\ \A q \in CloudProviders \ {p} : ClientWithout(p)[q] = apiKeys[q]
  BY <1>2 DEF ClientWithout, envApiKey
<1>8. \A q \in CloudProviders : q # Null
  BY SettingsAssumption DEF Choices
<1>9. ASSUME NEW q \in CloudProviders \ {p}
      PROVE  /\ torn[q] # "now" => apiKeys[q] = KeyOf(d, q) /\ apiKeys[q] = KeyOf(both, q)
             /\ torn[q] = "no" /\ d.model = q => KeyOf(d, q) # Null
             /\ torn[q] = "no" /\ both.model = q => KeyOf(both, q) # Null
             /\ torn[q] = "no" /\ file.model = q => KeyOf(file, q) # Null
  BY <1>3, <1>6, <1>8 DEF IInv, KeysFit
<1>10. CASE /\ data' = both /\ file' = both /\ Reply(r, "done", both) /\ UNCHANGED faults
            /\ apiKeys' = ClientWithout(p) /\ torn' = [torn EXCEPT ![p] = "no"]
  <2>1. (\A q \in CloudProviders \ {p} : torn'[q] = torn[q])
        /\ torn' \in [CloudProviders -> {"no", "now", "before"}]
    BY <1>2, <1>10
  <2>2. \A q \in CloudProviders : /\ torn'[q] # "now" => apiKeys'[q] = KeyOf(both, q)
                                  /\ torn'[q] = "no" /\ both.model = q => KeyOf(both, q) # Null
    BY <1>3, <1>6, <1>7, <1>9, <1>10, <2>1
  <2> QED
    BY <1>2, <1>4, <1>6, <1>7, <1>10, <2>1, <2>2, HandledKeeps
<1>11. CASE \/ /\ data' = d /\ file' \in {file, d} /\ Reply(r, "failed", d) /\ Fault
               /\ UNCHANGED apiKeys /\ torn' = [torn EXCEPT ![p] = "now"]
            \/ /\ data' = both /\ file' \in {d, both} /\ Reply(r, "failed", both) /\ Fault
               /\ apiKeys' = ClientWithout(p) /\ torn' = [torn EXCEPT ![p] = "now"]
  <2>1. PICK f \in {file, d, both} : f = file'
    BY <1>11
  <2>2. PICK e \in {d, both} : e = data' /\ Reply(r, "failed", e)
    BY <1>11
  <2>3. e \in SettingsFile /\ f \in SettingsFile
    BY <1>2, <1>3, <1>6
  <2>4. torn'[p] = "now" /\ (\A q \in CloudProviders \ {p} : torn'[q] = torn[q])
        /\ torn' \in [CloudProviders -> {"no", "now", "before"}]
    BY <1>2, <1>11
  <2>5. apiKeys' \in [CloudProviders -> Keys \cup {EnvKey, Null}]
        /\ \A q \in CloudProviders \ {p} : apiKeys'[q] = apiKeys[q]
    BY <1>2, <1>7, <1>11
  <2>6. ASSUME NEW q \in CloudProviders
        PROVE  /\ torn'[q] # "now" => apiKeys'[q] = KeyOf(e, q)
               /\ torn'[q] = "no" /\ e.model = q => KeyOf(e, q) # Null
               /\ torn'[q] = "no" /\ f.model = q => KeyOf(f, q) # Null
    BY <1>9, <2>4, <2>5
  <2>7. faults' \in 0 .. MaxFaults
    BY <1>2, <1>11, FaultType
  <2> QED
    BY <1>4, <2>1, <2>2, <2>3, <2>4, <2>5, <2>6, <2>7, HandledKeeps
<1> QED
  BY <1>5, <1>10, <1>11

\* A model is chosen that has a key, or none.
LEMMA SetModelKeeps ==
  ASSUME IInv, NEW r \in requests, setModel(r)
  PROVE  IInv'
<1>1. PICK c \in Choices \cup {Null} : c = r.model
  BY DEF IInv, Typed, Request
<1> DEFINE d == [data EXCEPT !.model = c]
<1>2. Typed /\ data \in SettingsFile /\ file \in SettingsFile /\ faults \in 0 .. MaxFaults
  BY DEF IInv, Typed
<1>3. d \in SettingsFile /\ d.model = c /\ \A q \in CloudProviders : KeyOf(d, q) = KeyOf(data, q)
  BY <1>2, ModelChange
<1>4. c \in CloudProviders => apiKeys[c] # Null
  <2>1. CASE r.kind = "choose"
    BY <1>1, <2>1 DEF setModel, isProviderReady
  <2>2. CASE r.kind = "auto"
    <3>1. r.model = Null
      BY <2>2 DEF IInv, Panel, RequestsFit, RequestFits
    <3> QED
      BY <1>1, <3>1, SettingsAssumption DEF Choices
  <2> QED
    BY <2>1, <2>2 DEF setModel
<1>5. UNCHANGED <<env, apiKeys, torn, panel, open>>
  BY DEF setModel
<1>6. \/ data' = d /\ file' = d /\ Reply(r, "done", d) /\ UNCHANGED faults
      \/ data' = d /\ file' \in {file, d} /\ Reply(r, "failed", d) /\ Fault
  BY <1>1 DEF setModel, Saved, NotSaved
<1> HIDE DEF d
<1>7. PICK f \in {file, d} : f = file'
  BY <1>6
<1>8. PICK stage \in {"done", "failed"} : Reply(r, stage, d)
  BY <1>6
<1>9. ASSUME NEW q \in CloudProviders
      PROVE  /\ torn'[q] # "now" => apiKeys'[q] = KeyOf(d, q)
             /\ torn'[q] = "no" /\ d.model = q => KeyOf(d, q) # Null
             /\ torn'[q] = "no" /\ f.model = q => KeyOf(f, q) # Null
  BY <1>3, <1>4, <1>5 DEF IInv, KeysFit
<1>10. faults' \in 0 .. MaxFaults
  BY <1>2, <1>6, FaultType
<1>11. /\ apiKeys' \in [CloudProviders -> Keys \cup {EnvKey, Null}]
       /\ torn' \in [CloudProviders -> {"no", "now", "before"}]
       /\ f \in SettingsFile /\ data' = d
  BY <1>2, <1>3, <1>5, <1>6 DEF Typed
<1> QED
  BY <1>3, <1>5, <1>7, <1>8, <1>9, <1>10, <1>11, HandledKeeps

\* Nothing is changed for a request that only asks, or is refused.
LEMMA AnsweredKeeps ==
  ASSUME IInv, NEW r \in requests, Loaded(r) \/ Refused(r)
  PROVE  IInv'
<1>1. PICK stage \in {"done", "failed"} : Reply(r, stage, data)
  BY DEF Loaded, Refused
<1>2. UNCHANGED <<data, file, apiKeys, torn, env, panel, open, faults>>
  BY DEF Loaded, Refused, server
<1>3. Typed /\ KeysFit
  BY DEF IInv
<1>4. PICK d \in SettingsFile : d = data
  BY <1>3 DEF Typed
<1>5. PICK f \in SettingsFile : f = file
  BY <1>3 DEF Typed
<1>6. \A p \in CloudProviders : /\ torn'[p] # "now" => apiKeys'[p] = KeyOf(d, p)
                                /\ torn'[p] = "no" /\ d.model = p => KeyOf(d, p) # Null
                                /\ torn'[p] = "no" /\ f.model = p => KeyOf(f, p) # Null
  BY <1>2, <1>3, <1>4, <1>5 DEF KeysFit
<1> QED
  BY <1>1, <1>2, <1>3, <1>4, <1>5, <1>6, HandledKeeps DEF Typed

-----------------------------------------------------------------------------
(* The panel, other tabs, lost connections and restarts. *)

\* What is asked for says what it has to.
AskFits(ask) ==
  /\ ask.kind \in Kinds /\ ask.provider \in CloudProviders \cup {Null}
  /\ ask.key \in Keys \cup {Null} /\ ask.model \in Choices \cup {Null}
  /\ ask.kind \in {"save", "remove"} => ask.provider \in CloudProviders
  /\ ask.kind = "save" => ask.key \in Keys
  /\ ask.kind = "auto" => ask.model = Null

\* The load of a panel that opens.
LEMMA BlankFits == AskFits(Blank)
BY DEF AskFits, Blank, Kinds

\* All that a panel offers does.
LEMMA OfferedFits ==
  ASSUME NEW shown, NEW ask \in Offered(shown)
  PROVE  AskFits(ask)
<1>1. CASE ask \in ModelButtons(shown)
  <2>1. \/ \E c \in Choices : ask = [Blank EXCEPT !.kind = "choose", !.model = c]
        \/ \E c \in Choices : ask = [Blank EXCEPT !.kind = "test", !.model = c]
        \/ ask = [Blank EXCEPT !.kind = "auto"]
    BY <1>1 DEF ModelButtons
  <2> QED
    BY <2>1 DEF AskFits, Blank, Kinds
<1>2. CASE ask \in KeyButtons(shown)
  <2> DEFINE saves(p) == {[Blank EXCEPT !.kind = "save", !.provider = p, !.key = k] : k \in Keys}
           removals == {[Blank EXCEPT !.kind = "remove", !.provider = p] :
                        p \in {q \in CloudProviders : shown.keys[q] = "saved"}}
           all == UNION {saves(p) : p \in CloudProviders}
  <2>1. CASE ask \in all
    <3>1. PICK p \in CloudProviders : ask \in saves(p)
      BY <2>1
    <3>2. PICK k \in Keys : ask = [Blank EXCEPT !.kind = "save", !.provider = p, !.key = k]
      BY <3>1
    <3> QED
      BY <3>2 DEF AskFits, Blank, Kinds
  <2>2. CASE ask \in removals
    <3>1. PICK p \in CloudProviders : ask = [Blank EXCEPT !.kind = "remove", !.provider = p]
      BY <2>2
    <3> QED
      BY <3>1 DEF AskFits, Blank, Kinds
  <2>3. KeyButtons(shown) = all \cup removals
    BY DEF KeyButtons
  <2> HIDE DEF all, removals
  <2> QED
    BY <1>2, <2>1, <2>2, <2>3
<1> QED
  BY <1>1, <1>2 DEF Offered

\* One more request is under way.
LEMMA SendEffect ==
  ASSUME NEW ask, AskFits(ask), NEW mine \in BOOLEAN, Send(ask, mine)
  PROVE  \E x \in Request :
           /\ requests' = requests \cup {x}
           /\ x.kind = ask.kind /\ x.provider = ask.provider /\ x.key = ask.key /\ x.model = ask.model
           /\ x.mine = mine /\ x.stage = "sent" /\ x.answer = Null
<1>1. PICK i \in Free : i = CHOOSE j \in Free : TRUE
  BY DEF Send
<1> DEFINE x == [id |-> i, kind |-> ask.kind, provider |-> ask.provider, key |-> ask.key,
                 model |-> ask.model, mine |-> mine, stage |-> "sent", answer |-> Null, covers |-> FALSE]
<1>2. requests' = requests \cup {x}
  BY <1>1 DEF Send
<1>3. i \in 1 .. MaxRequests
  BY DEF Free
<1>4. x \in Request
  BY <1>3 DEF Request, AskFits
<1> QED
  BY <1>2, <1>4

\* What a request asks for is not changed by anything else.
LEMMA SentKeeps ==
  ASSUME IInv, NEW ask, AskFits(ask), NEW mine \in BOOLEAN, Send(ask, mine),
         ask.kind = "test" => mine, mine => open' /\ Mine = {}, open => open',
         UNCHANGED <<env, data>>
  PROVE  requests' \subseteq Request /\ RequestsFit' /\ OneMine'
<1>1. PICK x \in Request :
        /\ requests' = requests \cup {x}
        /\ x.kind = ask.kind /\ x.provider = ask.provider /\ x.key = ask.key /\ x.model = ask.model
        /\ x.mine = mine /\ x.stage = "sent" /\ x.answer = Null
  BY SendEffect
<1>2. requests' \subseteq Request
  BY <1>1 DEF IInv, Typed
<1>3. settingsPayload(data)' = settingsPayload(data)
  BY DEF settingsPayload
<1>4. RequestsFit'
  <2>1. RequestFits(x)'
    BY <1>1 DEF RequestFits, AskFits
  <2>2. ASSUME NEW r \in requests
        PROVE  RequestFits(r)'
    BY <1>3 DEF RequestFits, IInv, Panel, RequestsFit
  <2> QED
    BY <1>1, <2>1, <2>2 DEF RequestsFit
<1>5. OneMine'
  BY <1>1 DEF IInv, Panel, OneMine, Mine
<1> QED
  BY <1>2, <1>4, <1>5

\* The keys are as they were.
LEMMA SameKeys ==
  ASSUME KeysFit, UNCHANGED <<env, data, file, apiKeys, torn>>
  PROVE  KeysFit'
BY DEF KeysFit, KeyOf, envApiKey

\* What the panel shows is as it was.
LEMMA SamePanel ==
  ASSUME PanelShowsServer, UNCHANGED <<env, data, panel, open, behind>>
  PROVE  PanelShowsServer'
BY DEF PanelShowsServer, settingsPayload

\* The panel is opened, and loads.
LEMMA OpenKeeps ==
  ASSUME IInv, Open
  PROVE  IInv'
<1>1. Send(Blank, TRUE) /\ ~open /\ open' = TRUE /\ panel' = Null /\ behind' = FALSE
      /\ UNCHANGED <<env, data, file, apiKeys, torn, faults>>
  BY DEF Open, server
<1>2. Mine = {}
  BY <1>1 DEF IInv, Panel, RequestsFit, RequestFits, Mine
<1>3. requests' \subseteq Request /\ RequestsFit' /\ OneMine'
  <2>1. Blank.kind # "test"
    BY DEF Blank
  <2> QED
    BY <1>1, <1>2, <2>1, BlankFits, SentKeeps
<1>4. Typed' /\ PanelShowsServer'
  BY <1>1, <1>3 DEF IInv, Typed, PanelShowsServer
<1> QED
  BY <1>1, <1>3, <1>4, SameKeys DEF IInv, Panel

\* A button of the panel, or of another tab.
LEMMA ClickKeeps ==
  ASSUME IInv, Click \/ Elsewhere
  PROVE  IInv'
<1>1. UNCHANGED <<env, data, file, apiKeys, torn, panel, open, behind>> /\ faults' \in 0 .. MaxFaults
  BY FaultType DEF Click, Elsewhere, server, screen, IInv, Typed
<1>2. requests' \subseteq Request /\ RequestsFit' /\ OneMine'
  <2>1. CASE Click
    <3>1. PICK ask : ask \in Offered(panel) /\ Send(ask, TRUE)
      BY <2>1 DEF Click
    <3>2. open /\ Mine = {} /\ AskFits(ask)
      BY <2>1, <3>1, OfferedFits DEF Click, Busy
    <3> QED
      BY <1>1, <3>1, <3>2, SentKeeps
  <2>2. CASE Elsewhere
    <3>1. PICK shown, ask : ask \in Offered(shown) /\ ask.kind # "test" /\ Send(ask, FALSE)
      BY <2>2 DEF Elsewhere
    <3>2. AskFits(ask)
      BY <3>1, OfferedFits
    <3> QED
      BY <1>1, <3>1, <3>2, SentKeeps
  <2> QED
    BY <2>1, <2>2
<1>3. Typed'
  BY <1>1, <1>2 DEF IInv, Typed
<1> QED
  BY <1>1, <1>2, <1>3, SameKeys, SamePanel DEF IInv, Panel

\* The panel is closed; nobody takes an answer any more.
LEMMA CloseKeeps ==
  ASSUME IInv, Close
  PROVE  IInv'
<1>1. open' = FALSE /\ panel' = Null /\ behind' = FALSE
      /\ UNCHANGED <<env, data, file, apiKeys, torn, faults>>
  BY DEF Close, server
<1>2. ASSUME NEW x \in requests'
      PROVE  x \in Request /\ RequestFits(x)' /\ ~x.mine
  <2>1. PICK q \in requests : x = [q EXCEPT !.mine = FALSE] /\ q.stage = "sent" /\ q.kind # "test"
    BY DEF Close
  <2>2. q \in Request /\ RequestFits(q)
    BY DEF IInv, Typed, Panel, RequestsFit
  <2>3. /\ x \in Request /\ x.kind = q.kind /\ x.provider = q.provider /\ x.key = q.key /\ x.model = q.model
        /\ ~x.mine /\ x.stage = "sent" /\ x.answer = q.answer
    BY <2>1, <2>2 DEF Request
  <2>4. q.answer = Null
    BY <2>1, <2>2 DEF RequestFits
  <2> QED
    BY <2>1, <2>2, <2>3, <2>4 DEF RequestFits
<1>3. RequestsFit' /\ OneMine' /\ requests' \subseteq Request
  BY <1>2 DEF RequestsFit, OneMine, Mine
<1>4. Typed' /\ PanelShowsServer'
  BY <1>1, <1>3 DEF IInv, Typed, PanelShowsServer
<1> QED
  BY <1>1, <1>3, <1>4, SameKeys DEF IInv, Panel

\* An answer is taken. One that was overtaken by a change leaves the panel behind.
LEMMA ArriveKeeps ==
  ASSUME IInv, NEW r \in requests, Arrive(r)
  PROVE  IInv'
<1>1. /\ r.stage \in {"done", "failed"} /\ requests' = requests \ {r}
      /\ UNCHANGED <<env, data, file, apiKeys, torn, open, faults>>
  BY DEF Arrive, server
<1>2. r \in Request /\ RequestFits(r)
  BY DEF IInv, Typed, Panel, RequestsFit
<1>3. settingsPayload(data)' = settingsPayload(data)
  BY <1>1 DEF settingsPayload
<1>4. RequestsFit' /\ OneMine' /\ requests' \subseteq Request
  <2>1. requests' \subseteq requests /\ open' = open
    BY <1>1
  <2>2. ASSUME NEW q \in requests
        PROVE  RequestFits(q)'
    BY <1>3, <2>1 DEF RequestFits, IInv, Panel, RequestsFit
  <2>3. RequestsFit'
    BY <2>1, <2>2 DEF RequestsFit
  <2> QED
    BY <2>1, <2>3 DEF IInv, Typed, Panel, OneMine, Mine
<1>5. panel' \in Payload \cup {Null} /\ behind' \in BOOLEAN /\ PanelShowsServer'
  <2>1. CASE r.stage = "done" /\ r.answer # Null
    <3>1. panel' = r.answer /\ behind' = ~r.covers
      BY <2>1 DEF Arrive, Taken
    <3>2. r.answer \in Payload /\ r.covers \in BOOLEAN
      BY <1>2, <2>1 DEF Request
    <3> QED
      BY <1>2, <1>3, <2>1, <3>1, <3>2 DEF RequestFits, PanelShowsServer
  <2>2. CASE ~(r.stage = "done" /\ r.answer # Null)
    <3>1. panel' = panel /\ behind' = behind
      BY <2>2 DEF Arrive, Taken
    <3> QED
      BY <1>1, <3>1, SamePanel DEF IInv, Typed, Panel
  <2> QED
    BY <2>1, <2>2
<1>6. Typed'
  BY <1>1, <1>4, <1>5 DEF IInv, Typed
<1> QED
  BY <1>1, <1>4, <1>5, <1>6, SameKeys DEF IInv, Panel

\* A request of the panel goes on, or is lost.
LEMMA StageKeeps ==
  ASSUME IInv, NEW r \in requests, NEW x \in Request, r.mine,
         requests' = (requests \ {r}) \cup {x},
         x.kind = r.kind, x.provider = r.provider, x.key = r.key, x.model = r.model, x.mine = r.mine,
         x.answer = Null, faults' \in 0 .. MaxFaults,
         UNCHANGED <<env, data, file, apiKeys, torn, panel, open, behind>>
  PROVE  IInv'
<1>1. RequestFits(r)
  BY DEF IInv, Panel, RequestsFit
<1>2. settingsPayload(data)' = settingsPayload(data)
  BY DEF settingsPayload
<1>3. requests' \subseteq Request
  BY DEF IInv, Typed
<1>4. RequestsFit'
  <2>1. RequestFits(x)'
    BY <1>1 DEF RequestFits
  <2>2. ASSUME NEW q \in requests
        PROVE  RequestFits(q)'
    BY <1>2 DEF RequestFits, IInv, Panel, RequestsFit
  <2> QED
    BY <2>1, <2>2 DEF RequestsFit
<1>5. OneMine'
  BY DEF IInv, Panel, OneMine, Mine
<1>6. Typed'
  BY <1>3 DEF IInv, Typed
<1> QED
  BY <1>4, <1>5, <1>6, SameKeys, SamePanel DEF IInv, Panel

\* A test asks the model, and is answered.
LEMMA TestKeeps ==
  ASSUME IInv, NEW r \in requests, Test(r)
  PROVE  IInv'
<1>1. r \in Request /\ RequestFits(r)
  BY DEF IInv, Typed, Panel, RequestsFit
<1>2. r.mine /\ r.answer = Null /\ UNCHANGED <<env, data, file, apiKeys, torn, panel, open, behind>>
      /\ faults' \in 0 .. MaxFaults
  BY <1>1 DEF Test, RequestFits, server, screen, IInv, Typed
<1>3. PICK stage \in {"asking", "done"} : requests' = (requests \ {r}) \cup {[r EXCEPT !.stage = stage]}
  BY DEF Test
<1> DEFINE x == [r EXCEPT !.stage = stage]
<1>4. x \in Request /\ x.kind = r.kind /\ x.provider = r.provider /\ x.key = r.key /\ x.model = r.model
      /\ x.mine = r.mine /\ x.answer = r.answer
  BY <1>1 DEF Request
<1> HIDE DEF x
<1>5. requests' = (requests \ {r}) \cup {x}
  BY <1>3 DEF x
<1> QED
  BY <1>2, <1>4, <1>5, StageKeeps

\* A connection is lost.
LEMMA LoseKeeps ==
  ASSUME IInv, NEW r \in requests, Lose(r)
  PROVE  IInv'
<1>1. r \in Request /\ r.mine
  BY DEF Lose, Mine, IInv, Typed
<1>2. UNCHANGED <<env, data, file, apiKeys, torn, panel, open, behind>> /\ faults' \in 0 .. MaxFaults
  BY FaultType DEF Lose, server, screen, IInv
<1> DEFINE x == [r EXCEPT !.stage = "failed", !.answer = Null, !.covers = FALSE]
<1>3. x \in Request /\ x.kind = r.kind /\ x.provider = r.provider /\ x.key = r.key /\ x.model = r.model
      /\ x.mine = r.mine /\ x.answer = Null
  BY <1>1 DEF Request
<1>4. requests' = (requests \ {r}) \cup {x}
  BY DEF Lose
<1> HIDE DEF x
<1> QED
  BY <1>1, <1>2, <1>3, <1>4, StageKeeps

\* The server stops and starts again from a file whose choice has a key.
LEMMA StartKeeps ==
  ASSUME IInv, NEW f \in SettingsFile, StartFrom(f), faults' \in 0 .. MaxFaults,
         torn' \in [CloudProviders -> {"no", "now", "before"}],
         \A p \in CloudProviders : torn'[p] = "no" /\ f.model = p => KeyOf(f, p) # Null
  PROVE  IInv'
<1>1. data' = f /\ file' = f /\ apiKeys' = ClientKeys(f) /\ UNCHANGED <<env, panel, open>>
      /\ behind' = (behind \/ (open /\ f # data))
  BY DEF StartFrom
<1>2. apiKeys' \in [CloudProviders -> Keys \cup {EnvKey, Null}]
      /\ \A p \in CloudProviders : apiKeys'[p] = KeyOf(f, p)
  BY <1>1, KeyOfType DEF ClientKeys
<1>3. KeysFit'
  BY <1>1, <1>2, KeysFitNext
<1>4. settingsPayload(data)' = settingsPayload(f)
  BY <1>1 DEF settingsPayload
<1> DEFINE new(q) == IF q.stage \in {"sent", "asking"} THEN [q EXCEPT !.stage = "failed"]
                     ELSE [q EXCEPT !.covers = @ /\ f = data]
<1>5. requests' = {new(q) : q \in Mine}
  BY DEF StartFrom
<1>6. ASSUME NEW q \in Mine, NEW y, y = new(q)
      PROVE  y \in Request /\ RequestFits(y)'
  <2>1. q \in Request /\ RequestFits(q) /\ q.mine
    BY DEF Mine, IInv, Typed, Panel, RequestsFit
  <2>2. CASE q.stage \in {"sent", "asking"}
    <3> DEFINE x == [q EXCEPT !.stage = "failed"]
    <3>1. x \in Request /\ x.kind = q.kind /\ x.provider = q.provider /\ x.key = q.key /\ x.model = q.model
          /\ x.mine = q.mine /\ x.answer = q.answer /\ x.stage = "failed"
      BY <2>1 DEF Request
    <3>2. q.answer = Null
      BY <2>1, <2>2 DEF RequestFits
    <3> HIDE DEF x
    <3>3. RequestFits(x)'
      BY <1>1, <2>1, <3>1, <3>2 DEF RequestFits
    <3>4. y = x
      BY <1>6, <2>2 DEF x
    <3> QED
      BY <3>1, <3>3, <3>4
  <2>3. CASE q.stage \notin {"sent", "asking"}
    <3>1. PICK b \in BOOLEAN : b = (f = data)
      OBVIOUS
    <3>2. q \in Request /\ y = [q EXCEPT !.covers = @ /\ b]
      BY <1>6, <2>1, <2>3, <3>1
    <3>3. /\ y \in Request /\ y.kind = q.kind /\ y.provider = q.provider
          /\ y.key = q.key /\ y.model = q.model /\ y.mine = q.mine /\ y.stage = q.stage
          /\ y.answer = q.answer /\ (y.covers => q.covers /\ b)
      BY <3>2, CoversEffect
    <3> QED
      BY <1>1, <1>4, <2>1, <3>1, <3>3 DEF RequestFits
  <2> QED
    BY <2>2, <2>3
<1> HIDE DEF new
<1>7. requests' \subseteq Request /\ RequestsFit'
  <2>1. \A y \in requests' : \E q \in Mine : y = new(q)
    BY <1>5
  <2> QED
    BY <1>6, <2>1 DEF RequestsFit
<1>8. OneMine'
  BY <1>5 DEF IInv, Panel, OneMine, Mine
<1>9. PanelShowsServer' /\ behind' \in BOOLEAN
  BY <1>1, <1>4 DEF IInv, Typed, Panel, PanelShowsServer
<1>10. Typed'
  BY <1>1, <1>2, <1>7, <1>9 DEF IInv, Typed
<1> QED
  BY <1>3, <1>7, <1>8, <1>9, <1>10 DEF IInv, Panel

\* A restart, and one between the two writes of a removal.
LEMMA RestartKeeps ==
  ASSUME IInv, Restart \/ \E r \in requests : CutOff(r)
  PROVE  IInv'
<1>1. faults' \in 0 .. MaxFaults /\ file \in SettingsFile /\ data \in SettingsFile
      /\ torn \in [CloudProviders -> {"no", "now", "before"}]
  BY FaultType DEF Restart, CutOff, IInv, Typed
<1>2. CASE Restart
  <2>1. StartFrom(file) /\ torn' = ReadAgain(torn)
    BY <1>2 DEF Restart
  <2>2. torn' \in [CloudProviders -> {"no", "now", "before"}]
        /\ \A p \in CloudProviders : torn'[p] = "no" => torn[p] = "no"
    BY <2>1 DEF ReadAgain
  <2>3. \A p \in CloudProviders : torn'[p] = "no" /\ file.model = p => KeyOf(file, p) # Null
    BY <2>2 DEF IInv, KeysFit
  <2> QED
    BY <1>1, <2>1, <2>2, <2>3, StartKeeps
<1>3. ASSUME NEW r \in requests, CutOff(r)
      PROVE  IInv'
  <2>1. PICK p \in CloudProviders : p = r.provider
    BY <1>3 DEF CutOff, IInv, Panel, RequestsFit, RequestFits
  <2> DEFINE d == WithoutKey(data, p)
  <2>2. StartFrom(d) /\ torn' = ReadAgain([torn EXCEPT ![p] = "now"])
    BY <1>3, <2>1 DEF CutOff
  <2>3. d \in SettingsFile /\ d.model = data.model
        /\ \A q \in CloudProviders \ {p} : KeyOf(d, q) = KeyOf(data, q)
    BY <1>1, KeyChange DEF WithoutKey
  <2>4. torn' \in [CloudProviders -> {"no", "now", "before"}]
        /\ \A q \in CloudProviders : torn'[q] = "no" => q # p /\ torn[q] = "no"
    BY <1>1, <2>2 DEF ReadAgain
  <2> HIDE DEF d
  <2>5. \A q \in CloudProviders : torn'[q] = "no" /\ d.model = q => KeyOf(d, q) # Null
    BY <2>3, <2>4 DEF IInv, KeysFit
  <2> QED
    BY <1>1, <2>2, <2>3, <2>4, <2>5, StartKeeps
<1> QED
  BY <1>2, <1>3

-----------------------------------------------------------------------------
(* The invariant holds. *)

\* The invariant holds at the start.
LEMMA InitIInv == Init => IInv
<1> SUFFICES ASSUME Init
             PROVE  IInv
  OBVIOUS
<1> USE DEF Init
<1>1. Empty \in SettingsFile /\ Empty.model = Null
  BY DEF Empty, SettingsFile
<1>2. apiKeys \in [CloudProviders -> Keys \cup {EnvKey, Null}]
      /\ \A p \in CloudProviders : apiKeys[p] = KeyOf(Empty, p)
  BY <1>1, KeyOfType DEF ClientKeys
<1>3. Typed
  <2>1. faults \in 0 .. MaxFaults
    BY SettingsAssumption
  <2>2. torn \in [CloudProviders -> {"no", "now", "before"}]
    OBVIOUS
  <2>3. requests \subseteq Request /\ panel \in Payload \cup {Null}
    OBVIOUS
  <2> QED
    BY <1>1, <1>2, <2>1, <2>2, <2>3 DEF Typed
<1>4. KeysFit
  <2>1. \A p \in CloudProviders : p # Null
    BY SettingsAssumption DEF Choices
  <2> QED
    BY <1>1, <1>2, <2>1 DEF KeysFit
<1>5. Panel
  BY DEF Panel, RequestsFit, OneMine, Mine, PanelShowsServer
<1> QED
  BY <1>3, <1>4, <1>5 DEF IInv

\* Every step keeps it.
LEMMA NextIInv == IInv /\ [Next]_vars => IInv'
<1> SUFFICES ASSUME IInv, [Next]_vars
             PROVE  IInv'
  OBVIOUS
<1>1. CASE Open \/ Close \/ Click \/ Elsewhere \/ Restart
  BY <1>1, OpenKeeps, CloseKeeps, ClickKeeps, RestartKeeps
<1>2. ASSUME NEW r \in requests, Handle(r) \/ Arrive(r) \/ Lose(r) \/ CutOff(r)
      PROVE  IInv'
  BY <1>2, SetApiKeyKeeps, RemoveApiKeyKeeps, SetModelKeeps, AnsweredKeeps, TestKeeps, ArriveKeeps,
     LoseKeeps, RestartKeeps DEF Handle
<1>3. CASE UNCHANGED vars
  <2>1. UNCHANGED <<env, data, file, apiKeys, requests, panel, open, behind, torn, faults>>
    BY <1>3 DEF vars
  <2>2. Typed'
    BY <2>1 DEF IInv, Typed
  <2>3. RequestsFit' /\ OneMine'
    <3>1. settingsPayload(data)' = settingsPayload(data)
      BY <2>1 DEF settingsPayload
    <3> QED
      BY <2>1, <3>1 DEF IInv, Panel, RequestsFit, RequestFits, OneMine, Mine
  <2> QED
    BY <2>1, <2>2, <2>3, SameKeys, SamePanel DEF IInv, Panel
<1> QED
  BY <1>1, <1>2, <1>3 DEF Next

\* The copies of the keys and of the choice, and the panel's requests, fit together.
THEOREM Invariance == Spec => []IInv
BY InitIInv, NextIInv, PTL DEF Spec

-----------------------------------------------------------------------------
(* What follows from it. *)

\* The client uses the keys the app says are in use, and the model that is chosen has one, across
\* changes from any number of tabs, failed writes and restarts.
THEOREM KeysCorrect == Spec => []KeyInUse
<1>1. IInv => KeyInUse
  <2> SUFFICES ASSUME IInv
               PROVE  KeyInUse
    OBVIOUS
  <2>1. Cardinality(Mine) <= 1
    <3>1. CASE Mine = {}
      <4>1. Cardinality(Mine) = 0
        BY <3>1, FS_EmptySet
      <4> QED
        BY <4>1
    <3>2. CASE Mine # {}
      <4>0. PICK r \in Mine : TRUE
        BY <3>2
      <4>1. Mine = {r}
        BY DEF IInv, Panel, OneMine
      <4>2. Cardinality(Mine) = 1
        BY <4>1, FS_Singleton
      <4> QED
        BY <4>2
    <3> QED
      BY <3>1, <3>2
  <2>2. TypeOK
    BY <2>1 DEF IInv, Typed, TypeOK
  <2>3. ASSUME NEW p \in CloudProviders
        PROVE  /\ torn[p] # "now" => apiKeys[p] = KeyOf(data, p)
               /\ torn[p] = "no" /\ data.model = p => isProviderReady(p)
    BY DEF IInv, KeysFit, isProviderReady
  <2> QED
    BY <2>2, <2>3 DEF KeyInUse
<1> QED
  BY <1>1, Invariance, PTL

\* What the panel shows is what the server holds, unless that changed behind its back.
THEOREM PanelCorrect == Spec => []PanelShowsServer
<1>1. IInv => PanelShowsServer
  BY DEF IInv, Panel
<1> QED
  BY <1>1, Invariance, PTL

-----------------------------------------------------------------------------
(* Access, for any number of registrations, tokens, devices, sessions and failures: the inductive   *)
(* invariant.                                                                                      *)

USE AccessAssumption, NoneAssumption

\* No two accounts have an email in common, and whoever was told so has an account and a home.
AccountsFit ==
  /\ \A u, v \in users : Email[u] = Email[v] => u = v
  /\ told \subseteq users \cap homes

\* A row of a device comes from one token, with its scope; no token is used up without a row.
PairedOnce(f) ==
  /\ devices[f] = None => \A t \in Tokens : tokens[t].claimedBy # f
  /\ devices[f] # None =>
       \E t \in Tokens : /\ tokens[t].claimedBy = f
                         /\ \A u \in Tokens : tokens[u].claimedBy = f => u = t
                         /\ devices[f].scope = tokens[t].scope

\* The session of a device, expired or not, was issued, and was told to nobody else.
SessionFits(f) ==
  devices[f] # None =>
    /\ devices[f].session \in 1 .. issued \cup {None}
    /\ \A g \in Fingerprints \ {f} : devices[f].session \notin held[g]

DevicesFit == \A f \in Fingerprints : PairedOnce(f) /\ SessionFits(f)

AccessInv == AccessTypeOK /\ AccountsFit /\ DevicesFit

-----------------------------------------------------------------------------
(* Accounts. *)

\* What says nothing of the accounts keeps them in order.
LEMMA SameAccounts ==
  ASSUME AccountsFit, UNCHANGED accounts
  PROVE  AccountsFit'
BY DEF AccountsFit, accounts

\* What says nothing of the companions keeps their rows in order.
LEMMA SameDevices ==
  ASSUME DevicesFit, UNCHANGED companions
  PROVE  DevicesFit'
BY DEF DevicesFit, PairedOnce, SessionFits, companions

\* An insert that the UNIQUE columns let through keeps the emails apart.
LEMMA CreateUserKeepsEmails ==
  ASSUME NEW f \in Forms, \A u, v \in users : Email[u] = Email[v] => u = v
  PROVE  /\ \A u, v \in CreateUser(f) : Email[u] = Email[v] => u = v
         /\ users \subseteq CreateUser(f) /\ CreateUser(f) \subseteq users \cup {f}
BY DEF CreateUser

\* A registration that waits for its hash has written nothing.
LEMMA RegisterFits == ASSUME AccessInv, NEW f \in Forms, Register(f) PROVE AccessInv'
<1>1. AccountsFit'
  BY DEF AccessInv, Register, AccountsFit
<1>2. DevicesFit'
  BY SameDevices DEF AccessInv, Register
<1>3. AccessTypeOK'
  BY DEF AccessInv, Register, AccessTypeOK, companions
<1> QED
  BY <1>1, <1>2, <1>3 DEF AccessInv

\* The answer 201 comes after the account and its workspace.
LEMMA RegisteredFits == ASSUME AccessInv, NEW f \in Forms, Registered(f) PROVE AccessInv'
<1>1. /\ \A u, v \in users' : Email[u] = Email[v] => u = v
      /\ users \subseteq users' /\ users' \subseteq users \cup {f}
  BY CreateUserKeepsEmails DEF AccessInv, AccountsFit, Registered
<1>2. \/ UNCHANGED <<homes, told>>
      \/ f \in users' /\ homes' = homes \cup {f} /\ told' = told \cup {f}
      \/ f \in users' /\ homes' = homes \cup {f} /\ UNCHANGED told
  BY DEF Registered, CreateWorkspace
<1>3. failures' \in 0 .. MaxFailures
  BY DEF AccessInv, AccessTypeOK, Registered, Failure
<1>4. AccountsFit'
  BY <1>1, <1>2 DEF AccessInv, AccountsFit
<1>5. DevicesFit'
  BY SameDevices DEF AccessInv, Registered
<1>6. /\ users' \subseteq Forms /\ homes' \subseteq users' /\ hashing' \subseteq Forms
      /\ told' \subseteq Forms
  BY <1>1, <1>2 DEF AccessInv, AccessTypeOK, Registered
<1>7. AccessTypeOK'
  BY <1>3, <1>6 DEF AccessInv, Registered, AccessTypeOK, companions
<1> QED
  BY <1>4, <1>5, <1>7 DEF AccessInv

\* A server that stops forgets only who waited.
LEMMA ServerStopsFits == ASSUME AccessInv, ServerStops PROVE AccessInv'
<1>1. AccountsFit'
  BY DEF AccessInv, ServerStops, AccountsFit
<1>2. DevicesFit'
  BY SameDevices DEF AccessInv, ServerStops
<1>3. AccessTypeOK'
  BY DEF AccessInv, ServerStops, AccessTypeOK, companions, Failure
<1> QED
  BY <1>1, <1>2, <1>3 DEF AccessInv

-----------------------------------------------------------------------------
(* Companions. *)

\* A token that is made or expires stays with the device that used it.
LEMMA TokenFits ==
  ASSUME AccessInv, NEW t \in Tokens, CreatePairingToken(t) \/ TokenExpires(t)
  PROVE  AccessInv'
<1>1. PICK state \in {"open", "expired"} : tokens' = [tokens EXCEPT ![t].state = state]
  BY DEF CreatePairingToken, TokenExpires
<1>2. UNCHANGED <<devices, issued, held, accounts, failures>>
  BY DEF CreatePairingToken, TokenExpires
<1>3. \A u \in Tokens : /\ tokens'[u] \in PairingToken
                        /\ tokens'[u].claimedBy = tokens[u].claimedBy
                        /\ tokens'[u].scope = tokens[u].scope
  BY <1>1 DEF AccessInv, AccessTypeOK, PairingToken
<1>4. AccessTypeOK'
  BY <1>1, <1>2, <1>3 DEF AccessInv, AccessTypeOK, accounts
<1>5. AccountsFit'
  BY <1>2, SameAccounts DEF AccessInv
<1>6. ASSUME NEW f \in Fingerprints PROVE PairedOnce(f)' /\ SessionFits(f)'
  BY <1>2, <1>3 DEF AccessInv, DevicesFit, PairedOnce, SessionFits
<1> QED
  BY <1>4, <1>5, <1>6 DEF AccessInv, DevicesFit

\* A device whose row is there says whose session was issued last.
LEMMA SessionMade ==
  ASSUME NEW rows \in [Fingerprints -> Device \cup {None}], NEW f \in Fingerprints,
         rows[f] # None, AccessTypeOK, CreateDeviceSession(rows, f), Answer(f)
  PROVE  /\ issued' = issued + 1 /\ issued' \in 1 .. MaxSessions
         /\ devices' \in [Fingerprints -> Device \cup {None}]
         /\ devices'[f] # None /\ devices'[f].session = issued' /\ devices'[f].live
         /\ devices'[f].scope = rows[f].scope
         /\ \A g \in Fingerprints \ {f} : devices'[g] = rows[g]
         /\ held' \in [Fingerprints -> SUBSET (1 .. issued')]
         /\ \A g \in Fingerprints \ {f} : held'[g] = held[g]
         /\ issued' \in held'[f] \/ failures' # failures
         /\ failures' \in 0 .. MaxFailures
<1>1. issued' = issued + 1 /\ issued' \in 1 .. MaxSessions /\ issued \in Nat
  BY DEF AccessTypeOK, CreateDeviceSession
<1>2. devices' = [rows EXCEPT ![f].session = issued', ![f].live = TRUE]
  BY <1>1 DEF CreateDeviceSession
<1>3. rows[f] \in Device
  OBVIOUS
<1>4. devices'[f] = [rows[f] EXCEPT !.session = issued', !.live = TRUE]
  BY <1>2
<1>5. /\ devices'[f] \in Device
      /\ devices'[f].session = issued' /\ devices'[f].live /\ devices'[f].scope = rows[f].scope
  BY <1>1, <1>3, <1>4 DEF Device, SessionsOrNull
<1>6. /\ devices' \in [Fingerprints -> Device \cup {None}]
      /\ \A g \in Fingerprints \ {f} : devices'[g] = rows[g]
  BY <1>2, <1>5
<1>7. CASE held' = [held EXCEPT ![f] = @ \cup {issued'}] /\ UNCHANGED failures
  BY <1>1, <1>5, <1>6, <1>7 DEF AccessTypeOK
<1>8. CASE Failure /\ UNCHANGED held
  BY <1>1, <1>5, <1>6, <1>8 DEF AccessTypeOK, Failure
<1> QED
  BY <1>7, <1>8 DEF Answer

\* A token pairs a device that has no row, so it is the one token of that row; its session is new
\* to everybody.
LEMMA ClaimFits ==
  ASSUME AccessInv, NEW t \in Tokens, NEW f \in Fingerprints, ClaimPairingToken(t, f)
  PROVE  AccessInv'
<1> DEFINE row == [scope |-> tokens[t].scope, session |-> None, live |-> FALSE, revoked |-> FALSE]
           rows == [devices EXCEPT ![f] = row]
<1>1. /\ tokens[t].claimedBy = None /\ devices[f] = None
      /\ tokens' = [tokens EXCEPT ![t].claimedBy = f]
      /\ UNCHANGED accounts
      /\ \/ CreateDeviceSession(rows, f) /\ Answer(f)
         \/ Failure /\ devices' = rows /\ UNCHANGED <<issued, held>>
  BY DEF ClaimPairingToken, Claims, Claimable
<1>2. /\ row \in Device /\ row.scope = tokens[t].scope /\ row.session = None
      /\ tokens[t].scope \in Scopes
  BY DEF AccessInv, AccessTypeOK, PairingToken, Device, SessionsOrNull
<1>3. \A u \in Tokens : /\ tokens'[u] \in PairingToken
                        /\ tokens'[u].claimedBy = IF u = t THEN f ELSE tokens[u].claimedBy
                        /\ tokens'[u].scope = tokens[u].scope
  BY <1>1 DEF AccessInv, AccessTypeOK, PairingToken
<1>4. tokens' \in [Tokens -> PairingToken]
  BY <1>1, <1>3 DEF AccessInv, AccessTypeOK
<1> HIDE DEF row
<1>5. /\ rows \in [Fingerprints -> Device \cup {None}] /\ rows[f] = row /\ rows[f] # None
      /\ \A g \in Fingerprints \ {f} : rows[g] = devices[g]
  BY <1>2 DEF AccessInv, AccessTypeOK
<1> HIDE DEF rows
<1>6. /\ issued' \in 0 .. MaxSessions /\ issued \in Nat /\ issued <= issued'
      /\ devices' \in [Fingerprints -> Device \cup {None}]
      /\ devices'[f] # None /\ devices'[f].scope = tokens[t].scope
      /\ \A g \in Fingerprints \ {f} : devices'[g] = devices[g] /\ held'[g] = held[g]
      /\ held' \in [Fingerprints -> SUBSET (1 .. issued')]
      /\ failures' \in 0 .. MaxFailures
      /\ devices'[f].session \in {None, issued + 1} /\ devices'[f].session \in 1 .. issued' \cup {None}
      /\ \A s \in held'[f] : s \in held[f] \/ s = issued + 1
  <2>1. CASE CreateDeviceSession(rows, f) /\ Answer(f)
    <3>1. /\ issued' = issued + 1 /\ issued' \in 1 .. MaxSessions
          /\ devices' \in [Fingerprints -> Device \cup {None}]
          /\ devices'[f] # None /\ devices'[f].session = issued'
          /\ devices'[f].scope = rows[f].scope
          /\ \A g \in Fingerprints \ {f} : devices'[g] = rows[g]
          /\ held' \in [Fingerprints -> SUBSET (1 .. issued')]
          /\ \A g \in Fingerprints \ {f} : held'[g] = held[g]
          /\ failures' \in 0 .. MaxFailures
      BY <1>5, <2>1, SessionMade DEF AccessInv
    <3>2. \A s \in held'[f] : s \in held[f] \/ s = issued + 1
      BY <2>1, <3>1 DEF Answer, AccessInv, AccessTypeOK
    <3> QED
      BY <1>2, <1>5, <3>1, <3>2 DEF AccessInv, AccessTypeOK
  <2>2. CASE Failure /\ devices' = rows /\ UNCHANGED <<issued, held>>
    BY <1>2, <1>5, <2>2 DEF AccessInv, AccessTypeOK, Failure
  <2> QED
    BY <1>1, <2>1, <2>2
<1>7. AccessTypeOK'
  BY <1>1, <1>4, <1>6 DEF AccessInv, AccessTypeOK, accounts
<1>8. AccountsFit'
  BY <1>1, SameAccounts DEF AccessInv
<1>9. ASSUME NEW g \in Fingerprints PROVE PairedOnce(g)'
  <2>1. CASE g = f
    <3>1. \A u \in Tokens : tokens[u].claimedBy # f
      BY <1>1 DEF AccessInv, DevicesFit, PairedOnce
    <3>2. tokens'[t].claimedBy = f /\ \A u \in Tokens : tokens'[u].claimedBy = f => u = t
      BY <1>3, <3>1
    <3> QED
      BY <1>3, <1>6, <2>1, <3>2 DEF PairedOnce
  <2>2. CASE g # f
    <3>1. \A u \in Tokens : tokens'[u].claimedBy = g <=> tokens[u].claimedBy = g
      BY <1>1, <1>3, <2>2
    <3> QED
      BY <1>3, <1>6, <2>2, <3>1 DEF AccessInv, DevicesFit, PairedOnce
  <2> QED
    BY <2>1, <2>2
<1>10. ASSUME NEW g \in Fingerprints PROVE SessionFits(g)'
  <2>1. \A h \in Fingerprints : held[h] \subseteq 1 .. issued
    BY DEF AccessInv, AccessTypeOK
  <2>2. CASE g = f
    BY <1>6, <2>1, <2>2 DEF SessionFits
  <2>3. CASE g # f
    <3>1. SessionFits(g) /\ devices'[g] = devices[g]
      BY <1>6, <2>3 DEF AccessInv, DevicesFit
    <3>2. ASSUME devices[g] # None
          PROVE  devices[g].session \in 1 .. issued' \cup {None}
      BY <1>6, <3>1, <3>2 DEF SessionFits
    <3>3. ASSUME devices[g] # None, NEW h \in Fingerprints \ {g}
          PROVE  devices[g].session \notin held'[h]
      <4>1. None \notin held'[h]
        BY <1>6
      <4>2. devices[g].session \notin held[h]
        BY <3>1, <3>3 DEF SessionFits
      <4>3. devices[g].session # None => devices[g].session # issued + 1
        BY <1>6, <3>1, <3>3 DEF SessionFits
      <4> QED
        BY <1>6, <4>1, <4>2, <4>3
    <3> QED
      BY <3>1, <3>2, <3>3 DEF SessionFits
  <2> QED
    BY <2>2, <2>3
<1> QED
  BY <1>7, <1>8, <1>9, <1>10 DEF AccessInv, DevicesFit

\* Only a device itself knows its session, so only it is given the next.
LEMMA OnlyItsOwn ==
  ASSUME AccessInv, NEW f \in Fingerprints, NEW g \in Fingerprints, RefreshSession(f, g)
  PROVE  f = g /\ devices[g] # None
<1>1. PICK s \in held[f] : Valid(g, s)
  BY DEF RefreshSession
<1> QED
  BY <1>1 DEF Valid, AccessInv, DevicesFit, SessionFits

\* What a refresh changes, by a device for itself.
LEMMA RefreshEffect ==
  ASSUME AccessInv, NEW f \in Fingerprints, RefreshSession(f, f)
  PROVE  /\ issued' = issued + 1 /\ issued' \in 1 .. MaxSessions
         /\ devices' \in [Fingerprints -> Device \cup {None}]
         /\ devices[f] # None /\ devices'[f] # None /\ devices'[f].session = issued'
         /\ devices'[f].scope = devices[f].scope
         /\ \A g \in Fingerprints \ {f} : devices'[g] = devices[g]
         /\ held' \in [Fingerprints -> SUBSET (1 .. issued')]
         /\ \A g \in Fingerprints \ {f} : held'[g] = held[g]
         /\ issued' \in held'[f] \/ failures' # failures
         /\ failures' \in 0 .. MaxFailures
         /\ UNCHANGED <<tokens, accounts>>
<1>1. devices[f] # None
  BY OnlyItsOwn
<1>2. CreateDeviceSession(devices, f) /\ Answer(f) /\ UNCHANGED <<tokens, accounts>>
  BY DEF RefreshSession
<1>3. devices \in [Fingerprints -> Device \cup {None}]
  BY DEF AccessInv, AccessTypeOK
<1> QED
  BY <1>1, <1>2, <1>3, SessionMade DEF AccessInv

\* A refresh gives the device that asks a session that is new to everybody.
LEMMA RefreshFits ==
  ASSUME AccessInv, NEW e \in Fingerprints, NEW f \in Fingerprints, RefreshSession(e, f)
  PROVE  AccessInv'
<1>1. RefreshSession(f, f)
  BY OnlyItsOwn
<1>2. /\ issued' = issued + 1 /\ issued' \in 1 .. MaxSessions
      /\ devices' \in [Fingerprints -> Device \cup {None}]
      /\ devices[f] # None /\ devices'[f] # None /\ devices'[f].session = issued'
      /\ devices'[f].scope = devices[f].scope
      /\ \A g \in Fingerprints \ {f} : devices'[g] = devices[g]
      /\ held' \in [Fingerprints -> SUBSET (1 .. issued')]
      /\ \A g \in Fingerprints \ {f} : held'[g] = held[g]
      /\ failures' \in 0 .. MaxFailures
      /\ UNCHANGED <<tokens, accounts>>
  BY <1>1, RefreshEffect
<1>3. \A s \in held'[f] : s \in held[f] \/ s = issued + 1
  BY <1>1, <1>2 DEF RefreshSession, Answer, AccessInv, AccessTypeOK
<1>4. AccessTypeOK'
  BY <1>2 DEF AccessInv, AccessTypeOK, accounts
<1>5. AccountsFit'
  BY <1>2, SameAccounts DEF AccessInv
<1>6. ASSUME NEW g \in Fingerprints PROVE PairedOnce(g)'
  BY <1>2 DEF AccessInv, DevicesFit, PairedOnce
<1>7. ASSUME NEW g \in Fingerprints PROVE SessionFits(g)'
  <2>1. issued \in Nat /\ \A h \in Fingerprints : held[h] \subseteq 1 .. issued
    BY DEF AccessInv, AccessTypeOK
  <2>2. CASE g = f
    BY <1>2, <2>1, <2>2 DEF SessionFits
  <2>3. CASE g # f
    <3>1. SessionFits(g) /\ devices'[g] = devices[g]
      BY <1>2, <2>3 DEF AccessInv, DevicesFit
    <3>2. ASSUME devices[g] # None
          PROVE  /\ devices[g].session \in 1 .. issued' \cup {None}
                 /\ devices[g].session # issued + 1
      BY <1>2, <2>1, <3>1, <3>2 DEF SessionFits
    <3>3. ASSUME devices[g] # None, NEW h \in Fingerprints \ {g}
          PROVE  devices[g].session \notin held'[h]
      BY <1>2, <1>3, <3>1, <3>2, <3>3 DEF SessionFits
    <3> QED
      BY <3>1, <3>2, <3>3 DEF SessionFits
  <2> QED
    BY <2>2, <2>3
<1> QED
  BY <1>4, <1>5, <1>6, <1>7 DEF AccessInv, DevicesFit

\* A session that ends, by time or by the user, is nobody else's.
LEMMA SessionEndsFits ==
  ASSUME AccessInv, NEW f \in Fingerprints, SessionExpires(f) \/ RevokeDevice(f)
  PROVE  AccessInv'
<1>1. /\ devices[f] # None
      /\ UNCHANGED <<tokens, issued, held, accounts, failures>>
      /\ \/ devices' = [devices EXCEPT ![f].live = FALSE]
         \/ devices' = [devices EXCEPT ![f].revoked = TRUE, ![f].session = None]
  BY DEF SessionExpires, RevokeDevice, HasSession, Valid
<1>2. devices[f] \in Device /\ devices \in [Fingerprints -> Device \cup {None}]
  BY <1>1 DEF AccessInv, AccessTypeOK
<1>3. \/ devices'[f] = [devices[f] EXCEPT !.live = FALSE]
      \/ devices'[f] = [devices[f] EXCEPT !.revoked = TRUE, !.session = None]
  BY <1>1, <1>2
<1>4. /\ devices'[f] \in Device /\ devices'[f] # None
      /\ devices'[f].session \in {devices[f].session, None}
      /\ devices'[f].scope = devices[f].scope
  BY <1>2, <1>3 DEF Device, SessionsOrNull
<1>5. /\ devices' \in [Fingerprints -> Device \cup {None}]
      /\ \A g \in Fingerprints \ {f} : devices'[g] = devices[g]
  BY <1>1, <1>2, <1>4
<1>6. AccessTypeOK'
  BY <1>1, <1>5 DEF AccessInv, AccessTypeOK, accounts
<1>7. AccountsFit'
  BY <1>1, SameAccounts DEF AccessInv
<1>8. ASSUME NEW g \in Fingerprints PROVE PairedOnce(g)'
  BY <1>1, <1>4, <1>5 DEF AccessInv, DevicesFit, PairedOnce
<1>9. ASSUME NEW g \in Fingerprints PROVE SessionFits(g)'
  <2>1. \A h \in Fingerprints : held'[h] = held[h] /\ None \notin held[h]
    BY <1>1 DEF AccessInv, AccessTypeOK
  <2> QED
    BY <1>1, <1>4, <1>5, <2>1 DEF AccessInv, DevicesFit, SessionFits
<1> QED
  BY <1>6, <1>7, <1>8, <1>9 DEF AccessInv, DevicesFit

-----------------------------------------------------------------------------
(* The theorems. *)

\* Without accounts, devices and sessions everything is in order.
LEMMA InitAccessInv == AccessInit => AccessInv
BY DEF AccessInit, AccessInv, AccessTypeOK, AccountsFit, DevicesFit, PairedOnce, SessionFits, PairingToken

\* The invariant is kept while all the state stays.
LEMMA QuietFits == AccessInv /\ UNCHANGED accessVars => AccessInv'
<1> SUFFICES ASSUME AccessInv, UNCHANGED accessVars PROVE AccessInv'
  OBVIOUS
<1>1. UNCHANGED accounts /\ UNCHANGED companions /\ UNCHANGED failures
  BY DEF accessVars, accounts, companions
<1>2. AccessTypeOK'
  BY <1>1 DEF AccessInv, AccessTypeOK, accounts, companions
<1> QED
  BY <1>1, <1>2, SameAccounts, SameDevices DEF AccessInv

\* The inductive invariant: the accounts that were answered, the one token behind every device and
\* the one holder of every session.
THEOREM AccessInvariance == AccessSpec => []AccessInv
<1>1. AccessInv /\ [AccessNext]_accessVars => AccessInv'
  BY QuietFits, RegisterFits, RegisteredFits, ServerStopsFits, TokenFits, ClaimFits, RefreshFits,
     SessionEndsFits DEF AccessNext
<1> QED
  BY <1>1, InitAccessInv, PTL DEF AccessSpec

\* Whoever was told that the registration went through can log in, with a workspace, for any
\* number of registrations that race for an email or a name.
THEOREM AnsweredCorrect == AccessSpec => []AnsweredIsIn
<1>1. AccessInv => AnsweredIsIn
  BY DEF AccessInv, AccountsFit, AnsweredIsIn, LogsIn, Me, AccessTypeOK
<1> QED
  BY <1>1, AccessInvariance, PTL

\* A session that is let in is known to its device and nobody else, with the scope of the one token
\* the device was paired with.
THEOREM SessionsCorrect == AccessSpec => []SessionsAreOwn
<1>1. AccessInv => SessionsAreOwn
  <2> SUFFICES ASSUME AccessInv, NEW f \in Fingerprints, HasSession(f)
               PROVE  /\ \A g \in Fingerprints \ {f} : devices[f].session \notin held[g]
                      /\ \E t \in Tokens : /\ {u \in Tokens : tokens[u].claimedBy = f} = {t}
                                           /\ devices[f].scope = tokens[t].scope
    BY DEF SessionsAreOwn
  <2>1. devices[f] # None
    BY DEF HasSession, Valid
  <2>2. PICK t \in Tokens : /\ tokens[t].claimedBy = f
                            /\ \A u \in Tokens : tokens[u].claimedBy = f => u = t
                            /\ devices[f].scope = tokens[t].scope
    BY <2>1 DEF AccessInv, DevicesFit, PairedOnce
  <2>3. {u \in Tokens : tokens[u].claimedBy = f} = {t}
    BY <2>2
  <2> QED
    BY <2>1, <2>2, <2>3 DEF AccessInv, DevicesFit, SessionFits
<1> QED
  BY <1>1, AccessInvariance, PTL

\* What keeps a device in over one step, the step by step form of StaysIn.
StaysInStep ==
  \A f \in Fingerprints : HasSession(f) =>
    \/ devices'[f].session = devices[f].session
    \/ ~devices'[f].live \/ devices'[f].revoked
    \/ devices'[f].session \in held'[f]
    \/ failures' # failures

\* Nobody else locks a device out: no step of another device, token or registration takes a
\* session away.
THEOREM NobodyIsLockedOut == AccessSpec => StaysIn
<1>1. AccessInv /\ [AccessNext]_accessVars => [StaysInStep]_accessVars
  <2> SUFFICES ASSUME AccessInv, AccessNext, NEW f \in Fingerprints, HasSession(f)
               PROVE  \/ devices'[f].session = devices[f].session
                      \/ ~devices'[f].live \/ devices'[f].revoked
                      \/ devices'[f].session \in held'[f]
                      \/ failures' # failures
    BY DEF StaysInStep
  <2>1. devices[f] # None /\ devices \in [Fingerprints -> Device \cup {None}]
    BY DEF HasSession, Valid, AccessInv, AccessTypeOK
  <2>2. CASE UNCHANGED devices
    BY <2>2
  <2>3. ASSUME NEW t \in Tokens, NEW g \in Fingerprints, ClaimPairingToken(t, g)
        PROVE  devices'[f].session = devices[f].session
    BY <2>1, <2>3 DEF ClaimPairingToken, Claims, CreateDeviceSession
  <2>4. ASSUME NEW e \in Fingerprints, NEW g \in Fingerprints, RefreshSession(e, g)
        PROVE  \/ devices'[f].session = devices[f].session
               \/ devices'[f].session \in held'[f]
               \/ failures' # failures
    <3>1. e = g /\ RefreshSession(g, g)
      BY <2>4, OnlyItsOwn
    <3> QED
      BY <3>1, RefreshEffect
  <2>5. ASSUME NEW g \in Fingerprints, SessionExpires(g) \/ RevokeDevice(g)
        PROVE  devices'[f].session = devices[f].session \/ devices'[f].revoked
    <3>1. devices[f] \in Device
      BY <2>1
    <3> QED
      BY <2>1, <2>5, <3>1 DEF SessionExpires, RevokeDevice, Device
  <2>6. ASSUME \/ \E g \in Forms : Register(g) \/ Registered(g)
               \/ ServerStops
               \/ \E t \in Tokens : CreatePairingToken(t) \/ TokenExpires(t)
        PROVE  UNCHANGED devices
    BY <2>6 DEF Register, Registered, ServerStops, CreatePairingToken, TokenExpires, companions
  <2> QED
    BY <2>2, <2>3, <2>4, <2>5, <2>6 DEF AccessNext
<1> QED
  BY <1>1, AccessInvariance, PTL DEF AccessSpec, StaysIn, StaysInStep
=============================================================================
