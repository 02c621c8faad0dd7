------------------------------ MODULE Settings ------------------------------
(***************************************************************************)
(* API keys and the chat model: the settings in the agent server's memory  *)
(* and in settings.json, the keys the model client uses, and the panel     *)
(* where the user changes them.                                            *)
(*                                                                         *)
(* A change is made in memory, then the file is written, then the client   *)
(* is told: a write that fails stops in between. The panel has one request *)
(* under way at a time, but may be closed and opened again over it.        *)
(***************************************************************************)
EXTENDS Naturals, FiniteSets

CONSTANTS
  CloudProviders, \* also stands for a model of each: a chosen model of provider p is p
  Keys,           \* keys that the user saves
  Local,          \* models of Ollama
  Envs,           \* what .env may say: the providers with a key, and whether it names the model
  EnvKey,         \* a key from .env
  Null,           \* no key, no choice, nothing shown
  MaxRequests,    \* bound of the model: requests under way
  MaxFaults       \* bound of the model: failures, restarts, and changes from elsewhere

Choices == CloudProviders \cup Local

ASSUME SettingsAssumption ==
  /\ CloudProviders \cap Local = {}
  /\ Null \notin Choices \cup Keys \cup {EnvKey} /\ EnvKey \notin Keys
  /\ Envs \subseteq [keys : SUBSET CloudProviders, model : BOOLEAN]
  /\ MaxRequests \in Nat \ {0} /\ MaxFaults \in Nat

VARIABLES
  env,       \* .env, which does not change
  data,      \* the settings in memory, SettingsStore.data
  file,      \* settings.json
  apiKeys,   \* the keys of the model client
  requests,  \* the panel's requests under way, those it left, and those of other tabs
  panel,     \* what the panel shows, Null until it is loaded
  open,      \* the panel is on screen
  behind,    \* the settings changed and no answer since then was shown; kept for the properties
  torn,      \* providers whose last change of a key was not saved whole; likewise
  faults

server == <<data, file, apiKeys, torn>>
screen == <<panel, open, behind>>
vars == <<env, data, file, apiKeys, requests, panel, open, behind, torn, faults>>

-----------------------------------------------------------------------------

SettingsFile == [keys : [CloudProviders -> Keys \cup {Null}], model : Choices \cup {Null}]

\* The chosen model, or where the model in use comes from if none is chosen, and where each
\* provider's key comes from.
Payload == [source : {"saved", "env", "auto"}, model : Choices \cup {Null},
            keys : [CloudProviders -> {"saved", "env", "none"}]]

Kinds == {"load", "save", "remove", "choose", "auto", "test"}

\* mine: the panel that sent it is still on screen. covers: the settings have not changed since.
Request == [id : 1 .. MaxRequests, kind : Kinds, provider : CloudProviders \cup {Null},
            key : Keys \cup {Null}, model : Choices \cup {Null}, mine : BOOLEAN,
            stage : {"sent", "asking", "done", "failed"},
            answer : Payload \cup {Null}, covers : BOOLEAN]

Fault == faults < MaxFaults /\ faults' = faults + 1

-----------------------------------------------------------------------------
(* What the settings mean. *)

envApiKey(p) == IF p \in env.keys THEN EnvKey ELSE Null

KeyOf(d, p) == IF d.keys[p] # Null THEN d.keys[p] ELSE envApiKey(p)

\* A key saved in the app wins over one in .env.
ClientKeys(d) == [p \in CloudProviders |-> KeyOf(d, p)]

settingsPayload(d) ==
  [source |-> IF d.model # Null THEN "saved" ELSE IF env.model THEN "env" ELSE "auto",
   model |-> d.model,
   keys |-> [p \in CloudProviders |-> IF d.keys[p] # Null THEN "saved"
                                      ELSE IF p \in env.keys THEN "env" ELSE "none"]]

isProviderReady(c) == c \in CloudProviders => apiKeys[c] # Null

Empty == [keys |-> [p \in CloudProviders |-> Null], model |-> Null]

Init ==
  /\ env \in Envs
  /\ data = Empty
  /\ file = Empty
  /\ apiKeys = ClientKeys(Empty)
  /\ requests = {}
  /\ panel = Null
  /\ open = FALSE
  /\ behind = FALSE
  /\ torn = [p \in CloudProviders |-> "no"]
  /\ faults = 0

-----------------------------------------------------------------------------
(* The panel. *)

Blank == [kind |-> "load", provider |-> Null, key |-> Null, model |-> Null]

Free == {i \in 1 .. MaxRequests : \A r \in requests : r.id # i}

Send(ask, mine) ==
  /\ Free # {}
  /\ requests' = requests \cup
       {[id |-> CHOOSE i \in Free : TRUE, kind |-> ask.kind, provider |-> ask.provider,
         key |-> ask.key, model |-> ask.model,
         mine |-> mine, stage |-> "sent", answer |-> Null, covers |-> FALSE]}

Open ==
  /\ ~open
  /\ open' = TRUE
  /\ panel' = Null
  /\ behind' = FALSE
  /\ Send(Blank, TRUE)
  /\ UNCHANGED <<server, env, faults>>

\* The server goes on with a change that was asked for; nobody takes its answer.
Close ==
  /\ open
  /\ open' = FALSE
  /\ panel' = Null
  /\ behind' = FALSE
  /\ requests' = {[r EXCEPT !.mine = FALSE] :
                 r \in {q \in requests : q.stage = "sent" /\ q.kind \notin {"load", "test"}}}
  /\ UNCHANGED <<server, env, faults>>

\* What is shown decides what can be asked for: a provider without a key cannot be picked, nor can
\* the model that is in use. Any model may be typed.
ModelButtons(shown) ==
  LET pickable == {c \in Choices : c \in CloudProviders => shown.keys[c] # "none"}
      inUse == IF shown.source = "saved" THEN {shown.model} ELSE {}
  IN  {[Blank EXCEPT !.kind = "choose", !.model = c] : c \in pickable \ inUse}
      \cup {[Blank EXCEPT !.kind = "test", !.model = c] : c \in pickable}
      \cup {[Blank EXCEPT !.kind = "auto"] : c \in inUse}

KeyButtons(shown) ==
  (UNION {{[Blank EXCEPT !.kind = "save", !.provider = p, !.key = k] : k \in Keys} : p \in CloudProviders})
  \cup {[Blank EXCEPT !.kind = "remove", !.provider = p] :
          p \in {q \in CloudProviders : shown.keys[q] = "saved"}}

Offered(shown) == ModelButtons(shown) \cup KeyButtons(shown)

Mine == {r \in requests : r.mine}
Busy == Mine # {}

Click ==
  /\ open /\ panel # Null /\ ~Busy
  /\ \E ask \in Offered(panel) : Send(ask, TRUE)
  /\ UNCHANGED <<server, screen, env, faults>>

\* Another tab, which may have been loaded before a change was made or undone.
Elsewhere ==
  /\ Fault
  /\ \E shown \in {settingsPayload(data), settingsPayload(file)} :
       \E ask \in Offered(shown) : ask.kind # "test" /\ Send(ask, FALSE)
  /\ UNCHANGED <<server, screen, env>>

TakenUnlessKey(r) == IF r.kind # "save" /\ r.stage = "done" /\ r.answer # Null THEN r.answer ELSE panel

\* A loaded panel shows the answer; a load that fails is shown as an error, with no settings.
Taken(r) == IF r.stage = "done" /\ r.answer # Null THEN r.answer ELSE panel

Arrive(r) ==
  /\ r \in requests /\ r.stage \in {"done", "failed"}
  /\ requests' = requests \ {r}
  /\ panel' = Taken(r)
  /\ behind' = IF r.stage = "done" /\ r.answer # Null THEN ~r.covers ELSE behind
  /\ UNCHANGED <<server, open, env, faults>>

-----------------------------------------------------------------------------
(* The server's handlers: each runs without a pause, but for a test. *)

\* The answer to r, if the panel that sent it is still there; an answer that is under way no longer
\* covers what was changed.
Reply(r, stage, d) ==
  /\ requests' = {[q EXCEPT !.covers = @ /\ d = data] : q \in requests \ {r}} \cup
       {[q EXCEPT !.stage = stage, !.covers = TRUE,
                  !.answer = IF stage = "done" THEN settingsPayload(d) ELSE Null] : q \in {r} \cap Mine}
  /\ behind' = (behind \/ (open /\ d # data))

\* Changes memory, then writes the file. A write may fail before or after the rename.
Saved(d) == data' = d /\ file' = d
NotSaved(d, before) == Fault /\ data' = d /\ file' \in {before, d}

setApiKey(r) ==
  LET d == [data EXCEPT !.keys[r.provider] = r.key]
  IN  /\ r \in requests /\ r.stage = "sent" /\ r.kind = "save"
      /\ \/ /\ Saved(d)
            /\ apiKeys' = [apiKeys EXCEPT ![r.provider] = r.key]
            /\ torn' = [torn EXCEPT ![r.provider] = "no"]
            /\ Reply(r, "done", d)
            /\ UNCHANGED faults
         \/ /\ NotSaved(d, file)
            /\ torn' = [torn EXCEPT ![r.provider] = "now"]
            /\ Reply(r, "failed", d)
            /\ UNCHANGED apiKeys
      /\ UNCHANGED <<env, panel, open>>

\* Without a key of its own the provider is back to the one in .env.
WithoutKey(d, p) == [d EXCEPT !.keys[p] = Null]
ClientEmptied(p) == [apiKeys EXCEPT ![p] = Null]
ClientWithout(p) == [apiKeys EXCEPT ![p] = envApiKey(p)]

\* A chosen model that has no key any more is given up.
Automatic(d, p) == IF d.model = p /\ envApiKey(p) = Null THEN [d EXCEPT !.model = Null] ELSE d

removeApiKey(r) ==
  LET p == r.provider
      d == WithoutKey(data, p)
      both == Automatic(d, p)
  IN  /\ r \in requests /\ r.stage = "sent" /\ r.kind = "remove"
      /\ \/ /\ Saved(both)
            /\ apiKeys' = ClientWithout(p)
            /\ torn' = [torn EXCEPT ![p] = "no"]
            /\ Reply(r, "done", both)
            /\ UNCHANGED faults
         \/ /\ NotSaved(d, file)
            /\ torn' = [torn EXCEPT ![p] = "now"]
            /\ Reply(r, "failed", d)
            /\ UNCHANGED apiKeys
         \/ /\ both # d
            /\ NotSaved(both, d)
            /\ apiKeys' = ClientWithout(p)
            /\ torn' = [torn EXCEPT ![p] = "now"]
            /\ Reply(r, "failed", both)
      /\ UNCHANGED <<env, panel, open>>

setModel(r) ==
  LET d == [data EXCEPT !.model = r.model]
  IN  /\ r \in requests /\ r.stage = "sent" /\ r.kind \in {"choose", "auto"}
      /\ r.kind = "choose" => isProviderReady(r.model)
      /\ \/ Saved(d) /\ Reply(r, "done", d) /\ UNCHANGED faults
         \/ NotSaved(d, file) /\ Reply(r, "failed", d)
      /\ UNCHANGED <<env, apiKeys, torn, panel, open>>

Loaded(r) ==
  /\ r \in requests /\ r.stage = "sent" /\ r.kind = "load"
  /\ Reply(r, "done", data)
  /\ UNCHANGED <<server, env, panel, open, faults>>

\* A test asks the model for one word, and answers with no settings.
Test(r) ==
  /\ r \in requests /\ r.kind = "test"
  /\ \/ /\ r.stage = "sent" /\ isProviderReady(r.model)
        /\ requests' = (requests \ {r}) \cup {[r EXCEPT !.stage = "asking"]}
     \/ /\ r.stage = "asking"
        /\ requests' = (requests \ {r}) \cup {[r EXCEPT !.stage = "done"]}
  /\ UNCHANGED <<server, screen, env, faults>>

\* The provider has no key, the key or the model's name is no good, or there were too many requests.
Refused(r) ==
  /\ r \in requests /\ r.stage = "sent" /\ r.kind # "load"
  /\ Reply(r, "failed", data)
  /\ UNCHANGED <<server, env, panel, open, faults>>

\* The connection is lost before or after the server did it: the panel is told that it failed.
Lose(r) ==
  /\ Fault
  /\ r \in Mine /\ r.stage \in {"sent", "asking", "done"}
  /\ requests' = (requests \ {r}) \cup {[r EXCEPT !.stage = "failed", !.answer = Null, !.covers = FALSE]}
  /\ UNCHANGED <<server, screen, env>>

\* What was not saved whole is read from the file from now on.
ReadAgain(saves) == [p \in CloudProviders |-> IF saves[p] = "no" THEN "no" ELSE "before"]

\* The server starts from the file f.
StartFrom(f) ==
  /\ data' = f
  /\ file' = f
  /\ apiKeys' = ClientKeys(f)
  /\ requests' = {IF r.stage \in {"sent", "asking"} THEN [r EXCEPT !.stage = "failed"]
                  ELSE [r EXCEPT !.covers = @ /\ f = data] : r \in Mine}
  /\ behind' = (behind \/ (open /\ f # data))
  /\ UNCHANGED <<env, panel, open>>

Restart ==
  /\ Fault
  /\ StartFrom(file)
  /\ torn' = ReadAgain(torn)

\* It stops between the two writes of a removal.
CutOff(r) ==
  LET d == WithoutKey(data, r.provider)
  IN  /\ Fault
      /\ r \in requests /\ r.stage = "sent" /\ r.kind = "remove"
      /\ Automatic(d, r.provider) # d
      /\ StartFrom(d)
      /\ torn' = ReadAgain([torn EXCEPT ![r.provider] = "now"])

Handle(r) ==
  \/ setApiKey(r) \/ removeApiKey(r) \/ setModel(r) \/ Loaded(r) \/ Test(r) \/ Refused(r)

Next ==
  \/ Open \/ Close \/ Click \/ Elsewhere \/ Restart
  \/ \E r \in requests : Handle(r) \/ Arrive(r) \/ Lose(r) \/ CutOff(r)

Spec == Init /\ [][Next]_vars

-----------------------------------------------------------------------------
(* Properties. *)

TypeOK ==
  /\ env \in Envs
  /\ {data, file} \subseteq SettingsFile
  /\ apiKeys \in [CloudProviders -> Keys \cup {EnvKey, Null}]
  /\ requests \subseteq Request /\ Cardinality(Mine) <= 1
  /\ panel \in Payload \cup {Null}
  /\ open \in BOOLEAN /\ behind \in BOOLEAN
  /\ torn \in [CloudProviders -> {"no", "now", "before"}]
  /\ faults \in 0 .. MaxFaults

\* The key that is sent to a provider is the one the app says is in use: the saved one, else the
\* one in .env. After a write that failed the two part until the next change or restart. And the
\* chosen model has a key, across changes from several tabs, failed writes of other settings and
\* restarts: "a chat model that now has no key would fail on the next message". Only a removal
\* whose writes failed, or were cut off between the two, can leave one without. Every variable
\* keeps its type.
KeyInUse ==
  /\ TypeOK
  /\ \A p \in CloudProviders :
       /\ torn[p] # "now" => apiKeys[p] = KeyOf(data, p)
       /\ torn[p] = "no" /\ data.model = p => isProviderReady(p)

\* What the panel shows is what the server holds, unless it changed behind the panel's back: in
\* another tab, by a request the panel was closed over, or by one that the panel was told failed.
PanelShowsServer ==
  open /\ panel # Null /\ ~behind => panel = settingsPayload(data)
=============================================================================
