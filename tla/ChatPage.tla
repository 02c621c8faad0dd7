------------------------------ MODULE ChatPage ------------------------------
(***************************************************************************)
(* The chat page of the web app in one browser tab: the chats of a         *)
(* workspace in the browser's store, the session that is mounted for one   *)
(* of them, its requests to the agent server, and decisions about commands *)
(* the agent asked for.                                                    *)
(*                                                                         *)
(* JavaScript runs one callback at a time. A handler, the renders and the  *)
(* effects it causes are one step; steps interleave at fetch and at the    *)
(* pieces of a reply. The useChat hook keeps messages, the loading flag    *)
(* and the error by the chat's id, also while no session shows the chat,   *)
(* and the handle that stops a request with the session that sent it.      *)
(***************************************************************************)
EXTENDS Naturals, Sequences, FiniteSets, SequencesExt

CONSTANTS
  MaxChats,  \* bound of the model: chats created
  MaxIds,    \* bound of the model: messages and replies
  MaxStored, \* messages of a chat that the store keeps
  MaxDecisions, \* bound of the model: decisions whose answer has not arrived
  MaxFaults, \* bound of the model: failures, and what happens in other tabs
  Agents,    \* agents of the workspace
  Null       \* no chat, the normal assistant

Chats == 1 .. MaxChats

ASSUME ChatPageAssumption ==
  /\ Null \notin Agents \cup Nat
  /\ MaxChats \in Nat /\ MaxIds \in Nat /\ MaxDecisions \in Nat /\ MaxFaults \in Nat
  /\ MaxStored \in Nat /\ MaxStored >= 2  \* 200 in the code

VARIABLES
  recent,    \* the store's chats, the one that was changed last first
  saved,     \* the store's messages of each chat
  lastSaved, \* what the mounted session last gave the store, or found in it
  agentOf,   \* the store's chatAgentIds
  created,   \* chats created so far: their ids are 1, 2, ...
  active,    \* the store's activeChatIds for the workspace
  view,      \* the chat whose session is mounted, Null on another page
  cache,     \* what useChat keeps for a chat
  requests,  \* requests to /api/chat in progress
  handle,    \* abortControllerRef of the mounted session, 0 when there is none
  card,      \* what the approval card under the last message has loaded
  decisions, \* decisions whose POST has not been answered
  actions,   \* the server's rows of commands that were asked for, by the asking message
  agents,    \* the server's agents
  list,      \* the agents as the session knows them
  ids,       \* messages and replies so far
  faults,
  picked,    \* the agent the user chose for each chat; kept for the properties
  said,      \* the user's messages in each chat; kept for the properties
  adrift     \* chats a decision was added to behind the session's back; kept for the properties

store == <<recent, saved, lastSaved, agentOf, created, active>>
session == <<view, handle, card, list>>
server == <<actions, agents>>
vars == <<recent, saved, lastSaved, agentOf, created, active, view, cache, requests, handle, card,
          decisions, actions, agents, list, ids, faults, picked, said, adrift>>

-----------------------------------------------------------------------------

Statuses == {"approved", "rejected"}

\* A message of the user, a decision sent for the user, or a reply: one that is being written, one
\* that is complete, or one that asks for an approval.
Message == [id : 1 .. MaxIds, role : {"user", "partial", "reply", "ask"} \cup Statuses,
            about : 0 .. MaxIds]

Said(id) == [id |-> id, role |-> "user", about |-> 0]
Decided(id, d) == [id |-> id, role |-> d.status, about |-> d.about]
Written(id, role) == [id |-> id, role |-> role, about |-> 0]

Cached == [known : BOOLEAN, messages : Seq(Message), loading : BOOLEAN, error : BOOLEAN]
NotCached == [known |-> FALSE, messages |-> <<>>, loading |-> FALSE, error |-> FALSE]

\* base: the messages it was sent with. The reply, with the request's id, is put behind them.
Request == [id : 1 .. MaxIds, chat : Chats, base : Seq(Message), agent : Agents \cup {Null},
            picked : Agents \cup {Null}]

\* base, agent: messages and agent of its session when that session went away.
Decision == [about : 1 .. MaxIds, chat : Chats, status : Statuses, arrived : {"no", "done", "refused"},
             mounted : BOOLEAN, base : Seq(Message), agent : Agents \cup {Null}]

Ids(messages) == {messages[i].id : i \in DOMAIN messages}

\* Everything the user sent has the role "user", decisions too.
IsUser(m) == m.role \in {"user"} \cup Statuses

Fault == faults < MaxFaults /\ faults' = faults + 1

Init ==
  /\ recent = <<>>
  /\ saved = [c \in Chats |-> <<>>]
  /\ lastSaved = <<>>
  /\ agentOf = [c \in Chats |-> Null]
  /\ created = 0
  /\ active = Null
  /\ view = Null
  /\ cache = [c \in Chats |-> NotCached]
  /\ requests = {}
  /\ handle = 0
  /\ card = "none"
  /\ decisions = {}
  /\ actions = [i \in 1 .. MaxIds |-> "none"]
  /\ agents = Agents
  /\ list = [status |-> "loading", agents |-> {}, loading |-> FALSE]
  /\ ids = 0
  /\ faults = 0
  /\ picked = [c \in Chats |-> Null]
  /\ said = [c \in Chats |-> {}]
  /\ adrift = {}

-----------------------------------------------------------------------------
(* The store: db-store.ts. Each operator gives the store after an operation of it. *)

Store == [recent |-> recent, saved |-> saved, lastSaved |-> lastSaved, agentOf |-> agentOf,
          created |-> created, active |-> active]

StoreIs(s) ==
  /\ recent' = s.recent
  /\ saved' = s.saved
  /\ lastSaved' = s.lastSaved
  /\ agentOf' = s.agentOf
  /\ created' = s.created
  /\ active' = s.active

\* A list of different chats without c.
Without(chats, c) ==
  IF Contains(chats, c) THEN RemoveAt(chats, CHOOSE i \in 1 .. Len(chats) : chats[i] = c) ELSE chats

createChat(s) == [s EXCEPT !.created = @ + 1, !.recent = <<s.created + 1>> \o @]

setActiveChat(s, c) == [s EXCEPT !.active = c]

\* Bug: the first messages are kept.
FirstMessages(messages) == IF Len(messages) <= MaxStored THEN messages ELSE SubSeq(messages, 1, MaxStored)

\* The last messages; older ones are dropped first.
toStoredMessages(messages) ==
  IF Len(messages) <= MaxStored THEN messages
  ELSE SubSeq(messages, Len(messages) - MaxStored + 1, Len(messages))

saveChatMessages(s, c, messages) ==
  IF Contains(s.recent, c)
  THEN [s EXCEPT !.saved[c] = toStoredMessages(messages), !.recent = <<c>> \o Without(@, c)]
  ELSE s

deleteChat(s, c) ==
  [s EXCEPT !.recent = Without(@, c), !.saved[c] = <<>>, !.agentOf[c] = Null,
            !.active = IF @ = c THEN Null ELSE @]

setChatAgent(s, c, g) == [s EXCEPT !.agentOf[c] = g]

pickActiveChat(s) ==
  IF Contains(s.recent, s.active) THEN s.active
  ELSE IF s.recent # <<>> THEN Head(s.recent) ELSE Null

\* The page makes a chat for a workspace that has none.
MayCreate(s) == s.recent # <<>> \/ s.created < MaxChats

EnsureChat(s) ==
  IF pickActiveChat(s) # Null THEN s
  ELSE LET t == createChat(s) IN setActiveChat(t, t.created)

-----------------------------------------------------------------------------
(* The session of a chat. *)

Shown(c) == IF cache[c].known THEN cache[c].messages ELSE saved[c]
Loading == view # Null /\ cache[view].loading

\* The list of agents belongs to the session and is loaded again by each.
LoadingAgain == [status |-> "loading", agents |-> {}, loading |-> TRUE]

AgentMissing(c, l) == agentOf[c] # Null /\ agentOf[c] \notin l.agents

agentGone(c, l) == agentOf[c] # Null /\ l.status = "ready" /\ agentOf[c] \notin l.agents

\* The card under the last message, when it asks for an approval, loads its command.
CardFor(messages) ==
  IF messages # <<>> /\ Last(messages).role = "ask" THEN "loading" ELSE "none"

Save(s, c, messages) == [saveChatMessages(s, c, messages) EXCEPT !.lastSaved = messages]

PersistFinished(s, c, messages, loading) ==
  IF loading \/ messages = s.lastSaved THEN s ELSE Save(s, c, messages)

\* The effect that saves what is shown: the user's message at once, a reply when it has finished.
Persist(s, c, messages, loading) ==
  IF (loading /\ messages # <<>> /\ ~IsUser(Last(messages))) \/ messages = s.lastSaved THEN s
  ELSE Save(s, c, messages)

KeepNothing(s, c, messages) == s

\* The clean-up of the session that is left.
KeepWhatArrived(s, c, messages) ==
  IF messages = <<>> \/ messages = s.lastSaved THEN s ELSE saveChatMessages(s, c, messages)

NothingStopped == requests

\* stop() of the mounted session: its request is aborted and useChat stops loading.
Unstopped == {r \in requests : r.id # handle}
StopLoading(h, c) == IF \E r \in requests : r.id = handle THEN [h EXCEPT ![c].loading = FALSE] ELSE h

\* Decisions on their way lose their session, which keeps the messages it had.
LoseSession ==
  {IF d.mounted THEN [d EXCEPT !.mounted = FALSE, !.base = Shown(view), !.agent = agentOf[view]]
                ELSE d : d \in decisions}

\* The session of view is left with the store s, and the session of the chat c is mounted, or none.
MountedIs(s, h, c) ==
  /\ view' = c
  /\ handle' = 0
  /\ list' = IF c = Null THEN [LoadingAgain EXCEPT !.loading = FALSE] ELSE LoadingAgain
  /\ IF c = Null
     THEN card' = "none" /\ StoreIs([s EXCEPT !.lastSaved = <<>>]) /\ cache' = h
     ELSE LET messages == IF h[c].known THEN h[c].messages ELSE s.saved[c]
          IN /\ card' = CardFor(messages)
             /\ StoreIs(Persist([s EXCEPT !.lastSaved = s.saved[c]], c, messages, h[c].loading))
             /\ cache' = [h EXCEPT ![c].known = TRUE, ![c].messages = messages]

Switch(s, c) ==
  LET t == IF view = Null THEN s ELSE KeepWhatArrived(s, view, Shown(view))
  IN /\ MountedIs(t, IF view = Null THEN cache ELSE StopLoading(cache, view), c)
     /\ requests' = IF view = Null THEN requests ELSE Unstopped
     /\ decisions' = IF view = Null THEN decisions ELSE LoseSession

-----------------------------------------------------------------------------
(* Opening, leaving and managing chats. *)

OpenPage ==
  /\ view = Null
  /\ MayCreate(Store)
  /\ LET s == EnsureChat(Store) IN Switch(s, pickActiveChat(s))
  /\ UNCHANGED <<server, ids, faults, picked, said, adrift>>

LeavePage ==
  /\ view # Null
  /\ Switch(Store, Null)
  /\ UNCHANGED <<server, ids, faults, picked, said, adrift>>

\* An empty chat is not left behind.
SwitchChat ==
  /\ view # Null
  /\ \E c \in Range(recent) \ {view} :
       LET s == setActiveChat(Store, c)
       IN Switch(IF Shown(view) = <<>> THEN deleteChat(s, view) ELSE s, c)
  /\ UNCHANGED <<server, ids, faults, picked, said, adrift>>

startNewChat ==
  /\ view # Null
  /\ Shown(view) # <<>>
  /\ created < MaxChats
  /\ LET s == createChat(Store) IN Switch(setActiveChat(s, s.created), s.created)
  /\ UNCHANGED <<server, ids, faults, picked, said, adrift>>

deleteCurrentChat ==
  /\ view # Null
  /\ MayCreate(deleteChat(Store, view))
  /\ LET s == EnsureChat(deleteChat(Store, view)) IN Switch(s, pickActiveChat(s))
  /\ picked' = [picked EXCEPT ![view] = Null]
  /\ said' = [said EXCEPT ![view] = {}]
  /\ UNCHANGED <<server, ids, faults, adrift>>

-----------------------------------------------------------------------------
(* Requests: triggerRequest of useChat, which every one of them goes through. *)

\* The request is sent with these messages, which are shown and saved if a session shows the chat.
triggerRequest(id, c, base, agent) ==
  /\ requests' = requests \cup {[id |-> id, chat |-> c, base |-> base, agent |-> agent,
                                 picked |-> picked[c]]}
  /\ cache' = [cache EXCEPT ![c] = [known |-> TRUE, messages |-> base, loading |-> TRUE,
                                    error |-> FALSE]]
  /\ StoreIs(IF view = c THEN Persist(Store, c, base, TRUE) ELSE Store)

FromSession(id, base) ==
  /\ triggerRequest(id, view, base, agentOf[view])
  /\ handle' = id
  /\ card' = "none"
  /\ UNCHANGED <<view, list>>

Send ==
  /\ view # Null
  /\ ~Loading
  /\ ids + 2 =< MaxIds
  /\ ids' = ids + 2
  /\ FromSession(ids + 2, Append(Shown(view), Said(ids + 1)))
  /\ said' = [said EXCEPT ![view] = @ \cup {ids + 1}]
  /\ UNCHANGED <<server, decisions, faults, picked, adrift>>

\* reload() of useChat sends again what came before the last reply.
WithoutReply(messages) == IF IsUser(Last(messages)) THEN messages ELSE Front(messages)

SendAgain ==
  /\ ids < MaxIds
  /\ ids' = ids + 1
  /\ FromSession(ids + 1, WithoutReply(Shown(view)))
  /\ UNCHANGED <<server, decisions, faults, picked, said, adrift>>

\* Not after an approval: that would replay the approval.
canRegenerate ==
  /\ ~Loading
  /\ \E i \in DOMAIN Shown(view) :
       /\ Shown(view)[i].role = "user"
       /\ \A j \in DOMAIN Shown(view) : j > i => ~IsUser(Shown(view)[j])

\* The button is under the last reply, when it is not an approval card.
Regenerate ==
  /\ view # Null
  /\ canRegenerate
  /\ Last(Shown(view)).role \in {"reply", "partial"}
  /\ SendAgain

Retry ==
  /\ view # Null
  /\ cache[view].error
  /\ Shown(view) # <<>>
  /\ SendAgain

Stop ==
  /\ Loading
  /\ handle # 0
  /\ requests' = Unstopped
  /\ handle' = 0
  /\ LET h == StopLoading(cache, view)
     IN /\ cache' = h
        /\ StoreIs(Persist(Store, view, Shown(view), h[view].loading))
  /\ UNCHANGED <<view, card, list, decisions, server, ids, faults, picked, said, adrift>>

\* What has arrived of a reply replaces what is behind the request's messages.
Arrives(r, m) == Append(r.base, m)

ReplyPiece ==
  /\ \E r \in requests :
       /\ r.agent \in agents \cup {Null}
       /\ LET messages == Arrives(r, Written(r.id, "partial"))
          IN /\ cache[r.chat].messages # messages
             /\ cache' = [cache EXCEPT ![r.chat].messages = messages]
             /\ card' = IF view = r.chat THEN "none" ELSE card
             /\ StoreIs(IF view = r.chat
                        THEN Persist(Store, view, messages, cache[view].loading) ELSE Store)
  /\ UNCHANGED <<requests, view, handle, list, decisions, server, ids, faults, picked, said, adrift>>

\* The reply ends, or asks for an approval, which the server has recorded before.
ReplyEnds ==
  /\ \E r \in requests, role \in {"reply", "ask"} :
       /\ r.agent \in agents \cup {Null}
       /\ LET messages == Arrives(r, Written(r.id, role))
          IN /\ requests' = requests \ {r}
             /\ cache' = [cache EXCEPT ![r.chat].messages = messages, ![r.chat].loading = FALSE]
             /\ card' = IF view = r.chat THEN CardFor(messages) ELSE card
             /\ handle' = IF handle = r.id THEN 0 ELSE handle
             /\ StoreIs(IF view = r.chat THEN Persist(Store, view, messages, FALSE) ELSE Store)
       /\ actions' = [actions EXCEPT ![r.id] = IF role = "ask" THEN "pending" ELSE @]
  /\ UNCHANGED <<view, list, decisions, agents, ids, faults, picked, said, adrift>>

\* The list of agents is loaded again when the server does not know the agent.
ReplyFails ==
  /\ \E r \in requests :
       LET unknown == r.agent \notin agents \cup {Null}
           h == [cache EXCEPT ![r.chat].loading = FALSE, ![r.chat].error = TRUE]
       IN /\ IF unknown THEN UNCHANGED faults ELSE Fault
          /\ requests' = requests \ {r}
          /\ cache' = h
          /\ handle' = IF handle = r.id THEN 0 ELSE handle
          /\ list' = IF unknown /\ view = r.chat THEN [list EXCEPT !.loading = TRUE] ELSE list
          /\ StoreIs(IF view = r.chat THEN Persist(Store, view, h[view].messages, FALSE) ELSE Store)
  /\ UNCHANGED <<view, card, decisions, server, ids, picked, said, adrift>>

-----------------------------------------------------------------------------
(* Who answers: agent-picker.tsx. *)

\* null goes back to the normal assistant.
ChooseAgent ==
  /\ view # Null
  /\ ~Loading
  /\ \E g \in list.agents \cup {Null} :
       /\ g # agentOf[view]
       /\ StoreIs(setChatAgent(Store, view, g))
       /\ picked' = [picked EXCEPT ![view] = g]
  /\ UNCHANGED <<session, cache, requests, decisions, server, ids, faults, said, adrift>>

\* A chosen agent that a loaded list lacks is dropped.
ListIs(l) ==
  /\ list' = l
  /\ StoreIs(IF agentGone(view, l) THEN setChatAgent(Store, view, Null) ELSE Store)
  /\ UNCHANGED <<view, handle, card, cache, requests, decisions, server, ids, picked, said, adrift>>

ListArrives ==
  /\ list.loading
  /\ ListIs([status |-> "ready", agents |-> agents, loading |-> FALSE])
  /\ UNCHANGED faults

ListFails ==
  /\ list.loading
  /\ Fault
  /\ ListIs([status |-> "failed", agents |-> {}, loading |-> FALSE])

TryAgain ==
  /\ view # Null
  /\ list.status = "failed" /\ ~list.loading
  /\ ListIs(LoadingAgain)
  /\ UNCHANGED faults

\* On the page of agents, or in another tab.
DeleteAgent ==
  /\ Fault
  /\ \E g \in agents : agents' = agents \ {g}
  /\ UNCHANGED <<store, session, cache, requests, decisions, actions, ids, picked, said, adrift>>

-----------------------------------------------------------------------------
(* Approvals: approval-card.tsx and resolveAction. *)

Asking == Last(Shown(view)).id

CardLoads ==
  /\ card = "loading"
  /\ \/ card' = (IF actions[Asking] = "pending" THEN "pending" ELSE "gone") /\ UNCHANGED faults
     \/ card' = "error" /\ Fault
  /\ UNCHANGED <<store, view, handle, list, cache, requests, decisions, server, ids, picked, said,
                 adrift>>

canDecide ==
  /\ card = "pending"
  /\ ~Loading
  /\ \A d \in decisions : ~(d.mounted /\ d.about = Asking)

Decide ==
  /\ canDecide
  /\ Cardinality(decisions) < MaxDecisions
  /\ \E status \in Statuses :
       decisions' = decisions \cup
         {[about |-> Asking, chat |-> view, status |-> status, arrived |-> "no", mounted |-> TRUE,
           base |-> <<>>, agent |-> Null]}
  /\ UNCHANGED <<store, session, cache, requests, server, ids, faults, picked, said, adrift>>

\* The server decides a pending command once.
DecisionArrives ==
  /\ \E d \in decisions :
       /\ d.arrived = "no"
       /\ LET pending == actions[d.about] = "pending"
          IN /\ decisions' = (decisions \ {d}) \cup
                             {[d EXCEPT !.arrived = IF pending THEN "done" ELSE "refused"]}
             /\ actions' = IF pending THEN [actions EXCEPT ![d.about] = d.status] ELSE actions
  /\ UNCHANGED <<store, session, cache, requests, agents, ids, faults, picked, said, adrift>>

\* The task page, or another tab.
DecideElsewhere ==
  /\ Fault
  /\ \E i \in 1 .. MaxIds, status \in Statuses :
       /\ actions[i] = "pending"
       /\ actions' = [actions EXCEPT ![i] = status]
  /\ UNCHANGED <<store, session, cache, requests, decisions, agents, ids, picked, said, adrift>>

Answered(d) == d.arrived # "no"

\* The route answered 200: the server recorded this decision.
Accepted(d) == d.arrived = "done"

\* The decision is sent on, from the session that asked, even if that has gone.
resolveAction ==
  \E d \in decisions :
    /\ Accepted(d)
    /\ ids + 2 =< MaxIds
    /\ ids' = ids + 2
    /\ decisions' = decisions \ {d}
    /\ LET m == Decided(ids + 1, d)
       IN IF d.mounted
          THEN FromSession(ids + 2, Append(Shown(view), m))
          ELSE /\ triggerRequest(ids + 2, d.chat, Append(d.base, m), d.agent)
               /\ card' = IF view = d.chat THEN "none" ELSE card
               /\ UNCHANGED <<view, handle, list>>
    /\ adrift' = IF d.mounted /\ ~Loading THEN adrift ELSE adrift \cup {d.chat}
    /\ UNCHANGED <<server, faults, picked, said>>

\* Refused, or no answer at all: nothing is sent on, and a notice is shown.
DecisionFails ==
  /\ \E d \in decisions :
       /\ (d.arrived = "refused" /\ UNCHANGED faults) \/ Fault
       /\ decisions' = decisions \ {d}
  /\ UNCHANGED <<store, session, cache, requests, server, ids, picked, said, adrift>>

\* The tab is loaded again: only the store is left.
Reload ==
  /\ Fault
  /\ view' = Null
  /\ handle' = 0
  /\ card' = "none"
  /\ list' = [LoadingAgain EXCEPT !.loading = FALSE]
  /\ cache' = [c \in Chats |-> NotCached]
  /\ requests' = {}
  /\ decisions' = {}
  /\ lastSaved' = <<>>
  /\ UNCHANGED <<recent, saved, agentOf, created, active, server, ids, picked, said, adrift>>

Manage == OpenPage \/ LeavePage \/ SwitchChat \/ startNewChat \/ deleteCurrentChat
Ask == Send \/ Regenerate \/ Retry \/ Stop
Answer == ReplyPiece \/ ReplyEnds \/ ReplyFails
Choose == ChooseAgent \/ ListArrives \/ ListFails \/ TryAgain \/ DeleteAgent
Approve ==
  CardLoads \/ Decide \/ DecisionArrives \/ DecideElsewhere \/ resolveAction \/ DecisionFails

Next == Manage \/ Ask \/ Answer \/ Choose \/ Approve \/ Reload

Spec == Init /\ [][Next]_vars

-----------------------------------------------------------------------------
(* Properties *)

\* Every variable has its type.
TypeOK ==
  /\ created \in 0 .. MaxChats
  /\ Range(recent) \subseteq 1 .. created /\ IsInjective(recent)
  /\ \A c \in Chats : Range(saved[c]) \subseteq Message
  /\ Range(lastSaved) \subseteq Message
  /\ agentOf \in [Chats -> Agents \cup {Null}]
  /\ active \in Chats \cup {Null}
  /\ view \in Range(recent) \cup {Null}
  /\ cache \in [Chats -> Cached]
  /\ requests \subseteq Request /\ \A r \in requests : r.id \in 1 .. ids
  /\ handle \in 0 .. ids
  /\ card \in {"none", "loading", "pending", "gone", "error"}
  /\ card # "none" => view # Null /\ Last(Shown(view)).role = "ask"
  /\ decisions \subseteq Decision
  /\ \A d \in decisions : d.about \in 1 .. ids /\ (d.mounted => d.chat = view)
  /\ actions \in [1 .. MaxIds -> {"none", "pending"} \cup Statuses]
  /\ agents \subseteq Agents /\ list.agents \subseteq Agents
  /\ ids \in 0 .. MaxIds /\ faults \in 0 .. MaxFaults
  /\ adrift \subseteq Chats

\* Whatever the user does, the last messages a chat shows, as many as the store keeps, are what is
\* stored as soon as no reply is being written in front of the user: closing the tab loses none of
\* them, and a chat that was left part-way keeps what had arrived. Every variable keeps its type.
InStep ==
  /\ TypeOK
  /\ \A c \in Range(recent) \ adrift :
       cache[c].known /\ ~(c = view /\ cache[c].loading) =>
         saved[c] = toStoredMessages(cache[c].messages)

\* What the user wrote stays in the chat from the moment it is sent, whatever fails, is sent again,
\* stopped, left or loaded again afterwards. Older messages are dropped first, and only when the store
\* has as many as it keeps, or one less while the last reply is asked for again. And a chat that was
\* deleted leaves nothing behind: no late reply, and no session that saves on its way out, brings
\* messages of it back.
UserWordsAreKept ==
  /\ \A c \in Range(recent) \ adrift : \A i \in said[c] \ Ids(saved[c]) :
       /\ Len(saved[c]) >= MaxStored - 1
       /\ \A k \in Ids(saved[c]) : i < k
  /\ \A c \in Chats \ Range(recent) : saved[c] = <<>> /\ agentOf[c] = Null

\* A chat says that a command was approved or denied only if the server recorded just that: not when
\* the decision was refused, lost, or taken elsewhere first.
DecisionsAreTrue ==
  \A c \in Chats : \A m \in Range(saved[c]) \cup Range(cache[c].messages) :
    m.role \in Statuses => actions[m.about] = m.role

\* As long as the agent the user chose for a chat exists, the chat is answered by it: a list of agents
\* that is loading or could not be loaded never turns it into the normal assistant, which has more
\* tools.
AgentIsThePick ==
  /\ \A c \in Range(recent) : picked[c] \in agents => agentOf[c] = picked[c]
  /\ \A r \in requests : r.chat \notin adrift /\ r.picked \in agents => r.agent = r.picked

\* A request that no decision was added behind is the only one of its chat, its chat says that a reply
\* is being written, and the session on the screen is able to stop it.
OneReplyAtATime ==
  \A r \in requests :
    r.chat \notin adrift =>
      /\ cache[r.chat].loading
      /\ view = r.chat /\ handle = r.id
      /\ \A q \in requests : q.chat = r.chat => q = r

=============================================================================
