--------------------------- MODULE ChatPageProofs ---------------------------
(* Proofs about ChatPage. *)
EXTENDS ChatPage, SequenceTheorems, TLAPS

-----------------------------------------------------------------------------
(* The inductive invariant. *)

\* The list of agents as a session has it.
AgentLists == [status : {"loading", "ready", "failed"}, agents : SUBSET Agents, loading : BOOLEAN]

\* Every variable has its type; the chats the store has are different ones, the session on the screen
\* is one of them.
Typed ==
  /\ recent \in Seq(1 .. created) /\ IsInjective(recent)
  /\ saved \in [Chats -> Seq(Message)]
  /\ lastSaved \in Seq(Message)
  /\ agentOf \in [Chats -> Agents \cup {Null}]
  /\ created \in 0 .. MaxChats
  /\ active \in Chats \cup {Null}
  /\ view \in Range(recent) \cup {Null}
  /\ cache \in [Chats -> Cached]
  /\ requests \subseteq Request
  /\ handle \in 0 .. ids
  /\ card \in {"none", "loading", "pending", "gone", "error"}
  /\ decisions \subseteq Decision
  /\ actions \in [1 .. MaxIds -> {"none", "pending"} \cup Statuses]
  /\ agents \subseteq Agents
  /\ list \in AgentLists
  /\ ids \in 0 .. MaxIds
  /\ faults \in 0 .. MaxFaults
  /\ picked \in [Chats -> Agents \cup {Null}]
  /\ said \in [Chats -> SUBSET (1 .. ids)]
  /\ adrift \subseteq Chats

\* A message of chat c: a decision it tells of is the server's, and an id of something the user
\* wrote is that of a message of the user.
MessageFits(m, c) ==
  /\ m \in Message /\ m.id \in 1 .. ids
  /\ m.role \in Statuses => m.about \in 1 .. MaxIds /\ actions[m.about] = m.role
  /\ m.id \in said[c] => IsUser(m)

\* Messages are in the order of their ids, and what is not the user's answers something of the user:
\* without the reply at the end something of the user is there to be sent again.
InOrder(s) ==
  /\ s \in Seq(Message)
  /\ \A i, j \in 1 .. Len(s) : i < j => s[i].id < s[j].id
  /\ \A i \in 1 .. Len(s) - 1 : IsUser(s[i]) \/ IsUser(s[i + 1])
  /\ Len(s) = 1 => IsUser(s[1])

MessagesFit(s, c) == InOrder(s) /\ \A i \in 1 .. Len(s) : MessageFits(s[i], c)

\* The words that messages lack are older than what there is, and that is as much as the store keeps,
\* or that without the reply at the end.
Keeps(s, words) ==
  \A i \in words \ Ids(s) :
    /\ Len(s) >= MaxStored - 1
    /\ Len(s) = MaxStored - 1 => IsUser(Last(s))
    /\ \A k \in Ids(s) : i < k

\* Nothing that the user wrote in chat c is missing before its time.
HasWords(s, c) == Keeps(s, said[c])

\* The id of a reply that is being written is nobody else's, and follows the messages it was sent
\* with, of which the last is the user's. A chat that is not adrift has one request at most, which
\* the session on the screen can stop.
RequestFits(r) ==
  /\ r.id \in 1 .. ids /\ actions[r.id] = "none" /\ \A c \in Chats : r.id \notin said[c]
  /\ MessagesFit(r.base, r.chat) /\ r.base # <<>>
  /\ IsUser(Last(r.base)) /\ \A k \in Ids(r.base) : k < r.id
  /\ cache[r.chat].known
  /\ r.chat \notin adrift =>
       /\ HasWords(r.base, r.chat)
       /\ r.picked \in agents => r.agent = r.picked
       /\ cache[r.chat].loading /\ view = r.chat /\ handle = r.id

RequestsFit ==
  /\ \A r \in requests : RequestFits(r)
  /\ \A q, r \in requests : q.id = r.id => q = r

DecisionFits(d) ==
  /\ d.about \in 1 .. ids
  /\ d.mounted => d.chat = view
  /\ Accepted(d) => actions[d.about] = d.status
  /\ MessagesFit(d.base, d.chat)
  /\ cache[d.chat].known

\* The card belongs to the last message that is shown, the list of agents to a session, and what the
\* session last gave the store is there.
SessionFits ==
  /\ card # "none" => view # Null /\ Shown(view) # <<>> /\ Last(Shown(view)).role = "ask"
  /\ list.loading => view # Null
  /\ view # Null => saved[view] = toStoredMessages(lastSaved)

\* What the store and useChat hold of chat c. The chat's session is mounted, or not.
ChatIs(c, shown, stored, cached, agent, isRecent, count) ==
  /\ MessagesFit(stored, c) /\ MessagesFit(cached.messages, c) /\ Len(stored) <= MaxStored
  /\ ~cached.known => cached = NotCached
  /\ cached.loading => cached.messages # <<>>
  /\ shown => cached.known
  /\ c > count => ~cached.known /\ said[c] = {} /\ picked[c] = Null
  /\ ~isRecent => stored = <<>> /\ agent = Null
  /\ isRecent /\ picked[c] \in agents => agent = picked[c]
  /\ c \notin adrift =>
       /\ cached.known => HasWords(cached.messages, c)
       /\ cached.error => ~cached.loading
       /\ isRecent => HasWords(stored, c)
       /\ isRecent /\ cached.known /\ ~(shown /\ cached.loading) =>
            stored = toStoredMessages(cached.messages)

ChatFits(c) == ChatIs(c, c = view, saved[c], cache[c], agentOf[c], c \in Range(recent), created)

\* Nothing was asked for by a message that does not exist.
Fresh == \A i \in 1 .. MaxIds : i > ids => actions[i] = "none"

\* The invariant.
IInv ==
  /\ Typed /\ Fresh /\ SessionFits /\ RequestsFit
  /\ \A c \in Chats : ChatFits(c)
  /\ \A d \in decisions : DecisionFits(d)

-----------------------------------------------------------------------------
(* Sequences. *)

\* A message at the end.
LEMMA AppendIs ==
  ASSUME NEW S, NEW s \in Seq(S), NEW m \in S
  PROVE  /\ Append(s, m) \in Seq(S) /\ Append(s, m) # <<>> /\ Last(Append(s, m)) = m
         /\ Len(Append(s, m)) = Len(s) + 1
         /\ \A i \in 1 .. Len(s) : Append(s, m)[i] = s[i]
         /\ Append(s, m)[Len(s) + 1] = m
BY AppendProperties DEF Last

\* The ids of messages, and with one at the end.
LEMMA IdsIs ==
  ASSUME NEW s \in Seq(Message)
  PROVE  Ids(s) = {s[i].id : i \in 1 .. Len(s)} /\ DOMAIN s = 1 .. Len(s) /\ Len(s) \in Nat
BY LenProperties DEF Ids

LEMMA IdsOfAppend ==
  ASSUME NEW s \in Seq(Message), NEW m \in Message
  PROVE  Ids(Append(s, m)) = Ids(s) \cup {m.id}
<1>1. PICK t : t = Append(s, m)
  OBVIOUS
<1>2. /\ t \in Seq(Message) /\ Len(t) = Len(s) + 1 /\ t[Len(s) + 1] = m
      /\ \A i \in 1 .. Len(s) : t[i] = s[i]
  BY <1>1, AppendIs
<1>3. /\ Ids(s) = {s[i].id : i \in 1 .. Len(s)} /\ Ids(t) = {t[i].id : i \in 1 .. Len(t)}
      /\ Len(s) \in Nat
  BY <1>2, IdsIs
<1>4. \A i \in 1 .. Len(s) : t[i].id \in Ids(s) /\ s[i].id \in Ids(t)
  BY <1>2, <1>3
<1>5. m.id \in Ids(t) /\ \A i \in 1 .. Len(t) : i \in 1 .. Len(s) \/ i = Len(s) + 1
  BY <1>2, <1>3
<1> QED
  BY <1>1, <1>2, <1>3, <1>4, <1>5

\* Without the reply at the end.
LEMMA FrontIs ==
  ASSUME NEW S, NEW s \in Seq(S), s # <<>>
  PROVE  /\ Front(s) \in Seq(S) /\ Len(Front(s)) = Len(s) - 1
         /\ \A i \in 1 .. Len(s) - 1 : Front(s)[i] = s[i]
         /\ Len(s) \in Nat \ {0}
<1>1. Len(s) \in Nat \ {0}
  BY EmptySeq, LenProperties
<1>2. PICK n \in Nat : n = Len(s) - 1
  BY <1>1
<1>3. \A i \in 1 .. n : s[i] \in S
  BY <1>1, <1>2, ElementOfSeq
<1>4. /\ SubSeq(s, 1, n) \in Seq(S)
      /\ Len(SubSeq(s, 1, n)) = IF 1 <= n THEN n - 1 + 1 ELSE 0
      /\ \A i \in 1 .. n - 1 + 1 : SubSeq(s, 1, n)[i] = s[1 + i - 1]
  BY <1>3, SubSeqProperties, 1 \in Int, n \in Int
<1>5. Len(SubSeq(s, 1, n)) = n /\ \A i \in 1 .. n : SubSeq(s, 1, n)[i] = s[i]
  BY <1>4
<1> QED
  BY <1>1, <1>2, <1>4, <1>5 DEF Front

\* The list of chats without one of them.
LEMMA WithoutIs ==
  ASSUME NEW S, NEW s \in Seq(S), NEW c, IsInjective(s)
  PROVE  /\ Without(s, c) \in Seq(S) /\ IsInjective(Without(s, c))
         /\ Range(Without(s, c)) = Range(s) \ {c}
<1>1. DOMAIN s = 1 .. Len(s) /\ Len(s) \in Nat
  BY LenProperties
<1>2. CASE ~Contains(s, c)
  BY <1>1, <1>2 DEF Without, Contains, Range
<1>3. CASE Contains(s, c)
  <2>1. PICK i \in 1 .. Len(s) : i = CHOOSE j \in 1 .. Len(s) : s[j] = c
    BY <1>3 DEF Contains
  <2>2. s[i] = c
    BY <1>3, <2>1 DEF Contains
  <2>3. PICK a : a = SubSeq(s, 1, i - 1)
    OBVIOUS
  <2>4. PICK b : b = SubSeq(s, i + 1, Len(s))
    OBVIOUS
  <2>5. Without(s, c) = a \o b
    BY <1>3, <2>1, <2>3, <2>4 DEF Without, RemoveAt
  <2>6. /\ a \in Seq(S) /\ Len(a) = i - 1 /\ \A j \in 1 .. i - 1 : a[j] = s[j]
    <3>1. i - 1 \in Int /\ \A j \in 1 .. i - 1 : s[j] \in S
      BY <1>1, ElementOfSeq
    <3>2. /\ SubSeq(s, 1, i - 1) \in Seq(S)
          /\ Len(SubSeq(s, 1, i - 1)) = IF 1 <= i - 1 THEN i - 1 - 1 + 1 ELSE 0
          /\ \A j \in 1 .. i - 1 - 1 + 1 : SubSeq(s, 1, i - 1)[j] = s[1 + j - 1]
      BY <3>1, SubSeqProperties, 1 \in Int
    <3> QED
      BY <1>1, <2>3, <3>2
  <2>7. /\ b \in Seq(S) /\ Len(b) = Len(s) - i /\ \A j \in 1 .. Len(s) - i : b[j] = s[j + i]
    <3>1. i + 1 \in Int /\ Len(s) \in Int /\ \A j \in i + 1 .. Len(s) : s[j] \in S
      BY <1>1, ElementOfSeq
    <3>2. /\ SubSeq(s, i + 1, Len(s)) \in Seq(S)
          /\ Len(SubSeq(s, i + 1, Len(s))) = IF i + 1 <= Len(s) THEN Len(s) - (i + 1) + 1 ELSE 0
          /\ \A j \in 1 .. Len(s) - (i + 1) + 1 : SubSeq(s, i + 1, Len(s))[j] = s[(i + 1) + j - 1]
      BY <3>1, SubSeqProperties
    <3>3. \A j \in 1 .. Len(s) - i : (i + 1) + j - 1 = j + i /\ j \in 1 .. Len(s) - (i + 1) + 1
      BY <1>1
    <3>4. Len(b) = Len(s) - i
      <4>1. CASE i + 1 <= Len(s)
        BY <1>1, <2>1, <2>4, <3>2, <4>1
      <4>2. CASE ~(i + 1 <= Len(s))
        BY <1>1, <2>1, <2>4, <3>2, <4>2
      <4> QED
        BY <4>1, <4>2
    <3>5. ASSUME NEW j \in 1 .. Len(s) - i
          PROVE  b[j] = s[j + i]
      BY <2>4, <3>2, <3>3
    <3> QED
      BY <2>4, <3>2, <3>4, <3>5
  <2>8. PICK w : w = a \o b
    OBVIOUS
  <2>9. /\ w \in Seq(S) /\ Len(w) = Len(s) - 1
        /\ \A j \in 1 .. i - 1 : w[j] = s[j]
        /\ \A j \in i .. Len(s) - 1 : w[j] = s[j + 1]
    <3>1. /\ w \in Seq(S) /\ Len(w) = Len(a) + Len(b)
          /\ \A j \in 1 .. Len(a) + Len(b) : w[j] = IF j <= Len(a) THEN a[j] ELSE b[j - Len(a)]
      BY <2>6, <2>7, <2>8, ConcatProperties
    <3>2. Len(a) + Len(b) = Len(s) - 1
      BY <1>1, <2>6, <2>7
    <3>3. ASSUME NEW j \in 1 .. i - 1
          PROVE  w[j] = s[j]
      <4>1. j \in 1 .. Len(a) + Len(b) /\ j <= Len(a)
        BY <1>1, <2>6, <2>7
      <4> QED
        BY <2>6, <3>1, <4>1
    <3>4. ASSUME NEW j \in i .. Len(s) - 1
          PROVE  w[j] = s[j + 1]
      <4>1. /\ j \in 1 .. Len(a) + Len(b) /\ ~(j <= Len(a))
            /\ j - Len(a) = j - i + 1 /\ j - i + 1 \in 1 .. Len(s) - i /\ (j - i + 1) + i = j + 1
        BY <1>1, <2>6, <2>7
      <4>2. w[j] = b[j - i + 1]
        BY <3>1, <4>1
      <4> QED
        BY <2>7, <4>1, <4>2
    <3> QED
      BY <3>1, <3>2, <3>3, <3>4
  <2>10. DOMAIN w = 1 .. Len(s) - 1
    BY <2>9, LenProperties
  <2>11. IsInjective(w)
    <3> SUFFICES ASSUME NEW j \in 1 .. Len(s) - 1, NEW k \in 1 .. Len(s) - 1, w[j] = w[k]
                 PROVE  j = k
      BY <2>10 DEF IsInjective
    <3>1. PICK p \in 1 .. Len(s) : w[j] = s[p] /\ p = IF j < i THEN j ELSE j + 1
      BY <1>1, <2>9
    <3>2. PICK q \in 1 .. Len(s) : w[k] = s[q] /\ q = IF k < i THEN k ELSE k + 1
      BY <1>1, <2>9
    <3>3. p = q
      BY <1>1, <3>1, <3>2 DEF IsInjective
    <3> QED
      BY <3>1, <3>2, <3>3
  <2>12. \A j \in 1 .. Len(s) - 1 : w[j] \in Range(s) \ {c}
    <3> SUFFICES ASSUME NEW j \in 1 .. Len(s) - 1
                 PROVE  w[j] \in Range(s) \ {c}
      OBVIOUS
    <3>1. PICK p \in 1 .. Len(s) : w[j] = s[p] /\ p # i
      BY <1>1, <2>9
    <3> QED
      BY <1>1, <2>2, <3>1 DEF IsInjective, Range
  <2>13. ASSUME NEW p \in 1 .. Len(s), s[p] # c
         PROVE  \E j \in 1 .. Len(s) - 1 : w[j] = s[p]
    <3>1. CASE p < i
      <4>1. p \in 1 .. i - 1 /\ p \in 1 .. Len(s) - 1
        BY <1>1, <3>1
      <4> QED
        BY <2>9, <4>1
    <3>2. CASE p > i
      <4>1. PICK k : k = p - 1
        OBVIOUS
      <4>2. k \in i .. Len(s) - 1 /\ k \in 1 .. Len(s) - 1 /\ k + 1 = p
        BY <1>1, <3>2, <4>1
      <4> QED
        BY <2>9, <4>2
    <3>3. p # i
      BY <2>2, <2>13
    <3> QED
      BY <1>1, <3>1, <3>2, <3>3
  <2>14. Range(w) = Range(s) \ {c}
    <3>1. Range(w) = {w[j] : j \in 1 .. Len(s) - 1} /\ Range(s) = {s[j] : j \in 1 .. Len(s)}
      BY <1>1, <2>10 DEF Range
    <3>2. Range(w) \subseteq Range(s) \ {c}
      BY <2>12, <3>1
    <3>3. ASSUME NEW x \in Range(s), x # c
          PROVE  x \in Range(w)
      <4>1. PICK p \in 1 .. Len(s) : s[p] = x
        BY <3>1
      <4> QED
        BY <2>13, <3>1, <3>3, <4>1
    <3> QED
      BY <3>2, <3>3
  <2> QED
    BY <2>5, <2>8, <2>9, <2>11, <2>14
<1> QED
  BY <1>2, <1>3

\* A chat that is put first.
LEMMA FirstIs ==
  ASSUME NEW S, NEW s \in Seq(S), NEW c \in S, IsInjective(s), c \notin Range(s)
  PROVE  /\ <<c>> \o s \in Seq(S) /\ IsInjective(<<c>> \o s)
         /\ Range(<<c>> \o s) = Range(s) \cup {c}
<1>1. PICK w : w = <<c>> \o s
  OBVIOUS
<1>2. DOMAIN s = 1 .. Len(s) /\ Len(s) \in Nat
  BY LenProperties
<1>3. <<c>> \in Seq(S) /\ Len(<<c>>) = 1 /\ <<c>>[1] = c
  OBVIOUS
<1>4. /\ w \in Seq(S) /\ Len(w) = Len(s) + 1 /\ w[1] = c
      /\ \A i \in 2 .. Len(s) + 1 : w[i] = s[i - 1]
  BY <1>1, <1>2, <1>3, ConcatProperties
<1>5. DOMAIN w = 1 .. Len(s) + 1
  BY <1>4, LenProperties
<1>6. \A i \in 2 .. Len(s) + 1 : w[i] # c
  BY <1>2, <1>4 DEF Range
<1>7. IsInjective(w)
  <2> SUFFICES ASSUME NEW i \in 1 .. Len(s) + 1, NEW j \in 1 .. Len(s) + 1, w[i] = w[j]
               PROVE  i = j
    BY <1>5 DEF IsInjective
  <2>1. CASE i = 1 \/ j = 1
    BY <1>2, <1>4, <1>6, <2>1
  <2>2. CASE i # 1 /\ j # 1
    <3>1. i \in 2 .. Len(s) + 1 /\ j \in 2 .. Len(s) + 1
      BY <1>2, <2>2
    <3>2. /\ i - 1 \in 1 .. Len(s) /\ j - 1 \in 1 .. Len(s) /\ s[i - 1] = s[j - 1]
      BY <1>2, <1>4, <3>1
    <3>3. i - 1 = j - 1
      BY <1>2, <3>2 DEF IsInjective
    <3> QED
      BY <1>2, <3>3
  <2> QED
    BY <2>1, <2>2
<1>8. Range(w) = Range(s) \cup {c}
  <2>1. \A i \in 1 .. Len(s) : s[i] = w[i + 1] /\ i + 1 \in 1 .. Len(s) + 1
    BY <1>2, <1>4
  <2>2. \A i \in 1 .. Len(s) + 1 : w[i] \in Range(s) \cup {c}
    BY <1>2, <1>4 DEF Range
  <2>3. c \in Range(w)
    BY <1>2, <1>4, <1>5 DEF Range
  <2>4. \A i \in 1 .. Len(s) : s[i] \in Range(w)
    BY <1>2, <1>5, <2>1 DEF Range
  <2> QED
    BY <1>2, <1>5, <2>2, <2>3, <2>4 DEF Range
<1> QED
  BY <1>1, <1>4, <1>7, <1>8

-----------------------------------------------------------------------------
(* Messages. *)

\* Time goes on: ids are given, decisions of the server stay.
Advance ==
  /\ ids \in Nat /\ ids' \in Nat /\ ids <= ids'
  /\ \A i \in 1 .. MaxIds : actions[i] \in Statuses => actions'[i] = actions[i]
  /\ \A c \in Chats : \A i \in 1 .. ids : i \in said'[c] => i \in said[c]

\* Advance follows from what a step does to ids, decisions and words of the user.
LEMMA AdvanceIs ==
  ASSUME Typed, ids' \in ids .. MaxIds,
         \A i \in 1 .. MaxIds : actions[i] \in Statuses => actions'[i] = actions[i],
         \A c \in Chats : said'[c] \subseteq said[c] \cup (ids + 1 .. ids')
  PROVE  Advance
<1>1. ids \in Nat /\ ids' \in Nat /\ ids <= ids'
  BY ChatPageAssumption DEF Typed
<1>2. ASSUME NEW c \in Chats, NEW i \in 1 .. ids, i \in said'[c]
      PROVE  i \in said[c]
  <2>1. i \notin ids + 1 .. ids'
    BY <1>1
  <2> QED
    BY <1>2, <2>1
<1> QED
  BY <1>1, <1>2 DEF Advance

\* The same, when nothing is written.
LEMMA AdvanceNow ==
  ASSUME Typed, ids' = ids,
         \A i \in 1 .. MaxIds : actions[i] \in Statuses => actions'[i] = actions[i],
         \A c \in Chats : said'[c] \in {said[c], {}}
  PROVE  Advance
<1>1. ids \in Nat /\ ids' \in ids .. MaxIds
  BY ChatPageAssumption DEF Typed
<1>2. \A c \in Chats : said'[c] \subseteq said[c]
  OBVIOUS
<1> QED
  BY <1>1, <1>2, AdvanceIs

\* Order does not depend on the state.
LEMMA OrderStays ==
  ASSUME NEW s
  PROVE  (InOrder(s)' <=> InOrder(s)) /\ toStoredMessages(s)' = toStoredMessages(s) /\ Ids(s)' = Ids(s)
BY DEF InOrder, IsUser, toStoredMessages, Ids

\* Neither does which words are missing.
LEMMA WordsNext ==
  ASSUME NEW c, NEW s
  PROVE  HasWords(s, c)' <=> Keeps(s, said'[c])
BY DEF HasWords, Keeps, Ids, IsUser, Last

\* Messages that were right stay right.
LEMMA MessagesKeep ==
  ASSUME Advance, NEW c \in Chats, NEW s, MessagesFit(s, c)
  PROVE  MessagesFit(s, c)'
<1>1. ASSUME NEW m, MessageFits(m, c)
      PROVE  MessageFits(m, c)'
  BY <1>1 DEF Advance, MessageFits, IsUser
<1> QED
  BY <1>1, OrderStays DEF MessagesFit

\* No words are lost by a step that adds none.
LEMMA WordsKeep ==
  ASSUME NEW c, NEW s, HasWords(s, c), said'[c] \subseteq said[c]
  PROVE  HasWords(s, c)'
BY WordsNext DEF HasWords, Keeps

\* A chat without messages is right.
LEMMA NothingFits ==
  ASSUME NEW c
  PROVE  MessagesFit(<<>>, c) /\ MessagesFit(<<>>, c)'
BY DEF MessagesFit, InOrder

\* So are messages with one more, after the step that adds it: one of the user, or a reply to one.
LEMMA AppendFits ==
  ASSUME NEW c, NEW s, NEW m, MessagesFit(s, c)', MessageFits(m, c)', \A k \in Ids(s) : k < m.id,
         IsUser(m) \/ (s # <<>> /\ IsUser(Last(s)))
  PROVE  MessagesFit(Append(s, m), c)'
<1>1. s \in Seq(Message) /\ m \in Message /\ InOrder(s)
  BY OrderStays DEF MessagesFit, MessageFits, InOrder
<1>2. PICK t : t = Append(s, m)
  OBVIOUS
<1>3. /\ t \in Seq(Message) /\ Len(t) = Len(s) + 1 /\ Len(s) \in Nat
      /\ \A i \in 1 .. Len(s) : t[i] = s[i]
      /\ t[Len(s) + 1] = m
  BY <1>1, <1>2, AppendIs, LenProperties
<1>4. \A i \in 1 .. Len(t) : MessageFits(t[i], c)'
  BY <1>3 DEF MessagesFit
<1>5. ASSUME NEW i \in 1 .. Len(t), NEW j \in 1 .. Len(t), i < j
      PROVE  t[i].id < t[j].id
  <2>1. CASE j \in 1 .. Len(s)
    <3>1. i \in 1 .. Len(s)
      BY <1>3, <1>5, <2>1
    <3> QED
      BY <1>1, <1>3, <1>5, <2>1, <3>1 DEF InOrder
  <2>2. CASE j = Len(s) + 1
    <3>1. i \in 1 .. Len(s)
      BY <1>3, <1>5, <2>2
    <3>2. s[i].id \in Ids(s)
      BY <1>1, <3>1, IdsIs
    <3> QED
      BY <1>3, <2>2, <3>1, <3>2
  <2> QED
    BY <1>3, <2>1, <2>2
<1>6. ASSUME NEW i \in 1 .. Len(t) - 1
      PROVE  IsUser(t[i]) \/ IsUser(t[i + 1])
  <2>1. CASE i = Len(s)
    <3>1. s # <<>> => Last(s) = s[i]
      BY <2>1 DEF Last
    <3>2. t[i] = s[i] /\ t[i + 1] = m
      BY <1>3, <1>6, <2>1
    <3> QED
      BY <3>1, <3>2
  <2>2. CASE i # Len(s)
    <3>1. i \in 1 .. Len(s) - 1 /\ i \in 1 .. Len(s) /\ i + 1 \in 1 .. Len(s)
      BY <1>3, <1>6, <2>2
    <3> QED
      BY <1>1, <1>3, <3>1 DEF InOrder
  <2> QED
    BY <2>1, <2>2
<1>7. Len(t) = 1 => IsUser(t[1])
  <2>1. Len(t) = 1 => s = <<>> /\ t[1] = m
    BY <1>1, <1>3, EmptySeq
  <2> QED
    BY <2>1
<1>8. InOrder(t)
  BY <1>3, <1>5, <1>6, <1>7 DEF InOrder
<1>9. MessagesFit(t, c)'
  BY <1>4, <1>8, OrderStays DEF MessagesFit
<1> QED
  BY <1>2, <1>9

\* And no words are lost by it, when it is the new word or follows all there are.
LEMMA AppendWords ==
  ASSUME Typed, NEW c \in Chats, NEW s \in Seq(Message), NEW m \in Message, HasWords(s, c),
         \A k \in Ids(s) : k < m.id,
         \/ said'[c] \subseteq said[c] \cup {m.id} /\ m.id > ids
         \/ said'[c] \subseteq said[c] /\ s # <<>>
  PROVE  HasWords(Append(s, m), c)'
<1>1. PICK t : t = Append(s, m)
  OBVIOUS
<1>2. /\ t \in Seq(Message) /\ Len(t) = Len(s) + 1 /\ Len(s) \in Nat /\ Ids(t) = Ids(s) \cup {m.id}
  BY <1>1, AppendIs, IdsOfAppend, LenProperties
<1>3. MaxStored \in Nat /\ ids \in Nat /\ said[c] \subseteq 1 .. ids /\ m.id \in Nat
  BY ChatPageAssumption DEF Typed, Message
<1>4. ASSUME NEW i \in said'[c], i \notin Ids(t)
      PROVE  Len(t) > MaxStored - 1 /\ \A k \in Ids(t) : i < k
  <2>1. i \in said[c] /\ i \notin Ids(s) /\ i \in Nat
    BY <1>2, <1>3, <1>4
  <2>2. Len(s) >= MaxStored - 1 /\ \A k \in Ids(s) : i < k
    BY <2>1 DEF HasWords, Keeps
  <2>3. i < m.id
    <3>1. CASE m.id > ids
      BY <1>3, <2>1, <3>1
    <3>2. CASE s # <<>>
      <4>1. 1 \in 1 .. Len(s) /\ s[1] \in Message /\ s[1].id \in Nat
        <5>1. 1 \in 1 .. Len(s)
          BY <1>2, <3>2, EmptySeq
        <5>2. s[1] \in Message
          BY <5>1, ElementOfSeq
        <5> QED
          BY <5>1, <5>2, ChatPageAssumption DEF Message
      <4>2. s[1].id \in Ids(s)
        BY <4>1, IdsIs
      <4> QED
        BY <1>3, <2>1, <2>2, <4>1, <4>2
    <3> QED
      BY <3>1, <3>2
  <2> QED
    BY <1>2, <1>3, <2>2, <2>3
<1>5. HasWords(t, c)'
  BY <1>2, <1>3, <1>4, WordsNext DEF Keeps
<1> QED
  BY <1>1, <1>5

\* Without the reply at the end, messages are right and end with something of the user, and no words
\* are lost.
LEMMA WithoutReplyFits ==
  ASSUME NEW c, NEW s, MessagesFit(s, c), s # <<>>, NEW t, t = WithoutReply(s)
  PROVE  /\ MessagesFit(t, c) /\ t # <<>> /\ IsUser(Last(t)) /\ Ids(t) \subseteq Ids(s)
         /\ HasWords(s, c) => HasWords(t, c)
<1>1. CASE IsUser(Last(s))
  BY <1>1 DEF WithoutReply
<1>2. CASE ~IsUser(Last(s))
  <2>1. /\ s \in Seq(Message) /\ t \in Seq(Message) /\ Len(t) = Len(s) - 1 /\ InOrder(s)
        /\ \A i \in 1 .. Len(s) - 1 : t[i] = s[i]
        /\ Len(s) \in Nat \ {0}
    BY <1>2, FrontIs DEF MessagesFit, InOrder, WithoutReply
  <2>2. /\ Ids(s) = {s[i].id : i \in 1 .. Len(s)} /\ Ids(t) = {t[i].id : i \in 1 .. Len(t)}
    BY <2>1, IdsIs
  <2>3. Len(s) # 1
    BY <1>2, <2>1 DEF InOrder, Last
  <2>4. t # <<>> /\ Len(s) - 1 \in 1 .. Len(s) - 1
    BY <2>1, <2>3
  <2>5. IsUser(Last(t))
    <3>1. IsUser(s[Len(s) - 1]) \/ IsUser(s[Len(s) - 1 + 1])
      BY <2>1, <2>4 DEF InOrder
    <3>2. s[Len(s) - 1 + 1] = Last(s) /\ Last(t) = s[Len(s) - 1]
      BY <2>1, <2>4 DEF Last
    <3> QED
      BY <1>2, <3>1, <3>2
  <2>6. InOrder(t)
    <3>1. \A i, j \in 1 .. Len(t) : i < j => t[i].id < t[j].id
      BY <2>1 DEF InOrder
    <3>2. \A i \in 1 .. Len(t) - 1 : IsUser(t[i]) \/ IsUser(t[i + 1])
      BY <2>1 DEF InOrder
    <3>3. Len(t) = 1 => IsUser(t[1])
      BY <2>5 DEF Last
    <3> QED
      BY <2>1, <3>1, <3>2, <3>3 DEF InOrder
  <2>7. MessagesFit(t, c)
    BY <2>1, <2>6 DEF MessagesFit
  <2>8. Ids(t) \subseteq Ids(s)
    BY <2>1, <2>2
  <2>9. ASSUME NEW i \in said[c], i \in Ids(s)
        PROVE  i \in Ids(t)
    <3>1. PICK k \in 1 .. Len(s) : s[k].id = i
      BY <2>2, <2>9
    <3>2. k # Len(s)
      BY <1>2, <2>9, <3>1 DEF MessagesFit, MessageFits, Last
    <3>3. k \in 1 .. Len(s) - 1 /\ k \in 1 .. Len(t) /\ t[k] = s[k]
      BY <2>1, <3>1, <3>2
    <3> QED
      BY <2>2, <3>1, <3>3
  <2>10. ASSUME HasWords(s, c), NEW i \in said[c] \ Ids(t)
         PROVE  Len(t) >= MaxStored - 1 /\ \A k \in Ids(t) : i < k
    <3>1. i \notin Ids(s)
      BY <2>9
    <3>2. /\ Len(s) >= MaxStored - 1 /\ Len(s) # MaxStored - 1 /\ \A k \in Ids(s) : i < k
      BY <1>2, <2>10, <3>1 DEF HasWords, Keeps
    <3> QED
      BY <2>1, <2>8, <3>2, ChatPageAssumption
  <2> QED
    BY <2>4, <2>5, <2>7, <2>8, <2>10 DEF HasWords, Keeps
<1> QED
  BY <1>1, <1>2

\* The ids of messages that are right have been given.
LEMMA IdsFit ==
  ASSUME NEW c, NEW s, MessagesFit(s, c)
  PROVE  s \in Seq(Message) /\ Ids(s) \subseteq 1 .. ids
<1>1. s \in Seq(Message)
  BY DEF MessagesFit, InOrder
<1> QED
  BY <1>1, IdsIs DEF MessagesFit, MessageFits

\* What the store keeps of messages is their end, and all of them if there are not too many.
LEMMA KeptIs ==
  ASSUME NEW s \in Seq(Message), NEW t, t = toStoredMessages(s)
  PROVE  /\ t \in Seq(Message) /\ Len(t) <= MaxStored
         /\ Len(s) <= MaxStored => t = s
         /\ Len(s) > MaxStored => /\ Len(t) = MaxStored
                                  /\ \A i \in 1 .. MaxStored : t[i] = s[Len(s) - MaxStored + i]
<1>1. Len(s) \in Nat /\ MaxStored \in Nat
  BY LenProperties, ChatPageAssumption
<1>2. CASE Len(s) <= MaxStored
  BY <1>1, <1>2 DEF toStoredMessages
<1>3. CASE Len(s) > MaxStored
  <2>1. PICK n \in Nat : n = Len(s) - MaxStored
    BY <1>1, <1>3
  <2>2. PICK m \in Nat : m = Len(s)
    BY <1>1
  <2>3. t = SubSeq(s, n + 1, m)
    BY <1>1, <1>3, <2>1, <2>2 DEF toStoredMessages
  <2>4. n + 1 \in Int /\ m \in Int /\ \A i \in n + 1 .. m : s[i] \in Message
    BY <2>1, <2>2, ElementOfSeq
  <2>5. /\ SubSeq(s, n + 1, m) \in Seq(Message)
        /\ Len(SubSeq(s, n + 1, m)) = IF n + 1 <= m THEN m - (n + 1) + 1 ELSE 0
        /\ \A i \in 1 .. m - (n + 1) + 1 : SubSeq(s, n + 1, m)[i] = s[(n + 1) + i - 1]
    BY <2>4, SubSeqProperties
  <2>6. Len(t) = MaxStored
    <3>1. m - (n + 1) + 1 = MaxStored /\ (n + 1 <= m \/ MaxStored = 0)
      BY <1>1, <2>1, <2>2
    <3> QED
      BY <1>1, <2>1, <2>2, <2>3, <2>5, <3>1
  <2>7. ASSUME NEW i \in 1 .. MaxStored
        PROVE  t[i] = s[Len(s) - MaxStored + i]
    <3>1. i \in 1 .. m - (n + 1) + 1 /\ (n + 1) + i - 1 = Len(s) - MaxStored + i
      BY <1>1, <2>1, <2>2
    <3> QED
      BY <2>3, <2>5, <3>1
  <2> QED
    BY <1>1, <1>3, <2>3, <2>5, <2>6, <2>7
<1> QED
  BY <1>1, <1>2, <1>3

\* It is in order, and lacks words only if the store is full of later ones.
LEMMA KeptInOrder ==
  ASSUME NEW s, InOrder(s), NEW t, t = toStoredMessages(s), NEW w
  PROVE  /\ InOrder(t) /\ Len(t) <= MaxStored
         /\ \A i \in 1 .. Len(t) : \E j \in 1 .. Len(s) : t[i] = s[j]
         /\ Keeps(s, w) => Keeps(t, w)
<1>1. s \in Seq(Message) /\ Len(s) \in Nat /\ MaxStored \in Nat /\ MaxStored >= 2
  BY LenProperties, ChatPageAssumption DEF InOrder
<1>2. CASE Len(s) <= MaxStored
  BY <1>1, <1>2, KeptIs
<1>3. CASE Len(s) > MaxStored
  <2>1. PICK n \in Nat : n = Len(s) - MaxStored
    BY <1>1, <1>3
  <2>2. /\ t \in Seq(Message) /\ Len(t) = MaxStored
        /\ \A i \in 1 .. MaxStored : t[i] = s[n + i] /\ n + i \in 1 .. Len(s)
    BY <1>1, <1>3, <2>1, KeptIs
  <2>3. Ids(s) = {s[i].id : i \in 1 .. Len(s)} /\ Ids(t) = {t[i].id : i \in 1 .. Len(t)}
    BY <1>1, <2>2, IdsIs
  <2>4. InOrder(t)
    <3>1. \A i, j \in 1 .. Len(t) : i < j => t[i].id < t[j].id
      <4> SUFFICES ASSUME NEW i \in 1 .. Len(t), NEW j \in 1 .. Len(t), i < j
                   PROVE  t[i].id < t[j].id
        OBVIOUS
      <4>1. n + i < n + j /\ n + i \in 1 .. Len(s) /\ n + j \in 1 .. Len(s)
        BY <2>1, <2>2
      <4>2. s[n + i].id < s[n + j].id
        BY <1>1, <4>1 DEF InOrder
      <4> QED
        BY <2>2, <4>2
    <3>2. \A i \in 1 .. Len(t) - 1 : IsUser(t[i]) \/ IsUser(t[i + 1])
      <4> SUFFICES ASSUME NEW i \in 1 .. Len(t) - 1
                   PROVE  IsUser(t[i]) \/ IsUser(t[i + 1])
        OBVIOUS
      <4>1. /\ i \in 1 .. MaxStored /\ i + 1 \in 1 .. MaxStored /\ n + i \in 1 .. Len(s) - 1
            /\ n + (i + 1) = (n + i) + 1
        BY <1>1, <2>1, <2>2
      <4>2. IsUser(s[n + i]) \/ IsUser(s[(n + i) + 1])
        BY <1>1, <4>1 DEF InOrder
      <4> QED
        BY <2>2, <4>1, <4>2
    <3> QED
      BY <1>1, <2>2, <3>1, <3>2 DEF InOrder
  <2>5. \A i \in 1 .. Len(t) : \E j \in 1 .. Len(s) : t[i] = s[j]
    BY <2>2
  <2>6. ASSUME Keeps(s, w), NEW i \in w \ Ids(t), NEW k \in Ids(t)
        PROVE  i < k
    <3>1. PICK j \in 1 .. MaxStored : k = s[n + j].id /\ n + j \in 1 .. Len(s)
      BY <2>2, <2>3
    <3>2. CASE i \notin Ids(s)
      BY <2>3, <2>6, <3>1, <3>2 DEF Keeps
    <3>3. CASE i \in Ids(s)
      <4>1. PICK l \in 1 .. Len(s) : i = s[l].id
        BY <2>3, <3>3
      <4>2. ~(l > n)
        <5> SUFFICES ASSUME l > n PROVE FALSE
          OBVIOUS
        <5>1. PICK p : p = l - n
          OBVIOUS
        <5>2. p \in 1 .. MaxStored /\ n + p = l
          BY <2>1, <4>1, <5>1, <1>1
        <5> QED
          BY <2>2, <2>3, <2>6, <4>1, <5>2
      <4>3. l < n + j
        BY <2>1, <4>1, <4>2, <3>1, <1>1
      <4> QED
        BY <1>1, <3>1, <4>1, <4>3 DEF InOrder
    <3> QED
      BY <3>2, <3>3
  <2>7. Keeps(s, w) => Keeps(t, w)
    BY <1>1, <2>2, <2>6 DEF Keeps
  <2> QED
    BY <1>1, <2>2, <2>4, <2>5, <2>7
<1> QED
  BY <1>1, <1>2, <1>3

\* It is right, and lacks no words before their time.
LEMMA KeptFits ==
  ASSUME NEW c, NEW s, MessagesFit(s, c), NEW t, t = toStoredMessages(s)
  PROVE  /\ MessagesFit(t, c) /\ Len(t) <= MaxStored
         /\ HasWords(s, c) => HasWords(t, c)
<1>1. PICK w : w = said[c]
  OBVIOUS
<1>2. /\ InOrder(t) /\ Len(t) <= MaxStored
      /\ \A i \in 1 .. Len(t) : \E j \in 1 .. Len(s) : t[i] = s[j]
      /\ Keeps(s, w) => Keeps(t, w)
  BY KeptInOrder DEF MessagesFit
<1> QED
  BY <1>1, <1>2 DEF MessagesFit, HasWords

\* The same after a step.
LEMMA KeptFitsNext ==
  ASSUME NEW c, NEW s, MessagesFit(s, c)', NEW t, t = toStoredMessages(s)
  PROVE  /\ MessagesFit(t, c)' /\ Len(t) <= MaxStored
         /\ HasWords(s, c)' => HasWords(t, c)'
<1>1. PICK w : w = said'[c]
  OBVIOUS
<1>2. InOrder(s) /\ \A i \in 1 .. Len(s) : MessageFits(s[i], c)'
  BY OrderStays DEF MessagesFit
<1>3. /\ InOrder(t) /\ Len(t) <= MaxStored
      /\ \A i \in 1 .. Len(t) : \E j \in 1 .. Len(s) : t[i] = s[j]
      /\ Keeps(s, w) => Keeps(t, w)
  BY <1>2, KeptInOrder
<1>4. MessagesFit(t, c)'
  BY <1>2, <1>3, OrderStays DEF MessagesFit
<1> QED
  BY <1>1, <1>3, <1>4, WordsNext

-----------------------------------------------------------------------------
(* The store. *)

StoreFits(s) ==
  /\ s \in [recent : Seq(Chats), saved : [Chats -> Seq(Message)], lastSaved : Seq(Message),
            agentOf : [Chats -> Agents \cup {Null}], created : 0 .. MaxChats,
            active : Chats \cup {Null}]
  /\ IsInjective(s.recent) /\ Range(s.recent) \subseteq 1 .. s.created

\* Contains is membership of the range.
LEMMA ContainsIs ==
  ASSUME NEW S, NEW s \in Seq(S), NEW c
  PROVE  Contains(s, c) <=> c \in Range(s)
BY LenProperties DEF Contains, Range

\* Saving changes the chat's messages, if the store has the chat, and the order of the chats.
LEMMA SaveIs ==
  ASSUME NEW s, StoreFits(s), NEW c \in Chats, NEW m \in Seq(Message)
  PROVE  LET t == saveChatMessages(s, c, m)
         IN  /\ StoreFits(t) /\ Range(t.recent) = Range(s.recent) /\ t.created = s.created
             /\ t.agentOf = s.agentOf /\ t.active = s.active /\ t.lastSaved = s.lastSaved
             /\ \A d \in Chats :
                  t.saved[d] = IF d = c /\ c \in Range(s.recent) THEN toStoredMessages(m) ELSE s.saved[d]
<1>1. s.recent \in Seq(Chats) /\ IsInjective(s.recent)
  BY DEF StoreFits
<1>2. CASE c \notin Range(s.recent)
  BY <1>1, <1>2, ContainsIs DEF saveChatMessages
<1>3. CASE c \in Range(s.recent)
  <2>1. PICK w : w = Without(s.recent, c)
    OBVIOUS
  <2>2. w \in Seq(Chats) /\ IsInjective(w) /\ Range(w) = Range(s.recent) \ {c}
    BY <1>1, <2>1, WithoutIs
  <2>3. PICK l : l = <<c>> \o w
    OBVIOUS
  <2>4. l \in Seq(Chats) /\ IsInjective(l) /\ Range(l) = Range(s.recent)
    <3>1. c \notin Range(w)
      BY <2>2
    <3>2. l \in Seq(Chats) /\ IsInjective(l) /\ Range(l) = Range(w) \cup {c}
      BY <2>2, <2>3, <3>1, FirstIs
    <3> QED
      BY <1>3, <2>2, <3>2
  <2>5. PICK t, n : t = saveChatMessages(s, c, m) /\ n = toStoredMessages(m)
    OBVIOUS
  <2>6. t = [s EXCEPT !.saved[c] = n, !.recent = l] /\ n \in Seq(Message)
    BY <1>1, <1>3, <2>1, <2>3, <2>5, ContainsIs, KeptIs DEF saveChatMessages
  <2>7. /\ t.recent = l /\ t.saved = [s.saved EXCEPT ![c] = n] /\ t.agentOf = s.agentOf
        /\ t.created = s.created /\ t.active = s.active /\ t.lastSaved = s.lastSaved
        /\ t \in [recent : Seq(Chats), saved : [Chats -> Seq(Message)], lastSaved : Seq(Message),
                  agentOf : [Chats -> Agents \cup {Null}], created : 0 .. MaxChats,
                  active : Chats \cup {Null}]
    BY <2>4, <2>6 DEF StoreFits
  <2>8. \A d \in Chats : t.saved[d] = IF d = c THEN n ELSE s.saved[d]
    BY <2>7 DEF StoreFits
  <2>9. StoreFits(t)
    BY <2>4, <2>7 DEF StoreFits
  <2> QED
    BY <1>3, <2>4, <2>5, <2>7, <2>8, <2>9
<1> QED
  BY <1>2, <1>3

\* What is shown is saved, but not a reply that is being written, and what the session last gave the
\* store is there.
LEMMA PersistIs ==
  ASSUME NEW s, StoreFits(s), NEW c \in Chats, NEW m \in Seq(Message), NEW loading \in BOOLEAN,
         c \in Range(s.recent) => s.saved[c] = toStoredMessages(s.lastSaved)
  PROVE  LET t == Persist(s, c, m, loading)
         IN  /\ StoreFits(t) /\ Range(t.recent) = Range(s.recent) /\ t.created = s.created
             /\ t.agentOf = s.agentOf /\ t.active = s.active
             /\ \A d \in Chats \ {c} : t.saved[d] = s.saved[d]
             /\ c \in Range(s.recent) => t.saved[c] = toStoredMessages(t.lastSaved)
             /\ \/ t.saved[c] = s.saved[c] /\ loading /\ m # <<>> /\ ~IsUser(Last(m))
                \/ t.saved[c] = s.saved[c] /\ c \notin Range(s.recent)
                \/ t.saved[c] = toStoredMessages(m)
<1>1. PICK t : t = Persist(s, c, m, loading)
  OBVIOUS
<1>2. CASE (loading /\ m # <<>> /\ ~IsUser(Last(m))) \/ m = s.lastSaved
  <2>1. t = s
    BY <1>1, <1>2 DEF Persist
  <2> QED
    BY <1>1, <1>2, <2>1
<1>3. CASE ~((loading /\ m # <<>> /\ ~IsUser(Last(m))) \/ m = s.lastSaved)
  <2>1. PICK w : w = saveChatMessages(s, c, m)
    OBVIOUS
  <2>2. t = [w EXCEPT !.lastSaved = m]
    BY <1>1, <1>3, <2>1 DEF Persist, Save
  <2>3. /\ StoreFits(w) /\ Range(w.recent) = Range(s.recent) /\ w.created = s.created
        /\ w.agentOf = s.agentOf /\ w.active = s.active
        /\ \A d \in Chats :
             w.saved[d] = IF d = c /\ c \in Range(s.recent) THEN toStoredMessages(m) ELSE s.saved[d]
    BY <2>1, SaveIs
  <2>4. /\ StoreFits(t) /\ t.recent = w.recent /\ t.created = w.created /\ t.agentOf = w.agentOf
        /\ t.active = w.active /\ t.saved = w.saved /\ t.lastSaved = m
    BY <2>2, <2>3 DEF StoreFits
  <2> QED
    BY <1>1, <2>3, <2>4
<1> QED
  BY <1>2, <1>3

\* A new chat has an id that no chat had.
LEMMA CreateIs ==
  ASSUME NEW s, StoreFits(s), s.created < MaxChats
  PROVE  LET t == createChat(s)
         IN  /\ StoreFits(t) /\ t.created = s.created + 1 /\ t.created \in Chats
             /\ Range(t.recent) = Range(s.recent) \cup {t.created}
             /\ t.agentOf = s.agentOf /\ t.active = s.active /\ t.saved = s.saved
             /\ t.lastSaved = s.lastSaved
             /\ s.created \in 0 .. MaxChats /\ Range(s.recent) \subseteq 1 .. s.created
<1>1. PICK c : c = s.created + 1
  OBVIOUS
<1>2. c \in Chats /\ c \notin Range(s.recent) /\ c \in 0 .. MaxChats /\ s.created \in 0 .. MaxChats
  BY <1>1, ChatPageAssumption DEF StoreFits, Chats
<1>3. PICK l : l = <<c>> \o s.recent
  OBVIOUS
<1>4. l \in Seq(Chats) /\ IsInjective(l) /\ Range(l) = Range(s.recent) \cup {c}
  BY <1>2, <1>3, FirstIs DEF StoreFits
<1>5. PICK t : t = createChat(s)
  OBVIOUS
<1>6. t = [s EXCEPT !.created = c, !.recent = l]
  BY <1>1, <1>3, <1>5 DEF createChat
<1>7. /\ t.recent = l /\ t.saved = s.saved /\ t.agentOf = s.agentOf /\ t.lastSaved = s.lastSaved
      /\ t.created = c /\ t.active = s.active
      /\ t \in [recent : Seq(Chats), saved : [Chats -> Seq(Message)], lastSaved : Seq(Message),
                agentOf : [Chats -> Agents \cup {Null}], created : 0 .. MaxChats,
                active : Chats \cup {Null}]
  BY <1>2, <1>4, <1>6 DEF StoreFits
<1>8. Range(t.recent) \subseteq 1 .. t.created
  BY <1>1, <1>2, <1>4, <1>7 DEF StoreFits
<1>9. StoreFits(t) /\ Range(s.recent) \subseteq 1 .. s.created
  BY <1>4, <1>7, <1>8 DEF StoreFits
<1> QED
  BY <1>1, <1>2, <1>4, <1>5, <1>7, <1>9

\* Making a chat the active one changes nothing else.
LEMMA ActivateIs ==
  ASSUME NEW s, StoreFits(s), NEW c \in Chats
  PROVE  LET t == setActiveChat(s, c)
         IN  /\ StoreFits(t) /\ t.created = s.created /\ t.recent = s.recent
             /\ t.agentOf = s.agentOf /\ t.active = c /\ t.saved = s.saved
             /\ t.lastSaved = s.lastSaved
BY DEF StoreFits, setActiveChat

\* A deleted chat leaves nothing in the store.
LEMMA DeleteIs ==
  ASSUME NEW s, StoreFits(s), NEW c \in Chats
  PROVE  LET t == deleteChat(s, c)
         IN  /\ StoreFits(t) /\ t.created = s.created /\ Range(t.recent) = Range(s.recent) \ {c}
             /\ t.saved[c] = <<>> /\ t.agentOf[c] = Null
             /\ \A d \in Chats \ {c} : t.saved[d] = s.saved[d] /\ t.agentOf[d] = s.agentOf[d]
<1>1. PICK l : l = Without(s.recent, c)
  OBVIOUS
<1>2. l \in Seq(Chats) /\ IsInjective(l) /\ Range(l) = Range(s.recent) \ {c}
  BY <1>1, WithoutIs DEF StoreFits
<1>3. PICK a : a = IF s.active = c THEN Null ELSE s.active
  OBVIOUS
<1>4. PICK t : t = deleteChat(s, c)
  OBVIOUS
<1>5. t = [s EXCEPT !.recent = l, !.saved[c] = <<>>, !.agentOf[c] = Null, !.active = a]
  BY <1>1, <1>3, <1>4 DEF deleteChat
<1>6. <<>> \in Seq(Message) /\ a \in Chats \cup {Null}
  BY <1>3 DEF StoreFits
<1>7. /\ t.recent = l /\ t.saved = [s.saved EXCEPT ![c] = <<>>]
      /\ t.agentOf = [s.agentOf EXCEPT ![c] = Null]
      /\ t.created = s.created /\ t.active = a
      /\ t \in [recent : Seq(Chats), saved : [Chats -> Seq(Message)], lastSaved : Seq(Message),
                agentOf : [Chats -> Agents \cup {Null}], created : 0 .. MaxChats,
                active : Chats \cup {Null}]
  BY <1>2, <1>5, <1>6 DEF StoreFits
<1>8. StoreFits(t)
  BY <1>2, <1>7 DEF StoreFits
<1>9. /\ t.saved[c] = <<>> /\ t.agentOf[c] = Null
      /\ \A d \in Chats \ {c} : t.saved[d] = s.saved[d] /\ t.agentOf[d] = s.agentOf[d]
  BY <1>7 DEF StoreFits
<1> QED
  BY <1>2, <1>4, <1>7, <1>8, <1>9

\* Choosing an agent changes nothing else.
LEMMA AgentIs ==
  ASSUME NEW s, StoreFits(s), NEW c \in Chats, NEW g \in Agents \cup {Null}
  PROVE  LET t == setChatAgent(s, c, g)
         IN  /\ StoreFits(t) /\ t.created = s.created /\ t.recent = s.recent /\ t.active = s.active
             /\ t.agentOf[c] = g /\ t.saved = s.saved /\ t.lastSaved = s.lastSaved
             /\ \A d \in Chats \ {c} : t.agentOf[d] = s.agentOf[d]
BY DEF StoreFits, setChatAgent

\* The chat the page shows is one of the workspace's, if there is one.
LEMMA PickIs ==
  ASSUME NEW s, StoreFits(s)
  PROVE  /\ pickActiveChat(s) \in Range(s.recent) \cup {Null}
         /\ pickActiveChat(s) = Null => s.recent = <<>>
<1>1. /\ s.recent \in Seq(Chats) /\ Range(s.recent) \subseteq Chats /\ Null \notin Chats
      /\ DOMAIN s.recent = 1 .. Len(s.recent)
  BY ChatPageAssumption, LenProperties DEF StoreFits, Chats, Range
<1>2. s.recent # <<>> => Head(s.recent) \in Range(s.recent)
  <2> SUFFICES ASSUME s.recent # <<>> PROVE Head(s.recent) \in Range(s.recent)
    OBVIOUS
  <2>1. Head(s.recent) = s.recent[1] /\ 1 \in 1 .. Len(s.recent)
    BY <1>1, EmptySeq
  <2> QED
    BY <1>1, <2>1 DEF Range
<1> QED
  BY <1>1, <1>2, ContainsIs DEF pickActiveChat

\* The page has a chat to show: one of the workspace's, or a new one.
LEMMA EnsureIs ==
  ASSUME NEW s, StoreFits(s), MayCreate(s), NEW t, t = EnsureChat(s)
  PROVE  /\ StoreFits(t) /\ pickActiveChat(t) \in Range(t.recent)
         /\ \/ t = s
            \/ /\ s.created < MaxChats
               /\ t = setActiveChat(createChat(s), createChat(s).created)
<1>1. CASE pickActiveChat(s) # Null
  BY <1>1, PickIs DEF EnsureChat
<1>2. CASE pickActiveChat(s) = Null
  <2>1. s.created < MaxChats
    BY <1>2, PickIs DEF MayCreate
  <2>2. PICK n : n = createChat(s)
    OBVIOUS
  <2>3. StoreFits(n) /\ n.created \in Chats /\ n.created \in Range(n.recent)
    BY <2>1, <2>2, CreateIs
  <2>4. t = setActiveChat(n, n.created)
    BY <1>2, <2>2 DEF EnsureChat
  <2>5. StoreFits(t) /\ t.recent = n.recent /\ t.active = n.created
    BY <2>3, <2>4, ActivateIs
  <2>6. pickActiveChat(t) = n.created
    BY <2>3, <2>5, ContainsIs DEF pickActiveChat, StoreFits
  <2> QED
    BY <2>1, <2>2, <2>3, <2>4, <2>5, <2>6
<1> QED
  BY <1>1, <1>2

-----------------------------------------------------------------------------
(* The chats, while a handler works on the store s, the session of v and the cache k. *)

Hand(s, v, k) ==
  \A d \in Chats : ChatIs(d, d = v, s.saved[d], k[d], s.agentOf[d], d \in Range(s.recent), s.created)

\* The store in the variables is one that fits.
LEMMA StoreIsStore ==
  ASSUME Typed
  PROVE  /\ StoreFits(Store) /\ Store.recent = recent /\ Store.saved = saved
         /\ Store.lastSaved = lastSaved
         /\ Store.agentOf = agentOf /\ Store.created = created /\ Store.active = active
<1>1. /\ Store.recent = recent /\ Store.saved = saved /\ Store.lastSaved = lastSaved
      /\ Store.agentOf = agentOf /\ Store.created = created /\ Store.active = active
  BY DEF Store
<1>2. created \in 0 .. MaxChats /\ MaxChats \in Nat
  BY ChatPageAssumption DEF Typed
<1>3. recent \in Seq(Chats) /\ Range(recent) \subseteq 1 .. created
  <2>1. recent \in Seq(1 .. created) /\ 1 .. created \subseteq Chats
    BY <1>2 DEF Typed, Chats
  <2>2. recent \in Seq(Chats)
    BY <2>1, SeqMonotonic
  <2>3. Range(recent) \subseteq 1 .. created
    BY <2>1, LenProperties, ElementOfSeq DEF Range
  <2> QED
    BY <2>2, <2>3
<1> QED
  BY <1>1, <1>3 DEF Typed, StoreFits, Store

\* And back.
LEMMA StoreOfStore ==
  ASSUME NEW s, StoreFits(s), StoreIs(s)
  PROVE  /\ recent' \in Seq(1 .. created') /\ IsInjective(recent')
         /\ saved' \in [Chats -> Seq(Message)] /\ lastSaved' \in Seq(Message)
         /\ agentOf' \in [Chats -> Agents \cup {Null}]
         /\ created' \in 0 .. MaxChats
         /\ active' \in Chats \cup {Null}
         /\ lastSaved' = s.lastSaved /\ recent' = s.recent /\ saved' = s.saved /\ agentOf' = s.agentOf /\ created' = s.created
<1>1. s.recent \in Seq(1 .. s.created)
  BY SeqOfRange, SeqMonotonic DEF StoreFits
<1> QED
  BY <1>1 DEF StoreFits, StoreIs

\* As long as a chat keeps what the user wrote and chose, or loses it all.
LEMMA HandKeeps ==
  ASSUME IInv, Advance, agents' \subseteq agents, adrift \subseteq adrift',
         \A c \in Chats : said'[c] \in {said[c], {}} /\ picked'[c] \in {picked[c], Null},
         NEW s, s = Store, NEW v, v = view, NEW k, k = cache
  PROVE  Hand(s, v, k)'
<1>1. Hand(s, v, k)
  BY StoreIsStore DEF IInv, ChatFits, Hand
<1>2. Null \notin agents
  BY ChatPageAssumption DEF IInv, Typed
<1>3. ASSUME NEW d \in Chats, NEW shown, NEW stored, NEW cached, NEW agent, NEW isRecent, NEW count,
             ChatIs(d, shown, stored, cached, agent, isRecent, count)
      PROVE  ChatIs(d, shown, stored, cached, agent, isRecent, count)'
  <2>1. MessagesFit(stored, d)' /\ MessagesFit(cached.messages, d)'
    BY <1>3, MessagesKeep DEF ChatIs
  <2>2. /\ said'[d] \in {said[d], {}} /\ picked'[d] \in {picked[d], Null}
        /\ d \notin adrift' => d \notin adrift
    OBVIOUS
  <2>3. isRecent /\ picked'[d] \in agents' => agent = picked'[d]
    BY <1>2, <1>3, <2>2 DEF ChatIs
  <2>4. /\ HasWords(stored, d) => HasWords(stored, d)'
        /\ HasWords(cached.messages, d) => HasWords(cached.messages, d)'
    BY <2>2, WordsKeep
  <2>5. toStoredMessages(cached.messages)' = toStoredMessages(cached.messages)
    BY OrderStays
  <2> QED
    BY <1>3, <2>1, <2>2, <2>3, <2>4, <2>5 DEF ChatIs
<1> QED
  BY <1>1, <1>3 DEF Hand

\* Making a chat the active one leaves every chat right.
LEMMA ActivateHand ==
  ASSUME NEW s, NEW v, NEW k, StoreFits(s), Hand(s, v, k)', NEW c \in Chats, NEW t, t = setActiveChat(s, c)
  PROVE  /\ StoreFits(t) /\ Hand(t, v, k)' /\ t.recent = s.recent /\ t.saved = s.saved
         /\ t.lastSaved = s.lastSaved
BY ActivateIs DEF Hand

\* So does a new chat.
LEMMA CreateHand ==
  ASSUME NEW s, NEW v, NEW k, StoreFits(s), Hand(s, v, k)', s.created < MaxChats, NEW t, t = createChat(s)
  PROVE  /\ StoreFits(t) /\ Hand(t, v, k)' /\ t.created \in Chats /\ t.saved = s.saved
         /\ Range(t.recent) = Range(s.recent) \cup {t.created} /\ t.created = s.created + 1
         /\ t.lastSaved = s.lastSaved
<1>1. /\ StoreFits(t) /\ t.created = s.created + 1 /\ t.created \in Chats
      /\ Range(t.recent) = Range(s.recent) \cup {t.created}
      /\ t.agentOf = s.agentOf /\ t.saved = s.saved /\ t.lastSaved = s.lastSaved
      /\ s.created \in 0 .. MaxChats /\ Range(s.recent) \subseteq 1 .. s.created
  BY CreateIs
<1>2. ASSUME NEW d \in Chats
      PROVE  ChatIs(d, d = v, t.saved[d], k[d], t.agentOf[d], d \in Range(t.recent), t.created)'
  <2>1. ChatIs(d, d = v, s.saved[d], k[d], s.agentOf[d], d \in Range(s.recent), s.created)'
    BY DEF Hand
  <2>2. CASE d # t.created
    <3>1. d \in Range(t.recent) <=> d \in Range(s.recent)
      BY <1>1, <2>2
    <3>2. d > t.created => d > s.created
      BY <1>1 DEF Chats
    <3> QED
      BY <1>1, <2>1, <3>1, <3>2 DEF ChatIs
  <2>3. CASE d = t.created
    <3>1. d > s.created /\ d \notin Range(s.recent) /\ ~(d > t.created) /\ d \in Range(t.recent)
      BY <1>1, <2>3 DEF Chats
    <3>2. ~k[d].known /\ said'[d] = {} /\ picked'[d] = Null /\ s.saved[d] = <<>> /\ s.agentOf[d] = Null
      BY <2>1, <3>1 DEF ChatIs
    <3>3. HasWords(<<>>, d)'
      BY <3>2, WordsNext DEF Keeps
    <3> QED
      BY <1>1, <2>1, <3>1, <3>2, <3>3 DEF ChatIs
  <2> QED
    BY <2>2, <2>3
<1> QED
  BY <1>1, <1>2 DEF Hand

\* So does the deletion of a chat.
LEMMA DeleteHand ==
  ASSUME NEW s, NEW v, NEW k, StoreFits(s), Hand(s, v, k)', NEW c \in Chats, NEW t, t = deleteChat(s, c)
  PROVE  /\ StoreFits(t) /\ Hand(t, v, k)' /\ Range(t.recent) = Range(s.recent) \ {c}
         /\ \A d \in Chats \ {c} : t.saved[d] = s.saved[d]
         /\ t.created = s.created
<1>0. Len(<<>>) <= MaxStored
  BY ChatPageAssumption
<1>1. /\ StoreFits(t) /\ t.created = s.created /\ Range(t.recent) = Range(s.recent) \ {c}
      /\ t.saved[c] = <<>> /\ t.agentOf[c] = Null
      /\ \A d \in Chats \ {c} : t.saved[d] = s.saved[d] /\ t.agentOf[d] = s.agentOf[d]
  BY DeleteIs
<1>2. ASSUME NEW d \in Chats
      PROVE  ChatIs(d, d = v, t.saved[d], k[d], t.agentOf[d], d \in Range(t.recent), t.created)'
  <2>1. ChatIs(d, d = v, s.saved[d], k[d], s.agentOf[d], d \in Range(s.recent), s.created)'
    BY DEF Hand
  <2>2. CASE d # c
    BY <1>1, <2>1, <2>2 DEF ChatIs
  <2>3. CASE d = c
    BY <1>0, <1>1, <2>1, <2>3, NothingFits DEF ChatIs
  <2> QED
    BY <2>2, <2>3
<1> QED
  BY <1>1, <1>2 DEF Hand

\* So does finding a chat to show.
LEMMA EnsureHand ==
  ASSUME NEW s, NEW v, NEW k, StoreFits(s), Hand(s, v, k)', MayCreate(s), NEW t, t = EnsureChat(s)
  PROVE  /\ StoreFits(t) /\ Hand(t, v, k)' /\ pickActiveChat(t) \in Range(t.recent)
         /\ t.saved = s.saved /\ t.lastSaved = s.lastSaved
         /\ Range(t.recent) \subseteq Range(s.recent) \cup {s.created + 1}
<1>1. CASE t = s
  BY <1>1, EnsureIs
<1>2. CASE t # s
  <2>1. s.created < MaxChats /\ t = setActiveChat(createChat(s), createChat(s).created)
    BY <1>2, EnsureIs
  <2>2. PICK n : n = createChat(s)
    OBVIOUS
  <2>3. /\ StoreFits(n) /\ Hand(n, v, k)' /\ n.created \in Chats /\ n.saved = s.saved
        /\ n.lastSaved = s.lastSaved /\ Range(n.recent) = Range(s.recent) \cup {s.created + 1}
    BY <2>1, <2>2, CreateHand
  <2>4. /\ StoreFits(t) /\ Hand(t, v, k)' /\ t.saved = s.saved /\ t.recent = n.recent
        /\ t.lastSaved = s.lastSaved
    BY <2>1, <2>2, <2>3, ActivateHand
  <2> QED
    BY <2>3, <2>4, EnsureIs
<1> QED
  BY <1>1, <1>2

\* The session of v goes away, and what it showed is kept.
LEMMA LeaveHand ==
  ASSUME Typed, NEW s, NEW v \in Chats, NEW k \in [Chats -> Cached], StoreFits(s), Hand(s, v, k)',
         v \in Range(s.recent) => s.saved[v] = toStoredMessages(s.lastSaved),
         NEW m, m = k[v].messages, NEW t, t = KeepWhatArrived(s, v, m),
         NEW h, h = k \/ h = [k EXCEPT ![v].loading = FALSE]
  PROVE  /\ StoreFits(t) /\ Range(t.recent) = Range(s.recent)
         /\ h \in [Chats -> Cached] /\ Hand(t, Null, h)'
         /\ \A d \in Chats : h[d].known = k[d].known
<1>1. ChatIs(v, TRUE, s.saved[v], k[v], s.agentOf[v], v \in Range(s.recent), s.created)'
  BY DEF Hand
<1>2. m \in Seq(Message) /\ k[v] \in Cached
  BY DEF Cached
<1>3. /\ StoreFits(t) /\ Range(t.recent) = Range(s.recent) /\ t.created = s.created
      /\ t.agentOf = s.agentOf
      /\ \A d \in Chats \ {v} : t.saved[d] = s.saved[d]
      /\ v \notin Range(s.recent) => t.saved[v] = s.saved[v]
      /\ v \in Range(s.recent) =>
           t.saved[v] = toStoredMessages(m) \/ (t.saved[v] = s.saved[v] /\ m = <<>>)
  <2>1. CASE m = <<>> \/ m = s.lastSaved
    BY <2>1 DEF KeepWhatArrived
  <2>2. CASE ~(m = <<>> \/ m = s.lastSaved)
    <3>1. t = saveChatMessages(s, v, m)
      BY <2>2 DEF KeepWhatArrived
    <3> QED
      BY <1>2, <3>1, SaveIs
  <2> QED
    BY <2>1, <2>2
<1>4. /\ h \in [Chats -> Cached]
      /\ \A d \in Chats \ {v} : h[d] = k[d]
      /\ h[v].known = k[v].known /\ h[v].messages = k[v].messages /\ h[v].error = k[v].error
      /\ h[v] = k[v] \/ h[v].loading = FALSE
  BY <1>2 DEF Cached
<1>5. ASSUME NEW d \in Chats, d # v
      PROVE  ChatIs(d, d = Null, t.saved[d], h[d], t.agentOf[d], d \in Range(t.recent), t.created)'
  <2>1. ChatIs(d, FALSE, s.saved[d], k[d], s.agentOf[d], d \in Range(s.recent), s.created)'
    BY <1>5 DEF Hand
  <2>2. d # Null
    BY ChatPageAssumption DEF Chats
  <2> QED
    BY <1>3, <1>4, <1>5, <2>1, <2>2
<1>6. ChatIs(v, FALSE, t.saved[v], h[v], t.agentOf[v], v \in Range(t.recent), t.created)'
  <2>1. k[v].known
    BY <1>1 DEF ChatIs
  <2>0. PICK kept : kept = toStoredMessages(m)
    OBVIOUS
  <2>2. /\ MessagesFit(kept, v)' /\ Len(kept) <= MaxStored /\ (HasWords(m, v)' => HasWords(kept, v)')
        /\ MessagesFit(m, v)'
    BY <1>1, <2>0, KeptFitsNext DEF ChatIs
  <2>3. v \notin Range(t.recent) => t.saved[v] = <<>> /\ t.agentOf[v] = Null
    BY <1>1, <1>3, <2>1 DEF ChatIs
  <2>4. v \in Range(t.recent) => t.saved[v] = kept \/ (t.saved[v] = s.saved[v] /\ m = <<>>)
    BY <1>3, <2>0
  <2>5. v \notin adrift' /\ v \in Range(t.recent) => t.saved[v] = kept
    <3> SUFFICES ASSUME v \notin adrift', v \in Range(t.recent), t.saved[v] = s.saved[v], m = <<>>
                 PROVE  s.saved[v] = kept
      BY <2>4
    <3>1. ~k[v].loading
      BY <1>1 DEF ChatIs
    <3>2. toStoredMessages(m)' = toStoredMessages(m)
      BY OrderStays
    <3> QED
      BY <1>1, <1>3, <2>0, <2>1, <3>1, <3>2 DEF ChatIs
  <2>6. v \notin adrift' => HasWords(m, v)' /\ (h[v].error => ~h[v].loading)
    BY <1>1, <1>4, <2>1 DEF ChatIs
  <2>7. MessagesFit(t.saved[v], v)' /\ Len(t.saved[v]) <= MaxStored
    <3>1. MessagesFit(s.saved[v], v)' /\ Len(s.saved[v]) <= MaxStored
      BY <1>1 DEF ChatIs
    <3>2. t.saved[v] = kept \/ t.saved[v] = s.saved[v]
      BY <1>3, <2>4
    <3> QED
      BY <2>2, <3>1, <3>2
  <2>8. toStoredMessages(m)' = kept
    BY <2>0, OrderStays
  <2> QED
    BY <1>1, <1>3, <1>4, <2>1, <2>2, <2>3, <2>5, <2>6, <2>7, <2>8 DEF ChatIs
<1>7. v # Null
  BY ChatPageAssumption DEF Chats
<1> QED
  BY <1>3, <1>4, <1>5, <1>6, <1>7 DEF Hand

\* What useChat holds when a session of c is mounted, with the messages m.
Known(k, c, m) == [k EXCEPT ![c].known = TRUE, ![c].messages = m]

\* The session of c is mounted.
LEMMA MountHand ==
  ASSUME NEW t, NEW h \in [Chats -> Cached], StoreFits(t), Hand(t, Null, h)', NEW c,
         c \in Range(t.recent),
         NEW m, m = IF h[c].known THEN h[c].messages ELSE t.saved[c],
         NEW u, u = Persist([t EXCEPT !.lastSaved = t.saved[c]], c, m, h[c].loading),
         NEW g, g = Known(h, c, m)
  PROVE  /\ StoreFits(u) /\ Range(u.recent) = Range(t.recent)
         /\ u.saved[c] = toStoredMessages(u.lastSaved)
         /\ g \in [Chats -> Cached] /\ Hand(u, c, g)' /\ g[c].known /\ g[c].messages = m
         /\ \A d \in Chats : h[d].known => g[d].known
<1>1. c \in Chats /\ c # Null
  BY ChatPageAssumption DEF StoreFits, Chats
<1>2. ChatIs(c, FALSE, t.saved[c], h[c], t.agentOf[c], TRUE, t.created)'
  <2>1. ChatIs(c, c = Null, t.saved[c], h[c], t.agentOf[c], c \in Range(t.recent), t.created)'
    BY <1>1 DEF Hand
  <2> QED
    BY <1>1, <2>1
<1>3. m \in Seq(Message) /\ MessagesFit(m, c)' /\ h[c] \in Cached /\ h[c].loading \in BOOLEAN
  BY <1>1, <1>2 DEF Cached, StoreFits, ChatIs
<1>4. /\ StoreFits(u) /\ Range(u.recent) = Range(t.recent) /\ u.created = t.created
      /\ u.agentOf = t.agentOf
      /\ \A d \in Chats \ {c} : u.saved[d] = t.saved[d]
      /\ u.saved[c] = toStoredMessages(u.lastSaved)
      /\ \/ u.saved[c] = t.saved[c] /\ h[c].loading /\ m # <<>> /\ ~IsUser(Last(m))
         \/ u.saved[c] = toStoredMessages(m)
  <2>1. PICK n : n = t.saved[c]
    OBVIOUS
  <2>2. PICK w : w = [t EXCEPT !.lastSaved = n]
    OBVIOUS
  <2>3. n \in Seq(Message) /\ n = toStoredMessages(n)
    <3>1. n \in Seq(Message) /\ Len(n) <= MaxStored
      BY <1>1, <1>2, <2>1 DEF ChatIs, StoreFits
    <3> QED
      BY <3>1, KeptIs
  <2>4. /\ StoreFits(w) /\ w.recent = t.recent /\ w.created = t.created /\ w.agentOf = t.agentOf
        /\ w.saved = t.saved /\ w.lastSaved = n
    BY <2>2, <2>3 DEF StoreFits
  <2>5. w.saved[c] = toStoredMessages(w.lastSaved)
    BY <2>1, <2>3, <2>4
  <2>6. u = Persist(w, c, m, h[c].loading)
    BY <2>1, <2>2
  <2> QED
    BY <1>1, <1>3, <2>4, <2>5, <2>6, PersistIs
<1>5. /\ g \in [Chats -> Cached]
      /\ \A d \in Chats \ {c} : g[d] = h[d]
      /\ g[c].known /\ g[c].messages = m /\ g[c].error = h[c].error /\ g[c].loading = h[c].loading
  BY <1>1, <1>3 DEF Cached, Known
<1>6. ASSUME NEW d \in Chats, d # c
      PROVE  ChatIs(d, d = c, u.saved[d], g[d], u.agentOf[d], d \in Range(u.recent), u.created)'
  <2>1. ChatIs(d, d = Null, t.saved[d], h[d], t.agentOf[d], d \in Range(t.recent), t.created)'
    BY DEF Hand
  <2>2. d # Null
    BY ChatPageAssumption DEF Chats
  <2> QED
    BY <1>4, <1>5, <1>6, <2>1, <2>2
<1>7. ChatIs(c, TRUE, u.saved[c], g[c], u.agentOf[c], TRUE, u.created)'
  <2>0. PICK kept : kept = toStoredMessages(m)
    OBVIOUS
  <2>1. /\ MessagesFit(kept, c)' /\ Len(kept) <= MaxStored /\ (HasWords(m, c)' => HasWords(kept, c)')
        /\ toStoredMessages(m)' = kept
    BY <1>3, <2>0, KeptFitsNext, OrderStays
  <2>6. MessagesFit(u.saved[c], c)' /\ MessagesFit(g[c].messages, c)' /\ Len(u.saved[c]) <= MaxStored
    BY <1>2, <1>3, <1>4, <1>5, <2>0, <2>1 DEF ChatIs
  <2>2. g[c].loading => g[c].messages # <<>>
    BY <1>2, <1>5 DEF ChatIs, NotCached
  <2>3. ~(c > u.created)
    <3>1. /\ c \in Range(u.recent) /\ Range(u.recent) \subseteq 1 .. u.created
          /\ u.created \in 0 .. MaxChats /\ MaxChats \in Nat
      BY <1>4, ChatPageAssumption DEF StoreFits
    <3> QED
      BY <3>1
  <2>4. c \notin adrift' => HasWords(m, c)' /\ HasWords(u.saved[c], c)'
    BY <1>2, <1>4, <2>0, <2>1 DEF ChatIs
  <2>5. ~g[c].loading => u.saved[c] = kept
    BY <1>4, <1>5, <2>0
  <2> QED
    BY <1>2, <1>4, <1>5, <2>1, <2>2, <2>3, <2>4, <2>5, <2>6 DEF ChatIs
<1> QED
  BY <1>4, <1>5, <1>6, <1>7 DEF Hand

-----------------------------------------------------------------------------
(* Requests and decisions that stay. *)

\* The session on the screen is one of a chat the store has.
LEMMA ViewIsChat ==
  ASSUME Typed
  PROVE  /\ Range(recent) \subseteq Chats /\ Null \notin Chats
         /\ view # Null => view \in Chats /\ view \in Range(recent)
BY StoreIsStore, ChatPageAssumption DEF Typed, StoreFits, Chats

\* A request stays right, if its chat has gone adrift or still waits for it.
LEMMA RequestKeeps ==
  ASSUME NEW r \in Request, RequestFits(r), Advance, actions'[r.id] = "none",
         adrift \subseteq adrift', agents' \subseteq agents, cache'[r.chat].known,
         \/ r.chat \in adrift'
         \/ /\ said'[r.chat] \subseteq said[r.chat] /\ cache'[r.chat].loading
            /\ view' = r.chat /\ handle' = r.id
  PROVE  RequestFits(r)'
<1>1. r.chat \in Chats /\ r.id \in 1 .. ids /\ MessagesFit(r.base, r.chat)
  BY DEF Request, RequestFits
<1>2. MessagesFit(r.base, r.chat)'
  BY <1>1, MessagesKeep
<1>3. r.id \in 1 .. ids' /\ \A c \in Chats : r.id \notin said'[c]
  BY <1>1 DEF Advance, RequestFits
<1>4. PICK c, b : c = r.chat /\ b = r.base
  OBVIOUS
<1>5. /\ Ids(b)' = Ids(b) /\ (IsUser(Last(b))' <=> IsUser(Last(b)))
      /\ HasWords(b, c) /\ said'[c] \subseteq said[c] => HasWords(b, c)'
  BY OrderStays, WordsKeep DEF IsUser, Last
<1> QED
  BY <1>1, <1>2, <1>3, <1>4, <1>5 DEF RequestFits

\* A decision stays right while its session is on the screen, or has gone before.
LEMMA DecisionKeeps ==
  ASSUME NEW d \in Decision, DecisionFits(d), Advance, d.mounted => d.chat = view',
         cache'[d.chat].known
  PROVE  DecisionFits(d)'
<1>1. d.chat \in Chats /\ d.about \in 1 .. MaxIds /\ d.status \in Statuses
  BY DEF Decision
<1>2. MessagesFit(d.base, d.chat)'
  BY <1>1, MessagesKeep DEF DecisionFits
<1>3. d.about \in 1 .. ids'
  BY DEF Advance, DecisionFits
<1>4. Accepted(d) => actions'[d.about] = d.status
  BY <1>1 DEF DecisionFits, Advance, Accepted
<1> QED
  BY <1>2, <1>3, <1>4 DEF DecisionFits, Accepted

\* Decisions whose session goes away remember what it showed.
LEMMA LoseKeeps ==
  ASSUME IInv, Advance, view # Null, NEW d \in LoseSession,
         \A c \in Chats : cache[c].known => cache'[c].known
  PROVE  d \in Decision /\ DecisionFits(d)'
<1>1. PICK e \in decisions :
        d = IF e.mounted THEN [e EXCEPT !.mounted = FALSE, !.base = Shown(view), !.agent = agentOf[view]]
            ELSE e
  BY DEF LoseSession
<1>2. /\ e \in Decision /\ DecisionFits(e) /\ view \in Chats
      /\ e.chat \in Chats /\ cache'[e.chat].known
  BY ViewIsChat DEF IInv, Typed, Decision, DecisionFits
<1>3. CASE ~e.mounted
  BY <1>1, <1>2, <1>3, DecisionKeeps
<1>4. CASE e.mounted
  <2>1. PICK m, g : m = Shown(view) /\ g = agentOf[view]
    OBVIOUS
  <2>2. MessagesFit(m, view) /\ g \in Agents \cup {Null}
    BY <1>2, <2>1 DEF IInv, Typed, ChatFits, ChatIs, Shown
  <2>3. d = [e EXCEPT !.mounted = FALSE, !.base = m, !.agent = g]
    BY <1>1, <1>4, <2>1
  <2>4. m \in Seq(Message)
    BY <2>2 DEF MessagesFit, InOrder
  <2>5. /\ d \in Decision /\ d.base = m /\ d.chat = e.chat /\ d.about = e.about
        /\ d.status = e.status /\ d.arrived = e.arrived /\ d.mounted = FALSE
    BY <1>2, <2>2, <2>3, <2>4 DEF Decision
  <2>6. DecisionFits(d)
    BY <1>2, <1>4, <2>2, <2>5 DEF DecisionFits, Accepted
  <2> QED
    BY <1>2, <2>5, <2>6, DecisionKeeps
<1> QED
  BY <1>3, <1>4

\* The card that is shown for messages.
LEMMA CardForIs ==
  ASSUME NEW m
  PROVE  /\ CardFor(m) \in {"none", "loading", "pending", "gone", "error"}
         /\ CardFor(m) # "none" => m # <<>> /\ Last(m).role = "ask"
BY DEF CardFor

\* The variables that make up the invariant, once the chats are right.
LEMMA HandFits ==
  ASSUME NEW u, NEW g, NEW v, StoreFits(u), StoreIs(u), g \in [Chats -> Cached], cache' = g, view' = v,
         Hand(u, v, g)'
  PROVE  (\A d \in Chats : ChatFits(d)') /\ saved' = u.saved /\ lastSaved' = u.lastSaved
<1>1. recent' = u.recent /\ saved' = u.saved /\ lastSaved' = u.lastSaved /\ agentOf' = u.agentOf /\ created' = u.created
  BY StoreOfStore
<1> QED
  BY <1>1 DEF Hand, ChatFits

-----------------------------------------------------------------------------
(* Another session, or none. *)

\* What a switch leaves of the session, the cache and the store.
LEMMA SwitchEffect ==
  ASSUME Typed, NEW s, NEW v, v = view, NEW k, k = cache, StoreFits(s), Hand(s, v, k)',
         v # Null /\ v \in Range(s.recent) => s.saved[v] = toStoredMessages(s.lastSaved),
         NEW c \in Range(s.recent) \cup {Null}, Switch(s, c)
  PROVE  \E u : /\ StoreFits(u) /\ StoreIs(u) /\ Range(u.recent) = Range(s.recent)
                /\ view' = c /\ handle' = 0 /\ list' \in AgentLists /\ (list'.loading => c # Null)
                /\ cache' \in [Chats -> Cached] /\ \A d \in Chats : ChatFits(d)'
                /\ \A d \in Chats : cache[d].known => cache'[d].known
                /\ card' = IF c = Null THEN "none" ELSE CardFor(cache'[c].messages)
                /\ c # Null => cache'[c].known /\ saved'[c] = toStoredMessages(lastSaved')
<1>1. k \in [Chats -> Cached]
  BY DEF Typed
<1>2. PICK t : t = IF v = Null THEN s ELSE KeepWhatArrived(s, v, Shown(v))
  OBVIOUS
<1>3. PICK h : h = IF v = Null THEN k ELSE StopLoading(k, v)
  OBVIOUS
<1>4. MountedIs(t, h, c)
  <2>1. CASE v = Null
    BY <1>2, <1>3, <2>1 DEF Switch
  <2>2. CASE v # Null
    BY <1>2, <1>3, <2>2 DEF Switch
  <2> QED
    BY <2>1, <2>2
<1>5. /\ StoreFits(t) /\ Range(t.recent) = Range(s.recent)
      /\ h \in [Chats -> Cached] /\ Hand(t, Null, h)'
      /\ \A d \in Chats : h[d].known = k[d].known
  <2>1. CASE v = Null
    BY <1>1, <1>2, <1>3, <2>1
  <2>2. CASE v # Null
    <3>1. v \in Chats
      BY <2>2, ViewIsChat
    <3>2. k[v].known
      BY <3>1 DEF Hand, ChatIs
    <3>3. t = KeepWhatArrived(s, v, k[v].messages)
      BY <1>2, <2>2, <3>2 DEF Shown
    <3>4. h = k \/ h = [k EXCEPT ![v].loading = FALSE]
      BY <1>3, <2>2 DEF StopLoading
    <3>5. v \in Range(s.recent) => s.saved[v] = toStoredMessages(s.lastSaved)
      BY <2>2
    <3> QED
      BY <1>1, <3>1, <3>3, <3>4, <3>5, LeaveHand
  <2> QED
    BY <2>1, <2>2
<1>6. view' = c /\ handle' = 0 /\ list' \in AgentLists /\ (list'.loading => c # Null)
  BY <1>4 DEF MountedIs, LoadingAgain, AgentLists
<1>7. CASE c = Null
  <2>1. PICK u : u = [t EXCEPT !.lastSaved = <<>>]
    OBVIOUS
  <2>2. StoreIs(u) /\ cache' = h /\ card' = "none"
    BY <1>4, <1>7, <2>1 DEF MountedIs
  <2>3. /\ StoreFits(u) /\ u.recent = t.recent /\ u.created = t.created /\ u.agentOf = t.agentOf
        /\ u.saved = t.saved
    <3>1. <<>> \in Seq(Message)
      OBVIOUS
    <3> QED
      BY <1>5, <2>1, <3>1 DEF StoreFits
  <2>4. Hand(u, Null, h)'
    BY <1>5, <2>3 DEF Hand
  <2>5. \A d \in Chats : ChatFits(d)'
    BY <1>5, <1>6, <1>7, <2>2, <2>3, <2>4, HandFits
  <2> QED
    BY <1>5, <1>6, <1>7, <2>2, <2>3, <2>5
<1>8. CASE c # Null
  <2>1. PICK m : m = IF h[c].known THEN h[c].messages ELSE t.saved[c]
    OBVIOUS
  <2>2. PICK u : u = Persist([t EXCEPT !.lastSaved = t.saved[c]], c, m, h[c].loading)
    OBVIOUS
  <2>3. PICK g : g = Known(h, c, m)
    OBVIOUS
  <2>4. StoreIs(u) /\ cache' = g /\ card' = CardFor(m)
    BY <1>4, <1>8, <2>1, <2>2, <2>3 DEF MountedIs, Known
  <2>5. c \in Range(t.recent)
    BY <1>5, <1>8
  <2>6. /\ StoreFits(u) /\ Range(u.recent) = Range(t.recent)
        /\ g \in [Chats -> Cached] /\ Hand(u, c, g)' /\ g[c].known /\ g[c].messages = m
        /\ \A d \in Chats : h[d].known => g[d].known
        /\ u.saved[c] = toStoredMessages(u.lastSaved)
    BY <1>5, <2>1, <2>2, <2>3, <2>5, MountHand
  <2>7. (\A d \in Chats : ChatFits(d)') /\ saved' = u.saved /\ lastSaved' = u.lastSaved
    BY <1>6, <2>4, <2>6, HandFits
  <2> QED
    BY <1>5, <1>6, <1>8, <2>4, <2>6, <2>7
<1> QED
  BY <1>7, <1>8

\* No request of a chat that is not adrift outlives its session.
LEMMA SwitchStops ==
  ASSUME IInv, NEW s, NEW c, Switch(s, c)
  PROVE  requests' \subseteq requests /\ \A r \in requests' : r.chat \in adrift
<1>1. \A r \in requests : r.chat \notin adrift => view = r.chat /\ view # Null /\ handle = r.id
  <2>1. \A r \in requests : r.chat \in Chats /\ RequestFits(r)
    BY DEF IInv, Typed, Request, RequestsFit
  <2> QED
    BY <2>1, ViewIsChat DEF RequestFits, IInv
<1> QED
  BY <1>1 DEF Switch, Unstopped

\* A handler that ends with a switch keeps the invariant.
LEMMA SwitchKeeps ==
  ASSUME IInv, NEW s, NEW v, v = view, NEW k, k = cache, StoreFits(s), Hand(s, v, k)',
         v # Null /\ v \in Range(s.recent) => s.saved[v] = toStoredMessages(s.lastSaved),
         NEW c \in Range(s.recent) \cup {Null}, Switch(s, c),
         UNCHANGED <<server, ids, faults, adrift>>,
         picked' \in [Chats -> Agents \cup {Null}], said' \in [Chats -> SUBSET (1 .. ids)],
         \A d \in Chats : said'[d] \in {said[d], {}} /\ picked'[d] \in {picked[d], Null}
  PROVE  IInv'
<1>1. PICK u : /\ StoreFits(u) /\ StoreIs(u) /\ Range(u.recent) = Range(s.recent)
               /\ view' = c /\ handle' = 0 /\ list' \in AgentLists /\ (list'.loading => c # Null)
               /\ cache' \in [Chats -> Cached] /\ \A d \in Chats : ChatFits(d)'
               /\ \A d \in Chats : cache[d].known => cache'[d].known
               /\ card' = IF c = Null THEN "none" ELSE CardFor(cache'[c].messages)
               /\ c # Null => cache'[c].known /\ saved'[c] = toStoredMessages(lastSaved')
  BY SwitchEffect DEF IInv
<1>2. requests' \subseteq requests /\ \A r \in requests' : r.chat \in adrift
  BY SwitchStops
<1>3. Advance
  BY AdvanceNow DEF IInv, server
<1>4. \A d \in decisions' : d \in Decision /\ DecisionFits(d)'
  <2>1. CASE v = Null
    <3>1. decisions' = decisions
      BY <2>1 DEF Switch
    <3>2. \A d \in decisions : /\ d \in Decision /\ DecisionFits(d) /\ d.chat \in Chats
                               /\ cache'[d.chat].known
      BY <1>1 DEF IInv, Typed, Decision, DecisionFits
    <3>3. \A d \in decisions : ~d.mounted
      BY <2>1, <3>2, ViewIsChat DEF DecisionFits, IInv
    <3> QED
      BY <1>3, <3>1, <3>2, <3>3, DecisionKeeps
  <2>2. CASE v # Null
    BY <1>1, <1>3, <2>2, LoseKeeps DEF Switch
  <2> QED
    BY <2>1, <2>2
<1>5. Typed'
  <2>1. /\ recent' \in Seq(1 .. created') /\ IsInjective(recent')
        /\ saved' \in [Chats -> Seq(Message)] /\ lastSaved' \in Seq(Message)
        /\ agentOf' \in [Chats -> Agents \cup {Null}]
        /\ created' \in 0 .. MaxChats
        /\ active' \in Chats \cup {Null}
        /\ recent' = u.recent
    BY <1>1, StoreOfStore
  <2>2. view' \in Range(recent') \cup {Null}
    BY <1>1, <2>1
  <2>3. handle' \in 0 .. ids'
    BY <1>1 DEF IInv, Typed
  <2>4. card' \in {"none", "loading", "pending", "gone", "error"}
    BY <1>1, CardForIs
  <2> QED
    BY <1>1, <1>2, <1>4, <2>1, <2>2, <2>3, <2>4 DEF Typed, IInv, server
<1>6. Fresh'
  BY DEF IInv, Fresh, server
<1>7. SessionFits'
  <2>1. CASE c = Null
    BY <1>1, <2>1 DEF SessionFits
  <2>2. CASE c # Null
    <3>1. Shown(view)' = cache'[c].messages /\ view' = c
      BY <1>1, <2>2 DEF Shown
    <3>2. toStoredMessages(lastSaved)' = toStoredMessages(lastSaved')
      BY DEF toStoredMessages
    <3> QED
      BY <1>1, <2>2, <3>1, <3>2, CardForIs DEF SessionFits
  <2> QED
    BY <2>1, <2>2
<1>8. RequestsFit'
  <2>1. ASSUME NEW r \in requests'
        PROVE  RequestFits(r)'
    <3>1. r \in Request /\ RequestFits(r) /\ r.chat \in adrift /\ r.chat \in Chats
      BY <1>2 DEF IInv, Typed, RequestsFit, Request
    <3>2. actions'[r.id] = "none" /\ cache'[r.chat].known
      BY <1>1, <3>1 DEF RequestFits, server
    <3> QED
      BY <1>3, <3>1, <3>2, RequestKeeps DEF server
  <2> QED
    BY <1>2, <2>1 DEF RequestsFit, IInv
<1> QED
  BY <1>1, <1>4, <1>5, <1>6, <1>7, <1>8 DEF IInv

-----------------------------------------------------------------------------
(* Opening, leaving and managing chats. *)

\* A handler that begins finds the chats as they are.
LEMMA HandNow ==
  ASSUME IInv, UNCHANGED <<server, ids, adrift>>,
         \A d \in Chats : said'[d] \in {said[d], {}} /\ picked'[d] \in {picked[d], Null},
         NEW s, s = Store, NEW v, v = view, NEW k, k = cache
  PROVE  /\ StoreFits(s) /\ Hand(s, v, k)' /\ s.recent = recent /\ s.created = created
         /\ v # Null => s.saved[v] = toStoredMessages(s.lastSaved)
<1>1. Advance
  BY AdvanceNow DEF IInv, server
<1>2. agents' \subseteq agents /\ adrift \subseteq adrift'
  BY DEF server
<1>3. Hand(s, v, k)'
  BY <1>1, <1>2, HandKeeps
<1>4. s.saved = saved /\ s.lastSaved = lastSaved
  BY StoreIsStore DEF IInv
<1> QED
  BY <1>3, <1>4, StoreIsStore DEF IInv, SessionFits

\* The page is opened.
LEMMA OpenKeeps ==
  ASSUME IInv, OpenPage
  PROVE  IInv'
<1>1. /\ view = Null /\ MayCreate(Store) /\ UNCHANGED <<server, ids, faults, picked, said, adrift>>
  BY DEF OpenPage
<1>2. PICK s, v, k : s = Store /\ v = view /\ k = cache
  OBVIOUS
<1>3. StoreFits(s) /\ Hand(s, v, k)'
  BY <1>1, <1>2, HandNow
<1>4. PICK t : t = EnsureChat(s)
  OBVIOUS
<1>5. Switch(t, pickActiveChat(t))
  BY <1>2, <1>4 DEF OpenPage
<1>6. StoreFits(t) /\ Hand(t, v, k)' /\ pickActiveChat(t) \in Range(t.recent)
  BY <1>1, <1>2, <1>3, <1>4, EnsureHand
<1> QED
  BY <1>1, <1>2, <1>5, <1>6, SwitchKeeps DEF IInv, Typed

\* The page is left.
LEMMA LeaveKeeps ==
  ASSUME IInv, LeavePage
  PROVE  IInv'
<1>1. UNCHANGED <<server, ids, faults, picked, said, adrift>> /\ Switch(Store, Null)
  BY DEF LeavePage
<1>2. PICK s, v, k : s = Store /\ v = view /\ k = cache
  OBVIOUS
<1>3. StoreFits(s) /\ Hand(s, v, k)' /\ (v # Null => s.saved[v] = toStoredMessages(s.lastSaved))
  BY <1>1, <1>2, HandNow
<1> QED
  BY <1>1, <1>2, <1>3, SwitchKeeps DEF IInv, Typed

\* Another chat is opened; an empty one is deleted, and its session saves nothing on its way out.
LEMMA SwitchChatKeeps ==
  ASSUME IInv, SwitchChat
  PROVE  IInv'
<1>1. UNCHANGED <<server, ids, faults, picked, said, adrift>> /\ view # Null
  BY DEF SwitchChat
<1>2. PICK s, v, k : s = Store /\ v = view /\ k = cache
  OBVIOUS
<1>3. /\ StoreFits(s) /\ Hand(s, v, k)' /\ s.recent = recent /\ v \in Chats
      /\ s.saved[v] = toStoredMessages(s.lastSaved)
  BY <1>1, <1>2, HandNow, ViewIsChat DEF IInv
<1>4. PICK c \in Range(recent) \ {v} :
        LET a == setActiveChat(s, c)
        IN  Switch(IF Shown(v) = <<>> THEN deleteChat(a, v) ELSE a, c)
  BY <1>2 DEF SwitchChat
<1>5. PICK a : a = setActiveChat(s, c)
  OBVIOUS
<1>6. /\ StoreFits(a) /\ Hand(a, v, k)' /\ a.recent = s.recent /\ a.saved = s.saved
      /\ a.lastSaved = s.lastSaved
  BY <1>3, <1>5, ActivateHand, ViewIsChat DEF IInv
<1>7. CASE Shown(v) = <<>>
  <2>1. PICK t : t = deleteChat(a, v)
    OBVIOUS
  <2>2. Switch(t, c)
    BY <1>4, <1>5, <1>7, <2>1
  <2>3. StoreFits(t) /\ Hand(t, v, k)' /\ Range(t.recent) = Range(a.recent) \ {v}
    BY <1>3, <1>6, <2>1, DeleteHand
  <2>4. c \in Range(t.recent) /\ v \notin Range(t.recent)
    BY <1>3, <1>4, <1>6, <2>3
  <2> QED
    BY <1>1, <1>2, <2>2, <2>3, <2>4, SwitchKeeps DEF IInv, Typed
<1>8. CASE Shown(v) # <<>>
  <2>1. Switch(a, c)
    BY <1>4, <1>5, <1>8
  <2>2. c \in Range(a.recent) /\ a.saved[v] = toStoredMessages(a.lastSaved)
    BY <1>3, <1>4, <1>6
  <2> QED
    BY <1>1, <1>2, <1>6, <2>1, <2>2, SwitchKeeps DEF IInv, Typed
<1> QED
  BY <1>7, <1>8

\* A new chat is opened.
LEMMA NewChatKeeps ==
  ASSUME IInv, startNewChat
  PROVE  IInv'
<1>1. UNCHANGED <<server, ids, faults, picked, said, adrift>> /\ created < MaxChats
  BY DEF startNewChat
<1>2. PICK s, v, k : s = Store /\ v = view /\ k = cache
  OBVIOUS
<1>3. /\ StoreFits(s) /\ Hand(s, v, k)' /\ s.recent = recent /\ s.created = created
      /\ v # Null => s.saved[v] = toStoredMessages(s.lastSaved)
  BY <1>1, <1>2, HandNow
<1>4. PICK n : n = createChat(s)
  OBVIOUS
<1>5. /\ StoreFits(n) /\ Hand(n, v, k)' /\ n.created \in Chats /\ n.saved = s.saved
      /\ n.lastSaved = s.lastSaved
      /\ Range(n.recent) = Range(s.recent) \cup {n.created}
  BY <1>1, <1>3, <1>4, CreateHand
<1>6. PICK t : t = setActiveChat(n, n.created)
  OBVIOUS
<1>7. /\ StoreFits(t) /\ Hand(t, v, k)' /\ t.recent = n.recent /\ t.saved = n.saved
      /\ t.lastSaved = n.lastSaved
  BY <1>5, <1>6, ActivateHand
<1>8. Switch(t, n.created) /\ n.created \in Range(t.recent)
  BY <1>2, <1>4, <1>5, <1>6, <1>7 DEF startNewChat
<1> QED
  BY <1>1, <1>2, <1>3, <1>5, <1>7, <1>8, SwitchKeeps DEF IInv, Typed

\* The chat on the screen is deleted, and another one opened.
LEMMA DeleteKeeps ==
  ASSUME IInv, deleteCurrentChat
  PROVE  IInv'
<1>1. /\ UNCHANGED <<server, ids, faults, adrift>> /\ view # Null
      /\ picked' = [picked EXCEPT ![view] = Null] /\ said' = [said EXCEPT ![view] = {}]
  BY DEF deleteCurrentChat
<1>2. PICK s, v, k : s = Store /\ v = view /\ k = cache
  OBVIOUS
<1>3. /\ picked' \in [Chats -> Agents \cup {Null}] /\ said' \in [Chats -> SUBSET (1 .. ids)]
      /\ \A d \in Chats : said'[d] \in {said[d], {}} /\ picked'[d] \in {picked[d], Null}
  BY <1>1 DEF IInv, Typed
<1>4. /\ StoreFits(s) /\ Hand(s, v, k)' /\ v \in Chats
      /\ s.recent = recent /\ v \in Range(s.recent)
  BY <1>1, <1>2, <1>3, HandNow, ViewIsChat DEF IInv
<1>5. PICK a : a = deleteChat(s, v)
  OBVIOUS
<1>6. /\ StoreFits(a) /\ Hand(a, v, k)' /\ Range(a.recent) = Range(s.recent) \ {v}
      /\ MayCreate(a) /\ a.created = s.created
  <2>1. MayCreate(a)
    BY <1>2, <1>5 DEF deleteCurrentChat
  <2> QED
    BY <1>4, <1>5, <2>1, DeleteHand
<1>7. PICK t : t = EnsureChat(a)
  OBVIOUS
<1>8. /\ StoreFits(t) /\ Hand(t, v, k)' /\ pickActiveChat(t) \in Range(t.recent) /\ t.saved = a.saved
      /\ Range(t.recent) \subseteq Range(a.recent) \cup {a.created + 1}
  BY <1>6, <1>7, EnsureHand
<1>9. Switch(t, pickActiveChat(t))
  BY <1>2, <1>5, <1>7 DEF deleteCurrentChat
<1>10. v \notin Range(t.recent)
  <2>1. v # s.created + 1
    BY <1>4 DEF StoreFits
  <2> QED
    BY <1>6, <1>8, <2>1
<1> QED
  BY <1>1, <1>2, <1>3, <1>8, <1>9, <1>10, SwitchKeeps DEF IInv, Typed

-----------------------------------------------------------------------------
(* Requests and replies. *)

\* Chat c shows x from now on, and the store becomes u if a session shows the chat.
Shows(c, x, u) ==
  /\ view' = view /\ cache' = [cache EXCEPT ![c] = x]
  /\ u = IF view = c THEN Persist(Store, c, x.messages, x.loading) ELSE Store
  /\ StoreIs(u)

\* What it may show: nothing that the user wrote is missing.
MayShow(c, x) ==
  /\ cache[c].known /\ x \in Cached /\ x.known
  /\ x.loading => x.messages # <<>>
  /\ c \notin adrift' =>
       /\ view = c /\ HasWords(x.messages, c)' /\ (x.error => ~x.loading)
       /\ said'[c] \subseteq said[c] \/ IsUser(Last(x.messages))

\* Then every chat is right.
LEMMA ShowFits ==
  ASSUME IInv, Advance, agents' = agents, picked' = picked, adrift \subseteq adrift',
         NEW c \in Chats, \A d \in Chats \ {c} : said'[d] = said[d],
         NEW x, MayShow(c, x), MessagesFit(x.messages, c)', NEW u, Shows(c, x, u)
  PROVE  /\ StoreFits(u) /\ Range(u.recent) = Range(recent)
         /\ \A d \in Chats : ChatFits(d)' /\ (cache[d].known => cache'[d].known)
         /\ view # Null => (saved[view] = toStoredMessages(lastSaved))'
<1> USE DEF Shows, MayShow
<1>1. /\ StoreFits(Store) /\ Store.recent = recent /\ Store.saved = saved
      /\ Store.lastSaved = lastSaved
      /\ Store.agentOf = agentOf /\ Store.created = created
  BY StoreIsStore DEF IInv
<1>2. x.messages \in Seq(Message) /\ x.loading \in BOOLEAN
  BY DEF Cached
<1>3. /\ StoreFits(u) /\ Range(u.recent) = Range(recent) /\ u.created = created /\ u.agentOf = agentOf
      /\ \A d \in Chats \ {c} : u.saved[d] = saved[d]
      /\ \/ u.saved[c] = saved[c] /\ x.loading /\ ~IsUser(Last(x.messages))
         \/ u.saved[c] = saved[c] /\ (view # c \/ c \notin Range(recent))
         \/ u.saved[c] = toStoredMessages(x.messages) /\ view = c
      /\ view # Null => u.saved[view] = toStoredMessages(u.lastSaved)
  <2>0. view # Null => saved[view] = toStoredMessages(lastSaved)
    BY DEF IInv, SessionFits
  <2>1. CASE view = c
    <3>1. c # Null /\ Store.saved[c] = toStoredMessages(Store.lastSaved) /\ c \in Range(recent)
      BY <1>1, <2>0, <2>1, ViewIsChat DEF IInv
    <3> QED
      BY <1>1, <1>2, <2>1, <3>1, PersistIs
  <2>2. CASE view # c
    BY <1>1, <2>0, <2>2
  <2> QED
    BY <2>1, <2>2
<1>4. /\ Range(recent') = Range(recent) /\ saved' = u.saved /\ agentOf' = agentOf
      /\ created' = created /\ lastSaved' = u.lastSaved
  BY <1>3, StoreOfStore
<1>5. cache' \in [Chats -> Cached] /\ cache'[c] = x /\ \A d \in Chats \ {c} : cache'[d] = cache[d]
  BY DEF IInv, Typed
<1>6. ASSUME NEW d \in Chats, d # c
      PROVE  ChatFits(d)'
  <2>1. ChatFits(d) /\ said'[d] = said[d] /\ (d \notin adrift' => d \notin adrift)
    BY <1>6 DEF IInv
  <2>2. PICK p, q : p = saved[d] /\ q = cache[d].messages
    OBVIOUS
  <2>3. MessagesFit(p, d)' /\ MessagesFit(q, d)'
    BY <2>1, <2>2, MessagesKeep DEF ChatFits, ChatIs
  <2>4. (HasWords(p, d) => HasWords(p, d)') /\ (HasWords(q, d) => HasWords(q, d)')
    BY <2>1, WordsKeep
  <2>5. p = saved'[d] /\ q = cache'[d].messages
    BY <1>3, <1>4, <1>5, <1>6, <2>2
  <2>6. toStoredMessages(q)' = toStoredMessages(q)
    BY OrderStays
  <2> QED
    BY <1>3, <1>4, <1>5, <1>6, <2>1, <2>2, <2>3, <2>4, <2>5, <2>6 DEF ChatFits, ChatIs
<1>7. ChatFits(c)'
  <2>1. ChatFits(c) /\ (c \notin adrift' => c \notin adrift)
    BY DEF IInv
  <2>2. PICK p, q, kept : p = u.saved[c] /\ q = saved[c] /\ kept = toStoredMessages(x.messages)
    OBVIOUS
  <2>9. /\ MessagesFit(kept, c)' /\ Len(kept) <= MaxStored
        /\ HasWords(x.messages, c)' => HasWords(kept, c)'
    BY <2>2, KeptFitsNext
  <2>10. toStoredMessages(x.messages)' = kept
    BY <2>2, OrderStays
  <2>3. MessagesFit(p, c)' /\ Len(p) <= MaxStored
    <3>2. MessagesFit(q, c)' /\ Len(q) <= MaxStored
      BY <2>1, <2>2, MessagesKeep DEF ChatFits, ChatIs
    <3>3. p = q \/ p = kept
      BY <1>3, <2>2
    <3> QED
      BY <2>9, <3>2, <3>3
  <2>4. ~(c > created)
    BY <2>1 DEF ChatFits, ChatIs
  <2>5. c \notin Range(recent) => p = <<>>
    BY <1>3, <2>1, <2>2, ViewIsChat DEF ChatFits, ChatIs, IInv, Typed
  <2>6. c \notin adrift' /\ c \in Range(recent) => HasWords(p, c)'
    <3> SUFFICES ASSUME c \notin adrift', c \in Range(recent)
                 PROVE  HasWords(p, c)'
      OBVIOUS
    <3>1. CASE p = kept
      BY <2>9, <3>1
    <3>2. CASE p # kept
      <4>1. p = q /\ ~IsUser(Last(x.messages))
        BY <1>3, <2>2, <3>2
      <4>2. HasWords(q, c) /\ said'[c] \subseteq said[c]
        BY <2>1, <2>2, <4>1 DEF ChatFits, ChatIs
      <4> QED
        BY <4>1, <4>2, WordsKeep
    <3> QED
      BY <3>1, <3>2
  <2>7. c \notin adrift' /\ c \in Range(recent) /\ ~x.loading => p = kept
    BY <1>3, <2>2
  <2>8. ChatIs(c, c = view, p, x, agentOf[c], c \in Range(recent), created)'
    <3>1. PICK g, w : g = agentOf[c] /\ w = (c \in Range(recent))
      OBVIOUS
    <3>2. PICK n : n = created
      OBVIOUS
    <3>3. (w => c \in Range(recent)) /\ (c \in Range(recent) => w)
      BY <3>1
    <3>4. ~w => p = <<>> /\ g = Null
      BY <2>1, <2>5, <3>1, <3>3 DEF ChatFits, ChatIs
    <3>5. w /\ picked'[c] \in agents' => g = picked'[c]
      BY <2>1, <3>1, <3>3 DEF ChatFits, ChatIs
    <3>6. ChatIs(c, c = view, p, x, g, w, n)'
      BY <2>3, <2>4, <2>6, <2>7, <2>10, <3>2, <3>3, <3>4, <3>5 DEF ChatIs
    <3> QED
      BY <1>3, <1>4, <3>1, <3>2, <3>3, <3>6
  <2> QED
    BY <1>4, <1>5, <2>2, <2>8 DEF ChatFits
<1>8. view # Null => (saved[view] = toStoredMessages(lastSaved))'
  <2>1. toStoredMessages(lastSaved)' = toStoredMessages(lastSaved')
    BY DEF toStoredMessages
  <2> QED
    BY <1>3, <1>4, <2>1
<1> QED
  BY <1>3, <1>5, <1>6, <1>7, <1>8

\* The types of the store and the cache, once the chats are right.
LEMMA ShowTyped ==
  ASSUME IInv, NEW c \in Chats, NEW x \in Cached, NEW u, Shows(c, x, u), StoreFits(u),
         Range(u.recent) = Range(recent)
  PROVE  /\ recent' \in Seq(1 .. created') /\ IsInjective(recent')
         /\ saved' \in [Chats -> Seq(Message)] /\ lastSaved' \in Seq(Message)
         /\ agentOf' \in [Chats -> Agents \cup {Null}]
         /\ created' \in 0 .. MaxChats
         /\ active' \in Chats \cup {Null}
         /\ view' \in Range(recent') \cup {Null}
         /\ cache' \in [Chats -> Cached]
         /\ cache'[c] = x /\ \A d \in Chats \ {c} : cache'[d] = cache[d]
BY StoreOfStore DEF IInv, Typed, Shows

\* The chat on the screen is shown as useChat has it.
LEMMA ShownIs ==
  ASSUME IInv, view # Null
  PROVE  /\ view \in Chats /\ view \in Range(recent) /\ cache[view].known
         /\ Shown(view) = cache[view].messages /\ Shown(view) \in Seq(Message)
         /\ MessagesFit(Shown(view), view) /\ cache[view] \in Cached
<1>1. view \in Chats /\ view \in Range(recent)
  BY ViewIsChat DEF IInv
<1>2. ChatFits(view)
  BY <1>1 DEF IInv
<1> QED
  BY <1>1, <1>2 DEF ChatFits, ChatIs, Shown, IInv, Typed, MessagesFit, InOrder

\* A step of a request that goes on, or ends: chat c shows x.
LEMMA AnswerKeeps ==
  ASSUME IInv, NEW c \in Chats, NEW x, MayShow(c, x), MessagesFit(x.messages, c)',
         NEW u, Shows(c, x, u), UNCHANGED <<decisions, agents, ids, picked, said, adrift>>,
         requests' \subseteq requests, \A r \in requests' : actions'[r.id] = "none",
         \A r \in requests' : r.chat \notin adrift => cache'[r.chat].loading /\ handle' = r.id,
         handle' \in {handle, 0}, list' \in AgentLists, list'.loading => view # Null,
         faults' \in 0 .. MaxFaults, actions' \in [1 .. MaxIds -> {"none", "pending"} \cup Statuses],
         \A i \in 1 .. MaxIds : actions'[i] # actions[i] => i \in 1 .. ids /\ actions[i] \notin Statuses,
         card' \in {"none", "loading", "pending", "gone", "error"}, view # c => card' = card,
         view = c /\ card' # "none" => x.messages # <<>> /\ Last(x.messages).role = "ask"
  PROVE  IInv'
<1>0. view' = view
  BY DEF Shows
<1>1. Advance
  BY AdvanceNow DEF IInv
<1>2. /\ StoreFits(u) /\ Range(u.recent) = Range(recent)
      /\ \A d \in Chats : ChatFits(d)' /\ (cache[d].known => cache'[d].known)
      /\ view # Null => (saved[view] = toStoredMessages(lastSaved))'
  <2>1. agents' = agents /\ picked' = picked /\ adrift \subseteq adrift' /\ said' = said
    OBVIOUS
  <2> QED
    BY <1>1, <2>1, ShowFits
<1>3. /\ recent' \in Seq(1 .. created') /\ IsInjective(recent')
      /\ saved' \in [Chats -> Seq(Message)] /\ lastSaved' \in Seq(Message)
      /\ agentOf' \in [Chats -> Agents \cup {Null}]
      /\ created' \in 0 .. MaxChats
      /\ active' \in Chats \cup {Null}
      /\ view' \in Range(recent') \cup {Null}
      /\ cache' \in [Chats -> Cached]
      /\ cache'[c] = x /\ \A d \in Chats \ {c} : cache'[d] = cache[d]
  BY <1>2, ShowTyped DEF MayShow
<1>4. Typed'
  <2>1. ids \in Nat /\ handle' \in 0 .. ids'
    BY ChatPageAssumption DEF IInv, Typed
  <2> QED
    BY <1>0, <1>3, <2>1 DEF Typed, IInv
<1>5. Fresh'
  <2> SUFFICES ASSUME NEW i \in 1 .. MaxIds, i > ids
               PROVE  actions'[i] = "none"
    BY DEF Fresh
  <2>1. actions[i] = "none" /\ i \notin 1 .. ids
    BY ChatPageAssumption DEF IInv, Fresh, Typed
  <2> QED
    BY <2>1
<1>6. SessionFits'
  <2>1. CASE view = c
    <3>1. Shown(view)' = x.messages
      BY <1>0, <1>3, <2>1 DEF Shown, MayShow
    <3>2. view # Null
      BY <2>1, ViewIsChat DEF IInv
    <3> QED
      BY <1>0, <1>2, <2>1, <3>1, <3>2 DEF SessionFits
  <2>2. CASE view # c /\ view # Null
    <3>1. Shown(view)' = Shown(view)
      BY <1>0, <1>3, <2>2, ShownIs DEF Shown
    <3> QED
      BY <1>0, <1>2, <2>2, <3>1 DEF SessionFits, IInv
  <2>3. CASE view # c /\ view = Null
    BY <1>0, <2>3 DEF SessionFits, IInv
  <2> QED
    BY <2>1, <2>2, <2>3
<1>7. RequestsFit'
  <2>1. ASSUME NEW r \in requests'
        PROVE  RequestFits(r)'
    <3>1. r \in Request /\ RequestFits(r) /\ r.chat \in Chats
      BY DEF IInv, Typed, RequestsFit, Request
    <3>2. cache'[r.chat].known /\ (r.chat \notin adrift => view = r.chat)
      BY <1>2, <3>1 DEF RequestFits
    <3> QED
      BY <1>0, <1>1, <3>1, <3>2, RequestKeeps
  <2> QED
    BY <2>1 DEF RequestsFit, IInv
<1>8. \A d \in decisions' : DecisionFits(d)'
  <2> SUFFICES ASSUME NEW d \in decisions PROVE DecisionFits(d)'
    OBVIOUS
  <2>1. d \in Decision /\ DecisionFits(d) /\ d.chat \in Chats
    BY DEF IInv, Typed, Decision
  <2>2. cache'[d.chat].known /\ (d.mounted => d.chat = view')
    BY <1>0, <1>2, <2>1 DEF DecisionFits
  <2> QED
    BY <1>1, <2>1, <2>2, DecisionKeeps
<1> QED
  BY <1>2, <1>4, <1>5, <1>6, <1>7, <1>8 DEF IInv

\* What a chat shows when a request is sent with the messages base.
Asked(base) == [known |-> TRUE, messages |-> base, loading |-> TRUE, error |-> FALSE]

\* A request q is sent: from the session of its chat, or from one that has gone.
LEMMA AskKeeps ==
  ASSUME IInv, Advance, NEW q \in Request, NEW u, Shows(q.chat, Asked(q.base), u),
         cache[q.chat].known, MessagesFit(q.base, q.chat)', q.base # <<>>,
         IsUser(Last(q.base)), \A k \in Ids(q.base) : k < q.id,
         q.id \in ids + 1 .. ids', \A c \in Chats : q.id \notin said'[c],
         said' \in [Chats -> SUBSET (1 .. ids')], \A d \in Chats \ {q.chat} : said'[d] = said[d],
         ids' \in 0 .. MaxIds, UNCHANGED <<server, list, faults, picked>>,
         adrift \subseteq adrift', adrift' \subseteq Chats,
         requests' = requests \cup {q}, decisions' \subseteq decisions,
         \A r \in requests : r.chat \notin adrift' => r.chat # q.chat /\ handle' = handle,
         q.chat \notin adrift' =>
           /\ view = q.chat /\ handle' = q.id /\ HasWords(q.base, q.chat)'
           /\ q.picked \in agents => q.agent = q.picked,
         handle' \in {handle, q.id}, card' = IF view = q.chat THEN "none" ELSE card
  PROVE  IInv'
<1>1. PICK c, x : c = q.chat /\ x = Asked(q.base)
  OBVIOUS
<1>2. /\ c \in Chats /\ q.base \in Seq(Message) /\ x \in Cached /\ x.known /\ x.loading /\ ~x.error
      /\ x.messages = q.base
  BY <1>1 DEF Request, Asked, Cached
<1>3. view' = view /\ Shows(c, x, u) /\ actions' = actions /\ agents' = agents
  BY <1>1 DEF Shows, server
<1>4. MayShow(c, x)
  <2>1. PICK b : b = q.base
    OBVIOUS
  <2>2. c \notin adrift' => HasWords(b, c)'
    BY <1>1, <2>1
  <2> QED
    BY <1>1, <1>2, <2>1, <2>2 DEF MayShow
<1>5. MessagesFit(x.messages, c)'
  BY <1>1, <1>2
<1>6. /\ StoreFits(u) /\ Range(u.recent) = Range(recent)
      /\ \A d \in Chats : ChatFits(d)' /\ (cache[d].known => cache'[d].known)
      /\ view # Null => (saved[view] = toStoredMessages(lastSaved))'
  <2>1. picked' = picked /\ \A d \in Chats \ {c} : said'[d] = said[d]
    BY <1>1
  <2> QED
    BY <1>2, <1>3, <1>4, <1>5, <2>1, ShowFits
<1>7. /\ recent' \in Seq(1 .. created') /\ IsInjective(recent')
      /\ saved' \in [Chats -> Seq(Message)] /\ lastSaved' \in Seq(Message)
      /\ agentOf' \in [Chats -> Agents \cup {Null}]
      /\ created' \in 0 .. MaxChats
      /\ active' \in Chats \cup {Null}
      /\ view' \in Range(recent') \cup {Null}
      /\ cache' \in [Chats -> Cached]
      /\ cache'[c] = x /\ \A d \in Chats \ {c} : cache'[d] = cache[d]
  BY <1>2, <1>3, <1>6, ShowTyped
<1>8. ids \in Nat /\ ids' \in Nat /\ ids <= ids' /\ q.id \in 1 .. ids' /\ q.id > ids
  BY ChatPageAssumption DEF IInv, Typed
<1>9. Typed'
  <2>1. handle' \in 0 .. ids'
    BY <1>8 DEF IInv, Typed
  <2>2. card' \in {"none", "loading", "pending", "gone", "error"}
    BY DEF IInv, Typed
  <2>3. faults' = faults /\ list' = list /\ picked' = picked
    OBVIOUS
  <2> QED
    BY <1>3, <1>7, <2>1, <2>2, <2>3 DEF Typed, IInv
<1>10. Fresh'
  BY <1>3, <1>8, ChatPageAssumption DEF Fresh, IInv
<1>11. SessionFits'
  <2>1. list' = list
    OBVIOUS
  <2>2. CASE view = c
    <3>1. view # Null /\ card' = "none"
      BY <1>1, <1>2, <2>2, ViewIsChat DEF IInv
    <3> QED
      BY <1>3, <1>6, <2>1, <3>1 DEF SessionFits
  <2>3. CASE view # c /\ view # Null
    <3>1. Shown(view)' = Shown(view)
      BY <1>3, <1>7, <2>3, ShownIs DEF Shown
    <3> QED
      BY <1>1, <1>3, <1>6, <2>1, <2>3, <3>1 DEF SessionFits, IInv
  <2>4. CASE view # c /\ view = Null
    BY <1>1, <1>3, <2>1, <2>4 DEF SessionFits, IInv
  <2> QED
    BY <2>2, <2>3, <2>4
<1>12. RequestsFit'
  <2>1. ASSUME NEW r \in requests
        PROVE  RequestFits(r)' /\ r.id # q.id
    <3>1. r \in Request /\ RequestFits(r) /\ r.chat \in Chats
      BY DEF IInv, Typed, RequestsFit, Request
    <3>2. cache'[r.chat].known /\ actions'[r.id] = "none"
      BY <1>3, <1>6, <3>1 DEF RequestFits
    <3>3. r.id # q.id
      BY <1>8, <3>1 DEF RequestFits
    <3>4. r.chat \notin adrift' =>
            /\ said'[r.chat] \subseteq said[r.chat] /\ cache'[r.chat].loading
            /\ view' = r.chat /\ handle' = r.id
      BY <1>1, <1>3, <1>7, <3>1 DEF RequestFits
    <3> QED
      BY <1>3, <3>1, <3>2, <3>3, <3>4, RequestKeeps
  <2>2. RequestFits(q)'
    <3>1. q.id \in 1 .. MaxIds /\ actions'[q.id] = "none"
      BY <1>3, <1>8 DEF Request, IInv, Fresh
    <3>2. cache'[q.chat].known /\ cache'[q.chat].loading
      BY <1>1, <1>2, <1>7
    <3>3. (IsUser(Last(q.base)) <=> IsUser(Last(q.base))') /\ Ids(q.base)' = Ids(q.base)
      BY DEF IsUser, Last, Ids
    <3> QED
      BY <1>3, <1>8, <3>1, <3>2, <3>3 DEF RequestFits
  <2> QED
    BY <2>1, <2>2 DEF RequestsFit, IInv
<1>13. \A d \in decisions' : DecisionFits(d)'
  <2> SUFFICES ASSUME NEW d \in decisions PROVE DecisionFits(d)'
    OBVIOUS
  <2>1. d \in Decision /\ DecisionFits(d) /\ d.chat \in Chats
    BY DEF IInv, Typed, Decision
  <2>2. cache'[d.chat].known /\ (d.mounted => d.chat = view')
    BY <1>3, <1>6, <2>1 DEF DecisionFits
  <2> QED
    BY <2>1, <2>2, DecisionKeeps
<1> QED
  BY <1>6, <1>9, <1>10, <1>11, <1>12, <1>13 DEF IInv

\* A request of the session on the screen, while no other is being answered in it.
LEMMA FromSessionKeeps ==
  ASSUME IInv, Advance, view # Null, NEW id \in ids + 1 .. ids', ids' \in 0 .. MaxIds,
         NEW b, MessagesFit(b, view)', b # <<>>, FromSession(id, b),
         IsUser(Last(b)), \A k \in Ids(b) : k < id,
         said' \in [Chats -> SUBSET (1 .. ids')], \A d \in Chats \ {view} : said'[d] = said[d],
         \A c \in Chats : id \notin said'[c],
         UNCHANGED <<server, faults, picked>>, adrift \subseteq adrift', adrift' \subseteq Chats,
         decisions' \subseteq decisions,
         view \notin adrift' =>
           /\ ~(cache[view].loading /\ ~cache[view].error)
           /\ HasWords(b, view)'
  PROVE  IInv'
<1>1. /\ view \in Chats /\ view \in Range(recent) /\ cache[view].known /\ ChatFits(view)
  BY ShownIs DEF IInv
<1>2. PICK q : q = [id |-> id, chat |-> view, base |-> b, agent |-> agentOf[view],
                    picked |-> picked[view]]
  OBVIOUS
<1>3. /\ q.id = id /\ q.chat = view /\ q.base = b /\ q.agent = agentOf[view] /\ q.picked = picked[view]
      /\ q \in Request
  <2>1. id \in 1 .. MaxIds /\ b \in Seq(Message)
    BY ChatPageAssumption DEF IInv, Typed, MessagesFit, InOrder
  <2> QED
    BY <1>1, <1>2, <2>1 DEF Request, IInv, Typed
<1>4. PICK u : u = IF view = q.chat THEN Persist(Store, q.chat, q.base, TRUE) ELSE Store
  OBVIOUS
<1>5. /\ requests' = requests \cup {q} /\ handle' = id /\ card' = "none" /\ view' = view /\ list' = list
      /\ cache' = [cache EXCEPT ![view] = Asked(b)] /\ StoreIs(u)
  BY <1>2, <1>3, <1>4 DEF FromSession, triggerRequest, Asked
<1>6. Shows(q.chat, Asked(q.base), u)
  BY <1>3, <1>4, <1>5 DEF Shows, Asked
<1>7. ASSUME NEW r \in requests
      PROVE  r.chat \in adrift'
  <2>1. r.chat \in Chats /\ RequestFits(r)
    BY DEF IInv, Typed, Request, RequestsFit
  <2> QED
    BY <1>1, <2>1 DEF RequestFits, ChatFits, ChatIs
<1>8. q.picked \in agents => q.agent = q.picked
  BY <1>1, <1>3 DEF ChatFits, ChatIs
<1>9. /\ MessagesFit(q.base, q.chat)' /\ cache[q.chat].known /\ q.base # <<>>
      /\ q.id \in ids + 1 .. ids' /\ \A c \in Chats : q.id \notin said'[c]
      /\ \A d \in Chats \ {q.chat} : said'[d] = said[d]
      /\ card' = IF view = q.chat THEN "none" ELSE card
      /\ handle' \in {handle, q.id} /\ IsUser(Last(q.base)) /\ \A k \in Ids(q.base) : k < q.id
  <2>1. PICK v : v = view
    OBVIOUS
  <2>2. MessagesFit(b, v)' /\ q.chat = v
    BY <1>3, <1>5, <2>1
  <2> QED
    BY <1>1, <1>3, <1>5, <2>2
<1>10. q.chat \notin adrift' =>
         /\ view = q.chat /\ handle' = q.id /\ HasWords(q.base, q.chat)'
         /\ q.picked \in agents => q.agent = q.picked
  <2>1. PICK v : v = view
    OBVIOUS
  <2>2. v \notin adrift' => HasWords(b, v)'
    BY <1>5, <2>1
  <2> QED
    BY <1>3, <1>5, <1>8, <2>1, <2>2
<1> QED
  BY <1>3, <1>5, <1>6, <1>7, <1>9, <1>10, AskKeeps

\* The user sends a message.
LEMMA SendKeeps ==
  ASSUME IInv, Send
  PROVE  IInv'
<1>1. /\ view # Null /\ ~cache[view].loading /\ ids + 2 =< MaxIds /\ ids' = ids + 2
      /\ FromSession(ids + 2, Append(Shown(view), Said(ids + 1)))
      /\ said' = [said EXCEPT ![view] = @ \cup {ids + 1}]
      /\ UNCHANGED <<server, decisions, faults, picked, adrift>>
  BY DEF Send, Loading
<1>2. ids \in Nat /\ ids' \in 0 .. MaxIds /\ ids + 1 \in ids + 1 .. ids' /\ ids + 2 \in ids + 1 .. ids'
  BY <1>1, ChatPageAssumption DEF IInv, Typed
<1>3. /\ view \in Chats /\ cache[view].known /\ Shown(view) = cache[view].messages
      /\ MessagesFit(Shown(view), view) /\ ChatFits(view)
  BY <1>1, ShownIs DEF IInv
<1>4. /\ said' \in [Chats -> SUBSET (1 .. ids')]
      /\ said'[view] = said[view] \cup {ids + 1}
      /\ \A d \in Chats \ {view} : said'[d] = said[d]
      /\ \A d \in Chats : ids + 2 \notin said'[d]
  <2>1. \A d \in Chats : said[d] \subseteq 1 .. ids
    BY DEF IInv, Typed
  <2>2. 1 .. ids \subseteq 1 .. ids' /\ ids + 1 \in 1 .. ids' /\ ids + 2 \notin 1 .. ids
    BY <1>1, <1>2
  <2>3. /\ said'[view] = said[view] \cup {ids + 1}
        /\ \A d \in Chats \ {view} : said'[d] = said[d]
        /\ DOMAIN said' = Chats /\ said' = [d \in Chats |-> said'[d]]
    BY <1>1, <1>3 DEF IInv, Typed
  <2>4. \A d \in Chats : said'[d] \subseteq 1 .. ids' /\ ids + 2 \notin said'[d]
    <3> SUFFICES ASSUME NEW d \in Chats PROVE said'[d] \subseteq 1 .. ids' /\ ids + 2 \notin said'[d]
      OBVIOUS
    <3>1. said'[d] \subseteq said[d] \cup {ids + 1}
      BY <2>3
    <3>2. ids + 2 # ids + 1
      BY <1>2
    <3> QED
      BY <2>1, <2>2, <3>1, <3>2
  <2> QED
    BY <2>3, <2>4
<1>5. Advance
  BY <1>1, <1>2, <1>4, AdvanceIs DEF IInv, server, Typed
<1>6. PICK v, s, m, b : v = view /\ s = Shown(view) /\ m = Said(ids + 1) /\ b = Append(s, m)
  OBVIOUS
<1>7. m \in Message /\ m.id = ids + 1 /\ IsUser(m) /\ m.role = "user"
  <2>1. ids + 1 \in 1 .. MaxIds /\ 0 \in 0 .. MaxIds
    BY <1>1, <1>2, ChatPageAssumption
  <2> QED
    BY <1>6, <2>1 DEF Said, Message, IsUser
<1>8. MessageFits(m, v)'
  BY <1>1, <1>2, <1>7 DEF MessageFits, IsUser, Statuses
<1>9. MessagesFit(s, v)'
  BY <1>3, <1>5, <1>6, MessagesKeep
<1>18. s \in Seq(Message) /\ Ids(s) \subseteq 1 .. ids
  BY <1>3, <1>6, IdsFit
<1>19. \A k \in Ids(s) : k < m.id
  BY <1>2, <1>7, <1>18
<1>10. MessagesFit(b, v)'
  BY <1>6, <1>7, <1>8, <1>9, <1>19, AppendFits
<1>11. b # <<>> /\ IsUser(Last(b)) /\ \A k \in Ids(b) : k < ids + 2
  <2>1. Last(b) = m /\ b # <<>> /\ Ids(b) = Ids(s) \cup {ids + 1}
    BY <1>6, <1>7, <1>18, AppendIs, IdsOfAppend
  <2> QED
    BY <1>2, <1>7, <1>18, <2>1
<1>12. view \notin adrift' => HasWords(b, view)'
  <2>1. v \notin adrift' => HasWords(s, v)
    BY <1>1, <1>3, <1>6 DEF ChatFits, ChatIs
  <2>2. v \in Chats /\ said'[v] \subseteq said[v] \cup {m.id} /\ m.id > ids
    BY <1>2, <1>3, <1>4, <1>6, <1>7
  <2>3. v \notin adrift' => HasWords(b, v)'
    BY <1>6, <1>7, <1>18, <1>19, <2>1, <2>2, AppendWords DEF IInv
  <2> QED
    BY <1>1, <1>6, <2>3 DEF FromSession
<1>13. MessagesFit(b, view)'
  BY <1>1, <1>6, <1>10 DEF FromSession
<1>14. PICK id : id = ids + 2
  OBVIOUS
<1>15. /\ FromSession(id, b) /\ id \in ids + 1 .. ids' /\ \A c \in Chats : id \notin said'[c]
       /\ \A k \in Ids(b) : k < id
  BY <1>1, <1>2, <1>4, <1>6, <1>11, <1>14
<1>16. UNCHANGED <<server, faults, picked>> /\ adrift' = adrift /\ adrift \subseteq Chats
  BY <1>1 DEF IInv, Typed
<1>17. decisions' \subseteq decisions
  BY <1>1
<1> QED
  BY <1>1, <1>2, <1>4, <1>5, <1>11, <1>12, <1>13, <1>15, <1>16, <1>17, FromSessionKeeps

\* A message is sent again, without the reply to it.
LEMMA SendAgainKeeps ==
  ASSUME IInv, view # Null, Shown(view) # <<>>, ~(cache[view].loading /\ ~cache[view].error), SendAgain
  PROVE  IInv'
<1>1. /\ ids < MaxIds /\ ids' = ids + 1
      /\ FromSession(ids + 1, WithoutReply(Shown(view)))
      /\ UNCHANGED <<server, decisions, faults, picked, said, adrift>>
  BY DEF SendAgain
<1>2. ids \in Nat /\ ids' \in 0 .. MaxIds /\ ids + 1 \in ids + 1 .. ids'
  BY <1>1, ChatPageAssumption DEF IInv, Typed
<1>3. /\ view \in Chats /\ cache[view].known /\ Shown(view) = cache[view].messages
      /\ MessagesFit(Shown(view), view) /\ ChatFits(view)
  BY ShownIs DEF IInv
<1>4. /\ said' \in [Chats -> SUBSET (1 .. ids')]
      /\ \A d \in Chats : ids + 1 \notin said'[d]
  <2>1. \A d \in Chats : said[d] \subseteq 1 .. ids
    BY DEF IInv, Typed
  <2>2. 1 .. ids \subseteq 1 .. ids' /\ ids + 1 \notin 1 .. ids
    BY <1>1, <1>2
  <2> QED
    BY <1>1, <1>2, <2>1, <2>2 DEF IInv, Typed
<1>5. Advance
  BY <1>1, <1>2, AdvanceIs DEF IInv, server, Typed
<1>6. PICK v, s, b : v = view /\ s = Shown(view) /\ b = WithoutReply(s)
  OBVIOUS
<1>7. /\ MessagesFit(b, v) /\ b # <<>> /\ IsUser(Last(b))
      /\ HasWords(s, v) => HasWords(b, v)
  BY <1>3, <1>6, WithoutReplyFits
<1>14. \A k \in Ids(b) : k < ids + 1
  BY <1>2, <1>7, IdsFit
<1>8. MessagesFit(b, v)'
  BY <1>3, <1>5, <1>6, <1>7, MessagesKeep
<1>9. view \notin adrift' => HasWords(b, view)'
  <2>1. v \notin adrift' => HasWords(b, v)
    BY <1>1, <1>3, <1>6, <1>7 DEF ChatFits, ChatIs
  <2>2. said'[v] \subseteq said[v]
    BY <1>1
  <2>3. v \notin adrift' => HasWords(b, v)'
    BY <2>1, <2>2, WordsKeep
  <2> QED
    BY <1>1, <1>6, <2>3 DEF FromSession
<1>10. MessagesFit(b, view)'
  BY <1>1, <1>6, <1>8 DEF FromSession
<1>11. PICK id : id = ids + 1
  OBVIOUS
<1>12. FromSession(id, b) /\ id \in ids + 1 .. ids' /\ \A c \in Chats : id \notin said'[c]
  BY <1>1, <1>2, <1>4, <1>6, <1>11
<1>13. /\ UNCHANGED <<server, faults, picked>> /\ adrift' = adrift /\ adrift \subseteq Chats
       /\ decisions' \subseteq decisions /\ said' = said
  BY <1>1 DEF IInv, Typed
<1>15. \A k \in Ids(b) : k < id
  BY <1>11, <1>14
<1> QED
  BY <1>2, <1>4, <1>5, <1>7, <1>9, <1>10, <1>12, <1>13, <1>15, FromSessionKeeps

\* The user asks for another reply.
LEMMA RegenerateKeeps ==
  ASSUME IInv, Regenerate
  PROVE  IInv'
<1>1. view # Null /\ canRegenerate /\ SendAgain
  BY DEF Regenerate
<1>2. ~cache[view].loading /\ Shown(view) # <<>>
  BY <1>1 DEF canRegenerate, Loading
<1> QED
  BY <1>1, <1>2, SendAgainKeeps

\* The user tries again after a failure.
LEMMA RetryKeeps ==
  ASSUME IInv, Retry
  PROVE  IInv'
BY SendAgainKeeps DEF Retry

\* The user stops the reply.
LEMMA StopKeeps ==
  ASSUME IInv, Stop
  PROVE  IInv'
<1>1. /\ view # Null /\ requests' = Unstopped /\ handle' = 0
      /\ cache' = StopLoading(cache, view)
      /\ StoreIs(Persist(Store, view, Shown(view), cache'[view].loading))
      /\ UNCHANGED <<view, card, list, decisions, server, ids, faults, picked, said, adrift>>
  BY DEF Stop, Loading
<1>2. /\ view \in Chats /\ cache[view].known /\ Shown(view) = cache[view].messages
      /\ MessagesFit(Shown(view), view) /\ cache[view] \in Cached /\ ChatFits(view)
  BY <1>1, ShownIs DEF IInv
<1>3. PICK c, x, u : c = view /\ x = cache'[view] /\ u = Persist(Store, view, Shown(view), cache'[view].loading)
  OBVIOUS
<1>4. /\ cache' = [cache EXCEPT ![c] = x] /\ x.messages = cache[c].messages /\ x.known /\ x \in Cached
      /\ x.error = cache[c].error /\ (x.loading => cache[c].loading)
  BY <1>1, <1>2, <1>3 DEF StopLoading, Cached, IInv, Typed
<1>5. MayShow(c, x)
  <2>1. PICK b : b = x.messages
    OBVIOUS
  <2>2. c \notin adrift' => HasWords(b, c)'
    <3>1. c \notin adrift' => HasWords(b, c)
      BY <1>1, <1>2, <1>3, <1>4, <2>1 DEF ChatFits, ChatIs
    <3>2. said'[c] \subseteq said[c]
      BY <1>1
    <3> QED
      BY <3>1, <3>2, WordsKeep
  <2> QED
    BY <1>1, <1>2, <1>3, <1>4, <2>1, <2>2 DEF MayShow, ChatFits, ChatIs
<1>6. Shows(c, x, u) /\ c \in Chats
  BY <1>1, <1>2, <1>3, <1>4 DEF Shows
<1>7. MessagesFit(x.messages, c)'
  <2>1. Advance
    BY <1>1, AdvanceNow DEF IInv, server
  <2> QED
    BY <1>2, <1>3, <1>4, <2>1, MessagesKeep
<1>8. ASSUME NEW r \in requests'
      PROVE  r \in requests /\ r.chat \in adrift /\ actions'[r.id] = "none"
  <2>1. r \in requests /\ r.id # handle
    BY <1>1 DEF Unstopped
  <2>2. RequestFits(r)
    BY <2>1 DEF IInv, RequestsFit
  <2> QED
    BY <1>1, <2>1, <2>2 DEF RequestFits, server
<1>9. /\ list' \in AgentLists /\ (list'.loading => view # Null) /\ faults' \in 0 .. MaxFaults
      /\ actions' = actions /\ actions' \in [1 .. MaxIds -> {"none", "pending"} \cup Statuses]
      /\ card' \in {"none", "loading", "pending", "gone", "error"}
  BY <1>1 DEF IInv, Typed, server
<1>10. card' # "none" => x.messages # <<>> /\ Last(x.messages).role = "ask"
  BY <1>1, <1>2, <1>3, <1>4 DEF IInv, SessionFits
<1>11. UNCHANGED <<decisions, agents, ids, picked, said, adrift>>
  BY <1>1 DEF server
<1>12. requests' \subseteq requests
  BY <1>8
<1> QED
  BY <1>1, <1>3, <1>5, <1>6, <1>7, <1>8, <1>9, <1>10, <1>11, <1>12, AnswerKeeps

\* A reply is no word of the user, and nothing the user wrote is missing in front of it.
LEMMA ArrivesFits ==
  ASSUME IInv, Advance, said' = said, ids' = ids, NEW r \in requests,
         NEW role \in {"partial", "reply", "ask"}, NEW s, s = Arrives(r, Written(r.id, role))
  PROVE  /\ MessagesFit(s, r.chat)' /\ s \in Seq(Message) /\ s # <<>> /\ Last(s).role = role
         /\ r.chat \notin adrift => HasWords(s, r.chat)'
<1>1. r \in Request /\ RequestFits(r) /\ r.chat \in Chats /\ r.base \in Seq(Message)
  BY DEF IInv, Typed, RequestsFit, Request
<1>2. PICK m : m = Written(r.id, role)
  OBVIOUS
<1>3. m \in Message /\ m.id = r.id /\ m.role = role /\ role \notin Statuses
  BY <1>1, <1>2, ChatPageAssumption DEF Written, Message, Request, Statuses
<1>4. MessageFits(m, r.chat)'
  BY <1>1, <1>3 DEF MessageFits, RequestFits
<1>5. /\ MessagesFit(r.base, r.chat)' /\ r.base # <<>> /\ IsUser(Last(r.base))
      /\ \A k \in Ids(r.base) : k < m.id
  BY <1>1, <1>3, MessagesKeep DEF RequestFits
<1>6. s = Append(r.base, m)
  BY <1>2 DEF Arrives
<1>7. MessagesFit(s, r.chat)'
  BY <1>4, <1>5, <1>6, AppendFits
<1>8. s \in Seq(Message) /\ s # <<>> /\ Last(s) = m
  BY <1>1, <1>3, <1>6, AppendIs
<1>9. PICK b, c : b = r.base /\ c = r.chat
  OBVIOUS
<1>10. HasWords(b, c) => HasWords(s, c)'
  <2>1. said'[c] \subseteq said[c] /\ b # <<>> /\ c \in Chats /\ b \in Seq(Message) /\ s = Append(b, m)
    BY <1>1, <1>5, <1>6, <1>9
  <2>2. \A k \in Ids(b) : k < m.id
    BY <1>5, <1>9
  <2> QED
    BY <1>3, <2>1, <2>2, AppendWords DEF IInv
<1>11. r.chat \notin adrift => HasWords(b, c)
  BY <1>1, <1>9 DEF RequestFits
<1> QED
  BY <1>3, <1>7, <1>8, <1>9, <1>10, <1>11

\* A piece of a reply arrives.
LEMMA PieceKeeps ==
  ASSUME IInv, ReplyPiece
  PROVE  IInv'
<1>1. PICK r \in requests :
        LET messages == Arrives(r, Written(r.id, "partial"))
        IN  /\ cache' = [cache EXCEPT ![r.chat].messages = messages]
            /\ card' = IF view = r.chat THEN "none" ELSE card
            /\ StoreIs(IF view = r.chat
                       THEN Persist(Store, view, messages, cache[view].loading) ELSE Store)
  BY DEF ReplyPiece
<1>2. UNCHANGED <<requests, view, handle, list, decisions, server, ids, faults, picked, said, adrift>>
  BY DEF ReplyPiece
<1>3. r \in Request /\ RequestFits(r) /\ r.chat \in Chats /\ ChatFits(r.chat) /\ cache[r.chat] \in Cached
  BY DEF IInv, Typed, RequestsFit, Request
<1>4. PICK c, s : c = r.chat /\ s = Arrives(r, Written(r.id, "partial"))
  OBVIOUS
<1>5. Advance
  BY <1>2, AdvanceNow DEF IInv, server
<1>6. /\ MessagesFit(s, c)' /\ s \in Seq(Message) /\ s # <<>>
      /\ c \notin adrift => HasWords(s, c)'
  BY <1>2, <1>4, <1>5, ArrivesFits
<1>7. PICK x, u : /\ x = [cache[c] EXCEPT !.messages = s]
                  /\ u = IF view = c THEN Persist(Store, c, s, cache[c].loading) ELSE Store
  OBVIOUS
<1>8. /\ x \in Cached /\ x.messages = s /\ x.known /\ x.loading = cache[c].loading
      /\ x.error = cache[c].error
  BY <1>3, <1>4, <1>6, <1>7 DEF Cached, RequestFits
<1>9. Shows(c, x, u)
  <2>1. cache' = [cache EXCEPT ![c] = x]
    BY <1>1, <1>3, <1>4, <1>7 DEF IInv, Typed
  <2>2. StoreIs(u)
    BY <1>1, <1>4, <1>7
  <2> QED
    BY <1>2, <1>7, <1>8, <2>1, <2>2 DEF Shows
<1>10. MayShow(c, x)
  BY <1>2, <1>3, <1>4, <1>6, <1>8 DEF MayShow, RequestFits, ChatFits, ChatIs
<1>11. ASSUME NEW q \in requests'
       PROVE  actions'[q.id] = "none" /\ (q.chat \notin adrift => cache'[q.chat].loading /\ handle' = q.id)
  <2>1. RequestFits(q) /\ q.chat \in Chats
    BY <1>2 DEF IInv, RequestsFit, Typed, Request
  <2>2. cache'[q.chat].loading = cache[q.chat].loading
    BY <1>8, <1>9, <2>1 DEF Shows, IInv, Typed
  <2> QED
    BY <1>2, <2>1, <2>2 DEF RequestFits, server
<1>12. /\ list' \in AgentLists /\ (list'.loading => view # Null) /\ faults' \in 0 .. MaxFaults
       /\ actions' = actions /\ actions' \in [1 .. MaxIds -> {"none", "pending"} \cup Statuses]
       /\ card' \in {"none", "loading", "pending", "gone", "error"}
       /\ (view # c => card' = card) /\ (view = c => card' = "none")
  BY <1>1, <1>2, <1>4 DEF IInv, SessionFits, Typed, server
<1>13. UNCHANGED <<decisions, agents, ids, picked, said, adrift>> /\ requests' = requests /\ handle' = handle
  BY <1>2 DEF server
<1>14. MessagesFit(x.messages, c)' /\ c \in Chats
  BY <1>3, <1>4, <1>6, <1>8
<1> QED
  BY <1>9, <1>10, <1>11, <1>12, <1>13, <1>14, AnswerKeeps

\* The others, when a request has been answered.
LEMMA OthersKeep ==
  ASSUME IInv, NEW r \in requests, NEW q \in requests \ {r}
  PROVE  /\ q.id # r.id /\ q.chat \in Chats /\ actions[q.id] = "none"
         /\ q.chat \notin adrift => q.chat # r.chat /\ cache[q.chat].loading /\ handle = q.id
<1>1. q.id # r.id /\ RequestFits(q) /\ RequestFits(r) /\ q.chat \in Chats
  BY DEF IInv, RequestsFit, Typed, Request
<1> QED
  BY <1>1 DEF RequestFits

\* A reply ends, or asks for an approval.
LEMMA EndsKeeps ==
  ASSUME IInv, ReplyEnds
  PROVE  IInv'
<1>1. PICK r \in requests, role \in {"reply", "ask"} :
        /\ LET messages == Arrives(r, Written(r.id, role))
           IN  /\ requests' = requests \ {r}
               /\ cache' = [cache EXCEPT ![r.chat].messages = messages, ![r.chat].loading = FALSE]
               /\ card' = IF view = r.chat THEN CardFor(messages) ELSE card
               /\ handle' = IF handle = r.id THEN 0 ELSE handle
               /\ StoreIs(IF view = r.chat THEN Persist(Store, view, messages, FALSE) ELSE Store)
        /\ actions' = [actions EXCEPT ![r.id] = IF role = "ask" THEN "pending" ELSE @]
  BY DEF ReplyEnds
<1>2. UNCHANGED <<view, list, decisions, agents, ids, faults, picked, said, adrift>>
  BY DEF ReplyEnds
<1>3. /\ r \in Request /\ RequestFits(r) /\ r.chat \in Chats /\ ChatFits(r.chat)
      /\ cache[r.chat] \in Cached /\ r.id \in 1 .. MaxIds
  BY DEF IInv, Typed, RequestsFit, Request
<1>4. PICK c, s : c = r.chat /\ s = Arrives(r, Written(r.id, role))
  OBVIOUS
<1>5. /\ actions' \in [1 .. MaxIds -> {"none", "pending"} \cup Statuses]
      /\ \A i \in 1 .. MaxIds : actions'[i] # actions[i] => i = r.id /\ actions[i] = "none"
  BY <1>1, <1>3 DEF IInv, Typed, RequestFits
<1>6. Advance
  <2>1. "none" \notin Statuses
    BY DEF Statuses
  <2> QED
    BY <1>2, <1>5, <2>1, AdvanceNow DEF IInv
<1>7. /\ MessagesFit(s, c)' /\ s \in Seq(Message) /\ s # <<>>
      /\ c \notin adrift => HasWords(s, c)'
  BY <1>2, <1>4, <1>6, ArrivesFits
<1>8. PICK x, u : /\ x = [cache[c] EXCEPT !.messages = s, !.loading = FALSE]
                  /\ u = IF view = c THEN Persist(Store, c, s, FALSE) ELSE Store
  OBVIOUS
<1>9. x \in Cached /\ x.messages = s /\ x.known /\ x.loading = FALSE
  BY <1>3, <1>4, <1>7, <1>8 DEF Cached, RequestFits
<1>10. Shows(c, x, u)
  <2>1. cache' = [cache EXCEPT ![c] = x]
    BY <1>1, <1>3, <1>4, <1>8 DEF IInv, Typed
  <2>2. StoreIs(u)
    BY <1>1, <1>4, <1>8
  <2> QED
    BY <1>2, <1>8, <1>9, <2>1, <2>2 DEF Shows
<1>11. MayShow(c, x)
  BY <1>2, <1>3, <1>4, <1>7, <1>9 DEF MayShow, RequestFits
<1>12. ASSUME NEW q \in requests'
       PROVE  actions'[q.id] = "none" /\ (q.chat \notin adrift => cache'[q.chat].loading /\ handle' = q.id)
  <2>1. q \in requests \ {r}
    BY <1>1
  <2>2. /\ q.id # r.id /\ q.chat \in Chats /\ actions[q.id] = "none"
        /\ q.chat \notin adrift => q.chat # r.chat /\ cache[q.chat].loading /\ handle = q.id
    BY <2>1, OthersKeep
  <2>3. q.chat # c => cache'[q.chat] = cache[q.chat]
    BY <1>10, <2>2 DEF Shows, IInv, Typed
  <2>4. q.id \in 1 .. MaxIds
    BY <2>1 DEF IInv, Typed, Request
  <2> QED
    BY <1>1, <1>4, <1>5, <2>2, <2>3, <2>4
<1>13. /\ list' \in AgentLists /\ (list'.loading => view # Null) /\ faults' \in 0 .. MaxFaults
       /\ card' \in {"none", "loading", "pending", "gone", "error"}
       /\ (view # c => card' = card)
       /\ view = c /\ card' # "none" => x.messages # <<>> /\ Last(x.messages).role = "ask"
  BY <1>1, <1>2, <1>4, <1>9, CardForIs DEF IInv, SessionFits, Typed
<1>14. UNCHANGED <<decisions, agents, ids, picked, said, adrift>> /\ requests' \subseteq requests /\ handle' \in {handle, 0}
  BY <1>1, <1>2
<1>15. MessagesFit(x.messages, c)' /\ c \in Chats
  BY <1>3, <1>4, <1>7, <1>9
<1>16. \A i \in 1 .. MaxIds : actions'[i] # actions[i] => i \in 1 .. ids /\ actions[i] \notin Statuses
  BY <1>3, <1>5 DEF RequestFits, Statuses
<1> QED
  BY <1>5, <1>10, <1>11, <1>12, <1>13, <1>14, <1>15, <1>16, AnswerKeeps

\* A request fails, or its agent is unknown.
LEMMA FailsKeeps ==
  ASSUME IInv, ReplyFails
  PROVE  IInv'
<1>1. PICK r \in requests :
       LET unknown == r.agent \notin agents \cup {Null}
           h == [cache EXCEPT ![r.chat].loading = FALSE, ![r.chat].error = TRUE]
       IN /\ IF unknown THEN UNCHANGED faults ELSE Fault
          /\ requests' = requests \ {r}
          /\ cache' = h
          /\ handle' = IF handle = r.id THEN 0 ELSE handle
          /\ list' = IF unknown /\ view = r.chat THEN [list EXCEPT !.loading = TRUE] ELSE list
          /\ StoreIs(IF view = r.chat THEN Persist(Store, view, h[view].messages, FALSE) ELSE Store)
  BY DEF ReplyFails
<1>2. UNCHANGED <<view, card, decisions, server, ids, picked, said, adrift>>
  BY DEF ReplyFails
<1>3. r \in Request /\ RequestFits(r) /\ r.chat \in Chats /\ ChatFits(r.chat) /\ cache[r.chat] \in Cached
  BY DEF IInv, Typed, RequestsFit, Request
<1>4. PICK c, s : c = r.chat /\ s = cache[c].messages
  OBVIOUS
<1>5. Advance
  BY <1>2, AdvanceNow DEF IInv, server
<1>6. /\ MessagesFit(s, c) /\ s \in Seq(Message)
      /\ c \notin adrift => HasWords(s, c)'
  <2>1. MessagesFit(s, c) /\ s \in Seq(Message) /\ (c \notin adrift => HasWords(s, c))
    BY <1>3, <1>4 DEF ChatFits, ChatIs, Cached, RequestFits
  <2>2. said'[c] \subseteq said[c]
    BY <1>2
  <2> QED
    BY <2>1, <2>2, WordsKeep
<1>7. PICK x, u : /\ x = [cache[c] EXCEPT !.loading = FALSE, !.error = TRUE]
                  /\ u = IF view = c THEN Persist(Store, c, s, FALSE) ELSE Store
  OBVIOUS
<1>8. x \in Cached /\ x.messages = s /\ x.known /\ x.loading = FALSE
  BY <1>3, <1>4, <1>7 DEF Cached, RequestFits
<1>9. Shows(c, x, u)
  <2>1. cache' = [cache EXCEPT ![c] = x]
    BY <1>1, <1>3, <1>4, <1>7 DEF IInv, Typed
  <2>2. view = c => cache'[view].messages = s
    BY <1>3, <1>4, <1>8, <2>1 DEF IInv, Typed
  <2>3. StoreIs(IF view = r.chat THEN Persist(Store, view, cache'[view].messages, FALSE) ELSE Store)
    BY <1>1
  <2>4. StoreIs(u)
    BY <1>4, <1>7, <2>2, <2>3
  <2>5. view' = view
    BY <1>2
  <2>6. u = IF view = c THEN Persist(Store, c, x.messages, x.loading) ELSE Store
    BY <1>7, <1>8 DEF Persist
  <2> QED
    BY <2>1, <2>4, <2>5, <2>6 DEF Shows
<1>10. MayShow(c, x)
  BY <1>2, <1>3, <1>4, <1>6, <1>8 DEF MayShow, RequestFits
<1>11. ASSUME NEW q \in requests'
       PROVE  actions'[q.id] = "none" /\ (q.chat \notin adrift => cache'[q.chat].loading /\ handle' = q.id)
  <2>1. q \in requests \ {r}
    BY <1>1
  <2>2. /\ q.id # r.id /\ q.chat \in Chats /\ actions[q.id] = "none"
        /\ q.chat \notin adrift => q.chat # r.chat /\ cache[q.chat].loading /\ handle = q.id
    BY <2>1, OthersKeep
  <2>3. q.chat # c => cache'[q.chat] = cache[q.chat]
    BY <1>9, <2>2 DEF Shows, IInv, Typed
  <2> QED
    BY <1>1, <1>2, <1>4, <2>2, <2>3 DEF server
<1>12. list' \in AgentLists /\ (list'.loading => view # Null)
  <2>1. c # Null
    BY <1>3, <1>4, ViewIsChat DEF IInv
  <2>2. list' = list \/ (list' = [list EXCEPT !.loading = TRUE] /\ view = c)
    BY <1>1, <1>4
  <2> QED
    BY <2>1, <2>2 DEF IInv, SessionFits, Typed, AgentLists
<1>13. faults' \in 0 .. MaxFaults
  BY <1>1, ChatPageAssumption DEF IInv, Typed, Fault
<1>14. /\ actions' = actions /\ actions' \in [1 .. MaxIds -> {"none", "pending"} \cup Statuses]
       /\ card' = card /\ card' \in {"none", "loading", "pending", "gone", "error"}
       /\ view = c /\ card' # "none" => x.messages # <<>> /\ Last(x.messages).role = "ask"
  <2>1. view = c => Shown(view) = s
    BY <1>3, <1>4 DEF Shown, RequestFits
  <2> QED
    BY <1>2, <1>8, <2>1 DEF IInv, SessionFits, Typed, server
<1>15. UNCHANGED <<decisions, agents, ids, picked, said, adrift>> /\ requests' \subseteq requests /\ handle' \in {handle, 0}
  BY <1>1, <1>2 DEF server
<1>16. MessagesFit(x.messages, c)' /\ c \in Chats
  BY <1>3, <1>4, <1>5, <1>6, <1>8, MessagesKeep
<1> QED
  BY <1>9, <1>10, <1>11, <1>12, <1>13, <1>14, <1>15, <1>16, AnswerKeeps

-----------------------------------------------------------------------------
(* Steps that leave what the chats show alone. *)

\* What the chats show is right, and the requests are the same.
LEMMA AsideKeeps ==
  ASSUME IInv, NEW u, StoreFits(u), StoreIs(u), u.recent = recent, u.saved = saved,
         u.lastSaved = lastSaved,
         \A d \in Chats : ChatFits(d)',
         UNCHANGED <<view, handle, cache, requests, ids, said, adrift>>,
         picked' \in [Chats -> Agents \cup {Null}], agents' \subseteq agents,
         faults' \in 0 .. MaxFaults, list' \in AgentLists, list'.loading => view # Null,
         actions' \in [1 .. MaxIds -> {"none", "pending"} \cup Statuses],
         \A i \in 1 .. MaxIds : actions'[i] # actions[i] => actions[i] = "pending",
         card' \in {"none", "loading", "pending", "gone", "error"}, card' # "none" => card # "none",
         decisions' \subseteq Decision, \A d \in decisions' : d \in decisions \/ DecisionFits(d)'
  PROVE  IInv'
<1>1. Advance
  BY AdvanceNow DEF IInv, Statuses
<1>2. recent' = recent /\ saved' = saved /\ lastSaved' = lastSaved
  BY StoreOfStore
<1>3. Typed'
  BY <1>2, StoreOfStore DEF Typed, IInv
<1>4. Fresh'
  BY DEF Fresh, IInv
<1>5. SessionFits'
  <2>1. Shown(view)' = Shown(view)
    BY <1>2 DEF Shown
  <2>2. toStoredMessages(lastSaved)' = toStoredMessages(lastSaved)
    BY <1>2 DEF toStoredMessages
  <2> QED
    BY <1>2, <2>1, <2>2 DEF SessionFits, IInv
<1>6. RequestsFit'
  <2>1. ASSUME NEW r \in requests
        PROVE  RequestFits(r)'
    <3>1. r \in Request /\ RequestFits(r) /\ r.chat \in Chats /\ r.id \in 1 .. MaxIds
      BY DEF IInv, Typed, RequestsFit, Request
    <3>2. cache'[r.chat].known /\ actions'[r.id] = "none"
      BY <3>1 DEF RequestFits
    <3>3. r.chat \notin adrift' =>
            /\ said'[r.chat] \subseteq said[r.chat] /\ cache'[r.chat].loading
            /\ view' = r.chat /\ handle' = r.id
      BY <3>1 DEF RequestFits
    <3> QED
      BY <1>1, <3>1, <3>2, <3>3, RequestKeeps
  <2> QED
    BY <2>1 DEF RequestsFit, IInv
<1>7. \A d \in decisions' : DecisionFits(d)'
  <2> SUFFICES ASSUME NEW d \in decisions PROVE DecisionFits(d)'
    OBVIOUS
  <2>1. d \in Decision /\ DecisionFits(d)
    BY DEF IInv, Typed
  <2>2. cache'[d.chat].known /\ (d.mounted => d.chat = view')
    BY <2>1 DEF DecisionFits
  <2> QED
    BY <1>1, <2>1, <2>2, DecisionKeeps
<1> QED
  BY <1>3, <1>4, <1>5, <1>6, <1>7 DEF IInv

\* The store stays too.
LEMMA SameKeeps ==
  ASSUME IInv, UNCHANGED <<store, view, handle, cache, requests, ids, picked, said, adrift>>,
         agents' \subseteq agents,
         faults' \in 0 .. MaxFaults, list' \in AgentLists, list'.loading => view # Null,
         actions' \in [1 .. MaxIds -> {"none", "pending"} \cup Statuses],
         \A i \in 1 .. MaxIds : actions'[i] # actions[i] => actions[i] = "pending",
         card' \in {"none", "loading", "pending", "gone", "error"}, card' # "none" => card # "none",
         decisions' \subseteq Decision, \A d \in decisions' : d \in decisions \/ DecisionFits(d)'
  PROVE  IInv'
<1>1. Advance
  BY AdvanceNow DEF IInv, Statuses
<1>2. PICK s, v, k : s = Store /\ v = view /\ k = cache
  OBVIOUS
<1>3. /\ StoreFits(s) /\ s.recent = recent /\ s.saved = saved /\ s.agentOf = agentOf
      /\ s.created = created /\ s.active = active /\ s.lastSaved = lastSaved
  BY <1>2, StoreIsStore DEF IInv
<1>4. StoreIs(s)
  BY <1>3 DEF StoreIs, store
<1>5. Hand(s, v, k)'
  <2>1. adrift \subseteq adrift' /\ \A c \in Chats : said'[c] \in {said[c], {}} /\ picked'[c] \in {picked[c], Null}
    OBVIOUS
  <2> QED
    BY <1>1, <1>2, <2>1, HandKeeps
<1>6. k \in [Chats -> Cached] /\ cache' = k /\ view' = v /\ picked' \in [Chats -> Agents \cup {Null}]
  BY <1>2 DEF IInv, Typed
<1>7. \A d \in Chats : ChatFits(d)'
  BY <1>3, <1>4, <1>5, <1>6, HandFits
<1> QED
  BY <1>3, <1>4, <1>6, <1>7, AsideKeeps

\* Another agent, or none, answers the chat on the screen.
LEMMA AgentKeeps ==
  ASSUME IInv, view # Null, NEW g \in Agents \cup {Null}, StoreIs(setChatAgent(Store, view, g)),
         picked' \in [Chats -> Agents \cup {Null}],
         \A d \in Chats \ {view} : picked'[d] = picked[d], picked'[view] \in agents => g = picked'[view],
         UNCHANGED <<view, handle, card, cache, requests, decisions, server, ids, said, adrift>>,
         list' \in AgentLists, faults' \in 0 .. MaxFaults
  PROVE  IInv'
<1>1. Advance
  BY AdvanceNow DEF IInv, server
<1>2. view \in Chats /\ view \in Range(recent)
  BY ShownIs
<1>3. PICK u : u = setChatAgent(Store, view, g)
  OBVIOUS
<1>4. /\ StoreFits(u) /\ u.created = created /\ u.recent = recent /\ u.saved = saved
      /\ u.lastSaved = lastSaved
      /\ u.agentOf[view] = g /\ \A d \in Chats \ {view} : u.agentOf[d] = agentOf[d]
  BY <1>2, <1>3, AgentIs, StoreIsStore DEF IInv
<1>5. StoreIs(u)
  BY <1>3
<1>6. /\ recent' = recent /\ saved' = saved /\ created' = created
      /\ agentOf'[view] = g /\ \A d \in Chats \ {view} : agentOf'[d] = agentOf[d]
  BY <1>4, <1>5, StoreOfStore
<1>7. ASSUME NEW d \in Chats
      PROVE  ChatFits(d)'
  <2>1. ChatFits(d) /\ said' = said /\ adrift' = adrift /\ agents' = agents /\ cache' = cache /\ view' = view
    BY DEF IInv, server
  <2>2. PICK p, q : p = saved[d] /\ q = cache[d].messages
    OBVIOUS
  <2>3. MessagesFit(p, d)' /\ MessagesFit(q, d)'
    BY <1>1, <2>1, <2>2, MessagesKeep DEF ChatFits, ChatIs
  <2>4. /\ MessagesFit(saved[d], d)' /\ MessagesFit(cache[d].messages, d)'
        /\ HasWords(saved[d], d) => HasWords(saved[d], d)'
        /\ HasWords(cache[d].messages, d) => HasWords(cache[d].messages, d)'
        /\ toStoredMessages(cache[d].messages)' = toStoredMessages(cache[d].messages)
    <3>1. (HasWords(p, d) => HasWords(p, d)') /\ (HasWords(q, d) => HasWords(q, d)')
      BY <2>1, WordsKeep
    <3>2. p = saved'[d] /\ q = cache'[d].messages
      BY <1>6, <2>1, <2>2
    <3>3. toStoredMessages(q)' = toStoredMessages(q)
      BY OrderStays
    <3> QED
      BY <2>2, <2>3, <3>1, <3>2, <3>3
  <2>5. CASE d = view
    <3>1. picked'[d] \in agents' => agentOf'[d] = picked'[d]
      BY <1>6, <2>1, <2>5
    <3>2. d \in Range(recent) /\ ~(d > created)
      BY <1>2, <2>1, <2>5 DEF ChatFits, ChatIs
    <3> QED
      BY <1>6, <2>1, <2>4, <3>1, <3>2 DEF ChatFits, ChatIs
  <2>6. CASE d # view
    BY <1>6, <2>1, <2>4, <2>6 DEF ChatFits, ChatIs
  <2> QED
    BY <2>5, <2>6
<1>8. /\ UNCHANGED <<view, handle, cache, requests, ids, said, adrift>> /\ agents' = agents
      /\ actions' = actions /\ actions \in [1 .. MaxIds -> {"none", "pending"} \cup Statuses]
      /\ card' = card /\ card \in {"none", "loading", "pending", "gone", "error"}
      /\ decisions' = decisions /\ decisions \subseteq Decision
  BY DEF IInv, Typed, server
<1> QED
  BY <1>4, <1>5, <1>7, <1>8, AsideKeeps

\* The user chooses an agent.
LEMMA ChooseKeeps ==
  ASSUME IInv, ChooseAgent
  PROVE  IInv'
<1>1. PICK g \in list.agents \cup {Null} :
        /\ StoreIs(setChatAgent(Store, view, g))
        /\ picked' = [picked EXCEPT ![view] = g]
  BY DEF ChooseAgent
<1>2. /\ view # Null
      /\ UNCHANGED <<view, handle, card, list, cache, requests, decisions, server, ids, faults, said, adrift>>
  BY DEF ChooseAgent, session
<1>3. view \in Chats
  BY <1>2, ShownIs
<1>4. /\ g \in Agents \cup {Null} /\ picked' \in [Chats -> Agents \cup {Null}]
      /\ picked'[view] = g /\ \A d \in Chats \ {view} : picked'[d] = picked[d]
  BY <1>1, <1>3 DEF IInv, Typed, AgentLists
<1>5. list' \in AgentLists /\ faults' \in 0 .. MaxFaults
  BY <1>2 DEF IInv, Typed
<1> QED
  BY <1>1, <1>2, <1>4, <1>5, AgentKeeps

\* A list of agents that is loading or failed never drops the agent, one that arrived is the server's.
LEMMA ListKeeps ==
  ASSUME IInv, view # Null, NEW l \in AgentLists, ListIs(l), l.status = "ready" => l.agents = agents,
         faults' \in 0 .. MaxFaults
  PROVE  IInv'
<1>1. /\ list' = l
      /\ UNCHANGED <<view, handle, card, cache, requests, decisions, server, ids, picked, said, adrift>>
      /\ StoreIs(IF agentGone(view, l) THEN setChatAgent(Store, view, Null) ELSE Store)
  BY DEF ListIs
<1>2. CASE agentGone(view, l)
  <2>1. view \in Chats /\ view \in Range(recent) /\ ChatFits(view)
    BY ShownIs DEF IInv
  <2>2. agentOf[view] \notin agents
    BY <1>2 DEF agentGone
  <2>3. picked[view] \notin agents
    BY <2>1, <2>2 DEF ChatFits, ChatIs
  <2>4. StoreIs(setChatAgent(Store, view, Null))
    BY <1>1, <1>2
  <2>5. picked' = picked /\ picked \in [Chats -> Agents \cup {Null}] /\ Null \in Agents \cup {Null}
    BY <1>1 DEF IInv, Typed
  <2> QED
    BY <1>1, <2>3, <2>4, <2>5, AgentKeeps
<1>3. CASE ~agentGone(view, l)
  <2>1. StoreIs(Store)
    BY <1>1, <1>3
  <2>2. UNCHANGED store
    BY <2>1, StoreIsStore DEF StoreIs, store, IInv
  <2>3. /\ agents' = agents /\ actions' = actions /\ card' = card /\ decisions' = decisions
        /\ actions \in [1 .. MaxIds -> {"none", "pending"} \cup Statuses]
        /\ card \in {"none", "loading", "pending", "gone", "error"} /\ decisions \subseteq Decision
    BY <1>1 DEF server, IInv, Typed
  <2> QED
    BY <1>1, <2>2, <2>3, SameKeeps
<1> QED
  BY <1>2, <1>3

\* The list of agents arrives.
LEMMA ListArrivesKeeps ==
  ASSUME IInv, ListArrives
  PROVE  IInv'
<1>1. view # Null
  BY DEF ListArrives, IInv, SessionFits
<1>2. PICK l : l = [status |-> "ready", agents |-> agents, loading |-> FALSE]
  OBVIOUS
<1>3. l \in AgentLists /\ l.agents = agents /\ ListIs(l) /\ faults' \in 0 .. MaxFaults
  BY <1>2 DEF ListArrives, AgentLists, IInv, Typed
<1> QED
  BY <1>1, <1>3, ListKeeps

\* The list of agents cannot be loaded.
LEMMA ListFailsKeeps ==
  ASSUME IInv, ListFails
  PROVE  IInv'
<1>1. view # Null
  BY DEF ListFails, IInv, SessionFits
<1>2. PICK l : l = [status |-> "failed", agents |-> {}, loading |-> FALSE]
  OBVIOUS
<1>3. l \in AgentLists /\ l.status # "ready" /\ ListIs(l)
  BY <1>2 DEF ListFails, AgentLists
<1>4. faults' \in 0 .. MaxFaults
  BY ChatPageAssumption DEF ListFails, Fault, IInv, Typed
<1> QED
  BY <1>1, <1>3, <1>4, ListKeeps

\* It is loaded again.
LEMMA TryAgainKeeps ==
  ASSUME IInv, TryAgain
  PROVE  IInv'
<1>1. PICK l : l = LoadingAgain
  OBVIOUS
<1>2. l \in AgentLists /\ l.status # "ready" /\ ListIs(l) /\ view # Null /\ faults' \in 0 .. MaxFaults
  BY <1>1 DEF TryAgain, AgentLists, LoadingAgain, IInv, Typed
<1> QED
  BY <1>2, ListKeeps

\* An agent is deleted.
LEMMA DeleteAgentKeeps ==
  ASSUME IInv, DeleteAgent
  PROVE  IInv'
<1>1. /\ UNCHANGED <<store, view, handle, cache, requests, ids, picked, said, adrift>>
      /\ card' = card /\ list' = list /\ decisions' = decisions /\ actions' = actions
      /\ agents' \subseteq agents
  BY DEF DeleteAgent, session
<1>2. faults' \in 0 .. MaxFaults
  BY ChatPageAssumption DEF DeleteAgent, Fault, IInv, Typed
<1>3. /\ list' \in AgentLists /\ (list'.loading => view # Null)
      /\ actions' \in [1 .. MaxIds -> {"none", "pending"} \cup Statuses]
      /\ card' \in {"none", "loading", "pending", "gone", "error"}
      /\ decisions' \subseteq Decision
  BY <1>1 DEF IInv, Typed, SessionFits
<1> QED
  BY <1>1, <1>2, <1>3, SameKeeps

-----------------------------------------------------------------------------
(* Approvals. *)

\* What the steps of approvals leave alone.
LEMMA ApproveKeeps ==
  ASSUME IInv, UNCHANGED <<store, view, handle, list, cache, requests, agents, ids, picked, said, adrift>>,
         faults' \in 0 .. MaxFaults,
         actions' \in [1 .. MaxIds -> {"none", "pending"} \cup Statuses],
         \A i \in 1 .. MaxIds : actions'[i] # actions[i] => actions[i] = "pending",
         card' \in {"none", "loading", "pending", "gone", "error"}, card' # "none" => card # "none",
         decisions' \subseteq Decision, \A d \in decisions' : d \in decisions \/ DecisionFits(d)'
  PROVE  IInv'
<1>1. list' \in AgentLists /\ (list'.loading => view # Null)
  BY DEF IInv, Typed, SessionFits
<1> QED
  BY <1>1, SameKeeps

\* The approval card has loaded its command, or not.
LEMMA CardLoadsKeeps ==
  ASSUME IInv, CardLoads
  PROVE  IInv'
<1>1. /\ UNCHANGED <<store, view, handle, list, cache, requests, agents, ids, picked, said, adrift>>
      /\ actions' = actions /\ decisions' = decisions
      /\ card # "none" /\ card' \in {"none", "loading", "pending", "gone", "error"}
  BY DEF CardLoads, server
<1>2. faults' \in 0 .. MaxFaults
  BY ChatPageAssumption DEF CardLoads, Fault, IInv, Typed
<1>3. actions' \in [1 .. MaxIds -> {"none", "pending"} \cup Statuses] /\ decisions' \subseteq Decision
  BY <1>1 DEF IInv, Typed
<1> QED
  BY <1>1, <1>2, <1>3, ApproveKeeps

\* The user decides.
LEMMA DecideKeeps ==
  ASSUME IInv, Decide
  PROVE  IInv'
<1>1. PICK status \in Statuses :
        decisions' = decisions \cup
          {[about |-> Asking, chat |-> view, status |-> status, arrived |-> "no", mounted |-> TRUE,
            base |-> <<>>, agent |-> Null]}
  BY DEF Decide
<1>2. /\ UNCHANGED <<store, view, handle, list, cache, requests, agents, ids, picked, said, adrift>>
      /\ UNCHANGED <<actions, card, faults>> /\ card = "pending"
  BY DEF Decide, canDecide, server, session
<1>3. /\ view \in Chats /\ cache[view].known /\ Shown(view) # <<>> /\ MessagesFit(Shown(view), view)
  BY <1>2, ShownIs DEF IInv, SessionFits
<1>4. Asking \in 1 .. ids
  <2>1. PICK s : s = Shown(view)
    OBVIOUS
  <2>2. Len(s) \in 1 .. Len(s) /\ s \in Seq(Message)
    <3>1. s \in Seq(Message) /\ s # <<>>
      BY <1>3, <2>1 DEF MessagesFit, InOrder
    <3>2. Len(s) \in Nat \ {0}
      BY <3>1, EmptySeq, LenProperties
    <3> QED
      BY <3>1, <3>2
  <2>3. MessageFits(s[Len(s)], view)
    BY <1>3, <2>1, <2>2 DEF MessagesFit
  <2>4. Asking = s[Len(s)].id
    BY <2>1 DEF Asking, Last
  <2> QED
    BY <2>3, <2>4 DEF MessageFits
<1>5. PICK e : e = [about |-> Asking, chat |-> view, status |-> status, arrived |-> "no",
                    mounted |-> TRUE, base |-> <<>>, agent |-> Null]
  OBVIOUS
<1>6. /\ e.about = Asking /\ e.chat = view /\ e.arrived = "no" /\ e.base = <<>>
      /\ e \in Decision
  <2>1. Asking \in 1 .. MaxIds
    BY <1>4, ChatPageAssumption DEF IInv, Typed
  <2>2. <<>> \in Seq(Message)
    OBVIOUS
  <2> QED
    BY <1>3, <1>5, <2>1, <2>2 DEF Decision
<1>7. DecisionFits(e)'
  <2>1. MessagesFit(e.base, e.chat)'
    BY <1>6, NothingFits
  <2>2. e.about \in 1 .. ids'
    BY <1>2, <1>4, <1>6
  <2>3. e.chat = view' /\ cache'[e.chat].known /\ ~Accepted(e)
    BY <1>2, <1>3, <1>6 DEF Accepted
  <2> QED
    BY <2>1, <2>2, <2>3 DEF DecisionFits, Accepted
<1>8. decisions' = decisions \cup {e}
  BY <1>1, <1>5
<1>9. /\ faults' \in 0 .. MaxFaults /\ card' \in {"none", "loading", "pending", "gone", "error"}
      /\ actions' \in [1 .. MaxIds -> {"none", "pending"} \cup Statuses] /\ decisions' \subseteq Decision
  BY <1>2, <1>6, <1>8 DEF IInv, Typed
<1> QED
  BY <1>2, <1>7, <1>8, <1>9, ApproveKeeps

\* The decision arrives at the server, which records it or refuses it.
LEMMA DecisionArrivesKeeps ==
  ASSUME IInv, DecisionArrives
  PROVE  IInv'
<1>1. PICK d \in decisions :
       LET pending == actions[d.about] = "pending"
       IN  /\ decisions' = (decisions \ {d}) \cup
                           {[d EXCEPT !.arrived = IF pending THEN "done" ELSE "refused"]}
           /\ actions' = IF pending THEN [actions EXCEPT ![d.about] = d.status] ELSE actions
  BY DEF DecisionArrives
<1>2. /\ UNCHANGED <<store, view, handle, list, cache, requests, agents, ids, picked, said, adrift>>
      /\ card' = card /\ faults' = faults
  BY DEF DecisionArrives, session
<1>3. d \in Decision /\ DecisionFits(d) /\ d.about \in 1 .. MaxIds /\ d.status \in Statuses /\ d.chat \in Chats
  BY DEF IInv, Typed, Decision
<1>4. /\ actions' \in [1 .. MaxIds -> {"none", "pending"} \cup Statuses]
      /\ \A i \in 1 .. MaxIds : actions'[i] # actions[i] => actions[i] = "pending"
      /\ actions[d.about] = "pending" => actions'[d.about] = d.status
  BY <1>1, <1>3 DEF IInv, Typed
<1>5. PICK e : e = [d EXCEPT !.arrived = IF actions[d.about] = "pending" THEN "done" ELSE "refused"]
  OBVIOUS
<1>6. /\ e \in Decision /\ e.about = d.about /\ e.chat = d.chat /\ e.status = d.status
      /\ e.mounted = d.mounted /\ e.base = d.base
      /\ e.arrived = "done" => actions[d.about] = "pending"
  BY <1>3, <1>5 DEF Decision
<1>7. Advance
  BY <1>2, <1>4, AdvanceNow DEF IInv, Statuses
<1>8. DecisionFits(e)'
  <2>1. MessagesFit(e.base, e.chat)'
    BY <1>3, <1>6, <1>7, MessagesKeep DEF DecisionFits
  <2>2. e.about \in 1 .. ids' /\ cache'[e.chat].known /\ (e.mounted => e.chat = view')
    BY <1>2, <1>3, <1>6 DEF DecisionFits
  <2>3. e.arrived = "done" => actions'[e.about] = e.status
    BY <1>4, <1>6
  <2> QED
    BY <2>1, <2>2, <2>3 DEF DecisionFits, Accepted
<1>9. decisions' = (decisions \ {d}) \cup {e}
  BY <1>1, <1>5
<1>10. /\ faults' \in 0 .. MaxFaults /\ card' \in {"none", "loading", "pending", "gone", "error"}
       /\ decisions' \subseteq Decision
  BY <1>2, <1>6, <1>9 DEF IInv, Typed
<1> QED
  BY <1>2, <1>4, <1>8, <1>9, <1>10, ApproveKeeps

\* Another tab, or the task page, decides first.
LEMMA DecideElsewhereKeeps ==
  ASSUME IInv, DecideElsewhere
  PROVE  IInv'
<1>1. /\ UNCHANGED <<store, view, handle, list, cache, requests, agents, ids, picked, said, adrift>>
      /\ card' = card /\ decisions' = decisions
  BY DEF DecideElsewhere, session
<1>2. faults' \in 0 .. MaxFaults
  BY ChatPageAssumption DEF DecideElsewhere, Fault, IInv, Typed
<1>3. /\ actions' \in [1 .. MaxIds -> {"none", "pending"} \cup Statuses]
      /\ \A i \in 1 .. MaxIds : actions'[i] # actions[i] => actions[i] = "pending"
  BY DEF DecideElsewhere, IInv, Typed
<1>4. decisions' \subseteq Decision /\ card' \in {"none", "loading", "pending", "gone", "error"}
  BY <1>1 DEF IInv, Typed
<1> QED
  BY <1>1, <1>2, <1>3, <1>4, ApproveKeeps

\* The decision is refused, or its answer is lost.
LEMMA DecisionFailsKeeps ==
  ASSUME IInv, DecisionFails
  PROVE  IInv'
<1>1. /\ UNCHANGED <<store, view, handle, list, cache, requests, agents, ids, picked, said, adrift>>
      /\ card' = card /\ actions' = actions /\ decisions' \subseteq decisions
  BY DEF DecisionFails, session, server
<1>2. faults' \in 0 .. MaxFaults
  BY ChatPageAssumption DEF DecisionFails, Fault, IInv, Typed
<1>3. /\ decisions' \subseteq Decision /\ card' \in {"none", "loading", "pending", "gone", "error"}
      /\ actions' \in [1 .. MaxIds -> {"none", "pending"} \cup Statuses]
  BY <1>1 DEF IInv, Typed
<1> QED
  BY <1>1, <1>2, <1>3, ApproveKeeps

\* A chat says what was decided only after the server recorded just that.
LEMMA ResolveKeeps ==
  ASSUME IInv, resolveAction
  PROVE  IInv'
<1>1. PICK d \in decisions :
    /\ Accepted(d)
    /\ ids + 2 =< MaxIds
    /\ ids' = ids + 2
    /\ decisions' = decisions \ {d}
    /\ LET m == Decided(ids + 1, d)
       IN IF d.mounted
          THEN FromSession(ids + 2, Append(Shown(view), m))
          ELSE /\ triggerRequest(ids + 2, d.chat, Append(d.base, m), d.agent)
               /\ card' = IF view = d.chat THEN "none" ELSE card
               /\ UNCHANGED <<view, handle, list>>
    /\ adrift' = IF d.mounted /\ ~Loading THEN adrift ELSE adrift \cup {d.chat}
    /\ UNCHANGED <<server, faults, picked, said>>
  BY DEF resolveAction
<1>2. /\ ids \in Nat /\ ids' \in 0 .. MaxIds /\ ids + 1 \in ids + 1 .. ids' /\ ids + 2 \in ids + 1 .. ids'
      /\ ids' \in ids .. MaxIds /\ ids + 1 \in 1 .. MaxIds /\ ids + 1 \in 1 .. ids' /\ ids + 1 \notin 1 .. ids
      /\ ids + 2 \in 1 .. MaxIds /\ ids + 2 \notin 1 .. ids
  BY <1>1, ChatPageAssumption DEF IInv, Typed
<1>3. /\ d \in Decision /\ DecisionFits(d) /\ d.chat \in Chats /\ d.status \in Statuses
      /\ d.about \in 1 .. MaxIds /\ d.agent \in Agents \cup {Null} /\ actions[d.about] = d.status
  BY <1>1 DEF IInv, Typed, Decision, DecisionFits
<1>4. Advance
  BY <1>1, <1>2, AdvanceIs DEF IInv, server
<1>5. PICK m, id, c : m = Decided(ids + 1, d) /\ id = ids + 2 /\ c = d.chat
  OBVIOUS
<1>6. m \in Message /\ m.id = ids + 1 /\ m.role = d.status /\ m.about = d.about /\ IsUser(m)
  BY <1>2, <1>3, <1>5 DEF Decided, Message, IsUser
<1>7. MessageFits(m, c)'
  BY <1>1, <1>2, <1>3, <1>6 DEF MessageFits, IsUser, server
<1>8. \A e \in Chats : said'[e] \subseteq 1 .. ids
  BY <1>1 DEF IInv, Typed
<1>9. said' \in [Chats -> SUBSET (1 .. ids')] /\ \A e \in Chats : id \notin said'[e]
  <2>1. 1 .. ids \subseteq 1 .. ids'
    BY <1>2
  <2> QED
    BY <1>1, <1>2, <1>5, <1>8, <2>1 DEF IInv, Typed
<1>10. adrift \subseteq adrift' /\ adrift' \subseteq Chats /\ decisions' \subseteq decisions
  BY <1>1, <1>3 DEF IInv, Typed
<1>11. CASE d.mounted
  <2>1. c = view /\ view # Null
    BY <1>3, <1>5, <1>11, ViewIsChat DEF DecisionFits, IInv
  <2>2. /\ Shown(view) = cache[view].messages /\ MessagesFit(Shown(view), view) /\ ChatFits(view)
        /\ cache[view].known
    BY <2>1, ShownIs, ViewIsChat DEF IInv
  <2>3. PICK s, b : s = Shown(view) /\ b = Append(s, m)
    OBVIOUS
  <2>4. FromSession(id, b)
    BY <1>1, <1>5, <1>11, <2>3
  <2>5. MessagesFit(s, c)'
    BY <1>3, <1>4, <1>5, <2>1, <2>2, <2>3, MessagesKeep
  <2>11. s \in Seq(Message) /\ \A k \in Ids(s) : k < m.id
    <3>1. s \in Seq(Message) /\ Ids(s) \subseteq 1 .. ids
      BY <2>2, <2>3, IdsFit
    <3> QED
      BY <1>2, <1>6, <3>1
  <2>6. MessagesFit(b, c)'
    BY <1>6, <1>7, <2>3, <2>5, <2>11, AppendFits
  <2>7. MessagesFit(b, view)'
    BY <2>1, <2>4, <2>6 DEF FromSession
  <2>8. b # <<>> /\ IsUser(Last(b)) /\ \A k \in Ids(b) : k < id
    <3>1. Last(b) = m /\ b # <<>> /\ Ids(b) = Ids(s) \cup {m.id}
      BY <1>6, <2>3, <2>11, AppendIs, IdsOfAppend
    <3>2. m.id < id /\ m.id \in Nat /\ id \in Nat
      BY <1>2, <1>5, <1>6
    <3>3. Ids(s) \subseteq Nat
      BY <2>2, <2>3, IdsFit
    <3> QED
      BY <1>6, <2>11, <3>1, <3>2, <3>3
  <2>9. view \notin adrift' =>
          /\ ~(cache[view].loading /\ ~cache[view].error)
          /\ HasWords(b, view)'
    <3>1. c \notin adrift' => HasWords(s, c) /\ ~cache[view].loading
      <4>1. c \notin adrift' => c \notin adrift /\ ~Loading
        BY <1>1, <1>5, <1>11
      <4> QED
        BY <2>1, <2>2, <2>3, <4>1 DEF Loading, ChatFits, ChatIs
    <3>2. said'[c] \subseteq said[c] \cup {m.id} /\ m.id > ids
      BY <1>1, <1>2, <1>6
    <3>3. c \notin adrift' => HasWords(b, c)'
      BY <1>3, <1>5, <1>6, <2>3, <2>11, <3>1, <3>2, AppendWords DEF IInv
    <3> QED
      BY <2>1, <2>4, <3>1, <3>3 DEF FromSession
  <2>10. said' = said /\ UNCHANGED <<server, faults, picked>> /\ id \in ids + 1 .. ids'
    BY <1>1, <1>2, <1>5
  <2> QED
    BY <1>2, <1>4, <1>9, <1>10, <2>1, <2>4, <2>7, <2>8, <2>9, <2>10, FromSessionKeeps
<1>12. CASE ~d.mounted
  <2>1. PICK b, q : /\ b = Append(d.base, m)
                    /\ q = [id |-> id, chat |-> c, base |-> b, agent |-> d.agent, picked |-> picked[c]]
    OBVIOUS
  <2>2. MessagesFit(d.base, c)' /\ cache[c].known
    BY <1>3, <1>4, <1>5, MessagesKeep DEF DecisionFits
  <2>13. d.base \in Seq(Message) /\ Ids(d.base) \subseteq 1 .. ids
    BY <1>3, IdsFit DEF DecisionFits
  <2>14. \A k \in Ids(d.base) : k < m.id
    BY <1>2, <1>6, <2>13
  <2>3. MessagesFit(b, c)'
    BY <1>6, <1>7, <2>1, <2>2, <2>14, AppendFits
  <2>15. IsUser(Last(b)) /\ \A k \in Ids(b) : k < id
    <3>1. Last(b) = m /\ Ids(b) = Ids(d.base) \cup {m.id}
      BY <1>6, <2>1, <2>13, AppendIs, IdsOfAppend
    <3> QED
      BY <1>2, <1>5, <1>6, <2>13, <3>1
  <2>4. b \in Seq(Message) /\ b # <<>>
    BY <1>3, <1>6, <2>1, AppendIs DEF Decision
  <2>5. /\ q \in Request /\ q.id = id /\ q.chat = c /\ q.base = b
        /\ picked[c] \in Agents \cup {Null}
    <3>1. picked[c] \in Agents \cup {Null}
      BY <1>3, <1>5 DEF IInv, Typed
    <3> QED
      BY <1>2, <1>3, <1>5, <2>1, <2>4, <3>1 DEF Request
  <2>6. PICK u : u = IF view = c THEN Persist(Store, c, b, TRUE) ELSE Store
    OBVIOUS
  <2>7. /\ requests' = requests \cup {q} /\ handle' = handle /\ view' = view /\ list' = list
        /\ card' = IF view = c THEN "none" ELSE card
        /\ cache' = [cache EXCEPT ![c] = Asked(b)] /\ StoreIs(u)
    BY <1>1, <1>5, <1>12, <2>1, <2>6 DEF triggerRequest, Asked
  <2>8. Shows(q.chat, Asked(q.base), u)
    BY <2>5, <2>6, <2>7 DEF Shows, Asked
  <2>9. c \in adrift'
    BY <1>1, <1>5, <1>12
  <2>10. /\ cache[q.chat].known /\ q.base # <<>> /\ q.id \in ids + 1 .. ids'
         /\ \A e \in Chats : q.id \notin said'[e]
         /\ \A e \in Chats \ {q.chat} : said'[e] = said[e]
         /\ \A r \in requests : r.chat \notin adrift' => r.chat # q.chat /\ handle' = handle
         /\ q.chat \in adrift' /\ handle' \in {handle, q.id}
         /\ card' = IF view = q.chat THEN "none" ELSE card
         /\ IsUser(Last(q.base)) /\ \A k \in Ids(q.base) : k < q.id
    BY <1>1, <1>2, <1>5, <1>9, <2>2, <2>4, <2>5, <2>7, <2>9, <2>15
  <2>11. MessagesFit(q.base, q.chat)'
    BY <2>3, <2>5
  <2>12. UNCHANGED <<server, list, faults, picked>>
    BY <1>1, <2>7
  <2> QED
    BY <1>2, <1>4, <1>9, <1>10, <2>5, <2>7, <2>8, <2>10, <2>11, <2>12, AskKeeps
<1> QED
  BY <1>11, <1>12

-----------------------------------------------------------------------------
(* The tab is loaded again. *)

\* Only the store is left, and it is right.
LEMMA ReloadKeeps ==
  ASSUME IInv, Reload
  PROVE  IInv'
<1>1. /\ view' = Null /\ handle' = 0 /\ card' = "none"
      /\ list' = [LoadingAgain EXCEPT !.loading = FALSE]
      /\ cache' = [c \in Chats |-> NotCached]
      /\ requests' = {} /\ decisions' = {} /\ lastSaved' = <<>>
      /\ UNCHANGED <<recent, saved, agentOf, created, active, server, ids, picked, said, adrift>>
  BY DEF Reload
<1>2. faults' \in 0 .. MaxFaults
  BY ChatPageAssumption DEF Reload, Fault, IInv, Typed
<1>3. /\ recent' = recent /\ saved' = saved /\ agentOf' = agentOf /\ created' = created
      /\ active' = active /\ actions' = actions /\ agents' = agents
  BY <1>1 DEF server
<1>4. NotCached \in Cached /\ NotCached.messages = <<>> /\ ~NotCached.known /\ ~NotCached.loading
  BY DEF NotCached, Cached
<1>5. Typed'
  <2>1. cache' \in [Chats -> Cached]
    BY <1>1, <1>4
  <2>2. list' \in AgentLists /\ ~list'.loading
    BY <1>1 DEF AgentLists, LoadingAgain
  <2>3. handle' \in 0 .. ids' /\ <<>> \in Seq(Message)
    BY <1>1 DEF IInv, Typed
  <2> QED
    BY <1>1, <1>2, <1>3, <2>1, <2>2, <2>3 DEF Typed, IInv
<1>6. Fresh' /\ SessionFits' /\ RequestsFit' /\ \A d \in decisions' : DecisionFits(d)'
  BY <1>1, <1>3 DEF IInv, Fresh, SessionFits, RequestsFit, LoadingAgain
<1>7. Advance
  BY <1>1, <1>3, AdvanceNow DEF IInv
<1>8. ASSUME NEW d \in Chats
      PROVE  ChatFits(d)'
  <2>1. ChatFits(d) /\ said' = said /\ adrift' = adrift /\ picked' = picked
    BY <1>1 DEF IInv
  <2>2. PICK p : p = saved[d]
    OBVIOUS
  <2>3. MessagesFit(p, d)' /\ MessagesFit(<<>>, d)'
    BY <1>7, <2>1, <2>2, MessagesKeep, NothingFits DEF ChatFits, ChatIs
  <2>4. MessagesFit(saved[d], d)' /\ cache'[d] = NotCached /\ d # view'
    BY <1>1, <1>3, <2>2, <2>3, ViewIsChat DEF IInv
  <2>5. MessagesFit(cache[d].messages, d)'
    BY <1>4, <2>3, <2>4
  <2>6. HasWords(p, d) => HasWords(p, d)'
    BY <2>1, WordsKeep
  <2> QED
    BY <1>3, <1>4, <2>1, <2>2, <2>4, <2>5, <2>6 DEF ChatFits, ChatIs
<1> QED
  BY <1>5, <1>6, <1>8 DEF IInv

-----------------------------------------------------------------------------
(* The theorems. *)

\* The page begins with nothing.
LEMMA InitFits ==
  ASSUME Init
  PROVE  IInv
<1>1. NotCached \in Cached /\ NotCached.messages = <<>> /\ ~NotCached.known /\ ~NotCached.loading
  BY DEF NotCached, Cached
<1>2. Typed
  <2>1. recent \in Seq(1 .. created) /\ IsInjective(recent)
    BY DEF Init, IsInjective
  <2>2. created \in 0 .. MaxChats /\ ids \in 0 .. MaxIds /\ faults \in 0 .. MaxFaults /\ handle \in 0 .. ids
    BY ChatPageAssumption DEF Init
  <2>3. <<>> \in Seq(Message)
    OBVIOUS
  <2>4. list \in AgentLists
    BY DEF Init, AgentLists
  <2>5. /\ saved \in [Chats -> Seq(Message)] /\ cache \in [Chats -> Cached]
        /\ agentOf \in [Chats -> Agents \cup {Null}] /\ picked \in [Chats -> Agents \cup {Null}]
        /\ said \in [Chats -> SUBSET (1 .. ids)]
        /\ actions \in [1 .. MaxIds -> {"none", "pending"} \cup Statuses]
    BY <1>1, <2>3 DEF Init
  <2> QED
    BY <2>1, <2>2, <2>3, <2>4, <2>5 DEF Init, Typed
<1>3. Fresh /\ SessionFits /\ RequestsFit /\ \A d \in decisions : DecisionFits(d)
  BY DEF Init, Fresh, SessionFits, RequestsFit
<1>4. ASSUME NEW c \in Chats
      PROVE  ChatFits(c)
  <2>1. /\ saved[c] = <<>> /\ cache[c] = NotCached /\ agentOf[c] = Null /\ said[c] = {} /\ picked[c] = Null
        /\ view = Null /\ c # Null /\ c \notin Range(recent)
    BY ViewIsChat, <1>2 DEF Init, Range
  <2>2. HasWords(<<>>, c) /\ Len(<<>>) <= MaxStored
    BY <2>1, ChatPageAssumption DEF HasWords, Keeps
  <2> QED
    BY <1>1, <2>1, <2>2, NothingFits DEF ChatFits, ChatIs
<1> QED
  BY <1>2, <1>3, <1>4 DEF IInv

\* IInv is inductive, so it holds of every state of the page.
THEOREM Invariance == Spec => []IInv
<1>1. Init => IInv
  BY InitFits
<1>2. ASSUME IInv, [Next]_vars
      PROVE  IInv'
  <2>1. CASE Manage
    BY <1>2, <2>1, OpenKeeps, LeaveKeeps, SwitchChatKeeps, NewChatKeeps, DeleteKeeps DEF Manage
  <2>2. CASE Ask
    BY <1>2, <2>2, SendKeeps, RegenerateKeeps, RetryKeeps, StopKeeps DEF Ask
  <2>3. CASE Answer
    BY <1>2, <2>3, PieceKeeps, EndsKeeps, FailsKeeps DEF Answer
  <2>4. CASE Choose
    BY <1>2, <2>4, ChooseKeeps, ListArrivesKeeps, ListFailsKeeps, TryAgainKeeps, DeleteAgentKeeps
    DEF Choose
  <2>5. CASE Approve
    BY <1>2, <2>5, CardLoadsKeeps, DecideKeeps, DecisionArrivesKeeps, DecideElsewhereKeeps,
       ResolveKeeps, DecisionFailsKeeps DEF Approve
  <2>6. CASE Reload
    BY <1>2, <2>6, ReloadKeeps
  <2>7. CASE UNCHANGED vars
    <3>1. UNCHANGED <<store, view, handle, list, cache, requests, agents, ids, picked, said, adrift>>
      BY <2>7 DEF vars, store
    <3>2. /\ faults' \in 0 .. MaxFaults /\ actions' = actions /\ card' = card /\ decisions' = decisions
          /\ actions \in [1 .. MaxIds -> {"none", "pending"} \cup Statuses]
          /\ card \in {"none", "loading", "pending", "gone", "error"} /\ decisions \subseteq Decision
      BY <1>2, <2>7 DEF vars, IInv, Typed
    <3> QED
      BY <1>2, <3>1, <3>2, ApproveKeeps
  <2> QED
    BY <1>2, <2>1, <2>2, <2>3, <2>4, <2>5, <2>6, <2>7 DEF Next
<1> QED
  BY <1>1, <1>2, PTL DEF Spec

\* What the invariant says of the chats the store has, and of the requests.
LEMMA ChatsAreRecent ==
  ASSUME IInv
  PROVE  /\ \A c \in Range(recent) : c \in Chats /\ ChatFits(c)
         /\ \A r \in requests : r \in Request /\ RequestFits(r) /\ r.chat \in Chats
BY ViewIsChat DEF IInv, RequestsFit, Typed, Request

\* Whatever the user does, the last messages a chat shows, as many as the store keeps, are what it has
\* of the chat as soon as no reply is being written in front of the user, and every variable has its
\* type: the saving effect, the clean-up of a session, and stop() are enough, in every order of
\* switches, replies and failures.
THEOREM InStepCorrect == Spec => []InStep
<1>1. ASSUME IInv
      PROVE  InStep
  <2>1. TypeOK
    <3>1. Range(recent) \subseteq 1 .. created
      BY <1>1, StoreIsStore DEF IInv, StoreFits
    <3>2. \A c \in Chats : Range(saved[c]) \subseteq Message
      <4> SUFFICES ASSUME NEW c \in Chats PROVE Range(saved[c]) \subseteq Message
        OBVIOUS
      <4>1. saved[c] \in Seq(Message)
        BY <1>1 DEF IInv, Typed
      <4> QED
        BY <4>1, LenProperties, ElementOfSeq DEF Range
    <3>5. Range(lastSaved) \subseteq Message
      <4>1. lastSaved \in Seq(Message)
        BY <1>1 DEF IInv, Typed
      <4> QED
        BY <4>1, LenProperties, ElementOfSeq DEF Range
    <3>3. /\ \A r \in requests : r.id \in 1 .. ids
          /\ \A d \in decisions : d.about \in 1 .. ids /\ (d.mounted => d.chat = view)
      BY <1>1 DEF IInv, RequestsFit, RequestFits, DecisionFits
    <3>4. list.agents \subseteq Agents
      BY <1>1 DEF IInv, Typed, AgentLists
    <3> QED
      BY <1>1, <3>1, <3>2, <3>3, <3>4, <3>5 DEF TypeOK, IInv, Typed, SessionFits
  <2>2. \A c \in Range(recent) \ adrift :
          cache[c].known /\ ~(c = view /\ cache[c].loading) =>
            saved[c] = toStoredMessages(cache[c].messages)
    BY <1>1, ChatsAreRecent DEF ChatFits, ChatIs
  <2> QED
    BY <2>1, <2>2 DEF InStep
<1> QED
  BY <1>1, Invariance, PTL

\* What the user wrote is in the store from the moment it is sent until the chat is deleted or has as
\* many later messages as the store keeps, and a deleted chat stays empty: sending again takes away
\* replies only, and a session or a request that is late saves nothing for a chat that the store does
\* not have.
THEOREM WordsCorrect == Spec => []UserWordsAreKept
<1>1. ASSUME IInv
      PROVE  UserWordsAreKept
  <2>1. \A c \in Range(recent) \ adrift : HasWords(saved[c], c)
    BY <1>1, ChatsAreRecent DEF ChatFits, ChatIs
  <2>2. \A c \in Chats \ Range(recent) : saved[c] = <<>> /\ agentOf[c] = Null
    BY <1>1 DEF IInv, ChatFits, ChatIs
  <2> QED
    BY <2>1, <2>2 DEF UserWordsAreKept, HasWords, Keeps
<1> QED
  BY <1>1, Invariance, PTL

\* A chat tells of a decision only if the server recorded just that one, whatever tab or page decides
\* first and whatever is lost on the way.
THEOREM DecisionsCorrect == Spec => []DecisionsAreTrue
<1>1. ASSUME IInv, NEW c \in Chats, NEW m \in Range(saved[c]) \cup Range(cache[c].messages),
             m.role \in Statuses
      PROVE  actions[m.about] = m.role
  <2>1. MessagesFit(saved[c], c) /\ MessagesFit(cache[c].messages, c)
    BY <1>1 DEF IInv, ChatFits, ChatIs
  <2>2. ASSUME NEW s, MessagesFit(s, c), m \in Range(s)
        PROVE  actions[m.about] = m.role
    <3>1. PICK i \in 1 .. Len(s) : m = s[i]
      BY <2>2, LenProperties DEF MessagesFit, InOrder, Range
    <3>2. MessageFits(m, c)
      BY <2>2, <3>1 DEF MessagesFit
    <3> QED
      BY <1>1, <3>2 DEF MessageFits
  <2>3. m \in Range(saved[c]) \/ m \in Range(cache[c].messages)
    OBVIOUS
  <2> QED
    BY <2>1, <2>2, <2>3
<1>2. IInv => DecisionsAreTrue
  BY <1>1 DEF DecisionsAreTrue
<1> QED
  BY <1>2, Invariance, PTL

\* The agent the user chose answers the chat as long as it exists: a list of agents that is loading or
\* could not be loaded never drops it, and a request takes the choice of its own session.
THEOREM PickCorrect == Spec => []AgentIsThePick
<1>1. ASSUME IInv
      PROVE  AgentIsThePick
  BY <1>1, ChatsAreRecent DEF AgentIsThePick, ChatFits, ChatIs, RequestFits
<1> QED
  BY <1>1, Invariance, PTL

\* A chat behind which no decision was added has one request at most, which the session on the screen
\* shows and can stop: sending, sending again, switching and loading again leave no second one.
THEOREM OneReplyCorrect == Spec => []OneReplyAtATime
<1>1. ASSUME IInv, NEW r \in requests, r.chat \notin adrift
      PROVE  /\ cache[r.chat].loading /\ view = r.chat /\ handle = r.id
             /\ \A q \in requests : q.chat = r.chat => q = r
  <2>1. cache[r.chat].loading /\ view = r.chat /\ handle = r.id
    BY <1>1, ChatsAreRecent DEF RequestFits
  <2>2. ASSUME NEW q \in requests, q.chat = r.chat
        PROVE  q = r
    <3>1. handle = q.id
      BY <1>1, <2>2, ChatsAreRecent DEF RequestFits
    <3> QED
      BY <1>1, <2>1, <3>1 DEF IInv, RequestsFit
  <2> QED
    BY <2>1, <2>2
<1>2. IInv => OneReplyAtATime
  BY <1>1 DEF OneReplyAtATime
<1> QED
  BY <1>2, Invariance, PTL
=============================================================================
