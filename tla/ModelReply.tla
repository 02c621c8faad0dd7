----------------------------- MODULE ModelReply -----------------------------
(***************************************************************************)
(* One answer of the chat model, from the choice of an installed model to  *)
(* the text the user sees: the request with its timer and the user's Stop, *)
(* the reply that comes whole or in pieces, the reasoning that is taken    *)
(* out of it, the node of the agent that waits for it, and the route that  *)
(* ends the stream.                                                        *)
(*                                                                         *)
(* A text is a sequence of letters: a tag is cut into two, so that it may  *)
(* be split between two pieces, and all else is a word or a blank.         *)
(*                                                                         *)
(* The state, the initial predicate and the next-state relation have names *)
(* of their own, so that one module can extend this one and MemoryIndex.   *)
(***************************************************************************)
EXTENDS Naturals, Sequences, SequencesExt, FiniteSetsExt

CONSTANTS
  Tags,      \* what Ollama may have installed
  Default,   \* the tag that is wanted: TORVAIX_MODEL, or llama3.2
  Siblings,  \* other tags of that model
  Embedding, \* tags that cannot chat
  NoAnswer,  \* Ollama does not answer
  MaxLetters, \* bound of the model: letters of a reply
  MaxPiece,   \* bound of the model: letters of a piece
  MaxMishaps  \* bound of the model: failures, and changes in Ollama

ASSUME ModelReplyAssumption ==
  /\ Default \in Tags /\ Siblings \subseteq Tags \ {Default}
  /\ Embedding \subseteq Tags /\ NoAnswer \notin Tags
  /\ MaxLetters \in Nat /\ MaxPiece \in Nat \ {0} /\ MaxMishaps \in Nat

VARIABLES
  installed, \* what Ollama has, or NoAnswer
  tag,       \* autoModel, or envModelTag
  model,     \* this.model of the orchestrator
  probes,    \* answers of Ollama that are under way to the server, each with what it had
  applied,   \* what Ollama had in the answer that this model was chosen from; kept for the properties
  ask,       \* what is asked: of which provider, with a stream or without
  phase,     \* of the request
  aborted,   \* the user pressed Stop or left: the caller's signal
  timedOut,  \* the timer of _fetchWithTimeout went off
  text,      \* what the model wrote so far, as it reached the client
  filter,    \* thinkingFilter of a reply that is streamed
  told,      \* what the call ended with
  reply,     \* the text that the call returns
  streamed,  \* state.streamedReply
  output,    \* what state.output is
  chat,      \* what the user was shown: letters, an error under them, and the text at the end
  mishaps

models == <<installed, tag, model, probes, applied>>
call == <<phase, aborted, timedOut, text, filter, told, reply>>
shown == <<streamed, output, chat>>
replyVars == <<installed, tag, model, probes, applied, ask, phase, aborted, timedOut, text, filter, told,
               reply, streamed, output, chat, mishaps>>

-----------------------------------------------------------------------------

Letters == {"blank", "word", "open1", "open2", "close1", "close2"}
Open == <<"open1", "open2">>

Lists == {NoAnswer} \cup SUBSET Tags

\* A model of the list belongs to its provider; every other name is a tag of Ollama.
Providers == {"ollama", "cloud"}

\* env: TORVAIX_MODEL names the model.
Ask == [provider : Providers, stream : BOOLEAN, env : BOOLEAN]

Phases == {"start", "recalling", "asking", "reading", "returned", "done", "ended"}

\* missing: the model is not installed. refused: any other error reply, or no API key. broken: an error in
\* the middle of the reply.
Outcomes == {"none", "ok", "cancelled", "timeout", "unreachable", "missing", "refused", "broken"}

Outputs == {"none", "answer", "fallback", "error"}

Mishap == mishaps < MaxMishaps /\ mishaps' = mishaps + 1

-----------------------------------------------------------------------------
(* The reasoning at the start of a reply. *)

TrimStart(s) ==
  LET inked == {i \in DOMAIN s : s[i] # "blank"}
  IN  IF inked = {} THEN <<>> ELSE SubSeq(s, Min(inked), Len(s))

Closes(s) == {i \in 1 .. Len(s) - 1 : s[i] = "close1" /\ s[i + 1] = "close2"}

AfterClose(s) == TrimStart(SubSeq(s, Min(Closes(s)) + 2, Len(s)))

stripThinking(s) ==
  IF ~IsPrefix(Open, TrimStart(s)) THEN s
  ELSE IF Closes(s) = {} THEN <<>> ELSE AfterClose(s)

NeverATag(lead) == lead = <<>>

\* A text that may still turn out to be the tag is held back.
MayBeTag(lead) == lead = <<>> \/ IsStrictPrefix(lead, Open)

\* The filter after a piece, and what can be shown of it.
Push(f, piece) ==
  LET held == f.held \o piece
      lead == TrimStart(held)
  IN  CASE f.state = "answer" -> [f EXCEPT !.out = piece]
        [] f.state = "undecided" /\ MayBeTag(lead) -> [f EXCEPT !.held = held, !.out = <<>>]
        [] f.state = "undecided" /\ ~MayBeTag(lead) /\ ~IsPrefix(Open, lead) ->
             [state |-> "answer", held |-> <<>>, out |-> held]
        [] OTHER ->
             IF Closes(held) = {} THEN [state |-> "thinking", held |-> held, out |-> <<>>]
             ELSE [state |-> "answer", held |-> <<>>, out |-> AfterClose(held)]

-----------------------------------------------------------------------------
(* Which model answers. *)

KeepDefault(tags) == {Default}

\* Any of these may be the first that is found.
pickInstalledModel(tags) ==
  IF tags = {} \/ Default \in tags THEN {Default}
  ELSE IF Siblings \cap tags # {} THEN Siblings \cap tags
  ELSE IF tags \ Embedding # {} THEN tags \ Embedding
  ELSE {Default}

\* For TORVAIX_MODEL only another tag of the same model.
matchInstalledTag(tags) ==
  IF Default \in tags \/ Siblings \cap tags = {} THEN {Default} ELSE Siblings \cap tags

InUse(tags) == IF ask.env THEN matchInstalledTag(tags) ELSE pickInstalledModel(tags)

ReplyInit ==
  /\ ask \in Ask
  /\ IF ask.provider = "ollama" THEN installed \in Lists ELSE installed = NoAnswer /\ ~ask.env
  /\ tag = Default
  /\ model = Default
  /\ probes = {}
  /\ applied = NoAnswer
  /\ phase = "start"
  /\ aborted = FALSE
  /\ timedOut = FALSE
  /\ text = <<>>
  /\ filter = [state |-> "undecided", held |-> <<>>, out |-> <<>>]
  /\ told = "none"
  /\ reply = <<>>
  /\ streamed = FALSE
  /\ output = "none"
  /\ chat = [letters |-> <<>>, error |-> FALSE, final |-> "none"]
  /\ mishaps = 0

\* GET /api/health of any page asks Ollama; two such answers may overtake each other.
probeOllama ==
  /\ phase \in {"start", "recalling"} /\ ask.provider = "ollama"
  /\ probes' = probes \cup {installed}
  /\ UNCHANGED <<call, shown, ask, installed, tag, model, applied, mishaps>>

\* Of a request that has its orchestrator the model stays.
Probed(tags) ==
  /\ phase \in {"start", "recalling"}
  /\ tags \in probes
  /\ probes' = probes \ {tags}
  /\ IF tags = NoAnswer THEN UNCHANGED <<tag, applied>>
     ELSE /\ tag' \in InUse(tags)
          /\ applied' = IF phase = "start" THEN tags ELSE applied
  /\ UNCHANGED <<call, shown, ask, installed, model, mishaps>>

\* The user starts or stops Ollama, pulls or deletes models.
OllamaChanges ==
  /\ phase \in {"start", "recalling", "asking"} /\ ask.provider = "ollama"
  /\ Mishap
  /\ installed' \in Lists \ {installed}
  /\ UNCHANGED <<call, shown, ask, tag, model, probes, applied>>

\* The orchestrator of the request takes the model in use.
newOrchestrator ==
  /\ phase = "start"
  /\ phase' = "recalling"
  /\ model' = tag
  /\ UNCHANGED <<installed, tag, probes, applied, shown, ask, aborted, timedOut, text, filter, told, reply,
                 mishaps>>

-----------------------------------------------------------------------------
(* The request. *)

\* The request is routed, which may ask the model, and saved memories are looked up. Without them a
\* conversation goes on, and a question about them fails. The request names the orchestrator's model;
\* the tag is one of later requests, and nothing is kept of it.
Recall ==
  /\ phase = "recalling"
  /\ phase' = "asking"
  /\ probes' = {} /\ tag' = Default
  /\ UNCHANGED <<installed, model, applied, shown, ask, aborted, timedOut, text, filter, told, reply, mishaps>>

RecallFails ==
  /\ phase = "recalling"
  /\ Mishap
  /\ phase' = "done"
  /\ output' = "error"
  /\ UNCHANGED <<models, ask, aborted, timedOut, text, filter, told, reply, streamed, chat>>

\* What the node is given: a text, or an error.
Return(outcome, s) ==
  /\ phase' = "returned"
  /\ told' = outcome
  /\ reply' = s
  /\ UNCHANGED <<models, shown, ask, aborted, timedOut, text, filter>>

Fail(outcome) == Return(outcome, <<>>)

\* The headers of an answer: the timer is cleared. From here on it makes no difference which models
\* Ollama has, and nothing is kept of them.
Accepted ==
  /\ phase = "asking" /\ ~aborted /\ ~timedOut
  /\ ask.provider = "ollama" => installed # NoAnswer /\ model \in installed
  /\ phase' = "reading"
  /\ installed' = NoAnswer /\ model' = Default /\ applied' = NoAnswer
  /\ UNCHANGED <<tag, probes, shown, ask, aborted, timedOut, text, filter, told, reply, mishaps>>

NotInstalled ==
  /\ phase = "asking" /\ ~aborted /\ ~timedOut
  /\ ask.provider = "ollama" /\ installed # NoAnswer /\ model \notin installed
  /\ Fail("missing")
  /\ UNCHANGED mishaps

Refused ==
  /\ phase = "asking" /\ ~aborted /\ ~timedOut
  /\ ask.provider = "ollama" => installed # NoAnswer
  /\ Mishap
  /\ Fail("refused")

TimesOut ==
  /\ phase = "asking" /\ ~timedOut
  /\ timedOut' = TRUE
  /\ UNCHANGED <<models, shown, ask, phase, aborted, text, filter, told, reply, mishaps>>

\* The user presses Stop, or the page goes away. The server listens once it has the orchestrator.
Stop ==
  /\ phase \notin {"start", "ended"} /\ ~aborted
  /\ aborted' = TRUE
  /\ UNCHANGED <<models, shown, ask, phase, timedOut, text, filter, told, reply, mishaps>>

\* What a request that was given up for several reasons is said to have failed for.
Reason == IF aborted THEN "cancelled" ELSE "timeout"

GivenUp ==
  /\ phase = "asking" /\ (aborted \/ timedOut)
  /\ Fail(Reason)
  /\ UNCHANGED mishaps

Unreachable ==
  /\ phase = "asking" /\ ~aborted /\ ~timedOut
  /\ \/ ask.provider = "ollama" /\ installed = NoAnswer /\ UNCHANGED mishaps
     \/ Mishap
  /\ Fail("unreachable")

-----------------------------------------------------------------------------
(* The reply. *)

Streams == ask.provider = "ollama" /\ ask.stream

Show(letters) == chat' = IF aborted THEN chat ELSE [chat EXCEPT !.letters = @ \o letters]

\* A line of Ollama's stream that is whole. What is shown is what the call returns at the end.
Piece ==
  /\ phase = "reading" /\ ~aborted
  /\ \E n \in 1 .. MaxPiece : \E piece \in [1 .. n -> Letters] :
       /\ Len(text) + n <= MaxLetters
       /\ text' = text \o piece
       /\ IF Streams
          THEN LET f == Push(filter, piece)
               IN  /\ filter' = [f EXCEPT !.out = <<>>]
                   /\ reply' = reply \o f.out
                   /\ streamed' = (streamed \/ f.out # <<>>)
                   /\ Show(f.out)
          ELSE UNCHANGED <<filter, reply, streamed, chat>>
  /\ UNCHANGED <<models, ask, phase, aborted, timedOut, told, output, mishaps>>

\* An error in a line, or the connection is lost. (Without an end of its own the stream may also
\* just stop: that is an end.)
Breaks ==
  /\ phase = "reading" /\ ~aborted
  /\ Mishap
  /\ Fail("broken")

Stopped ==
  /\ phase = "reading" /\ aborted
  /\ Fail("cancelled")
  /\ UNCHANGED mishaps

\* A reply that came whole: the adapters of the five cloud providers return it as it is, and Ollama's
\* takes its reasoning out.
CloudReply(s) == s
OllamaReply(s) == stripThinking(s)

Ends ==
  /\ phase = "reading" /\ ~aborted
  /\ Return("ok", IF Streams THEN reply
                  ELSE IF ask.provider = "ollama" THEN OllamaReply(text) ELSE CloudReply(text))
  /\ UNCHANGED mishaps

-----------------------------------------------------------------------------
(* What the agent and the route make of it. *)

AlwaysSent(s) == streamed
Sent(s) == streamed /\ TrimStart(s) # <<>>

\* nodeConversation and nodeMemory after the call. Of a failure after pieces were shown, the error goes
\* under them.
Node ==
  /\ phase = "returned"
  /\ phase' = "done"
  /\ IF told = "ok"
     THEN /\ output' = IF TrimStart(reply) # <<>> THEN "answer" ELSE "fallback"
          /\ streamed' = Sent(reply)
          /\ UNCHANGED chat
     ELSE /\ output' = "error"
          /\ chat' = IF streamed /\ ~aborted THEN [chat EXCEPT !.error = TRUE] ELSE chat
          /\ UNCHANGED streamed
  /\ UNCHANGED <<models, ask, aborted, timedOut, text, filter, told, reply, mishaps>>

\* POST /api/agent/run: what was streamed already is not sent again.
Route ==
  /\ phase = "done"
  /\ phase' = "ended"
  /\ chat' = IF aborted \/ (ask.stream /\ streamed) THEN chat ELSE [chat EXCEPT !.final = output]
  /\ UNCHANGED <<models, ask, aborted, timedOut, text, filter, told, reply, streamed, output, mishaps>>

ReplyNext ==
  \/ probeOllama \/ OllamaChanges
  \/ \E tags \in probes : Probed(tags)
  \/ newOrchestrator \/ Recall \/ RecallFails
  \/ Accepted \/ NotInstalled \/ Refused \/ TimesOut \/ Stop \/ GivenUp \/ Unreachable
  \/ Piece \/ Breaks \/ Stopped \/ Ends
  \/ Node \/ Route

ReplySpec == ReplyInit /\ [][ReplyNext]_replyVars

-----------------------------------------------------------------------------
(* Properties. *)

ReplyTypeOK ==
  /\ installed \in Lists /\ tag \in Tags /\ model \in Tags /\ probes \subseteq Lists /\ applied \in Lists
  /\ ask \in Ask /\ phase \in Phases /\ aborted \in BOOLEAN /\ timedOut \in BOOLEAN
  /\ {text, reply} \subseteq Seq(Letters) /\ Len(text) <= MaxLetters /\ Len(reply) <= MaxLetters
  /\ filter.state \in {"undecided", "thinking", "answer"} /\ filter.held \in Seq(Letters)
  /\ told \in Outcomes /\ streamed \in BOOLEAN /\ output \in Outputs
  /\ chat.letters \in Seq(Letters) /\ chat.error \in BOOLEAN /\ chat.final \in Outputs
  /\ mishaps \in 0 .. MaxMishaps

\* However a reply is cut into pieces: at every moment the user has been shown what would be shown
\* of the text so far if it had come whole, and so never a part of the reasoning that would have to
\* be taken back. Only blanks, and a start that may yet become the tag, make a difference.
StreamedAsWhole ==
  Streams /\ ~aborted =>
    IF MayBeTag(TrimStart(text)) THEN chat.letters = <<>>
    ELSE TrimStart(chat.letters) = TrimStart(stripThinking(text))

\* At its end the chat has been given the answer exactly once, in pieces or whole; or something else
\* in the place of an empty one; or, also exactly once, the error, under whatever came before it.
\* And every variable keeps its type.
AnsweredOnce ==
  /\ ReplyTypeOK
  /\ phase = "ended" /\ ~aborted =>
       /\ told = "ok" /\ TrimStart(reply) # <<>> =>
            \/ chat.letters = reply /\ chat.final = "none"
            \/ chat.letters = <<>> /\ chat.final = "answer"
       /\ told = "ok" /\ TrimStart(reply) = <<>> =>
            TrimStart(chat.letters) = <<>> /\ chat.final = "fallback"
       /\ told # "ok" => chat.error # (chat.final = "error")
       /\ told = "ok" => ~chat.error

\* A model is said to be missing only if none of those that may be used is installed, or Ollama
\* changed since the answer that the request's model was chosen from, the last one before its
\* orchestrator was built. What Ollama answers while the request is routed and memories are looked up
\* comes too late for it.
MissingIsTrue ==
  told = "missing" /\ applied = installed =>
    installed \cap (IF ask.env THEN {Default} \cup Siblings ELSE Tags \ Embedding) = {}
=============================================================================
