-------------------------------- MODULE Llm --------------------------------
(***************************************************************************)
(* The LLM backend of Cowrie: a session, interactive over SSH or Telnet or *)
(* an exec request, whose commands are answered by a language model behind *)
(* an HTTP API.  Every line is a request of its own; the user may type on  *)
(* while requests are in flight, and they are answered in any order, or    *)
(* when the session is already gone.                                       *)
(*                                                                         *)
(* A command is its number.  An entry of command_history is a command or   *)
(* the answer to it ("User:" and "System:" in the code).                   *)
(***************************************************************************)
EXTENDS Naturals, FiniteSets, SequencesExt

CONSTANTS
  ContextSize,   \* entries of the history sent along (10 in the code)
  MaxAsked       \* bound: commands of a session

ASSUME LlmAssumption == ContextSize \in Nat \ {0} /\ MaxAsked \in Nat \ {0}

VARIABLES
  link,       \* "ssh", "telnet" or "exec"
  anthropic,  \* is_anthropic: which API is configured
  channel,    \* "open", "closing" (the end was asked for) or "lost" (terminal is None)
  expiry,     \* a timeout is set
  dialogue,   \* command_history
  asking,     \* requests in flight: [n, messages]
  asked,      \* commands so far
  prompts,    \* prompts shown
  output,     \* answers written
  ahead,      \* a line was typed before the last one was answered (history)
  broken      \* the exec command could not be decoded

talk == <<dialogue, asked, ahead, prompts, output>>
llmVars == <<link, anthropic, channel, expiry, asking, broken, talk>>

User(n) == [who |-> "user", n |-> n]
System(n) == [who |-> "system", n |-> n]

-----------------------------------------------------------------------------
(* Requests *)

\* _build_system_context: what comes before the history; it names an exec command.
Context(exec) == [who |-> "context", n |-> exec]

\* _format_request_body: the system prompt is a message for one API and a
\* parameter for the other, which then needs a message all the same.
FormatRequest(prompt) ==
  LET role(e) == IF e.who = "user" THEN "user" ELSE "assistant"
      rest == [i \in DOMAIN Tail(prompt) |-> [role |-> role(prompt[i + 1]), n |-> prompt[i + 1].n]]
  IN  IF ~anthropic THEN <<[role |-> "system", n |-> Head(prompt).n]>> \o rest
      ELSE IF rest = <<>> THEN <<[role |-> "user", n |-> 0]>>
      ELSE rest

\* command_history[-10:]
Recent(h) ==
  SubSeq(h, IF Len(h) > ContextSize THEN Len(h) - ContextSize + 1 ELSE 1, Len(h))
\* _process_command_with_llm: the command goes into the history first.
ProcessCommand ==
  LET n == asked + 1
  IN  /\ asked' = n
      /\ dialogue' = Append(dialogue, User(n))
      /\ asking' = asking \union {[n |-> n, messages |-> FormatRequest(<<Context(0)>> \o Recent(dialogue'))]}
      /\ ahead' = (ahead \/ asking # {})

\* What may come of the HTTP request.
HttpOutcomes == {"text", "surrogates", "null", "status", "binaryStatus", "cut", "shapeless", "keyless", "refused"}

\* get_response: no answer is the empty answer, but a body that is not UTF-8 in
\* an error and a choice without a message raise.
GetResponse(http) ==
  CASE http \in {"text", "surrogates"} -> http
    [] http \in {"null", "status", "cut", "shapeless", "refused"} -> ""
    [] http \in {"binaryStatus", "keyless"} -> "raise"

-----------------------------------------------------------------------------
(* The terminal *)

Written(text) == output' = IF text /\ channel = "open" THEN output + 1 ELSE output
ShowPrompt == prompts' = IF channel = "open" THEN prompts + 1 ELSE prompts

\* processEnded of the transport: it closes, once.
LlmProcessEnded == channel' = IF channel = "open" THEN "closing" ELSE channel

\* A faulty variant: an error says nothing.
HandleErrorSilently == UNCHANGED <<prompts, output, dialogue>>

\* An error is a command without output.
HandleError ==
  IF channel = "lost" THEN UNCHANGED <<prompts, output, dialogue>>
  ELSE ShowPrompt /\ UNCHANGED <<output, dialogue>>

\* An answer that cannot be encoded is in the history when write() raises, and
\* is then handled as an error.
HandleResponse(n, response) ==
  IF channel = "lost" THEN UNCHANGED <<prompts, output, dialogue>>
  ELSE /\ dialogue' = IF response = "" THEN dialogue ELSE Append(dialogue, System(n))
       /\ Written(response = "text")
       /\ ShowPrompt

\* The answer, or the lack of one, ends an exec session.
HandleExec(response) ==
  IF channel = "lost" THEN UNCHANGED <<channel, output>>
  ELSE Written(response = "text") /\ LlmProcessEnded

-----------------------------------------------------------------------------
(* The session *)

\* connectionMade of an interactive session: a banner and a prompt.
InteractiveMade ==
  /\ link \in {"ssh", "telnet"}
  /\ asking = {} /\ asked = 0 /\ prompts = 1 /\ ~broken

\* An exec command is asked for at once; one that is not UTF-8 leaves execcmd
\* unset and connectionMade raises, with its timeout already set.
ExecMade ==
  /\ link = "exec" /\ prompts = 0
  /\ \/ /\ ~broken /\ asked = 1
        /\ asking = {[n |-> 1, messages |-> FormatRequest(<<Context(1)>>)]}
     \/ broken /\ asked = 0 /\ asking = {}

LlmInit ==
  /\ channel = "open" /\ expiry = TRUE /\ dialogue = <<>> /\ output = 0 /\ ahead = FALSE
  /\ anthropic \in BOOLEAN /\ broken \in BOOLEAN
  /\ InteractiveMade \/ ExecMade

\* connectionLost: the terminal and the timeout go, the requests do not.
TerminalGone == channel' = "lost" /\ expiry' = FALSE

\* A channel that closes still takes input over SSH.  A line that is not UTF-8
\* raises, which costs the connection.
LlmLineReceived ==
  /\ link # "exec" /\ asked < MaxAsked
  /\ channel = "open" \/ (channel = "closing" /\ link = "ssh")
  /\ \/ ProcessCommand /\ UNCHANGED <<channel, expiry>>
     \/ TerminalGone /\ UNCHANGED <<dialogue, asked, ahead, asking>>
  /\ UNCHANGED <<link, anthropic, broken, prompts, output>>

\* A request is answered, in any order.
Answered(r, http) ==
  LET response == GetResponse(http)
  IN  /\ asking' = asking \ {r}
      /\ IF link = "exec"
         THEN HandleExec(response) /\ UNCHANGED <<prompts, dialogue>>
         ELSE /\ IF response = "raise" THEN HandleError ELSE HandleResponse(r.n, response)
              /\ UNCHANGED channel
      /\ UNCHANGED <<link, anthropic, broken, expiry, asked, ahead>>

\* The timeout of 60 seconds or interactive_timeout; no input puts it off.
LlmTimeout ==
  /\ expiry /\ expiry' = FALSE
  /\ LlmProcessEnded
  /\ UNCHANGED <<link, anthropic, broken, asking, talk>>

\* EOF of the client, or more input than download_limit_size.
LlmEofReceived ==
  /\ channel = "open" /\ LlmProcessEnded
  /\ UNCHANGED <<link, anthropic, broken, expiry, asking, talk>>

\* handle_CTRL_D: loseConnection.
LlmCtrlD ==
  /\ link # "exec" /\ channel = "open"
  /\ channel' = "closing"
  /\ UNCHANGED <<link, anthropic, broken, expiry, asking, talk>>

LlmConnectionLost ==
  /\ channel # "lost" /\ TerminalGone
  /\ UNCHANGED <<link, anthropic, broken, asking, talk>>

\* closed() of the avatar tells the protocol again, which has nothing left to do.
LlmClosed == channel = "lost" /\ UNCHANGED llmVars

LlmNext ==
  \/ LlmLineReceived \/ LlmTimeout \/ LlmEofReceived \/ LlmCtrlD \/ LlmConnectionLost \/ LlmClosed
  \/ \E r \in asking, http \in HttpOutcomes : Answered(r, http)

LlmSpec == LlmInit /\ [][LlmNext]_llmVars

-----------------------------------------------------------------------------
(* Properties *)

\* The variables keep the types the code gives them.
LlmTypeOK ==
  /\ link \in {"ssh", "telnet", "exec"} /\ channel \in {"open", "closing", "lost"}
  /\ anthropic \in BOOLEAN /\ expiry \in BOOLEAN /\ ahead \in BOOLEAN /\ broken \in BOOLEAN
  /\ asked \in 0..MaxAsked /\ prompts \in 0..(MaxAsked + 1) /\ output \in 0..MaxAsked
  /\ dialogue \in Seq([who : {"user", "system"}, n : 1..MaxAsked])
  /\ \A r \in asking : r.n \in 1..asked

\* Every line gets one prompt, whatever became of its request and in whatever
\* order the requests end (_handle_llm_response, _handle_llm_error).
EveryLineIsPrompted ==
  link # "exec" /\ channel = "open" => prompts = 1 + asked - Cardinality(asking)

\* An API that never answers does not keep a session: while it is open there is
\* a timeout, and an exec session is open only while its request is in flight
\* (or when its command could not be decoded).
SilenceEnds ==
  /\ channel = "open" => expiry
  /\ channel = "open" /\ link = "exec" => broken \/ asking # {}

\* The history is what was said: no entry twice, no answer before its command,
\* and for a user who waits for the prompt each answer right after its command.
DialogueIsKept ==
  /\ IsInjective(dialogue)
  /\ \A i \in DOMAIN dialogue : dialogue[i].who = "system" =>
        \E j \in 1..(i - 1) : dialogue[j] = User(dialogue[i].n) /\ (ahead \/ j = i - 1)

\* A request asks for the command it was made for: its last message is that
\* command, though answers to others come in before and after, and the API that
\* wants a message gets one for an exec command too (_format_request_body).
RequestsAskTheirCommand ==
  \A r \in asking :
    /\ r.messages # <<>>
    /\ Last(r.messages) = IF link # "exec" THEN [role |-> "user", n |-> r.n]
                          ELSE IF anthropic THEN [role |-> "user", n |-> 0] ELSE [role |-> "system", n |-> 1]

\* Commands, requests, answers and prompts of an LLM session agree, and the
\* session ends although the API may not answer.
LlmInv == LlmTypeOK /\ EveryLineIsPrompted /\ SilenceEnds /\ DialogueIsKept /\ RequestsAskTheirCommand
=============================================================================
