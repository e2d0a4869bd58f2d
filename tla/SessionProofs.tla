---------------------------- MODULE SessionProofs ----------------------------
(***************************************************************************)
(* The session of an attacker, for any number of them: its login, over SSH *)
(* or Telnet and by either class of credential checker, and what it says   *)
(* to the LLM backend, whatever order the API answers in.                  *)
(***************************************************************************)
EXTENDS Llm, Login, FiniteSetTheorems, WellFoundedInduction, TLAPS

-----------------------------------------------------------------------------
(***************************************************************************)
(* The LLM backend.  For any number of commands and any size of the        *)
(* context: every line gets its prompt, the history is what was said, each *)
(* request asks for its own command.                                       *)
(***************************************************************************)
\* Each request is of a command of its own, and there are no more prompts and
\* answers than commands that are no longer in flight.
Counted ==
  /\ IsFiniteSet(asking)
  /\ \A r, q \in asking : r.n = q.n => r = q
  /\ output + Cardinality(asking) <= asked
  /\ link = "exec" => prompts = 0 /\ asked <= 1
  /\ link # "exec" => prompts + Cardinality(asking) <= asked + 1

Said(e) == \E i \in DOMAIN dialogue : dialogue[i] = e

\* The history has commands that were given and answers that came, and of a user
\* who waits for the prompt the command in flight comes last.
DialogueIsCurrent ==
  /\ \A i \in DOMAIN dialogue : dialogue[i].n <= asked
  /\ link = "exec" => dialogue = <<>>
  /\ link # "exec" => \A r \in asking :
        /\ Said(User(r.n)) /\ ~ Said(System(r.n))
        /\ ~ ahead => /\ r.n = asked
                      /\ dialogue # <<>> /\ dialogue[Len(dialogue)] = User(asked)

IInv == LlmInv /\ Counted /\ DialogueIsCurrent

-----------------------------------------------------------------------------
(***************************************************************************)
(* Requests.                                                               *)
(***************************************************************************)
Entries == [who : {"user", "system"}, n : 1..MaxAsked]
Roles == {"system", "user", "assistant"}

\* What is sent along of the history ends as the history does.
LEMMA RecentEnds ==
  ASSUME NEW h \in Seq(Entries), h # <<>>
  PROVE  Recent(h) \in Seq(Entries) /\ Len(Recent(h)) >= 1 /\ Recent(h)[Len(Recent(h))] = h[Len(h)]
  <1> DEFINE k == IF Len(h) > ContextSize THEN Len(h) - ContextSize + 1 ELSE 1
  <1>1. Len(h) \in Nat /\ Len(h) >= 1 /\ k \in 1..Len(h)
    BY LlmAssumption
  <1>2. Recent(h) = SubSeq(h, k, Len(h))
    BY DEF Recent
  <1> HIDE DEF k
  <1>3. Len(SubSeq(h, k, Len(h))) = Len(h) - k + 1 /\ SubSeq(h, k, Len(h)) \in Seq(Entries)
    BY <1>1
  <1>4. SubSeq(h, k, Len(h))[Len(h) - k + 1] = h[Len(h)]
    BY <1>1
  <1> QED
    BY <1>1, <1>2, <1>3, <1>4

\* A request made for the last command of the history has it as its last message,
\* for either API.
LEMMA FormatEnds ==
  ASSUME NEW h \in Seq(Entries), h # <<>>, NEW n, h[Len(h)] = User(n)
  PROVE  LET m == FormatRequest(<<Context(0)>> \o Recent(h))
         IN  m # <<>> /\ Last(m) = [role |-> "user", n |-> n]
  <1> DEFINE t == Recent(h)
             p == <<Context(0)>> \o t
             role(e) == IF e.who = "user" THEN "user" ELSE "assistant"
             rest == [i \in DOMAIN Tail(p) |-> [role |-> role(p[i + 1]), n |-> p[i + 1].n]]
             E == Entries \cup {Context(0)}
             M == {[role |-> role(e), n |-> e.n] : e \in E} \cup {[role |-> "system", n |-> 0]}
  <1>1. t \in Seq(Entries) /\ Len(t) \in Nat /\ Len(t) >= 1 /\ t[Len(t)] = User(n)
    BY RecentEnds
  <1> HIDE DEF t
  <1>2. /\ p \in Seq(E) /\ Len(p) = Len(t) + 1 /\ p[Len(p)] = User(n)
        /\ Head(p) = Context(0)
    BY <1>1
  <1>3. DOMAIN Tail(p) = 1..Len(t)
    BY <1>1, <1>2
  <1> HIDE DEF p
  <1>4. rest = [i \in 1..Len(t) |-> [role |-> role(p[i + 1]), n |-> p[i + 1].n]]
    BY <1>3
  <1>5. \A i \in 1..Len(t) : p[i + 1] \in E
    BY <1>1, <1>2
  <1>6. rest \in Seq(M) /\ Len(rest) = Len(t) /\ rest[Len(t)] = [role |-> "user", n |-> n]
    <2>1. \A i \in 1..Len(t) : [role |-> role(p[i + 1]), n |-> p[i + 1].n] \in M
      BY <1>5
    <2>2. [role |-> role(p[Len(t) + 1]), n |-> p[Len(t) + 1].n] = [role |-> "user", n |-> n]
      BY <1>1, <1>2 DEF User
    <2>3. rest \in [1..Len(t) -> M]
      BY <1>4, <2>1
    <2> HIDE DEF M, E
    <2>4. rest \in Seq(M) /\ Len(rest) = Len(t)
      BY <1>1, <2>3
    <2> QED
      BY <1>1, <1>4, <2>2, <2>4
  <1>7. rest # <<>>
    <2> HIDE DEF rest
    <2>1. Len(<<>>) = 0
      OBVIOUS
    <2> QED
      BY <1>1, <1>6, <2>1
  <1>8. CASE anthropic
    <2>1. FormatRequest(p) = rest
      BY <1>7, <1>8 DEF FormatRequest
    <2> HIDE DEF rest
    <2> QED
      BY <1>6, <1>7, <2>1 DEF Last, p, t
  <1>9. CASE ~ anthropic
    <2>1. FormatRequest(p) = <<[role |-> "system", n |-> 0]>> \o rest
      BY <1>2, <1>9 DEF FormatRequest, Context
    <2>2. [role |-> "system", n |-> 0] \in M
      OBVIOUS
    <2> HIDE DEF rest, M
    <2>3. LET m == <<[role |-> "system", n |-> 0]>> \o rest IN m # <<>> /\ m[Len(m)] = rest[Len(t)]
      BY <1>1, <1>6, <2>2
    <2> QED
      BY <1>6, <2>1, <2>3 DEF Last, p, t
  <1> QED
    BY <1>8, <1>9

\* The request of an exec session.
LEMMA FormatExec ==
  LET m == FormatRequest(<<Context(1)>>)
  IN  m # <<>> /\ Last(m) = IF anthropic THEN [role |-> "user", n |-> 0] ELSE [role |-> "system", n |-> 1]
  <1>1. Tail(<<Context(1)>>) = <<>> /\ Head(<<Context(1)>>) = Context(1) /\ Context(1).n = 1
    BY DEF Context
  <1>2. CASE anthropic
    BY <1>1, <1>2 DEF FormatRequest, Last
  <1>3. CASE ~ anthropic
    <2>1. FormatRequest(<<Context(1)>>) = <<[role |-> "system", n |-> 1]>>
      BY <1>1, <1>3 DEF FormatRequest
    <2> QED
      BY <1>3, <2>1 DEF Last
  <1> QED
    BY <1>2, <1>3

-----------------------------------------------------------------------------
(***************************************************************************)
(* The steps.                                                              *)
(***************************************************************************)

\* Nothing has been asked, or one command that is in flight.
LEMMA InitLlm == LlmInit => IInv
  <1> SUFFICES ASSUME LlmInit
               PROVE  IInv
    OBVIOUS
  <1> USE DEF LlmInit
  <1>1. dialogue = <<>> /\ DOMAIN dialogue = {} /\ 1 \in 1..MaxAsked
    BY LlmAssumption
  <1>2. /\ IsFiniteSet(asking) /\ Cardinality(asking) = asked /\ asked \in {0, 1}
        /\ \A r \in asking : r.n = 1 /\ asked = 1 /\ link = "exec"
        /\ \A r, q \in asking : r = q
    <2>1. CASE InteractiveMade
      BY <2>1, FS_EmptySet DEF InteractiveMade
    <2>2. CASE ExecMade
      <3>1. CASE asking = {}
        BY <2>2, <3>1, FS_EmptySet DEF ExecMade
      <3>2. CASE asking # {}
        <4> DEFINE m == FormatRequest(<<Context(1)>>)
        <4>1. asking = {[n |-> 1, messages |-> m]} /\ asked = 1 /\ link = "exec"
          BY <2>2, <3>2 DEF ExecMade
        <4> HIDE DEF m
        <4>2. IsFiniteSet(asking) /\ Cardinality(asking) = 1
          BY <4>1, FS_Singleton
        <4> QED
          BY <4>1, <4>2
      <3> QED
        BY <3>1, <3>2
    <2> QED
      BY <2>1, <2>2
  <1>3. /\ link \in {"ssh", "telnet", "exec"} /\ prompts = IF link = "exec" THEN 0 ELSE 1
        /\ link = "exec" => broken \/ asking # {}
        /\ link # "exec" => asked = 0
    BY DEF InteractiveMade, ExecMade
  <1>4. LlmTypeOK
    <2>1. dialogue \in Seq([who : {"user", "system"}, n : 1..MaxAsked])
      BY <1>1
    <2>2. asked \in 0..MaxAsked /\ prompts \in 0..(MaxAsked + 1) /\ output \in 0..MaxAsked
      BY <1>2, <1>3, LlmAssumption
    <2>3. \A r \in asking : r.n \in 1..asked
      BY <1>2
    <2> QED
      BY <1>3, <2>1, <2>2, <2>3 DEF LlmTypeOK
  <1>5. EveryLineIsPrompted /\ SilenceEnds
    BY <1>2, <1>3 DEF EveryLineIsPrompted, SilenceEnds
  <1>6. DialogueIsKept /\ DialogueIsCurrent
    BY <1>1, <1>2 DEF DialogueIsKept, IsInjective, DialogueIsCurrent
  <1>7. RequestsAskTheirCommand
    <2> SUFFICES ASSUME NEW r \in asking
                 PROVE  /\ r.messages # <<>>
                        /\ Last(r.messages) = IF anthropic THEN [role |-> "user", n |-> 0] ELSE [role |-> "system", n |-> 1]
      BY <1>2 DEF RequestsAskTheirCommand
    <2>1. r.messages = FormatRequest(<<Context(1)>>)
      BY DEF InteractiveMade, ExecMade
    <2> QED
      BY <2>1, FormatExec
  <1>8. Counted
    BY <1>2, <1>3 DEF Counted
  <1> QED
    BY <1>4, <1>5, <1>6, <1>7, <1>8 DEF IInv, LlmInv

\* A step that concerns the connection alone: the end of it, or of its timeout.
LEMMA StepQuiet ==
  ASSUME IInv, UNCHANGED <<link, anthropic, broken, asking, talk>>,
         channel' \in {"open", "closing", "lost"}, expiry' \in BOOLEAN,
         channel' = "open" => channel = "open" /\ (expiry => expiry')
  PROVE  IInv'
  <1>1. LlmTypeOK'
    BY DEF IInv, LlmInv, LlmTypeOK, talk
  <1>2. EveryLineIsPrompted' /\ SilenceEnds'
    BY DEF IInv, LlmInv, EveryLineIsPrompted, SilenceEnds, talk
  <1>3. DialogueIsKept' /\ RequestsAskTheirCommand'
    BY DEF IInv, LlmInv, DialogueIsKept, RequestsAskTheirCommand, User, talk
  <1>4. Counted' /\ DialogueIsCurrent'
    BY DEF IInv, Counted, DialogueIsCurrent, Said, User, System, talk
  <1> QED
    BY <1>1, <1>2, <1>3, <1>4 DEF IInv, LlmInv

\* A line: its command is the last of the history, and its request is a new one.
LEMMA StepAsked ==
  ASSUME IInv, ProcessCommand, link # "exec", asked < MaxAsked,
         UNCHANGED <<link, anthropic, channel, expiry, broken, prompts, output>>
  PROVE  IInv'
  <1> DEFINE n == asked + 1
             m == FormatRequest(<<Context(0)>> \o Recent(dialogue'))
             q == [n |-> n, messages |-> m]
  <1>1. /\ asked \in Nat /\ n \in 1..MaxAsked /\ MaxAsked \in Nat /\ prompts \in Nat /\ output \in Nat
        /\ dialogue \in Seq(Entries) /\ Len(dialogue) \in Nat
        /\ \A r \in asking : r.n \in 1..asked
    BY LlmAssumption DEF IInv, LlmInv, LlmTypeOK, Entries
  <1>2. asked' = n /\ dialogue' = Append(dialogue, User(n)) /\ ahead' = (ahead \/ asking # {})
    BY DEF ProcessCommand
  <1>3. asking' = asking \cup {q} /\ q.n = n /\ q.messages = m
    BY DEF ProcessCommand
  <1>4. User(n) \in Entries
    BY <1>1 DEF User, Entries
  <1>5. /\ dialogue' \in Seq(Entries) /\ dialogue' # <<>> /\ Len(dialogue') = Len(dialogue) + 1
        /\ DOMAIN dialogue' = 1..(Len(dialogue) + 1) /\ DOMAIN dialogue = 1..Len(dialogue)
        /\ dialogue'[Len(dialogue')] = User(n)
        /\ \A i \in 1..Len(dialogue) : dialogue'[i] = dialogue[i]
    BY <1>1, <1>2, <1>4
  <1>6. m # <<>> /\ Last(m) = [role |-> "user", n |-> n]
    BY <1>5, FormatEnds
  <1> HIDE DEF m, q
  <1>7. q \notin asking
    BY <1>1, <1>3
  <1>8. /\ IsFiniteSet(asking') /\ Cardinality(asking) \in Nat
        /\ Cardinality(asking') = Cardinality(asking) + 1
    BY <1>3, <1>7, FS_AddElement, FS_CardinalityType DEF IInv, Counted
  <1>9. Counted'
    <2>1. \A r, p \in asking' : r.n = p.n => r = p
      BY <1>1, <1>3 DEF IInv, Counted
    <2>2. /\ output + Cardinality(asking) <= asked /\ prompts + Cardinality(asking) <= asked + 1
      BY DEF IInv, Counted
    <2> QED
      BY <1>1, <1>2, <1>8, <2>1, <2>2 DEF Counted
  <1>10. LlmTypeOK'
    <2>1. \A r \in asking' : r.n \in 1..asked'
      BY <1>1, <1>2, <1>3
    <2> QED
      BY <1>1, <1>2, <1>5, <2>1 DEF IInv, LlmInv, LlmTypeOK, Entries
  <1>11. EveryLineIsPrompted' /\ SilenceEnds'
    BY <1>1, <1>2, <1>8 DEF IInv, LlmInv, EveryLineIsPrompted, SilenceEnds
  <1>12. \A i \in 1..Len(dialogue) : dialogue[i] # User(n) /\ dialogue[i] # System(n)
    <2>1. \A i \in 1..Len(dialogue) : dialogue[i].n <= asked
      BY <1>5 DEF IInv, DialogueIsCurrent
    <2> QED
      BY <1>1, <2>1 DEF User, System
  <1>13. DialogueIsKept'
    <2>1. IsInjective(dialogue')
      BY <1>1, <1>5, <1>12 DEF IInv, LlmInv, DialogueIsKept, IsInjective
    <2>2. ASSUME NEW i \in DOMAIN dialogue', dialogue'[i].who = "system"
          PROVE  \E j \in 1..(i - 1) : dialogue'[j] = User(dialogue'[i].n) /\ (ahead' \/ j = i - 1)
      <3>1. i \in 1..Len(dialogue) /\ dialogue'[i] = dialogue[i]
        BY <1>1, <1>5, <2>2 DEF User
      <3>2. PICK j \in 1..(i - 1) : dialogue[j] = User(dialogue[i].n) /\ (ahead \/ j = i - 1)
        BY <1>5, <2>2, <3>1 DEF IInv, LlmInv, DialogueIsKept
      <3>3. dialogue'[j] = dialogue[j]
        BY <1>1, <1>5, <3>1
      <3>4. ahead' \/ j = i - 1
        BY <1>2, <3>2
      <3> QED
        BY <3>1, <3>2, <3>3, <3>4
    <2> QED
      BY <2>1, <2>2 DEF DialogueIsKept, User
  <1>14. RequestsAskTheirCommand'
    BY <1>3, <1>6 DEF IInv, LlmInv, RequestsAskTheirCommand
  <1>15. DialogueIsCurrent'
    <2>1. \A i \in DOMAIN dialogue' : dialogue'[i].n <= asked'
      <3>1. \A i \in 1..Len(dialogue) : dialogue[i].n <= asked
        BY <1>1, <1>5 DEF IInv, DialogueIsCurrent
      <3>0. \A i \in 1..Len(dialogue) : dialogue[i].n \in Nat
        <4>1. \A i \in 1..Len(dialogue) : dialogue[i] \in Entries
          BY <1>1
        <4>2. \A e \in Entries : e.n \in Nat
          BY LlmAssumption DEF Entries
        <4> QED
          BY <4>1, <4>2
      <3>2. User(n).n = n
        BY DEF User
      <3> QED
        BY <1>1, <1>2, <1>5, <3>0, <3>1, <3>2
    <2>2. ASSUME NEW r \in asking'
          PROVE  /\ \E i \in DOMAIN dialogue' : dialogue'[i] = User(r.n)
                 /\ ~ \E i \in DOMAIN dialogue' : dialogue'[i] = System(r.n)
      <3>1. CASE r = q
        BY <1>1, <1>3, <1>5, <1>12, <3>1 DEF User, System
      <3>2. CASE r \in asking
        <4>1. /\ \E i \in 1..Len(dialogue) : dialogue[i] = User(r.n)
              /\ \A i \in 1..Len(dialogue) : dialogue[i] # System(r.n)
          BY <1>5, <3>2 DEF IInv, DialogueIsCurrent, Said
        <4>2. User(n) # System(r.n)
          BY DEF User, System
        <4> QED
          BY <1>1, <1>5, <4>1, <4>2
      <3> QED
        BY <1>3, <3>1, <3>2
    <2>3. ~ ahead' => asking' = {q} /\ q.n = asked'
      BY <1>2, <1>3 DEF IInv, LlmInv, LlmTypeOK
    <2> QED
      BY <1>2, <1>3, <1>5, <2>1, <2>2, <2>3 DEF DialogueIsCurrent, Said, User, System
  <1> QED
    BY <1>9, <1>10, <1>11, <1>13, <1>14, <1>15 DEF IInv, LlmInv

\* An answer: its request is gone, it is said after all that was, once, and the
\* prompt is shown.
LEMMA StepAnswered ==
  ASSUME IInv, NEW r \in asking, NEW http \in HttpOutcomes, Answered(r, http)
  PROVE  IInv'
  <1> DEFINE c == Cardinality(asking)
  <1>1. /\ asked \in Nat /\ MaxAsked \in Nat /\ asked <= MaxAsked /\ prompts \in Nat /\ output \in Nat
        /\ dialogue \in Seq(Entries) /\ Len(dialogue) \in Nat /\ DOMAIN dialogue = 1..Len(dialogue)
        /\ r.n \in 1..asked
    BY LlmAssumption DEF IInv, LlmInv, LlmTypeOK, Entries
  <1>2. asking' = asking \ {r} /\ UNCHANGED <<link, anthropic, broken, expiry, asked, ahead>>
    BY DEF Answered
  <1>3. /\ IsFiniteSet(asking) /\ IsFiniteSet(asking') /\ c \in Nat /\ c >= 1
        /\ Cardinality(asking') = c - 1
    BY <1>2, FS_RemoveElement, FS_CardinalityType, FS_EmptySet DEF IInv, Counted
  <1>4. /\ channel' \in {"open", "closing", "lost"} /\ (channel' = "open" => channel = "open" /\ link # "exec")
        /\ output' \in {output, output + 1}
        /\ prompts' = IF link # "exec" /\ channel = "open" THEN prompts + 1 ELSE prompts
    BY DEF Answered, HandleExec, HandleError, HandleResponse, Written, ShowPrompt, LlmProcessEnded,
           IInv, LlmInv, LlmTypeOK
  <1>5. \/ dialogue' = dialogue
        \/ link # "exec" /\ dialogue' = Append(dialogue, System(r.n))
    BY DEF Answered, HandleExec, HandleError, HandleResponse
  <1>6. /\ output + c <= asked /\ (link # "exec" => prompts + c <= asked + 1)
        /\ (link = "exec" => prompts = 0 /\ asked <= 1)
    BY DEF IInv, Counted
  <1>7. Counted'
    <2>1. \A p, q \in asking' : p.n = q.n => p = q
      BY <1>2 DEF IInv, Counted
    <2>2. output' + Cardinality(asking') <= asked'
      BY <1>1, <1>2, <1>3, <1>4, <1>6
    <2>3. link' = "exec" => prompts' = 0 /\ asked' <= 1
      BY <1>2, <1>4, <1>6
    <2>4. link' # "exec" => prompts' + Cardinality(asking') <= asked' + 1
      BY <1>1, <1>2, <1>3, <1>4, <1>6
    <2> QED
      BY <1>3, <2>1, <2>2, <2>3, <2>4 DEF Counted
  <1>8. EveryLineIsPrompted' /\ SilenceEnds'
    BY <1>1, <1>2, <1>3, <1>4 DEF IInv, LlmInv, EveryLineIsPrompted, SilenceEnds
  <1>9. RequestsAskTheirCommand'
    BY <1>2 DEF IInv, LlmInv, RequestsAskTheirCommand
  <1>10. System(r.n) \in Entries
    BY <1>1 DEF System, Entries
  <1>11. LlmTypeOK'
    <2>1. dialogue' \in Seq(Entries)
      BY <1>1, <1>5, <1>10
    <2>2. prompts' \in 0..(MaxAsked + 1) /\ output' \in 0..MaxAsked
      BY <1>1, <1>3, <1>4, <1>6
    <2> QED
      BY <1>2, <1>4, <2>1, <2>2 DEF IInv, LlmInv, LlmTypeOK, Entries
  <1>12. CASE dialogue' = dialogue
    <2>1. DialogueIsKept' /\ DialogueIsCurrent'
      BY <1>2, <1>12 DEF IInv, LlmInv, DialogueIsKept, DialogueIsCurrent, Said, User, System
    <2> QED
      BY <1>7, <1>8, <1>9, <1>11, <2>1 DEF IInv, LlmInv
  <1>13. CASE link # "exec" /\ dialogue' = Append(dialogue, System(r.n))
    <2> DEFINE k == Len(dialogue) + 1
    <2>1. /\ DOMAIN dialogue' = 1..k /\ dialogue'[k] = System(r.n)
          /\ \A i \in 1..Len(dialogue) : dialogue'[i] = dialogue[i]
      BY <1>1, <1>10, <1>13
    <2>2. /\ \E i \in 1..Len(dialogue) : dialogue[i] = User(r.n)
          /\ \A i \in 1..Len(dialogue) : dialogue[i] # System(r.n)
      BY <1>1, <1>13 DEF IInv, DialogueIsCurrent, Said
    <2>3. ~ ahead => asking = {r} /\ Len(dialogue) >= 1 /\ dialogue[Len(dialogue)] = User(r.n)
      BY <1>1, <1>13 DEF IInv, DialogueIsCurrent, Counted
    <2>4. IsInjective(dialogue')
      <3>1. \A i, j \in 1..Len(dialogue) : dialogue[i] = dialogue[j] => i = j
        BY <1>1 DEF IInv, LlmInv, DialogueIsKept, IsInjective
      <3>2. \A i \in 1..k : i = k \/ i \in 1..Len(dialogue)
        BY <1>1
      <3> HIDE DEF k
      <3> QED
        BY <2>1, <2>2, <3>1, <3>2 DEF IsInjective
    <2>5. ASSUME NEW i \in DOMAIN dialogue', dialogue'[i].who = "system"
          PROVE  \E j \in 1..(i - 1) : dialogue'[j] = User(dialogue'[i].n) /\ (ahead' \/ j = i - 1)
      <3>1. CASE i = k
        <4>1. dialogue'[i].n = r.n /\ i - 1 = Len(dialogue)
          BY <1>1, <2>1, <3>1 DEF System
        <4>2. CASE ahead
          BY <1>2, <2>1, <2>2, <4>1, <4>2
        <4>3. CASE ~ ahead
          BY <1>1, <2>1, <2>3, <4>1, <4>3
        <4> QED
          BY <4>2, <4>3
      <3>2. CASE i # k
        <4>1. i \in 1..Len(dialogue) /\ dialogue'[i] = dialogue[i]
          BY <1>1, <2>1, <3>2
        <4>2. PICK j \in 1..(i - 1) : dialogue[j] = User(dialogue[i].n) /\ (ahead \/ j = i - 1)
          BY <1>1, <2>5, <4>1 DEF IInv, LlmInv, DialogueIsKept
        <4>3. dialogue'[j] = dialogue[j]
          BY <1>1, <2>1, <4>1
        <4> QED
          BY <1>2, <4>1, <4>2, <4>3
      <3> QED
        BY <3>1, <3>2
    <2>6. DialogueIsKept'
      BY <2>4, <2>5 DEF DialogueIsKept, User
    <2>7. \A i \in DOMAIN dialogue' : dialogue'[i].n <= asked'
      <3>1. \A i \in 1..Len(dialogue) : dialogue[i].n <= asked
        BY <1>1 DEF IInv, DialogueIsCurrent
      <3>2. System(r.n).n = r.n
        BY DEF System
      <3> QED
        BY <1>1, <1>2, <2>1, <3>1, <3>2
    <2>8. ASSUME NEW q \in asking'
          PROVE  /\ \E i \in DOMAIN dialogue' : dialogue'[i] = User(q.n)
                 /\ ~ \E i \in DOMAIN dialogue' : dialogue'[i] = System(q.n)
                 /\ ahead
      <3>1. q \in asking /\ q # r /\ q.n # r.n
        BY <1>2 DEF IInv, Counted
      <3>2. /\ \E i \in 1..Len(dialogue) : dialogue[i] = User(q.n)
            /\ \A i \in 1..Len(dialogue) : dialogue[i] # System(q.n)
        BY <1>1, <1>13, <3>1 DEF IInv, DialogueIsCurrent, Said
      <3>3. System(r.n) # System(q.n)
        BY <3>1 DEF System
      <3> QED
        BY <1>1, <2>1, <2>3, <3>1, <3>2, <3>3
    <2>9. DialogueIsCurrent'
      BY <1>2, <1>13, <2>7, <2>8 DEF DialogueIsCurrent, Said, User, System
    <2> QED
      BY <1>7, <1>8, <1>9, <1>11, <2>6, <2>9 DEF IInv, LlmInv
  <1> QED
    BY <1>5, <1>12, <1>13

LEMMA StepLlm == IInv /\ [LlmNext]_llmVars => IInv'
  <1> SUFFICES ASSUME IInv, [LlmNext]_llmVars
               PROVE  IInv'
    OBVIOUS
  <1> USE DEF IInv, LlmInv, LlmTypeOK
  <1>1. CASE LlmLineReceived
    <2>1. CASE ProcessCommand /\ UNCHANGED <<channel, expiry>>
      BY <1>1, <2>1, StepAsked DEF LlmLineReceived
    <2>2. CASE TerminalGone /\ UNCHANGED <<dialogue, asked, ahead, asking>>
      BY <1>1, <2>2, StepQuiet DEF LlmLineReceived, TerminalGone, talk
    <2> QED
      BY <1>1, <2>1, <2>2 DEF LlmLineReceived
  <1>2. CASE LlmTimeout
    BY <1>2, StepQuiet DEF LlmTimeout, LlmProcessEnded
  <1>3. CASE LlmEofReceived
    BY <1>3, StepQuiet DEF LlmEofReceived, LlmProcessEnded
  <1>4. CASE LlmCtrlD
    BY <1>4, StepQuiet DEF LlmCtrlD
  <1>5. CASE LlmConnectionLost
    BY <1>5, StepQuiet DEF LlmConnectionLost, TerminalGone
  <1>6. CASE LlmClosed \/ UNCHANGED llmVars
    BY <1>6, StepQuiet DEF LlmClosed, llmVars
  <1>7. ASSUME NEW r \in asking, NEW http \in HttpOutcomes, Answered(r, http)
        PROVE  IInv'
    BY <1>7, StepAnswered
  <1> QED
    BY <1>1, <1>2, <1>3, <1>4, <1>5, <1>6, <1>7 DEF LlmNext

\* Commands, requests, answers and prompts of an LLM session agree, and the
\* session ends although the API may not answer: for sessions of any length, with
\* any number of requests in flight, answered in any order (LlmInv).
THEOREM LlmCorrect == LlmSpec => []LlmInv
  <1>1. IInv => LlmInv
    BY DEF IInv
  <1> QED
    BY InitLlm, StepLlm, <1>1, PTL DEF LlmSpec

-----------------------------------------------------------------------------
(***************************************************************************)
(* The login.                                                              *)
(***************************************************************************)
\* The values of the fields of a connection.
Ups == {"new", "up", "closing", "lost"}
Kinds == {"ssh", "telnet"}
Sources == IPs \cup {Unset}
Steps == {"version", "bare", "auth", "in", "User", "Password", "Discard", "Command"}
Timers == {"off", "auth", "interactive", "idle"}
Echoes == {"no", "asked", "yes", "stopping"}
Calls == Seq({"will", "wont"})
Logins == Creds \cup {Unset}
Protocols == {"auth", "session"}
Sessions == {"none", "open", "closed"}

Held == [delayed : Nat, tries : Nat]
Replaced == Seq(Held)

ConnState ==
    [up : Ups, kind : Kinds, ip : Sources, st : Steps, timer : Timers, pam : BOOLEAN, delayed : Nat, tries : Nat,
     past : Replaced, avatar : BOOLEAN, echo : Echoes, queue : Calls, pending : Logins, env : BOOLEAN,
     protocol : Protocols, succ : Nat, astray : Nat, asked : Nat, opens : Nat, sess : Sessions]

\* What a transport may be in, and where it is.
Placed(r) ==
    /\ r.up \in {"up", "closing"} => r.ip \in IPs
    /\ r.kind = "ssh" => r.st \in {"version", "bare", "auth", "in"}
    /\ r.kind = "telnet" /\ r.up # "lost" => r.st \in {"User", "Password", "Discard", "Command"}
    /\ r.up = "up" => r.timer # "off"

\* The sessions of a connection and its events; who is not in has none open, and
\* over Telnet had none.
SessionCounted(r) ==
    /\ r.opens + r.astray = r.succ + r.asked
    /\ r.avatar \/ r.asked > 0 => r.succ > 0
    /\ r.kind = "telnet" => r.opens <= 1 /\ r.succ = r.opens /\ r.asked = 0
    /\ r.kind = "telnet" /\ r.up # "lost" /\ r.st # "Command" => r.opens = 0
    /\ r.up # "lost" /\ r.st \notin {"in", "Command"} => r.sess # "open"
    /\ r.up = "lost" => r.sess # "open"
    /\ r.sess = "open" => r.kind = "ssh" \/ r.protocol = "session"

\* A login that waits for the client, and nothing else, has the lines discarded.
Waits(r) ==
    /\ r.pending # Unset => r.st = "Discard"
    /\ r.up # "lost" /\ r.st = "Discard" => r.pending # Unset /\ r.echo = "stopping"

\* Each attempt chains three calls at most behind a negotiation, the last of
\* them before the next password is asked for.
Queues(r, m) ==
    /\ Len(r.queue) <= 3 * m
    /\ r.up # "lost" /\ r.st \in {"User", "Discard"} =>
         Len(r.queue) + 1 <= 3 * m \/ (r.queue = <<>> /\ r.echo = "no")

ConnInv(r, m) == r \in ConnState /\ Placed(r) /\ SessionCounted(r) /\ Waits(r) /\ Queues(r, m)

Address == [try : Nat, max : (1..MaxTry) \cup {Unset}, tried : SUBSET Creds, user : Creds \cup {Unset}]

\* An address that never got in has tried as often as it has combinations that
\* were refused, and needs more.
AddressInv(s, ip) ==
    LET i == s.info[ip]
    IN  /\ IsFiniteSet(i.tried) /\ IsFiniteSet(s.refused[ip])
        /\ i.max = Unset => i.try = 0 
        /\ i.user = Unset => /\ i.try = Cardinality(i.tried) /\ i.tried \subseteq s.refused[ip]
                             /\ i.max = Unset \/ (i.try < i.max /\ MinTry <= i.max)

StoreInv(s) ==
    /\ s \in [cache : Seq(Creds), info : [IPs -> Address], refused : [IPs -> SUBSET Creds]]
    /\ Len(s.cache) <= MaxCache /\ IsInjective(s.cache)
    /\ \A ip \in IPs : AddressInv(s, ip)

LoginIInv ==
    /\ authclass \in {"UserDB", "AuthRandom"} /\ messages \in Nat /\ restarts \in Nat /\ messages <= Messages
    /\ StoreInv(store)
    /\ DOMAIN conn = Conns /\ \A c \in Conns : ConnInv(conn[c], messages)

-----------------------------------------------------------------------------
\* A set of numbers has a least one.
LEMMA LeastOf ==
    ASSUME NEW S \in SUBSET Nat, S # {}
    PROVE  \E m \in S : \A x \in S : m <= x
  <1>1. \E m \in S : \A x \in S : <<x, m>> \notin OpToRel(<, Nat)
    BY NatLessThanWellFounded, WFMin
  <1>2. PICK m \in S : \A x \in S : <<x, m>> \notin OpToRel(<, Nat)
    BY <1>1
  <1>3. \A x \in S : ~ (x < m)
    BY <1>2 DEF OpToRel
  <1> QED
    BY <1>3

\* What savevars() leaves of an attempt whose address is sound.
Sound(i, refused) ==
    /\ i \in Address /\ IsFiniteSet(i.tried) /\ refused \in SUBSET Creds /\ IsFiniteSet(refused)
    /\ i.max = Unset => i.try = 0
    /\ i.user = Unset => /\ i.try = Cardinality(i.tried) /\ i.tried \subseteq refused
                         /\ i.max = Unset \/ (i.try < i.max /\ MinTry <= i.max)

Kept(s, ip, info, refused) == [s EXCEPT !.info[ip] = info, !.refused[ip] = refused]

\* savevars() of a sound address leaves the other addresses as they were.
LEMMA SavedInv ==
    ASSUME NEW s, StoreInv(s), NEW ip \in IPs, NEW info, NEW refused, Sound(info, refused)
    PROVE  LET t == Kept(s, ip, info, refused)
           IN  /\ StoreInv(t) /\ t.cache = s.cache /\ t.info[ip] = info /\ t.refused[ip] = refused
               /\ \A x \in IPs : x # ip => t.info[x] = s.info[x]
  <1> DEFINE t == Kept(s, ip, info, refused)
  <1>2. s \in [cache : Seq(Creds), info : [IPs -> Address], refused : [IPs -> SUBSET Creds]]
    BY DEF StoreInv
  <1>3. info \in Address /\ refused \in SUBSET Creds
    BY DEF Sound
  <1>4. /\ t \in [cache : Seq(Creds), info : [IPs -> Address], refused : [IPs -> SUBSET Creds]]
        /\ t.cache = s.cache /\ t.info[ip] = info /\ t.refused[ip] = refused
        /\ \A x \in IPs : x # ip => t.info[x] = s.info[x] /\ t.refused[x] = s.refused[x]
    <2>1. t = [cache |-> s.cache, info |-> [s.info EXCEPT ![ip] = info], refused |-> [s.refused EXCEPT ![ip] = refused]]
      <3> DEFINE a == s.cache
                 b == s.info
                 c == s.refused
      <3>1. s = [cache |-> a, info |-> b, refused |-> c]
        BY <1>2
      <3>2. t = [[cache |-> a, info |-> b, refused |-> c] EXCEPT !.info[ip] = info, !.refused[ip] = refused]
        BY <3>1, Zenon DEF Kept
      <3> HIDE DEF a, b, c, t
      <3> QED
        BY <3>2 DEF a, b, c
    <2>2. s.info \in [IPs -> Address] /\ s.refused \in [IPs -> SUBSET Creds] /\ s.cache \in Seq(Creds)
      BY <1>2
    <2>3. [s.info EXCEPT ![ip] = info] \in [IPs -> Address] /\ [s.refused EXCEPT ![ip] = refused] \in [IPs -> SUBSET Creds]
      BY <1>3, <2>2
    <2> QED
      BY <1>3, <2>1, <2>2, <2>3
  <1> HIDE DEF t
  <1>5. AddressInv(t, ip)
    BY <1>4 DEF AddressInv, Sound
  <1>6. \A x \in IPs : x # ip => AddressInv(t, x)
    BY <1>4 DEF AddressInv, StoreInv
  <1>7. StoreInv(t)
    BY <1>4, <1>5, <1>6 DEF StoreInv
  <1> QED
    BY <1>4, <1>7 DEF t

\* The cache stays a set of MaxCache combinations.
LEMMA CacheKept ==
    ASSUME NEW s, StoreInv(s), NEW cred \in Creds, cred \notin Range(s.cache)
    PROVE  LET cache == Append(s.cache, cred)
               d == IF Len(cache) > MaxCache THEN Tail(cache) ELSE cache
               t == [s EXCEPT !.cache = d]
           IN  /\ StoreInv(t) /\ t.info = s.info /\ t.refused = s.refused
  <1> DEFINE q == s.cache
             cache == Append(q, cred)
             d == IF Len(cache) > MaxCache THEN Tail(cache) ELSE cache
             t == [s EXCEPT !.cache = d]
  <1>1. /\ s \in [cache : Seq(Creds), info : [IPs -> Address], refused : [IPs -> SUBSET Creds]]
        /\ Len(q) <= MaxCache /\ \A i, j \in DOMAIN q : q[i] = q[j] => i = j
    BY DEF StoreInv, IsInjective
  <1>2. q \in Seq(Creds) /\ \A i \in DOMAIN q : q[i] # cred
    BY <1>1 DEF Range
  <1>3. MaxCache \in Nat
    BY LoginAssumption
  <1> HIDE DEF q
  <1>4. /\ cache \in Seq(Creds) /\ Len(cache) = Len(q) + 1 /\ Len(q) \in Nat
        /\ \A i \in 1..Len(q) : cache[i] = q[i]
        /\ cache[Len(q) + 1] = cred
    BY <1>2
  <1> HIDE DEF cache
  <1>5. \A i, j \in DOMAIN cache : cache[i] = cache[j] => i = j
    <2> SUFFICES ASSUME NEW i \in DOMAIN cache, NEW j \in DOMAIN cache, cache[i] = cache[j] PROVE i = j
      OBVIOUS
    <2>1. i \in 1..(Len(q) + 1) /\ j \in 1..(Len(q) + 1)
      BY <1>4
    <2>2. DOMAIN q = 1..Len(q)
      BY <1>2
    <2> QED
      BY <1>1, <1>2, <1>4, <2>1, <2>2
  <1>6. d \in Seq(Creds) /\ Len(d) <= MaxCache /\ \A i, j \in DOMAIN d : d[i] = d[j] => i = j
    <2>1. CASE Len(cache) > MaxCache
      <3> DEFINE e == Tail(cache)
      <3>1. /\ e \in Seq(Creds) /\ Len(e) = Len(q) /\ DOMAIN e = 1..Len(q)
            /\ \A i \in 1..Len(q) : e[i] = cache[i + 1]
        BY <1>4
      <3> HIDE DEF e
      <3>2. DOMAIN cache = 1..(Len(q) + 1)
        BY <1>4
      <3>3. \A i, j \in 1..Len(q) : cache[i + 1] = cache[j + 1] => i = j
        <4> SUFFICES ASSUME NEW i \in 1..Len(q), NEW j \in 1..Len(q), cache[i + 1] = cache[j + 1] PROVE i = j
          OBVIOUS
        <4>1. i + 1 \in 1..(Len(q) + 1) /\ j + 1 \in 1..(Len(q) + 1)
          BY <1>4
        <4>2. i + 1 = j + 1
          BY <1>5, <3>2, <4>1
        <4> QED
          BY <1>4, <4>2
      <3>4. \A i, j \in DOMAIN e : e[i] = e[j] => i = j
        BY <3>1, <3>3
      <3>5. d = e
        BY <2>1 DEF e
      <3> HIDE DEF d
      <3> QED
        BY <1>1, <3>1, <3>4, <3>5
    <2>2. CASE ~(Len(cache) > MaxCache)
      BY <1>3, <1>4, <1>5, <2>2
    <2> QED
      BY <2>1, <2>2
  <1>7. StoreInv(t) /\ t.info = s.info /\ t.refused = s.refused
    <2> HIDE DEF d
    <2>1. /\ t \in [cache : Seq(Creds), info : [IPs -> Address], refused : [IPs -> SUBSET Creds]]
          /\ t.cache = d /\ t.info = s.info /\ t.refused = s.refused
      BY <1>1, <1>6
    <2> HIDE DEF t
    <2>2. \A ip \in IPs : AddressInv(t, ip)
      BY <2>1 DEF AddressInv, StoreInv
    <2> QED
      BY <1>6, <2>1, <2>2 DEF StoreInv, IsInjective
  <1> QED
    BY <1>7 DEF q, cache, d, t

\* What a check may draw, and what it makes of the addresses.
Drawn(s, ip, need) == authclass = "AuthRandom" /\ s.info[ip].max = Unset => need \in MinTry..MaxTry
Earned(s, t) ==
    \A ip \in IPs : s.info[ip].user = Unset /\ t.info[ip].user # Unset =>
        t.info[ip].user \in Range(s.cache) \/ Cardinality(t.refused[ip]) >= MinTry - 1
Checked(s, ip, need, v) ==
    /\ StoreInv(v.store) /\ Earned(s, v.store) /\ Drawn(v.store, ip, need)
    /\ ~ v.auth => /\ v.store.cache = s.cache
                   /\ \A x \in IPs : v.store.info[x].user # Unset => s.info[x].user # Unset

\* An attempt that is refused, and one that lets the address in.
LEMMA RefusedChecked ==
    ASSUME NEW s, StoreInv(s), NEW ip \in IPs, NEW cred \in Creds, NEW need, NEW info,
           Sound(info, s.refused[ip] \cup {cred}), info.user = s.info[ip].user, info.max # Unset
    PROVE  Checked(s, ip, need, Saved(s, ip, info, FALSE, cred))
  <1> DEFINE v == Saved(s, ip, info, FALSE, cred)
             all == s.refused[ip] \cup {cred}
             t == Kept(s, ip, info, all)
  <1>0. v.store = t /\ v.auth = FALSE
    BY DEF Saved, Kept
  <1>1. /\ v.auth = FALSE /\ StoreInv(v.store) /\ v.store.info[ip] = info /\ v.store.cache = s.cache
        /\ \A x \in IPs : x # ip => v.store.info[x] = s.info[x]
    <2> HIDE DEF v
    <2>0. Sound(info, all)
      OBVIOUS
    <2> HIDE DEF all
    <2>1. /\ StoreInv(t) /\ t.info[ip] = info /\ t.cache = s.cache
          /\ \A x \in IPs : x # ip => t.info[x] = s.info[x]
      BY <2>0, SavedInv
    <2> QED
      BY <1>0, <2>1
  <1> HIDE DEF v
  <1>2. \A x \in IPs : v.store.info[x].user = s.info[x].user
    BY <1>1
  <1>3. Earned(s, v.store) /\ Drawn(v.store, ip, need)
    BY <1>1, <1>2 DEF Earned, Drawn
  <1>4. Checked(s, ip, need, v)
    BY <1>1, <1>2, <1>3 DEF Checked
  <1> QED
    BY <1>4 DEF v

\* ... and one that lets the address in.
LEMMA AdmittedChecked ==
    ASSUME NEW s, NEW t, StoreInv(t), t.info = s.info, NEW ip \in IPs, NEW cred \in Creds,
           NEW need, NEW info, Sound(info, t.refused[ip]), info.user = cred, info.max # Unset,
           s.info[ip].user = Unset => cred \in Range(s.cache) \/ Cardinality(t.refused[ip]) >= MinTry - 1
    PROVE  Checked(s, ip, need, Saved(t, ip, info, TRUE, cred))
  <1> DEFINE v == Saved(t, ip, info, TRUE, cred)
             w == Kept(t, ip, info, t.refused[ip])
  <1>0. v.store = w /\ v.auth = TRUE
    BY DEF Saved, Kept
  <1>1. /\ v.auth = TRUE /\ StoreInv(v.store) /\ v.store.info[ip] = info /\ v.store.refused[ip] = t.refused[ip]
        /\ \A x \in IPs : x # ip => v.store.info[x] = s.info[x]
    <2> HIDE DEF v
    <2>1. /\ StoreInv(w) /\ w.info[ip] = info /\ w.refused[ip] = t.refused[ip]
          /\ \A x \in IPs : x # ip => w.info[x] = t.info[x]
      BY SavedInv
    <2> QED
      BY <1>0, <2>1
  <1> HIDE DEF v
  <1>2. Earned(s, v.store) /\ Drawn(v.store, ip, need)
    BY <1>1 DEF Earned, Drawn
  <1>3. Checked(s, ip, need, v)
    BY <1>1, <1>2 DEF Checked
  <1> QED
    BY <1>3 DEF v

\* Each branch of AuthRandom.checklogin keeps the addresses sound, and admits what
\* is in the cache or after enough refusals.
LEMMA AuthRandomKeeps ==
    ASSUME NEW s, StoreInv(s), authclass = "AuthRandom", NEW ip \in IPs, NEW cred \in Creds,
           NEW need, Drawn(s, ip, need)
    PROVE  Checked(s, ip, need, AuthRandomCheck(s, ip, cred, need))
  <1> DEFINE i == s.info[ip]
             known == [s.info[ip] EXCEPT !.max = IF @ = Unset THEN need ELSE @]
             info == [known EXCEPT !.try = @ + 1]
             more == [info EXCEPT !.tried = @ \union {cred}]
             v == AuthRandomCheck(s, ip, cred, need)
  <1> SUFFICES Checked(s, ip, need, v)
    OBVIOUS
  <1>1. /\ i \in Address /\ s.refused[ip] \in SUBSET Creds /\ AddressInv(s, ip)
        /\ MinTry \in Nat \ {0} /\ MaxTry \in Nat /\ MinTry <= MaxTry /\ Unset \notin Creds \cup Nat
    BY LoginAssumption DEF StoreInv
  <1>2. need \in Nat \/ i.max # Unset
    BY <1>1 DEF Drawn
  <1> DEFINE max == IF i.max = Unset THEN need ELSE i.max
  <1>3. /\ known = [try |-> i.try, max |-> max, tried |-> i.tried, user |-> i.user]
        /\ max \in 1..MaxTry /\ (i.max = Unset => max \in MinTry..MaxTry)
    BY <1>1 DEF Address, Drawn
  <1> HIDE DEF max, known
  <1>4. info = [try |-> i.try + 1, max |-> max, tried |-> i.tried, user |-> i.user]
    BY <1>3
  <1> HIDE DEF info, more
  <1>5. /\ i.try \in Nat /\ i.tried \in SUBSET Creds /\ i.user \in Creds \cup {Unset}
        /\ IsFiniteSet(i.tried) /\ IsFiniteSet(s.refused[ip])
        /\ max \in Nat /\ max # Unset
        /\ i.user = Unset => /\ i.try = Cardinality(i.tried) /\ i.tried \subseteq s.refused[ip]
                             /\ i.try < max /\ MinTry <= max
    BY <1>1, <1>3 DEF Address, AddressInv, max
  <1>6. v = CASE Cached(s, ip, cred) -> FromCache(s, ip, cred)
              [] ~Cached(s, ip, cred) /\ Repeated(s, ip, known, cred) -> Saved(s, ip, known, FALSE, cred)
              [] ~Cached(s, ip, cred) /\ ~Repeated(s, ip, known, cred) /\ info.try < info.max ->
                    Saved(s, ip, more, FALSE, cred)
              [] ~Cached(s, ip, cred) /\ ~Repeated(s, ip, known, cred) /\ info.try = info.max ->
                    Admit(s, ip, info, cred)
              [] OTHER -> Returning(s, ip, info, cred)
    BY DEF AuthRandomCheck, known, info, more
  <1> HIDE DEF v, i
  <1>7. IsFiniteSet(s.refused[ip] \cup {cred}) /\ s.refused[ip] \cup {cred} \in SUBSET Creds
    BY <1>1, <1>5, FS_AddElement
  <1>8. CASE Cached(s, ip, cred)
    <2> DEFINE j == [i EXCEPT !.max = 1, !.user = cred]
    <2>1. v = Saved(s, ip, j, TRUE, cred)
      BY <1>6, <1>8 DEF FromCache, i
    <2>2. j = [try |-> i.try, max |-> 1, tried |-> i.tried, user |-> cred]
      <3> DEFINE a == i.try
                 b == i.max
                 d == i.tried
                 e == i.user
      <3>1. i = [try |-> a, max |-> b, tried |-> d, user |-> e]
        BY <1>1 DEF Address
      <3>2. j = [[try |-> a, max |-> b, tried |-> d, user |-> e] EXCEPT !.max = 1, !.user = cred]
        BY <3>1, Zenon
      <3> HIDE DEF a, b, d, e, j
      <3> QED
        BY <3>2 DEF a, b, d, e
    <2> HIDE DEF j
    <2>3. Sound(j, s.refused[ip]) /\ j.user = cred /\ j.max # Unset
      BY <1>1, <1>5, <2>2 DEF Sound, Address
    <2>4. cred \in Range(s.cache)
      BY <1>8 DEF Cached
    <2>9. Checked(s, ip, need, Saved(s, ip, j, TRUE, cred))
      BY <2>3, <2>4, AdmittedChecked DEF i
    <2> QED
      BY <2>1, <2>9
  <1>9. CASE ~Cached(s, ip, cred) /\ Repeated(s, ip, known, cred)
    <2>1. v = Saved(s, ip, known, FALSE, cred)
      BY <1>6, <1>9
    <2>2. Sound(known, s.refused[ip] \cup {cred}) /\ known.user = i.user /\ known.max # Unset
      BY <1>1, <1>3, <1>5, <1>7 DEF Sound, Address
    <2>9. Checked(s, ip, need, Saved(s, ip, known, FALSE, cred))
      BY <2>2, RefusedChecked DEF i
    <2> QED
      BY <2>1, <2>9
  <1>10. CASE ~Cached(s, ip, cred) /\ ~Repeated(s, ip, known, cred) /\ info.try < info.max
    <2> DEFINE j == more
    <2>0. info.try # info.max
      BY <1>4, <1>5, <1>10
    <2>1. v = Saved(s, ip, j, FALSE, cred)
      BY <1>6, <1>10, <2>0
    <2>2. j = [try |-> i.try + 1, max |-> max, tried |-> i.tried \cup {cred}, user |-> i.user]
      BY <1>4 DEF more
    <2>3. cred \notin i.tried /\ i.try + 1 < max
      BY <1>3, <1>4, <1>10 DEF Repeated
    <2>4. IsFiniteSet(i.tried \cup {cred}) /\ Cardinality(i.tried \cup {cred}) = Cardinality(i.tried) + 1
      BY <1>5, <2>3, FS_AddElement
    <2> HIDE DEF j
    <2>5. Sound(j, s.refused[ip] \cup {cred}) /\ j.user = i.user /\ j.max # Unset
      <3>1. j \in Address
        BY <1>3, <1>5, <2>2 DEF Address
      <3>2. j.tried = i.tried \cup {cred} /\ j.try = i.try + 1 /\ j.max = max /\ j.user = i.user
        BY <2>2
      <3> QED
        BY <1>5, <1>7, <2>3, <2>4, <3>1, <3>2 DEF Sound
    <2>9. Checked(s, ip, need, Saved(s, ip, j, FALSE, cred))
      BY <2>5, RefusedChecked DEF i
    <2> QED
      BY <2>1, <2>9
  <1>11. CASE ~Cached(s, ip, cred) /\ ~Repeated(s, ip, known, cred) /\ ~(info.try < info.max) /\ info.try = info.max
    <2> DEFINE j == [info EXCEPT !.user = cred]
               cache == Append(s.cache, cred)
               t == [s EXCEPT !.cache = IF Len(cache) > MaxCache THEN Tail(cache) ELSE cache]
    <2>1. i.try + 1 = max
      BY <1>4, <1>11
    <2>2. v = Admit(s, ip, info, cred)
      <3> HIDE DEF j, t
      <3> QED
        BY <1>6, <1>11
    <2>3. v = Saved(t, ip, j, TRUE, cred)
      BY <2>2 DEF Admit
    <2>4. j = [try |-> i.try + 1, max |-> max, tried |-> i.tried, user |-> cred]
      BY <1>4
    <2>5. StoreInv(t) /\ t.info = s.info /\ t.refused = s.refused
      BY <1>11, CacheKept DEF Cached
    <2> HIDE DEF j, t
    <2>6. Sound(j, t.refused[ip]) /\ j.user = cred /\ j.max # Unset
      <3>1. j \in Address
        BY <1>3, <1>5, <2>4 DEF Address
      <3> QED
        BY <1>1, <1>5, <2>4, <2>5, <3>1 DEF Sound
    <2>7. i.user = Unset => Cardinality(t.refused[ip]) >= MinTry - 1
      <3> SUFFICES ASSUME i.user = Unset PROVE Cardinality(s.refused[ip]) >= MinTry - 1
        BY <2>5
      <3>1. Cardinality(i.tried) <= Cardinality(s.refused[ip])
        BY <1>5, FS_Subset
      <3>2. Cardinality(s.refused[ip]) \in Nat
        BY <1>5, FS_CardinalityType
      <3> QED
        BY <1>1, <1>5, <2>1, <3>1, <3>2
    <2>9. Checked(s, ip, need, Saved(t, ip, j, TRUE, cred))
      BY <2>5, <2>6, <2>7, AdmittedChecked DEF i
    <2> QED
      BY <2>3, <2>9
  <1>12. CASE ~Cached(s, ip, cred) /\ ~Repeated(s, ip, known, cred) /\ ~(info.try < info.max) /\ ~(info.try = info.max)
    <2>1. v = Returning(s, ip, info, cred)
      BY <1>6, <1>12
    <2>2. i.user # Unset
      BY <1>4, <1>5, <1>12
    <2>3. v = Saved(s, ip, info, FALSE, cred)
      BY <1>4, <2>1, <2>2 DEF Returning
    <2>4. Sound(info, s.refused[ip] \cup {cred}) /\ info.user = i.user /\ info.max # Unset
      BY <1>3, <1>4, <1>5, <1>7, <2>2 DEF Sound, Address
    <2>9. Checked(s, ip, need, Saved(s, ip, info, FALSE, cred))
      BY <2>4, RefusedChecked DEF i
    <2> QED
      BY <2>3, <2>9
  <1> QED
    BY <1>8, <1>9, <1>10, <1>11, <1>12 DEF v

\* So does a check by either class.
LEMMA CheckKeeps ==
    ASSUME NEW s, StoreInv(s), authclass \in {"UserDB", "AuthRandom"}, NEW ip \in IPs, NEW cred \in Creds,
           NEW need, Drawn(s, ip, need)
    PROVE  Checked(s, ip, need, CheckUserPass(s, ip, cred, need))
  <1>1. CASE authclass = "UserDB"
    BY <1>1 DEF CheckUserPass, Checked, Earned
  <1>2. CASE authclass = "AuthRandom"
    BY <1>2, AuthRandomKeeps DEF CheckUserPass
  <1> QED
    BY <1>1, <1>2

\* randint is asked for what an address needs.
LEMMA DrawsAreDrawn ==
    ASSUME NEW ip \in IPs, NEW need \in Draws(ip)
    PROVE  Drawn(store, ip, need)
  BY DEF Draws, Drawn

\* The responses of a keyboard-interactive exchange.
LEMMA ResponsesKeep ==
    ASSUME StoreInv(store), authclass \in {"UserDB", "AuthRandom"}, NEW c \in Conns, conn[c].ip \in IPs,
           NEW responses \in SeqOf(Creds, 2), NEW need \in Draws(conn[c].ip)
    PROVE  LET v == CheckResponses(c, responses, need)
           IN  /\ StoreInv(v.store) /\ Earned(store, v.store)
               /\ v.auth => v.succ = 1
  <1> DEFINE ip == conn[c].ip
             Check(s, cred) ==
                LET v == CheckUserPass(s, ip, cred, need)
                IN  [store |-> v.store, auth |-> v.auth, cred |-> cred, succ |-> IF v.auth THEN 1 ELSE 0]
             v == CheckResponses(c, responses, need)
  <1>1. Drawn(store, ip, need)
    BY DrawsAreDrawn
  <1> HIDE DEF ip
  <1>2. CASE responses = <<>>
    <2>1. v = [store |-> store, auth |-> FALSE, cred |-> Unset, succ |-> 0]
      BY <1>2 DEF CheckResponses
    <2> QED
      BY <2>1 DEF Earned
  <1>3. ASSUME responses # <<>> PROVE StoreInv(v.store) /\ Earned(store, v.store) /\ (v.auth => v.succ = 1)
    <2> DEFINE first == Check(store, responses[1])
    <2>1. responses[1] \in Creds /\ (Len(responses) # 1 => responses[2] \in Creds)
      <3>1. PICK n \in 0..2 : responses \in [1..n -> Creds]
        BY DEF SeqOf
      <3>2. responses \in Seq(Creds) /\ Len(responses) = n
        BY <3>1
      <3> QED
        BY <1>3, <3>1, <3>2
    <2>2. Checked(store, ip, need, CheckUserPass(store, ip, responses[1], need))
      BY <1>1, <2>1, CheckKeeps DEF ip
    <2>3. Checked(store, ip, need, first)
      BY <2>2 DEF Checked
    <2>4. CASE first.auth \/ Len(responses) = 1
      <3>1. v = first
        BY <1>3, <2>4 DEF CheckResponses, ip
      <3> QED
        BY <2>3, <3>1 DEF Checked
    <2>5. CASE ~(first.auth \/ Len(responses) = 1)
      <3> DEFINE second == Check(first.store, responses[2])
      <3>1. v = second
        BY <1>3, <2>5 DEF CheckResponses, ip
      <3>2. StoreInv(first.store) /\ Drawn(first.store, ip, need) /\ ~ first.auth
        BY <2>3, <2>5 DEF Checked
      <3> HIDE DEF first
      <3>3. Checked(first.store, ip, need, CheckUserPass(first.store, ip, responses[2], need))
        BY <2>1, <2>5, <3>2, CheckKeeps DEF ip
      <3>4. Checked(first.store, ip, need, second)
        BY <3>3 DEF Checked
      <3>5. second.auth => second.succ = 1
        OBVIOUS
      <3> HIDE DEF second
      <3>6. Earned(store, second.store)
        BY <2>3, <3>2, <3>4 DEF Checked, Earned
      <3> QED
        BY <3>1, <3>4, <3>5, <3>6 DEF Checked
    <2> QED
      BY <2>4, <2>5
  <1> QED
    BY <1>2, <1>3

-----------------------------------------------------------------------------
\* Another attempt leaves more room in the queue.
LEMMA LaterConnInv ==
    ASSUME NEW r, NEW m \in Nat, ConnInv(r, m)
    PROVE  ConnInv(r, m + 1)
  <1>1. Len(r.queue) \in Nat
    BY DEF ConnInv, ConnState, Calls
  <1> QED
    BY <1>1 DEF ConnInv, Queues

\* All that the invariant asks of two states that differ in what it does not see.
Like(r, s) ==
    /\ s \in ConnState /\ s.up = r.up /\ s.kind = r.kind /\ s.ip = r.ip /\ s.st = r.st /\ s.timer = r.timer
    /\ s.pending = r.pending /\ s.succ = r.succ /\ s.opens = r.opens /\ s.sess = r.sess /\ s.protocol = r.protocol
    /\ s.astray = r.astray /\ s.asked = r.asked /\ s.avatar = r.avatar

\* Such a state keeps the invariant.
LEMMA LikeKeeps ==
    ASSUME NEW r, NEW m \in Nat, ConnInv(r, m), NEW s, Like(r, s), s.echo = r.echo, s.queue = r.queue
    PROVE  ConnInv(s, m)
  BY DEF ConnInv, Queues, Placed, SessionCounted, Waits, Like

\* loseConnection.
LEMMA LoseConnectionKeeps ==
    ASSUME NEW r, NEW m \in Nat, ConnInv(r, m)
    PROVE  ConnInv(LoseConnection(r), m)
  <1> DEFINE up == IF r.up = "up" THEN "closing" ELSE r.up
             s == [r EXCEPT !.up = up]
  <1>1. up \in Ups /\ (r.up = "up" => up = "closing") /\ (r.up # "up" => up = r.up)
    BY DEF ConnInv, ConnState, Ups
  <1>2. LoseConnection(r) = s
    BY DEF LoseConnection
  <1> HIDE DEF up
  <1>3. /\ s \in ConnState /\ s.up = up /\ s.kind = r.kind /\ s.ip = r.ip /\ s.st = r.st /\ s.timer = r.timer
        /\ s.pending = r.pending /\ s.succ = r.succ /\ s.opens = r.opens /\ s.sess = r.sess
        /\ s.protocol = r.protocol /\ s.echo = r.echo /\ s.queue = r.queue
        /\ s.astray = r.astray /\ s.asked = r.asked /\ s.avatar = r.avatar
    BY <1>1 DEF ConnInv, ConnState
  <1> HIDE DEF s
  <1>4. ConnInv(s, m)
    BY <1>1, <1>3 DEF ConnInv, Queues, Placed, SessionCounted, Waits
  <1> QED
    BY <1>2, <1>4

\* A failure that is answered.
LEMMA BadAuthKeeps ==
    ASSUME NEW r, NEW m \in Nat, ConnInv(r, m), NEW counted \in BOOLEAN
    PROVE  ConnInv(BadAuth(r, counted), m)
  <1> DEFINE tries == IF counted THEN r.tries + 1 ELSE r.tries
             s == [r EXCEPT !.tries = tries]
  <1>1. tries \in Nat
    BY DEF ConnInv, ConnState
  <1> HIDE DEF tries
  <1>2. Like(r, s) /\ s.echo = r.echo /\ s.queue = r.queue
    BY <1>1 DEF ConnInv, ConnState, Like
  <1>3. ConnInv(s, m) /\ ConnInv(LoseConnection(s), m)
    <2> HIDE DEF s
    <2> QED
      BY <1>2, LikeKeeps, LoseConnectionKeeps
  <1> HIDE DEF s
  <1>4. BadAuth(r, counted) = IF tries > AttemptsBeforeDisconnect THEN LoseConnection(s) ELSE s
    BY DEF BadAuth, s, tries
  <1> QED
    BY <1>3, <1>4

\* The connection service opens a session, which an event or a request for the
\* service must account for.
LEMMA SetServiceKeeps ==
    ASSUME NEW r, NEW m \in Nat, r \in ConnState, Placed(r), Waits(r), Queues(r, m), r.up \in {"up", "closing"},
           r.kind = "ssh", r.succ > 0, r.opens + 1 + r.astray = r.succ + r.asked
    PROVE  ConnInv(SetService(r), m)
  <1> DEFINE opens == r.opens + 1
             st == "in"
             timer == "interactive"
             sess == "open"
             t == [r EXCEPT !.st = st, !.timer = timer, !.opens = opens, !.sess = sess]
  <1>1. opens \in Nat /\ st \in Steps /\ timer \in Timers /\ sess \in Sessions
    BY DEF ConnState, Steps, Timers, Sessions
  <1>2. SetService(r) = t
    BY DEF SetService
  <1> HIDE DEF opens, st, timer, sess
  <1>3. /\ t \in ConnState /\ t.succ = r.succ /\ t.opens = opens /\ t.up = r.up /\ t.kind = r.kind /\ t.ip = r.ip
        /\ t.queue = r.queue /\ t.pending = r.pending /\ t.st = st /\ t.timer = timer /\ t.sess = sess
        /\ t.astray = r.astray /\ t.asked = r.asked
    BY <1>1 DEF ConnState
  <1> HIDE DEF t
  <1>4. SessionCounted(t)
    BY <1>3 DEF SessionCounted, ConnState, opens, st, sess
  <1>5. ConnInv(t, m)
    BY <1>3, <1>4 DEF ConnInv, Queues, Placed, Waits, st, timer
  <1> QED
    BY <1>2, <1>5

\* A service of authentication ends the session of the connection service.
LEMMA StartAuthKeeps ==
    ASSUME NEW r, NEW m \in Nat, ConnInv(r, m), r.up \in {"up", "closing"}, r.kind = "ssh"
    PROVE  ConnInv(StartAuth(r), m)
  <1> DEFINE st == "auth"
             pam == FALSE
             none == 0
             held == [delayed |-> r.delayed, tries |-> r.tries]
             past == IF r.delayed = 0 THEN r.past ELSE Append(r.past, held)
             sess == IF r.sess = "open" THEN "closed" ELSE r.sess
             t == [r EXCEPT !.st = st, !.pam = pam, !.delayed = none, !.tries = none, !.past = past, !.sess = sess]
  <1>1. StartAuth(r) = t
    BY DEF StartAuth
  <1>2. past \in Replaced
    <2>1. held \in Held /\ r.past \in Seq(Held)
      BY DEF ConnInv, ConnState, Held, Replaced
    <2> HIDE DEF held
    <2> QED
      BY <2>1 DEF Replaced
  <1>3. st \in Steps /\ pam \in BOOLEAN /\ none \in Nat /\ sess \in Sessions /\ sess # "open"
    BY DEF ConnInv, ConnState, Steps, Sessions
  <1> HIDE DEF st, pam, none, past, sess
  <1>4. /\ t \in ConnState /\ t.succ = r.succ /\ t.opens = r.opens /\ t.up = r.up /\ t.kind = r.kind /\ t.ip = r.ip
        /\ t.queue = r.queue /\ t.pending = r.pending /\ t.st = st /\ t.timer = r.timer /\ t.sess = sess
        /\ t.astray = r.astray /\ t.asked = r.asked /\ t.avatar = r.avatar
    BY <1>2, <1>3 DEF ConnInv, ConnState
  <1> HIDE DEF t
  <1>5. ConnInv(t, m)
    BY <1>3, <1>4 DEF ConnInv, Queues, Placed, SessionCounted, Waits, st
  <1> QED
    BY <1>1, <1>5

\* A success of SSH: the event comes with a session, or names another service.
LEMMA LoggedKeeps ==
    ASSUME NEW r, NEW m \in Nat, ConnInv(r, m), r.up \in {"up", "closing"}, r.kind = "ssh", r.st = "auth",
           NEW events, events = 1, NEW service, NEW counted \in BOOLEAN
    PROVE  ConnInv(Logged(r, events, service, counted), m)
  <1> DEFINE succ == r.succ + events
             avatar == TRUE
             astray == r.astray + 1
             s == [r EXCEPT !.succ = succ, !.avatar = avatar]
             lost == s.astray + 1
             t == [s EXCEPT !.astray = lost]
  <1>1. r \in ConnState /\ succ \in Nat /\ succ > 0 /\ astray \in Nat /\ succ = r.succ + 1
    BY DEF ConnInv, ConnState
  <1> HIDE DEF succ
  <1>2. /\ s \in ConnState /\ s.succ = succ /\ s.opens = r.opens /\ s.up = r.up /\ s.kind = r.kind /\ s.ip = r.ip
        /\ s.queue = r.queue /\ s.echo = r.echo /\ s.pending = r.pending /\ s.st = r.st /\ s.timer = r.timer
        /\ s.sess = r.sess /\ s.astray = r.astray /\ s.asked = r.asked /\ s.protocol = r.protocol
    BY <1>1 DEF ConnState
  <1> DEFINE u == SetService(s)
  <1>3. Logged(r, events, service, counted) \in {u, StartAuth(t), BadAuth(t, counted)}
    BY DEF Logged, succ
  <1> HIDE DEF s
  <1>4. lost = astray
    BY <1>2
  <1> HIDE DEF lost, astray
  <1>5. /\ t \in ConnState /\ t.succ = s.succ /\ t.opens = s.opens /\ t.up = s.up /\ t.kind = s.kind /\ t.ip = s.ip
        /\ t.queue = s.queue /\ t.echo = s.echo /\ t.pending = s.pending /\ t.st = s.st /\ t.timer = s.timer
        /\ t.sess = s.sess /\ t.astray = astray /\ t.asked = s.asked /\ t.protocol = s.protocol
    BY <1>1, <1>2, <1>4 DEF ConnState
  <1> HIDE DEF t
  <1>6. ConnInv(u, m)
    <2>1. Placed(s) /\ Waits(s) /\ Queues(s, m)
      BY <1>2 DEF ConnInv, Placed, Waits, Queues
    <2>2. s.succ > 0 /\ s.opens + 1 + s.astray = s.succ + s.asked
      BY <1>1, <1>2 DEF ConnInv, SessionCounted, ConnState
    <2> QED
      BY <1>2, <2>1, <2>2, SetServiceKeeps
  <1>7. ConnInv(t, m)
    <2>1. t.opens + t.astray = t.succ + t.asked
      BY <1>1, <1>2, <1>5 DEF ConnInv, SessionCounted, ConnState, astray
    <2> QED
      BY <1>1, <1>2, <1>5, <2>1 DEF ConnInv, SessionCounted, Placed, Waits, Queues
  <1>8. ConnInv(StartAuth(t), m) /\ ConnInv(BadAuth(t, counted), m)
    BY <1>2, <1>5, <1>7, StartAuthKeeps, BadAuthKeeps
  <1> HIDE DEF u
  <1> QED
    BY <1>3, <1>6, <1>8

\* A failure that a replaced service answers.
LEMMA LateFailureKeeps ==
    ASSUME NEW r, NEW m \in Nat, ConnInv(r, m), NEW i \in 1..Len(r.past), r.past[i].delayed > 0
    PROVE  ConnInv(LateFailure(r, i), m)
  <1> DEFINE tries == r.past[i].tries + 1
             held == [delayed |-> r.past[i].delayed - 1, tries |-> tries]
             past == [r.past EXCEPT ![i] = held]
             s == [r EXCEPT !.past = past]
  <1>1. r \in ConnState /\ r.past \in Seq(Held)
    BY DEF ConnInv, ConnState, Replaced
  <1>2. r.past[i] \in Held
    BY <1>1
  <1>3. held \in Held
    BY <1>2 DEF Held
  <1>4. LateFailure(r, i) \in {LoseConnection(s), s}
    BY <1>1 DEF LateFailure, ConnState
  <1> HIDE DEF held
  <1>5. past \in Replaced
    BY <1>1, <1>3 DEF Replaced
  <1> HIDE DEF past
  <1>6. Like(r, s) /\ s.echo = r.echo /\ s.queue = r.queue
    BY <1>1, <1>5 DEF ConnState, Like
  <1> HIDE DEF s
  <1>7. ConnInv(s, m) /\ ConnInv(LoseConnection(s), m)
    BY <1>6, LikeKeeps, LoseConnectionKeeps
  <1> QED
    BY <1>4, <1>7

\* A failure that is held back.
LEMMA RefuseKeeps ==
    ASSUME NEW r, NEW m \in Nat, ConnInv(r, m)
    PROVE  ConnInv(Refuse(r), m)
  <1> DEFINE n == r.delayed + 1
             s == [r EXCEPT !.delayed = n]
  <1>1. n \in Nat
    BY DEF ConnInv, ConnState
  <1>2. Refuse(r) = s
    BY DEF Refuse
  <1> HIDE DEF n
  <1>3. Like(r, s) /\ s.echo = r.echo /\ s.queue = r.queue
    BY <1>1 DEF ConnInv, ConnState, Like
  <1> HIDE DEF s
  <1> QED
    BY <1>2, <1>3, LikeKeeps

\* A negotiation changes ECHO and the calls chained behind it.
LEMMA NegotiateForm ==
    ASSUME NEW r \in ConnState, NEW func \in {"will", "wont"}
    PROVE  LET n == Negotiate(r, func)
           IN  /\ Like(r, n.r)
               /\ \/ /\ n.now /\ n.r.echo = r.echo /\ n.r.queue = r.queue
                     /\ r.echo = IF func = "will" THEN "yes" ELSE "no"
                  \/ /\ n.now /\ n.r.echo = r.echo /\ n.r.queue = Append(r.queue, func)
                     /\ r.echo \in {"asked", "stopping"}
                  \/ /\ ~n.now /\ n.r.queue = r.queue /\ func = "will" /\ r.echo = "no" /\ n.r.echo = "asked"
                  \/ /\ ~n.now /\ n.r.queue = r.queue /\ func = "wont" /\ r.echo = "yes" /\ n.r.echo = "stopping"
  <1> DEFINE n == Negotiate(r, func)
             q == Append(r.queue, func)
             wanted == "asked"
             dropped == "stopping"
  <1>1. r.echo \in Echoes /\ q \in Calls /\ wanted \in Echoes /\ dropped \in Echoes
    BY DEF ConnState, Echoes, Calls
  <1>2. CASE r.echo \in {"asked", "stopping"}
    <2>1. n.now /\ n.r = [r EXCEPT !.queue = q]
      BY <1>2 DEF Negotiate
    <2> HIDE DEF q, n
    <2>2. Like(r, n.r) /\ n.r.echo = r.echo /\ n.r.queue = q
      BY <1>1, <2>1 DEF ConnState, Like
    <2> QED
      BY <1>2, <2>1, <2>2 DEF n, q
  <1>3. CASE r.echo = "no" /\ func = "will"
    <2>1. ~n.now /\ n.r = [r EXCEPT !.echo = wanted]
      BY <1>3 DEF Negotiate
    <2> HIDE DEF n, wanted
    <2>2. Like(r, n.r) /\ n.r.echo = wanted /\ n.r.queue = r.queue
      BY <1>1, <2>1 DEF ConnState, Like
    <2> QED
      BY <1>3, <2>1, <2>2 DEF n, wanted
  <1>4. CASE r.echo = "yes" /\ func = "wont"
    <2>1. ~n.now /\ n.r = [r EXCEPT !.echo = dropped]
      BY <1>4 DEF Negotiate
    <2> HIDE DEF n, dropped
    <2>2. Like(r, n.r) /\ n.r.echo = dropped /\ n.r.queue = r.queue
      BY <1>1, <2>1 DEF ConnState, Like
    <2> QED
      BY <1>4, <2>1, <2>2 DEF n, dropped
  <1>5. CASE (r.echo = "yes" /\ func = "will") \/ (r.echo = "no" /\ func = "wont")
    <2>1. n.now /\ n.r = r
      BY <1>5 DEF Negotiate
    <2> HIDE DEF n
    <2>2. Like(r, n.r)
      BY <2>1 DEF Like
    <2> QED
      BY <1>5, <2>1, <2>2 DEF n
  <1> QED
    BY <1>1, <1>2, <1>3, <1>4, <1>5 DEF Echoes

\* A Telnet login that succeeds asks for ECHO.
LEMMA CbLoginForm ==
    ASSUME NEW r \in ConnState
    PROVE  LET t == CbLogin(r)
           IN  /\ t \in ConnState /\ t.up = r.up /\ t.kind = r.kind /\ t.ip = r.ip /\ t.pending = r.pending
               /\ t.st = "Command" /\ t.timer = "idle" /\ t.sess = "open" /\ t.protocol = "session"
               /\ t.succ = r.succ + 1 /\ t.opens = r.opens + 1
               /\ t.astray = r.astray /\ t.asked = r.asked /\ t.avatar = r.avatar
               /\ Len(t.queue) \in Nat
               /\ IF r.echo \in {"asked", "stopping"} THEN Len(t.queue) = Len(r.queue) + 1 ELSE t.queue = r.queue
  <1> DEFINE n == Negotiate(r, "will").r
             st == "Command"
             timer == "idle"
             sess == "open"
             protocol == "session"
             opens == n.opens + 1
             succ == n.succ + 1
             t == [n EXCEPT !.st = st, !.timer = timer, !.opens = opens, !.succ = succ, !.sess = sess,
                            !.protocol = protocol]
  <1>1. Like(r, n) /\ (IF r.echo \in {"asked", "stopping"} THEN n.queue = Append(r.queue, "will") ELSE n.queue = r.queue)
    BY NegotiateForm
  <1>2. CbLogin(r) = t
    BY DEF CbLogin
  <1> HIDE DEF n
  <1>3. st \in Steps /\ timer \in Timers /\ sess \in Sessions /\ protocol \in Protocols /\ opens \in Nat /\ succ \in Nat
    BY <1>1 DEF Like, ConnState, Steps, Timers, Sessions, Protocols
  <1>4. r.queue \in Calls /\ n.queue \in Calls /\ n.opens = r.opens /\ n.succ = r.succ
    BY <1>1 DEF Like, ConnState
  <1> HIDE DEF st, timer, sess, protocol, opens, succ
  <1>5. /\ t \in ConnState /\ t.up = n.up /\ t.kind = n.kind /\ t.ip = n.ip /\ t.pending = n.pending
        /\ t.st = st /\ t.timer = timer /\ t.sess = sess /\ t.protocol = protocol /\ t.succ = succ /\ t.opens = opens
        /\ t.queue = n.queue /\ t.astray = n.astray /\ t.asked = n.asked /\ t.avatar = n.avatar
    BY <1>1, <1>3 DEF Like, ConnState
  <1> HIDE DEF t
  <1>6. Len(t.queue) \in Nat /\ IF r.echo \in {"asked", "stopping"} THEN Len(t.queue) = Len(r.queue) + 1 ELSE t.queue = r.queue
    BY <1>1, <1>4, <1>5 DEF Calls
  <1> QED
    BY <1>1, <1>2, <1>4, <1>5, <1>6 DEF Like, st, timer, sess, protocol, opens, succ

\* One that fails gives ECHO up.
LEMMA EbLoginForm ==
    ASSUME NEW r \in ConnState
    PROVE  LET t == EbLogin(r)
           IN  /\ t \in ConnState /\ t.up = r.up /\ t.kind = r.kind /\ t.ip = r.ip /\ t.pending = r.pending
               /\ t.st = "User" /\ t.timer = r.timer /\ t.sess = r.sess /\ t.protocol = r.protocol
               /\ t.succ = r.succ /\ t.opens = r.opens
               /\ t.astray = r.astray /\ t.asked = r.asked /\ t.avatar = r.avatar
               /\ Len(t.queue) \in Nat
               /\ IF r.echo \in {"asked", "stopping"} THEN Len(t.queue) = Len(r.queue) + 1 ELSE t.queue = r.queue
  <1> DEFINE n == Negotiate(r, "wont").r
             st == "User"
             t == [n EXCEPT !.st = st]
  <1>1. Like(r, n) /\ (IF r.echo \in {"asked", "stopping"} THEN n.queue = Append(r.queue, "wont") ELSE n.queue = r.queue)
    BY NegotiateForm
  <1>2. EbLogin(r) = t /\ st \in Steps
    BY DEF EbLogin, Steps
  <1> HIDE DEF n, st
  <1>4. r.queue \in Calls /\ n.queue \in Calls
    BY <1>1 DEF Like, ConnState
  <1>5. /\ t \in ConnState /\ t.up = n.up /\ t.kind = n.kind /\ t.ip = n.ip /\ t.pending = n.pending
        /\ t.st = st /\ t.timer = n.timer /\ t.sess = n.sess /\ t.protocol = n.protocol /\ t.succ = n.succ
        /\ t.opens = n.opens /\ t.queue = n.queue
        /\ t.astray = n.astray /\ t.asked = n.asked /\ t.avatar = n.avatar
    BY <1>1, <1>2 DEF Like, ConnState
  <1> HIDE DEF t
  <1>6. Len(t.queue) \in Nat /\ IF r.echo \in {"asked", "stopping"} THEN Len(t.queue) = Len(r.queue) + 1 ELSE t.queue = r.queue
    BY <1>1, <1>4, <1>5 DEF Calls
  <1> QED
    BY <1>1, <1>2, <1>5, <1>6 DEF Like, st

\* A login that runs has room to chain its own negotiation.
LEMMA LoginNowKeeps ==
    ASSUME NEW r \in ConnState, NEW m \in Nat, Placed(r), r.up \in {"up", "closing"}, r.kind = "telnet",
           r.succ = 0, r.opens = 0, r.astray = 0, r.asked = 0, ~r.avatar, r.sess # "open", r.pending = Unset,
           Len(r.queue) + 1 <= 3 * m, r.echo \in {"asked", "stopping"} => Len(r.queue) + 2 <= 3 * m,
           NEW cred, NEW v
    PROVE  ConnInv(LoginNow(r, cred, v), m)
  <1>1. CASE v.auth /\ Avatar(cred)
    <2>1. LoginNow(r, cred, v) = CbLogin(r)
      BY <1>1 DEF LoginNow
    <2> DEFINE t == CbLogin(r)
    <2>2. /\ t \in ConnState /\ t.up = r.up /\ t.kind = r.kind /\ t.ip = r.ip /\ t.pending = Unset
          /\ t.st = "Command" /\ t.timer = "idle" /\ t.sess = "open" /\ t.protocol = "session"
          /\ t.succ = 1 /\ t.opens = 1 /\ t.astray = 0 /\ t.asked = 0 /\ ~t.avatar /\ Len(t.queue) \in Nat
          /\ IF r.echo \in {"asked", "stopping"} THEN Len(t.queue) = Len(r.queue) + 1 ELSE t.queue = r.queue
      BY CbLoginForm
    <2> HIDE DEF t
    <2>3. Len(t.queue) <= 3 * m
      BY <2>2
    <2>4. ConnInv(t, m)
      BY <2>2, <2>3 DEF ConnInv, Queues, Placed, SessionCounted, Waits
    <2> QED
      BY <2>1, <2>4 DEF t
  <1>2. CASE ~(v.auth /\ Avatar(cred))
    <2>1. LoginNow(r, cred, v) = EbLogin(r)
      BY <1>2 DEF LoginNow
    <2> DEFINE t == EbLogin(r)
    <2>2. /\ t \in ConnState /\ t.up = r.up /\ t.kind = r.kind /\ t.ip = r.ip /\ t.pending = Unset
          /\ t.st = "User" /\ t.timer = r.timer /\ t.sess = r.sess /\ t.protocol = r.protocol
          /\ t.succ = 0 /\ t.opens = 0 /\ t.astray = 0 /\ t.asked = 0 /\ ~t.avatar /\ Len(t.queue) \in Nat
          /\ IF r.echo \in {"asked", "stopping"} THEN Len(t.queue) = Len(r.queue) + 1 ELSE t.queue = r.queue
      BY EbLoginForm
    <2> HIDE DEF t
    <2>3. Len(t.queue) + 1 <= 3 * m
      BY <2>2
    <2>4. ConnInv(t, m)
      BY <2>2, <2>3 DEF ConnInv, Queues, Placed, SessionCounted, Waits
    <2> QED
      BY <2>1, <2>4 DEF t
  <1> QED
    BY <1>1, <1>2

\* What was chained runs, up to what has to wait again.
LEMMA RunQueueKeeps ==
    ASSUME NEW r, NEW m \in Nat, ConnInv(r, m), r.up \in {"up", "closing"}
    PROVE  ConnInv(RunQueue(r), m)
  <1> DEFINE waiting == {i \in DOMAIN r.queue : ~Negotiate(r, r.queue[i]).now}
             first == CHOOSE i \in waiting : \A j \in waiting : i <= j
  <1>0. r \in ConnState /\ r.echo \in Echoes /\ r.queue \in Calls /\ Len(r.queue) \in Nat
    BY DEF ConnInv, ConnState, Calls
  <1>1. CASE r.echo \in {"asked", "stopping"}
    BY <1>1 DEF RunQueue
  <1>2. CASE r.echo \notin {"asked", "stopping"} /\ waiting = {}
    <2> DEFINE none == <<>>
               t == [r EXCEPT !.queue = none]
    <2>1. RunQueue(r) = t /\ none \in Calls
      BY <1>0, <1>2 DEF RunQueue, Echoes, Calls
    <2>2. Len(none) = 0
      OBVIOUS
    <2> HIDE DEF none
    <2>3. Like(r, t) /\ t.echo = r.echo /\ t.queue = none
      BY <1>0, <2>1 DEF Like, ConnState
    <2> HIDE DEF t
    <2>4. Queues(t, m)
      BY <1>0, <1>2, <2>2, <2>3 DEF ConnInv, Queues, Waits, Like, none
    <2>5. ConnInv(t, m)
      BY <1>2, <2>3, <2>4 DEF ConnInv, Placed, SessionCounted, Waits, Like
    <2> QED
      BY <2>1, <2>5
  <1>3. CASE r.echo \notin {"asked", "stopping"} /\ waiting # {}
    <2>1. waiting \in SUBSET Nat
      BY <1>0 DEF Calls
    <2>2. first \in waiting
      <3> HIDE DEF waiting
      <3>1. \E i \in waiting : \A j \in waiting : i <= j
        BY <1>3, <2>1, LeastOf
      <3> QED
        BY <3>1
    <2>3. first \in 1..Len(r.queue) /\ r.queue[first] \in {"will", "wont"}
      <3> HIDE DEF first
      <3> QED
        BY <1>0, <2>2 DEF Calls
    <2> DEFINE rest == SubSeq(r.queue, first + 1, Len(r.queue))
               s == [r EXCEPT !.queue = rest]
               func == r.queue[first]
               t == Negotiate(s, func).r
    <2>4. RunQueue(r) = t
      BY <1>0, <1>3 DEF RunQueue, Echoes
    <2> HIDE DEF first
    <2>5. rest \in Calls /\ Len(rest) = Len(r.queue) - first
      BY <1>0, <2>3 DEF Calls
    <2> HIDE DEF rest
    <2>6. s \in ConnState /\ Like(r, s) /\ s.echo = r.echo /\ s.queue = rest
      BY <1>0, <2>5 DEF Like, ConnState
    <2> HIDE DEF s, func
    <2>7. func \in {"will", "wont"}
      BY <2>3 DEF func
    <2>8. Like(s, t) /\ t.queue = s.queue
      BY <1>3, <2>6, <2>7, NegotiateForm
    <2> HIDE DEF t
    <2>9. Like(r, t) /\ Len(t.queue) \in Nat /\ Len(t.queue) + 1 <= Len(r.queue) /\ r.queue # <<>>
      BY <1>0, <2>3, <2>5, <2>6, <2>8 DEF Like
    <2>10. Queues(t, m)
      BY <1>0, <2>9 DEF ConnInv, Queues
    <2>11. ConnInv(t, m)
      BY <1>3, <2>9, <2>10 DEF ConnInv, Placed, SessionCounted, Waits, Like
    <2> QED
      BY <2>4, <2>11
  <1> QED
    BY <1>1, <1>2, <1>3

-----------------------------------------------------------------------------
\* The steps: what a client does to its connection, and to the addresses.
Step == LoginIInv' /\ Earned(store, store')

\* A step of one connection.
LEMMA ConnStep ==
    ASSUME LoginIInv, NEW c \in Conns, NEW r, conn' = [conn EXCEPT ![c] = r],
           authclass' = authclass, restarts' = restarts, messages' \in {messages, messages + 1}, messages' <= Messages,
           StoreInv(store'), Earned(store, store'), ConnInv(r, messages')
    PROVE  Step
  <1>1. messages' \in Nat
    BY DEF LoginIInv
  <1>2. DOMAIN conn' = Conns
    BY DEF LoginIInv
  <1>3. \A x \in Conns : ConnInv(conn'[x], messages')
    <2> SUFFICES ASSUME NEW x \in Conns PROVE ConnInv(conn'[x], messages')
      OBVIOUS
    <2>1. CASE x = c
      BY <2>1 DEF LoginIInv
    <2>2. CASE x # c
      <3>1. conn'[x] = conn[x] /\ ConnInv(conn[x], messages) /\ messages \in Nat
        BY <2>2 DEF LoginIInv
      <3>2. ConnInv(conn[x], messages + 1)
        BY <3>1, LaterConnInv
      <3> QED
        BY <3>1, <3>2
    <2> QED
      BY <2>1, <2>2
  <1> QED
    BY <1>1, <1>2, <1>3 DEF LoginIInv, Step

\* Nothing is earned where nothing changes.
LEMMA Unearned == Earned(store, store)
  BY DEF Earned

\* A client that sends something that is no attempt, and one that attempts.
LEMMA ClientStep ==
    ASSUME LoginIInv, NEW c \in Conns, NEW r, Client(c, r), store' = store, ConnInv(r, messages)
    PROVE  Step
  <1>1. StoreInv(store') /\ Earned(store, store') /\ messages <= Messages
    BY Unearned DEF LoginIInv
  <1> QED
    BY <1>1, ConnStep DEF Client

\* The same of an attempt.
LEMMA AttemptStep ==
    ASSUME LoginIInv, NEW c \in Conns, NEW r, Attempt(c, r), StoreInv(store'), Earned(store, store'),
           ConnInv(r, messages + 1)
    PROVE  Step
  <1>1. messages' = messages + 1 /\ messages' <= Messages
    BY LoginAssumption DEF LoginIInv, Attempt
  <1> QED
    BY <1>1, ConnStep DEF Attempt

\* A connection before it is made.
LEMMA IdleForm ==
    /\ Idle \in ConnState /\ Idle.queue = <<>> /\ Idle.echo = "no" /\ Idle.succ = 0 /\ Idle.opens = 0
    /\ Idle.sess = "none" /\ Idle.pending = Unset /\ Idle.st = "version" /\ Idle.kind = "ssh" /\ Idle.up = "new"
    /\ Idle.protocol = "auth" /\ Len(<<>>) = 0 /\ Idle.astray = 0 /\ Idle.asked = 0 /\ ~Idle.avatar
  BY DEF Idle, ConnState, Ups, Kinds, Sources, Steps, Timers, Echoes, Calls, Logins, Protocols, Sessions, Replaced

\* It is in the invariant.
LEMMA IdleInv ==
    ASSUME NEW m \in Nat
    PROVE  ConnInv(Idle, m)
  <1> DEFINE r == Idle
  <1>1. /\ r \in ConnState /\ r.queue = <<>> /\ r.echo = "no" /\ r.succ = 0 /\ r.opens = 0
        /\ r.sess = "none" /\ r.pending = Unset /\ r.st = "version" /\ r.kind = "ssh" /\ r.up = "new"
        /\ r.protocol = "auth" /\ Len(<<>>) = 0 /\ r.astray = 0 /\ r.asked = 0 /\ ~r.avatar
    BY IdleForm
  <1> HIDE DEF r
  <1>2. ConnInv(r, m)
    BY <1>1 DEF ConnInv, Queues, Placed, SessionCounted, Waits
  <1> QED
    BY <1>2 DEF r

\* connectionMade of both transports.
LEMMA ConnectStep ==
    ASSUME LoginIInv, NEW c \in Conns, Connect(c)
    PROVE  Step
  <1>1. PICK ip \in AddressesOf[c] : SshConnectionMade(c, ip) \/ TelnetConnectionMade(c, ip)
    BY DEF Connect
  <1>2. ip \in IPs
    BY LoginAssumption
  <1> DEFINE up == "up"
             ssh == "ssh"
             telnet == "telnet"
             atUser == "User"
             auth == "auth"
  <1>3. up \in Ups /\ ssh \in Kinds /\ telnet \in Kinds /\ atUser \in Steps /\ auth \in Timers /\ ip \in Sources
    BY <1>2 DEF Ups, Kinds, Steps, Timers, Sources
  <1>4. CASE SshConnectionMade(c, ip)
    <2> DEFINE r == [Idle EXCEPT !.up = up, !.kind = ssh, !.ip = ip, !.timer = auth]
    <2>1. conn' = [conn EXCEPT ![c] = r] /\ UNCHANGED <<authclass, store, messages, restarts>>
      BY <1>4 DEF SshConnectionMade
    <2> HIDE DEF up, ssh, auth
    <2>2. /\ r \in ConnState /\ r.queue = Idle.queue /\ r.echo = Idle.echo /\ r.succ = Idle.succ
          /\ r.opens = Idle.opens /\ r.sess = Idle.sess /\ r.pending = Idle.pending /\ r.st = Idle.st
          /\ r.up = up /\ r.kind = ssh /\ r.ip = ip /\ r.timer = auth
          /\ r.astray = Idle.astray /\ r.asked = Idle.asked /\ r.avatar = Idle.avatar
      BY <1>3, IdleForm DEF ConnState
    <2> HIDE DEF r
    <2>3. ConnInv(r, messages)
      BY <1>2, <2>2, IdleForm DEF ConnInv, Queues, Placed, SessionCounted, Waits, up, ssh, auth, LoginIInv
    <2> QED
      BY <2>1, <2>3, ClientStep DEF Client
  <1>5. CASE TelnetConnectionMade(c, ip)
    <2> DEFINE r == [Idle EXCEPT !.up = up, !.kind = telnet, !.ip = ip, !.st = atUser, !.timer = auth]
    <2>1. conn' = [conn EXCEPT ![c] = r] /\ UNCHANGED <<authclass, store, messages, restarts>>
      BY <1>5 DEF TelnetConnectionMade
    <2> HIDE DEF up, telnet, auth, atUser
    <2>2. /\ r \in ConnState /\ r.queue = Idle.queue /\ r.echo = Idle.echo /\ r.succ = Idle.succ
          /\ r.opens = Idle.opens /\ r.sess = Idle.sess /\ r.pending = Idle.pending
          /\ r.up = up /\ r.kind = telnet /\ r.ip = ip /\ r.st = atUser /\ r.timer = auth
          /\ r.astray = Idle.astray /\ r.asked = Idle.asked /\ r.avatar = Idle.avatar
      BY <1>3, IdleForm DEF ConnState
    <2> HIDE DEF r
    <2>3. ConnInv(r, messages)
      BY <1>2, <2>2, IdleForm DEF ConnInv, Queues, Placed, SessionCounted, Waits, up, telnet, auth, atUser, LoginIInv
    <2> QED
      BY <2>1, <2>3, ClientStep DEF Client
  <1> QED
    BY <1>1, <1>4, <1>5

\* The version of an SSH client.
LEMMA SshVersionStep ==
    ASSUME LoginIInv, NEW c \in Conns, SshVersion(c)
    PROVE  Step
  <1> DEFINE r == conn[c]
             st == "bare"
             s == [r EXCEPT !.st = st]
  <1>1. ConnInv(r, messages) /\ messages \in Nat /\ st \in Steps /\ r.st = "version" /\ r.kind = "ssh" /\ r.up \in {"up", "closing"}
    BY DEF LoginIInv, SshVersion, Live, Steps
  <1>2. Client(c, s) \/ Client(c, LoseConnection(r))
    BY DEF SshVersion
  <1> HIDE DEF r, st
  <1>3. /\ s \in ConnState /\ s.queue = r.queue /\ s.echo = r.echo /\ s.succ = r.succ
        /\ s.opens = r.opens /\ s.sess = r.sess /\ s.pending = r.pending /\ s.protocol = r.protocol
        /\ s.up = r.up /\ s.kind = r.kind /\ s.ip = r.ip /\ s.timer = r.timer /\ s.st = st
        /\ s.astray = r.astray /\ s.asked = r.asked /\ s.avatar = r.avatar
    BY <1>1 DEF ConnInv, ConnState
  <1> HIDE DEF s
  <1>4. ConnInv(s, messages) /\ ConnInv(LoseConnection(r), messages)
    <2>1. ConnInv(s, messages)
      BY <1>1, <1>3 DEF ConnInv, Queues, Placed, SessionCounted, Waits, st
    <2> QED
      BY <1>1, <2>1, LoseConnectionKeeps
  <1> QED
    BY <1>2, <1>4, ClientStep DEF SshVersion

\* A service is asked for.
LEMMA ServiceRequestStep ==
    ASSUME LoginIInv, NEW c \in Conns, ServiceRequest(c)
    PROVE  Step
  <1> DEFINE r == conn[c]
             wanted == r.asked + 1
             s == [r EXCEPT !.asked = wanted]
             t == SetService(s)
  <1>1. /\ ConnInv(r, messages) /\ messages \in Nat /\ r.kind = "ssh" /\ r.up \in {"up", "closing"}
        /\ store' = store
    BY DEF LoginIInv, ServiceRequest, Live
  <1>2. ConnInv(r, messages + 1) /\ messages + 1 \in Nat
    BY <1>1, LaterConnInv
  <1>3. \/ Client(c, StartAuth(r)) \/ Attempt(c, StartAuth(r)) \/ Client(c, LoseConnection(r))
        \/ r.avatar /\ Attempt(c, t)
    BY DEF ServiceRequest
  <1> HIDE DEF r
  <1>4. wanted \in Nat /\ wanted = r.asked + 1
    BY <1>1 DEF ConnInv, ConnState
  <1> HIDE DEF wanted
  <1>5. /\ s \in ConnState /\ s.queue = r.queue /\ s.echo = r.echo /\ s.succ = r.succ
        /\ s.opens = r.opens /\ s.pending = r.pending /\ s.astray = r.astray /\ s.asked = wanted
        /\ s.up = r.up /\ s.kind = r.kind /\ s.ip = r.ip /\ s.timer = r.timer /\ s.st = r.st
    BY <1>1, <1>4 DEF ConnInv, ConnState
  <1> HIDE DEF s
  <1>6. r.avatar => ConnInv(t, messages + 1)
    <2> SUFFICES ASSUME r.avatar PROVE ConnInv(t, messages + 1)
      OBVIOUS
    <2>1. Placed(s) /\ Waits(s) /\ Queues(s, messages + 1)
      BY <1>2, <1>5 DEF ConnInv, Placed, Waits, Queues
    <2>2. s.succ > 0 /\ s.opens + 1 + s.astray = s.succ + s.asked
      BY <1>1, <1>4, <1>5 DEF ConnInv, SessionCounted, ConnState
    <2> QED
      BY <1>1, <1>2, <1>5, <2>1, <2>2, SetServiceKeeps
  <1>7. ConnInv(StartAuth(r), messages) /\ ConnInv(StartAuth(r), messages + 1) /\ ConnInv(LoseConnection(r), messages)
    BY <1>1, <1>2, StartAuthKeeps, LoseConnectionKeeps
  <1>8. StoreInv(store') /\ Earned(store, store')
    BY <1>1, Unearned DEF LoginIInv
  <1> HIDE DEF t
  <1> QED
    BY <1>1, <1>3, <1>6, <1>7, <1>8, ClientStep, AttemptStep

\* A request for authentication: the state it finds, and what a success makes of it.
LEMMA RequestForm ==
    ASSUME LoginIInv, NEW c \in Conns, Request(c)
    PROVE  /\ ConnInv(conn[c], messages) /\ ConnInv(conn[c], messages + 1) /\ messages \in Nat
           /\ conn[c].up \in {"up", "closing"} /\ conn[c].kind = "ssh" /\ conn[c].st = "auth" /\ conn[c].ip \in IPs
           /\ messages + 1 \in Nat
           /\ \A service \in NextServices : /\ ConnInv(Logged(conn[c], 1, service, FALSE), messages + 1)
                                           /\ ConnInv(Logged(conn[c], 1, service, TRUE), messages + 1)
  <1>1. /\ ConnInv(conn[c], messages) /\ messages \in Nat
        /\ conn[c].up \in {"up", "closing"} /\ conn[c].kind = "ssh" /\ conn[c].st = "auth"
    BY DEF LoginIInv, Request, Live
  <1>2. ConnInv(conn[c], messages + 1) /\ messages + 1 \in Nat
    BY <1>1, LaterConnInv
  <1>3. ASSUME NEW service \in NextServices, NEW counted \in BOOLEAN
        PROVE  ConnInv(Logged(conn[c], 1, service, counted), messages + 1)
    BY <1>1, <1>2, LoggedKeeps
  <1>4. \A service \in NextServices : /\ ConnInv(Logged(conn[c], 1, service, FALSE), messages + 1)
                                      /\ ConnInv(Logged(conn[c], 1, service, TRUE), messages + 1)
    BY <1>3, Zenon
  <1> QED
    BY <1>1, <1>2, <1>4 DEF ConnInv, Placed

\* The method none.
LEMMA AuthNoneStep ==
    ASSUME LoginIInv, NEW c \in Conns, AuthNone(c)
    PROVE  Step
  <1>1. Request(c) /\ store' = store
    BY DEF AuthNone
  <1>2. /\ ConnInv(conn[c], messages) /\ messages \in Nat /\ messages + 1 \in Nat
        /\ \A service \in NextServices : ConnInv(Logged(conn[c], 1, service, FALSE), messages + 1)
    BY <1>1, RequestForm, Zenon
  <1>3. ConnInv(BadAuth(conn[c], FALSE), messages)
    BY <1>2, BadAuthKeeps
  <1>4. (\E service \in NextServices : Attempt(c, Logged(conn[c], 1, service, FALSE))) \/ Client(c, BadAuth(conn[c], FALSE))
    BY DEF AuthNone
  <1>5. StoreInv(store') /\ Earned(store, store')
    BY <1>1, Unearned DEF LoginIInv
  <1> QED
    BY <1>1, <1>2, <1>3, <1>4, <1>5, ClientStep, AttemptStep

\* Public keys.
LEMMA AuthPublicKeyStep ==
    ASSUME LoginIInv, NEW c \in Conns, AuthPublicKey(c)
    PROVE  Step
  <1>1. Request(c) /\ store' = store
    BY DEF AuthPublicKey
  <1>2. /\ ConnInv(conn[c], messages + 1) /\ messages + 1 \in Nat
        /\ \A service \in NextServices : ConnInv(Logged(conn[c], 1, service, TRUE), messages + 1)
    BY <1>1, RequestForm, Zenon
  <1>3. ConnInv(BadAuth(conn[c], TRUE), messages + 1)
    BY <1>2, BadAuthKeeps
  <1>4. (\E service \in NextServices : Attempt(c, Logged(conn[c], 1, service, TRUE))) \/ Attempt(c, BadAuth(conn[c], TRUE))
    BY DEF AuthPublicKey
  <1>5. StoreInv(store') /\ Earned(store, store')
    BY <1>1, Unearned DEF LoginIInv
  <1> QED
    BY <1>1, <1>2, <1>3, <1>4, <1>5, AttemptStep

\* Passwords over SSH.
LEMMA AuthPasswordStep ==
    ASSUME LoginIInv, NEW c \in Conns, AuthPassword(c)
    PROVE  Step
  <1>1. /\ ConnInv(conn[c], messages + 1) /\ messages + 1 \in Nat /\ conn[c].ip \in IPs
        /\ \A service \in NextServices : ConnInv(Logged(conn[c], 1, service, TRUE), messages + 1)
    BY RequestForm, Zenon DEF AuthPassword
  <1>2. ConnInv(BadAuth(conn[c], TRUE), messages + 1) /\ ConnInv(Refuse(conn[c]), messages + 1)
    BY <1>1, BadAuthKeeps, RefuseKeeps
  <1>3. CASE Attempt(c, BadAuth(conn[c], TRUE)) /\ UNCHANGED store
    <2>1. StoreInv(store') /\ Earned(store, store')
      BY <1>3, Unearned DEF LoginIInv
    <2> QED
      BY <1>2, <1>3, <2>1, AttemptStep
  <1>4. ASSUME NEW cred \in Creds, NEW need \in Draws(conn[c].ip),
               LET v == CheckUserPass(store, conn[c].ip, cred, need)
               IN  /\ store' = v.store
                   /\ IF v.auth /\ Avatar(cred)
                      THEN \E service \in NextServices : Attempt(c, Logged(conn[c], 1, service, TRUE))
                      ELSE Attempt(c, Refuse(conn[c]))
        PROVE  Step
    <2> DEFINE v == CheckUserPass(store, conn[c].ip, cred, need)
    <2>1. Checked(store, conn[c].ip, need, v)
      BY <1>1, DrawsAreDrawn, CheckKeeps DEF LoginIInv
    <2>2. store' = v.store
      BY <1>4
    <2>3. (\E service \in NextServices : Attempt(c, Logged(conn[c], 1, service, TRUE))) \/ Attempt(c, Refuse(conn[c]))
      BY <1>4
    <2> HIDE DEF v
    <2>4. StoreInv(store') /\ Earned(store, store')
      BY <2>1, <2>2 DEF Checked
    <2> QED
      BY <1>1, <1>2, <2>3, <2>4, AttemptStep
  <1> QED
    BY <1>3, <1>4 DEF AuthPassword

\* A keyboard-interactive exchange is opened,
LEMMA AuthKeyboardInteractiveStep ==
    ASSUME LoginIInv, NEW c \in Conns, AuthKeyboardInteractive(c)
    PROVE  Step
  <1> DEFINE s == [conn[c] EXCEPT !.pam = TRUE]
  <1>1. ConnInv(conn[c], messages) /\ messages \in Nat /\ store' = store
    BY RequestForm DEF AuthKeyboardInteractive
  <1>2. Like(conn[c], s) /\ s.echo = conn[c].echo /\ s.queue = conn[c].queue
    BY <1>1 DEF ConnInv, ConnState, Like
  <1>3. Client(c, LoseConnection(conn[c])) \/ Client(c, s)
    BY DEF AuthKeyboardInteractive
  <1> HIDE DEF s
  <1>4. ConnInv(s, messages) /\ ConnInv(LoseConnection(conn[c]), messages)
    BY <1>1, <1>2, LikeKeeps, LoseConnectionKeeps
  <1> QED
    BY <1>1, <1>3, <1>4, ClientStep

\* and answered with up to two passwords.
LEMMA InfoResponseStep ==
    ASSUME LoginIInv, NEW c \in Conns, InfoResponse(c)
    PROVE  Step
  <1>1. /\ ConnInv(conn[c], messages + 1) /\ messages + 1 \in Nat /\ conn[c].ip \in IPs
        /\ conn[c].up \in {"up", "closing"} /\ conn[c].kind = "ssh" /\ conn[c].st = "auth"
    <2>1. Request(c)
      BY DEF InfoResponse
    <2> QED
      BY <2>1, RequestForm
  <1>2. CASE Attempt(c, LoseConnection(conn[c])) /\ UNCHANGED store
    <2>1. StoreInv(store') /\ Earned(store, store') /\ ConnInv(LoseConnection(conn[c]), messages + 1)
      BY <1>1, <1>2, Unearned, LoseConnectionKeeps DEF LoginIInv
    <2> QED
      BY <1>2, <2>1, AttemptStep
  <1>3. ASSUME NEW responses \in SeqOf(Creds, 2), NEW need \in Draws(conn[c].ip),
               LET v == CheckResponses(c, responses, need)
                   r == [conn[c] EXCEPT !.pam = FALSE]
               IN  /\ store' = v.store
                   /\ IF v.auth /\ Avatar(v.cred)
                      THEN \E service \in NextServices : Attempt(c, Logged(r, v.succ, service, TRUE))
                      ELSE Attempt(c, Refuse(r))
        PROVE  Step
    <2> DEFINE v == CheckResponses(c, responses, need)
               r == [conn[c] EXCEPT !.pam = FALSE]
    <2>1. StoreInv(v.store) /\ Earned(store, v.store) /\ (v.auth => v.succ = 1)
      BY <1>1, ResponsesKeep DEF LoginIInv
    <2>2. store' = v.store
      BY <1>3
    <2>3. \/ v.auth /\ \E service \in NextServices : Attempt(c, Logged(r, v.succ, service, TRUE))
          \/ Attempt(c, Refuse(r))
      BY <1>3
    <2> HIDE DEF v
    <2>4. Like(conn[c], r) /\ r.echo = conn[c].echo /\ r.queue = conn[c].queue
      <3>1. conn[c] \in ConnState
        BY <1>1 DEF ConnInv
      <3> QED
        BY <3>1 DEF ConnState, Like
    <2> HIDE DEF r
    <2>5. ConnInv(r, messages + 1)
      BY <1>1, <2>4, LikeKeeps
    <2>6. ConnInv(Refuse(r), messages + 1)
      BY <1>1, <2>5, RefuseKeeps
    <2>7. v.auth => \A service \in NextServices : ConnInv(Logged(r, v.succ, service, TRUE), messages + 1)
      <3> SUFFICES ASSUME v.auth, NEW service \in NextServices
                   PROVE  ConnInv(Logged(r, v.succ, service, TRUE), messages + 1)
        OBVIOUS
      <3>1. r.up \in {"up", "closing"} /\ r.kind = "ssh" /\ r.st = "auth" /\ v.succ = 1
        BY <1>1, <2>1, <2>4 DEF Like
      <3> QED
        BY <1>1, <2>5, <3>1, LoggedKeeps
    <2> QED
      BY <1>1, <2>1, <2>2, <2>3, <2>6, <2>7, AttemptStep
  <1> QED
    BY <1>2, <1>3, Zenon DEF InfoResponse

\* A failure held back is answered.
LEMMA PasswordDelayStep ==
    ASSUME LoginIInv, NEW c \in Conns, PasswordDelay(c)
    PROVE  Step
  <1> DEFINE r == conn[c]
             delayed == r.delayed - 1
             s == [r EXCEPT !.delayed = delayed]
  <1>1. ConnInv(r, messages) /\ messages \in Nat /\ store' = store
    BY DEF LoginIInv, PasswordDelay
  <1>2. \/ r.delayed > 0 /\ Client(c, BadAuth(s, TRUE))
        \/ \E i \in 1..Len(r.past) : r.past[i].delayed > 0 /\ Client(c, LateFailure(r, i))
    BY DEF PasswordDelay
  <1> HIDE DEF r
  <1>3. CASE r.delayed > 0 /\ Client(c, BadAuth(s, TRUE))
    <2>1. delayed \in Nat
      BY <1>1, <1>3 DEF ConnInv, ConnState
    <2> HIDE DEF delayed
    <2>2. Like(r, s) /\ s.echo = r.echo /\ s.queue = r.queue
      BY <1>1, <2>1 DEF ConnInv, ConnState, Like
    <2> HIDE DEF s
    <2>3. ConnInv(BadAuth(s, TRUE), messages)
      BY <1>1, <2>2, LikeKeeps, BadAuthKeeps
    <2> QED
      BY <1>1, <1>3, <2>3, ClientStep
  <1>4. CASE \E i \in 1..Len(r.past) : r.past[i].delayed > 0 /\ Client(c, LateFailure(r, i))
    BY <1>1, <1>4, LateFailureKeeps, ClientStep
  <1> QED
    BY <1>2, <1>3, <1>4

\* The name over Telnet.
LEMMA TelnetUserStep ==
    ASSUME LoginIInv, NEW c \in Conns, TelnetUser(c)
    PROVE  Step
  <1> DEFINE r == conn[c]
             n == Negotiate(r, "will").r
             st == "Password"
             s == [n EXCEPT !.st = st]
  <1>1. /\ ConnInv(r, messages) /\ messages \in Nat /\ r.up \in {"up", "closing"} /\ r.kind = "telnet" /\ r.st = "User"
        /\ st \in Steps /\ r.queue \in Calls /\ r \in ConnState
    BY DEF LoginIInv, TelnetUser, Live, Steps, ConnInv, ConnState
  <1>2. Client(c, s) /\ store' = store
    BY DEF TelnetUser
  <1>3. Like(r, n) /\ (n.queue = r.queue \/ (n.queue = Append(r.queue, "will") /\ r.echo \in {"asked", "stopping"}))
    BY <1>1, NegotiateForm
  <1> HIDE DEF r, n, st
  <1>4. /\ s \in ConnState /\ s.queue = n.queue /\ s.echo = n.echo /\ s.succ = n.succ
        /\ s.opens = n.opens /\ s.sess = n.sess /\ s.pending = n.pending /\ s.protocol = n.protocol
        /\ s.up = n.up /\ s.kind = n.kind /\ s.ip = n.ip /\ s.timer = n.timer /\ s.st = st
        /\ s.astray = n.astray /\ s.asked = n.asked /\ s.avatar = n.avatar
    BY <1>1, <1>3 DEF Like, ConnState
  <1> HIDE DEF s
  <1>5. Len(s.queue) <= 3 * messages
    BY <1>1, <1>3, <1>4 DEF ConnInv, Queues, Calls
  <1>6. ConnInv(s, messages)
    BY <1>1, <1>3, <1>4, <1>5 DEF ConnInv, Queues, Placed, SessionCounted, Waits, Like, st
  <1> QED
    BY <1>2, <1>6, ClientStep

\* The password: the login runs at once, or waits for the client.
LEMMA TelnetPasswordStep ==
    ASSUME LoginIInv, NEW c \in Conns, TelnetPassword(c)
    PROVE  Step
  <1> DEFINE m == messages + 1
  <1>1. /\ ConnInv(conn[c], messages) /\ messages \in Nat /\ m \in Nat /\ conn[c].up \in {"up", "closing"}
        /\ conn[c].kind = "telnet" /\ conn[c].st = "Password" /\ conn[c].ip \in IPs /\ conn[c] \in ConnState
    BY DEF LoginIInv, TelnetPassword, Live, ConnInv, Placed
  <1>2. PICK typed \in Creds, need \in Draws(conn[c].ip) :
          LET cred == IF conn[c].env THEN EnvCred ELSE typed
              n == Negotiate([conn[c] EXCEPT !.env = FALSE], "wont")
              v == CheckUserPass(store, conn[c].ip, cred, need)
          IN  IF n.now
              THEN /\ store' = v.store
                   /\ Attempt(c, LoginNow(n.r, cred, v))
              ELSE /\ Attempt(c, [n.r EXCEPT !.st = AfterPassword(n.r), !.pending = cred])
                   /\ UNCHANGED store
    BY DEF TelnetPassword
  <1> DEFINE cred == IF conn[c].env THEN EnvCred ELSE typed
             env == FALSE
             r == [conn[c] EXCEPT !.env = env]
             n == Negotiate(r, "wont")
             t == n.r
             v == CheckUserPass(store, conn[c].ip, cred, need)
             st == "Discard"
             s == [n.r EXCEPT !.st = st, !.pending = cred]
  <1>3. \/ n.now /\ store' = v.store /\ Attempt(c, LoginNow(t, cred, v))
        \/ ~n.now /\ Attempt(c, s) /\ UNCHANGED store
    BY <1>2 DEF AfterPassword
  <1>4. cred \in Creds /\ cred \in Logins /\ cred # Unset /\ st \in Steps
    BY LoginAssumption DEF Logins, Steps
  <1> HIDE DEF cred
  <1>5. StoreInv(v.store) /\ Earned(store, v.store)
    <2>1. Checked(store, conn[c].ip, need, v)
      BY <1>1, <1>4, DrawsAreDrawn, CheckKeeps DEF LoginIInv
    <2> HIDE DEF v
    <2> QED
      BY <2>1 DEF Checked
  <1> HIDE DEF v
  <1>6. Like(conn[c], r) /\ r.echo = conn[c].echo /\ r.queue = conn[c].queue
    BY <1>1 DEF ConnState, Like
  <1> HIDE DEF r
  <1>7. /\ Like(r, t)
        /\ \/ n.now /\ t.queue = r.queue /\ t.echo = "no"
           \/ n.now /\ t.queue = Append(r.queue, "wont")
           \/ ~n.now /\ t.queue = r.queue /\ t.echo = "stopping"
    BY <1>6, NegotiateForm DEF Like
  <1> HIDE DEF n, m
  <1>8. r.queue \in Calls /\ Len(r.queue) \in Nat /\ Len(r.queue) + 3 <= 3 * m
    BY <1>1, <1>6 DEF ConnInv, ConnState, Queues, Calls, m
  <1>9. CASE n.now /\ store' = v.store /\ Attempt(c, LoginNow(t, cred, v))
    <2>1. Len(t.queue) \in Nat /\ Len(t.queue) + 1 <= 3 * m /\ (t.echo \in {"asked", "stopping"} => Len(t.queue) + 2 <= 3 * m)
      BY <1>1, <1>7, <1>8, <1>9 DEF Calls
    <2>2. /\ t \in ConnState /\ Placed(t) /\ t.up \in {"up", "closing"} /\ t.kind = "telnet" /\ t.succ = 0 /\ t.opens = 0
          /\ t.astray = 0 /\ t.asked = 0 /\ ~t.avatar /\ t.sess # "open" /\ t.pending = Unset
      <3>1. /\ conn[c].pending = Unset /\ conn[c].opens = 0 /\ conn[c].succ = 0 /\ Placed(conn[c])
            /\ conn[c].astray = 0 /\ conn[c].asked = 0 /\ ~conn[c].avatar
        BY <1>1 DEF ConnInv, Waits, SessionCounted, ConnState
      <3>2. conn[c].sess # "open"
        BY <1>1 DEF ConnInv, Waits, SessionCounted
      <3> QED
        BY <1>1, <1>6, <1>7, <3>1, <3>2 DEF Like, Placed
    <2> HIDE DEF t
    <2>3. ConnInv(LoginNow(t, cred, v), m)
      BY <1>1, <2>1, <2>2, LoginNowKeeps
    <2> QED
      BY <1>5, <1>9, <2>3, AttemptStep DEF m
  <1>10. CASE ~n.now /\ Attempt(c, s) /\ UNCHANGED store
    <2> HIDE DEF st
    <2>1. /\ s \in ConnState /\ s.queue = t.queue /\ s.echo = t.echo /\ s.succ = t.succ
          /\ s.opens = t.opens /\ s.sess = t.sess /\ s.pending = cred /\ s.protocol = t.protocol
          /\ s.up = t.up /\ s.kind = t.kind /\ s.ip = t.ip /\ s.timer = t.timer /\ s.st = st
          /\ s.astray = t.astray /\ s.asked = t.asked /\ s.avatar = t.avatar
      BY <1>4, <1>7 DEF Like, ConnState
    <2> HIDE DEF s, t
    <2>2. Len(s.queue) + 1 <= 3 * m /\ Len(s.queue) <= 3 * m
      BY <1>1, <1>7, <1>8, <1>10, <2>1
    <2>3. ConnInv(s, m)
      BY <1>1, <1>4, <1>6, <1>7, <1>10, <2>1, <2>2 DEF ConnInv, Queues, Placed, SessionCounted, Waits, Like, st
    <2>4. StoreInv(store') /\ Earned(store, store')
      BY <1>10, Unearned DEF LoginIInv
    <2> QED
      BY <1>10, <2>3, <2>4, AttemptStep DEF m
  <1> QED
    BY <1>3, <1>9, <1>10

\* A flagged USER variable.
LEMMA TelnetNewEnvironStep ==
    ASSUME LoginIInv, NEW c \in Conns, TelnetNewEnviron(c)
    PROVE  Step
  <1> DEFINE env == TRUE
             s == [conn[c] EXCEPT !.env = env]
  <1>1. ConnInv(conn[c], messages) /\ messages \in Nat /\ conn[c] \in ConnState
    BY DEF LoginIInv, ConnInv
  <1>2. Client(c, s) /\ store' = store
    BY DEF TelnetNewEnviron
  <1>3. Like(conn[c], s) /\ s.echo = conn[c].echo /\ s.queue = conn[c].queue
    BY <1>1 DEF ConnState, Like
  <1> HIDE DEF s
  <1>4. ConnInv(s, messages)
    BY <1>1, <1>3, LikeKeeps
  <1> QED
    BY <1>2, <1>4, ClientStep

\* The client answers: the login that waited runs, then what was chained.
LEMMA TelnetAnswerStep ==
    ASSUME LoginIInv, NEW c \in Conns, TelnetAnswer(c)
    PROVE  Step
  <1>1. /\ ConnInv(conn[c], messages) /\ messages \in Nat /\ conn[c].up \in {"up", "closing"}
        /\ conn[c].kind = "telnet" /\ conn[c].echo \in {"asked", "stopping"} /\ conn[c].ip \in IPs /\ conn[c] \in ConnState
    BY DEF LoginIInv, TelnetAnswer, Live, ConnInv, Placed
  <1>2. PICK yes \in IF conn[c].echo = "asked" THEN BOOLEAN ELSE {FALSE}, need \in Draws(conn[c].ip) :
          LET r == [conn[c] EXCEPT !.echo = IF yes THEN "yes" ELSE "no", !.pending = Unset]
              cred == conn[c].pending
              v == CheckUserPass(store, r.ip, cred, need)
          IN  IF cred = Unset
              THEN Client(c, RunQueue(r)) /\ UNCHANGED store
              ELSE Client(c, RunQueue(LoginNow(r, cred, v))) /\ store' = v.store
    BY DEF TelnetAnswer
  <1> DEFINE echo == IF yes THEN "yes" ELSE "no"
             r == [conn[c] EXCEPT !.echo = echo, !.pending = Unset]
             cred == conn[c].pending
             v == CheckUserPass(store, r.ip, cred, need)
             t == LoginNow(r, cred, v)
  <1>3. \/ cred = Unset /\ Client(c, RunQueue(r)) /\ UNCHANGED store
        \/ cred # Unset /\ Client(c, RunQueue(t)) /\ store' = v.store
    BY <1>2
  <1>4. echo \in Echoes /\ echo \notin {"asked", "stopping"} /\ Unset \in Logins /\ (conn[c].echo = "stopping" => echo = "no")
    BY <1>2 DEF Echoes, Logins
  <1> HIDE DEF echo
  <1>5. /\ r \in ConnState /\ r.queue = conn[c].queue /\ r.echo = echo /\ r.succ = conn[c].succ
        /\ r.opens = conn[c].opens /\ r.sess = conn[c].sess /\ r.pending = Unset /\ r.protocol = conn[c].protocol
        /\ r.up = conn[c].up /\ r.kind = conn[c].kind /\ r.ip = conn[c].ip /\ r.timer = conn[c].timer /\ r.st = conn[c].st
        /\ r.astray = conn[c].astray /\ r.asked = conn[c].asked /\ r.avatar = conn[c].avatar
    BY <1>1, <1>4 DEF ConnState
  <1> HIDE DEF r
  <1>6. CASE cred = Unset /\ Client(c, RunQueue(r)) /\ UNCHANGED store
    <2>1. ConnInv(r, messages)
      BY <1>1, <1>5, <1>6 DEF ConnInv, Queues, Placed, SessionCounted, Waits
    <2>2. ConnInv(RunQueue(r), messages)
      BY <1>1, <1>5, <2>1, RunQueueKeeps
    <2> QED
      BY <1>6, <2>2, ClientStep
  <1>7. CASE cred # Unset /\ Client(c, RunQueue(t)) /\ store' = v.store
    <2>1. cred \in Creds /\ r.ip \in IPs /\ need \in Draws(r.ip)
      BY <1>1, <1>5, <1>7 DEF ConnState, Logins
    <2>2. Checked(store, r.ip, need, v)
      BY <2>1, DrawsAreDrawn, CheckKeeps DEF LoginIInv
    <2>3. /\ conn[c].st = "Discard" /\ conn[c].echo = "stopping" /\ Len(conn[c].queue) + 1 <= 3 * messages
          /\ conn[c].succ = 0 /\ conn[c].opens = 0 /\ conn[c].sess # "open" /\ Placed(conn[c])
          /\ conn[c].astray = 0 /\ conn[c].asked = 0 /\ ~conn[c].avatar
      <3>1. conn[c].st = "Discard" /\ conn[c].echo = "stopping"
        BY <1>1, <1>7 DEF ConnInv, Waits
      <3>2. Len(conn[c].queue) + 1 <= 3 * messages
        BY <1>1, <3>1 DEF ConnInv, Queues
      <3>3. /\ conn[c].succ = 0 /\ conn[c].opens = 0 /\ Placed(conn[c])
            /\ conn[c].astray = 0 /\ conn[c].asked = 0 /\ ~conn[c].avatar
        BY <1>1, <3>1 DEF ConnInv, SessionCounted, ConnState
      <3> QED
        BY <3>1, <3>2, <3>3, <1>1 DEF ConnInv, SessionCounted, Waits
    <2> HIDE DEF v, cred
    <2>4. Placed(r) /\ r.echo = "no"
      BY <1>4, <1>5, <2>3 DEF Placed
    <2>5. ConnInv(t, messages)
      BY <1>1, <1>5, <2>3, <2>4, LoginNowKeeps
    <2>6. t.up = r.up
      BY <1>5, CbLoginForm, EbLoginForm DEF LoginNow
    <2> HIDE DEF t
    <2>7. ConnInv(RunQueue(t), messages)
      BY <1>1, <1>5, <2>5, <2>6, RunQueueKeeps
    <2>8. StoreInv(store') /\ Earned(store, store')
      BY <1>7, <2>2 DEF Checked
    <2> QED
      BY <1>7, <2>7, <2>8, ConnStep DEF Client, LoginIInv
  <1> QED
    BY <1>3, <1>6, <1>7

-----------------------------------------------------------------------------
\* The timeout.
LEMMA TimeoutConnectionStep ==
    ASSUME LoginIInv, NEW c \in Conns, TimeoutConnection(c)
    PROVE  Step
  <1> DEFINE off == "off"
             r == conn[c]
             s == [r EXCEPT !.timer = off]
             up == IF s.up = "up" THEN "closing" ELSE s.up
             t == [s EXCEPT !.up = up]
  <1>1. ConnInv(r, messages) /\ messages \in Nat /\ r \in ConnState /\ off \in Timers
    BY DEF LoginIInv, ConnInv, Timers
  <1>2. Client(c, t) /\ store' = store
    BY DEF TimeoutConnection, Client, LoseConnection
  <1> HIDE DEF off, r
  <1>3. /\ s \in ConnState /\ s.queue = r.queue /\ s.echo = r.echo /\ s.succ = r.succ
        /\ s.opens = r.opens /\ s.sess = r.sess /\ s.pending = r.pending /\ s.protocol = r.protocol
        /\ s.up = r.up /\ s.kind = r.kind /\ s.ip = r.ip /\ s.st = r.st
        /\ s.astray = r.astray /\ s.asked = r.asked /\ s.avatar = r.avatar
    BY <1>1 DEF ConnState
  <1> HIDE DEF s
  <1>4. up \in Ups /\ up = IF r.up = "up" THEN "closing" ELSE r.up
    BY <1>3 DEF ConnState, Ups
  <1> HIDE DEF up
  <1>5. /\ t \in ConnState /\ t.queue = s.queue /\ t.echo = s.echo /\ t.succ = s.succ
        /\ t.opens = s.opens /\ t.sess = s.sess /\ t.pending = s.pending /\ t.protocol = s.protocol
        /\ t.up = up /\ t.kind = s.kind /\ t.ip = s.ip /\ t.st = s.st
        /\ t.astray = s.astray /\ t.asked = s.asked /\ t.avatar = s.avatar
    BY <1>3, <1>4 DEF ConnState
  <1> HIDE DEF t
  <1>6. ConnInv(t, messages)
    BY <1>1, <1>3, <1>4, <1>5 DEF ConnInv, Queues, Placed, SessionCounted, Waits
  <1> QED
    BY <1>2, <1>6, ClientStep

\* What is left of a connection that is lost.
LEMMA GoneKeeps ==
    ASSUME NEW r \in ConnState, NEW m \in Nat, r.succ = r.opens, r.opens <= 1,
           NEW sess \in Sessions, sess # "open"
    PROVE  ConnInv(Gone(r, sess), m)
  <1> DEFINE up == "lost"
             t == [Idle EXCEPT !.up = up, !.kind = r.kind, !.timer = r.timer, !.succ = r.succ, !.opens = r.opens,
                               !.sess = sess]
  <1>1. /\ up \in Ups /\ r.kind \in Kinds /\ r.timer \in Timers /\ r.succ \in Nat /\ r.opens \in Nat
        /\ Gone(r, sess) = t
    BY DEF ConnState, Ups, Gone
  <1> HIDE DEF up
  <1>2. /\ t \in ConnState /\ t.queue = Idle.queue /\ t.echo = Idle.echo /\ t.succ = r.succ
        /\ t.opens = r.opens /\ t.sess = sess /\ t.pending = Idle.pending /\ t.protocol = Idle.protocol
        /\ t.up = up /\ t.kind = r.kind /\ t.st = Idle.st /\ t.timer = r.timer
        /\ t.astray = Idle.astray /\ t.asked = Idle.asked /\ t.avatar = Idle.avatar
    BY <1>1, IdleForm DEF ConnState
  <1> HIDE DEF t
  <1>3. ConnInv(t, m)
    BY <1>2, IdleForm DEF ConnInv, Queues, Placed, SessionCounted, Waits, up
  <1> QED
    BY <1>1, <1>3

\* connectionLost of both transports; a Telnet login that waits runs then.
LEMMA LostStep ==
    ASSUME LoginIInv, NEW c \in Conns, conn[c].up \in {"up", "closing"},
           SshConnectionLost(c) \/ TelnetConnectionLost(c), UNCHANGED <<authclass, messages, restarts>>
    PROVE  Step
  <1>1. /\ ConnInv(conn[c], messages) /\ messages \in Nat /\ conn[c].ip \in IPs /\ conn[c] \in ConnState
        /\ messages <= Messages /\ messages' = messages /\ StoreInv(store)
    BY DEF LoginIInv, ConnInv, Placed
  <1>2. conn[c].kind = "telnet" => conn[c].succ = conn[c].opens /\ conn[c].opens <= 1
    BY <1>1 DEF ConnInv, SessionCounted
  <1> DEFINE off == "off"
             lost == "lost"
  <1>3. off \in Timers /\ lost \in Ups /\ "closed" \in Sessions /\ Unset \in Logins
    BY DEF Timers, Ups, Sessions, Logins
  <1>4. CASE SshConnectionLost(c)
    <2> DEFINE sess == IF conn[c].sess = "none" THEN Idle.sess ELSE "closed"
               s == [Idle EXCEPT !.up = lost, !.sess = sess]
    <2>1. conn' = [conn EXCEPT ![c] = s] /\ store' = store
      BY <1>4 DEF SshConnectionLost
    <2>2. sess \in Sessions /\ sess # "open"
      BY IdleForm DEF Sessions
    <2> HIDE DEF sess, lost
    <2>3. /\ s \in ConnState /\ s.queue = Idle.queue /\ s.echo = Idle.echo /\ s.succ = Idle.succ
          /\ s.opens = Idle.opens /\ s.sess = sess /\ s.pending = Idle.pending /\ s.protocol = Idle.protocol
          /\ s.up = lost /\ s.kind = Idle.kind /\ s.st = Idle.st
          /\ s.astray = Idle.astray /\ s.asked = Idle.asked /\ s.avatar = Idle.avatar
      BY <1>3, <2>2, IdleForm DEF ConnState
    <2> HIDE DEF s
    <2>4. ConnInv(s, messages)
      BY <1>1, <2>2, <2>3, IdleForm DEF ConnInv, Queues, Placed, SessionCounted, Waits, lost
    <2> QED
      BY <1>1, <2>1, <2>4, ClientStep DEF Client
  <1>5. CASE TelnetConnectionLost(c)
    <2>1. PICK need \in Draws(conn[c].ip) :
          LET cred == conn[c].pending
              r == [conn[c] EXCEPT !.up = "lost", !.timer = "off", !.pending = Unset]
              v == CheckUserPass(store, r.ip, cred, need)
              s == IF cred = Unset THEN r ELSE LoginNow(r, cred, v)
          IN  /\ store' = IF cred = Unset THEN store ELSE v.store
              /\ conn' = [conn EXCEPT ![c] = Gone(s, IF s.protocol = "session" THEN "closed" ELSE s.sess)]
      BY <1>5 DEF TelnetConnectionLost
    <2> DEFINE cred == conn[c].pending
               r == [conn[c] EXCEPT !.up = lost, !.timer = off, !.pending = Unset]
               v == CheckUserPass(store, r.ip, cred, need)
               s == IF cred = Unset THEN r ELSE LoginNow(r, cred, v)
               sess == IF s.protocol = "session" THEN "closed" ELSE s.sess
    <2>2. store' = (IF cred = Unset THEN store ELSE v.store) /\ conn' = [conn EXCEPT ![c] = Gone(s, sess)]
      BY <2>1
    <2> HIDE DEF lost, off
    <2>3. /\ r \in ConnState /\ r.succ = conn[c].succ /\ r.opens = conn[c].opens /\ r.ip = conn[c].ip
          /\ r.kind = conn[c].kind /\ r.sess = conn[c].sess /\ r.protocol = conn[c].protocol
      BY <1>1, <1>3 DEF ConnState
    <2> HIDE DEF r
    <2>4. StoreInv(store') /\ Earned(store, store')
      <3>1. CASE cred = Unset
        BY <1>1, <2>2, <3>1, Unearned
      <3>2. CASE cred # Unset
        <4>1. cred \in Creds
          BY <1>1, <3>2 DEF ConnState, Logins
        <4>2. Checked(store, r.ip, need, v)
          BY <1>1, <2>3, <4>1, DrawsAreDrawn, CheckKeeps DEF LoginIInv
        <4> QED
          BY <2>2, <3>2, <4>2 DEF Checked
      <3> QED
        BY <3>1, <3>2
    <2> HIDE DEF v
    <2>5. /\ s \in ConnState /\ s.succ = s.opens /\ s.opens <= 1
          /\ s.protocol = "session" \/ s.sess # "open"
      <3>0. /\ conn[c].kind = "telnet" /\ (conn[c].sess = "open" => conn[c].protocol = "session")
            /\ (cred # Unset => conn[c].opens = 0)
        BY <1>1, <1>5 DEF TelnetConnectionLost, ConnInv, SessionCounted, Waits
      <3>1. CASE cred = Unset
        BY <1>2, <2>3, <3>0, <3>1
      <3>2. CASE cred # Unset /\ v.auth /\ Avatar(cred)
        <4>1. s = CbLogin(r)
          BY <3>2 DEF LoginNow
        <4> HIDE DEF s
        <4>2. s \in ConnState /\ s.protocol = "session" /\ s.succ = r.succ + 1 /\ s.opens = r.opens + 1
          BY <2>3, <4>1, CbLoginForm
        <4> QED
          BY <1>2, <2>3, <3>0, <3>2, <4>2
      <3>3. CASE cred # Unset /\ ~(v.auth /\ Avatar(cred))
        <4>1. s = EbLogin(r)
          BY <3>3 DEF LoginNow
        <4> HIDE DEF s
        <4>2. s \in ConnState /\ s.protocol = r.protocol /\ s.sess = r.sess /\ s.succ = r.succ /\ s.opens = r.opens
          BY <2>3, <4>1, EbLoginForm
        <4> QED
          BY <1>2, <2>3, <3>0, <3>3, <4>2
      <3> QED
        BY <3>1, <3>2, <3>3
    <2> HIDE DEF s
    <2>6. sess \in Sessions /\ sess # "open"
      BY <2>5 DEF ConnState, Sessions
    <2> HIDE DEF sess
    <2>7. ConnInv(Gone(s, sess), messages)
      BY <1>1, <2>5, <2>6, GoneKeeps
    <2> QED
      BY <1>1, <2>2, <2>4, <2>7, ConnStep
  <1> QED
    BY <1>4, <1>5

\* The store of a first start.
LEMMA EmptyStoreInv == StoreInv(EmptyStore)
  <1>1. <<>> \in Seq(Creds) /\ Len(<<>>) = 0 /\ DOMAIN <<>> = {}
    OBVIOUS
  <1> DEFINE none == {}
  <1>2. IsFiniteSet({}) /\ Cardinality({}) = 0
    BY FS_EmptySet
  <1> DEFINE s == EmptyStore
  <1>3. /\ s.cache = <<>> /\ s.info = [ip \in IPs |-> NewAddress] /\ s.refused = [ip \in IPs |-> {}]
        /\ s = [cache |-> s.cache, info |-> s.info, refused |-> s.refused]
    BY DEF EmptyStore
  <1>4. /\ NewAddress \in Address /\ NewAddress.try = 0 /\ NewAddress.max = Unset /\ NewAddress.tried = {}
    BY DEF NewAddress, Address
  <1> HIDE DEF s
  <1>5. s \in [cache : Seq(Creds), info : [IPs -> Address], refused : [IPs -> SUBSET Creds]]
    <2>1. s.cache \in Seq(Creds) /\ s.info \in [IPs -> Address] /\ s.refused \in [IPs -> SUBSET Creds]
      BY <1>1, <1>3, <1>4
    <2> QED
      BY <1>3, <2>1
  <1>6. Len(s.cache) <= MaxCache /\ IsInjective(s.cache)
    BY <1>1, <1>3, LoginAssumption DEF IsInjective
  <1>7. \A ip \in IPs : AddressInv(s, ip)
    BY <1>2, <1>3, <1>4 DEF AddressInv
  <1>8. StoreInv(s)
    BY <1>5, <1>6, <1>7 DEF StoreInv
  <1> QED
    BY <1>8 DEF s

\* A crash, which may take the store with it.
LEMMA RestartStep ==
    ASSUME LoginIInv, Restart
    PROVE  Step
  <1> DEFINE up == "lost"
             t == [Idle EXCEPT !.up = up]
  <1>1. /\ messages' = messages /\ authclass' = authclass /\ restarts' = restarts + 1 /\ store' \in {store, EmptyStore}
        /\ conn' = [c \in Conns |-> IF conn[c].up = "new" THEN conn[c] ELSE t]
    BY DEF Restart
  <1>2. messages \in Nat /\ \A c \in Conns : ConnInv(conn[c], messages)
    BY DEF LoginIInv
  <1>3. ConnInv(t, messages)
    <2>1. up \in Ups
      BY DEF Ups
    <2> HIDE DEF up
    <2>3. /\ t \in ConnState /\ t.queue = Idle.queue /\ t.echo = Idle.echo /\ t.succ = Idle.succ
          /\ t.opens = Idle.opens /\ t.sess = Idle.sess /\ t.pending = Idle.pending /\ t.protocol = Idle.protocol
          /\ t.up = up /\ t.kind = Idle.kind /\ t.st = Idle.st
          /\ t.astray = Idle.astray /\ t.asked = Idle.asked /\ t.avatar = Idle.avatar
      BY <2>1, IdleForm DEF ConnState
    <2> HIDE DEF t
    <2> QED
      BY <1>2, <2>3, IdleForm DEF ConnInv, Queues, Placed, SessionCounted, Waits, up
  <1> HIDE DEF t
  <1>4. DOMAIN conn' = Conns /\ \A c \in Conns : ConnInv(conn'[c], messages')
    BY <1>1, <1>2, <1>3
  <1>5. StoreInv(store')
    BY <1>1, EmptyStoreInv DEF LoginIInv
  <1>6. Earned(store, store')
    <2>1. \A ip \in IPs : EmptyStore.info[ip].user = Unset
      BY DEF EmptyStore, NewAddress
    <2> QED
      BY <1>1, <2>1, Unearned DEF Earned
  <1> QED
    BY <1>1, <1>4, <1>5, <1>6 DEF LoginIInv, Step

\* The process starts in the invariant,
LEMMA LoginInitially ==
    ASSUME LoginInit
    PROVE  LoginIInv
  <1>1. /\ authclass \in {"UserDB", "AuthRandom"} /\ store = EmptyStore /\ conn = [c \in Conns |-> Idle]
        /\ messages = 0 /\ restarts = 0
    BY DEF LoginInit
  <1>2. ConnInv(Idle, 0) /\ StoreInv(EmptyStore) /\ 0 <= Messages
    BY IdleInv, EmptyStoreInv, LoginAssumption
  <1> QED
    BY <1>1, <1>2 DEF LoginIInv

\* and every step keeps it,
LEMMA LoginStep ==
    ASSUME LoginIInv, LoginNext
    PROVE  Step
  <1>1. ASSUME NEW c \in Conns,
               \/ Connect(c) \/ SshVersion(c) \/ ServiceRequest(c) \/ AuthNone(c) \/ AuthPublicKey(c) \/ AuthPassword(c)
               \/ AuthKeyboardInteractive(c) \/ InfoResponse(c) \/ PasswordDelay(c)
               \/ TelnetUser(c) \/ TelnetPassword(c) \/ TelnetNewEnviron(c) \/ TelnetAnswer(c)
               \/ TimeoutConnection(c) \/ ConnectionLost(c) \/ ClientDrops(c)
        PROVE  Step
    <2>1. CASE Connect(c) \/ SshVersion(c) \/ ServiceRequest(c) \/ AuthNone(c) \/ AuthPublicKey(c) \/ AuthPassword(c)
      BY <2>1, ConnectStep, SshVersionStep, ServiceRequestStep, AuthNoneStep, AuthPublicKeyStep, AuthPasswordStep
    <2>2. CASE AuthKeyboardInteractive(c) \/ InfoResponse(c) \/ PasswordDelay(c)
      BY <2>2, AuthKeyboardInteractiveStep, InfoResponseStep, PasswordDelayStep
    <2>3. CASE TelnetUser(c) \/ TelnetPassword(c) \/ TelnetNewEnviron(c) \/ TelnetAnswer(c)
      BY <2>3, TelnetUserStep, TelnetPasswordStep, TelnetNewEnvironStep, TelnetAnswerStep
    <2>4. CASE TimeoutConnection(c)
      BY <2>4, TimeoutConnectionStep
    <2>5. CASE ConnectionLost(c) \/ ClientDrops(c)
      BY <2>5, LostStep DEF ConnectionLost, ClientDrops
    <2> QED
      BY <1>1, <2>1, <2>2, <2>3, <2>4, <2>5
  <1>2. CASE Restart
    BY <1>2, RestartStep
  <1> QED
    BY <1>1, <1>2 DEF LoginNext

\* stuttering or not.
LEMMA LoginStepOrStutter ==
    ASSUME LoginIInv, [LoginNext]_loginVars
    PROVE  Step
  <1>1. CASE LoginNext
    BY <1>1, LoginStep
  <1>2. CASE UNCHANGED loginVars
    BY <1>2, Unearned DEF loginVars, LoginIInv, Step
  <1> QED
    BY <1>1, <1>2

\* So it always holds.
LEMMA LoginIsInductive == LoginSpec => []LoginIInv
  <1>1. LoginInit => LoginIInv
    BY LoginInitially
  <1>2. LoginIInv /\ [LoginNext]_loginVars => LoginIInv'
    BY LoginStepOrStutter DEF Step
  <1> QED
    BY <1>1, <1>2, PTL DEF LoginSpec

\* Attempts are counted once, the cache of AuthRandom is a set of bounded size, the
\* sessions of a connection balance with its success events and the services it asked
\* for, and none outlives it: for any number of connections, addresses, combinations, attempts and restarts (LoginInv).
THEOREM BooksOfTheLogin == LoginSpec => []LoginInv
  <1>1. LoginIInv => LoginInv
    <2> SUFFICES ASSUME LoginIInv PROVE LoginInv
      OBVIOUS
    <2>1. /\ store \in [cache : Seq(Creds), info : [IPs -> Address], refused : [IPs -> SUBSET Creds]]
          /\ Len(store.cache) <= MaxCache /\ IsInjective(store.cache) /\ authclass \in {"UserDB", "AuthRandom"}
          /\ \A ip \in IPs : AddressInv(store, ip)
          /\ \A c \in Conns : ConnInv(conn[c], messages)
          /\ messages \in Nat /\ messages <= Messages
      BY DEF LoginIInv, StoreInv
    <2>2. CountsAreDistinct /\ CacheIsASet
      BY <2>1 DEF AddressInv, CountsAreDistinct, CacheIsASet
    <2>3. EventsMatchSessions /\ SessionsEnd
      BY <2>1 DEF ConnInv, SessionCounted, EventsMatchSessions, SessionsEnd
    <2>4. \A c \in Conns :
              /\ conn[c].up \in Ups /\ conn[c].st \in Steps /\ conn[c].timer \in Timers
              /\ conn[c].delayed \in Nat /\ conn[c].tries \in Nat
      BY <2>1 DEF ConnInv, ConnState
    <2>5. \A c \in Conns : Len(conn[c].queue) <= 3 * Messages
      <3> SUFFICES ASSUME NEW c \in Conns PROVE Len(conn[c].queue) <= 3 * Messages
        OBVIOUS
      <3>1. Len(conn[c].queue) \in Nat /\ Len(conn[c].queue) <= 3 * messages
        BY <2>1 DEF ConnInv, Queues, ConnState, Calls
      <3> QED
        BY <2>1, <3>1, LoginAssumption
    <2>6. /\ store.cache \in Seq(Creds) /\ DOMAIN store.info = IPs
          /\ \A ip \in IPs : /\ store.info[ip].max \in (1..MaxTry) \union {Unset}
                             /\ store.info[ip].user \in Creds \union {Unset}
      BY <2>1 DEF Address
    <2>7. LoginTypeOK
      BY <2>1, <2>4, <2>5, <2>6 DEF LoginTypeOK, Ups, Steps, Timers
    <2> QED
      BY <2>2, <2>3, <2>7 DEF LoginInv
  <1> QED
    BY <1>1, LoginIsInductive, PTL

\* Whatever a client answers or leaves unanswered, its dialogue has a next step, and
\* a connection that is up a timeout (NobodyStranded).
THEOREM NobodyIsStranded == LoginSpec => []NobodyStranded
  <1>1. LoginIInv => NobodyStranded
    BY DEF LoginIInv, ConnInv, Placed, Waits, NobodyStranded, NoLimbo, NeverUntimed, Live
  <1> QED
    BY <1>1, LoginIsInductive, PTL

\* AuthRandom lets an address in for the first time with a combination that is in its
\* cache, or after it refused MinTry - 1 different ones (FirstSuccessIsEarned).
THEOREM SuccessIsEarned == LoginSpec => FirstSuccessIsEarned
  <1>1. LoginIInv /\ [LoginNext]_loginVars =>
           [\A ip \in IPs : store.info[ip].user = Unset /\ store'.info[ip].user # Unset =>
               \/ store'.info[ip].user \in Range(store.cache)
               \/ Cardinality(store'.refused[ip]) >= MinTry - 1]_loginVars
    BY LoginStepOrStutter DEF Step, Earned
  <1> QED
    BY <1>1, LoginIsInductive, PTL DEF LoginSpec, FirstSuccessIsEarned
=============================================================================
