--------------------------- MODULE PipelineProofs ---------------------------
(***************************************************************************)
(* The way of an event. The ingest path is safe for every set of chunks    *)
(* and connections, every frame, every number of attempts and of faults;   *)
(* and what the pipeline extracts from a session it has read back is       *)
(* complete, for every set of hosts and payloads, whatever the payloads    *)
(* name and however they are cut short on disk, and for a session of any   *)
(* length.                                                                 *)
(***************************************************************************)
EXTENDS Delivery, Extract, WellFoundedInduction, TLAPS

-----------------------------------------------------------------------------
(***************************************************************************)
(* The ingest path.                                                        *)
(***************************************************************************)
\* DocCount of a record is a natural number, and Owed has one entry per record
\* of the frame.
LEMMA OwedType ==
    ASSUME NEW c \in Chunks
    PROVE  /\ DOMAIN Owed[c] = DOMAIN Frame[c]
           /\ DOMAIN Frame[c] = 1 .. Len(Frame[c])
           /\ Len(Frame[c]) \in Nat
           /\ \A i \in DOMAIN Frame[c] : Owed[c][i] \in Nat
  <1>1. Frame[c] \in Seq(Record)
    BY DeliveryAssumption
  <1>2. ASSUME NEW r \in Record PROVE DocCount(r) \in Nat
    BY DEF DocCount, Record
  <1>3. Owed[c] = [i \in DOMAIN Frame[c] |-> DocCount(Frame[c][i])]
    BY DEF Owed
  <1>4. \A i \in DOMAIN Frame[c] : Frame[c][i] \in Record
    BY <1>1
  <1>5. \A i \in DOMAIN Frame[c] : Owed[c][i] \in Nat
    BY <1>2, <1>3, <1>4
  <1>6. DOMAIN Owed[c] = DOMAIN Frame[c]
    BY <1>3
  <1>7. DOMAIN Frame[c] = 1 .. Len(Frame[c]) /\ Len(Frame[c]) \in Nat
    BY <1>1
  <1> QED
    BY <1>5, <1>6, <1>7

\* The state of a handler that is not working is a handler state.
LEMMA IdleType == IdleHandler \in HandlerState
  BY DeliveryAssumption DEF IdleHandler, HandlerState

\* The updates a handler makes to its state keep it a handler state, on the
\* same chunk.
LEMMA HandlerUpdates ==
    ASSUME NEW h \in HandlerState
    PROVE  /\ [h EXCEPT !.rec = @ + 1] \in HandlerState
           /\ [h EXCEPT !.rec = @ + 1].chunk = h.chunk
           /\ [h EXCEPT !.doc = @ + 1, !.attempt = 0] \in HandlerState
           /\ [h EXCEPT !.doc = @ + 1, !.attempt = 0].chunk = h.chunk
           /\ [h EXCEPT !.rec = @ + 1, !.doc = 1, !.attempt = 0] \in HandlerState
           /\ [h EXCEPT !.rec = @ + 1, !.doc = 1, !.attempt = 0].chunk = h.chunk
           /\ [h EXCEPT !.pc = "acked"] \in HandlerState
           /\ [h EXCEPT !.pc = "acked"].chunk = h.chunk
           /\ h.attempt + 1 < MaxAttempts =>
                /\ [h EXCEPT !.attempt = @ + 1] \in HandlerState
                /\ [h EXCEPT !.attempt = @ + 1].chunk = h.chunk
  <1>1. /\ h.rec \in Nat \ {0} /\ h.doc \in Nat \ {0}
        /\ h.attempt \in 0 .. MaxAttempts - 1
        /\ h.rec + 1 \in Nat \ {0} /\ h.doc + 1 \in Nat \ {0}
        /\ 0 \in 0 .. MaxAttempts - 1
        /\ 1 \in Nat \ {0}
        /\ h.attempt + 1 < MaxAttempts => h.attempt + 1 \in 0 .. MaxAttempts - 1
    BY DeliveryAssumption DEF HandlerState
  <1> HIDE DEF HandlerState
  <1>2. [h EXCEPT !.rec = @ + 1] \in HandlerState /\ [h EXCEPT !.rec = @ + 1].chunk = h.chunk
    BY <1>1 DEF HandlerState
  <1>3. [h EXCEPT !.doc = @ + 1, !.attempt = 0] \in HandlerState /\ [h EXCEPT !.doc = @ + 1, !.attempt = 0].chunk = h.chunk
    BY <1>1 DEF HandlerState
  <1>4. [h EXCEPT !.rec = @ + 1, !.doc = 1, !.attempt = 0] \in HandlerState /\ [h EXCEPT !.rec = @ + 1, !.doc = 1, !.attempt = 0].chunk = h.chunk
    BY <1>1 DEF HandlerState
  <1>5. [h EXCEPT !.pc = "acked"] \in HandlerState /\ [h EXCEPT !.pc = "acked"].chunk = h.chunk
    BY DEF HandlerState
  <1>6. ASSUME h.attempt + 1 < MaxAttempts
        PROVE [h EXCEPT !.attempt = @ + 1] \in HandlerState /\ [h EXCEPT !.attempt = @ + 1].chunk = h.chunk
    BY <1>1, <1>6 DEF HandlerState
  <1> QED
    BY <1>2, <1>3, <1>4, <1>5, <1>6

\* The length of the bootstrap sequence.
LEMMA BootLen == Len(BootstrapPuts) = 5
  BY DEF BootstrapPuts

\* The types are preserved by every step.
LEMMA TypeStep == TypeOK /\ [Next]_vars => TypeOK'
  <1> SUFFICES ASSUME TypeOK, [Next]_vars PROVE TypeOK'
    OBVIOUS
  <1> USE DeliveryAssumption, IdleType
  <1>1. CASE BootPut
    BY <1>1, BootLen DEF TypeOK, BootPut, Listening
  <1>2. CASE Crash
    <2>1. handler' \in [Conns -> HandlerState]
      BY <1>2 DEF Crash
    <2>2. \A t \in Conns : handler'[t].pc # "idle" => handler'[t].chunk \in Chunks
      BY <1>2 DEF Crash, IdleHandler
    <2> QED
      BY <1>2, <2>1, <2>2, BootLen DEF TypeOK, Crash, Fault, esVars
  <1>3. ASSUME NEW c \in Chunks, NEW t \in Conns, Flush(c, t) PROVE TypeOK'
    <2>1. [IdleHandler EXCEPT !.pc = "handling", !.chunk = c] \in HandlerState
      BY DEF IdleHandler, HandlerState
    <2>2. handler' \in [Conns -> HandlerState]
      BY <1>3, <2>1 DEF Flush, TypeOK
    <2>3. \A u \in Conns : handler'[u].pc # "idle" => handler'[u].chunk \in Chunks
      BY <1>3 DEF Flush, TypeOK, IdleHandler
    <2> QED
      BY <1>3, <2>2, <2>3 DEF TypeOK, Flush, esVars
  <1>4. ASSUME NEW c \in Chunks, ReceiveAck(c) PROVE TypeOK'
    <2>1. handler' \in [Conns -> HandlerState]
      BY <1>4 DEF ReceiveAck, TypeOK
    <2>2. \A u \in Conns : handler'[u].pc # "idle" => handler'[u].chunk \in Chunks
      BY <1>4 DEF ReceiveAck, TypeOK, IdleHandler
    <2> QED
      BY <1>4, <2>1, <2>2 DEF TypeOK, ReceiveAck, esVars
  <1>5. ASSUME NEW c \in Chunks, ConnectionLost(c) PROVE TypeOK'
    BY <1>5 DEF TypeOK, ConnectionLost, esVars
  <1>6. ASSUME NEW c \in Chunks, AckTimeout(c) PROVE TypeOK'
    <2>1. handler' \in [Conns -> HandlerState]
      BY <1>6 DEF AckTimeout, TypeOK
    <2>2. \A u \in Conns : handler'[u].pc # "idle" => handler'[u].chunk \in Chunks
      BY <1>6 DEF AckTimeout, TypeOK, IdleHandler
    <2> QED
      BY <1>6, <2>1, <2>2 DEF TypeOK, AckTimeout, Fault, esVars
  <1>7. ASSUME NEW t \in Conns, HandlerStep(t) \/ EsFault(t) PROVE TypeOK'
    <2>1. /\ UNCHANGED <<buffer, waiting, boot, templates>>
          /\ faults' \in 0 .. MaxFaults
          /\ handler[t].pc = "handling"
          /\ handler[t] \in HandlerState
          /\ handler[t].chunk \in Chunks
      BY <1>7 DEF HandlerStep, EsFault, SkipRecord, PostOk, PostUnavailable,
                  PostUnanswered, PostRejected, SendAck, Posting, AtRecord, Handling,
                  Create, Fault, TypeOK, esVars
    <2>2. /\ Doc(t) \in Chunks \X Nat \X Nat
          /\ \/ UNCHANGED <<stored, copied>>
             \/ /\ stored' = stored \cup {Doc(t)}
                /\ copied' = copied \cup (stored \cap {Doc(t)})
      <3>1. Doc(t) \in Chunks \X Nat \X Nat
        BY <2>1 DEF Doc, HandlerState
      <3> QED
        BY <1>7, <3>1 DEF HandlerStep, EsFault, SkipRecord, PostOk, PostUnavailable,
                    PostUnanswered, PostRejected, SendAck, Create, esVars
    <2>3. PICK h : /\ handler' = [handler EXCEPT ![t] = h]
                   /\ h \in HandlerState
                   /\ h.pc # "idle" => h.chunk \in Chunks
      <3>1. CASE SkipRecord(t)
        <4> DEFINE h1 == [handler[t] EXCEPT !.rec = @ + 1]
        <4>1. handler' = [handler EXCEPT ![t] = h1]
          BY <3>1 DEF SkipRecord
        <4>2. h1 \in HandlerState /\ h1.chunk \in Chunks
          BY <2>1, HandlerUpdates
        <4> QED
          BY <4>1, <4>2
      <3>2. CASE PostOk(t)
        <4> DEFINE h1 == [handler[t] EXCEPT !.doc = @ + 1, !.attempt = 0]
                   h2 == [handler[t] EXCEPT !.rec = @ + 1, !.doc = 1, !.attempt = 0]
        <4>1. \/ handler' = [handler EXCEPT ![t] = h1]
              \/ handler' = [handler EXCEPT ![t] = h2]
          BY <3>2 DEF PostOk, PastDoc
        <4>2. /\ h1 \in HandlerState /\ h1.chunk \in Chunks
              /\ h2 \in HandlerState /\ h2.chunk \in Chunks
          BY <2>1, HandlerUpdates
        <4> QED
          BY <4>1, <4>2
      <3>3. CASE SendAck(t)
        <4> DEFINE h1 == [handler[t] EXCEPT !.pc = "acked"]
        <4>1. \/ handler' = [handler EXCEPT ![t] = h1]
              \/ handler' = [handler EXCEPT ![t] = IdleHandler]
          BY <3>3 DEF SendAck
        <4>2. h1 \in HandlerState /\ h1.chunk \in Chunks
          BY <2>1, HandlerUpdates
        <4>3. IdleHandler.pc = "idle"
          BY DEF IdleHandler
        <4> QED
          BY <4>1, <4>2, <4>3
      <3>4. CASE PostUnavailable(t) /\ handler[t].attempt + 1 < MaxAttempts
        <4> DEFINE h1 == [handler[t] EXCEPT !.attempt = @ + 1]
        <4>1. handler' = [handler EXCEPT ![t] = h1]
          BY <3>4 DEF PostUnavailable
        <4>2. h1 \in HandlerState /\ h1.chunk \in Chunks
          BY <2>1, <3>4, HandlerUpdates
        <4> QED
          BY <4>1, <4>2
      <3>5. CASE Raise(t)
        <4>1. IdleHandler.pc = "idle"
          BY DEF IdleHandler
        <4> QED
          BY <3>5, <4>1 DEF Raise
      <3> QED
        BY <1>7, <3>1, <3>2, <3>3, <3>4, <3>5
           DEF HandlerStep, EsFault, PostRejected, PostUnanswered, PostUnavailable
    <2>4. handler' \in [Conns -> HandlerState]
      BY <2>3 DEF TypeOK
    <2>5. \A u \in Conns : handler'[u].pc # "idle" => handler'[u].chunk \in Chunks
      BY <2>3 DEF TypeOK
    <2> QED
      BY <2>1, <2>2, <2>4, <2>5 DEF TypeOK
  <1>8. CASE UNCHANGED vars
    BY <1>8 DEF vars, TypeOK
  <1> QED
    BY <1>1, <1>2, <1>3, <1>4, <1>5, <1>6, <1>7, <1>8 DEF Next, FluentdStep

\* Type correctness of the ingest path, with the link between a working
\* handler and its chunk.
THEOREM TypeCorrect == Spec => []TypeOK
  <1>1. Init => TypeOK
    BY DeliveryAssumption, IdleType, BootLen DEF Init, TypeOK, IdleHandler
  <1> QED
    BY <1>1, TypeStep, PTL DEF Spec

-----------------------------------------------------------------------------
\* No step removes a document from Elasticsearch.
LEMMA StoredGrows == [Next]_vars => stored \subseteq stored'
  BY DEF Next, FluentdStep, HandlerStep, EsFault, BootPut, Crash, Flush, ReceiveAck,
         ConnectionLost, AckTimeout, SkipRecord, PostOk, PostUnavailable,
         PostUnanswered, PostRejected, SendAck, Create, esVars, vars

\* What HandlerProgress says of one handler state, over a set S of documents.
Progress(h, S) ==
    h.pc # "idle" =>
        /\ \A k \in DOMAIN Owed[h.chunk] : \A m \in 1 .. Owed[h.chunk][k] :
              (k < h.rec \/ (k = h.rec /\ m < h.doc)) => <<h.chunk, k, m>> \in S
        /\ (h.pc = "handling" /\ h.rec \in DOMAIN Frame[h.chunk])
              => h.doc = 1 \/ h.doc <= Owed[h.chunk][h.rec]
        /\ h.pc = "acked" => h.rec \notin DOMAIN Frame[h.chunk]

\* HandlerProgress, one handler at a time.
LEMMA ProgressPerHandler ==
    /\ HandlerProgress <=> \A t \in Conns : Progress(handler[t], stored)
    /\ HandlerProgress' <=> \A t \in Conns : Progress(handler'[t], stored')
  BY DEF HandlerProgress, Progress, Promise!StoredUpTo, AtRecord, Handling, Docs

\* A handler that keeps its state keeps its progress when documents are added.
LEMMA ProgressGrows ==
    ASSUME NEW h, NEW S, NEW R, S \subseteq R, Progress(h, S)
    PROVE  Progress(h, R)
  BY DEF Progress

\* A handler past its last record has everything its chunk is owed.
LEMMA PastLastRecord ==
    ASSUME NEW h \in HandlerState, NEW S, h.pc # "idle", h.chunk \in Chunks,
           Progress(h, S), h.rec \notin DOMAIN Frame[h.chunk]
    PROVE  \A k \in DOMAIN Owed[h.chunk] : \A m \in 1 .. Owed[h.chunk][k] :
              <<h.chunk, k, m>> \in S
  <1>1. /\ DOMAIN Owed[h.chunk] = 1 .. Len(Frame[h.chunk])
        /\ DOMAIN Frame[h.chunk] = 1 .. Len(Frame[h.chunk])
        /\ Len(Frame[h.chunk]) \in Nat
    BY OwedType
  <1>2. h.rec \in Nat \ {0}
    BY DEF HandlerState
  <1>3. \A k \in DOMAIN Owed[h.chunk] : k < h.rec
    BY <1>1, <1>2
  <1> QED
    BY <1>3 DEF Progress

\* A handler that has just written its document is at the next one with
\* everything before it written.
LEMMA PastDocProgress ==
    ASSUME NEW h \in HandlerState, NEW S, h.pc = "handling", h.chunk \in Chunks,
           Progress(h, S), h.rec \in DOMAIN Frame[h.chunk],
           Owed[h.chunk][h.rec] # 0,
           <<h.chunk, h.rec, h.doc>> \in S
    PROVE  Progress(PastDoc(h, Owed[h.chunk][h.rec]), S)
  <1> DEFINE c == h.chunk
             n == Owed[h.chunk][h.rec]
  <1>1. /\ DOMAIN Owed[c] = 1 .. Len(Frame[c])
        /\ DOMAIN Frame[c] = 1 .. Len(Frame[c])
        /\ Len(Frame[c]) \in Nat
        /\ \A k \in DOMAIN Owed[c] : Owed[c][k] \in Nat
    BY OwedType
  <1>2. h.rec \in Nat \ {0} /\ h.doc \in Nat \ {0} /\ n \in Nat /\ h.doc <= n
    BY <1>1 DEF HandlerState, Progress
  <1>3. \A k \in DOMAIN Owed[c] : \A m \in 1 .. Owed[c][k] :
          (k < h.rec \/ (k = h.rec /\ m <= h.doc)) => <<c, k, m>> \in S
    BY <1>1, <1>2 DEF Progress
  <1>4. CASE h.doc < n
    <2> DEFINE g == [h EXCEPT !.doc = @ + 1, !.attempt = 0]
    <2>1. PastDoc(h, n) = g
      BY <1>4 DEF PastDoc
    <2>2. g.pc = "handling" /\ g.chunk = c /\ g.rec = h.rec /\ g.doc = h.doc + 1
      BY DEF HandlerState
    <2>3. \A k \in DOMAIN Owed[c] : \A m \in 1 .. Owed[c][k] :
            (k < h.rec \/ (k = h.rec /\ m < h.doc + 1)) => <<c, k, m>> \in S
      BY <1>1, <1>2, <1>3
    <2> HIDE DEF g
    <2>4. Progress(g, S)
      BY <1>2, <1>4, <2>2, <2>3 DEF Progress
    <2> QED
      BY <2>1, <2>4
  <1>5. CASE ~(h.doc < n)
    <2> DEFINE g == [h EXCEPT !.rec = @ + 1, !.doc = 1, !.attempt = 0]
    <2>1. PastDoc(h, n) = g
      BY <1>5 DEF PastDoc
    <2>2. g.pc = "handling" /\ g.chunk = c /\ g.rec = h.rec + 1 /\ g.doc = 1
      BY DEF HandlerState
    <2>3. \A k \in DOMAIN Owed[c] : \A m \in 1 .. Owed[c][k] :
            (k < h.rec + 1 \/ (k = h.rec + 1 /\ m < 1)) => <<c, k, m>> \in S
      <3> SUFFICES ASSUME NEW k \in DOMAIN Owed[c], NEW m \in 1 .. Owed[c][k],
                          k < h.rec + 1 \/ (k = h.rec + 1 /\ m < 1)
                   PROVE  <<c, k, m>> \in S
        OBVIOUS
      <3>1. k < h.rec \/ k = h.rec
        BY <1>1
      <3>2. CASE k < h.rec
        BY <1>3, <3>2
      <3>3. CASE k = h.rec
        BY <1>1, <1>2, <1>3, <1>5, <3>3
      <3> QED
        BY <3>1, <3>2, <3>3
    <2> HIDE DEF g
    <2>4. Progress(g, S)
      BY <2>2, <2>3 DEF Progress
    <2> QED
      BY <2>1, <2>4
  <1> QED
    BY <1>4, <1>5

\* An idle handler has nothing to show.
LEMMA IdleProgress == \A S : Progress(IdleHandler, S)
  BY DEF Progress, IdleHandler

\* Every step keeps the progress of every handler.
LEMMA ProgressStep == DeliveryInv /\ [Next]_vars => HandlerProgress'
  <1> SUFFICES ASSUME DeliveryInv, [Next]_vars PROVE HandlerProgress'
    OBVIOUS
  <1>0. /\ \A t \in Conns : Progress(handler[t], stored)
        /\ stored \subseteq stored'
        /\ handler \in [Conns -> HandlerState]
        /\ \A t \in Conns : handler[t].pc # "idle" => handler[t].chunk \in Chunks
        /\ waiting \in [Chunks -> Conns \cup {NoConn}]
    BY ProgressPerHandler, StoredGrows DEF DeliveryInv, TypeOK
  <1>1. \A t \in Conns : Progress(handler[t], stored')
    BY <1>0, ProgressGrows
  <1>2. CASE UNCHANGED handler
    BY <1>1, <1>2, ProgressPerHandler
  <1>3. CASE \E t \in Conns : handler' = [handler EXCEPT ![t] = IdleHandler]
    BY <1>0, <1>1, <1>3, IdleProgress, ProgressPerHandler
  <1>4. CASE handler' = [t \in Conns |-> IdleHandler]
    BY <1>4, IdleProgress, ProgressPerHandler
  <1>5. ASSUME NEW c \in Chunks, NEW t \in Conns, Flush(c, t) PROVE HandlerProgress'
    <2> DEFINE h == [IdleHandler EXCEPT !.pc = "handling", !.chunk = c]
    <2>1. h.pc = "handling" /\ h.chunk = c /\ h.rec = 1 /\ h.doc = 1
      BY DEF IdleHandler
    <2>2. /\ DOMAIN Owed[c] = 1 .. Len(Frame[c])
          /\ DOMAIN Frame[c] = 1 .. Len(Frame[c])
          /\ Len(Frame[c]) \in Nat
          /\ \A k \in DOMAIN Owed[c] : Owed[c][k] \in Nat
      BY OwedType
    <2>3. \A k \in DOMAIN Owed[c] : \A m \in 1 .. Owed[c][k] :
            ~(k < 1 \/ (k = 1 /\ m < 1))
      BY <2>2
    <2>4. handler' = [handler EXCEPT ![t] = h]
      BY <1>5 DEF Flush
    <2> HIDE DEF h
    <2>5. Progress(h, stored')
      BY <2>1, <2>3 DEF Progress
    <2> QED
      BY <1>0, <1>1, <2>4, <2>5, ProgressPerHandler
  <1>6. ASSUME NEW c \in Chunks, ReceiveAck(c) \/ ConnectionLost(c) \/ AckTimeout(c)
        PROVE  HandlerProgress'
    <2>1. waiting[c] \in Conns
      BY <1>0, <1>6 DEF ReceiveAck, ConnectionLost, AckTimeout
    <2>2. UNCHANGED handler \/ handler' = [handler EXCEPT ![waiting[c]] = IdleHandler]
      BY <1>6 DEF ReceiveAck, ConnectionLost, AckTimeout
    <2> QED
      BY <1>2, <1>3, <2>1, <2>2
  <1>7. ASSUME NEW t \in Conns, SkipRecord(t) PROVE HandlerProgress'
    <2> DEFINE h == handler[t]
               c == h.chunk
               g == [h EXCEPT !.rec = @ + 1]
    <2>1. /\ h.pc = "handling" /\ c \in Chunks /\ h \in HandlerState
          /\ h.rec \in DOMAIN Frame[c] /\ Owed[c][h.rec] = 0
          /\ handler' = [handler EXCEPT ![t] = g]
      BY <1>0, <1>7 DEF SkipRecord, AtRecord, Handling, Docs
    <2>2. g.pc = "handling" /\ g.chunk = c /\ g.rec = h.rec + 1 /\ g.doc = h.doc
      BY <2>1 DEF HandlerState
    <2>3. /\ DOMAIN Owed[c] = 1 .. Len(Frame[c])
          /\ DOMAIN Frame[c] = 1 .. Len(Frame[c])
          /\ Len(Frame[c]) \in Nat
          /\ \A k \in DOMAIN Owed[c] : Owed[c][k] \in Nat
      BY <2>1, OwedType
    <2>4. h.doc = 1 /\ h.rec \in Nat
      BY <1>1, <2>1 DEF Progress, HandlerState
    <2>5. \A k \in DOMAIN Owed[c] : \A m \in 1 .. Owed[c][k] :
            (k < h.rec + 1 \/ (k = h.rec + 1 /\ m < 1)) => <<c, k, m>> \in stored'
      <3>1. \A k \in DOMAIN Owed[c] : \A m \in 1 .. Owed[c][k] :
              k < h.rec => <<c, k, m>> \in stored'
        BY <1>1, <2>1 DEF Progress
      <3> QED
        BY <2>1, <2>3, <2>4, <3>1
    <2> HIDE DEF g
    <2>6. Progress(g, stored')
      BY <2>1, <2>2, <2>4, <2>5 DEF Progress
    <2> QED
      BY <1>0, <1>1, <2>1, <2>6, ProgressPerHandler DEF g
  <1>8. ASSUME NEW t \in Conns, PostOk(t) PROVE HandlerProgress'
    <2>1. /\ handler[t].pc = "handling" /\ handler[t].chunk \in Chunks
          /\ handler[t] \in HandlerState
          /\ handler[t].rec \in DOMAIN Frame[handler[t].chunk]
          /\ Owed[handler[t].chunk][handler[t].rec] # 0
          /\ handler' = [handler EXCEPT ![t] =
                PastDoc(handler[t], Owed[handler[t].chunk][handler[t].rec])]
          /\ <<handler[t].chunk, handler[t].rec, handler[t].doc>> \in stored'
      BY <1>0, <1>8 DEF PostOk, Posting, AtRecord, Handling, Docs, Doc, Create
    <2>2. Progress(PastDoc(handler[t], Owed[handler[t].chunk][handler[t].rec]), stored')
      BY <1>1, <2>1, PastDocProgress
    <2> QED
      BY <1>0, <1>1, <2>1, <2>2, ProgressPerHandler
  <1>9. ASSUME NEW t \in Conns, PostUnavailable(t) PROVE HandlerProgress'
    <2>1. CASE Raise(t)
      BY <1>3, <2>1 DEF Raise
    <2>2. CASE handler' = [handler EXCEPT ![t].attempt = @ + 1]
      <3> DEFINE g == [handler[t] EXCEPT !.attempt = @ + 1]
      <3>1. handler[t] \in HandlerState /\ handler' = [handler EXCEPT ![t] = g]
        BY <1>0, <2>2
      <3>2. /\ g.pc = handler[t].pc /\ g.chunk = handler[t].chunk
            /\ g.rec = handler[t].rec /\ g.doc = handler[t].doc
        BY <3>1 DEF HandlerState
      <3> HIDE DEF g
      <3>3. Progress(g, stored')
        BY <1>1, <3>2 DEF Progress
      <3> QED
        BY <1>0, <1>1, <3>1, <3>3, ProgressPerHandler
    <2> QED
      BY <1>9, <2>1, <2>2 DEF PostUnavailable
  <1>10. ASSUME NEW t \in Conns, PostUnanswered(t) \/ PostRejected(t) PROVE HandlerProgress'
    BY <1>3, <1>10 DEF PostUnanswered, PostRejected, Raise
  <1>11. ASSUME NEW t \in Conns, SendAck(t) PROVE HandlerProgress'
    <2>1. CASE handler' = [handler EXCEPT ![t] = IdleHandler]
      BY <1>3, <2>1
    <2>2. CASE handler' = [handler EXCEPT ![t] = [handler[t] EXCEPT !.pc = "acked"]]
      <3> DEFINE g == [handler[t] EXCEPT !.pc = "acked"]
      <3>1. /\ handler[t] \in HandlerState
            /\ handler[t].pc = "handling"
            /\ handler[t].rec \notin DOMAIN Frame[handler[t].chunk]
        BY <1>0, <1>11 DEF SendAck, Handling
      <3>2. /\ g.pc = "acked" /\ g.chunk = handler[t].chunk
            /\ g.rec = handler[t].rec /\ g.doc = handler[t].doc
        BY <3>1 DEF HandlerState
      <3> HIDE DEF g
      <3>3. Progress(g, stored')
        BY <1>1, <3>1, <3>2 DEF Progress
      <3> QED
        BY <1>0, <1>1, <2>2, <3>3, ProgressPerHandler DEF g
    <2> QED
      BY <1>11, <2>1, <2>2 DEF SendAck
  <1>12. CASE BootPut \/ UNCHANGED vars
    BY <1>2, <1>12 DEF BootPut, vars
  <1>13. CASE Crash
    BY <1>4, <1>13 DEF Crash
  <1> QED
    BY <1>5, <1>6, <1>7, <1>8, <1>9, <1>10, <1>11, <1>12, <1>13
       DEF Next, FluentdStep, HandlerStep, EsFault

\* Every step keeps acked chunks written: ReceiveAck, the only step that drops
\* a chunk, finds its handler past the last record.
LEMMA AckedStep == DeliveryInv /\ [Next]_vars => AckedImpliesWritten'
  <1> SUFFICES ASSUME DeliveryInv, [Next]_vars PROVE AckedImpliesWritten'
    OBVIOUS
  <1>1. stored \subseteq stored'
    BY StoredGrows
  <1>2. CASE UNCHANGED buffer
    BY <1>1, <1>2 DEF DeliveryInv, AckedImpliesWritten
  <1>3. ASSUME NEW c \in Chunks, ReceiveAck(c) PROVE AckedImpliesWritten'
    <2> DEFINE h == handler[waiting[c]]
    <2>1. /\ waiting[c] \in Conns /\ h \in HandlerState
          /\ h.pc = "acked" /\ h.chunk = c
          /\ buffer' = buffer \ {c}
      BY <1>3 DEF ReceiveAck, DeliveryInv, TypeOK
    <2>2. Progress(h, stored)
      BY <2>1, ProgressPerHandler DEF DeliveryInv
    <2>3. h.rec \notin DOMAIN Frame[c]
      BY <2>1, <2>2 DEF Progress
    <2>4. h.pc # "idle"
      BY <2>1
    <2> HIDE DEF h
    <2>5. \A k \in DOMAIN Owed[c] : \A m \in 1 .. Owed[c][k] : <<c, k, m>> \in stored
      BY <2>1, <2>2, <2>3, <2>4, PastLastRecord
    <2> QED
      BY <1>1, <2>1, <2>5 DEF DeliveryInv, AckedImpliesWritten
  <1>4. UNCHANGED buffer \/ \E c \in Chunks : ReceiveAck(c)
    BY DEF Next, FluentdStep, HandlerStep, EsFault, BootPut, Crash, Flush,
           ConnectionLost, AckTimeout, SkipRecord, PostOk, PostUnavailable,
           PostUnanswered, PostRejected, SendAck, vars
  <1> QED
    BY <1>2, <1>3, <1>4

\* The inductive invariant holds in every state.
THEOREM DeliveryInvariant == Spec => []DeliveryInv
  <1>1. Init => DeliveryInv
    <2> SUFFICES ASSUME Init PROVE DeliveryInv
      OBVIOUS
    <2>1. TypeOK
      BY DeliveryAssumption, IdleType, BootLen DEF Init, TypeOK, IdleHandler
    <2>2. HandlerProgress
      BY IdleProgress, ProgressPerHandler DEF Init
    <2>3. AckedImpliesWritten
      BY DEF Init, AckedImpliesWritten
    <2> QED
      BY <2>1, <2>2, <2>3 DEF DeliveryInv
  <1>2. DeliveryInv /\ [Next]_vars => DeliveryInv'
    BY TypeStep, ProgressStep, AckedStep DEF DeliveryInv
  <1> QED
    BY <1>1, <1>2, PTL DEF Spec

\* At-least-once: an acked chunk has all its documents in Elasticsearch.
THEOREM AckedChunksAreWritten == Spec => []AckedImpliesWritten
  <1>1. DeliveryInv => AckedImpliesWritten
    BY DEF DeliveryInv
  <1> QED
    BY <1>1, DeliveryInvariant, PTL

-----------------------------------------------------------------------------
\* Adding the document a handler is at is the next Store of the abstract
\* specification, or no step at all when the document is already there.
LEMMA CreateRefines ==
    ASSUME NEW t \in Conns, DeliveryInv, Posting(t), Create(Doc(t)), UNCHANGED buffer
    PROVE  Promise!Next \/ UNCHANGED <<buffer, stored>>
  <1> DEFINE c == handler[t].chunk
             i == handler[t].rec
             n == handler[t].doc
  <1>1. /\ handler[t] \in HandlerState /\ c \in Chunks
        /\ i \in DOMAIN Frame[c] /\ Owed[c][i] # 0
        /\ n = 1 \/ n <= Owed[c][i]
        /\ Promise!StoredUpTo(c, i, n)
        /\ stored' = stored \cup {<<c, i, n>>}
    BY DEF DeliveryInv, TypeOK, HandlerProgress, Posting, AtRecord, Handling, Docs, Doc, Create
  <1>2. i \in DOMAIN Owed[c] /\ Owed[c][i] \in Nat
    BY <1>1, OwedType
  <1>3. n \in 1 .. Owed[c][i]
    BY <1>1, <1>2 DEF HandlerState
  <1>4. CASE <<c, i, n>> \in stored
    BY <1>1, <1>4
  <1>5. CASE <<c, i, n>> \notin stored
    <2>1. c \in buffer
      BY <1>1, <1>2, <1>3, <1>5 DEF DeliveryInv, AckedImpliesWritten
    <2>2. Promise!Store(c, i, n)
      BY <1>1, <1>5, <2>1 DEF Promise!Store
    <2> QED
      BY <1>1, <1>2, <1>3, <2>2 DEF Promise!Next
  <1> QED
    BY <1>4, <1>5

\* The protocol implements the promise: the initial states agree and every
\* step is a Store, a Release or a stutter of the abstract specification.
THEOREM ImplementsAtLeastOnce == Spec => AtLeastOnceSpec
  <1>1. Init => Promise!Init
    BY DEF Init, Promise!Init
  <1>2. DeliveryInv /\ [Next]_vars => [Promise!Next]_(Promise!vars)
    <2> SUFFICES ASSUME DeliveryInv, [Next]_vars
                 PROVE  Promise!Next \/ UNCHANGED <<buffer, stored>>
      BY DEF Promise!vars
    <2>1. ASSUME NEW t \in Conns, PostOk(t) \/ PostUnavailable(t) \/ PostUnanswered(t)
          PROVE  Promise!Next \/ UNCHANGED <<buffer, stored>>
      <3>1. Posting(t) /\ UNCHANGED buffer /\ (Create(Doc(t)) \/ UNCHANGED esVars)
        BY <2>1 DEF PostOk, PostUnavailable, PostUnanswered
      <3>2. CASE Create(Doc(t))
        BY <3>1, <3>2, CreateRefines
      <3>3. CASE UNCHANGED esVars
        BY <3>1, <3>3 DEF esVars
      <3> QED
        BY <3>1, <3>2, <3>3
    <2>2. ASSUME NEW c \in Chunks, ReceiveAck(c)
          PROVE  Promise!Next \/ UNCHANGED <<buffer, stored>>
      <3>1. buffer' = buffer \ {c} /\ UNCHANGED stored
        BY <2>2 DEF ReceiveAck, esVars
      <3>2. CASE c \notin buffer
        BY <3>1, <3>2
      <3>3. CASE c \in buffer
        <4>1. AckedImpliesWritten'
          BY AckedStep
        <4>2. Promise!AllStored(c)
          BY <3>1, <4>1 DEF AckedImpliesWritten, Promise!AllStored
        <4> QED
          BY <3>1, <3>3, <4>2 DEF Promise!Release, Promise!Next
      <3> QED
        BY <3>2, <3>3
    <2>3. CASE UNCHANGED <<buffer, stored>>
      BY <2>3
    <2>4. \/ UNCHANGED <<buffer, stored>>
          \/ \E c \in Chunks : ReceiveAck(c)
          \/ \E t \in Conns : PostOk(t) \/ PostUnavailable(t) \/ PostUnanswered(t)
      BY DEF Next, FluentdStep, HandlerStep, EsFault, BootPut, Crash, Flush,
             ConnectionLost, AckTimeout, SkipRecord, PostRejected, SendAck,
             esVars, vars
    <2> QED
      BY <2>1, <2>2, <2>3, <2>4
  <1> QED
    BY <1>1, <1>2, DeliveryInvariant, PTL DEF Spec, AtLeastOnceSpec, Promise!Spec

-----------------------------------------------------------------------------
\* The bootstrap argument: what the process PUT stays installed, and handlers
\* exist only in a process that finished its bootstrap.
BootInv ==
    /\ TypeOK
    /\ \A k \in 1 .. boot : BootstrapPuts[k] \in templates
    /\ \A t \in Conns : handler[t].pc # "idle" => Listening
    /\ MappedBeforeFirstWrite

\* No ledger row is written before the ledger template and its policy exist.
THEOREM WritesAreMapped == Spec => []MappedBeforeFirstWrite
  <1>1. Init => BootInv
    BY TypeStep, DeliveryAssumption, IdleType, BootLen
       DEF Init, BootInv, TypeOK, IdleHandler, MappedBeforeFirstWrite
  <1>2. BootInv /\ [Next]_vars => BootInv'
    <2> SUFFICES ASSUME BootInv, [Next]_vars PROVE BootInv'
      OBVIOUS
    <2>1. TypeOK /\ TypeOK'
      BY TypeStep DEF BootInv
    <2>2. templates \subseteq templates'
      BY DEF Next, FluentdStep, HandlerStep, EsFault, BootPut, Crash, Flush, ReceiveAck,
             ConnectionLost, AckTimeout, SkipRecord, PostOk, PostUnavailable,
             PostUnanswered, PostRejected, SendAck, Create, esVars, vars
    <2>3. (\A k \in 1 .. boot : BootstrapPuts[k] \in templates)'
      <3>1. \/ UNCHANGED boot \/ boot' = 0
            \/ boot' = boot + 1 /\ BootstrapPuts[boot + 1] \in templates'
        BY DEF Next, FluentdStep, HandlerStep, EsFault, BootPut, Crash, Flush, ReceiveAck,
               ConnectionLost, AckTimeout, SkipRecord, PostOk, PostUnavailable,
               PostUnanswered, PostRejected, SendAck, vars
      <3>2. boot \in 0 .. 5
        BY <2>1, BootLen DEF TypeOK
      <3> QED
        BY <2>2, <3>1, <3>2 DEF BootInv
    <2>4. (\A t \in Conns : handler[t].pc # "idle" => Listening)'
      <3>1. CASE BootPut
        BY <3>1 DEF BootPut, BootInv
      <3>2. CASE Crash
        BY <3>2 DEF Crash, IdleHandler
      <3>3. ASSUME NEW c \in Chunks, NEW t \in Conns, Flush(c, t)
            PROVE  (\A u \in Conns : handler[u].pc # "idle" => Listening)'
        BY <3>3 DEF Flush, Listening
      <3>4. ASSUME UNCHANGED boot,
                   \A u \in Conns : handler'[u].pc # "idle" => handler[u].pc # "idle"
            PROVE  (\A u \in Conns : handler[u].pc # "idle" => Listening)'
        BY <3>4 DEF BootInv, Listening
      <3>5. ASSUME NEW t \in Conns, HandlerStep(t) \/ EsFault(t)
            PROVE  /\ UNCHANGED boot
                   /\ \A u \in Conns : handler'[u].pc # "idle" => handler[u].pc # "idle"
        <4>1. UNCHANGED boot /\ handler[t].pc # "idle"
          BY <3>5 DEF HandlerStep, EsFault, SkipRecord, PostOk, PostUnavailable, PostUnanswered,
                      PostRejected, SendAck, Posting, AtRecord, Handling
        <4>2. \A u \in Conns : u # t => handler'[u] = handler[u]
          BY <2>1, <3>5 DEF HandlerStep, EsFault, SkipRecord, PostOk, PostUnavailable,
                      PostUnanswered, PostRejected, SendAck, Raise, TypeOK
        <4> QED
          BY <4>1, <4>2
      <3>6. ASSUME NEW c \in Chunks, ReceiveAck(c) \/ ConnectionLost(c) \/ AckTimeout(c)
            PROVE  /\ UNCHANGED boot
                   /\ \A u \in Conns : handler'[u].pc # "idle" => handler[u].pc # "idle"
        BY <2>1, <3>6 DEF ReceiveAck, ConnectionLost, AckTimeout, TypeOK, IdleHandler
      <3>7. CASE UNCHANGED vars
        BY <3>4, <3>7 DEF vars
      <3> QED
        BY <3>1, <3>2, <3>3, <3>4, <3>5, <3>6, <3>7 DEF Next, FluentdStep
    <2>5. MappedBeforeFirstWrite'
      <3>1. stored' = stored \/ \E t \in Conns : handler[t].pc # "idle"
        BY DEF Next, FluentdStep, HandlerStep, EsFault, BootPut, Crash, Flush, ReceiveAck,
               ConnectionLost, AckTimeout, SkipRecord, PostOk, PostUnavailable,
               PostUnanswered, PostRejected, SendAck, esVars, vars,
               Posting, AtRecord, Handling
      <3>2. Listening => {"ilm", "ledger"} \subseteq templates
        BY BootLen DEF BootInv, Listening, BootstrapPuts
      <3> QED
        BY <2>2, <3>1, <3>2 DEF BootInv, MappedBeforeFirstWrite
    <2> QED
      BY <2>1, <2>3, <2>4, <2>5 DEF BootInv
  <1>3. BootInv => MappedBeforeFirstWrite
    BY DEF BootInv
  <1> QED
    BY <1>1, <1>2, <1>3, PTL DEF Spec

-----------------------------------------------------------------------------
(***************************************************************************)
(* Duplicates.  Before the first fault a chunk no document of which is     *)
(* refused has at most one handler, the one whose ack Fluentd waits for,   *)
(* and that handler has not yet reached what is not stored.                *)
(***************************************************************************)
Clean(c) == \A r \in Rejected : r[1] # c

\* Everything stored of the chunk of handler state h is behind it.
Ahead(h, S) ==
    \A i, n \in Nat : <<h.chunk, i, n>> \in S => i < h.rec \/ (i = h.rec /\ n < h.doc)

\* What holds of chunk c before the first fault.
WrittenOnce(c) ==
    /\ waiting[c] # NoConn => /\ c \in buffer /\ handler[waiting[c]].pc # "idle"
                              /\ handler[waiting[c]].chunk = c
    /\ c \in buffer /\ waiting[c] = NoConn => \A d \in stored : d[1] # c
    /\ \A t \in Conns : handler[t].pc # "idle" /\ handler[t].chunk = c =>
          waiting[c] = t /\ Ahead(handler[t], stored)
    /\ \A d \in copied : d[1] # c

OnceInv == TypeOK /\ (faults = 0 => \A c \in Chunks : Clean(c) => WrittenOnce(c))

\* A step that leaves the chunk, its handlers and its documents alone.
LEMMA OnceKept ==
    ASSUME TypeOK, NEW c \in Chunks, WrittenOnce(c),
           c \in buffer <=> c \in buffer', waiting'[c] = waiting[c],
           \A t \in Conns : \/ handler'[t] = handler[t]
                            \/ /\ handler[t].pc = "idle" \/ handler[t].chunk # c
                               /\ handler'[t].pc = "idle" \/ handler'[t].chunk # c,
           \A d \in stored' \ stored : d[1] # c,
           \A d \in copied' \ copied : d[1] # c
    PROVE  WrittenOnce(c)'
  <1>1. waiting[c] \in Conns \cup {NoConn}
    BY DEF TypeOK
  <1>2. /\ waiting'[c] # NoConn => /\ c \in buffer' /\ handler'[waiting'[c]].pc # "idle"
                                   /\ handler'[waiting'[c]].chunk = c
        /\ c \in buffer' /\ waiting'[c] = NoConn => \A d \in stored' : d[1] # c
        /\ \A d \in copied' : d[1] # c
    BY <1>1 DEF WrittenOnce
  <1>3. ASSUME NEW t \in Conns, handler'[t].pc # "idle", handler'[t].chunk = c
        PROVE  waiting'[c] = t /\ Ahead(handler'[t], stored')
    <2>1. handler'[t] = handler[t]
      BY <1>3
    <2>2. waiting[c] = t /\ Ahead(handler[t], stored)
      BY <1>3, <2>1 DEF WrittenOnce
    <2>3. \A i, n \in Nat : <<c, i, n>> \in stored' => <<c, i, n>> \in stored
      OBVIOUS
    <2> QED
      BY <1>3, <2>1, <2>2, <2>3 DEF Ahead
  <1> QED
    BY <1>2, <1>3 DEF WrittenOnce

\* A handler takes up a chunk nothing of which is stored.
LEMMA OnceFlush ==
    ASSUME TypeOK, NEW c \in Chunks, NEW t \in Conns, Flush(c, t), WrittenOnce(c)
    PROVE  WrittenOnce(c)'
  <1> DEFINE h == [IdleHandler EXCEPT !.pc = "handling", !.chunk = c]
  <1>1. h.pc = "handling" /\ h.chunk = c
    BY DEF IdleHandler
  <1>2. handler' = [handler EXCEPT ![t] = h] /\ waiting'[c] = t /\ t # NoConn /\ c \in buffer'
    BY DeliveryAssumption DEF Flush, TypeOK
  <1> HIDE DEF h
  <1>3. handler'[t] = h /\ \A u \in Conns : u # t => handler'[u] = handler[u]
    BY <1>2 DEF TypeOK
  <1>4. waiting[c] = NoConn /\ stored' = stored /\ copied' = copied /\ \A d \in stored : d[1] # c
    BY DEF Flush, esVars, WrittenOnce
  <1>5. \A i, n \in Nat : <<c, i, n>> \notin stored
    BY <1>4
  <1>6. \A u \in Conns : handler'[u].pc # "idle" /\ handler'[u].chunk = c => u = t
    BY <1>3, <1>4, DeliveryAssumption DEF WrittenOnce
  <1>7. Ahead(handler'[t], stored')
    BY <1>1, <1>3, <1>4, <1>5 DEF Ahead
  <1>8. \A d \in copied' : d[1] # c
    BY <1>4 DEF WrittenOnce
  <1> QED
    BY <1>1, <1>2, <1>3, <1>6, <1>7, <1>8 DEF WrittenOnce

\* A handler that goes on with its chunk, writing the document it is at or none.
LEMMA OnceGoesOn ==
    ASSUME TypeOK, NEW c \in Chunks, NEW t \in Conns, WrittenOnce(c), handler[t].chunk = c,
           handler[t].pc # "idle", UNCHANGED <<buffer, waiting>>,
           NEW h, handler' = [handler EXCEPT ![t] = h], h.pc # "idle", h.chunk = c,
           h.rec \in Nat, h.doc \in Nat,
           \/ /\ UNCHANGED <<stored, copied>>
              /\ h.rec > handler[t].rec \/ (h.rec = handler[t].rec /\ h.doc >= handler[t].doc)
           \/ /\ stored' = stored \cup {Doc(t)} /\ copied' = copied \cup (stored \cap {Doc(t)})
              /\ h.rec > handler[t].rec \/ (h.rec = handler[t].rec /\ h.doc > handler[t].doc)
    PROVE  WrittenOnce(c)'
  <1>1. /\ handler'[t] = h /\ \A u \in Conns : u # t => handler'[u] = handler[u]
        /\ handler[t].rec \in Nat /\ handler[t].doc \in Nat
    BY DEF TypeOK, HandlerState
  <1>2. waiting[c] = t /\ Ahead(handler[t], stored) /\ c \in buffer
    BY DeliveryAssumption DEF WrittenOnce
  <1>3. Doc(t) = <<c, handler[t].rec, handler[t].doc>>
    BY DEF Doc
  <1>4. Doc(t) \notin stored
    BY <1>1, <1>2, <1>3 DEF Ahead
  <1>5. \A d \in copied' : d[1] # c
    BY <1>4 DEF WrittenOnce
  <1>6. Ahead(h, stored')
    <2> SUFFICES ASSUME NEW i \in Nat, NEW n \in Nat, <<c, i, n>> \in stored'
                 PROVE  i < h.rec \/ (i = h.rec /\ n < h.doc)
      BY DEF Ahead
    <2>1. CASE <<c, i, n>> \in stored
      <3>1. i < handler[t].rec \/ (i = handler[t].rec /\ n < handler[t].doc)
        BY <1>2, <2>1 DEF Ahead
      <3> QED
        BY <1>1, <3>1
    <2>2. CASE <<c, i, n>> \notin stored
      <3>1. i = handler[t].rec /\ n = handler[t].doc
        BY <1>3, <2>2
      <3>2. h.rec > handler[t].rec \/ (h.rec = handler[t].rec /\ h.doc > handler[t].doc)
        BY <2>2
      <3> QED
        BY <1>1, <3>1, <3>2
    <2> QED
      BY <2>1, <2>2
  <1>7. \A u \in Conns : handler'[u].pc # "idle" /\ handler'[u].chunk = c => u = t
    BY <1>1, <1>2 DEF WrittenOnce
  <1> QED
    BY <1>1, <1>2, <1>5, <1>6, <1>7, DeliveryAssumption DEF WrittenOnce

\* A step of a handler: the states it can leave its handler in, and what it writes.
LEMMA HandlerForms ==
    ASSUME TypeOK, NEW t \in Conns, HandlerStep(t)
    PROVE  LET g == handler[t]
               next(h) == handler' = [handler EXCEPT ![t] = h]
           IN  /\ UNCHANGED <<buffer, waiting, boot, faults>>
               /\ g.pc = "handling"
               /\ \/ /\ UNCHANGED <<stored, copied>>
                     /\ \/ next([g EXCEPT !.rec = @ + 1])
                        \/ next([g EXCEPT !.pc = "acked"])
                        \/ next(IdleHandler) /\ (Doc(t) \in Rejected \/ waiting[g.chunk] # t)
                  \/ /\ stored' = stored \cup {Doc(t)} /\ copied' = copied \cup (stored \cap {Doc(t)})
                     /\ \/ next([g EXCEPT !.doc = @ + 1, !.attempt = 0])
                        \/ next([g EXCEPT !.rec = @ + 1, !.doc = 1, !.attempt = 0])
  <1>1. CASE SkipRecord(t)
    BY <1>1 DEF SkipRecord, AtRecord, Handling, esVars
  <1>2. CASE PostOk(t)
    BY <1>2 DEF PostOk, Posting, AtRecord, Handling, Create, PastDoc
  <1>3. CASE PostRejected(t)
    BY <1>3 DEF PostRejected, Posting, AtRecord, Handling, Raise, esVars
  <1>4. CASE SendAck(t)
    BY <1>4 DEF SendAck, Handling, esVars
  <1> QED
    BY <1>1, <1>2, <1>3, <1>4 DEF HandlerStep

LEMMA OnceHandlerStep ==
    ASSUME TypeOK, NEW c \in Chunks, Clean(c), NEW t \in Conns, HandlerStep(t), WrittenOnce(c)
    PROVE  WrittenOnce(c)'
  <1> DEFINE g == handler[t]
             h1 == [g EXCEPT !.rec = @ + 1]
             h2 == [g EXCEPT !.pc = "acked"]
             h3 == [g EXCEPT !.doc = @ + 1, !.attempt = 0]
             h4 == [g EXCEPT !.rec = @ + 1, !.doc = 1, !.attempt = 0]
             next(h) == handler' = [handler EXCEPT ![t] = h]
  <1>1. g \in HandlerState /\ g.rec \in Nat /\ g.doc \in Nat /\ handler \in [Conns -> HandlerState]
    BY DEF TypeOK, HandlerState
  <1>2. /\ h1.pc = g.pc /\ h1.chunk = g.chunk /\ h1.rec = g.rec + 1 /\ h1.doc = g.doc
        /\ h2.pc = "acked" /\ h2.chunk = g.chunk /\ h2.rec = g.rec /\ h2.doc = g.doc
        /\ h3.pc = g.pc /\ h3.chunk = g.chunk /\ h3.rec = g.rec /\ h3.doc = g.doc + 1
        /\ h4.pc = g.pc /\ h4.chunk = g.chunk /\ h4.rec = g.rec + 1 /\ h4.doc = 1
    BY <1>1 DEF HandlerState
  <1>3. /\ UNCHANGED <<buffer, waiting>> /\ g.pc = "handling"
        /\ \/ UNCHANGED <<stored, copied>> /\ (next(h1) \/ next(h2))
           \/ /\ UNCHANGED <<stored, copied>> /\ next(IdleHandler)
              /\ Doc(t) \in Rejected \/ waiting[g.chunk] # t
           \/ /\ stored' = stored \cup {Doc(t)} /\ copied' = copied \cup (stored \cap {Doc(t)})
              /\ next(h3) \/ next(h4)
    BY HandlerForms
  <1> HIDE DEF h1, h2, h3, h4
  <1>4. Doc(t) = <<g.chunk, g.rec, g.doc>> /\ Doc(t)[1] = g.chunk
    BY DEF Doc
  <1>5. CASE g.chunk # c
    <2>1. \A u \in Conns : u # t => handler'[u] = handler[u]
      BY <1>1, <1>3
    <2>2. handler'[t].pc = "idle" \/ handler'[t].chunk # c
      BY <1>1, <1>2, <1>3, <1>5 DEF IdleHandler
    <2>3. /\ \A d \in stored' \ stored : d[1] # c
          /\ \A d \in copied' \ copied : d[1] # c
      BY <1>3, <1>4, <1>5
    <2> QED
      BY <1>3, <1>5, <2>1, <2>2, <2>3, OnceKept
  <1>6. CASE g.chunk = c
    <2>1. Doc(t) \notin Rejected /\ waiting[g.chunk] = t
      BY <1>3, <1>4, <1>6 DEF Clean, WrittenOnce
    <2>2. PICK h \in {h1, h2, h3, h4} :
            /\ next(h)
            /\ \/ UNCHANGED <<stored, copied>> /\ h \in {h1, h2}
               \/ /\ stored' = stored \cup {Doc(t)} /\ copied' = copied \cup (stored \cap {Doc(t)})
                  /\ h \in {h3, h4}
      BY <1>3, <2>1
    <2>3. h.pc # "idle" /\ h.chunk = c /\ h.rec \in Nat /\ h.doc \in Nat
      BY <1>1, <1>2, <1>3, <1>6
    <2>4. \/ /\ UNCHANGED <<stored, copied>>
             /\ h.rec > handler[t].rec \/ (h.rec = handler[t].rec /\ h.doc >= handler[t].doc)
          \/ /\ stored' = stored \cup {Doc(t)} /\ copied' = copied \cup (stored \cap {Doc(t)})
             /\ h.rec > handler[t].rec \/ (h.rec = handler[t].rec /\ h.doc > handler[t].doc)
      BY <1>1, <1>2, <2>2
    <2> QED
      BY <1>3, <1>6, <2>2, <2>3, <2>4, OnceGoesOn
  <1> QED
    BY <1>5, <1>6

LEMMA OnceStep == OnceInv /\ [Next]_vars => OnceInv'
  <1> SUFFICES ASSUME OnceInv, [Next]_vars, TypeOK', faults' = 0, NEW c \in Chunks, Clean(c)
               PROVE  WrittenOnce(c)'
    BY TypeStep DEF OnceInv, Clean
  <1>1. faults = 0 /\ ~ Fault
    <2>1. faults \in Nat
      BY DeliveryAssumption DEF OnceInv, TypeOK
    <2>2. faults' = faults \/ faults' = faults + 1
      BY DEF Fault, Next, FluentdStep, HandlerStep, EsFault, BootPut, Crash, Flush, ReceiveAck,
             ConnectionLost, AckTimeout, SkipRecord, PostOk, PostUnavailable,
             PostUnanswered, PostRejected, SendAck, vars
    <2> QED
      BY <2>1, <2>2 DEF Fault
  <1>2. WrittenOnce(c) /\ TypeOK /\ handler \in [Conns -> HandlerState] /\ waiting \in [Chunks -> Conns \cup {NoConn}]
    BY <1>1 DEF OnceInv, TypeOK
  <1>3. CASE BootPut \/ UNCHANGED vars
    BY <1>2, <1>3, OnceKept DEF BootPut, vars
  <1>4. ASSUME NEW d \in Chunks, NEW t \in Conns, Flush(d, t)
        PROVE  WrittenOnce(c)'
    <2>1. CASE d = c
      BY <1>2, <1>4, <2>1, OnceFlush
    <2>2. CASE d # c
      <3>1. [IdleHandler EXCEPT !.pc = "handling", !.chunk = d].chunk = d
        BY DEF IdleHandler
      <3>2. handler'[t].chunk # c /\ handler[t].pc = "idle"
        BY <1>2, <1>4, <2>2, <3>1 DEF Flush
      <3> QED
        BY <1>2, <1>4, <2>2, <3>2, OnceKept DEF Flush, esVars
    <2> QED
      BY <2>1, <2>2
  <1>5. ASSUME NEW d \in Chunks, ReceiveAck(d)
        PROVE  WrittenOnce(c)'
    <2>1. /\ waiting[d] \in Conns /\ handler' = [handler EXCEPT ![waiting[d]] = IdleHandler]
          /\ handler[waiting[d]].chunk = d /\ UNCHANGED <<stored, copied>>
          /\ IdleHandler.pc = "idle"
      BY <1>2, <1>5 DEF ReceiveAck, esVars, IdleHandler
    <2>2. CASE d = c
      BY <1>2, <1>5, <2>1, <2>2 DEF WrittenOnce, ReceiveAck
    <2>3. CASE d # c
      BY <1>2, <1>5, <2>1, <2>3, OnceKept DEF ReceiveAck
    <2> QED
      BY <2>2, <2>3
  <1>6. ASSUME NEW d \in Chunks, ConnectionLost(d)
        PROVE  WrittenOnce(c)'
    <2>1. d # c
      BY <1>2, <1>6 DEF ConnectionLost, WrittenOnce
    <2> QED
      BY <1>2, <1>6, <2>1, OnceKept DEF ConnectionLost, esVars
  <1>7. ASSUME NEW t \in Conns, HandlerStep(t)
        PROVE  WrittenOnce(c)'
    BY <1>2, <1>7, OnceHandlerStep
  <1> QED
    BY <1>1, <1>3, <1>4, <1>5, <1>6, <1>7
       DEF Next, FluentdStep, EsFault, PostUnavailable, PostUnanswered, AckTimeout, Crash

\* A document Elasticsearch holds twice was paid for by a fault, or its chunk has
\* a document that is refused (DuplicatesNeedAFault): the acks, the connections
\* and the threads by themselves write nothing twice.
THEOREM NoDuplicateWithoutFault == Spec => []DuplicatesNeedAFault
  <1>1. Init => OnceInv
    BY DeliveryAssumption, IdleType, BootLen DEF Init, OnceInv, WrittenOnce, TypeOK, IdleHandler
  <1>2. OnceInv => DuplicatesNeedAFault
    <2> SUFFICES ASSUME OnceInv, NEW d \in copied, ~ (faults > 0)
                 PROVE  \E r \in Rejected : r[1] = d[1]
      BY DEF DuplicatesNeedAFault
    <2>1. faults = 0 /\ d[1] \in Chunks
      BY DeliveryAssumption DEF OnceInv, TypeOK
    <2> QED
      BY <2>1 DEF OnceInv, WrittenOnce, Clean
  <1> QED
    BY <1>1, <1>2, OnceStep, PTL DEF Spec

-----------------------------------------------------------------------------
(***************************************************************************)
(* What a session leaves: its rows hold every edge once and none without   *)
(* its artifact, its document no bytes, and no evidence is lost.           *)
(***************************************************************************)

\* Only a failed download has no hash.
FilesInv ==
    /\ files \in Seq(FileRef)
    /\ Len(files) <= MaxFiles
    /\ \A i \in DOMAIN files : files[i].status = "failed" <=> files[i].shasum = None

\* The rows are those of the whole session, and of nothing else, until the next
\* session begins; the document is there when enrichment failed as well.
WrittenInv ==
    /\ rows = IF pc = "handled" THEN AllObservations ELSE {}
    /\ doc = IF pc \in {"handled", "stripped"} THEN StripBytes ELSE <<>>

ExtractIInv ==
    /\ pc \in {"open", "sent", "handled", "stripped"}
    /\ named \subseteq Hosts
    /\ FilesInv
    /\ WrittenInv

-----------------------------------------------------------------------------
\* What is left of the session in the index is a function of its commands and
\* its files.
LEMMA SameSession ==
    ASSUME named' = named, files' = files
    PROVE  AllObservations' = AllObservations /\ StripBytes' = StripBytes
  BY DEF AllObservations, ShellReferences, C2Hosts, BaseObs, Rank, Served, ServedFile, ServingHost,
         Sha256, Retrieved, FileCallbacks, FileCallback, Callbacks, StripBytes

\* The first session begins with nothing.
LEMMA ExtractStarts == ExtractInit => ExtractIInv
  BY ExtractAssumption DEF ExtractInit, ExtractIInv, FilesInv, WrittenInv

\* Inlining the bytes changes no entry otherwise.
LEMMA CloseFiles ==
    ASSUME ExtractIInv, Close
    PROVE  FilesInv'
  <1> USE ExtractAssumption DEF ExtractIInv, FilesInv
  <1>1. PICK bytes \in [DOMAIN files -> Payloads \cup {None}] :
            files' = [i \in DOMAIN files |-> [files[i] EXCEPT !.content_b64 = bytes[i]]]
    BY DEF Close
  <1>2. \A i \in DOMAIN files : files[i] \in FileRef
    OBVIOUS
  <1>3. \A i \in DOMAIN files :
            /\ files'[i] \in FileRef
            /\ files'[i].status = files[i].status
            /\ files'[i].shasum = files[i].shasum
    <2> SUFFICES ASSUME NEW i \in DOMAIN files
                 PROVE  /\ files'[i] \in FileRef
                        /\ files'[i].status = files[i].status
                        /\ files'[i].shasum = files[i].shasum
      OBVIOUS
    <2>1. files[i] \in FileRef /\ bytes[i] \in Payloads \cup {None}
      BY <1>1, <1>2
    <2>2. files'[i] = [files[i] EXCEPT !.content_b64 = bytes[i]]
      BY <1>1
    <2> HIDE DEF ExtractIInv, FilesInv
    <2> QED
      BY <2>1, <2>2 DEF FileRef
  <1>4. DOMAIN files' = 1 .. Len(files)
    BY <1>1
  <1>5. files' \in Seq(FileRef) /\ Len(files') = Len(files)
    BY <1>1, <1>3, <1>4
  <1> QED
    BY <1>3, <1>4, <1>5

\* A new entry keeps the link between status and hash.
LEMMA FileEventFiles ==
    ASSUME ExtractIInv, NEW f \in FileRef, FileEvent(f)
    PROVE  FilesInv'
  <1>1. files \in Seq(FileRef) /\ files' = Append(files, f) /\ Len(files) < MaxFiles
    BY DEF ExtractIInv, FilesInv, FileEvent
  <1>2. files' \in Seq(FileRef) /\ Len(files') = Len(files) + 1
    BY <1>1
  <1>3. \A i \in DOMAIN files' : files'[i] = IF i \in DOMAIN files THEN files[i] ELSE f
    BY <1>1
  <1> QED
    BY <1>1, <1>2, <1>3, ExtractAssumption DEF ExtractIInv, FilesInv, FileEvent

\* Every action keeps the invariant.
LEMMA ExtractMoves == ExtractIInv /\ [ExtractNext]_extractVars => ExtractIInv'
  <1> SUFFICES ASSUME ExtractIInv, [ExtractNext]_extractVars PROVE ExtractIInv'
    OBVIOUS
  <1>1. ASSUME NEW h \in Hosts, Command(h) PROVE ExtractIInv'
    BY <1>1 DEF ExtractIInv, FilesInv, WrittenInv, Command
  <1>2. ASSUME NEW f \in FileRef, FileEvent(f) PROVE ExtractIInv'
    BY <1>2, FileEventFiles DEF ExtractIInv, WrittenInv, FileEvent
  <1>3. CASE Close
    BY <1>3, CloseFiles DEF ExtractIInv, WrittenInv, Close
  <1>4. CASE Handle
    BY <1>4, SameSession DEF ExtractIInv, FilesInv, WrittenInv, Handle
  <1>5. CASE HandleRaises
    BY <1>5, SameSession DEF ExtractIInv, FilesInv, WrittenInv, HandleRaises
  <1>6. CASE NextSession
    BY <1>6, ExtractAssumption DEF ExtractIInv, FilesInv, WrittenInv, NextSession
  <1>7. CASE UNCHANGED extractVars
    BY <1>7, SameSession DEF ExtractIInv, FilesInv, WrittenInv, extractVars
  <1> QED
    BY <1>1, <1>2, <1>3, <1>4, <1>5, <1>6, <1>7 DEF ExtractNext

-----------------------------------------------------------------------------
(***************************************************************************)
(* The rows, one producer at a time.                                       *)
(***************************************************************************)

\* A pair of host and file that an earlier entry already gave an edge.
SeenBefore(h, i) ==
    \E j \in Served : j < i /\ h \in Callbacks(j) /\ Sha256(files[j]) = Sha256(files[i])

\* What a served entry is.
LEMMA ServedIs ==
    ASSUME ExtractIInv, NEW i \in Served
    PROVE  /\ i \in 1 .. MaxFiles
           /\ i \in DOMAIN files
           /\ files[i] \in FileRef
           /\ ServingHost(files[i]) \in Hosts
           /\ Sha256(files[i]) = files[i].shasum
           /\ Sha256(files[i]) \in Payloads
           /\ Callbacks(i) \subseteq Hosts \ {ServingHost(files[i])}
  <1>1. i \in DOMAIN files /\ files[i] \in FileRef /\ i \in 1 .. MaxFiles
    BY ExtractAssumption DEF ExtractIInv, FilesInv, Served
  <1>2. Retrieved(files[i]) /\ ServingHost(files[i]) # None
    BY DEF Served
  <1>3. ServingHost(files[i]) \in Hosts
    BY <1>1, <1>2 DEF ServingHost, FileRef
  <1>4. files[i].shasum # None /\ files[i].shasum \in Payloads
    BY <1>1, <1>2 DEF ExtractIInv, FilesInv, Retrieved, FileRef
  <1>5. files[i].content_b64 \in Payloads \cup {None}
    BY <1>1 DEF FileRef
  <1>6. Callbacks(i) \subseteq Hosts \ {ServingHost(files[i])}
    BY <1>5, ExtractAssumption DEF Callbacks
  <1> QED
    BY <1>1, <1>3, <1>4, <1>6 DEF Sha256

\* The three forms of a row.
LEMMA ServedRow ==
    ASSUME ExtractIInv, NEW i \in Served
    PROVE  ServedFile(i) =
             [c2_host |-> ServingHost(files[i]), evidence |-> "served_file", evidence_rank |-> 1, nth |-> i,
              sha256 |-> Sha256(files[i]),
              content |-> IF files[i].content_b64 \in Scripts THEN files[i].content_b64 ELSE None,
              via |-> None]
  <1> DEFINE sha == Sha256(files[i])
             host == ServingHost(files[i])
             text == IF files[i].content_b64 \in Scripts THEN files[i].content_b64 ELSE None
             b == BaseObs(host, "served_file", i)
             c == [b EXCEPT !.sha256 = sha]
  <1>1. ServedFile(i) = [b EXCEPT !.sha256 = sha, !.content = text]
    BY DEF ServedFile
  <1>2. b = [c2_host |-> host, evidence |-> "served_file", evidence_rank |-> 1, nth |-> i,
             sha256 |-> None, content |-> None, via |-> None]
    BY DEF BaseObs, Rank
  <1> HIDE DEF sha, host, text, b
  <1>3. c =
            [c2_host |-> host, evidence |-> "served_file", evidence_rank |-> 1, nth |-> i,
             sha256 |-> sha, content |-> None, via |-> None]
    BY <1>2
  <1>4. ServedFile(i) = [c EXCEPT !.content = text]
    BY <1>1
  <1> HIDE DEF c
  <1>5. [c EXCEPT !.content = text] =
            [c2_host |-> host, evidence |-> "served_file", evidence_rank |-> 1, nth |-> i,
             sha256 |-> sha, content |-> text, via |-> None]
    BY <1>3
  <1> QED
    BY <1>4, <1>5 DEF sha, host, text

LEMMA CallbackRow ==
    ASSUME NEW h, NEW i
    PROVE  FileCallback(h, i) =
             [c2_host |-> h, evidence |-> "file_callback", evidence_rank |-> 2, nth |-> i,
              sha256 |-> None, content |-> None, via |-> Sha256(files[i])]
  BY DEF FileCallback, BaseObs, Rank

LEMMA ShellRow ==
    ASSUME NEW h
    PROVE  BaseObs(h, "shell_reference", 0) =
             [c2_host |-> h, evidence |-> "shell_reference", evidence_rank |-> 0, nth |-> 0,
              sha256 |-> None, content |-> None, via |-> None]
  BY DEF BaseObs, Rank

\* An edge is of the first served entry that gives it.
LEMMA EdgeIs ==
    ASSUME NEW r
    PROVE  r \in FileCallbacks <=>
             \E i \in Served : \E h \in Callbacks(i) : r = FileCallback(h, i) /\ ~ SeenBefore(h, i)
  BY DEF FileCallbacks, SeenBefore

\* Where a row comes from.
LEMMA RowIs ==
    ASSUME ExtractIInv, NEW r \in rows
    PROVE  \/ \E h \in Hosts : r = BaseObs(h, "shell_reference", 0)
           \/ \E i \in Served : r = ServedFile(i)
           \/ \E i \in Served : \E h \in Callbacks(i) : r = FileCallback(h, i) /\ ~ SeenBefore(h, i)
  <1>1. rows = AllObservations
    BY DEF ExtractIInv, WrittenInv
  <1>2. C2Hosts \subseteq Hosts
    <2>1. \A i \in DOMAIN files : files[i] \in FileRef
      BY DEF ExtractIInv, FilesInv
    <2>2. \A i \in DOMAIN files : files[i].url \in Hosts \cup {None}
      BY <2>1 DEF FileRef
    <2> QED
      BY <2>2 DEF ExtractIInv, C2Hosts
  <1> QED
    BY <1>1, <1>2, EdgeIs DEF AllObservations, ShellReferences

\* The fields of a served_file row and of an edge.
LEMMA RowFields ==
    ASSUME ExtractIInv, NEW r \in rows
    PROVE  /\ r \in Observation
           /\ r.content \in Scripts \cup {None}
           /\ r.evidence = "file_callback" =>
                \E i \in Served : \E h \in Callbacks(i) : r = FileCallback(h, i) /\ ~ SeenBefore(h, i)
  <1>1. CASE \E h \in Hosts : r = BaseObs(h, "shell_reference", 0)
    BY <1>1, ShellRow, ExtractAssumption DEF Observation, Rank
  <1>2. CASE \E i \in Served : r = ServedFile(i)
    <2>1. PICK i \in Served : r = ServedFile(i)
      BY <1>2
    <2>2. /\ i \in 1 .. MaxFiles
          /\ ServingHost(files[i]) \in Hosts
          /\ Sha256(files[i]) \in Payloads
      BY ServedIs
    <2> HIDE DEF Sha256, ServingHost
    <2> QED
      BY <2>1, <2>2, ServedRow, ExtractAssumption DEF Observation, Rank
  <1>3. CASE \E i \in Served : \E h \in Callbacks(i) : r = FileCallback(h, i) /\ ~ SeenBefore(h, i)
    <2>1. PICK i \in Served : \E h \in Callbacks(i) : r = FileCallback(h, i)
      BY <1>3
    <2>2. PICK h \in Callbacks(i) : r = FileCallback(h, i)
      BY <2>1
    <2>3. i \in 1 .. MaxFiles /\ h \in Hosts /\ Sha256(files[i]) \in Payloads
      BY ServedIs
    <2> QED
      <3> DEFINE sha == Sha256(files[i])
      <3>1. r = [c2_host |-> h, evidence |-> "file_callback", evidence_rank |-> 2, nth |-> i,
                 sha256 |-> None, content |-> None, via |-> sha]
        BY <2>2, CallbackRow
      <3>2. sha \in Payloads
        BY <2>3
      <3> HIDE DEF sha
      <3>3. r \in Observation /\ r.content = None
        BY <2>3, <3>1, <3>2, ExtractAssumption DEF Observation, Rank
      <3> QED
        BY <1>3, <3>3
  <1> QED
    BY <1>1, <1>2, <1>3, RowIs

-----------------------------------------------------------------------------
(***************************************************************************)
(* What the rows and the document never hold.                              *)
(***************************************************************************)

\* The entry an edge comes from has a served_file row, and is not from the
\* host that the edge leads to.
LEMMA ArtifactThere == ExtractIInv => EdgesHaveArtifact
  <1> SUFFICES ASSUME ExtractIInv, NEW e \in RowsOf("file_callback")
               PROVE  \E s \in RowsOf("served_file") :
                        s.nth = e.nth /\ s.sha256 = e.via /\ e.via # None /\ s.c2_host # e.c2_host
    BY DEF EdgesHaveArtifact
  <1>1. e \in rows /\ e.evidence = "file_callback"
    BY DEF RowsOf
  <1>2. PICK i \in Served : \E h \in Callbacks(i) : e = FileCallback(h, i)
    BY <1>1, RowFields
  <1>3. PICK h \in Callbacks(i) : e = FileCallback(h, i)
    BY <1>2
  <1>4. ServedFile(i) \in rows
    BY <1>1 DEF ExtractIInv, WrittenInv, AllObservations
  <1>5. /\ ServedFile(i).evidence = "served_file"
        /\ ServedFile(i).nth = i
        /\ ServedFile(i).sha256 = Sha256(files[i])
        /\ ServedFile(i).c2_host = ServingHost(files[i])
    BY ServedRow
  <1>6. e.nth = i /\ e.via = Sha256(files[i]) /\ e.c2_host = h
    BY <1>3, CallbackRow
  <1>7. h # ServingHost(files[i]) /\ Sha256(files[i]) # None
    BY ServedIs, ExtractAssumption
  <1> QED
    BY <1>4, <1>5, <1>6, <1>7 DEF RowsOf

\* Of two edges with the same host and file the later one was seen before.
LEMMA EdgeOnce == ExtractIInv => OneEdgePerHostAndFile
  <1> SUFFICES ASSUME ExtractIInv, NEW d \in RowsOf("file_callback"), NEW e \in RowsOf("file_callback"),
                      d.c2_host = e.c2_host, d.via = e.via
               PROVE  d = e
    BY DEF OneEdgePerHostAndFile
  <1>1. PICK i \in Served : \E h \in Callbacks(i) : d = FileCallback(h, i) /\ ~ SeenBefore(h, i)
    BY RowFields DEF RowsOf
  <1>2. PICK j \in Served : \E g \in Callbacks(j) : e = FileCallback(g, j) /\ ~ SeenBefore(g, j)
    BY RowFields DEF RowsOf
  <1>3. PICK h \in Callbacks(i) : d = FileCallback(h, i) /\ ~ SeenBefore(h, i)
    BY <1>1
  <1>4. PICK g \in Callbacks(j) : e = FileCallback(g, j) /\ ~ SeenBefore(g, j)
    BY <1>2
  <1>5. h = g /\ Sha256(files[i]) = Sha256(files[j])
    BY <1>3, <1>4, CallbackRow
  <1>6. ~ (i < j) /\ ~ (j < i)
    BY <1>3, <1>4, <1>5 DEF SeenBefore
  <1>7. i \in Nat /\ j \in Nat
    BY ServedIs
  <1> QED
    BY <1>3, <1>4, <1>5, <1>6, <1>7

\* The document's entries are the session's without the bytes.
LEMMA NoBytes == ExtractIInv => BytesNeverReachElasticsearch /\ \A i \in DOMAIN doc : doc[i] \in FileRef
  <1> SUFFICES ASSUME ExtractIInv
               PROVE  BytesNeverReachElasticsearch /\ \A i \in DOMAIN doc : doc[i] \in FileRef
    OBVIOUS
  <1>1. \A r \in rows : r.content \in Scripts \cup {None}
    BY RowFields
  <1>2. ASSUME NEW i \in DOMAIN StripBytes
        PROVE  StripBytes[i] \in FileRef /\ StripBytes[i].content_b64 = None
    <2>1. files[i] \in FileRef /\ StripBytes[i] = [files[i] EXCEPT !.content_b64 = None]
      BY <1>2 DEF ExtractIInv, FilesInv, StripBytes
    <2> QED
      BY <2>1 DEF FileRef
  <1>3. doc = StripBytes \/ doc = <<>>
    BY DEF ExtractIInv, WrittenInv
  <1> QED
    BY <1>1, <1>2, <1>3 DEF BytesNeverReachElasticsearch

\* No session's rows hold an edge without its artifact or twice, and neither its
\* rows nor its document the bytes that were inlined for transport.
THEOREM ExtractCorrect == ExtractSpec => []ExtractInv
  <1>1. ExtractIInv => ExtractInv
    <2> SUFFICES ASSUME ExtractIInv PROVE ExtractInv
      OBVIOUS
    <2>1. ExtractTypeOK
      BY NoBytes, RowFields DEF ExtractIInv, FilesInv, ExtractTypeOK
    <2> QED
      BY <2>1, ArtifactThere, EdgeOnce, NoBytes DEF ExtractInv
  <1> QED
    BY <1>1, ExtractStarts, ExtractMoves, PTL DEF ExtractSpec

-----------------------------------------------------------------------------
(***************************************************************************)
(* What the rows always hold.                                              *)
(***************************************************************************)

\* A non-empty set of entry numbers has a first one.
LEMMA FirstEntry ==
    ASSUME NEW S \in SUBSET Nat, S # {}
    PROVE  \E m \in S : \A x \in S : ~ (x < m)
  <1>1. \E m \in S : \A x \in S : <<x, m>> \notin OpToRel(<, Nat)
    BY NatLessThanWellFounded, WFMin
  <1> QED
    BY <1>1 DEF OpToRel

\* The deduplication keeps an edge for every host and file: the one of the
\* first entry that gives it.
LEMMA EdgeKept ==
    ASSUME ExtractIInv, pc = "handled", NEW i \in Served, NEW h \in Callbacks(i)
    PROVE  \E r \in rows : r.c2_host = h /\ r.evidence_rank = 2 /\ r.via = files[i].shasum
  <1> DEFINE Givers == {j \in Served : h \in Callbacks(j) /\ Sha256(files[j]) = Sha256(files[i])}
  <1>1. Givers \in SUBSET Nat /\ Givers # {}
    BY ServedIs
  <1> HIDE DEF Givers
  <1>2. PICK j \in Givers : \A x \in Givers : ~ (x < j)
    BY <1>1, FirstEntry
  <1>3. j \in Served /\ h \in Callbacks(j) /\ Sha256(files[j]) = Sha256(files[i])
    BY DEF Givers
  <1>4. ~ SeenBefore(h, j)
    BY <1>2, <1>3 DEF SeenBefore, Givers
  <1>5. FileCallback(h, j) \in rows
    BY <1>3, <1>4, EdgeIs DEF ExtractIInv, WrittenInv, AllObservations
  <1>6. Sha256(files[i]) = files[i].shasum
    BY ServedIs
  <1>7. /\ FileCallback(h, j).c2_host = h
        /\ FileCallback(h, j).evidence_rank = 2
        /\ FileCallback(h, j).via = Sha256(files[j])
    BY CallbackRow
  <1> QED
    BY <1>3, <1>5, <1>6, <1>7

\* A served entry has its row.
LEMMA ServedKept ==
    ASSUME ExtractIInv, pc = "handled", NEW i \in Served
    PROVE  \E r \in rows : r.c2_host = ServingHost(files[i]) /\ r.evidence_rank = 1 /\ r.nth = i
  <1>1. ServedFile(i) \in rows
    BY DEF ExtractIInv, WrittenInv, AllObservations
  <1>2. /\ ServedFile(i).c2_host = ServingHost(files[i])
        /\ ServedFile(i).evidence_rank = 1
        /\ ServedFile(i).nth = i
    BY ServedRow
  <1> QED
    BY <1>1, <1>2

\* However the entries are ordered and whichever of them lack their bytes, every
\* host of a handled session has a row of the highest rank that a command, a
\* download or the bytes of one support.
THEOREM EvidenceKept == ExtractSpec => []EvidenceIsComplete
  <1>1. ExtractIInv => EvidenceIsComplete
    <2> SUFFICES ASSUME ExtractIInv, pc = "handled"
                 PROVE  EvidenceIsComplete
      BY DEF EvidenceIsComplete
    <2>1. \A h \in named : \E r \in rows : r.c2_host = h
      <3> TAKE h \in named
      <3>1. BaseObs(h, "shell_reference", 0) \in rows
        BY DEF ExtractIInv, WrittenInv, AllObservations, ShellReferences, C2Hosts
      <3>2. BaseObs(h, "shell_reference", 0).c2_host = h
        BY ShellRow
      <3> QED
        BY <3>1, <3>2
    <2>2. ASSUME NEW i \in DOMAIN files, Retrieved(files[i]), ServingHost(files[i]) # None
          PROVE  /\ \E r \in rows : r.c2_host = ServingHost(files[i]) /\ r.evidence_rank = 1 /\ r.nth = i
                 /\ files[i].content_b64 # None =>
                      \A h \in Names[files[i].content_b64] \ {ServingHost(files[i])} :
                         \E r \in rows : r.c2_host = h /\ r.evidence_rank = 2 /\ r.via = files[i].shasum
      <3>1. i \in Served
        BY <2>2 DEF Served
      <3>2. files[i].content_b64 # None =>
                Callbacks(i) = Names[files[i].content_b64] \ {ServingHost(files[i])}
        BY DEF Callbacks
      <3> QED
        BY <3>1, <3>2, ServedKept, EdgeKept
    <2> QED
      BY <2>1, <2>2 DEF EvidenceIsComplete
  <1> QED
    BY <1>1, ExtractStarts, ExtractMoves, PTL DEF ExtractSpec
=============================================================================
