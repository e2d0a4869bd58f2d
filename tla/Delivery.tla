------------------------------ MODULE Delivery ------------------------------
(***************************************************************************)
(* The ingest path: Fluentd's file buffer (external) sends each chunk as   *)
(* one frame on a connection of its own; a handler thread of the           *)
(* ForwardServer processes the records of the frame in order and writes    *)
(* each record's session document, then its ledger rows, to Elasticsearch; *)
(* the chunk is acked after the last record. Connections run concurrently, *)
(* Elasticsearch and the process may fail at any step, and a chunk whose   *)
(* ack does not arrive in time is sent again while its first handler may   *)
(* still be running.                                                       *)
(***************************************************************************)
EXTENDS Naturals, Sequences

CONSTANTS
    Chunks,      \* chunks in Fluentd's buffer
    Conns,       \* connections, each served by one handler thread
    NoConn,      \* "not waiting on any connection"
    Frame,       \* [Chunks -> Seq(Record)]: what parse_frame yields per chunk
    Rejected,    \* documents Elasticsearch answers with a 4xx
    MaxAttempts, \* POST attempts of EsWriter.index (5 in the code)
    MaxFaults    \* bound: faults of the environment in one behaviour

\* A record as the handler sees it: does its tag have the enrichable prefix,
\* does process() raise on it, and how many ledger rows does process() yield.
Record == [enrichable : BOOLEAN, raises : BOOLEAN, rows : Nat]

ASSUME DeliveryAssumption ==
    /\ Frame \in [Chunks -> Seq(Record)]
    /\ NoConn \notin Conns
    /\ MaxAttempts \in Nat \ {0}
    /\ MaxFaults \in Nat

VARIABLES
    buffer,    \* chunks Fluentd has not dropped yet
    waiting,   \* chunk -> the connection whose ack Fluentd waits for
    handler,   \* connection -> state of its handler thread
    boot,      \* PUTs of ensure_bootstrap done since the process started
    templates, \* policies and templates installed in Elasticsearch
    stored,    \* documents <<chunk, record, n>> Elasticsearch holds
    copied,    \* the stored documents it holds more than once
    faults     \* environment faults so far

esVars == <<templates, stored, copied>>
vars == <<buffer, waiting, handler, boot, templates, stored, copied, faults>>

(***************************************************************************)
(* _handle_record: the documents a record costs. Document 1 is the session *)
(* (enriched, or stripped when process() raised), 2 .. are ledger rows.    *)
(***************************************************************************)
DocCount(r) ==
    IF ~r.enrichable THEN 0 ELSE IF r.raises THEN 1 ELSE 1 + r.rows

Owed == [c \in Chunks |-> [i \in DOMAIN Frame[c] |-> DocCount(Frame[c][i])]]

\* The order of the PUTs of ensure_bootstrap.
BootstrapPuts == <<"ilm", "ledger", "entities", "vt", "intel">>

\* A faulty variant: the server listens after its first PUT.
ListeningEarly == boot > 0

Listening == boot = Len(BootstrapPuts)

IdleHandler == [pc |-> "idle", chunk |-> NoConn, rec |-> 1, doc |-> 1, attempt |-> 0]

Init ==
    /\ buffer = Chunks
    /\ waiting = [c \in Chunks |-> NoConn]
    /\ handler = [t \in Conns |-> IdleHandler]
    /\ boot = 0
    /\ templates = {}
    /\ stored = {}
    /\ copied = {}
    /\ faults = 0

Fault == faults < MaxFaults /\ faults' = faults + 1

-----------------------------------------------------------------------------
(***************************************************************************)
(* The process: serve() runs ensure_bootstrap before it listens; a PUT     *)
(* that fails for good ends the process, and the container restarts it.    *)
(***************************************************************************)
BootPut ==
    /\ ~Listening
    /\ templates' = templates \cup {BootstrapPuts[boot + 1]}
    /\ boot' = boot + 1
    /\ UNCHANGED <<buffer, waiting, handler, stored, copied, faults>>

\* The process dies: while bootstrapping because _put gave up, or later. All
\* handler threads (daemon threads) and their connections go with it.
Crash ==
    /\ Fault
    /\ boot' = 0
    /\ handler' = [t \in Conns |-> IdleHandler]
    /\ UNCHANGED <<buffer, waiting, esVars>>

-----------------------------------------------------------------------------
(***************************************************************************)
(* Fluentd's out_forward with require_ack_response (external).             *)
(***************************************************************************)
Flush(c, t) ==
    /\ c \in buffer
    /\ waiting[c] = NoConn
    /\ Listening
    /\ handler[t].pc = "idle"
    /\ \A d \in Chunks : waiting[d] # t
    /\ waiting' = [waiting EXCEPT ![c] = t]
    /\ handler' = [handler EXCEPT ![t] = [IdleHandler EXCEPT !.pc = "handling", !.chunk = c]]
    /\ UNCHANGED <<buffer, boot, esVars, faults>>

ReceiveAck(c) ==
    /\ waiting[c] # NoConn
    /\ handler[waiting[c]].pc = "acked"
    /\ handler[waiting[c]].chunk = c
    /\ buffer' = buffer \ {c}
    /\ waiting' = [waiting EXCEPT ![c] = NoConn]
    /\ handler' = [handler EXCEPT ![waiting[c]] = IdleHandler]
    /\ UNCHANGED <<boot, esVars, faults>>

\* The handler closed the connection without an ack: the chunk is taken back.
ConnectionLost(c) ==
    /\ waiting[c] # NoConn
    /\ handler[waiting[c]].pc = "idle"
    /\ waiting' = [waiting EXCEPT ![c] = NoConn]
    /\ UNCHANGED <<buffer, handler, boot, esVars, faults>>

\* ack_response_timeout passes (or the ack is lost on the way): the chunk is
\* taken back while its handler, if it is still running, goes on.
AckTimeout(c) ==
    /\ waiting[c] # NoConn
    /\ handler[waiting[c]].pc # "idle"
    /\ Fault
    /\ waiting' = [waiting EXCEPT ![c] = NoConn]
    /\ handler' = IF handler[waiting[c]].pc = "acked"
                  THEN [handler EXCEPT ![waiting[c]] = IdleHandler]
                  ELSE handler
    /\ UNCHANGED <<buffer, boot, esVars>>

-----------------------------------------------------------------------------
(***************************************************************************)
(* _ForwardHandler: one thread per connection.                             *)
(***************************************************************************)
Handling(t) == handler[t].pc = "handling"

AtRecord(t) == Handling(t) /\ handler[t].rec \in DOMAIN Frame[handler[t].chunk]

\* The number of documents the record the thread is at costs.
Docs(t) == Owed[handler[t].chunk][handler[t].rec]

\* A faulty variant: the ledger rows are written before the session.
DocRowsFirst(t) ==
    <<handler[t].chunk, handler[t].rec, Docs(t) + 1 - handler[t].doc>>

Doc(t) == <<handler[t].chunk, handler[t].rec, handler[t].doc>>

\* A faulty variant: the exception takes the whole process' handlers along.
RaiseEverywhere(t) == handler' = [u \in Conns |-> IdleHandler]

\* The exception reaches handle(): log, and return without an ack.
Raise(t) == handler' = [handler EXCEPT ![t] = IdleHandler]

\* A record whose tag is not enrichable is ignored.
SkipRecord(t) ==
    /\ AtRecord(t)
    /\ Docs(t) = 0
    /\ handler' = [handler EXCEPT ![t].rec = @ + 1]
    /\ UNCHANGED <<buffer, waiting, boot, esVars, faults>>

\* EsWriter.index is about to POST the next document of the record.
Posting(t) == AtRecord(t) /\ Docs(t) # 0

\* Elasticsearch adds a document: _doc without an id always creates one.
Create(d) ==
    /\ stored' = stored \cup {d}
    /\ copied' = copied \cup (stored \cap {d})
    /\ UNCHANGED templates

\* The handler's state after the POST of a document of a record with n of them.
PastDoc(h, n) ==
    IF h.doc < n THEN [h EXCEPT !.doc = @ + 1, !.attempt = 0]
                 ELSE [h EXCEPT !.rec = @ + 1, !.doc = 1, !.attempt = 0]

\* 2xx: go on with the next document, then with the next record.
PostOk(t) ==
    /\ Posting(t)
    /\ Doc(t) \notin Rejected
    /\ Create(Doc(t))
    /\ handler' = [handler EXCEPT ![t] = PastDoc(handler[t], Docs(t))]
    /\ UNCHANGED <<buffer, waiting, boot, faults>>

\* 429, 502, 503, 504 or an unreachable node: try again, five times in all.
\* Behind a 504 the document may have been added.
PostUnavailable(t) ==
    /\ Posting(t)
    /\ Fault
    /\ \/ UNCHANGED esVars
       \/ Doc(t) \notin Rejected /\ Create(Doc(t))
    /\ IF handler[t].attempt + 1 < MaxAttempts
       THEN handler' = [handler EXCEPT ![t].attempt = @ + 1]
       ELSE Raise(t)
    /\ UNCHANGED <<buffer, waiting, boot>>

\* A faulty variant: a write without an answer is taken for done.
PostUnansweredIgnored(t) ==
    /\ Posting(t)
    /\ Fault
    /\ UNCHANGED esVars
    /\ handler' = [handler EXCEPT ![t] = PastDoc(handler[t], Docs(t))]
    /\ UNCHANGED <<buffer, waiting, boot>>

\* No answer within the timeout, or the connection breaks while the answer is
\* read: neither an HTTPError nor a URLError, so index does not retry. The
\* document may have been added.
PostUnanswered(t) ==
    /\ Posting(t)
    /\ Fault
    /\ \/ UNCHANGED esVars
       \/ Doc(t) \notin Rejected /\ Create(Doc(t))
    /\ Raise(t)
    /\ UNCHANGED <<buffer, waiting, boot>>

\* Any other HTTP error, such as a 400 for a document that does not fit the
\* mapping, is raised at once.
PostRejected(t) ==
    /\ Posting(t)
    /\ Doc(t) \in Rejected
    /\ Raise(t)
    /\ UNCHANGED <<buffer, waiting, boot, esVars, faults>>

\* Every record of the frame was handled: ack the chunk. If Fluentd has given
\* up on the connection the bytes go nowhere and the handler ends.
SendAck(t) ==
    /\ Handling(t)
    /\ handler[t].rec \notin DOMAIN Frame[handler[t].chunk]
    /\ handler' = [handler EXCEPT ![t] =
            IF waiting[handler[t].chunk] = t THEN [@ EXCEPT !.pc = "acked"]
                                             ELSE IdleHandler]
    /\ UNCHANGED <<buffer, waiting, boot, esVars, faults>>

-----------------------------------------------------------------------------
HandlerStep(t) ==
    \/ SkipRecord(t)
    \/ PostOk(t)
    \/ PostRejected(t)
    \/ SendAck(t)

EsFault(t) == PostUnavailable(t) \/ PostUnanswered(t)

FluentdStep(c) ==
    \/ \E t \in Conns : Flush(c, t)
    \/ ReceiveAck(c)
    \/ ConnectionLost(c)

Next ==
    \/ BootPut
    \/ Crash
    \/ \E c \in Chunks : FluentdStep(c) \/ AckTimeout(c)
    \/ \E t \in Conns : HandlerStep(t) \/ EsFault(t)

Spec == Init /\ [][Next]_vars

\* Fluentd retries for ever (retry_forever), a running thread goes on, and the
\* restart policy brings a dead process back. Faults are finitely many.
Fairness ==
    /\ WF_vars(BootPut)
    /\ \A c \in Chunks : WF_vars(FluentdStep(c))
    /\ \A t \in Conns : WF_vars(HandlerStep(t))

FairSpec == Spec /\ Fairness

-----------------------------------------------------------------------------
\* The abstract specification of the path, over buffer and stored.
Promise == INSTANCE AtLeastOnce
    WITH Chunks <- Chunks, Owed <- Owed, buffer <- buffer, stored <- stored

HandlerState ==
    [pc : {"idle", "handling", "acked"}, chunk : Chunks \cup {NoConn},
     rec : Nat \ {0}, doc : Nat \ {0}, attempt : 0 .. MaxAttempts - 1]

\* Types of the variables; a handler at work has a chunk, and a chunk
\* Fluentd waits for is in its buffer.
TypeOK ==
    /\ buffer \in SUBSET Chunks
    /\ waiting \in [Chunks -> Conns \cup {NoConn}]
    /\ handler \in [Conns -> HandlerState]
    /\ \A t \in Conns : handler[t].pc # "idle" => handler[t].chunk \in Chunks
    /\ boot \in 0 .. Len(BootstrapPuts)
    /\ templates \subseteq {BootstrapPuts[k] : k \in 1 .. Len(BootstrapPuts)}
    /\ stored \subseteq Chunks \X Nat \X Nat
    /\ copied \subseteq stored
    /\ faults \in 0 .. MaxFaults

\* At-least-once delivery (forward.py: "the ack is sent ONLY after every
\* record in the frame has been handled without raising"): a chunk Fluentd no
\* longer holds has its session documents and all its ledger rows in
\* Elasticsearch, whatever failed, was resent or was acked late on the way.
AckedImpliesWritten ==
    \A c \in Chunks \ buffer : \A i \in DOMAIN Owed[c] :
        \A n \in 1 .. Owed[c][i] : <<c, i, n>> \in stored

\* A handler thread at document n of record i has written everything owed
\* before it, and one that acked is past the last record: what makes an ack
\* mean delivery although the thread may have been given up by Fluentd and the
\* same chunk be handled by another thread at the same time.
HandlerProgress ==
    \A t \in Conns : handler[t].pc # "idle" =>
        /\ Promise!StoredUpTo(handler[t].chunk, handler[t].rec, handler[t].doc)
        /\ AtRecord(t) => handler[t].doc = 1 \/ handler[t].doc <= Docs(t)
        /\ handler[t].pc = "acked" => handler[t].rec \notin DOMAIN Frame[handler[t].chunk]

\* At-least-once delivery together with what makes it inductive: an ack means
\* delivery because every handler has really written what it is past.
DeliveryInv == TypeOK /\ HandlerProgress /\ AckedImpliesWritten

\* ensure_bootstrap runs before the server listens, so no ledger row ever
\* lands in an index without the ledger template and its ILM policy (a
\* geo_point never dynamic-maps), across crashes and failing bootstraps.
MappedBeforeFirstWrite ==
    stored # {} => {"ilm", "ledger"} \subseteq templates

\* The documents of a chunk first appear in frame order and none is skipped:
\* the detailed protocol implements the abstract promise.
AtLeastOnceSpec == Promise!Spec

\* With finitely many faults, every chunk no document of which Elasticsearch
\* rejects is acked in the end, also beside chunks that are retried for ever.
CleanChunksDelivered ==
    \A c \in Chunks :
        (\A d \in Rejected : d[1] # c) => <>(c \notin buffer)

\* A document Elasticsearch holds twice was paid for by a fault: with none, and
\* unless a document of its chunk is refused so that the chunk is sent again
\* for ever, each session and each ledger row is written once, whatever other
\* connections do.
DuplicatesNeedAFault ==
    \A d \in copied : faults > 0 \/ \E r \in Rejected : r[1] = d[1]
=============================================================================
