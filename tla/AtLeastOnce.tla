---------------------------- MODULE AtLeastOnce ----------------------------
(***************************************************************************)
(* What the ingest path promises: a chunk leaves the forwarder's buffer    *)
(* only when every document the engine owes for it is in Elasticsearch,    *)
(* and the documents of a chunk first appear in the order of its frame,    *)
(* the session document of a record before its ledger rows.                *)
(***************************************************************************)
EXTENDS Naturals, Sequences

CONSTANTS
    Chunks, \* the chunks the forwarder ever buffers
    Owed    \* [Chunks -> Seq(0 .. n)]: per record of the frame, how many
            \* documents the engine owes for it (0: the record is not ours)

VARIABLES
    buffer,  \* chunks the forwarder still holds
    stored   \* documents <<chunk, record, n>> that Elasticsearch holds

vars == <<buffer, stored>>

\* Everything owed for c up to, and without, document n of record i.
StoredUpTo(c, i, n) ==
    \A k \in DOMAIN Owed[c] : \A m \in 1 .. Owed[c][k] :
        (k < i \/ (k = i /\ m < n)) => <<c, k, m>> \in stored

AllStored(c) ==
    \A k \in DOMAIN Owed[c] : \A m \in 1 .. Owed[c][k] : <<c, k, m>> \in stored

Init ==
    /\ buffer = Chunks
    /\ stored = {}

Store(c, i, n) ==
    /\ c \in buffer
    /\ <<c, i, n>> \notin stored
    /\ StoredUpTo(c, i, n)
    /\ stored' = stored \cup {<<c, i, n>>}
    /\ UNCHANGED buffer

Release(c) ==
    /\ c \in buffer
    /\ AllStored(c)
    /\ buffer' = buffer \ {c}
    /\ UNCHANGED stored

Next ==
    \E c \in Chunks :
        \/ Release(c)
        \/ \E i \in DOMAIN Owed[c] : \E n \in 1 .. Owed[c][i] : Store(c, i, n)

Spec == Init /\ [][Next]_vars
=============================================================================
