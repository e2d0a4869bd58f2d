------------------------------- MODULE Reason -------------------------------
(***************************************************************************)
(* The reason job and the feed: passes of run_once roll the ledger rows of *)
(* the retention window up into one entity per C2 host, page by page of a  *)
(* composite aggregation, then delete the entities whose last sighting     *)
(* left the window; the feed reads the entity index at any time. Ledger    *)
(* rows arrive, late ones too, and time passes between any two requests;   *)
(* writes to the entity index become searchable only at the next refresh.  *)
(***************************************************************************)
EXTENDS Integers, FiniteSets, FiniteSetsExt

CONSTANTS
    Hosts,       \* C2 hosts, as integers in the order of the composite key
    NoEntity,    \* "no document with this _id"
    Unindexable, \* hosts Elasticsearch does not accept as a document _id
    PageSize,    \* buckets per page of the aggregation (500 in the code)
    Retention,   \* ENTITY_RETENTION_DAYS
    Window,      \* the feed's window
    MinStage,    \* the feed's minimum stage, as an index into STAGE_ORDER
    Ranks,       \* stage ranks the rows have (0, 1, 2 in the code)
    MaxTime,     \* bound: last day
    MaxRows,     \* bound: rows in the ledger
    MaxFaults    \* bound: failing requests

ASSUME ReasonAssumption ==
    /\ Hosts \subseteq Nat \ {0}
    /\ NoEntity \notin [first_seen : Nat, last_seen : Nat, rank : 0 .. 2, updated_at : Nat]
    /\ PageSize \in Nat \ {0}
    /\ {Retention, Window, MaxTime, MaxRows, MaxFaults} \subseteq Nat
    /\ MinStage \in 0 .. 2 /\ Ranks \subseteq 0 .. 2

VARIABLES
    clock,      \* today
    ledger,     \* rows of the evidence ledger
    entities,   \* host -> its document in the entity index, or NoEntity
    searchable, \* the entity index as a search sees it
    pass,       \* the reason job
    faults      \* failed requests so far

vars == <<clock, ledger, entities, searchable, pass, faults>>

Row == [host : Hosts, ts : 0 .. MaxTime, rank : Ranks]

Empty == [h \in {} |-> NoEntity]

Init ==
    /\ clock = 0
    /\ ledger = {}
    /\ entities = [h \in Hosts |-> NoEntity]
    /\ searchable = entities
    /\ pass = [pc |-> "sleep", ok |-> FALSE, now |-> 0, after |-> 0, page |-> Empty, seen |-> {}]
    /\ faults = 0

\* run_once fixes now, and with it the start of the window, when it starts.
Since == pass.now - Retention

-----------------------------------------------------------------------------
(***************************************************************************)
(* The environment: time, new sightings (at or before today: a chunk may   *)
(* be delivered days after its sessions), the refresh of the entity index. *)
(***************************************************************************)
Tick ==
    /\ clock < MaxTime
    /\ pass.pc # "sleep" => clock = pass.now \* a pass takes less than a day
    /\ clock' = clock + 1
    /\ UNCHANGED <<ledger, entities, searchable, pass, faults>>

Sight(r) ==
    /\ r.ts <= clock
    /\ Cardinality(ledger) < MaxRows
    /\ ledger' = ledger \cup {r}
    /\ UNCHANGED <<clock, entities, searchable, pass, faults>>

Refresh ==
    /\ searchable # entities
    /\ searchable' = entities
    /\ UNCHANGED <<clock, ledger, entities, pass, faults>>

-----------------------------------------------------------------------------
(***************************************************************************)
(* run_once.                                                               *)
(***************************************************************************)

\* The loop sleeps far longer than the index takes to refresh.
StartPass ==
    /\ pass.pc = "sleep"
    /\ searchable = entities
    /\ pass' = [pc |-> "paging", ok |-> FALSE, now |-> clock, after |-> 0,
                page |-> Empty, seen |-> ledger]
    /\ UNCHANGED <<clock, ledger, entities, searchable, faults>>

RowsInWindow(h) == {r \in ledger : r.host = h /\ r.ts >= Since}

\* The next buckets of the composite aggregation, in the order of the key.
PageHosts ==
    LET rest == {h \in Hosts : h > pass.after /\ RowsInWindow(h) # {}}
    IN  {h \in rest : Cardinality({g \in rest : g < h}) < PageSize}

\* One bucket per host: the metrics of its rows inside the window.
Bucket(h) ==
    [first_seen |-> Min({r.ts : r \in RowsInWindow(h)}),
     last_seen  |-> Max({r.ts : r \in RowsInWindow(h)}),
     rank       |-> Max({r.rank : r \in RowsInWindow(h)}),
     updated_at |-> pass.now]

\* A faulty variant: the next page starts one key too late.
ReadPageSkipping ==
    /\ pass.pc = "paging"
    /\ pass.page = Empty
    /\ pass' = IF PageHosts = {}
               THEN [pass EXCEPT !.pc = "decay"]
               ELSE [pass EXCEPT !.page = [h \in PageHosts |-> Bucket(h)],
                                 !.after = Min({Max(PageHosts) + 1, Max(Hosts)})]
    /\ UNCHANGED <<clock, ledger, entities, searchable, faults>>

\* A page; the empty page ends the loop.
ReadPage ==
    /\ pass.pc = "paging"
    /\ pass.page = Empty
    /\ pass' = IF PageHosts = {}
               THEN [pass EXCEPT !.pc = "decay"]
               ELSE [pass EXCEPT !.page = [h \in PageHosts |-> Bucket(h)],
                                 !.after = Max(PageHosts)]
    /\ UNCHANGED <<clock, ledger, entities, searchable, faults>>

NextHost == Min(DOMAIN pass.page)

\* A faulty variant: the exception ends the loop of run().
PassRaisesForGood == pass' = [pass EXCEPT !.pc = "dead", !.page = Empty]

\* The exception ends the pass; run() logs it and sleeps.
PassRaises == pass' = [pass EXCEPT !.pc = "sleep", !.page = Empty]

\* index_doc of the next bucket of the page, with _id = c2_host.
Upsert ==
    /\ pass.pc = "paging"
    /\ pass.page # Empty
    /\ NextHost \notin Unindexable
    /\ entities' = [entities EXCEPT ![NextHost] = pass.page[NextHost]]
    /\ pass' = [pass EXCEPT !.page = [h \in DOMAIN pass.page \ {NextHost} |-> pass.page[h]]]
    /\ UNCHANGED <<clock, ledger, searchable, faults>>

UpsertRefused ==
    /\ pass.pc = "paging"
    /\ pass.page # Empty
    /\ NextHost \in Unindexable
    /\ PassRaises
    /\ UNCHANGED <<clock, ledger, entities, searchable, faults>>

\* What delete_by_query matches, and what of it was written since the refresh:
\* Elasticsearch refuses to delete a version other than the one it found.
Expired == {h \in Hosts : searchable[h] # NoEntity /\ searchable[h].last_seen < Since}
Conflicting == {h \in Expired : entities[h] # searchable[h]}

Without(D) == [h \in Hosts |-> IF h \in D THEN NoEntity ELSE entities[h]]

\* A faulty variant: the matches are deleted by _id, whatever their version.
DecayById ==
    /\ pass.pc = "decay"
    /\ entities' = Without(Expired)
    /\ searchable' = entities'
    /\ pass' = [pass EXCEPT !.pc = "sleep", !.ok = TRUE]
    /\ UNCHANGED <<clock, ledger, faults>>

\* delete_by_query?refresh=true, the last step of the pass.
Decay ==
    /\ pass.pc = "decay"
    /\ Conflicting = {}
    /\ entities' = Without(Expired)
    /\ searchable' = entities'
    /\ pass' = [pass EXCEPT !.pc = "sleep", !.ok = TRUE]
    /\ UNCHANGED <<clock, ledger, faults>>

\* A version conflict aborts delete_by_query part of the way: 409, and raise.
DecayConflict ==
    /\ pass.pc = "decay"
    /\ Conflicting # {}
    /\ \E D \in SUBSET (Expired \ Conflicting) : entities' = Without(D)
    /\ PassRaises
    /\ UNCHANGED <<clock, ledger, searchable, faults>>

\* A request of the pass fails (a search, an upsert, the VirusTotal cache, the
\* intel refresh), applied or not, or the process restarts.
PassFails ==
    /\ pass.pc # "sleep"
    /\ faults < MaxFaults
    /\ faults' = faults + 1
    /\ \/ UNCHANGED entities
       \/ /\ pass.page # Empty
          /\ NextHost \notin Unindexable
          /\ entities' = [entities EXCEPT ![NextHost] = pass.page[NextHost]]
       \/ /\ pass.pc = "decay"
          /\ \E D \in SUBSET (Expired \ Conflicting) : entities' = Without(D)
    /\ PassRaises
    /\ UNCHANGED <<clock, ledger, searchable>>

PassStep == StartPass \/ ReadPage \/ Upsert \/ UpsertRefused \/ Decay \/ DecayConflict

Next ==
    \/ Tick
    \/ \E r \in Row : Sight(r)
    \/ Refresh
    \/ PassStep
    \/ PassFails

Spec == Init /\ [][Next]_vars

\* The loop of run() never ends, and the index refreshes by itself.
FairSpec == Spec /\ WF_vars(PassStep) /\ WF_vars(Refresh)

-----------------------------------------------------------------------------
(***************************************************************************)
(* The feed.                                                               *)
(***************************************************************************)

\* _rank_to_stage, as an index into STAGE_ORDER.
Stage(rank) == IF rank >= 2 THEN 2 ELSE IF rank = 1 THEN 1 ELSE 0

\* A faulty variant: the window is applied to the time of the upsert.
FeedByUpdate ==
    {h \in Hosts : /\ searchable[h] # NoEntity
                   /\ Stage(searchable[h].rank) >= MinStage
                   /\ searchable[h].updated_at >= clock - Window}

\* build_feed: the hosts it returns today (its limit may only drop some).
Feed ==
    {h \in Hosts : /\ searchable[h] # NoEntity
                   /\ Stage(searchable[h].rank) >= MinStage
                   /\ searchable[h].last_seen >= clock - Window}

-----------------------------------------------------------------------------
Entity == [first_seen : 0 .. MaxTime, last_seen : 0 .. MaxTime, rank : Ranks,
           updated_at : 0 .. MaxTime]

\* Types; a pass never runs ahead of the clock and its page is of known hosts.
TypeOK ==
    /\ clock \in 0 .. MaxTime
    /\ ledger \subseteq Row
    /\ entities \in [Hosts -> Entity \cup {NoEntity}]
    /\ searchable \in [Hosts -> Entity \cup {NoEntity}]
    /\ \E D \in SUBSET Hosts : pass.page \in [D -> Entity]
    /\ pass \in [pc : {"sleep", "paging", "decay"}, ok : BOOLEAN, now : 0 .. clock,
                after : Hosts \cup {0}, page : {pass.page}, seen : SUBSET ledger]
    /\ faults \in 0 .. MaxFaults

FromLedger(h, e) ==
    LET rows == {r \in ledger : r.host = h /\ r.ts >= e.updated_at - Retention}
    IN  /\ \E r \in rows : r.ts = e.first_seen
        /\ \E r \in rows : r.ts = e.last_seen
        /\ \E r \in rows : r.rank = e.rank /\ r.ts \in e.first_seen .. e.last_seen

\* An entity is what the ledger said of its host at one moment: its sighting
\* times and its rank are those of rows of that host, inside the window of the
\* pass that wrote it. No pass mixes hosts, pages or windows.
EntityFromLedger == \A h \in Hosts : entities[h] # NoEntity => FromLedger(h, entities[h])

\* A pass that ran to its end has an entity for every row that was in the
\* ledger, inside the window, when it started: no host falls between two pages
\* although rows and hosts arrive between the requests.
PassIsComplete ==
    (pass.pc = "sleep" /\ pass.ok) =>
        \A r \in pass.seen : r.ts >= Since =>
            /\ entities[r.host] # NoEntity
            /\ entities[r.host].last_seen >= r.ts
            /\ entities[r.host].rank >= r.rank

\* ... and leaves no entity whose last sighting is outside the window.
PassDecays ==
    (pass.pc = "sleep" /\ pass.ok) =>
        \A h \in Hosts : entities[h] # NoEntity => entities[h].last_seen >= Since

\* The entity index is what the ledger says: every entity comes from rows of its
\* host, and a pass that ran to its end left none out and none too many.
ReasonInv == TypeOK /\ EntityFromLedger /\ PassIsComplete /\ PassDecays

\* What the feed lists was sighted inside its window, and reached its stage on
\* evidence no older than window and retention together (and the day a pass may
\* take), also when the reason job has been failing for any time and when the
\* index lags behind it.
FeedIsFresh ==
    \A h \in Feed :
        /\ \E r \in ledger : r.host = h /\ r.ts >= clock - Window
        /\ \E r \in ledger : /\ r.host = h /\ Stage(r.rank) >= MinStage
                             /\ r.ts >= clock - (Window + Retention + 1)

\* An entity never loses ground, whatever late rows and failed passes came
\* before: an upsert does not take its last sighting back, and decay does not
\* delete a host that was sighted again inside the window, although the search
\* it deletes by does not see the upserts of the same pass yet.
EntitiesNeverRegress ==
    [][\A h \in Hosts : entities[h] # NoEntity =>
         IF entities'[h] = NoEntity THEN entities[h].last_seen < Since
                                   ELSE entities'[h].last_seen >= entities[h].last_seen]_vars

\* Every row is rolled up in the end, unless it leaves the window first or a
\* host Elasticsearch refuses comes before its own in the order of the key.
RowsReachEntities ==
    \A r \in Row :
        (\A u \in Unindexable : r.host < u) =>
            (r \in ledger ~> \/ r.ts < clock - Retention
                             \/ /\ entities[r.host] # NoEntity
                                /\ entities[r.host].last_seen >= r.ts
                                /\ entities[r.host].rank >= r.rank)

\* An entity whose last sighting left the window goes, or is sighted again,
\* unless sightings of a host Elasticsearch refuses, which end every pass that
\* meets them before its decay, are in the window.
ExpiredEntitiesGo ==
    \A h \in Hosts :
        (entities[h] # NoEntity /\ entities[h].last_seen < clock - Retention)
            ~> \/ entities[h] = NoEntity
               \/ entities[h].last_seen >= clock - Retention
               \/ \E r \in ledger : r.host \in Unindexable /\ r.ts >= clock - Retention
\* Passes that fail, or that a refused host ends early, are made up for by
\* later ones: rows are rolled up and expired entities deleted in the end.
PassesCatchUp == RowsReachEntities /\ ExpiredEntitiesGo
=============================================================================
