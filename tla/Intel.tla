------------------------------- MODULE Intel -------------------------------
(***************************************************************************)
(* IntelMatcher: the abuse.ch feeds are downloaded when their copy in the  *)
(* cache index is older than the TTL, stored there source by source, and   *)
(* the in-memory indexes the entities are matched against are rebuilt from *)
(* the cache. One refresh per reason pass, by a single thread; any request *)
(* of it may fail, and what a failed refresh did stays done.               *)
(***************************************************************************)
EXTENDS Integers, FiniteSets, FiniteSetsExt

CONSTANTS
    Sources,  \* the feeds, as integers in the order refresh visits them
    Iocs,     \* documents of the cache (_id = source:value), as integers in
              \* the order _load_indexes sorts them
    SourceOf, \* [Iocs -> Sources]
    Exports,  \* what a download of a feed may hold: a set of sets of Iocs
    IntelTTL, \* INTEL_TTL_HOURS, in hours
    NoIoc,    \* "no such document"
    Unindexable, \* Iocs whose _id Elasticsearch refuses (over 512 bytes)
    LoadPage, \* _LOAD_PAGE
    LoadCap,  \* _LOAD_CAP
    MaxIntelFaults \* bound: failing requests in one behaviour

ASSUME IntelAssumption ==
    /\ Sources \subseteq Nat \ {0} /\ Sources # {} /\ Iocs \subseteq Nat \ {0}
    /\ SourceOf \in [Iocs -> Sources]
    /\ Exports \subseteq SUBSET Iocs
    /\ {IntelTTL, LoadPage, LoadCap} \subseteq Nat \ {0}
    /\ NoIoc \notin 0 .. IntelTTL
    /\ Unindexable \subseteq Iocs
    /\ MaxIntelFaults \in Nat

VARIABLES
    age,       \* Ioc -> hours since its fetched_at (IntelTTL: that or older), or NoIoc
    restamped, \* documents whose fetched_at is the now of this refresh
    memory,    \* documents in the in-memory indexes
    loaded,    \* _loaded
    intelEnabled, \* client.enabled
    job,       \* the refresh: where it is, source, changed, download, load position
    intelFaults \* failed requests so far

intelVars == <<age, restamped, memory, loaded, intelEnabled, job, intelFaults>>
cacheVars == <<age, restamped>>
clientVars == <<memory, loaded, intelEnabled>>

Cached == {d \in Iocs : age[d] # NoIoc}
CachedOf(s) == {d \in Cached : SourceOf[d] = s}

Idle(ok) == [pc |-> "idle", ok |-> ok, src |-> 0, changed |-> FALSE, recs |-> {}, after |-> 0]

IntelInit ==
    /\ age = [d \in Iocs |-> NoIoc]
    /\ restamped = {}
    /\ memory = {}
    /\ loaded = FALSE
    /\ intelEnabled = TRUE
    /\ job = Idle(FALSE)
    /\ intelFaults = 0

IntelFault == intelFaults < MaxIntelFaults /\ intelFaults' = intelFaults + 1

Older(n) == Min({n + 1, IntelTTL})

\* An hour passes between two passes (a refresh takes less than an hour).
IntelTick ==
    /\ job.pc = "idle"
    /\ age' = [d \in Iocs |-> IF age[d] = NoIoc THEN NoIoc ELSE Older(age[d])]
    /\ UNCHANGED <<restamped, clientVars, job, intelFaults>>

-----------------------------------------------------------------------------
\* A faulty variant: the indexes are built once per process.
AfterLoadOnce(s, changed) ==
    IF \E r \in Sources : r > s
    THEN [Idle(FALSE) EXCEPT !.pc = "check", !.changed = changed,
                             !.src = Min({r \in Sources : r > s})]
    ELSE IF ~loaded THEN [Idle(FALSE) EXCEPT !.pc = "load"] ELSE Idle(TRUE)

\* refresh() after it is done with source s: the next one, or the rebuild of
\* the in-memory indexes, or nothing more to do.
After(s, changed) ==
    IF \E r \in Sources : r > s
    THEN [Idle(FALSE) EXCEPT !.pc = "check", !.changed = changed,
                             !.src = Min({r \in Sources : r > s})]
    ELSE IF changed \/ ~loaded THEN [Idle(FALSE) EXCEPT !.pc = "load"]
                               ELSE Idle(TRUE)

\* refresh is a no-op without a key, or after a 401.
StartRefresh ==
    /\ job.pc = "idle"
    /\ intelEnabled
    /\ restamped' = {}
    /\ job' = After(0, FALSE)
    /\ UNCHANGED <<age, clientVars, intelFaults>>

\* The exception leaves refresh; what it changed so far is forgotten.
Abort == job' = Idle(FALSE)

\* _latest_fetched and _is_stale.
Stale(s) == CachedOf(s) = {} \/ Min({age[d] : d \in CachedOf(s)}) >= IntelTTL

Check ==
    /\ job.pc = "check"
    /\ job' = IF Stale(job.src) THEN [job EXCEPT !.pc = "fetch"]
                                ELSE After(job.src, job.changed)
    /\ UNCHANGED <<cacheVars, clientVars, intelFaults>>

\* The search fails: an error status reads as "never fetched", an unreachable
\* node raises.
CheckFails ==
    /\ job.pc = "check"
    /\ IntelFault
    /\ \/ job' = [job EXCEPT !.pc = "fetch"]
       \/ Abort
    /\ UNCHANGED <<cacheVars, clientVars>>

\* client.fetch: download and parse one feed (external content).
Fetch ==
    /\ job.pc = "fetch"
    /\ \E x \in Exports :
         job' = [job EXCEPT !.pc = "bulk", !.recs = {d \in x : SourceOf[d] = job.src}]
    /\ UNCHANGED <<cacheVars, clientVars, intelFaults>>

\* Rate-limited, unreachable, or 401, which disables the client for good: the
\* feed is skipped. A broken transfer or an export of another shape raises.
FetchFails ==
    /\ job.pc = "fetch"
    /\ IntelFault
    /\ \/ intelEnabled' \in {intelEnabled, FALSE} /\ job' = After(job.src, job.changed)
       \/ Abort /\ UNCHANGED intelEnabled
    /\ UNCHANGED <<cacheVars, memory, loaded>>

Stamp(D) ==
    /\ age' = [d \in Iocs |-> IF d \in D THEN 0 ELSE age[d]]
    /\ restamped' = restamped \cup D

\* _store, first half: bulk_index of the download. A refused item does not
\* fail the request, and bulk_index does not look at the items.
Bulk ==
    /\ job.pc = "bulk"
    /\ Stamp(job.recs \ Unindexable)
    /\ job' = [job EXCEPT !.pc = "purge"]
    /\ UNCHANGED <<clientVars, intelFaults>>

\* bulk_index raises; Elasticsearch may have indexed some of the documents.
BulkFails ==
    /\ job.pc = "bulk"
    /\ job.recs # {} \* an empty download makes no request
    /\ IntelFault
    /\ \E D \in SUBSET (job.recs \ Unindexable) : Stamp(D)
    /\ Abort
    /\ UNCHANGED <<clientVars>>

\* A faulty variant: the term filter on source is missing.
PriorGenerationAnySource(s) == Cached \ restamped

PriorGeneration(s) == CachedOf(s) \ restamped

\* _store, second half: delete what this refresh did not stamp again.
Purge ==
    /\ job.pc = "purge"
    /\ age' = [d \in Iocs |-> IF d \in PriorGeneration(job.src) THEN NoIoc ELSE age[d]]
    /\ job' = After(job.src, TRUE)
    /\ UNCHANGED <<restamped, clientVars, intelFaults>>

PurgeFails ==
    /\ job.pc = "purge"
    /\ IntelFault
    /\ \E D \in SUBSET PriorGeneration(job.src) :
         age' = [d \in Iocs |-> IF d \in D THEN NoIoc ELSE age[d]]
    /\ Abort
    /\ UNCHANGED <<restamped, clientVars>>

\* _load_indexes: the indexes are emptied with the first request, then filled
\* page by page up to the cap.
LoadedSoFar == IF job.after = 0 THEN {} ELSE memory

NextPage ==
    LET rest == {d \in Cached : d > job.after}
        size == Min({LoadPage, LoadCap - Cardinality(LoadedSoFar)})
    IN  {d \in rest : Cardinality({e \in rest : e < d}) < size}

Load ==
    /\ job.pc = "load"
    /\ memory' = LoadedSoFar \cup NextPage
    /\ IF Cardinality(NextPage) < LoadPage \/ Cardinality(memory') >= LoadCap
       THEN job' = Idle(TRUE) /\ loaded' = TRUE
       ELSE job' = [job EXCEPT !.after = Max(NextPage)] /\ UNCHANGED loaded
    /\ UNCHANGED <<cacheVars, intelEnabled, intelFaults>>

\* A page fails: an error status reads as "cache index not created yet" and
\* ends the load as if it were complete; an unreachable node raises.
LoadFails ==
    /\ job.pc = "load"
    /\ IntelFault
    /\ memory' = LoadedSoFar
    /\ \/ job' = Idle(TRUE) /\ loaded' = TRUE
       \/ Abort /\ UNCHANGED loaded
    /\ UNCHANGED <<cacheVars, intelEnabled>>

\* The process restarts: the cache stays, the matcher starts empty.
IntelRestart ==
    /\ IntelFault
    /\ memory' = {}
    /\ loaded' = FALSE
    /\ intelEnabled' = TRUE
    /\ Abort
    /\ UNCHANGED <<cacheVars>>

-----------------------------------------------------------------------------
RefreshStep == StartRefresh \/ Check \/ Fetch \/ Bulk \/ Purge \/ Load

IntelFailure == CheckFails \/ FetchFails \/ BulkFails \/ PurgeFails \/ LoadFails \/ IntelRestart

IntelNext == IntelTick \/ RefreshStep \/ IntelFailure

IntelSpec == IntelInit /\ [][IntelNext]_intelVars

-----------------------------------------------------------------------------

\* Storing one feed never removes a document of another, and the purge never
\* removes what the same refresh has just stamped, whatever earlier refreshes
\* left half done: an IOC leaves the cache only with a download of its own
\* source that does not list it.
PurgeIsPrecise ==
    [][\A d \in Cached :
         age'[d] = NoIoc => /\ job.pc = "purge" /\ SourceOf[d] = job.src
                            /\ d \notin job.recs]_intelVars

\* A feed that is cached and younger than the TTL is downloaded again only
\* when a request has failed: refresh does not poll abuse.ch.
FreshFeedsAreLeftAlone ==
    [][(job.pc = "check" /\ job'.pc = "fetch" /\ intelFaults' = intelFaults)
         => \A d \in CachedOf(job.src) : age[d] >= IntelTTL]_intelVars

\* What the cap lets through, in the order of the load.
Loadable == {d \in Cached : Cardinality({e \in Cached : e < d}) < LoadCap}

\* However requests fail, the in-memory indexes catch up with the cache again
\* and again, up to the cap and always with its first IOCs, unless a 401 has
\* disabled the client for good: a matcher that a failed refresh left behind
\* is repaired when the next feed turns stale.
MemoryCatchesUp ==
    <>[](~intelEnabled) \/ []<>(job.pc = "idle" /\ memory = Loadable)
\* The cache of the feeds is kept: nothing but its own download removes an IOC,
\* and nothing is downloaded before its time.
FeedCacheIsKept == PurgeIsPrecise /\ FreshFeedsAreLeftAlone
=============================================================================
