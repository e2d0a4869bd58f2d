--------------------------------- MODULE Vt ---------------------------------
(***************************************************************************)
(* VtResolver: the VirusTotal verdicts of the files seen at each host are  *)
(* taken from the cache index while they are fresh and asked for otherwise,*)
(* at most MaxPerRun times in a reason pass, each file once in a pass. The *)
(* resolver and its client are built anew for every pass; the cache index  *)
(* outlives passes and restarts. VT_API_KEY is set.                        *)
(***************************************************************************)
EXTENDS Integers, FiniteSets, FiniteSetsExt

CONSTANTS
    Shas,      \* files, by sha256
    Hosts,     \* hosts, as integers in the order run_once visits them
    FilesOf,   \* [Hosts -> SUBSET Shas]: the files seen at a host
    MaxPerRun, \* C2E_VT_MAX_PER_RUN
    TTL,       \* VT_TTL_DAYS
    Absent,    \* "no verdict in the cache"
    MaxFaults  \* bound: failing requests and restarts in one behaviour

ASSUME VtAssumption ==
    /\ IsFiniteSet(Shas)
    /\ Hosts \subseteq Nat
    /\ FilesOf \in [Hosts -> SUBSET Shas]
    /\ MaxPerRun \in Nat /\ TTL \in Nat \ {0} /\ MaxFaults \in Nat
    /\ Absent \notin 0 .. TTL

VARIABLES
    cache,   \* c2-vt: file -> days since its checked_at (TTL: that or more), or Absent
    mem,     \* _mem of this pass: "unknown" (no key), "skipped" (None), "verdict"
    budget,  \* budget of this pass
    enabled, \* client.enabled of this pass
    pc,      \* "idle" between passes, "pass", "store" after an answer of VT
    todo,    \* hosts this pass has still to visit
    want,    \* files verdicts_for has still to resolve for its host
    cur,     \* the files (one, or none) whose answer waits to be stored
    asked,   \* files VT was asked about in this pass (history)
    unread,  \* files whose cache read failed in this pass (history)
    passed,  \* a pass was completed today
    faults   \* failed requests and restarts so far

passVars == <<mem, budget, enabled, todo, want, cur, asked, unread>>
vars == <<cache, passVars, pc, passed, faults>>

Unknown == [s \in Shas |-> "unknown"]

Init ==
    /\ cache = [s \in Shas |-> Absent]
    /\ mem = Unknown
    /\ budget = MaxPerRun
    /\ enabled = TRUE
    /\ pc = "idle"
    /\ todo = {} /\ want = {} /\ cur = {} /\ asked = {} /\ unread = {}
    /\ passed = FALSE
    /\ faults = 0

Fault == faults < MaxFaults /\ faults' = faults + 1

\* A day passes; the loop makes many passes a day, each much shorter than one.
Tick ==
    /\ pc = "idle"
    /\ passed
    /\ cache' = [s \in Shas |-> IF cache[s] \in 0 .. TTL - 1 THEN cache[s] + 1 ELSE cache[s]]
    /\ passed' = FALSE
    /\ UNCHANGED <<passVars, pc, faults>>

-----------------------------------------------------------------------------
\* A faulty variant: one resolver for all passes, whose budget runs out.
StartPassSameBudget ==
    /\ pc = "idle"
    /\ pc' = "pass"
    /\ mem' = Unknown
    /\ todo' = Hosts
    /\ want' = {} /\ cur' = {} /\ asked' = {} /\ unread' = {}
    /\ UNCHANGED <<cache, budget, enabled, passed, faults>>

\* run_once builds VtResolver and VtClient.
StartPass ==
    /\ pc = "idle"
    /\ pc' = "pass"
    /\ mem' = Unknown
    /\ budget' = MaxPerRun
    /\ enabled' = TRUE
    /\ todo' = Hosts
    /\ want' = {} /\ cur' = {} /\ asked' = {} /\ unread' = {}
    /\ UNCHANGED <<cache, passed, faults>>

EndPass ==
    /\ pc = "pass" /\ todo = {} /\ want = {}
    /\ pc' = "idle"
    /\ passed' = TRUE
    /\ UNCHANGED <<cache, passVars, faults>>

\* The host run_once visits next, and its files verdicts_for has no entry for.
NextHost(h) == pc = "pass" /\ want = {} /\ h \in todo /\ \A g \in todo : h <= g

Wanted(h) == {s \in FilesOf[h] : mem[s] = "unknown"}

Fresh(s) == cache[s] # Absent /\ cache[s] < TTL

\* A faulty variant: the search returns its default number of hits, here one.
ReadCacheOneHit ==
    /\ \E h \in todo :
         /\ NextHost(h)
         /\ \E F \in SUBSET {s \in Wanted(h) : Fresh(s)} :
              /\ Cardinality(F) <= 1
              /\ mem' = [s \in Shas |-> IF s \in F THEN "verdict" ELSE mem[s]]
              /\ want' = Wanted(h) \ F
         /\ todo' = todo \ {h}
    /\ UNCHANGED <<cache, budget, enabled, pc, cur, asked, unread, passed, faults>>

\* verdicts_for, _read_cache: the fresh ones of the wanted files are resolved.
ReadCache ==
    /\ \E h \in todo :
         /\ NextHost(h)
         /\ LET F == {s \in Wanted(h) : Fresh(s)} IN
              /\ mem' = [s \in Shas |-> IF s \in F THEN "verdict" ELSE mem[s]]
              /\ want' = Wanted(h) \ F
         /\ todo' = todo \ {h}
    /\ UNCHANGED <<cache, budget, enabled, pc, cur, asked, unread, passed, faults>>

\* An error status of the search reads as an empty cache.
ReadCacheFails ==
    /\ Fault
    /\ \E h \in todo :
         /\ NextHost(h)
         /\ Wanted(h) # {} \* no request otherwise
         /\ want' = Wanted(h)
         /\ unread' = unread \cup Wanted(h)
         /\ todo' = todo \ {h}
    /\ UNCHANGED <<cache, mem, budget, enabled, pc, cur, asked, passed>>

\* Disabled or over budget: try again in the next pass.
Skip ==
    /\ pc = "pass"
    /\ ~enabled \/ budget <= 0
    /\ \E s \in want : mem' = [mem EXCEPT ![s] = "skipped"] /\ want' = want \ {s}
    /\ UNCHANGED <<cache, budget, enabled, pc, todo, cur, asked, unread, passed, faults>>

CanAsk(s) == pc = "pass" /\ s \in want /\ enabled /\ budget > 0

\* VirusTotal knows the file or answers 404; either is a verdict.
Lookup ==
    /\ \E s \in want : CanAsk(s) /\ cur' = {s} /\ asked' = asked \cup {s}
    /\ budget' = budget - 1
    /\ pc' = "store"
    /\ UNCHANGED <<cache, mem, enabled, todo, want, unread, passed, faults>>

\* A faulty variant: only an answer is charged to the budget.
LookupFailsUncharged ==
    /\ Fault
    /\ \E s \in want :
         /\ CanAsk(s)
         /\ asked' = asked \cup {s}
         /\ mem' = [mem EXCEPT ![s] = "skipped"]
         /\ want' = want \ {s}
    /\ enabled' \in {enabled, FALSE}
    /\ UNCHANGED <<cache, budget, pc, todo, cur, unread, passed>>

\* Rate-limited, unreachable, or 401, which disables this pass's client.
LookupFails ==
    /\ Fault
    /\ \E s \in want :
         /\ CanAsk(s)
         /\ asked' = asked \cup {s}
         /\ mem' = [mem EXCEPT ![s] = "skipped"]
         /\ want' = want \ {s}
    /\ budget' = budget - 1
    /\ enabled' \in {enabled, FALSE}
    /\ UNCHANGED <<cache, pc, todo, cur, unread, passed>>

\* index_doc writes the verdict through before it is used.
Store ==
    /\ pc = "store"
    /\ cache' = [s \in Shas |-> IF s \in cur THEN 0 ELSE cache[s]]
    /\ mem' = [s \in Shas |-> IF s \in cur THEN "verdict" ELSE mem[s]]
    /\ want' = want \ cur
    /\ cur' = {}
    /\ pc' = "pass"
    /\ UNCHANGED <<budget, enabled, todo, asked, unread, passed, faults>>

\* index_doc raises, with the document written or not; the pass ends.
StoreFails ==
    /\ pc = "store"
    /\ Fault
    /\ \/ cache' = [s \in Shas |-> IF s \in cur THEN 0 ELSE cache[s]]
       \/ UNCHANGED cache
    /\ pc' = "idle"
    /\ UNCHANGED <<passVars, passed>>

\* Any other exception of the pass: run() logs it and makes the next pass.
PassFails ==
    /\ pc = "pass"
    /\ Fault
    /\ pc' = "idle"
    /\ UNCHANGED <<cache, passVars, passed>>

Restart ==
    /\ Fault
    /\ pc' = "idle"
    /\ UNCHANGED <<cache, passVars, passed>>

-----------------------------------------------------------------------------
PassStep == ReadCache \/ Skip \/ Lookup \/ Store \/ EndPass

Failure == ReadCacheFails \/ LookupFails \/ StoreFails \/ PassFails \/ Restart

Next == Tick \/ StartPass \/ PassStep \/ Failure

Spec == Init /\ [][Next]_vars

\* The loop of run() goes on and every pass ends; no assumption on the days.
FairSpec == Spec /\ WF_vars(StartPass) /\ WF_vars(PassStep)

-----------------------------------------------------------------------------
\* Types, with the program counter and the file in hand in step.
TypeOK ==
    /\ cache \in [Shas -> 0 .. TTL \cup {Absent}]
    /\ mem \in [Shas -> {"unknown", "skipped", "verdict"}]
    /\ budget \in Int
    /\ enabled \in BOOLEAN /\ passed \in BOOLEAN
    /\ pc \in {"idle", "pass", "store"}
    /\ todo \subseteq Hosts
    /\ want \subseteq Shas /\ asked \subseteq Shas /\ unread \subseteq Shas
    /\ cur \subseteq Shas /\ (pc = "pass" => cur = {})
    /\ faults \in 0 .. MaxFaults

\* verdicts_for across all entities of a pass: VirusTotal gets at most
\* MaxPerRun requests, failed ones included, and never two for one file even
\* when it was seen at several hosts, so that the free tier's limit is kept.
LookupsWithinBudget ==
    /\ Cardinality(asked) <= MaxPerRun
    /\ budget = MaxPerRun - Cardinality(asked)

\* A verdict an entity of this pass gets is in the cache index, and there it is
\* younger than VT_TTL_DAYS: whatever failed, no entity shows a verdict that
\* the next pass could not repeat.
VerdictsAreCached == pc # "idle" => \A s \in Shas : mem[s] = "verdict" => Fresh(s)

\* What makes the budget inductive: a file that was asked about is resolved or
\* in hand, and only unresolved files are still wanted.
AskedAreResolved ==
    /\ pc # "idle" => \A s \in asked : mem[s] = "unknown" => pc = "store" /\ s \in cur
    /\ \A s \in want : mem[s] = "unknown"

\* What makes FreshVerdictsNotAskedAgain inductive: the cache was read for the
\* wanted files and had nothing fresh, or the read failed.
WantedAreStale == pc # "idle" => \A s \in want : Fresh(s) => s \in unread \/ s \in cur

\* The budget of a pass is kept and every verdict it uses is cached, with what
\* makes that inductive over failures, restarts and hosts that share files.
VtInv == TypeOK /\ LookupsWithinBudget /\ AskedAreResolved /\ VerdictsAreCached /\ WantedAreStale

\* "Each hash is fetched once until its verdict goes stale": across passes,
\* crashes and restarts VirusTotal is asked only about a file without a fresh
\* verdict in the cache, unless the read of the cache failed.
FreshVerdictsNotAskedAgain ==
    [][\A s \in asked' \ asked : Fresh(s) => s \in unread]_vars

\* "A missing/slow/over-budget VT simply means the verdict is filled in on a
\* later pass": every file gets a verdict, in pass after pass, once requests
\* stop failing, although the budget covers one file a pass.
VerdictsArrive == \A s \in UNION {FilesOf[h] : h \in Hosts} : []<>(pc # "idle" /\ mem[s] = "verdict")
=============================================================================
