------------------------------ MODULE ResolverProofs ------------------------------
(***************************************************************************)
(* The two lookups of a reason pass. VirusTotal, for every set of files    *)
(* and hosts, every budget and TTL: the requests of a pass stay within the *)
(* budget, verdicts are used only out of the cache, and a fresh verdict is *)
(* never asked for again. abuse.ch, for all feeds, downloads and TTLs: an  *)
(* IOC leaves the cache only with a download of its own feed that does not *)
(* list it, and a fresh feed is not downloaded again.                      *)
(***************************************************************************)
EXTENDS Vt, Intel, FiniteSetTheorems, WellFoundedInduction, TLAPS

-----------------------------------------------------------------------------
(***************************************************************************)
(* VtResolver.                                                             *)
(***************************************************************************)

\* The initial state has asked nothing and has the whole budget.
LEMMA InitVt == Init => VtInv
  <1> SUFFICES ASSUME Init PROVE VtInv
    OBVIOUS
  <1>1. TypeOK
    <2>1. cache \in [Shas -> 0 .. TTL \cup {Absent}] /\ mem \in [Shas -> {"unknown", "skipped", "verdict"}]
      BY DEF Init, Unknown
    <2>2. budget \in Int /\ faults \in 0 .. MaxFaults
      BY VtAssumption DEF Init
    <2> QED
      BY <2>1, <2>2 DEF Init, TypeOK
  <1>2. LookupsWithinBudget
    BY VtAssumption, FS_EmptySet DEF Init, LookupsWithinBudget
  <1>3. AskedAreResolved /\ VerdictsAreCached /\ WantedAreStale
    BY DEF Init, AskedAreResolved, VerdictsAreCached, WantedAreStale
  <1> QED
    BY <1>1, <1>2, <1>3 DEF VtInv

\* Every step keeps the types.
LEMMA TypeStep == TypeOK /\ [Next]_vars => TypeOK'
  <1> SUFFICES ASSUME TypeOK, [Next]_vars PROVE TypeOK'
    OBVIOUS
  <1> USE VtAssumption DEF TypeOK, passVars, Fault
  <1>1. CASE Tick
    <2>1. \A a \in 0 .. TTL - 1 : a + 1 \in 0 .. TTL
      OBVIOUS
    <2>2. cache' \in [Shas -> 0 .. TTL \cup {Absent}]
      BY <1>1, <2>1 DEF Tick
    <2> QED
      BY <1>1, <2>2 DEF Tick
  <1>2. CASE StartPass
    BY <1>2 DEF StartPass, Unknown
  <1>3. CASE ReadCache
    BY <1>3 DEF ReadCache, Wanted, NextHost
  <1>4. CASE Skip
    BY <1>4 DEF Skip
  <1>5. CASE Lookup
    BY <1>5 DEF Lookup, CanAsk
  <1>6. CASE Store
    BY <1>6 DEF Store
  <1>7. CASE EndPass
    BY <1>7 DEF EndPass
  <1>8. CASE ReadCacheFails
    BY <1>8 DEF ReadCacheFails, Wanted, NextHost
  <1>9. CASE LookupFails
    <2>1. budget' \in Int /\ faults' \in 0 .. MaxFaults
      BY <1>9 DEF LookupFails
    <2>2. /\ mem' \in [Shas -> {"unknown", "skipped", "verdict"}]
          /\ asked' \subseteq Shas /\ want' \subseteq Shas
      BY <1>9 DEF LookupFails, CanAsk
    <2>3. enabled' \in BOOLEAN
      BY <1>9, Zenon DEF LookupFails
    <2> QED
      BY <1>9, <2>1, <2>2, <2>3 DEF LookupFails
  <1>10. CASE StoreFails
    BY <1>10 DEF StoreFails
  <1>11. CASE PassFails
    BY <1>11 DEF PassFails
  <1>12. CASE Restart
    BY <1>12 DEF Restart
  <1>13. CASE UNCHANGED vars
    BY <1>13 DEF vars
  <1> QED
    BY <1>1, <1>2, <1>3, <1>4, <1>5, <1>6, <1>7, <1>8, <1>9, <1>10, <1>11, <1>12, <1>13
       DEF Next, PassStep, Failure

\* Types hold in every state.
THEOREM VtTypeCorrect == Spec => []TypeOK
  <1>1. Init => TypeOK
    BY InitVt DEF VtInv
  <1> QED
    BY <1>1, TypeStep, PTL DEF Spec

\* A request about a file that was not asked about yet costs one of the budget.
LEMMA AskOneMore ==
    ASSUME TypeOK, LookupsWithinBudget, budget > 0, NEW s \in Shas, s \notin asked,
           asked' = asked \cup {s}, budget' = budget - 1
    PROVE  LookupsWithinBudget'
  <1>1. IsFiniteSet(asked)
    BY VtAssumption, FS_Subset DEF TypeOK
  <1>2. Cardinality(asked) \in Nat /\ Cardinality(asked \cup {s}) = Cardinality(asked) + 1
    BY <1>1, FS_AddElement, FS_CardinalityType
  <1> QED
    BY <1>2, VtAssumption DEF LookupsWithinBudget, TypeOK

\* Every step keeps the requests within the budget.
LEMMA BudgetStep == VtInv /\ [Next]_vars => LookupsWithinBudget'
  <1> SUFFICES ASSUME VtInv, [Next]_vars PROVE LookupsWithinBudget'
    OBVIOUS
  <1>1. CASE StartPass
    BY <1>1, FS_EmptySet, VtAssumption DEF StartPass, LookupsWithinBudget
  <1>2. CASE Lookup
    <2>1. PICK s \in want : CanAsk(s) /\ asked' = asked \cup {s}
      BY <1>2 DEF Lookup
    <2>2. s \notin asked
      BY <2>1 DEF VtInv, AskedAreResolved, CanAsk
    <2> QED
      BY <1>2, <2>1, <2>2, AskOneMore DEF Lookup, CanAsk, VtInv, TypeOK
  <1>3. CASE LookupFails
    <2>1. PICK s \in want : CanAsk(s) /\ asked' = asked \cup {s}
      BY <1>3 DEF LookupFails
    <2>2. s \notin asked
      BY <2>1 DEF VtInv, AskedAreResolved, CanAsk
    <2> QED
      BY <1>3, <2>1, <2>2, AskOneMore DEF LookupFails, CanAsk, VtInv, TypeOK
  <1>4. CASE UNCHANGED <<asked, budget>>
    BY <1>4 DEF VtInv, LookupsWithinBudget
  <1> QED
    BY <1>1, <1>2, <1>3, <1>4
       DEF Next, PassStep, Failure, vars, passVars, Tick, ReadCache, Skip, Store, EndPass,
           ReadCacheFails, StoreFails, PassFails, Restart

\* Every step keeps asked files resolved and wanted files unresolved.
LEMMA ResolvedStep == VtInv /\ [Next]_vars => AskedAreResolved'
  <1> SUFFICES ASSUME VtInv, [Next]_vars PROVE AskedAreResolved'
    OBVIOUS
  <1> USE DEF VtInv, TypeOK, AskedAreResolved, passVars
  <1>1. CASE Tick \/ EndPass \/ PassFails
    BY <1>1 DEF Tick, EndPass, PassFails
  <1>2. CASE StartPass
    BY <1>2 DEF StartPass
  <1>3. CASE ReadCache
    <2>1. PICK h \in todo :
            LET F == {s \in Wanted(h) : Fresh(s)} IN
              /\ mem' = [s \in Shas |-> IF s \in F THEN "verdict" ELSE mem[s]]
              /\ want' = Wanted(h) \ F
      BY <1>3 DEF ReadCache
    <2>2. Wanted(h) \subseteq Shas /\ \A s \in Wanted(h) : mem[s] = "unknown"
      BY VtAssumption DEF Wanted
    <2>3. \A s \in want' : mem'[s] = "unknown"
      BY <2>1, <2>2
    <2>4. \A s \in Shas : mem'[s] = "unknown" => mem[s] = "unknown"
      BY <2>1
    <2> QED
      BY <1>3, <2>3, <2>4 DEF ReadCache
  <1>4. CASE Skip
    BY <1>4 DEF Skip
  <1>5. CASE Lookup
    BY <1>5 DEF Lookup, CanAsk
  <1>6. CASE Store
    BY <1>6 DEF Store
  <1>7. CASE ReadCacheFails
    BY <1>7 DEF ReadCacheFails, Wanted, NextHost
  <1>8. CASE LookupFails
    BY <1>8 DEF LookupFails, CanAsk
  <1>9. CASE StoreFails \/ Restart
    BY <1>9 DEF StoreFails, Restart
  <1>10. CASE UNCHANGED vars
    BY <1>10 DEF vars
  <1> QED
    BY <1>1, <1>2, <1>3, <1>4, <1>5, <1>6, <1>7, <1>8, <1>9, <1>10 DEF Next, PassStep, Failure

\* Every step keeps the verdicts of a pass backed by the cache.
LEMMA CachedStep == VtInv /\ [Next]_vars => VerdictsAreCached'
  <1> SUFFICES ASSUME VtInv, [Next]_vars PROVE VerdictsAreCached'
    OBVIOUS
  <1> USE DEF VtInv, TypeOK, VerdictsAreCached, Fresh, passVars
  <1>1. CASE pc' = "idle"
    BY <1>1
  <1>2. CASE StartPass
    BY <1>2 DEF StartPass, Unknown
  <1>3. CASE ReadCache
    <2>1. PICK h \in todo :
            mem' = [s \in Shas |-> IF s \in {t \in Wanted(h) : Fresh(t)} THEN "verdict" ELSE mem[s]]
      BY <1>3 DEF ReadCache
    <2> QED
      BY <1>3, <2>1 DEF ReadCache, NextHost
  <1>4. CASE Skip
    BY <1>4 DEF Skip
  <1>5. CASE Lookup
    BY <1>5 DEF Lookup, CanAsk
  <1>6. CASE Store
    <2>1. 0 \in 0 .. TTL /\ 0 # Absent /\ 0 < TTL
      BY VtAssumption
    <2> QED
      BY <1>6, <2>1 DEF Store
  <1>7. CASE ReadCacheFails
    BY <1>7 DEF ReadCacheFails, NextHost
  <1>8. CASE LookupFails
    BY <1>8 DEF LookupFails, CanAsk
  <1>9. CASE UNCHANGED vars
    BY <1>9 DEF vars
  <1> QED
    BY <1>1, <1>2, <1>3, <1>4, <1>5, <1>6, <1>7, <1>8, <1>9
       DEF Next, PassStep, Failure, Tick, EndPass, StoreFails, PassFails, Restart

\* Every step keeps the wanted files without a fresh verdict that was read.
LEMMA StaleStep == VtInv /\ [Next]_vars => WantedAreStale'
  <1> SUFFICES ASSUME VtInv, [Next]_vars PROVE WantedAreStale'
    OBVIOUS
  <1> USE DEF VtInv, TypeOK, WantedAreStale, Fresh, passVars
  <1>1. CASE pc' = "idle"
    BY <1>1
  <1>2. CASE StartPass
    BY <1>2 DEF StartPass
  <1>3. CASE ReadCache
    <2>1. PICK h \in todo : want' = Wanted(h) \ {t \in Wanted(h) : Fresh(t)}
      BY <1>3 DEF ReadCache
    <2> QED
      BY <1>3, <2>1 DEF ReadCache
  <1>4. CASE Skip
    BY <1>4 DEF Skip
  <1>5. CASE Lookup
    BY <1>5 DEF Lookup, CanAsk
  <1>6. CASE Store
    BY <1>6 DEF Store
  <1>7. CASE ReadCacheFails
    BY <1>7 DEF ReadCacheFails
  <1>8. CASE LookupFails
    BY <1>8 DEF LookupFails, CanAsk
  <1>9. CASE UNCHANGED vars
    BY <1>9 DEF vars
  <1> QED
    BY <1>1, <1>2, <1>3, <1>4, <1>5, <1>6, <1>7, <1>8, <1>9
       DEF Next, PassStep, Failure, Tick, EndPass, StoreFails, PassFails, Restart

-----------------------------------------------------------------------------
\* The inductive invariant holds in every state of VtResolver's passes.
THEOREM VtInvariant == Spec => []VtInv
  <1>1. VtInv /\ [Next]_vars => VtInv'
    BY TypeStep, BudgetStep, ResolvedStep, CachedStep, StaleStep DEF VtInv
  <1> QED
    BY <1>1, InitVt, PTL DEF Spec

\* VirusTotal gets at most MaxPerRun requests in a pass and none twice about
\* one file (verdicts_for, budget and _mem).
THEOREM PassesStayWithinBudget == Spec => []LookupsWithinBudget
  <1>1. VtInv => LookupsWithinBudget
    BY DEF VtInv
  <1> QED
    BY <1>1, VtInvariant, PTL

\* An entity's verdicts are in the cache index and younger than the TTL
\* (index_doc before _mem in verdicts_for, _is_fresh).
THEOREM UsedVerdictsAreCached == Spec => []VerdictsAreCached
  <1>1. VtInv => VerdictsAreCached
    BY DEF VtInv
  <1> QED
    BY <1>1, VtInvariant, PTL

\* Across passes, failures and restarts VirusTotal is not asked about a file
\* with a fresh verdict, unless the read of the cache failed.
THEOREM NoFreshVerdictIsAskedAgain == Spec => FreshVerdictsNotAskedAgain
  <1>1. ASSUME VtInv, [Next]_vars
        PROVE  [\A s \in asked' \ asked : Fresh(s) => s \in unread]_vars
    <2>1. CASE Lookup
      BY <1>1, <2>1 DEF Lookup, CanAsk, VtInv, TypeOK, WantedAreStale
    <2>2. CASE LookupFails
      BY <1>1, <2>2 DEF LookupFails, CanAsk, VtInv, TypeOK, WantedAreStale
    <2>3. CASE asked' \subseteq asked \/ UNCHANGED vars
      BY <2>3
    <2> QED
      BY <1>1, <2>1, <2>2, <2>3
         DEF Next, PassStep, Failure, passVars, Tick, StartPass, ReadCache, Skip, Store, EndPass,
             ReadCacheFails, StoreFails, PassFails, Restart
  <1> QED
    BY <1>1, VtInvariant, PTL DEF Spec, FreshVerdictsNotAskedAgain

-----------------------------------------------------------------------------
(***************************************************************************)
(* IntelMatcher.                                                           *)
(***************************************************************************)
JobAt(a) == [pc : {"idle", "check", "fetch", "bulk", "purge", "load"}, ok : BOOLEAN,
             src : Sources \cup {0}, changed : BOOLEAN, recs : SUBSET Iocs, after : {a}]

IntelTypeOK ==
    /\ age \in [Iocs -> 0 .. IntelTTL \cup {NoIoc}]
    /\ restamped \subseteq Iocs
    /\ job \in JobAt(job.after)
    /\ intelFaults \in Nat

\* What _store relies on when it purges: no refused document is in the cache,
\* and all of the download that could be indexed carries the new stamp.
StampsAreWhole ==
    /\ \A d \in Unindexable : age[d] = NoIoc
    /\ job.pc = "purge" => job.recs \ Unindexable \subseteq restamped

IntelInv == IntelTypeOK /\ StampsAreWhole

\* Min is a member of a non-empty set of naturals, and none is below it.
LEMMA MinOf ==
    ASSUME NEW S \in SUBSET Nat, S # {}
    PROVE  Min(S) \in S /\ \A x \in S : Min(S) <= x
  <1>1. PICK m \in S : \A x \in S : <<x, m>> \notin OpToRel(<, Nat)
    <2>1. \E m \in S : \A x \in S : <<x, m>> \notin OpToRel(<, Nat)
      BY NatLessThanWellFounded, WFMin
    <2> QED
      BY <2>1
  <1>2. \A x \in S : ~ (x < m)
    BY <1>1 DEF OpToRel
  <1>3. \E z \in S : \A x \in S : z <= x
    BY <1>2
  <1> QED
    BY <1>3 DEF Min

\* After a source, refresh is at another source, at the load, or done.
LEMMA AfterFacts ==
    ASSUME NEW s \in Sources \cup {0}, NEW c \in BOOLEAN
    PROVE  After(s, c).pc \in {"check", "load", "idle"} /\ After(s, c) \in JobAt(0)
  <1> DEFINE Later == {r \in Sources : r > s}
  <1>1. CASE \E r \in Sources : r > s
    <2>1. Later \in SUBSET Nat /\ Later # {}
      BY <1>1, IntelAssumption
    <2>2. Min(Later) \in Later
      <3> HIDE DEF Later
      <3> QED
        BY <2>1, MinOf
    <2>3. Min(Later) \in Sources
      BY <2>2
    <2>4. After(s, c) = [Idle(FALSE) EXCEPT !.pc = "check", !.changed = c, !.src = Min(Later)]
      BY <1>1 DEF After
    <2> HIDE DEF Later
    <2> QED
      BY <2>3, <2>4 DEF Idle, JobAt
  <1>2. CASE ~ \E r \in Sources : r > s
    BY <1>2 DEF After, Idle, JobAt
  <1> QED
    BY <1>1, <1>2

\* The cache starts empty and the refresh idle.
LEMMA InitIntel == IntelInit => IntelInv
  BY IntelAssumption DEF IntelInit, IntelInv, IntelTypeOK, JobAt, StampsAreWhole, Idle

\* The forms in which the actions write the job are well formed.
LEMMA JobForms ==
    ASSUME IntelTypeOK
    PROVE  /\ job.src \in Sources \cup {0} /\ job.changed \in BOOLEAN /\ job.recs \subseteq Iocs
           /\ \A b \in BOOLEAN : Idle(b) \in JobAt(0)
           /\ \A p \in {"fetch", "purge"} :
                [job EXCEPT !.pc = p] \in JobAt(job.after) /\ [job EXCEPT !.pc = p].pc = p
           /\ \A R \in SUBSET Iocs : [job EXCEPT !.pc = "bulk", !.recs = R] \in JobAt(job.after)
           /\ \A a : [job EXCEPT !.after = a] \in JobAt(a)
           /\ \A a, j : j \in JobAt(a) => j.after = a
  BY DEF IntelTypeOK, JobAt, Idle

\* Every step of a refresh keeps the job well formed.
LEMMA JobStep == IntelTypeOK /\ [IntelNext]_intelVars => job' \in JobAt(job'.after)
  <1> SUFFICES ASSUME IntelTypeOK, [IntelNext]_intelVars PROVE \E a : job' \in JobAt(a)
    BY JobForms
  <1> HIDE DEF JobAt
  <1>0. /\ 0 \in Sources \cup {0} /\ FALSE \in BOOLEAN /\ TRUE \in BOOLEAN
        /\ \A b \in BOOLEAN : After(job.src, b) \in JobAt(0) /\ After(0, b) \in JobAt(0)
    BY JobForms, AfterFacts
  <1>1. CASE UNCHANGED job
    BY <1>1 DEF IntelTypeOK
  <1>2. CASE StartRefresh
    BY <1>0, <1>2 DEF StartRefresh
  <1>3. CASE job' \in {[job EXCEPT !.pc = "fetch"], [job EXCEPT !.pc = "purge"], Idle(FALSE), Idle(TRUE)}
    <2>1. CASE job' \in {[job EXCEPT !.pc = "fetch"], [job EXCEPT !.pc = "purge"]}
      BY <2>1 DEF IntelTypeOK, JobAt
    <2>2. CASE job' \in {Idle(FALSE), Idle(TRUE)}
      <3>1. Idle(FALSE) \in JobAt(0) /\ Idle(TRUE) \in JobAt(0)
        BY DEF Idle, JobAt
      <3> QED
        BY <2>2, <3>1
    <2> QED
      BY <1>3, <2>1, <2>2
  <1>4. CASE Fetch
    <2>1. PICK x \in Exports :
            job' = [job EXCEPT !.pc = "bulk", !.recs = {d \in x : SourceOf[d] = job.src}]
      BY <1>4 DEF Fetch
    <2>2. {d \in x : SourceOf[d] = job.src} \in SUBSET Iocs
      BY IntelAssumption
    <2> QED
      BY <2>1, <2>2, JobForms
  <1>5. CASE \E b \in BOOLEAN : job' = After(job.src, b)
    BY <1>0, <1>5
  <1>6. CASE \E a : job' = [job EXCEPT !.after = a]
    BY <1>6 DEF IntelTypeOK, JobAt
  <1>7. ASSUME Check \/ CheckFails \/ FetchFails \/ Bulk \/ BulkFails \/ Purge \/ PurgeFails \/ Load \/ LoadFails
                \/ IntelRestart
        PROVE  \/ job' \in {[job EXCEPT !.pc = "fetch"], [job EXCEPT !.pc = "purge"], Idle(FALSE), Idle(TRUE)}
               \/ \E b \in BOOLEAN : job' = After(job.src, b)
               \/ \E a : job' = [job EXCEPT !.after = a]
    <2>1. job.changed \in BOOLEAN /\ TRUE \in BOOLEAN
      BY JobForms
    <2> QED
      BY <1>7, <2>1, Zenon
         DEF Check, CheckFails, FetchFails, Bulk, BulkFails, Purge, PurgeFails, Load, LoadFails, IntelRestart, Abort
  <1> QED
    BY <1>1, <1>2, <1>3, <1>4, <1>5, <1>6, <1>7
       DEF IntelNext, RefreshStep, IntelFailure, IntelTick, intelVars

\* What a step does to the cache: all of it ages, some of the download is
\* stamped, or some of the prior generation is deleted.
LEMMA CacheStep ==
    ASSUME [IntelNext]_intelVars
    PROVE  \/ age' = [d \in Iocs |-> IF age[d] = NoIoc THEN NoIoc ELSE Older(age[d])]
           \/ job.pc = "bulk" /\ \E D \in SUBSET (job.recs \ Unindexable) : Stamp(D)
           \/ /\ job.pc = "purge" /\ UNCHANGED restamped
              /\ \E D \in SUBSET PriorGeneration(job.src) : age' = [d \in Iocs |-> IF d \in D THEN NoIoc ELSE age[d]]
           \/ UNCHANGED age
  <1>1. CASE Bulk \/ BulkFails
    BY <1>1 DEF Bulk, BulkFails
  <1>2. CASE Purge \/ PurgeFails
    BY <1>2 DEF Purge, PurgeFails
  <1> QED
    BY <1>1, <1>2
       DEF IntelNext, RefreshStep, IntelFailure, IntelTick, intelVars, cacheVars, StartRefresh, Check, CheckFails,
           Fetch, FetchFails, Load, LoadFails, IntelRestart

\* Every step keeps the ages within the TTL.
LEMMA AgeStep == IntelTypeOK /\ [IntelNext]_intelVars => age' \in [Iocs -> 0 .. IntelTTL \cup {NoIoc}]
  <1> SUFFICES ASSUME IntelTypeOK, [IntelNext]_intelVars PROVE age' \in [Iocs -> 0 .. IntelTTL \cup {NoIoc}]
    OBVIOUS
  <1> USE IntelAssumption
  <1>1. \A n \in 0 .. IntelTTL : Older(n) \in 0 .. IntelTTL
    <2> TAKE n \in 0 .. IntelTTL
    <2>1. {n + 1, IntelTTL} \in SUBSET Nat /\ {n + 1, IntelTTL} # {}
      OBVIOUS
    <2>2. Min({n + 1, IntelTTL}) \in {n + 1, IntelTTL} /\ Min({n + 1, IntelTTL}) <= IntelTTL
      BY <2>1, MinOf
    <2> QED
      BY <2>2 DEF Older
  <1>2. 0 \in 0 .. IntelTTL
    OBVIOUS
  <1> QED
    BY <1>1, <1>2, CacheStep DEF IntelTypeOK, Stamp

\* Every step keeps the types.
LEMMA IntelTypeStep == IntelTypeOK /\ [IntelNext]_intelVars => IntelTypeOK'
  <1> SUFFICES ASSUME IntelTypeOK, [IntelNext]_intelVars
               PROVE  restamped' \subseteq Iocs /\ intelFaults' \in Nat
    BY JobStep, AgeStep DEF IntelTypeOK
  <1>1. intelFaults' = intelFaults \/ intelFaults' = intelFaults + 1
    BY DEF IntelNext, RefreshStep, IntelFailure, IntelTick, StartRefresh, Check, CheckFails, Fetch, FetchFails, Bulk,
           BulkFails, Purge, PurgeFails, Load, LoadFails, IntelRestart, IntelFault, intelVars
  <1>2. restamped' \subseteq restamped \cup job.recs
    BY DEF IntelNext, RefreshStep, IntelFailure, IntelTick, StartRefresh, Check, CheckFails, Fetch, FetchFails, Bulk,
           BulkFails, Purge, PurgeFails, Load, LoadFails, IntelRestart, intelVars, cacheVars, Stamp
  <1>3. job.recs \subseteq Iocs
    BY JobForms
  <1> QED
    BY <1>1, <1>2, <1>3 DEF IntelTypeOK

\* Every step keeps the stamps whole: the purge begins right after the download
\* was stamped, and nothing unstamps it before the purge.
LEMMA StampStep == IntelInv /\ [IntelNext]_intelVars => StampsAreWhole'
  <1> SUFFICES ASSUME IntelInv, [IntelNext]_intelVars PROVE StampsAreWhole'
    OBVIOUS
  <1>0. IntelTypeOK /\ StampsAreWhole
    BY DEF IntelInv
  <1>1. \A d \in Unindexable : age'[d] = NoIoc
    BY <1>0, CacheStep, IntelAssumption DEF StampsAreWhole, Stamp
  <1>2. ASSUME job'.pc = "purge" PROVE job'.recs \ Unindexable \subseteq restamped'
    <2>1. CASE Bulk
      <3>1. job'.recs = job.recs
        BY <1>0, <2>1 DEF Bulk, IntelTypeOK, JobAt
      <3> QED
        BY <2>1, <3>1 DEF Bulk, Stamp
    <2>2. CASE UNCHANGED <<job, restamped>>
      BY <1>0, <1>2, <2>2 DEF StampsAreWhole
    <2>3. \A s \in Sources \cup {0}, b \in BOOLEAN : After(s, b).pc # "purge"
      BY AfterFacts
    <2>4. \A b : Idle(b).pc # "purge"
      BY DEF Idle
    <2>5. job.src \in Sources \cup {0} /\ job.changed \in BOOLEAN /\ 0 \in Sources \cup {0}
      BY <1>0, JobForms
    <2>6. ASSUME StartRefresh \/ Check \/ CheckFails \/ Purge \/ FetchFails PROVE FALSE
      <3>1. CASE job' = [job EXCEPT !.pc = "fetch"]
        BY <1>0, <1>2, <3>1 DEF IntelTypeOK, JobAt
      <3>2. CASE \E s \in Sources \cup {0}, b \in BOOLEAN : job' = After(s, b)
        BY <1>2, <2>3, <3>2
      <3>3. CASE job' = Idle(FALSE)
        BY <1>2, <2>4, <3>3
      <3>4. \/ job' = [job EXCEPT !.pc = "fetch"]
            \/ \E s \in Sources \cup {0}, b \in BOOLEAN : job' = After(s, b)
            \/ job' = Idle(FALSE)
        BY <2>5, <2>6, Zenon DEF StartRefresh, Check, CheckFails, Purge, FetchFails, Abort
      <3> QED
        BY <3>1, <3>2, <3>3, <3>4
    <2>7. ASSUME Fetch \/ Load PROVE FALSE
      BY <1>0, <1>2, <2>4, <2>7 DEF Fetch, Load, IntelTypeOK, JobAt
    <2>8. ASSUME BulkFails \/ PurgeFails \/ LoadFails \/ IntelRestart PROVE FALSE
      BY <1>2, <2>4, <2>8 DEF BulkFails, PurgeFails, LoadFails, IntelRestart, Abort
    <2> QED
      BY <2>1, <2>2, <2>6, <2>7, <2>8 DEF IntelNext, RefreshStep, IntelFailure, IntelTick, intelVars
  <1> QED
    BY <1>1, <1>2 DEF StampsAreWhole

\* The invariant of the refresh holds in every state.
LEMMA IntelInvariance == IntelSpec => []IntelInv
  <1>1. IntelInv /\ [IntelNext]_intelVars => IntelInv'
    BY IntelTypeStep, StampStep DEF IntelInv
  <1> QED
    BY <1>1, InitIntel, PTL DEF IntelSpec

\* Whatever requests of earlier refreshes failed, and whatever a feed's download
\* holds: _store removes only documents of the feed it stores that are not in the
\* download, and a feed whose copy is younger than the TTL is downloaded only
\* after a failed request.
THEOREM FeedCacheKept == IntelSpec => FeedCacheIsKept
  <1>1. ASSUME IntelInv, [IntelNext]_intelVars, NEW d \in Cached, age'[d] = NoIoc
        PROVE  job.pc = "purge" /\ SourceOf[d] = job.src /\ d \notin job.recs
    <2>1. d \in Iocs /\ age[d] # NoIoc /\ age[d] \in 0 .. IntelTTL
      BY <1>1 DEF Cached, IntelInv, IntelTypeOK
    <2>2. Older(age[d]) # NoIoc /\ 0 # NoIoc
      <3>1. {age[d] + 1, IntelTTL} \in SUBSET Nat /\ {age[d] + 1, IntelTTL} # {}
        BY <2>1, IntelAssumption
      <3>2. Min({age[d] + 1, IntelTTL}) \in {age[d] + 1, IntelTTL} /\ Min({age[d] + 1, IntelTTL}) <= IntelTTL
        BY <3>1, MinOf
      <3>3. Older(age[d]) \in 0 .. IntelTTL /\ 0 \in 0 .. IntelTTL
        BY <2>1, <3>2, IntelAssumption DEF Older
      <3> QED
        BY <3>3, IntelAssumption
    <2>3. job.pc = "purge" /\ d \in PriorGeneration(job.src)
      BY <1>1, <2>1, <2>2, CacheStep DEF Stamp
    <2> QED
      BY <1>1, <2>1, <2>3 DEF PriorGeneration, CachedOf, IntelInv, StampsAreWhole
  <1>2. ASSUME IntelInv, [IntelNext]_intelVars, job.pc = "check", job'.pc = "fetch", intelFaults' = intelFaults
        PROVE  \A d \in CachedOf(job.src) : age[d] >= IntelTTL
    <2>1. intelFaults + 1 # intelFaults
      BY <1>2 DEF IntelInv, IntelTypeOK
    <2>2. CASE Check
      <3>1. Stale(job.src)
        <4> SUFFICES ASSUME ~ Stale(job.src) PROVE FALSE
          OBVIOUS
        <4>1. job' = After(job.src, job.changed)
          BY <2>2 DEF Check
        <4> QED
          BY <1>2, <4>1, JobForms, AfterFacts DEF IntelInv
      <3> DEFINE A == {age[d] : d \in CachedOf(job.src)}
      <3>2. A \in SUBSET Nat
        BY <1>2, IntelAssumption DEF CachedOf, Cached, IntelInv, IntelTypeOK
      <3>3. ASSUME NEW d \in CachedOf(job.src) PROVE age[d] >= IntelTTL
        <4>1. age[d] \in A /\ A # {} /\ CachedOf(job.src) # {}
          OBVIOUS
        <4>2. Min(A) \in Nat /\ Min(A) <= age[d] /\ age[d] \in Nat
          <5> HIDE DEF A
          <5> QED
            BY <3>2, <4>1, MinOf
        <4>3. Min(A) >= IntelTTL
          BY <3>1, <4>1 DEF Stale
        <4> HIDE DEF A
        <4> QED
          BY <4>2, <4>3, IntelAssumption
      <3> QED
        BY <3>3
    <2> QED
      BY <1>2, <2>1, <2>2
         DEF IntelNext, RefreshStep, IntelFailure, IntelTick, StartRefresh, CheckFails, Fetch, FetchFails, Bulk,
             BulkFails, Purge, PurgeFails, Load, LoadFails, IntelRestart, IntelFault, intelVars
  <1>3. IntelInv /\ [IntelNext]_intelVars =>
          [\A d \in Cached : age'[d] = NoIoc => /\ job.pc = "purge" /\ SourceOf[d] = job.src
                                                /\ d \notin job.recs]_intelVars
    BY <1>1
  <1>4. IntelInv /\ [IntelNext]_intelVars =>
          [(job.pc = "check" /\ job'.pc = "fetch" /\ intelFaults' = intelFaults)
             => \A d \in CachedOf(job.src) : age[d] >= IntelTTL]_intelVars
    BY <1>2
  <1>5. IntelSpec => PurgeIsPrecise
    BY <1>3, IntelInvariance, PTL DEF IntelSpec, PurgeIsPrecise
  <1>6. IntelSpec => FreshFeedsAreLeftAlone
    BY <1>4, IntelInvariance, PTL DEF IntelSpec, FreshFeedsAreLeftAlone
  <1> QED
    BY <1>5, <1>6 DEF FeedCacheIsKept
=============================================================================
