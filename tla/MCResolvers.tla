---------------------------- MODULE MCResolvers ----------------------------
(***************************************************************************)
(* The two lookups a reason pass makes for its entities, abuse.ch intel    *)
(* and VirusTotal. They share no state (each has its own cache index), so  *)
(* a behaviour is one of either, the other staying at its start.           *)
(*                                                                         *)
(* Two feeds, the order of the load interleaving their IOCs; three hosts   *)
(* and three files, every file seen at two of the hosts.                   *)
(***************************************************************************)
EXTENDS Intel, Vt

VARIABLE part \* whose behaviour this is

MCSourceOf == [d \in Iocs |-> IF d \in {1, 3} THEN 1 ELSE 2]

MCFilesOf == [h \in Hosts |-> CASE h = 1 -> {1, 2} [] h = 2 -> {2, 3} [] OTHER -> {1, 3}]

allVars == <<intelVars, vars, part>>

MCInit == IntelInit /\ Init /\ part \in {"intel", "vt"}

MCNext ==
    /\ UNCHANGED part
    /\ \/ part = "intel" /\ IntelNext /\ UNCHANGED vars
       \/ part = "vt" /\ Next /\ UNCHANGED intelVars

\* Intel: run() calls refresh in every pass and a refresh ends; hours pass
\* between passes again and again (the tick is off during a refresh, hence
\* strong fairness). VirusTotal: the loop of run() goes on and every pass
\* ends; no assumption on the days.
MCSpec ==
    /\ MCInit
    /\ [][MCNext]_allVars
    /\ SF_allVars(part = "intel" /\ IntelTick /\ UNCHANGED <<vars, part>>)
    /\ WF_allVars(part = "intel" /\ StartRefresh /\ UNCHANGED <<vars, part>>)
    /\ WF_allVars(part = "intel" /\ (Check \/ Fetch \/ Bulk \/ Purge \/ Load) /\ UNCHANGED <<vars, part>>)
    /\ WF_allVars(part = "vt" /\ StartPass /\ UNCHANGED <<intelVars, part>>)
    /\ WF_allVars(part = "vt" /\ PassStep /\ UNCHANGED <<intelVars, part>>)

-----------------------------------------------------------------------------
\* However requests of the intel refresh fail, the in-memory indexes hold what
\* the cache holds (up to _LOAD_CAP) again and again.
MatcherCatchesUp == part = "intel" => MemoryCatchesUp

\* Every file seen at a host gets its verdict in pass after pass, once
\* requests to VirusTotal and to the cache stop failing.
AllVerdictsArrive == part = "vt" => VerdictsArrive
=============================================================================
