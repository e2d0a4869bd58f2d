---------------------------- MODULE ReasonProofs ----------------------------
(***************************************************************************)
(* For every set of hosts, page size, retention and window, and for any    *)
(* number of rows, days and failures: entities are what the ledger says, a *)
(* pass that ran to its end left no row out and no entity too many, no     *)
(* entity loses ground, and the feed is fresh.                             *)
(***************************************************************************)
EXTENDS Reason, FiniteSetTheorems, WellFoundedInduction, TLAPS

-----------------------------------------------------------------------------
(***************************************************************************)
(* The inductive invariant.                                                *)
(***************************************************************************)

\* Rows are of days that have come; while a pass runs at most one day passes.
RowsAreOfThePast ==
    /\ IsFiniteSet(ledger)
    /\ \A r \in ledger : r.ts <= clock
    /\ pass.pc # "sleep" => clock <= pass.now + 1

\* What an entity, indexed, searchable or waiting in the page, owes to the ledger.
Sound(h, e) == FromLedger(h, e) /\ e.last_seen <= e.updated_at + 1

EntitiesAreSound ==
    /\ \A h \in Hosts : entities[h] # NoEntity => Sound(h, entities[h])
    /\ \A h \in Hosts : searchable[h] # NoEntity => Sound(h, searchable[h])

\* A page is of a running pass, and its buckets are of that pass and newer than
\* the entities they will replace.
PageIsSound ==
    /\ pass.page # Empty => pass.pc = "paging"
    /\ \A h \in DOMAIN pass.page :
         /\ Sound(h, pass.page[h])
         /\ pass.page[h].updated_at = pass.now
         /\ entities[h] # NoEntity => entities[h].last_seen <= pass.page[h].last_seen

Covers(e, r) == e # NoEntity /\ e.last_seen >= r.ts /\ e.rank >= r.rank

\* Of the rows a pass began with, each is rolled up, or waits in the page, or
\* comes in a page still to be read.
Progress ==
    /\ pass.pc # "sleep" => ~ pass.ok
    /\ \A r \in pass.seen : r.ts >= Since =>
         /\ r.host \in DOMAIN pass.page => Covers(pass.page[r.host], r)
         /\ \/ Covers(entities[r.host], r)
            \/ pass.pc = "paging" /\ r.host > pass.after
            \/ r.host \in DOMAIN pass.page
            \/ pass.pc = "sleep" /\ ~ pass.ok

\* What a pass wrote and no search sees yet is inside its window.
UnseenIsFresh ==
    pass.pc # "sleep" =>
        \A h \in Hosts : \/ entities[h] = searchable[h]
                         \/ entities[h] = NoEntity
                         \/ entities[h].last_seen >= Since

IInv ==
    /\ TypeOK
    /\ RowsAreOfThePast
    /\ EntitiesAreSound
    /\ PageIsSound
    /\ Progress
    /\ UnseenIsFresh
    /\ PassDecays

-----------------------------------------------------------------------------
(***************************************************************************)
(* Least and greatest elements.                                            *)
(***************************************************************************)

\* A non-empty set of naturals has a least element.
LEMMA LeastElement ==
    ASSUME NEW S \in SUBSET Nat, S # {}
    PROVE  \E m \in S : \A x \in S : m <= x
  <1>1. PICK m \in S : \A x \in S : <<x, m>> \notin OpToRel(<, Nat)
    <2>1. \E m \in S : \A x \in S : <<x, m>> \notin OpToRel(<, Nat)
      BY NatLessThanWellFounded, WFMin
    <2> QED
      BY <2>1
  <1>2. \A x \in S : ~ (x < m)
    BY <1>1 DEF OpToRel
  <1> QED
    BY <1>2

\* Min is a member of a non-empty set of naturals, and none is below it.
LEMMA MinOf ==
    ASSUME NEW S \in SUBSET Nat, S # {}
    PROVE  Min(S) \in S /\ \A x \in S : Min(S) <= x
  <1>1. \E m \in S : \A x \in S : m <= x
    BY LeastElement
  <1> QED
    BY <1>1 DEF Min

\* Max is a member of a non-empty finite set of naturals, and none is above it:
\* the element with the fewest above it has none.
LEMMA MaxOf ==
    ASSUME NEW S \in SUBSET Nat, S # {}, IsFiniteSet(S)
    PROVE  Max(S) \in S /\ \A x \in S : x <= Max(S)
  <1> DEFINE Above(x) == {y \in S : y > x}
             Counts == {n \in Nat : \E x \in S : n = Cardinality(Above(x))}
  <1>1. \A x \in S : IsFiniteSet(Above(x)) /\ Cardinality(Above(x)) \in Nat
    BY FS_Subset, FS_CardinalityType
  <1>2. Counts \in SUBSET Nat /\ Counts # {}
    BY <1>1
  <1>3. PICK n \in Counts : \A k \in Counts : n <= k
    <2> HIDE DEF Counts
    <2> QED
      BY <1>2, LeastElement
  <1>4. PICK x \in S : n = Cardinality(Above(x))
    BY <1>3
  <1>5. \A y \in S : x >= y
    <2> SUFFICES ASSUME NEW y \in S, y > x PROVE FALSE
      OBVIOUS
    <2>1. Above(y) \in SUBSET Above(x) /\ y \in Above(x) /\ y \notin Above(y)
      <3>1. x \in Nat /\ y \in Nat /\ \A z \in S : z \in Nat
        OBVIOUS
      <3>2. \A z \in S : z > y => z > x
        BY <3>1
      <3>3. ~ (y > y)
        BY <3>1
      <3> QED
        BY <3>2, <3>3
    <2>2. Cardinality(Above(y)) <= Cardinality(Above(x)) /\ Cardinality(Above(y)) # Cardinality(Above(x))
      BY <1>1, <2>1, FS_Subset
    <2>3. Cardinality(Above(y)) \in Counts
      BY <1>1
    <2> QED
      BY <1>1, <1>3, <1>4, <2>2, <2>3
  <1>6. \E z \in S : \A y \in S : z >= y
    BY <1>5
  <1>7. Max(S) \in S /\ \A y \in S : Max(S) >= y
    BY <1>6 DEF Max
  <1> QED
    BY <1>7

-----------------------------------------------------------------------------
(***************************************************************************)
(* The aggregation: what a bucket and a page hold.                         *)
(***************************************************************************)

\* An entity is a document.
LEMMA EntityIsSome == NoEntity \notin Entity
  <1>1. 0 .. MaxTime \subseteq Nat /\ Ranks \subseteq 0 .. 2
    BY ReasonAssumption
  <1>2. Entity \subseteq [first_seen : Nat, last_seen : Nat, rank : 0 .. 2, updated_at : Nat]
    BY <1>1 DEF Entity
  <1> QED
    BY <1>2, ReasonAssumption

\* The bucket of a host with rows in the window comes from rows of that host in
\* the window, and covers all of them.
LEMMA BucketFacts ==
    ASSUME TypeOK, RowsAreOfThePast, pass.pc # "sleep", NEW h \in Hosts, RowsInWindow(h) # {}
    PROVE  /\ Bucket(h) \in Entity
           /\ Sound(h, Bucket(h))
           /\ Bucket(h).updated_at = pass.now
           /\ Bucket(h).last_seen >= Since
           /\ \A r \in RowsInWindow(h) : Covers(Bucket(h), r)
  <1> DEFINE W == RowsInWindow(h)
             T == {r.ts : r \in W}
             K == {r.rank : r \in W}
             b == Bucket(h)
  <1> USE ReasonAssumption
  <1>1. /\ MaxTime \in Nat /\ Retention \in Nat /\ clock \in 0 .. MaxTime /\ pass.now \in 0 .. clock
        /\ clock <= pass.now + 1 /\ Since \in Int
    BY DEF TypeOK, RowsAreOfThePast, Since
  <1>2. \A r \in W : /\ r \in ledger /\ r.host = h /\ r.ts \in 0 .. MaxTime /\ r.ts >= Since
                     /\ r.ts <= clock /\ r.rank \in Ranks /\ r.rank \in 0 .. 2
    BY DEF TypeOK, RowsInWindow, Row, RowsAreOfThePast
  <1>3. T \in SUBSET (0 .. MaxTime) /\ T # {} /\ K \in SUBSET (0 .. 2) /\ K # {}
    BY <1>2
  <1>4. IsFiniteSet(T) /\ IsFiniteSet(K) /\ T \in SUBSET Nat /\ K \in SUBSET Nat
    <2>1. IsFiniteSet(0 .. MaxTime) /\ IsFiniteSet(0 .. 2)
      <3>1. 0 \in Int /\ 2 \in Int /\ MaxTime \in Int
        BY <1>1
      <3> QED
        BY <3>1, FS_Interval
    <2>2. IsFiniteSet(T) /\ IsFiniteSet(K)
      <3> HIDE DEF T, K
      <3> QED
        BY <1>3, <2>1, FS_Subset
    <2> QED
      BY <1>3, <2>2
  <1>5. /\ Min(T) \in T /\ \A x \in T : Min(T) <= x
        /\ Max(T) \in T /\ \A x \in T : x <= Max(T)
        /\ Max(K) \in K /\ \A x \in K : x <= Max(K)
    <2> HIDE DEF T, K
    <2> QED
      BY <1>3, <1>4, MinOf, MaxOf
  <1>6. /\ b.first_seen = Min(T) /\ b.last_seen = Max(T) /\ b.rank = Max(K) /\ b.updated_at = pass.now
        /\ b = [first_seen |-> Min(T), last_seen |-> Max(T), rank |-> Max(K), updated_at |-> pass.now]
    BY DEF Bucket
  <1>7. PICK f \in W, l \in W, k \in W : f.ts = Min(T) /\ l.ts = Max(T) /\ k.rank = Max(K)
    BY <1>5
  <1>8. \A r \in W : r.ts \in T /\ r.rank \in K
    OBVIOUS
  <1>9. b \in Entity
    <2>1. Min(T) \in 0 .. MaxTime /\ Max(T) \in 0 .. MaxTime /\ Max(K) \in Ranks
      BY <1>2, <1>7
    <2>2. pass.now \in 0 .. MaxTime
      BY <1>1
    <2> HIDE DEF T, K, b
    <2> QED
      BY <1>6, <2>1, <2>2 DEF Entity
  <1>10. b.last_seen >= Since
    BY <1>2, <1>6, <1>7
  <1>11. \A r \in W : Covers(b, r)
    <2>1. b # NoEntity
      BY <1>9, EntityIsSome
    <2>2. \A r \in W : b.last_seen >= r.ts /\ b.rank >= r.rank
      <3> TAKE r \in W
      <3>1. r.ts <= Max(T) /\ r.rank <= Max(K) /\ r.ts \in Int /\ r.rank \in Int
        BY <1>2, <1>5, <1>8
      <3>2. Max(T) \in Int /\ Max(K) \in Int
        BY <1>2, <1>7
      <3> HIDE DEF T, K, W, b
      <3> QED
        BY <1>6, <3>1, <3>2
    <2> QED
      BY <2>1, <2>2 DEF Covers
  <1>12. FromLedger(h, b)
    <2> DEFINE rows == {r \in ledger : r.host = h /\ r.ts >= b.updated_at - Retention}
    <2>1. \A r \in W : r \in rows
      BY <1>2, <1>6 DEF Since
    <2>2. k.ts \in b.first_seen .. b.last_seen
      <3>1. Min(T) <= k.ts /\ k.ts <= Max(T) /\ k.ts \in Int /\ Min(T) \in Int /\ Max(T) \in Int
        BY <1>2, <1>5, <1>7, <1>8
      <3> HIDE DEF T, K, W, b
      <3> QED
        BY <1>6, <3>1
    <2>3. f \in rows /\ l \in rows /\ k \in rows
      BY <2>1
    <2>4. f.ts = b.first_seen /\ l.ts = b.last_seen /\ k.rank = b.rank
      BY <1>6, <1>7
    <2> HIDE DEF b, W, T, K
    <2> QED
      BY <2>2, <2>3, <2>4 DEF FromLedger
  <1>13. b.last_seen <= b.updated_at + 1
    <2>1. l.ts <= clock /\ l.ts \in Int
      BY <1>2
    <2> HIDE DEF b, W, T, K
    <2> QED
      BY <1>1, <1>6, <1>7, <2>1
  <1> QED
    BY <1>6, <1>9, <1>10, <1>11, <1>12, <1>13 DEF Sound

Rest == {h \in Hosts : h > pass.after /\ RowsInWindow(h) # {}}

\* The hosts with rows are finitely many, as the rows are.
LEMMA RestIsFinite == ASSUME TypeOK, RowsAreOfThePast PROVE Rest \in SUBSET Nat /\ IsFiniteSet(Rest)
  <1> DEFINE L == {r \in ledger : r.host \in Rest}
             f == [r \in L |-> r.host]
  <1>1. Rest \in SUBSET Nat
    BY ReasonAssumption DEF Rest
  <1>2. IsFiniteSet(L)
    BY FS_Subset DEF RowsAreOfThePast
  <1>3. \A h \in Rest : \E r \in L : r.host = h
    BY DEF Rest, RowsInWindow
  <1>4. f \in Surjection(L, Rest)
    BY <1>3 DEF Surjection
  <1>5. IsFiniteSet(Rest)
    <2> HIDE DEF L, f
    <2> QED
      BY <1>2, <1>4, FS_Surjection
  <1> QED
    BY <1>1, <1>5

\* A page takes the hosts with rows in the order of the key and skips none: what
\* it leaves for later comes after its last host, and the page is empty only
\* when no host is left.
LEMMA PageFacts ==
    ASSUME TypeOK, RowsAreOfThePast
    PROVE  /\ PageHosts \subseteq Rest
           /\ PageHosts = {} => Rest = {}
           /\ PageHosts # {} => /\ Max(PageHosts) \in Hosts
                                /\ \A h \in Rest \ PageHosts : h > Max(PageHosts)
  <1> DEFINE Before(h) == {g \in Rest : g < h}
  <1>1. Rest \in SUBSET Nat /\ IsFiniteSet(Rest)
    BY RestIsFinite
  <1>2. PageHosts = {h \in Rest : Cardinality(Before(h)) < PageSize}
    BY DEF PageHosts, Rest
  <1>3. \A h \in Rest : Before(h) \in SUBSET Rest /\ IsFiniteSet(Before(h)) /\ Cardinality(Before(h)) \in Nat
    BY <1>1, FS_Subset, FS_CardinalityType
  <1>4. PageHosts \subseteq Rest
    BY <1>2
  <1>5. PageHosts = {} => Rest = {}
    <2> SUFFICES ASSUME Rest # {} PROVE PageHosts # {}
      OBVIOUS
    <2>1. Min(Rest) \in Rest /\ \A x \in Rest : Min(Rest) <= x
      BY <1>1, MinOf
    <2>2. Before(Min(Rest)) = {}
      <3>1. Min(Rest) \in Nat /\ \A x \in Rest : x \in Nat
        BY <1>1, <2>1
      <3>2. \A x \in Rest : ~ (x < Min(Rest))
        BY <2>1, <3>1
      <3> QED
        BY <3>2
    <2>3. Cardinality(Before(Min(Rest))) = 0
      BY <2>2, FS_EmptySet
    <2> QED
      BY <1>2, <2>1, <2>3, ReasonAssumption
  <1>6. ASSUME PageHosts # {}
        PROVE  Max(PageHosts) \in Hosts /\ \A h \in Rest \ PageHosts : h > Max(PageHosts)
    <2> DEFINE m == Max(PageHosts)
    <2>1. PageHosts \in SUBSET Nat /\ IsFiniteSet(PageHosts)
      BY <1>1, <1>4, FS_Subset
    <2>2. m \in PageHosts
      BY <1>6, <2>1, MaxOf
    <2>3. ASSUME NEW h \in Rest \ PageHosts, ~ (h > m) PROVE FALSE
      <3> HIDE DEF m
      <3>1. h \in Nat /\ m \in Nat /\ m \in Rest /\ \A g \in Rest : g \in Nat
        BY <1>1, <1>4, <2>2
      <3>2. \A g \in Rest : g < h => g < m
        BY <2>3, <3>1
      <3>3. Before(h) \in SUBSET Before(m)
        BY <3>2
      <3>4. Cardinality(Before(h)) <= Cardinality(Before(m))
        <4> HIDE DEF Before
        <4> QED
          BY <1>3, <3>1, <3>3, FS_Subset
      <3>5. Cardinality(Before(m)) < PageSize /\ ~ (Cardinality(Before(h)) < PageSize)
        BY <1>2, <2>2
      <3> QED
        BY <1>3, <3>1, <3>4, <3>5, ReasonAssumption
    <2> QED
      BY <1>4, <2>2, <2>3 DEF Rest
  <1> QED
    BY <1>4, <1>5, <1>6

\* The next host to write is one of the page.
LEMMA NextHostOfPage ==
    ASSUME TypeOK, pass.page # Empty
    PROVE  NextHost \in DOMAIN pass.page /\ NextHost \in Hosts /\ pass.page[NextHost] \in Entity
  <1>1. PICK D \in SUBSET Hosts : pass.page \in [D -> Entity]
    BY DEF TypeOK
  <1>2. D # {}
    BY <1>1 DEF Empty
  <1>3. D \in SUBSET Nat
    BY ReasonAssumption
  <1>4. NextHost \in D
    BY <1>1, <1>2, <1>3, MinOf DEF NextHost
  <1> QED
    BY <1>1, <1>4

-----------------------------------------------------------------------------
(***************************************************************************)
(* The steps.                                                              *)
(***************************************************************************)

\* An upsert, of a step or of a request that failed after it was applied.
Written == entities' = [entities EXCEPT ![NextHost] = pass.page[NextHost]]

\* A delete_by_query that deleted some of what it could.
Deleted == \E D \in SUBSET (Expired \ Conflicting) : entities' = Without(D)

\* The initial state satisfies the invariant.
LEMMA InitReason == Init => IInv
  <1> SUFFICES ASSUME Init PROVE IInv
    OBVIOUS
  <1> USE ReasonAssumption DEF Init
  <1>1. \A h \in Hosts : entities[h] = NoEntity /\ searchable[h] = NoEntity
    OBVIOUS
  <1>2. TypeOK
    <2>1. pass.page \in [{} -> Entity] /\ {} \in SUBSET Hosts
      BY DEF Empty
    <2>2. clock \in 0 .. MaxTime /\ faults \in 0 .. MaxFaults
      OBVIOUS
    <2>3. pass \in [pc : {"sleep", "paging", "decay"}, ok : BOOLEAN, now : 0 .. clock,
                    after : Hosts \cup {0}, page : {pass.page}, seen : SUBSET ledger]
      OBVIOUS
    <2> QED
      BY <2>1, <2>2, <2>3 DEF TypeOK
  <1>3. RowsAreOfThePast
    BY FS_EmptySet DEF RowsAreOfThePast
  <1>4. EntitiesAreSound
    BY <1>1 DEF EntitiesAreSound
  <1>5. PageIsSound
    BY DEF PageIsSound, Empty
  <1>6. Progress /\ UnseenIsFresh /\ PassDecays
    BY DEF Progress, UnseenIsFresh, PassDecays
  <1> QED
    BY <1>2, <1>3, <1>4, <1>5, <1>6 DEF IInv

\* Deleting and upserting keep the entity index well formed.
LEMMA EntitiesKeepType ==
    ASSUME TypeOK, (pass.page # Empty /\ Written) \/ Deleted \/ UNCHANGED entities
    PROVE  entities' \in [Hosts -> Entity \cup {NoEntity}]
  <1>1. CASE pass.page # Empty /\ Written
    BY <1>1, NextHostOfPage DEF TypeOK, Written
  <1>2. CASE Deleted
    BY <1>2 DEF TypeOK, Deleted, Without
  <1> QED
    BY <1>1, <1>2 DEF TypeOK

\* The page after the write of its next host, and the page of a pass that ended.
LEMMA PageKeepsType ==
    ASSUME TypeOK
    PROVE  /\ \E D \in SUBSET Hosts : Empty \in [D -> Entity]
           /\ \E D \in SUBSET Hosts :
                [h \in DOMAIN pass.page \ {NextHost} |-> pass.page[h]] \in [D -> Entity]
  <1>1. PICK D \in SUBSET Hosts : pass.page \in [D -> Entity]
    BY DEF TypeOK
  <1>2. [h \in DOMAIN pass.page \ {NextHost} |-> pass.page[h]] \in [D \ {NextHost} -> Entity]
    BY <1>1
  <1>3. Empty \in [{} -> Entity]
    BY DEF Empty
  <1> QED
    BY <1>2, <1>3

\* Every step keeps the types.
LEMMA TypeStep == IInv /\ [Next]_vars => TypeOK'
  <1> SUFFICES ASSUME IInv, [Next]_vars PROVE TypeOK'
    OBVIOUS
  <1>0. TypeOK /\ RowsAreOfThePast
    BY DEF IInv
  <1> USE ReasonAssumption, <1>0
  <1>1. CASE Tick
    BY <1>1 DEF Tick, TypeOK
  <1>2. ASSUME NEW r \in Row, Sight(r) PROVE TypeOK'
    BY <1>2 DEF Sight, TypeOK
  <1>3. CASE Refresh
    BY <1>3 DEF Refresh, TypeOK
  <1>4. CASE StartPass
    <2>1. pass' \in [pc : {"sleep", "paging", "decay"}, ok : BOOLEAN, now : 0 .. clock',
                    after : Hosts \cup {0}, page : {pass'.page}, seen : SUBSET ledger']
      BY <1>4 DEF StartPass, TypeOK
    <2> QED
      BY <1>4, <2>1, PageKeepsType DEF StartPass, TypeOK
  <1>5. CASE ReadPage
    <2>1. CASE PageHosts = {}
      BY <1>5, <2>1 DEF ReadPage, TypeOK
    <2>2. CASE PageHosts # {}
      <3> DEFINE B == [h \in PageHosts |-> Bucket(h)]
      <3>1. PageHosts \subseteq Rest /\ Max(PageHosts) \in Hosts /\ Rest \subseteq Hosts
        BY <2>2, PageFacts DEF Rest
      <3>2. \A h \in PageHosts : h \in Hosts /\ RowsInWindow(h) # {}
        BY <3>1 DEF Rest
      <3>3. \A h \in PageHosts : Bucket(h) \in Entity
        BY <1>5, <3>2, BucketFacts DEF ReadPage
      <3>4. B \in [PageHosts -> Entity]
        BY <3>3
      <3>5. pass' = [pass EXCEPT !.page = B, !.after = Max(PageHosts)]
        BY <1>5, <2>2 DEF ReadPage
      <3> HIDE DEF B
      <3> QED
        BY <1>5, <3>1, <3>4, <3>5 DEF ReadPage, TypeOK
    <2> QED
      BY <2>1, <2>2
  <1>6. CASE Upsert
    <2>1. entities' \in [Hosts -> Entity \cup {NoEntity}]
      BY <1>6, EntitiesKeepType DEF Upsert, Written
    <2> DEFINE P == [h \in DOMAIN pass.page \ {NextHost} |-> pass.page[h]]
    <2>2. pass' = [pass EXCEPT !.page = P]
      BY <1>6 DEF Upsert
    <2>3. \E D \in SUBSET Hosts : P \in [D -> Entity]
      BY PageKeepsType
    <2> HIDE DEF P
    <2> QED
      BY <1>6, <2>1, <2>2, <2>3 DEF Upsert, TypeOK
  <1>7. CASE UpsertRefused
    BY <1>7, PageKeepsType DEF UpsertRefused, PassRaises, TypeOK
  <1>8. CASE Decay
    <2>1. entities' \in [Hosts -> Entity \cup {NoEntity}]
      BY <1>8 DEF Decay, Without, TypeOK
    <2> QED
      BY <1>8, <2>1 DEF Decay, TypeOK
  <1>9. CASE DecayConflict
    <2>1. entities' \in [Hosts -> Entity \cup {NoEntity}]
      BY <1>9, EntitiesKeepType DEF DecayConflict, Deleted
    <2> QED
      BY <1>9, <2>1, PageKeepsType DEF DecayConflict, PassRaises, TypeOK
  <1>10. CASE PassFails
    <2>1. entities' \in [Hosts -> Entity \cup {NoEntity}]
      BY <1>10, EntitiesKeepType DEF PassFails, Deleted, Written
    <2>2. faults' \in 0 .. MaxFaults
      BY <1>10 DEF PassFails, TypeOK
    <2> QED
      BY <1>10, <2>1, <2>2, PageKeepsType DEF PassFails, PassRaises, TypeOK
  <1>11. CASE UNCHANGED vars
    BY <1>11 DEF vars, TypeOK
  <1> QED
    BY <1>1, <1>2, <1>3, <1>4, <1>5, <1>6, <1>7, <1>8, <1>9, <1>10, <1>11 DEF Next, PassStep

\* Every step keeps rows in the past, and a pass shorter than a day.
LEMMA PastStep == IInv /\ [Next]_vars => RowsAreOfThePast'
  <1> SUFFICES ASSUME IInv, [Next]_vars PROVE RowsAreOfThePast'
    OBVIOUS
  <1> USE ReasonAssumption DEF IInv, RowsAreOfThePast, TypeOK
  <1>1. CASE Tick
    <2>1. \A r \in ledger : r.ts \in Int /\ r.ts <= clock + 1
      BY DEF Row
    <2> QED
      BY <1>1, <2>1 DEF Tick
  <1>2. ASSUME NEW r \in Row, Sight(r) PROVE RowsAreOfThePast'
    <2>1. IsFiniteSet(ledger')
      BY <1>2, FS_AddElement DEF Sight
    <2> QED
      BY <1>2, <2>1 DEF Sight
  <1>3. CASE StartPass
    BY <1>3 DEF StartPass
  <1>4. CASE UNCHANGED <<clock, ledger>> /\ pass'.now = pass.now /\ (pass'.pc # "sleep" => pass.pc # "sleep")
    BY <1>4
  <1>5. ASSUME \/ Refresh \/ ReadPage \/ Upsert \/ UpsertRefused
               \/ Decay \/ DecayConflict \/ PassFails \/ UNCHANGED vars
        PROVE  UNCHANGED <<clock, ledger>> /\ pass'.now = pass.now /\ (pass'.pc # "sleep" => pass.pc # "sleep")
    BY <1>5 DEF Refresh, ReadPage, Upsert, UpsertRefused, Decay, DecayConflict, PassFails, PassRaises, vars
  <1> QED
    BY <1>1, <1>2, <1>3, <1>4, <1>5 DEF Next, PassStep

\* The ledger only grows.
LEMMA LedgerGrows == [Next]_vars => ledger \subseteq ledger'
  BY DEF Next, PassStep, Tick, Sight, Refresh, StartPass, ReadPage, Upsert, UpsertRefused, Decay,
         DecayConflict, PassFails, vars

\* What a step does to an entity: nothing, or the write of its bucket, or, when
\* it expired and every search sees it, its deletion.
LEMMA EntityStep ==
    ASSUME IInv, [Next]_vars, NEW h \in Hosts
    PROVE  \/ entities'[h] = entities[h]
           \/ /\ pass.page # Empty /\ h = NextHost
              /\ entities'[h] = pass.page[h]
           \/ /\ pass.pc = "decay"
              /\ h \in Expired \ Conflicting
              /\ entities'[h] = NoEntity
  <1> USE DEF IInv
  <1>1. CASE UNCHANGED entities
    BY <1>1
  <1>2. CASE pass.page # Empty /\ Written
    BY <1>2, NextHostOfPage DEF Written, TypeOK
  <1>3. CASE pass.pc = "decay" /\ Deleted
    BY <1>3 DEF Deleted, Without
  <1>4. ASSUME Upsert \/ Decay \/ DecayConflict \/ PassFails
        PROVE  \/ UNCHANGED entities
               \/ pass.page # Empty /\ Written
               \/ pass.pc = "decay" /\ Deleted
    <2>1. CASE Decay
      BY <2>1 DEF Decay, Deleted
    <2> QED
      BY <1>4, <2>1 DEF Upsert, DecayConflict, PassFails, Deleted, Written
  <1> QED
    BY <1>1, <1>2, <1>3, <1>4
       DEF Next, PassStep, Tick, Sight, Refresh, StartPass, ReadPage, UpsertRefused, vars

\* Searches see the index as it was, as it is, or, after the refresh that ends a
\* pass, as it becomes.
LEMMA SearchableStep ==
    [Next]_vars => searchable' = searchable \/ searchable' = entities \/ searchable' = entities'
  BY DEF Next, PassStep, Tick, Sight, Refresh, StartPass, ReadPage, Upsert, UpsertRefused, Decay,
         DecayConflict, PassFails, vars

\* Every step keeps the entities sound.
LEMMA SoundStep == IInv /\ [Next]_vars => EntitiesAreSound'
  <1> SUFFICES ASSUME IInv, [Next]_vars PROVE EntitiesAreSound'
    OBVIOUS
  <1>1. ledger \subseteq ledger'
    BY LedgerGrows
  <1>2. ASSUME NEW h \in Hosts, entities'[h] # NoEntity PROVE Sound(h, entities[h])'
    <2>1. \/ entities'[h] = entities[h]
          \/ pass.page # Empty /\ h = NextHost /\ entities'[h] = pass.page[h]
      BY <1>2, EntityStep
    <2>2. CASE entities'[h] = entities[h]
      <3>1. Sound(h, entities[h])
        BY <1>2, <2>2 DEF IInv, EntitiesAreSound
      <3> QED
        BY <1>1, <2>2, <3>1 DEF Sound, FromLedger
    <2>3. CASE pass.page # Empty /\ h = NextHost /\ entities'[h] = pass.page[h]
      <3>1. Sound(h, pass.page[h])
        BY <2>3, NextHostOfPage DEF IInv, PageIsSound
      <3> QED
        BY <1>1, <2>3, <3>1 DEF Sound, FromLedger
    <2> QED
      BY <2>1, <2>2, <2>3
  <1>3. ASSUME NEW h \in Hosts, searchable'[h] # NoEntity PROVE Sound(h, searchable[h])'
    <2>1. CASE searchable' = entities'
      BY <1>2, <1>3, <2>1 DEF Sound, FromLedger
    <2>2. CASE searchable' = searchable \/ searchable' = entities
      <3>1. PICK e : e = searchable'[h] /\ Sound(h, e)
        BY <1>3, <2>2 DEF IInv, EntitiesAreSound
      <3> QED
        BY <1>1, <3>1 DEF Sound, FromLedger
    <2> QED
      BY <2>1, <2>2, SearchableStep
  <1> QED
    BY <1>2, <1>3 DEF EntitiesAreSound

\* A sound bucket of the running pass is not older than its entity: every row the
\* entity came from is still there, in the window or before it.
LEMMA BucketIsNewer ==
    ASSUME IInv, pass.pc # "sleep", NEW h \in Hosts, RowsInWindow(h) # {}, entities[h] # NoEntity
    PROVE  entities[h].last_seen <= Bucket(h).last_seen
  <1>1. entities[h] \in Entity /\ Bucket(h) \in Entity
    BY BucketFacts DEF IInv, TypeOK
  <1>2. entities[h].last_seen \in Int /\ Bucket(h).last_seen \in Int /\ Since \in Int
    BY <1>1, ReasonAssumption DEF Entity, Since, IInv, TypeOK
  <1>3. PICK r \in ledger : r.host = h /\ r.ts = entities[h].last_seen
    BY DEF IInv, EntitiesAreSound, Sound, FromLedger
  <1>4. CASE r.ts >= Since
    <2>1. r \in RowsInWindow(h)
      BY <1>3, <1>4 DEF RowsInWindow
    <2>2. Bucket(h).last_seen >= r.ts
      BY <2>1, BucketFacts DEF IInv, Covers
    <2> QED
      BY <1>2, <1>3, <2>2
  <1>5. CASE ~ (r.ts >= Since)
    <2>1. Bucket(h).last_seen >= Since
      BY BucketFacts DEF IInv
    <2> QED
      BY <1>2, <1>3, <1>5, <2>1
  <1> QED
    BY <1>4, <1>5

\* Every step keeps the page sound.
LEMMA PageStep == IInv /\ [Next]_vars => PageIsSound'
  <1> SUFFICES ASSUME IInv, [Next]_vars PROVE PageIsSound'
    OBVIOUS
  <1>0. TypeOK /\ PageIsSound /\ RowsAreOfThePast
    BY DEF IInv
  <1>1. ledger \subseteq ledger'
    BY LedgerGrows
  <1>2. CASE pass'.page = Empty
    BY <1>2 DEF PageIsSound, Empty
  <1>3. CASE UNCHANGED <<entities, pass>>
    <2>1. ASSUME NEW h \in DOMAIN pass.page
          PROVE  Sound(h, pass.page[h])'
      <3>1. Sound(h, pass.page[h])
        BY <1>0 DEF PageIsSound
      <3> QED
        BY <1>1, <1>3, <3>1 DEF Sound, FromLedger
    <2> QED
      BY <1>0, <1>3, <2>1 DEF PageIsSound
  <1>4. CASE ReadPage /\ PageHosts # {}
    <2>1. \A h \in PageHosts : h \in Hosts /\ RowsInWindow(h) # {}
      BY <1>0, PageFacts DEF Rest
    <2>2. \A h \in PageHosts : /\ Sound(h, Bucket(h)) /\ Bucket(h).updated_at = pass.now
                               /\ entities[h] # NoEntity => entities[h].last_seen <= Bucket(h).last_seen
      BY <1>0, <1>4, <2>1, BucketFacts, BucketIsNewer DEF ReadPage
    <2> DEFINE B == [h \in PageHosts |-> Bucket(h)]
    <2>3. /\ pass'.page = B /\ pass'.pc = "paging" /\ pass'.now = pass.now
          /\ DOMAIN B = PageHosts /\ \A h \in PageHosts : B[h] = Bucket(h)
      BY <1>0, <1>4 DEF ReadPage, TypeOK
    <2>4. UNCHANGED <<ledger, entities>>
      BY <1>4 DEF ReadPage
    <2>5. ASSUME NEW h \in PageHosts PROVE Sound(h, pass.page[h])'
      <3>1. PICK e : e = Bucket(h) /\ Sound(h, e)
        BY <2>2
      <3>2. pass'.page[h] = e
        BY <2>3, <3>1
      <3> QED
        BY <2>4, <3>1, <3>2 DEF Sound, FromLedger
    <2> HIDE DEF B
    <2> QED
      BY <2>2, <2>3, <2>4, <2>5 DEF PageIsSound
  <1>5. CASE Upsert
    <2> DEFINE P == [h \in DOMAIN pass.page \ {NextHost} |-> pass.page[h]]
    <2>1. /\ pass'.page = P /\ pass'.pc = "paging" /\ pass'.now = pass.now
          /\ DOMAIN P = DOMAIN pass.page \ {NextHost} /\ \A h \in DOMAIN P : P[h] = pass.page[h]
      BY <1>0, <1>5 DEF Upsert, TypeOK
    <2>2. DOMAIN pass.page \subseteq Hosts
      BY <1>0 DEF TypeOK
    <2>3. ledger' = ledger /\ \A h \in DOMAIN P : entities'[h] = entities[h]
      BY <1>0, <1>5, <2>1, <2>2 DEF Upsert, TypeOK
    <2>4. ASSUME NEW h \in DOMAIN P PROVE Sound(h, pass.page[h])'
      <3>1. Sound(h, pass.page[h])
        BY <1>0, <2>1 DEF PageIsSound
      <3> QED
        BY <2>1, <2>3, <3>1 DEF Sound, FromLedger
    <2> HIDE DEF P
    <2> QED
      BY <1>0, <2>1, <2>3, <2>4 DEF PageIsSound
  <1>6. ASSUME StartPass \/ UpsertRefused \/ Decay \/ DecayConflict \/ PassFails \/ (ReadPage /\ PageHosts = {})
        PROVE  pass'.page = Empty
    <2>1. CASE StartPass
      BY <2>1 DEF StartPass
    <2>2. CASE UpsertRefused \/ DecayConflict \/ PassFails
      BY <1>0, <2>2 DEF UpsertRefused, DecayConflict, PassFails, PassRaises, TypeOK
    <2>3. CASE Decay
      BY <1>0, <2>3 DEF Decay, TypeOK, PageIsSound
    <2>4. CASE ReadPage /\ PageHosts = {}
      BY <1>0, <2>4 DEF ReadPage, TypeOK
    <2> QED
      BY <1>6, <2>1, <2>2, <2>3, <2>4
  <1> QED
    BY <1>2, <1>3, <1>4, <1>5, <1>6 DEF Next, PassStep, Tick, Sight, Refresh, vars

\* An entity that covers a row is not deleted by decay when the row is in the
\* window, and is replaced by no bucket that is older.
LEMMA FreshStays ==
    ASSUME IInv, [Next]_vars, NEW h \in Hosts, entities[h] # NoEntity, entities[h].last_seen >= Since
    PROVE  entities'[h] # NoEntity /\ entities'[h].last_seen >= entities[h].last_seen
  <1>1. entities[h] \in Entity /\ Since \in Int
    BY ReasonAssumption DEF IInv, TypeOK, Since
  <1>2. entities[h].last_seen \in Int
    BY <1>1 DEF Entity
  <1>3. CASE entities'[h] = entities[h]
    BY <1>2, <1>3
  <1>4. CASE pass.page # Empty /\ h = NextHost /\ entities'[h] = pass.page[h]
    <2>1. h \in DOMAIN pass.page /\ pass.page[h] \in Entity
      BY <1>4, NextHostOfPage DEF IInv
    <2>2. entities[h].last_seen <= pass.page[h].last_seen
      BY <2>1 DEF IInv, PageIsSound
    <2>3. pass.page[h] # NoEntity /\ pass.page[h].last_seen \in Int
      BY <2>1, EntityIsSome, ReasonAssumption DEF Entity
    <2> QED
      BY <1>2, <1>4, <2>2, <2>3
  <1>5. CASE h \in Expired \ Conflicting
    <2>1. entities[h].last_seen < Since
      BY <1>5 DEF Expired, Conflicting
    <2> QED
      BY <1>1, <1>2, <2>1
  <1> QED
    BY <1>3, <1>4, <1>5, EntityStep

\* Every step keeps the progress of the pass.
LEMMA ProgressStep == IInv /\ [Next]_vars => Progress'
  <1> SUFFICES ASSUME IInv, [Next]_vars PROVE Progress'
    OBVIOUS
  <1>0. TypeOK /\ RowsAreOfThePast /\ PageIsSound /\ Progress
    BY DEF IInv
  <1>1. \A r \in pass.seen : r \in ledger /\ r.host \in Hosts /\ r.ts \in Int /\ r.host \in Nat \ {0}
    BY <1>0, ReasonAssumption DEF TypeOK, Row
  <1>2. CASE UNCHANGED <<entities, pass>>
    BY <1>0, <1>2 DEF Progress, Covers, Since
  <1>3. CASE StartPass
    <2>1. pass' = [pc |-> "paging", ok |-> FALSE, now |-> clock, after |-> 0, page |-> Empty, seen |-> ledger]
      BY <1>3 DEF StartPass
    <2>2. \A r \in ledger : r.host > 0
      BY <1>0, ReasonAssumption DEF TypeOK, Row
    <2>3. \A h : h \notin DOMAIN Empty
      BY DEF Empty
    <2> QED
      BY <2>1, <2>2, <2>3 DEF Progress
  <1>4. CASE ReadPage
    <2>0. /\ pass.pc = "paging" /\ pass.page = Empty /\ ~ pass.ok /\ entities' = entities
          /\ \A h : h \notin DOMAIN pass.page
      BY <1>0, <1>4 DEF ReadPage, Progress, Empty
    <2>1. ASSUME NEW r \in pass.seen, r.ts >= Since
          PROVE  Covers(entities[r.host], r) \/ r.host \in Rest
      BY <1>0, <1>1, <2>0, <2>1 DEF Progress, Rest, RowsInWindow
    <2>2. CASE PageHosts = {}
      <3>1. Rest = {} /\ pass' = [pass EXCEPT !.pc = "decay"]
        BY <1>0, <1>4, <2>2, PageFacts DEF ReadPage
      <3>2. /\ pass'.pc = "decay" /\ pass'.ok = pass.ok /\ pass'.now = pass.now /\ pass'.page = pass.page
            /\ pass'.seen = pass.seen
        BY <1>0, <3>1 DEF TypeOK
      <3> QED
        BY <2>0, <2>1, <3>1, <3>2 DEF Progress, Covers, Since
    <2>3. CASE PageHosts # {}
      <3> DEFINE B == [h \in PageHosts |-> Bucket(h)]
      <3>1. pass' = [pass EXCEPT !.page = B, !.after = Max(PageHosts)]
        BY <1>4, <2>3 DEF ReadPage
      <3>2. DOMAIN B = PageHosts /\ \A h \in PageHosts : B[h] = Bucket(h)
        OBVIOUS
      <3> HIDE DEF B
      <3>3. /\ pass'.pc = "paging" /\ pass'.ok = pass.ok /\ pass'.now = pass.now /\ pass'.page = B
            /\ pass'.seen = pass.seen /\ pass'.after = Max(PageHosts)
        BY <1>0, <2>0, <3>1 DEF TypeOK
      <3>4. ASSUME NEW r \in pass.seen, r.ts >= Since, r.host \in PageHosts
            PROVE  Covers(B[r.host], r)
        <4>1. r \in RowsInWindow(r.host)
          BY <1>1, <3>4 DEF RowsInWindow
        <4> QED
          BY <1>0, <1>1, <2>0, <3>2, <3>4, <4>1, BucketFacts
      <3>5. ASSUME NEW r \in pass.seen, r.ts >= Since
            PROVE  Covers(entities[r.host], r) \/ r.host > Max(PageHosts) \/ r.host \in PageHosts
        BY <1>0, <2>1, <2>3, <3>5, PageFacts
      <3> QED
        BY <2>0, <3>2, <3>3, <3>4, <3>5 DEF Progress, Covers, Since
    <2> QED
      BY <2>2, <2>3
  <1>5. CASE Upsert
    <2> DEFINE P == [h \in DOMAIN pass.page \ {NextHost} |-> pass.page[h]]
    <2>1. pass' = [pass EXCEPT !.page = P] /\ pass.pc = "paging" /\ pass.page # Empty
      BY <1>5 DEF Upsert
    <2>2. DOMAIN P = DOMAIN pass.page \ {NextHost} /\ \A h \in DOMAIN P : P[h] = pass.page[h]
      OBVIOUS
    <2>3. /\ NextHost \in DOMAIN pass.page /\ entities'[NextHost] = pass.page[NextHost]
          /\ \A h \in Hosts \ {NextHost} : entities'[h] = entities[h]
      BY <1>0, <1>5, <2>1, NextHostOfPage DEF Upsert, TypeOK
    <2> HIDE DEF P
    <2>4. /\ pass'.pc = "paging" /\ pass'.ok = pass.ok /\ pass'.now = pass.now /\ pass'.page = P
          /\ pass'.seen = pass.seen /\ pass'.after = pass.after
      BY <1>0, <2>1 DEF TypeOK
    <2>5. ~ pass.ok
      BY <1>0, <2>1 DEF Progress
    <2>6. ASSUME NEW r \in pass.seen, r.ts >= Since
          PROVE  /\ r.host \in DOMAIN P => Covers(P[r.host], r)
                 /\ Covers(entities'[r.host], r) \/ r.host > pass.after \/ r.host \in DOMAIN P
      BY <1>0, <1>1, <2>1, <2>2, <2>3, <2>6 DEF Progress
    <2> QED
      BY <2>4, <2>5, <2>6 DEF Progress, Covers, Since
  <1>6. CASE UpsertRefused \/ DecayConflict \/ PassFails
    <2>1. pass' = [pass EXCEPT !.pc = "sleep", !.page = Empty] /\ pass.pc # "sleep"
      BY <1>6 DEF UpsertRefused, DecayConflict, PassFails, PassRaises
    <2>2. pass'.pc = "sleep" /\ pass'.page = Empty /\ ~ pass'.ok
      BY <1>0, <2>1 DEF Progress, TypeOK
    <2>3. \A h : h \notin DOMAIN Empty
      BY DEF Empty
    <2> QED
      BY <2>2, <2>3 DEF Progress
  <1>7. CASE Decay
    <2>1. pass' = [pass EXCEPT !.pc = "sleep", !.ok = TRUE] /\ pass.pc = "decay" /\ pass.page = Empty
      BY <1>0, <1>7 DEF Decay, PageIsSound
    <2>2. /\ pass'.pc = "sleep" /\ pass'.page = Empty /\ pass'.now = pass.now /\ pass'.seen = pass.seen
          /\ \A h : h \notin DOMAIN Empty
      BY <1>0, <2>1 DEF TypeOK, Empty
    <2>3. ASSUME NEW r \in pass.seen, r.ts >= Since PROVE Covers(entities'[r.host], r)
      <3>1. Covers(entities[r.host], r)
        BY <1>0, <2>1, <2>2, <2>3 DEF Progress
      <3>2. entities[r.host] \in Entity /\ Since \in Int
        BY <1>0, <1>1, <3>1, ReasonAssumption DEF Covers, TypeOK, Since
      <3>3. entities[r.host].last_seen >= Since
        BY <1>1, <2>3, <3>1, <3>2, ReasonAssumption DEF Covers, Entity
      <3>4. entities'[r.host] # NoEntity
        BY <1>1, <3>1, <3>3, FreshStays DEF Covers
      <3>5. entities'[r.host] = entities[r.host]
        BY <1>1, <2>1, <3>4, EntityStep
      <3> QED
        BY <3>1, <3>5
    <2> QED
      BY <2>2, <2>3 DEF Progress, Covers, Since
  <1> QED
    BY <1>2, <1>3, <1>4, <1>5, <1>6, <1>7 DEF Next, PassStep, Tick, Sight, Refresh, vars

\* Every step keeps what no search sees inside the window.
LEMMA UnseenStep == IInv /\ [Next]_vars => UnseenIsFresh'
  <1> SUFFICES ASSUME IInv, [Next]_vars, pass'.pc # "sleep", NEW h \in Hosts
               PROVE  \/ entities'[h] = searchable'[h]
                      \/ entities'[h] = NoEntity
                      \/ entities'[h].last_seen >= Since'
    BY DEF UnseenIsFresh
  <1>0. TypeOK /\ PageIsSound /\ UnseenIsFresh
    BY DEF IInv
  <1>1. CASE UNCHANGED <<entities, searchable, pass>>
    BY <1>0, <1>1 DEF UnseenIsFresh, Since
  <1>2. CASE Refresh \/ StartPass
    BY <1>2 DEF Refresh, StartPass
  <1>3. CASE ReadPage
    <2>1. pass.pc # "sleep" /\ pass'.now = pass.now /\ UNCHANGED <<entities, searchable>>
      BY <1>0, <1>3 DEF ReadPage, TypeOK
    <2> QED
      BY <1>0, <2>1 DEF UnseenIsFresh, Since
  <1>4. CASE Upsert
    <2>1. pass.pc # "sleep" /\ pass'.now = pass.now /\ searchable' = searchable /\ pass.page # Empty
      BY <1>0, <1>4 DEF Upsert, TypeOK
    <2>2. CASE h = NextHost
      <3>1. h \in DOMAIN pass.page /\ entities'[h] = pass.page[h]
        BY <1>0, <1>4, <2>1, <2>2, NextHostOfPage DEF Upsert, TypeOK
      <3>2. pass.page[h].last_seen >= Since
        BY <1>0, <3>1 DEF PageIsSound, Sound, FromLedger, Since
      <3> QED
        BY <2>1, <3>1, <3>2 DEF Since
    <2>3. CASE h # NextHost
      <3>1. entities'[h] = entities[h]
        BY <1>0, <1>4, <2>3 DEF Upsert, TypeOK
      <3> QED
        BY <1>0, <2>1, <3>1 DEF UnseenIsFresh, Since
    <2> QED
      BY <2>2, <2>3
  <1>5. ASSUME UpsertRefused \/ Decay \/ DecayConflict \/ PassFails PROVE FALSE
    BY <1>0, <1>5 DEF UpsertRefused, Decay, DecayConflict, PassFails, PassRaises, TypeOK
  <1> QED
    BY <1>1, <1>2, <1>3, <1>4, <1>5 DEF Next, PassStep, Tick, Sight, vars

\* Every step keeps what decay is to achieve: what it found expired is gone, what
\* it did not see was written by its own pass, inside the window.
LEMMA DecaysStep == IInv /\ [Next]_vars => PassDecays'
  <1> SUFFICES ASSUME IInv, [Next]_vars, pass'.pc = "sleep", pass'.ok, NEW h \in Hosts, entities'[h] # NoEntity
               PROVE  entities'[h].last_seen >= Since'
    BY DEF PassDecays
  <1>0. TypeOK /\ PageIsSound /\ Progress /\ UnseenIsFresh /\ PassDecays
    BY DEF IInv
  <1>1. CASE UNCHANGED <<entities, pass>>
    BY <1>0, <1>1 DEF PassDecays, Since
  <1>2. CASE Decay
    <2>1. pass.pc = "decay" /\ pass'.now = pass.now /\ Conflicting = {}
      BY <1>0, <1>2 DEF Decay, TypeOK
    <2>2. entities'[h] = entities[h] /\ h \notin Expired
      BY <1>2 DEF Decay, Without
    <2>3. entities[h] \in Entity /\ Since \in Int
      BY <1>0, <2>2, ReasonAssumption DEF TypeOK, Since
    <2>4. entities[h].last_seen \in Int
      BY <2>3 DEF Entity
    <2>5. CASE entities[h] = searchable[h]
      BY <2>1, <2>2, <2>3, <2>4, <2>5 DEF Expired, Since
    <2>6. CASE entities[h] # searchable[h]
      BY <1>0, <2>1, <2>2, <2>6 DEF UnseenIsFresh, Since
    <2> QED
      BY <2>5, <2>6
  <1>3. ASSUME StartPass \/ ReadPage \/ Upsert \/ UpsertRefused \/ DecayConflict \/ PassFails PROVE FALSE
    <2>1. CASE StartPass
      BY <2>1 DEF StartPass
    <2>2. CASE ReadPage \/ Upsert
      BY <1>0, <2>2 DEF ReadPage, Upsert, TypeOK
    <2>3. CASE UpsertRefused \/ DecayConflict \/ PassFails
      <3>1. pass.pc # "sleep" /\ pass'.ok = pass.ok
        BY <1>0, <2>3 DEF UpsertRefused, DecayConflict, PassFails, PassRaises, TypeOK
      <3> QED
        BY <1>0, <3>1 DEF Progress
    <2> QED
      BY <1>3, <2>1, <2>2, <2>3
  <1> QED
    BY <1>1, <1>2, <1>3 DEF Next, PassStep, Tick, Sight, Refresh, vars

\* IInv is inductive.
LEMMA Inductive == IInv /\ [Next]_vars => IInv'
  BY TypeStep, PastStep, SoundStep, PageStep, ProgressStep, UnseenStep, DecaysStep DEF IInv

\* IInv holds in every state.
LEMMA Invariance == Spec => []IInv
  BY InitReason, Inductive, PTL DEF Spec

-----------------------------------------------------------------------------
(***************************************************************************)
(* The theorems.                                                           *)
(***************************************************************************)

\* The entity index is what the ledger says, whatever arrives, fails or lags
\* between the requests of a pass of run_once.
THEOREM ReasonCorrect == Spec => []ReasonInv
  <1>1. IInv => ReasonInv
    <2> SUFFICES ASSUME IInv PROVE ReasonInv
      OBVIOUS
    <2>1. TypeOK /\ PassDecays
      BY DEF IInv
    <2>2. EntityFromLedger
      BY DEF IInv, EntitiesAreSound, Sound, EntityFromLedger
    <2>3. PassIsComplete
      <3> SUFFICES ASSUME pass.pc = "sleep", pass.ok, NEW r \in pass.seen, r.ts >= Since
                   PROVE  Covers(entities[r.host], r)
        BY DEF PassIsComplete, Covers
      <3>1. pass.page = Empty
        BY DEF IInv, PageIsSound
      <3>2. r.host \notin DOMAIN pass.page
        BY <3>1 DEF Empty
      <3> QED
        BY <3>2 DEF IInv, Progress
    <2> QED
      BY <2>1, <2>2, <2>3 DEF ReasonInv
  <1> QED
    BY <1>1, Invariance, PTL

\* What build_feed lists was sighted inside the window, on evidence no older than
\* window and retention together, however long the reason job has been failing.
THEOREM FeedFresh == Spec => []FeedIsFresh
  <1>1. IInv => FeedIsFresh
    <2> SUFFICES ASSUME IInv, NEW h \in Feed
                 PROVE  /\ \E r \in ledger : r.host = h /\ r.ts >= clock - Window
                        /\ \E r \in ledger : /\ r.host = h /\ Stage(r.rank) >= MinStage
                                             /\ r.ts >= clock - (Window + Retention + 1)
      BY DEF FeedIsFresh
    <2> DEFINE e == searchable[h]
    <2>1. h \in Hosts /\ e # NoEntity /\ Stage(e.rank) >= MinStage /\ e.last_seen >= clock - Window
      BY DEF Feed
    <2>2. e \in Entity /\ FromLedger(h, e) /\ e.last_seen <= e.updated_at + 1
      BY <2>1 DEF IInv, TypeOK, EntitiesAreSound, Sound
    <2>3. /\ e.last_seen \in Int /\ e.updated_at \in Int /\ clock \in Int /\ Window \in Int /\ Retention \in Int
          /\ \A r \in ledger : r.ts \in Int
      BY <2>2, ReasonAssumption DEF Entity, IInv, TypeOK, Row
    <2> HIDE DEF e
    <2>4. PICK r \in ledger : r.host = h /\ r.ts = e.last_seen
      BY <2>2 DEF FromLedger
    <2>5. PICK k \in ledger : k.host = h /\ k.ts >= e.updated_at - Retention /\ k.rank = e.rank
      BY <2>2 DEF FromLedger
    <2>6. k.ts >= clock - (Window + Retention + 1)
      BY <2>1, <2>2, <2>3, <2>5
    <2> QED
      BY <2>1, <2>4, <2>5, <2>6
  <1> QED
    BY <1>1, Invariance, PTL

\* No step of a pass takes an entity's last sighting back, and decay deletes none
\* that was sighted inside the window.
THEOREM EntitiesAdvance == Spec => EntitiesNeverRegress
  <1>1. ASSUME IInv, [Next]_vars, NEW h \in Hosts, entities[h] # NoEntity
        PROVE  IF entities'[h] = NoEntity THEN entities[h].last_seen < Since
               ELSE entities'[h].last_seen >= entities[h].last_seen
    <2>1. entities[h] \in Entity /\ Since \in Int
      BY <1>1, ReasonAssumption DEF IInv, TypeOK, Since
    <2>2. entities[h].last_seen \in Int
      BY <2>1 DEF Entity
    <2>3. CASE entities'[h] = entities[h]
      BY <1>1, <2>2, <2>3
    <2>4. CASE pass.page # Empty /\ h = NextHost /\ entities'[h] = pass.page[h]
      <3>1. h \in DOMAIN pass.page /\ pass.page[h] \in Entity
        BY <1>1, <2>4, NextHostOfPage DEF IInv
      <3>2. entities[h].last_seen <= pass.page[h].last_seen /\ pass.page[h] # NoEntity
        BY <1>1, <3>1, EntityIsSome DEF IInv, PageIsSound
      <3>3. pass.page[h].last_seen \in Int
        BY <3>1, ReasonAssumption DEF Entity
      <3> QED
        BY <2>2, <2>4, <3>2, <3>3
    <2>5. CASE h \in Expired \ Conflicting /\ entities'[h] = NoEntity
      BY <2>5 DEF Expired, Conflicting
    <2> QED
      BY <1>1, <2>3, <2>4, <2>5, EntityStep
  <1>2. IInv /\ [Next]_vars =>
          [\A h \in Hosts : entities[h] # NoEntity =>
             IF entities'[h] = NoEntity THEN entities[h].last_seen < Since
                                       ELSE entities'[h].last_seen >= entities[h].last_seen]_vars
    BY <1>1
  <1> QED
    BY <1>2, Invariance, PTL DEF Spec, EntitiesNeverRegress
=============================================================================
