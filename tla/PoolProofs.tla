----------------------------- MODULE PoolProofs -----------------------------
(***************************************************************************)
(* For any number of attackers and guests, whatever the pool's settings,   *)
(* and for any number of visits, recyclings and faults: the pool's books   *)
(* are right, an available guest is untouched, and the producer never      *)
(* takes a guest away from its clients.                                    *)
(***************************************************************************)
EXTENDS Pool, FiniteSetTheorems, WellFoundedInduction, TLAPS

-----------------------------------------------------------------------------
(***************************************************************************)
(* The inductive invariant.                                                *)
(***************************************************************************)

\* A guest goes back to a state it can be requested in, and has one to go back
\* to when its only client leaves. One that was found dead does not come back.
GuestOK(d) ==
    /\ guest[d].prev \in {None, "available", "using", "used"}
    /\ guest[d].prev = None => guest[d].connected <= 0
    /\ guest[d].st = "unavailable" => ~ guest[d].up
    /\ d \in Listed => guest[d].st # "destroyed"

GuestInv == \A d \in Slots : GuestOK(d)

\* Who holds a guest has asked for it, and once; who gives it back has left.
SessionOK(s) ==
    /\ session[s].dom # None => session[s].dom \in Listed
    /\ session[s].req => session[s].dom = None
    /\ session[s].pool = "dialing" => session[s].dom = None /\ ~ session[s].req
    /\ session[s].pool \in {"granted", "ready"} => session[s].vm \in Ids
    /\ session[s].free # "none" => session[s].vm \in Ids /\ session[s].front = "lost" /\ ~ session[s].dirty
    /\ session[s].dirty => session[s].pool = "ready"

SessionInv == \A s \in Sessions : SessionOK(s)

\* A held guest is in use, or was found dead.
HeldIsUsed ==
    ~ mixed => \A d \in Listed : Holders(d) # {} => guest[d].st \in {"using", "unavailable"}

\* The session may still tell the pool that nobody logged in.
MayReuse(s) ==
    \/ session[s].free = "u"
    \/ session[s].pool \in {"granted", "ready"} /\ ~ session[s].dirty

\* A guest that may become available again has one client, and when somebody
\* logged in it was that client.
Pristine(d) ==
    /\ guest[d].st \in {"created", "available"} => guest[d].dirtied = {}
    /\ guest[d].prev = "available" =>
         \A s \in Holders(d) :
            /\ \A t \in Holders(d) : s = t
            /\ guest[d].dirtied # {} => ~ MayReuse(s)

PristineInv == ~ mixed => \A d \in Listed : Pristine(d)

\* The connections counted for an id are those of all guests that have it.
HoldersOfId(i) == {s \in Sessions : session[s].dom # None /\ guest[session[s].dom].id = i}

BindingsInv ==
    UseNat /\ ready /\ ~ mixed => \A i \in Ids : bindings[i] >= Cardinality(HoldersOfId(i))

IInv ==
    /\ TypeOK
    /\ GuestInv
    /\ SessionInv
    /\ ConnectedIsHolders
    /\ HeldIsUsed
    /\ PristineInv
    /\ BindingsInv

-----------------------------------------------------------------------------
(***************************************************************************)
(* What the actions make of a session and of a guest.                      *)
(***************************************************************************)

\* None is neither a guest, nor an id, nor a state.
LEMMA NoneIsNothing ==
    /\ None \notin Slots /\ None \notin Ids /\ None \notin States
    /\ IdLimit \in Nat \ {0} /\ 0 \in Ids /\ Ids \subseteq Nat
  BY PoolAssumption DEF Ids

\* The answer of the pool, and its arrival.
LEMMA ReceiveReplyForm ==
    ASSUME TypeOK, NEW s \in Sessions, ReceiveReply(s)
    PROVE  \E pool \in {"ready", "open"}, front \in {"new", "up", "closing", "lost"} :
           /\ session' = [session EXCEPT ![s] = session'[s]]
           /\ pool = "ready" => session[s].pool = "granted" /\ front = session[s].front
           /\ pool = "open" => session[s].pool = "denied" /\ (front = "lost" <=> session[s].front = "lost")
           /\ session'[s] = [front |-> front, pool |-> pool, req |-> session[s].req, free |-> session[s].free,
                             vm |-> session[s].vm, dom |-> session[s].dom, dirty |-> session[s].dirty]
  <1>1. session[s] \in SessionState
    BY DEF TypeOK
  <1>2. CASE session[s].pool = "granted"
    <2>1. session' = [session EXCEPT ![s] = session'[s]] /\ session'[s] = [session[s] EXCEPT !.pool = "ready"]
      BY <1>2 DEF ReceiveReply, Session, TypeOK
    <2> QED
      BY <1>1, <1>2, <2>1 DEF SessionState
  <1>3. CASE session[s].pool = "denied"
    <2>1. /\ session' = [session EXCEPT ![s] = session'[s]]
          /\ session'[s] = [session[s] EXCEPT !.pool = "open", !.front = IF @ = "up" THEN "closing" ELSE @]
      BY <1>3 DEF ReceiveReply, Session, TypeOK
    <2> QED
      BY <1>1, <1>3, <2>1 DEF SessionState
  <1> QED
    BY <1>2, <1>3 DEF ReceiveReply

LEMMA ReplyForm ==
    ASSUME TypeOK, NEW s \in Sessions, NEW answer \in {"denied", "dropped"}, session' = Reply(s, answer)
    PROVE  /\ session' = [session EXCEPT ![s] = session'[s]]
           /\ session'[s] = [front |-> session[s].front,
                             pool |-> IF session[s].pool = "asked" THEN answer ELSE session[s].pool,
                             req |-> FALSE, free |-> session[s].free,
                             vm |-> session[s].vm, dom |-> session[s].dom, dirty |-> session[s].dirty]
  <1>1. session[s] \in SessionState
    BY DEF TypeOK
  <1> QED
    BY <1>1 DEF Reply, TypeOK, SessionState

-----------------------------------------------------------------------------
(***************************************************************************)
(* Most steps leave the books alone.                                       *)
(***************************************************************************)
SameCounts(x, y) == y.id = x.id /\ y.connected = x.connected /\ y.prev = x.prev /\ y.dirtied = x.dirtied

Keeps ==
    /\ guests' = guests /\ mixed' = mixed
    /\ ready' => ready /\ bindings' = bindings
    /\ \A s \in Sessions : session'[s].dom = session[s].dom /\ (MayReuse(s)' => MayReuse(s))
    /\ \A d \in Slots :
         /\ SameCounts(guest[d], guest'[d])
         /\ guest'[d].st = guest[d].st \/ (guest[d].st = "created" /\ guest'[d].st = "available")

Books == ConnectedIsHolders /\ HeldIsUsed /\ PristineInv /\ BindingsInv

\* Such a step keeps what the books say.
LEMMA BooksKept ==
    ASSUME IInv, Keeps
    PROVE  Books'
  <1>1. \A d \in Slots : Holders(d)' = Holders(d)
    BY DEF Keeps, Holders
  <1>2. Listed' = Listed /\ Listed \subseteq Slots
    BY DEF Keeps, Listed, IInv, TypeOK
  <1>3. ConnectedIsHolders'
    BY <1>1, <1>2 DEF IInv, Keeps, SameCounts, ConnectedIsHolders
  <1>4. HeldIsUsed'
    BY <1>1, <1>2 DEF IInv, Keeps, HeldIsUsed
  <1>5. ASSUME ~ mixed, NEW d \in Listed, Pristine(d) PROVE Pristine(d)'
    <2>1. d \in Slots /\ \A s \in Holders(d) : s \in Sessions
      BY <1>2, <1>5 DEF Holders
    <2> QED
      BY <1>1, <1>5, <2>1 DEF Pristine, Keeps, SameCounts
  <1>6. PristineInv'
    BY <1>2, <1>5 DEF IInv, PristineInv, Keeps
  <1>7. \A i \in Ids : HoldersOfId(i)' = HoldersOfId(i)
    <2>1. \A s \in Sessions : session[s].dom # None => session[s].dom \in Slots
      BY <1>2 DEF IInv, SessionInv, SessionOK
    <2> QED
      BY <2>1 DEF HoldersOfId, Keeps, SameCounts
  <1>8. BindingsInv'
    BY <1>7 DEF IInv, BindingsInv, Keeps
  <1> QED
    BY <1>3, <1>4, <1>6, <1>8 DEF Books

\* A step of one session that changes neither what it holds nor the pool.
LEMMA SessionStep ==
    ASSUME IInv, NEW s \in Sessions, UNCHANGED <<guests, guest, mixed, ready, bindings>>,
           session' = [session EXCEPT ![s] = session'[s]],
           session'[s].dom = session[s].dom, MayReuse(s)' => MayReuse(s)
    PROVE  Books'
  <1>1. \A t \in Sessions : t # s => session'[t] = session[t]
    BY DEF IInv, TypeOK
  <1>2. \A t \in Sessions : session'[t].dom = session[t].dom /\ (MayReuse(t)' => MayReuse(t))
    BY <1>1 DEF MayReuse
  <1>3. Keeps
    BY <1>2 DEF Keeps, SameCounts
  <1> QED
    BY <1>3, BooksKept

-----------------------------------------------------------------------------
(***************************************************************************)
(* The steps of a frontend.                                                *)
(***************************************************************************)

\* When one session changes, the others keep their part of the invariant.
LEMMA OneSession ==
    ASSUME IInv, NEW s \in Sessions, guests' = guests,
           session' = [session EXCEPT ![s] = session'[s]],
           session'[s] \in SessionState, SessionOK(s)'
    PROVE  session' \in [Sessions -> SessionState] /\ SessionInv'
  <1>1. Listed' = Listed
    BY DEF Listed
  <1>2. session \in [Sessions -> SessionState]
    BY DEF IInv, TypeOK
  <1>3. \A t \in Sessions : t # s => session'[t] = session[t]
    BY <1>2
  <1>4. ASSUME NEW t \in Sessions, t # s PROVE SessionOK(t)'
    BY <1>1, <1>3, <1>4 DEF IInv, SessionInv, SessionOK
  <1>5. SessionInv'
    BY <1>4 DEF SessionInv
  <1> QED
    BY <1>2, <1>5

\* The whole invariant, when a session changes and the pool does not.
LEMMA FrontStep ==
    ASSUME IInv, NEW s \in Sessions, UNCHANGED <<poolVars, mixed>>,
           session' = [session EXCEPT ![s] = session'[s]],
           session'[s] \in SessionState, SessionOK(s)',
           session'[s].dom = session[s].dom, MayReuse(s)' => MayReuse(s)
    PROVE  IInv'
  <1> USE DEF poolVars
  <1>1. session' \in [Sessions -> SessionState] /\ SessionInv'
    BY OneSession
  <1>2. TypeOK'
    BY <1>1 DEF IInv, TypeOK
  <1>3. GuestInv'
    BY DEF IInv, GuestInv, GuestOK, Listed
  <1>4. Books'
    BY SessionStep
  <1> QED
    BY <1>1, <1>2, <1>3, <1>4 DEF IInv, Books

LEMMA ConnectStep ==
    ASSUME IInv, NEW s \in Sessions, Connect(s)
    PROVE  IInv'
  <1>1. TypeOK /\ UNCHANGED <<poolVars, mixed>>
    BY DEF IInv, Connect
  <1>2. /\ session' = [session EXCEPT ![s] = session'[s]]
        /\ session'[s] = [front |-> "up", pool |-> "dialing", req |-> FALSE, free |-> "none",
                          vm |-> None, dom |-> None, dirty |-> FALSE]
        /\ session[s].dom = None
    BY <1>1 DEF Connect, NoSession, TypeOK
  <1>3. session'[s] \in SessionState
    BY <1>2 DEF SessionState
  <1>4. SessionOK(s)' /\ session'[s].dom = session[s].dom /\ ~ MayReuse(s)'
    BY <1>2 DEF SessionOK, MayReuse
  <1> QED
    BY <1>1, <1>2, <1>3, <1>4, FrontStep

LEMMA PoolConnectedStep ==
    ASSUME IInv, NEW s \in Sessions, PoolConnected(s)
    PROVE  IInv'
  <1>1. TypeOK /\ UNCHANGED <<poolVars, mixed>> /\ session[s].pool = "dialing"
    BY DEF IInv, PoolConnected, Session
  <1>2. session[s] \in SessionState /\ SessionOK(s) /\ Listed' = Listed
    BY <1>1 DEF IInv, TypeOK, SessionInv, poolVars, Listed
  <1>3. /\ session' = [session EXCEPT ![s] = session'[s]]
        /\ session'[s] = [front |-> session[s].front, pool |-> "asked", req |-> TRUE, free |-> session[s].free,
                          vm |-> session[s].vm, dom |-> session[s].dom, dirty |-> session[s].dirty]
    BY <1>1, <1>2 DEF PoolConnected, Session, TypeOK, SessionState
  <1>4. session'[s] \in SessionState
    BY <1>2, <1>3 DEF SessionState
  <1>5. SessionOK(s)' /\ session'[s].dom = session[s].dom /\ (MayReuse(s)' => MayReuse(s))
    BY <1>1, <1>2, <1>3 DEF SessionOK, MayReuse
  <1> QED
    BY <1>1, <1>3, <1>4, <1>5, FrontStep

LEMMA ReceiveReplyStep ==
    ASSUME IInv, NEW s \in Sessions, ReceiveReply(s)
    PROVE  IInv'
  <1>1. TypeOK /\ UNCHANGED <<poolVars, mixed>>
    BY DEF IInv, ReceiveReply, Session
  <1>2. session[s] \in SessionState /\ SessionOK(s) /\ Listed' = Listed
    BY <1>1 DEF IInv, TypeOK, SessionInv, poolVars, Listed
  <1>3. PICK pool \in {"ready", "open"}, front \in {"new", "up", "closing", "lost"} :
            /\ session' = [session EXCEPT ![s] = session'[s]]
            /\ pool = "ready" => session[s].pool = "granted" /\ front = session[s].front
            /\ pool = "open" => session[s].pool = "denied" /\ (front = "lost" <=> session[s].front = "lost")
            /\ session'[s] = [front |-> front, pool |-> pool, req |-> session[s].req, free |-> session[s].free,
                              vm |-> session[s].vm, dom |-> session[s].dom, dirty |-> session[s].dirty]
    BY <1>1, ReceiveReplyForm
  <1>4. session'[s] \in SessionState
    BY <1>2, <1>3 DEF SessionState
  <1>5. SessionOK(s)' /\ session'[s].dom = session[s].dom /\ (MayReuse(s)' => MayReuse(s))
    BY <1>1, <1>2, <1>3 DEF SessionOK, MayReuse
  <1> QED
    BY <1>1, <1>3, <1>4, <1>5, FrontStep

LEMMA FrontLostStep ==
    ASSUME IInv, NEW s \in Sessions, FrontLost(s)
    PROVE  IInv'
  <1>1. TypeOK /\ UNCHANGED <<poolVars, mixed>>
    BY DEF IInv, FrontLost, Session
  <1>2. session[s] \in SessionState /\ SessionOK(s) /\ Listed' = Listed
    BY <1>1 DEF IInv, TypeOK, SessionInv, poolVars, Listed
  <1>3. PICK op \in {"none", "f", "u"} :
            /\ session' = [session EXCEPT ![s] = session'[s]]
            /\ op = IF session[s].pool # "ready" THEN "none" ELSE IF session[s].dirty THEN "f" ELSE "u"
            /\ session'[s] = [front |-> "lost",
                              pool |-> IF session[s].pool = "dialing" THEN "dialing" ELSE "none",
                              req |-> session[s].req, free |-> op,
                              vm |-> IF op = "none" THEN None ELSE session[s].vm,
                              dom |-> session[s].dom, dirty |-> FALSE]
    BY <1>1 DEF FrontLost, Left, NoSession, Session, TypeOK
  <1>4. session'[s] \in SessionState
    BY <1>2, <1>3 DEF SessionState
  <1>5. SessionOK(s)' /\ session'[s].dom = session[s].dom /\ (MayReuse(s)' => MayReuse(s))
    BY <1>1, <1>2, <1>3 DEF SessionOK, MayReuse
  <1> QED
    BY <1>1, <1>3, <1>4, <1>5, FrontStep

-----------------------------------------------------------------------------
(***************************************************************************)
(* The guests themselves, the clock and the end of a pass.                 *)
(***************************************************************************)

\* A step that changes neither what is counted nor where a guest goes back to.
LEMMA GuestStep ==
    ASSUME IInv, UNCHANGED <<guests, session, mixed>>,
           nextId' \in Ids, anyUp' \in BOOLEAN, ready' \in BOOLEAN, call' \in {"none", "pending", "spent"},
           config'.max \in Nat, bindings' \in [Ids -> Nat], ready' => ready /\ bindings' = bindings,
           guest' \in [Slots -> GuestObject],
           \A d \in Slots :
             /\ SameCounts(guest[d], guest'[d])
             /\ guest'[d].st = guest[d].st \/ (guest[d].st = "created" /\ guest'[d].st = "available")
             /\ guest'[d].st = "unavailable" => ~ guest'[d].up
    PROVE  IInv'
  <1>1. Listed' = Listed
    BY DEF Listed
  <1>2. TypeOK'
    BY DEF IInv, TypeOK
  <1>3. GuestInv'
    BY <1>1 DEF IInv, GuestInv, GuestOK, SameCounts
  <1>4. SessionInv'
    BY <1>1 DEF IInv, SessionInv, SessionOK
  <1>5. Keeps
    BY DEF Keeps, MayReuse
  <1>6. Books'
    BY <1>5, BooksKept
  <1> QED
    BY <1>2, <1>3, <1>4, <1>6 DEF IInv, Books

\* The machines boot, die and grow old.
LEMMA MachineStep ==
    ASSUME IInv, NEW d \in Slots, Boots(d) \/ LosesConnectivity(d) \/ Expires(d)
    PROVE  IInv'
  <1>1. /\ UNCHANGED <<guests, session, mixed, nextId, anyUp, ready, call, config, bindings>>
        /\ nextId \in Ids /\ anyUp \in BOOLEAN /\ ready \in BOOLEAN /\ call \in {"none", "pending", "spent"}
        /\ config.max \in Nat /\ bindings \in [Ids -> Nat] /\ guest \in [Slots -> GuestObject]
    BY DEF IInv, TypeOK, Boots, LosesConnectivity, Expires
  <1>2. \A e \in Slots : guest[e] \in GuestObject /\ (guest[e].st = "unavailable" => ~ guest[e].up)
    BY <1>1 DEF IInv, GuestInv, GuestOK
  <1>3. \/ guest[d].st = "created" /\ guest' = [guest EXCEPT ![d] = [guest[d] EXCEPT !.up = TRUE]]
        \/ guest' = [guest EXCEPT ![d] = [guest[d] EXCEPT !.up = FALSE]]
        \/ guest' = [guest EXCEPT ![d] = [guest[d] EXCEPT !.expired = TRUE]]
    BY <1>1 DEF Boots, LosesConnectivity, Expires
  <1>4. \A e \in Slots \ {d} : guest'[e] = guest[e]
    BY <1>1, <1>3
  <1>5. /\ guest'[d] \in GuestObject
        /\ SameCounts(guest[d], guest'[d])
        /\ guest'[d].st = guest[d].st
        /\ guest'[d].st = "unavailable" => ~ guest'[d].up
    <2>1. CASE guest[d].st = "created" /\ guest' = [guest EXCEPT ![d] = [guest[d] EXCEPT !.up = TRUE]]
      <3>1. guest'[d] = [guest[d] EXCEPT !.up = TRUE]
        BY <1>1, <2>1
      <3>2. guest'[d].st # "unavailable"
        BY <1>2, <2>1, <3>1 DEF GuestObject
      <3> QED
        BY <1>2, <3>1, <3>2 DEF GuestObject, SameCounts
    <2>2. CASE guest' = [guest EXCEPT ![d] = [guest[d] EXCEPT !.up = FALSE]]
      <3>1. guest'[d] = [guest[d] EXCEPT !.up = FALSE]
        BY <1>1, <2>2
      <3> QED
        BY <1>2, <3>1 DEF GuestObject, SameCounts
    <2>3. CASE guest' = [guest EXCEPT ![d] = [guest[d] EXCEPT !.expired = TRUE]]
      <3>1. guest'[d] = [guest[d] EXCEPT !.expired = TRUE]
        BY <1>1, <2>3
      <3> QED
        BY <1>2, <3>1 DEF GuestObject, SameCounts
    <2> QED
      BY <1>3, <2>1, <2>2, <2>3
  <1>6. guest' \in [Slots -> GuestObject]
    BY <1>1, <1>3, <1>4, <1>5
  <1> QED
    BY <1>1, <1>2, <1>4, <1>5, <1>6, GuestStep DEF SameCounts

\* Booted guests become available.
LEMMA MarkAvailableStep ==
    ASSUME IInv, MarkAvailable
    PROVE  IInv'
  <1>1. /\ UNCHANGED <<guests, session, mixed, nextId, ready, call, config, bindings>>
        /\ nextId \in Ids /\ ready \in BOOLEAN /\ call \in {"none", "pending", "spent"}
        /\ config.max \in Nat /\ bindings \in [Ids -> Nat] /\ guest \in [Slots -> GuestObject]
        /\ anyUp' \in BOOLEAN
    BY DEF IInv, TypeOK, MarkAvailable
  <1>2. \A e \in Slots : guest[e] \in GuestObject /\ (guest[e].st = "unavailable" => ~ guest[e].up)
    BY <1>1 DEF IInv, GuestInv, GuestOK
  <1>3. \A d \in Slots : \/ guest'[d] = guest[d]
                         \/ guest[d].st = "created" /\ guest'[d] = [guest[d] EXCEPT !.st = "available"]
    BY DEF MarkAvailable
  <1>4. ASSUME NEW d \in Slots
        PROVE  /\ guest'[d] \in GuestObject
               /\ SameCounts(guest[d], guest'[d])
               /\ guest'[d].st = guest[d].st \/ (guest[d].st = "created" /\ guest'[d].st = "available")
               /\ guest'[d].st = "unavailable" => ~ guest'[d].up
    <2>1. CASE guest'[d] = guest[d]
      BY <1>2, <2>1 DEF SameCounts
    <2>2. CASE guest[d].st = "created" /\ guest'[d] = [guest[d] EXCEPT !.st = "available"]
      BY <1>2, <2>2 DEF GuestObject, SameCounts, States
    <2> QED
      BY <1>3, <2>1, <2>2
  <1>5. guest' \in [Slots -> GuestObject]
    BY <1>4 DEF MarkAvailable
  <1> QED
    BY <1>1, <1>4, <1>5, GuestStep

\* The loop, the configuration, and steps of nobody.
LEMMA LoopStep ==
    ASSUME IInv, EndPass \/ Initialise \/ RecycleRaises \/ UNCHANGED vars
    PROVE  IInv'
  <1>1. /\ UNCHANGED <<guests, guest, session, mixed, nextId, anyUp, ready, bindings>>
        /\ nextId \in Ids /\ anyUp \in BOOLEAN /\ ready \in BOOLEAN
        /\ bindings \in [Ids -> Nat] /\ guest \in [Slots -> GuestObject]
    BY DEF IInv, TypeOK, EndPass, Initialise, RecycleRaises, vars, poolVars
  <1>2. call' \in {"none", "pending", "spent"} /\ config'.max \in Nat
    BY PoolAssumption DEF IInv, TypeOK, EndPass, Initialise, RecycleRaises, vars, poolVars
  <1>3. \A e \in Slots : guest[e].st = "unavailable" => ~ guest[e].up
    BY DEF IInv, GuestInv, GuestOK
  <1> QED
    BY <1>1, <1>2, <1>3, GuestStep DEF SameCounts

-----------------------------------------------------------------------------
(***************************************************************************)
(* Nobody is served, everybody is thrown out, somebody logs in.            *)
(***************************************************************************)

\* A request that is denied, with or without stopping the pool.
LEMMA DenyStep ==
    ASSUME IInv, NEW s \in Sessions, Deny(s)
    PROVE  IInv'
  <1>1. /\ UNCHANGED <<guests, mixed, nextId, anyUp, config>>
        /\ TypeOK /\ guest \in [Slots -> GuestObject]
    BY DEF IInv, TypeOK, Deny
  <1>2. PICK answer \in {"denied", "dropped"} : session' = Reply(s, answer)
    BY DEF Deny
  <1>3. /\ session' = [session EXCEPT ![s] = session'[s]]
        /\ session'[s] = [front |-> session[s].front,
                          pool |-> IF session[s].pool = "asked" THEN answer ELSE session[s].pool,
                          req |-> FALSE, free |-> session[s].free,
                          vm |-> session[s].vm, dom |-> session[s].dom, dirty |-> session[s].dirty]
    BY <1>1, <1>2, ReplyForm
  <1>4. session[s] \in SessionState /\ SessionOK(s) /\ Listed' = Listed
    BY <1>1 DEF IInv, TypeOK, SessionInv, Listed
  <1>5. session'[s] \in SessionState
    BY <1>3, <1>4 DEF SessionState
  <1>6. SessionOK(s)' /\ session'[s].dom = session[s].dom /\ (MayReuse(s)' => MayReuse(s))
    BY <1>3, <1>4 DEF SessionOK, MayReuse
  <1>7. session' \in [Sessions -> SessionState] /\ SessionInv'
    BY <1>1, <1>3, <1>5, <1>6, OneSession
  <1>8. \A d \in Slots : guest[d] \in GuestObject /\ GuestOK(d)
    BY <1>1 DEF IInv, GuestInv
  <1>9. /\ guest' \in [Slots -> GuestObject]
        /\ \A d \in Slots :
             /\ SameCounts(guest[d], guest'[d])
             /\ guest'[d].st = guest[d].st
             /\ guest'[d].st = "unavailable" => ~ guest'[d].up
    <2>1. CASE guest' = guest
      BY <1>1, <1>8, <2>1 DEF SameCounts, GuestOK
    <2>2. CASE guest' = DestroyAll
      <3>1. DOMAIN guest' = Slots /\ \A d \in Slots : guest'[d] = [guest[d] EXCEPT !.up = FALSE]
        BY <2>2 DEF DestroyAll
      <3>2. ASSUME NEW d \in Slots
            PROVE  /\ guest'[d] \in GuestObject
                   /\ SameCounts(guest[d], guest'[d])
                   /\ guest'[d].st = guest[d].st
                   /\ ~ guest'[d].up
        <4>1. guest'[d] = [guest[d] EXCEPT !.up = FALSE] /\ guest[d] \in GuestObject
          BY <1>8, <3>1
        <4> QED
          BY <4>1 DEF GuestObject, SameCounts
      <3>3. guest' = [d \in Slots |-> guest'[d]]
        BY <2>2 DEF DestroyAll
      <3> QED
        BY <3>2, <3>3
    <2> QED
      BY <2>1, <2>2 DEF Deny, StopPool
  <1>10. /\ ready' \in BOOLEAN /\ call' \in {"none", "pending", "spent"} /\ bindings' \in [Ids -> Nat]
         /\ ready' => ready /\ bindings' = bindings
    <2>1. FreeAll \in [Ids -> Nat] /\ bindings \in [Ids -> Nat]
      BY DEF IInv, TypeOK, FreeAll
    <2>2. UNCHANGED <<ready, bindings, call>> \/ StopPool
      BY DEF Deny
    <2>3. CASE UNCHANGED <<ready, bindings, call>>
      BY <2>1, <2>3 DEF IInv, TypeOK
    <2>4. CASE StopPool
      <3>1. call' \in {"none", "pending", "spent"}
        BY <2>4 DEF IInv, TypeOK, StopPool
      <3> QED
        BY <2>1, <2>4, <3>1 DEF StopPool
    <2> QED
      BY <2>2, <2>3, <2>4
  <1>11. TypeOK'
    BY <1>1, <1>7, <1>9, <1>10 DEF TypeOK
  <1>12. GuestInv'
    BY <1>4, <1>8, <1>9 DEF GuestInv, GuestOK, SameCounts
  <1>13. \A t \in Sessions : session'[t].dom = session[t].dom /\ (MayReuse(t)' => MayReuse(t))
    <2>1. \A t \in Sessions : t # s => session'[t] = session[t]
      BY <1>1, <1>3 DEF TypeOK
    <2> QED
      BY <1>6, <2>1 DEF MayReuse
  <1>14. Keeps
    BY <1>1, <1>9, <1>10, <1>13 DEF Keeps
  <1> QED
    BY <1>7, <1>11, <1>12, <1>14, BooksKept DEF IInv, Books

\* Nobody holds a guest when there are none.
LEMMA NobodyHolds ==
    ASSUME guests = <<>>, \A s \in Sessions : session[s].dom = None, bindings \in [Ids -> Nat]
    PROVE  Books
  <1>1. Listed = {}
    BY DEF Listed
  <1>2. \A i \in Ids : Cardinality(HoldersOfId(i)) = 0
    BY FS_EmptySet DEF HoldersOfId
  <1> QED
    BY <1>1, <1>2 DEF Books, ConnectedIsHolders, HeldIsUsed, PristineInv, BindingsInv

\* An object that is no guest.
LEMMA NoGuestIs == NoGuest \in GuestObject /\ NoGuest.st = "destroyed" /\ NoGuest.prev = None /\ NoGuest.connected = 0
  BY NoneIsNothing DEF NoGuest, GuestObject, States

\* The pool starts with no guest and no client.
LEMMA InitInv == Init => IInv
  <1> SUFFICES ASSUME Init PROVE IInv
    OBVIOUS
  <1>1. Listed = {}
    BY DEF Init, Listed
  <1>2. NoSession \in SessionState
    BY DEF NoSession, SessionState
  <1>3. TypeOK
    <2>1. guests \in Seq(Slots) /\ IsInjective(guests)
      BY DEF Init, IsInjective
    <2>2. guest \in [Slots -> GuestObject] /\ session \in [Sessions -> SessionState]
      BY <1>2, NoGuestIs DEF Init
    <2> QED
      BY <2>1, <2>2, NoneIsNothing DEF Init, TypeOK
  <1>4. GuestInv
    BY <1>1, NoGuestIs DEF Init, GuestInv, GuestOK
  <1>5. SessionInv
    BY DEF Init, SessionInv, SessionOK, NoSession
  <1>6. Books
    <2>1. \A s \in Sessions : session[s].dom = None
      BY DEF Init, NoSession
    <2> QED
      BY <1>3, <2>1, NobodyHolds DEF Init, TypeOK
  <1> QED
    BY <1>3, <1>4, <1>5, <1>6 DEF IInv, Books

\* Recycling throws every guest away and every binding.
LEMMA RecycleStep ==
    ASSUME IInv, Recycle
    PROVE  IInv'
  <1>1. guests' = <<>> /\ guest' = [d \in Slots |-> NoGuest] /\ Listed' = {}
    BY DEF Recycle, Listed
  <1>2. session \in [Sessions -> SessionState] /\ DOMAIN session' = Sessions
    BY DEF IInv, TypeOK, Recycle
  <1>3. ASSUME NEW s \in Sessions
        PROVE  session'[s] \in SessionState /\ SessionOK(s)' /\ session'[s].dom = None
    <2>1. session'[s] = [session[s] EXCEPT !.dom = None] /\ session[s] \in SessionState /\ SessionOK(s)
      BY <1>2 DEF IInv, SessionInv, Recycle
    <2>2. session'[s] \in SessionState
      BY <2>1 DEF SessionState
    <2> QED
      BY <2>1, <2>2 DEF SessionState, SessionOK
  <1>4. session' \in [Sessions -> SessionState]
    BY <1>2, <1>3 DEF Recycle
  <1>5. bindings' \in [Ids -> Nat]
    BY DEF IInv, TypeOK, Recycle, FreeAll
  <1>6. TypeOK'
    <2>1. guests' \in Seq(Slots) /\ IsInjective(guests')
      BY <1>1 DEF IsInjective
    <2>2. guest' \in [Slots -> GuestObject]
      BY <1>1, NoGuestIs
    <2> QED
      BY <1>4, <1>5, <2>1, <2>2, NoneIsNothing DEF IInv, TypeOK, Recycle
  <1>7. GuestInv'
    BY <1>1, NoGuestIs DEF GuestInv, GuestOK
  <1>8. SessionInv'
    BY <1>3 DEF SessionInv
  <1>9. Books'
    <2>1. \A s \in Sessions : session'[s].dom = None
      BY <1>3
    <2>2. Listed' = {} /\ \A i \in Ids : HoldersOfId(i)' = {}
      BY <1>1, <2>1 DEF HoldersOfId
    <2> QED
      BY <1>5, <2>2, FS_EmptySet DEF Books, ConnectedIsHolders, HeldIsUsed, PristineInv, BindingsInv
  <1> QED
    BY <1>6, <1>7, <1>8, <1>9 DEF IInv, Books

-----------------------------------------------------------------------------
(***************************************************************************)
(* Choosing from the list.                                                 *)
(***************************************************************************)

\* FirstOf finds a listed guest of the set, if there is one.
LEMMA FirstOfIs ==
    ASSUME TypeOK, NEW D
    PROVE  /\ FirstOf(D) # None => FirstOf(D) \in D \cap Listed
           /\ FirstOf(D) = None => D \cap Listed = {}
  <1> DEFINE at == {i \in DOMAIN guests : guests[i] \in D}
             first == CHOOSE i \in at : \A j \in at : i <= j
  <1>1. at \subseteq Nat /\ \A i \in at : guests[i] \in D \cap Listed /\ guests[i] \in Slots
    BY DEF TypeOK, Listed
  <1>2. CASE at = {}
    BY <1>2 DEF FirstOf, Listed
  <1>3. CASE at # {}
    <2>1. \E m \in at : \A x \in at : <<x, m>> \notin OpToRel(<, Nat)
      BY <1>1, <1>3, NatLessThanWellFounded, WFMin
    <2>2. \E m \in at : \A x \in at : m <= x
      <3> HIDE DEF at
      <3>1. PICK m \in at : \A x \in at : <<x, m>> \notin OpToRel(<, Nat)
        BY <2>1
      <3>2. \A x \in at : ~ (x < m)
        BY <1>1, <3>1 DEF OpToRel
      <3> QED
        BY <1>1, <3>2
    <2>3. first \in at
      BY <2>2
    <2>4. FirstOf(D) = guests[first]
      BY <1>3 DEF FirstOf
    <2> HIDE DEF at, first
    <2> QED
      BY <1>1, <2>3, <2>4, NoneIsNothing
  <1> QED
    BY <1>2, <1>3

\* The pool hands out listed guests that were booted.
LEMMA ChoiceIs ==
    ASSUME TypeOK, NEW ip, Choice(ip) # None
    PROVE  Choice(ip) \in Listed /\ Choice(ip) \in Slots /\ guest[Choice(ip)].st \in {"available", "using", "used"}
  <1>1. GuestOfIp(ip) # None =>
            GuestOfIp(ip) \in Listed /\ guest[GuestOfIp(ip)].st \in {"available", "using", "used"}
    BY FirstOfIs DEF GuestOfIp, GuestStates
  <1>2. AvailableGuest # None =>
            AvailableGuest \in Listed /\ guest[AvailableGuest].st \in {"available", "using", "used"}
    BY FirstOfIs DEF AvailableGuest, GuestStates
  <1>3. AnyGuest # None => AnyGuest \in Listed /\ guest[AnyGuest].st \in {"available", "using", "used"}
    BY FirstOfIs DEF AnyGuest, GuestStates
  <1>4. Choice(ip) \in {GuestOfIp(ip), AvailableGuest, AnyGuest, None}
    BY DEF Choice
  <1>5. Listed \subseteq Slots
    BY DEF TypeOK, Listed
  <1> QED
    BY <1>1, <1>2, <1>3, <1>4, <1>5

\* A release goes to a listed guest with the id, if there is one.
LEMMA GuestOfIdIs ==
    ASSUME TypeOK, NEW i
    PROVE  /\ GuestOfId(i) # None =>
                GuestOfId(i) \in Listed /\ GuestOfId(i) \in Slots /\ guest[GuestOfId(i)].id = i
           /\ GuestOfId(i) = None => \A d \in Listed : guest[d].id # i
  <1>1. Listed \subseteq Slots
    BY DEF TypeOK, Listed
  <1> QED
    BY <1>1, FirstOfIs DEF GuestOfId

-----------------------------------------------------------------------------
(***************************************************************************)
(* Clients of one guest.                                                   *)
(***************************************************************************)

\* Clients are finitely many.
LEMMA HoldersFinite ==
    /\ \A d : IsFiniteSet(Holders(d)) /\ Cardinality(Holders(d)) \in Nat
    /\ \A i : IsFiniteSet(HoldersOfId(i)) /\ Cardinality(HoldersOfId(i)) \in Nat
  <1>1. \A d : Holders(d) \in SUBSET Sessions
    BY DEF Holders
  <1>2. \A i : HoldersOfId(i) \in SUBSET Sessions
    BY DEF HoldersOfId
  <1> QED
    BY <1>1, <1>2, PoolAssumption, FS_Subset, FS_CardinalityType

\* The step of a client of one guest does not concern the others.
LEMMA OtherGuests ==
    ASSUME NEW s \in Sessions, NEW e,
           guest'[e] = guest[e], session[s].dom # e, session'[s].dom # e,
           \A t \in Sessions \ {s} : session'[t] = session[t]
    PROVE  Holders(e)' = Holders(e) /\ (Pristine(e) => Pristine(e)')
  <1>1. Holders(e)' = Holders(e)
    BY DEF Holders
  <1>2. \A t \in Holders(e) : MayReuse(t)' = MayReuse(t)
    BY DEF Holders, MayReuse
  <1>3. Pristine(e) => Pristine(e)'
    BY <1>1, <1>2 DEF Pristine
  <1> QED
    BY <1>1, <1>3

\* A login on a guest that may become available again is by its only client,
\* who now cannot give it back clean.
LEMMA AuthenticateStep ==
    ASSUME IInv, NEW s \in Sessions, Authenticate(s)
    PROVE  IInv'
  <1>a. session[s].dom \in Slots
    BY DEF IInv, TypeOK, Authenticate, SessionState
  <1>0. PICK d \in Slots : d = session[s].dom
    BY <1>a
  <1>1. /\ TypeOK /\ session[s] \in SessionState /\ SessionOK(s)
        /\ session[s].pool = "ready" /\ session[s].front = "up" /\ d # None
        /\ UNCHANGED <<guests, nextId, anyUp, ready, call, config, bindings, mixed>>
        /\ session' = [session EXCEPT ![s].dirty = TRUE]
        /\ guest' = [guest EXCEPT ![d].dirtied = @ \cup {Src[s]}]
        /\ session \in [Sessions -> SessionState] /\ guest \in [Slots -> GuestObject]
    BY <1>0 DEF IInv, TypeOK, SessionInv, Authenticate
  <1>2. Listed' = Listed /\ Listed \subseteq Slots /\ d \in Listed /\ d \in Slots
    BY <1>0, <1>1 DEF Listed, TypeOK, SessionOK
  <1>3. /\ session'[s] = [session[s] EXCEPT !.dirty = TRUE]
        /\ \A t \in Sessions \ {s} : session'[t] = session[t]
        /\ guest'[d] = [guest[d] EXCEPT !.dirtied = @ \cup {Src[s]}]
        /\ \A e \in Slots \ {d} : guest'[e] = guest[e]
        /\ guest[d] \in GuestObject
    BY <1>1, <1>2
  <1>4. /\ session'[s] \in SessionState /\ session'[s].dirty
        /\ session'[s].dom = session[s].dom /\ session'[s].req = session[s].req
        /\ session'[s].pool = session[s].pool /\ session'[s].vm = session[s].vm
        /\ session'[s].free = session[s].free /\ session'[s].front = session[s].front
    BY <1>1, <1>3 DEF SessionState
  <1>5. /\ guest'[d] \in GuestObject
        /\ guest'[d].id = guest[d].id /\ guest'[d].connected = guest[d].connected
        /\ guest'[d].prev = guest[d].prev /\ guest'[d].st = guest[d].st /\ guest'[d].up = guest[d].up
    <2>1. Src[s] \in Ips
      BY DEF Ips
    <2> QED
      BY <1>3, <2>1 DEF GuestObject
  <1>6. TypeOK'
    <2>1. session' = [session EXCEPT ![s] = session'[s]] /\ guest' = [guest EXCEPT ![d] = guest'[d]]
      BY <1>1, <1>2
    <2>2. session' \in [Sessions -> SessionState] /\ guest' \in [Slots -> GuestObject]
      BY <1>1, <1>4, <1>5, <2>1
    <2> QED
      BY <1>1, <2>2 DEF TypeOK
  <1>7. GuestInv'
    <2>1. GuestOK(d)'
      <3>1. GuestOK(d)
        BY DEF IInv, GuestInv
      <3> QED
        BY <1>2, <1>5, <3>1 DEF GuestOK
    <2>2. ASSUME NEW e \in Slots \ {d} PROVE GuestOK(e)'
      BY <1>2, <1>3 DEF IInv, GuestInv, GuestOK
    <2> QED
      BY <2>1, <2>2 DEF GuestInv
  <1>8. SessionInv'
    <2>1. SessionOK(s)'
      BY <1>1, <1>2, <1>4 DEF SessionOK
    <2>2. ASSUME NEW t \in Sessions \ {s} PROVE SessionOK(t)'
      BY <1>2, <1>3 DEF IInv, SessionInv, SessionOK
    <2> QED
      BY <2>1, <2>2 DEF SessionInv
  <1>9. \A e \in Slots : Holders(e)' = Holders(e)
    <2>1. \A t \in Sessions : session'[t].dom = session[t].dom
      BY <1>3, <1>4
    <2> QED
      BY <2>1 DEF Holders
  <1>10. \A i \in Ids : HoldersOfId(i)' = HoldersOfId(i)
    <2>1. \A t \in Sessions : session'[t].dom = session[t].dom
      BY <1>3, <1>4
    <2>2. \A t \in Sessions : session[t].dom # None => guest'[session[t].dom].id = guest[session[t].dom].id
      BY <1>2, <1>3, <1>5 DEF IInv, SessionInv, SessionOK
    <2> QED
      BY <2>1, <2>2 DEF HoldersOfId
  <1>11. ConnectedIsHolders' /\ HeldIsUsed' /\ BindingsInv'
    <2>1. \A e \in Slots : guest'[e].connected = guest[e].connected /\ guest'[e].st = guest[e].st
      BY <1>3, <1>5
    <2> QED
      BY <1>1, <1>2, <1>9, <1>10, <2>1 DEF IInv, ConnectedIsHolders, HeldIsUsed, BindingsInv
  <1>12. PristineInv'
    <2> SUFFICES ASSUME ~ mixed, NEW e \in Listed PROVE Pristine(e)'
      BY <1>1, <1>2 DEF PristineInv
    <2>1. Pristine(e) /\ e \in Slots
      BY <1>2 DEF IInv, PristineInv
    <2>2. CASE e # d
      BY <1>3, <1>4, <2>1, <2>2, <1>2, <1>0, OtherGuests
    <2>3. CASE e = d
      <3>1. s \in Holders(d)
        BY <1>0 DEF Holders
      <3>2. guest[d].st \in {"using", "unavailable"}
        BY <1>2, <3>1 DEF IInv, HeldIsUsed
      <3>3. ~ MayReuse(s)'
        BY <1>1, <1>4 DEF MayReuse, SessionOK
      <3> QED
        BY <1>2, <1>5, <1>9, <2>1, <2>3, <3>1, <3>2, <3>3 DEF Pristine
    <2> QED
      BY <2>2, <2>3
  <1> QED
    BY <1>6, <1>7, <1>8, <1>11, <1>12 DEF IInv

-----------------------------------------------------------------------------
(***************************************************************************)
(* A guest is handed out and given back.                                   *)
(***************************************************************************)

\* When one session and one guest change, the others keep their part of the
\* invariant.
LEMMA OneGuest ==
    ASSUME IInv, NEW s \in Sessions, NEW d \in Slots,
           UNCHANGED <<guests, nextId, anyUp, ready, call, config>>,
           bindings' \in [Ids -> Nat], mixed' \in BOOLEAN,
           session' = [session EXCEPT ![s] = session'[s]], session'[s] \in SessionState, SessionOK(s)',
           guest' = [guest EXCEPT ![d] = guest'[d]], guest'[d] \in GuestObject, GuestOK(d)'
    PROVE  TypeOK' /\ GuestInv' /\ SessionInv'
  <1>1. session' \in [Sessions -> SessionState] /\ SessionInv'
    BY OneSession
  <1>2. guest \in [Slots -> GuestObject] /\ Listed' = Listed
    BY DEF IInv, TypeOK, Listed
  <1>3. guest' \in [Slots -> GuestObject]
    BY <1>2
  <1>4. TypeOK'
    BY <1>1, <1>3 DEF IInv, TypeOK
  <1>5. ASSUME NEW e \in Slots \ {d} PROVE GuestOK(e)'
    <2>1. guest'[e] = guest[e] /\ GuestOK(e)
      BY <1>2 DEF IInv, GuestInv
    <2> QED
      BY <1>2, <2>1 DEF GuestOK
  <1> QED
    BY <1>1, <1>4, <1>5 DEF GuestInv

\* What Grant makes of the session and the guest.
LEMMA GrantForm ==
    ASSUME IInv, NEW s \in Sessions, NEW d \in Slots, Grant(s), d = Choice(Src[s])
    PROVE  /\ session' = [session EXCEPT ![s] = session'[s]]
           /\ session'[s] = [front |-> session[s].front,
                             pool |-> IF session[s].pool = "asked" THEN "granted" ELSE session[s].pool,
                             req |-> FALSE, free |-> session[s].free, vm |-> guest[d].id, dom |-> d,
                             dirty |-> session[s].dirty]
           /\ guest' = [guest EXCEPT ![d] = guest'[d]]
           /\ guest'[d] = [id |-> guest[d].id, st |-> "using", prev |-> guest[d].st,
                           connected |-> guest[d].connected + 1, ips |-> guest[d].ips \cup {Src[s]},
                           expired |-> guest[d].expired, up |-> guest[d].up, dirtied |-> guest[d].dirtied]
           /\ bindings' = RequestBinding(guest[d].id)
  <1>1. session[s] \in SessionState /\ session \in [Sessions -> SessionState]
    BY DEF IInv, TypeOK
  <1>2. guest[d] \in GuestObject /\ guest \in [Slots -> GuestObject]
    BY DEF IInv, TypeOK
  <1>3. /\ bindings' = RequestBinding(guest[d].id)
        /\ session' = [Reply(s, "granted") EXCEPT ![s].dom = d, ![s].vm = guest[d].id]
        /\ guest' = [guest EXCEPT ![d].prev = guest[d].st, ![d].st = "using",
                                  ![d].connected = @ + 1, ![d].ips = @ \cup {Src[s]}]
    BY DEF Grant
  <1>4. /\ session' = [session EXCEPT ![s] = session'[s]]
        /\ session'[s] = [front |-> session[s].front,
                          pool |-> IF session[s].pool = "asked" THEN "granted" ELSE session[s].pool,
                          req |-> FALSE, free |-> session[s].free, vm |-> guest[d].id, dom |-> d,
                          dirty |-> session[s].dirty]
    BY <1>1, <1>3 DEF Reply, SessionState
  <1>5. /\ guest' = [guest EXCEPT ![d] = guest'[d]]
        /\ guest'[d] = [id |-> guest[d].id, st |-> "using", prev |-> guest[d].st,
                        connected |-> guest[d].connected + 1, ips |-> guest[d].ips \cup {Src[s]},
                        expired |-> guest[d].expired, up |-> guest[d].up, dirtied |-> guest[d].dirtied]
    BY <1>2, <1>3 DEF GuestObject
  <1> QED
    BY <1>3, <1>4, <1>5

\* The guest that is handed out gains a client, its id a binding, and if it was
\* available this client is its only one.
LEMMA GrantStep ==
    ASSUME IInv, NEW s \in Sessions, Grant(s)
    PROVE  IInv'
  <1>1. TypeOK /\ SessionOK(s) /\ session[s] \in SessionState /\ session[s].req /\ Choice(Src[s]) # None
    BY DEF IInv, TypeOK, SessionInv, Grant
  <1>2. PICK d \in Slots : d = Choice(Src[s])
    BY <1>1, ChoiceIs
  <1>3. d \in Listed /\ guest[d].st \in {"available", "using", "used"}
    BY <1>1, <1>2, ChoiceIs
  <1>4. UNCHANGED <<guests, nextId, anyUp, ready, call, config, mixed>> /\ Listed' = Listed
    BY DEF Grant, Listed
  <1>5. /\ session' = [session EXCEPT ![s] = session'[s]]
        /\ session'[s] = [front |-> session[s].front,
                          pool |-> IF session[s].pool = "asked" THEN "granted" ELSE session[s].pool,
                          req |-> FALSE, free |-> session[s].free, vm |-> guest[d].id, dom |-> d,
                          dirty |-> session[s].dirty]
    BY <1>2, GrantForm
  <1>6. /\ guest' = [guest EXCEPT ![d] = guest'[d]]
        /\ guest'[d] = [id |-> guest[d].id, st |-> "using", prev |-> guest[d].st,
                        connected |-> guest[d].connected + 1, ips |-> guest[d].ips \cup {Src[s]},
                        expired |-> guest[d].expired, up |-> guest[d].up, dirtied |-> guest[d].dirtied]
        /\ bindings' = RequestBinding(guest[d].id)
    BY <1>2, GrantForm
  <1>7. guest[d] \in GuestObject /\ GuestOK(d) /\ guest[d].id \in Ids /\ guest[d].connected \in Int
    BY DEF IInv, TypeOK, GuestInv, GuestObject
  <1>8. session'[s] \in SessionState
    BY <1>1, <1>5, <1>7 DEF SessionState
  <1>9. SessionOK(s)'
    BY <1>1, <1>3, <1>4, <1>5, <1>7 DEF SessionOK
  <1>10. guest'[d] \in GuestObject
    <2>1. Src[s] \in Ips
      BY DEF Ips
    <2> QED
      BY <1>6, <1>7, <2>1 DEF GuestObject, States
  <1>11. GuestOK(d)'
    BY <1>3, <1>4, <1>6, <1>7, NoneIsNothing DEF GuestOK, States
  <1>12. bindings' \in [Ids -> Nat] /\ mixed' \in BOOLEAN
    BY <1>1, <1>4, <1>6, <1>7 DEF TypeOK, RequestBinding
  <1>13. TypeOK' /\ GuestInv' /\ SessionInv'
    BY <1>4, <1>5, <1>6, <1>8, <1>9, <1>10, <1>11, <1>12, OneGuest
  <1>14. /\ session[s].dom = None /\ session'[s].dom = d /\ d # None
         /\ \A t \in Sessions \ {s} : session'[t] = session[t]
         /\ \A e \in Slots \ {d} : guest'[e] = guest[e]
    BY <1>1, <1>5, <1>6, NoneIsNothing DEF SessionOK, TypeOK
  <1>15. Holders(d)' = Holders(d) \cup {s} /\ s \notin Holders(d)
    BY <1>14 DEF Holders
  <1>16. \A e \in Slots : e # d => Holders(e)' = Holders(e) /\ (Pristine(e) => Pristine(e)')
    BY <1>14, OtherGuests, NoneIsNothing
  <1>17. Listed \subseteq Slots
    BY <1>1 DEF TypeOK, Listed
  <1>18. ConnectedIsHolders'
    <2>1. Cardinality(Holders(d)') = Cardinality(Holders(d)) + 1
      BY <1>15, HoldersFinite, FS_AddElement
    <2>2. ~ mixed => guest'[d].connected = Cardinality(Holders(d)')
      BY <1>3, <1>6, <1>7, <2>1 DEF IInv, ConnectedIsHolders
    <2>3. ~ mixed => \A e \in Listed \ {d} : guest'[e].connected = Cardinality(Holders(e)')
      BY <1>14, <1>16, <1>17 DEF IInv, ConnectedIsHolders
    <2> QED
      BY <1>4, <2>2, <2>3 DEF ConnectedIsHolders
  <1>19. HeldIsUsed'
    <2>1. guest'[d].st = "using"
      BY <1>6
    <2> QED
      BY <1>4, <1>14, <1>16, <1>17, <2>1 DEF IInv, HeldIsUsed
  <1>20. PristineInv'
    <2> SUFFICES ASSUME ~ mixed, NEW e \in Listed PROVE Pristine(e)'
      BY <1>4 DEF PristineInv
    <2>1. CASE e # d
      BY <1>16, <1>17, <2>1 DEF IInv, PristineInv
    <2>2. Pristine(d) /\ (Holders(d) # {} => guest[d].st \in {"using", "unavailable"})
      BY <1>3 DEF IInv, PristineInv, HeldIsUsed
    <2>3. guest'[d].st = "using" /\ guest'[d].prev = guest[d].st /\ guest'[d].dirtied = guest[d].dirtied
      BY <1>6
    <2>4. guest'[d].prev = "available" => Holders(d)' = {s} /\ guest'[d].dirtied = {}
      BY <1>15, <2>2, <2>3 DEF Pristine
    <2>5. Pristine(d)'
      BY <2>3, <2>4 DEF Pristine
    <2> QED
      BY <2>1, <2>5
  <1>21. BindingsInv'
    <2> SUFFICES ASSUME UseNat, ready, ~ mixed, NEW i \in Ids
                 PROVE  bindings'[i] >= Cardinality(HoldersOfId(i)')
      BY <1>4 DEF BindingsInv
    <2>1. bindings[i] >= Cardinality(HoldersOfId(i)) /\ bindings[i] \in Nat
      BY <1>1 DEF IInv, BindingsInv, TypeOK
    <2>2. \A t \in Sessions : session[t].dom # None => guest'[session[t].dom].id = guest[session[t].dom].id
      BY <1>6, <1>14, <1>17 DEF IInv, SessionInv, SessionOK
    <2>3. HoldersOfId(i)' = IF guest[d].id = i THEN HoldersOfId(i) \cup {s} ELSE HoldersOfId(i)
      BY <1>6, <1>14, <2>2 DEF HoldersOfId
    <2>4. Cardinality(HoldersOfId(i)') <= IF guest[d].id = i THEN Cardinality(HoldersOfId(i)) + 1
                                          ELSE Cardinality(HoldersOfId(i))
      <3>1. IsFiniteSet(HoldersOfId(i)) /\ Cardinality(HoldersOfId(i)) \in Nat
        BY HoldersFinite
      <3>2. Cardinality(HoldersOfId(i) \cup {s}) <= Cardinality(HoldersOfId(i)) + 1
        BY <3>1, FS_AddElement
      <3>3. CASE guest[d].id = i
        BY <2>3, <3>2, <3>3
      <3>4. CASE guest[d].id # i
        BY <2>3, <3>1, <3>4
      <3> QED
        BY <3>3, <3>4
    <2>5. bindings'[i] = IF guest[d].id = i THEN bindings[i] + 1 ELSE bindings[i]
      BY <1>1, <1>6 DEF RequestBinding, TypeOK
    <2>6. Cardinality(HoldersOfId(i)) \in Nat /\ Cardinality(HoldersOfId(i)') \in Nat
      <3>1. HoldersOfId(i) \cup {s} \in SUBSET Sessions
        BY DEF HoldersOfId
      <3> QED
        BY <2>3, <3>1, HoldersFinite, PoolAssumption, FS_Subset, FS_CardinalityType
    <2> QED
      BY <2>1, <2>4, <2>5, <2>6
  <1> QED
    BY <1>13, <1>18, <1>19, <1>20, <1>21 DEF IInv

\* A release that reaches the guest it is about.
LEMMA FreedForm ==
    ASSUME NEW d \in Slots, guest[d] \in GuestObject, GuestOK(d), NEW op \in {"f", "u"}
    PROVE  /\ Freed(d, op) \in GuestObject
           /\ Freed(d, op).id = guest[d].id
           /\ Freed(d, op).connected = guest[d].connected - 1
           /\ Freed(d, op).up = guest[d].up
           /\ Freed(d, op).dirtied = guest[d].dirtied
           /\ guest[d].connected # 1 => Freed(d, op).st = guest[d].st /\ Freed(d, op).prev = guest[d].prev
           /\ guest[d].connected = 1 /\ op = "f" => Freed(d, op).st = "used" /\ Freed(d, op).prev = guest[d].prev
           /\ guest[d].connected = 1 /\ op = "u" => Freed(d, op).st = guest[d].prev /\ Freed(d, op).prev = None
  <1> DEFINE last == guest[d].connected = 1
  <1>1. guest[d].prev \in States \cup {None} /\ guest[d].connected \in Int
    BY DEF GuestObject
  <1>2. CASE op = "f"
    <2>1. Freed(d, op) = [guest[d] EXCEPT !.expired = FALSE, !.connected = @ - 1, !.st = IF last THEN "used" ELSE @]
      BY <1>2 DEF Freed
    <2>2. Freed(d, op) =
            [id |-> guest[d].id, st |-> IF last THEN "used" ELSE guest[d].st, prev |-> guest[d].prev,
             connected |-> guest[d].connected - 1, ips |-> guest[d].ips, expired |-> FALSE,
             up |-> guest[d].up, dirtied |-> guest[d].dirtied]
      BY <2>1 DEF GuestObject
    <2> QED
      <3> DEFINE st == IF last THEN "used" ELSE guest[d].st
      <3>1. st \in States
        BY DEF GuestObject, States
      <3> HIDE DEF st
      <3>2. Freed(d, op) =
              [id |-> guest[d].id, st |-> st, prev |-> guest[d].prev,
               connected |-> guest[d].connected - 1, ips |-> guest[d].ips, expired |-> FALSE,
               up |-> guest[d].up, dirtied |-> guest[d].dirtied]
        BY <2>2 DEF st
      <3>3. Freed(d, op) \in GuestObject
        BY <1>1, <3>1, <3>2 DEF GuestObject
      <3> QED
        BY <1>2, <2>2, <3>3
  <1>3. CASE op = "u"
    <2>1. Freed(d, op) = [guest[d] EXCEPT !.connected = @ - 1, !.st = IF last THEN guest[d].prev ELSE @,
                                          !.prev = IF last THEN None ELSE @]
      BY <1>3 DEF Freed
    <2>2. Freed(d, op) =
            [id |-> guest[d].id, st |-> IF last THEN guest[d].prev ELSE guest[d].st,
             prev |-> IF last THEN None ELSE guest[d].prev,
             connected |-> guest[d].connected - 1, ips |-> guest[d].ips, expired |-> guest[d].expired,
             up |-> guest[d].up, dirtied |-> guest[d].dirtied]
      BY <2>1 DEF GuestObject
    <2>3. last => guest[d].prev \in States
      BY <1>1 DEF GuestOK
    <2> QED
      BY <1>3, <2>2, <2>3 DEF GuestObject
  <1> QED
    BY <1>2, <1>3

\* A release that raises frees nothing; the session is gone all the same.
LEMMA RaisingStep ==
    ASSUME IInv, NEW s \in Sessions, ServeFree(s), UseNat, bindings[session[s].vm] = 0
    PROVE  IInv'
  <1>1. TypeOK /\ session[s] \in SessionState /\ session \in [Sessions -> SessionState] /\ SessionOK(s)
    BY DEF IInv, TypeOK, SessionInv
  <1>2. UNCHANGED <<poolVars, mixed>>
    BY <1>1 DEF ServeFree, poolVars, TypeOK
  <1>3. /\ session' = [session EXCEPT ![s] = session'[s]]
        /\ session'[s] = [front |-> "lost", pool |-> "none", req |-> FALSE, free |-> "none",
                          vm |-> None, dom |-> session[s].dom, dirty |-> FALSE]
    BY <1>1 DEF ServeFree, NoSession
  <1>4. session'[s] \in SessionState
    BY <1>1, <1>3 DEF SessionState
  <1>5. Listed' = Listed
    BY <1>2 DEF poolVars, Listed
  <1>6. SessionOK(s)' /\ session'[s].dom = session[s].dom /\ ~ MayReuse(s)'
    BY <1>1, <1>3, <1>5 DEF SessionOK, MayReuse
  <1> QED
    BY <1>2, <1>3, <1>4, <1>6, FrontStep

\* What a release that does not raise makes of the session.
LEMMA ServeForm ==
    ASSUME IInv, NEW s \in Sessions, ServeFree(s), ~ (UseNat /\ bindings[session[s].vm] = 0)
    PROVE  /\ UNCHANGED <<guests, nextId, anyUp, ready, call, config>>
           /\ session[s].vm \in Ids /\ session[s].free \in {"f", "u"}
           /\ session' = [session EXCEPT ![s] = session'[s]]
           /\ session'[s] \in SessionState /\ session'[s].dom = None
           /\ SessionOK(s)'
           /\ bindings' = FreeBinding(session[s].vm)
           /\ bindings' \in [Ids -> Nat] /\ mixed' \in BOOLEAN
           /\ ~ mixed' => ~ mixed /\ GuestOfId(session[s].vm) = session[s].dom
  <1>1. /\ TypeOK /\ session[s] \in SessionState /\ session \in [Sessions -> SessionState] /\ SessionOK(s)
        /\ bindings \in [Ids -> Nat] /\ mixed \in BOOLEAN
    BY DEF IInv, TypeOK, SessionInv
  <1>2. UNCHANGED <<guests, nextId, anyUp, ready, call, config>> /\ session[s].free # "none"
    BY DEF ServeFree
  <1>3. session[s].vm \in Ids /\ session[s].free \in {"f", "u"}
    BY <1>1, <1>2 DEF SessionOK, SessionState
  <1>4. /\ session' = [session EXCEPT ![s] = session'[s]]
        /\ session'[s] = [front |-> "lost", pool |-> "none", req |-> FALSE, free |-> "none",
                          vm |-> None, dom |-> None, dirty |-> FALSE]
    BY <1>1 DEF ServeFree, NoSession
  <1>5. session'[s] \in SessionState /\ session'[s].dom = None
    BY <1>4 DEF SessionState
  <1>6. SessionOK(s)'
    BY <1>4 DEF SessionOK
  <1>7. bindings' = FreeBinding(session[s].vm)
    BY DEF ServeFree
  <1>8. bindings' \in [Ids -> Nat]
    <2>1. CASE UseNat
      <3> DEFINE i == session[s].vm
                 n == bindings[i] - 1
      <3>1. n \in Nat
        BY <1>1, <1>3, <2>1
      <3>2. bindings' = [bindings EXCEPT ![i] = n]
        BY <1>7, <2>1 DEF FreeBinding
      <3> HIDE DEF i, n
      <3> QED
        BY <1>1, <3>1, <3>2
    <2>2. CASE ~ UseNat
      BY <1>1, <1>7, <2>2 DEF FreeBinding
    <2> QED
      BY <2>1, <2>2
  <1>9. mixed' = (mixed \/ GuestOfId(session[s].vm) # session[s].dom)
    BY DEF ServeFree
  <1> QED
    BY <1>1, <1>2, <1>3, <1>4, <1>5, <1>6, <1>7, <1>8, <1>9

\* A release for a guest that is no longer there frees a binding nobody uses.
LEMMA NobodyFreedStep ==
    ASSUME IInv, NEW s \in Sessions, ServeFree(s), ~ (UseNat /\ bindings[session[s].vm] = 0),
           GuestOfId(session[s].vm) = None
    PROVE  IInv'
  <1>1. TypeOK /\ bindings \in [Ids -> Nat] /\ session \in [Sessions -> SessionState]
    BY DEF IInv, TypeOK
  <1>2. /\ UNCHANGED <<guests, nextId, anyUp, ready, call, config>>
        /\ session[s].vm \in Ids
        /\ session' = [session EXCEPT ![s] = session'[s]]
        /\ session'[s] \in SessionState /\ session'[s].dom = None
        /\ SessionOK(s)'
        /\ bindings' = FreeBinding(session[s].vm)
        /\ bindings' \in [Ids -> Nat] /\ mixed' \in BOOLEAN
        /\ ~ mixed' => ~ mixed /\ session[s].dom = None
    BY ServeForm
  <1>3. guest' = guest /\ Listed' = Listed /\ Listed \subseteq Slots
    BY <1>1, <1>2 DEF ServeFree, Listed, TypeOK
  <1>4. session' \in [Sessions -> SessionState] /\ SessionInv'
    BY <1>2, OneSession
  <1>5. TypeOK'
    BY <1>1, <1>2, <1>3, <1>4 DEF TypeOK
  <1>6. GuestInv'
    BY <1>3 DEF IInv, GuestInv, GuestOK
  <1>7. CASE mixed'
    BY <1>4, <1>5, <1>6, <1>7 DEF IInv, ConnectedIsHolders, HeldIsUsed, PristineInv, BindingsInv
  <1>8. CASE ~ mixed'
    <2>1. ~ mixed /\ session[s].dom = None
      BY <1>2, <1>8
    <2>2. \A t \in Sessions \ {s} : session'[t] = session[t]
      BY <1>1, <1>2
    <2>3. \A e \in Slots : Holders(e)' = Holders(e) /\ (Pristine(e) => Pristine(e)')
      BY <1>2, <1>3, <2>1, <2>2, OtherGuests, NoneIsNothing
    <2>4. ConnectedIsHolders' /\ HeldIsUsed' /\ PristineInv'
      BY <1>3, <2>1, <2>3 DEF IInv, ConnectedIsHolders, HeldIsUsed, PristineInv
    <2>5. ASSUME UseNat, ready, NEW i \in Ids
          PROVE  bindings'[i] >= Cardinality(HoldersOfId(i)')
      <3>1. HoldersOfId(i)' = HoldersOfId(i)
        BY <1>2, <1>3, <2>1, <2>2 DEF HoldersOfId
      <3>2. bindings[i] >= Cardinality(HoldersOfId(i)) /\ bindings[i] \in Nat
        BY <1>1, <2>1, <2>5 DEF IInv, BindingsInv
      <3>3. CASE i = session[s].vm
        <4>1. \A d \in Listed : guest[d].id # i
          BY <1>1, <3>3, GuestOfIdIs
        <4>2. HoldersOfId(i) = {}
          BY <4>1 DEF IInv, SessionInv, SessionOK, HoldersOfId
        <4>3. bindings'[i] \in Nat /\ Cardinality(HoldersOfId(i)') = 0
          BY <1>2, <3>1, <4>2, FS_EmptySet
        <4> QED
          BY <4>3
      <3>4. CASE i # session[s].vm
        <4>1. bindings'[i] = bindings[i]
          BY <1>1, <1>2, <2>5, <3>4 DEF FreeBinding
        <4> QED
          BY <3>1, <3>2, <4>1
      <3> QED
        BY <3>3, <3>4
    <2>6. BindingsInv'
      BY <1>2, <2>5 DEF BindingsInv
    <2> QED
      BY <1>4, <1>5, <1>6, <2>4, <2>6 DEF IInv
  <1> QED
    BY <1>7, <1>8

\* A release that reaches a guest: when it is the one the session holds, it
\* loses a client and its id a binding; and it is available again only if it was
\* before its one client came, who did not log in.
LEMMA SomebodyFreedStep ==
    ASSUME IInv, NEW s \in Sessions, ServeFree(s), ~ (UseNat /\ bindings[session[s].vm] = 0),
           NEW d \in Slots, GuestOfId(session[s].vm) = d
    PROVE  IInv'
  <1>1. /\ TypeOK /\ bindings \in [Ids -> Nat] /\ session \in [Sessions -> SessionState]
        /\ guest \in [Slots -> GuestObject] /\ guest[d] \in GuestObject /\ GuestOK(d)
        /\ guest[d].connected \in Int
    BY DEF IInv, TypeOK, GuestInv, GuestObject
  <1>2. /\ UNCHANGED <<guests, nextId, anyUp, ready, call, config>>
        /\ session[s].vm \in Ids /\ session[s].free \in {"f", "u"}
        /\ session' = [session EXCEPT ![s] = session'[s]]
        /\ session'[s] \in SessionState /\ session'[s].dom = None
        /\ SessionOK(s)'
        /\ bindings' = FreeBinding(session[s].vm)
        /\ bindings' \in [Ids -> Nat] /\ mixed' \in BOOLEAN
        /\ ~ mixed' => ~ mixed /\ d = session[s].dom
    BY ServeForm
  <1>3. /\ Listed' = Listed /\ Listed \subseteq Slots
        /\ d # None /\ d \in Listed /\ guest[d].id = session[s].vm
    BY <1>1, <1>2, GuestOfIdIs, NoneIsNothing DEF Listed, TypeOK
  <1>4. PICK op \in {"f", "u"} : op = session[s].free
    BY <1>2
  <1>5. guest' = [guest EXCEPT ![d] = guest'[d]] /\ guest'[d] = Freed(d, op)
    BY <1>1, <1>3, <1>4 DEF ServeFree
  <1>6. /\ guest'[d] \in GuestObject
        /\ guest'[d].id = guest[d].id
        /\ guest'[d].connected = guest[d].connected - 1
        /\ guest'[d].up = guest[d].up
        /\ guest'[d].dirtied = guest[d].dirtied
        /\ guest[d].connected # 1 => guest'[d].st = guest[d].st /\ guest'[d].prev = guest[d].prev
        /\ guest[d].connected = 1 /\ op = "f" => guest'[d].st = "used" /\ guest'[d].prev = guest[d].prev
        /\ guest[d].connected = 1 /\ op = "u" => guest'[d].st = guest[d].prev /\ guest'[d].prev = None
    BY <1>1, <1>4, <1>5, FreedForm
  <1>7. GuestOK(d)'
    BY <1>1, <1>3, <1>6 DEF GuestOK
  <1>8. TypeOK' /\ GuestInv' /\ SessionInv'
    BY <1>2, <1>5, <1>6, <1>7, OneGuest
  <1>9. CASE mixed'
    BY <1>8, <1>9 DEF IInv, ConnectedIsHolders, HeldIsUsed, PristineInv, BindingsInv
  <1>10. CASE ~ mixed'
    <2>1. ~ mixed /\ session[s].dom = d
      BY <1>2, <1>10
    <2>2. /\ \A t \in Sessions \ {s} : session'[t] = session[t]
          /\ \A e \in Slots \ {d} : guest'[e] = guest[e]
      BY <1>1, <1>2, <1>5
    <2>3. \A e \in Slots : e # d => Holders(e)' = Holders(e) /\ (Pristine(e) => Pristine(e)')
      BY <1>2, <2>1, <2>2, OtherGuests, NoneIsNothing
    <2>4. Holders(d)' = Holders(d) \ {s} /\ s \in Holders(d)
      BY <1>2, <1>3, <2>1, <2>2 DEF Holders
    <2>5. /\ guest[d].connected = Cardinality(Holders(d)) /\ guest[d].st \in {"using", "unavailable"}
          /\ Pristine(d)
      BY <1>3, <2>1, <2>4 DEF IInv, ConnectedIsHolders, HeldIsUsed, PristineInv
    <2>6. guest'[d].connected = Cardinality(Holders(d)')
      <3> DEFINE H == Holders(d)
      <3>1. s \in H /\ IsFiniteSet(H)
        BY <2>4, HoldersFinite
      <3> HIDE DEF H
      <3>2. Cardinality(H \ {s}) = Cardinality(H) - 1
        BY <3>1, FS_RemoveElement
      <3>3. Cardinality(Holders(d)') = Cardinality(Holders(d)) - 1
        BY <2>4, <3>2 DEF H
      <3> QED
        BY <1>6, <2>5, <3>3
    <2>7. ConnectedIsHolders'
      BY <1>3, <2>1, <2>2, <2>3, <2>6 DEF IInv, ConnectedIsHolders
    <2>8. Holders(d)' # {} => guest'[d].st = guest[d].st
      <3>1. Cardinality(Holders(d)') = 0 => Holders(d)' = {}
        BY <2>4, HoldersFinite, FS_RemoveElement, FS_EmptySet
      <3> QED
        BY <1>1, <1>6, <2>6, <3>1, <2>4, FS_EmptySet, HoldersFinite, FS_RemoveElement
    <2>9. HeldIsUsed'
      BY <1>3, <2>1, <2>2, <2>3, <2>5, <2>8 DEF IInv, HeldIsUsed
    <2>10. Pristine(d)'
      <3>1. guest'[d].st \in {"created", "available"} => guest'[d].dirtied = {}
        <4>1. op = "u" => MayReuse(s)
          BY <1>4 DEF MayReuse
        <4>2. guest'[d].st \in {"created", "available"} => op = "u" /\ guest[d].prev = "available"
          BY <1>1, <1>6, <2>5 DEF GuestOK
        <4> QED
          BY <1>6, <2>4, <2>5, <4>1, <4>2 DEF Pristine
      <3>2. ASSUME guest'[d].prev = "available", NEW t \in Holders(d)'
            PROVE  /\ \A u \in Holders(d)' : t = u
                   /\ guest'[d].dirtied # {} => ~ MayReuse(t)'
        <4>1. guest[d].prev = "available" /\ t \in Holders(d) /\ t # s
          BY <1>6, <2>4, <3>2, NoneIsNothing DEF States
        <4>2. MayReuse(t)' = MayReuse(t)
          BY <2>2, <4>1 DEF MayReuse, Holders
        <4> QED
          BY <1>6, <2>4, <2>5, <4>1, <4>2 DEF Pristine
      <3> QED
        BY <3>1, <3>2 DEF Pristine
    <2>11. PristineInv'
      BY <1>3, <2>1, <2>3, <2>10 DEF IInv, PristineInv
    <2>12. ASSUME UseNat, ready, NEW i \in Ids
           PROVE  bindings'[i] >= Cardinality(HoldersOfId(i)')
      <3>1. \A e \in Slots : guest'[e].id = guest[e].id
        BY <1>6, <2>2
      <3>2. \A t \in Sessions : session[t].dom # None => session[t].dom \in Slots
        BY <1>3 DEF IInv, SessionInv, SessionOK
      <3>3. HoldersOfId(i)' = IF i = session[s].vm THEN HoldersOfId(i) \ {s} ELSE HoldersOfId(i)
        BY <1>2, <1>3, <2>1, <2>2, <3>1, <3>2 DEF HoldersOfId
      <3>4. bindings[i] >= Cardinality(HoldersOfId(i)) /\ bindings[i] \in Nat
        BY <1>1, <2>1, <2>12 DEF IInv, BindingsInv
      <3>5. IsFiniteSet(HoldersOfId(i)) /\ Cardinality(HoldersOfId(i)) \in Nat
        BY HoldersFinite
      <3>6. CASE i = session[s].vm
        <4>1. s \in HoldersOfId(i)
          BY <1>3, <2>1, <3>6 DEF HoldersOfId
        <4>2. Cardinality(HoldersOfId(i)') = Cardinality(HoldersOfId(i)) - 1
          <5> DEFINE H == HoldersOfId(i)
          <5>1. HoldersOfId(i)' = H \ {s} /\ s \in H /\ IsFiniteSet(H)
            BY <3>3, <3>5, <3>6, <4>1
          <5> HIDE DEF H
          <5>2. Cardinality(H \ {s}) = Cardinality(H) - 1
            BY <5>1, FS_RemoveElement
          <5> QED
            BY <5>1, <5>2 DEF H
        <4>3. bindings'[i] = bindings[i] - 1
          BY <1>1, <1>2, <2>12, <3>6 DEF FreeBinding
        <4> QED
          BY <3>4, <3>5, <4>2, <4>3
      <3>7. CASE i # session[s].vm
        <4>1. bindings'[i] = bindings[i]
          BY <1>1, <1>2, <2>12, <3>7 DEF FreeBinding
        <4> QED
          BY <3>3, <3>4, <3>7, <4>1
      <3> QED
        BY <3>6, <3>7
    <2>13. BindingsInv'
      BY <1>2, <2>12 DEF BindingsInv
    <2> QED
      BY <1>8, <2>7, <2>9, <2>11, <2>13 DEF IInv
  <1> QED
    BY <1>9, <1>10

LEMMA ServeFreeStep ==
    ASSUME IInv, NEW s \in Sessions, ServeFree(s)
    PROVE  IInv'
  <1>1. CASE UseNat /\ bindings[session[s].vm] = 0
    BY <1>1, RaisingStep
  <1>2. CASE ~ (UseNat /\ bindings[session[s].vm] = 0)
    <2>1. CASE GuestOfId(session[s].vm) = None
      BY <1>2, <2>1, NobodyFreedStep
    <2>2. CASE GuestOfId(session[s].vm) # None
      <3>1. PICK d \in Slots : GuestOfId(session[s].vm) = d
        BY <2>2, GuestOfIdIs DEF IInv
      <3> QED
        BY <1>2, <3>1, SomebodyFreedStep
    <2> QED
      BY <2>1, <2>2
  <1> QED
    BY <1>1, <1>2

-----------------------------------------------------------------------------
(***************************************************************************)
(* The sweep.                                                              *)
(***************************************************************************)

\* What is left of a guest after a sweep that does not remove it.
LEMMA SweptGuest ==
    ASSUME IInv, NEW d \in Listed, d \notin Gone
    PROVE  LET g == [guest[d] EXCEPT !.st = AfterSweep(d)]
           IN  /\ g \in GuestObject
               /\ SameCounts(guest[d], g) /\ g.up = guest[d].up
               /\ g.st = guest[d].st \/ (g.st = "unavailable" /\ guest[d].st \in {"available", "using", "used"})
               /\ g.st # "destroyed"
               /\ g.st = "unavailable" => ~ g.up
               /\ guest[d].st = "using" /\ guest[d].up => g.st = "using"
  <1>1. guest[d] \in GuestObject /\ d \in Slots /\ GuestOK(d)
    BY DEF IInv, TypeOK, GuestInv, Listed
  <1>2. AfterSweep(d) # "destroyed"
    BY DEF Gone
  <1>3. AfterSweep(d) = IF guest[d].st \in {"available", "using", "used"} /\ ~ HasConnectivity(d)
                        THEN "unavailable" ELSE guest[d].st
    BY <1>2 DEF AfterSweep
  <1>4. guest[d].up => HasConnectivity(d)
    BY PoolAssumption DEF HasConnectivity
  <1> DEFINE st == AfterSweep(d)
  <1>5. /\ st \in States
        /\ st = guest[d].st \/ (st = "unavailable" /\ guest[d].st \in {"available", "using", "used"})
        /\ st # "destroyed"
        /\ st = "unavailable" => ~ guest[d].up
        /\ guest[d].st = "using" /\ guest[d].up => st = "using"
    BY <1>1, <1>2, <1>3, <1>4 DEF GuestObject, GuestOK, States
  <1> HIDE DEF st
  <1> DEFINE g == [guest[d] EXCEPT !.st = st]
  <1>6. g = [id |-> guest[d].id, st |-> st, prev |-> guest[d].prev, connected |-> guest[d].connected,
             ips |-> guest[d].ips, expired |-> guest[d].expired, up |-> guest[d].up, dirtied |-> guest[d].dirtied]
    BY <1>1 DEF GuestObject
  <1> HIDE DEF g
  <1>7. g \in GuestObject /\ SameCounts(guest[d], g) /\ g.up = guest[d].up /\ g.st = st
    BY <1>1, <1>5, <1>6 DEF GuestObject, SameCounts
  <1> QED
    BY <1>5, <1>7 DEF g, st

\* A guest that was just created, in any slot.
LEMMA CreatedGuest ==
    ASSUME TypeOK, NEW k \in Nat \ {0}
    PROVE  /\ Created(k) \in GuestObject
           /\ Created(k).st = "created" /\ Created(k).prev = None /\ Created(k).connected = 0
           /\ Created(k).dirtied = {} /\ ~ Created(k).up
  <1>1. Id(k - 1) \in Ids
    BY PoolAssumption DEF Id, Ids, TypeOK
  <1> DEFINE i == Id(k - 1)
  <1>2. Created(k) = [NoGuest EXCEPT !.id = i, !.st = "created"]
    BY DEF Created
  <1> HIDE DEF i
  <1>3. Created(k) = [id |-> i, st |-> "created", prev |-> None, connected |-> 0, ips |-> {},
                      expired |-> FALSE, up |-> FALSE, dirtied |-> {}]
    BY <1>2 DEF NoGuest
  <1> QED
    BY <1>1, <1>3 DEF GuestObject, States, i

\* A pass creates a whole number of guests.
LEMMA ToCreateType == TypeOK => ToCreate \in Nat
  <1> SUFFICES ASSUME TypeOK PROVE ToCreate \in Nat
    OBVIOUS
  <1>1. Listed \in SUBSET Slots
    BY DEF TypeOK, Listed
  <1>2. {d \in Listed : guest[d].st # "destroyed"} \in SUBSET Slots /\ Gone \in SUBSET Slots
    BY <1>1 DEF Gone
  <1>3. ExistingPoolSize \in Nat /\ Cardinality(Gone) \in Nat
    BY <1>2, PoolAssumption, FS_Subset, FS_CardinalityType DEF ExistingPoolSize
  <1>4. config.max \in Nat
    BY DEF TypeOK
  <1> QED
    BY <1>3, <1>4 DEF ToCreate

\* The list after a pass, and the objects of its guests.
LEMMA RepopulateGuests ==
    ASSUME IInv, NEW n \in Nat, Repopulate(n)
    PROVE  /\ guests' \in Seq(Slots) /\ IsInjective(guests')
           /\ guest' \in [Slots -> GuestObject]
           /\ Listed \ Gone \subseteq Listed'
           /\ \A d \in Listed \ Gone : guest'[d] = [guest[d] EXCEPT !.st = AfterSweep(d)]
           /\ \A d \in Slots : d \notin Listed \ Gone =>
                /\ guest'[d].prev = None /\ guest'[d].connected = 0 /\ guest'[d].dirtied = {}
                /\ guest'[d].st \in {"created", "destroyed"}
                /\ d \in Listed' => guest'[d].st = "created"
  <1> DEFINE kept == Listed \ Gone
             k == Cardinality(kept)
  <1>1. kept \in SUBSET Slots
    BY DEF IInv, TypeOK, Listed
  <1>2. k \in Nat
    BY <1>1, PoolAssumption, FS_Subset, FS_CardinalityType
  <1>3. PICK list \in [1 .. k + n -> Slots] :
            /\ IsInjective(list)
            /\ {list[i] : i \in 1 .. k} = kept
            /\ guests' = list
            /\ guest' = [d \in Slots |->
                  IF d \in kept THEN [guest[d] EXCEPT !.st = AfterSweep(d)]
                  ELSE IF \E i \in 1 .. n : list[k + i] = d
                  THEN Created(CHOOSE i \in 1 .. n : list[k + i] = d)
                  ELSE NoGuest]
    BY DEF Repopulate
  <1> HIDE DEF k
  <1>4. guests' \in Seq(Slots) /\ Listed' = {list[i] : i \in 1 .. k + n}
    BY <1>2, <1>3 DEF Listed
  <1>5. kept \subseteq Listed'
    BY <1>2, <1>3, <1>4
  <1>6. \A d \in kept : guest'[d] = [guest[d] EXCEPT !.st = AfterSweep(d)] /\ guest'[d] \in GuestObject
    BY <1>1, <1>3, SweptGuest
  <1>7. \A d \in Listed' : d \in kept \/ \E i \in 1 .. n : list[k + i] = d
    <2> SUFFICES ASSUME NEW j \in 1 .. k + n PROVE list[j] \in kept \/ \E i \in 1 .. n : list[k + i] = list[j]
      BY <1>4
    <2>1. CASE j <= k
      BY <1>2, <1>3, <2>1
    <2>2. CASE j > k
      <3>1. j - k \in 1 .. n /\ k + (j - k) = j
        BY <1>2, <2>2
      <3> QED
        BY <3>1
    <2> QED
      BY <1>2, <2>1, <2>2
  <1>8. ASSUME NEW d \in Slots, d \notin kept
        PROVE  /\ guest'[d] \in GuestObject
               /\ guest'[d].prev = None /\ guest'[d].connected = 0 /\ guest'[d].dirtied = {}
               /\ guest'[d].st \in {"created", "destroyed"}
               /\ d \in Listed' => guest'[d].st = "created"
    <2>1. CASE \E i \in 1 .. n : list[k + i] = d
      <3> DEFINE m == CHOOSE i \in 1 .. n : list[k + i] = d
      <3>1. m \in Nat \ {0} /\ guest'[d] = Created(m)
        BY <1>3, <1>8, <2>1
      <3> HIDE DEF m
      <3> QED
        BY <3>1, CreatedGuest DEF IInv
    <2>2. CASE ~ \E i \in 1 .. n : list[k + i] = d
      <3>1. guest'[d] = NoGuest /\ d \notin Listed'
        BY <1>3, <1>7, <1>8, <2>2
      <3> QED
        BY <3>1, NoGuestIs DEF NoGuest
    <2> QED
      BY <2>1, <2>2
  <1>9. guest' \in [Slots -> GuestObject]
    <2>1. DOMAIN guest' = Slots /\ guest' = [d \in Slots |-> guest'[d]]
      BY <1>3
    <2> QED
      BY <1>6, <1>8, <2>1
  <1> QED
    BY <1>3, <1>4, <1>5, <1>6, <1>8, <1>9

\* The sessions after a pass: those of a guest that is gone hold none.
LEMMA RepopulateSessions ==
    ASSUME IInv, NEW n \in Nat, Repopulate(n)
    PROVE  /\ session' \in [Sessions -> SessionState] /\ SessionInv'
           /\ \A s \in Sessions :
                /\ session'[s].dom = IF session[s].dom \in Gone THEN None ELSE session[s].dom
                /\ MayReuse(s)' = MayReuse(s)
  <1>1. \A s \in Sessions : session[s] \in SessionState /\ SessionOK(s)
    BY DEF IInv, TypeOK, SessionInv
  <1>2. session' = [s \in Sessions |-> IF session[s].dom \in Gone
                                       THEN [session[s] EXCEPT !.dom = None] ELSE session[s]]
    BY DEF Repopulate
  <1>3. Listed \ Gone \subseteq Listed'
    BY RepopulateGuests
  <1>4. ASSUME NEW s \in Sessions
        PROVE  /\ session'[s] \in SessionState
               /\ SessionOK(s)'
               /\ session'[s].dom = IF session[s].dom \in Gone THEN None ELSE session[s].dom
               /\ MayReuse(s)' = MayReuse(s)
    <2>1. CASE session[s].dom \in Gone
      <3>1. session'[s] = [session[s] EXCEPT !.dom = None]
        BY <1>2, <2>1
      <3>2. /\ session'[s] \in SessionState /\ session'[s].dom = None
            /\ session'[s].front = session[s].front /\ session'[s].pool = session[s].pool
            /\ session'[s].req = session[s].req /\ session'[s].free = session[s].free
            /\ session'[s].vm = session[s].vm /\ session'[s].dirty = session[s].dirty
        BY <1>1, <3>1 DEF SessionState
      <3> QED
        BY <1>1, <2>1, <3>2 DEF SessionOK, MayReuse
    <2>2. CASE session[s].dom \notin Gone
      BY <1>1, <1>2, <1>3, <2>2 DEF SessionOK, MayReuse
    <2> QED
      BY <2>1, <2>2
  <1>5. session' \in [Sessions -> SessionState]
    BY <1>2, <1>4
  <1> QED
    BY <1>4, <1>5 DEF SessionInv

\* A pass leaves the guests of the kept slots to their clients, and nobody holds
\* a new one.
LEMMA RepopulateStep ==
    ASSUME IInv, NEW n \in Nat, Repopulate(n),
           UNCHANGED <<anyUp, ready, config, bindings, mixed>>, call' \in {"none", "pending", "spent"}
    PROVE  IInv'
  <1> DEFINE kept == Listed \ Gone
  <1>1. /\ guests' \in Seq(Slots) /\ IsInjective(guests')
        /\ guest' \in [Slots -> GuestObject]
        /\ kept \subseteq Listed'
        /\ \A d \in kept : guest'[d] = [guest[d] EXCEPT !.st = AfterSweep(d)]
        /\ \A d \in Slots : d \notin kept =>
             /\ guest'[d].prev = None /\ guest'[d].connected = 0 /\ guest'[d].dirtied = {}
             /\ guest'[d].st \in {"created", "destroyed"}
             /\ d \in Listed' => guest'[d].st = "created"
    BY RepopulateGuests
  <1>2. /\ session' \in [Sessions -> SessionState] /\ SessionInv'
        /\ \A s \in Sessions :
             /\ session'[s].dom = IF session[s].dom \in Gone THEN None ELSE session[s].dom
             /\ MayReuse(s)' = MayReuse(s)
    BY RepopulateSessions
  <1>3. nextId' \in Ids
    BY PoolAssumption DEF IInv, TypeOK, Repopulate, Id, Ids
  <1>4. TypeOK'
    BY <1>1, <1>2, <1>3 DEF IInv, TypeOK
  <1>5. Listed \subseteq Slots /\ Listed' \subseteq Slots /\ \A s \in Sessions : session[s].dom # None => session[s].dom \in Listed
    BY <1>1 DEF IInv, TypeOK, Listed, SessionInv, SessionOK
  <1>6. \A d \in kept :
          /\ SameCounts(guest[d], guest'[d]) /\ guest'[d].up = guest[d].up
          /\ guest'[d].st = guest[d].st \/ (guest'[d].st = "unavailable" /\ guest[d].st \in {"available", "using", "used"})
          /\ guest'[d].st # "destroyed"
          /\ guest'[d].st = "unavailable" => ~ guest'[d].up
    BY <1>1, SweptGuest
  <1>7. GuestInv'
    <2> SUFFICES ASSUME NEW d \in Slots PROVE GuestOK(d)'
      BY DEF GuestInv
    <2>1. CASE d \in kept
      BY <1>6, <2>1 DEF IInv, GuestInv, GuestOK, SameCounts
    <2>2. CASE d \notin kept
      BY <1>1, <2>2 DEF GuestOK
    <2> QED
      BY <2>1, <2>2
  <1>8. \A d \in kept : Holders(d)' = Holders(d)
    BY <1>2, <1>5, NoneIsNothing DEF Holders
  <1>9. \A d \in Slots : d \notin kept => Holders(d)' = {}
    BY <1>2, <1>5, NoneIsNothing DEF Holders
  <1>10. ConnectedIsHolders'
    <2> SUFFICES ASSUME ~ mixed, NEW d \in Listed' PROVE guest'[d].connected = Cardinality(Holders(d)')
      BY DEF ConnectedIsHolders
    <2>1. CASE d \in kept
      BY <1>6, <1>8, <2>1 DEF IInv, ConnectedIsHolders, SameCounts
    <2>2. CASE d \notin kept
      BY <1>1, <1>5, <1>9, <2>2, FS_EmptySet
    <2> QED
      BY <2>1, <2>2
  <1>11. HeldIsUsed'
    <2> SUFFICES ASSUME ~ mixed, NEW d \in Listed', Holders(d)' # {} PROVE guest'[d].st \in {"using", "unavailable"}
      BY DEF HeldIsUsed
    <2>1. d \in kept
      BY <1>5, <1>9
    <2> QED
      BY <1>6, <1>8, <2>1 DEF IInv, HeldIsUsed
  <1>12. PristineInv'
    <2> SUFFICES ASSUME ~ mixed, NEW d \in Listed' PROVE Pristine(d)'
      BY DEF PristineInv
    <2>1. CASE d \in kept
      <3>1. Pristine(d)
        BY <2>1 DEF IInv, PristineInv
      <3>2. \A s \in Holders(d) : MayReuse(s)' = MayReuse(s)
        BY <1>2 DEF Holders
      <3> QED
        BY <1>6, <1>8, <2>1, <3>1, <3>2 DEF Pristine, SameCounts
    <2>2. CASE d \notin kept
      BY <1>1, <1>5, <1>9, <2>2 DEF Pristine
    <2> QED
      BY <2>1, <2>2
  <1>13. BindingsInv'
    <2> SUFFICES ASSUME UseNat, ready, ~ mixed, NEW i \in Ids
                 PROVE  bindings[i] >= Cardinality(HoldersOfId(i)')
      BY DEF BindingsInv
    <2>1. HoldersOfId(i)' \in SUBSET HoldersOfId(i)
      BY <1>2, <1>5, <1>6, NoneIsNothing DEF HoldersOfId, SameCounts
    <2>2. Cardinality(HoldersOfId(i)') <= Cardinality(HoldersOfId(i)) /\ Cardinality(HoldersOfId(i)') \in Nat
      BY <2>1, HoldersFinite, FS_Subset, FS_CardinalityType
    <2>3. bindings[i] >= Cardinality(HoldersOfId(i)) /\ bindings[i] \in Nat /\ Cardinality(HoldersOfId(i)) \in Nat
      BY HoldersFinite DEF IInv, BindingsInv, TypeOK
    <2> QED
      BY <2>2, <2>3
  <1> QED
    BY <1>2, <1>4, <1>7, <1>10, <1>11, <1>12, <1>13 DEF IInv

\* A pass, and one that fails on the way.
LEMMA PassStep ==
    ASSUME IInv, Pass \/ PassRaises
    PROVE  IInv'
  <1>1. ToCreate \in Nat
    BY ToCreateType DEF IInv
  <1>2. PICK n \in Nat : Repopulate(n)
    <2>1. CASE Pass
      BY <1>1, <2>1 DEF Pass
    <2>2. CASE PassRaises
      <3>1. \A n \in 0 .. ToCreate - 1 : n \in Nat
        BY <1>1
      <3> QED
        BY <2>2, <3>1 DEF PassRaises
    <2> QED
      BY <2>1, <2>2
  <1>3. UNCHANGED <<anyUp, ready, config, bindings, mixed>>
    BY DEF Pass, PassRaises
  <1>4. call' \in {"none", "pending", "spent"}
    BY DEF IInv, TypeOK, Pass, PassRaises
  <1> QED
    BY <1>2, <1>3, <1>4, RepopulateStep

-----------------------------------------------------------------------------
(***************************************************************************)
(* The theorems.                                                           *)
(***************************************************************************)

\* Every action keeps the invariant.
LEMMA NextInv == IInv /\ [Next]_vars => IInv'
  <1> SUFFICES ASSUME IInv, [Next]_vars PROVE IInv'
    OBVIOUS
  <1>1. CASE Producer
    BY <1>1, PassStep, MarkAvailableStep, LoopStep DEF Producer
  <1>2. CASE PassRaises
    BY <1>2, PassStep
  <1>3. CASE Recycle
    BY <1>3, RecycleStep
  <1>4. CASE Initialise \/ RecycleRaises
    BY <1>4, LoopStep
  <1>5. ASSUME NEW d \in Slots, Boots(d) \/ LosesConnectivity(d) \/ Expires(d) PROVE IInv'
    BY <1>5, MachineStep
  <1>6. ASSUME NEW s \in Sessions, Connect(s) \/ PoolConnected(s) \/ ReceiveReply(s) \/ FrontLost(s) PROVE IInv'
    BY <1>6, ConnectStep, PoolConnectedStep, ReceiveReplyStep, FrontLostStep
  <1>7. ASSUME NEW s \in Sessions, Grant(s) \/ Deny(s) \/ ServeFree(s) \/ Authenticate(s) PROVE IInv'
    BY <1>7, GrantStep, DenyStep, ServeFreeStep, AuthenticateStep
  <1>8. CASE UNCHANGED vars
    BY <1>8, LoopStep
  <1> QED
    BY <1>1, <1>2, <1>3, <1>4, <1>5, <1>6, <1>7, <1>8 DEF Next

\* The bindings of a guest's id are at least its own clients.
LEMMA NatOpen == IInv => NatOpenForHolders
  <1> SUFFICES ASSUME IInv, UseNat, ready, ~ mixed, NEW d \in Listed
               PROVE  bindings[guest[d].id] >= Cardinality(Holders(d))
    BY DEF NatOpenForHolders
  <1>1. d \in Slots /\ guest[d].id \in Ids /\ d # None
    BY NoneIsNothing DEF IInv, TypeOK, Listed, GuestObject
  <1>2. Holders(d) \in SUBSET HoldersOfId(guest[d].id)
    BY <1>1 DEF Holders, HoldersOfId
  <1>3. /\ Cardinality(Holders(d)) <= Cardinality(HoldersOfId(guest[d].id))
        /\ Cardinality(Holders(d)) \in Nat /\ Cardinality(HoldersOfId(guest[d].id)) \in Nat
    BY <1>2, HoldersFinite, FS_Subset
  <1>4. bindings[guest[d].id] >= Cardinality(HoldersOfId(guest[d].id)) /\ bindings[guest[d].id] \in Nat
    BY <1>1 DEF IInv, BindingsInv, TypeOK
  <1> QED
    BY <1>3, <1>4

\* Until a release first hits another guest than its own, every guest counts
\* exactly the sessions that have it, and the NAT ports of one that a session has
\* stay open.
THEOREM PoolCorrect == Spec => []PoolInv
  <1>1. IInv => PoolInv
    BY NatOpen DEF IInv, PoolInv
  <1> QED
    BY <1>1, InitInv, NextInv, PTL DEF Spec

\* A guest that an attacker may get as a new one was never logged in to.
THEOREM AvailableUntouched == Spec => []AvailableIsPristine
  <1>1. IInv => AvailableIsPristine
    BY DEF IInv, PristineInv, Pristine, AvailableIsPristine
  <1> QED
    BY <1>1, InitInv, NextInv, PTL DEF Spec

\* Who holds a live guest keeps it over a step of anybody.
LEMMA InUseStep ==
    ASSUME IInv, [Next]_vars, recycles \in Nat,
           NEW d \in Listed, guest[d].up, ~ mixed', ready, ready', recycles' = recycles,
           NEW s \in Holders(d), session[s].front = "up", session[s].pool = "ready"
    PROVE  guest'[d].st = "using" /\ \E i \in DOMAIN guests' : guests'[i] = d
  <1>1. d \in Slots /\ s \in Sessions /\ session[s].dom = d
    BY DEF IInv, TypeOK, Listed, Holders
  <1>2. TypeOK /\ guest \in [Slots -> GuestObject] /\ guest[d] \in GuestObject /\ GuestOK(d)
    BY <1>1 DEF IInv, TypeOK, GuestInv
  <1>3. guests' = guests => \E i \in DOMAIN guests' : guests'[i] = d
    BY DEF Listed
  <1>4. ~ mixed => guest[d].st = "using" /\ guest[d].connected = Cardinality(Holders(d))
    BY <1>2 DEF IInv, HeldIsUsed, ConnectedIsHolders, GuestOK
  <1>5. CASE Pass \/ PassRaises
    <2>1. ~ mixed /\ \E n \in Nat : Repopulate(n)
      <3>1. ToCreate \in Nat
        BY <1>2, ToCreateType
      <3>2. \A n \in 0 .. ToCreate - 1 : n \in Nat
        BY <3>1
      <3> QED
        BY <1>5, <3>1, <3>2 DEF Pass, PassRaises
    <2>2. d \notin Gone
      <3>1. AfterSweep(d) # "destroyed"
        BY <1>4, <2>1 DEF AfterSweep, TimedOut
      <3> QED
        BY <3>1 DEF Gone
    <2>3. d \in Listed' /\ guest'[d] = [guest[d] EXCEPT !.st = AfterSweep(d)]
      BY <2>1, <2>2, RepopulateGuests
    <2>4. guest'[d].st = "using"
      BY <1>4, <2>1, <2>2, <2>3, SweptGuest
    <2> QED
      BY <2>3, <2>4 DEF Listed
  <1>6. CASE MarkAvailable
    BY <1>1, <1>3, <1>4, <1>6 DEF MarkAvailable
  <1>7. CASE EndPass \/ Initialise \/ UNCHANGED vars
    BY <1>3, <1>4, <1>7 DEF EndPass, Initialise, RecycleRaises, vars, poolVars
  <1>8. ASSUME NEW e \in Slots, Boots(e) \/ LosesConnectivity(e) \/ Expires(e)
        PROVE  guest'[d].st = "using" /\ \E i \in DOMAIN guests' : guests'[i] = d
    <2>1. guests' = guests /\ mixed' = mixed
      BY <1>8 DEF Boots, LosesConnectivity, Expires
    <2>2. \/ guest' = [guest EXCEPT ![e].up = TRUE] \/ guest' = [guest EXCEPT ![e].up = FALSE]
          \/ guest' = [guest EXCEPT ![e].expired = TRUE]
      BY <1>8 DEF Boots, LosesConnectivity, Expires
    <2>3. guest'[d].st = guest[d].st
      BY <1>1, <1>2, <2>2 DEF GuestObject
    <2> QED
      BY <1>3, <1>4, <2>1, <2>3
  <1>9. CASE Recycle \/ RecycleRaises
    BY <1>9 DEF Recycle, RecycleRaises
  <1>10. ASSUME NEW t \in Sessions, Connect(t) \/ PoolConnected(t) \/ ReceiveReply(t) \/ FrontLost(t)
         PROVE  guest'[d].st = "using" /\ \E i \in DOMAIN guests' : guests'[i] = d
    BY <1>3, <1>4, <1>10 DEF Connect, PoolConnected, ReceiveReply, FrontLost, Session, poolVars
  <1>11. ASSUME NEW t \in Sessions, Authenticate(t)
         PROVE  guest'[d].st = "using" /\ \E i \in DOMAIN guests' : guests'[i] = d
    <2>1. guests' = guests /\ mixed' = mixed
      BY <1>11 DEF Authenticate
    <2>2. guest'[d].st = guest[d].st
      BY <1>1, <1>2, <1>11 DEF Authenticate, GuestObject
    <2> QED
      BY <1>3, <1>4, <2>1, <2>2
  <1>12. ASSUME NEW t \in Sessions, Deny(t)
         PROVE  guest'[d].st = "using" /\ \E i \in DOMAIN guests' : guests'[i] = d
    <2>1. guests' = guests /\ mixed' = mixed /\ guest' = guest
      BY <1>12 DEF Deny, StopPool
    <2> QED
      BY <1>3, <1>4, <2>1
  <1>13. ASSUME NEW t \in Sessions, Grant(t)
         PROVE  guest'[d].st = "using" /\ \E i \in DOMAIN guests' : guests'[i] = d
    <2>1. guests' = guests /\ mixed' = mixed
      BY <1>13 DEF Grant
    <2>2. PICK e \in Slots : e = Choice(Src[t])
      BY <1>2, <1>13, ChoiceIs DEF Grant
    <2>3. /\ guest' = [guest EXCEPT ![e] = guest'[e]]
          /\ guest'[e] = [id |-> guest[e].id, st |-> "using", prev |-> guest[e].st,
                          connected |-> guest[e].connected + 1, ips |-> guest[e].ips \cup {Src[t]},
                          expired |-> guest[e].expired, up |-> guest[e].up,
                          dirtied |-> guest[e].dirtied]
      BY <1>13, <2>2, GrantForm
    <2>4. guest' = [guest EXCEPT ![e] = guest'[e]] /\ guest'[e].st = "using"
      BY <2>3
    <2>5. guest'[d].st = "using"
      BY <1>1, <1>2, <1>4, <2>1, <2>4
    <2> QED
      BY <1>3, <2>1, <2>5
  <1>14. ASSUME NEW t \in Sessions, ServeFree(t)
         PROVE  guest'[d].st = "using" /\ \E i \in DOMAIN guests' : guests'[i] = d
    <2>1. guests' = guests /\ ~ mixed
      BY <1>14 DEF ServeFree
    <2>2. CASE (UseNat /\ bindings[session[t].vm] = 0) \/ GuestOfId(session[t].vm) = None
      <3>1. guest' = guest
        BY <1>14, <2>2 DEF ServeFree
      <3> QED
        BY <1>3, <1>4, <2>1, <3>1
    <2>3. CASE ~ (UseNat /\ bindings[session[t].vm] = 0) /\ GuestOfId(session[t].vm) # None
      <3>1. GuestOfId(session[t].vm) = session[t].dom /\ session[t].free \in {"f", "u"}
        BY <1>14, <2>3, ServeForm
      <3>2. PICK e \in Slots : e = GuestOfId(session[t].vm)
        BY <1>2, <2>3, GuestOfIdIs
      <3>3. guest' = [guest EXCEPT ![e] = Freed(e, session[t].free)]
        BY <1>14, <2>3, <3>2, NoneIsNothing DEF ServeFree
      <3>4. CASE e # d
        BY <1>1, <1>2, <1>3, <1>4, <2>1, <3>3, <3>4
      <3>5. CASE e = d
        <4>1. t \in Holders(d) /\ t # s
          <5>1. session[t].front = "lost"
            BY <3>1 DEF IInv, SessionInv, SessionOK
          <5> QED
            BY <3>1, <3>2, <3>5, <5>1 DEF Holders
        <4>2. guest[d].connected # 1
          <5>1. Cardinality(Holders(d)) # 1
            <6>1. \A x : Holders(d) # {x}
              BY <4>1
            <6> QED
              BY <6>1, HoldersFinite, FS_Singleton
          <5> QED
            BY <1>4, <2>1, <5>1
        <4>3. guest'[d] = Freed(d, session[t].free)
          BY <1>1, <1>2, <3>3, <3>5
        <4>4. guest'[d].st = guest[d].st
          BY <1>1, <1>2, <3>1, <4>2, <4>3, FreedForm
        <4> QED
          BY <1>3, <1>4, <2>1, <4>4
      <3> QED
        BY <3>4, <3>5
    <2> QED
      BY <2>2, <2>3
  <1> QED
    BY <1>5, <1>6, <1>7, <1>8, <1>9, <1>10, <1>11, <1>12, <1>13, <1>14 DEF Next, Producer

\* Recyclings are counted.
LEMMA RecyclesCounted == recycles \in Nat /\ [Next]_vars => recycles' \in Nat
  <1> SUFFICES ASSUME recycles \in Nat, [Next]_vars PROVE recycles' \in Nat
    OBVIOUS
  <1>1. recycles' = recycles \/ recycles' = recycles + 1
    BY DEF Next, vars, Producer, Pass, PassRaises, MarkAvailable, EndPass, Recycle, RecycleRaises, Initialise, Boots,
           LosesConnectivity, Expires, Connect, PoolConnected, ReceiveReply, Session, Grant, Deny, ServeFree,
           Authenticate, FrontLost
  <1> QED
    BY <1>1

\* A pass of the producer never reclaims, and no release or answer ever frees, a
\* live guest under an attacker who is connected to it; only recycling and the
\* stop for want of guests take it away.
THEOREM InUseKept == Spec => InUseNotReclaimed
  <1>1. Init => IInv /\ recycles \in Nat
    BY InitInv DEF Init
  <1>2. (IInv /\ recycles \in Nat) /\ [Next]_vars => (IInv /\ recycles \in Nat)'
    BY NextInv, RecyclesCounted
  <1>3. (IInv /\ recycles \in Nat) /\ [Next]_vars =>
           [\A d \in Listed :
              /\ guest[d].up /\ ~mixed' /\ ready /\ ready' /\ recycles' = recycles
              /\ \E s \in Holders(d) : session[s].front = "up" /\ session[s].pool = "ready"
              => guest'[d].st = "using" /\ \E i \in DOMAIN guests' : guests'[i] = d]_vars
    BY InUseStep
  <1> QED
    BY <1>1, <1>2, <1>3, PTL DEF Spec, InUseNotReclaimed
=============================================================================
