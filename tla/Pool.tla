-------------------------------- MODULE Pool --------------------------------
(***************************************************************************)
(* Cowrie's backend pool and its clients. A producer loop keeps a list of  *)
(* virtual machines booted, checked and recycled; the proxy's SSH and      *)
(* Telnet frontends ask for one over a connection of their own and give it *)
(* back when the attacker leaves. The first pass of a producer runs on a   *)
(* worker thread, every later one on the reactor, as all the rest does.    *)
(***************************************************************************)
EXTENDS Naturals, Integers, Sequences, FiniteSets, Functions

CONSTANTS
    Sessions,  \* frontend connections of the proxy
    Src,       \* [Sessions -> attacker addresses]: peer_ip
    Slots,     \* guest objects, reused once a guest has left the list; room for a full list
    IdLimit,   \* guest_id is reset when it gets here (252 in the code)
    MaxVm,     \* pool_max_vms
    Share,     \* pool_share_guests
    UseNat,    \* the pool is remote: guests are reached through NAT bindings
    SshOn, TelnetOn,  \* which of the guests' ports are configured
    Visits,    \* bound: connections of attackers
    Recycles,  \* bound: recycle_period expiries
    Faults,    \* bound: guests that lose connectivity, creations that fail
    None

States == {"created", "available", "using", "used", "unavailable", "destroyed"}

ASSUME PoolAssumption ==
    /\ IdLimit \in Nat \ {0} /\ MaxVm \in Nat \ {0}
    /\ Visits \in Nat /\ Recycles \in Nat /\ Faults \in Nat
    /\ {Share, UseNat, SshOn, TelnetOn} \subseteq BOOLEAN
    /\ DOMAIN Src = Sessions /\ None \notin Slots \cup Int \cup States
    /\ IsFiniteSet(Sessions) /\ IsFiniteSet(Slots)
    /\ Cardinality(Slots) >= 2 /\ Cardinality(Slots) >= MaxVm

VARIABLES
    guests,   \* the list, as a sequence of slots
    guest,    \* slot -> the guest object in it
    nextId,   \* guest_id
    anyUp,    \* any_vm_up
    ready,    \* the libvirt service's ready
    loop,     \* the producer's pc, and whether it is on the worker thread
    call,     \* loop_next_call: "none", "pending" or "spent" (run or cancelled)
    config,   \* max_vm, share_guests and factory.initialised
    bindings, \* NAT: guest id -> connections counted, 0 when there is no binding
    session,  \* session -> its connections to the attacker and to the pool
    mixed,    \* a guest other than the one handed out was freed (history)
    visits, recycles, faults  \* counted against their bounds

poolVars == <<guests, guest, nextId, anyUp, ready, loop, call, config, bindings>>
vars == <<poolVars, session, mixed, visits, recycles, faults>>

Ids == 0 .. IdLimit - 1
Ips == {Src[s] : s \in Sessions}

\* An unused guest object; up: its ports answer, dirtied: addresses that logged in.
NoGuest == [id |-> 0, st |-> "destroyed", prev |-> None, connected |-> 0, ips |-> {},
            expired |-> FALSE, up |-> FALSE, dirtied |-> {}]

\* front and pool: the attacker's connection and the one to the pool; req, free:
\* messages on their way to the pool; vm: the id in the pool's reply; dom: the
\* guest the pool counts this session on (history).
NoSession == [front |-> "new", pool |-> "none", req |-> FALSE, free |-> "none", vm |-> None,
              dom |-> None, dirty |-> FALSE]

Init ==
    /\ guests = <<>>
    /\ guest = [d \in Slots |-> NoGuest]
    /\ nextId = 0
    /\ anyUp = FALSE
    /\ ready = TRUE
    /\ loop = [pc |-> "first", thread |-> TRUE]
    /\ call = "none"
    /\ config = [max |-> 2, share |-> TRUE, initialised |-> FALSE]
    /\ bindings = [i \in Ids |-> 0]
    /\ session = [s \in Sessions |-> NoSession]
    /\ mixed = FALSE
    /\ visits = 0
    /\ recycles = 0
    /\ faults = 0

-----------------------------------------------------------------------------
(***************************************************************************)
(* Reading the list.                                                       *)
(***************************************************************************)
Listed == {guests[i] : i \in DOMAIN guests}
GuestStates(states) == {d \in Listed : guest[d].st \in states}
ExistingPoolSize == Cardinality({d \in Listed : guest[d].st # "destroyed"})

Before(d, e) == \E i, j \in DOMAIN guests : i < j /\ guests[i] = d /\ guests[j] = e

\* The guest of D that comes first in the list.
FirstOf(D) ==
    LET at == {i \in DOMAIN guests : guests[i] \in D}
    IN  IF at = {} THEN None ELSE guests[CHOOSE i \in at : \A j \in at : i <= j]

HasConnectivity(d) ==
    LET ssh == SshOn /\ guest[d].up
        telnet == IF TelnetOn /\ ~ssh THEN guest[d].up ELSE TRUE
    IN  ssh \/ telnet

\* The reactor takes events unless a pass of the producer runs on it.
ReactorFree == loop.pc \in {"idle", "dead"} \/ loop.thread

-----------------------------------------------------------------------------
(***************************************************************************)
(* The producer.                                                           *)
(***************************************************************************)
TimedOut(d) == guest[d].st = "used" /\ guest[d].expired

\* A faulty variant: a guest is reclaimed when its last release is old, in use or not.
AfterSweepAnyState(d) ==
    IF ExistingPoolSize > 1 /\ guest[d].expired THEN "destroyed"
    ELSE IF guest[d].st \in {"available", "using", "used"} /\ ~HasConnectivity(d) THEN "unavailable"
    ELSE guest[d].st

\* What a sweep makes of a guest: marked when timed out and, with more than
\* one guest left, destroyed; else marked when it does not answer.
AfterSweep(d) ==
    LET reclaim == ExistingPoolSize > 1
        st == guest[d].st
    IN  IF reclaim /\ (TimedOut(d) \/ st = "unavailable") THEN "destroyed"
        ELSE IF st \in {"available", "using", "used"} /\ ~HasConnectivity(d) THEN "unavailable"
        ELSE st

\* Guests that the sweep destroys and removes from the list.
Gone == {d \in Listed : AfterSweep(d) = "destroyed"}

\* How many guests create_guests is to create after the sweep.
ToCreate == LET k == config.max - (ExistingPoolSize - Cardinality(Gone)) IN IF k > 0 THEN k ELSE 0

Id(k) == (nextId + k) % IdLimit

\* The k-th guest this pass creates: its domain is defined and not yet booted.
Created(k) == [NoGuest EXCEPT !.id = Id(k - 1), !.st = "created"]

\* The list after the sweep and n creations: the guests that are kept, in their
\* order, and then the new ones in free slots.
Repopulate(n) ==
    LET kept == Listed \ Gone
        k == Cardinality(kept)
    IN  \E list \in [1 .. k + n -> Slots] :
        /\ IsInjective(list)
        /\ {list[i] : i \in 1 .. k} = kept
        /\ \A i, j \in 1 .. k : i < j => Before(list[i], list[j])
        /\ guests' = list
        /\ guest' = [d \in Slots |->
               IF d \in kept THEN [guest[d] EXCEPT !.st = AfterSweep(d)]
               ELSE IF \E i \in 1 .. n : list[k + i] = d
               THEN Created(CHOOSE i \in 1 .. n : list[k + i] = d)
               ELSE NoGuest]
        /\ nextId' = Id(n)
        /\ session' = [s \in Sessions |-> IF session[s].dom \in Gone
                                           THEN [session[s] EXCEPT !.dom = None] ELSE session[s]]

\* A pass is due: the thread's first one, or the scheduled call on the reactor.
PassDue == loop.pc = "first" \/ (loop.pc = "idle" /\ call = "pending")

\* mark_timed_out, destroy_timed_out, check_health, remove_destroyed and
\* create_guests, which creates nothing while the backend is not ready. Only
\* the reactor changes what they read, and the first pass finds no guest.
Pass ==
    /\ PassDue
    /\ Repopulate(IF ready THEN ToCreate ELSE 0)
    /\ loop' = [loop EXCEPT !.pc = "mark"]
    /\ call' = IF loop.thread THEN call ELSE "spent"
    /\ UNCHANGED <<anyUp, ready, config, bindings, mixed, visits, recycles, faults>>

\* No snapshot, no domain or no free address: the exception ends the loop.
PassRaises ==
    /\ PassDue /\ ready
    /\ faults < Faults /\ faults' = faults + 1
    /\ \E n \in 0 .. ToCreate - 1 : Repopulate(n)
    /\ loop' = [pc |-> "dead", thread |-> FALSE]
    /\ call' = IF loop.thread THEN call ELSE "spent"
    /\ UNCHANGED <<anyUp, ready, config, bindings, mixed, visits, recycles>>

\* mark_available.
MarkAvailable ==
    /\ loop.pc = "mark"
    /\ LET booted == {d \in Listed : guest[d].st = "created" /\ HasConnectivity(d)}
       IN  /\ guest' = [d \in Slots |-> IF d \in booted THEN [guest[d] EXCEPT !.st = "available"] ELSE guest[d]]
           /\ anyUp' = (anyUp \/ booted # {})
    /\ loop' = [loop EXCEPT !.pc = "end"]
    /\ UNCHANGED <<guests, nextId, ready, call, config, bindings, session, mixed, visits, recycles, faults>>

\* The next pass is scheduled.
EndPass ==
    /\ loop.pc = "end"
    /\ loop' = [pc |-> "idle", thread |-> FALSE]
    /\ call' = "pending"
    /\ UNCHANGED <<guests, guest, nextId, anyUp, ready, config, bindings, session, mixed, visits, recycles, faults>>

Producer == Pass \/ MarkAvailable \/ EndPass

-----------------------------------------------------------------------------
(***************************************************************************)
(* The guests themselves and the clock.                                    *)
(***************************************************************************)
Boots(d) ==
    /\ d \in Listed /\ guest[d].st = "created" /\ ~guest[d].up /\ ready
    /\ guest' = [guest EXCEPT ![d].up = TRUE]
    /\ UNCHANGED <<guests, nextId, anyUp, ready, loop, call, config, bindings, session, mixed, visits, recycles, faults>>

LosesConnectivity(d) ==
    /\ d \in Listed /\ guest[d].up
    /\ faults < Faults /\ faults' = faults + 1
    /\ guest' = [guest EXCEPT ![d].up = FALSE]
    /\ UNCHANGED <<guests, nextId, anyUp, ready, loop, call, config, bindings, session, mixed, visits, recycles>>

\* vm_unused_timeout has passed since the guest was last freed.
Expires(d) ==
    /\ d \in Listed /\ guest[d].st = "used" /\ ~guest[d].expired
    /\ guest' = [guest EXCEPT ![d].expired = TRUE]
    /\ UNCHANGED <<guests, nextId, anyUp, ready, loop, call, config, bindings, session, mixed, visits, recycles, faults>>

-----------------------------------------------------------------------------
(***************************************************************************)
(* Stopping and starting. stop_pool cancels the next pass, destroys every  *)
(* domain and keeps the list.                                              *)
(***************************************************************************)
\* free_all, on a remote pool.
FreeAll == IF UseNat THEN [i \in Ids |-> 0] ELSE bindings

DestroyAll == [d \in Slots |-> [guest[d] EXCEPT !.up = FALSE]]

StopPool ==
    /\ ready' = FALSE
    /\ bindings' = FreeAll
    /\ guest' = DestroyAll
    /\ call' = IF call = "pending" THEN "spent" ELSE call

\* restart_pool, when recycle_period is over: longer than the first pass takes,
\* which has ended or died.
Recycle ==
    /\ recycles < Recycles /\ recycles' = recycles + 1
    /\ loop.pc \in {"idle", "dead"} /\ call # "spent"
    /\ bindings' = FreeAll
    /\ guests' = <<>>
    /\ guest' = [d \in Slots |-> NoGuest]
    /\ session' = [s \in Sessions |-> [session[s] EXCEPT !.dom = None]]
    /\ nextId' = 0
    /\ anyUp' = FALSE
    /\ ready' = TRUE
    /\ call' = "spent"
    /\ loop' = [pc |-> "first", thread |-> TRUE]
    /\ UNCHANGED <<config, mixed, visits, faults>>

\* stop_pool raises as it cancels a call that has run or was cancelled before:
\* nothing is stopped, started or scheduled again.
RecycleRaises ==
    /\ recycles < Recycles /\ recycles' = recycles + 1
    /\ loop.pc \in {"idle", "dead"} /\ call = "spent"
    /\ UNCHANGED <<poolVars, session, mixed, visits, faults>>

-----------------------------------------------------------------------------
(***************************************************************************)
(* The pool server.                                                        *)
(***************************************************************************)
\* Operation i: the proxy's master connection sends its configuration.
Initialise ==
    /\ ReactorFree
    /\ ~config.initialised
    /\ config' = [max |-> MaxVm, share |-> Share, initialised |-> TRUE]
    /\ UNCHANGED <<guests, guest, nextId, anyUp, ready, loop, call, bindings, session, mixed, visits, recycles, faults>>

GuestOfIp(ip) == FirstOf({d \in GuestStates({"used", "using"}) : ip \in guest[d].ips})
AvailableGuest == FirstOf(GuestStates({"available"}))
AnyGuest ==
    LET held == GuestStates({"using", "used"})
    IN  FirstOf({d \in held : \A e \in held : guest[d].connected <= guest[e].connected})

\* The guest request_vm picks for an address, None when it finds none.
Choice(ip) ==
    CASE GuestOfIp(ip) # None -> GuestOfIp(ip)
      [] GuestOfIp(ip) = None /\ AvailableGuest # None -> AvailableGuest
      [] GuestOfIp(ip) = None /\ AvailableGuest = None /\ config.share -> AnyGuest
      [] OTHER -> None

\* A reply reaches a client that has not closed its connection.
Reply(s, answer) ==
    [session EXCEPT ![s].req = FALSE, ![s].pool = IF @ = "asked" THEN answer ELSE @]

RequestBinding(i) == IF UseNat THEN [bindings EXCEPT ![i] = @ + 1] ELSE bindings

\* Operation r with a guest: request_vm and request_binding.
Grant(s) ==
    /\ ReactorFree /\ session[s].req
    /\ Choice(Src[s]) # None
    /\ LET d == Choice(Src[s])
       IN  /\ guest' = [guest EXCEPT ![d].prev = guest[d].st, ![d].st = "using",
                                     ![d].connected = @ + 1, ![d].ips = @ \cup {Src[s]}]
           /\ bindings' = RequestBinding(guest[d].id)
           /\ session' = [Reply(s, "granted") EXCEPT ![s].dom = d, ![s].vm = guest[d].id]
    /\ UNCHANGED <<guests, nextId, anyUp, ready, loop, call, config, mixed, visits, recycles, faults>>

\* No guest: when one was ever up the pool is stopped first. stop_pool raises
\* when the call it cancels has run or was cancelled before.
Deny(s) ==
    /\ ReactorFree /\ session[s].req
    /\ Choice(Src[s]) = None
    /\ \/ /\ ~anyUp
          /\ session' = Reply(s, "denied")
          /\ UNCHANGED <<guest, ready, bindings, call>>
       \/ /\ anyUp /\ call = "spent"
          /\ session' = Reply(s, "dropped")
          /\ UNCHANGED <<guest, ready, bindings, call>>
       \/ /\ anyUp /\ call # "spent"
          /\ StopPool
          /\ session' = Reply(s, "denied")
    /\ UNCHANGED <<guests, nextId, anyUp, loop, config, mixed, visits, recycles, faults>>

\* The first guest of the list with this id, whoever it was handed to.
GuestOfId(i) == FirstOf({d \in Listed : guest[d].id = i})

\* A faulty variant: the count is not touched when the guest goes back unused.
FreedUncounted(d, op) ==
    IF op = "f" THEN [guest[d] EXCEPT !.expired = FALSE, !.connected = @ - 1,
                                      !.st = IF guest[d].connected = 1 THEN "used" ELSE @]
    ELSE [guest[d] EXCEPT !.st = IF guest[d].connected = 1 THEN guest[d].prev ELSE @]

\* A faulty variant: a guest given back unused is available, whoever had it too.
FreedAvailable(d, op) ==
    LET last == guest[d].connected = 1
    IN  IF op = "f"
        THEN [guest[d] EXCEPT !.expired = FALSE, !.connected = @ - 1, !.st = IF last THEN "used" ELSE @]
        ELSE [guest[d] EXCEPT !.connected = @ - 1, !.st = IF last THEN "available" ELSE @,
                              !.prev = IF last THEN None ELSE @]

\* free_vm after a login, reuse_vm when nobody logged in.
Freed(d, op) ==
    LET last == guest[d].connected = 1
    IN  IF op = "f"
        THEN [guest[d] EXCEPT !.expired = FALSE, !.connected = @ - 1, !.st = IF last THEN "used" ELSE @]
        ELSE [guest[d] EXCEPT !.connected = @ - 1, !.st = IF last THEN guest[d].prev ELSE @,
                              !.prev = IF last THEN None ELSE @]

FreeBinding(i) == IF UseNat THEN [bindings EXCEPT ![i] = @ - 1] ELSE bindings

\* Operations f and u. free_binding raises for an id without binding, and the
\* guest is then not freed.
ServeFree(s) ==
    /\ ReactorFree /\ session[s].free # "none"
    /\ LET i == session[s].vm
           d == GuestOfId(i)
           raises == UseNat /\ bindings[i] = 0
       IN  /\ bindings' = IF raises THEN bindings ELSE FreeBinding(i)
           /\ guest' = IF raises \/ d = None THEN guest ELSE [guest EXCEPT ![d] = Freed(d, session[s].free)]
           /\ session' = [session EXCEPT ![s] = [NoSession EXCEPT !.front = "lost", !.dom = IF raises THEN session[s].dom ELSE None]]
           /\ mixed' = (mixed \/ (~raises /\ d # session[s].dom))
    /\ UNCHANGED <<guests, nextId, anyUp, ready, loop, call, config, visits, recycles, faults>>

-----------------------------------------------------------------------------
(***************************************************************************)
(* A frontend of the proxy and its pool client. What happens between the   *)
(* frontend and its guest is in the module of the proxy.                   *)
(***************************************************************************)
Session(s, upd) ==
    /\ ReactorFree
    /\ session' = [session EXCEPT ![s] = upd]
    /\ UNCHANGED <<poolVars, mixed, visits, recycles, faults>>

\* connectionMade, once the pool is initialised: the pool is dialled. The
\* attacker may have been here before.
Connect(s) ==
    /\ ReactorFree /\ config.initialised
    /\ session[s].front \in {"new", "lost"} /\ session[s] = [NoSession EXCEPT !.front = session[s].front]
    /\ visits < Visits /\ visits' = visits + 1
    /\ session' = [session EXCEPT ![s] = [NoSession EXCEPT !.front = "up", !.pool = "dialing"]]
    /\ UNCHANGED <<poolVars, mixed, recycles, faults>>

\* pool_connection_success, whether or not the frontend is still there.
PoolConnected(s) ==
    /\ session[s].pool = "dialing"
    /\ Session(s, [session[s] EXCEPT !.pool = "asked", !.req = TRUE])

\* The answer to r: the id of the guest, or an error code that closes the frontend.
ReceiveReply(s) ==
    \/ /\ session[s].pool = "granted"
       /\ Session(s, [session[s] EXCEPT !.pool = "ready"])
    \/ /\ session[s].pool = "denied"
       /\ Session(s, [session[s] EXCEPT !.pool = "open", !.front = IF @ = "up" THEN "closing" ELSE @])

\* authDone: the attacker's packets now go to the guest.
Authenticate(s) ==
    /\ ReactorFree
    /\ session[s].front = "up" /\ session[s].pool = "ready" /\ ~session[s].dirty
    /\ session[s].dom # None /\ guest[session[s].dom].up
    /\ session' = [session EXCEPT ![s].dirty = TRUE]
    /\ guest' = [guest EXCEPT ![session[s].dom].dirtied = @ \cup {Src[s]}]
    /\ UNCHANGED <<guests, nextId, anyUp, ready, loop, call, config, bindings, mixed, visits, recycles, faults>>

\* The frontend is gone and this operation, if any, is on its way to the pool.
Left(s, op) ==
    [NoSession EXCEPT !.front = "lost", !.dom = session[s].dom, !.req = session[s].req, !.free = op,
                      !.vm = IF op = "none" THEN None ELSE session[s].vm,
                      !.pool = IF session[s].pool = "dialing" THEN "dialing" ELSE "none"]

\* connectionLost: the guest is given back if its id has arrived, and the pool
\* connection closed if there is one; a reply on its way is lost.
FrontLost(s) ==
    /\ session[s].front \in {"up", "closing"}
    /\ Session(s, Left(s, IF session[s].pool # "ready" THEN "none" ELSE IF session[s].dirty THEN "f" ELSE "u"))

Next ==
    \/ Producer \/ PassRaises \/ Recycle \/ RecycleRaises \/ Initialise
    \/ \E d \in Slots : Boots(d) \/ LosesConnectivity(d) \/ Expires(d)
    \/ \E s \in Sessions :
         \/ Connect(s) \/ PoolConnected(s) \/ Grant(s) \/ Deny(s) \/ ServeFree(s)
         \/ ReceiveReply(s) \/ Authenticate(s) \/ FrontLost(s)

Spec == Init /\ [][Next]_vars

-----------------------------------------------------------------------------
(***************************************************************************)
(* Properties.                                                             *)
(***************************************************************************)
GuestObject ==
    [id : Ids, st : States, prev : States \cup {None}, connected : Int, ips : SUBSET Ips,
     expired : BOOLEAN, up : BOOLEAN, dirtied : SUBSET Ips]

SessionState ==
    [front : {"new", "up", "closing", "lost"},
     pool : {"none", "dialing", "asked", "granted", "denied", "dropped", "ready", "open"},
     req : BOOLEAN, free : {"none", "f", "u"}, vm : Ids \cup {None}, dom : Slots \cup {None}, dirty : BOOLEAN]

TypeOK ==
    /\ guests \in Seq(Slots) /\ IsInjective(guests)
    /\ guest \in [Slots -> GuestObject]
    /\ session \in [Sessions -> SessionState]
    /\ nextId \in Ids /\ anyUp \in BOOLEAN /\ ready \in BOOLEAN /\ mixed \in BOOLEAN
    /\ call \in {"none", "pending", "spent"}
    /\ config.max \in Nat
    /\ bindings \in [Ids -> Nat]

Holders(d) == {s \in Sessions : session[s].dom = d}

\* connected is the number of sessions a guest was handed to and that have not
\* given it back, through shared guests, lost frontends and recycling, until a
\* release first hits another guest than its own (ids start again after
\* IdLimit guests and after recycling).
ConnectedIsHolders ==
    ~mixed => \A d \in Listed : guest[d].connected = Cardinality(Holders(d))

\* While the pool runs, the NAT ports of a guest stay open as long as a session
\* it was handed to has not given it back: free_binding of one session never
\* closes the listeners under another.
NatOpenForHolders ==
    UseNat /\ ready /\ ~mixed =>
        \A d \in Listed : bindings[guest[d].id] >= Cardinality(Holders(d))

\* A guest that is available, and so may be given to an attacker it has not met,
\* was never logged in to: however the releases of sessions that shared it
\* follow each other, reuse_vm does not make a used guest available again.
AvailableIsPristine ==
    ~mixed => \A d \in Listed : guest[d].st = "available" => guest[d].dirtied = {}

\* The producer never takes a guest that answers away from an attacker who is
\* connected to it: only guests without clients time out. Recycling and the
\* stop for want of guests take every guest.
InUseNotReclaimed ==
    [][\A d \in Listed :
         /\ guest[d].up /\ ~mixed' /\ ready /\ ready' /\ recycles' = recycles
         /\ \E s \in Holders(d) : session[s].front = "up" /\ session[s].pool = "ready"
         => guest'[d].st = "using" /\ \E i \in DOMAIN guests' : guests'[i] = d]_vars
\* The books of the pool: clients and NAT bindings are counted as guests are
\* handed out and given back.
PoolInv == TypeOK /\ ConnectedIsHolders /\ NatOpenForHolders
=============================================================================
