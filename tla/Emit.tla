-------------------------------- MODULE Emit --------------------------------
(***************************************************************************)
(* How the events of Cowrie reach an output plugin (core/output.py), and   *)
(* the plugin that gathers them by session, MISP.  An event carries a      *)
(* session number (logDispatch), a session id (results that come later) or *)
(* the log prefix of its transport; the plugin maps numbers to sessions    *)
(* between the connect and the closed event.                               *)
(*                                                                         *)
(* Numbers count per listening port.  The letter of the protocol keeps an  *)
(* SSH and a Telnet session of one number apart, but not two sessions of   *)
(* two SSH endpoints: the later of them takes the entry over.  Of an event *)
(* only its kind is kept: a command stands for every activity that needs   *)
(* no answer of MISP (a login that succeeds too), a file for downloads and *)
(* uploads.                                                                *)
(***************************************************************************)
EXTENDS Naturals, Sequences, FiniteSets

CONSTANTS Sessions,   \* the sessions of the honeypot
          Port,       \* [Sessions -> {"S", "T"}]: the protocol a session came in by
          Number,     \* [Sessions -> Nat]: transport.sessionno
          MaxEvents   \* [Sessions -> Nat]: bound on the events of a session after its connect

ASSUME EmitAssumption ==
    /\ Port \in [Sessions -> {"S", "T"}] /\ Number \in [Sessions -> Nat]
    /\ MaxEvents \in [Sessions -> Nat]

VARIABLES life,      \* the transports: "new", "open", "closed"
          sent,      \* events a session logged between connect and closed
          late,      \* results that came when it was closed
          sessions,  \* self.sessions (and self.ips), from session numbers
          seen,      \* what write() was called with, by the session in the event
          tracking,  \* session_tracking of the MISP plugin
          misp,      \* events MISP holds, by session
          stopped,   \* was stop() called?
          faults,    \* sessions a call to MISP raised for (history)
          took,      \* <<s, r>>: r took the key of s over (history)
          mixed      \* sessions that were open together with one of the same key (history)

emitVars == <<life, sent, late, sessions, seen, tracking, misp, stopped, faults, took, mixed>>

Activity == {"command", "file"}
Kinds == Activity \cup {"failed"}

EmitInit == /\ life = [s \in Sessions |-> "new"] /\ sent = [s \in Sessions |-> <<>>]
            /\ late = [s \in Sessions |-> 0]
            /\ sessions = <<>> /\ seen = [s \in Sessions |-> <<>>]
            /\ tracking = <<>> /\ misp = [s \in Sessions |-> <<>>]
            /\ stopped = FALSE /\ faults = {} /\ took = {} /\ mixed = {}

Key(s) == <<Port[s], Number[s]>>

(* The session an event is filed under, by number or by its own id; it is   *)
(* lost when no entry has the id (emit() returns) or there is no entry of   *)
(* the number (it raises KeyError).                                         *)
Filed(s, via) == IF via = "session" THEN s ELSE sessions[Key(s)]
Accepted(s, via) == IF via = "session" THEN \E k \in DOMAIN sessions : sessions[k] = s
                    ELSE Key(s) \in DOMAIN sessions

Set(f, k, v) == [x \in DOMAIN f \cup {k} |-> IF x = k THEN v ELSE f[x]]
Unset(f, k) == [x \in DOMAIN f \ {k} |-> f[x]]

(***************************************************************************)
(* MISP: what a session did is gathered; the event is made when the        *)
(* session closes, or when the plugin stops.                               *)
(***************************************************************************)
Track(r) == IF r \in DOMAIN tracking THEN tracking[r]
            ELSE [did |-> <<>>, created |-> FALSE]

Due(d) == ~d.created /\ \E i \in DOMAIN d.did : d.did[i] \in Activity

CreateSessionEvent(ev, r, d) == [ev EXCEPT ![r] = Append(@, d.did)]

(* write() of one event.  Files are looked up in MISP; a call may raise,    *)
(* after the event was noted, and whether or not MISP carried it out.       *)
MispWriteUnmarked(r, kind, raises) ==
    LET d == [Track(r) EXCEPT !.did = IF kind \in Kinds THEN Append(@, kind) ELSE @]
    IN /\ ~raises
       /\ tracking' = Set(tracking, r, d)
       /\ misp' = IF kind = "closed" /\ Due(d) THEN CreateSessionEvent(misp, r, d) ELSE misp

MispWrite(r, kind, raises) ==
    LET d == [Track(r) EXCEPT !.did = IF kind \in Kinds THEN Append(@, kind) ELSE @]
        due == kind = "closed" /\ Due(d)
    IN /\ raises => due \/ kind = "file"
       /\ tracking' = Set(tracking, r, [d EXCEPT !.created = @ \/ (due /\ ~raises)])
       /\ \/ due /\ misp' = CreateSessionEvent(misp, r, d)
          \/ (due => raises) /\ UNCHANGED misp

Write(s, r, kind, raises) ==
    /\ MispWrite(r, kind, raises)
    /\ seen' = [seen EXCEPT ![r] = Append(@, [of |-> s, kind |-> kind])]
    /\ faults' = IF raises THEN faults \cup {r} ELSE faults

(***************************************************************************)
(* emit().                                                                 *)
(***************************************************************************)
Connect(s) ==
    /\ ~stopped
    /\ life[s] = "new" /\ life' = [life EXCEPT ![s] = "open"]
    /\ sessions' = Set(sessions, Key(s), s)
    /\ Write(s, s, "connect", FALSE)
    /\ LET twins == {r \in Sessions : r # s /\ life[r] # "new" /\ Key(r) = Key(s)}
           beside == {r \in twins : life[r] = "open"}
       IN /\ took' = took \cup {<<r, s>> : r \in twins}
          /\ mixed' = mixed \cup beside \cup {r \in {s} : beside # {}}
    /\ UNCHANGED <<sent, late, stopped>>

Event(s, kind, via, raises) ==
    /\ life[s] = "open" /\ Len(sent[s]) < MaxEvents[s]
    /\ sent' = [sent EXCEPT ![s] = Append(@, kind)]
    /\ IF Accepted(s, via) THEN Write(s, Filed(s, via), kind, raises)
       ELSE UNCHANGED <<tracking, misp, seen, faults>>
    /\ UNCHANGED <<life, late, sessions, stopped, took, mixed>>

(* The result of a lookup that comes when the session is gone. *)
Late(s, via) ==
    /\ life[s] = "closed" /\ Len(sent[s]) + late[s] < MaxEvents[s]
    /\ late' = [late EXCEPT ![s] = @ + 1]
    /\ IF Accepted(s, via) THEN Write(s, Filed(s, via), "late", FALSE)
       ELSE UNCHANGED <<tracking, misp, seen, faults>>
    /\ UNCHANGED <<life, sent, sessions, stopped, took, mixed>>

(* The entry is removed after write(), which does not happen when it raises. *)
Closed(s, raises) ==
    /\ life[s] = "open" /\ life' = [life EXCEPT ![s] = "closed"]
    /\ IF Accepted(s, "number")
       THEN /\ Write(s, Filed(s, "number"), "closed", raises)
            /\ sessions' = IF raises THEN sessions ELSE Unset(sessions, Key(s))
       ELSE UNCHANGED <<sessions, tracking, misp, seen, faults>>
    /\ UNCHANGED <<sent, late, stopped, took, mixed>>

(* stop(), before the reactor closes the connections.  It does not note that *)
(* it made an event, and a call that raises leaves the rest without one.     *)
Stop ==
    /\ ~stopped /\ stopped' = TRUE
    /\ LET due == {r \in DOMAIN tracking : Due(tracking[r])}
       IN \E made \in SUBSET due :
            /\ misp' = [r \in Sessions |-> IF r \in made THEN Append(misp[r], tracking[r].did)
                                           ELSE misp[r]]
            /\ faults' = faults \cup (due \ made)
    /\ UNCHANGED <<life, sent, late, sessions, seen, tracking, took, mixed>>

EmitNext == \/ \E s \in Sessions, via \in {"number", "session"}, raises \in BOOLEAN :
                 \E kind \in Kinds : Event(s, kind, via, raises)
            \/ \E s \in Sessions, via \in {"number", "session"} : Late(s, via)
            \/ \E s \in Sessions, raises \in BOOLEAN : Closed(s, raises)
            \/ \E s \in Sessions : Connect(s)
            \/ Stop

EmitSpec == EmitInit /\ [][EmitNext]_emitVars

-----------------------------------------------------------------------------
EmitTypeOK == /\ life \in [Sessions -> {"new", "open", "closed"}]
              /\ \A k \in DOMAIN sessions : sessions[k] \in Sessions
              /\ DOMAIN tracking \subseteq Sessions
              /\ \A s \in Sessions : Len(sent[s]) + late[s] <= MaxEvents[s]

(* An event is filed under the session it is of; it is under another one only *)
(* when that one came in later with the same protocol letter and number, by   *)
(* another endpoint, and so took the entry over (output.py emit).             *)
EventsKeepTheirSession ==
    \A r \in Sessions : \A i \in DOMAIN seen[r] :
        seen[r][i].of = r \/ <<seen[r][i].of, r>> \in took

(* A plugin sees the connect event of a session first and nothing after its   *)
(* closed event, whatever is logged late and however sessions share a number, *)
(* unless its write() raised for the session, which may leave it in           *)
(* self.sessions (output.py emit).                                            *)
SessionIsBracketed ==
    \A r \in Sessions : \A i \in DOMAIN seen[r] :
        /\ (seen[r][i].kind = "connect") <=> (i = 1)
        /\ seen[r][i].kind = "closed" => i = Len(seen[r]) \/ r \in faults

(* MISP gets at most one event of a session that closes and at most one that  *)
(* stop() makes.  It gets both only when stop() made its event first, which   *)
(* it does not note, or when a call raised: MISP may have the event then and  *)
(* it is not noted (misp.py write, stop).                                     *)
OneMispEvent ==
    \A s \in Sessions :
        /\ s \notin faults \cap mixed => Len(misp[s]) <= IF stopped THEN 2 ELSE 1
        /\ s \notin faults /\ Len(misp[s]) = 2 => tracking[s].created

(* A session that closed and did something is in MISP with all it did, unless *)
(* a call to MISP raised for it or another session had its number while it    *)
(* was open (misp.py write, create_session_event).                            *)
MispHasSession ==
    \A s \in Sessions \ (faults \cup mixed) :
        life[s] = "closed" /\ (\E i \in DOMAIN sent[s] : sent[s][i] \in Activity) =>
            \E i \in DOMAIN misp[s] : misp[s][i] = sent[s]

(* Sessions and their events stay together, in self.sessions and in MISP. *)
EmitInv == EmitTypeOK /\ EventsKeepTheirSession /\ SessionIsBracketed /\ OneMispEvent /\ MispHasSession
=============================================================================
