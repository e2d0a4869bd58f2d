------------------------------- MODULE Proxy -------------------------------
(***************************************************************************)
(* Cowrie's proxies: one connection of an attacker (the frontend), SSH or  *)
(* Telnet, and the connection the proxy opens to a guest for it (the       *)
(* backend). The SSH proxy logs the attacker in itself, holds his packets  *)
(* until the backend is secure and then rewrites channel traffic both      *)
(* ways; the Telnet proxy watches prompts and swaps the credentials.       *)
(***************************************************************************)
EXTENDS Naturals, Sequences, FiniteSets, SequencesExt

CONSTANTS
    Chans,      \* channel numbers of an attacker, and of the guest's sshd
    Forwarding, \* ssh forwarding
    SftpOn,     \* ssh sftp_enabled
    Packets,    \* bound: packets an attacker sends
    Replies,    \* bound: packets the guest sends of its own accord
    Attempts,   \* bound: login attempts of an SSH attacker
    None

ASSUME ProxyAssumption ==
    /\ Chans \subseteq Nat /\ IsFiniteSet(Chans) /\ None \notin Chans
    /\ None \notin {"shell", "exec", "pending", "no session", "unknown"}
    /\ {Forwarding, SftpOn} \subseteq BOOLEAN
    /\ Packets \in Nat /\ Replies \in Nat /\ Attempts \in Nat \ {0}

VARIABLES
    kind,    \* "ssh" or "telnet"
    front,   \* the frontend's transport: "up", "closing" or "lost"
    back,    \* the backend's: "dialing", "up", "secure", "closing", "lost" or "refused"
    timer,   \* the frontend's timeout is set
    freed,   \* how the guest was given back: "none", "u" (clean) or "f" (used)
    late,    \* the backend came up after the frontend was lost (history)
    sent,    \* packets received from the attacker
    replies, \* packets the guest sent of its own accord
    toHost,  \* bytes on their way to the guest
    toProxy, \* bytes on their way back
    ssh,     \* the SSH proxy
    att,     \* the SSH attacker: channel -> what he knows of it
    host,    \* the guest's sshd: channel -> its state
    tel,     \* the Telnet proxy
    shell    \* the guest's telnetd

ends == <<kind, front, back, timer, freed, late>>
vars == <<ends, sent, replies, toHost, toProxy, ssh, att, host, tel, shell>>

NoChannel == [st |-> "free", peer |-> None]
NoTelnet == [buffer |-> <<>>, login |-> FALSE, password |-> FALSE, echo |-> FALSE, authDone |-> FALSE,
             log |-> "open", ahead |-> FALSE, accepted |-> FALSE]

\* auth, connected, delayed: the frontend's frontendAuthenticated,
\* backendConnected and delayedPackets; authDone and held: the backend's
\* authDone and delayedPackets; chs: the parser's channels. handled: packets
\* parsed; tried, login: attempts made and the last one, entered: one succeeded;
\* logs, orphans:
\* tty logs open, and those whose channel got another session; raised: why the
\* parser raised (history).
NoSsh == [auth |-> FALSE, connected |-> FALSE, delayed |-> <<>>, authDone |-> FALSE, held |-> <<>>,
          chs |-> <<>>, handled |-> 0, tried |-> 0, login |-> "none", entered |-> FALSE, logs |-> 0, orphans |-> 0,
          raised |-> None]

Init ==
    /\ kind \in {"ssh", "telnet"}
    /\ front = "up" /\ back = "dialing" /\ timer = FALSE
    /\ freed = "none" /\ late = FALSE
    /\ sent = 0 /\ replies = 0 /\ toHost = <<>> /\ toProxy = <<>>
    /\ ssh = NoSsh
    /\ att = [c \in Chans |-> NoChannel]
    /\ host = [c \in Chans |-> NoChannel]
    /\ tel = NoTelnet
    /\ shell = [st |-> "boot", user |-> None]

-----------------------------------------------------------------------------
(***************************************************************************)
(* What the attacker learns from packets that reach him. His numbers are   *)
(* free again when both sides have closed a channel.                       *)
(***************************************************************************)
Learn(a, p) ==
    CASE p.t = "confirm" -> [a EXCEPT ![p.ch] = [st |-> "open", peer |-> p.from]]
      [] p.t = "failure" -> [a EXCEPT ![p.ch] = NoChannel]
      [] p.t = "close" -> [a EXCEPT ![p.ch] = IF @.st = "closed" THEN NoChannel ELSE [@ EXCEPT !.st = "peer closed"]]
      [] OTHER -> a

Refused(a, p) == IF p.t = "open" THEN [a EXCEPT ![p.ch] = NoChannel] ELSE a

-----------------------------------------------------------------------------
(***************************************************************************)
(* The SSH packet parser. A side is "SERVER" for packets of the attacker   *)
(* and "CLIENT" for packets of the guest.                                  *)
(***************************************************************************)
Closing(t) == IF t \in {"up", "secure"} THEN "closing" ELSE t

\* The number a side addresses a channel by, None while it is not known: the
\* attacker uses the guest's number (clientID), the guest the attacker's.
Search(ch, side) == IF side = "CLIENT" THEN ch.serverID ELSE ch.clientID

\* get_channel: the list is read up to the match, and a channel without the
\* number that is searched for raises.
GetChannel(chs, side, n) ==
    LET hits == {i \in DOMAIN chs : Search(chs[i], side) \in {n, None}}
        i == IF hits = {} THEN 0 ELSE CHOOSE k \in hits : \A l \in hits : k <= l
    IN  CASE i = 0 -> [at |-> 0, raised |-> "unknown"]
          [] i # 0 /\ Search(chs[i], side) = None -> [at |-> 0, raised |-> "pending"]
          [] OTHER -> [at |-> i, raised |-> None]

CreateChannel(side, n, ses) ==
    [serverID |-> IF side = "SERVER" THEN n ELSE None, clientID |-> IF side = "CLIENT" THEN n ELSE None,
     ses |-> ses, closed |-> {}]

HasLog(ses) == ses \in {"shell", "exec"}

\* Result of a packet on parser state x: passed on, answered or dropped.
Pass(x) == [x EXCEPT !.out = "pass"]
Answer(x) == [x EXCEPT !.out = "answer"]

ParseOpen(x, side, p) ==
    IF p.what = "session" THEN Pass([x EXCEPT !.chs = Append(@, CreateChannel(side, p.ch, None)), !.timer = TRUE])
    ELSE IF Forwarding THEN Pass([x EXCEPT !.chs = Append(@, CreateChannel(side, p.ch, "forward"))])
    ELSE Answer(x)

\* A shell or a command opens a tty log; SFTP may be disabled. The session a
\* channel had before is dropped as it is.
ParseRequest(x, i, p) ==
    CASE p.what = "sftp" /\ ~SftpOn -> Answer(x)
      [] p.what \in {"shell", "exec", "sftp"} /\ (SftpOn \/ p.what # "sftp") ->
           Pass([x EXCEPT !.chs[i].ses = p.what,
                          !.logs = IF HasLog(p.what) THEN @ + 1 ELSE @,
                          !.orphans = IF HasLog(x.chs[i].ses) THEN @ + 1 ELSE @])
      [] OTHER -> Pass(x)

\* channel_closed: a shell's or a command's tty log is closed and filed.
ChannelClosed(x, i) == [x EXCEPT !.chs = RemoveAt(@, i), !.logs = IF HasLog(x.chs[i].ses) THEN @ - 1 ELSE @]

\* The channel is removed, and its session closed, when both sides have closed it.
ParseClose(x, i, side) ==
    IF x.chs[i].closed \cup {side} # {"SERVER", "CLIENT"}
    THEN Pass([x EXCEPT !.chs[i].closed = @ \cup {side}])
    ELSE Pass(ChannelClosed(x, i))

ParseConfirmation(x, i, side, p) ==
    Pass(IF side = "SERVER" THEN [x EXCEPT !.chs[i].serverID = p.from] ELSE [x EXCEPT !.chs[i].clientID = p.from])

ParseData(x, i) == IF x.chs[i].ses = None THEN [x EXCEPT !.raised = "no session"] ELSE Pass(x)

\* parse_num_packet.
Parse(x, side, p) ==
    IF p.t = "open" THEN ParseOpen(x, side, p)
    ELSE LET g == GetChannel(x.chs, side, p.ch)
             i == g.at
         IN  IF i = 0 THEN [x EXCEPT !.raised = g.raised]
             ELSE CASE p.t = "confirm" -> ParseConfirmation(x, i, side, p)
                    [] p.t = "failure" -> Pass([x EXCEPT !.chs = RemoveAt(@, i)])
                    [] p.t = "request" -> ParseRequest(x, i, p)
                    [] p.t = "data" -> ParseData(x, i)
                    [] p.t = "close" -> ParseClose(x, i, side)

Parser == [chs |-> ssh.chs, logs |-> ssh.logs, orphans |-> ssh.orphans, timer |-> timer,
           raised |-> ssh.raised, out |-> "drop"]

\* A packet that is passed on to the attacker, or that the proxy answers, he
\* sees at once.
Reaches(a, side, p, out) ==
    CASE out = "answer" -> Refused(a, p)
      [] out = "pass" /\ side = "CLIENT" -> Learn(a, p)
      [] OTHER -> a

\* A packet after what came before it: parser state x, the packets passed on
\* and what the attacker knows. Nothing is parsed after one that raises.
ParseNext(r, side, p) ==
    LET y == Parse(r.x, side, p)
    IN  IF r.x.raised # None THEN r
        ELSE IF y.raised # None THEN [r EXCEPT !.x = y]
        ELSE [x |-> y, pass |-> IF y.out = "pass" THEN Append(r.pass, p) ELSE r.pass,
              att |-> Reaches(r.att, side, p, y.out)]

\* Parsing packets in order.
ParseAll(side, a, q) ==
    LET parsed[n \in 0 .. Len(q)] ==
            IF n = 0 THEN [x |-> Parser, pass |-> <<>>, att |-> a]
            ELSE ParseNext(parsed[n - 1], side, q[n])
    IN  parsed[Len(q)]

Parsed(r, s) == [s EXCEPT !.chs = r.x.chs, !.logs = r.x.logs, !.orphans = r.x.orphans, !.raised = r.x.raised]

-----------------------------------------------------------------------------

\* A faulty variant: the delayed packets are sent and kept.
AuthenticateBackendKeeping(s, secure) ==
    IF ~s.auth \/ ~secure THEN
        /\ ssh' = s /\ UNCHANGED <<toHost, timer, front, att>>
    ELSE LET r == ParseAll("SERVER", att, s.delayed) IN
        /\ toHost' = toHost \o <<[t |-> "auth"]>> \o r.pass
        /\ ssh' = [Parsed(r, s) EXCEPT !.connected = TRUE, !.authDone = TRUE, !.handled = @ + Len(s.delayed)]
        /\ UNCHANGED <<timer, front, att>>

\* authenticateBackend, once the attacker is in and the backend secure: the
\* login and then the delayed packets go to the guest.
AuthenticateBackend(s, secure) ==
    IF ~s.auth \/ ~secure THEN
        /\ ssh' = s /\ UNCHANGED <<toHost, timer, front, att>>
    ELSE LET r == ParseAll("SERVER", att, s.delayed) IN
        /\ toHost' = toHost \o <<[t |-> "auth"]>> \o r.pass
        /\ timer' = r.x.timer
        /\ att' = r.att
        /\ front' = IF r.x.raised = None THEN front ELSE Closing(front)
        /\ ssh' = IF r.x.raised # None THEN [Parsed(r, s) EXCEPT !.connected = TRUE]
                  ELSE [Parsed(r, s) EXCEPT !.connected = TRUE, !.delayed = <<>>, !.authDone = TRUE,
                                            !.handled = @ + Len(s.delayed)]

\* Userauth: the attempt is under way, frontendAuthenticated reset.
AuthRequest ==
    /\ kind = "ssh" /\ front = "up" /\ ssh.login # "asked" /\ ssh.tried < Attempts
    /\ ssh' = [ssh EXCEPT !.auth = FALSE, !.login = "asked", !.tried = @ + 1]
    /\ UNCHANGED <<ends, sent, replies, toHost, toProxy, att, host, tel, shell>>

AuthFails ==
    /\ kind = "ssh" /\ front = "up" /\ ssh.login = "asked"
    /\ ssh' = [ssh EXCEPT !.login = "failed"]
    /\ UNCHANGED <<ends, sent, replies, toHost, toProxy, att, host, tel, shell>>

\* _cbFinishedAuth.
FinishedAuth ==
    /\ kind = "ssh" /\ front = "up" /\ ssh.login = "asked"
    /\ AuthenticateBackend([ssh EXCEPT !.login = "done", !.entered = TRUE, !.auth = TRUE], back = "secure")
    /\ UNCHANGED <<kind, back, freed, late, sent, replies, toProxy, host, tel, shell>>

\* dispatchMessage, packet_buffer: a packet of the attacker is delayed or parsed,
\* whether he has logged in or not (the connection being encrypted).
FrontPacket(p, a) ==
    /\ kind = "ssh" /\ front = "up" /\ sent < Packets
    /\ sent' = sent + 1
    /\ IF ~ssh.connected \/ ssh.delayed # <<>>
       THEN /\ ssh' = [ssh EXCEPT !.delayed = Append(@, p)]
            /\ att' = a
            /\ UNCHANGED <<toHost, timer, front>>
       ELSE LET r == ParseAll("SERVER", a, <<p>>)
            IN  /\ ssh' = [Parsed(r, ssh) EXCEPT !.handled = @ + 1]
                /\ toHost' = toHost \o r.pass
                /\ att' = r.att
                /\ timer' = r.x.timer
                /\ front' = IF r.x.raised = None THEN front ELSE "closing"
    /\ UNCHANGED <<kind, back, freed, late, replies, toProxy, host, tel, shell>>

\* What an attacker sends: n numbers his packets.
Packet(t, ch, what) == [t |-> t, ch |-> ch, what |-> what, from |-> None, n |-> sent + 1]

AttackerSends ==
    \E c \in Chans :
        \/ /\ att[c].st = "free"
           /\ \E what \in {"session", "tcpip"} :
                FrontPacket(Packet("open", c, what), [att EXCEPT ![c].st = "opening"])
        \/ /\ att[c].st = "open"
           /\ \/ \E what \in {"shell", "sftp", "other"} : FrontPacket(Packet("request", att[c].peer, what), att)
              \/ FrontPacket(Packet("data", att[c].peer, None), att)
              \/ FrontPacket(Packet("close", att[c].peer, None), [att EXCEPT ![c].st = "closed"])
        \/ /\ att[c].st = "peer closed"
           /\ FrontPacket(Packet("close", att[c].peer, None), [att EXCEPT ![c] = NoChannel])

-----------------------------------------------------------------------------
(***************************************************************************)
(* The backend's side of the SSH proxy.                                    *)
(***************************************************************************)
\* connectionSecure.
BackSecure ==
    /\ kind = "ssh" /\ back = "up"
    /\ back' = "secure"
    /\ AuthenticateBackend(ssh, TRUE)
    /\ UNCHANGED <<kind, freed, late, sent, replies, toProxy, host, tel, shell>>

\* packet_buffer: packets of the guest are held until the attacker is in, and
\* go out with the next one after that. Sending to a lost frontend raises.
BackPacket ==
    /\ kind = "ssh" /\ back = "secure" /\ toProxy # <<>>
    /\ toProxy' = Tail(toProxy)
    /\ IF ~ssh.auth
       THEN /\ ssh' = [ssh EXCEPT !.held = Append(@, Head(toProxy))]
            /\ UNCHANGED <<back, att, toHost, timer>>
       ELSE LET r == ParseAll("CLIENT", att, Append(ssh.held, Head(toProxy)))
                lost == front = "lost" /\ r.pass # <<>>
            IN  /\ ssh' = [Parsed(r, ssh) EXCEPT !.held = <<>>]
                /\ att' = IF front = "lost" THEN att ELSE r.att
                /\ back' = IF lost \/ r.x.raised # None THEN "closing" ELSE back
                /\ timer' = r.x.timer
                /\ UNCHANGED toHost
    /\ UNCHANGED <<kind, front, freed, late, sent, replies, host, tel, shell>>

-----------------------------------------------------------------------------
(***************************************************************************)
(* The guest's sshd. It confirms a session at once and a forwarded         *)
(* connection when its own connection is made, or not.                     *)
(***************************************************************************)
Reply(p) == toProxy' = IF back = "secure" THEN Append(toProxy, p) ELSE toProxy
FromHost(t, ch, from) == [t |-> t, ch |-> ch, what |-> None, from |-> from, n |-> 0]
FreeNumber == CHOOSE b \in Chans : host[b].st = "free" /\ \A c \in Chans : host[c].st = "free" => b <= c

SshdTakes ==
    /\ kind = "ssh" /\ toHost # <<>>
    /\ toHost' = Tail(toHost)
    /\ LET p == Head(toHost)
       IN  /\ shell' = IF p.t = "auth" THEN shell ELSE [shell EXCEPT !.st = "used"]
           /\ CASE p.t = "open" /\ p.what = "session" ->
                    /\ host' = [host EXCEPT ![FreeNumber] = [st |-> "open", peer |-> p.ch]]
                    /\ Reply(FromHost("confirm", p.ch, FreeNumber))
                [] p.t = "open" /\ p.what # "session" ->
                    /\ host' = [host EXCEPT ![FreeNumber] = [st |-> "connecting", peer |-> p.ch]]
                    /\ UNCHANGED toProxy
                [] p.t = "close" ->
                    /\ host' = [host EXCEPT ![p.ch] = NoChannel]
                    /\ IF host[p.ch].st = "open" THEN Reply(FromHost("close", host[p.ch].peer, None))
                       ELSE UNCHANGED toProxy
                [] OTHER -> UNCHANGED <<host, toProxy>>
    /\ UNCHANGED <<ends, sent, replies, ssh, att, tel>>

SshdSends(b) ==
    /\ kind = "ssh"
    /\ \/ /\ host[b].st = "connecting"
          /\ \/ /\ host' = [host EXCEPT ![b].st = "open"]
                /\ Reply(FromHost("confirm", host[b].peer, b))
             \/ /\ host' = [host EXCEPT ![b] = NoChannel]
                /\ Reply(FromHost("failure", host[b].peer, None))
          /\ UNCHANGED replies
       \/ /\ host[b].st = "open" /\ replies < Replies /\ replies' = replies + 1
          /\ \/ Reply(FromHost("data", host[b].peer, None)) /\ UNCHANGED host
             \/ Reply(FromHost("close", host[b].peer, None)) /\ host' = [host EXCEPT ![b].st = "closed"]
    /\ UNCHANGED <<ends, sent, toHost, ssh, att, tel, shell>>

-----------------------------------------------------------------------------
(***************************************************************************)
(* The Telnet handler. The attacker's lines are a name, a password the     *)
(* checker accepts ("right") or not, or a USER variable in a negotiation.  *)
(***************************************************************************)
\* sendBackend: lines wait for the backend, and leave with the next line.
SendBackend(t, line) ==
    IF back \in {"dialing", "refused"}
    THEN /\ tel' = [t EXCEPT !.buffer = Append(@, line)] /\ UNCHANGED toHost
    ELSE /\ tel' = [t EXCEPT !.buffer = <<>>]
         /\ toHost' = IF back = "up" THEN toHost \o Append(t.buffer, line) ELSE toHost

\* processPasswordInput.
ProcessPassword(t, line) ==
    IF ~t.password THEN [t |-> t, line |-> line]
    ELSE IF line = "right"
    THEN [t |-> [t EXCEPT !.password = FALSE, !.accepted = TRUE, !.authDone = TRUE], line |-> "backend password"]
    ELSE [t |-> [t EXCEPT !.password = FALSE], line |-> "fake"]

\* processUsernameInput: the line is echoed to the attacker.
ProcessUsername(r) ==
    IF ~r.t.login THEN r
    ELSE [t |-> [r.t EXCEPT !.login = FALSE, !.echo = TRUE], line |-> "backend user"]

\* setProcessingStateFrontend: a USER variable is replaced by the guest's.
Spoofed(line) == IF line = "env" THEN "backend user in env" ELSE line

\* addPacket from the frontend.
TelnetLine(line) ==
    /\ kind = "telnet" /\ front = "up" /\ sent < Packets
    /\ sent' = sent + 1
    /\ LET waited == tel.login # tel.password
           t == [tel EXCEPT !.ahead = @ \/ ~waited]
           r == ProcessUsername(ProcessPassword(t, line))
       IN  CASE tel.authDone -> SendBackend(tel, line) /\ UNCHANGED timer
             [] ~tel.authDone /\ line = "env" -> SendBackend(tel, Spoofed(line)) /\ UNCHANGED timer
             [] OTHER -> SendBackend(r.t, r.line) /\ timer' = (timer \/ r.t.authDone)
    /\ UNCHANGED <<kind, front, back, freed, late, replies, toProxy, ssh, att, host, shell>>

\* addPacket from the backend: prompts, until the login is done.
TelnetPrompt ==
    /\ kind = "telnet" /\ back = "up" /\ toProxy # <<>>
    /\ toProxy' = Tail(toProxy)
    /\ tel' = IF tel.authDone THEN tel
              ELSE [tel EXCEPT !.login = @ \/ Head(toProxy) = "login:", !.password = @ \/ Head(toProxy) = "password:",
                               !.echo = FALSE]
    /\ UNCHANGED <<ends, sent, replies, toHost, ssh, att, host, shell>>

\* The guest's telnetd: it prompts when it starts and after every line.
Prompt(p) == toProxy' = IF back = "up" THEN Append(toProxy, p) ELSE toProxy

Telnetd ==
    /\ kind = "telnet" /\ back \notin {"dialing", "refused"}
    /\ \/ /\ shell.st = "boot"
          /\ shell' = [shell EXCEPT !.st = "user"] /\ Prompt("login:") /\ UNCHANGED toHost
       \/ /\ toHost # <<>> /\ toHost' = Tail(toHost)
          /\ LET line == Head(toHost)
                 env == line = "backend user in env"
             IN  \/ /\ shell.st = "boot" /\ env
                    /\ shell' = [st |-> "pass", user |-> "backend user"] /\ Prompt("password:")
                 \/ /\ shell.st = "user" /\ ~env
                    /\ shell' = [st |-> "pass", user |-> line] /\ Prompt("password:")
                 \/ /\ shell.st = "pass" /\ ~env
                    /\ IF shell.user = "backend user" /\ line = "backend password"
                       THEN shell' = [shell EXCEPT !.st = "in"] /\ Prompt("$")
                       ELSE shell' = [st |-> "user", user |-> None] /\ Prompt("login:")
                 \/ /\ shell.st # "boot" /\ (env \/ shell.st = "in")
                    /\ UNCHANGED <<shell, toProxy>>
    /\ UNCHANGED <<ends, sent, replies, ssh, att, host, tel>>

-----------------------------------------------------------------------------
(***************************************************************************)
(* Both connections come and go.                                           *)
(***************************************************************************)
\* close: the Telnet log is closed and filed, once.
CloseLog == tel' = [tel EXCEPT !.log = "closed"]

\* A faulty variant: no timeout is set when the backend comes up.
BackUpUntimed ==
    /\ back = "dialing"
    /\ back' = "up" /\ late' = (front = "lost")
    /\ UNCHANGED <<kind, front, timer, freed, sent, replies, toHost, toProxy, ssh, att, host, tel, shell>>

\* backend_connection_success, after connectionMade of the backend: the
\* authentication timeout is set, on a lost frontend too.
BackUp ==
    /\ back = "dialing"
    /\ back' = "up" /\ timer' = TRUE /\ late' = (front = "lost")
    /\ UNCHANGED <<kind, front, freed, sent, replies, toHost, toProxy, ssh, att, host, tel, shell>>

BackRefused ==
    /\ back = "dialing"
    /\ back' = "refused" /\ front' = Closing(front)
    /\ UNCHANGED <<kind, timer, freed, late, sent, replies, toHost, toProxy, ssh, att, host, tel, shell>>

\* connectionLost of the SSH backend, and of the Telnet backend; a guest may hang up.
BackGone ==
    /\ back \in {"up", "secure", "closing"}
    /\ back' = "lost" /\ front' = Closing(front)
    /\ toProxy' = <<>>
    /\ UNCHANGED <<kind, timer, freed, late, sent, replies, toHost, ssh, att, host, shell>>

SshBackLost == kind = "ssh" /\ BackGone /\ UNCHANGED tel
TelnetBackLost == kind = "telnet" /\ BackGone /\ CloseLog
BackLost == SshBackLost \/ TelnetBackLost

\* A faulty variant: the guest is always given back as clean.
FrontGoneUnused(dirty) ==
    /\ front \in {"up", "closing"}
    /\ front' = "lost" /\ timer' = FALSE /\ back' = Closing(back)
    /\ freed' = "u"
    /\ UNCHANGED <<kind, late, sent, replies, toHost, toProxy, ssh, att, host, shell>>

\* connectionLost of a frontend: the backend is closed if it is up, and the
\* guest given back, as used if the login was done.
FrontGone(dirty) ==
    /\ front \in {"up", "closing"}
    /\ front' = "lost" /\ timer' = FALSE /\ back' = Closing(back)
    /\ freed' = IF dirty THEN "f" ELSE "u"
    /\ UNCHANGED <<kind, late, sent, replies, toHost, toProxy, ssh, att, host, shell>>

SshFrontLost == kind = "ssh" /\ FrontGone(ssh.authDone) /\ UNCHANGED tel
TelnetFrontLost == kind = "telnet" /\ FrontGone(tel.authDone) /\ CloseLog
FrontLost == SshFrontLost \/ TelnetFrontLost

TimedOut ==
    /\ timer /\ timer' = FALSE
    /\ front' = Closing(front) /\ back' = Closing(back)
    /\ UNCHANGED <<kind, freed, late, sent, replies, toHost, toProxy, ssh, att, host, shell>>

SshTimeout == kind = "ssh" /\ TimedOut /\ UNCHANGED tel
TelnetTimeout == kind = "telnet" /\ TimedOut /\ CloseLog
Timeout == SshTimeout \/ TelnetTimeout

Next ==
    \/ AuthRequest \/ AuthFails \/ FinishedAuth \/ AttackerSends
    \/ BackSecure \/ BackPacket \/ SshdTakes \/ (\E b \in Chans : SshdSends(b))
    \/ (\E line \in {"name", "right", "wrong", "env"} : TelnetLine(line)) \/ TelnetPrompt \/ Telnetd
    \/ BackUp \/ BackRefused \/ BackLost \/ FrontLost \/ Timeout

\* A dial ends (connection timeout), a connection that is being closed is lost,
\* and a timeout that is set fires.
Spec ==
    /\ Init /\ [][Next]_vars
    /\ WF_vars(BackUp \/ BackRefused)
    /\ WF_vars(front = "closing" /\ FrontLost)
    /\ WF_vars(back = "closing" /\ BackLost)
    /\ WF_vars(Timeout)

-----------------------------------------------------------------------------
(***************************************************************************)
(* Properties.                                                             *)
(***************************************************************************)
TypeOK ==
    /\ front \in {"up", "closing", "lost"}
    /\ back \in {"dialing", "up", "secure", "closing", "lost", "refused"}
    /\ freed \in {"none", "u", "f"} /\ {timer, late} \subseteq BOOLEAN
    /\ \A i \in DOMAIN ssh.chs : ssh.chs[i].serverID \in Chans \cup {None} /\ ssh.chs[i].clientID \in Chans \cup {None}
    /\ ssh.logs \in Nat /\ sent \in 0 .. Packets

\* SSH packets of the attacker are parsed in the order he sent them, none lost
\* or repeated: those delayed are exactly the ones after the last one handled.
InOrder ==
    kind = "ssh" =>
        /\ ssh.handled + Len(ssh.delayed) = sent
        /\ \A i \in DOMAIN ssh.delayed : ssh.delayed[i].n = ssh.handled + i

\* Nothing of the attacker reaches a guest before he has logged in: over SSH no
\* packet of his is sent on, over Telnet the guest lets nobody in until the
\* checker has accepted a password.
LoginFirst ==
    /\ kind = "ssh" /\ (toHost # <<>> \/ shell.st = "used") => ssh.entered
    /\ shell.st = "in" => tel.accepted

\* With peers that keep to the protocol get_channel always finds the channel,
\* whatever is in flight when one side closes it: the parser raises only on a
\* channel behind one that is not confirmed yet and on data of a channel
\* without session.
ChannelsKnown == ssh.raised \in {None, "pending", "no session"}

\* A tty log is open for every channel with a shell and for no other, except
\* the logs of sessions that a later request replaced.
LogPerChannel ==
    ssh.logs = Cardinality({i \in DOMAIN ssh.chs : HasLog(ssh.chs[i].ses)}) + ssh.orphans

\* A guest given back as clean is clean: no packet of the attacker is run on it
\* and nobody is logged in, now or later. The exception is an SSH attacker who
\* logged in and left while the backend was dialled: his packets are sent
\* after the guest was given back.
CleanIsClean ==
    freed = "u" /\ shell.st \in {"used", "in"} => kind = "ssh" /\ late

\* A Telnet attacker who types only at a prompt is never taken for logged in
\* while the guest has refused him: once the lines have arrived, he is in.
DoneMeansIn ==
    kind = "telnet" /\ tel.authDone /\ ~tel.ahead /\ toHost = <<>> /\ back = "up" => shell.st = "in"

\* Neither connection outlives the other: both end, and the Telnet log is closed.
BothEnd == <>[](front = "lost" /\ back \in {"lost", "refused"} /\ (kind = "telnet" => tel.log = "closed"))
\* The relay: packets in order and none before the login, channels and their
\* logs in step, and a Telnet login that is one.
ProxyInv == TypeOK /\ InOrder /\ LoginFirst /\ ChannelsKnown /\ LogPerChannel /\ DoneMeansIn
=============================================================================
