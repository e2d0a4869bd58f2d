------------------------------- MODULE Login -------------------------------
(***************************************************************************)
(* How an attacker logs in to Cowrie's own shell: the SSH transport and    *)
(* its authentication service, the Telnet transport with its login         *)
(* dialogue and option negotiation, and the credential checkers behind     *)
(* both, UserDB and AuthRandom (whose state is a file all connections      *)
(* share). A handler runs to its end in one turn of the reactor.           *)
(***************************************************************************)
EXTENDS Integers, Sequences, FiniteSets, SequencesExt

CONSTANTS
    Conns,       \* connections
    IPs,         \* source addresses
    AddressesOf, \* connection -> the addresses it may come from
    Creds,       \* username and password combinations
    Undecodable, \* the ones whose username is not UTF-8
    EnvCred,     \* the combination a flagged USER variable stands for
    UserDBLines, \* userdb.txt: <<[form, rule, policy], ...>>
    Matches,     \* rule -> the combinations it matches
    MinTry, MaxTry, MaxCache, \* auth_class_parameters
    NoneOn, AnyKey, Keyboard, Vulnerable, \* options of the configuration
    AttemptsBeforeDisconnect, \* of Twisted's authentication service (20)
    Messages,    \* bound: login attempts, and services asked for again, of all clients
    Restarts,    \* bound: crashes of the process
    Unset

ASSUME LoginAssumption ==
    /\ AddressesOf \in [Conns -> SUBSET IPs]
    /\ Undecodable \subseteq Creds /\ EnvCred \in Creds /\ Unset \notin Creds \cup Nat
    /\ \A i \in 1..Len(UserDBLines) : UserDBLines[i].rule \in DOMAIN Matches
    /\ MinTry \in Nat \ {0} /\ MaxTry \in Nat /\ MinTry <= MaxTry /\ MaxCache \in Nat
    /\ {NoneOn, AnyKey, Keyboard, Vulnerable} \subseteq BOOLEAN
    /\ Messages \in Nat /\ Restarts \in Nat /\ AttemptsBeforeDisconnect \in Nat

VARIABLES
    authclass, \* "UserDB" or "AuthRandom"
    store,     \* auth_random.json, and the combinations it refused (history)
    conn,      \* connection -> its state
    messages, restarts

loginVars == <<authclass, store, conn, messages, restarts>>

(***************************************************************************)
(* UserDB: the rules in the order of the file.                             *)
(***************************************************************************)
\* A rule given twice keeps its place and takes the later policy.
AddUser(db, line) ==
    IF \E i \in 1..Len(db) : db[i].rule = line.rule
    THEN [i \in 1..Len(db) |-> IF db[i].rule = line.rule THEN line ELSE db[i]]
    ELSE Append(db, line)

\* Comments and lines without three fields are passed over.
Load == FoldLeft(AddUser, <<>>, SelectSeq(UserDBLines, LAMBDA line : line.form = "rule"))

\* The first rule that matches decides.
UserDBCheck(cred) ==
    LET hits == SelectSeq(Load, LAMBDA line : cred \in Matches[line.rule])
    IN  hits # <<>> /\ Head(hits).policy

(***************************************************************************)
(* AuthRandom: info of an address is its number of attempts, the number it *)
(* needs, the combinations counted, and the one that got it in.            *)
(***************************************************************************)
NewAddress == [try |-> 0, max |-> Unset, tried |-> {}, user |-> Unset]
EmptyStore == [cache |-> <<>>, info |-> [ip \in IPs |-> NewAddress], refused |-> [ip \in IPs |-> {}]]

Saved(s, ip, info, auth, cred) ==
    [auth |-> auth,
     store |-> [s EXCEPT !.info[ip] = info,
                         !.refused[ip] = IF auth THEN @ ELSE @ \union {cred}]]

Repeated(s, ip, info, cred) == cred \in info.tried

\* A combination in the cache lets any address in, and lowers what it needs.
Cached(s, ip, cred) == cred \in Range(s.cache)

FromCache(s, ip, cred) == Saved(s, ip, [s.info[ip] EXCEPT !.max = 1, !.user = cred], TRUE, cred)

\* The last attempt needed: the combination is kept with the address and cached.
Admit(s, ip, info, cred) ==
    LET cache == Append(s.cache, cred)
        t == [s EXCEPT !.cache = IF Len(cache) > MaxCache THEN Tail(cache) ELSE cache]
    IN  Saved(t, ip, [info EXCEPT !.user = cred], TRUE, cred)

\* Beyond it, the login is compared as bytes with the text of what was stored,
\* so that no combination outside the cache gets the address in again.
Returning(s, ip, info, cred) ==
    IF info.user = Unset
    THEN Saved(s, ip, [info EXCEPT !.tried = @ \union {cred}, !.try = 1], FALSE, cred)
    ELSE Saved(s, ip, info, FALSE, cred)

\* need: what randint draws for an address seen for the first time.
AuthRandomCheck(s, ip, cred, need) ==
    LET known == [s.info[ip] EXCEPT !.max = IF @ = Unset THEN need ELSE @]
        info == [known EXCEPT !.try = @ + 1]
    IN  CASE Cached(s, ip, cred) -> FromCache(s, ip, cred)
          [] ~Cached(s, ip, cred) /\ Repeated(s, ip, known, cred) -> Saved(s, ip, known, FALSE, cred)
          [] ~Cached(s, ip, cred) /\ ~Repeated(s, ip, known, cred) /\ info.try < info.max ->
                Saved(s, ip, [info EXCEPT !.tried = @ \union {cred}], FALSE, cred)
          [] ~Cached(s, ip, cred) /\ ~Repeated(s, ip, known, cred) /\ info.try = info.max ->
                Admit(s, ip, info, cred)
          [] OTHER -> Returning(s, ip, info, cred)

DrawsFromOne(ip) ==
    IF authclass = "AuthRandom" /\ store.info[ip].max = Unset THEN 1..MaxTry ELSE {MinTry}

\* What randint may draw; only an address without a number needs one.
Draws(ip) ==
    IF authclass = "AuthRandom" /\ store.info[ip].max = Unset THEN MinTry..MaxTry ELSE {MinTry}

\* A new object of the class for every attempt: the file is read, and written
\* back before the answer.
CheckUserPass(s, ip, cred, need) ==
    IF authclass = "UserDB" THEN [auth |-> UserDBCheck(cred), store |-> s]
                            ELSE AuthRandomCheck(s, ip, cred, need)

(***************************************************************************)
(* What both transports do.                                                *)
(***************************************************************************)
\* up: the TCP connection; st: of the SSH authentication or the Telnet
\* dialogue; pam, delayed, tries: a keyboard-interactive exchange is open,
\* failures held back, and counted; past: of authentication services that
\* another one replaced; avatar: somebody logged in; echo, queue, pending: the
\* negotiation of ECHO, what waits for it, and the login that does; env: a
\* flagged USER was received; protocol: what the Telnet transport talks to.
\* History: succ counts the success events, astray those of a request for
\* another service than the connection, asked the connections asked for by
\* SERVICE_REQUEST, opens the sessions, and sess is the state of the last one.
Idle == [up |-> "new", kind |-> "ssh", ip |-> Unset, st |-> "version", timer |-> "off",
         pam |-> FALSE, delayed |-> 0, tries |-> 0, past |-> <<>>, avatar |-> FALSE,
         echo |-> "no", queue |-> <<>>, pending |-> Unset, env |-> FALSE, protocol |-> "auth",
         succ |-> 0, astray |-> 0, asked |-> 0, opens |-> 0, sess |-> "none"]

LoginInit ==
    /\ authclass \in {"UserDB", "AuthRandom"}
    /\ store = EmptyStore
    /\ conn = [c \in Conns |-> Idle]
    /\ messages = 0 /\ restarts = 0

\* Requests that came in one segment are handled although the transport closes.
Live(c) == conn[c].up \in {"up", "closing"}
LoseConnection(r) == [r EXCEPT !.up = IF @ = "up" THEN "closing" ELSE @]

SshConnectionMade(c, ip) ==
    /\ conn' = [conn EXCEPT ![c] = [Idle EXCEPT !.up = "up", !.kind = "ssh", !.ip = ip, !.timer = "auth"]]
    /\ UNCHANGED <<authclass, store, messages, restarts>>

TelnetConnectionMade(c, ip) ==
    /\ conn' = [conn EXCEPT ![c] = [Idle EXCEPT !.up = "up", !.kind = "telnet", !.ip = ip,
                                                !.st = "User", !.timer = "auth"]]
    /\ UNCHANGED <<authclass, store, messages, restarts>>

Connect(c) == conn[c].up = "new" /\ \E ip \in AddressesOf[c] : SshConnectionMade(c, ip) \/ TelnetConnectionMade(c, ip)

\* The realm makes the avatar, and fails on a name it cannot decode: the
\* success was logged, and the client is told that the login failed.
Avatar(cred) == cred \notin Undecodable

\* The client sends something; attempts are what the bound counts.
Client(c, r) ==
    /\ conn' = [conn EXCEPT ![c] = r]
    /\ UNCHANGED <<authclass, messages, restarts>>
Attempt(c, r) ==
    /\ messages < Messages
    /\ messages' = messages + 1
    /\ conn' = [conn EXCEPT ![c] = r]
    /\ UNCHANGED <<authclass, restarts>>

(***************************************************************************)
(* SSH.                                                                    *)
(***************************************************************************)
\* No version line, an identification that is none, or one not supported.
SshVersion(c) ==
    /\ Live(c) /\ conn[c].kind = "ssh" /\ conn[c].st = "version"
    /\ \/ Client(c, [conn[c] EXCEPT !.st = "bare"])
       \/ Client(c, LoseConnection(conn[c]))
    /\ UNCHANGED store

\* The connection service takes the place of the service before it, and the
\* interactive timeout that of the one before; a session of another connection
\* service ends with it.
SetService(r) == [r EXCEPT !.st = "in", !.timer = "interactive", !.opens = @ + 1, !.sess = "open"]

\* So does an authentication service, whose counters are new. Failures that the
\* one before holds back are still answered.
StartAuth(r) ==
    [r EXCEPT !.st = "auth", !.pam = FALSE, !.delayed = 0, !.tries = 0,
              !.past = IF r.delayed = 0 THEN @ ELSE Append(@, [delayed |-> r.delayed, tries |-> r.tries]),
              !.sess = IF @ = "open" THEN "closed" ELSE @]

BadAuth(r, counted) ==
    LET tries == IF counted THEN r.tries + 1 ELSE r.tries
        s == [r EXCEPT !.tries = tries]
    IN  IF tries > AttemptsBeforeDisconnect THEN LoseConnection(s) ELSE s

\* SERVICE_REQUEST: authentication as often as the client likes, the connection
\* once there is an avatar; any other name, or the connection before, ends it.
ServiceRequest(c) ==
    /\ Live(c) /\ conn[c].kind = "ssh" /\ conn[c].st # "version"
    /\ \/ conn[c].st = "bare" /\ Client(c, StartAuth(conn[c]))
       \/ conn[c].st # "bare" /\ Attempt(c, StartAuth(conn[c]))
       \/ conn[c].avatar /\ Attempt(c, SetService([conn[c] EXCEPT !.asked = @ + 1]))
       \/ Client(c, LoseConnection(conn[c]))
    /\ UNCHANGED store

Request(c) == Live(c) /\ conn[c].kind = "ssh" /\ conn[c].st = "auth"
NextServices == {"ssh-connection", "ssh-userauth", "unknown"}

\* _cbFinishedAuth: the avatar is kept whatever service the request names; one
\* that the factory does not know makes it a failure, after the success event.
Logged(r, events, service, counted) ==
    LET s == [r EXCEPT !.succ = @ + events, !.avatar = TRUE]
        t == [s EXCEPT !.astray = @ + 1]
    IN  CASE service = "ssh-connection" -> SetService(s)
          [] service = "ssh-userauth" -> StartAuth(t)
          [] OTHER -> BadAuth(t, counted)

\* HoneypotNoneChecker takes every name; the checker is installed only if asked.
AuthNone(c) ==
    /\ Request(c)
    /\ \/ NoneOn /\ \E service \in NextServices : Attempt(c, Logged(conn[c], 1, service, FALSE))
       \/ ~NoneOn /\ Client(c, BadAuth(conn[c], FALSE))
    /\ UNCHANGED store

AuthPublicKey(c) ==
    /\ Request(c)
    /\ \/ AnyKey /\ \E service \in NextServices : Attempt(c, Logged(conn[c], 1, service, TRUE))
       \/ ~AnyKey /\ Attempt(c, BadAuth(conn[c], TRUE))
    /\ UNCHANGED store

\* A refusal is answered after passwordDelay; others may be handled meanwhile.
Refuse(r) == [r EXCEPT !.delayed = @ + 1]

AuthPassword(c) ==
    /\ Request(c)
    /\ \/ /\ Attempt(c, BadAuth(conn[c], TRUE)) \* a NUL as the password
          /\ UNCHANGED store
       \/ \E cred \in Creds, need \in Draws(conn[c].ip) :
             LET v == CheckUserPass(store, conn[c].ip, cred, need)
             IN  /\ store' = v.store
                 /\ IF v.auth /\ Avatar(cred)
                    THEN \E service \in NextServices : Attempt(c, Logged(conn[c], 1, service, TRUE))
                    ELSE Attempt(c, Refuse(conn[c]))

AuthKeyboardInteractive(c) ==
    /\ Keyboard /\ Request(c)
    /\ Client(c, IF conn[c].pam THEN LoseConnection(conn[c]) ELSE [conn[c] EXCEPT !.pam = TRUE])
    /\ UNCHANGED store

CheckAllResponses(c, responses, need) ==
    LET Check(acc, cred) ==
            LET v == CheckUserPass(acc.store, conn[c].ip, cred, need)
            IN  [store |-> v.store, auth |-> acc.auth \/ v.auth, cred |-> cred,
                 succ |-> acc.succ + (IF v.auth THEN 1 ELSE 0)]
    IN  FoldLeft(Check, [store |-> store, auth |-> FALSE, cred |-> Unset, succ |-> 0], responses)

\* cbCheckPamUser tries the responses in turn, up to the first that is
\* accepted; a client sends two at most.
CheckResponses(c, responses, need) ==
    LET Check(s, cred) ==
            LET v == CheckUserPass(s, conn[c].ip, cred, need)
            IN  [store |-> v.store, auth |-> v.auth, cred |-> cred, succ |-> IF v.auth THEN 1 ELSE 0]
        first == Check(store, responses[1])
    IN  CASE responses = <<>> -> [store |-> store, auth |-> FALSE, cred |-> Unset, succ |-> 0]
          [] responses # <<>> /\ (first.auth \/ Len(responses) = 1) -> first
          [] OTHER -> Check(first.store, responses[2])

\* Without a question open the assertion fails and the connection is dropped.
InfoResponse(c) ==
    /\ Request(c)
    /\ \/ /\ ~conn[c].pam
          /\ Attempt(c, LoseConnection(conn[c]))
          /\ UNCHANGED store
       \/ /\ conn[c].pam
          /\ \E responses \in SeqOf(Creds, 2), need \in Draws(conn[c].ip) :
                LET v == CheckResponses(c, responses, need)
                    r == [conn[c] EXCEPT !.pam = FALSE]
                IN  /\ store' = v.store
                    /\ IF v.auth /\ Avatar(v.cred)
                       THEN \E service \in NextServices : Attempt(c, Logged(r, v.succ, service, TRUE))
                       ELSE Attempt(c, Refuse(r))

\* One more failure counted by a service that was replaced.
LateFailure(r, i) ==
    LET tries == r.past[i].tries + 1
        s == [r EXCEPT !.past[i] = [delayed |-> @.delayed - 1, tries |-> tries]]
    IN  IF tries > AttemptsBeforeDisconnect THEN LoseConnection(s) ELSE s

\* A failure held back is counted by its own service, even if the client got in
\* since or asked for another; on a lost connection it has no effect.
PasswordDelay(c) ==
    /\ Live(c)
    /\ \/ conn[c].delayed > 0 /\ Client(c, BadAuth([conn[c] EXCEPT !.delayed = @ - 1], TRUE))
       \/ \E i \in 1..Len(conn[c].past) :
             conn[c].past[i].delayed > 0 /\ Client(c, LateFailure(conn[c], i))
    /\ UNCHANGED store

(***************************************************************************)
(* Telnet.                                                                 *)
(***************************************************************************)
NegotiateWaiting(r, func) ==
    CASE r.echo \in {"asked", "stopping"} -> [now |-> FALSE, r |-> [r EXCEPT !.queue = Append(@, func)]]
      [] r.echo = "no" /\ func = "will" -> [now |-> FALSE, r |-> [r EXCEPT !.echo = "asked"]]
      [] r.echo = "yes" /\ func = "wont" -> [now |-> FALSE, r |-> [r EXCEPT !.echo = "stopping"]]
      [] OTHER -> [now |-> TRUE, r |-> r]

\* will and wont of the transport: now says that the result is known at once,
\* an error (already negotiating, enabled or disabled) included. A negotiation
\* under way gets the call chained behind it.
Negotiate(r, func) ==
    CASE r.echo \in {"asked", "stopping"} -> [now |-> TRUE, r |-> [r EXCEPT !.queue = Append(@, func)]]
      [] r.echo = "no" /\ func = "will" -> [now |-> FALSE, r |-> [r EXCEPT !.echo = "asked"]]
      [] r.echo = "yes" /\ func = "wont" -> [now |-> FALSE, r |-> [r EXCEPT !.echo = "stopping"]]
      [] OTHER -> [now |-> TRUE, r |-> r]

TelnetUser(c) ==
    /\ Live(c) /\ conn[c].kind = "telnet" /\ conn[c].st = "User"
    /\ Client(c, [Negotiate(conn[c], "will").r EXCEPT !.st = "Password"])
    /\ UNCHANGED store

\* The session takes the place of the login dialogue, and asks for ECHO itself.
CbLogin(r) == [Negotiate(r, "will").r EXCEPT !.st = "Command", !.timer = "idle", !.opens = @ + 1,
                                             !.succ = @ + 1, !.sess = "open", !.protocol = "session"]

EbLogin(r) == [Negotiate(r, "wont").r EXCEPT !.st = "User"]

\* The nested function login: v is what the checker says of cred.
LoginNow(r, cred, v) == IF v.auth /\ Avatar(cred) THEN CbLogin(r) ELSE EbLogin(r)

\* Lines that come while a login waits for the negotiation are discarded.
AfterPassword(r) == "Discard"

\* Every client has options by now (willChain made the state of ECHO), so
\* login waits for the answer to WONT ECHO if ECHO was agreed on.
TelnetPassword(c) ==
    /\ Live(c) /\ conn[c].kind = "telnet" /\ conn[c].st = "Password"
    /\ \E typed \in Creds, need \in Draws(conn[c].ip) :
          LET cred == IF conn[c].env THEN EnvCred ELSE typed
              n == Negotiate([conn[c] EXCEPT !.env = FALSE], "wont")
              v == CheckUserPass(store, conn[c].ip, cred, need)
          IN  IF n.now
              THEN /\ store' = v.store
                   /\ Attempt(c, LoginNow(n.r, cred, v))
              ELSE /\ Attempt(c, [n.r EXCEPT !.st = AfterPassword(n.r), !.pending = cred])
                   /\ UNCHANGED store

\* The USER variable of NEW-ENVIRON starts with -f; after the password it
\* would be remembered and not used again unless the login failed.
TelnetNewEnviron(c) ==
    /\ Vulnerable /\ Live(c) /\ conn[c].st \in {"User", "Password"} /\ ~conn[c].env
    /\ Client(c, [conn[c] EXCEPT !.env = TRUE])
    /\ UNCHANGED store

\* What was chained behind a negotiation runs in turn, until one of them has
\* to wait for the client again.
RunQueue(r) ==
    LET waiting == {i \in DOMAIN r.queue : ~Negotiate(r, r.queue[i]).now}
        first == CHOOSE i \in waiting : \A j \in waiting : i <= j
    IN  CASE r.echo \in {"asked", "stopping"} -> r
          [] r.echo \in {"no", "yes"} /\ waiting = {} -> [r EXCEPT !.queue = <<>>]
          [] OTHER -> Negotiate([r EXCEPT !.queue = SubSeq(@, first + 1, Len(@))], r.queue[first]).r

\* DO or DONT ECHO from the client: the login that waited runs first.
TelnetAnswer(c) ==
    /\ Live(c) /\ conn[c].kind = "telnet" /\ conn[c].echo \in {"asked", "stopping"}
    /\ \E yes \in IF conn[c].echo = "asked" THEN BOOLEAN ELSE {FALSE}, need \in Draws(conn[c].ip) :
          LET r == [conn[c] EXCEPT !.echo = IF yes THEN "yes" ELSE "no", !.pending = Unset]
              cred == conn[c].pending
              v == CheckUserPass(store, r.ip, cred, need)
          IN  IF cred = Unset
              THEN Client(c, RunQueue(r)) /\ UNCHANGED store
              ELSE Client(c, RunQueue(LoginNow(r, cred, v))) /\ store' = v.store

(***************************************************************************)
(* The end of a connection.                                                *)
(***************************************************************************)
TimeoutConnection(c) ==
    /\ conn[c].timer # "off"
    /\ conn' = [conn EXCEPT ![c] = LoseConnection([conn[c] EXCEPT !.timer = "off"])]
    /\ UNCHANGED <<authclass, store, messages, restarts>>

\* The protocol objects are dropped. What is kept is the last session's state
\* and, of a Telnet connection, whose loss may run a login, the history.
Gone(r, sess) == [Idle EXCEPT !.up = "lost", !.kind = r.kind, !.timer = r.timer, !.succ = r.succ,
                              !.opens = r.opens, !.sess = sess]

SshConnectionLost(c) ==
    /\ conn[c].kind = "ssh"
    /\ conn' = [conn EXCEPT ![c] = [Idle EXCEPT !.up = "lost",
                                                !.sess = IF conn[c].sess = "none" THEN @ ELSE "closed"]]
    /\ UNCHANGED store

\* The timeout is cleared; a negotiation that is open fails, which runs the
\* login that waits for it; last, the protocol is told.
TelnetConnectionLost(c) ==
    /\ conn[c].kind = "telnet"
    /\ \E need \in Draws(conn[c].ip) :
          LET cred == conn[c].pending
              r == [conn[c] EXCEPT !.up = "lost", !.timer = "off", !.pending = Unset]
              v == CheckUserPass(store, r.ip, cred, need)
              s == IF cred = Unset THEN r ELSE LoginNow(r, cred, v)
          IN  /\ store' = IF cred = Unset THEN store ELSE v.store
              /\ conn' = [conn EXCEPT ![c] = Gone(s, IF s.protocol = "session" THEN "closed" ELSE s.sess)]

ConnectionLost(c) ==
    /\ conn[c].up = "closing"
    /\ SshConnectionLost(c) \/ TelnetConnectionLost(c)
    /\ UNCHANGED <<authclass, messages, restarts>>

ClientDrops(c) ==
    /\ conn[c].up = "up"
    /\ SshConnectionLost(c) \/ TelnetConnectionLost(c)
    /\ UNCHANGED <<authclass, messages, restarts>>

\* The process dies and comes back; in the middle of savevars the file is cut
\* short, which loadvars takes for an empty one.
Restart ==
    /\ restarts < Restarts
    /\ restarts' = restarts + 1
    /\ conn' = [c \in Conns |-> IF conn[c].up = "new" THEN conn[c] ELSE [Idle EXCEPT !.up = "lost"]]
    /\ store' \in {store, EmptyStore}
    /\ UNCHANGED <<authclass, messages>>

LoginNext ==
    \/ \E c \in Conns :
        \/ Connect(c) \/ SshVersion(c) \/ ServiceRequest(c) \/ AuthNone(c) \/ AuthPublicKey(c) \/ AuthPassword(c)
        \/ AuthKeyboardInteractive(c) \/ InfoResponse(c) \/ PasswordDelay(c)
        \/ TelnetUser(c) \/ TelnetPassword(c) \/ TelnetNewEnviron(c) \/ TelnetAnswer(c)
        \/ TimeoutConnection(c) \/ ConnectionLost(c) \/ ClientDrops(c)
    \/ Restart

LoginSpec == LoginInit /\ [][LoginNext]_loginVars

-----------------------------------------------------------------------------
\* The variables keep the types the code gives them.
LoginTypeOK ==
    /\ authclass \in {"UserDB", "AuthRandom"}
    /\ store.cache \in Seq(Creds) /\ DOMAIN store.info = IPs
    /\ \A ip \in IPs : /\ store.info[ip].max \in (1..MaxTry) \union {Unset}
                       /\ store.info[ip].user \in Creds \union {Unset}
    /\ \A c \in Conns :
        /\ conn[c].up \in {"new", "up", "closing", "lost"}
        /\ conn[c].st \in {"version", "bare", "auth", "in", "User", "Password", "Discard", "Command"}
        /\ conn[c].timer \in {"off", "auth", "interactive", "idle"}
        /\ conn[c].delayed \in Nat /\ conn[c].tries \in Nat
        /\ Len(conn[c].queue) <= 3 * Messages

\* An address that never got in has been counted once for each different
\* combination, and fewer times than it needs (AuthRandom.checklogin): the
\* branch of a returning address without a stored login is never taken.
CountsAreDistinct ==
    \A ip \in IPs : LET i == store.info[ip]
                    IN  i.user = Unset => i.try = Cardinality(i.tried) /\ (i.max = Unset \/ i.try < i.max)

\* The cache keeps MaxCache combinations and none of them twice, although the
\* check against it and the append are in different branches.
CacheIsASet == Len(store.cache) <= MaxCache /\ IsInjective(store.cache)

\* The books of a connection balance, however many logins and services it asks
\* for and whatever waits: every success event of a name that can be decoded
\* opens a session unless its request named another service, and a session that
\* no event announces was asked for by somebody who had got in (_cbFinishedAuth,
\* getService, setService). A Telnet connection has one session at most (_cbLogin).
EventsMatchSessions ==
    \A c \in Conns :
        /\ conn[c].opens + conn[c].astray = conn[c].succ + conn[c].asked
        /\ conn[c].asked > 0 => conn[c].succ > 0
        /\ conn[c].kind = "telnet" => conn[c].opens <= 1 /\ conn[c].succ = conn[c].opens

\* No session outlives its connection: one opened by a login that ran when the
\* connection was already lost is closed as well (_cbLogin, connectionLost).
SessionsEnd == \A c \in Conns : conn[c].up = "lost" => conn[c].sess # "open"

\* A Telnet client whose lines are discarded has a login that runs when ECHO
\* is settled: the dialogue is never left without a next step.
NoLimbo ==
    \A c \in Conns : Live(c) /\ conn[c].st = "Discard" => conn[c].pending # Unset /\ conn[c].echo = "stopping"

\* An address is admitted the first time only with a combination that is in
\* the cache, or after MinTry - 1 different ones were refused.
FirstSuccessIsEarned ==
    [][\A ip \in IPs : store.info[ip].user = Unset /\ store'.info[ip].user # Unset =>
          \/ store'.info[ip].user \in Range(store.cache)
          \/ Cardinality(store'.refused[ip]) >= MinTry - 1]_loginVars

\* A connection is never without a timeout that will end it, logged in or
\* not, and whatever the client sent (connectionMade, setService, _cbLogin).
NeverUntimed == \A c \in Conns : conn[c].up = "up" => conn[c].timer # "off"
\* The books of the login: attempts are counted once, the cache has no
\* duplicates, and sessions, their events and their connections agree.
LoginInv == LoginTypeOK /\ CountsAreDistinct /\ CacheIsASet /\ EventsMatchSessions /\ SessionsEnd

\* Whatever the client answers or leaves unanswered, its connection has a next
\* step or a timeout.
NobodyStranded == NoLimbo /\ NeverUntimed
=============================================================================
