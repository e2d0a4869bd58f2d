----------------------------- MODULE ProxyProofs -----------------------------
(***************************************************************************)
(* The proxies, for any set of channel numbers, any number of packets and  *)
(* either setting of forwarding and SFTP. A connection is of one kind, and *)
(* so is its invariant.                                                    *)
(*                                                                         *)
(* SSH: the parser's list of channels is in step with the guest, with what *)
(* is on its way between them both ways (Conf), and with what the attacker *)
(* was told (Agrees), so that a number he or the guest uses is found.      *)
(* Packets the attacker sent too early are openings of channels nobody     *)
(* knows (DelayedOpens), since he has had no answer.                       *)
(*                                                                         *)
(* Telnet: while the attacker types only at a prompt the login goes one    *)
(* token at a time (Phase).                                                *)
(***************************************************************************)
EXTENDS Proxy, FiniteSetTheorems, SequenceTheorems, WellFoundedInduction, TLAPS

-----------------------------------------------------------------------------
Ends == {"SERVER", "CLIENT"}
Services == {None, "forward", "shell", "exec", "sftp"}
Channel == [serverID : Chans, clientID : Chans \cup {None}, ses : Services, closed : SUBSET Ends]

Requests == [t : {"open", "request", "data", "close"}, ch : Chans,
             what : {"session", "tcpip", "shell", "sftp", "other", None}, from : {None}, n : Nat]
UpPackets == Requests \cup [t : {"auth"}]
DownPackets == [t : {"confirm", "failure", "data", "close"}, ch : Chans, what : {None},
                from : Chans \cup {None}, n : {0}]
HostState == [Chans -> [st : {"free", "connecting", "open", "closed"}, peer : Chans \cup {None}]]
AttState == [Chans -> [st : {"free", "opening", "open", "closed", "peer closed"}, peer : Chans \cup {None}]]

\* The entries of a sequence.
All(q) == {q[i] : i \in DOMAIN q}

\* The parser's channels: each has its own number of the attacker.
ChannelsAreOnes(chs) ==
  /\ chs \in Seq(Channel)
  /\ \A i, j \in DOMAIN chs : chs[i].serverID = chs[j].serverID => i = j
  /\ \A i \in DOMAIN chs : chs[i].clientID = None => ~ HasLog(chs[i].ses)

Outcomes == {None, "pending", "no session"}
ParserState == [chs : Seq(Channel), logs : Nat, orphans : Nat, timer : BOOLEAN, raised : Outcomes,
                out : {"drop", "pass", "answer"}]
\* The logs the channels of a list have, and a sound state of the parser.
LogCount(chs) == Cardinality({i \in DOMAIN chs : HasLog(chs[i].ses)})
ParserSound(x) == x \in ParserState /\ ChannelsAreOnes(x.chs) /\ x.logs = LogCount(x.chs) + x.orphans

\* A channel whose opening the guest has not answered.
Fresh(x) == x.clientID = None /\ x.closed = {}

\* On its way in f: a packet, and a confirmation that channel c of the attacker
\* is b of the guest.
Coming(f, t, c) == \E j \in DOMAIN f : f[j].t = t /\ f[j].ch = c
Confirmed(f, c, b) == \E j \in DOMAIN f : f[j].t = "confirm" /\ f[j].ch = c /\ f[j].from = b

\* K: the parser's channels; u: packets on their way to the guest; h: the
\* guest's channels; d: packets on their way to the parser.
Told(K, d, j) ==
  \E x \in K : /\ x.serverID = d[j].ch /\ "CLIENT" \notin x.closed
               /\ x.clientID = None => \E k \in DOMAIN d : k < j /\ d[k].t = "confirm" /\ d[k].ch = d[j].ch

\* A number of the guest whose channel the parser has already removed: only the
\* attacker's close is still on its way to it.
Abandoned(K, u, d, b) ==
  /\ Coming(u, "close", b)
  /\ \A x \in K : x.clientID # b
  /\ \A j \in DOMAIN d : d[j].t = "confirm" => d[j].from # b

\* Numbers belong to one channel each, and a channel is removed when both sides
\* have closed it.
KnownChannels(K) ==
  /\ K \subseteq Channel
  /\ \A x, y \in K : x.serverID = y.serverID => x = y
  /\ \A x, y \in K : x.clientID = y.clientID /\ x.clientID # None => x = y
  /\ \A x \in K : x.closed # Ends /\ (x.clientID = None => x.closed = {})

\* Packets are of the kinds each side sends.
Typed(u, h, d) ==
  /\ DOMAIN u \subseteq Nat /\ \A l \in DOMAIN u : u[l] \in UpPackets
  /\ DOMAIN d \subseteq Nat /\ \A j \in DOMAIN d : d[j] \in DownPackets
  /\ h \in HostState

\* A confirmation comes once and before all else, for a channel that waits for
\* it; the number it names is free once what comes before it is parsed.
Confirms(K, h, d) ==
  \A j \in DOMAIN d : d[j].t = "confirm" =>
    /\ d[j].from \in Chans
    /\ \E x \in K : x.serverID = d[j].ch /\ Fresh(x)
    /\ h[d[j].from].st \in {"open", "closed"} /\ h[d[j].from].peer = d[j].ch
    /\ \A k \in DOMAIN d : d[k].ch = d[j].ch => k = j \/ (k > j /\ d[k].t \in {"data", "close"})
    /\ \A y \in K : y.clientID = d[j].from =>
         y.closed = {"SERVER"} /\ \E k \in DOMAIN d : k < j /\ d[k].t = "close" /\ d[k].ch = y.serverID

\* A refusal is all that comes for its channel.
Failures(K, u, h, d) ==
  \A j \in DOMAIN d : d[j].t = "failure" =>
    /\ \E x \in K : x.serverID = d[j].ch /\ Fresh(x)
    /\ \A k \in DOMAIN d : d[k].ch = d[j].ch => k = j
    /\ ~ Coming(u, "open", d[j].ch)
    /\ \A b \in Chans : h[b].st # "free" => h[b].peer # d[j].ch

\* Data and closes come for channels that are confirmed by then, and a close
\* comes last.
DataAndCloses(K, d) ==
  /\ \A j \in DOMAIN d : d[j].t \in {"data", "close"} => Told(K, d, j)
  /\ \A j, k \in DOMAIN d : d[k].t = "close" /\ d[j].t \in {"data", "close"} /\ d[j].ch = d[k].ch =>
       j = k \/ (j < k /\ d[j].t = "data")

\* An opening on its way is the first the guest hears of a channel.
UpOpens(K, u, h, d) ==
  \A l \in DOMAIN u : u[l].t = "open" =>
    /\ \E x \in K : x.serverID = u[l].ch /\ Fresh(x)
    /\ \A k \in DOMAIN u : u[k].t = "open" /\ u[k].ch = u[l].ch => k = l
    /\ \A j \in DOMAIN d : d[j].ch # u[l].ch
    /\ \A b \in Chans : h[b].st # "free" /\ h[b].peer = u[l].ch =>
         \E k \in DOMAIN u : k < l /\ u[k].t = "close" /\ u[k].ch = b

\* A close on its way is for a channel the guest still has.
UpCloses(K, u, h, d) ==
  \A l \in DOMAIN u : u[l].t = "close" =>
    /\ \A k \in DOMAIN u : u[k].t = "close" /\ u[k].ch = u[l].ch => k = l
    /\ h[u[l].ch].st \in {"open", "closed"}
    /\ \/ \E x \in K : x.clientID = u[l].ch /\ x.closed = {"SERVER"} /\ x.serverID = h[u[l].ch].peer
       \/ h[u[l].ch].st = "closed" /\ Abandoned(K, u, d, u[l].ch)

\* The guest's channels by their state, and what the parser knows of each.
HostConnecting(K, u, h, d) ==
  \A b \in Chans : h[b].st = "connecting" =>
    /\ \E x \in K : x.serverID = h[b].peer /\ Fresh(x)
    /\ ~ Coming(u, "open", h[b].peer) /\ ~ Coming(u, "close", b)
    /\ \A j \in DOMAIN d : d[j].ch # h[b].peer

HostOpen(K, u, h, d) ==
  \A b \in Chans : h[b].st = "open" =>
    /\ ~ Coming(d, "close", h[b].peer)
    /\ \E x \in K : /\ x.serverID = h[b].peer
                    /\ \/ Fresh(x) /\ Confirmed(d, h[b].peer, b)
                       \/ /\ x.clientID = b /\ "CLIENT" \notin x.closed
                          /\ "SERVER" \in x.closed => Coming(u, "close", b)

HostClosed(K, u, h, d) ==
  \A b \in Chans : h[b].st = "closed" =>
    \/ Abandoned(K, u, d, b)
    \/ \E x \in K : /\ x.serverID = h[b].peer
                    /\ \/ Fresh(x) /\ Confirmed(d, h[b].peer, b) /\ Coming(d, "close", h[b].peer)
                       \/ /\ x.clientID = b
                          /\ x.closed = {"CLIENT"} \/ ("CLIENT" \notin x.closed /\ Coming(d, "close", h[b].peer))
                          /\ "SERVER" \in x.closed => Coming(u, "close", b)

\* No two channels of the guest are one of the attacker's.
PeersDiffer(h) ==
  /\ \A b \in Chans : h[b].st # "free" => h[b].peer \in Chans
  /\ \A b, c \in Chans : h[b].st # "free" /\ h[c].st # "free" /\ h[b].peer = h[c].peer => b = c

\* And what the guest knows of each channel of the parser.
Linked(K, h, d) ==
  \A x \in K : x.clientID # None =>
    \/ /\ h[x.clientID].st \in {"open", "closed"} /\ h[x.clientID].peer = x.serverID
       /\ "CLIENT" \in x.closed => h[x.clientID].st = "closed"
    \/ x.closed = {"SERVER"} /\ Coming(d, "close", x.serverID)

\* The parser and the guest agree, whatever is on its way.
Conf(K, u, h, d) ==
  /\ KnownChannels(K) /\ Typed(u, h, d)
  /\ Confirms(K, h, d) /\ Failures(K, u, h, d) /\ DataAndCloses(K, d)
  /\ UpOpens(K, u, h, d) /\ UpCloses(K, u, h, d)
  /\ HostConnecting(K, u, h, d) /\ HostOpen(K, u, h, d) /\ HostClosed(K, u, h, d)
  /\ PeersDiffer(h) /\ Linked(K, h, d)

\* What the attacker knows of a channel agrees with the parser's channels.
AgreesAt(K, k, c) ==
  /\ k.st = "free" => \A x \in K : x.serverID # c
  /\ k.st = "opening" => \A x \in K : x.serverID = c => Fresh(x)
  /\ k.st = "open" => k.peer # None /\ \E x \in K : x.serverID = c /\ x.clientID = k.peer /\ x.closed = {}
  /\ k.st = "closed" => \E x \in K : x.serverID = c /\ x.clientID # None /\ x.closed = {"SERVER"}
  /\ k.st = "peer closed" =>
       k.peer # None /\ \E x \in K : x.serverID = c /\ x.clientID = k.peer /\ x.closed = {"CLIENT"}

Agrees(K, a) == a \in AttState /\ \A c \in Chans : AgreesAt(K, a[c], c)

\* The attacker has a number of the guest for every channel he uses.
PeersKnown(a) == \A c \in Chans : a[c].st \in {"open", "peer closed"} => a[c].peer # None

\* What is delayed: openings of channels the parser does not know.
DelayedOpens(q, K, a) ==
  /\ q \in Seq(Requests)
  /\ \A i \in DOMAIN q : q[i].t = "open" /\ a[q[i].ch].st = "opening" /\ \A x \in K : x.serverID # q[i].ch
  /\ \A i, j \in DOMAIN q : q[i].ch = q[j].ch => i = j

\* Types of the SSH proxy.
SshTypes ==
  /\ DOMAIN ssh = DOMAIN NoSsh /\ {ssh.auth, ssh.connected, ssh.authDone, ssh.entered} \subseteq BOOLEAN
  /\ ssh.delayed \in Seq(Requests) /\ ssh.held \in Seq(DownPackets) /\ ssh.handled \in Nat
  /\ toHost \in Seq(UpPackets) /\ toProxy \in Seq(DownPackets)
  /\ host \in HostState /\ att \in AttState /\ PeersKnown(att)
  /\ DOMAIN shell = {"st", "user"} /\ shell.st \in {"boot", "used"}

\* How far a connection is: nothing is sent on before the attacker is in, and
\* after that nothing is delayed.
SshControl ==
  /\ ssh.connected => ssh.entered /\ ssh.authDone /\ (ssh.raised = None => ssh.delayed = <<>>)
  /\ ~ ssh.connected => /\ ssh.chs = <<>> /\ toHost = <<>> /\ toProxy = <<>> /\ ssh.held = <<>>
                        /\ ssh.raised = None /\ shell.st = "boot" /\ ~ ssh.authDone
                        /\ \A b \in Chans : host[b] = NoChannel
  /\ back \in {"dialing", "up", "refused"} => ~ ssh.connected
  /\ front = "up" /\ ssh.connected /\ ssh.raised = None => back = "secure"
  /\ ssh.auth => ssh.entered
  /\ freed = "u" /\ ssh.connected => late
  /\ front \in {"up", "closing"} => freed = "none"
  /\ front = "lost" /\ back \in {"up", "secure"} => late

\* The guest is in step while its connection is up, the attacker until the
\* parser raises.
Relays == back = "secure" => Conf(All(ssh.chs), toHost, host, ssh.held \o toProxy)

Known ==
  ssh.raised = None /\ back \in {"dialing", "up", "secure"} =>
    Agrees(All(ssh.chs), att) /\ DelayedOpens(ssh.delayed, All(ssh.chs), att)

\* The packets handled and those delayed are the ones received, in order.
Ordered ==
  /\ ssh.handled + Len(ssh.delayed) = sent
  /\ \A i \in DOMAIN ssh.delayed : ssh.delayed[i].n = ssh.handled + i

\* Types of both ends.
EndsOK ==
  /\ front \in {"up", "closing", "lost"} /\ back \in {"dialing", "up", "secure", "closing", "lost", "refused"}
  /\ freed \in {"none", "u", "f"} /\ {timer, late} \subseteq BOOLEAN /\ sent \in 0 .. Packets

\* The inductive invariant of an SSH connection.
SshIInv == EndsOK /\ SshTypes /\ ParserSound(Parser) /\ SshControl /\ Relays /\ Known /\ Ordered

-----------------------------------------------------------------------------
\* Every nonempty set of numbers has a least one.
LEMMA LeastNat ==
  ASSUME NEW T, T \subseteq Nat, T # {}
  PROVE  \E x \in T : \A y \in T : x <= y
<1> DEFINE R == OpToRel(<, Nat)
<1>1. IsWellFoundedOn(R, Nat)
  BY NatLessThanWellFounded
<1>2. \E x \in T : \A y \in T : ~ (<<y, x>> \in R)
  <2> HIDE DEF R
  <2> QED BY <1>1, WFMin
<1>3. PICK x \in T : \A y \in T : ~ (<<y, x>> \in R)
  BY <1>2
<1>4. \A y \in T : ~ (y < x)
  BY <1>3 DEF OpToRel
<1> QED BY <1>4

-----------------------------------------------------------------------------
(***************************************************************************)
(* The list of channels.                                                   *)
(***************************************************************************)
LEMMA ChannelAppended ==
  ASSUME NEW chs, ChannelsAreOnes(chs), NEW x \in Channel, \A y \in All(chs) : y.serverID # x.serverID, ~ HasLog(x.ses)
  PROVE  /\ ChannelsAreOnes(Append(chs, x)) /\ All(Append(chs, x)) = All(chs) \cup {x}
         /\ LogCount(Append(chs, x)) = LogCount(chs)
<1>1. chs \in Seq(Channel) /\ Len(chs) \in Nat /\ DOMAIN chs = 1 .. Len(chs)
  BY DEF ChannelsAreOnes
<1> DEFINE new == Append(chs, x)
<1>2. /\ new \in Seq(Channel) /\ DOMAIN new = 1 .. (Len(chs) + 1) /\ new[Len(chs) + 1] = x
      /\ \A i \in DOMAIN chs : new[i] = chs[i]
  BY <1>1
<1> HIDE DEF new
<1>3. \A i, j \in DOMAIN new : new[i].serverID = new[j].serverID => i = j
  <2> SUFFICES ASSUME NEW i \in DOMAIN new, NEW j \in DOMAIN new, new[i].serverID = new[j].serverID PROVE i = j
    OBVIOUS
  <2>1. CASE i \in DOMAIN chs /\ j \in DOMAIN chs
    BY <1>2, <2>1 DEF ChannelsAreOnes
  <2>2. CASE i = Len(chs) + 1 /\ j \in DOMAIN chs
    BY <1>2, <2>2 DEF All
  <2>3. CASE j = Len(chs) + 1 /\ i \in DOMAIN chs
    BY <1>2, <2>3 DEF All
  <2> QED BY <1>1, <1>2, <2>1, <2>2, <2>3
<1>4. All(new) = All(chs) \cup {x}
  <2>1. \A y \in All(new) : y \in All(chs) \cup {x}
    BY <1>1, <1>2 DEF All
  <2>2. \A y \in All(chs) \cup {x} : y \in All(new)
    BY <1>1, <1>2 DEF All
  <2> QED BY <2>1, <2>2
<1>5. {i \in DOMAIN new : HasLog(new[i].ses)} = {i \in DOMAIN chs : HasLog(chs[i].ses)}
  BY <1>1, <1>2
<1>6. \A i \in DOMAIN new : new[i].clientID = None => ~ HasLog(new[i].ses)
  BY <1>1, <1>2 DEF ChannelsAreOnes
<1> QED BY <1>2, <1>3, <1>4, <1>5, <1>6 DEF ChannelsAreOnes, LogCount, new

\* An entry of the list replaced, with its number kept: the set and the count of logs follow.
LEMMA ChannelReplaced ==
  ASSUME NEW chs, ChannelsAreOnes(chs), NEW i \in DOMAIN chs, NEW x \in Channel, x.serverID = chs[i].serverID,
         x.clientID = None => ~ HasLog(x.ses)
  PROVE  /\ ChannelsAreOnes([chs EXCEPT ![i] = x])
         /\ All([chs EXCEPT ![i] = x]) = (All(chs) \ {chs[i]}) \cup {x}
         /\ LogCount([chs EXCEPT ![i] = x]) \in Nat /\ LogCount(chs) \in Nat
         /\ LogCount([chs EXCEPT ![i] = x]) + (IF HasLog(chs[i].ses) THEN 1 ELSE 0)
              = LogCount(chs) + (IF HasLog(x.ses) THEN 1 ELSE 0)
<1>1. chs \in Seq(Channel) /\ Len(chs) \in Nat /\ DOMAIN chs = 1 .. Len(chs)
  BY DEF ChannelsAreOnes
<1> DEFINE new == [chs EXCEPT ![i] = x]
<1>2. /\ new \in Seq(Channel) /\ DOMAIN new = DOMAIN chs /\ new[i] = x
      /\ \A j \in DOMAIN chs : j # i => new[j] = chs[j]
  BY <1>1
<1> HIDE DEF new
<1>3. \A k, j \in DOMAIN new : new[k].serverID = new[j].serverID => k = j
  BY <1>2 DEF ChannelsAreOnes
<1>4. All(new) = (All(chs) \ {chs[i]}) \cup {x}
  <2>1. \A j \in DOMAIN chs : chs[j] = chs[i] => j = i
    BY DEF ChannelsAreOnes
  <2>2. \A y \in All(new) : y \in (All(chs) \ {chs[i]}) \cup {x}
    BY <1>2, <2>1 DEF All
  <2>3. \A y \in (All(chs) \ {chs[i]}) \cup {x} : y \in All(new)
    BY <1>2, <2>1 DEF All
  <2> QED BY <2>2, <2>3
<1> DEFINE L == {j \in DOMAIN chs : HasLog(chs[j].ses)}
           M == {j \in DOMAIN new : HasLog(new[j].ses)}
           R == {j \in DOMAIN chs : j # i /\ HasLog(chs[j].ses)}
<1>5. IsFiniteSet(R) /\ Cardinality(R) \in Nat
  <2>1. IsFiniteSet(1 .. Len(chs))
    BY <1>1, FS_Interval
  <2>2. R \subseteq 1 .. Len(chs)
    BY <1>1
  <2> QED BY <2>1, <2>2, FS_Subset, FS_CardinalityType
<1>6. i \notin R /\ L = (IF HasLog(chs[i].ses) THEN R \cup {i} ELSE R)
  OBVIOUS
<1>7. M = (IF HasLog(x.ses) THEN R \cup {i} ELSE R)
  BY <1>2
<1>8. Cardinality(R \cup {i}) = Cardinality(R) + 1
  <2> HIDE DEF R
  <2> QED BY <1>5, <1>6, FS_AddElement
<1>9. /\ Cardinality(L) = Cardinality(R) + (IF HasLog(chs[i].ses) THEN 1 ELSE 0)
      /\ Cardinality(M) = Cardinality(R) + (IF HasLog(x.ses) THEN 1 ELSE 0)
  <2> HIDE DEF R, L, M
  <2> QED BY <1>5, <1>6, <1>7, <1>8
<1>10. LogCount(chs) = Cardinality(L) /\ LogCount(new) = Cardinality(M)
  BY DEF LogCount
<1>11. /\ LogCount(new) \in Nat /\ LogCount(chs) \in Nat
       /\ LogCount(new) + (IF HasLog(chs[i].ses) THEN 1 ELSE 0) = LogCount(chs) + (IF HasLog(x.ses) THEN 1 ELSE 0)
  <2> HIDE DEF R, L, M
  <2> QED BY <1>5, <1>9, <1>10
<1>12. \A j \in DOMAIN new : new[j].clientID = None => ~ HasLog(new[j].ses)
  BY <1>2 DEF ChannelsAreOnes
<1> QED BY <1>2, <1>3, <1>4, <1>11, <1>12 DEF ChannelsAreOnes, new

\* SubSeq: where what it takes is of S.
LEMMA Slice ==
  ASSUME NEW S, NEW q, q \in Seq(S), NEW a, a \in Int, NEW b, b \in Int, \A k \in a .. b : q[k] \in S
  PROVE  /\ SubSeq(q, a, b) \in Seq(S)
         /\ Len(SubSeq(q, a, b)) = (IF a <= b THEN b - a + 1 ELSE 0)
         /\ \A k \in 1 .. (b - a + 1) : SubSeq(q, a, b)[k] = q[a + k - 1]
  BY SubSeqProperties

\* RemoveAt: the entry goes from the set, and from the count of logs if it had one.
LEMMA ChannelRemoved ==
  ASSUME NEW chs, ChannelsAreOnes(chs), NEW i \in DOMAIN chs
  PROVE  /\ ChannelsAreOnes(RemoveAt(chs, i)) /\ All(RemoveAt(chs, i)) = All(chs) \ {chs[i]}
         /\ LogCount(RemoveAt(chs, i)) \in Nat
         /\ LogCount(RemoveAt(chs, i)) + (IF HasLog(chs[i].ses) THEN 1 ELSE 0) = LogCount(chs)
<1>1. chs \in Seq(Channel) /\ Len(chs) \in Nat /\ DOMAIN chs = 1 .. Len(chs) /\ i \in 1 .. Len(chs)
  BY DEF ChannelsAreOnes
<1> DEFINE new == RemoveAt(chs, i)
           From(k) == IF k < i THEN k ELSE k + 1
<1>2. /\ new \in Seq(Channel) /\ DOMAIN new = 1 .. (Len(chs) - 1)
      /\ \A k \in 1 .. (Len(chs) - 1) : new[k] = chs[From(k)]
  <2> DEFINE s1 == SubSeq(chs, 1, i - 1)
             s2 == SubSeq(chs, i + 1, Len(chs))
  <2>1. /\ s1 \in Seq(Channel) /\ Len(s1) = i - 1 /\ \A k \in 1 .. (i - 1) : s1[k] = chs[k]
    <3>1. 1 \in Int /\ i - 1 \in Int /\ \A k \in 1 .. (i - 1) : chs[k] \in Channel
      BY <1>1
    <3>2. /\ s1 \in Seq(Channel) /\ Len(s1) = (IF 1 <= i - 1 THEN i - 1 - 1 + 1 ELSE 0)
          /\ \A k \in 1 .. (i - 1 - 1 + 1) : s1[k] = chs[1 + k - 1]
      BY <3>1, <1>1, Slice
    <3> HIDE DEF s1
    <3>3. Len(s1) = i - 1 /\ i - 1 - 1 + 1 = i - 1
      BY <1>1, <3>2
    <3>4. \A k \in 1 .. (i - 1) : 1 + k - 1 = k
      BY <1>1
    <3> QED BY <3>2, <3>3, <3>4
  <2>2. /\ s2 \in Seq(Channel) /\ Len(s2) = Len(chs) - i /\ \A k \in 1 .. (Len(chs) - i) : s2[k] = chs[i + k]
    <3>1. i + 1 \in Int /\ Len(chs) \in Int /\ \A k \in (i + 1) .. Len(chs) : chs[k] \in Channel
      BY <1>1
    <3>2. /\ s2 \in Seq(Channel) /\ Len(s2) = (IF i + 1 <= Len(chs) THEN Len(chs) - (i + 1) + 1 ELSE 0)
          /\ \A k \in 1 .. (Len(chs) - (i + 1) + 1) : s2[k] = chs[i + 1 + k - 1]
      BY <3>1, <1>1, Slice
    <3> HIDE DEF s2
    <3>3. Len(s2) = Len(chs) - i /\ Len(chs) - (i + 1) + 1 = Len(chs) - i
      BY <1>1, <3>2
    <3>4. \A k \in 1 .. (Len(chs) - i) : i + 1 + k - 1 = i + k
      BY <1>1
    <3> QED BY <3>2, <3>3, <3>4
  <2>3. new = s1 \o s2
    BY DEF RemoveAt
  <2> HIDE DEF s1, s2, new
  <2>4. /\ new \in Seq(Channel) /\ Len(new) = Len(s1) + Len(s2)
        /\ \A k \in 1 .. (Len(s1) + Len(s2)) : new[k] = IF k <= Len(s1) THEN s1[k] ELSE s2[k - Len(s1)]
    BY <2>1, <2>2, <2>3, ConcatProperties
  <2>5. Len(new) = Len(chs) - 1 /\ DOMAIN new = 1 .. (Len(chs) - 1)
    BY <1>1, <2>1, <2>2, <2>4
  <2>6. ASSUME NEW k \in 1 .. (Len(chs) - 1) PROVE new[k] = chs[From(k)]
    <3>1. CASE k < i
      BY <1>1, <2>1, <2>2, <2>4, <3>1
    <3>2. CASE ~ (k < i)
      <4>1. k - (i - 1) \in 1 .. (Len(chs) - i) /\ ~ (k <= Len(s1)) /\ k \in 1 .. (Len(s1) + Len(s2))
        BY <1>1, <2>1, <2>2, <3>2
      <4>2. new[k] = s2[k - (i - 1)] /\ s2[k - (i - 1)] = chs[i + (k - (i - 1))]
        BY <2>1, <2>2, <2>4, <4>1
      <4>3. i + (k - (i - 1)) = k + 1
        BY <1>1
      <4> QED BY <3>2, <4>2, <4>3
    <3> QED BY <3>1, <3>2
  <2> QED BY <2>4, <2>5, <2>6
<1> HIDE DEF new
<1>3. /\ \A k \in DOMAIN new : From(k) \in DOMAIN chs /\ From(k) # i
      /\ \A j \in DOMAIN chs : j # i => \E k \in DOMAIN new : From(k) = j
      /\ \A k, j \in DOMAIN new : From(k) = From(j) => k = j
  <2>1. \A k \in DOMAIN new : From(k) \in DOMAIN chs /\ From(k) # i
    BY <1>1, <1>2
  <2>2. ASSUME NEW j \in DOMAIN chs, j # i PROVE \E k \in DOMAIN new : From(k) = j
    <3>1. CASE j < i
      <4>1. j \in DOMAIN new /\ From(j) = j
        BY <1>1, <1>2, <3>1
      <4> QED BY <4>1
    <3>2. CASE ~ (j < i)
      <4>1. j - 1 \in DOMAIN new /\ From(j - 1) = j
        BY <1>1, <1>2, <2>2, <3>2
      <4> QED BY <4>1
    <3> QED BY <3>1, <3>2
  <2>3. \A k, j \in DOMAIN new : From(k) = From(j) => k = j
    BY <1>1, <1>2
  <2> QED BY <2>1, <2>2, <2>3
<1>4. \A k \in DOMAIN new : new[k] = chs[From(k)]
  BY <1>2
<1> HIDE DEF From
<1>5. \A k, j \in DOMAIN new : new[k].serverID = new[j].serverID => k = j
  BY <1>3, <1>4 DEF ChannelsAreOnes
<1>6. All(new) = All(chs) \ {chs[i]}
  <2>1. \A j \in DOMAIN chs : chs[j] = chs[i] => j = i
    BY DEF ChannelsAreOnes
  <2>2. ASSUME NEW y \in All(new) PROVE y \in All(chs) \ {chs[i]}
    BY <1>3, <1>4, <2>1 DEF All
  <2>3. ASSUME NEW y \in All(chs) \ {chs[i]} PROVE y \in All(new)
    <3>1. PICK j \in DOMAIN chs : y = chs[j] /\ j # i
      BY DEF All
    <3>2. PICK k \in DOMAIN new : From(k) = j
      BY <1>3, <3>1
    <3> QED BY <1>4, <3>1, <3>2 DEF All
  <2> QED BY <2>2, <2>3
<1> DEFINE R == {j \in DOMAIN chs : j # i /\ HasLog(chs[j].ses)}
           L == {j \in DOMAIN chs : HasLog(chs[j].ses)}
           M == {k \in DOMAIN new : HasLog(new[k].ses)}
<1>7. IsFiniteSet(R) /\ Cardinality(R) \in Nat
  <2>1. IsFiniteSet(1 .. Len(chs))
    BY <1>1, FS_Interval
  <2>2. R \subseteq 1 .. Len(chs)
    BY <1>1
  <2> QED BY <2>1, <2>2, FS_Subset, FS_CardinalityType
<1>8. IsFiniteSet(M)
  <2>1. IsFiniteSet(1 .. (Len(chs) - 1))
    BY <1>1, FS_Interval
  <2>2. M \subseteq 1 .. (Len(chs) - 1)
    BY <1>2
  <2> QED BY <2>1, <2>2, FS_Subset
<1>9. Cardinality(M) = Cardinality(R)
  <2> DEFINE g == [k \in M |-> From(k)]
  <2>1. g \in [M -> R]
    BY <1>3, <1>4
  <2>2. \A k, j \in M : k # j => g[k] # g[j]
    BY <1>3
  <2>3. \A y \in R : \E k \in M : g[k] = y
    <3> SUFFICES ASSUME NEW y \in R PROVE \E k \in M : g[k] = y
      OBVIOUS
    <3>1. PICK k \in DOMAIN new : From(k) = y
      BY <1>3
    <3>2. k \in M
      BY <1>4, <3>1
    <3> QED BY <3>1, <3>2
  <2> HIDE DEF g
  <2>4. g \in Bijection(M, R)
    <3> HIDE DEF M, R
    <3> QED BY <2>1, <2>2, <2>3 DEF Bijection, Injection, Surjection, IsInjective
  <2> HIDE DEF M, R
  <2>5. ExistsBijection(M, R)
    BY <2>4 DEF ExistsBijection
  <2> QED BY <1>7, <1>8, <2>5, FS_Bijection
<1>10. i \notin R /\ L = (IF HasLog(chs[i].ses) THEN R \cup {i} ELSE R)
  OBVIOUS
<1>11. Cardinality(L) = Cardinality(R) + (IF HasLog(chs[i].ses) THEN 1 ELSE 0)
  <2> HIDE DEF R, L
  <2>1. Cardinality(R \cup {i}) = Cardinality(R) + 1
    BY <1>7, <1>10, FS_AddElement
  <2> QED BY <1>7, <1>10, <2>1
<1>12. LogCount(chs) = Cardinality(L) /\ LogCount(new) = Cardinality(M)
  BY DEF LogCount
<1>13. LogCount(new) \in Nat /\ LogCount(new) + (IF HasLog(chs[i].ses) THEN 1 ELSE 0) = LogCount(chs)
  <2> HIDE DEF R, L, M
  <2> QED BY <1>7, <1>9, <1>11, <1>12
<1>14. \A k \in DOMAIN new : new[k].clientID = None => ~ HasLog(new[k].ses)
  BY <1>3, <1>4 DEF ChannelsAreOnes
<1> QED BY <1>2, <1>5, <1>6, <1>13, <1>14 DEF ChannelsAreOnes, new

-----------------------------------------------------------------------------
(***************************************************************************)
(* The parser.                                                             *)
(***************************************************************************)
\* A packet of the guest is read on the channel that has its number.
LEMMA GetOfClient ==
  ASSUME NEW chs, ChannelsAreOnes(chs), NEW i \in DOMAIN chs
  PROVE  GetChannel(chs, "CLIENT", chs[i].serverID) = [at |-> i, raised |-> None]
<1> DEFINE n == chs[i].serverID
           hits == {k \in DOMAIN chs : Search(chs[k], "CLIENT") \in {n, None}}
<1>1. ASSUME NEW k \in DOMAIN chs PROVE chs[k].serverID # None
  <2>1. chs[k] \in Channel
    BY DEF ChannelsAreOnes
  <2>2. chs[k].serverID \in Chans
    BY <2>1 DEF Channel
  <2> QED BY <2>2, ProxyAssumption
<1>2. hits = {i}
  BY <1>1 DEF Search, ChannelsAreOnes
<1>3. (CHOOSE k \in hits : \A l \in hits : k <= l) = i
  <2>1. i \in Nat
    BY DEF ChannelsAreOnes
  <2> HIDE DEF hits
  <2> QED BY <1>2, <2>1
<1>4. i # 0 /\ Search(chs[i], "CLIENT") # None
  BY <1>1 DEF Search, ChannelsAreOnes
<1> QED BY <1>2, <1>3, <1>4 DEF GetChannel

\* A packet of the attacker is read on the channel he means, unless one before
\* it has no number yet.
LEMMA GetOfServer ==
  ASSUME NEW chs, ChannelsAreOnes(chs), NEW i \in DOMAIN chs, chs[i].clientID # None,
         \A k \in DOMAIN chs : chs[k].clientID = chs[i].clientID => k = i
  PROVE  LET g == GetChannel(chs, "SERVER", chs[i].clientID)
         IN  g = [at |-> 0, raised |-> "pending"] \/ g = [at |-> i, raised |-> None]
<1> DEFINE n == chs[i].clientID
           hits == {k \in DOMAIN chs : Search(chs[k], "SERVER") \in {n, None}}
           m == CHOOSE k \in hits : \A l \in hits : k <= l
<1>1. i \in hits /\ hits \subseteq DOMAIN chs /\ hits \subseteq Nat /\ 0 \notin hits
  BY DEF Search, ChannelsAreOnes
<1>2. \E k \in hits : \A l \in hits : k <= l
  <2> HIDE DEF hits
  <2> QED BY <1>1, LeastNat
<1>3. m \in hits
  <2> HIDE DEF hits
  <2> QED BY <1>2
<1>4. m # 0 /\ m \in DOMAIN chs /\ (Search(chs[m], "SERVER") = None \/ m = i)
  <2> HIDE DEF m
  <2> QED BY <1>1, <1>3 DEF Search
<1> DEFINE g == GetChannel(chs, "SERVER", n)
<1>5. g = CASE m = 0 -> [at |-> 0, raised |-> "unknown"]
            [] m # 0 /\ Search(chs[m], "SERVER") = None -> [at |-> 0, raised |-> "pending"]
            [] OTHER -> [at |-> m, raised |-> None]
  BY <1>1 DEF GetChannel
<1> HIDE DEF m, g
<1>6. g = [at |-> 0, raised |-> "pending"] \/ g = [at |-> i, raised |-> None]
  <2>1. CASE Search(chs[m], "SERVER") = None
    BY <1>4, <1>5, <2>1
  <2>2. CASE Search(chs[m], "SERVER") # None
    BY <1>4, <1>5, <2>2
  <2> QED BY <2>1, <2>2
<1> QED BY <1>6 DEF g

\* What a packet of the guest does.
LEMMA ClientParse ==
  ASSUME NEW x, ParserSound(x), x.raised = None, NEW p \in DownPackets, NEW c \in All(x.chs), c.serverID = p.ch,
         p.t = "confirm" => p.from \in Chans, p.t = "failure" => c.clientID = None
  PROVE  LET y == Parse(x, "CLIENT", p)
             K == All(x.chs)
         IN  /\ ParserSound(y)
             /\ \/ y.raised = None /\ y.out = "pass"
                \/ p.t = "data" /\ y.raised = "no session"
             /\ p.t = "confirm" => All(y.chs) = (K \ {c}) \cup {[c EXCEPT !.clientID = p.from]}
             /\ p.t = "failure" => All(y.chs) = K \ {c}
             /\ p.t = "data" => All(y.chs) = K
             /\ p.t = "close" =>
                  All(y.chs) = IF "SERVER" \in c.closed THEN K \ {c}
                               ELSE (K \ {c}) \cup {[c EXCEPT !.closed = @ \cup {"CLIENT"}]}
<1> DEFINE y == Parse(x, "CLIENT", p)
           K == All(x.chs)
<1>1. PICK i \in DOMAIN x.chs : c = x.chs[i]
  BY DEF All
<1>2. ChannelsAreOnes(x.chs) /\ c \in Channel /\ x \in ParserState /\ DOMAIN x.chs \subseteq Nat \ {0}
  BY <1>1 DEF ParserSound, ChannelsAreOnes
<1>3. GetChannel(x.chs, "CLIENT", p.ch) = [at |-> i, raised |-> None]
  BY <1>1, <1>2, GetOfClient
<1>4. y = CASE p.t = "confirm" -> ParseConfirmation(x, i, "CLIENT", p)
                    [] p.t = "failure" -> Pass([x EXCEPT !.chs = RemoveAt(@, i)])
                    [] p.t = "request" -> ParseRequest(x, i, p)
                    [] p.t = "data" -> ParseData(x, i)
                    [] p.t = "close" -> ParseClose(x, i, "CLIENT")
  BY <1>2, <1>3 DEF Parse, DownPackets
<1>5. CASE p.t = "confirm"
  <2> DEFINE ch == [c EXCEPT !.clientID = p.from]
             new == [x.chs EXCEPT ![i] = ch]
  <2>1. y = [x EXCEPT !.chs = new, !.out = "pass"]
    BY <1>1, <1>2, <1>4, <1>5 DEF ParseConfirmation, Pass, ParserState
  <2>2. ch \in Channel /\ ch.serverID = x.chs[i].serverID /\ ch.ses = c.ses /\ ch.clientID = p.from
    BY <1>1, <1>2, <1>5 DEF Channel
  <2>3. p.from # None
    BY <1>5, ProxyAssumption
  <2>4. ChannelsAreOnes(new) /\ All(new) = (K \ {c}) \cup {ch} /\ LogCount(new) = LogCount(x.chs)
    <3> HIDE DEF K, ch
    <3>1. /\ ChannelsAreOnes(new)
         /\ All(new) = (All(x.chs) \ {x.chs[i]}) \cup {ch}
         /\ LogCount(new) \in Nat /\ LogCount(x.chs) \in Nat
         /\ LogCount(new) + (IF HasLog(x.chs[i].ses) THEN 1 ELSE 0)
              = LogCount(x.chs) + (IF HasLog(ch.ses) THEN 1 ELSE 0)
      BY <1>1, <1>2, <2>2, <2>3, ChannelReplaced
    <3>2. LogCount(new) = LogCount(x.chs)
      BY <3>1, <2>2, <1>1
    <3> QED BY <3>1, <3>2, <1>1 DEF K
  <2> HIDE DEF new
  <2>5. ParserSound(y) /\ y.chs = new /\ y.raised = None /\ y.out = "pass"
    BY <1>2, <2>1, <2>4 DEF ParserSound, ParserState, ChannelsAreOnes
  <2> QED BY <1>5, <2>4, <2>5
<1>6. CASE p.t = "failure"
  <2> DEFINE new == RemoveAt(x.chs, i)
  <2>1. y = [x EXCEPT !.chs = new, !.out = "pass"]
    BY <1>2, <1>4, <1>6 DEF Pass, ParserState
  <2>2. /\ ChannelsAreOnes(new) /\ All(new) = K \ {c} /\ LogCount(new) \in Nat
        /\ LogCount(new) + (IF HasLog(x.chs[i].ses) THEN 1 ELSE 0) = LogCount(x.chs)
    BY <1>1, <1>2, ChannelRemoved
  <2>3. ~ HasLog(x.chs[i].ses)
    BY <1>1, <1>2, <1>6 DEF ChannelsAreOnes
  <2> HIDE DEF new
  <2>4. LogCount(new) = LogCount(x.chs)
    BY <2>2, <2>3
  <2>5. ParserSound(y) /\ y.chs = new /\ y.raised = None /\ y.out = "pass"
    BY <1>2, <2>1, <2>2, <2>4 DEF ParserSound, ParserState, ChannelsAreOnes
  <2> QED BY <1>6, <2>2, <2>5
<1>7. CASE p.t = "data"
  <2>1. y = [x EXCEPT !.raised = "no session"] \/ y = [x EXCEPT !.out = "pass"]
    BY <1>4, <1>7 DEF ParseData, Pass
  <2>2. ParserSound(y) /\ y.chs = x.chs /\ (y.raised = "no session" \/ (y.raised = None /\ y.out = "pass"))
    BY <1>2, <2>1 DEF ParserSound, ParserState, Outcomes
  <2> QED BY <1>7, <2>2
<1>8. CASE p.t = "close"
  <2>1. c.closed \in SUBSET Ends /\ (c.closed \cup {"CLIENT"} # {"SERVER", "CLIENT"} <=> "SERVER" \notin c.closed)
    BY <1>2 DEF Channel, Ends
  <2>2. CASE "SERVER" \in c.closed
    <3> DEFINE new == RemoveAt(x.chs, i)
    <3>1. y = [x EXCEPT !.chs = new, !.logs = IF HasLog(c.ses) THEN @ - 1 ELSE @, !.out = "pass"]
      BY <1>1, <1>2, <1>4, <1>8, <2>1, <2>2 DEF ParseClose, ChannelClosed, Pass, ParserState
    <3>2. /\ ChannelsAreOnes(new) /\ All(new) = K \ {c} /\ LogCount(new) \in Nat
          /\ LogCount(new) + (IF HasLog(c.ses) THEN 1 ELSE 0) = LogCount(x.chs)
      BY <1>1, <1>2, ChannelRemoved
    <3> HIDE DEF new
    <3>3. x.logs \in Nat /\ x.orphans \in Nat /\ x.logs = LogCount(x.chs) + x.orphans
      BY <1>2 DEF ParserSound, ParserState
    <3>4. /\ (IF HasLog(c.ses) THEN x.logs - 1 ELSE x.logs) = LogCount(new) + x.orphans
          /\ (IF HasLog(c.ses) THEN x.logs - 1 ELSE x.logs) \in Nat
      BY <3>2, <3>3
    <3>5. ParserSound(y) /\ y.chs = new /\ y.raised = None /\ y.out = "pass"
      BY <1>2, <3>1, <3>2, <3>4 DEF ParserSound, ParserState, ChannelsAreOnes
    <3> QED BY <1>8, <2>2, <3>2, <3>5
  <2>3. CASE "SERVER" \notin c.closed
    <3> DEFINE ch == [c EXCEPT !.closed = @ \cup {"CLIENT"}]
               new == [x.chs EXCEPT ![i] = ch]
    <3>1. y = [x EXCEPT !.chs = new, !.out = "pass"]
      BY <1>1, <1>2, <1>4, <1>8, <2>1, <2>3 DEF ParseClose, Pass, ParserState
    <3>2. ch \in Channel /\ ch.serverID = x.chs[i].serverID /\ ch.ses = c.ses /\ ch.clientID = c.clientID
      BY <1>1, <1>2 DEF Channel, Ends
    <3>3. /\ ChannelsAreOnes(new) /\ All(new) = (K \ {c}) \cup {ch} /\ LogCount(new) = LogCount(x.chs)
      <4> HIDE DEF K, ch
      <4>1. ch.clientID = None => ~ HasLog(ch.ses)
        BY <1>1, <1>2, <3>2 DEF ChannelsAreOnes
      <4>2. /\ ChannelsAreOnes(new) /\ All(new) = (All(x.chs) \ {x.chs[i]}) \cup {ch}
            /\ LogCount(new) \in Nat /\ LogCount(x.chs) \in Nat
            /\ LogCount(new) + (IF HasLog(x.chs[i].ses) THEN 1 ELSE 0)
              = LogCount(x.chs) + (IF HasLog(ch.ses) THEN 1 ELSE 0)
        BY <1>1, <1>2, <3>2, <4>1, ChannelReplaced
      <4>3. LogCount(new) = LogCount(x.chs)
        BY <4>2, <3>2, <1>1
      <4> QED BY <4>2, <4>3, <1>1 DEF K
    <3> HIDE DEF new
    <3>4. ParserSound(y) /\ y.chs = new /\ y.raised = None /\ y.out = "pass"
      BY <1>2, <3>1, <3>3 DEF ParserSound, ParserState, ChannelsAreOnes
    <3> QED BY <1>8, <2>3, <3>3, <3>4
  <2> QED BY <2>2, <2>3
<1>9. p.t \in {"confirm", "failure", "data", "close"}
  BY DEF DownPackets
<1> QED BY <1>5, <1>6, <1>7, <1>8, <1>9

\* Opening a channel.
LEMMA ServerOpens ==
  ASSUME NEW x, ParserSound(x), x.raised = None, NEW p \in Requests, p.t = "open", \A k \in All(x.chs) : k.serverID # p.ch
  PROVE  LET y == Parse(x, "SERVER", p)
         IN  /\ ParserSound(y) /\ y.raised = None
             /\ \/ y.out = "answer" /\ y.chs = x.chs
                \/ /\ y.out = "pass"
                   /\ \E s \in {None, "forward"} : All(y.chs) = All(x.chs) \cup {CreateChannel("SERVER", p.ch, s)}
<1> DEFINE y == Parse(x, "SERVER", p)
<1>1. y = ParseOpen(x, "SERVER", p)
  BY DEF Parse
<1>2. x \in ParserState /\ ChannelsAreOnes(x.chs) /\ x.logs = LogCount(x.chs) + x.orphans
  BY DEF ParserSound
<1>3. ASSUME NEW s \in {None, "forward"}
      PROVE  LET ch == CreateChannel("SERVER", p.ch, s)
             IN  ChannelsAreOnes(Append(x.chs, ch)) /\ All(Append(x.chs, ch)) = All(x.chs) \cup {ch}
                 /\ LogCount(Append(x.chs, ch)) = LogCount(x.chs)
  <2> DEFINE ch == CreateChannel("SERVER", p.ch, s)
  <2>1. ch \in Channel /\ ch.serverID = p.ch /\ ch.ses = s
    BY DEF CreateChannel, Channel, Requests, Services
  <2>2. ~ HasLog(ch.ses)
    BY <2>1, ProxyAssumption DEF HasLog
  <2>3. ChannelsAreOnes(Append(x.chs, ch)) /\ All(Append(x.chs, ch)) = All(x.chs) \cup {ch}
        /\ LogCount(Append(x.chs, ch)) = LogCount(x.chs)
    <3> HIDE DEF ch
    <3> QED BY <1>2, <2>1, <2>2, ChannelAppended
  <2> QED BY <2>3
<1>4. CASE p.what = "session"
  <2> DEFINE ch == CreateChannel("SERVER", p.ch, None)
  <2>1. y = [x EXCEPT !.chs = Append(@, ch), !.timer = TRUE, !.out = "pass"]
    BY <1>1, <1>2, <1>4 DEF ParseOpen, Pass, ParserState
  <2>2. ParserSound(y) /\ y.raised = None /\ y.out = "pass" /\ All(y.chs) = All(x.chs) \cup {ch}
    <3>1. ChannelsAreOnes(Append(x.chs, ch)) /\ All(Append(x.chs, ch)) = All(x.chs) \cup {ch}
          /\ LogCount(Append(x.chs, ch)) = LogCount(x.chs)
      BY <1>3
    <3> HIDE DEF ch
    <3> QED BY <1>2, <2>1, <3>1 DEF ParserSound, ParserState, ChannelsAreOnes
  <2> QED BY <2>2
<1>5. CASE p.what # "session" /\ Forwarding
  <2> DEFINE ch == CreateChannel("SERVER", p.ch, "forward")
  <2>1. y = [x EXCEPT !.chs = Append(@, ch), !.out = "pass"]
    BY <1>1, <1>2, <1>5 DEF ParseOpen, Pass, ParserState
  <2>2. ParserSound(y) /\ y.raised = None /\ y.out = "pass" /\ All(y.chs) = All(x.chs) \cup {ch}
    <3>1. ChannelsAreOnes(Append(x.chs, ch)) /\ All(Append(x.chs, ch)) = All(x.chs) \cup {ch}
          /\ LogCount(Append(x.chs, ch)) = LogCount(x.chs)
      BY <1>3
    <3> HIDE DEF ch
    <3> QED BY <1>2, <2>1, <3>1 DEF ParserSound, ParserState, ChannelsAreOnes
  <2> QED BY <2>2
<1>6. CASE p.what # "session" /\ ~ Forwarding
  <2>1. y = [x EXCEPT !.out = "answer"]
    BY <1>1, <1>6 DEF ParseOpen, Answer
  <2>2. ParserSound(y) /\ y.raised = None /\ y.out = "answer" /\ y.chs = x.chs
    BY <1>2, <2>1 DEF ParserSound, ParserState
  <2> QED BY <2>2
<1> QED BY <1>4, <1>5, <1>6

\* What another packet of the attacker does.
LEMMA ServerParse ==
  ASSUME NEW x, ParserSound(x), x.raised = None, NEW p \in Requests, p.t # "open",
         NEW c \in All(x.chs), c.clientID = p.ch, \A k \in All(x.chs) : k.clientID = p.ch => k = c
  PROVE  LET y == Parse(x, "SERVER", p)
             K == All(x.chs)
         IN  /\ ParserSound(y)
             /\ \/ y.raised \in {"pending", "no session"} /\ All(y.chs) = K
                \/ /\ y.raised = None /\ y.out \in {"pass", "answer"}
                   /\ p.t = "request" => \E s \in Services : All(y.chs) = (K \ {c}) \cup {[c EXCEPT !.ses = s]}
                   /\ p.t = "data" => All(y.chs) = K
                   /\ p.t = "close" =>
                        y.out = "pass" /\
                        All(y.chs) = IF "CLIENT" \in c.closed THEN K \ {c}
                                     ELSE (K \ {c}) \cup {[c EXCEPT !.closed = @ \cup {"SERVER"}]}
<1> DEFINE y == Parse(x, "SERVER", p)
           K == All(x.chs)
           g == GetChannel(x.chs, "SERVER", p.ch)
<1>1. PICK i \in DOMAIN x.chs : c = x.chs[i]
  BY DEF All
<1>2. /\ ChannelsAreOnes(x.chs) /\ c \in Channel /\ x \in ParserState /\ DOMAIN x.chs \subseteq Nat \ {0}
      /\ x.logs = LogCount(x.chs) + x.orphans
  BY <1>1 DEF ParserSound, ChannelsAreOnes
<1>3. g = [at |-> 0, raised |-> "pending"] \/ g = [at |-> i, raised |-> None]
  <2>1. c.clientID # None
    BY ProxyAssumption DEF Requests
  <2>2. \A k \in DOMAIN x.chs : x.chs[k].clientID = x.chs[i].clientID => k = i
    BY <1>1, <1>2 DEF All, ChannelsAreOnes
  <2> QED BY <1>1, <1>2, <2>1, <2>2, GetOfServer
<1>4. CASE g = [at |-> 0, raised |-> "pending"]
  <2>1. y = [x EXCEPT !.raised = "pending"]
    BY <1>4 DEF Parse
  <2>2. ParserSound(y) /\ y.raised = "pending" /\ All(y.chs) = K
    BY <1>2, <2>1 DEF ParserSound, ParserState, Outcomes
  <2> QED BY <2>2
<1>5. CASE g = [at |-> i, raised |-> None]
  <2>1. y = CASE p.t = "confirm" -> ParseConfirmation(x, i, "SERVER", p)
                    [] p.t = "failure" -> Pass([x EXCEPT !.chs = RemoveAt(@, i)])
                    [] p.t = "request" -> ParseRequest(x, i, p)
                    [] p.t = "data" -> ParseData(x, i)
                    [] p.t = "close" -> ParseClose(x, i, "SERVER")
    <3>1. i # 0 /\ g.at = i /\ g.raised = None
      BY <1>2, <1>5
    <3> HIDE DEF g
    <3>2. y = LET gg == GetChannel(x.chs, "SERVER", p.ch)
                  ii == gg.at
              IN  IF ii = 0 THEN [x EXCEPT !.raised = gg.raised]
                  ELSE CASE p.t = "confirm" -> ParseConfirmation(x, ii, "SERVER", p)
                    [] p.t = "failure" -> Pass([x EXCEPT !.chs = RemoveAt(@, ii)])
                    [] p.t = "request" -> ParseRequest(x, ii, p)
                    [] p.t = "data" -> ParseData(x, ii)
                    [] p.t = "close" -> ParseClose(x, ii, "SERVER")
      BY DEF Parse
    <3> QED BY <3>1, <3>2 DEF g
  <2>2. CASE p.t = "request"
    <3>1. y = ParseRequest(x, i, p)
      BY <2>1, <2>2
    <3>2. CASE p.what \in {"shell", "exec", "sftp"} /\ (SftpOn \/ p.what # "sftp")
      <4> DEFINE ch == [c EXCEPT !.ses = p.what]
                 new == [x.chs EXCEPT ![i] = ch]
      <4>1. y = [x EXCEPT !.chs = new, !.logs = IF HasLog(p.what) THEN @ + 1 ELSE @,
                          !.orphans = IF HasLog(c.ses) THEN @ + 1 ELSE @, !.out = "pass"]
        BY <1>1, <1>2, <3>1, <3>2 DEF ParseRequest, Pass, ParserState
      <4>2. ch \in Channel /\ ch.serverID = x.chs[i].serverID /\ ch.ses = p.what /\ ch.clientID = c.clientID
        BY <1>1, <1>2, <3>2 DEF Channel, Services
      <4>3. ch.clientID # None
        BY <4>2, ProxyAssumption DEF Requests
      <4>4. ChannelsAreOnes(new) /\ All(new) = (K \ {c}) \cup {ch} /\ LogCount(new) \in Nat /\ LogCount(x.chs) \in Nat
            /\ LogCount(new) + (IF HasLog(c.ses) THEN 1 ELSE 0) = LogCount(x.chs) + (IF HasLog(p.what) THEN 1 ELSE 0)
        <5> HIDE DEF K, ch
        <5>1. /\ ChannelsAreOnes(new) /\ All(new) = (All(x.chs) \ {x.chs[i]}) \cup {ch}
              /\ LogCount(new) \in Nat /\ LogCount(x.chs) \in Nat
              /\ LogCount(new) + (IF HasLog(x.chs[i].ses) THEN 1 ELSE 0)
                   = LogCount(x.chs) + (IF HasLog(ch.ses) THEN 1 ELSE 0)
          BY <1>1, <1>2, <4>2, <4>3, ChannelReplaced
        <5> QED BY <5>1, <4>2, <1>1 DEF K
      <4> HIDE DEF new
      <4>5. x.logs \in Nat /\ x.orphans \in Nat
        BY <1>2 DEF ParserState
      <4>6. (IF HasLog(p.what) THEN x.logs + 1 ELSE x.logs)
              = LogCount(new) + (IF HasLog(c.ses) THEN x.orphans + 1 ELSE x.orphans)
        BY <1>2, <4>4, <4>5
      <4> DEFINE l == IF HasLog(p.what) THEN x.logs + 1 ELSE x.logs
                 o == IF HasLog(c.ses) THEN x.orphans + 1 ELSE x.orphans
      <4>a. l \in Nat /\ o \in Nat /\ l = LogCount(new) + o
        BY <4>5, <4>6
      <4>b. y = [x EXCEPT !.chs = new, !.logs = l, !.orphans = o, !.out = "pass"]
        BY <4>1
      <4> HIDE DEF l, o
      <4>c. new \in Seq(Channel)
        BY <4>4 DEF ChannelsAreOnes
      <4>d. y \in ParserState
        BY <1>2, <4>a, <4>b, <4>c DEF ParserState
      <4>e. y.chs = new /\ y.logs = l /\ y.orphans = o /\ y.raised = x.raised /\ y.out = "pass"
        BY <1>2, <4>b DEF ParserState
      <4>7. ParserSound(y) /\ y.chs = new /\ y.raised = None /\ y.out = "pass"
        BY <1>2, <4>a, <4>d, <4>e, <4>4 DEF ParserSound
      <4>8. p.what \in Services
        BY <3>2 DEF Services
      <4> QED BY <2>2, <4>4, <4>7, <4>8
    <3>3. CASE ~ (p.what \in {"shell", "exec", "sftp"} /\ (SftpOn \/ p.what # "sftp"))
      <4>1. y = [x EXCEPT !.out = "answer"] \/ y = [x EXCEPT !.out = "pass"]
        BY <3>1, <3>3 DEF ParseRequest, Pass, Answer
      <4>2. ParserSound(y) /\ y.raised = None /\ y.out \in {"pass", "answer"} /\ y.chs = x.chs
        BY <1>2, <4>1 DEF ParserSound, ParserState
      <4>3. c.ses \in Services /\ [c EXCEPT !.ses = c.ses] = c
        BY <1>2 DEF Channel
      <4>4. All(y.chs) = (K \ {c}) \cup {[c EXCEPT !.ses = c.ses]}
        BY <4>2, <4>3
      <4> QED BY <2>2, <4>2, <4>3, <4>4
    <3> QED BY <3>2, <3>3
  <2>3. CASE p.t = "data"
    <3>1. y = [x EXCEPT !.raised = "no session"] \/ y = [x EXCEPT !.out = "pass"]
      BY <2>1, <2>3 DEF ParseData, Pass
    <3>2. ParserSound(y) /\ y.chs = x.chs /\ (y.raised = "no session" \/ (y.raised = None /\ y.out = "pass"))
      BY <1>2, <3>1 DEF ParserSound, ParserState, Outcomes
    <3> QED BY <2>3, <3>2
  <2>4. CASE p.t = "close"
    <3>1. c.closed \in SUBSET Ends /\ (c.closed \cup {"SERVER"} # {"SERVER", "CLIENT"} <=> "CLIENT" \notin c.closed)
      BY <1>2 DEF Channel, Ends
    <3>2. CASE "CLIENT" \in c.closed
      <4> DEFINE new == RemoveAt(x.chs, i)
      <4>1. y = [x EXCEPT !.chs = new, !.logs = IF HasLog(c.ses) THEN @ - 1 ELSE @, !.out = "pass"]
        BY <1>1, <1>2, <2>1, <2>4, <3>1, <3>2 DEF ParseClose, ChannelClosed, Pass, ParserState
      <4>2. /\ ChannelsAreOnes(new) /\ All(new) = K \ {c} /\ LogCount(new) \in Nat
            /\ LogCount(new) + (IF HasLog(c.ses) THEN 1 ELSE 0) = LogCount(x.chs)
        BY <1>1, <1>2, ChannelRemoved
      <4> HIDE DEF new
      <4>3. x.logs \in Nat /\ x.orphans \in Nat
        BY <1>2 DEF ParserState
      <4>4. /\ (IF HasLog(c.ses) THEN x.logs - 1 ELSE x.logs) = LogCount(new) + x.orphans
            /\ (IF HasLog(c.ses) THEN x.logs - 1 ELSE x.logs) \in Nat
        BY <1>2, <4>2, <4>3
      <4>5. ParserSound(y) /\ y.chs = new /\ y.raised = None /\ y.out = "pass"
        BY <1>2, <4>1, <4>2, <4>4 DEF ParserSound, ParserState, ChannelsAreOnes
      <4> QED BY <2>4, <3>2, <4>2, <4>5
    <3>3. CASE "CLIENT" \notin c.closed
      <4> DEFINE ch == [c EXCEPT !.closed = @ \cup {"SERVER"}]
                 new == [x.chs EXCEPT ![i] = ch]
      <4>1. y = [x EXCEPT !.chs = new, !.out = "pass"]
        BY <1>1, <1>2, <2>1, <2>4, <3>1, <3>3 DEF ParseClose, Pass, ParserState
      <4>2. ch \in Channel /\ ch.serverID = x.chs[i].serverID /\ ch.ses = c.ses /\ ch.clientID = c.clientID
        BY <1>1, <1>2 DEF Channel, Ends
      <4>3. ChannelsAreOnes(new) /\ All(new) = (K \ {c}) \cup {ch} /\ LogCount(new) = LogCount(x.chs)
        <5> HIDE DEF K, ch
        <5>1. ch.clientID = None => ~ HasLog(ch.ses)
          BY <1>1, <1>2, <4>2 DEF ChannelsAreOnes
        <5>2. /\ ChannelsAreOnes(new) /\ All(new) = (All(x.chs) \ {x.chs[i]}) \cup {ch}
              /\ LogCount(new) \in Nat /\ LogCount(x.chs) \in Nat
              /\ LogCount(new) + (IF HasLog(x.chs[i].ses) THEN 1 ELSE 0)
                   = LogCount(x.chs) + (IF HasLog(ch.ses) THEN 1 ELSE 0)
          BY <1>1, <1>2, <4>2, <5>1, ChannelReplaced
        <5>3. LogCount(new) = LogCount(x.chs)
          BY <5>2, <4>2, <1>1
        <5> QED BY <5>2, <5>3, <1>1 DEF K
      <4> HIDE DEF new
      <4>4. ParserSound(y) /\ y.chs = new /\ y.raised = None /\ y.out = "pass"
        BY <1>2, <4>1, <4>3 DEF ParserSound, ParserState, ChannelsAreOnes
      <4> QED BY <2>4, <3>3, <4>3, <4>4
    <3> QED BY <3>2, <3>3
  <2>5. p.t \in {"request", "data", "close"}
    BY DEF Requests
  <2> QED BY <2>2, <2>3, <2>4, <2>5
<1> QED BY <1>3, <1>4, <1>5

-----------------------------------------------------------------------------
(***************************************************************************)
(* Steps of the guest.                                                     *)
(***************************************************************************)
\* The first item of f is taken.
Less(g, f, e) ==
  /\ e \in DOMAIN f /\ \A j \in DOMAIN f : e <= j
  /\ DOMAIN g = DOMAIN f \ {e} /\ \A j \in DOMAIN g : g[j] = f[j]

\* An item is put behind the last one of f.
More(g, f, e, p) ==
  /\ e \in Nat /\ \A j \in DOMAIN f : j < e
  /\ DOMAIN g = DOMAIN f \cup {e} /\ g[e] = p /\ \A j \in DOMAIN f : g[j] = f[j]

\* The guest takes a packet that opens and closes nothing.
LEMMA TakenUp ==
  ASSUME NEW K, NEW u, NEW h, NEW d, Conf(K, u, h, d), NEW u2, NEW e, Less(u2, u, e), u[e].t \notin {"open", "close"}
  PROVE  Conf(K, u2, h, d)
<1>1. \A l \in DOMAIN u2 : l \in DOMAIN u /\ u2[l] = u[l]
  BY DEF Less
<1>2. \A l \in DOMAIN u : u[l].t \in {"open", "close"} => l \in DOMAIN u2
  BY DEF Less
<1>3. \A c : \A t \in {"open", "close"} : Coming(u2, t, c) <=> Coming(u, t, c)
  BY <1>1, <1>2 DEF Coming
<1>4. \A b : Abandoned(K, u2, d, b) <=> Abandoned(K, u, d, b)
  BY <1>3 DEF Abandoned
<1>5. KnownChannels(K) /\ Confirms(K, h, d) /\ DataAndCloses(K, d) /\ PeersDiffer(h) /\ Linked(K, h, d)
  BY DEF Conf
<1>6. Typed(u2, h, d)
  BY <1>1 DEF Conf, Typed, Less
<1>7. Failures(K, u2, h, d)
  BY <1>3 DEF Conf, Failures
<1>8. UpOpens(K, u2, h, d)
  <2> SUFFICES ASSUME NEW l \in DOMAIN u2, u2[l].t = "open"
               PROVE  /\ \E x \in K : x.serverID = u2[l].ch /\ Fresh(x)
                      /\ \A k \in DOMAIN u2 : u2[k].t = "open" /\ u2[k].ch = u2[l].ch => k = l
                      /\ \A j \in DOMAIN d : d[j].ch # u2[l].ch
                      /\ \A b \in Chans : h[b].st # "free" /\ h[b].peer = u2[l].ch =>
                           \E k \in DOMAIN u2 : k < l /\ u2[k].t = "close" /\ u2[k].ch = b
    BY DEF UpOpens
  <2>1. UpOpens(K, u, h, d) /\ l \in DOMAIN u /\ u[l].t = "open" /\ u[l] = u2[l]
    BY <1>1 DEF Conf
  <2> QED BY <1>1, <1>2, <2>1 DEF UpOpens
<1>9. UpCloses(K, u2, h, d)
  BY <1>1, <1>4 DEF Conf, UpCloses
<1>10. HostConnecting(K, u2, h, d)
  BY <1>3 DEF Conf, HostConnecting
<1>11. HostOpen(K, u2, h, d)
  BY <1>3 DEF Conf, HostOpen
<1>12. HostClosed(K, u2, h, d)
  BY <1>3, <1>4 DEF Conf, HostClosed
<1> QED BY <1>5, <1>6, <1>7, <1>8, <1>9, <1>10, <1>11, <1>12 DEF Conf

\* A packet that opens and closes nothing is sent to the guest.
LEMMA AddedUp ==
  ASSUME NEW K, NEW u, NEW h, NEW d, Conf(K, u, h, d), NEW u2, NEW e, NEW p \in UpPackets, More(u2, u, e, p),
         p.t \notin {"open", "close"}
  PROVE  Conf(K, u2, h, d)
<1>1. \A l \in DOMAIN u : l \in DOMAIN u2 /\ u2[l] = u[l]
  BY DEF More
<1>2. \A l \in DOMAIN u2 : u2[l].t \in {"open", "close"} => l \in DOMAIN u
  BY DEF More
<1>3. \A c : \A t \in {"open", "close"} : Coming(u2, t, c) <=> Coming(u, t, c)
  BY <1>1, <1>2 DEF Coming
<1>4. \A b : Abandoned(K, u2, d, b) <=> Abandoned(K, u, d, b)
  BY <1>3 DEF Abandoned
<1>5. KnownChannels(K) /\ Confirms(K, h, d) /\ DataAndCloses(K, d) /\ PeersDiffer(h) /\ Linked(K, h, d)
  BY DEF Conf
<1>6. Typed(u2, h, d)
  BY <1>1 DEF Conf, Typed, More
<1>7. Failures(K, u2, h, d)
  BY <1>3 DEF Conf, Failures
<1>8. UpOpens(K, u2, h, d)
  <2> SUFFICES ASSUME NEW l \in DOMAIN u2, u2[l].t = "open"
               PROVE  /\ \E x \in K : x.serverID = u2[l].ch /\ Fresh(x)
                      /\ \A k \in DOMAIN u2 : u2[k].t = "open" /\ u2[k].ch = u2[l].ch => k = l
                      /\ \A j \in DOMAIN d : d[j].ch # u2[l].ch
                      /\ \A b \in Chans : h[b].st # "free" /\ h[b].peer = u2[l].ch =>
                           \E k \in DOMAIN u2 : k < l /\ u2[k].t = "close" /\ u2[k].ch = b
    BY DEF UpOpens
  <2>1. UpOpens(K, u, h, d) /\ l \in DOMAIN u /\ u[l].t = "open" /\ u[l] = u2[l]
    BY <1>1, <1>2 DEF Conf
  <2> QED BY <1>1, <1>2, <2>1 DEF UpOpens
<1>9. UpCloses(K, u2, h, d)
  BY <1>1, <1>2, <1>4 DEF Conf, UpCloses
<1>10. HostConnecting(K, u2, h, d)
  BY <1>3 DEF Conf, HostConnecting
<1>11. HostOpen(K, u2, h, d)
  BY <1>3 DEF Conf, HostOpen
<1>12. HostClosed(K, u2, h, d)
  BY <1>3, <1>4 DEF Conf, HostClosed
<1> QED BY <1>5, <1>6, <1>7, <1>8, <1>9, <1>10, <1>11, <1>12 DEF Conf

\* The guest has a number left for every channel it is asked to open.
LEMMA NumberLeft ==
  ASSUME NEW h \in HostState, PeersDiffer(h), NEW c \in Chans, \A b \in Chans : h[b].st # "free" => h[b].peer # c
  PROVE  \E b \in Chans : h[b].st = "free"
<1> SUFFICES ASSUME \A b \in Chans : h[b].st # "free" PROVE FALSE
  OBVIOUS
<1> DEFINE f == [b \in Chans |-> h[b].peer]
<1>1. f \in [Chans -> Chans \ {c}]
  BY DEF PeersDiffer
<1>2. IsFiniteSet(Chans) /\ IsFiniteSet(Chans \ {c}) /\ Cardinality(Chans \ {c}) = Cardinality(Chans) - 1
  BY ProxyAssumption, FS_RemoveElement
<1>3. Cardinality(Chans) \in Nat
  BY <1>2, FS_CardinalityType
<1>4. Cardinality(Chans \ {c}) < Cardinality(Chans)
  BY <1>2, <1>3
<1>5. \E x, y \in Chans : x # y /\ f[x] = f[y]
  <2> HIDE DEF f
  <2> QED BY <1>1, <1>2, <1>4, FS_PigeonHole
<1> QED BY <1>5 DEF PeersDiffer

\* The guest takes the opening of a session, and confirms it at once.
LEMMA HostOpensSession ==
  ASSUME NEW K, NEW u, NEW h, NEW d, Conf(K, u, h, d), NEW u2, NEW e, Less(u2, u, e), u[e].t = "open",
         NEW b \in Chans, h[b].st = "free", NEW d2, NEW m, More(d2, d, m, FromHost("confirm", u[e].ch, b))
  PROVE  Conf(K, u2, [h EXCEPT ![b] = [st |-> "open", peer |-> u[e].ch]], d2)
<1> DEFINE c == u[e].ch
           h2 == [h EXCEPT ![b] = [st |-> "open", peer |-> u[e].ch]]
           p == FromHost("confirm", c, b)
<1>1. /\ e \in DOMAIN u /\ u[e] \in UpPackets /\ c \in Chans /\ h \in HostState
      /\ DOMAIN u \subseteq Nat /\ DOMAIN d \subseteq Nat
  <2>1. e \in DOMAIN u /\ u[e] \in UpPackets
    BY DEF Less, Conf, Typed
  <2> QED BY <2>1 DEF Conf, Typed, UpPackets, Requests
<1>2. /\ h2 \in HostState /\ h2[b].st = "open" /\ h2[b].peer = c
      /\ \A b2 \in Chans : b2 # b => h2[b2] = h[b2]
  BY <1>1 DEF HostState
<1>3. p \in DownPackets /\ p.t = "confirm" /\ p.ch = c /\ p.from = b
  BY <1>1 DEF FromHost, DownPackets
<1>4. /\ \A l \in DOMAIN u2 : l \in DOMAIN u /\ u2[l] = u[l] /\ l # e
      /\ \A l \in DOMAIN u : l # e => l \in DOMAIN u2
      /\ \A l \in DOMAIN u : e <= l
  BY DEF Less
<1>5. /\ m \in Nat /\ m \in DOMAIN d2 /\ d2[m] = p /\ \A j \in DOMAIN d : j < m
      /\ \A j \in DOMAIN d : j \in DOMAIN d2 /\ d2[j] = d[j]
      /\ \A j \in DOMAIN d2 : j = m \/ j \in DOMAIN d
  BY DEF More
<1>6. /\ \E x \in K : x.serverID = c /\ Fresh(x)
      /\ \A k \in DOMAIN u : u[k].t = "open" /\ u[k].ch = c => k = e
      /\ \A j \in DOMAIN d : d[j].ch # c
      /\ \A b2 \in Chans : h[b2].st # "free" => h[b2].peer # c
  <2>1. UpOpens(K, u, h, d)
    BY DEF Conf
  <2>2. \A b2 \in Chans : h[b2].st # "free" /\ h[b2].peer = c => \E k \in DOMAIN u : k < e
    BY <1>1, <2>1 DEF UpOpens
  <2>3. \A k \in DOMAIN u : ~ (k < e)
    BY <1>1, <1>4
  <2> QED BY <1>1, <2>1, <2>2, <2>3 DEF UpOpens
<1>7. \A l \in DOMAIN u : ~ (u[l].t = "close" /\ u[l].ch = b)
  BY DEF Conf, UpCloses
<1>8. /\ \A n : Coming(u2, "close", n) <=> Coming(u, "close", n)
      /\ \A n : Coming(u2, "open", n) <=> Coming(u, "open", n) /\ n # c
      /\ \A n : Coming(d2, "close", n) <=> Coming(d, "close", n)
      /\ \A n, b2 : Confirmed(d2, n, b2) <=> Confirmed(d, n, b2) \/ (n = c /\ b2 = b)
  BY <1>3, <1>4, <1>5, <1>6 DEF Coming, Confirmed
<1>9. \A b2 \in Chans : b2 # b => (Abandoned(K, u2, d2, b2) <=> Abandoned(K, u, d, b2))
  BY <1>3, <1>5, <1>8 DEF Abandoned
<1> HIDE DEF c, h2, p
<1>10. KnownChannels(K)
  BY DEF Conf
<1>11. Typed(u2, h2, d2)
  BY <1>1, <1>2, <1>3, <1>4, <1>5 DEF Conf, Typed
<1>12. Linked(K, h2, d2)
  <2>1. Linked(K, h, d) /\ \A x \in K : x.clientID # None => x.clientID \in Chans
    BY <1>10 DEF Conf, KnownChannels, Channel
  <2>2. \A x \in K : x.clientID # None /\ h[x.clientID].st \in {"open", "closed"} => h2[x.clientID] = h[x.clientID]
    BY <1>2, <2>1
  <2> QED BY <1>8, <2>1, <2>2 DEF Linked
<1>13. Confirms(K, h2, d2)
  <2> SUFFICES ASSUME NEW j \in DOMAIN d2, d2[j].t = "confirm"
               PROVE  /\ d2[j].from \in Chans
                      /\ \E x \in K : x.serverID = d2[j].ch /\ Fresh(x)
                      /\ h2[d2[j].from].st \in {"open", "closed"} /\ h2[d2[j].from].peer = d2[j].ch
                      /\ \A k \in DOMAIN d2 : d2[k].ch = d2[j].ch => k = j \/ (k > j /\ d2[k].t \in {"data", "close"})
                      /\ \A y \in K : y.clientID = d2[j].from =>
                           y.closed = {"SERVER"} /\ \E k \in DOMAIN d2 : k < j /\ d2[k].t = "close" /\ d2[k].ch = y.serverID
    BY DEF Confirms
  <2>1. CASE j = m
    <3>1. d2[j].from = b /\ d2[j].ch = c
      BY <1>3, <1>5, <2>1
    <3>2. \A k \in DOMAIN d2 : d2[k].ch = c => k = m
      BY <1>5, <1>6
    <3>3. ASSUME NEW y \in K, y.clientID = b
          PROVE  y.closed = {"SERVER"} /\ \E k \in DOMAIN d2 : k < j /\ d2[k].t = "close" /\ d2[k].ch = y.serverID
      <4>1. y.clientID # None
        BY <3>3, ProxyAssumption
      <4>2. y.closed = {"SERVER"} /\ Coming(d, "close", y.serverID)
        BY <3>3, <4>1 DEF Conf, Linked
      <4> QED BY <4>2, <1>5, <2>1 DEF Coming
    <3> QED BY <1>2, <1>6, <2>1, <3>1, <3>2, <3>3
  <2>2. CASE j \in DOMAIN d
    <3>1. d2[j] = d[j] /\ d[j].t = "confirm" /\ Confirms(K, h, d) /\ j < m
      BY <1>5, <2>2 DEF Conf
    <3>2. d[j].ch # c /\ d[j].from # b
      BY <1>6, <2>2, <3>1 DEF Confirms
    <3>3. \A k \in DOMAIN d2 : d2[k].ch = d[j].ch => k = j \/ (k > j /\ d2[k].t \in {"data", "close"})
      BY <1>3, <1>5, <2>2, <3>1, <3>2 DEF Confirms
    <3>4. \A y \in K : y.clientID = d2[j].from =>
            y.closed = {"SERVER"} /\ \E k \in DOMAIN d2 : k < j /\ d2[k].t = "close" /\ d2[k].ch = y.serverID
      BY <1>5, <2>2, <3>1 DEF Confirms
    <3> QED BY <1>2, <2>2, <3>1, <3>2, <3>3, <3>4 DEF Confirms
  <2> QED BY <1>5, <2>1, <2>2
<1>14. Failures(K, u2, h2, d2)
  BY <1>2, <1>3, <1>5, <1>6, <1>8 DEF Conf, Failures
<1>15. DataAndCloses(K, d2)
  <2>1. \A j \in DOMAIN d2 : d2[j].t \in {"data", "close"} => j \in DOMAIN d /\ d2[j] = d[j]
    BY <1>3, <1>5
  <2>2. \A j \in DOMAIN d : Told(K, d, j) => Told(K, d2, j)
    BY <1>5 DEF Told
  <2> QED BY <2>1, <2>2 DEF Conf, DataAndCloses
<1>16. UpOpens(K, u2, h2, d2)
  <2> SUFFICES ASSUME NEW l \in DOMAIN u2, u2[l].t = "open"
               PROVE  /\ \E x \in K : x.serverID = u2[l].ch /\ Fresh(x)
                      /\ \A k \in DOMAIN u2 : u2[k].t = "open" /\ u2[k].ch = u2[l].ch => k = l
                      /\ \A j \in DOMAIN d2 : d2[j].ch # u2[l].ch
                      /\ \A b2 \in Chans : h2[b2].st # "free" /\ h2[b2].peer = u2[l].ch =>
                           \E k \in DOMAIN u2 : k < l /\ u2[k].t = "close" /\ u2[k].ch = b2
    BY DEF UpOpens
  <2>1. UpOpens(K, u, h, d) /\ l \in DOMAIN u /\ u[l].t = "open" /\ u[l] = u2[l] /\ u2[l].ch # c
    BY <1>4, <1>6 DEF Conf
  <2>2. \A k \in DOMAIN u : u[k].t = "close" => k \in DOMAIN u2
    BY <1>4
  <2>3. \A j \in DOMAIN d2 : d2[j].ch # u2[l].ch
    BY <1>3, <1>5, <2>1 DEF UpOpens
  <2>4. \A b2 \in Chans : h2[b2].st # "free" /\ h2[b2].peer = u2[l].ch => b2 # b /\ h2[b2] = h[b2]
    BY <1>2, <2>1
  <2> QED BY <1>4, <2>1, <2>2, <2>3, <2>4 DEF UpOpens
<1>17. UpCloses(K, u2, h2, d2)
  <2>1. UpCloses(K, u, h, d)
    BY DEF Conf
  <2>2. \A l \in DOMAIN u2 : u2[l].t = "close" => u2[l].ch # b /\ u2[l].ch \in Chans
    BY <1>4, <1>7, <1>11 DEF Typed, UpPackets, Requests
  <2> QED BY <1>2, <1>4, <1>9, <2>1, <2>2 DEF UpCloses
<1>18. HostConnecting(K, u2, h2, d2)
  <2>1. HostConnecting(K, u, h, d)
    BY DEF Conf
  <2> SUFFICES ASSUME NEW b2 \in Chans, h2[b2].st = "connecting"
               PROVE  /\ \E x \in K : x.serverID = h2[b2].peer /\ Fresh(x)
                      /\ ~ Coming(u2, "open", h2[b2].peer) /\ ~ Coming(u2, "close", b2)
                      /\ \A j \in DOMAIN d2 : d2[j].ch # h2[b2].peer
    BY DEF HostConnecting
  <2>2. b2 # b /\ h2[b2] = h[b2] /\ h[b2].peer # c
    BY <1>2, <1>6
  <2> QED BY <1>3, <1>5, <1>8, <2>1, <2>2 DEF HostConnecting
<1>19. HostOpen(K, u2, h2, d2)
  <2>1. HostOpen(K, u, h, d)
    BY DEF Conf
  <2> SUFFICES ASSUME NEW b2 \in Chans, h2[b2].st = "open"
               PROVE  /\ ~ Coming(d2, "close", h2[b2].peer)
                      /\ \E x \in K : /\ x.serverID = h2[b2].peer
                                      /\ \/ Fresh(x) /\ Confirmed(d2, h2[b2].peer, b2)
                                         \/ /\ x.clientID = b2 /\ "CLIENT" \notin x.closed
                                            /\ "SERVER" \in x.closed => Coming(u2, "close", b2)
    BY DEF HostOpen
  <2>2. CASE b2 = b
    <3>1. ~ Coming(d, "close", c)
      BY <1>6 DEF Coming
    <3> QED BY <1>2, <1>6, <1>8, <2>2, <3>1
  <2>3. CASE b2 # b
    BY <1>2, <1>8, <2>1, <2>3 DEF HostOpen
  <2> QED BY <2>2, <2>3
<1>20. HostClosed(K, u2, h2, d2)
  <2>1. HostClosed(K, u, h, d)
    BY DEF Conf
  <2>2. \A b2 \in Chans : h2[b2].st = "closed" => b2 # b /\ h2[b2] = h[b2]
    BY <1>2
  <2> QED BY <1>8, <1>9, <2>1, <2>2 DEF HostClosed
<1>21. PeersDiffer(h2)
  BY <1>1, <1>2, <1>6 DEF Conf, PeersDiffer, c
<1> QED BY <1>10, <1>11, <1>12, <1>13, <1>14, <1>15, <1>16, <1>17, <1>18, <1>19, <1>20, <1>21 DEF Conf, h2

\* The guest takes the opening of a forwarded connection, and dials.
LEMMA HostOpensForward ==
  ASSUME NEW K, NEW u, NEW h, NEW d, Conf(K, u, h, d), NEW u2, NEW e, Less(u2, u, e), u[e].t = "open",
         NEW b \in Chans, h[b].st = "free"
  PROVE  Conf(K, u2, [h EXCEPT ![b] = [st |-> "connecting", peer |-> u[e].ch]], d)
<1> DEFINE c == u[e].ch
           h2 == [h EXCEPT ![b] = [st |-> "connecting", peer |-> u[e].ch]]
<1>1. /\ e \in DOMAIN u /\ u[e] \in UpPackets /\ c \in Chans /\ h \in HostState
      /\ DOMAIN u \subseteq Nat /\ DOMAIN d \subseteq Nat
  <2>1. e \in DOMAIN u /\ u[e] \in UpPackets
    BY DEF Less, Conf, Typed
  <2> QED BY <2>1 DEF Conf, Typed, UpPackets, Requests
<1>2. /\ h2 \in HostState /\ h2[b].st = "connecting" /\ h2[b].peer = c
      /\ \A b2 \in Chans : b2 # b => h2[b2] = h[b2]
  BY <1>1 DEF HostState
<1>3. /\ \A l \in DOMAIN u2 : l \in DOMAIN u /\ u2[l] = u[l] /\ l # e
      /\ \A l \in DOMAIN u : l # e => l \in DOMAIN u2
      /\ \A l \in DOMAIN u : e <= l
  BY DEF Less
<1>4. /\ \E x \in K : x.serverID = c /\ Fresh(x)
      /\ \A k \in DOMAIN u : u[k].t = "open" /\ u[k].ch = c => k = e
      /\ \A j \in DOMAIN d : d[j].ch # c
      /\ \A b2 \in Chans : h[b2].st # "free" => h[b2].peer # c
  <2>1. UpOpens(K, u, h, d)
    BY DEF Conf
  <2>2. \A b2 \in Chans : h[b2].st # "free" /\ h[b2].peer = c => \E k \in DOMAIN u : k < e
    BY <1>1, <2>1 DEF UpOpens
  <2>3. \A k \in DOMAIN u : ~ (k < e)
    BY <1>1, <1>3
  <2> QED BY <1>1, <2>1, <2>2, <2>3 DEF UpOpens
<1>5. \A l \in DOMAIN u : ~ (u[l].t = "close" /\ u[l].ch = b)
  BY DEF Conf, UpCloses
<1>6. /\ \A n : Coming(u2, "close", n) <=> Coming(u, "close", n)
      /\ \A n : Coming(u2, "open", n) <=> Coming(u, "open", n) /\ n # c
  BY <1>3, <1>4 DEF Coming
<1>7. \A b2 : Abandoned(K, u2, d, b2) <=> Abandoned(K, u, d, b2)
  BY <1>6 DEF Abandoned
<1> HIDE DEF c, h2
<1>8. KnownChannels(K) /\ DataAndCloses(K, d)
  BY DEF Conf
<1>9. Typed(u2, h2, d)
  BY <1>1, <1>2, <1>3 DEF Conf, Typed
<1>10. Linked(K, h2, d)
  <2>1. Linked(K, h, d) /\ \A x \in K : x.clientID # None => x.clientID \in Chans
    BY <1>8 DEF Conf, KnownChannels, Channel
  <2>2. \A x \in K : x.clientID # None /\ h[x.clientID].st \in {"open", "closed"} => h2[x.clientID] = h[x.clientID]
    BY <1>2, <2>1
  <2> QED BY <2>1, <2>2 DEF Linked
<1>11. Confirms(K, h2, d)
  <2>1. Confirms(K, h, d)
    BY DEF Conf
  <2>2. \A j \in DOMAIN d : d[j].t = "confirm" => h2[d[j].from] = h[d[j].from]
    BY <1>2, <2>1 DEF Confirms
  <2> QED BY <2>1, <2>2 DEF Confirms
<1>12. Failures(K, u2, h2, d)
  BY <1>2, <1>4, <1>6 DEF Conf, Failures
<1>13. UpOpens(K, u2, h2, d)
  <2> SUFFICES ASSUME NEW l \in DOMAIN u2, u2[l].t = "open"
               PROVE  /\ \E x \in K : x.serverID = u2[l].ch /\ Fresh(x)
                      /\ \A k \in DOMAIN u2 : u2[k].t = "open" /\ u2[k].ch = u2[l].ch => k = l
                      /\ \A j \in DOMAIN d : d[j].ch # u2[l].ch
                      /\ \A b2 \in Chans : h2[b2].st # "free" /\ h2[b2].peer = u2[l].ch =>
                           \E k \in DOMAIN u2 : k < l /\ u2[k].t = "close" /\ u2[k].ch = b2
    BY DEF UpOpens
  <2>1. UpOpens(K, u, h, d) /\ l \in DOMAIN u /\ u[l].t = "open" /\ u[l] = u2[l] /\ u2[l].ch # c
    BY <1>3, <1>4 DEF Conf
  <2>2. \A k \in DOMAIN u : u[k].t = "close" => k \in DOMAIN u2
    BY <1>3
  <2>3. \A b2 \in Chans : h2[b2].st # "free" /\ h2[b2].peer = u2[l].ch => b2 # b /\ h2[b2] = h[b2]
    BY <1>2, <2>1
  <2> QED BY <1>3, <2>1, <2>2, <2>3 DEF UpOpens
<1>14. UpCloses(K, u2, h2, d)
  <2>1. UpCloses(K, u, h, d)
    BY DEF Conf
  <2>2. \A l \in DOMAIN u2 : u2[l].t = "close" => u2[l].ch # b /\ u2[l].ch \in Chans
    BY <1>3, <1>5, <1>9 DEF Typed, UpPackets, Requests
  <2> QED BY <1>2, <1>3, <1>7, <2>1, <2>2 DEF UpCloses
<1>15. HostConnecting(K, u2, h2, d)
  <2>1. HostConnecting(K, u, h, d)
    BY DEF Conf
  <2> SUFFICES ASSUME NEW b2 \in Chans, h2[b2].st = "connecting"
               PROVE  /\ \E x \in K : x.serverID = h2[b2].peer /\ Fresh(x)
                      /\ ~ Coming(u2, "open", h2[b2].peer) /\ ~ Coming(u2, "close", b2)
                      /\ \A j \in DOMAIN d : d[j].ch # h2[b2].peer
    BY DEF HostConnecting
  <2>2. CASE b2 = b
    <3>1. ~ Coming(u2, "close", b)
      BY <1>5, <1>6 DEF Coming
    <3> QED BY <1>2, <1>4, <1>6, <2>2, <3>1
  <2>3. CASE b2 # b
    <3>1. h2[b2] = h[b2] /\ h[b2].peer # c
      BY <1>2, <1>4, <2>3
    <3> QED BY <1>6, <2>1, <3>1 DEF HostConnecting
  <2> QED BY <2>2, <2>3
<1>16. HostOpen(K, u2, h2, d)
  <2>1. HostOpen(K, u, h, d) /\ \A b2 \in Chans : h2[b2].st = "open" => h2[b2] = h[b2]
    BY <1>2 DEF Conf
  <2> QED BY <1>6, <2>1 DEF HostOpen
<1>17. HostClosed(K, u2, h2, d)
  <2>1. HostClosed(K, u, h, d) /\ \A b2 \in Chans : h2[b2].st = "closed" => h2[b2] = h[b2]
    BY <1>2 DEF Conf
  <2> QED BY <1>6, <1>7, <2>1 DEF HostClosed
<1>18. PeersDiffer(h2)
  BY <1>1, <1>2, <1>4 DEF Conf, PeersDiffer, c
<1> QED BY <1>8, <1>9, <1>10, <1>11, <1>12, <1>13, <1>14, <1>15, <1>16, <1>17, <1>18 DEF Conf, h2

\* The guest takes a close: its number is free, and unless it has closed the
\* channel before it answers.
LEMMA HostCloses ==
  ASSUME NEW K, NEW u, NEW h, NEW d, Conf(K, u, h, d), NEW u2, NEW e, Less(u2, u, e), u[e].t = "close",
         NEW d2, NEW m,
         IF h[u[e].ch].st = "open" THEN More(d2, d, m, FromHost("close", h[u[e].ch].peer, None)) ELSE d2 = d
  PROVE  Conf(K, u2, [h EXCEPT ![u[e].ch] = NoChannel], d2)
<1> DEFINE b == u[e].ch
           c == h[b].peer
           h2 == [h EXCEPT ![b] = NoChannel]
           p == FromHost("close", c, None)
<1>1. /\ e \in DOMAIN u /\ u[e] \in UpPackets /\ b \in Chans /\ h \in HostState
      /\ DOMAIN u \subseteq Nat /\ DOMAIN d \subseteq Nat
  <2>1. e \in DOMAIN u /\ u[e] \in UpPackets
    BY DEF Less, Conf, Typed
  <2> QED BY <2>1 DEF Conf, Typed, UpPackets, Requests
<1>2. /\ \A k \in DOMAIN u : u[k].t = "close" /\ u[k].ch = b => k = e
      /\ h[b].st \in {"open", "closed"} /\ c \in Chans
      /\ \/ \E x \in K : x.clientID = b /\ x.closed = {"SERVER"} /\ x.serverID = c
         \/ h[b].st = "closed" /\ Abandoned(K, u, d, b)
  <2>1. UpCloses(K, u, h, d) /\ PeersDiffer(h)
    BY DEF Conf
  <2>2. h[b].st \in {"open", "closed"}
    BY <1>1, <2>1 DEF UpCloses
  <2>3. c \in Chans
    BY <1>1, <2>1, <2>2 DEF PeersDiffer
  <2> QED BY <1>1, <2>1, <2>2, <2>3 DEF UpCloses
<1>3. /\ h2 \in HostState /\ h2[b].st = "free"
      /\ \A b2 \in Chans : b2 # b => h2[b2] = h[b2]
      /\ \A b2 \in Chans : h2[b2].st # "free" => b2 # b /\ h2[b2] = h[b2]
  BY <1>1 DEF HostState, NoChannel
<1>4. p \in DownPackets /\ p.t = "close" /\ p.ch = c
  BY <1>2 DEF FromHost, DownPackets
<1>5. /\ \A l \in DOMAIN u2 : l \in DOMAIN u /\ u2[l] = u[l] /\ l # e
      /\ \A l \in DOMAIN u : l # e => l \in DOMAIN u2
      /\ \A l \in DOMAIN u : e <= l
  BY DEF Less
<1>6. /\ \A j \in DOMAIN d : j \in DOMAIN d2 /\ d2[j] = d[j]
      /\ \A j \in DOMAIN d2 : j \in DOMAIN d \/ (j = m /\ d2[j] = p /\ h[b].st = "open")
      /\ h[b].st = "open" => m \in DOMAIN d2 /\ d2[m] = p /\ m \in Nat /\ \A j \in DOMAIN d : j < m
      /\ DOMAIN d2 \subseteq Nat
  <2>1. CASE h[b].st = "open"
    <3>1. More(d2, d, m, p)
      BY <2>1
    <3> QED BY <1>1, <2>1, <3>1 DEF More
  <2>2. CASE h[b].st # "open"
    <3>1. d2 = d
      BY <2>2
    <3> QED BY <1>1, <2>2, <3>1
  <2> QED BY <2>1, <2>2
<1>7. /\ \A n : Coming(u2, "open", n) <=> Coming(u, "open", n)
      /\ \A n : Coming(u2, "close", n) <=> Coming(u, "close", n) /\ n # b
      /\ \A n : Coming(d2, "close", n) <=> Coming(d, "close", n) \/ (n = c /\ h[b].st = "open")
      /\ \A n, b2 : Confirmed(d2, n, b2) <=> Confirmed(d, n, b2)
  <2>1. \A n : Coming(u2, "open", n) <=> Coming(u, "open", n)
    BY <1>5 DEF Coming
  <2>2. \A n : Coming(u2, "close", n) <=> Coming(u, "close", n) /\ n # b
    BY <1>2, <1>5 DEF Coming
  <2>3. \A n : Coming(d2, "close", n) <=> Coming(d, "close", n) \/ (n = c /\ h[b].st = "open")
    BY <1>4, <1>6 DEF Coming
  <2>4. \A n, b2 : Confirmed(d2, n, b2) <=> Confirmed(d, n, b2)
    BY <1>4, <1>6 DEF Confirmed
  <2> QED BY <2>1, <2>2, <2>3, <2>4
<1>8. \A b2 \in Chans : b2 # b => (Abandoned(K, u2, d2, b2) <=> Abandoned(K, u, d, b2))
  BY <1>4, <1>6, <1>7 DEF Abandoned
<1>9. /\ \A x \in K : x.clientID = b => x.closed = {"SERVER"} /\ x.serverID = c /\ Coming(d2, "close", c)
      /\ \A j \in DOMAIN d : d[j].t = "confirm" => d[j].from # b
      /\ h[b].st = "open" => \E x \in K : x.clientID = b /\ x.serverID = c /\ x.closed = {"SERVER"}
      /\ h[b].st = "open" => ~ Coming(d, "close", c)
  <2>1. HostOpen(K, u, h, d) /\ HostClosed(K, u, h, d) /\ KnownChannels(K) /\ Confirms(K, h, d)
    BY DEF Conf
  <2>2. CASE \E x \in K : x.clientID = b /\ x.closed = {"SERVER"} /\ x.serverID = c
    <3>1. PICK x \in K : x.clientID = b /\ x.closed = {"SERVER"} /\ x.serverID = c
      BY <2>2
    <3>2. \A y \in K : y.clientID = b \/ y.serverID = c => y = x
      BY <1>1, <2>1, <3>1, ProxyAssumption DEF KnownChannels
    <3>3. ASSUME NEW j \in DOMAIN d, d[j].t = "confirm", d[j].from = b PROVE FALSE
      <4>1. PICK y \in K : y.serverID = d[j].ch /\ Fresh(y)
        BY <2>1, <3>3 DEF Confirms
      <4>2. d[j].ch = c
        BY <2>1, <3>3 DEF Confirms
      <4> QED BY <3>1, <3>2, <4>1, <4>2, ProxyAssumption, <1>1 DEF Fresh
    <3>4. h[b].st = "closed" => Coming(d, "close", c)
      <4> SUFFICES ASSUME h[b].st = "closed" PROVE Coming(d, "close", c)
        OBVIOUS
      <4>1. ~ Abandoned(K, u, d, b)
        BY <3>1 DEF Abandoned
      <4>2. PICK y \in K : /\ y.serverID = c
                           /\ \/ Fresh(y) /\ Confirmed(d, c, b) /\ Coming(d, "close", c)
                              \/ y.clientID = b
                                 /\ (y.closed = {"CLIENT"} \/ ("CLIENT" \notin y.closed /\ Coming(d, "close", c)))
        BY <1>1, <2>1, <4>1 DEF HostClosed
      <4> QED BY <3>1, <3>2, <4>2
    <3>5. h[b].st = "open" => ~ Coming(d, "close", c)
      BY <1>1, <2>1 DEF HostOpen
    <3> QED BY <1>2, <1>7, <3>1, <3>2, <3>3, <3>4, <3>5
  <2>3. CASE h[b].st = "closed" /\ Abandoned(K, u, d, b)
    BY <2>3 DEF Abandoned
  <2> QED BY <1>2, <2>2, <2>3
<1> HIDE DEF b, c, h2, p
<1>10. KnownChannels(K)
  BY DEF Conf
<1>11. Typed(u2, h2, d2)
  <2>1. Typed(u, h, d) /\ DOMAIN u2 \subseteq Nat
    BY <1>1, <1>5 DEF Conf
  <2> QED BY <1>3, <1>4, <1>5, <1>6, <2>1 DEF Typed
<1>12. Linked(K, h2, d2)
  <2>1. Linked(K, h, d) /\ \A x \in K : x.clientID # None => x.clientID \in Chans
    BY <1>10 DEF Conf, KnownChannels, Channel
  <2> QED BY <1>3, <1>7, <1>9, <2>1 DEF Linked
<1>13. Confirms(K, h2, d2)
  <2>1. Confirms(K, h, d) /\ \A j \in DOMAIN d2 : d2[j].t = "confirm" => j \in DOMAIN d /\ d2[j] = d[j]
    BY <1>4, <1>6 DEF Conf
  <2> SUFFICES ASSUME NEW j \in DOMAIN d2, d2[j].t = "confirm"
               PROVE  /\ d2[j].from \in Chans
                      /\ \E x \in K : x.serverID = d2[j].ch /\ Fresh(x)
                      /\ h2[d2[j].from].st \in {"open", "closed"} /\ h2[d2[j].from].peer = d2[j].ch
                      /\ \A k \in DOMAIN d2 : d2[k].ch = d2[j].ch => k = j \/ (k > j /\ d2[k].t \in {"data", "close"})
                      /\ \A y \in K : y.clientID = d2[j].from =>
                           y.closed = {"SERVER"} /\ \E k \in DOMAIN d2 : k < j /\ d2[k].t = "close" /\ d2[k].ch = y.serverID
    BY DEF Confirms
  <2>2. h2[d[j].from] = h[d[j].from]
    BY <1>3, <1>9, <2>1 DEF Confirms
  <2>3. \A k \in DOMAIN d2 : d2[k].ch = d[j].ch => k = j \/ (k > j /\ d2[k].t \in {"data", "close"})
    <3>1. h[b].st = "open" => j < m
      BY <1>6, <2>1
    <3> QED BY <1>1, <1>4, <1>6, <2>1, <3>1 DEF Confirms
  <2>4. \A y \in K : y.clientID = d2[j].from =>
          y.closed = {"SERVER"} /\ \E k \in DOMAIN d2 : k < j /\ d2[k].t = "close" /\ d2[k].ch = y.serverID
    BY <1>6, <2>1 DEF Confirms
  <2> QED BY <2>1, <2>2, <2>3, <2>4 DEF Confirms
<1>14. Failures(K, u2, h2, d2)
  <2>1. Failures(K, u, h, d) /\ \A j \in DOMAIN d2 : d2[j].t = "failure" => j \in DOMAIN d /\ d2[j] = d[j]
    BY <1>4, <1>6 DEF Conf
  <2>2. \A j \in DOMAIN d : d[j].t = "failure" => d[j].ch # c
    BY <1>1, <1>2, <2>1 DEF Failures, c
  <2> QED BY <1>3, <1>4, <1>6, <1>7, <2>1, <2>2 DEF Failures
<1>15. DataAndCloses(K, d2)
  <2>1. DataAndCloses(K, d)
    BY DEF Conf
  <2>2. \A j \in DOMAIN d : Told(K, d, j) => Told(K, d2, j)
    BY <1>6 DEF Told
  <2>3. h[b].st = "open" => Told(K, d2, m)
    <3> SUFFICES ASSUME h[b].st = "open" PROVE Told(K, d2, m)
      OBVIOUS
    <3>1. PICK x \in K : x.clientID = b /\ x.serverID = c /\ x.closed = {"SERVER"}
      BY <1>9
    <3>2. b # None
      BY <1>1, ProxyAssumption
    <3> QED BY <1>4, <1>6, <3>1, <3>2 DEF Told
  <2>4. \A j \in DOMAIN d2 : d2[j].t \in {"data", "close"} => Told(K, d2, j)
    BY <1>6, <2>1, <2>2, <2>3 DEF DataAndCloses
  <2>5. ASSUME NEW j \in DOMAIN d2, NEW k \in DOMAIN d2, d2[k].t = "close", d2[j].t \in {"data", "close"}, d2[j].ch = d2[k].ch
        PROVE  j = k \/ (j < k /\ d2[j].t = "data")
    <3>1. h[b].st = "open" => \A i \in DOMAIN d : ~ (d[i].t = "close" /\ d[i].ch = c)
      BY <1>9 DEF Coming
    <3>2. CASE k \in DOMAIN d
      <4>1. j \in DOMAIN d
        BY <1>4, <1>6, <2>5, <3>1, <3>2
      <4> QED BY <1>6, <2>1, <2>5, <3>2, <4>1 DEF DataAndCloses
    <3>3. CASE k = m /\ d2[k] = p /\ h[b].st = "open"
      BY <1>4, <1>6, <2>5, <3>1, <3>3
    <3> QED BY <1>6, <3>2, <3>3
  <2> QED BY <2>4, <2>5 DEF DataAndCloses
<1>16. UpOpens(K, u2, h2, d2)
  <2> SUFFICES ASSUME NEW l \in DOMAIN u2, u2[l].t = "open"
               PROVE  /\ \E x \in K : x.serverID = u2[l].ch /\ Fresh(x)
                      /\ \A k \in DOMAIN u2 : u2[k].t = "open" /\ u2[k].ch = u2[l].ch => k = l
                      /\ \A j \in DOMAIN d2 : d2[j].ch # u2[l].ch
                      /\ \A b2 \in Chans : h2[b2].st # "free" /\ h2[b2].peer = u2[l].ch =>
                           \E k \in DOMAIN u2 : k < l /\ u2[k].t = "close" /\ u2[k].ch = b2
    BY DEF UpOpens
  <2>1. UpOpens(K, u, h, d) /\ l \in DOMAIN u /\ u[l].t = "open" /\ u[l] = u2[l]
    BY <1>5 DEF Conf
  <2>2. h[b].st = "open" => u[l].ch # c
    <3>1. PICK y \in K : y.serverID = u[l].ch /\ Fresh(y)
      BY <2>1 DEF UpOpens
    <3>2. b # None
      BY <1>1, ProxyAssumption
    <3> QED BY <1>9, <1>10, <3>1, <3>2 DEF KnownChannels, Fresh
  <2>3. \A j \in DOMAIN d2 : d2[j].ch # u2[l].ch
    BY <1>4, <1>6, <2>1, <2>2 DEF UpOpens
  <2>4. ASSUME NEW b2 \in Chans, h2[b2].st # "free", h2[b2].peer = u2[l].ch
        PROVE  \E k \in DOMAIN u2 : k < l /\ u2[k].t = "close" /\ u2[k].ch = b2
    <3>1. b2 # b /\ h2[b2] = h[b2]
      BY <1>3, <2>4
    <3>2. PICK k \in DOMAIN u : k < l /\ u[k].t = "close" /\ u[k].ch = b2
      BY <2>1, <2>4, <3>1 DEF UpOpens
    <3>3. k # e
      BY <3>1, <3>2 DEF b
    <3> QED BY <1>5, <3>2, <3>3
  <2> QED BY <1>5, <2>1, <2>3, <2>4 DEF UpOpens
<1>17. UpCloses(K, u2, h2, d2)
  <2>1. UpCloses(K, u, h, d)
    BY DEF Conf
  <2>2. \A l \in DOMAIN u2 : u2[l].t = "close" => u2[l].ch # b /\ u2[l].ch \in Chans
    BY <1>2, <1>5, <1>11 DEF Typed, UpPackets, Requests
  <2> QED BY <1>3, <1>5, <1>8, <2>1, <2>2 DEF UpCloses
<1>18. HostConnecting(K, u2, h2, d2)
  <2>1. HostConnecting(K, u, h, d) /\ PeersDiffer(h)
    BY DEF Conf
  <2> SUFFICES ASSUME NEW b2 \in Chans, h2[b2].st = "connecting"
               PROVE  /\ \E x \in K : x.serverID = h2[b2].peer /\ Fresh(x)
                      /\ ~ Coming(u2, "open", h2[b2].peer) /\ ~ Coming(u2, "close", b2)
                      /\ \A j \in DOMAIN d2 : d2[j].ch # h2[b2].peer
    BY DEF HostConnecting
  <2>2. b2 # b /\ h2[b2] = h[b2] /\ h[b2].peer # c
    <3>1. b2 # b /\ h2[b2] = h[b2]
      BY <1>3
    <3>2. h[b2].st # "free" /\ h[b].st # "free"
      BY <1>2, <3>1
    <3> QED BY <1>1, <2>1, <3>1, <3>2 DEF PeersDiffer, c
  <2> QED BY <1>4, <1>6, <1>7, <2>1, <2>2 DEF HostConnecting
<1>19. HostOpen(K, u2, h2, d2)
  <2>1. HostOpen(K, u, h, d) /\ PeersDiffer(h)
    BY DEF Conf
  <2>2. ASSUME NEW b2 \in Chans, h2[b2].st = "open" PROVE b2 # b /\ h2[b2] = h[b2] /\ h[b2].peer # c
    <3>1. b2 # b /\ h2[b2] = h[b2]
      BY <1>3, <2>2
    <3>2. h[b2].st # "free" /\ h[b].st # "free"
      BY <1>2, <2>2, <3>1
    <3> QED BY <1>1, <2>1, <3>1, <3>2 DEF PeersDiffer, c
  <2> QED BY <1>7, <2>1, <2>2 DEF HostOpen
<1>20. HostClosed(K, u2, h2, d2)
  <2>1. HostClosed(K, u, h, d)
    BY DEF Conf
  <2>2. \A b2 \in Chans : h2[b2].st = "closed" => b2 # b /\ h2[b2] = h[b2]
    BY <1>3
  <2> QED BY <1>7, <1>8, <2>1, <2>2 DEF HostClosed
<1>21. PeersDiffer(h2)
  BY <1>1, <1>3 DEF Conf, PeersDiffer
<1> QED BY <1>10, <1>11, <1>12, <1>13, <1>14, <1>15, <1>16, <1>17, <1>18, <1>19, <1>20, <1>21 DEF Conf, h2, b

\* The guest answers on a channel b of c: what it does to its state.
LEMMA HostConfirms ==
  ASSUME NEW K, NEW u, NEW h, NEW d, Conf(K, u, h, d), NEW b \in Chans, h[b].st = "connecting",
         NEW d2, NEW m, More(d2, d, m, FromHost("confirm", h[b].peer, b))
  PROVE  Conf(K, u, [h EXCEPT ![b].st = "open"], d2)
<1> DEFINE c == h[b].peer
           h2 == [h EXCEPT ![b].st = "open"]
           p == FromHost("confirm", c, b)
<1>1. h \in HostState /\ c \in Chans /\ DOMAIN d \subseteq Nat
  BY DEF Conf, Typed, PeersDiffer
<1>2. /\ h2 \in HostState /\ h2[b].st = "open" /\ h2[b].peer = c
      /\ \A b2 \in Chans : b2 # b => h2[b2] = h[b2]
  BY <1>1 DEF HostState
<1>3. p \in DownPackets /\ p.t = "confirm" /\ p.ch = c /\ p.from = b
  BY <1>1 DEF FromHost, DownPackets
<1>4. /\ m \in Nat /\ m \in DOMAIN d2 /\ d2[m] = p /\ \A j \in DOMAIN d : j < m
      /\ \A j \in DOMAIN d : j \in DOMAIN d2 /\ d2[j] = d[j]
      /\ \A j \in DOMAIN d2 : j = m \/ j \in DOMAIN d
  BY DEF More
<1>5. /\ \E x \in K : x.serverID = c /\ Fresh(x)
      /\ ~ Coming(u, "open", c) /\ ~ Coming(u, "close", b)
      /\ \A j \in DOMAIN d : d[j].ch # c
      /\ \A b2 \in Chans : b2 # b /\ h[b2].st # "free" => h[b2].peer # c
  BY DEF Conf, HostConnecting, PeersDiffer
<1>6. /\ \A n : Coming(d2, "close", n) <=> Coming(d, "close", n)
      /\ \A n, b2 : Confirmed(d2, n, b2) <=> Confirmed(d, n, b2) \/ (n = c /\ b2 = b)
  BY <1>3, <1>4 DEF Coming, Confirmed
<1>7. \A b2 \in Chans : b2 # b => (Abandoned(K, u, d2, b2) <=> Abandoned(K, u, d, b2))
  BY <1>3, <1>4, <1>6 DEF Abandoned
<1> HIDE DEF c, h2, p
<1>8. KnownChannels(K)
  BY DEF Conf
<1>9. Typed(u, h2, d2)
  BY <1>1, <1>2, <1>3, <1>4 DEF Conf, Typed
<1>10. Linked(K, h2, d2)
  <2>1. Linked(K, h, d) /\ \A x \in K : x.clientID # None => x.clientID \in Chans
    BY <1>8 DEF Conf, KnownChannels, Channel
  <2>2. \A x \in K : x.clientID # None /\ h[x.clientID].st \in {"open", "closed"} => h2[x.clientID] = h[x.clientID]
    BY <1>2, <2>1
  <2> QED BY <1>6, <2>1, <2>2 DEF Linked
<1>11. Confirms(K, h2, d2)
  <2> SUFFICES ASSUME NEW j \in DOMAIN d2, d2[j].t = "confirm"
               PROVE  /\ d2[j].from \in Chans
                      /\ \E x \in K : x.serverID = d2[j].ch /\ Fresh(x)
                      /\ h2[d2[j].from].st \in {"open", "closed"} /\ h2[d2[j].from].peer = d2[j].ch
                      /\ \A k \in DOMAIN d2 : d2[k].ch = d2[j].ch => k = j \/ (k > j /\ d2[k].t \in {"data", "close"})
                      /\ \A y \in K : y.clientID = d2[j].from =>
                           y.closed = {"SERVER"} /\ \E k \in DOMAIN d2 : k < j /\ d2[k].t = "close" /\ d2[k].ch = y.serverID
    BY DEF Confirms
  <2>1. CASE j = m
    <3>1. d2[j].from = b /\ d2[j].ch = c
      BY <1>3, <1>4, <2>1
    <3>2. \A k \in DOMAIN d2 : d2[k].ch = c => k = m
      BY <1>4, <1>5
    <3>3. ASSUME NEW y \in K, y.clientID = b
          PROVE  y.closed = {"SERVER"} /\ \E k \in DOMAIN d2 : k < j /\ d2[k].t = "close" /\ d2[k].ch = y.serverID
      <4>1. y.clientID # None
        BY <3>3, ProxyAssumption
      <4>2. y.closed = {"SERVER"} /\ Coming(d, "close", y.serverID)
        BY <3>3, <4>1 DEF Conf, Linked
      <4> QED BY <4>2, <1>4, <2>1 DEF Coming
    <3> QED BY <1>2, <1>5, <2>1, <3>1, <3>2, <3>3
  <2>2. CASE j \in DOMAIN d
    <3>1. d2[j] = d[j] /\ d[j].t = "confirm" /\ Confirms(K, h, d) /\ j < m
      BY <1>4, <2>2 DEF Conf
    <3>2. d[j].ch # c /\ d[j].from # b
      BY <1>5, <2>2, <3>1 DEF Confirms
    <3>3. \A k \in DOMAIN d2 : d2[k].ch = d[j].ch => k = j \/ (k > j /\ d2[k].t \in {"data", "close"})
      BY <1>3, <1>4, <2>2, <3>1, <3>2 DEF Confirms
    <3>4. \A y \in K : y.clientID = d2[j].from =>
            y.closed = {"SERVER"} /\ \E k \in DOMAIN d2 : k < j /\ d2[k].t = "close" /\ d2[k].ch = y.serverID
      BY <1>4, <2>2, <3>1 DEF Confirms
    <3> QED BY <1>2, <2>2, <3>1, <3>2, <3>3, <3>4 DEF Confirms
  <2> QED BY <1>4, <2>1, <2>2
<1>12. Failures(K, u, h2, d2)
  <2>1. Failures(K, u, h, d) /\ \A j \in DOMAIN d2 : d2[j].t = "failure" => j \in DOMAIN d /\ d2[j] = d[j]
    BY <1>3, <1>4 DEF Conf
  <2> QED BY <1>2, <1>3, <1>4, <1>5, <2>1 DEF Failures
<1>13. DataAndCloses(K, d2)
  <2>1. \A j \in DOMAIN d2 : d2[j].t \in {"data", "close"} => j \in DOMAIN d /\ d2[j] = d[j]
    BY <1>3, <1>4
  <2>2. \A j \in DOMAIN d : Told(K, d, j) => Told(K, d2, j)
    BY <1>4 DEF Told
  <2> QED BY <2>1, <2>2 DEF Conf, DataAndCloses
<1>14. UpOpens(K, u, h2, d2)
  <2>1. UpOpens(K, u, h, d) /\ \A l \in DOMAIN u : u[l].t = "open" => u[l].ch # c
    BY <1>5 DEF Conf, Coming
  <2>2. \A l \in DOMAIN u : u[l].t = "open" => \A j \in DOMAIN d2 : d2[j].ch # u[l].ch
    BY <1>3, <1>4, <2>1 DEF UpOpens
  <2>3. \A b2 \in Chans : h2[b2].st # "free" => h[b2].st # "free" /\ h2[b2].peer = h[b2].peer
    BY <1>2 DEF c
  <2> QED BY <2>1, <2>2, <2>3 DEF UpOpens
<1>15. UpCloses(K, u, h2, d2)
  <2>1. UpCloses(K, u, h, d) /\ \A l \in DOMAIN u : u[l].t = "close" => u[l].ch # b /\ u[l].ch \in Chans
    BY <1>5, <1>9 DEF Conf, Coming, Typed, UpPackets, Requests
  <2> QED BY <1>2, <1>7, <2>1 DEF UpCloses
<1>16. HostConnecting(K, u, h2, d2)
  <2>1. HostConnecting(K, u, h, d) /\ \A b2 \in Chans : h2[b2].st = "connecting" => b2 # b /\ h2[b2] = h[b2] /\ h[b2].peer # c
    BY <1>2, <1>5 DEF Conf
  <2> QED BY <1>3, <1>4, <2>1 DEF HostConnecting
<1>17. HostOpen(K, u, h2, d2)
  <2>1. HostOpen(K, u, h, d)
    BY DEF Conf
  <2> SUFFICES ASSUME NEW b2 \in Chans, h2[b2].st = "open"
               PROVE  /\ ~ Coming(d2, "close", h2[b2].peer)
                      /\ \E x \in K : /\ x.serverID = h2[b2].peer
                                      /\ \/ Fresh(x) /\ Confirmed(d2, h2[b2].peer, b2)
                                         \/ /\ x.clientID = b2 /\ "CLIENT" \notin x.closed
                                            /\ "SERVER" \in x.closed => Coming(u, "close", b2)
    BY DEF HostOpen
  <2>2. CASE b2 = b
    <3>1. ~ Coming(d, "close", c)
      BY <1>5 DEF Coming
    <3> QED BY <1>2, <1>5, <1>6, <2>2, <3>1
  <2>3. CASE b2 # b
    BY <1>2, <1>6, <2>1, <2>3 DEF HostOpen
  <2> QED BY <2>2, <2>3
<1>18. HostClosed(K, u, h2, d2)
  <2>1. HostClosed(K, u, h, d) /\ \A b2 \in Chans : h2[b2].st = "closed" => b2 # b /\ h2[b2] = h[b2]
    BY <1>2 DEF Conf
  <2> QED BY <1>6, <1>7, <2>1 DEF HostClosed
<1>19. PeersDiffer(h2)
  <2>1. \A b2 \in Chans : h2[b2].st # "free" => h[b2].st # "free" /\ h2[b2].peer = h[b2].peer
    BY <1>2 DEF c
  <2> QED BY <2>1 DEF Conf, PeersDiffer
<1> QED BY <1>8, <1>9, <1>10, <1>11, <1>12, <1>13, <1>14, <1>15, <1>16, <1>17, <1>18, <1>19 DEF Conf, h2

\* The guest could not make the connection.
LEMMA HostRefuses ==
  ASSUME NEW K, NEW u, NEW h, NEW d, Conf(K, u, h, d), NEW b \in Chans, h[b].st = "connecting",
         NEW d2, NEW m, More(d2, d, m, FromHost("failure", h[b].peer, None))
  PROVE  Conf(K, u, [h EXCEPT ![b] = NoChannel], d2)
<1> DEFINE c == h[b].peer
           h2 == [h EXCEPT ![b] = NoChannel]
           p == FromHost("failure", c, None)
<1>1. h \in HostState /\ c \in Chans /\ DOMAIN d \subseteq Nat
  BY DEF Conf, Typed, PeersDiffer
<1>2. /\ h2 \in HostState /\ h2[b].st = "free"
      /\ \A b2 \in Chans : b2 # b => h2[b2] = h[b2]
  BY <1>1 DEF HostState, NoChannel
<1>3. p \in DownPackets /\ p.t = "failure" /\ p.ch = c
  BY <1>1 DEF FromHost, DownPackets
<1>4. /\ m \in Nat /\ m \in DOMAIN d2 /\ d2[m] = p /\ \A j \in DOMAIN d : j < m
      /\ \A j \in DOMAIN d : j \in DOMAIN d2 /\ d2[j] = d[j]
      /\ \A j \in DOMAIN d2 : j = m \/ j \in DOMAIN d
  BY DEF More
<1>5. /\ \E x \in K : x.serverID = c /\ Fresh(x)
      /\ ~ Coming(u, "open", c) /\ ~ Coming(u, "close", b)
      /\ \A j \in DOMAIN d : d[j].ch # c
      /\ \A b2 \in Chans : b2 # b /\ h[b2].st # "free" => h[b2].peer # c
  BY DEF Conf, HostConnecting, PeersDiffer
<1>6. /\ \A n : Coming(d2, "close", n) <=> Coming(d, "close", n)
      /\ \A n, b2 : Confirmed(d2, n, b2) <=> Confirmed(d, n, b2)
  BY <1>3, <1>4 DEF Coming, Confirmed
<1>7. \A b2 : Abandoned(K, u, d2, b2) <=> Abandoned(K, u, d, b2)
  BY <1>3, <1>4, <1>6 DEF Abandoned
<1>8. \A b2 \in Chans : h2[b2].st # "free" => b2 # b /\ h2[b2] = h[b2] /\ h[b2].peer # c
  BY <1>2, <1>5
<1> HIDE DEF c, h2, p
<1>9. KnownChannels(K)
  BY DEF Conf
<1>10. Typed(u, h2, d2)
  BY <1>1, <1>2, <1>3, <1>4 DEF Conf, Typed
<1>11. Linked(K, h2, d2)
  <2>1. Linked(K, h, d) /\ \A x \in K : x.clientID # None => x.clientID \in Chans
    BY <1>9 DEF Conf, KnownChannels, Channel
  <2>2. \A x \in K : x.clientID # None /\ h[x.clientID].st \in {"open", "closed"} => h2[x.clientID] = h[x.clientID]
    BY <1>2, <2>1
  <2> QED BY <1>6, <2>1, <2>2 DEF Linked
<1>12. Confirms(K, h2, d2)
  <2> SUFFICES ASSUME NEW j \in DOMAIN d2, d2[j].t = "confirm"
               PROVE  /\ d2[j].from \in Chans
                      /\ \E x \in K : x.serverID = d2[j].ch /\ Fresh(x)
                      /\ h2[d2[j].from].st \in {"open", "closed"} /\ h2[d2[j].from].peer = d2[j].ch
                      /\ \A k \in DOMAIN d2 : d2[k].ch = d2[j].ch => k = j \/ (k > j /\ d2[k].t \in {"data", "close"})
                      /\ \A y \in K : y.clientID = d2[j].from =>
                           y.closed = {"SERVER"} /\ \E k \in DOMAIN d2 : k < j /\ d2[k].t = "close" /\ d2[k].ch = y.serverID
    BY DEF Confirms
  <2>1. j \in DOMAIN d /\ d2[j] = d[j] /\ Confirms(K, h, d)
    BY <1>3, <1>4 DEF Conf
  <2>2. d[j].ch # c /\ d[j].from # b
    BY <1>5, <2>1 DEF Confirms
  <2>3. \A k \in DOMAIN d2 : d2[k].ch = d[j].ch => k = j \/ (k > j /\ d2[k].t \in {"data", "close"})
    BY <1>3, <1>4, <2>1, <2>2 DEF Confirms
  <2>4. \A y \in K : y.clientID = d2[j].from =>
          y.closed = {"SERVER"} /\ \E k \in DOMAIN d2 : k < j /\ d2[k].t = "close" /\ d2[k].ch = y.serverID
    BY <1>4, <2>1 DEF Confirms
  <2> QED BY <1>2, <2>1, <2>2, <2>3, <2>4 DEF Confirms
<1>13. Failures(K, u, h2, d2)
  <2>1. Failures(K, u, h, d)
    BY DEF Conf
  <2> SUFFICES ASSUME NEW j \in DOMAIN d2, d2[j].t = "failure"
               PROVE  /\ \E x \in K : x.serverID = d2[j].ch /\ Fresh(x)
                      /\ \A k \in DOMAIN d2 : d2[k].ch = d2[j].ch => k = j
                      /\ ~ Coming(u, "open", d2[j].ch)
                      /\ \A b2 \in Chans : h2[b2].st # "free" => h2[b2].peer # d2[j].ch
    BY DEF Failures
  <2>2. CASE j = m
    BY <1>3, <1>4, <1>5, <1>8, <2>2
  <2>3. CASE j \in DOMAIN d
    BY <1>3, <1>4, <1>5, <1>8, <2>1, <2>3 DEF Failures
  <2> QED BY <1>4, <2>2, <2>3
<1>14. DataAndCloses(K, d2)
  <2>1. \A j \in DOMAIN d2 : d2[j].t \in {"data", "close"} => j \in DOMAIN d /\ d2[j] = d[j]
    BY <1>3, <1>4
  <2>2. \A j \in DOMAIN d : Told(K, d, j) => Told(K, d2, j)
    BY <1>4 DEF Told
  <2> QED BY <2>1, <2>2 DEF Conf, DataAndCloses
<1>15. UpOpens(K, u, h2, d2)
  <2>1. UpOpens(K, u, h, d) /\ \A l \in DOMAIN u : u[l].t = "open" => u[l].ch # c
    BY <1>5 DEF Conf, Coming
  <2>2. \A l \in DOMAIN u : u[l].t = "open" => \A j \in DOMAIN d2 : d2[j].ch # u[l].ch
    BY <1>3, <1>4, <2>1 DEF UpOpens
  <2> QED BY <1>8, <2>1, <2>2 DEF UpOpens
<1>16. UpCloses(K, u, h2, d2)
  <2>1. UpCloses(K, u, h, d) /\ \A l \in DOMAIN u : u[l].t = "close" => u[l].ch # b /\ u[l].ch \in Chans
    BY <1>5, <1>10 DEF Conf, Coming, Typed, UpPackets, Requests
  <2> QED BY <1>2, <1>7, <2>1 DEF UpCloses
<1>17. HostConnecting(K, u, h2, d2)
  <2>1. HostConnecting(K, u, h, d) /\ \A b2 \in Chans : h2[b2].st = "connecting" => b2 # b /\ h2[b2] = h[b2] /\ h[b2].peer # c
    BY <1>8 DEF Conf
  <2> QED BY <1>3, <1>4, <2>1 DEF HostConnecting
<1>18. HostOpen(K, u, h2, d2)
  <2>1. HostOpen(K, u, h, d) /\ \A b2 \in Chans : h2[b2].st = "open" => b2 # b /\ h2[b2] = h[b2]
    BY <1>8 DEF Conf
  <2> QED BY <1>6, <2>1 DEF HostOpen
<1>19. HostClosed(K, u, h2, d2)
  <2>1. HostClosed(K, u, h, d) /\ \A b2 \in Chans : h2[b2].st = "closed" => b2 # b /\ h2[b2] = h[b2]
    BY <1>8 DEF Conf
  <2> QED BY <1>6, <1>7, <2>1 DEF HostClosed
<1>20. PeersDiffer(h2)
  BY <1>8 DEF Conf, PeersDiffer
<1> QED BY <1>9, <1>10, <1>11, <1>12, <1>13, <1>14, <1>15, <1>16, <1>17, <1>18, <1>19, <1>20 DEF Conf, h2

\* Data of an open channel, and the guest's own close of it.
LEMMA HostSpeaks ==
  ASSUME NEW K, NEW u, NEW h, NEW d, Conf(K, u, h, d), NEW b \in Chans, h[b].st = "open",
         NEW h2, NEW d2, NEW m, NEW t, More(d2, d, m, FromHost(t, h[b].peer, None)),
         \/ t = "data" /\ h2 = h
         \/ t = "close" /\ h2 = [h EXCEPT ![b].st = "closed"]
  PROVE  Conf(K, u, h2, d2)
<1> DEFINE c == h[b].peer
           p == FromHost(t, c, None)
<1>1. h \in HostState /\ c \in Chans /\ DOMAIN d \subseteq Nat
  BY DEF Conf, Typed, PeersDiffer
<1>2. /\ h2 \in HostState /\ \A b2 \in Chans : b2 # b => h2[b2] = h[b2]
      /\ \A b2 \in Chans : h2[b2].peer = h[b2].peer /\ (h2[b2].st = "free" <=> h[b2].st = "free")
      /\ h2[b].st = IF t = "close" THEN "closed" ELSE "open"
  BY <1>1 DEF HostState
<1>3. p \in DownPackets /\ p.t = t /\ p.ch = c /\ t \in {"data", "close"}
  BY <1>1 DEF FromHost, DownPackets
<1>4. /\ m \in Nat /\ m \in DOMAIN d2 /\ d2[m] = p /\ \A j \in DOMAIN d : j < m
      /\ \A j \in DOMAIN d : j \in DOMAIN d2 /\ d2[j] = d[j]
      /\ \A j \in DOMAIN d2 : j = m \/ j \in DOMAIN d
  BY DEF More
<1>5. /\ ~ Coming(d, "close", c)
      /\ \E x \in K : /\ x.serverID = c
                      /\ \/ Fresh(x) /\ Confirmed(d, c, b)
                         \/ /\ x.clientID = b /\ "CLIENT" \notin x.closed
                            /\ "SERVER" \in x.closed => Coming(u, "close", b)
      /\ \A b2 \in Chans : b2 # b /\ h[b2].st # "free" => h[b2].peer # c
  BY DEF Conf, HostOpen, PeersDiffer
<1>6. /\ \A n : n # c => (Coming(d2, "close", n) <=> Coming(d, "close", n))
      /\ \A n : Coming(d, "close", n) => Coming(d2, "close", n)
      /\ t = "close" => Coming(d2, "close", c)
      /\ t # "close" => ~ Coming(d2, "close", c)
      /\ \A n, b2 : Confirmed(d2, n, b2) <=> Confirmed(d, n, b2)
  <2>1. \A n, b2 : Confirmed(d2, n, b2) <=> Confirmed(d, n, b2)
    BY <1>3, <1>4 DEF Confirmed
  <2>2. \A n : Coming(d2, "close", n) <=> Coming(d, "close", n) \/ (n = c /\ t = "close")
    BY <1>3, <1>4 DEF Coming
  <2> QED BY <1>5, <2>1, <2>2
<1>7. \A b2 : Abandoned(K, u, d2, b2) <=> Abandoned(K, u, d, b2)
  BY <1>3, <1>4 DEF Abandoned
<1> HIDE DEF c, p
<1>8. KnownChannels(K)
  BY DEF Conf
<1>9. Typed(u, h2, d2)
  BY <1>1, <1>2, <1>3, <1>4 DEF Conf, Typed
<1>10. Linked(K, h2, d2)
  <2>1. Linked(K, h, d) /\ \A x \in K : x.clientID # None => x.clientID \in Chans
    BY <1>8 DEF Conf, KnownChannels, Channel
  <2>2. \A b2 \in Chans : h[b2].st \in {"open", "closed"} => h2[b2].st \in {"open", "closed"}
    BY <1>2
  <2>3. \A b2 \in Chans : h[b2].st = "closed" => h2[b2].st = "closed"
    BY <1>2
  <2> QED BY <1>2, <1>6, <2>1, <2>2, <2>3 DEF Linked
<1>11. Confirms(K, h2, d2)
  <2> SUFFICES ASSUME NEW j \in DOMAIN d2, d2[j].t = "confirm"
               PROVE  /\ d2[j].from \in Chans
                      /\ \E x \in K : x.serverID = d2[j].ch /\ Fresh(x)
                      /\ h2[d2[j].from].st \in {"open", "closed"} /\ h2[d2[j].from].peer = d2[j].ch
                      /\ \A k \in DOMAIN d2 : d2[k].ch = d2[j].ch => k = j \/ (k > j /\ d2[k].t \in {"data", "close"})
                      /\ \A y \in K : y.clientID = d2[j].from =>
                           y.closed = {"SERVER"} /\ \E k \in DOMAIN d2 : k < j /\ d2[k].t = "close" /\ d2[k].ch = y.serverID
    BY DEF Confirms
  <2>1. j \in DOMAIN d /\ d2[j] = d[j] /\ Confirms(K, h, d) /\ j < m
    BY <1>3, <1>4 DEF Conf
  <2>2. \A k \in DOMAIN d2 : d2[k].ch = d[j].ch => k = j \/ (k > j /\ d2[k].t \in {"data", "close"})
    BY <1>1, <1>3, <1>4, <2>1 DEF Confirms
  <2>3. \A y \in K : y.clientID = d2[j].from =>
          y.closed = {"SERVER"} /\ \E k \in DOMAIN d2 : k < j /\ d2[k].t = "close" /\ d2[k].ch = y.serverID
    BY <1>4, <2>1 DEF Confirms
  <2>4. d[j].from \in Chans /\ h[d[j].from].st \in {"open", "closed"} /\ h[d[j].from].peer = d[j].ch
    BY <2>1 DEF Confirms
  <2>5. h2[d[j].from].st \in {"open", "closed"} /\ h2[d[j].from].peer = d[j].ch
    BY <1>2, <2>4
  <2> QED BY <2>1, <2>2, <2>3, <2>4, <2>5 DEF Confirms
<1>12. Failures(K, u, h2, d2)
  <2>1. Failures(K, u, h, d) /\ \A j \in DOMAIN d2 : d2[j].t = "failure" => j \in DOMAIN d /\ d2[j] = d[j]
    BY <1>3, <1>4 DEF Conf
  <2>2. \A j \in DOMAIN d : d[j].t = "failure" => d[j].ch # c
    <3>1. h[b].st # "free"
      OBVIOUS
    <3> QED BY <2>1, <3>1 DEF Failures, c
  <2> QED BY <1>2, <1>3, <1>4, <2>1, <2>2 DEF Failures
<1>13. DataAndCloses(K, d2)
  <2>1. DataAndCloses(K, d)
    BY DEF Conf
  <2>2. \A j \in DOMAIN d : Told(K, d, j) => Told(K, d2, j)
    BY <1>4 DEF Told
  <2>3. Told(K, d2, m)
    <3>1. PICK x \in K : /\ x.serverID = c
                         /\ \/ Fresh(x) /\ Confirmed(d, c, b)
                            \/ x.clientID = b /\ "CLIENT" \notin x.closed
      BY <1>5
    <3>2. CASE Fresh(x) /\ Confirmed(d, c, b)
      <4>1. PICK k \in DOMAIN d : d[k].t = "confirm" /\ d[k].ch = c
        BY <3>2 DEF Confirmed
      <4>2. k \in DOMAIN d2 /\ k < m /\ d2[k] = d[k] /\ "CLIENT" \notin x.closed
        BY <1>4, <3>2 DEF Fresh
      <4> QED BY <1>3, <1>4, <3>1, <4>1, <4>2 DEF Told
    <3>3. CASE x.clientID = b /\ "CLIENT" \notin x.closed
      <4>1. b # None
        BY ProxyAssumption
      <4> QED BY <1>3, <1>4, <3>1, <3>3, <4>1 DEF Told
    <3> QED BY <3>1, <3>2, <3>3
  <2>4. \A j \in DOMAIN d2 : d2[j].t \in {"data", "close"} => Told(K, d2, j)
    BY <1>4, <2>1, <2>2, <2>3 DEF DataAndCloses
  <2>5. ASSUME NEW j \in DOMAIN d2, NEW k \in DOMAIN d2, d2[k].t = "close", d2[j].t \in {"data", "close"}, d2[j].ch = d2[k].ch
        PROVE  j = k \/ (j < k /\ d2[j].t = "data")
    <3>1. \A i \in DOMAIN d : ~ (d[i].t = "close" /\ d[i].ch = c)
      BY <1>5 DEF Coming
    <3>2. CASE k \in DOMAIN d
      <4>1. j \in DOMAIN d
        BY <1>3, <1>4, <2>5, <3>1, <3>2
      <4> QED BY <1>4, <2>1, <2>5, <3>2, <4>1 DEF DataAndCloses
    <3>3. CASE k = m
      BY <1>3, <1>4, <2>5, <3>1, <3>3
    <3> QED BY <1>4, <3>2, <3>3
  <2> QED BY <2>4, <2>5 DEF DataAndCloses
<1>14. UpOpens(K, u, h2, d2)
  <2>1. UpOpens(K, u, h, d)
    BY DEF Conf
  <2>2. ASSUME NEW l \in DOMAIN u, u[l].t = "open" PROVE u[l].ch # c
    <3>1. PICK y \in K : y.serverID = u[l].ch /\ Fresh(y)
      BY <2>1, <2>2 DEF UpOpens
    <3>2. b # None /\ ~ Confirmed(d, u[l].ch, b)
      BY <2>1, <2>2, ProxyAssumption DEF UpOpens, Confirmed
    <3> QED BY <1>5, <1>8, <3>1, <3>2 DEF KnownChannels, Fresh
  <2>3. \A l \in DOMAIN u : u[l].t = "open" => \A j \in DOMAIN d2 : d2[j].ch # u[l].ch
    BY <1>3, <1>4, <2>1, <2>2 DEF UpOpens
  <2> QED BY <1>2, <2>1, <2>3 DEF UpOpens
<1>15. UpCloses(K, u, h2, d2)
  <2>1. UpCloses(K, u, h, d) /\ \A l \in DOMAIN u : u[l].t = "close" => u[l].ch \in Chans
    BY <1>9 DEF Conf, Typed, UpPackets, Requests
  <2>2. \A b2 \in Chans : h[b2].st \in {"open", "closed"} => h2[b2].st \in {"open", "closed"}
    BY <1>2
  <2>3. \A b2 \in Chans : h[b2].st = "closed" => h2[b2].st = "closed"
    BY <1>2
  <2> QED BY <1>2, <1>7, <2>1, <2>2, <2>3 DEF UpCloses
<1>16. HostConnecting(K, u, h2, d2)
  <2>1. HostConnecting(K, u, h, d) /\ \A b2 \in Chans : h2[b2].st = "connecting" => b2 # b /\ h2[b2] = h[b2] /\ h[b2].peer # c
    BY <1>2, <1>5 DEF Conf
  <2> QED BY <1>3, <1>4, <2>1 DEF HostConnecting
<1>17. HostOpen(K, u, h2, d2)
  <2>1. HostOpen(K, u, h, d)
    BY DEF Conf
  <2>2. ASSUME NEW b2 \in Chans, h2[b2].st = "open"
        PROVE  h[b2].st = "open" /\ h2[b2].peer = h[b2].peer /\ (h[b2].peer = c => t # "close")
    BY <1>2, <1>5, <2>2
  <2>3. \A b2 \in Chans : h2[b2].st = "open" => ~ Coming(d2, "close", h2[b2].peer)
    BY <1>6, <2>1, <2>2 DEF HostOpen
  <2> QED BY <1>6, <2>1, <2>2, <2>3 DEF HostOpen
<1>18. HostClosed(K, u, h2, d2)
  <2>1. HostClosed(K, u, h, d)
    BY DEF Conf
  <2> SUFFICES ASSUME NEW b2 \in Chans, h2[b2].st = "closed"
               PROVE  \/ Abandoned(K, u, d2, b2)
                      \/ \E x \in K : /\ x.serverID = h2[b2].peer
                                      /\ \/ Fresh(x) /\ Confirmed(d2, h2[b2].peer, b2) /\ Coming(d2, "close", h2[b2].peer)
                                         \/ /\ x.clientID = b2
                                            /\ x.closed = {"CLIENT"} \/ ("CLIENT" \notin x.closed /\ Coming(d2, "close", h2[b2].peer))
                                            /\ "SERVER" \in x.closed => Coming(u, "close", b2)
    BY DEF HostClosed
  <2>2. CASE b2 = b
    <3>1. t = "close" /\ h2[b2].peer = c
      BY <1>2, <1>3, <2>2 DEF c
    <3> QED BY <1>5, <1>6, <2>2, <3>1
  <2>3. CASE b2 # b
    BY <1>2, <1>6, <1>7, <2>1, <2>3 DEF HostClosed
  <2> QED BY <2>2, <2>3
<1>19. PeersDiffer(h2)
  BY <1>2 DEF Conf, PeersDiffer
<1> QED BY <1>8, <1>9, <1>10, <1>11, <1>12, <1>13, <1>14, <1>15, <1>16, <1>17, <1>18, <1>19 DEF Conf

-----------------------------------------------------------------------------
(***************************************************************************)
(* Packets of the attacker.                                                *)
(***************************************************************************)
\* What the guest says is about channels the parser has.
LEMMA AboutKnown ==
  ASSUME NEW K, NEW u, NEW h, NEW d, Conf(K, u, h, d)
  PROVE  \A j \in DOMAIN d : \E x \in K : x.serverID = d[j].ch
<1> SUFFICES ASSUME NEW j \in DOMAIN d PROVE \E x \in K : x.serverID = d[j].ch
  OBVIOUS
<1>1. d[j].t \in {"confirm", "failure", "data", "close"}
  BY DEF Conf, Typed, DownPackets
<1>2. CASE d[j].t = "confirm"
  BY <1>2 DEF Conf, Confirms
<1>3. CASE d[j].t = "failure"
  BY <1>3 DEF Conf, Failures
<1>4. CASE d[j].t \in {"data", "close"}
  BY <1>4 DEF Conf, DataAndCloses, Told
<1> QED BY <1>1, <1>2, <1>3, <1>4

\* The parser passes an opening on, with a channel for it.
LEMMA OpenSent ==
  ASSUME NEW K, NEW u, NEW h, NEW d, Conf(K, u, h, d), NEW u2, NEW e, NEW p \in Requests, More(u2, u, e, p), p.t = "open",
         \A x \in K : x.serverID # p.ch, NEW s \in {None, "forward"}
  PROVE  Conf(K \cup {CreateChannel("SERVER", p.ch, s)}, u2, h, d)
<1> DEFINE c == p.ch
           x0 == CreateChannel("SERVER", c, s)
           K2 == K \cup {x0}
<1>1. /\ c \in Chans /\ x0 \in Channel /\ x0.serverID = c /\ x0.clientID = None /\ x0.closed = {} /\ Fresh(x0)
      /\ p \in UpPackets
  BY DEF Requests, CreateChannel, Channel, Services, Fresh, UpPackets
<1>2. /\ e \in Nat /\ e \in DOMAIN u2 /\ u2[e] = p /\ \A l \in DOMAIN u : l < e /\ l # e
      /\ \A l \in DOMAIN u : l \in DOMAIN u2 /\ u2[l] = u[l]
      /\ \A l \in DOMAIN u2 : l = e \/ l \in DOMAIN u
  BY DEF More, Conf, Typed
<1>3. /\ \A n : Coming(u2, "close", n) <=> Coming(u, "close", n)
      /\ \A n : Coming(u2, "open", n) <=> Coming(u, "open", n) \/ n = c
  BY <1>2 DEF Coming
<1>4. \A j \in DOMAIN d : d[j].ch # c
  BY AboutKnown
<1>5. None \notin Chans
  BY ProxyAssumption
<1> HIDE DEF x0, c
<1>6. \A b \in Chans : Abandoned(K2, u2, d, b) <=> Abandoned(K, u, d, b)
  BY <1>1, <1>3, <1>5 DEF Abandoned
<1>7. KnownChannels(K2)
  BY <1>1 DEF Conf, KnownChannels, Ends, c
<1>8. Typed(u2, h, d)
  BY <1>1, <1>2 DEF Conf, Typed
<1>9. Confirms(K2, h, d)
  BY <1>1, <1>5 DEF Conf, Confirms
<1>10. Failures(K2, u2, h, d)
  BY <1>3, <1>4 DEF Conf, Failures
<1>11. DataAndCloses(K2, d)
  BY DEF Conf, DataAndCloses, Told
<1>12. UpOpens(K2, u2, h, d)
  <2> SUFFICES ASSUME NEW l \in DOMAIN u2, u2[l].t = "open"
               PROVE  /\ \E x \in K2 : x.serverID = u2[l].ch /\ Fresh(x)
                      /\ \A k \in DOMAIN u2 : u2[k].t = "open" /\ u2[k].ch = u2[l].ch => k = l
                      /\ \A j \in DOMAIN d : d[j].ch # u2[l].ch
                      /\ \A b \in Chans : h[b].st # "free" /\ h[b].peer = u2[l].ch =>
                           \E k \in DOMAIN u2 : k < l /\ u2[k].t = "close" /\ u2[k].ch = b
    BY DEF UpOpens
  <2>1. UpOpens(K, u, h, d)
    BY DEF Conf
  <2>2. \A k \in DOMAIN u : u[k].t = "open" => u[k].ch # c
    BY <2>1 DEF UpOpens, c
  <2>3. CASE l = e
    <3>1. ASSUME NEW b \in Chans, h[b].st # "free", h[b].peer = c
          PROVE  \E k \in DOMAIN u2 : k < e /\ u2[k].t = "close" /\ u2[k].ch = b
      <4>1. h[b].st \in {"connecting", "open", "closed"}
        BY <3>1 DEF Conf, Typed, HostState
      <4>2. ~ \E x \in K : x.serverID = h[b].peer
        BY <3>1 DEF c
      <4>3. Abandoned(K, u, d, b)
        BY <3>1, <4>1, <4>2 DEF Conf, HostConnecting, HostOpen, HostClosed
      <4> QED BY <1>2, <4>3 DEF Abandoned, Coming
    <3>2. u2[l] = p /\ u2[l].ch = c /\ u2[l].t = "open"
      BY <1>2, <2>3 DEF c
    <3> QED BY <1>1, <1>2, <1>4, <2>2, <2>3, <3>1, <3>2
  <2>4. CASE l \in DOMAIN u
    <3>1. u2[l] = u[l] /\ u[l].ch # c
      BY <1>2, <2>2, <2>4
    <3>2. /\ \E x \in K : x.serverID = u[l].ch /\ Fresh(x)
          /\ \A k \in DOMAIN u : u[k].t = "open" /\ u[k].ch = u[l].ch => k = l
          /\ \A j \in DOMAIN d : d[j].ch # u[l].ch
          /\ \A b \in Chans : h[b].st # "free" /\ h[b].peer = u[l].ch =>
               \E k \in DOMAIN u : k < l /\ u[k].t = "close" /\ u[k].ch = b
      BY <2>1, <2>4, <3>1 DEF UpOpens
    <3>3. \A k \in DOMAIN u2 : u2[k].t = "open" /\ u2[k].ch = u[l].ch => k = l
      BY <1>2, <3>1, <3>2 DEF c
    <3> QED BY <1>2, <3>1, <3>2, <3>3
  <2> QED BY <1>2, <2>3, <2>4
<1>13. UpCloses(K2, u2, h, d)
  <2>1. UpCloses(K, u, h, d) /\ \A l \in DOMAIN u2 : u2[l].t = "close" => l \in DOMAIN u /\ u2[l] = u[l] /\ u[l].ch \in Chans
    BY <1>1, <1>2, <1>8 DEF Conf, Typed, UpPackets, Requests
  <2> SUFFICES ASSUME NEW l \in DOMAIN u2, u2[l].t = "close"
               PROVE  /\ \A k \in DOMAIN u2 : u2[k].t = "close" /\ u2[k].ch = u2[l].ch => k = l
                      /\ h[u2[l].ch].st \in {"open", "closed"}
                      /\ \/ \E y \in K2 : y.clientID = u2[l].ch /\ y.closed = {"SERVER"} /\ y.serverID = h[u2[l].ch].peer
                         \/ h[u2[l].ch].st = "closed" /\ Abandoned(K2, u2, d, u2[l].ch)
    BY DEF UpCloses
  <2>2. l \in DOMAIN u /\ u2[l] = u[l] /\ u[l].t = "close" /\ u[l].ch \in Chans
    BY <2>1
  <2>3. /\ \A k \in DOMAIN u : u[k].t = "close" /\ u[k].ch = u[l].ch => k = l
        /\ h[u[l].ch].st \in {"open", "closed"}
        /\ \/ \E y \in K : y.clientID = u[l].ch /\ y.closed = {"SERVER"} /\ y.serverID = h[u[l].ch].peer
           \/ h[u[l].ch].st = "closed" /\ Abandoned(K, u, d, u[l].ch)
    BY <2>1, <2>2 DEF UpCloses
  <2>4. \A k \in DOMAIN u2 : u2[k].t = "close" /\ u2[k].ch = u[l].ch => k = l
    BY <2>1, <2>3
  <2> QED BY <1>6, <2>2, <2>3, <2>4
<1>14. HostConnecting(K2, u2, h, d)
  <2>1. HostConnecting(K, u, h, d) /\ \A b \in Chans : h[b].st = "connecting" => h[b].peer # c
    BY DEF Conf, HostConnecting, c
  <2> QED BY <1>3, <2>1 DEF HostConnecting
<1>15. HostOpen(K2, u2, h, d)
  BY <1>3 DEF Conf, HostOpen
<1>16. HostClosed(K2, u2, h, d)
  BY <1>3, <1>6 DEF Conf, HostClosed
<1>17. Linked(K2, h, d)
  BY <1>1 DEF Conf, Linked
<1>18. PeersDiffer(h)
  BY DEF Conf
<1> QED BY <1>7, <1>8, <1>9, <1>10, <1>11, <1>12, <1>13, <1>14, <1>15, <1>16, <1>17, <1>18 DEF Conf, x0, c

\* The session of a channel is nothing the guest and the parser differ about.
LEMMA SessionChanged ==
  ASSUME NEW K, NEW u, NEW h, NEW d, Conf(K, u, h, d), NEW c \in K, NEW s \in Services
  PROVE  Conf((K \ {c}) \cup {[c EXCEPT !.ses = s]}, u, h, d)
<1> DEFINE c2 == [c EXCEPT !.ses = s]
           K2 == (K \ {c}) \cup {c2}
<1>1. /\ c \in Channel /\ c2 \in Channel
      /\ c2.serverID = c.serverID /\ c2.clientID = c.clientID /\ c2.closed = c.closed /\ (Fresh(c2) <=> Fresh(c))
  BY DEF Conf, KnownChannels, Channel, Fresh
<1> HIDE DEF c2
<1>2. \A b : Abandoned(K2, u, d, b) <=> Abandoned(K, u, d, b)
  BY <1>1 DEF Abandoned
<1>3. KnownChannels(K2)
  BY <1>1 DEF Conf, KnownChannels
<1>4. Confirms(K2, h, d)
  <2>1. Confirms(K, h, d)
    BY DEF Conf
  <2> SUFFICES ASSUME NEW j \in DOMAIN d, d[j].t = "confirm"
               PROVE  /\ \E x \in K2 : x.serverID = d[j].ch /\ Fresh(x)
                      /\ \A y \in K2 : y.clientID = d[j].from =>
                           y.closed = {"SERVER"} /\ \E k \in DOMAIN d : k < j /\ d[k].t = "close" /\ d[k].ch = y.serverID
    BY <2>1 DEF Confirms
  <2>2. \E x \in K2 : x.serverID = d[j].ch /\ Fresh(x)
    BY <1>1, <2>1 DEF Confirms
  <2>3. \A y \in K : y.clientID = d[j].from =>
          y.closed = {"SERVER"} /\ \E k \in DOMAIN d : k < j /\ d[k].t = "close" /\ d[k].ch = y.serverID
    BY <2>1 DEF Confirms
  <2> QED BY <1>1, <2>2, <2>3
<1>5. Failures(K2, u, h, d)
  BY <1>1 DEF Conf, Failures
<1>6. DataAndCloses(K2, d)
  <2>1. \A j \in DOMAIN d : Told(K, d, j) => Told(K2, d, j)
    BY <1>1 DEF Told
  <2> QED BY <2>1 DEF Conf, DataAndCloses
<1>7. UpOpens(K2, u, h, d)
  BY <1>1 DEF Conf, UpOpens
<1>8. UpCloses(K2, u, h, d)
  BY <1>1, <1>2 DEF Conf, UpCloses
<1>9. HostConnecting(K2, u, h, d)
  BY <1>1 DEF Conf, HostConnecting
<1>10. HostOpen(K2, u, h, d)
  BY <1>1 DEF Conf, HostOpen
<1>11. HostClosed(K2, u, h, d)
  <2>1. HostClosed(K, u, h, d)
    BY DEF Conf
  <2> SUFFICES ASSUME NEW n \in Chans, h[n].st = "closed", ~ Abandoned(K, u, d, n)
               PROVE  \E y \in K2 : /\ y.serverID = h[n].peer
                    /\ \/ Fresh(y) /\ Confirmed(d, h[n].peer, n) /\ Coming(d, "close", h[n].peer)
                       \/ /\ y.clientID = n
                          /\ y.closed = {"CLIENT"} \/ ("CLIENT" \notin y.closed /\ Coming(d, "close", h[n].peer))
                          /\ "SERVER" \in y.closed => Coming(u, "close", n)
    BY <1>2 DEF HostClosed
  <2>2. PICK y \in K : /\ y.serverID = h[n].peer
                    /\ \/ Fresh(y) /\ Confirmed(d, h[n].peer, n) /\ Coming(d, "close", h[n].peer)
                       \/ /\ y.clientID = n
                          /\ y.closed = {"CLIENT"} \/ ("CLIENT" \notin y.closed /\ Coming(d, "close", h[n].peer))
                          /\ "SERVER" \in y.closed => Coming(u, "close", n)
    BY <2>1 DEF HostClosed
  <2>3. CASE y = c
    BY <1>1, <2>2, <2>3
  <2>4. CASE y # c
    BY <2>2, <2>4
  <2> QED BY <2>3, <2>4
<1>12. Linked(K2, h, d)
  BY <1>1 DEF Conf, Linked
<1>13. Typed(u, h, d) /\ PeersDiffer(h)
  BY DEF Conf
<1> QED BY <1>3, <1>4, <1>5, <1>6, <1>7, <1>8, <1>9, <1>10, <1>11, <1>12, <1>13 DEF Conf, c2

\* The attacker closes first.
LEMMA CloseSent ==
  ASSUME NEW K, NEW u, NEW h, NEW d, Conf(K, u, h, d), NEW u2, NEW e, NEW p \in Requests, More(u2, u, e, p), p.t = "close",
         NEW x \in K, x.clientID = p.ch, x.closed = {}
  PROVE  Conf((K \ {x}) \cup {[x EXCEPT !.closed = {"SERVER"}]}, u2, h, d)
<1> DEFINE b == p.ch
           x2 == [x EXCEPT !.closed = {"SERVER"}]
           K2 == (K \ {x}) \cup {x2}
<1>1. /\ b \in Chans /\ b # None /\ p \in UpPackets
      /\ x \in Channel /\ x2 \in Channel /\ x2.serverID = x.serverID /\ x2.clientID = b /\ x2.closed = {"SERVER"}
  BY ProxyAssumption DEF Requests, UpPackets, Conf, KnownChannels, Channel, Ends
<1>2. /\ e \in Nat /\ e \in DOMAIN u2 /\ u2[e] = p /\ \A l \in DOMAIN u : l < e /\ l # e
      /\ \A l \in DOMAIN u : l \in DOMAIN u2 /\ u2[l] = u[l]
      /\ \A l \in DOMAIN u2 : l = e \/ l \in DOMAIN u
  BY DEF More, Conf, Typed
<1>3. /\ \A n : Coming(u2, "close", n) <=> Coming(u, "close", n) \/ n = b
      /\ \A n : Coming(u2, "open", n) <=> Coming(u, "open", n)
  BY <1>2 DEF Coming
<1>4. \A y \in K : Fresh(y) => y \in K2
  BY <1>1 DEF Fresh
<1>5. /\ h[b].st \in {"open", "closed"} /\ h[b].peer = x.serverID
      /\ \A y \in K : y # x => y.clientID # b /\ y.serverID # x.serverID
  BY <1>1 DEF Conf, Linked, KnownChannels
<1>6. ~ Coming(u, "close", b)
  <2>1. UpCloses(K, u, h, d)
    BY DEF Conf
  <2>2. \A y \in K : y.clientID = b => y.closed # {"SERVER"}
    BY <1>5
  <2>3. ~ Abandoned(K, u, d, b)
    BY DEF Abandoned
  <2> QED BY <2>1, <2>2, <2>3 DEF UpCloses, Coming
<1> HIDE DEF x2, b
<1>7. \A n : Abandoned(K, u, d, n) => Abandoned(K2, u2, d, n)
  BY <1>1, <1>3 DEF Abandoned, b
<1>8. KnownChannels(K2)
  <2>1. KnownChannels(K)
    BY DEF Conf
  <2>2. x2.closed # Ends /\ x2.clientID # None
    BY <1>1 DEF Ends
  <2> QED BY <1>1, <1>5, <2>1, <2>2 DEF KnownChannels
<1>9. Typed(u2, h, d)
  BY <1>1, <1>2 DEF Conf, Typed
<1>10. Confirms(K2, h, d)
  <2>1. Confirms(K, h, d)
    BY DEF Conf
  <2>2. \A j \in DOMAIN d : d[j].t = "confirm" => d[j].from # b
    BY <2>1 DEF Confirms, b
  <2> QED BY <1>1, <1>4, <2>1, <2>2 DEF Confirms
<1>11. Failures(K2, u2, h, d)
  BY <1>3, <1>4 DEF Conf, Failures
<1>12. DataAndCloses(K2, d)
  <2>1. \A j \in DOMAIN d : Told(K, d, j) => Told(K2, d, j)
    BY <1>1 DEF Told
  <2> QED BY <2>1 DEF Conf, DataAndCloses
<1>13. UpOpens(K2, u2, h, d)
  <2>1. UpOpens(K, u, h, d) /\ \A l \in DOMAIN u2 : u2[l].t = "open" => l \in DOMAIN u /\ u2[l] = u[l]
    BY <1>2 DEF Conf
  <2> SUFFICES ASSUME NEW l \in DOMAIN u, u[l].t = "open"
               PROVE  /\ \E y \in K2 : y.serverID = u[l].ch /\ Fresh(y)
                      /\ \A k \in DOMAIN u2 : u2[k].t = "open" /\ u2[k].ch = u[l].ch => k = l
                      /\ \A j \in DOMAIN d : d[j].ch # u[l].ch
                      /\ \A b2 \in Chans : h[b2].st # "free" /\ h[b2].peer = u[l].ch =>
                           \E k \in DOMAIN u2 : k < l /\ u2[k].t = "close" /\ u2[k].ch = b2
    BY <2>1 DEF UpOpens
  <2> QED BY <1>2, <1>4, <2>1 DEF UpOpens
<1>14. UpCloses(K2, u2, h, d)
  <2>1. UpCloses(K, u, h, d)
    BY DEF Conf
  <2> SUFFICES ASSUME NEW l \in DOMAIN u2, u2[l].t = "close"
               PROVE  /\ \A k \in DOMAIN u2 : u2[k].t = "close" /\ u2[k].ch = u2[l].ch => k = l
                      /\ h[u2[l].ch].st \in {"open", "closed"}
                      /\ \/ \E y \in K2 : y.clientID = u2[l].ch /\ y.closed = {"SERVER"} /\ y.serverID = h[u2[l].ch].peer
                         \/ h[u2[l].ch].st = "closed" /\ Abandoned(K2, u2, d, u2[l].ch)
    BY DEF UpCloses
  <2>2. CASE l = e
    <3>1. u2[l].ch = b
      BY <1>2, <2>2 DEF b
    <3> QED BY <1>1, <1>2, <1>5, <1>6, <2>2, <3>1 DEF Coming
  <2>3. CASE l \in DOMAIN u
    <3>1. u2[l] = u[l] /\ u[l].ch # b
      BY <1>2, <1>6, <2>3 DEF Coming
    <3>2. \A y \in K : y.closed = {"SERVER"} => y \in K2
      OBVIOUS
    <3>3. /\ \A k \in DOMAIN u : u[k].t = "close" /\ u[k].ch = u[l].ch => k = l
          /\ h[u[l].ch].st \in {"open", "closed"}
          /\ \/ \E y \in K : y.clientID = u[l].ch /\ y.closed = {"SERVER"} /\ y.serverID = h[u[l].ch].peer
             \/ h[u[l].ch].st = "closed" /\ Abandoned(K, u, d, u[l].ch)
      BY <2>1, <2>3, <3>1 DEF UpCloses
    <3>4. \A k \in DOMAIN u2 : u2[k].t = "close" /\ u2[k].ch = u[l].ch => k = l
      BY <1>2, <3>1, <3>3 DEF b
    <3> QED BY <1>7, <3>1, <3>2, <3>3, <3>4
  <2> QED BY <1>2, <2>2, <2>3
<1>15. HostConnecting(K2, u2, h, d)
  <2>1. HostConnecting(K, u, h, d) /\ \A n \in Chans : h[n].st = "connecting" => n # b
    BY <1>5 DEF Conf
  <2> QED BY <1>3, <1>4, <2>1 DEF HostConnecting
<1>16. HostOpen(K2, u2, h, d)
  <2>1. HostOpen(K, u, h, d)
    BY DEF Conf
  <2> SUFFICES ASSUME NEW n \in Chans, h[n].st = "open"
               PROVE  \E y \in K2 : /\ y.serverID = h[n].peer
                                    /\ \/ Fresh(y) /\ Confirmed(d, h[n].peer, n)
                                       \/ /\ y.clientID = n /\ "CLIENT" \notin y.closed
                                          /\ "SERVER" \in y.closed => Coming(u2, "close", n)
    BY <2>1 DEF HostOpen
  <2>2. PICK y \in K : /\ y.serverID = h[n].peer
                       /\ \/ Fresh(y) /\ Confirmed(d, h[n].peer, n)
                          \/ /\ y.clientID = n /\ "CLIENT" \notin y.closed
                             /\ "SERVER" \in y.closed => Coming(u, "close", n)
    BY <2>1 DEF HostOpen
  <2>3. CASE y = x
    <3>1. n = b /\ x2.serverID = h[n].peer
      BY <1>1, <2>2, <2>3 DEF Fresh, b
    <3> QED BY <1>1, <1>3, <3>1
  <2>4. CASE y # x
    BY <1>3, <2>2, <2>4
  <2> QED BY <2>3, <2>4
<1>17. HostClosed(K2, u2, h, d)
  <2>1. HostClosed(K, u, h, d)
    BY DEF Conf
  <2> SUFFICES ASSUME NEW n \in Chans, h[n].st = "closed", ~ Abandoned(K2, u2, d, n)
               PROVE  \E y \in K2 : /\ y.serverID = h[n].peer
                    /\ \/ Fresh(y) /\ Confirmed(d, h[n].peer, n) /\ Coming(d, "close", h[n].peer)
                       \/ /\ y.clientID = n
                          /\ y.closed = {"CLIENT"} \/ ("CLIENT" \notin y.closed /\ Coming(d, "close", h[n].peer))
                          /\ "SERVER" \in y.closed => Coming(u2, "close", n)
    BY DEF HostClosed
  <2>2. PICK y \in K : /\ y.serverID = h[n].peer
                    /\ \/ Fresh(y) /\ Confirmed(d, h[n].peer, n) /\ Coming(d, "close", h[n].peer)
                       \/ /\ y.clientID = n
                          /\ y.closed = {"CLIENT"} \/ ("CLIENT" \notin y.closed /\ Coming(d, "close", h[n].peer))
                          /\ "SERVER" \in y.closed => Coming(u, "close", n)
    BY <1>7, <2>1 DEF HostClosed
  <2>3. CASE y = x
    <3>1. n = b /\ x2.serverID = h[n].peer /\ Coming(d, "close", h[n].peer)
      BY <1>1, <2>2, <2>3 DEF Fresh, b
    <3> QED BY <1>1, <1>3, <3>1
  <2>4. CASE y # x
    BY <1>3, <2>2, <2>4
  <2> QED BY <2>3, <2>4
<1>18. Linked(K2, h, d)
  <2>1. Linked(K, h, d)
    BY DEF Conf
  <2> QED BY <1>1, <1>5, <2>1 DEF Linked
<1>19. PeersDiffer(h)
  BY DEF Conf
<1> QED BY <1>8, <1>9, <1>10, <1>11, <1>12, <1>13, <1>14, <1>15, <1>16, <1>17, <1>18, <1>19 DEF Conf, x2

\* The attacker answers a close of the guest: the parser forgets the channel.
LEMMA CloseAnswered ==
  ASSUME NEW K, NEW u, NEW h, NEW d, Conf(K, u, h, d), NEW u2, NEW e, NEW p \in Requests, More(u2, u, e, p), p.t = "close",
         NEW x \in K, x.clientID = p.ch, x.closed = {"CLIENT"}
  PROVE  Conf(K \ {x}, u2, h, d)
<1> DEFINE b == p.ch
           K2 == K \ {x}
<1>1. b \in Chans /\ b # None /\ p \in UpPackets
  BY ProxyAssumption DEF Requests, UpPackets
<1>2. /\ e \in Nat /\ e \in DOMAIN u2 /\ u2[e] = p /\ \A l \in DOMAIN u : l < e /\ l # e
      /\ \A l \in DOMAIN u : l \in DOMAIN u2 /\ u2[l] = u[l]
      /\ \A l \in DOMAIN u2 : l = e \/ l \in DOMAIN u
  BY DEF More, Conf, Typed
<1>3. /\ \A n : Coming(u2, "close", n) <=> Coming(u, "close", n) \/ n = b
      /\ \A n : Coming(u2, "open", n) <=> Coming(u, "open", n)
  BY <1>2 DEF Coming
<1>4. \A y \in K : Fresh(y) \/ y.clientID # b \/ y.closed = {"SERVER"} \/ "CLIENT" \notin y.closed => y \in K2
  BY <1>1 DEF Fresh
<1>5. /\ h[b].st = "closed" /\ h[b].peer = x.serverID
      /\ \A y \in K : y # x => y.clientID # b /\ y.serverID # x.serverID
  BY <1>1 DEF Conf, Linked, KnownChannels
<1>6. ~ Coming(u, "close", b)
  <2>1. UpCloses(K, u, h, d)
    BY DEF Conf
  <2>2. \A y \in K : y.clientID = b => y.closed # {"SERVER"}
    BY <1>5
  <2>3. ~ Abandoned(K, u, d, b)
    BY DEF Abandoned
  <2> QED BY <2>1, <2>2, <2>3 DEF UpCloses, Coming
<1>7. Abandoned(K2, u2, d, b)
  <2>1. \A j \in DOMAIN d : d[j].t = "confirm" => d[j].from # b
    BY DEF Conf, Confirms
  <2> QED BY <1>3, <1>5, <2>1 DEF Abandoned
<1> HIDE DEF b
<1>8. \A n : Abandoned(K, u, d, n) => Abandoned(K2, u2, d, n)
  BY <1>3 DEF Abandoned
<1>9. KnownChannels(K2)
  BY DEF Conf, KnownChannels
<1>10. Typed(u2, h, d)
  BY <1>1, <1>2 DEF Conf, Typed
<1>11. Confirms(K2, h, d)
  BY <1>4 DEF Conf, Confirms
<1>12. Failures(K2, u2, h, d)
  BY <1>3, <1>4 DEF Conf, Failures
<1>13. DataAndCloses(K2, d)
  <2>1. \A j \in DOMAIN d : Told(K, d, j) => Told(K2, d, j)
    BY <1>4 DEF Told
  <2> QED BY <2>1 DEF Conf, DataAndCloses
<1>14. UpOpens(K2, u2, h, d)
  <2>1. UpOpens(K, u, h, d) /\ \A l \in DOMAIN u2 : u2[l].t = "open" => l \in DOMAIN u /\ u2[l] = u[l]
    BY <1>2 DEF Conf
  <2> SUFFICES ASSUME NEW l \in DOMAIN u, u[l].t = "open"
               PROVE  /\ \E y \in K2 : y.serverID = u[l].ch /\ Fresh(y)
                      /\ \A k \in DOMAIN u2 : u2[k].t = "open" /\ u2[k].ch = u[l].ch => k = l
                      /\ \A j \in DOMAIN d : d[j].ch # u[l].ch
                      /\ \A b2 \in Chans : h[b2].st # "free" /\ h[b2].peer = u[l].ch =>
                           \E k \in DOMAIN u2 : k < l /\ u2[k].t = "close" /\ u2[k].ch = b2
    BY <2>1 DEF UpOpens
  <2> QED BY <1>2, <1>4, <2>1 DEF UpOpens
<1>15. UpCloses(K2, u2, h, d)
  <2>1. UpCloses(K, u, h, d)
    BY DEF Conf
  <2> SUFFICES ASSUME NEW l \in DOMAIN u2, u2[l].t = "close"
               PROVE  /\ \A k \in DOMAIN u2 : u2[k].t = "close" /\ u2[k].ch = u2[l].ch => k = l
                      /\ h[u2[l].ch].st \in {"open", "closed"}
                      /\ \/ \E y \in K2 : y.clientID = u2[l].ch /\ y.closed = {"SERVER"} /\ y.serverID = h[u2[l].ch].peer
                         \/ h[u2[l].ch].st = "closed" /\ Abandoned(K2, u2, d, u2[l].ch)
    BY DEF UpCloses
  <2>2. CASE l = e
    <3>1. u2[l].ch = b
      BY <1>2, <2>2 DEF b
    <3> QED BY <1>2, <1>5, <1>6, <1>7, <2>2, <3>1 DEF Coming
  <2>3. CASE l \in DOMAIN u
    <3>1. u2[l] = u[l] /\ u[l].ch # b
      BY <1>2, <1>6, <2>3 DEF Coming
    <3>2. \A y \in K : y.closed = {"SERVER"} => y \in K2
      BY <1>4
    <3>3. /\ \A k \in DOMAIN u : u[k].t = "close" /\ u[k].ch = u[l].ch => k = l
          /\ h[u[l].ch].st \in {"open", "closed"}
          /\ \/ \E y \in K : y.clientID = u[l].ch /\ y.closed = {"SERVER"} /\ y.serverID = h[u[l].ch].peer
             \/ h[u[l].ch].st = "closed" /\ Abandoned(K, u, d, u[l].ch)
      BY <2>1, <2>3, <3>1 DEF UpCloses
    <3>4. \A k \in DOMAIN u2 : u2[k].t = "close" /\ u2[k].ch = u[l].ch => k = l
      BY <1>2, <3>1, <3>3 DEF b
    <3> QED BY <1>8, <3>1, <3>2, <3>3, <3>4
  <2> QED BY <1>2, <2>2, <2>3
<1>16. HostConnecting(K2, u2, h, d)
  <2>1. HostConnecting(K, u, h, d) /\ \A n \in Chans : h[n].st = "connecting" => n # b
    BY <1>5 DEF Conf
  <2> QED BY <1>3, <1>4, <2>1 DEF HostConnecting
<1>17. HostOpen(K2, u2, h, d)
  BY <1>3, <1>4 DEF Conf, HostOpen
<1>18. HostClosed(K2, u2, h, d)
  <2>1. HostClosed(K, u, h, d)
    BY DEF Conf
  <2> SUFFICES ASSUME NEW n \in Chans, h[n].st = "closed", ~ Abandoned(K, u, d, n), n # b
               PROVE  \E y \in K2 : /\ y.serverID = h[n].peer
                    /\ \/ Fresh(y) /\ Confirmed(d, h[n].peer, n) /\ Coming(d, "close", h[n].peer)
                       \/ /\ y.clientID = n
                          /\ y.closed = {"CLIENT"} \/ ("CLIENT" \notin y.closed /\ Coming(d, "close", h[n].peer))
                          /\ "SERVER" \in y.closed => Coming(u2, "close", n)
    BY <1>7, <1>8 DEF HostClosed
  <2>2. PICK y \in K : /\ y.serverID = h[n].peer
                    /\ \/ Fresh(y) /\ Confirmed(d, h[n].peer, n) /\ Coming(d, "close", h[n].peer)
                       \/ /\ y.clientID = n
                          /\ y.closed = {"CLIENT"} \/ ("CLIENT" \notin y.closed /\ Coming(d, "close", h[n].peer))
                          /\ "SERVER" \in y.closed => Coming(u, "close", n)
    BY <2>1 DEF HostClosed
  <2>3. y \in K2
    BY <1>4, <2>2 DEF b
  <2> QED BY <1>3, <2>2, <2>3
<1>19. Linked(K2, h, d) /\ PeersDiffer(h)
  BY DEF Conf, Linked
<1> QED BY <1>9, <1>10, <1>11, <1>12, <1>13, <1>14, <1>15, <1>16, <1>17, <1>18, <1>19 DEF Conf

-----------------------------------------------------------------------------
(***************************************************************************)
(* Packets of the guest, read by the parser.                               *)
(***************************************************************************)
LEMMA ConfirmRead ==
  ASSUME NEW K, NEW u, NEW h, NEW d, Conf(K, u, h, d), NEW d2, NEW e, Less(d2, d, e), d[e].t = "confirm",
         NEW x \in K, x.serverID = d[e].ch
  PROVE  /\ Conf((K \ {x}) \cup {[x EXCEPT !.clientID = d[e].from]}, u, h, d2)
         /\ x.clientID = None /\ x.closed = {} /\ d[e].from \in Chans
<1> DEFINE c == d[e].ch
           b == d[e].from
           x2 == [x EXCEPT !.clientID = b]
           K2 == (K \ {x}) \cup {x2}
<1>1. /\ e \in DOMAIN d /\ \A j \in DOMAIN d : ~ (j < e)
      /\ \A j \in DOMAIN d : j # e => j \in DOMAIN d2
      /\ \A j \in DOMAIN d2 : j \in DOMAIN d /\ j # e /\ d2[j] = d[j]
  BY DEF Less, Conf, Typed
<1>2. /\ b \in Chans /\ b # None /\ h[b].st \in {"open", "closed"} /\ h[b].peer = c
      /\ \A k \in DOMAIN d : d[k].ch = c => k = e \/ d[k].t \in {"data", "close"}
      /\ \A y \in K : y.clientID # b
      /\ \E y \in K : y.serverID = c /\ Fresh(y)
  BY <1>1, ProxyAssumption DEF Conf, Confirms
<1>3. Fresh(x) /\ \A y \in K : y # x => y.serverID # c
  BY <1>2 DEF Conf, KnownChannels
<1>4. /\ x2 \in Channel /\ x2.serverID = c /\ x2.clientID = b /\ x2.closed = {} /\ x.clientID = None /\ x.closed = {}
  BY <1>2, <1>3 DEF Conf, KnownChannels, Channel, Fresh
<1>5. /\ \A n : Coming(d2, "close", n) <=> Coming(d, "close", n)
      /\ \A n, m : Confirmed(d2, n, m) \/ (n = c /\ m = b) <=> Confirmed(d, n, m)
  <2>1. \A n : Coming(d2, "close", n) <=> Coming(d, "close", n)
    BY <1>1 DEF Coming
  <2>2. \A n, m : Confirmed(d2, n, m) \/ (n = c /\ m = b) <=> Confirmed(d, n, m)
    BY <1>1 DEF Confirmed
  <2> QED BY <2>1, <2>2
<1>6. \A n \in Chans : Abandoned(K, u, d, n) => Abandoned(K2, u, d2, n)
  BY <1>1, <1>4 DEF Abandoned
<1> HIDE DEF x2, b, c
<1>7. KnownChannels(K2)
  BY <1>2, <1>3, <1>4 DEF Conf, KnownChannels, Ends
<1>8. Typed(u, h, d2)
  BY <1>1 DEF Conf, Typed
<1>9. Confirms(K2, h, d2)
  <2> SUFFICES ASSUME NEW j \in DOMAIN d2, d2[j].t = "confirm"
               PROVE  /\ d2[j].from \in Chans
                      /\ \E y \in K2 : y.serverID = d2[j].ch /\ Fresh(y)
                      /\ h[d2[j].from].st \in {"open", "closed"} /\ h[d2[j].from].peer = d2[j].ch
                      /\ \A k \in DOMAIN d2 : d2[k].ch = d2[j].ch => k = j \/ (k > j /\ d2[k].t \in {"data", "close"})
                      /\ \A y \in K2 : y.clientID = d2[j].from =>
                           y.closed = {"SERVER"} /\ \E k \in DOMAIN d2 : k < j /\ d2[k].t = "close" /\ d2[k].ch = y.serverID
    BY DEF Confirms
  <2>1. j \in DOMAIN d /\ j # e /\ d2[j] = d[j] /\ d[j].t = "confirm" /\ d[j].ch # c
    BY <1>1, <1>2
  <2>2. /\ d[j].from \in Chans
        /\ \E y \in K : y.serverID = d[j].ch /\ Fresh(y)
        /\ h[d[j].from].st \in {"open", "closed"} /\ h[d[j].from].peer = d[j].ch
        /\ \A k \in DOMAIN d : d[k].ch = d[j].ch => k = j \/ (k > j /\ d[k].t \in {"data", "close"})
        /\ \A y \in K : y.clientID = d[j].from =>
             y.closed = {"SERVER"} /\ \E k \in DOMAIN d : k < j /\ d[k].t = "close" /\ d[k].ch = y.serverID
    BY <2>1 DEF Conf, Confirms
  <2>3. d[j].from # b
    BY <1>2, <2>1, <2>2
  <2>4. \E y \in K2 : y.serverID = d[j].ch /\ Fresh(y)
    BY <2>1, <2>2 DEF c
  <2>5. \A k \in DOMAIN d : d[k].t = "close" => k \in DOMAIN d2 /\ d2[k] = d[k]
    BY <1>1
  <2> QED BY <1>1, <1>4, <2>1, <2>2, <2>3, <2>4, <2>5
<1>10. Failures(K2, u, h, d2)
  <2>1. Failures(K, u, h, d)
    BY DEF Conf
  <2>2. \A j \in DOMAIN d2 : d2[j].t = "failure" => d[j].ch # c
    BY <1>1, <1>2
  <2> QED BY <1>1, <2>1, <2>2 DEF Failures, c
<1>11. DataAndCloses(K2, d2)
  <2>1. DataAndCloses(K, d)
    BY DEF Conf
  <2>2. ASSUME NEW j \in DOMAIN d2, d2[j].t \in {"data", "close"} PROVE Told(K2, d2, j)
    <3>1. j \in DOMAIN d /\ d2[j] = d[j]
      BY <1>1
    <3>2. PICK y \in K : /\ y.serverID = d[j].ch /\ "CLIENT" \notin y.closed
                         /\ y.clientID = None => \E k \in DOMAIN d : k < j /\ d[k].t = "confirm" /\ d[k].ch = d[j].ch
      BY <2>1, <2>2, <3>1 DEF DataAndCloses, Told
    <3>3. CASE y = x
      BY <1>2, <1>4, <3>1, <3>2, <3>3 DEF Told, c
    <3>4. CASE y # x
      <4>1. \A k \in DOMAIN d : d[k].ch = d[j].ch => k # e
        BY <1>3, <3>2, <3>4 DEF c
      <4> QED BY <1>1, <3>1, <3>2, <3>4, <4>1 DEF Told
    <3> QED BY <3>3, <3>4
  <2> QED BY <1>1, <2>1, <2>2 DEF DataAndCloses
<1>12. UpOpens(K2, u, h, d2)
  <2>1. UpOpens(K, u, h, d) /\ \A l \in DOMAIN u : u[l].t = "open" => u[l].ch # c
    BY <1>1 DEF Conf, UpOpens, c
  <2> QED BY <1>1, <2>1 DEF UpOpens, c
<1>13. UpCloses(K2, u, h, d2)
  <2> SUFFICES ASSUME NEW l \in DOMAIN u, u[l].t = "close"
               PROVE  /\ \A k \in DOMAIN u : u[k].t = "close" /\ u[k].ch = u[l].ch => k = l
                      /\ h[u[l].ch].st \in {"open", "closed"}
                      /\ \/ \E y \in K2 : y.clientID = u[l].ch /\ y.closed = {"SERVER"} /\ y.serverID = h[u[l].ch].peer
                         \/ h[u[l].ch].st = "closed" /\ Abandoned(K2, u, d2, u[l].ch)
    BY DEF UpCloses
  <2>1. u[l].ch \in Chans
    BY DEF Conf, Typed, UpPackets, Requests
  <2>2. \A y \in K : y.closed = {"SERVER"} => y \in K2
    BY <1>4
  <2> QED BY <1>6, <2>1, <2>2 DEF Conf, UpCloses
<1>14. HostConnecting(K2, u, h, d2)
  <2>1. HostConnecting(K, u, h, d) /\ \A n \in Chans : h[n].st = "connecting" => h[n].peer # c
    BY <1>1 DEF Conf, HostConnecting, c
  <2> QED BY <1>1, <2>1 DEF HostConnecting, c
<1>15. HostOpen(K2, u, h, d2)
  <2>1. HostOpen(K, u, h, d)
    BY DEF Conf
  <2> SUFFICES ASSUME NEW n \in Chans, h[n].st = "open"
               PROVE  \E y \in K2 : /\ y.serverID = h[n].peer
                                    /\ \/ Fresh(y) /\ Confirmed(d2, h[n].peer, n)
                                       \/ /\ y.clientID = n /\ "CLIENT" \notin y.closed
                                          /\ "SERVER" \in y.closed => Coming(u, "close", n)
    BY <1>5, <2>1 DEF HostOpen
  <2>2. PICK y \in K : /\ y.serverID = h[n].peer
                       /\ \/ Fresh(y) /\ Confirmed(d, h[n].peer, n)
                          \/ /\ y.clientID = n /\ "CLIENT" \notin y.closed
                             /\ "SERVER" \in y.closed => Coming(u, "close", n)
    BY <2>1 DEF HostOpen
  <2>3. CASE y = x
    <3>1. h[n].peer = c
      BY <1>4, <2>2, <2>3 DEF c
    <3>2. n = b
      <4>1. h[n].st # "free" /\ h[b].st # "free"
        BY <1>2
      <4> QED BY <1>2, <3>1, <4>1 DEF Conf, PeersDiffer
    <3> QED BY <1>4, <3>1, <3>2
  <2>4. CASE y # x
    <3>1. h[n].peer # c
      BY <1>3, <2>2, <2>4
    <3> QED BY <1>5, <2>2, <2>4, <3>1
  <2> QED BY <2>3, <2>4
<1>16. HostClosed(K2, u, h, d2)
  <2>1. HostClosed(K, u, h, d)
    BY DEF Conf
  <2> SUFFICES ASSUME NEW n \in Chans, h[n].st = "closed", ~ Abandoned(K, u, d, n)
               PROVE  \E y \in K2 : /\ y.serverID = h[n].peer
                    /\ \/ Fresh(y) /\ Confirmed(d2, h[n].peer, n) /\ Coming(d2, "close", h[n].peer)
                       \/ /\ y.clientID = n
                          /\ y.closed = {"CLIENT"} \/ ("CLIENT" \notin y.closed /\ Coming(d2, "close", h[n].peer))
                          /\ "SERVER" \in y.closed => Coming(u, "close", n)
    BY <1>6 DEF HostClosed
  <2>2. PICK y \in K : /\ y.serverID = h[n].peer
                    /\ \/ Fresh(y) /\ Confirmed(d, h[n].peer, n) /\ Coming(d, "close", h[n].peer)
                       \/ /\ y.clientID = n
                          /\ y.closed = {"CLIENT"} \/ ("CLIENT" \notin y.closed /\ Coming(d, "close", h[n].peer))
                          /\ "SERVER" \in y.closed => Coming(u, "close", n)
    BY <2>1 DEF HostClosed
  <2>3. CASE y = x
    <3>1. h[n].peer = c /\ n # None
      BY <1>4, <2>2, <2>3, ProxyAssumption DEF c
    <3>2. n = b
      <4>1. h[n].st # "free" /\ h[b].st # "free"
        BY <1>2
      <4> QED BY <1>2, <3>1, <4>1 DEF Conf, PeersDiffer
    <3>3. Coming(d, "close", h[n].peer)
      BY <1>4, <2>2, <2>3, <3>1
    <3> QED BY <1>4, <1>5, <3>1, <3>2, <3>3
  <2>4. CASE y # x
    <3>1. h[n].peer # c
      BY <1>3, <2>2, <2>4
    <3> QED BY <1>5, <2>2, <2>4, <3>1
  <2> QED BY <2>3, <2>4
<1>17. Linked(K2, h, d2)
  <2>1. Linked(K, h, d)
    BY DEF Conf
  <2> QED BY <1>2, <1>4, <1>5, <2>1 DEF Linked
<1>18. PeersDiffer(h)
  BY DEF Conf
<1>19. Conf(K2, u, h, d2)
  BY <1>7, <1>8, <1>9, <1>10, <1>11, <1>12, <1>13, <1>14, <1>15, <1>16, <1>17, <1>18 DEF Conf
<1> QED BY <1>2, <1>4, <1>19 DEF x2, b, c

\* The parser reads that a channel was refused, and removes it.
LEMMA FailureRead ==
  ASSUME NEW K, NEW u, NEW h, NEW d, Conf(K, u, h, d), NEW d2, NEW e, Less(d2, d, e), d[e].t = "failure",
         NEW x \in K, x.serverID = d[e].ch
  PROVE  Conf(K \ {x}, u, h, d2) /\ x.clientID = None
<1> DEFINE c == d[e].ch
           K2 == K \ {x}
<1>1. /\ e \in DOMAIN d /\ \A j \in DOMAIN d : ~ (j < e)
      /\ \A j \in DOMAIN d : j # e => j \in DOMAIN d2
      /\ \A j \in DOMAIN d2 : j \in DOMAIN d /\ j # e /\ d2[j] = d[j]
  BY DEF Less, Conf, Typed
<1>2. /\ \E y \in K : y.serverID = c /\ Fresh(y)
      /\ \A k \in DOMAIN d : d[k].ch = c => k = e
      /\ ~ Coming(u, "open", c)
      /\ \A n \in Chans : h[n].st # "free" => h[n].peer # c
  BY <1>1 DEF Conf, Failures
<1>3. Fresh(x) /\ \A y \in K : y # x => y.serverID # c
  BY <1>2 DEF Conf, KnownChannels
<1>4. /\ \A n : Coming(d2, "close", n) <=> Coming(d, "close", n)
      /\ \A n, m : Confirmed(d2, n, m) <=> Confirmed(d, n, m)
  BY <1>1 DEF Coming, Confirmed
<1>5. \A n : Abandoned(K, u, d, n) => Abandoned(K2, u, d2, n)
  BY <1>1 DEF Abandoned
<1>6. \A y \in K : y.serverID # c \/ y.clientID # None => y \in K2
  BY <1>3 DEF Fresh
<1>7. \A j \in DOMAIN d2 : d2[j].ch # c /\ d[j].ch # c
  BY <1>1, <1>2
<1> HIDE DEF c, K2
<1>8. KnownChannels(K2) /\ K2 \subseteq K
  BY DEF Conf, KnownChannels, K2
<1>9. Typed(u, h, d2)
  BY <1>1 DEF Conf, Typed
<1>10. Confirms(K2, h, d2)
  <2> SUFFICES ASSUME NEW j \in DOMAIN d2, d2[j].t = "confirm"
               PROVE  /\ d2[j].from \in Chans
                      /\ \E y \in K2 : y.serverID = d2[j].ch /\ Fresh(y)
                      /\ h[d2[j].from].st \in {"open", "closed"} /\ h[d2[j].from].peer = d2[j].ch
                      /\ \A k \in DOMAIN d2 : d2[k].ch = d2[j].ch => k = j \/ (k > j /\ d2[k].t \in {"data", "close"})
                      /\ \A y \in K2 : y.clientID = d2[j].from =>
                           y.closed = {"SERVER"} /\ \E k \in DOMAIN d2 : k < j /\ d2[k].t = "close" /\ d2[k].ch = y.serverID
    BY DEF Confirms
  <2>1. j \in DOMAIN d /\ d2[j] = d[j] /\ d[j].t = "confirm" /\ d[j].ch # c
    BY <1>1, <1>7
  <2>2. \A k \in DOMAIN d : d[k].t = "close" => k \in DOMAIN d2 /\ d2[k] = d[k]
    BY <1>1
  <2> QED BY <1>1, <1>6, <1>8, <2>1, <2>2 DEF Conf, Confirms
<1>11. Failures(K2, u, h, d2)
  BY <1>1, <1>6, <1>7 DEF Conf, Failures
<1>12. DataAndCloses(K2, d2)
  <2>1. DataAndCloses(K, d)
    BY DEF Conf
  <2>2. ASSUME NEW j \in DOMAIN d2, d2[j].t \in {"data", "close"} PROVE Told(K2, d2, j)
    BY <1>1, <1>6, <1>7, <2>1, <2>2 DEF DataAndCloses, Told
  <2> QED BY <1>1, <2>1, <2>2 DEF DataAndCloses
<1>13. UpOpens(K2, u, h, d2)
  <2>1. UpOpens(K, u, h, d) /\ \A l \in DOMAIN u : u[l].t = "open" => u[l].ch # c
    BY <1>2 DEF Conf, Coming
  <2> QED BY <1>1, <1>6, <2>1 DEF UpOpens
<1>14. UpCloses(K2, u, h, d2)
  <2> SUFFICES ASSUME NEW l \in DOMAIN u, u[l].t = "close"
               PROVE  /\ \A k \in DOMAIN u : u[k].t = "close" /\ u[k].ch = u[l].ch => k = l
                      /\ h[u[l].ch].st \in {"open", "closed"}
                      /\ \/ \E y \in K2 : y.clientID = u[l].ch /\ y.closed = {"SERVER"} /\ y.serverID = h[u[l].ch].peer
                         \/ h[u[l].ch].st = "closed" /\ Abandoned(K2, u, d2, u[l].ch)
    BY DEF UpCloses
  <2>1. u[l].ch # None
    BY ProxyAssumption DEF Conf, Typed, UpPackets, Requests
  <2> QED BY <1>5, <1>6, <2>1 DEF Conf, UpCloses
<1>15. HostConnecting(K2, u, h, d2)
  <2>1. HostConnecting(K, u, h, d) /\ \A n \in Chans : h[n].st = "connecting" => h[n].peer # c
    BY <1>2 DEF Conf
  <2> QED BY <1>1, <1>6, <2>1 DEF HostConnecting
<1>16. HostOpen(K2, u, h, d2)
  <2>1. HostOpen(K, u, h, d) /\ \A n \in Chans : h[n].st = "open" => h[n].peer # c
    BY <1>2 DEF Conf
  <2> QED BY <1>4, <1>6, <2>1 DEF HostOpen
<1>17. HostClosed(K2, u, h, d2)
  <2>1. HostClosed(K, u, h, d) /\ \A n \in Chans : h[n].st = "closed" => h[n].peer # c
    BY <1>2 DEF Conf
  <2> QED BY <1>4, <1>5, <1>6, <2>1 DEF HostClosed
<1>18. Linked(K2, h, d2)
  BY <1>4, <1>8 DEF Conf, Linked
<1>19. PeersDiffer(h)
  BY DEF Conf
<1>20. Conf(K2, u, h, d2)
  BY <1>8, <1>9, <1>10, <1>11, <1>12, <1>13, <1>14, <1>15, <1>16, <1>17, <1>18, <1>19 DEF Conf
<1> QED BY <1>3, <1>20 DEF K2, Fresh

\* The parser reads data, which change no channel.
LEMMA DataRead ==
  ASSUME NEW K, NEW u, NEW h, NEW d, Conf(K, u, h, d), NEW d2, NEW e, Less(d2, d, e), d[e].t = "data"
  PROVE  Conf(K, u, h, d2)
<1>1. /\ e \in DOMAIN d
      /\ \A j \in DOMAIN d : j # e => j \in DOMAIN d2
      /\ \A j \in DOMAIN d2 : j \in DOMAIN d /\ j # e /\ d2[j] = d[j]
  BY DEF Less
<1>2. \A k \in DOMAIN d : d[k].t \in {"confirm", "failure", "close"} => k \in DOMAIN d2 /\ d2[k] = d[k]
  BY <1>1
<1>3. /\ \A n : Coming(d2, "close", n) <=> Coming(d, "close", n)
      /\ \A n, m : Confirmed(d2, n, m) <=> Confirmed(d, n, m)
  BY <1>1 DEF Coming, Confirmed
<1>4. \A n : Abandoned(K, u, d, n) <=> Abandoned(K, u, d2, n)
  BY <1>1, <1>2 DEF Abandoned
<1>5. Typed(u, h, d2)
  BY <1>1 DEF Conf, Typed
<1>6. Confirms(K, h, d2)
  <2> SUFFICES ASSUME NEW j \in DOMAIN d2, d2[j].t = "confirm"
               PROVE  /\ d2[j].from \in Chans
                      /\ \E y \in K : y.serverID = d2[j].ch /\ Fresh(y)
                      /\ h[d2[j].from].st \in {"open", "closed"} /\ h[d2[j].from].peer = d2[j].ch
                      /\ \A k \in DOMAIN d2 : d2[k].ch = d2[j].ch => k = j \/ (k > j /\ d2[k].t \in {"data", "close"})
                      /\ \A y \in K : y.clientID = d2[j].from =>
                           y.closed = {"SERVER"} /\ \E k \in DOMAIN d2 : k < j /\ d2[k].t = "close" /\ d2[k].ch = y.serverID
    BY DEF Confirms
  <2>1. j \in DOMAIN d /\ d2[j] = d[j] /\ d[j].t = "confirm"
    BY <1>1
  <2> QED BY <1>1, <1>2, <2>1 DEF Conf, Confirms
<1>7. Failures(K, u, h, d2)
  BY <1>1 DEF Conf, Failures
<1>8. DataAndCloses(K, d2)
  <2>1. \A j \in DOMAIN d2 : Told(K, d, j) => Told(K, d2, j)
    BY <1>1, <1>2 DEF Told
  <2> QED BY <1>1, <2>1 DEF Conf, DataAndCloses
<1>9. UpOpens(K, u, h, d2)
  BY <1>1 DEF Conf, UpOpens
<1>10. UpCloses(K, u, h, d2)
  BY <1>4 DEF Conf, UpCloses
<1>11. HostConnecting(K, u, h, d2)
  BY <1>1 DEF Conf, HostConnecting
<1>12. HostOpen(K, u, h, d2)
  BY <1>3 DEF Conf, HostOpen
<1>13. HostClosed(K, u, h, d2)
  BY <1>3, <1>4 DEF Conf, HostClosed
<1>14. Linked(K, h, d2)
  BY <1>3 DEF Conf, Linked
<1> QED BY <1>5, <1>6, <1>7, <1>8, <1>9, <1>10, <1>11, <1>12, <1>13, <1>14 DEF Conf

\* The channel of a close: nothing else of it is under way.
LEMMA CloseIsLast ==
  ASSUME NEW K, NEW u, NEW h, NEW d, Conf(K, u, h, d), NEW d2, NEW e, Less(d2, d, e), d[e].t = "close",
         NEW x \in K, x.serverID = d[e].ch
  PROVE  /\ x.clientID \in Chans /\ x.closed \in {{}, {"SERVER"}}
         /\ \A j \in DOMAIN d2 : d2[j].ch # x.serverID
         /\ \A y \in K : y # x => y.serverID # x.serverID /\ y.clientID # x.clientID
<1>1. /\ e \in DOMAIN d /\ \A j \in DOMAIN d : ~ (j < e)
      /\ \A j \in DOMAIN d : j # e => j \in DOMAIN d2
      /\ \A j \in DOMAIN d2 : j \in DOMAIN d /\ j # e /\ d2[j] = d[j]
  BY DEF Less, Conf, Typed
<1>2. Told(K, d, e) /\ x \in Channel /\ \A y \in K : y.serverID = x.serverID => y = x
  BY <1>1 DEF Conf, DataAndCloses, KnownChannels
<1>3. x.clientID # None /\ "CLIENT" \notin x.closed
  BY <1>1, <1>2 DEF Told
<1>4. x.clientID \in Chans /\ x.closed \in {{}, {"SERVER"}}
  BY <1>2, <1>3 DEF Channel, Ends
<1>5. ASSUME NEW j \in DOMAIN d2 PROVE d2[j].ch # x.serverID
  <2> SUFFICES ASSUME d[j].ch = x.serverID, j \in DOMAIN d, j # e PROVE FALSE
    BY <1>1
  <2>1. d[j].t \in {"confirm", "failure", "data", "close"}
    BY DEF Conf, Typed, DownPackets
  <2>2. CASE d[j].t = "confirm"
    BY <1>2, <1>3, <2>2 DEF Conf, Confirms, Fresh
  <2>3. CASE d[j].t = "failure"
    BY <1>2, <1>3, <2>3 DEF Conf, Failures, Fresh
  <2>4. CASE d[j].t \in {"data", "close"}
    BY <1>1, <2>4 DEF Conf, DataAndCloses
  <2> QED BY <2>1, <2>2, <2>3, <2>4
<1> QED BY <1>2, <1>3, <1>4, <1>5 DEF Conf, KnownChannels

\* The guest closes first.
LEMMA CloseRead ==
  ASSUME NEW K, NEW u, NEW h, NEW d, Conf(K, u, h, d), NEW d2, NEW e, Less(d2, d, e), d[e].t = "close",
         NEW x \in K, x.serverID = d[e].ch, x.closed = {}
  PROVE  Conf((K \ {x}) \cup {[x EXCEPT !.closed = @ \cup {"CLIENT"}]}, u, h, d2)
<1> DEFINE c == x.serverID
           b == x.clientID
           x2 == [x EXCEPT !.closed = @ \cup {"CLIENT"}]
           K2 == (K \ {x}) \cup {x2}
<1>1. /\ e \in DOMAIN d /\ \A j \in DOMAIN d : ~ (j < e)
      /\ \A j \in DOMAIN d : j # e => j \in DOMAIN d2
      /\ \A j \in DOMAIN d2 : j \in DOMAIN d /\ j # e /\ d2[j] = d[j]
  BY DEF Less, Conf, Typed
<1>2. /\ b \in Chans /\ b # None
      /\ \A j \in DOMAIN d2 : d2[j].ch # c /\ d[j].ch # c
      /\ \A y \in K : y # x => y.serverID # c /\ y.clientID # b
  <2>1. /\ x.clientID \in Chans
        /\ \A j \in DOMAIN d2 : d2[j].ch # x.serverID
        /\ \A y \in K : y # x => y.serverID # x.serverID /\ y.clientID # x.clientID
    BY CloseIsLast
  <2> QED BY <1>1, <2>1, ProxyAssumption
<1>3. x2 \in Channel /\ x2.serverID = c /\ x2.clientID = b /\ x2.closed = {"CLIENT"} /\ ~ Fresh(x)
  BY <1>2 DEF Conf, KnownChannels, Channel, Ends, Fresh
<1>4. h[b].st = "closed" /\ h[b].peer = c
  <2>1. h[b].st \in {"open", "closed"} /\ h[b].peer = c
    BY <1>2 DEF Conf, Linked
  <2>2. Coming(d, "close", c)
    BY <1>1 DEF Coming
  <2> QED BY <1>2, <2>1, <2>2 DEF Conf, HostOpen
<1>5. /\ \A n : n # c => (Coming(d2, "close", n) <=> Coming(d, "close", n))
      /\ \A n, m : Confirmed(d2, n, m) <=> Confirmed(d, n, m)
  BY <1>1 DEF Coming, Confirmed
<1>6. \A n : Abandoned(K, u, d, n) => Abandoned(K2, u, d2, n)
  BY <1>1, <1>3 DEF Abandoned
<1>7. \A y \in K : Fresh(y) \/ y.closed = {"SERVER"} \/ y.serverID # c \/ y.clientID # b => y \in K2
  BY <1>2, <1>3
<1> HIDE DEF x2, b, c
<1>8. KnownChannels(K2)
  <2>1. KnownChannels(K)
    BY DEF Conf
  <2>2. x2.closed # Ends /\ x2.clientID # None
    BY <1>2, <1>3 DEF Ends
  <2> QED BY <1>2, <1>3, <2>1, <2>2 DEF KnownChannels
<1>9. Typed(u, h, d2)
  BY <1>1 DEF Conf, Typed
<1>10. Confirms(K2, h, d2)
  <2> SUFFICES ASSUME NEW j \in DOMAIN d2, d2[j].t = "confirm"
               PROVE  /\ d2[j].from \in Chans
                      /\ \E y \in K2 : y.serverID = d2[j].ch /\ Fresh(y)
                      /\ h[d2[j].from].st \in {"open", "closed"} /\ h[d2[j].from].peer = d2[j].ch
                      /\ \A k \in DOMAIN d2 : d2[k].ch = d2[j].ch => k = j \/ (k > j /\ d2[k].t \in {"data", "close"})
                      /\ \A y \in K2 : y.clientID = d2[j].from =>
                           y.closed = {"SERVER"} /\ \E k \in DOMAIN d2 : k < j /\ d2[k].t = "close" /\ d2[k].ch = y.serverID
    BY DEF Confirms
  <2>1. j \in DOMAIN d /\ d2[j] = d[j] /\ d[j].t = "confirm" /\ d[j].ch # c
    BY <1>1, <1>2
  <2>2. /\ d[j].from \in Chans
        /\ \E y \in K : y.serverID = d[j].ch /\ Fresh(y)
        /\ h[d[j].from].st \in {"open", "closed"} /\ h[d[j].from].peer = d[j].ch
        /\ \A k \in DOMAIN d : d[k].ch = d[j].ch => k = j \/ (k > j /\ d[k].t \in {"data", "close"})
        /\ \A y \in K : y.clientID = d[j].from =>
             y.closed = {"SERVER"} /\ \E k \in DOMAIN d : k < j /\ d[k].t = "close" /\ d[k].ch = y.serverID
    BY <2>1 DEF Conf, Confirms
  <2>3. d[j].from # b
    BY <1>4, <2>1, <2>2
  <2>4. \A k \in DOMAIN d : d[k].ch # c => k \in DOMAIN d2 /\ d2[k] = d[k]
    BY <1>1 DEF c
  <2>5. \A y \in K : y.clientID = d[j].from => y.serverID # c
    BY <1>2, <2>3 DEF b
  <2>6. \E y \in K2 : y.serverID = d[j].ch /\ Fresh(y)
    BY <1>7, <2>2
  <2>7. \A k \in DOMAIN d2 : d2[k].ch = d[j].ch => k = j \/ (k > j /\ d2[k].t \in {"data", "close"})
    BY <1>1, <2>2
  <2>8. \A y \in K2 : y.clientID = d[j].from =>
          y.closed = {"SERVER"} /\ \E k \in DOMAIN d2 : k < j /\ d2[k].t = "close" /\ d2[k].ch = y.serverID
    BY <1>3, <2>2, <2>3, <2>4, <2>5
  <2> QED BY <2>1, <2>2, <2>6, <2>7, <2>8
<1>11. Failures(K2, u, h, d2)
  BY <1>1, <1>7 DEF Conf, Failures
<1>12. DataAndCloses(K2, d2)
  <2>1. DataAndCloses(K, d)
    BY DEF Conf
  <2>2. ASSUME NEW j \in DOMAIN d2, d2[j].t \in {"data", "close"} PROVE Told(K2, d2, j)
    <3>1. \A k \in DOMAIN d : d[k].t = "confirm" => k \in DOMAIN d2 /\ d2[k] = d[k]
      BY <1>1
    <3> QED BY <1>1, <1>2, <1>7, <2>1, <2>2, <3>1 DEF DataAndCloses, Told
  <2> QED BY <1>1, <2>1, <2>2 DEF DataAndCloses
<1>13. UpOpens(K2, u, h, d2)
  BY <1>1, <1>7 DEF Conf, UpOpens
<1>14. UpCloses(K2, u, h, d2)
  BY <1>6, <1>7 DEF Conf, UpCloses
<1>15. HostConnecting(K2, u, h, d2)
  BY <1>1, <1>7 DEF Conf, HostConnecting
<1>16. HostOpen(K2, u, h, d2)
  <2>1. HostOpen(K, u, h, d) /\ \A n \in Chans : h[n].st = "open" => h[n].peer # c
    BY <1>1 DEF Conf, HostOpen, Coming, c
  <2> QED BY <1>5, <1>7, <2>1 DEF HostOpen
<1>17. HostClosed(K2, u, h, d2)
  <2>1. HostClosed(K, u, h, d)
    BY DEF Conf
  <2> SUFFICES ASSUME NEW n \in Chans, h[n].st = "closed", ~ Abandoned(K, u, d, n)
               PROVE  \E y \in K2 : /\ y.serverID = h[n].peer
                    /\ \/ Fresh(y) /\ Confirmed(d2, h[n].peer, n) /\ Coming(d2, "close", h[n].peer)
                       \/ /\ y.clientID = n
                          /\ y.closed = {"CLIENT"} \/ ("CLIENT" \notin y.closed /\ Coming(d2, "close", h[n].peer))
                          /\ "SERVER" \in y.closed => Coming(u, "close", n)
    BY <1>6 DEF HostClosed
  <2>2. PICK y \in K : /\ y.serverID = h[n].peer
                    /\ \/ Fresh(y) /\ Confirmed(d, h[n].peer, n) /\ Coming(d, "close", h[n].peer)
                       \/ /\ y.clientID = n
                          /\ y.closed = {"CLIENT"} \/ ("CLIENT" \notin y.closed /\ Coming(d, "close", h[n].peer))
                          /\ "SERVER" \in y.closed => Coming(u, "close", n)
    BY <2>1 DEF HostClosed
  <2>3. CASE y = x
    <3>1. h[n].peer = c /\ n = b
      BY <1>3, <2>2, <2>3 DEF b, c
    <3> QED BY <1>3, <3>1
  <2>4. CASE y # x
    BY <1>2, <1>5, <2>2, <2>4
  <2> QED BY <2>3, <2>4
<1>18. Linked(K2, h, d2)
  <2>1. Linked(K, h, d)
    BY DEF Conf
  <2> QED BY <1>2, <1>3, <1>4, <1>5, <2>1 DEF Linked
<1>19. PeersDiffer(h)
  BY DEF Conf
<1>20. Conf(K2, u, h, d2)
  BY <1>8, <1>9, <1>10, <1>11, <1>12, <1>13, <1>14, <1>15, <1>16, <1>17, <1>18, <1>19 DEF Conf
<1> QED BY <1>20 DEF x2

\* The guest answers a close of the attacker: the parser forgets the channel.
LEMMA LastCloseRead ==
  ASSUME NEW K, NEW u, NEW h, NEW d, Conf(K, u, h, d), NEW d2, NEW e, Less(d2, d, e), d[e].t = "close",
         NEW x \in K, x.serverID = d[e].ch, x.closed = {"SERVER"}
  PROVE  Conf(K \ {x}, u, h, d2)
<1> DEFINE c == x.serverID
           b == x.clientID
           K2 == K \ {x}
<1>1. /\ e \in DOMAIN d /\ \A j \in DOMAIN d : ~ (j < e)
      /\ \A j \in DOMAIN d : j # e => j \in DOMAIN d2
      /\ \A j \in DOMAIN d2 : j \in DOMAIN d /\ j # e /\ d2[j] = d[j]
  BY DEF Less, Conf, Typed
<1>2. /\ b \in Chans /\ b # None
      /\ \A j \in DOMAIN d2 : d2[j].ch # c /\ d[j].ch # c
      /\ \A y \in K : y # x => y.serverID # c /\ y.clientID # b
  <2>1. /\ x.clientID \in Chans
        /\ \A j \in DOMAIN d2 : d2[j].ch # x.serverID
        /\ \A y \in K : y # x => y.serverID # x.serverID /\ y.clientID # x.clientID
    BY CloseIsLast
  <2> QED BY <1>1, <2>1, ProxyAssumption
<1>3. /\ \A n : n # c => (Coming(d2, "close", n) <=> Coming(d, "close", n))
      /\ \A n, m : Confirmed(d2, n, m) <=> Confirmed(d, n, m)
  BY <1>1 DEF Coming, Confirmed
<1>4. \A n : Abandoned(K, u, d, n) => Abandoned(K2, u, d2, n)
  BY <1>1 DEF Abandoned
<1>5. \A y \in K : Fresh(y) \/ y.serverID # c \/ y.clientID # b => y \in K2
  BY <1>2 DEF Fresh
<1>6. ASSUME NEW n \in Chans, h[n].st # "free", h[n].peer = c
      PROVE  h[n].st = "closed" /\ ((n = b /\ Coming(u, "close", b)) \/ Abandoned(K, u, d, n))
  <2>1. Coming(d, "close", c)
    BY <1>1 DEF Coming
  <2>2. h[n].st # "connecting"
    BY <1>1, <1>6 DEF Conf, HostConnecting
  <2>3. h[n].st # "open"
    BY <1>6, <2>1 DEF Conf, HostOpen
  <2>4. h[n].st = "closed"
    BY <1>6, <2>2, <2>3 DEF Conf, Typed, HostState
  <2>5. Abandoned(K, u, d, n) \/
        \E y \in K : /\ y.serverID = h[n].peer
                    /\ \/ Fresh(y) /\ Confirmed(d, h[n].peer, n) /\ Coming(d, "close", h[n].peer)
                       \/ /\ y.clientID = n
                          /\ y.closed = {"CLIENT"} \/ ("CLIENT" \notin y.closed /\ Coming(d, "close", h[n].peer))
                          /\ "SERVER" \in y.closed => Coming(u, "close", n)
    BY <2>4 DEF Conf, HostClosed
  <2>6. ~ Fresh(x)
    BY <1>2 DEF Fresh
  <2> QED BY <1>2, <1>6, <2>4, <2>5, <2>6
<1>7. ASSUME NEW n \in Chans, h[n].st # "free", h[n].peer = c PROVE h[n].st = "closed" /\ Abandoned(K2, u, d2, n)
  <2>1. CASE Abandoned(K, u, d, n)
    BY <1>4, <1>6, <1>7, <2>1
  <2>2. CASE n = b /\ Coming(u, "close", b)
    <3>1. \A j \in DOMAIN d2 : d2[j].t = "confirm" => d2[j].from # b
      BY <1>1, <1>2, <1>7, <2>2 DEF Conf, Confirms
    <3> QED BY <1>2, <1>6, <1>7, <2>2, <3>1 DEF Abandoned
  <2> QED BY <1>6, <1>7, <2>1, <2>2
<1> HIDE DEF b, c, K2
<1>8. KnownChannels(K2) /\ K2 \subseteq K /\ x \notin K2
  BY DEF Conf, KnownChannels, K2
<1>9. Typed(u, h, d2)
  BY <1>1 DEF Conf, Typed
<1>10. Confirms(K2, h, d2)
  <2> SUFFICES ASSUME NEW j \in DOMAIN d2, d2[j].t = "confirm"
               PROVE  /\ d2[j].from \in Chans
                      /\ \E y \in K2 : y.serverID = d2[j].ch /\ Fresh(y)
                      /\ h[d2[j].from].st \in {"open", "closed"} /\ h[d2[j].from].peer = d2[j].ch
                      /\ \A k \in DOMAIN d2 : d2[k].ch = d2[j].ch => k = j \/ (k > j /\ d2[k].t \in {"data", "close"})
                      /\ \A y \in K2 : y.clientID = d2[j].from =>
                           y.closed = {"SERVER"} /\ \E k \in DOMAIN d2 : k < j /\ d2[k].t = "close" /\ d2[k].ch = y.serverID
    BY DEF Confirms
  <2>1. j \in DOMAIN d /\ d2[j] = d[j] /\ d[j].t = "confirm" /\ d[j].ch # c
    BY <1>1, <1>2
  <2>2. /\ d[j].from \in Chans
        /\ \E y \in K : y.serverID = d[j].ch /\ Fresh(y)
        /\ h[d[j].from].st \in {"open", "closed"} /\ h[d[j].from].peer = d[j].ch
        /\ \A k \in DOMAIN d : d[k].ch = d[j].ch => k = j \/ (k > j /\ d[k].t \in {"data", "close"})
        /\ \A y \in K : y.clientID = d[j].from =>
             y.closed = {"SERVER"} /\ \E k \in DOMAIN d : k < j /\ d[k].t = "close" /\ d[k].ch = y.serverID
    BY <2>1 DEF Conf, Confirms
  <2>3. \A k \in DOMAIN d : d[k].ch # c => k \in DOMAIN d2 /\ d2[k] = d[k]
    BY <1>1 DEF c
  <2>4. \A y \in K2 : y.serverID # c
    BY <1>2, <1>8
  <2>5. \E y \in K2 : y.serverID = d[j].ch /\ Fresh(y)
    BY <1>5, <2>2
  <2>6. \A k \in DOMAIN d2 : d2[k].ch = d[j].ch => k = j \/ (k > j /\ d2[k].t \in {"data", "close"})
    BY <1>1, <2>2
  <2>7. \A y \in K2 : y.clientID = d[j].from =>
          y.closed = {"SERVER"} /\ \E k \in DOMAIN d2 : k < j /\ d2[k].t = "close" /\ d2[k].ch = y.serverID
    BY <1>8, <2>2, <2>3, <2>4
  <2> QED BY <2>1, <2>2, <2>5, <2>6, <2>7
<1>11. Failures(K2, u, h, d2)
  BY <1>1, <1>5 DEF Conf, Failures
<1>12. DataAndCloses(K2, d2)
  <2>1. DataAndCloses(K, d)
    BY DEF Conf
  <2>2. ASSUME NEW j \in DOMAIN d2, d2[j].t \in {"data", "close"} PROVE Told(K2, d2, j)
    <3>1. \A k \in DOMAIN d : d[k].t = "confirm" => k \in DOMAIN d2 /\ d2[k] = d[k]
      BY <1>1
    <3> QED BY <1>1, <1>2, <1>5, <2>1, <2>2, <3>1 DEF DataAndCloses, Told
  <2> QED BY <1>1, <2>1, <2>2 DEF DataAndCloses
<1>13. UpOpens(K2, u, h, d2)
  BY <1>1, <1>5 DEF Conf, UpOpens
<1>14. UpCloses(K2, u, h, d2)
  <2> SUFFICES ASSUME NEW l \in DOMAIN u, u[l].t = "close"
               PROVE  /\ \A k \in DOMAIN u : u[k].t = "close" /\ u[k].ch = u[l].ch => k = l
                      /\ h[u[l].ch].st \in {"open", "closed"}
                      /\ \/ \E y \in K2 : y.clientID = u[l].ch /\ y.closed = {"SERVER"} /\ y.serverID = h[u[l].ch].peer
                         \/ h[u[l].ch].st = "closed" /\ Abandoned(K2, u, d2, u[l].ch)
    BY DEF UpCloses
  <2>1. UpCloses(K, u, h, d) /\ u[l].ch \in Chans
    BY DEF Conf, Typed, UpPackets, Requests
  <2>2. h[u[l].ch].st \in {"open", "closed"} /\ h[u[l].ch].st # "free"
    BY <2>1 DEF UpCloses
  <2>3. CASE h[u[l].ch].peer = c
    BY <1>7, <2>1, <2>2, <2>3 DEF UpCloses
  <2>4. CASE h[u[l].ch].peer # c
    BY <1>4, <1>5, <2>1, <2>4 DEF UpCloses
  <2> QED BY <2>3, <2>4
<1>15. HostConnecting(K2, u, h, d2)
  BY <1>1, <1>5 DEF Conf, HostConnecting
<1>16. HostOpen(K2, u, h, d2)
  <2>1. HostOpen(K, u, h, d) /\ \A n \in Chans : h[n].st = "open" => h[n].peer # c
    BY <1>6 DEF Conf
  <2> QED BY <1>3, <1>5, <2>1 DEF HostOpen
<1>17. HostClosed(K2, u, h, d2)
  <2>1. HostClosed(K, u, h, d)
    BY DEF Conf
  <2> SUFFICES ASSUME NEW n \in Chans, h[n].st = "closed", ~ Abandoned(K2, u, d2, n)
               PROVE  \E y \in K2 : /\ y.serverID = h[n].peer
                    /\ \/ Fresh(y) /\ Confirmed(d2, h[n].peer, n) /\ Coming(d2, "close", h[n].peer)
                       \/ /\ y.clientID = n
                          /\ y.closed = {"CLIENT"} \/ ("CLIENT" \notin y.closed /\ Coming(d2, "close", h[n].peer))
                          /\ "SERVER" \in y.closed => Coming(u, "close", n)
    BY DEF HostClosed
  <2>2. h[n].peer # c
    BY <1>7
  <2>3. PICK y \in K : /\ y.serverID = h[n].peer
                    /\ \/ Fresh(y) /\ Confirmed(d, h[n].peer, n) /\ Coming(d, "close", h[n].peer)
                       \/ /\ y.clientID = n
                          /\ y.closed = {"CLIENT"} \/ ("CLIENT" \notin y.closed /\ Coming(d, "close", h[n].peer))
                          /\ "SERVER" \in y.closed => Coming(u, "close", n)
    BY <1>4, <2>1 DEF HostClosed
  <2> QED BY <1>3, <1>5, <2>2, <2>3
<1>18. Linked(K2, h, d2)
  <2>1. Linked(K, h, d) /\ \A y \in K2 : y \in K /\ y.serverID # c
    BY <1>2, <1>8 DEF Conf
  <2> QED BY <1>3, <2>1 DEF Linked
<1>19. PeersDiffer(h)
  BY DEF Conf
<1>20. Conf(K2, u, h, d2)
  BY <1>8, <1>9, <1>10, <1>11, <1>12, <1>13, <1>14, <1>15, <1>16, <1>17, <1>18, <1>19 DEF Conf
<1> QED BY <1>20 DEF K2

-----------------------------------------------------------------------------
(***************************************************************************)
(* What the attacker knows.                                                *)
(***************************************************************************)
LEMMA AgreesChanged ==
  ASSUME NEW K, NEW a, Agrees(K, a), NEW K2, NEW c \in Chans, NEW v, [a EXCEPT ![c] = v] \in AttState,
         \A x : x.serverID # c => (x \in K <=> x \in K2), AgreesAt(K2, v, c)
  PROVE  Agrees(K2, [a EXCEPT ![c] = v])
<1> DEFINE a2 == [a EXCEPT ![c] = v]
<1>1. a2[c] = v /\ \A n \in Chans : n # c => a2[n] = a[n]
  BY DEF Agrees, AttState
<1>2. ASSUME NEW n \in Chans, n # c PROVE AgreesAt(K2, a[n], n)
  <2>1. AgreesAt(K, a[n], n)
    BY DEF Agrees
  <2> QED BY <1>2, <2>1 DEF AgreesAt
<1> QED BY <1>1, <1>2 DEF Agrees

\* What the attacker knows is still right when one channel of his changed.
LEMMA AgreesSame ==
  ASSUME NEW K, NEW a, Agrees(K, a), NEW K2, NEW c \in Chans,
         \A x : x.serverID # c => (x \in K <=> x \in K2), AgreesAt(K2, a[c], c)
  PROVE  Agrees(K2, a)
<1>1. a \in AttState /\ [a EXCEPT ![c] = a[c]] = a
  BY DEF Agrees, AttState
<1>2. Agrees(K2, [a EXCEPT ![c] = a[c]])
  BY <1>1, AgreesChanged
<1> QED BY <1>1, <1>2

\* A packet of the guest that is passed on to the attacker.
LEMMA Learns ==
  ASSUME NEW K, NEW a, Agrees(K, a), PeersKnown(a), KnownChannels(K), NEW p \in DownPackets, NEW x \in K, x.serverID = p.ch
  PROVE  /\ p.t = "confirm" /\ Fresh(x) /\ p.from \in Chans =>
              Agrees((K \ {x}) \cup {[x EXCEPT !.clientID = p.from]}, Learn(a, p)) /\ PeersKnown(Learn(a, p))
         /\ p.t = "failure" => Agrees(K \ {x}, Learn(a, p)) /\ PeersKnown(Learn(a, p))
         /\ p.t = "data" => Agrees(K, Learn(a, p)) /\ PeersKnown(Learn(a, p))
         /\ p.t = "close" /\ x.clientID # None /\ x.closed = {} =>
              Agrees((K \ {x}) \cup {[x EXCEPT !.closed = @ \cup {"CLIENT"}]}, Learn(a, p)) /\ PeersKnown(Learn(a, p))
         /\ p.t = "close" /\ x.clientID # None /\ x.closed = {"SERVER"} =>
              Agrees(K \ {x}, Learn(a, p)) /\ PeersKnown(Learn(a, p))
<1> DEFINE c == p.ch
<1>1. /\ c \in Chans /\ x \in Channel /\ a \in AttState /\ c # None /\ AgreesAt(K, a[c], c)
      /\ a[c] \in [st : {"free", "opening", "open", "closed", "peer closed"}, peer : Chans \cup {None}]
      /\ \A y \in K : y.serverID = c => y = x
      /\ x.serverID = c
  BY ProxyAssumption DEF DownPackets, KnownChannels, Agrees, AttState
<1>2. ASSUME NEW v, v \in [st : {"free", "opening", "open", "closed", "peer closed"}, peer : Chans \cup {None}],
             v.st \in {"open", "peer closed"} => v.peer # None
      PROVE  [a EXCEPT ![c] = v] \in AttState /\ PeersKnown([a EXCEPT ![c] = v])
  BY <1>1, <1>2 DEF AttState, PeersKnown
<1>3. CASE p.t = "confirm" /\ Fresh(x) /\ p.from \in Chans
  <2> DEFINE x2 == [x EXCEPT !.clientID = p.from]
             K2 == (K \ {x}) \cup {x2}
             v == [st |-> "open", peer |-> p.from]
  <2>1. x2.serverID = c /\ x2.clientID = p.from /\ x2.closed = {} /\ p.from # None
    BY <1>1, <1>3, ProxyAssumption DEF Channel, Fresh
  <2>2. AgreesAt(K2, v, c)
    BY <2>1 DEF AgreesAt
  <2>3. \A y : y.serverID # c => (y \in K <=> y \in K2)
    BY <1>1, <2>1
  <2>4. [a EXCEPT ![c] = v] \in AttState /\ PeersKnown([a EXCEPT ![c] = v])
    BY <1>2, <1>3, <2>1
  <2>5. Learn(a, p) = [a EXCEPT ![c] = v]
    BY <1>3 DEF Learn
  <2> HIDE DEF K2, v, c
  <2>6. Agrees(K2, [a EXCEPT ![c] = v])
    BY <1>1, <2>2, <2>3, <2>4, AgreesChanged
  <2> QED BY <1>3, <2>4, <2>5, <2>6 DEF K2
<1>4. CASE p.t = "failure" \/ (p.t = "close" /\ x.clientID # None /\ x.closed = {"SERVER"})
  <2> DEFINE K2 == K \ {x}
             v == NoChannel
  <2>1. AgreesAt(K2, v, c)
    BY <1>1 DEF AgreesAt, NoChannel
  <2>2. \A y : y.serverID # c => (y \in K <=> y \in K2)
    BY <1>1
  <2>3. v \in [st : {"free", "opening", "open", "closed", "peer closed"}, peer : Chans \cup {None}] /\ v.st = "free"
    BY DEF NoChannel
  <2>4. [a EXCEPT ![c] = v] \in AttState /\ PeersKnown([a EXCEPT ![c] = v])
    BY <1>2, <2>3
  <2>5. Learn(a, p) = [a EXCEPT ![c] = v]
    <3>1. CASE p.t = "failure"
      BY <3>1 DEF Learn
    <3>2. CASE p.t = "close" /\ x.clientID # None /\ x.closed = {"SERVER"}
      <4>1. a[c].st = "closed"
        BY <1>1, <3>2 DEF AgreesAt, Fresh
      <4> QED BY <1>1, <3>2, <4>1 DEF Learn, AttState
    <3> QED BY <1>4, <3>1, <3>2
  <2> HIDE DEF K2, v, c
  <2>6. Agrees(K2, [a EXCEPT ![c] = v])
    BY <1>1, <2>1, <2>2, <2>4, AgreesChanged
  <2>7. p.t = "failure" \/ (p.t = "close" /\ x.closed # {})
    BY <1>4
  <2> QED BY <1>4, <2>4, <2>5, <2>6, <2>7 DEF K2
<1>5. CASE p.t = "data"
  BY <1>5 DEF Learn
<1>6. CASE p.t = "close" /\ x.clientID # None /\ x.closed = {}
  <2> DEFINE x2 == [x EXCEPT !.closed = @ \cup {"CLIENT"}]
             K2 == (K \ {x}) \cup {x2}
             v == [a[c] EXCEPT !.st = "peer closed"]
  <2>1. x2.serverID = c /\ x2.clientID = x.clientID /\ x2.closed = {"CLIENT"}
    BY <1>1, <1>6 DEF Channel
  <2>2. a[c].st = "open" /\ a[c].peer = x.clientID
    BY <1>1, <1>6 DEF AgreesAt, Fresh
  <2>3. v.st = "peer closed" /\ v.peer = x.clientID
        /\ v \in [st : {"free", "opening", "open", "closed", "peer closed"}, peer : Chans \cup {None}]
    BY <1>1, <2>2
  <2>4. AgreesAt(K2, v, c)
    BY <1>6, <2>1, <2>3 DEF AgreesAt
  <2>5. \A y : y.serverID # c => (y \in K <=> y \in K2)
    BY <1>1, <2>1
  <2>6. [a EXCEPT ![c] = v] \in AttState /\ PeersKnown([a EXCEPT ![c] = v])
    BY <1>2, <1>6, <2>3
  <2>7. Learn(a, p) = [a EXCEPT ![c] = v]
    BY <1>1, <1>6, <2>2 DEF Learn, AttState
  <2> HIDE DEF K2, v, c
  <2>8. Agrees(K2, [a EXCEPT ![c] = v])
    BY <1>1, <2>4, <2>5, <2>6, AgreesChanged
  <2> QED BY <1>6, <2>6, <2>7, <2>8 DEF K2
<1> QED BY <1>3, <1>4, <1>5, <1>6

\* A packet of the guest in the parser.
LEMMA GuestPacketParsed ==
  ASSUME NEW x, ParserSound(x), x.raised = None, NEW q, NEW a, NEW u, NEW h, NEW d, Conf(All(x.chs), u, h, d),
         Agrees(All(x.chs), a), PeersKnown(a), NEW d2, NEW e, Less(d2, d, e)
  PROVE  LET s == ParseNext([x |-> x, pass |-> q, att |-> a], "CLIENT", d[e])
         IN  /\ ParserSound(s.x) /\ s.att \in AttState /\ PeersKnown(s.att)
             /\ s.x.raised = None => /\ s.pass = Append(q, d[e])
                                     /\ Conf(All(s.x.chs), u, h, d2) /\ Agrees(All(s.x.chs), s.att)
<1> DEFINE K == All(x.chs)
           p == d[e]
           r == [x |-> x, pass |-> q, att |-> a]
           s == ParseNext(r, "CLIENT", p)
           y == Parse(x, "CLIENT", p)
<1>1. p \in DownPackets /\ KnownChannels(K) /\ (\A j \in DOMAIN d : ~ (j < e)) /\ e \in DOMAIN d
  BY DEF Less, Conf, Typed
<1>2. PICK c \in K : c.serverID = p.ch
  <2>1. Conf(K, u, h, d)
    OBVIOUS
  <2> HIDE DEF K
  <2> QED BY <1>1, <2>1, AboutKnown
<1> DEFINE Named == (K \ {c}) \cup {[c EXCEPT !.clientID = p.from]}
           Closed == (K \ {c}) \cup {[c EXCEPT !.closed = @ \cup {"CLIENT"}]}
           Removed == K \ {c}
<1>a. Agrees(K, a) /\ Conf(K, u, h, d) /\ a \in AttState
  BY DEF Agrees
<1>3. /\ p.t = "confirm" => Conf(Named, u, h, d2) /\ Fresh(c) /\ p.from \in Chans
      /\ p.t = "failure" => Conf(Removed, u, h, d2) /\ c.clientID = None
      /\ p.t = "data" => Conf(K, u, h, d2)
  <2> HIDE DEF K
  <2>1. ASSUME p.t = "confirm" PROVE Conf(Named, u, h, d2) /\ Fresh(c) /\ p.from \in Chans
    <3>1. /\ Conf((K \ {c}) \cup {[c EXCEPT !.clientID = d[e].from]}, u, h, d2)
          /\ c.clientID = None /\ c.closed = {} /\ d[e].from \in Chans
      BY <1>a, <1>2, <2>1, ConfirmRead
    <3> QED BY <3>1 DEF Fresh
  <2>2. ASSUME p.t = "failure" PROVE Conf(Removed, u, h, d2) /\ c.clientID = None
    BY <1>a, <1>2, <2>2, FailureRead
  <2>3. ASSUME p.t = "data" PROVE Conf(K, u, h, d2)
    BY <1>a, <2>3, DataRead
  <2> QED BY <2>1, <2>2, <2>3
<1>4. ASSUME p.t = "close"
      PROVE  /\ c.clientID # None /\ c.closed \in {{}, {"SERVER"}}
             /\ c.closed = {} => Conf(Closed, u, h, d2)
             /\ c.closed = {"SERVER"} => Conf(Removed, u, h, d2)
  <2> HIDE DEF K
  <2>1. c.clientID \in Chans /\ c.closed \in {{}, {"SERVER"}}
    BY <1>a, <1>2, <1>4, CloseIsLast
  <2>2. ASSUME c.closed = {} PROVE Conf(Closed, u, h, d2)
    BY <1>a, <1>2, <1>4, <2>2, CloseRead
  <2>3. ASSUME c.closed = {"SERVER"} PROVE Conf(Removed, u, h, d2)
    BY <1>a, <1>2, <1>4, <2>3, LastCloseRead
  <2> QED BY <2>1, <2>2, <2>3, ProxyAssumption
<1>5. /\ ParserSound(y)
      /\ \/ y.raised = None /\ y.out = "pass"
         \/ p.t = "data" /\ y.raised = "no session"
      /\ p.t = "confirm" => All(y.chs) = Named
      /\ p.t = "failure" => All(y.chs) = Removed
      /\ p.t = "data" => All(y.chs) = K
      /\ p.t = "close" => All(y.chs) = IF "SERVER" \in c.closed THEN Removed ELSE Closed
  BY <1>1, <1>2, <1>3, ClientParse
<1>6. s = IF y.raised # None THEN [r EXCEPT !.x = y]
          ELSE [x |-> y, pass |-> IF y.out = "pass" THEN Append(q, p) ELSE q, att |-> Reaches(a, "CLIENT", p, y.out)]
  BY DEF ParseNext
<1>7. /\ p.t = "confirm" /\ Fresh(c) /\ p.from \in Chans => Agrees(Named, Learn(a, p)) /\ PeersKnown(Learn(a, p))
      /\ p.t = "failure" => Agrees(Removed, Learn(a, p)) /\ PeersKnown(Learn(a, p))
      /\ p.t = "data" => Agrees(K, Learn(a, p)) /\ PeersKnown(Learn(a, p))
      /\ p.t = "close" /\ c.clientID # None /\ c.closed = {} => Agrees(Closed, Learn(a, p)) /\ PeersKnown(Learn(a, p))
      /\ p.t = "close" /\ c.clientID # None /\ c.closed = {"SERVER"} =>
           Agrees(Removed, Learn(a, p)) /\ PeersKnown(Learn(a, p))
  <2> HIDE DEF K, p
  <2> QED BY <1>a, <1>1, <1>2, Learns
<1>8. p.t = "confirm" \/ p.t = "failure" \/ p.t = "data" \/ p.t = "close"
  BY <1>1 DEF DownPackets
<1> HIDE DEF y, s, p, K, Named, Closed, Removed
<1>9. CASE y.raised # None
  <2>1. s.x = y /\ s.att = a
    BY <1>6, <1>9
  <2> QED BY <1>a, <1>5, <1>9, <2>1 DEF s, p
<1>10. CASE y.raised = None
  <2>1. y.out = "pass"
    BY <1>5, <1>10, ProxyAssumption
  <2>2. s.x = y /\ s.pass = Append(q, p) /\ s.att = Learn(a, p)
    BY <1>6, <1>10, <2>1 DEF Reaches
  <2>3. Conf(All(y.chs), u, h, d2) /\ Agrees(All(y.chs), Learn(a, p)) /\ PeersKnown(Learn(a, p))
    <3>1. CASE p.t = "confirm"
      BY <1>3, <1>5, <1>7, <3>1
    <3>2. CASE p.t = "failure"
      BY <1>3, <1>5, <1>7, <3>2
    <3>3. CASE p.t = "data"
      BY <1>3, <1>5, <1>7, <3>3
    <3>4. CASE p.t = "close"
      <4>1. CASE c.closed = {}
        BY <1>4, <1>5, <1>7, <3>4, <4>1
      <4>2. CASE c.closed = {"SERVER"}
        BY <1>4, <1>5, <1>7, <3>4, <4>2
      <4> QED BY <1>4, <3>4, <4>1, <4>2
    <3> QED BY <1>8, <3>1, <3>2, <3>3, <3>4
  <2>4. Learn(a, p) \in AttState
    BY <2>3 DEF Agrees
  <2>5. ParserSound(s.x) /\ s.att \in AttState /\ PeersKnown(s.att) /\ s.pass = Append(q, p)
        /\ Conf(All(s.x.chs), u, h, d2) /\ Agrees(All(s.x.chs), s.att)
    BY <1>5, <2>2, <2>3, <2>4
  <2> QED BY <2>5 DEF s, p
<1> QED BY <1>9, <1>10

-----------------------------------------------------------------------------
(***************************************************************************)
(* Packets of the attacker in the parser.                                  *)
(***************************************************************************)
LEMMA OpenParsed ==
  ASSUME NEW x, ParserSound(x), x.raised = None, NEW q, NEW a, NEW u, NEW h, NEW d, Conf(All(x.chs), u, h, d),
         Agrees(All(x.chs), a), PeersKnown(a), NEW p \in Requests, p.t = "open", a[p.ch].st = "opening",
         \A k \in All(x.chs) : k.serverID # p.ch, NEW u2, NEW e, More(u2, u, e, p)
  PROVE  LET s == ParseNext([x |-> x, pass |-> q, att |-> a], "SERVER", p)
         IN  /\ ParserSound(s.x) /\ s.x.raised = None /\ PeersKnown(s.att) /\ Agrees(All(s.x.chs), s.att)
             /\ \/ s.pass = q /\ Conf(All(s.x.chs), u, h, d)
                \/ s.pass = Append(q, p) /\ Conf(All(s.x.chs), u2, h, d)
             /\ \A n \in Chans : n # p.ch =>
                  s.att[n] = a[n] /\ \A k \in All(s.x.chs) : k.serverID = n => k \in All(x.chs)
<1> DEFINE K == All(x.chs)
           c == p.ch
           r == [x |-> x, pass |-> q, att |-> a]
           s == ParseNext(r, "SERVER", p)
           y == Parse(x, "SERVER", p)
<1>1. c \in Chans /\ a \in AttState /\ Conf(K, u, h, d) /\ Agrees(K, a)
  BY DEF Requests, Agrees
<1>2. /\ ParserSound(y) /\ y.raised = None
      /\ \/ y.out = "answer" /\ y.chs = x.chs
         \/ /\ y.out = "pass"
            /\ \E v \in {None, "forward"} : All(y.chs) = All(x.chs) \cup {CreateChannel("SERVER", p.ch, v)}
  BY ServerOpens
<1>3. s = [x |-> y, pass |-> IF y.out = "pass" THEN Append(q, p) ELSE q, att |-> Reaches(a, "SERVER", p, y.out)]
  BY <1>2 DEF ParseNext
<1>4. CASE y.out = "answer" /\ y.chs = x.chs
  <2>1. s.x = y /\ s.pass = q /\ s.att = [a EXCEPT ![c] = NoChannel]
    <3> HIDE DEF s, y, r
    <3> QED BY <1>3, <1>4 DEF Reaches, Refused
  <2>2. NoChannel \in [st : {"free", "opening", "open", "closed", "peer closed"}, peer : Chans \cup {None}]
        /\ NoChannel.st = "free" /\ AgreesAt(K, NoChannel, c)
    BY DEF NoChannel, AgreesAt
  <2> DEFINE v == NoChannel
             a2 == [a EXCEPT ![c] = v]
  <2>3. a2 \in AttState /\ PeersKnown(a2) /\ \A n \in Chans : n # c => a2[n] = a[n]
    BY <1>1, <2>2 DEF AttState, PeersKnown
  <2>4. Agrees(K, a2)
    <3> HIDE DEF K, c, v
    <3> QED BY <1>1, <2>2, <2>3, AgreesChanged DEF v
  <2>5. All(y.chs) = K
    BY <1>4
  <2> HIDE DEF a2
  <2>6. s.att = a2
    BY <2>1 DEF a2
  <2> HIDE DEF s, y, K
  <2>7. /\ ParserSound(s.x) /\ s.x.raised = None /\ PeersKnown(s.att) /\ Agrees(All(s.x.chs), s.att)
        /\ s.pass = q /\ Conf(All(s.x.chs), u, h, d)
        /\ \A n \in Chans : n # c => s.att[n] = a[n] /\ \A k \in All(s.x.chs) : k.serverID = n => k \in K
    BY <1>1, <1>2, <2>1, <2>3, <2>4, <2>5, <2>6
  <2> QED BY <2>7 DEF K, s
<1>5. ASSUME y.out = "pass", NEW v \in {None, "forward"}, All(y.chs) = K \cup {CreateChannel("SERVER", c, v)}
      PROVE  /\ ParserSound(s.x) /\ s.x.raised = None /\ PeersKnown(s.att) /\ Agrees(All(s.x.chs), s.att)
             /\ s.pass = Append(q, p) /\ Conf(All(s.x.chs), u2, h, d)
             /\ \A n \in Chans : n # p.ch =>
                  s.att[n] = a[n] /\ \A k \in All(s.x.chs) : k.serverID = n => k \in K
  <2> DEFINE z == CreateChannel("SERVER", c, v)
             K2 == K \cup {z}
  <2>1. s.x = y /\ s.pass = Append(q, p) /\ s.att = a
    BY <1>3, <1>5 DEF Reaches
  <2>2. Conf(K2, u2, h, d)
    <3> HIDE DEF K
    <3> QED BY <1>1, <1>5, OpenSent DEF K
  <2>3. z.serverID = c /\ Fresh(z)
    BY DEF CreateChannel, Fresh
  <2>4. AgreesAt(K2, a[c], c)
    BY <1>1, <2>3 DEF AgreesAt
  <2>5. \A k : k.serverID # c => (k \in K <=> k \in K2)
    BY <2>3
  <2>6. All(y.chs) = K2
    BY <1>5
  <2> HIDE DEF K, K2, c
  <2>7. Agrees(K2, a)
    BY <1>1, <2>4, <2>5, AgreesSame
  <2> HIDE DEF s, y
  <2> QED BY <1>2, <2>1, <2>2, <2>5, <2>6, <2>7 DEF c
<1> HIDE DEF s, y
<1> QED BY <1>2, <1>4, <1>5 DEF s

\* What the attacker's own packet makes of what he knows.
Asks(p, a0, a, c) ==
  /\ c \in Chans /\ p \in Requests /\ p.ch = a0[c].peer
  /\ \/ p.t \in {"request", "data"} /\ a0[c].st = "open" /\ a = a0
     \/ p.t = "close" /\ a0[c].st = "open" /\ a = [a0 EXCEPT ![c].st = "closed"]
     \/ p.t = "close" /\ a0[c].st = "peer closed" /\ a = [a0 EXCEPT ![c] = NoChannel]

\* What an attacker who asks for a channel, or uses one, knows then.
LEMMA AskingKnown ==
  ASSUME NEW a0 \in AttState, PeersKnown(a0), NEW p, NEW a, NEW c, Asks(p, a0, a, c)
  PROVE  a \in AttState /\ PeersKnown(a) /\ \A n \in Chans : n # c => a[n] = a0[n]
<1>1. c \in Chans
  BY DEF Asks
<1>2. CASE a = a0
  BY <1>2
<1>3. CASE a = [a0 EXCEPT ![c].st = "closed"]
  <2>1. a0[c] \in [st : {"free", "opening", "open", "closed", "peer closed"}, peer : Chans \cup {None}]
    BY <1>1 DEF AttState
  <2>2. a = [a0 EXCEPT ![c] = [a0[c] EXCEPT !.st = "closed"]]
    BY <1>3
  <2>3. /\ [a0[c] EXCEPT !.st = "closed"] \in [st : {"free", "opening", "open", "closed", "peer closed"}, peer : Chans \cup {None}]
        /\ [a0[c] EXCEPT !.st = "closed"].peer = a0[c].peer
        /\ [a0[c] EXCEPT !.st = "closed"].st = "closed"
    BY <2>1
  <2>4. \A n \in Chans : a[n] = IF n = c THEN [a0[c] EXCEPT !.st = "closed"] ELSE a0[n]
    BY <2>2 DEF AttState
  <2>5. a \in AttState
    BY <1>1, <2>2, <2>3 DEF AttState
  <2> QED BY <1>1, <2>3, <2>4, <2>5 DEF PeersKnown
<1>4. CASE a = [a0 EXCEPT ![c] = NoChannel]
  BY <1>1, <1>4 DEF AttState, PeersKnown, NoChannel
<1> QED BY <1>2, <1>3, <1>4 DEF Asks

\* A packet of the attacker parsed on a secure backend: it is passed on or not.
LEMMA AskParsed ==
  ASSUME NEW x, ParserSound(x), x.raised = None, NEW q, NEW a0, NEW u, NEW h, NEW d, Conf(All(x.chs), u, h, d),
         Agrees(All(x.chs), a0), PeersKnown(a0), NEW p, NEW a, NEW c, Asks(p, a0, a, c), NEW u2, NEW e, More(u2, u, e, p)
  PROVE  LET s == ParseNext([x |-> x, pass |-> q, att |-> a], "SERVER", p)
         IN  /\ ParserSound(s.x) /\ s.att = a
             /\ s.x.raised = None => Agrees(All(s.x.chs), a)
             /\ \/ s.pass = q /\ Conf(All(s.x.chs), u, h, d)
                \/ s.x.raised = None /\ s.pass = Append(q, p) /\ Conf(All(s.x.chs), u2, h, d)
<1> DEFINE K == All(x.chs)
           b == p.ch
           r == [x |-> x, pass |-> q, att |-> a]
           s == ParseNext(r, "SERVER", p)
           y == Parse(x, "SERVER", p)
<1>1. /\ c \in Chans /\ p \in Requests /\ p.t \in {"request", "data", "close"} /\ p.t # "open" /\ b = a0[c].peer
      /\ a0 \in AttState /\ AgreesAt(K, a0[c], c) /\ KnownChannels(K) /\ Conf(K, u, h, d) /\ Agrees(K, a0)
      /\ a0[c].st \in {"open", "peer closed"} /\ p \in UpPackets
  BY DEF Asks, Agrees, Conf, UpPackets
<1>2. PICK k \in K : /\ k.serverID = c /\ k.clientID = b /\ b # None
                     /\ k.closed = IF a0[c].st = "open" THEN {} ELSE {"CLIENT"}
  BY <1>1 DEF AgreesAt
<1>3. /\ \A z \in K : z.clientID = b => z = k
      /\ \A z \in K : z.serverID = c => z = k
      /\ k \in Channel
  BY <1>1, <1>2 DEF KnownChannels
<1>4. /\ ParserSound(y)
      /\ \/ y.raised \in {"pending", "no session"} /\ All(y.chs) = K
         \/ /\ y.raised = None /\ y.out \in {"pass", "answer"}
            /\ p.t = "request" => \E v \in Services : All(y.chs) = (K \ {k}) \cup {[k EXCEPT !.ses = v]}
            /\ p.t = "data" => All(y.chs) = K
            /\ p.t = "close" =>
                 y.out = "pass" /\
                 All(y.chs) = IF "CLIENT" \in k.closed THEN K \ {k}
                              ELSE (K \ {k}) \cup {[k EXCEPT !.closed = @ \cup {"SERVER"}]}
  BY <1>1, <1>2, <1>3, ServerParse
<1>5. s = IF y.raised # None THEN [r EXCEPT !.x = y]
          ELSE [x |-> y, pass |-> IF y.out = "pass" THEN Append(q, p) ELSE q, att |-> Reaches(a, "SERVER", p, y.out)]
  BY DEF ParseNext
<1>6. s.x = y /\ s.att = a /\ s.pass = IF y.raised = None /\ y.out = "pass" THEN Append(q, p) ELSE q
  <2> HIDE DEF s, y
  <2>1. CASE y.raised # None
    BY <1>5, <2>1
  <2>2. CASE y.raised = None
    <3>1. y.out \in {"pass", "answer"}
      BY <1>4, <2>2, ProxyAssumption
    <3>2. Reaches(a, "SERVER", p, y.out) = a
      BY <1>1, <3>1 DEF Reaches, Refused
    <3> QED BY <1>5, <2>2, <3>2
  <2> QED BY <2>1, <2>2
<1>a. a \in AttState
  BY <1>1, AskingKnown
<1> HIDE DEF s, y, K, b, r
<1>7. CASE y.raised # None
  <2>1. All(y.chs) = K
    BY <1>4, <1>7, ProxyAssumption
  <2> QED BY <1>1, <1>4, <1>6, <1>7, <2>1 DEF s, r
<1>8. CASE y.raised = None /\ p.t = "request"
  <2>1. PICK v \in Services : All(y.chs) = (K \ {k}) \cup {[k EXCEPT !.ses = v]}
    BY <1>4, <1>8, ProxyAssumption
  <2> DEFINE k2 == [k EXCEPT !.ses = v]
             K2 == (K \ {k}) \cup {k2}
  <2>2. k2.serverID = c /\ k2.clientID = b /\ k2.closed = k.closed
    BY <1>2, <1>3 DEF Channel
  <2>3. a = a0 /\ a0[c].st = "open"
    BY <1>1, <1>8 DEF Asks
  <2>4. AgreesAt(K2, a0[c], c)
    BY <1>1, <1>2, <2>2, <2>3 DEF AgreesAt, b
  <2>5. \A z : z.serverID # c => (z \in K <=> z \in K2)
    BY <1>2, <2>2
  <2>6. Conf(K2, u, h, d)
    BY <1>1, SessionChanged
  <2>7. All(y.chs) = K2
    BY <2>1
  <2> HIDE DEF K2
  <2>8. Agrees(K2, a0)
    BY <1>1, <2>4, <2>5, AgreesSame
  <2>9. Conf(K2, u2, h, d)
    BY <1>1, <1>8, <2>6, AddedUp
  <2>10. s.pass = q \/ s.pass = Append(q, p)
    BY <1>6
  <2>11. s.x.raised = None /\ ParserSound(s.x) /\ All(s.x.chs) = K2
    BY <1>4, <1>6, <1>8, <2>7
  <2> QED BY <1>6, <2>3, <2>6, <2>8, <2>9, <2>10, <2>11 DEF s, r
<1>9. CASE y.raised = None /\ p.t = "data"
  <2>1. a = a0 /\ All(y.chs) = K
    BY <1>1, <1>4, <1>9, ProxyAssumption DEF Asks
  <2>2. Conf(K, u2, h, d)
    BY <1>1, <1>9, AddedUp
  <2>3. s.pass = q \/ s.pass = Append(q, p)
    BY <1>6
  <2>4. s.x.raised = None /\ ParserSound(s.x) /\ All(s.x.chs) = K
    BY <1>4, <1>6, <1>9, <2>1
  <2> QED BY <1>1, <1>6, <2>1, <2>2, <2>3, <2>4 DEF s, r
<1>10. CASE y.raised = None /\ p.t = "close" /\ a0[c].st = "open"
  <2> DEFINE k2 == [k EXCEPT !.closed = {"SERVER"}]
             K2 == (K \ {k}) \cup {k2}
             v == [a0[c] EXCEPT !.st = "closed"]
  <2>1. k.closed = {} /\ a = [a0 EXCEPT ![c] = v]
    BY <1>1, <1>2, <1>10 DEF Asks, AttState
  <2>2. [k EXCEPT !.closed = @ \cup {"SERVER"}] = k2
    BY <1>3, <2>1 DEF Channel
  <2>3. All(y.chs) = K2
    BY <1>4, <1>10, <2>1, <2>2, ProxyAssumption
  <2>4. k2.serverID = c /\ k2.clientID = b /\ k2.closed = {"SERVER"}
    BY <1>2, <1>3 DEF Channel
  <2>5. v.st = "closed" /\ a \in AttState
    BY <1>1, <1>a DEF AttState
  <2>6. AgreesAt(K2, v, c)
    BY <1>2, <2>4, <2>5 DEF AgreesAt
  <2>7. \A z : z.serverID # c => (z \in K <=> z \in K2)
    BY <1>2, <2>4
  <2>8. Conf(K2, u2, h, d)
    BY <1>1, <1>2, <1>10, <2>1, CloseSent DEF b
  <2>9. s.pass = Append(q, p) /\ s.x.raised = None /\ ParserSound(s.x) /\ All(s.x.chs) = K2
    BY <1>4, <1>6, <1>10, <2>3, ProxyAssumption
  <2> HIDE DEF K2, v
  <2>10. Agrees(K2, a)
    BY <1>1, <2>1, <2>5, <2>6, <2>7, AgreesChanged
  <2> QED BY <1>6, <2>8, <2>9, <2>10 DEF s, r
<1>11. CASE y.raised = None /\ p.t = "close" /\ a0[c].st = "peer closed"
  <2> DEFINE K2 == K \ {k}
             v == NoChannel
  <2>1. k.closed = {"CLIENT"} /\ a = [a0 EXCEPT ![c] = v]
    BY <1>1, <1>2, <1>11 DEF Asks
  <2>2. All(y.chs) = K2
    BY <1>4, <1>11, <2>1, ProxyAssumption
  <2>3. v.st = "free" /\ a \in AttState
    BY <1>a DEF NoChannel
  <2>4. AgreesAt(K2, v, c)
    BY <1>3, <2>3 DEF AgreesAt
  <2>5. \A z : z.serverID # c => (z \in K <=> z \in K2)
    BY <1>2
  <2>6. Conf(K2, u2, h, d)
    BY <1>1, <1>2, <1>11, <2>1, CloseAnswered DEF b
  <2>7. s.pass = Append(q, p) /\ s.x.raised = None /\ ParserSound(s.x) /\ All(s.x.chs) = K2
    BY <1>4, <1>6, <1>11, <2>2, ProxyAssumption
  <2> HIDE DEF K2, v
  <2>8. Agrees(K2, a)
    BY <1>1, <2>1, <2>3, <2>4, <2>5, AgreesChanged
  <2> QED BY <1>6, <2>6, <2>7, <2>8 DEF s, r
<1> QED BY <1>1, <1>4, <1>7, <1>8, <1>9, <1>10, <1>11

-----------------------------------------------------------------------------
(***************************************************************************)
(* Packets are numbered anew when the first ones are gone.                 *)
(***************************************************************************)
\* g holds what f holds, in the same order.
SameOrder(g, f, m, w) ==
  /\ DOMAIN g \subseteq Nat
  /\ \A j \in DOMAIN g : m[j] \in DOMAIN f /\ g[j] = f[m[j]] /\ w[m[j]] = j
  /\ \A i \in DOMAIN f : w[i] \in DOMAIN g /\ m[w[i]] = i
  /\ \A i, j \in DOMAIN g : i < j <=> m[i] < m[j]

\* Conf depends on the order of the packets on their way back, not on where they are.
LEMMA DownRenumbered ==
  ASSUME NEW K, NEW u, NEW h, NEW f, Conf(K, u, h, f), NEW g, NEW m, NEW w, SameOrder(g, f, m, w)
  PROVE  Conf(K, u, h, g)
<1>1. \A j \in DOMAIN g : m[j] \in DOMAIN f /\ g[j] = f[m[j]] /\ w[m[j]] = j
  BY DEF SameOrder
<1>2. \A i \in DOMAIN f : w[i] \in DOMAIN g /\ m[w[i]] = i /\ g[w[i]] = f[i]
  BY DEF SameOrder
<1>3. \A i, j \in DOMAIN g : i < j <=> m[i] < m[j]
  BY DEF SameOrder
<1>4. DOMAIN g \subseteq Nat /\ DOMAIN f \subseteq Nat
  BY DEF SameOrder, Conf, Typed
<1>5. /\ \A t, n : Coming(g, t, n) <=> Coming(f, t, n)
      /\ \A n, b : Confirmed(g, n, b) <=> Confirmed(f, n, b)
  BY <1>1, <1>2 DEF Coming, Confirmed
<1>6. \A b : Abandoned(K, u, g, b) <=> Abandoned(K, u, f, b)
  BY <1>1, <1>2 DEF Abandoned
<1>7. Typed(u, h, g)
  BY <1>1, <1>4 DEF Conf, Typed
<1>8. Confirms(K, h, g)
  <2> SUFFICES ASSUME NEW j \in DOMAIN g, g[j].t = "confirm"
               PROVE  /\ g[j].from \in Chans
                      /\ \E y \in K : y.serverID = g[j].ch /\ Fresh(y)
                      /\ h[g[j].from].st \in {"open", "closed"} /\ h[g[j].from].peer = g[j].ch
                      /\ \A k \in DOMAIN g : g[k].ch = g[j].ch => k = j \/ (k > j /\ g[k].t \in {"data", "close"})
                      /\ \A y \in K : y.clientID = g[j].from =>
                           y.closed = {"SERVER"} /\ \E k \in DOMAIN g : k < j /\ g[k].t = "close" /\ g[k].ch = y.serverID
    BY DEF Confirms
  <2> DEFINE i == m[j]
  <2>1. i \in DOMAIN f /\ g[j] = f[i]
    BY <1>1
  <2>2. /\ f[i].from \in Chans
        /\ \E y \in K : y.serverID = f[i].ch /\ Fresh(y)
        /\ h[f[i].from].st \in {"open", "closed"} /\ h[f[i].from].peer = f[i].ch
        /\ \A k \in DOMAIN f : f[k].ch = f[i].ch => k = i \/ (k > i /\ f[k].t \in {"data", "close"})
        /\ \A y \in K : y.clientID = f[i].from =>
             y.closed = {"SERVER"} /\ \E k \in DOMAIN f : k < i /\ f[k].t = "close" /\ f[k].ch = y.serverID
    BY <2>1 DEF Conf, Confirms
  <2>3. ASSUME NEW k \in DOMAIN g, g[k].ch = g[j].ch PROVE k = j \/ (k > j /\ g[k].t \in {"data", "close"})
    <3>1. m[k] \in DOMAIN f /\ g[k] = f[m[k]] /\ w[m[k]] = k /\ w[i] = j
      BY <1>1
    <3>2. m[k] = i \/ (m[k] > i /\ f[m[k]].t \in {"data", "close"})
      BY <2>1, <2>2, <2>3, <3>1
    <3>3. m[k] > i => k > j
      BY <1>3, <1>4, <2>1, <3>1
    <3> QED BY <3>1, <3>2, <3>3
  <2>4. ASSUME NEW y \in K, y.clientID = g[j].from
        PROVE  y.closed = {"SERVER"} /\ \E k \in DOMAIN g : k < j /\ g[k].t = "close" /\ g[k].ch = y.serverID
    <3>1. y.closed = {"SERVER"}
      BY <2>1, <2>2, <2>4
    <3>2. PICK k \in DOMAIN f : k < i /\ f[k].t = "close" /\ f[k].ch = y.serverID
      BY <2>1, <2>2, <2>4
    <3>3. w[k] \in DOMAIN g /\ m[w[k]] = k /\ g[w[k]] = f[k]
      BY <1>2
    <3>4. w[k] < j
      BY <1>3, <3>2, <3>3
    <3> QED BY <3>1, <3>2, <3>3, <3>4
  <2> HIDE DEF i
  <2> QED BY <2>1, <2>2, <2>3, <2>4
<1>9. Failures(K, u, h, g)
  <2> SUFFICES ASSUME NEW j \in DOMAIN g, g[j].t = "failure"
               PROVE  /\ \E x \in K : x.serverID = g[j].ch /\ Fresh(x)
                      /\ \A k \in DOMAIN g : g[k].ch = g[j].ch => k = j
                      /\ ~ Coming(u, "open", g[j].ch)
                      /\ \A b \in Chans : h[b].st # "free" => h[b].peer # g[j].ch
    BY DEF Failures
  <2>1. m[j] \in DOMAIN f /\ g[j] = f[m[j]] /\ w[m[j]] = j
    BY <1>1
  <2> QED BY <1>1, <2>1 DEF Conf, Failures
<1>10. DataAndCloses(K, g)
  <2>1. ASSUME NEW j \in DOMAIN g, Told(K, f, m[j]) PROVE Told(K, g, j)
    <3>1. g[j] = f[m[j]]
      BY <1>1
    <3>2. PICK x \in K : /\ x.serverID = f[m[j]].ch /\ "CLIENT" \notin x.closed
                         /\ x.clientID = None => \E k \in DOMAIN f : k < m[j] /\ f[k].t = "confirm" /\ f[k].ch = f[m[j]].ch
      BY <2>1 DEF Told
    <3>3. \A k \in DOMAIN f : k < m[j] => w[k] \in DOMAIN g /\ w[k] < j /\ g[w[k]] = f[k]
      BY <1>2, <1>3
    <3> QED BY <3>1, <3>2, <3>3 DEF Told
  <2>2. ASSUME NEW j \in DOMAIN g, NEW k \in DOMAIN g, g[k].t = "close", g[j].t \in {"data", "close"}, g[j].ch = g[k].ch
        PROVE  j = k \/ (j < k /\ g[j].t = "data")
    <3>1. m[j] = m[k] \/ (m[j] < m[k] /\ f[m[j]].t = "data")
      BY <1>1, <2>2 DEF Conf, DataAndCloses
    <3> QED BY <1>1, <1>3, <3>1
  <2>3. \A j \in DOMAIN g : g[j].t \in {"data", "close"} => Told(K, g, j)
    BY <1>1, <2>1 DEF Conf, DataAndCloses
  <2> QED BY <2>2, <2>3 DEF DataAndCloses
<1>11. UpOpens(K, u, h, g)
  BY <1>1 DEF Conf, UpOpens
<1>12. UpCloses(K, u, h, g)
  BY <1>6 DEF Conf, UpCloses
<1>13. HostConnecting(K, u, h, g)
  BY <1>1 DEF Conf, HostConnecting
<1>14. HostOpen(K, u, h, g)
  BY <1>5 DEF Conf, HostOpen
<1>15. HostClosed(K, u, h, g)
  BY <1>5, <1>6 DEF Conf, HostClosed
<1>16. Linked(K, h, g)
  BY <1>5 DEF Conf, Linked
<1> QED BY <1>7, <1>8, <1>9, <1>10, <1>11, <1>12, <1>13, <1>14, <1>15, <1>16 DEF Conf

\* The same of the packets on their way to the guest.
LEMMA UpRenumbered ==
  ASSUME NEW K, NEW f, NEW h, NEW d, Conf(K, f, h, d), NEW g, NEW m, NEW w, SameOrder(g, f, m, w)
  PROVE  Conf(K, g, h, d)
<1>1. \A j \in DOMAIN g : m[j] \in DOMAIN f /\ g[j] = f[m[j]] /\ w[m[j]] = j
  BY DEF SameOrder
<1>2. \A i \in DOMAIN f : w[i] \in DOMAIN g /\ m[w[i]] = i /\ g[w[i]] = f[i]
  BY DEF SameOrder
<1>3. \A i, j \in DOMAIN g : i < j <=> m[i] < m[j]
  BY DEF SameOrder
<1>4. DOMAIN g \subseteq Nat /\ DOMAIN f \subseteq Nat
  BY DEF SameOrder, Conf, Typed
<1>5. \A t, n : Coming(g, t, n) <=> Coming(f, t, n)
  BY <1>1, <1>2 DEF Coming
<1>6. \A b : Abandoned(K, g, d, b) <=> Abandoned(K, f, d, b)
  BY <1>5 DEF Abandoned
<1>7. Typed(g, h, d)
  BY <1>1, <1>4 DEF Conf, Typed
<1>8. Confirms(K, h, d) /\ DataAndCloses(K, d) /\ Linked(K, h, d)
  BY DEF Conf
<1>9. Failures(K, g, h, d)
  BY <1>5 DEF Conf, Failures
<1>10. UpOpens(K, g, h, d)
  <2> SUFFICES ASSUME NEW l \in DOMAIN g, g[l].t = "open"
               PROVE  /\ \E x \in K : x.serverID = g[l].ch /\ Fresh(x)
                      /\ \A k \in DOMAIN g : g[k].t = "open" /\ g[k].ch = g[l].ch => k = l
                      /\ \A j \in DOMAIN d : d[j].ch # g[l].ch
                      /\ \A b \in Chans : h[b].st # "free" /\ h[b].peer = g[l].ch =>
                           \E k \in DOMAIN g : k < l /\ g[k].t = "close" /\ g[k].ch = b
    BY DEF UpOpens
  <2>1. m[l] \in DOMAIN f /\ g[l] = f[m[l]] /\ w[m[l]] = l
    BY <1>1
  <2>2. /\ \E x \in K : x.serverID = f[m[l]].ch /\ Fresh(x)
        /\ \A k \in DOMAIN f : f[k].t = "open" /\ f[k].ch = f[m[l]].ch => k = m[l]
        /\ \A j \in DOMAIN d : d[j].ch # f[m[l]].ch
        /\ \A b \in Chans : h[b].st # "free" /\ h[b].peer = f[m[l]].ch =>
             \E k \in DOMAIN f : k < m[l] /\ f[k].t = "close" /\ f[k].ch = b
    BY <2>1 DEF Conf, UpOpens
  <2>3. \A k \in DOMAIN f : k < m[l] => w[k] \in DOMAIN g /\ w[k] < l /\ g[w[k]] = f[k]
    BY <1>2, <1>3
  <2>4. \A k \in DOMAIN g : g[k].t = "open" /\ g[k].ch = g[l].ch => k = l
    BY <1>1, <2>1, <2>2
  <2>5. \A b \in Chans : h[b].st # "free" /\ h[b].peer = g[l].ch => \E k \in DOMAIN g : k < l /\ g[k].t = "close" /\ g[k].ch = b
    BY <2>1, <2>2, <2>3
  <2> QED BY <2>1, <2>2, <2>4, <2>5
<1>11. UpCloses(K, g, h, d)
  <2> SUFFICES ASSUME NEW l \in DOMAIN g, g[l].t = "close"
               PROVE  /\ \A k \in DOMAIN g : g[k].t = "close" /\ g[k].ch = g[l].ch => k = l
                      /\ h[g[l].ch].st \in {"open", "closed"}
                      /\ \/ \E x \in K : x.clientID = g[l].ch /\ x.closed = {"SERVER"} /\ x.serverID = h[g[l].ch].peer
                         \/ h[g[l].ch].st = "closed" /\ Abandoned(K, g, d, g[l].ch)
    BY DEF UpCloses
  <2>1. m[l] \in DOMAIN f /\ g[l] = f[m[l]] /\ w[m[l]] = l
    BY <1>1
  <2>2. \A k \in DOMAIN f : f[k].t = "close" /\ f[k].ch = f[m[l]].ch => k = m[l]
    BY <2>1 DEF Conf, UpCloses
  <2>3. \A k \in DOMAIN g : g[k].t = "close" /\ g[k].ch = g[l].ch => k = l
    BY <1>1, <2>1, <2>2
  <2> QED BY <1>6, <2>1, <2>3 DEF Conf, UpCloses
<1>12. HostConnecting(K, g, h, d)
  BY <1>5 DEF Conf, HostConnecting
<1>13. HostOpen(K, g, h, d)
  BY <1>5 DEF Conf, HostOpen
<1>14. HostClosed(K, g, h, d)
  BY <1>5, <1>6 DEF Conf, HostClosed
<1>15. PeersDiffer(h) /\ KnownChannels(K)
  BY DEF Conf
<1> QED BY <1>7, <1>8, <1>9, <1>10, <1>11, <1>12, <1>13, <1>14, <1>15 DEF Conf

\* What comes after number n.
Behind(f, n) == [j \in {i \in DOMAIN f : n < i} |-> f[j]]

\* One packet more is behind the parser.
LEMMA OneBehind ==
  ASSUME NEW f, DOMAIN f \subseteq Nat, NEW n \in Nat, n + 1 \in DOMAIN f
  PROVE  Less(Behind(f, n + 1), Behind(f, n), n + 1) /\ Behind(f, n)[n + 1] = f[n + 1]
<1> DEFINE g1 == Behind(f, n)
           g2 == Behind(f, n + 1)
<1>1. /\ DOMAIN g1 = {i \in DOMAIN f : n < i} /\ \A j \in DOMAIN g1 : g1[j] = f[j]
      /\ DOMAIN g2 = {i \in DOMAIN f : n + 1 < i} /\ \A j \in DOMAIN g2 : g2[j] = f[j]
  BY DEF Behind
<1>2. n + 1 \in DOMAIN g1 /\ \A j \in DOMAIN g1 : n + 1 <= j
  BY <1>1
<1>3. DOMAIN g2 = DOMAIN g1 \ {n + 1} /\ \A j \in DOMAIN g2 : g2[j] = g1[j]
  BY <1>1
<1> QED BY <1>1, <1>2, <1>3 DEF Less

\* None is behind it at first.
LEMMA AllBehind ==
  ASSUME NEW f, NEW I, f = [j \in I |-> f[j]], I \subseteq Nat \ {0}
  PROVE  Behind(f, 0) = f
BY DEF Behind

\* A sequence numbered anew behind its first n items.
LEMMA BehindRenumbered ==
  ASSUME NEW S, NEW f \in Seq(S), NEW n \in 0 .. Len(f), NEW g \in Seq(S), Len(g) = Len(f) - n,
         \A j \in 1 .. Len(g) : g[j] = f[j + n]
  PROVE  \E m, w : SameOrder(g, Behind(f, n), m, w)
<1> DEFINE m == [j \in 1 .. Len(g) |-> j + n]
           w == [i \in (n + 1) .. Len(f) |-> i - n]
           b == Behind(f, n)
<1>1. DOMAIN b = (n + 1) .. Len(f) /\ \A i \in DOMAIN b : b[i] = f[i]
  BY DEF Behind
<1>2. DOMAIN g = 1 .. Len(g) /\ Len(g) \in Nat /\ Len(f) \in Nat /\ n \in Nat
  OBVIOUS
<1> HIDE DEF b
<1>3. \A j \in 1 .. Len(g) : m[j] = j + n /\ m[j] \in DOMAIN b
  BY <1>1, <1>2
<1>4. \A i \in DOMAIN b : w[i] = i - n /\ w[i] \in 1 .. Len(g)
  BY <1>1, <1>2
<1> HIDE DEF m, w
<1>5. \A j \in DOMAIN g : m[j] \in DOMAIN b /\ g[j] = b[m[j]] /\ w[m[j]] = j
  BY <1>1, <1>2, <1>3, <1>4
<1>6. \A i \in DOMAIN b : w[i] \in DOMAIN g /\ m[w[i]] = i
  BY <1>1, <1>2, <1>3, <1>4
<1>7. \A i, j \in DOMAIN g : i < j <=> m[i] < m[j]
  BY <1>2, <1>3
<1>8. SameOrder(g, b, m, w)
  BY <1>2, <1>5, <1>6, <1>7 DEF SameOrder
<1> QED BY <1>8 DEF b

-----------------------------------------------------------------------------
(***************************************************************************)
(* Packets in order.                                                       *)
(***************************************************************************)
Start(a) == [x |-> Parser, pass |-> <<>>, att |-> a]

\* What has been parsed after n packets.
IsParse(f, side, a, q, m) ==
  f = [n \in 0 .. m |-> IF n = 0 THEN Start(a) ELSE ParseNext(f[n - 1], side, q[n])]

\* Results of parsing one packet after the other exist, for any number of packets: the least number without them
\* would have them.
LEMMA ParseExists ==
  ASSUME NEW side, NEW a, NEW q, NEW m \in Nat
  PROVE  \E f : IsParse(f, side, a, q, m)
<1> DEFINE Bad == {n \in Nat : ~ \E f : IsParse(f, side, a, q, n)}
<1>1. SUFFICES ASSUME Bad # {} PROVE FALSE
  OBVIOUS
<1>2. PICK n \in Bad : \A k \in Bad : n <= k
  <2>1. Bad \subseteq Nat
    OBVIOUS
  <2> HIDE DEF Bad
  <2> QED BY <1>1, <2>1, LeastNat
<1>3. n \in Nat /\ ~ \E f : IsParse(f, side, a, q, n)
  OBVIOUS
<1>4. CASE n = 0
  <2> DEFINE g == [k \in 0 .. 0 |-> Start(a)]
  <2>1. IsParse(g, side, a, q, 0)
    BY DEF IsParse
  <2> QED BY <1>3, <1>4, <2>1
<1>5. CASE n # 0
  <2>1. n - 1 \in Nat /\ ~ (n <= n - 1)
    BY <1>3, <1>5
  <2>2. PICK f : IsParse(f, side, a, q, n - 1)
    BY <1>2, <2>1
  <2> DEFINE g == [k \in 0 .. n |-> IF k = n THEN ParseNext(f[n - 1], side, q[n]) ELSE f[k]]
  <2>3. \A k \in 0 .. n : g[k] = IF k = 0 THEN Start(a) ELSE ParseNext(g[k - 1], side, q[k])
    <3>1. SUFFICES ASSUME NEW k \in 0 .. n PROVE g[k] = IF k = 0 THEN Start(a) ELSE ParseNext(g[k - 1], side, q[k])
      OBVIOUS
    <3>2. CASE k = n
      <4>1. g[k] = ParseNext(f[n - 1], side, q[n]) /\ g[k - 1] = f[n - 1]
        BY <3>2, <2>1, <1>3
      <4> QED BY <4>1, <3>2, <1>5
    <3>3. CASE k # n
      <4>1. k \in 0 .. (n - 1) /\ g[k] = f[k] /\ (k # 0 => g[k - 1] = f[k - 1])
        BY <3>3, <1>3
      <4>2. f[k] = IF k = 0 THEN Start(a) ELSE ParseNext(f[k - 1], side, q[k])
        BY <2>2, <4>1 DEF IsParse
      <4> QED BY <4>1, <4>2
    <3> QED BY <3>2, <3>3
  <2>4. g = [k \in 0 .. n |-> IF k = 0 THEN Start(a) ELSE ParseNext(g[k - 1], side, q[k])]
    <3> HIDE DEF g
    <3>1. g = [k \in 0 .. n |-> g[k]]
      BY DEF g
    <3> QED BY <3>1, <2>3
  <2>5. IsParse(g, side, a, q, n)
    <3> HIDE DEF g
    <3> QED BY <2>4 DEF IsParse
  <2> QED BY <1>3, <2>5
<1> QED BY <1>4, <1>5

\* ParseAll is the last of them.
LEMMA ParseAllIs ==
  ASSUME NEW side, NEW a, NEW q, Len(q) \in Nat
  PROVE  \E f : /\ f[0] = Start(a) /\ ParseAll(side, a, q) = f[Len(q)]
                /\ \A n \in 1 .. Len(q) : f[n] = ParseNext(f[n - 1], side, q[n])
<1> DEFINE P(f) == f = [n \in 0 .. Len(q) |-> IF n = 0 THEN [x |-> Parser, pass |-> <<>>, att |-> a] ELSE ParseNext(f[n - 1], side, q[n])]
           h == CHOOSE f : P(f)
<1>1. \E f : P(f)
  <2>1. PICK f : IsParse(f, side, a, q, Len(q))
    BY ParseExists
  <2>2. P(f)
    BY <2>1 DEF IsParse, Start
  <2> QED BY <2>2
<1>2. P(h)
  <2> HIDE DEF P
  <2> QED BY <1>1
<1>3. ParseAll(side, a, q) = h[Len(q)]
  BY DEF ParseAll
<1>4. h[0] = Start(a) /\ \A n \in 1 .. Len(q) : h[n] = ParseNext(h[n - 1], side, q[n])
  <2> HIDE DEF h
  <2> QED BY <1>2 DEF Start
<1> HIDE DEF h
<1> QED BY <1>3, <1>4

IsResult(r) == r = [x |-> r.x, pass |-> r.pass, att |-> r.att]

\* After a packet that raised nothing is parsed.
LEMMA ParseNextIs ==
  ASSUME NEW r, IsResult(r), NEW side, NEW p
  PROVE  /\ IsResult(ParseNext(r, side, p))
         /\ r.x.raised # None => ParseNext(r, side, p) = r
<1> DEFINE y == Parse(r.x, side, p)
           z == Reaches(r.att, side, p, y.out)
<1>1. ParseNext(r, side, p) =
        IF r.x.raised # None THEN r
        ELSE IF y.raised # None THEN [r EXCEPT !.x = y]
        ELSE [x |-> y, pass |-> IF y.out = "pass" THEN Append(r.pass, p) ELSE r.pass, att |-> z]
  BY DEF ParseNext
<1> HIDE DEF y, z
<1>2. CASE r.x.raised # None
  BY <1>1, <1>2
<1>3. CASE r.x.raised = None /\ y.raised # None
  <2>1. ParseNext(r, side, p) = [r EXCEPT !.x = y]
    BY <1>1, <1>3
  <2>2. [r EXCEPT !.x = y] = [x |-> y, pass |-> r.pass, att |-> r.att]
    BY DEF IsResult
  <2> QED BY <1>3, <2>1, <2>2 DEF IsResult
<1>4. CASE r.x.raised = None /\ y.raised = None
  BY <1>1, <1>4 DEF IsResult
<1> QED BY <1>2, <1>3, <1>4

\* Nothing is parsed once the parser has raised.
LEMMA ParseRaised ==
  ASSUME NEW side, NEW a, NEW q, Len(q) \in Nat, ssh.raised # None
  PROVE  ParseAll(side, a, q) = Start(a)
<1>1. PICK f : /\ f[0] = Start(a) /\ ParseAll(side, a, q) = f[Len(q)]
               /\ \A n \in 1 .. Len(q) : f[n] = ParseNext(f[n - 1], side, q[n])
  BY ParseAllIs
<1>2. IsResult(Start(a)) /\ Start(a).x.raised # None
  BY DEF Start, Parser, IsResult
<1> DEFINE Bad == {n \in 0 .. Len(q) : f[n] # Start(a)}
<1>3. Bad = {}
  <2> SUFFICES ASSUME Bad # {} PROVE FALSE
    OBVIOUS
  <2>1. PICK n \in Bad : \A k \in Bad : n <= k
    <3>1. Bad \subseteq Nat
      OBVIOUS
    <3> HIDE DEF Bad
    <3> QED BY <3>1, LeastNat
  <2>2. n \in 1 .. Len(q) /\ n - 1 \in 0 .. Len(q) /\ ~ (n <= n - 1)
    BY <1>1
  <2>3. f[n - 1] = Start(a)
    BY <2>1, <2>2
  <2>4. f[n] = Start(a)
    BY <1>1, <1>2, <2>2, <2>3, ParseNextIs
  <2> QED BY <2>1, <2>4
<1> QED BY <1>1, <1>3

\* ParseAll of one packet.
LEMMA ParseOne ==
  ASSUME NEW side, NEW a, NEW p
  PROVE  ParseAll(side, a, <<p>>) = ParseNext(Start(a), side, p)
<1>1. Len(<<p>>) = 1 /\ <<p>>[1] = p
  OBVIOUS
<1>2. ASSUME NEW q, Len(q) = 1, q[1] = p PROVE ParseAll(side, a, q) = ParseNext(Start(a), side, p)
  <2>1. Len(q) \in Nat
    BY <1>2
  <2>2. PICK f : /\ f[0] = Start(a) /\ ParseAll(side, a, q) = f[Len(q)]
                 /\ \A n \in 1 .. Len(q) : f[n] = ParseNext(f[n - 1], side, q[n])
    BY <2>1, ParseAllIs
  <2>3. f[1] = ParseNext(f[0], side, q[1])
    BY <1>2, <2>2
  <2> QED BY <1>2, <2>2, <2>3
<1> QED BY <1>1, <1>2

\* Packets of the guest.
LEMMA GuestPacketsParsed ==
  ASSUME ParserSound(Parser), ssh.raised = None, NEW u, NEW h, NEW D, Conf(All(ssh.chs), u, h, D),
         NEW a, Agrees(All(ssh.chs), a), PeersKnown(a), NEW q, Len(q) \in Nat,
         DOMAIN D \subseteq Nat \ {0}, D = [j \in DOMAIN D |-> D[j]],
         \A i \in 1 .. Len(q) : i \in DOMAIN D /\ D[i] = q[i]
  PROVE  LET r == ParseAll("CLIENT", a, q)
         IN  /\ ParserSound(r.x) /\ r.att \in AttState /\ PeersKnown(r.att)
             /\ r.x.raised = None => /\ Conf(All(r.x.chs), u, h, Behind(D, Len(q))) /\ Agrees(All(r.x.chs), r.att)
                                     /\ Len(q) # 0 => r.pass # <<>>
<1>1. PICK f : /\ f[0] = Start(a) /\ ParseAll("CLIENT", a, q) = f[Len(q)]
               /\ \A n \in 1 .. Len(q) : f[n] = ParseNext(f[n - 1], "CLIENT", q[n])
  BY ParseAllIs
<1> DEFINE Good(n) == /\ IsResult(f[n]) /\ ParserSound(f[n].x) /\ f[n].att \in AttState /\ PeersKnown(f[n].att)
                      /\ f[n].x.raised = None =>
                           /\ Conf(All(f[n].x.chs), u, h, Behind(D, n)) /\ Agrees(All(f[n].x.chs), f[n].att)
                           /\ f[n].pass \in Seq(DownPackets) /\ (n # 0 => f[n].pass # <<>>)
           Bad == {n \in 0 .. Len(q) : ~ Good(n)}
<1>2. Good(0)
  <2>1. f[0].x = Parser /\ f[0].att = a /\ f[0].pass = <<>> /\ IsResult(f[0]) /\ Parser.chs = ssh.chs
    BY <1>1 DEF Start, IsResult, Parser
  <2>2. Behind(D, 0) = D
    BY AllBehind
  <2>3. a \in AttState /\ <<>> \in Seq(DownPackets)
    BY DEF Agrees
  <2> QED BY <2>1, <2>2, <2>3
<1>3. ASSUME NEW n \in 1 .. Len(q), Good(n - 1) PROVE Good(n)
  <2> DEFINE x == f[n - 1].x
             g == f[n - 1].pass
             b == f[n - 1].att
  <2>1. f[n] = ParseNext(f[n - 1], "CLIENT", q[n]) /\ f[n - 1] = [x |-> x, pass |-> g, att |-> b]
    BY <1>1, <1>3 DEF IsResult
  <2>2. IsResult(f[n])
    BY <1>3, <2>1, ParseNextIs
  <2>3. CASE x.raised # None
    <3>1. f[n] = f[n - 1]
      BY <1>3, <2>1, <2>3, ParseNextIs
    <3> QED BY <1>3, <2>3, <3>1
  <2>4. CASE x.raised = None
    <3>1. /\ ParserSound(x) /\ Conf(All(x.chs), u, h, Behind(D, n - 1)) /\ Agrees(All(x.chs), b) /\ PeersKnown(b)
          /\ g \in Seq(DownPackets)
      BY <1>3, <2>4
    <3>2. n - 1 \in Nat /\ (n - 1) + 1 = n /\ n \in DOMAIN D /\ DOMAIN D \subseteq Nat
      OBVIOUS
    <3>3. Less(Behind(D, n), Behind(D, n - 1), n) /\ Behind(D, n - 1)[n] = q[n]
      <4>1. Less(Behind(D, (n - 1) + 1), Behind(D, n - 1), (n - 1) + 1) /\ Behind(D, n - 1)[(n - 1) + 1] = D[(n - 1) + 1]
        BY <3>2, OneBehind
      <4> QED BY <3>2, <4>1
    <3>4. q[n] \in DownPackets
      <4>1. n \in DOMAIN Behind(D, n - 1)
        BY <3>3 DEF Less
      <4> QED BY <3>1, <3>3, <4>1 DEF Conf, Typed
    <3> HIDE DEF x, g, b
    <3>5. LET s == ParseNext([x |-> x, pass |-> g, att |-> b], "CLIENT", Behind(D, n - 1)[n])
         IN  /\ ParserSound(s.x) /\ s.att \in AttState /\ PeersKnown(s.att)
             /\ s.x.raised = None => /\ s.pass = Append(g, Behind(D, n - 1)[n])
                                     /\ Conf(All(s.x.chs), u, h, Behind(D, n)) /\ Agrees(All(s.x.chs), s.att)
      BY <2>4, <3>1, <3>3, GuestPacketParsed
    <3>6. f[n] = ParseNext([x |-> x, pass |-> g, att |-> b], "CLIENT", Behind(D, n - 1)[n])
      BY <2>1, <3>3
    <3>7. Append(g, q[n]) \in Seq(DownPackets) /\ Append(g, q[n]) # <<>>
      BY <3>1, <3>4
    <3> QED BY <2>2, <3>3, <3>5, <3>6, <3>7
  <2> QED BY <2>3, <2>4
<1>4. Bad = {}
  <2> SUFFICES ASSUME Bad # {} PROVE FALSE
    OBVIOUS
  <2>1. PICK n \in Bad : \A k \in Bad : n <= k
    <3>1. Bad \subseteq Nat
      OBVIOUS
    <3> HIDE DEF Bad
    <3> QED BY <3>1, LeastNat
  <2>2. n \in 0 .. Len(q) /\ ~ Good(n)
    OBVIOUS
  <2> HIDE DEF Good
  <2>3. n \in 1 .. Len(q) /\ n - 1 \in 0 .. Len(q) /\ ~ (n <= n - 1)
    BY <1>2, <2>2
  <2>4. Good(n - 1)
    BY <2>1, <2>3
  <2> QED BY <1>3, <2>2, <2>3, <2>4
<1>5. Good(Len(q))
  BY <1>4
<1> QED BY <1>1, <1>5

\* Delayed packets of the attacker.
LEMMA OpensParsed ==
  ASSUME ParserSound(Parser), ssh.raised = None, NEW U \in Seq(UpPackets), NEW h, NEW d, Conf(All(ssh.chs), U, h, d),
         NEW a, Agrees(All(ssh.chs), a), PeersKnown(a), NEW q, DelayedOpens(q, All(ssh.chs), a)
  PROVE  LET r == ParseAll("SERVER", a, q)
         IN  /\ ParserSound(r.x) /\ r.x.raised = None /\ PeersKnown(r.att) /\ Agrees(All(r.x.chs), r.att)
             /\ r.pass \in Seq(UpPackets) /\ Conf(All(r.x.chs), U \o r.pass, h, d)
<1>1. q \in Seq(Requests) /\ Len(q) \in Nat
  BY DEF DelayedOpens
<1>2. PICK f : /\ f[0] = Start(a) /\ ParseAll("SERVER", a, q) = f[Len(q)]
               /\ \A n \in 1 .. Len(q) : f[n] = ParseNext(f[n - 1], "SERVER", q[n])
  BY <1>1, ParseAllIs
<1> DEFINE Good(n) == /\ IsResult(f[n]) /\ ParserSound(f[n].x) /\ f[n].x.raised = None
                      /\ PeersKnown(f[n].att) /\ Agrees(All(f[n].x.chs), f[n].att)
                      /\ f[n].pass \in Seq(UpPackets) /\ Conf(All(f[n].x.chs), U \o f[n].pass, h, d)
                      /\ \A i \in DOMAIN q : i > n => /\ f[n].att[q[i].ch].st = "opening"
                                                      /\ \A k \in All(f[n].x.chs) : k.serverID # q[i].ch
           Bad == {n \in 0 .. Len(q) : ~ Good(n)}
<1>3. Good(0)
  <2>1. f[0].x = Parser /\ f[0].att = a /\ f[0].pass = <<>> /\ IsResult(f[0]) /\ Parser.chs = ssh.chs
        /\ Parser.raised = None
    BY <1>2 DEF Start, IsResult, Parser
  <2>2. <<>> \in Seq(UpPackets) /\ U \o <<>> = U
    OBVIOUS
  <2> QED BY <2>1, <2>2 DEF DelayedOpens
<1>4. ASSUME NEW n \in 1 .. Len(q), Good(n - 1) PROVE Good(n)
  <2> DEFINE x == f[n - 1].x
             g == f[n - 1].pass
             b == f[n - 1].att
             p == q[n]
             V == U \o g
             e == Len(V) + 1
             V2 == Append(V, p)
  <2>1. f[n] = ParseNext(f[n - 1], "SERVER", q[n]) /\ f[n - 1] = [x |-> x, pass |-> g, att |-> b]
    BY <1>2, <1>4 DEF IsResult
  <2>2. IsResult(f[n])
    BY <1>4, <2>1, ParseNextIs
  <2>3. /\ ParserSound(x) /\ x.raised = None /\ Conf(All(x.chs), V, h, d) /\ Agrees(All(x.chs), b) /\ PeersKnown(b)
        /\ g \in Seq(UpPackets)
        /\ \A i \in DOMAIN q : i > n - 1 => b[q[i].ch].st = "opening" /\ \A k \in All(x.chs) : k.serverID # q[i].ch
    BY <1>4
  <2>4. /\ n \in DOMAIN q /\ p \in Requests /\ p.t = "open" /\ \A i \in DOMAIN q : i # n => q[i].ch # p.ch
        /\ DOMAIN q \subseteq Nat /\ \A i \in DOMAIN q : q[i].ch \in Chans
    <3>1. n \in DOMAIN q /\ DOMAIN q = 1 .. Len(q)
      BY <1>1
    <3>2. \A i \in DOMAIN q : q[i] \in Requests
      BY <1>1
    <3>3. \A i \in DOMAIN q : q[i].t = "open" /\ \A j \in DOMAIN q : q[i].ch = q[j].ch => i = j
      BY DEF DelayedOpens
    <3>4. \A i \in DOMAIN q : q[i].ch \in Chans
      BY <3>2 DEF Requests
    <3> QED BY <3>1, <3>2, <3>3, <3>4
  <2>5. b[p.ch].st = "opening" /\ \A k \in All(x.chs) : k.serverID # p.ch
    BY <1>1, <2>3, <2>4
  <2>6. p \in UpPackets /\ V \in Seq(UpPackets) /\ More(V2, V, e, p) /\ U \o Append(g, p) = V2
    <3>1. p \in UpPackets /\ V \in Seq(UpPackets)
      BY <2>3, <2>4 DEF UpPackets
    <3> HIDE DEF p, g
    <3>2. U \o Append(g, p) = V2
      <4>1. /\ Append(g, p) = g \o <<p>> /\ V2 = V \o <<p>>
            /\ g \in Seq(UpPackets) /\ <<p>> \in Seq(UpPackets)
        BY <2>3, <3>1, AppendIsConcat
      <4> QED BY <4>1, ConcatAssociative
    <3> HIDE DEF V
    <3>3. More(V2, V, e, p)
      BY <3>1 DEF More
    <3> QED BY <3>1, <3>2, <3>3 DEF V
  <2> HIDE DEF x, g, b, V, V2, e, p
  <2>7. LET s == ParseNext([x |-> x, pass |-> g, att |-> b], "SERVER", p)
         IN  /\ ParserSound(s.x) /\ s.x.raised = None /\ PeersKnown(s.att) /\ Agrees(All(s.x.chs), s.att)
             /\ \/ s.pass = g /\ Conf(All(s.x.chs), V, h, d)
                \/ s.pass = Append(g, p) /\ Conf(All(s.x.chs), V2, h, d)
             /\ \A c \in Chans : c # p.ch =>
                  s.att[c] = b[c] /\ \A k \in All(s.x.chs) : k.serverID = c => k \in All(x.chs)
    <3>1. ParserSound(x) /\ x.raised = None /\ Conf(All(x.chs), V, h, d) /\ Agrees(All(x.chs), b) /\ PeersKnown(b)
      BY <2>3
    <3>2. p \in Requests /\ p.t = "open" /\ b[p.ch].st = "opening" /\ \A k \in All(x.chs) : k.serverID # p.ch
      BY <2>4, <2>5
    <3>3. More(V2, V, e, p)
      BY <2>6
    <3> QED BY <3>1, <3>2, <3>3, OpenParsed, Zenon
  <2>8. f[n] = ParseNext([x |-> x, pass |-> g, att |-> b], "SERVER", p)
    BY <2>1 DEF p
  <2>9. f[n].pass \in Seq(UpPackets) /\ Conf(All(f[n].x.chs), U \o f[n].pass, h, d)
    <3>1. CASE f[n].pass = g /\ Conf(All(f[n].x.chs), V, h, d)
      BY <2>3, <3>1 DEF V
    <3>2. CASE f[n].pass = Append(g, p) /\ Conf(All(f[n].x.chs), V2, h, d)
      <4>1. Append(g, p) \in Seq(UpPackets) /\ U \o Append(g, p) = V2
        BY <2>3, <2>6
      <4> QED BY <3>2, <4>1
    <3> QED BY <2>7, <2>8, <3>1, <3>2
  <2>10. ASSUME NEW i \in DOMAIN q, i > n
         PROVE  f[n].att[q[i].ch].st = "opening" /\ \A k \in All(f[n].x.chs) : k.serverID # q[i].ch
    <3>1. q[i].ch \in Chans /\ q[i].ch # p.ch /\ i > n - 1
      BY <2>4, <2>10
    <3> QED BY <2>3, <2>7, <2>8, <3>1
  <2> QED BY <2>2, <2>7, <2>8, <2>9, <2>10
<1>5. Bad = {}
  <2> SUFFICES ASSUME Bad # {} PROVE FALSE
    OBVIOUS
  <2>1. PICK n \in Bad : \A k \in Bad : n <= k
    <3>1. Bad \subseteq Nat
      OBVIOUS
    <3> HIDE DEF Bad
    <3> QED BY <3>1, LeastNat
  <2>2. n \in 0 .. Len(q) /\ ~ Good(n)
    OBVIOUS
  <2> HIDE DEF Good
  <2>3. n \in 1 .. Len(q) /\ n - 1 \in 0 .. Len(q) /\ ~ (n <= n - 1)
    BY <1>1, <1>3, <2>2
  <2>4. Good(n - 1)
    BY <2>1, <2>3
  <2> QED BY <1>4, <2>2, <2>3, <2>4
<1>6. Good(Len(q))
  BY <1>1, <1>5
<1> QED BY <1>2, <1>6

-----------------------------------------------------------------------------
(***************************************************************************)
(* Steps of the SSH proxy.                                                 *)
(***************************************************************************)
Flags == {"auth", "connected", "delayed", "authDone", "held", "chs", "handled", "tried", "login", "entered", "logs",
          "orphans", "raised"}

\* The fields of the SSH proxy.
LEMMA FlagsAre == DOMAIN NoSsh = Flags
BY DEF NoSsh, Flags

\* Only the login of the SSH proxy moves on.
LEMMA LoginMoves ==
  ASSUME SshIInv, NEW s, DOMAIN s = DOMAIN ssh, ssh' = s, {s.auth, s.entered} \subseteq BOOLEAN,
         s.auth => s.entered, ssh.entered => s.entered,
         \A x \in {"connected", "delayed", "authDone", "held", "chs", "handled", "logs", "orphans", "raised"} : s[x] = ssh[x],
         UNCHANGED <<front, back, timer, freed, late, sent, toHost, toProxy, att, host, shell>>
  PROVE  SshIInv'
<1>1. /\ ssh'.connected = ssh.connected /\ ssh'.delayed = ssh.delayed /\ ssh'.authDone = ssh.authDone
      /\ ssh'.held = ssh.held /\ ssh'.chs = ssh.chs /\ ssh'.handled = ssh.handled /\ ssh'.logs = ssh.logs
      /\ ssh'.orphans = ssh.orphans /\ ssh'.raised = ssh.raised
  OBVIOUS
<1>2. EndsOK' /\ SshTypes'
  BY <1>1 DEF SshIInv, EndsOK, SshTypes
<1>3. Parser' = Parser
  BY <1>1 DEF Parser
<1>4. ParserSound(Parser)'
  BY <1>3 DEF SshIInv, ParserSound
<1>5. SshControl'
  BY <1>1, <1>2 DEF SshIInv, SshControl
<1>6. Relays' /\ Known' /\ Ordered'
  BY <1>1 DEF SshIInv, Relays, Known, Ordered
<1> QED BY <1>2, <1>4, <1>5, <1>6 DEF SshIInv

\* A login is under way.
LEMMA AuthRequestKeeps ==
  ASSUME SshIInv, AuthRequest
  PROVE  SshIInv'
<1> DEFINE s == [ssh EXCEPT !.auth = FALSE, !.login = "asked", !.tried = @ + 1]
<1>1. ssh' = s /\ UNCHANGED <<front, back, timer, freed, late, sent, toHost, toProxy, att, host, shell>>
  BY DEF AuthRequest, ends
<1>2. DOMAIN ssh = Flags /\ ssh.entered \in BOOLEAN
  BY FlagsAre DEF SshIInv, SshTypes
<1>3. DOMAIN s = DOMAIN ssh /\ s.auth = FALSE /\ s.entered = ssh.entered
  BY <1>2 DEF Flags
<1>4. \A x \in {"connected", "delayed", "authDone", "held", "chs", "handled", "logs", "orphans", "raised"} : s[x] = ssh[x]
  BY <1>2 DEF Flags
<1> HIDE DEF s
<1> QED BY <1>1, <1>2, <1>3, <1>4, LoginMoves

\* A login that failed.
LEMMA AuthFailsKeeps ==
  ASSUME SshIInv, AuthFails
  PROVE  SshIInv'
<1> DEFINE s == [ssh EXCEPT !.login = "failed"]
<1>1. ssh' = s /\ UNCHANGED <<front, back, timer, freed, late, sent, toHost, toProxy, att, host, shell>>
  BY DEF AuthFails, ends
<1>2. DOMAIN ssh = Flags /\ {ssh.entered, ssh.auth} \subseteq BOOLEAN /\ (ssh.auth => ssh.entered)
  BY FlagsAre DEF SshIInv, SshTypes, SshControl
<1>3. DOMAIN s = DOMAIN ssh /\ s.auth = ssh.auth /\ s.entered = ssh.entered
  BY <1>2 DEF Flags
<1>4. \A x \in {"connected", "delayed", "authDone", "held", "chs", "handled", "logs", "orphans", "raised"} : s[x] = ssh[x]
  BY <1>2 DEF Flags
<1> HIDE DEF s
<1> QED BY <1>1, <1>2, <1>3, <1>4, LoginMoves

\* A guest nothing has been said to.
LEMMA NothingSaid ==
  ASSUME NEW h \in HostState, \A b \in Chans : h[b] = NoChannel
  PROVE  Conf({}, <<>>, h, <<>>)
<1>1. \A b \in Chans : h[b].st = "free"
  BY DEF NoChannel
<1>2. DOMAIN <<>> = {}
  OBVIOUS
<1> QED BY <1>1, <1>2 DEF Conf, KnownChannels, Typed, Confirms, Failures, DataAndCloses, UpOpens, UpCloses, HostConnecting,
  HostOpen, HostClosed, PeersDiffer, Linked

\* What the SSH proxy is given once both ends are in.
Login(s) ==
  /\ DOMAIN s = DOMAIN ssh /\ s.auth = TRUE /\ s.entered = TRUE
  /\ \A x \in {"connected", "delayed", "authDone", "held", "chs", "handled", "logs", "orphans", "raised"} : s[x] = ssh[x]

\* authenticateBackend, with the attacker in and the backend secure: what was delayed is parsed.
LEMMA BothIn ==
  ASSUME SshIInv, NEW s, Login(s), AuthenticateBackend(s, TRUE), back' = "secure", back \in {"up", "secure"},
         freed = "u" => late, UNCHANGED <<freed, late, sent, toProxy, host, shell>>
  PROVE  SshIInv'
<1> DEFINE r == ParseAll("SERVER", att, s.delayed)
           U == Append(toHost, [t |-> "auth"])
           D == ssh.held \o toProxy
<1>1. /\ DOMAIN s = Flags /\ s.auth = TRUE /\ s.entered = TRUE /\ s.connected = ssh.connected /\ s.delayed = ssh.delayed
      /\ s.authDone = ssh.authDone /\ s.held = ssh.held /\ s.chs = ssh.chs /\ s.handled = ssh.handled
      /\ s.logs = ssh.logs /\ s.orphans = ssh.orphans /\ s.raised = ssh.raised
  BY FlagsAre DEF SshIInv, SshTypes, Login
<1>2. /\ toHost' = toHost \o <<[t |-> "auth"]>> \o r.pass
      /\ timer' = r.x.timer /\ att' = r.att /\ front' = IF r.x.raised = None THEN front ELSE Closing(front)
      /\ ssh' = IF r.x.raised # None THEN [Parsed(r, s) EXCEPT !.connected = TRUE]
                ELSE [Parsed(r, s) EXCEPT !.connected = TRUE, !.delayed = <<>>, !.authDone = TRUE,
                                          !.handled = @ + Len(s.delayed)]
  BY <1>1 DEF AuthenticateBackend
<1>3. toHost \in Seq(UpPackets) /\ [t |-> "auth"] \in UpPackets /\ U \in Seq(UpPackets) /\ More(U, toHost, Len(toHost) + 1, [t |-> "auth"])
  BY DEF SshIInv, SshTypes, UpPackets, More
<1>4. Conf(All(ssh.chs), toHost, host, D)
  <2>1. CASE back = "secure"
    BY <2>1 DEF SshIInv, Relays
  <2>2. CASE back = "up"
    <3>1. ssh.chs = <<>> /\ toHost = <<>> /\ toProxy = <<>> /\ ssh.held = <<>> /\ \A b \in Chans : host[b] = NoChannel
      BY <2>2 DEF SshIInv, SshControl
    <3>2. All(ssh.chs) = {} /\ D = <<>>
      BY <3>1 DEF All
    <3> QED BY <3>1, <3>2, NothingSaid DEF SshIInv, SshTypes
  <2> QED BY <2>1, <2>2
<1>5. Conf(All(ssh.chs), U, host, D)
  <2> HIDE DEF U, D
  <2>1. [t |-> "auth"].t \notin {"open", "close"}
    OBVIOUS
  <2> QED BY <1>3, <1>4, <2>1, AddedUp
<1>6. /\ ParserSound(Parser) /\ EndsOK /\ SshTypes /\ SshControl /\ Ordered
  BY DEF SshIInv
<1>7. CASE ssh.raised = None
  <2>1. Agrees(All(ssh.chs), att) /\ DelayedOpens(ssh.delayed, All(ssh.chs), att) /\ PeersKnown(att)
    BY <1>7 DEF SshIInv, Known, SshTypes
  <2>2. /\ ParserSound(r.x) /\ r.x.raised = None /\ PeersKnown(r.att) /\ Agrees(All(r.x.chs), r.att)
        /\ r.pass \in Seq(UpPackets) /\ Conf(All(r.x.chs), U \o r.pass, host, D)
    <3> HIDE DEF U, D
    <3> QED BY <1>1, <1>3, <1>5, <1>6, <1>7, <2>1, OpensParsed
  <2> HIDE DEF r
  <2>3. toHost' = U \o r.pass /\ toHost' \in Seq(UpPackets)
    <3>1. U = toHost \o <<[t |-> "auth"]>>
      BY <1>3
    <3> HIDE DEF U
    <3> QED BY <1>2, <1>3, <2>2, <3>1
  <2>4. /\ ssh' = [Parsed(r, s) EXCEPT !.connected = TRUE, !.delayed = <<>>, !.authDone = TRUE,
                                       !.handled = @ + Len(s.delayed)]
        /\ front' = front
    BY <1>2, <2>2
  <2>5. /\ DOMAIN ssh' = Flags /\ ssh'.auth = TRUE /\ ssh'.entered = TRUE /\ ssh'.connected = TRUE /\ ssh'.authDone = TRUE
        /\ ssh'.delayed = <<>> /\ ssh'.held = ssh.held /\ ssh'.handled = ssh.handled + Len(ssh.delayed)
        /\ ssh'.chs = r.x.chs /\ ssh'.logs = r.x.logs /\ ssh'.orphans = r.x.orphans /\ ssh'.raised = r.x.raised
    <3>1. /\ DOMAIN Parsed(r, s) = Flags /\ Parsed(r, s).chs = r.x.chs /\ Parsed(r, s).logs = r.x.logs
          /\ Parsed(r, s).orphans = r.x.orphans /\ Parsed(r, s).raised = r.x.raised
          /\ \A x \in Flags \ {"chs", "logs", "orphans", "raised"} : Parsed(r, s)[x] = s[x]
      BY <1>1 DEF Parsed, Flags
    <3> DEFINE z == Parsed(r, s)
    <3> HIDE DEF z
    <3>2. ssh' = [z EXCEPT !.connected = TRUE, !.delayed = <<>>, !.authDone = TRUE, !.handled = @ + Len(s.delayed)]
      BY <2>4 DEF z
    <3>3. /\ DOMAIN z = Flags /\ z.chs = r.x.chs /\ z.logs = r.x.logs /\ z.orphans = r.x.orphans /\ z.raised = r.x.raised
          /\ z.auth = s.auth /\ z.entered = s.entered /\ z.held = s.held /\ z.handled = s.handled
      BY <3>1 DEF z, Flags
    <3> QED BY <1>1, <3>2, <3>3 DEF Flags
  <2>6. EndsOK'
    BY <1>2, <1>6, <2>2, <2>4 DEF EndsOK, ParserSound, ParserState
  <2>7. SshTypes'
    <3>1. r.att \in AttState
      BY <2>2 DEF Agrees
    <3>2. DOMAIN NoSsh = Flags
      BY FlagsAre
    <3>3. Len(ssh.delayed) \in Nat
      BY <1>6 DEF SshTypes
    <3>4. DOMAIN ssh' = DOMAIN NoSsh' /\ {ssh'.auth, ssh'.connected, ssh'.authDone, ssh'.entered} \subseteq BOOLEAN
      BY <2>5, <3>2 DEF NoSsh
    <3>5. ssh'.delayed \in Seq(Requests) /\ ssh'.held \in Seq(DownPackets) /\ ssh'.handled \in Nat
      BY <1>6, <2>5, <3>3 DEF SshTypes
    <3>6. host' \in HostState /\ att' \in AttState /\ PeersKnown(att') /\ DOMAIN shell' = {"st", "user"}
          /\ shell'.st \in {"boot", "used"} /\ toProxy' \in Seq(DownPackets)
      BY <1>2, <1>6, <2>2, <3>1 DEF SshTypes
    <3> QED BY <2>3, <3>4, <3>5, <3>6 DEF SshTypes
  <2>8. ParserSound(Parser)'
    <3>1. Parser' = [chs |-> r.x.chs, logs |-> r.x.logs, orphans |-> r.x.orphans, timer |-> r.x.timer, raised |-> r.x.raised, out |-> "drop"]
      BY <1>2, <2>5 DEF Parser
    <3> QED BY <2>2, <3>1 DEF ParserSound, ParserState
  <2>9. SshControl'
    BY <1>6, <2>2, <2>4, <2>5 DEF SshControl
  <2>10. Relays'
    BY <2>2, <2>3, <2>5 DEF Relays
  <2>11. Known'
    <3>1. DelayedOpens(<<>>, All(r.x.chs), r.att)
      BY DEF DelayedOpens
    <3> QED BY <1>2, <2>2, <2>5, <3>1 DEF Known
  <2>12. Ordered'
    <3>1. Len(ssh.delayed) \in Nat /\ ssh.handled \in Nat
      BY <1>6 DEF SshTypes
    <3> QED BY <1>6, <2>5, <3>1 DEF Ordered
  <2> QED BY <2>6, <2>7, <2>8, <2>9, <2>10, <2>11, <2>12 DEF SshIInv
<1>8. CASE ssh.raised # None
  <2>1. r = Start(att) /\ Len(s.delayed) \in Nat
    <3>1. Len(s.delayed) \in Nat
      BY <1>1, <1>6 DEF SshTypes
    <3> QED BY <1>8, <3>1, ParseRaised
  <2>2. r.x = Parser /\ r.pass = <<>> /\ r.att = att /\ r.x.raised = ssh.raised /\ r.x.chs = ssh.chs /\ r.x.logs = ssh.logs
        /\ r.x.orphans = ssh.orphans /\ r.x.timer = timer
    <3> HIDE DEF r
    <3> QED BY <2>1 DEF Start, Parser
  <2> HIDE DEF r
  <2>3. toHost' = U /\ toHost' \in Seq(UpPackets)
    BY <1>2, <1>3, <2>2
  <2>4. ssh' = [Parsed(r, s) EXCEPT !.connected = TRUE] /\ front' = Closing(front)
    BY <1>2, <1>8, <2>2
  <2>5. ssh.connected /\ back = "secure"
    BY <1>6, <1>8 DEF SshControl
  <2>6. /\ DOMAIN ssh' = Flags /\ ssh'.auth = TRUE /\ ssh'.entered = TRUE /\ ssh'.connected = TRUE
        /\ ssh'.delayed = ssh.delayed /\ ssh'.authDone = ssh.authDone
        /\ ssh'.held = ssh.held /\ ssh'.chs = ssh.chs /\ ssh'.handled = ssh.handled
        /\ ssh'.logs = ssh.logs /\ ssh'.orphans = ssh.orphans /\ ssh'.raised = ssh.raised
    <3>1. ssh' = [[s EXCEPT !.chs = r.x.chs, !.logs = r.x.logs, !.orphans = r.x.orphans, !.raised = r.x.raised]
                    EXCEPT !.connected = TRUE]
      BY <2>4 DEF Parsed
    <3> QED BY <1>1, <2>2, <3>1 DEF Flags
  <2>7. EndsOK'
    BY <1>2, <1>6, <2>2, <2>4 DEF EndsOK, Closing
  <2>8. SshTypes'
    <3>1. DOMAIN ssh' = DOMAIN NoSsh'
      BY <2>6, FlagsAre DEF NoSsh
    <3> QED BY <1>2, <1>6, <2>2, <2>3, <2>5, <2>6, <3>1 DEF SshTypes
  <2>9. ParserSound(Parser)'
    <3>1. Parser' = Parser
      BY <1>2, <2>2, <2>6 DEF Parser
    <3> QED BY <1>6, <3>1 DEF ParserSound
  <2>10. SshControl'
    BY <1>2, <1>6, <1>8, <2>4, <2>5, <2>6 DEF SshControl, EndsOK, Closing
  <2>11. Relays'
    BY <1>5, <2>3, <2>6 DEF Relays
  <2>12. Known' /\ Ordered'
    BY <1>6, <1>8, <2>6 DEF Known, Ordered
  <2> QED BY <2>7, <2>8, <2>9, <2>10, <2>11, <2>12 DEF SshIInv
<1> QED BY <1>7, <1>8

\* _cbFinishedAuth: the login is done, before the backend is secure or after.
LEMMA FinishedAuthKeeps ==
  ASSUME SshIInv, FinishedAuth
  PROVE  SshIInv'
<1> DEFINE s == [ssh EXCEPT !.login = "done", !.entered = TRUE, !.auth = TRUE]
<1>1. /\ front = "up" /\ AuthenticateBackend(s, back = "secure")
      /\ UNCHANGED <<back, freed, late, sent, toProxy, host, shell>>
  BY DEF FinishedAuth
<1>2. DOMAIN ssh = Flags /\ freed = "none"
  BY <1>1, FlagsAre DEF SshIInv, SshTypes, SshControl
<1>3. DOMAIN s = DOMAIN ssh /\ s.auth = TRUE /\ s.entered = TRUE
  BY <1>2 DEF Flags
<1>4. \A x \in {"connected", "delayed", "authDone", "held", "chs", "handled", "logs", "orphans", "raised"} : s[x] = ssh[x]
  BY <1>2 DEF Flags
<1> HIDE DEF s
<1>5. CASE back = "secure"
  <2>1. AuthenticateBackend(s, TRUE)
    BY <1>1, <1>5
  <2>2. Login(s)
    BY <1>3, <1>4 DEF Login
  <2> QED BY <1>1, <1>2, <1>5, <2>1, <2>2, BothIn
<1>6. CASE back # "secure"
  <2>1. ssh' = s /\ UNCHANGED <<front, back, timer, freed, late, sent, toHost, toProxy, att, host, shell>>
    BY <1>1, <1>6 DEF AuthenticateBackend
  <2> QED BY <1>3, <1>4, <2>1, LoginMoves
<1> QED BY <1>5, <1>6

\* connectionSecure of the backend.
LEMMA BackSecureKeeps ==
  ASSUME SshIInv, BackSecure
  PROVE  SshIInv'
<1>1. /\ back = "up" /\ back' = "secure" /\ AuthenticateBackend(ssh, TRUE)
      /\ UNCHANGED <<freed, late, sent, toProxy, host, shell>>
  BY DEF BackSecure
<1>2. /\ EndsOK /\ SshTypes /\ ParserSound(Parser) /\ SshControl /\ Known /\ Ordered
  BY DEF SshIInv
<1>3. CASE ssh.auth
  <2>1. ssh.auth = TRUE /\ ssh.entered = TRUE
    BY <1>2, <1>3 DEF SshTypes, SshControl
  <2>2. Login(ssh)
    BY <2>1 DEF Login
  <2>3. freed = "u" => late
    BY <1>1, <1>2 DEF SshControl, EndsOK
  <2> QED BY <1>1, <2>2, <2>3, BothIn
<1>4. CASE ~ ssh.auth
  <2>1. ssh' = ssh /\ UNCHANGED <<front, timer, freed, late, sent, toHost, toProxy, att, host, shell>>
    BY <1>1, <1>4 DEF AuthenticateBackend
  <2>2. ~ ssh.connected
    BY <1>1, <1>2 DEF SshControl
  <2>3. Relays'
    <3>1. ssh.chs = <<>> /\ toHost = <<>> /\ toProxy = <<>> /\ ssh.held = <<>> /\ \A b \in Chans : host[b] = NoChannel
      BY <1>2, <2>2 DEF SshControl
    <3>2. All(ssh.chs) = {} /\ ssh.held \o toProxy = <<>>
      BY <3>1 DEF All
    <3>3. Conf({}, <<>>, host, <<>>)
      BY <1>2, <3>1, NothingSaid DEF SshTypes
    <3> QED BY <2>1, <3>1, <3>2, <3>3 DEF Relays
  <2>4. EndsOK' /\ SshTypes' /\ Ordered'
    BY <1>1, <1>2, <2>1 DEF EndsOK, SshTypes, Ordered
  <2>5. ParserSound(Parser)'
    <3>1. Parser' = Parser
      BY <2>1 DEF Parser
    <3> QED BY <1>2, <3>1 DEF ParserSound
  <2>6. SshControl' /\ Known'
    BY <1>1, <1>2, <2>1, <2>2 DEF SshControl, Known
  <2> QED BY <2>3, <2>4, <2>5, <2>6 DEF SshIInv
<1> QED BY <1>3, <1>4

\* The attacker opens a channel of his, a being what he knows then.
Opens(p, a, c) ==
  /\ c \in Chans /\ p \in Requests /\ p.t = "open" /\ p.ch = c
  /\ att[c].st = "free" /\ a = [att EXCEPT ![c].st = "opening"]

\* An opening that is sent is of a channel the parser does not know.
LEMMA OpeningKnown ==
  ASSUME NEW p, NEW a, NEW c, Opens(p, a, c), att \in AttState, PeersKnown(att)
  PROVE  /\ a \in AttState /\ PeersKnown(a) /\ a[c].st = "opening"
         /\ \A n \in Chans : n # c => a[n] = att[n]
         /\ \A K : Agrees(K, att) => Agrees(K, a) /\ \A k \in K : k.serverID # c
<1>1. c \in Chans /\ a = [att EXCEPT ![c].st = "opening"] /\ att[c].st = "free"
  BY DEF Opens
<1>2. a \in AttState /\ a[c].st = "opening" /\ \A n \in Chans : n # c => a[n] = att[n]
  BY <1>1 DEF AttState
<1>3. PeersKnown(a)
  BY <1>1, <1>2 DEF PeersKnown
<1>4. ASSUME NEW K, Agrees(K, att) PROVE Agrees(K, a) /\ \A k \in K : k.serverID # c
  <2>1. AgreesAt(K, att[c], c)
    BY <1>1, <1>4 DEF Agrees
  <2>2. \A k \in K : k.serverID # c
    BY <1>1, <2>1 DEF AgreesAt
  <2>3. AgreesAt(K, a[c], c)
    BY <1>2, <2>2 DEF AgreesAt
  <2> QED BY <1>2, <1>4, <2>2, <2>3 DEF Agrees
<1> QED BY <1>2, <1>3, <1>4

\* A packet the attacker may send, a being what he knows then.
Sends(p, a, c) == Opens(p, a, c) \/ Asks(p, att, a, c)

\* What the attacker sends, and knows when he has sent it.
LEMMA SendingKnown ==
  ASSUME NEW p, NEW a, NEW c, Sends(p, a, c), SshTypes
  PROVE  p \in Requests /\ p \in UpPackets /\ a \in AttState /\ PeersKnown(a) /\ c \in Chans /\ att \in AttState /\ PeersKnown(att)
<1>1. att \in AttState /\ PeersKnown(att)
  BY DEF SshTypes
<1>2. CASE Opens(p, a, c)
  <2>1. p \in Requests /\ c \in Chans
    BY <1>2 DEF Opens
  <2> QED BY <1>1, <1>2, <2>1, OpeningKnown DEF UpPackets
<1>3. CASE Asks(p, att, a, c)
  <2>1. p \in Requests /\ c \in Chans
    BY <1>3 DEF Asks
  <2> QED BY <1>1, <1>3, <2>1, AskingKnown DEF UpPackets
<1> QED BY <1>2, <1>3 DEF Sends

\* The bound on the packets an attacker sends.
LEMMA OneMoreSent ==
  ASSUME EndsOK, sent < Packets, sent' = sent + 1
  PROVE  sent' \in 0 .. Packets /\ sent \in Nat
<1>1. sent \in 0 .. Packets
  BY DEF EndsOK
<1>2. Packets \in Nat
  BY ProxyAssumption
<1> QED BY <1>1, <1>2

\* A packet of the attacker waits.
LEMMA PacketDelayed ==
  ASSUME SshIInv, NEW p, NEW a, NEW c, Sends(p, a, c), p.n = sent + 1, sent < Packets,
         sent' = sent + 1, ~ ssh.connected \/ ssh.delayed # <<>>,
         ssh' = [ssh EXCEPT !.delayed = Append(@, p)], att' = a,
         UNCHANGED <<front, back, timer, freed, late, toHost, toProxy, host, shell>>
  PROVE  SshIInv'
<1>1. EndsOK /\ SshTypes /\ ParserSound(Parser) /\ SshControl /\ Relays /\ Known /\ Ordered
  BY DEF SshIInv
<1>2. /\ p \in Requests /\ p \in UpPackets /\ a \in AttState /\ PeersKnown(a) /\ c \in Chans
      /\ att \in AttState /\ PeersKnown(att)
  BY <1>1, SendingKnown
<1>3. DOMAIN ssh = Flags /\ ssh.delayed \in Seq(Requests) /\ Len(ssh.delayed) \in Nat /\ ssh.handled \in Nat
  BY <1>1, FlagsAre DEF SshTypes
<1>4. /\ DOMAIN ssh' = Flags /\ ssh'.delayed = Append(ssh.delayed, p) /\ ssh'.auth = ssh.auth /\ ssh'.connected = ssh.connected
      /\ ssh'.authDone = ssh.authDone /\ ssh'.entered = ssh.entered
      /\ ssh'.held = ssh.held /\ ssh'.chs = ssh.chs /\ ssh'.handled = ssh.handled /\ ssh'.logs = ssh.logs
      /\ ssh'.orphans = ssh.orphans /\ ssh'.raised = ssh.raised
  BY <1>3 DEF Flags
<1>5. EndsOK'
  <2>1. sent' \in 0 .. Packets
    BY <1>1, OneMoreSent
  <2> QED BY <1>1, <2>1 DEF EndsOK
<1>6. SshTypes'
  <2>1. DOMAIN ssh' = DOMAIN NoSsh'
    BY <1>4, FlagsAre DEF NoSsh
  <2>2. ssh'.delayed \in Seq(Requests)
    BY <1>2, <1>3, <1>4
  <2> QED BY <1>1, <1>2, <1>4, <2>1, <2>2 DEF SshTypes
<1>7. ParserSound(Parser)'
  <2>1. Parser' = Parser
    BY <1>4 DEF Parser
  <2> QED BY <1>1, <2>1 DEF ParserSound
<1>8. SshControl'
  BY <1>1, <1>4 DEF SshControl
<1>9. Relays'
  BY <1>1, <1>4 DEF Relays
<1>10. Ordered'
  <2>1. Len(ssh'.delayed) = Len(ssh.delayed) + 1
    BY <1>2, <1>3, <1>4
  <2>2. ASSUME NEW i \in DOMAIN ssh'.delayed PROVE ssh'.delayed[i].n = ssh'.handled + i
    <3>1. CASE i \in DOMAIN ssh.delayed
      BY <1>1, <1>2, <1>3, <1>4, <3>1 DEF Ordered
    <3>2. CASE i = Len(ssh.delayed) + 1
      BY <1>1, <1>2, <1>3, <1>4, <3>2 DEF Ordered
    <3> QED BY <1>2, <1>3, <1>4, <3>1, <3>2
  <2>3. ssh.handled + Len(ssh.delayed) = sent
    BY <1>1 DEF Ordered
  <2>4. ssh'.handled + Len(ssh'.delayed) = sent'
    BY <1>3, <1>4, <2>1, <2>3
  <2> QED BY <2>2, <2>4 DEF Ordered
<1>11. Known'
  <2> SUFFICES ASSUME ssh.raised = None, back \in {"dialing", "up", "secure"}
               PROVE  Agrees(All(ssh.chs), a) /\ DelayedOpens(Append(ssh.delayed, p), All(ssh.chs), a)
    BY <1>4 DEF Known
  <2>1. ssh.chs = <<>>
    BY <1>1 DEF SshControl
  <2>2. All(ssh.chs) = {}
    BY <2>1 DEF All
  <2>3. Agrees({}, att) /\ DelayedOpens(ssh.delayed, {}, att)
    BY <1>1, <2>2 DEF Known
  <2>4. \A n \in Chans : att[n].st \notin {"open", "closed", "peer closed"}
    BY <2>3 DEF Agrees, AgreesAt
  <2>5. Opens(p, a, c)
    BY <1>2, <2>4 DEF Asks, Sends
  <2>6. /\ p.t = "open" /\ p.ch = c /\ att[c].st = "free" /\ a[c].st = "opening"
        /\ \A n \in Chans : n # c => a[n] = att[n]
    <3>1. p.t = "open" /\ p.ch = c /\ att[c].st = "free"
      BY <2>5 DEF Opens
    <3> QED BY <1>2, <2>5, <3>1, OpeningKnown
  <2>7. Agrees({}, a)
    BY <1>2, <2>3, <2>5, OpeningKnown
  <2> DEFINE q == ssh.delayed
             z == Append(q, p)
  <2>8. \A i \in DOMAIN q : q[i].ch \in Chans /\ q[i].ch # c /\ q[i].t = "open" /\ a[q[i].ch].st = "opening"
    <3>1. \A i \in DOMAIN q : q[i] \in Requests
      BY <1>3
    <3>2. \A i \in DOMAIN q : q[i].ch \in Chans
      BY <3>1 DEF Requests
    <3> QED BY <2>3, <2>6, <3>2 DEF DelayedOpens
  <2>9. DelayedOpens(z, {}, a)
    <3>1. z \in Seq(Requests)
      BY <1>2, <1>3
    <3>2. \A i \in DOMAIN z : (i \in DOMAIN q /\ z[i] = q[i]) \/ (i = Len(q) + 1 /\ z[i] = p)
      BY <1>2, <1>3
    <3>3. \A i, j \in DOMAIN q : q[i].ch = q[j].ch => i = j
      BY <2>3 DEF DelayedOpens
    <3> HIDE DEF z, q
    <3>4. \A i \in DOMAIN z : z[i].t = "open" /\ a[z[i].ch].st = "opening"
      BY <2>6, <2>8, <3>2
    <3>5. \A i, j \in DOMAIN z : z[i].ch = z[j].ch => i = j
      BY <2>6, <2>8, <3>2, <3>3
    <3> QED BY <3>1, <3>4, <3>5 DEF DelayedOpens
  <2> QED BY <2>2, <2>7, <2>9
<1> QED BY <1>5, <1>6, <1>7, <1>8, <1>9, <1>10, <1>11 DEF SshIInv

\* A packet of the attacker is parsed.
LEMMA PacketParsed ==
  ASSUME SshIInv, NEW p, NEW a, NEW c, Sends(p, a, c), p.n = sent + 1, sent < Packets,
         sent' = sent + 1, ssh.connected, ssh.delayed = <<>>, front = "up", NEW r, r = ParseAll("SERVER", a, <<p>>),
         ssh' = [Parsed(r, ssh) EXCEPT !.handled = @ + 1], toHost' = toHost \o r.pass, att' = r.att, timer' = r.x.timer,
         front' = IF r.x.raised = None THEN front ELSE "closing",
         UNCHANGED <<back, freed, late, toProxy, host, shell>>
  PROVE  SshIInv'
<1>1. EndsOK /\ SshTypes /\ ParserSound(Parser) /\ SshControl /\ Relays /\ Known /\ Ordered
  BY DEF SshIInv
<1>2. /\ p \in Requests /\ p \in UpPackets /\ a \in AttState /\ PeersKnown(a) /\ c \in Chans
      /\ att \in AttState /\ PeersKnown(att)
  BY <1>1, SendingKnown
<1>3. /\ DOMAIN ssh = Flags /\ ssh.handled \in Nat
      /\ toHost \in Seq(UpPackets)
  BY <1>1, FlagsAre DEF SshTypes
<1>4. r = ParseNext(Start(a), "SERVER", p)
  BY ParseOne
<1> DEFINE D == ssh.held \o toProxy
           K == All(ssh.chs)
           U2 == Append(toHost, p)
           e == Len(toHost) + 1
<1>5. More(U2, toHost, e, p)
  BY <1>3 DEF More
<1>6. /\ ParserSound(r.x) /\ r.att \in AttState /\ PeersKnown(r.att)
      /\ r.x.raised = None => ssh.raised = None /\ Agrees(All(r.x.chs), r.att)
      /\ back = "secure" =>
           \/ r.pass = <<>> /\ Conf(All(r.x.chs), toHost, host, D)
           \/ r.pass = Append(<<>>, p) /\ Conf(All(r.x.chs), U2, host, D)
      /\ r.pass = <<>> \/ r.pass = Append(<<>>, p)
  <2>1. CASE ssh.raised # None
    <3>1. IsResult(Start(a)) /\ Start(a).x = Parser /\ Start(a).pass = <<>> /\ Start(a).att = a /\ Parser.raised = ssh.raised
          /\ Parser.chs = ssh.chs
      BY DEF IsResult, Start, Parser
    <3>2. r = Start(a)
      BY <1>4, <2>1, <3>1, ParseNextIs
    <3> HIDE DEF D, U2
    <3> QED BY <1>1, <1>2, <2>1, <3>1, <3>2 DEF Relays, D
  <2>2. CASE ssh.raised = None
    <3>1. back = "secure"
      BY <1>1, <2>2 DEF SshControl
    <3> DEFINE x == Parser
               q == <<>>
    <3>2. ParserSound(x) /\ x.raised = None /\ Conf(All(x.chs), toHost, host, D) /\ Agrees(All(x.chs), att) /\ PeersKnown(att)
      BY <1>1, <2>2, <3>1 DEF Relays, Known, SshTypes, Parser
    <3>3. r = ParseNext([x |-> x, pass |-> q, att |-> a], "SERVER", p)
      BY <1>4 DEF Start
    <3>4. CASE Opens(p, a, c)
      <4>1. /\ p.t = "open" /\ a[p.ch].st = "opening" /\ Agrees(All(x.chs), a)
            /\ \A k \in All(x.chs) : k.serverID # p.ch
        <5> HIDE DEF x
        <5>1. p.t = "open" /\ p.ch = c
          BY <3>4 DEF Opens
        <5>2. a[c].st = "opening" /\ (Agrees(All(x.chs), att) => Agrees(All(x.chs), a) /\ \A k \in All(x.chs) : k.serverID # c)
          BY <1>2, <3>4, OpeningKnown
        <5> QED BY <3>2, <5>1, <5>2
      <4> HIDE DEF x, q, D, U2, e
      <4>2. LET s == ParseNext([x |-> x, pass |-> q, att |-> a], "SERVER", p)
            IN  /\ ParserSound(s.x) /\ s.x.raised = None /\ PeersKnown(s.att) /\ Agrees(All(s.x.chs), s.att)
                /\ \/ s.pass = q /\ Conf(All(s.x.chs), toHost, host, D)
                   \/ s.pass = Append(q, p) /\ Conf(All(s.x.chs), U2, host, D)
                /\ \A n \in Chans : n # p.ch =>
                     s.att[n] = a[n] /\ \A k \in All(s.x.chs) : k.serverID = n => k \in All(x.chs)
        <5>1. More(U2, toHost, e, p)
          BY <1>5
        <5>2. ParserSound(x) /\ x.raised = None /\ Conf(All(x.chs), toHost, host, D) /\ PeersKnown(a) /\ p \in Requests
          BY <1>2, <3>2
        <5> QED BY <5>1, <5>2, <4>1, OpenParsed, Zenon
      <4>3. r.att \in AttState
        BY <3>3, <4>2 DEF Agrees
      <4> QED BY <2>2, <3>3, <4>2, <4>3 DEF q
    <3>5. CASE Asks(p, att, a, c)
      <4> HIDE DEF x, q, D, U2, e
      <4>1. LET s == ParseNext([x |-> x, pass |-> q, att |-> a], "SERVER", p)
            IN  /\ ParserSound(s.x) /\ s.att = a
                /\ s.x.raised = None => Agrees(All(s.x.chs), a)
                /\ \/ s.pass = q /\ Conf(All(s.x.chs), toHost, host, D)
                   \/ s.x.raised = None /\ s.pass = Append(q, p) /\ Conf(All(s.x.chs), U2, host, D)
        BY <1>5, <3>2, <3>5, AskParsed, Zenon
      <4> QED BY <1>2, <2>2, <3>3, <4>1 DEF q
    <3> QED BY <3>4, <3>5 DEF Sends
  <2> QED BY <2>1, <2>2
<1> HIDE DEF D
<1>7. /\ DOMAIN ssh' = Flags /\ ssh'.auth = ssh.auth /\ ssh'.entered = ssh.entered /\ ssh'.connected = ssh.connected
      /\ ssh'.delayed = ssh.delayed /\ ssh'.authDone = ssh.authDone
      /\ ssh'.held = ssh.held /\ ssh'.handled = ssh.handled + 1
      /\ ssh'.chs = r.x.chs /\ ssh'.logs = r.x.logs /\ ssh'.orphans = r.x.orphans /\ ssh'.raised = r.x.raised
  BY <1>3 DEF Parsed, Flags
<1>8. toHost' \in Seq(UpPackets) /\ (r.pass = <<>> => toHost' = toHost) /\ (r.pass = Append(<<>>, p) => toHost' = U2)
  <2> DEFINE g == r.pass
  <2>1. toHost' = toHost \o g /\ (g = <<>> \/ g = Append(<<>>, p))
    BY <1>6
  <2> HIDE DEF g
  <2>2. Append(<<>>, p) = <<p>> /\ <<p>> # <<>>
    OBVIOUS
  <2>3. toHost \o <<>> = toHost /\ toHost \o <<p>> = U2 /\ U2 \in Seq(UpPackets)
    BY <1>2, <1>3
  <2>4. toHost' \in Seq(UpPackets) /\ (g = <<>> => toHost' = toHost) /\ (g = Append(<<>>, p) => toHost' = U2)
    <3> HIDE DEF U2
    <3> QED BY <1>3, <2>1, <2>2, <2>3
  <2> QED BY <2>4 DEF g
<1> HIDE DEF U2
<1>9. EndsOK'
  <2>1. sent' \in 0 .. Packets
    BY <1>1, OneMoreSent
  <2>2. timer' \in BOOLEAN
    BY <1>6 DEF ParserSound, ParserState
  <2> QED BY <1>1, <2>1, <2>2 DEF EndsOK
<1>10. SshTypes'
  <2>1. DOMAIN ssh' = DOMAIN NoSsh'
    BY <1>7, FlagsAre DEF NoSsh
  <2>2. /\ {ssh'.auth, ssh'.connected, ssh'.authDone, ssh'.entered} \subseteq BOOLEAN
        /\ ssh'.delayed \in Seq(Requests) /\ ssh'.held \in Seq(DownPackets) /\ ssh'.handled \in Nat
    <3>1. /\ {ssh.auth, ssh.connected, ssh.authDone, ssh.entered} \subseteq BOOLEAN
          /\ ssh.delayed \in Seq(Requests) /\ ssh.held \in Seq(DownPackets) /\ ssh.handled \in Nat
      BY <1>1 DEF SshTypes
    <3>2. {ssh'.auth, ssh'.connected, ssh'.authDone, ssh'.entered} \subseteq BOOLEAN
      BY <1>7, <3>1
    <3>3. ssh'.handled \in Nat
      BY <1>3, <1>7
    <3> QED BY <1>7, <3>1, <3>2, <3>3
  <2>3. toProxy' \in Seq(DownPackets) /\ host' \in HostState /\ DOMAIN shell' = {"st", "user"} /\ shell'.st \in {"boot", "used"}
    BY <1>1 DEF SshTypes
  <2> QED BY <1>6, <1>8, <2>1, <2>2, <2>3 DEF SshTypes
<1>11. ParserSound(Parser)'
  <2>1. Parser' = [chs |-> r.x.chs, logs |-> r.x.logs, orphans |-> r.x.orphans, timer |-> r.x.timer, raised |-> r.x.raised,
                   out |-> "drop"]
    BY <1>7 DEF Parser
  <2> QED BY <1>6, <2>1 DEF ParserSound, ParserState
<1>12. SshControl'
  BY <1>1, <1>6, <1>7 DEF SshControl
<1>13. Relays'
  BY <1>6, <1>7, <1>8 DEF Relays, D
<1>14. Known'
  <2>1. DelayedOpens(<<>>, All(r.x.chs), r.att)
    BY DEF DelayedOpens
  <2> QED BY <1>6, <1>7, <2>1 DEF Known
<1>15. Ordered'
  BY <1>1, <1>3, <1>7 DEF Ordered, EndsOK
<1> QED BY <1>9, <1>10, <1>11, <1>12, <1>13, <1>14, <1>15 DEF SshIInv

\* packet_buffer of the frontend.
LEMMA FrontPacketKeeps ==
  ASSUME SshIInv, NEW p, NEW a, NEW c, Sends(p, a, c), p.n = sent + 1, FrontPacket(p, a)
  PROVE  SshIInv'
<1>1. /\ front = "up" /\ sent < Packets /\ sent' = sent + 1
      /\ UNCHANGED <<back, freed, late, toProxy, host, shell>>
  BY DEF FrontPacket
<1>2. CASE ~ ssh.connected \/ ssh.delayed # <<>>
  <2>1. ssh' = [ssh EXCEPT !.delayed = Append(@, p)] /\ att' = a /\ UNCHANGED <<toHost, timer, front>>
    BY <1>2 DEF FrontPacket
  <2> QED BY <1>1, <1>2, <2>1, PacketDelayed
<1>3. CASE ~ (~ ssh.connected \/ ssh.delayed # <<>>)
  <2> DEFINE r == ParseAll("SERVER", a, <<p>>)
  <2>1. /\ ssh' = [Parsed(r, ssh) EXCEPT !.handled = @ + 1] /\ toHost' = toHost \o r.pass /\ att' = r.att
        /\ timer' = r.x.timer /\ front' = IF r.x.raised = None THEN front ELSE "closing"
    BY <1>3 DEF FrontPacket
  <2>2. r = ParseAll("SERVER", a, <<p>>)
    OBVIOUS
  <2>3. ssh.connected /\ ssh.delayed = <<>>
    BY <1>3
  <2> HIDE DEF r
  <2> QED BY <1>1, <2>1, <2>2, <2>3, PacketParsed
<1> QED BY <1>2, <1>3

\* Every packet an attacker may send.
LEMMA AttackerSendsKeeps ==
  ASSUME SshIInv, AttackerSends
  PROVE  SshIInv'
<1>1. SshTypes /\ sent \in Nat
  BY DEF SshIInv, EndsOK
<1>2. PICK c \in Chans :
        \/ /\ att[c].st = "free"
           /\ \E what \in {"session", "tcpip"} :
                FrontPacket(Packet("open", c, what), [att EXCEPT ![c].st = "opening"])
        \/ /\ att[c].st = "open"
           /\ \/ \E what \in {"shell", "sftp", "other"} : FrontPacket(Packet("request", att[c].peer, what), att)
              \/ FrontPacket(Packet("data", att[c].peer, None), att)
              \/ FrontPacket(Packet("close", att[c].peer, None), [att EXCEPT ![c].st = "closed"])
        \/ /\ att[c].st = "peer closed"
           /\ FrontPacket(Packet("close", att[c].peer, None), [att EXCEPT ![c] = NoChannel])
  BY DEF AttackerSends
<1>3. att[c].st \in {"open", "peer closed"} => att[c].peer \in Chans
  BY <1>1 DEF SshTypes, PeersKnown, AttState
<1>4. \A t \in {"open", "request", "data", "close"}, n \in Chans, w \in {"session", "tcpip", "shell", "sftp", "other", None} :
        LET p == Packet(t, n, w)
        IN  p \in Requests /\ p.t = t /\ p.ch = n /\ p.n = sent + 1
  BY <1>1 DEF Packet, Requests
<1>5. ASSUME NEW what \in {"session", "tcpip"}, att[c].st = "free",
             FrontPacket(Packet("open", c, what), [att EXCEPT ![c].st = "opening"])
      PROVE  SshIInv'
  <2> DEFINE p == Packet("open", c, what)
             a == [att EXCEPT ![c].st = "opening"]
  <2>1. Sends(p, a, c) /\ p.n = sent + 1
    BY <1>4, <1>5 DEF Opens, Sends
  <2> HIDE DEF p, a
  <2> QED BY <1>5, <2>1, FrontPacketKeeps DEF p, a
<1>6. ASSUME NEW t \in {"request", "data"}, NEW what \in {"shell", "sftp", "other", None}, att[c].st = "open",
             FrontPacket(Packet(t, att[c].peer, what), att)
      PROVE  SshIInv'
  <2> DEFINE p == Packet(t, att[c].peer, what)
  <2>1. Sends(p, att, c) /\ p.n = sent + 1
    BY <1>3, <1>4, <1>6 DEF Asks, Sends
  <2> HIDE DEF p
  <2> QED BY <1>6, <2>1, FrontPacketKeeps DEF p
<1>7. ASSUME NEW a, FrontPacket(Packet("close", att[c].peer, None), a),
             \/ att[c].st = "open" /\ a = [att EXCEPT ![c].st = "closed"]
             \/ att[c].st = "peer closed" /\ a = [att EXCEPT ![c] = NoChannel]
      PROVE  SshIInv'
  <2> DEFINE p == Packet("close", att[c].peer, None)
  <2>1. Sends(p, a, c) /\ p.n = sent + 1
    BY <1>3, <1>4, <1>7 DEF Asks, Sends
  <2> HIDE DEF p
  <2> QED BY <1>7, <2>1, FrontPacketKeeps DEF p
<1> QED BY <1>2, <1>5, <1>6, <1>7

\* The first packet of a sequence.
LEMMA TailOf ==
  ASSUME NEW S, NEW f \in Seq(S), f # <<>>
  PROVE  /\ Less(Behind(f, 1), f, 1) /\ f[1] = Head(f) /\ Head(f) \in S /\ Tail(f) \in Seq(S)
         /\ \E m, w : SameOrder(Tail(f), Behind(f, 1), m, w)
<1>1. Len(f) \in Nat /\ DOMAIN f = 1 .. Len(f) /\ 1 \in DOMAIN f /\ f = [j \in DOMAIN f |-> f[j]]
  OBVIOUS
<1>2. Less(Behind(f, 1), f, 1)
  <2>1. Behind(f, 0) = f
    BY <1>1, AllBehind
  <2>2. 0 + 1 = 1 /\ 0 \in Nat /\ 0 + 1 \in DOMAIN f /\ DOMAIN f \subseteq Nat
    BY <1>1
  <2>3. Less(Behind(f, 0 + 1), Behind(f, 0), 0 + 1)
    BY <2>2, OneBehind
  <2> QED BY <2>1, <2>2, <2>3
<1>3. f[1] = Head(f) /\ Head(f) \in S /\ Tail(f) \in Seq(S) /\ Len(Tail(f)) = Len(f) - 1
      /\ \A j \in 1 .. Len(Tail(f)) : Tail(f)[j] = f[j + 1]
  OBVIOUS
<1>4. 1 \in 0 .. Len(f)
  BY <1>1
<1>5. \E m, w : SameOrder(Tail(f), Behind(f, 1), m, w)
  BY <1>3, <1>4, BehindRenumbered
<1> QED BY <1>2, <1>3, <1>5

\* A reply comes behind what is held and on its way.
LEMMA Replied ==
  ASSUME NEW S, NEW f \in Seq(S), NEW g \in Seq(S), NEW p \in S
  PROVE  Append(g, p) \in Seq(S) /\ More(f \o Append(g, p), f \o g, Len(f \o g) + 1, p)
<1> DEFINE d == f \o g
           d2 == f \o Append(g, p)
<1>1. d \in Seq(S) /\ Len(d) \in Nat /\ DOMAIN d = 1 .. Len(d)
  OBVIOUS
<1>2. d2 = Append(d, p)
  <2>1. Append(g, p) = g \o <<p>> /\ <<p>> \in Seq(S) /\ Append(d, p) = d \o <<p>>
    BY <1>1, AppendIsConcat
  <2> QED BY <2>1, ConcatAssociative
<1> HIDE DEF d, d2
<1>3. More(d2, d, Len(d) + 1, p)
  BY <1>1, <1>2 DEF More
<1> QED BY <1>3 DEF d, d2

\* What a step of the guest leaves to be shown.
LEMMA GuestSteps ==
  ASSUME SshIInv, ssh.connected, toHost' \in Seq(UpPackets), toProxy' \in Seq(DownPackets), host' \in HostState,
         DOMAIN shell' = {"st", "user"}, shell'.st \in {"boot", "used"}, UNCHANGED <<front, back, timer, freed, late, sent, ssh, att>>,
         back = "secure" => Conf(All(ssh.chs), toHost', host', ssh.held \o toProxy')
  PROVE  SshIInv'
<1>1. EndsOK /\ SshTypes /\ ParserSound(Parser) /\ SshControl /\ Known /\ Ordered
  BY DEF SshIInv
<1>2. EndsOK' /\ SshTypes'
  BY <1>1 DEF EndsOK, SshTypes
<1>3. ParserSound(Parser)'
  <2>1. Parser' = Parser
    BY DEF Parser
  <2> QED BY <1>1, <2>1 DEF ParserSound
<1>4. SshControl'
  BY <1>1 DEF SshControl
<1>5. Relays' /\ Known' /\ Ordered'
  BY <1>1 DEF Relays, Known, Ordered
<1> QED BY <1>2, <1>3, <1>4, <1>5 DEF SshIInv

\* What the guest sends.
LEMMA FromHostIs ==
  ASSUME NEW t \in {"confirm", "failure", "data", "close"}, NEW c \in Chans, NEW b \in Chans \cup {None}
  PROVE  FromHost(t, c, b) \in DownPackets
BY DEF FromHost, DownPackets

\* A guest that is asked to open a channel has a number for it.
LEMMA FreeNumberIs ==
  ASSUME \E b \in Chans : host[b].st = "free"
  PROVE  FreeNumber \in Chans /\ host[FreeNumber].st = "free"
<1> DEFINE F == {b \in Chans : host[b].st = "free"}
<1>1. F \subseteq Nat /\ F # {}
  BY ProxyAssumption
<1>2. PICK x \in F : \A y \in F : x <= y
  <2> HIDE DEF F
  <2> QED BY <1>1, LeastNat
<1>3. x \in Chans /\ host[x].st = "free" /\ \A c \in Chans : host[c].st = "free" => x <= c
  BY <1>2
<1> QED BY <1>3 DEF FreeNumber

\* The guest's sshd sends: data, a close, or what became of a connection.
LEMMA SshdSendsKeeps ==
  ASSUME SshIInv, NEW b \in Chans, SshdSends(b)
  PROVE  SshIInv'
<1>1. /\ SshTypes /\ SshControl /\ Relays
      /\ UNCHANGED <<front, back, timer, freed, late, sent, ssh, att, toHost, shell>>
  BY DEF SshIInv, SshdSends, ends
<1>2. /\ toHost \in Seq(UpPackets) /\ toProxy \in Seq(DownPackets) /\ ssh.held \in Seq(DownPackets) /\ host \in HostState
      /\ DOMAIN shell = {"st", "user"} /\ shell.st \in {"boot", "used"}
  BY <1>1 DEF SshTypes
<1>3. host[b].st \in {"connecting", "open"}
  BY DEF SshdSends
<1>4. ssh.connected
  BY <1>1, <1>3 DEF SshControl, NoChannel
<1> DEFINE K == All(ssh.chs)
           d == ssh.held \o toProxy
           m == Len(d) + 1
           WithReply(p) == ssh.held \o Append(toProxy, p)
           Good(p, h2) == /\ h2 \in HostState
                          /\ back = "secure" => p \in DownPackets /\ Conf(K, toHost, h2, WithReply(p))
<1>5. ASSUME NEW p, NEW h2, Good(p, h2), host' = h2, Reply(p)
      PROVE  SshIInv'
  <2>1. CASE back = "secure"
    <3>1. toProxy' = Append(toProxy, p) /\ toProxy' \in Seq(DownPackets)
      BY <1>2, <1>5, <2>1 DEF Reply
    <3> QED BY <1>1, <1>2, <1>4, <1>5, <2>1, <3>1, GuestSteps
  <2>2. CASE back # "secure"
    <3>1. toProxy' = toProxy
      BY <1>5, <2>2 DEF Reply
    <3> QED BY <1>1, <1>2, <1>4, <1>5, <2>2, <3>1, GuestSteps
  <2> QED BY <2>1, <2>2
<1>6. \A p \in DownPackets : More(WithReply(p), d, m, p)
  BY <1>2, Replied
<1>7. back = "secure" => Conf(K, toHost, host, d) /\ host[b].peer \in Chans
  <2>1. back = "secure" => Conf(K, toHost, host, d)
    BY <1>1 DEF Relays
  <2>2. back = "secure" => PeersDiffer(host)
    BY <2>1 DEF Conf
  <2> QED BY <1>3, <2>1, <2>2 DEF PeersDiffer
<1> DEFINE opened == [host EXCEPT ![b].st = "open"]
           refused == [host EXCEPT ![b] = NoChannel]
           over == [host EXCEPT ![b].st = "closed"]
<1>8. opened \in HostState /\ refused \in HostState /\ over \in HostState
  BY <1>2 DEF HostState, NoChannel
<1> HIDE DEF K, d, m, WithReply, opened, refused, over
<1>9. CASE host[b].st = "connecting"
  <2>1. \/ host' = opened /\ Reply(FromHost("confirm", host[b].peer, b))
        \/ host' = refused /\ Reply(FromHost("failure", host[b].peer, None))
    BY <1>9 DEF SshdSends, opened, refused
  <2>2. Good(FromHost("confirm", host[b].peer, b), opened)
    <3> DEFINE p == FromHost("confirm", host[b].peer, b)
    <3>1. back = "secure" => p \in DownPackets
      BY <1>7, FromHostIs
    <3> HIDE DEF p
    <3>2. back = "secure" => More(WithReply(p), d, m, p)
      BY <1>6, <3>1
    <3>3. back = "secure" => Conf(K, toHost, opened, WithReply(p))
      BY <1>7, <1>9, <3>2, HostConfirms DEF opened, p
    <3> QED BY <1>8, <3>1, <3>3 DEF p
  <2>3. Good(FromHost("failure", host[b].peer, None), refused)
    <3> DEFINE p == FromHost("failure", host[b].peer, None)
    <3>1. back = "secure" => p \in DownPackets
      BY <1>7, FromHostIs
    <3> HIDE DEF p
    <3>2. back = "secure" => More(WithReply(p), d, m, p)
      BY <1>6, <3>1
    <3>3. back = "secure" => Conf(K, toHost, refused, WithReply(p))
      BY <1>7, <1>9, <3>2, HostRefuses DEF refused, p
    <3> QED BY <1>8, <3>1, <3>3 DEF p
  <2> HIDE DEF Good
  <2> QED BY <1>5, <2>1, <2>2, <2>3
<1>10. CASE host[b].st = "open"
  <2>1. PICK t \in {"data", "close"} :
          /\ Reply(FromHost(t, host[b].peer, None))
          /\ \/ t = "data" /\ host' = host
             \/ t = "close" /\ host' = over
    BY <1>10 DEF SshdSends, over
  <2>2. ASSUME NEW w \in {"data", "close"}, NEW h2, (w = "data" /\ h2 = host) \/ (w = "close" /\ h2 = over)
        PROVE  Good(FromHost(w, host[b].peer, None), h2)
    <3> DEFINE p == FromHost(w, host[b].peer, None)
    <3>1. back = "secure" => p \in DownPackets
      BY <1>7, FromHostIs
    <3> HIDE DEF p
    <3>2. back = "secure" => More(WithReply(p), d, m, p)
      BY <1>6, <3>1
    <3>3. back = "secure" => Conf(K, toHost, h2, WithReply(p))
      BY <1>7, <1>10, <2>2, <3>2, HostSpeaks DEF over, p
    <3> QED BY <1>2, <1>8, <2>2, <3>1, <3>3 DEF p
  <2>3. Good(FromHost(t, host[b].peer, None), host')
    <3> DEFINE h2 == host'
    <3>1. (t = "data" /\ h2 = host) \/ (t = "close" /\ h2 = over)
      BY <2>1
    <3> HIDE DEF Good, h2
    <3>2. Good(FromHost(t, host[b].peer, None), h2)
      BY <2>2, <3>1
    <3> QED BY <3>2 DEF h2
  <2> HIDE DEF Good
  <2> QED BY <1>5, <2>1, <2>3
<1> QED BY <1>3, <1>9, <1>10

\* The guest's sshd takes a packet.
LEMMA SshdTakesKeeps ==
  ASSUME SshIInv, SshdTakes
  PROVE  SshIInv'
<1> DEFINE p == Head(toHost)
           u == toHost
           u1 == Behind(u, 1)
           u2 == Tail(toHost)
           K == All(ssh.chs)
           d == ssh.held \o toProxy
           m == Len(d) + 1
           WithReply(x) == ssh.held \o Append(toProxy, x)
<1>1. /\ SshTypes /\ SshControl /\ Relays /\ toHost # <<>> /\ toHost' = u2
      /\ UNCHANGED <<front, back, timer, freed, late, sent, ssh, att>>
      /\ shell' = IF p.t = "auth" THEN shell ELSE [shell EXCEPT !.st = "used"]
  BY DEF SshIInv, SshdTakes, ends
<1>2. /\ toHost \in Seq(UpPackets) /\ toProxy \in Seq(DownPackets) /\ ssh.held \in Seq(DownPackets) /\ host \in HostState
      /\ DOMAIN shell = {"st", "user"} /\ shell.st \in {"boot", "used"}
  BY <1>1 DEF SshTypes
<1>3. ssh.connected
  BY <1>1 DEF SshControl
<1>4. /\ Less(u1, u, 1) /\ u[1] = p /\ p \in UpPackets /\ u2 \in Seq(UpPackets)
      /\ \E i, w : SameOrder(u2, u1, i, w)
  BY <1>1, <1>2, TailOf
<1>5. DOMAIN shell' = {"st", "user"} /\ shell'.st \in {"boot", "used"}
  <2>1. DOMAIN shell = {"st", "user"} /\ shell.st \in {"boot", "used"}
    BY <1>1 DEF SshTypes
  <2> HIDE DEF p
  <2> QED BY <1>1, <2>1
<1>6. p.t # "auth" => p \in Requests /\ p.ch \in Chans
  BY <1>4 DEF UpPackets, Requests
<1>7. \A x, v : v.st \in {"free", "connecting", "open"} /\ v.peer \in Chans \cup {None} /\ v = [st |-> v.st, peer |-> v.peer] =>
        [host EXCEPT ![x] = v] \in HostState
  BY <1>2 DEF HostState
<1>8. back = "secure" => Conf(K, u, host, d)
  BY <1>1 DEF Relays
<1>9. \A x \in DownPackets : Append(toProxy, x) \in Seq(DownPackets) /\ More(WithReply(x), d, m, x)
  BY <1>2, Replied
<1>10. ASSUME NEW h2, NEW d2, Conf(K, u1, h2, d2) PROVE Conf(K, u2, h2, d2)
  <2> HIDE DEF K, u1, u2
  <2> QED BY <1>4, <1>10, UpRenumbered
<1> DEFINE Good(h2, d2) == back = "secure" => Conf(K, u1, h2, d2)
<1>11. ASSUME NEW x, host' \in HostState, back = "secure" => x \in DownPackets, Good(host', WithReply(x)), Reply(x)
       PROVE  SshIInv'
  <2>1. CASE back = "secure"
    <3>1. toProxy' = Append(toProxy, x) /\ toProxy' \in Seq(DownPackets) /\ Conf(K, u2, host', WithReply(x))
      BY <1>9, <1>10, <1>11, <2>1 DEF Reply
    <3> HIDE DEF u2, u1, d, p
    <3> QED BY <1>1, <1>3, <1>4, <1>5, <1>11, <3>1, GuestSteps
  <2>2. CASE back # "secure"
    <3>1. toProxy' = toProxy
      BY <1>11, <2>2 DEF Reply
    <3> HIDE DEF u2, u1, d, p
    <3> QED BY <1>1, <1>2, <1>3, <1>4, <1>5, <1>11, <2>2, <3>1, GuestSteps
  <2> QED BY <2>1, <2>2
<1>12. ASSUME host' \in HostState, Good(host', d), UNCHANGED toProxy
       PROVE  SshIInv'
  <2>1. back = "secure" => Conf(K, u2, host', d)
    BY <1>10, <1>12
  <2> HIDE DEF u2, u1, p
  <2> QED BY <1>1, <1>2, <1>3, <1>4, <1>5, <1>12, <2>1, GuestSteps
<1> DEFINE b == FreeNumber
<1>13. p.t = "open" /\ back = "secure" => b \in Chans /\ host[b].st = "free"
  <2> SUFFICES ASSUME p.t = "open", back = "secure" PROVE \E x \in Chans : host[x].st = "free"
    BY FreeNumberIs
  <2>1. UpOpens(K, u, host, d) /\ PeersDiffer(host) /\ 1 \in DOMAIN u /\ \A k \in DOMAIN u : ~ (k < 1)
    <3>1. 1 \in DOMAIN u /\ \A k \in DOMAIN u : ~ (k < 1)
      BY <1>1, <1>2
    <3> QED BY <1>8, <3>1 DEF Conf
  <2>2. u[1].t = "open" /\ u[1].ch = p.ch /\ p.ch \in Chans
    BY <1>4, <1>6
  <2> HIDE DEF u, d, K, p
  <2>3. \A x \in Chans : host[x].st # "free" => host[x].peer # p.ch
    BY <2>1, <2>2 DEF UpOpens
  <2> QED BY <1>2, <2>1, <2>2, <2>3, NumberLeft
<1> DEFINE Opened(st) == [host EXCEPT ![b] = [st |-> st, peer |-> p.ch]]
           closed == [host EXCEPT ![p.ch] = NoChannel]
<1>14. p.t # "auth" => \A st \in {"connecting", "open"} : Opened(st) \in HostState
  BY <1>6, <1>7
<1>15. closed \in HostState
  BY <1>7 DEF NoChannel
<1>16. /\ p.t = "open" /\ p.what = "session" => host' = Opened("open") /\ Reply(FromHost("confirm", p.ch, b))
       /\ p.t = "open" /\ p.what # "session" => host' = Opened("connecting") /\ UNCHANGED toProxy
       /\ p.t = "close" => /\ host' = closed
                           /\ IF host[p.ch].st = "open" THEN Reply(FromHost("close", host[p.ch].peer, None))
                              ELSE UNCHANGED toProxy
       /\ p.t \notin {"open", "close"} => UNCHANGED <<host, toProxy>>
  BY DEF SshdTakes
<1>17. u[1].t = p.t /\ (p.t # "auth" => u[1].ch = p.ch)
  BY <1>4
<1> HIDE DEF p, u, u1, u2, K, d, m, WithReply, b
<1>18. CASE p.t = "open" /\ p.what = "session"
  <2> DEFINE x == FromHost("confirm", p.ch, b)
  <2>1. back = "secure" => x \in DownPackets
    BY <1>6, <1>13, <1>18, FromHostIs
  <2> HIDE DEF x
  <2>2. back = "secure" => More(WithReply(x), d, m, x)
    BY <1>9, <2>1
  <2>3. back = "secure" => Conf(K, u1, Opened("open"), WithReply(x))
    BY <1>4, <1>8, <1>13, <1>17, <1>18, <2>2, HostOpensSession DEF x
  <2> HIDE DEF Opened
  <2> QED BY <1>11, <1>14, <1>16, <1>18, <2>1, <2>3 DEF x
<1>19. CASE p.t = "open" /\ p.what # "session"
  <2>1. back = "secure" => Conf(K, u1, Opened("connecting"), d)
    BY <1>4, <1>8, <1>13, <1>17, <1>19, HostOpensForward
  <2> HIDE DEF Opened
  <2> QED BY <1>12, <1>14, <1>16, <1>19, <2>1
<1>20. CASE p.t = "close"
  <2> DEFINE x == FromHost("close", host[p.ch].peer, None)
  <2>1. host[p.ch].st = "open" /\ back = "secure" => x \in DownPackets
    <3>1. back = "secure" => PeersDiffer(host)
      BY <1>8 DEF Conf
    <3>2. p.ch \in Chans
      BY <1>6, <1>20
    <3>3. host[p.ch].st = "open" /\ back = "secure" => host[p.ch].peer \in Chans
      BY <3>1, <3>2 DEF PeersDiffer
    <3> QED BY <3>3, FromHostIs
  <2>2. CASE host[p.ch].st = "open"
    <3> HIDE DEF x
    <3>1. back = "secure" => More(WithReply(x), d, m, x)
      BY <1>9, <2>1, <2>2
    <3>2. back = "secure" => Conf(K, u1, closed, WithReply(x))
      BY <1>4, <1>8, <1>17, <1>20, <2>2, <3>1, HostCloses DEF x
    <3> HIDE DEF closed
    <3> QED BY <1>11, <1>15, <1>16, <1>20, <2>1, <2>2, <3>2 DEF x
  <2>3. CASE host[p.ch].st # "open"
    <3>1. back = "secure" => Conf(K, u1, closed, d)
      BY <1>4, <1>8, <1>17, <1>20, <2>3, HostCloses
    <3> HIDE DEF closed
    <3> QED BY <1>12, <1>15, <1>16, <1>20, <2>3, <3>1
  <2> QED BY <2>2, <2>3
<1>21. CASE p.t \notin {"open", "close"}
  <2>1. back = "secure" => Conf(K, u1, host, d)
    BY <1>4, <1>8, <1>17, <1>21, TakenUp
  <2> QED BY <1>2, <1>12, <1>16, <1>21, <2>1
<1> QED BY <1>18, <1>19, <1>20, <1>21

\* The packets held and the one that has come are what is behind them no more.
LEMMA HeldAndNext ==
  ASSUME NEW S, NEW f \in Seq(S), NEW t \in Seq(S), t # <<>>
  PROVE  LET q == Append(f, Head(t))
             D == f \o t
         IN  /\ Len(q) \in Nat /\ Len(q) # 0 /\ q \in Seq(S) /\ q \o Tail(t) = D /\ Tail(t) \in Seq(S)
             /\ DOMAIN D \subseteq Nat \ {0} /\ D = [j \in DOMAIN D |-> D[j]]
             /\ \A i \in 1 .. Len(q) : i \in DOMAIN D /\ D[i] = q[i]
             /\ \E m, w : SameOrder(Tail(t), Behind(D, Len(q)), m, w)
<1> DEFINE q == Append(f, Head(t))
           D == f \o t
           g == Tail(t)
<1>1. Head(t) \in S /\ g \in Seq(S) /\ t = <<Head(t)>> \o g /\ Len(t) \in Nat /\ Len(t) # 0 /\ Len(g) = Len(t) - 1
  OBVIOUS
<1>2. q \in Seq(S) /\ Len(q) = Len(f) + 1 /\ Len(f) \in Nat
  BY <1>1
<1>3. D \in Seq(S) /\ Len(D) = Len(f) + Len(t)
  OBVIOUS
<1>4. q \o g = D
  <2> DEFINE h == <<Head(t)>>
  <2>1. q = f \o h /\ h \in Seq(S) /\ t = h \o g
    BY <1>1, AppendIsConcat
  <2> HIDE DEF g, q, h
  <2>2. (f \o h) \o g = f \o (h \o g)
    BY <1>1, <2>1, ConcatAssociative
  <2>3. D = f \o (h \o g)
    BY <2>1
  <2> HIDE DEF D
  <2> QED BY <2>1, <2>2, <2>3
<1>5. \A i \in 1 .. Len(q) : i \in DOMAIN D /\ D[i] = q[i]
  <2> HIDE DEF g, q, D
  <2> QED BY <1>1, <1>2, <1>3, <1>4
<1>6. \A j \in 1 .. Len(g) : g[j] = D[j + Len(q)]
  <2> HIDE DEF g, q, D
  <2>1. \A j \in 1 .. Len(g) : (q \o g)[j + Len(q)] = g[j]
    BY <1>1, <1>2
  <2> QED BY <1>4, <2>1
<1>7. Len(q) \in 0 .. Len(D) /\ Len(g) = Len(D) - Len(q)
  BY <1>1, <1>2, <1>3
<1>8. DOMAIN D = 1 .. Len(D) /\ D = [j \in DOMAIN D |-> D[j]]
  <2> HIDE DEF D
  <2> QED BY <1>3
<1> HIDE DEF g, q, D
<1>9. \E m, w : SameOrder(g, Behind(D, Len(q)), m, w)
  BY <1>1, <1>3, <1>6, <1>7, BehindRenumbered
<1> QED BY <1>1, <1>2, <1>4, <1>5, <1>8, <1>9 DEF g, q, D

\* packet_buffer of the backend: a packet of the guest is held, or parsed after those that were.
LEMMA BackPacketKeeps ==
  ASSUME SshIInv, BackPacket
  PROVE  SshIInv'
<1> DEFINE q == Append(ssh.held, Head(toProxy))
           D == ssh.held \o toProxy
           r == ParseAll("CLIENT", att, q)
           K == All(ssh.chs)
<1>1. /\ EndsOK /\ SshTypes /\ ParserSound(Parser) /\ SshControl /\ Relays /\ Known /\ Ordered
      /\ back = "secure" /\ toProxy # <<>> /\ toProxy' = Tail(toProxy)
      /\ UNCHANGED <<front, freed, late, sent, host, shell>>
  BY DEF SshIInv, BackPacket
<1>2. /\ DOMAIN ssh = Flags /\ ssh.held \in Seq(DownPackets) /\ toProxy \in Seq(DownPackets)
      /\ ssh.connected /\ toHost \in Seq(UpPackets) /\ att \in AttState /\ PeersKnown(att) /\ Conf(K, toHost, host, D)
  BY <1>1, FlagsAre DEF SshTypes, SshControl, Relays
<1>3. /\ Len(q) \in Nat /\ Len(q) # 0 /\ q \in Seq(DownPackets) /\ q \o Tail(toProxy) = D /\ Tail(toProxy) \in Seq(DownPackets)
      /\ DOMAIN D \subseteq Nat \ {0} /\ D = [j \in DOMAIN D |-> D[j]]
      /\ \A i \in 1 .. Len(q) : i \in DOMAIN D /\ D[i] = q[i]
      /\ \E m, w : SameOrder(Tail(toProxy), Behind(D, Len(q)), m, w)
  BY <1>1, <1>2, HeldAndNext
<1>4. CASE ~ ssh.auth
  <2>1. ssh' = [ssh EXCEPT !.held = q] /\ UNCHANGED <<back, att, toHost, timer>>
    BY <1>4 DEF BackPacket
  <2> HIDE DEF q, D
  <2>2. /\ DOMAIN ssh' = Flags /\ ssh'.auth = ssh.auth /\ ssh'.entered = ssh.entered /\ ssh'.connected = ssh.connected
        /\ ssh'.delayed = ssh.delayed /\ ssh'.authDone = ssh.authDone
        /\ ssh'.held = q /\ ssh'.handled = ssh.handled
        /\ ssh'.chs = ssh.chs /\ ssh'.logs = ssh.logs /\ ssh'.orphans = ssh.orphans /\ ssh'.raised = ssh.raised
    BY <1>2, <2>1 DEF Flags
  <2>3. EndsOK' /\ SshControl' /\ Known' /\ Ordered'
    BY <1>1, <1>2, <2>1, <2>2 DEF EndsOK, SshControl, Known, Ordered
  <2>4. SshTypes'
    <3>1. DOMAIN ssh' = DOMAIN NoSsh'
      BY <2>2, FlagsAre DEF NoSsh
    <3> QED BY <1>1, <1>3, <2>1, <2>2, <3>1 DEF SshTypes
  <2>5. ParserSound(Parser)'
    <3>1. Parser' = Parser
      BY <2>1, <2>2 DEF Parser
    <3> QED BY <1>1, <3>1 DEF ParserSound
  <2>6. Relays'
    <3>1. ssh'.held \o toProxy' = D
      BY <1>1, <1>3, <2>2
    <3>2. ssh'.chs = ssh.chs /\ toHost' = toHost /\ host' = host /\ Conf(K, toHost, host, D)
      BY <1>1, <1>2, <2>1, <2>2
    <3>3. Conf(All(ssh'.chs), toHost', host', ssh'.held \o toProxy')
      <4>1. All(ssh'.chs) = K
        BY <3>2
      <4> HIDE DEF K
      <4> QED BY <3>1, <3>2, <4>1
    <3> QED BY <3>3 DEF Relays
  <2> QED BY <2>3, <2>4, <2>5, <2>6 DEF SshIInv
<1>5. CASE ssh.auth
  <2> DEFINE lost == front = "lost" /\ r.pass # <<>>
  <2>1. /\ ssh' = [Parsed(r, ssh) EXCEPT !.held = <<>>]
        /\ att' = IF front = "lost" THEN att ELSE r.att
        /\ back' = IF lost \/ r.x.raised # None THEN "closing" ELSE back
        /\ timer' = r.x.timer /\ UNCHANGED toHost
    BY <1>5 DEF BackPacket
  <2>2. /\ ParserSound(r.x) /\ r.att \in AttState /\ PeersKnown(r.att)
        /\ r.x.raised = None => /\ ssh.raised = None /\ Agrees(All(r.x.chs), r.att) /\ r.pass # <<>>
                                /\ Conf(All(r.x.chs), toHost, host, Tail(toProxy))
    <3>1. CASE ssh.raised = None
      <4>1. Agrees(K, att)
        BY <1>1, <3>1 DEF Known
      <4> HIDE DEF q, D
      <4>2. /\ ParserSound(r.x) /\ r.att \in AttState /\ PeersKnown(r.att)
            /\ r.x.raised = None => /\ Conf(All(r.x.chs), toHost, host, Behind(D, Len(q))) /\ Agrees(All(r.x.chs), r.att)
                                    /\ Len(q) # 0 => r.pass # <<>>
        <5>1. ParserSound(Parser) /\ Conf(All(ssh.chs), toHost, host, D) /\ Agrees(All(ssh.chs), att) /\ PeersKnown(att)
          BY <1>1, <1>2, <4>1
        <5>2. Len(q) \in Nat /\ DOMAIN D \subseteq Nat \ {0} /\ D = [j \in DOMAIN D |-> D[j]]
              /\ \A i \in 1 .. Len(q) : i \in DOMAIN D /\ D[i] = q[i]
          BY <1>3
        <5> QED BY <3>1, <5>1, <5>2, GuestPacketsParsed
      <4> HIDE DEF r
      <4>3. Conf(All(r.x.chs), toHost, host, Behind(D, Len(q))) => Conf(All(r.x.chs), toHost, host, Tail(toProxy))
        BY <1>3, DownRenumbered
      <4> QED BY <1>3, <3>1, <4>2, <4>3
    <3>2. CASE ssh.raised # None
      <4>1. r = Start(att)
        BY <1>3, <3>2, ParseRaised
      <4>2. r.x = Parser /\ r.att = att /\ r.x.raised = ssh.raised
        <5> HIDE DEF r
        <5> QED BY <4>1 DEF Start, Parser
      <4> HIDE DEF r
      <4> QED BY <1>1, <1>2, <3>2, <4>2
    <3> QED BY <3>1, <3>2
  <2> HIDE DEF r, q, D
  <2>3. /\ DOMAIN ssh' = Flags /\ ssh'.auth = ssh.auth /\ ssh'.entered = ssh.entered /\ ssh'.connected = ssh.connected
        /\ ssh'.delayed = ssh.delayed /\ ssh'.authDone = ssh.authDone
        /\ ssh'.held = <<>> /\ ssh'.handled = ssh.handled
        /\ ssh'.chs = r.x.chs /\ ssh'.logs = r.x.logs /\ ssh'.orphans = r.x.orphans /\ ssh'.raised = r.x.raised
    BY <1>2, <2>1 DEF Flags, Parsed
  <2>4. /\ back' = "closing" \/ (back' = "secure" /\ r.x.raised = None /\ front # "lost")
        /\ front # "lost" /\ r.x.raised = None => back' = "secure"
    BY <1>1, <2>1, <2>2
  <2>5. EndsOK'
    BY <1>1, <2>1, <2>2, <2>4 DEF EndsOK, ParserSound, ParserState
  <2>6. SshTypes'
    <3>1. DOMAIN ssh' = DOMAIN NoSsh'
      BY <2>3, FlagsAre DEF NoSsh
    <3>2. att' \in AttState /\ PeersKnown(att') /\ toProxy' \in Seq(DownPackets)
      BY <1>1, <1>2, <1>3, <2>1, <2>2
    <3> QED BY <1>1, <2>1, <2>3, <3>1, <3>2 DEF SshTypes
  <2>7. ParserSound(Parser)'
    <3>1. Parser' = [chs |-> r.x.chs, logs |-> r.x.logs, orphans |-> r.x.orphans, timer |-> r.x.timer, raised |-> r.x.raised,
                     out |-> "drop"]
      BY <2>1, <2>3 DEF Parser
    <3> QED BY <2>2, <3>1 DEF ParserSound, ParserState
  <2>8. SshControl'
    BY <1>1, <1>2, <2>2, <2>3, <2>4 DEF SshControl
  <2>9. Relays'
    <3>1. ssh'.held \o toProxy' = Tail(toProxy)
      BY <1>1, <1>3, <2>3
    <3>2. All(ssh'.chs) = All(r.x.chs)
      BY <2>3
    <3>3. back' = "secure" => Conf(All(ssh'.chs), toHost', host', ssh'.held \o toProxy')
      BY <1>1, <2>1, <2>2, <2>4, <3>1, <3>2
    <3> QED BY <3>3 DEF Relays
  <2>10. Known'
    <3>1. ssh.raised = None => ssh.delayed = <<>>
      BY <1>1, <1>2 DEF SshControl
    <3>2. DelayedOpens(<<>>, All(r.x.chs), r.att)
      BY DEF DelayedOpens
    <3> QED BY <2>1, <2>2, <2>3, <2>4, <3>1, <3>2 DEF Known
  <2>11. Ordered'
    BY <1>1, <2>3 DEF Ordered
  <2> QED BY <2>5, <2>6, <2>7, <2>8, <2>9, <2>10, <2>11 DEF SshIInv
<1> QED BY <1>4, <1>5

\* Connections come and go.
LEMMA EndsMove ==
  ASSUME SshIInv, UNCHANGED <<sent, toHost, ssh, att, host, shell>>, toProxy' = toProxy \/ toProxy' = <<>>, timer' \in BOOLEAN,
         BackUp \/ BackRefused \/ BackGone \/ FrontGone(ssh.authDone) \/ TimedOut
  PROVE  SshIInv'
<1>1. EndsOK /\ SshTypes /\ ParserSound(Parser) /\ SshControl /\ Relays /\ Known /\ Ordered
  BY DEF SshIInv
<1>2. SshTypes' /\ Ordered'
  <2>1. <<>> \in Seq(DownPackets)
    OBVIOUS
  <2> QED BY <1>1, <2>1 DEF SshTypes, Ordered
<1>3. ParserSound(Parser)'
  <2>1. Parser' = [Parser EXCEPT !.timer = timer']
    BY DEF Parser
  <2>2. Parser \in ParserState /\ Parser'.chs = Parser.chs /\ Parser'.logs = Parser.logs /\ Parser'.orphans = Parser.orphans
    BY <1>1 DEF ParserSound, Parser
  <2> HIDE DEF ParserState
  <2>3. Parser' \in ParserState
    BY <2>1, <2>2 DEF ParserState
  <2> QED BY <1>1, <2>2, <2>3 DEF ParserSound
<1>4. CASE BackUp
  <2>1. back = "dialing" /\ back' = "up" /\ late' = (front = "lost") /\ UNCHANGED <<front, freed, toProxy>> /\ timer' = TRUE
    BY <1>4 DEF BackUp
  <2>2. EndsOK' /\ SshControl' /\ Relays' /\ Known'
    BY <1>1, <2>1 DEF EndsOK, SshControl, Relays, Known
  <2> QED BY <1>2, <1>3, <2>2 DEF SshIInv
<1>5. CASE BackRefused
  <2>1. back = "dialing" /\ back' = "refused" /\ front' = Closing(front) /\ UNCHANGED <<freed, late, toProxy>>
    BY <1>5 DEF BackRefused
  <2>2. EndsOK' /\ SshControl' /\ Relays' /\ Known'
    BY <1>1, <2>1 DEF EndsOK, SshControl, Relays, Known, Closing
  <2> QED BY <1>2, <1>3, <2>2 DEF SshIInv
<1>6. CASE BackGone
  <2>1. back \in {"up", "secure", "closing"} /\ back' = "lost" /\ front' = Closing(front) /\ toProxy' = <<>> /\ UNCHANGED <<freed, late>>
    BY <1>6 DEF BackGone
  <2>2. EndsOK' /\ SshControl' /\ Relays' /\ Known'
    BY <1>1, <2>1 DEF EndsOK, SshControl, Relays, Known, Closing
  <2> QED BY <1>2, <1>3, <2>2 DEF SshIInv
<1>7. CASE FrontGone(ssh.authDone)
  <2>1. /\ front \in {"up", "closing"} /\ front' = "lost" /\ back' = Closing(back) /\ freed' = (IF ssh.authDone THEN "f" ELSE "u")
        /\ timer' = FALSE /\ UNCHANGED <<late, toProxy>>
    BY <1>7 DEF FrontGone
  <2>2. back' \notin {"up", "secure"} /\ (back' \in {"dialing", "refused"} => back' = back)
    BY <1>1, <2>1 DEF EndsOK, Closing
  <2>3. EndsOK'
    BY <1>1, <2>1 DEF EndsOK, Closing
  <2>4. SshControl' /\ Relays' /\ Known'
    BY <1>1, <2>1, <2>2 DEF SshControl, Relays, Known
  <2> QED BY <1>2, <1>3, <2>3, <2>4 DEF SshIInv
<1>8. CASE TimedOut
  <2>1. front' = Closing(front) /\ back' = Closing(back) /\ UNCHANGED <<freed, late, toProxy>>
    BY <1>8 DEF TimedOut
  <2>2. back' \notin {"up", "secure"} /\ (back' \in {"dialing", "refused"} => back' = back)
    BY <1>1, <2>1 DEF EndsOK, Closing
  <2>3. front' # "up" /\ (front' = "closing" => front \in {"up", "closing"})
    BY <1>1, <2>1 DEF EndsOK, Closing
  <2>4. EndsOK'
    BY <1>1, <2>1 DEF EndsOK, Closing
  <2>5. SshControl' /\ Relays' /\ Known'
    BY <1>1, <2>1, <2>2, <2>3 DEF SshControl, Relays, Known
  <2> QED BY <1>2, <1>3, <2>4, <2>5 DEF SshIInv
<1> QED BY <1>4, <1>5, <1>6, <1>7, <1>8

\* The invariant of an SSH connection holds at first.
LEMMA SshStarts ==
  ASSUME Init
  PROVE  SshIInv
<1>1. ssh = NoSsh /\ toHost = <<>> /\ toProxy = <<>> /\ sent = 0 /\ timer = FALSE
  BY DEF Init
<1>2. EndsOK
  <2>1. sent \in 0 .. Packets
    <3>1. Packets \in Nat
      BY ProxyAssumption
    <3>2. sent = 0
      BY <1>1
    <3> QED BY <3>1, <3>2
  <2>2. front = "up" /\ back = "dialing" /\ freed = "none" /\ late = FALSE
    BY DEF Init
  <2> QED BY <1>1, <2>1, <2>2 DEF EndsOK
<1>3. NoChannel.st = "free" /\ NoChannel.peer = None
  BY DEF NoChannel
<1>4. host \in HostState /\ att \in AttState
  BY DEF Init, HostState, AttState, NoChannel
<1>5. \A c \in Chans : att[c] = NoChannel /\ host[c] = NoChannel
  BY DEF Init
<1>6. SshTypes
  <2>1. DOMAIN shell = {"st", "user"} /\ shell.st = "boot"
    BY DEF Init
  <2>2. PeersKnown(att)
    BY <1>3, <1>5 DEF PeersKnown
  <2>3. ssh.delayed = <<>> /\ ssh.held = <<>> /\ ssh.handled = 0 /\ {ssh.auth, ssh.connected, ssh.authDone, ssh.entered} \subseteq BOOLEAN
    BY <1>1 DEF NoSsh
  <2> QED BY <1>1, <1>4, <2>1, <2>2, <2>3 DEF SshTypes
<1>7. ParserSound(Parser)
  <2>1. Parser = [chs |-> <<>>, logs |-> 0, orphans |-> 0, timer |-> FALSE, raised |-> None, out |-> "drop"]
    BY <1>1 DEF Parser, NoSsh
  <2>2. LogCount(<<>>) = 0
    <3>1. {i \in DOMAIN <<>> : HasLog(<<>>[i].ses)} = {}
      OBVIOUS
    <3> QED BY <3>1, FS_EmptySet DEF LogCount
  <2>3. ChannelsAreOnes(<<>>)
    BY DEF ChannelsAreOnes
  <2> QED BY <2>1, <2>2, <2>3 DEF ParserSound, ParserState, Outcomes
<1>8. SshControl
  BY <1>1, <1>5 DEF Init, SshControl, NoSsh
<1>9. Known
  <2>1. All(ssh.chs) = {} /\ ssh.delayed = <<>>
    BY <1>1 DEF NoSsh, All
  <2>2. Agrees({}, att)
    BY <1>3, <1>4, <1>5 DEF Agrees, AgreesAt
  <2>3. DelayedOpens(<<>>, {}, att)
    BY DEF DelayedOpens
  <2> QED BY <2>1, <2>2, <2>3 DEF Known
<1>10. Relays /\ Ordered
  BY <1>1 DEF Init, Relays, Ordered, NoSsh
<1> QED BY <1>2, <1>6, <1>7, <1>8, <1>9, <1>10 DEF SshIInv

-----------------------------------------------------------------------------
(***************************************************************************)
(* The Telnet proxy. While the attacker types only at a prompt the login   *)
(* goes one token at a time: a prompt on its way, the proxy waiting for a  *)
(* line, or that line on its way.                                          *)
(***************************************************************************)
\* A USER variable that was replaced; the lines and the prompts.
Env == "backend user in env"
Lines == {"name", "right", "wrong", "env", "backend user", "backend password", "fake", Env}
Prompts == {"login:", "password:", "$"}

\* Lines on their way: only variables, one other line among variables, variables
\* up to a line, no password.
AllEnv(q) == \A i \in DOMAIN q : q[i] = Env
OneLine(q, line) == \E k \in DOMAIN q : q[k] = line /\ \A i \in DOMAIN q : i # k => q[i] = Env
First(q, line) == \E k \in DOMAIN q : q[k] = line /\ \A i \in DOMAIN q : i < k => q[i] = Env
NoPassword(q) == \A i \in DOMAIN q : q[i] # "backend password"

\* A prompt on its way, the proxy waiting for its line, or the line on its way.
Token(prompt, line) ==
  \/ toProxy = <<prompt>> /\ ~ tel.login /\ ~ tel.password /\ AllEnv(toHost)
  \/ toProxy = <<>> /\ tel.login = (prompt = "login:") /\ tel.password = (prompt = "password:") /\ AllEnv(toHost)
  \/ toProxy = <<>> /\ ~ tel.login /\ ~ tel.password /\ OneLine(toHost, line)

\* How far the login is: telnetd has prompted for nothing, for the name, for the
\* password, or has the attacker in or about to be.
Started == ~ tel.authDone /\ shell.st = "boot" /\ toProxy = <<>> /\ ~ tel.login /\ ~ tel.password /\ AllEnv(toHost)
AskedUser == ~ tel.authDone /\ shell.st = "user" /\ Token("login:", "backend user")
AskedPassword == ~ tel.authDone /\ shell.st = "pass" /\ shell.user = "backend user" /\ Token("password:", "fake")
LoggedIn ==
  tel.authDone /\ (shell.st = "in" \/ (shell.st = "pass" /\ shell.user = "backend user" /\ First(toHost, "backend password")))

Phase == back = "up" /\ ~ tel.ahead => Started \/ AskedUser \/ AskedPassword \/ LoggedIn

\* Types of the Telnet proxy.
TelTypes ==
  /\ DOMAIN tel = DOMAIN NoTelnet /\ tel.buffer \in Seq(Lines)
  /\ tel.login \in BOOLEAN /\ tel.password \in BOOLEAN /\ tel.authDone \in BOOLEAN /\ tel.ahead \in BOOLEAN
  /\ toHost \in Seq(Lines) /\ toProxy \in Seq(Prompts)
  /\ DOMAIN shell = {"st", "user"} /\ shell.st \in {"boot", "user", "pass", "in"}

\* No password of the backend is anywhere before the checker has accepted one.
TelControl ==
  /\ back # "secure" /\ tel.accepted = tel.authDone
  /\ front # "lost" => freed = "none"
  /\ freed = "u" => ~ tel.authDone
  /\ ~ tel.ahead => AllEnv(tel.buffer)
  /\ ~ tel.accepted => NoPassword(tel.buffer) /\ NoPassword(toHost) /\ shell.st # "in"
  /\ back = "dialing" => Started /\ toHost = <<>>
  /\ back = "refused" => front # "up"

\* The inductive invariant of a Telnet connection.
TelIInv == EndsOK /\ TelTypes /\ TelControl /\ Phase

\* Its fields.
Keys == {"buffer", "login", "password", "echo", "authDone", "log", "ahead", "accepted"}

\* The fields of the Telnet proxy.
LEMMA KeysAre == DOMAIN NoTelnet = Keys
BY DEF NoTelnet, Keys

\* Lines that wait, and the one behind them, leave for the guest.
LEMMA LinesAdded ==
  ASSUME NEW f \in Seq(Lines), NEW b \in Seq(Lines), NEW line \in Lines
  PROVE  LET g == f \o Append(b, line)
         IN  /\ g \in Seq(Lines)
             /\ AllEnv(f) /\ AllEnv(b) /\ line = Env => AllEnv(g)
             /\ AllEnv(f) /\ AllEnv(b) => OneLine(g, line) /\ First(g, line)
             /\ \A l : OneLine(f, l) /\ AllEnv(b) /\ line = Env => OneLine(g, l)
             /\ \A l : First(f, l) => First(g, l)
             /\ NoPassword(f) /\ NoPassword(b) /\ line # "backend password" => NoPassword(g)
<1> DEFINE m == Append(b, line)
           g == f \o m
<1>1. /\ m \in Seq(Lines) /\ Len(m) = Len(b) + 1 /\ m[Len(b) + 1] = line /\ \A i \in 1 .. Len(b) : m[i] = b[i]
      /\ Len(f) \in Nat /\ Len(b) \in Nat /\ DOMAIN b = 1 .. Len(b) /\ DOMAIN f = 1 .. Len(f)
  OBVIOUS
<1> HIDE DEF m
<1>2. /\ g \in Seq(Lines) /\ Len(g) = Len(f) + Len(m) /\ \A i \in 1 .. Len(f) : g[i] = f[i]
      /\ \A i \in 1 .. Len(m) : g[Len(f) + i] = m[i]
  BY <1>1
<1> HIDE DEF g
<1> DEFINE e == Len(f) + Len(b) + 1
<1>3. e \in Nat /\ Len(g) = e /\ DOMAIN g = 1 .. e /\ e \in DOMAIN g /\ g[e] = line
  <2>1. Len(b) + 1 \in 1 .. Len(m) /\ Len(f) + (Len(b) + 1) = e
    BY <1>1
  <2>2. DOMAIN g = 1 .. Len(g)
    BY <1>2
  <2> QED BY <1>1, <1>2, <2>1, <2>2
<1>4. \A i \in DOMAIN f : i \in DOMAIN g /\ g[i] = f[i] /\ i < e
  BY <1>1, <1>2, <1>3
<1>5. \A i \in DOMAIN g : i \in DOMAIN f \/ i = e \/ \E j \in DOMAIN b : g[i] = b[j]
  <2> SUFFICES ASSUME NEW i \in DOMAIN g, i \notin DOMAIN f, i # e PROVE \E j \in DOMAIN b : g[i] = b[j]
    OBVIOUS
  <2>1. i - Len(f) \in 1 .. Len(b) /\ i - Len(f) \in 1 .. Len(m) /\ Len(f) + (i - Len(f)) = i
    <3>1. i \in 1 .. (Len(f) + Len(b) + 1) /\ i \notin 1 .. Len(f) /\ i # Len(f) + Len(b) + 1
      BY <1>1, <1>3
    <3>2. Len(f) \in Nat /\ Len(b) \in Nat /\ Len(m) = Len(b) + 1
      BY <1>1
    <3> QED BY <3>1, <3>2
  <2> QED BY <1>1, <1>2, <2>1
<1>6. \A i \in DOMAIN f : \A j \in DOMAIN g : j < i => j \in DOMAIN f
  BY <1>1, <1>3
<1> HIDE DEF e
<1>7. AllEnv(f) /\ AllEnv(b) /\ line = Env => AllEnv(g)
  BY <1>3, <1>4, <1>5 DEF AllEnv
<1>8. AllEnv(f) /\ AllEnv(b) => OneLine(g, line) /\ First(g, line)
  <2> SUFFICES ASSUME AllEnv(f), AllEnv(b) PROVE e \in DOMAIN g /\ g[e] = line /\ \A i \in DOMAIN g : i # e => g[i] = Env
    <3>1. \A i \in Nat : i < e => i # e
      BY <1>3
    <3>2. DOMAIN g \subseteq Nat
      BY <1>3
    <3> QED BY <3>1, <3>2 DEF OneLine, First
  <2> QED BY <1>3, <1>4, <1>5 DEF AllEnv
<1>9. ASSUME NEW l, OneLine(f, l), AllEnv(b), line = Env PROVE OneLine(g, l)
  <2>1. PICK k \in DOMAIN f : f[k] = l /\ \A i \in DOMAIN f : i # k => f[i] = Env
    BY <1>9 DEF OneLine
  <2>2. \A i \in DOMAIN g : i # k => g[i] = Env
    BY <1>3, <1>4, <1>5, <1>9, <2>1 DEF AllEnv
  <2>3. k \in DOMAIN g /\ g[k] = l
    BY <1>4, <2>1
  <2> QED BY <2>2, <2>3 DEF OneLine
<1>10. ASSUME NEW l, First(f, l) PROVE First(g, l)
  <2>1. PICK k \in DOMAIN f : f[k] = l /\ \A i \in DOMAIN f : i < k => f[i] = Env
    BY <1>10 DEF First
  <2>2. k \in DOMAIN g /\ g[k] = l /\ \A i \in DOMAIN g : i < k => g[i] = Env
    BY <1>4, <1>6, <2>1
  <2> QED BY <2>2 DEF First
<1>11. NoPassword(f) /\ NoPassword(b) /\ line # "backend password" => NoPassword(g)
  BY <1>3, <1>4, <1>5 DEF NoPassword
<1> QED BY <1>2, <1>7, <1>8, <1>9, <1>10, <1>11 DEF g, m

\* The guest takes a line.
LEMMA LineTaken ==
  ASSUME NEW f \in Seq(Lines), f # <<>>
  PROVE  LET g == Tail(f)
         IN  /\ g \in Seq(Lines) /\ Head(f) \in Lines
             /\ AllEnv(f) => AllEnv(g) /\ Head(f) = Env
             /\ \A l : OneLine(f, l) /\ l # Env => IF Head(f) = Env THEN OneLine(g, l) ELSE Head(f) = l /\ AllEnv(g)
             /\ \A l : First(f, l) /\ l # Env => IF Head(f) = Env THEN First(g, l) ELSE Head(f) = l
             /\ NoPassword(f) => NoPassword(g) /\ Head(f) # "backend password"
<1> DEFINE g == Tail(f)
<1>1. /\ g \in Seq(Lines) /\ Head(f) \in Lines /\ f[1] = Head(f) /\ 1 \in DOMAIN f /\ Len(f) \in Nat /\ DOMAIN f = 1 .. Len(f)
      /\ Len(g) = Len(f) - 1 /\ DOMAIN g = 1 .. Len(g) /\ \A i \in 1 .. Len(g) : g[i] = f[i + 1]
  OBVIOUS
<1> HIDE DEF g
<1>2. \A i \in DOMAIN g : i + 1 \in DOMAIN f /\ g[i] = f[i + 1] /\ i + 1 # 1
  BY <1>1
<1>3. \A k \in DOMAIN f : k = 1 \/ (k - 1 \in DOMAIN g /\ g[k - 1] = f[k])
  <2> SUFFICES ASSUME NEW k \in DOMAIN f, k # 1 PROVE k - 1 \in DOMAIN g /\ g[k - 1] = f[k]
    OBVIOUS
  <2>1. k - 1 \in 1 .. Len(g) /\ (k - 1) + 1 = k
    BY <1>1
  <2> QED BY <1>1, <2>1
<1>4. AllEnv(f) => AllEnv(g) /\ Head(f) = Env
  BY <1>1, <1>2 DEF AllEnv
<1>5. ASSUME NEW l, OneLine(f, l), l # Env PROVE IF Head(f) = Env THEN OneLine(g, l) ELSE Head(f) = l /\ AllEnv(g)
  <2>1. PICK k \in DOMAIN f : f[k] = l /\ \A i \in DOMAIN f : i # k => f[i] = Env
    BY <1>5 DEF OneLine
  <2>2. CASE k = 1
    BY <1>1, <1>2, <1>5, <2>1, <2>2 DEF AllEnv
  <2>3. CASE k # 1
    <3>1. Head(f) = Env /\ k - 1 \in DOMAIN g /\ g[k - 1] = l
      BY <1>1, <1>3, <2>1, <2>3
    <3>2. \A i \in DOMAIN g : i # k - 1 => i + 1 # k
      BY <1>1
    <3>3. \A i \in DOMAIN g : i # k - 1 => g[i] = Env
      BY <1>2, <2>1, <3>2
    <3> QED BY <3>1, <3>3 DEF OneLine
  <2> QED BY <2>2, <2>3
<1>6. ASSUME NEW l, First(f, l), l # Env PROVE IF Head(f) = Env THEN First(g, l) ELSE Head(f) = l
  <2>1. PICK k \in DOMAIN f : f[k] = l /\ \A i \in DOMAIN f : i < k => f[i] = Env
    BY <1>6 DEF First
  <2>2. CASE k = 1
    BY <1>1, <1>6, <2>1, <2>2
  <2>3. CASE k # 1
    <3>1. 1 < k
      BY <1>1, <2>3
    <3>2. Head(f) = Env /\ k - 1 \in DOMAIN g /\ g[k - 1] = l
      BY <1>1, <1>3, <2>1, <2>3, <3>1
    <3>3. \A i \in DOMAIN g : i < k - 1 => i + 1 < k
      BY <1>1
    <3>4. \A i \in DOMAIN g : i < k - 1 => g[i] = Env
      BY <1>2, <2>1, <3>3
    <3> QED BY <3>2, <3>4 DEF First
  <2> QED BY <2>2, <2>3
<1>7. NoPassword(f) => NoPassword(g) /\ Head(f) # "backend password"
  BY <1>1, <1>2 DEF NoPassword
<1> QED BY <1>1, <1>4, <1>5, <1>6, <1>7 DEF g

\* A step that leaves the Telnet proxy where it was, but for its log.
LEMMA TelnetEnds ==
  ASSUME TelIInv, tel' = tel \/ tel' = [tel EXCEPT !.log = "closed"], UNCHANGED <<sent, toHost, shell>>,
         toProxy' = toProxy \/ toProxy' = <<>>, timer' \in BOOLEAN,
         BackUp \/ BackRefused \/ BackGone \/ FrontGone(tel.authDone) \/ TimedOut
  PROVE  TelIInv'
<1>1. EndsOK /\ TelTypes /\ TelControl /\ Phase
  BY DEF TelIInv
<1>2. /\ DOMAIN tel' = Keys /\ tel'.buffer = tel.buffer /\ tel'.login = tel.login /\ tel'.password = tel.password
      /\ tel'.authDone = tel.authDone /\ tel'.ahead = tel.ahead /\ tel'.accepted = tel.accepted
  <2>1. DOMAIN tel = Keys
    BY <1>1, KeysAre DEF TelTypes
  <2> QED BY <2>1 DEF Keys
<1>3. TelTypes'
  <2>1. DOMAIN tel' = DOMAIN NoTelnet'
    BY <1>2, KeysAre DEF NoTelnet
  <2>2. toProxy' \in Seq(Prompts)
    <3>1. toProxy \in Seq(Prompts) /\ <<>> \in Seq(Prompts)
      BY <1>1 DEF TelTypes
    <3> QED BY <3>1
  <2> QED BY <1>1, <1>2, <2>1, <2>2 DEF TelTypes
<1>4. CASE BackUp
  <2>1. back = "dialing" /\ back' = "up" /\ late' = (front = "lost") /\ UNCHANGED <<front, freed, toProxy>>
    BY <1>4 DEF BackUp
  <2>2. Started /\ toHost = <<>>
    BY <1>1, <2>1 DEF TelControl
  <2>3. EndsOK' /\ TelControl'
    BY <1>1, <1>2, <2>1 DEF EndsOK, TelControl
  <2>4. Started'
    BY <1>2, <2>1, <2>2 DEF Started
  <2> QED BY <1>3, <2>3, <2>4 DEF TelIInv, Phase
<1>5. CASE BackRefused
  <2>1. back = "dialing" /\ back' = "refused" /\ front' = Closing(front) /\ UNCHANGED <<freed, late, toProxy>>
    BY <1>5 DEF BackRefused
  <2>2. EndsOK' /\ TelControl' /\ Phase'
    BY <1>1, <1>2, <2>1 DEF EndsOK, TelControl, Phase, Closing
  <2> QED BY <1>3, <2>2 DEF TelIInv
<1>6. CASE BackGone
  <2>1. back' = "lost" /\ front' = Closing(front) /\ UNCHANGED <<freed, late>>
    BY <1>6 DEF BackGone
  <2>2. EndsOK' /\ TelControl' /\ Phase'
    BY <1>1, <1>2, <2>1 DEF EndsOK, TelControl, Phase, Closing
  <2> QED BY <1>3, <2>2 DEF TelIInv
<1>7. CASE FrontGone(tel.authDone)
  <2>1. /\ front \in {"up", "closing"} /\ front' = "lost" /\ back' = Closing(back) /\ freed' = (IF tel.authDone THEN "f" ELSE "u")
        /\ UNCHANGED <<late, toProxy>>
    BY <1>7 DEF FrontGone
  <2>2. back' \notin {"up", "secure"} /\ (back' \in {"dialing", "refused"} => back' = back)
    BY <1>1, <2>1 DEF EndsOK, Closing
  <2>3. EndsOK'
    BY <1>1, <2>1 DEF EndsOK, Closing
  <2>4. Started => Started'
    BY <1>2, <2>1 DEF Started
  <2>5. TelControl'
    BY <1>1, <1>2, <2>1, <2>2, <2>4 DEF TelControl
  <2>6. Phase'
    BY <2>2 DEF Phase
  <2> QED BY <1>3, <2>3, <2>5, <2>6 DEF TelIInv
<1>8. CASE TimedOut
  <2>1. front' = Closing(front) /\ back' = Closing(back) /\ UNCHANGED <<freed, late, toProxy>>
    BY <1>8 DEF TimedOut
  <2>2. back' \notin {"up", "secure"} /\ (back' \in {"dialing", "refused"} => back' = back)
    BY <1>1, <2>1 DEF EndsOK, Closing
  <2>3. (front' # "lost" => front # "lost") /\ front' # "up"
    BY <2>1 DEF Closing
  <2>4. EndsOK'
    BY <1>1, <2>1 DEF EndsOK, Closing
  <2>5. Started => Started'
    BY <1>2, <2>1 DEF Started
  <2>6. TelControl'
    BY <1>1, <1>2, <2>1, <2>2, <2>3, <2>5 DEF TelControl
  <2>7. Phase'
    BY <2>2 DEF Phase
  <2> QED BY <1>3, <2>4, <2>6, <2>7 DEF TelIInv
<1> QED BY <1>4, <1>5, <1>6, <1>7, <1>8

\* addPacket of the backend: a prompt reaches the proxy.
LEMMA TelnetPromptKeeps ==
  ASSUME TelIInv, TelnetPrompt
  PROVE  TelIInv'
<1>1. /\ EndsOK /\ TelTypes /\ TelControl /\ Phase /\ back = "up" /\ toProxy # <<>> /\ toProxy' = Tail(toProxy)
      /\ tel' = (IF tel.authDone THEN tel
                 ELSE [tel EXCEPT !.login = @ \/ Head(toProxy) = "login:", !.password = @ \/ Head(toProxy) = "password:",
                                  !.echo = FALSE])
      /\ UNCHANGED <<front, back, timer, freed, late, sent, toHost, shell>>
  BY DEF TelIInv, TelnetPrompt, ends
<1>2. DOMAIN tel = Keys /\ toProxy \in Seq(Prompts) /\ tel.login \in BOOLEAN /\ tel.password \in BOOLEAN
  BY <1>1, KeysAre DEF TelTypes
<1>3. /\ DOMAIN tel' = Keys /\ tel'.buffer = tel.buffer
      /\ tel'.authDone = tel.authDone /\ tel'.ahead = tel.ahead /\ tel'.accepted = tel.accepted
      /\ ~ tel.authDone => /\ tel'.login = (tel.login \/ Head(toProxy) = "login:")
                           /\ tel'.password = (tel.password \/ Head(toProxy) = "password:")
      /\ tel.authDone => tel' = tel
  BY <1>1, <1>2 DEF Keys
<1>4. TelTypes'
  <2>1. DOMAIN tel' = DOMAIN NoTelnet'
    BY <1>3, KeysAre DEF NoTelnet
  <2>2. toProxy' \in Seq(Prompts)
    BY <1>1, <1>2
  <2>3. tel'.login \in BOOLEAN /\ tel'.password \in BOOLEAN
    BY <1>2, <1>3
  <2> QED BY <1>1, <1>3, <2>1, <2>2, <2>3 DEF TelTypes
<1>5. EndsOK' /\ TelControl'
  BY <1>1, <1>3 DEF EndsOK, TelControl
<1>6. Phase'
  <2> SUFFICES ASSUME ~ tel.ahead PROVE AskedUser' \/ AskedPassword' \/ LoggedIn'
    BY <1>3 DEF Phase
  <2>1. AskedUser \/ AskedPassword \/ LoggedIn
    BY <1>1 DEF Phase, Started
  <2>2. \A prompt : toProxy = <<prompt>> => Head(toProxy) = prompt /\ toProxy' = <<>>
    BY <1>1
  <2>3. CASE AskedUser
    <3>1. toProxy = <<"login:">> /\ ~ tel.login /\ ~ tel.password /\ AllEnv(toHost) /\ ~ tel.authDone
      BY <1>1, <2>3 DEF AskedUser, Token
    <3>2. tel'.login = TRUE /\ tel'.password = FALSE /\ toProxy' = <<>>
      BY <1>3, <2>2, <3>1
    <3>3. Token("login:", "backend user")'
      BY <1>1, <3>1, <3>2 DEF Token
    <3> QED BY <1>1, <1>3, <2>3, <3>3 DEF AskedUser
  <2>4. CASE AskedPassword
    <3>1. toProxy = <<"password:">> /\ ~ tel.login /\ ~ tel.password /\ AllEnv(toHost) /\ ~ tel.authDone
      BY <1>1, <2>4 DEF AskedPassword, Token
    <3>2. tel'.login = FALSE /\ tel'.password = TRUE /\ toProxy' = <<>>
      BY <1>3, <2>2, <3>1
    <3>3. Token("password:", "fake")'
      BY <1>1, <3>1, <3>2 DEF Token
    <3> QED BY <1>1, <1>3, <2>4, <3>3 DEF AskedPassword
  <2>5. CASE LoggedIn
    BY <1>1, <1>3, <2>5 DEF LoggedIn
  <2> QED BY <2>1, <2>3, <2>4, <2>5
<1> QED BY <1>4, <1>5, <1>6 DEF TelIInv

\* The guest's telnetd prompts, and takes a line.
LEMMA TelnetdKeeps ==
  ASSUME TelIInv, Telnetd
  PROVE  TelIInv'
<1> DEFINE line == Head(toHost)
           rest == Tail(toHost)
<1>1. /\ EndsOK /\ TelTypes /\ TelControl /\ Phase /\ back \notin {"dialing", "refused", "secure"}
      /\ UNCHANGED <<front, back, timer, freed, late, sent, tel>>
  BY DEF TelIInv, Telnetd, ends, TelControl
<1>2. /\ DOMAIN shell = {"st", "user"} /\ shell.st \in {"boot", "user", "pass", "in"}
      /\ toProxy \in Seq(Prompts) /\ toHost \in Seq(Lines)
  BY <1>1 DEF TelTypes
<1>3. \A p \in Prompts : Prompt(p) => toProxy' \in Seq(Prompts) /\ (back = "up" /\ toProxy = <<>> => toProxy' = <<p>>)
  <2> SUFFICES ASSUME NEW p \in Prompts, Prompt(p)
               PROVE  toProxy' \in Seq(Prompts) /\ (back = "up" /\ toProxy = <<>> => toProxy' = <<p>>)
    OBVIOUS
  <2>1. Append(toProxy, p) \in Seq(Prompts) /\ Append(<<>>, p) = <<p>>
    BY <1>2
  <2> QED BY <1>2, <2>1 DEF Prompt
<1>4. /\ toHost # <<>> => /\ rest \in Seq(Lines)
                          /\ AllEnv(toHost) => AllEnv(rest) /\ line = Env
                          /\ \A l : OneLine(toHost, l) /\ l # Env =>
                               IF line = Env THEN OneLine(rest, l) ELSE line = l /\ AllEnv(rest)
                          /\ \A l : First(toHost, l) /\ l # Env => IF line = Env THEN First(rest, l) ELSE line = l
                          /\ NoPassword(toHost) => NoPassword(rest) /\ line # "backend password"
  BY <1>2, LineTaken
<1>5. \/ shell.st = "boot" /\ shell' = [shell EXCEPT !.st = "user"] /\ Prompt("login:") /\ UNCHANGED toHost
      \/ /\ toHost # <<>> /\ toHost' = rest
         /\ \/ shell.st = "boot" /\ line = Env /\ shell' = [st |-> "pass", user |-> "backend user"] /\ Prompt("password:")
            \/ shell.st = "user" /\ line # Env /\ shell' = [st |-> "pass", user |-> line] /\ Prompt("password:")
            \/ /\ shell.st = "pass" /\ line # Env /\ shell.user = "backend user" /\ line = "backend password"
               /\ shell' = [shell EXCEPT !.st = "in"] /\ Prompt("$")
            \/ /\ shell.st = "pass" /\ line # Env /\ ~ (shell.user = "backend user" /\ line = "backend password")
               /\ shell' = [st |-> "user", user |-> None] /\ Prompt("login:")
            \/ shell.st # "boot" /\ (line = Env \/ shell.st = "in") /\ UNCHANGED <<shell, toProxy>>
  BY DEF Telnetd, Env
<1> HIDE DEF line, rest
<1>6. TelTypes'
  <2>1. DOMAIN shell' = {"st", "user"} /\ shell'.st \in {"boot", "user", "pass", "in"}
    <3>1. \/ shell' = shell \/ \E s \in {"user", "in"} : shell' = [shell EXCEPT !.st = s]
          \/ \E s \in {"user", "pass"} : \E u : shell' = [st |-> s, user |-> u]
      BY <1>5
    <3>2. \A s \in {"user", "in"} : DOMAIN [shell EXCEPT !.st = s] = {"st", "user"} /\ [shell EXCEPT !.st = s].st = s
      BY <1>2
    <3>3. \A s, u : DOMAIN [st |-> s, user |-> u] = {"st", "user"} /\ [st |-> s, user |-> u].st = s
      OBVIOUS
    <3> QED BY <1>2, <3>1, <3>2, <3>3
  <2>2. toHost' \in Seq(Lines)
    <3>1. toHost' = toHost \/ (toHost # <<>> /\ toHost' = rest)
      BY <1>5
    <3> QED BY <1>2, <1>4, <3>1
  <2>3. toProxy' \in Seq(Prompts)
    BY <1>2, <1>3, <1>5 DEF Prompts
  <2> QED BY <1>1, <2>1, <2>2, <2>3 DEF TelTypes
<1>7. EndsOK' /\ TelControl'
  <2>1. EndsOK'
    BY <1>1 DEF EndsOK
  <2>2. ~ tel.accepted => NoPassword(toHost') /\ shell'.st # "in"
    <3>1. ~ tel.accepted => NoPassword(toHost) /\ shell.st # "in"
      BY <1>1 DEF TelControl
    <3>2. toHost' = toHost \/ (toHost # <<>> /\ toHost' = rest)
      BY <1>5
    <3>3. ~ tel.accepted => NoPassword(toHost')
      BY <1>4, <3>1, <3>2
    <3>4. ASSUME ~ tel.accepted, shell'.st = "in" PROVE FALSE
      <4>1. toHost # <<>> => line # "backend password"
        BY <1>4, <3>1, <3>4
      <4>2. CASE shell' = shell
        BY <3>1, <3>4, <4>2
      <4>3. CASE shell' = [shell EXCEPT !.st = "user"]
        BY <1>2, <3>4, <4>3
      <4>4. ASSUME NEW s \in {"user", "pass"}, NEW u, shell' = [st |-> s, user |-> u] PROVE FALSE
        BY <3>4, <4>4
      <4>5. shell' = shell \/ shell' = [shell EXCEPT !.st = "user"] \/ \E s \in {"user", "pass"} : \E u : shell' = [st |-> s, user |-> u]
        BY <1>5, <4>1
      <4> QED BY <4>2, <4>3, <4>4, <4>5
    <3> QED BY <3>3, <3>4
  <2> QED BY <1>1, <2>1, <2>2 DEF TelControl
<1>8. Phase'
  <2> SUFFICES ASSUME ~ tel.ahead, back = "up" PROVE Started' \/ AskedUser' \/ AskedPassword' \/ LoggedIn'
    BY <1>1 DEF Phase
  <2>1. Started \/ AskedUser \/ AskedPassword \/ LoggedIn
    BY <1>1 DEF Phase
  <2>2. "backend user" # Env /\ "fake" # Env /\ "backend password" # Env
    BY DEF Env
  <2>3. CASE Started
    <3>1. shell.st = "boot" /\ toProxy = <<>> /\ ~ tel.login /\ ~ tel.password /\ AllEnv(toHost) /\ ~ tel.authDone
      BY <2>3 DEF Started
    <3>2. CASE shell' = [shell EXCEPT !.st = "user"] /\ Prompt("login:") /\ UNCHANGED toHost
      <4>1. toProxy' = <<"login:">> /\ shell'.st = "user"
        BY <1>2, <1>3, <3>1, <3>2 DEF Prompts
      <4> QED BY <1>1, <3>1, <3>2, <4>1 DEF AskedUser, Token
    <3>3. CASE toHost # <<>> /\ toHost' = rest /\ shell' = [st |-> "pass", user |-> "backend user"] /\ Prompt("password:")
      <4>1. toProxy' = <<"password:">> /\ shell'.st = "pass" /\ shell'.user = "backend user" /\ AllEnv(rest)
        BY <1>3, <1>4, <3>1, <3>3 DEF Prompts
      <4> QED BY <1>1, <3>1, <3>3, <4>1 DEF AskedPassword, Token
    <3> QED BY <1>5, <3>1, <3>2, <3>3
  <2>4. CASE AskedUser
    <3>1. shell.st = "user" /\ ~ tel.authDone /\ Token("login:", "backend user")
      BY <2>4 DEF AskedUser
    <3>2. toHost # <<>> /\ toHost' = rest
      BY <1>5, <3>1
    <3>3. CASE line = Env
      <4>1. UNCHANGED <<shell, toProxy>>
        BY <1>5, <3>1, <3>3
      <4>2. (AllEnv(toHost) => AllEnv(rest)) /\ (OneLine(toHost, "backend user") => OneLine(rest, "backend user"))
        BY <1>4, <2>2, <3>2, <3>3
      <4>3. Token("login:", "backend user")'
        BY <1>1, <3>1, <3>2, <4>1, <4>2 DEF Token
      <4> QED BY <1>1, <3>1, <4>1, <4>3 DEF AskedUser
    <3>4. CASE line # Env
      <4>1. toProxy = <<>> /\ ~ tel.login /\ ~ tel.password /\ line = "backend user" /\ AllEnv(rest)
        BY <1>4, <2>2, <3>1, <3>2, <3>4 DEF Token
      <4>2. shell' = [st |-> "pass", user |-> line] /\ Prompt("password:")
        BY <1>5, <3>1, <3>4
      <4>3. toProxy' = <<"password:">>
        BY <1>3, <4>1, <4>2 DEF Prompts
      <4> QED BY <1>1, <3>1, <3>2, <4>1, <4>2, <4>3 DEF AskedPassword, Token
    <3> QED BY <3>3, <3>4
  <2>5. CASE AskedPassword
    <3>1. shell.st = "pass" /\ shell.user = "backend user" /\ ~ tel.authDone /\ Token("password:", "fake")
      BY <2>5 DEF AskedPassword
    <3>2. toHost # <<>> /\ toHost' = rest
      BY <1>5, <3>1
    <3>3. CASE line = Env
      <4>1. UNCHANGED <<shell, toProxy>>
        BY <1>5, <3>1, <3>3
      <4>2. (AllEnv(toHost) => AllEnv(rest)) /\ (OneLine(toHost, "fake") => OneLine(rest, "fake"))
        BY <1>4, <2>2, <3>2, <3>3
      <4>3. Token("password:", "fake")'
        BY <1>1, <3>1, <3>2, <4>1, <4>2 DEF Token
      <4> QED BY <1>1, <3>1, <4>1, <4>3 DEF AskedPassword
    <3>4. CASE line # Env
      <4>1. toProxy = <<>> /\ ~ tel.login /\ ~ tel.password /\ line = "fake" /\ AllEnv(rest)
        BY <1>4, <2>2, <3>1, <3>2, <3>4 DEF Token
      <4>2. shell' = [st |-> "user", user |-> None] /\ Prompt("login:")
        BY <1>5, <3>1, <3>4, <4>1
      <4>3. toProxy' = <<"login:">>
        BY <1>3, <4>1, <4>2 DEF Prompts
      <4> QED BY <1>1, <3>1, <3>2, <4>1, <4>2, <4>3 DEF AskedUser, Token
    <3> QED BY <3>3, <3>4
  <2>6. CASE LoggedIn
    <3>1. tel.authDone
      BY <2>6 DEF LoggedIn
    <3>2. CASE shell.st = "in"
      <4>1. shell' = shell
        BY <1>5, <3>2
      <4> QED BY <1>1, <3>1, <3>2, <4>1 DEF LoggedIn
    <3>3. CASE shell.st = "pass" /\ shell.user = "backend user" /\ First(toHost, "backend password")
      <4>1. toHost # <<>> /\ toHost' = rest
        BY <1>5, <3>3
      <4>2. IF line = Env THEN First(rest, "backend password") ELSE line = "backend password"
        BY <1>4, <2>2, <3>3, <4>1
      <4>3. CASE line = Env
        <5>1. shell' = shell
          BY <1>5, <3>3, <4>3
        <5> QED BY <1>1, <3>1, <3>3, <4>1, <4>2, <4>3, <5>1 DEF LoggedIn
      <4>4. CASE line # Env
        <5>1. shell' = [shell EXCEPT !.st = "in"]
          BY <1>5, <3>3, <4>2, <4>4
        <5> QED BY <1>1, <1>2, <3>1, <5>1 DEF LoggedIn
      <4> QED BY <4>3, <4>4
    <3> QED BY <2>6, <3>2, <3>3 DEF LoggedIn
  <2> QED BY <2>1, <2>3, <2>4, <2>5, <2>6
<1> QED BY <1>6, <1>7, <1>8 DEF TelIInv

\* What the proxy makes of a line it may take for a password or a name.
LEMMA Processed ==
  ASSUME TelTypes, TelControl, ~ tel.authDone, NEW line \in {"name", "right", "wrong"}
  PROVE  LET waited == tel.login # tel.password
             r == ProcessUsername(ProcessPassword([tel EXCEPT !.ahead = @ \/ ~ waited], line))
             t == r.t
         IN  /\ DOMAIN t = Keys /\ t.buffer = tel.buffer /\ t.ahead = (tel.ahead \/ ~ waited)
             /\ t.login \in BOOLEAN /\ t.password \in BOOLEAN /\ t.authDone \in BOOLEAN /\ t.accepted = t.authDone
             /\ r.line \in Lines /\ (r.line = "backend password" => t.authDone)
             /\ ~ tel.login /\ ~ tel.password => ~ t.login /\ ~ t.password /\ ~ t.authDone
             /\ tel.login /\ ~ tel.password => ~ t.login /\ ~ t.password /\ ~ t.authDone /\ r.line = "backend user"
             /\ ~ tel.login /\ tel.password =>
                  /\ ~ t.login /\ ~ t.password
                  /\ r.line = IF t.authDone THEN "backend password" ELSE "fake"
<1> DEFINE t0 == [tel EXCEPT !.ahead = @ \/ ~ (tel.login # tel.password)]
           r1 == ProcessPassword(t0, line)
           r2 == ProcessUsername(r1)
<1>1. /\ DOMAIN tel = Keys /\ tel.login \in BOOLEAN /\ tel.password \in BOOLEAN /\ tel.authDone = FALSE /\ tel.accepted = FALSE
      /\ tel.ahead \in BOOLEAN
  BY KeysAre DEF TelTypes, TelControl
<1>2. /\ DOMAIN t0 = Keys /\ t0.buffer = tel.buffer /\ t0.ahead = (tel.ahead \/ ~ (tel.login # tel.password))
      /\ t0.login = tel.login /\ t0.password = tel.password /\ t0.authDone = FALSE /\ t0.accepted = FALSE
  BY <1>1 DEF Keys
<1> HIDE DEF t0
<1> DEFINE b == tel.password /\ line = "right"
<1>3. /\ DOMAIN r1.t = Keys /\ r1.t.buffer = tel.buffer /\ r1.t.ahead = t0.ahead
      /\ r1.t.login = tel.login /\ r1.t.password = FALSE /\ r1.t.authDone = b /\ r1.t.accepted = b
      /\ r1.line = IF ~ tel.password THEN line ELSE IF b THEN "backend password" ELSE "fake"
      /\ r1 = [t |-> r1.t, line |-> r1.line]
  <2>1. CASE ~ tel.password
    <3>1. r1 = [t |-> t0, line |-> line]
      BY <1>2, <2>1 DEF ProcessPassword
    <3> HIDE DEF r1
    <3> QED BY <1>1, <1>2, <2>1, <3>1
  <2>2. CASE tel.password /\ line = "right"
    <3>1. r1 = [t |-> [t0 EXCEPT !.password = FALSE, !.accepted = TRUE, !.authDone = TRUE], line |-> "backend password"]
      BY <1>2, <2>2 DEF ProcessPassword
    <3> HIDE DEF r1
    <3> QED BY <1>1, <1>2, <2>2, <3>1 DEF Keys
  <2>3. CASE tel.password /\ line # "right"
    <3>1. r1 = [t |-> [t0 EXCEPT !.password = FALSE], line |-> "fake"]
      BY <1>2, <2>3 DEF ProcessPassword
    <3> HIDE DEF r1
    <3> QED BY <1>1, <1>2, <2>3, <3>1 DEF Keys
  <2> QED BY <2>1, <2>2, <2>3
<1> HIDE DEF r1
<1>4. /\ DOMAIN r2.t = Keys /\ r2.t.buffer = tel.buffer /\ r2.t.ahead = t0.ahead
      /\ r2.t.login = FALSE /\ r2.t.password = FALSE /\ r2.t.authDone = b /\ r2.t.accepted = b
      /\ r2.line = IF tel.login THEN "backend user" ELSE r1.line
  <2>1. CASE ~ tel.login
    <3>1. r2 = r1
      BY <1>3, <2>1 DEF ProcessUsername
    <3> HIDE DEF r2
    <3> QED BY <1>1, <1>3, <2>1, <3>1
  <2>2. CASE tel.login
    <3>1. r2 = [t |-> [r1.t EXCEPT !.login = FALSE, !.echo = TRUE], line |-> "backend user"]
      BY <1>3, <2>2 DEF ProcessUsername
    <3> HIDE DEF r2
    <3> QED BY <1>1, <1>3, <2>2, <3>1 DEF Keys
  <2> QED BY <2>1, <2>2
<1> HIDE DEF r2
<1>5. r1.line \in Lines /\ r2.line \in Lines
  BY <1>3, <1>4 DEF Lines
<1>6. /\ DOMAIN r2.t = Keys /\ r2.t.buffer = tel.buffer /\ r2.t.ahead = (tel.ahead \/ ~ (tel.login # tel.password))
      /\ r2.t.login \in BOOLEAN /\ r2.t.password \in BOOLEAN /\ r2.t.authDone \in BOOLEAN /\ r2.t.accepted = r2.t.authDone
      /\ r2.line \in Lines /\ (r2.line = "backend password" => r2.t.authDone)
      /\ ~ tel.login /\ ~ tel.password => ~ r2.t.login /\ ~ r2.t.password /\ ~ r2.t.authDone
      /\ tel.login /\ ~ tel.password => ~ r2.t.login /\ ~ r2.t.password /\ ~ r2.t.authDone /\ r2.line = "backend user"
      /\ ~ tel.login /\ tel.password =>
           /\ ~ r2.t.login /\ ~ r2.t.password
           /\ r2.line = IF r2.t.authDone THEN "backend password" ELSE "fake"
  BY <1>1, <1>2, <1>3, <1>4, <1>5
<1> QED BY <1>6 DEF r2, r1, t0

\* No lines at all.
LEMMA NoLines == AllEnv(<<>>) /\ NoPassword(<<>>) /\ <<>> \in Seq(Lines)
BY DEF AllEnv, NoPassword

\* One line more waits.
LEMMA LineBuffered ==
  ASSUME NEW b \in Seq(Lines), NEW line \in Lines
  PROVE  /\ Append(b, line) \in Seq(Lines)
         /\ AllEnv(b) /\ line = Env => AllEnv(Append(b, line))
         /\ NoPassword(b) /\ line # "backend password" => NoPassword(Append(b, line))
<1> DEFINE g == Append(b, line)
<1>1. /\ g \in Seq(Lines) /\ DOMAIN g = 1 .. Len(b) + 1 /\ g[Len(b) + 1] = line /\ \A i \in 1 .. Len(b) : g[i] = b[i]
      /\ Len(b) \in Nat /\ DOMAIN b = 1 .. Len(b)
  OBVIOUS
<1> HIDE DEF g
<1>2. \A i \in DOMAIN g : (i \in DOMAIN b /\ g[i] = b[i]) \/ g[i] = line
  <2> SUFFICES ASSUME NEW i \in DOMAIN g, i # Len(b) + 1 PROVE i \in 1 .. Len(b)
    BY <1>1
  <2> QED BY <1>1
<1>3. AllEnv(b) /\ line = Env => AllEnv(g)
  BY <1>2 DEF AllEnv
<1>4. NoPassword(b) /\ line # "backend password" => NoPassword(g)
  BY <1>2 DEF NoPassword
<1> QED BY <1>1, <1>3, <1>4 DEF g

\* A line leaves, or waits for the backend.
LEMMA LineLeaves ==
  ASSUME TelIInv, front = "up", NEW t, NEW line \in Lines, SendBackend(t, line),
         DOMAIN t = Keys, t.buffer = tel.buffer, t.login \in BOOLEAN, t.password \in BOOLEAN, t.authDone \in BOOLEAN,
         t.accepted = t.authDone, t.ahead \in BOOLEAN, tel.authDone => t.authDone, tel.ahead => t.ahead,
         line = "backend password" => t.authDone,
         back = "dialing" => ~ t.authDone /\ ~ t.login /\ ~ t.password /\ (t.ahead \/ line = Env),
         sent < Packets, sent' = sent + 1, timer' \in BOOLEAN,
         UNCHANGED <<front, back, freed, late, toProxy, shell>>,
         back = "up" /\ ~ t.ahead /\ ~ tel.ahead =>
           \/ t = tel /\ (line = Env \/ tel.authDone)
           \/ /\ ~ tel.authDone /\ tel.login /\ ~ tel.password /\ ~ t.login /\ ~ t.password /\ ~ t.authDone
              /\ line = "backend user"
           \/ /\ ~ tel.authDone /\ ~ tel.login /\ tel.password /\ ~ t.login /\ ~ t.password
              /\ line = IF t.authDone THEN "backend password" ELSE "fake"
  PROVE  TelIInv'
<1>1. EndsOK /\ TelTypes /\ TelControl /\ Phase /\ back \notin {"secure", "refused"}
  BY DEF TelIInv, TelControl
<1>2. /\ DOMAIN tel = Keys /\ tel.buffer \in Seq(Lines) /\ toHost \in Seq(Lines) /\ toProxy \in Seq(Prompts)
      /\ DOMAIN shell = {"st", "user"} /\ shell.st \in {"boot", "user", "pass", "in"}
      /\ tel.ahead \in BOOLEAN /\ tel.authDone \in BOOLEAN
  BY <1>1, KeysAre DEF TelTypes
<1> DEFINE b == Append(tel.buffer, line)
           g == toHost \o b
<1>3. /\ DOMAIN tel' = Keys /\ tel'.login = t.login /\ tel'.password = t.password /\ tel'.authDone = t.authDone
      /\ tel'.ahead = t.ahead /\ tel'.accepted = t.accepted
      /\ back = "dialing" => tel'.buffer = b /\ toHost' = toHost
      /\ back # "dialing" => tel'.buffer = <<>> /\ toHost' = IF back = "up" THEN g ELSE toHost
  <2>1. CASE back = "dialing"
    <3>1. tel' = [t EXCEPT !.buffer = b] /\ toHost' = toHost
      BY <2>1 DEF SendBackend
    <3> HIDE DEF b, g
    <3> QED BY <2>1, <3>1 DEF Keys
  <2>2. CASE back # "dialing"
    <3>1. tel' = [t EXCEPT !.buffer = <<>>] /\ toHost' = IF back = "up" THEN g ELSE toHost
      BY <1>1, <2>2 DEF SendBackend
    <3> HIDE DEF b, g
    <3> QED BY <2>2, <3>1 DEF Keys
  <2> QED BY <2>1, <2>2
<1>4. /\ g \in Seq(Lines)
      /\ AllEnv(toHost) /\ AllEnv(tel.buffer) /\ line = Env => AllEnv(g)
      /\ AllEnv(toHost) /\ AllEnv(tel.buffer) => OneLine(g, line) /\ First(g, line)
      /\ \A l : OneLine(toHost, l) /\ AllEnv(tel.buffer) /\ line = Env => OneLine(g, l)
      /\ \A l : First(toHost, l) => First(g, l)
      /\ NoPassword(toHost) /\ NoPassword(tel.buffer) /\ line # "backend password" => NoPassword(g)
  BY <1>2, LinesAdded
<1>5. /\ b \in Seq(Lines)
      /\ AllEnv(tel.buffer) /\ line = Env => AllEnv(b)
      /\ NoPassword(tel.buffer) /\ line # "backend password" => NoPassword(b)
  BY <1>2, LineBuffered
<1>6. AllEnv(<<>>) /\ NoPassword(<<>>) /\ <<>> \in Seq(Lines)
  BY NoLines
<1> HIDE DEF b, g
<1>7. EndsOK'
  <2>1. sent' \in 0 .. Packets
    BY <1>1, OneMoreSent
  <2> QED BY <1>1, <2>1 DEF EndsOK
<1>8. TelTypes'
  <2>1. DOMAIN tel' = DOMAIN NoTelnet'
    BY <1>3, KeysAre DEF NoTelnet
  <2>2. tel'.buffer \in Seq(Lines) /\ toHost' \in Seq(Lines)
    BY <1>2, <1>3, <1>4, <1>5, <1>6
  <2> QED BY <1>2, <1>3, <2>1, <2>2 DEF TelTypes
<1>9. TelControl'
  <2>1. /\ tel.accepted = tel.authDone /\ (front # "lost" => freed = "none") /\ (freed = "u" => ~ tel.authDone)
        /\ ~ tel.ahead => AllEnv(tel.buffer)
        /\ ~ tel.accepted => NoPassword(tel.buffer) /\ NoPassword(toHost) /\ shell.st # "in"
        /\ back = "dialing" => Started /\ toHost = <<>>
    BY <1>1 DEF TelControl
  <2>2. ~ tel'.ahead => AllEnv(tel'.buffer)
    BY <1>1, <1>3, <1>5, <1>6, <2>1
  <2>3. ~ tel'.accepted => NoPassword(tel'.buffer) /\ NoPassword(toHost') /\ shell'.st # "in"
    BY <1>1, <1>3, <1>4, <1>5, <1>6, <2>1
  <2>4. back = "dialing" => Started' /\ toHost' = <<>>
    BY <1>3, <2>1 DEF Started
  <2>5. freed' = "none"
    BY <2>1
  <2> QED BY <1>1, <1>3, <2>2, <2>3, <2>4, <2>5 DEF TelControl
<1>10. Phase'
  <2> SUFFICES ASSUME back = "up", ~ t.ahead PROVE Started' \/ AskedUser' \/ AskedPassword' \/ LoggedIn'
    BY <1>3 DEF Phase
  <2>1. ~ tel.ahead /\ AllEnv(tel.buffer) /\ toHost' = g
    <3>1. ~ tel.ahead
      OBVIOUS
    <3> QED BY <1>1, <1>3, <3>1 DEF TelControl
  <2>2. Started \/ AskedUser \/ AskedPassword \/ LoggedIn
    BY <1>1, <2>1 DEF Phase
  <2>3. CASE tel.authDone
    <3>1. tel'.authDone /\ LoggedIn
      BY <1>3, <2>2, <2>3 DEF Started, AskedUser, AskedPassword
    <3> QED BY <1>4, <2>1, <3>1 DEF LoggedIn
  <2>4. CASE t = tel /\ line = Env /\ ~ tel.authDone
    <3>1. /\ AllEnv(toHost) => AllEnv(toHost')
          /\ \A l : OneLine(toHost, l) => OneLine(toHost', l)
      BY <1>4, <2>1, <2>4
    <3>2. tel'.login = tel.login /\ tel'.password = tel.password /\ ~ tel'.authDone
      BY <1>3, <2>4
    <3>3. \A prompt, l : Token(prompt, l) => Token(prompt, l)'
      BY <3>1, <3>2 DEF Token
    <3>4. CASE Started
      BY <3>1, <3>2, <3>4 DEF Started
    <3>5. CASE AskedUser
      BY <3>2, <3>3, <3>5 DEF AskedUser
    <3>6. CASE AskedPassword
      BY <3>2, <3>3, <3>6 DEF AskedPassword
    <3> QED BY <2>2, <2>4, <3>4, <3>5, <3>6 DEF LoggedIn
  <2>5. CASE /\ ~ tel.authDone /\ tel.login /\ ~ tel.password /\ ~ t.login /\ ~ t.password /\ ~ t.authDone
             /\ line = "backend user"
    <3>1. shell.st = "user" /\ toProxy = <<>> /\ AllEnv(toHost)
      <4>1. AskedUser
        BY <2>2, <2>5 DEF Started, AskedPassword, LoggedIn, Token
      <4>2. \A p : <<p>> # <<>>
        OBVIOUS
      <4> QED BY <2>5, <4>1, <4>2 DEF AskedUser, Token
    <3>2. OneLine(toHost', "backend user")
      BY <1>4, <2>1, <2>5, <3>1
    <3>3. Token("login:", "backend user")'
      BY <1>3, <2>5, <3>1, <3>2 DEF Token
    <3> QED BY <1>3, <2>5, <3>1, <3>3 DEF AskedUser
  <2>6. CASE /\ ~ tel.authDone /\ ~ tel.login /\ tel.password /\ ~ t.login /\ ~ t.password
             /\ line = IF t.authDone THEN "backend password" ELSE "fake"
    <3>1. shell.st = "pass" /\ shell.user = "backend user" /\ toProxy = <<>> /\ AllEnv(toHost)
      <4>1. AskedPassword
        BY <2>2, <2>6 DEF Started, AskedUser, LoggedIn, Token
      <4> QED BY <2>6, <4>1 DEF AskedPassword, Token
    <3>2. OneLine(toHost', line) /\ First(toHost', line)
      BY <1>4, <2>1, <3>1
    <3>3. CASE t.authDone
      BY <1>3, <2>6, <3>1, <3>2, <3>3 DEF LoggedIn
    <3>4. CASE ~ t.authDone
      <4>1. Token("password:", "fake")'
        BY <1>3, <2>6, <3>1, <3>2, <3>4 DEF Token
      <4> QED BY <1>3, <2>6, <3>1, <3>4, <4>1 DEF AskedPassword
    <3> QED BY <3>3, <3>4
  <2> QED BY <2>1, <2>3, <2>4, <2>5, <2>6
<1> QED BY <1>7, <1>8, <1>9, <1>10 DEF TelIInv

\* addPacket of the frontend: a line of the attacker.
LEMMA TelnetLineKeeps ==
  ASSUME TelIInv, NEW line \in {"name", "right", "wrong", "env"}, TelnetLine(line)
  PROVE  TelIInv'
<1>1. /\ EndsOK /\ TelTypes /\ TelControl /\ front = "up" /\ sent < Packets /\ sent' = sent + 1
      /\ UNCHANGED <<front, back, freed, late, toProxy, shell>>
  BY DEF TelIInv, TelnetLine
<1>2. /\ DOMAIN tel = Keys /\ tel.login \in BOOLEAN /\ tel.password \in BOOLEAN /\ tel.authDone \in BOOLEAN
      /\ tel.ahead \in BOOLEAN /\ tel.accepted = tel.authDone /\ timer \in BOOLEAN
      /\ back = "dialing" => ~ tel.login /\ ~ tel.password /\ ~ tel.authDone
  BY <1>1, KeysAre DEF TelTypes, TelControl, EndsOK, Started
<1>3. line \in Lines /\ Env \in Lines
  BY DEF Lines
<1>4. CASE tel.authDone
  <2>1. SendBackend(tel, line) /\ timer' = timer
    BY <1>4 DEF TelnetLine
  <2> QED BY <1>1, <1>2, <1>3, <1>4, <2>1, LineLeaves
<1>5. CASE ~ tel.authDone /\ line = "env"
  <2>1. SendBackend(tel, Env) /\ timer' = timer
    BY <1>5 DEF TelnetLine, Spoofed, Env
  <2>2. Env # "backend password"
    BY DEF Env
  <2> QED BY <1>1, <1>2, <1>3, <1>5, <2>1, <2>2, LineLeaves
<1>6. CASE ~ tel.authDone /\ line # "env"
  <2> DEFINE waited == tel.login # tel.password
             r == ProcessUsername(ProcessPassword([tel EXCEPT !.ahead = @ \/ ~ waited], line))
             t == r.t
  <2>1. SendBackend(t, r.line) /\ timer' = (timer \/ t.authDone)
    BY <1>6 DEF TelnetLine
  <2>2. /\ DOMAIN t = Keys /\ t.buffer = tel.buffer /\ t.ahead = (tel.ahead \/ ~ waited)
        /\ t.login \in BOOLEAN /\ t.password \in BOOLEAN /\ t.authDone \in BOOLEAN /\ t.accepted = t.authDone
        /\ r.line \in Lines /\ (r.line = "backend password" => t.authDone)
        /\ tel.login /\ ~ tel.password => ~ t.login /\ ~ t.password /\ ~ t.authDone /\ r.line = "backend user"
        /\ ~ tel.login /\ tel.password =>
             /\ ~ t.login /\ ~ t.password
             /\ r.line = IF t.authDone THEN "backend password" ELSE "fake"
    <3>1. line \in {"name", "right", "wrong"}
      BY <1>6
    <3> QED BY <1>1, <1>6, <3>1, Processed
  <2> HIDE DEF r
  <2>3. ~ t.ahead => (tel.login /\ ~ tel.password) \/ (~ tel.login /\ tel.password)
    BY <1>2, <2>2
  <2>7. ~ tel.login /\ ~ tel.password => ~ t.login /\ ~ t.password /\ ~ t.authDone
    <3>1. line \in {"name", "right", "wrong"}
      BY <1>6
    <3> QED BY <1>1, <1>6, <3>1, Processed DEF r
  <2>4. back = "dialing" => t.ahead /\ ~ t.login /\ ~ t.password /\ ~ t.authDone
    BY <1>2, <2>2, <2>7
  <2>5. t.ahead \in BOOLEAN /\ (tel.ahead => t.ahead) /\ timer' \in BOOLEAN
    BY <1>2, <2>1, <2>2
  <2>6. ~ t.ahead =>
          \/ /\ ~ tel.authDone /\ tel.login /\ ~ tel.password /\ ~ t.login /\ ~ t.password /\ ~ t.authDone
             /\ r.line = "backend user"
          \/ /\ ~ tel.authDone /\ ~ tel.login /\ tel.password /\ ~ t.login /\ ~ t.password
             /\ r.line = IF t.authDone THEN "backend password" ELSE "fake"
    BY <1>6, <2>2, <2>3
  <2> HIDE DEF waited
  <2> QED BY <1>1, <1>6, <2>1, <2>2, <2>4, <2>5, <2>6, LineLeaves
<1> QED BY <1>4, <1>5, <1>6

\* The invariant of a Telnet connection holds at first.
LEMMA TelStarts ==
  ASSUME Init
  PROVE  TelIInv
<1>1. /\ front = "up" /\ back = "dialing" /\ freed = "none" /\ late = FALSE /\ timer = FALSE /\ sent = 0
      /\ toHost = <<>> /\ toProxy = <<>> /\ tel = NoTelnet /\ shell = [st |-> "boot", user |-> None]
  BY DEF Init
<1>2. EndsOK
  <2>1. sent \in 0 .. Packets
    <3>1. Packets \in Nat
      BY ProxyAssumption
    <3>2. sent = 0
      BY <1>1
    <3> QED BY <3>1, <3>2
  <2> QED BY <1>1, <2>1 DEF EndsOK
<1>3. /\ tel.buffer = <<>> /\ tel.login = FALSE /\ tel.password = FALSE /\ tel.authDone = FALSE /\ tel.ahead = FALSE
      /\ tel.accepted = FALSE
  BY <1>1 DEF NoTelnet
<1>4. AllEnv(<<>>) /\ NoPassword(<<>>) /\ <<>> \in Seq(Lines) /\ <<>> \in Seq(Prompts)
  BY NoLines
<1>5. DOMAIN shell = {"st", "user"} /\ shell.st = "boot"
  BY <1>1
<1>6. TelTypes
  BY <1>1, <1>3, <1>4, <1>5 DEF TelTypes
<1>7. Started
  BY <1>1, <1>3, <1>4, <1>5 DEF Started
<1>8. TelControl /\ Phase
  BY <1>1, <1>3, <1>4, <1>5, <1>7 DEF TelControl, Phase
<1> QED BY <1>2, <1>6, <1>8 DEF TelIInv

\* A connection is of one kind; the SSH proxy is not used for Telnet.
ProxyIInv ==
  /\ kind \in {"ssh", "telnet"}
  /\ kind = "ssh" => SshIInv
  /\ kind = "telnet" => TelIInv /\ ssh = NoSsh

\* ProxyIInv holds at first.
LEMMA ProxyStarts == Init => ProxyIInv
<1> SUFFICES ASSUME Init PROVE ProxyIInv
  OBVIOUS
<1> QED BY SshStarts, TelStarts DEF ProxyIInv, Init

\* A step of nobody.
LEMMA SshStutters ==
  ASSUME SshIInv, UNCHANGED vars
  PROVE  SshIInv'
<1>1. UNCHANGED <<front, back, timer, freed, late, sent, toHost, toProxy, ssh, att, host, shell>>
  BY DEF vars, ends
<1>2. EndsOK' /\ SshTypes' /\ SshControl' /\ Relays' /\ Known' /\ Ordered'
  BY <1>1 DEF SshIInv, EndsOK, SshTypes, SshControl, Relays, Known, Ordered
<1>3. ParserSound(Parser)'
  <2>1. Parser' = Parser
    BY <1>1 DEF Parser
  <2> QED BY <2>1 DEF SshIInv, ParserSound
<1> QED BY <1>2, <1>3 DEF SshIInv

\* A step of nobody, over Telnet.
LEMMA TelStutters ==
  ASSUME TelIInv, UNCHANGED vars
  PROVE  TelIInv'
<1>1. UNCHANGED <<front, back, timer, freed, late, sent, toHost, toProxy, tel, shell>>
  BY DEF vars, ends
<1>2. Started' = Started
  BY <1>1 DEF Started
<1>3. \A p, l : Token(p, l) => Token(p, l)'
  BY <1>1 DEF Token
<1>4. (AskedUser => AskedUser') /\ (AskedPassword => AskedPassword') /\ (LoggedIn => LoggedIn')
  BY <1>1, <1>3 DEF AskedUser, AskedPassword, LoggedIn
<1>5. EndsOK' /\ TelTypes' /\ TelControl'
  BY <1>1, <1>2 DEF TelIInv, EndsOK, TelTypes, TelControl
<1>6. Phase'
  BY <1>1, <1>2, <1>4 DEF TelIInv, Phase
<1> QED BY <1>5, <1>6 DEF TelIInv

\* Every step of an SSH connection, one fact for each action.
LEMMA SshMoves ==
  ASSUME SshIInv, kind = "ssh", [Next]_vars
  PROVE  SshIInv' /\ kind' = kind
<1>1. CASE AuthRequest
  BY <1>1, AuthRequestKeeps DEF AuthRequest, ends
<1>2. CASE AuthFails
  BY <1>2, AuthFailsKeeps DEF AuthFails, ends
<1>3. CASE FinishedAuth
  BY <1>3, FinishedAuthKeeps DEF FinishedAuth
<1>4. CASE AttackerSends
  <2>1. kind' = kind
    BY <1>4 DEF AttackerSends, FrontPacket
  <2> QED BY <1>4, <2>1, AttackerSendsKeeps
<1>5. CASE BackSecure
  BY <1>5, BackSecureKeeps DEF BackSecure
<1>6. CASE BackPacket
  BY <1>6, BackPacketKeeps DEF BackPacket
<1>7. CASE SshdTakes
  BY <1>7, SshdTakesKeeps DEF SshdTakes, ends
<1>8. ASSUME NEW b \in Chans, SshdSends(b) PROVE SshIInv' /\ kind' = kind
  BY <1>8, SshdSendsKeeps DEF SshdSends, ends
<1>9. timer \in BOOLEAN
  BY DEF SshIInv, EndsOK
<1>10. CASE BackUp
  BY <1>10, EndsMove DEF BackUp
<1>11. CASE BackRefused
  BY <1>9, <1>11, EndsMove DEF BackRefused
<1>12. CASE BackLost
  <2>1. BackGone
    BY <1>12 DEF BackLost, SshBackLost, TelnetBackLost
  <2>2. timer' = timer /\ toProxy' = <<>> /\ kind' = kind /\ UNCHANGED <<sent, toHost, ssh, att, host, shell>>
    BY <2>1 DEF BackGone
  <2> QED BY <1>9, <2>1, <2>2, EndsMove
<1>13. CASE FrontLost
  <2>1. FrontGone(ssh.authDone)
    BY <1>13 DEF FrontLost, SshFrontLost, TelnetFrontLost
  <2>2. timer' = FALSE /\ toProxy' = toProxy /\ kind' = kind /\ UNCHANGED <<sent, toHost, ssh, att, host, shell>>
    BY <2>1 DEF FrontGone
  <2> QED BY <2>1, <2>2, EndsMove
<1>14. CASE Timeout
  <2>1. TimedOut
    BY <1>14 DEF Timeout, SshTimeout, TelnetTimeout
  <2>2. timer' = FALSE /\ toProxy' = toProxy /\ kind' = kind /\ UNCHANGED <<sent, toHost, ssh, att, host, shell>>
    BY <2>1 DEF TimedOut
  <2> QED BY <2>1, <2>2, EndsMove
<1>15. CASE UNCHANGED vars
  <2>1. kind' = kind
    BY <1>15 DEF vars, ends
  <2> QED BY <1>15, <2>1, SshStutters
<1>16. ~ (\E line \in {"name", "right", "wrong", "env"} : TelnetLine(line)) /\ ~ TelnetPrompt /\ ~ Telnetd
  BY DEF TelnetLine, TelnetPrompt, Telnetd
<1> QED BY <1>1, <1>2, <1>3, <1>4, <1>5, <1>6, <1>7, <1>8, <1>10, <1>11, <1>12, <1>13, <1>14, <1>15, <1>16 DEF Next

\* Every step of a Telnet connection, one fact for each action.
LEMMA TelMoves ==
  ASSUME TelIInv, kind = "telnet", [Next]_vars
  PROVE  TelIInv' /\ kind' = kind /\ ssh' = ssh
<1>1. ASSUME NEW line \in {"name", "right", "wrong", "env"}, TelnetLine(line) PROVE TelIInv' /\ kind' = kind /\ ssh' = ssh
  <2>1. kind' = kind /\ ssh' = ssh
    BY <1>1 DEF TelnetLine
  <2> QED BY <1>1, <2>1, TelnetLineKeeps
<1>2. CASE TelnetPrompt
  BY <1>2, TelnetPromptKeeps DEF TelnetPrompt, ends
<1>3. CASE Telnetd
  <2>1. kind' = kind /\ ssh' = ssh
    BY <1>3 DEF Telnetd, ends
  <2> QED BY <1>3, <2>1, TelnetdKeeps
<1>4. timer \in BOOLEAN
  BY DEF TelIInv, EndsOK
<1>5. CASE BackUp
  <2>1. timer' = TRUE /\ kind' = kind /\ UNCHANGED <<sent, toHost, toProxy, ssh, tel, shell>>
    BY <1>5 DEF BackUp
  <2> QED BY <1>5, <2>1, TelnetEnds
<1>6. CASE BackRefused
  <2>1. timer' = timer /\ kind' = kind /\ UNCHANGED <<sent, toHost, toProxy, ssh, tel, shell>>
    BY <1>6 DEF BackRefused
  <2> QED BY <1>4, <1>6, <2>1, TelnetEnds
<1>7. CASE BackLost
  <2>1. BackGone /\ tel' = [tel EXCEPT !.log = "closed"]
    BY <1>7 DEF BackLost, SshBackLost, TelnetBackLost, CloseLog
  <2>2. timer' = timer /\ toProxy' = <<>> /\ kind' = kind /\ UNCHANGED <<sent, toHost, ssh, shell>>
    BY <2>1 DEF BackGone
  <2> QED BY <1>4, <2>1, <2>2, TelnetEnds
<1>8. CASE FrontLost
  <2>1. FrontGone(tel.authDone) /\ tel' = [tel EXCEPT !.log = "closed"]
    BY <1>8 DEF FrontLost, SshFrontLost, TelnetFrontLost, CloseLog
  <2>2. timer' = FALSE /\ toProxy' = toProxy /\ kind' = kind /\ UNCHANGED <<sent, toHost, ssh, shell>>
    BY <2>1 DEF FrontGone
  <2> QED BY <2>1, <2>2, TelnetEnds
<1>9. CASE Timeout
  <2>1. TimedOut /\ tel' = [tel EXCEPT !.log = "closed"]
    BY <1>9 DEF Timeout, SshTimeout, TelnetTimeout, CloseLog
  <2>2. timer' = FALSE /\ toProxy' = toProxy /\ kind' = kind /\ UNCHANGED <<sent, toHost, ssh, shell>>
    BY <2>1 DEF TimedOut
  <2> QED BY <2>1, <2>2, TelnetEnds
<1>10. CASE UNCHANGED vars
  <2>1. kind' = kind /\ ssh' = ssh
    BY <1>10 DEF vars, ends
  <2> QED BY <1>10, <2>1, TelStutters
<1>11. /\ ~ AuthRequest /\ ~ AuthFails /\ ~ FinishedAuth /\ ~ BackSecure /\ ~ BackPacket /\ ~ SshdTakes
       /\ \A b \in Chans : ~ SshdSends(b)
  BY DEF AuthRequest, AuthFails, FinishedAuth, BackSecure, BackPacket, SshdTakes, SshdSends
<1>12. ~ AttackerSends
  <2>1. \A p, a : ~ FrontPacket(p, a)
    BY DEF FrontPacket
  <2> QED BY <2>1 DEF AttackerSends
<1> QED BY <1>1, <1>2, <1>3, <1>5, <1>6, <1>7, <1>8, <1>9, <1>10, <1>11, <1>12 DEF Next

\* ProxyIInv is inductive.
LEMMA ProxyMoves == ProxyIInv /\ [Next]_vars => ProxyIInv'
<1> SUFFICES ASSUME ProxyIInv, [Next]_vars PROVE ProxyIInv'
  OBVIOUS
<1>1. CASE kind = "ssh"
  <2>1. SshIInv' /\ kind' = kind
    BY <1>1, SshMoves DEF ProxyIInv
  <2> QED BY <1>1, <2>1 DEF ProxyIInv
<1>2. CASE kind = "telnet"
  <2>1. TelIInv' /\ kind' = kind /\ ssh' = ssh
    BY <1>2, TelMoves DEF ProxyIInv
  <2> QED BY <1>2, <2>1 DEF ProxyIInv, NoSsh
<1> QED BY <1>1, <1>2 DEF ProxyIInv

\* The invariant of an SSH connection is strong enough.
LEMMA SshIsRight ==
  ASSUME SshIInv, kind = "ssh"
  PROVE  ProxyInv /\ CleanIsClean
<1>1. EndsOK /\ SshTypes /\ ParserSound(Parser) /\ SshControl /\ Ordered
  BY DEF SshIInv
<1>2. ssh.chs \in Seq(Channel) /\ ssh.logs \in Nat /\ ssh.raised \in Outcomes /\ ssh.logs = LogCount(ssh.chs) + ssh.orphans
  BY <1>1 DEF ParserSound, ParserState, ChannelsAreOnes, Parser
<1>3. shell.st \in {"boot", "used"}
  BY <1>1 DEF SshTypes
<1>4. TypeOK
  <2>1. \A i \in DOMAIN ssh.chs : ssh.chs[i] \in Channel
    BY <1>2
  <2> QED BY <1>1, <1>2, <2>1 DEF TypeOK, EndsOK, Channel
<1>5. InOrder
  BY <1>1 DEF Ordered, InOrder
<1>6. LoginFirst
  BY <1>1, <1>3 DEF LoginFirst, SshControl
<1>7. ChannelsKnown /\ LogPerChannel
  BY <1>2 DEF ChannelsKnown, LogPerChannel, Outcomes, LogCount
<1>8. DoneMeansIn /\ CleanIsClean
  BY <1>1, <1>3, kind = "ssh" DEF DoneMeansIn, CleanIsClean, SshControl
<1> QED BY <1>4, <1>5, <1>6, <1>7, <1>8 DEF ProxyInv

\* And that of a Telnet connection.
LEMMA TelIsRight ==
  ASSUME TelIInv, kind = "telnet", ssh = NoSsh
  PROVE  ProxyInv /\ CleanIsClean
<1>1. EndsOK /\ TelTypes /\ TelControl /\ Phase
  BY DEF TelIInv
<1>2. ssh.chs = <<>> /\ ssh.logs = 0 /\ ssh.orphans = 0 /\ ssh.raised = None
  BY DEF NoSsh
<1>3. shell.st = "in" => tel.accepted
  BY <1>1 DEF TelControl
<1>4. shell.st # "used"
  BY <1>1 DEF TelTypes
<1>5. TypeOK
  BY <1>1, <1>2 DEF TypeOK, EndsOK
<1>6. InOrder /\ LoginFirst /\ ChannelsKnown
  BY <1>2, <1>3 DEF InOrder, LoginFirst, ChannelsKnown
<1>7. LogPerChannel
  <2>1. {i \in DOMAIN ssh.chs : HasLog(ssh.chs[i].ses)} = {}
    BY <1>2
  <2> QED BY <1>2, <2>1, FS_EmptySet DEF LogPerChannel
<1>8. DoneMeansIn
  <2>1. ~ First(<<>>, "backend password")
    BY DEF First
  <2> QED BY <1>1, <2>1 DEF DoneMeansIn, Phase, Started, AskedUser, AskedPassword, LoggedIn
<1>9. CleanIsClean
  BY <1>1, <1>3, <1>4 DEF CleanIsClean, TelControl
<1> QED BY <1>5, <1>6, <1>7, <1>8, <1>9 DEF ProxyInv

\* The relay of an SSH and of a Telnet connection: packets in order and none
\* before the login, every channel of a guest's packet known to the parser
\* (packet_buffer, get_channel), one tty log per shell, and a Telnet attacker
\* taken for logged in only when the guest has let him in.
THEOREM RelayIsCorrect == Spec => []ProxyInv
<1>1. ProxyIInv => ProxyInv
  BY SshIsRight, TelIsRight DEF ProxyIInv
<1> QED BY ProxyStarts, ProxyMoves, <1>1, PTL DEF Spec

\* connectionLost of the frontends: a guest given back as clean is clean now
\* and later, but for the SSH attacker who left while his guest was dialled.
THEOREM CleanGuests == Spec => []CleanIsClean
<1>1. ProxyIInv => CleanIsClean
  BY SshIsRight, TelIsRight DEF ProxyIInv
<1> QED BY ProxyStarts, ProxyMoves, <1>1, PTL DEF Spec
=============================================================================
