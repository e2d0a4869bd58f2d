------------------------------ MODULE SftpTap ------------------------------
(***************************************************************************)
(* The proxy listens to an SFTP channel: it reassembles the packets of     *)
(* both sides, follows one handle, and stores and reports an upload when   *)
(* the client closes it.  It sees requests and replies in the order they   *)
(* pass, and never takes part.  Client and guest are external.             *)
(*                                                                         *)
(* A packet is four units: two are its length field, two its body.  A file *)
(* is the sequence of the ids of the WRITEs that make it up, a path a      *)
(* sequence of words: "get", "put" and "raw" (not UTF-8) are told apart.   *)
(***************************************************************************)
EXTENDS Integers, FiniteSets, SequencesExt

CONSTANTS
  Paths,        \* paths a client names
  Handles,      \* handles of the guest, which gives out the lowest free one
  MaxRequests,  \* bound: requests of the client
  MaxInFlight,  \* bound: of them not answered yet
  MaxCuts       \* bound: chunks that are not exactly one packet

ASSUME SftpTapAssumption ==
  /\ \A path \in Paths : path \in Seq(ToSet(path)) /\ path # <<>>
  /\ Handles \subseteq Nat /\ MaxRequests \in Nat /\ MaxInFlight \in Nat /\ MaxCuts \in Nat

VARIABLES
  tap,      \* id, prevID, handle, command and theFile of SFTP
  missing,  \* packetSize of both sides: units the packet in hand still lacks
  misframed, \* a length was misread
  over,     \* the connection ended with an exception
  reports,  \* cowrie.session.file_upload events
  upward,   \* units on their way from the client
  downward, \* units on their way to the client
  cuts,     \* chunks so far that were not one packet
  client,   \* ids used, requests not answered yet, handles held
  guest,    \* the guest's open handles
  uploads,  \* files uploaded to the guest and closed
  odd       \* what this client did that the tap does not follow (history)

wire == <<upward, downward, cuts, missing, misframed>>
sftpVars == <<tap, over, reports, wire, client, guest, uploads, odd>>

NoHandle == -1

-----------------------------------------------------------------------------
(* The tap *)

\* theFile[:offset]
Upto(d, off) == SubSeq(d, 1, IF off < Len(d) THEN off ELSE Len(d))

\* What is logged for a request with a command of its own: its verb (chmod and
\* chown for a SETSTAT, by extract_attrs) and its paths.
CommandOf(p) == <<p.k>> \o p.path

\* A faulty variant: an upload starts with what the last one left.
StartsUploadKeeping(t, p) == [t EXCEPT !.command = <<"put">> \o p.path]

\* OPEN with the write flag.
StartsUpload(t, p) == [t EXCEPT !.command = <<"put">> \o p.path, !.theFile = <<>>]

\* handle_packet: every packet of either side moves ID to prevID; a HANDLE is
\* taken only right after its request.  path is reset by every packet, so a
\* READDIR leaves a bare "ls".
HandlePacket(t, p) ==
  LET s == [t EXCEPT !.prevID = t.id, !.id = p.id]
  IN  CASE p.k = "open" /\ p.mode = "put" -> StartsUpload(s, p)
        [] p.k = "open" /\ p.mode = "get" -> [s EXCEPT !.command = <<"get">> \o p.path]
        [] p.k = "write" /\ p.h = t.handle -> [s EXCEPT !.theFile = Upto(@, p.off) \o <<p.id>>]
        [] p.k = "handle" /\ s.id = s.prevID -> [s EXCEPT !.handle = p.h]
        [] p.k = "readdir" /\ p.h = t.handle -> [s EXCEPT !.command = <<"ls">>]
        [] p.k \in {"realpath", "command"} -> [s EXCEPT !.command = CommandOf(p)]
        [] OTHER -> s

\* The CLOSE of the handle in hand, when the last command says "put" somewhere
\* and "get" nowhere: the file is stored under its hash and reported with the
\* last word of the command.
FinishedUploading(t, p) ==
  IF p.k = "close" /\ p.h = t.handle /\ "put" \in ToSet(t.command) /\ "get" \notin ToSet(t.command)
  THEN <<[name |-> Last(t.command), data |-> t.theFile]>>
  ELSE <<>>

\* command.decode() for the log; the exception ends the connection.
Raises(t, p) ==
  /\ "raw" \in ToSet(HandlePacket(t, p).command)
  /\ \/ p.k \in {"open", "realpath"}
     \/ /\ p.k = "status" /\ p.id = t.id
        /\ p.ok => {"get", "put"} \intersect ToSet(t.command) = {}
     \/ p.k = "extended"

-----------------------------------------------------------------------------
(* Framing *)

HeaderUnits == 2
BodyUnits == 2
PacketUnits == HeaderUnits + BodyUnits
Units(p) == [i \in 1..PacketUnits |-> [p |-> p, i |-> i]]

\* parse_packet: the rest of the packet in hand, then what follows, taken as the
\* start of a packet. A length field that is cut, or a chunk that starts a
\* packet and goes on behind its end, is misread: packetSize is wrong or
\* negative, and what the tap then sees depends on bytes that are not modelled.
ParsePacket(lack, data) ==
  LET k == IF Len(data) > lack THEN lack ELSE Len(data)
      after == SubSeq(data, k + 1, Len(data))
      now == IF after = <<>> THEN lack - k ELSE PacketUnits - Len(after)
  IN  [lack |-> now,
       bad |-> after # <<>> /\ (Len(after) < HeaderUnits \/ now < 0),
       packets |-> (IF lack > 0 /\ k = lack THEN <<data[1].p>> ELSE <<>>)
                   \o (IF after # <<>> /\ now = 0 THEN <<after[1].p>> ELSE <<>>)]

\* A chunk passes: what is complete in it is handled in order.
Listen(side, data) ==
  LET r == ParsePacket(missing[side], data)
      t1 == IF r.packets = <<>> THEN tap ELSE HandlePacket(tap, r.packets[1])
      raised == \/ r.packets # <<>> /\ Raises(tap, r.packets[1])
                \/ Len(r.packets) = 2 /\ Raises(t1, r.packets[2])
  IN  /\ tap' = IF Len(r.packets) = 2 THEN HandlePacket(t1, r.packets[2]) ELSE t1
      /\ reports' = reports \o (IF r.packets = <<>> THEN <<>> ELSE FinishedUploading(tap, r.packets[1]))
                            \o (IF Len(r.packets) < 2 THEN <<>> ELSE FinishedUploading(t1, r.packets[2]))
      /\ missing' = [missing EXCEPT ![side] = r.lack]
      /\ misframed' = r.bad
      /\ over' = raised

-----------------------------------------------------------------------------
(* The client and the guest *)

Opens == {"open", "opendir"}
SftpRequest(k, h, path, mode, off) ==
  [k |-> k, id |-> client.ids + 1, h |-> h, path |-> path, mode |-> mode, off |-> off]

\* A request, and what makes it one the tap cannot follow.
Sends(p, held, strange) ==
  /\ client' = [ids |-> p.id, held |-> held,
                waits |-> client.waits \union {[id |-> p.id, k |-> p.k, mode |-> p.mode]}]
  /\ upward' = upward \o Units(p)
  /\ odd' = odd \union strange
       \union (IF \/ p.k \in Opens /\ client.waits # {}
                  \/ \E w \in client.waits : w.k \in Opens
               THEN {"did not wait"} ELSE {})
       \union (IF p.k \in Opens \union {"realpath", "command"} /\ DOMAIN client.held # {}
               THEN {"did something else meanwhile"} ELSE {})
  /\ UNCHANGED <<tap, over, reports, downward, cuts, missing, misframed, guest, uploads>>

SftpOpen ==
  \E path \in Paths, mode \in {"put", "get", "neither"} :
    Sends(SftpRequest("open", NoHandle, path, mode, 0), client.held,
          (IF mode = "put" /\ "get" \in ToSet(path) THEN {"get in the name"} ELSE {})
          \union (IF mode = "neither" THEN {"neither read nor write"} ELSE {}))

\* The tap keeps the path of an OPENDIR until the next packet only.
SftpOpendir == Sends(SftpRequest("opendir", NoHandle, <<>>, "dir", 0), client.held, {})

\* The requests that are a command of their own: REALPATH, and SETSTAT,
\* EXTENDED, SYMLINK, MKDIR, REMOVE, RMDIR.
SftpNamed ==
  \E path \in Paths, k \in {"realpath", "command"} :
    Sends(SftpRequest(k, NoHandle, path, "none", 0), client.held, {})

\* READ, STAT, RENAME and the like: only the id is taken.
SftpOther == Sends(SftpRequest("other", NoHandle, <<>>, "none", 0), client.held, {})

SftpWrite ==
  \E h \in DOMAIN client.held, off \in 0..2 :
    /\ client.held[h].mode = "put"
    /\ Sends(SftpRequest("write", h, <<>>, "none", off), [client.held EXCEPT ![h].len = off + 1],
             IF off # client.held[h].len THEN {"seek"} ELSE {})

SftpReaddir ==
  \E h \in DOMAIN client.held :
    /\ client.held[h].mode = "dir"
    /\ Sends(SftpRequest("readdir", h, <<>>, "none", 0), [client.held EXCEPT ![h].len = 1], {})

SftpClose ==
  \E h \in DOMAIN client.held :
    Sends(SftpRequest("close", h, <<>>, "none", 0), [g \in DOMAIN client.held \ {h} |-> client.held[g]],
          IF client.held[h].mode = "dir" /\ client.held[h].len = 0 THEN {"unread directory"} ELSE {})

\* Nothing is claimed about a client after an odd request, so it is its last.
SftpSends ==
  /\ ~over /\ ~misframed /\ odd = {} /\ client.ids < MaxRequests /\ Cardinality(client.waits) < MaxInFlight
  /\ SftpOpen \/ SftpOpendir \/ SftpNamed \/ SftpOther \/ SftpWrite \/ SftpReaddir \/ SftpClose

\* pwrite: a gap is filled with zeros.
Pwrite(d, off, n) ==
  [i \in 1..(IF off < Len(d) THEN Len(d) ELSE off + 1) |->
     IF i = off + 1 THEN n ELSE IF i <= Len(d) THEN d[i] ELSE 0]

ReplyTo(p, k, h, ok) == [k |-> k, id |-> p.id, h |-> h, ok |-> ok]

\* What an OPEN or OPENDIR asks for is open, under the lowest free handle.
GivesHandle(g, p) ==
  {[guest |-> [x \in DOMAIN g \union {h} |-> IF x = h THEN [mode |-> p.mode, path |-> p.path, data |-> <<>>] ELSE g[x]],
    reply |-> ReplyTo(p, "handle", h, TRUE), done |-> <<>>] :
      h \in {x \in Handles \ DOMAIN g : \A y \in Handles \ DOMAIN g : x <= y}}

\* sftp-server takes one request; opening and changing may fail, but not a
\* write to the file it has open.
Serves(g, p) ==
  LET status(ok) == ReplyTo(p, "status", NoHandle, ok)
      same(reply) == [guest |-> g, reply |-> reply, done |-> <<>>]
  IN  CASE p.k \in Opens ->
             {same(status(FALSE))} \union GivesHandle(g, p)
        [] p.k = "write" ->
             {[guest |-> [g EXCEPT ![p.h].data = Pwrite(@, p.off, p.id)], reply |-> status(TRUE), done |-> <<>>]}
        [] p.k = "close" ->
             {[guest |-> [x \in DOMAIN g \ {p.h} |-> g[x]], reply |-> status(TRUE),
               done |-> IF g[p.h].mode = "put" THEN <<[name |-> Last(g[p.h].path), data |-> g[p.h].data]>> ELSE <<>>]}
        [] p.k = "command" -> {same(status(TRUE)), same(status(FALSE)), same(ReplyTo(p, "extended", NoHandle, TRUE))}
        [] OTHER -> {same(ReplyTo(p, "reply", NoHandle, TRUE))}

\* The packets that end in a chunk, at most two.
Whole(data) ==
  LET ends == {i \in DOMAIN data : data[i].i = PacketUnits}
  IN  IF ends = {} THEN <<>>
      ELSE IF Min(ends) = Max(ends) THEN <<data[Min(ends)].p>> ELSE <<data[Min(ends)].p, data[Max(ends)].p>>

\* A chunk: one packet, or up to MaxCuts times any other piece of the stream.
Chunk(n, stream, side) ==
  /\ ~over /\ ~misframed
  /\ n \in 1..Len(stream)
  /\ cuts' = IF stream[n].i = PacketUnits /\ (n = PacketUnits \/ n = missing[side]) THEN cuts ELSE cuts + 1
  /\ cuts' <= MaxCuts

\* A chunk of the client passes the tap, unless it raises, to the guest, which serves the requests
\* that are now complete (two at most, or the framing is lost).
UpwardChunk ==
  \E n \in 1..(2 * PacketUnits) :
    /\ Chunk(n, upward, "client")
    /\ Listen("client", SubSeq(upward, 1, n))
    /\ upward' = SubSeq(upward, n + 1, Len(upward))
    /\ LET whole == Whole(SubSeq(upward, 1, n))
       IN  IF over' \/ whole = <<>> THEN UNCHANGED <<guest, downward, uploads>>
           ELSE \E a \in Serves(guest, whole[1]) :
                  IF Len(whole) = 1
                  THEN guest' = a.guest /\ downward' = downward \o Units(a.reply) /\ uploads' = uploads \o a.done
                  ELSE \E b \in Serves(a.guest, whole[2]) :
                         /\ guest' = b.guest
                         /\ downward' = downward \o Units(a.reply) \o Units(b.reply)
                         /\ uploads' = uploads \o a.done \o b.done
    /\ UNCHANGED <<client, odd>>

\* The client takes a reply.
Takes(c, p) ==
  LET w == CHOOSE x \in c.waits : x.id = p.id
  IN  [c EXCEPT !.waits = @ \ {w},
                !.held = IF p.k # "handle" THEN @
                         ELSE [x \in DOMAIN @ \union {p.h} |->
                                 IF x = p.h THEN [mode |-> w.mode, len |-> 0] ELSE @[x]]]

DownwardChunk ==
  \E n \in 1..(2 * PacketUnits) :
    /\ Chunk(n, downward, "guest")
    /\ Listen("guest", SubSeq(downward, 1, n))
    /\ downward' = SubSeq(downward, n + 1, Len(downward))
    /\ LET whole == Whole(SubSeq(downward, 1, n))
       IN  client' = CASE over' \/ Len(whole) = 0 -> client
                       [] ~over' /\ Len(whole) = 1 -> Takes(client, whole[1])
                       [] ~over' /\ Len(whole) = 2 -> Takes(Takes(client, whole[1]), whole[2])
    /\ UNCHANGED <<upward, guest, uploads, odd>>

\* channel_closed: nothing is done about a file that is still open.
SftpClosed == UNCHANGED sftpVars

SftpInit ==
  /\ tap = [id |-> 0, prevID |-> 0, handle |-> NoHandle, command |-> <<>>, theFile |-> <<>>]
  /\ missing = [client |-> 0, guest |-> 0] /\ misframed = FALSE /\ over = FALSE
  /\ reports = <<>> /\ upward = <<>> /\ downward = <<>> /\ cuts = 0
  /\ client = [ids |-> 0, waits |-> {}, held |-> <<>>]
  /\ guest = <<>> /\ uploads = <<>> /\ odd = {}

SftpNext == SftpSends \/ UpwardChunk \/ DownwardChunk \/ SftpClosed

SftpSpec == SftpInit /\ [][SftpNext]_sftpVars

-----------------------------------------------------------------------------
(* Properties *)

\* An upload is stored and reported once, whole and under its name, when the
\* client closes it (FXP_CLOSE in handle_packet), however chunks cut packets as
\* long as no length is misread, with WRITEs in flight together, and for every
\* handle the guest gives out again; nothing else is reported. The tap follows
\* one handle and one command, so this is about clients that wait for the
\* answer to OPEN, do one thing at a time and write from front to back, and
\* about names without "get".
UploadsAreReported ==
  ~misframed /\ ~over /\ odd = {} =>
    /\ IsPrefix(uploads, reports)
    /\ upward = <<>> => reports = uploads

\* The variables keep the types the code gives them.
TapTypeOK ==
  /\ tap.handle \in Handles \union {NoHandle} /\ {tap.id, tap.prevID} \subseteq 0..MaxRequests
  /\ ToSet(tap.theFile) \subseteq 1..MaxRequests
  /\ \A side \in DOMAIN missing : misframed \/ missing[side] \in 0..BodyUnits
  /\ DOMAIN guest \subseteq Handles
\* The tap keeps its state and reports what passed.
TapInv == TapTypeOK /\ UploadsAreReported
=============================================================================
