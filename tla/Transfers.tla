----------------------------- MODULE Transfers -----------------------------
(***************************************************************************)
(* The commands of the honeypot that fetch something: wget (HTTP and FTP), *)
(* curl, ftpget, tftp and nc, and scp, which receives a file.  One command *)
(* runs in one session; the rate limiter is shared with other sessions.    *)
(*                                                                         *)
(* A file is a sequence of chunks 1, 2, ..., Blocks; what was written to   *)
(* the artifact is the sequence of the chunks it got.  Between two         *)
(* callbacks of a transfer the user may press CTRL-C or the session may    *)
(* be lost: the command leaves the stack while the transfer goes on.       *)
(***************************************************************************)
EXTENDS Naturals, Sequences, FiniteSets, FiniteSetsExt, SequencesExt

CONSTANTS Kinds,        \* the commands looked at
          MaxTotal,     \* bound on the chunks of a remote file
          Limit,        \* download_limit_size in chunks, 0 for none
          BlockWrap,    \* 2^16 in the code: TFTP block numbers wrap
          MaxRetries,   \* TFTP_MAX_RETRIES
          Hosts,        \* keys of the rate limiter
          MaxRequests, Window, MaxKeys,  \* its settings
          MaxTime,      \* bound on the clock of the rate limiter
          MaxOthers     \* bound on the requests of other sessions

ASSUME TransfersAssumption ==
    /\ Kinds \subseteq {"wget", "wgetftp", "curl", "curlhead", "ftpget", "tftp", "nc", "scp"}
    /\ {MaxTotal, Limit, MaxTime, MaxOthers} \subseteq Nat
    /\ {BlockWrap, MaxRetries, MaxRequests, Window, MaxKeys} \subseteq Nat \ {0}

VARIABLES job,       \* what is asked for, and what the remote side has
          pc,        \* the callback the command waits for
          stacked,   \* is the command on protocol.cmdstack?
          live,      \* is the session there (protocol.user)?
          seen,      \* chunks handed to collect()
          content,   \* chunks written to the artifact
          file,      \* the artifact on disk
          fp,        \* its handle
          entry,     \* the file in the virtual filesystem
          events,    \* outcomes dispatched to the outputs
          odd,       \* what happened to the command (history)
          tftp,      \* the TFTP client, its port and its server
          limiter,   \* the rate limiter, its clock
          granted,   \* requests let through (history)
          evicted    \* keys dropped to make room (history)

work == <<seen, content, file, fp, entry, events>>
rate == <<limiter, granted, evicted>>
transfersVars == <<job, pc, stacked, live, work, odd, tftp, rate>>

Http == {"wget", "curl", "curlhead"}
Ftp == {"wgetftp", "ftpget"}
Blocks == IF job.kind = "tftp" THEN job.total + 1 ELSE job.total
Whole == [i \in 1..Blocks |-> i]

Jobs == {j \in [kind : Kinds, toFile : BOOLEAN, total : 0..MaxTotal, declared : BOOLEAN,
                dest : {"ok", "refused"}, host : Hosts, named : BOOLEAN] :
           /\ j.toFile \/ j.kind = "curl"
           /\ j.declared \/ j.kind \in Http
           /\ j.dest = "ok" \/ j.kind \notin {"nc", "scp", "curlhead"}
           /\ j.named => j.kind = "tftp"}   \* is the server given by its name?

TransfersInit ==
        /\ job \in Jobs
        /\ pc = "start" /\ stacked = TRUE /\ live = TRUE
        /\ seen = 0 /\ content = <<>> /\ file = "none" /\ fp = "closed"
        /\ entry = "none" /\ events = <<>> /\ odd = {}
        /\ tftp = [block |-> 0, acked |-> 0, sent |-> 0, retries |-> 0, timer |-> FALSE,
                   stray |-> FALSE, port |-> "off"]
        /\ limiter = [tracker |-> <<>>, cleanup |-> 1, clock |-> 1, others |-> 0]
        /\ granted = <<>> /\ evicted = {}

(***************************************************************************)
(* Leaving the stack.  exit() removes the command and resumes the shell;   *)
(* once CTRL-C has removed it a second exit() raises ValueError, unless    *)
(* the session is gone and with it the stack.                              *)
(***************************************************************************)
CanExit == stacked \/ ~live

Quit == pc' = "end" /\ stacked' = FALSE

Abandon == Quit /\ UNCHANGED <<job, live, work, odd, tftp, rate>>

Dispatch(what, hashed) == [what |-> what, hashed |-> hashed, data |-> content]
Failed == Dispatch("failed", FALSE)

(***************************************************************************)
(* RateLimiter.                                                            *)
(***************************************************************************)
\* The stamps of a key are in order: those inside the window are the last ones.
Recent(ts) == SubSeq(ts, 1 + Cardinality({i \in DOMAIN ts : limiter.clock - ts[i] >= Window}), Len(ts))

CleanupAll == LET tr == limiter.tracker
                  kept == {k \in DOMAIN tr : Recent(tr[k]) # <<>>}
              IN  IF limiter.clock - limiter.cleanup > Window
                  THEN [k \in kept |-> Recent(tr[k])] ELSE tr

Stamps(tr, h) == IF h \in DOMAIN tr THEN tr[h] ELSE <<>>
Latest(ts) == IF ts = <<>> THEN 0 ELSE Max(ToSet(ts))

Oldest(tr) == {R \in SUBSET DOMAIN tr :
                 /\ Cardinality(R) = Max({1, Cardinality(DOMAIN tr) \div 10})
                 /\ \A a \in R, b \in DOMAIN tr \ R : Latest(tr[a]) <= Latest(tr[b])}

RemoveOldestKeys(tr) == IF Cardinality(DOMAIN tr) > MaxKeys THEN Oldest(tr) ELSE {{}}

Refreshed(h) == [k \in DOMAIN CleanupAll \cup {h} |->
                    IF k = h THEN Recent(Stamps(CleanupAll, h)) ELSE CleanupAll[k]]

\* check(): ok is its result
Check(h, ok) ==
  \E R \in RemoveOldestKeys(Refreshed(h)) :
    LET tr == [k \in DOMAIN Refreshed(h) \ R |-> Refreshed(h)[k]]
        ts == Stamps(tr, h)
    IN  /\ ok <=> Len(ts) < MaxRequests
        /\ limiter' = [limiter EXCEPT
             !.tracker = [k \in DOMAIN tr \cup {h} |->
                            IF k # h THEN tr[k]
                            ELSE IF ok THEN Append(ts, limiter.clock) ELSE ts],
             !.cleanup = IF limiter.clock - @ > Window THEN limiter.clock ELSE @,
             !.others = @ + 1]
        /\ granted' = IF ok THEN Append(granted, <<h, limiter.clock>>) ELSE granted
        /\ evicted' = evicted \cup {k \in R : Refreshed(h)[k] # <<>>}

\* Only the kind "wget" looks at the limiter's history; the others start with an empty one.
OtherSession(h) ==
  /\ job.kind = "wget" /\ pc = "start" /\ limiter.others < MaxOthers
  /\ \E ok \in BOOLEAN : Check(h, ok)
  /\ UNCHANGED <<job, pc, stacked, live, work, odd, tftp>>

Tick == /\ job.kind = "wget" /\ pc = "start" /\ limiter.clock < MaxTime
        /\ limiter' = [limiter EXCEPT !.clock = @ + 1]
        /\ UNCHANGED <<job, pc, stacked, live, work, odd, tftp, granted, evicted>>

(***************************************************************************)
(* start() up to the question whether the host may be talked to.  It may   *)
(* exit (options, no host, no directory), raise (a bad port number, a URL  *)
(* that is not ASCII) with the command left on the stack, or go on.        *)
(***************************************************************************)
ToResolve == pc' = "resolve" /\ UNCHANGED <<job, stacked, live, work, odd, tftp>>

Raises == /\ pc' = "end" /\ odd' = odd \cup {"raised"}
          /\ UNCHANGED <<job, stacked, live, work, tftp, rate>>

Limited == \/ Check(job.host, TRUE) /\ ToResolve
           \/ Check(job.host, FALSE) /\ Quit /\ UNCHANGED <<job, live, work, odd, tftp>>

WgetStart == job.kind \in {"wget", "wgetftp"} /\ (Abandon \/ Raises \/ Limited)

CurlStart == job.kind \in {"curl", "curlhead"} /\ (Abandon \/ Raises \/ Limited)

NcStart == job.kind = "nc" /\ (Abandon \/ Limited)

FtpgetStart == job.kind = "ftpget" /\ (Abandon \/ (ToResolve /\ UNCHANGED rate))

TftpStart == job.kind = "tftp" /\ (Abandon \/ Raises \/ (ToResolve /\ UNCHANGED rate))

ScpStart == /\ job.kind = "scp"
            /\ pc' = "body" /\ stacked' \in BOOLEAN  \* exits without returning if -d names nothing
            /\ UNCHANGED <<job, live, work, odd, tftp, rate>>

Start == /\ pc = "start"
         /\ WgetStart \/ CurlStart \/ NcStart \/ FtpgetStart \/ TftpStart \/ ScpStart

(***************************************************************************)
(* The answer of communication_allowed(): an address that may not be       *)
(* talked to, a name that has no address, or one that may.  CTRL-C in the  *)
(* meantime does not stop start() from going on.                           *)
(***************************************************************************)
Blocked == pc = "resolve" /\ Abandon

NewArtifact == file' = "temp" /\ fp' = "open" /\ UNCHANGED <<seen, content, entry, events>>

WgetBegin == job.kind = "wget" /\ pc' = "connect" /\ NewArtifact
             /\ UNCHANGED <<job, stacked, live, odd, tftp, rate>>

\* ftpDownload: a URL that names a directory exits after the artifact was made
FtpBegin == /\ job.kind = "wgetftp" /\ NewArtifact
            /\ \/ pc' = "connect" /\ UNCHANGED <<stacked, odd>>
               \/ Quit /\ odd' = odd \cup {"directory"}
            /\ UNCHANGED <<job, live, tftp, rate>>

CurlBegin == job.kind \in {"curl", "curlhead"} /\ pc' = "connect" /\ NewArtifact
             /\ UNCHANGED <<job, stacked, live, odd, tftp, rate>>

FtpgetBegin == job.kind = "ftpget" /\ pc' = "connect" /\ NewArtifact
               /\ UNCHANGED <<job, stacked, live, odd, tftp, rate>>

\* The artifact, the client and its port; startProtocol sends the read request.  UDP takes no
\* host name: sendRRQ raises, out of listenUDP and start(), before the port is read and before
\* there is a timeout or a callback.
TftpBegin == /\ job.kind = "tftp" /\ NewArtifact
             /\ IF job.named THEN pc' = "end" /\ UNCHANGED tftp
                ELSE pc' = "body" /\ tftp' = [tftp EXCEPT !.port = "open", !.timer = TRUE]
             /\ UNCHANGED <<job, stacked, live, odd, rate>>

\* nc connects, reads until the end and exits without giving the reactor back.
NcRun == job.kind = "nc" /\ Abandon

Allowed == pc = "resolve" /\ (WgetBegin \/ FtpBegin \/ CurlBegin \/ FtpgetBegin \/ TftpBegin \/ NcRun)

(***************************************************************************)
(* Artifact.close() on an open handle.                                     *)
(***************************************************************************)
CloseArtifact == /\ file' = IF content = <<>> THEN "removed" ELSE "stored"
                 /\ fp' = IF content = <<>> THEN fp ELSE "closed"

Hashed == content # <<>>

(***************************************************************************)
(* wget and curl.                                                          *)
(***************************************************************************)
\* A variant that reports nothing.
WgetErrorSilent == /\ Quit
                   /\ UNCHANGED <<job, live, work, odd, tftp, rate>>

\* error(): the event, a message, exit().  The artifact is left as it is.
WgetError == /\ events' = Append(events, Failed) /\ Quit
             /\ UNCHANGED <<job, live, seen, content, file, fp, entry, odd, tftp, rate>>

CurlError == WgetError

HttpError == IF job.kind = "curl" \/ job.kind = "curlhead" THEN CurlError ELSE WgetError

TooLarge == Limit > 0 /\ job.declared /\ job.total > Limit

\* _begin_download(): a file that is too large ends the command without an event.
WgetSuccess == /\ job.kind = "wget"
               /\ IF TooLarge THEN Abandon
                  ELSE pc' = "body" /\ UNCHANGED <<job, stacked, live, work, odd, tftp, rate>>

\* curl compares a length that is not known with the limit: TypeError.
CurlSuccess ==
  \/ job.kind = "curlhead" /\ Abandon
  \/ /\ job.kind = "curl"
     /\ CASE Limit > 0 /\ ~job.declared -> CurlError
          [] TooLarge -> Abandon
          [] OTHER -> pc' = "body" /\ UNCHANGED <<job, stacked, live, work, odd, tftp, rate>>

Response == pc = "connect" /\ (WgetSuccess \/ CurlSuccess)

ConnectFails == pc = "connect" /\ job.kind \in Http \cup {"wgetftp"} /\ HttpError

\* collect(): every chunk above the limit calls exit(), the second one raises: the
\* response fails, or the FTP data connection is dropped and the server has its say.
WgetCollect ==
  /\ seen' = seen + 1
  /\ IF Limit > 0 /\ seen + 1 > Limit
     THEN /\ odd' = odd \cup {"over"} /\ stacked' = FALSE
          /\ UNCHANGED <<content, file, fp, entry>>
          /\ CASE CanExit -> UNCHANGED <<pc, events>>
               [] ~CanExit /\ job.kind = "wgetftp" -> pc' = "dropped" /\ UNCHANGED events
               [] OTHER -> pc' = "end" /\ events' = Append(events, Failed)
     ELSE /\ content' = Append(content, seen + 1)
          /\ UNCHANGED <<pc, stacked, odd, file, fp, entry, events>>
  /\ UNCHANGED <<job, live, tftp, rate>>

CurlCollect == WgetCollect

Collect == /\ pc = "body" /\ job.kind \in {"wget", "wgetftp", "curl"} /\ seen < job.total
           /\ IF job.kind = "curl" THEN CurlCollect ELSE WgetCollect

\* collectioncomplete(): the artifact, the virtual file, the event, exit().  What
\* raises on the way (mkfile, exit) goes to error().
WgetComplete ==
  /\ CloseArtifact /\ Quit
  /\ IF job.toFile /\ live /\ job.dest = "refused"
     THEN events' = Append(events, Failed) /\ UNCHANGED entry
     ELSE /\ entry' = IF job.toFile /\ live THEN (IF Hashed THEN "backed" ELSE "bare") ELSE entry
          /\ events' = events \o <<Dispatch("download", Hashed)>>
                              \o (IF CanExit THEN <<>> ELSE <<Failed>>)
  /\ UNCHANGED <<job, live, seen, content, odd, tftp, rate>>

CurlComplete == WgetComplete

\* The body ends.  Without a length and without chunks its end is that of the connection.
BodyEnds == /\ pc = "body" /\ job.kind \in {"wget", "curl"}
            /\ (seen = job.total \/ ~job.declared)
            /\ IF job.kind = "curl" THEN CurlComplete ELSE WgetComplete

\* A variant that takes what arrived for the whole file.
BodyCutAccepted == /\ pc = "body" /\ job.kind \in {"wget", "curl"} /\ job.declared /\ seen < job.total
                   /\ WgetComplete

\* The connection is lost inside a body whose end is known, by its length or by its last chunk.
BodyCut == pc = "body" /\ job.kind \in {"wget", "curl"} /\ seen < job.total /\ HttpError

(***************************************************************************)
(* FTP: wget and ftpget.                                                   *)
(***************************************************************************)
FtpConnected == /\ pc = "connect" /\ job.kind \in Ftp /\ pc' = "cwd"
                /\ UNCHANGED <<job, stacked, live, work, odd, tftp, rate>>

\* An unknown length passes _begin_download().
FtpRetrieve == /\ pc = "cwd" /\ job.kind \in Ftp /\ pc' = "body"
               /\ UNCHANGED <<job, stacked, live, work, odd, tftp, rate>>

FtpFails == pc \in {"cwd", "body", "dropped"} /\ job.kind = "wgetftp" /\ WgetError

\* _ftp_after_retrieve(): QUIT is sent, its answer is not waited for.
FtpAfterRetrieve == /\ job.kind = "wgetftp" /\ (pc = "dropped" \/ (pc = "body" /\ seen = job.total))
                    /\ WgetComplete

FtpgetData == /\ pc = "body" /\ job.kind = "ftpget" /\ seen < job.total
              /\ seen' = seen + 1 /\ content' = Append(content, seen + 1)
              /\ UNCHANGED <<job, pc, stacked, live, file, fp, entry, events, odd, tftp, rate>>

FtpgetQuit == /\ pc = "body" /\ job.kind = "ftpget" /\ seen = job.total /\ pc' = "quit"
              /\ UNCHANGED <<job, stacked, live, work, odd, tftp, rate>>

\* _download_success(): the event comes first.  What raises after it goes to
\* _download_error(), whose close() raises in turn once the artifact is closed.
FtpgetSuccess ==
  /\ pc = "quit" /\ CloseArtifact /\ pc' = "end"
  /\ LET good == Hashed /\ job.dest = "ok"
     IN  /\ entry' = IF good THEN "backed" ELSE entry
         /\ events' = events \o <<Dispatch("download", Hashed)>>
                             \o (IF Hashed THEN <<>> ELSE <<Failed>>)
         /\ stacked' = (stacked /\ Hashed /\ ~good)
         /\ odd' = IF stacked /\ Hashed /\ ~good THEN odd \cup {"raised"} ELSE odd
  /\ UNCHANGED <<job, live, seen, content, tftp, rate>>

\* _download_error(): what has arrived is stored.
FtpgetError == /\ pc \in {"connect", "cwd", "body", "quit"} /\ job.kind = "ftpget"
               /\ CloseArtifact /\ Quit /\ events' = Append(events, Failed)
               /\ UNCHANGED <<job, live, seen, content, entry, odd, tftp, rate>>

(***************************************************************************)
(* TFTP.  The server sends the next block once the last one was            *)
(* acknowledged; what it has sent may be lost, delayed, repeated and       *)
(* reordered, so any block sent so far may arrive at any time.             *)
(***************************************************************************)
ServerSends == /\ tftp.port = "open" /\ tftp.sent < Blocks /\ tftp.sent <= tftp.acked
               /\ tftp' = [tftp EXCEPT !.sent = @ + 1]
               /\ UNCHANGED <<job, pc, stacked, live, work, odd, rate>>

\* The deferred fires: stopListening, the handle closed, then the outcome.  close()
\* on the closed handle raises, which is ignored: the artifact keeps its temporary name.
TftpOutcome(ok, t, c) ==
  /\ tftp' = [t EXCEPT !.timer = FALSE, !.port = "draining"]
  /\ fp' = "closed" /\ content' = c /\ Quit
  /\ entry' = IF ok /\ live /\ job.dest = "ok" THEN "bare" ELSE entry
  /\ events' = events \o (IF ok THEN <<[Dispatch("download", FALSE) EXCEPT !.data = c]>> ELSE <<>>)
                      \o (IF ok /\ live /\ job.dest = "ok" THEN <<>> ELSE <<[Failed EXCEPT !.data = c]>>)
  /\ UNCHANGED <<job, live, seen, file, odd, rate>>

TftpStays(t, c) == /\ tftp' = t /\ content' = c
                   /\ UNCHANGED <<job, pc, stacked, live, seen, file, fp, entry, events, odd, rate>>

\* datagramReceived() cancels the timer and resets the retries before it looks.
Heard == [tftp EXCEPT !.timer = FALSE, !.retries = 0, !.stray = FALSE]

\* sendACK() schedules the timeout.
SendAck(t, n) == [t EXCEPT !.timer = TRUE, !.acked = IF n > @ THEN n ELSE @]

HandleData(n) ==
  LET wire == n % BlockWrap
      next == [Heard EXCEPT !.block = wire]
  IN  CASE wire = tftp.block + 1 /\ fp = "closed" -> TftpStays(next, content)   \* write raises
        [] wire = tftp.block + 1 /\ fp = "open" /\ n = Blocks ->
             TftpOutcome(TRUE, SendAck(next, n), Append(content, n))
        [] wire = tftp.block + 1 /\ fp = "open" /\ n # Blocks ->
             TftpStays(SendAck(next, n), Append(content, n))
        [] wire = tftp.block -> TftpStays(SendAck(Heard, n), content)
        [] OTHER -> TftpStays([Heard EXCEPT !.stray = TRUE], content)

Listening == tftp.port \in {"open", "draining"}

TftpData == Listening /\ \E n \in 1..tftp.sent : HandleData(n)

\* A datagram in the same read as the last block still arrives; its errback raises.
TftpErrorPacket == /\ Listening
                   /\ IF tftp.port = "open" THEN TftpOutcome(FALSE, Heard, content)
                      ELSE TftpStays(Heard, content)

TftpStrayPacket == Listening /\ TftpStays([Heard EXCEPT !.stray = TRUE], content)

\* handleTimeout(): the read request or the last ACK again, or the end.
HandleTimeout == /\ tftp.port = "open" /\ tftp.timer
                 /\ LET again == [tftp EXCEPT !.retries = @ + 1]
                    IN  IF tftp.retries + 1 >= MaxRetries THEN TftpOutcome(FALSE, again, content)
                        ELSE TftpStays(again, content)

StopProtocol == /\ tftp.port = "draining"
                /\ TftpStays([tftp EXCEPT !.port = "closed", !.timer = FALSE], content)

(***************************************************************************)
(* scp: every line of the upload is an event; the end of the input strips  *)
(* the header from what was logged.                                        *)
(***************************************************************************)
ScpLine == /\ pc = "body" /\ job.kind = "scp" /\ stacked /\ live /\ seen < job.total
           /\ seen' = seen + 1
           /\ UNCHANGED <<job, pc, stacked, live, content, file, fp, entry, events, odd, tftp, rate>>

ScpEof == pc = "body" /\ job.kind = "scp" /\ stacked /\ live /\ Abandon

(***************************************************************************)
(* CTRL-C and the loss of the session.                                     *)
(***************************************************************************)
CtrlC == /\ stacked /\ live /\ pc # "start" /\ stacked' = FALSE /\ odd' = odd \cup {"ctrlc"}
         /\ UNCHANGED <<job, live, seen, content, file, entry, events, rate>>
         /\ IF job.kind = "tftp" /\ tftp.port = "open"
            THEN /\ tftp' = [tftp EXCEPT !.timer = FALSE, !.port = "draining"]
                 /\ fp' = "closed" /\ pc' = "end"
            ELSE /\ fp' = IF job.kind = "tftp" THEN "closed" ELSE fp
                 /\ UNCHANGED <<pc, tftp>>

Lost == /\ live /\ pc # "start" /\ live' = FALSE /\ stacked' = FALSE
        /\ UNCHANGED <<job, pc, work, odd, tftp, rate>>

TransfersNext ==
        \/ \E h \in Hosts : OtherSession(h)
        \/ Tick
        \/ Start \/ Blocked \/ Allowed
        \/ Response \/ ConnectFails \/ Collect \/ BodyEnds \/ BodyCut
        \/ FtpConnected \/ FtpRetrieve \/ FtpFails \/ FtpAfterRetrieve
        \/ FtpgetData \/ FtpgetQuit \/ FtpgetSuccess \/ FtpgetError
        \/ ServerSends \/ TftpData \/ TftpErrorPacket \/ TftpStrayPacket \/ HandleTimeout \/ StopProtocol
        \/ ScpLine \/ ScpEof
        \/ CtrlC \/ Lost

TransfersSpec == TransfersInit /\ [][TransfersNext]_transfersVars

(***************************************************************************)
(* Properties.                                                             *)
(***************************************************************************)
TransfersTypeOK ==
  /\ job \in Jobs
  /\ pc \in {"start", "resolve", "connect", "cwd", "body", "dropped", "quit", "end"}
  /\ {stacked, live} \subseteq BOOLEAN
  /\ seen \in 0..MaxTotal /\ content \in Seq(1..(MaxTotal + 1))
  /\ file \in {"none", "temp", "stored", "removed"} /\ fp \in {"open", "closed"}
  /\ entry \in {"none", "bare", "backed"}
  /\ \A e \in ToSet(events) : e.what \in {"download", "failed"}
  /\ odd \subseteq {"ctrlc", "over", "raised", "directory"}
  /\ tftp.port \in {"off", "open", "draining", "closed"} /\ tftp.retries < MaxRetries + 1
  /\ tftp.block < BlockWrap

\* The artifact of a transfer is a prefix of the remote file, every chunk of it once and in
\* order, whatever the network repeats or reorders, and within download_limit_size for wget
\* and curl (collect, handleDATA).
ArtifactIsPrefix ==
  /\ IsPrefix(content, Whole)
  /\ Limit > 0 /\ job.kind \in {"wget", "wgetftp", "curl"} => Len(content) <= Limit

Downloads == {e \in ToSet(events) : e.what = "download"}

\* A file_download event stands for the whole remote file if its length was known, and for
\* exactly the first Limit chunks if it went over the limit on the way, and a failed event then
\* follows unless the session is gone (collect, collectioncomplete, _download_success).
ReportedIsWhole ==
  \A e \in Downloads : job.declared =>
    IF "over" \in odd THEN /\ e.data = SubSeq(Whole, 1, Limit)
                          /\ live => \E e2 \in ToSet(events) : e2.what = "failed"
    ELSE e.data = Whole

\* A hash that was reported, and the backing of a virtual file, name an artifact on disk that
\* nobody writes to any more (Artifact.close before logDispatch and update_realfile).
ReportedIsStored ==
  (\E e \in Downloads : e.hashed) \/ entry = "backed"
    => file = "stored" /\ fp = "closed" /\ \A e \in Downloads : e.data = content

\* A transfer that nothing interrupted, into a directory that takes files, is reported once:
\* downloaded or failed, never both and never not at all.  (An empty file of ftpget is both, and
\* start() of a tftp with a host name raises.)
OneOutcome ==
  /\ pc = "end" /\ file # "none" /\ odd = {} /\ live /\ job.dest = "ok"
  /\ job.kind # "curlhead" /\ ~(TooLarge /\ job.kind \in {"wget", "curl"})
  /\ ~(job.kind = "ftpget" /\ content = <<>>) /\ ~job.named
  => Len(events) = 1

\* When a transfer has ended the shell has the terminal back.  A command that stays on the stack
\* is one whose start() raised, before it had made anything or with a new artifact and nothing
\* that would report or end it (tftp to a host name), or an ftpget that reported its file before
\* it found that the directory does not take it (start, sendRRQ, _download_success).
ControlReturns ==
  pc = "end" /\ live /\ stacked =>
     \/ "raised" \in odd /\ file = "none" /\ events = <<>>
     \/ job.kind = "tftp" /\ job.named /\ file = "temp" /\ events = <<>> /\ tftp.port = "off"
     \/ /\ job.kind = "ftpget" /\ job.dest = "refused" /\ file = "stored" /\ entry = "none"
        /\ Len(events) = 1 /\ \A e \in ToSet(events) : e.what = "download" /\ e.hashed

\* A TFTP transfer in progress waits for a timeout, so a silent server ends it, unless the
\* last datagram was not the one expected: that one cancels the timeout and sets no other.
\* Once the port is closed no timeout is left to fire into the finished transfer.
TftpHasTimer == /\ tftp.port = "open" /\ ~tftp.stray => tftp.timer
                /\ tftp.port \in {"off", "closed"} => ~tftp.timer
                /\ pc = "end" => tftp.port # "open"

\* In no window does the limiter let more than MaxRequests requests for a host through, unless
\* the requests of that host were thrown out to make room for other hosts (RateLimiter.check).
WindowBound ==
  \A h \in Hosts \ evicted, t \in 1..MaxTime :
    Cardinality({i \in DOMAIN granted : granted[i][1] = h /\ granted[i][2] <= t /\ t - granted[i][2] < Window})
      <= MaxRequests
\* What is stored and what is reported of a transfer is the remote file, and the
\* rate limiter keeps its window.
TransfersInv == TransfersTypeOK /\ ArtifactIsPrefix /\ ReportedIsWhole /\ ReportedIsStored /\ WindowBound

\* A transfer ends: in one outcome, with the terminal given back, and by its
\* timeout if the server is silent.
TransfersEnd == OneOutcome /\ ControlReturns /\ TftpHasTimer
=============================================================================
