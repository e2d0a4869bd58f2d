------------------------------- MODULE Sensor -------------------------------
(***************************************************************************)
(* The sensor's two output plugins. On the reactor thread, the Stingar     *)
(* plugin gathers the events of a session and sends them as one record     *)
(* when the session closes, with the bytes of its downloads read off disk; *)
(* the URL fetcher starts a worker thread for every new URL it finds in a  *)
(* command. Workers run concurrently with each other and with the reactor: *)
(* fetch, write <sha>.tmp, rename it to <sha>, and hand a file_download    *)
(* event back to the reactor. The process may stop at any point.           *)
(***************************************************************************)
EXTENDS Naturals

CONSTANTS
    Sessions,  \* attacker sessions
    Urls,      \* URLs extract_urls finds in commands
    Contents,  \* payloads, each standing for its sha256
    Serves,    \* [Urls -> SUBSET Contents]: what a C2 serves at a URL
    Guarded,   \* URLs url_is_fetchable refuses
    None,      \* "no session", "no content"
    MaxFaults  \* bound: failing fetches, failing writes and restarts

ASSUME SensorAssumption ==
    /\ Serves \in [Urls -> SUBSET Contents]
    /\ Guarded \subseteq Urls
    /\ None \notin Sessions \cup Contents
    /\ MaxFaults \in Nat

VARIABLES
    session, \* session -> "new", "open" (known to the plugins) or "over"
    files,   \* meta[session].hp_data.files: entries [url, sha] of an open session
    sent,    \* session -> the file entries it was sent with, [url, sha, bytes]
    fetched, \* _fetched
    worker,  \* url -> the worker thread fetching it
    tmp,     \* content -> state of <sha>.tmp: "none", "partial" or "whole"
    target,  \* content -> state of <sha>
    gets,    \* url -> fetches this process has started (history)
    typed,   \* session -> URLs seen in its commands (history)
    faults   \* faults so far

reactorVars == <<session, files, sent, fetched, gets, typed>>
diskVars == <<tmp, target>>
vars == <<reactorVars, worker, diskVars, faults>>

\* fd is the name of the file the worker's descriptor refers to.
NoWorker == [pc |-> "none", for |-> None, sha |-> None, fd |-> "none"]

Init ==
    /\ session = [s \in Sessions |-> "new"]
    /\ files = [s \in Sessions |-> {}]
    /\ sent = [s \in Sessions |-> {}]
    /\ fetched = {}
    /\ worker = [u \in Urls |-> NoWorker]
    /\ tmp = [c \in Contents |-> "none"]
    /\ target = [c \in Contents |-> "none"]
    /\ gets = [u \in Urls |-> 0]
    /\ typed = [s \in Sessions |-> {}]
    /\ faults = 0

Fault == faults < MaxFaults /\ faults' = faults + 1

-----------------------------------------------------------------------------
(***************************************************************************)
(* The reactor thread.                                                     *)
(***************************************************************************)
\* What Output.emit passes on to the plugins: events of a session it knows.
Known(s) == session[s] = "open"

FileEntry(u, c) == [url |-> u, sha |-> c]

Connect(s) ==
    /\ session[s] = "new"
    /\ session' = [session EXCEPT ![s] = "open"]
    /\ UNCHANGED <<files, sent, fetched, gets, typed, worker, diskVars, faults>>

\* cowrie.command.input with URL u in it.
Command(s, u) ==
    /\ Known(s)
    /\ typed' = [typed EXCEPT ![s] = @ \cup {u}]
    /\ fetched' = fetched \cup {u}
    /\ IF u \in fetched \cup Guarded
       THEN UNCHANGED <<worker, gets>>
       ELSE /\ worker' = [worker EXCEPT ![u] = [pc |-> "get", for |-> s, sha |-> None, fd |-> "none"]]
            /\ gets' = [gets EXCEPT ![u] = @ + 1]
    /\ UNCHANGED <<session, files, sent, diskVars, faults>>

\* _inline_download_bytes and the emit of cowrie.session.closed; what is read
\* off disk may be missing.
Close(s) ==
    /\ Known(s)
    /\ session' = [session EXCEPT ![s] = "over"]
    /\ sent' = [sent EXCEPT ![s] = {[url |-> f.url, sha |-> f.sha, bytes |-> target[f.sha]] : f \in files[s]}]
    /\ files' = [files EXCEPT ![s] = {}]
    /\ UNCHANGED <<fetched, gets, typed, worker, diskVars, faults>>

\* collectioncomplete of wget or curl: Artifact.close() moves the file into the
\* same directory under its hash, unless one is there, and the event follows.
NativeDownload(s, u, c) ==
    /\ Known(s)
    /\ c \in Serves[u]
    /\ FileEntry(u, c) \notin files[s]
    /\ typed' = [typed EXCEPT ![s] = @ \cup {u}]
    /\ target' = [target EXCEPT ![c] = IF @ = "none" THEN "whole" ELSE @]
    /\ files' = [files EXCEPT ![s] = @ \cup {FileEntry(u, c)}]
    /\ UNCHANGED <<session, sent, fetched, gets, worker, tmp, faults>>

\* _emit_file_download on the reactor: dropped when the session is over.
Emit(u) ==
    /\ worker[u].pc = "emit"
    /\ worker' = [worker EXCEPT ![u].pc = "done"]
    /\ files' = IF Known(worker[u].for)
                THEN [files EXCEPT ![worker[u].for] = @ \cup {FileEntry(u, worker[u].sha)}]
                ELSE files
    /\ UNCHANGED <<session, sent, fetched, gets, typed, diskVars, faults>>

-----------------------------------------------------------------------------
(***************************************************************************)
(* The worker thread of a URL.                                             *)
(***************************************************************************)

\* The body was read and hashed, and os.path.exists(target) asked.
Get(u) ==
    /\ worker[u].pc = "get"
    /\ \E c \in Serves[u] :
         worker' = [worker EXCEPT ![u].sha = c,
                                  ![u].pc = IF target[c] = "none" THEN "open" ELSE "emit"]
    /\ UNCHANGED <<reactorVars, diskVars, faults>>

\* Unresolvable, private, refused, timed out or empty: nothing is written and
\* nothing is tried again.
GetFails(u) ==
    /\ worker[u].pc = "get"
    /\ Fault
    /\ worker' = [worker EXCEPT ![u].pc = "done"]
    /\ UNCHANGED <<reactorVars, diskVars>>

\* open(tmp, "wb") creates the file or truncates the one that is there.
Open(u) ==
    /\ worker[u].pc = "open"
    /\ tmp' = [tmp EXCEPT ![worker[u].sha] = "partial"]
    /\ worker' = [worker EXCEPT ![u].pc = "write", ![u].fd = "tmp"]
    /\ UNCHANGED <<reactorVars, target, faults>>

\* A faulty variant: the event is handed over before the rename.
WriteThenEmit(u) ==
    /\ worker[u].pc = "write"
    /\ tmp' = [tmp EXCEPT ![worker[u].sha] = "whole"]
    /\ worker' = [worker EXCEPT ![u].pc = "emit", ![u].fd = "none"]
    /\ UNCHANGED <<reactorVars, target, faults>>

\* f.write and close, into whatever name the file has by now.
Write(u) ==
    /\ worker[u].pc = "write"
    /\ tmp' = IF worker[u].fd = "tmp" THEN [tmp EXCEPT ![worker[u].sha] = "whole"] ELSE tmp
    /\ target' = IF worker[u].fd = "target" THEN [target EXCEPT ![worker[u].sha] = "whole"] ELSE target
    /\ worker' = [worker EXCEPT ![u].pc = "rename", ![u].fd = "none"]
    /\ UNCHANGED <<reactorVars, faults>>

\* os.rename(tmp, target): descriptors follow the file they refer to.
Rename(u) ==
    LET c == worker[u].sha
        Follow(w) == IF w.sha # c THEN w
                     ELSE [w EXCEPT !.fd = CASE w.fd = "tmp" -> "target"
                                             [] w.fd = "target" -> "none"
                                             [] OTHER -> w.fd]
    IN  /\ worker[u].pc = "rename"
        /\ tmp[c] # "none"
        /\ target' = [target EXCEPT ![c] = tmp[c]]
        /\ tmp' = [tmp EXCEPT ![c] = "none"]
        /\ worker' = [v \in Urls |-> IF v = u THEN [worker[u] EXCEPT !.pc = "emit"]
                                              ELSE Follow(worker[v])]
        /\ UNCHANGED <<reactorVars, faults>>

\* Another worker has renamed the file: OSError, logged, no event.
RenameFails(u) ==
    /\ worker[u].pc = "rename"
    /\ tmp[worker[u].sha] = "none"
    /\ worker' = [worker EXCEPT ![u].pc = "done"]
    /\ UNCHANGED <<reactorVars, diskVars, faults>>

\* OSError of the open or the write: what was written so far stays where it is.
WriteFails(u) ==
    /\ worker[u].pc \in {"open", "write"}
    /\ Fault
    /\ worker' = [worker EXCEPT ![u].pc = "done", ![u].fd = "none"]
    /\ UNCHANGED <<reactorVars, diskVars>>

\* The process ends and starts again: sessions, workers and _fetched are gone,
\* the files stay.
Restart ==
    /\ Fault
    /\ session' = [s \in Sessions |-> IF session[s] = "open" THEN "over" ELSE session[s]]
    /\ files' = [s \in Sessions |-> {}]
    /\ fetched' = {}
    /\ worker' = [u \in Urls |-> NoWorker]
    /\ gets' = [u \in Urls |-> 0]
    /\ UNCHANGED <<sent, typed, diskVars>>

-----------------------------------------------------------------------------
Reactor ==
    \/ \E s \in Sessions : Connect(s) \/ Close(s)
    \/ \E s \in Sessions, u \in Urls : Command(s, u) \/ \E c \in Contents : NativeDownload(s, u, c)
    \/ \E u \in Urls : Emit(u)

Worker(u) == Get(u) \/ Open(u) \/ Write(u) \/ Rename(u) \/ RenameFails(u)

Failure == Restart \/ \E u \in Urls : GetFails(u) \/ WriteFails(u)

Next == Reactor \/ (\E u \in Urls : Worker(u)) \/ Failure

Spec == Init /\ [][Next]_vars

-----------------------------------------------------------------------------
\* Types; a worker that writes has a payload and a session in hand.
TypeOK ==
    /\ session \in [Sessions -> {"new", "open", "over"}]
    /\ files \in [Sessions -> SUBSET [url : Urls, sha : Contents]]
    /\ sent \in [Sessions -> SUBSET [url : Urls, sha : Contents, bytes : {"none", "partial", "whole"}]]
    /\ fetched \subseteq Urls
    /\ worker \in [Urls -> [pc : {"none", "get", "open", "write", "rename", "emit", "done"},
                            for : Sessions \cup {None}, sha : Contents \cup {None},
                            fd : {"none", "tmp", "target"}]]
    /\ \A u \in Urls :
         /\ worker[u].pc # "none" => worker[u].for \in Sessions
         /\ worker[u].pc \in {"open", "write", "rename", "emit"} => worker[u].sha \in Contents
    /\ tmp \in [Contents -> {"none", "partial", "whole"}]
    /\ target \in [Contents -> {"none", "partial", "whole"}]
    /\ gets \in [Urls -> Nat]
    /\ typed \in [Sessions -> SUBSET Urls]
    /\ faults \in 0 .. MaxFaults

\* "A hot C2 only gets one fetch per Cowrie process lifetime", however many
\* sessions name the URL while the first fetch is still running.
HotUrlFetchedOnce == \A u \in Urls : gets[u] <= 1

Exclusive(c) == \A u, v \in Urls : c \in Serves[u] \cap Serves[v] => u = v

\* What of it the code does ensure: a payload that is served at one URL only is
\* never under its hash cut short, whatever the process was doing when it
\* stopped and whatever the worker of its URL left behind in an earlier life.
ExclusiveDownloadsAreWhole ==
    \A c \in Contents : Exclusive(c) => target[c] # "partial"

\* A session is sent only with downloads of URLs named in that session, and a
\* download it is sent with is on disk, whole if no other URL serves it: the
\* file is in place before the event that announces it.
SentFilesAreWhole ==
    \A s \in Sessions : \A f \in sent[s] :
        /\ f.url \in typed[s]
        /\ f.bytes # "none"
        /\ Exclusive(f.sha) => f.bytes = "whole"

\* Workers that fetch the same payload share <sha>.tmp. As long as nothing
\* fails, the payload is there once one of them is done with it, also for the
\* one whose rename came second, and a file under a hash is cut short only
\* while some worker is still going to complete it.
SharedPayloadSurvives ==
    faults = 0 =>
        \A u \in Urls : worker[u].sha # None =>
            LET c == worker[u].sha IN
            /\ worker[u].pc \in {"emit", "done"} => target[c] # "none"
            /\ target[c] = "partial" => \E v \in Urls : worker[v].sha = c /\ worker[v].fd = "target"

\* What the downloads directory holds and what sessions are sent with: one fetch
\* per URL, no cut file under a hash that one URL serves, no event before its
\* file, and a payload of two URLs is not lost between their workers.
SensorInv == TypeOK /\ HotUrlFetchedOnce /\ ExclusiveDownloadsAreWhole /\ SentFilesAreWhole /\ SharedPayloadSurvives
=============================================================================
