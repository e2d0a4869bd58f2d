------------------------------ MODULE Extract -------------------------------
(***************************************************************************)
(* One session on its way through the pipeline. The sensor gathers the     *)
(* hosts its commands name and the entries of its files, inlines the bytes *)
(* of the downloads at the close, and sends it; _handle_record turns it    *)
(* into a session document and the evidence rows of three producers:       *)
(* shell_references, served_files and file_callbacks. Text is abstracted   *)
(* to the hosts the extractor finds in it, a payload to its hash.          *)
(***************************************************************************)
EXTENDS Naturals, Sequences, FiniteSets

CONSTANTS
    Hosts,     \* C2 hosts
    Payloads,  \* payloads, each standing for its bytes and its sha256
    Names,     \* [Payloads -> SUBSET Hosts]: hosts find_hosts finds in a payload
    Scripts,   \* payloads that decode as UTF-8 and have no binary magic
    CutOf,     \* [Payloads -> SUBSET Payloads]: a payload cut short on disk
    None,      \* "", "no host" and "no bytes"
    MaxFiles   \* bound: files of a session

ASSUME ExtractAssumption ==
    /\ Names \in [Payloads -> SUBSET Hosts]
    /\ Scripts \subseteq Payloads
    /\ CutOf \in [Payloads -> SUBSET Payloads]
    /\ None \notin Hosts \cup Payloads
    /\ MaxFiles \in Nat

VARIABLES
    pc,     \* "open", "sent" (by the sensor), "handled" or "stripped" (by the engine)
    named,  \* hosts in the text of the commands
    files,  \* hp_data.files
    doc,    \* the session document written, its file entries
    rows    \* the ledger rows written with it

extractVars == <<pc, named, files, doc, rows>>

ExtractInit ==
    /\ pc = "open"
    /\ named = {}
    /\ files = <<>>
    /\ doc = <<>>
    /\ rows = {}

-----------------------------------------------------------------------------
(***************************************************************************)
(* The sensor.                                                             *)
(***************************************************************************)
FileRef ==
    [url : Hosts \cup {None}, resolved_ip : Hosts \cup {None}, shasum : Payloads \cup {None},
     action : {"download", "upload"}, status : {"successful", "failed"},
     content_b64 : Payloads \cup {None}]

Retrieved(f) == f.action = "download" /\ f.status = "successful"

\* cowrie.command.input or .failed whose text names a host.
Command(h) ==
    /\ pc = "open"
    /\ named' = named \cup {h}
    /\ UNCHANGED <<pc, files, doc, rows>>

\* A file_download, file_download.failed or file_upload event. Only the URL
\* fetcher resolves the host; a failed download has no hash, an upload no URL.
FileEvent(f) ==
    /\ pc = "open"
    /\ Len(files) < MaxFiles
    /\ f.content_b64 = None
    /\ f.status = "failed" <=> f.shasum = None
    /\ f.action = "upload" => f.status = "successful" /\ f.url = None
    /\ f.resolved_ip # None => Retrieved(f) /\ f.url # None
    /\ files' = Append(files, f)
    /\ UNCHANGED <<pc, named, doc, rows>>

\* What _inline_download_bytes finds on disk: the file, nothing (missing or too
\* large) or, while two workers write it, a part of it.
OnDisk(f) == {f.shasum, None} \cup CutOf[f.shasum]

Close ==
    /\ pc = "open"
    /\ pc' = "sent"
    /\ \E bytes \in [DOMAIN files -> Payloads \cup {None}] :
         /\ \A i \in DOMAIN files :
              bytes[i] \in IF Retrieved(files[i]) THEN OnDisk(files[i]) ELSE {None}
         /\ files' = [i \in DOMAIN files |-> [files[i] EXCEPT !.content_b64 = bytes[i]]]
    /\ UNCHANGED <<named, doc, rows>>

-----------------------------------------------------------------------------
(***************************************************************************)
(* all_observations.                                                       *)
(***************************************************************************)

\* EVIDENCE_RANK.
Rank == [shell_reference |-> 0, served_file |-> 1, file_callback |-> 2]

\* base_obs; nth tells apart the rows of different files.
BaseObs(host, evidence, nth) ==
    [c2_host |-> host, evidence |-> evidence, evidence_rank |-> Rank[evidence], nth |-> nth,
     sha256 |-> None, content |-> None, via |-> None]

\* extract: the hosts of the command text and of hp_data.urls.
C2Hosts == named \cup ({files[i].url : i \in DOMAIN files} \ {None})

ShellReferences == {BaseObs(h, "shell_reference", 0) : h \in C2Hosts}

\* The URL's host, or the address it resolved to.
ServingHost(f) == IF f.url # None THEN f.url ELSE f.resolved_ip

\* The entries served_files does not skip.
Served == {i \in DOMAIN files : Retrieved(files[i]) /\ ServingHost(files[i]) # None}

\* The sensor's hash, or that of the bytes.
Sha256(f) == IF f.shasum # None THEN f.shasum ELSE f.content_b64

ServedFile(i) ==
    LET f == files[i]
    IN  [BaseObs(ServingHost(f), "served_file", i) EXCEPT
            !.sha256 = Sha256(f),
            !.content = IF f.content_b64 \in Scripts THEN f.content_b64 ELSE None]

\* _classify_payload: hosts found in the bytes, without the serving host.
Callbacks(i) ==
    IF files[i].content_b64 = None THEN {}
    ELSE Names[files[i].content_b64] \ {ServingHost(files[i])}

FileCallback(h, i) ==
    [BaseObs(h, "file_callback", i) EXCEPT !.via = Sha256(files[i])]

\* Faulty variants: every mention is an edge; one edge per file.
FileCallbacksUnseen == UNION {{FileCallback(h, i) : h \in Callbacks(i)} : i \in Served}

FileCallbacksOnePerFile ==
    UNION {{FileCallback(h, i) : h \in {g \in Callbacks(i) :
              ~\E j \in Served : j < i /\ Callbacks(j) # {} /\ Sha256(files[j]) = Sha256(files[i])}}
           : i \in Served}

\* file_callbacks, with its set of (host, sha256) pairs seen before.
FileCallbacks ==
    UNION {{FileCallback(h, i) : h \in {g \in Callbacks(i) :
              ~\E j \in Served : j < i /\ g \in Callbacks(j) /\ Sha256(files[j]) = Sha256(files[i])}}
           : i \in Served}

AllObservations == ShellReferences \cup {ServedFile(i) : i \in Served} \cup FileCallbacks

-----------------------------------------------------------------------------
(***************************************************************************)
(* _handle_record.                                                         *)
(***************************************************************************)

\* enrich_session and _strip_bytes: the entries without content_b64.
StripBytes == [i \in DOMAIN files |-> [files[i] EXCEPT !.content_b64 = None]]

Handle ==
    /\ pc = "sent"
    /\ pc' = "handled"
    /\ doc' = StripBytes
    /\ rows' = AllObservations
    /\ UNCHANGED <<named, files>>

\* Some step of process raises on this session.
HandleRaises ==
    /\ pc = "sent"
    /\ pc' = "stripped"
    /\ doc' = StripBytes
    /\ rows' = {}
    /\ UNCHANGED <<named, files>>

\* The next session.
NextSession ==
    /\ pc \in {"handled", "stripped"}
    /\ pc' = "open"
    /\ named' = {} /\ files' = <<>> /\ doc' = <<>> /\ rows' = {}

ExtractNext ==
    \/ \E h \in Hosts : Command(h)
    \/ \E f \in FileRef : FileEvent(f)
    \/ Close \/ Handle \/ HandleRaises \/ NextSession

ExtractSpec == ExtractInit /\ [][ExtractNext]_extractVars

-----------------------------------------------------------------------------
Observation ==
    [c2_host : Hosts, evidence : DOMAIN Rank, evidence_rank : 0 .. 2, nth : 0 .. MaxFiles,
     sha256 : Payloads \cup {None}, content : Payloads \cup {None}, via : Payloads \cup {None}]

\* Types; in particular every row is about a host.
ExtractTypeOK ==
    /\ pc \in {"open", "sent", "handled", "stripped"}
    /\ named \subseteq Hosts
    /\ Len(files) <= MaxFiles /\ \A i \in DOMAIN files : files[i] \in FileRef
    /\ \A i \in DOMAIN doc : doc[i] \in FileRef
    /\ rows \subseteq Observation

RowsOf(evidence) == {r \in rows : r.evidence = evidence}

\* Rank 2 is never awarded on hearsay: every chain edge leads back to a
\* served_file row of the same session with the hash the edge names and from
\* another host, also when the bytes on disk were missing or cut short for one
\* of several entries of the same file.
EdgesHaveArtifact ==
    \A e \in RowsOf("file_callback") :
        \E s \in RowsOf("served_file") :
            s.nth = e.nth /\ s.sha256 = e.via /\ e.via # None /\ s.c2_host # e.c2_host

\* "One script naming a host twice yields one edge": Cowrie's own downloader
\* and the URL fetcher may both report a file, and a host it names still gets
\* one edge from it.
OneEdgePerHostAndFile ==
    \A d, e \in RowsOf("file_callback") :
        (d.c2_host = e.c2_host /\ d.via = e.via) => d = e

\* No evidence is lost to the order of the entries, to a first entry without
\* bytes or to the deduplication: unless enrichment failed, each host has the
\* highest rank that something in the session supports.
EvidenceIsComplete ==
    pc = "handled" =>
        /\ \A h \in named : \E r \in rows : r.c2_host = h
        /\ \A i \in DOMAIN files :
             LET f == files[i] host == ServingHost(f) IN
             (Retrieved(f) /\ host # None) =>
                /\ \E r \in rows : r.c2_host = host /\ r.evidence_rank = 1 /\ r.nth = i
                /\ f.content_b64 # None =>
                     \A h \in Names[f.content_b64] \ {host} :
                        \E r \in rows : r.c2_host = h /\ r.evidence_rank = 2 /\ r.via = f.shasum

\* Inlined bytes are for transport only: no session document carries them,
\* whether enrichment worked or failed, and a binary's bytes are in no row.
BytesNeverReachElasticsearch ==
    /\ \A i \in DOMAIN doc : doc[i].content_b64 = None
    /\ \A r \in rows : r.content \in Scripts \cup {None}
\* What the rows and documents of a session never hold: a chain edge without its
\* artifact or twice, or inlined bytes.
ExtractInv == ExtractTypeOK /\ EdgesHaveArtifact /\ OneEdgePerHostAndFile /\ BytesNeverReachElasticsearch
=============================================================================
