------------------------------ MODULE VtOutput ------------------------------
(***************************************************************************)
(* The VirusTotal output plugin of Cowrie (output/virustotal.py).  A       *)
(* download makes it ask for the URL and, while the file is new, for the   *)
(* file; a file VirusTotal has not is uploaded, a URL it has not is        *)
(* submitted, and what was taken gets a comment and a place in the         *)
(* collection.  Requests are answered in any order and may fail.           *)
(***************************************************************************)
EXTENDS Naturals, FiniteSets

CONSTANTS Files, Urls,
          Fresh,         \* TIME_SINCE_FIRST_DOWNLOAD
          MaxVtTime, MaxDownloads, MaxVtFailures

None == "none"

ASSUME VtOutputAssumption ==
    /\ {Fresh, MaxVtTime, MaxDownloads, MaxVtFailures} \subseteq Nat
    /\ Files \cap Urls = {} /\ None \notin Files \cup Urls

Jobs == [job : {"scanfile", "postfile", "addfile", "commentfile"}, of : Files]
        \cup [job : {"scanurl", "submiturl", "addurl", "commenturl"}, of : Urls]
        \cup {[job |-> "collection", of |-> None], [job |-> "scanfile", of |-> None]}
Switches == [scanurl : BOOLEAN, scanfile : BOOLEAN, upload : BOOLEAN, comment : BOOLEAN, collect : BOOLEAN]

VARIABLES conf,       \* scan_url, scan_file, upload, comment, collection
          clock,
          first,      \* modification time of a downloaded file, 0 before
          urlCache,   \* url_cache
          inflight,   \* [Jobs -> Nat]: requests not answered
          collection, \* is collection_id known?
          has,        \* what VirusTotal knows
          began,      \* what it knew at the start
          added,      \* what is in the collection
          count,      \* downloads of a file in its first minute (history)
          posts,      \* uploads of a file, requests for a URL (history)
          failed,     \* jobs that failed (history)
          answered,   \* URLs VirusTotal answered for: status 200 and JSON (history)
          downs       \* downloads and uploads so far

vtOutVars == <<conf, clock, first, urlCache, inflight, collection, has, began, added, count, posts,
               failed, answered, downs>>

VtOutInit ==
    /\ conf \in Switches
    /\ clock = 1 /\ first = [f \in Files |-> 0] /\ urlCache = {}
    /\ inflight = [j \in Jobs |-> IF j.job = "collection" /\ conf.collect THEN 1 ELSE 0]
    /\ collection = FALSE /\ began \in SUBSET (Files \cup Urls) /\ has = began /\ added = {}
    /\ count = [f \in Files |-> 0] /\ posts = [x \in Files \cup Urls |-> 0]
    /\ failed = {} /\ answered = {} /\ downs = 0

J(job, of) == [job |-> job, of |-> of]
Plus(fl, jobs) == [j \in Jobs |-> IF j \in jobs THEN fl[j] + 1 ELSE fl[j]]
Minus(fl, j) == [fl EXCEPT ![j] = @ - 1]
Bumped(h, xs) == [x \in DOMAIN h |-> IF x \in xs THEN h[x] + 1 ELSE h[x]]

(* _is_new_shasum: a file downloaded before keeps its modification time. *)
IsNewShasum(f) == ~(first'[f] < clock - Fresh)

(* write(): the URL of a download is looked up.  (An upload has none.) *)
Lookups(url) == IF conf.scanurl /\ url # None /\ url \notin urlCache THEN {J("scanurl", url)} ELSE {}

Download(f, url) ==
    /\ downs < MaxDownloads /\ downs' = downs + 1
    /\ first' = [first EXCEPT ![f] = IF @ = 0 THEN clock ELSE @]
    /\ LET jobs == Lookups(url) \cup (IF IsNewShasum(f) /\ conf.scanfile THEN {J("scanfile", f)} ELSE {})
       IN /\ inflight' = Plus(inflight, jobs)
          /\ count' = IF clock <= first'[f] + Fresh THEN Bumped(count, {f}) ELSE count
          /\ posts' = Bumped(posts, {j.of : j \in jobs} \cap Urls)
    /\ UNCHANGED <<conf, answered, clock, urlCache, collection, has, began, added, failed>>

(* A TFTP download: its event has no hash, and what _is_new_shasum looks at *)
(* is the download directory.  When that changed lately, VirusTotal is      *)
(* asked for a file without a name, and there is none to upload.            *)
Nameless(url, changed) ==
    /\ downs < MaxDownloads /\ downs' = downs + 1
    /\ LET jobs == Lookups(url) \cup (IF changed /\ conf.scanfile THEN {J("scanfile", None)} ELSE {})
       IN /\ inflight' = Plus(inflight, jobs)
          /\ posts' = Bumped(posts, {j.of : j \in jobs} \cap Urls)
    /\ UNCHANGED <<conf, answered, clock, first, urlCache, collection, has, began, added, count, failed>>

ScanNameless ==
    /\ inflight[J("scanfile", None)] > 0 /\ inflight' = Minus(inflight, J("scanfile", None))
    /\ UNCHANGED <<conf, answered, downs, clock, first, urlCache, collection, has, began, added, count,
                   posts, failed>>

Takes(j) == inflight[j] > 0

(* scanfile: the answer is the verdict, or NotFound and the file is posted. *)
ScanFileFound(f) ==
    /\ Takes(J("scanfile", f)) /\ inflight' = Minus(inflight, J("scanfile", f))
    /\ UNCHANGED <<conf, answered, downs, clock, first, urlCache, collection, has, began, added, count,
                   posts, failed>>
ScanFile(f) ==
    /\ Takes(J("scanfile", f))
    /\ LET post == f \notin has /\ conf.upload
       IN /\ inflight' = Plus(Minus(inflight, J("scanfile", f)),
                              IF post THEN {J("postfile", f)} ELSE {})
          /\ posts' = Bumped(posts, IF post THEN {f} ELSE {})
    /\ UNCHANGED <<conf, answered, downs, clock, first, urlCache, collection, has, began, added, count, failed>>

(* postfile, submiturl: VirusTotal has it now; _add_to_collection does       *)
(* nothing before the id of the collection came.                             *)
Taken(job, x, add, comment) ==
    /\ Takes(J(job, x))
    /\ has' = has \cup {x}
    /\ inflight' = Plus(Minus(inflight, J(job, x)),
                        (IF conf.collect /\ collection THEN {J(add, x)} ELSE {})
                        \cup (IF conf.comment THEN {J(comment, x)} ELSE {}))
    /\ UNCHANGED <<conf, answered, downs, clock, first, urlCache, collection, began, added, count, posts, failed>>

PostFile(f) == Taken("postfile", f, "addfile", "commentfile")
SubmitUrl(u) == Taken("submiturl", u, "addurl", "commenturl")

(* scanurl, answered with status 200 and JSON: the URL is in the cache from *)
(* now on, and submitted when the body says NotFound.  Status 404 fails.    *)
ScanUrlUncached(u) ==
    /\ Takes(J("scanurl", u)) /\ answered' = answered \cup {u}
    /\ inflight' = Plus(Minus(inflight, J("scanurl", u)),
                        IF u \notin has THEN {J("submiturl", u)} ELSE {})
    /\ UNCHANGED <<conf, downs, clock, first, urlCache, collection, has, began, added, count, posts, failed>>
ScanUrl(u) ==
    /\ Takes(J("scanurl", u)) /\ answered' = answered \cup {u}
    /\ urlCache' = urlCache \cup {u}
    /\ inflight' = Plus(Minus(inflight, J("scanurl", u)),
                        IF u \notin has THEN {J("submiturl", u)} ELSE {})
    /\ UNCHANGED <<conf, downs, clock, first, collection, has, began, added, count, posts, failed>>

(* _init_collection: only a collection that is created gives its id. *)
InitCollection(created) ==
    /\ Takes(J("collection", None))
    /\ inflight' = Minus(inflight, J("collection", None)) /\ collection' = created
    /\ UNCHANGED <<conf, answered, downs, clock, first, urlCache, has, began, added, count, posts, failed>>

AddToCollection(x, job) ==
    /\ Takes(J(job, x))
    /\ inflight' = Minus(inflight, J(job, x)) /\ added' = added \cup {x}
    /\ UNCHANGED <<conf, answered, downs, clock, first, urlCache, collection, has, began, count, posts, failed>>

PostComment(x, job) ==
    /\ Takes(J(job, x)) /\ inflight' = Minus(inflight, J(job, x))
    /\ UNCHANGED <<conf, answered, downs, clock, first, urlCache, collection, has, began, added, count, posts, failed>>

(* cbResponse with another status, a body that says another error or cannot *)
(* be read ("[]\n", or no JSON, with status 200 too), cbError: logged, and   *)
(* not tried again.                                                         *)
RequestFails(j) ==
    /\ Takes(j) /\ Cardinality(failed) < MaxVtFailures
    /\ inflight' = Minus(inflight, j) /\ failed' = failed \cup {j}
    /\ UNCHANGED <<conf, answered, downs, clock, first, urlCache, collection, has, began, added, count, posts>>

VtTick == /\ clock < MaxVtTime /\ clock' = clock + 1
          /\ UNCHANGED <<conf, answered, downs, first, urlCache, inflight, collection, has, began, added, count, posts,
                         failed>>

VtOutNext ==
    \/ \E f \in Files : ScanFile(f) \/ PostFile(f) \/ \E u \in Urls \cup {None} : Download(f, u)
    \/ \E u \in Urls, changed \in BOOLEAN : Nameless(u, changed)
    \/ ScanNameless
    \/ \E u \in Urls : ScanUrl(u) \/ SubmitUrl(u)
    \/ \E created \in BOOLEAN : InitCollection(created)
    \/ \E f \in Files : AddToCollection(f, "addfile") \/ PostComment(f, "commentfile")
    \/ \E u \in Urls : AddToCollection(u, "addurl") \/ PostComment(u, "commenturl")
    \/ \E j \in Jobs : RequestFails(j)
    \/ VtTick

VtOutSpec == VtOutInit /\ [][VtOutNext]_vtOutVars

-----------------------------------------------------------------------------
Idle == \A j \in Jobs : inflight[j] = 0
FailedFor(x) == \E j \in failed : j.of = x

VtOutTypeOK == /\ inflight \in [Jobs -> 0..(MaxDownloads + 1)]
               /\ urlCache \subseteq Urls /\ added \subseteq has /\ began \subseteq has

(* A file VirusTotal had from the start is never uploaded, and another at    *)
(* most once for each download in the minute it first came: a busy dropper   *)
(* does not make the plugin upload forever (virustotal.py _is_new_shasum).   *)
UploadsAreBounded ==
    \A f \in Files : posts[f] <= IF f \in began THEN 0 ELSE count[f]

(* Once VirusTotal answered for a URL, with status 200 and JSON, it is not   *)
(* asked again, by downloads before and after (virustotal.py url_cache).     *)
AnsweredUrlsRest == [][\A u \in Urls : u \in answered => posts'[u] = posts[u]]_vtOutVars

(* With scan_file and upload on, when all is answered, a file that was new   *)
(* and whose event names its hash is known to VirusTotal, unless a request   *)
(* for it failed: no lookup is tried again.  A TFTP download, whose event    *)
(* has no hash, never is (virustotal.py write, scanfile, postfile).          *)
NewFilesReachVt ==
    Idle /\ conf.scanfile /\ conf.upload =>
        \A f \in Files : count[f] > 0 /\ ~FailedFor(f) => f \in has

(* Only what this process sent goes in the collection, and only after an     *)
(* answer that gave its id.  A collection that exists already gives none, so *)
(* nothing is added to it, although the log line and the documentation say   *)
(* it is reused (virustotal.py _init_collection, _add_to_collection).        *)
CollectionIsOurs == added \cap began = {} /\ (added # {} => collection)

(* What VirusTotal gets: the new files that have a hash, none without end,   *)
(* and a collection of what this sensor sent.                                *)
VtOutInv == VtOutTypeOK /\ UploadsAreBounded /\ NewFilesReachVt /\ CollectionIsOurs
=============================================================================
