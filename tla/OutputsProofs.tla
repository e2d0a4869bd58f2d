--------------------------- MODULE OutputsProofs ---------------------------
(***************************************************************************)
(* The output plugins of Cowrie, for any number of sessions, events,       *)
(* files, URLs and addresses.                                              *)
(***************************************************************************)
EXTENDS Emit, VtOutput, AbuseIpdb, SqlOutput, Integers, FiniteSetTheorems, SequenceTheorems, WellFoundedInduction, TLAPS

-----------------------------------------------------------------------------
(***************************************************************************)
(* VirusTotal.                                                             *)
(***************************************************************************)
VtTypes ==
    /\ conf \in Switches
    /\ clock \in Nat /\ first \in [Files -> Nat] /\ downs \in 0..MaxDownloads
    /\ inflight \in [Jobs -> Nat] /\ failed \subseteq Jobs
    /\ count \in [Files -> Nat] /\ posts \in [Files \cup Urls -> Nat]
    /\ collection \in BOOLEAN
    /\ answered \subseteq urlCache /\ urlCache \subseteq Urls
    /\ began \subseteq has /\ added \subseteq has

\* What is in flight of a file is paid for by its downloads; what was uploaded,
\* or is looked up and may be, by those in its first minute.  A new file that
\* VirusTotal has not is being looked up or uploaded.
FileInv(f) ==
    LET n(job) == inflight[J(job, f)]
    IN  /\ n("scanfile") + n("postfile") + n("addfile") <= downs
        /\ n("scanfile") + n("postfile") + n("commentfile") <= downs
        /\ f \in began => posts[f] = 0 /\ n("postfile") = 0
        /\ f \notin began => posts[f] + n("scanfile") <= count[f]
        /\ n("addfile") > 0 => f \in has /\ f \notin began /\ collection
        /\ conf.scanfile /\ conf.upload /\ count[f] > 0 /\ ~FailedFor(f) /\ f \notin has =>
              n("scanfile") > 0 \/ n("postfile") > 0

UrlInv(u) ==
    LET n(job) == inflight[J(job, u)]
    IN  /\ n("scanurl") + n("submiturl") + n("addurl") <= downs
        /\ n("scanurl") + n("submiturl") + n("commenturl") <= downs
        /\ u \in began => n("submiturl") = 0
        /\ n("addurl") > 0 => u \in has /\ u \notin began /\ collection

\* The id of the collection is asked for once; a file without a name is looked up
\* once for a download.
CollectInv ==
    /\ inflight[J("scanfile", None)] <= downs
    /\ inflight[J("collection", None)] + (IF collection THEN 1 ELSE 0) <= 1
    /\ CollectionIsOurs

VtIInv ==
    VtTypes /\ CollectInv /\ (\A f \in Files : FileInv(f)) /\ (\A u \in Urls : UrlInv(u))

FileJobs == {"scanfile", "postfile", "addfile", "commentfile"}
UrlJobs == {"scanurl", "submiturl", "addurl", "commenturl"}

\* A request is told by what it does and of what.
LEMMA JobFacts ==
    /\ \A a, b, x, y : J(a, x) = J(b, y) <=> a = b /\ x = y
    /\ \A a, x : J(a, x).of = x /\ J(a, x).job = a
    /\ \A a \in FileJobs, f \in Files : J(a, f) \in Jobs
    /\ \A a \in UrlJobs, u \in Urls : J(a, u) \in Jobs
    /\ J("collection", None) \in Jobs /\ J("scanfile", None) \in Jobs
    /\ \A j \in Jobs : \/ \E a \in FileJobs, f \in Files : j = J(a, f)
                       \/ \E a \in UrlJobs, u \in Urls : j = J(a, u)
                       \/ j \in {J("collection", None), J("scanfile", None)}
  <1>1. \A a, b, x, y : J(a, x) = J(b, y) <=> a = b /\ x = y
    BY DEF J
  <1>2. \A a, x : J(a, x).of = x /\ J(a, x).job = a
    BY DEF J
  <1>3. /\ \A a \in FileJobs, f \in Files : J(a, f) \in Jobs
        /\ \A a \in UrlJobs, u \in Urls : J(a, u) \in Jobs
        /\ J("collection", None) \in Jobs /\ J("scanfile", None) \in Jobs
    BY DEF J, Jobs, FileJobs, UrlJobs
  <1>4. ASSUME NEW j \in Jobs
        PROVE  \/ \E a \in FileJobs, f \in Files : j = J(a, f)
               \/ \E a \in UrlJobs, u \in Urls : j = J(a, u)
               \/ j \in {J("collection", None), J("scanfile", None)}
    <2>1. CASE j \in [job : FileJobs, of : Files]
      <3>1. j = J(j.job, j.of) /\ j.job \in FileJobs /\ j.of \in Files
        BY <2>1 DEF J
      <3> QED
        BY <3>1
    <2>2. CASE j \in [job : UrlJobs, of : Urls]
      <3>1. j = J(j.job, j.of) /\ j.job \in UrlJobs /\ j.of \in Urls
        BY <2>2 DEF J
      <3> QED
        BY <3>1
    <2> QED
      BY <2>1, <2>2 DEF Jobs, FileJobs, UrlJobs, J
  <1> QED
    BY <1>1, <1>2, <1>3, <1>4

\* One request is answered and those of S are made.
LEMMA Flights ==
    ASSUME NEW fl \in [Jobs -> Nat], NEW S, NEW i \in Jobs, fl[i] > 0
    PROVE  /\ Plus(fl, S) \in [Jobs -> Nat] /\ Minus(fl, i) \in [Jobs -> Nat]
           /\ Plus(Minus(fl, i), S) \in [Jobs -> Nat]
           /\ \A j \in Jobs : Minus(fl, i)[j] = IF j = i THEN fl[j] - 1 ELSE fl[j]
           /\ \A j \in Jobs : Plus(Minus(fl, i), S)[j] =
                 (IF j = i THEN fl[j] - 1 ELSE fl[j]) + (IF j \in S THEN 1 ELSE 0)
  <1>1. Minus(fl, i) \in [Jobs -> Nat] /\ \A j \in Jobs : Minus(fl, i)[j] = IF j = i THEN fl[j] - 1 ELSE fl[j]
    BY DEF Minus
  <1> QED
    BY <1>1 DEF Plus

\* A file is looked up, and uploaded when VirusTotal has it not.
LEMMA StepScanFile ==
    ASSUME VtIInv, NEW f \in Files, ScanFile(f)
    PROVE  VtIInv'
  <1> DEFINE i == J("scanfile", f)
             S == IF f \notin has /\ conf.upload THEN {J("postfile", f)} ELSE {}
  <1>1. VtTypes /\ i \in Jobs /\ inflight[i] > 0
    BY JobFacts DEF VtIInv, FileJobs, UrlJobs, Takes, ScanFile
  <1>2. inflight' = Plus(Minus(inflight, i), S)
    BY DEF ScanFile
  <1>3. /\ inflight \in [Jobs -> Nat] /\ inflight' \in [Jobs -> Nat]
        /\ \A j \in Jobs : inflight'[j] =
              (IF j = i THEN inflight[j] - 1 ELSE inflight[j]) + (IF j \in S THEN 1 ELSE 0)
    BY <1>1, <1>2, Flights DEF VtTypes
  <1>4. \A y \in Files : /\ inflight'[J("scanfile", y)] = inflight[J("scanfile", y)] - (IF y = f THEN 1 ELSE 0)
                         /\ inflight'[J("postfile", y)] = inflight[J("postfile", y)] + (IF y = f /\ f \notin has /\ conf.upload THEN 1 ELSE 0)
                         /\ inflight'[J("addfile", y)] = inflight[J("addfile", y)]
                         /\ inflight'[J("commentfile", y)] = inflight[J("commentfile", y)]
                         /\ inflight[J("scanfile", y)] \in Nat /\ inflight[J("postfile", y)] \in Nat
                         /\ inflight[J("addfile", y)] \in Nat /\ inflight[J("commentfile", y)] \in Nat
    BY <1>3, JobFacts, VtOutputAssumption DEF FileJobs, UrlJobs
  <1>5. \A y \in Urls : /\ inflight'[J("scanurl", y)] = inflight[J("scanurl", y)]
                        /\ inflight'[J("submiturl", y)] = inflight[J("submiturl", y)]
                        /\ inflight'[J("addurl", y)] = inflight[J("addurl", y)]
                        /\ inflight'[J("commenturl", y)] = inflight[J("commenturl", y)]
                        /\ inflight[J("scanurl", y)] \in Nat /\ inflight[J("submiturl", y)] \in Nat
                        /\ inflight[J("addurl", y)] \in Nat /\ inflight[J("commenturl", y)] \in Nat
    BY <1>3, JobFacts, VtOutputAssumption DEF FileJobs, UrlJobs
  <1>6. /\ inflight'[J("collection", None)] = inflight[J("collection", None)]
        /\ inflight'[J("scanfile", None)] = inflight[J("scanfile", None)]
    BY <1>3, JobFacts, VtOutputAssumption
  <1>7. inflight[i] > 0
    BY <1>1
  <1>8. /\ posts' = Bumped(posts, IF f \notin has /\ conf.upload THEN {f} ELSE {})
        /\ UNCHANGED <<conf, answered, downs, clock, first, urlCache, collection, has, began, added, count, failed>>
    BY DEF ScanFile
  <1> HIDE DEF i, S
  <1>9. VtTypes'
    BY <1>1, <1>3, <1>8 DEF VtTypes, Bumped
  <1>10. CollectInv'
    BY <1>1, <1>6, <1>8 DEF VtIInv, VtTypes, CollectInv, CollectionIsOurs
  <1>11. ASSUME NEW y \in Files PROVE FileInv(y)'
    <2>1. FileInv(y)
      BY DEF VtIInv
    <2> QED
      BY <1>1, <1>4, <1>7, <1>8, <2>1, VtOutputAssumption DEF VtTypes, FileInv, FailedFor, Bumped, i
  <1>12. ASSUME NEW y \in Urls PROVE UrlInv(y)'
    <2>1. UrlInv(y)
      BY DEF VtIInv
    <2> QED
      BY <1>1, <1>5, <1>7, <1>8, <2>1, VtOutputAssumption DEF VtTypes, UrlInv, i
  <1> QED
    BY <1>9, <1>10, <1>11, <1>12 DEF VtIInv

\* A URL is looked up, and submitted when VirusTotal has it not.
LEMMA StepScanUrl ==
    ASSUME VtIInv, NEW u \in Urls, ScanUrl(u)
    PROVE  VtIInv'
  <1> DEFINE i == J("scanurl", u)
             S == IF u \notin has THEN {J("submiturl", u)} ELSE {}
  <1>1. VtTypes /\ i \in Jobs /\ inflight[i] > 0
    BY JobFacts DEF VtIInv, FileJobs, UrlJobs, Takes, ScanUrl
  <1>2. inflight' = Plus(Minus(inflight, i), S)
    BY DEF ScanUrl
  <1>3. /\ inflight \in [Jobs -> Nat] /\ inflight' \in [Jobs -> Nat]
        /\ \A j \in Jobs : inflight'[j] =
              (IF j = i THEN inflight[j] - 1 ELSE inflight[j]) + (IF j \in S THEN 1 ELSE 0)
    BY <1>1, <1>2, Flights DEF VtTypes
  <1>4. \A y \in Files : /\ inflight'[J("scanfile", y)] = inflight[J("scanfile", y)]
                         /\ inflight'[J("postfile", y)] = inflight[J("postfile", y)]
                         /\ inflight'[J("addfile", y)] = inflight[J("addfile", y)]
                         /\ inflight'[J("commentfile", y)] = inflight[J("commentfile", y)]
                         /\ inflight[J("scanfile", y)] \in Nat /\ inflight[J("postfile", y)] \in Nat
                         /\ inflight[J("addfile", y)] \in Nat /\ inflight[J("commentfile", y)] \in Nat
    BY <1>3, JobFacts, VtOutputAssumption DEF FileJobs, UrlJobs
  <1>5. \A y \in Urls : /\ inflight'[J("scanurl", y)] = inflight[J("scanurl", y)] - (IF y = u THEN 1 ELSE 0)
                        /\ inflight'[J("submiturl", y)] = inflight[J("submiturl", y)] + (IF y = u /\ u \notin has THEN 1 ELSE 0)
                        /\ inflight'[J("addurl", y)] = inflight[J("addurl", y)]
                        /\ inflight'[J("commenturl", y)] = inflight[J("commenturl", y)]
                        /\ inflight[J("scanurl", y)] \in Nat /\ inflight[J("submiturl", y)] \in Nat
                        /\ inflight[J("addurl", y)] \in Nat /\ inflight[J("commenturl", y)] \in Nat
    BY <1>3, JobFacts, VtOutputAssumption DEF FileJobs, UrlJobs
  <1>6. /\ inflight'[J("collection", None)] = inflight[J("collection", None)]
        /\ inflight'[J("scanfile", None)] = inflight[J("scanfile", None)]
    BY <1>3, JobFacts, VtOutputAssumption
  <1>7. inflight[i] > 0
    BY <1>1
  <1>8. /\ answered' = answered \cup {u} /\ urlCache' = urlCache \cup {u}
        /\ UNCHANGED <<conf, downs, clock, first, collection, has, began, added, count, posts, failed>>
    BY DEF ScanUrl
  <1> HIDE DEF i, S
  <1>9. VtTypes'
    BY <1>1, <1>3, <1>8 DEF VtTypes, Bumped
  <1>10. CollectInv'
    BY <1>1, <1>6, <1>8 DEF VtIInv, VtTypes, CollectInv, CollectionIsOurs
  <1>11. ASSUME NEW y \in Files PROVE FileInv(y)'
    <2>1. FileInv(y)
      BY DEF VtIInv
    <2> QED
      BY <1>1, <1>4, <1>7, <1>8, <2>1, VtOutputAssumption DEF VtTypes, FileInv, FailedFor, Bumped, i
  <1>12. ASSUME NEW y \in Urls PROVE UrlInv(y)'
    <2>1. UrlInv(y)
      BY DEF VtIInv
    <2> QED
      BY <1>1, <1>5, <1>7, <1>8, <2>1, VtOutputAssumption DEF VtTypes, UrlInv, i
  <1> QED
    BY <1>9, <1>10, <1>11, <1>12 DEF VtIInv

\* VirusTotal took a file.
LEMMA StepPostFile ==
    ASSUME VtIInv, NEW x \in Files, PostFile(x)
    PROVE  VtIInv'
  <1> DEFINE i == J("postfile", x)
             S == (IF conf.collect /\ collection THEN {J("addfile", x)} ELSE {})
                  \cup (IF conf.comment THEN {J("commentfile", x)} ELSE {})
  <1>1. VtTypes /\ i \in Jobs /\ inflight[i] > 0
    BY JobFacts DEF VtIInv, FileJobs, UrlJobs, Takes, PostFile, Taken
  <1>2. inflight' = Plus(Minus(inflight, i), S)
    BY DEF PostFile, Taken
  <1>3. /\ inflight \in [Jobs -> Nat] /\ inflight' \in [Jobs -> Nat]
        /\ \A j \in Jobs : inflight'[j] =
              (IF j = i THEN inflight[j] - 1 ELSE inflight[j]) + (IF j \in S THEN 1 ELSE 0)
    BY <1>1, <1>2, Flights DEF VtTypes
  <1>4. \A y \in Files : /\ inflight'[J("scanfile", y)] = inflight[J("scanfile", y)]
                         /\ inflight'[J("postfile", y)] = inflight[J("postfile", y)] - (IF y = x THEN 1 ELSE 0)
                         /\ inflight'[J("addfile", y)] = inflight[J("addfile", y)] + (IF y = x /\ conf.collect /\ collection THEN 1 ELSE 0)
                         /\ inflight'[J("commentfile", y)] = inflight[J("commentfile", y)] + (IF y = x /\ conf.comment THEN 1 ELSE 0)
                         /\ inflight[J("scanfile", y)] \in Nat /\ inflight[J("postfile", y)] \in Nat
                         /\ inflight[J("addfile", y)] \in Nat /\ inflight[J("commentfile", y)] \in Nat
    BY <1>3, JobFacts, VtOutputAssumption DEF FileJobs, UrlJobs
  <1>5. \A y \in Urls : /\ inflight'[J("scanurl", y)] = inflight[J("scanurl", y)]
                        /\ inflight'[J("submiturl", y)] = inflight[J("submiturl", y)]
                        /\ inflight'[J("addurl", y)] = inflight[J("addurl", y)]
                        /\ inflight'[J("commenturl", y)] = inflight[J("commenturl", y)]
                        /\ inflight[J("scanurl", y)] \in Nat /\ inflight[J("submiturl", y)] \in Nat
                        /\ inflight[J("addurl", y)] \in Nat /\ inflight[J("commenturl", y)] \in Nat
    BY <1>3, JobFacts, VtOutputAssumption DEF FileJobs, UrlJobs
  <1>6. /\ inflight'[J("collection", None)] = inflight[J("collection", None)]
        /\ inflight'[J("scanfile", None)] = inflight[J("scanfile", None)]
    BY <1>3, JobFacts, VtOutputAssumption
  <1>7. inflight[i] > 0
    BY <1>1
  <1>8. /\ has' = has \cup {x}
        /\ UNCHANGED <<conf, answered, downs, clock, first, urlCache, collection, began, added, count, posts, failed>>
    BY DEF PostFile, Taken
  <1> HIDE DEF i, S
  <1>9. VtTypes'
    BY <1>1, <1>3, <1>8 DEF VtTypes, Bumped
  <1>10. CollectInv'
    BY <1>1, <1>6, <1>8 DEF VtIInv, VtTypes, CollectInv, CollectionIsOurs
  <1>11. ASSUME NEW y \in Files PROVE FileInv(y)'
    <2>1. FileInv(y)
      BY DEF VtIInv
    <2> QED
      BY <1>1, <1>4, <1>7, <1>8, <2>1, VtOutputAssumption DEF VtTypes, FileInv, FailedFor, Bumped, i
  <1>12. ASSUME NEW y \in Urls PROVE UrlInv(y)'
    <2>1. UrlInv(y)
      BY DEF VtIInv
    <2> QED
      BY <1>1, <1>5, <1>7, <1>8, <2>1, VtOutputAssumption DEF VtTypes, UrlInv, i
  <1> QED
    BY <1>9, <1>10, <1>11, <1>12 DEF VtIInv

\* VirusTotal took a URL.
LEMMA StepSubmitUrl ==
    ASSUME VtIInv, NEW x \in Urls, SubmitUrl(x)
    PROVE  VtIInv'
  <1> DEFINE i == J("submiturl", x)
             S == (IF conf.collect /\ collection THEN {J("addurl", x)} ELSE {})
                  \cup (IF conf.comment THEN {J("commenturl", x)} ELSE {})
  <1>1. VtTypes /\ i \in Jobs /\ inflight[i] > 0
    BY JobFacts DEF VtIInv, FileJobs, UrlJobs, Takes, SubmitUrl, Taken
  <1>2. inflight' = Plus(Minus(inflight, i), S)
    BY DEF SubmitUrl, Taken
  <1>3. /\ inflight \in [Jobs -> Nat] /\ inflight' \in [Jobs -> Nat]
        /\ \A j \in Jobs : inflight'[j] =
              (IF j = i THEN inflight[j] - 1 ELSE inflight[j]) + (IF j \in S THEN 1 ELSE 0)
    BY <1>1, <1>2, Flights DEF VtTypes
  <1>4. \A y \in Files : /\ inflight'[J("scanfile", y)] = inflight[J("scanfile", y)]
                         /\ inflight'[J("postfile", y)] = inflight[J("postfile", y)]
                         /\ inflight'[J("addfile", y)] = inflight[J("addfile", y)]
                         /\ inflight'[J("commentfile", y)] = inflight[J("commentfile", y)]
                         /\ inflight[J("scanfile", y)] \in Nat /\ inflight[J("postfile", y)] \in Nat
                         /\ inflight[J("addfile", y)] \in Nat /\ inflight[J("commentfile", y)] \in Nat
    BY <1>3, JobFacts, VtOutputAssumption DEF FileJobs, UrlJobs
  <1>5. \A y \in Urls : /\ inflight'[J("scanurl", y)] = inflight[J("scanurl", y)]
                        /\ inflight'[J("submiturl", y)] = inflight[J("submiturl", y)] - (IF y = x THEN 1 ELSE 0)
                        /\ inflight'[J("addurl", y)] = inflight[J("addurl", y)] + (IF y = x /\ conf.collect /\ collection THEN 1 ELSE 0)
                        /\ inflight'[J("commenturl", y)] = inflight[J("commenturl", y)] + (IF y = x /\ conf.comment THEN 1 ELSE 0)
                        /\ inflight[J("scanurl", y)] \in Nat /\ inflight[J("submiturl", y)] \in Nat
                        /\ inflight[J("addurl", y)] \in Nat /\ inflight[J("commenturl", y)] \in Nat
    BY <1>3, JobFacts, VtOutputAssumption DEF FileJobs, UrlJobs
  <1>6. /\ inflight'[J("collection", None)] = inflight[J("collection", None)]
        /\ inflight'[J("scanfile", None)] = inflight[J("scanfile", None)]
    BY <1>3, JobFacts, VtOutputAssumption
  <1>7. inflight[i] > 0
    BY <1>1
  <1>8. /\ has' = has \cup {x}
        /\ UNCHANGED <<conf, answered, downs, clock, first, urlCache, collection, began, added, count, posts, failed>>
    BY DEF SubmitUrl, Taken
  <1> HIDE DEF i, S
  <1>9. VtTypes'
    BY <1>1, <1>3, <1>8 DEF VtTypes, Bumped
  <1>10. CollectInv'
    BY <1>1, <1>6, <1>8 DEF VtIInv, VtTypes, CollectInv, CollectionIsOurs
  <1>11. ASSUME NEW y \in Files PROVE FileInv(y)'
    <2>1. FileInv(y)
      BY DEF VtIInv
    <2> QED
      BY <1>1, <1>4, <1>7, <1>8, <2>1, VtOutputAssumption DEF VtTypes, FileInv, FailedFor, Bumped, i
  <1>12. ASSUME NEW y \in Urls PROVE UrlInv(y)'
    <2>1. UrlInv(y)
      BY DEF VtIInv
    <2> QED
      BY <1>1, <1>5, <1>7, <1>8, <2>1, VtOutputAssumption DEF VtTypes, UrlInv, i
  <1> QED
    BY <1>9, <1>10, <1>11, <1>12 DEF VtIInv

\* The collection is there, with or without its id.
LEMMA StepInitCollection ==
    ASSUME VtIInv, NEW created \in BOOLEAN, InitCollection(created)
    PROVE  VtIInv'
  <1> DEFINE i == J("collection", None)
  <1>1. VtTypes /\ i \in Jobs /\ inflight[i] > 0 /\ inflight' = Minus(inflight, i)
    BY JobFacts DEF VtIInv, FileJobs, UrlJobs, Takes, InitCollection
  <1>2. /\ inflight \in [Jobs -> Nat] /\ inflight' \in [Jobs -> Nat]
        /\ \A j \in Jobs : inflight'[j] = IF j = i THEN inflight[j] - 1 ELSE inflight[j]
    <2>1. inflight \in [Jobs -> Nat]
      BY <1>1 DEF VtTypes
    <2> HIDE DEF i
    <2> QED
      BY <1>1, <2>1, Flights
  <1>3. VtTypes'
    BY <1>1, <1>2 DEF VtTypes, InitCollection
  <1>4. CollectInv'
    BY <1>1, <1>2, JobFacts DEF VtIInv, VtTypes, CollectInv, CollectionIsOurs, FileInv, UrlInv, InitCollection
  <1>5. ASSUME NEW x \in Files PROVE FileInv(x)'
    <2>1. FileInv(x) /\ \A a \in FileJobs : inflight[J(a, x)] \in Nat /\ inflight'[J(a, x)] =
                          (IF J(a, x) = i THEN inflight[J(a, x)] - 1 ELSE inflight[J(a, x)])
      BY <1>2, JobFacts DEF VtIInv
    <2> QED
      BY <1>1, <1>2, <2>1, JobFacts, VtOutputAssumption DEF VtIInv, VtTypes, CollectInv, FileInv, FileJobs, FailedFor, InitCollection
  <1>6. ASSUME NEW x \in Urls PROVE UrlInv(x)'
    BY <1>1, <1>2, JobFacts, VtOutputAssumption DEF VtIInv, VtTypes, CollectInv, UrlInv, UrlJobs, InitCollection
  <1> QED
    BY <1>3, <1>4, <1>5, <1>6 DEF VtIInv

\* A file is in the collection.
LEMMA StepAddFile ==
    ASSUME VtIInv, NEW f \in Files, AddToCollection(f, "addfile")
    PROVE  VtIInv'
  <1> DEFINE i == J("addfile", f)
  <1>1. VtTypes /\ i \in Jobs /\ inflight[i] > 0 /\ inflight' = Minus(inflight, i)
    BY JobFacts DEF VtIInv, FileJobs, UrlJobs, Takes, AddToCollection
  <1>2. /\ inflight \in [Jobs -> Nat] /\ inflight' \in [Jobs -> Nat]
        /\ \A j \in Jobs : inflight'[j] = IF j = i THEN inflight[j] - 1 ELSE inflight[j]
    <2>1. inflight \in [Jobs -> Nat]
      BY <1>1 DEF VtTypes
    <2> HIDE DEF i
    <2> QED
      BY <1>1, <2>1, Flights
  <1>3. VtTypes'
    <2>1. FileInv(f)
      BY DEF VtIInv
    <2> QED
      BY <1>1, <1>2, <2>1 DEF VtTypes, FileInv, UrlInv, AddToCollection
  <1>4. CollectInv'
    BY <1>1, <1>2, JobFacts DEF VtIInv, VtTypes, CollectInv, CollectionIsOurs, FileInv, UrlInv, AddToCollection
  <1>5. ASSUME NEW x \in Files PROVE FileInv(x)'
    <2>1. FileInv(x) /\ \A a \in FileJobs : inflight[J(a, x)] \in Nat /\ inflight'[J(a, x)] =
                          (IF J(a, x) = i THEN inflight[J(a, x)] - 1 ELSE inflight[J(a, x)])
      BY <1>2, JobFacts DEF VtIInv
    <2> QED
      BY <1>1, <1>2, <2>1, JobFacts, VtOutputAssumption DEF VtIInv, VtTypes, CollectInv, FileInv, FileJobs, FailedFor, AddToCollection
  <1>6. ASSUME NEW x \in Urls PROVE UrlInv(x)'
    BY <1>1, <1>2, JobFacts, VtOutputAssumption DEF VtIInv, VtTypes, CollectInv, UrlInv, UrlJobs, AddToCollection
  <1> QED
    BY <1>3, <1>4, <1>5, <1>6 DEF VtIInv

\* A URL is in the collection.
LEMMA StepAddUrl ==
    ASSUME VtIInv, NEW u \in Urls, AddToCollection(u, "addurl")
    PROVE  VtIInv'
  <1> DEFINE i == J("addurl", u)
  <1>1. VtTypes /\ i \in Jobs /\ inflight[i] > 0 /\ inflight' = Minus(inflight, i)
    BY JobFacts DEF VtIInv, FileJobs, UrlJobs, Takes, AddToCollection
  <1>2. /\ inflight \in [Jobs -> Nat] /\ inflight' \in [Jobs -> Nat]
        /\ \A j \in Jobs : inflight'[j] = IF j = i THEN inflight[j] - 1 ELSE inflight[j]
    <2>1. inflight \in [Jobs -> Nat]
      BY <1>1 DEF VtTypes
    <2> HIDE DEF i
    <2> QED
      BY <1>1, <2>1, Flights
  <1>3. VtTypes'
    <2>1. UrlInv(u)
      BY DEF VtIInv
    <2> QED
      BY <1>1, <1>2, <2>1 DEF VtTypes, FileInv, UrlInv, AddToCollection
  <1>4. CollectInv'
    BY <1>1, <1>2, JobFacts DEF VtIInv, VtTypes, CollectInv, CollectionIsOurs, FileInv, UrlInv, AddToCollection
  <1>5. ASSUME NEW x \in Files PROVE FileInv(x)'
    <2>1. FileInv(x) /\ \A a \in FileJobs : inflight[J(a, x)] \in Nat /\ inflight'[J(a, x)] =
                          (IF J(a, x) = i THEN inflight[J(a, x)] - 1 ELSE inflight[J(a, x)])
      BY <1>2, JobFacts DEF VtIInv
    <2> QED
      BY <1>1, <1>2, <2>1, JobFacts, VtOutputAssumption DEF VtIInv, VtTypes, CollectInv, FileInv, FileJobs, FailedFor, AddToCollection
  <1>6. ASSUME NEW x \in Urls PROVE UrlInv(x)'
    BY <1>1, <1>2, JobFacts, VtOutputAssumption DEF VtIInv, VtTypes, CollectInv, UrlInv, UrlJobs, AddToCollection
  <1> QED
    BY <1>3, <1>4, <1>5, <1>6 DEF VtIInv

\* A comment to a file.
LEMMA StepCommentFile ==
    ASSUME VtIInv, NEW f \in Files, PostComment(f, "commentfile")
    PROVE  VtIInv'
  <1> DEFINE i == J("commentfile", f)
  <1>1. VtTypes /\ i \in Jobs /\ inflight[i] > 0 /\ inflight' = Minus(inflight, i)
    BY JobFacts DEF VtIInv, FileJobs, UrlJobs, Takes, PostComment
  <1>2. /\ inflight \in [Jobs -> Nat] /\ inflight' \in [Jobs -> Nat]
        /\ \A j \in Jobs : inflight'[j] = IF j = i THEN inflight[j] - 1 ELSE inflight[j]
    <2>1. inflight \in [Jobs -> Nat]
      BY <1>1 DEF VtTypes
    <2> HIDE DEF i
    <2> QED
      BY <1>1, <2>1, Flights
  <1>3. VtTypes'
    BY <1>1, <1>2 DEF VtTypes, PostComment
  <1>4. CollectInv'
    BY <1>1, <1>2, JobFacts DEF VtIInv, VtTypes, CollectInv, CollectionIsOurs, PostComment
  <1>5. ASSUME NEW x \in Files PROVE FileInv(x)'
    <2>1. FileInv(x) /\ \A a \in FileJobs : inflight[J(a, x)] \in Nat /\ inflight'[J(a, x)] =
                          (IF J(a, x) = i THEN inflight[J(a, x)] - 1 ELSE inflight[J(a, x)])
      BY <1>2, JobFacts DEF VtIInv
    <2> QED
      BY <1>1, <1>2, <2>1, JobFacts, VtOutputAssumption DEF VtIInv, VtTypes, CollectInv, FileInv, FileJobs, FailedFor, PostComment
  <1>6. ASSUME NEW x \in Urls PROVE UrlInv(x)'
    BY <1>1, <1>2, JobFacts, VtOutputAssumption DEF VtIInv, VtTypes, CollectInv, UrlInv, UrlJobs, PostComment
  <1> QED
    BY <1>3, <1>4, <1>5, <1>6 DEF VtIInv

\* A comment to a URL.
LEMMA StepCommentUrl ==
    ASSUME VtIInv, NEW u \in Urls, PostComment(u, "commenturl")
    PROVE  VtIInv'
  <1> DEFINE i == J("commenturl", u)
  <1>1. VtTypes /\ i \in Jobs /\ inflight[i] > 0 /\ inflight' = Minus(inflight, i)
    BY JobFacts DEF VtIInv, FileJobs, UrlJobs, Takes, PostComment
  <1>2. /\ inflight \in [Jobs -> Nat] /\ inflight' \in [Jobs -> Nat]
        /\ \A j \in Jobs : inflight'[j] = IF j = i THEN inflight[j] - 1 ELSE inflight[j]
    <2>1. inflight \in [Jobs -> Nat]
      BY <1>1 DEF VtTypes
    <2> HIDE DEF i
    <2> QED
      BY <1>1, <2>1, Flights
  <1>3. VtTypes'
    BY <1>1, <1>2 DEF VtTypes, PostComment
  <1>4. CollectInv'
    BY <1>1, <1>2, JobFacts DEF VtIInv, VtTypes, CollectInv, CollectionIsOurs, PostComment
  <1>5. ASSUME NEW x \in Files PROVE FileInv(x)'
    <2>1. FileInv(x) /\ \A a \in FileJobs : inflight[J(a, x)] \in Nat /\ inflight'[J(a, x)] =
                          (IF J(a, x) = i THEN inflight[J(a, x)] - 1 ELSE inflight[J(a, x)])
      BY <1>2, JobFacts DEF VtIInv
    <2> QED
      BY <1>1, <1>2, <2>1, JobFacts, VtOutputAssumption DEF VtIInv, VtTypes, CollectInv, FileInv, FileJobs, FailedFor, PostComment
  <1>6. ASSUME NEW x \in Urls PROVE UrlInv(x)'
    BY <1>1, <1>2, JobFacts, VtOutputAssumption DEF VtIInv, VtTypes, CollectInv, UrlInv, UrlJobs, PostComment
  <1> QED
    BY <1>3, <1>4, <1>5, <1>6 DEF VtIInv

\* A request fails.
LEMMA StepFails ==
    ASSUME VtIInv, NEW r \in Jobs, RequestFails(r)
    PROVE  VtIInv'
  <1> DEFINE i == r
  <1>1. VtTypes /\ i \in Jobs /\ inflight[i] > 0 /\ inflight' = Minus(inflight, i)
    BY JobFacts DEF VtIInv, FileJobs, UrlJobs, Takes, RequestFails
  <1>2. /\ inflight \in [Jobs -> Nat] /\ inflight' \in [Jobs -> Nat]
        /\ \A j \in Jobs : inflight'[j] = IF j = i THEN inflight[j] - 1 ELSE inflight[j]
    <2>1. inflight \in [Jobs -> Nat]
      BY <1>1 DEF VtTypes
    <2> HIDE DEF i
    <2> QED
      BY <1>1, <2>1, Flights
  <1>3. VtTypes'
    BY <1>1, <1>2 DEF VtTypes, RequestFails
  <1>4. CollectInv'
    BY <1>1, <1>2, JobFacts DEF VtIInv, VtTypes, CollectInv, CollectionIsOurs, FileInv, UrlInv, RequestFails
  <1>5. ASSUME NEW x \in Files PROVE FileInv(x)'
    <2>1. FileInv(x) /\ \A a \in FileJobs : inflight[J(a, x)] \in Nat /\ inflight'[J(a, x)] =
                          (IF J(a, x) = i THEN inflight[J(a, x)] - 1 ELSE inflight[J(a, x)])
      BY <1>2, JobFacts DEF VtIInv
    <2>2. \A a : J(a, x) = i => i.of = x
      BY JobFacts
    <2>3. FailedFor(x)' <=> FailedFor(x) \/ i.of = x
      BY DEF FailedFor, RequestFails
    <2>4. UNCHANGED <<conf, downs, has, began, collection, count, posts>>
      BY DEF RequestFails
    <2> HIDE DEF i
    <2> QED
      BY <1>1, <2>1, <2>2, <2>3, <2>4 DEF VtTypes, FileInv, FileJobs
  <1>6. ASSUME NEW x \in Urls PROVE UrlInv(x)'
    BY <1>1, <1>2, JobFacts, VtOutputAssumption DEF VtIInv, VtTypes, CollectInv, UrlInv, UrlJobs, RequestFails
  <1> QED
    BY <1>3, <1>4, <1>5, <1>6 DEF VtIInv

\* A download pays for what it asks: the URL unless it is in the cache, and the
\* file while it is new, which is as long as the download counts.
LEMMA StepDownload ==
    ASSUME VtIInv, NEW f \in Files, NEW u \in Urls \cup {None}, Download(f, u)
    PROVE  VtIInv'
  <1> DEFINE url == conf.scanurl /\ u # None /\ u \notin urlCache
             new == first'[f] + Fresh >= clock
             scan == new /\ conf.scanfile
             S == (IF url THEN {J("scanurl", u)} ELSE {}) \cup (IF scan THEN {J("scanfile", f)} ELSE {})
  <1>1. /\ VtTypes /\ downs < MaxDownloads /\ downs' = downs + 1 /\ downs \in Nat /\ MaxDownloads \in Nat
        /\ Fresh \in Nat
        /\ UNCHANGED <<conf, answered, clock, urlCache, collection, has, began, added, failed>>
    BY VtOutputAssumption DEF VtIInv, VtTypes, Download
  <1>2. first' \in [Files -> Nat] /\ first'[f] \in Nat /\ clock \in Nat
    BY <1>1 DEF VtTypes, Download
  <1>3. IsNewShasum(f) <=> new
    BY <1>1, <1>2 DEF IsNewShasum
  <1>4. /\ inflight' = Plus(inflight, S)
        /\ count' = IF new THEN Bumped(count, {f}) ELSE count
    BY <1>1, <1>2, <1>3 DEF Download, Lookups
  <1>5. \A y \in Urls \cup Files : posts'[y] = IF url /\ y = u THEN posts[y] + 1 ELSE posts[y]
    <2>1. posts' = Bumped(posts, {j.of : j \in S} \cap Urls)
      BY <1>3 DEF Download, Lookups
    <2>2. \A y \in Urls : y \in {j.of : j \in S} <=> url /\ y = u
      BY JobFacts, VtOutputAssumption
    <2>3. \A y \in Files \cup Urls : y \in {j.of : j \in S} \cap Urls <=> url /\ y = u
      BY <2>2, VtOutputAssumption
    <2> HIDE DEF S, url
    <2> QED
      BY <1>1, <2>1, <2>3 DEF Bumped, VtTypes
  <1>6. /\ inflight \in [Jobs -> Nat] /\ inflight' \in [Jobs -> Nat]
        /\ \A j \in Jobs : inflight'[j] = inflight[j] + (IF j \in S THEN 1 ELSE 0)
    <2> HIDE DEF S
    <2> QED
      BY <1>1, <1>4 DEF Plus, VtTypes
  <1>7. \A y \in Files : /\ inflight'[J("scanfile", y)] = inflight[J("scanfile", y)] + (IF y = f /\ scan THEN 1 ELSE 0)
                         /\ \A a \in {"postfile", "addfile", "commentfile"} : inflight'[J(a, y)] = inflight[J(a, y)]
                         /\ \A a \in FileJobs : inflight[J(a, y)] \in Nat
    BY <1>6, JobFacts, VtOutputAssumption DEF FileJobs, UrlJobs
  <1>8. \A y \in Urls : /\ inflight'[J("scanurl", y)] = inflight[J("scanurl", y)] + (IF url /\ y = u THEN 1 ELSE 0)
                        /\ \A a \in {"submiturl", "addurl", "commenturl"} : inflight'[J(a, y)] = inflight[J(a, y)]
                        /\ \A a \in UrlJobs : inflight[J(a, y)] \in Nat
    BY <1>6, JobFacts, VtOutputAssumption DEF FileJobs, UrlJobs
  <1>9. /\ inflight'[J("collection", None)] = inflight[J("collection", None)]
        /\ inflight'[J("scanfile", None)] = inflight[J("scanfile", None)]
        /\ inflight[J("scanfile", None)] \in Nat
    BY <1>6, JobFacts, VtOutputAssumption
  <1>10. \A y \in Files : count'[y] = IF y = f /\ new THEN count[y] + 1 ELSE count[y]
    BY <1>1, <1>4 DEF VtTypes, Bumped
  <1> HIDE DEF S, new, url
  <1>11. VtTypes'
    <2>1. count' \in [Files -> Nat]
      BY <1>1, <1>4 DEF VtTypes, Bumped
    <2>2. posts' \in [Files \cup Urls -> Nat]
      BY <1>1 DEF VtTypes, Bumped, Download
    <2> QED
      BY <1>1, <1>2, <1>6, <2>1, <2>2 DEF VtTypes
  <1>12. CollectInv'
    BY <1>1, <1>9 DEF VtIInv, CollectInv, CollectionIsOurs
  <1>13. ASSUME NEW y \in Files PROVE FileInv(y)'
    <2>1. FileInv(y) /\ posts'[y] = posts[y] /\ posts[y] \in Nat /\ count[y] \in Nat
      BY <1>1, <1>5, VtOutputAssumption DEF VtIInv, VtTypes
    <2> QED
      BY <1>1, <1>7, <1>10, <2>1 DEF FileInv, FailedFor, FileJobs
  <1>14. ASSUME NEW y \in Urls PROVE UrlInv(y)'
    <2>1. UrlInv(y)
      BY DEF VtIInv
    <2> QED
      BY <1>1, <1>8, <2>1 DEF UrlInv, UrlJobs
  <1> QED
    BY <1>11, <1>12, <1>13, <1>14 DEF VtIInv

\* A download without a hash pays for its URL and for the file without a name.
LEMMA StepNameless ==
    ASSUME VtIInv, NEW u \in Urls, NEW changed \in BOOLEAN, Nameless(u, changed)
    PROVE  VtIInv'
  <1> DEFINE url == conf.scanurl /\ u \notin urlCache
             scan == changed /\ conf.scanfile
             S == (IF url THEN {J("scanurl", u)} ELSE {}) \cup (IF scan THEN {J("scanfile", None)} ELSE {})
  <1>1. /\ VtTypes /\ downs < MaxDownloads /\ downs' = downs + 1 /\ downs \in Nat /\ MaxDownloads \in Nat
        /\ UNCHANGED <<conf, answered, clock, first, urlCache, collection, has, began, added, count, failed>>
    BY VtOutputAssumption DEF VtIInv, VtTypes, Nameless
  <1>2. u # None
    BY VtOutputAssumption
  <1>3. inflight' = Plus(inflight, S) /\ posts' = Bumped(posts, {j.of : j \in S} \cap Urls)
    BY <1>2 DEF Nameless, Lookups
  <1>4. \A y \in Files \cup Urls : y \in {j.of : j \in S} \cap Urls <=> url /\ y = u
    BY JobFacts, VtOutputAssumption
  <1>5. /\ inflight \in [Jobs -> Nat] /\ inflight' \in [Jobs -> Nat]
        /\ \A j \in Jobs : inflight'[j] = inflight[j] + (IF j \in S THEN 1 ELSE 0)
    <2> HIDE DEF S
    <2> QED
      BY <1>1, <1>3 DEF Plus, VtTypes
  <1>6. \A y \in Files : \A a \in FileJobs : /\ inflight'[J(a, y)] = inflight[J(a, y)]
                                             /\ inflight[J(a, y)] \in Nat
    BY <1>5, JobFacts, VtOutputAssumption DEF FileJobs, UrlJobs
  <1>7. \A y \in Urls : /\ inflight'[J("scanurl", y)] = inflight[J("scanurl", y)] + (IF url /\ y = u THEN 1 ELSE 0)
                        /\ \A a \in {"submiturl", "addurl", "commenturl"} : inflight'[J(a, y)] = inflight[J(a, y)]
                        /\ \A a \in UrlJobs : inflight[J(a, y)] \in Nat
    BY <1>5, JobFacts, VtOutputAssumption DEF FileJobs, UrlJobs
  <1>8. /\ inflight'[J("collection", None)] = inflight[J("collection", None)]
        /\ inflight'[J("scanfile", None)] \in {inflight[J("scanfile", None)], inflight[J("scanfile", None)] + 1}
        /\ inflight[J("scanfile", None)] \in Nat
    BY <1>5, JobFacts, VtOutputAssumption
  <1>9. \A y \in Files \cup Urls : posts'[y] = IF url /\ y = u THEN posts[y] + 1 ELSE posts[y]
    <2> HIDE DEF S, url
    <2> QED
      BY <1>1, <1>3, <1>4 DEF Bumped, VtTypes
  <1> HIDE DEF S, scan, url
  <1>10. VtTypes'
    <2>1. posts' \in [Files \cup Urls -> Nat]
      BY <1>1, <1>3 DEF VtTypes, Bumped
    <2> QED
      BY <1>1, <1>5, <2>1 DEF VtTypes
  <1>11. CollectInv'
    BY <1>1, <1>8 DEF VtIInv, CollectInv, CollectionIsOurs
  <1>12. ASSUME NEW y \in Files PROVE FileInv(y)'
    <2>1. FileInv(y) /\ posts'[y] = posts[y]
      BY <1>9, VtOutputAssumption DEF VtIInv
    <2> QED
      BY <1>1, <1>6, <2>1 DEF FileInv, FailedFor, FileJobs
  <1>13. ASSUME NEW y \in Urls PROVE UrlInv(y)'
    <2>1. UrlInv(y)
      BY DEF VtIInv
    <2> QED
      BY <1>1, <1>7, <2>1 DEF UrlInv, UrlJobs
  <1> QED
    BY <1>10, <1>11, <1>12, <1>13 DEF VtIInv

\* VirusTotal answers for the file without a name.
LEMMA StepScanNameless ==
    ASSUME VtIInv, ScanNameless
    PROVE  VtIInv'
  <1> DEFINE i == J("scanfile", None)
  <1>1. VtTypes /\ i \in Jobs /\ inflight[i] > 0 /\ inflight' = Minus(inflight, i)
    BY JobFacts DEF VtIInv, ScanNameless
  <1>2. /\ inflight \in [Jobs -> Nat] /\ inflight' \in [Jobs -> Nat]
        /\ \A j \in Jobs : inflight'[j] = IF j = i THEN inflight[j] - 1 ELSE inflight[j]
    <2>1. inflight \in [Jobs -> Nat]
      BY <1>1 DEF VtTypes
    <2> HIDE DEF i
    <2> QED
      BY <1>1, <2>1, Flights
  <1>3. VtTypes'
    BY <1>1, <1>2 DEF VtTypes, ScanNameless
  <1>4. CollectInv'
    BY <1>1, <1>2, JobFacts DEF VtIInv, VtTypes, CollectInv, CollectionIsOurs, ScanNameless
  <1>5. ASSUME NEW x \in Files PROVE FileInv(x)'
    BY <1>1, <1>2, JobFacts, VtOutputAssumption DEF VtIInv, FileInv, FileJobs, FailedFor, ScanNameless
  <1>6. ASSUME NEW x \in Urls PROVE UrlInv(x)'
    BY <1>1, <1>2, JobFacts, VtOutputAssumption DEF VtIInv, UrlInv, UrlJobs, ScanNameless
  <1> QED
    BY <1>3, <1>4, <1>5, <1>6 DEF VtIInv

LEMMA StepVtTick ==
    ASSUME VtIInv, VtTick \/ UNCHANGED vtOutVars
    PROVE  VtIInv'
  <1> USE DEF VtTick, vtOutVars
  <1>1. VtTypes'
    BY DEF VtIInv, VtTypes
  <1>2. CollectInv'
    BY DEF VtIInv, CollectInv, CollectionIsOurs
  <1>3. \A f \in Files : FileInv(f)'
    BY DEF VtIInv, FileInv, FailedFor
  <1>4. \A u \in Urls : UrlInv(u)'
    BY DEF VtIInv, UrlInv
  <1> QED
    BY <1>1, <1>2, <1>3, <1>4 DEF VtIInv

LEMMA StepVt == VtIInv /\ [VtOutNext]_vtOutVars => VtIInv'
  <1> SUFFICES ASSUME VtIInv, [VtOutNext]_vtOutVars
               PROVE  VtIInv'
    OBVIOUS
  <1>1. ASSUME NEW f \in Files, ScanFile(f) \/ PostFile(f) \/ \E u \in Urls \cup {None} : Download(f, u)
        PROVE  VtIInv'
    BY <1>1, StepScanFile, StepPostFile, StepDownload
  <1>2. ASSUME NEW u \in Urls, ScanUrl(u) \/ SubmitUrl(u)
        PROVE  VtIInv'
    BY <1>2, StepScanUrl, StepSubmitUrl
  <1>3. ASSUME NEW created \in BOOLEAN, InitCollection(created)
        PROVE  VtIInv'
    BY <1>3, StepInitCollection
  <1>4. ASSUME NEW f \in Files, AddToCollection(f, "addfile") \/ PostComment(f, "commentfile")
        PROVE  VtIInv'
    BY <1>4, StepAddFile, StepCommentFile
  <1>5. ASSUME NEW u \in Urls, AddToCollection(u, "addurl") \/ PostComment(u, "commenturl")
        PROVE  VtIInv'
    BY <1>5, StepAddUrl, StepCommentUrl
  <1>6. ASSUME NEW r \in Jobs, RequestFails(r)
        PROVE  VtIInv'
    BY <1>6, StepFails
  <1>7. CASE VtTick \/ UNCHANGED vtOutVars
    BY <1>7, StepVtTick
  <1>8. ASSUME NEW u \in Urls, NEW changed \in BOOLEAN, Nameless(u, changed)
        PROVE  VtIInv'
    BY <1>8, StepNameless
  <1>9. CASE ScanNameless
    BY <1>9, StepScanNameless
  <1> QED
    BY <1>1, <1>2, <1>3, <1>4, <1>5, <1>6, <1>7, <1>8, <1>9 DEF VtOutNext

LEMMA InitVt == VtOutInit => VtIInv
  <1> SUFFICES ASSUME VtOutInit
               PROVE  VtIInv
    OBVIOUS
  <1>1. VtTypes
    <2>1. inflight \in [Jobs -> Nat]
      BY DEF VtOutInit
    <2>2. /\ first \in [Files -> Nat] /\ count \in [Files -> Nat] /\ posts \in [Files \cup Urls -> Nat]
          /\ downs \in 0..MaxDownloads
      BY VtOutputAssumption DEF VtOutInit
    <2> QED
      BY <2>1, <2>2 DEF VtOutInit, VtTypes
  <1>2. /\ \A f \in Files : \A a \in FileJobs : inflight[J(a, f)] = 0
        /\ \A u \in Urls : \A a \in UrlJobs : inflight[J(a, u)] = 0
        /\ inflight[J("collection", None)] \in {0, 1} /\ inflight[J("scanfile", None)] = 0
    BY JobFacts DEF VtOutInit, FileJobs, UrlJobs
  <1>3. CollectInv
    BY <1>2 DEF VtOutInit, CollectInv, CollectionIsOurs
  <1>4. \A f \in Files : FileInv(f)
    <2> SUFFICES ASSUME NEW f \in Files
                 PROVE  FileInv(f)
      OBVIOUS
    <2>1. count[f] = 0 /\ posts[f] = 0 /\ downs = 0
      BY DEF VtOutInit
    <2> QED
      BY <1>2, <2>1 DEF FileInv, FileJobs
  <1>5. \A u \in Urls : UrlInv(u)
    BY <1>2, VtOutputAssumption DEF VtOutInit, UrlInv, UrlJobs
  <1> QED
    BY <1>1, <1>3, <1>4, <1>5 DEF VtIInv

LEMMA VtInvHolds == VtIInv => VtOutInv
  <1> SUFFICES ASSUME VtIInv
               PROVE  VtOutInv
    OBVIOUS
  <1>1. VtTypes /\ downs \in Nat /\ MaxDownloads \in Nat /\ downs <= MaxDownloads /\ inflight \in [Jobs -> Nat]
    BY VtOutputAssumption DEF VtIInv, VtTypes
  <1>2. ASSUME NEW j \in Jobs PROVE inflight[j] <= MaxDownloads + 1
    <2>1. ASSUME NEW f \in Files, NEW a \in FileJobs PROVE inflight[J(a, f)] <= MaxDownloads
      BY <1>1, JobFacts DEF VtIInv, FileInv, FileJobs
    <2>2. ASSUME NEW u \in Urls, NEW a \in UrlJobs PROVE inflight[J(a, u)] <= MaxDownloads
      BY <1>1, JobFacts DEF VtIInv, UrlInv, UrlJobs
    <2>3. inflight[J("collection", None)] <= 1 /\ inflight[J("scanfile", None)] <= downs
      BY <1>1, JobFacts DEF VtIInv, CollectInv
    <2> QED
      BY <1>1, <2>1, <2>2, <2>3, JobFacts
  <1>3. VtOutTypeOK
    BY <1>1, <1>2 DEF VtOutTypeOK, VtTypes
  <1>4. UploadsAreBounded
    <2> SUFFICES ASSUME NEW f \in Files
                 PROVE  posts[f] <= IF f \in began THEN 0 ELSE count[f]
      BY DEF UploadsAreBounded
    <2>1. FileInv(f) /\ posts[f] \in Nat /\ count[f] \in Nat /\ inflight[J("scanfile", f)] \in Nat
      BY <1>1, JobFacts DEF VtIInv, VtTypes, FileJobs
    <2> QED
      BY <2>1 DEF FileInv
  <1>5. NewFilesReachVt
    BY <1>1, JobFacts DEF VtIInv, FileInv, NewFilesReachVt, Idle, FileJobs
  <1>6. CollectionIsOurs
    BY DEF VtIInv, CollectInv
  <1> QED
    BY <1>3, <1>4, <1>5, <1>6 DEF VtOutInv

\* What VirusTotal gets: with scan_file and upload on every new file whose event
\* has its hash, none without end, and a collection of what this process sent, for
\* any files, URLs, switches and order of the replies (VtOutInv).
THEOREM VtOutCorrect == VtOutSpec => []VtOutInv
  BY InitVt, StepVt, VtInvHolds, PTL DEF VtOutSpec

\* A URL VirusTotal answered for is in the cache, so no step asks for it again
\* (AnsweredUrlsRest).
THEOREM UrlsRest == VtOutSpec => AnsweredUrlsRest
  <1>1. VtIInv /\ [VtOutNext]_vtOutVars => [\A u \in Urls : u \in answered => posts'[u] = posts[u]]_vtOutVars
    <2> SUFFICES ASSUME VtIInv, VtOutNext, NEW u \in Urls, u \in answered
                 PROVE  posts'[u] = posts[u]
      OBVIOUS
    <2>1. VtTypes /\ posts \in [Files \cup Urls -> Nat] /\ u \in urlCache
      BY DEF VtIInv, VtTypes
    <2>2. CASE UNCHANGED posts
      BY <2>2
    <2>3. ASSUME NEW f \in Files, ScanFile(f)
          PROVE  posts'[u] = posts[u]
      BY <2>1, <2>3, VtOutputAssumption DEF ScanFile, Bumped
    <2>4. ASSUME NEW f \in Files, NEW url \in Urls \cup {None}, Download(f, url)
          PROVE  posts'[u] = posts[u]
      <3> DEFINE jobs == Lookups(url) \cup (IF IsNewShasum(f) /\ conf.scanfile THEN {J("scanfile", f)} ELSE {})
      <3>1. posts' = Bumped(posts, {j.of : j \in jobs} \cap Urls)
        BY <2>4 DEF Download
      <3>2. u \notin {j.of : j \in jobs}
        BY <2>1, JobFacts, VtOutputAssumption DEF Lookups
      <3> HIDE DEF jobs
      <3> QED
        BY <2>1, <3>1, <3>2 DEF Bumped
    <2>5. ASSUME NEW url \in Urls, NEW changed \in BOOLEAN, Nameless(url, changed)
          PROVE  posts'[u] = posts[u]
      <3> DEFINE jobs == Lookups(url) \cup (IF changed /\ conf.scanfile THEN {J("scanfile", None)} ELSE {})
      <3>1. posts' = Bumped(posts, {j.of : j \in jobs} \cap Urls)
        BY <2>5 DEF Nameless
      <3>2. u \notin {j.of : j \in jobs}
        BY <2>1, JobFacts, VtOutputAssumption DEF Lookups
      <3> HIDE DEF jobs
      <3> QED
        BY <2>1, <3>1, <3>2 DEF Bumped
    <2>6. \/ UNCHANGED posts
          \/ \E f \in Files : ScanFile(f) \/ \E url \in Urls \cup {None} : Download(f, url)
          \/ \E url \in Urls, changed \in BOOLEAN : Nameless(url, changed)
      BY DEF VtOutNext, PostFile, SubmitUrl, Taken, ScanUrl, ScanNameless, InitCollection, AddToCollection,
             PostComment, RequestFails, VtTick
    <2> QED
      BY <2>2, <2>3, <2>4, <2>5, <2>6
  <1> QED
    BY <1>1, InitVt, StepVt, PTL DEF VtOutSpec, AnsweredUrlsRest

-----------------------------------------------------------------------------
(***************************************************************************)
(* Sessions and their events; MISP.                                        *)
(***************************************************************************)
Written == Kinds \cup {"connect", "late", "closed"}
Entry == [of : Sessions, kind : Written]
Tracked == [did : Seq(Kinds), created : BOOLEAN]

EmitTypes ==
    /\ life \in [Sessions -> {"new", "open", "closed"}]
    /\ sent \in [Sessions -> Seq(Kinds)] /\ late \in [Sessions -> Nat]
    /\ \A s \in Sessions : Len(sent[s]) + late[s] <= MaxEvents[s]
    /\ seen \in [Sessions -> Seq(Entry)] /\ misp \in [Sessions -> Seq(Seq(Kinds))]
    /\ DOMAIN tracking \subseteq Sessions /\ \A s \in DOMAIN tracking : tracking[s] \in Tracked
    /\ stopped \in BOOLEAN

\* self.sessions leads from a number to a session that has it.
NumbersLeadHome == \A k \in DOMAIN sessions : sessions[k] \in Sessions /\ Key(sessions[k]) = k

\* The session that self.sessions has for its number.
HasIt(s) == Key(s) \in DOMAIN sessions /\ sessions[Key(s)] = s

\* It took the entry from the others of that number, and was beside those that are open.
TwinsInv ==
    \A r, s \in Sessions : r # s /\ Key(r) = Key(s) /\ HasIt(r) /\ life[s] # "new" =>
        <<s, r>> \in took /\ (life[s] = "open" => r \in mixed /\ s \in mixed)

Ones(b) == IF b THEN 1 ELSE 0

\* What a plugin saw of a session.
Bracketed(s) ==
    \A i \in DOMAIN seen[s] :
        /\ seen[s][i].of = s \/ <<seen[s][i].of, s>> \in took
        /\ (seen[s][i].kind = "connect") <=> (i = 1)
        /\ seen[s][i].kind = "closed" => i = Len(seen[s]) \/ s \in faults

\* What is known of one session.  While it has the entry of its number, and no
\* call raised, it is not over; one that was never beside another of its number has
\* the entry while it is open, and MISP gathered what it logged.
SessionInv(s) ==
    /\ life[s] = "new" => /\ seen[s] = <<>> /\ sent[s] = <<>> /\ misp[s] = <<>>
                          /\ s \notin DOMAIN tracking /\ ~HasIt(s)
    /\ life[s] # "new" => s \in DOMAIN tracking /\ seen[s] # <<>>
    /\ life[s] # "new" /\ s \notin mixed => tracking[s].did = sent[s]
    /\ life[s] = "open" /\ s \notin mixed => HasIt(s) /\ ~tracking[s].created
    /\ HasIt(s) /\ s \notin faults => /\ ~tracking[s].created
                                      /\ \A i \in DOMAIN seen[s] : seen[s][i].kind # "closed"
    /\ life[s] # "closed" => late[s] = 0
    /\ Bracketed(s)
    /\ life[s] # "new" /\ s \notin faults => Len(misp[s]) <= Ones(tracking[s].created) + Ones(stopped)
    /\ s \notin mixed => Len(misp[s]) <= Ones(life[s] = "closed") + Ones(stopped)
    /\ s \notin faults \cup mixed /\ life[s] = "closed" /\ (\E i \in DOMAIN sent[s] : sent[s][i] \in Activity) =>
          \E i \in DOMAIN misp[s] : misp[s][i] = sent[s]

EmitIInv == EmitTypes /\ NumbersLeadHome /\ TwinsInv /\ \A s \in Sessions : SessionInv(s)

\* An event is filed under the session that has the entry of its number.
LEMMA FiledAt ==
    ASSUME EmitIInv, NEW s \in Sessions, NEW via \in {"number", "session"}, Accepted(s, via), life[s] # "new"
    PROVE  /\ Filed(s, via) \in Sessions /\ Key(Filed(s, via)) = Key(s) /\ HasIt(Filed(s, via))
           /\ life[Filed(s, via)] # "new"
           /\ Filed(s, via) # s => /\ <<s, Filed(s, via)>> \in took
                                   /\ life[s] = "open" => Filed(s, via) \in mixed /\ s \in mixed
  <1> DEFINE r == Filed(s, via)
  <1>1. \A k \in DOMAIN sessions : sessions[k] \in Sessions /\ Key(sessions[k]) = k
    BY DEF EmitIInv, NumbersLeadHome
  <1>2. r \in Sessions /\ Key(r) = Key(s) /\ HasIt(r)
    <2>1. CASE via = "session"
      BY <1>1, <2>1 DEF Accepted, Filed, HasIt
    <2>2. CASE via = "number"
      BY <1>1, <2>2 DEF Accepted, Filed, HasIt
    <2> QED
      BY <2>1, <2>2
  <1> HIDE DEF r
  <1>3. life[r] # "new"
    BY <1>2 DEF EmitIInv, SessionInv
  <1>4. r # s => <<s, r>> \in took /\ (life[s] = "open" => r \in mixed /\ s \in mixed)
    BY <1>2 DEF EmitIInv, TwinsInv
  <1> QED
    BY <1>2, <1>3, <1>4 DEF r

\* A session that was never beside another has what is logged of it accepted.
LEMMA Unaccepted ==
    ASSUME EmitIInv, NEW s \in Sessions, NEW via \in {"number", "session"}, ~Accepted(s, via), life[s] = "open"
    PROVE  s \in mixed
  <1>1. SessionInv(s)
    BY DEF EmitIInv
  <1> QED
    BY <1>1 DEF SessionInv, HasIt, Accepted

\* What write() does to the session r it is called for with an event of s, and that
\* it leaves the others alone.
Did(r, kind) == IF kind \in Kinds THEN Append(Track(r).did, kind) ELSE Track(r).did
Makes(r, kind) ==
    kind = "closed" /\ ~Track(r).created /\ \E i \in DOMAIN Did(r, kind) : Did(r, kind)[i] \in Activity

WriteDone(s, r, kind, raises) ==
    /\ Track(r) \in Tracked /\ Did(r, kind) \in Seq(Kinds)
    /\ DOMAIN tracking' = DOMAIN tracking \cup {r}
    /\ tracking'[r] \in Tracked /\ tracking'[r].did = Did(r, kind)
    /\ tracking'[r].created <=> Track(r).created \/ (Makes(r, kind) /\ ~raises)
    /\ \A x \in DOMAIN tracking : x # r => tracking'[x] = tracking[x]
    /\ misp' = misp \/ (Makes(r, kind) /\ misp' = [misp EXCEPT ![r] = Append(@, Did(r, kind))])
    /\ Makes(r, kind) /\ ~raises => misp' = [misp EXCEPT ![r] = Append(@, Did(r, kind))]
    /\ seen' = [seen EXCEPT ![r] = Append(@, [of |-> s, kind |-> kind])]
    /\ faults' = IF raises THEN faults \cup {r} ELSE faults

LEMMA WriteEffect ==
    ASSUME EmitTypes, NEW s \in Sessions, NEW r \in Sessions, NEW kind \in Written,
           NEW raises \in BOOLEAN, Write(s, r, kind, raises)
    PROVE  WriteDone(s, r, kind, raises)
  <1> DEFINE d == Track(r)
             did == IF kind \in Kinds THEN Append(d.did, kind) ELSE d.did
             e == [d EXCEPT !.did = IF kind \in Kinds THEN Append(@, kind) ELSE @]
             due == kind = "closed" /\ ~d.created /\ \E i \in DOMAIN did : did[i] \in Activity
             made == due /\ ~raises
  <1>1. d \in Tracked /\ d.did \in Seq(Kinds) /\ d.created \in BOOLEAN
    <2>1. CASE r \in DOMAIN tracking
      BY <2>1 DEF EmitTypes, Track, Tracked
    <2>2. CASE r \notin DOMAIN tracking
      <3>1. d = [did |-> <<>>, created |-> FALSE] /\ <<>> \in Seq(Kinds)
        BY <2>2 DEF Track
      <3> HIDE DEF d
      <3> QED
        BY <3>1 DEF Tracked
    <2> QED
      BY <2>1, <2>2
  <1> HIDE DEF d
  <1>2. did \in Seq(Kinds)
    <2>1. CASE kind \in Kinds
      BY <1>1, <2>1
    <2>2. CASE kind \notin Kinds
      BY <1>1, <2>2
    <2> QED
      BY <2>1, <2>2
  <1>3. e = [did |-> did, created |-> d.created]
    <2>1. e = [d EXCEPT !.did = did]
      BY <1>1 DEF Tracked
    <2> HIDE DEF did
    <2> QED
      BY <1>1, <2>1 DEF Tracked
  <1>4. (kind = "closed" /\ Due(e)) <=> due
    BY <1>3 DEF Due
  <1> HIDE DEF did
  <1>5. [e EXCEPT !.created = @ \/ ((kind = "closed" /\ Due(e)) /\ ~raises)] = [did |-> did, created |-> d.created \/ made]
    <2>1. e.created = d.created /\ \A b : [e EXCEPT !.created = b] = [did |-> did, created |-> b]
      <3> HIDE DEF e
      <3> QED
        BY <1>3
    <2>2. (e.created \/ ((kind = "closed" /\ Due(e)) /\ ~raises)) = (d.created \/ made)
      BY <1>4, <2>1
    <2> HIDE DEF e, made
    <2> QED
      BY <2>1, <2>2
  <1>6. /\ tracking' = Set(tracking, r, [did |-> did, created |-> d.created \/ made])
        /\ \/ due /\ misp' = [misp EXCEPT ![r] = Append(@, did)]
           \/ (due => raises) /\ UNCHANGED misp
    <2>1. e.did = did
      BY <1>3
    <2>2. /\ tracking' = Set(tracking, r, [e EXCEPT !.created = @ \/ ((kind = "closed" /\ Due(e)) /\ ~raises)])
          /\ \/ (kind = "closed" /\ Due(e)) /\ misp' = CreateSessionEvent(misp, r, e)
             \/ ((kind = "closed" /\ Due(e)) => raises) /\ UNCHANGED misp
      BY DEF Write, MispWrite, d
    <2> HIDE DEF e, due, made
    <2> QED
      BY <1>4, <1>5, <2>1, <2>2 DEF CreateSessionEvent
  <1>7. [did |-> did, created |-> d.created \/ made] \in Tracked
    BY <1>1, <1>2 DEF Tracked
  <1>8. /\ seen' = [seen EXCEPT ![r] = Append(@, [of |-> s, kind |-> kind])]
        /\ faults' = IF raises THEN faults \cup {r} ELSE faults
    BY DEF Write
  <1> HIDE DEF made
  <1>9. /\ DOMAIN tracking' = DOMAIN tracking \cup {r}
        /\ tracking'[r] = [did |-> did, created |-> d.created \/ made]
        /\ \A x \in DOMAIN tracking : x # r => tracking'[x] = tracking[x]
    BY <1>6 DEF Set
  <1>10. tracking'[r].did = did /\ tracking'[r] \in Tracked /\ (tracking'[r].created <=> d.created \/ made)
    <2> DEFINE b == d.created \/ made
    <2>1. tracking'[r] = [did |-> did, created |-> b] /\ tracking'[r] \in Tracked
      BY <1>7, <1>9
    <2> HIDE DEF b
    <2>2. tracking'[r].did = did /\ tracking'[r].created = b
      BY <2>1
    <2> QED
      BY <2>1, <2>2 DEF b
  <1> HIDE DEF due
  <1> QED
    <2>1. d = Track(r) /\ did = Did(r, kind) /\ (due <=> Makes(r, kind)) /\ (made <=> Makes(r, kind) /\ ~raises)
      BY DEF d, did, due, made, Did, Makes
    <2> QED
      BY <1>1, <1>2, <1>6, <1>8, <1>9, <1>10, <2>1 DEF WriteDone

\* A session that a step does not write to: what it takes away is its number, and what
\* it adds is a reason why more may happen to it.
LEMMA OtherSession ==
    ASSUME NEW r \in Sessions, SessionInv(r), life'[r] = life[r], sent'[r] = sent[r], seen'[r] = seen[r],
           misp'[r] = misp[r], UNCHANGED stopped, life[r] # "closed" => late'[r] = late[r],
           faults \subseteq faults', took \subseteq took', mixed \subseteq mixed',
           r \in DOMAIN tracking <=> r \in DOMAIN tracking',
           r \in DOMAIN tracking => tracking'[r] = tracking[r],
           HasIt(r)' => HasIt(r), life[r] = "open" /\ r \notin mixed' => HasIt(r)'
    PROVE  SessionInv(r)'
  <1>1. /\ r \notin faults' => r \notin faults
        /\ r \notin mixed' => r \notin mixed
        /\ \A x : <<x, r>> \in took => <<x, r>> \in took'
    OBVIOUS
  <1>2. Bracketed(r)'
    BY <1>1 DEF SessionInv, Bracketed
  <1>3. life[r] # "new" => tracking'[r] = tracking[r]
    BY DEF SessionInv
  <1>4. HasIt(r)' => life[r] # "new"
    BY DEF SessionInv
  <1> QED
    BY <1>1, <1>2, <1>3, <1>4 DEF SessionInv

\* write() is called for the session that has the entry: what it sees stays in brackets.
LEMMA SeenGrows ==
    ASSUME EmitTypes, NEW s \in Sessions, NEW r \in Sessions, NEW kind \in Written,
           SessionInv(r), kind = "connect" <=> life[r] = "new",
           HasIt(r) \/ kind = "connect", s = r \/ <<s, r>> \in took',
           faults \subseteq faults', took \subseteq took',
           seen' = [seen EXCEPT ![r] = Append(@, [of |-> s, kind |-> kind])]
    PROVE  /\ seen' \in [Sessions -> Seq(Entry)] /\ seen'[r] # <<>> /\ Bracketed(r)'
           /\ kind # "closed" /\ r \notin faults => \A i \in DOMAIN seen'[r] : seen'[r][i].kind # "closed"
  <1> DEFINE e == [of |-> s, kind |-> kind]
             t == seen[r]
             u == seen'[r]
  <1>1. e \in Entry /\ e.of = s /\ e.kind = kind
    BY DEF Entry
  <1>2. t \in Seq(Entry) /\ u = Append(t, e) /\ seen' \in [Sessions -> Seq(Entry)]
    BY <1>1 DEF EmitTypes
  <1> HIDE DEF e
  <1>3. /\ Len(t) \in Nat /\ DOMAIN t = 1..Len(t) /\ DOMAIN u = 1..(Len(t) + 1) /\ Len(u) = Len(t) + 1
        /\ u[Len(t) + 1] = e /\ u # <<>> /\ \A i \in 1..Len(t) : u[i] = t[i]
    BY <1>1, <1>2
  <1>4. (kind = "connect") <=> (Len(t) = 0)
    <2>1. life[r] = "new" => t = <<>>
      BY DEF SessionInv
    <2>2. life[r] # "new" => t # <<>>
      BY DEF SessionInv
    <2> QED
      BY <1>2, <1>3, <2>1, <2>2
  <1>5. ASSUME NEW i \in DOMAIN u
        PROVE  /\ u[i].of = r \/ <<u[i].of, r>> \in took'
               /\ (u[i].kind = "connect") <=> (i = 1)
               /\ u[i].kind = "closed" => (i = Len(u) /\ kind = "closed") \/ r \in faults
    <2> HIDE DEF t, u
    <2>1. CASE i = Len(t) + 1
      <3>1. u[i] = e /\ i = Len(u) /\ ((i = 1) <=> (Len(t) = 0))
        BY <1>3, <2>1
      <3>2. u[i].of = s /\ u[i].kind = kind
        BY <1>1, <3>1
      <3>3. u[i].of = r \/ <<u[i].of, r>> \in took'
        BY <3>2
      <3> QED
        BY <1>4, <3>1, <3>2, <3>3
    <2>2. CASE i \in 1..Len(t)
      <3>1. u[i] = t[i] /\ (t[i].of = r \/ <<t[i].of, r>> \in took) /\ ((t[i].kind = "connect") <=> (i = 1))
        BY <1>3, <2>2 DEF SessionInv, Bracketed, t
      <3>2. HasIt(r)
        BY <1>3, <1>4, <2>2
      <3>3. r \notin faults => t[i].kind # "closed"
        BY <1>3, <2>2, <3>2 DEF SessionInv, t
      <3>4. u[i].of = r \/ <<u[i].of, r>> \in took'
        BY <3>1
      <3> QED
        BY <3>1, <3>3, <3>4
    <2> QED
      BY <1>3, <2>1, <2>2
  <1> QED
    BY <1>2, <1>3, <1>5 DEF Bracketed

LEMMA StepConnect ==
    ASSUME EmitIInv, NEW s \in Sessions, Connect(s)
    PROVE  EmitIInv'
  <1> DEFINE twins == {r \in Sessions : r # s /\ life[r] # "new" /\ Key(r) = Key(s)}
             beside == {r \in twins : life[r] = "open"}
  <1>0. Write(s, s, "connect", FALSE) /\ life[s] = "new" /\ SessionInv(s) /\ EmitTypes
    BY DEF Connect, EmitIInv
  <1>1. /\ DOMAIN tracking' = DOMAIN tracking \cup {s} /\ tracking'[s] \in Tracked
        /\ tracking'[s].did = Track(s).did /\ (tracking'[s].created <=> Track(s).created)
        /\ \A r \in DOMAIN tracking : r # s => tracking'[r] = tracking[r]
        /\ misp' = misp /\ seen' = [seen EXCEPT ![s] = Append(@, [of |-> s, kind |-> "connect"])]
        /\ faults' = faults
    <2>1. WriteDone(s, s, "connect", FALSE)
      BY <1>0, WriteEffect DEF Written
    <2>2. Did(s, "connect") = Track(s).did /\ ~Makes(s, "connect")
      BY DEF Did, Makes, Kinds, Activity
    <2> QED
      BY <2>1, <2>2 DEF WriteDone
  <1>2. Track(s).did = <<>> /\ ~Track(s).created /\ sent[s] = <<>> /\ misp[s] = <<>> /\ seen[s] = <<>>
    BY <1>0 DEF SessionInv, Track
  <1>3. /\ DOMAIN sessions' = DOMAIN sessions \cup {Key(s)} /\ sessions'[Key(s)] = s
        /\ \A k \in DOMAIN sessions : k # Key(s) => sessions'[k] = sessions[k]
    BY DEF Connect, Set
  <1>4. /\ life' = [life EXCEPT ![s] = "open"] /\ UNCHANGED <<sent, late, stopped>>
        /\ took' = took \cup {<<r, s>> : r \in twins}
        /\ mixed' = mixed \cup beside \cup {r \in {s} : beside # {}}
    BY DEF Connect
  <1>5. /\ life'[s] = "open" /\ \A r \in Sessions : r # s => life'[r] = life[r]
        /\ \A r, x \in Sessions : Key(r)' = Key(r)
        /\ took \subseteq took' /\ mixed \subseteq mixed' /\ faults \subseteq faults'
    BY <1>0, <1>1, <1>4 DEF EmitTypes, Key
  <1>6. ASSUME NEW r \in Sessions, r # s, Key(r) = Key(s), life[r] # "new"
        PROVE  <<r, s>> \in took' /\ (life[r] = "open" => r \in mixed' /\ s \in mixed')
    BY <1>4, <1>6
  <1> HIDE DEF twins, beside
  <1>7. /\ seen' \in [Sessions -> Seq(Entry)] /\ seen'[s] # <<>> /\ Bracketed(s)'
        /\ s \notin faults => \A i \in DOMAIN seen'[s] : seen'[s][i].kind # "closed"
    <2>1. "connect" \in Written /\ ("connect" = "connect" <=> life[s] = "new") /\ (HasIt(s) \/ "connect" = "connect")
      BY <1>0 DEF Written
    <2>2. EmitTypes /\ SessionInv(s) /\ (s = s \/ <<s, s>> \in took')
      BY <1>0
    <2>3. faults \subseteq faults' /\ took \subseteq took' /\ "connect" # "closed"
      BY <1>5
    <2>4. seen' = [seen EXCEPT ![s] = Append(@, [of |-> s, kind |-> "connect"])]
      BY <1>1
    <2> QED
      BY <2>1, <2>2, <2>3, <2>4, SeenGrows
  <1>8. EmitTypes'
    BY <1>0, <1>1, <1>4, <1>7 DEF EmitTypes
  <1>9. NumbersLeadHome'
    BY <1>3 DEF EmitIInv, NumbersLeadHome, Key
  <1>10. HasIt(s)' /\ \A r \in Sessions : r # s => (HasIt(r)' <=> HasIt(r) /\ Key(r) # Key(s))
    BY <1>3 DEF HasIt, Key
  <1>11. TwinsInv'
    <2> SUFFICES ASSUME NEW r \in Sessions, NEW x \in Sessions, r # x, Key(r) = Key(x), HasIt(r)', life'[x] # "new"
                 PROVE  <<x, r>> \in took' /\ (life'[x] = "open" => r \in mixed' /\ x \in mixed')
      BY <1>5 DEF TwinsInv
    <2>1. CASE r = s
      BY <1>5, <1>6, <2>1
    <2>2. CASE r # s
      <3>1. HasIt(r) /\ x # s
        BY <1>10, <2>2
      <3> QED
        BY <1>5, <3>1 DEF EmitIInv, TwinsInv
    <2> QED
      BY <2>1, <2>2
  <1>12. SessionInv(s)'
    <2>1. Len(misp'[s]) = 0 /\ sent'[s] = <<>> /\ tracking'[s].did = <<>> /\ ~tracking'[s].created
      BY <1>1, <1>2, <1>4
    <2>2. Ones(tracking'[s].created) \in Nat /\ Ones(stopped') \in Nat /\ Ones(life'[s] = "closed") \in Nat
      BY DEF Ones
    <2>3. late'[s] = 0 /\ s \in DOMAIN tracking'
      BY <1>0, <1>1, <1>4 DEF SessionInv
    <2>4. s \notin faults' => \A i \in DOMAIN seen'[s] : seen'[s][i].kind # "closed"
      BY <1>1, <1>7
    <2> QED
      BY <1>5, <1>7, <1>10, <2>1, <2>2, <2>3, <2>4 DEF SessionInv
  <1>13. ASSUME NEW r \in Sessions, r # s PROVE SessionInv(r)'
    <2>1. SessionInv(r)
      BY DEF EmitIInv
    <2>2. HasIt(r)' => HasIt(r)
      BY <1>10, <1>13
    <2>3. life[r] = "open" /\ r \notin mixed' => HasIt(r)'
      <3> SUFFICES ASSUME life[r] = "open", r \notin mixed' PROVE HasIt(r)'
        OBVIOUS
      <3>1. Key(r) # Key(s)
        BY <1>6, <1>13
      <3>2. HasIt(r)
        BY <1>5, <2>1 DEF SessionInv
      <3> QED
        BY <1>10, <1>13, <3>1, <3>2
    <2>4. seen'[r] = seen[r] /\ misp'[r] = misp[r] /\ sent'[r] = sent[r] /\ late'[r] = late[r] /\ UNCHANGED stopped
      BY <1>0, <1>1, <1>4, <1>13 DEF EmitTypes
    <2>5. (r \in DOMAIN tracking <=> r \in DOMAIN tracking') /\ (r \in DOMAIN tracking => tracking'[r] = tracking[r])
      BY <1>1, <1>13
    <2> QED
      BY <1>5, <1>13, <2>1, <2>2, <2>3, <2>4, <2>5, OtherSession
  <1> QED
    BY <1>8, <1>9, <1>11, <1>12, <1>13 DEF EmitIInv

\* What holds of the entries when they and the sessions beside each other are the same.
LEMMA SameEntries ==
    ASSUME EmitIInv, UNCHANGED <<life, sessions, took, mixed>>
    PROVE  NumbersLeadHome' /\ TwinsInv' /\ \A r : HasIt(r)' <=> HasIt(r)
  <1>1. \A r : (Key(r)' = Key(r)) /\ (HasIt(r)' <=> HasIt(r))
    BY DEF HasIt, Key
  <1> QED
    BY <1>1 DEF EmitIInv, NumbersLeadHome, TwinsInv

\* An event of an open session: the session it is filed under has it, and one that was
\* never beside another is tracked as it was sent.
LEMMA StepEvent ==
    ASSUME EmitIInv, NEW s \in Sessions, NEW kind \in Kinds, NEW via \in {"number", "session"},
           NEW raises \in BOOLEAN, Event(s, kind, via, raises)
    PROVE  EmitIInv'
  <1>0. life[s] = "open" /\ life[s] # "new" /\ SessionInv(s) /\ EmitTypes
    BY DEF Event, EmitIInv
  <1>1. /\ sent' = [sent EXCEPT ![s] = Append(@, kind)] /\ Len(sent[s]) < MaxEvents[s]
        /\ UNCHANGED <<life, late, sessions, stopped, took, mixed>>
    BY DEF Event
  <1>2. /\ sent' \in [Sessions -> Seq(Kinds)] /\ \A r \in Sessions : Len(sent'[r]) + late'[r] <= MaxEvents[r]
        /\ sent'[s] = Append(sent[s], kind) /\ \A r \in Sessions : r # s => sent'[r] = sent[r]
    <2>1. late[s] = 0 /\ sent[s] \in Seq(Kinds) /\ Len(sent[s]) \in Nat
      BY <1>0 DEF SessionInv, EmitTypes
    <2>2. sent' \in [Sessions -> Seq(Kinds)] /\ sent'[s] = Append(sent[s], kind)
          /\ \A r \in Sessions : r # s => sent'[r] = sent[r]
      BY <1>0, <1>1 DEF EmitTypes
    <2>3. Len(sent'[s]) = Len(sent[s]) + 1
      BY <2>1, <2>2
    <2>4. MaxEvents[s] \in Nat
      BY EmitAssumption
    <2>5. ASSUME NEW r \in Sessions PROVE Len(sent'[r]) + late'[r] <= MaxEvents[r]
      BY <1>0, <1>1, <2>1, <2>2, <2>3, <2>4 DEF EmitTypes
    <2> QED
      BY <2>2, <2>5
  <1>3. NumbersLeadHome' /\ TwinsInv' /\ \A r : HasIt(r)' <=> HasIt(r)
    BY <1>1, SameEntries
  <1>4. CASE ~Accepted(s, via)
    <2>1. UNCHANGED <<tracking, misp, seen, faults>> /\ s \in mixed
      BY <1>0, <1>4, Unaccepted DEF Event
    <2>2. EmitTypes'
      BY <1>0, <1>1, <1>2, <2>1 DEF EmitTypes
    <2>3. SessionInv(s)'
      BY <1>0, <1>1, <1>3, <2>1 DEF SessionInv, Bracketed
    <2>4. ASSUME NEW x \in Sessions, x # s PROVE SessionInv(x)'
      <3>1. SessionInv(x)
        BY DEF EmitIInv
      <3> QED
        BY <1>1, <1>2, <1>3, <2>1, <2>4, <3>1, OtherSession DEF SessionInv
    <2> QED
      BY <1>3, <2>2, <2>3, <2>4 DEF EmitIInv
  <1>5. CASE Accepted(s, via)
    <2>0. PICK r \in Sessions : r = Filed(s, via)
      BY <1>0, <1>5, FiledAt
    <2>1. /\ r \in Sessions /\ HasIt(r) /\ life[r] # "new" /\ SessionInv(r)
          /\ r # s => <<s, r>> \in took /\ r \in mixed /\ s \in mixed
      BY <1>0, <1>5, <2>0, FiledAt DEF EmitIInv
    <2>2. Write(s, r, kind, raises)
      BY <1>5, <2>0 DEF Event
    <2>3. r \in DOMAIN tracking /\ tracking[r] \in Tracked /\ kind \in Written /\ kind \notin {"connect", "late", "closed"}
      BY <1>0, <2>1 DEF SessionInv, EmitTypes, Written, Kinds, Activity
    <2>4. Did(r, kind) = Append(tracking[r].did, kind) /\ Track(r) = tracking[r] /\ ~Makes(r, kind)
      BY <2>3 DEF Did, Track, Makes
    <2>5. WriteDone(s, r, kind, raises)
      BY <1>0, <2>1, <2>2, <2>3, WriteEffect
    <2>6. /\ DOMAIN tracking' = DOMAIN tracking \cup {r} /\ tracking'[r] \in Tracked
          /\ tracking'[r].did = Append(tracking[r].did, kind) /\ (tracking'[r].created <=> tracking[r].created)
          /\ \A x \in DOMAIN tracking : x # r => tracking'[x] = tracking[x]
          /\ misp' = misp /\ seen' = [seen EXCEPT ![r] = Append(@, [of |-> s, kind |-> kind])]
          /\ faults \subseteq faults'
      BY <2>4, <2>5 DEF WriteDone
    <2>7. /\ seen' \in [Sessions -> Seq(Entry)] /\ seen'[r] # <<>> /\ Bracketed(r)'
          /\ r \notin faults => \A i \in DOMAIN seen'[r] : seen'[r][i].kind # "closed"
          /\ \A x \in Sessions : x # r => seen'[x] = seen[x]
      <3>1. s = r \/ <<s, r>> \in took'
        BY <1>1, <2>1
      <3>2. took \subseteq took' /\ (kind = "connect" <=> life[r] = "new")
        BY <1>1, <2>1, <2>3
      <3>3. \A x \in Sessions : x # r => seen'[x] = seen[x]
        BY <1>0, <2>6 DEF EmitTypes
      <3> QED
        BY <1>0, <2>1, <2>3, <2>6, <3>1, <3>2, <3>3, SeenGrows
    <2>8. EmitTypes'
      BY <1>0, <1>1, <1>2, <2>6, <2>7 DEF EmitTypes
    <2>9. SessionInv(r)'
      <3>1. r \notin mixed => r = s /\ tracking'[r].did = sent'[r] /\ ~tracking'[r].created
        BY <1>0, <1>2, <2>1, <2>3, <2>6 DEF SessionInv
      <3>2. life[r] = "closed" => r \in mixed \/ r \in faults'
        BY <1>0, <2>1
      <3>3. Ones(tracking'[r].created) = Ones(tracking[r].created)
        BY <2>6 DEF Ones
      <3>4. r \in DOMAIN tracking' /\ misp'[r] = misp[r]
        BY <2>6
      <3>5. r \notin faults' => r \notin faults /\ ~tracking'[r].created
        BY <2>1, <2>6 DEF SessionInv
      <3>6. life[r] = "open" /\ r \notin mixed => HasIt(r)'
        BY <1>3, <2>1
      <3> QED
        BY <1>1, <1>3, <2>1, <2>7, <3>1, <3>2, <3>3, <3>4, <3>5, <3>6 DEF SessionInv
    <2>10. ASSUME NEW x \in Sessions, x # r PROVE SessionInv(x)'
      <3>1. SessionInv(x)
        BY DEF EmitIInv
      <3>2. seen'[x] = seen[x] /\ misp'[x] = misp[x] /\ (x \in DOMAIN tracking <=> x \in DOMAIN tracking')
            /\ (x \in DOMAIN tracking => tracking'[x] = tracking[x])
        BY <2>6, <2>7, <2>10
      <3>3. CASE x # s
        BY <1>1, <1>2, <1>3, <2>6, <3>1, <3>2, <3>3, OtherSession DEF SessionInv
      <3>4. CASE x = s
        <4>1. s \in mixed /\ s \in DOMAIN tracking /\ tracking'[s] = tracking[s] /\ seen'[s] = seen[s] /\ misp'[s] = misp[s]
          BY <1>0, <2>1, <2>10, <3>2, <3>4 DEF SessionInv
        <4>2. Bracketed(s)'
          <5>1. Bracketed(s) /\ (s \in faults => s \in faults') /\ took' = took /\ seen'[s] = seen[s]
            BY <1>0, <1>1, <2>6, <4>1 DEF SessionInv
          <5> QED
            BY <5>1 DEF Bracketed
        <4>3. (s \notin faults' => s \notin faults) /\ s \in mixed' /\ s \in DOMAIN tracking' /\ seen'[s] # <<>>
          BY <1>0, <1>1, <2>6, <4>1 DEF SessionInv
        <4> QED
          <5>1. SessionInv(s)'
            BY <1>0, <1>1, <1>3, <4>1, <4>2, <4>3 DEF SessionInv
          <5> QED
            BY <3>4, <5>1
      <3> QED
        BY <3>3, <3>4
    <2> QED
      BY <1>3, <2>8, <2>9, <2>10 DEF EmitIInv
  <1> QED
    BY <1>4, <1>5

\* A result that comes late is dropped, unless a session has the entry: one whose write()
\* raised, or another of its number.
LEMMA StepLate ==
    ASSUME EmitIInv, NEW s \in Sessions, NEW via \in {"number", "session"}, Late(s, via)
    PROVE  EmitIInv'
  <1>0. /\ life[s] = "closed" /\ life[s] # "new" /\ SessionInv(s) /\ EmitTypes
        /\ late' = [late EXCEPT ![s] = @ + 1] /\ UNCHANGED <<life, sent, sessions, stopped, took, mixed>>
    BY DEF Late, EmitIInv
  <1>1. /\ late' \in [Sessions -> Nat] /\ \A r \in Sessions : Len(sent'[r]) + late'[r] <= MaxEvents[r]
        /\ \A r \in Sessions : life[r] # "closed" => late'[r] = late[r]
    <2>1. Len(sent[s]) \in Nat /\ late[s] \in Nat /\ Len(sent[s]) + late[s] < MaxEvents[s] /\ MaxEvents[s] \in Nat
      <3>1. Len(sent[s]) + late[s] < MaxEvents[s]
        BY DEF Late
      <3>2. sent[s] \in Seq(Kinds) /\ late[s] \in Nat /\ MaxEvents[s] \in Nat
        BY <1>0, EmitAssumption DEF EmitTypes
      <3> QED
        BY <3>1, <3>2
    <2>2. late'[s] = late[s] + 1 /\ \A r \in Sessions : r # s => late'[r] = late[r]
      BY <1>0 DEF EmitTypes
    <2> QED
      BY <1>0, <2>1, <2>2 DEF EmitTypes
  <1>2. NumbersLeadHome' /\ TwinsInv' /\ \A r : HasIt(r)' <=> HasIt(r)
    BY <1>0, SameEntries
  <1>3. CASE ~Accepted(s, via)
    <2>1. UNCHANGED <<tracking, misp, seen, faults>>
      BY <1>3 DEF Late
    <2>2. EmitTypes'
      BY <1>0, <1>1, <2>1 DEF EmitTypes
    <2>3. ASSUME NEW r \in Sessions PROVE SessionInv(r)'
      <3>1. SessionInv(r)
        BY DEF EmitIInv
      <3> QED
        BY <1>0, <1>1, <1>2, <2>1, <3>1, OtherSession DEF SessionInv
    <2> QED
      BY <1>2, <2>2, <2>3 DEF EmitIInv
  <1>4. CASE Accepted(s, via)
    <2>0. PICK r \in Sessions : r = Filed(s, via)
      BY <1>0, <1>4, FiledAt
    <2>1. /\ r \in Sessions /\ HasIt(r) /\ life[r] # "new" /\ SessionInv(r)
          /\ r # s => <<s, r>> \in took
      BY <1>0, <1>4, <2>0, FiledAt DEF EmitIInv
    <2>2. Write(s, r, "late", FALSE)
      BY <1>4, <2>0 DEF Late
    <2>3. r \in DOMAIN tracking /\ tracking[r] \in Tracked /\ "late" \in Written
      BY <1>0, <2>1 DEF SessionInv, EmitTypes, Written
    <2>4. Did(r, "late") = tracking[r].did /\ Track(r) = tracking[r] /\ ~Makes(r, "late")
      BY <2>3 DEF Did, Track, Makes, Kinds, Activity
    <2>5. WriteDone(s, r, "late", FALSE)
      BY <1>0, <2>1, <2>2, <2>3, WriteEffect
    <2>6. /\ DOMAIN tracking' = DOMAIN tracking \cup {r} /\ tracking'[r] \in Tracked
          /\ tracking'[r].did = tracking[r].did /\ (tracking'[r].created <=> tracking[r].created)
          /\ \A x \in DOMAIN tracking : x # r => tracking'[x] = tracking[x]
          /\ misp' = misp /\ seen' = [seen EXCEPT ![r] = Append(@, [of |-> s, kind |-> "late"])]
          /\ faults' = faults
      BY <2>4, <2>5 DEF WriteDone
    <2>7. /\ seen' \in [Sessions -> Seq(Entry)] /\ seen'[r] # <<>> /\ Bracketed(r)'
          /\ r \notin faults => \A i \in DOMAIN seen'[r] : seen'[r][i].kind # "closed"
          /\ \A x \in Sessions : x # r => seen'[x] = seen[x]
      <3>1. s = r \/ <<s, r>> \in took'
        BY <1>0, <2>1
      <3>2. took \subseteq took' /\ faults \subseteq faults' /\ ("late" = "connect" <=> life[r] = "new")
        BY <1>0, <2>1, <2>6
      <3>3. \A x \in Sessions : x # r => seen'[x] = seen[x]
        BY <1>0, <2>6 DEF EmitTypes
      <3> QED
        BY <1>0, <2>1, <2>3, <2>6, <3>1, <3>2, <3>3, SeenGrows
    <2>8. EmitTypes'
      BY <1>0, <1>1, <2>6, <2>7 DEF EmitTypes
    <2>9. SessionInv(r)'
      <3>1. Ones(tracking'[r].created) = Ones(tracking[r].created) /\ r \in DOMAIN tracking'
        BY <2>6 DEF Ones
      <3>2. life[r] # "closed" => late'[r] = 0
        BY <1>1, <2>1 DEF SessionInv
      <3> QED
        BY <1>0, <1>2, <2>1, <2>6, <2>7, <3>1, <3>2 DEF SessionInv
    <2>10. ASSUME NEW x \in Sessions, x # r PROVE SessionInv(x)'
      <3>1. SessionInv(x)
        BY DEF EmitIInv
      <3>2. seen'[x] = seen[x] /\ misp'[x] = misp[x] /\ (x \in DOMAIN tracking <=> x \in DOMAIN tracking')
            /\ (x \in DOMAIN tracking => tracking'[x] = tracking[x])
        BY <2>6, <2>7, <2>10
      <3> QED
        BY <1>0, <1>1, <1>2, <2>6, <3>1, <3>2, OtherSession DEF SessionInv
    <2> QED
      BY <1>2, <2>8, <2>9, <2>10 DEF EmitIInv
  <1> QED
    BY <1>3, <1>4

\* The closed event: the event for MISP is made of what the session did, and the entry
\* is removed.
LEMMA StepClosed ==
    ASSUME EmitIInv, NEW s \in Sessions, NEW raises \in BOOLEAN, Closed(s, raises)
    PROVE  EmitIInv'
  <1>0. life[s] = "open" /\ life[s] # "new" /\ SessionInv(s) /\ EmitTypes
    BY DEF Closed, EmitIInv
  <1>1. /\ life' = [life EXCEPT ![s] = "closed"] /\ UNCHANGED <<sent, late, stopped, took, mixed>>
        /\ \A r \in Sessions : Key(r)' = Key(r)
    BY DEF Closed, Key
  <1>2. life' \in [Sessions -> {"new", "open", "closed"}] /\ life'[s] = "closed" /\ \A x \in Sessions : x # s => life'[x] = life[x]
    BY <1>0, <1>1 DEF EmitTypes
  <1>3. CASE ~Accepted(s, "number")
    <2>1. UNCHANGED <<sessions, tracking, misp, seen, faults>> /\ s \in mixed
      BY <1>0, <1>3, Unaccepted DEF Closed
    <2>2. EmitTypes'
      BY <1>0, <1>1, <1>2, <2>1 DEF EmitTypes
    <2>3. NumbersLeadHome' /\ \A r : HasIt(r)' <=> HasIt(r)
      BY <2>1 DEF EmitIInv, NumbersLeadHome, HasIt, Key
    <2>4. TwinsInv'
      BY <1>0, <1>1, <1>2, <2>3 DEF EmitIInv, TwinsInv
    <2>5. SessionInv(s)'
      <3>1. Bracketed(s)' /\ s \in DOMAIN tracking
        BY <1>0, <1>1, <2>1 DEF SessionInv, Bracketed
      <3> QED
        BY <1>0, <1>1, <1>2, <2>1, <2>3, <3>1 DEF SessionInv
    <2>6. ASSUME NEW x \in Sessions, x # s PROVE SessionInv(x)'
      <3>1. SessionInv(x)
        BY DEF EmitIInv
      <3> QED
        BY <1>1, <1>2, <2>1, <2>3, <2>6, <3>1, OtherSession DEF SessionInv
    <2> QED
      BY <2>2, <2>3, <2>4, <2>5, <2>6 DEF EmitIInv
  <1>4. CASE Accepted(s, "number")
    <2>0. PICK r \in Sessions : r = Filed(s, "number")
      BY <1>0, <1>4, FiledAt
    <2>1. /\ r \in Sessions /\ Key(r) = Key(s) /\ HasIt(r) /\ life[r] # "new" /\ SessionInv(r)
          /\ r # s => <<s, r>> \in took /\ r \in mixed /\ s \in mixed
      BY <1>0, <1>4, <2>0, FiledAt DEF EmitIInv
    <2>2. /\ Write(s, r, "closed", raises)
          /\ sessions' = IF raises THEN sessions ELSE Unset(sessions, Key(s))
      BY <1>4, <2>0 DEF Closed
    <2>3. r \in DOMAIN tracking /\ tracking[r] \in Tracked /\ "closed" \in Written
      BY <1>0, <2>1 DEF SessionInv, EmitTypes, Written
    <2> DEFINE makes == ~tracking[r].created /\ \E i \in DOMAIN tracking[r].did : tracking[r].did[i] \in Activity
    <2>4. Did(r, "closed") = tracking[r].did /\ Track(r) = tracking[r] /\ (Makes(r, "closed") <=> makes)
      <3>1. Did(r, "closed") = tracking[r].did /\ Track(r) = tracking[r]
        BY <2>3 DEF Did, Track, Kinds, Activity
      <3> QED
        BY <3>1 DEF Makes
    <2> HIDE DEF makes
    <2>5. WriteDone(s, r, "closed", raises)
      BY <1>0, <2>1, <2>2, <2>3, WriteEffect
    <2>6. /\ DOMAIN tracking' = DOMAIN tracking \cup {r} /\ tracking'[r] \in Tracked
          /\ tracking'[r].did = tracking[r].did /\ (tracking'[r].created <=> tracking[r].created \/ (makes /\ ~raises))
          /\ \A x \in DOMAIN tracking : x # r => tracking'[x] = tracking[x]
          /\ misp' = misp \/ (makes /\ misp' = [misp EXCEPT ![r] = Append(@, tracking[r].did)])
          /\ makes /\ ~raises => misp' = [misp EXCEPT ![r] = Append(@, tracking[r].did)]
          /\ seen' = [seen EXCEPT ![r] = Append(@, [of |-> s, kind |-> "closed"])]
          /\ faults' = (IF raises THEN faults \cup {r} ELSE faults) /\ faults \subseteq faults'
      BY <2>4, <2>5 DEF WriteDone
    <2>7. /\ seen' \in [Sessions -> Seq(Entry)] /\ seen'[r] # <<>> /\ Bracketed(r)'
          /\ \A x \in Sessions : x # r => seen'[x] = seen[x]
      <3>1. s = r \/ <<s, r>> \in took'
        BY <1>1, <2>1
      <3>2. took \subseteq took' /\ ("closed" = "connect" <=> life[r] = "new")
        BY <1>1, <2>1
      <3>3. \A x \in Sessions : x # r => seen'[x] = seen[x]
        BY <1>0, <2>6 DEF EmitTypes
      <3> QED
        BY <1>0, <2>1, <2>3, <2>6, <3>1, <3>2, <3>3, SeenGrows
    <2>8. misp' \in [Sessions -> Seq(Seq(Kinds))] /\ \A x \in Sessions : x # r => misp'[x] = misp[x]
      <3>1. misp \in [Sessions -> Seq(Seq(Kinds))] /\ tracking[r].did \in Seq(Kinds)
        BY <1>0, <2>3 DEF EmitTypes, Tracked
      <3>2. CASE misp' = misp
        BY <3>1, <3>2
      <3>3. CASE misp' = [misp EXCEPT ![r] = Append(@, tracking[r].did)]
        <4>1. Append(misp[r], tracking[r].did) \in Seq(Seq(Kinds))
          BY <2>1, <3>1
        <4> QED
          BY <2>1, <3>1, <3>3, <4>1
      <3> QED
        BY <2>6, <3>2, <3>3
    <2>9. EmitTypes'
      BY <1>0, <1>1, <1>2, <2>6, <2>7, <2>8 DEF EmitTypes
    <2>10. /\ DOMAIN sessions' = IF raises THEN DOMAIN sessions ELSE DOMAIN sessions \ {Key(s)}
           /\ \A k \in DOMAIN sessions' : sessions'[k] = sessions[k]
      BY <2>2 DEF Unset
    <2>11. /\ \A x \in Sessions : HasIt(x)' => HasIt(x) /\ (raises \/ Key(x) # Key(s))
           /\ \A x \in Sessions : HasIt(x) /\ x # r => HasIt(x)'
      <3>1. \A x \in Sessions : HasIt(x) /\ x # r => Key(x) # Key(s)
        BY <2>1 DEF HasIt
      <3> QED
        BY <1>1, <2>10, <3>1 DEF HasIt
    <2>12. NumbersLeadHome'
      BY <2>10 DEF EmitIInv, NumbersLeadHome, Key
    <2>13. TwinsInv'
      BY <1>0, <1>1, <1>2, <2>11 DEF EmitIInv, TwinsInv
    <2>14. SessionInv(r)'
      <3>1. life'[r] # "new" /\ r \in DOMAIN tracking' /\ (r \notin mixed' => r = s)
        BY <1>1, <1>2, <2>1, <2>6
      <3>2. r \notin mixed' => tracking'[r].did = sent'[r] /\ life'[r] # "open"
        BY <1>1, <1>2, <2>1, <2>6 DEF SessionInv
      <3>3. r \notin faults' => r \notin faults /\ ~raises /\ ~HasIt(r)'
        BY <2>1, <2>6, <2>11
      <3>4. late'[r] = late[r] /\ (life'[r] # "closed" => life[r] # "closed")
        BY <1>0, <1>1, <1>2
      <3>5. /\ Len(misp[r]) \in Nat /\ misp[r] \in Seq(Seq(Kinds)) /\ tracking[r].did \in Seq(Kinds)
            /\ Len(misp'[r]) \in Nat
        BY <1>0, <2>1, <2>3, <2>8 DEF EmitTypes, Tracked
      <3>6. /\ misp'[r] = misp[r] \/ (makes /\ misp'[r] = Append(misp[r], tracking[r].did))
            /\ makes /\ ~raises => misp'[r] = Append(misp[r], tracking[r].did)
        <4>1. misp \in [Sessions -> Seq(Seq(Kinds))]
          BY <1>0 DEF EmitTypes
        <4> QED
          BY <2>1, <2>6, <4>1
      <3>7. Len(misp'[r]) <= Len(misp[r]) + 1 /\ (~makes => misp'[r] = misp[r])
        BY <3>5, <3>6
      <3>8. r \notin faults' => Len(misp'[r]) <= Ones(tracking'[r].created) + Ones(stopped')
        <4> SUFFICES ASSUME r \notin faults' PROVE Len(misp'[r]) <= Ones(tracking'[r].created) + Ones(stopped')
          OBVIOUS
        <4>1. Len(misp[r]) <= Ones(tracking[r].created) + Ones(stopped) /\ ~raises
          BY <2>1, <3>3 DEF SessionInv
        <4>2. makes => ~tracking[r].created
          BY DEF makes
        <4>3. CASE makes
          BY <1>1, <2>6, <3>5, <3>7, <4>1, <4>2, <4>3 DEF Ones
        <4>4. CASE ~makes
          BY <1>1, <2>6, <3>5, <3>7, <4>1, <4>4 DEF Ones
        <4> QED
          BY <4>3, <4>4
      <3>9. r \notin mixed' => Len(misp'[r]) <= Ones(life'[r] = "closed") + Ones(stopped')
        <4> SUFFICES ASSUME r \notin mixed' PROVE Len(misp'[r]) <= Ones(life'[r] = "closed") + Ones(stopped')
          OBVIOUS
        <4>1. Len(misp[r]) <= Ones(life[r] = "closed") + Ones(stopped) /\ life[r] = "open" /\ life'[r] = "closed"
          BY <1>0, <1>1, <1>2, <2>1, <3>1 DEF SessionInv
        <4> QED
          BY <1>1, <3>5, <3>7, <4>1 DEF Ones
      <3>10. ASSUME r \notin faults', r \notin mixed', \E i \in DOMAIN sent[r] : sent[r][i] \in Activity
             PROVE  \E i \in DOMAIN misp'[r] : misp'[r][i] = sent[r]
        <4>1. ~tracking[r].created /\ tracking[r].did = sent[r] /\ ~raises
          BY <1>0, <1>1, <2>1, <3>1, <3>3, <3>10 DEF SessionInv
        <4>2. makes
          BY <3>10, <4>1 DEF makes
        <4>3. misp'[r] = Append(misp[r], sent[r])
          BY <3>6, <4>1, <4>2
        <4>4. misp[r] \in Seq(Seq(Kinds)) /\ sent[r] \in Seq(Kinds)
          BY <3>5, <4>1
        <4>5. /\ Len(misp[r]) + 1 \in DOMAIN Append(misp[r], sent[r])
              /\ Append(misp[r], sent[r])[Len(misp[r]) + 1] = sent[r]
          BY <4>4
        <4> QED
          BY <4>3, <4>5
      <3> QED
        BY <1>1, <2>1, <2>7, <3>1, <3>2, <3>3, <3>4, <3>8, <3>9, <3>10 DEF SessionInv
    <2>15. ASSUME NEW x \in Sessions, x # r PROVE SessionInv(x)'
      <3>1. SessionInv(x) /\ took \subseteq took' /\ mixed \subseteq mixed'
        BY <1>1 DEF EmitIInv
      <3>2. seen'[x] = seen[x] /\ misp'[x] = misp[x] /\ (x \in DOMAIN tracking <=> x \in DOMAIN tracking')
            /\ (x \in DOMAIN tracking => tracking'[x] = tracking[x])
        BY <2>6, <2>7, <2>8, <2>15
      <3>3. (HasIt(x)' => HasIt(x)) /\ (life[x] = "open" /\ x \notin mixed' => HasIt(x)')
        BY <1>1, <2>11, <2>15, <3>1 DEF SessionInv
      <3>4. CASE x # s
        BY <1>1, <1>2, <2>6, <3>1, <3>2, <3>3, <3>4, OtherSession DEF SessionInv
      <3>5. CASE x = s
        <4>1. s \in mixed /\ s \in DOMAIN tracking /\ tracking'[s] = tracking[s] /\ seen'[s] = seen[s] /\ misp'[s] = misp[s]
          BY <1>0, <2>1, <2>15, <3>2, <3>5 DEF SessionInv
        <4>2. Bracketed(s)'
          <5>1. Bracketed(s) /\ (s \in faults => s \in faults') /\ took' = took /\ seen'[s] = seen[s]
            BY <1>0, <1>1, <2>6, <4>1 DEF SessionInv
          <5> QED
            BY <5>1 DEF Bracketed
        <4>3. (s \notin faults' => s \notin faults) /\ s \in mixed' /\ s \in DOMAIN tracking' /\ seen'[s] # <<>>
          BY <1>0, <1>1, <2>6, <4>1 DEF SessionInv
        <4> QED
          <5>1. SessionInv(s)'
            BY <1>0, <1>1, <1>2, <3>3, <3>5, <4>1, <4>2, <4>3 DEF SessionInv
          <5> QED
            BY <3>5, <5>1
      <3> QED
        BY <3>4, <3>5
    <2> QED
      BY <2>9, <2>12, <2>13, <2>14, <2>15 DEF EmitIInv
  <1> QED
    BY <1>3, <1>4

\* stop() makes at most one event of a session, and tells what it did so far.
LEMMA StepStop ==
    ASSUME EmitIInv, Stop
    PROVE  EmitIInv'
  <1> DEFINE due == {r \in DOMAIN tracking : Due(tracking[r])}
  <1>1. PICK made \in SUBSET due :
          /\ misp' = [r \in Sessions |-> IF r \in made THEN Append(misp[r], tracking[r].did) ELSE misp[r]]
          /\ faults' = faults \cup (due \ made)
    BY DEF Stop
  <1>2. ~stopped /\ stopped' = TRUE /\ UNCHANGED <<life, sent, late, sessions, seen, tracking, took, mixed>> /\ EmitTypes
    BY DEF Stop, EmitIInv
  <1>3. misp' \in [Sessions -> Seq(Seq(Kinds))]
    BY <1>1, <1>2 DEF EmitTypes, Tracked
  <1>4. EmitTypes'
    BY <1>2, <1>3 DEF EmitTypes
  <1>5. NumbersLeadHome' /\ TwinsInv' /\ \A r : HasIt(r)' <=> HasIt(r)
    BY <1>2, SameEntries
  <1>6. ASSUME NEW s \in Sessions PROVE SessionInv(s)'
    <2>1. SessionInv(s) /\ misp[s] \in Seq(Seq(Kinds)) /\ Len(misp[s]) \in Nat
      BY <1>2 DEF EmitIInv, EmitTypes
    <2>2. s \in made => ~tracking[s].created /\ s \in DOMAIN tracking /\ life[s] # "new" /\ tracking[s].did \in Seq(Kinds)
      BY <1>2, <2>1 DEF Due, SessionInv, EmitTypes, Tracked
    <2>3. /\ Len(misp'[s]) <= Len(misp[s]) + 1
          /\ \A i \in DOMAIN misp[s] : i \in DOMAIN misp'[s] /\ misp'[s][i] = misp[s][i]
          /\ s \notin made => misp'[s] = misp[s]
      <3>1. CASE s \in made
        <4>1. misp'[s] = Append(misp[s], tracking[s].did)
          BY <1>1, <3>1
        <4> QED
          BY <2>1, <2>2, <3>1, <4>1
      <3>2. CASE s \notin made
        BY <1>1, <2>1, <3>2
      <3> QED
        BY <3>1, <3>2
    <2>4. /\ life[s] # "new" /\ s \notin faults => Len(misp'[s]) <= Ones(tracking'[s].created) + Ones(stopped')
          /\ s \notin mixed => Len(misp'[s]) <= Ones(life'[s] = "closed") + Ones(stopped')
      <3>1. misp'[s] \in Seq(Seq(Kinds)) /\ Len(misp'[s]) \in Nat
        BY <1>3
      <3> QED
        BY <1>2, <2>1, <2>3, <3>1 DEF SessionInv, Ones
    <2>5. life[s] = "new" => misp'[s] = <<>>
      BY <2>1, <2>2, <2>3 DEF SessionInv
    <2>6. (s \notin faults' => s \notin faults) /\ (HasIt(s)' <=> HasIt(s))
      BY <1>1, <1>5
    <2>7. Bracketed(s)'
      BY <1>2, <2>1, <2>6 DEF SessionInv, Bracketed
    <2> QED
      BY <1>2, <2>1, <2>3, <2>4, <2>5, <2>6, <2>7 DEF SessionInv
  <1> QED
    BY <1>4, <1>5, <1>6 DEF EmitIInv

LEMMA StepEmit == EmitIInv /\ [EmitNext]_emitVars => EmitIInv'
  <1> SUFFICES ASSUME EmitIInv, [EmitNext]_emitVars
               PROVE  EmitIInv'
    OBVIOUS
  <1>1. ASSUME NEW s \in Sessions, NEW via \in {"number", "session"}, NEW raises \in BOOLEAN,
               NEW kind \in Kinds, Event(s, kind, via, raises)
        PROVE  EmitIInv'
    BY <1>1, StepEvent
  <1>2. ASSUME NEW s \in Sessions, NEW via \in {"number", "session"}, Late(s, via)
        PROVE  EmitIInv'
    BY <1>2, StepLate
  <1>3. ASSUME NEW s \in Sessions, NEW raises \in BOOLEAN, Closed(s, raises)
        PROVE  EmitIInv'
    BY <1>3, StepClosed
  <1>4. CASE UNCHANGED emitVars
    <2>1. EmitTypes' /\ NumbersLeadHome' /\ TwinsInv' /\ \A r : HasIt(r)' <=> HasIt(r)
      BY <1>4, SameEntries DEF EmitIInv, EmitTypes, emitVars
    <2>2. ASSUME NEW s \in Sessions PROVE SessionInv(s)'
      <3>1. SessionInv(s)
        BY DEF EmitIInv
      <3> QED
        BY <1>4, <2>1, <3>1, OtherSession DEF SessionInv, emitVars
    <2> QED
      BY <2>1, <2>2 DEF EmitIInv
  <1> QED
    BY <1>1, <1>2, <1>3, <1>4, StepConnect, StepStop DEF EmitNext

LEMMA InitEmit == EmitInit => EmitIInv
  <1> SUFFICES ASSUME EmitInit
               PROVE  EmitIInv
    OBVIOUS
  <1>1. DOMAIN sessions = {} /\ DOMAIN tracking = {}
    BY DEF EmitInit
  <1>2. EmitTypes
    <2>1. /\ sent \in [Sessions -> Seq(Kinds)] /\ seen \in [Sessions -> Seq(Entry)]
          /\ misp \in [Sessions -> Seq(Seq(Kinds))] /\ late \in [Sessions -> Nat]
      BY DEF EmitInit
    <2>2. \A s \in Sessions : Len(sent[s]) + late[s] <= MaxEvents[s]
      <3>1. \A s \in Sessions : sent[s] = <<>> /\ late[s] = 0
        BY DEF EmitInit
      <3>2. \A s \in Sessions : Len(<<>>) + 0 <= MaxEvents[s]
        BY EmitAssumption
      <3> QED
        BY <3>1, <3>2
    <2>3. life \in [Sessions -> {"new", "open", "closed"}] /\ stopped \in BOOLEAN
      BY DEF EmitInit
    <2> QED
      BY <1>1, <2>1, <2>2, <2>3 DEF EmitTypes
  <1>3. NumbersLeadHome /\ TwinsInv
    BY <1>1 DEF EmitInit, NumbersLeadHome, TwinsInv, HasIt
  <1>4. ASSUME NEW s \in Sessions PROVE SessionInv(s)
    <2>1. /\ life[s] = "new" /\ seen[s] = <<>> /\ sent[s] = <<>> /\ misp[s] = <<>> /\ late[s] = 0
          /\ s \notin DOMAIN tracking /\ ~HasIt(s)
      BY <1>1 DEF EmitInit, HasIt
    <2>2. Ones(life[s] = "closed") \in Nat /\ Ones(stopped) \in Nat
      BY DEF Ones
    <2> QED
      BY <2>1, <2>2 DEF SessionInv, Bracketed
  <1> QED
    BY <1>2, <1>3, <1>4 DEF EmitIInv

LEMMA EmitInvHolds == EmitIInv => EmitInv
  <1> SUFFICES ASSUME EmitIInv
               PROVE  EmitInv
    OBVIOUS
  <1>1. EmitTypeOK /\ EventsKeepTheirSession /\ SessionIsBracketed /\ MispHasSession
    <2>1. EmitTypeOK
      BY DEF EmitIInv, EmitTypes, NumbersLeadHome, SessionInv, EmitTypeOK
    <2>2. EventsKeepTheirSession
      BY DEF EmitIInv, SessionInv, Bracketed, EventsKeepTheirSession
    <2>3. SessionIsBracketed
      BY DEF EmitIInv, SessionInv, Bracketed, SessionIsBracketed
    <2>4. MispHasSession
      BY DEF EmitIInv, EmitTypes, SessionInv, MispHasSession
    <2> QED
      BY <2>1, <2>2, <2>3, <2>4
  <1>2. OneMispEvent
    <2> SUFFICES ASSUME NEW s \in Sessions
                 PROVE  /\ s \notin faults \cap mixed => Len(misp[s]) <= IF stopped THEN 2 ELSE 1
                        /\ s \notin faults /\ Len(misp[s]) = 2 => tracking[s].created
      BY DEF OneMispEvent
    <2>1. SessionInv(s) /\ Len(misp[s]) \in Nat /\ stopped \in BOOLEAN
      BY DEF EmitIInv, EmitTypes
    <2>2. CASE life[s] = "new"
      BY <2>1, <2>2 DEF SessionInv
    <2>3. CASE life[s] # "new"
      <3>1. /\ s \notin faults => Len(misp[s]) <= Ones(tracking[s].created) + Ones(stopped)
            /\ s \notin mixed => Len(misp[s]) <= Ones(life[s] = "closed") + Ones(stopped)
        BY <2>1, <2>3 DEF SessionInv
      <3>2. Len(misp[s]) \in Nat /\ stopped \in BOOLEAN
        BY <2>1
      <3>3. ASSUME s \notin faults
            PROVE  Len(misp[s]) <= (IF stopped THEN 2 ELSE 1) /\ (Len(misp[s]) = 2 => tracking[s].created)
        <4>1. Len(misp[s]) <= Ones(tracking[s].created) + Ones(stopped)
          BY <3>1, <3>3
        <4>2. CASE tracking[s].created /\ stopped
          BY <3>2, <4>1, <4>2 DEF Ones
        <4>3. CASE ~ tracking[s].created /\ stopped
          BY <3>2, <4>1, <4>3 DEF Ones
        <4>4. CASE tracking[s].created /\ ~ stopped
          BY <3>2, <4>1, <4>4 DEF Ones
        <4>5. CASE ~ tracking[s].created /\ ~ stopped
          BY <3>2, <4>1, <4>5 DEF Ones
        <4> QED
          BY <4>2, <4>3, <4>4, <4>5
      <3>4. ASSUME s \notin mixed
            PROVE  Len(misp[s]) <= IF stopped THEN 2 ELSE 1
        <4>1. Len(misp[s]) <= Ones(life[s] = "closed") + Ones(stopped)
          BY <3>1, <3>4
        <4>2. CASE stopped
          BY <3>2, <4>1, <4>2 DEF Ones
        <4>3. CASE ~ stopped
          BY <3>2, <4>1, <4>3 DEF Ones
        <4> QED
          BY <4>2, <4>3
      <3> QED
        BY <3>3, <3>4
    <2> QED
      BY <2>2, <2>3
  <1> QED
    BY <1>1, <1>2 DEF EmitInv

\* Sessions and their events stay together, in self.sessions and in MISP, for any
\* number of sessions, also when sessions of two endpoints share a number (EmitInv).
THEOREM EmitCorrect == EmitSpec => []EmitInv
  BY InitEmit, StepEmit, EmitInvHolds, PTL DEF EmitSpec
-----------------------------------------------------------------------------
(***************************************************************************)
(* AbuseIPDB.                                                              *)
(***************************************************************************)
LogEntries == {Reported(t) : t \in Nat} \cup {Deque(ts, m) : ts \in Seq(Nat), m \in Nat}
LogBooks == UNION {[D -> LogEntries] : D \in SUBSET Ips}
Sleeps == [on : BOOLEAN, until : Nat]
DumpFiles == [exists : BOOLEAN, book : LogBooks, asleep : Sleeps, tolerated : Nat]

AbuseTypes ==
    /\ up \in BOOLEAN /\ now \in 1..MaxTime /\ tolerance \in Tolerances
    /\ book \in LogBooks /\ asleep \in Sleeps
    /\ recalls \subseteq [at : Nat, held : BOOLEAN] /\ wakeups \subseteq Nat
    /\ flight \in Seq(Ips) /\ waiting \in Seq(Ips)
    /\ dumps \subseteq DumpFiles /\ disk \in DumpFiles /\ newest \in DumpFiles
    /\ (disk.exists \/ ~ disk.asleep.on) /\ \A d \in dumps : d.exists
    /\ attempts \in [Ips -> Seq(Nat)]
    /\ reports \in Seq([ip : Ips, at : Nat, n : Nat, k : Nat])
    /\ refusals \in Seq([until : Nat, again : BOOLEAN])

\* The attempts of an address come one after the other, and before now.
AttemptsInOrder ==
    \A ip \in Ips : \A i, j \in DOMAIN attempts[ip] :
        attempts[ip][i] <= now /\ (i <= j => attempts[ip][i] <= attempts[ip][j])

\* The times of a deque are those of different attempts, in their order.
EarnedBy(hits, ts) ==
    \E m \in [DOMAIN ts -> DOMAIN hits] :
        /\ \A i, j \in DOMAIN ts : i < j => m[i] < m[j]
        /\ \A i \in DOMAIN ts : hits[m[i]] = ts[i]

BookIsEarned(tries, b) == \A ip \in DOMAIN b : ~ b[ip].done => EarnedBy(tries[ip], b[ip].times)

BooksAreEarned ==
    /\ BookIsEarned(attempts, book) /\ BookIsEarned(attempts, disk.book)
    /\ \A d \in dumps : BookIsEarned(attempts, d.book)

\* Awake, the plugin has a clean-up that a refusal or stop() can cancel.
AwakeIsHeld == up /\ ~ asleep.on => Held

\* When a start that reads of this sleep is awake.
WakesAt(s) == IF s.on /\ s.until > now THEN s.until ELSE now
Horizon == IF asleep.on THEN asleep.until ELSE now

SilentUntil(replies, h) == \A k \in DOMAIN replies : replies[k].until <= h

\* A logbook that will do until h: it has the address of each report marked, or
\* the address may be reported again by then.
Remembers(told, b, h) ==
    \A i \in DOMAIN told :
        \/ /\ told[i].ip \in DOMAIN b /\ b[told[i].ip].done
           /\ told[i].at <= b[told[i].ip].times[1]
        \/ h > told[i].at + Rereport

BookIsKept ==
    /\ up => /\ SilentUntil(refusals, Horizon) /\ Remembers(reports, book, Horizon)
             /\ wakeups = IF asleep.on THEN {asleep.until} ELSE {}
    /\ up /\ asleep.on => /\ newest.asleep = asleep
                          /\ Remembers(reports, newest.book, asleep.until)
    /\ ~ up => /\ SilentUntil(refusals, WakesAt(newest.asleep))
               /\ Remembers(reports, newest.book, WakesAt(newest.asleep))

ReportsInThePast ==
    \A i \in DOMAIN reports : reports[i].at <= now /\ reports[i].k <= Len(refusals)

\* What is on its way, or waits to be sent again, was reported.
Told(ip) == \E i \in DOMAIN reports : reports[i].ip = ip
FlightIsTold ==
    /\ \A i \in DOMAIN flight : Told(flight[i])
    /\ \A i \in DOMAIN waiting : Told(waiting[i])

AbuseIInv ==
    /\ AbuseTypes /\ AttemptsInOrder /\ BooksAreEarned /\ ReportsInThePast
    /\ ReportHasAttempts /\ CleanupGoesOn /\ AwakeIsHeld /\ FlightIsTold /\ OnlyReportedAgain
    /\ ~ lost /\ ~ Overlapping => BookIsKept /\ NoEarlyRereport /\ NoReportAsleep

-----------------------------------------------------------------------------
\* A non-empty set of naturals has a least element.
LEMMA LeastOf ==
    ASSUME NEW S \in SUBSET Nat, S # {}
    PROVE  \E m \in S : \A x \in S : m <= x
  <1>1. \E m \in S : \A x \in S : <<x, m>> \notin OpToRel(<, Nat)
    BY NatLessThanWellFounded, WFMin
  <1>2. PICK m \in S : \A x \in S : <<x, m>> \notin OpToRel(<, Nat)
    BY <1>1
  <1>3. \A x \in S : ~ (x < m)
    BY <1>2 DEF OpToRel
  <1> QED
    BY <1>3

\* A log entry is one or the other.
LEMMA EntryForm ==
    ASSUME NEW e \in LogEntries
    PROVE  /\ e.done \in BOOLEAN /\ e.times \in Seq(Nat)
           /\ e.done => e.times[1] \in Nat /\ Len(e.times) = 1 /\ e.times # <<>>
           /\ ~ e.done => e = Deque(e.times, e.max) /\ e.max \in Nat
  <1>1. CASE \E t \in Nat : e = Reported(t)
    BY <1>1 DEF Reported
  <1>2. CASE \E ts \in Seq(Nat), m \in Nat : e = Deque(ts, m)
    BY <1>2 DEF Deque
  <1> QED
    BY <1>1, <1>2 DEF LogEntries

LEMMA DequeForm ==
    ASSUME NEW ts \in Seq(Nat), NEW m \in Nat
    PROVE  Deque(ts, m) \in LogEntries /\ ~ Deque(ts, m).done /\ Deque(ts, m).times = ts
  <1>1. Deque(ts, m) \in LogEntries
    BY DEF LogEntries
  <1> QED
    BY <1>1 DEF Deque

LEMMA ReportedForm ==
    ASSUME NEW t \in Nat
    PROVE  Reported(t) \in LogEntries /\ Reported(t).done
  <1>1. Reported(t) \in LogEntries
    BY DEF LogEntries
  <1> QED
    BY <1>1 DEF Reported

LEMMA BookForm ==
    ASSUME NEW b \in LogBooks
    PROVE  DOMAIN b \subseteq Ips /\ \A ip \in DOMAIN b : b[ip] \in LogEntries
  BY DEF LogBooks

LEMMA EmptyBook == <<>> \in LogBooks /\ DOMAIN <<>> = {}
  <1>1. <<>> \in Seq(LogEntries) /\ Len(<<>>) = 0
    OBVIOUS
  <1>2. <<>> \in [1..0 -> LogEntries]
    BY <1>1
  <1>3. 1..0 = {}
    OBVIOUS
  <1> QED
    BY <1>2, <1>3 DEF LogBooks

\* What is left of a deque from a place on: the entries behind it, in their order.
LEMMA RestOfTimes ==
  ASSUME NEW es \in Seq(Nat), NEW q \in 1..(Len(es) + 1)
  PROVE  /\ SubSeq(es, q, Len(es)) \in Seq(Nat)
         /\ DOMAIN SubSeq(es, q, Len(es)) = 1..(Len(es) - q + 1) /\ Len(es) \in Nat
         /\ DOMAIN es = 1..Len(es)
         /\ \A i \in 1..(Len(es) - q + 1) : SubSeq(es, q, Len(es))[i] = es[i + q - 1]
PROOF
  <1>1. Len(es) \in Nat /\ DOMAIN es = 1..Len(es)
    BY LenProperties
  <1>2. q \in Nat /\ q >= 1 /\ q <= Len(es) + 1
    BY <1>1
  <1>3. \A i \in q..Len(es) : es[i] \in Nat
    BY <1>1, <1>2
  <1>4. q \in Int /\ Len(es) \in Int
    BY <1>1, <1>2
  <1>5. /\ SubSeq(es, q, Len(es)) \in Seq(Nat)
        /\ Len(SubSeq(es, q, Len(es))) = IF q <= Len(es) THEN Len(es) - q + 1 ELSE 0
        /\ \A i \in 1..(Len(es) - q + 1) : SubSeq(es, q, Len(es))[i] = es[q + i - 1]
    BY <1>3, <1>4, SubSeqProperties, SMTT(30)
  <1>6. Len(SubSeq(es, q, Len(es))) = Len(es) - q + 1
    BY <1>1, <1>2, <1>5
  <1>7. DOMAIN SubSeq(es, q, Len(es)) = 1..(Len(es) - q + 1)
    BY <1>5, <1>6, LenProperties
  <1>8. \A i \in 1..(Len(es) - q + 1) : q + i - 1 = i + q - 1
    BY <1>1, <1>2
  <1> QED
    BY <1>1, <1>5, <1>7, <1>8

\* clean_expired_timestamps keeps a tail of the deque; in a deque that is in
\* order all of that is inside the window.
LEMMA ExpiredForm ==
    ASSUME NEW e \in LogEntries, NEW t \in Nat
    PROVE  /\ e.done => CleanExpired(e, t) = e
           /\ ~ e.done =>
                \E p \in 1..(Len(e.times) + 1) :
                   /\ CleanExpired(e, t) = Deque(SubSeq(e.times, p, Len(e.times)), e.max)
                   /\ (\A i, j \in DOMAIN e.times : i <= j => e.times[i] <= e.times[j]) =>
                         \A i \in DOMAIN e.times : i >= p => e.times[i] + Window >= t
  <1>1. e.done => CleanExpired(e, t) = e
    BY DEF CleanExpired
  <1>2. ASSUME ~ e.done
        PROVE  \E p \in 1..(Len(e.times) + 1) :
                   /\ CleanExpired(e, t) = Deque(SubSeq(e.times, p, Len(e.times)), e.max)
                   /\ (\A i, j \in DOMAIN e.times : i <= j => e.times[i] <= e.times[j]) =>
                         \A i \in DOMAIN e.times : i >= p => e.times[i] + Window >= t
    <2> DEFINE fresh == {i \in DOMAIN e.times : ~(e.times[i] + Window < t)}
    <2>1. e.times \in Seq(Nat) /\ fresh \in SUBSET Nat /\ Len(e.times) \in Nat
      BY EntryForm
    <2>2. CASE fresh = {}
      <3>1. SubSeq(e.times, Len(e.times) + 1, Len(e.times)) = <<>>
        BY <2>1
      <3>2. CleanExpired(e, t) = Deque(SubSeq(e.times, Len(e.times) + 1, Len(e.times)), e.max)
        BY <1>2, <2>2, <3>1 DEF CleanExpired
      <3>3. \A i \in DOMAIN e.times : ~ (i >= Len(e.times) + 1)
        BY <2>1
      <3> QED
        BY <2>1, <3>2, <3>3
    <2>3. CASE fresh # {}
      <3> DEFINE p == CHOOSE i \in fresh : \A j \in fresh : i <= j
      <3>1. p \in fresh /\ \A j \in fresh : p <= j
        BY <2>1, <2>3, LeastOf
      <3>2. CleanExpired(e, t) = Deque(SubSeq(e.times, p, Len(e.times)), e.max)
        BY <1>2, <2>3 DEF CleanExpired
      <3> HIDE DEF p
      <3>3. p \in 1..(Len(e.times) + 1) /\ e.times[p] + Window >= t
        <4>1. p \in DOMAIN e.times /\ ~ (e.times[p] + Window < t)
          BY <3>1
        <4>2. Window \in Nat
          BY AbuseAssumption
        <4>3. p \in 1..Len(e.times)
          BY <2>1, <4>1
        <4>4. e.times[p] \in Nat
          BY <2>1, <4>1
        <4> QED
          BY <2>1, <4>1, <4>2, <4>3, <4>4
      <3> HIDE DEF fresh
      <3>4. ASSUME \A i, j \in DOMAIN e.times : i <= j => e.times[i] <= e.times[j],
                   NEW i \in DOMAIN e.times, i >= p
            PROVE  e.times[i] + Window >= t
        <4>1. p \in DOMAIN e.times
          BY <3>1 DEF fresh
        <4>2. Window \in Nat
          BY AbuseAssumption
        <4>3. e.times[p] <= e.times[i]
          BY <3>4, <4>1
        <4>4. e.times[p] \in Nat /\ e.times[i] \in Nat
          BY <2>1, <3>4, <4>1
        <4> QED
          BY <3>3, <4>2, <4>3, <4>4
      <3> QED
        BY <3>2, <3>3, <3>4
    <2> QED
      BY <2>2, <2>3
  <1> QED
    BY <1>1, <1>2

LEMMA ExpiredEntry ==
    ASSUME NEW e \in LogEntries, NEW t \in Nat
    PROVE  CleanExpired(e, t) \in LogEntries /\ CleanExpired(e, t).done = e.done
  <1>1. CASE e.done
    BY <1>1, ExpiredForm
  <1>2. CASE ~ e.done
    <2>1. PICK p \in 1..(Len(e.times) + 1) : CleanExpired(e, t) = Deque(SubSeq(e.times, p, Len(e.times)), e.max)
      BY <1>2, ExpiredForm
    <2>2. e.times \in Seq(Nat) /\ Len(e.times) \in Nat /\ e.max \in Nat
      BY <1>2, EntryForm
    <2>3. SubSeq(e.times, p, Len(e.times)) \in Seq(Nat)
      BY <2>2
    <2>4. e.done = FALSE
      BY <1>2, EntryForm
    <2>5. Deque(SubSeq(e.times, p, Len(e.times)), e.max) \in LogEntries
      BY <2>2, <2>3, DequeForm
    <2>6. Deque(SubSeq(e.times, p, Len(e.times)), e.max).done = FALSE
      BY DEF Deque
    <2> QED
      BY <2>1, <2>4, <2>5, <2>6
  <1> QED
    BY <1>1, <1>2

\* A clean-up keeps of a logbook what CleanExpired makes of some entries; a report
\* goes only when the address may be reported again.
LEMMA CleanedForm ==
    ASSUME NEW b \in LogBooks, NEW t \in Nat, NEW n
    PROVE  /\ Cleaned(b, t, n) \in LogBooks
           /\ DOMAIN Cleaned(b, t, n) \subseteq DOMAIN b
           /\ \A ip \in DOMAIN Cleaned(b, t, n) : Cleaned(b, t, n)[ip] = CleanExpired(b[ip], t)
           /\ \A ip \in DOMAIN b : b[ip].done =>
                 \/ ip \in DOMAIN Cleaned(b, t, n) /\ Cleaned(b, t, n)[ip] = b[ip]
                 \/ t > b[ip].times[1] + Rereport
  <1> DEFINE keep == {ip \in DOMAIN b : ~CanRereport(b[ip], t, n) /\ CleanExpired(b[ip], t).times # <<>>}
  <1>1. Cleaned(b, t, n) = [ip \in keep |-> CleanExpired(b[ip], t)]
    BY DEF Cleaned
  <1>2. keep \subseteq DOMAIN b /\ DOMAIN b \subseteq Ips /\ \A ip \in DOMAIN b : b[ip] \in LogEntries
    BY BookForm
  <1>3. \A ip \in keep : CleanExpired(b[ip], t) \in LogEntries
    BY <1>2, ExpiredEntry
  <1>4. ASSUME NEW ip \in DOMAIN b, b[ip].done
        PROVE  (ip \in keep /\ CleanExpired(b[ip], t) = b[ip]) \/ t > b[ip].times[1] + Rereport
    <2>1. CleanExpired(b[ip], t) = b[ip] /\ b[ip].times # <<>>
      BY <1>2, <1>4, ExpiredForm, EntryForm
    <2> QED
      BY <1>4, <2>1 DEF CanRereport
  <1>5. [ip \in keep |-> CleanExpired(b[ip], t)] \in [keep -> LogEntries] /\ keep \in SUBSET Ips
    BY <1>2, <1>3
  <1>6. Cleaned(b, t, n) \in LogBooks /\ DOMAIN Cleaned(b, t, n) = keep
    BY <1>1, <1>5 DEF LogBooks
  <1> HIDE DEF keep
  <1> QED
    BY <1>1, <1>2, <1>4, <1>6

\* An address is noted in a logbook.
LEMMA WithForm ==
    ASSUME NEW b \in LogBooks, NEW ip \in Ips, NEW e \in LogEntries
    PROVE  /\ With(b, ip, e) \in LogBooks
           /\ DOMAIN With(b, ip, e) = DOMAIN b \cup {ip}
           /\ With(b, ip, e)[ip] = e
           /\ \A x \in DOMAIN b : x # ip => With(b, ip, e)[x] = b[x]
  <1>1. DOMAIN b \cup {ip} \in SUBSET Ips /\ \A x \in DOMAIN b : b[x] \in LogEntries
    BY BookForm
  <1>2. With(b, ip, e) = [x \in DOMAIN b \cup {ip} |-> IF x = ip THEN e ELSE b[x]]
    BY DEF With
  <1>3. With(b, ip, e) \in [DOMAIN b \cup {ip} -> LogEntries]
    BY <1>1, <1>2
  <1> QED
    BY <1>1, <1>2, <1>3 DEF LogBooks

\* A dump of the logbook and a sleep is made, for a thread to write.
DumpMade(s) ==
    /\ newest' = [exists |-> TRUE, book |-> book', asleep |-> s, tolerated |-> tolerance]
    /\ dumps' = dumps \cup {newest'}

\* What becomes of logbook and dumps in cleanup_and_dump_state.
LEMMA DumpForm ==
    ASSUME AbuseTypes, NEW b \in LogBooks, NEW s \in Sleeps, NEW mode \in {0, 1},
           NEW rs \in SUBSET [at : Nat, held : BOOLEAN], CleanupAndDump(b, s, mode, rs)
    PROVE  /\ recalls' \subseteq [at : Nat, held : BOOLEAN]
           /\ \/ mode = 1 /\ recalled /\ ~ Held /\ book' = b /\ recalls' = rs
                 /\ dumps' = dumps /\ newest' = newest
              \/ /\ book' = Cleaned(b, IF s.on THEN s.until ELSE now, tolerance)
                 /\ DumpMade(s)
           /\ mode = 0 /\ ~ s.on => \E r \in recalls' : r.held
  <1>0. now \in Nat /\ now + CleanEvery \in Nat
    <2>1. now \in Nat /\ CleanEvery \in Nat
      BY AbuseAssumption DEF AbuseTypes
    <2> QED
      BY <2>1
  <1>1. CASE mode = 1 /\ recalled /\ ~ Held
    BY <1>1 DEF CleanupAndDump
  <1>2. CASE ~ (mode = 1 /\ recalled /\ ~ Held) /\ mode = 0 /\ ~ s.on
    <2>1. /\ book' = Cleaned(b, IF s.on THEN s.until ELSE now, tolerance)
          /\ newest' = Dump(book', s) /\ dumps' = dumps \cup {newest'}
          /\ recalls' = Recall(rs)
      BY <1>2 DEF CleanupAndDump
    <2>2. recalls' = {[r EXCEPT !.held = FALSE] : r \in rs} \cup {[at |-> now + CleanEvery, held |-> TRUE]}
      BY <2>1 DEF Recall, LetGo
    <2>3. \A r \in rs : [r EXCEPT !.held = FALSE] \in [at : Nat, held : BOOLEAN]
      OBVIOUS
    <2>4. [at |-> now + CleanEvery, held |-> TRUE] \in [at : Nat, held : BOOLEAN]
      BY <1>0
    <2>5. recalls' \subseteq [at : Nat, held : BOOLEAN]
      BY <2>2, <2>3, <2>4
    <2>6. \E r \in recalls' : r.held
      <3>1. [at |-> now + CleanEvery, held |-> TRUE] \in recalls'
        BY <2>2
      <3> QED
        BY <3>1
    <2> QED
      BY <1>2, <2>1, <2>5, <2>6 DEF Dump, DumpMade
  <1>3. CASE ~ (mode = 1 /\ recalled /\ ~ Held) /\ ~ (mode = 0 /\ ~ s.on)
    <2>1. /\ book' = Cleaned(b, IF s.on THEN s.until ELSE now, tolerance)
          /\ newest' = Dump(book', s) /\ dumps' = dumps \cup {newest'}
          /\ recalls' = {r \in rs : ~(mode = 1 /\ r.held)}
      BY <1>3 DEF CleanupAndDump
    <2> QED
      BY <1>3, <2>1 DEF Dump, DumpMade
  <1> QED
    BY <1>1, <1>2, <1>3

-----------------------------------------------------------------------------
\* Deques and the attempts they come from.
LEMMA EarnedTail ==
    ASSUME NEW hits \in Seq(Nat), NEW ts \in Seq(Nat), EarnedBy(hits, ts), NEW p \in 1..(Len(ts) + 1)
    PROVE  EarnedBy(hits, SubSeq(ts, p, Len(ts)))
  <1> DEFINE us == SubSeq(ts, p, Len(ts))
  <1>1. PICK m \in [DOMAIN ts -> DOMAIN hits] :
           /\ \A i, j \in DOMAIN ts : i < j => m[i] < m[j]
           /\ \A i \in DOMAIN ts : hits[m[i]] = ts[i]
    BY DEF EarnedBy
  <1>2. /\ DOMAIN us = 1..(Len(ts) - p + 1) /\ Len(ts) \in Nat
        /\ \A i \in DOMAIN us : us[i] = ts[i + p - 1] /\ i + p - 1 \in DOMAIN ts
    <2>1. Len(ts) \in Nat /\ DOMAIN ts = 1..Len(ts) /\ p \in Nat /\ p >= 1
      OBVIOUS
    <2>2. DOMAIN us = 1..(Len(ts) - p + 1)
      BY <2>1
    <2>3. \A i \in 1..(Len(ts) - p + 1) : us[i] = ts[i + p - 1]
      BY <2>1
    <2>4. \A i \in 1..(Len(ts) - p + 1) : i + p - 1 \in 1..Len(ts)
      BY <2>1
    <2> QED
      BY <2>1, <2>2, <2>3, <2>4
  <1> HIDE DEF us
  <1> DEFINE k == [i \in DOMAIN us |-> m[i + p - 1]]
  <1>3. k \in [DOMAIN us -> DOMAIN hits]
    BY <1>2
  <1>4. ASSUME NEW i \in DOMAIN us, NEW j \in DOMAIN us, i < j
        PROVE  k[i] < k[j]
    <2>1. i + p - 1 < j + p - 1
      BY <1>2, <1>4
    <2>2. m[i + p - 1] < m[j + p - 1]
      BY <1>1, <1>2, <2>1
    <2> QED
      BY <2>2
  <1>5. ASSUME NEW i \in DOMAIN us
        PROVE  hits[k[i]] = us[i]
    BY <1>1, <1>2
  <1> HIDE DEF k
  <1> QED
    BY <1>3, <1>4, <1>5 DEF EarnedBy, us

LEMMA EarnedGrows ==
    ASSUME NEW hits \in Seq(Nat), NEW ts \in Seq(Nat), EarnedBy(hits, ts), NEW x \in Nat
    PROVE  /\ EarnedBy(Append(hits, x), ts)
           /\ EarnedBy(Append(hits, x), Append(ts, x))
           /\ EarnedBy(Append(hits, x), <<x>>)
  <1> DEFINE bs == Append(hits, x)
             us == Append(ts, x)
  <1>1. PICK m \in [DOMAIN ts -> DOMAIN hits] :
           /\ \A i, j \in DOMAIN ts : i < j => m[i] < m[j]
           /\ \A i \in DOMAIN ts : hits[m[i]] = ts[i]
    BY DEF EarnedBy
  <1>2. /\ Len(hits) \in Nat /\ DOMAIN hits = 1..Len(hits) /\ DOMAIN bs = 1..(Len(hits) + 1)
        /\ bs[Len(hits) + 1] = x /\ \A i \in DOMAIN hits : bs[i] = hits[i]
    OBVIOUS
  <1>3. /\ Len(ts) \in Nat /\ DOMAIN ts = 1..Len(ts) /\ DOMAIN us = 1..(Len(ts) + 1)
        /\ us[Len(ts) + 1] = x /\ \A i \in DOMAIN ts : us[i] = ts[i]
    OBVIOUS
  <1> HIDE DEF bs, us
  <1>4. EarnedBy(bs, ts)
    <2>1. m \in [DOMAIN ts -> DOMAIN bs] /\ \A i \in DOMAIN ts : bs[m[i]] = ts[i]
      BY <1>1, <1>2
    <2> QED
      BY <1>1, <2>1 DEF EarnedBy
  <1>5. EarnedBy(bs, us)
    <2> DEFINE k == [i \in DOMAIN us |-> IF i \in DOMAIN ts THEN m[i] ELSE Len(hits) + 1]
    <2>1. k \in [DOMAIN us -> DOMAIN bs]
      BY <1>2, <1>3
    <2>2. ASSUME NEW i \in DOMAIN us, NEW j \in DOMAIN us, i < j
          PROVE  k[i] < k[j]
      <3>1. i \in DOMAIN ts /\ k[i] = m[i] /\ m[i] \in 1..Len(hits)
        BY <1>2, <1>3, <2>2
      <3>2. CASE j \in DOMAIN ts
        BY <1>1, <2>2, <3>1, <3>2
      <3>3. CASE j \notin DOMAIN ts
        BY <1>2, <3>1, <3>3
      <3> QED
        BY <3>2, <3>3
    <2>3. ASSUME NEW i \in DOMAIN us
          PROVE  bs[k[i]] = us[i]
      <3>1. CASE i \in DOMAIN ts
        BY <1>1, <1>2, <1>3, <3>1
      <3>2. CASE i \notin DOMAIN ts
        BY <1>2, <1>3, <3>2
      <3> QED
        BY <3>1, <3>2
    <2> HIDE DEF k
    <2> QED
      BY <2>1, <2>2, <2>3 DEF EarnedBy
  <1>6. EarnedBy(bs, <<x>>)
    <2> DEFINE k == [i \in {1} |-> Len(hits) + 1]
    <2>1. DOMAIN <<x>> = {1} /\ <<x>>[1] = x
      OBVIOUS
    <2>2. k \in [DOMAIN <<x>> -> DOMAIN bs] /\ \A i \in DOMAIN <<x>> : bs[k[i]] = <<x>>[i]
      BY <1>2, <2>1
    <2>3. \A i, j \in DOMAIN <<x>> : i < j => k[i] < k[j]
      BY <2>1
    <2> HIDE DEF k
    <2> QED
      BY <2>2, <2>3 DEF EarnedBy
  <1> QED
    BY <1>4, <1>5, <1>6 DEF bs, us

\* The places of a sequence are numbers.
LEMMA Places ==
    ASSUME NEW s \in Seq(Nat), NEW i \in DOMAIN s
    PROVE  i \in Nat
  OBVIOUS

\* A deque that comes from ordered attempts of the past is ordered and past.
LEMMA EarnedOrder ==
    ASSUME NEW hits \in Seq(Nat), NEW ts \in Seq(Nat), EarnedBy(hits, ts), NEW t \in Nat,
           \A i, j \in DOMAIN hits : hits[i] <= t /\ (i <= j => hits[i] <= hits[j])
    PROVE  \A i, j \in DOMAIN ts : ts[i] <= t /\ (i <= j => ts[i] <= ts[j])
  <1>1. PICK m \in [DOMAIN ts -> DOMAIN hits] :
           /\ \A i, j \in DOMAIN ts : i < j => m[i] < m[j]
           /\ \A i \in DOMAIN ts : hits[m[i]] = ts[i]
    BY DEF EarnedBy
  <1> SUFFICES ASSUME NEW i \in DOMAIN ts, NEW j \in DOMAIN ts
               PROVE  ts[i] <= t /\ (i <= j => ts[i] <= ts[j])
    OBVIOUS
  <1>2. m[i] \in DOMAIN hits /\ m[j] \in DOMAIN hits
    BY <1>1
  <1>3. i \in Nat /\ j \in Nat
    BY Places, Zenon
  <1>4. m[i] \in Nat /\ m[j] \in Nat
    BY <1>2, Places, Zenon
  <1>5. i <= j => m[i] <= m[j]
    <2>1. CASE i = j
      BY <1>4, <2>1
    <2>2. CASE i # j
      <3>1. i < j => m[i] < m[j]
        BY <1>1
      <3>2. i <= j => i < j
        BY <1>3, <2>2
      <3> QED
        BY <1>4, <3>1, <3>2
    <2> QED
      BY <2>1, <2>2
  <1>6. hits[m[i]] = ts[i] /\ hits[m[j]] = ts[j]
    BY <1>1
  <1>7. hits[m[i]] <= t /\ (m[i] <= m[j] => hits[m[i]] <= hits[m[j]])
    BY <1>2
  <1> QED
    BY <1>5, <1>6, <1>7

\* As many attempts are inside the window as a deque has that has no older time.
LEMMA EarnedCount ==
    ASSUME NEW hits \in Seq(Nat), NEW ts \in Seq(Nat), EarnedBy(hits, ts), NEW t \in Nat,
           \A i \in DOMAIN ts : ts[i] <= t /\ t <= ts[i] + Window
    PROVE  /\ IsFiniteSet({j \in DOMAIN hits : hits[j] <= t /\ t <= hits[j] + Window})
           /\ Cardinality({j \in DOMAIN hits : hits[j] <= t /\ t <= hits[j] + Window}) >= Len(ts)
  <1> DEFINE W == {j \in DOMAIN hits : hits[j] <= t /\ t <= hits[j] + Window}
  <1>1. PICK m \in [DOMAIN ts -> DOMAIN hits] :
           /\ \A i, j \in DOMAIN ts : i < j => m[i] < m[j]
           /\ \A i \in DOMAIN ts : hits[m[i]] = ts[i]
    BY DEF EarnedBy
  <1>2. DOMAIN hits = 1..Len(hits) /\ DOMAIN ts = 1..Len(ts) /\ Len(hits) \in Nat /\ Len(ts) \in Nat
    OBVIOUS
  <1>3. IsFiniteSet(W)
    <2>1. IsFiniteSet(1..Len(hits)) /\ W \subseteq 1..Len(hits)
      BY <1>2, FS_Interval
    <2> QED
      BY <2>1, FS_Subset
  <1>4. IsFiniteSet(1..Len(ts)) /\ Cardinality(1..Len(ts)) = Len(ts)
    <2>1. 1 \in Int /\ Len(ts) \in Int
      BY <1>2
    <2>2. /\ IsFiniteSet(1..Len(ts))
          /\ Cardinality(1..Len(ts)) = IF 1 > Len(ts) THEN 0 ELSE Len(ts) - 1 + 1
      BY <2>1, FS_Interval
    <2> QED
      BY <1>2, <2>2
  <1>5. m \in [DOMAIN ts -> W]
    BY <1>1
  <1> HIDE DEF W
  <1>6. m \in Injection(1..Len(ts), W)
    <2>1. \A i, j \in DOMAIN ts : m[i] = m[j] => i = j
      <3> SUFFICES ASSUME NEW i \in DOMAIN ts, NEW j \in DOMAIN ts, m[i] = m[j], i # j
                   PROVE  FALSE
        OBVIOUS
      <3>1. i < j \/ j < i
        BY <1>2
      <3>2. m[i] \in Nat /\ m[j] \in Nat
        BY <1>1, <1>2
      <3> QED
        BY <1>1, <3>1, <3>2
    <2> QED
      BY <1>2, <1>5, <2>1 DEF Injection, IsInjective
  <1>7. Cardinality(1..Len(ts)) <= Cardinality(W)
    BY <1>3, <1>6, FS_Injection DEF ExistsInjection
  <1> QED
    BY <1>3, <1>4, <1>7 DEF W

LEMMA LastForm ==
    ASSUME NEW ts \in Seq(Nat), NEW n \in Nat
    PROVE  \E p \in 1..(Len(ts) + 1) : Last(ts, n) = SubSeq(ts, p, Len(ts))
  <1>1. CASE Len(ts) <= n
    <2>1. SubSeq(ts, 1, Len(ts)) = ts
      OBVIOUS
    <2> QED
      BY <1>1, <2>1 DEF Last
  <1>2. CASE ~ (Len(ts) <= n)
    <2>1. Len(ts) - n + 1 \in 1..(Len(ts) + 1)
      BY <1>2
    <2> QED
      BY <1>2, <2>1 DEF Last
  <1> QED
    BY <1>1, <1>2

-----------------------------------------------------------------------------
\* The deque of an address with one more attempt.
Longer(ip) == CleanExpired(Deque(Last(Append(book[ip].times, now), book[ip].max), book[ip].max), now)

\* The deque that write() leaves: of this attempt only, or one more in the old one.
Notes(ip, e) ==
    \/ e = Deque(<<now>>, tolerance)
    \/ ip \in DOMAIN book /\ ~ book[ip].done /\ e = Deque(Longer(ip).times, book[ip].max)

\* What write() does of a login event: nothing, or a report, or a note of the
\* attempt; the last two only awake, and of a reported address in its time.
LEMMA AttemptForm ==
    ASSUME AbuseTypes, NEW ip \in Ips, Attempt(ip)
    PROVE  /\ up /\ attempts' = [attempts EXCEPT ![ip] = Append(@, now)]
           /\ UNCHANGED <<up, now, tolerance, asleep, recalls, recalled, wakeups, waiting, dumps, newest, disk,
                          refusals, resent, lost>>
           /\ \/ UNCHANGED <<book, flight, reports>>
              \/ /\ ~ asleep.on
                 /\ ip \in DOMAIN book /\ book[ip].done => now > book[ip].times[1] + Rereport
                 /\ \/ /\ Report(ip, now)
                       /\ \/ tolerance <= 1
                          \/ ip \in DOMAIN book /\ ~ book[ip].done /\ Len(Longer(ip).times) >= tolerance
                    \/ \E e : /\ Notes(ip, e) /\ book' = With(book, ip, e)
                              /\ UNCHANGED <<flight, reports>>
  <1>1. CASE asleep.on /\ Ignore
    BY <1>1 DEF Attempt, Ignore, fileVars
  <1>2. CASE ~ asleep.on /\ tolerance <= 1 /\ IntolerantObserver(ip)
    <2>1. CASE ip \in DOMAIN book /\ ~ CanRereport(book[ip], now, tolerance)
      BY <1>2, <2>1 DEF Attempt, IntolerantObserver, Ignore, fileVars
    <2>2. CASE ~ (ip \in DOMAIN book /\ ~ CanRereport(book[ip], now, tolerance))
      <3>1. ip \in DOMAIN book /\ book[ip].done => now > book[ip].times[1] + Rereport
        BY <2>2 DEF CanRereport
      <3>2. Report(ip, now)
        BY <1>2, <2>2 DEF IntolerantObserver
      <3> QED
        BY <1>2, <3>1, <3>2 DEF Attempt, fileVars
    <2> QED
      BY <2>1, <2>2
  <1>3. CASE ~ asleep.on /\ tolerance > 1 /\ TolerantObserver(ip)
    <2>1. CASE ip \notin DOMAIN book
      <3>1. Note(ip, <<now>>, tolerance)
        BY <1>3, <2>1 DEF TolerantObserver
      <3> QED
        BY <1>3, <2>1, <3>1 DEF Attempt, fileVars, Note, Notes
    <2>2. CASE ip \in DOMAIN book /\ ~ book[ip].done
      <3>1. \/ Report(ip, now) /\ Len(Longer(ip).times) >= tolerance
            \/ Note(ip, Longer(ip).times, book[ip].max)
        BY <1>3, <2>2 DEF TolerantObserver, Longer
      <3> QED
        BY <1>3, <2>2, <3>1 DEF Attempt, fileVars, Note, Notes
    <2>3. CASE ip \in DOMAIN book /\ book[ip].done
      <3>1. \/ CanRereport(book[ip], now, tolerance) /\ Note(ip, <<now>>, tolerance)
            \/ Ignore
        BY <1>3, <2>3 DEF TolerantObserver
      <3>2. CanRereport(book[ip], now, tolerance) => now > book[ip].times[1] + Rereport
        BY <2>3 DEF CanRereport
      <3> QED
        BY <1>3, <2>3, <3>1, <3>2 DEF Attempt, Ignore, fileVars, Note, Notes
    <2> QED
      BY <2>1, <2>2, <2>3
  <1> QED
    BY <1>1, <1>2, <1>3 DEF Attempt

LEMMA AppendedInOrder ==
    ASSUME NEW old \in Seq(Nat), NEW t \in Nat, NEW hits, hits = Append(old, t),
           \A k, l \in DOMAIN old : old[k] <= t /\ (k <= l => old[k] <= old[l]),
           NEW i \in DOMAIN hits, NEW j \in DOMAIN hits
    PROVE  hits[i] <= t /\ (i <= j => hits[i] <= hits[j])
  <1> DEFINE n == Len(old)
  <1>1. /\ n \in Nat /\ DOMAIN hits = 1..(n + 1) /\ hits[n + 1] = t
        /\ \A k \in 1..n : hits[k] = old[k] /\ k \in DOMAIN old
    OBVIOUS
  <1> HIDE DEF n
  <1>2. \A k, l \in 1..n : hits[k] <= t /\ (k <= l => hits[k] <= hits[l])
    BY <1>1
  <1>3. CASE i \in 1..n /\ j \in 1..n
    BY <1>2, <1>3
  <1>4. CASE i \in 1..n /\ j = n + 1
    BY <1>1, <1>2, <1>4
  <1>5. CASE i = n + 1
    <2>1. i <= j => i = j
      BY <1>1, <1>5
    <2> QED
      BY <1>1, <1>5, <2>1
  <1> QED
    BY <1>1, <1>3, <1>4, <1>5

\* The deque with one more attempt is earned by the attempts, and inside the window.
LEMMA LongerForm ==
    ASSUME AbuseTypes, AttemptsInOrder, BooksAreEarned, NEW ip \in DOMAIN book, ~ book[ip].done
    PROVE  /\ Longer(ip).times \in Seq(Nat)
           /\ EarnedBy(Append(attempts[ip], now), Longer(ip).times)
           /\ \A i \in DOMAIN Longer(ip).times :
                 Longer(ip).times[i] <= now /\ now <= Longer(ip).times[i] + Window
  <1> DEFINE old == book[ip].times
             all == Append(old, now)
             m == book[ip].max
             e == Deque(Last(all, m), m)
             hits == Append(attempts[ip], now)
  <1>1. ip \in Ips /\ old \in Seq(Nat) /\ EarnedBy(attempts[ip], old)
    BY BookForm, EntryForm DEF AbuseTypes, BooksAreEarned, BookIsEarned
  <1>2. now \in Nat /\ attempts[ip] \in Seq(Nat) /\ m \in Nat
    <2>1. book[ip] \in LogEntries
      BY BookForm DEF AbuseTypes
    <2> QED
      BY <1>1, <2>1, EntryForm DEF AbuseTypes
  <1> HIDE DEF old, m
  <1>3. all \in Seq(Nat) /\ hits \in Seq(Nat) /\ EarnedBy(hits, all)
    <2>1. EarnedBy(Append(attempts[ip], now), Append(old, now))
      BY <1>1, <1>2, EarnedGrows
    <2> QED
      BY <1>1, <1>2, <2>1
  <1>4. PICK p \in 1..(Len(all) + 1) : Last(all, m) = SubSeq(all, p, Len(all))
    BY <1>2, <1>3, LastForm
  <1> HIDE DEF all, hits
  <1>5. Last(all, m) \in Seq(Nat) /\ EarnedBy(hits, Last(all, m))
    <2>1. SubSeq(all, p, Len(all)) \in Seq(Nat)
      BY <1>3
    <2>2. EarnedBy(hits, SubSeq(all, p, Len(all)))
      BY <1>3, EarnedTail
    <2> QED
      BY <1>4, <2>1, <2>2
  <1>6. \A i, j \in DOMAIN hits : hits[i] <= now /\ (i <= j => hits[i] <= hits[j])
    <2>1. \A k, l \in DOMAIN attempts[ip] :
             attempts[ip][k] <= now /\ (k <= l => attempts[ip][k] <= attempts[ip][l])
      BY <1>1 DEF AttemptsInOrder
    <2>2. hits = Append(attempts[ip], now)
      BY DEF hits
    <2>3. now \in Nat /\ attempts[ip] \in Seq(Nat)
      BY <1>2
    <2> SUFFICES ASSUME NEW i \in DOMAIN hits, NEW j \in DOMAIN hits
                 PROVE  hits[i] <= now /\ (i <= j => hits[i] <= hits[j])
      OBVIOUS
    <2> QED
      BY <2>1, <2>2, <2>3, AppendedInOrder
  <1>7. e \in LogEntries /\ ~ e.done /\ e.times = Last(all, m)
    BY <1>2, <1>5, DequeForm
  <1>8. \A i, j \in DOMAIN e.times : e.times[i] <= now /\ (i <= j => e.times[i] <= e.times[j])
    BY <1>2, <1>3, <1>5, <1>6, <1>7, EarnedOrder
  <1> HIDE DEF e
  <1>9. PICK q \in 1..(Len(e.times) + 1) :
           /\ CleanExpired(e, now) = Deque(SubSeq(e.times, q, Len(e.times)), e.max)
           /\ \A i \in DOMAIN e.times : i >= q => e.times[i] + Window >= now
    BY <1>2, <1>7, <1>8, ExpiredForm
  <1>10. Longer(ip) = CleanExpired(e, now)
    BY DEF Longer, e, all, old, m
  <1>11. Longer(ip).times = SubSeq(e.times, q, Len(e.times)) /\ e.times \in Seq(Nat)
    BY <1>5, <1>7, <1>9, <1>10 DEF Deque
  <1>12. /\ SubSeq(e.times, q, Len(e.times)) \in Seq(Nat)
         /\ \A i \in DOMAIN SubSeq(e.times, q, Len(e.times)) :
               /\ i + q - 1 \in DOMAIN e.times /\ i + q - 1 >= q
               /\ SubSeq(e.times, q, Len(e.times))[i] = e.times[i + q - 1]
    <2> DEFINE es == e.times
    <2>1. es \in Seq(Nat) /\ q \in 1..(Len(es) + 1)
      BY <1>11
    <2> HIDE DEF es
    <2>2. /\ SubSeq(es, q, Len(es)) \in Seq(Nat)
          /\ DOMAIN SubSeq(es, q, Len(es)) = 1..(Len(es) - q + 1) /\ Len(es) \in Nat
          /\ DOMAIN es = 1..Len(es)
          /\ \A i \in 1..(Len(es) - q + 1) : SubSeq(es, q, Len(es))[i] = es[i + q - 1]
      BY <2>1, RestOfTimes
    <2>3. ASSUME NEW i \in 1..(Len(es) - q + 1)
          PROVE  i + q - 1 \in 1..Len(es) /\ i + q - 1 >= q
      <3>1. Len(es) \in Nat /\ q \in Nat /\ q >= 1 /\ q <= Len(es) + 1
        BY <2>1, <2>2
      <3> QED
        BY <2>3, <3>1
    <2> QED
      BY <2>2, <2>3 DEF es
  <1>13. EarnedBy(hits, SubSeq(e.times, q, Len(e.times)))
    BY <1>3, <1>5, <1>7, <1>11, EarnedTail
  <1>14. ASSUME NEW i \in DOMAIN Longer(ip).times
         PROVE  Longer(ip).times[i] <= now /\ now <= Longer(ip).times[i] + Window
    <2> DEFINE k == i + q - 1
               es == e.times
    <2>1. Longer(ip).times[i] = es[k] /\ k \in DOMAIN es /\ k >= q
      BY <1>11, <1>12
    <2>2. es[k] <= now /\ es[k] + Window >= now
      BY <1>8, <1>9, <2>1
    <2>3. es \in Seq(Nat)
      BY <1>11
    <2>4. Window \in Nat
      BY AbuseAssumption
    <2> HIDE DEF k, es
    <2>5. es[k] \in Nat
      BY <2>1, <2>3
    <2> QED
      BY <1>2, <2>1, <2>2, <2>4, <2>5
  <1> QED
    BY <1>11, <1>12, <1>13, <1>14 DEF hits

-----------------------------------------------------------------------------
(***************************************************************************)
(* The steps.                                                              *)
(***************************************************************************)

\* A dump tells of a logbook and a sleep.
LEMMA FileForm ==
    ASSUME NEW d \in DumpFiles
    PROVE  d.book \in LogBooks /\ d.asleep \in Sleeps /\ d.exists \in BOOLEAN /\ d.tolerated \in Nat
  BY DEF DumpFiles

\* A refusal: asleep, with a wake-up and, unless a clean-up was cancelled before,
\* a dump.
LEMMA RefusalForm ==
    ASSUME AbuseTypes, NEW i \in DOMAIN flight, NEW retry \in RetryAfter, RateLimited(i, retry)
    PROVE  /\ up /\ now + retry \in Nat /\ now + retry >= now
           /\ asleep' = [on |-> TRUE, until |-> now + retry]
           /\ wakeups' = wakeups \cup {now + retry} /\ recalls' \subseteq [at : Nat, held : BOOLEAN]
           /\ flight' = Dropped(flight, i)
           /\ refusals' = Append(refusals, [until |-> now + retry, again |-> asleep.on])
           /\ UNCHANGED <<up, now, tolerance, waiting, disk, attempts, reports, resent, lost>>
           /\ \/ recalled /\ ~ Held /\ book' = book /\ dumps' = dumps /\ newest' = newest
              \/ /\ book' = Cleaned(book, now + retry, tolerance)
                 /\ DumpMade(asleep')
  <1>1. now + retry \in Nat /\ now + retry >= now
    <2>1. now \in Nat /\ retry \in Nat
      BY AbuseAssumption DEF AbuseTypes
    <2> QED
      BY <2>1
  <1>2. asleep' = [on |-> TRUE, until |-> now + retry] /\ CleanupAndDump(book, asleep', 1, recalls)
    BY DEF RateLimited
  <1>3. asleep' \in Sleeps /\ asleep'.on /\ asleep'.until = now + retry
    BY <1>1, <1>2 DEF Sleeps
  <1>4. book \in LogBooks /\ recalls \in SUBSET [at : Nat, held : BOOLEAN]
    BY DEF AbuseTypes
  <1> DEFINE s == asleep'
  <1>5. s \in Sleeps /\ CleanupAndDump(book, s, 1, recalls)
    BY <1>2, <1>3
  <1> HIDE DEF s
  <1>6. /\ recalls' \subseteq [at : Nat, held : BOOLEAN]
        /\ \/ recalled /\ ~ Held /\ book' = book /\ dumps' = dumps /\ newest' = newest
           \/ /\ book' = Cleaned(book, IF s.on THEN s.until ELSE now, tolerance)
              /\ DumpMade(s)
    BY <1>4, <1>5, DumpForm
  <1> QED
    BY <1>1, <1>2, <1>3, <1>6 DEF RateLimited, s

LEMMA CleanupDueForm ==
    ASSUME AbuseTypes, CleanupDue
    PROVE  /\ up /\ recalls' \subseteq [at : Nat, held : BOOLEAN]
           /\ ~ asleep.on => \E r \in recalls' : r.held
           /\ UNCHANGED <<up, now, tolerance, asleep, wakeups, flight, waiting, disk, attempts, reports,
                          refusals, resent, lost>>
           /\ book' = Cleaned(book, Horizon, tolerance)
           /\ DumpMade(asleep)
  <1>1. PICK r \in recalls : CleanupAndDump(book, asleep, 0, recalls \ {r})
    BY DEF CleanupDue
  <1>2. book \in LogBooks /\ recalls \ {r} \in SUBSET [at : Nat, held : BOOLEAN] /\ asleep \in Sleeps
    BY DEF AbuseTypes
  <1>3. /\ recalls' \subseteq [at : Nat, held : BOOLEAN]
        /\ book' = Cleaned(book, IF asleep.on THEN asleep.until ELSE now, tolerance)
        /\ DumpMade(asleep)
        /\ ~ asleep.on => \E q \in recalls' : q.held
    BY <1>1, <1>2, DumpForm
  <1> QED
    BY <1>3 DEF CleanupDue, Horizon

LEMMA StopForm ==
    ASSUME AbuseTypes, AbuseStop
    PROVE  /\ up /\ ~ up' /\ recalls' \subseteq [at : Nat, held : BOOLEAN]
           /\ flight' = <<>> /\ waiting' = <<>> /\ wakeups' = {}
           /\ UNCHANGED <<now, tolerance, asleep, disk, attempts, reports, refusals, resent, lost>>
           /\ \/ recalled /\ ~ Held /\ book' = book /\ dumps' = dumps /\ newest' = newest
              \/ /\ book' = Cleaned(book, Horizon, tolerance)
                 /\ DumpMade(asleep)
  <1>1. CleanupAndDump(book, asleep, 1, recalls)
    BY DEF AbuseStop
  <1>2. book \in LogBooks /\ recalls \in SUBSET [at : Nat, held : BOOLEAN] /\ asleep \in Sleeps
    BY DEF AbuseTypes
  <1>3. /\ recalls' \subseteq [at : Nat, held : BOOLEAN]
        /\ \/ recalled /\ ~ Held /\ book' = book /\ dumps' = dumps /\ newest' = newest
           \/ /\ book' = Cleaned(book, IF asleep.on THEN asleep.until ELSE now, tolerance)
              /\ DumpMade(asleep)
    BY <1>1, <1>2, DumpForm
  <1> QED
    BY <1>3 DEF AbuseStop, Horizon

\* A start takes from the file what is not expired, reports as they are.
LEMMA StartForm ==
    ASSUME AbuseTypes, NEW n \in Tolerances, AbuseStart(n)
    PROVE  /\ ~ up /\ up' /\ tolerance' = n /\ recalls' \subseteq [at : Nat, held : BOOLEAN]
           /\ \/ /\ disk.asleep.on /\ disk.asleep.until > now
                 /\ asleep' = disk.asleep /\ wakeups' = {disk.asleep.until}
              \/ /\ ~ (disk.asleep.on /\ disk.asleep.until > now)
                 /\ asleep' = Awake /\ wakeups' = {} /\ \E r \in recalls' : r.held
           /\ flight' = <<>> /\ waiting' = <<>> /\ UNCHANGED <<now, disk, attempts, reports, refusals, resent>>
           /\ lost' = (lost \/ disk # newest)
           /\ LET c == Cleaned(disk.book, WakesAt(disk.asleep), n)
              IN  /\ newest' = [exists |-> TRUE, book |-> c, asleep |-> asleep', tolerated |-> n]
                  /\ dumps' = {newest'}
                  /\ DOMAIN book' = DOMAIN c
                  /\ \A ip \in DOMAIN c : \/ book'[ip] = c[ip]
                                          \/ ~ c[ip].done /\ book'[ip] = Deque(Last(c[ip].times, n), n)
                  /\ book' = [ip \in DOMAIN c |-> book'[ip]]
  <1> DEFINE c == Cleaned(disk.book, WakesAt(disk.asleep), n)
  <1>1. disk.asleep \in Sleeps /\ now \in Nat /\ now + CleanEvery \in Nat
    <2>1. disk.asleep \in Sleeps /\ now \in Nat
      BY FileForm DEF AbuseTypes
    <2>2. CleanEvery \in Nat
      BY AbuseAssumption
    <2> QED
      BY <2>1, <2>2
  <1>2. Slept = IF disk.asleep.on /\ disk.asleep.until > now THEN disk.asleep ELSE Awake
    BY DEF Slept, AbuseTypes
  <1>3. (IF Slept.on THEN Slept.until ELSE now) = WakesAt(disk.asleep)
    BY <1>2 DEF WakesAt, Awake
  <1>4. Cleaned(disk.book, IF Slept.on THEN Slept.until ELSE now, n) = c
    BY <1>3
  <1>5. /\ ~ up /\ up' /\ tolerance' = n /\ asleep' = Slept
        /\ wakeups' = (IF Slept.on THEN {Slept.until} ELSE {})
        /\ recalls' = (IF Slept.on THEN {} ELSE {[at |-> now + CleanEvery, held |-> TRUE]})
        /\ newest' = [exists |-> TRUE, book |-> c, asleep |-> Slept, tolerated |-> n]
        /\ dumps' = {newest'} /\ lost' = (lost \/ disk # newest)
        /\ flight' = <<>> /\ waiting' = <<>> /\ UNCHANGED <<now, disk, attempts, reports, refusals, resent>>
        /\ book' = [ip \in DOMAIN c |-> IF c[ip].done \/ disk.tolerated = n THEN c[ip]
                                        ELSE Deque(Last(c[ip].times, n), n)]
    BY <1>4 DEF AbuseStart
  <1> HIDE DEF c
  <1>6. /\ DOMAIN book' = DOMAIN c
        /\ \A ip \in DOMAIN c : \/ book'[ip] = c[ip]
                                \/ ~ c[ip].done /\ book'[ip] = Deque(Last(c[ip].times, n), n)
        /\ book' = [ip \in DOMAIN c |-> book'[ip]]
    BY <1>5
  <1>7. [at |-> now + CleanEvery, held |-> TRUE] \in [at : Nat, held : BOOLEAN]
    BY <1>1
  <1>8. CASE disk.asleep.on /\ disk.asleep.until > now
    <2>1. Slept = disk.asleep /\ Slept.on
      BY <1>2, <1>8
    <2>2. recalls' = {} /\ wakeups' = {disk.asleep.until} /\ asleep' = disk.asleep
      BY <1>5, <2>1
    <2> QED
      BY <1>5, <1>6, <1>8, <2>2 DEF c
  <1>9. CASE ~ (disk.asleep.on /\ disk.asleep.until > now)
    <2>1. Slept = Awake /\ ~ Slept.on
      BY <1>2, <1>9 DEF Awake
    <2>2. recalls' = {[at |-> now + CleanEvery, held |-> TRUE]} /\ wakeups' = {} /\ asleep' = Awake
      BY <1>5, <2>1
    <2>3. \E r \in recalls' : r.held
      BY <2>2
    <2> QED
      BY <1>5, <1>6, <1>7, <1>9, <2>2, <2>3 DEF c
  <1> QED
    BY <1>8, <1>9

\* A clean-up of a running plugin adds a dump of what is left of the logbook.
LEMMA Dumped ==
    ASSUME AbuseTypes, NEW t \in Nat, NEW s \in Sleeps, book' = Cleaned(book, t, tolerance), DumpMade(s)
    PROVE  /\ book' \in LogBooks /\ newest' \in DumpFiles /\ dumps' \subseteq DumpFiles
           /\ newest'.book = book' /\ newest'.asleep = s
           /\ \A d \in dumps' : d.exists /\ (d \in dumps \/ d.book = book')
  <1>1. book' \in LogBooks /\ tolerance \in Nat
    BY CleanedForm, AbuseAssumption DEF AbuseTypes
  <1> DEFINE d == [exists |-> TRUE, book |-> book', asleep |-> s, tolerated |-> tolerance]
  <1>2. d \in DumpFiles /\ d.exists /\ d.book = book' /\ d.asleep = s
    BY <1>1 DEF DumpFiles
  <1>3. newest' = d /\ dumps' = dumps \cup {d}
    BY DEF DumpMade
  <1> HIDE DEF d
  <1> QED
    BY <1>1, <1>2, <1>3 DEF AbuseTypes

LEMMA AwakeForm == Awake \in Sleeps /\ ~ Awake.on
  BY DEF Awake, Sleeps

\* The initial state is well typed.
LEMMA InitTypes == AbuseInit => AbuseTypes
  <1> SUFFICES ASSUME AbuseInit PROVE AbuseTypes
    OBVIOUS
  <1>1. disk \in DumpFiles /\ (disk.exists \/ ~ disk.asleep.on) /\ newest \in DumpFiles
    BY EmptyBook, AwakeForm DEF AbuseInit, NoFile, DumpFiles
  <1>2. now \in 1..MaxTime
    BY AbuseAssumption DEF AbuseInit
  <1>3. book \in LogBooks /\ asleep \in Sleeps
    BY EmptyBook, AwakeForm DEF AbuseInit
  <1>4. dumps = {} /\ flight \in Seq(Ips) /\ waiting \in Seq(Ips) /\ reports \in Seq([ip : Ips, at : Nat, n : Nat, k : Nat])
        /\ refusals \in Seq([until : Nat, again : BOOLEAN])
    BY DEF AbuseInit
  <1>5. attempts \in [Ips -> Seq(Nat)]
    BY DEF AbuseInit
  <1> QED
    BY <1>1, <1>2, <1>3, <1>4, <1>5 DEF AbuseInit, AbuseTypes

\* The queue of requests, without the one that is taken out.
LEMMA TakenOut ==
    ASSUME NEW S, NEW q \in Seq(S), NEW i \in DOMAIN q
    PROVE  /\ Dropped(q, i) \in Seq(S)
           /\ \A j \in DOMAIN Dropped(q, i) : \E k \in DOMAIN q : Dropped(q, i)[j] = q[k]
  <1>1. i \in 1..Len(q) /\ Len(q) \in Nat /\ DOMAIN q = 1..Len(q)
    OBVIOUS
  <1> DEFINE a == SubSeq(q, 1, i - 1)
             b == SubSeq(q, i + 1, Len(q))
  <1>2. a \in Seq(S) /\ Len(a) = i - 1 /\ \A j \in 1..(i - 1) : a[j] = q[j]
    BY <1>1
  <1>3. b \in Seq(S) /\ Len(b) = Len(q) - i /\ \A j \in 1..(Len(q) - i) : b[j] = q[i + j]
    BY <1>1
  <1>4. Dropped(q, i) = a \o b
    BY DEF Dropped
  <1> HIDE DEF a, b
  <1>5. /\ a \o b \in Seq(S) /\ DOMAIN (a \o b) = 1..(Len(q) - 1)
        /\ \A j \in 1..(Len(q) - 1) : (a \o b)[j] = IF j <= i - 1 THEN a[j] ELSE b[j - (i - 1)]
    <2>0. a \in Seq(S) /\ b \in Seq(S)
      BY <1>2, <1>3
    <2>1. a \o b \in Seq(S) /\ Len(a \o b) = Len(a) + Len(b)
      BY <2>0, ConcatProperties
    <2>2. Len(a) + Len(b) = Len(q) - 1
      BY <1>1, <1>2, <1>3
    <2>3. DOMAIN (a \o b) = 1..(Len(q) - 1)
      BY <2>1, <2>2
    <2>4. \A j \in 1..(Len(a) + Len(b)) : (a \o b)[j] = IF j <= Len(a) THEN a[j] ELSE b[j - Len(a)]
      BY <2>0, ConcatProperties
    <2> QED
      BY <1>2, <2>1, <2>2, <2>3, <2>4
  <1>6. ASSUME NEW j \in 1..(Len(q) - 1) PROVE \E k \in DOMAIN q : (a \o b)[j] = q[k]
    <2>1. CASE j <= i - 1
      <3>1. j \in DOMAIN q /\ j \in 1..(i - 1)
        BY <1>1, <2>1
      <3> QED
        BY <1>2, <1>5, <2>1, <3>1
    <2>2. CASE ~ (j <= i - 1)
      <3>1. j - (i - 1) \in 1..(Len(q) - i) /\ i + (j - (i - 1)) \in DOMAIN q
        BY <1>1, <2>2
      <3> QED
        BY <1>3, <1>5, <2>2, <3>1
    <2> QED
      BY <2>1, <2>2
  <1> QED
    BY <1>4, <1>5, <1>6

\* The deque a start makes of another is a log entry.
LEMMA RestoredBook ==
    ASSUME NEW c \in LogBooks, NEW n \in Nat \ {0}, NEW b, DOMAIN b = DOMAIN c,
           \A ip \in DOMAIN c : b[ip] = c[ip] \/ (~ c[ip].done /\ b[ip] = Deque(Last(c[ip].times, n), n)),
           b = [ip \in DOMAIN c |-> b[ip]]
    PROVE  /\ b \in LogBooks
           /\ \A ip \in DOMAIN c : c[ip].done => b[ip] = c[ip]
           /\ \A ip \in DOMAIN c : ~ c[ip].done =>
                 /\ ~ b[ip].done
                 /\ \E p \in 1..(Len(c[ip].times) + 1) : b[ip].times = SubSeq(c[ip].times, p, Len(c[ip].times))
  <1>1. DOMAIN c \in SUBSET Ips /\ \A ip \in DOMAIN c : c[ip] \in LogEntries
    BY BookForm
  <1>2. ASSUME NEW ip \in DOMAIN c, ~ c[ip].done
        PROVE  /\ b[ip] \in LogEntries /\ ~ b[ip].done
               /\ \E p \in 1..(Len(c[ip].times) + 1) : b[ip].times = SubSeq(c[ip].times, p, Len(c[ip].times))
    <2> DEFINE ts == c[ip].times
    <2>1. ts \in Seq(Nat) /\ c[ip] \in LogEntries
      BY <1>1, EntryForm
    <2> HIDE DEF ts
    <2>2. Len(ts) \in Nat /\ 1 \in 1..(Len(ts) + 1) /\ SubSeq(ts, 1, Len(ts)) = ts
      BY <2>1
    <2>3. CASE b[ip] = c[ip]
      BY <1>2, <2>1, <2>2, <2>3 DEF ts
    <2>4. CASE b[ip] = Deque(Last(ts, n), n)
      <3>1. PICK p \in 1..(Len(ts) + 1) : Last(ts, n) = SubSeq(ts, p, Len(ts))
        BY <2>1, LastForm
      <3>2. Last(ts, n) \in Seq(Nat)
        BY <2>1, <3>1
      <3>3. b[ip] \in LogEntries /\ ~ b[ip].done /\ b[ip].times = Last(ts, n)
        BY <2>4, <3>2, DequeForm
      <3> QED
        BY <3>1, <3>3 DEF ts
    <2> QED
      BY <1>2, <2>3, <2>4 DEF ts
  <1>3. \A ip \in DOMAIN c : c[ip].done => b[ip] = c[ip]
    OBVIOUS
  <1>4. \A ip \in DOMAIN c : b[ip] \in LogEntries
    BY <1>1, <1>2, <1>3
  <1>5. b \in [DOMAIN c -> LogEntries]
    BY <1>4
  <1> QED
    BY <1>1, <1>2, <1>3, <1>5 DEF LogBooks

LEMMA NothingEarned == ASSUME NEW hits PROVE EarnedBy(hits, <<>>)
  <1>1. <<>> \in Seq(DOMAIN hits) /\ Len(<<>>) = 0
    OBVIOUS
  <1>2. <<>> \in [1..0 -> DOMAIN hits] /\ 1..0 = {} /\ DOMAIN <<>> = {}
    BY <1>1
  <1>3. <<>> \in [DOMAIN <<>> -> DOMAIN hits]
    BY <1>2
  <1> QED
    BY <1>2, <1>3 DEF EarnedBy

\* What a note writes is an entry, with times in the window that are earned.
LEMMA NoteForm ==
    ASSUME AbuseTypes, AttemptsInOrder, BooksAreEarned, NEW ip \in Ips, NEW e, Notes(ip, e)
    PROVE  e \in LogEntries /\ ~ e.done /\ EarnedBy(Append(attempts[ip], now), e.times)
  <1>0. now \in Nat /\ tolerance \in Nat /\ attempts[ip] \in Seq(Nat)
    BY AbuseAssumption DEF AbuseTypes
  <1>1. CASE e = Deque(<<now>>, tolerance)
    <2>1. <<now>> \in Seq(Nat) /\ <<>> \in Seq(Nat) /\ EarnedBy(attempts[ip], <<>>)
      BY <1>0, NothingEarned
    <2>2. EarnedBy(Append(attempts[ip], now), <<now>>)
      BY <1>0, <2>1, EarnedGrows
    <2> QED
      BY <1>0, <1>1, <2>1, <2>2, DequeForm
  <1>2. CASE ip \in DOMAIN book /\ ~ book[ip].done /\ e = Deque(Longer(ip).times, book[ip].max)
    <2>1. book[ip].max \in Nat
      BY <1>2, BookForm, EntryForm DEF AbuseTypes
    <2>2. Longer(ip).times \in Seq(Nat) /\ EarnedBy(Append(attempts[ip], now), Longer(ip).times)
      BY <1>2, LongerForm
    <2> QED
      BY <1>2, <2>1, <2>2, DequeForm
  <1> QED
    BY <1>1, <1>2 DEF Notes

\* Every step keeps the types.
LEMMA AbuseTypeStep == AbuseTypes /\ AttemptsInOrder /\ BooksAreEarned /\ [AbuseNext]_abuseVars => AbuseTypes'
  <1> SUFFICES ASSUME AbuseTypes, AttemptsInOrder, BooksAreEarned, [AbuseNext]_abuseVars PROVE AbuseTypes'
    OBVIOUS
  <1>0. now \in Nat /\ tolerance \in Nat \ {0}
    BY AbuseAssumption DEF AbuseTypes
  <1>1. ASSUME NEW ip \in Ips, Attempt(ip) PROVE AbuseTypes'
    <2>1. attempts' \in [Ips -> Seq(Nat)]
      <3>1. attempts' = [attempts EXCEPT ![ip] = Append(@, now)]
        BY <1>1, AttemptForm
      <3>2. Append(attempts[ip], now) \in Seq(Nat)
        BY <1>0 DEF AbuseTypes
      <3> QED
        BY <3>1, <3>2 DEF AbuseTypes
    <2>2. CASE UNCHANGED <<book, flight, reports>>
      BY <1>1, <2>1, <2>2, AttemptForm DEF AbuseTypes
    <2>3. CASE Report(ip, now)
      <3>1. Reported(now) \in LogEntries
        BY <1>0 DEF LogEntries
      <3>2. book' \in LogBooks
        BY <2>3, <3>1, WithForm DEF AbuseTypes, Report
      <3>3. flight' \in Seq(Ips)
        BY <2>3 DEF AbuseTypes, Report
      <3>4. [ip |-> ip, at |-> now, n |-> tolerance, k |-> Len(refusals)] \in [ip : Ips, at : Nat, n : Nat, k : Nat]
        BY <1>0 DEF AbuseTypes
      <3>5. reports' \in Seq([ip : Ips, at : Nat, n : Nat, k : Nat])
        BY <2>3, <3>4 DEF AbuseTypes, Report
      <3> QED
        BY <1>1, <2>1, <3>2, <3>3, <3>5, AttemptForm DEF AbuseTypes
    <2>4. ASSUME NEW e, Notes(ip, e), book' = With(book, ip, e), UNCHANGED <<flight, reports>>
          PROVE  AbuseTypes'
      <3>1. e \in LogEntries
        BY <2>4, NoteForm
      <3>2. book' \in LogBooks
        BY <2>4, <3>1, WithForm DEF AbuseTypes
      <3> QED
        BY <1>1, <2>1, <2>4, <3>2, AttemptForm DEF AbuseTypes
    <2> QED
      BY <1>1, <2>2, <2>3, <2>4, AttemptForm
  <1>2. ASSUME NEW i \in DOMAIN flight, Answered(i) PROVE AbuseTypes'
    <2>1. flight' \in Seq(Ips)
      BY <1>2, TakenOut DEF Answered, AbuseTypes
    <2> QED
      BY <1>2, <2>1 DEF Answered, fileVars, AbuseTypes
  <1>3. ASSUME NEW i \in DOMAIN flight, NEW retry \in RetryAfter, RateLimited(i, retry) PROVE AbuseTypes'
    <2>1. /\ now + retry \in Nat /\ asleep' = [on |-> TRUE, until |-> now + retry]
          /\ wakeups' = wakeups \cup {now + retry} /\ recalls' \subseteq [at : Nat, held : BOOLEAN]
          /\ flight' = Dropped(flight, i)
          /\ refusals' = Append(refusals, [until |-> now + retry, again |-> asleep.on])
          /\ UNCHANGED <<up, now, tolerance, waiting, disk, attempts, reports, resent, lost>>
      BY <1>3, RefusalForm
    <2>2. flight' \in Seq(Ips)
      BY <2>1, TakenOut DEF AbuseTypes
    <2>3. asleep' \in Sleeps /\ wakeups' \subseteq Nat
      BY <2>1 DEF Sleeps, AbuseTypes
    <2>4. [until |-> now + retry, again |-> asleep.on] \in [until : Nat, again : BOOLEAN]
      BY <2>1 DEF Sleeps, AbuseTypes
    <2>5. refusals' \in Seq([until : Nat, again : BOOLEAN])
      BY <2>1, <2>4 DEF AbuseTypes
    <2>6. book' \in LogBooks /\ newest' \in DumpFiles /\ dumps' \subseteq DumpFiles /\ \A d \in dumps' : d.exists
      <3>1. CASE book' = book /\ dumps' = dumps /\ newest' = newest
        BY <3>1 DEF AbuseTypes
      <3>2. CASE /\ book' = Cleaned(book, now + retry, tolerance)
                 /\ DumpMade(asleep')
        <4> DEFINE s == [on |-> TRUE, until |-> now + retry]
        <4>1. s \in Sleeps /\ asleep' = s
          BY <2>1, <2>3
        <4> HIDE DEF s
        <4>2. DumpMade(s)
          BY <3>2, <4>1
        <4> QED
          BY <2>1, <3>2, <4>1, <4>2, Dumped
      <3> QED
        BY <1>3, <3>1, <3>2, RefusalForm
    <2> QED
      BY <2>1, <2>2, <2>3, <2>5, <2>6 DEF AbuseTypes
  <1>4. ASSUME NEW n \in Tolerances, AbuseStart(n) PROVE AbuseTypes'
    <2> DEFINE c == Cleaned(disk.book, WakesAt(disk.asleep), n)
    <2>1. disk.book \in LogBooks /\ disk.asleep \in Sleeps /\ WakesAt(disk.asleep) \in Nat
      BY <1>0, FileForm DEF AbuseTypes, WakesAt, Sleeps
    <2>2. c \in LogBooks
      BY <2>1, CleanedForm
    <2>3. asleep' \in Sleeps /\ wakeups' \subseteq Nat /\ recalls' \subseteq [at : Nat, held : BOOLEAN]
      BY <1>4, <2>1, AwakeForm, StartForm DEF Sleeps
    <2>4. /\ newest' = [exists |-> TRUE, book |-> c, asleep |-> asleep', tolerated |-> n] /\ dumps' = {newest'}
          /\ DOMAIN book' = DOMAIN c
          /\ \A ip \in DOMAIN c : book'[ip] = c[ip] \/ (~ c[ip].done /\ book'[ip] = Deque(Last(c[ip].times, n), n))
          /\ book' = [ip \in DOMAIN c |-> book'[ip]]
      BY <1>4, StartForm
    <2> HIDE DEF c
    <2>5. n \in Nat \ {0}
      BY AbuseAssumption
    <2>6. book' \in LogBooks
      BY <2>2, <2>4, <2>5, RestoredBook
    <2>7. [exists |-> TRUE, book |-> c, asleep |-> asleep', tolerated |-> n] \in DumpFiles
      BY <2>2, <2>3, <2>5 DEF DumpFiles
    <2>8. newest' \in DumpFiles /\ dumps' \subseteq DumpFiles /\ \A d \in dumps' : d.exists
      BY <2>4, <2>7
    <2>9. /\ up' \in BOOLEAN /\ tolerance' \in Tolerances /\ flight' = <<>> /\ waiting' = <<>>
          /\ UNCHANGED <<now, disk, attempts, reports, refusals>>
      BY <1>4, StartForm DEF AbuseStart, AbuseTypes
    <2> QED
      BY <2>3, <2>6, <2>8, <2>9 DEF AbuseTypes
  <1>5. ASSUME NEW d \in dumps, DumpWritten(d) PROVE AbuseTypes'
    BY <1>5 DEF DumpWritten, Threads, AbuseTypes
  <1>6. ASSUME dumps' \subseteq dumps, UNCHANGED disk \/ disk' = NoFile, Threads PROVE AbuseTypes'
    <2>1. NoFile \in DumpFiles /\ ~ NoFile.asleep.on
      BY EmptyBook, AwakeForm DEF NoFile, DumpFiles
    <2> QED
      BY <1>6, <2>1 DEF Threads, AbuseTypes
  <1>7. CASE Wakeup
    <2>1. now + CleanEvery \in Nat
      BY <1>0, AbuseAssumption
    <2>2. recalls' \subseteq [at : Nat, held : BOOLEAN]
      <3>1. recalls' = {[r EXCEPT !.held = FALSE] : r \in recalls} \cup {[at |-> now + CleanEvery, held |-> TRUE]}
        BY <1>7 DEF Wakeup, Recall, LetGo
      <3>2. \A r \in recalls : [r EXCEPT !.held = FALSE] \in [at : Nat, held : BOOLEAN]
        BY DEF AbuseTypes
      <3>3. [at |-> now + CleanEvery, held |-> TRUE] \in [at : Nat, held : BOOLEAN]
        BY <2>1
      <3> QED
        BY <3>1, <3>2, <3>3
    <2>3. wakeups' \subseteq Nat
      BY <1>7 DEF Wakeup, AbuseTypes
    <2> QED
      BY <1>7, <2>2, <2>3, AwakeForm DEF Wakeup, fileVars, AbuseTypes
  <1>8. CASE CleanupDue
    <2>1. Horizon \in Nat /\ asleep \in Sleeps
      BY <1>0 DEF Horizon, AbuseTypes, Sleeps
    <2>2. /\ book' = Cleaned(book, Horizon, tolerance)
          /\ DumpMade(asleep)
          /\ recalls' \subseteq [at : Nat, held : BOOLEAN]
          /\ UNCHANGED <<up, now, tolerance, asleep, wakeups, flight, waiting, disk, attempts, reports, refusals, resent, lost>>
      BY <1>8, CleanupDueForm
    <2>3. book' \in LogBooks /\ newest' \in DumpFiles /\ dumps' \subseteq DumpFiles /\ \A d \in dumps' : d.exists
      BY <2>1, <2>2, Dumped
    <2> QED
      BY <2>2, <2>3 DEF AbuseTypes
  <1>9. CASE AbuseStop
    <2>1. Horizon \in Nat /\ asleep \in Sleeps
      BY <1>0 DEF Horizon, AbuseTypes, Sleeps
    <2>2. /\ flight' = <<>> /\ waiting' = <<>> /\ wakeups' = {} /\ recalls' \subseteq [at : Nat, held : BOOLEAN]
          /\ up' \in BOOLEAN /\ UNCHANGED <<now, tolerance, asleep, disk, attempts, reports, refusals, resent, lost>>
      BY <1>9, StopForm DEF AbuseStop
    <2>3. book' \in LogBooks /\ newest' \in DumpFiles /\ dumps' \subseteq DumpFiles /\ \A d \in dumps' : d.exists
      <3>1. CASE book' = book /\ dumps' = dumps /\ newest' = newest
        BY <3>1 DEF AbuseTypes
      <3>2. CASE /\ book' = Cleaned(book, Horizon, tolerance)
                 /\ DumpMade(asleep)
        BY <2>1, <3>2, Dumped
      <3> QED
        BY <1>9, <3>1, <3>2, StopForm
    <2> QED
      BY <2>2, <2>3 DEF AbuseTypes
  <1>10. CASE AbuseCrash
    <2>1. NoFile \in DumpFiles /\ ~ NoFile.asleep.on
      BY EmptyBook, AwakeForm DEF NoFile, DumpFiles
    <2>2. /\ wakeups' \subseteq Nat /\ recalls' \subseteq [at : Nat, held : BOOLEAN] /\ up' \in BOOLEAN
          /\ flight' = <<>> /\ waiting' = <<>> /\ dumps' = {} /\ lost' = TRUE
          /\ disk' = disk \/ disk' = NoFile
          /\ UNCHANGED <<now, tolerance, book, asleep, newest, attempts, reports, refusals>>
      BY <1>10 DEF AbuseCrash
    <2>3. flight' \in Seq(Ips) /\ waiting' \in Seq(Ips)
      BY <2>2
    <2>4. disk' \in DumpFiles /\ (disk'.exists \/ ~ disk'.asleep.on)
      <3>1. disk \in DumpFiles /\ (disk.exists \/ ~ disk.asleep.on)
        BY DEF AbuseTypes
      <3> QED
        BY <2>1, <2>2, <3>1
    <2>5. /\ attempts' \in [Ips -> Seq(Nat)] /\ reports' \in Seq([ip : Ips, at : Nat, n : Nat, k : Nat])
          /\ refusals' \in Seq([until : Nat, again : BOOLEAN])
      BY <2>2 DEF AbuseTypes
    <2>6. /\ now' \in 1..MaxTime /\ tolerance' \in Tolerances /\ book' \in LogBooks /\ asleep' \in Sleeps
          /\ newest' \in DumpFiles
      BY <2>2 DEF AbuseTypes
    <2>7. dumps' \subseteq DumpFiles /\ \A d \in dumps' : d.exists
      BY <2>2
    <2> QED
      BY <2>2, <2>3, <2>4, <2>5, <2>6, <2>7 DEF AbuseTypes
  <1>11. CASE AbuseTick
    <2>1. now' \in 1..MaxTime
      BY <1>11, AbuseAssumption DEF AbuseTick, AbuseTypes
    <2>2. UNCHANGED <<up, tolerance, book, asleep, recalls, wakeups, flight, waiting, dumps, disk, newest,
                      attempts, reports, refusals>>
      BY <1>11 DEF AbuseTick, fileVars
    <2>3. /\ attempts' \in [Ips -> Seq(Nat)] /\ reports' \in Seq([ip : Ips, at : Nat, n : Nat, k : Nat])
          /\ refusals' \in Seq([until : Nat, again : BOOLEAN]) /\ recalls' \subseteq [at : Nat, held : BOOLEAN]
      BY <2>2 DEF AbuseTypes
    <2>4. /\ up' \in BOOLEAN /\ tolerance' \in Tolerances /\ book' \in LogBooks /\ asleep' \in Sleeps
          /\ wakeups' \subseteq Nat /\ flight' \in Seq(Ips) /\ waiting' \in Seq(Ips)
          /\ dumps' \subseteq DumpFiles /\ disk' \in DumpFiles /\ newest' \in DumpFiles
          /\ (disk'.exists \/ ~ disk'.asleep.on) /\ \A d \in dumps' : d.exists
      BY <2>2 DEF AbuseTypes
    <2> QED
      BY <2>1, <2>3, <2>4 DEF AbuseTypes
  <1>12. CASE UNCHANGED abuseVars
    BY <1>12 DEF abuseVars, fileVars, AbuseTypes
  <1>13. ASSUME NEW d \in dumps, DumpFails(d) \/ DumpGivenUp(d) PROVE AbuseTypes'
    BY <1>6, <1>13 DEF DumpFails, DumpGivenUp
  <1>14. ASSUME NEW d \in dumps, NEW e \in dumps, DumpsCollide(d, e) PROVE AbuseTypes'
    BY <1>6, <1>14 DEF DumpsCollide
  <1>15. ASSUME NEW i \in DOMAIN flight, TooLong(i) PROVE AbuseTypes'
    <2>1. flight' = Dropped(flight, i) /\ waiting' = Append(waiting, flight[i]) /\ flight[i] \in Ips
      BY <1>15 DEF TooLong, AbuseTypes
    <2>2. flight' \in Seq(Ips) /\ waiting' \in Seq(Ips)
      BY <2>1, TakenOut DEF AbuseTypes
    <2> QED
      BY <1>15, <2>2 DEF TooLong, fileVars, AbuseTypes
  <1>16. ASSUME NEW i \in DOMAIN waiting, SendAgain(i) PROVE AbuseTypes'
    <2>1. waiting' = Dropped(waiting, i) /\ flight' = Append(flight, waiting[i]) /\ waiting[i] \in Ips
      BY <1>16 DEF SendAgain, AbuseTypes
    <2>2. flight' \in Seq(Ips) /\ waiting' \in Seq(Ips)
      BY <2>1, TakenOut DEF AbuseTypes
    <2> QED
      BY <1>16, <2>2 DEF SendAgain, fileVars, AbuseTypes
  <1>17. ASSUME NEW n \in Tolerances, StartRaises(n) PROVE AbuseTypes'
    <2> DEFINE d == [exists |-> TRUE, book |-> <<>>, asleep |-> Awake, tolerated |-> n]
    <2>1. n \in Nat
      BY AbuseAssumption
    <2>2. d \in DumpFiles /\ d.exists
      BY <2>1, EmptyBook, AwakeForm DEF DumpFiles
    <2>3. (newest' = newest /\ dumps' = dumps) \/ (newest' = d /\ dumps' = {d})
      BY <1>17 DEF StartRaises
    <2> HIDE DEF d
    <2>4. newest' \in DumpFiles /\ dumps' \subseteq DumpFiles /\ \A e \in dumps' : e.exists
      BY <2>2, <2>3 DEF AbuseTypes
    <2> QED
      BY <1>17, <2>4 DEF StartRaises, AbuseTypes
  <1> QED
    BY <1>1, <1>2, <1>3, <1>4, <1>5, <1>7, <1>8, <1>9, <1>10, <1>11, <1>12, <1>13, <1>14, <1>15, <1>16, <1>17
       DEF AbuseNext

\* The attempts stay in order.
LEMMA OrderStep == AbuseTypes /\ AttemptsInOrder /\ [AbuseNext]_abuseVars => AttemptsInOrder'
  <1> SUFFICES ASSUME AbuseTypes, AttemptsInOrder, [AbuseNext]_abuseVars PROVE AttemptsInOrder'
    OBVIOUS
  <1>0. now \in Nat
    BY DEF AbuseTypes
  <1>1. ASSUME NEW ip \in Ips, Attempt(ip) PROVE AttemptsInOrder'
    <2> SUFFICES ASSUME NEW x \in Ips, NEW i \in DOMAIN attempts'[x], NEW j \in DOMAIN attempts'[x]
                 PROVE  attempts'[x][i] <= now' /\ (i <= j => attempts'[x][i] <= attempts'[x][j])
      BY DEF AttemptsInOrder
    <2>1. now' = now /\ attempts' = [attempts EXCEPT ![ip] = Append(@, now)]
      BY <1>1, AttemptForm
    <2>2. CASE x # ip
      BY <2>1, <2>2 DEF AttemptsInOrder, AbuseTypes
    <2>3. CASE x = ip
      <3> DEFINE old == attempts[ip]
                 hits == attempts'[ip]
      <3>1. old \in Seq(Nat) /\ hits = Append(old, now)
        BY <2>1 DEF AbuseTypes
      <3>2. \A k, l \in DOMAIN old : old[k] <= now /\ (k <= l => old[k] <= old[l])
        BY DEF AttemptsInOrder
      <3>3. i \in DOMAIN hits /\ j \in DOMAIN hits
        BY <2>3
      <3> HIDE DEF old, hits
      <3>4. hits[i] <= now /\ (i <= j => hits[i] <= hits[j])
        BY <1>0, <3>1, <3>2, <3>3, AppendedInOrder
      <3> QED
        BY <2>1, <2>3, <3>4 DEF hits
    <2> QED
      BY <2>2, <2>3
  <1>2. CASE AbuseTick
    BY <1>0, <1>2 DEF AbuseTick, AttemptsInOrder, AbuseTypes
  <1>3. CASE UNCHANGED <<now, attempts>>
    BY <1>3 DEF AttemptsInOrder
  <1> QED
    BY <1>1, <1>2, <1>3 DEF AbuseNext, abuseVars, Answered, RateLimited, AbuseStart,
       DumpWritten, DumpFails, DumpGivenUp, DumpsCollide, Threads, TooLong, SendAgain, StartRaises, Wakeup, CleanupDue, AbuseStop, AbuseCrash

\* Books that are earned stay so: tails, and more attempts.
LEMMA CleanedEarned ==
    ASSUME NEW tries \in [Ips -> Seq(Nat)], NEW b \in LogBooks, BookIsEarned(tries, b), NEW t \in Nat, NEW n
    PROVE  BookIsEarned(tries, Cleaned(b, t, n))
  <1> DEFINE c == Cleaned(b, t, n)
  <1>1. /\ DOMAIN c \subseteq DOMAIN b /\ \A ip \in DOMAIN c : c[ip] = CleanExpired(b[ip], t)
        /\ DOMAIN b \subseteq Ips /\ \A ip \in DOMAIN b : b[ip] \in LogEntries
    BY CleanedForm, BookForm
  <1> HIDE DEF c
  <1> SUFFICES ASSUME NEW ip \in DOMAIN c, ~ c[ip].done
               PROVE  EarnedBy(tries[ip], c[ip].times)
    BY DEF BookIsEarned, c
  <1>2. ip \in DOMAIN b /\ c[ip] = CleanExpired(b[ip], t) /\ b[ip] \in LogEntries /\ ip \in Ips
    BY <1>1
  <1>3. ~ b[ip].done
    BY <1>2, ExpiredForm
  <1>4. PICK p \in 1..(Len(b[ip].times) + 1) :
           CleanExpired(b[ip], t) = Deque(SubSeq(b[ip].times, p, Len(b[ip].times)), b[ip].max)
    BY <1>2, <1>3, ExpiredForm
  <1>5. c[ip].times = SubSeq(b[ip].times, p, Len(b[ip].times))
    BY <1>2, <1>4 DEF Deque
  <1>6. EarnedBy(tries[ip], b[ip].times) /\ b[ip].times \in Seq(Nat) /\ tries[ip] \in Seq(Nat)
    BY <1>2, <1>3, EntryForm DEF BookIsEarned
  <1> QED
    BY <1>5, <1>6, EarnedTail

LEMMA MoreEarned ==
    ASSUME NEW tries \in [Ips -> Seq(Nat)], NEW more \in [Ips -> Seq(Nat)], NEW b \in LogBooks,
           BookIsEarned(tries, b), NEW t \in Nat,
           \A ip \in Ips : more[ip] = tries[ip] \/ more[ip] = Append(tries[ip], t)
    PROVE  BookIsEarned(more, b)
  <1> SUFFICES ASSUME NEW ip \in DOMAIN b, ~ b[ip].done
               PROVE  EarnedBy(more[ip], b[ip].times)
    BY DEF BookIsEarned
  <1>1. ip \in Ips /\ b[ip] \in LogEntries
    BY BookForm
  <1>2. b[ip].times \in Seq(Nat) /\ tries[ip] \in Seq(Nat) /\ EarnedBy(tries[ip], b[ip].times)
    BY <1>1, EntryForm DEF BookIsEarned
  <1>3. EarnedBy(Append(tries[ip], t), b[ip].times)
    BY <1>2, EarnedGrows
  <1> QED
    BY <1>1, <1>2, <1>3

\* The logbooks stay earned.
LEMMA EarnedStep ==
    AbuseTypes /\ AttemptsInOrder /\ BooksAreEarned /\ [AbuseNext]_abuseVars => BooksAreEarned'
  <1> SUFFICES ASSUME AbuseTypes, AttemptsInOrder, BooksAreEarned, [AbuseNext]_abuseVars PROVE BooksAreEarned'
    OBVIOUS
  <1>0. /\ now \in Nat /\ attempts \in [Ips -> Seq(Nat)] /\ tolerance \in Nat \ {0}
        /\ book \in LogBooks /\ disk.book \in LogBooks /\ disk.asleep \in Sleeps
        /\ \A d \in dumps : d.book \in LogBooks
    BY FileForm, AbuseAssumption DEF AbuseTypes
  <1>a. Horizon \in Nat
    BY <1>0 DEF Horizon, AbuseTypes, Sleeps
  <1>1. ASSUME NEW ip \in Ips, Attempt(ip) PROVE BooksAreEarned'
    <2>1. /\ attempts' = [attempts EXCEPT ![ip] = Append(@, now)] /\ UNCHANGED <<dumps, disk>>
      BY <1>1, AttemptForm
    <2>2. Append(attempts[ip], now) \in Seq(Nat)
      BY <1>0
    <2>3. attempts' \in [Ips -> Seq(Nat)] /\ \A x \in Ips : attempts'[x] = attempts[x] \/ attempts'[x] = Append(attempts[x], now)
      BY <1>0, <2>1, <2>2
    <2>4. ASSUME NEW b \in LogBooks, BookIsEarned(attempts, b) PROVE BookIsEarned(attempts', b)
      BY <1>0, <2>3, <2>4, MoreEarned
    <2>5. BookIsEarned(attempts', book) /\ BookIsEarned(attempts', disk'.book)
      BY <1>0, <2>1, <2>4 DEF BooksAreEarned
    <2>6. \A d \in dumps' : BookIsEarned(attempts', d.book)
      BY <1>0, <2>1, <2>4 DEF BooksAreEarned
    <2>7. BookIsEarned(attempts', book')
      <3>1. CASE UNCHANGED <<book, flight, reports>>
        BY <2>5, <3>1
      <3>2. CASE Report(ip, now)
        <4>1. Reported(now) \in LogEntries /\ Reported(now).done
          BY <1>0, ReportedForm
        <4>2. book' = With(book, ip, Reported(now))
          BY <3>2 DEF Report
        <4>3. /\ DOMAIN book' = DOMAIN book \cup {ip} /\ book'[ip] = Reported(now)
              /\ \A x \in DOMAIN book : x # ip => book'[x] = book[x]
          BY <4>2 DEF With
        <4> QED
          BY <2>5, <4>1, <4>3 DEF BookIsEarned
      <3>3. ASSUME NEW e, Notes(ip, e), book' = With(book, ip, e)
            PROVE  BookIsEarned(attempts', book')
        <4>1. EarnedBy(attempts'[ip], e.times)
          BY <1>0, <2>1, <3>3, NoteForm
        <4>4. /\ DOMAIN book' = DOMAIN book \cup {ip} /\ book'[ip] = e
              /\ \A x \in DOMAIN book : x # ip => book'[x] = book[x]
          BY <3>3 DEF With
        <4> QED
          BY <2>5, <4>1, <4>4 DEF BookIsEarned
      <3> QED
        BY <1>1, <3>1, <3>2, <3>3, AttemptForm
    <2> QED
      BY <2>5, <2>6, <2>7 DEF BooksAreEarned
  <1>2. ASSUME NEW t \in Nat, NEW s \in Sleeps, book' = Cleaned(book, t, tolerance), UNCHANGED <<attempts, disk>>,
               DumpMade(s)
        PROVE  BooksAreEarned'
    <2>1. BookIsEarned(attempts, book')
      BY <1>0, <1>2, CleanedEarned DEF BooksAreEarned
    <2>2. \A d \in dumps' : d \in dumps \/ d.book = book'
      BY <1>2, Dumped
    <2>3. ASSUME NEW d \in dumps' PROVE BookIsEarned(attempts, d.book)
      BY <2>1, <2>2 DEF BooksAreEarned
    <2> QED
      BY <1>2, <2>1, <2>3 DEF BooksAreEarned
  <1>3. CASE UNCHANGED <<attempts, book, disk, dumps>>
    BY <1>3 DEF BooksAreEarned
  <1>4. ASSUME NEW i \in DOMAIN flight, NEW retry \in RetryAfter, RateLimited(i, retry) PROVE BooksAreEarned'
    <2> DEFINE s == [on |-> TRUE, until |-> now + retry]
    <2>1. s \in Sleeps /\ asleep' = s /\ now + retry \in Nat
      BY <1>4, RefusalForm DEF Sleeps
    <2> HIDE DEF s
    <2>2. /\ UNCHANGED <<attempts, disk>>
          /\ \/ book' = book /\ dumps' = dumps /\ newest' = newest
             \/ /\ book' = Cleaned(book, now + retry, tolerance)
                /\ DumpMade(s)
      BY <1>4, <2>1, RefusalForm
    <2> QED
      BY <1>2, <1>3, <2>1, <2>2
  <1>5. CASE CleanupDue
    <2>1. asleep \in Sleeps
      BY DEF AbuseTypes
    <2> QED
      BY <1>2, <1>5, <1>a, <2>1, CleanupDueForm
  <1>6. CASE AbuseStop
    <2>1. asleep \in Sleeps
      BY DEF AbuseTypes
    <2> QED
      BY <1>2, <1>3, <1>6, <1>a, <2>1, StopForm
  <1>7. ASSUME NEW n \in Tolerances, AbuseStart(n) PROVE BooksAreEarned'
    <2> DEFINE c == Cleaned(disk.book, WakesAt(disk.asleep), n)
    <2>1. WakesAt(disk.asleep) \in Nat /\ n \in Nat \ {0}
      BY <1>0, AbuseAssumption DEF WakesAt, Sleeps
    <2>2. c \in LogBooks /\ BookIsEarned(attempts, c)
      BY <1>0, <2>1, CleanedForm, CleanedEarned DEF BooksAreEarned
    <2>3. /\ newest' = [exists |-> TRUE, book |-> c, asleep |-> asleep', tolerated |-> n] /\ dumps' = {newest'}
          /\ DOMAIN book' = DOMAIN c
          /\ \A ip \in DOMAIN c : book'[ip] = c[ip] \/ (~ c[ip].done /\ book'[ip] = Deque(Last(c[ip].times, n), n))
          /\ book' = [ip \in DOMAIN c |-> book'[ip]]
      BY <1>7, StartForm
    <2>4. UNCHANGED <<attempts, disk>>
      BY <1>7, StartForm
    <2> HIDE DEF c
    <2>5. /\ \A ip \in DOMAIN c : c[ip].done => book'[ip] = c[ip]
          /\ \A ip \in DOMAIN c : ~ c[ip].done =>
                \E p \in 1..(Len(c[ip].times) + 1) : book'[ip].times = SubSeq(c[ip].times, p, Len(c[ip].times))
      <3> DEFINE b == book'
      <3>1. /\ DOMAIN b = DOMAIN c /\ b = [ip \in DOMAIN c |-> b[ip]]
            /\ \A ip \in DOMAIN c : b[ip] = c[ip] \/ (~ c[ip].done /\ b[ip] = Deque(Last(c[ip].times, n), n))
        BY <2>3
      <3> HIDE DEF b
      <3>2. /\ \A ip \in DOMAIN c : c[ip].done => b[ip] = c[ip]
            /\ \A ip \in DOMAIN c : ~ c[ip].done =>
                  \E p \in 1..(Len(c[ip].times) + 1) : b[ip].times = SubSeq(c[ip].times, p, Len(c[ip].times))
        BY <2>1, <2>2, <3>1, RestoredBook
      <3> QED
        BY <3>2 DEF b
    <2>6. ASSUME NEW ip \in DOMAIN book', ~ book'[ip].done
          PROVE  EarnedBy(attempts[ip], book'[ip].times)
      <3>1. ip \in DOMAIN c /\ ~ c[ip].done /\ ip \in Ips /\ c[ip] \in LogEntries
        BY <2>2, <2>3, <2>5, <2>6, BookForm
      <3>2. c[ip].times \in Seq(Nat) /\ EarnedBy(attempts[ip], c[ip].times) /\ attempts[ip] \in Seq(Nat)
        BY <1>0, <2>2, <3>1, EntryForm DEF BookIsEarned
      <3>3. PICK p \in 1..(Len(c[ip].times) + 1) : book'[ip].times = SubSeq(c[ip].times, p, Len(c[ip].times))
        BY <2>5, <3>1
      <3> QED
        BY <3>2, <3>3, EarnedTail
    <2>7. BookIsEarned(attempts, book')
      BY <2>6 DEF BookIsEarned
    <2>8. \A d \in dumps' : d.book = c
      BY <2>3
    <2> QED
      BY <2>2, <2>4, <2>7, <2>8 DEF BooksAreEarned
  <1>8. ASSUME NEW d \in dumps, DumpWritten(d) PROVE BooksAreEarned'
    BY <1>8 DEF DumpWritten, Threads, BooksAreEarned
  <1>9. ASSUME dumps' \subseteq dumps, UNCHANGED disk \/ disk' = NoFile, UNCHANGED <<attempts, book>>
        PROVE  BooksAreEarned'
    <2>1. DOMAIN NoFile.book = {}
      BY EmptyBook DEF NoFile
    <2>2. BookIsEarned(attempts', disk'.book)
      BY <1>9, <2>1 DEF BooksAreEarned, BookIsEarned
    <2> QED
      BY <1>9, <2>2 DEF BooksAreEarned
  <1>10. CASE AbuseCrash
    BY <1>9, <1>10 DEF AbuseCrash
  <1>11. ASSUME NEW d \in dumps, DumpFails(d) \/ DumpGivenUp(d) PROVE BooksAreEarned'
    BY <1>9, <1>11 DEF DumpFails, DumpGivenUp, Threads
  <1>12. ASSUME NEW d \in dumps, NEW e \in dumps, DumpsCollide(d, e) PROVE BooksAreEarned'
    BY <1>9, <1>12 DEF DumpsCollide, Threads
  <1>13. ASSUME NEW n \in Tolerances, StartRaises(n) PROVE BooksAreEarned'
    <2> DEFINE d == [exists |-> TRUE, book |-> <<>>, asleep |-> Awake, tolerated |-> n]
    <2>1. DOMAIN d.book = {}
      BY EmptyBook
    <2>2. dumps' = dumps \/ dumps' = {d}
      BY <1>13 DEF StartRaises
    <2> HIDE DEF d
    <2>3. \A e \in dumps' : e \in dumps \/ DOMAIN e.book = {}
      BY <2>1, <2>2
    <2> QED
      BY <1>13, <2>3 DEF StartRaises, BooksAreEarned, BookIsEarned
  <1> QED
    BY <1>1, <1>3, <1>4, <1>5, <1>6, <1>7, <1>8, <1>10, <1>11, <1>12, <1>13
       DEF AbuseNext, abuseVars, fileVars, Answered, TooLong, SendAgain, Wakeup, AbuseTick

\* The attempts of an address inside the window of a time.
Within(hits, t) == {j \in DOMAIN hits : hits[j] <= t /\ t <= hits[j] + Window}

LEMMA WithinGrows ==
    ASSUME NEW hits \in Seq(Nat), NEW x \in Nat, NEW t \in Nat
    PROVE  Cardinality(Within(hits, t)) <= Cardinality(Within(Append(hits, x), t))
  <1> DEFINE more == Append(hits, x)
  <1>1. /\ more \in Seq(Nat) /\ Len(more) \in Nat /\ DOMAIN more = 1..Len(more)
        /\ \A j \in DOMAIN hits : j \in DOMAIN more /\ more[j] = hits[j]
    OBVIOUS
  <1> HIDE DEF more
  <1>2. Within(hits, t) \subseteq Within(more, t) /\ Within(more, t) \subseteq 1..Len(more)
    BY <1>1 DEF Within
  <1>3. IsFiniteSet(1..Len(more))
    BY <1>1, FS_Interval
  <1>4. IsFiniteSet(Within(more, t))
    BY <1>2, <1>3, FS_Subset
  <1> QED
    BY <1>2, <1>4, FS_Subset DEF more

LEMMA WithinIsNat ==
    ASSUME NEW hits \in Seq(Nat), NEW t \in Nat
    PROVE  Cardinality(Within(hits, t)) \in Nat
  <1>1. Within(hits, t) \subseteq 1..Len(hits) /\ Len(hits) \in Nat
    BY DEF Within
  <1>2. IsFiniteSet(1..Len(hits))
    BY <1>1, FS_Interval
  <1>3. IsFiniteSet(Within(hits, t))
    BY <1>1, <1>2, FS_Subset
  <1> QED
    BY <1>3, FS_CardinalityType

\* A report of an address now is of as many attempts as the tolerance asks for.
LEMMA ReportEarned ==
    ASSUME AbuseTypes, AttemptsInOrder, BooksAreEarned, NEW ip \in Ips,
           \/ tolerance <= 1
           \/ ip \in DOMAIN book /\ ~ book[ip].done /\ Len(Longer(ip).times) >= tolerance
    PROVE  Cardinality(Within(Append(attempts[ip], now), now)) >= tolerance
  <1>0. now \in Nat /\ tolerance \in Nat \ {0} /\ attempts[ip] \in Seq(Nat)
    BY AbuseAssumption DEF AbuseTypes
  <1> DEFINE hits == Append(attempts[ip], now)
  <1>1. hits \in Seq(Nat)
    BY <1>0
  <1>2. ASSUME NEW ts \in Seq(Nat), EarnedBy(hits, ts), Len(ts) >= tolerance,
               \A i \in DOMAIN ts : ts[i] <= now /\ now <= ts[i] + Window
        PROVE  Cardinality(Within(hits, now)) >= tolerance
    <2> HIDE DEF hits
    <2>1. Cardinality(Within(hits, now)) >= Len(ts)
      BY <1>0, <1>1, <1>2, EarnedCount DEF Within
    <2>2. Cardinality(Within(hits, now)) \in Nat
      BY <1>0, <1>1, WithinIsNat
    <2>3. Len(ts) \in Nat
      OBVIOUS
    <2> QED
      BY <1>0, <1>2, <2>1, <2>2, <2>3
  <1>3. CASE tolerance <= 1
    <2> DEFINE ts == <<now>>
    <2>1. EarnedBy(hits, ts)
      <3>1. <<>> \in Seq(Nat) /\ EarnedBy(attempts[ip], <<>>)
        BY NothingEarned
      <3>2. EarnedBy(Append(attempts[ip], now), <<now>>)
        BY <1>0, <3>1, EarnedGrows
      <3> QED
        BY <3>2
    <2>2. ts \in Seq(Nat) /\ Len(ts) = 1 /\ \A i \in DOMAIN ts : ts[i] = now
      BY <1>0
    <2>3. now <= now + Window
      BY <1>0, AbuseAssumption
    <2> HIDE DEF hits, ts
    <2>4. Len(ts) >= tolerance
      BY <1>0, <1>3, <2>2
    <2>5. \A i \in DOMAIN ts : ts[i] <= now /\ now <= ts[i] + Window
      BY <1>0, <2>2, <2>3
    <2>6. Cardinality(Within(hits, now)) >= tolerance
      BY <1>2, <2>1, <2>2, <2>4, <2>5
    <2> QED
      BY <2>6 DEF hits
  <1>4. CASE ip \in DOMAIN book /\ ~ book[ip].done /\ Len(Longer(ip).times) >= tolerance
    <2> DEFINE ts == Longer(ip).times
    <2>1. /\ ts \in Seq(Nat) /\ EarnedBy(hits, ts) /\ Len(ts) >= tolerance
          /\ \A i \in DOMAIN ts : ts[i] <= now /\ now <= ts[i] + Window
      BY <1>4, LongerForm
    <2> HIDE DEF hits, ts
    <2>2. Cardinality(Within(hits, now)) >= tolerance
      BY <1>2, <2>1
    <2> QED
      BY <2>2 DEF hits
  <1> QED
    BY <1>3, <1>4

\* A report more.
LEMMA OneMore ==
    ASSUME NEW S, NEW q \in Seq(S), NEW r \in S, NEW q2, q2 = Append(q, r)
    PROVE  /\ q2 \in Seq(S) /\ Len(q) \in Nat /\ Len(q2) = Len(q) + 1
           /\ DOMAIN q = 1..Len(q) /\ DOMAIN q2 = 1..(Len(q) + 1) /\ q2[Len(q) + 1] = r
           /\ \A i \in 1..Len(q) : q2[i] = q[i]
  OBVIOUS

Sent == [ip : Ips, at : Nat, n : Nat, k : Nat]

LEMMA ReportForm ==
    ASSUME AbuseTypes, NEW ip \in Ips, Report(ip, now)
    PROVE  LET r == [ip |-> ip, at |-> now, n |-> tolerance, k |-> Len(refusals)]
           IN  /\ reports' = Append(reports, r) /\ r \in Sent /\ reports \in Seq(Sent)
               /\ Len(reports) \in Nat /\ DOMAIN reports = 1..Len(reports)
               /\ DOMAIN reports' = 1..(Len(reports) + 1) /\ reports'[Len(reports) + 1] = r
               /\ \A i \in 1..Len(reports) : reports'[i] = reports[i]
  <1> DEFINE r == [ip |-> ip, at |-> now, n |-> tolerance, k |-> Len(refusals)]
  <1>1. now \in Nat /\ tolerance \in Nat /\ Len(refusals) \in Nat
    BY AbuseAssumption DEF AbuseTypes
  <1>2. r \in Sent /\ reports \in Seq(Sent)
    BY <1>1 DEF Sent, AbuseTypes
  <1>3. reports' = Append(reports, r)
    BY DEF Report
  <1> HIDE DEF r
  <1>4. /\ Len(reports) \in Nat /\ DOMAIN reports = 1..Len(reports)
        /\ DOMAIN reports' = 1..(Len(reports) + 1) /\ reports'[Len(reports) + 1] = r
        /\ \A i \in 1..Len(reports) : reports'[i] = reports[i]
    BY <1>2, <1>3, OneMore
  <1> QED
    BY <1>2, <1>3, <1>4 DEF r

\* Reports have their attempts, and are of the past.
LEMMA PastStep ==
    AbuseTypes /\ AttemptsInOrder /\ BooksAreEarned /\ ReportsInThePast /\ ReportHasAttempts
    /\ [AbuseNext]_abuseVars => ReportsInThePast' /\ ReportHasAttempts'
  <1> SUFFICES ASSUME AbuseTypes, AttemptsInOrder, BooksAreEarned, ReportsInThePast, ReportHasAttempts,
                      [AbuseNext]_abuseVars
               PROVE  ReportsInThePast' /\ ReportHasAttempts'
    OBVIOUS
  <1>0. now \in Nat /\ attempts \in [Ips -> Seq(Nat)] /\ reports \in Seq(Sent) /\ tolerance \in Nat
    BY AbuseAssumption DEF AbuseTypes, Sent
  <1>a. ReportHasAttempts <=> \A i \in DOMAIN reports :
           Cardinality(Within(attempts[reports[i].ip], reports[i].at)) >= reports[i].n
    BY DEF ReportHasAttempts, Within
  <1>b. ReportHasAttempts' <=> \A i \in DOMAIN reports' :
           Cardinality(Within(attempts'[reports'[i].ip], reports'[i].at)) >= reports'[i].n
    BY DEF ReportHasAttempts, Within
  <1>c. \A i \in DOMAIN reports : reports[i] \in Sent
    BY <1>0
  <1>1. ASSUME NEW ip \in Ips, Attempt(ip) PROVE ReportsInThePast' /\ ReportHasAttempts'
    <2>1. /\ attempts' = [attempts EXCEPT ![ip] = Append(@, now)] /\ UNCHANGED <<now, refusals>>
      BY <1>1, AttemptForm
    <2>2. ASSUME NEW i \in DOMAIN reports
          PROVE  Cardinality(Within(attempts'[reports[i].ip], reports[i].at)) >= reports[i].n
      <3> DEFINE r == reports[i]
      <3>1. r \in Sent
        BY <1>c
      <3> HIDE DEF r
      <3>2. r.ip \in Ips /\ r.at \in Nat /\ r.n \in Nat
        BY <3>1 DEF Sent
      <3>3. Cardinality(Within(attempts[r.ip], r.at)) >= r.n
        BY <1>a DEF r
      <3>4. attempts[r.ip] \in Seq(Nat)
        BY <1>0, <3>2
      <3>5. CASE r.ip # ip
        <4>1. attempts'[r.ip] = attempts[r.ip]
          BY <1>0, <2>1, <3>2, <3>5
        <4> QED
          BY <3>3, <4>1 DEF r
      <3>6. CASE r.ip = ip
        <4>1. attempts'[r.ip] = Append(attempts[r.ip], now)
          BY <1>0, <2>1, <3>2, <3>6
        <4>2. Cardinality(Within(attempts[r.ip], r.at)) <= Cardinality(Within(Append(attempts[r.ip], now), r.at))
          BY <1>0, <3>2, <3>4, WithinGrows
        <4>3. Append(attempts[r.ip], now) \in Seq(Nat)
          BY <1>0, <3>4
        <4>4. Cardinality(Within(attempts[r.ip], r.at)) \in Nat
          BY <3>2, <3>4, WithinIsNat
        <4>5. Cardinality(Within(Append(attempts[r.ip], now), r.at)) \in Nat
          BY <3>2, <4>3, WithinIsNat
        <4>6. Cardinality(Within(Append(attempts[r.ip], now), r.at)) >= r.n
          BY <3>2, <3>3, <4>2, <4>4, <4>5
        <4> QED
          BY <4>1, <4>6 DEF r
      <3> QED
        BY <3>5, <3>6
    <2>3. CASE reports' = reports
      BY <1>b, <2>1, <2>2, <2>3 DEF ReportsInThePast
    <2>4. CASE /\ Report(ip, now)
               /\ \/ tolerance <= 1
                  \/ ip \in DOMAIN book /\ ~ book[ip].done /\ Len(Longer(ip).times) >= tolerance
      <3> DEFINE r == [ip |-> ip, at |-> now, n |-> tolerance, k |-> Len(refusals)]
                 L == Len(reports)
      <3>1. /\ L \in Nat /\ DOMAIN reports = 1..L /\ DOMAIN reports' = 1..(L + 1) /\ reports'[L + 1] = r
            /\ \A i \in 1..L : reports'[i] = reports[i]
        BY <2>4, ReportForm
      <3>2. attempts'[ip] = Append(attempts[ip], now)
        BY <1>0, <2>1
      <3>3. Cardinality(Within(attempts'[ip], now)) >= tolerance
        BY <2>4, <3>2, ReportEarned
      <3>4. r.ip = ip /\ r.at = now /\ r.n = tolerance /\ r.k = Len(refusals)
        OBVIOUS
      <3>5. Len(refusals) \in Nat
        BY DEF AbuseTypes
      <3> HIDE DEF r, L
      <3>6. ASSUME NEW i \in DOMAIN reports'
            PROVE  /\ Cardinality(Within(attempts'[reports'[i].ip], reports'[i].at)) >= reports'[i].n
                   /\ reports'[i].at <= now /\ reports'[i].k <= Len(refusals)
        <4>1. CASE i \in 1..L
          BY <2>2, <3>1, <4>1 DEF ReportsInThePast
        <4>2. CASE i = L + 1
          <5>1. reports'[i] = r
            BY <3>1, <4>2
          <5>2. now <= now /\ Len(refusals) <= Len(refusals)
            BY <1>0, <3>5
          <5> QED
            BY <3>3, <3>4, <5>1, <5>2
        <4> QED
          BY <3>1, <4>1, <4>2
      <3>7. ReportHasAttempts'
        BY <1>b, <3>6
      <3> QED
        BY <2>1, <3>6, <3>7 DEF ReportsInThePast
    <2> QED
      BY <1>1, <2>3, <2>4, AttemptForm
  <1>2. CASE UNCHANGED <<attempts, reports>>
    <2>1. ReportHasAttempts'
      BY <1>2 DEF ReportHasAttempts
    <2>2. now' \in Nat /\ now <= now'
      <3>1. now' = now \/ now' = now + 1
        BY DEF AbuseNext, abuseVars, fileVars, Attempt, Answered, RateLimited, AbuseStart,
       DumpWritten, DumpFails, DumpGivenUp, DumpsCollide, Threads, TooLong, SendAgain, StartRaises,
           Wakeup, CleanupDue, AbuseStop, AbuseCrash, AbuseTick
      <3> QED
        BY <1>0, <3>1
    <2>3. Len(refusals) \in Nat /\ Len(refusals') \in Nat /\ Len(refusals) <= Len(refusals')
      <3>1. refusals' = refusals \/ \E a \in [until : Nat, again : BOOLEAN] : refusals' = Append(refusals, a)
        <4>1. ASSUME NEW i \in DOMAIN flight, NEW retry \in RetryAfter, RateLimited(i, retry)
              PROVE  \E a \in [until : Nat, again : BOOLEAN] : refusals' = Append(refusals, a)
          <5>1. [until |-> now + retry, again |-> asleep.on] \in [until : Nat, again : BOOLEAN]
            BY <4>1, RefusalForm DEF AbuseTypes, Sleeps
          <5> QED
            BY <4>1, <5>1, RefusalForm
        <4> QED
          BY <4>1 DEF AbuseNext, abuseVars, Attempt, Answered, AbuseStart,
       DumpWritten, DumpFails, DumpGivenUp, DumpsCollide, Threads, TooLong, SendAgain, StartRaises,
             Wakeup, CleanupDue, AbuseStop, AbuseCrash, AbuseTick
      <3>2. refusals \in Seq([until : Nat, again : BOOLEAN])
        BY DEF AbuseTypes
      <3>3. CASE refusals' = refusals
        BY <3>2, <3>3
      <3>4. ASSUME NEW a \in [until : Nat, again : BOOLEAN], refusals' = Append(refusals, a)
            PROVE  Len(refusals) \in Nat /\ Len(refusals') \in Nat /\ Len(refusals) <= Len(refusals')
        <4>1. Len(refusals') = Len(refusals) + 1 /\ Len(refusals) \in Nat
          BY <3>2, <3>4, OneMore
        <4> QED
          BY <4>1
      <3> QED
        BY <3>1, <3>3, <3>4
    <2>4. ASSUME NEW i \in DOMAIN reports
          PROVE  reports[i].at <= now' /\ reports[i].k <= Len(refusals')
      <3>1. reports[i].at \in Nat /\ reports[i].k \in Nat
        BY <1>c DEF Sent
      <3>2. reports[i].at <= now /\ reports[i].k <= Len(refusals)
        BY DEF ReportsInThePast
      <3> QED
        BY <1>0, <2>2, <2>3, <3>1, <3>2
    <2> QED
      BY <1>2, <2>1, <2>4 DEF ReportsInThePast
  <1> QED
    BY <1>1, <1>2 DEF AbuseNext, abuseVars, Answered, RateLimited, AbuseStart,
       DumpWritten, DumpFails, DumpGivenUp, DumpsCollide, Threads, TooLong, SendAgain, StartRaises,
       Wakeup, CleanupDue, AbuseStop, AbuseCrash, AbuseTick

\* Asleep, the plugin has a wake-up to come; awake, a clean-up it can cancel.
LEMMA GoesOnStep ==
    AbuseTypes /\ CleanupGoesOn /\ AwakeIsHeld /\ [AbuseNext]_abuseVars => CleanupGoesOn' /\ AwakeIsHeld'
  <1> SUFFICES ASSUME AbuseTypes, CleanupGoesOn, AwakeIsHeld, [AbuseNext]_abuseVars
               PROVE  CleanupGoesOn' /\ AwakeIsHeld'
    OBVIOUS
  <1>a. ASSUME up' => IF asleep'.on THEN wakeups' # {} ELSE \E r \in recalls' : r.held
        PROVE  CleanupGoesOn' /\ AwakeIsHeld'
    BY <1>a DEF CleanupGoesOn, AwakeIsHeld, Held
  <1>1. CASE UNCHANGED <<up, asleep, wakeups, recalls>>
    BY <1>1 DEF CleanupGoesOn, AwakeIsHeld, Held
  <1>2. ASSUME NEW ip \in Ips, Attempt(ip) PROVE CleanupGoesOn' /\ AwakeIsHeld'
    BY <1>1, <1>2 DEF Attempt
  <1>3. ASSUME NEW i \in DOMAIN flight, NEW retry \in RetryAfter, RateLimited(i, retry)
        PROVE  CleanupGoesOn' /\ AwakeIsHeld'
    <2>1. asleep' = [on |-> TRUE, until |-> now + retry] /\ wakeups' = wakeups \cup {now + retry}
      BY <1>3, RefusalForm
    <2>2. asleep'.on /\ wakeups' # {}
      BY <2>1
    <2> QED
      BY <1>a, <2>2
  <1>4. ASSUME NEW n \in Tolerances, AbuseStart(n) PROVE CleanupGoesOn' /\ AwakeIsHeld'
    <2>1. \/ disk.asleep.on /\ asleep' = disk.asleep /\ wakeups' = {disk.asleep.until}
          \/ asleep' = Awake /\ \E r \in recalls' : r.held
      BY <1>4, StartForm
    <2> QED
      BY <1>a, <2>1, AwakeForm
  <1>5. CASE Wakeup
    <2>1. asleep' = Awake /\ recalls' = LetGo(recalls) \cup {[at |-> now + CleanEvery, held |-> TRUE]}
      BY <1>5 DEF Wakeup, Recall
    <2>2. [at |-> now + CleanEvery, held |-> TRUE] \in recalls' /\ [at |-> now + CleanEvery, held |-> TRUE].held
      BY <2>1
    <2>3. \E r \in recalls' : r.held
      BY <2>2
    <2> QED
      BY <1>a, <2>1, <2>3, AwakeForm
  <1>6. CASE CleanupDue
    <2>1. /\ ~ asleep.on => \E r \in recalls' : r.held
          /\ UNCHANGED <<up, asleep, wakeups>>
      BY <1>6, CleanupDueForm
    <2>2. up /\ asleep.on => wakeups # {}
      BY DEF CleanupGoesOn
    <2> QED
      BY <1>a, <2>1, <2>2
  <1>7. CASE AbuseStop \/ AbuseCrash
    <2>1. ~ up'
      BY <1>7 DEF AbuseStop, AbuseCrash
    <2> QED
      BY <1>a, <2>1
  <1> QED
    BY <1>1, <1>2, <1>3, <1>4, <1>5, <1>6, <1>7
       DEF AbuseNext, abuseVars, Answered, DumpWritten, DumpFails, DumpGivenUp, DumpsCollide, Threads, TooLong, SendAgain, StartRaises, AbuseTick

\* What is sent was reported, and is not forgotten.
LEMMA FlightStep ==
    AbuseTypes /\ ReportsInThePast /\ FlightIsTold /\ OnlyReportedAgain /\ [AbuseNext]_abuseVars
        => FlightIsTold' /\ OnlyReportedAgain'
  <1> SUFFICES ASSUME AbuseTypes, ReportsInThePast, FlightIsTold, OnlyReportedAgain, [AbuseNext]_abuseVars
               PROVE  FlightIsTold' /\ OnlyReportedAgain'
    OBVIOUS
  <1>0. flight \in Seq(Ips) /\ waiting \in Seq(Ips)
    BY DEF AbuseTypes
  <1>1. ASSUME UNCHANGED <<reports, resent>>, \A j \in DOMAIN flight' : Told(flight'[j]),
               \A j \in DOMAIN waiting' : Told(waiting'[j])
        PROVE  FlightIsTold' /\ OnlyReportedAgain'
    BY <1>1 DEF FlightIsTold, OnlyReportedAgain, Told
  <1>2. ASSUME NEW ip \in Ips, Attempt(ip) PROVE FlightIsTold' /\ OnlyReportedAgain'
    <2>1. UNCHANGED <<waiting, resent>> /\ (UNCHANGED <<flight, reports>> \/ Report(ip, now))
      BY <1>2, AttemptForm
    <2>2. CASE UNCHANGED <<flight, reports>>
      BY <1>1, <2>1, <2>2 DEF FlightIsTold
    <2>3. CASE Report(ip, now)
      <3> DEFINE r == [ip |-> ip, at |-> now, n |-> tolerance, k |-> Len(refusals)]
                 L == Len(reports)
      <3>1. /\ L \in Nat /\ DOMAIN reports = 1..L /\ DOMAIN reports' = 1..(L + 1) /\ reports'[L + 1] = r
            /\ \A i \in 1..L : reports'[i] = reports[i]
        BY <2>3, ReportForm
      <3>2. r.ip = ip
        OBVIOUS
      <3> HIDE DEF r, L
      <3>3. \A i \in DOMAIN reports : i \in DOMAIN reports' /\ reports'[i] = reports[i]
        BY <3>1
      <3>4. L + 1 \in DOMAIN reports' /\ reports'[L + 1].ip = ip
        BY <3>1, <3>2
      <3>5. \A j \in DOMAIN flight' : (j \in DOMAIN flight /\ flight'[j] = flight[j]) \/ flight'[j] = ip
        <4>1. flight' = Append(flight, ip)
          BY <2>3 DEF Report
        <4> QED
          BY <1>0, <4>1, OneMore
      <3>6. OnlyReportedAgain'
        BY <2>1, <3>3 DEF OnlyReportedAgain
      <3>7. \A j \in DOMAIN flight' : \E i \in DOMAIN reports' : reports'[i].ip = flight'[j]
        BY <3>3, <3>4, <3>5 DEF FlightIsTold, Told
      <3>8. \A j \in DOMAIN waiting' : \E i \in DOMAIN reports' : reports'[i].ip = waiting'[j]
        BY <2>1, <3>3 DEF FlightIsTold, Told
      <3> QED
        BY <3>6, <3>7, <3>8 DEF FlightIsTold, Told
    <2> QED
      BY <2>1, <2>2, <2>3
  <1>3. ASSUME NEW i \in DOMAIN flight, Answered(i) \/ \E q \in RetryAfter : RateLimited(i, q)
        PROVE  FlightIsTold' /\ OnlyReportedAgain'
    <2>1. flight' = Dropped(flight, i) /\ UNCHANGED <<waiting, reports, resent>>
      BY <1>3 DEF Answered, RateLimited
    <2>2. \A j \in DOMAIN flight' : Told(flight'[j])
      BY <1>0, <2>1, TakenOut DEF FlightIsTold
    <2> QED
      BY <1>1, <2>1, <2>2 DEF FlightIsTold
  <1>4. ASSUME NEW i \in DOMAIN flight, TooLong(i) PROVE FlightIsTold' /\ OnlyReportedAgain'
    <2>1. flight' = Dropped(flight, i) /\ waiting' = Append(waiting, flight[i]) /\ UNCHANGED <<reports, resent>>
      BY <1>4 DEF TooLong
    <2>2. \A j \in DOMAIN flight' : Told(flight'[j])
      BY <1>0, <2>1, TakenOut DEF FlightIsTold
    <2>3. flight[i] \in Ips /\ Told(flight[i])
      BY <1>0 DEF FlightIsTold
    <2>4. \A j \in DOMAIN waiting' : (j \in DOMAIN waiting /\ waiting'[j] = waiting[j]) \/ waiting'[j] = flight[i]
      BY <1>0, <2>1, <2>3, OneMore
    <2> QED
      BY <1>1, <2>1, <2>2, <2>3, <2>4 DEF FlightIsTold
  <1>5. ASSUME NEW i \in DOMAIN waiting, SendAgain(i) PROVE FlightIsTold' /\ OnlyReportedAgain'
    <2> DEFINE ip == waiting[i]
    <2>1. /\ waiting' = Dropped(waiting, i) /\ flight' = Append(flight, ip)
          /\ resent' = resent \cup {[ip |-> ip, at |-> now]} /\ reports' = reports
      BY <1>5 DEF SendAgain
    <2>2. \A j \in DOMAIN waiting' : Told(waiting'[j])
      BY <1>0, <2>1, TakenOut DEF FlightIsTold
    <2>3. ip \in Ips /\ Told(ip)
      BY <1>0 DEF FlightIsTold
    <2> HIDE DEF ip
    <2>4. \A j \in DOMAIN flight' : (j \in DOMAIN flight /\ flight'[j] = flight[j]) \/ flight'[j] = ip
      BY <1>0, <2>1, <2>3, OneMore
    <2>5. \A j \in DOMAIN flight' : Told(flight'[j])
      BY <2>3, <2>4 DEF FlightIsTold
    <2>6. PICK k \in DOMAIN reports : reports[k].ip = ip /\ reports[k].at <= now
      BY <2>3 DEF Told, ReportsInThePast
    <2>7. OnlyReportedAgain'
      <3> SUFFICES ASSUME NEW r \in resent'
                   PROVE  \E l \in DOMAIN reports : reports[l].ip = r.ip /\ reports[l].at <= r.at
        BY <2>1 DEF OnlyReportedAgain
      <3>1. r \in resent \/ (r.ip = ip /\ r.at = now)
        BY <2>1
      <3> QED
        BY <2>6, <3>1 DEF OnlyReportedAgain
    <2> QED
      BY <2>1, <2>2, <2>5, <2>7 DEF FlightIsTold, Told
  <1>6. CASE UNCHANGED <<flight, waiting, reports, resent>>
    BY <1>1, <1>6 DEF FlightIsTold
  <1>7. CASE UNCHANGED <<reports, resent>> /\ flight' = <<>> /\ waiting' = <<>>
    BY <1>1, <1>7
  <1> QED
    BY <1>2, <1>3, <1>4, <1>5, <1>6, <1>7
       DEF AbuseNext, abuseVars, AbuseStart, StartRaises, DumpWritten, DumpFails, DumpGivenUp, DumpsCollide,
           Threads, Wakeup, CleanupDue, AbuseStop, AbuseCrash, AbuseTick

-----------------------------------------------------------------------------
\* What will do until a time will do until a later one.
LEMMA RemembersLonger ==
    ASSUME NEW told \in Seq(Sent), NEW b, NEW h \in Nat, NEW h2 \in Nat, h <= h2, Remembers(told, b, h)
    PROVE  Remembers(told, b, h2)
  <1> SUFFICES ASSUME NEW i \in DOMAIN told, h > told[i].at + Rereport
               PROVE  h2 > told[i].at + Rereport
    BY DEF Remembers
  <1>1. told[i] \in Sent
    OBVIOUS
  <1>2. told[i].at \in Nat
    BY <1>1 DEF Sent
  <1>3. Rereport \in Nat
    BY AbuseAssumption
  <1> QED
    BY <1>2, <1>3

Answers == [until : Nat, again : BOOLEAN]

LEMMA SilentLonger ==
    ASSUME NEW replies \in Seq(Answers), NEW h \in Nat, NEW h2 \in Nat, h <= h2,
           SilentUntil(replies, h)
    PROVE  SilentUntil(replies, h2)
  <1> SUFFICES ASSUME NEW k \in DOMAIN replies PROVE replies[k].until <= h2
    BY DEF SilentUntil
  <1>1. replies[k] \in Answers
    OBVIOUS
  <1>2. replies[k].until \in Nat /\ replies[k].until <= h
    BY <1>1 DEF SilentUntil, Answers
  <1> QED
    BY <1>2

\* So does what a clean-up of that time leaves.
LEMMA RemembersCleaned ==
    ASSUME NEW told \in Seq(Sent), NEW b \in LogBooks, NEW h \in Nat, NEW n, Remembers(told, b, h)
    PROVE  Remembers(told, Cleaned(b, h, n), h)
  <1> DEFINE c == Cleaned(b, h, n)
  <1>1. \A ip \in DOMAIN b : b[ip].done =>
           \/ ip \in DOMAIN c /\ c[ip] = b[ip]
           \/ h > b[ip].times[1] + Rereport
    BY CleanedForm
  <1>2. \A ip \in DOMAIN b : b[ip] \in LogEntries
    BY BookForm
  <1> HIDE DEF c
  <1> SUFFICES ASSUME NEW i \in DOMAIN told, ~ (h > told[i].at + Rereport)
               PROVE  /\ told[i].ip \in DOMAIN c /\ c[told[i].ip].done
                      /\ told[i].at <= c[told[i].ip].times[1]
    BY DEF Remembers, c
  <1> DEFINE ip == told[i].ip
             at == told[i].at
  <1>3. at \in Nat
    <2>1. told[i] \in Sent
      OBVIOUS
    <2> QED
      BY <2>1 DEF Sent
  <1>4. ip \in DOMAIN b /\ b[ip].done /\ at <= b[ip].times[1] /\ ~ (h > at + Rereport)
    BY DEF Remembers
  <1> HIDE DEF ip, at
  <1> DEFINE since == b[ip].times[1]
  <1>5. since \in Nat
    BY <1>2, <1>4, EntryForm
  <1>6. at <= since /\ ~ (h > at + Rereport)
    BY <1>4
  <1>7. \/ ip \in DOMAIN c /\ c[ip] = b[ip]
        \/ h > since + Rereport
    BY <1>1, <1>4
  <1> HIDE DEF since
  <1>8. Rereport \in Nat
    BY AbuseAssumption
  <1>9. ~ (h > since + Rereport)
    BY <1>3, <1>5, <1>6, <1>8
  <1>10. ip \in DOMAIN c /\ c[ip] = b[ip]
    BY <1>7, <1>9
  <1> QED
    BY <1>4, <1>10 DEF ip, at

\* Nothing that was lost, and no overlap, is taken back.
LEMMA FaultsStay ==
    ASSUME AbuseTypes, [AbuseNext]_abuseVars, ~ lost', ~ Overlapping'
    PROVE  ~ lost /\ ~ Overlapping
  <1>1. ~ lost
    BY DEF AbuseTypes, AbuseNext, abuseVars, Attempt, Answered, RateLimited, AbuseStart,
       DumpWritten, DumpFails, DumpGivenUp, DumpsCollide, Threads, TooLong, SendAgain, StartRaises,
       Wakeup, CleanupDue, AbuseStop, AbuseCrash, AbuseTick
  <1>2. CASE refusals' = refusals
    BY <1>1, <1>2 DEF Overlapping
  <1>3. ASSUME NEW i \in DOMAIN flight, NEW retry \in RetryAfter, RateLimited(i, retry)
        PROVE  ~ Overlapping
    <2>1. refusals' = Append(refusals, [until |-> now + retry, again |-> asleep.on])
      BY <1>3, RefusalForm
    <2>2. [until |-> now + retry, again |-> asleep.on] \in Answers /\ refusals \in Seq(Answers)
      BY <1>3, RefusalForm DEF AbuseTypes, Sleeps, Answers
    <2>3. \A j \in DOMAIN refusals : j \in DOMAIN refusals' /\ refusals'[j] = refusals[j]
      BY <2>1, <2>2, OneMore
    <2> QED
      BY <2>3 DEF Overlapping
  <1> QED
    BY <1>1, <1>2, <1>3 DEF AbuseNext, abuseVars, Attempt, Answered, AbuseStart,
       DumpWritten, DumpFails, DumpGivenUp, DumpsCollide, Threads, TooLong, SendAgain, StartRaises,
       Wakeup, CleanupDue, AbuseStop, AbuseCrash, AbuseTick

LEMMA Times ==
    ASSUME AbuseTypes
    PROVE  /\ now \in Nat /\ Horizon \in Nat /\ asleep.until \in Nat /\ reports \in Seq(Sent)
           /\ refusals \in Seq(Answers) /\ WakesAt(newest.asleep) \in Nat
  <1>1. now \in Nat /\ asleep \in Sleeps /\ newest.asleep \in Sleeps
    BY FileForm DEF AbuseTypes
  <1>2. asleep.until \in Nat /\ Horizon \in Nat
    BY <1>1 DEF Sleeps, Horizon
  <1>3. WakesAt(newest.asleep) \in Nat
    BY <1>1 DEF WakesAt, Sleeps
  <1> QED
    BY <1>1, <1>2, <1>3 DEF AbuseTypes, Sent, Answers

\* A report goes to an address whose last one is rereport_after ago, and not in a
\* sleep; the logbook marks it.
LEMMA KeptByAttempt ==
    ASSUME AbuseTypes, ReportsInThePast, BookIsKept, NoEarlyRereport, NoReportAsleep,
           ~ lost, ~ Overlapping, NEW ip \in Ips, Attempt(ip)
    PROVE  BookIsKept' /\ NoEarlyRereport' /\ NoReportAsleep'
  <1>0. /\ up /\ UNCHANGED <<up, now, asleep, wakeups, newest, refusals, lost>>
    BY AttemptForm
  <1>a. newest' = newest /\ Horizon' = Horizon /\ Overlapping' = Overlapping
    BY <1>0 DEF Horizon, Overlapping
  <1>1. CASE book' = book /\ reports' = reports
    <2>1. BookIsKept'
      BY <1>0, <1>1, <1>a DEF BookIsKept
    <2> QED
      BY <1>0, <1>1, <2>1 DEF NoEarlyRereport, NoReportAsleep, Overlapping
  <1>2. CASE /\ ~ asleep.on
             /\ ip \in DOMAIN book /\ book[ip].done => now > book[ip].times[1] + Rereport
             /\ Report(ip, now) \/ \E e : book' = With(book, ip, e) /\ reports' = reports
    <2>1. now \in Nat /\ reports \in Seq(Sent) /\ Horizon = now /\ book \in LogBooks
      BY <1>2, Times DEF Horizon, AbuseTypes
    <2>2. ASSUME NEW i \in DOMAIN reports, reports[i].ip = ip
          PROVE  now > reports[i].at + Rereport
      <3> DEFINE at == reports[i].at
      <3>1. at \in Nat
        <4>1. reports[i] \in Sent
          BY <2>1
        <4> QED
          BY <4>1 DEF Sent
      <3>2. \/ ip \in DOMAIN book /\ book[ip].done /\ at <= book[ip].times[1]
            \/ now > at + Rereport
        BY <1>0, <2>1, <2>2 DEF BookIsKept, Remembers
      <3> HIDE DEF at
      <3>3. ASSUME ip \in DOMAIN book, book[ip].done, at <= book[ip].times[1]
            PROVE  now > at + Rereport
        <4> DEFINE since == book[ip].times[1]
        <4>1. since \in Nat
          BY <2>1, <3>3, BookForm, EntryForm
        <4>2. at <= since /\ now > since + Rereport
          BY <1>2, <3>3
        <4> HIDE DEF since
        <4>3. Rereport \in Nat
          BY AbuseAssumption
        <4> QED
          BY <2>1, <3>1, <4>1, <4>2, <4>3
      <3> QED
        BY <3>2, <3>3 DEF at
    <2>3. ASSUME NEW e, book' = With(book, ip, e)
          PROVE  /\ DOMAIN book' = DOMAIN book \cup {ip} /\ book'[ip] = e
                 /\ \A x \in DOMAIN book : x # ip => book'[x] = book[x]
      BY <2>3 DEF With
    <2>4. ASSUME NEW e, book' = With(book, ip, e), NEW i \in DOMAIN reports
          PROVE  \/ /\ reports[i].ip \in DOMAIN book' /\ book'[reports[i].ip].done
                    /\ reports[i].at <= book'[reports[i].ip].times[1]
                 \/ now > reports[i].at + Rereport
      <3>1. CASE reports[i].ip = ip
        BY <2>2, <3>1
      <3>2. CASE reports[i].ip # ip
        <4>1. \/ /\ reports[i].ip \in DOMAIN book /\ book[reports[i].ip].done
                 /\ reports[i].at <= book[reports[i].ip].times[1]
              \/ now > reports[i].at + Rereport
          BY <1>0, <2>1 DEF BookIsKept, Remembers
        <4> QED
          BY <2>3, <2>4, <3>2, <4>1
      <3> QED
        BY <3>1, <3>2
    <2>5. ASSUME Remembers(reports', book', now) PROVE BookIsKept'
      <3>1. up' /\ ~ asleep'.on /\ Horizon' = now
        BY <1>0, <1>2, <1>a, <2>1
      <3>2. SilentUntil(refusals', now) /\ wakeups' = {}
        BY <1>0, <1>2, <2>1 DEF BookIsKept
      <3> QED
        BY <2>5, <3>1, <3>2 DEF BookIsKept
    <2>6. ASSUME NEW e, book' = With(book, ip, e), reports' = reports
          PROVE  BookIsKept' /\ NoEarlyRereport' /\ NoReportAsleep'
      <3>1. Remembers(reports', book', now)
        BY <2>4, <2>6 DEF Remembers
      <3> QED
        BY <1>0, <2>5, <2>6, <3>1 DEF NoEarlyRereport, NoReportAsleep, Overlapping
    <2>7. CASE Report(ip, now)
      <3> DEFINE r == [ip |-> ip, at |-> now, n |-> tolerance, k |-> Len(refusals)]
                 L == Len(reports)
      <3>1. /\ L \in Nat /\ DOMAIN reports = 1..L /\ DOMAIN reports' = 1..(L + 1) /\ reports'[L + 1] = r
            /\ \A i \in 1..L : reports'[i] = reports[i]
        BY <2>7, ReportForm
      <3>2. book' = With(book, ip, Reported(now))
        BY <2>7 DEF Report
      <3>3. /\ ip \in DOMAIN book' /\ book'[ip] = Reported(now) /\ Reported(now).done
            /\ Reported(now).times[1] = now
        BY <2>3, <3>2 DEF Reported
      <3>4. r.ip = ip /\ r.at = now /\ r.k = Len(refusals) /\ Len(refusals) \in Nat /\ DOMAIN refusals = 1..Len(refusals)
        BY DEF AbuseTypes
      <3> HIDE DEF r, L
      <3>5. Remembers(reports', book', now)
        <4> SUFFICES ASSUME NEW i \in DOMAIN reports'
                     PROVE  \/ /\ reports'[i].ip \in DOMAIN book' /\ book'[reports'[i].ip].done
                               /\ reports'[i].at <= book'[reports'[i].ip].times[1]
                            \/ now > reports'[i].at + Rereport
          BY DEF Remembers
        <4>1. CASE i \in 1..L
          BY <2>4, <3>1, <3>2, <4>1
        <4>2. CASE i = L + 1
          <5>1. reports'[i] = r /\ now <= now
            BY <2>1, <3>1, <4>2
          <5> QED
            BY <3>3, <3>4, <5>1
        <4> QED
          BY <3>1, <4>1, <4>2
      <3>6. NoEarlyRereport'
        <4> SUFFICES ASSUME NEW i \in DOMAIN reports', NEW j \in DOMAIN reports', i < j,
                            reports'[i].ip = reports'[j].ip
                     PROVE  reports'[j].at > reports'[i].at + Rereport
          BY DEF NoEarlyRereport
        <4>1. i \in 1..L
          BY <3>1
        <4>2. CASE j \in 1..L
          <5>1. reports'[i] = reports[i] /\ reports'[j] = reports[j] /\ i \in DOMAIN reports /\ j \in DOMAIN reports
            BY <3>1, <4>1, <4>2
          <5> QED
            BY <5>1 DEF NoEarlyRereport
        <4>3. CASE j = L + 1
          <5>1. reports'[i] = reports[i] /\ reports'[j] = r /\ i \in DOMAIN reports
            BY <3>1, <4>1, <4>3
          <5> QED
            BY <2>2, <3>4, <5>1
        <4> QED
          BY <3>1, <4>2, <4>3
      <3>7. NoReportAsleep'
        <4> SUFFICES ASSUME NEW i \in DOMAIN reports', NEW k \in 1..reports'[i].k
                     PROVE  reports'[i].at >= refusals[k].until
          BY <1>0 DEF NoReportAsleep
        <4>1. CASE i \in 1..L
          <5>1. reports'[i] = reports[i] /\ i \in DOMAIN reports
            BY <3>1, <4>1
          <5> QED
            BY <5>1 DEF NoReportAsleep
        <4>2. CASE i = L + 1
          <5>1. reports'[i] = r
            BY <3>1, <4>2
          <5>2. k \in DOMAIN refusals /\ reports'[i].at = now
            BY <3>4, <5>1
          <5>3. refusals[k].until <= now
            BY <1>0, <2>1, <5>2 DEF BookIsKept, SilentUntil
          <5>4. refusals[k].until \in Nat
            <6>1. refusals[k] \in Answers
              BY <5>2, Times
            <6> QED
              BY <6>1 DEF Answers
          <5> QED
            BY <2>1, <5>2, <5>3, <5>4
        <4> QED
          BY <3>1, <4>1, <4>2
      <3> QED
        BY <2>5, <3>5, <3>6, <3>7
    <2> QED
      BY <1>2, <2>6, <2>7
  <1> QED
    BY <1>1, <1>2, AttemptForm

\* What is sent, and what was answered by then, does not change.
LEMMA KeptByRest ==
    ASSUME AbuseTypes, ReportsInThePast, NoEarlyRereport, NoReportAsleep, ~ lost, ~ Overlapping,
           reports' = reports,
           refusals' = refusals \/ \E a \in Answers : refusals' = Append(refusals, a)
    PROVE  NoEarlyRereport' /\ NoReportAsleep'
  <1>1. NoEarlyRereport'
    BY DEF NoEarlyRereport
  <1>2. ASSUME NEW i \in DOMAIN reports, NEW k \in 1..reports[i].k
        PROVE  reports[i].at >= refusals'[k].until
    <2>1. reports[i] \in Sent /\ reports[i].k <= Len(refusals)
      BY Times DEF ReportsInThePast
    <2>2. k \in 1..Len(refusals)
      <3>1. reports[i].k \in Nat /\ Len(refusals) \in Nat
        BY <2>1 DEF Sent, AbuseTypes
      <3> QED
        BY <1>2, <2>1, <3>1
    <2>3. refusals'[k] = refusals[k]
      <3>1. refusals \in Seq(Answers)
        BY Times
      <3> QED
        BY <2>2, <3>1, OneMore
    <2> QED
      BY <1>2, <2>3 DEF NoReportAsleep
  <1> QED
    BY <1>1, <1>2 DEF NoReportAsleep

\* A refusal of an awake plugin: it dumps the logbook of the end of the sleep.
LEMMA KeptByRefusal ==
    ASSUME AbuseTypes, AwakeIsHeld, BookIsKept, ~ Overlapping', 
           NEW i \in DOMAIN flight, NEW retry \in RetryAfter, RateLimited(i, retry)
    PROVE  BookIsKept'
  <1> DEFINE h == now + retry
             s == [on |-> TRUE, until |-> h]
             a == [until |-> h, again |-> asleep.on]
  <1>1. /\ up /\ up' /\ h \in Nat /\ now <= h /\ asleep' = s /\ wakeups' = wakeups \cup {h}
        /\ refusals' = Append(refusals, a) /\ UNCHANGED <<now, reports>>
    BY RefusalForm
  <1>2. s \in Sleeps /\ s.on /\ s.until = h /\ a.until = h /\ a.again = asleep.on
    BY <1>1 DEF Sleeps
  <1>3. a \in Answers
    BY <1>1 DEF Answers, AbuseTypes, Sleeps
  <1> HIDE DEF a
  <1>4. /\ Len(refusals) \in Nat /\ DOMAIN refusals = 1..Len(refusals)
        /\ DOMAIN refusals' = 1..(Len(refusals) + 1) /\ refusals'[Len(refusals) + 1] = a
        /\ \A k \in 1..Len(refusals) : refusals'[k] = refusals[k]
    BY <1>1, <1>3, Times, OneMore
  <1>5. ~ asleep.on
    BY <1>2, <1>4 DEF Overlapping
  <1>6. Held
    BY <1>1, <1>5 DEF AwakeIsHeld
  <1>7. /\ book' = Cleaned(book, h, tolerance)
        /\ DumpMade(s)
    BY <1>1, <1>6, RefusalForm
  <1> HIDE DEF s, h
  <1>8. newest'.book = book' /\ newest'.asleep = s
    BY <1>1, <1>2, <1>7, Dumped
  <1>9. newest'.book = book' /\ newest'.asleep = s /\ Horizon' = h
    BY <1>1, <1>2, <1>8 DEF Horizon
  <1>10. /\ now \in Nat /\ reports \in Seq(Sent) /\ refusals \in Seq(Answers) /\ Horizon = now
         /\ book \in LogBooks
    BY <1>5, Times DEF Horizon, AbuseTypes
  <1>11. SilentUntil(refusals, now) /\ Remembers(reports, book, now) /\ wakeups = {}
    BY <1>1, <1>5, <1>10 DEF BookIsKept
  <1>12. Remembers(reports', book', h)
    <2>1. Remembers(reports, book, h)
      BY <1>1, <1>10, <1>11, RemembersLonger
    <2>2. Remembers(reports, Cleaned(book, h, tolerance), h)
      BY <1>1, <1>10, <2>1, RemembersCleaned
    <2> QED
      BY <1>1, <1>7, <2>2
  <1>13. SilentUntil(refusals', h)
    <2>1. SilentUntil(refusals, h)
      BY <1>1, <1>10, <1>11, SilentLonger
    <2> SUFFICES ASSUME NEW k \in DOMAIN refusals' PROVE refusals'[k].until <= h
      BY DEF SilentUntil
    <2>2. CASE k \in 1..Len(refusals)
      BY <1>4, <2>1, <2>2 DEF SilentUntil
    <2>3. CASE k = Len(refusals) + 1
      BY <1>1, <1>2, <1>4, <2>3
    <2> QED
      BY <1>4, <2>2, <2>3
  <1> QED
    BY <1>1, <1>2, <1>9, <1>11, <1>12, <1>13 DEF BookIsKept

\* A clean-up leaves what is needed, in the logbook and in the dump; so does a stop.
LEMMA KeptByCleanup ==
    ASSUME AbuseTypes, AwakeIsHeld, BookIsKept, CleanupDue \/ AbuseStop
    PROVE  BookIsKept'
  <1>1. up /\ UNCHANGED <<now, asleep, disk, reports, refusals>>
    BY CleanupDueForm, StopForm
  <1>2. /\ now \in Nat /\ reports \in Seq(Sent) /\ refusals \in Seq(Answers) /\ Horizon \in Nat
        /\ book \in LogBooks /\ asleep \in Sleeps
    BY Times DEF AbuseTypes
  <1>3. SilentUntil(refusals, Horizon) /\ Remembers(reports, book, Horizon)
    BY <1>1 DEF BookIsKept
  <1>4. Horizon' = Horizon
    BY <1>1 DEF Horizon
  <1>5. ASSUME book' = Cleaned(book, Horizon, tolerance),
               DumpMade(asleep)
        PROVE  Remembers(reports, book', Horizon) /\ newest'.book = book' /\ newest'.asleep = asleep
    <2>1. Remembers(reports, book', Horizon)
      BY <1>2, <1>3, <1>5, RemembersCleaned
    <2>2. newest'.book = book' /\ newest'.asleep = asleep
      BY <1>2, <1>5, Dumped
    <2> QED
      BY <2>1, <2>2
  <1>6. CASE CleanupDue
    <2>1. /\ up' /\ wakeups' = wakeups
          /\ book' = Cleaned(book, Horizon, tolerance)
          /\ DumpMade(asleep)
      BY <1>1, <1>6, CleanupDueForm
    <2>2. Remembers(reports, book', Horizon) /\ newest'.book = book' /\ newest'.asleep = asleep
      BY <1>5, <2>1
    <2>3. asleep.on => Horizon = asleep.until
      BY DEF Horizon
    <2>4. wakeups' = IF asleep'.on THEN {asleep'.until} ELSE {}
      BY <1>1, <2>1 DEF BookIsKept
    <2> QED
      BY <1>1, <1>3, <1>4, <2>1, <2>2, <2>3, <2>4 DEF BookIsKept
  <1>7. CASE AbuseStop
    <2>1. ~ up'
      BY <1>7, StopForm
    <2> DEFINE w == WakesAt(asleep)
    <2>2. w \in Nat /\ Horizon <= w
      BY <1>2 DEF WakesAt, Horizon, Sleeps
    <2>3. WakesAt(newest.asleep)' = WakesAt(newest'.asleep)
      BY <1>1 DEF WakesAt
    <2> HIDE DEF w
    <2>4. newest'.asleep = asleep /\ Remembers(reports, newest'.book, Horizon)
      <3>1. CASE /\ book' = Cleaned(book, Horizon, tolerance)
                 /\ DumpMade(asleep)
        BY <1>5, <3>1
      <3>2. CASE ~ Held /\ newest' = newest
        <4>1. asleep.on
          BY <1>1, <3>2 DEF AwakeIsHeld
        <4>2. Horizon = asleep.until
          BY <4>1 DEF Horizon
        <4> QED
          BY <1>1, <3>2, <4>1, <4>2 DEF BookIsKept
      <3> QED
        BY <1>7, <3>1, <3>2, StopForm
    <2>5. SilentUntil(refusals, w) /\ Remembers(reports, newest'.book, w)
      BY <1>2, <1>3, <2>2, <2>4, RemembersLonger, SilentLonger
    <2>6. WakesAt(newest.asleep)' = w
      BY <2>3, <2>4 DEF w
    <2> QED
      BY <1>1, <2>1, <2>5, <2>6 DEF BookIsKept
  <1> QED
    BY <1>6, <1>7

\* A start reads a dump that will do until the plugin is awake.
LEMMA KeptByStart ==
    ASSUME AbuseTypes, BookIsKept, NEW n \in Tolerances, AbuseStart(n), ~ lost'
    PROVE  BookIsKept'
  <1> DEFINE h == WakesAt(disk.asleep)
             c == Cleaned(disk.book, h, n)
  <1>1. /\ ~ up /\ up' /\ disk = newest /\ UNCHANGED <<now, disk, reports, refusals>>
        /\ \/ /\ disk.asleep.on /\ disk.asleep.until > now
              /\ asleep' = disk.asleep /\ wakeups' = {disk.asleep.until}
           \/ /\ ~ (disk.asleep.on /\ disk.asleep.until > now)
              /\ asleep' = Awake /\ wakeups' = {}
        /\ newest' = [exists |-> TRUE, book |-> c, asleep |-> asleep', tolerated |-> n]
        /\ DOMAIN book' = DOMAIN c
        /\ \A ip \in DOMAIN c : book'[ip] = c[ip] \/ (~ c[ip].done /\ book'[ip] = Deque(Last(c[ip].times, n), n))
    BY StartForm
  <1>2. disk = newest /\ disk.book \in LogBooks /\ h \in Nat /\ reports \in Seq(Sent)
    BY <1>1, Times, FileForm DEF AbuseTypes
  <1>3. Horizon' = h /\ wakeups' = IF asleep'.on THEN {asleep'.until} ELSE {}
    BY <1>1, AwakeForm DEF Horizon, WakesAt
  <1>a. asleep'.on => asleep'.until = h
    BY <1>3 DEF Horizon
  <1> HIDE DEF h
  <1>4. SilentUntil(refusals, h) /\ Remembers(reports, disk.book, h)
    BY <1>1, <1>2 DEF BookIsKept, h
  <1>5. Remembers(reports, c, h)
    BY <1>2, <1>4, RemembersCleaned
  <1> HIDE DEF c
  <1>6. Remembers(reports, book', h)
    BY <1>1, <1>5 DEF Remembers
  <1>7. newest'.book = c /\ newest'.asleep = asleep'
    BY <1>1
  <1> QED
    BY <1>1, <1>3, <1>a, <1>4, <1>5, <1>6, <1>7 DEF BookIsKept

\* Time goes on, and the plugin wakes up when it is due.
LEMMA KeptByTime ==
    ASSUME AbuseTypes, BookIsKept, AbuseTick \/ Wakeup
    PROVE  BookIsKept'
  <1>1. UNCHANGED <<up, book, reports, refusals>>
    BY DEF AbuseTick, Wakeup
  <1>2. newest' = newest
    BY DEF AbuseTick, Wakeup, fileVars
  <1>3. /\ now \in Nat /\ reports \in Seq(Sent) /\ refusals \in Seq(Answers) /\ Horizon \in Nat
        /\ asleep.until \in Nat /\ WakesAt(newest.asleep) \in Nat
    BY Times
  <1>4. CASE AbuseTick
    <2>1. now' = now + 1 /\ UNCHANGED <<asleep, wakeups>>
      BY <1>4 DEF AbuseTick
    <2>2. Horizon' \in Nat /\ Horizon <= Horizon'
      BY <1>3, <2>1 DEF Horizon
    <2>3. CASE up
      <3>1. SilentUntil(refusals, Horizon') /\ Remembers(reports, book, Horizon')
        BY <1>3, <2>2, <2>3, RemembersLonger, SilentLonger DEF BookIsKept
      <3> QED
        BY <1>1, <1>2, <2>1, <2>3, <3>1 DEF BookIsKept
    <2>4. CASE ~ up
      <3> DEFINE w == WakesAt(newest.asleep)
                 w2 == WakesAt(newest.asleep)'
      <3>1. newest.asleep \in Sleeps
        BY FileForm DEF AbuseTypes
      <3>2. w2 \in Nat /\ w <= w2
        BY <1>2, <1>3, <2>1, <3>1 DEF WakesAt, Sleeps
      <3>3. w \in Nat /\ SilentUntil(refusals, w) /\ Remembers(reports, newest.book, w)
        BY <1>3, <2>4 DEF BookIsKept
      <3> HIDE DEF w, w2
      <3>4. SilentUntil(refusals, w2) /\ Remembers(reports, newest.book, w2)
        BY <1>3, <3>2, <3>3, RemembersLonger, SilentLonger
      <3> QED
        BY <1>1, <1>2, <2>4, <3>4 DEF BookIsKept, w2
    <2> QED
      BY <2>3, <2>4
  <1>5. CASE Wakeup
    <2>1. PICK t \in wakeups : t <= now /\ wakeups' = wakeups \ {t}
      BY <1>5 DEF Wakeup
    <2>2. up /\ now' = now /\ asleep' = Awake
      BY <1>5 DEF Wakeup
    <2>3. asleep.on /\ t = asleep.until /\ wakeups' = {}
      BY <2>1, <2>2 DEF BookIsKept
    <2>4. Horizon = asleep.until /\ Horizon' = now /\ Horizon <= now
      BY <2>1, <2>2, <2>3, AwakeForm DEF Horizon
    <2>5. SilentUntil(refusals, now) /\ Remembers(reports, book, now)
      BY <1>3, <2>2, <2>4, RemembersLonger, SilentLonger DEF BookIsKept
    <2> QED
      BY <1>1, <2>2, <2>3, <2>4, <2>5, AwakeForm DEF BookIsKept
  <1> QED
    BY <1>4, <1>5

-----------------------------------------------------------------------------
LEMMA AbuseStep == AbuseIInv /\ [AbuseNext]_abuseVars => AbuseIInv'
  <1> SUFFICES ASSUME AbuseIInv, [AbuseNext]_abuseVars PROVE AbuseIInv'
    OBVIOUS
  <1>1. /\ AbuseTypes /\ AttemptsInOrder /\ BooksAreEarned /\ ReportsInThePast
        /\ ReportHasAttempts /\ CleanupGoesOn /\ AwakeIsHeld /\ FlightIsTold /\ OnlyReportedAgain
    BY DEF AbuseIInv
  <1>2. AbuseTypes' /\ AttemptsInOrder' /\ BooksAreEarned'
    BY <1>1, AbuseTypeStep, OrderStep, EarnedStep
  <1>3. /\ ReportsInThePast' /\ ReportHasAttempts' /\ CleanupGoesOn' /\ AwakeIsHeld'
        /\ FlightIsTold' /\ OnlyReportedAgain'
    BY <1>1, PastStep, GoesOnStep, FlightStep
  <1>4. ASSUME ~ lost', ~ Overlapping'
        PROVE  BookIsKept' /\ NoEarlyRereport' /\ NoReportAsleep'
    <2>1. ~ lost /\ ~ Overlapping
      BY <1>1, <1>4, FaultsStay
    <2>2. BookIsKept /\ NoEarlyRereport /\ NoReportAsleep
      BY <2>1 DEF AbuseIInv
    <2>3. ASSUME NEW ip \in Ips, Attempt(ip)
          PROVE  BookIsKept' /\ NoEarlyRereport' /\ NoReportAsleep'
      BY <1>1, <2>1, <2>2, <2>3, KeptByAttempt
    <2>4. ASSUME reports' = reports, refusals' = refusals, BookIsKept'
          PROVE  BookIsKept' /\ NoEarlyRereport' /\ NoReportAsleep'
      BY <1>1, <2>1, <2>2, <2>4, KeptByRest
    <2>5. ASSUME NEW i \in DOMAIN flight, NEW retry \in RetryAfter, RateLimited(i, retry)
          PROVE  BookIsKept' /\ NoEarlyRereport' /\ NoReportAsleep'
      <3>1. BookIsKept'
        BY <1>1, <1>4, <2>2, <2>5, KeptByRefusal
      <3> DEFINE a == [until |-> now + retry, again |-> asleep.on]
      <3>2. a \in Answers /\ refusals' = Append(refusals, a) /\ reports' = reports
        BY <1>1, <2>5, RefusalForm DEF Answers, AbuseTypes, Sleeps
      <3> HIDE DEF a
      <3> QED
        BY <1>1, <2>1, <2>2, <3>1, <3>2, KeptByRest
    <2>6. ASSUME NEW n \in Tolerances, AbuseStart(n)
          PROVE  BookIsKept' /\ NoEarlyRereport' /\ NoReportAsleep'
      <3>1. BookIsKept' /\ reports' = reports /\ refusals' = refusals
        BY <1>1, <1>4, <2>2, <2>6, KeptByStart DEF AbuseStart
      <3> QED
        BY <2>4, <3>1
    <2>8. CASE AbuseTick \/ Wakeup
      <3>1. BookIsKept' /\ reports' = reports /\ refusals' = refusals
        BY <1>1, <2>2, <2>8, KeptByTime DEF AbuseTick, Wakeup
      <3> QED
        BY <2>4, <3>1
    <2>9. CASE CleanupDue \/ AbuseStop
      <3>1. BookIsKept' /\ reports' = reports /\ refusals' = refusals
        BY <1>1, <2>2, <2>9, KeptByCleanup DEF CleanupDue, AbuseStop
      <3> QED
        BY <2>4, <3>1
    <2>10. CASE UNCHANGED <<up, now, asleep, wakeups, newest, book, reports, refusals>>
      <3>1. BookIsKept'
        BY <2>2, <2>10 DEF BookIsKept, Horizon, WakesAt
      <3> QED
        BY <2>4, <2>10, <3>1
    <2>11. ASSUME AbuseCrash \/ \E n \in Tolerances : StartRaises(n) PROVE FALSE
      BY <1>4, <2>11 DEF StartRaises, AbuseCrash
    <2> QED
      BY <2>3, <2>5, <2>6, <2>8, <2>9, <2>10, <2>11
         DEF AbuseNext, abuseVars, fileVars, Answered, TooLong, SendAgain, DumpWritten, DumpFails, DumpGivenUp,
             DumpsCollide, Threads
  <1> QED
    BY <1>2, <1>3, <1>4 DEF AbuseIInv

LEMMA InitAbuse == AbuseInit => AbuseIInv
  <1> SUFFICES ASSUME AbuseInit PROVE AbuseIInv
    OBVIOUS
  <1>1. AbuseTypes
    BY InitTypes
  <1>2. /\ DOMAIN book = {} /\ DOMAIN disk.book = {} /\ dumps = {} /\ DOMAIN reports = {}
        /\ DOMAIN refusals = {} /\ DOMAIN flight = {} /\ DOMAIN waiting = {} /\ resent = {}
        /\ \A ip \in Ips : DOMAIN attempts[ip] = {}
    BY EmptyBook DEF AbuseInit, NoFile
  <1>3. AttemptsInOrder /\ ReportsInThePast /\ ReportHasAttempts /\ NoEarlyRereport /\ NoReportAsleep
    BY <1>2 DEF AttemptsInOrder, ReportsInThePast, ReportHasAttempts, NoEarlyRereport, NoReportAsleep
  <1>4. BooksAreEarned
    BY <1>2 DEF BooksAreEarned, BookIsEarned
  <1>5. CleanupGoesOn /\ AwakeIsHeld
    BY DEF AbuseInit, CleanupGoesOn, AwakeIsHeld
  <1>7. FlightIsTold /\ OnlyReportedAgain
    BY <1>2 DEF FlightIsTold, OnlyReportedAgain
  <1>6. BookIsKept
    BY <1>2 DEF AbuseInit, BookIsKept, SilentUntil, Remembers
  <1> QED
    BY <1>1, <1>3, <1>4, <1>5, <1>6, <1>7 DEF AbuseIInv

LEMMA AbuseInvHolds == AbuseIInv => AbuseInv
  <1> SUFFICES ASSUME AbuseIInv PROVE AbuseInv
    OBVIOUS
  <1>1. AbuseTypes
    BY DEF AbuseIInv
  <1>2. NoEarlyRereport /\ ReportHasAttempts /\ SleepIsKept /\ CleanupGoesOn
    <2>1. ReportHasAttempts /\ CleanupGoesOn /\ OnlyReportedAgain
      BY DEF AbuseIInv
    <2>2. CASE ~ lost /\ ~ Overlapping
      BY <2>1, <2>2 DEF AbuseIInv, SleepIsKept
    <2>3. CASE lost \/ Overlapping
      BY <2>1, <2>3 DEF NoEarlyRereport, NoReportAsleep, SleepIsKept
    <2> QED
      BY <2>2, <2>3
  <1>3. AbuseTypeOK
    <2>1. DOMAIN book \subseteq Ips /\ \A ip \in DOMAIN book : book[ip].done => Len(book[ip].times) = 1
      BY <1>1, BookForm, EntryForm DEF AbuseTypes
    <2>2. now \in 1..MaxTime /\ tolerance \in Tolerances
      BY <1>1 DEF AbuseTypes
    <2>3. \A i \in DOMAIN flight : flight[i] \in Ips
      BY <1>1 DEF AbuseTypes
    <2> QED
      BY <2>1, <2>2, <2>3 DEF AbuseTypeOK
  <1> QED
    BY <1>2, <1>3 DEF AbuseInv

\* AbuseIPDB gets reports that are earned by their attempts; none that is new while
\* it asked for silence and none too early, as long as every start reads the last
\* dump and no two refusals overlap; what is sent again was reported; and the
\* clean-up goes on.  That is so over restarts, crashes, dumps that fail, collide or
\* are given up, and answers with a Retry-After the plugin does not keep
\* (abuseipdb.py write, cleanup_and_dump_state, write_dump_file, rate_limit_handler).
THEOREM AbuseCorrect == AbuseSpec => []AbuseInv
  BY InitAbuse, AbuseStep, AbuseInvHolds, PTL DEF AbuseSpec

-----------------------------------------------------------------------------
(***************************************************************************)
(* The SQL outputs.  Of a session and a table there is at most one query   *)
(* in the queue or one answer on its way, so every step moves one of them  *)
(* and leaves the rest.                                                    *)
(***************************************************************************)
\* The queries that wait, and the answers on their way.
Of(q) == {q[i] : i \in DOMAIN q}
Waiting == Of(queue)
Coming == Of(answers)
Underway == Waiting \cup Coming

Ids == (Tables \cup {"none"}) \X Nat
Ops == {"find", "insert", "last", "use", "end"}
Works == Tables \cup {"sessions"}
Queries == [op : Ops, of : Conns, table : Works, id : Ids]

SqlTypes ==
    /\ db \in Databases /\ known \in BOOLEAN /\ closing \in BOOLEAN
    /\ state \in [Conns -> {"new", "open", "closed"}] /\ logged \in [Conns -> SUBSET EventKinds]
    /\ queue \in Seq(Queries) /\ answers \in Seq(Queries)
    /\ ids \subseteq Ids /\ ids # {} /\ rows \in [Tables -> Nat]
    /\ DOMAIN stored \subseteq Conns
    /\ \A s \in DOMAIN stored : stored[s] \in [sensor : Ids, client : Ids, end : BOOLEAN]
    /\ errors \subseteq Conns \X Ops \X Works
    /\ repeated \subseteq Conns \X Tables /\ soon \subseteq Conns \X Tables /\ intime \subseteq Conns

\* A session is at most once at work on a table.
SameWork(x, y) == x.of = y.of /\ x.table = y.table
Different(q) == \A i, j \in DOMAIN q : SameWork(q[i], q[j]) => i = j
OneAtATime ==
    /\ Different(queue) /\ Different(answers)
    /\ \A x \in Waiting, y \in Coming : ~SameWork(x, y)

\* What is asked of which table.
Shaped ==
    /\ \A x \in Waiting : /\ x.op = "end" <=> x.table = "sessions"
                          /\ x.table = "auth" => x.op = "insert"
                          /\ x.op = "find" => x.id = NoId
    /\ \A x \in Coming : x.op \in {"find", "insert", "last"} /\ x.table \in {"sensors", "clients"}

Began(s, t) ==
    CASE t = "sensors" -> state[s] # "new"
      [] t = "sessions" -> state[s] = "closed"
      [] OTHER -> t \in logged[s]
At(s, t) == \E x \in Underway : x.of = s /\ x.table = t
\* ... and has no row yet of its own.
Before(s, t) ==
    \/ \E x \in Waiting : x.of = s /\ x.table = t /\ x.op \in {"find", "insert"}
    \/ \E x \in Coming : x.of = s /\ x.table = t /\ x.op = "find"

\* All that is known of a session comes after the event.
Caused ==
    /\ \A s \in Conns : logged[s] # {} => state[s] # "new"
    /\ \A x \in Underway : Began(x.of, x.table)
    /\ \A s \in Conns, t \in Tables : <<s, t>> \in soon \cup repeated => Began(s, t)
    /\ \A e \in errors : Began(e[1], e[3])
    /\ \A s \in DOMAIN stored : Began(s, "sensors")
    /\ \A s \in intime : Began(s, "sessions")

\* A query that raised was the last one, and one that was run again had no row before.
Unfailed ==
    /\ \A x \in Underway, e \in errors : ~(e[1] = x.of /\ e[3] = x.table)
    /\ \A s \in Conns, t \in Tables : Before(s, t) => <<s, t>> \notin repeated

\* Who came when the row was there is about to find it.
Finds(t) ==
    /\ known => rows[t] > 0
    /\ \A s \in Conns : Began(s, t) /\ <<s, t>> \notin soon =>
         /\ rows[t] > 0
         /\ \A x \in Waiting : x.of = s /\ x.table = t => x.op = "find" \/ (x.op = "use" /\ x.id = <<t, 1>>)
         /\ \A x \in Coming : x.of = s /\ x.table = t => x.op = "find" /\ x.id = <<t, 1>>

\* PostgreSQL never gets a row of these tables.
Stuck(t) ==
    db = "postgresql" =>
         /\ ~known => rows[t] = 0
         /\ ~known => \A x \in Waiting : x.table = t => x.op \in {"find", "insert"}
         /\ ~known => \A x \in Coming : x.table = t => x.op = "find" /\ x.id = NoId
         /\ known => \A s \in Conns : <<s, t>> \notin soon

Storing ==
    \A s \in Conns :
        /\ s \in DOMAIN stored => ~At(s, "sensors")
        /\ ~closing /\ Began(s, "sensors") /\ ~Failed(s) =>
              At(s, "sensors") \/ s \in DOMAIN stored \/ (db = "postgresql" /\ ~known)
        /\ db = "postgresql" /\ ~known => s \notin DOMAIN stored

\* Rows of a table that came of nothing but an early look.
Added(t) == {s \in Conns : <<s, t>> \in soon /\ ~Before(s, t)}
Again(t) == {s \in Conns : <<s, t>> \in repeated}
Bounded(t) == rows[t] <= (IF known THEN 1 ELSE 0) + Cardinality(Added(t)) + Cardinality(Again(t))

Logins == {s \in Conns : "auth" \in logged[s]}
ToCome == {s \in Conns : At(s, "auth")}
Lost == {s \in Conns : <<s, "insert", "auth">> \in errors}
Balanced ==
    ~closing => rows["auth"] + Cardinality(ToCome) + Cardinality(Lost) = Cardinality(Logins) + Cardinality(Again("auth"))

\* The end of a session is behind its row.
Ending(s) ==
    \/ \E j \in DOMAIN queue :
           /\ queue[j].of = s /\ queue[j].op = "end"
           /\ \/ s \in DOMAIN stored
              \/ \E i \in DOMAIN queue : i < j /\ queue[i].of = s /\ queue[i].op = "use" /\ queue[i].table = "sensors"
    \/ s \in DOMAIN stored /\ stored[s].end
Ended == db # "sqlite" => \A s \in intime : ~Failed(s) => Ending(s)

SqlIInv ==
    /\ SqlTypes /\ OneAtATime /\ Shaped /\ Caused /\ Unfailed
    /\ \A t \in {"sensors", "clients"} : Finds(t) /\ Stuck(t) /\ Bounded(t)
    /\ KnownIdIsUsed /\ Storing /\ Balanced /\ Ended

-----------------------------------------------------------------------------
LEMMA Joined ==
    ASSUME NEW S, NEW a \in Seq(S), NEW b \in Seq(S)
    PROVE  /\ a \o b \in Seq(S) /\ Len(a \o b) = Len(a) + Len(b) /\ DOMAIN (a \o b) = 1..(Len(a) + Len(b))
           /\ \A k \in 1..Len(a) : (a \o b)[k] = a[k]
           /\ \A k \in (Len(a) + 1)..(Len(a) + Len(b)) : (a \o b)[k] = b[k - Len(a)]
  <1>1. a \o b \in Seq(S) /\ Len(a \o b) = Len(a) + Len(b)
    BY ConcatProperties
  <1>2. DOMAIN (a \o b) = 1..(Len(a) + Len(b))
    BY <1>1, LenProperties
  <1>3. \A k \in 1..(Len(a) + Len(b)) : (a \o b)[k] = IF k <= Len(a) THEN a[k] ELSE b[k - Len(a)]
    BY ConcatProperties
  <1>4. Len(a) \in Nat /\ Len(b) \in Nat
    OBVIOUS
  <1> QED
    BY <1>1, <1>2, <1>3, <1>4

LEMMA Part ==
    ASSUME NEW S, NEW q \in Seq(S), NEW i \in Nat, NEW j \in Nat, i >= 1, j <= Len(q), i <= j + 1
    PROVE  /\ SubSeq(q, i, j) \in Seq(S) /\ Len(SubSeq(q, i, j)) = j - i + 1
           /\ \A k \in 1..(j - i + 1) : SubSeq(q, i, j)[k] = q[k + i - 1]
  <1>1. \A k \in i..j : q[k] \in S
    BY ElementOfSeq, LenProperties
  <1> QED
    BY <1>1, SubSeqProperties

\* A sequence without its element i, and with x behind its first k.
Cut(q, i) == SubSeq(q, 1, i - 1) \o SubSeq(q, i + 1, Len(q))
Into(q, k, x) == SubSeq(q, 1, k) \o <<x>> \o SubSeq(q, k + 1, Len(q))

IsCut(r, q, i) ==
    /\ DOMAIN r = 1..(Len(q) - 1)
    /\ \A k \in 1..(Len(q) - 1) : r[k] = q[IF k < i THEN k ELSE k + 1]
IsInto(r, q, k, x) ==
    /\ DOMAIN r = 1..(Len(q) + 1)
    /\ \A j \in 1..(Len(q) + 1) : r[j] = IF j <= k THEN q[j] ELSE IF j = k + 1 THEN x ELSE q[j - 1]

LEMMA RemovedAt ==
    ASSUME NEW S, NEW q \in Seq(S), NEW i \in DOMAIN q
    PROVE  Cut(q, i) \in Seq(S) /\ IsCut(Cut(q, i), q, i)
  <1> DEFINE n == Len(q)
  <1>0. n \in Nat /\ i \in 1..n /\ Len(q) = n
    BY LenProperties
  <1> HIDE DEF n
  <1> DEFINE a == SubSeq(q, 1, i - 1)
             b == SubSeq(q, i + 1, Len(q))
             x == i - 1
             y == n - i
             r == Cut(q, i)
  <1>1. x \in Nat /\ y \in Nat /\ x + y = n - 1 /\ n - 1 \in Nat
    BY <1>0
  <1>2. a \in Seq(S) /\ Len(a) = x /\ \A k \in 1..x : a[k] = q[k]
    BY <1>0, Part
  <1>3. b \in Seq(S) /\ Len(b) = y /\ \A k \in 1..y : b[k] = q[k + i]
    BY <1>0, Part
  <1>4. r = a \o b
    BY DEF Cut
  <1>5. x = i - 1
    BY <1>0
  <1> HIDE DEF a, b, x, y, r
  <1>6. /\ r \in Seq(S) /\ Len(r) = n - 1 /\ DOMAIN r = 1..(n - 1)
        /\ \A k \in 1..x : r[k] = a[k]
        /\ \A k \in (x + 1)..(n - 1) : r[k] = b[k - x]
    <2>1. /\ r \in Seq(S) /\ Len(r) = Len(a) + Len(b) /\ DOMAIN r = 1..(Len(a) + Len(b))
          /\ \A k \in 1..Len(a) : r[k] = a[k]
          /\ \A k \in (Len(a) + 1)..(Len(a) + Len(b)) : r[k] = b[k - Len(a)]
      BY <1>2, <1>3, <1>4, Joined
    <2> QED
      BY <1>1, <1>2, <1>3, <2>1
  <1>7. ASSUME NEW k \in 1..(n - 1) PROVE r[k] = q[IF k < i THEN k ELSE k + 1]
    <2>1. CASE k < i
      <3>1. k \in 1..x
        BY <1>0, <1>1, <1>5, <2>1
      <3> QED
        BY <1>2, <1>6, <2>1, <3>1
    <2>2. CASE ~(k < i)
      <3>0. k \in Nat /\ k <= n - 1 /\ i <= k /\ i \in Nat /\ n = x + y + 1 /\ i = x + 1
        BY <1>0, <1>1, <1>5, <2>2
      <3>1. k - x \in 1..y /\ k \in (x + 1)..(n - 1) /\ (k - x) + i = k + 1
        BY <1>1, <3>0
      <3>2. r[k] = b[k - x] /\ b[k - x] = q[(k - x) + i]
        BY <1>3, <1>6, <3>1
      <3> QED
        BY <2>2, <3>1, <3>2
    <2> QED
      BY <2>1, <2>2
  <1> QED
    BY <1>6, <1>7 DEF r, n, IsCut

LEMMA PutAt ==
    ASSUME NEW S, NEW q \in Seq(S), NEW k \in 0..Len(q), NEW x \in S
    PROVE  Into(q, k, x) \in Seq(S) /\ IsInto(Into(q, k, x), q, k, x)
  <1> DEFINE n == Len(q)
  <1>0. n \in Nat /\ k \in 0..n /\ Len(q) = n
    BY LenProperties
  <1> HIDE DEF n
  <1> DEFINE a == SubSeq(q, 1, k)
             b == SubSeq(q, k + 1, Len(q))
             o == <<x>>
             c == a \o o
             y == n - k
             h == k + 1
             l == n + 1
             r == Into(q, k, x)
  <1>1. k \in Nat /\ y \in Nat /\ h + y = l /\ h \in Nat /\ l \in Nat /\ 1 \in Nat /\ h = k + 1 /\ l = n + 1
    BY <1>0
  <1>2. a \in Seq(S) /\ Len(a) = k /\ \A j \in 1..k : a[j] = q[j]
    BY <1>0, Part
  <1>3. b \in Seq(S) /\ Len(b) = y /\ \A j \in 1..y : b[j] = q[j + k]
    BY <1>0, Part
  <1>4. o \in Seq(S) /\ Len(o) = 1 /\ o[1] = x
    OBVIOUS
  <1>5. c = a \o o
    OBVIOUS
  <1>9. r = c \o b
    BY DEF Into
  <1> HIDE DEF a, b, o, y, r, c, h, l
  <1>6. /\ c \in Seq(S) /\ Len(c) = h
        /\ \A j \in 1..k : c[j] = a[j]
        /\ \A j \in (k + 1)..h : c[j] = o[j - k]
    <2>1. /\ c \in Seq(S) /\ Len(c) = Len(a) + Len(o)
          /\ \A j \in 1..Len(a) : c[j] = a[j]
          /\ \A j \in (Len(a) + 1)..(Len(a) + Len(o)) : c[j] = o[j - Len(a)]
      BY <1>2, <1>4, <1>5, Joined
    <2> QED
      BY <1>1, <1>2, <1>4, <2>1
  <1>7. /\ r \in Seq(S) /\ Len(r) = l /\ DOMAIN r = 1..l
        /\ \A j \in 1..h : r[j] = c[j]
        /\ \A j \in (h + 1)..l : r[j] = b[j - h]
    <2>1. /\ r \in Seq(S) /\ Len(r) = Len(c) + Len(b) /\ DOMAIN r = 1..(Len(c) + Len(b))
          /\ \A j \in 1..Len(c) : r[j] = c[j]
          /\ \A j \in (Len(c) + 1)..(Len(c) + Len(b)) : r[j] = b[j - Len(c)]
      <3> DEFINE z == c \o b
      <3>1. /\ z \in Seq(S) /\ Len(z) = Len(c) + Len(b) /\ DOMAIN z = 1..(Len(c) + Len(b))
            /\ \A j \in 1..Len(c) : z[j] = c[j]
            /\ \A j \in (Len(c) + 1)..(Len(c) + Len(b)) : z[j] = b[j - Len(c)]
        BY <1>3, <1>6, Joined
      <3>2. z = r
        BY <1>9
      <3> HIDE DEF z
      <3> QED
        BY <3>1, <3>2
    <2> QED
      BY <1>1, <1>3, <1>6, <2>1
  <1>8. ASSUME NEW j \in 1..l
        PROVE  r[j] = IF j <= k THEN q[j] ELSE IF j = k + 1 THEN x ELSE q[j - 1]
    <2>1. CASE j <= k
      <3>1. j \in 1..k /\ j \in 1..h
        BY <1>1, <2>1
      <3> QED
        BY <1>2, <1>6, <1>7, <2>1, <3>1
    <2>2. CASE j = h
      <3>1. j \in (k + 1)..h /\ j \in 1..h /\ j - k = 1 /\ ~(j <= k)
        BY <1>1, <2>2
      <3> QED
        BY <1>1, <1>4, <1>6, <1>7, <2>2, <3>1
    <2>3. CASE ~(j <= k) /\ j # h
      <3>1. j \in (h + 1)..l /\ j - h \in 1..y /\ (j - h) + k = j - 1
        BY <1>1, <2>3
      <3>2. r[j] = b[j - h] /\ b[j - h] = q[(j - h) + k]
        BY <1>3, <1>7, <3>1
      <3> QED
        BY <1>1, <2>3, <3>1, <3>2
    <2> QED
      BY <2>1, <2>2, <2>3
  <1> QED
    BY <1>1, <1>7, <1>8 DEF r, n, IsInto
\* Of a sequence of different work: what a removal and an insertion leave.
LEMMA RemovedWork ==
    ASSUME NEW q \in Seq(Queries), Different(q), NEW i \in DOMAIN q, NEW r, IsCut(r, q, i)
    PROVE  Different(r) /\ Of(r) = Of(q) \ {q[i]}
  <1> DEFINE n == Len(q)
  <1>0. /\ n \in Nat /\ DOMAIN q = 1..n /\ i \in 1..n /\ DOMAIN r = 1..(n - 1)
        /\ \A k \in 1..(n - 1) : r[k] = q[IF k < i THEN k ELSE k + 1]
    BY LenProperties DEF IsCut
  <1> HIDE DEF n
  <1>2. Different(r)
    <2> SUFFICES ASSUME NEW j \in 1..(n - 1), NEW k \in 1..(n - 1), SameWork(r[j], r[k]) PROVE j = k
      BY <1>0 DEF Different
    <2> DEFINE f(m) == IF m < i THEN m ELSE m + 1
    <2>1. f(j) \in 1..n /\ f(k) \in 1..n /\ r[j] = q[f(j)] /\ r[k] = q[f(k)]
      BY <1>0
    <2>2. f(j) = f(k)
      <3> HIDE DEF f
      <3> QED
        BY <1>0, <2>1 DEF Different
    <2> QED
      BY <1>0, <2>2
  <1>3. ASSUME NEW x PROVE x \in Of(r) <=> x \in Of(q) \ {q[i]}
    <2>1. ASSUME x \in Of(r) PROVE x \in Of(q) \ {q[i]}
      <3>1. PICK k \in 1..(n - 1) : x = r[k]
        BY <1>0, <2>1 DEF Of
      <3> DEFINE m == IF k < i THEN k ELSE k + 1
      <3>2. m \in 1..n /\ m # i /\ x = q[m]
        BY <1>0, <3>1
      <3>3. x # q[i]
        BY <1>0, <3>2 DEF Different, SameWork
      <3> QED
        BY <1>0, <3>2, <3>3 DEF Of
    <2>2. ASSUME x \in Of(q), x # q[i] PROVE x \in Of(r)
      <3>1. PICK m \in 1..n : x = q[m]
        BY <1>0, <2>2 DEF Of
      <3>2. m # i
        BY <1>0, <2>2, <3>1
      <3> DEFINE k == IF m < i THEN m ELSE m - 1
      <3>3. k \in 1..(n - 1) /\ m = IF k < i THEN k ELSE k + 1
        BY <1>0, <3>2
      <3>4. r[k] = x
        BY <1>0, <3>1, <3>3
      <3> QED
        BY <1>0, <3>3, <3>4 DEF Of
    <2> QED
      BY <1>0, <2>1, <2>2
  <1> QED
    BY <1>0, <1>2, <1>3

LEMMA PutWork ==
    ASSUME NEW q \in Seq(Queries), Different(q), NEW k \in 0..Len(q), NEW x, \A y \in Of(q) : ~SameWork(y, x),
           NEW r, IsInto(r, q, k, x)
    PROVE  Different(r) /\ Of(r) = Of(q) \cup {x}
  <1> DEFINE n == Len(q)
  <1>0. /\ n \in Nat /\ DOMAIN q = 1..n /\ k \in 0..n /\ DOMAIN r = 1..(n + 1)
        /\ \A j \in 1..(n + 1) : r[j] = IF j <= k THEN q[j] ELSE IF j = k + 1 THEN x ELSE q[j - 1]
    BY LenProperties DEF IsInto
  <1> HIDE DEF n
  <1>2. \A j \in DOMAIN r : j # k + 1 =>
            LET m == IF j <= k THEN j ELSE j - 1 IN m \in 1..n /\ r[j] = q[m] /\ r[j] \in Of(q)
    BY <1>0 DEF Of
  <1>3. r[k + 1] = x /\ k + 1 \in DOMAIN r
    BY <1>0
  <1>4. Different(r)
    <2> SUFFICES ASSUME NEW j \in DOMAIN r, NEW m \in DOMAIN r, SameWork(r[j], r[m]) PROVE j = m
      BY DEF Different
    <2>1. CASE j = k + 1 /\ m # k + 1
      <3>1. r[m] \in Of(q) /\ SameWork(r[m], x)
        BY <1>0, <1>2, <1>3, <2>1 DEF SameWork
      <3> QED
        BY <1>0, <3>1
    <2>2. CASE j # k + 1 /\ m = k + 1
      <3>1. r[j] \in Of(q) /\ SameWork(r[j], x)
        BY <1>0, <1>2, <1>3, <2>2 DEF SameWork
      <3> QED
        BY <1>0, <3>1
    <2>3. CASE j # k + 1 /\ m # k + 1
      <3> DEFINE f(p) == IF p <= k THEN p ELSE p - 1
      <3>1. f(j) \in 1..n /\ f(m) \in 1..n /\ r[j] = q[f(j)] /\ r[m] = q[f(m)]
        BY <1>0, <1>2, <2>3
      <3>2. f(j) = f(m)
        <4> HIDE DEF f
        <4> QED
          BY <1>0, <3>1 DEF Different
      <3> QED
        BY <1>0, <2>3, <3>2
    <2> QED
      BY <1>0, <2>1, <2>2, <2>3
  <1>5. ASSUME NEW y PROVE y \in Of(r) <=> y \in Of(q) \cup {x}
    <2>1. ASSUME y \in Of(r) PROVE y \in Of(q) \cup {x}
      BY <1>0, <1>2, <1>3, <2>1 DEF Of
    <2>2. ASSUME y \in Of(q) PROVE y \in Of(r)
      <3>1. PICK m \in 1..n : y = q[m]
        BY <1>0, <2>2 DEF Of
      <3> DEFINE j == IF m <= k THEN m ELSE m + 1
      <3>2. j \in DOMAIN r /\ r[j] = q[m]
        BY <1>0
      <3> QED
        BY <1>0, <3>1, <3>2 DEF Of
    <2>3. x \in Of(r)
      BY <1>0, <1>3 DEF Of
    <2> QED
      BY <1>0, <2>1, <2>2, <2>3
  <1> QED
    BY <1>4, <1>5

-----------------------------------------------------------------------------
\* Queries, and the moves of a query.
LEMMA QueryForm ==
    ASSUME NEW x \in Queries, NEW i \in Ids
    PROVE  /\ x.op \in Ops /\ x.of \in Conns /\ x.table \in Works /\ x.id \in Ids
           /\ [x EXCEPT !.id = i] \in Queries /\ [x EXCEPT !.id = i].id = i
           /\ [x EXCEPT !.id = i].op = x.op /\ SameWork([x EXCEPT !.id = i], x)
  BY DEF Queries, SameWork

LEMMA QueriesForm ==
    ASSUME NEW s \in Conns, NEW t \in Works, NEW i \in Ids
    PROVE  /\ Find(s, t) \in Queries /\ Find(s, t).op = "find" /\ Find(s, t).of = s /\ Find(s, t).table = t
           /\ Find(s, t).id = NoId
           /\ Insert(s, t) \in Queries /\ Insert(s, t).op = "insert" /\ Insert(s, t).of = s /\ Insert(s, t).table = t
           /\ LastId(s, t) \in Queries /\ LastId(s, t).op = "last" /\ LastId(s, t).of = s /\ LastId(s, t).table = t
           /\ Use(s, t, i) \in Queries /\ Use(s, t, i).op = "use" /\ Use(s, t, i).of = s /\ Use(s, t, i).table = t
           /\ Use(s, t, i).id = i
           /\ SetEnd(s) \in Queries /\ SetEnd(s).op = "end" /\ SetEnd(s).of = s /\ SetEnd(s).table = "sessions"
  BY DEF Queries, Ops, Works, Ids, Tables, NoId, Find, Insert, LastId, Use, SetEnd

LEMMA NoIdIsId == NoId \in Ids
  BY DEF NoId, Ids

LEMMA AddWork ==
    ASSUME queue \in Seq(Queries), answers \in Seq(Queries), OneAtATime, NEW q \in Queries,
           \A x \in Waiting : ~SameWork(x, q), Queued(q)
    PROVE  /\ queue' \in Seq(Queries) /\ Different(queue')
           /\ Waiting' = IF closing THEN Waiting ELSE Waiting \cup {q}
           /\ db # "sqlite" => queue' = IF closing THEN queue ELSE Append(queue, q)
  <1> DEFINE n == Len(queue)
  <1>1. n \in Nat /\ DOMAIN queue = 1..n
    OBVIOUS
  <1>3. \A x \in Of(queue) : ~SameWork(x, q)
    BY DEF Waiting
  <1>4. CASE closing
    BY <1>4 DEF Queued, OneAtATime, Waiting
  <1>5. CASE ~closing /\ db # "sqlite"
    <2>1. queue' = Append(queue, q)
      BY <1>5 DEF Queued, Put
    <2>2. queue' \in Seq(Queries) /\ IsInto(queue', queue, n, q) /\ n \in 0..Len(queue)
      BY <1>1, <2>1 DEF IsInto
    <2>3. Different(queue') /\ Of(queue') = Of(queue) \cup {q}
      BY <1>3, <2>2, PutWork DEF OneAtATime
    <2> QED
      BY <1>5, <2>1, <2>2, <2>3 DEF Waiting
  <1>6. CASE ~closing /\ db = "sqlite"
    <2> DEFINE K == {i \in DOMAIN queue : queue[i].of <= q.of}
               k == Cardinality(K)
    <2>1. k \in 0..Len(queue)
      <3>1. IsFiniteSet(DOMAIN queue) /\ Cardinality(DOMAIN queue) = n
        <4>1. IsFiniteSet(1..n) /\ Cardinality(1..n) = IF 1 > n THEN 0 ELSE n - 1 + 1
          <5>1. 1 \in Int /\ n \in Int
            BY <1>1
          <5> HIDE DEF n
          <5> QED
            BY <5>1, FS_Interval
        <4> QED
          BY <1>1, <4>1
      <3>2. K \subseteq DOMAIN queue
        OBVIOUS
      <3>3. k \in Nat /\ k <= n
        BY <3>1, <3>2, FS_Subset, FS_CardinalityType
      <3> QED
        BY <1>1, <3>3
    <2>2. queue' = Into(queue, k, q)
      BY <1>6 DEF Queued, Put, Into
    <2> HIDE DEF k
    <2>3. queue' \in Seq(Queries) /\ IsInto(queue', queue, k, q)
      BY <2>1, <2>2, PutAt
    <2>4. Different(queue') /\ Of(queue') = Of(queue) \cup {q}
      BY <1>3, <2>1, <2>3, PutWork DEF OneAtATime
    <2> QED
      BY <1>6, <2>3, <2>4 DEF Waiting
  <1> QED
    BY <1>4, <1>5, <1>6

\* An event asks for something new.
LEMMA AskWork ==
    ASSUME queue \in Seq(Queries), answers \in Seq(Queries), OneAtATime, NEW q \in Queries,
           \A x \in Underway : ~SameWork(x, q), Queued(q), answers' = answers
    PROVE  /\ queue' \in Seq(Queries) /\ OneAtATime' /\ Coming' = Coming
           /\ Waiting' = IF closing THEN Waiting ELSE Waiting \cup {q}
           /\ db # "sqlite" => queue' = IF closing THEN queue ELSE Append(queue, q)
  <1>1. /\ queue' \in Seq(Queries) /\ Different(queue')
        /\ Waiting' = IF closing THEN Waiting ELSE Waiting \cup {q}
        /\ db # "sqlite" => queue' = IF closing THEN queue ELSE Append(queue, q)
    BY AddWork DEF Underway
  <1>2. Coming' = Coming
    BY DEF Coming
  <1> QED
    BY <1>1, <1>2 DEF OneAtATime, Underway, SameWork

LEMMA TakeWork ==
    ASSUME queue \in Seq(Queries), OneAtATime, NEW i \in DOMAIN queue, queue' = Without(i)
    PROVE  /\ queue' \in Seq(Queries) /\ Different(queue') /\ Waiting' = Waiting \ {queue[i]} /\ queue[i] \in Waiting
           /\ queue[i] \in Queries /\ \A x \in Waiting' : ~SameWork(x, queue[i])
  <1>2. queue' = Cut(queue, i)
    BY DEF Without, Cut
  <1>3. queue' \in Seq(Queries) /\ IsCut(queue', queue, i)
    BY <1>2, RemovedAt
  <1>4. Different(queue') /\ Of(queue') = Of(queue) \ {queue[i]}
    BY <1>3, RemovedWork DEF OneAtATime
  <1>5. queue[i] \in Waiting /\ queue[i] \in Queries
    BY DEF Waiting, Of
  <1>6. \A x \in Waiting' : ~SameWork(x, queue[i])
    BY <1>4 DEF OneAtATime, Different, Waiting, Of
  <1> QED
    BY <1>3, <1>4, <1>5, <1>6 DEF Waiting

\* A query is run and answers nothing.
LEMMA DropWork ==
    ASSUME queue \in Seq(Queries), answers \in Seq(Queries), OneAtATime, NEW i \in DOMAIN queue,
           queue' = Without(i), answers' = answers
    PROVE  /\ queue' \in Seq(Queries) /\ OneAtATime' /\ Coming' = Coming
           /\ Waiting' = Waiting \ {queue[i]} /\ queue[i] \in Waiting /\ queue[i] \in Queries
           /\ \A x \in Underway' : ~SameWork(x, queue[i])
  BY TakeWork DEF OneAtATime, Underway, Coming, SameWork

\* A query is run and answers a.
LEMMA AnswerWork ==
    ASSUME queue \in Seq(Queries), answers \in Seq(Queries), OneAtATime, NEW i \in DOMAIN queue,
           queue' = Without(i), NEW a \in Queries, SameWork(a, queue[i]), answers' = Append(answers, a)
    PROVE  /\ queue' \in Seq(Queries) /\ answers' \in Seq(Queries) /\ OneAtATime' /\ Coming' = Coming \cup {a}
           /\ Waiting' = Waiting \ {queue[i]} /\ queue[i] \in Waiting /\ queue[i] \in Queries
           /\ \A x \in Waiting' \cup Coming : ~SameWork(x, a)
  <1> DEFINE n == Len(answers)
  <1>1. n \in Nat /\ DOMAIN answers = 1..n
    OBVIOUS
  <1>2. answers' \in Seq(Queries) /\ IsInto(answers', answers, n, a) /\ n \in 0..Len(answers)
    BY <1>1 DEF IsInto
  <1>4. /\ queue' \in Seq(Queries) /\ Different(queue') /\ Waiting' = Waiting \ {queue[i]} /\ queue[i] \in Waiting
        /\ queue[i] \in Queries /\ \A x \in Waiting' : ~SameWork(x, queue[i])
    BY TakeWork
  <1>5. \A x \in Of(answers) : ~SameWork(x, a)
    BY <1>4 DEF OneAtATime, Coming, SameWork
  <1> HIDE DEF n
  <1>7. Different(answers') /\ Of(answers') = Of(answers) \cup {a}
    BY <1>2, <1>5, PutWork DEF OneAtATime
  <1>8. \A x \in Waiting' \cup Coming : ~SameWork(x, a)
    BY <1>4, <1>5 DEF Coming, SameWork
  <1> QED
    BY <1>2, <1>4, <1>7, <1>8 DEF OneAtATime, Coming, SameWork

\* A coroutine goes on with its answer.
LEMMA ResumeWork ==
    ASSUME queue \in Seq(Queries), answers \in Seq(Queries), OneAtATime, answers # <<>>, answers' = Tail(answers),
           NEW q \in Queries, SameWork(q, Head(answers)), Queued(q)
    PROVE  /\ queue' \in Seq(Queries) /\ answers' \in Seq(Queries) /\ OneAtATime'
           /\ Coming' = Coming \ {Head(answers)} /\ Head(answers) \in Coming /\ Head(answers) \in Queries
           /\ Waiting' = IF closing THEN Waiting ELSE Waiting \cup {q}
           /\ db # "sqlite" => queue' = IF closing THEN queue ELSE Append(queue, q)
           /\ \A x \in Waiting \cup Coming' : ~SameWork(x, q)
  <1> DEFINE h == Head(answers)
  <1>1. 1 \in DOMAIN answers /\ h = answers[1]
    OBVIOUS
  <1>2. answers' \in Seq(Queries) /\ Len(answers') = Len(answers) - 1 /\ \A k \in 1..Len(answers') : answers'[k] = answers[k + 1]
    BY HeadTailProperties
  <1>3. IsCut(answers', answers, 1)
    BY <1>2 DEF IsCut
  <1>4. Different(answers') /\ Of(answers') = Of(answers) \ {answers[1]}
    BY <1>1, <1>3, RemovedWork DEF OneAtATime
  <1>5. h \in Coming /\ h \in Queries
    BY <1>1 DEF Coming, Of
  <1>6. \A x \in Waiting : ~SameWork(x, q)
    BY <1>5 DEF OneAtATime, SameWork
  <1>7. /\ queue' \in Seq(Queries) /\ Different(queue')
        /\ Waiting' = IF closing THEN Waiting ELSE Waiting \cup {q}
        /\ db # "sqlite" => queue' = IF closing THEN queue ELSE Append(queue, q)
    BY <1>6, AddWork
  <1>8. \A x \in Coming' : ~SameWork(x, q)
    BY <1>1, <1>4 DEF OneAtATime, Different, Coming, Of, SameWork
  <1>9. Coming' = Coming \ {h}
    BY <1>1, <1>4 DEF Coming
  <1> HIDE DEF h
  <1>10. \A x \in Waiting', y \in Coming' : ~SameWork(x, y)
    BY <1>7, <1>8, <1>9 DEF OneAtATime, SameWork
  <1>11. OneAtATime'
    BY <1>4, <1>7, <1>10 DEF OneAtATime
  <1> QED
    BY <1>2, <1>5, <1>6, <1>7, <1>8, <1>9, <1>11 DEF h

-----------------------------------------------------------------------------
\* A step is about one session and one table: the others are where they were.
Only(s0, t0) ==
    \A x : ~(x.of = s0 /\ x.table = t0) =>
        (x \in Waiting' <=> x \in Waiting) /\ (x \in Coming' <=> x \in Coming)

LEMMA Elsewhere ==
    ASSUME NEW s0, NEW t0, Only(s0, t0), NEW s, NEW t, ~(s = s0 /\ t = t0)
    PROVE  (At(s, t)' <=> At(s, t)) /\ (Before(s, t)' <=> Before(s, t))
  <1>1. \A x : x.of = s /\ x.table = t => (x \in Waiting' <=> x \in Waiting) /\ (x \in Coming' <=> x \in Coming)
    BY DEF Only
  <1> QED
    BY <1>1 DEF At, Before, Underway

\* What a step that asks, one that answers and one that goes on say of the other tables.
LEMMA OnlyWork ==
    ASSUME NEW q, NEW h, SameWork(h, q), Waiting' \in {Waiting, Waiting \cup {q}, Waiting \ {q}},
           Coming' \in {Coming, Coming \cup {h}, Coming \ {h}}
    PROVE  Only(q.of, q.table)
  BY DEF Only, SameWork

\* The work of a session on a table is the one query or the one answer there is.
LEMMA TheWork ==
    ASSUME OneAtATime, NEW q \in Underway
    PROVE  /\ \A x \in Underway : x.of = q.of /\ x.table = q.table => x = q
           /\ At(q.of, q.table)
           /\ q \in Waiting => q \notin Coming /\ (Before(q.of, q.table) <=> q.op \in {"find", "insert"})
           /\ q \in Coming => q \notin Waiting /\ (Before(q.of, q.table) <=> q.op = "find")
  <1>1. \A x \in Waiting, y \in Waiting : SameWork(x, y) => x = y
    BY DEF OneAtATime, Different, Waiting, Of
  <1>2. \A x \in Coming, y \in Coming : SameWork(x, y) => x = y
    BY DEF OneAtATime, Different, Coming, Of
  <1>3. \A x \in Waiting, y \in Coming : ~SameWork(x, y)
    BY DEF OneAtATime
  <1>4. \A x \in Underway : x.of = q.of /\ x.table = q.table => x = q
    BY <1>1, <1>2, <1>3 DEF Underway, SameWork
  <1>5. At(q.of, q.table)
    BY DEF At
  <1>6. q \in Waiting => q \notin Coming
    BY <1>3 DEF SameWork
  <1> QED
    BY <1>4, <1>5, <1>6 DEF Before, Underway

\* What SqlIInv says, to cite in parts.
LEMMA Parts ==
    ASSUME SqlIInv
    PROVE  /\ SqlTypes /\ OneAtATime /\ Shaped /\ Caused /\ Unfailed /\ KnownIdIsUsed /\ Storing /\ Balanced /\ Ended
           /\ \A t \in {"sensors", "clients"} : Finds(t) /\ Stuck(t) /\ Bounded(t)
           /\ queue \in Seq(Queries) /\ answers \in Seq(Queries) /\ Waiting \subseteq Queries /\ Coming \subseteq Queries
  BY DEF SqlIInv, SqlTypes, Waiting, Coming, Of

\* Rows stay within their bound when none is added and no one is back before his own.
LEMMA StillBounded ==
    ASSUME SqlTypes, NEW t, Bounded(t), rows'[t] = rows[t], known' = known, soon \subseteq soon',
           \A s \in Conns : <<s, t>> \in repeated' <=> <<s, t>> \in repeated,
           \A s \in Conns : <<s, t>> \in soon /\ Before(s, t)' => Before(s, t), rows[t] \in Nat
    PROVE  Bounded(t)'
  <1>1. Added(t) \subseteq Added(t)' /\ Again(t)' = Again(t)
    BY DEF Added, Again
  <1>2. IsFiniteSet(Added(t)') /\ IsFiniteSet(Again(t))
    <2>1. Added(t)' \subseteq Conns /\ Again(t) \subseteq Conns
      BY DEF Added, Again
    <2> QED
      BY <2>1, SqlAssumption, FS_Subset
  <1>3. IsFiniteSet(Added(t)) /\ Cardinality(Added(t)) <= Cardinality(Added(t)')
    BY <1>1, <1>2, FS_Subset
  <1>4. Cardinality(Added(t)) \in Nat /\ Cardinality(Added(t)') \in Nat /\ Cardinality(Again(t)) \in Nat
    BY <1>2, <1>3, FS_CardinalityType
  <1> QED
    BY <1>1, <1>3, <1>4 DEF Bounded

\* The logins are where they were.
LEMMA StillBalanced ==
    ASSUME Balanced, closing => closing', rows'["auth"] = rows["auth"], repeated' = repeated,
           \A s \in Conns : ("auth" \in logged'[s] <=> "auth" \in logged[s]) /\ (At(s, "auth")' <=> At(s, "auth")),
           \A s \in Conns : <<s, "insert", "auth">> \in errors' <=> <<s, "insert", "auth">> \in errors
    PROVE  Balanced'
  <1>1. ToCome' = ToCome /\ Lost' = Lost /\ Logins' = Logins /\ Again("auth")' = Again("auth")
    BY DEF ToCome, Lost, Logins, Again
  <1>3. /\ Cardinality(ToCome)' = Cardinality(ToCome) /\ Cardinality(Lost)' = Cardinality(Lost)
        /\ Cardinality(Logins)' = Cardinality(Logins) /\ Cardinality(Again("auth"))' = Cardinality(Again("auth"))
    BY <1>1
  <1> QED
    BY <1>3 DEF Balanced

\* An end that is behind its row stays there when at most a query is put behind the others.
LEMMA EndingStays ==
    ASSUME queue \in Seq(Queries), stored' = stored, NEW x \in Queries, queue' = queue \/ queue' = Append(queue, x),
           NEW s, Ending(s)
    PROVE  Ending(s)'
  <1>1. DOMAIN queue \subseteq DOMAIN queue' /\ \A j \in DOMAIN queue : queue'[j] = queue[j]
    OBVIOUS
  <1> QED
    BY <1>1 DEF Ending

LEMMA StillEnded ==
    ASSUME queue \in Seq(Queries), Ended, db' = db, stored' = stored, intime' = intime, errors \subseteq errors',
           NEW x \in Queries, db # "sqlite" => queue' = queue \/ queue' = Append(queue, x)
    PROVE  Ended'
  <1>1. \A s : ~Failed(s)' => ~Failed(s)
    BY DEF Failed
  <1> QED
    BY <1>1, EndingStays DEF Ended

-----------------------------------------------------------------------------
\* What an event of session s asks of table t0, of which it asked nothing before.
Asks(s, t0, q) ==
    /\ Queued(q) /\ ~Began(s, t0)
    /\ \A r \in Conns, t \in Works : Began(r, t)' <=> Began(r, t) \/ (r = s /\ t = t0)
    /\ soon' = IF t0 \in {"sensors", "clients"} /\ rows[t0] = 0 THEN soon \cup {<<s, t0>>} ELSE soon
    /\ UNCHANGED <<db, known, answers, ids, rows, stored, closing, errors, repeated>>

LEMMA AskStep ==
    ASSUME SqlIInv, NEW s \in Conns, NEW t0 \in Works, NEW q \in Queries, q.of = s, q.table = t0,
           q.op = (CASE t0 = "auth" -> "insert" [] t0 = "sessions" -> "end" [] OTHER -> "find"),
           q.op = "find" => q.id = NoId, Asks(s, t0, q),
           \A r \in Conns : logged'[r] # {} => state'[r] # "new", \A r \in intime' : Began(r, "sessions")'
    PROVE  /\ queue' \in Seq(Queries) /\ answers' \in Seq(Queries) /\ OneAtATime' /\ Only(s, t0)
           /\ db # "sqlite" => queue' = IF closing THEN queue ELSE Append(queue, q)
           /\ ~closing => At(s, t0)' /\ ~At(s, t0)
           /\ Shaped' /\ Caused' /\ Unfailed' /\ KnownIdIsUsed' /\ Storing'
           /\ \A t \in {"sensors", "clients"} : Finds(t)' /\ Stuck(t)' /\ Bounded(t)'
  <1>1. SqlTypes /\ OneAtATime /\ Shaped /\ Caused /\ Unfailed /\ KnownIdIsUsed /\ Storing /\ Balanced /\ Ended
    BY Parts
  <1>2. \A t \in {"sensors", "clients"} : Finds(t) /\ Stuck(t) /\ Bounded(t)
    BY Parts
  <1>3. queue \in Seq(Queries) /\ answers \in Seq(Queries) /\ Waiting \subseteq Queries /\ Coming \subseteq Queries
    BY Parts
  <1>4. /\ q.of = s /\ q.table = t0 /\ (q.op = "find" => q.id = NoId)
        /\ (q.op = "find" <=> t0 \in {"sensors", "clients"}) /\ (q.op = "end" <=> t0 = "sessions")
        /\ (q.op = "insert" <=> t0 = "auth")
    BY DEF Works, Tables
  <1>5. /\ Queued(q)
        /\ soon' = IF t0 \in {"sensors", "clients"} /\ rows[t0] = 0 THEN soon \cup {<<s, t0>>} ELSE soon
        /\ UNCHANGED <<db, known, answers, ids, rows, stored, closing, errors, repeated>>
    BY DEF Asks
  <1>7. /\ \A r \in Conns, t \in Works : Began(r, t)' <=> Began(r, t) \/ (r = s /\ t = t0)
        /\ ~Began(s, t0)
    BY DEF Asks
  <1>8. \A x \in Underway : ~SameWork(x, q)
    BY <1>1, <1>4, <1>7 DEF Caused, SameWork
  <1>9. /\ queue' \in Seq(Queries) /\ OneAtATime' /\ Coming' = Coming
        /\ Waiting' = IF closing THEN Waiting ELSE Waiting \cup {q}
        /\ db # "sqlite" => queue' = IF closing THEN queue ELSE Append(queue, q)
    BY <1>1, <1>3, <1>4, <1>5, <1>8, AskWork
  <1>10. ~At(s, t0) /\ ~Before(s, t0)
    BY <1>4, <1>8 DEF At, Before, Underway, SameWork
  <1>11. Only(s, t0)
    BY <1>4, <1>9 DEF Only
  <1>12. \A r \in Conns : ~(<<r, t0>> \in soon /\ r = s) /\ ~(<<r, t0>> \in repeated /\ r = s)
    <2>1. soon \subseteq Conns \X Tables /\ repeated \subseteq Conns \X Tables
      BY <1>1 DEF SqlTypes
    <2>2. <<s, t0>> \in soon \cup repeated => t0 \in Tables
      BY <2>1
    <2>3. <<s, t0>> \notin soon \cup repeated
      BY <1>1, <1>7, <2>2 DEF Caused
    <2> QED
      BY <2>3
  <1>14. Shaped'
    BY <1>1, <1>4, <1>9 DEF Shaped
  <1>15. Caused'
    <2>1. \A r \in Conns : logged'[r] # {} => state'[r] # "new"
      OBVIOUS
    <2>2. \A x \in Underway' : Began(x.of, x.table)'
      <3>1. \A x \in Underway' : x \in Underway \/ x = q
        BY <1>9 DEF Underway
      <3>2. \A x \in Underway : x.of \in Conns /\ x.table \in Works /\ Began(x.of, x.table)
        BY <1>1, <1>3, QueryForm, NoIdIsId DEF Underway, Caused
      <3> QED
        BY <1>4, <1>7, <3>1, <3>2 DEF Works, Tables
    <2>3. \A r \in Conns, t \in Tables : <<r, t>> \in soon' \cup repeated' => Began(r, t)'
      <3> SUFFICES ASSUME NEW r \in Conns, NEW t \in Tables, <<r, t>> \in soon' \cup repeated' PROVE Began(r, t)'
        OBVIOUS
      <3>1. t \in Works
        BY DEF Tables, Works
      <3>2. <<r, t>> \in soon \cup repeated \/ (r = s /\ t = t0)
        BY <1>5
      <3>3. Began(r, t) \/ (r = s /\ t = t0)
        BY <1>1, <3>2 DEF Caused
      <3> QED
        BY <1>7, <3>1, <3>3
    <2>4. \A e \in errors' : Began(e[1], e[3])'
      <3>1. \A e \in errors : e[1] \in Conns /\ e[3] \in Works
        BY <1>1 DEF SqlTypes
      <3> QED
        BY <1>1, <1>5, <1>7, <3>1 DEF Caused, Works, Tables
    <2>5. \A r \in DOMAIN stored' : Began(r, "sensors")'
      BY <1>1, <1>5, <1>7 DEF Caused, SqlTypes, Works, Tables
    <2>6. \A r \in intime' : Began(r, "sessions")'
      OBVIOUS
    <2> QED
      BY <2>1, <2>2, <2>3, <2>4, <2>5, <2>6 DEF Caused
  <1>16. Unfailed'
    BY <1>1, <1>3, <1>4, <1>5, <1>7, <1>9 DEF Unfailed, Caused, Before, Underway
  <1>17. ASSUME NEW t \in {"sensors", "clients"} PROVE Finds(t)'
    <2>1. known' => rows'[t] > 0
      BY <1>2, <1>5 DEF Finds
    <2>2. ASSUME NEW r \in Conns, Began(r, t)', <<r, t>> \notin soon'
          PROVE  /\ rows'[t] > 0
                 /\ \A x \in Waiting' : x.of = r /\ x.table = t => x.op = "find" \/ (x.op = "use" /\ x.id = <<t, 1>>)
                 /\ \A x \in Coming' : x.of = r /\ x.table = t => x.op = "find" /\ x.id = <<t, 1>>
      <3>1. CASE r = s /\ t = t0
        <4>1. rows[t0] # 0 /\ rows[t0] \in Nat
          BY <1>1, <1>5, <2>2, <3>1 DEF SqlTypes, Tables
        <4>2. \A x \in Waiting' : x.of = r /\ x.table = t => x = q
          BY <1>4, <1>8, <1>9, <3>1 DEF Underway, SameWork
        <4>3. \A x \in Coming' : ~(x.of = r /\ x.table = t)
          BY <1>4, <1>8, <1>9, <3>1 DEF Underway, SameWork
        <4> QED
          BY <1>4, <1>5, <3>1, <4>1, <4>2, <4>3
      <3>2. CASE ~(r = s /\ t = t0)
        <4>1. Began(r, t) /\ <<r, t>> \notin soon
          BY <1>5, <1>7, <2>2, <3>2 DEF Works, Tables
        <4> QED
          BY <1>2, <1>5, <1>11, <3>2, <4>1 DEF Finds, Only
      <3> QED
        BY <3>1, <3>2
    <2> QED
      BY <2>1, <2>2 DEF Finds
  <1>18. ASSUME NEW t \in {"sensors", "clients"} PROVE Stuck(t)'
    <2>1. known => rows[t] # 0 /\ (t0 \in {"sensors", "clients"} => rows[t0] # 0)
      BY <1>2 DEF Finds
    <2> QED
      BY <1>2, <1>4, <1>5, <1>9, <2>1 DEF Stuck
  <1>19. ASSUME NEW t \in {"sensors", "clients"} PROVE Bounded(t)'
    <2>1. \A r \in Conns : <<r, t>> \in soon /\ Before(r, t)' => Before(r, t)
      BY <1>11, <1>12, Elsewhere
    <2>2. rows[t] \in Nat /\ rows'[t] = rows[t]
      BY <1>1, <1>5 DEF SqlTypes, Tables
    <2> QED
      BY <1>1, <1>2, <1>5, <2>1, <2>2, StillBounded
  <1>20. KnownIdIsUsed'
    BY <1>1, <1>5 DEF KnownIdIsUsed
  <1>21. Storing'
    <2>1. \A r \in Conns : Failed(r)' <=> Failed(r)
      BY <1>5 DEF Failed
    <2>2. ~closing => At(s, t0)'
      BY <1>4, <1>9 DEF At, Underway
    <2>3. t0 = "sensors" => s \notin DOMAIN stored
      BY <1>1, <1>7 DEF Caused
    <2>4. \A r \in Conns : Began(r, "sensors")' <=> Began(r, "sensors") \/ (r = s /\ t0 = "sensors")
      BY <1>7 DEF Works, Tables
    <2> QED
      BY <1>1, <1>5, <1>11, <2>1, <2>2, <2>3, <2>4, Elsewhere DEF Storing
  <1>22. ~closing => At(s, t0)'
    BY <1>4, <1>9 DEF At, Underway
  <1>23. answers' = answers
    BY <1>5
  <1> QED
    BY <1>3, <1>22, <1>23, <1>9, <1>10, <1>11, <1>14, <1>15, <1>16, <1>17, <1>18, <1>19, <1>20, <1>21

\* Nothing is asked twice: what AskStep leaves to do for each event.
LEMMA ConnectStep ==
    ASSUME SqlIInv, NEW s \in Conns, SqlConnect(s)
    PROVE  SqlIInv'
  <1> DEFINE q == Find(s, "sensors")
  <1>1. SqlTypes /\ Caused /\ Balanced /\ Ended /\ queue \in Seq(Queries)
    BY Parts
  <1>2. /\ q \in Queries /\ q.op = "find" /\ q.of = s /\ q.table = "sensors" /\ q.id = NoId
    BY QueriesForm, NoIdIsId DEF Works, Tables
  <1> HIDE DEF q
  <1>3. /\ state[s] = "new" /\ state' = [state EXCEPT ![s] = "open"] /\ Queued(q)
        /\ soon' = IF rows["sensors"] = 0 THEN soon \cup {<<s, "sensors">>} ELSE soon
        /\ UNCHANGED <<db, known, intime, logged, answers, ids, rows, stored, closing, errors, repeated>>
    BY DEF SqlConnect, q
  <1>4. state \in [Conns -> {"new", "open", "closed"}] /\ intime \subseteq Conns
    BY <1>1 DEF SqlTypes
  <1>5. /\ \A r \in Conns, t \in Works : Began(r, t)' <=> Began(r, t) \/ (r = s /\ t = "sensors")
        /\ ~Began(s, "sensors")
    BY <1>3, <1>4 DEF Began, Works, Tables
  <1>6. Asks(s, "sensors", q)
    BY <1>3, <1>5 DEF Asks
  <1>7. \A r \in Conns : logged'[r] # {} => state'[r] # "new"
    BY <1>1, <1>3, <1>4 DEF Caused
  <1>8. \A r \in intime' : Began(r, "sessions")'
    BY <1>1, <1>3, <1>4, <1>5 DEF Caused, Works
  <1>9. /\ queue' \in Seq(Queries) /\ answers' \in Seq(Queries) /\ OneAtATime' /\ Only(s, "sensors")
        /\ db # "sqlite" => queue' = IF closing THEN queue ELSE Append(queue, q)
        /\ Shaped' /\ Caused' /\ Unfailed' /\ KnownIdIsUsed' /\ Storing'
        /\ \A t \in {"sensors", "clients"} : Finds(t)' /\ Stuck(t)' /\ Bounded(t)'
    BY <1>2, <1>6, <1>7, <1>8, AskStep DEF Works, Tables
  <1>10. SqlTypes'
    BY <1>1, <1>3, <1>4, <1>9 DEF SqlTypes, Tables
  <1>11. Balanced'
    BY <1>1, <1>3, <1>9, Elsewhere, StillBalanced
  <1>12. Ended'
    BY <1>1, <1>2, <1>3, <1>9, StillEnded
  <1> QED
    BY <1>9, <1>10, <1>11, <1>12 DEF SqlIInv

LEMMA EventStep ==
    ASSUME SqlIInv, NEW s \in Conns, NEW t0 \in {"clients", "auth"}, SqlEvent(s, t0)
    PROVE  SqlIInv'
  <1> DEFINE q == IF t0 = "clients" THEN Find(s, t0) ELSE Insert(s, t0)
  <1>1. SqlTypes /\ Caused /\ Balanced /\ Ended /\ queue \in Seq(Queries)
    BY Parts
  <1>2. /\ q \in Queries /\ q.op = (IF t0 = "clients" THEN "find" ELSE "insert") /\ q.of = s /\ q.table = t0
        /\ q.op = "find" => q.id = NoId
    BY QueriesForm, NoIdIsId DEF Works, Tables
  <1>3. /\ state[s] = "open" /\ t0 \notin logged[s] /\ logged' = [logged EXCEPT ![s] = @ \cup {t0}] /\ Queued(q)
        /\ soon' = IF t0 = "clients" /\ rows[t0] = 0 THEN soon \cup {<<s, t0>>} ELSE soon
        /\ UNCHANGED <<db, known, intime, state, answers, ids, rows, stored, closing, errors, repeated>>
    BY DEF SqlEvent
  <1> HIDE DEF q
  <1>4. /\ logged' \in [Conns -> SUBSET EventKinds] /\ intime \subseteq Conns
        /\ \A r \in Conns, t \in {"clients", "auth"} : t \in logged'[r] <=> t \in logged[r] \/ (r = s /\ t = t0)
    BY <1>1, <1>3 DEF SqlTypes, EventKinds
  <1>5. /\ \A r \in Conns, t \in Works : Began(r, t)' <=> Began(r, t) \/ (r = s /\ t = t0)
        /\ ~Began(s, t0)
    BY <1>3, <1>4 DEF Began, Works, Tables
  <1>6. Asks(s, t0, q)
    BY <1>3, <1>5 DEF Asks
  <1>7. \A r \in Conns : logged'[r] # {} => state'[r] # "new"
    <2>1. \A r \in Conns : r # s => logged'[r] = logged[r]
      BY <1>1, <1>3 DEF SqlTypes
    <2> QED
      BY <1>1, <1>3, <2>1 DEF Caused
  <1>8. \A r \in intime' : Began(r, "sessions")'
    BY <1>1, <1>3, <1>4, <1>5 DEF Caused, Works
  <1>9. /\ queue' \in Seq(Queries) /\ answers' \in Seq(Queries) /\ OneAtATime' /\ Only(s, t0)
        /\ db # "sqlite" => queue' = IF closing THEN queue ELSE Append(queue, q)
        /\ ~closing => At(s, t0)' /\ ~At(s, t0)
        /\ Shaped' /\ Caused' /\ Unfailed' /\ KnownIdIsUsed' /\ Storing'
        /\ \A t \in {"sensors", "clients"} : Finds(t)' /\ Stuck(t)' /\ Bounded(t)'
    <2>1. q.op = (CASE t0 = "auth" -> "insert" [] t0 = "sessions" -> "end" [] OTHER -> "find") /\ t0 \in Works
      BY <1>2 DEF Works, Tables
    <2> QED
      BY <1>2, <1>6, <1>7, <1>8, <2>1, AskStep
  <1>10. SqlTypes'
    BY <1>1, <1>3, <1>4, <1>9 DEF SqlTypes, Tables
  <1>11. Balanced'
    <2>1. CASE t0 = "clients"
      BY <1>1, <1>3, <1>4, <1>9, <2>1, Elsewhere, StillBalanced
    <2>2. CASE t0 = "auth" /\ ~closing
      <3>1. Logins' = Logins \cup {s} /\ s \notin Logins /\ Logins \subseteq Conns
        BY <1>3, <1>4, <2>2 DEF Logins
      <3>2. ToCome' = ToCome \cup {s} /\ s \notin ToCome /\ ToCome \subseteq Conns
        BY <1>9, <2>2, Elsewhere DEF ToCome
      <3>3. Lost' = Lost /\ Again("auth")' = Again("auth") /\ Lost \subseteq Conns /\ Again("auth") \subseteq Conns
        BY <1>3 DEF Lost, Again
      <3>4. /\ IsFiniteSet(Logins) /\ IsFiniteSet(ToCome) /\ IsFiniteSet(Lost) /\ IsFiniteSet(Again("auth"))
        BY <3>1, <3>2, <3>3, SqlAssumption, FS_Subset
      <3>5. /\ Cardinality(Logins)' = Cardinality(Logins) + 1 /\ Cardinality(ToCome)' = Cardinality(ToCome) + 1
            /\ Cardinality(Lost)' = Cardinality(Lost) /\ Cardinality(Again("auth"))' = Cardinality(Again("auth"))
        BY <3>1, <3>2, <3>3, <3>4, FS_AddElement
      <3>6. /\ Cardinality(Logins) \in Nat /\ Cardinality(ToCome) \in Nat /\ Cardinality(Lost) \in Nat
            /\ Cardinality(Again("auth")) \in Nat /\ rows["auth"] \in Nat
        BY <1>1, <3>4, FS_CardinalityType DEF SqlTypes, Tables
      <3>7. rows["auth"] + Cardinality(ToCome) + Cardinality(Lost) = Cardinality(Logins) + Cardinality(Again("auth"))
        BY <1>1, <2>2 DEF Balanced
      <3>8. rows'["auth"] + Cardinality(ToCome)' + Cardinality(Lost)' = Cardinality(Logins)' + Cardinality(Again("auth"))'
        BY <1>3, <3>5, <3>6, <3>7
      <3> QED
        BY <3>8 DEF Balanced
    <2>3. CASE closing
      BY <1>3, <2>3 DEF Balanced
    <2> QED
      BY <2>1, <2>2, <2>3
  <1>12. Ended'
    BY <1>1, <1>2, <1>3, <1>9, StillEnded
  <1> QED
    BY <1>9, <1>10, <1>11, <1>12 DEF SqlIInv

\* A login with a key asks nothing of the database.
LEMMA KeyStep ==
    ASSUME SqlIInv, NEW s \in Conns, SqlEvent(s, "key")
    PROVE  SqlIInv'
  <1>1. /\ state[s] = "open" /\ logged' = [logged EXCEPT ![s] = @ \cup {"key"}]
        /\ UNCHANGED <<db, known, intime, state, queue, answers, ids, rows, stored, closing, errors, repeated, soon>>
    BY DEF SqlEvent
  <1>2. SqlTypes /\ logged \in [Conns -> SUBSET EventKinds]
    BY Parts DEF SqlTypes
  <1>3. /\ logged' \in [Conns -> SUBSET EventKinds]
        /\ \A r \in Conns : logged'[r] = IF r = s THEN logged[r] \cup {"key"} ELSE logged[r]
    BY <1>1, <1>2 DEF EventKinds
  <1>4. Waiting' = Waiting /\ Coming' = Coming /\ Underway' = Underway
    BY <1>1 DEF Waiting, Coming, Underway
  <1>5. /\ \A r \in Conns, t \in Works : Began(r, t)' <=> Began(r, t)
        /\ \A r, t : (At(r, t)' <=> At(r, t)) /\ (Before(r, t)' <=> Before(r, t))
        /\ \A r : (Failed(r)' <=> Failed(r)) /\ (Ending(r)' <=> Ending(r))
    BY <1>1, <1>3, <1>4 DEF Began, At, Before, Failed, Ending, Works, Tables
  <1>6. SqlTypes' /\ OneAtATime' /\ Shaped'
    <2>1. SqlTypes'
      BY <1>1, <1>2, <1>3 DEF SqlTypes
    <2> QED
      BY <1>1, <1>4, <2>1, Parts DEF OneAtATime, Shaped, Different
  <1>7. \A x \in Underway : x.of \in Conns /\ x.table \in Works
    <2>1. queue \in Seq(Queries) /\ answers \in Seq(Queries)
      BY <1>2 DEF SqlTypes
    <2>2. \A x \in Underway : x \in Queries
      BY <2>1 DEF Underway, Waiting, Coming, Of
    <2> QED
      BY <2>2 DEF Queries
  <1>8. Caused'
    <2>1. Caused
      BY Parts
    <2>2. \A r \in Conns : logged'[r] # {} => state'[r] # "new"
      BY <1>1, <1>3, <2>1 DEF Caused
    <2>3. \A x \in Underway : Began(x.of, x.table)'
      BY <1>5, <1>7, <2>1 DEF Caused
    <2>4. /\ \A r \in Conns, t \in Tables : <<r, t>> \in soon \cup repeated => Began(r, t)'
          /\ \A r \in DOMAIN stored : Began(r, "sensors")'
          /\ \A r \in intime : Began(r, "sessions")'
      BY <1>2, <1>5, <2>1 DEF Caused, SqlTypes, Works, Tables
    <2>5. \A e \in errors : Began(e[1], e[3])'
      BY <1>2, <1>5, <2>1 DEF Caused, SqlTypes
    <2> QED
      BY <1>1, <1>4, <2>2, <2>3, <2>4, <2>5 DEF Caused
  <1>9. Unfailed' /\ KnownIdIsUsed'
    BY <1>1, <1>4, <1>5, Parts DEF Unfailed, KnownIdIsUsed
  <1>10. ASSUME NEW t \in {"sensors", "clients"} PROVE Finds(t)' /\ Stuck(t)' /\ Bounded(t)'
    <2>1. Finds(t) /\ Stuck(t) /\ Bounded(t) /\ SqlTypes /\ t \in Works
      BY Parts DEF Works, Tables
    <2>2. Finds(t)' /\ Stuck(t)'
      BY <1>1, <1>4, <1>5, <2>1 DEF Finds, Stuck
    <2>3. rows[t] \in Nat
      BY <2>1 DEF SqlTypes, Tables
    <2> QED
      BY <1>1, <1>5, <2>1, <2>2, <2>3, StillBounded
  <1>11. Storing' /\ Ended'
    BY <1>1, <1>5, Parts DEF Storing, Ended, Works, Tables
  <1>12. Balanced'
    <2>1. \A r \in Conns : "auth" \in logged'[r] <=> "auth" \in logged[r]
      BY <1>3
    <2> QED
      BY <1>1, <1>5, <2>1, Parts, StillBalanced
  <1> QED
    BY <1>6, <1>8, <1>9, <1>10, <1>11, <1>12 DEF SqlIInv

LEMMA ClosedStep ==
    ASSUME SqlIInv, NEW s \in Conns, SqlClosed(s)
    PROVE  SqlIInv'
  <1> DEFINE q == SetEnd(s)
             early == \E i \in DOMAIN queue : queue[i].of = s /\ queue[i].op = "use" /\ queue[i].table = "sensors"
  <1>1. SqlTypes /\ Caused /\ Balanced /\ Ended /\ queue \in Seq(Queries)
    BY Parts
  <1>2. /\ q \in Queries /\ q.op = "end" /\ q.of = s /\ q.table = "sessions"
    BY QueriesForm, NoIdIsId DEF Works, Tables
  <1> HIDE DEF q
  <1>3. /\ state[s] = "open" /\ state' = [state EXCEPT ![s] = "closed"] /\ Queued(q)
        /\ intime' = IF ~closing /\ (s \in DOMAIN stored \/ early) THEN intime \cup {s} ELSE intime
        /\ UNCHANGED <<db, known, logged, answers, ids, rows, stored, closing, errors, repeated, soon>>
    BY DEF SqlClosed, q
  <1>4. state \in [Conns -> {"new", "open", "closed"}] /\ intime \subseteq Conns
    BY <1>1 DEF SqlTypes
  <1>5. /\ \A r \in Conns, t \in Works : Began(r, t)' <=> Began(r, t) \/ (r = s /\ t = "sessions")
        /\ ~Began(s, "sessions")
    BY <1>3, <1>4 DEF Began, Works, Tables
  <1>6. Asks(s, "sessions", q)
    BY <1>3, <1>5 DEF Asks
  <1>7. \A r \in Conns : logged'[r] # {} => state'[r] # "new"
    BY <1>1, <1>3, <1>4 DEF Caused
  <1>8. \A r \in intime' : Began(r, "sessions")'
    BY <1>1, <1>3, <1>4, <1>5 DEF Caused, Works
  <1>9. /\ queue' \in Seq(Queries) /\ answers' \in Seq(Queries) /\ OneAtATime' /\ Only(s, "sessions")
        /\ db # "sqlite" => queue' = IF closing THEN queue ELSE Append(queue, q)
        /\ Shaped' /\ Caused' /\ Unfailed' /\ KnownIdIsUsed' /\ Storing'
        /\ \A t \in {"sensors", "clients"} : Finds(t)' /\ Stuck(t)' /\ Bounded(t)'
    BY <1>2, <1>6, <1>7, <1>8, AskStep DEF Works, Tables
  <1>10. SqlTypes'
    BY <1>1, <1>3, <1>4, <1>9 DEF SqlTypes, Tables
  <1>11. Balanced'
    BY <1>1, <1>3, <1>9, Elsewhere, StillBalanced
  <1>12. Ended'
    <2> SUFFICES ASSUME db # "sqlite", NEW r \in intime', ~Failed(r)' PROVE Ending(r)'
      BY <1>3 DEF Ended
    <2>1. ~Failed(r)
      BY <1>3 DEF Failed
    <2>2. CASE r \in intime
      <3>1. Ending(r)
        BY <1>1, <2>1, <2>2 DEF Ended
      <3> QED
        BY <1>1, <1>2, <1>3, <1>9, <3>1, EndingStays
    <2>3. CASE r \notin intime
      <3>1. r = s /\ ~closing /\ (s \in DOMAIN stored \/ early)
        BY <1>3, <2>3
      <3>2. /\ queue' = Append(queue, q) /\ DOMAIN queue' = 1..(Len(queue) + 1) /\ Len(queue) \in Nat
            /\ DOMAIN queue = 1..Len(queue) /\ queue'[Len(queue) + 1] = q
            /\ \A i \in DOMAIN queue : queue'[i] = queue[i]
        BY <1>1, <1>2, <1>9, <3>1
      <3>3. Len(queue) + 1 \in DOMAIN queue' /\ \A i \in DOMAIN queue : i < Len(queue) + 1 /\ i \in DOMAIN queue'
        BY <3>2
      <3> QED
        BY <1>2, <1>3, <3>1, <3>2, <3>3 DEF Ending
    <2> QED
      BY <2>2, <2>3
  <1> QED
    BY <1>9, <1>10, <1>11, <1>12 DEF SqlIInv

\* A coroutine goes on: its next query takes the place of the answer it waited for.
LEMMA GoStep ==
    ASSUME SqlIInv, Resume, NEW h, h = Head(answers), NEW s, s = h.of, NEW t0, t0 = h.table
    PROVE  SqlIInv'
  <1>1. SqlTypes /\ OneAtATime /\ Shaped /\ Caused /\ Unfailed /\ KnownIdIsUsed /\ Storing /\ Balanced /\ Ended
    BY Parts
  <1>2. \A t \in {"sensors", "clients"} : Finds(t) /\ Stuck(t) /\ Bounded(t)
    BY Parts
  <1>3. queue \in Seq(Queries) /\ answers \in Seq(Queries) /\ Waiting \subseteq Queries /\ Coming \subseteq Queries
    BY Parts
  <1>4. /\ answers # <<>> /\ answers' = Tail(answers)
        /\ UNCHANGED <<db, known, intime, state, logged, ids, rows, stored, closing, errors, repeated, soon>>
    BY DEF Resume
  <1>5. h \in Coming /\ h \in Queries
    BY <1>3, <1>4 DEF Coming, Of
  <1>6. s \in Conns /\ t0 \in {"sensors", "clients"} /\ t0 \in Works /\ h.op \in {"find", "insert", "last"} /\ h.id \in Ids
    BY <1>1, <1>5, QueryForm, NoIdIsId DEF Shaped, Works, Tables
  <1>7. PICK q \in Queries :
           /\ Queued(q) /\ q.of = s /\ q.table = t0 /\ q.op \in {"use", "insert", "last"}
           /\ q.op = "insert" => h.op = "find" /\ h.id = NoId
           /\ q.op = "last" => h.op = "insert"
           /\ q.op = "use" => q.id = h.id /\ (h.op = "find" => h.id # NoId)
           /\ h.op = "find" => q.op # "last"
    <2> DEFINE u == Use(s, t0, h.id)
               n == Insert(s, t0)
               l == LastId(s, t0)
    <2>1. /\ u \in Queries /\ u.op = "use" /\ u.of = s /\ u.table = t0 /\ u.id = h.id
          /\ n \in Queries /\ n.op = "insert" /\ n.of = s /\ n.table = t0
          /\ l \in Queries /\ l.op = "last" /\ l.of = s /\ l.table = t0
      BY <1>6, QueriesForm
    <2>2. \/ h.op = "find" /\ h.id # NoId /\ Queued(u)
          \/ h.op = "find" /\ h.id = NoId /\ Queued(n)
          \/ h.op = "insert" /\ Queued(l)
          \/ h.op = "last" /\ Queued(u)
      BY DEF Resume
    <2> HIDE DEF u, n, l
    <2> QED
      BY <2>1, <2>2
  <1>8. SameWork(q, h)
    BY <1>7 DEF SameWork
  <1>9. /\ queue' \in Seq(Queries) /\ answers' \in Seq(Queries) /\ OneAtATime'
        /\ Coming' = Coming \ {h}
        /\ Waiting' = IF closing THEN Waiting ELSE Waiting \cup {q}
        /\ db # "sqlite" => queue' = IF closing THEN queue ELSE Append(queue, q)
        /\ \A x \in Waiting \cup Coming' : ~SameWork(x, q)
    BY <1>1, <1>3, <1>4, <1>7, <1>8, ResumeWork
  <1>10. \A x : x.of = s /\ x.table = t0 => (x \in Waiting' => x = q) /\ x \notin Coming'
    BY <1>7, <1>9 DEF SameWork
  <1>11. Only(s, t0)
    BY <1>7, <1>9 DEF Only
  <1>12. At(s, t0) /\ (Before(s, t0) <=> h.op = "find")
    BY <1>1, <1>5, TheWork DEF Underway
  <1>13. (~closing => At(s, t0)') /\ (Before(s, t0)' => Before(s, t0))
    BY <1>7, <1>9, <1>10, <1>12 DEF At, Before, Underway
  <1>14. \A r \in Conns, t \in Works : At(r, t)' => At(r, t)
    BY <1>11, <1>12, Elsewhere
  <1>15. \A r \in Conns, t \in Works : Before(r, t)' => Before(r, t)
    BY <1>11, <1>13, Elsewhere
  <1>16. SqlTypes'
    BY <1>1, <1>4, <1>9 DEF SqlTypes
  <1>17. Shaped'
    BY <1>1, <1>6, <1>7, <1>9 DEF Shaped
  <1>18. \A r, t : Began(r, t)' <=> Began(r, t)
    BY <1>4 DEF Began
  <1>19. Caused'
    BY <1>1, <1>4, <1>5, <1>7, <1>9, <1>18 DEF Caused, Underway
  <1>20. Unfailed'
    BY <1>1, <1>4, <1>5, <1>7, <1>9, <1>15 DEF Unfailed, Underway, Works
  <1>21. ASSUME NEW t \in {"sensors", "clients"} PROVE Finds(t)'
    <2>1. known' => rows'[t] > 0
      BY <1>2, <1>4 DEF Finds
    <2>2. ASSUME NEW r \in Conns, Began(r, t)', <<r, t>> \notin soon'
          PROVE  /\ rows'[t] > 0
                 /\ \A x \in Waiting' : x.of = r /\ x.table = t => x.op = "find" \/ (x.op = "use" /\ x.id = <<t, 1>>)
                 /\ \A x \in Coming' : x.of = r /\ x.table = t => x.op = "find" /\ x.id = <<t, 1>>
      <3>1. Began(r, t) /\ <<r, t>> \notin soon
        BY <1>4, <1>18, <2>2
      <3>2. CASE r = s /\ t = t0
        <4>1. h.op = "find" /\ h.id = <<t, 1>> /\ rows[t] > 0
          BY <1>2, <1>5, <3>1, <3>2 DEF Finds
        <4>2. h.id # NoId
          BY <4>1 DEF NoId
        <4>3. q.op = "use" /\ q.id = <<t, 1>>
          BY <1>7, <4>1, <4>2
        <4> QED
          BY <1>4, <1>10, <3>2, <4>1, <4>3
      <3>3. CASE ~(r = s /\ t = t0)
        BY <1>2, <1>4, <1>11, <3>1, <3>3 DEF Finds, Only
      <3> QED
        BY <3>2, <3>3
    <2> QED
      BY <2>1, <2>2 DEF Finds
  <1>22. ASSUME NEW t \in {"sensors", "clients"} PROVE Stuck(t)'
    <2>1. CASE t # t0
      BY <1>2, <1>4, <1>7, <1>9, <2>1 DEF Stuck
    <2>2. CASE t = t0
      <3>1. db = "postgresql" /\ ~known => h.op = "find" /\ h.id = NoId
        BY <1>2, <1>5, <2>2 DEF Stuck
      <3>2. db = "postgresql" /\ ~known => q.op = "insert"
        BY <1>7, <3>1
      <3> QED
        BY <1>2, <1>4, <1>7, <1>9, <3>2 DEF Stuck
    <2> QED
      BY <2>1, <2>2
  <1>23. ASSUME NEW t \in {"sensors", "clients"} PROVE Bounded(t)'
    <2>1. rows[t] \in Nat /\ t \in Works
      BY <1>1 DEF SqlTypes, Tables, Works
    <2> QED
      BY <1>1, <1>2, <1>4, <1>15, <2>1, StillBounded
  <1>24. KnownIdIsUsed'
    BY <1>1, <1>4 DEF KnownIdIsUsed
  <1>25. Storing'
    <2>1. \A r \in Conns : Failed(r)' <=> Failed(r)
      BY <1>4 DEF Failed
    <2>2. ~closing => \A r \in Conns : At(r, "sensors") => At(r, "sensors")'
      BY <1>11, <1>13, Elsewhere
    <2>3. \A r \in Conns : At(r, "sensors")' => At(r, "sensors")
      BY <1>14 DEF Works, Tables
    <2> QED
      BY <1>1, <1>4, <1>18, <2>1, <2>2, <2>3 DEF Storing
  <1>26. Balanced'
    BY <1>1, <1>4, <1>6, <1>11, Elsewhere, StillBalanced
  <1>27. Ended'
    BY <1>1, <1>3, <1>4, <1>7, <1>9, StillEnded
  <1> QED
    BY <1>9, <1>16, <1>17, <1>19, <1>20, <1>21, <1>22, <1>23, <1>24, <1>25, <1>26, <1>27 DEF SqlIInv

LEMMA ResumeStep ==
    ASSUME SqlIInv, Resume
    PROVE  SqlIInv'
  <1>1. \A h, s, t0 : h = Head(answers) /\ s = h.of /\ t0 = h.table => SqlIInv'
    BY GoStep
  <1> QED
    BY <1>1

LEMMA StopStep ==
    ASSUME SqlIInv, SqlStop
    PROVE  SqlIInv'
  <1>1. /\ ~closing /\ closing' = TRUE
        /\ UNCHANGED <<db, known, intime, state, logged, queue, answers, ids, rows, stored, errors, repeated, soon>>
    BY DEF SqlStop
  <1>2. Waiting' = Waiting /\ Coming' = Coming /\ Underway' = Underway
    BY <1>1 DEF Waiting, Coming, Underway
  <1>3. /\ \A s, t : (Began(s, t)' <=> Began(s, t)) /\ (At(s, t)' <=> At(s, t)) /\ (Before(s, t)' <=> Before(s, t))
        /\ \A s : (Failed(s)' <=> Failed(s)) /\ (Ending(s)' <=> Ending(s))
    BY <1>1, <1>2 DEF Began, At, Before, Failed, Ending
  <1>4. SqlTypes' /\ OneAtATime' /\ Shaped'
    BY <1>1, <1>2, Parts DEF SqlTypes, OneAtATime, Shaped
  <1>5. Caused'
    BY <1>1, <1>2, <1>3, Parts DEF Caused
  <1>6. Unfailed' /\ KnownIdIsUsed'
    BY <1>1, <1>2, <1>3, Parts DEF Unfailed, KnownIdIsUsed
  <1>7. ASSUME NEW t \in {"sensors", "clients"} PROVE Finds(t)' /\ Stuck(t)' /\ Bounded(t)'
    <2>1. Finds(t) /\ Stuck(t) /\ Bounded(t) /\ SqlTypes
      BY Parts
    <2>2. Finds(t)' /\ Stuck(t)'
      BY <1>1, <1>2, <1>3, <2>1 DEF Finds, Stuck
    <2>3. rows[t] \in Nat
      BY <2>1 DEF SqlTypes, Tables
    <2> QED
      BY <1>1, <1>3, <2>1, <2>2, <2>3, StillBounded
  <1>8. Storing' /\ Balanced' /\ Ended'
    BY <1>1, <1>3, Parts DEF Storing, Balanced, Ended
  <1> QED
    BY <1>4, <1>5, <1>6, <1>7, <1>8 DEF SqlIInv

-----------------------------------------------------------------------------
\* A query is run.  The end of a session stays behind its row when the first query
\* leaves the queue and does what it says or raises.
LEMMA RunEnded ==
    ASSUME SqlIInv, NEW i \in Runnable, NEW q, q = queue[i], queue' = Without(i), db' = db, intime' = intime,
           errors \subseteq errors', DOMAIN stored \subseteq DOMAIN stored',
           \A s \in DOMAIN stored : stored[s].end => stored'[s].end,
           q.op = "end" /\ q.of \in DOMAIN stored => stored'[q.of].end \/ Failed(q.of)',
           q.op = "use" /\ q.table = "sensors" => q.of \in DOMAIN stored' \/ Failed(q.of)'
    PROVE  Ended'
  <1> SUFFICES ASSUME db # "sqlite", NEW s \in intime, ~Failed(s)' PROVE Ending(s)'
    BY DEF Ended
  <1>1. Ended /\ queue \in Seq(Queries)
    BY Parts
  <1>2. i = 1 /\ i \in DOMAIN queue
    BY DEF Runnable
  <1>3. IsCut(queue', queue, 1)
    BY <1>1, <1>2, RemovedAt DEF Without, Cut
  <1>4. /\ Len(queue) \in Nat /\ DOMAIN queue = 1..Len(queue)
        /\ DOMAIN queue' = 1..(Len(queue) - 1) /\ \A k \in 1..(Len(queue) - 1) : queue'[k] = queue[k + 1]
    BY <1>1, <1>3 DEF IsCut
  <1>5. ASSUME NEW j \in DOMAIN queue, j # 1 PROVE j - 1 \in DOMAIN queue' /\ queue'[j - 1] = queue[j] /\ j - 1 \in Int /\ j \in Int
    BY <1>4, <1>5
  <1>6. ~Failed(s)
    BY DEF Failed
  <1>7. Ending(s)
    BY <1>1, <1>6 DEF Ended
  <1>8. CASE s \in DOMAIN stored /\ stored[s].end
    BY <1>8 DEF Ending
  <1>9. ASSUME NEW j \in DOMAIN queue, queue[j].of = s, queue[j].op = "end",
               \/ s \in DOMAIN stored
               \/ \E k \in DOMAIN queue : k < j /\ queue[k].of = s /\ queue[k].op = "use" /\ queue[k].table = "sensors"
        PROVE  Ending(s)'
    <2>1. CASE j = 1
      <3>1. s \in DOMAIN stored
        BY <1>4, <1>9, <2>1
      <3> QED
        BY <1>2, <1>9, <2>1, <3>1 DEF Ending
    <2>2. CASE j # 1 /\ s \in DOMAIN stored
      BY <1>5, <1>9, <2>2 DEF Ending
    <2>3. CASE j # 1 /\ s \notin DOMAIN stored
      <3>1. PICK k \in DOMAIN queue : k < j /\ queue[k].of = s /\ queue[k].op = "use" /\ queue[k].table = "sensors"
        BY <1>9, <2>3
      <3>2. CASE k = 1
        <4>1. s \in DOMAIN stored'
          BY <1>2, <3>1, <3>2
        <4> QED
          BY <1>5, <1>9, <2>3, <4>1 DEF Ending
      <3>3. CASE k # 1
        <4>1. k - 1 < j - 1
          BY <1>5, <2>3, <3>1, <3>3
        <4> QED
          BY <1>5, <1>9, <2>3, <3>1, <3>3, <4>1 DEF Ending
      <3> QED
        BY <3>2, <3>3
    <2> QED
      BY <2>1, <2>2, <2>3
  <1> QED
    BY <1>7, <1>8, <1>9 DEF Ending

LEMMA RunFacts ==
    ASSUME SqlIInv, NEW i \in Runnable, NEW q, q = queue[i]
    PROVE  /\ i \in DOMAIN queue /\ q \in Queries /\ q \in Waiting /\ q \in Underway /\ q \notin Coming
           /\ q.of \in Conns /\ q.table \in Works /\ q.op \in Ops /\ q.id \in Ids
           /\ At(q.of, q.table) /\ (Before(q.of, q.table) <=> q.op \in {"find", "insert"})
           /\ \A x \in Underway : x.of = q.of /\ x.table = q.table => x = q
  <1>1. i \in DOMAIN queue
    BY DEF Runnable
  <1>2. queue \in Seq(Queries) /\ OneAtATime
    BY Parts
  <1>3. q \in Queries /\ q \in Waiting /\ q \in Underway
    BY <1>1, <1>2 DEF Waiting, Of, Underway
  <1>4. q.of \in Conns /\ q.table \in Works /\ q.op \in Ops /\ q.id \in Ids
    BY <1>3, QueryForm, NoIdIsId
  <1> QED
    BY <1>1, <1>2, <1>3, <1>4, TheWork

\* A query that only asks: its answer takes its place.
LEMMA AnswerStep ==
    ASSUME SqlIInv, NEW i \in Runnable, NEW q, q = queue[i], q.op \in {"find", "last"}, queue' = Without(i),
           NEW k \in Ids, NEW a, a = [q EXCEPT !.id = k],
           q.op = "find" => k = IF rows[q.table] > 0 THEN <<q.table, 1>> ELSE NoId,
           answers' = Append(answers, a),
           UNCHANGED <<db, known, intime, state, logged, ids, rows, stored, closing, errors, repeated, soon>>
    PROVE  SqlIInv'
  <1> DEFINE s == q.of
             t0 == q.table
  <1>1. SqlTypes /\ OneAtATime /\ Shaped /\ Caused /\ Unfailed /\ KnownIdIsUsed /\ Storing /\ Balanced /\ Ended
    BY Parts
  <1>2. \A t \in {"sensors", "clients"} : Finds(t) /\ Stuck(t) /\ Bounded(t)
    BY Parts
  <1>3. queue \in Seq(Queries) /\ answers \in Seq(Queries) /\ Waiting \subseteq Queries /\ Coming \subseteq Queries
    BY Parts
  <1>4. /\ i \in DOMAIN queue /\ q \in Queries /\ q \in Waiting /\ q \in Underway /\ q \notin Coming
        /\ s \in Conns /\ t0 \in Works
        /\ At(s, t0) /\ (Before(s, t0) <=> q.op \in {"find", "insert"})
        /\ \A x \in Underway : x.of = s /\ x.table = t0 => x = q
    BY RunFacts
  <1>5. t0 \in {"sensors", "clients"}
    BY <1>1, <1>4 DEF Shaped, Works, Tables
  <1>6. a \in Queries /\ a.op = q.op /\ a.of = s /\ a.table = t0 /\ a.id = k /\ SameWork(a, q)
    BY <1>4, QueryForm DEF SameWork
  <1>7. /\ queue' \in Seq(Queries) /\ answers' \in Seq(Queries) /\ OneAtATime' /\ Coming' = Coming \cup {a}
        /\ Waiting' = Waiting \ {q} /\ \A x \in Waiting' \cup Coming : ~SameWork(x, a)
    BY <1>1, <1>3, <1>4, <1>6, AnswerWork
  <1>8. \A x : x.of = s /\ x.table = t0 => x \notin Waiting' /\ (x \in Coming' => x = a)
    BY <1>6, <1>7 DEF SameWork
  <1>9. Only(s, t0)
    BY <1>6, <1>7 DEF Only
  <1>10. At(s, t0)' /\ (Before(s, t0)' <=> Before(s, t0))
    BY <1>4, <1>6, <1>7, <1>8 DEF At, Before, Underway
  <1>11. \A r, t : (At(r, t)' <=> At(r, t)) /\ (Before(r, t)' <=> Before(r, t))
    BY <1>4, <1>9, <1>10, Elsewhere
  <1>12. \A r, t : Began(r, t)' <=> Began(r, t)
    BY DEF Began
  <1>13. SqlTypes'
    BY <1>1, <1>7 DEF SqlTypes
  <1>14. Shaped'
    BY <1>1, <1>5, <1>6, <1>7 DEF Shaped
  <1>15. Caused'
    BY <1>1, <1>4, <1>6, <1>7, <1>12 DEF Caused, Underway
  <1>16. Unfailed'
    <2>1. \A x \in Underway', e \in errors' : ~(e[1] = x.of /\ e[3] = x.table)
      <3>1. \A x \in Underway' : \E y \in Underway : y.of = x.of /\ y.table = x.table
        <4>1. \A x \in Underway' : x \in Underway \/ x = a
          BY <1>7 DEF Underway
        <4> QED
          BY <1>4, <1>6, <4>1
      <3> QED
        BY <1>1, <3>1 DEF Unfailed
    <2>2. \A r \in Conns, t \in Tables : Before(r, t)' => <<r, t>> \notin repeated'
      BY <1>1, <1>11 DEF Unfailed
    <2> QED
      BY <2>1, <2>2 DEF Unfailed
  <1>17. ASSUME NEW t \in {"sensors", "clients"} PROVE Finds(t)'
    <2>1. known' => rows'[t] > 0
      BY <1>2 DEF Finds
    <2>2. ASSUME NEW r \in Conns, Began(r, t)', <<r, t>> \notin soon'
          PROVE  /\ rows'[t] > 0
                 /\ \A x \in Waiting' : x.of = r /\ x.table = t => x.op = "find" \/ (x.op = "use" /\ x.id = <<t, 1>>)
                 /\ \A x \in Coming' : x.of = r /\ x.table = t => x.op = "find" /\ x.id = <<t, 1>>
      <3>1. Began(r, t) /\ <<r, t>> \notin soon
        BY <1>12, <2>2
      <3>2. CASE r = s /\ t = t0
        <4>1. rows[t] > 0 /\ q.op = "find"
          BY <1>2, <1>4, <3>1, <3>2 DEF Finds
        <4> QED
          BY <1>6, <1>8, <3>2, <4>1
      <3>3. CASE ~(r = s /\ t = t0)
        BY <1>2, <1>9, <3>1, <3>3 DEF Finds, Only
      <3> QED
        BY <3>2, <3>3
    <2> QED
      BY <2>1, <2>2 DEF Finds
  <1>18. ASSUME NEW t \in {"sensors", "clients"} PROVE Stuck(t)'
    <2>1. CASE t # t0
      BY <1>2, <1>6, <1>7, <2>1 DEF Stuck
    <2>2. CASE t = t0
      <3>1. db = "postgresql" /\ ~known => rows[t] = 0 /\ q.op = "find"
        BY <1>2, <1>4, <2>2 DEF Stuck
      <3>2. db = "postgresql" /\ ~known => a.op = "find" /\ a.id = NoId
        BY <1>6, <2>2, <3>1
      <3> QED
        BY <1>2, <1>7, <3>2 DEF Stuck
    <2> QED
      BY <2>1, <2>2
  <1>19. ASSUME NEW t \in {"sensors", "clients"} PROVE Bounded(t)'
    <2>1. rows[t] \in Nat
      BY <1>1 DEF SqlTypes, Tables
    <2> QED
      BY <1>1, <1>2, <1>11, <2>1, StillBounded
  <1>20. KnownIdIsUsed'
    BY <1>1 DEF KnownIdIsUsed
  <1>21. Storing'
    <2>1. \A r \in Conns : Failed(r)' <=> Failed(r)
      BY DEF Failed
    <2> QED
      BY <1>1, <1>11, <1>12, <2>1 DEF Storing
  <1>22. Balanced'
    BY <1>1, <1>11, StillBalanced
  <1>23. Ended'
    BY RunEnded
  <1> QED
    BY <1>7, <1>13, <1>14, <1>15, <1>16, <1>17, <1>18, <1>19, <1>20, <1>21, <1>22, <1>23 DEF SqlIInv

\* The INSERT of a sensor or of a client: the rows of its table come of an early look.
LEMMA InsertStep ==
    ASSUME SqlIInv, NEW i \in Runnable, NEW q, q = queue[i], q.op = "insert", q.table # "auth", db # "postgresql",
           queue' = Without(i), answers' = Append(answers, q), NEW n \in {1, 2}, Inserted(q.table, n),
           repeated' = IF n = 2 THEN repeated \cup {<<q.of, q.table>>} ELSE repeated,
           UNCHANGED <<db, known, intime, state, logged, stored, closing, errors, soon>>
    PROVE  SqlIInv'
  <1> DEFINE s == q.of
             t0 == q.table
  <1>1. SqlTypes /\ OneAtATime /\ Shaped /\ Caused /\ Unfailed /\ KnownIdIsUsed /\ Storing /\ Balanced /\ Ended
    BY Parts
  <1>2. \A t \in {"sensors", "clients"} : Finds(t) /\ Stuck(t) /\ Bounded(t)
    BY Parts
  <1>3. queue \in Seq(Queries) /\ answers \in Seq(Queries) /\ Waiting \subseteq Queries /\ Coming \subseteq Queries
    BY Parts
  <1>4. /\ i \in DOMAIN queue /\ q \in Queries /\ q \in Waiting /\ q \in Underway /\ q \notin Coming
        /\ s \in Conns /\ t0 \in Works
        /\ At(s, t0) /\ Before(s, t0)
        /\ \A x \in Underway : x.of = s /\ x.table = t0 => x = q
    BY RunFacts
  <1>5. t0 \in {"sensors", "clients"} /\ t0 \in Tables
    BY <1>1, <1>4 DEF Shaped, Works, Tables
  <1>6. SameWork(q, q)
    BY DEF SameWork
  <1>7. /\ queue' \in Seq(Queries) /\ answers' \in Seq(Queries) /\ OneAtATime' /\ Coming' = Coming \cup {q}
        /\ Waiting' = Waiting \ {q} /\ \A x \in Waiting' \cup Coming : ~SameWork(x, q)
    BY <1>1, <1>3, <1>4, <1>6, AnswerWork
  <1>8. \A x : x.of = s /\ x.table = t0 => x \notin Waiting' /\ (x \in Coming' => x = q)
    BY <1>7 DEF SameWork
  <1>9. Only(s, t0)
    BY <1>7 DEF Only
  <1>10. At(s, t0)' /\ ~Before(s, t0)'
    BY <1>4, <1>7, <1>8 DEF At, Before, Underway
  <1>11. /\ \A r, t : At(r, t)' <=> At(r, t)
         /\ \A r, t : Before(r, t)' <=> Before(r, t) /\ ~(r = s /\ t = t0)
    BY <1>4, <1>9, <1>10, Elsewhere
  <1>12. \A r, t : Began(r, t)' <=> Began(r, t)
    BY DEF Began
  <1>13. /\ rows \in [Tables -> Nat] /\ rows' = [rows EXCEPT ![t0] = @ + n]
         /\ ids' = (IF db = "sqlite" THEN ids ELSE {}) \cup {<<t0, rows[t0] + n>>}
    BY <1>1 DEF Inserted, SqlTypes
  <1>14. rows' \in [Tables -> Nat] /\ rows'[t0] = rows[t0] + n /\ \A t \in Tables : t # t0 => rows'[t] = rows[t]
    BY <1>5, <1>13
  <1>15. SqlTypes'
    <2>1. ids' \subseteq Ids /\ ids' # {}
      <3>1. rows[t0] + n \in Nat
        BY <1>5, <1>13
      <3>2. <<t0, rows[t0] + n>> \in Ids /\ ids \subseteq Ids
        BY <1>1, <1>5, <3>1 DEF SqlTypes, Ids
      <3> QED
        BY <1>13, <3>2
    <2>2. repeated' \subseteq Conns \X Tables
      BY <1>1, <1>4, <1>5 DEF SqlTypes
    <2> QED
      BY <1>1, <1>7, <1>14, <2>1, <2>2 DEF SqlTypes
  <1>16. Shaped'
    BY <1>1, <1>5, <1>7 DEF Shaped
  <1>17. Caused'
    BY <1>1, <1>4, <1>7, <1>12 DEF Caused, Underway
  <1>18. Unfailed'
    <2>1. Underway' = Underway
      BY <1>4, <1>7 DEF Underway
    <2>2. \A r \in Conns, t \in Tables : Before(r, t)' => <<r, t>> \notin repeated'
      BY <1>1, <1>11 DEF Unfailed
    <2> QED
      BY <1>1, <2>1, <2>2 DEF Unfailed
  <1>19. <<s, t0>> \in soon
    BY <1>1, <1>2, <1>4, <1>5 DEF Finds, Caused
  <1>20. ASSUME NEW t \in {"sensors", "clients"} PROVE Finds(t)'
    <2>1. rows[t] \in Nat /\ rows'[t] \in Nat /\ rows'[t] >= rows[t]
      BY <1>5, <1>13, <1>14 DEF Tables
    <2>2. known' => rows'[t] > 0
      BY <1>2, <2>1 DEF Finds
    <2>3. ASSUME NEW r \in Conns, Began(r, t)', <<r, t>> \notin soon'
          PROVE  /\ rows'[t] > 0
                 /\ \A x \in Waiting' : x.of = r /\ x.table = t => x.op = "find" \/ (x.op = "use" /\ x.id = <<t, 1>>)
                 /\ \A x \in Coming' : x.of = r /\ x.table = t => x.op = "find" /\ x.id = <<t, 1>>
      <3>1. Began(r, t) /\ <<r, t>> \notin soon /\ ~(r = s /\ t = t0)
        BY <1>12, <1>19, <2>3
      <3>2. rows[t] > 0
        BY <1>2, <3>1 DEF Finds
      <3>3. rows'[t] > 0
        BY <2>1, <3>2
      <3> QED
        BY <1>2, <1>9, <3>1, <3>3 DEF Finds, Only
    <2> QED
      BY <2>2, <2>3 DEF Finds
  <1>21. ASSUME NEW t \in {"sensors", "clients"} PROVE Stuck(t)'
    BY DEF Stuck
  <1>22. ASSUME NEW t \in {"sensors", "clients"} PROVE Bounded(t)'
    <2>1. /\ Added(t) \subseteq Conns /\ Again(t) \subseteq Conns /\ IsFiniteSet(Added(t)) /\ IsFiniteSet(Again(t))
      <3>1. Added(t) \subseteq Conns /\ Again(t) \subseteq Conns
        BY DEF Added, Again
      <3> QED
        BY <3>1, SqlAssumption, FS_Subset
    <2>2. Cardinality(Added(t)) \in Nat /\ Cardinality(Again(t)) \in Nat /\ rows[t] \in Nat
      BY <1>13, <2>1, FS_CardinalityType DEF Tables
    <2>3. CASE t # t0
      <3>1. rows[t] \in Nat /\ rows'[t] = rows[t] /\ Added(t)' = Added(t) /\ Again(t)' = Again(t)
        BY <1>11, <1>14, <2>2, <2>3 DEF Added, Again, Tables
      <3> QED
        BY <1>2, <3>1 DEF Bounded
    <2>4. CASE t = t0
      <3>1. Added(t)' = Added(t) \cup {s} /\ s \notin Added(t)
        BY <1>4, <1>11, <1>19, <2>4 DEF Added
      <3>2. Cardinality(Added(t))' = Cardinality(Added(t)) + 1
        BY <2>1, <3>1, FS_AddElement
      <3>3. Cardinality(Again(t))' = Cardinality(Again(t)) + (n - 1)
        <4>1. CASE n = 1
          <5>1. Again(t)' = Again(t)
            BY <4>1 DEF Again
          <5> QED
            BY <2>2, <4>1, <5>1
        <4>2. CASE n = 2
          <5>1. Again(t)' = Again(t) \cup {s} /\ s \notin Again(t)
            BY <1>1, <1>4, <1>5, <2>4, <4>2 DEF Again, Unfailed
          <5>2. Cardinality(Again(t))' = Cardinality(Again(t)) + 1
            BY <2>1, <5>1, FS_AddElement
          <5> QED
            BY <2>2, <4>2, <5>2
        <4> QED
          BY <4>1, <4>2
      <3>4. rows[t] <= (IF known THEN 1 ELSE 0) + Cardinality(Added(t)) + Cardinality(Again(t))
        BY <1>2 DEF Bounded
      <3>5. rows'[t] <= (IF known' THEN 1 ELSE 0) + Cardinality(Added(t))' + Cardinality(Again(t))'
        <4>1. rows'[t] = rows[t] + n /\ n \in Nat
          BY <1>14, <2>4
        <4>2. known' = known
          OBVIOUS
        <4> QED
          BY <2>2, <3>2, <3>3, <3>4, <4>1, <4>2
      <3> QED
        BY <3>5 DEF Bounded
    <2> QED
      BY <2>3, <2>4
  <1>23. KnownIdIsUsed'
    BY <1>1 DEF KnownIdIsUsed
  <1>24. Storing'
    <2>1. \A r \in Conns : Failed(r)' <=> Failed(r)
      BY DEF Failed
    <2> QED
      BY <1>1, <1>11, <1>12, <2>1 DEF Storing
  <1>25. Balanced'
    <2>1. Again("auth")' = Again("auth") /\ ToCome' = ToCome /\ Lost' = Lost /\ Logins' = Logins
      BY <1>11 DEF Again, ToCome, Lost, Logins
    <2>2. rows'["auth"] = rows["auth"]
      BY <1>14 DEF Tables
    <2>3. /\ Cardinality(ToCome)' = Cardinality(ToCome) /\ Cardinality(Lost)' = Cardinality(Lost)
          /\ Cardinality(Logins)' = Cardinality(Logins) /\ Cardinality(Again("auth"))' = Cardinality(Again("auth"))
      BY <2>1
    <2> QED
      BY <1>1, <2>2, <2>3 DEF Balanced
  <1>26. Ended'
    BY RunEnded
  <1> QED
    BY <1>7, <1>15, <1>16, <1>17, <1>18, <1>20, <1>21, <1>22, <1>23, <1>24, <1>25, <1>26 DEF SqlIInv

\* A query that nobody waits for, or one that raised: what it leaves behind.
Leaves(q) ==
    /\ UNCHANGED <<db, known, intime, state, logged, answers, closing, soon>>
    /\ errors \subseteq errors' /\ errors' \subseteq errors \cup {<<q.of, q.op, q.table>>}
    /\ repeated' \subseteq Conns \X Tables
    /\ \A s \in Conns, t \in Tables :
           <<s, t>> \in repeated' => <<s, t>> \in repeated \/ (s = q.of /\ t = q.table /\ t = "auth")
    /\ repeated \subseteq repeated'
    /\ DOMAIN stored' \subseteq Conns /\ \A s \in DOMAIN stored' : s \in DOMAIN stored \/ (s = q.of /\ q.table = "sensors")
    /\ \A t \in {"sensors", "clients"} : rows'[t] = rows[t]

LEMMA DropStep ==
    ASSUME SqlIInv, NEW i \in Runnable, NEW q, q = queue[i], queue' = Without(i), Leaves(q)
    PROVE  /\ queue' \in Seq(Queries) /\ answers' \in Seq(Queries) /\ OneAtATime' /\ Shaped' /\ Caused' /\ Unfailed'
           /\ \A t \in {"sensors", "clients"} : Finds(t)' /\ Stuck(t)' /\ Bounded(t)'
           /\ \A r, t : At(r, t)' <=> At(r, t) /\ ~(r = q.of /\ t = q.table)
           /\ \A r, t : Began(r, t)' <=> Began(r, t)
  <1> DEFINE s == q.of
             t0 == q.table
  <1>1. SqlTypes /\ OneAtATime /\ Shaped /\ Caused /\ Unfailed
    BY Parts
  <1>2. \A t \in {"sensors", "clients"} : Finds(t) /\ Stuck(t) /\ Bounded(t)
    BY Parts
  <1>3. queue \in Seq(Queries) /\ answers \in Seq(Queries) /\ Waiting \subseteq Queries /\ Coming \subseteq Queries
    BY Parts
  <1>4. /\ i \in DOMAIN queue /\ q \in Queries /\ q \in Waiting /\ q \in Underway /\ q \notin Coming
        /\ s \in Conns /\ t0 \in Works /\ q.op \in Ops
        /\ \A x \in Underway : x.of = s /\ x.table = t0 => x = q
    BY RunFacts
  <1>5. UNCHANGED <<db, known, intime, state, logged, answers, closing, soon>>
    BY DEF Leaves
  <1>6. /\ queue' \in Seq(Queries) /\ OneAtATime' /\ Coming' = Coming
        /\ Waiting' = Waiting \ {q} /\ \A x \in Underway' : ~SameWork(x, q)
    BY <1>1, <1>3, <1>4, <1>5, DropWork
  <1>7. \A x : x.of = s /\ x.table = t0 => x \notin Waiting' /\ x \notin Coming'
    BY <1>6 DEF SameWork, Underway
  <1>8. Only(s, t0)
    BY <1>4, <1>6 DEF Only
  <1>9. ~At(s, t0)' /\ ~Before(s, t0)'
    BY <1>7 DEF At, Before, Underway
  <1>10. /\ \A r, t : At(r, t)' <=> At(r, t) /\ ~(r = s /\ t = t0)
         /\ \A r, t : Before(r, t)' <=> Before(r, t) /\ ~(r = s /\ t = t0)
    BY <1>8, <1>9, Elsewhere
  <1>11. \A r, t : Began(r, t)' <=> Began(r, t)
    BY <1>5 DEF Began
  <1>12. Shaped'
    BY <1>1, <1>6 DEF Shaped
  <1>13. Underway' \subseteq Underway
    BY <1>6 DEF Underway
  <1>14. Began(s, t0)
    BY <1>1, <1>4 DEF Caused
  <1>15. Caused'
    <2>1. \A r \in Conns : logged'[r] # {} => state'[r] # "new"
      BY <1>1, <1>5 DEF Caused
    <2>2. \A x \in Underway' : Began(x.of, x.table)'
      BY <1>1, <1>11, <1>13 DEF Caused
    <2>3. \A r \in Conns, t \in Tables : <<r, t>> \in soon' \cup repeated' => Began(r, t)'
      BY <1>1, <1>5, <1>11, <1>14 DEF Caused, Leaves
    <2>4. \A e \in errors' : Began(e[1], e[3])'
      BY <1>1, <1>11, <1>14 DEF Caused, Leaves
    <2>5. \A r \in DOMAIN stored' : Began(r, "sensors")'
      BY <1>1, <1>11, <1>14 DEF Caused, Leaves
    <2>6. \A r \in intime' : Began(r, "sessions")'
      BY <1>1, <1>5, <1>11 DEF Caused
    <2> QED
      BY <2>1, <2>2, <2>3, <2>4, <2>5, <2>6 DEF Caused
  <1>16. Unfailed'
    <2>1. \A x \in Underway', e \in errors' : ~(e[1] = x.of /\ e[3] = x.table)
      BY <1>1, <1>6, <1>13 DEF Unfailed, Leaves, SameWork
    <2>2. \A r \in Conns, t \in Tables : Before(r, t)' => <<r, t>> \notin repeated'
      BY <1>1, <1>10 DEF Unfailed, Leaves
    <2> QED
      BY <2>1, <2>2 DEF Unfailed
  <1>17. ASSUME NEW t \in {"sensors", "clients"} PROVE Finds(t)'
    BY <1>2, <1>5, <1>6, <1>11 DEF Finds, Leaves
  <1>18. ASSUME NEW t \in {"sensors", "clients"} PROVE Stuck(t)'
    BY <1>2, <1>5, <1>6 DEF Stuck, Leaves
  <1>19. ASSUME NEW t \in {"sensors", "clients"} PROVE Bounded(t)'
    <2>1. rows[t] \in Nat /\ rows'[t] = rows[t] /\ t \in Tables
      BY <1>1 DEF SqlTypes, Tables, Leaves
    <2>2. \A r \in Conns : <<r, t>> \in repeated' <=> <<r, t>> \in repeated
      BY <2>1 DEF Leaves
    <2> QED
      BY <1>1, <1>2, <1>5, <1>10, <2>1, <2>2, StillBounded
  <1> QED
    BY <1>3, <1>5, <1>6, <1>10, <1>11, <1>12, <1>15, <1>16, <1>17, <1>18, <1>19

\* An event that is one INSERT, run n times.
LEMMA LoginStep ==
    ASSUME SqlIInv, NEW i \in Runnable, NEW q, q = queue[i], q.op = "insert", q.table = "auth",
           queue' = Without(i), NEW n \in {1, 2}, Inserted(q.table, n),
           repeated' = IF n = 2 THEN repeated \cup {<<q.of, q.table>>} ELSE repeated,
           UNCHANGED <<db, known, intime, state, logged, answers, stored, closing, errors, soon>>
    PROVE  SqlIInv'
  <1> DEFINE s == q.of
  <1>1. SqlTypes /\ Unfailed /\ KnownIdIsUsed /\ Storing /\ Balanced
    BY Parts
  <1>2. s \in Conns /\ At(s, "auth") /\ Before(s, "auth")
    BY RunFacts
  <1>3. /\ rows \in [Tables -> Nat] /\ rows' = [rows EXCEPT !["auth"] = @ + n]
        /\ ids' = (IF db = "sqlite" THEN ids ELSE {}) \cup {<<"auth", rows["auth"] + n>>}
    BY <1>1 DEF Inserted, SqlTypes
  <1>4. rows' \in [Tables -> Nat] /\ rows'["auth"] = rows["auth"] + n /\ \A t \in Tables : t # "auth" => rows'[t] = rows[t]
    BY <1>3 DEF Tables
  <1>5. Leaves(q)
    BY <1>1, <1>2, <1>4 DEF Leaves, SqlTypes, Tables
  <1>6. /\ queue' \in Seq(Queries) /\ answers' \in Seq(Queries) /\ OneAtATime' /\ Shaped' /\ Caused' /\ Unfailed'
        /\ \A t \in {"sensors", "clients"} : Finds(t)' /\ Stuck(t)' /\ Bounded(t)'
        /\ \A r, t : At(r, t)' <=> At(r, t) /\ ~(r = s /\ t = "auth")
        /\ \A r, t : Began(r, t)' <=> Began(r, t)
    BY <1>5, DropStep
  <1>7. SqlTypes'
    <2>1. rows["auth"] + n \in Nat
      BY <1>3 DEF Tables
    <2>2. <<"auth", rows["auth"] + n>> \in Ids /\ ids \subseteq Ids
      BY <1>1, <2>1 DEF SqlTypes, Ids, Tables
    <2>3. ids' \subseteq Ids /\ ids' # {}
      BY <1>3, <2>2
    <2>4. repeated' \subseteq Conns \X Tables
      BY <1>5 DEF Leaves
    <2> QED
      BY <1>1, <1>4, <1>6, <2>3, <2>4 DEF SqlTypes
  <1>8. KnownIdIsUsed'
    BY <1>1 DEF KnownIdIsUsed
  <1>9. Storing'
    <2>1. \A r \in Conns : Failed(r)' <=> Failed(r)
      BY DEF Failed
    <2> QED
      BY <1>1, <1>6, <2>1 DEF Storing
  <1>10. Balanced'
    <2> SUFFICES ASSUME ~closing PROVE Balanced'
      BY DEF Balanced
    <2>1. ToCome = ToCome' \cup {s} /\ s \notin ToCome' /\ Lost' = Lost /\ Logins' = Logins
      BY <1>2, <1>6 DEF ToCome, Lost, Logins
    <2>2. /\ Lost \subseteq Conns /\ Logins \subseteq Conns /\ Again("auth") \subseteq Conns /\ ToCome' \subseteq Conns
      BY DEF Lost, Logins, Again, ToCome
    <2>3. IsFiniteSet(Lost) /\ IsFiniteSet(Logins) /\ IsFiniteSet(Again("auth")) /\ IsFiniteSet(ToCome')
      BY <2>2, SqlAssumption, FS_Subset
    <2>4. /\ Cardinality(Lost) \in Nat /\ Cardinality(Logins) \in Nat /\ Cardinality(Again("auth")) \in Nat
          /\ Cardinality(ToCome') \in Nat /\ rows["auth"] \in Nat
      BY <1>3, <2>3, FS_CardinalityType DEF Tables
    <2>5. Cardinality(ToCome) = Cardinality(ToCome') + 1
      BY <2>1, <2>3, FS_AddElement
    <2>6. Cardinality(Again("auth"))' = Cardinality(Again("auth")) + (n - 1)
      <3>1. CASE n = 1
        <4>1. Again("auth")' = Again("auth")
          BY <3>1 DEF Again
        <4> QED
          BY <2>4, <3>1, <4>1
      <3>2. CASE n = 2
        <4>1. Again("auth")' = Again("auth") \cup {s} /\ s \notin Again("auth")
          BY <1>1, <1>2, <3>2 DEF Again, Unfailed, Tables
        <4>2. Cardinality(Again("auth"))' = Cardinality(Again("auth")) + 1
          BY <2>3, <4>1, FS_AddElement
        <4> QED
          BY <2>4, <3>2, <4>2
      <3> QED
        BY <3>1, <3>2
    <2>7. rows["auth"] + Cardinality(ToCome) + Cardinality(Lost) = Cardinality(Logins) + Cardinality(Again("auth"))
      BY <1>1 DEF Balanced
    <2>8. rows'["auth"] + Cardinality(ToCome)' + Cardinality(Lost)' = Cardinality(Logins)' + Cardinality(Again("auth"))'
      BY <1>4, <2>1, <2>4, <2>5, <2>6, <2>7
    <2> QED
      BY <2>8 DEF Balanced
  <1>11. Ended'
    BY RunEnded
  <1> QED
    BY <1>6, <1>7, <1>8, <1>9, <1>10, <1>11 DEF SqlIInv

Stored == [sensor : Ids, client : Ids, end : BOOLEAN]

\* The INSERT of a session with the id of its sensor.
LEMMA StoreStep ==
    ASSUME SqlIInv, NEW i \in Runnable, NEW q, q = queue[i], q.op = "use", q.table = "sensors",
           queue' = Without(i),
           stored' = [s \in DOMAIN stored \cup {q.of} |->
                       IF s = q.of THEN [sensor |-> q.id, client |-> NoId, end |-> FALSE] ELSE stored[s]],
           UNCHANGED <<db, known, intime, state, logged, answers, ids, rows, closing, errors, repeated, soon>>
    PROVE  SqlIInv'
  <1> DEFINE s == q.of
             new == [sensor |-> q.id, client |-> NoId, end |-> FALSE]
  <1>1. SqlTypes /\ Caused /\ KnownIdIsUsed /\ Storing /\ Balanced /\ Finds("sensors") /\ Stuck("sensors")
    BY Parts
  <1>2. s \in Conns /\ At(s, "sensors") /\ q.id \in Ids /\ q \in Waiting /\ q \in Underway
    BY RunFacts
  <1>3. /\ new \in Stored /\ new.sensor = q.id /\ new.client = NoId
    BY <1>2, NoIdIsId DEF Stored
  <1> HIDE DEF new
  <1>4. /\ DOMAIN stored' = DOMAIN stored \cup {s} /\ stored'[s] = new
        /\ \A r \in DOMAIN stored : r # s => stored'[r] = stored[r]
    BY DEF new
  <1>5. s \notin DOMAIN stored /\ DOMAIN stored \subseteq Conns
    BY <1>1, <1>2 DEF Storing, SqlTypes
  <1>6. Leaves(q)
    BY <1>1, <1>2, <1>4, <1>5 DEF Leaves, SqlTypes
  <1>7. /\ queue' \in Seq(Queries) /\ answers' \in Seq(Queries) /\ OneAtATime' /\ Shaped' /\ Caused' /\ Unfailed'
        /\ \A t \in {"sensors", "clients"} : Finds(t)' /\ Stuck(t)' /\ Bounded(t)'
        /\ \A r, t : At(r, t)' <=> At(r, t) /\ ~(r = s /\ t = "sensors")
        /\ \A r, t : Began(r, t)' <=> Began(r, t)
    BY <1>6, DropStep
  <1>8. SqlTypes'
    <2>1. \A r \in DOMAIN stored : stored[r] \in Stored
      BY <1>1 DEF SqlTypes, Stored
    <2>2. \A r \in DOMAIN stored' : stored'[r] \in Stored
      BY <1>3, <1>4, <2>1
    <2> QED
      BY <1>1, <1>2, <1>4, <1>5, <1>7, <2>2 DEF SqlTypes, Stored
  <1>9. KnownIdIsUsed'
    <2>1. <<s, "sensors">> \notin soon => q.id = <<"sensors", 1>>
      BY <1>1, <1>2 DEF Finds, Caused
    <2> QED
      BY <1>1, <1>3, <1>4, <2>1 DEF KnownIdIsUsed
  <1>10. Storing'
    <2>1. \A r \in Conns : Failed(r)' <=> Failed(r)
      BY DEF Failed
    <2>2. ~(db = "postgresql" /\ ~known)
      BY <1>1, <1>2 DEF Stuck
    <2> QED
      BY <1>1, <1>2, <1>4, <1>7, <2>1, <2>2 DEF Storing
  <1>11. Balanced'
    BY <1>1, <1>7, StillBalanced
  <1>12. Ended'
    <2>1. DOMAIN stored \subseteq DOMAIN stored' /\ \A r \in DOMAIN stored : stored[r].end => stored'[r].end
      BY <1>4, <1>5
    <2>2. s \in DOMAIN stored'
      BY <1>4
    <2> QED
      BY <2>1, <2>2, RunEnded
  <1> QED
    BY <1>7, <1>8, <1>9, <1>10, <1>11, <1>12 DEF SqlIInv

\* An UPDATE of a session: the id of its client, or its end.
LEMMA UpdateStep ==
    ASSUME SqlIInv, NEW i \in Runnable, NEW q, q = queue[i],
           queue' = Without(i), DOMAIN stored' = DOMAIN stored,
           \/ /\ q.op = "use" /\ q.table = "clients"
              /\ \A s \in DOMAIN stored :
                     stored'[s] = IF s = q.of THEN [stored[s] EXCEPT !.client = q.id] ELSE stored[s]
           \/ /\ q.op = "end"
              /\ \A s \in DOMAIN stored :
                     stored'[s] = IF s = q.of THEN [stored[s] EXCEPT !.end = TRUE] ELSE stored[s],
           UNCHANGED <<db, known, intime, state, logged, answers, ids, rows, closing, errors, repeated, soon>>
    PROVE  SqlIInv'
  <1> DEFINE s == q.of
             named(z) == [z EXCEPT !.client = q.id]
             over(z) == [z EXCEPT !.end = TRUE]
  <1>1. SqlTypes /\ Caused /\ Shaped /\ KnownIdIsUsed /\ Storing /\ Balanced /\ Finds("clients")
    BY Parts
  <1>2. s \in Conns /\ At(s, q.table) /\ q.id \in Ids /\ q \in Waiting /\ q \in Underway
    BY RunFacts
  <1>3. q.op = "end" => q.table = "sessions"
    BY <1>1, <1>2 DEF Shaped
  <1>4. Leaves(q)
    BY <1>1 DEF Leaves, SqlTypes
  <1>5. /\ queue' \in Seq(Queries) /\ answers' \in Seq(Queries) /\ OneAtATime' /\ Shaped' /\ Caused' /\ Unfailed'
        /\ \A t \in {"sensors", "clients"} : Finds(t)' /\ Stuck(t)' /\ Bounded(t)'
        /\ \A r, t : At(r, t)' <=> At(r, t) /\ ~(r = s /\ t = q.table)
        /\ \A r, t : Began(r, t)' <=> Began(r, t)
    BY <1>4, DropStep
  <1>6. \A r \in DOMAIN stored : stored[r] \in Stored
    BY <1>1 DEF SqlTypes, Stored
  <1>7. \A z \in Stored : /\ named(z) \in Stored /\ over(z) \in Stored
                          /\ named(z).client = q.id /\ named(z).sensor = z.sensor /\ named(z).end = z.end
                          /\ over(z).client = z.client /\ over(z).sensor = z.sensor /\ over(z).end = TRUE
    BY <1>2 DEF Stored
  <1>14. \A r \in DOMAIN stored :
            IF r # s THEN stored'[r] = stored[r]
            ELSE (q.op = "use" /\ stored'[r] = named(stored[r])) \/ (q.op = "end" /\ stored'[r] = over(stored[r]))
    OBVIOUS
  <1> HIDE DEF named, over
  <1>8. \A r \in DOMAIN stored : stored'[r] \in Stored /\ stored'[r].sensor = stored[r].sensor
    BY <1>6, <1>7, <1>14
  <1>9. SqlTypes'
    BY <1>1, <1>5, <1>8 DEF SqlTypes, Stored
  <1>10. KnownIdIsUsed'
    <2>1. q.op = "use" /\ <<s, "clients">> \notin soon => q.id = <<"clients", 1>>
      BY <1>1, <1>2 DEF Finds, Caused
    <2>2. \A r \in DOMAIN stored : stored'[r].client = stored[r].client \/ (r = s /\ q.op = "use" /\ stored'[r].client = q.id)
      BY <1>6, <1>7, <1>14
    <2> QED
      BY <1>1, <1>8, <2>1, <2>2 DEF KnownIdIsUsed
  <1>11. Storing'
    <2>1. \A r \in Conns : Failed(r)' <=> Failed(r)
      BY DEF Failed
    <2>2. \A r : At(r, "sensors")' <=> At(r, "sensors")
      BY <1>3, <1>5
    <2> QED
      BY <1>1, <1>5, <2>1, <2>2 DEF Storing
  <1>12. Balanced'
    BY <1>1, <1>3, <1>5, StillBalanced
  <1>13. Ended'
    <2>1. \A r \in DOMAIN stored : stored[r].end => stored'[r].end
      BY <1>6, <1>7, <1>14
    <2>2. q.op = "end" /\ s \in DOMAIN stored => stored'[s].end
      BY <1>6, <1>7, <1>14
    <2> QED
      BY <1>3, <2>1, <2>2, RunEnded
  <1> QED
    BY <1>5, <1>9, <1>10, <1>11, <1>12, <1>13 DEF SqlIInv

\* A query that raises.
LEMMA FailStep ==
    ASSUME SqlIInv, NEW i \in Runnable, NEW q, q = queue[i], queue' = Without(i),
           errors' = IF Unfetchable(q) THEN errors ELSE errors \cup {<<q.of, q.op, q.table>>},
           UNCHANGED <<db, known, intime, state, logged, answers, ids, rows, stored, closing, repeated, soon>>
    PROVE  SqlIInv'
  <1> DEFINE s == q.of
  <1>1. SqlTypes /\ Shaped /\ Caused /\ Unfailed /\ KnownIdIsUsed /\ Storing /\ Balanced /\ Finds("sensors") /\ Stuck("sensors")
    BY Parts
  <1>2. s \in Conns /\ At(s, q.table) /\ q.table \in Works /\ q.op \in Ops /\ q \in Waiting /\ q \in Underway
    BY RunFacts
  <1>3. Leaves(q)
    BY <1>1 DEF Leaves, SqlTypes
  <1>4. /\ queue' \in Seq(Queries) /\ answers' \in Seq(Queries) /\ OneAtATime' /\ Shaped' /\ Caused' /\ Unfailed'
        /\ \A t \in {"sensors", "clients"} : Finds(t)' /\ Stuck(t)' /\ Bounded(t)'
        /\ \A r, t : At(r, t)' <=> At(r, t) /\ ~(r = s /\ t = q.table)
        /\ \A r, t : Began(r, t)' <=> Began(r, t)
    BY <1>3, DropStep
  <1>5. SqlTypes'
    BY <1>1, <1>2, <1>4 DEF SqlTypes
  <1>6. KnownIdIsUsed'
    BY <1>1 DEF KnownIdIsUsed
  <1>7. \A r : Failed(r)' <=> Failed(r) \/ (r = s /\ ~Unfetchable(q))
    <2> DEFINE e == <<q.of, q.op, q.table>>
    <2>1. e[1] = s
      OBVIOUS
    <2>2. errors' = IF Unfetchable(q) THEN errors ELSE errors \cup {e}
      OBVIOUS
    <2> HIDE DEF e
    <2> QED
      BY <2>1, <2>2 DEF Failed
  <1>8. Storing'
    <2>1. Unfetchable(q) /\ q.table = "sensors" => db = "postgresql" /\ ~known
      <3>1. Began(s, q.table)
        BY <1>1, <1>2 DEF Caused
      <3> QED
        BY <1>1, <1>2, <3>1 DEF Unfetchable, Finds, Stuck
    <2> QED
      BY <1>1, <1>4, <1>7, <2>1 DEF Storing
  <1>9. Balanced'
    <2>1. CASE q.table # "auth"
      <3>1. \A r : <<r, "insert", "auth">> \in errors' <=> <<r, "insert", "auth">> \in errors
        BY <2>1
      <3> QED
        BY <1>1, <1>4, <2>1, <3>1, StillBalanced
    <2>2. CASE q.table = "auth" /\ ~closing
      <3>1. q.op = "insert" /\ ~Unfetchable(q)
        BY <1>1, <1>2, <2>2 DEF Shaped, Unfetchable
      <3>2. <<s, "insert", "auth">> \notin errors
        BY <1>1, <1>2, <2>2 DEF Unfailed
      <3>3. /\ ToCome = ToCome' \cup {s} /\ s \notin ToCome' /\ Lost' = Lost \cup {s} /\ s \notin Lost
            /\ Logins' = Logins /\ Again("auth")' = Again("auth")
        BY <1>2, <1>4, <2>2, <3>1, <3>2 DEF ToCome, Lost, Logins, Again
      <3>4. /\ Lost \subseteq Conns /\ Logins \subseteq Conns /\ Again("auth") \subseteq Conns /\ ToCome' \subseteq Conns
        BY DEF Lost, Logins, Again, ToCome
      <3>5. IsFiniteSet(Lost) /\ IsFiniteSet(Logins) /\ IsFiniteSet(Again("auth")) /\ IsFiniteSet(ToCome')
        BY <3>4, SqlAssumption, FS_Subset
      <3>6. /\ Cardinality(Lost) \in Nat /\ Cardinality(Logins) \in Nat /\ Cardinality(Again("auth")) \in Nat
            /\ Cardinality(ToCome') \in Nat /\ rows["auth"] \in Nat
        BY <1>1, <3>5, FS_CardinalityType DEF SqlTypes, Tables
      <3>7. Cardinality(ToCome) = Cardinality(ToCome') + 1 /\ Cardinality(Lost') = Cardinality(Lost) + 1
        BY <3>3, <3>5, FS_AddElement
      <3>8. rows["auth"] + Cardinality(ToCome) + Cardinality(Lost) = Cardinality(Logins) + Cardinality(Again("auth"))
        BY <1>1, <2>2 DEF Balanced
      <3>9. Cardinality(Logins)' = Cardinality(Logins) /\ Cardinality(Again("auth"))' = Cardinality(Again("auth"))
        BY <3>3
      <3>10. rows'["auth"] + Cardinality(ToCome)' + Cardinality(Lost)' = Cardinality(Logins)' + Cardinality(Again("auth"))'
        BY <3>6, <3>7, <3>8, <3>9
      <3> QED
        BY <3>10 DEF Balanced
    <2>3. CASE closing
      BY <2>3 DEF Balanced
    <2> QED
      BY <2>1, <2>2, <2>3
  <1>10. Ended'
    <2>1. q.op # "insert" => Failed(s)'
      BY <1>7 DEF Unfetchable
    <2> QED
      BY <1>3, <2>1, RunEnded DEF Leaves
  <1> QED
    BY <1>4, <1>5, <1>6, <1>8, <1>9, <1>10 DEF SqlIInv

\* A query that runs, once or, when its connection was lost, twice.
LEMMA RunStep ==
    ASSUME SqlIInv, NEW i \in Runnable, NEW q, q = queue[i], ~Unfetchable(q), queue' = Without(i),
           NEW n \in {1, 2}, n = 2 => q.op = "insert", Effect(q, n),
           repeated' = IF n = 2 THEN repeated \cup {<<q.of, q.table>>} ELSE repeated,
           IF Answer(q) = {} THEN UNCHANGED answers ELSE \E a \in Answer(q) : answers' = Append(answers, a),
           UNCHANGED <<db, known, intime, state, logged, closing, errors, soon>>
    PROVE  SqlIInv'
  <1>1. SqlTypes /\ Shaped
    BY Parts
  <1>2. q \in Waiting /\ q.table \in Works /\ q.op \in Ops /\ q \in Queries
    BY RunFacts
  <1>3. /\ q.op = "end" <=> q.table = "sessions"
        /\ q.table = "auth" => q.op = "insert"
    BY <1>1, <1>2 DEF Shaped
  <1>4. CASE q.op = "find"
    <2> DEFINE k == IF rows[q.table] > 0 THEN <<q.table, 1>> ELSE NoId
               a == [q EXCEPT !.id = k]
    <2>1. k \in Ids
      BY <1>2, <1>3, <1>4, NoIdIsId DEF Ids, Works, Tables
    <2>2. answers' = Append(answers, a)
      BY <1>4 DEF Answer
    <2>3. UNCHANGED <<rows, ids, stored>> /\ repeated' = repeated
      BY <1>4 DEF Effect
    <2>4. ASSUME NEW x \in Ids, NEW y, y = [q EXCEPT !.id = x], answers' = Append(answers, y),
                 q.op = "find" => x = IF rows[q.table] > 0 THEN <<q.table, 1>> ELSE NoId
          PROVE  SqlIInv'
      BY <1>4, <2>3, <2>4, AnswerStep
    <2> QED
      BY <1>4, <2>1, <2>2, <2>4
  <1>5. CASE q.op = "last"
    <2>1. PICK k \in ids : answers' = Append(answers, [q EXCEPT !.id = k])
      <3>1. Answer(q) = {[q EXCEPT !.id = k] : k \in ids} /\ ids # {}
        BY <1>1, <1>5 DEF Answer, SqlTypes
      <3> QED
        BY <3>1
    <2>2. k \in Ids
      BY <1>1 DEF SqlTypes
    <2>3. UNCHANGED <<rows, ids, stored>> /\ repeated' = repeated
      BY <1>5 DEF Effect
    <2>4. ASSUME NEW x \in Ids, NEW y, y = [q EXCEPT !.id = x], answers' = Append(answers, y),
                 q.op = "find" => x = IF rows[q.table] > 0 THEN <<q.table, 1>> ELSE NoId
          PROVE  SqlIInv'
      BY <1>5, <2>3, <2>4, AnswerStep
    <2> QED
      BY <1>5, <2>1, <2>2, <2>4
  <1>6. CASE q.op = "insert"
    <2>1. Inserted(q.table, n) /\ UNCHANGED stored
      BY <1>6 DEF Effect
    <2>2. CASE q.table = "auth"
      <3>1. answers' = answers
        BY <1>6, <2>2 DEF Answer
      <3> QED
        BY <1>6, <2>1, <2>2, <3>1, LoginStep
    <2>3. CASE q.table # "auth"
      <3>1. answers' = Append(answers, q)
        BY <1>6, <2>3 DEF Answer
      <3>2. db # "postgresql"
        BY <1>6, <2>3 DEF Unfetchable
      <3> QED
        BY <1>6, <2>1, <2>3, <3>1, <3>2, InsertStep
    <2> QED
      BY <2>2, <2>3
  <1>7. CASE q.op = "use"
    <2>1. answers' = answers /\ n = 1 /\ repeated' = repeated
      BY <1>7 DEF Answer
    <2>2. CASE q.table = "sensors"
      <3>1. /\ UNCHANGED <<rows, ids>>
            /\ stored' = [s \in DOMAIN stored \cup {q.of} |->
                       IF s = q.of THEN [sensor |-> q.id, client |-> NoId, end |-> FALSE] ELSE stored[s]]
        BY <1>7, <2>2 DEF Effect
      <3> QED
        BY <1>7, <2>1, <2>2, <3>1, StoreStep
    <2>3. CASE q.table = "clients"
      <3>1. /\ UNCHANGED <<rows, ids>>
            /\ stored' = [s \in DOMAIN stored |->
                       IF s = q.of THEN [stored[s] EXCEPT !.client = q.id] ELSE stored[s]]
        BY <1>7, <2>3 DEF Effect
      <3>2. /\ DOMAIN stored' = DOMAIN stored
            /\ \A s \in DOMAIN stored :
                   stored'[s] = IF s = q.of THEN [stored[s] EXCEPT !.client = q.id] ELSE stored[s]
        BY <3>1
      <3> QED
        BY <1>7, <2>1, <2>3, <3>1, <3>2, UpdateStep
    <2> QED
      BY <1>2, <1>3, <1>7, <2>2, <2>3 DEF Works, Tables
  <1>8. CASE q.op = "end"
    <2>1. answers' = answers /\ n = 1 /\ repeated' = repeated
      BY <1>8 DEF Answer
    <2>2. /\ UNCHANGED <<rows, ids>>
          /\ stored' = [s \in DOMAIN stored |->
                     IF s = q.of THEN [stored[s] EXCEPT !.end = TRUE] ELSE stored[s]]
      BY <1>8 DEF Effect
    <2>3. /\ DOMAIN stored' = DOMAIN stored
          /\ \A s \in DOMAIN stored :
                 stored'[s] = IF s = q.of THEN [stored[s] EXCEPT !.end = TRUE] ELSE stored[s]
      BY <2>2
    <2> QED
      BY <1>8, <2>1, <2>2, <2>3, UpdateStep
  <1> QED
    BY <1>2, <1>4, <1>5, <1>6, <1>7, <1>8 DEF Ops

LEMMA SqlInitInv == SqlInit => SqlIInv
  <1> SUFFICES ASSUME SqlInit PROVE SqlIInv
    OBVIOUS
  <1>1. /\ db \in Databases /\ known \in BOOLEAN
        /\ state = [s \in Conns |-> "new"] /\ logged = [s \in Conns |-> {}]
        /\ queue = <<>> /\ answers = <<>> /\ ids = {NoId}
        /\ rows = [t \in Tables |-> IF t # "auth" /\ known THEN 1 ELSE 0]
        /\ stored = <<>> /\ closing = FALSE /\ errors = {} /\ repeated = {}
        /\ intime = {} /\ soon = {}
    BY DEF SqlInit
  <1>2. DOMAIN stored = {} /\ DOMAIN queue = {} /\ DOMAIN answers = {}
    BY <1>1
  <1>3. Waiting = {} /\ Coming = {} /\ Underway = {}
    BY <1>2 DEF Waiting, Coming, Of, Underway
  <1>4. (\A s \in Conns, t \in Tables : ~Began(s, t)) /\ (\A s, t : ~At(s, t) /\ ~Before(s, t))
    BY <1>1, <1>3 DEF Began, At, Before, Tables
  <1>5. SqlTypes
    <2>1. /\ state \in [Conns -> {"new", "open", "closed"}] /\ logged \in [Conns -> SUBSET EventKinds]
          /\ rows \in [Tables -> Nat] /\ ids \subseteq Ids /\ ids # {}
      BY <1>1, NoIdIsId
    <2>2. queue \in Seq(Queries) /\ answers \in Seq(Queries)
      BY <1>1
    <2> QED
      BY <1>1, <1>2, <2>1, <2>2 DEF SqlTypes
  <1>6. OneAtATime /\ Shaped /\ Caused /\ Unfailed /\ KnownIdIsUsed /\ Ended
    BY <1>1, <1>2, <1>3 DEF OneAtATime, Different, Shaped, Caused, Unfailed, KnownIdIsUsed, Ended
  <1>7. Storing
    BY <1>2, <1>4 DEF Storing, Tables
  <1>8. ASSUME NEW t \in {"sensors", "clients"} PROVE Finds(t) /\ Stuck(t) /\ Bounded(t)
    <2>1. rows[t] = IF known THEN 1 ELSE 0
      BY <1>1 DEF Tables
    <2>2. Finds(t) /\ Stuck(t)
      BY <1>1, <1>3, <1>4, <2>1 DEF Finds, Stuck, Tables
    <2>3. Added(t) = {} /\ Again(t) = {}
      BY <1>1 DEF Added, Again
    <2>4. Bounded(t)
      BY <1>1, <2>1, <2>3, FS_EmptySet DEF Bounded
    <2> QED
      BY <2>2, <2>4
  <1>9. Balanced
    <2>1. ToCome = {} /\ Lost = {} /\ Logins = {} /\ Again("auth") = {} /\ rows["auth"] = 0
      BY <1>1, <1>4 DEF ToCome, Lost, Logins, Again, Tables
    <2> QED
      BY <2>1, FS_EmptySet DEF Balanced
  <1> QED
    BY <1>5, <1>6, <1>7, <1>8, <1>9 DEF SqlIInv

LEMMA SqlNextInv == SqlIInv /\ [SqlNext]_sqlVars => SqlIInv'
  <1> SUFFICES ASSUME SqlIInv, [SqlNext]_sqlVars PROVE SqlIInv'
    OBVIOUS
  <1>1. CASE UNCHANGED sqlVars
    <2>1. /\ UNCHANGED <<db, known, state, logged, queue, answers, ids, rows, stored, closing, errors>>
          /\ UNCHANGED <<repeated, intime, soon>>
      BY <1>1 DEF sqlVars
    <2>2. SqlTypes' /\ OneAtATime' /\ Shaped'
      BY <2>1 DEF SqlIInv, SqlTypes, OneAtATime, Shaped, Different, Waiting, Coming
    <2>3. Caused' /\ Unfailed'
      BY <2>1 DEF SqlIInv, Caused, Unfailed, Waiting, Coming, Underway, Began, Before
    <2>4. ASSUME NEW t \in {"sensors", "clients"} PROVE Finds(t)' /\ Stuck(t)' /\ Bounded(t)'
      <3>1. Finds(t)'
        BY <2>1 DEF SqlIInv, Finds, Waiting, Coming, Began
      <3>2. Stuck(t)'
        BY <2>1 DEF SqlIInv, Stuck, Waiting, Coming
      <3>3. Bounded(t)'
        BY <2>1 DEF SqlIInv, Bounded, Waiting, Coming, Underway, Began, At, Before, Added, Again
      <3> QED
        BY <3>1, <3>2, <3>3
    <2>5. KnownIdIsUsed' /\ Storing'
      BY <2>1 DEF SqlIInv, KnownIdIsUsed, Storing, Of, Waiting, Coming, Underway, Began, At, Failed
    <2>6. Balanced' /\ Ended'
      BY <2>1 DEF SqlIInv, Balanced, Ended, Waiting, Coming, Underway, At, Before, Again, Logins, ToCome, Lost,
                  Ending, Failed
    <2> QED
      BY <2>2, <2>3, <2>4, <2>5, <2>6 DEF SqlIInv
  <1>2. ASSUME NEW s \in Conns, SqlConnect(s) PROVE SqlIInv'
    BY <1>2, ConnectStep
  <1>3. ASSUME NEW s \in Conns, SqlClosed(s) PROVE SqlIInv'
    BY <1>3, ClosedStep
  <1>4. ASSUME NEW s \in Conns, NEW t \in Logs[s], SqlEvent(s, t) PROVE SqlIInv'
    <2>1. t \in {"clients", "auth", "key"}
      BY SqlAssumption DEF EventKinds
    <2> QED
      BY <1>4, <2>1, EventStep, KeyStep
  <1>5. ASSUME NEW i \in Runnable, RunQuery(i) PROVE SqlIInv'
    <2>1. \A q : q = queue[i] => SqlIInv'
      <3> SUFFICES ASSUME NEW q, q = queue[i] PROVE SqlIInv'
        OBVIOUS
      <3>1. /\ ~Unfetchable(q) /\ queue' = Without(i) /\ Effect(q, 1)
            /\ IF Answer(q) = {} THEN UNCHANGED answers ELSE \E a \in Answer(q) : answers' = Append(answers, a)
            /\ UNCHANGED <<db, known, intime, state, logged, closing, errors, repeated, soon>>
        BY <1>5 DEF RunQuery
      <3>2. repeated' = IF 1 = 2 THEN repeated \cup {<<q.of, q.table>>} ELSE repeated
        BY <3>1
      <3> QED
        BY <3>1, <3>2, RunStep
    <2> QED
      BY <2>1
  <1>6. ASSUME NEW i \in Runnable, RunAgain(i) PROVE SqlIInv'
    <2>1. \A q : q = queue[i] => SqlIInv'
      <3> SUFFICES ASSUME NEW q, q = queue[i] PROVE SqlIInv'
        OBVIOUS
      <3>1. /\ ~Unfetchable(q) /\ q.op = "insert" /\ queue' = Without(i) /\ Effect(q, 2)
            /\ repeated' = repeated \cup {<<q.of, q.table>>}
            /\ IF Answer(q) = {} THEN UNCHANGED answers ELSE \E a \in Answer(q) : answers' = Append(answers, a)
            /\ UNCHANGED <<db, known, intime, state, logged, closing, errors, soon>>
        BY <1>6 DEF RunAgain
      <3>2. repeated' = IF 2 = 2 THEN repeated \cup {<<q.of, q.table>>} ELSE repeated
        BY <3>1
      <3> QED
        BY <3>1, <3>2, RunStep
    <2> QED
      BY <2>1
  <1>7. ASSUME NEW i \in Runnable, RunFails(i) PROVE SqlIInv'
    <2>1. \A q : q = queue[i] => SqlIInv'
      <3> SUFFICES ASSUME NEW q, q = queue[i] PROVE SqlIInv'
        OBVIOUS
      <3>1. /\ queue' = Without(i)
            /\ errors' = IF Unfetchable(q) THEN errors ELSE errors \cup {<<q.of, q.op, q.table>>}
            /\ UNCHANGED <<db, known, intime, state, logged, answers, ids, rows, stored, closing, repeated, soon>>
        BY <1>7 DEF RunFails
      <3> QED
        BY <3>1, FailStep
    <2> QED
      BY <2>1
  <1>8. CASE Resume
    BY <1>8, ResumeStep
  <1>9. CASE SqlStop
    BY <1>9, StopStep
  <1> QED
    BY <1>1, <1>2, <1>3, <1>4, <1>5, <1>6, <1>7, <1>8, <1>9 DEF SqlNext

LEMMA SqlIInvImplies == SqlIInv => SqlInv
  <1> SUFFICES ASSUME SqlIInv PROVE SqlInv
    OBVIOUS
  <1>1. SqlTypes /\ Storing /\ KnownIdIsUsed /\ Balanced /\ Ended /\ \A t \in {"sensors", "clients"} : Bounded(t)
    BY Parts
  <1>2. Quiet => Waiting = {} /\ Coming = {} /\ Underway = {} /\ DOMAIN queue = {}
    BY DEF Quiet, Waiting, Coming, Of, Underway
  <1>3. Quiet => \A s, t : ~At(s, t)
    BY <1>2 DEF At
  <1>4. SessionsAreStored
    BY <1>1, <1>3 DEF SessionsAreStored, Storing, Began
  <1>5. RowsAreBounded
    <2> SUFFICES ASSUME NEW t \in {"sensors", "clients"}
                 PROVE  rows[t] <= (IF known THEN 1 ELSE 0)
                   + Cardinality({s \in Conns : <<s, t>> \in soon})
                   + Cardinality({s \in Conns : <<s, t>> \in repeated})
      BY DEF RowsAreBounded
    <2> DEFINE S == {s \in Conns : <<s, t>> \in soon}
    <2>1. Added(t) \subseteq S /\ S \subseteq Conns /\ Again(t) \subseteq Conns
      BY DEF Added, Again
    <2>2. IsFiniteSet(S) /\ IsFiniteSet(Again(t))
      BY <2>1, SqlAssumption, FS_Subset
    <2>3. IsFiniteSet(Added(t)) /\ Cardinality(Added(t)) <= Cardinality(S)
      BY <2>1, <2>2, FS_Subset
    <2>4. Cardinality(Added(t)) \in Nat /\ Cardinality(S) \in Nat /\ Cardinality(Again(t)) \in Nat /\ rows[t] \in Nat
      BY <1>1, <2>2, <2>3, FS_CardinalityType DEF SqlTypes, Tables
    <2>5. rows[t] <= (IF known THEN 1 ELSE 0) + Cardinality(Added(t)) + Cardinality(Again(t))
      BY <1>1 DEF Bounded
    <2>6. Again(t) = {s \in Conns : <<s, t>> \in repeated}
      BY DEF Again
    <2> HIDE DEF S
    <2>7. rows[t] <= (IF known THEN 1 ELSE 0) + Cardinality(S) + Cardinality(Again(t))
      BY <2>3, <2>4, <2>5
    <2> QED
      BY <2>6, <2>7 DEF S
  <1>6. OneRowPerEvent
    <2> SUFFICES ASSUME Quiet, ~closing
                 PROVE  rows["auth"] = Cardinality({s \in Conns : "auth" \in logged[s]})
                       + Cardinality({s \in Conns : <<s, "auth">> \in repeated})
                       - Cardinality({s \in Conns : <<s, "insert", "auth">> \in errors})
      BY DEF OneRowPerEvent
    <2>1. ToCome = {}
      BY <1>3 DEF ToCome
    <2>2. Cardinality(ToCome) = 0
      BY <2>1, FS_EmptySet
    <2>3. rows["auth"] + Cardinality(ToCome) + Cardinality(Lost) = Cardinality(Logins) + Cardinality(Again("auth"))
      BY <1>1 DEF Balanced
    <2>4. Lost \subseteq Conns /\ Logins \subseteq Conns /\ Again("auth") \subseteq Conns
      BY DEF Lost, Logins, Again
    <2>5. /\ Cardinality(Lost) \in Nat /\ Cardinality(Logins) \in Nat /\ Cardinality(Again("auth")) \in Nat
          /\ rows["auth"] \in Nat
      BY <1>1, <2>4, SqlAssumption, FS_Subset, FS_CardinalityType DEF SqlTypes, Tables
    <2>6. rows["auth"] = Cardinality(Logins) + Cardinality(Again("auth")) - Cardinality(Lost)
      BY <2>2, <2>3, <2>5
    <2> QED
      BY <2>6 DEF Lost, Logins, Again
  <1>7. EndIsStored
    BY <1>1, <1>2 DEF EndIsStored, Ended, Ending
  <1> QED
    BY <1>1, <1>4, <1>5, <1>6, <1>7 DEF SqlInv

\* The tables of the SQL outputs agree with the sessions, for any sessions, logins
\* with and without a password and any number of faults, however their queries are
\* interleaved, run again or fail (SqlInv).
THEOREM TablesAgree == (SqlInit /\ [][SqlNext]_sqlVars) => []SqlInv
  BY SqlInitInv, SqlNextInv, SqlIInvImplies, PTL
=============================================================================
