----------------------------- MODULE AbuseIpdb -----------------------------
(***************************************************************************)
(* The AbuseIPDB output plugin of Cowrie (output/abuseipdb.py): it counts  *)
(* the login attempts of an address and reports the address, sleeps when   *)
(* the service says Retry-After, and keeps its logbook over restarts in a  *)
(* dump it writes from time to time.                                       *)
(*                                                                         *)
(* An entry of the logbook is the deque of the times of the attempts, or   *)
(* (None, time) when the address was reported.  The file is written by     *)
(* threads of the reactor that wait for a flag, in any order; one that     *)
(* waits ten seconds is given up, and one that raises leaves the flag set. *)
(***************************************************************************)
EXTENDS Naturals, Sequences, FiniteSets

CONSTANTS Ips,         \* addresses
          Tolerances,  \* values of tolerance_attempts over restarts
          Window,      \* tolerance_window
          Rereport,    \* rereport_after
          CleanEvery,  \* CLEAN_DUMP_SCHED
          RetryAfter,  \* the Retry-After values of the service, up to 86340 seconds
          MaxTime, MaxAttempts, MaxRefusals, MaxRestarts,
          MaxMishaps   \* bound on writes that fail and Retry-Afters that are too long

ASSUME AbuseAssumption ==
    /\ Tolerances \subseteq Nat \ {0} /\ RetryAfter \subseteq Nat \ {0}
    /\ {Window, Rereport, CleanEvery} \subseteq Nat \ {0}
    /\ {MaxAttempts, MaxRefusals, MaxRestarts, MaxMishaps} \subseteq Nat /\ MaxTime \in Nat \ {0}

VARIABLES up, now,
          tolerance,  \* tolerance_attempts
          book,       \* the logbook
          asleep,     \* [on |-> sleeping, until |-> sleep_until]
          recalls,    \* scheduled clean-ups: [at, held], held: self.recall is this one
          recalled,   \* does self.recall exist?
          wakeups,    \* scheduled wake-ups
          flight,     \* requests not answered yet: addresses
          waiting,    \* requests in sleeper_thread: Retry-After was above 86340
          dumps,      \* dumps the threads have not written yet
          jammed,     \* was _writing left set?
          disk,       \* the file, as far as it can be read
          torn,       \* is it cut short?
          attempts,   \* times of the attempts of an address (history)
          reports,    \* reports sent: [ip, at, n, k] (history)
          refusals,   \* answers with Retry-After: [k, until, again] (history)
          resent,     \* requests sent again: [ip, at] (history)
          newest,     \* the last dump that was made (history)
          lost,       \* did a start not read what the plugin knew? (history)
          restarts, mishaps

fileVars == <<dumps, jammed, disk, torn, newest>>
abuseVars == <<up, now, tolerance, book, asleep, recalls, recalled, wakeups, flight, waiting, fileVars,
               attempts, reports, refusals, resent, restarts, lost, mishaps>>

Reported(t) == [done |-> TRUE, times |-> <<t>>, max |-> 2]
Deque(ts, max) == [done |-> FALSE, times |-> ts, max |-> max]
Awake == [on |-> FALSE, until |-> 0]
NoFile == [exists |-> FALSE, book |-> <<>>, asleep |-> Awake, tolerated |-> 0]

Last(s, n) == IF Len(s) <= n THEN s ELSE SubSeq(s, Len(s) - n + 1, Len(s))
With(b, ip, e) == [x \in DOMAIN b \cup {ip} |-> IF x = ip THEN e ELSE b[x]]

-----------------------------------------------------------------------------
(* LogBook. *)

(* clean_expired_timestamps: from the left, up to one inside the window. *)
CleanExpired(e, t) ==
    IF e.done THEN e
    ELSE LET fresh == {i \in DOMAIN e.times : ~(e.times[i] + Window < t)}
         IN IF fresh = {} THEN Deque(<<>>, e.max)
            ELSE Deque(SubSeq(e.times, CHOOSE i \in fresh : \A j \in fresh : i <= j, Len(e.times)), e.max)

(* can_rereport: entry[1] is the time of the report, or the second attempt; *)
(* a deque with fewer raises IndexError, and that counts as yes.            *)
CanRereportMarked(e, t, n) == ~e.done \/ t >= e.times[1] + Rereport
CanRereport(e, t, n) ==
    IF e.done THEN t > e.times[1] + Rereport
    ELSE \/ Len(e.times) < 2
         \/ t > e.times[2] + Rereport
         \/ n <= 1

Cleaned(b, t, n) ==
    LET keep == {ip \in DOMAIN b : ~CanRereport(b[ip], t, n) /\ CleanExpired(b[ip], t).times # <<>>}
    IN [ip \in keep |-> CleanExpired(b[ip], t)]

Dump(b, s) == [exists |-> TRUE, book |-> b, asleep |-> s, tolerated |-> tolerance]

Held == \E r \in recalls : r.held
LetGo(rs) == {[r EXCEPT !.held = FALSE] : r \in rs}
Recall(rs) == LetGo(rs) \cup {[at |-> now + CleanEvery, held |-> TRUE]}

(* cleanup_and_dump_state of a logbook b in sleep state s.  Mode 1 cancels  *)
(* self.recall first; when that clean-up was cancelled before or has run,   *)
(* cancel() raises and nothing else happens.                                *)
CleanupAndDump(b, s, mode, rs) ==
    IF mode = 1 /\ recalled /\ ~Held
    THEN book' = b /\ recalls' = rs /\ UNCHANGED <<dumps, newest, recalled>>
    ELSE /\ book' = Cleaned(b, IF s.on THEN s.until ELSE now, tolerance)
         /\ newest' = Dump(book', s) /\ dumps' = dumps \cup {newest'}
         /\ IF mode = 0 /\ ~s.on
            THEN recalls' = Recall(rs) /\ recalled' = TRUE
            ELSE recalls' = {r \in rs : ~(mode = 1 /\ r.held)} /\ UNCHANGED recalled

-----------------------------------------------------------------------------
(* Reporter: the address is marked, then the request is sent. *)
Report(ip, t) ==
    /\ book' = With(book, ip, Reported(t))
    /\ flight' = Append(flight, ip)
    /\ reports' = Append(reports, [ip |-> ip, at |-> t, n |-> tolerance, k |-> Len(refusals)])

Note(ip, ts, max) == book' = With(book, ip, Deque(ts, max)) /\ UNCHANGED <<flight, reports>>
Ignore == UNCHANGED <<book, flight, reports>>

IntolerantObserver(ip) ==
    IF ip \in DOMAIN book /\ ~CanRereport(book[ip], now, tolerance) THEN Ignore ELSE Report(ip, now)

TolerantObserver(ip) ==
    LET e == book[ip]
        f == CleanExpired(Deque(Last(Append(e.times, now), e.max), e.max), now)
    IN IF ip \notin DOMAIN book THEN Note(ip, <<now>>, tolerance)
       ELSE IF ~e.done
       THEN IF e.times # <<>> /\ Len(f.times) >= tolerance THEN Report(ip, now)
            ELSE Note(ip, f.times, e.max)
       ELSE IF CanRereport(e, now, tolerance) THEN Note(ip, <<now>>, tolerance) ELSE Ignore

(* write() of a login event. *)
Attempt(ip) ==
    /\ up /\ Len(attempts[ip]) < MaxAttempts
    /\ attempts' = [attempts EXCEPT ![ip] = Append(@, now)]
    /\ \/ /\ asleep.on /\ Ignore
       \/ /\ ~asleep.on /\ tolerance <= 1 /\ IntolerantObserver(ip)
       \/ /\ ~asleep.on /\ tolerance > 1 /\ TolerantObserver(ip)
    /\ UNCHANGED <<up, now, tolerance, asleep, recalls, recalled, wakeups, waiting, fileVars, refusals,
                   resent, restarts, lost, mishaps>>

Mishap == mishaps < MaxMishaps /\ mishaps' = mishaps + 1
Dropped(q, i) == SubSeq(q, 1, i - 1) \o SubSeq(q, i + 1, Len(q))

(* http_request: any answer but 429 with Retry-After ends the request, a    *)
(* failure too; it is not sent again.                                       *)
Answered(i) ==
    /\ up /\ flight' = Dropped(flight, i)
    /\ UNCHANGED <<up, now, tolerance, book, asleep, recalls, recalled, wakeups, waiting, fileVars,
                   attempts, reports, refusals, resent, restarts, lost, mishaps>>

(* rate_limit_handler: the plugin sleeps. *)
RateLimited(i, retry) ==
    /\ up /\ Len(refusals) < MaxRefusals
    /\ flight' = Dropped(flight, i)
    /\ asleep' = [on |-> TRUE, until |-> now + retry]
    /\ wakeups' = wakeups \cup {now + retry}
    /\ CleanupAndDump(book, asleep', 1, recalls)
    /\ refusals' = Append(refusals, [until |-> now + retry, again |-> asleep.on])
    /\ UNCHANGED <<up, now, tolerance, waiting, jammed, disk, torn, attempts, reports, resent, restarts,
                   lost, mishaps>>

(* With a Retry-After above 86340 it does not: the reports go on, and the   *)
(* request is sent again after ten seconds in a thread, asleep or not.      *)
TooLong(i) ==
    /\ up /\ Mishap
    /\ flight' = Dropped(flight, i) /\ waiting' = Append(waiting, flight[i])
    /\ UNCHANGED <<up, now, tolerance, book, asleep, recalls, recalled, wakeups, fileVars, attempts,
                   reports, refusals, resent, restarts, lost>>

SendAgain(i) ==
    /\ up /\ waiting' = Dropped(waiting, i) /\ flight' = Append(flight, waiting[i])
    /\ resent' = resent \cup {[ip |-> waiting[i], at |-> now]}
    /\ UNCHANGED <<up, now, tolerance, book, asleep, recalls, recalled, wakeups, fileVars, attempts,
                   reports, refusals, restarts, lost, mishaps>>

Wakeup ==
    /\ up /\ \E t \in wakeups : t <= now /\ wakeups' = wakeups \ {t}
    /\ asleep' = Awake
    /\ recalls' = Recall(recalls) /\ recalled' = TRUE
    /\ UNCHANGED <<up, now, tolerance, book, flight, waiting, fileVars, attempts, reports, refusals,
                   resent, restarts, lost, mishaps>>

(* The looping task. *)
CleanupDue ==
    /\ up /\ \E r \in recalls : r.at <= now /\ CleanupAndDump(book, asleep, 0, recalls \ {r})
    /\ UNCHANGED <<up, now, tolerance, asleep, wakeups, flight, waiting, jammed, disk, torn, attempts,
                   reports, refusals, resent, restarts, lost, mishaps>>

-----------------------------------------------------------------------------
(* write_dump_file, in the threads. *)
Threads == UNCHANGED <<up, now, tolerance, book, asleep, recalls, recalled, wakeups, flight, waiting,
                       newest, attempts, reports, refusals, resent, restarts, lost>>

DumpWritten(d) ==
    /\ ~jammed /\ dumps' = dumps \ {d} /\ disk' = d /\ torn' = FALSE
    /\ UNCHANGED <<jammed, mishaps>> /\ Threads

(* open() raises, or pickle does when the file is already cut. *)
DumpFails(d) ==
    /\ ~jammed /\ Mishap /\ jammed' = TRUE /\ dumps' = dumps \ {d}
    /\ \/ UNCHANGED <<disk, torn>>
       \/ disk' = NoFile /\ torn' = TRUE
    /\ Threads

(* Two threads find the flag down together and write into one file. *)
DumpsCollide(d, e) ==
    /\ ~jammed /\ d # e /\ Mishap /\ dumps' = dumps \ {d, e} /\ disk' = NoFile /\ torn' = TRUE
    /\ UNCHANGED jammed /\ Threads

(* Ten seconds behind another, or behind a flag nobody takes down. *)
DumpGivenUp(d) ==
    /\ jammed \/ dumps # {d}
    /\ dumps' = dumps \ {d} /\ UNCHANGED <<jammed, disk, torn, mishaps>> /\ Threads

-----------------------------------------------------------------------------
(* stop(), and the end of the process: the threads write what is left. *)
AbuseStop ==
    /\ up /\ up' = FALSE /\ CleanupAndDump(book, asleep, 1, recalls)
    /\ flight' = <<>> /\ waiting' = <<>> /\ wakeups' = {}
    /\ UNCHANGED <<now, tolerance, asleep, jammed, disk, torn, attempts, reports, refusals, resent,
                   restarts, lost, mishaps>>

AbuseCrash ==
    /\ up /\ up' = FALSE /\ lost' = TRUE /\ dumps' = {}
    /\ \/ UNCHANGED <<disk, torn>>
       \/ dumps # {} /\ disk' = NoFile /\ torn' = TRUE
    /\ flight' = <<>> /\ waiting' = <<>> /\ wakeups' = {} /\ recalls' = {}
    /\ UNCHANGED <<now, tolerance, book, asleep, recalled, jammed, newest, attempts, reports, refusals,
                   resent, restarts, mishaps>>

(* The sleep a dump tells of, if it is not over. *)
Slept == IF disk.exists /\ disk.asleep.on /\ disk.asleep.until > now THEN disk.asleep ELSE Awake

(* start(), with the same or another tolerance.  The clean-up runs before   *)
(* the deques get their new length, which they get only when the dump tells *)
(* of another tolerance; without a file there is no sleep.                  *)
AbuseStart(n) ==
    LET s == Slept
        c == Cleaned(disk.book, IF s.on THEN s.until ELSE now, n)
    IN /\ ~up /\ dumps = {} /\ restarts < MaxRestarts
       /\ up' = TRUE /\ restarts' = restarts + 1 /\ tolerance' = n
       /\ asleep' = s /\ wakeups' = IF s.on THEN {s.until} ELSE {}
       /\ book' = [ip \in DOMAIN c |-> IF c[ip].done \/ disk.tolerated = n THEN c[ip]
                                       ELSE Deque(Last(c[ip].times, n), n)]
       /\ newest' = [exists |-> TRUE, book |-> c, asleep |-> s, tolerated |-> n]
       /\ dumps' = {newest'} /\ jammed' = FALSE
       /\ recalls' = IF s.on THEN {} ELSE {[at |-> now + CleanEvery, held |-> TRUE]}
       /\ recalled' = ~s.on /\ flight' = <<>> /\ waiting' = <<>>
       /\ lost' = (lost \/ disk # newest)
       /\ UNCHANGED <<now, disk, torn, attempts, reports, refusals, resent, mishaps>>

(* Of a file that is cut short pickle may raise EOFError, which start() does *)
(* not catch: the process runs without the plugin, and stop(), which the     *)
(* reactor calls all the same, may dump its empty logbook.                   *)
StartRaises(n) ==
    /\ ~up /\ torn /\ dumps = {} /\ restarts < MaxRestarts
    /\ restarts' = restarts + 1 /\ lost' = TRUE /\ jammed' = FALSE
    /\ \/ UNCHANGED <<newest, dumps>>
       \/ /\ newest' = [exists |-> TRUE, book |-> <<>>, asleep |-> Awake, tolerated |-> n]
          /\ dumps' = {newest'}
    /\ UNCHANGED <<up, now, tolerance, book, asleep, recalls, recalled, wakeups, flight, waiting, disk,
                   torn, attempts, reports, refusals, resent, mishaps>>

(* Timers and the threads that write are not late by a whole unit (minutes). *)
AbuseTick ==
    /\ now < MaxTime /\ now' = now + 1 /\ dumps = {}
    /\ \A r \in recalls : r.at > now
    /\ \A t \in wakeups : t > now
    /\ UNCHANGED <<up, tolerance, book, asleep, recalls, recalled, wakeups, flight, waiting, fileVars,
                   attempts, reports, refusals, resent, restarts, lost, mishaps>>

AbuseInit ==
    /\ up = FALSE /\ now = 1 /\ tolerance \in Tolerances /\ book = <<>> /\ asleep = Awake
    /\ recalls = {} /\ recalled = FALSE /\ wakeups = {} /\ flight = <<>> /\ waiting = <<>>
    /\ dumps = {} /\ jammed = FALSE /\ disk = NoFile /\ torn = FALSE /\ newest = NoFile
    /\ attempts = [ip \in Ips |-> <<>>] /\ reports = <<>> /\ refusals = <<>> /\ resent = {}
    /\ restarts = 0 /\ lost = FALSE /\ mishaps = 0

AbuseNext ==
    \/ \E ip \in Ips : Attempt(ip)
    \/ \E i \in DOMAIN flight : Answered(i) \/ TooLong(i) \/ \E r \in RetryAfter : RateLimited(i, r)
    \/ \E i \in DOMAIN waiting : SendAgain(i)
    \/ \E n \in Tolerances : AbuseStart(n) \/ StartRaises(n)
    \/ \E d \in dumps : DumpWritten(d) \/ DumpFails(d) \/ DumpGivenUp(d)
    \/ \E d, e \in dumps : DumpsCollide(d, e)
    \/ Wakeup \/ CleanupDue \/ AbuseStop \/ AbuseCrash \/ AbuseTick

AbuseSpec == AbuseInit /\ [][AbuseNext]_abuseVars

-----------------------------------------------------------------------------
AbuseTypeOK ==
    /\ now \in 1..MaxTime /\ tolerance \in Tolerances /\ DOMAIN book \subseteq Ips
    /\ \A ip \in DOMAIN book : book[ip].done => Len(book[ip].times) = 1
    /\ \A i \in DOMAIN flight : flight[i] \in Ips

Overlapping == \E j \in DOMAIN refusals : refusals[j].again

(* An address is not reported again within rereport_after, over restarts and *)
(* changes of the tolerance too, unless the plugin started without what it   *)
(* knew (after a crash, or from a file that is not the last dump), or two    *)
(* refusals overlapped: the clean-up counts from the end of the first sleep  *)
(* and the second may end before it (abuseipdb.py can_rereport,              *)
(* cleanup_and_dump_state).                                                  *)
NoEarlyRereport ==
    ~lost /\ ~Overlapping => \A i, j \in DOMAIN reports :
        i < j /\ reports[i].ip = reports[j].ip => reports[j].at > reports[i].at + Rereport

(* A report of n attempts has n attempts of that address inside the window   *)
(* (abuseipdb.py tolerant_observer, clean_expired_timestamps).               *)
ReportHasAttempts ==
    \A i \in DOMAIN reports :
        LET r == reports[i]
        IN Cardinality({j \in DOMAIN attempts[r.ip] :
               attempts[r.ip][j] <= r.at /\ r.at <= attempts[r.ip][j] + Window}) >= r.n

(* Between an answer with a Retry-After that is kept and the time it names   *)
(* no attempt leads to a report, over a restart too, unless another such     *)
(* answer came meanwhile (the first wake-up ends both sleeps) or the plugin  *)
(* started without what it knew.  All that is sent then is a report of       *)
(* before that the service answered with a longer Retry-After, which is sent *)
(* again in the sleep of another (abuseipdb.py rate_limit_handler, write).   *)
NoReportAsleep ==
    ~lost /\ ~Overlapping =>
        \A i \in DOMAIN reports : \A k \in 1..reports[i].k : reports[i].at >= refusals[k].until
OnlyReportedAgain ==
    \A r \in resent : \E i \in DOMAIN reports : reports[i].ip = r.ip /\ reports[i].at <= r.at
SleepIsKept == NoReportAsleep /\ OnlyReportedAgain

(* While the plugin runs, a clean-up is scheduled or a wake-up that schedules *)
(* one: the loop goes on forever, two refusals at once included.              *)
CleanupGoesOn == up => IF asleep.on THEN wakeups # {} ELSE recalls # {}

(* What AbuseIPDB gets, and when: reports that are earned, not too early and *)
(* not while it asked for silence; and the clean-up goes on.                 *)
AbuseInv == AbuseTypeOK /\ NoEarlyRereport /\ ReportHasAttempts /\ SleepIsKept /\ CleanupGoesOn
=============================================================================
