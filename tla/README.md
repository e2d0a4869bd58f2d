# c2-engine: TLA+ models, model checks and proofs

c2-engine turns honeypot sessions into a ledger of command-and-control (C2)
evidence, rolls the ledger up into one entity per C2 host, and serves the
entities as a feed. Its sensor is a copy of the Cowrie honeypot with plugins of its
own. This directory models the parts that are hard to test: delivery with failures
and resends, the rollup that runs while data arrives, the two caches of external
intelligence, the threads of the sensor's plugins, and of Cowrie the pool of virtual
machines, the proxies, the login, the shell, the LLM backend, the transfers, the virtual file system and
the output plugins that keep state.

## 1. Inventory

### The engine

| Component | State it keeps | Operations | Talks to |
|---|---|---|---|
| Sensor plugins (`sensor/.../plugins/stingar.py`, `output/urlfetcher.py`, `core/output.py`) | open sessions (`meta`), URLs already fetched (`_fetched`), the downloads directory | session events, fetch of a URL on a worker thread, send of a closed session | C2 hosts, Fluentd |
| Fluentd (external, `deploy/fluent.conf`) | file buffer of chunks | send, wait for an ack, resend | ingest |
| Ingest (`services/ingest`) | one handler thread per connection; nothing persistent | process a frame, ack | Elasticsearch |
| EsWriter (`elastic/client.py`) | none | `index` with retries, `ensure_bootstrap`, `search`, `index_doc`, `delete_by_query`, `bulk_index` | Elasticsearch |
| Pipeline and analyzers (`pipeline`, `analyze`, `model`) | none: a function of one session | `process` | called by ingest |
| Reason (`services/reason/engine.py`) | the entity index; a pass in progress | `run_once`: page, upsert, decay | Elasticsearch, the two caches |
| Intel (`services/reason/intel.py`) | cache index `c2-intel`, in-memory indexes, `_loaded`, `enabled` | `refresh`: check, fetch, store, purge, load | abuse.ch, Elasticsearch |
| VirusTotal (`services/reason/vt.py`) | cache index `c2-vt`; per pass `_mem`, `budget`, `enabled` | `verdicts_for` | VirusTotal, Elasticsearch |
| Feed (`services/feed`) | none | `build_feed` | Elasticsearch |

### Cowrie (`sensor/cowrie/src`)

| Component | State it keeps | Operations | Talks to |
|---|---|---|---|
| Backend pool (`backend_pool`) | list of guests and their states, `guest_id`, NAT bindings, producer loop | producer pass, request, free, reuse, recycle, stop | libvirt, pool clients |
| Pool client (`cowrie/pool_interface`) | connection to the pool, the guest in hand | initialise, request, release | pool, proxies |
| Proxies (`ssh_proxy`, `telnet_proxy`) | delayed packets, channels, tty logs, timeouts, login progress, the upload of an SFTP channel | relay, authenticate, parse, close | attacker, guest |
| Login (`ssh`, `telnet`, `core/auth.py`, `core/checkers.py`) | `auth_random.json`, per-connection dialogue, options, timers | attempts, negotiation, timeouts | shell |
| Shell (`shell`, `insults`, shell-like commands) | command stack, pipelines, queued lines, delayed calls, logs | typed lines, CTRL-C, CTRL-D, commands' ends, loss of the connection | all commands |
| LLM backend (`llm`) | history of the dialogue, requests in flight, timeout | typed lines, exec requests, answers, errors, loss of the connection | HTTP API of a language model |
| Transfers (`commands/wget.py`, `curl.py`, `ftpget.py`, `tftp.py`, `nc.py`, `scp.py`, `core/artifact.py`, `core/network.py`) | artifact, progress, rate limiter | download | remote servers, file system |
| File system (`shell/fs.py`, `shell/filetransfer.py`, `commands/fs.py`, `scripts/fsctl.py`) | tree of entries, open files, host files, the pickle | lookup, commands, SFTP requests, editing | host disk |
| Output plugins (`core/output.py`, `output/misp.py`, `mysql.py`, `sqlite.py`, `postgresql.py`, `abuseipdb.py`, `virustotal.py`) | sessions by number, sessions of MISP, row ids, log book of addresses, URL cache, collection | `emit`, `write`, timers, `stop` | MISP, databases, AbuseIPDB, VirusTotal |

What is hard in each, and what makes it correct:

* **Ingest.** Several connections at once, an ack timeout while the first handler
  is still at work, writes that were applied but not answered, crashes between
  any two writes. Correct means at-least-once: no chunk leaves the buffer before
  all it owes is stored; and a chunk that can be delivered is, in the end.
* **Reason.** A pass is many requests; rows, late rows and day changes come
  between them, a search does not see the latest writes, and any request may
  fail. Correct means: entities say what the ledger says, no host is missed,
  nothing that was sighted again is deleted, and what expired goes.
* **Intel and VirusTotal.** Steps of a refresh fail one by one and leave the cache
  half changed. Correct means: the purge is precise, fresh data is not asked for
  again, memory and cache agree again after failures, budgets are kept.
* **Sensor plugins.** Worker threads share files with each other and events with the
  reactor. Correct means: a file under a hash is that payload, a session is sent
  with whole files of its own.
* **Pool.** A producer thread, sessions that share guests and leave in any order, ids
  that start again. Correct means: clients are counted right, ports stay open under
  them, a used guest is not handed out as new, a guest in use is not taken away.
* **Proxies.** Two connections, each with its own login and its own end. Correct
  means: packets in order and none before the login, logs per channel, an honest answer
  to "was this guest used", no connection that outlives the other, and every file uploaded
  to the guest is stored and reported.
* **Login.** One file of counters for all connections, deferred answers, option
  negotiation, timers replaced on the way. Correct means: the promised number of
  attempts, one session per login, and no connection that nobody ends.
* **Shell.** Commands end synchronously, by timer, by CTRL-C or not at all, and every
  end resumes somebody. Correct means: nothing runs twice, somebody always has the
  terminal, logs are stored once.
* **LLM backend.** Requests overlap and are answered in any order, with errors, or too
  late. Correct means: every line gets its prompt, answers go with their commands, and an
  API that is silent does not hold the session.
* **Transfers.** Limits, missing lengths, CTRL-C, repeated datagrams, failures in the
  middle of callbacks. Correct means: what is stored and reported is the remote file,
  and the shell gets its terminal back.
* **File system.** Two lookup functions, links, several open handles, and commands that
  change contents lists in place. Correct means: entries stay a tree and findable,
  uploads are kept under their hash and reported.
* **Outputs.** Answers come in any order, sessions overlap, processes restart. Correct
  means: an event goes to its session, a report is made once and not when the service
  asked for silence.

`PROJECT.json` lists the hazards, each with its line and the properties that would
catch it.

## 2. Modules

Each model keeps the control of its code (every request, error path and order of
steps is an action of its own wherever another party can step in between) and
abstracts the data: a document is the chunk, record and position it stands for, a
ledger row is host, day and rank, a feed entry or verdict is its age, a payload is
a model value that stands for its own hash, a line of the shell is a list of
pipelines of abstract commands. Code that runs on the reactor runs to its end, so one
handler is one action, with everything it calls. Definitions named as "a faulty
variant" are not part of any specification; each is a plausible mistake that the
property it belongs to detects. A property whose name ends in `Inv`, and a few others,
is a conjunction of named parts, each stated and commented on its own.

| Module | Models |
|---|---|
| `AtLeastOnce` | what the ingest path promises, over `buffer` and `stored` only |
| `Delivery` | Fluentd's buffer, handler threads, `_handle_record`, `EsWriter.index`, `ensure_bootstrap`, crashes |
| `Reason` | ledger, `run_once`, the entity index and its refresh, `build_feed` |
| `Intel` | `IntelMatcher.refresh` and its cache |
| `Vt` | `VtResolver` and its cache |
| `Sensor` | Stingar plugin and URL fetcher |
| `Extract` | one session from its events to its document and evidence rows: the three producers, the removal of inlined bytes |
| `Pool` | backend pool, its libvirt service and NAT, the pool client of both proxies |
| `Proxy` | one proxied connection, SSH or Telnet, with its backend |
| `SftpTap` | the proxy's reading of an SFTP channel |
| `Login` | SSH and Telnet logins, UserDB and AuthRandom |
| `Shell` | protocol, command stack, pipes, redirections, the commands that take over the terminal, tty logs |
| `Llm` | an SSH, Telnet or exec session of the LLM backend |
| `Transfers` | wget, curl, ftpget, tftp, nc, scp, artifacts, address checks, rate limiter |
| `Vfs` | the tree and its lookups |
| `FsCommands`, `Sftp`, `FsCtl` | what changes the tree: commands, SFTP and redirections, the editor |
| `Emit`, `SqlOutput`, `AbuseIpdb`, `VtOutput` | `Output.emit` with MISP, the SQL plugins, AbuseIPDB, VirusTotal |
| `MCResolvers` | `Intel` and `Vt` in one run |
| `MCFs` | `FsCommands`, `Sftp` and `FsCtl` over one tree, and its properties |
| `MCOutputs` | the four output modules in one run |
| `MCShell` | `Shell`, `Llm` and `SftpTap`: a session of each backend of the configuration |
| `PipelineProofs` (`Delivery`, `Extract`), `ReasonProofs`, `ResolverProofs` (`Vt`, `Intel`), `SensorProofs` (`Sensor`, `Transfers`), `PoolProofs`, `SessionProofs` (`Llm`, `Login`), `ProxyProofs`, `OutputsProofs` (`Emit`, `VtOutput`, `AbuseIpdb`, `SqlOutput`) | theorems, see section 4 |
| `MCDelivery`, `MCSensor`, `MCExtract`, `MCPool`, `MCLogin` | values of the constants for TLC |

### Delivery

`handler[t]` is the thread on connection `t`: which chunk, which record, which
document of the record (1 is the session, the others are ledger rows) and which
attempt of the POST. `SkipRecord` is the early return on other tags; `PostOk`,
`PostUnavailable` (429/502/503/504 or unreachable), `PostUnanswered` (applied, but
no answer) and `PostRejected` (other 4xx) are the outcomes of one attempt;
`SendAck` follows the last record. `Raise` is the exception that closes the
connection without an ack. `boot` counts the PUTs of `ensure_bootstrap`, after
which the server listens. `Flush`, `ReceiveAck`, `ConnectionLost` and `AckTimeout`
are Fluentd, modelled from `require_ack_response`, `ack_response_timeout` and
`retry_forever`; after an `AckTimeout` the old handler goes on. A record carries
whether enrichment raises on it and how many rows it yields. The detailed
specification implements `AtLeastOnce` (`Promise == INSTANCE AtLeastOnce`, with
`Owed` computed from the frames): documents first appear in frame order and a chunk
is released only when all it owes is stored.

### Reason

`StartPass` fixes `now`; `ReadPage` is one page of the composite aggregation (the
hosts after `pass.after` with rows in the window, and the metrics of each at that
moment); `Upsert` is one `index_doc`; `Decay` the closing `delete_by_query`, with the
version check of Elasticsearch (`DecayConflict`); `PassFails` any request that
raises, applied or not; `UpsertRefused` a host Elasticsearch does not accept as `_id`.
`searchable` is the entity index as searches see it: it follows `entities` at a
`Refresh`. Assumed: the index refreshes between two passes (they are minutes
apart, a refresh takes a second), a pass takes less than a day, and no row is from
the future. `Feed` is `build_feed` over `searchable`.

### Intel

`job` is the refresh in progress: the source it is at, the local `changed`, the
downloaded records, the position of the load. An error status and an exception are
different outcomes (`CheckFails`, `LoadFails`), because the code treats the first as
"index not created yet". `restamped` is the set of documents that carry this
refresh's `fetched_at`. `bulk_index` ignores refused items (`Unindexable`). All
writes of the code use `refresh=true`, so searches see them. A feed whose
export is empty has no document to read its age from and is downloaded in every pass.

### Vt

`StartPass` builds resolver and client; `ReadCache` is the search for the files of the
next host; `Skip`, `Lookup`, `LookupFails` and `Store`/`StoreFails` are the loop over
the wanted files, in any order (the order of a terms aggregation changes with the
counts). `asked` and `unread` are history variables. A 401 disables the client of
this pass; `StartPass` builds a new one, so a 401 lasts for a pass and not, as the
log line of `lookup` says, for the process. Days pass only after a completed pass:
the loop makes hundreds of passes a day.

### Sensor

Reactor actions (`Connect`, `Command`, `Close`, `Emit`, and `NativeDownload` for
Cowrie's own downloaders) are atomic; each worker goes through `Get`, `Open`,
`Write`, `Rename` with other threads in between. A descriptor keeps referring to
its file when the file is renamed (`fd`). `Restart` forgets sessions, workers and
`_fetched` and keeps the files. An event that arrives after its session closed is
dropped (`Emit`), so a capture that comes too late is reported by no session. The
payload size limits are not modelled.

### Extract

`Command` and `FileEvent` are the events that matter to evidence, `Close` inlines the
bytes, whatever is on disk by then: the file, nothing, or a part of it (what `Sensor`
shows to be possible). `Handle` is `process` as a whole, a function of the session:
`ShellReferences`, `Served` with `ServedFile`, `FileCallbacks` are the producers, and
`nth` keeps rows of different file entries apart where the code has a list.
`HandleRaises` is its failure on any record. How the rows are written one by one is
the matter of `Delivery`.

### Pool

`guests` is the list and `guest[d]` a guest with the fields the code gives it; slots are
reused (a new guest gets any free one), ids start again at `IdLimit` and after a recycling, and `mixed` is set (for the
properties only) when a release hits another guest than the one handed out. A producer
pass is `Pass`, `MarkAvailable`, `EndPass`: on the worker thread (the first pass) others may step in
between, on the reactor not. `Grant`, `Deny` and `ServeFree` are the pool's handling of
`r`, `f` and `u`; `Connect`, `PoolConnected`, `ReceiveReply`, `Authenticate`, `FrontLost`
are the frontends. `Boots`, `LosesConnectivity` and `Expires` are the guests
themselves.

### Proxy

`front` and `back` are the two transports; `toHost` and `toProxy` are what is in
flight to and from the guest. For SSH, `FrontPacket` delays or parses (`Parse`, with the table of
channels) what the attacker sends, `BackSecure` and `AuthenticateBackend` flush it. For
Telnet, `TelnetLine` and `TelnetPrompt` are the handler's reading of both
streams. `SshdTakes`, `SshdSends` and `Telnetd` are a guest that keeps to the protocol.
`FrontGone` and `BackGone` are the two losses, `Timeout` the timer.

### SftpTap

Packets of both sides are streams of units, cut into chunks anywhere; `missing` is `packetSize`
of a side, and `tap` has the ID of this and the last packet, the handle, the command and
`theFile`. `UpwardChunk` and `DownwardChunk` pass a chunk through `parse_packet` and
on. Client and guest are external: the client may have two requests in flight, and `odd` names what he
did that the tap does not follow. Each of the six exceptions in `odd` is needed: without it
`UploadsAreReported` fails. Once a length is misread (`misframed`) nothing more is claimed.

### Login

`store` is `auth_random.json`, read and written in every check; `conn[c]` is a connection with its
state, its timer, the pending login, the options being negotiated and the failures that
wait for `PasswordDelay`. `Restart` loses the connections and keeps the file.

### Shell

`stack` is `cmdstack`, `obj[o]` the command or shell object, `timers` the delayed calls.
The code nests: `exit()` inside `start()` resumes the shell, which runs the next
pipeline before `start()` returns. `cont` is that call stack, one step makes its first call, and
the client and the timers act only when it is empty. A line is a name of `Menu`, which says what the lexer makes of it. `again` is set when an element is
started a second time.

### Llm

`link` is how the session came in, `channel` its end of the connection, `asking` the requests
in flight with the messages they carry, `dialogue` the command history. `Answered` takes any
request in flight with any outcome of HTTP, as the Deferreds of several lines do not wait for each other.
Connection loss takes the terminal and the timeout but no request.

### Transfers

`job` is one command line with the server behind it: kind, destination, declared and real length,
limits. `pc` follows start, resolution, connection, body and end; callbacks that raise add "raised"
to `odd`, which names what made this transfer unusual. `tftp` is the datagram
protocol with its port, block number, timer and retries. The rate limiter (`granted`, `evicted`) counts
requests of this and other sessions.

### Vfs, FsCommands, Sftp, FsCtl

The tree is a function from nodes to entries with an ordered contents list, because two entries
may have one name and `getfile` takes the last, `get_path` the first. Operations
are operators on the tree, and an action applies one; what is no longer reachable is
collected. `Sftp` adds handles, host files as inodes with names, and the second that
names the temporary file. `FsCtl` keeps the working directory and the pickle.
A behaviour is one of three programs (`mode`), each over the same operators.

### Emit, SqlOutput, AbuseIpdb, VtOutput

`Emit` has the sessions that log, the table by number of `Output.emit`, and MISP's
`tracking`. `SqlOutput` is a connection with its queries in flight, for the three
databases. `AbuseIpdb` has clock, log book, timers, reports in flight and the dump that survives a
restart; `VtOutput` lookups and uploads in flight, the URL cache and the collection.

## 3. Runs

| Run | Instance | Shows |
|---|---|---|
| `delivery` | 3 chunks of 1 or 2 records, one with a document that is always rejected, 2 connections, 2 attempts, 2 faults | safety of delivery, duplicates only after a fault, refinement of `AtLeastOnce`, clean chunks are delivered beside one that is retried for ever |
| `reason` | 3 hosts on 3 pages, the last refused as an `_id`, 4 days, retention 1 day, 2 rows, 1 failing request | entities come from the ledger, no row is missed, decay is exact, no entity goes back in time or is deleted after a new sighting; rows reach entities, expired entities go; what the feed lists is recent while passes fail |
| `resolvers` | 2 feeds, 5 IOCs (one refused, one more than the load takes), page of 2, 3 faults; 3 hosts sharing 3 files, budget 2, TTL 2, 3 faults | precise purge, no early download, memory catches up with the cache; budget, cached verdicts, no repeated question, every file gets its verdict |
| `sensor` | 2 sessions, 3 URLs (one guarded), one payload at two URLs and one at a single URL, 2 faults | one fetch per URL, whole files, a shared payload survives the shared temporary file |
| `extract` | 2 hosts, a script, a part of it and a binary, 2 file entries | edges have artifacts, one per host and file, no evidence is lost, bytes are removed |
| `pool` | 2 attackers, 2 guests, shared, ids that start again after 2, a recycling, a fault, 3 visits | clients and ports are counted, no used guest is available, no guest in use is reclaimed |
| `proxy` | 2 channels, 4 packets, 1 of the guest, 2 logins | order, login first, channels and logs, the honest answer to the pool, both ends end |
| `login` | 2 connections, 2 addresses, 3 combinations (one not UTF-8), 2 messages, a crash | counters, cache, sessions and events agree; nobody is left without a next step or a timeout |
| `shell` | 42 lines (pipelines, lists, substitutions, scripts, redirections, commands that wait), each as an exec request, 19 of them typed, 3 lines a session, nested twice; LLM sessions of 4 commands with 3 entries of context; SFTP with 5 requests, 2 in flight, 1 chunk that is not one packet | nothing runs twice, the terminal is always with somebody, logs are stored once; every line to the LLM is prompted, requests ask their command, silence ends; uploads through the proxy are reported once and whole |
| `transfers` | every kind of transfer, files up to 3 chunks, limit 1, block numbers modulo 3, 3 retries, 2 hosts | artifacts are prefixes, reports are true, transfers end, the limiter's window |
| `fs` | 8 nodes, links, duplicate names, 3 or 4 operations, 2 handles, 1 byte quota | the tree stays a tree, lookups agree, nothing else is lost; uploads are hashed and reported |
| `outputs` | 2 sessions of one number, 2 connections, 1 address over 5 ticks with 2 tolerances and 2 restarts, a file and a URL | events stay with their session, row ids, report intervals and silences, uploads |

The bounds are the smallest at which the cases meet: two handlers on one chunk
while the other waits; the last attempt and the one before it; a page boundary
with a host on each side; a row older, at and inside the window; a feed at, below
and past its TTL; a file seen at two hosts with the budget running out between
them; two workers in each other's way; a guest shared by two attackers and an id used
twice; a packet that waits while the next arrives; a counter at `MinTry` and at
`MaxTry`; a pipeline that another replaced; a chunk below, at and above the limit; two
entries of one name and a link to one of them; two answers in flight. Faults are counted because a run in which
everything fails for ever shows nothing about recovery;
every kind of fault may happen at every point where the code can meet it.

### Where the code departs from the ideal

Some properties hold with an exception; the exception is in the formula and in the comment
over it, and is what the code does. The ones a maintainer should know:

* Delivery: a record whose stripped session is rejected too keeps its chunk in the buffer for
  ever (`ingest/server.py:60` means to prevent this); resends write ledger rows twice
  (`DuplicatesNeedAFault`); refused items of a bulk request are ignored.
* Reason and Intel: a host Elasticsearch refuses as an `_id` keeps every pass over it from reaching the
  decay; after a failed request a refresh may return with memory behind the cache until the next change;
  an empty export is downloaded in every pass; a 401 disables VirusTotal for one pass, not for the process.
* Sensor: two workers with one payload leave a cut file under its hash for a moment
  (`urlfetcher.py:377`); a URL whose fetch failed is not tried again by the process.
* Pool: an address may be given a guest that another attacker used (`reuse_vm` keeps
  `client_ips`), a release after a recycling hits the guest that has the id now, a frontend lost before
  the pool answers leaks its guest, and with SSH only `has_connectivity` is always true.
* Proxy: an attacker who logs in and leaves while the backend is dialled has his packets sent to
  a guest that was given back as clean (`CleanIsClean`). On SFTP channels (`odd` in `SftpTap`) an upload with "get" in
  its name is never stored (`sftp.py:192`), nor is one whose OPEN had other requests around it, that shared
  its time with another file or command, or was not written front to back; a chunk that holds two whole
  packets makes the length negative and the channel unreadable (`sftp.py:88`); a name that is not UTF-8 ends the connection.
* Login: AuthRandom refuses a returning address its own stored combination (bytes against
  text, `auth.py:274`); a success is logged although a name that is not UTF-8 is refused.
* Shell: of `a | b; c` b is never run; an exec of only a redirection or an assignment hangs until its
  timeout; an asynchronous command in `sh -c` or `$()` is taken off the stack instead of its shell.
* LLM: `docs/LLM.rst:103` speaks of the last 10 commands, but the last 10 entries, commands and answers, are sent; no
  input puts off the interactive timeout; EOF of an exec client ends the session before the answer; a command typed ahead
  separates an answer from its command in the history.
* Transfers: CTRL-C may report a download both as done and as failed; a file one chunk over the limit is
  reported as whole; TFTP downloads are never hashed; a datagram out of order leaves a TFTP
  transfer without a timeout.
* File system: `mv` never replaces, so names may be double; a directory moved below itself is lost; a `mv`
  through a link puts an entry in two places; two handles on one path in one second share a host file.
* Outputs: a session open at `stop()` may get two MISP events; a row id may be that of another table's
  row (`LAST_INSERT_ID` is a query of its own); overlapping refusals of AbuseIPDB end each other's sleep;
  a lookup of VirusTotal that failed is not repeated.

### Fairness

* `Delivery`: weak fairness of each handler's steps, of Fluentd's steps per chunk
  (`retry_forever`) and of the bootstrap (the container restarts). Faults have no
  fairness.
* `Reason`: weak fairness of the pass (the loop of `run()` catches every exception)
  and of the index refresh (Elasticsearch refreshes by itself). Time and new rows
  have none.
* `Intel`: weak fairness of starting a refresh and of its steps (every request has a
  timeout); strong fairness of the passing of an hour, which is only enabled
  between two refreshes.
* `Vt`: weak fairness of starting a pass and of its steps; none of the days.
* `Proxy`: weak fairness of the outcome of a dial (Twisted's connect has a timeout), of the loss that follows
  `loseConnection`, and of the frontend's timeout. The attacker and the guest have none.

The others are checked for safety only, though several of their properties say that whoever waits has
a timer or a next step. `CHECK_DEADLOCK FALSE` is used where the system may
stop: when all sessions are over and the bounded inputs are used up. The sensor's
sessions and the pool's guest slots are interchangeable (symmetry is sound there, as only safety is checked).

## 4. Proofs

TLAPS checks these for all values of the constants that satisfy the `ASSUME` of the module: any
number of chunks, connections, hosts, feeds, files, sessions, workers and guests, any bounds, any
number of faults. Each proof module states the inductive invariant of its component first (`IInv`
where the run's invariant is not inductive by itself), then one lemma per action, then the theorems.
"The least element" below replaces induction over data: where a definition takes a first, last, newest
or best item, the proof takes the least number that satisfies it, which `WellFoundedInduction` gives.

| Theorem | Property | Rests on |
|---|---|---|
| `DeliveryInvariant`, `AckedChunksAreWritten` | `DeliveryInv` | `HandlerProgress` |
| `ImplementsAtLeastOnce` | `AtLeastOnceSpec` | `DeliveryInvariant` |
| `WritesAreMapped` | `MappedBeforeFirstWrite` | `BootInv` |
| `NoDuplicateWithoutFault` | `DuplicatesNeedAFault` | `OnceInv` |
| `ReasonCorrect`, `FeedFresh`, `EntitiesAdvance` | `ReasonInv`, `FeedIsFresh`, `EntitiesNeverRegress` | `IInv` of `ReasonProofs` |
| `VtInvariant`, `PassesStayWithinBudget`, `UsedVerdictsAreCached`, `NoFreshVerdictIsAskedAgain` | `VtInv`, `FreshVerdictsNotAskedAgain` | `VtInv` |
| `FeedCacheKept` | `FeedCacheIsKept` | `IntelInv` |
| `SensorCorrect` | `SensorInv` | `IInv` of `SensorProofs` |
| `ExtractCorrect`, `EvidenceKept` | `ExtractInv`, `EvidenceIsComplete` | `FilesInv`, `WrittenInv` |
| `PoolCorrect`, `AvailableUntouched`, `InUseKept` | `PoolInv`, `AvailableIsPristine`, `InUseNotReclaimed` | `IInv` of `PoolProofs` |
| `TransfersAreSound`, `TransfersReport` | `TransfersInv`, `TransfersEnd` | `TransferIInv`, `RateIInv` |
| `RelayIsCorrect`, `CleanGuests` | `ProxyInv`, `CleanIsClean` | `ProxyIInv` |
| `LlmCorrect` | `LlmInv` | `Counted`, `DialogueIsCurrent` |
| `BooksOfTheLogin`, `NobodyIsStranded`, `SuccessIsEarned` | `LoginInv`, `NobodyStranded`, `FirstSuccessIsEarned` | `LoginIInv` |
| `VtOutCorrect`, `UrlsRest` | `VtOutInv`, `AnsweredUrlsRest` | `FileInv`, `UrlInv`, `CollectInv` |
| `EmitCorrect` | `EmitInv` | `EmitIInv` |
| `AbuseCorrect` | `AbuseInv` | `AbuseIInv` |
| `TablesAgree` | `SqlInv` | `SqlIInv` |

**PipelineProofs.** `AckedImpliesWritten` is not inductive: the step that drops a
chunk from the buffer looks only at the handler's `pc`. The invariant
`DeliveryInv == TypeOK /\ HandlerProgress /\ AckedImpliesWritten` adds what each
handler has stored: everything before its current document and, when it has acked,
everything. Nothing is ever removed from `stored`, so handlers cannot disturb each
other, and a handler step needs its own progress only. From `DeliveryInvariant`
follow `AckedChunksAreWritten` and `ImplementsAtLeastOnce`: every step maps to a
`Store`, a `Release` or a stutter of `AtLeastOnce`, and `HandlerProgress` gives the
guards of `Store` and `Release`. `WritesAreMapped` rests on an invariant of its own
(`BootInv`): a handler works only after the bootstrap of this process is complete,
the first `boot` templates are installed, and templates are never removed.
`NoDuplicateWithoutFault` follows from `OnceInv`: until the first fault a chunk nothing of which is
refused has at most one handler, the one whose ack Fluentd waits for, and that handler has not yet
reached what is not stored (`WrittenOnce`).
For `Extract` the rows are a function of the session, so the invariant is short (`WrittenInv`) and the
work is in the lemmas about the producers: the removal of duplicates keeps, for each host and file, the first
callback, and a failed download, which has no hash, gives no row.

**ReasonProofs.** An entity is overwritten by a bucket that was computed when its page was
read, so the invariant speaks of three copies, the index, what searches see of it and the page:
each is `Sound` (its sightings are ledger rows of its host), and a bucket in the page is not older than
the entity it replaces, because rows only arrive and a pass computes each host once. `Progress` follows each
row the pass began with: rolled up, in the page, or of a host after `pass.after`. `UnseenIsFresh` says
that what this pass wrote and no search sees yet is inside the window, which is what
makes the closing decay exact although it searches an old index.

**ResolverProofs.** For VirusTotal the budget is inductive with `AskedAreResolved` (a file that was asked
about has an entry in `_mem` or is the one in hand; a file still wanted has none),
so every lookup adds a new file and `budget = MaxPerRun - Cardinality(asked)`.
`WantedAreStale` (what is still wanted had no fresh verdict when the cache was read,
or the read failed) gives `FreshVerdictsNotAskedAgain`. `VerdictsAreCached` holds
because the PUT comes before the entry in `_mem`. For the feeds, when the purge comes all of the download that Elasticsearch could index carries this
refresh's stamp (`StampsAreWhole`), so `PriorGeneration` has only what the download does not list; refused
documents are never in the cache.

**SensorProofs.** What is on disk is related to what each worker still has to do: an opened payload is under
one of its two names, a file cut short has a writer (as long as nothing failed), and the only worker a payload can have writes to
`<sha>.tmp` and renames it when it is whole. With several workers for one payload the last of these is false,
which is why `ExclusiveDownloadsAreWhole` is limited to payloads that one URL serves.
For one transfer, `TransferIInv` ties the content received to the kind of transfer and its stage (`ContentIsDue`: how much of it
and in which order), says who waits where and that nothing is reported before the end (`StageIsRight`), and
for TFTP that the block number is the number of chunks held and that no block
is ahead of its acknowledgement while the port is open (`TftpInStep`). For the rate limiter, `RateIInv` says of each host that its stamps are in
order and that, for every moment of the window, there are as many stamps since then as requests granted since
then (`Counts`). A request is granted only if fewer than `MaxRequests` stamps are left, so the bound holds for every window, not for the
current one only; a host that was evicted has no claim until the run ends.

**PoolProofs.** `ConnectedIsHolders` (a guest counts the sessions that have it) is inductive with what a
session may be doing while it holds one (`SessionOK`), with `HeldIsUsed`, and with the way a guest goes back to its earlier
state (`GuestOK`). `Pristine` carries `AvailableIsPristine` through the release of a guest nobody logged in to: a guest
that may become available again has one client, and if somebody logged in it was that client and he will not say otherwise. `BindingsInv`
adds up the connections of all guests with one id, since ids are used again. All but types, guests and sessions
is claimed until a release hits another guest than its own (`mixed`).

**SessionProofs.** Prompts, answers and requests in flight add up to the commands (`Counted`); the history ends with
the command in flight for a user who waits for the prompt (`DialogueIsCurrent`), so that the
last entries of it, which are what is sent, end with the command of the request.
For `Login` every connection is a record and its invariant speaks of that record alone: which step of which protocol
it may be in (`Placed`), who counts it as a session (`SessionCounted`), that whoever waits has a timer or a
pending login (`Waits`), and that the options under negotiation and the delayed failures are no more than the attempts made
(`Queues`). `NobodyStranded` follows from `Waits`. The store of AuthRandom has an invariant per address (`AddressInv`: the
combinations tried are as many as the attempts counted); `FirstSuccessIsEarned` compares the store
before and after a check (`Earned`), across a restart that loses the connections and keeps the file.

**ProxyProofs.** A connection is SSH or Telnet, and `ProxyIInv` is the invariant of its kind.
For SSH, that the parser finds every channel says something of four parties: its own list, the guest's sshd, what is on
its way each way, and what the attacker was told. `Conf` relates the first three. For each kind of packet on its
way, and for each state of a channel of the guest, it says what the parser knows of that channel and what else may be on its
way for it: a confirmation comes once and before all else, a close last, a number of the guest is named by two
channels only while the close of the old one is ahead of the confirmation of the new. Each thing that may happen to these
queues is one lemma (a packet taken or added, a channel opened, refused, confirmed or closed by either
side), and the queues are functions on sets of numbers, so that taking one packet out leaves the rest
where they are; `DownRenumbered` and `UpRenumbered` say that only their order counts. `Agrees` relates the
attacker to the list, and `DelayedOpens` says why the packets he sent too early are harmless: having had no answer,
he can only have opened channels. `ParseAll` is a recursive function of the number of packets; what parsing any
number of them preserves is shown for the least number that does not (`GuestPacketsParsed`, `OpensParsed`). Once the parser
has raised or the guest's connection has ended nothing is claimed of channels, only of order, types and logs.
For Telnet the login is a token that is in one place at a time (`Phase`): a prompt on its way, the proxy
waiting for its line, or the line on its way; typing ahead (`ahead`) breaks that and the claim with it. `CleanIsClean` rests on
`SshControl` and `TelControl`: a guest has packets only of a connected proxy, and a
password only of an accepted one.

**OutputsProofs.** For VirusTotal each request in flight is paid for by a download (`FileInv`, `UrlInv`), which bounds
uploads and shows that a new file always has its lookup or its upload on the way. For `Emit` the table of sessions by
number is related to the transports, and what MISP tracks to what the plugin saw; the events counted are those
of an open session and the results that came when it had closed (`late`, a history variable). For AbuseIPDB the
times of a deque are an increasing selection of the attempts of its address (`EarnedBy`), in the log book, in the file
and in every dump between them, so that a report has its attempts (`ReportHasAttempts`). `BookIsKept` says what
`NoEarlyRereport` and `SleepIsKept` rest on: the log book, or while the plugin sleeps or is down the last dump it made,
has each report marked or tells of an awakening after which the address may be reported again; it is claimed until
something is lost or two refusals overlap. `AwakeIsHeld` is what makes the first refusal of an awake plugin, and a
stop, write that dump: `cancel()` finds a clean-up to cancel.
For `SqlOutput` a session has at most one query or answer under way per table (`OneAtATime`); a step takes one of
them and leaves the others alone. `Caused` and `Unfailed` say what must have happened before each, `Storing`
which event is still to become a row, `Balanced` that logins logged are rows, queries or
errors, `Bounded` how many rows of a sensor or client there can be (one per session that looked before the first
insert arrived), and `Ended` that the end of a session is behind its row in the queue.

Only model-checked: the liveness properties (the prover has no rules for
fairness); `Vfs` and the modules on it, which walk the tree with recursive functions and folds (what those folds (what those compute
for every tree needs induction over trees, which the prover cannot do: its theorems of induction take an operator, and
the least element serves for numbers only); and `SftpTap` and `Shell`, whose invariants rest on
what the selection of a sequence or a call stack yields.

## 5. Not modelled

* Of the engine: the decoding of the forward protocol, geo, family and session enrichment (apart
  from the removal of inlined bytes), the text analyzers, the pydantic models, the mappings, HTTP
  rendering of the feed, the command line, the dashboards. They keep no state; where a model needs one
  of them it uses what it returns (the rows a session yields, whether enrichment raises, the records of a frame).
* Of Cowrie: the commands that only print, the lexer and variable expansion, listings and the meaning of permissions,
  the output plugins that turn one event into one request or line, the decoding of exec and port-forward payloads
  in the proxy, port forwarding (a byte pipe with a log), line editing, Telnet options and prompt wording of the LLM backend, the scripts other than `fsctl`, and
  the wire format between pool and clients. libvirt, sshd, telnetd, HTTP, FTP, databases and Twisted are external: they are modelled
  as far as the code uses them.
* Link loops end in a `RecursionError` in the code and are left out of `MCFs`.

## 6. Plan

Every module named in section 2 is written, every run passes and the theorems of section 4 are proved. What would
come next:

1. `Shell`: the call stack `cont` as a function of the pipeline, so that `NobodyWaits` can be followed through one call.
2. `SftpTap`: the framing of one direction by itself (`missing` against the units of a packet).
