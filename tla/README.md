# TLA+ model of apt-cacher-ng

This directory holds TLC-checkable models of apt-cacher-ng (sources in
`src/src/`). The core model covers how a file that several clients request
at the same time is served: the cache item, the item registry, the client
job and the download agent. It checks them against the promises in
`spec.md`: one writer per file, intact cached files, whole responses, and
progress. Four further components are modelled on their own: the DNS
resolver and its cache, the worker thread pool, the pool of idle upstream
connections with the cleaner thread that expires them, and one downloader
pipelining several jobs over its connections, whose response heads are
read by the HTTP head parser, modelled as a function.

## The system's parts and how they interact

* **File item** (`fileitem.cc`, `fileitem.h`) holds the download state of
  one cache key K. That state is the status FRESH … DLSTOP, the checked
  size `m_nSizeChecked`, the Content-Length, the destroy mode and the
  reference counts. The item reads and writes `K` and `K.head` on disk.
* **Registry** (`acregistry.cc`) maps K to the live item. `Create` shares
  the registered item, or moves a stuck volatile item out of the way
  (`abandon_replace`). The holder destructor sets an unfinished item to
  DLSTOP and unregisters it.
* **Client job** (`job.cc`) handles a GET:
  1. `Prepare` creates or shares the item, calls `Setup` and enqueues a
     download when the item has no head yet.
  2. `SendData` waits for data (`AwaitSendableState`, with the network
     timeout) and sends the body with `sendfile`, plain or chunked.
* **Download agent** (`dlcon.cc`) is the `CDlConn::WorkLoop` of the
  client's downloader. It moves its `tDlJob` through the queues, connects
  (or blacklists the mirror), sends the request and parses the reply head in
  `CheckAndSaveHeader`. It then feeds body bytes through
  `DlStarted`/`DlAddData` and ends with `DlFinish` or an error.
* **Upstream connections** (`tcpconnect.cc`) live in a pool of idle
  connections, and each connection remembers the last file it served
  (`KnowLastFile`). An unparsable head calls `KillLastFile`.

* **Download pipeline** (`dlcon.cc`). A downloader (`CDlConn`) serves
  every job other threads hand it with `AddJob`. `WorkLoop` moves jobs from
  `m_new_jobs` to `next_jobs`, connects to the front job's host (through
  `SetupJobConfig`, which picks a backend not blacklisted), and writes up
  to `pipelinelen`+1 requests. The jobs then wait in `active_jobs`.
  `ExchangeData` reads all responses into one buffer `m_inBuf`, which the
  front job parses (`ProcessIncomming`). A redirect retargets the job, and
  the other active jobs are offered the same buffer. `WorkLoop` then
  handles the result flags: it recycles the connection, resets it, counts
  lost connections, blacklists mirrors, drops broken jobs, and moves the
  rest back to the front of `next_jobs`.
* **HTTP head parser** (`header.cc`). `header::Load` splits the bytes on
  CRLF, parses the status or request line and stores the known fields. It
  returns 0 when the head is not complete yet (the downloader asks for more
  bytes), a negative code for garbage, or the head's length.
* **DNS resolver** (`caddrinfo.cc`) runs on the IO thread. `Resolve`
  posts `cb_invoke_dns_res`, which answers from `dns_cache`, joins a running
  lookup of the same host:port key, or starts one. A lookup is an SRV query
  followed by one `ares_getaddrinfo` task per target. The context's
  destructor merges the tasks, sorts the addresses, caches the result
  (`clean_dns_cache` makes room first) and calls all reporters. At shutdown
  `RejectPendingDnsRequests` answers the waiting reporters early.
* **Thread pool** (`tpool.cc`) runs one client connection per work item.
  `conserver::do_accept` hands each accepted socket to `schedule()`.
  `ThreadAction` takes work, runs it outside the lock and stays as a spare
  thread or leaves. `stop()` waits until the counters reach zero.
* **Idle connection pool and cleaner** (`tcpconnect.cc`, `cleaner.cc`).
  `CreateConnected` reuses a pooled connection of the key or opens one, and
  `RecycleIdleConnection` pools it and calls `cleaner::ScheduleFor`. The
  cleaner thread's `WorkLoop` snapshots its schedule, runs
  `BackgroundCleanup` (expiry, then `select()` for connections closed by the
  peer), merges the next run time back and sleeps.

## Modules

| module | part | contents |
|---|---|---|
| `FileItem.tla` | file item, head storage | the item record and every state-changing method as an operator: `Setup`, `DlStarted`, `SafeOpenOutFile`, `ReplaceFile`, `DlAddData`, `DlFinish`, `DlSetError`, `MarkFaulty`, `DlRefCountAdd`/`Dec`, `Destroy` |
| `CacheCore.tla` | registry, client job, download agent, connection pool | variables `reg`, `life`, `items`, `fs`, `remote`, `cj`, `dj`, `con`, `tol`, `black`, `lastFile`, `pool`. Each handler is one action, and it calls the FileItem operators the code calls |
| `MCCacheCore.tla` | — | the model values, version sizes, start-up disks and symmetry |
| `DnsService.tla` | resolver interface | the abstract service: a request is answered once, with the result of a lookup of its target that ends then, an earlier such result (cache), or a local error |
| `Dns.tla` | DNS resolver | `Resolve`, `HandleResolve` (cb_invoke_dns_res), `SrvQueryDone` (cb_srv_query), `AddrInfoDone` (cb_addrinfo), `Commit` (the context destructor with `CleanDnsCache`), `Shutdown` (RejectPendingDnsRequests); the refinement mapping to `DnsService` |
| `MCDns.tla` | — | two callers, one host with two ports, the c-ares statuses |
| `DnsSort.tla` | address ordering | `Dedup`, `SplitFamilies` and `Alternate` follow the destructor's three loops (RECURSIVE); `Reference` states the intended list by positions; `SortCorrect` compares them over every input. `MCDns` instantiates it |
| `Pipeline.tla`, `MCPipeline.tla` | download pipeline | variables `newJobs`, `next`, `active` (the three queues), `job` (backend, redirect budget, parser state), `con`, `cn` (the connections and what the mirror has in flight on them), `sendBuf`, `inBuf`, `stopReq`, `expClose`, `tol`, `tmpDis`, `black`. Steps: `AddJob`, `Top` (the outer loop to `go_select`, with `FilterNext`, `Reconnect` and `Cook`), `XWake`, `XTimeout`, `XWrite`, `XRead` (ExchangeData); `ProcessIncomming`, `Proc`, `Follow` and `Post` are the parser, the proc_data loop, the HINT_TGTCHANGE loop and WorkLoop's result handling. The mirrors: `SrvAnswer`, `SrvBody`, `SrvBreak` |
| `Header.tla` | HTTP head parser | `Load` is `header::Load` with no map for unknown fields, as a function of the bytes: the IFCUT prefixes, `Pieces`/`SplitRN` (`tSplitByStrStrict` on CRLF), `RemoteStatus` (`tRemoteStatus`), `RequestLineOk`, and `Scan`, the field loop with continuation lines, the "EOF or garbage?" returns (`EofOr`) and `ResolvePos`. A byte string is a sequence of symbols: CR, LF, SP, ":", the method and version prefixes with their widths, and words that stand for runs of visible bytes. `Crash` is the strappend on a deleted field. Pipeline instantiates it |
| `Redirect.tla` | redirect targets | a job's URL state (`Job`: backend mode, backend index, `m_remoteUri`, redirect budget), `SetHttpUrl` (`tHttpUrl::SetHttpUrl` on a Location), `RewriteSource` with its `UseUrl` branch, and `RequestUrl`, the host and path `AppendRequest` writes. Strings are sequences over "/", "a" (alphanumeric), "-", "_" and an "http://" symbol. `Resolve` is the RFC 3986 reference resolution. Pipeline instantiates it |
| `TPool.tla`, `MCTPool.tla` | thread pool, accept path | `Schedule`, `ThreadStart`, `ThreadWake`, `ThreadDone` (with the shared `LoopBody`), `BeginShutdown`, `Stop`, `StopWake` |
| `ConnPool.tla`, `MCConnPool.tla` | idle pool, cleaner | `CreateConnected`, `RecycleIdleConnection` (with `ScheduleFor`), `DropConnection`, `PeerClose`, and the cleaner steps `CleanerTop`, `CleanerRun`, `CleanerMerge`, `CleanerWake` |

**Data abstraction.**
* A body byte is the number of the remote version it came from, and 0 is a
  hole. A date is a version number.
* A file is an inode holding a sequence of such bytes. `fs.dir` maps paths
  to inodes and `fs.head` maps paths to head records (`none`, `bad`, or
  length and date).
* Replacing a file allocates a new inode, so a reader that opened the old
  one keeps reading it, as an open descriptor does.

**Actions.**
* Client steps: `ClientCreate`, `ClientSetup`, `ClientStart`,
  `ClientSendData`, `ClientChunkHeader`, `ClientChunkData` and
  `ClientWaitTimeout`.
* Agent steps: `AgentSplice`, `AgentDropJob`, `AgentConnect`,
  `AgentRequest`, `AgentHeader`, `AgentData`, `AgentFinish`,
  `AgentTimeout` and `AgentStop`.
* Failures (environment choices): `ClientAbort`, `AgentConnectFail`,
  `AgentLostConnection` and `AgentGarbage`.
* Upstream: `RemoteChange` publishes a new version, and `Tick` advances
  time past the download-stuck limit.

Each action models a whole code path, including its trailing calls: the
holder release, `DlRefCountDec` and the destructor's truncation or deletion.
`PROJECT.json` ("map") names the lines of each definition.

## Runs

Pass runs (all use two clients and two versions; K's version 1 is two
bytes long and version 2 is one byte):

| run | cfg | what it shows |
|---|---|---|
| solid | `MCSolid.cfg` | The solid file starts absent, partial, complete or without a length. Upstream may also answer chunked or with an unparsable head, which brings in blacklisting and `KillLastFile`. Resumes, lost connections, timeouts and aborts all happen. `SingleProducer`, `CachedFileIntact` and `ClientGotWhole` hold. |
| volatile | `MCVolatile.cfg` | An index file changes upstream and its download gets stuck, so `abandon_replace` and DLSTOP occur. `CachedFileIntact` holds. |
| liveness | `MCSolidLive.cfg` | `AllServed`: every client is answered and every download job ends. |

Together the pass runs fire every action. A mutant of the mapped code
breaks each property (PROJECT.json "mutants"). Examples are the
unreferenced download job, a shifted write offset, ending a response before
the item is complete, a missing BUSY check, and a lost connection that does
not count against the tolerance.

Pass runs of the other components:

| run | cfg | what it shows |
|---|---|---|
| dns | `MCDns.cfg` | Every reporter is called exactly once (`AnsweredOnce`); `dns_cache` and `dns_exp_q` name the same keys, each once (`CacheIndexConsistent`); the resolver implements `DnsService` (`ServiceSafe`, through a refinement mapping) and, under the IO thread's fairness, answers every request (`ServiceLive`, `DnsService!Responsive`). The run also checks `SortCorrect`, a constant formula TLC evaluates once: for all 17,874 inputs (up to two tasks of two nodes from four TCP addresses and one non-TCP node, every `conprotos` pair, MAX_ADDR 3) the code's loops give the reference list. |
| tpool | `MCTPool.cfg` | `CountersMatch`: `m_nCurSpare` and `m_nCurActive` count the threads that are started or waiting and those running work. `QueuedWorkHasThread`: until shutdown, the queue is never longer than the number of spare threads. `AcceptedRuns`: an accepted connection runs unless the pool stops first. `StopReturns`: `stop()` returns. |
| pipeline | `MCPipeline.cfg` | Two jobs of one repository with backends h1, h2 share a downloader. Mirrors answer, refuse an item another downloader fetches (busy), announce `Connection: close`, break a connection once, or stay silent. `OwnResponse`: every job parses only bytes of its own response, across pipelining, reconnects and moves back. `AllJobsEnd`: every handed-over job ends (done, failed or dropped). `HeadsParsed`: every head a mirror sends is, in each of its wire forms (field order, a space after the colon or none, `Connection` or `Proxy-Connection`, an unknown or folded extra field), read by `header::Load` as "incomplete" on every proper prefix and, once complete, as the status, close flag, Location and Content-Length its token carries. This is what makes one token per head a sound abstraction of TCP segmentation. `RedirectsResolve`: for the budget each job has left, two chained redirects to absolute URLs (and absolute paths outside backend mode) go to the RFC 3986 target, and the redirect that exhausts the budget is refused. |
| connpool | `MCConnPool.cfg` | `OneOwner`: a connection is either in the pool once or held by one agent. `IdleExpires`: a pooled connection is closed once it has been idle for the expiry time, also when `ScheduleFor` ran during a cleanup. |

Violation runs (the findings):

| run | property | what the code does |
|---|---|---|
| truncated_resume | `CachedFileIntact` | A 404 answer to a resume leaves `m_nUsedRangeStartPos` set (`dlcon.cc:856`), so the partial body is saved as complete. |
| stopped_writer | `ClientGotWhole` | `DlAddData` opens the file before its status check, and `SafeOpenOutFile` sets DLRECEIVING (`fileitem.cc:275`, `:391`). A DLSTOP item is revived and overwrites K under the item that replaced it. |
| stale_tail | `CachedFileIntact` | A longer new version is written over the old file in place (`fileitem.cc:364` handles only shrinking). After an interrupted download, a resume completes a body mixed from the old and new versions. |
| redir_cross | `OwnResponse` | A redirect's head is never dropped from `m_inBuf` (`dlcon.cc:551` drops Content-Length bytes instead). With two jobs pipelined, the first gets a 302 with Content-Length 0. The HINT_TGTCHANGE loop (`dlcon.cc:1371`) hands the same buffer to the second job, which takes the first job's Location as its own redirect. |
| tpool_bound | `ThreadBound` | `m_nCurActive + m_nCurActive >= m_nMaxCount` ignores spare threads, so the pool exceeds its maximum (`tpool.cc:58`). |

Further disagreements met while modelling. Each is listed in PROJECT.json
as a hazard at the line where it bites, with the property that states it.
Stating that property over the model and checking it gives the scenario
below; it is not kept as a run.

| where | property | scenario |
|---|---|---|
| `job.cc:709` | at most one upstream request per item (`CacheCore`) | Two clients share a pending item; both `Prepare` calls see a status below DLGOTHEAD and both downloaders send a request. The spec (8.3.4, 8.4) says there is one. |
| `fileitem.cc:416`, `:577` | a body marked faulty is not kept | `AgentGarbage` marks the last file faulty; `DlSetError` keeps KEEP because TRUNCATE is not lower, so the destructor keeps the body. |
| `caddrinfo.cc:430` | a cache answer is before its `m_expTime` | A result is cached, time passes its expiry, and the next `Resolve` of the key is answered from `dns_cache` with no new insertion in between. |
| `caddrinfo.cc:179` | only expired entries are evicted | Two results are cached at time 0; storing a third one at time 1 pops the unexpired front entry. |
| `caddrinfo.cc:216`, `:375` | no cached error has status SUCCESS | The SRV query is cancelled; the context dies with no tasks and the destructor's default branch caches an error. |
| `conserver.cc:72` | no refused connection stays open | The pool is full; `schedule()` returns false and the work item with the released fd is dropped. |
| `tcpconnect.cc:262` | a cleanup leaves no peer-closed connection pooled | Two pooled connections, the second closed by the peer; `select()` returns 1 and the loop stops after the first entry. |
| `dlcon.cc:536` | a mirror is blacklisted only after failures it did not announce (`Pipeline`) | A mirror answers with `Connection: close` and closes after each response while a second request is pipelined. `ret` with HINT_RECONNECT_SOON is dropped on the data path, so each close counts against `nLostConTolerance`, and after MAX_RETRY closes the healthy mirror is blacklisted. |
| `dlcon.cc:1703` | a connection is pooled only when idle (no run: it fails with redirects, which the pipeline run leaves out) | A redirect fails at the redirect limit, so the job is broken without a reconnect while its redirect body is still owed. A wake-up or timeout with no job left recycles the connection. The next user of the pooled connection reads that body as its response head and blacklists the mirror. |
| `dlcon.cc:1597` | at most `pipelinelen` requests outstanding (spec 4.5: "under pipeline_len") | The loop condition `<=` admits one more. `Pipeline` keeps `<=`, and the pipeline run's properties hold with it. |
| `header.cc:181` | `Load` never crashes (`Header`) | A mirror sends `Content-Type:` with an empty value and folds a second line under it. `del()` left the field nullptr, and `strappend` runs `strlen` on it. `Load` of this head is `Crash`. |
| `httpdate.cc:244` | a complete head gives a length (`Header`) | The status line `HTTP/1.1 200 ` has an empty reason phrase, which RFC 7230 allows. `tRemoteStatus` fails, so `Load` returns 0 however many bytes follow, and the downloader waits for more until it times out. |
| `ahttpurl.cc:35`, `dlcon.cc:207` | a redirect goes to the RFC 3986 target of its Location (`Redirect`) | A mirror answers `Location: pool/x.deb`. `SetHttpUrl` accepts it as host `pool` and path `/x.deb`, so the job's next request goes to the host `pool`. The relative branch of `RewriteSource` runs only for strings that `SetHttpUrl` refuses, such as `_a`. |
| `dlcon.cc:232`, `:237` | the same, in backend mode (`Redirect`) | A backend job on base `/a/` is redirected to `/a`. `m_remoteUri` becomes the backend with path `/a`, but `m_pCurBackend` stays set. `AppendRequest` therefore writes `/a//a`. |
| `tcpconnect.cc:123` | a checkout never hands out a peer-closed connection | The peer closes an idle pooled connection; `CreateConnected` takes it without the probe read of spec 4.4. |

## Bounds

**Why two clients and two versions are enough.**
* Two clients give every sharing case: one downloads and one reads, one
  replaces the other's item, and two downloaders race for the same head.
* Two versions of sizes 2 and 1 give a changed remote file, a file that
  shrinks, resumes from offset 1, and bodies mixed from two versions.
* `MCStaleTail.cfg` uses growing sizes (2, 3) to reach the in-place
  overwrite.

**Other bounds.**
* `MaxRetry` (`dlretriesmax`) is 1 in the CacheCore runs, which keeps
  them within minutes. A lost connection is then not retried, and the
  mirror is blacklisted at once. Pipeline uses 2, so a first lost
  connection is retried.
* Each client sends one GET. Symmetry over the clients is sound because
  the clients are interchangeable model values. The liveness run does not
  use symmetry.
* Deadlock checking is off because the system really stops: after the
  finite workload, every job is closed.

**Bounds of the other components.**
* DNS: two callers with one request each, one host on two ports (so the
  key must include the port), one SRV target, all five c-ares statuses,
  time 0..2 with a cache time of 2 and an error keep time of 1. This
  reaches a cache hit, a joined lookup, expiry and eviction.
* Thread pool: four threads and four connections, at most four threads and
  one spare (`maxCount` 300 and `maxSpare` 30 in the code). That is enough
  for a thread to stay spare or leave, for the pool to be full, and for
  thread creation to fail (all thread ids used). The bound violation uses
  a maximum of 2.
* Connection pool: two agents, two connections, one key and a capacity of
  1 (50 in the code), so the pool is full while a second connection is
  returned and closed instead. The expiry time is 2 against 33 s, and the
  time bound is 4, which is enough for an entry to expire while a cleanup
  runs.
* Pipeline: two jobs, two hosts that are both the jobs' backends, three
  connection slots (a pooled, an open and a fresh one can coexist; a closed
  slot can be opened again), `pipelinelen` 1 (so two requests are in
  flight), `dlretriesmax` 2, `redirmax` 2 (one redirect succeeds and the
  second fails), a pipeline-disable count of 1 for the 30 of the code, and
  one connection the network may break. Responses are tokens: a head,
  a body, and junk for the rest of a head. The pass run leaves redirects
  out, because they break `OwnResponse`, and the violation run adds them.
  `HeadsParsed` enumerates 24 wire forms per head shape. They cover every
  cut of a head that `Load` handles by a branch of its own: within the
  status line, after a field name, at a fold, and between the two CRLFs.
  `RedirectsResolve` enumerates 16 start jobs: URL jobs on two hosts with
  four absolute paths, and backend jobs on two backends with four rest
  paths. It also enumerates 16 Locations: URLs, absolute paths including
  "/" and "/-/", and relative references. Every pair of these Locations is
  tried in a chain. Strings of up to four characters reach every branch of
  `SetHttpUrl`: scheme or not, no path, a run of slashes, and a refused
  `_` host.
* These runs check liveness properties too, so they use no symmetry.

## Fairness

`Fairness` is weak fairness on each client job's steps and on each
downloader's steps. Both run on their own threads: the thread pool for the
job and the `WorkLoop` thread for the downloader. Once enabled, a step keeps
being taken. The failures and upstream changes have no fairness, because
they are the environment's choice.

In the other modules:
* **Dns:** the IO thread's callbacks (`HandleResolve`, `SrvQueryDone`,
  `AddrInfoDone`) are weakly fair. c-ares always calls back, with an error
  or a timeout if nothing else.
* **TPool:** each pool thread's steps and `stop()`'s wake-up are weakly
  fair. `ThreadDone` is fair because a client connection's job ends by
  itself (network timeouts).
* **ConnPool:** the cleaner's steps and the passing of time are weakly
  fair. Agents and the far side are not fair.
* **Pipeline:** the `WorkLoop` thread always has a step (`select()`
  returns on data, a wake-up or a timeout, and `Top` always moves on), so
  its weak fairness is written as `[]<><<Agent>>_vars`: the downloader
  takes infinitely many steps. The mirrors, the network and `AddJob` are
  not fair. A silent mirror is handled by the timeout.
* **Wake-ups:** a thread waiting on a condition wakes only after a
  `notifyAll` that reaches it while it waits.

Deadlock checking is off in these runs because each system really stops:
after shutdown, after a finite workload, or at the time bound.

## Not modelled

* **Downloader limits.** In CacheCore each downloader has one job. Pipelining
  and redirects are in Pipeline, which abstracts the body and the item. The
  storage side of a response (`CheckAndSaveHeader` and the FileItem calls)
  is in CacheCore. Proxies, SSL tunnels, the speed limiter, 1xx
  responses, the key-file blacklist branch, volatile jobs when range
  requests are disabled, and shutdown (`m_ctrl_hint < 0`) are not
  modelled. Neither is the chunk-size parser.
* **Client request types.** Client range requests, HEAD requests,
  pass-through, local files and maintenance pages are not modelled.
* **Registry.** The prolonged-lifetime queue of the registry is dead code in
  the source, because of an operator-precedence error at `acregistry.cc:96`.
  The model follows the code, so it has no such queue.
* **Path arithmetic.** The displaced item of `abandon_replace` gets a path
  of its own. The doubled prefix in `SABSPATH(replPathAbs)` and the K.<time>
  link that is never removed are listed as hazards, not checked.
* **Header parser.** `header::Load` is in Header. Its other uses are not:
  the unknown-field export (`unkHeaderMap`) of the client side,
  `ToString`, `StoreToFile`, `ExtractCustomHeaders` (formatting and file
  output), and the -3 result of a failed `realloc`. Header also knows only
  SP, CR and LF among `SPACECHARS`.
* **Repository database.** `remotedb.cc` (prefix matching of repository
  URLs, backend files), `csmapping.cc` and the rest of `tHttpUrl` (ports,
  IPv6, credentials, `ToURI`) are configuration and string formatting. A
  job's repository enters Redirect and Pipeline as its backend list.
* **Support code.** libevent dispatch, socket I/O,
  configuration and the `acngtool` tool are left out. They are parsing or
  I/O without protocol state (see the PROJECT.json components).
* **Cleaner.** Its other cleanup types (remotedb, registry) are not modelled.
* **Connection pool.** `CloseAllCachedConnections` has no caller in
  `src/`, and a failing connect in `CreateConnected` is left to CacheCore.
* **DNS.** The SRV weight shuffle is not modelled. c-ares is the
  environment: it picks each callback's status.
* **From the spec.** `conn.cc` is not in the source tree. A client closing
  its connection (`ClientAbort`) and the stop of its downloader
  (`AgentStop`) are modelled from the spec.
