----------------------------- MODULE CacheCore -----------------------------
(***************************************************************************)
(* The cache core for one key K: the item registry (acregistry.cc), the   *)
(* client jobs serving GET K (job.cc Prepare / SendData), and the download *)
(* agent that fetches K upstream (dlcon.cc tDlJob and CDlConn::WorkLoop),  *)
(* all acting on the items of FileItem and on the cache directory.        *)
(*                                                                         *)
(* Each client issues one GET K.  The item a client creates, and the      *)
(* download job it enqueues, are named by that client.  The upstream      *)
(* server is the environment: it answers each request from the current    *)
(* remote version, may drop the connection, time out or answer with an    *)
(* error.                                                                  *)
(***************************************************************************)
EXTENDS FileItem, FiniteSets

CONSTANTS
    Clients,         \* client connections, each sending one GET K
    NoItem,          \* model value: no entry / no item
    Volatile,        \* K is an index file (FILE_VOLATILE)
    NotFound,        \* upstream may answer 404 (a status with no usable body)
    Garbage,         \* upstream may send an unparsable response head
    ChunkedReplies,  \* upstream may answer 200 with Transfer-Encoding: chunked
    MaxRetry,        \* cfg::dlretriesmax, start value of nLostConTolerance
    InitDisk         \* cache states at start-up: [ver, size, head] records

ASSUME MaxRetry \in Nat \ {0}

(* The displaced item i writes under SABSPATH(replPathAbs), a path of its *)
(* own (acregistry.cc abandon_replace); we name that path i.             *)
Paths == {KPath} \cup Clients

VARIABLES
    reg,       \* mapItems[K]: the registered item or NoItem
    life,      \* life[i]: "unborn", "live" or "dead" (C++ object lifetime)
    items,     \* items[i]: the fileitem record (FileItem)
    fs,        \* the cache directory
    remote,    \* the version the upstream server currently has
    cj,        \* cj[c]: client job of connection c
    dj,        \* dj[c]: the tDlJob client c enqueued at its own downloader
    con,       \* con[c]: the WorkLoop of c's downloader has a connection
    tol,       \* tol[c]: its nLostConTolerance
    black,     \* black[c]: the mirror of K is in its m_blacklist
    lastFile,  \* lastFile[c]: the item its connection KnowLastFile'd
    pool       \* spareConPool: the lastFile of each idle upstream connection

(* Each client connection has its own downloader (conn::SetupDownloader), *)
(* a CDlConn whose WorkLoop owns the job queues; c's only job is dj[c],    *)
(* and dj[c].loc tells in which queue it is: m_new_jobs ("new"),          *)
(* next_jobs ("next"), active_jobs ("active"), or gone ("none").          *)
agentVars == <<con, tol, black, lastFile, pool>>
vars == <<reg, life, items, fs, remote, cj, dj, agentVars>>

Acts == {"idle", "created", "NOT_STARTED", "SEND_DATA", "CHUNK_HEADER",
         "CHUNK_DATA", "closed"}
Serving == {"NOT_STARTED", "SEND_DATA", "CHUNK_HEADER", "CHUNK_DATA"}
NoHdr == [kind |-> "none", len |-> -1]
NoJob == [loc |-> "none", item |-> NoItem, st |-> "GETHEADER", assigned |-> FALSE,
          allow |-> TRUE, range |-> -1, date |-> NoDate, rest |-> 0, ver |-> 0,
          vol |-> FALSE]

InitFS(d) ==
    [dir  |-> [p \in Paths |-> IF p = KPath /\ d.size >= 0 THEN 1 ELSE 0],
     head |-> [p \in Paths |->
                IF p # KPath THEN NoHeadFile
                ELSE CASE d.head = "none"  -> NoHeadFile
                       [] d.head = "bad"   -> BadHeadFile
                       [] d.head = "full"  -> HeadFile(Size[d.ver], d.ver)
                       [] d.head = "nolen" -> HeadFile(-1, NoDate)],
     data |-> IF d.size >= 0 THEN <<[n \in 1..d.size |-> d.ver]>> ELSE <<>>]

Init ==
    /\ reg = NoItem
    /\ life = [i \in Clients |-> "unborn"]
    /\ items = [i \in Clients |-> NewItem(Volatile)]
    /\ \E d \in InitDisk : /\ fs = InitFS(d)
                           /\ remote \in {v \in Versions : v >= d.ver}
    /\ cj = [c \in Clients |-> [act |-> "idle", item |-> NoItem, pos |-> 0,
                                rfd |-> 0, hdr |-> NoHdr, got |-> <<>>,
                                res |-> "none", chunkEnd |-> 0, sentAny |-> FALSE]]
    /\ dj = [c \in Clients |-> NoJob]
    /\ con = [c \in Clients |-> FALSE]
    /\ tol = [c \in Clients |-> MaxRetry]
    /\ black = [c \in Clients |-> FALSE]
    /\ lastFile = [c \in Clients |-> NoItem]
    /\ pool = {}

-----------------------------------------------------------------------------
(* Dropping references.  An item object dies when neither a holder        *)
(* (usercount) nor a download job (m_nDlRefsCount) refers to it; its      *)
(* destructor then acts on the cache directory.                            *)

(* Items and directory after the item records in upd replaced those of   *)
(* the items in dom; the ones left without references are destroyed.     *)
Settle(upd, dom) ==
    LET gone == {i \in dom : upd[i].users = 0 /\ upd[i].refs = 0}
        newItems == [i \in Clients |-> IF i \in dom THEN upd[i] ELSE items[i]]
    IN  [items |-> newItems,
         life  |-> [i \in Clients |-> IF i \in gone THEN "dead" ELSE life[i]],
         gone  |-> gone]

(* Destructors of the items in gone, applied to the directory.  At most   *)
(* one item dies in a step except when the agent drops several jobs.     *)
RECURSIVE DestroyAll(_, _, _)
DestroyAll(its, gone, f) ==
    IF gone = {} THEN f
    ELSE LET i == CHOOSE x \in gone : TRUE
         IN  DestroyAll(its, gone \ {i}, Destroy(its[i], f))

(* TFileItemHolder::~TFileItemHolder for the last holder of an item that *)
(* is not prolonged: the prolonged-queue branch needs expDate > now, but  *)
(* expDate evaluates to m_nTimeDlStarted or now (acregistry.cc:95), never *)
(* later than now; see ItemRegistry.                                      *)
ReleaseHolder(it) ==
    LET it1 == [it EXCEPT !.users = @ - 1]
    IN  IF it1.users > 0 THEN it1
        ELSE [it1 EXCEPT !.status = IF @ < COMPLETE THEN DLSTOP ELSE @,
                         !.code = 500, !.owned = FALSE]
-----------------------------------------------------------------------------
(* Client jobs (job.cc)                                                    *)

(* The job ends with result res: the connection closes or goes on with   *)
(* the next request, and the job's TFileItemHolder is released.           *)
Close(c, q, res) ==
    LET i == q.item
        s == Settle([items EXCEPT ![i] = ReleaseHolder(@)], {i})
    IN  /\ cj' = [cj EXCEPT ![c] = [q EXCEPT !.act = "closed", !.res = res]]
        /\ items' = s.items
        /\ life' = s.life
        /\ fs' = DestroyAll(s.items, s.gone, fs)
        /\ reg' = IF items[i].owned /\ s.items[i].users = 0 THEN NoItem ELSE reg

(* job::HandleSuddenError: an error page if nothing was sent yet, else   *)
(* disconnect.                                                            *)
SuddenError(c) == Close(c, cj[c], IF cj[c].sentAny THEN "disco" ELSE "errpage")

(* The loop condition of AwaitSendableState in job::SendData. *)
Sendable(c) ==
    LET it == items[cj[c].item]
    IN  it.status >= COMPLETE \/ it.sc > cj[c].pos

(* Mutant of AbandonReplace: the displaced item keeps writing under K. *)
AbandonReplaceKeepPath(it, i) == [it EXCEPT !.destroy = ABANDONED, !.owned = FALSE]

(* abandon_replace: the displaced item i takes its own path, is deleted  *)
(* on destruction and leaves the registry.                                *)
AbandonReplace(it, i) == [it EXCEPT !.path = i, !.destroy = ABANDONED, !.owned = FALSE]

(* job::Prepare up to TFileItemRegistry::Create: share the registered    *)
(* item (always for solid files; for volatile ones unless it is stuck or  *)
(* not started yet) or move it out of the way and register a new one.    *)
ClientCreate(c) ==
    /\ cj[c].act = "idle"
    /\ LET i == reg
           makeWay == Volatile /\ items[i].started # "fresh"
       IN  IF i # NoItem /\ ~makeWay
           THEN /\ items' = [items EXCEPT ![i].users = @ + 1]
                /\ cj' = [cj EXCEPT ![c].act = "created", ![c].item = i]
                /\ UNCHANGED <<reg, life, fs>>
           ELSE /\ reg' = c
                /\ life' = [life EXCEPT ![c] = "live"]
                /\ cj' = [cj EXCEPT ![c].act = "created", ![c].item = c]
                /\ IF i = NoItem
                   THEN /\ items' = [items EXCEPT ![c] = NewItem(Volatile)]
                        /\ UNCHANGED fs
                   ELSE \* link K aside and unlink it, then abandon_replace
                        /\ items' = [items EXCEPT ![c] = NewItem(Volatile),
                                                  ![i] = AbandonReplace(@, i)]
                        /\ fs' = [fs EXCEPT !.dir[KPath] = 0]
    /\ UNCHANGED <<remote, dj, agentVars>>

(* job::Prepare after Create: Setup, and a download job (CDlConn::AddJob, *)
(* whose tDlJob ctor calls DlRefCountAdd) when the status it returned is  *)
(* below DLGOTHEAD.                                                        *)
ClientSetup(c) ==
    /\ cj[c].act = "created"
    /\ LET i == cj[c].item
           it == Setup(items[i], fs)
           needsDl == it.status < DLGOTHEAD
       IN  /\ items' = [items EXCEPT ![i] = IF needsDl THEN DlRefCountAdd(it) ELSE it]
           /\ dj' = IF needsDl
                    THEN [dj EXCEPT ![c] = [NoJob EXCEPT !.loc = "new", !.item = i,
                                                         !.vol = it.vol]]
                    ELSE dj
    /\ cj' = [cj EXCEPT ![c].act = "NOT_STARTED"]
    /\ UNCHANGED <<reg, life, fs, remote, agentVars>>

Serve(c, act, hdr) ==
    /\ cj' = [cj EXCEPT ![c].act = act, ![c].hdr = hdr, ![c].sentAny = TRUE, ![c].pos = 0]
    /\ UNCHANGED <<reg, life, items, fs>>

(* job::SendData in STATE_NOT_STARTED: AwaitSendableState, then          *)
(* CookResponseHeader: an error page for a non-200 item status, chunked  *)
(* encoding while the length is unknown and data is arriving, otherwise  *)
(* 200 with Content-Length: m_nContentLength.                            *)
ClientStart(c) ==
    /\ cj[c].act = "NOT_STARTED"
    /\ Sendable(c)
    /\ LET it == items[cj[c].item]
       IN  CASE it.status > COMPLETE -> SuddenError(c)
             [] it.code # 200        -> Close(c, [cj[c] EXCEPT !.hdr.kind = "error"], "errpage")
             [] it.cl < 0 /\ it.status = DLRECEIVING ->
                    Serve(c, "CHUNK_HEADER", [kind |-> "chunked", len |-> -1])
             [] OTHER -> Serve(c, "SEND_DATA", [kind |-> "length", len |-> it.cl])
    /\ UNCHANGED <<remote, dj, agentVars>>

(* Mutant of SentAll: the job ends when it caught up with the writer. *)
SentAllEarly(it, q) == q.pos = it.sc

(* The whole body went out: the item is complete and nSendPos reached    *)
(* m_nSizeChecked.                                                        *)
SentAll(it, q) == it.status = COMPLETE /\ q.pos = it.sc

(* One sendfile() step: the next byte of the reader's inode, or nothing  *)
(* when that inode ends before nSendPos (sendfile returns 0, R_AGAIN).    *)
(* In STATE_SEND_DATA (plain) the job ends once SentAll holds.           *)
SendByte(c, q, fd, plain) ==
    IF Len(fs.data[fd]) > q.pos
    THEN LET q1 == [q EXCEPT !.rfd = fd, !.pos = @ + 1,
                             !.got = Append(@, fs.data[fd][q.pos + 1])]
         IN  IF plain /\ SentAll(items[q.item], q1) THEN Close(c, q1, "ok")
             ELSE /\ cj' = [cj EXCEPT ![c] = q1]
                  /\ UNCHANGED <<reg, life, items, fs>>
    ELSE /\ cj' = [cj EXCEPT ![c].rfd = fd]
         /\ UNCHANGED <<reg, life, items, fs>>

(* job::SendData in STATE_SEND_DATA.  The file is opened on first use by *)
(* fileitem::GetFileFd under the item's current path; limit <= 0 and a   *)
(* failed open both end in R_DISCON.                                      *)
ClientSendData(c) ==
    /\ cj[c].act = "SEND_DATA"
    /\ Sendable(c)
    /\ LET q == cj[c]
           it == items[q.item]
           fd == IF q.rfd # 0 THEN q.rfd ELSE fs.dir[it.path]
       IN  CASE it.status > COMPLETE       -> SuddenError(c)
             [] it.sc - q.pos <= 0 \/ fd = 0 -> Close(c, q, "disco")
             [] OTHER -> SendByte(c, q, fd, TRUE)
    /\ UNCHANGED <<remote, dj, agentVars>>

(* job::SendData in STATE_SEND_CHUNK_HEADER: the last chunk once the item *)
(* is complete and all was sent, else reopen the file and announce a chunk *)
(* up to m_nSizeChecked.                                                   *)
ClientChunkHeader(c) ==
    /\ cj[c].act = "CHUNK_HEADER"
    /\ Sendable(c)
    /\ LET q == cj[c]
           it == items[q.item]
           fd == fs.dir[it.path]
       IN  CASE it.status > COMPLETE                    -> SuddenError(c)
             [] it.status = COMPLETE /\ q.pos = it.sc   -> Close(c, q, "ok")
             [] fd = 0                                  -> SuddenError(c)
             [] OTHER ->
                  /\ cj' = [cj EXCEPT ![c].rfd = fd, ![c].chunkEnd = it.sc,
                                      ![c].act = "CHUNK_DATA"]
                  /\ UNCHANGED <<reg, life, items, fs>>
    /\ UNCHANGED <<remote, dj, agentVars>>

(* job::SendData in STATE_SEND_CHUNK_DATA *)
ClientChunkData(c) ==
    /\ cj[c].act = "CHUNK_DATA"
    /\ LET q == cj[c]
       IN  IF q.pos = q.chunkEnd
           THEN /\ cj' = [cj EXCEPT ![c].act = "CHUNK_HEADER"]
                /\ UNCHANGED <<reg, life, items, fs>>
           ELSE SendByte(c, q, q.rfd, FALSE)
    /\ UNCHANGED <<remote, dj, agentVars>>

(* AwaitSendableState: wait_for(nettimeout) expires with no sendable data. *)
ClientWaitTimeout(c) ==
    /\ cj[c].act \in {"NOT_STARTED", "SEND_DATA", "CHUNK_HEADER"}
    /\ ~Sendable(c)
    /\ SuddenError(c)
    /\ UNCHANGED <<remote, dj, agentVars>>

(* The client closes its connection; the job and its holder go away. *)
ClientAbort(c) ==
    /\ cj[c].act \in Serving
    /\ Close(c, cj[c], "aborted")
    /\ UNCHANGED <<remote, dj, agentVars>>
-----------------------------------------------------------------------------
(* Download jobs (dlcon.cc tDlJob)                                         *)

(* tDlJob::AppendRequest: GET with Range: bytes=<range>- and If-Range:    *)
(* <date> when range > 0.  The start is m_nSizeChecked, or the size found *)
(* on disk; volatile jobs step one byte back for the probe when that is   *)
(* the known length, and never resume without a Last-Modified date.       *)
AppendRequest(j, it) ==
    LET r0 == IF it.sc >= 0 THEN it.sc ELSE it.sci
        r1 == IF j.vol /\ r0 = it.cl /\ r0 > 1 THEN r0 - 1 ELSE r0
        r  == IF j.vol /\ it.date = NoDate THEN -1 ELSE r1
    IN  [j EXCEPT !.loc = "active", !.allow = TRUE, !.range = r,
                  !.date = IF r > 0 THEN it.date ELSE NoDate]

(* The upstream server holding version v answers a request: 206 from the *)
(* requested offset when If-Range matches (or is absent), 416 past the    *)
(* end, otherwise the whole body (with Content-Length, or chunked); with  *)
(* NotFound also 404 with a short body.                                    *)
Replies(j, v) ==
    LET L == Size[v]
        full == [code |-> 200, start |-> 0, total |-> L, date |-> v, clen |-> L,
                 chunked |-> FALSE, ver |-> v]
        ranged == j.range > 0 /\ (j.date = NoDate \/ j.date = v)
    IN  (IF ranged
         THEN IF j.range < L
              THEN {[full EXCEPT !.code = 206, !.start = j.range, !.clen = L - j.range]}
              ELSE {[full EXCEPT !.code = 416, !.start = -1, !.clen = 0]}
         ELSE {full} \cup (IF ChunkedReplies
                           THEN {[full EXCEPT !.chunked = TRUE, !.clen = -1]} ELSE {}))
        \cup (IF NotFound
              THEN {[code |-> 404, start |-> -1, total |-> -1, date |-> NoDate,
                     clen |-> 1, chunked |-> FALSE, ver |-> 0]}
              ELSE {})

(* mark_assigned: m_bFileItemAssigned and m_nTimeDlStarted = now *)
MarkAssigned(j, it) ==
    [j |-> [j EXCEPT !.assigned = TRUE], it |-> [it EXCEPT !.started = "fresh"]]

(* withError in CheckAndSaveHeader *)
WithError(j, it, kmode) ==
    LET m == MarkAssigned([j EXCEPT !.allow = FALSE], it)
    IN  [res |-> "BUSY", j |-> m.j, it |-> DlSetError(m.it, 503, kmode), fs |-> fs]

(* Mutant of StatusSwitch: a 200 keeps m_nUsedRangeStartPos, so its body *)
(* is stored at the old resume offset.                                     *)
StatusSwitchKeepRange(j, it, rep) ==
    CASE rep.code = 200 -> [fail |-> "no", j |-> j, it |-> it,
                            cl |-> IF rep.chunked THEN -1 ELSE rep.total]
      [] rep.code = 206 /\ (rep.start # j.range \/ rep.start < it.sci) ->
             [fail |-> "error", j |-> j, it |-> it, cl |-> -1]
      [] rep.code = 206 -> [fail |-> "no", j |-> j, it |-> it, cl |-> rep.total]
      [] rep.code = 416 /\ it.sc < 0 ->
             [fail |-> "restart", j |-> j,
              it |-> [it EXCEPT !.sci = 0, !.mustReplace = TRUE], cl |-> -1]
      [] rep.code = 416 -> [fail |-> "truncate", j |-> j, it |-> it, cl |-> -1]
      [] j.assigned -> [fail |-> "error", j |-> j, it |-> it, cl |-> -1]
      [] OTHER -> [fail |-> "no", j |-> [j EXCEPT !.allow = FALSE], it |-> it, cl |-> -1]

(* Mutant of ServedByOther: the check is missing. *)
ServedByOtherNever(j, it) == FALSE

(* "it's active but not served by us": another job has the item. *)
ServedByOther(j, it) == ~j.assigned /\ it.status > DLPENDING

(* The switch on the status code in tDlJob::CheckAndSaveHeader:         *)
(* [fail, j, it, cl] with cl the content length to announce.              *)
StatusSwitch(j, it, rep) ==
    CASE rep.code = 200 -> [fail |-> "no", j |-> [j EXCEPT !.range = 0], it |-> it,
                            cl |-> IF rep.chunked THEN -1 ELSE rep.total]
      [] rep.code = 206 /\ (rep.start # j.range \/ rep.start < it.sci) ->
             [fail |-> "error", j |-> j, it |-> it, cl |-> -1]
      [] rep.code = 206 -> [fail |-> "no", j |-> j, it |-> it, cl |-> rep.total]
      [] rep.code = 416 /\ it.sc < 0 ->
             [fail |-> "restart", j |-> j,
              it |-> [it EXCEPT !.sci = 0, !.mustReplace = TRUE], cl |-> -1]
      [] rep.code = 416 -> [fail |-> "truncate", j |-> j, it |-> it, cl |-> -1]
      [] j.assigned -> [fail |-> "error", j |-> j, it |-> it, cl |-> -1]
      [] OTHER -> [fail |-> "no", j |-> [j EXCEPT !.allow = FALSE], it |-> it, cl |-> -1]

(* tDlJob::CheckAndSaveHeader for reply rep: [res, j, it, fs] with res in *)
(* GOOD, BUSY (BUSY_OR_ERROR) and RESTART (RESTART_NEEDED).               *)
CheckAndSaveHeader(j, it, rep) ==
    LET probe == it.vol /\ it.sci > 0 /\ rep.total = it.sci
                 /\ rep.start = it.sci - 1 /\ rep.date = it.date
        sw == StatusSwitch(j, it, rep)
        m == MarkAssigned(sw.j, sw.it)
        code == IF rep.code = 206 THEN 200 ELSE rep.code
        st == DlStarted(m.it, rep.date, code, m.j.range, sw.cl)
        fin == DlFinish(st.it, fs, TRUE)
        probed == MarkAssigned([j EXCEPT !.allow = FALSE],
                               [it EXCEPT !.sc = it.sci, !.cl = it.sci])
        probeFin == DlFinish(probed.it, fs, TRUE)
    IN  CASE it.status >= COMPLETE -> [res |-> "BUSY", j |-> j, it |-> it, fs |-> fs]
          [] ServedByOther(j, it) -> [res |-> "BUSY", j |-> j, it |-> it, fs |-> fs]
          [] rep.code = 206 /\ probe ->
                [res |-> "GOOD", j |-> probed.j, it |-> probeFin.it, fs |-> probeFin.fs]
          [] sw.fail = "error"    -> WithError(j, it, KEEP)
          [] sw.fail = "truncate" -> WithError([j EXCEPT !.allow = FALSE], it, TRUNCATE)
          [] sw.fail = "restart"  -> [res |-> "RESTART", j |-> j, it |-> sw.it, fs |-> fs]
          [] ~st.ok -> [res |-> "BUSY", j |-> m.j, it |-> st.it, fs |-> fs]
          [] ~m.j.allow -> [res |-> "GOOD", j |-> m.j, it |-> fin.it, fs |-> fin.fs]
          [] OTHER -> [res |-> "GOOD", j |-> m.j, it |-> st.it, fs |-> fs]
-----------------------------------------------------------------------------
(* The downloader of client a (CDlConn::WorkLoop and ExchangeData)        *)

(* The job of a is erased from its queue: ~tDlJob calls                   *)
(* DlRefCountDec(503) on the item, whose last reference may go with it.   *)
JobGone(a, it, f) ==
    LET i == dj[a].item
        s == Settle([items EXCEPT ![i] = DlRefCountDec(it, 503)], {i})
    IN  /\ dj' = [dj EXCEPT ![a] = NoJob]
        /\ items' = s.items
        /\ life' = s.life
        /\ fs' = DestroyAll(s.items, s.gone, f)

(* The job of a goes on as j, its item as it, the directory as f. *)
JobStays(a, j, it, f) ==
    /\ dj' = [dj EXCEPT ![a] = j]
    /\ items' = [items EXCEPT ![dj[a].item] = it]
    /\ fs' = f
    /\ UNCHANGED life

(* con.reset(): the connection is closed, and its last file forgotten. *)
Disconnect(a) ==
    /\ con' = [con EXCEPT ![a] = FALSE]
    /\ lastFile' = [lastFile EXCEPT ![a] = NoItem]

(* ResetStreamState, applied by doconnect to every queued job *)
ResetStream(j) == [j EXCEPT !.st = "GETHEADER", !.rest = 0, !.range = -1]

(* WorkLoop: m_new_jobs is spliced to the front of next_jobs. *)
AgentSplice(a) ==
    /\ dj[a].loc = "new"
    /\ dj' = [dj EXCEPT ![a].loc = "next"]
    /\ UNCHANGED <<reg, life, items, fs, remote, cj, agentVars>>

(* WorkLoop without connection: SetupJobConfig fails for a blacklisted   *)
(* mirror and the job is erased from next_jobs.                           *)
AgentDropJob(a) ==
    /\ dj[a].loc = "next" /\ ~con[a] /\ black[a]
    /\ JobGone(a, items[dj[a].item], fs)
    /\ UNCHANGED <<reg, remote, cj, agentVars>>

(* doconnect: CreateConnected takes an idle connection of the pool (with *)
(* the last file it knew) or opens a fresh one.                           *)
AgentConnect(a) ==
    /\ dj[a].loc = "next" /\ ~con[a] /\ ~black[a]
    /\ \E x \in pool \cup {NoItem} :
          /\ lastFile' = [lastFile EXCEPT ![a] = x]
          /\ pool' = pool \ {x}
    /\ con' = [con EXCEPT ![a] = TRUE]
    /\ dj' = [dj EXCEPT ![a] = ResetStream(@)]
    /\ UNCHANGED <<reg, life, items, fs, remote, cj, tol, black>>

(* doconnect fails: BlacklistMirror(cjob) *)
AgentConnectFail(a) ==
    /\ dj[a].loc = "next" /\ ~con[a] /\ ~black[a]
    /\ black' = [black EXCEPT ![a] = TRUE]
    /\ dj' = [dj EXCEPT ![a] = ResetStream(@)]
    /\ UNCHANGED <<reg, life, items, fs, remote, cj, con, tol, lastFile, pool>>

(* The pipelining loop: AppendRequest, then the job moves to active_jobs. *)
AgentRequest(a) ==
    /\ dj[a].loc = "next" /\ con[a]
    /\ dj' = [dj EXCEPT ![a] = AppendRequest(@, items[@.item])]
    /\ UNCHANGED <<reg, life, items, fs, remote, cj, agentVars>>

(* Mutant of LostCon: the tolerance is never run down. *)
LostConNoCount(a, j, it) ==
    /\ UNCHANGED <<tol, black>>
    /\ Disconnect(a)
    /\ JobStays(a, [j EXCEPT !.st = "GETHEADER", !.loc = "next"], it, fs)

(* EFLAG_LOST_CON with the job active: nLostConTolerance runs down and   *)
(* blacklists the mirror at 0, the connection is reset, the job restarts *)
(* from STATE_GETHEADER and active_jobs go back to the front of next_jobs. *)
LostCon(a, j, it) ==
    LET t == tol[a] - 1
    IN  /\ tol' = [tol EXCEPT ![a] = IF t <= 0 THEN MaxRetry ELSE t]
        /\ black' = [black EXCEPT ![a] = @ \/ t <= 0]
        /\ Disconnect(a)
        /\ JobStays(a, [j EXCEPT !.st = "GETHEADER", !.loc = "next"], it, fs)

(* A response head arrives: ProcessIncomming in STATE_GETHEADER and       *)
(* CheckAndSaveHeader.  GOOD goes on with the body (m_nRest bytes);       *)
(* BUSY_OR_ERROR drops the job and the connection; RESTART_NEEDED is      *)
(* handled as a lost connection.                                          *)
AgentHeader(a) ==
    /\ dj[a].loc = "active" /\ dj[a].st = "GETHEADER" /\ con[a]
    /\ \E rep \in Replies(dj[a], remote) :
         LET r == CheckAndSaveHeader(dj[a], items[dj[a].item], rep)
             rest == IF rep.chunked THEN Size[rep.ver] ELSE rep.clen
             j1 == [r.j EXCEPT !.rest = rest, !.ver = rep.ver,
                               !.st = IF rest = 0 THEN "FINISH" ELSE "DATA"]
         IN  CASE r.res = "GOOD" ->
                    /\ JobStays(a, j1, r.it, r.fs)
                    /\ UNCHANGED <<con, tol, black, lastFile>>
               [] r.res = "BUSY" ->
                    /\ JobGone(a, r.it, r.fs)
                    /\ Disconnect(a)
                    /\ UNCHANGED <<tol, black>>
               [] OTHER -> LostCon(a, r.j, r.it)
    /\ UNCHANGED <<reg, remote, cj, pool>>

(* A body byte arrives: NewDataHandler stores it with DlAddData unless    *)
(* m_bAllowStoreData is off; "Cannot store" breaks the job and the        *)
(* connection.                                                            *)
AgentData(a) ==
    /\ dj[a].loc = "active" /\ dj[a].st = "DATA" /\ con[a]
    /\ LET j == dj[a]
           it == items[j.item]
           o == IF j.allow THEN DlAddData(it, fs, j.ver)
                ELSE [ok |-> TRUE, it |-> it, fs |-> fs]
           j1 == [j EXCEPT !.rest = @ - 1, !.st = IF j.rest = 1 THEN "FINISH" ELSE @]
       IN  IF o.ok
           THEN /\ JobStays(a, j1, o.it, o.fs)
                /\ UNCHANGED <<con, lastFile>>
           ELSE /\ JobGone(a, o.it, o.fs)
                /\ Disconnect(a)
    /\ UNCHANGED <<reg, remote, cj, tol, black, pool>>

(* STATE_FINISHJOB: DlFinish(false), HINT_DONE: KnowLastFile and pop the *)
(* job; with active_jobs empty the clean connection goes back to the pool. *)
AgentFinish(a) ==
    /\ dj[a].loc = "active" /\ dj[a].st = "FINISH" /\ con[a]
    /\ LET i == dj[a].item
           fin == DlFinish(items[i], fs, FALSE)
       IN  /\ JobGone(a, fin.it, fin.fs)
           /\ pool' = pool \cup {i}
    /\ con' = [con EXCEPT ![a] = FALSE]
    /\ lastFile' = [lastFile EXCEPT ![a] = NoItem]
    /\ UNCHANGED <<reg, remote, cj, tol, black>>

(* The upstream closes the connection or a read fails (EFLAG_LOST_CON). *)
AgentLostConnection(a) ==
    /\ dj[a].loc = "active" /\ con[a]
    /\ LostCon(a, dj[a], items[dj[a].item])
    /\ UNCHANGED <<reg, remote, cj, pool>>

(* select() times out with a request in flight: HINT_RECONNECT_NOW |     *)
(* EFLAG_JOB_BROKEN.                                                      *)
AgentTimeout(a) ==
    /\ dj[a].loc = "active" /\ con[a]
    /\ JobGone(a, items[dj[a].item], fs)
    /\ Disconnect(a)
    /\ UNCHANGED <<reg, remote, cj, tol, black, pool>>

(* The client connection closed: its downloader is told to stop         *)
(* (SignalStop in the conn destructor, m_ctrl_hint < 0); the WorkLoop     *)
(* returns at its next check and its job list is cleared.                 *)
AgentStop(a) ==
    /\ cj[a].act = "closed" /\ cj[a].res \in {"disco", "aborted"}
    /\ dj[a].loc # "none"
    /\ JobGone(a, items[dj[a].item], fs)
    /\ Disconnect(a)
    /\ UNCHANGED <<reg, remote, cj, tol, black, pool>>

(* An unparsable response head: EFLAG_MIRROR_BROKEN | HINT_RECONNECT_NOW *)
(* | HINT_KILL_LAST_FILE.  KillLastFile marks the connection's last file *)
(* faulty if it still lives; the mirror is blacklisted and the job goes  *)
(* back to next_jobs.                                                     *)
AgentGarbage(a) ==
    /\ Garbage
    /\ dj[a].loc = "active" /\ dj[a].st = "GETHEADER" /\ con[a]
    /\ LET x == lastFile[a]
           kill == x # NoItem /\ life[x] = "live"
       IN  /\ items' = IF kill THEN [items EXCEPT ![x] = MarkFaulty(@, FALSE)] ELSE items
    /\ black' = [black EXCEPT ![a] = TRUE]
    /\ dj' = [dj EXCEPT ![a].loc = "next"]
    /\ Disconnect(a)
    /\ UNCHANGED <<reg, life, fs, remote, cj, tol, pool>>

(* A volatile file changes upstream. *)
RemoteChange ==
    /\ Volatile /\ remote + 1 \in Versions
    /\ remote' = remote + 1
    /\ UNCHANGED <<reg, life, items, fs, cj, dj, agentVars>>

(* Time passes beyond m_nTimeDlStarted + cfg::stucksecs. *)
Tick ==
    /\ Volatile
    /\ \E i \in Clients :
         /\ items[i].started = "fresh"
         /\ items' = [items EXCEPT ![i].started = "stale"]
    /\ UNCHANGED <<reg, life, fs, remote, cj, dj, agentVars>>

ClientStep(c) ==
    \/ ClientCreate(c) \/ ClientSetup(c) \/ ClientStart(c) \/ ClientSendData(c)
    \/ ClientChunkHeader(c) \/ ClientChunkData(c) \/ ClientWaitTimeout(c)

AgentStep(a) ==
    \/ AgentSplice(a) \/ AgentDropJob(a) \/ AgentConnect(a) \/ AgentRequest(a)
    \/ AgentHeader(a) \/ AgentData(a) \/ AgentFinish(a) \/ AgentStop(a)

Failure(c) ==
    \/ ClientAbort(c) \/ AgentConnectFail(c) \/ AgentLostConnection(c)
    \/ AgentTimeout(c) \/ AgentGarbage(c)

Next ==
    \/ \E c \in Clients : ClientStep(c) \/ AgentStep(c) \/ Failure(c)
    \/ RemoteChange \/ Tick

(* Weak fairness on the client job's and the downloader's own steps     *)
(* (worker threads and the WorkLoop are never starved); none on the     *)
(* failures, which are the environment's choice.                         *)
Fairness ==
    \A c \in Clients : WF_vars(ClientStep(c)) /\ WF_vars(AgentStep(c))

Spec == Init /\ [][Next]_vars /\ Fairness
-----------------------------------------------------------------------------
(* Properties                                                               *)

Lengths == -1..(2 * Size[CHOOSE v \in Versions : \A w \in Versions : Size[w] <= Size[v]])
Bytes == Versions \cup {0}
HeadRec == [kind : {"none", "bad", "ok"}, len : Lengths, date : Versions \cup {NoDate}]

TypeOK ==
    /\ reg \in Clients \cup {NoItem}
    /\ life \in [Clients -> {"unborn", "live", "dead"}]
    /\ \A i \in Clients :
         /\ items[i].status \in FRESH..DLSTOP
         /\ {items[i].sc, items[i].cl, items[i].sci} \subseteq Lengths
         /\ items[i].refs \in 0..Cardinality(Clients)
         /\ items[i].users \in 0..Cardinality(Clients)
         /\ items[i].destroy \in KEEP..DELETE
         /\ items[i].path \in Paths
    /\ fs.dir \in [Paths -> 0..Len(fs.data)]
    /\ fs.head \in [Paths -> HeadRec]
    /\ \A n \in DOMAIN fs.data : fs.data[n] \in Seq(Bytes)
    /\ remote \in Versions
    /\ \A c \in Clients :
         /\ cj[c].act \in Acts
         /\ cj[c].got \in Seq(Bytes)
         /\ dj[c].loc \in {"none", "new", "next", "active"}
         /\ dj[c].st \in {"GETHEADER", "DATA", "FINISH"}
    /\ con \in [Clients -> BOOLEAN]
    /\ tol \in [Clients -> 1..MaxRetry]
    /\ black \in [Clients -> BOOLEAN]
    /\ lastFile \in [Clients -> Clients \cup {NoItem}]
    /\ pool \subseteq Clients \cup {NoItem}

(* Single producer (spec 8.1): CheckAndSaveHeader lets at most one        *)
(* download job of an item store body bytes; the downloaders of other     *)
(* clients that share the item must give up with BUSY_OR_ERROR.           *)
Producing(a) ==
    dj[a].loc = "active" /\ dj[a].st = "DATA" /\ dj[a].assigned /\ dj[a].allow
SingleProducer ==
    \A a, b \in Clients :
        Producing(a) /\ Producing(b) /\ dj[a].item = dj[b].item => a = b

(* Whatever K.head announces as the full length of a body of that length *)
(* is, byte for byte, one version of the resource: Setup will take such a *)
(* file as COMPLETE and serve it (DlStarted, DlFinish and SaveHeader must *)
(* never record a partial or mixed body as whole).                        *)
CachedFileIntact ==
    LET h == fs.head[KPath]
    IN  h.kind = "ok" /\ h.len >= 0 /\ h.len = BodySize(fs, KPath)
        => \E v \in Versions : fs.data[fs.dir[KPath]] = Content(v)

(* A client whose job ended with a complete response got exactly one     *)
(* version of the resource, and as many bytes as its Content-Length said *)
(* (job::SendData with the item's status and m_nSizeChecked).             *)
ClientGotWhole ==
    \A c \in Clients :
        cj[c].res = "ok" =>
            /\ \E v \in Versions : cj[c].got = Content(v)
            /\ cj[c].hdr.kind = "length" => cj[c].hdr.len = Len(cj[c].got)

(* Every client is eventually answered (job::SendData leaves the         *)
(* AwaitSendableState / sendfile loop with the whole body, an error page  *)
(* or a disconnect) and every download job eventually leaves its          *)
(* downloader, releasing its m_nDlRefsCount reference.                    *)
AllServed ==
    <>(\A c \in Clients : cj[c].act = "closed" /\ dj[c].loc = "none")
=============================================================================
