------------------------------ MODULE Pipeline ------------------------------
(***************************************************************************)
(* One downloader (CDlConn, dlcon.cc) with several download jobs: the      *)
(* hand-over queue m_new_jobs, next_jobs and active_jobs of WorkLoop, the  *)
(* pipelining loop that writes requests into m_sendBuf, ExchangeData with  *)
(* tDlJob::ProcessIncomming on m_inBuf, and the result handling of         *)
(* WorkLoop: reconnects, blacklisting with backend fail-over               *)
(* (SetupJobConfig), internal redirects (RewriteSource) and the recycling  *)
(* of connections into the pool of dl_con_factory.                         *)
(*                                                                         *)
(* The mirrors are the environment.  A connection carries the requests the *)
(* server has not answered (req), the body it still owes (owe), the bytes  *)
(* in the socket not read yet (out) and whether the peer closed it (eof).  *)
(* Bytes are abstracted to tokens: a response head, a response body, and   *)
(* junk (the rest of a head whose front was dropped).  Every token names   *)
(* the job whose request it answers, which is what the properties use.     *)
(***************************************************************************)
EXTENDS Integers, Sequences, FiniteSets, Functions

CONSTANTS
    Jobs,          \* the download jobs other threads hand over (AddJob)
    Hosts,         \* mirror host:port keys
    Backends,      \* Backends[j]: the backend list of j's repository
    PipelineLen,   \* cfg::pipelinelen
    MaxRetry,      \* MAX_RETRY, i.e. cfg::dlretriesmax
    RedirMax,      \* cfg::redirmax
    TempDisable,   \* the 30 of "m_nTempPipelineDisable = 30"
    Conns,         \* the connections the factory can open (a bound)
    MaxLoss,       \* how many connections the network may break (a bound)
    Kinds,         \* the response kinds the mirrors send
    Closes,        \* whether a response may carry Connection: close
    NoCon, NoHost

VARIABLES
    newJobs,   \* m_new_jobs
    next,      \* next_jobs
    active,    \* active_jobs: requests sent, responses pending, in order
    job,       \* job[j]: the tDlJob fields m_pCurBackend/m_remoteUri host (cur),
               \* m_bBackendMode, m_nRedirRemaining and m_DlState
    fate,      \* fate[j]: "new", "queued" (in the downloader), "done", "failed",
               \* "dropped" (left to the downloader that receives its item)
    con,       \* the WorkLoop's tDlStreamHandle
    cn,        \* cn[c]: connection c as the factory and the peer see it
    sendBuf,   \* m_sendBuf: requests cooked, not written yet
    inBuf,     \* m_inBuf
    stopReq,   \* bStopRequesting
    expClose,  \* bExpectRemoteClosing
    tol,       \* nLostConTolerance
    tmpDis,    \* m_nTempPipelineDisable
    black,     \* m_blacklist (its keys)
    pc,        \* "loop": WorkLoop's outer loop; "xchg": inside ExchangeData
    woke,      \* the wake eventfd has been written
    losses,    \* connections broken so far
    crossed    \* history: <<j, t>> when job j parsed token t of another job

vars == <<newJobs, next, active, job, fate, con, cn, sendBuf, inBuf, stopReq,
          expClose, tol, tmpDis, black, pc, woke, losses, crossed>>

(* A response head: its kind, Connection: close (cl), the Location host  *)
(* of a redirect (to) and, for a redirect, whether Content-Length is not  *)
(* zero (clen; the redirect page is then shorter than its head).          *)
Head0 == [t : {"head"}, j : Jobs, kind : Kinds, cl : BOOLEAN, to : Hosts \cup {NoHost}, clen : BOOLEAN]
Tokens == Head0 \cup [t : {"body", "junk"}, j : Jobs]

Init ==
    /\ newJobs = <<>> /\ next = <<>> /\ active = <<>>
    /\ job = [j \in Jobs |-> [cur |-> NoHost, bmode |-> TRUE, redir |-> RedirMax, st |-> "HEAD"]]
    /\ fate = [j \in Jobs |-> "new"]
    /\ con = NoCon
    /\ cn = [c \in Conns |-> [st |-> "unborn", host |-> NoHost, req |-> <<>>,
                              owe |-> <<>>, out |-> <<>>, fin |-> FALSE, eof |-> FALSE]]
    /\ sendBuf = <<>> /\ inBuf = <<>>
    /\ stopReq = FALSE /\ expClose = FALSE /\ tol = MaxRetry /\ tmpDis = 0
    /\ black = {} /\ pc = "loop" /\ woke = FALSE
    /\ losses = 0 /\ crossed = {}

(* tDlJob::GetPeerHost: the current backend, or the URL's host. *)
PeerHost(r) == r.cur

(* tDlJob::SetupJobConfig: keep the current backend unless blacklisted,  *)
(* else take the first backend not blacklisted; outside backend mode the *)
(* URL's host must not be blacklisted.  Returns the job and the verdict. *)
SetupJobConfig(r, j, bl) ==
    LET free == {i \in DOMAIN Backends[j] : Backends[j][i] \notin bl}
    IN  IF ~r.bmode THEN [r |-> r, ok |-> r.cur \notin bl]
        ELSE IF r.cur # NoHost /\ r.cur \notin bl THEN [r |-> r, ok |-> TRUE]
        ELSE IF free = {} THEN [r |-> r, ok |-> FALSE]
        ELSE LET i == CHOOSE i \in free : \A k \in free : i <= k
             IN  [r |-> [r EXCEPT !.cur = Backends[j][i]], ok |-> TRUE]

(* The erase loop of the reconnect block: jobs SetupJobConfig refuses    *)
(* leave next_jobs (their tDlJob dies and reports the error).             *)
RECURSIVE FilterNext(_, _, _)
FilterNext(q, s, bl) ==
    IF q = <<>> THEN s
    ELSE LET j == Head(q)
             v == SetupJobConfig(s.job[j], j, bl)
         IN  FilterNext(Tail(q),
                IF v.ok THEN [s EXCEPT !.job[j] = v.r, !.next = Append(@, j)]
                ELSE [s EXCEPT !.job[j] = v.r, !.fate[j] = "failed"], bl)

(* The pipelining loop: while not stopped, jobs wait and at most          *)
(* pipelinelen+1 are active ("<= cfg::pipelinelen"), set up the front job, *)
(* stop at a host mismatch, else AppendRequest and splice it to active.    *)
RECURSIVE Cook(_, _, _)
Cook(s, h, bl) ==
    IF s.stop \/ s.next = <<>> \/ Len(s.active) > PipelineLen THEN s
    ELSE LET j == Head(s.next)
             v == SetupJobConfig(s.job[j], j, bl)
         IN  IF ~v.ok
             THEN Cook([s EXCEPT !.job[j] = v.r, !.next = Tail(@), !.fate[j] = "failed"], h, bl)
             ELSE IF PeerHost(v.r) # h THEN [s EXCEPT !.job[j] = v.r, !.stop = TRUE]
             ELSE LET s2 == [s EXCEPT !.job[j] = v.r, !.next = Tail(@),
                                      !.active = Append(@, j), !.send = Append(@, j)]
                  IN  IF s2.tmp > 0 THEN [s2 EXCEPT !.stop = TRUE, !.tmp = @ - 1]
                      ELSE Cook(s2, h, bl)
(* The downloader's state as one record, so that the loops of the code   *)
(* can be written as operators over it.                                   *)
StateW == [next |-> next, active |-> active, send |-> sendBuf, stop |-> stopReq,
           tmp |-> tmpDis, job |-> job, fate |-> fate, buf |-> inBuf,
           crossed |-> crossed, res |-> {}]

SetW(w) ==
    /\ next' = w.next /\ active' = w.active /\ sendBuf' = w.send
    /\ stopReq' = w.stop /\ tmpDis' = w.tmp /\ job' = w.job /\ fate' = w.fate
    /\ inBuf' = w.buf /\ crossed' = w.crossed

Junk(x) == [t |-> "junk", j |-> x.j]

(* tDlJob::ProcessIncomming(inBuf, bOnlyRedirectionActivity) for job f,  *)
(* with the result flags as a set.  A head that is not a head (h.Load < 0)*)
(* breaks the mirror and kills the connection's last file.  A redirect   *)
(* runs RewriteSource (--m_nRedirRemaining <= 0 fails) and then drops    *)
(* Content-Length bytes from the buffer, which still starts with the     *)
(* redirect's own head.  A busy item (BUSY_OR_ERROR) breaks the job.  A  *)
(* good head is dropped and the body follows (PROCESS_DATA, FINISHJOB,   *)
(* DlFinish); the Connection: close hint collected in ret is only        *)
(* returned on the early exits.                                          *)
RECURSIVE ProcessIncomming(_, _, _)
ProcessIncomming(f, w, only) ==
    LET r  == w.job[f]
        x  == Head(w.buf)
        cr == IF x.j # f THEN w.crossed \cup {<<f, x>>} ELSE w.crossed
        ret == IF x.cl THEN {"SOON"} ELSE {}
    IN
    IF w.buf = <<>> THEN [w EXCEPT !.res = {"MORE"}]
    ELSE IF r.st = "DATA"
         THEN [w EXCEPT !.buf = Tail(@), !.crossed = cr, !.job[f].st = "HEAD", !.res = {"DONE"}]
    ELSE IF x.t # "head"
         THEN [w EXCEPT !.crossed = cr, !.res = {"MIRROR_BROKEN", "RECONNECT_NOW", "KILL_LAST_FILE"}]
    ELSE IF RedirMax # 0 /\ x.kind = "redir"
         THEN IF r.redir - 1 <= 0
              THEN [w EXCEPT !.crossed = cr, !.job[f].redir = 0, !.res = ret \cup {"JOB_BROKEN"}]
              ELSE [w EXCEPT !.crossed = cr,
                        !.job[f] = [cur |-> x.to, bmode |-> FALSE, redir |-> r.redir - 1, st |-> "HEAD"],
                        !.buf = IF x.clen THEN <<Junk(x)>> \o Tail(@) ELSE @,
                        !.res = ret \cup {"TGTCHANGE"}]
    ELSE IF RedirMax # 0 /\ only
         THEN [w EXCEPT !.crossed = cr, !.res = ret \cup {"LOST_CON", "RECONNECT_NOW"}]
    ELSE IF x.kind = "busy"
         THEN [w EXCEPT !.crossed = cr, !.buf = Tail(@), !.job[f].st = "DATA",
                        !.res = ret \cup {"RECONNECT_NOW", "JOB_BROKEN", "COLLISION"}]
    ELSE ProcessIncomming(f, [w EXCEPT !.crossed = cr, !.buf = Tail(@), !.job[f].st = "DATA"], only)

(* The HINT_TGTCHANGE branch of ExchangeData: the other pipelined jobs  *)
(* must take the same buffer as a redirect too, else pipelining is off  *)
(* for a while and the connection is dropped.                            *)
RECURSIVE Follow(_, _)
Follow(w, i) ==
    IF i > Len(w.active)
    THEN [w EXCEPT !.res = {"TGTCHANGE"} \cup (IF w.buf = <<>> THEN {} ELSE {"RECONNECT_NOW"})]
    ELSE LET r == ProcessIncomming(w.active[i], w, TRUE)
         IN  IF r.res # {"TGTCHANGE"}
             THEN [r EXCEPT !.tmp = TempDisable, !.res = {"TGTCHANGE", "RECONNECT_NOW"}]
             ELSE Follow(r, i + 1)

(* The while loop at proc_data: the front job takes the buffer; a done  *)
(* job leaves active_jobs (KnowLastFile), and the loop goes on while    *)
(* jobs and bytes remain.                                                *)
RECURSIVE Proc(_)
Proc(w) ==
    IF w.buf = <<>> THEN [w EXCEPT !.res = {"DONE"}]
    ELSE LET f == Head(w.active)
             q == ProcessIncomming(f, w, FALSE)
         IN  IF q.res = {"MORE"} THEN q
             ELSE IF "DONE" \in q.res
                  THEN LET q2 == [q EXCEPT !.active = Tail(@), !.fate[f] = "done"]
                       IN  IF q2.active = <<>> THEN [q2 EXCEPT !.res = {"SWITCH"}] ELSE Proc(q2)
             ELSE IF "TGTCHANGE" \in q.res THEN Follow(q, 2)
             ELSE q
(* The all_err mask of WorkLoop. *)
AllErr == {"RECONNECT_NOW", "SOON", "JOB_BROKEN", "LOST_CON", "MIRROR_BROKEN"}

ResetHintsLost == {"LOST_CON"}

(* The flags on which WorkLoop drops the connection and both buffers. *)
ResetHints == {"RECONNECT_NOW", "LOST_CON"}

(* No job is left in active_jobs and no error bit is set: the connection *)
(* is clean and goes back to the pool.                                   *)
Recyclable(w, c) == w.active = <<>> /\ c # NoCon /\ w.res \cap AllErr = {}

NextToleranceNoReset(t) == t - 1

(* --nLostConTolerance, reset to MAX_RETRY when it runs out (the mirror  *)
(* is blacklisted then).                                                 *)
NextTolerance(t) == IF t - 1 <= 0 THEN MaxRetry ELSE t - 1

(* WorkLoop after ExchangeData returned w.res, with cns the connections   *)
(* after the exchange step: note the close hint, recycle an idle clean    *)
(* connection, reset on RECONNECT_NOW/LOST_CON (with both buffers),       *)
(* recycle and move back on TGTCHANGE, count a lost connection against    *)
(* nLostConTolerance unless a close was announced (the front job restarts *)
(* at its header), continue on DONE/MORE/SWITCH, else blacklist a broken  *)
(* mirror, fail the front job (dropping the items another downloader     *)
(* receives on a collision) and move the active jobs back to the front of *)
(* next_jobs.                                                             *)
Post(w, cns) ==
    LET res     == w.res
        ec      == expClose \/ "SOON" \in res
        idle    == w.active = <<>>
        recycle == Recyclable(w, con)
        reset   == ~recycle /\ res \cap ResetHints # {}
        tgt     == ~recycle /\ "TGTCHANGE" \in res
        lc      == ~recycle /\ ~tgt /\ "LOST_CON" \in res /\ ~idle
        f       == Head(w.active)
        counted == lc /\ ~ec
        tolOut  == counted /\ tol - 1 <= 0
        cont    == ~recycle /\ ~tgt /\ (res \cap {"DONE", "MORE"} # {} \/ res = {"SWITCH"})
        fatal   == ~recycle /\ ~tgt /\ ~cont
        mb      == fatal /\ "MIRROR_BROKEN" \in res /\ ~idle
        jb      == fatal /\ "JOB_BROKEN" \in res /\ ~idle
        w1 == [w EXCEPT !.stop = IF idle THEN FALSE ELSE @,
                        !.buf  = IF reset THEN <<>> ELSE @,
                        !.send = IF reset THEN <<>> ELSE @,
                        !.job  = IF lc /\ "DONE" \notin res THEN [@ EXCEPT ![f].st = "HEAD"] ELSE @]
        w2 == IF jb THEN [w1 EXCEPT !.active = Tail(@), !.fate[f] = "failed"] ELSE w1
        others == Range(w2.active) \cup Range(w2.next)
    IN
    /\ expClose' = ec
    /\ tol' = IF counted THEN NextTolerance(tol) ELSE tol
    /\ black' = black \cup (IF tolOut \/ mb THEN {PeerHost(w.job[f])} ELSE {})
    /\ con' = IF recycle \/ reset \/ tgt \/ lc THEN NoCon ELSE con
    /\ cn' = IF con # NoCon /\ (recycle \/ reset \/ tgt)
             THEN [cns EXCEPT ![con].st = IF reset THEN "closed" ELSE "pooled"]
             ELSE cns
    /\ \E gone \in (IF jb /\ "COLLISION" \in res THEN SUBSET others ELSE {{}}) :
          LET keep(q) == SelectSeq(q, LAMBDA k : k \notin gone)
              w3 == [w2 EXCEPT !.active = keep(@), !.next = keep(@),
                               !.fate = [k \in Jobs |-> IF k \in gone THEN "dropped" ELSE @[k]]]
          IN  SetW(IF recycle \/ cont THEN w3
                   ELSE [w3 EXCEPT !.next = w3.active \o @, !.active = <<>>])
    /\ pc' = "loop"

(* tDlStreamHandle::check_read_state: data or EOF pending on the socket. *)
Readable(c) == cn[c].out # <<>> \/ cn[c].eof

(* proc_data: bytes with no job waiting for them lose the connection;    *)
(* HINT_MORE goes back to select inside ExchangeData.                    *)
ProcData(w, cns) ==
    IF w.active = <<>> THEN Post([w EXCEPT !.res = {"LOST_CON"}], cns)
    ELSE LET q == Proc(w)
         IN  IF q.res = {"MORE"}
             THEN /\ SetW(q) /\ cn' = cns
                  /\ UNCHANGED <<con, expClose, tol, black, pc>>
             ELSE Post(q, cns)

(* Entering ExchangeData: an empty inpipe clears m_inBuf.  Bytes left   *)
(* in it for the jobs in the inpipe go to proc_data before any select    *)
(* (bReEntered), in the same step.                                       *)
Enter(w) ==
    /\ SetW([w EXCEPT !.buf = IF w.active = <<>> THEN <<>> ELSE @])
    /\ pc' = "xchg"

GoSelect(w) ==
    IF w.active # <<>> /\ w.buf # <<>>
    THEN ProcData(w, cn)
    ELSE Enter(w) /\ UNCHANGED <<con, cn, expClose, tol, black>>

(* dlcon::AddJob: another thread appends to m_new_jobs and wakes the loop. *)
AddJob(j) ==
    /\ fate[j] = "new"
    /\ newJobs' = Append(newJobs, j)
    /\ fate' = [fate EXCEPT ![j] = "queued"]
    /\ woke' = TRUE
    /\ UNCHANGED <<next, active, job, con, cn, sendBuf, inBuf, stopReq, expClose,
                   tol, tmpDis, black, pc, losses, crossed>>
(* doconnect: bExpectRemoteClosing is cleared and every job restarts at  *)
(* its header (ResetStreamState) before CreateConnected, which reuses a   *)
(* pooled connection to the host, opens a new socket (a connection slot *)
(* not in use), or fails; a failure blacklists the front job's host.  A *)
(* reused connection with data or EOF pending is dropped (MoonWalker)    *)
(* and the loop starts over.                                             *)
Reconnect(w) ==
    LET h  == PeerHost(w.job[Head(w.next)])
        w1 == [w EXCEPT !.job = [k \in Jobs |->
                   IF k \in Range(w.next) THEN [w.job[k] EXCEPT !.st = "HEAD"] ELSE w.job[k]]]
        Fresh == [st |-> "open", host |-> h, req |-> <<>>, owe |-> <<>>, out |-> <<>>,
                  fin |-> FALSE, eof |-> FALSE]
    IN
    /\ expClose' = FALSE /\ tol' = tol
    /\ \/ \E c \in Conns :
            /\ cn[c].st = "pooled" /\ cn[c].host = h
            /\ IF Readable(c)
               THEN /\ cn' = [cn EXCEPT ![c].st = "closed"]
                    /\ SetW(w1) /\ pc' = "loop"
                    /\ UNCHANGED <<con, black>>
               ELSE /\ con' = c /\ cn' = [cn EXCEPT ![c].st = "open"]
                    /\ Enter(Cook(w1, h, black)) /\ UNCHANGED black
       \/ \E c \in Conns :
            /\ cn[c].st \in {"unborn", "closed"}
            /\ con' = c /\ cn' = [cn EXCEPT ![c] = Fresh]
            /\ Enter(Cook(w1, h, black)) /\ UNCHANGED black
       \/ /\ black' = black \cup {h}
          /\ SetW(w1) /\ pc' = "loop"
          /\ UNCHANGED <<con, cn>>

(* One pass of WorkLoop's outer loop up to go_select: take the new jobs  *)
(* to the front of next_jobs; with a connection, cook requests; without *)
(* one, clean up, drop the jobs SetupJobConfig refuses and connect.      *)
Top ==
    /\ pc = "loop"
    /\ newJobs' = <<>>
    /\ LET w == [StateW EXCEPT !.next = newJobs \o @]
           w0 == FilterNext(w.next, [w EXCEPT !.next = <<>>, !.active = <<>>, !.send = <<>>,
                                              !.buf = <<>>, !.stop = FALSE], black)
       IN  \/ /\ w.next = <<>> /\ w.active = <<>>
              /\ GoSelect(w)
           \/ /\ w.next # <<>> \/ w.active # <<>>
              /\ con # NoCon
              /\ GoSelect(Cook(w, cn[con].host, black))
           \/ /\ w.next # <<>> \/ w.active # <<>>
              /\ con = NoCon
              /\ IF w0.next = <<>>
                 THEN GoSelect(w0)
                 ELSE Reconnect(w0)
    /\ UNCHANGED <<woke, losses>>

(* select() saw the wake descriptor: HINT_SWITCH. *)
XWake ==
    /\ pc = "xchg" /\ woke
    /\ woke' = FALSE
    /\ Post([StateW EXCEPT !.res = {"SWITCH"}], cn)
    /\ UNCHANGED <<newJobs, losses>>

TimeoutResultRetry(act) == IF act = <<>> THEN {"SWITCH"} ELSE {"RECONNECT_NOW"}

(* The r == 0 branch of ExchangeData: a timeout with jobs in the inpipe  *)
(* breaks the front job and reconnects.                                  *)
TimeoutResult(act) == IF act = <<>> THEN {"SWITCH"} ELSE {"RECONNECT_NOW", "JOB_BROKEN"}

(* select() timed out: nothing to read, nothing to write (or no socket). *)
XTimeout ==
    /\ pc = "xchg" /\ ~woke
    /\ IF con = NoCon THEN TRUE ELSE ~Readable(con) /\ sendBuf = <<>>
    /\ Post([StateW EXCEPT !.res = TimeoutResult(active)], cn)
    /\ UNCHANGED <<newJobs, woke, losses>>

(* send(): the requests reach the peer; to a peer that closed, the send  *)
(* fails (EFLAG_LOST_CON) or the bytes are lost.                         *)
XWrite ==
    /\ pc = "xchg" /\ ~woke /\ con # NoCon /\ sendBuf # <<>>
    /\ \/ /\ ~cn[con].eof
          /\ cn' = [cn EXCEPT ![con].req = @ \o sendBuf]
          /\ sendBuf' = <<>>
          /\ UNCHANGED <<next, active, job, fate, con, inBuf, stopReq, expClose, tol,
                         tmpDis, black, pc, crossed>>
       \/ /\ cn[con].eof
          /\ sendBuf' = <<>>
          /\ UNCHANGED <<next, active, job, fate, con, cn, inBuf, stopReq, expClose, tol,
                         tmpDis, black, pc, crossed>>
       \/ /\ cn[con].eof
          /\ Post([StateW EXCEPT !.res = {"LOST_CON"}], cn)
    /\ UNCHANGED <<newJobs, woke, losses>>

(* read(): what the socket holds is appended to m_inBuf and processed;   *)
(* a read of 0 bytes is EOF, EFLAG_LOST_CON.                             *)
XRead ==
    /\ pc = "xchg" /\ ~woke /\ con # NoCon /\ Readable(con)
    /\ IF cn[con].out = <<>>
       THEN Post([StateW EXCEPT !.res = {"LOST_CON"}], cn)
       ELSE ProcData([StateW EXCEPT !.buf = @ \o cn[con].out], [cn EXCEPT ![con].out = <<>>])
    /\ UNCHANGED <<newJobs, woke, losses>>
(* A mirror answers the oldest request on c with a head, and owes its    *)
(* body; a redirect with Content-Length 0 has none.  With Connection:    *)
(* close the mirror closes c after that response.                        *)
SrvAnswer(c) ==
    /\ cn[c].st \in {"open", "pooled"} /\ ~cn[c].eof
    /\ cn[c].req # <<>> /\ cn[c].owe = <<>>
    /\ \E k \in Kinds, cl \in Closes, h \in Hosts, clen \in BOOLEAN :
          LET j    == Head(cn[c].req)
              x    == [t |-> "head", j |-> j, kind |-> k, cl |-> cl,
                       to |-> IF k = "redir" THEN h ELSE NoHost, clen |-> k = "redir" /\ clen]
              body == k # "redir" \/ clen
          IN  cn' = [cn EXCEPT ![c].req = Tail(@), ![c].out = Append(@, x),
                         ![c].owe = IF body THEN <<[t |-> "body", j |-> j]>> ELSE <<>>,
                         ![c].fin = cl /\ body, ![c].eof = cl /\ ~body]
    /\ UNCHANGED <<newJobs, next, active, job, fate, con, sendBuf, inBuf, stopReq, expClose,
                   tol, tmpDis, black, pc, woke, losses, crossed>>

(* The mirror sends the body it owes, then closes if it announced it. *)
SrvBody(c) ==
    /\ cn[c].st \in {"open", "pooled"} /\ cn[c].owe # <<>>
    /\ cn' = [cn EXCEPT ![c].out = @ \o cn[c].owe, ![c].owe = <<>>, ![c].eof = cn[c].fin]
    /\ UNCHANGED <<newJobs, next, active, job, fate, con, sendBuf, inBuf, stopReq, expClose,
                   tol, tmpDis, black, pc, woke, losses, crossed>>

(* The network or the mirror breaks c without notice (a bounded number of *)
(* times): the bytes in flight are lost, the socket reads EOF.            *)
SrvBreak(c) ==
    /\ losses < MaxLoss
    /\ cn[c].st \in {"open", "pooled"} /\ ~cn[c].eof
    /\ cn' = [cn EXCEPT ![c].req = <<>>, ![c].owe = <<>>, ![c].eof = TRUE]
    /\ losses' = losses + 1
    /\ UNCHANGED <<newJobs, next, active, job, fate, con, sendBuf, inBuf, stopReq, expClose,
                   tol, tmpDis, black, pc, woke, crossed>>

Agent == Top \/ XWake \/ XTimeout \/ XWrite \/ XRead

Next ==
    \/ \E j \in Jobs : AddJob(j)
    \/ Agent
    \/ \E c \in Conns : SrvAnswer(c) \/ SrvBody(c) \/ SrvBreak(c)

(* WorkLoop runs on its own thread and select() always returns (data,    *)
(* wake-up or timeout), so the agent always has a step that changes the   *)
(* state and takes one infinitely often: weak fairness of Agent, written  *)
(* as []<><<Agent>>_vars since Agent is enabled in every state.  The      *)
(* mirrors and the other threads are not fair.                            *)
Spec == Init /\ [][Next]_vars /\ []<><<Agent>>_vars
-----------------------------------------------------------------------------
Fates == {"new", "queued", "done", "failed", "dropped"}
JobState == [cur : Hosts \cup {NoHost}, bmode : BOOLEAN, redir : 0..RedirMax, st : {"HEAD", "DATA"}]
ConnState == [st : {"unborn", "open", "pooled", "closed"}, host : Hosts \cup {NoHost},
              req : Seq(Jobs), owe : Seq(Tokens), out : Seq(Tokens), fin : BOOLEAN, eof : BOOLEAN]

TypeOK ==
    /\ newJobs \in Seq(Jobs) /\ next \in Seq(Jobs) /\ active \in Seq(Jobs)
    /\ job \in [Jobs -> JobState] /\ fate \in [Jobs -> Fates]
    /\ con \in Conns \cup {NoCon} /\ cn \in [Conns -> ConnState]
    /\ sendBuf \in Seq(Jobs) /\ inBuf \in Seq(Tokens)
    /\ stopReq \in BOOLEAN /\ expClose \in BOOLEAN
    /\ tol \in 1..MaxRetry /\ tmpDis \in 0..TempDisable /\ black \subseteq Hosts
    /\ pc \in {"loop", "xchg"} /\ woke \in BOOLEAN
    /\ losses \in 0..MaxLoss /\ crossed \subseteq Jobs \X Tokens

-----------------------------------------------------------------------------
(* The bytes behind a head token.  The mirror's head reaches m_inBuf in   *)
(* any segmentation; the token model is sound when header::Load (Header) *)
(* returns 0 (HINT_MORE) on every proper prefix of the head, the head's   *)
(* length once it is complete, with or without body bytes behind it, and  *)
(* the fields ProcessIncomming reads from it.                             *)
HP == INSTANCE Header

CRLF == <<"CR", "LF">>
Field(name, v, sp) == <<name, ":">> \o (IF sp THEN <<"SP">> ELSE <<>>) \o v

(* The heads SrvAnswer sends, without the job. *)
Shape(x) == [kind |-> x.kind, cl |-> x.cl, to |-> x.to, clen |-> x.clen]
HeadShapes ==
    {[kind |-> k, cl |-> c, to |-> IF k = "redir" THEN h ELSE NoHost, clen |-> k = "redir" /\ l] :
        k \in Kinds, c \in Closes, h \in Hosts, l \in BOOLEAN}

(* The wire forms of a head: Content-Length, Connection: close or         *)
(* Proxy-Connection: close (or no close), Location for a redirect, no    *)
(* other field, an unknown one or a folded Content-Type; fields in either *)
(* order, with or without a space after the colon.                        *)
Wires(s) ==
    LET status == <<"HTTP/1.1", "SP", IF s.kind = "redir" THEN "302" ELSE "200", "SP", "OK">>
    IN  {LET conn  == IF s.cl THEN IF px THEN <<Field("Proxy-Connection", <<"close">>, sp)>>
                                         ELSE <<Field("Connection", <<"close">>, sp)>>
                      ELSE IF px THEN <<Field("Connection", <<"keep-alive">>, sp)>> ELSE <<>>
             opt   == CASE o = 0 -> <<>>
                        [] o = 1 -> <<Field("Server", <<"x">>, sp)>>
                        [] o = 2 -> <<Field("Content-Type", <<"a">>, sp) \o CRLF \o <<"SP", "b">>>>
             loc   == IF s.kind = "redir" THEN <<Field("Location", <<s.to>>, sp)>> ELSE <<>>
             cl    == <<Field("Content-Length", <<IF s.kind = "redir" /\ ~s.clen THEN "0" ELSE "1">>, sp)>>
             ls    == cl \o conn \o loc \o opt
             lines == IF rev THEN HP!Reverse(ls) ELSE ls
         IN  status \o CRLF \o HP!FlattenSeq([i \in 1..Len(lines) |-> lines[i] \o CRLF]) \o CRLF :
            sp \in BOOLEAN, px \in BOOLEAN, o \in 0..2, rev \in BOOLEAN}

(* pCon of ProcessIncomming: Connection, else Proxy-Connection, "close". *)
ConnClose(h) ==
    LET p == IF h["Connection"] # HP!Null THEN h["Connection"] ELSE h["Proxy-Connection"]
    IN  p = <<"close">>

(* atoofft(h[CONTENT_LENGTH], dflt). *)
ContLen(h, dflt) == IF h["Content-Length"] = HP!Null THEN dflt ELSE HP!SvToL(h["Content-Length"][1])

(* What the GETHEADER state of ProcessIncomming takes from wire w of     *)
(* shape s: more on every prefix, then the head's length, an answer with *)
(* the status the kind stands for, Connection: close as announced, and   *)
(* for a redirect the Location and the Content-Length it drops.          *)
Parsed(s, w) ==
    LET r == HP!Load(w)
    IN  /\ \A k \in 0..Len(w) - 1 : HP!Load(SubSeq(w, 1, k)).ret = 0
        /\ r.ret = HP!Bytes(w) /\ HP!Load(w \o <<"body">>) = r
        /\ r.code >= 200 /\ (r.code = 302) = (s.kind = "redir")
        /\ ConnClose(r.h) = s.cl
        /\ r.h["Transfer-Encoding"] = HP!Null
        /\ IF s.kind = "redir" THEN r.h["Location"] = <<s.to>> /\ (ContLen(r.h, 0) # 0) = s.clen
                               ELSE ContLen(r.h, -1) >= 0

ParsedShapes == {s \in HeadShapes : \A w \in Wires(s) : Parsed(s, w)}

(* The URLs behind the hosts of a redirect (Redirect), for every budget  *)
(* a job can have left.                                                  *)
RW == INSTANCE Redirect
ResolvesWith == [b \in 0..RedirMax |-> RW!FollowsLocation(b)]

(* Every job parses only the bytes of the response to its own request:   *)
(* what ProcessIncomming of job j takes from m_inBuf (a head, a body, the *)
(* rest of a head) answers j.  Pipelining on one connection, the reuse of *)
(* m_inBuf across reconnects and jobs moved back, and the follower loop   *)
(* of HINT_TGTCHANGE all have to keep the responses and active_jobs       *)
(* aligned.                                                               *)
OwnResponse == crossed = {}

(* Every head a mirror sends, on its way to or in m_inBuf, is one that   *)
(* header::Load reads as the token says, however TCP cuts it: Load       *)
(* reports HINT_MORE on each partial head (the "EOF or garbage?"         *)
(* branches, a first line without its reason, a folded field cut at the  *)
(* fold) and parses the complete one to the status, Connection: close,   *)
(* Location and Content-Length the token carries.                        *)
HeadsParsed ==
    \A b \in {inBuf} \cup {cn[c].out : c \in Conns} :
        \A i \in 1..Len(b) : b[i].t = "head" => Shape(b[i]) \in ParsedShapes

(* With the redirect budget each job has left, RewriteSource sends the   *)
(* follow-up requests of its redirects (absolute URLs, and absolute paths *)
(* outside backend mode) to the URL RFC 3986 resolves the Location to,   *)
(* and refuses exactly the redirect that exhausts m_nRedirRemaining.     *)
RedirectsResolve == \A j \in Jobs : ResolvesWith[job[j].redir]

(* Every job handed over with AddJob ends: it is downloaded, fails       *)
(* (blacklisted mirrors, timeouts, broken responses), or is dropped to the *)
(* downloader that receives its item; the loop never keeps it forever.    *)
AllJobsEnd == \A j \in Jobs : fate[j] = "queued" ~> fate[j] \in {"done", "failed", "dropped"}
=============================================================================
