------------------------------ MODULE ConnPool ------------------------------
(***************************************************************************)
(* The pool of idle upstream connections (tcpconnect.cc, dl_con_factory)  *)
(* and the cleaner thread that expires them (cleaner.cc).                  *)
(*                                                                         *)
(* Download agents take a connection for a (host, port) key with          *)
(* CreateConnected, which reuses a pooled one of that key or opens a new  *)
(* one, and give it back with RecycleIdleConnection, which pools it for   *)
(* TIME_SOCKET_EXPIRE_CLOSE seconds and asks the cleaner to run then.     *)
(* The cleaner's WorkLoop snapshots its schedule, runs BackgroundCleanup  *)
(* (drop expired entries, then those select() reports readable, i.e.      *)
(* closed by the peer), merges the next run time back and sleeps.         *)
(* The far side may close any connection at any time.                     *)
(***************************************************************************)
EXTENDS Integers, Sequences, SequencesExt, FiniteSets

CONSTANTS
    Agents,          \* download agents (dlcon instances)
    Conns,           \* connection objects (tcpconnect) that may be opened
    Keys,            \* (host, port) keys, ordered as numbers like the map's keys
    PoolCap,         \* the pool's size limit (50 in the code)
    Expire,          \* TIME_SOCKET_EXPIRE_CLOSE (33 s)
    MaxTime,         \* time bound of the model
    PersistOutgoing, \* cfg::persistoutgoing
    NoConn           \* an agent that holds no connection

(* END_OF_TIME: later than any time of the model. *)
EndOfTime == MaxTime + Expire + 1

VARIABLES
    now,         \* GetTime()
    inShutdown,  \* evabase::in_shutdown
    cst,         \* cst[c]: "unborn", "busy", "pooled", "dropped"
    key,         \* key[c]: the key c was opened for
    closed,      \* connections the far side has closed
    hold,        \* hold[a]: the connection agent a uses, or NoConn
    pool,        \* spareConPool: a sequence of [c, key, since] in key order
    stamp,       \* the cleaner's stamps[TYPE_EXCONNS]
    snap,        \* the WorkLoop's snapshot of it, then the cleanup's result
    clPc,        \* the cleaner thread: "none", "top", "clean", "merge", "sleep", "exit"
    wakeAt,      \* end of the cleaner's wait_for
    notified     \* a notifyAll reached the waiting cleaner

vars == <<now, inShutdown, cst, key, closed, hold, pool, stamp, snap, clPc,
          wakeAt, notified>>

cleanerVars == <<stamp, snap, clPc, wakeAt, notified>>

Init ==
    /\ now = 0 /\ inShutdown = FALSE
    /\ cst = [c \in Conns |-> "unborn"]
    /\ key = [c \in Conns |-> CHOOSE k \in Keys : TRUE]
    /\ closed = {}
    /\ hold = [a \in Agents |-> NoConn]
    /\ pool = <<>>
    /\ stamp = EndOfTime /\ snap = EndOfTime
    /\ clPc = "none" /\ wakeAt = EndOfTime /\ notified = FALSE

(* Mutant of InsertByKey: the entry records its expiry, not its birth. *)
InsertByKeyStamp(s, e) ==
    LET n == Cardinality({i \in DOMAIN s : s[i].key <= e.key})
    IN  SubSeq(s, 1, n) \o <<[e EXCEPT !.since = @ + Expire]>> \o SubSeq(s, n + 1, Len(s))

(* multimap::emplace puts an entry after the entries of equal key. *)
InsertByKey(s, e) ==
    LET n == Cardinality({i \in DOMAIN s : s[i].key <= e.key})
    IN  SubSeq(s, 1, n) \o <<e>> \o SubSeq(s, n + 1, Len(s))

(* spareConPool.erase(it) of the i-th entry. *)
TakeFromPoolKeep(s, i) == s

TakeFromPool(s, i) == RemoveAt(s, i)

(* cleaner::ScheduleFor(when, TYPE_EXCONNS), lines 119-147: start the     *)
(* thread on the first call, else move the stamp earlier and notify.      *)
ScheduleFor(when) ==
    IF inShutdown \/ (clPc # "none" /\ when > stamp)
    THEN UNCHANGED cleanerVars
    ELSE IF clPc = "none"
    THEN /\ stamp' = when /\ clPc' = "top"
         /\ UNCHANGED <<snap, wakeAt, notified>>
    ELSE /\ stamp' = when /\ notified' = (clPc = "sleep")
         /\ UNCHANGED <<snap, clPc, wakeAt>>

(* CreateConnected for key k (tcpconnect.cc 102-186): the first pooled    *)
(* entry of the key is taken without any check of the socket; else a new  *)
(* connection is opened.  A failing connect is not modelled.              *)
CreateConnected(a, k) ==
    /\ ~inShutdown /\ hold[a] = NoConn
    /\ LET idx == {i \in DOMAIN pool : pool[i].key = k} IN
       IF idx # {}
       THEN LET i == CHOOSE j \in idx : \A l \in idx : j <= l
                c == pool[i].c
            IN  /\ pool' = TakeFromPool(pool, i)
                /\ cst' = [cst EXCEPT ![c] = "busy"]
                /\ hold' = [hold EXCEPT ![a] = c]
                /\ UNCHANGED key
       ELSE \E c \in Conns :
              /\ cst[c] = "unborn"
              /\ cst' = [cst EXCEPT ![c] = "busy"]
              /\ key' = [key EXCEPT ![c] = k]
              /\ hold' = [hold EXCEPT ![a] = c]
              /\ UNCHANGED pool
    /\ UNCHANGED <<now, inShutdown, closed>> /\ UNCHANGED cleanerVars

(* RecycleIdleConnection (lines 188-233), which dlcon calls when the      *)
(* connection has no error flags: pooled with the current time if the     *)
(* configuration allows it and the pool has room, else closed.           *)
RecycleIdleConnection(a) ==
    /\ hold[a] # NoConn
    /\ LET c == hold[a] IN
       /\ hold' = [hold EXCEPT ![a] = NoConn]
       /\ IF PersistOutgoing /\ Len(pool) < PoolCap
          THEN /\ pool' = InsertByKey(pool, [c |-> c, key |-> key[c], since |-> now])
               /\ cst' = [cst EXCEPT ![c] = "pooled"]
               /\ ScheduleFor(now + Expire)
          ELSE /\ cst' = [cst EXCEPT ![c] = "dropped"]
               /\ UNCHANGED pool /\ UNCHANGED cleanerVars
    /\ UNCHANGED <<now, inShutdown, key, closed>>

(* The agent drops a connection after an error (con.reset()). *)
DropConnection(a) ==
    /\ hold[a] # NoConn
    /\ cst' = [cst EXCEPT ![hold[a]] = "dropped"]
    /\ hold' = [hold EXCEPT ![a] = NoConn]
    /\ UNCHANGED <<now, inShutdown, key, closed, pool>> /\ UNCHANGED cleanerVars

(* The far side closes a connection, in use or idle. *)
PeerClose(c) ==
    /\ cst[c] \in {"busy", "pooled"} /\ c \notin closed
    /\ closed' = closed \cup {c}
    /\ UNCHANGED <<now, inShutdown, cst, key, hold, pool>> /\ UNCHANGED cleanerVars

(* The second loop of BackgroundCleanup (lines 262-266): r is the number  *)
(* of readable sockets select() reported; the loop erases the readable    *)
(* entries it meets and counts r down on every entry it visits.           *)
RECURSIVE DropReadable(_, _, _)
DropReadable(s, r, readable) ==
    IF r <= 0 \/ s = <<>> THEN s
    ELSE IF Head(s).c \in readable THEN DropReadable(Tail(s), r - 1, readable)
    ELSE <<Head(s)>> \o DropReadable(Tail(s), r - 1, readable)

(* The first loop of BackgroundCleanup (lines 244-256): erase the entries *)
(* pooled for TIME_SOCKET_EXPIRE_CLOSE seconds or longer.                 *)
Unexpired(s) ==
    SelectSeq(s, LAMBDA e : now < e.since + Expire)

NextCleanup(s) == IF s = <<>> THEN EndOfTime ELSE now + Expire \div 4 + 1

(* WorkLoop, lines 54-68: leave in shutdown, else take the snapshot and   *)
(* reset the stamp, and run the cleanup if it is due.                     *)
CleanerTop ==
    /\ clPc = "top"
    /\ IF inShutdown
       THEN clPc' = "exit" /\ UNCHANGED <<stamp, snap>>
       ELSE /\ snap' = stamp /\ stamp' = EndOfTime
            /\ clPc' = IF stamp > now THEN "merge" ELSE "clean"
    /\ UNCHANGED <<now, inShutdown, cst, key, closed, hold, pool, wakeAt, notified>>

(* Lines 69-82: the TYPE_EXCONNS cleanup, dl_con_factory::BackgroundCleanup *)
(* (tcpconnect.cc 236-269) under the pool lock: expire, select() on the    *)
(* rest, erase the readable ones, return when to run again.               *)
CleanerRun ==
    /\ clPc = "clean"
    /\ IF inShutdown
       THEN clPc' = "exit" /\ UNCHANGED <<pool, snap, cst>>
       ELSE LET live     == Unexpired(pool)
                readable == {live[i].c : i \in DOMAIN live} \cap closed
                left     == DropReadable(live, Cardinality(readable), readable)
                gone     == {pool[i].c : i \in DOMAIN pool} \ {left[i].c : i \in DOMAIN left}
            IN  /\ pool' = left
                /\ cst' = [c \in Conns |-> IF c \in gone THEN "dropped" ELSE cst[c]]
                /\ snap' = NextCleanup(left)
                /\ clPc' = "merge"
    /\ UNCHANGED <<now, inShutdown, key, closed, hold, stamp, wakeAt, notified>>

(* Lines 96-109: merge the result with what ScheduleFor set meanwhile,    *)
(* then wait until the earliest stamp or a notification.                  *)
MergeSnapshotOnly(sn, st) == sn

MergeStamp(sn, st) == IF sn < st THEN sn ELSE st

CleanerMerge ==
    /\ clPc = "merge"
    /\ LET t == MergeStamp(snap, stamp) IN
       /\ stamp' = t
       /\ IF t <= now
          THEN clPc' = "top" /\ UNCHANGED <<wakeAt, notified>>
          ELSE clPc' = "sleep" /\ wakeAt' = t /\ notified' = FALSE
    /\ UNCHANGED <<now, inShutdown, cst, key, closed, hold, pool, snap>>

CleanerWake ==
    /\ clPc = "sleep" /\ (notified \/ now >= wakeAt)
    /\ clPc' = "top"
    /\ UNCHANGED <<now, inShutdown, cst, key, closed, hold, pool, stamp, snap, wakeAt, notified>>

Tick ==
    /\ now < MaxTime
    /\ now' = now + 1
    /\ UNCHANGED <<inShutdown, cst, key, closed, hold, pool>> /\ UNCHANGED cleanerVars

(* The event base shuts down; agents open no more connections and the    *)
(* cleaner's loop returns at its next check.                              *)
BeginShutdown ==
    /\ ~inShutdown
    /\ inShutdown' = TRUE
    /\ UNCHANGED <<now, cst, key, closed, hold, pool>> /\ UNCHANGED cleanerVars

Next ==
    \/ \E a \in Agents, k \in Keys : CreateConnected(a, k)
    \/ \E a \in Agents : RecycleIdleConnection(a) \/ DropConnection(a)
    \/ \E c \in Conns : PeerClose(c)
    \/ CleanerTop \/ CleanerRun \/ CleanerMerge \/ CleanerWake
    \/ Tick \/ BeginShutdown

(* The cleaner thread runs its steps; time passes (up to MaxTime). *)
Fairness ==
    /\ WF_vars(CleanerTop) /\ WF_vars(CleanerRun) /\ WF_vars(CleanerMerge)
    /\ WF_vars(CleanerWake) /\ WF_vars(Tick)

Spec == Init /\ [][Next]_vars /\ Fairness

-----------------------------------------------------------------------------
Pooled == {pool[i].c : i \in DOMAIN pool}

TypeOK ==
    /\ now \in 0..MaxTime
    /\ cst \in [Conns -> {"unborn", "busy", "pooled", "dropped"}]
    /\ hold \in [Agents -> Conns \cup {NoConn}]
    /\ pool \in Seq([c : Conns, key : Keys, since : 0..MaxTime])
    /\ clPc \in {"none", "top", "clean", "merge", "sleep", "exit"}

(* Every connection has one owner: it is in the pool exactly once and    *)
(* marked pooled, or held by exactly one agent and marked busy.  A pooled *)
(* stream handed to an agent must have left the pool (CreateConnected's   *)
(* erase), and one given back must not be held any more.                  *)
OneOwner ==
    /\ \A c \in Conns : (cst[c] = "pooled") <=> (Cardinality({i \in DOMAIN pool : pool[i].c = c}) = 1)
    /\ Len(pool) = Cardinality(Pooled)
    /\ \A c \in Conns : (cst[c] = "busy") <=> (Cardinality({a \in Agents : hold[a] = c}) = 1)

(* An idle connection does not stay pooled past its expiry: once it has  *)
(* been pooled for TIME_SOCKET_EXPIRE_CLOSE seconds (within the time the *)
(* model covers), the cleaner closes it, unless the program shuts down.  *)
(* This needs the stamp ScheduleFor sets while a cleanup runs to survive *)
(* the merge of WorkLoop.                                                 *)
IdleExpires ==
    \A c \in Conns :
      (\E i \in DOMAIN pool : pool[i].c = c /\ pool[i].since + Expire <= MaxTime)
        ~> (c \notin Pooled \/ inShutdown)
====
