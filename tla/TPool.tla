------------------------------- MODULE TPool -------------------------------
(***************************************************************************)
(* The worker pool that runs client connections (tpool.cc, tpoolImpl) and *)
(* its user, the accept path of conserver.cc.                              *)
(*                                                                         *)
(* schedule() runs on the event thread for each accepted connection; each *)
(* pool thread runs ThreadAction.  Both hold the pool mutex except while a *)
(* thread runs its work item, so every step below between two lock        *)
(* releases is one action.  A waiting thread wakes only after a            *)
(* notifyAll that happened while it was waiting.                           *)
(***************************************************************************)
EXTENDS Integers, Sequences, FiniteSets

CONSTANTS
    Threads,     \* thread ids std::thread may hand out; when all are used
                 \* up, the constructor throws (thread creation fails)
    Work,        \* accepted client connections (their file descriptors)
    MaxCount,    \* m_nMaxCount (300 in conserver.cc)
    MaxSpare,    \* m_nMaxSpare (30)
    Stopper,     \* the thread that calls stop()
    NoJob        \* job of a thread that runs none

VARIABLES
    spare,       \* m_nCurSpare
    active,      \* m_nCurActive
    fresh,       \* m_freshWork
    shutdown,    \* m_shutdown
    pc,          \* pc[t]: "none" (not created), "start", "wait", "run", "exit"
    job,         \* job[t]: the work item thread t runs
    notified,    \* waiters woken by a notifyAll since they started waiting
    inShutdown,  \* evabase::in_shutdown
    stopPc,      \* the stop() caller: "idle", "wait", "done"
    accepted,    \* connections handed to schedule()
    rejected,    \* connections schedule() returned false for
    ran          \* connections whose work item (conn::WorkLoop) ended

vars == <<spare, active, fresh, shutdown, pc, job, notified, inShutdown,
          stopPc, accepted, rejected, ran>>


Init ==
    /\ spare = 0 /\ active = 0 /\ fresh = <<>> /\ shutdown = FALSE
    /\ pc = [t \in Threads |-> "none"]
    /\ job = [t \in Threads |-> NoJob]
    /\ notified = {}
    /\ inShutdown = FALSE
    /\ stopPc = "idle"
    /\ accepted = {} /\ rejected = {} /\ ran = {}

(* Wakes the pool threads only. *)
NotifyThreads(pc2, stop2) ==
    notified' = {t \in Threads : pc2[t] = "wait"}

(* notifyAll(): wakes whoever waits on the pool's condition after the     *)
(* step, pc2 and stop2 being the waiting states after it.                 *)
NotifyAll(pc2, stop2) ==
    notified' = {t \in Threads : pc2[t] = "wait"} \cup (IF stop2 = "wait" THEN {Stopper} ELSE {})

(* Leaves the loop at shutdown without its m_nCurSpare--. *)
LoopBodyKeepSpare(t, s, a) ==
    \/ /\ shutdown
       /\ spare' = s /\ active' = a
       /\ pc' = [pc EXCEPT ![t] = "exit"]
       /\ NotifyAll(pc', stopPc)
       /\ UNCHANGED <<fresh, job>>
    \/ /\ ~shutdown /\ fresh = <<>>
       /\ spare' = s /\ active' = a
       /\ pc' = [pc EXCEPT ![t] = "wait"]
       /\ notified' = notified \ {t}
       /\ UNCHANGED <<fresh, job>>
    \/ /\ ~shutdown /\ fresh # <<>>
       /\ job' = [job EXCEPT ![t] = Head(fresh)]
       /\ fresh' = Tail(fresh)
       /\ spare' = s - 1 /\ active' = a + 1
       /\ pc' = [pc EXCEPT ![t] = "run"]
       /\ notified' = notified \ {t}

(* The body of ThreadAction's loop (lines 24-40), entered with the lock   *)
(* held and the counter values s and a.                                   *)
LoopBody(t, s, a) ==
    \/ /\ shutdown
       /\ spare' = s - 1 /\ active' = a
       /\ pc' = [pc EXCEPT ![t] = "exit"]
       /\ NotifyAll(pc', stopPc)
       /\ UNCHANGED <<fresh, job>>
    \/ /\ ~shutdown /\ fresh = <<>>
       /\ spare' = s /\ active' = a
       /\ pc' = [pc EXCEPT ![t] = "wait"]
       /\ notified' = notified \ {t}
       /\ UNCHANGED <<fresh, job>>
    \/ /\ ~shutdown /\ fresh # <<>>
       /\ job' = [job EXCEPT ![t] = Head(fresh)]
       /\ fresh' = Tail(fresh)
       /\ spare' = s - 1 /\ active' = a + 1
       /\ pc' = [pc EXCEPT ![t] = "run"]
       /\ notified' = notified \ {t}

(* The mutex is free, so a thread created by schedule() enters its loop. *)
ThreadStart(t) ==
    /\ pc[t] = "start"
    /\ LoopBody(t, spare, active)
    /\ UNCHANGED <<shutdown, inShutdown, stopPc, accepted, rejected, ran>>

(* wait(g) returns after a notifyAll and the loop runs again. *)
ThreadWake(t) ==
    /\ pc[t] = "wait" /\ t \in notified
    /\ LoopBody(t, spare, active)
    /\ UNCHANGED <<shutdown, inShutdown, stopPc, accepted, rejected, ran>>

(* Mutant of ThreadDone: the leaving thread decrements the spare count. *)
ThreadDoneSwap(t) ==
    /\ pc[t] = "run"
    /\ ran' = ran \cup {job[t]}
    /\ IF spare >= MaxSpare \/ shutdown
       THEN /\ spare' = spare - 1
            /\ pc' = [pc EXCEPT ![t] = "exit"]
            /\ NotifyAll(pc', stopPc)
            /\ UNCHANGED <<active, fresh, job>>
       ELSE LoopBody(t, spare + 1, active - 1)
    /\ UNCHANGED <<shutdown, inShutdown, stopPc, accepted, rejected>>

(* c() returns (the connection's WorkLoop ends); lines 45-51. *)
ThreadDone(t) ==
    /\ pc[t] = "run"
    /\ ran' = ran \cup {job[t]}
    /\ IF spare >= MaxSpare \/ shutdown
       THEN /\ active' = active - 1
            /\ pc' = [pc EXCEPT ![t] = "exit"]
            /\ NotifyAll(pc', stopPc)
            /\ UNCHANGED <<spare, fresh, job>>
       ELSE LoopBody(t, spare + 1, active - 1)
    /\ UNCHANGED <<shutdown, inShutdown, stopPc, accepted, rejected>>

(* Line 62: a new thread is needed unless the spare threads outnumber  *)
(* the queued work.                                                       *)
NeedThreadOff(s, n) == s < n

NeedThread(s, n) == s < n + 1

(* Line 58: the pool is full. *)
PoolFull(a, s) == a + a >= MaxCount

(* conserver::do_accept (it returns early in shutdown) and SetupConAndGo:  *)
(* the accepted fd goes into a work item that schedule() queues.  When     *)
(* schedule() returns false the item is dropped with the fd in it.         *)
ScheduleNoNotify(w) ==
    /\ ~inShutdown /\ w \notin accepted
    /\ accepted' = accepted \cup {w}
    /\ IF PoolFull(active, spare)
       THEN rejected' = rejected \cup {w} /\ UNCHANGED <<spare, fresh, pc, notified>>
       ELSE IF ~NeedThread(spare, Len(fresh))
       THEN /\ fresh' = Append(fresh, w)
            /\ UNCHANGED <<rejected, spare, pc, notified>>
       ELSE IF \A t \in Threads : pc[t] # "none"
       THEN rejected' = rejected \cup {w} /\ UNCHANGED <<spare, fresh, pc, notified>>
       ELSE \E t \in {u \in Threads : pc[u] = "none"} :
              /\ pc' = [pc EXCEPT ![t] = "start"]
              /\ spare' = spare + 1
              /\ fresh' = Append(fresh, w)
              /\ UNCHANGED <<rejected, notified>>
    /\ UNCHANGED <<active, shutdown, job, inShutdown, stopPc, ran>>

Schedule(w) ==
    /\ ~inShutdown /\ w \notin accepted
    /\ accepted' = accepted \cup {w}
    /\ IF PoolFull(active, spare)
       THEN rejected' = rejected \cup {w} /\ UNCHANGED <<spare, fresh, pc, notified>>
       ELSE IF ~NeedThread(spare, Len(fresh))
       THEN /\ fresh' = Append(fresh, w)
            /\ NotifyAll(pc, stopPc)
            /\ UNCHANGED <<rejected, spare, pc>>
       \* std::thread throws: return false before queueing
       ELSE IF \A t \in Threads : pc[t] # "none"
       THEN rejected' = rejected \cup {w} /\ UNCHANGED <<spare, fresh, pc, notified>>
       ELSE \E t \in {u \in Threads : pc[u] = "none"} :
              /\ pc' = [pc EXCEPT ![t] = "start"]
              /\ spare' = spare + 1
              /\ fresh' = Append(fresh, w)
              /\ NotifyAll(pc, stopPc)
              /\ UNCHANGED rejected
    /\ UNCHANGED <<active, shutdown, job, inShutdown, stopPc, ran>>

(* The event base enters shutdown (evabase::in_shutdown); from then on    *)
(* do_accept accepts nothing.                                             *)
BeginShutdown ==
    /\ ~inShutdown
    /\ inShutdown' = TRUE
    /\ UNCHANGED <<spare, active, fresh, shutdown, pc, job, notified, stopPc,
                   accepted, rejected, ran>>

(* conserver::Shutdown calls stop() (lines 87-94): set m_shutdown, notify, *)
(* then wait until no thread is counted.                                  *)
Stop ==
    /\ inShutdown /\ stopPc = "idle"
    /\ shutdown' = TRUE
    /\ NotifyAll(pc, "idle")
    /\ stopPc' = IF spare + active = 0 THEN "done" ELSE "wait"
    /\ UNCHANGED <<spare, active, fresh, pc, job, inShutdown, accepted, rejected, ran>>

StopWake ==
    /\ stopPc = "wait" /\ Stopper \in notified
    /\ notified' = notified \ {Stopper}
    /\ stopPc' = IF spare + active = 0 THEN "done" ELSE "wait"
    /\ UNCHANGED <<spare, active, fresh, shutdown, pc, job, inShutdown, accepted, rejected, ran>>

Next ==
    \/ \E w \in Work : Schedule(w)
    \/ \E t \in Threads : ThreadStart(t) \/ ThreadWake(t) \/ ThreadDone(t)
    \/ BeginShutdown \/ Stop \/ StopWake

(* Every pool thread runs its steps once they are enabled; a work item    *)
(* (a client connection) ends, because its job times out on an idle      *)
(* client; stop() rechecks once it is notified.                           *)
Fairness ==
    /\ \A t \in Threads : WF_vars(ThreadStart(t)) /\ WF_vars(ThreadWake(t)) /\ WF_vars(ThreadDone(t))
    /\ WF_vars(StopWake)

Spec == Init /\ [][Next]_vars /\ Fairness
-----------------------------------------------------------------------------
TypeOK ==
    /\ spare \in Nat /\ active \in Nat
    /\ fresh \in Seq(Work)
    /\ pc \in [Threads -> {"none", "start", "wait", "run", "exit"}]
    /\ stopPc \in {"idle", "wait", "done"}
    /\ rejected \subseteq accepted /\ ran \subseteq accepted

(* The counters stop() waits on are the threads there are: m_nCurSpare    *)
(* counts the threads created and not running work (started or waiting), *)
(* m_nCurActive those running work.  They are changed in schedule(), at   *)
(* three places in ThreadAction and at its two exits.                     *)
CountersMatch ==
    /\ spare = Cardinality({t \in Threads : pc[t] \in {"start", "wait"}})
    /\ active = Cardinality({t \in Threads : pc[t] = "run"})

(* Until shutdown, every queued connection has a thread that is not busy  *)
(* and will take it: schedule() starts a thread unless the spare threads  *)
(* outnumber the queue, and a thread leaving after its work (spare >=     *)
(* m_nMaxSpare) leaves the spare count as it was.                         *)
QueuedWorkHasThread ==
    ~shutdown => Len(fresh) <= Cardinality({t \in Threads : pc[t] \in {"start", "wait"}})

(* The pool never runs more threads than m_nMaxCount: schedule() refuses  *)
(* work when the pool is full (spec.md: the worker pool has a bounded    *)
(* count, maxCount of tpool::Create).                                     *)
ThreadBound ==
    spare + active <= MaxCount

(* Every connection accepted into the pool is served, unless the pool is  *)
(* stopped first.                                                          *)
AcceptedRuns ==
    \A w \in Work : (w \in accepted /\ w \notin rejected) ~> (w \in ran \/ shutdown)

(* stop() returns: every thread notices m_shutdown, leaves its loop and   *)
(* notifies the waiting stop().                                           *)
StopReturns ==
    stopPc = "wait" ~> stopPc = "done"
====
