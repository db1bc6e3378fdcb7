-------------------------------- MODULE Dns --------------------------------
(***************************************************************************)
(* The asynchronous resolver with its result cache (caddrinfo.cc).         *)
(*                                                                         *)
(* Callers on any thread post a Resolve request to the IO thread           *)
(* (evabase::Post); everything else runs on that one thread, so each      *)
(* handler below is one atomic step: the posted cb_invoke_dns_res, the     *)
(* c-ares callbacks cb_srv_query and cb_addrinfo, the tDnsResContext      *)
(* destructor that commits the result, and the shutdown in MainLoop.       *)
(*                                                                         *)
(* Data abstraction: an address list is reduced to whether a task found    *)
(* any address; a result is a record of its target, the number of the      *)
(* lookup that made it, its kind (addresses or which error) and m_expTime. *)
(***************************************************************************)
EXTENDS Integers, Sequences, FiniteSets, Functions

CONSTANTS
    Callers,       \* threads calling CAddrInfo::Resolve
    Names,         \* host names
    Ports,         \* port numbers
    Statuses,      \* c-ares status codes a query may end with
    MaxReq,        \* requests per caller
    MaxSrv,        \* SRV targets a _http._tcp reply may list
    MaxTime,       \* last second of the run
    CacheTime,     \* cfg::dnscachetime
    ErrKeepMax,    \* DNS_ERROR_KEEP_MAX_TIME
    CacheMax,      \* DNS_CACHE_MAX
    MaxPerRequest  \* DNS_MAX_PER_REQUEST

ASSUME Statuses \subseteq {"SUCCESS", "ENOTFOUND", "ECANCELLED", "ENOMEM", "ETIMEOUT"}

Targets == Names \X Ports

(* Mutant of MakeHostPortKey: the port is left out of the key. *)
MakeHostPortKeyNoPort(h, p) == <<h>>

(* makeHostPortKey: the two port bytes followed by the host name *)
MakeHostPortKey(h, p) == <<p, h>>

Keys == {MakeHostPortKey(t[1], t[2]) : t \in Targets}
KeyOf(t) == MakeHostPortKey(t[1], t[2])

NoEntry == [kind |-> "none"]
NoCtx == [id |-> 0]
NoExp == -1    \* m_expTime left at MAX_VAL(time_t)

Result(t, id, kind, exp) == [t |-> t, id |-> id, kind |-> kind, exp |-> exp]
LocalError(t, kind) == Result(t, 0, kind, NoExp)

VARIABLES
    now,         \* GetTime()
    inShutdown,  \* evabase::in_shutdown
    resolverOK,  \* evabase::GetDnsBase() is set
    inq,         \* incoming_q: callers whose Resolve is posted, in order
    cst,         \* cst[c]: "idle", "posted" or "waiting" (in some cbs list)
    target,      \* target[c]: the (host, port) of c's current request
    nreq,        \* nreq[c]: requests c made so far
    ans,         \* ans[c]: the last answer c got, when and from where
    answered,    \* answered[c]: times c's current request was answered
    cache,       \* dns_cache: key -> result
    expq,        \* dns_exp_q: the keys of dns_cache in insertion order
    ctx,         \* g_active_resolver_index: key -> the running tDnsResContext
    nlook,       \* nlook[t]: lookups of t started (numbers the results)
    produced     \* history: produced[t] = the results lookups of t made

vars == <<now, inShutdown, resolverOK, inq, cst, target, nreq, ans, answered,
          cache, expq, ctx, nlook, produced>>

Init ==
    /\ now = 0
    /\ inShutdown = FALSE
    /\ resolverOK \in BOOLEAN      \* CheckDnsChange: ares_init may fail
    /\ inq = <<>>
    /\ cst = [c \in Callers |-> "idle"]
    /\ target = [c \in Callers |-> CHOOSE t \in Targets : TRUE]
    /\ nreq = [c \in Callers |-> 0]
    /\ ans = [c \in Callers |-> [res |-> NoEntry, src |-> "none"]]
    /\ answered = [c \in Callers |-> 0]
    /\ cache = [k \in Keys |-> NoEntry]
    /\ expq = <<>>
    /\ ctx = [k \in Keys |-> NoCtx]
    /\ nlook = [t \in Targets |-> 0]
    /\ produced = [t \in Targets |-> {}]

(* runCallbacks: every reporter in S is called once with r. *)
RunCallbacks(S, r, src) ==
    /\ cst' = [c \in Callers |-> IF c \in S THEN "idle" ELSE cst[c]]
    /\ ans' = [c \in Callers |->
                 IF c \in S THEN [res |-> r, src |-> src] ELSE ans[c]]
    /\ answered' = [c \in Callers |-> IF c \in S THEN answered[c] + 1 ELSE answered[c]]

(* Mutant of ClearWaiters: the list is not cleared after the calls. *)
ClearWaitersKeep(x) == x

(* cbs.clear() at the end of runCallbacks *)
ClearWaiters(x) == [x EXCEPT !.cbs = {}]

(* A caller thread calls Resolve, which posts cb_invoke_dns_res. *)
Resolve(c, t) ==
    /\ cst[c] = "idle" /\ nreq[c] < MaxReq
    /\ cst' = [cst EXCEPT ![c] = "posted"]
    /\ target' = [target EXCEPT ![c] = t]
    /\ nreq' = [nreq EXCEPT ![c] = @ + 1]
    /\ answered' = [answered EXCEPT ![c] = 0]
    /\ inq' = Append(inq, c)
    /\ UNCHANGED <<now, inShutdown, resolverOK, ans, cache, expq, ctx, nlook, produced>>

(* Mutant of JoinWaiters: the reporter is moved out before it is queued. *)
JoinWaitersLost(x, c) == x

(* Join the waiting crowd of a running lookup. *)
JoinWaiters(x, c) == [x EXCEPT !.cbs = @ \cup {c}]

(* cb_invoke_dns_res on the IO thread, for the caller at the queue head.  *)
HandleResolve ==
    /\ inq # <<>>
    /\ LET c == Head(inq)
           t == target[c]
           k == KeyOf(t)
       IN  /\ inq' = Tail(inq)
           /\ CASE inShutdown ->
                     /\ RunCallbacks({c}, LocalError(t, "syserr"), "local")
                     /\ UNCHANGED <<ctx, nlook>>
                [] CacheTime > 0 /\ cache[k] # NoEntry ->
                     /\ RunCallbacks({c}, cache[k], "cache")
                     /\ UNCHANGED <<ctx, nlook>>
                [] ctx[k] # NoCtx ->
                     /\ ctx' = [ctx EXCEPT ![k] = JoinWaiters(@, c)]
                     /\ cst' = [cst EXCEPT ![c] = "waiting"]
                     /\ UNCHANGED <<ans, answered, nlook>>
                [] ~resolverOK ->
                     /\ RunCallbacks({c}, LocalError(t, "baddns"), "local")
                     /\ UNCHANGED <<ctx, nlook>>
                [] OTHER ->
                     /\ nlook' = [nlook EXCEPT ![t] = @ + 1]
                     /\ ctx' = [ctx EXCEPT ![k] =
                                  [id |-> nlook[t] + 1, t |-> t, cbs |-> {c},
                                   srv |-> "pending", tasks |-> <<>>]]
                     /\ cst' = [cst EXCEPT ![c] = "waiting"]
                     /\ UNCHANGED <<ans, answered>>
    /\ UNCHANGED <<now, inShutdown, resolverOK, target, nreq, cache, expq, produced>>

(* The keys dns_cache holds. *)
Cached(c) == {k \in Keys : c[k] # NoEntry}

(* Mutant of CleanDnsCache: the queue is popped but the entry stays. *)
RECURSIVE CleanDnsCacheNoErase(_, _)
CleanDnsCacheNoErase(c, q) ==
    IF q # <<>> /\ (Cardinality(Cached(c)) >= CacheMax - 1 \/ c[Head(q)].exp >= now)
    THEN CleanDnsCacheNoErase(c, Tail(q))
    ELSE <<c, q>>

(* clean_dns_cache: pop the front of dns_exp_q, erasing its entry, while  *)
(* the cache is nearly full or the front entry's m_expTime >= now.       *)
RECURSIVE CleanDnsCache(_, _)
CleanDnsCache(c, q) ==
    IF q # <<>> /\ (Cardinality(Cached(c)) >= CacheMax - 1 \/ c[Head(q)].exp >= now)
    THEN CleanDnsCache([c EXCEPT ![Head(q)] = NoEntry], Tail(q))
    ELSE <<c, q>>

(* The first status of the tasks, in order, that is not ARES_SUCCESS. *)
ErrStatus(tasks) ==
    LET bad == SelectSeq(tasks, LAMBDA s : s # "SUCCESS")
    IN  IF bad = <<>> THEN "SUCCESS" ELSE Head(bad)

(* Mutant of ErrKind: the c-ares status is reported as it is. *)
ErrKindRaw(st) == st

ErrKind(st) ==
    CASE st = "ENOTFOUND"  -> "notfound"
      [] st = "ECANCELLED" -> "temp"
      [] st = "ENOMEM"     -> "nomem"
      [] st = "SUCCESS"    -> "nostatus"   \* tErrnoFmter(ARES_SUCCESS)
      [] OTHER             -> "other"

MinOf(a, b) == IF a < b THEN a ELSE b

(* ~tDnsResContext, when the last reference to context x of key k goes:  *)
(* unregister it, merge the tasks' results, keep addresses and errors    *)
(* other than not-found / temporary / out-of-memory in the cache, and    *)
(* call the reporters still in x.cbs.  `early' is a result reportNewError *)
(* handed to them in the same step (NoEntry if none).                     *)
Commit(k, x, early) ==
    LET found == \E i \in DOMAIN x.tasks : x.tasks[i] = "SUCCESS"
        kind == IF found THEN "addrs" ELSE ErrKind(ErrStatus(x.tasks))
        exp == CASE kind = "addrs" -> now + CacheTime
                 [] kind \in {"other", "nostatus"} -> now + MinOf(CacheTime, ErrKeepMax)
                 [] OTHER          -> NoExp
        r == Result(x.t, x.id, kind, exp)
        cl == CleanDnsCache(cache, expq)
    IN  /\ ctx' = [ctx EXCEPT ![k] = NoCtx]
        /\ IF early = NoEntry
           THEN /\ RunCallbacks(x.cbs, r, "lookup")
                /\ produced' = [produced EXCEPT ![x.t] = @ \cup {r}]
           ELSE /\ RunCallbacks(x.cbs, early, "lookup")
                /\ produced' = [produced EXCEPT ![x.t] = @ \cup {early, r}]
        /\ IF kind \in {"addrs", "other", "nostatus"} /\ CacheTime > 0
           THEN /\ cache' = IF cl[1][k] = NoEntry THEN [cl[1] EXCEPT ![k] = r] ELSE cl[1]
                /\ expq' = Append(cl[2], k)
           ELSE UNCHANGED <<cache, expq>>

(* Tasks cb_srv_query starts: one ares_getaddrinfo per SRV target, at    *)
(* most DNS_MAX_PER_REQUEST, and one for the host itself unless it was   *)
(* among the SRV targets.                                                *)
NTasks(nsrv, incl) == MinOf(nsrv, MaxPerRequest) + (IF incl THEN 0 ELSE 1)

(* cb_srv_query for the context of key k. *)
SrvQueryDone(k) ==
    /\ ctx[k] # NoCtx /\ ctx[k].srv = "pending"
    /\ \E st \in Statuses :
         IF st \in {"ECANCELLED", "ENOMEM"}
         THEN LET r == Result(ctx[k].t, ctx[k].id, ErrKind(st), NoExp)
              IN  \* reportNewError, then the context dies with no tasks
                  Commit(k, ctx[k], r)
         ELSE \E nsrv \in (IF st = "SUCCESS" THEN 0..MaxSrv ELSE {0}),
                 incl \in BOOLEAN :
                /\ incl => nsrv > 0
                /\ ctx' = [ctx EXCEPT ![k].srv = "done",
                                      ![k].tasks = [i \in 1..NTasks(nsrv, incl) |-> "pending"]]
                /\ UNCHANGED <<cst, ans, answered, cache, expq, produced>>
    /\ UNCHANGED <<now, inShutdown, resolverOK, inq, target, nreq, nlook>>

(* cb_addrinfo for task i of the context of key k; when it was the last  *)
(* reference, the context is destroyed.                                   *)
AddrInfoDone(k) ==
    /\ ctx[k] # NoCtx /\ ctx[k].srv = "done"
    /\ \E i \in DOMAIN ctx[k].tasks, st \in Statuses :
         /\ ctx[k].tasks[i] = "pending"
         /\ LET x == [ctx[k] EXCEPT !.tasks[i] = st]
            IN  IF \A j \in DOMAIN x.tasks : x.tasks[j] # "pending"
                THEN Commit(k, x, NoEntry)
                ELSE /\ ctx' = [ctx EXCEPT ![k] = x]
                     /\ UNCHANGED <<cst, ans, answered, cache, expq, produced>>
    /\ UNCHANGED <<now, inShutdown, resolverOK, inq, target, nreq, nlook>>

(* MainLoop after the event loop ends: in_shutdown, the DNS base is shut  *)
(* down and RejectPendingDnsRequests answers every waiting reporter.     *)
Shutdown ==
    /\ ~inShutdown
    /\ inShutdown' = TRUE
    /\ resolverOK' = FALSE
    /\ LET running == {k \in Keys : ctx[k] # NoCtx}
           S == UNION {ctx[k].cbs : k \in running}
       IN  /\ cst' = [c \in Callers |-> IF c \in S THEN "idle" ELSE cst[c]]
           /\ ans' = [c \in Callers |->
                        IF c \in S
                        THEN [res |-> LocalError(target[c], "shutdown"), src |-> "local"]
                        ELSE ans[c]]
           /\ answered' = [c \in Callers |-> IF c \in S THEN answered[c] + 1 ELSE answered[c]]
           /\ ctx' = [k \in Keys |-> IF k \in running THEN ClearWaiters(ctx[k]) ELSE ctx[k]]
    /\ UNCHANGED <<now, inq, target, nreq, cache, expq, nlook, produced>>

Tick ==
    /\ now < MaxTime
    /\ now' = now + 1
    /\ UNCHANGED <<inShutdown, resolverOK, inq, cst, target, nreq, ans, answered,
                   cache, expq, ctx, nlook, produced>>

Next ==
    \/ \E c \in Callers, t \in Targets : Resolve(c, t)
    \/ HandleResolve
    \/ \E k \in Keys : SrvQueryDone(k) \/ AddrInfoDone(k)
    \/ Shutdown
    \/ Tick

(* The IO thread runs every posted action and every c-ares callback; c-ares *)
(* calls each query's callback once it ends (reply, timeout or cancel).    *)
Fairness ==
    /\ WF_vars(HandleResolve)
    /\ \A k \in Keys : WF_vars(SrvQueryDone(k)) /\ WF_vars(AddrInfoDone(k))

Spec == Init /\ [][Next]_vars /\ Fairness
-----------------------------------------------------------------------------
(* Properties *)

Kinds == {"addrs", "notfound", "temp", "nomem", "other", "nostatus",
          "syserr", "baddns", "shutdown"}

TypeOK ==
    /\ now \in 0..MaxTime
    /\ inShutdown \in BOOLEAN /\ resolverOK \in BOOLEAN
    /\ inq \in Seq(Callers)
    /\ cst \in [Callers -> {"idle", "posted", "waiting"}]
    /\ target \in [Callers -> Targets]
    /\ nreq \in [Callers -> 0..MaxReq]
    /\ answered \in [Callers -> 0..2]
    /\ \A c \in Callers : ans[c].res.kind \in Kinds \cup {"none"}
    /\ \A k \in Cached(cache) : cache[k].kind \in Kinds /\ cache[k].t \in Targets
    /\ expq \in Seq(Keys)
    /\ \A k \in Keys : ctx[k] # NoCtx =>
          /\ ctx[k].cbs \subseteq Callers
          /\ ctx[k].srv \in {"pending", "done"}
          /\ \A i \in DOMAIN ctx[k].tasks : ctx[k].tasks[i] \in Statuses \cup {"pending"}

(* Every reporter handed to Resolve is called exactly once per request:   *)
(* runCallbacks clears the list after reportNewError and                  *)
(* RejectPendingDnsRequests, so the destructor's final runCallbacks never *)
(* reaches a caller a second time.                                        *)
AnsweredOnce == \A c \in Callers : answered[c] <= 1

(* dns_cache and dns_exp_q describe the same keys, each queued once (the  *)
(* ASSERT in clean_dns_cache); a duplicate queue entry would make         *)
(* dns_cache.erase run on an erased iterator.                              *)
CacheIndexConsistent ==
    /\ IsInjective(expq)
    /\ Range(expq) = Cached(cache)

(* The resolver implements the DnsService promise. *)
Svc == INSTANCE DnsService WITH
    Targets <- Targets,
    LocalErrors <- {LocalError(t, e) : t \in Targets, e \in {"syserr", "baddns", "shutdown"}},
    None <- <<>>,
    want <- [c \in Callers |-> IF cst[c] = "idle" THEN <<>> ELSE target[c]],
    got <- [c \in Callers |-> IF ans[c].res = NoEntry THEN <<>> ELSE ans[c].res],
    known <- produced

ServiceSafe == Svc!SafeSpec
ServiceLive == Svc!Responsive
=============================================================================
