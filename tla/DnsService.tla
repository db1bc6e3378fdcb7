---------------------------- MODULE DnsService ----------------------------
(***************************************************************************)
(* What the resolver layer (CAddrInfo::Resolve, caddrinfo.cc) promises its *)
(* callers, without the c-ares machinery: every request for a target       *)
(* (host, port) is answered once, either                                   *)
(*   - by a lookup of that target that finishes now, whose result goes to *)
(*     all callers of the target it answers at the same time, or           *)
(*   - with a result an earlier lookup of the same target produced (the    *)
(*     cache), or                                                          *)
(*   - with a local error (resolver missing, shutting down).               *)
(***************************************************************************)
CONSTANTS
    Callers,      \* threads that call CAddrInfo::Resolve
    Targets,      \* (host, port) pairs
    LocalErrors,  \* results that no lookup produced
    None          \* no request outstanding

VARIABLES
    want,   \* want[c]: the target c waits for, or None
    got,    \* got[c]: the last result c was handed
    known   \* known[t]: the results lookups of t produced so far

vars == <<want, got, known>>

Init ==
    /\ want = [c \in Callers |-> None]
    /\ got = [c \in Callers |-> None]
    /\ known = [t \in Targets |-> {}]

Ask(c, t) ==
    /\ want[c] = None
    /\ want' = [want EXCEPT ![c] = t]
    /\ UNCHANGED <<got, known>>

(* The callers answered in this step. *)
Answered == {c \in Callers : want'[c] # want[c]}

(* A lookup of t ends: it yields new results, and the callers it answers *)
(* all waited for t and all get the same one of them.                    *)
Lookup(t) ==
    /\ \A u \in Targets \ {t} : known'[u] = known[u]
    /\ known[t] \subseteq known'[t] /\ known'[t] # known[t]
    /\ \A c \in Answered :
         want[c] = t /\ want'[c] = None /\ got'[c] \in known'[t] \ known[t]
    /\ \A c, d \in Answered : got'[c] = got'[d]
    /\ \A c \in Callers \ Answered : got'[c] = got[c]

(* A cached result: one that an earlier lookup of the same target made. *)
Reuse(c) ==
    /\ want[c] # None
    /\ \E r \in known[want[c]] :
         /\ got' = [got EXCEPT ![c] = r]
         /\ want' = [want EXCEPT ![c] = None]
    /\ UNCHANGED known

(* Waiting callers are answered with a local error. *)
Fail ==
    /\ \A c \in Answered : want[c] # None /\ want'[c] = None /\ got'[c] \in LocalErrors
    /\ \A c \in Callers \ Answered : got'[c] = got[c]
    /\ UNCHANGED known

Next ==
    \/ \E c \in Callers, t \in Targets : Ask(c, t)
    \/ \E t \in Targets : Lookup(t)
    \/ \E c \in Callers : Reuse(c)
    \/ Fail

(* Any step that answers c. *)
Answer(c) == want[c] # None /\ want'[c] = None

SafeSpec == Init /\ [][Next]_vars

Spec == SafeSpec /\ \A c \in Callers : WF_vars(Answer(c))

(* Answer(c) is enabled exactly while c waits, so the fairness of Spec     *)
(* says: every request is eventually answered.                             *)
Responsive == \A c \in Callers : (want[c] # None) ~> (want[c] = None)
=============================================================================
