------------------------------ MODULE DnsSort ------------------------------
(***************************************************************************)
(* The address list a finished DNS lookup hands to the connection code    *)
(* (~tDnsResContext, caddrinfo.cc 298-356): the nodes of all tasks, in     *)
(* task order, TCP nodes only, without duplicates; then at most MAX_ADDR   *)
(* of the families the configuration accepts (conprotos); then v6 and v4   *)
(* alternating, starting with the preferred family.                        *)
(*                                                                         *)
(* The code is written as three loops over deques.  The operators below   *)
(* follow those loops (RECURSIVE); Reference states the intended result    *)
(* by positions, and SortCorrect says the two agree on every input.       *)
(***************************************************************************)
EXTENDS Integers, Sequences, SequencesExt

CONSTANTS
    Addrs,     \* addresses, records [fam |-> 4 or 6, tcp |-> BOOLEAN, ...]
    MaxAddr,   \* MAX_ADDR (10 in the code)
    Protos     \* the values a conprotos slot can take

(* A node is an address record; two nodes are the same when equal.        *)
(* The configuration is the pair cfg::conprotos[0], cfg::conprotos[1].    *)
Fam(proto) == CASE proto = "INET" -> {4} [] proto = "INET6" -> {6} [] OTHER -> {4, 6}

TakeFam(cp) == Fam(cp[1]) \cup Fam(cp[2])

Prefer6(cp) == cp[1] \in {"INET6", "UNSPEC"}

(* Lines 301-326: walk the tasks' node lists, skip non-TCP nodes and the  *)
(* nodes already kept.                                                    *)
Dedup(tasks) ==
    FoldLeft(LAMBDA acc, n : IF ~n.tcp \/ n \in ToSet(acc) THEN acc ELSE Append(acc, n),
             <<>>, FlattenSeq(tasks))

(* Lines 337-345: move the front of dedup to q4 or q6, or drop it, while *)
(* fewer than MAX_ADDR addresses are kept.                                *)
RECURSIVE SplitFamiliesOver(_, _, _, _)
SplitFamiliesOver(dedup, q4, q6, take) ==
    IF dedup = <<>> \/ Len(q4) + Len(q6) > MaxAddr THEN <<q4, q6>>
    ELSE LET n == Head(dedup) IN
         IF n.fam = 4 /\ 4 \in take THEN SplitFamiliesOver(Tail(dedup), Append(q4, n), q6, take)
         ELSE IF n.fam = 6 /\ 6 \in take THEN SplitFamiliesOver(Tail(dedup), q4, Append(q6, n), take)
         ELSE SplitFamiliesOver(Tail(dedup), q4, q6, take)

RECURSIVE SplitFamilies(_, _, _, _)
SplitFamilies(dedup, q4, q6, take) ==
    IF dedup = <<>> \/ Len(q4) + Len(q6) >= MaxAddr THEN <<q4, q6>>
    ELSE LET n == Head(dedup) IN
         IF n.fam = 4 /\ 4 \in take THEN SplitFamilies(Tail(dedup), Append(q4, n), q6, take)
         ELSE IF n.fam = 6 /\ 6 \in take THEN SplitFamilies(Tail(dedup), q4, Append(q6, n), take)
         ELSE SplitFamilies(Tail(dedup), q4, q6, take)

(* Lines 347-355: take the front of q6 when sel6 and of q4 otherwise, if *)
(* that queue is not empty, and flip sel6 on every round.                 *)
RECURSIVE Alternate(_, _, _)
Alternate(q4, q6, sel6) ==
    IF q4 = <<>> /\ q6 = <<>> THEN <<>>
    ELSE IF sel6 /\ q6 # <<>> THEN <<Head(q6)>> \o Alternate(q4, Tail(q6), ~sel6)
    ELSE IF ~sel6 /\ q4 # <<>> THEN <<Head(q4)>> \o Alternate(Tail(q4), q6, ~sel6)
    ELSE Alternate(q4, q6, ~sel6)

(* m_sortedInfos of the result. *)
SortedInfos(tasks, cp) ==
    LET q == SplitFamilies(Dedup(tasks), <<>>, <<>>, TakeFam(cp))
    IN  Alternate(q[1], q[2], Prefer6(cp))

(* The intended list, by positions: A is the first MaxAddr accepted       *)
(* addresses at their first occurrence; the preferred family takes the    *)
(* odd positions while both last, then the longer family follows.         *)
Reference(tasks, cp) ==
    LET flat  == FlattenSeq(tasks)
        first == {i \in DOMAIN flat : flat[i].tcp /\ \A j \in 1..(i - 1) : flat[j] # flat[i]}
        ok    == {i \in first : flat[i].fam \in TakeFam(cp)}
        idx   == SetToSortSeq(ok, <)
        A     == [i \in 1..(IF Len(idx) < MaxAddr THEN Len(idx) ELSE MaxAddr) |-> flat[idx[i]]]
        F(f)  == SelectSeq(A, LAMBDA n : n.fam = f)
        P     == IF Prefer6(cp) THEN F(6) ELSE F(4)
        O     == IF Prefer6(cp) THEN F(4) ELSE F(6)
        m     == IF Len(P) < Len(O) THEN Len(P) ELSE Len(O)
        rest  == IF Len(P) > m THEN P ELSE O
    IN  [i \in 1..Len(A) |->
           IF i > 2 * m THEN rest[i - m]
           ELSE IF i % 2 = 1 THEN P[(i + 1) \div 2] ELSE O[i \div 2]]

-----------------------------------------------------------------------------
(* The inputs: at most two tasks (the SRV target and the direct host,    *)
(* say), each with a node list of at most two nodes, and every pair of   *)
(* conprotos slots.                                                      *)
NodeLists == UNION {[1..n -> Addrs] : n \in 0..2}
TaskLists == UNION {[1..n -> NodeLists] : n \in 0..2}

(* The list the destructor builds is the intended one for every input:   *)
(* first occurrences, only the accepted families, capped at MAX_ADDR,    *)
(* preferred family first and alternating.                               *)
SortCorrect ==
    \A tasks \in TaskLists, cp \in Protos \X Protos :
        SortedInfos(tasks, cp) = Reference(tasks, cp)
=============================================================================
