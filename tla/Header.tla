------------------------------- MODULE Header -------------------------------
(***************************************************************************)
(* header::Load (header.cc), the parser of HTTP heads, as the downloader   *)
(* calls it on m_inBuf (dlcon.cc:501) and tcpconnect.cc on a proxy's       *)
(* answer: with unkHeaderMap = nullptr.                                    *)
(*                                                                         *)
(* A byte string is a sequence of symbols.  "CR", "LF", "SP" and ":" are   *)
(* one byte each; the method or protocol prefix ("HTTP/1.1", "GET " ...)   *)
(* is one symbol of its byte width, as is the " HTTP/1.1" ("VER") that    *)
(* ends a request line; any other symbol is a run of visible bytes: a     *)
(* header name, a number, a word, a URL.  Load returns a record: ret is   *)
(* the int of the code (0 = incomplete, < 0 = invalid, > 0 = the length   *)
(* of the head) or Crash, h the header fields (Null when unset) and code  *)
(* the status code.                                                       *)
(***************************************************************************)
EXTENDS Integers, Sequences, SequencesExt, TLC

Ws == {"SP", "CR", "LF"}                      \* SPACECHARS

(* The IFCUT chain: the prefixes Load accepts, their type and width. *)
StartOf ==
    ("HTTP/1.1" :> [type |-> "ANSWER", w |-> 8]) @@ ("HTTP/1.0" :> [type |-> "ANSWER", w |-> 8])
    @@ ("GET " :> [type |-> "GET", w |-> 4]) @@ ("HEAD " :> [type |-> "HEAD", w |-> 5])
    @@ ("POST " :> [type |-> "POST", w |-> 5]) @@ ("CONNECT " :> [type |-> "CONNECT", w |-> 8])

Width(x) == IF x \in DOMAIN StartOf THEN StartOf[x].w ELSE IF x = "VER" THEN 9 ELSE 1

RECURSIVE Bytes(_)
Bytes(s) == IF s = <<>> THEN 0 ELSE Width(Head(s)) + Bytes(Tail(s))

(* mapId2Headname: the fields header keeps (eHeadPos). *)
HeadNames == {"Connection", "Content-Length", "If-Modified-Since", "Range",
              "If-Range", "Content-Range", "Last-Modified", "Proxy-Connection",
              "Transfer-Encoding", "X-Original-Source", "Authorization",
              "X-Forwarded-For", "Location", "Content-Type", "Cache-Control"}
(* svtol on a word: the numbers the model sends, 0 for any other word. *)
Num == ("200" :> 200) @@ ("302" :> 302) @@ ("0" :> 0) @@ ("1" :> 1)
SvToL(x) == IF x \in DOMAIN Num THEN Num[x] ELSE 0

NoPos == "HEADPOS_MAX"
Null  == <<>>                                  \* h[i] == nullptr
Crash == -11                                 \* the process dies (SIGSEGV)

(* header::resolvePos: the position of a key, or HEADPOS_MAX. *)
ResolvePos(key) == IF Len(key) = 1 /\ key[1] \in HeadNames THEN key[1] ELSE NoPos

(* trimFront and trimBack of astrop.h with the SPACECHARS junk. *)
TrimFront(s) == LET k == SelectInSeq(s, LAMBDA x : x \notin Ws)
                IN  IF k = 0 THEN <<>> ELSE SubSeq(s, k, Len(s))
TrimBack(s)  == SubSeq(s, 1, SelectLastInSeq(s, LAMBDA x : x \notin Ws))
TrimBoth(s)  == TrimFront(TrimBack(s))

(* tSplitByStrStrict(input, "\r\n"): the slices between separators, with *)
(* an empty last slice when the input ends with one (Load calls it on a  *)
(* non-empty input only: Next() gives no slice for "").                  *)
RECURSIVE SplitRN(_)
SplitRN(s) ==
    LET ks == {k \in 1..Len(s) - 1 : s[k] = "CR" /\ s[k + 1] = "LF"}
    IN  IF ks = {} THEN <<s>>
        ELSE LET k == Min(ks)
             IN  <<SubSeq(s, 1, k - 1)>> \o SplitRN(SubSeq(s, k + 2, Len(s)))

(* tRemoteStatus(it, -1, false): the first word is the code (svtol, 0 if *)
(* not a number), the trimmed rest the message; both must be non-empty.  *)
RemoteStatus(t) ==
    LET k    == SelectInSeq(t, LAMBDA x : x \notin Ws)
        e    == SelectInSubSeq(t, k, Len(t), LAMBDA x : x \in Ws)
        code == IF k = 0 THEN 0 ELSE SvToL(t[k])
        msg  == IF k = 0 \/ e = 0 THEN <<>> ELSE TrimBoth(SubSeq(t, e, Len(t)))
    IN  IF code # 0 /\ msg # <<>> THEN code ELSE -1

(* The request line: trimmed, at least 10 bytes, the 9 of " HTTP/1.x"   *)
(* cut off the end, and a non-blank rest.                                *)
RECURSIVE DropBack(_, _)
DropBack(t, n) == IF n <= 0 \/ t = <<>> THEN t ELSE DropBack(Front(t), n - Width(Last(t)))
RequestLineOk(t) ==
    LET u == TrimBoth(t)
    IN  Bytes(u) >= 10 /\ TrimBack(DropBack(u, 9)) # <<>>

(* The byte offset of slice i: the slices before it and their "\r\n". *)
RECURSIVE Offset(_, _, _)
Offset(ps, i, base) == IF i = 1 THEN base ELSE Offset(ps, i - 1, base + Bytes(ps[i - 1]) + 2)

(* A mutant of EofOr: an unusable line is garbage even at the end.      *)
EofOrGarbage(more, err) == err

(* A line Load cannot use: an error if another slice follows ("is this  *)
(* because of EOF or because of garbage?"), else the head is incomplete. *)
EofOr(more, err) == IF more THEN err ELSE 0

(* The while loop of Load from slice i on, after the first line.  A line *)
(* that trimming moved is a continuation: it is appended to the field   *)
(* set last (strappend, which runs strlen on the slot, so on a slot     *)
(* that an empty value deleted it dereferences nullptr), and after an   *)
(* unknown key it is garbage (-2).  A line without ':' or with an empty *)
(* key is an error unless it is the last slice (then more may come).    *)
RECURSIVE Scan(_, _, _, _, _)
Scan(ps, i, h, last, base) ==
    IF i > Len(ps) THEN [ret |-> 0, h |-> h]
    ELSE LET it   == ps[i]
             sv   == TrimBoth(it)
             more == i < Len(ps)
             c    == SelectInSeq(sv, LAMBDA x : x = ":")
             key  == TrimBack(SubSeq(sv, 1, c - 1))
             val  == TrimFront(SubSeq(sv, c + 1, Len(sv)))
             pos  == ResolvePos(key)
         IN  IF it = <<>> THEN [ret |-> IF more THEN Offset(ps, i + 1, base) ELSE 0, h |-> h]
             ELSE IF sv # <<>> /\ it[1] \in Ws
                  THEN IF last = NoPos THEN [ret |-> -2, h |-> h]
                       ELSE IF h[last] = Null THEN [ret |-> Crash, h |-> h]
                       ELSE Scan(ps, i + 1, [h EXCEPT ![last] = @ \o <<"SP">> \o sv], last, base)
             ELSE IF c = 0 THEN [ret |-> EofOr(more, -4), h |-> h]
             ELSE IF key = <<>> THEN [ret |-> EofOr(more, -5), h |-> h]
             ELSE IF pos = NoPos THEN Scan(ps, i + 1, h, NoPos, base)
             ELSE Scan(ps, i + 1, [h EXCEPT ![pos] = val], pos, base)

(* header::Load(input, nullptr). *)
Load(s) ==
    LET st == IF s = <<>> THEN [type |-> "INVALID", w |-> 0]
              ELSE IF Head(s) \in DOMAIN StartOf THEN StartOf[Head(s)]
              ELSE [type |-> "INVALID", w |-> 0]
        ps == IF Tail(s) = <<>> THEN <<>> ELSE SplitRN(Tail(s))
        none == [n \in HeadNames |-> Null]
        code == IF ps = <<>> \/ st.type # "ANSWER" THEN -1 ELSE RemoteStatus(ps[1])
        firstOk == IF st.type = "ANSWER" THEN code >= 0 ELSE RequestLineOk(ps[1])
        r == Scan(ps, 2, none, NoPos, st.w)
    IN  IF Bytes(s) < 9 THEN [ret |-> 0, h |-> none, code |-> -1]
        ELSE IF st.type = "INVALID" THEN [ret |-> -1, h |-> none, code |-> -1]
        ELSE IF ps = <<>> \/ ~firstOk THEN [ret |-> 0, h |-> none, code |-> code]
        ELSE [ret |-> r.ret, h |-> r.h, code |-> code]
=============================================================================
