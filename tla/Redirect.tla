------------------------------ MODULE Redirect ------------------------------
(***************************************************************************)
(* Where a download job's next request goes after a redirect: the URL    *)
(* state of tDlJob (m_bBackendMode, m_pCurBackend, m_remoteUri,          *)
(* m_nRedirRemaining), RewriteSource, which Location parsing it relies on  *)
(* (tHttpUrl::SetHttpUrl), and the request line AppendRequest builds.     *)
(*                                                                         *)
(* A string is a sequence of characters from a small alphabet: "/", "a"   *)
(* for an alphanumeric character, "-" for another visible one, "_", and   *)
(* "http://" as one symbol for the scheme prefix.  UrlUnescape and         *)
(* UrlEscape change none of these characters.  The reference resolution   *)
(* is RFC 3986, section 5.2, for references without query or fragment.    *)
(***************************************************************************)
EXTENDS Integers, Sequences, SequencesExt

Chars == {"/", "a", "-", "_"}
NoBackend == 0

(* The backends of the job's repository (tRepoData::m_backends): a host  *)
(* and a base directory that ends with '/'.                              *)
Backends == <<[host |-> <<"a">>, path |-> <<"/", "a", "/">>],
              [host |-> <<"a", "-", "a">>, path |-> <<"/">>]>>

(* tHttpUrl::SetHttpUrl(loc, false) over the alphabet: the scheme or an   *)
(* alphanumeric start make the host begin at once, as does any other     *)
(* start without "://" in the string; leading slashes are skipped, the    *)
(* host runs to the next '/', the path keeps one slash of the run that     *)
(* follows ("/" when there is none), and a host starting with '_' is      *)
(* refused.                                                               *)
SetHttpUrl(loc) ==
    LET l   == Len(loc)
        h0  == IF l > 0 /\ loc[1] = "http://" THEN 2 ELSE 1
        hs  == LET k == SelectInSubSeq(loc, h0, l, LAMBDA x : x # "/")
               IN  IF k = 0 THEN l + 1 ELSE k
        he  == SelectInSubSeq(loc, hs, l, LAMBDA x : x = "/")
        ps  == IF he = 0 THEN 0
               ELSE LET k == SelectInSubSeq(loc, he, l, LAMBDA x : x # "/")
                    IN  (IF k = 0 THEN l + 1 ELSE k) - 1
        host == SubSeq(loc, hs, IF he = 0 THEN l ELSE he - 1)
    IN  IF l = 0 \/ hs > l \/ loc[hs] = "_" THEN [ok |-> FALSE]
        ELSE [ok |-> TRUE, host |-> host,
              path |-> IF he = 0 THEN <<"/">> ELSE SubSeq(loc, ps, l)]

(* The job's state: mode, backend index, m_remoteUri and the budget. *)
Job(bmode, be, host, path, redir) ==
    [bmode |-> bmode, be |-> be, uri |-> [host |-> host, path |-> path], redir |-> redir]

(* GetPeerHost and the path AppendRequest writes without a proxy: the     *)
(* backend's base directory, then m_remoteUri.sPath.                      *)
RequestUrl(j) ==
    IF j.be # NoBackend
    THEN [host |-> Backends[j.be].host, path |-> Backends[j.be].path \o j.uri.path]
    ELSE j.uri

(* A mutant of UseUrl: the backend pointer is left as it was. *)
UseUrlKeepBackend(j, u) ==
    [j EXCEPT !.bmode = FALSE, !.uri = [host |-> u.host, path |-> u.path]]

(* The is_url branch: backend probing stops and the parsed URL is the   *)
(* new m_remoteUri.                                                      *)
UseUrl(j, u) ==
    [j EXCEPT !.bmode = FALSE, !.be = NoBackend, !.uri = [host |-> u.host, path |-> u.path]]

(* tDlJob::RewriteSource(loc): [ok, job]. *)
RewriteSource(j, loc) ==
    LET j1      == [j EXCEPT !.redir = @ - 1]
        absPath == loc # <<>> /\ loc[1] = "/"
        u       == IF absPath THEN [ok |-> FALSE] ELSE SetHttpUrl(loc)
        base    == IF j1.be # NoBackend /\ j1.bmode
                   THEN [host |-> Backends[j1.be].host, path |-> Backends[j1.be].path \o j1.uri.path]
                   ELSE j1.uri
        slash   == SelectLastInSeq(base.path, LAMBDA x : x = "/")
        rel     == [host |-> base.host,
                    path |-> IF slash = 0 THEN <<"/">> \o loc ELSE SubSeq(base.path, 1, slash) \o loc]
    IN  IF j1.redir <= 0 \/ loc = <<>> THEN [ok |-> FALSE, job |-> j1]
        ELSE IF u.ok
             THEN [ok |-> TRUE, job |-> UseUrl(j1, u)]
        ELSE IF j1.bmode /\ j1.be = NoBackend THEN [ok |-> FALSE, job |-> j1]
        ELSE IF absPath
             THEN [ok |-> TRUE, job |-> [j1 EXCEPT !.bmode = FALSE,
                                                   !.uri = [host |-> base.host, path |-> loc]]]
        ELSE [ok |-> TRUE, job |-> [j1 EXCEPT !.bmode = FALSE, !.uri = rel]]
-----------------------------------------------------------------------------
(* The inputs: the jobs AddJob creates (a URL, or a backend repository    *)
(* with a non-empty rest path, whose backend SetupJobConfig has chosen    *)
(* before the request that is redirected) and the Location values: an    *)
(* absolute URL, an absolute path, or a relative reference.              *)
Hosts    == {<<"a">>, <<"a", "-", "a">>}
AbsPaths == {<<"/">>, <<"/", "a">>, <<"/", "a", "/", "a">>, <<"/", "-", "/">>}
RelRefs  == {<<"a">>, <<"a", "/", "a">>, <<"-", "/", "a">>, <<"_", "a">>}
Locations ==
    {[kind |-> "url", host |-> h, path |-> p] : h \in Hosts, p \in AbsPaths}
    \cup {[kind |-> "abs", host |-> <<>>, path |-> p] : p \in AbsPaths}
    \cup {[kind |-> "rel", host |-> <<>>, path |-> r] : r \in RelRefs}
Text(l) == CASE l.kind = "url" -> <<"http://">> \o l.host \o l.path
             [] OTHER          -> l.path

StartJobs(budget) ==
    {Job(FALSE, NoBackend, h, p, budget) : h \in Hosts, p \in AbsPaths}
    \cup {Job(TRUE, b, <<>>, r, budget) : b \in DOMAIN Backends, r \in RelRefs}

(* RFC 3986, 5.2.2 and 5.2.3: the target of reference l against base. *)
Resolve(base, l) ==
    CASE l.kind = "url" -> [host |-> l.host, path |-> l.path]
      [] l.kind = "abs" -> [host |-> base.host, path |-> l.path]
      [] OTHER          ->
           LET k == SelectLastInSeq(base.path, LAMBDA x : x = "/")
           IN  [host |-> base.host,
                path |-> IF k = 0 THEN <<"/">> \o l.path ELSE SubSeq(base.path, 1, k) \o l.path]

(* The Locations the code resolves as RFC 3986 does: an absolute URL, or *)
(* an absolute path while no backend base is in use.  A relative         *)
(* reference and an absolute path in backend mode are disagreements.     *)
Resolvable(j, l) == l.kind = "url" \/ (l.kind = "abs" /\ j.be = NoBackend)

(* A job with budget b that AddJob created follows up to two resolvable  *)
(* redirects while --m_nRedirRemaining stays positive, each to the URL   *)
(* the Location resolves to against the URL of the redirected request:  *)
(* host and request path, with the backend state RewriteSource leaves.  *)
FollowsLocation(b) ==
    \A j \in StartJobs(b), l1 \in Locations, l2 \in Locations :
        LET r1 == RewriteSource(j, Text(l1))
            r2 == RewriteSource(r1.job, Text(l2))
        IN  Resolvable(j, l1) =>
              /\ r1.ok = (b > 1)
              /\ r1.ok => RequestUrl(r1.job) = Resolve(RequestUrl(j), l1)
              /\ (r1.ok /\ Resolvable(r1.job, l2)) =>
                    /\ r2.ok = (b > 2)
                    /\ r2.ok => RequestUrl(r2.job) = Resolve(RequestUrl(r1.job), l2)
=============================================================================
