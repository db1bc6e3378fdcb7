----------------------------- MODULE FileItem -----------------------------
(***************************************************************************)
(* The storage-backed cache item of one key K (fileitem.cc, fileitem.h)   *)
(* and the files it keeps in the cache directory.                          *)
(*                                                                         *)
(* Every method of fileitem / fileitem_with_storage that changes state is *)
(* an operator from the item record (and the file system) to the new item *)
(* record (and file system).  The callers (registry, client job, download *)
(* job in CacheCore) run them inside their own atomic steps, exactly as    *)
(* the code calls them with the item mutex held.                          *)
(*                                                                         *)
(* Data abstraction: a body byte is the number of the remote version it   *)
(* was downloaded from (0 for a hole that nobody wrote); a Last-Modified   *)
(* date is the version number; a file is an inode holding a sequence of   *)
(* such bytes, and a path names an inode (0: no file).                     *)
(***************************************************************************)
EXTENDS Integers, Sequences

CONSTANTS
    Versions,   \* remote versions of the resource at K, numbered by date
    Size        \* Size[v]: byte length of version v

ASSUME Versions \subseteq (Nat \ {0}) /\ Size \in [Versions -> Nat]

(* fileitem::FiStatus *)
FRESH == 0
INITED == 1
DLPENDING == 2
DLGOTHEAD == 3
DLRECEIVING == 4
COMPLETE == 5
DLERROR == 6
DLSTOP == 7

(* fileitem::EDestroyMode *)
KEEP == 0
DELETE_KEEP_HEAD == 1
TRUNCATE == 2
ABANDONED == 3
DELETE == 4

NoDate == 0          \* tHttpDate that is not set
KPath == "K"         \* the item's relative path, <cachedir>/K

(* The content of version v as the downloader receives it. *)
Content(v) == [n \in 1..Size[v] |-> v]

(* The K.head file: absent, unparsable, or "HTTP/1.1 200 OK" with an      *)
(* optional Content-Length (len = -1 when missing) and Last-Modified.      *)
NoHeadFile == [kind |-> "none", len |-> -1, date |-> NoDate]
BadHeadFile == [kind |-> "bad", len |-> -1, date |-> NoDate]
HeadFile(len, date) == [kind |-> "ok", len |-> len, date |-> date]

(* A fresh item as TFileItemRegistry::Create's regnew makes it: the ctor   *)
(* defaults of fileitem.h plus usercount 1 and the request's attributes.  *)
NewItem(vol) ==
    [status |-> FRESH, sc |-> -1, cl |-> -1, sci |-> -1, date |-> NoDate,
     code |-> 500, vol |-> vol, mustReplace |-> FALSE, refs |-> 0,
     users |-> 1, destroy |-> KEEP, wfd |-> 0, path |-> KPath,
     started |-> "never", owned |-> TRUE]

-----------------------------------------------------------------------------
(* The cache directory: dir maps a path to an inode (0 = no file), head    *)
(* maps a path to its .head file, data[n] is the content of inode n.      *)

BodySize(fs, p) == IF fs.dir[p] = 0 THEN -1 ELSE Len(fs.data[fs.dir[p]])

(* open(O_CREAT) / rename of a new temp file: a new empty inode at p. *)
NewFile(fs, p) ==
    [fs EXCEPT !.dir[p] = Len(fs.data) + 1, !.data = Append(@, <<>>)]

(* Mutant of WriteAt: the descriptor is positioned one byte too far. *)
WriteAtShifted(s, pos, b) ==
    [n \in 1..IF pos + 2 > Len(s) THEN pos + 2 ELSE Len(s) |->
        IF n = pos + 2 THEN b ELSE IF n <= Len(s) THEN s[n] ELSE 0]

(* write() at the descriptor's offset pos, leaving a hole of zero bytes   *)
(* when the file is shorter than pos.                                      *)
WriteAt(s, pos, b) ==
    [n \in 1..IF pos + 1 > Len(s) THEN pos + 1 ELSE Len(s) |->
        IF n = pos + 1 THEN b ELSE IF n <= Len(s) THEN s[n] ELSE 0]

(* fileitem_with_storage::SaveHeader *)
SaveHeader(it, fs, truncatedKeepOnlyOrigInfo) ==
    [fs EXCEPT !.head[it.path] =
        IF truncatedKeepOnlyOrigInfo THEN HeadFile(-1, NoDate)
        ELSE HeadFile(it.cl, it.date)]

-----------------------------------------------------------------------------
(* fileitem::DlSetError: the first destroy mode wins unless a numerically *)
(* smaller one comes later.                                                *)
DlSetError(it, code, kmode) ==
    [it EXCEPT !.code = code, !.status = DLERROR,
               !.destroy = IF kmode < @ THEN kmode ELSE @]

(* fileitem::MarkFaulty *)
MarkFaulty(it, killFile) == DlSetError(it, 500, IF killFile THEN DELETE ELSE TRUNCATE)

(* Mutant of DlRefCountAdd: the download job's reference is not counted. *)
DlRefCountAddLost(it) == it

(* fileitem::DlRefCountAdd *)
DlRefCountAdd(it) == [it EXCEPT !.refs = @ + 1]

(* fileitem::DlRefCountDec: the last downloader leaving an unfinished item *)
(* puts it into DLERROR with the current destroy mode.                     *)
DlRefCountDec(it, code) ==
    LET it1 == [it EXCEPT !.refs = @ - 1]
    IN  IF it1.refs > 0 \/ it1.status >= COMPLETE THEN it1
        ELSE DlSetError(it1, code, it1.destroy)

(* fileitem_with_storage::Setup; the head-only branch is not taken by the *)
(* GET requests modelled here.                                             *)
Setup(it, fs) ==
    LET h      == fs.head[it.path]
        base   == [it EXCEPT !.status = INITED, !.sci = BodySize(fs, it.path), !.sc = -1]
        clean(x) == [x EXCEPT !.sci = -1, !.sc = -1, !.cl = -1, !.mustReplace = TRUE,
                              !.status = INITED]
        parsed == [base EXCEPT !.cl = IF h.kind = "ok" THEN h.len ELSE @,
                               !.date = IF h.kind = "ok" THEN h.date ELSE @,
                               !.code = 200]
    IN  CASE it.status > FRESH                          -> it
          [] h.kind = "bad"                             -> clean(base)
          [] parsed.vol                                 -> parsed
          [] parsed.cl >= 0 /\ parsed.cl < parsed.sci   -> clean(parsed)
          [] parsed.cl >= 0 /\ parsed.cl = parsed.sci   ->
                [parsed EXCEPT !.sc = parsed.sci, !.status = COMPLETE]
          [] OTHER                                      -> [parsed EXCEPT !.vol = TRUE]

(* fileitem::DlStarted: [ok, it].  A second call (hot restart) must agree *)
(* with the established head; status is set to DLGOTHEAD before the seek  *)
(* check, so a rejected restart still leaves it there.                     *)
DlStarted(it, date, code, bytes2seek, bytesAnnounced) ==
    LET restart == it.status >= DLGOTHEAD
        contradicts == (it.cl # bytesAnnounced /\ it.cl # -1)
                       \/ date # it.date \/ bytes2seek > it.sc
        it1 == [it EXCEPT !.cl = IF restart THEN @ ELSE -1, !.status = DLGOTHEAD]
        regress == bytes2seek >= 0 /\ it1.sc >= 0 /\ bytes2seek < it1.sc
        it2 == [it1 EXCEPT !.sc = IF bytes2seek >= 0 THEN bytes2seek ELSE @,
                           !.code = code, !.date = date, !.cl = bytesAnnounced]
    IN  CASE restart /\ contradicts -> [ok |-> FALSE, it |-> it]
          [] regress                -> [ok |-> FALSE, it |-> it1]
          [] OTHER                  -> [ok |-> TRUE, it |-> it2]

(* replace_file in SafeOpenOutFile: a new inode takes the name, readers   *)
(* holding the old one keep it.                                            *)
ReplaceFile(it, fs) ==
    [it |-> [it EXCEPT !.mustReplace = FALSE, !.wfd = Len(fs.data) + 1],
     fs |-> NewFile(fs, it.path)]

(* open(sPathAbs, O_WRONLY|O_CREAT) *)
OpenOut(s) ==
    IF s.it.wfd # 0 THEN s
    ELSE IF s.fs.dir[s.it.path] # 0
         THEN [s EXCEPT !.it.wfd = s.fs.dir[s.it.path]]
         ELSE [it |-> [s.it EXCEPT !.wfd = Len(s.fs.data) + 1],
               fs |-> NewFile(s.fs, s.it.path)]

(* Mutant of SafeOpenOutFile: no check that the file holds the bytes     *)
(* before the write offset.                                                *)
SafeOpenOutFileNoSizeCheck(it, fs) ==
    LET s0 == [it |-> [it EXCEPT !.wfd = 0], fs |-> fs]
        s1 == IF it.mustReplace \/ it.cl < 0 THEN ReplaceFile(s0.it, s0.fs) ELSE s0
        s2 == OpenOut(s1)
        s3 == IF Len(s2.fs.data[s2.it.wfd]) > s2.it.cl THEN ReplaceFile(s2.it, s2.fs) ELSE s2
        it4 == [s3.it EXCEPT !.sc = IF @ < 0 THEN 0 ELSE @]
    IN  [ok |-> TRUE, it |-> [it4 EXCEPT !.status = DLRECEIVING],
         fs |-> SaveHeader(it4, s3.fs, FALSE)]

(* fileitem_with_storage::SafeOpenOutFile: [ok, it, fs].  The Release    *)
(* side-store copy and the preallocation leave K and the item unchanged.  *)
SafeOpenOutFile(it, fs) ==
    LET s0 == [it |-> [it EXCEPT !.wfd = 0], fs |-> fs]
        s1 == IF it.mustReplace \/ it.cl < 0 THEN ReplaceFile(s0.it, s0.fs) ELSE s0
        s2 == OpenOut(s1)
        s3 == IF Len(s2.fs.data[s2.it.wfd]) > s2.it.cl THEN ReplaceFile(s2.it, s2.fs) ELSE s2
        sizeOnDisk == Len(s3.fs.data[s3.it.wfd])
        it4 == [s3.it EXCEPT !.sc = IF @ < 0 THEN 0 ELSE @]
    IN  IF it4.sc > sizeOnDisk
        THEN [ok |-> FALSE, it |-> DlSetError(it4, 500, KEEP), fs |-> s3.fs]
        ELSE [ok |-> TRUE, it |-> [it4 EXCEPT !.status = DLRECEIVING],
              fs |-> SaveHeader(it4, s3.fs, FALSE)]

(* fileitem_with_storage::DlAddData of one byte b: [ok, it, fs].  The    *)
(* output file is opened on the first byte, before the status check.      *)
DlAddData(it, fs, b) ==
    LET o == IF it.wfd = 0 THEN SafeOpenOutFile(it, fs)
             ELSE [ok |-> TRUE, it |-> it, fs |-> fs]
    IN  CASE ~o.ok                      -> o
          [] o.it.status < DLGOTHEAD    -> [o EXCEPT !.ok = FALSE,
                                              !.it = DlSetError(o.it, 500, KEEP)]
          [] o.it.status > COMPLETE     -> [o EXCEPT !.ok = FALSE]
          [] OTHER ->
                [ok |-> TRUE, it |-> [o.it EXCEPT !.sc = @ + 1],
                 fs |-> [o.fs EXCEPT !.data[o.it.wfd] = WriteAt(@, o.it.sc, b)]]

(* fileitem::DlFinish: [it, fs] *)
DlFinish(it, fs, forceUpdateHeader) ==
    LET it1 == [it EXCEPT !.status = COMPLETE, !.cl = IF @ < 0 THEN it.sc ELSE @]
    IN  IF it.status > COMPLETE THEN [it |-> it, fs |-> fs]
        ELSE [it |-> it1,
              fs |-> IF (it.cl < 0 \/ forceUpdateHeader) /\ it.destroy = KEEP
                     THEN SaveHeader(it1, fs, FALSE) ELSE fs]

(* fileitem_with_storage::~fileitem_with_storage.  In KEEP mode the path  *)
(* variable is never computed, so the truncation of a preallocated tail   *)
(* acts on the empty path and changes nothing.                             *)
Destroy(it, fs) ==
    LET p == it.path
        unlinkBody == [fs EXCEPT !.dir[p] = 0]
    IN  CASE it.destroy = KEEP      -> fs
          [] it.destroy = TRUNCATE  ->
                SaveHeader(it, IF fs.dir[p] = 0 THEN fs
                               ELSE [fs EXCEPT !.data[fs.dir[p]] = <<>>], TRUE)
          [] it.destroy = ABANDONED -> unlinkBody
          [] it.destroy = DELETE    -> [unlinkBody EXCEPT !.head[p] = NoHeadFile]
          [] OTHER                  -> SaveHeader(it, unlinkBody, TRUE)
=============================================================================
