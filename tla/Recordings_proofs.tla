-------------------------- MODULE Recordings_proofs --------------------------
(***************************************************************************)
(* Proofs about Recordings, for any number of matches, attempts and        *)
(* requests: where the requests for one recording do not overlap, an       *)
(* uploaded recording stays uploaded, its file is in the Drive as long as  *)
(* its row names it, and a file somebody keeps is not deleted; but as the  *)
(* file of another recording that was completed with the same id.          *)
(***************************************************************************)
EXTENDS Recordings, TLAPS

Pcs == {"idle", "session", "verify", "finish", "fail", "progress", "clean", "review"}
Asked == {None, "keep", "drop", "note"}

Row == [status : Status \cup {None}, client : Clients \cup {None}, file : AnyFile, keep : BOOLEAN]
Request == [pc : Pcs, keys : SUBSET Keys, client : Clients \cup {None}, file : AnyFile,
            status : Status \cup {None}, keep : BOOLEAN, asked : Asked]

TypeInv ==
    /\ rec \in [Keys -> Row]
    /\ session \subseteq Keys /\ completed \subseteq Keys \X Files
    /\ drive \in [Files -> DriveState] /\ expired \subseteq Keys /\ over \in BOOLEAN
    /\ req \in [Requests -> Request]

-----------------------------------------------------------------------------
(* Rows and requests                                                         *)

LEMMA FilesDiffer ==
    /\ NoFile \notin Files /\ Fake \notin Files /\ NoFile # Fake
    /\ \A k \in Keys : \A f \in {k} \X Attempts : f \in Files /\ f[1] = k /\ f = <<k, f[2]>>
    /\ \A f \in Files : f[1] \in Keys /\ f \in {f[1]} \X Attempts
  BY DEF NoFile, Fake, Files

LEMMA FilesAreAny ==
    /\ Files \subseteq AnyFile /\ NoFile \in AnyFile /\ Fake \in AnyFile
    /\ \A f \in AnyFile : f \in Files \/ f = NoFile \/ f = Fake
  BY DEF AnyFile

LEMMA RowFields ==
    ASSUME NEW x \in Row
    PROVE  /\ x.status \in Status \cup {None} /\ x.client \in Clients \cup {None}
           /\ x.file \in AnyFile /\ x.keep \in BOOLEAN
  BY DEF Row

LEMMA NoRowFields ==
    /\ NoRow \in Row /\ NoRow.status = None /\ NoRow.client = None /\ NoRow.file = NoFile
    /\ ~NoRow.keep
  BY DEF NoRow, Row, AnyFile

LEMMA NewRow ==
    ASSUME NEW c \in Clients
    PROVE  LET x == [NoRow EXCEPT !.status = "PENDING_UPLOAD", !.client = c]
           IN  /\ x \in Row /\ x.status = "PENDING_UPLOAD" /\ x.client = c /\ x.file = NoFile
               /\ x.keep = FALSE
  BY DEF NoRow, Row, AnyFile, Status

LEMMA StatusRow ==
    ASSUME NEW x \in Row, NEW st \in Status
    PROVE  LET y == [x EXCEPT !.status = st]
           IN  /\ y \in Row /\ y.status = st /\ y.client = x.client /\ y.file = x.file
               /\ y.keep = x.keep
  BY DEF Row

LEMMA UploadedRow ==
    ASSUME NEW x \in Row, NEW f \in AnyFile
    PROVE  LET y == [x EXCEPT !.status = "UPLOADED", !.file = f]
           IN  /\ y \in Row /\ y.status = "UPLOADED" /\ y.client = x.client /\ y.file = f
               /\ y.keep = x.keep
  BY DEF Row, Status

LEMMA KeepRow ==
    ASSUME NEW x \in Row, NEW b \in BOOLEAN
    PROVE  LET y == [x EXCEPT !.keep = b]
           IN  /\ y \in Row /\ y.status = x.status /\ y.client = x.client /\ y.file = x.file
               /\ y.keep = b
  BY DEF Row

LEMMA FileRow ==
    ASSUME NEW x \in Row
    PROVE  LET y == [x EXCEPT !.file = NoFile]
           IN  /\ y \in Row /\ y.status = x.status /\ y.client = x.client /\ y.file = NoFile
               /\ y.keep = x.keep
  BY DEF Row, AnyFile

LEMMA RequestFields ==
    ASSUME NEW q \in Request
    PROVE  /\ q.pc \in Pcs /\ q.keys \subseteq Keys /\ q.client \in Clients \cup {None}
           /\ q.file \in AnyFile /\ q.status \in Status \cup {None} /\ q.keep \in BOOLEAN
           /\ q.asked \in Asked
  BY DEF Request

LEMMA NoRequestFields ==
    NoRequest \in Request /\ NoRequest.pc = "idle" /\ NoRequest.keys = {}
  BY DEF NoRequest, Request, Pcs, AnyFile, Asked

LEMMA SessionRequest ==
    ASSUME NEW k \in Keys
    PROVE  LET q == [NoRequest EXCEPT !.pc = "session", !.keys = {k}]
           IN  q \in Request /\ q.pc = "session" /\ q.keys = {k} /\ q.client = None
  BY DEF NoRequest, Request, Pcs, AnyFile, Asked

LEMMA CreationRequest ==
    ASSUME NEW k \in Keys, NEW c \in Clients
    PROVE  LET q == [NoRequest EXCEPT !.pc = "session", !.keys = {k}, !.client = c]
           IN  q \in Request /\ q.pc = "session" /\ q.keys = {k} /\ q.client = c
  BY DEF NoRequest, Request, Pcs, AnyFile, Asked

LEMMA CompleteRequest ==
    ASSUME NEW k \in Keys, NEW f \in AnyFile
    PROVE  LET q == [NoRequest EXCEPT !.pc = "verify", !.keys = {k}, !.file = f]
           IN  q \in Request /\ q.pc = "verify" /\ q.keys = {k} /\ q.file = f
  BY DEF NoRequest, Request, Pcs, AnyFile, Asked

LEMMA ProgressRequest ==
    ASSUME NEW k \in Keys, NEW st \in Status \cup {None}
    PROVE  LET q == [NoRequest EXCEPT !.pc = "progress", !.keys = {k}, !.status = st]
           IN  q \in Request /\ q.pc = "progress" /\ q.keys = {k} /\ q.status = st
  BY DEF NoRequest, Request, Pcs, AnyFile, Asked

Review(k, a, b) == [NoRequest EXCEPT !.pc = "review", !.keys = {k}, !.asked = a, !.keep = b]

LEMMA ReviewRequest ==
    ASSUME NEW k \in Keys, NEW a \in {"keep", "drop", "note"}, NEW b \in BOOLEAN
    PROVE  /\ Review(k, a, b) \in Request /\ Review(k, a, b).pc = "review"
           /\ Review(k, a, b).keys = {k} /\ Review(k, a, b).asked = a
           /\ Review(k, a, b).keep <=> b
  BY DEF Review, NoRequest, Request, Pcs, AnyFile, Asked

LEMMA CleanRequest ==
    ASSUME NEW ks \in SUBSET Keys
    PROVE  LET q == [NoRequest EXCEPT !.pc = "clean", !.keys = ks]
           IN  q \in Request /\ q.pc = "clean" /\ q.keys = ks
  BY DEF NoRequest, Request, Pcs, AnyFile, Asked

LEMMA RequestMoves ==
    ASSUME NEW q \in Request, NEW pc \in Pcs
    PROVE  LET n == [q EXCEPT !.pc = pc]
           IN  n \in Request /\ n.pc = pc /\ n.keys = q.keys /\ n.file = q.file
  BY DEF Request

LEMMA FakeRequest ==
    ASSUME NEW q \in Request
    PROVE  LET n == [q EXCEPT !.pc = "finish", !.file = Fake]
           IN  n \in Request /\ n.pc = "finish" /\ n.keys = q.keys /\ n.file = Fake
  BY DEF Request, Pcs, AnyFile

LEMMA FewerKeys ==
    ASSUME NEW q \in Request, NEW k
    PROVE  LET n == [q EXCEPT !.keys = q.keys \ {k}]
           IN  n \in Request /\ n.pc = q.pc /\ n.keys = q.keys \ {k}
  BY DEF Request

LEMMA RowChanges ==
    ASSUME TypeInv, NEW k \in Keys, NEW y \in Row, rec' = [rec EXCEPT ![k] = y]
    PROVE  rec' \in [Keys -> Row] /\ rec'[k] = y /\ \A j \in Keys \ {k} : rec'[j] = rec[j]
  BY DEF TypeInv

LEMMA RequestChanges ==
    ASSUME TypeInv, NEW r \in Requests, NEW n \in Request, req' = [req EXCEPT ![r] = n]
    PROVE  /\ req' \in [Requests -> Request] /\ req'[r] = n
           /\ \A s \in Requests \ {r} : req'[s] = req[s]
  BY DEF TypeInv

-----------------------------------------------------------------------------
(* Type correctness                                                          *)

Outside == \/ TournamentOver
           \/ \E k \in Keys : SessionEnds(k) \/ RetentionEnds(k) \/ \E a \in Attempts : Upload(k, a)

Reads(r) ==
    \/ CleanRead(r)
    \/ \E k \in Keys :
        \/ SessionRead(r, k) \/ ProgressRead(r, k)
        \/ \E c \in Clients : InitRead(r, k, c)
        \/ \E f \in AnyFile : CompleteRead(r, k, f)
        \/ \E asked \in {"keep", "drop", "note"} : ReviewRead(r, k, asked)

Writes(r) ==
    \/ SessionWrite(r) \/ CompleteWrite(r) \/ FailWrite(r) \/ ProgressWrite(r) \/ ReviewWrite(r)
    \/ \E k \in Keys : CleanWrite(r, k)

LEMMA NextParts == Next <=> Outside \/ \E r \in Requests : Reads(r) \/ Writes(r) \/ Verify(r)
  BY DEF Next, Outside, Reads, Writes

Quiet == UNCHANGED <<rec, session, drive, completed, expired, over>>

\* The record each read begins its request with.
LEMMA ReadTypes ==
    ASSUME TypeInv, NEW r \in Requests, Reads(r)
    PROVE  Quiet /\ req' \in [Requests -> Request]
  <1>1. ASSUME NEW n \in Request, Begin(r, n) PROVE req' \in [Requests -> Request]
    BY <1>1, RequestChanges DEF Begin
  <1>2. CASE CleanRead(r)
    <2> DEFINE old == {k \in Keys : ToClean(k)}
    <2>1. Begin(r, [NoRequest EXCEPT !.pc = "clean", !.keys = old]) /\ Quiet
      BY <1>2 DEF CleanRead, Quiet
    <2> HIDE DEF old
    <2> QED BY <1>1, <2>1, CleanRequest DEF old
  <1>3. ASSUME NEW k \in Keys, SessionRead(r, k)
        PROVE  Quiet /\ req' \in [Requests -> Request]
    BY <1>1, <1>3, SessionRequest DEF SessionRead, Quiet
  <1>4. ASSUME NEW k \in Keys, ProgressRead(r, k)
        PROVE  Quiet /\ req' \in [Requests -> Request]
    <2>1. AfterProgress(rec[k].status) \in Status \cup {None}
      BY RowFields DEF TypeInv, AfterProgress, Status
    <2> QED BY <1>1, <1>4, <2>1, ProgressRequest DEF ProgressRead, Quiet
  <1>5. ASSUME NEW k \in Keys, NEW c \in Clients, InitRead(r, k, c)
        PROVE  Quiet /\ req' \in [Requests -> Request]
    BY <1>1, <1>5, SessionRequest, CreationRequest DEF InitRead, Quiet, Existing
  <1>6. ASSUME NEW k \in Keys, NEW f \in AnyFile, CompleteRead(r, k, f)
        PROVE  Quiet /\ req' \in [Requests -> Request]
    BY <1>1, <1>6, CompleteRequest DEF CompleteRead, Quiet
  <1>7. ASSUME NEW k \in Keys, NEW asked \in {"keep", "drop", "note"}, ReviewRead(r, k, asked)
        PROVE  Quiet /\ req' \in [Requests -> Request]
    <2>1. KeepAfter(asked, rec[k].keep) \in BOOLEAN
      BY RowFields DEF TypeInv, KeepAfter
    <2>2. Review(k, asked, KeepAfter(asked, rec[k].keep)) \in Request
      BY <2>1, ReviewRequest
    <2> QED BY <1>1, <1>7, <2>2 DEF ReviewRead, Review, Quiet
  <1> QED BY <1>2, <1>3, <1>4, <1>5, <1>6, <1>7 DEF Reads

LEMMA VerifyTypes ==
    ASSUME TypeInv, NEW r \in Requests, Verify(r)
    PROVE  Quiet /\ req' \in [Requests -> Request]
  <1>1. req[r] \in Request
    BY DEF TypeInv
  <1>2. \/ req' = [req EXCEPT ![r] = [req[r] EXCEPT !.pc = "fail"]]
        \/ req' = [req EXCEPT ![r] = [req[r] EXCEPT !.pc = "finish", !.file = Fake]]
        \/ req' = [req EXCEPT ![r] = [req[r] EXCEPT !.pc = "finish"]]
    BY DEF Verify
  <1>3. /\ [req[r] EXCEPT !.pc = "fail"] \in Request
        /\ [req[r] EXCEPT !.pc = "finish"] \in Request
        /\ [req[r] EXCEPT !.pc = "finish", !.file = Fake] \in Request
    BY <1>1, RequestMoves, FakeRequest DEF Pcs
  <1> QED BY <1>2, <1>3, RequestChanges DEF Verify, Quiet

\* The row each write leaves, whatever it does to its own request.
LEMMA WriteTypes ==
    ASSUME TypeInv, NEW r \in Requests, Writes(r)
    PROVE  TypeInv'
  <1>0. req[r] \in Request /\ req[r].keys \subseteq Keys
    BY RequestFields DEF TypeInv
  <1>1. Done(r) => req' \in [Requests -> Request]
    BY NoRequestFields, RequestChanges DEF Done
  <1>2. CASE SessionWrite(r)
    <2>1. UNCHANGED <<drive, completed, expired, over>> /\ session' \subseteq Keys
      BY <1>0, <1>2 DEF SessionWrite, TypeInv
    <2>2. rec' \in [Keys -> Row]
      <3>1. PICK k \in Keys :
                \/ UNCHANGED rec
                \/ /\ req[r].client # None
                   /\ rec' = [rec EXCEPT ![k] = [NoRow EXCEPT !.status = "PENDING_UPLOAD",
                                                              !.client = req[r].client]]
                \/ rec' = [rec EXCEPT ![k] = [rec[k] EXCEPT !.status = "PENDING_UPLOAD"]]
        BY <1>0, <1>2 DEF SessionWrite
      <3>2. req[r].client # None =>
                [NoRow EXCEPT !.status = "PENDING_UPLOAD", !.client = req[r].client] \in Row
        BY <1>0, NewRow, RequestFields
      <3>3. [rec[k] EXCEPT !.status = "PENDING_UPLOAD"] \in Row
        BY StatusRow DEF TypeInv, Status
      <3> QED BY <3>1, <3>2, <3>3, RowChanges DEF TypeInv
    <2> QED BY <1>1, <1>2, <2>1, <2>2 DEF SessionWrite, TypeInv
  <1>3. CASE CompleteWrite(r)
    <2>1. PICK k \in Keys :
              rec' = [rec EXCEPT ![k] = [rec[k] EXCEPT !.status = "UPLOADED", !.file = req[r].file]]
      BY <1>0, <1>3 DEF CompleteWrite
    <2>2. [rec[k] EXCEPT !.status = "UPLOADED", !.file = req[r].file] \in Row
      BY <1>0, UploadedRow, RequestFields DEF TypeInv
    <2>3. /\ UNCHANGED <<drive, expired, over>> /\ session' \subseteq Keys
          /\ completed' \subseteq Keys \X Files
      BY <1>0, <1>3 DEF CompleteWrite, TypeInv
    <2> QED BY <1>1, <1>3, <2>1, <2>2, <2>3, RowChanges DEF CompleteWrite, TypeInv
  <1>4. CASE FailWrite(r)
    <2>1. PICK k \in Keys : rec' = [rec EXCEPT ![k] = [rec[k] EXCEPT !.status = "FAILED"]]
      BY <1>0, <1>4 DEF FailWrite
    <2>2. [rec[k] EXCEPT !.status = "FAILED"] \in Row
      BY StatusRow DEF TypeInv, Status
    <2> QED BY <1>1, <1>4, <2>1, <2>2, RowChanges DEF FailWrite, TypeInv
  <1>5. CASE ProgressWrite(r)
    <2>1. PICK k \in Keys : rec' = [rec EXCEPT ![k] = [rec[k] EXCEPT !.status = req[r].status]]
      BY <1>0, <1>5 DEF ProgressWrite
    <2>2. [rec[k] EXCEPT !.status = req[r].status] \in Row
      <3>1. req[r].status \in Status \cup {None} /\ rec[k] \in Row
        BY <1>0, RequestFields DEF TypeInv
      <3> QED BY <3>1 DEF Row
    <2> QED BY <1>1, <1>5, <2>1, <2>2, RowChanges DEF ProgressWrite, TypeInv
  <1>6. CASE ReviewWrite(r)
    <2>1. PICK k \in Keys : rec' = [rec EXCEPT ![k] = [rec[k] EXCEPT !.keep = req[r].keep]]
      BY <1>0, <1>6 DEF ReviewWrite
    <2>2. [rec[k] EXCEPT !.keep = req[r].keep] \in Row
      BY <1>0, KeepRow, RequestFields DEF TypeInv
    <2> QED BY <1>1, <1>6, <2>1, <2>2, RowChanges DEF ReviewWrite, TypeInv
  <1>7. ASSUME NEW k \in Keys, CleanWrite(r, k)
        PROVE  TypeInv'
    <2>1. rec' = [rec EXCEPT ![k] = [rec[k] EXCEPT !.file = NoFile]]
      BY <1>7 DEF CleanWrite
    <2>2. [rec[k] EXCEPT !.file = NoFile] \in Row
      BY FileRow DEF TypeInv
    <2>3. req' \in [Requests -> Request]
      <3>1. \/ req' = [req EXCEPT ![r] = NoRequest]
            \/ req' = [req EXCEPT ![r] = [req[r] EXCEPT !.keys = req[r].keys \ {k}]]
        BY <1>7 DEF CleanWrite
      <3> QED BY <1>0, <3>1, NoRequestFields, FewerKeys, RequestChanges
    <2>4. /\ UNCHANGED <<session, completed, expired, over>>
          /\ drive' \in [Files -> DriveState]
      BY <1>7 DEF CleanWrite, TypeInv, DriveState
    <2> QED BY <2>1, <2>2, <2>3, <2>4, RowChanges DEF TypeInv
  <1> QED BY <1>2, <1>3, <1>4, <1>5, <1>6, <1>7 DEF Writes

LEMMA TypesHold == Spec => []TypeInv
  <1>1. Init => TypeInv
    BY NoRowFields, NoRequestFields DEF Init, TypeInv, DriveState
  <1>2. TypeInv /\ [Next]_vars => TypeInv'
    <2> SUFFICES ASSUME TypeInv, [Next]_vars PROVE TypeInv'
      OBVIOUS
    <2>1. CASE UNCHANGED vars
      BY <2>1 DEF vars, TypeInv
    <2>2. CASE Outside
      <3>1. CASE TournamentOver \/ \E k \in Keys : SessionEnds(k) \/ RetentionEnds(k)
        BY <3>1 DEF TournamentOver, SessionEnds, RetentionEnds, TypeInv
      <3>2. ASSUME NEW k \in Keys, NEW a \in Attempts, Upload(k, a)
            PROVE  TypeInv'
        BY <3>2 DEF Upload, TypeInv, DriveState
      <3> QED BY <2>2, <3>1, <3>2 DEF Outside
    <2>3. ASSUME NEW r \in Requests, Reads(r) \/ Verify(r)
          PROVE  TypeInv'
      <3>1. Quiet /\ req' \in [Requests -> Request]
        BY <2>3, ReadTypes, VerifyTypes
      <3> QED BY <3>1 DEF Quiet, TypeInv
    <2> QED BY <2>1, <2>2, <2>3, WriteTypes, NextParts
  <1> QED BY <1>1, <1>2, PTL DEF Spec

\* The rows, the sessions, the Drive and the requests keep their types.
THEOREM TypeCorrect == Spec => []TypeOK
  <1>1. TypeInv => TypeOK
    BY RowFields, RequestFields DEF TypeInv, TypeOK, AnyFile, Pcs
  <1> QED BY <1>1, TypesHold, PTL

-----------------------------------------------------------------------------
(* The invariant                                                             *)

Trusted == "noToken" \notin Env /\ "driveFails" \notin Env

\* The file f of match k is in the Drive, or went with another recording that was completed
\* with it; d is the value of drive and c of completed.
Stored(k, f, d, c) ==
    d[f] = "WHOLE" \/ (d[f] = "GONE" /\ \E j \in Keys \ {k} : <<j, f>> \in c)

\* The row x of match k, with ss the value of session.
RowHolds(k, x, d, ss, c) ==
    /\ x # NoRow => x.status # None
    /\ x.status # "UPLOADED" => x.file = NoFile
    /\ x.status = "UPLOADED" => k \notin ss
    /\ x.file \in Files => <<k, x.file>> \in c /\ ("noToken" \notin Env => Stored(k, x.file, d, c))
    /\ "noFileId" \notin Env /\ "noToken" \notin Env => x.file # Fake

RowsHold == \A k \in Keys : RowHolds(k, rec[k], drive, session, completed)

\* A recording that was completed is uploaded, and names its file unless it was cleaned up.
CompletedHold(k, x, d, c) ==
    \A f \in Files : <<k, f>> \in c =>
        /\ x.status = "UPLOADED"
        /\ "noToken" \notin Env => d[f] \in {"WHOLE", "GONE"}
        /\ Trusted /\ d[f] = "WHOLE" => x.file = f

CompletedHolds == \A k \in Keys : CompletedHold(k, rec[k], drive, completed)

\* What a request q knows of the row x of its match k when it goes on, with e and o the
\* values of expired and over.
Ready(q, k, x, d, c, e, o) ==
    /\ q.pc = "session" /\ q.client = None => x.status \notin {None, "UPLOADED"}
    /\ q.pc \in {"verify", "finish", "fail"} => x.status \notin {None, "UPLOADED"}
    /\ q.pc \in {"verify", "finish"} => (q.file = NoFile => q.pc = "verify" /\ "noFileId" \in Env)
    /\ q.pc = "finish" =>
           \/ q.file \in Files /\ ("noToken" \notin Env => Stored(k, q.file, d, c))
           \/ q.file = Fake /\ Env \cap {"noFileId", "noToken"} # {}
    /\ q.pc = "progress" => x.status # None /\ q.status = AfterProgress(x.status)
    /\ q.pc = "review" => /\ x.status # None /\ q.asked \in {"keep", "drop", "note"}
                          /\ q.keep <=> KeepAfter(q.asked, x.keep)
    /\ q.pc = "clean" => x.status = "UPLOADED" /\ x.file # NoFile /\ ~x.keep /\ k \in e /\ o

\* Only the clean-up is about several recordings.
OneKey(q) == /\ q.pc = "idle" => q.keys = {}
             /\ q.pc # "idle" => q.pc = "clean" \/ \E k \in Keys : q.keys = {k}

\* No recording has two requests.
Apart == \A r, s \in Requests : r # s => req[r].keys \cap req[s].keys = {}

RequestsReady ==
    \A r \in Requests :
        /\ OneKey(req[r])
        /\ \A k \in req[r].keys : Ready(req[r], k, rec[k], drive, completed, expired, over)

Inv == RowsHold /\ CompletedHolds /\ Apart /\ RequestsReady

\* A request begins that knows the row of its match.
LEMMA Starts ==
    ASSUME TypeInv, Inv, NEW r \in Requests, NEW n \in Request,
           req[r].pc = "idle", req' = [req EXCEPT ![r] = n], Quiet, OneKey(n),
           \A k \in n.keys : /\ \A s \in Requests : k \notin req[s].keys
                             /\ Ready(n, k, rec[k], drive, completed, expired, over)
    PROVE  Inv'
  <1>1. req'[r] = n /\ \A s \in Requests \ {r} : req'[s] = req[s]
    BY RequestChanges
  <1>2. RowsHold'
    BY DEF Inv, RowsHold, Quiet
  <1>3. CompletedHolds'
    BY DEF Inv, CompletedHolds, Quiet
  <1>4. Apart'
    BY <1>1 DEF Inv, Apart
  <1>5. RequestsReady'
    <2> SUFFICES ASSUME NEW s \in Requests
                 PROVE  /\ OneKey(req'[s])
                        /\ \A k \in req'[s].keys : Ready(req'[s], k, rec'[k], drive', completed', expired', over')
      BY DEF RequestsReady
    <2>1. CASE s = r
      BY <1>1, <2>1 DEF Quiet
    <2>2. CASE s # r
      BY <1>1, <2>2 DEF Inv, RequestsReady, Quiet
    <2> QED BY <2>1, <2>2
  <1> QED BY <1>2, <1>3, <1>4, <1>5 DEF Inv

\* What a step that is not about a match leaves of what its request knows.
LEMMA ReadyStays ==
    ASSUME NEW q, NEW k, NEW x, NEW d, NEW c, NEW e, NEW o, NEW d2, NEW c2, NEW e2, NEW o2,
           Ready(q, k, x, d, c, e, o), e \subseteq e2, o => o2,
           \A f \in Files : Stored(k, f, d, c) => Stored(k, f, d2, c2)
    PROVE  Ready(q, k, x, d2, c2, e2, o2)
  BY DEF Ready

\* A file stays stored for a match while others are completed, while files are uploaded, and
\* when another recording that was completed with it is cleaned up.
LEMMA StoredStays ==
    ASSUME NEW k \in Keys, NEW f \in Files, NEW d, NEW c, NEW d2, NEW c2,
           Stored(k, f, d, c), c \subseteq c2,
           \/ d2[f] = d[f]
           \/ d[f] # "WHOLE" /\ d[f] # "GONE"
           \/ d2[f] = "GONE" /\ \E j \in Keys \ {k} : <<j, f>> \in c
    PROVE  Stored(k, f, d2, c2)
  BY DEF Stored

\* A request goes on or ends, and touches the rows and files of its own matches only.
LEMMA Goes ==
    ASSUME TypeInv, Inv, NEW r \in Requests, NEW n \in Request,
           req' = [req EXCEPT ![r] = n], n.keys \subseteq req[r].keys, OneKey(n),
           UNCHANGED <<expired, over>>,
           \A k \in n.keys : Ready(n, k, rec'[k], drive', completed', expired', over'),
           \A k \in Keys \ req[r].keys :
               /\ rec'[k] = rec[k]
               /\ \A f \in Files : Stored(k, f, drive, completed) => Stored(k, f, drive', completed')
    PROVE  Apart' /\ RequestsReady'
  <1>1. req'[r] = n /\ \A s \in Requests \ {r} : req'[s] = req[s]
    BY RequestChanges
  <1>2. Apart'
    BY <1>1 DEF Inv, Apart
  <1>3. RequestsReady'
    <2> SUFFICES ASSUME NEW s \in Requests
                 PROVE  /\ OneKey(req'[s])
                        /\ \A k \in req'[s].keys : Ready(req'[s], k, rec'[k], drive', completed', expired', over')
      BY DEF RequestsReady
    <2>1. CASE s = r
      BY <1>1, <2>1
    <2>2. CASE s # r
      <3>1. req'[s] = req[s] /\ OneKey(req[s]) /\ req[s].keys \subseteq Keys \ req[r].keys
        <4>1. req[s] \in Request
          BY DEF TypeInv
        <4> QED BY <1>1, <2>2, <4>1, RequestFields DEF Inv, Apart, RequestsReady
      <3>2. ASSUME NEW k \in req[s].keys
            PROVE  Ready(req[s], k, rec'[k], drive', completed', expired', over')
        <4>1. Ready(req[s], k, rec[k], drive, completed, expired, over)
          BY DEF Inv, RequestsReady
        <4>2. /\ rec'[k] = rec[k]
              /\ \A f \in Files : Stored(k, f, drive, completed) => Stored(k, f, drive', completed')
          BY <3>1
        <4> QED BY <4>1, <4>2, ReadyStays
      <3> QED BY <3>1, <3>2
    <2> QED BY <2>1, <2>2
  <1> QED BY <1>2, <1>3

-----------------------------------------------------------------------------
(* Its preservation                                                          *)

LEMMA OutsideKeeps ==
    ASSUME TypeInv, Inv, Outside
    PROVE  Inv'
  <1>1. ASSUME UNCHANGED <<rec, completed, req>>, session' \subseteq session,
               expired \subseteq expired', over => over',
               \A f \in Files : drive'[f] = drive[f] \/ drive[f] \notin {"WHOLE", "GONE"},
               \A k \in Keys : \A f \in Files : <<k, f>> \in completed => drive'[f] = drive[f]
                                                                  \/ "noToken" \in Env
        PROVE  Inv'
    <2>0. \A k \in Keys : \A f \in Files :
              Stored(k, f, drive, completed) => Stored(k, f, drive', completed')
      BY <1>1, StoredStays
    <2>1. RowsHold'
      BY <1>1, <2>0 DEF Inv, RowsHold, RowHolds
    <2>2. CompletedHolds'
      BY <1>1 DEF Inv, CompletedHolds, CompletedHold, Trusted
    <2>3. Apart'
      BY <1>1 DEF Inv, Apart
    <2>4. RequestsReady'
      <3> SUFFICES ASSUME NEW r \in Requests, NEW k \in req[r].keys
                   PROVE  Ready(req[r], k, rec[k], drive', completed', expired', over')
        BY <1>1 DEF Inv, RequestsReady
      <3>1. Ready(req[r], k, rec[k], drive, completed, expired, over) /\ k \in Keys
        BY RequestFields DEF Inv, RequestsReady, TypeInv
      <3> QED BY <1>1, <2>0, <3>1, ReadyStays
    <2> QED BY <2>1, <2>2, <2>3, <2>4 DEF Inv
  <1>2. CASE TournamentOver \/ \E k \in Keys : SessionEnds(k) \/ RetentionEnds(k)
    BY <1>1, <1>2 DEF TournamentOver, SessionEnds, RetentionEnds
  <1>3. ASSUME NEW k \in Keys, NEW a \in Attempts, Upload(k, a)
        PROVE  Inv'
    <2>1. /\ UNCHANGED <<rec, session, completed, expired, over, req>>
          /\ drive[<<k, a>>] \notin {"WHOLE", "GONE"}
          /\ \A f \in Files \ {<<k, a>>} : drive'[f] = drive[f]
      BY <1>3 DEF Upload, TypeInv
    <2>2. \A j \in Keys : \A f \in Files : <<j, f>> \in completed => f # <<k, a>> \/ "noToken" \in Env
      BY <2>1 DEF Inv, CompletedHolds, CompletedHold
    <2> QED BY <1>1, <2>1, <2>2
  <1> QED BY <1>2, <1>3 DEF Outside

LEMMA ReadsKeep ==
    ASSUME "overlap" \notin Env, None \notin Clients, TypeInv, Inv, NEW r \in Requests, Reads(r)
    PROVE  Inv'
  <1>0. \A k \in Keys : /\ Free(k) => \A s \in Requests : k \notin req[s].keys
                        /\ Exists(k) => rec[k].status # None
    BY DEF Free, Inv, RowsHold, RowHolds, Exists
  <1>1. ASSUME NEW k \in Keys, NEW n \in Request, Begin(r, n), Quiet, n.keys = {k}, n.pc # "idle",
               Free(k), Ready(n, k, rec[k], drive, completed, expired, over)
        PROVE  Inv'
    BY <1>0, <1>1, Starts DEF Begin, OneKey
  <1>2. CASE CleanRead(r)
    <2> DEFINE old == {k \in Keys : ToClean(k)}
               n == [NoRequest EXCEPT !.pc = "clean", !.keys = old]
    <2>1. Begin(r, n) /\ Quiet /\ \A k \in old : Free(k)
      BY <1>2 DEF CleanRead, Quiet
    <2>2. n \in Request /\ n.pc = "clean" /\ n.keys = old
      BY CleanRequest
    <2>3. \A k \in old : /\ k \in Keys /\ rec[k].status = "UPLOADED" /\ rec[k].file # NoFile
                         /\ ~rec[k].keep /\ k \in expired /\ over
      BY DEF ToClean
    <2> HIDE DEF n, old
    <2>4. \A k \in old : Ready(n, k, rec[k], drive, completed, expired, over)
      BY <2>2, <2>3 DEF Ready
    <2>5. \A k \in old : \A s \in Requests : k \notin req[s].keys
      BY <1>0, <2>1, <2>3
    <2> QED BY <2>1, <2>2, <2>4, <2>5, Starts DEF Begin, OneKey
  <1>3. ASSUME NEW k \in Keys, Free(k), Exists(k), rec[k].status # "UPLOADED", Quiet,
               Begin(r, [NoRequest EXCEPT !.pc = "session", !.keys = {k}])
        PROVE  Inv'
    <2> DEFINE n == [NoRequest EXCEPT !.pc = "session", !.keys = {k}]
    <2>1. n \in Request /\ n.pc = "session" /\ n.keys = {k} /\ n.client = None
      BY SessionRequest
    <2>2. Begin(r, n)
      BY <1>3
    <2> HIDE DEF n
    <2>3. Ready(n, k, rec[k], drive, completed, expired, over)
      BY <1>0, <1>3, <2>1 DEF Ready
    <2> QED BY <1>1, <1>3, <2>1, <2>2, <2>3
  <1>4. ASSUME NEW k \in Keys, SessionRead(r, k)
        PROVE  Inv'
    BY <1>3, <1>4 DEF SessionRead, Quiet
  <1>5. ASSUME NEW k \in Keys, ProgressRead(r, k)
        PROVE  Inv'
    <2> DEFINE st == AfterProgress(rec[k].status)
               n == [NoRequest EXCEPT !.pc = "progress", !.keys = {k}, !.status = st]
    <2>1. st \in Status \cup {None}
      BY RowFields DEF TypeInv, AfterProgress, Status
    <2> HIDE DEF st
    <2>2. n \in Request /\ n.pc = "progress" /\ n.keys = {k} /\ n.status = st
      BY <2>1, ProgressRequest
    <2>3. Begin(r, n) /\ Free(k) /\ Exists(k) /\ Quiet
      BY <1>5 DEF ProgressRead, Quiet, st
    <2> HIDE DEF n
    <2>4. Ready(n, k, rec[k], drive, completed, expired, over)
      BY <1>0, <2>2, <2>3 DEF Ready, st
    <2> QED BY <1>1, <2>2, <2>3, <2>4
  <1>6. ASSUME NEW k \in Keys, NEW c \in Clients, InitRead(r, k, c)
        PROVE  Inv'
    <2>1. CASE Existing(k, c) = {}
      <3> DEFINE n == [NoRequest EXCEPT !.pc = "session", !.keys = {k}, !.client = c]
      <3>1. n \in Request /\ n.pc = "session" /\ n.keys = {k} /\ n.client # None
        BY CreationRequest
      <3>2. Begin(r, n) /\ Free(k) /\ Quiet
        BY <1>6, <2>1 DEF InitRead, Quiet
      <3> HIDE DEF n
      <3>3. Ready(n, k, rec[k], drive, completed, expired, over)
        BY <3>1 DEF Ready
      <3> QED BY <1>1, <3>1, <3>2, <3>3
    <2>2. ASSUME NEW j \in Existing(k, c), rec[j].status # "UPLOADED", Free(j),
                 Begin(r, [NoRequest EXCEPT !.pc = "session", !.keys = {j}])
          PROVE  Inv'
      BY <1>3, <1>6, <2>2 DEF InitRead, Existing, Quiet
    <2> QED BY <1>6, <2>1, <2>2 DEF InitRead
  <1>7. ASSUME NEW k \in Keys, NEW f \in AnyFile, CompleteRead(r, k, f)
        PROVE  Inv'
    <2> DEFINE n == [NoRequest EXCEPT !.pc = "verify", !.keys = {k}, !.file = f]
    <2>1. n \in Request /\ n.pc = "verify" /\ n.keys = {k} /\ n.file = f
      BY CompleteRequest
    <2>2. /\ Begin(r, n) /\ Free(k) /\ Quiet /\ Exists(k) /\ rec[k].status # "UPLOADED"
          /\ f = NoFile => "noFileId" \in Env
      BY <1>7 DEF CompleteRead, Quiet, ToComplete
    <2> HIDE DEF n
    <2>3. Ready(n, k, rec[k], drive, completed, expired, over)
      BY <1>0, <2>1, <2>2 DEF Ready
    <2> QED BY <1>1, <2>1, <2>2, <2>3
  <1>8. ASSUME NEW k \in Keys, NEW asked \in {"keep", "drop", "note"}, ReviewRead(r, k, asked)
        PROVE  Inv'
    <2> DEFINE b == KeepAfter(asked, rec[k].keep)
               n == Review(k, asked, b)
    <2>1. b \in BOOLEAN
      BY RowFields DEF TypeInv, KeepAfter
    <2>2. n \in Request /\ n.pc = "review" /\ n.keys = {k} /\ n.asked = asked /\ (n.keep <=> b)
      BY <2>1, ReviewRequest
    <2>3. Begin(r, n) /\ Free(k) /\ Quiet /\ Exists(k)
      BY <1>8 DEF ReviewRead, Review, Quiet
    <2> HIDE DEF n
    <2>4. Ready(n, k, rec[k], drive, completed, expired, over)
      BY <1>0, <2>2, <2>3 DEF Ready
    <2> QED BY <1>1, <2>2, <2>3, <2>4
  <1> QED BY <1>2, <1>4, <1>5, <1>6, <1>7, <1>8 DEF Reads

LEMMA VerifyKeeps ==
    ASSUME TypeInv, Inv, NEW r \in Requests, Verify(r)
    PROVE  Inv'
  <1>1. req[r] \in Request /\ req[r].pc = "verify" /\ req[r].keys \subseteq Keys /\ Quiet
    BY RequestFields DEF TypeInv, Verify, Quiet
  <1>2. PICK k \in Keys : req[r].keys = {k} /\ Ready(req[r], k, rec[k], drive, completed, expired, over)
    BY <1>1 DEF Inv, RequestsReady, OneKey
  <1>3. ASSUME NEW n \in Request, req' = [req EXCEPT ![r] = n], n.keys = {k}, n.pc # "idle",
               Ready(n, k, rec[k], drive, completed, expired, over)
        PROVE  Inv'
    <2>1. OneKey(n) /\ n.keys \subseteq req[r].keys
      BY <1>2, <1>3 DEF OneKey
    <2>2. Apart' /\ RequestsReady'
      BY <1>1, <1>2, <1>3, <2>1, Goes DEF Quiet
    <2>3. RowsHold' /\ CompletedHolds'
      BY <1>1 DEF Inv, RowsHold, CompletedHolds, Quiet
    <2> QED BY <2>2, <2>3 DEF Inv
  <1>4. CASE req' = [req EXCEPT ![r] = [req[r] EXCEPT !.pc = "fail"]]
    <2> DEFINE n == [req[r] EXCEPT !.pc = "fail"]
    <2>1. n \in Request /\ n.pc = "fail" /\ n.keys = req[r].keys
      BY <1>1, RequestMoves DEF Pcs
    <2>2. req' = [req EXCEPT ![r] = n]
      BY <1>4
    <2> HIDE DEF n
    <2>3. Ready(n, k, rec[k], drive, completed, expired, over)
      BY <1>1, <1>2, <2>1 DEF Ready
    <2> QED BY <1>2, <1>3, <2>1, <2>2, <2>3
  <1>5. CASE /\ req[r].file = NoFile
             /\ req' = [req EXCEPT ![r] = [req[r] EXCEPT !.pc = "finish", !.file = Fake]]
    <2> DEFINE n == [req[r] EXCEPT !.pc = "finish", !.file = Fake]
    <2>1. n \in Request /\ n.pc = "finish" /\ n.keys = req[r].keys /\ n.file = Fake
      BY <1>1, FakeRequest
    <2>2. req' = [req EXCEPT ![r] = n]
      BY <1>5
    <2> HIDE DEF n
    <2>3. "noFileId" \in Env
      BY <1>1, <1>2, <1>5, FilesDiffer DEF Ready
    <2>4. Ready(n, k, rec[k], drive, completed, expired, over)
      BY <1>1, <1>2, <2>1, <2>3, FilesDiffer DEF Ready
    <2> QED BY <1>2, <1>3, <2>1, <2>2, <2>4
  <1>6. CASE /\ req[r].file \in Files /\ Verifies(req[r].file)
             /\ req' = [req EXCEPT ![r] = [req[r] EXCEPT !.pc = "finish"]]
    <2> DEFINE n == [req[r] EXCEPT !.pc = "finish"]
    <2>1. n \in Request /\ n.pc = "finish" /\ n.keys = req[r].keys /\ n.file = req[r].file
      BY <1>1, RequestMoves DEF Pcs
    <2>2. req' = [req EXCEPT ![r] = n]
      BY <1>6
    <2> HIDE DEF n
    <2>3. req[r].file \in Files /\ req[r].file # NoFile /\ Stored(k, req[r].file, drive, completed)
      BY <1>6, FilesDiffer DEF Verifies, Stored
    <2>4. Ready(n, k, rec[k], drive, completed, expired, over)
      BY <1>1, <1>2, <2>1, <2>3 DEF Ready
    <2> QED BY <1>2, <1>3, <2>1, <2>2, <2>4
  <1>7. CASE /\ "noToken" \in Env /\ req[r].file # NoFile
             /\ req' = [req EXCEPT ![r] = [req[r] EXCEPT !.pc = "finish"]]
    <2> DEFINE n == [req[r] EXCEPT !.pc = "finish"]
    <2>1. n \in Request /\ n.pc = "finish" /\ n.keys = req[r].keys /\ n.file = req[r].file
      BY <1>1, RequestMoves DEF Pcs
    <2>2. req' = [req EXCEPT ![r] = n]
      BY <1>7
    <2> HIDE DEF n
    <2>3. req[r].file \in Files \/ req[r].file = Fake
      BY <1>1, <1>7, RequestFields, FilesAreAny
    <2>4. Ready(n, k, rec[k], drive, completed, expired, over)
      BY <1>1, <1>2, <1>7, <2>1, <2>3 DEF Ready
    <2> QED BY <1>2, <1>3, <2>1, <2>2, <2>4
  <1> QED BY <1>4, <1>5, <1>6, <1>7 DEF Verify

\* A write ends its request and leaves the row y of its match.
LEMMA RowWritten ==
    ASSUME TypeInv, Inv, NEW r \in Requests, NEW k \in Keys, NEW y \in Row,
           req[r].keys = {k}, Done(r), rec' = [rec EXCEPT ![k] = y],
           UNCHANGED <<drive, expired, over>>, session' \subseteq session \cup {k},
           RowHolds(k, y, drive, session', completed'),
           completed \subseteq completed', completed' \subseteq Keys \X Files,
           \A j \in Keys \ {k} : \A f \in Files : <<j, f>> \in completed' => <<j, f>> \in completed,
           CompletedHold(k, y, drive, completed')
    PROVE  Inv'
  <1>1. rec'[k] = y /\ \A j \in Keys \ {k} : rec'[j] = rec[j]
    BY RowChanges
  <1>0. \A j \in Keys : \A f \in Files :
            Stored(j, f, drive, completed) => Stored(j, f, drive', completed')
    BY StoredStays
  <1>2. Apart' /\ RequestsReady'
    <2>1. req' = [req EXCEPT ![r] = NoRequest]
      BY DEF Done
    <2>2. OneKey(NoRequest) /\ NoRequest \in Request /\ NoRequest.keys = {}
      BY NoRequestFields DEF OneKey
    <2> QED BY <1>0, <1>1, <2>1, <2>2, Goes
  <1>3. RowsHold'
    <2> SUFFICES ASSUME NEW j \in Keys
                 PROVE  RowHolds(j, rec'[j], drive', session', completed')
      BY DEF RowsHold
    <2>1. CASE j = k
      BY <1>1, <2>1
    <2>2. CASE j # k
      <3>1. rec'[j] = rec[j] /\ RowHolds(j, rec[j], drive, session, completed)
        BY <1>1, <2>2 DEF Inv, RowsHold
      <3> QED BY <1>0, <2>2, <3>1 DEF RowHolds
    <2> QED BY <2>1, <2>2
  <1>4. CompletedHolds'
    <2> SUFFICES ASSUME NEW j \in Keys
                 PROVE  CompletedHold(j, rec'[j], drive', completed')
      BY DEF CompletedHolds
    <2>1. CASE j = k
      BY <1>1, <2>1
    <2>2. CASE j # k
      BY <1>1, <2>2 DEF Inv, CompletedHolds, CompletedHold
    <2> QED BY <2>1, <2>2
  <1> QED BY <1>2, <1>3, <1>4 DEF Inv

LEMMA WritesKeep ==
    ASSUME TypeInv, Inv, NEW r \in Requests, Writes(r)
    PROVE  Inv'
  <1>0. req[r] \in Request /\ req[r].keys \subseteq Keys /\ OneKey(req[r])
    BY RequestFields DEF TypeInv, Inv, RequestsReady
  <1>1. \A k \in req[r].keys : /\ k \in Keys /\ rec[k] \in Row /\ RowHolds(k, rec[k], drive, session, completed)
                               /\ Ready(req[r], k, rec[k], drive, completed, expired, over)
    BY <1>0 DEF TypeInv, Inv, RowsHold, RequestsReady
  <1>2. \A k \in Keys : CompletedHold(k, rec[k], drive, completed)
    BY DEF Inv, CompletedHolds
  <1>3. CASE SessionWrite(r)
    <2>1. PICK k \in req[r].keys :
              \/ UNCHANGED <<rec, session>>
              \/ /\ req[r].client # None /\ ~Exists(k) /\ session' = session \cup {k}
                 /\ rec' = [rec EXCEPT ![k] = [NoRow EXCEPT !.status = "PENDING_UPLOAD",
                                                            !.client = req[r].client]]
              \/ /\ req[r].client = None /\ session' = session \cup {k}
                 /\ rec' = [rec EXCEPT ![k] = [rec[k] EXCEPT !.status = "PENDING_UPLOAD"]]
      BY <1>3 DEF SessionWrite
    <2>2. /\ req[r].pc = "session" /\ Done(r) /\ UNCHANGED <<drive, completed, expired, over>>
          /\ req[r].keys = {k}
      BY <1>0, <1>3, <2>1 DEF SessionWrite, OneKey
    <2>3. CASE UNCHANGED <<rec, session>>
      <3>1. rec' = [rec EXCEPT ![k] = rec[k]]
        BY <2>3 DEF TypeInv
      <3>2. CompletedHold(k, rec[k], drive, completed')
        BY <1>1, <1>2, <2>2
      <3>3. completed' = completed /\ completed \subseteq Keys \X Files
        BY <2>2 DEF TypeInv
      <3>4. k \in Keys /\ rec[k] \in Row /\ RowHolds(k, rec[k], drive, session', completed')
        BY <1>1, <2>1, <2>2, <2>3
      <3>5. session' \subseteq session \cup {k} /\ UNCHANGED <<drive, expired, over>>
        BY <2>2, <2>3
      <3>6. req[r].keys = {k} /\ Done(r)
        BY <2>2
      <3> QED BY <3>1, <3>2, <3>3, <3>4, <3>5, <3>6, RowWritten
    <2>4. ASSUME NEW y \in Row, rec' = [rec EXCEPT ![k] = y], y.status = "PENDING_UPLOAD",
                 y.file = NoFile, session' = session \cup {k}, rec[k].status # "UPLOADED"
          PROVE  Inv'
      <3>1. RowHolds(k, y, drive, session', completed')
        BY <2>4, FilesDiffer DEF RowHolds, None
      <3>2. CompletedHold(k, y, drive, completed')
        BY <1>1, <1>2, <2>2, <2>4 DEF CompletedHold
      <3>3. completed' = completed /\ completed \subseteq Keys \X Files
        BY <2>2 DEF TypeInv
      <3> QED BY <1>1, <2>1, <2>2, <2>4, <3>1, <3>2, <3>3, RowWritten
    <2>5. CASE /\ req[r].client # None /\ ~Exists(k) /\ session' = session \cup {k}
               /\ rec' = [rec EXCEPT ![k] = [NoRow EXCEPT !.status = "PENDING_UPLOAD",
                                                          !.client = req[r].client]]
      <3> DEFINE y == [NoRow EXCEPT !.status = "PENDING_UPLOAD", !.client = req[r].client]
      <3>1. y \in Row /\ y.status = "PENDING_UPLOAD" /\ y.file = NoFile
        BY <1>0, <2>5, NewRow, RequestFields
      <3>2. rec[k].status # "UPLOADED"
        BY <2>5, NoRowFields DEF Exists, None
      <3> HIDE DEF y
      <3> QED BY <2>4, <2>5, <3>1, <3>2 DEF y
    <2>6. CASE /\ req[r].client = None /\ session' = session \cup {k}
               /\ rec' = [rec EXCEPT ![k] = [rec[k] EXCEPT !.status = "PENDING_UPLOAD"]]
      <3> DEFINE y == [rec[k] EXCEPT !.status = "PENDING_UPLOAD"]
      <3>1. y \in Row /\ y.status = "PENDING_UPLOAD" /\ y.file = rec[k].file
        BY <1>1, StatusRow DEF Status
      <3>2. rec[k].status # "UPLOADED" /\ rec[k].file = NoFile
        BY <1>1, <2>2, <2>6 DEF Ready, RowHolds
      <3> HIDE DEF y
      <3> QED BY <2>4, <2>6, <3>1, <3>2 DEF y
    <2> QED BY <2>1, <2>3, <2>5, <2>6
  <1>4. CASE CompleteWrite(r)
    <2>1. PICK k \in req[r].keys :
              /\ rec' = [rec EXCEPT ![k] = [rec[k] EXCEPT !.status = "UPLOADED", !.file = req[r].file]]
              /\ session' = session \ {k}
              /\ completed' = completed \cup ({k} \X ({req[r].file} \cap Files))
      BY <1>4 DEF CompleteWrite
    <2>2. /\ req[r].pc = "finish" /\ Done(r) /\ UNCHANGED <<drive, expired, over>>
          /\ req[r].keys = {k} /\ k \in Keys
      BY <1>0, <1>4, <2>1 DEF CompleteWrite, OneKey
    <2> DEFINE g == req[r].file
               y == [rec[k] EXCEPT !.status = "UPLOADED", !.file = g]
    <2>3. /\ \/ g \in Files /\ ("noToken" \notin Env => Stored(k, g, drive, completed))
             \/ g = Fake /\ Env \cap {"noFileId", "noToken"} # {}
          /\ rec[k].status # "UPLOADED"
      BY <1>1, <2>2 DEF Ready
    <2>4. y \in Row /\ y.status = "UPLOADED" /\ y.file = g
      BY <1>0, <1>1, UploadedRow, RequestFields
    <2>5. rec' = [rec EXCEPT ![k] = y]
      BY <2>1
    <2>6. completed' = completed \cup ({k} \X ({g} \cap Files))
      BY <2>1
    <2> HIDE DEF y, g
    <2>7. /\ completed \subseteq completed' /\ completed' \subseteq Keys \X Files
          /\ \A j \in Keys \ {k} : \A f \in Files : <<j, f>> \in completed' => <<j, f>> \in completed
          /\ \A f \in Files : <<k, f>> \in completed' => <<k, f>> \in completed \/ f = g
          /\ g \in Files => <<k, g>> \in completed'
      BY <2>2, <2>6 DEF TypeInv
    <2>8. \A f \in Files : <<k, f>> \notin completed
      BY <1>2, <2>2, <2>3 DEF CompletedHold
    <2>9. CompletedHold(k, y, drive, completed')
      <3> SUFFICES ASSUME NEW f \in Files, <<k, f>> \in completed'
                   PROVE  /\ y.status = "UPLOADED"
                          /\ "noToken" \notin Env => drive[f] \in {"WHOLE", "GONE"}
                          /\ Trusted /\ drive[f] = "WHOLE" => y.file = f
        BY DEF CompletedHold
      <3>1. f = g
        BY <2>7, <2>8
      <3>2. "noToken" \notin Env => Stored(k, f, drive, completed)
        BY <2>3, <3>1, FilesDiffer
      <3> QED BY <2>4, <3>1, <3>2 DEF Stored
    <2>10. RowHolds(k, y, drive, session', completed')
      <3>1. y.status # None /\ k \notin session' /\ y # NoRow
        BY <2>1, <2>4, NoRowFields DEF None
      <3>2. CASE g \in Files /\ ("noToken" \notin Env => Stored(k, g, drive, completed))
        <4>1. g # Fake /\ ("noToken" \notin Env => Stored(k, g, drive, completed'))
          BY <2>2, <2>7, <3>2, FilesDiffer, StoredStays
        <4> QED BY <2>4, <2>7, <3>1, <3>2, <4>1 DEF RowHolds
      <3>3. CASE g = Fake /\ Env \cap {"noFileId", "noToken"} # {}
        BY <2>4, <3>1, <3>3, FilesDiffer DEF RowHolds
      <3> QED BY <2>3, <3>2, <3>3
    <2>11. session' \subseteq session \cup {k}
      BY <2>1
    <2> QED BY <2>2, <2>4, <2>5, <2>7, <2>9, <2>10, <2>11, RowWritten
  <1>5. ASSUME NEW k \in req[r].keys, NEW y \in Row, req[r].keys = {k}, Done(r),
               rec' = [rec EXCEPT ![k] = y], UNCHANGED <<session, drive, completed, expired, over>>,
               y.status # None, y.file = rec[k].file,
               y.status = "UPLOADED" <=> rec[k].status = "UPLOADED"
        PROVE  Inv'
    <2>1. RowHolds(k, y, drive, session', completed')
      <3>1. k \in Keys /\ RowHolds(k, rec[k], drive, session, completed)
        BY <1>1
      <3>2. UNCHANGED <<session, completed>>
        BY <1>5
      <3> QED BY <1>5, <3>1, <3>2 DEF RowHolds
    <2>2. CompletedHold(k, y, drive, completed')
      <3>1. CompletedHold(k, rec[k], drive, completed)
        BY <1>1, <1>2
      <3> QED BY <1>5, <3>1 DEF CompletedHold
    <2>3. completed' = completed /\ completed \subseteq Keys \X Files
      BY <1>5 DEF TypeInv
    <2>4. k \in Keys /\ session' \subseteq session \cup {k} /\ UNCHANGED <<drive, expired, over>>
      BY <1>1, <1>5
    <2>5. req[r].keys = {k} /\ Done(r) /\ rec' = [rec EXCEPT ![k] = y]
      BY <1>5
    <2> QED BY <2>1, <2>2, <2>3, <2>4, <2>5, RowWritten
  <1>6. CASE FailWrite(r)
    <2>1. PICK k \in req[r].keys : rec' = [rec EXCEPT ![k] = [rec[k] EXCEPT !.status = "FAILED"]]
      BY <1>6 DEF FailWrite
    <2>2. /\ req[r].pc = "fail" /\ Done(r) /\ UNCHANGED <<session, drive, completed, expired, over>>
          /\ req[r].keys = {k}
      BY <1>0, <1>6, <2>1 DEF FailWrite, OneKey
    <2> DEFINE y == [rec[k] EXCEPT !.status = "FAILED"]
    <2>3. y \in Row /\ y.status = "FAILED" /\ y.file = rec[k].file
      BY <1>1, StatusRow DEF Status
    <2>4. rec[k].status # "UPLOADED"
      BY <1>1, <2>2 DEF Ready
    <2>5. rec' = [rec EXCEPT ![k] = y]
      BY <2>1
    <2> HIDE DEF y
    <2>6. y.status # None
      BY <2>3 DEF None
    <2> QED BY <1>5, <2>2, <2>3, <2>4, <2>5, <2>6
  <1>7. CASE ProgressWrite(r)
    <2>1. PICK k \in req[r].keys : rec' = [rec EXCEPT ![k] = [rec[k] EXCEPT !.status = req[r].status]]
      BY <1>7 DEF ProgressWrite
    <2>2. /\ req[r].pc = "progress" /\ Done(r) /\ UNCHANGED <<session, drive, completed, expired, over>>
          /\ req[r].keys = {k}
      BY <1>0, <1>7, <2>1 DEF ProgressWrite, OneKey
    <2> DEFINE st == req[r].status
               y == [rec[k] EXCEPT !.status = st]
    <2>3. rec[k].status # None /\ st = AfterProgress(rec[k].status)
      BY <1>1, <2>2 DEF Ready
    <2>4. st \in Status /\ st # None /\ (st = "UPLOADED" <=> rec[k].status = "UPLOADED")
      <3>1. rec[k].status \in Status
        BY <1>1, <2>3, RowFields
      <3> QED BY <2>3, <3>1 DEF AfterProgress, Status, None
    <2>5. y \in Row /\ y.status = st /\ y.file = rec[k].file
      BY <1>1, <2>4, StatusRow
    <2>6. rec' = [rec EXCEPT ![k] = y]
      BY <2>1
    <2> HIDE DEF y, st
    <2> QED BY <1>5, <2>2, <2>4, <2>5, <2>6
  <1>8. CASE ReviewWrite(r)
    <2>1. PICK k \in req[r].keys : rec' = [rec EXCEPT ![k] = [rec[k] EXCEPT !.keep = req[r].keep]]
      BY <1>8 DEF ReviewWrite
    <2>2. /\ req[r].pc = "review" /\ Done(r) /\ UNCHANGED <<session, drive, completed, expired, over>>
          /\ req[r].keys = {k}
      BY <1>0, <1>8, <2>1 DEF ReviewWrite, OneKey
    <2> DEFINE y == [rec[k] EXCEPT !.keep = req[r].keep]
    <2>3. y \in Row /\ y.status = rec[k].status /\ y.file = rec[k].file
      BY <1>0, <1>1, KeepRow, RequestFields
    <2>4. rec[k].status # None
      BY <1>1, <2>2 DEF Ready
    <2>5. rec' = [rec EXCEPT ![k] = y]
      BY <2>1
    <2> HIDE DEF y
    <2> QED BY <1>5, <2>2, <2>3, <2>4, <2>5
  <1>9. ASSUME NEW k \in Keys, CleanWrite(r, k)
        PROVE  Inv'
    <2>1. /\ req[r].pc = "clean" /\ k \in req[r].keys /\ UNCHANGED <<session, completed, expired, over>>
          /\ rec' = [rec EXCEPT ![k] = [rec[k] EXCEPT !.file = NoFile]]
      BY <1>9 DEF CleanWrite
    <2> DEFINE y == [rec[k] EXCEPT !.file = NoFile]
    <2>2. y \in Row /\ y.status = rec[k].status /\ y.file = NoFile
      BY <1>1, <2>1, FileRow
    <2>3. rec' = [rec EXCEPT ![k] = y]
      BY <2>1
    <2> HIDE DEF y
    <2>4. rec'[k] = y /\ \A j \in Keys \ {k} : rec'[j] = rec[j]
      BY <2>2, <2>3, RowChanges
    <2>5. rec[k].status = "UPLOADED" /\ rec[k].file # NoFile /\ RowHolds(k, rec[k], drive, session, completed)
      BY <1>1, <2>1 DEF Ready
    <2>6. /\ \A f \in Files : \/ drive'[f] = drive[f]
                              \/ f = rec[k].file /\ drive[f] = "WHOLE" /\ drive'[f] = "GONE"
          /\ Trusted /\ rec[k].file \in Files => drive'[rec[k].file] # "WHOLE"
      <3>1. \/ UNCHANGED drive /\ (~Deletable(rec[k].file) \/ Env \cap {"driveFails", "noToken"} # {})
            \/ Deletable(rec[k].file) /\ drive' = [drive EXCEPT ![rec[k].file] = "GONE"]
        BY <1>9 DEF CleanWrite
      <3> QED BY <3>1 DEF Deletable, Trusted, TypeInv
    <2>12. \A j \in Keys \ {k} : \A f \in Files :
               Stored(j, f, drive, completed) => Stored(j, f, drive', completed')
      <3> SUFFICES ASSUME NEW j \in Keys \ {k}, NEW f \in Files, Stored(j, f, drive, completed)
                   PROVE  Stored(j, f, drive', completed')
        OBVIOUS
      <3>1. CASE drive'[f] = drive[f]
        BY <2>1, <3>1, StoredStays
      <3>2. CASE f = rec[k].file /\ drive'[f] = "GONE"
        <4>1. <<k, f>> \in completed /\ k \in Keys \ {j}
          BY <2>5, <3>2 DEF RowHolds
        <4> QED BY <2>1, <3>2, <4>1, StoredStays
      <3> QED BY <2>6, <3>1, <3>2
    <2>7. PICK n \in Request : /\ req' = [req EXCEPT ![r] = n] /\ OneKey(n)
                               /\ n.keys = req[r].keys \ {k} /\ (n.keys # {} => n.pc = "clean")
      <3>1. CASE req[r].keys = {k}
        <4>1. req' = [req EXCEPT ![r] = NoRequest]
          BY <1>9, <3>1 DEF CleanWrite
        <4> QED BY <3>1, <4>1, NoRequestFields DEF OneKey
      <3>2. CASE req[r].keys # {k}
        <4> DEFINE m == [req[r] EXCEPT !.keys = req[r].keys \ {k}]
        <4>1. m \in Request /\ m.pc = "clean" /\ m.keys = req[r].keys \ {k}
          BY <1>0, <2>1, FewerKeys
        <4>2. req' = [req EXCEPT ![r] = m]
          BY <1>9, <3>2 DEF CleanWrite
        <4> HIDE DEF m
        <4> QED BY <4>1, <4>2 DEF OneKey
      <3> QED BY <3>1, <3>2
    <2>8. ASSUME NEW j \in n.keys
          PROVE  Ready(n, j, rec'[j], drive', completed', expired', over')
      <3>1. j \in req[r].keys /\ j # k /\ n.pc = "clean" /\ rec'[j] = rec[j]
        BY <1>0, <2>4, <2>7
      <3> QED BY <1>1, <2>1, <3>1 DEF Ready
    <2>9. Apart' /\ RequestsReady'
      <3>1. \A j \in Keys \ req[r].keys : rec'[j] = rec[j]
                /\ \A f \in Files : Stored(j, f, drive, completed) => Stored(j, f, drive', completed')
        BY <2>1, <2>4, <2>12
      <3>2. n.keys \subseteq req[r].keys
        BY <2>7
      <3> QED BY <2>1, <2>7, <2>8, <3>1, <3>2, Goes
    <2>10. RowsHold'
      <3> SUFFICES ASSUME NEW j \in Keys
                   PROVE  RowHolds(j, rec'[j], drive', session', completed')
        BY DEF RowsHold
      <3>1. CASE j = k
        BY <2>1, <2>2, <2>4, <2>5, <3>1, FilesDiffer DEF RowHolds, None
      <3>2. CASE j # k
        <4>1. RowHolds(j, rec[j], drive, session, completed)
          BY DEF Inv, RowsHold
        <4> QED BY <2>1, <2>4, <2>12, <3>2, <4>1 DEF RowHolds
      <3> QED BY <3>1, <3>2
    <2>11. CompletedHolds'
      <3> SUFFICES ASSUME NEW j \in Keys, NEW f \in Files, <<j, f>> \in completed
                   PROVE  /\ rec'[j].status = "UPLOADED"
                          /\ "noToken" \notin Env => drive'[f] \in {"WHOLE", "GONE"}
                          /\ Trusted /\ drive'[f] = "WHOLE" => rec'[j].file = f
        BY <2>1 DEF CompletedHolds, CompletedHold
      <3>1. /\ rec[j].status = "UPLOADED"
            /\ "noToken" \notin Env => drive[f] \in {"WHOLE", "GONE"}
            /\ Trusted /\ drive[f] = "WHOLE" => rec[j].file = f
        BY <1>2 DEF CompletedHold
      <3>2. rec'[j].status = "UPLOADED"
        BY <2>2, <2>4, <3>1
      <3>3. "noToken" \notin Env => drive'[f] \in {"WHOLE", "GONE"}
        BY <2>6, <3>1
      <3>4. ASSUME Trusted, drive'[f] = "WHOLE"
            PROVE  rec'[j].file = f
        <4>1. rec[j].file = f
          BY <2>6, <3>1, <3>4
        <4>2. j # k
          BY <2>6, <3>4, <4>1
        <4> QED BY <2>4, <4>1, <4>2
      <3> QED BY <3>2, <3>3, <3>4
    <2> QED BY <2>9, <2>10, <2>11 DEF Inv
  <1> QED BY <1>3, <1>4, <1>6, <1>7, <1>8, <1>9 DEF Writes

LEMMA InvStep ==
    ASSUME "overlap" \notin Env, None \notin Clients, TypeInv, Inv, [Next]_vars
    PROVE  Inv'
  <1>1. CASE UNCHANGED vars
    BY <1>1 DEF vars, Inv, RowsHold, CompletedHolds, Apart, RequestsReady
  <1> QED BY <1>1, OutsideKeeps, ReadsKeep, VerifyKeeps, WritesKeep, NextParts

LEMMA InvInit == Init => Inv
  <1> SUFFICES ASSUME Init PROVE Inv
    OBVIOUS
  <1>1. RowsHold
    BY NoRowFields, FilesDiffer DEF Init, RowsHold, RowHolds, None
  <1>2. CompletedHolds /\ Apart
    BY NoRequestFields DEF Init, CompletedHolds, CompletedHold, Apart
  <1>3. RequestsReady
    BY NoRequestFields DEF Init, RequestsReady, OneKey
  <1> QED BY <1>1, <1>2, <1>3 DEF Inv

LEMMA InvHolds ==
    ASSUME "overlap" \notin Env, None \notin Clients
    PROVE  Spec => []Inv
  <1>1. Init => Inv
    BY InvInit
  <1>2. TypeInv /\ Inv /\ [Next]_vars => Inv'
    BY InvStep
  <1> QED BY <1>1, <1>2, TypesHold, PTL DEF Spec

-----------------------------------------------------------------------------
(* Files                                                                     *)

\* Without overlaps, with Google giving its tokens, a Drive that deletes what it is asked to
\* and apps that name a file, an uploaded recording has its file in the Drive until the
\* clean-up of a recording that was completed with it, and no such file is left there
\* without a recording: whichever file the apps name, also that of another recording.
THEOREM FilesAreKept ==
    ASSUME Env \cap EnvBehaviours = {}, None \notin Clients
    PROVE  Spec => []NoFileIsLost
  <1>0. /\ "overlap" \notin Env /\ "noFileId" \notin Env /\ "noToken" \notin Env
        /\ "driveFails" \notin Env
    BY DEF EnvBehaviours
  <1>1. TypeInv /\ Inv => NoFileIsLost
    <2> SUFFICES ASSUME TypeInv, Inv PROVE NoFileIsLost
      OBVIOUS
    <2>1. ASSUME NEW k \in Keys, rec[k].status = "UPLOADED", rec[k].file # NoFile
          PROVE  rec[k].file \in Files /\ (drive[rec[k].file] = "WHOLE" \/ Shared(k))
      <3>1. rec[k].file \in AnyFile /\ RowHolds(k, rec[k], drive, session, completed)
        BY RowFields DEF TypeInv, Inv, RowsHold
      <3> QED BY <1>0, <2>1, <3>1, FilesAreAny DEF RowHolds, Stored, Shared
    <2>2. ASSUME NEW p \in completed, drive[p[2]] = "WHOLE"
          PROVE  \E k \in Keys : rec[k].file = p[2]
      <3>1. p[1] \in Keys /\ p[2] \in Files /\ p = <<p[1], p[2]>>
        BY DEF TypeInv
      <3> QED BY <1>0, <2>2, <3>1 DEF Inv, CompletedHolds, CompletedHold, Trusted
    <2> QED BY <2>1, <2>2 DEF NoFileIsLost
  <1> QED BY <1>0, <1>1, InvHolds, TypesHold, PTL

-----------------------------------------------------------------------------
(* What a step may never do                                                  *)

StatusStays == \A k \in Keys : rec[k].status = "UPLOADED" => rec'[k].status = "UPLOADED"

LEMMA StatusStep ==
    ASSUME TypeInv, Inv, [Next]_vars
    PROVE  StatusStays
  <1> SUFFICES ASSUME NEW k \in Keys, rec[k].status = "UPLOADED"
               PROVE  rec'[k].status = "UPLOADED"
    BY DEF StatusStays
  <1>1. rec[k] \in Row
    BY DEF TypeInv
  <1>2. CASE UNCHANGED rec
    BY <1>2
  <1>3. ASSUME NEW r \in Requests, Writes(r)
        PROVE  rec'[k].status = "UPLOADED"
    <2>1. req[r].keys \subseteq Keys /\ \A j \in req[r].keys : Ready(req[r], j, rec[j], drive, completed, expired, over)
      BY RequestFields DEF TypeInv, Inv, RequestsReady
    <2>2. CASE SessionWrite(r)
      <3>1. PICK j \in req[r].keys :
                \/ UNCHANGED rec
                \/ /\ ~Exists(j)
                   /\ rec' = [rec EXCEPT ![j] = [NoRow EXCEPT !.status = "PENDING_UPLOAD",
                                                              !.client = req[r].client]]
                \/ /\ req[r].client = None /\ req[r].pc = "session"
                   /\ rec' = [rec EXCEPT ![j] = [rec[j] EXCEPT !.status = "PENDING_UPLOAD"]]
        BY <2>2 DEF SessionWrite
      <3>2. UNCHANGED rec \/ j # k
        BY <2>1, <3>1, NoRowFields DEF Exists, Ready, None
      <3> QED BY <3>1, <3>2 DEF TypeInv
    <2>3. CASE CompleteWrite(r)
      <3>1. PICK j \in req[r].keys :
                rec' = [rec EXCEPT ![j] = [rec[j] EXCEPT !.status = "UPLOADED", !.file = req[r].file]]
        BY <2>3 DEF CompleteWrite
      <3>2. [rec[k] EXCEPT !.status = "UPLOADED", !.file = req[r].file].status = "UPLOADED"
        BY <1>1 DEF Row
      <3> QED BY <3>1, <3>2 DEF TypeInv
    <2>4. CASE FailWrite(r)
      <3>1. PICK j \in req[r].keys : rec' = [rec EXCEPT ![j] = [rec[j] EXCEPT !.status = "FAILED"]]
        BY <2>4 DEF FailWrite
      <3>2. j # k
        BY <2>1, <2>4 DEF FailWrite, Ready
      <3> QED BY <3>1, <3>2 DEF TypeInv
    <2>5. CASE ProgressWrite(r)
      <3>1. PICK j \in req[r].keys : rec' = [rec EXCEPT ![j] = [rec[j] EXCEPT !.status = req[r].status]]
        BY <2>5 DEF ProgressWrite
      <3>2. j = k => req[r].status = "UPLOADED"
        BY <2>1, <2>5 DEF ProgressWrite, Ready, AfterProgress
      <3>3. [rec[k] EXCEPT !.status = req[r].status].status = req[r].status
        BY <1>1 DEF Row
      <3> QED BY <3>1, <3>2, <3>3 DEF TypeInv
    <2>6. CASE ReviewWrite(r)
      <3>1. PICK j \in req[r].keys : rec' = [rec EXCEPT ![j] = [rec[j] EXCEPT !.keep = req[r].keep]]
        BY <2>6 DEF ReviewWrite
      <3>2. [rec[k] EXCEPT !.keep = req[r].keep].status = "UPLOADED"
        BY <1>1 DEF Row
      <3> QED BY <3>1, <3>2 DEF TypeInv
    <2>7. ASSUME NEW j \in Keys, CleanWrite(r, j)
          PROVE  rec'[k].status = "UPLOADED"
      <3>1. rec' = [rec EXCEPT ![j] = [rec[j] EXCEPT !.file = NoFile]]
        BY <2>7 DEF CleanWrite
      <3>2. [rec[k] EXCEPT !.file = NoFile].status = "UPLOADED"
        BY <1>1, FileRow
      <3> QED BY <3>1, <3>2 DEF TypeInv
    <2> QED BY <1>3, <2>2, <2>3, <2>4, <2>5, <2>6, <2>7 DEF Writes
  <1>4. Outside => UNCHANGED rec
    BY DEF Outside, TournamentOver, SessionEnds, RetentionEnds, Upload
  <1>5. \A r \in Requests : Reads(r) \/ Verify(r) => UNCHANGED rec
    BY ReadTypes, VerifyTypes DEF Quiet
  <1> QED BY <1>2, <1>3, <1>4, <1>5, NextParts DEF vars

\* Without overlaps no report of progress, refreshed session or second completion takes an
\* uploaded recording back.
THEOREM UploadIsFinal ==
    ASSUME "overlap" \notin Env, None \notin Clients
    PROVE  Spec => UploadedIsFinal
  <1>1. TypeInv /\ Inv /\ [Next]_vars => [StatusStays]_vars
    BY StatusStep
  <1>2. Spec => [][StatusStays]_vars
    BY <1>1, InvHolds, TypesHold, PTL DEF Spec
  <1> QED BY <1>2 DEF UploadedIsFinal, StatusStays

-----------------------------------------------------------------------------
(* Recordings that are kept                                                  *)

Dropped(k) == \E r \in Requests : req[r].keys = {k} /\ req[r].asked = "drop"

KeptStay ==
    \A k \in Keys : rec[k].keep =>
        /\ (Deletable(rec[k].file) /\ drive'[rec[k].file] = "GONE") => Shared(k)
        /\ ~rec'[k].keep => Dropped(k)

LEMMA KeptStep ==
    ASSUME TypeInv, Inv, [Next]_vars
    PROVE  KeptStay
  <1> SUFFICES ASSUME NEW k \in Keys, rec[k].keep
               PROVE  /\ (Deletable(rec[k].file) /\ drive'[rec[k].file] = "GONE") => Shared(k)
                      /\ ~rec'[k].keep => Dropped(k)
    BY DEF KeptStay
  <1>1. rec[k] \in Row
    BY DEF TypeInv
  <1>2. CASE UNCHANGED <<rec, drive>>
    BY <1>2 DEF Deletable
  <1>3. ASSUME NEW j \in Keys, NEW a \in Attempts, Upload(j, a)
        PROVE  UNCHANGED rec /\ ((Deletable(rec[k].file) /\ drive'[rec[k].file] = "GONE") => Shared(k))
    BY <1>3 DEF Upload, TypeInv, Deletable
  <1>4. ASSUME NEW r \in Requests, Writes(r)
        PROVE  /\ (Deletable(rec[k].file) /\ drive'[rec[k].file] = "GONE") => Shared(k)
               /\ ~rec'[k].keep => Dropped(k)
    <2>1. /\ req[r] \in Request /\ req[r].keys \subseteq Keys /\ OneKey(req[r])
          /\ \A j \in req[r].keys : Ready(req[r], j, rec[j], drive, completed, expired, over)
      BY RequestFields DEF TypeInv, Inv, RequestsReady
    <2>2. ASSUME NEW j \in Keys, NEW y \in Row, rec' = [rec EXCEPT ![j] = y], UNCHANGED drive,
                 j = k /\ ~y.keep => Dropped(k)
          PROVE  /\ (Deletable(rec[k].file) /\ drive'[rec[k].file] = "GONE") => Shared(k)
                 /\ ~rec'[k].keep => Dropped(k)
      BY <2>2, RowChanges DEF Deletable
    <2>3. CASE SessionWrite(r)
      <3>1. PICK j \in req[r].keys :
                \/ UNCHANGED rec
                \/ /\ ~Exists(j) /\ req[r].client # None
                   /\ rec' = [rec EXCEPT ![j] = [NoRow EXCEPT !.status = "PENDING_UPLOAD",
                                                              !.client = req[r].client]]
                \/ rec' = [rec EXCEPT ![j] = [rec[j] EXCEPT !.status = "PENDING_UPLOAD"]]
        BY <2>3 DEF SessionWrite
      <3>2. UNCHANGED drive /\ j \in Keys
        BY <2>1, <2>3 DEF SessionWrite
      <3>3. ASSUME ~Exists(j), req[r].client # None
            PROVE  /\ j # k
                   /\ [NoRow EXCEPT !.status = "PENDING_UPLOAD", !.client = req[r].client] \in Row
        <4>1. req[r].client \in Clients
          BY <2>1, <3>3, RequestFields
        <4> QED BY <3>3, <4>1, NewRow, NoRowFields DEF Exists
      <3>4. /\ [rec[j] EXCEPT !.status = "PENDING_UPLOAD"] \in Row
            /\ [rec[j] EXCEPT !.status = "PENDING_UPLOAD"].keep = rec[j].keep
        BY <3>2, StatusRow DEF TypeInv, Status
      <3> QED BY <1>2, <2>2, <3>1, <3>2, <3>3, <3>4
    <2>4. CASE CompleteWrite(r)
      <3>1. PICK j \in req[r].keys :
                rec' = [rec EXCEPT ![j] = [rec[j] EXCEPT !.status = "UPLOADED", !.file = req[r].file]]
        BY <2>4 DEF CompleteWrite
      <3> DEFINE y == [rec[j] EXCEPT !.status = "UPLOADED", !.file = req[r].file]
      <3>2. y \in Row /\ y.keep = rec[j].keep
        BY <2>1, UploadedRow, RequestFields DEF TypeInv
      <3>3. rec' = [rec EXCEPT ![j] = y] /\ UNCHANGED drive /\ j \in Keys
        BY <2>1, <2>4, <3>1 DEF CompleteWrite
      <3> HIDE DEF y
      <3> QED BY <2>2, <3>2, <3>3
    <2>5. CASE FailWrite(r)
      <3>1. PICK j \in req[r].keys : rec' = [rec EXCEPT ![j] = [rec[j] EXCEPT !.status = "FAILED"]]
        BY <2>5 DEF FailWrite
      <3> DEFINE y == [rec[j] EXCEPT !.status = "FAILED"]
      <3>2. y \in Row /\ y.keep = rec[j].keep
        BY <2>1, StatusRow DEF TypeInv, Status
      <3>3. rec' = [rec EXCEPT ![j] = y] /\ UNCHANGED drive /\ j \in Keys
        BY <2>1, <2>5, <3>1 DEF FailWrite
      <3> HIDE DEF y
      <3> QED BY <2>2, <3>2, <3>3
    <2>6. CASE ProgressWrite(r)
      <3>1. PICK j \in req[r].keys : rec' = [rec EXCEPT ![j] = [rec[j] EXCEPT !.status = req[r].status]]
        BY <2>6 DEF ProgressWrite
      <3> DEFINE y == [rec[j] EXCEPT !.status = req[r].status]
      <3>2. y \in Row /\ y.keep = rec[j].keep
        <4>1. req[r].status \in Status \cup {None} /\ rec[j] \in Row
          BY <2>1, RequestFields DEF TypeInv
        <4> QED BY <4>1 DEF Row
      <3>3. rec' = [rec EXCEPT ![j] = y] /\ UNCHANGED drive /\ j \in Keys
        BY <2>1, <2>6, <3>1 DEF ProgressWrite
      <3> HIDE DEF y
      <3> QED BY <2>2, <3>2, <3>3
    <2>7. CASE ReviewWrite(r)
      <3>1. PICK j \in req[r].keys : rec' = [rec EXCEPT ![j] = [rec[j] EXCEPT !.keep = req[r].keep]]
        BY <2>7 DEF ReviewWrite
      <3>2. req[r].pc = "review" /\ req[r].keys = {j} /\ UNCHANGED drive /\ j \in Keys
        BY <2>1, <2>7, <3>1 DEF ReviewWrite, OneKey
      <3> DEFINE y == [rec[j] EXCEPT !.keep = req[r].keep]
      <3>3. y \in Row /\ (y.keep <=> req[r].keep)
        BY <2>1, KeepRow, RequestFields DEF TypeInv
      <3>4. rec' = [rec EXCEPT ![j] = y]
        BY <3>1
      <3> HIDE DEF y
      <3>5. /\ req[r].asked \in {"keep", "drop", "note"}
            /\ req[r].keep <=> KeepAfter(req[r].asked, rec[j].keep)
        BY <2>1, <3>1, <3>2 DEF Ready
      <3>6. j = k /\ ~req[r].keep => req[r].asked = "drop"
        BY <3>5 DEF KeepAfter
      <3> QED BY <2>2, <3>2, <3>3, <3>4, <3>6 DEF Dropped
    <2>8. ASSUME NEW j \in Keys, CleanWrite(r, j)
          PROVE  /\ (Deletable(rec[k].file) /\ drive'[rec[k].file] = "GONE") => Shared(k)
                 /\ ~rec'[k].keep => Dropped(k)
      <3>1. rec' = [rec EXCEPT ![j] = [rec[j] EXCEPT !.file = NoFile]] /\ j # k
        BY <2>1, <2>8 DEF CleanWrite, Ready
      <3>2. rec[j].file \in Files => <<j, rec[j].file>> \in completed
        BY DEF Inv, RowsHold, RowHolds
      <3>3. (Deletable(rec[k].file) /\ drive'[rec[k].file] = "GONE") => Shared(k)
        <4> SUFFICES ASSUME Deletable(rec[k].file), drive'[rec[k].file] = "GONE"
                     PROVE  Shared(k)
          OBVIOUS
        <4>1. rec[k].file \in Files /\ drive[rec[k].file] = "WHOLE"
          BY DEF Deletable
        <4>2. rec[j].file = rec[k].file
          BY <2>8, <4>1 DEF CleanWrite, TypeInv
        <4> QED BY <3>1, <3>2, <4>1, <4>2 DEF Shared
      <3>4. rec'[k] = rec[k]
        BY <3>1 DEF TypeInv
      <3> QED BY <3>3, <3>4
    <2> QED BY <1>4, <2>3, <2>4, <2>5, <2>6, <2>7, <2>8 DEF Writes
  <1>5. CASE Outside
    <2>1. (\E j \in Keys, a \in Attempts : Upload(j, a)) \/ UNCHANGED <<rec, drive>>
      BY <1>5 DEF Outside, TournamentOver, SessionEnds, RetentionEnds
    <2> QED BY <1>2, <1>3, <2>1
  <1>6. ASSUME NEW r \in Requests, Reads(r) \/ Verify(r)
        PROVE  UNCHANGED <<rec, drive>>
    BY <1>6, ReadTypes, VerifyTypes DEF Quiet
  <1>7. CASE UNCHANGED vars
    BY <1>2, <1>7 DEF vars
  <1> QED BY <1>2, <1>4, <1>5, <1>6, <1>7, NextParts

\* Where the requests for one recording do not overlap, the file of a recording an admin
\* keeps is deleted only as that of another recording, which was completed with the same id,
\* and the recording is dropped only when an admin asks for that.
THEOREM KeptStays ==
    ASSUME "overlap" \notin Env, None \notin Clients
    PROVE  Spec => KeptFileStays
  <1>1. TypeInv /\ Inv /\ [Next]_vars => [KeptStay]_vars
    BY KeptStep
  <1>2. [KeptStay]_vars =>
            [\A k \in Keys : rec[k].keep =>
                /\ (Deletable(rec[k].file) /\ drive'[rec[k].file] = "GONE") => Shared(k)
                /\ ~rec'[k].keep => \E r \in Requests : req[r].keys = {k} /\ req[r].asked = "drop"]_vars
    BY DEF KeptStay, Dropped
  <1> QED BY <1>1, <1>2, InvHolds, TypesHold, PTL DEF Spec, KeptFileStays
=============================================================================
