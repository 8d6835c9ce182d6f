----------------------------- MODULE Recordings -----------------------------
(***************************************************************************)
(* Match recordings of one player: recordings.service.ts with the row in   *)
(* the database, the upload session in Redis and the file in the Drive.    *)
(*                                                                         *)
(* Every request reads the row, talks to the Drive and writes the row by   *)
(* its id, whatever the row has become meanwhile.  The checks of           *)
(* initRecording on the member and the room are those of MatchAccess.      *)
(***************************************************************************)
EXTENDS Integers, FiniteSets

CONSTANTS
    Keys,            \* matches of the player (matchKey)
    Clients,         \* client_recording_id values the app chooses from
    Attempts,        \* files a client may upload for one match
    Requests, Env

EnvBehaviours == {
    "overlap",       \* requests for one recording run beside each other
    "noFileId",      \* an app completes an upload without naming its file
    "noToken",       \* Google refuses to exchange the refresh token
    "driveFails" }   \* the Drive does not delete a file of the clean-up

VARIABLES
    rec,             \* matchRecording rows by match
    session,         \* matches whose upload session in Redis is valid
    drive,           \* files of the Drive
    completed,       \* history: recordings with the file they were completed with
    expired,         \* matches whose recording was uploaded before the cutoff
    over,            \* the tournament is COMPLETED
    req              \* requests in flight

vars == <<rec, session, drive, completed, expired, over, req>>

None == "none"
NoFile == <<>>
Fake == <<"fake">>     \* an id no file has
Status == {"PENDING_UPLOAD", "UPLOADING", "UPLOADED", "FAILED"}
NoRow == [status |-> None, client |-> None, file |-> NoFile, keep |-> FALSE]
NoRequest == [pc |-> "idle", keys |-> {}, client |-> None, file |-> NoFile,
              status |-> None, keep |-> FALSE, asked |-> None]
Files == Keys \X Attempts
AnyFile == Files \cup {NoFile, Fake}
DriveState == {"NONE", "PART", "WHOLE", "GONE"}     \* the id of a deleted file is not used again
Exists(k) == rec[k] # NoRow
Free(k) == "overlap" \in Env \/ \A r \in Requests : k \notin req[r].keys

TypeOK ==
    /\ \A k \in Keys : /\ rec[k].status \in Status \cup {None} /\ rec[k].client \in Clients \cup {None}
                       /\ rec[k].file \in AnyFile /\ rec[k].keep \in BOOLEAN
    /\ session \subseteq Keys /\ completed \subseteq Keys \X Files
    /\ drive \in [Files -> DriveState] /\ expired \subseteq Keys /\ over \in BOOLEAN
    /\ \A r \in Requests : req[r].pc \in {"idle", "session", "verify", "finish", "fail",
                                          "progress", "clean", "review"}

Init ==
    /\ rec = [k \in Keys |-> NoRow] /\ session = {} /\ completed = {}
    /\ drive = [f \in Files |-> "NONE"] /\ expired = {} /\ over = FALSE
    /\ req = [r \in Requests |-> NoRequest]

Begin(r, next) == req[r].pc = "idle" /\ req' = [req EXCEPT ![r] = next]
Done(r) == req' = [req EXCEPT ![r] = NoRequest]

-----------------------------------------------------------------------------
(* initRecording and getUploadSession                                        *)

\* The row of this match, or of this client id.
Existing(k, c) == {j \in Keys : Exists(j) /\ (j = k \/ rec[j].client = c)}

\* A valid session is given again, which changes nothing.  Otherwise the Drive is asked for
\* one; when it fails nothing has changed.
InitRead(r, k, c) ==
    /\ Free(k)
    /\ \/ \E j \in Existing(k, c) :
            /\ rec[j].status # "UPLOADED"                       \* RECORDING_ALREADY_UPLOADED
            /\ j \notin session /\ Free(j)
            /\ Begin(r, [NoRequest EXCEPT !.pc = "session", !.keys = {j}])
       \/ /\ Existing(k, c) = {}
          /\ Begin(r, [NoRequest EXCEPT !.pc = "session", !.keys = {k}, !.client = c])
    /\ UNCHANGED <<rec, session, drive, completed, expired, over>>

SessionRead(r, k) ==
    /\ Free(k) /\ Exists(k) /\ rec[k].status # "UPLOADED" /\ k \notin session
    /\ Begin(r, [NoRequest EXCEPT !.pc = "session", !.keys = {k}])
    /\ UNCHANGED <<rec, session, drive, completed, expired, over>>

\* The session is stored and the row created, or set back to PENDING_UPLOAD by its id.
\* The unique indexes on match and client id make a second creation throw.
SessionWrite(r) ==
    /\ req[r].pc = "session" /\ Done(r)
    /\ \E k \in req[r].keys :
        LET new == req[r].client # None
        IN  IF new /\ (Exists(k) \/ \E j \in Keys : rec[j].client = req[r].client)
            THEN UNCHANGED <<rec, session>>
            ELSE /\ rec' = IF new THEN [rec EXCEPT ![k] = [NoRow EXCEPT !.status = "PENDING_UPLOAD",
                                                               !.client = req[r].client]]
                           ELSE [rec EXCEPT ![k].status = "PENDING_UPLOAD"]
                 /\ session' = session \cup {k}
    /\ UNCHANGED <<drive, completed, expired, over>>

\* The time of a session is over.
SessionEnds(k) ==
    /\ k \in session /\ session' = session \ {k}
    /\ UNCHANGED <<rec, drive, completed, expired, over, req>>

\* The app uploads, in as many parts as it likes.
Upload(k, a) ==
    /\ k \in session /\ drive[<<k, a>>] \in {"NONE", "PART"}
    /\ \E part \in {"PART", "WHOLE"} : /\ part # drive[<<k, a>>]
                                       /\ drive' = [drive EXCEPT ![<<k, a>>] = part]
    /\ UNCHANGED <<rec, session, completed, expired, over, req>>

-----------------------------------------------------------------------------
(* completeRecording                                                         *)

\* Mutant: an uploaded recording is completed once more.
ToCompleteAgain(k) == Exists(k)

ToComplete(k) == Exists(k) /\ rec[k].status # "UPLOADED"

\* The app may name any file: nothing ties an id to a recording, and no index keeps two
\* recordings from having the same one.
CompleteRead(r, k, f) ==
    /\ Free(k) /\ ToComplete(k)
    /\ f = NoFile => "noFileId" \in Env
    /\ Begin(r, [NoRequest EXCEPT !.pc = "verify", !.keys = {k}, !.file = f])
    /\ UNCHANGED <<rec, session, drive, completed, expired, over>>

\* Size and type are those the app declares.
Verifies(f) == drive[f] = "WHOLE"

\* Nothing ever stores recording:file_id, so without a file id the branch for tests is
\* taken, which compares the declared sizes and invents an id.  Without a token it is taken
\* too, and keeps the id that was named, whatever it is the id of.
Verify(r) ==
    /\ req[r].pc = "verify"
    /\ \/ req' = [req EXCEPT ![r].pc = "fail"]       \* wrong size or type, 404, network error
       \/ /\ req[r].file = NoFile
          /\ req' = [req EXCEPT ![r].pc = "finish", ![r].file = Fake]
       \/ /\ "noToken" \in Env /\ req[r].file # NoFile
          /\ req' = [req EXCEPT ![r].pc = "finish"]
       \/ /\ req[r].file \in Files /\ Verifies(req[r].file)
          /\ req' = [req EXCEPT ![r].pc = "finish"]
    /\ UNCHANGED <<rec, session, drive, completed, expired, over>>

CompleteWrite(r) ==
    /\ req[r].pc = "finish" /\ Done(r)
    /\ \E k \in req[r].keys :
        /\ rec' = [rec EXCEPT ![k] = [rec[k] EXCEPT !.status = "UPLOADED", !.file = req[r].file]]
        /\ session' = session \ {k}
        /\ completed' = completed \cup ({k} \X ({req[r].file} \cap Files))
    /\ UNCHANGED <<drive, expired, over>>

\* markRecordingFailed
FailWrite(r) ==
    /\ req[r].pc = "fail" /\ Done(r)
    /\ \E k \in req[r].keys : rec' = [rec EXCEPT ![k].status = "FAILED"]
    /\ UNCHANGED <<session, drive, completed, expired, over>>

-----------------------------------------------------------------------------
(* updateProgress, updateAdminRecording and cleanExpiredRecordings           *)

\* Mutant: progress means that the upload is running.
AfterProgressAlways(status) == "UPLOADING"

AfterProgress(status) == IF status = "PENDING_UPLOAD" THEN "UPLOADING" ELSE status

ProgressRead(r, k) ==
    /\ Free(k) /\ Exists(k)
    /\ Begin(r, [NoRequest EXCEPT !.pc = "progress", !.keys = {k},
                                  !.status = AfterProgress(rec[k].status)])
    /\ UNCHANGED <<rec, session, drive, completed, expired, over>>

ProgressWrite(r) ==
    /\ req[r].pc = "progress" /\ Done(r)
    /\ \E k \in req[r].keys : rec' = [rec EXCEPT ![k].status = req[r].status]
    /\ UNCHANGED <<session, drive, completed, expired, over>>

\* A field that is not sent is written with the value that was read.
KeepAfter(asked, keep) == CASE asked = "keep" -> TRUE [] asked = "drop" -> FALSE [] OTHER -> keep

ReviewRead(r, k, asked) ==
    /\ Free(k) /\ Exists(k)
    /\ Begin(r, [NoRequest EXCEPT !.pc = "review", !.keys = {k}, !.asked = asked,
                                  !.keep = KeepAfter(asked, rec[k].keep)])
    /\ UNCHANGED <<rec, session, drive, completed, expired, over>>

ReviewWrite(r) ==
    /\ req[r].pc = "review" /\ Done(r)
    /\ \E k \in req[r].keys : rec' = [rec EXCEPT ![k].keep = req[r].keep]
    /\ UNCHANGED <<session, drive, completed, expired, over>>

\* Mutant: a recording an admin keeps is cleaned up as well.
ToCleanKept(k) == rec[k].status = "UPLOADED" /\ rec[k].file # NoFile /\ k \in expired /\ over

ToClean(k) ==
    rec[k].status = "UPLOADED" /\ rec[k].file # NoFile /\ ~rec[k].keep /\ k \in expired /\ over

CleanRead(r) ==
    LET old == {k \in Keys : ToClean(k)}
    IN  /\ old # {} /\ \A k \in old : Free(k)
        /\ Begin(r, [NoRequest EXCEPT !.pc = "clean", !.keys = old])
        /\ UNCHANGED <<rec, session, drive, completed, expired, over>>

Deletable(f) == f \in Files /\ drive[f] = "WHOLE"

\* The row forgets its file also when the Drive has not deleted it.
CleanWrite(r, k) ==
    /\ req[r].pc = "clean" /\ k \in req[r].keys
    /\ req' = [req EXCEPT ![r] = IF req[r].keys = {k} THEN NoRequest
                                 ELSE [req[r] EXCEPT !.keys = req[r].keys \ {k}]]
    /\ rec' = [rec EXCEPT ![k].file = NoFile]
    /\ \/ Deletable(rec[k].file) /\ drive' = [drive EXCEPT ![rec[k].file] = "GONE"]
       \/ /\ ~Deletable(rec[k].file) \/ Env \cap {"driveFails", "noToken"} # {}
          /\ UNCHANGED drive
    /\ UNCHANGED <<session, completed, expired, over>>

\* The tournament is completed and time passes.
TournamentOver ==
    /\ ~over /\ over' = TRUE
    /\ UNCHANGED <<rec, session, drive, completed, expired, req>>
RetentionEnds(k) ==
    /\ rec[k].status = "UPLOADED" /\ k \notin expired /\ expired' = expired \cup {k}
    /\ UNCHANGED <<rec, session, drive, completed, over, req>>

-----------------------------------------------------------------------------
Next ==
    \/ TournamentOver
    \/ \E k \in Keys : SessionEnds(k) \/ RetentionEnds(k) \/ \E a \in Attempts : Upload(k, a)
    \/ \E r \in Requests :
        \/ SessionWrite(r) \/ Verify(r) \/ CompleteWrite(r) \/ FailWrite(r)
        \/ ProgressWrite(r) \/ ReviewWrite(r) \/ CleanRead(r)
        \/ \E k \in Keys :
            \/ SessionRead(r, k) \/ ProgressRead(r, k) \/ CleanWrite(r, k)
            \/ \E c \in Clients : InitRead(r, k, c)
            \/ \E f \in AnyFile : CompleteRead(r, k, f)
            \/ \E asked \in {"keep", "drop", "note"} : ReviewRead(r, k, asked)

Spec == Init /\ [][Next]_vars

-----------------------------------------------------------------------------
(* Properties *)

\* An uploaded recording stays one: no report of progress, refreshed session or second
\* completion that read the row before takes it back.
UploadedIsFinal ==
    [][\A k \in Keys : rec[k].status = "UPLOADED" => rec'[k].status = "UPLOADED"]_vars

\* Another recording was completed with the file of this one as well.
Shared(k) == \E j \in Keys \ {k} : <<j, rec[k].file>> \in completed

\* As long as Google gives a token and apps name a file, an uploaded recording has its whole
\* file in the Drive until it is cleaned up, or until another recording is that was completed
\* with the same file; and no such file is left in the Drive with no recording that knows
\* of it.
NoFileIsLost ==
    /\ \A k \in Keys : (rec[k].status = "UPLOADED" /\ rec[k].file # NoFile) =>
           rec[k].file \in Files /\ (drive[rec[k].file] = "WHOLE" \/ Shared(k))
    /\ \A p \in completed : drive[p[2]] = "WHOLE" => \E k \in Keys : rec[k].file = p[2]

\* The file of a recording an admin keeps is deleted only as that of another recording, which
\* was completed with the same id, and a recording is dropped only because an admin asked
\* for that.
KeptFileStays ==
    [][\A k \in Keys : rec[k].keep =>
           /\ (Deletable(rec[k].file) /\ drive'[rec[k].file] = "GONE") => Shared(k)
           /\ ~rec'[k].keep => \E r \in Requests : req[r].keys = {k} /\ req[r].asked = "drop"]_vars
=============================================================================
