----------------------- MODULE TournamentLifecycle -----------------------
(***************************************************************************)
(* The life of one tournament: the status that scheduler runs and admin    *)
(* requests both write, and the notices (room credentials of the           *)
(* tournament and of its matches, match reminders) that must go out once.  *)
(*                                                                         *)
(* checkAndRunLifecycle runs at boot, every minute, and in every instance  *)
(* of the server, so runs overlap.  A run is a list of find-then-update    *)
(* stages; each database call is one step.  Time is a small integer: a     *)
(* run keeps the `now` it took at its start.                               *)
(***************************************************************************)
EXTENDS Integers, FiniteSets

CONSTANTS
    Runs,            \* scheduler runs that can be in progress together
    Admins,          \* admin requests that can be in flight together
    Matches,         \* matches of the tournament, created or not
    MaxTime,         \* bound on the clock
    RoomLead,        \* ROOM_RELEASE_MINUTES, in units of the clock
    MaxFailures,     \* bound on the runs that die half-way
    Env              \* the outside behaviours that are possible

EnvBehaviours == {
    "overlap",       \* an admin request runs beside others and beside runs
    "lateMatch",     \* a match is created while a run is on its way
    "reschedule",    \* startsAt or registrationClosesAt is edited
    "rooms",         \* room credentials are set
    "editRoom",      \* the room of the tournament is set again
    "unpublish",     \* a match's room is saved with is_published = false
    "round1",        \* generateRound1
    "publish" }      \* the format is published

Tournament == "tournament"
ASSUME MatchesAssumption  == Tournament \notin Matches
ASSUME TimeAssumption     == MaxTime \in Nat /\ RoomLead \in Nat /\ MaxFailures \in Nat
ASSUME EnvAssumption      == Env \subseteq EnvBehaviours

TournamentStatus == {"DRAFT", "UPCOMING", "REGISTRATION_OPEN", "REGISTRATION_CLOSED",
                     "LIVE", "COMPLETED", "CANCELLED"}
\* NONE: the match does not exist yet.  Nothing ever sets a match LIVE.
MatchStatus == {"NONE", "SCHEDULED", "COMPLETED"}
BeforeStart == {"UPCOMING", "REGISTRATION_OPEN", "REGISTRATION_CLOSED"}

\* What must go out once: <<kind, whose>>.
Notices == {<<"room", Tournament>>} \cup ({"matchRoom", "reminder"} \X Matches)
NoticesOf(kind) == {n \in Notices : n[1] = kind}

FindPcs == {"closeFind", "room", "matchRoom", "reminder", "liveFind", "completeFind"}
RunPcs == {"idle", "closeWrite", "claim", "emit", "liveWrite", "completeWrite"} \cup FindPcs

Times == 0..MaxTime
RunRecord == [
    pc   : RunPcs,
    now  : Times,
    kind : {"none", "room", "matchRoom", "reminder"},   \* the notices being sent
    todo : SUBSET Notices,                              \* found, not handled yet
    mine : SUBSET Notices]                              \* claimed, not emitted yet
AdminRecord == [
    pc       : {"idle", "statusWrite", "roomWrite", "roundWrite", "publishWrite"},
    target   : TournamentStatus,
    released : BOOLEAN]          \* roomReleasedAt is written as not null

VARIABLES
    status,          \* tournament.status
    closesAt,        \* tournament.registrationClosesAt
    startsAt,        \* tournament.startsAt
    formatLocked,    \* tournament.isFormatLocked
    round1,          \* round 1 is LIVE
    fullField,       \* as many teams are confirmed as round 1 needs
    match,           \* match row: [status, at]
    hasRoom,         \* owners whose roomId is set
    marked,          \* notices whose roomReleasedAt or reminderSentAt is set
    sent,            \* how often the scheduler emitted a notice
    now,             \* the clock
    run,             \* scheduler runs
    adm,             \* admin requests
    failures         \* runs that died

dates == <<closesAt, startsAt>>
format == <<formatLocked, round1, fullField>>
vars == <<status, dates, format, match, hasRoom, marked, sent, now, run, adm, failures>>

NoRun == [pc |-> "idle", now |-> 0, kind |-> "none", todo |-> {}, mine |-> {}]
NoRequest == [pc |-> "idle", target |-> "DRAFT", released |-> FALSE]

TypeOK ==
    /\ status \in TournamentStatus
    /\ closesAt \in Times /\ startsAt \in Times
    /\ formatLocked \in BOOLEAN /\ round1 \in BOOLEAN /\ fullField \in BOOLEAN
    /\ match \in [Matches -> [status : MatchStatus, at : Times]]
    /\ hasRoom \subseteq Matches \cup {Tournament}
    /\ marked \subseteq Notices
    /\ sent \in [Notices -> 0..2]
    /\ now \in Times
    /\ run \in [Runs -> RunRecord]
    /\ \A r \in Runs : /\ run[r].pc = "emit" <=> run[r].mine # {}
                       /\ run[r].pc \in {"claim", "emit"} => run[r].kind # "none"
    /\ adm \in [Admins -> AdminRecord]
    /\ failures \in 0..MaxFailures

\* A tournament is created DRAFT; rows of the older flow are REGISTRATION_OPEN.
Init ==
    /\ status \in {"DRAFT", "REGISTRATION_OPEN"}
    /\ startsAt \in Times /\ closesAt \in Times /\ closesAt < startsAt
    /\ formatLocked = FALSE /\ round1 = FALSE /\ fullField = FALSE
    /\ match = [m \in Matches |-> [status |-> "NONE", at |-> 0]]
    /\ hasRoom = {}
    /\ marked = {}
    /\ sent = [n \in Notices |-> 0]
    /\ now = 0
    /\ run = [r \in Runs |-> NoRun]
    /\ adm = [a \in Admins |-> NoRequest]
    /\ failures = 0

Created == {m \in Matches : match[m].status # "NONE"}
AllPlayed == Created # {} /\ \A m \in Created : match[m].status = "COMPLETED"

\* Without "overlap" an admin request has the database for itself.
Quiet == "overlap" \in Env \/ \A a \in Admins : adm[a].pc = "idle"
Alone == "overlap" \in Env \/ (Quiet /\ \A r \in Runs : run[r].pc = "idle")

-----------------------------------------------------------------------------
(* checkAndRunLifecycle *)

Goto(r, pc) == run' = [run EXCEPT ![r].pc = pc]

StartRun(r) ==
    /\ run[r].pc = "idle" /\ Quiet
    /\ run' = [run EXCEPT ![r] = [NoRun EXCEPT !.pc = "closeFind", !.now = now]]
    /\ UNCHANGED <<status, dates, format, match, hasRoom, marked, sent, now, adm, failures>>

CloseFind(r) ==
    LET found == status = "REGISTRATION_OPEN" /\ closesAt <= run[r].now
    IN  /\ run[r].pc = "closeFind"
        /\ \/ found /\ Goto(r, "closeWrite")
           \/ ~found /\ Goto(r, "room")
        /\ UNCHANGED <<status, dates, format, match, hasRoom, marked, sent, now, adm, failures>>

\* Every status write of a run is by id, whatever the status is by now.
CloseWrite(r) ==
    /\ run[r].pc = "closeWrite"
    /\ status' = "REGISTRATION_CLOSED"
    /\ Goto(r, "room")
    /\ UNCHANGED <<dates, format, match, hasRoom, marked, sent, now, adm, failures>>

\* The rows a find returns, apart from the null mark.
Due(n, t) ==
    \/ /\ n[1] = "room"
       /\ status \in BeforeStart \cup {"LIVE"}
       /\ Tournament \in hasRoom /\ startsAt <= t + RoomLead
    \/ /\ n[1] = "matchRoom"
       /\ match[n[2]].status = "SCHEDULED"
       /\ n[2] \in hasRoom /\ match[n[2]].at <= t + RoomLead
    \/ /\ n[1] = "reminder"        \* one interval of the scheduler wide
       /\ match[n[2]].status = "SCHEDULED"
       /\ t < match[n[2]].at /\ match[n[2]].at <= t + 1

\* Mutant: the release of match rooms is not reached.
AfterKindNoMatchRooms(kind) == IF kind = "room" THEN "reminder" ELSE "liveFind"

AfterKind(kind) ==
    CASE kind = "room" -> "matchRoom"
      [] kind = "matchRoom" -> "reminder"
      [] kind = "reminder" -> "liveFind"

NextStage(r, kind, todo) ==
    IF todo = {} THEN [run[r] EXCEPT !.pc = AfterKind(kind), !.kind = "none"]
                 ELSE [run[r] EXCEPT !.pc = "claim", !.kind = kind, !.todo = todo]

NoticeFind(r) ==
    LET kind == run[r].pc
        found == {n \in NoticesOf(kind) \ marked : Due(n, run[r].now)}
    IN  /\ kind \in {"room", "matchRoom", "reminder"}
        /\ run' = [run EXCEPT ![r] = NextStage(r, kind, found)]
        /\ UNCHANGED <<status, dates, format, match, hasRoom, marked, sent, now, adm, failures>>

\* Mutant: the update does not repeat the condition of the find.
ClaimById(n) == TRUE

\* updateMany ... where the mark is null (and the match is still SCHEDULED).
Claimable(n) ==
    /\ n \notin marked
    /\ n[1] = "reminder" => match[n[2]].status = "SCHEDULED"

NoticeClaim(r, n) ==
    /\ run[r].pc = "claim" /\ n \in run[r].todo
    /\ \/ /\ Claimable(n)
          /\ marked' = marked \cup {n}
          /\ run' = [run EXCEPT ![r].pc = "emit", ![r].todo = @ \ {n}, ![r].mine = {n}]
       \/ /\ ~Claimable(n)
          /\ run' = [run EXCEPT ![r] = NextStage(r, run[r].kind, run[r].todo \ {n})]
          /\ UNCHANGED marked
    /\ UNCHANGED <<status, dates, format, match, hasRoom, sent, now, adm, failures>>

\* The count stops at 2, which stands for more than once.
OnceMore(k) == IF k < 2 THEN k + 1 ELSE k

\* Writing the audit row comes first, so a run can die in between.
NoticeEmit(r) ==
    /\ run[r].pc = "emit"
    /\ sent' = [n \in Notices |-> IF n \in run[r].mine THEN OnceMore(sent[n]) ELSE sent[n]]
    /\ run' = [run EXCEPT ![r] = [NextStage(r, run[r].kind, run[r].todo) EXCEPT !.mine = {}]]
    /\ UNCHANGED <<status, dates, format, match, hasRoom, marked, now, adm, failures>>

\* Mutant: the legacy states are forgotten.
UpcomingStartIsDue(t) == status = "UPCOMING" /\ startsAt <= t

StartIsDue(t) == status \in BeforeStart /\ startsAt <= t

\* Mutant: a run with nothing to start returns early.
LiveOrReturn(r) ==
    /\ run[r].pc = "liveFind"
    /\ \/ StartIsDue(run[r].now) /\ Goto(r, "liveWrite")
       \/ ~StartIsDue(run[r].now) /\ run' = [run EXCEPT ![r] = NoRun]
    /\ UNCHANGED <<status, dates, format, match, hasRoom, marked, sent, now, adm, failures>>

LiveFind(r) ==
    /\ run[r].pc = "liveFind"
    /\ \/ StartIsDue(run[r].now) /\ Goto(r, "liveWrite")
       \/ ~StartIsDue(run[r].now) /\ Goto(r, "completeFind")
    /\ UNCHANGED <<status, dates, format, match, hasRoom, marked, sent, now, adm, failures>>

LiveWrite(r) ==
    /\ run[r].pc = "liveWrite"
    /\ status' = "LIVE"
    /\ Goto(r, "completeFind")
    /\ UNCHANGED <<dates, format, match, hasRoom, marked, sent, now, adm, failures>>

\* Mutant: `every` without `some` holds for a tournament with no match.
EveryMatchPlayed == status = "LIVE" /\ \A m \in Created : match[m].status = "COMPLETED"

IsPlayed == status = "LIVE" /\ AllPlayed

CompleteFind(r) ==
    /\ run[r].pc = "completeFind"
    /\ \/ IsPlayed /\ Goto(r, "completeWrite")
       \/ ~IsPlayed /\ run' = [run EXCEPT ![r] = NoRun]
    /\ UNCHANGED <<status, dates, format, match, hasRoom, marked, sent, now, adm, failures>>

CompleteWrite(r) ==
    /\ run[r].pc = "completeWrite"
    /\ status' = "COMPLETED"
    /\ run' = [run EXCEPT ![r] = NoRun]
    /\ UNCHANGED <<dates, format, match, hasRoom, marked, sent, now, adm, failures>>

\* Any call of a run can throw; the catch ends the run, the next one starts over.
Fail(r) ==
    /\ run[r].pc # "idle" /\ failures < MaxFailures
    /\ failures' = failures + 1
    /\ run' = [run EXCEPT ![r] = NoRun]
    /\ UNCHANGED <<status, dates, format, match, hasRoom, marked, sent, now, adm>>

Continue(r) ==
    \/ CloseFind(r) \/ CloseWrite(r)
    \/ NoticeFind(r) \/ (\E n \in Notices : NoticeClaim(r, n)) \/ NoticeEmit(r)
    \/ LiveFind(r) \/ LiveWrite(r) \/ CompleteFind(r) \/ CompleteWrite(r)

-----------------------------------------------------------------------------
(* Admin requests *)

\* ALLOWED_TRANSITIONS
Allowed(s) ==
    CASE s = "DRAFT" -> {"UPCOMING", "LIVE", "CANCELLED"}
      [] s \in BeforeStart -> {"LIVE", "CANCELLED"}
      [] s = "LIVE" -> {"COMPLETED", "CANCELLED"}
      [] OTHER -> {}

Answer(a) == adm' = [adm EXCEPT ![a] = NoRequest]
Ask(a, pc, target, released) ==
    /\ adm[a].pc = "idle" /\ Alone
    /\ adm' = [adm EXCEPT ![a] = [pc |-> pc, target |-> target, released |-> released]]

\* The transition is validated on what was read; the same status is accepted.
UpdateStatusRead(a) ==
    /\ \E target \in Allowed(status) \cup {status} : Ask(a, "statusWrite", target, FALSE)
    /\ UNCHANGED <<status, dates, format, match, hasRoom, marked, sent, now, run, failures>>

\* The read comes before the leaderboard is rebuilt, the check after it.
FinalizeRead(a) ==
    /\ status \in {"LIVE", "COMPLETED"}
    /\ Ask(a, "statusWrite", "COMPLETED", FALSE)
    /\ UNCHANGED <<status, dates, format, match, hasRoom, marked, sent, now, run, failures>>

StatusWrite(a) ==
    /\ adm[a].pc = "statusWrite"
    /\ status' = adm[a].target
    /\ Answer(a)
    /\ UNCHANGED <<dates, format, match, hasRoom, marked, sent, now, run, failures>>

\* roomReleasedAt is set with release_now, else written back as it was read.
SetRoomRead(a) ==
    /\ "rooms" \in Env
    /\ "editRoom" \in Env \/ (Tournament \notin hasRoom /\ \A b \in Admins : adm[b].pc # "roomWrite")
    /\ \E releaseNow \in BOOLEAN :
          Ask(a, "roomWrite", "DRAFT", releaseNow \/ <<"room", Tournament>> \in marked)
    /\ UNCHANGED <<status, dates, format, match, hasRoom, marked, sent, now, run, failures>>

SetRoomWrite(a) ==
    /\ adm[a].pc = "roomWrite"
    /\ hasRoom' = hasRoom \cup {Tournament}
    /\ marked' = IF adm[a].released THEN marked \cup {<<"room", Tournament>>}
                                    ELSE marked \ {<<"room", Tournament>>}
    /\ Answer(a)
    /\ UNCHANGED <<status, dates, format, match, sent, now, run, failures>>

\* setGroupRoomCredentials writes both columns, whatever they were.
SetMatchRoom(m) ==
    /\ "rooms" \in Env /\ Quiet /\ match[m].status # "NONE"
    /\ hasRoom' = hasRoom \cup {m}
    /\ \/ marked' = marked \cup {<<"matchRoom", m>>}
       \/ /\ m \in hasRoom => "unpublish" \in Env
          /\ marked' = marked \ {<<"matchRoom", m>>}
    /\ UNCHANGED <<status, dates, format, match, sent, now, run, adm, failures>>

\* Neither of these looks at the status of the tournament.
CreateMatch(m) ==
    /\ Quiet /\ match[m].status = "NONE"
    /\ "lateMatch" \in Env \/ \A r \in Runs : run[r].pc = "idle"
    /\ \E at \in Times : match' = [match EXCEPT ![m] = [status |-> "SCHEDULED", at |-> at]]
    /\ UNCHANGED <<status, dates, format, hasRoom, marked, sent, now, run, adm, failures>>

RecordResults(m) ==
    /\ Quiet /\ match[m].status # "NONE"
    /\ match' = [match EXCEPT ![m].status = "COMPLETED"]
    /\ UNCHANGED <<status, dates, format, hasRoom, marked, sent, now, run, adm, failures>>

Reschedule ==
    /\ "reschedule" \in Env /\ Quiet
    /\ closesAt' \in Times /\ startsAt' \in Times
    /\ UNCHANGED <<status, format, match, hasRoom, marked, sent, now, run, adm, failures>>

\* Registrations are only taken while the tournament is LIVE.
FillField ==
    /\ "round1" \in Env /\ status = "LIVE"
    /\ fullField' = TRUE
    /\ UNCHANGED <<status, dates, formatLocked, round1, match, hasRoom, marked, sent, now, run,
                   adm, failures>>

GenerateRound1Read(a) ==
    /\ "round1" \in Env /\ fullField /\ ~round1
    /\ Ask(a, "roundWrite", status, FALSE)
    /\ UNCHANGED <<status, dates, format, match, hasRoom, marked, sent, now, run, failures>>

GenerateRound1Write(a) ==
    /\ adm[a].pc = "roundWrite"
    /\ round1' = TRUE
    /\ status' = IF adm[a].target \in {"LIVE", "COMPLETED"} THEN status ELSE "LIVE"
    /\ Answer(a)
    /\ UNCHANGED <<dates, formatLocked, fullField, match, hasRoom, marked, sent, now, run, failures>>

PublishRead(a) ==
    /\ "publish" \in Env /\ ~formatLocked
    /\ Ask(a, "publishWrite", "UPCOMING", FALSE)
    /\ UNCHANGED <<status, dates, format, match, hasRoom, marked, sent, now, run, failures>>

PublishWrite(a) ==
    /\ adm[a].pc = "publishWrite"
    /\ formatLocked' = TRUE
    /\ status' = "UPCOMING"
    /\ Answer(a)
    /\ UNCHANGED <<dates, round1, fullField, match, hasRoom, marked, sent, now, run, failures>>

Tick ==
    /\ now < MaxTime /\ now' = now + 1
    /\ UNCHANGED <<status, dates, format, match, hasRoom, marked, sent, run, adm, failures>>

Request(a) ==
    \/ UpdateStatusRead(a) \/ FinalizeRead(a) \/ SetRoomRead(a)
    \/ GenerateRound1Read(a) \/ PublishRead(a)
Write(a) ==
    StatusWrite(a) \/ SetRoomWrite(a) \/ GenerateRound1Write(a) \/ PublishWrite(a)

Next ==
    \/ \E r \in Runs : StartRun(r) \/ Continue(r) \/ Fail(r)
    \/ \E a \in Admins : Request(a) \/ Write(a)
    \/ \E m \in Matches : SetMatchRoom(m) \/ CreateMatch(m) \/ RecordResults(m)
    \/ Reschedule \/ FillField \/ Tick

Spec == Init /\ [][Next]_vars

\* The interval starts runs again and again, and a run that started goes on.
Fairness ==
    /\ \A r \in Runs : WF_vars(StartRun(r)) /\ WF_vars(Continue(r))
    /\ \A a \in Admins : WF_vars(Write(a))
FairSpec == Spec /\ Fairness

-----------------------------------------------------------------------------
(* Properties *)

\* However many runs overlap, and whatever dies, the scheduler emits each room
\* release and each reminder at most once (the conditional updates on
\* roomReleasedAt and reminderSentAt).
SentOnce == \A n \in Notices : sent[n] <= 1

\* The scheduler completes a tournament only when it has matches and every one
\* of them has been played at that moment.
CompletesWhenPlayed ==
    [][\A r \in Runs : CompleteWrite(r) => AllPlayed]_vars

\* What is due gets done in spite of runs that die: the start, the end, and the
\* release of the room.
StartPending == status \in BeforeStart /\ startsAt <= now
GoesLive == StartPending ~> ~StartPending

Completes == IsPlayed ~> ~IsPlayed

ReleasePending(n) == n \notin marked /\ Due(n, now)
RoomsAreReleased ==
    \A n \in NoticesOf("room") \cup NoticesOf("matchRoom") : ReleasePending(n) ~> ~ReleasePending(n)
=============================================================================
