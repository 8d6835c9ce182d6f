# TLA+ models of the tournament backend

The repository is the NestJS/Prisma backend of an esports platform: players form
teams, register them for tournaments with a limited number of slots, wait on a
waitlist, play brackets of matches, and get results, XP and notifications. This
directory holds TLA+ models of its core logic, the TLC runs that check them on
small instances, and TLAPS proofs for every instance. Paths below are relative to
`src/` of the repository's checkout, so that `src/tournaments/...` is the
file `src/src/tournaments/...` of `PROJECT.json`.

## The system

All coordination goes through PostgreSQL. A request handler typically reads rows,
decides, and then writes in one transaction; nothing is locked in between, and
several instances of the server (and overlapping scheduler ticks) may run. What
makes the code correct under concurrency is a small set of devices: conditional
`updateMany` (compare and set), unique indexes, and serializable transactions.
The models are about whether those devices are enough.

| Component | State it keeps | Operations | Interacts with | What is hard | Models |
|---|---|---|---|---|---|
| Slot allocation and waitlist (`tournaments/registration.service.ts`) | registeredCount, registration rows with slot numbers, team.registrationState, submissions, waitlist entries | register, approve, decline, cancel, finalize, promote | removal, roster changes, scheduler (safety net) | checks outside the transaction, two writers for one slot, a stale capacity, the order and the progress of the queue | `SlotAllocation`, `SlotPool` |
| Removal (`tournaments.service.ts` unregister, disqualify; `matches.service.ts` status change) | the same rows | unregister, leave the waitlist, disqualify, rewrite a status | promotion through `tournament.slot_freed` | one slot given back twice, writes without a transaction | `SlotAllocation` |
| Tournament lifecycle and scheduler (`scheduler/scheduler.service.ts`, `tournament-state-machine.ts`, admin handlers) | tournament status and dates, room and reminder marks, match status | a scheduler run, status change, finalize, rooms, matches, results, round 1, publish | matches, bracket, format engine | overlapping runs, updates by id after a find, runs that die, what must happen eventually | `TournamentLifecycle` |
| Team membership, player approval, roster change (`teams/teams.service.ts`, `teams/roster-change.helper.ts`, `registration.service.ts`) | members, roles, join requests, submissions with one approval a player, rosterVersion | join, ask, approve, leave, remove, transfer, swap, submit, answer, request or cancel a change, expire at the lock | slots, scheduler, squads (an accepted invitation adds a player) | places counted before the transaction, roles written from what was read, an approval racing a cancellation, an expiry or a new roster | `TeamRosters` |
| Squads and invitations (`squads/squads.service.ts`) | squads, members, invitations, the waitlist row | join, leave, remove, transfer, change a role, swap, invite, answer, expire, synchronise with the team | scheduler, teams (each creation and each join ends in a synchronisation) | roster limits, rows a team brings in uncounted, an answer racing an expiry or a transfer, a count written later | `Squads` |
| Bracket (`tournaments/tournament-bracket.service.ts`) | rounds, groups, scores, tie-breakers, qualifications, wild card, grand final | generate, score, advance, resolve, assign, assemble | matches, lifecycle | advance once, ties that pause a round, a team in two places | `BracketStages` |
| Planned bracket (`tournaments/generic-bracket.service.ts`) | one round a stage, groups, qualifications | generate a stage, score, finalize | format engine | stages that must fit each other though separate calls generate and finalize them | `GenericBracket` |
| Match access (`matches/match-access.service.ts`, rooms of `matches.service.ts`) | rooms and their release | set credentials, assign teams, record results; who sees a room | bracket, scheduler, notifications | several endpoints decide the same in different code | `MatchAccess` |
| Recordings (`recordings/recordings.service.ts`) | recording rows, upload sessions (Redis), files (Drive) | initiate, progress, complete, fail, review, clean up | match access, scheduler | calls to the Drive between a read and a write by id, a file nobody looked at, a file two rows name | `Recordings` |
| Challenges (`challenges/challenges.service.ts`, `common/rank-system.ts`, getUserRank of `users/users.service.ts`) | progress, XP, rank | submit, approve, reject, claim, create, delete, look a rank up | users | XP granted twice or lost, a rank written late and ahead of the XP | `Challenges` |
| Notifications (`notifications/notifications.service.ts`) | device tokens, push status of a notice | log in, log out, send | Firebase, phones | two tables written in separate calls, dead tokens | `Notifications`, `MatchAccess` (who is told) |
| Matches and leaderboard (`matches/matches.service.ts`) | results, cached leaderboard, final ranks | create, record, rebuild, finalize | lifecycle, access | ranks of a stale leaderboard | partly: `TournamentLifecycle`, `MatchAccess` |
| Format engine (`tournaments/format-engine*`) | format plan | recommend, validate, save, publish | lifecycle, planned bracket | arithmetic at the boundaries | partly: `TournamentLifecycle` |
| Gateway, auth, users, content, partners, support, games, configuration, infrastructure | rows and sessions of their own | CRUD, delivery | everything | nothing that interleavings would show | not modelled |

`PROJECT.json` has the same list with what is modelled of each, and the hazards of
the code, each at its line with the properties that would catch it.

## How the models are built

**Steps.** A handler is split where the code leaves the database between two calls: its
checks on reads are one step, which keeps what was read in the request's record
(`req[r]`), and its transaction is another. A transaction is one step, as it runs at
the serializable level or ends in a conditional update or a unique index; what these
refuse is an action of its own (`Throw`). A handler that re-reads everything inside
its transaction is one step.

**Env.** Every module has a constant `Env`, a set of names of behaviours that its
surroundings may or may not show: overlaps of certain requests, a corrected score, a
phone that is handed on without a logout. A run or a theorem thus says exactly what it
excludes. The names are listed, each with its meaning, in `EnvBehaviours` at the head
of the module. What the code does under an excluded behaviour is in the model too,
and is described under Findings and observations where it breaks a property.

**Composition.** `MCTeams`, `MCBrackets` and `MCServices` check components that share a
deployment: the module they extend and those they instantiate run
one at a time (`active`), which keeps the state space a sum and not a product.
Where components share rows, each module has the writes of the others to the rows it is
about: `SlotAllocation` has every
writer of a registration, `TournamentLifecycle` the scheduler and the admins,
`MatchAccess` what the bracket, the results and the
registrations leave for the endpoints to read. `TeamRosters` and `SlotAllocation` both have the
submissions: the first with their approvals and the roster they are about, the second
with what they do to a slot. `TeamRosters` and `Squads` share the rows of the team. The transaction that
accepts a squad's invitation is in both: `AcceptWrite` of `Squads` answers it and adds the player,
`AcceptInvitation` of `TeamRosters` does what it does to the team, roster version and submissions
included. What the team's own requests do to its rows is in `Squads` as `TeamChanges`, one step for
each request of `TeamRosters` that changes members or the captain, within the limits proved there
(`RostersFit`, `CaptainLeads`), and the synchronisation that follows as `SyncTeamToSquad`.

| Module | What it is |
|---|---|
| `SlotAllocation` | every handler that moves a team into, within or out of a tournament |
| `SlotPool` | the abstract promise about slots that `SlotAllocation` implements |
| `TournamentLifecycle` | scheduler runs and the admin requests that write status, dates, rooms and matches |
| `TeamRosters` | the roster of one team of one tournament, its captaincy, its submissions and the changes of a confirmed team |
| `Squads` | one persistent squad, its owner, its waitlist row and the invitations of its players |
| `BracketStages` | the fixed bracket: three rounds, wild card, grand final, tie-breakers |
| `GenericBracket` | the bracket of a saved format plan |
| `MatchAccess` | who sees a room, and who is told of it |
| `Recordings` | recordings of one player: rows, sessions and files |
| `Challenges` | proofs, approvals, claims, XP and ranks |
| `Notifications` | device tokens and the delivery of a notice |
| `MCSlotAllocation`, `MCTournamentLifecycle`, `MCTeams`, `MCBrackets`, `MCServices` | model values, symmetry and composition for TLC |
| `..._proofs` | the theorems about a module and their proofs; `MCServices_proofs` has those about challenges, notifications and access, `MCTeams_proofs` those about the squad, `MCBrackets_proofs` those about the planned bracket |

### SlotAllocation

One LIVE team tournament. The variables are the columns that decide: `status`,
`maxSlots`, `requireApproval` and `registeredCount` of the tournament, the registration row `reg`
(status and slot), `teamState`, `version` and `subs` of the team, `entry` and
`queue` for the waitlist (the queue is the order of `createdAt`, which a reused
entry keeps). `rosterOk` stands for everything the roster checks look at
(composition, complete profiles, nobody in two teams): a roster is good or not.

A request in flight is the record `req[r]`: the next database call (`pc`) and the
values captured by the reads before it. A handler is split exactly where the code
leaves the database between two calls: `RegisterRead` / `RegisterFinalize` or
`RegisterSubmit`, `UnregisterRead` / `Unregister` or `LeaveQueue`,
`DisqualifyRead` / `Disqualify`, the four calls of `updateTeamStatusInTournament`,
and the promotion loop (`PromoteStart`, `PromoteCheck`, `PromotePick`,
`Promote` / `PromoteNothing` / `Invalidate`). A transaction is one step, as it
runs at the serializable level and its capacity check is a conditional update;
approve, decline and cancel re-read everything inside their transaction and are one
step each. `finalizeRegistration` is the operator `Finalize`, called from three
places. `CanInsert` is the pair of unique indexes of the migrations; `Throw` is a
transaction they refuse, `Abort` a handler that dies.

`Env` names the outside behaviours that are possible, so that a run or a theorem
says exactly what it excludes: `overlap` (two requests about one team together),
`rejoin`, `leaveQueue`, `adminStatus`, `shrink`, `toggle`, `close`, `abort`,
`rosterDrift`.

`SlotPool` is what all of this promises: a team takes the lowest free slot in one
step, gives it up in one step and never comes back, and capacity only grows.

### TournamentLifecycle

One tournament, its matches, and any number of scheduler runs and admin requests.
`checkAndRunLifecycle` is a list of stages; each `findMany` and each update is a
step of its own (`CloseFind`, `CloseWrite`, `NoticeFind`, `NoticeClaim`,
`NoticeEmit`, `LiveFind`, `LiveWrite`, `CompleteFind`, `CompleteWrite`), and `Fail` is
the catch around all of them. The three kinds of notices (room of the tournament,
room of a match, reminder) share the find, claim, emit actions; `Due` has
the condition of each find, `Claimable` that of each conditional update, `marked` the
columns `roomReleasedAt` and `reminderSentAt`, `sent` the emitted events.
Runs overlap because the boot, the interval and every server instance start them
and nothing locks. Admin requests that validate on a read and write by id are two
steps (`UpdateStatusRead` / `StatusWrite`, `SetRoomRead` / `SetRoomWrite`, ...).
Time is a bounded integer; a run keeps the `now` it started with. `Env` works as above:
`overlap`, `lateMatch`, `reschedule`, `rooms`, `editRoom`, `unpublish`, `round1`,
`publish`.

### TeamRosters

A team whose captain is "nobody" does not exist yet. `role` has the teamMember rows,
`version` is rosterVersion, `sub` the submissions with their approval rows, `req` the
requests between their checks and their transaction (`JoinRead` / `JoinWrite`,
`DropRead` / `DropWrite` for leaving and removal, `TransferRead` / `TransferWrite`,
`RosterRead` / `RosterWrite` for the playing roster, `RegisterRead` / `RegisterSubmit` or
`RegisterFinalize`, `ChangeRead` / `ChangeApply` or `ChangeSubmit`, `CloseRead` /
`CloseWrite` for cancelRosterChange and the scheduler's expiry). `ApproveJoin`,
`Approve`, `Decline` and `CancelRegistration` are one transaction each, and so is `AcceptInvitation`,
the part of respondToInvitation (`squads.service.ts:1050-1112`) that inserts a PLAYER, whatever the places, the
confirmation and the lock: `Env` without `uncounted` leaves it to teams that have a place and no registration.
`HandleRosterChange` is what every change of an unregistered roster ends with: with
other players or another captain the version rises, open submissions are superseded and the
team is FORMING again. A change of a confirmed team writes `Applied` over the rows
that were *read*. `Promote`, `Withdraw` and `LockBegins` are what slots and
rounds do to the team.

### Squads

One squad: `member` rows with role and roster type, the owner (`leader`), the
invitations to one tournament and the waitlist row. Each change of the roster is a
check, a transaction and then syncLiveWaitlistStatus, which counts (`SyncRead`) and
writes (`SyncWrite`) in two more calls. `team` and `captain` are the squad's team in the tournament,
which is created, joined, left and handed on (`CreateTeam`, `TeamJoins`, `TeamLeaves`, `TeamTransfers`) before and
after the squad exists. `SyncTeamToSquad` is syncTeamToSquad, which runs after each creation and each join and
when a player without a squad opens the squad page: it links the captain's squad or creates one with
him as its leader, and inserts every member who is in no squad, with the role and the roster type that
`RowOf` gives a CAPTAIN, a MANAGER, a PLAYER or a SUBSTITUTE, without a count and without a refresh. It may run at any
time, which includes a synchronisation that died or came late; members who are in another squad are
chosen by `\E away`. `CreateSquad` and `SaveSquad` are the two other ways to a squad.
`Env` without `teamReturns` lets members in only where the squad has room for all of them, the captain of
the team is not among them unless the squad is new, no request about a slot or an invitation is on its way and
the waitlist row stays as it is; without `leaderAway` the captain whose team becomes a squad is in no other one.

### BracketStages and GenericBracket

Rows are sets of records, as in the tables. Points, kills and placement points are one
number, since the code only compares them lexicographically. `AdvanceRead` keeps the outcome that
the scores gave, any ranking that sorts them (`Ranked`: the database breaks no tie); `PauseWrite` or `AdvanceWrite` stores it. `ResolveTie` is the update
of resolveTieBreaker, `CountPending` its count, and the advance follows as for any other request.
`GenericBracket` plays the stages of a plan, `GenerateRead` / `GenerateWrite` and
`FinalizeRead` / `FinalizeWrite`; a cut is a sort of what was read.

### MatchAccess

The endpoints only read and are operators: `MatchCenter`, `Credentials`,
`TournamentRoom`, `PlayerRoom`, `Notified`. The actions are what others write: the
registration, the member's role, rounds that end, group matches, assigned teams, results,
credentials and their release. One member of one team, since every decision is about
one; a match is either a row of `matches` ("m") or a group of round 1 or 3.

### Recordings, Challenges, Notifications

`Recordings` has the row, the session and the Drive's files apart, and the calls to
the Drive as steps (`Upload`, `Verify`). A completion may name any file, also that of another match or none
(`AnyFile`); `Verify` looks at a named file only if Google gives a token. `completed` remembers which recording was
completed with which file, so that the properties can speak of a file that two share. `Challenges` has
submit, approve, claim and
delete as a read and a write, and the rank that getUserRank computes and then writes without waiting
(`RankRead` / `RankWrite`). `Notifications` has a phone's holder and the dead tokens
as external state; log-in, log-out and sending are one step a database call.

## Runs

| Run | Instance | States | Shows |
|---|---|---|---|
| `slots_admin` | 2 teams, 1 request and the sweep, up to 2 slots, every behaviour but `shrink` and `toggle` | 1 146 570 | `NoOverbooking` and the invariant it rests on, `SlotsAccounted`, although the counter does go wrong under these behaviours |
| `slots_races` | 2 teams, 2 requests, up to 2 slots, `overlap`, `leaveQueue`, `rejoin` | 527 351 | `AllocatesAsPool`: every step is a `SlotPool` step or a stutter |
| `slots_serial` | 2 teams, 1 request and the sweep, up to 2 slots, approvals turned on and off (`toggle`), 1 submission and 2 roster versions per team | 1 323 918 | `RegistrationAgrees`, `NoOpenSubmission`, `RegisterIsIdempotent`, and `WaitlistDrains` under fairness |
| `slots_queue` | 3 teams, 2 requests and the sweep, up to 2 slots, `abort`, `shrink` | 406 769 | `CountIsConfirmed`, `PromotesOldest` |
| `life_notices` | 2 runs, 1 admin, 1 match, clock 0..1, `overlap`, `rooms` | 1 363 578 | `SentOnce` |
| `life_completes` | 1 run, 1 admin, 2 matches, everything but late matches and rooms | 578 204 | `CompletesWhenPlayed` |
| `life_progress` | 1 run, 1 admin, 1 match, one run may die, `overlap`, `rooms` | 158 252 | `GoesLive`, `Completes`, `RoomsAreReleased` under fairness |
| `teams` | 3 players, 2 requests, two main players and a substitute, 3 roster versions, 2 submissions | 593 928 | `RosterFits`, `OwnerHolds`, `ApprovalsMatchRoster`, `NobodyPlaysUnasked`, `OutcomesAreFinal`; of the squad `RosterWithinLimits`, `OwnerLeads`, `WaitlistAgrees`, `AnswersAreFinal` |
| `brackets` | 4 teams, 2 requests, groups 2, 1, 2, scores 0..1, 2 tie-breakers, 2 wild cards; a plan of three stages and 5 teams | 193 006 | `QualifiedOnce`, `AdvancesOnMerit`, `PauseEnds`, `OneGroup`, `StaysCompleted`, `NextStageFits` |
| `services` | 2 matches with a file each, 2 requests; 1 player, 2 challenges, 2 requests; 2 users, 2 phones, 2 requests; 1 team in its rounds | 933 385 | `NoFileIsLost`, `UploadedIsFinal`, `KeptFileStays`; `RankNeverAhead`, `RewardsAreEarned`; `TokensFollowPhones`, `StatusIsTrue`; `EndpointsAgree`, `OpenRoomIsReached`, `NoticeFindsTheRoom` |
| `finding_blocked_queue` | 3 teams, 1 slot, `rejoin` | - | `WaitlistDrains` is violated |
| `finding_squad_returns` | the squad alone, `teamReturns` | - | `RosterWithinLimits` is violated |

**Bounds and why they are enough.** Two teams and two slots make a full tournament,
a waitlist and a freed slot; the third team in `slots_queue` gives the queue an
order. Two requests and the scheduler are three concurrent handlers, the number the
races need (an owner, an organiser, a promotion). `MaxSubmissions` and `MaxVersion`
bound how often a team resubmits or changes its roster (two versions let an old
submission meet a new roster; the proofs have no such bound); `MinCount` bounds how far the counter may fall.
One match and two runs are enough for a claim to race a claim, two matches for
"some played, not all"; the clock needs a before and an after. `RoomLead` is 1
where a room is due at once and 0 where the start itself makes it due. The count of
sent notices stops at 2, which is "more than once".
In `teams`, three players fill two main places and the substitute's, so that the last
place, a swap and a transfer to a substitute all occur, and two requests are what each race
takes; `MaxVersion` 3 leaves room for a submission, a change and one more. `TeamMayChange` of `MCTeams`
is a bound: the team's own requests run between those of the squad and until the squad is invited; `InvitesNewTeam` is
another: a squad is invited with the team the invitation creates, which the invitations then fill; and `NoneWaits` a
third: no join request waits in a registered team, where it can only be rejected. The theorems about `Squads` and
`TeamRosters` have none of them.
In `brackets`, two groups of two with a cutoff of one make ties at the cut and losers for
the wild card; scores of 0 and 1 are enough to be ahead or level. `MaxTies` bounds the
tie-breakers of one bracket. The plan has a middle stage, which is the one that both
receives and sends.
In `services`, two items of each kind let one be mistaken for another (two challenges of
one player, two phones of one user, two matches with one client id, two recordings with one
file). `MaxXp` bounds the XP a player is granted.

**Env in the three composed runs** is empty: the requests that remain overlap freely
with each other (a join with an approval, a registration with a change of roster, a push with a
log-in), and those that `Env` names do not overlap. The hypotheses of the theorems below are weaker
than that where the proof allows. `services` gives `Recordings` two requests,
which run beside each other on the two matches: overlaps on one recording are excluded. Disjuncts that only an `Env` name enables (a lost
write, a Drive that fails, an owner who rejects) are for the observations and fire
in no passing run.

**Fairness.** `Continue(r)` is weakly fair because a handler that has started is run by
the event loop until it returns; `Sweep` and `StartRun` are weakly fair because the
interval fires every minute. Nothing else is fair: owners, players and admins may
never do anything, and the clock may stop. `slots_serial` excludes `abort`, as a
server that crashes in every promotion promises nothing; `life_progress` allows a
bounded number of failing runs. In the other components nothing happens but on
request, so that there is nothing they must do eventually; that a paused round is never left
where no request can go on is the invariant `PauseEnds`.

**Deadlock** is checked in the lifecycle runs (a scheduler run can always start) and not in
the others: a tournament may end with nothing left to do, and bounds stop the rest.

## Findings and observations

Two runs are violated by what the code does; `PROJECT.json` quotes the line each contradicts.

1. *Blocked queue* (`registration.service.ts:2077`). A team that unregistered and queued
   again still has its CANCELLED row; its promotion fails on the unique index,
   leaves the loop by an exception and stays the head of the queue for ever.
2. *Synchronisation* (`squads.service.ts:174`). The leader of a squad, who plays in it, creates a team as its
   manager, and others take the team's playing places: `syncTeamToSquad`, which ends each of these
   requests, puts them all into the squad's main roster with no count, one more than it has places for. The
   same happens when a member who left a full squad and still plays in its team opens the squad page.

Behaviours of the same kind met while modelling, which have no run of their own. Those with a name
in parentheses show when that name is added to `Env`.

*Slots.* Two register calls of one team both pass the checks, and the second can set a confirmed
team to WAITLISTED (`registration.service.ts:584`, `overlap`). A promotion loop keeps
the `max_slots` it read before an admin lowered it (`:2031`, `shrink`). An unregister and a
disqualification of one team decrement the counter twice (`overlap`); a status
rewritten to QUALIFIED never increments it (`adminStatus`); a team promoted while it
leaves the waitlist keeps its slot and is told it left (`tournaments.service.ts:1230`,
`leaveQueue`). A decline leaves the submission ACTIVE (`:1521`); when an admin then turns
`requirePlayerApproval` off, the team registers directly (`:721`, `toggle`) and is
CONFIRMED with the declined submission open, so that the one-ACTIVE-submission index
refuses every later change of its roster that needs an approval (`teams.service.ts:1899`).

*Lifecycle.* Every status write of a scheduler run, `updateStatus` and
`finalizeTournament` is by id after a read, so that a tournament cancelled in between comes back
(`overlap`); publishing the format writes UPCOMING over CANCELLED and COMPLETED
(`format-engine.service.ts:153`, `publish`); `generateRound1` sets a CANCELLED tournament
LIVE (`tournament-bracket.service.ts:166`, `round1`); a match created between the
completing find and its update stays unplayed (`scheduler.service.ts:291`, `lateMatch`).
The reminder's window is one interval wide (`:243`), the ranks of `finalizeTournament` are read
before its transaction (`matches.service.ts:362`), and match numbers are a count
plus one (`:687`).

*Team rosters.* A transfer to a substitute makes one main player too many (`subLeads`);
with a manager as owner an approved join may be the sixth member, where the repository's
README says five. Direct joins count places before the transaction (`rosterRace`). The immediate
change writes the version and the roles it read (`changeRace`); cancellation and
expiry write by id over a COMPLETED submission (`closeRace`); the transaction of register
rechecks nothing (`confirmRace`). A squad's invitation that is accepted inserts a player without looking at the
places, the confirmation or the lock (`squads.service.ts:1095`, `uncounted`): a team may get a fifth player, and a confirmed
team a player whom nobody approved, also after the roster lock. The approval of a change ignores rounds that have
started, the scheduler's expiry looks at the first match only, and a removal in
the match centre leaves a change ACTIVE.

*Squads.* `syncTeamToSquad` inserts whoever is in the team, without a count: members beyond the places for main
players or substitutes, a captain who comes back after a transfer with an owner's role
again (`teamReturns`), and the waitlist row is not refreshed then. A squad that is created for a captain who is
a member of another squad gets a leader who has no row in it (`leaderAway`, `:107-127`). A leave or removal beside a transfer deletes
the new leader (`leaveRace`, `squads.service.ts:412`); an owner who rejects an old
invitation leaves the squad without one (`ownerRejects`, `:1150`); joins overflow the
roster (`rosterRace`); the refresh writes an old count (`syncRace`); answers are overwritten by a
removal or the expiry (`answerRace`).

*Brackets.* No index makes qualifications unique, so that two requests that advance one
round duplicate them (`advanceRace`, `finalizeRace`); Round 3 can be generated again
(`regenerate`); scores are accepted in any status (`rescore`), tie-breakers resolved
again (`resolveAgain`); a wild card may go to a team that still plays (`wildPlaying`), whatever the
window's status. A late pause reopens a COMPLETED round. A stage generated again after it was completed
refuses to be finalized for ever (`regenerate`). Stages from the sixth on that are not the final are
named ROUND_1 (`generic-bracket.service.ts:130-139`): a plan of 144, 96, 72, 48, 36, 24 and 12 teams, which
the path search can propose, writes its sixth stage into the row of the first. The validation of a plan computes
the size of the next stage from the stage itself (`format-engine.service.ts:216`), and so accepts a plan whose
next stage takes another number; the count in `getPreviousRoundQualifiers` then refuses it for ever.

*Rooms.* A team eliminated in Round 1 that plays Round 3 through the wild card is
refused its room by all three endpoints and not told of it (`match-access.service.ts:730`,
`wildCard`). The first partial result of a match takes the room from the teams that have none yet (`:491`).
A room whose visibility lies in the future is announced at once
(`matches.service.ts:776`) and not when it opens. With matches of both kinds `/room` picks the
legacy one (`mixed`).

*Recordings.* Writes from stale reads take UPLOADED back, a review note undoes a
concurrent keep, and the clean-up deletes a recording flagged after the listing (all
`overlap`); a failed deletion forgets the file (`driveFails`); completing without a file id
invents one (`noFileId`, `recordings.service.ts:691-801`). When Google refuses the token exchange
`getGoogleDriveAccessToken` returns null (`:64-113`), and the branch meant for tests takes the named id unseen
(`noToken`, `:786-801`): an UPLOADED recording whose file need not exist. Nothing ties a file id to one recording
(`prisma/schema.prisma:1053` has no unique index), so that the clean-up of one row deletes the file of another one that was
completed with the same id, kept or not; `NoFileIsLost` and `KeptFileStays` except that (`Shared`).
A `client_recording_id` used again returns another match's
recording (`:401`).

*Challenges.* Claims write an absolute XP, so that a credit in between is lost
(`claimRace`); a rank that `getUserRank` computed from the XP before such a loss
and writes after it (`users.service.ts:296-317`) is then ahead of the XP; approve and claim both credit, reject then approve credits twice
(`challenges.service.ts:579`), two approvals both pass (`:536`), and an approval does not update the rank.

*Notifications.* A shared phone nobody logged out of leaves the last user's token
(`noLogout`); an overlapping logout removes the fresh row (`overlap`); the last write of a
logout is swallowed (`lostWrite`). An exception while sending leaves the notice PENDING (`notifications.service.ts:475-479`).

## Proofs

TLAPS proves, for every value of the constants. Each `..._proofs` module first proves
`TypeCorrect` (`Spec => []TypeOK`), from a slightly stronger type invariant where requests carry
references, then an inductive invariant step by step, with one case per action, and then its theorems.

| Theorem | Says | Hypotheses |
|---|---|---|
| `SlotAllocation_proofs!SlotsStayAccounted`, `!NeverOverbooked` | `[]SlotsAccounted`, `[]NoOverbooking` | `shrink` not in `Env` |
| `SlotAllocation_proofs!ImplementsPool` | the handlers implement `SlotPool` | neither `shrink` nor `adminStatus` |
| `SlotAllocation_proofs!CountIsExact` | `[]CountIsConfirmed` | neither `overlap` nor `adminStatus` |
| `SlotAllocation_proofs!RowsAgree`, `!ConfirmedHasNoneOpen`, `!RegisterChangesNothing` | `[]RegistrationAgrees`, `[]NoOpenSubmission`, `RegisterIsIdempotent` | none of `overlap`, `adminStatus`, `leaveQueue`, `rosterDrift` |
| `SlotAllocation_proofs!PromotionIsFair` | `PromotesOldest` | nor `rejoin` |
| `TournamentLifecycle_proofs!EmittedOnce` | `[]SentOnce` | neither `editRoom` nor `unpublish` |
| `TournamentLifecycle_proofs!CompletedWhenPlayed` | `CompletesWhenPlayed` | `lateMatch` not in `Env` |
| `TeamRosters_proofs!CaptainLeads` | `[]OwnerHolds` | none of `rosterRace`, `changeRace`, `confirmRace` |
| `TeamRosters_proofs!RostersFit`, `!ApprovalsMatch` | `[]RosterFits`, `[]ApprovalsMatchRoster` | nor `subLeads`, `uncounted` |
| `TeamRosters_proofs!PlaysOnlyWhoAgreed` | `NobodyPlaysUnasked` | nor `lockRace` |
| `TeamRosters_proofs!OutcomesStay` | `OutcomesAreFinal` | neither `confirmRace` nor `closeRace` |
| `MCTeams_proofs!OwnerKeepsRole`, `!LimitsHold` | `[]OwnerLeads`, `[]RosterWithinLimits` | none of `rosterRace`, `leaveRace`, `ownerRejects`, `teamReturns`, `leaderAway` |
| `MCTeams_proofs!WaitlistIsTrue` | `[]WaitlistAgrees` | none of `syncRace`, `inviteRace`, `teamReturns` |
| `MCTeams_proofs!AnswersStay` | `AnswersAreFinal` | `answerRace` not in `Env` |
| `BracketStages_proofs!PausesEnd` | `[]PauseEnds` | `advanceRace` not in `Env` |
| `BracketStages_proofs!CompletedForGood` | `StaysCompleted` | neither `advanceRace` nor `regenerate` |
| `BracketStages_proofs!DecidedOnce`, `!PlaysInOneGroup` | `[]QualifiedOnce`, `[]OneGroup` | nor `wildPlaying` |
| `BracketStages_proofs!MeritDecides` | `[]AdvancesOnMerit` | `Env` empty |
| `MCBrackets_proofs!StagesFit` | `[]NextStageFits` | neither `regenerate` nor `finalizeRace` |
| `Recordings_proofs!FilesAreKept` | `[]NoFileIsLost` | `Env` empty |
| `Recordings_proofs!UploadIsFinal`, `!KeptStays` | `UploadedIsFinal`, `KeptFileStays` | `overlap` not in `Env` |
| `MCServices_proofs!RankIsReached` | `[]RankNeverAhead` | `claimRace` not in `Env` |
| `MCServices_proofs!EarnedOnly` | `[]RewardsAreEarned` | neither `claimRace` nor `deleteRace` |
| `MCServices_proofs!StatusTells` | `[]StatusIsTrue` | none |
| `MCServices_proofs!TokensFollow` | `[]TokensFollowPhones` | none of `noLogout`, `overlap`, `lostWrite` |
| `MCServices_proofs!Agrees` | `[]EndpointsAgree` | none |
| `MCServices_proofs!RoomReached`, `!NoticesFindRooms` | `[]OpenRoomIsReached`, `NoticeFindsTheRoom` | neither `wildCard` nor `mixed` |

*Slots.* The counter is useless for `NoOverbooking` (it can be wrong under `adminStatus`
or `overlap`), which alone is not inductive. What is inductive is `SlotsAccounted`: every
row's slot lies in `1..maxSlots`, confirmed teams hold different slots, a promotion
works with a capacity no larger than the present one, and a handler about to update a row by id
has found one. A last lemma maps confirmed teams injectively to slots and counts.
The same invariant makes each action a `SlotPool` step or a stutter.

*The counter and the rows of a team.* Every action is first put into one of a few shapes (a team
is confirmed, is removed, or neither), from which the cardinality argument needs no handler any more.
`CountIsExact` needs `RemovalsJustified`: a request about to decrement is the only one about its team
and has found it confirmed. `Agreement` adds, per team, how its state, row, entry and
submissions fit together, and per request that what it has read of its team is still so.
`QueueAgrees` adds that the queue holds the waiting teams and that a promotion has picked
the head of a queue which may only have lost teams since; `shrink` and `abort` are allowed
throughout.

*The bracket.* Four invariants, each the former with more. `Waiting`: a round has one request at
work, and a paused round has that request or an unresolved tie-breaker; without it a late pause could
leave a round paused for nothing. `Progress`: what is about to be written is about a round still played,
and rounds begin in order; so nothing is reopened. `Seeded`: rows of Round 2
are teams that came through Round 1, wild cards are out, qualification rows are of completed rounds, and
a ranking in flight has no team twice; `QualifiedOnce` and `OneGroup` are conjuncts of it,
and neither is inductive alone, since the database would take a second row. `Merit`: every tie-breaker is
between all teams of its group level at a cutoff, no two between the same (`TiesFair`), a ranking in
flight sorts the scores with each such tie decided (`Fair`), and a completed round was advanced by
a ranking that is fair still (`Settled`). The scores decide up to ties which team is at a place:
two sorted rankings of a group have the same points at each place, by counting who is ahead
(`SamePlace`), and moving a selected team up to its cutoff keeps a ranking sorted (`MovedKeepsRanked`), so that the
ties settled in turn stay settled (`StandingFair`) however the database orders equal rows.
`MeritDecides` excludes every name of `Env`: corrected scores and a tie-breaker resolved twice
do break it.

*The planned bracket.* `StageInv`: one request works on a stage (`OneAStage`), stages begin in order, the groups of
a stage are full, disjoint and made up of those who came through (`Dealt`), a request about to write holds a ranking of all of
each group, or the participants of a stage no later one follows yet, and a stage has qualification rows exactly when
it is completed, as many as groups times cut and no team twice (`Written`). That `NextStageFits` needs all of it is
counting: groups that may not hold more than a lobby hold exactly a lobby once everybody is in one
(`GroupsFill`), so that each has enough teams to let through, and no team is listed twice (`PlacesCount`).
Scores may be corrected at any time (`rescore`). What the code does not promise by itself is the shape of the plan,
`PlanAssumption`: stages of full lobbies, each as large as what the groups before let through, and six of them at most. It
is what `searchBRPaths` proposes with the default of five rounds; the observations say where the code admits more.

*Notices of the lifecycle.* `ClaimInv`: an unmarked notice was neither claimed nor sent, one
run at most holds a claimed notice and only before it is sent, nobody has looked at a
room that is not set yet, and one admin at most is setting it. The last two are needed because
`setRoomCredentials` writes `roomReleasedAt` back as it read it.

*Completion.* `PlayedWhenCompleting`: what a run found on its way to completing the tournament is still
so when it writes, since results are corrected but never taken back.

*The captain.* `OwnerHolds` is not inductive since roles are written from what requests
have read. `Inv` adds what each of them still knows of the team when it writes (`Known`:
a transfer's old captain is the captain, a swap has seen the present roles, a change the
present version), which requests cannot run beside each other (`Alone`), and that an open
change of the current version keeps the owner where he is (`SoundSubs`): its approval rewrites
roles long after it was asked for. Closings, registrations and the lock may race everything.

*Rosters.* `FitInv` adds to the captain's invariant what a request in flight may still write
(`Plans`): the place a join counted is free, a lineup names members who may play, a registration
of the current version names the players. `Standing` says what a waiting submission of the
current version lines up: the team as it is, or the team with one other player, the only one whose answer
is awaited. That is what makes the last approval fit long after it was asked for: who gives it is the
substitute, and by counting exactly one player makes room for him (`OneOut`). Whoever plays changes only with the version
(`Noticed`), so a submission of an older version may name anybody. `NobodyPlaysUnasked` is an action
property of the same steps (`Asked`); its second half needs `LockInv`, that a request about a
confirmed roster still has the lock open. Answers may race cancellations and expiries throughout
(`closeRace`).

*Outcomes.* `OutcomeInv`: a closing on its way has found a change that is still open, and a team
that waits for approvals has no open change, since a registration cancels it and a change is only
submitted by a confirmed team. This holds although roster requests race each other.

*Squads.* `SquadInv`: what a request has read of the rows it writes is so unless the player left (`Knows`,
`StillSo`), one request at most fills a slot, and an owner who leads plays in the main roster
(`LeaderPlays`). The last is what makes a transfer fit: the old owner takes the slot that was counted, or the
one the new owner leaves; limits are proved by splitting a count at the one or two rows that a request
writes (`OneChanges`, `TwoChange`). A squad that is created takes in a whole team: `TeamInv` says of the team that its
captain holds the role the squad will give its owner and that it has one substitute, and counting its rows by the
roster they come into (`ComingCounted`) does the rest. `SyncInv`: a refresh is still to count, or the one that has counted
is right, and a squad that is being invited is alone and full. It needs nothing of `SquadInv`, so that the row agrees
even where races overfill the roster. `AnswerInv`: one answer per player, which found the invitation open;
whatever else races cannot touch it.

*Recordings.* `Inv`: what a request knows of the row it will write is true (`RequestsReady`),
a file that a row names is whole unless another recording was completed with it and cleaned up (`RowsHold`), a recording that
was completed names its file as long as that is whole (`CompletedHolds`), and no recording has two requests
(`Apart`). Files may be shared throughout.

*Challenges.* `RankInv`: a claim on its way is the only credit of its player (`ClaimsAlone`), the XP it has read
still stands (`XpStands`), and the XP from which a late rank was computed has been reached (`XpWasReached`): XP
only rises then, so that the rank is never ahead when it is written at last. `RewardInv` relates what claims in flight have
read to the XP a player was granted.

*Notifications.* `TokenInv`: one request a phone, what its steps know (`StepsKnow`), tokens of
uninstalled apps are dead (`GoneAreDead`). `StatusInv` counts what a push has reached so far.

*Rooms.* `EndpointsAgree` needs only that references exist (`ReferencesExist`); the other two need the
order of the rounds and that matches are of one kind (`BracketInv`).

The assumptions are those of the modules (finite sets of teams and players, positive
capacity and roster size (the code has 2 and 4), natural bounds, "nobody" is no player, a plan that fits); TLC
evaluates them in the runs. Squads, the planned bracket, challenges,
notifications and access are proved about as the instances `Sq!`, `Ge!`, `Ch!`, `No!` and `Ac!` that `MCTeams`, `MCBrackets` and
`MCServices` compose: `EachPartRuns`, `EachBracketRuns` and `EachServiceRuns` say that a behaviour of the composition is one of each part, so that
each theorem holds of the part alone and of the composition the run explores. What they need of
their constants are hypotheses of the theorems (rewards are natural numbers, "none" is no user).

**Only model-checked:** all liveness (`WaitlistDrains`, `GoesLive`, `Completes`,
`RoomsAreReleased`), which is out of the prover's reach. Every invariant and every action
property of the runs is a theorem. Of notices, at most once is
proved; at least once does not hold, as a run that dies between the mark and the emit loses
the notice.

## What is abstracted or left out

- A database transaction is one step. `finalizeRegistration` emits its events before the
  caller commits; events reach notifications and sockets only and are left out.
- SOLO and DUO registrations (no team row, no waitlist), teams without a tournament, the
  limit of open join requests a player may have.
- Points, ranks and the leaderboard rows; the arithmetic that recommends and validates a
  format. Both are stateless computations with no reference but themselves. (Read along the way: alternatives
  are searched only at multiples of the lobby size around the wanted size, and a doubling of
  32-bit integers overflows above 2^30 units.)
- `deleteTournament` and seeding at start-up.
- Titles, prizes, maps, formatting, pagination, mappers, DTO validation, audit rows, rate
  limits, URLs and the Drive's protocol; the branch of a push without a Firebase configuration.
- A reminder's window (14 to 15 minutes ahead) is one tick of the clock; that a late
  run misses it for ever is accepted by the code and not a property.
- Rejecting and cancelling a join request re-read it inside no transaction and may overwrite
  an approval; `AnswerJoin` is one step.
- The live gateway, authentication, users and guards, content, partners, support, games,
  app configuration, mail, cache and bootstrap: CRUD, delivery or I/O of libraries, with no
  state of their own that two requests coordinate on.

## What is left

The components that coordinate are modelled, and their safety properties are proved. What could still be
weakened are the hypotheses of the theorems, where a race that `Env` names is known to do no harm.
