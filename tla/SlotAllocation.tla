-------------------------- MODULE SlotAllocation --------------------------
(***************************************************************************)
(* Slots and waitlist of one LIVE team tournament: registration.service.ts *)
(* (register, approve, decline, cancel, finalize, promote), the removal    *)
(* paths of tournaments.service.ts and matches.service.ts, the scheduler's *)
(* safety net, and the unique indexes PostgreSQL enforces on the rows.     *)
(*                                                                         *)
(* A handler reads rows outside its transaction and acts on what it read   *)
(* later, so a request is a small record (pc, and the values it captured)  *)
(* and every database transaction is one atomic action.  Who may do what   *)
(* at the same time is a parameter, Env, so that a run or a theorem can    *)
(* name exactly the outside behaviour it excludes.                         *)
(***************************************************************************)
EXTENDS Integers, Sequences, FiniteSets

CONSTANTS
    Teams,            \* teams scoped to the tournament
    Requests,         \* HTTP handler invocations that can be in flight together
    Scheduler,        \* the promotion run of the scheduler's safety net
    NoTeam,           \* model value: a request that is about no team
    MaxCapacity,      \* bound on maxSlots
    MaxSubmissions,   \* bound on the submissions a team creates
    MaxVersion,       \* bound on roster changes per team
    MinCount,         \* bound below on registeredCount, which can go negative
    RequireApproval,  \* requirePlayerApproval of the tournament as created
    Env               \* the outside behaviours that are possible

EnvBehaviours == {
    "overlap",        \* two requests about one team in flight together
    "rejoin",         \* a team whose registration row was removed registers
    "leaveQueue",     \* an owner unregisters a WAITLISTED team
    "adminStatus",    \* PATCH of a team's status in the match centre
    "shrink",         \* an admin lowers maxSlots
    "toggle",         \* an admin turns requirePlayerApproval on or off
    "close",          \* play starts, the tournament completes or is cancelled
    "abort",          \* a handler dies: crash, timeout, serialization failure
    "rosterDrift" }   \* a queued or confirmed roster loses or regains validity

ASSUME TeamsAssumption       == IsFiniteSet(Teams) /\ NoTeam \notin Teams
ASSUME SchedulerAssumption   == Scheduler \notin Requests
ASSUME MaxCapacityAssumption == MaxCapacity \in Nat \ {0}
ASSUME BoundsAssumption      == MaxSubmissions \in Nat /\ MaxVersion \in Nat /\ MinCount \in Int
ASSUME SwitchAssumption      == RequireApproval \in BOOLEAN
ASSUME EnvAssumption         == Env \subseteq EnvBehaviours

Handlers == Requests \cup {Scheduler}

TournamentStatus == {"LIVE", "COMPLETED", "CANCELLED"}
TeamRegistrationState == {"FORMING", "PENDING_PLAYER_APPROVAL",
                          "ROSTER_CHANGE_REQUIRED", "CONFIRMED", "WAITLISTED"}
\* NONE stands for the absence of a row.
RegistrationStatus == {"NONE", "CONFIRMED", "CANCELLED", "DISQUALIFIED"}
WaitlistEntryStatus == {"NONE", "WAITING", "PROMOTED", "REMOVED", "INVALID"}
SubmissionStatus == {"ACTIVE", "COMPLETED", "CANCELLED", "SUPERSEDED"}
\* A submission with its approvals: has one of the approvers DECLINED?
Submission == [status : SubmissionStatus, version : Nat, declined : BOOLEAN]

\* Control points of the handlers: the next database call of the request.
TeamPcs == {"register", "leaveQueue", "unregister", "disqualify",
            "statusWrite", "statusDecrement", "statusTeam"}
PromotionPcs == {"promoteStart", "promoteCheck", "promotePick",
                 "promoteTx", "invalidateTx"}

RequestRecord == [
    pc      : {"idle"} \cup TeamPcs \cup PromotionPcs,
    team    : Teams \cup {NoTeam},
    cap     : 0..MaxCapacity,          \* tournament.maxSlots as read
    sub     : Nat,                     \* id of the submission read, 0: none
    version : Nat,                     \* team.rosterVersion as read
    asks    : BOOLEAN,                 \* requirePlayerApproval as read
    was     : BOOLEAN,                 \* wasConfirmed
    target  : RegistrationStatus]      \* status an admin asked for

VARIABLES
    status,           \* tournament.status
    started,          \* a match or a round has started
    maxSlots,         \* tournament.maxSlots
    requireApproval,  \* tournament.requirePlayerApproval, with >= 1 approver
    registeredCount,  \* tournament.registeredCount
    reg,              \* registration row of a team: [status, slot]
    teamState,        \* team.registrationState
    rosterOk,         \* composition, profile and conflict checks would pass
    version,          \* team.rosterVersion
    subs,             \* submissions of a team, oldest first
    entry,            \* status of the waitlist entry of a team
    queue,            \* teams with a waitlist entry, by createdAt
    req               \* the requests in flight

tournamentVars == <<status, started, maxSlots, requireApproval>>
teamVars == <<teamState, rosterOk, version, subs>>
queueVars == <<entry, queue>>
vars == <<status, started, maxSlots, requireApproval, registeredCount, reg,
          teamState, rosterOk, version, subs, entry, queue, req>>

Idle == [pc |-> "idle", team |-> NoTeam, cap |-> 0, sub |-> 0,
         version |-> 0, asks |-> FALSE, was |-> FALSE, target |-> "NONE"]

TypeOK ==
    /\ status \in TournamentStatus
    /\ started \in BOOLEAN
    /\ maxSlots \in 1..MaxCapacity
    /\ requireApproval \in BOOLEAN
    /\ registeredCount \in Int
    /\ reg \in [Teams -> [status : RegistrationStatus, slot : 0..MaxCapacity]]
    /\ teamState \in [Teams -> TeamRegistrationState]
    /\ rosterOk \in [Teams -> BOOLEAN]
    /\ version \in [Teams -> Nat]
    /\ subs \in [Teams -> Seq(Submission)]
    /\ entry \in [Teams -> WaitlistEntryStatus]
    /\ queue \in Seq(Teams)
    /\ req \in [Handlers -> RequestRecord]
    /\ \A r \in Handlers :
          req[r].pc \in TeamPcs \cup {"promoteTx", "invalidateTx"} => req[r].team \in Teams

Init ==
    /\ status = "LIVE"
    /\ started = FALSE
    /\ maxSlots \in 1..MaxCapacity
    /\ requireApproval = RequireApproval
    /\ registeredCount = 0
    /\ reg = [t \in Teams |-> [status |-> "NONE", slot |-> 0]]
    /\ teamState = [t \in Teams |-> "FORMING"]
    /\ rosterOk = [t \in Teams |-> TRUE]
    /\ version = [t \in Teams |-> 1]
    /\ subs = [t \in Teams |-> <<>>]
    /\ entry = [t \in Teams |-> "NONE"]
    /\ queue = <<>>
    /\ req = [r \in Handlers |-> Idle]

-----------------------------------------------------------------------------
(* What the queries of the handlers return *)

Confirmed == {t \in Teams : reg[t].status = "CONFIRMED"}
UsedSlots == {reg[t].slot : t \in Confirmed}
Waiting == {t \in Teams : entry[t] = "WAITING"}

\* Mutant: a search that finds nothing ends past the last slot.
SlotAfterLoop(cap) ==
    LET free == (1..cap) \ UsedSlots
    IN  IF free = {} THEN cap + 1 ELSE CHOOSE s \in free : \A u \in free : s <= u

\* The loop over 1..maxSlots, with its default of 1 when every slot is used.
LowestFreeSlot(cap) ==
    LET free == (1..cap) \ UsedSlots
    IN  IF free = {} THEN 1 ELSE CHOOSE s \in free : \A u \in free : s <= u

\* Mutants: no unique index on the slot, or an upsert of the team's row.
InsertAtAnySlot(t, slot) == reg[t].status = "NONE"
Upsert(t, slot) == slot \notin UsedSlots

\* UNIQUE(tournament, team), whatever the status of the row, and the partial
\* UNIQUE(tournament, slot) over CONFIRMED rows: otherwise P2002.
CanInsert(t, slot) == reg[t].status = "NONE" /\ slot \notin UsedSlots

\* orderBy createdAt asc; a reused entry keeps its createdAt.
Oldest(t) ==
    \E i \in DOMAIN queue :
        /\ queue[i] = t
        /\ entry[t] = "WAITING"
        /\ \A j \in DOMAIN queue : entry[queue[j]] = "WAITING" => i <= j

ActiveIds(t) == {i \in DOMAIN subs[t] : subs[t][i].status = "ACTIVE"}

WithStatus(s, ids, new) ==
    [i \in DOMAIN s |-> IF i \in ids THEN [s[i] EXCEPT !.status = new] ELSE s[i]]

\* Mutant: open submissions are left open.
LeaveOpen(t) == subs

CancelActive(t) ==
    [subs EXCEPT ![t] = WithStatus(@, ActiveIds(t), "CANCELLED")]

\* The client side of "overlap": a team has one request in flight at a time.
NotBusy(t) ==
    "overlap" \in Env \/ \A r \in Requests : req[r].pc \in TeamPcs => req[r].team # t

Goto(r, pc) == req' = [req EXCEPT ![r].pc = pc]
Finish(r)   == req' = [req EXCEPT ![r] = Idle]
\* The handler goes on to promoteFromWaitlist, or emits slot_freed for it.
ThenPromote(r) == req' = [req EXCEPT ![r] = [Idle EXCEPT !.pc = "promoteStart"]]

-----------------------------------------------------------------------------
(* finalizeRegistration, inside the caller's serializable transaction *)

FinalizeConfirms(t, id) ==
    LET slot == LowestFreeSlot(maxSlots)
    IN  /\ status = "LIVE" /\ rosterOk[t]
        /\ registeredCount < maxSlots
        /\ CanInsert(t, slot)
        /\ registeredCount' = registeredCount + 1
        /\ reg' = [reg EXCEPT ![t] = [status |-> "CONFIRMED", slot |-> slot]]
        /\ entry' = [entry EXCEPT ![t] = IF @ = "WAITING" THEN "PROMOTED" ELSE @]
        /\ teamState' = [teamState EXCEPT ![t] = "CONFIRMED"]
        /\ subs' = [subs EXCEPT ![t] =
                       IF id = 0 THEN @ ELSE WithStatus(@, {id}, "COMPLETED")]
        /\ UNCHANGED <<tournamentVars, queue, rosterOk, version>>

FinalizeWaitlists(t) ==
    /\ status = "LIVE" /\ rosterOk[t]
    /\ registeredCount >= maxSlots
    /\ teamState' = [teamState EXCEPT ![t] = "WAITLISTED"]
    /\ entry' = [entry EXCEPT ![t] = "WAITING"]
    /\ queue' = IF entry[t] = "NONE" THEN Append(queue, t) ELSE queue
    /\ UNCHANGED <<tournamentVars, registeredCount, reg, rosterOk, version, subs>>

Finalize(t, id) == FinalizeConfirms(t, id) \/ FinalizeWaitlists(t)

-----------------------------------------------------------------------------
(* register: checks outside the transaction, then one transaction *)

\* Mutant: the state of the team is not looked at.
RegisterReadAgain(r, t) ==
    /\ req[r] = Idle /\ NotBusy(t)
    /\ reg[t].status \in {"CANCELLED", "DISQUALIFIED"} => "rejoin" \in Env
    /\ status = "LIVE" /\ rosterOk[t]
    /\ req' = [req EXCEPT ![r] = [Idle EXCEPT !.pc = "register", !.team = t,
                                  !.version = version[t], !.asks = requireApproval]]
    /\ UNCHANGED <<tournamentVars, registeredCount, reg, teamVars, queueVars>>

RegisterRead(r, t) ==
    /\ req[r] = Idle /\ NotBusy(t)
    /\ reg[t].status \in {"CANCELLED", "DISQUALIFIED"} => "rejoin" \in Env
    /\ status = "LIVE" /\ rosterOk[t]
    /\ teamState[t] \in {"FORMING", "ROSTER_CHANGE_REQUIRED", "PENDING_PLAYER_APPROVAL"}
    /\ teamState[t] = "PENDING_PLAYER_APPROVAL" =>
          \A i \in ActiveIds(t) : subs[t][i].version # version[t]
    /\ req' = [req EXCEPT ![r] = [Idle EXCEPT !.pc = "register", !.team = t,
                                  !.version = version[t], !.asks = requireApproval]]
    /\ UNCHANGED <<tournamentVars, registeredCount, reg, teamVars, queueVars>>

\* No approval needed when the tournament was read: finalize at once, with no
\* submission, and leave alone one that a decline left ACTIVE.
RegisterFinalize(r) ==
    /\ req[r].pc = "register" /\ ~req[r].asks
    /\ Finalize(req[r].team, 0)
    /\ Finish(r)

\* Approval needed: nothing about the team is read again before the write.
RegisterSubmit(r) ==
    LET t == req[r].team
        new == [status |-> "ACTIVE", version |-> req[r].version, declined |-> FALSE]
    IN  /\ req[r].pc = "register" /\ req[r].asks
        /\ Len(subs[t]) < MaxSubmissions
        /\ subs' = [subs EXCEPT ![t] = Append(CancelActive(t)[t], new)]
        /\ teamState' = [teamState EXCEPT ![t] = "PENDING_PLAYER_APPROVAL"]
        /\ Finish(r)
        /\ UNCHANGED <<tournamentVars, registeredCount, reg, rosterOk, version, queueVars>>

-----------------------------------------------------------------------------
(* Answers of the players, cancellation by the owner, roster changes *)

\* Mutant: the state of the team is not looked at.
AnswerableInAnyState(t, id) ==
    /\ id \in ActiveIds(t)
    /\ subs[t][id].version = version[t]
    /\ status = "LIVE"

\* The submission an approver can still answer.
Answerable(t, id) ==
    /\ id \in ActiveIds(t)
    /\ subs[t][id].version = version[t]
    /\ teamState[t] = "PENDING_PLAYER_APPROVAL"
    /\ status = "LIVE"

\* approve by the last approver; the earlier approvals change no row of this
\* module.
ApproveLast(t) ==
    /\ \E id \in ActiveIds(t) : Answerable(t, id) /\ Finalize(t, id)
    /\ UNCHANGED req

\* decline: the submission stays ACTIVE, one of its approvals is DECLINED.
Decline(t) ==
    /\ \E id \in ActiveIds(t) :
          Answerable(t, id) /\ subs' = [subs EXCEPT ![t][id].declined = TRUE]
    /\ teamState' = [teamState EXCEPT ![t] = "ROSTER_CHANGE_REQUIRED"]
    /\ UNCHANGED <<tournamentVars, registeredCount, reg, rosterOk, version, queueVars, req>>

CancelRegistrationRequest(t) ==
    /\ teamState[t] \in {"PENDING_PLAYER_APPROVAL", "ROSTER_CHANGE_REQUIRED"}
    /\ subs' = CancelActive(t)
    /\ teamState' = [teamState EXCEPT ![t] = "FORMING"]
    /\ UNCHANGED <<tournamentVars, registeredCount, reg, rosterOk, version, queueVars, req>>

\* handleRosterChange after a join, leave, removal, swap or transfer.
RosterChange(t) ==
    /\ teamState[t] \notin {"CONFIRMED", "WAITLISTED"}
    /\ version[t] < MaxVersion
    /\ version' = [version EXCEPT ![t] = @ + 1]
    /\ \E ok \in BOOLEAN : rosterOk' = [rosterOk EXCEPT ![t] = ok]
    /\ \/ /\ teamState[t] = "FORMING"
          /\ UNCHANGED <<teamState, subs>>
       \/ /\ teamState[t] # "FORMING"
          /\ teamState' = [teamState EXCEPT ![t] = "FORMING"]
          /\ subs' = [subs EXCEPT ![t] = WithStatus(@, ActiveIds(t), "SUPERSEDED")]
    /\ UNCHANGED <<tournamentVars, registeredCount, reg, queueVars, req>>

-----------------------------------------------------------------------------
(* unregisterUserOrTeam: decide on what is read, then one transaction *)

UnregisterRead(r, t) ==
    LET waitlisted == teamState[t] = "WAITLISTED" \/ entry[t] = "WAITING"
    IN  /\ req[r] = Idle /\ NotBusy(t)
        /\ ~started
        /\ \/ /\ waitlisted /\ "leaveQueue" \in Env
              /\ req' = [req EXCEPT ![r] = [Idle EXCEPT !.pc = "leaveQueue", !.team = t]]
           \/ /\ ~waitlisted /\ reg[t].status = "CONFIRMED"
              /\ req' = [req EXCEPT ![r] = [Idle EXCEPT !.pc = "unregister", !.team = t]]
        /\ UNCHANGED <<tournamentVars, registeredCount, reg, teamVars, queueVars>>

LeaveQueue(r) ==
    LET t == req[r].team
    IN  /\ req[r].pc = "leaveQueue"
        /\ entry' = [entry EXCEPT ![t] = IF @ = "WAITING" THEN "REMOVED" ELSE @]
        /\ teamState' = [teamState EXCEPT ![t] = "FORMING"]
        /\ subs' = CancelActive(t)
        /\ Finish(r)
        /\ UNCHANGED <<tournamentVars, registeredCount, reg, rosterOk, version, queue>>

\* The row is updated by id and the count decremented without a condition.
Unregister(r) ==
    LET t == req[r].team
    IN  /\ req[r].pc = "unregister" /\ registeredCount > MinCount
        /\ reg' = [reg EXCEPT ![t].status = "CANCELLED"]
        /\ registeredCount' = registeredCount - 1
        /\ teamState' = [teamState EXCEPT ![t] = "FORMING"]
        /\ subs' = CancelActive(t)
        /\ ThenPromote(r)
        /\ UNCHANGED <<tournamentVars, rosterOk, version, queueVars>>

-----------------------------------------------------------------------------
(* disqualifyRegistration *)

DecrementIfPositive == IF registeredCount > 0 THEN registeredCount - 1 ELSE registeredCount

\* Mutant: every disqualification gives a place back.
DisqualifyReadAnyRow(r, t) ==
    /\ req[r] = Idle /\ NotBusy(t)
    /\ reg[t].status # "NONE"
    /\ req' = [req EXCEPT ![r] = [Idle EXCEPT !.pc = "disqualify", !.team = t, !.was = TRUE]]
    /\ UNCHANGED <<tournamentVars, registeredCount, reg, teamVars, queueVars>>

DisqualifyRead(r, t) ==
    /\ req[r] = Idle /\ NotBusy(t)
    /\ reg[t].status # "NONE"
    /\ req' = [req EXCEPT ![r] = [Idle EXCEPT !.pc = "disqualify", !.team = t,
                                  !.was = reg[t].status = "CONFIRMED"]]
    /\ UNCHANGED <<tournamentVars, registeredCount, reg, teamVars, queueVars>>

Disqualify(r) ==
    LET t == req[r].team
    IN  /\ req[r].pc = "disqualify"
        /\ reg' = [reg EXCEPT ![t].status = "DISQUALIFIED"]
        /\ \/ /\ req[r].was
              /\ registeredCount' = DecrementIfPositive
              /\ teamState' = [teamState EXCEPT ![t] = "FORMING"]
              /\ ThenPromote(r)
           \/ /\ ~req[r].was
              /\ UNCHANGED <<registeredCount, teamState>>
              /\ Finish(r)
        /\ UNCHANGED <<tournamentVars, rosterOk, version, subs, queueVars>>

-----------------------------------------------------------------------------
(* updateTeamStatusInTournament: four calls, no transaction *)

StatusRead(r, t) ==
    /\ "adminStatus" \in Env
    /\ req[r] = Idle /\ NotBusy(t)
    /\ reg[t].status # "NONE"
    /\ \E target \in RegistrationStatus \ {"NONE"} :
          req' = [req EXCEPT ![r] = [Idle EXCEPT !.pc = "statusWrite", !.team = t,
                                     !.was = reg[t].status = "CONFIRMED",
                                     !.target = target]]
    /\ UNCHANGED <<tournamentVars, registeredCount, reg, teamVars, queueVars>>

\* The write is refused when it would confirm a second row for the slot.
StatusWrite(r) ==
    LET t == req[r].team
        frees == req[r].was /\ req[r].target # "CONFIRMED"
    IN  /\ req[r].pc = "statusWrite"
        /\ req[r].target = "CONFIRMED" =>
              \A u \in Confirmed \ {t} : reg[u].slot # reg[t].slot
        /\ reg' = [reg EXCEPT ![t].status = req[r].target]
        /\ \/ frees /\ Goto(r, "statusDecrement")
           \/ ~frees /\ Finish(r)
        /\ UNCHANGED <<tournamentVars, registeredCount, teamVars, queueVars>>

StatusDecrement(r) ==
    /\ req[r].pc = "statusDecrement"
    /\ registeredCount' = DecrementIfPositive
    /\ Goto(r, "statusTeam")
    /\ UNCHANGED <<tournamentVars, reg, teamVars, queueVars>>

StatusTeam(r) ==
    /\ req[r].pc = "statusTeam"
    /\ teamState' = [teamState EXCEPT ![req[r].team] = "FORMING"]
    /\ ThenPromote(r)
    /\ UNCHANGED <<tournamentVars, registeredCount, reg, rosterOk, version, subs, queueVars>>

-----------------------------------------------------------------------------
(* updateTournament, status changes, the start of play *)

\* One update of max_slots, requirePlayerApproval or both; only more slots
\* than there were start a promotion.
UpdateTournament(r) ==
    /\ req[r] = Idle
    /\ \E n \in 1..MaxCapacity, asks \in BOOLEAN :
          /\ n # maxSlots \/ asks # requireApproval
          /\ n < maxSlots => "shrink" \in Env
          /\ asks # requireApproval => "toggle" \in Env
          /\ maxSlots' = n /\ requireApproval' = asks
          /\ \/ n > maxSlots /\ ThenPromote(r)
             \/ n <= maxSlots /\ UNCHANGED req
    /\ UNCHANGED <<status, started, registeredCount, reg, teamVars, queueVars>>

StartCompetition ==
    /\ "close" \in Env
    /\ ~started /\ started' = TRUE
    /\ UNCHANGED <<status, maxSlots, requireApproval, registeredCount, reg, teamVars,
                   queueVars, req>>

CloseTournament ==
    /\ "close" \in Env
    /\ status = "LIVE"
    /\ status' \in {"COMPLETED", "CANCELLED"}
    /\ UNCHANGED <<started, maxSlots, requireApproval, registeredCount, reg, teamVars,
                   queueVars, req>>

\* A roster that is locked changes validity all the same: a member leaves in
\* a handler that read an older state, a conflicting team gives up its slot.
RosterDrift(t) ==
    /\ "rosterDrift" \in Env
    /\ teamState[t] \in {"WAITLISTED", "CONFIRMED"}
    /\ rosterOk' = [rosterOk EXCEPT ![t] = ~@]
    /\ UNCHANGED <<tournamentVars, registeredCount, reg, teamState, version, subs,
                   queueVars, req>>

-----------------------------------------------------------------------------
(* promoteFromWaitlist *)

\* The scheduler's safety net emits slot_freed.
Sweep ==
    /\ req[Scheduler] = Idle
    /\ status = "LIVE" /\ Waiting # {} /\ registeredCount < maxSlots
    /\ ThenPromote(Scheduler)
    /\ UNCHANGED <<tournamentVars, registeredCount, reg, teamVars, queueVars>>

\* maxSlots is read once; the loop below keeps using this value.
PromoteStart(r) ==
    /\ req[r].pc = "promoteStart"
    /\ \/ /\ status = "LIVE"
          /\ req' = [req EXCEPT ![r].pc = "promoteCheck", ![r].cap = maxSlots]
       \/ status # "LIVE" /\ Finish(r)
    /\ UNCHANGED <<tournamentVars, registeredCount, reg, teamVars, queueVars>>

PromoteCheck(r) ==
    LET room == status = "LIVE" /\ registeredCount < maxSlots
    IN  /\ req[r].pc = "promoteCheck"
        /\ \/ room /\ Goto(r, "promotePick")
           \/ ~room /\ Finish(r)
        /\ UNCHANGED <<tournamentVars, registeredCount, reg, teamVars, queueVars>>

\* Mutant: no order among the WAITING entries.
PickAny(r) ==
    /\ req[r].pc = "promotePick"
    /\ \/ Waiting = {} /\ Finish(r)
       \/ \E t \in Waiting :
             req' = [req EXCEPT ![r].pc = IF rosterOk[t] THEN "promoteTx" ELSE "invalidateTx",
                                ![r].team = t]
    /\ UNCHANGED <<tournamentVars, registeredCount, reg, teamVars, queueVars>>

\* The oldest WAITING entry, its team and that team's newest ACTIVE submission.
PromotePick(r) ==
    /\ req[r].pc = "promotePick"
    /\ \/ /\ Waiting = {} /\ Finish(r)
       \/ \E t \in Waiting :
             /\ Oldest(t)
             /\ req' = [req EXCEPT
                  ![r].pc = IF rosterOk[t] THEN "promoteTx" ELSE "invalidateTx",
                  ![r].team = t,
                  ![r].sub = IF ActiveIds(t) = {} THEN 0
                             ELSE CHOOSE i \in ActiveIds(t) : \A j \in ActiveIds(t) : j <= i]
    /\ UNCHANGED <<tournamentVars, registeredCount, reg, teamVars, queueVars>>

\* Back to the top of the loop, with the capacity read at the start.
Again(r) == req' = [req EXCEPT ![r] = [Idle EXCEPT !.pc = "promoteCheck", !.cap = req[r].cap]]

\* Mutant: the last slot is never given away.
HasTwoPlaces(r) == status = "LIVE" /\ registeredCount + 1 < req[r].cap

HasRoom(r) == status = "LIVE" /\ registeredCount < req[r].cap

Promote(r) ==
    LET t == req[r].team
        slot == LowestFreeSlot(req[r].cap)
    IN  /\ req[r].pc = "promoteTx"
        /\ HasRoom(r) /\ entry[t] = "WAITING"
        /\ CanInsert(t, slot)
        /\ registeredCount' = registeredCount + 1
        /\ entry' = [entry EXCEPT ![t] = "PROMOTED"]
        /\ reg' = [reg EXCEPT ![t] = [status |-> "CONFIRMED", slot |-> slot]]
        /\ teamState' = [teamState EXCEPT ![t] = "CONFIRMED"]
        /\ subs' = [subs EXCEPT ![t] =
                       IF req[r].sub = 0 THEN @ ELSE WithStatus(@, {req[r].sub}, "COMPLETED")]
        /\ Again(r)
        /\ UNCHANGED <<tournamentVars, rosterOk, version, queue>>

\* No room under the captured capacity, or the entry was claimed by another.
PromoteNothing(r) ==
    /\ req[r].pc = "promoteTx"
    /\ ~HasRoom(r) \/ entry[req[r].team] # "WAITING"
    /\ Again(r)
    /\ UNCHANGED <<tournamentVars, registeredCount, reg, teamVars, queueVars>>

\* The entry is updated by id: nothing checks that it is still WAITING.
Invalidate(r) ==
    LET t == req[r].team
    IN  /\ req[r].pc = "invalidateTx"
        /\ entry' = [entry EXCEPT ![t] = "INVALID"]
        /\ teamState' = [teamState EXCEPT ![t] = "FORMING"]
        /\ subs' = CancelActive(t)
        /\ Again(r)
        /\ UNCHANGED <<tournamentVars, registeredCount, reg, rosterOk, version, queue>>

-----------------------------------------------------------------------------
(* Failures *)

\* The transaction of the request cannot commit: finalizeRegistration throws,
\* or a unique index refuses the row.  Nothing is written.
CannotCommit(r) ==
    LET t == req[r].team
    IN  \/ /\ req[r].pc = "register" /\ ~req[r].asks
           /\ \/ status # "LIVE" \/ ~rosterOk[t]
              \/ registeredCount < maxSlots /\ ~CanInsert(t, LowestFreeSlot(maxSlots))
        \/ /\ req[r].pc = "register" /\ req[r].asks
           /\ Len(subs[t]) >= MaxSubmissions      \* the model's bound
        \/ /\ req[r].pc = "promoteTx"
           /\ HasRoom(r) /\ entry[t] = "WAITING" /\ ~CanInsert(t, LowestFreeSlot(req[r].cap))
        \/ /\ req[r].pc = "statusWrite" /\ req[r].target = "CONFIRMED"
           /\ \E u \in Confirmed \ {t} : reg[u].slot = reg[t].slot

Throw(r) ==
    /\ CannotCommit(r) /\ Finish(r)
    /\ UNCHANGED <<tournamentVars, registeredCount, reg, teamVars, queueVars>>

\* The process dies, or a transaction times out or fails to serialize.
Abort(r) ==
    /\ "abort" \in Env
    /\ req[r] # Idle /\ Finish(r)
    /\ UNCHANGED <<tournamentVars, registeredCount, reg, teamVars, queueVars>>

-----------------------------------------------------------------------------
Promotion(r) ==
    \/ PromoteStart(r) \/ PromoteCheck(r) \/ PromotePick(r)
    \/ Promote(r) \/ PromoteNothing(r) \/ Invalidate(r)

\* What a request in flight does next, by itself.
Continue(r) ==
    \/ RegisterFinalize(r) \/ RegisterSubmit(r)
    \/ LeaveQueue(r) \/ Unregister(r) \/ Disqualify(r)
    \/ StatusWrite(r) \/ StatusDecrement(r) \/ StatusTeam(r)
    \/ Promotion(r) \/ Throw(r)

Arrive(r) ==
    \/ \E t \in Teams : RegisterRead(r, t) \/ UnregisterRead(r, t)
                        \/ DisqualifyRead(r, t) \/ StatusRead(r, t)
    \/ UpdateTournament(r)

Members(t) == ApproveLast(t) \/ Decline(t) \/ CancelRegistrationRequest(t) \/ RosterChange(t)

Next ==
    \/ \E r \in Handlers : Continue(r) \/ Abort(r)
    \/ \E r \in Requests : Arrive(r)
    \/ Sweep
    \/ \E t \in Teams : Members(t) \/ RosterDrift(t)
    \/ StartCompetition \/ CloseTournament

Spec == Init /\ [][Next]_vars

\* Every handler that has started goes on (the event loop runs it), and the
\* scheduler's interval fires again and again.
Fairness == WF_vars(Sweep) /\ \A r \in Handlers : WF_vars(Continue(r))
FairSpec == Spec /\ Fairness

-----------------------------------------------------------------------------
(* The slots as SlotPool sees them *)

PlaceOf(t) == IF reg[t].status = "CONFIRMED" THEN reg[t].slot ELSE 0

Pool == INSTANCE SlotPool WITH
    capacity <- maxSlots,
    place    <- [t \in Teams |-> PlaceOf(t)],
    gone     <- {t \in Teams : reg[t].status \in {"CANCELLED", "DISQUALIFIED"}}

\* Unless an admin lowers max_slots or rewrites a registration's status, the
\* handlers allocate slots as SlotPool does: one at a time, lowest first,
\* only while one is free, never twice to one team.
AllocatesAsPool == Pool!Spec

-----------------------------------------------------------------------------
(* Properties *)

\* However the handlers interleave, and even when registeredCount is wrong,
\* no more teams hold a confirmed registration than the tournament has slots
\* (README: "preventing overbooking under high concurrency").
NoOverbooking == Cardinality(Confirmed) <= maxSlots

\* Why it holds: a row keeps a slot that exists, whatever becomes of the row; no
\* two confirmed teams hold one slot; a promotion never works with more slots
\* than there are; and a handler that updates a row by id finds one, and keeps it.
SlotsInRange == \A t \in Teams : reg[t].status # "NONE" => reg[t].slot \in 1..maxSlots
SlotsDistinct == \A t, u \in Confirmed : reg[t].slot = reg[u].slot => t = u
CapturedCapacity ==
    \A r \in Handlers : req[r].pc \in PromotionPcs \ {"promoteStart"} => req[r].cap \in 1..maxSlots
UpdatesJustified ==
    \A r \in Handlers :
        /\ req[r].pc \in {"unregister", "disqualify", "statusWrite"} =>
              reg[req[r].team].status # "NONE"
        /\ req[r].pc = "statusWrite" => req[r].target # "NONE" /\ "adminStatus" \in Env
SlotsAccounted == SlotsInRange /\ SlotsDistinct /\ CapturedCapacity /\ UpdatesJustified

\* registeredCount, which every capacity check and slots_left are computed
\* from, is the number of confirmed registrations.
CountIsConfirmed == registeredCount = Cardinality(Confirmed)

\* The three rows that say where a team stands tell the same story: the team
\* row, its registration and its waitlist entry.
RegistrationAgrees ==
    \A t \in Teams :
        /\ teamState[t] = "CONFIRMED" <=> reg[t].status = "CONFIRMED"
        /\ teamState[t] = "WAITLISTED" <=> entry[t] = "WAITING"

\* A confirmed team has no open submission that its players were still to
\* answer: however approval is switched on and off, cancelled, declined and asked
\* for anew, what is left open is one that somebody declined or whose roster is
\* gone.  (Such a leftover there is: a direct registration cancels nothing.)
NoneToAnswer(t) ==
    \A i \in ActiveIds(t) : subs[t][i].declined \/ subs[t][i].version < version[t]
NoOpenSubmission == \A t \in Teams : reg[t].status = "CONFIRMED" => NoneToAnswer(t)

\* A promotion takes the oldest waiting entry of the moment it commits,
\* though it chose the entry in an earlier read.
PromotesOldest ==
    [][\A t \in Teams : entry[t] = "WAITING" /\ entry'[t] = "PROMOTED" => Oldest(t)]_vars

\* A confirmed team that registers again stays confirmed: it is neither put on the
\* waitlist nor asked for approvals anew.
RegisterIsIdempotent ==
    [][\A t \in Confirmed : teamState[t] = "CONFIRMED" =>
          teamState'[t] \notin {"WAITLISTED", "PENDING_PLAYER_APPROVAL"}]_vars

\* While a slot is free and a team that never held one waits for it, the
\* waitlist moves: the slot is taken, or no such team waits any more, or the
\* tournament is no longer LIVE.
FreeSlot ==
    /\ status = "LIVE" /\ registeredCount < maxSlots
    /\ \E t \in Waiting : reg[t].status = "NONE"
WaitlistDrains == FreeSlot ~> ~FreeSlot
=============================================================================
