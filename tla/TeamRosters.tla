---------------------------- MODULE TeamRosters ----------------------------
(***************************************************************************)
(* The roster of one squad team of one tournament, from its first member   *)
(* to the roster changes of a confirmed team: membership, join requests,   *)
(* captaincy (teams.service.ts), and the approvals of the players          *)
(* (registration.service.ts).                                              *)
(*                                                                         *)
(* Most handlers check on reads and write in a later transaction that does *)
(* not look again; approvals, declines and the approval of a join request  *)
(* are one serializable transaction each.  A transaction is one step.  The *)
(* slot a registration takes is the business of SlotAllocation: here it    *)
(* ends CONFIRMED or WAITLISTED.                                           *)
(***************************************************************************)
EXTENDS Integers, FiniteSets, SequencesExt

CONSTANTS
    Players, Requests,
    MaxMain,                 \* requiredMainCount
    MaxVersion,              \* bound on rosterVersion
    MaxSubmissions,          \* bound on the submissions of the team
    Env

ASSUME RosterAssumption ==
    /\ "nobody" \notin Players /\ IsFiniteSet(Players)
    /\ MaxMain \in Nat \ {0} /\ MaxVersion \in Nat \ {0}

EnvBehaviours == {
    "rosterRace",    \* requests that fill places or move the captaincy run beside each other
    "changeRace",    \* a change applied at once runs beside another change
    "confirmRace",   \* the team is confirmed while a roster request is on its way
    "closeRace",     \* a submission is answered while a cancellation or an expiry that
                     \* found it open is on its way
    "lockRace",      \* the lock begins while a request is on its way
    "subLeads",      \* the captaincy goes to a substitute
    "uncounted" }    \* a squad's invitation to a team that is full, or that holds a slot or
                     \* waits for one, is accepted

TeamMemberRole == {"PLAYER", "CAPTAIN", "MANAGER", "SUBSTITUTE"}
RegistrationState == {"FORMING", "PENDING_PLAYER_APPROVAL", "ROSTER_CHANGE_REQUIRED",
                      "CONFIRMED", "WAITLISTED"}
SubmissionStatus == {"ACTIVE", "COMPLETED", "CANCELLED", "SUPERSEDED", "EXPIRED"}

VARIABLES
    captain, ownerAs,        \* team.captainId, team.ownerRole
    role,                    \* teamMember rows, NONE without a row
    accepting,               \* team.acceptingSubstitutes
    version,                 \* team.rosterVersion
    reg,                     \* team.registrationState
    lock,                    \* OPEN, ROUND when only a round has started, or LOCKED
    sub,                     \* registrationSubmission rows with their approvals
    join,                    \* role a PENDING teamJoinRequest asks for, NONE without one
    req                      \* requests in flight

vars == <<captain, ownerAs, role, accepting, version, reg, lock, sub, join, req>>

Mains(f) == {p \in Players : f[p] \in {"PLAYER", "CAPTAIN"}}
Subs(f) == {p \in Players : f[p] = "SUBSTITUTE"}
Members == {p \in Players : role[p] # "NONE"}
OwnerRoleOf == IF ownerAs = "MANAGER" THEN "MANAGER" ELSE "CAPTAIN"
Registered == reg \in {"CONFIRMED", "WAITLISTED"}

NoRequest == [op |-> "none", who |-> "nobody", by |-> "nobody", id |-> 0, version |-> 0,
              seen |-> [p \in Players |-> "NONE"], main |-> {}, remove |-> {}]
RosterOps == {"join", "drop", "transfer", "roster", "change", "register"}
Operations == RosterOps \cup {"none", "close"}

Rosters == [Players -> TeamMemberRole \cup {"NONE"}]
Submissions == [kind : {"REGISTRATION", "ROSTER_CHANGE"}, version : 1..MaxVersion,
                playing : SUBSET Players, remove : SUBSET Players,
                answer : [Players -> {"NONE", "PENDING", "APPROVED", "DECLINED"}],
                status : SubmissionStatus]
Flights == [op : Operations, who : Players \cup {"nobody", "CANCELLED", "EXPIRED"},
            by : Players \cup {"nobody"}, id : Nat, version : Nat, seen : Rosters,
            main : SUBSET Players, remove : SUBSET Players]

TypeOK ==
    /\ captain \in Players \cup {"nobody"} /\ ownerAs \in {"LEADER", "MANAGER"}
    /\ role \in Rosters /\ accepting \in BOOLEAN
    /\ version \in 1..MaxVersion /\ reg \in RegistrationState
    /\ lock \in {"OPEN", "ROUND", "LOCKED"}
    /\ \A s \in DOMAIN sub : sub[s] \in Submissions
    /\ join \in [Players -> {"NONE", "PLAYER", "SUBSTITUTE"}]
    /\ \A r \in Requests : req[r] \in Flights

\* The team does not exist yet.
Init ==
    /\ captain = "nobody" /\ ownerAs = "LEADER" /\ accepting = TRUE
    /\ role = [p \in Players |-> "NONE"]
    /\ version = 1 /\ reg = "FORMING" /\ lock = "OPEN" /\ sub = <<>>
    /\ join = [p \in Players |-> "NONE"]
    /\ req = [r \in Requests |-> NoRequest]

\* createTeam: the owner is the first member.
CreateTeam(p, owner, takesSubs) ==
    /\ captain = "nobody"
    /\ captain' = p /\ ownerAs' = owner /\ accepting' = takesSubs
    /\ role' = [role EXCEPT ![p] = IF owner = "MANAGER" THEN "MANAGER" ELSE "CAPTAIN"]
    /\ UNCHANGED <<version, reg, lock, sub, join, req>>

InFlight(ops) == \E r \in Requests : req[r].op \in ops

\* A request in flight: whom or which submission it is about, and what it has read.
Flight(op, who, id, main, remove) ==
    [op |-> op, who |-> who, by |-> captain, id |-> id, version |-> version, seen |-> role,
     main |-> main, remove |-> remove]

\* A request that has passed its checks, with what it read.
Begin(r, f) ==
    /\ req[r].op = "none" /\ (f.op \in RosterOps => version < MaxVersion)
    /\ "rosterRace" \in Env \/ f.op \notin {"join", "roster", "transfer", "drop"}
       \/ ~InFlight({"join", "roster", "transfer", "drop"})
    /\ "changeRace" \in Env \/ f.op \notin {"change", "drop", "join"}
       \/ ~InFlight({"change", "drop", "join"})
    /\ "closeRace" \in Env \/ f.op # "close" \/ ~InFlight({"close"})
    /\ req' = [req EXCEPT ![r] = f]
    /\ UNCHANGED <<captain, ownerAs, role, accepting, version, reg, lock, sub, join>>

Done(r) == req' = [req EXCEPT ![r] = NoRequest]

Active == {s \in DOMAIN sub : sub[s].status = "ACTIVE"}
ActiveChanges == {s \in Active : sub[s].kind = "ROSTER_CHANGE"}
Closed(status) == [s \in DOMAIN sub |-> IF s \in Active THEN [sub[s] EXCEPT !.status = status]
                                        ELSE sub[s]]

-----------------------------------------------------------------------------
(* handleRosterChange, called inside the transaction that changes the roster *)
(* with the players and the captain that were read before it.                *)

\* Mutant: the version is not raised while the team is still forming.
NewVersionIfSubmitted == IF reg = "FORMING" THEN version ELSE version + 1

NewVersion == version + 1

HandleRosterChange(before, by, newRole, newCaptain) ==
    IF Registered \/ (Mains(newRole) = before /\ newCaptain = by)
    THEN UNCHANGED <<version, reg, sub>>
    ELSE /\ version < MaxVersion
         /\ version' = NewVersion
         /\ reg' = "FORMING"
         /\ sub' = IF reg = "FORMING" THEN sub ELSE Closed("SUPERSEDED")

-----------------------------------------------------------------------------
(* Joining                                                                   *)

\* verifyJoinEligibility: the role the player gets, none if he is refused.
JoinRoles(p, wantsSub) ==
    LET asSub == wantsSub \/ (Cardinality(Mains(role)) >= MaxMain /\ accepting
                              /\ Subs(role) = {})
    IN  IF /\ reg # "WAITLISTED" /\ role[p] = "NONE"
           /\ reg = "CONFIRMED" => lock = "OPEN" /\ wantsSub /\ accepting
           /\ Cardinality(Members) < MaxMain + (IF accepting THEN 1 ELSE 0)
           /\ IF asSub THEN accepting /\ Subs(role) = {}
                       ELSE Cardinality(Mains(role)) < MaxMain
        THEN {IF asSub THEN "SUBSTITUTE" ELSE "PLAYER"} ELSE {}

\* A team that admits players at once.
JoinRead(r, p, wantsSub) ==
    \E as \in JoinRoles(p, wantsSub) :
        Begin(r, Flight("join", p, 0, IF as = "PLAYER" THEN {p} ELSE {}, {}))

\* addMemberToTeam counts no places any more.
JoinWrite(r) ==
    LET p == req[r].who
        newRole == [role EXCEPT ![p] = IF p \in req[r].main THEN "PLAYER" ELSE "SUBSTITUTE"]
    IN  /\ req[r].op = "join" /\ role[p] = "NONE"
        /\ role' = newRole
        /\ HandleRosterChange(Mains(req[r].seen), req[r].by, newRole, captain)
        /\ Done(r)
        /\ UNCHANGED <<captain, ownerAs, accepting, lock, join>>

\* A team that wants to approve: what the request saw is checked again on approval.
JoinAsk(p, wantsSub) ==
    /\ join[p] = "NONE"
    /\ \E as \in JoinRoles(p, wantsSub) : join' = [join EXCEPT ![p] = as]
    /\ UNCHANGED <<captain, ownerAs, role, accepting, version, reg, lock, sub, req>>

\* Mutant: a substitute's place is given whether it is taken or not.
HasPlaceForAnySub(as) == IF as = "SUBSTITUTE" THEN accepting
                         ELSE Cardinality(Mains(role)) < MaxMain

HasPlace(as) == IF as = "SUBSTITUTE" THEN accepting /\ Subs(role) = {}
                ELSE Cardinality(Mains(role)) < MaxMain

ApproveJoin(p) ==
    LET newRole == [role EXCEPT ![p] = join[p]]
    IN  /\ join[p] # "NONE" /\ ~Registered
        /\ "rosterRace" \in Env \/ ~InFlight({"join", "roster", "transfer"})
        /\ join' = [join EXCEPT ![p] = "NONE"]
        /\ IF role[p] # "NONE" THEN UNCHANGED <<role, version, reg, sub>>
           ELSE /\ HasPlace(join[p])
                /\ role' = newRole
                /\ HandleRosterChange(Mains(role), captain, newRole, captain)
        /\ UNCHANGED <<captain, ownerAs, accepting, lock, req>>

\* rejectJoinRequest and cancelJoinRequest.
AnswerJoin(p) ==
    /\ join[p] # "NONE"
    /\ join' = [join EXCEPT ![p] = "NONE"]
    /\ UNCHANGED <<captain, ownerAs, role, accepting, version, reg, lock, sub, req>>

\* ACCEPT of respondToInvitation (squads.service.ts), the team's half of the transaction that
\* Squads has as AcceptWrite: one more player, whatever the roster and the registration are.
AcceptInvitation(p) ==
    LET newRole == [role EXCEPT ![p] = "PLAYER"]
    IN  /\ role[p] = "NONE"
        /\ "rosterRace" \in Env \/ ~InFlight({"join", "roster", "transfer", "change"})
        /\ "uncounted" \in Env \/ (~Registered /\ Cardinality(Mains(role)) < MaxMain)
        /\ role' = newRole
        /\ HandleRosterChange(Mains(role), captain, newRole, captain)
        /\ UNCHANGED <<captain, ownerAs, accepting, lock, join, req>>

-----------------------------------------------------------------------------
(* Leaving, removal, captaincy and roles                                     *)

\* Mutant: the lock is not looked at.
MayGoAnyTime(p) == IF reg = "CONFIRMED" THEN role[p] = "SUBSTITUTE" ELSE reg # "WAITLISTED"

\* leaveTeam and removeMember: only a substitute leaves a confirmed team.
MayGo(p) == IF reg = "CONFIRMED" THEN lock = "OPEN" /\ role[p] = "SUBSTITUTE"
                                 ELSE reg # "WAITLISTED"

DropRead(r, p) ==
    /\ p \in Members \ {captain} /\ MayGo(p)
    /\ Begin(r, Flight("drop", p, 0, {}, {}))

DropWrite(r) ==
    LET p == req[r].who
        newRole == [role EXCEPT ![p] = "NONE"]
    IN  /\ req[r].op = "drop" /\ p \in Members
        /\ role' = newRole
        /\ HandleRosterChange(Mains(req[r].seen), req[r].by, newRole, captain)
        /\ Done(r)
        /\ UNCHANGED <<captain, ownerAs, accepting, lock, join>>

TransferRead(r, p) ==
    /\ ~Registered /\ p \in Members \ {captain}
    /\ role[p] = "SUBSTITUTE" => "subLeads" \in Env
    /\ Begin(r, Flight("transfer", p, 0, {}, {}))

\* Mutant: the old captain keeps his role.
TransferredNewOnly(old, new) == [role EXCEPT ![new] = OwnerRoleOf]

Transferred(old, new) == [role EXCEPT ![old] = "PLAYER", ![new] = OwnerRoleOf]

TransferWrite(r) ==
    LET old == req[r].by
        new == req[r].who
    IN  /\ req[r].op = "transfer" /\ {old, new} \subseteq Members
        /\ role' = Transferred(old, new)
        /\ captain' = new
        /\ HandleRosterChange(Mains(req[r].seen), old, Transferred(old, new), new)
        /\ Done(r)
        /\ UNCHANGED <<ownerAs, accepting, lock, join>>

\* The rules updatePlayingRoster and requestRosterChange share.
PlayingRoster(main, remove) ==
    LET rest == {p \in Members \ (main \cup remove) : role[p] # "MANAGER"}
    IN  /\ Cardinality(main) = MaxMain /\ main \subseteq Members
        /\ \A p \in main : role[p] # "MANAGER"
        /\ ownerAs = "LEADER" => captain \in main
        /\ Cardinality(rest) <= (IF accepting THEN 1 ELSE 0)

RosterRead(r, main) ==
    /\ ~Registered /\ PlayingRoster(main, {})
    /\ Begin(r, Flight("roster", "nobody", 0, main, {}))

\* Only the rows that were read are rewritten, each according to the role that was read.
Swapped(r, p) ==
    CASE req[r].seen[p] = "SUBSTITUTE" /\ p \in req[r].main -> "PLAYER"
      [] req[r].seen[p] = "PLAYER" /\ p \notin req[r].main -> "SUBSTITUTE"
      [] OTHER -> role[p]
RosterRows(r) == {p \in Players : req[r].seen[p] = IF p \in req[r].main THEN "SUBSTITUTE"
                                                                      ELSE "PLAYER"}

RosterWrite(r) ==
    LET newRole == [p \in Players |-> Swapped(r, p)]
    IN  /\ req[r].op = "roster" /\ RosterRows(r) \subseteq Members
        /\ role' = newRole
        /\ HandleRosterChange(Mains(req[r].seen), req[r].by, newRole, captain)
        /\ Done(r)
        /\ UNCHANGED <<captain, ownerAs, accepting, lock, join>>

ToggleSubstitutes ==
    /\ accepting' = ~accepting
    /\ UNCHANGED <<captain, ownerAs, role, version, reg, lock, sub, join, req>>

-----------------------------------------------------------------------------
(* Registration and its approvals                                            *)

Submit(kind, f, approvers, before) ==
    /\ Len(sub) < MaxSubmissions
    /\ sub' = Append(before, [kind |-> kind, version |-> f.version, playing |-> f.main,
                              remove |-> f.remove, status |-> "ACTIVE",
                              answer |-> [p \in Players |-> IF p \in approvers THEN "PENDING"
                                                            ELSE "NONE"]])

\* register: a full roster, and no submission of this version waits already.
RegisterRead(r) ==
    /\ ~Registered /\ Cardinality(Mains(role)) = MaxMain
    /\ reg = "PENDING_PLAYER_APPROVAL" => \A s \in Active : sub[s].version # version
    /\ Begin(r, Flight("register", "nobody", 0, Mains(role), {}))

RegisterSubmit(r) ==
    LET approvers == req[r].main \ (IF ownerAs = "LEADER" THEN {req[r].by} ELSE {})
    IN  /\ req[r].op = "register" /\ approvers # {}
        /\ "closeRace" \in Env \/ ~InFlight({"close"})
        /\ Submit("REGISTRATION", req[r], approvers, Closed("CANCELLED"))
        /\ reg' = "PENDING_PLAYER_APPROVAL"
        /\ Done(r)
        /\ UNCHANGED <<captain, ownerAs, role, accepting, version, lock, join>>

\* Without the approval of players the slot is taken at once, for whatever the team is now.
RegisterFinalize(r) ==
    /\ req[r].op = "register"
    /\ "confirmRace" \in Env \/ (version = req[r].version /\ ~Registered
                                 /\ \A s \in Requests \ {r} : req[s].op \notin RosterOps)
    /\ reg' \in {"CONFIRMED", "WAITLISTED"}
    /\ Done(r)
    /\ UNCHANGED <<captain, ownerAs, role, accepting, version, lock, sub, join>>

IsCurrent(s) == sub[s].status = "ACTIVE" /\ sub[s].version = version

\* The roles a change leaves behind, written over the roles that were read.
Applied(seen, main, remove) ==
    [p \in Players |->
        LET playing == IF p = captain /\ ownerAs = "LEADER" THEN "CAPTAIN" ELSE "PLAYER"
        IN  CASE seen[p] = "NONE" -> role[p]
              [] seen[p] # "NONE" /\ p \in remove -> "NONE"
              [] seen[p] # "NONE" /\ p \in main /\ seen[p] # playing -> playing
              [] seen[p] \in {"PLAYER", "CAPTAIN"} /\ p \notin main \cup remove -> "SUBSTITUTE"
              [] OTHER -> role[p]]

CanApprove(p, s) ==
    /\ IsCurrent(s) /\ sub[s].answer[p] = "PENDING"
    /\ IF sub[s].kind = "ROSTER_CHANGE"
       THEN reg = "CONFIRMED" /\ lock # "LOCKED" /\ p \in Members
       ELSE reg = "PENDING_PLAYER_APPROVAL" /\ p \in sub[s].playing \cap Mains(role)

AllApproved(p, s) == \A q \in Players \ {p} : sub[s].answer[q] \in {"NONE", "APPROVED"}

Approve(p, s) ==
    LET approved == [sub[s] EXCEPT !.answer[p] = "APPROVED"]
        completed == [approved EXCEPT !.status = "COMPLETED"]
    IN  /\ CanApprove(p, s)
        /\ "closeRace" \in Env \/ ~InFlight({"close"})
        /\ IF ~AllApproved(p, s)
           THEN sub' = [sub EXCEPT ![s] = approved] /\ UNCHANGED <<role, version, reg>>
           ELSE /\ sub' = [sub EXCEPT ![s] = completed]
                /\ "confirmRace" \in Env \/ ~InFlight(RosterOps)
                /\ IF sub[s].kind = "ROSTER_CHANGE"
                   THEN /\ version < MaxVersion /\ version' = version + 1
                        /\ role' = Applied(role, sub[s].playing, sub[s].remove)
                        /\ UNCHANGED reg
                   ELSE reg' \in {"CONFIRMED", "WAITLISTED"} /\ UNCHANGED <<role, version>>
        /\ UNCHANGED <<captain, ownerAs, accepting, lock, join, req>>

\* A declined change is over, a declined registration stays open for display.
Decline(p, s) ==
    /\ IsCurrent(s) /\ sub[s].answer[p] = "PENDING"
    /\ "closeRace" \in Env \/ ~InFlight({"close"})
    /\ IF sub[s].kind = "ROSTER_CHANGE"
       THEN /\ reg = "CONFIRMED"
            /\ sub' = [sub EXCEPT ![s].answer[p] = "DECLINED", ![s].status = "CANCELLED"]
            /\ UNCHANGED reg
       ELSE /\ reg = "PENDING_PLAYER_APPROVAL" /\ p \in sub[s].playing \cap Mains(role)
            /\ sub' = [sub EXCEPT ![s].answer[p] = "DECLINED"]
            /\ reg' = "ROSTER_CHANGE_REQUIRED"
    /\ UNCHANGED <<captain, ownerAs, role, accepting, version, lock, join, req>>

CancelRegistration ==
    /\ reg \in {"PENDING_PLAYER_APPROVAL", "ROSTER_CHANGE_REQUIRED"}
    /\ sub' = Closed("CANCELLED")
    /\ reg' = "FORMING"
    /\ UNCHANGED <<captain, ownerAs, role, accepting, version, lock, join, req>>

-----------------------------------------------------------------------------
(* requestRosterChange of a confirmed team, its cancellation and its expiry  *)

ChangeRead(r, main, remove) ==
    /\ reg = "CONFIRMED" /\ lock = "OPEN" /\ ActiveChanges = {}
    /\ PlayingRoster(main, remove)
    /\ remove \subseteq Members \ (main \cup {captain})
    /\ main # Mains(role) \/ remove # {}
    /\ Begin(r, Flight("change", "nobody", 0, main, remove))

Added(f) == f.main \ Mains(f.seen)
Written(f) == {p \in Players : f.seen[p] # "NONE" /\ Applied(f.seen, f.main, f.remove)[p] # role[p]}

\* Nobody new plays: applied over the rows and the version that were read.
ChangeApply(r) ==
    /\ req[r].op = "change" /\ Added(req[r]) = {}
    /\ "confirmRace" \in Env \/ reg = "CONFIRMED"
    /\ Written(req[r]) \subseteq Members
    /\ version' = req[r].version + 1
    /\ role' = Applied(req[r].seen, req[r].main, req[r].remove)
    /\ Done(r)
    /\ UNCHANGED <<captain, ownerAs, accepting, reg, lock, sub, join>>

\* One ACTIVE submission per team: a unique index refuses a second one.
ChangeSubmit(r) ==
    /\ req[r].op = "change" /\ Added(req[r]) # {} /\ Active = {}
    /\ Submit("ROSTER_CHANGE", req[r], Added(req[r]), sub)
    /\ Done(r)
    /\ UNCHANGED <<captain, ownerAs, role, accepting, version, reg, lock, join>>

\* Mutant: the cancellation takes whatever submission came last.
OpenChangesOrLast == {s \in DOMAIN sub : s = Len(sub) /\ sub[s].kind = "ROSTER_CHANGE"}

OpenChanges == ActiveChanges

\* cancelRosterChange, and the scheduler once the lock has been reached.
CloseRead(r, as) ==
    /\ as = "EXPIRED" => lock = "LOCKED"
    /\ \E s \in OpenChanges : Begin(r, Flight("close", as, s, {}, {}))

CloseWrite(r) ==
    /\ req[r].op = "close"
    /\ sub' = [sub EXCEPT ![req[r].id].status = req[r].who]
    /\ Done(r)
    /\ UNCHANGED <<captain, ownerAs, role, accepting, version, reg, lock, join>>

-----------------------------------------------------------------------------
(* What other components do to the team                                      *)

\* Promotion from the waitlist.
Promote ==
    /\ reg = "WAITLISTED" /\ reg' = "CONFIRMED"
    /\ UNCHANGED <<captain, ownerAs, role, accepting, version, lock, sub, join, req>>

\* unregister and disqualification cancel what is open; the match centre does not.
Withdraw ==
    /\ Registered /\ reg' = "FORMING"
    /\ "confirmRace" \in Env \/ ~InFlight(RosterOps)
    /\ "closeRace" \in Env \/ ~InFlight({"close"})
    /\ sub' \in {sub, Closed("CANCELLED")}
    /\ UNCHANGED <<captain, ownerAs, role, accepting, version, lock, join, req>>

\* hasCompetitionStarted and getEffectiveRosterLock.
LockBegins ==
    /\ lock # "LOCKED" /\ lock' \in {"ROUND", "LOCKED"} \ {lock}
    /\ "lockRace" \in Env \/ ~InFlight(RosterOps)
    /\ UNCHANGED <<captain, ownerAs, role, accepting, version, reg, sub, join, req>>

\* A write meets a row that is gone or refused by an index.
Throw(r) ==
    /\ \/ req[r].op = "join" /\ role[req[r].who] # "NONE"
       \/ req[r].op = "drop" /\ req[r].who \notin Members
       \/ req[r].op = "transfer" /\ ~({req[r].by, req[r].who} \subseteq Members)
       \/ req[r].op = "roster" /\ ~(RosterRows(r) \subseteq Members)
       \/ req[r].op = "change" /\ IF Added(req[r]) = {} THEN ~(Written(req[r]) \subseteq Members)
                                                        ELSE Active # {}
    /\ Done(r)
    /\ UNCHANGED <<captain, ownerAs, role, accepting, version, reg, lock, sub, join>>

-----------------------------------------------------------------------------
Read(r) ==
    \/ \E p \in Players :
        \/ \E wantsSub \in BOOLEAN : JoinRead(r, p, wantsSub)
        \/ DropRead(r, p) \/ TransferRead(r, p)
    \/ \E main \in kSubset(MaxMain, Members) :
        \/ RosterRead(r, main)
        \/ \E remove \in SUBSET (Members \ main) : ChangeRead(r, main, remove)
    \/ RegisterRead(r)
    \/ \E as \in {"CANCELLED", "EXPIRED"} : CloseRead(r, as)

Write(r) ==
    \/ JoinWrite(r) \/ DropWrite(r) \/ TransferWrite(r) \/ RosterWrite(r) \/ Throw(r)
    \/ RegisterSubmit(r) \/ RegisterFinalize(r)
    \/ ChangeApply(r) \/ ChangeSubmit(r) \/ CloseWrite(r)

Answer(p) ==
    \/ \E wantsSub \in BOOLEAN : JoinAsk(p, wantsSub)
    \/ ApproveJoin(p) \/ AnswerJoin(p) \/ AcceptInvitation(p)
    \/ \E s \in DOMAIN sub : Approve(p, s) \/ Decline(p, s)

Create ==
    \E p \in Players, owner \in {"LEADER", "MANAGER"}, takesSubs \in BOOLEAN :
        CreateTeam(p, owner, takesSubs)

Operate ==
    \/ \E r \in Requests : IF req[r].op = "none" THEN Read(r) ELSE Write(r)
    \/ \E p \in Players : Answer(p)
    \/ ToggleSubstitutes \/ CancelRegistration \/ Promote \/ Withdraw \/ LockBegins

Next == IF captain = "nobody" THEN Create ELSE Operate

Spec == Init /\ [][Next]_vars

-----------------------------------------------------------------------------
(* Properties *)

\* "Main roster is full" and "Team already has a substitute player": joins, approvals of
\* joins, swaps, roster changes and invitations accepted while a place was free ("uncounted"
\* are the others) together never put more players in the team, and a team that holds a slot
\* or waits for one has as many as it needs.
RosterFits ==
    /\ Cardinality(Mains(role)) <= MaxMain /\ Cardinality(Subs(role)) <= 1
    /\ Registered => Cardinality(Mains(role)) = MaxMain

\* The captain holds the owner's role and nobody else holds it, whatever transfers,
\* removals and roster changes came in which order.
OwnerHolds == \A p \in Players : role[p] \in {"CAPTAIN", "MANAGER"} <=> p = captain

\* The approvals that count are approvals of the roster that plays: a submission of the
\* current version names the team's players, though it was read before it was written.
ApprovalsMatchRoster ==
    \A s \in Active : sub[s].kind = "REGISTRATION" /\ sub[s].version = version =>
        sub[s].playing = Mains(role)

Agreed(s, p) ==
    /\ sub'[s].status = "COMPLETED" /\ p \in sub[s].playing
    /\ \A q \in Players : sub'[s].answer[q] \in {"NONE", "APPROVED"}

\* In a confirmed team nobody starts to play without having approved a change, every
\* player of which has approved, and after the lock nothing changes at all; but for who
\* accepts a squad's invitation only then ("uncounted"): nothing stops him.
NobodyPlaysUnasked ==
    [][reg = "CONFIRMED" =>
        /\ reg' = "CONFIRMED" =>
               \A p \in Mains(role') \ Mains(role) : \E s \in Active : Agreed(s, p)
        /\ lock = "LOCKED" => role' = role]_vars

\* What became of a submission is final: an applied change is not cancelled afterwards,
\* nor a declined one expired.
OutcomesAreFinal ==
    [][\A s \in DOMAIN sub \ Active : sub'[s].status = sub[s].status]_vars
=============================================================================
