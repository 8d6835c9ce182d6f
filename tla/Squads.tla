------------------------------ MODULE Squads ------------------------------
(***************************************************************************)
(* One persistent squad of squads.service.ts: its roster, its owner, and   *)
(* the invitations of its main players to one tournament.                  *)
(*                                                                         *)
(* A handler checks on reads, writes in one later transaction, and then    *)
(* refreshes the squad's waitlist row in two more calls.  Requests run     *)
(* beside each other; Env names the overlaps that a run allows.            *)
(***************************************************************************)
EXTENDS Integers, FiniteSets, FiniteSetsExt

CONSTANTS
    Players, Requests,
    MaxMain, MaxSubs,        \* maxMainPlayers, maxSubstitutes
    Env

EnvBehaviours == {
    "rosterRace",    \* requests that fill roster slots run beside each other
    "leaveRace",     \* a member leaves or is removed while ownership is transferred
    "syncRace",      \* two refreshes of the waitlist row run beside each other
    "inviteRace",    \* the roster changes while the squad is being invited
    "answerRace",    \* an answer runs beside another one or the removal of the player,
                     \* or beside the expiry
    "ownerRejects",  \* the owner of the squad rejects an old invitation
    "teamReturns",   \* members of the team come into a roster that has no place for them,
                     \* or whose waitlist row they change, or with the role of an owner
    "leaderAway" }   \* the captain whose team becomes a squad is in another squad

SquadRole == {"MEMBER", "LEADER", "MANAGER"}
SquadRosterType == {"MAIN", "SUBSTITUTE"}
TeamMemberRole == {"PLAYER", "CAPTAIN", "MANAGER", "SUBSTITUTE"}
InvitationStatus == {"PENDING", "ACCEPTED", "REJECTED", "EXPIRED"}

VARIABLES
    leader,          \* squad.leaderId
    ownerAs,         \* squad.ownerRole: LEADER or MANAGER
    member,          \* squadMember rows: [role, roster], role NONE without a row
    live,            \* the tournament is LIVE
    captain,         \* captainId of the squad's team, nobody before it exists
    team,            \* its teamMember rows in the tournament, NONE without a row
    invitation,      \* tournamentInvitation rows of the players, NONE without a row
    waitlist,        \* status of the squad's tournamentWaitlist row
    req              \* requests in flight

vars == <<leader, ownerAs, member, live, captain, team, invitation, waitlist, req>>
roster == <<leader, ownerAs, member>>
tournament == <<live, captain, team, invitation, waitlist>>

NoMember == [role |-> "NONE", roster |-> "MAIN"]
Operations == {"none", "join", "drop", "transfer", "role", "swap", "invite", "accept",
               "reject", "expire"}
NoRequest == [pc |-> "idle", op |-> "none", who |-> "nobody", other |-> "nobody",
              row |-> NoMember, new |-> NoMember, full |-> FALSE]
Anyone == Players \cup {"nobody"}
Rows == [role : SquadRole \cup {"NONE"}, roster : SquadRosterType]

TypeOK ==
    /\ leader \in Anyone /\ ownerAs \in {"LEADER", "MANAGER"}
    /\ member \in [Players -> Rows]
    /\ live \in BOOLEAN /\ captain \in Anyone
    /\ team \in [Players -> TeamMemberRole \cup {"NONE"}]
    /\ invitation \in [Players -> InvitationStatus \cup {"NONE"}]
    /\ waitlist \in {"NONE", "WAITLISTED", "CONFIRMED"}
    /\ req \in [Requests -> [pc : {"idle", "write", "sync", "syncWrite"}, op : Operations,
                             who : Anyone, other : Anyone, row : Rows, new : Rows,
                             full : BOOLEAN]]

Init ==
    /\ leader = "nobody" /\ ownerAs \in {"LEADER", "MANAGER"}
    /\ member = [p \in Players |-> NoMember]
    /\ live = TRUE /\ captain = "nobody" /\ waitlist = "NONE"
    /\ team = [p \in Players |-> "NONE"]
    /\ invitation = [p \in Players |-> "NONE"]
    /\ req = [r \in Requests |-> NoRequest]

In(p) == member[p].role # "NONE"
Manages(p) == member[p].role \in {"LEADER", "MANAGER"}
Manager(but) == \E p \in Players \ but : Manages(p)     \* somebody may ask for it
\* Managers do not occupy playing slots.
Playing(type, but) == {p \in Players \ but : member[p].role \in {"MEMBER", "LEADER"}
                                             /\ member[p].roster = type}
Count(type, but) == Cardinality(Playing(type, but))
Capacity(type) == IF type = "MAIN" THEN MaxMain ELSE MaxSubs
HasRoom(type, but) == Count(type, but) < Capacity(type)
Other(type) == IF type = "MAIN" THEN "SUBSTITUTE" ELSE "MAIN"

SlotOps == {"join", "transfer", "role", "swap"}
AnswerOps == {"drop", "accept", "reject", "expire"}
InFlight(ops) == \E r \in Requests : req[r].op \in ops /\ req[r].pc = "write"

Begin(r, op, who, other, row, new) ==
    /\ req[r].pc = "idle"
    /\ "rosterRace" \in Env \/ op \notin SlotOps \/ ~InFlight(SlotOps)
    /\ "answerRace" \in Env \/ op \notin AnswerOps
       \/ \A s \in Requests : req[s].op \in AnswerOps /\ req[s].who = who => req[s].pc # "write"
    /\ "leaveRace" \in Env \/ \A pair \in {{"drop", "transfer"}} :
           op \in pair => ~InFlight(pair \ {op})
    /\ "inviteRace" \in Env \/ (op # "invite" /\ ~InFlight({"invite"}))
       \/ \A s \in Requests : req[s].pc = "idle"
    /\ req' = [req EXCEPT ![r] = [pc |-> "write", op |-> op, who |-> who, other |-> other,
                                  row |-> row, new |-> new, full |-> FALSE]]
    /\ UNCHANGED <<roster, tournament>>

At(r, op) == req[r].pc = "write" /\ req[r].op = op
ThenSync(r) == req' = [req EXCEPT ![r] = [NoRequest EXCEPT !.pc = "sync"]]
Done(r) == req' = [req EXCEPT ![r] = NoRequest]

-----------------------------------------------------------------------------
(* The squad's team, whose rows TeamRosters has in full: who is created,     *)
(* joins, leaves or leads there, within its limits.                          *)

TeamMembers == {q \in Players : team[q] # "NONE"}
TeamMains == {q \in Players : team[q] \in {"PLAYER", "CAPTAIN"}}
OwnerRoleOf(owner) == IF owner = "MANAGER" THEN "MANAGER" ELSE "CAPTAIN"

\* A squad that a captain already leads gets the team, another one is created with its owner.
CreateTeam(p, owner) ==
    /\ captain = "nobody" /\ leader \in {"nobody", p}
    /\ leader = "nobody" => owner = ownerAs
    /\ captain' = p /\ team' = [team EXCEPT ![p] = OwnerRoleOf(owner)]
    /\ UNCHANGED <<roster, live, invitation, waitlist, req>>

TeamJoins(p, as) ==
    /\ captain # "nobody" /\ team[p] = "NONE"
    /\ IF as = "SUBSTITUTE" THEN \A q \in Players : team[q] # "SUBSTITUTE"
                            ELSE Cardinality(TeamMains) < MaxMain
    /\ team' = [team EXCEPT ![p] = as]
    /\ UNCHANGED <<roster, live, captain, invitation, waitlist, req>>

TeamLeaves(p) ==
    /\ p \in TeamMembers \ {captain}
    /\ team' = [team EXCEPT ![p] = "NONE"]
    /\ UNCHANGED <<roster, live, captain, invitation, waitlist, req>>

TeamTransfers(p) ==
    /\ captain # "nobody" /\ p # captain /\ team[p] = "PLAYER"
    /\ captain' = p
    /\ team' = [team EXCEPT ![p] = team[captain], ![captain] = "PLAYER"]
    /\ UNCHANGED <<roster, live, invitation, waitlist, req>>

\* The squad's row of a member of the team.
RowOf(q) ==
    [role   |-> CASE team[q] = "MANAGER"                 -> "MANAGER"
                  [] q = captain /\ team[q] # "MANAGER"  -> "LEADER"
                  [] OTHER                               -> "MEMBER",
     roster |-> IF team[q] = "SUBSTITUTE" THEN "SUBSTITUTE" ELSE "MAIN"]

\* syncTeamToSquad, which ends createTeam, addMemberToTeam and approveJoinRequest and which
\* getMySquad of a player without a squad begins with: every member of the team who is in no
\* squad gets a row, without a count and without a refresh of the waitlist row; away are in
\* another squad.  A squad is created with the captain as its leader, whose row is inserted
\* like the others.
Comes(new, type) == {q \in new : RowOf(q).role # "MANAGER" /\ RowOf(q).roster = type}
HasRoomFor(new) ==
    /\ \A type \in SquadRosterType :
          Count(type, {}) + Cardinality(Comes(new, type)) <= Capacity(type)
    /\ waitlist # "NONE" => Count("MAIN", {}) + Cardinality(Comes(new, "MAIN")) < MaxMain

SyncTeamToSquad ==
    /\ captain # "nobody"
    /\ \E away \in SUBSET {q \in TeamMembers : ~In(q)} :
        LET new == {q \in TeamMembers : ~In(q)} \ away
        IN  /\ "teamReturns" \in Env
               \/ /\ leader # "nobody" => captain \notin new
                  /\ ~InFlight(SlotOps \cup {"invite"}) /\ HasRoomFor(new)
            /\ "leaderAway" \in Env \/ (leader = "nobody" => captain \notin away)
            /\ member' = [q \in Players |-> IF q \in new THEN RowOf(q) ELSE member[q]]
    /\ leader' = IF leader = "nobody" THEN captain ELSE leader
    /\ UNCHANGED <<ownerAs, tournament, req>>

-----------------------------------------------------------------------------
(* createSquad and saveMyRegisteredSquad: one insert, whose unique indexes   *)
(* refuse a leader or a member that another squad has.                       *)

CreateSquad(p) ==
    /\ leader = "nobody" /\ captain \in {"nobody", p}
    /\ leader' = p
    /\ member' = [member EXCEPT ![p] = [role |-> ownerAs, roster |-> "MAIN"]]
    /\ UNCHANGED <<ownerAs, tournament, req>>

\* The roster of a registered team: MaxMain main players, none of whom is in a squad.
SaveSquad ==
    /\ leader = "nobody" /\ captain # "nobody" /\ Cardinality(TeamMains) = MaxMain
    /\ leader' = captain
    /\ member' = [q \in Players |-> IF q \in TeamMembers THEN RowOf(q) ELSE NoMember]
    /\ UNCHANGED <<ownerAs, tournament, req>>

(* joinSquad *)
JoinRead(r, p) ==
    /\ leader # "nobody" /\ ~In(p)
    /\ \E type \in SquadRosterType :
        /\ HasRoom(type, {}) /\ (type = "SUBSTITUTE" => ~HasRoom("MAIN", {}))
        /\ Begin(r, "join", p, "nobody", NoMember, [role |-> "MEMBER", roster |-> type])

JoinWrite(r) ==
    LET p == req[r].who
    IN  /\ At(r, "join") /\ ~In(p)
        /\ member' = [member EXCEPT ![p] = req[r].new]
        /\ ThenSync(r)
        /\ UNCHANGED <<leader, ownerAs, tournament>>

(* removeMember and leaveSquad: the row is deleted by id, and the pending    *)
(* invitation goes with it.                                                  *)

\* Mutant: an owner may be removed like everyone else.
RemovableAny(p) == In(p)

Removable(p) == member[p].role = "MEMBER"

LeaveRead(r, p) == Removable(p) /\ Begin(r, "drop", p, "nobody", NoMember, NoMember)

RemoveRead(r, p) ==
    /\ Manager({p}) /\ p # leader /\ Removable(p)
    /\ Begin(r, "drop", p, "nobody", NoMember, NoMember)

\* A request that holds the id of a deleted row finds nothing any more.
Forget(p) == [s \in Requests |-> IF req[s].op = "drop" /\ req[s].who = p
                                    /\ req[s].pc = "write"
                                 THEN NoRequest ELSE req[s]]
Rejected(p) == [invitation EXCEPT ![p] = IF @ = "PENDING" THEN "REJECTED" ELSE @]

DropWrite(r) ==
    LET p == req[r].who
    IN  /\ At(r, "drop") /\ In(p)
        /\ member' = [member EXCEPT ![p] = NoMember]
        /\ invitation' = Rejected(p)
        /\ req' = [Forget(p) EXCEPT ![r] = [NoRequest EXCEPT !.pc = "sync"]]
        /\ UNCHANGED <<leader, ownerAs, live, captain, team, waitlist>>

(* transferLeader: the squad and the target are read before the transaction. *)

TransferRead(r, p) ==
    /\ Manager({}) /\ p # leader /\ In(p)
    /\ Begin(r, "transfer", p, leader, member[p], NoMember)

\* The slots after the transfer, as <<of the new owner, of the old one>>; none when
\* the transaction throws.
TransferSlots(old, new, row) ==
    LET was == member[old].roster
    IN  IF ownerAs = "LEADER" /\ (row.role = "MANAGER" \/ row.roster = "SUBSTITUTE")
        THEN IF HasRoom("MAIN", {}) THEN {<<"MAIN", was>>}
             ELSE IF HasRoom("SUBSTITUTE", {}) THEN {<<"MAIN", "SUBSTITUTE">>} ELSE {}
        ELSE IF ownerAs = "MANAGER" /\ member[old].role = "MANAGER"
             THEN {<<member[new].roster, t>> : t \in
                    IF HasRoom(was, {new}) THEN {was}
                    ELSE {o \in {Other(was)} : HasRoom(o, {new})}}
             ELSE {<<member[new].roster, was>>}

TransferWrite(r) ==
    LET old == req[r].other
        new == req[r].who
    IN  /\ At(r, "transfer") /\ In(old) /\ In(new)
        /\ \E slots \in TransferSlots(old, new, req[r].row) :
            member' = [member EXCEPT ![old] = [role |-> "MEMBER", roster |-> slots[2]],
                                     ![new] = [role |-> ownerAs, roster |-> slots[1]]]
        /\ leader' = new
        /\ ThenSync(r)
        /\ UNCHANGED <<ownerAs, tournament>>

(* updateMemberRole: new is the row as the request wants it. *)

RoleRead(r, p, new) ==
    /\ Manager({}) /\ In(p) /\ new # member[p]
    /\ new.role # member[p].role =>
           member[p].role # "LEADER" /\ p # leader /\ new.role # "LEADER"
    /\ new.roster # member[p].roster =>
           member[p].role # "MANAGER" /\ (member[p].role = "LEADER" => new.roster = "MAIN")
    /\ Begin(r, "role", p, "nobody", member[p], new)

\* Mutant: a manager who becomes a player again is not counted.
RoleFitsByType(p, row, new) == new.role = "MANAGER" \/ new.roster = row.roster
                               \/ HasRoom(new.roster, {p})

RoleFits(p, row, new) ==
    \/ new.role = "MANAGER"
    \/ new.roster = row.roster /\ row.role # "MANAGER"
    \/ HasRoom(new.roster, {p})

RoleWrite(r) ==
    LET p == req[r].who
        row == req[r].row
        new == req[r].new
    IN  /\ At(r, "role") /\ In(p) /\ RoleFits(p, row, new)
        /\ member' = [member EXCEPT
               ![p] = [role   |-> IF new.role = row.role THEN @.role ELSE new.role,
                       roster |-> IF new.roster = row.roster THEN @.roster ELSE new.roster]]
        /\ ThenSync(r)
        /\ UNCHANGED <<leader, ownerAs, tournament>>

(* swapMembers *)
SwapRead(r, p, q) ==
    /\ Manager({}) /\ p # q
    /\ member[p] = [role |-> "MEMBER", roster |-> "MAIN"]
    /\ member[q].role \in {"MEMBER", "LEADER"} /\ member[q].roster = "SUBSTITUTE"
    /\ Begin(r, "swap", p, q, NoMember, NoMember)

SwapWrite(r) ==
    LET p == req[r].who
        q == req[r].other
    IN  /\ At(r, "swap") /\ In(p) /\ In(q)
        /\ member' = [member EXCEPT ![p].roster = "SUBSTITUTE", ![q].roster = "MAIN"]
        /\ ThenSync(r)
        /\ UNCHANGED <<leader, ownerAs, tournament>>

-----------------------------------------------------------------------------
(* syncLiveWaitlistStatus: a count, then an update of the row of a tournament *)
(* that is still LIVE.                                                        *)

\* Mutant: managers are counted as players.
MainIsFullWithManagers ==
    Cardinality({p \in Players : In(p) /\ member[p].roster = "MAIN"}) >= MaxMain

MainIsFull == Count("MAIN", {}) >= MaxMain

SyncRead(r) ==
    /\ req[r].pc = "sync"
    /\ "syncRace" \in Env \/ \A s \in Requests : req[s].pc # "syncWrite"
    /\ req' = [req EXCEPT ![r].pc = "syncWrite", ![r].full = MainIsFull]
    /\ UNCHANGED <<roster, tournament>>

Status(full) == IF full THEN "CONFIRMED" ELSE "WAITLISTED"

SyncWrite(r) ==
    /\ req[r].pc = "syncWrite"
    /\ waitlist' = IF live /\ waitlist # "NONE" THEN Status(req[r].full) ELSE waitlist
    /\ Done(r)
    /\ UNCHANGED <<roster, live, captain, team, invitation>>

-----------------------------------------------------------------------------
(* inviteSquadToTournament: a full main roster, nobody of whom plays in the  *)
(* tournament already; the team, the waitlist row and the invitations are    *)
(* created unless they exist.                                                *)

Invitees == Playing("MAIN", IF ownerAs = "MANAGER" THEN {} ELSE {leader})

InviteRead(r) ==
    /\ Manager({}) /\ live
    /\ Count("MAIN", {}) = MaxMain
    /\ Cardinality(Invitees) = (IF ownerAs = "MANAGER" THEN MaxMain ELSE MaxMain - 1)
    /\ Invitees \cap TeamMembers = {}
    /\ Begin(r, "invite", leader, "nobody", NoMember, NoMember)

\* createMany ... skipDuplicates: an answered invitation stays answered.
InviteWrite(r) ==
    /\ At(r, "invite")
    /\ IF captain = "nobody"
       THEN captain' = req[r].who /\ team' = [team EXCEPT ![req[r].who] = OwnerRoleOf(ownerAs)]
       ELSE UNCHANGED <<captain, team>>
    /\ waitlist' = "CONFIRMED"
    /\ invitation' = [p \in Players |-> IF p \in Invitees /\ invitation[p] = "NONE"
                                        THEN "PENDING" ELSE invitation[p]]
    /\ Done(r)
    /\ UNCHANGED <<roster, live>>

(* respondToInvitation *)
AnswerRead(r, p, op) ==
    /\ invitation[p] = "PENDING"
    /\ op = "reject" /\ p = leader => "ownerRejects" \in Env
    /\ \/ live /\ Begin(r, op, p, "nobody", NoMember, NoMember)
       \/ ~live /\ Begin(r, "expire", p, "nobody", NoMember, NoMember)

Answer(p, answer) == invitation' = [invitation EXCEPT ![p] = answer]

\* One serializable transaction; the invitation itself is not read again.  What else it does
\* to the team is AcceptInvitation of TeamRosters.
AcceptWrite(r) ==
    LET p == req[r].who
    IN  /\ At(r, "accept")
        /\ \/ ~In(p) /\ Answer(p, "REJECTED") /\ UNCHANGED team
           \/ In(p) /\ p \notin TeamMembers /\ Answer(p, "ACCEPTED")
              /\ team' = [team EXCEPT ![p] = "PLAYER"]
        /\ Done(r)
        /\ UNCHANGED <<roster, live, captain, waitlist>>

\* A rejection also takes the player out of the squad, whatever his role is.
RejectWrite(r) ==
    LET p == req[r].who
    IN  /\ At(r, "reject")
        /\ p = leader => "ownerRejects" \in Env
        /\ member' = [member EXCEPT ![p] = NoMember]
        /\ invitation' = Rejected(p)
        /\ req' = [Forget(p) EXCEPT ![r] = [NoRequest EXCEPT !.pc = "sync"]]
        /\ UNCHANGED <<leader, ownerAs, live, captain, team, waitlist>>

\* Mutant: every answer that was on its way is overwritten too.
ExpireAll == [p \in Players |-> IF invitation[p] = "NONE" THEN "NONE" ELSE "EXPIRED"]

ExpirePending == [p \in Players |-> IF invitation[p] = "PENDING" THEN "EXPIRED"
                                    ELSE invitation[p]]

ExpireWrite(r) ==
    /\ At(r, "expire")
    /\ Answer(req[r].who, "EXPIRED")
    /\ Done(r)
    /\ UNCHANGED <<roster, live, captain, team, waitlist>>

\* The scheduler, and expireTournamentInvitations.
Expire ==
    /\ ~live
    /\ "answerRace" \in Env \/ ~InFlight({"accept", "reject", "expire"})
    /\ invitation' = ExpirePending
    /\ UNCHANGED <<roster, live, captain, team, waitlist, req>>

TournamentEnds == live /\ live' = FALSE /\ UNCHANGED <<roster, captain, team, invitation, waitlist, req>>

\* The transaction throws: a row is missing, no slot is left, or an index refuses.
CanWrite(r) ==
    LET p == req[r].who
    IN  CASE req[r].op = "join"     -> ~In(p)
          [] req[r].op = "drop"     -> In(p)
          [] req[r].op = "transfer" -> /\ In(req[r].other) /\ In(p)
                                       /\ TransferSlots(req[r].other, p, req[r].row) # {}
          [] req[r].op = "role"     -> In(p) /\ RoleFits(p, req[r].row, req[r].new)
          [] req[r].op = "swap"     -> In(p) /\ In(req[r].other)
          [] req[r].op = "accept"   -> In(p) => p \notin TeamMembers
          [] OTHER                  -> TRUE

Throw(r) ==
    /\ req[r].pc = "write" /\ ~CanWrite(r)
    /\ Done(r)
    /\ UNCHANGED <<roster, tournament>>

-----------------------------------------------------------------------------
Start(r, p) ==
    \/ JoinRead(r, p) \/ LeaveRead(r, p) \/ RemoveRead(r, p) \/ TransferRead(r, p)
    \/ \E new \in [role : SquadRole, roster : SquadRosterType] : RoleRead(r, p, new)
    \/ \E q \in Players : SwapRead(r, p, q)
    \/ \E op \in {"accept", "reject"} : AnswerRead(r, p, op)

Write(r) ==
    \/ JoinWrite(r) \/ DropWrite(r) \/ TransferWrite(r) \/ RoleWrite(r) \/ SwapWrite(r)
    \/ InviteWrite(r) \/ AcceptWrite(r) \/ RejectWrite(r) \/ ExpireWrite(r)

Continue(r) == Write(r) \/ Throw(r) \/ SyncRead(r) \/ SyncWrite(r)

Create == SaveSquad \/ \E p \in Players : CreateSquad(p)

TeamChanges ==
    \E p \in Players :
        \/ \E owner \in {"LEADER", "MANAGER"} : CreateTeam(p, owner)
        \/ \E as \in {"PLAYER", "SUBSTITUTE"} : TeamJoins(p, as)
        \/ TeamLeaves(p) \/ TeamTransfers(p)

Operate(r) ==
    IF req[r].pc = "idle" THEN InviteRead(r) \/ \E p \in Players : Start(r, p) ELSE Continue(r)

SquadSteps ==
    \/ Create \/ SyncTeamToSquad
    \/ \E r \in Requests : Operate(r)
    \/ Expire
    \/ TournamentEnds

Next == TeamChanges \/ SquadSteps

Spec == Init /\ [][Next]_vars

-----------------------------------------------------------------------------
(* Properties *)

\* "Main roster capacity is four and substitute capacity is two": the counts are taken
\* inside some transactions and before others, while members leave beside them.
RosterWithinLimits == \A type \in SquadRosterType : Count(type, {}) <= Capacity(type)

\* The squad's owner is a member with the owner's role and nobody else is its LEADER,
\* however transfers, removals, role changes and answers are ordered.
OwnerLeads ==
    leader # "nobody" =>
        /\ member[leader].role = ownerAs
        /\ \A p \in Players : member[p].role = "LEADER" => p = leader

\* Once no request is on its way, the waitlist row of a LIVE tournament says whether
\* the main roster is full: each change of the roster is followed by its own refresh.
WaitlistAgrees ==
    (live /\ waitlist # "NONE" /\ \A r \in Requests : req[r].pc = "idle") =>
        waitlist = Status(~HasRoom("MAIN", {}))

\* An answered or expired invitation is never answered again.
AnswersAreFinal ==
    [][\A p \in Players : invitation[p] \in {"ACCEPTED", "REJECTED", "EXPIRED"}
                          => invitation'[p] = invitation[p]]_vars
=============================================================================
