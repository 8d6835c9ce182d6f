---------------------------- MODULE MatchAccess ----------------------------
(***************************************************************************)
(* Who sees which room: match-access.service.ts and the endpoints that use *)
(* it, seen by one member of one team.                                     *)
(*                                                                         *)
(* The endpoints only read, so they are operators on the state; what the   *)
(* admins, the registrations and the bracket write are the actions.  A     *)
(* tournament is played either in matches of the matches table ("m") or in *)
(* the groups of rounds 1 and 3 of a bracket; no code links the two.       *)
(***************************************************************************)
EXTENDS Integers

CONSTANT Env

EnvBehaviours == {
    "wildCard",      \* a team eliminated in Round 1 plays Round 3 through the wild card
    "mixed" }        \* a tournament has matches of both kinds

VARIABLES
    registration,    \* the team's registration
    memberRole, owner, \* the member's role and the owner's: LEADER or MANAGER
    unit,            \* status of the matches row and of the two rounds
    assigned,        \* teams with a matchResult row of "m"
    inGroup,         \* rounds in which the team has a tournamentGroupTeam row
    out,             \* rounds with a roundQualification ELIMINATED of the team
    room,            \* credentials of each level: NONE, HIDDEN (no release time),
                     \* LATER (a release time to come), RELEASED
    told             \* levels a room.released event was emitted for

vars == <<registration, memberRole, owner, unit, assigned, inGroup, out, room, told>>
player == <<registration, memberRole, owner>>
play == <<unit, assigned, inGroup, out>>

Units == {"m", "g1", "g3"}
Rounds == {"g1", "g3"}
Levels == Units \cup {"t"}
Us == "us"
RegistrationStatus == {"NONE", "PENDING", "CONFIRMED", "WAITLIST", "DISQUALIFIED", "CANCELLED"}

TypeOK ==
    /\ registration \in RegistrationStatus
    /\ memberRole \in {"CAPTAIN", "PLAYER", "SUBSTITUTE", "MANAGER"} /\ owner \in {"LEADER", "MANAGER"}
    /\ unit \in [Units -> {"NONE", "SCHEDULED", "LIVE", "COMPLETED"}]
    /\ assigned \subseteq {Us, "other"} /\ inGroup \subseteq Rounds /\ out \subseteq Rounds
    /\ room \in [Levels -> {"NONE", "HIDDEN", "LATER", "RELEASED"}] /\ told \subseteq Levels

Init ==
    /\ registration = "NONE" /\ memberRole \in {"CAPTAIN", "PLAYER", "SUBSTITUTE"}
    /\ owner \in {"LEADER", "MANAGER"}
    /\ unit = [u \in Units |-> "NONE"] /\ assigned = {} /\ inGroup = {} /\ out = {}
    /\ room = [l \in Levels |-> "NONE"] /\ told = {}

-----------------------------------------------------------------------------
(* getMyAccess, listMatchUnits, teamParticipatesInMatchUnit and              *)
(* resolveCredentials                                                        *)

RoundNumber(u) == CASE u = "g1" -> 1 [] u = "g3" -> 3 [] OTHER -> 0

\* filterPlayingMemberIds
Playing == memberRole = "PLAYER" \/ (memberRole = "CAPTAIN" /\ owner = "LEADER")

Registered == registration = "CONFIRMED"

\* getMyAccess takes the last of the team's ELIMINATED rows.
EliminatedIn == IF "g3" \in out THEN 3 ELSE IF "g1" \in out THEN 1 ELSE 0

\* Matches come first, then the groups in the order of their rounds.
MatchUnits == {u \in Units : unit[u] # "NONE"}
FirstOf(units) == CHOOSE u \in units : \A v \in units : RoundNumber(u) <= RoundNumber(v)
LastOf(units) == CHOOSE u \in units : \A v \in units : RoundNumber(v) <= RoundNumber(u)

\* A match without results is a single lobby that everybody plays in.
Participates(u) ==
    CASE u = "m" -> assigned = {} \/ Us \in assigned
      [] u \in Rounds -> u \in inGroup
      [] OTHER -> TRUE                                     \* the virtual unit t_<id>

\* The first level that has credentials decides, released or not.
Level(u) == IF room[u] # "NONE" THEN u ELSE IF room["t"] # "NONE" THEN "t" ELSE "none"
IsReleased(u) == Level(u) # "none" /\ room[Level(u)] = "RELEASED"

\* Mutant: the round in which the team was eliminated is closed to it as well.
PastEliminationFrom(u) == EliminatedIn # 0 /\ RoundNumber(u) >= EliminatedIn

PastElimination(u) ==
    EliminatedIn # 0 /\ RoundNumber(u) # 0 /\ RoundNumber(u) > EliminatedIn

\* What assertCanSeeCredentials answers to a key.
Credentials(u) ==
    IF u # "t" /\ unit[u] = "NONE" THEN "MATCH_NOT_FOUND"
    ELSE IF ~Registered THEN "NOT_REGISTERED"
    ELSE IF ~Playing THEN "NOT_PLAYING_MEMBER"
    ELSE IF ~Participates(u) THEN IF out # {} THEN "ELIMINATED" ELSE "NOT_IN_THIS_MATCH"
    ELSE IF PastElimination(u) THEN "ELIMINATED"
    ELSE IF IsReleased(u) THEN "ROOM" ELSE "ROOM_NOT_AVAILABLE"

-----------------------------------------------------------------------------
(* The endpoints                                                             *)

\* What getMatchCenter shows of a unit; getMatchDetail repeats the same code.
RoomState(u) ==
    IF ~Playing \/ ~Participates(u)
       \/ (EliminatedIn # 0 /\ RoundNumber(u) # 0 /\ RoundNumber(u) > EliminatedIn)
    THEN "NOT_ELIGIBLE"
    ELSE IF IsReleased(u) THEN "PUBLISHED" ELSE "HIDDEN"

\* A tournament without units shows one virtual match.
MatchCenter ==
    IF ~Registered THEN {}
    ELSE IF MatchUnits # {} THEN {<<u, RoomState(u)>> : u \in MatchUnits}
    ELSE {<<"t", IF ~Playing \/ out # {} THEN "NOT_ELIGIBLE"
                 ELSE IF IsReleased("t") THEN "PUBLISHED" ELSE "HIDDEN">>}

Mine == {u \in MatchUnits : Participates(u)}
Open(units) == {u \in units : unit[u] \in {"SCHEDULED", "LIVE"}}

\* Mutant: the first of the team's matches, whether it is over or not.
ActiveFirst(units) == FirstOf(units)

\* The first match that is not over, or the last one.
Active(units) == IF Open(units) # {} THEN FirstOf(Open(units)) ELSE LastOf(units)

\* getRoomCredentials of the tournaments service: GET /tournaments/:id/room
TournamentRoom ==
    IF ~Registered THEN <<"none", "NOT_REGISTERED">>
    ELSE IF ~Playing THEN <<"none", "NOT_PLAYING_MEMBER">>
    ELSE IF out # {} THEN <<"none", "ELIMINATED">>
    ELSE IF Mine # {} THEN <<Active(Mine), Credentials(Active(Mine))>>
    ELSE IF MatchUnits # {} THEN <<"none", "NOT_IN_THIS_MATCH">>
    ELSE <<"t", IF room["t"] = "RELEASED" THEN "ROOM" ELSE "ROOM_NOT_AVAILABLE">>

\* getPlayerMatchCredentials of the bracket service: the team's latest open round, and
\* then its matches.
PlayerRoom ==
    LET latest == LastOf(Open(inGroup))
    IN  IF ~Registered THEN <<"none", "NOT_REGISTERED">>
        ELSE IF ~Playing THEN <<"none", "NOT_PLAYING_MEMBER">>
        ELSE IF Open(inGroup) # {} THEN <<latest, Credentials(latest)>>
        ELSE IF Mine # {} THEN <<Active(Mine), Credentials(Active(Mine))>>
        ELSE <<"none", IF out # {} THEN "ELIMINATED" ELSE "NOT_IN_THIS_MATCH">>

\* Mutant: the results of a match do not say who plays it.
NotifiedByGroup(l) == Registered /\ Playing /\ out = {} /\ (l \in Rounds => l \in inGroup)

\* handleRoomReleased of the notifications service decides once more who takes part.
Notified(l) ==
    /\ Registered /\ Playing /\ out = {}
    /\ l = "m" => assigned = {} \/ Us \in assigned
    /\ l \in Rounds => l \in inGroup

-----------------------------------------------------------------------------
(* The registration, the roster and the bracket, as far as they are read     *)

\* Register, confirm, cancel and disqualify (SlotAllocation); updateTeamStatus sets
\* CONFIRMED back.
SetRegistration(s) ==
    /\ s # registration /\ s # "NONE" /\ registration' = s
    /\ UNCHANGED <<memberRole, owner, play, room, told>>

\* Role changes and transfers (TeamRosters).
SetRole(new, ownedBy) ==
    /\ <<memberRole, owner>> # <<new, ownedBy>>
    /\ memberRole' = new /\ owner' = ownedBy
    /\ UNCHANGED <<registration, play, room, told>>

\* Round 1 is generated with the confirmed teams (BracketStages).
GenerateRound1 ==
    /\ unit["g1"] = "NONE" /\ ("mixed" \in Env \/ unit["m"] = "NONE")
    /\ unit' = [unit EXCEPT !["g1"] = "LIVE"]
    /\ inGroup' = IF Registered THEN {"g1"} ELSE {}
    /\ UNCHANGED <<player, assigned, out, room, told>>

\* A round ends and the team is eliminated, or it is not.
EndRound(g, eliminated) ==
    /\ unit[g] = "LIVE" /\ unit' = [unit EXCEPT ![g] = "COMPLETED"]
    /\ out' = IF eliminated /\ g \in inGroup THEN out \cup {g} ELSE out
    /\ UNCHANGED <<player, assigned, inGroup, room, told>>

\* Round 3 has who came through and the wild cards.
GenerateRound3(playing) ==
    /\ unit["g1"] = "COMPLETED" /\ unit["g3"] = "NONE"
    /\ playing => "g1" \in inGroup /\ ("wildCard" \in Env \/ out = {})
    /\ unit' = [unit EXCEPT !["g3"] = "LIVE"]
    /\ inGroup' = IF playing THEN inGroup \cup {"g3"} ELSE inGroup
    /\ UNCHANGED <<player, assigned, out, room, told>>

-----------------------------------------------------------------------------
(* The admin requests of the matches service                                 *)

CreateGroupMatch ==
    /\ unit["m"] = "NONE" /\ ("mixed" \in Env \/ unit["g1"] = "NONE")
    /\ unit' = [unit EXCEPT !["m"] = "SCHEDULED"]
    /\ UNCHANGED <<player, assigned, inGroup, out, room, told>>

\* assignTeamsToGroup and the results both create a row for whoever is registered and has
\* none, whatever the registration has become.
RowsWith(teams) == assigned \cup IF registration = "NONE" THEN teams \ {Us} ELSE teams

AssignTeams(teams) ==
    /\ unit["m"] # "NONE" /\ assigned' = RowsWith(teams)
    /\ UNCHANGED <<player, unit, inGroup, out, room, told>>

\* recordGroupResults
RecordResults(scored) ==
    /\ unit["m"] # "NONE"
    /\ unit' = [unit EXCEPT !["m"] = "COMPLETED"]
    /\ assigned' = RowsWith(scored)
    /\ UNCHANGED <<player, inGroup, out, room, told>>

\* setGroupRoomCredentials emits for a room published for later as well;
\* updateGroupRoomCredentials and the room of the tournament do not.
Tell(l, new) ==
    IF new = "RELEASED" \/ (l = "m" /\ new = "LATER") THEN told \cup {l} ELSE told

\* setGroupRoomCredentials ("m"), updateGroupRoomCredentials (a group: never without a
\* release time) and the room of the tournament ("t").
SetRoom(l, new) ==
    /\ l \in Units => unit[l] # "NONE"
    /\ l \in Rounds => new # "HIDDEN"
    /\ room' = [room EXCEPT ![l] = new] /\ told' = Tell(l, new)
    /\ UNCHANGED <<player, play>>

\* A release time passes; the scheduler sets one for a hidden room of a match that is not
\* over and of the tournament, and emits.
ReleaseTime(l) ==
    /\ room[l] = "LATER" \/ (room[l] = "HIDDEN" /\ (l = "m" => unit["m"] # "COMPLETED"))
    /\ room' = [room EXCEPT ![l] = "RELEASED"]
    /\ told' = IF room[l] = "HIDDEN" THEN told \cup {l} ELSE told
    /\ UNCHANGED <<player, play>>

-----------------------------------------------------------------------------
Next ==
    \/ \E s \in RegistrationStatus : SetRegistration(s)
    \/ \E new \in {"CAPTAIN", "PLAYER", "SUBSTITUTE"}, ownedBy \in {"LEADER", "MANAGER"} :
           SetRole(new, ownedBy)
    \/ GenerateRound1 \/ CreateGroupMatch
    \/ \E b \in BOOLEAN : GenerateRound3(b) \/ \E g \in Rounds : EndRound(g, b)
    \/ \E teams \in SUBSET {Us, "other"} : AssignTeams(teams) \/ RecordResults(teams)
    \/ \E l \in Levels :
        \/ ReleaseTime(l)
        \/ \E new \in {"HIDDEN", "LATER", "RELEASED"} : SetRoom(l, new)

Spec == Init /\ [][Next]_vars

-----------------------------------------------------------------------------
(* Properties *)

\* The match centre says PUBLISHED of exactly those of its matches whose credentials the
\* room endpoint gives: two pieces of code, written twice, decide the same.  The other
\* two differ in which match they pick, but give no room the match centre does not show.
EndpointsAgree ==
    /\ \A x \in MatchCenter : x[2] = "PUBLISHED" <=> Credentials(x[1]) = "ROOM"
    /\ \A answer \in {TournamentRoom, PlayerRoom} :
           answer[2] = "ROOM" => <<answer[1], "PUBLISHED">> \in MatchCenter

\* Who plays a round that is open sees its room once it is released.
OpenRoomIsReached ==
    \A g \in inGroup :
        ( /\ Registered /\ Playing /\ unit[g] = "LIVE" /\ IsReleased(g)
          /\ \A h \in inGroup : unit[h] = "LIVE" => h = g )
        => PlayerRoom = <<g, "ROOM">> /\ TournamentRoom = <<g, "ROOM">>

\* A notice that a room is open goes to the members who can open it, and, while the match
\* is on, to all of them; only a room published for later is announced before it opens.
NoticeFindsTheRoom ==
    [][\A l \in told' \ told :
        /\ (Notified(l) /\ room[l] = "RELEASED" => Credentials(l) = "ROOM")'
        /\ (l \in Units /\ unit[l] # "COMPLETED" /\ Credentials(l) = "ROOM" => Notified(l))']_vars
=============================================================================
