------------------------------ MODULE MCTeams -------------------------------
(***************************************************************************)
(* The roster of a tournament's team, which this module extends, and the   *)
(* persistent squad with its invitations, explored one at a time: active   *)
(* is the part whose requests run, the other rests in an initial state.    *)
(* The rows they share are the team's.  What a squad does to them (an      *)
(* invitation is accepted) TeamRosters has as AcceptInvitation; what the   *)
(* team's requests do to them Squads has as TeamChanges, and what they     *)
(* then do to the squad as SyncTeamToSquad.                                *)
(***************************************************************************)
EXTENDS TeamRosters, TLC

CONSTANTS
    MaxSubs,         \* maxSubstitutes
    Parts            \* the parts that run

ASSUME SubsAssumption == MaxSubs \in Nat \ {0}

VARIABLES
    active,
    leader, squadOwnerAs, member, live, squadCaptain, team, invitation, waitlist, sqReq

sqVars == <<leader, squadOwnerAs, member, live, squadCaptain, team, invitation, waitlist, sqReq>>
allVars == <<active, vars, sqVars>>

Sq == INSTANCE Squads WITH captain <- squadCaptain, ownerAs <- squadOwnerAs, req <- sqReq

\* The squad that rests is a leader's.
Rest == active # "squads" => squadOwnerAs = "LEADER"

InitAll ==
    /\ active \in Parts
    /\ Init /\ Sq!Init
    /\ Rest

\* Bound: no join request waits in a registered team, where it can only be rejected.
NoneWaits == Registered' => \A p \in Players : join'[p] = "NONE"

Roster == active = "rosters" /\ Next /\ NoneWaits /\ UNCHANGED <<active, sqVars>>

\* Bound: the team's own requests run between those of the squad, and until the squad is
\* invited to the tournament; then invitations fill the team.
TeamMayChange == waitlist = "NONE" /\ \A r \in Requests : sqReq[r].pc = "idle"

\* Bound: a squad is invited with the team that the invitation creates, or with one like it.
InvitesNewTeam ==
    waitlist = "NONE" /\ waitlist' # "NONE" =>
        team' = [q \in Players |-> IF q = squadCaptain' THEN Sq!OwnerRoleOf(squadOwnerAs) ELSE "NONE"]

Squad ==
    /\ active = "squads"
    /\ (TeamMayChange /\ Sq!TeamChanges) \/ Sq!SquadSteps
    /\ InvitesNewTeam
    /\ UNCHANGED <<active, vars>>

NextAll == Roster \/ Squad

SpecAll == InitAll /\ [][NextAll]_allVars

Symmetry == UNION {Permutations(S) : S \in {Players, Requests}}

-----------------------------------------------------------------------------
\* "Main roster capacity is four and substitute capacity is two": the counts are taken
\* inside some transactions and before others, while members leave beside them.
RosterWithinLimits == Sq!RosterWithinLimits

\* The squad's owner is a member with the owner's role and nobody else is its LEADER,
\* however transfers, removals, role changes and answers are ordered.
OwnerLeads == Sq!OwnerLeads

\* Once no request is on its way, the waitlist row of a LIVE tournament says whether
\* the main roster is full: each change of the roster is followed by its own refresh.
WaitlistAgrees == Sq!WaitlistAgrees

\* An answered or expired invitation is never answered again.
AnswersAreFinal == Sq!AnswersAreFinal
=============================================================================
