----------------------------- MODULE MCServices -----------------------------
(***************************************************************************)
(* Four services none of which reads what another writes: recordings,      *)
(* which this module extends, challenges and XP, device tokens and         *)
(* notices, and the access to a room, explored one at a time: active is    *)
(* the service whose requests run, the others rest in an initial state.    *)
(***************************************************************************)
EXTENDS Recordings, TLC

CONSTANTS
    Gamers, Users,   \* who takes challenges; users with a phone
    Things,          \* challenges, phones
    Calls,           \* requests about a challenge or a phone
    Rewards, MaxXp,  \* values of a reward, bound on a player's XP
    Parts            \* the services that run

VARIABLES
    active,
    challenge, progress, xp, rank, credits, granted, chReq,
    row, fcm, holder, dead, notice, reached, noReq,
    registration, memberRole, owner, unit, assigned, inGroup, out, room, told

chVars == <<challenge, progress, xp, rank, credits, granted, chReq>>
noVars == <<row, fcm, holder, dead, notice, reached, noReq>>
acVars == <<registration, memberRole, owner, unit, assigned, inGroup, out, room, told>>
allVars == <<active, vars, chVars, noVars, acVars>>

Ch == INSTANCE Challenges WITH Users <- Gamers, Items <- Things, Requests <- Calls, req <- chReq
No == INSTANCE Notifications WITH Tokens <- Things, Requests <- Calls, req <- noReq
Ac == INSTANCE MatchAccess

\* The services that rest start from one state each.
OneReward == CHOOSE reward \in Rewards : TRUE
Rest ==
    /\ active # "challenges" =>
           challenge = [i \in Things |-> [state |-> "new", reward |-> OneReward]]
    /\ active # "access" => memberRole = "PLAYER" /\ owner = "LEADER"

InitAll ==
    /\ active \in Parts
    /\ Init /\ Ch!Init /\ No!Init /\ Ac!Init
    /\ Rest

Recording == active = "recordings" /\ Next /\ UNCHANGED <<active, chVars, noVars, acVars>>
Challenge == active = "challenges" /\ Ch!Next /\ UNCHANGED <<active, vars, noVars, acVars>>
Notice == active = "notices" /\ No!Next /\ UNCHANGED <<active, vars, chVars, acVars>>
Access == active = "access" /\ Ac!Next /\ UNCHANGED <<active, vars, chVars, noVars>>

NextAll == Recording \/ Challenge \/ Notice \/ Access

SpecAll == InitAll /\ [][NextAll]_allVars

Symmetry == UNION {Permutations(S) : S \in {Users, Things, Calls}}

-----------------------------------------------------------------------------
\* However late a rank is written beside credits that do not overlap a claim, nobody is
\* shown one that their XP does not reach.
RankNeverAhead == Ch!RankNeverAhead

\* A player has the XP he has earned: all of it, from proofs he has submitted, and from no
\* claim twice.
RewardsAreEarned == Ch!RewardsAreEarned

\* When the app has had its answers, the row of a working phone names who is logged in
\* on it, so that a user is reached on every phone they use and on no other; nor does
\* the old field point to a phone the user left, where somebody else would read.
TokensFollowPhones == No!TokensFollowPhones

\* The status a notice ends with tells whether it arrived anywhere, whichever of the
\* tokens were dead and whatever threw on the way.
StatusIsTrue == No!StatusIsTrue

\* The match centre says PUBLISHED of exactly those of its matches whose credentials the
\* room endpoint gives: two pieces of code, written twice, decide the same.  The other
\* two differ in which match they pick, but give no room the match centre does not show.
EndpointsAgree == Ac!EndpointsAgree

\* Who plays a round that is open sees its room once it is released.
OpenRoomIsReached == Ac!OpenRoomIsReached

\* A notice that a room is open goes to the members who can open it, and, while the match
\* is on, to all of them; only a room published for later is announced before it opens.
NoticeFindsTheRoom == Ac!NoticeFindsTheRoom
=============================================================================
