-------------------------- MODULE MCServices_proofs --------------------------
(***************************************************************************)
(* Proofs about challenges, notifications and the access to a room, for    *)
(* any number of players, challenges, phones and requests.  Each service   *)
(* is the instance that MCServices composes; what is proved of its own     *)
(* specification holds of the composition as well, since a service that    *)
(* rests stutters.                                                         *)
(***************************************************************************)
EXTENDS MCServices, TLAPS

\* On the variables of each service, a behaviour of the composition is one of that service's
\* own specification: what is proved of the parts holds of the whole that the run explores.
THEOREM EachServiceRuns == SpecAll => Spec /\ Ch!Spec /\ No!Spec /\ Ac!Spec
  <1>1. InitAll => Init /\ Ch!Init /\ No!Init /\ Ac!Init
    BY DEF InitAll
  <1>2. [NextAll]_allVars => [Next]_vars
    BY DEF NextAll, allVars, Recording, Challenge, Notice, Access
  <1>3. [NextAll]_allVars => [Ch!Next]_(Ch!vars)
    BY DEF NextAll, allVars, chVars, Ch!vars, Recording, Challenge, Notice, Access
  <1>4. [NextAll]_allVars => [No!Next]_(No!vars)
    BY DEF NextAll, allVars, noVars, No!vars, Recording, Challenge, Notice, Access
  <1>5. [NextAll]_allVars => [Ac!Next]_(Ac!vars)
    BY DEF NextAll, allVars, acVars, Ac!vars, Ac!play, Ac!player, Recording, Challenge, Notice,
       Access
  <1> QED
    BY <1>1, <1>2, <1>3, <1>4, <1>5, PTL DEF SpecAll, Spec, Ch!Spec, No!Spec, Ac!Spec

-----------------------------------------------------------------------------
(* Challenges and XP                                                         *)

ChallengeKeys == Gamers \X Things
Row == [exists : BOOLEAN, status : Ch!ChallengeStatus, isCompleted : BOOLEAN, isClaimed : BOOLEAN]

\* A request that is under way is about a player and, unless it writes a rank, a challenge.
Attributed ==
    \A r \in Calls : chReq[r].pc # "idle" =>
        /\ chReq[r].user \in Gamers
        /\ chReq[r].pc # "rankWrite" => chReq[r].item \in Things
        /\ chReq[r].pc \in {"claimCheck", "claimWrite", "approveWrite"} => chReq[r].reward \in Rewards

ChallengeTypeInv == Ch!TypeOK /\ Attributed

-----------------------------------------------------------------------------
(* Ranks                                                                     *)

LEMMA RankMinima ==
    /\ Ch!MinXP[1] = 0 /\ Ch!MinXP[2] = 500 /\ Ch!MinXP[3] = 1500 /\ Ch!MinXP[4] = 3000 /\ Ch!MinXP[5] = 5500
    /\ Ch!MinXP[6] = 9000 /\ Ch!MinXP[7] = 14000 /\ Ch!MinXP[8] = 20000 /\ Ch!MinXP[9] = 28000
    /\ Ch!MinXP[10] = 38000 /\ Ch!MinXP[11] = 50000 /\ Ch!MinXP[12] = 65000 /\ Ch!MinXP[13] = 85000
    /\ Ch!MinXP[14] = 110000
  BY DEF Ch!MinXP

\* Every XP has a rank, whose minimum it reaches.
LEMMA RankReached ==
    ASSUME NEW x \in Nat
    PROVE  Ch!CalculateRank(x) \in Ch!RankNumbers /\ Ch!MinXP[Ch!CalculateRank(x)] <= x
  <1>1. \E n \in Ch!RankNumbers : Ch!IsRankOf(n, x)
    <2>1. CASE x >= 110000
      BY <2>1, RankMinima DEF Ch!IsRankOf, Ch!RankNumbers
    <2>2. CASE 28000 <= x /\ x < 110000
      <3>1. Ch!IsRankOf(9, x) \/ Ch!IsRankOf(10, x) \/ Ch!IsRankOf(11, x) \/ Ch!IsRankOf(12, x)
            \/ Ch!IsRankOf(13, x)
        BY <2>2, RankMinima DEF Ch!IsRankOf, Ch!RankNumbers
      <3> QED BY <3>1 DEF Ch!RankNumbers
    <2>3. CASE 5500 <= x /\ x < 28000
      <3>1. Ch!IsRankOf(5, x) \/ Ch!IsRankOf(6, x) \/ Ch!IsRankOf(7, x) \/ Ch!IsRankOf(8, x)
        BY <2>3, RankMinima DEF Ch!IsRankOf, Ch!RankNumbers
      <3> QED BY <3>1 DEF Ch!RankNumbers
    <2>4. CASE x < 5500
      <3>1. Ch!IsRankOf(1, x) \/ Ch!IsRankOf(2, x) \/ Ch!IsRankOf(3, x) \/ Ch!IsRankOf(4, x)
        BY <2>4, RankMinima DEF Ch!IsRankOf, Ch!RankNumbers
      <3> QED BY <3>1 DEF Ch!RankNumbers
    <2> QED BY <2>1, <2>2, <2>3, <2>4
  <1>2. Ch!CalculateRank(x) \in Ch!RankNumbers /\ Ch!IsRankOf(Ch!CalculateRank(x), x)
    BY <1>1 DEF Ch!CalculateRank
  <1> QED BY <1>2 DEF Ch!IsRankOf

-----------------------------------------------------------------------------
(* Types                                                                     *)

LEMMA InitType == Rewards \subseteq Nat /\ Ch!Init => ChallengeTypeInv
  BY DEF Ch!Init, ChallengeTypeInv, Ch!TypeOK, Attributed, Ch!NoRow, Ch!NoRequest,
     Ch!ChallengeStatus, Ch!Pcs, Ch!RankNumbers,
         Ch!Kinds

\* What a request that reads leaves behind.
LEMMA BeginType ==
    ASSUME ChallengeTypeInv, Rewards \subseteq Nat, NEW r \in Calls, NEW u \in Gamers, NEW c \in Things,
           NEW pc \in Ch!Pcs, NEW x \in Nat, NEW w \in Rewards \cup {0},
           pc \in {"claimCheck", "claimWrite", "approveWrite"} => w \in Rewards,
           Ch!Begin(r, u, c, pc, x, w),
           UNCHANGED <<challenge, progress, xp, rank, credits, granted>>
    PROVE  ChallengeTypeInv'
  BY DEF ChallengeTypeInv, Ch!TypeOK, Attributed, Ch!Begin

LEMMA FinishType ==
    ASSUME ChallengeTypeInv, NEW r \in Calls, Ch!Finish(r)
    PROVE  /\ chReq' \in [Calls -> [pc : Ch!Pcs, user : Gamers \cup {Ch!None}, item : Things \cup {Ch!None},
                                     xp : Nat, reward : Rewards \cup {0}]]
           /\ Attributed'
  BY DEF ChallengeTypeInv, Ch!TypeOK, Attributed, Ch!Finish, Ch!NoRequest, Ch!Pcs

LEMMA CreditType ==
    ASSUME ChallengeTypeInv, NEW kind \in Ch!Kinds, NEW u \in Gamers, NEW c \in Things, NEW w \in Nat,
           Ch!Credit(kind, u, c, w)
    PROVE  credits' \in [Ch!Kinds -> [Gamers \X Things -> Nat]] /\ granted' \in [Gamers -> Nat]
  <1>1. credits[kind] \in [Gamers \X Things -> Nat] /\ <<u, c>> \in Gamers \X Things
    BY DEF ChallengeTypeInv, Ch!TypeOK
  <1>2. [credits[kind] EXCEPT ![<<u, c>>] = @ + 1] \in [Gamers \X Things -> Nat]
    BY <1>1
  <1> QED BY <1>1, <1>2 DEF ChallengeTypeInv, Ch!TypeOK, Ch!Credit

LEMMA RewardOrZero ==
    ASSUME NEW S, S \subseteq Nat, NEW x \in S \cup {0}
    PROVE  x \in Nat
  OBVIOUS

\* What a request under way is about.
LEMMA UnderWay ==
    ASSUME Rewards \subseteq Nat, ChallengeTypeInv, NEW r \in Calls,
           chReq[r].pc \notin {"idle", "rankWrite"}
    PROVE  /\ chReq[r].user \in Gamers /\ chReq[r].item \in Things /\ Ch!Key(r) \in Gamers \X Things
           /\ chReq[r].xp \in Nat /\ chReq[r].reward \in Nat
  <1>1. chReq[r].user \in Gamers /\ chReq[r].item \in Things
    BY DEF ChallengeTypeInv, Attributed
  <1>2. chReq[r].xp \in Nat
    BY DEF ChallengeTypeInv, Ch!TypeOK
  <1>3. chReq[r].reward \in Nat
    <2>1. chReq[r].reward \in Rewards \cup {0}
      BY DEF ChallengeTypeInv, Ch!TypeOK
    <2> QED BY <2>1, RewardOrZero
  <1>4. Ch!Key(r) \in Gamers \X Things
    BY <1>1 DEF Ch!Key
  <1> QED BY <1>1, <1>2, <1>3, <1>4

LEMMA RowsAreRows == ChallengeTypeInv => \A k \in Gamers \X Things : progress[k] \in Row
  BY DEF ChallengeTypeInv, Ch!TypeOK, Row

LEMMA SubmittedRow ==
    ASSUME NEW entry \in Row
    PROVE  [entry EXCEPT !.exists = TRUE, !.status = "PROOF_SUBMITTED", !.isCompleted = TRUE] \in Row
  BY Zenon DEF Row, Ch!ChallengeStatus

LEMMA ApprovedRow ==
    ASSUME NEW entry \in Row
    PROVE  [entry EXCEPT !.status = "COMPLETED", !.isCompleted = TRUE] \in Row
  BY Zenon DEF Row, Ch!ChallengeStatus

LEMMA RejectedRow ==
    ASSUME NEW entry \in Row
    PROVE  [entry EXCEPT !.status = "PROOF_REJECTED"] \in Row
  BY Zenon DEF Row, Ch!ChallengeStatus

\* A step that rewrites one progress row.
LEMMA RowType ==
    ASSUME ChallengeTypeInv, NEW k \in Gamers \X Things, NEW new \in Row,
           progress' = [progress EXCEPT ![k] = new]
    PROVE  progress' \in [Gamers \X Things -> Row]
  BY DEF ChallengeTypeInv, Ch!TypeOK, Row

LEMMA TypeStep ==
    ASSUME Rewards \subseteq Nat, ChallengeTypeInv, [Ch!Next]_(Ch!vars)
    PROVE  ChallengeTypeInv'
  <1> USE DEF Ch!vars
  <1>1. ASSUME NEW r \in Calls, NEW u \in Gamers, NEW c \in Things,
               Ch!ClaimRead(r, u, c) \/ Ch!SubmitRead(r, u, c) \/ Ch!ApproveRead(r, u, c)
               \/ Ch!DeleteRead(r, u, c)
        PROVE  ChallengeTypeInv'
    <2>1. challenge[c].reward \in Rewards /\ xp[u] \in Nat
      BY DEF ChallengeTypeInv, Ch!TypeOK
    <2>2. CASE Ch!ClaimRead(r, u, c)
      BY <2>1, <2>2, BeginType DEF Ch!ClaimRead, Ch!Pcs
    <2>3. CASE Ch!SubmitRead(r, u, c)
      BY <2>3, BeginType DEF Ch!SubmitRead, Ch!Pcs
    <2>4. CASE Ch!ApproveRead(r, u, c)
      BY <2>1, <2>4, BeginType DEF Ch!ApproveRead, Ch!Pcs
    <2>5. CASE Ch!DeleteRead(r, u, c)
      BY <2>5, BeginType DEF Ch!DeleteRead, Ch!Pcs
    <2> QED BY <1>1, <2>2, <2>3, <2>4, <2>5
  <1>2. ASSUME NEW r \in Calls, Ch!ClaimCheck(r)
        PROVE  ChallengeTypeInv'
    <2>1. CASE chReq' = [chReq EXCEPT ![r].pc = "claimWrite"]
      BY <1>2, <2>1 DEF Ch!ClaimCheck, ChallengeTypeInv, Ch!TypeOK, Attributed, Ch!Pcs
    <2>2. CASE Ch!Finish(r)
      BY <1>2, <2>2, FinishType DEF Ch!ClaimCheck, ChallengeTypeInv, Ch!TypeOK
    <2> QED BY <1>2, <2>1, <2>2 DEF Ch!ClaimCheck
  <1>3. ASSUME NEW r \in Calls, Ch!ClaimWrite(r)
        PROVE  ChallengeTypeInv'
    <2> DEFINE u == chReq[r].user
               x == chReq[r].xp + chReq[r].reward
    <2>1. u \in Gamers /\ chReq[r].item \in Things /\ chReq[r].reward \in Nat /\ x \in Nat
      BY <1>3, UnderWay DEF Ch!ClaimWrite
    <2>2. Ch!Key(r) \in Gamers \X Things
      BY <2>1 DEF Ch!Key
    <2>3. credits' \in [Ch!Kinds -> [Gamers \X Things -> Nat]] /\ granted' \in [Gamers -> Nat]
      BY <1>3, <2>1, CreditType DEF Ch!ClaimWrite, Ch!Kinds
    <2>4. rank' \in [Gamers -> Ch!RankNumbers] /\ xp' \in [Gamers -> Nat]
      BY <1>3, <2>1, RankReached DEF Ch!ClaimWrite, ChallengeTypeInv, Ch!TypeOK
    <2>5. progress' \in [Gamers \X Things -> Row]
      <3> DEFINE new == [exists |-> TRUE, status |-> "CLAIMED", isClaimed |-> TRUE,
                         isCompleted |-> ~progress[Ch!Key(r)].exists \/ progress[Ch!Key(r)].isCompleted]
      <3>1. new \in Row
        BY DEF Row, Ch!ChallengeStatus
      <3>2. progress' = [progress EXCEPT ![Ch!Key(r)] = new]
        BY <1>3 DEF Ch!ClaimWrite
      <3> QED BY <2>2, <3>1, <3>2 DEF ChallengeTypeInv, Ch!TypeOK, Row
    <2>6. Ch!Finish(r) /\ UNCHANGED challenge
      BY <1>3 DEF Ch!ClaimWrite
    <2> QED BY <2>3, <2>4, <2>5, <2>6, FinishType DEF ChallengeTypeInv, Ch!TypeOK, Row
  <1>4. ASSUME NEW r \in Calls, Ch!SubmitWrite(r)
        PROVE  ChallengeTypeInv'
    <2> DEFINE new == [progress[Ch!Key(r)] EXCEPT !.exists = TRUE, !.status = "PROOF_SUBMITTED",
                                               !.isCompleted = TRUE]
    <2>2. Ch!Key(r) \in Gamers \X Things
      BY <1>4, UnderWay DEF Ch!SubmitWrite
    <2>3. new \in Row
      BY <2>2, RowsAreRows, SubmittedRow
    <2>4. progress' = [progress EXCEPT ![Ch!Key(r)] = new]
      BY <1>4, <2>2 DEF Ch!SubmitWrite, ChallengeTypeInv, Ch!TypeOK
    <2>1. progress' \in [Gamers \X Things -> Row]
      BY <2>2, <2>3, <2>4, RowType
    <2> QED BY <1>4, <2>1, FinishType DEF Ch!SubmitWrite, ChallengeTypeInv, Ch!TypeOK, Row
  <1>5. ASSUME NEW r \in Calls, Ch!ApproveWrite(r)
        PROVE  ChallengeTypeInv'
    <2>1. /\ chReq[r].user \in Gamers /\ chReq[r].item \in Things
          /\ chReq[r].reward \in Nat
      BY <1>5 DEF Ch!ApproveWrite, ChallengeTypeInv, Ch!TypeOK, Attributed
    <2>2. credits' \in [Ch!Kinds -> [Gamers \X Things -> Nat]] /\ granted' \in [Gamers -> Nat]
      BY <1>5, <2>1, CreditType DEF Ch!ApproveWrite, Ch!Kinds
    <2>3. progress' \in [Gamers \X Things -> Row]
      <3> DEFINE new == [progress[Ch!Key(r)] EXCEPT !.status = "COMPLETED", !.isCompleted = TRUE]
      <3>1. Ch!Key(r) \in Gamers \X Things
        BY <1>5, UnderWay DEF Ch!ApproveWrite
      <3>2. new \in Row
        BY <3>1, RowsAreRows, ApprovedRow
      <3>3. progress' = [progress EXCEPT ![Ch!Key(r)] = new]
        BY <1>5, <3>1 DEF Ch!ApproveWrite, ChallengeTypeInv, Ch!TypeOK
      <3> QED BY <3>1, <3>2, <3>3, RowType
    <2>4. xp' \in [Gamers -> Nat]
      BY <1>5, <2>1 DEF Ch!ApproveWrite, ChallengeTypeInv, Ch!TypeOK
    <2> QED BY <1>5, <2>2, <2>3, <2>4, FinishType DEF Ch!ApproveWrite, ChallengeTypeInv, Ch!TypeOK,
               Row
  <1>6. ASSUME NEW r \in Calls, Ch!DeleteWrite(r)
        PROVE  ChallengeTypeInv'
    <2>1. Ch!NoRow \in Row
      BY DEF Ch!NoRow, Row, Ch!ChallengeStatus
    <2>2. progress' \in [Gamers \X Things -> Row]
      BY <1>6, <2>1 DEF Ch!DeleteWrite, ChallengeTypeInv, Ch!TypeOK, Row
    <2>3. challenge' \in [Things -> [state : {"new", "live", "deleted"}, reward : Rewards]]
      <3>1. chReq[r].item \in Things
        BY <1>6, UnderWay DEF Ch!DeleteWrite
      <3>2. challenge' = [challenge EXCEPT ![chReq[r].item].state = "deleted"]
        BY <1>6 DEF Ch!DeleteWrite
      <3>3. challenge \in [Things -> [state : {"new", "live", "deleted"}, reward : Rewards]]
        BY DEF ChallengeTypeInv, Ch!TypeOK
      <3> QED BY <3>1, <3>2, <3>3
    <2>4. /\ chReq' \in [Calls -> [pc : Ch!Pcs, user : Gamers \cup {Ch!None},
                                   item : Things \cup {Ch!None}, xp : Nat,
                                   reward : Rewards \cup {0}]]
          /\ Attributed'
      BY <1>6, FinishType DEF Ch!DeleteWrite
    <2>5. UNCHANGED <<xp, rank, credits, granted>>
      BY <1>6 DEF Ch!DeleteWrite
    <2> QED BY <2>2, <2>3, <2>4, <2>5 DEF ChallengeTypeInv, Ch!TypeOK, Row
  <1>7. ASSUME NEW r \in Calls, Ch!Throw(r)
        PROVE  ChallengeTypeInv'
    BY <1>7, FinishType DEF Ch!Throw, ChallengeTypeInv, Ch!TypeOK
  <1>8. ASSUME NEW u \in Gamers, NEW c \in Things, Ch!RejectProof(u, c)
        PROVE  ChallengeTypeInv'
    <2>1. <<u, c>> \in Gamers \X Things
      OBVIOUS
    <2>2. [progress[<<u, c>>] EXCEPT !.status = "PROOF_REJECTED"] \in Row
      BY <2>1, RowsAreRows, RejectedRow
    <2>3. progress' = [progress EXCEPT ![<<u, c>>] = [progress[<<u, c>>] EXCEPT
                                                      !.status = "PROOF_REJECTED"]]
      BY <1>8 DEF Ch!RejectProof
    <2>4. progress' \in [Gamers \X Things -> Row]
      BY <2>1, <2>2, <2>3, RowType
    <2> QED BY <1>8, <2>4 DEF Ch!RejectProof, ChallengeTypeInv, Ch!TypeOK, Attributed, Row
  <1>9. ASSUME NEW c \in Things, Ch!CreateChallenge(c) \/ Ch!UpdateChallenge(c)
        PROVE  ChallengeTypeInv'
    <2>1. challenge' \in [Things -> [state : {"new", "live", "deleted"}, reward : Rewards]]
      <3>1. \/ \E x \in Rewards : challenge' = [challenge EXCEPT ![c] =
                                                  [state |-> "live", reward |-> x]]
            \/ \E x \in Rewards : challenge' = [challenge EXCEPT ![c].reward = x]
        BY <1>9 DEF Ch!CreateChallenge, Ch!UpdateChallenge
      <3>2. challenge \in [Things -> [state : {"new", "live", "deleted"}, reward : Rewards]]
        BY DEF ChallengeTypeInv, Ch!TypeOK
      <3> QED BY <3>1, <3>2
    <2> QED BY <1>9, <2>1 DEF Ch!CreateChallenge, Ch!UpdateChallenge, ChallengeTypeInv, Ch!TypeOK,
               Attributed
  <1>10. CASE UNCHANGED Ch!vars
    BY <1>10 DEF ChallengeTypeInv, Ch!TypeOK, Attributed
  <1>11. ASSUME NEW r \in Calls, NEW u \in Gamers, Ch!RankRead(r, u)
        PROVE  ChallengeTypeInv'
    BY <1>11 DEF Ch!RankRead, ChallengeTypeInv, Ch!TypeOK, Attributed, Ch!Pcs
  <1>12. ASSUME NEW r \in Calls, Ch!RankWrite(r)
        PROVE  ChallengeTypeInv'
    <2>1. chReq[r].user \in Gamers /\ chReq[r].xp \in Nat
      BY <1>12 DEF Ch!RankWrite, ChallengeTypeInv, Ch!TypeOK, Attributed
    <2>2. rank' \in [Gamers -> Ch!RankNumbers]
      BY <1>12, <2>1, RankReached DEF Ch!RankWrite, ChallengeTypeInv, Ch!TypeOK
    <2> QED BY <1>12, <2>2, FinishType DEF Ch!RankWrite, ChallengeTypeInv, Ch!TypeOK
  <1> QED
    BY <1>1, <1>2, <1>3, <1>4, <1>5, <1>6, <1>7, <1>8, <1>9, <1>10, <1>11, <1>12 DEF Ch!Next

\* Every variable of Challenges has its type in every reachable state, whatever overlaps:
\* a request that is to write belongs to a player, a challenge and one of its rewards.
THEOREM ChallengesTyped ==
    ASSUME Rewards \subseteq Nat
    PROVE  Ch!Spec => []ChallengeTypeInv
  <1>1. Ch!Init => ChallengeTypeInv
    BY InitType
  <1>2. ChallengeTypeInv /\ [Ch!Next]_(Ch!vars) => ChallengeTypeInv'
    BY TypeStep
  <1> QED BY <1>1, <1>2, PTL DEF Ch!Spec

-----------------------------------------------------------------------------
(* The rank, where no other credit of a player overlaps a claim: the XP that *)
(* a request has read is then never above what the player has.               *)

ClaimPcs == {"claimCheck", "claimWrite"}
CreditPcs == ClaimPcs \cup {"approveWrite"}

\* A claim on its way is the only credit of its player.
ClaimsAlone ==
    \A r, s \in Calls :
        (chReq[r].pc \in ClaimPcs /\ s # r /\ chReq[s].user = chReq[r].user) => chReq[s].pc \notin CreditPcs

\* The XP it has read still stands; the XP a rank is computed from has been reached.
XpStands == \A r \in Calls : chReq[r].pc \in ClaimPcs => chReq[r].xp = xp[chReq[r].user]
XpWasReached == \A r \in Calls : chReq[r].pc = "rankWrite" => chReq[r].xp <= xp[chReq[r].user]

ReadsInv == ClaimsAlone /\ XpStands /\ XpWasReached
RankInv == ReadsInv /\ Ch!RankNeverAhead

LEMMA ReadsBegin ==
    ASSUME ChallengeTypeInv, ReadsInv, NEW r \in Calls, NEW u \in Gamers, NEW c, NEW w,
           NEW pc \in {"claimCheck", "submitWrite", "approveWrite", "deleteWrite"}, NEW x,
           chReq' = [chReq EXCEPT ![r] = [pc |-> pc, user |-> u, item |-> c, xp |-> x, reward |-> w]],
           xp' = xp,
           pc = "claimCheck" => Ch!CreditsOf(u) = {} /\ x = xp[u],
           pc = "approveWrite" => Ch!ClaimsOf(u) = {}
    PROVE  ReadsInv'
  <1>1. /\ chReq'[r] = [pc |-> pc, user |-> u, item |-> c, xp |-> x, reward |-> w]
        /\ \A s \in Calls \ {r} : chReq'[s] = chReq[s]
    BY DEF ChallengeTypeInv, Ch!TypeOK
  <1>2. ClaimsAlone'
    BY <1>1 DEF ReadsInv, ClaimsAlone, ClaimPcs, CreditPcs, Ch!CreditsOf, Ch!ClaimsOf
  <1>3. XpStands'
    BY <1>1 DEF ReadsInv, XpStands, ClaimPcs
  <1>4. XpWasReached'
    BY <1>1 DEF ReadsInv, XpWasReached
  <1> QED BY <1>2, <1>3, <1>4 DEF ReadsInv

\* A request ends; nobody has lost XP, and those with a claim on its way have their own.
LEMMA ReadsEnd ==
    ASSUME ChallengeTypeInv, ReadsInv, NEW r \in Calls, Ch!Finish(r),
           xp' \in [Gamers -> Nat], \A u \in Gamers : xp[u] <= xp'[u],
           \A s \in Calls \ {r} : chReq[s].pc \in ClaimPcs => xp'[chReq[s].user] = xp[chReq[s].user]
    PROVE  ReadsInv'
  <1>1. /\ chReq'[r].pc = "idle"
        /\ \A s \in Calls \ {r} : chReq'[s] = chReq[s]
    BY DEF Ch!Finish, Ch!NoRequest, ChallengeTypeInv, Ch!TypeOK
  <1>2. ClaimsAlone'
    BY <1>1 DEF ReadsInv, ClaimsAlone, ClaimPcs, CreditPcs
  <1>3. XpStands'
    BY <1>1 DEF ReadsInv, XpStands, ClaimPcs
  <1>4. ASSUME NEW s \in Calls, chReq'[s].pc = "rankWrite"
        PROVE  chReq'[s].xp <= xp'[chReq'[s].user]
    <2>1. s # r /\ chReq'[s] = chReq[s]
      BY <1>1, <1>4
    <2>2. /\ chReq[s].xp <= xp[chReq[s].user] /\ chReq[s].user \in Gamers /\ chReq[s].xp \in Nat
          /\ xp \in [Gamers -> Nat]
      BY <1>4, <2>1 DEF ReadsInv, XpWasReached, ChallengeTypeInv, Ch!TypeOK, Attributed
    <2>3. xp[chReq[s].user] \in Nat /\ xp'[chReq[s].user] \in Nat
          /\ xp[chReq[s].user] <= xp'[chReq[s].user]
      BY <2>2
    <2> HIDE DEF ReadsInv
    <2> QED BY <2>1, <2>2, <2>3
  <1> QED BY <1>2, <1>3, <1>4 DEF ReadsInv, XpWasReached

\* A credit adds to what the player has.
LEMMA CreditStep ==
    ASSUME Rewards \subseteq Nat, ChallengeTypeInv, RankInv, NEW r \in Calls,
           Ch!ClaimWrite(r) \/ Ch!ApproveWrite(r)
    PROVE  ReadsInv' /\ xp' \in [Gamers -> Nat] /\ \A u \in Gamers : xp[u] <= xp'[u]
  <1> DEFINE u == chReq[r].user
             w == chReq[r].reward
  <1>1. chReq[r].pc \in CreditPcs /\ u \in Gamers /\ w \in Nat /\ xp \in [Gamers -> Nat]
    BY UnderWay DEF Ch!ClaimWrite, Ch!ApproveWrite, CreditPcs, ClaimPcs, ChallengeTypeInv, Ch!TypeOK
  <1>2. chReq[r].pc \in ClaimPcs => chReq[r].xp = xp[u]
    BY DEF RankInv, ReadsInv, XpStands
  <1>3. xp' = [xp EXCEPT ![u] = xp[u] + w]
    BY <1>1, <1>2 DEF Ch!ClaimWrite, Ch!ApproveWrite, ClaimPcs
  <1>4. \A s \in Calls \ {r} : chReq[s].pc \in ClaimPcs => chReq[s].user # u
    BY <1>1 DEF RankInv, ReadsInv, ClaimsAlone
  <1>5. xp' \in [Gamers -> Nat] /\ \A v \in Gamers : xp[v] <= xp'[v]
    BY <1>1, <1>3
  <1>6. \A s \in Calls \ {r} : chReq[s].pc \in ClaimPcs => xp'[chReq[s].user] = xp[chReq[s].user]
    BY <1>3, <1>4 DEF ChallengeTypeInv, Attributed, ClaimPcs, Ch!TypeOK
  <1> QED BY <1>5, <1>6, ReadsEnd DEF RankInv, Ch!ClaimWrite, Ch!ApproveWrite

LEMMA RankStep ==
    ASSUME Rewards \subseteq Nat, "claimRace" \notin Env, ChallengeTypeInv, RankInv,
           [Ch!Next]_(Ch!vars)
    PROVE  RankInv'
  <1>1. ASSUME NEW r \in Calls, Ch!ClaimWrite(r)
        PROVE  RankInv'
    <2> DEFINE x == chReq[r].xp + chReq[r].reward
    <2>1. chReq[r].user \in Gamers /\ x \in Nat
      BY <1>1, UnderWay DEF Ch!ClaimWrite
    <2>2. Ch!MinXP[Ch!CalculateRank(x)] <= x
      BY <2>1, RankReached
    <2>3. /\ xp' = [xp EXCEPT ![chReq[r].user] = x]
          /\ rank' = [rank EXCEPT ![chReq[r].user] = Ch!CalculateRank(x)]
      BY <1>1 DEF Ch!ClaimWrite
    <2> HIDE DEF x
    <2>4. Ch!RankNeverAhead'
      BY <2>1, <2>2, <2>3 DEF RankInv, Ch!RankNeverAhead, ChallengeTypeInv, Ch!TypeOK
    <2> QED BY <1>1, <2>4, CreditStep DEF RankInv
  <1>2. ASSUME NEW r \in Calls, Ch!ApproveWrite(r)
        PROVE  RankInv'
    <2>1. /\ ReadsInv' /\ xp \in [Gamers -> Nat] /\ xp' \in [Gamers -> Nat]
          /\ \A u \in Gamers : xp[u] <= xp'[u]
      BY <1>2, CreditStep DEF ChallengeTypeInv, Ch!TypeOK
    <2>2. \A u \in Gamers : xp[u] \in Nat /\ xp'[u] \in Nat /\ xp[u] <= xp'[u]
      BY <2>1
    <2>3. \A n \in Ch!RankNumbers : Ch!MinXP[n] \in Nat
      BY RankMinima DEF Ch!RankNumbers
    <2>4. \A u \in Gamers : rank[u] \in Ch!RankNumbers /\ rank'[u] = rank[u]
      BY <1>2 DEF Ch!ApproveWrite, ChallengeTypeInv, Ch!TypeOK
    <2> QED BY <2>1, <2>2, <2>3, <2>4 DEF RankInv, Ch!RankNeverAhead
  <1>3. ASSUME NEW r \in Calls, Ch!RankWrite(r)
        PROVE  RankInv'
    <2> DEFINE x == chReq[r].xp
    <2>1. chReq[r].user \in Gamers /\ x \in Nat /\ xp \in [Gamers -> Nat] /\ xp' = xp
      BY <1>3 DEF Ch!RankWrite, ChallengeTypeInv, Ch!TypeOK, Attributed
    <2>2. x <= xp[chReq[r].user]
      BY <1>3 DEF Ch!RankWrite, RankInv, ReadsInv, XpWasReached
    <2>3. Ch!MinXP[Ch!CalculateRank(x)] <= x /\ Ch!MinXP[Ch!CalculateRank(x)] \in Nat
      BY <2>1, RankReached, RankMinima DEF Ch!RankNumbers
    <2>4. rank' = [rank EXCEPT ![chReq[r].user] = Ch!CalculateRank(x)]
      BY <1>3 DEF Ch!RankWrite
    <2> HIDE DEF x
    <2>5. Ch!MinXP[Ch!CalculateRank(x)] <= xp[chReq[r].user]
      BY <2>1, <2>2, <2>3
    <2>6. Ch!RankNeverAhead'
      BY <2>1, <2>4, <2>5 DEF RankInv, Ch!RankNeverAhead, ChallengeTypeInv, Ch!TypeOK
    <2>7. ReadsInv'
      BY <1>3, <2>1, ReadsEnd DEF Ch!RankWrite, RankInv
    <2> QED BY <2>6, <2>7 DEF RankInv
  <1>4. UNCHANGED <<xp, rank>> => Ch!RankNeverAhead'
    BY DEF RankInv, Ch!RankNeverAhead
  <1>5. ASSUME NEW r \in Calls, NEW u \in Gamers, NEW c \in Things,
               \/ Ch!ClaimRead(r, u, c) \/ Ch!SubmitRead(r, u, c)
               \/ Ch!ApproveRead(r, u, c) \/ Ch!DeleteRead(r, u, c)
        PROVE  RankInv'
    <2>1. UNCHANGED <<xp, rank>> /\ ReadsInv
      BY <1>5 DEF Ch!ClaimRead, Ch!SubmitRead, Ch!ApproveRead, Ch!DeleteRead, RankInv
    <2>2. CASE Ch!ClaimRead(r, u, c)
      BY <2>1, <2>2, <1>4, ReadsBegin DEF Ch!ClaimRead, Ch!Begin, RankInv
    <2>3. CASE Ch!SubmitRead(r, u, c)
      BY <2>1, <2>3, <1>4, ReadsBegin DEF Ch!SubmitRead, Ch!Begin, RankInv
    <2>4. CASE Ch!ApproveRead(r, u, c)
      BY <2>1, <2>4, <1>4, ReadsBegin DEF Ch!ApproveRead, Ch!Begin, RankInv
    <2>5. CASE Ch!DeleteRead(r, u, c)
      BY <2>1, <2>5, <1>4, ReadsBegin DEF Ch!DeleteRead, Ch!Begin, RankInv
    <2> QED BY <1>5, <2>2, <2>3, <2>4, <2>5
  <1>6. ASSUME NEW r \in Calls, NEW u \in Gamers, Ch!RankRead(r, u)
        PROVE  RankInv'
    <2>1. /\ chReq'[r] = [pc |-> "rankWrite", user |-> u, item |-> Ch!None, xp |-> xp[u], reward |-> 0]
          /\ \A s \in Calls \ {r} : chReq'[s] = chReq[s]
          /\ UNCHANGED <<xp, rank>> /\ xp[u] \in Nat /\ xp[u] <= xp[u]
      BY <1>6 DEF Ch!RankRead, ChallengeTypeInv, Ch!TypeOK
    <2>2. ClaimsAlone' /\ XpStands' /\ XpWasReached'
      BY <2>1 DEF RankInv, ReadsInv, ClaimsAlone, XpStands, XpWasReached, ClaimPcs, CreditPcs
    <2> QED BY <1>4, <2>1, <2>2 DEF RankInv, ReadsInv
  <1>7. ASSUME NEW r \in Calls,
               Ch!ClaimCheck(r) \/ Ch!SubmitWrite(r) \/ Ch!DeleteWrite(r) \/ Ch!Throw(r)
        PROVE  RankInv'
    <2>1. /\ UNCHANGED <<xp, rank>> /\ xp \in [Gamers -> Nat]
          /\ \A u \in Gamers : xp[u] <= xp[u]
      BY <1>7 DEF Ch!ClaimCheck, Ch!SubmitWrite, Ch!DeleteWrite, Ch!Throw, ChallengeTypeInv, Ch!TypeOK
    <2>2. CASE Ch!Finish(r)
      BY <1>4, <2>1, <2>2, ReadsEnd DEF RankInv
    <2>3. CASE chReq[r].pc = "claimCheck" /\ chReq' = [chReq EXCEPT ![r].pc = "claimWrite"]
      <3>1. /\ chReq'[r].pc = "claimWrite" /\ chReq'[r].user = chReq[r].user
            /\ chReq'[r].xp = chReq[r].xp
            /\ \A s \in Calls \ {r} : chReq'[s] = chReq[s]
        BY <2>3 DEF ChallengeTypeInv, Ch!TypeOK
      <3>2. ClaimsAlone' /\ XpStands' /\ XpWasReached'
        BY <2>1, <2>3, <3>1 DEF RankInv, ReadsInv, ClaimsAlone, XpStands, XpWasReached, ClaimPcs,
           CreditPcs
      <3> QED BY <1>4, <2>1, <3>2 DEF RankInv, ReadsInv
    <2> QED BY <1>7, <2>2, <2>3 DEF Ch!ClaimCheck, Ch!SubmitWrite, Ch!DeleteWrite, Ch!Throw
  <1>8. ASSUME \/ \E u \in Gamers, c \in Things : Ch!RejectProof(u, c)
               \/ \E c \in Things : Ch!CreateChallenge(c) \/ Ch!UpdateChallenge(c)
               \/ UNCHANGED Ch!vars
        PROVE  RankInv'
    <2>1. UNCHANGED <<xp, rank, chReq>>
      BY <1>8 DEF Ch!RejectProof, Ch!CreateChallenge, Ch!UpdateChallenge, Ch!vars
    <2> QED BY <1>4, <2>1 DEF RankInv, ReadsInv, ClaimsAlone, XpStands, XpWasReached
  <1> QED
    BY <1>1, <1>2, <1>3, <1>5, <1>6, <1>7, <1>8 DEF Ch!Next

\* As long as no other credit of a player overlaps a claim, nobody is shown a rank that their
\* XP does not reach: however many of the updates that getUserRank does not wait for are
\* still on their way, beside claims, approvals and deletions.
THEOREM RankIsReached ==
    ASSUME Rewards \subseteq Nat, "claimRace" \notin Env
    PROVE  (Ch!Spec => []Ch!RankNeverAhead) /\ (SpecAll => []RankNeverAhead)
  <1>1. Ch!Init => RankInv
    BY RankMinima DEF Ch!Init, Ch!NoRequest, RankInv, ReadsInv, ClaimsAlone, XpStands,
       XpWasReached, ClaimPcs, Ch!RankNeverAhead
  <1>2. ChallengeTypeInv /\ RankInv /\ [Ch!Next]_(Ch!vars) => RankInv'
    BY RankStep
  <1>3. RankInv => Ch!RankNeverAhead
    BY DEF RankInv
  <1>4. Ch!Spec => []Ch!RankNeverAhead
    BY <1>1, <1>2, <1>3, ChallengesTyped, PTL DEF Ch!Spec
  <1> QED BY <1>4, EachServiceRuns, PTL DEF RankNeverAhead

-----------------------------------------------------------------------------
(* The rewards, where no other credit of a player overlaps a claim and       *)
(* nothing overlaps a deletion.                                              *)

\* What a claim is about to write was not claimed yet.
NotClaimedYet == \A r \in Calls : chReq[r].pc = "claimWrite" => credits["claim"][Ch!Key(r)] = 0

\* What was claimed is marked, and what exists was submitted.
ClaimsAreMarked == \A k \in ChallengeKeys : credits["claim"][k] > 0 => progress[k].isClaimed
RowsAreSubmitted == \A k \in ChallengeKeys : progress[k].exists => progress[k].isCompleted

\* A deletion on its way is alone, and the challenge has no rows.
DeletesAlone ==
    \A r \in Calls : chReq[r].pc = "deleteWrite" =>
        /\ \A s \in Calls \ {r} : chReq[s].pc \in {"idle", "rankWrite"}
        /\ \A u \in Gamers : ~progress[<<u, chReq[r].item>>].exists

RequestsInv == ClaimsAlone /\ XpStands /\ NotClaimedYet /\ DeletesAlone
RowsInv == Ch!RewardsAreEarned /\ ClaimsAreMarked /\ RowsAreSubmitted
RewardInv == RequestsInv /\ RowsInv

\* What no property of the rows reads has changed.
LEMMA RowsStand == RowsInv /\ UNCHANGED <<progress, xp, credits, granted>> => RowsInv'
  BY DEF RowsInv, Ch!RewardsAreEarned, Ch!XpIsGranted, Ch!ClaimedOnce, Ch!CreditsHaveProgress,
     ClaimsAreMarked,
         RowsAreSubmitted, ChallengeKeys

\* A request ends, and what the others hold is left to them.
LEMMA FinishKeeps ==
    ASSUME ChallengeTypeInv, RequestsInv, NEW r \in Calls, Ch!Finish(r),
           \A s \in Calls \ {r} : chReq[s].pc \in ClaimPcs =>
               xp'[chReq[s].user] = xp[chReq[s].user] /\ credits'["claim"][Ch!Key(s)] = credits["claim"][Ch!Key(s)],
           \A s \in Calls \ {r} : chReq[s].pc = "deleteWrite" =>
               \A u \in Gamers : ~progress'[<<u, chReq[s].item>>].exists
    PROVE  RequestsInv'
  <1>1. /\ chReq'[r].pc = "idle"
        /\ \A s \in Calls \ {r} : chReq'[s] = chReq[s]
    BY DEF Ch!Finish, Ch!NoRequest, ChallengeTypeInv, Ch!TypeOK
  <1>2. ClaimsAlone'
    BY <1>1 DEF RequestsInv, ClaimsAlone, ClaimPcs, CreditPcs
  <1>3. XpStands'
    BY <1>1 DEF RequestsInv, XpStands, ClaimPcs
  <1>4. NotClaimedYet'
    BY <1>1 DEF RequestsInv, NotClaimedYet, ClaimPcs, Ch!Key
  <1>5. DeletesAlone'
    BY <1>1 DEF RequestsInv, DeletesAlone
  <1> QED BY <1>2, <1>3, <1>4, <1>5 DEF RequestsInv

\* A request that has read; nothing but the requests has changed.
LEMMA BeginKeeps ==
    ASSUME ChallengeTypeInv, RequestsInv, NEW r \in Calls, chReq[r].pc = "idle",
           NEW u \in Gamers, NEW c \in Things, NEW pc \in Ch!Pcs \ {"idle", "claimWrite"}, NEW x, NEW w,
           "deleteRace" \notin Env, Ch!Begin(r, u, c, pc, x, w),
           UNCHANGED <<progress, xp, credits>>,
           pc \in ClaimPcs => Ch!CreditsOf(u) = {} /\ x = xp[u],
           pc = "approveWrite" => Ch!ClaimsOf(u) = {},
           pc = "deleteWrite" => Ch!Others(r) = {} /\ \A v \in Gamers : ~progress[<<v, c>>].exists
    PROVE  RequestsInv'
  <1>1. /\ chReq'[r] = [pc |-> pc, user |-> u, item |-> c, xp |-> x, reward |-> w]
        /\ \A s \in Calls \ {r} : chReq'[s] = chReq[s]
        /\ \A s \in Calls : chReq[s].pc # "deleteWrite"
    BY DEF Ch!Begin, ChallengeTypeInv, Ch!TypeOK
  <1>2. ClaimsAlone'
    BY <1>1 DEF RequestsInv, ClaimsAlone, ClaimPcs, CreditPcs, Ch!CreditsOf, Ch!ClaimsOf
  <1>3. XpStands'
    BY <1>1 DEF RequestsInv, XpStands, ClaimPcs
  <1>4. NotClaimedYet'
    BY <1>1 DEF RequestsInv, NotClaimedYet, Ch!Key
  <1>5. DeletesAlone'
    BY <1>1 DEF RequestsInv, DeletesAlone, Ch!Others
  <1> QED BY <1>2, <1>3, <1>4, <1>5 DEF RequestsInv

\* A claim pays the reward once, on top of what the player has.
LEMMA ClaimPays ==
    ASSUME Rewards \subseteq Nat, ChallengeTypeInv, RewardInv, NEW r \in Calls, Ch!ClaimWrite(r)
    PROVE  RewardInv'
  <1> DEFINE u == chReq[r].user
             w == chReq[r].reward
             k == Ch!Key(r)
  <1>1. /\ u \in Gamers /\ k \in ChallengeKeys /\ w \in Nat /\ chReq[r].pc = "claimWrite"
        /\ k = <<u, chReq[r].item>> /\ chReq[r].item \in Things
    BY UnderWay DEF Ch!ClaimWrite, ChallengeKeys, Ch!Key
  <1>2. /\ chReq[r].xp = xp[u] /\ credits["claim"][k] = 0
        /\ \A s \in Calls \ {r} : chReq[s].user = u => chReq[s].pc \notin CreditPcs
    BY <1>1 DEF RewardInv, RequestsInv, ClaimsAlone, XpStands, NotClaimedYet, ClaimPcs
  <1>3. /\ \A v \in Gamers : xp'[v] = IF v = u THEN xp[u] + w ELSE xp[v]
        /\ \A v \in Gamers : granted'[v] = IF v = u THEN granted[u] + w ELSE granted[v]
    BY <1>1, <1>2 DEF Ch!ClaimWrite, Ch!Credit, ChallengeTypeInv, Ch!TypeOK
  <1>4. \A kind \in Ch!Kinds : \A j \in ChallengeKeys :
            credits'[kind][j] = IF kind = "claim" /\ j = k THEN credits[kind][j] + 1 ELSE credits[kind][j]
    BY <1>1 DEF Ch!ClaimWrite, Ch!Credit, ChallengeTypeInv, Ch!TypeOK, Ch!Kinds, ChallengeKeys
  <1>5. /\ progress'[k].exists /\ progress'[k].isClaimed /\ progress'[k].isCompleted
        /\ \A j \in ChallengeKeys \ {k} : progress'[j] = progress[j]
    <2>1. progress[k].exists => progress[k].isCompleted
      BY <1>1 DEF RewardInv, RowsInv, RowsAreSubmitted
    <2> QED BY <1>1, <2>1 DEF Ch!ClaimWrite, ChallengeTypeInv, Ch!TypeOK, ChallengeKeys
  <1>6. RowsInv'
    <2>1. Ch!XpIsGranted'
      BY <1>1, <1>3 DEF RewardInv, RowsInv, Ch!RewardsAreEarned, Ch!XpIsGranted
    <2>2. Ch!ClaimedOnce'
      BY <1>1, <1>2, <1>4 DEF RewardInv, RowsInv, Ch!RewardsAreEarned, Ch!ClaimedOnce, Ch!Kinds,
         ChallengeKeys
    <2>3. Ch!CreditsHaveProgress'
      BY <1>1, <1>4, <1>5 DEF RewardInv, RowsInv, Ch!RewardsAreEarned, Ch!CreditsHaveProgress,
         Ch!Kinds, ChallengeKeys
    <2>4. ClaimsAreMarked' /\ RowsAreSubmitted'
      BY <1>1, <1>4, <1>5 DEF RewardInv, RowsInv, ClaimsAreMarked, RowsAreSubmitted, Ch!Kinds,
         ChallengeKeys
    <2> QED BY <2>1, <2>2, <2>3, <2>4 DEF RowsInv, Ch!RewardsAreEarned
  <1>7. \A s \in Calls \ {r} : chReq[s].pc \in ClaimPcs =>
            xp'[chReq[s].user] = xp[chReq[s].user] /\ credits'["claim"][Ch!Key(s)] = credits["claim"][Ch!Key(s)]
    <2> SUFFICES ASSUME NEW s \in Calls \ {r}, chReq[s].pc \in ClaimPcs
                 PROVE  xp'[chReq[s].user] = xp[chReq[s].user]
                        /\ credits'["claim"][Ch!Key(s)] = credits["claim"][Ch!Key(s)]
      OBVIOUS
    <2>1. chReq[s].user \in Gamers /\ Ch!Key(s) \in ChallengeKeys /\ chReq[s].user # u
      BY <1>2, UnderWay DEF ClaimPcs, CreditPcs, ChallengeKeys
    <2>2. Ch!Key(s) # k
      BY <2>1 DEF Ch!Key
    <2> QED BY <1>3, <1>4, <2>1, <2>2 DEF Ch!Kinds
  <1>8. \A s \in Calls \ {r} : chReq[s].pc # "deleteWrite"
    BY <1>1 DEF RewardInv, RequestsInv, DeletesAlone
  <1> QED BY <1>6, <1>7, <1>8, FinishKeeps DEF Ch!ClaimWrite, RewardInv

\* An approval pays beside no claim of the player.
LEMMA ApprovalPays ==
    ASSUME Rewards \subseteq Nat, ChallengeTypeInv, RewardInv, NEW r \in Calls, Ch!ApproveWrite(r)
    PROVE  RewardInv'
  <1> DEFINE u == chReq[r].user
             w == chReq[r].reward
             k == Ch!Key(r)
  <1>1. /\ u \in Gamers /\ k \in ChallengeKeys /\ w \in Nat /\ chReq[r].pc = "approveWrite"
        /\ k = <<u, chReq[r].item>> /\ progress[k].exists
    BY UnderWay DEF Ch!ApproveWrite, ChallengeKeys, Ch!Key
  <1>2. \A s \in Calls \ {r} : chReq[s].user = u => chReq[s].pc \notin ClaimPcs
    BY <1>1 DEF RewardInv, RequestsInv, ClaimsAlone, CreditPcs
  <1>3. /\ \A v \in Gamers : xp'[v] = IF v = u THEN xp[u] + w ELSE xp[v]
        /\ \A v \in Gamers : granted'[v] = IF v = u THEN granted[u] + w ELSE granted[v]
    BY <1>1 DEF Ch!ApproveWrite, Ch!Credit, ChallengeTypeInv, Ch!TypeOK
  <1>4. \A kind \in Ch!Kinds : \A j \in ChallengeKeys :
            credits'[kind][j] = IF kind = "approval" /\ j = k THEN credits[kind][j] + 1
                                ELSE credits[kind][j]
    BY <1>1 DEF Ch!ApproveWrite, Ch!Credit, ChallengeTypeInv, Ch!TypeOK, Ch!Kinds, ChallengeKeys
  <1>5. /\ progress'[k].exists /\ progress'[k].isClaimed = progress[k].isClaimed
        /\ progress'[k].isCompleted
        /\ \A j \in ChallengeKeys \ {k} : progress'[j] = progress[j]
    BY <1>1 DEF Ch!ApproveWrite, ChallengeTypeInv, Ch!TypeOK, ChallengeKeys
  <1>6. RowsInv'
    <2>1. Ch!XpIsGranted'
      BY <1>1, <1>3 DEF RewardInv, RowsInv, Ch!RewardsAreEarned, Ch!XpIsGranted
    <2>2. Ch!ClaimedOnce'
      BY <1>1, <1>4 DEF RewardInv, RowsInv, Ch!RewardsAreEarned, Ch!ClaimedOnce, Ch!Kinds,
         ChallengeKeys
    <2>3. Ch!CreditsHaveProgress'
      BY <1>1, <1>4, <1>5 DEF RewardInv, RowsInv, Ch!RewardsAreEarned, Ch!CreditsHaveProgress,
         Ch!Kinds, ChallengeKeys
    <2>4. ClaimsAreMarked' /\ RowsAreSubmitted'
      BY <1>1, <1>4, <1>5 DEF RewardInv, RowsInv, ClaimsAreMarked, RowsAreSubmitted, Ch!Kinds,
         ChallengeKeys
    <2> QED BY <2>1, <2>2, <2>3, <2>4 DEF RowsInv, Ch!RewardsAreEarned
  <1>7. \A s \in Calls \ {r} : chReq[s].pc \in ClaimPcs =>
            xp'[chReq[s].user] = xp[chReq[s].user] /\ credits'["claim"][Ch!Key(s)] = credits["claim"][Ch!Key(s)]
    <2> SUFFICES ASSUME NEW s \in Calls \ {r}, chReq[s].pc \in ClaimPcs
                 PROVE  xp'[chReq[s].user] = xp[chReq[s].user]
                        /\ credits'["claim"][Ch!Key(s)] = credits["claim"][Ch!Key(s)]
      OBVIOUS
    <2>1. chReq[s].user \in Gamers /\ Ch!Key(s) \in ChallengeKeys /\ chReq[s].user # u
      BY <1>2, UnderWay DEF ClaimPcs, ChallengeKeys
    <2> QED BY <1>3, <1>4, <2>1 DEF Ch!Kinds
  <1>8. \A s \in Calls \ {r} : chReq[s].pc # "deleteWrite"
    BY <1>1 DEF RewardInv, RequestsInv, DeletesAlone
  <1> QED BY <1>6, <1>7, <1>8, FinishKeeps DEF Ch!ApproveWrite, RewardInv

\* A step that rewrites one row without taking anything from it.
LEMMA RowIsKept ==
    ASSUME ChallengeTypeInv, RowsInv, NEW k \in ChallengeKeys, UNCHANGED <<xp, credits, granted>>,
           progress'[k].isClaimed = progress[k].isClaimed,
           progress'[k].isCompleted, progress'[k].exists,
           \A j \in ChallengeKeys \ {k} : progress'[j] = progress[j]
    PROVE  RowsInv'
  <1>1. Ch!XpIsGranted' /\ Ch!ClaimedOnce'
    BY DEF RowsInv, Ch!RewardsAreEarned, Ch!XpIsGranted, Ch!ClaimedOnce
  <1>2. Ch!CreditsHaveProgress'
    BY DEF RowsInv, Ch!RewardsAreEarned, Ch!CreditsHaveProgress, ChallengeKeys
  <1>3. ClaimsAreMarked' /\ RowsAreSubmitted'
    BY DEF RowsInv, ClaimsAreMarked, RowsAreSubmitted
  <1> QED BY <1>1, <1>2, <1>3 DEF RowsInv, Ch!RewardsAreEarned

LEMMA SubmissionKeeps ==
    ASSUME Rewards \subseteq Nat, ChallengeTypeInv, RewardInv, NEW r \in Calls, Ch!SubmitWrite(r)
    PROVE  RewardInv'
  <1>1. Ch!Key(r) \in ChallengeKeys /\ chReq[r].pc = "submitWrite"
    BY UnderWay DEF Ch!SubmitWrite, ChallengeKeys
  <1>2. /\ progress'[Ch!Key(r)].isClaimed = progress[Ch!Key(r)].isClaimed
        /\ progress'[Ch!Key(r)].isCompleted /\ progress'[Ch!Key(r)].exists
        /\ \A j \in ChallengeKeys \ {Ch!Key(r)} : progress'[j] = progress[j]
    BY <1>1 DEF Ch!SubmitWrite, ChallengeTypeInv, Ch!TypeOK, ChallengeKeys
  <1>3. \A s \in Calls \ {r} : chReq[s].pc # "deleteWrite"
    BY <1>1 DEF RewardInv, RequestsInv, DeletesAlone
  <1>4. RowsInv'
    BY <1>1, <1>2, RowIsKept DEF Ch!SubmitWrite, RewardInv
  <1> QED BY <1>3, <1>4, FinishKeeps DEF Ch!SubmitWrite, RewardInv

LEMMA RejectionKeeps ==
    ASSUME ChallengeTypeInv, RewardInv, NEW u \in Gamers, NEW c \in Things, Ch!RejectProof(u, c)
    PROVE  RewardInv'
  <1>1. <<u, c>> \in ChallengeKeys /\ progress[<<u, c>>].exists
    BY DEF Ch!RejectProof, ChallengeKeys
  <1>2. /\ progress'[<<u, c>>].isClaimed = progress[<<u, c>>].isClaimed
        /\ progress'[<<u, c>>].isCompleted = progress[<<u, c>>].isCompleted
        /\ progress'[<<u, c>>].exists
        /\ \A j \in ChallengeKeys \ {<<u, c>>} : progress'[j] = progress[j]
    BY <1>1 DEF Ch!RejectProof, ChallengeTypeInv, Ch!TypeOK, ChallengeKeys
  <1>3. progress'[<<u, c>>].isCompleted
    BY <1>1, <1>2 DEF RewardInv, RowsInv, RowsAreSubmitted
  <1>4. RowsInv'
    BY <1>1, <1>2, <1>3, RowIsKept DEF Ch!RejectProof, RewardInv
  <1>5. ClaimsAlone' /\ XpStands' /\ NotClaimedYet'
    BY DEF Ch!RejectProof, RewardInv, RequestsInv, ClaimsAlone, XpStands, NotClaimedYet, Ch!Key
  <1>6. \A j \in ChallengeKeys : progress'[j].exists => progress[j].exists
    BY <1>1, <1>2
  <1>7. DeletesAlone'
    <2> SUFFICES ASSUME NEW r \in Calls, chReq[r].pc = "deleteWrite", NEW v \in Gamers
                 PROVE  ~progress'[<<v, chReq[r].item>>].exists
      BY DEF Ch!RejectProof, RewardInv, RequestsInv, DeletesAlone
    <2>1. <<v, chReq[r].item>> \in ChallengeKeys
      BY DEF ChallengeTypeInv, Attributed, ChallengeKeys
    <2> QED BY <1>6, <2>1 DEF RewardInv, RequestsInv, DeletesAlone
  <1> QED BY <1>4, <1>5, <1>7 DEF RewardInv, RequestsInv

\* Nobody was credited a challenge that is deleted.
LEMMA DeletionKeeps ==
    ASSUME Rewards \subseteq Nat, ChallengeTypeInv, RewardInv, NEW r \in Calls, Ch!DeleteWrite(r)
    PROVE  RewardInv'
  <1> DEFINE c == chReq[r].item
  <1>1. /\ chReq[r].pc = "deleteWrite" /\ c \in Things
        /\ \A s \in Calls \ {r} : chReq[s].pc \in {"idle", "rankWrite"}
        /\ \A v \in Gamers : ~progress[<<v, c>>].exists
    BY UnderWay DEF Ch!DeleteWrite, RewardInv, RequestsInv, DeletesAlone
  <1>2. \A j \in ChallengeKeys : progress'[j] = IF j[2] = c THEN Ch!NoRow ELSE progress[j]
    BY DEF Ch!DeleteWrite, ChallengeKeys
  <1>3. \A j \in ChallengeKeys : j[2] = c => ~progress[j].exists
    BY <1>1 DEF ChallengeKeys
  <1>4. \A j \in ChallengeKeys : j[2] = c => \A kind \in Ch!Kinds : credits[kind][j] = 0
    BY <1>3 DEF RewardInv, RowsInv, Ch!RewardsAreEarned, Ch!CreditsHaveProgress, ChallengeKeys,
       ChallengeTypeInv, Ch!TypeOK
  <1>5. /\ ~Ch!NoRow.exists /\ UNCHANGED <<xp, credits, granted>>
    BY DEF Ch!NoRow, Ch!DeleteWrite
  <1>6. Ch!XpIsGranted' /\ Ch!ClaimedOnce'
    BY <1>5 DEF RewardInv, RowsInv, Ch!RewardsAreEarned, Ch!XpIsGranted, Ch!ClaimedOnce
  <1>7. Ch!CreditsHaveProgress'
    BY <1>2, <1>4, <1>5 DEF RewardInv, RowsInv, Ch!RewardsAreEarned, Ch!CreditsHaveProgress,
       ChallengeKeys
  <1>8. ClaimsAreMarked' /\ RowsAreSubmitted'
    BY <1>2, <1>4, <1>5 DEF RewardInv, RowsInv, ClaimsAreMarked, RowsAreSubmitted, Ch!Kinds
  <1>9. RowsInv'
    BY <1>6, <1>7, <1>8 DEF RowsInv, Ch!RewardsAreEarned
  <1> QED BY <1>1, <1>9, FinishKeeps DEF Ch!DeleteWrite, RewardInv, ClaimPcs

LEMMA RewardStep ==
    ASSUME Rewards \subseteq Nat, Env \cap {"claimRace", "deleteRace"} = {},
           ChallengeTypeInv, RewardInv, [Ch!Next]_(Ch!vars)
    PROVE  RewardInv'
  <1>0. "claimRace" \notin Env /\ "deleteRace" \notin Env
    OBVIOUS
  <1>1. ASSUME NEW r \in Calls, NEW u \in Gamers, NEW c \in Things,
               Ch!ClaimRead(r, u, c) \/ Ch!SubmitRead(r, u, c) \/ Ch!ApproveRead(r, u, c)
               \/ Ch!DeleteRead(r, u, c)
        PROVE  RewardInv'
    <2> USE DEF Ch!Pcs, ClaimPcs
    <2>0. RequestsInv /\ chReq[r].pc = "idle" /\ UNCHANGED <<progress, xp, credits>>
      BY <1>1 DEF RewardInv, Ch!ClaimRead, Ch!SubmitRead, Ch!ApproveRead, Ch!DeleteRead
    <2>1. RowsInv'
      BY <1>1, RowsStand DEF RewardInv, Ch!ClaimRead, Ch!SubmitRead, Ch!ApproveRead, Ch!DeleteRead
    <2>2. CASE Ch!ClaimRead(r, u, c)
      <3>1. Ch!Begin(r, u, c, "claimCheck", xp[u], challenge[c].reward) /\ Ch!CreditsOf(u) = {}
        BY <1>0, <2>2 DEF Ch!ClaimRead
      <3> QED BY <1>0, <2>0, <2>1, <3>1, BeginKeeps DEF RewardInv
    <2>3. CASE Ch!SubmitRead(r, u, c)
      <3>1. Ch!Begin(r, u, c, "submitWrite", 0, 0)
        BY <1>0, <2>3 DEF Ch!SubmitRead
      <3> QED BY <1>0, <2>0, <2>1, <3>1, BeginKeeps DEF RewardInv
    <2>4. CASE Ch!ApproveRead(r, u, c)
      <3>1. Ch!Begin(r, u, c, "approveWrite", 0, challenge[c].reward) /\ Ch!ClaimsOf(u) = {}
        BY <1>0, <2>4 DEF Ch!ApproveRead
      <3> QED BY <1>0, <2>0, <2>1, <3>1, BeginKeeps DEF RewardInv
    <2>5. CASE Ch!DeleteRead(r, u, c)
      <3>1. Ch!Begin(r, u, c, "deleteWrite", 0, 0)
            /\ Ch!Others(r) = {} /\ \A v \in Gamers : ~progress[<<v, c>>].exists
        BY <1>0, <2>5 DEF Ch!DeleteRead
      <3> QED BY <1>0, <2>0, <2>1, <3>1, BeginKeeps DEF RewardInv
    <2> QED BY <1>1, <2>1, <2>2, <2>3, <2>4, <2>5 DEF RewardInv
  <1>2. ASSUME NEW r \in Calls, Ch!ClaimCheck(r)
        PROVE  RewardInv'
    <2>1. RowsInv'
      BY <1>2, RowsStand DEF RewardInv, Ch!ClaimCheck
    <2>2. CASE Ch!Finish(r)
      <3>1. RequestsInv /\ UNCHANGED <<progress, xp, credits>>
        BY <1>2 DEF RewardInv, Ch!ClaimCheck
      <3>2. \A s \in Calls \ {r} : chReq[s].pc # "deleteWrite"
        BY <1>2, <3>1 DEF Ch!ClaimCheck, RequestsInv, DeletesAlone
      <3> QED BY <2>1, <2>2, <3>1, <3>2, FinishKeeps DEF RewardInv
    <2>3. CASE Ch!Claimable(progress[Ch!Key(r)]) /\ chReq' = [chReq EXCEPT ![r].pc = "claimWrite"]
      <3>1. /\ chReq'[r].pc = "claimWrite" /\ chReq'[r].user = chReq[r].user
            /\ chReq'[r].item = chReq[r].item /\ chReq'[r].xp = chReq[r].xp
            /\ \A s \in Calls \ {r} : chReq'[s] = chReq[s]
        BY <2>3 DEF ChallengeTypeInv, Ch!TypeOK
      <3>2. Ch!Key(r) \in ChallengeKeys /\ chReq[r].pc = "claimCheck" /\ ~progress[Ch!Key(r)].isClaimed
        BY <1>2, <2>3, UnderWay DEF Ch!ClaimCheck, Ch!Claimable, ChallengeKeys
      <3>3. credits["claim"][Ch!Key(r)] = 0
        BY <3>2 DEF RewardInv, RowsInv, ClaimsAreMarked, ChallengeTypeInv, Ch!TypeOK, Ch!Kinds,
           ChallengeKeys
      <3>4. ClaimsAlone' /\ XpStands'
        BY <1>2, <3>1, <3>2 DEF Ch!ClaimCheck, RewardInv, RequestsInv, ClaimsAlone, XpStands,
           ClaimPcs, CreditPcs
      <3>5. NotClaimedYet'
        BY <1>2, <3>1, <3>3 DEF Ch!ClaimCheck, RewardInv, RequestsInv, NotClaimedYet, Ch!Key
      <3>6. DeletesAlone'
        BY <1>2, <3>1, <3>2 DEF Ch!ClaimCheck, RewardInv, RequestsInv, DeletesAlone
      <3> QED BY <2>1, <3>4, <3>5, <3>6 DEF RewardInv, RequestsInv
    <2> QED BY <1>2, <2>1, <2>2, <2>3 DEF Ch!ClaimCheck, RewardInv
  <1>3. ASSUME NEW r \in Calls, Ch!Throw(r)
        PROVE  RewardInv'
    <2>1. RowsInv'
      BY <1>3, RowsStand DEF RewardInv, Ch!Throw
    <2> QED BY <1>3, <2>1, FinishKeeps DEF RewardInv, Ch!Throw, RequestsInv, DeletesAlone
  <1>4. ASSUME NEW c \in Things, Ch!CreateChallenge(c) \/ Ch!UpdateChallenge(c)
        PROVE  RewardInv'
    <2>1. UNCHANGED <<progress, xp, credits, granted, chReq>>
      BY <1>4 DEF Ch!CreateChallenge, Ch!UpdateChallenge
    <2> QED BY <2>1, RowsStand DEF RewardInv, RequestsInv, ClaimsAlone, XpStands, NotClaimedYet,
               DeletesAlone, Ch!Key
  <1>5. CASE UNCHANGED Ch!vars
    BY <1>5, RowsStand DEF Ch!vars, RewardInv, RequestsInv, ClaimsAlone, XpStands, NotClaimedYet,
       DeletesAlone, Ch!Key
  <1>6. ASSUME NEW r \in Calls, NEW u \in Gamers, Ch!RankRead(r, u)
        PROVE  RewardInv'
    <2>1. /\ chReq'[r].pc = "rankWrite" /\ chReq[r].pc = "idle"
          /\ \A s \in Calls \ {r} : chReq'[s] = chReq[s]
          /\ UNCHANGED <<progress, xp, credits, granted>>
      BY <1>6 DEF Ch!RankRead, ChallengeTypeInv, Ch!TypeOK
    <2>2. RequestsInv'
      BY <2>1 DEF RewardInv, RequestsInv, ClaimsAlone, XpStands, NotClaimedYet, DeletesAlone,
         ClaimPcs, CreditPcs, Ch!Key
    <2> QED BY <2>1, <2>2, RowsStand DEF RewardInv
  <1>7. ASSUME NEW r \in Calls, Ch!RankWrite(r)
        PROVE  RewardInv'
    <2>1. RowsInv' /\ UNCHANGED <<progress, xp, credits>> /\ Ch!Finish(r)
      BY <1>7, RowsStand DEF RewardInv, Ch!RankWrite
    <2>2. RequestsInv'
      BY <2>1, FinishKeeps DEF RewardInv, RequestsInv, DeletesAlone
    <2> QED BY <2>1, <2>2 DEF RewardInv
  <1> QED
    BY <1>1, <1>2, <1>3, <1>4, <1>5, <1>6, <1>7, ClaimPays, ApprovalPays, SubmissionKeeps, RejectionKeeps,
       DeletionKeeps DEF Ch!Next

LEMMA RewardInit == Ch!Init => RewardInv
  <1> SUFFICES ASSUME Ch!Init PROVE RewardInv
    OBVIOUS
  <1>1. RequestsInv
    BY DEF Ch!Init, Ch!NoRequest, RequestsInv, ClaimsAlone, XpStands, NotClaimedYet, DeletesAlone,
       ClaimPcs
  <1>2. RowsInv
    BY DEF Ch!Init, Ch!NoRow, RowsInv, Ch!RewardsAreEarned, Ch!XpIsGranted, Ch!ClaimedOnce,
       Ch!CreditsHaveProgress,
           ClaimsAreMarked, RowsAreSubmitted, ChallengeKeys, Ch!Kinds
  <1> QED BY <1>1, <1>2 DEF RewardInv

\* As long as a claim is the only credit of its player that is under way, and a deletion the
\* only request, a player has exactly the XP of the rewards granted to him, each claimed at
\* most once and for a challenge he has submitted a proof for.
THEOREM EarnedOnly ==
    ASSUME Rewards \subseteq Nat, Env \cap {"claimRace", "deleteRace"} = {}
    PROVE  (Ch!Spec => []Ch!RewardsAreEarned) /\ (SpecAll => []RewardsAreEarned)
  <1>1. Ch!Init => RewardInv
    BY RewardInit
  <1>2. ChallengeTypeInv /\ RewardInv /\ [Ch!Next]_(Ch!vars) => RewardInv'
    BY RewardStep
  <1>3. RewardInv => Ch!RewardsAreEarned
    BY DEF RewardInv, RowsInv
  <1>4. Ch!Spec => []Ch!RewardsAreEarned
    BY <1>1, <1>2, <1>3, ChallengesTyped, PTL DEF Ch!Spec
  <1> QED BY <1>4, EachServiceRuns, PTL DEF RewardsAreEarned

-----------------------------------------------------------------------------
(* Device tokens and notices                                                 *)

DeviceRequest == [at : No!DeviceSteps, user : Users, token : Things]
SendRequest == [at : No!SendSteps, user : Users, tokens : SUBSET Things, failed : SUBSET Things,
                gone : SUBSET Things]

NoticeTypeInv ==
    /\ row \in [Things -> Users \cup {No!None}] /\ fcm \in [Users -> Things \cup {No!None}]
    /\ holder \in [Things -> Users \cup {No!None}] /\ dead \subseteq Things
    /\ notice \in [Calls -> No!PushStatus] /\ reached \in [Calls -> SUBSET Things]
    /\ noReq \in [Calls -> {No!Idle} \cup DeviceRequest \cup SendRequest]
    /\ \A r \in Calls : noReq[r].at \in No!SendSteps =>
           noReq[r].gone \subseteq noReq[r].failed /\ noReq[r].failed \subseteq noReq[r].tokens

-----------------------------------------------------------------------------
(* The shapes of a request                                                   *)

LEMMA Shapes ==
    /\ No!Idle.at = "idle" /\ "idle" \notin No!DeviceSteps /\ "idle" \notin No!SendSteps
    /\ No!DeviceSteps \cap No!SendSteps = {}
    /\ \A q \in DeviceRequest : q.at \in No!DeviceSteps /\ q.user \in Users /\ q.token \in Things
    /\ \A q \in SendRequest : /\ q.at \in No!SendSteps /\ q.user \in Users /\ q.tokens \subseteq Things
                              /\ q.failed \subseteq Things /\ q.gone \subseteq Things
  BY DEF No!Idle, DeviceRequest, SendRequest, No!DeviceSteps, No!SendSteps

LEMMA ShapeOf ==
    ASSUME NoticeTypeInv, NEW r \in Calls
    PROVE  /\ noReq[r].at \in No!DeviceSteps => noReq[r] \in DeviceRequest
           /\ noReq[r].at \in No!SendSteps => noReq[r] \in SendRequest
  <1>1. noReq[r] \in {No!Idle} \cup DeviceRequest \cup SendRequest
    BY DEF NoticeTypeInv
  <1> QED BY <1>1, Shapes

LEMMA DeviceFields ==
    ASSUME NEW a, NEW u, NEW t
    PROVE  /\ No!Device(a, u, t).at = a /\ No!Device(a, u, t).user = u /\ No!Device(a, u, t).token = t
           /\ a \in No!DeviceSteps /\ u \in Users /\ t \in Things => No!Device(a, u, t) \in DeviceRequest
  BY DEF No!Device, DeviceRequest

LEMMA SendFields ==
    ASSUME NEW a, NEW u, NEW ts, NEW fs, NEW gs
    PROVE  LET q == No!Send(a, u, ts, fs, gs)
           IN  /\ q.at = a /\ q.user = u /\ q.tokens = ts /\ q.failed = fs /\ q.gone = gs
               /\ a \in No!SendSteps /\ u \in Users /\ ts \subseteq Things /\ fs \subseteq Things
                  /\ gs \subseteq Things => q \in SendRequest
  BY DEF No!Send, SendRequest

LEMMA DeviceMoves ==
    ASSUME NEW q \in DeviceRequest, NEW a \in No!DeviceSteps
    PROVE  /\ [q EXCEPT !.at = a] \in DeviceRequest /\ [q EXCEPT !.at = a].at = a
           /\ [q EXCEPT !.at = a].user = q.user /\ [q EXCEPT !.at = a].token = q.token
  BY DEF DeviceRequest

LEMMA SendMoves ==
    ASSUME NEW q \in SendRequest, NEW a \in No!SendSteps
    PROVE  /\ [q EXCEPT !.at = a] \in SendRequest /\ [q EXCEPT !.at = a].at = a
           /\ [q EXCEPT !.at = a].user = q.user /\ [q EXCEPT !.at = a].tokens = q.tokens
           /\ [q EXCEPT !.at = a].failed = q.failed /\ [q EXCEPT !.at = a].gone = q.gone
  BY DEF SendRequest

\* What a step of request r leaves behind of it: the record n, and the others as they were.
Becomes(r, n) == noReq'[r] = n /\ \A s \in Calls \ {r} : noReq'[s] = noReq[s]

LEMMA Becoming ==
    ASSUME NoticeTypeInv, NEW r \in Calls, NEW n, noReq' = [noReq EXCEPT ![r] = n]
    PROVE  Becomes(r, n)
  BY DEF NoticeTypeInv, Becomes

\* A request of either shape may be replaced by one of either shape.
LEMMA RequestTypes ==
    ASSUME NoticeTypeInv, NEW r \in Calls, NEW n \in {No!Idle} \cup DeviceRequest \cup SendRequest,
           noReq' = [noReq EXCEPT ![r] = n],
           n.at \in No!SendSteps => n.gone \subseteq n.failed /\ n.failed \subseteq n.tokens
    PROVE  /\ noReq' \in [Calls -> {No!Idle} \cup DeviceRequest \cup SendRequest]
           /\ \A s \in Calls : noReq'[s].at \in No!SendSteps =>
                  noReq'[s].gone \subseteq noReq'[s].failed /\ noReq'[s].failed \subseteq noReq'[s].tokens
  <1>1. noReq' \in [Calls -> {No!Idle} \cup DeviceRequest \cup SendRequest]
    BY DEF NoticeTypeInv
  <1>2. Becomes(r, n)
    BY Becoming
  <1> QED BY <1>1, <1>2 DEF NoticeTypeInv, Becomes

-----------------------------------------------------------------------------
(* The steps of each kind                                                    *)

Phones(r) == \/ \E u \in Users : \E t \in Things : No!LogIn(r, u, t)
             \/ \E t \in Things : No!LogOut(r, t)
Devices(r) == No!SaveRow(r) \/ No!SaveUser(r) \/ No!DeleteRow(r) \/ No!DeleteRead(r) \/ No!DeleteUser(r)
Sends(r) == \/ \E u \in Users : No!CreateNotice(r, u)
            \/ No!SendRows(r) \/ No!SendFallback(r) \/ No!Throw(r)
            \/ \E failed \in SUBSET Things : No!Push(r, failed)
            \/ No!Purge(r) \/ No!PurgeUsers(r) \/ No!SetStatus(r)

LEMMA NoticeNextParts ==
    No!Next <=> \/ \E t \in Things : No!Uninstall(t)
             \/ \E r \in Calls : Phones(r) \/ Devices(r) \/ Sends(r)
  BY DEF No!Next, Phones, Devices, Sends

\* A request begins or ends, or its step moves on.
LEMMA NewRequest ==
    ASSUME NoticeTypeInv, NEW r \in Calls, NEW n \in {No!Idle} \cup DeviceRequest \cup SendRequest,
           noReq' = [noReq EXCEPT ![r] = n],
           n.at \in No!SendSteps => n.gone \subseteq n.failed /\ n.failed \subseteq n.tokens
    PROVE  /\ Becomes(r, n)
           /\ noReq' \in [Calls -> {No!Idle} \cup DeviceRequest \cup SendRequest]
           /\ \A s \in Calls : noReq'[s].at \in No!SendSteps =>
                  noReq'[s].gone \subseteq noReq'[s].failed /\ noReq'[s].failed \subseteq noReq'[s].tokens
  BY Becoming, RequestTypes

LEMMA EndsIdle ==
    ASSUME NoticeTypeInv, NEW r \in Calls, noReq' = [noReq EXCEPT ![r] = No!Idle]
    PROVE  /\ Becomes(r, No!Idle)
           /\ noReq' \in [Calls -> {No!Idle} \cup DeviceRequest \cup SendRequest]
           /\ \A s \in Calls : noReq'[s].at \in No!SendSteps =>
                  noReq'[s].gone \subseteq noReq'[s].failed /\ noReq'[s].failed \subseteq noReq'[s].tokens
  <1>1. No!Idle.at \notin No!SendSteps
    BY Shapes
  <1> QED BY <1>1, NewRequest

LEMMA DeviceGoesOn ==
    ASSUME NoticeTypeInv, NEW r \in Calls, NEW a \in No!DeviceSteps, noReq[r].at \in No!DeviceSteps,
           noReq' = [noReq EXCEPT ![r].at = a]
    PROVE  /\ noReq[r] \in DeviceRequest /\ noReq'[r] \in DeviceRequest
           /\ noReq'[r].at = a /\ noReq'[r].user = noReq[r].user /\ noReq'[r].token = noReq[r].token
           /\ \A s \in Calls \ {r} : noReq'[s] = noReq[s]
           /\ noReq' \in [Calls -> {No!Idle} \cup DeviceRequest \cup SendRequest]
           /\ \A s \in Calls : noReq'[s].at \in No!SendSteps =>
                  noReq'[s].gone \subseteq noReq'[s].failed /\ noReq'[s].failed \subseteq noReq'[s].tokens
  <1> DEFINE n == [noReq[r] EXCEPT !.at = a]
  <1>1. noReq' = [noReq EXCEPT ![r] = n]
    OBVIOUS
  <1>2. noReq[r] \in DeviceRequest
    BY ShapeOf
  <1>3. n \in DeviceRequest /\ n.at = a /\ n.user = noReq[r].user /\ n.token = noReq[r].token
    BY <1>2, DeviceMoves
  <1>4. n.at \notin No!SendSteps
    BY <1>3, Shapes
  <1> HIDE DEF n
  <1>5. /\ Becomes(r, n)
        /\ noReq' \in [Calls -> {No!Idle} \cup DeviceRequest \cup SendRequest]
        /\ \A s \in Calls : noReq'[s].at \in No!SendSteps =>
               noReq'[s].gone \subseteq noReq'[s].failed /\ noReq'[s].failed \subseteq noReq'[s].tokens
    BY <1>1, <1>3, <1>4, NewRequest
  <1> QED BY <1>2, <1>3, <1>5 DEF Becomes

LEMMA SendGoesOn ==
    ASSUME NoticeTypeInv, NEW r \in Calls, NEW a \in No!SendSteps, noReq[r].at \in No!SendSteps,
           noReq' = [noReq EXCEPT ![r].at = a]
    PROVE  /\ noReq[r] \in SendRequest /\ noReq'[r] \in SendRequest
           /\ noReq'[r].at = a /\ noReq'[r].user = noReq[r].user /\ noReq'[r].tokens = noReq[r].tokens
           /\ noReq'[r].failed = noReq[r].failed /\ noReq'[r].gone = noReq[r].gone
           /\ \A s \in Calls \ {r} : noReq'[s] = noReq[s]
           /\ noReq' \in [Calls -> {No!Idle} \cup DeviceRequest \cup SendRequest]
           /\ \A s \in Calls : noReq'[s].at \in No!SendSteps =>
                  noReq'[s].gone \subseteq noReq'[s].failed /\ noReq'[s].failed \subseteq noReq'[s].tokens
  <1> DEFINE n == [noReq[r] EXCEPT !.at = a]
  <1>1. noReq' = [noReq EXCEPT ![r] = n]
    OBVIOUS
  <1>2. noReq[r] \in SendRequest
    BY ShapeOf
  <1>3. /\ n \in SendRequest /\ n.at = a /\ n.user = noReq[r].user /\ n.tokens = noReq[r].tokens
        /\ n.failed = noReq[r].failed /\ n.gone = noReq[r].gone
    BY <1>2, SendMoves
  <1>4. n.gone \subseteq n.failed /\ n.failed \subseteq n.tokens
    BY <1>3 DEF NoticeTypeInv
  <1> HIDE DEF n
  <1>5. /\ Becomes(r, n)
        /\ noReq' \in [Calls -> {No!Idle} \cup DeviceRequest \cup SendRequest]
        /\ \A s \in Calls : noReq'[s].at \in No!SendSteps =>
               noReq'[s].gone \subseteq noReq'[s].failed /\ noReq'[s].failed \subseteq noReq'[s].tokens
    BY <1>1, <1>3, <1>4, NewRequest
  <1> QED BY <1>2, <1>3, <1>5 DEF Becomes

-----------------------------------------------------------------------------
(* Type correctness                                                          *)

LEMMA PhonesTyped ==
    ASSUME NoticeTypeInv, NEW r \in Calls, Phones(r)
    PROVE  NoticeTypeInv'
  <1>1. ASSUME NEW u \in Users, NEW t \in Things, No!LogIn(r, u, t)
        PROVE  NoticeTypeInv'
    <2>1. No!Device("saveRow", u, t) \in DeviceRequest /\ No!Device("saveRow", u, t).at \notin No!SendSteps
      BY DeviceFields, Shapes DEF No!DeviceSteps
    <2>2. noReq' = [noReq EXCEPT ![r] = No!Device("saveRow", u, t)]
      BY <1>1 DEF No!LogIn
    <2>3. holder' \in [Things -> Users \cup {No!None}] /\ UNCHANGED <<row, fcm, dead, notice,
    reached>>
      BY <1>1 DEF No!LogIn, NoticeTypeInv, No!tables, No!sent
    <2> QED BY <2>1, <2>2, <2>3, NewRequest DEF NoticeTypeInv
  <1>2. ASSUME NEW t \in Things, No!LogOut(r, t)
        PROVE  NoticeTypeInv'
    <2>0. holder[t] \in Users
      BY <1>2 DEF No!LogOut, NoticeTypeInv
    <2>1. /\ No!Device("deleteRow", holder[t], t) \in DeviceRequest
          /\ No!Device("deleteRow", holder[t], t).at \notin No!SendSteps
      BY <2>0, DeviceFields, Shapes DEF No!DeviceSteps
    <2>2. noReq' = [noReq EXCEPT ![r] = No!Device("deleteRow", holder[t], t)]
      BY <1>2 DEF No!LogOut
    <2>3. holder' \in [Things -> Users \cup {No!None}] /\ UNCHANGED <<row, fcm, dead, notice,
    reached>>
      BY <1>2 DEF No!LogOut, NoticeTypeInv, No!tables, No!sent
    <2> QED BY <2>1, <2>2, <2>3, NewRequest DEF NoticeTypeInv
  <1> QED BY <1>1, <1>2 DEF Phones

LEMMA DevicesTyped ==
    ASSUME NoticeTypeInv, NEW r \in Calls, Devices(r)
    PROVE  NoticeTypeInv'
  <1>0. noReq[r] \in DeviceRequest /\ noReq[r].user \in Users /\ noReq[r].token \in Things
    BY ShapeOf, Shapes DEF Devices, No!SaveRow, No!SaveUser, No!DeleteRow, No!DeleteRead,
       No!DeleteUser, No!DeviceSteps
  <1>1. ASSUME \/ No!SaveRow(r) \/ No!SaveUser(r) \/ No!DeleteRow(r) \/ No!DeleteRead(r) \/ No!DeleteUser(r)
        PROVE  /\ row' \in [Things -> Users \cup {No!None}] /\ fcm' \in [Users -> Things \cup {No!None}]
               /\ UNCHANGED <<holder, dead, notice, reached>>
    BY <1>0, <1>1 DEF No!SaveRow, No!SaveUser, No!DeleteRow, No!DeleteRead, No!DeleteUser,
       NoticeTypeInv, No!tables, No!phones, No!sent
  <1>2. CASE No!SaveRow(r)
    BY <1>1, <1>2, DeviceGoesOn DEF No!SaveRow, No!DeviceSteps, NoticeTypeInv
  <1>3. CASE No!DeleteRow(r)
    BY <1>1, <1>3, DeviceGoesOn DEF No!DeleteRow, No!DeviceSteps, NoticeTypeInv
  <1>4. CASE No!DeleteRead(r)
    <2>1. CASE noReq' = [noReq EXCEPT ![r].at = "deleteUser"]
      BY <1>1, <1>4, <2>1, DeviceGoesOn DEF No!DeleteRead, No!DeviceSteps, NoticeTypeInv
    <2>2. CASE noReq' = [noReq EXCEPT ![r] = No!Idle]
      BY <1>1, <1>4, <2>2, EndsIdle DEF NoticeTypeInv
    <2> QED BY <1>4, <2>1, <2>2 DEF No!DeleteRead
  <1>5. CASE No!SaveUser(r) \/ No!DeleteUser(r)
    BY <1>1, <1>5, EndsIdle DEF No!SaveUser, No!DeleteUser, NoticeTypeInv
  <1> QED BY <1>2, <1>3, <1>4, <1>5 DEF Devices

LEMMA SendsTyped ==
    ASSUME NoticeTypeInv, NEW r \in Calls, Sends(r)
    PROVE  NoticeTypeInv'
  <1>1. ASSUME NEW u \in Users, No!CreateNotice(r, u)
        PROVE  NoticeTypeInv'
    <2> DEFINE n == No!Send("rows", u, {}, {}, {})
    <2>1. n \in SendRequest /\ n.gone = {} /\ n.failed = {}
      BY SendFields DEF No!SendSteps
    <2>2. noReq' = [noReq EXCEPT ![r] = n]
      BY <1>1 DEF No!CreateNotice
    <2>3. /\ notice' \in [Calls -> No!PushStatus] /\ reached' \in [Calls -> SUBSET Things]
          /\ UNCHANGED <<row, fcm, holder, dead>>
      BY <1>1 DEF No!CreateNotice, NoticeTypeInv, No!PushStatus, No!tables, No!phones
    <2> HIDE DEF n
    <2> QED BY <2>1, <2>2, <2>3, NewRequest DEF NoticeTypeInv
  <1>2. CASE No!SendRows(r)
    <2> DEFINE ts == {t \in Things : row[t] = noReq[r].user}
               n == No!Send(IF ts = {} THEN "fallback" ELSE "push", noReq[r].user, ts, {}, {})
    <2>0. noReq[r].user \in Users
      BY <1>2, ShapeOf, Shapes DEF No!SendRows, No!SendSteps
    <2>1. n \in SendRequest /\ n.gone = {} /\ n.failed = {}
      BY <2>0, SendFields DEF No!SendSteps
    <2>2. noReq' = [noReq EXCEPT ![r] = n] /\ UNCHANGED <<row, fcm, holder, dead, notice, reached>>
      BY <1>2 DEF No!SendRows, No!tables, No!phones, No!sent
    <2> HIDE DEF n
    <2> QED BY <2>1, <2>2, NewRequest DEF NoticeTypeInv
  <1>3. CASE No!SendFallback(r)
    <2> DEFINE ts == {fcm[noReq[r].user]} \ {No!None}
               n == No!Send("push", noReq[r].user, ts, {}, {})
    <2>0. noReq[r].user \in Users /\ ts \subseteq Things
      BY <1>3, ShapeOf, Shapes DEF No!SendFallback, No!SendSteps, NoticeTypeInv
    <2>1. n \in SendRequest /\ n.gone = {} /\ n.failed = {}
      BY <2>0, SendFields DEF No!SendSteps
    <2>2. /\ noReq' = [noReq EXCEPT ![r] = n] \/ noReq' = [noReq EXCEPT ![r] = No!Idle]
          /\ notice' \in [Calls -> No!PushStatus] /\ UNCHANGED <<row, fcm, holder, dead, reached>>
      BY <1>3 DEF No!SendFallback, No!tables, No!phones, NoticeTypeInv, No!PushStatus
    <2> HIDE DEF n
    <2>3. CASE noReq' = [noReq EXCEPT ![r] = n]
      BY <2>1, <2>2, <2>3, NewRequest DEF NoticeTypeInv
    <2>4. CASE noReq' = [noReq EXCEPT ![r] = No!Idle]
      BY <2>2, <2>4, EndsIdle DEF NoticeTypeInv
    <2> QED BY <2>2, <2>3, <2>4
  <1>4. CASE No!Throw(r)
    BY <1>4, EndsIdle DEF No!Throw, NoticeTypeInv, No!tables, No!phones, No!sent
  <1>5. ASSUME NEW failed \in SUBSET Things, No!Push(r, failed)
        PROVE  NoticeTypeInv'
    <2> DEFINE n == No!Send("purge", noReq[r].user, noReq[r].tokens, failed, No!DeadTokens(failed))
    <2>0. noReq[r].user \in Users /\ noReq[r].tokens \subseteq Things /\ No!DeadTokens(failed) \subseteq failed
      BY <1>5, ShapeOf, Shapes DEF No!Push, No!SendSteps, No!DeadTokens
    <2>1. /\ n \in SendRequest /\ n.gone = No!DeadTokens(failed) /\ n.failed = failed
          /\ n.tokens = noReq[r].tokens
      BY <2>0, SendFields DEF No!SendSteps
    <2>2. noReq' = [noReq EXCEPT ![r] = n] /\ UNCHANGED <<row, fcm, holder, dead, notice>>
      BY <1>5 DEF No!Push, No!tables, No!phones
    <2>3. failed \subseteq noReq[r].tokens /\ reached' \in [Calls -> SUBSET Things]
      BY <1>5, <2>0 DEF No!Push, NoticeTypeInv
    <2> HIDE DEF n
    <2> QED BY <2>0, <2>1, <2>2, <2>3, NewRequest DEF NoticeTypeInv
  <1>6. CASE No!Purge(r)
    <2>1. row' \in [Things -> Users \cup {No!None}] /\ UNCHANGED <<fcm, holder, dead, notice,
    reached>>
      BY <1>6 DEF No!Purge, NoticeTypeInv, No!phones, No!sent
    <2> QED BY <1>6, <2>1, SendGoesOn DEF No!Purge, No!SendSteps, NoticeTypeInv
  <1>7. CASE No!PurgeUsers(r)
    <2>1. fcm' \in [Users -> Things \cup {No!None}] /\ UNCHANGED <<row, holder, dead, notice,
    reached>>
      BY <1>7 DEF No!PurgeUsers, NoticeTypeInv, No!phones, No!sent
    <2> QED BY <1>7, <2>1, SendGoesOn DEF No!PurgeUsers, No!SendSteps, NoticeTypeInv
  <1>8. CASE No!SetStatus(r)
    <2>1. notice' \in [Calls -> No!PushStatus] /\ UNCHANGED <<row, fcm, holder, dead, reached>>
      BY <1>8 DEF No!SetStatus, No!Status, No!PushStatus, NoticeTypeInv, No!phones, No!tables
    <2> QED BY <1>8, <2>1, EndsIdle DEF No!SetStatus, NoticeTypeInv
  <1> QED BY <1>1, <1>2, <1>3, <1>4, <1>5, <1>6, <1>7, <1>8 DEF Sends

LEMMA TypesHold == No!Spec => []NoticeTypeInv
  <1>1. No!Init => NoticeTypeInv
    BY Shapes DEF No!Init, NoticeTypeInv, No!PushStatus
  <1>2. NoticeTypeInv /\ [No!Next]_(No!vars) => NoticeTypeInv'
    <2> SUFFICES ASSUME NoticeTypeInv, [No!Next]_(No!vars) PROVE NoticeTypeInv'
      OBVIOUS
    <2>1. CASE UNCHANGED No!vars
      BY <2>1 DEF No!vars, NoticeTypeInv
    <2>2. ASSUME NEW t \in Things, No!Uninstall(t)
          PROVE  NoticeTypeInv'
      BY <2>2 DEF No!Uninstall, NoticeTypeInv, No!tables, No!sent
    <2> QED BY <2>1, <2>2, NoticeNextParts, PhonesTyped, DevicesTyped, SendsTyped
  <1> QED BY <1>1, <1>2, PTL DEF No!Spec

\* The tables, the phones and the requests keep their types.
THEOREM NotificationsTyped == No!Spec => []No!TypeOK
  <1>1. NoticeTypeInv => No!TypeOK
    <2> SUFFICES ASSUME NoticeTypeInv, NEW r \in Calls
                 PROVE  \/ noReq[r] = No!Idle
                        \/ noReq[r].at \in No!DeviceSteps /\ noReq[r].user \in Users /\ noReq[r].token \in Things
                        \/ /\ noReq[r].at \in No!SendSteps /\ noReq[r].user \in Users
                           /\ noReq[r].gone \subseteq noReq[r].failed
                           /\ noReq[r].failed \subseteq noReq[r].tokens
                           /\ noReq[r].tokens \subseteq Things
      BY DEF No!TypeOK, NoticeTypeInv
    <2>1. noReq[r] \in {No!Idle} \cup DeviceRequest \cup SendRequest
      BY DEF NoticeTypeInv
    <2> QED BY <2>1, Shapes DEF NoticeTypeInv
  <1> QED BY <1>1, TypesHold, PTL

-----------------------------------------------------------------------------
(* The status of a notice                                                    *)

Before == {"rows", "fallback", "push"}
After == {"purge", "purgeUsers", "status"}

\* Until Firebase has answered nobody is reached; from then on the answer stands.
ReachedInv ==
    \A r \in Calls :
        /\ noReq[r].at \in Before => reached[r] = {}
        /\ noReq[r].at = "push" => noReq[r].tokens # {}
        /\ noReq[r].at \in After => reached[r] = noReq[r].tokens \ noReq[r].failed /\ noReq[r].tokens # {}
        /\ noReq[r].at \in No!SendSteps => notice[r] = "PENDING"

StatusInv == ReachedInv /\ No!StatusIsTrue

\* One request's step leaves what is known of the others.
LEMMA StatusFrame ==
    ASSUME StatusInv, NEW r \in Calls,
           \A s \in Calls \ {r} :
               noReq'[s] = noReq[s] /\ notice'[s] = notice[s] /\ reached'[s] = reached[s],
           /\ noReq'[r].at \in Before => reached'[r] = {}
           /\ noReq'[r].at = "push" => noReq'[r].tokens # {}
           /\ noReq'[r].at \in After => reached'[r] = noReq'[r].tokens \ noReq'[r].failed
                                      /\ noReq'[r].tokens # {}
           /\ noReq'[r].at \in No!SendSteps => notice'[r] = "PENDING"
           /\ notice'[r] \in {"SENT", "PARTIAL"} => reached'[r] # {}
           /\ notice'[r] \in {"NO_TOKEN", "FAILED"} => reached'[r] = {}
    PROVE  StatusInv'
  <1>1. ReachedInv'
    BY DEF StatusInv, ReachedInv
  <1>2. No!StatusIsTrue'
    BY DEF StatusInv, No!StatusIsTrue
  <1> QED BY <1>1, <1>2 DEF StatusInv

\* A step that changes neither notices nor what they reached, and sends nothing.
LEMMA StatusQuiet ==
    ASSUME StatusInv, NEW r \in Calls, UNCHANGED <<notice, reached>>,
           \A s \in Calls \ {r} : noReq'[s] = noReq[s], noReq'[r].at \notin No!SendSteps
    PROVE  StatusInv'
  <1>1. noReq'[r].at \notin Before /\ noReq'[r].at \notin After /\ noReq'[r].at # "push"
    BY DEF Before, After, No!SendSteps
  <1> QED BY <1>1, StatusFrame DEF StatusInv, No!StatusIsTrue

LEMMA StatusStep ==
    ASSUME NoticeTypeInv, StatusInv, [No!Next]_(No!vars)
    PROVE  StatusInv'
  <1>1. CASE UNCHANGED No!vars
    BY <1>1 DEF No!vars, StatusInv, ReachedInv, No!StatusIsTrue
  <1>2. ASSUME NEW t \in Things, No!Uninstall(t)
        PROVE  StatusInv'
    BY <1>2 DEF No!Uninstall, No!sent, StatusInv, ReachedInv, No!StatusIsTrue
  <1>3. ASSUME NEW r \in Calls, Phones(r) \/ Devices(r) \/ No!Throw(r)
        PROVE  StatusInv'
    <2>1. UNCHANGED <<notice, reached>>
      BY <1>3 DEF Phones, No!LogIn, No!LogOut, Devices, No!SaveRow, No!SaveUser, No!DeleteRow,
         No!DeleteRead,
                  No!DeleteUser, No!Throw, No!sent
    <2>2. \/ \E u \in Users, t \in Things : noReq' = [noReq EXCEPT ![r] = No!Device("saveRow", u, t)]
          \/ \E u \in Users, t \in Things : noReq' = [noReq EXCEPT ![r] = No!Device("deleteRow", u, t)]
          \/ noReq' = [noReq EXCEPT ![r] = No!Idle]
          \/ noReq[r].at \in No!DeviceSteps /\ \E a \in No!DeviceSteps : noReq' = [noReq EXCEPT ![r].at = a]
      BY <1>3 DEF Phones, No!LogIn, No!LogOut, Devices, No!SaveRow, No!SaveUser, No!DeleteRow,
         No!DeleteRead,
                  No!DeleteUser, No!Throw, No!DeviceSteps, NoticeTypeInv
    <2>3. ASSUME NEW u \in Users, NEW t \in Things, NEW a \in {"saveRow", "deleteRow"},
                 noReq' = [noReq EXCEPT ![r] = No!Device(a, u, t)]
          PROVE  StatusInv'
      <3>1. No!Device(a, u, t).at \notin No!SendSteps
        BY DeviceFields DEF No!SendSteps
      <3> QED BY <2>1, <2>3, <3>1, Becoming, StatusQuiet DEF Becomes
    <2>4. CASE noReq' = [noReq EXCEPT ![r] = No!Idle]
      <3>1. Becomes(r, No!Idle)
        BY <2>4, Becoming
      <3>2. noReq'[r].at \notin No!SendSteps
        BY <3>1, Shapes DEF Becomes
      <3> QED BY <2>1, <3>1, <3>2, StatusQuiet DEF Becomes
    <2>5. ASSUME NEW a \in No!DeviceSteps, noReq[r].at \in No!DeviceSteps,
    noReq' = [noReq EXCEPT ![r].at = a]
          PROVE  StatusInv'
      <3>1. noReq'[r].at \notin No!SendSteps /\ \A s \in Calls \ {r} : noReq'[s] = noReq[s]
        BY <2>5, DeviceGoesOn, Shapes
      <3> QED BY <2>1, <3>1, StatusQuiet
    <2> QED BY <2>2, <2>3, <2>4, <2>5
  <1>4. ASSUME NEW r \in Calls, NEW u \in Users, No!CreateNotice(r, u)
        PROVE  StatusInv'
    <2> DEFINE n == No!Send("rows", u, {}, {}, {})
    <2>1. n.at = "rows"
      BY SendFields
    <2>2. Becomes(r, n)
      BY <1>4, Becoming DEF No!CreateNotice
    <2>3. /\ notice'[r] = "PENDING" /\ reached'[r] = {}
          /\ \A s \in Calls \ {r} : notice'[s] = notice[s] /\ reached'[s] = reached[s]
      BY <1>4 DEF No!CreateNotice, NoticeTypeInv
    <2> HIDE DEF n
    <2> QED BY <2>1, <2>2, <2>3, StatusFrame DEF Becomes, After
  <1>5. ASSUME NEW r \in Calls, No!SendRows(r)
        PROVE  StatusInv'
    <2> DEFINE ts == {t \in Things : row[t] = noReq[r].user}
               a == IF ts = {} THEN "fallback" ELSE "push"
               n == No!Send(a, noReq[r].user, ts, {}, {})
    <2>1. n.at = a /\ n.tokens = ts
      BY SendFields
    <2>2. Becomes(r, n) /\ UNCHANGED <<notice, reached>> /\ noReq[r].at = "rows"
      BY <1>5, Becoming DEF No!SendRows, No!sent
    <2>3. reached[r] = {} /\ notice[r] = "PENDING"
      BY <2>2 DEF StatusInv, ReachedInv, Before, No!SendSteps
    <2> HIDE DEF n
    <2> QED BY <2>1, <2>2, <2>3, StatusFrame DEF Becomes, After
  <1>6. ASSUME NEW r \in Calls, No!SendFallback(r)
        PROVE  StatusInv'
    <2> DEFINE ts == {fcm[noReq[r].user]} \ {No!None}
               n == No!Send("push", noReq[r].user, ts, {}, {})
    <2>1. n.at = "push" /\ n.tokens = ts
      BY SendFields
    <2>2. /\ noReq[r].at = "fallback" /\ UNCHANGED reached
          /\ \/ ts # {} /\ noReq' = [noReq EXCEPT ![r] = n] /\ UNCHANGED notice
             \/ noReq' = [noReq EXCEPT ![r] = No!Idle] /\ notice' = [notice EXCEPT ![r] = "NO_TOKEN"]
      BY <1>6 DEF No!SendFallback
    <2>3. reached[r] = {} /\ notice[r] = "PENDING"
      BY <2>2 DEF StatusInv, ReachedInv, Before, No!SendSteps
    <2> HIDE DEF n
    <2>4. CASE ts # {} /\ noReq' = [noReq EXCEPT ![r] = n] /\ UNCHANGED notice
      <3>1. Becomes(r, n)
        BY <2>4, Becoming
      <3> QED BY <2>1, <2>2, <2>3, <2>4, <3>1, StatusFrame DEF Becomes, After
    <2>5. CASE noReq' = [noReq EXCEPT ![r] = No!Idle] /\ notice' = [notice EXCEPT ![r] = "NO_TOKEN"]
      <3>1. Becomes(r, No!Idle)
        BY <2>5, Becoming
      <3>2. notice'[r] = "NO_TOKEN" /\ \A s \in Calls \ {r} : notice'[s] = notice[s]
        BY <2>5 DEF NoticeTypeInv
      <3>3. /\ noReq'[r].at \notin No!SendSteps /\ noReq'[r].at \notin Before /\ noReq'[r].at \notin After
            /\ noReq'[r].at # "push"
        BY <3>1, Shapes DEF Becomes, Before, After, No!SendSteps
      <3> QED BY <2>2, <2>3, <3>1, <3>2, <3>3, StatusFrame DEF Becomes
    <2> QED BY <2>2, <2>4, <2>5
  <1>7. ASSUME NEW r \in Calls, NEW failed \in SUBSET Things, No!Push(r, failed)
        PROVE  StatusInv'
    <2> DEFINE n == No!Send("purge", noReq[r].user, noReq[r].tokens, failed, No!DeadTokens(failed))
    <2>1. n.at = "purge" /\ n.tokens = noReq[r].tokens /\ n.failed = failed
      BY SendFields
    <2>2. Becomes(r, n) /\ UNCHANGED notice /\ noReq[r].at = "push"
      BY <1>7, Becoming DEF No!Push
    <2>3. /\ reached'[r] = noReq[r].tokens \ failed
          /\ \A s \in Calls \ {r} : reached'[s] = reached[s]
      BY <1>7 DEF No!Push, NoticeTypeInv
    <2>4. noReq[r].tokens # {} /\ notice[r] = "PENDING"
      BY <2>2 DEF StatusInv, ReachedInv, No!SendSteps
    <2> HIDE DEF n
    <2> QED BY <2>1, <2>2, <2>3, <2>4, StatusFrame DEF Becomes, Before
  <1>8. ASSUME NEW r \in Calls, NEW a \in {"purgeUsers", "status"}, noReq[r].at \in After,
               noReq' = [noReq EXCEPT ![r].at = a], UNCHANGED <<notice, reached>>
        PROVE  StatusInv'
    <2>1. /\ noReq'[r].at = a /\ noReq'[r].tokens = noReq[r].tokens /\ noReq'[r].failed = noReq[r].failed
          /\ \A s \in Calls \ {r} : noReq'[s] = noReq[s]
      BY <1>8, SendGoesOn DEF No!SendSteps, After
    <2>2. notice[r] = "PENDING" /\ reached[r] = noReq[r].tokens \ noReq[r].failed /\ noReq[r].tokens # {}
      BY <1>8 DEF StatusInv, ReachedInv, After, No!SendSteps
    <2> QED BY <1>8, <2>1, <2>2, StatusFrame DEF Before
  <1>9. ASSUME NEW r \in Calls, No!SetStatus(r)
        PROVE  StatusInv'
    <2>1. Becomes(r, No!Idle) /\ UNCHANGED reached /\ noReq[r].at = "status"
      BY <1>9, Becoming DEF No!SetStatus
    <2>2. /\ notice'[r] = No!Status(noReq[r].tokens, noReq[r].failed)
          /\ \A s \in Calls \ {r} : notice'[s] = notice[s]
      BY <1>9 DEF No!SetStatus, NoticeTypeInv
    <2>3. /\ reached[r] = noReq[r].tokens \ noReq[r].failed /\ noReq[r].tokens # {}
          /\ noReq[r].failed \subseteq noReq[r].tokens
      BY <2>1 DEF StatusInv, ReachedInv, After, NoticeTypeInv, No!SendSteps
    <2>4. /\ notice'[r] \in {"SENT", "PARTIAL"} => reached[r] # {}
          /\ notice'[r] \in {"NO_TOKEN", "FAILED"} => reached[r] = {}
      BY <2>2, <2>3 DEF No!Status
    <2>5. /\ noReq'[r].at \notin No!SendSteps /\ noReq'[r].at \notin Before /\ noReq'[r].at \notin After
          /\ noReq'[r].at # "push"
      BY <2>1, Shapes DEF Becomes, Before, After, No!SendSteps
    <2> QED BY <2>1, <2>2, <2>4, <2>5, StatusFrame DEF Becomes
  <1>10. ASSUME NEW r \in Calls, No!Purge(r) \/ No!PurgeUsers(r)
         PROVE  StatusInv'
    BY <1>8, <1>10 DEF No!Purge, No!PurgeUsers, No!sent, After
  <1> QED BY <1>1, <1>2, <1>3, <1>4, <1>5, <1>6, <1>7, <1>9, <1>10, NoticeNextParts DEF Sends

\* Whatever throws, dies or overlaps, the status a notice ends with tells whether it arrived.
THEOREM StatusTells == (No!Spec => []No!StatusIsTrue) /\ (SpecAll => []StatusIsTrue)
  <1>1. No!Init => StatusInv
    BY Shapes DEF No!Init, StatusInv, ReachedInv, No!StatusIsTrue, Before, After, No!SendSteps
  <1>2. NoticeTypeInv /\ StatusInv /\ [No!Next]_(No!vars) => StatusInv'
    BY StatusStep
  <1>3. StatusInv => No!StatusIsTrue
    BY DEF StatusInv
  <1>4. No!Spec => []No!StatusIsTrue
    BY <1>1, <1>2, <1>3, TypesHold, PTL DEF No!Spec
  <1> QED BY <1>4, EachServiceRuns, PTL DEF StatusIsTrue

-----------------------------------------------------------------------------
(* Tokens follow the phones                                                  *)

Saves == {"saveRow", "saveUser"}
Deletes == {"deleteRow", "deleteRead", "deleteUser"}

\* One request at a time is about a phone.
OneAtATime ==
    \A r, s \in Calls :
        noReq[r].at \in No!DeviceSteps /\ noReq[s].at \in No!DeviceSteps /\ noReq[r].token = noReq[s].token => r = s

\* What a request about a living phone finds there at each of its steps, with h, w and f
\* the values of holder, row and fcm.
Finds(h, w, f, at, u, t) ==
    /\ at \in Saves => h[t] = u
    /\ at \in Deletes => h[t] = No!None
    /\ at \in {"saveUser", "deleteRow"} => w[t] = u
    /\ at \in {"deleteRead", "deleteUser"} => w[t] = No!None
    /\ \A v \in Users : f[v] = t => v = u

StepsKnow ==
    \A r \in Calls : noReq[r].at \in No!DeviceSteps /\ noReq[r].token \notin dead =>
        Finds(holder, row, fcm, noReq[r].at, noReq[r].user, noReq[r].token)

GoneAreDead == \A r \in Calls : noReq[r].at \in No!SendSteps => noReq[r].gone \subseteq dead

TokenInv == OneAtATime /\ StepsKnow /\ GoneAreDead /\ No!TokensFollowPhones

\* A step that is about no phone and takes a token from nobody who holds a working phone.
LEMMA TokensQuiet ==
    ASSUME NoticeTypeInv, TokenInv, NEW r \in Calls, UNCHANGED <<holder, dead>>,
           noReq[r].at \notin No!DeviceSteps, noReq'[r].at \notin No!DeviceSteps,
           \A s \in Calls \ {r} : noReq'[s] = noReq[s],
           noReq'[r].at \in No!SendSteps => noReq'[r].gone \subseteq dead,
           \A t \in Things \ dead : row'[t] = row[t],
           \A v \in Users : \A t \in Things \ dead : fcm'[v] = t <=> fcm[v] = t
    PROVE  TokenInv'
  <1>1. OneAtATime' /\ GoneAreDead'
    BY DEF TokenInv, OneAtATime, GoneAreDead
  <1>2. StepsKnow'
    <2> SUFFICES ASSUME NEW s \in Calls, noReq'[s].at \in No!DeviceSteps,
    noReq'[s].token \notin dead'
                 PROVE  Finds(holder', row', fcm', noReq'[s].at, noReq'[s].user, noReq'[s].token)
      BY DEF StepsKnow
    <2>1. s # r /\ noReq'[s] = noReq[s] /\ noReq[s].token \in Things \ dead
      BY ShapeOf, Shapes
    <2>2. Finds(holder, row, fcm, noReq[s].at, noReq[s].user, noReq[s].token)
      BY <2>1 DEF TokenInv, StepsKnow
    <2> QED BY <2>1, <2>2 DEF Finds
  <1>3. No!TokensFollowPhones'
    <2> SUFFICES ASSUME NEW t \in Things \ dead, No!Settled(t)'
                 PROVE  row'[t] = holder'[t] /\ \A u \in Users : fcm'[u] = t => holder'[t] = u
      BY DEF No!TokensFollowPhones
    <2>1. No!Settled(t)
      BY DEF No!Settled
    <2> QED BY <2>1 DEF TokenInv, No!TokensFollowPhones
  <1> QED BY <1>1, <1>2, <1>3 DEF TokenInv

\* A step of a request about phone t0, which goes on there or ends.
LEMMA TokensMove ==
    ASSUME NoticeTypeInv, TokenInv, NEW r \in Calls, NEW t0 \in Things, NEW u0 \in Users, UNCHANGED dead,
           \A s \in Calls \ {r} : noReq'[s] = noReq[s] /\ (noReq[s].at \in No!DeviceSteps => noReq[s].token # t0),
           noReq'[r].at \in No!DeviceSteps => noReq'[r].token = t0 /\ noReq'[r].user = u0,
           noReq[r].at \in No!DeviceSteps => noReq[r].token = t0,
           noReq'[r].at \notin No!SendSteps,
           \A t \in Things \ {t0} : holder'[t] = holder[t] /\ row'[t] = row[t],
           \A v \in Users : \A t \in Things \ {t0} : fcm'[v] = t => fcm[v] = t,
           t0 \notin dead =>
               /\ noReq'[r].at \in No!DeviceSteps => Finds(holder', row', fcm', noReq'[r].at, u0, t0)
               /\ noReq'[r].at \notin No!DeviceSteps =>
                      row'[t0] = holder'[t0] /\ \A u \in Users : fcm'[u] = t0 => holder'[t0] = u
    PROVE  TokenInv'
  <1>1. OneAtATime'
    BY DEF TokenInv, OneAtATime
  <1>2. GoneAreDead'
    BY DEF TokenInv, GoneAreDead
  <1>3. StepsKnow'
    <2> SUFFICES ASSUME NEW s \in Calls, noReq'[s].at \in No!DeviceSteps,
    noReq'[s].token \notin dead'
                 PROVE  Finds(holder', row', fcm', noReq'[s].at, noReq'[s].user, noReq'[s].token)
      BY DEF StepsKnow
    <2>1. CASE s = r
      BY <2>1
    <2>2. CASE s # r
      <3>1. noReq'[s] = noReq[s] /\ noReq[s].token \in Things \ {t0}
        BY <2>2, ShapeOf, Shapes
      <3>2. Finds(holder, row, fcm, noReq[s].at, noReq[s].user, noReq[s].token)
        BY <3>1 DEF TokenInv, StepsKnow
      <3> QED BY <3>1, <3>2 DEF Finds
    <2> QED BY <2>1, <2>2
  <1>4. No!TokensFollowPhones'
    <2> SUFFICES ASSUME NEW t \in Things \ dead, No!Settled(t)'
                 PROVE  row'[t] = holder'[t] /\ \A u \in Users : fcm'[u] = t => holder'[t] = u
      BY DEF No!TokensFollowPhones
    <2>1. CASE t = t0
      BY <2>1 DEF No!Settled
    <2>2. CASE t # t0
      <3>1. No!Settled(t)
        BY <2>2 DEF No!Settled
      <3> QED BY <2>2, <3>1 DEF TokenInv, No!TokensFollowPhones
    <2> QED BY <2>1, <2>2
  <1> QED BY <1>1, <1>2, <1>3, <1>4 DEF TokenInv

LEMMA PhonesKeepTokens ==
    ASSUME "noLogout" \notin Env, "overlap" \notin Env, No!None \notin Users \cup Things,
           NoticeTypeInv, TokenInv, NEW r \in Calls, Phones(r)
    PROVE  TokenInv'
  <1>1. ASSUME NEW u \in Users, NEW t \in Things, No!LogIn(r, u, t)
        PROVE  TokenInv'
    <2>1. /\ No!Settled(t) /\ t \notin dead /\ holder[t] = No!None /\ noReq[r] = No!Idle
          /\ holder' = [holder EXCEPT ![t] = u] /\ UNCHANGED <<row, fcm, dead>>
          /\ noReq' = [noReq EXCEPT ![r] = No!Device("saveRow", u, t)]
      BY <1>1 DEF No!LogIn, No!tables
    <2>2. \A v \in Users : fcm[v] # t
      BY <2>1 DEF TokenInv, No!TokensFollowPhones
    <2>3. /\ noReq'[r].at = "saveRow" /\ noReq'[r].user = u /\ noReq'[r].token = t
          /\ \A s \in Calls \ {r} : noReq'[s] = noReq[s]
      <3> DEFINE n == No!Device("saveRow", u, t)
      <3>1. n.at = "saveRow" /\ n.user = u /\ n.token = t
        BY DeviceFields
      <3>2. noReq' = [noReq EXCEPT ![r] = n]
        BY <2>1
      <3> HIDE DEF n
      <3> QED BY <3>1, <3>2, Becoming DEF Becomes
    <2>4. holder'[t] = u /\ \A x \in Things \ {t} : holder'[x] = holder[x]
      BY <2>1 DEF NoticeTypeInv
    <2>5. \A v \in Users : fcm'[v] = t => v = u
      BY <2>1, <2>2
    <2>6. Finds(holder', row', fcm', "saveRow", u, t)
      BY <2>4, <2>5 DEF Finds, Saves, Deletes
    <2>7. noReq[r].at \notin No!DeviceSteps /\ \A s \in Calls : noReq[s].at \in No!DeviceSteps => noReq[s].token # t
      BY <2>1, Shapes DEF No!Settled
    <2>8. "saveRow" \in No!DeviceSteps /\ "saveRow" \notin No!SendSteps
      BY DEF No!DeviceSteps, No!SendSteps
    <2>9. UNCHANGED <<row, fcm, dead>>
      BY <2>1
    <2> QED BY <2>3, <2>4, <2>6, <2>7, <2>8, <2>9, TokensMove
  <1>2. ASSUME NEW t \in Things, No!LogOut(r, t)
        PROVE  TokenInv'
    <2>1. /\ No!Settled(t) /\ holder[t] # No!None /\ noReq[r] = No!Idle
          /\ holder' = [holder EXCEPT ![t] = No!None] /\ UNCHANGED <<row, fcm, dead>>
          /\ noReq' = [noReq EXCEPT ![r] = No!Device("deleteRow", holder[t], t)]
      BY <1>2 DEF No!LogOut, No!tables
    <2> DEFINE u == holder[t]
    <2>2. u \in Users
      BY <2>1 DEF NoticeTypeInv
    <2>3. t \notin dead => row[t] = u /\ \A v \in Users : fcm[v] = t => v = u
      BY <2>1 DEF TokenInv, No!TokensFollowPhones
    <2>4. /\ noReq'[r].at = "deleteRow" /\ noReq'[r].user = u /\ noReq'[r].token = t
          /\ \A s \in Calls \ {r} : noReq'[s] = noReq[s]
      <3> DEFINE n == No!Device("deleteRow", u, t)
      <3>1. n.at = "deleteRow" /\ n.user = u /\ n.token = t
        BY DeviceFields
      <3>2. noReq' = [noReq EXCEPT ![r] = n]
        BY <2>1
      <3> HIDE DEF n
      <3> QED BY <3>1, <3>2, Becoming DEF Becomes
    <2>5. holder'[t] = No!None /\ \A x \in Things \ {t} : holder'[x] = holder[x]
      BY <2>1 DEF NoticeTypeInv
    <2> HIDE DEF u
    <2>6. t \notin dead => Finds(holder', row', fcm', "deleteRow", u, t)
      BY <2>1, <2>3, <2>5 DEF Finds, Saves, Deletes
    <2>7. noReq[r].at \notin No!DeviceSteps /\ \A s \in Calls : noReq[s].at \in No!DeviceSteps => noReq[s].token # t
      BY <2>1, Shapes DEF No!Settled
    <2>8. "deleteRow" \in No!DeviceSteps /\ "deleteRow" \notin No!SendSteps
      BY DEF No!DeviceSteps, No!SendSteps
    <2>9. UNCHANGED <<row, fcm, dead>>
      BY <2>1
    <2> QED BY <2>2, <2>4, <2>5, <2>6, <2>7, <2>8, <2>9, TokensMove
  <1> QED BY <1>1, <1>2 DEF Phones

LEMMA DevicesKeepTokens ==
    ASSUME "lostWrite" \notin Env, No!None \notin Users \cup Things,
           NoticeTypeInv, TokenInv, NEW r \in Calls, Devices(r)
    PROVE  TokenInv'
  <1> DEFINE u == noReq[r].user
             t == noReq[r].token
  <1>0. /\ noReq[r].at \in No!DeviceSteps /\ u \in Users /\ t \in Things
        /\ UNCHANGED <<holder, dead>>
    BY ShapeOf, Shapes DEF Devices, No!SaveRow, No!SaveUser, No!DeleteRow, No!DeleteRead,
       No!DeleteUser,
       No!DeviceSteps, No!phones
  <1>1. \A s \in Calls \ {r} : noReq[s].at \in No!DeviceSteps => noReq[s].token # t
    BY <1>0 DEF TokenInv, OneAtATime
  <1>2. t \notin dead => Finds(holder, row, fcm, noReq[r].at, u, t)
    BY <1>0 DEF TokenInv, StepsKnow
  <1>3. CASE No!SaveRow(r)
    <2>1. /\ noReq'[r].at = "saveUser" /\ noReq'[r].user = u /\ noReq'[r].token = t
          /\ \A s \in Calls \ {r} : noReq'[s] = noReq[s]
      BY <1>3, DeviceGoesOn DEF No!SaveRow, No!DeviceSteps
    <2>2. UNCHANGED fcm /\ row'[t] = u /\ \A x \in Things \ {t} : row'[x] = row[x]
      BY <1>0, <1>3 DEF No!SaveRow, NoticeTypeInv
    <2>3. t \notin dead => Finds(holder', row', fcm', "saveUser", u, t)
      BY <1>0, <1>2, <1>3, <2>2 DEF No!SaveRow, Finds, Saves, Deletes
    <2>4. "saveUser" \in No!DeviceSteps /\ "saveUser" \notin No!SendSteps
      BY DEF No!DeviceSteps, No!SendSteps
    <2> HIDE DEF u, t
    <2> QED BY <1>0, <1>1, <2>1, <2>2, <2>3, <2>4, TokensMove DEF u, t
  <1>4. CASE No!SaveUser(r)
    <2>1. Becomes(r, No!Idle) /\ UNCHANGED row /\ noReq[r].at = "saveUser"
      BY <1>4, Becoming DEF No!SaveUser
    <2>2. \A v \in Users : \A x \in Things \ {t} : fcm'[v] = x => fcm[v] = x
      BY <1>0, <1>4 DEF No!SaveUser, NoticeTypeInv
    <2>3. \A v \in Users \ {u} : fcm'[v] = fcm[v]
      BY <1>0, <1>4 DEF No!SaveUser, NoticeTypeInv
    <2>4. t \notin dead => row'[t] = holder'[t] /\ \A v \in Users : fcm'[v] = t => holder'[t] = v
      BY <1>0, <1>2, <2>1, <2>3 DEF Finds, Saves
    <2>5. noReq'[r].at \notin No!DeviceSteps /\ noReq'[r].at \notin No!SendSteps
      BY <2>1, Shapes DEF Becomes
    <2> HIDE DEF u, t
    <2> QED BY <1>0, <1>1, <2>1, <2>2, <2>4, <2>5, TokensMove DEF Becomes, u, t
  <1>5. CASE No!DeleteRow(r)
    <2>1. /\ noReq'[r].at = "deleteRead" /\ noReq'[r].user = u /\ noReq'[r].token = t
          /\ \A s \in Calls \ {r} : noReq'[s] = noReq[s]
      BY <1>5, DeviceGoesOn DEF No!DeleteRow, No!DeviceSteps
    <2>2. /\ UNCHANGED fcm /\ \A x \in Things \ {t} : row'[x] = row[x]
          /\ row[t] = u => row'[t] = No!None
      BY <1>0, <1>5 DEF No!DeleteRow, No!Deleted, NoticeTypeInv
    <2>3. t \notin dead => Finds(holder', row', fcm', "deleteRead", u, t)
      BY <1>0, <1>2, <1>5, <2>2 DEF No!DeleteRow, Finds, Saves, Deletes
    <2>4. "deleteRead" \in No!DeviceSteps /\ "deleteRead" \notin No!SendSteps
      BY DEF No!DeviceSteps, No!SendSteps
    <2> HIDE DEF u, t
    <2> QED BY <1>0, <1>1, <2>1, <2>2, <2>3, <2>4, TokensMove DEF u, t
  <1>6. CASE No!DeleteRead(r)
    <2>0. UNCHANGED <<row, fcm>> /\ noReq[r].at = "deleteRead"
      BY <1>6 DEF No!DeleteRead, No!tables
    <2>1. CASE fcm[u] = t
      <3>1. /\ noReq'[r].at = "deleteUser" /\ noReq'[r].user = u /\ noReq'[r].token = t
            /\ \A s \in Calls \ {r} : noReq'[s] = noReq[s]
        BY <1>6, <2>1, DeviceGoesOn DEF No!DeleteRead, No!Clears, No!DeviceSteps
      <3>2. t \notin dead => Finds(holder', row', fcm', "deleteUser", u, t)
        BY <1>0, <1>2, <2>0 DEF Finds, Saves, Deletes
      <3>3. "deleteUser" \in No!DeviceSteps /\ "deleteUser" \notin No!SendSteps
        BY DEF No!DeviceSteps, No!SendSteps
      <3> HIDE DEF u, t
      <3> QED BY <1>0, <1>1, <2>0, <3>1, <3>2, <3>3, TokensMove DEF u, t
    <2>2. CASE fcm[u] # t
      <3>1. Becomes(r, No!Idle)
        BY <1>6, <2>2, Becoming DEF No!DeleteRead, No!Clears
      <3>2. t \notin dead => row'[t] = holder'[t] /\ \A v \in Users : fcm'[v] = t => holder'[t] = v
        BY <1>0, <1>2, <2>0, <2>2 DEF Finds, Deletes
      <3>3. noReq'[r].at \notin No!DeviceSteps /\ noReq'[r].at \notin No!SendSteps
        BY <3>1, Shapes DEF Becomes
      <3> HIDE DEF u, t
      <3> QED BY <1>0, <1>1, <2>0, <3>1, <3>2, <3>3, TokensMove DEF Becomes, u, t
    <2> QED BY <2>1, <2>2
  <1>7. CASE No!DeleteUser(r)
    <2>1. /\ Becomes(r, No!Idle) /\ UNCHANGED row /\ noReq[r].at = "deleteUser"
          /\ fcm' = [fcm EXCEPT ![u] = No!None]
      BY <1>7, Becoming DEF No!DeleteUser
    <2>2. /\ \A v \in Users : \A x \in Things : fcm'[v] = x => fcm[v] = x
          /\ fcm'[u] = No!None
      BY <1>0, <2>1 DEF NoticeTypeInv
    <2>3. t \notin dead => row'[t] = holder'[t] /\ \A v \in Users : fcm'[v] = t => holder'[t] = v
      BY <1>0, <1>2, <2>1, <2>2 DEF Finds, Deletes
    <2>4. noReq'[r].at \notin No!DeviceSteps /\ noReq'[r].at \notin No!SendSteps
      BY <2>1, Shapes DEF Becomes
    <2> HIDE DEF u, t
    <2> QED BY <1>0, <1>1, <2>1, <2>2, <2>3, <2>4, TokensMove DEF Becomes, u, t
  <1> QED BY <1>3, <1>4, <1>5, <1>6, <1>7 DEF Devices

LEMMA SendsKeepTokens ==
    ASSUME No!None \notin Users \cup Things, NoticeTypeInv, TokenInv, NEW r \in Calls, Sends(r)
    PROVE  TokenInv'
  <1>0. noReq[r].at \notin No!DeviceSteps /\ UNCHANGED <<holder, dead>>
    BY Shapes DEF Sends, No!CreateNotice, No!SendRows, No!SendFallback, No!Throw, No!Push,
       No!Purge, No!PurgeUsers,
       No!SetStatus, No!phones, No!SendSteps, No!DeviceSteps
  <1>1. CASE \E u \in Users : No!CreateNotice(r, u)
    <2>1. PICK u \in Users : No!CreateNotice(r, u)
      BY <1>1
    <2> DEFINE n == No!Send("rows", u, {}, {}, {})
    <2>2. n.at = "rows" /\ n.gone = {}
      BY SendFields
    <2>3. Becomes(r, n) /\ UNCHANGED <<row, fcm>>
      BY <2>1, Becoming DEF No!CreateNotice, No!tables
    <2> HIDE DEF n
    <2>4. n.at \notin No!DeviceSteps
      BY <2>2 DEF No!DeviceSteps
    <2> QED BY <1>0, <2>2, <2>3, <2>4, TokensQuiet DEF Becomes
  <1>2. CASE No!SendRows(r) \/ No!SendFallback(r) \/ No!Throw(r) \/ No!SetStatus(r)
    <2>1. UNCHANGED <<row, fcm>>
      BY <1>2 DEF No!SendRows, No!SendFallback, No!Throw, No!SetStatus, No!tables
    <2>2. PICK a \in {"fallback", "push"}, ts \in SUBSET (Things \cup {fcm[noReq[r].user]}) :
              Becomes(r, No!Idle) \/ Becomes(r, No!Send(a, noReq[r].user, ts, {}, {}))
      BY <1>2, Becoming DEF No!SendRows, No!SendFallback, No!Throw, No!SetStatus
    <2>3. CASE Becomes(r, No!Idle)
      BY <1>0, <2>1, <2>3, TokensQuiet, Shapes DEF Becomes
    <2>4. CASE Becomes(r, No!Send(a, noReq[r].user, ts, {}, {}))
      <3> DEFINE n == No!Send(a, noReq[r].user, ts, {}, {})
      <3>1. n.at = a /\ n.gone = {}
        BY SendFields
      <3>2. n.at \notin No!DeviceSteps
        BY <3>1 DEF No!DeviceSteps
      <3> HIDE DEF n
      <3> QED BY <1>0, <2>1, <2>4, <3>1, <3>2, TokensQuiet DEF Becomes, n
    <2> QED BY <2>2, <2>3, <2>4
  <1>3. CASE \E failed \in SUBSET Things : No!Push(r, failed)
    <2>1. PICK failed \in SUBSET Things : No!Push(r, failed)
      BY <1>3
    <2> DEFINE n == No!Send("purge", noReq[r].user, noReq[r].tokens, failed, No!DeadTokens(failed))
    <2>2. n.at = "purge" /\ n.gone \subseteq dead
      BY SendFields DEF No!DeadTokens
    <2>3. Becomes(r, n) /\ UNCHANGED <<row, fcm>>
      BY <2>1, Becoming DEF No!Push, No!tables
    <2> HIDE DEF n
    <2>4. n.at \notin No!DeviceSteps
      BY <2>2 DEF No!DeviceSteps
    <2> QED BY <1>0, <2>2, <2>3, <2>4, TokensQuiet DEF Becomes
  <1>4. CASE No!Purge(r) \/ No!PurgeUsers(r)
    <2>1. PICK a \in {"purgeUsers", "status"} :
              noReq[r].at \in No!SendSteps /\ noReq' = [noReq EXCEPT ![r].at = a]
      BY <1>4 DEF No!Purge, No!PurgeUsers, No!SendSteps
    <2>2. /\ noReq'[r].at = a /\ noReq'[r].gone = noReq[r].gone
          /\ \A s \in Calls \ {r} : noReq'[s] = noReq[s]
      BY <2>1, SendGoesOn DEF No!SendSteps
    <2>3. noReq[r].gone \subseteq dead
      BY <2>1 DEF TokenInv, GoneAreDead
    <2>4. \A t \in Things \ dead : row'[t] = row[t]
      BY <1>4, <2>3 DEF No!Purge, No!PurgeUsers
    <2>5. \A v \in Users : \A t \in Things \ dead : fcm'[v] = t <=> fcm[v] = t
      BY <1>4, <2>3 DEF No!Purge, No!PurgeUsers, NoticeTypeInv
    <2>6. a \notin No!DeviceSteps
      BY DEF No!DeviceSteps
    <2> QED BY <1>0, <2>2, <2>3, <2>4, <2>5, <2>6, TokensQuiet
  <1> QED BY <1>1, <1>2, <1>3, <1>4 DEF Sends

LEMMA TokenStep ==
    ASSUME Env \cap {"noLogout", "overlap", "lostWrite"} = {}, No!None \notin Users \cup Things,
           NoticeTypeInv, TokenInv, [No!Next]_(No!vars)
    PROVE  TokenInv'
  <1>0. "noLogout" \notin Env /\ "overlap" \notin Env /\ "lostWrite" \notin Env
    OBVIOUS
  <1>1. CASE UNCHANGED No!vars
    BY <1>1 DEF No!vars, TokenInv, OneAtATime, StepsKnow, Finds, GoneAreDead,
       No!TokensFollowPhones, No!Settled
  <1>2. ASSUME NEW t \in Things, No!Uninstall(t)
        PROVE  TokenInv'
    <2>1. /\ UNCHANGED <<row, fcm, noReq>> /\ dead' = dead \cup {t}
          /\ \A x \in Things \ {t} : holder'[x] = holder[x]
      BY <1>2 DEF No!Uninstall, No!tables, NoticeTypeInv
    <2>2. OneAtATime' /\ GoneAreDead'
      BY <2>1 DEF TokenInv, OneAtATime, GoneAreDead
    <2>3. StepsKnow'
      <3> SUFFICES ASSUME NEW s \in Calls, noReq'[s].at \in No!DeviceSteps,
      noReq'[s].token \notin dead'
                   PROVE  Finds(holder', row', fcm', noReq'[s].at, noReq'[s].user, noReq'[s].token)
        BY DEF StepsKnow
      <3>1. noReq'[s] = noReq[s] /\ noReq[s].token \in Things \ {t} /\ noReq[s].token \notin dead
        BY <2>1, ShapeOf, Shapes
      <3>2. Finds(holder, row, fcm, noReq[s].at, noReq[s].user, noReq[s].token)
        BY <3>1 DEF TokenInv, StepsKnow
      <3> QED BY <2>1, <3>1, <3>2 DEF Finds
    <2>4. No!TokensFollowPhones'
      BY <2>1 DEF TokenInv, No!TokensFollowPhones, No!Settled
    <2> QED BY <2>2, <2>3, <2>4 DEF TokenInv
  <1> QED
    BY <1>0, <1>1, <1>2, PhonesKeepTokens, DevicesKeepTokens, SendsKeepTokens, NoticeNextParts

\* When the app logs out before somebody else logs in, waits for each answer, and no write
\* of a logout is lost, the row of a working phone names who is logged in on it, and the old
\* field of a user names no phone of somebody else.
THEOREM TokensFollow ==
    ASSUME Env \cap {"noLogout", "overlap", "lostWrite"} = {}, No!None \notin Users \cup Things
    PROVE  (No!Spec => []No!TokensFollowPhones) /\ (SpecAll => []TokensFollowPhones)
  <1>1. No!Init => TokenInv
    BY Shapes DEF No!Init, TokenInv, OneAtATime, StepsKnow, GoneAreDead, No!TokensFollowPhones
  <1>2. NoticeTypeInv /\ TokenInv /\ [No!Next]_(No!vars) => TokenInv'
    BY TokenStep
  <1>3. TokenInv => No!TokensFollowPhones
    BY DEF TokenInv
  <1>4. No!Spec => []No!TokensFollowPhones
    BY <1>1, <1>2, <1>3, TypesHold, PTL DEF No!Spec
  <1> QED BY <1>4, EachServiceRuns, PTL DEF TokensFollowPhones

-----------------------------------------------------------------------------
(* The access to a room                                                      *)

AdminSteps ==
    \/ \E s \in Ac!RegistrationStatus : Ac!SetRegistration(s)
    \/ \E new \in {"CAPTAIN", "PLAYER", "SUBSTITUTE"}, ownedBy \in {"LEADER", "MANAGER"} :
           Ac!SetRole(new, ownedBy)
    \/ \E teams \in SUBSET {Ac!Us, "other"} : Ac!AssignTeams(teams)

RoomSteps ==
    \E l \in Ac!Levels :
        \/ Ac!ReleaseTime(l)
        \/ \E new \in {"HIDDEN", "LATER", "RELEASED"} : Ac!SetRoom(l, new)

PlaySteps ==
    \/ Ac!GenerateRound1 \/ Ac!CreateGroupMatch
    \/ \E b \in BOOLEAN : Ac!GenerateRound3(b) \/ \E g \in Ac!Rounds : Ac!EndRound(g, b)
    \/ \E teams \in SUBSET {Ac!Us, "other"} : Ac!RecordResults(teams)

LEMMA AccessNextParts == Ac!Next <=> AdminSteps \/ RoomSteps \/ PlaySteps
  BY DEF Ac!Next, AdminSteps, RoomSteps, PlaySteps

-----------------------------------------------------------------------------
(* Types                                                                     *)

\* The state stays within the types the tables declare.
THEOREM AccessTyped == Ac!Spec => []Ac!TypeOK
  <1>1. Ac!Init => Ac!TypeOK
    BY DEF Ac!Init, Ac!TypeOK, Ac!RegistrationStatus, Ac!Units, Ac!Levels
  <1>2. Ac!TypeOK /\ [Ac!Next]_(Ac!vars) => Ac!TypeOK'
    <2> SUFFICES ASSUME Ac!TypeOK, [Ac!Next]_(Ac!vars) PROVE Ac!TypeOK'
      OBVIOUS
    <2> USE DEF Ac!TypeOK, Ac!Units, Ac!Rounds
    <2>1. CASE UNCHANGED Ac!vars
      BY <2>1 DEF Ac!vars
    <2>2. CASE AdminSteps
      BY <2>2 DEF AdminSteps, Ac!SetRegistration, Ac!SetRole, Ac!AssignTeams, Ac!RowsWith, Ac!play,
         Ac!player
    <2>3. CASE RoomSteps
      <3>1. \A l \in Ac!Levels : Ac!ReleaseTime(l) => Ac!TypeOK'
        BY DEF Ac!ReleaseTime, Ac!play, Ac!player
      <3>2. \A l \in Ac!Levels : \A new \in {"HIDDEN", "LATER", "RELEASED"} : Ac!SetRoom(l, new) => Ac!TypeOK'
        BY DEF Ac!SetRoom, Ac!Tell, Ac!play, Ac!player
      <3> QED BY <2>3, <3>1, <3>2 DEF RoomSteps
    <2>4. CASE PlaySteps
      <3>1. CASE Ac!GenerateRound1 \/ Ac!CreateGroupMatch
        BY <3>1 DEF Ac!GenerateRound1, Ac!CreateGroupMatch, Ac!player
      <3>2. ASSUME NEW b \in BOOLEAN, Ac!GenerateRound3(b) PROVE Ac!TypeOK'
        BY <3>2 DEF Ac!GenerateRound3, Ac!player
      <3>3. ASSUME NEW b \in BOOLEAN, NEW g \in Ac!Rounds, Ac!EndRound(g, b) PROVE Ac!TypeOK'
        BY <3>3 DEF Ac!EndRound, Ac!player
      <3>4. ASSUME NEW teams \in SUBSET {Ac!Us, "other"}, Ac!RecordResults(teams) PROVE Ac!TypeOK'
        BY <3>4 DEF Ac!RecordResults, Ac!RowsWith, Ac!player
      <3> QED BY <2>4, <3>1, <3>2, <3>3, <3>4 DEF PlaySteps
    <2> QED BY <2>1, <2>2, <2>3, <2>4, AccessNextParts
  <1> QED BY <1>1, <1>2, PTL DEF Ac!Spec

-----------------------------------------------------------------------------
(* Matches and rounds exist before anything refers to them                   *)

ExistingUnits == {u \in Ac!Units : unit[u] # "NONE"}

ReferencesExist ==
    /\ out \subseteq ExistingUnits /\ inGroup \subseteq ExistingUnits
    /\ \A u \in Ac!Units : room[u] # "NONE" => u \in ExistingUnits

LEMMA ReferencesInit == Ac!Init => ReferencesExist
  BY DEF Ac!Init, ReferencesExist, Ac!Levels

LEMMA ReferencesStep ==
    ASSUME Ac!TypeOK, ReferencesExist, [Ac!Next]_(Ac!vars)
    PROVE  ReferencesExist'
  <1> USE DEF Ac!TypeOK, ReferencesExist, ExistingUnits
  <1>1. CASE UNCHANGED Ac!vars
    BY <1>1 DEF Ac!vars
  <1>2. CASE AdminSteps
    BY <1>2 DEF AdminSteps, Ac!SetRegistration, Ac!SetRole, Ac!AssignTeams, Ac!play, Ac!player
  <1>3. CASE RoomSteps
    <2>1. ASSUME NEW l \in Ac!Levels, Ac!ReleaseTime(l) PROVE ReferencesExist'
      BY <2>1 DEF Ac!ReleaseTime, Ac!play, Ac!player, Ac!Levels
    <2>2. ASSUME NEW l \in Ac!Levels, NEW new \in {"HIDDEN", "LATER", "RELEASED"}, Ac!SetRoom(l, new)
          PROVE  ReferencesExist'
      BY <2>2 DEF Ac!SetRoom, Ac!play, Ac!player, Ac!Levels
    <2> QED BY <1>3, <2>1, <2>2 DEF RoomSteps
  <1>4. CASE PlaySteps
    <2>1. CASE Ac!GenerateRound1 \/ Ac!CreateGroupMatch
      BY <2>1 DEF Ac!GenerateRound1, Ac!CreateGroupMatch, Ac!player, Ac!Units, Ac!Rounds
    <2>2. ASSUME NEW b \in BOOLEAN, Ac!GenerateRound3(b) PROVE ReferencesExist'
      BY <2>2 DEF Ac!GenerateRound3, Ac!player, Ac!Units, Ac!Rounds
    <2>3. ASSUME NEW b \in BOOLEAN, NEW g \in Ac!Rounds, Ac!EndRound(g, b) PROVE ReferencesExist'
      BY <2>3 DEF Ac!EndRound, Ac!player, Ac!Units, Ac!Rounds
    <2>4. ASSUME NEW teams \in SUBSET {Ac!Us, "other"}, Ac!RecordResults(teams) PROVE ReferencesExist'
      BY <2>4 DEF Ac!RecordResults, Ac!player, Ac!Units
    <2> QED BY <1>4, <2>1, <2>2, <2>3, <2>4 DEF PlaySteps
  <1> QED BY <1>1, <1>2, <1>3, <1>4, AccessNextParts

-----------------------------------------------------------------------------
(* The endpoints agree                                                       *)

\* A choice among the team's matches is one of them.
LEMMA ActiveIsOne ==
    ASSUME NEW units \in SUBSET Ac!Units, units # {}
    PROVE  Ac!FirstOf(units) \in units /\ Ac!LastOf(units) \in units /\ Ac!Active(units) \in units
  <1>1. \A s \in SUBSET Ac!Units : s # {} => Ac!FirstOf(s) \in s /\ Ac!LastOf(s) \in s
    <2> SUFFICES ASSUME NEW s \in SUBSET Ac!Units, s # {}
                 PROVE  Ac!FirstOf(s) \in s /\ Ac!LastOf(s) \in s
      OBVIOUS
    <2>1. Ac!RoundNumber("m") = 0 /\ Ac!RoundNumber("g1") = 1 /\ Ac!RoundNumber("g3") = 3
      BY DEF Ac!RoundNumber
    <2>2. PICK w \in s : TRUE
      OBVIOUS
    <2>3. \A v \in s : v = "m" \/ v = "g1" \/ v = "g3"
      BY DEF Ac!Units
    <2>4. \E u \in s : \A v \in s : Ac!RoundNumber(u) <= Ac!RoundNumber(v)
      <3>1. CASE "m" \in s
        BY <2>1, <2>3, <3>1
      <3>2. CASE "m" \notin s /\ "g1" \in s
        BY <2>1, <2>3, <3>2
      <3>3. CASE "m" \notin s /\ "g1" \notin s
        BY <2>1, <2>2, <2>3, <3>3
      <3> QED BY <3>1, <3>2, <3>3
    <2>5. \E u \in s : \A v \in s : Ac!RoundNumber(v) <= Ac!RoundNumber(u)
      <3>1. CASE "g3" \in s
        BY <2>1, <2>3, <3>1
      <3>2. CASE "g3" \notin s /\ "g1" \in s
        BY <2>1, <2>3, <3>2
      <3>3. CASE "g3" \notin s /\ "g1" \notin s
        BY <2>1, <2>2, <2>3, <3>3
      <3> QED BY <3>1, <3>2, <3>3
    <2> QED BY <2>4, <2>5 DEF Ac!FirstOf, Ac!LastOf
  <1>2. Ac!Open(units) \in SUBSET Ac!Units /\ Ac!Open(units) \subseteq units
    BY DEF Ac!Open
  <1> QED BY <1>1, <1>2 DEF Ac!Active

LEMMA RoomIsPublished ==
    ASSUME Ac!TypeOK, Ac!Registered, NEW u \in ExistingUnits
    PROVE  Ac!RoomState(u) = "PUBLISHED" <=> Ac!Credentials(u) = "ROOM"
  BY DEF Ac!RoomState, Ac!Credentials, Ac!PastElimination, ExistingUnits, Ac!Units

LEMMA VirtualRoom ==
    ASSUME Ac!TypeOK, out = {}
    PROVE  Ac!Credentials("t") = "ROOM" <=> Ac!Registered /\ Ac!Playing /\ room["t"] = "RELEASED"
  BY DEF Ac!Credentials, Ac!PastElimination, Ac!RoundNumber, Ac!Participates, Ac!IsReleased,
     Ac!Level, Ac!TypeOK,
         Ac!Rounds, Ac!Units, Ac!Levels

LEMMA Agreement ==
    ASSUME Ac!TypeOK, ReferencesExist
    PROVE  Ac!EndpointsAgree
  <1>0. Ac!MatchUnits = ExistingUnits /\ Ac!Mine \subseteq ExistingUnits /\ Ac!Open(inGroup) \subseteq ExistingUnits
    BY DEF Ac!MatchUnits, ExistingUnits, Ac!Mine, Ac!Open, ReferencesExist
  <1>1. ASSUME NEW x \in Ac!MatchCenter
        PROVE  x[2] = "PUBLISHED" <=> Ac!Credentials(x[1]) = "ROOM"
    <2>1. Ac!Registered
      BY <1>1 DEF Ac!MatchCenter
    <2>2. CASE Ac!MatchUnits # {}
      <3>1. PICK u \in Ac!MatchUnits : x = <<u, Ac!RoomState(u)>>
        BY <1>1, <2>1, <2>2 DEF Ac!MatchCenter
      <3> QED BY <1>0, <2>1, <3>1, RoomIsPublished
    <2>3. CASE Ac!MatchUnits = {}
      <3>1. out = {}
        BY <1>0, <2>3 DEF ReferencesExist
      <3>2. x[1] = "t" /\ (x[2] = "PUBLISHED" <=> Ac!Playing /\ Ac!IsReleased("t"))
        BY <1>1, <2>1, <2>3, <3>1 DEF Ac!MatchCenter
      <3>3. Ac!IsReleased("t") <=> room["t"] = "RELEASED"
        BY DEF Ac!IsReleased, Ac!Level
      <3> QED BY <2>1, <3>1, <3>2, <3>3, VirtualRoom
    <2> QED BY <2>2, <2>3
  <1>2. ASSUME NEW u \in ExistingUnits, Ac!Credentials(u) = "ROOM"
        PROVE  <<u, "PUBLISHED">> \in Ac!MatchCenter
    <2>1. Ac!Registered
      BY <1>2 DEF Ac!Credentials, ExistingUnits
    <2>2. Ac!RoomState(u) = "PUBLISHED"
      BY <1>2, <2>1, RoomIsPublished
    <2>3. Ac!MatchUnits # {} /\ u \in Ac!MatchUnits
      BY <1>0
    <2> QED BY <2>1, <2>2, <2>3 DEF Ac!MatchCenter
  <1>3. Ac!Mine # {} => Ac!Active(Ac!Mine) \in ExistingUnits
    BY <1>0, ActiveIsOne DEF ExistingUnits
  <1>4. Ac!TournamentRoom[2] = "ROOM" => <<Ac!TournamentRoom[1], "PUBLISHED">> \in Ac!MatchCenter
    <2> SUFFICES ASSUME Ac!TournamentRoom[2] = "ROOM"
                 PROVE  <<Ac!TournamentRoom[1], "PUBLISHED">> \in Ac!MatchCenter
      OBVIOUS
    <2>1. Ac!Registered /\ Ac!Playing /\ out = {}
      BY DEF Ac!TournamentRoom
    <2>2. CASE Ac!Mine # {}
      <3>1. Ac!TournamentRoom = <<Ac!Active(Ac!Mine), Ac!Credentials(Ac!Active(Ac!Mine))>>
        BY <2>1, <2>2 DEF Ac!TournamentRoom
      <3> QED BY <1>2, <1>3, <2>2, <3>1
    <2>3. CASE Ac!Mine = {}
      <3>1. Ac!MatchUnits = {} /\ room["t"] = "RELEASED" /\ Ac!TournamentRoom[1] = "t"
        BY <2>1, <2>3 DEF Ac!TournamentRoom
      <3>2. Ac!IsReleased("t")
        BY <3>1 DEF Ac!IsReleased, Ac!Level
      <3> QED BY <2>1, <3>1, <3>2 DEF Ac!MatchCenter
    <2> QED BY <2>2, <2>3
  <1>5. Ac!PlayerRoom[2] = "ROOM" => <<Ac!PlayerRoom[1], "PUBLISHED">> \in Ac!MatchCenter
    <2> SUFFICES ASSUME Ac!PlayerRoom[2] = "ROOM"
                 PROVE  <<Ac!PlayerRoom[1], "PUBLISHED">> \in Ac!MatchCenter
      OBVIOUS
    <2>1. Ac!Registered /\ Ac!Playing
      BY DEF Ac!PlayerRoom
    <2>2. CASE Ac!Open(inGroup) # {}
      <3>1. Ac!PlayerRoom = <<Ac!LastOf(Ac!Open(inGroup)), Ac!Credentials(Ac!LastOf(Ac!Open(inGroup)))>>
        BY <2>1, <2>2 DEF Ac!PlayerRoom
      <3>2. Ac!LastOf(Ac!Open(inGroup)) \in ExistingUnits
        BY <1>0, <2>2, ActiveIsOne DEF ExistingUnits
      <3> QED BY <1>2, <3>1, <3>2
    <2>3. CASE Ac!Open(inGroup) = {} /\ Ac!Mine # {}
      <3>1. Ac!PlayerRoom = <<Ac!Active(Ac!Mine), Ac!Credentials(Ac!Active(Ac!Mine))>>
        BY <2>1, <2>3 DEF Ac!PlayerRoom
      <3> QED BY <1>2, <1>3, <2>3, <3>1
    <2>4. CASE Ac!Open(inGroup) = {} /\ Ac!Mine = {}
      BY <2>1, <2>4 DEF Ac!PlayerRoom
    <2> QED BY <2>2, <2>3, <2>4
  <1> QED BY <1>1, <1>4, <1>5 DEF Ac!EndpointsAgree

\* Whatever Env holds, the match centre shows as published exactly the rooms that the
\* credentials endpoint gives, and the other two endpoints give no other room.
THEOREM Agrees == (Ac!Spec => []Ac!EndpointsAgree) /\ (SpecAll => []EndpointsAgree)
  <1>1. Ac!Init => ReferencesExist
    BY ReferencesInit
  <1>2. Ac!TypeOK /\ ReferencesExist /\ [Ac!Next]_(Ac!vars) => ReferencesExist'
    BY ReferencesStep
  <1>3. Ac!TypeOK /\ ReferencesExist => Ac!EndpointsAgree
    BY Agreement
  <1>4. Ac!Spec => []Ac!EndpointsAgree
    BY <1>1, <1>2, <1>3, AccessTyped, PTL DEF Ac!Spec
  <1> QED BY <1>4, EachServiceRuns, PTL DEF EndpointsAgree

-----------------------------------------------------------------------------
(* One kind of match and no wild cards                                       *)

OneKind == unit["m"] # "NONE" => unit["g1"] = "NONE" /\ unit["g3"] = "NONE"
RoundsInOrder ==
    /\ unit["g3"] # "NONE" => unit["g1"] = "COMPLETED"
    /\ unit["g1"] # "SCHEDULED" /\ unit["g3"] # "SCHEDULED"

\* Who plays in a round that is on has come through all the others.
PlayersAreIn == \A g \in inGroup : unit[g] = "LIVE" => out = {}

BracketInv == ReferencesExist /\ OneKind /\ RoundsInOrder /\ PlayersAreIn

LEMMA BracketInit == Ac!Init => BracketInv
  BY ReferencesInit DEF Ac!Init, BracketInv, OneKind, RoundsInOrder, PlayersAreIn, Ac!Units

LEMMA BracketStep ==
    ASSUME "wildCard" \notin Env, "mixed" \notin Env, Ac!TypeOK, BracketInv, [Ac!Next]_(Ac!vars)
    PROVE  BracketInv'
  <1>0. ReferencesExist'
    BY ReferencesStep DEF BracketInv
  <1> USE DEF Ac!TypeOK, BracketInv, OneKind, RoundsInOrder, PlayersAreIn
  <1>1. CASE UNCHANGED Ac!vars
    BY <1>0, <1>1 DEF Ac!vars
  <1>2. CASE AdminSteps
    BY <1>0, <1>2 DEF AdminSteps, Ac!SetRegistration, Ac!SetRole, Ac!AssignTeams, Ac!play, Ac!player
  <1>3. CASE RoomSteps
    BY <1>0, <1>3 DEF RoomSteps, Ac!ReleaseTime, Ac!SetRoom, Ac!play, Ac!player
  <1>4. CASE PlaySteps
    <2> USE DEF Ac!Units, Ac!Rounds
    <2>1. CASE Ac!GenerateRound1
      <3>1. out = {}
        BY <2>1 DEF Ac!GenerateRound1, ReferencesExist, ExistingUnits
      <3> QED BY <1>0, <2>1, <3>1 DEF Ac!GenerateRound1, Ac!player
    <2>2. CASE Ac!CreateGroupMatch
      BY <1>0, <2>2 DEF Ac!CreateGroupMatch, Ac!player
    <2>3. ASSUME NEW b \in BOOLEAN, Ac!GenerateRound3(b) PROVE BracketInv'
      <3>1. "g3" \notin inGroup
        BY <2>3 DEF Ac!GenerateRound3, ReferencesExist, ExistingUnits
      <3> QED BY <1>0, <2>3, <3>1 DEF Ac!GenerateRound3, Ac!player
    <2>4. ASSUME NEW b \in BOOLEAN, NEW g \in Ac!Rounds, Ac!EndRound(g, b) PROVE BracketInv'
      <3>1. \A h \in inGroup : unit'[h] # "LIVE"
        BY <2>4 DEF Ac!EndRound, ReferencesExist, ExistingUnits
      <3>2. PlayersAreIn'
        BY <2>4, <3>1 DEF Ac!EndRound
      <3>3. OneKind' /\ RoundsInOrder'
        BY <2>4 DEF Ac!EndRound
      <3> QED BY <1>0, <3>2, <3>3
    <2>5. ASSUME NEW teams \in SUBSET {Ac!Us, "other"}, Ac!RecordResults(teams) PROVE BracketInv'
      BY <1>0, <2>5 DEF Ac!RecordResults, Ac!player
    <2> QED BY <1>4, <2>1, <2>2, <2>3, <2>4, <2>5 DEF PlaySteps
  <1> QED BY <1>1, <1>2, <1>3, <1>4, AccessNextParts

LEMMA Reaches ==
    ASSUME Ac!TypeOK, BracketInv
    PROVE  Ac!OpenRoomIsReached
  <1> SUFFICES ASSUME NEW g \in inGroup, Ac!Registered, Ac!Playing, unit[g] = "LIVE", Ac!IsReleased(g),
                      \A h \in inGroup : unit[h] = "LIVE" => h = g
               PROVE  Ac!PlayerRoom = <<g, "ROOM">> /\ Ac!TournamentRoom = <<g, "ROOM">>
    BY DEF Ac!OpenRoomIsReached
  <1>1. out = {} /\ g \in Ac!Rounds /\ g \in ExistingUnits
    BY DEF BracketInv, PlayersAreIn, ReferencesExist, Ac!TypeOK
  <1>2. Ac!Credentials(g) = "ROOM"
    BY <1>1 DEF Ac!Credentials, Ac!Participates, Ac!PastElimination, Ac!EliminatedIn,
       ExistingUnits, Ac!Rounds
  <1>3. Ac!Open(inGroup) = {g}
    BY <1>1 DEF Ac!Open, BracketInv, RoundsInOrder, Ac!TypeOK, Ac!Rounds, Ac!Units
  <1>4. Ac!Open(Ac!Mine) = {g} /\ g \in Ac!Mine
    <2>1. unit["m"] = "NONE"
      BY <1>1 DEF BracketInv, OneKind, ExistingUnits, Ac!Rounds
    <2>2. Ac!Mine \subseteq inGroup /\ g \in Ac!Mine
      BY <1>1, <2>1 DEF Ac!Mine, Ac!MatchUnits, Ac!Participates, Ac!Rounds, Ac!Units, ExistingUnits
    <2> QED BY <1>3, <2>2 DEF Ac!Open
  <1>5. Ac!FirstOf({g}) = g /\ Ac!LastOf({g}) = g
    BY <1>1, ActiveIsOne DEF ExistingUnits
  <1>6. Ac!PlayerRoom = <<g, "ROOM">>
    BY <1>1, <1>2, <1>3, <1>5 DEF Ac!PlayerRoom
  <1>7. Ac!TournamentRoom = <<g, "ROOM">>
    BY <1>1, <1>2, <1>4, <1>5 DEF Ac!TournamentRoom, Ac!Active
  <1> QED BY <1>6, <1>7

\* Without wild cards and with one kind of match, a team that plays a round that is on sees
\* its room through both endpoints.
THEOREM RoomReached ==
    ASSUME "wildCard" \notin Env, "mixed" \notin Env
    PROVE  (Ac!Spec => []Ac!OpenRoomIsReached) /\ (SpecAll => []OpenRoomIsReached)
  <1>1. Ac!Init => BracketInv
    BY BracketInit
  <1>2. Ac!TypeOK /\ BracketInv /\ [Ac!Next]_(Ac!vars) => BracketInv'
    BY BracketStep
  <1>3. Ac!TypeOK /\ BracketInv => Ac!OpenRoomIsReached
    BY Reaches
  <1>4. Ac!Spec => []Ac!OpenRoomIsReached
    BY <1>1, <1>2, <1>3, AccessTyped, PTL DEF Ac!Spec
  <1> QED BY <1>4, EachServiceRuns, PTL DEF OpenRoomIsReached

-----------------------------------------------------------------------------
(* Notices                                                                   *)

\* The members handleRoomReleased picks can open a released room.
LEMMA NotifiedCanOpen ==
    ASSUME Ac!TypeOK, NEW l \in Ac!Levels, l \in Ac!Units => l \in ExistingUnits,
           Ac!Notified(l), room[l] = "RELEASED"
    PROVE  Ac!Credentials(l) = "ROOM"
  BY DEF Ac!Notified, Ac!Credentials, Ac!Participates, Ac!PastElimination, Ac!EliminatedIn,
     Ac!IsReleased, Ac!Level,
         ExistingUnits, Ac!Levels, Ac!Units, Ac!Rounds

\* While a match is on, whoever can open its room is among those members.
LEMMA WhoCanOpenIsNotified ==
    ASSUME Ac!TypeOK, BracketInv, NEW l \in Ac!Units, unit[l] # "COMPLETED", Ac!Credentials(l) = "ROOM"
    PROVE  Ac!Notified(l)
  <1>1. /\ Ac!Registered /\ Ac!Playing /\ Ac!Participates(l) /\ unit[l] # "NONE"
    BY DEF Ac!Credentials, Ac!Units
  <1>2. out = {}
    <2>1. CASE l = "m"
      BY <1>1, <2>1 DEF BracketInv, OneKind, ReferencesExist, ExistingUnits, Ac!TypeOK, Ac!Rounds
    <2>2. CASE l \in Ac!Rounds
      <3>1. l \in inGroup /\ unit[l] = "LIVE"
        BY <1>1, <2>2 DEF Ac!Participates, BracketInv, RoundsInOrder, Ac!TypeOK, Ac!Rounds, Ac!Units
      <3> QED BY <3>1 DEF BracketInv, PlayersAreIn
    <2> QED BY <2>1, <2>2 DEF Ac!Units, Ac!Rounds
  <1> QED BY <1>1, <1>2 DEF Ac!Notified, Ac!Participates, Ac!Rounds

\* Without wild cards and with one kind of match, the notice that a room is open goes to
\* those who can open it, and to all of them while the match is on.
THEOREM NoticesFindRooms ==
    ASSUME "wildCard" \notin Env, "mixed" \notin Env
    PROVE  (Ac!Spec => Ac!NoticeFindsTheRoom) /\ (SpecAll => NoticeFindsTheRoom)
  <1> DEFINE Here(l) ==
               /\ Ac!Notified(l) /\ room[l] = "RELEASED" => Ac!Credentials(l) = "ROOM"
               /\ l \in Ac!Units /\ unit[l] # "COMPLETED" /\ Ac!Credentials(l) = "ROOM" => Ac!Notified(l)
             AllHere == (\A l \in Ac!Levels : Here(l))
             NewOnes == (\A l \in told' \ told :
               /\ (Ac!Notified(l) /\ room[l] = "RELEASED" => Ac!Credentials(l) = "ROOM")'
               /\ (l \in Ac!Units /\ unit[l] # "COMPLETED" /\ Ac!Credentials(l) = "ROOM" => Ac!Notified(l))')
  <1>1. Ac!Init => BracketInv
    BY BracketInit
  <1>2. Ac!TypeOK /\ BracketInv /\ [Ac!Next]_(Ac!vars) => BracketInv'
    BY BracketStep
  <1>3. Ac!TypeOK /\ BracketInv => AllHere
    <2> SUFFICES ASSUME Ac!TypeOK, BracketInv, NEW l \in Ac!Levels PROVE Here(l)
      OBVIOUS
    <2>1. Ac!Notified(l) /\ room[l] = "RELEASED" => Ac!Credentials(l) = "ROOM"
      BY NotifiedCanOpen DEF BracketInv, ReferencesExist
    <2>2. l \in Ac!Units /\ unit[l] # "COMPLETED" /\ Ac!Credentials(l) = "ROOM" => Ac!Notified(l)
      BY WhoCanOpenIsNotified
    <2> QED BY <2>1, <2>2
  <1>4. Ac!TypeOK' /\ AllHere' => NewOnes
    BY DEF Ac!TypeOK
  <1> HIDE DEF AllHere, NewOnes
  <1>5. Ac!Spec => [][NewOnes]_(Ac!vars)
    BY <1>1, <1>2, <1>3, <1>4, AccessTyped, PTL DEF Ac!Spec
  <1>6. Ac!Spec => Ac!NoticeFindsTheRoom
    BY <1>5 DEF Ac!NoticeFindsTheRoom, NewOnes
  <1> QED BY <1>6, EachServiceRuns DEF NoticeFindsTheRoom
=============================================================================
