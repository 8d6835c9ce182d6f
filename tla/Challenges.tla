---------------------------- MODULE Challenges ----------------------------
(***************************************************************************)
(* Challenges of challenges.service.ts: a player submits a proof, an admin *)
(* approves or rejects it, the player claims the reward.  Both the claim   *)
(* and the approval credit XP.                                             *)
(*                                                                         *)
(* Every handler reads first and writes in a later database call, so a     *)
(* request in flight keeps what it read.  Proofs and files are left out:   *)
(* a submission either stores its file or fails.  Whoever looks a rank up  *)
(* (users.service.ts) writes it as well, when it has fallen behind the XP. *)
(***************************************************************************)
EXTENDS Integers, FiniteSets

CONSTANTS
    Users, Items,    \* players; challenges
    Requests,        \* requests that can be in flight together
    Rewards,         \* values rewardXp takes
    MaxXp,           \* bound on the XP a player is granted
    Env              \* the outside behaviours that are possible

EnvBehaviours == {
    "claimRace",     \* another credit of the same player runs beside a claim
    "deleteRace" }   \* a challenge is deleted while other requests run

ChallengeStatus == {"ACTIVE", "PROOF_SUBMITTED", "PROOF_REJECTED", "COMPLETED", "CLAIMED"}

\* RANKS: the XP at which each rank begins.
MinXP == <<0, 500, 1500, 3000, 5500, 9000, 14000, 20000, 28000, 38000, 50000, 65000,
           85000, 110000>>
RankNumbers == 1..14

\* Mutant: the first rank whose minimum is not below the XP.
IsRankFromBelow(n, xp) == xp <= MinXP[n] /\ \A k \in RankNumbers : k < n => MinXP[k] < xp

\* calculateRank: the highest rank whose minimum is reached.
IsRankOf(n, xp) == MinXP[n] <= xp /\ \A k \in RankNumbers : k > n => MinXP[k] > xp
CalculateRank(xp) == CHOOSE n \in RankNumbers : IsRankOf(n, xp)

VARIABLES
    challenge,       \* challenge rows: [state, reward]; new is not created yet
    progress,        \* userChallenge rows: [exists, status, isCompleted, isClaimed]
    xp, rank,        \* columns of the user
    credits,         \* (history) how often a reward was credited: [claim, approval]
    granted,         \* (history) the sum of the rewards credited to a user
    req              \* requests in flight

vars == <<challenge, progress, xp, rank, credits, granted, req>>

Pcs == {"idle", "claimCheck", "claimWrite", "submitWrite", "approveWrite", "deleteWrite",
        "rankWrite"}
Kinds == {"claim", "approval"}

NoRow == [exists |-> FALSE, status |-> "ACTIVE", isCompleted |-> FALSE, isClaimed |-> FALSE]
None == "none"
NoRequest == [pc |-> "idle", user |-> None, item |-> None, xp |-> 0, reward |-> 0]

TypeOK ==
    /\ challenge \in [Items -> [state : {"new", "live", "deleted"}, reward : Rewards]]
    /\ progress \in [Users \X Items -> [exists : BOOLEAN, status : ChallengeStatus,
                                        isCompleted : BOOLEAN, isClaimed : BOOLEAN]]
    /\ xp \in [Users -> Nat] /\ granted \in [Users -> Nat]
    /\ rank \in [Users -> RankNumbers]
    /\ credits \in [Kinds -> [Users \X Items -> Nat]]
    /\ req \in [Requests -> [pc : Pcs, user : Users \cup {None}, item : Items \cup {None},
                             xp : Nat, reward : Rewards \cup {0}]]

Init ==
    /\ challenge \in [Items -> [state : {"new", "live"}, reward : Rewards]]
    /\ progress = [k \in Users \X Items |-> NoRow]
    /\ xp = [u \in Users |-> 0] /\ granted = [u \in Users |-> 0]
    /\ rank = [u \in Users |-> 1]
    /\ credits = [k \in Kinds |-> [i \in Users \X Items |-> 0]]
    /\ req = [r \in Requests |-> NoRequest]

Key(r) == <<req[r].user, req[r].item>>
ClaimsOf(u) == {r \in Requests : req[r].user = u /\ req[r].pc \in {"claimCheck", "claimWrite"}}
CreditsOf(u) == ClaimsOf(u) \cup {r \in Requests : req[r].user = u /\ req[r].pc = "approveWrite"}
Others(r) == {s \in Requests \ {r} : req[s].pc \notin {"idle", "rankWrite"}}

Begin(r, u, c, pc, readXp, reward) ==
    /\ "deleteRace" \in Env \/ \A s \in Requests : req[s].pc # "deleteWrite"
    /\ req' = [req EXCEPT ![r] = [pc |-> pc, user |-> u, item |-> c,
                                  xp |-> readXp, reward |-> reward]]
Finish(r) == req' = [req EXCEPT ![r] = NoRequest]

Credit(kind, u, c, reward) ==
    /\ granted[u] + reward <= MaxXp
    /\ credits' = [credits EXCEPT ![kind][<<u, c>>] = @ + 1]
    /\ granted' = [granted EXCEPT ![u] = @ + reward]

-----------------------------------------------------------------------------
(* claimChallenge: the challenge and the user are read, then the progress   *)
(* row, then one transaction writes the row and an absolute xp.             *)

ClaimRead(r, u, c) ==
    /\ req[r].pc = "idle" /\ challenge[c].state = "live"
    /\ "claimRace" \in Env \/ CreditsOf(u) = {}
    /\ Begin(r, u, c, "claimCheck", xp[u], challenge[c].reward)
    /\ UNCHANGED <<challenge, progress, xp, rank, credits, granted>>

\* Mutant: only the status says that a reward was claimed.
ClaimableByStatus(row) == row.exists /\ row.status # "CLAIMED" /\ row.isCompleted

Claimable(row) ==
    /\ row.exists /\ ~row.isClaimed /\ row.status # "CLAIMED"
    /\ row.isCompleted

ClaimCheck(r) ==
    /\ req[r].pc = "claimCheck"
    /\ \/ Claimable(progress[Key(r)]) /\ req' = [req EXCEPT ![r].pc = "claimWrite"]
       \/ ~Claimable(progress[Key(r)]) /\ Finish(r)
    /\ UNCHANGED <<challenge, progress, xp, rank, credits, granted>>

\* An upsert: a row that vanished is created again while its challenge exists.
ClaimWrite(r) ==
    LET u == req[r].user
        newXP == req[r].xp + req[r].reward
    IN  /\ req[r].pc = "claimWrite" /\ challenge[req[r].item].state = "live"
        /\ progress' = [progress EXCEPT ![Key(r)] =
               [exists |-> TRUE, status |-> "CLAIMED", isClaimed |-> TRUE,
                isCompleted |-> ~@.exists \/ @.isCompleted]]
        /\ xp' = [xp EXCEPT ![u] = newXP]
        /\ rank' = [rank EXCEPT ![u] = CalculateRank(newXP)]
        /\ Credit("claim", u, req[r].item, req[r].reward)
        /\ Finish(r)
        /\ UNCHANGED challenge

(* submitProof: the challenge is read, the file is uploaded, the row is     *)
(* upserted.                                                                *)

SubmitRead(r, u, c) ==
    /\ req[r].pc = "idle" /\ challenge[c].state = "live"
    /\ Begin(r, u, c, "submitWrite", 0, 0)
    /\ UNCHANGED <<challenge, progress, xp, rank, credits, granted>>

SubmitWrite(r) ==
    /\ req[r].pc = "submitWrite" /\ challenge[req[r].item].state = "live"
    /\ progress' = [progress EXCEPT ![Key(r)].exists = TRUE,
                        ![Key(r)].status = "PROOF_SUBMITTED", ![Key(r)].isCompleted = TRUE]
    /\ Finish(r)
    /\ UNCHANGED <<challenge, xp, rank, credits, granted>>

\* The upload fails, or the row a write by id or with a foreign key needs is gone.
Throw(r) ==
    /\ \/ req[r].pc \in {"submitWrite", "rankWrite"}
       \/ req[r].pc = "claimWrite" /\ challenge[req[r].item].state # "live"
       \/ req[r].pc = "approveWrite" /\ ~progress[Key(r)].exists
    /\ Finish(r)
    /\ UNCHANGED <<challenge, progress, xp, rank, credits, granted>>

(* approveProof: the status is checked on a read, the XP is incremented.    *)

ApproveRead(r, u, c) ==
    /\ req[r].pc = "idle" /\ progress[<<u, c>>].exists
    /\ progress[<<u, c>>].status \notin {"COMPLETED", "CLAIMED"}
    /\ "claimRace" \in Env \/ ClaimsOf(u) = {}
    /\ Begin(r, u, c, "approveWrite", 0, challenge[c].reward)
    /\ UNCHANGED <<challenge, progress, xp, rank, credits, granted>>

ApproveWrite(r) ==
    LET u == req[r].user
    IN  /\ req[r].pc = "approveWrite" /\ progress[Key(r)].exists
        /\ progress' = [progress EXCEPT ![Key(r)].status = "COMPLETED",
                                        ![Key(r)].isCompleted = TRUE]
        /\ xp' = [xp EXCEPT ![u] = @ + req[r].reward]
        /\ Credit("approval", u, req[r].item, req[r].reward)
        /\ Finish(r)
        /\ UNCHANGED <<challenge, rank>>

\* rejectProof looks at no status, and clears neither isCompleted nor isClaimed.
RejectProof(u, c) ==
    /\ progress[<<u, c>>].exists
    /\ progress' = [progress EXCEPT ![<<u, c>>].status = "PROOF_REJECTED"]
    /\ UNCHANGED <<challenge, xp, rank, credits, granted, req>>

(* createChallenge, updateChallenge, deleteChallenge *)

CreateChallenge(c) ==
    /\ challenge[c].state = "new"
    /\ \E x \in Rewards : challenge' = [challenge EXCEPT ![c] = [state |-> "live", reward |-> x]]
    /\ UNCHANGED <<progress, xp, rank, credits, granted, req>>

UpdateChallenge(c) ==
    /\ challenge[c].state = "live"
    /\ \E x \in Rewards : challenge' = [challenge EXCEPT ![c].reward = x]
    /\ UNCHANGED <<progress, xp, rank, credits, granted, req>>

\* With progress the challenge is only hidden, which changes nothing here.
DeleteRead(r, u, c) ==
    /\ req[r].pc = "idle" /\ challenge[c].state = "live"
    /\ \A v \in Users : ~progress[<<v, c>>].exists
    /\ "deleteRace" \in Env \/ Others(r) = {}
    /\ Begin(r, u, c, "deleteWrite", 0, 0)
    /\ UNCHANGED <<challenge, progress, xp, rank, credits, granted>>

\* The delete cascades to the progress rows.
DeleteWrite(r) ==
    LET c == req[r].item
    IN  /\ req[r].pc = "deleteWrite"
        /\ challenge' = [challenge EXCEPT ![c].state = "deleted"]
        /\ progress' = [k \in Users \X Items |-> IF k[2] = c THEN NoRow ELSE progress[k]]
        /\ Finish(r)
        /\ UNCHANGED <<xp, rank, credits, granted>>

(* getUserRank: the XP is read, and a rank that differs from what it gives  *)
(* is written by an update nobody waits for.                                *)

RankRead(r, u) ==
    /\ req[r].pc = "idle" /\ rank[u] # CalculateRank(xp[u])
    /\ req' = [req EXCEPT ![r] = [pc |-> "rankWrite", user |-> u, item |-> None,
                                  xp |-> xp[u], reward |-> 0]]
    /\ UNCHANGED <<challenge, progress, xp, rank, credits, granted>>

RankWrite(r) ==
    /\ req[r].pc = "rankWrite"
    /\ rank' = [rank EXCEPT ![req[r].user] = CalculateRank(req[r].xp)]
    /\ Finish(r)
    /\ UNCHANGED <<challenge, progress, xp, credits, granted>>

-----------------------------------------------------------------------------
Next ==
    \/ \E r \in Requests :
        \/ \E u \in Users, c \in Items :
            \/ ClaimRead(r, u, c) \/ SubmitRead(r, u, c)
            \/ ApproveRead(r, u, c) \/ DeleteRead(r, u, c)
        \/ ClaimCheck(r) \/ ClaimWrite(r) \/ SubmitWrite(r)
        \/ ApproveWrite(r) \/ DeleteWrite(r) \/ RankWrite(r) \/ Throw(r)
        \/ \E u \in Users : RankRead(r, u)
    \/ \E u \in Users, c \in Items : RejectProof(u, c)
    \/ \E c \in Items : CreateChallenge(c) \/ UpdateChallenge(c)

Spec == Init /\ [][Next]_vars

-----------------------------------------------------------------------------
(* Properties *)

\* Two writers of the rank column use an XP they have read before: a claim, which writes
\* that XP as well, and whoever looks the rank up, who does not wait for the update.
\* Approvals raise the XP without it.  As long as no credit overlaps a claim of the same
\* player, which takes XP away again, a late rank is at worst too low: nobody is shown
\* one that their XP does not reach.
RankNeverAhead == \A u \in Users : MinXP[rank[u]] <= xp[u]

\* Approvals increment xp and claims overwrite it; as long as no other credit
\* of the player runs beside a claim, no reward is lost and none appears from nowhere.
XpIsGranted == \A u \in Users : xp[u] = granted[u]

\* A claim is refused once the row is claimed, whatever submissions, approvals
\* and rejections rewrote the row's status since.
ClaimedOnce == \A k \in Users \X Items : credits["claim"][k] <= 1

\* Nobody is credited a challenge without having submitted a proof for it: the row that
\* carries the submission is never lost after a credit.
CreditsHaveProgress ==
    \A k \in Users \X Items :
        (\E kind \in Kinds : credits[kind][k] > 0) => progress[k].exists /\ progress[k].isCompleted

\* A player has the XP he has earned: all of it, from proofs he has submitted, and from no
\* claim twice.
RewardsAreEarned == XpIsGranted /\ ClaimedOnce /\ CreditsHaveProgress
=============================================================================
