----------------------- MODULE SlotAllocation_proofs -----------------------
(***************************************************************************)
(* Theorems about SlotAllocation for any number of teams and requests, any *)
(* capacity and any environment the hypotheses do not exclude.             *)
(***************************************************************************)
EXTENDS SlotAllocation, TLAPS, FiniteSetTheorems

-----------------------------------------------------------------------------
(* Data: submissions, requests, least free slots *)

\* WithStatus relabels entries of a submission sequence and keeps its type.
LEMMA WithStatusType ==
  ASSUME NEW s \in Seq(Submission), NEW ids, NEW new \in SubmissionStatus
  PROVE  WithStatus(s, ids, new) \in Seq(Submission)
<1>1. Len(s) \in Nat /\ DOMAIN s = 1..Len(s)
  OBVIOUS
<1>2. \A i \in 1..Len(s) : s[i] \in Submission
  OBVIOUS
<1>3. \A i \in 1..Len(s) : [s[i] EXCEPT !.status = new] \in Submission
  BY <1>2 DEF Submission
<1>4. WithStatus(s, ids, new) \in [1..Len(s) -> Submission]
  BY <1>1, <1>2, <1>3 DEF WithStatus
<1> QED BY <1>1, <1>4

\* A DECLINED approval, and nothing else, is new in the submissions.
LEMMA DeclineType ==
  ASSUME subs \in [Teams -> Seq(Submission)], NEW t \in Teams, NEW id \in ActiveIds(t),
         NEW new, new = [subs EXCEPT ![t][id].declined = TRUE]
  PROVE  /\ new \in [Teams -> Seq(Submission)]
         /\ \A u \in Teams \ {t} : new[u] = subs[u]
         /\ DOMAIN new[t] = DOMAIN subs[t]
         /\ \A i \in DOMAIN subs[t] :
               /\ new[t][i].status = subs[t][i].status
               /\ new[t][i].version = subs[t][i].version
         /\ new[t][id].declined
<1> DEFINE s == subs[t]
           d == [s EXCEPT ![id].declined = TRUE]
<1>1. s \in Seq(Submission) /\ id \in DOMAIN s
  BY DEF ActiveIds
<1>2. Len(s) \in Nat /\ DOMAIN s = 1..Len(s) /\ \A i \in 1..Len(s) : s[i] \in Submission
  BY <1>1
<1>3. [s[id] EXCEPT !.declined = TRUE] \in Submission
  BY <1>1, <1>2 DEF Submission
<1>4. /\ [s[id] EXCEPT !.declined = TRUE].declined
      /\ [s[id] EXCEPT !.declined = TRUE].status = s[id].status
      /\ [s[id] EXCEPT !.declined = TRUE].version = s[id].version
  BY <1>1, <1>2 DEF Submission
<1>5. DOMAIN d = DOMAIN s /\ d[id] = [s[id] EXCEPT !.declined = TRUE]
      /\ \A i \in DOMAIN s \ {id} : d[i] = s[i]
  BY <1>1, <1>2
<1>6. d \in [1..Len(s) -> Submission]
  BY <1>2, <1>3, <1>5
<1>7. d \in Seq(Submission)
  BY <1>2, <1>6
<1>8. new[t] = d /\ \A u \in Teams \ {t} : new[u] = subs[u]
  OBVIOUS
<1>9. new \in [Teams -> Seq(Submission)]
  BY <1>7
<1> HIDE DEF d
<1> QED BY <1>1, <1>4, <1>5, <1>8, <1>9

\* Cancelling a team's ACTIVE submissions keeps the type of subs.
LEMMA CancelActiveType ==
  ASSUME subs \in [Teams -> Seq(Submission)], NEW t \in Teams
  PROVE  CancelActive(t) \in [Teams -> Seq(Submission)]
<1>1. WithStatus(subs[t], ActiveIds(t), "CANCELLED") \in Seq(Submission)
  BY WithStatusType DEF SubmissionStatus
<1> QED BY <1>1 DEF CancelActive

\* A registration row keeps its type when only its status is written.
LEMMA RelabelType ==
  ASSUME reg \in [Teams -> [status : RegistrationStatus, slot : 0..MaxCapacity]],
         NEW t \in Teams, NEW s \in RegistrationStatus
  PROVE  [reg EXCEPT ![t].status = s]
            \in [Teams -> [status : RegistrationStatus, slot : 0..MaxCapacity]]
<1>1. [reg[t] EXCEPT !.status = s] \in [status : RegistrationStatus, slot : 0..MaxCapacity]
  OBVIOUS
<1> QED BY <1>1

\* Every nonempty set of naturals has a least element.
LEMMA LeastExists ==
  ASSUME NEW S, S \subseteq Nat, S # {}
  PROVE  \E s \in S : \A u \in S : s <= u
<1> DEFINE R == OpToRel(<, Nat)
<1>1. IsWellFoundedOn(R, Nat)
  BY NatLessThanWellFounded
<1>2. \A a, b \in Nat : a < b => <<a, b>> \in R
  BY DEF OpToRel
<1> HIDE DEF R
<1>3. PICK x \in S : \A y \in S : ~(<<y, x>> \in R)
  BY <1>1, WFMin
<1>4. ASSUME NEW y \in S PROVE x <= y
  <2>1. x \in Nat /\ y \in Nat
    OBVIOUS
  <2>2. ~(<<y, x>> \in R)
    BY <1>3
  <2>3. ~(y < x)
    BY <1>2, <2>1, <2>2
  <2> QED BY <2>1, <2>3
<1> QED BY <1>4

\* Every nonempty set of submission ids has a newest element.
LEMMA GreatestExists ==
  ASSUME NEW n \in Nat, NEW S, S \subseteq 1..n, S # {}
  PROVE  \E s \in S : \A u \in S : u <= s
<1> DEFINE above == {n - s : s \in S}
<1>1. above \subseteq Nat /\ above # {}
  <2>1. \A s \in S : n - s \in Nat
    OBVIOUS
  <2> QED BY <2>1
<1>2. PICK d \in above : \A e \in above : d <= e
  BY <1>1, LeastExists
<1>3. PICK s \in S : d = n - s
  OBVIOUS
<1>4. ASSUME NEW u \in S PROVE u <= s
  <2>1. n - u \in above
    OBVIOUS
  <2>2. n - s <= n - u
    BY <1>2, <1>3, <2>1
  <2>3. s \in Nat /\ u \in Nat
    OBVIOUS
  <2> QED BY <2>2, <2>3
<1> QED BY <1>4

\* LowestFreeSlot returns a slot of the range it searches; the least free one
\* when one is free, and 1 otherwise.
LEMMA LowestFreeSlotProperty ==
  ASSUME NEW cap \in Nat \ {0}
  PROVE  /\ LowestFreeSlot(cap) \in 1..cap
         /\ (1..cap) \ UsedSlots # {} =>
               /\ LowestFreeSlot(cap) \in (1..cap) \ UsedSlots
               /\ \A u \in (1..cap) \ UsedSlots : LowestFreeSlot(cap) <= u
         /\ (1..cap) \ UsedSlots = {} => LowestFreeSlot(cap) = 1
<1> DEFINE free == (1..cap) \ UsedSlots
<1>1. CASE free = {}
  BY <1>1 DEF LowestFreeSlot
<1>2. CASE free # {}
  <2>1. free \subseteq Nat
    OBVIOUS
  <2>2. \E s \in free : \A u \in free : s <= u
    BY <1>2, <2>1, LeastExists
  <2>3. LowestFreeSlot(cap) = CHOOSE s \in free : \A u \in free : s <= u
    BY <1>2 DEF LowestFreeSlot
  <2> QED BY <1>2, <2>2, <2>3
<1> QED BY <1>1, <1>2

-----------------------------------------------------------------------------
(* Type correctness *)

\* Where a request goes next, its record keeps its type.
LEMMA RequestTypes ==
  ASSUME TypeOK, NEW r \in Handlers
  PROVE  /\ Idle \in RequestRecord
         /\ Finish(r) => req' \in [Handlers -> RequestRecord]
         /\ ThenPromote(r) => req' \in [Handlers -> RequestRecord]
         /\ Again(r) => req' \in [Handlers -> RequestRecord]
         /\ \A pc \in TeamPcs \cup PromotionPcs :
               Goto(r, pc) => req' \in [Handlers -> RequestRecord]
<1>1. Idle \in RequestRecord
  BY MaxCapacityAssumption DEF Idle, RequestRecord, RegistrationStatus
<1>2. req \in [Handlers -> RequestRecord]
  BY DEF TypeOK
<1>3. [Idle EXCEPT !.pc = "promoteStart"] \in RequestRecord
  BY <1>1 DEF RequestRecord, PromotionPcs
<1>4. [Idle EXCEPT !.pc = "promoteCheck", !.cap = req[r].cap] \in RequestRecord
  BY <1>1, <1>2 DEF RequestRecord, PromotionPcs
<1>5. \A pc \in TeamPcs \cup PromotionPcs : [req[r] EXCEPT !.pc = pc] \in RequestRecord
  BY <1>2 DEF RequestRecord
<1> QED BY <1>1, <1>2, <1>3, <1>4, <1>5 DEF Finish, ThenPromote, Again, Goto

LEMMA InitTypeOK == Init => TypeOK
<1> SUFFICES ASSUME Init PROVE TypeOK
  OBVIOUS
<1>1. req \in [Handlers -> RequestRecord]
  BY MaxCapacityAssumption DEF Init, Idle, RequestRecord, RegistrationStatus
<1>2. maxSlots \in 1..MaxCapacity /\ registeredCount \in Int
  BY DEF Init
<1>3. reg \in [Teams -> [status : RegistrationStatus, slot : 0..MaxCapacity]]
  BY MaxCapacityAssumption DEF Init, RegistrationStatus
<1>4. subs \in [Teams -> Seq(Submission)]
  BY DEF Init
<1>5. queue \in Seq(Teams)
  BY DEF Init
<1>6. \A r \in Handlers : req[r].pc = "idle"
  BY DEF Init, Idle
<1>7. \A r \in Handlers : req[r].pc \notin TeamPcs \cup {"promoteTx", "invalidateTx"}
  BY <1>6 DEF TeamPcs
<1> QED BY <1>1, <1>2, <1>3, <1>4, <1>5, <1>7, SwitchAssumption
        DEF Init, TypeOK, TournamentStatus, TeamRegistrationState, WaitlistEntryStatus

\* TypeOK in three parts, by the variables the actions write together.
TypeOKRows ==
    /\ status \in TournamentStatus
    /\ started \in BOOLEAN
    /\ maxSlots \in 1..MaxCapacity
    /\ requireApproval \in BOOLEAN
    /\ registeredCount \in Int
    /\ reg \in [Teams -> [status : RegistrationStatus, slot : 0..MaxCapacity]]

TypeOKTeams ==
    /\ teamState \in [Teams -> TeamRegistrationState]
    /\ rosterOk \in [Teams -> BOOLEAN]
    /\ version \in [Teams -> Nat]
    /\ subs \in [Teams -> Seq(Submission)]
    /\ entry \in [Teams -> WaitlistEntryStatus]
    /\ queue \in Seq(Teams)

TypeOKRequests ==
    /\ req \in [Handlers -> RequestRecord]
    /\ \A r \in Handlers :
          req[r].pc \in TeamPcs \cup {"promoteTx", "invalidateTx"} => req[r].team \in Teams

LEMMA TypeOKParts == TypeOK <=> TypeOKRows /\ TypeOKTeams /\ TypeOKRequests
BY DEF TypeOK, TypeOKRows, TypeOKTeams, TypeOKRequests, Submission

\* Both outcomes of finalizeRegistration keep the types of the rows.
LEMMA FinalizeTypeOK ==
  ASSUME TypeOK, NEW t \in Teams, NEW id, Finalize(t, id)
  PROVE  TypeOKRows' /\ TypeOKTeams'
<1>0. TypeOKRows /\ TypeOKTeams
  BY TypeOKParts
<1>1. CASE FinalizeConfirms(t, id)
  <2>1. LowestFreeSlot(maxSlots) \in 1..maxSlots
    BY <1>0, LowestFreeSlotProperty DEF TypeOKRows
  <2>2. reg' \in [Teams -> [status : RegistrationStatus, slot : 0..MaxCapacity]]
    BY <1>0, <1>1, <2>1, MaxCapacityAssumption
       DEF TypeOKRows, FinalizeConfirms, RegistrationStatus
  <2>3. subs' \in [Teams -> Seq(Submission)]
    <3>1. WithStatus(subs[t], {id}, "COMPLETED") \in Seq(Submission)
      BY <1>0, WithStatusType DEF TypeOKTeams, SubmissionStatus
    <3> QED BY <1>0, <1>1, <3>1 DEF TypeOKTeams, FinalizeConfirms
  <2>4. TypeOKRows'
    BY <1>0, <1>1, <2>2 DEF TypeOKRows, FinalizeConfirms, tournamentVars
  <2>5. TypeOKTeams'
    BY <1>0, <1>1, <2>3 DEF TypeOKTeams, FinalizeConfirms, TeamRegistrationState,
                            WaitlistEntryStatus
  <2> QED BY <2>4, <2>5
<1>2. CASE FinalizeWaitlists(t)
  <2>1. TypeOKRows'
    BY <1>0, <1>2 DEF TypeOKRows, FinalizeWaitlists, tournamentVars
  <2>2. TypeOKTeams'
    BY <1>0, <1>2 DEF TypeOKTeams, FinalizeWaitlists, TeamRegistrationState,
                      WaitlistEntryStatus
  <2> QED BY <2>1, <2>2
<1> QED BY <1>1, <1>2 DEF Finalize

\* A request that ends, or goes back to a point where it is about no team.
LEMMA RestartTypeOK ==
  ASSUME TypeOK, NEW r \in Handlers, Finish(r) \/ ThenPromote(r) \/ Again(r)
  PROVE  TypeOKRequests'
<1>1. req \in [Handlers -> RequestRecord]
  BY DEF TypeOK
<1>2. req' \in [Handlers -> RequestRecord]
  BY RequestTypes
<1>3. \A h \in Handlers \ {r} : req'[h] = req[h]
  BY <1>1 DEF Finish, ThenPromote, Again
<1>4. req'[r].pc \in {"idle", "promoteStart", "promoteCheck"}
  <2>1. Idle.pc = "idle"
    BY DEF Idle
  <2>2. [Idle EXCEPT !.pc = "promoteStart"].pc = "promoteStart"
    BY DEF Idle
  <2>3. [Idle EXCEPT !.pc = "promoteCheck", !.cap = req[r].cap].pc = "promoteCheck"
    BY DEF Idle
  <2> QED BY <1>1, <2>1, <2>2, <2>3 DEF Finish, ThenPromote, Again
<1>5. req'[r].pc \notin TeamPcs \cup {"promoteTx", "invalidateTx"}
  BY <1>4 DEF TeamPcs
<1>6. \A h \in Handlers :
         req[h].pc \in TeamPcs \cup {"promoteTx", "invalidateTx"} => req[h].team \in Teams
  BY DEF TypeOK
<1>7. ASSUME NEW h \in Handlers, req'[h].pc \in TeamPcs \cup {"promoteTx", "invalidateTx"}
      PROVE  req'[h].team \in Teams
  <2>1. h # r
    BY <1>5, <1>7
  <2> QED BY <1>3, <1>6, <1>7, <2>1
<1> QED BY <1>2, <1>7 DEF TypeOKRequests

\* A request that moves to another control point about a team it now names.
LEMMA MoveTypeOK ==
  ASSUME TypeOK, NEW r \in Handlers, NEW rec \in RequestRecord, rec.team \in Teams,
         req' = [req EXCEPT ![r] = rec]
  PROVE  TypeOKRequests'
<1>1. req \in [Handlers -> RequestRecord]
  BY DEF TypeOK
<1>2. req' \in [Handlers -> RequestRecord] /\ req'[r] = rec
  BY <1>1
<1>3. \A h \in Handlers \ {r} : req'[h] = req[h]
  BY <1>1
<1>4. \A h \in Handlers :
         req[h].pc \in TeamPcs \cup {"promoteTx", "invalidateTx"} => req[h].team \in Teams
  BY DEF TypeOK
<1> QED BY <1>2, <1>3, <1>4 DEF TypeOKRequests

\* A request that moves to a control point that is about no team in particular.
LEMMA AwayTypeOK ==
  ASSUME TypeOK, NEW r \in Handlers, NEW rec \in RequestRecord,
         rec.pc \notin TeamPcs \cup {"promoteTx", "invalidateTx"},
         req' = [req EXCEPT ![r] = rec]
  PROVE  TypeOKRequests'
<1>1. req \in [Handlers -> RequestRecord]
  BY DEF TypeOK
<1>2. req' \in [Handlers -> RequestRecord] /\ req'[r] = rec
  BY <1>1
<1>3. \A h \in Handlers \ {r} : req'[h] = req[h]
  BY <1>1
<1>4. \A h \in Handlers :
         req[h].pc \in TeamPcs \cup {"promoteTx", "invalidateTx"} => req[h].team \in Teams
  BY DEF TypeOK
<1> QED BY <1>2, <1>3, <1>4 DEF TypeOKRequests

\* What a request in flight does next keeps the types.
LEMMA ContinueTypeOK ==
  ASSUME TypeOK, NEW r \in Handlers, Continue(r)
  PROVE  TypeOK'
<1> USE TypeOKParts DEF tournamentVars, teamVars, queueVars
<1> DEFINE t == req[r].team
<1>a. TypeOKRows /\ TypeOKTeams /\ TypeOKRequests
  OBVIOUS
<1>b. SUFFICES TypeOKRows' /\ TypeOKTeams' /\ TypeOKRequests'
  BY DEF TypeOKRows, TypeOKTeams, TypeOKRequests, TypeOK, Submission
<1>c. req[r] \in RequestRecord
  BY <1>a DEF TypeOKRequests
<1>d. req[r].pc \in TeamPcs \cup {"promoteTx", "invalidateTx"} => t \in Teams
  BY <1>a DEF TypeOKRequests
<1>e. t \in Teams => CancelActive(t) \in [Teams -> Seq(Submission)]
  BY <1>a, CancelActiveType DEF TypeOKTeams
<1>1. CASE RegisterFinalize(r)
  <2>1. t \in Teams
    BY <1>1, <1>d DEF RegisterFinalize, TeamPcs
  <2> QED BY <1>1, <2>1, FinalizeTypeOK, RestartTypeOK DEF RegisterFinalize
<1>2. CASE RegisterSubmit(r)
  <2>1. t \in Teams
    BY <1>2, <1>d DEF RegisterSubmit, TeamPcs
  <2>2. [status |-> "ACTIVE", version |-> req[r].version, declined |-> FALSE] \in Submission
    BY <1>c DEF RequestRecord, Submission, SubmissionStatus
  <2>3. TypeOKTeams'
    BY <1>2, <1>a, <1>e, <2>1, <2>2 DEF RegisterSubmit, TypeOKTeams, TeamRegistrationState
  <2> QED BY <1>2, <1>a, <2>3, RestartTypeOK DEF RegisterSubmit, TypeOKRows
<1>3. CASE LeaveQueue(r)
  <2>1. t \in Teams
    BY <1>3, <1>d DEF LeaveQueue, TeamPcs
  <2>2. TypeOKTeams'
    BY <1>3, <1>a, <1>e, <2>1 DEF LeaveQueue, TypeOKTeams, TeamRegistrationState, WaitlistEntryStatus
  <2> QED BY <1>3, <1>a, <2>2, RestartTypeOK DEF LeaveQueue, TypeOKRows
<1>4. CASE Unregister(r)
  <2>1. t \in Teams
    BY <1>4, <1>d DEF Unregister, TeamPcs
  <2>2. TypeOKTeams'
    BY <1>4, <1>a, <1>e, <2>1 DEF Unregister, TypeOKTeams, TeamRegistrationState
  <2>3. reg' \in [Teams -> [status : RegistrationStatus, slot : 0..MaxCapacity]]
    BY <1>4, <1>a, <2>1, RelabelType DEF Unregister, TypeOKRows, RegistrationStatus
  <2>4. TypeOKRows'
    BY <1>4, <1>a, <2>3 DEF Unregister, TypeOKRows
  <2> QED BY <1>4, <2>2, <2>4, RestartTypeOK DEF Unregister
<1>5. CASE Disqualify(r)
  <2>1. t \in Teams
    BY <1>5, <1>d DEF Disqualify, TeamPcs
  <2>2. reg' \in [Teams -> [status : RegistrationStatus, slot : 0..MaxCapacity]]
    BY <1>5, <1>a, <2>1, RelabelType DEF Disqualify, TypeOKRows, RegistrationStatus
  <2>3. registeredCount' \in Int
    BY <1>5, <1>a DEF Disqualify, TypeOKRows, DecrementIfPositive
  <2>4. TypeOKRows'
    BY <1>5, <1>a, <2>2, <2>3 DEF Disqualify, TypeOKRows
  <2>5. TypeOKTeams'
    BY <1>5, <1>a DEF Disqualify, TypeOKTeams, TeamRegistrationState
  <2> QED BY <1>5, <2>4, <2>5, RestartTypeOK DEF Disqualify
<1>6. CASE StatusWrite(r)
  <2>1. TypeOKRows'
    BY <1>6, <1>a, <1>c DEF StatusWrite, TypeOKRows, RequestRecord
  <2>2. TypeOKRequests'
    <3>1. [req[r] EXCEPT !.pc = "statusDecrement"] \in RequestRecord
      BY <1>c DEF RequestRecord, TeamPcs
    <3>2. t \in Teams
      BY <1>6, <1>d DEF StatusWrite, TeamPcs
    <3>3. [req[r] EXCEPT !.pc = "statusDecrement"].team = t
      BY <1>c DEF RequestRecord
    <3>4. CASE Goto(r, "statusDecrement")
      <4>1. req' = [req EXCEPT ![r] = [req[r] EXCEPT !.pc = "statusDecrement"]]
        BY <3>4 DEF Goto
      <4> QED BY <3>1, <3>2, <3>3, <4>1, MoveTypeOK
    <3> QED BY <1>6, <3>4, RestartTypeOK DEF StatusWrite
  <2> QED BY <1>6, <1>a, <2>1, <2>2 DEF StatusWrite, TypeOKTeams
<1>7. CASE StatusDecrement(r)
  <2>1. TypeOKRows'
    BY <1>7, <1>a DEF StatusDecrement, TypeOKRows, DecrementIfPositive
  <2>2. TypeOKRequests'
    <3>1. [req[r] EXCEPT !.pc = "statusTeam"] \in RequestRecord
      BY <1>c DEF RequestRecord, TeamPcs
    <3>2. t \in Teams
      BY <1>7, <1>d DEF StatusDecrement, TeamPcs
    <3>3. [req[r] EXCEPT !.pc = "statusTeam"].team = t
      BY <1>c DEF RequestRecord
    <3>4. req' = [req EXCEPT ![r] = [req[r] EXCEPT !.pc = "statusTeam"]]
      BY <1>7 DEF StatusDecrement, Goto
    <3> QED BY <3>1, <3>2, <3>3, <3>4, MoveTypeOK
  <2> QED BY <1>7, <1>a, <2>1, <2>2 DEF StatusDecrement, TypeOKTeams
<1>8. CASE StatusTeam(r)
  <2>1. TypeOKTeams'
    BY <1>8, <1>a DEF StatusTeam, TypeOKTeams, TeamRegistrationState
  <2> QED BY <1>8, <1>a, <2>1, RestartTypeOK DEF StatusTeam, TypeOKRows
<1>9. CASE Promotion(r)
  <2>1. CASE PromoteStart(r)
    <3>1. maxSlots \in 0..MaxCapacity
      BY <1>a, MaxCapacityAssumption DEF TypeOKRows
    <3>2. [req[r] EXCEPT !.pc = "promoteCheck", !.cap = maxSlots] \in RequestRecord
      BY <3>1, <1>c DEF RequestRecord, PromotionPcs
    <3>3. [req[r] EXCEPT !.pc = "promoteCheck", !.cap = maxSlots].pc
             \notin TeamPcs \cup {"promoteTx", "invalidateTx"}
      BY <1>c DEF RequestRecord, TeamPcs
    <3>4. [req EXCEPT ![r].pc = "promoteCheck", ![r].cap = maxSlots]
             = [req EXCEPT ![r] = [req[r] EXCEPT !.pc = "promoteCheck", !.cap = maxSlots]]
      BY <1>a DEF TypeOKRequests
    <3>5. TypeOKRequests'
      BY <2>1, <3>2, <3>3, <3>4, AwayTypeOK, RestartTypeOK DEF PromoteStart
    <3> QED BY <1>a, <2>1, <3>5 DEF PromoteStart, TypeOKRows, TypeOKTeams
  <2>2. CASE PromoteCheck(r)
    <3>1. [req[r] EXCEPT !.pc = "promotePick"] \in RequestRecord
      BY <1>c DEF RequestRecord, PromotionPcs
    <3>2. [req[r] EXCEPT !.pc = "promotePick"].pc \notin TeamPcs \cup {"promoteTx", "invalidateTx"}
      BY <1>c DEF RequestRecord, TeamPcs
    <3>3. Goto(r, "promotePick") => req' = [req EXCEPT ![r] = [req[r] EXCEPT !.pc = "promotePick"]]
      BY DEF Goto
    <3>4. TypeOKRequests'
      BY <2>2, <3>1, <3>2, <3>3, AwayTypeOK, RestartTypeOK DEF PromoteCheck
    <3> QED BY <1>a, <2>2, <3>4 DEF PromoteCheck, TypeOKRows, TypeOKTeams
  <2>3. CASE PromotePick(r)
    <3>1. ASSUME NEW u \in Waiting, NEW pc \in {"promoteTx", "invalidateTx"}, NEW sub \in Nat,
                 req' = [req EXCEPT ![r].pc = pc, ![r].team = u, ![r].sub = sub]
          PROVE  TypeOKRequests'
      <4>1. u \in Teams
        BY DEF Waiting
      <4>2. [req[r] EXCEPT !.pc = pc, !.team = u, !.sub = sub] \in RequestRecord
        BY <1>c, <4>1 DEF RequestRecord, PromotionPcs
      <4>3. [req[r] EXCEPT !.pc = pc, !.team = u, !.sub = sub].team = u
        BY <1>c DEF RequestRecord
      <4>4. req' = [req EXCEPT ![r] = [req[r] EXCEPT !.pc = pc, !.team = u, !.sub = sub]]
        BY <1>a, <3>1 DEF TypeOKRequests
      <4> QED BY <4>1, <4>2, <4>3, <4>4, MoveTypeOK
    <3>2. ASSUME Finish(r) PROVE TypeOKRequests'
      BY <3>2, RestartTypeOK
    <3>3. ASSUME NEW u \in Waiting
          PROVE  (IF ActiveIds(u) = {} THEN 0
                  ELSE CHOOSE i \in ActiveIds(u) : \A j \in ActiveIds(u) : j <= i) \in Nat
      <4>1. u \in Teams /\ DOMAIN subs[u] = 1..Len(subs[u]) /\ Len(subs[u]) \in Nat
        BY <1>a DEF Waiting, TypeOKTeams
      <4>2. ActiveIds(u) \subseteq 1..Len(subs[u])
        BY <4>1 DEF ActiveIds
      <4>3. CASE ActiveIds(u) # {}
        <5>1. \E i \in ActiveIds(u) : \A j \in ActiveIds(u) : j <= i
          BY <4>1, <4>2, <4>3, GreatestExists
        <5> QED BY <4>2, <4>3, <5>1
      <4> QED BY <4>3
    <3>4. TypeOKRequests'
      BY <2>3, <3>1, <3>2, <3>3 DEF PromotePick
    <3> QED BY <1>a, <2>3, <3>4 DEF PromotePick, TypeOKRows, TypeOKTeams
  <2>4. CASE Promote(r)
    <3>1. t \in Teams
      BY <2>4, <1>d DEF Promote
    <3>2. LowestFreeSlot(req[r].cap) \in 0..MaxCapacity
      <4>1. req[r].cap \in 0..MaxCapacity
        BY <1>c DEF RequestRecord
      <4>2. CASE req[r].cap = 0
        <5>1. LowestFreeSlot(req[r].cap) = 1
          BY <4>2 DEF LowestFreeSlot
        <5> QED BY <5>1, MaxCapacityAssumption
      <4>3. CASE req[r].cap # 0
        <5>1. LowestFreeSlot(req[r].cap) \in 1..req[r].cap
          BY <4>1, <4>3, LowestFreeSlotProperty, MaxCapacityAssumption
        <5> QED BY <4>1, <5>1, MaxCapacityAssumption
      <4> QED BY <4>2, <4>3
    <3>3. reg' \in [Teams -> [status : RegistrationStatus, slot : 0..MaxCapacity]]
      BY <1>a, <2>4, <3>2 DEF Promote, TypeOKRows, RegistrationStatus
    <3>4. WithStatus(subs[t], {req[r].sub}, "COMPLETED") \in Seq(Submission)
      BY <1>a, <3>1, WithStatusType DEF TypeOKTeams, SubmissionStatus
    <3>5. subs' \in [Teams -> Seq(Submission)]
      BY <1>a, <2>4, <3>1, <3>4 DEF Promote, TypeOKTeams
    <3>6. TypeOKRows'
      BY <1>a, <2>4, <3>3 DEF Promote, TypeOKRows
    <3>7. TypeOKTeams'
      BY <1>a, <2>4, <3>5 DEF Promote, TypeOKTeams, TeamRegistrationState, WaitlistEntryStatus
    <3> QED BY <2>4, <3>6, <3>7, RestartTypeOK DEF Promote
  <2>5. CASE PromoteNothing(r)
    BY <1>a, <2>5, RestartTypeOK DEF PromoteNothing, TypeOKRows, TypeOKTeams
  <2>6. CASE Invalidate(r)
    <3>1. t \in Teams
      BY <2>6, <1>d DEF Invalidate
    <3>2. TypeOKTeams'
      BY <2>6, <1>a, <1>e, <3>1
         DEF Invalidate, TypeOKTeams, TeamRegistrationState, WaitlistEntryStatus
    <3> QED BY <1>a, <2>6, <3>2, RestartTypeOK DEF Invalidate, TypeOKRows
  <2> QED BY <1>9, <2>1, <2>2, <2>3, <2>4, <2>5, <2>6 DEF Promotion
<1>10. CASE Throw(r)
  BY <1>10, <1>a, RestartTypeOK DEF Throw, TypeOKRows, TypeOKTeams
<1> QED BY <1>1, <1>2, <1>3, <1>4, <1>5, <1>6, <1>7, <1>8, <1>9, <1>10 DEF Continue

\* A request that arrives keeps the types.
LEMMA ArriveTypeOK ==
  ASSUME TypeOK, NEW r \in Requests, Arrive(r)
  PROVE  TypeOK'
<1> USE TypeOKParts DEF tournamentVars, teamVars, queueVars
<1>a. TypeOKRows /\ TypeOKTeams /\ TypeOKRequests
  OBVIOUS
<1>b. SUFFICES TypeOKRows' /\ TypeOKTeams' /\ TypeOKRequests'
  BY DEF TypeOKRows, TypeOKTeams, TypeOKRequests, TypeOK, Submission
<1>c. r \in Handlers /\ Idle \in RequestRecord
  BY RequestTypes DEF Handlers
<1>1. ASSUME NEW t \in Teams, RegisterRead(r, t)
      PROVE  TypeOKRows' /\ TypeOKTeams' /\ TypeOKRequests'
  <2>1. [Idle EXCEPT !.pc = "register", !.team = t, !.version = version[t],
                     !.asks = requireApproval] \in RequestRecord
    BY <1>a, <1>c DEF RequestRecord, TeamPcs, TypeOKRows, TypeOKTeams
  <2>2. [Idle EXCEPT !.pc = "register", !.team = t, !.version = version[t],
                     !.asks = requireApproval].team = t
    BY DEF Idle
  <2> QED BY <1>a, <1>1, <1>c, <2>1, <2>2, MoveTypeOK
          DEF RegisterRead, TypeOKRows, TypeOKTeams
<1>2. ASSUME NEW t \in Teams, UnregisterRead(r, t)
      PROVE  TypeOKRows' /\ TypeOKTeams' /\ TypeOKRequests'
  <2>1. ASSUME NEW pc \in TeamPcs
        PROVE  /\ [Idle EXCEPT !.pc = pc, !.team = t] \in RequestRecord
               /\ [Idle EXCEPT !.pc = pc, !.team = t].team = t
    BY <1>c DEF RequestRecord, Idle
  <2>2. {"leaveQueue", "unregister"} \subseteq TeamPcs
    BY DEF TeamPcs
  <2>3. TypeOKRequests'
    BY <1>2, <1>c, <2>1, <2>2, MoveTypeOK DEF UnregisterRead
  <2> QED BY <1>a, <1>2, <2>3 DEF UnregisterRead, TypeOKRows, TypeOKTeams
<1>3. ASSUME NEW t \in Teams, DisqualifyRead(r, t)
      PROVE  TypeOKRows' /\ TypeOKTeams' /\ TypeOKRequests'
  <2> DEFINE rec == [Idle EXCEPT !.pc = "disqualify", !.team = t, !.was = reg[t].status = "CONFIRMED"]
  <2>1. rec \in RequestRecord
    BY <1>c DEF RequestRecord, TeamPcs
  <2>2. rec.team = t
    BY DEF Idle
  <2> QED BY <1>a, <1>3, <1>c, <2>1, <2>2, MoveTypeOK
          DEF DisqualifyRead, TypeOKRows, TypeOKTeams
<1>4. ASSUME NEW t \in Teams, StatusRead(r, t)
      PROVE  TypeOKRows' /\ TypeOKTeams' /\ TypeOKRequests'
  <2>1. PICK target \in RegistrationStatus :
           req' = [req EXCEPT ![r] = [Idle EXCEPT !.pc = "statusWrite", !.team = t,
                                      !.was = reg[t].status = "CONFIRMED", !.target = target]]
    BY <1>4 DEF StatusRead
  <2> DEFINE rec == [Idle EXCEPT !.pc = "statusWrite", !.team = t,
                                 !.was = reg[t].status = "CONFIRMED", !.target = target]
  <2>2. rec \in RequestRecord
    BY <1>c DEF RequestRecord, TeamPcs
  <2>3. rec.team = t
    BY DEF Idle
  <2>4. req' = [req EXCEPT ![r] = rec]
    BY <2>1
  <2> HIDE DEF rec
  <2>5. TypeOKRequests'
    BY <1>c, <2>2, <2>3, <2>4, MoveTypeOK
  <2> QED BY <1>a, <1>4, <2>5 DEF StatusRead, TypeOKRows, TypeOKTeams
<1>5. CASE UpdateTournament(r)
  <2>1. TypeOKRows'
    BY <1>a, <1>5 DEF UpdateTournament, TypeOKRows
  <2>2. TypeOKRequests'
    BY <1>a, <1>5, <1>c, RestartTypeOK DEF UpdateTournament, TypeOKRequests
  <2> QED BY <1>a, <1>5, <2>1, <2>2 DEF UpdateTournament, TypeOKTeams
<1> QED BY <1>1, <1>2, <1>3, <1>4, <1>5 DEF Arrive

\* What the members of a team do, and the drift of a locked roster, keep the types.
LEMMA MembersTypeOK ==
  ASSUME TypeOK, NEW t \in Teams, Members(t) \/ RosterDrift(t)
  PROVE  TypeOK'
<1> USE TypeOKParts DEF tournamentVars, queueVars
<1>a. TypeOKRows /\ TypeOKTeams /\ TypeOKRequests
  OBVIOUS
<1>b. SUFFICES TypeOKRows' /\ TypeOKTeams' /\ TypeOKRequests'
  BY DEF TypeOKRows, TypeOKTeams, TypeOKRequests, TypeOK, Submission
<1>c. CancelActive(t) \in [Teams -> Seq(Submission)]
  BY <1>a, CancelActiveType DEF TypeOKTeams
<1>1. CASE ApproveLast(t)
  BY <1>1, <1>a, FinalizeTypeOK DEF ApproveLast, TypeOKRequests
<1>2. CASE Decline(t)
  <2>1. PICK id \in ActiveIds(t) : subs' = [subs EXCEPT ![t][id].declined = TRUE]
    BY <1>2 DEF Decline
  <2>2. subs' \in [Teams -> Seq(Submission)]
    BY <1>a, <2>1, DeclineType DEF TypeOKTeams
  <2> QED BY <1>2, <1>a, <2>2
          DEF Decline, TypeOKRows, TypeOKTeams, TypeOKRequests, TeamRegistrationState
<1>3. CASE CancelRegistrationRequest(t)
  BY <1>3, <1>a, <1>c DEF CancelRegistrationRequest, TypeOKRows, TypeOKTeams, TypeOKRequests,
                          TeamRegistrationState
<1>4. CASE RosterChange(t)
  <2>1. WithStatus(subs[t], ActiveIds(t), "SUPERSEDED") \in Seq(Submission)
    BY <1>a, WithStatusType DEF TypeOKTeams, SubmissionStatus
  <2>2. subs' \in [Teams -> Seq(Submission)]
    BY <1>4, <1>a, <2>1 DEF RosterChange, TypeOKTeams
  <2>3. version' \in [Teams -> Nat] /\ rosterOk' \in [Teams -> BOOLEAN]
    BY <1>4, <1>a DEF RosterChange, TypeOKTeams
  <2>4. teamState' \in [Teams -> TeamRegistrationState]
    BY <1>4, <1>a DEF RosterChange, TypeOKTeams, TeamRegistrationState
  <2> QED BY <1>4, <1>a, <2>2, <2>3, <2>4 DEF RosterChange, TypeOKRows, TypeOKTeams, TypeOKRequests
<1>5. CASE RosterDrift(t)
  BY <1>5, <1>a DEF RosterDrift, TypeOKRows, TypeOKTeams, TypeOKRequests
<1> QED BY <1>1, <1>2, <1>3, <1>4, <1>5 DEF Members

LEMMA NextTypeOK == TypeOK /\ [Next]_vars => TypeOK'
<1> SUFFICES ASSUME TypeOK, [Next]_vars PROVE TypeOK'
  OBVIOUS
<1>1. ASSUME NEW r \in Handlers, Continue(r) PROVE TypeOK'
  BY <1>1, ContinueTypeOK
<1>2. ASSUME NEW r \in Handlers, Abort(r) PROVE TypeOK'
  <2>1. TypeOKRequests'
    BY <1>2, RestartTypeOK DEF Abort
  <2> QED BY <1>2, <2>1 DEF Abort, TypeOK, TypeOKRequests, tournamentVars, teamVars, queueVars
<1>3. ASSUME NEW r \in Requests, Arrive(r) PROVE TypeOK'
  BY <1>3, ArriveTypeOK
<1>4. CASE Sweep
  <2>1. TypeOKRequests'
    BY <1>4, RestartTypeOK DEF Sweep, Handlers
  <2> QED BY <1>4, <2>1 DEF Sweep, TypeOK, TypeOKRequests, tournamentVars, teamVars, queueVars
<1>5. ASSUME NEW t \in Teams, Members(t) \/ RosterDrift(t) PROVE TypeOK'
  BY <1>5, MembersTypeOK
<1>6. CASE StartCompetition
  BY <1>6 DEF StartCompetition, TypeOK, teamVars, queueVars
<1>7. CASE CloseTournament
  BY <1>7 DEF CloseTournament, TypeOK, teamVars, queueVars, TournamentStatus
<1>8. CASE UNCHANGED vars
  BY <1>8 DEF vars, TypeOK
<1> QED BY <1>1, <1>2, <1>3, <1>4, <1>5, <1>6, <1>7, <1>8 DEF Next

\* Every behaviour keeps every variable in its type, whatever the environment:
\* no handler leaves a row in a status, or a request at a point, that is not one.
THEOREM TypeCorrect == Spec => []TypeOK
BY InitTypeOK, NextTypeOK, PTL DEF Spec

-----------------------------------------------------------------------------
(* No overbooking.  SlotsAccounted is inductive when no admin lowers        *)
(* max_slots; with it, confirmed teams map one to one into 1..maxSlots.     *)

\* A confirmation puts the team on a slot that exists and that nobody holds.
LEMMA ConfirmKeepsSlots ==
  ASSUME TypeOK, SlotsInRange, SlotsDistinct, NEW t \in Teams, NEW cap \in 1..maxSlots,
         CanInsert(t, LowestFreeSlot(cap)),
         reg' = [reg EXCEPT ![t] = [status |-> "CONFIRMED", slot |-> LowestFreeSlot(cap)]],
         maxSlots' = maxSlots
  PROVE  /\ SlotsInRange' /\ SlotsDistinct'
         /\ \A u \in Teams : reg[u].status # "NONE" => reg'[u].status # "NONE"
<1> DEFINE slot == LowestFreeSlot(cap)
<1>1. maxSlots \in Nat /\ DOMAIN reg = Teams
  BY MaxCapacityAssumption DEF TypeOK
<1>2. slot \in 1..maxSlots
  BY <1>1, LowestFreeSlotProperty
<1>3. \A u \in Confirmed : reg[u].slot # slot
  BY DEF CanInsert, UsedSlots
<1> HIDE DEF slot
<1>4. reg'[t].status = "CONFIRMED" /\ reg'[t].slot = slot
  BY <1>1 DEF slot
<1>5. \A u \in Teams \ {t} : reg'[u] = reg[u]
  BY <1>1
<1>6. SlotsInRange'
  BY <1>2, <1>4, <1>5 DEF SlotsInRange
<1>7. SlotsDistinct'
  BY <1>3, <1>4, <1>5 DEF SlotsDistinct, Confirmed
<1> QED BY <1>4, <1>5, <1>6, <1>7

\* A row that exists keeps its slot when its status is written; the write of
\* CONFIRMED needs the slot for itself.
LEMMA RelabelKeepsSlots ==
  ASSUME TypeOK, SlotsInRange, SlotsDistinct, NEW t \in Teams,
         NEW s \in RegistrationStatus \ {"NONE"},
         reg[t].status # "NONE",
         s = "CONFIRMED" => \A u \in Confirmed \ {t} : reg[u].slot # reg[t].slot,
         reg' = [reg EXCEPT ![t].status = s],
         maxSlots' = maxSlots
  PROVE  /\ SlotsInRange' /\ SlotsDistinct'
         /\ \A u \in Teams : reg[u].status # "NONE" => reg'[u].status # "NONE"
<1>1. reg'[t].status = s /\ reg'[t].slot = reg[t].slot
  BY DEF TypeOK
<1>2. \A u \in Teams \ {t} : reg'[u] = reg[u]
  BY DEF TypeOK
<1>3. SlotsInRange'
  BY <1>1, <1>2 DEF SlotsInRange
<1>4. SlotsDistinct'
  BY <1>1, <1>2 DEF SlotsDistinct, Confirmed
<1> QED BY <1>1, <1>2, <1>3, <1>4

\* The part of SlotsAccounted that is about one request.
RequestAccounted(rec) ==
    /\ rec.pc \in PromotionPcs \ {"promoteStart"} => rec.cap \in 1..maxSlots
    /\ rec.pc \in {"unregister", "disqualify", "statusWrite"} => reg[rec.team].status # "NONE"
    /\ rec.pc = "statusWrite" => rec.target # "NONE" /\ "adminStatus" \in Env

LEMMA RequestsAccounted ==
  CapturedCapacity /\ UpdatesJustified <=> \A r \in Handlers : RequestAccounted(req[r])
BY DEF CapturedCapacity, UpdatesJustified, RequestAccounted

\* Capacity only grows and rows only appear, so the other requests stay right.
LEMMA OneRequestMoves ==
  ASSUME TypeOK, CapturedCapacity, UpdatesJustified, maxSlots' \in Nat, maxSlots' >= maxSlots,
         \A u \in Teams : reg[u].status # "NONE" => reg'[u].status # "NONE",
         NEW r \in Handlers, \A h \in Handlers \ {r} : req'[h] = req[h],
         RequestAccounted(req[r])'
  PROVE  CapturedCapacity' /\ UpdatesJustified'
<1>1. ASSUME NEW h \in Handlers \ {r} PROVE RequestAccounted(req[h])'
  <2>1. req'[h] = req[h]
    OBVIOUS
  <2>2. RequestAccounted(req[h])
    BY RequestsAccounted
  <2>3. req[h].pc \in TeamPcs => req[h].team \in Teams
    BY DEF TypeOK
  <2>4. {"unregister", "disqualify", "statusWrite"} \subseteq TeamPcs
    BY DEF TeamPcs
  <2>5. maxSlots \in Nat
    BY MaxCapacityAssumption DEF TypeOK
  <2> QED BY <2>1, <2>2, <2>3, <2>4, <2>5 DEF RequestAccounted
<1>2. \A h \in Handlers : RequestAccounted(req[h])'
  BY <1>1
<1> QED BY <1>2 DEF CapturedCapacity, UpdatesJustified, RequestAccounted

\* A request that ends, or starts a promotion, or loops, stays accounted for.
LEMMA RestartAccounted ==
  ASSUME TypeOK, CapturedCapacity, UpdatesJustified, maxSlots' \in Nat, maxSlots' >= maxSlots,
         \A u \in Teams : reg[u].status # "NONE" => reg'[u].status # "NONE",
         NEW r \in Handlers,
         \/ Finish(r) \/ ThenPromote(r)
         \/ Again(r) /\ req[r].pc \in {"promoteTx", "invalidateTx"}
  PROVE  CapturedCapacity' /\ UpdatesJustified'
<1>1. DOMAIN req = Handlers
  BY DEF TypeOK
<1>2. \A h \in Handlers \ {r} : req'[h] = req[h]
  BY <1>1 DEF Finish, ThenPromote, Again
<1>3. CASE Finish(r)
  <2>1. req'[r].pc = "idle"
    BY <1>1, <1>3 DEF Finish, Idle
  <2> QED BY <1>2, <2>1, OneRequestMoves DEF RequestAccounted, PromotionPcs
<1>4. CASE ThenPromote(r)
  <2>1. [Idle EXCEPT !.pc = "promoteStart"].pc = "promoteStart"
    BY DEF Idle
  <2>2. req'[r].pc = "promoteStart"
    BY <1>1, <1>4, <2>1 DEF ThenPromote
  <2> QED BY <1>2, <2>2, OneRequestMoves DEF RequestAccounted, PromotionPcs
<1>5. CASE Again(r) /\ req[r].pc \in {"promoteTx", "invalidateTx"}
  <2>1. /\ [Idle EXCEPT !.pc = "promoteCheck", !.cap = req[r].cap].pc = "promoteCheck"
        /\ [Idle EXCEPT !.pc = "promoteCheck", !.cap = req[r].cap].cap = req[r].cap
    BY DEF Idle
  <2>2. req'[r].pc = "promoteCheck" /\ req'[r].cap = req[r].cap
    BY <1>1, <1>5, <2>1 DEF Again
  <2>3. req[r].cap \in 1..maxSlots
    BY <1>5 DEF CapturedCapacity, PromotionPcs
  <2>4. maxSlots \in Nat
    BY MaxCapacityAssumption DEF TypeOK
  <2> QED BY <1>2, <2>2, <2>3, <2>4, OneRequestMoves DEF RequestAccounted
<1> QED BY <1>3, <1>4, <1>5

\* What a step may do to the registration rows and to max_slots.
Untouched == reg' = reg /\ maxSlots' = maxSlots
Confirms(t, cap) ==
    /\ CanInsert(t, LowestFreeSlot(cap))
    /\ reg' = [reg EXCEPT ![t] = [status |-> "CONFIRMED", slot |-> LowestFreeSlot(cap)]]
    /\ maxSlots' = maxSlots
Relabels(t, s) ==
    /\ reg[t].status # "NONE"
    /\ s = "CONFIRMED" =>
          "adminStatus" \in Env /\ \A u \in Confirmed \ {t} : reg[u].slot # reg[t].slot
    /\ reg' = [reg EXCEPT ![t].status = s]
    /\ maxSlots' = maxSlots
Grows == reg' = reg /\ maxSlots' \in (maxSlots + 1)..MaxCapacity
RowEffect ==
    \/ Untouched
    \/ \E t \in Teams, cap \in 1..maxSlots : Confirms(t, cap)
    \/ \E t \in Teams, s \in RegistrationStatus \ {"NONE"} : Relabels(t, s)
    \/ Grows

\* Each of these keeps the rows on distinct slots that exist, and no row goes away.
LEMMA RowEffectKeepsSlots ==
  ASSUME TypeOK, SlotsAccounted, RowEffect
  PROVE  /\ SlotsInRange' /\ SlotsDistinct'
         /\ \A u \in Teams : reg[u].status # "NONE" => reg'[u].status # "NONE"
         /\ maxSlots' \in Nat /\ maxSlots' >= maxSlots
<1>1. maxSlots \in Nat /\ maxSlots \in 1..MaxCapacity /\ SlotsInRange /\ SlotsDistinct
  BY MaxCapacityAssumption DEF TypeOK, SlotsAccounted
<1>2. CASE Untouched
  BY <1>1, <1>2 DEF Untouched, SlotsInRange, SlotsDistinct, Confirmed
<1>3. ASSUME NEW t \in Teams, NEW cap \in 1..maxSlots, Confirms(t, cap)
      PROVE  /\ SlotsInRange' /\ SlotsDistinct'
             /\ \A u \in Teams : reg[u].status # "NONE" => reg'[u].status # "NONE"
             /\ maxSlots' = maxSlots
  BY <1>1, <1>3, ConfirmKeepsSlots DEF Confirms
<1>4. ASSUME NEW t \in Teams, NEW s \in RegistrationStatus \ {"NONE"}, Relabels(t, s)
      PROVE  /\ SlotsInRange' /\ SlotsDistinct'
             /\ \A u \in Teams : reg[u].status # "NONE" => reg'[u].status # "NONE"
             /\ maxSlots' = maxSlots
  BY <1>1, <1>4, RelabelKeepsSlots DEF Relabels
<1>5. CASE Grows
  <2>1. maxSlots' \in Nat /\ maxSlots' > maxSlots /\ reg' = reg
    BY <1>1, <1>5, MaxCapacityAssumption DEF Grows
  <2> QED BY <1>1, <2>1 DEF SlotsInRange, SlotsDistinct, Confirmed
<1> QED BY <1>1, <1>2, <1>3, <1>4, <1>5 DEF RowEffect

\* finalizeRegistration confirms one team or touches no row.
LEMMA FinalizeRowEffect ==
  ASSUME TypeOK, NEW t \in Teams, NEW id, Finalize(t, id)
  PROVE  RowEffect
<1>1. maxSlots \in 1..maxSlots
  BY MaxCapacityAssumption DEF TypeOK
<1>2. CASE FinalizeConfirms(t, id)
  <2>1. Confirms(t, maxSlots)
    BY <1>2 DEF FinalizeConfirms, Confirms, tournamentVars
  <2> QED BY <1>1, <2>1 DEF RowEffect
<1>3. CASE FinalizeWaitlists(t)
  BY <1>3 DEF FinalizeWaitlists, tournamentVars, RowEffect, Untouched
<1> QED BY <1>2, <1>3 DEF Finalize

LEMMA ContinueRowEffect ==
  ASSUME TypeOK, SlotsAccounted, NEW r \in Handlers, Continue(r)
  PROVE  RowEffect
<1> DEFINE t == req[r].team
<1>a. req[r].pc \in TeamPcs \cup {"promoteTx", "invalidateTx"} => t \in Teams
  BY DEF TypeOK
<1>b. req[r].pc \in {"unregister", "disqualify", "statusWrite"} => reg[t].status # "NONE"
  BY DEF SlotsAccounted, UpdatesJustified
<1>1. CASE RegisterFinalize(r)
  BY <1>1, <1>a, FinalizeRowEffect DEF RegisterFinalize, TeamPcs
<1>2. CASE Unregister(r)
  <2>1. t \in Teams /\ reg[t].status # "NONE"
    BY <1>2, <1>a, <1>b DEF Unregister, TeamPcs
  <2>2. Relabels(t, "CANCELLED")
    BY <1>2, <2>1 DEF Unregister, Relabels, tournamentVars
  <2> QED BY <2>1, <2>2 DEF RowEffect, RegistrationStatus
<1>3. CASE Disqualify(r)
  <2>1. t \in Teams /\ reg[t].status # "NONE"
    BY <1>3, <1>a, <1>b DEF Disqualify, TeamPcs
  <2>2. Relabels(t, "DISQUALIFIED")
    BY <1>3, <2>1 DEF Disqualify, Relabels, tournamentVars
  <2> QED BY <2>1, <2>2 DEF RowEffect, RegistrationStatus
<1>4. CASE StatusWrite(r)
  <2>1. t \in Teams /\ reg[t].status # "NONE"
    BY <1>4, <1>a, <1>b DEF StatusWrite, TeamPcs
  <2>2. req[r].target \in RegistrationStatus
    BY DEF TypeOK, RequestRecord
  <2>3. req[r].target # "NONE" /\ "adminStatus" \in Env
    BY <1>4, <2>1 DEF StatusWrite, SlotsAccounted, UpdatesJustified
  <2>4. Relabels(t, req[r].target)
    BY <1>4, <2>1, <2>3 DEF StatusWrite, Relabels, tournamentVars
  <2> QED BY <2>1, <2>2, <2>3, <2>4 DEF RowEffect
<1>5. CASE Promote(r)
  <2>1. t \in Teams
    BY <1>5, <1>a DEF Promote
  <2>2. req[r].cap \in 1..maxSlots
    BY <1>5 DEF Promote, SlotsAccounted, CapturedCapacity, PromotionPcs
  <2>3. Confirms(t, req[r].cap)
    BY <1>5 DEF Promote, Confirms, tournamentVars
  <2> QED BY <2>1, <2>2, <2>3 DEF RowEffect
<1>6. CASE RegisterSubmit(r) \/ LeaveQueue(r) \/ StatusDecrement(r) \/ StatusTeam(r) \/ Throw(r)
  BY <1>6 DEF RegisterSubmit, LeaveQueue, StatusDecrement, StatusTeam, Throw, tournamentVars,
              RowEffect, Untouched
<1>7. CASE PromoteStart(r) \/ PromoteCheck(r) \/ PromotePick(r) \/ PromoteNothing(r) \/ Invalidate(r)
  BY <1>7 DEF PromoteStart, PromoteCheck, PromotePick, PromoteNothing, Invalidate, tournamentVars,
              RowEffect, Untouched
<1> QED BY <1>1, <1>2, <1>3, <1>4, <1>5, <1>6, <1>7 DEF Continue, Promotion

\* Every step has one of the effects, when no admin lowers max_slots.
LEMMA NextRowEffect ==
  ASSUME TypeOK, SlotsAccounted, "shrink" \notin Env, [Next]_vars
  PROVE  RowEffect
<1>1. ASSUME NEW r \in Handlers, Continue(r) PROVE RowEffect
  BY <1>1, ContinueRowEffect
<1>2. ASSUME NEW r \in Handlers, Abort(r) PROVE RowEffect
  BY <1>2 DEF Abort, tournamentVars, RowEffect, Untouched
<1>3. ASSUME NEW r \in Requests, Arrive(r) PROVE RowEffect
  <2>1. CASE UpdateTournament(r)
    <3>1. PICK n \in 1..MaxCapacity : ~(n < maxSlots) /\ maxSlots' = n
      BY <2>1 DEF UpdateTournament
    <3>2. maxSlots \in Nat
      BY MaxCapacityAssumption DEF TypeOK
    <3>3. n = maxSlots \/ n \in (maxSlots + 1)..MaxCapacity
      BY <3>1, <3>2, MaxCapacityAssumption
    <3>4. reg' = reg
      BY <2>1 DEF UpdateTournament
    <3> QED BY <3>1, <3>3, <3>4 DEF RowEffect, Grows, Untouched
  <2>2. ASSUME NEW t \in Teams,
               RegisterRead(r, t) \/ UnregisterRead(r, t) \/ DisqualifyRead(r, t) \/ StatusRead(r, t)
        PROVE  RowEffect
    BY <2>2 DEF RegisterRead, UnregisterRead, DisqualifyRead, StatusRead, tournamentVars,
                RowEffect, Untouched
  <2> QED BY <1>3, <2>1, <2>2 DEF Arrive
<1>4. CASE Sweep
  BY <1>4 DEF Sweep, tournamentVars, RowEffect, Untouched
<1>5. ASSUME NEW t \in Teams, Members(t) \/ RosterDrift(t) PROVE RowEffect
  <2>1. CASE ApproveLast(t)
    BY <2>1, FinalizeRowEffect DEF ApproveLast
  <2>2. CASE Decline(t) \/ CancelRegistrationRequest(t) \/ RosterChange(t) \/ RosterDrift(t)
    BY <2>2 DEF Decline, CancelRegistrationRequest, RosterChange, RosterDrift, tournamentVars,
                RowEffect, Untouched
  <2> QED BY <1>5, <2>1, <2>2 DEF Members
<1>6. CASE StartCompetition \/ CloseTournament \/ UNCHANGED vars
  BY <1>6 DEF StartCompetition, CloseTournament, vars, RowEffect, Untouched
<1> QED BY <1>1, <1>2, <1>3, <1>4, <1>5, <1>6 DEF Next

\* The requests a step leaves behind are accounted for: they work with a
\* capacity that exists and update rows that exist.
LEMMA ContinueAccounted ==
  ASSUME TypeOK, SlotsAccounted, NEW r \in Handlers, Continue(r),
         maxSlots' \in Nat, maxSlots' >= maxSlots,
         \A u \in Teams : reg[u].status # "NONE" => reg'[u].status # "NONE"
  PROVE  CapturedCapacity' /\ UpdatesJustified'
<1>a. CapturedCapacity /\ UpdatesJustified
  BY DEF SlotsAccounted
<1>b. req \in [Handlers -> RequestRecord]
  BY DEF TypeOK
<1>c. maxSlots \in Nat \ {0}
  BY MaxCapacityAssumption DEF TypeOK
<1>d. ASSUME NEW pc, Goto(r, pc)
      PROVE  /\ \A h \in Handlers \ {r} : req'[h] = req[h]
             /\ req'[r].pc = pc /\ req'[r].cap = req[r].cap
  BY <1>b, <1>d DEF Goto, RequestRecord
<1>1. CASE Finish(r) \/ ThenPromote(r)
  BY <1>1, <1>a, RestartAccounted
<1>2. CASE Again(r) /\ req[r].pc \in {"promoteTx", "invalidateTx"}
  BY <1>2, <1>a, RestartAccounted
<1>3. CASE Goto(r, "statusDecrement") \/ Goto(r, "statusTeam")
  <2>1. \A h \in Handlers \ {r} : req'[h] = req[h]
    BY <1>3, <1>d
  <2>2. req'[r].pc \in {"statusDecrement", "statusTeam"}
    BY <1>3, <1>d
  <2> QED BY <1>a, <2>1, <2>2, OneRequestMoves DEF RequestAccounted, PromotionPcs
<1>4. CASE Goto(r, "promotePick") /\ req[r].pc = "promoteCheck"
  <2>1. req[r].cap \in 1..maxSlots
    BY <1>4, <1>a DEF CapturedCapacity, PromotionPcs
  <2>2. /\ \A h \in Handlers \ {r} : req'[h] = req[h]
        /\ req'[r].pc = "promotePick" /\ req'[r].cap = req[r].cap
    BY <1>4, <1>d
  <2>3. RequestAccounted(req[r])'
    BY <1>c, <2>1, <2>2 DEF RequestAccounted
  <2> QED BY <1>a, <2>2, <2>3, OneRequestMoves
<1>5. CASE PromoteStart(r) /\ ~Finish(r)
  <2>1. /\ \A h \in Handlers \ {r} : req'[h] = req[h]
        /\ req'[r].pc = "promoteCheck" /\ req'[r].cap = maxSlots
    BY <1>5, <1>b DEF PromoteStart, RequestRecord
  <2>2. RequestAccounted(req[r])'
    BY <1>c, <2>1 DEF RequestAccounted
  <2> QED BY <1>a, <2>1, <2>2, OneRequestMoves
<1>6. CASE PromotePick(r) /\ ~Finish(r)
  <2>1. req[r].cap \in 1..maxSlots
    BY <1>6, <1>a DEF PromotePick, CapturedCapacity, PromotionPcs
  <2>2. ASSUME NEW pc \in {"promoteTx", "invalidateTx"}, NEW u, NEW sub,
               req' = [req EXCEPT ![r].pc = pc, ![r].team = u, ![r].sub = sub]
        PROVE  /\ \A h \in Handlers \ {r} : req'[h] = req[h]
               /\ req'[r].pc \in {"promoteTx", "invalidateTx"} /\ req'[r].cap = req[r].cap
    <3>1. req' = [req EXCEPT ![r] = [req[r] EXCEPT !.pc = pc, !.team = u, !.sub = sub]]
      BY <1>b, <2>2
    <3>2. /\ [req[r] EXCEPT !.pc = pc, !.team = u, !.sub = sub].pc = pc
          /\ [req[r] EXCEPT !.pc = pc, !.team = u, !.sub = sub].cap = req[r].cap
      BY <1>b DEF RequestRecord
    <3> QED BY <1>b, <3>1, <3>2
  <2>3. /\ \A h \in Handlers \ {r} : req'[h] = req[h]
        /\ req'[r].pc \in {"promoteTx", "invalidateTx"} /\ req'[r].cap = req[r].cap
    BY <1>6, <2>2 DEF PromotePick
  <2>4. RequestAccounted(req[r])'
    BY <1>c, <2>1, <2>3 DEF RequestAccounted
  <2> QED BY <1>a, <2>3, <2>4, OneRequestMoves
<1>7. \/ Finish(r) \/ ThenPromote(r)
      \/ Again(r) /\ req[r].pc \in {"promoteTx", "invalidateTx"}
      \/ Goto(r, "statusDecrement") \/ Goto(r, "statusTeam")
      \/ Goto(r, "promotePick") /\ req[r].pc = "promoteCheck"
      \/ PromoteStart(r) \/ PromotePick(r)
  BY DEF Continue, RegisterFinalize, RegisterSubmit, LeaveQueue, Unregister, Disqualify,
         StatusWrite, StatusDecrement, StatusTeam, Promotion, PromoteCheck, Promote,
         PromoteNothing, Invalidate, Throw
<1> QED BY <1>1, <1>2, <1>3, <1>4, <1>5, <1>6, <1>7

LEMMA ArriveAccounted ==
  ASSUME TypeOK, SlotsAccounted, NEW r \in Requests, Arrive(r),
         maxSlots' \in Nat, maxSlots' >= maxSlots,
         \A u \in Teams : reg[u].status # "NONE" => reg'[u].status # "NONE"
  PROVE  CapturedCapacity' /\ UpdatesJustified'
<1>a. CapturedCapacity /\ UpdatesJustified /\ r \in Handlers
  BY DEF SlotsAccounted, Handlers
<1>b. DOMAIN req = Handlers
  BY DEF TypeOK
<1>1. ASSUME NEW rec, req' = [req EXCEPT ![r] = rec], RequestAccounted(rec)'
      PROVE  CapturedCapacity' /\ UpdatesJustified'
  <2>1. req'[r] = rec /\ \A h \in Handlers \ {r} : req'[h] = req[h]
    BY <1>a, <1>b, <1>1
  <2>2. RequestAccounted(req[r])'
    BY <1>1, <2>1 DEF RequestAccounted
  <2> QED BY <1>a, <2>1, <2>2, OneRequestMoves
<1>2. ASSUME NEW t \in Teams, RegisterRead(r, t)
      PROVE  CapturedCapacity' /\ UpdatesJustified'
  <2>0. PICK rec : rec = [Idle EXCEPT !.pc = "register", !.team = t, !.version = version[t],
                                   !.asks = requireApproval]
    OBVIOUS
  <2>1. rec.pc = "register"
    BY <2>0 DEF Idle
  <2>2. req' = [req EXCEPT ![r] = rec]
    BY <2>0, <1>2 DEF RegisterRead
  <2>3. RequestAccounted(rec)'
    BY <2>1 DEF RequestAccounted, PromotionPcs
  <2> QED BY <1>1, <2>2, <2>3
<1>3. ASSUME NEW t \in Teams, UnregisterRead(r, t)
      PROVE  CapturedCapacity' /\ UpdatesJustified'
  <2>1. CASE req' = [req EXCEPT ![r] = [Idle EXCEPT !.pc = "leaveQueue", !.team = t]]
    <3>1. [Idle EXCEPT !.pc = "leaveQueue", !.team = t].pc = "leaveQueue"
      BY DEF Idle
    <3>2. RequestAccounted([Idle EXCEPT !.pc = "leaveQueue", !.team = t])'
      BY <3>1 DEF RequestAccounted, PromotionPcs
    <3> QED BY <1>1, <2>1, <3>2
  <2>2. CASE /\ reg[t].status = "CONFIRMED"
             /\ req' = [req EXCEPT ![r] = [Idle EXCEPT !.pc = "unregister", !.team = t]]
    <3>1. /\ [Idle EXCEPT !.pc = "unregister", !.team = t].pc = "unregister"
          /\ [Idle EXCEPT !.pc = "unregister", !.team = t].team = t
      BY DEF Idle
    <3>2. RequestAccounted([Idle EXCEPT !.pc = "unregister", !.team = t])'
      BY <2>2, <3>1 DEF RequestAccounted, PromotionPcs
    <3> QED BY <1>1, <2>2, <3>2
  <2> QED BY <1>3, <2>1, <2>2 DEF UnregisterRead
<1>4. ASSUME NEW t \in Teams, DisqualifyRead(r, t)
      PROVE  CapturedCapacity' /\ UpdatesJustified'
  <2>0. PICK rec : rec = [Idle EXCEPT !.pc = "disqualify", !.team = t, !.was = reg[t].status = "CONFIRMED"]
    OBVIOUS
  <2>1. rec.pc = "disqualify" /\ rec.team = t
    BY <2>0 DEF Idle
  <2>2. req' = [req EXCEPT ![r] = rec] /\ reg[t].status # "NONE"
    BY <2>0, <1>4 DEF DisqualifyRead
  <2>3. RequestAccounted(rec)'
    BY <2>1, <2>2 DEF RequestAccounted, PromotionPcs
  <2> QED BY <1>1, <2>2, <2>3
<1>5. ASSUME NEW t \in Teams, StatusRead(r, t)
      PROVE  CapturedCapacity' /\ UpdatesJustified'
  <2>1. PICK target \in RegistrationStatus \ {"NONE"} :
           req' = [req EXCEPT ![r] = [Idle EXCEPT !.pc = "statusWrite", !.team = t,
                                      !.was = reg[t].status = "CONFIRMED", !.target = target]]
    BY <1>5 DEF StatusRead
  <2>5. "adminStatus" \in Env
    BY <1>5 DEF StatusRead
  <2>0. PICK rec : rec = [Idle EXCEPT !.pc = "statusWrite", !.team = t,
                                !.was = reg[t].status = "CONFIRMED", !.target = target]
    OBVIOUS
  <2>2. rec.pc = "statusWrite" /\ rec.team = t /\ rec.target = target
    BY <2>0 DEF Idle
  <2>3. req' = [req EXCEPT ![r] = rec] /\ reg[t].status # "NONE"
    BY <2>0, <1>5, <2>1 DEF StatusRead
  <2>4. RequestAccounted(rec)'
    BY <2>2, <2>3, <2>5 DEF RequestAccounted, PromotionPcs
  <2> QED BY <1>1, <2>3, <2>4
<1>6. CASE UpdateTournament(r)
  <2>1. ThenPromote(r) \/ UNCHANGED req
    BY <1>6 DEF UpdateTournament
  <2>2. CASE UNCHANGED req
    <3>1. RequestAccounted(req[r])
      BY <1>a, RequestsAccounted
    <3>2. maxSlots \in Nat /\ reg' = reg
      BY <1>6, MaxCapacityAssumption DEF UpdateTournament, TypeOK
    <3>3. RequestAccounted(req[r])'
      BY <2>2, <3>1, <3>2 DEF RequestAccounted
    <3> QED BY <1>a, <2>2, <3>3, OneRequestMoves
  <2> QED BY <1>a, <2>1, <2>2, RestartAccounted
<1> QED BY <1>2, <1>3, <1>4, <1>5, <1>6 DEF Arrive

LEMMA NextSlotsAccounted ==
  ASSUME TypeOK, SlotsAccounted, "shrink" \notin Env, [Next]_vars
  PROVE  SlotsAccounted'
<1>1. /\ SlotsInRange' /\ SlotsDistinct'
      /\ \A u \in Teams : reg[u].status # "NONE" => reg'[u].status # "NONE"
      /\ maxSlots' \in Nat /\ maxSlots' >= maxSlots
  BY NextRowEffect, RowEffectKeepsSlots
<1>2. CapturedCapacity /\ UpdatesJustified
  BY DEF SlotsAccounted
<1>3. SUFFICES CapturedCapacity' /\ UpdatesJustified'
  BY <1>1 DEF SlotsAccounted
<1>4. ASSUME NEW r \in Handlers, Continue(r) PROVE CapturedCapacity' /\ UpdatesJustified'
  BY <1>1, <1>4, ContinueAccounted
<1>5. ASSUME NEW r \in Handlers, Abort(r) PROVE CapturedCapacity' /\ UpdatesJustified'
  BY <1>1, <1>2, <1>5, RestartAccounted DEF Abort
<1>6. ASSUME NEW r \in Requests, Arrive(r) PROVE CapturedCapacity' /\ UpdatesJustified'
  BY <1>1, <1>6, ArriveAccounted
<1>7. CASE Sweep
  BY <1>1, <1>2, <1>7, RestartAccounted DEF Sweep, Handlers
<1>8. ASSUME UNCHANGED req PROVE CapturedCapacity' /\ UpdatesJustified'
  <2>1. maxSlots \in Nat
    BY MaxCapacityAssumption DEF TypeOK
  <2>2. \A r \in Handlers : req[r].pc \in {"unregister", "disqualify", "statusWrite"} =>
                               req[r].team \in Teams
    BY DEF TypeOK, TeamPcs
  <2> QED BY <1>1, <1>2, <1>8, <2>1, <2>2 DEF CapturedCapacity, UpdatesJustified
<1>9. ASSUME NEW t \in Teams, Members(t) \/ RosterDrift(t) PROVE UNCHANGED req
  BY <1>9 DEF Members, ApproveLast, Decline, CancelRegistrationRequest, RosterChange, RosterDrift
<1>10. ASSUME StartCompetition \/ CloseTournament \/ UNCHANGED vars PROVE UNCHANGED req
  BY <1>10 DEF StartCompetition, CloseTournament, vars
<1> QED BY <1>4, <1>5, <1>6, <1>7, <1>8, <1>9, <1>10 DEF Next

LEMMA InitSlotsAccounted == Init => SlotsAccounted
BY DEF Init, Idle, SlotsAccounted, SlotsInRange, SlotsDistinct, Confirmed, CapturedCapacity,
       UpdatesJustified, PromotionPcs

\* A set of teams on distinct slots of 1..maxSlots has at most maxSlots members.
LEMMA SlotsBoundConfirmed ==
  ASSUME TypeOK, SlotsInRange, SlotsDistinct
  PROVE  NoOverbooking
<1> DEFINE slotOf == [t \in Confirmed |-> reg[t].slot]
<1>1. maxSlots \in Nat
  BY MaxCapacityAssumption DEF TypeOK
<1>2. IsFiniteSet(Confirmed)
  BY TeamsAssumption, FS_Subset DEF Confirmed
<1>3. IsFiniteSet(1..maxSlots) /\ Cardinality(1..maxSlots) = maxSlots
  BY <1>1, FS_Interval
<1>4. slotOf \in Injection(Confirmed, 1..maxSlots)
  <2>1. \A t \in Confirmed : slotOf[t] \in 1..maxSlots
    BY DEF SlotsInRange, Confirmed
  <2>2. \A t, u \in Confirmed : slotOf[t] = slotOf[u] => t = u
    BY DEF SlotsDistinct
  <2> QED BY <2>1, <2>2 DEF Injection, IsInjective
<1>5. Cardinality(Confirmed) <= Cardinality(1..maxSlots)
  BY <1>2, <1>3, <1>4, FS_Injection DEF ExistsInjection
<1> QED BY <1>3, <1>5 DEF NoOverbooking

\* Whatever the handlers do, however they interleave and whatever an admin
\* rewrites, as long as max_slots is not lowered: every registration row keeps a
\* slot of the tournament, no two confirmed ones share one, and no promotion
\* works with more slots than there are.
THEOREM SlotsStayAccounted == "shrink" \notin Env => (Spec => []SlotsAccounted)
<1> SUFFICES ASSUME "shrink" \notin Env PROVE Spec => []SlotsAccounted
  OBVIOUS
<1>1. TypeOK /\ SlotsAccounted /\ [Next]_vars => SlotsAccounted'
  BY NextSlotsAccounted
<1> QED BY InitSlotsAccounted, TypeCorrect, <1>1, PTL DEF Spec

\* So, even while registeredCount is wrong, a tournament whose max_slots no
\* admin lowers never has more confirmed teams than slots.
THEOREM NeverOverbooked == "shrink" \notin Env => (Spec => []NoOverbooking)
<1> SUFFICES ASSUME "shrink" \notin Env PROVE Spec => []NoOverbooking
  OBVIOUS
<1>1. TypeOK /\ SlotsAccounted => NoOverbooking
  BY SlotsBoundConfirmed DEF SlotsAccounted
<1> QED BY SlotsStayAccounted, TypeCorrect, <1>1, PTL

-----------------------------------------------------------------------------
(* The handlers implement SlotPool: the row effects map to its actions.      *)

placeMap == [t \in Teams |-> PlaceOf(t)]
goneMap == {t \in Teams : reg[t].status \in {"CANCELLED", "DISQUALIFIED"}}

\* What SlotPool calls holders and free slots are the confirmed teams and the
\* slots no confirmed row has.
LEMMA PoolView ==
  ASSUME TypeOK, SlotsInRange
  PROVE  Pool!Holders = Confirmed /\ Pool!FreeSlots = (1..maxSlots) \ UsedSlots
<1>1. \A t \in Confirmed : placeMap[t] = reg[t].slot /\ reg[t].slot # 0
  <2>1. ASSUME NEW t \in Confirmed PROVE placeMap[t] = reg[t].slot /\ reg[t].slot # 0
    <3>1. t \in Teams /\ reg[t].status = "CONFIRMED"
      BY DEF Confirmed
    <3>2. reg[t].slot \in 1..maxSlots /\ maxSlots \in Nat
      BY <3>1, MaxCapacityAssumption DEF SlotsInRange, TypeOK
    <3> QED BY <3>1, <3>2 DEF placeMap, PlaceOf
  <2> QED BY <2>1
<1>2. \A t \in Teams \ Confirmed : placeMap[t] = 0
  BY DEF placeMap, PlaceOf, Confirmed
<1>3. Pool!Holders = Confirmed
  BY <1>1, <1>2 DEF Pool!Holders, placeMap, Confirmed
<1>4. {placeMap[t] : t \in Confirmed} = UsedSlots
  BY <1>1 DEF UsedSlots
<1> QED BY <1>3, <1>4 DEF Pool!FreeSlots, placeMap

LEMMA PoolInit == Init => Pool!Init
BY DEF Init, Pool!Init, PlaceOf

\* A confirmation is a Claim: the row goes to the lowest slot that is free in
\* the whole range, though the handler may have searched a smaller one.
LEMMA ConfirmClaims ==
  ASSUME TypeOK, SlotsInRange, NEW t \in Teams, NEW cap \in 1..maxSlots, Confirms(t, cap)
  PROVE  Pool!Claim(t)
<1> DEFINE slot == LowestFreeSlot(cap)
<1>1. maxSlots \in Nat /\ DOMAIN reg = Teams /\ cap \in Nat \ {0}
  BY MaxCapacityAssumption DEF TypeOK
<1>2. slot \notin UsedSlots /\ reg[t].status = "NONE"
  BY DEF Confirms, CanInsert
<1>3. slot \in 1..cap
  BY <1>1, LowestFreeSlotProperty
<1>4. \A u \in (1..cap) \ UsedSlots : slot <= u
  <2>1. (1..cap) \ UsedSlots # {}
    BY <1>2, <1>3
  <2> QED BY <1>1, <2>1, LowestFreeSlotProperty
<1> HIDE DEF slot
<1>5. slot \in Pool!FreeSlots /\ \A u \in Pool!FreeSlots : slot <= u
  <2>1. slot \in (1..maxSlots) \ UsedSlots
    BY <1>1, <1>2, <1>3
  <2>2. \A u \in (1..maxSlots) \ UsedSlots : slot <= u
    BY <1>1, <1>3, <1>4
  <2> QED BY <2>1, <2>2, PoolView
<1>6. /\ reg' = [reg EXCEPT ![t] = [status |-> "CONFIRMED", slot |-> slot]]
      /\ maxSlots' = maxSlots
  BY DEF Confirms, slot
<1>7. reg'[t] = [status |-> "CONFIRMED", slot |-> slot] /\ \A u \in Teams \ {t} : reg'[u] = reg[u]
  BY <1>1, <1>6
<1>8. placeMap' = [placeMap EXCEPT ![t] = slot]
  <2>1. PlaceOf(t)' = slot
    BY <1>7 DEF PlaceOf
  <2>2. \A u \in Teams \ {t} : PlaceOf(u)' = PlaceOf(u)
    BY <1>7 DEF PlaceOf
  <2> QED BY <2>1, <2>2 DEF placeMap
<1>9. goneMap' = goneMap
  BY <1>2, <1>7 DEF goneMap
<1>10. t \notin Pool!Holders \cup goneMap
  BY <1>2, PoolView DEF Confirmed, goneMap
<1> QED BY <1>5, <1>6, <1>8, <1>9, <1>10 DEF Pool!Claim, placeMap, goneMap

\* Writing another status than CONFIRMED is a Release of a held slot, or nothing.
LEMMA RelabelReleases ==
  ASSUME TypeOK, SlotsInRange, NEW t \in Teams,
         NEW s \in RegistrationStatus \ {"NONE", "CONFIRMED"}, Relabels(t, s)
  PROVE  Pool!Release(t) \/ UNCHANGED Pool!poolVars
<1>1. reg'[t].status = s /\ maxSlots' = maxSlots /\ reg[t].status # "NONE"
  BY DEF TypeOK, Relabels
<1>2. \A u \in Teams \ {t} : reg'[u] = reg[u]
  BY DEF TypeOK, Relabels
<1>3. placeMap' = [placeMap EXCEPT ![t] = 0]
  BY <1>1, <1>2 DEF placeMap, PlaceOf
<1>4. goneMap' = goneMap \cup {t}
  BY <1>1, <1>2 DEF goneMap, RegistrationStatus
<1>5. CASE t \in Confirmed
  <2>1. t \in Pool!Holders
    BY <1>5, PoolView
  <2> QED BY <1>1, <1>3, <1>4, <2>1 DEF Pool!Release, placeMap, goneMap
<1>6. CASE t \notin Confirmed
  <2>1. placeMap[t] = 0 /\ DOMAIN placeMap = Teams
    BY <1>6 DEF placeMap, PlaceOf, Confirmed
  <2>2. placeMap' = placeMap
    BY <1>3, <2>1 DEF placeMap
  <2>3. reg[t].status \in RegistrationStatus
    BY DEF TypeOK
  <2>4. t \in goneMap
    BY <1>1, <1>6, <2>3 DEF goneMap, Confirmed, RegistrationStatus
  <2>5. goneMap' = goneMap
    BY <1>4, <2>4
  <2> QED BY <1>1, <2>2, <2>5 DEF Pool!poolVars, placeMap, goneMap
<1> QED BY <1>5, <1>6

LEMMA StepImplementsPool ==
  ASSUME TypeOK, SlotsAccounted, {"shrink", "adminStatus"} \cap Env = {}, [Next]_vars
  PROVE  [Pool!Next]_(Pool!poolVars)
<1>1. RowEffect
  BY NextRowEffect
<1>2. SlotsInRange
  BY DEF SlotsAccounted
<1>3. CASE Untouched
  BY <1>3 DEF Untouched, Pool!poolVars, PlaceOf
<1>4. ASSUME NEW t \in Teams, NEW cap \in 1..maxSlots, Confirms(t, cap) PROVE Pool!Next
  BY <1>2, <1>4, ConfirmClaims DEF Pool!Next
<1>5. ASSUME NEW t \in Teams, NEW s \in RegistrationStatus \ {"NONE"}, Relabels(t, s)
      PROVE  [Pool!Next]_(Pool!poolVars)
  <2>1. "adminStatus" \notin Env
    OBVIOUS
  <2>2. s # "CONFIRMED"
    BY <1>5, <2>1 DEF Relabels
  <2>3. s \in RegistrationStatus \ {"NONE", "CONFIRMED"}
    BY <2>2
  <2> QED BY <1>2, <1>5, <2>3, RelabelReleases DEF Pool!Next
<1>6. CASE Grows
  BY <1>6 DEF Grows, Pool!Next, Pool!Grow, PlaceOf
<1> QED BY <1>1, <1>3, <1>4, <1>5, <1>6 DEF RowEffect

\* Unless an admin lowers max_slots or rewrites a registration's status, every
\* behaviour of the handlers is one of SlotPool.
THEOREM ImplementsPool == {"shrink", "adminStatus"} \cap Env = {} => (Spec => AllocatesAsPool)
<1> SUFFICES ASSUME {"shrink", "adminStatus"} \cap Env = {} PROVE Spec => AllocatesAsPool
  OBVIOUS
<1>1. TypeOK /\ SlotsAccounted /\ [Next]_vars => [Pool!Next]_(Pool!poolVars)
  BY StepImplementsPool
<1>2. Spec => []SlotsAccounted
  BY SlotsStayAccounted
<1> QED BY PoolInit, TypeCorrect, <1>1, <1>2, PTL DEF Spec, AllocatesAsPool, Pool!Spec
-----------------------------------------------------------------------------
(* registeredCount is exact, when no two requests are about one team and    *)
(* no admin rewrites a status.                                              *)

\* A team has one request about it in flight, ...
OneAtATime ==
    \A r, s \in Handlers :
        req[r].pc \in TeamPcs /\ req[s].pc \in TeamPcs /\ req[r].team = req[s].team => r = s

\* ... so what a removal has read is still so when it writes.
RemovalJustified(r) ==
    /\ req[r].pc \notin {"statusWrite", "statusDecrement", "statusTeam"}
    /\ req[r].pc \in TeamPcs => r \in Requests
    /\ req[r].pc = "unregister" => reg[req[r].team].status = "CONFIRMED"
    /\ req[r].pc = "disqualify" =>
          /\ reg[req[r].team].status # "NONE"
          /\ req[r].was <=> reg[req[r].team].status = "CONFIRMED"
RemovalsJustified == OneAtATime /\ \A r \in Handlers : RemovalJustified(r)

Others(r) == \A h \in Handlers \ {r} : req'[h] = req[h]

\* The record of a request that ends, starts a promotion or loops.
LEMMA RestartForms ==
  ASSUME TypeOK, NEW r \in Handlers
  PROVE  /\ Finish(r) => Others(r) /\ req'[r].pc = "idle"
         /\ ThenPromote(r) => Others(r) /\ req'[r].pc = "promoteStart"
         /\ Again(r) => Others(r) /\ req'[r].pc = "promoteCheck"
         /\ \A pc : Goto(r, pc) => Others(r) /\ req'[r].pc = pc
<1>1. req \in [Handlers -> RequestRecord]
  BY DEF TypeOK
<1>2. Idle.pc = "idle" /\ [Idle EXCEPT !.pc = "promoteStart"].pc = "promoteStart"
  BY DEF Idle
<1>3. \A c : [Idle EXCEPT !.pc = "promoteCheck", !.cap = c].pc = "promoteCheck"
  BY DEF Idle
<1>4. Finish(r) => Others(r) /\ req'[r].pc = "idle"
  BY <1>1, <1>2 DEF Finish, Others
<1>5. ThenPromote(r) => Others(r) /\ req'[r].pc = "promoteStart"
  BY <1>1, <1>2 DEF ThenPromote, Others
<1>6. Again(r) => Others(r) /\ req'[r].pc = "promoteCheck"
  BY <1>1, <1>3 DEF Again, Others
<1>7. ASSUME NEW pc, Goto(r, pc) PROVE Others(r) /\ req'[r].pc = pc
  BY <1>1, <1>7 DEF Goto, Others, RequestRecord
<1> QED BY <1>4, <1>5, <1>6, <1>7

\* The record of a request that arrives, and what it has read.
LEMMA ArriveForms ==
  ASSUME TypeOK, NEW r \in Requests, NEW t \in Teams
  PROVE  /\ RegisterRead(r, t) =>
               /\ Others(r) /\ NotBusy(t) /\ req'[r].pc = "register"
               /\ req'[r].team = t /\ req'[r].version = version[t]
         /\ UnregisterRead(r, t) =>
               /\ Others(r) /\ NotBusy(t) /\ req'[r].team = t
               /\ \/ req'[r].pc = "leaveQueue" /\ "leaveQueue" \in Env
                  \/ req'[r].pc = "unregister" /\ reg[t].status = "CONFIRMED"
         /\ DisqualifyRead(r, t) =>
               /\ Others(r) /\ NotBusy(t)
               /\ req'[r].pc = "disqualify" /\ req'[r].team = t /\ reg[t].status # "NONE"
               /\ req'[r].was <=> reg[t].status = "CONFIRMED"
<1>1. req \in [Handlers -> RequestRecord] /\ r \in Handlers
  BY DEF TypeOK, Handlers
<1>2. ASSUME NEW rec, req' = [req EXCEPT ![r] = rec] PROVE Others(r) /\ req'[r] = rec
  BY <1>1, <1>2 DEF Others
<1>3. \A v, a : LET rec == [Idle EXCEPT !.pc = "register", !.team = t, !.version = v,
                                      !.asks = a]
                IN  rec.pc = "register" /\ rec.team = t /\ rec.version = v
  BY DEF Idle
<1>4. /\ [Idle EXCEPT !.pc = "leaveQueue", !.team = t].pc = "leaveQueue"
      /\ [Idle EXCEPT !.pc = "leaveQueue", !.team = t].team = t
      /\ [Idle EXCEPT !.pc = "unregister", !.team = t].pc = "unregister"
      /\ [Idle EXCEPT !.pc = "unregister", !.team = t].team = t
  BY DEF Idle
<1>5. \A w : LET rec == [Idle EXCEPT !.pc = "disqualify", !.team = t, !.was = w]
             IN  rec.pc = "disqualify" /\ rec.team = t /\ rec.was = w
  BY DEF Idle
<1>6. ASSUME RegisterRead(r, t)
      PROVE  /\ Others(r) /\ NotBusy(t) /\ req'[r].pc = "register"
             /\ req'[r].team = t /\ req'[r].version = version[t]
  <2>1. PICK v, a : v = version[t] /\ a = requireApproval
    OBVIOUS
  <2>2. req' = [req EXCEPT ![r] = [Idle EXCEPT !.pc = "register", !.team = t, !.version = v,
                                               !.asks = a]]
    BY <1>6, <2>1 DEF RegisterRead
  <2>3. /\ Others(r) /\ req'[r].pc = "register"
        /\ req'[r].team = t /\ req'[r].version = v
    <3>1. PICK rec : rec = [Idle EXCEPT !.pc = "register", !.team = t, !.version = v, !.asks = a]
      OBVIOUS
    <3>2. rec.pc = "register" /\ rec.team = t /\ rec.version = v
      BY <1>3, <3>1
    <3>3. Others(r) /\ req'[r] = rec
      BY <1>2, <2>2, <3>1
    <3> QED BY <3>2, <3>3
  <2> QED BY <1>6, <2>1, <2>3 DEF RegisterRead
<1>7. ASSUME UnregisterRead(r, t)
      PROVE  /\ Others(r) /\ NotBusy(t) /\ req'[r].team = t
             /\ \/ req'[r].pc = "leaveQueue" /\ "leaveQueue" \in Env
                \/ req'[r].pc = "unregister" /\ reg[t].status = "CONFIRMED"
  BY <1>2, <1>4, <1>7 DEF UnregisterRead
<1>8. ASSUME DisqualifyRead(r, t)
      PROVE  /\ Others(r) /\ NotBusy(t)
             /\ req'[r].pc = "disqualify" /\ req'[r].team = t /\ reg[t].status # "NONE"
             /\ req'[r].was <=> reg[t].status = "CONFIRMED"
  <2>1. PICK w : w = (reg[t].status = "CONFIRMED")
    OBVIOUS
  <2>2. req' = [req EXCEPT ![r] = [Idle EXCEPT !.pc = "disqualify", !.team = t, !.was = w]]
    BY <1>8, <2>1 DEF DisqualifyRead
  <2>3. req'[r].was = w /\ Others(r) /\ req'[r].pc = "disqualify" /\ req'[r].team = t
    BY <1>2, <1>5, <2>2
  <2> QED BY <1>8, <2>1, <2>3 DEF DisqualifyRead
<1> QED BY <1>6, <1>7, <1>8

\* The submission that a promotion of t captures, 0 when t has none open.
NewestActive(t) ==
    IF ActiveIds(t) = {} THEN 0
    ELSE CHOOSE i \in ActiveIds(t) : \A j \in ActiveIds(t) : j <= i

\* The record of a promotion that has chosen a team, or found none.
LEMMA PickForms ==
  ASSUME TypeOK, NEW r \in Handlers, PromotePick(r)
  PROVE  /\ Others(r)
         /\ \/ req'[r].pc = "idle"
            \/ \E t \in Waiting :
                 /\ Oldest(t) /\ req'[r].team = t
                 /\ req'[r].pc = IF rosterOk[t] THEN "promoteTx" ELSE "invalidateTx"
                 /\ req'[r].sub = NewestActive(t)
<1>1. req \in [Handlers -> RequestRecord]
  BY DEF TypeOK
<1>2. ASSUME NEW pc, NEW t, NEW sub,
             req' = [req EXCEPT ![r].pc = pc, ![r].team = t, ![r].sub = sub]
      PROVE  Others(r) /\ req'[r].pc = pc /\ req'[r].team = t /\ req'[r].sub = sub
  <2>1. req' = [req EXCEPT ![r] = [req[r] EXCEPT !.pc = pc, !.team = t, !.sub = sub]]
    BY <1>1, <1>2
  <2>2. req'[r] = [req[r] EXCEPT !.pc = pc, !.team = t, !.sub = sub] /\ Others(r)
    BY <1>1, <2>1 DEF Others
  <2>3. LET rec == [req[r] EXCEPT !.pc = pc, !.team = t, !.sub = sub]
        IN  rec.pc = pc /\ rec.team = t /\ rec.sub = sub
    BY <1>1 DEF RequestRecord
  <2> QED BY <2>2, <2>3
<1>3. CASE Finish(r)
  BY <1>3, RestartForms
<1>4. CASE ~Finish(r)
  <2>1. PICK t \in Waiting :
           /\ Oldest(t)
           /\ req' = [req EXCEPT
                ![r].pc = IF rosterOk[t] THEN "promoteTx" ELSE "invalidateTx",
                ![r].team = t,
                ![r].sub = IF ActiveIds(t) = {} THEN 0
                           ELSE CHOOSE i \in ActiveIds(t) : \A j \in ActiveIds(t) : j <= i]
    BY <1>4 DEF PromotePick
  <2>2. PICK pc : pc = IF rosterOk[t] THEN "promoteTx" ELSE "invalidateTx"
    OBVIOUS
  <2>3. PICK sub : sub = NewestActive(t)
    OBVIOUS
  <2>4. req' = [req EXCEPT ![r].pc = pc, ![r].team = t, ![r].sub = sub]
    BY <2>1, <2>2, <2>3 DEF NewestActive
  <2>5. Others(r) /\ req'[r].pc = pc /\ req'[r].team = t /\ req'[r].sub = sub
    BY <1>2, <2>4
  <2> QED BY <2>1, <2>2, <2>3, <2>5
<1> QED BY <1>3, <1>4

\* What a step may do to the rows, the counter and the requests.
Keeps == reg' = reg /\ registeredCount' = registeredCount
Inserts ==
    \E t \in Teams :
        /\ reg[t].status = "NONE" /\ reg'[t].status = "CONFIRMED"
        /\ \A u \in Teams \ {t} : reg'[u] = reg[u]
        /\ registeredCount' = registeredCount + 1
GoesOn(r) == Others(r) /\ req'[r].pc \notin TeamPcs
Removes(r) ==
    LET t == req[r].team
    IN  /\ req[r].pc \in {"unregister", "disqualify"} /\ GoesOn(r)
        /\ reg[t].status # "NONE" /\ reg'[t].status \in {"CANCELLED", "DISQUALIFIED"}
        /\ \A u \in Teams \ {t} : reg'[u] = reg[u]
        /\ registeredCount' = IF reg[t].status = "CONFIRMED" THEN registeredCount - 1
                              ELSE registeredCount
Arrives(r, t) ==
    /\ Others(r) /\ NotBusy(t)
    /\ req'[r].team = t
    /\ \/ req'[r].pc \in {"register", "leaveQueue"}
       \/ req'[r].pc = "unregister" /\ reg[t].status = "CONFIRMED"
       \/ /\ req'[r].pc = "disqualify" /\ reg[t].status # "NONE"
          /\ req'[r].was <=> reg[t].status = "CONFIRMED"
CountStep ==
    \/ (Keeps \/ Inserts) /\ (req' = req \/ \E r \in Handlers : GoesOn(r))
    \/ \E r \in Handlers : Removes(r)
    \/ Keeps /\ \E r \in Requests, t \in Teams : Arrives(r, t)

\* A confirmed team makes the count of confirmed teams positive.
LEMMA ConfirmedCounts ==
  ASSUME TypeOK
  PROVE  /\ IsFiniteSet(Confirmed) /\ Cardinality(Confirmed) \in Nat
         /\ \A t \in Confirmed : Cardinality(Confirmed) > 0
<1>1. IsFiniteSet(Confirmed)
  BY TeamsAssumption, FS_Subset DEF Confirmed
<1>2. Cardinality(Confirmed) \in Nat /\ (Cardinality(Confirmed) = 0 <=> Confirmed = {})
  BY <1>1, FS_CardinalityType, FS_EmptySet
<1> QED BY <1>1, <1>2

\* finalizeRegistration counts the team it confirms, which had no row.
LEMMA FinalizeCounts ==
  ASSUME TypeOK, NEW t \in Teams, NEW id, Finalize(t, id)
  PROVE  Keeps \/ Inserts
<1>1. CASE FinalizeConfirms(t, id)
  <2>1. reg[t].status = "NONE" /\ registeredCount' = registeredCount + 1
    BY <1>1 DEF FinalizeConfirms, CanInsert
  <2>2. reg' = [reg EXCEPT ![t] = [status |-> "CONFIRMED", slot |-> LowestFreeSlot(maxSlots)]]
    BY <1>1 DEF FinalizeConfirms
  <2>3. reg'[t].status = "CONFIRMED" /\ \A u \in Teams \ {t} : reg'[u] = reg[u]
    BY <2>2 DEF TypeOK
  <2> QED BY <2>1, <2>3 DEF Inserts
<1>2. CASE FinalizeWaitlists(t)
  BY <1>2 DEF FinalizeWaitlists, Keeps
<1> QED BY <1>1, <1>2 DEF Finalize

LEMMA ContinueCounts ==
  ASSUME TypeOK, RemovalsJustified, CountIsConfirmed, NEW r \in Handlers, Continue(r)
  PROVE  CountStep
<1> DEFINE t == req[r].team
<1>a. RemovalJustified(r)
  BY DEF RemovalsJustified
<1>b. req[r].pc \in TeamPcs \cup {"promoteTx", "invalidateTx"} => t \in Teams
  BY DEF TypeOK
<1>c. \A h \in {"idle", "promoteStart", "promoteCheck", "promotePick", "promoteTx", "invalidateTx"} :
         h \notin TeamPcs
  BY DEF TeamPcs
<1>d. Finish(r) \/ ThenPromote(r) \/ Again(r) => GoesOn(r)
  BY <1>c, RestartForms DEF GoesOn
<1>e. t \in Teams /\ reg[t].status = "CONFIRMED" => registeredCount > 0
  BY ConfirmedCounts DEF CountIsConfirmed, Confirmed
<1>f. ASSUME NEW s, t \in Teams, reg' = [reg EXCEPT ![t].status = s]
      PROVE  reg'[t].status = s /\ \A u \in Teams \ {t} : reg'[u] = reg[u]
  BY <1>f DEF TypeOK
<1>1. CASE RegisterFinalize(r)
  <2>1. Keeps \/ Inserts
    BY <1>1, <1>b, FinalizeCounts DEF RegisterFinalize, TeamPcs
  <2> QED BY <1>1, <1>d, <2>1 DEF RegisterFinalize, CountStep
<1>2. CASE Unregister(r)
  <2>1. t \in Teams /\ reg[t].status = "CONFIRMED"
    BY <1>2, <1>a, <1>b DEF Unregister, TeamPcs, RemovalJustified
  <2>2. reg' = [reg EXCEPT ![t].status = "CANCELLED"] /\ registeredCount' = registeredCount - 1
    BY <1>2 DEF Unregister
  <2>3. req[r].pc = "unregister" /\ GoesOn(r)
    BY <1>2, <1>d DEF Unregister
  <2>4. Removes(r)
    BY <1>f, <2>1, <2>2, <2>3 DEF Removes
  <2> QED BY <2>4 DEF CountStep
<1>3. CASE Disqualify(r)
  <2>1. t \in Teams /\ reg[t].status # "NONE" /\ (req[r].was <=> reg[t].status = "CONFIRMED")
    BY <1>3, <1>a, <1>b DEF Disqualify, TeamPcs, RemovalJustified
  <2>2. reg' = [reg EXCEPT ![t].status = "DISQUALIFIED"]
    BY <1>3 DEF Disqualify
  <2>3. req[r].pc = "disqualify" /\ GoesOn(r)
    BY <1>3, <1>d DEF Disqualify
  <2>4. registeredCount' = IF reg[t].status = "CONFIRMED" THEN registeredCount - 1
                           ELSE registeredCount
    BY <1>3, <1>e, <2>1 DEF Disqualify, DecrementIfPositive
  <2>5. Removes(r)
    BY <1>f, <2>1, <2>2, <2>3, <2>4 DEF Removes
  <2> QED BY <2>5 DEF CountStep
<1>4. CASE Promote(r)
  <2>1. t \in Teams /\ reg[t].status = "NONE" /\ registeredCount' = registeredCount + 1
    BY <1>4, <1>b DEF Promote, CanInsert
  <2>2. reg' = [reg EXCEPT ![t] = [status |-> "CONFIRMED", slot |-> LowestFreeSlot(req[r].cap)]]
    BY <1>4 DEF Promote
  <2>3. reg'[t].status = "CONFIRMED" /\ \A u \in Teams \ {t} : reg'[u] = reg[u]
    BY <2>1, <2>2 DEF TypeOK
  <2>4. Inserts /\ GoesOn(r)
    BY <1>4, <1>d, <2>1, <2>3 DEF Promote, Inserts
  <2> QED BY <2>4 DEF CountStep
<1>5. CASE RegisterSubmit(r) \/ LeaveQueue(r) \/ Throw(r) \/ PromoteNothing(r) \/ Invalidate(r)
  <2>1. Keeps /\ GoesOn(r)
    BY <1>5, <1>d DEF RegisterSubmit, LeaveQueue, Throw, PromoteNothing, Invalidate, Keeps
  <2> QED BY <2>1 DEF CountStep
<1>6. CASE StatusWrite(r) \/ StatusDecrement(r) \/ StatusTeam(r)
  BY <1>6, <1>a DEF StatusWrite, StatusDecrement, StatusTeam, RemovalJustified
<1>7. CASE PromoteStart(r) \/ PromoteCheck(r) \/ PromotePick(r)
  <2>1. Keeps
    BY <1>7 DEF PromoteStart, PromoteCheck, PromotePick, Keeps
  <2>2. CASE PromoteStart(r) /\ ~Finish(r)
    <3>1. Others(r) /\ req'[r].pc = "promoteCheck"
      BY <2>2 DEF PromoteStart, TypeOK, RequestRecord, Others
    <3> QED BY <1>c, <2>1, <3>1 DEF GoesOn, CountStep
  <2>3. CASE PromoteCheck(r) /\ ~Finish(r)
    <3>1. Others(r) /\ req'[r].pc = "promotePick"
      BY <2>3, RestartForms DEF PromoteCheck
    <3> QED BY <1>c, <2>1, <3>1 DEF GoesOn, CountStep
  <2>4. CASE PromotePick(r)
    <3>1. Others(r) /\ req'[r].pc \in {"idle", "promoteTx", "invalidateTx"}
      BY <2>4, PickForms
    <3> QED BY <1>c, <2>1, <3>1 DEF GoesOn, CountStep
  <2> QED BY <1>d, <1>7, <2>1, <2>2, <2>3, <2>4 DEF CountStep
<1> QED BY <1>1, <1>2, <1>3, <1>4, <1>5, <1>6, <1>7 DEF Continue, Promotion

LEMMA NextCounts ==
  ASSUME TypeOK, RemovalsJustified, CountIsConfirmed, "adminStatus" \notin Env, [Next]_vars
  PROVE  CountStep
<1>1. ASSUME NEW r \in Handlers, Continue(r) PROVE CountStep
  BY <1>1, ContinueCounts
<1>2. ASSUME NEW r \in Handlers, Abort(r) PROVE CountStep
  <2>1. Keeps /\ Finish(r)
    BY <1>2 DEF Abort, Keeps
  <2> QED BY <2>1, RestartForms DEF GoesOn, TeamPcs, CountStep
<1>3. ASSUME NEW r \in Requests, Arrive(r) PROVE CountStep
  <2>1. CASE UpdateTournament(r)
    <3>1. Keeps /\ r \in Handlers /\ (ThenPromote(r) \/ req' = req)
      BY <2>1 DEF UpdateTournament, Keeps, Handlers
    <3> QED BY <3>1, RestartForms DEF GoesOn, TeamPcs, CountStep
  <2>2. ASSUME NEW t \in Teams, RegisterRead(r, t) \/ UnregisterRead(r, t) \/ DisqualifyRead(r, t)
        PROVE  CountStep
    <3>1. Keeps
      BY <2>2 DEF RegisterRead, UnregisterRead, DisqualifyRead, Keeps
    <3>2. Arrives(r, t)
      BY <2>2, ArriveForms DEF Arrives
    <3> QED BY <3>1, <3>2 DEF CountStep
  <2>3. ASSUME NEW t \in Teams, StatusRead(r, t) PROVE CountStep
    BY <2>3 DEF StatusRead
  <2> QED BY <1>3, <2>1, <2>2, <2>3 DEF Arrive
<1>4. CASE Sweep
  <2>1. Keeps /\ ThenPromote(Scheduler) /\ Scheduler \in Handlers
    BY <1>4 DEF Sweep, Keeps, Handlers
  <2> QED BY <2>1, RestartForms DEF GoesOn, TeamPcs, CountStep
<1>5. ASSUME NEW t \in Teams, Members(t) \/ RosterDrift(t) PROVE CountStep
  <2>1. CASE ApproveLast(t)
    BY <2>1, FinalizeCounts DEF ApproveLast, CountStep
  <2>2. CASE Decline(t) \/ CancelRegistrationRequest(t) \/ RosterChange(t) \/ RosterDrift(t)
    BY <2>2 DEF Decline, CancelRegistrationRequest, RosterChange, RosterDrift, Keeps, CountStep
  <2> QED BY <1>5, <2>1, <2>2 DEF Members
<1>6. CASE StartCompetition \/ CloseTournament \/ UNCHANGED vars
  BY <1>6 DEF StartCompetition, CloseTournament, vars, Keeps, CountStep
<1> QED BY <1>1, <1>2, <1>3, <1>4, <1>5, <1>6 DEF Next

\* Nobody else is about to remove a team that a step removes, and a request
\* that arrives finds nobody about its team.
LEMMA RemovalsStayJustified ==
  ASSUME TypeOK, RemovalsJustified, CountStep, "overlap" \notin Env
  PROVE  RemovalsJustified'
<1>a. \A h \in Handlers : RemovalJustified(h)
  BY DEF RemovalsJustified
<1>b. \A h \in Handlers : req[h].pc \in TeamPcs => req[h].team \in Teams
  BY DEF TypeOK
<1>c. {"unregister", "disqualify", "statusWrite", "statusDecrement", "statusTeam"} \subseteq TeamPcs
  BY DEF TeamPcs
<1>d. ASSUME NEW h \in Handlers, req'[h] = req[h],
             req[h].pc \in {"unregister", "disqualify"} =>
                reg'[req[h].team].status = reg[req[h].team].status
      PROVE  RemovalJustified(h)'
  BY <1>a, <1>d DEF RemovalJustified
<1>e. ASSUME NEW r \in Handlers, GoesOn(r) PROVE RemovalJustified(r)'
  BY <1>c, <1>e DEF GoesOn, RemovalJustified
<1>f. ASSUME NEW r \in Handlers, GoesOn(r) PROVE OneAtATime'
  BY <1>f DEF GoesOn, Others, OneAtATime, RemovalsJustified
<1>1. ASSUME Keeps \/ Inserts
      PROVE  \A h \in Handlers : req[h].pc \in {"unregister", "disqualify"} =>
                reg'[req[h].team].status = reg[req[h].team].status
  BY <1>1, <1>a, <1>b, <1>c DEF Keeps, Inserts, RemovalJustified
<1>2. CASE (Keeps \/ Inserts) /\ req' = req
  <2>1. OneAtATime'
    BY <1>2 DEF OneAtATime, RemovalsJustified
  <2> QED BY <1>1, <1>2, <1>d, <2>1 DEF RemovalsJustified
<1>3. ASSUME NEW r \in Handlers, Keeps \/ Inserts, GoesOn(r) PROVE RemovalsJustified'
  <2>1. ASSUME NEW h \in Handlers \ {r} PROVE RemovalJustified(h)'
    BY <1>1, <1>3, <1>d DEF GoesOn, Others
  <2> QED BY <1>3, <1>e, <1>f, <2>1 DEF RemovalsJustified
<1>4. ASSUME NEW r \in Handlers, Removes(r) PROVE RemovalsJustified'
  <2>1. ASSUME NEW h \in Handlers \ {r} PROVE RemovalJustified(h)'
    <3>1. req[h].pc \in {"unregister", "disqualify"} => req[h].team # req[r].team
      BY <1>4, <1>c DEF Removes, RemovalsJustified, OneAtATime
    <3>2. req[h].pc \in {"unregister", "disqualify"} =>
             reg'[req[h].team].status = reg[req[h].team].status
      BY <1>4, <1>b, <1>c, <3>1 DEF Removes
    <3> QED BY <1>4, <1>d, <3>2 DEF Removes, GoesOn, Others
  <2> QED BY <1>4, <1>e, <1>f, <2>1 DEF RemovalsJustified, Removes
<1>5. ASSUME NEW r \in Requests, NEW t \in Teams, Keeps, Arrives(r, t) PROVE RemovalsJustified'
  <2>1. r \in Handlers
    BY DEF Handlers
  <2>2. ASSUME NEW h \in Handlers \ {r} PROVE RemovalJustified(h)'
    BY <1>1, <1>5, <1>d DEF Arrives, Others
  <2>3. RemovalJustified(r)'
    BY <1>5 DEF Arrives, Keeps, RemovalJustified, TeamPcs
  <2>4. ASSUME NEW h \in Handlers \ {r}, req[h].pc \in TeamPcs PROVE req[h].team # t
    <3>1. h \in Requests
      BY <1>a, <2>4 DEF RemovalJustified
    <3> QED BY <1>5, <2>4, <3>1 DEF Arrives, NotBusy
  <2>5. OneAtATime'
    BY <1>5, <2>4 DEF Arrives, Others, OneAtATime, RemovalsJustified
  <2> QED BY <2>1, <2>2, <2>3, <2>5 DEF RemovalsJustified
<1> QED BY <1>2, <1>3, <1>4, <1>5 DEF CountStep

\* The set of confirmed teams gains or loses the team the counter counts.
LEMMA CountStaysExact ==
  ASSUME TypeOK, CountIsConfirmed, CountStep
  PROVE  CountIsConfirmed'
<1>a. IsFiniteSet(Confirmed) /\ Cardinality(Confirmed) \in Nat
  BY ConfirmedCounts
<1>1. ASSUME Keeps PROVE CountIsConfirmed'
  BY <1>1 DEF Keeps, CountIsConfirmed, Confirmed
<1>2. ASSUME Inserts PROVE CountIsConfirmed'
  <2>1. PICK t \in Teams :
           /\ reg[t].status = "NONE" /\ reg'[t].status = "CONFIRMED"
           /\ \A u \in Teams \ {t} : reg'[u] = reg[u]
           /\ registeredCount' = registeredCount + 1
    BY <1>2 DEF Inserts
  <2>2. t \notin Confirmed /\ Confirmed' = Confirmed \cup {t}
    BY <2>1 DEF Confirmed
  <2>3. Cardinality(Confirmed') = Cardinality(Confirmed) + 1
    BY <1>a, <2>2, FS_AddElement
  <2> QED BY <2>1, <2>3 DEF CountIsConfirmed
<1>3. ASSUME NEW r \in Handlers, Removes(r) PROVE CountIsConfirmed'
  <2> DEFINE t == req[r].team
  <2>0. t \in Teams
    BY <1>3 DEF Removes, TypeOK, TeamPcs
  <2>1. CASE reg[t].status = "CONFIRMED"
    <3>1. t \in Confirmed /\ Confirmed' = Confirmed \ {t}
      BY <1>3, <2>0, <2>1 DEF Removes, Confirmed
    <3>2. Cardinality(Confirmed') = Cardinality(Confirmed) - 1
      BY <1>a, <3>1, FS_RemoveElement
    <3> QED BY <1>3, <2>1, <3>2 DEF Removes, CountIsConfirmed
  <2>2. CASE reg[t].status # "CONFIRMED"
    <3>1. Confirmed' = Confirmed /\ registeredCount' = registeredCount
      BY <1>3, <2>0, <2>2 DEF Removes, Confirmed
    <3> QED BY <3>1 DEF CountIsConfirmed
  <2> QED BY <2>1, <2>2
<1> QED BY <1>1, <1>2, <1>3 DEF CountStep

LEMMA InitRemovalsJustified == Init => RemovalsJustified /\ CountIsConfirmed
<1> SUFFICES ASSUME Init PROVE RemovalsJustified /\ CountIsConfirmed
  OBVIOUS
<1>1. Confirmed = {} /\ registeredCount = 0
  BY DEF Init, Confirmed
<1>2. \A r \in Handlers : req[r].pc = "idle"
  BY DEF Init, Idle
<1> QED BY <1>1, <1>2, FS_EmptySet
        DEF RemovalsJustified, OneAtATime, RemovalJustified, TeamPcs, CountIsConfirmed

\* registeredCount is the number of confirmed registrations, whichever
\* handlers of different teams interleave, crash or are interrupted.
THEOREM CountIsExact == {"overlap", "adminStatus"} \cap Env = {} => (Spec => []CountIsConfirmed)
<1> SUFFICES ASSUME {"overlap", "adminStatus"} \cap Env = {} PROVE Spec => []CountIsConfirmed
  OBVIOUS
<1>1. TypeOK /\ RemovalsJustified /\ CountIsConfirmed /\ [Next]_vars
         => (RemovalsJustified /\ CountIsConfirmed)'
  <2> SUFFICES ASSUME TypeOK, RemovalsJustified, CountIsConfirmed, [Next]_vars
               PROVE  (RemovalsJustified /\ CountIsConfirmed)'
    OBVIOUS
  <2>1. CountStep
    BY NextCounts
  <2> QED BY <2>1, RemovalsStayJustified, CountStaysExact
<1> QED BY InitRemovalsJustified, TypeCorrect, <1>1, PTL DEF Spec

-----------------------------------------------------------------------------
(* The rows of a team agree, when moreover nobody leaves the queue and a    *)
(* queued roster stays valid: with those, LeaveQueue and Invalidate write   *)
(* over a promotion that came first.                                        *)

Told == {"overlap", "adminStatus", "leaveQueue", "rosterDrift"} \cap Env = {}

\* Of a team's submissions one at most is open.  It is for a roster the team had
\* or has; a player can still answer it only while the team is pending, when
\* nobody has declined, or queued.
OpenAgrees(t) ==
    /\ \A i, j \in ActiveIds(t) : i = j
    /\ \A i \in ActiveIds(t) : subs[t][i].version <= version[t]
    /\ teamState[t] \in {"FORMING", "ROSTER_CHANGE_REQUIRED", "CONFIRMED"} => NoneToAnswer(t)
    /\ teamState[t] = "PENDING_PLAYER_APPROVAL" =>
          \A i \in ActiveIds(t) : ~subs[t][i].declined

\* The rows of one team.  A queued roster is valid, so that no promotion
\* invalidates it, and an entry that is no longer WAITING was promoted.
TeamAgrees(t) ==
    /\ teamState[t] = "CONFIRMED" <=> reg[t].status = "CONFIRMED"
    /\ teamState[t] = "WAITLISTED" <=> entry[t] = "WAITING"
    /\ entry[t] = "WAITING" => rosterOk[t]
    /\ entry[t] \in {"NONE", "WAITING"} \/ reg[t].status # "NONE"
    /\ OpenAgrees(t)

\* What a register call has read of its team is still so: in particular nobody
\* can answer for it.  What a promotion has read of an entry that it can still
\* take is so as well.
StillRegisters(t) == teamState[t] \notin {"CONFIRMED", "WAITLISTED"} /\ NoneToAnswer(t)
StillPromotes(t, sub) ==
    /\ entry[t] # "NONE"
    /\ entry[t] = "WAITING" /\ reg[t].status = "NONE" => ActiveIds(t) \subseteq {sub}
RequestAgrees(r) ==
    /\ req[r].pc \notin {"leaveQueue", "invalidateTx"}
    /\ req[r].pc = "register" =>
          StillRegisters(req[r].team) /\ req[r].version <= version[req[r].team]
    /\ req[r].pc = "promoteTx" => StillPromotes(req[r].team, req[r].sub)

Agreement == (\A t \in Teams : TeamAgrees(t)) /\ \A r \in Handlers : RequestAgrees(r)

\* The rows of u are untouched.
SameTeam(u) ==
    /\ reg'[u] = reg[u] /\ teamState'[u] = teamState[u] /\ entry'[u] = entry[u]
    /\ rosterOk'[u] = rosterOk[u] /\ version'[u] = version[u] /\ subs'[u] = subs[u]

LEMMA SameTeamAgrees ==
  ASSUME NEW u, SameTeam(u)
  PROVE  /\ TeamAgrees(u) => TeamAgrees(u)'
         /\ StillRegisters(u) => StillRegisters(u)'
         /\ \A sub : StillPromotes(u, sub) => StillPromotes(u, sub)'
<1>1. ActiveIds(u)' = ActiveIds(u)
  BY DEF SameTeam, ActiveIds
<1>2. TeamAgrees(u) => TeamAgrees(u)'
  BY <1>1 DEF SameTeam, TeamAgrees, OpenAgrees, NoneToAnswer
<1>3. StillRegisters(u) => StillRegisters(u)'
  BY <1>1 DEF SameTeam, StillRegisters, NoneToAnswer
<1>4. ASSUME NEW sub, StillPromotes(u, sub) PROVE StillPromotes(u, sub)'
  BY <1>1, <1>4 DEF SameTeam, StillPromotes
<1> QED BY <1>2, <1>3, <1>4

\* A step that touches the rows of one team and moves some requests: what is
\* left to show is about that team and those requests.
LEMMA OneTeamMoves ==
  ASSUME TypeOK, Agreement, NEW t \in Teams, NEW R \in SUBSET Handlers,
         \A u \in Teams \ {t} : SameTeam(u), TeamAgrees(t)',
         \A h \in Handlers \ R : req'[h] = req[h],
         \A h \in R : RequestAgrees(h)',
         \/ StillRegisters(t)' /\ version'[t] \in Nat /\ version[t] <= version'[t]
         \/ \A h \in Handlers \ R : req[h].pc = "register" => req[h].team # t,
         \A sub : StillPromotes(t, sub) => StillPromotes(t, sub)'
  PROVE  Agreement'
<1>1. \A u \in Teams : TeamAgrees(u)'
  BY SameTeamAgrees DEF Agreement
<1>2. ASSUME NEW h \in Handlers \ R PROVE RequestAgrees(h)'
  <2>1. req'[h] = req[h] /\ RequestAgrees(h)
    BY DEF Agreement
  <2>2. PICK u, sub : u = req[h].team /\ sub = req[h].sub
    OBVIOUS
  <2>3. ASSUME req[h].pc = "register" PROVE StillRegisters(u)' /\ req[h].version <= version'[u]
    <3>1. u \in Teams /\ StillRegisters(u) /\ req[h].version <= version[u]
      BY <2>1, <2>2, <2>3 DEF TypeOK, TeamPcs, RequestAgrees
    <3>2. req[h].version \in Nat /\ version[u] \in Nat
      BY <3>1 DEF TypeOK, RequestRecord
    <3>3. CASE u # t
      <4>1. version'[u] = version[u]
        BY <3>1, <3>3 DEF SameTeam
      <4> QED BY <3>1, <3>3, <4>1, SameTeamAgrees
    <3>4. CASE u = t
      <4>1. StillRegisters(t)' /\ version'[t] \in Nat /\ version[t] <= version'[t]
        BY <2>2, <2>3, <3>4
      <4> QED BY <3>1, <3>2, <3>4, <4>1
    <3> QED BY <3>3, <3>4
  <2>4. ASSUME req[h].pc = "promoteTx" PROVE StillPromotes(u, sub)'
    <3>1. u \in Teams /\ StillPromotes(u, sub)
      BY <2>1, <2>2, <2>4 DEF TypeOK, RequestAgrees
    <3> QED BY <3>1, SameTeamAgrees
  <2> QED BY <2>1, <2>2, <2>3, <2>4
          DEF RequestAgrees, StillRegisters, NoneToAnswer, StillPromotes, ActiveIds
<1> QED BY <1>1, <1>2 DEF Agreement

\* A step that touches no team's rows.
LEMMA NoTeamMoves ==
  ASSUME TypeOK, Agreement, NEW R \in SUBSET Handlers,
         \A u \in Teams : SameTeam(u),
         \A h \in Handlers \ R : req'[h] = req[h],
         \A h \in R : RequestAgrees(h)'
  PROVE  Agreement'
<1>1. \A u \in Teams : TeamAgrees(u)'
  BY SameTeamAgrees DEF Agreement
<1>2. ASSUME NEW h \in Handlers \ R PROVE RequestAgrees(h)'
  <2>1. req'[h] = req[h] /\ RequestAgrees(h)
    BY DEF Agreement
  <2>2. PICK u, sub : u = req[h].team /\ sub = req[h].sub
    OBVIOUS
  <2>3. req[h].pc = "register" => u \in Teams /\ StillRegisters(u) /\ req[h].version <= version[u]
    BY <2>1, <2>2 DEF TypeOK, TeamPcs, RequestAgrees
  <2>4. req[h].pc = "promoteTx" => u \in Teams /\ StillPromotes(u, sub)
    BY <2>1, <2>2 DEF TypeOK, RequestAgrees
  <2>5. /\ req[h].pc = "register" => StillRegisters(u)' /\ req[h].version <= version'[u]
        /\ req[h].pc = "promoteTx" => StillPromotes(u, sub)'
    BY <2>3, <2>4, SameTeamAgrees DEF SameTeam
  <2> QED BY <2>1, <2>2, <2>5
          DEF RequestAgrees, StillRegisters, NoneToAnswer, StillPromotes, ActiveIds
<1> QED BY <1>1, <1>2 DEF Agreement

\* The open submissions after a relabelling.
LEMMA WithStatusActive ==
  ASSUME NEW s \in Seq(Submission), NEW ids, NEW new \in SubmissionStatus, new # "ACTIVE"
  PROVE  /\ DOMAIN WithStatus(s, ids, new) = DOMAIN s
         /\ {i \in DOMAIN WithStatus(s, ids, new) : WithStatus(s, ids, new)[i].status = "ACTIVE"}
               = {i \in DOMAIN s : s[i].status = "ACTIVE"} \ ids
<1>1. DOMAIN WithStatus(s, ids, new) = DOMAIN s
  BY DEF WithStatus
<1>2. \A i \in DOMAIN s : s[i] \in Submission
  OBVIOUS
<1>3. ASSUME NEW i \in DOMAIN s
      PROVE  WithStatus(s, ids, new)[i].status = IF i \in ids THEN new ELSE s[i].status
  <2>1. [s[i] EXCEPT !.status = new].status = new
    BY <1>2 DEF Submission
  <2> QED BY <2>1 DEF WithStatus
<1> QED BY <1>1, <1>3

\* The rows of a team after the writes that change its submissions.
LEMMA SubmissionsAfter ==
  ASSUME TypeOK, NEW t \in Teams
  PROVE  /\ \A id : \A new \in SubmissionStatus \ {"ACTIVE"} :
              subs' = [subs EXCEPT ![t] = WithStatus(@, {id}, new)] =>
                 /\ ActiveIds(t)' = ActiveIds(t) \ {id}
                 /\ \A u \in Teams \ {t} : subs'[u] = subs[u]
         /\ \A new \in SubmissionStatus \ {"ACTIVE"} :
              subs' = [subs EXCEPT ![t] = WithStatus(@, ActiveIds(t), new)] =>
                 /\ ActiveIds(t)' = {}
                 /\ \A u \in Teams \ {t} : subs'[u] = subs[u]
<1>1. subs \in [Teams -> Seq(Submission)]
  BY DEF TypeOK, Submission
<1>2. ASSUME NEW id, NEW new \in SubmissionStatus \ {"ACTIVE"},
             subs' = [subs EXCEPT ![t] = WithStatus(@, {id}, new)]
      PROVE  /\ ActiveIds(t)' = ActiveIds(t) \ {id}
             /\ \A u \in Teams \ {t} : subs'[u] = subs[u]
  <2>1. subs'[t] = WithStatus(subs[t], {id}, new) /\ \A u \in Teams \ {t} : subs'[u] = subs[u]
    BY <1>1, <1>2
  <2>2. subs[t] \in Seq(Submission)
    BY <1>1
  <2> QED BY <2>1, <2>2, WithStatusActive DEF ActiveIds
<1>3. ASSUME NEW new \in SubmissionStatus \ {"ACTIVE"},
             subs' = [subs EXCEPT ![t] = WithStatus(@, ActiveIds(t), new)]
      PROVE  /\ ActiveIds(t)' = {}
             /\ \A u \in Teams \ {t} : subs'[u] = subs[u]
  <2>1. /\ subs'[t] = WithStatus(subs[t], ActiveIds(t), new)
        /\ \A u \in Teams \ {t} : subs'[u] = subs[u]
    BY <1>1, <1>3
  <2>2. subs[t] \in Seq(Submission)
    BY <1>1
  <2>3. ActiveIds(t)' = ActiveIds(t) \ ActiveIds(t)
    BY <2>1, <2>2, WithStatusActive DEF ActiveIds
  <2> QED BY <2>1, <2>3
<1> QED BY <1>2, <1>3

\* finalizeRegistration of a team that is neither confirmed nor queued, with
\* its open submission at hand, or with none that anybody is to answer.
LEMMA FinalizeAgrees ==
  ASSUME TypeOK, Agreement, NEW t \in Teams, NEW id \in Nat, Finalize(t, id),
         teamState[t] \notin {"CONFIRMED", "WAITLISTED"},
         IF id = 0 THEN NoneToAnswer(t) ELSE ActiveIds(t) \subseteq {id}
  PROVE  /\ \A u \in Teams \ {t} : SameTeam(u)
         /\ TeamAgrees(t)'
         /\ \A sub : StillPromotes(t, sub) => StillPromotes(t, sub)'
<1>1. TeamAgrees(t)
  BY DEF Agreement
<1>2. entry[t] # "WAITING" /\ reg[t].status # "CONFIRMED"
  BY <1>1 DEF TeamAgrees
<1>3. CASE FinalizeConfirms(t, id)
  <2>1. /\ reg'[t].status = "CONFIRMED" /\ teamState'[t] = "CONFIRMED" /\ entry'[t] = entry[t]
        /\ \A u \in Teams \ {t} :
              reg'[u] = reg[u] /\ teamState'[u] = teamState[u] /\ entry'[u] = entry[u]
        /\ rosterOk' = rosterOk /\ version' = version
    BY <1>2, <1>3 DEF FinalizeConfirms, TypeOK
  <2>2. OpenAgrees(t)' /\ \A u \in Teams \ {t} : subs'[u] = subs[u]
    <3>1. CASE id = 0
      <4>1. subs' = subs
        BY <1>3, <3>1 DEF FinalizeConfirms, TypeOK
      <4>2. ActiveIds(t)' = ActiveIds(t) /\ NoneToAnswer(t)
        BY <3>1, <4>1 DEF ActiveIds
      <4> QED BY <1>1, <2>1, <4>1, <4>2 DEF TeamAgrees, OpenAgrees, NoneToAnswer
    <3>2. CASE id # 0
      <4>1. subs' = [subs EXCEPT ![t] = WithStatus(@, {id}, "COMPLETED")]
        BY <1>3, <3>2 DEF FinalizeConfirms
      <4>2. "COMPLETED" \in SubmissionStatus \ {"ACTIVE"}
        BY DEF SubmissionStatus
      <4>3. ActiveIds(t)' = ActiveIds(t) \ {id} /\ \A u \in Teams \ {t} : subs'[u] = subs[u]
        BY <4>1, <4>2, SubmissionsAfter
      <4>4. ActiveIds(t)' = {}
        BY <3>2, <4>3
      <4> QED BY <4>3, <4>4 DEF OpenAgrees, NoneToAnswer
    <3> QED BY <3>1, <3>2
  <2>3. TeamAgrees(t)'
    BY <1>2, <2>1, <2>2 DEF TeamAgrees
  <2>4. \A sub : StillPromotes(t, sub) => StillPromotes(t, sub)'
    BY <1>2, <2>1 DEF StillPromotes
  <2> QED BY <2>1, <2>2, <2>3, <2>4 DEF SameTeam
<1>4. CASE FinalizeWaitlists(t)
  <2>1. /\ teamState'[t] = "WAITLISTED" /\ entry'[t] = "WAITING" /\ rosterOk[t]
        /\ reg' = reg /\ rosterOk' = rosterOk /\ version' = version /\ subs' = subs
        /\ \A u \in Teams \ {t} : teamState'[u] = teamState[u] /\ entry'[u] = entry[u]
    BY <1>4 DEF FinalizeWaitlists, TypeOK
  <2>2. ActiveIds(t)' = ActiveIds(t)
    BY <2>1 DEF ActiveIds
  <2>3. TeamAgrees(t)'
    BY <1>1, <1>2, <2>1, <2>2 DEF TeamAgrees, OpenAgrees
  <2>4. ASSUME NEW sub, StillPromotes(t, sub) PROVE StillPromotes(t, sub)'
    <3>1. reg[t].status # "NONE"
      BY <1>1, <1>2, <2>4 DEF StillPromotes, TeamAgrees
    <3> QED BY <2>1, <3>1 DEF StillPromotes
  <2> QED BY <2>1, <2>3, <2>4 DEF SameTeam
<1> QED BY <1>3, <1>4 DEF Finalize

\* A write on the submissions and the state of a team that is not queued, and
\* stays so, leaves its entry as it was.
LEMMA SettleAgrees ==
  ASSUME TypeOK, Agreement, NEW t \in Teams,
         \A u \in Teams \ {t} : SameTeam(u),
         entry[t] # "WAITING", entry'[t] = entry[t],
         teamState'[t] \notin {"CONFIRMED", "WAITLISTED"},
         reg'[t].status # "CONFIRMED",
         reg[t].status # "NONE" => reg'[t].status # "NONE",
         OpenAgrees(t)'
  PROVE  /\ TeamAgrees(t)'
         /\ \A sub : StillPromotes(t, sub) => StillPromotes(t, sub)'
<1>1. TeamAgrees(t)
  BY DEF Agreement
<1>2. TeamAgrees(t)'
  BY <1>1 DEF TeamAgrees
<1>3. \A sub : StillPromotes(t, sub) => StillPromotes(t, sub)'
  BY DEF StillPromotes
<1> QED BY <1>2, <1>3

LEMMA MembersAgree ==
  ASSUME TypeOK, Agreement, NEW t \in Teams, Members(t)
  PROVE  Agreement'
<1>a. TeamAgrees(t) /\ req' = req
  BY DEF Agreement, Members, ApproveLast, Decline, CancelRegistrationRequest, RosterChange
<1>b. \A h \in Handlers : req[h].pc = "register" /\ req[h].team = t => StillRegisters(t)
  BY DEF Agreement, RequestAgrees
<1>c. {} \in SUBSET Handlers
  OBVIOUS
<1>d. ASSUME NEW id \in ActiveIds(t), Answerable(t, id)
      PROVE  /\ \A h \in Handlers \ {} : req[h].pc = "register" => req[h].team # t
             /\ id \in Nat /\ id # 0 /\ ActiveIds(t) \subseteq {id}
             /\ teamState[t] = "PENDING_PLAYER_APPROVAL"
  <2>1. id \in Nat /\ id # 0 /\ version[t] \in Nat
    BY DEF ActiveIds, TypeOK
  <2>2. ~subs[t][id].declined /\ ~(subs[t][id].version < version[t])
    BY <1>a, <1>d, <2>1 DEF TeamAgrees, OpenAgrees, Answerable
  <2>3. \A h \in Handlers : req[h].pc = "register" => req[h].team # t
    BY <1>b, <1>d, <2>2 DEF StillRegisters, NoneToAnswer
  <2> QED BY <1>a, <1>d, <2>1, <2>3 DEF TeamAgrees, OpenAgrees, Answerable
<1>1. CASE ApproveLast(t)
  <2>1. PICK id \in ActiveIds(t) : Answerable(t, id) /\ Finalize(t, id)
    BY <1>1 DEF ApproveLast
  <2>2. /\ \A u \in Teams \ {t} : SameTeam(u)
        /\ TeamAgrees(t)'
        /\ \A sub : StillPromotes(t, sub) => StillPromotes(t, sub)'
    BY <1>d, <2>1, FinalizeAgrees
  <2> QED BY <1>a, <1>c, <1>d, <2>1, <2>2, OneTeamMoves
<1>2. CASE Decline(t) \/ CancelRegistrationRequest(t) \/ RosterChange(t)
  <2>1. entry' = entry /\ reg' = reg /\ \A u \in Teams \ {t} : SameTeam(u)
    <3>1. CASE Decline(t)
      <4>1. subs \in [Teams -> Seq(Submission)]
        BY DEF TypeOK
      <4>2. \A u \in Teams \ {t} : subs'[u] = subs[u]
        BY <3>1, <4>1, DeclineType DEF Decline
      <4> QED BY <3>1, <4>2 DEF Decline, SameTeam, queueVars, TypeOK
    <3>2. CASE CancelRegistrationRequest(t)
      BY <3>2 DEF CancelRegistrationRequest, CancelActive, SameTeam, queueVars, TypeOK
    <3>3. CASE RosterChange(t)
      BY <3>3 DEF RosterChange, SameTeam, queueVars, TypeOK
    <3> QED BY <1>2, <3>1, <3>2, <3>3
  <2>2. /\ teamState'[t] \in {"ROSTER_CHANGE_REQUIRED", "FORMING"}
        /\ teamState[t] \notin {"CONFIRMED", "WAITLISTED"}
    BY <1>2 DEF Decline, Answerable, CancelRegistrationRequest, RosterChange, TypeOK
  <2>3. version[t] \in Nat /\ version'[t] \in Nat /\ version[t] <= version'[t]
    BY <1>2 DEF Decline, CancelRegistrationRequest, RosterChange, TypeOK
  <2>4. NoneToAnswer(t)' /\ OpenAgrees(t)'
    <3>1. CASE Decline(t)
      <4>1. PICK id \in ActiveIds(t) : /\ Answerable(t, id)
                                       /\ subs' = [subs EXCEPT ![t][id].declined = TRUE]
        BY <3>1 DEF Decline
      <4>2. subs \in [Teams -> Seq(Submission)]
        BY DEF TypeOK
      <4>3. /\ DOMAIN subs'[t] = DOMAIN subs[t] /\ subs'[t][id].declined
            /\ \A i \in DOMAIN subs[t] : /\ subs'[t][i].status = subs[t][i].status
                                         /\ subs'[t][i].version = subs[t][i].version
        <5>1. PICK new : new = subs'
          OBVIOUS
        <5>2. new = [subs EXCEPT ![t][id].declined = TRUE]
          BY <4>1, <5>1
        <5>3. /\ DOMAIN new[t] = DOMAIN subs[t] /\ new[t][id].declined
              /\ \A i \in DOMAIN subs[t] : /\ new[t][i].status = subs[t][i].status
                                           /\ new[t][i].version = subs[t][i].version
          BY <4>2, <5>2, DeclineType
        <5> QED BY <5>1, <5>3
      <4>4. ActiveIds(t)' = ActiveIds(t)
        BY <4>3 DEF ActiveIds
      <4>5. ActiveIds(t) = {id}
        BY <1>d, <4>1
      <4>6. subs'[t][id].version <= version'[t]
        BY <1>a, <3>1, <4>1, <4>3 DEF TeamAgrees, OpenAgrees, ActiveIds, Decline
      <4> QED BY <2>2, <4>3, <4>4, <4>5, <4>6 DEF OpenAgrees, NoneToAnswer
    <3>2. ASSUME ActiveIds(t)' = {} PROVE NoneToAnswer(t)' /\ OpenAgrees(t)'
      BY <3>2 DEF OpenAgrees, NoneToAnswer
    <3>3. CASE subs' = [subs EXCEPT ![t] = WithStatus(@, ActiveIds(t), "CANCELLED")]
      BY <3>2, <3>3, SubmissionsAfter DEF SubmissionStatus
    <3>4. CASE subs' = [subs EXCEPT ![t] = WithStatus(@, ActiveIds(t), "SUPERSEDED")]
      BY <3>2, <3>4, SubmissionsAfter DEF SubmissionStatus
    <3>5. CASE teamState[t] = "FORMING" /\ subs' = subs
      <4>1. ActiveIds(t)' = ActiveIds(t)
        BY <3>5 DEF ActiveIds
      <4>2. \A i \in ActiveIds(t) : subs[t][i].version \in Nat
        <5>1. subs[t] \in Seq(Submission)
          BY DEF TypeOK
        <5>2. \A i \in DOMAIN subs[t] : subs[t][i] \in Submission
          BY <5>1
        <5> QED BY <5>2 DEF ActiveIds, Submission
      <4>3. OpenAgrees(t) /\ NoneToAnswer(t)
        BY <1>a, <3>5 DEF TeamAgrees, OpenAgrees
      <4>4. NoneToAnswer(t)'
        BY <2>3, <3>5, <4>1, <4>2, <4>3 DEF NoneToAnswer
      <4>5. \A i \in ActiveIds(t) : subs[t][i].version <= version'[t]
        BY <2>3, <4>2, <4>3 DEF OpenAgrees
      <4> QED BY <2>2, <3>5, <4>1, <4>3, <4>4, <4>5 DEF OpenAgrees
    <3> QED BY <1>2, <3>1, <3>3, <3>4, <3>5
            DEF CancelRegistrationRequest, CancelActive, RosterChange
  <2>5. entry[t] # "WAITING" /\ reg[t].status # "CONFIRMED"
    BY <1>a, <2>2 DEF TeamAgrees
  <2>6. TeamAgrees(t)' /\ \A sub : StillPromotes(t, sub) => StillPromotes(t, sub)'
    BY <2>1, <2>2, <2>4, <2>5, SettleAgrees
  <2>7. StillRegisters(t)'
    BY <2>2, <2>4 DEF StillRegisters
  <2> QED BY <1>a, <1>c, <2>1, <2>3, <2>6, <2>7, OneTeamMoves
<1> QED BY <1>1, <1>2 DEF Members

\* A request that has ended, started over or loops has read nothing.
LEMMA ElsewhereAgrees ==
  ASSUME TypeOK, NEW r \in Handlers, Finish(r) \/ ThenPromote(r) \/ Again(r)
  PROVE  Others(r) /\ RequestAgrees(r)'
BY RestartForms DEF RequestAgrees

LEMMA PromotionAgrees ==
  ASSUME TypeOK, Agreement, Told, NEW r \in Handlers, Promotion(r)
  PROVE  Agreement'
<1>t. PICK t : t = req[r].team
  OBVIOUS
<1> USE <1>t
<1>a. RequestAgrees(r) /\ {r} \in SUBSET Handlers
  BY DEF Agreement
<1>1. CASE Promote(r)
  <2>0. t \in Teams /\ StillPromotes(t, req[r].sub) /\ TeamAgrees(t)
    BY <1>1, <1>a DEF Promote, TypeOK, RequestAgrees, Agreement
  <2>1. /\ entry[t] = "WAITING" /\ reg[t].status = "NONE"
        /\ reg' = [reg EXCEPT ![t] = [status |-> "CONFIRMED", slot |-> LowestFreeSlot(req[r].cap)]]
        /\ entry' = [entry EXCEPT ![t] = "PROMOTED"]
        /\ teamState' = [teamState EXCEPT ![t] = "CONFIRMED"]
        /\ rosterOk' = rosterOk /\ version' = version
    BY <1>1 DEF Promote, CanInsert
  <2>2. /\ reg'[t].status = "CONFIRMED" /\ teamState'[t] = "CONFIRMED" /\ entry'[t] = "PROMOTED"
        /\ \A u \in Teams \ {t} :
              reg'[u] = reg[u] /\ teamState'[u] = teamState[u] /\ entry'[u] = entry[u]
    BY <2>0, <2>1 DEF TypeOK
  <2>3. ActiveIds(t) \subseteq {req[r].sub}
    BY <2>0, <2>1 DEF StillPromotes
  <2>4. ActiveIds(t)' = {} /\ \A u \in Teams \ {t} : subs'[u] = subs[u]
    <3>1. CASE req[r].sub = 0
      <4>1. subs' = subs
        BY <1>1, <3>1 DEF Promote, TypeOK
      <4>2. ActiveIds(t) = {}
        BY <2>0, <2>3, <3>1 DEF ActiveIds, TypeOK
      <4> QED BY <4>1, <4>2 DEF ActiveIds
    <3>2. CASE req[r].sub # 0
      <4>1. subs' = [subs EXCEPT ![t] = WithStatus(@, {req[r].sub}, "COMPLETED")]
        BY <1>1, <3>2 DEF Promote
      <4>2. "COMPLETED" \in SubmissionStatus \ {"ACTIVE"}
        BY DEF SubmissionStatus
      <4> QED BY <2>0, <2>3, <4>1, <4>2, SubmissionsAfter
    <3> QED BY <3>1, <3>2
  <2>5. TeamAgrees(t)'
    BY <2>2, <2>4 DEF TeamAgrees, OpenAgrees, NoneToAnswer
  <2>6. \A u \in Teams \ {t} : SameTeam(u)
    BY <2>1, <2>2, <2>4 DEF SameTeam
  <2>7. \A sub : StillPromotes(t, sub) => StillPromotes(t, sub)'
    BY <2>2 DEF StillPromotes
  <2>8. \A h \in Handlers \ {r} : req[h].pc = "register" => req[h].team # t
    BY <2>0, <2>1 DEF Agreement, RequestAgrees, StillRegisters, TeamAgrees
  <2>9. Others(r) /\ RequestAgrees(r)'
    BY <1>1, ElsewhereAgrees DEF Promote
  <2> QED BY <1>a, <2>0, <2>5, <2>6, <2>7, <2>8, <2>9, OneTeamMoves DEF Others
<1>2. CASE PromoteStart(r) \/ PromoteCheck(r) \/ PromoteNothing(r)
  <2>1. \A u \in Teams : SameTeam(u)
    BY <1>2 DEF PromoteStart, PromoteCheck, PromoteNothing, teamVars, queueVars, SameTeam
  <2>2. Others(r) /\ req'[r].pc \in {"idle", "promoteCheck", "promotePick"}
    <3>1. CASE PromoteStart(r) /\ ~Finish(r)
      BY <3>1 DEF PromoteStart, TypeOK, RequestRecord, Others
    <3>2. CASE PromoteCheck(r) \/ PromoteNothing(r) \/ Finish(r)
      BY <3>2, RestartForms DEF PromoteCheck, PromoteNothing
    <3> QED BY <1>2, <3>1, <3>2
  <2>3. RequestAgrees(r)'
    BY <2>2 DEF RequestAgrees
  <2> QED BY <1>a, <2>1, <2>2, <2>3, NoTeamMoves DEF Others
<1>3. CASE PromotePick(r)
  <2>1. \A u \in Teams : SameTeam(u)
    BY <1>3 DEF PromotePick, teamVars, queueVars, SameTeam
  <2>2. Others(r)
    BY <1>3, PickForms
  <2>3. CASE req'[r].pc = "idle"
    BY <1>a, <2>1, <2>2, <2>3, NoTeamMoves DEF Others, RequestAgrees
  <2>4. ASSUME NEW u \in Waiting, req'[r].team = u,
               req'[r].pc = IF rosterOk[u] THEN "promoteTx" ELSE "invalidateTx",
               req'[r].sub = NewestActive(u)
        PROVE  Agreement'
    <3>1. u \in Teams /\ entry[u] = "WAITING" /\ TeamAgrees(u)
      BY DEF Waiting, Agreement
    <3>2. req'[r].pc = "promoteTx"
      BY <2>4, <3>1 DEF TeamAgrees
    <3>3. ActiveIds(u) \subseteq {NewestActive(u)}
      <4>1. CASE ActiveIds(u) = {}
        BY <4>1
      <4>2. ASSUME NEW i \in ActiveIds(u) PROVE ActiveIds(u) \subseteq {NewestActive(u)}
        <5>1. ActiveIds(u) = {i} /\ i \in Nat
          BY <3>1, <4>2 DEF TeamAgrees, OpenAgrees, ActiveIds, TypeOK
        <5>2. NewestActive(u) = CHOOSE k \in {i} : \A j \in {i} : j <= k
          BY <5>1 DEF NewestActive
        <5>3. \E k \in {i} : \A j \in {i} : j <= k
          BY <5>1
        <5> QED BY <5>1, <5>2, <5>3
      <4> QED BY <4>1, <4>2
    <3>4. ActiveIds(u)' = ActiveIds(u) /\ entry'[u] = entry[u]
      BY <2>1, <3>1 DEF SameTeam, ActiveIds
    <3>5. RequestAgrees(r)'
      BY <2>4, <3>1, <3>2, <3>3, <3>4 DEF RequestAgrees, StillPromotes, ActiveIds
    <3> QED BY <1>a, <2>1, <2>2, <3>5, NoTeamMoves DEF Others
  <2> QED BY <1>3, <2>3, <2>4, PickForms
<1>4. CASE Invalidate(r)
  BY <1>4, <1>a DEF Invalidate, RequestAgrees
<1> QED BY <1>1, <1>2, <1>3, <1>4 DEF Promotion

LEMMA ContinueAgrees ==
  ASSUME TypeOK, RemovalsJustified, Agreement, Told, NEW r \in Handlers, Continue(r)
  PROVE  Agreement'
<1>t. PICK t : t = req[r].team
  OBVIOUS
<1> USE <1>t
<1>a. RequestAgrees(r) /\ RemovalJustified(r) /\ {r} \in SUBSET Handlers
  BY DEF Agreement, RemovalsJustified
<1>b. ASSUME req[r].pc \in TeamPcs
      PROVE  /\ t \in Teams /\ TeamAgrees(t)
             /\ \A h \in Handlers \ {r} : req[h].pc = "register" => req[h].team # t
  BY <1>b DEF TypeOK, Agreement, RemovalsJustified, OneAtATime, TeamPcs
<1>1. CASE RegisterFinalize(r)
  <2>1. req[r].pc = "register" /\ Finalize(t, 0) /\ Finish(r)
    BY <1>1 DEF RegisterFinalize
  <2>2. t \in Teams /\ TeamAgrees(t) /\ StillRegisters(t)
    BY <1>a, <1>b, <2>1 DEF TeamPcs, RequestAgrees
  <2>3. teamState[t] \notin {"CONFIRMED", "WAITLISTED"} /\ NoneToAnswer(t)
    BY <2>2 DEF StillRegisters
  <2>4. /\ \A u \in Teams \ {t} : SameTeam(u)
        /\ TeamAgrees(t)'
        /\ \A sub : StillPromotes(t, sub) => StillPromotes(t, sub)'
    BY <2>1, <2>2, <2>3, FinalizeAgrees
  <2>5. \A h \in Handlers \ {r} : req[h].pc = "register" => req[h].team # t
    BY <1>b, <2>1 DEF TeamPcs
  <2>6. Others(r) /\ RequestAgrees(r)'
    BY <2>1, ElsewhereAgrees
  <2> QED BY <1>a, <2>2, <2>4, <2>5, <2>6, OneTeamMoves DEF Others
<1>2. CASE RegisterSubmit(r)
  <2>1. /\ req[r].pc = "register" /\ Finish(r)
        /\ teamState' = [teamState EXCEPT ![t] = "PENDING_PLAYER_APPROVAL"]
        /\ reg' = reg /\ entry' = entry /\ rosterOk' = rosterOk /\ version' = version
    BY <1>2 DEF RegisterSubmit, queueVars
  <2>2. t \in Teams /\ TeamAgrees(t) /\ StillRegisters(t) /\ req[r].version <= version[t]
    BY <1>a, <1>b, <2>1 DEF TeamPcs, RequestAgrees
  <2>3. entry[t] # "WAITING" /\ reg[t].status # "CONFIRMED"
    BY <2>2 DEF StillRegisters, TeamAgrees
  <2>4. PICK s : s = WithStatus(subs[t], ActiveIds(t), "CANCELLED")
    OBVIOUS
  <2>5. /\ subs[t] \in Seq(Submission) /\ s \in Seq(Submission)
        /\ {i \in DOMAIN s : s[i].status = "ACTIVE"} = {}
    <3>1. subs[t] \in Seq(Submission) /\ "CANCELLED" \in SubmissionStatus \ {"ACTIVE"}
      BY <2>2 DEF TypeOK, Submission, SubmissionStatus
    <3>2. s \in Seq(Submission)
      BY <2>4, <3>1, WithStatusType
    <3>3. PICK q, ids : /\ q = subs[t] /\ ids = ActiveIds(t) /\ q \in Seq(Submission)
                        /\ ids = {i \in DOMAIN q : q[i].status = "ACTIVE"}
      BY <3>1 DEF ActiveIds
    <3>4. {i \in DOMAIN s : s[i].status = "ACTIVE"} = {}
      <4>1. s = WithStatus(q, ids, "CANCELLED")
        BY <2>4, <3>3
      <4>2. {i \in DOMAIN s : s[i].status = "ACTIVE"}
               = {i \in DOMAIN q : q[i].status = "ACTIVE"} \ ids
        <5>1. "CANCELLED" \in SubmissionStatus /\ "CANCELLED" # "ACTIVE"
          BY <3>1
        <5>2. q \in Seq(Submission)
          BY <3>3
        <5>3. {i \in DOMAIN WithStatus(q, ids, "CANCELLED") :
                 WithStatus(q, ids, "CANCELLED")[i].status = "ACTIVE"}
                 = {i \in DOMAIN q : q[i].status = "ACTIVE"} \ ids
          BY <5>1, <5>2, WithStatusActive
        <5> QED BY <4>1, <5>3
      <4> QED BY <3>3, <4>2
    <3> QED BY <3>1, <3>2, <3>4
  <2>6. CancelActive(t)[t] = s
    BY <2>2, <2>4 DEF CancelActive, TypeOK
  <2>7. PICK new : new = [status |-> "ACTIVE", version |-> req[r].version, declined |-> FALSE]
    OBVIOUS
  <2>8. subs' = [subs EXCEPT ![t] = Append(s, new)]
    BY <1>2, <2>6, <2>7 DEF RegisterSubmit
  <2>9. subs'[t] = Append(s, new) /\ \A u \in Teams \ {t} : subs'[u] = subs[u]
    BY <2>2, <2>8 DEF TypeOK
  <2>10. ActiveIds(t)' = {Len(s) + 1}
    <3>1. DOMAIN Append(s, new) = 1..(Len(s) + 1) /\ DOMAIN s = 1..Len(s) /\ Len(s) \in Nat
      BY <2>5
    <3>2. \A i \in 1..Len(s) : Append(s, new)[i] = s[i]
      BY <2>5
    <3>3. Append(s, new)[Len(s) + 1] = new /\ new.status = "ACTIVE"
      BY <2>5, <2>7
    <3> QED BY <2>5, <2>9, <3>1, <3>2, <3>3 DEF ActiveIds
  <2>11. teamState'[t] = "PENDING_PLAYER_APPROVAL"
         /\ \A u \in Teams \ {t} : teamState'[u] = teamState[u]
    BY <2>1, <2>2 DEF TypeOK
  <2>12. \A u \in Teams \ {t} : SameTeam(u)
    BY <2>1, <2>9, <2>11 DEF SameTeam
  <2>13. TeamAgrees(t)' /\ \A sub : StillPromotes(t, sub) => StillPromotes(t, sub)'
    <3>1. OpenAgrees(t)'
      <4>1. subs'[t][Len(s) + 1] = new
        BY <2>5, <2>9
      <4> QED BY <2>1, <2>2, <2>7, <2>10, <2>11, <4>1 DEF OpenAgrees
    <3> QED BY <2>1, <2>2, <2>3, <2>11, <2>12, <3>1, SettleAgrees
  <2>14. \A h \in Handlers \ {r} : req[h].pc = "register" => req[h].team # t
    BY <1>b, <2>1 DEF TeamPcs
  <2>15. Others(r) /\ RequestAgrees(r)'
    BY <2>1, ElsewhereAgrees
  <2> QED BY <1>a, <2>2, <2>12, <2>13, <2>14, <2>15, OneTeamMoves DEF Others
<1>3. CASE Unregister(r)
  <2>1. /\ req[r].pc = "unregister" /\ ThenPromote(r)
        /\ reg' = [reg EXCEPT ![t].status = "CANCELLED"]
        /\ teamState' = [teamState EXCEPT ![t] = "FORMING"]
        /\ subs' = [subs EXCEPT ![t] = WithStatus(@, ActiveIds(t), "CANCELLED")]
        /\ entry' = entry /\ rosterOk' = rosterOk /\ version' = version
    BY <1>3 DEF Unregister, CancelActive, queueVars
  <2>2. t \in Teams /\ TeamAgrees(t) /\ reg[t].status = "CONFIRMED"
    BY <1>a, <1>b, <2>1 DEF TeamPcs, RemovalJustified
  <2>3. entry[t] # "WAITING"
    BY <2>2 DEF TeamAgrees
  <2>4. /\ reg'[t].status = "CANCELLED" /\ teamState'[t] = "FORMING"
        /\ \A u \in Teams \ {t} : reg'[u] = reg[u] /\ teamState'[u] = teamState[u]
    BY <2>1, <2>2 DEF TypeOK
  <2>5. ActiveIds(t)' = {} /\ \A u \in Teams \ {t} : subs'[u] = subs[u]
    BY <2>1, <2>2, SubmissionsAfter DEF SubmissionStatus
  <2>6. \A u \in Teams \ {t} : SameTeam(u)
    BY <2>1, <2>4, <2>5 DEF SameTeam
  <2>7. TeamAgrees(t)' /\ \A sub : StillPromotes(t, sub) => StillPromotes(t, sub)'
    <3>1. OpenAgrees(t)'
      BY <2>5 DEF OpenAgrees, NoneToAnswer
    <3> QED BY <2>1, <2>2, <2>3, <2>4, <2>6, <3>1, SettleAgrees
  <2>8. \A h \in Handlers \ {r} : req[h].pc = "register" => req[h].team # t
    BY <1>b, <2>1 DEF TeamPcs
  <2>9. Others(r) /\ RequestAgrees(r)'
    BY <2>1, ElsewhereAgrees
  <2> QED BY <1>a, <2>2, <2>6, <2>7, <2>8, <2>9, OneTeamMoves DEF Others
<1>4. CASE Disqualify(r)
  <2>1. /\ req[r].pc = "disqualify" /\ (ThenPromote(r) \/ Finish(r))
        /\ reg' = [reg EXCEPT ![t].status = "DISQUALIFIED"]
        /\ teamState' = IF req[r].was THEN [teamState EXCEPT ![t] = "FORMING"] ELSE teamState
        /\ entry' = entry /\ rosterOk' = rosterOk /\ version' = version /\ subs' = subs
    BY <1>4 DEF Disqualify, queueVars
  <2>2. /\ t \in Teams /\ TeamAgrees(t) /\ reg[t].status # "NONE"
        /\ req[r].was <=> reg[t].status = "CONFIRMED"
    BY <1>a, <1>b, <2>1 DEF TeamPcs, RemovalJustified
  <2>3. /\ reg'[t].status = "DISQUALIFIED"
        /\ teamState'[t] = IF req[r].was THEN "FORMING" ELSE teamState[t]
        /\ \A u \in Teams \ {t} : reg'[u] = reg[u] /\ teamState'[u] = teamState[u]
    BY <2>1, <2>2 DEF TypeOK
  <2>4. ActiveIds(t)' = ActiveIds(t)
    BY <2>1 DEF ActiveIds
  <2>5. \A u \in Teams \ {t} : SameTeam(u)
    BY <2>1, <2>3 DEF SameTeam
  <2>6. TeamAgrees(t)'
    BY <2>1, <2>2, <2>3, <2>4 DEF TeamAgrees, OpenAgrees, NoneToAnswer
  <2>7. \A sub : StillPromotes(t, sub) => StillPromotes(t, sub)'
    BY <2>1, <2>2, <2>3, <2>4 DEF StillPromotes
  <2>8. \A h \in Handlers \ {r} : req[h].pc = "register" => req[h].team # t
    BY <1>b, <2>1 DEF TeamPcs
  <2>9. Others(r) /\ RequestAgrees(r)'
    BY <2>1, ElsewhereAgrees
  <2> QED BY <1>a, <2>2, <2>5, <2>6, <2>7, <2>8, <2>9, OneTeamMoves DEF Others
<1>5. CASE LeaveQueue(r) \/ StatusWrite(r) \/ StatusDecrement(r) \/ StatusTeam(r)
  BY <1>5, <1>a DEF LeaveQueue, StatusWrite, StatusDecrement, StatusTeam, RequestAgrees,
                    RemovalJustified
<1>6. CASE Throw(r)
  <2>1. \A u \in Teams : SameTeam(u)
    BY <1>6 DEF Throw, teamVars, queueVars, SameTeam
  <2>2. Others(r) /\ RequestAgrees(r)'
    BY <1>6, ElsewhereAgrees DEF Throw
  <2> QED BY <1>a, <2>1, <2>2, NoTeamMoves DEF Others
<1>7. CASE Promotion(r)
  BY <1>7, PromotionAgrees
<1> QED BY <1>1, <1>2, <1>3, <1>4, <1>5, <1>6, <1>7 DEF Continue

LEMMA NextAgrees ==
  ASSUME TypeOK, RemovalsJustified, Agreement, Told, [Next]_vars
  PROVE  Agreement'
<1>1. ASSUME NEW r \in Handlers, Continue(r) PROVE Agreement'
  BY <1>1, ContinueAgrees
<1>2. ASSUME NEW r \in Handlers, \A u \in Teams : SameTeam(u), Others(r), RequestAgrees(r)'
      PROVE  Agreement'
  <2>1. {r} \in SUBSET Handlers
    OBVIOUS
  <2> QED BY <1>2, <2>1, NoTeamMoves DEF Others
<1>3. ASSUME \A u \in Teams : SameTeam(u), req' = req PROVE Agreement'
  <2>1. {} \in SUBSET Handlers
    OBVIOUS
  <2> QED BY <1>3, <2>1, NoTeamMoves
<1>4. ASSUME NEW r \in Handlers, Abort(r) PROVE Agreement'
  BY <1>2, <1>4, ElsewhereAgrees DEF Abort, teamVars, queueVars, SameTeam
<1>5. ASSUME NEW r \in Requests, Arrive(r) PROVE Agreement'
  <2>0. r \in Handlers
    BY DEF Handlers
  <2>1. CASE UpdateTournament(r)
    <3>1. (\A u \in Teams : SameTeam(u)) /\ (ThenPromote(r) \/ req' = req)
      BY <2>1 DEF UpdateTournament, teamVars, queueVars, SameTeam
    <3> QED BY <1>2, <1>3, <2>0, <3>1, ElsewhereAgrees
  <2>2. ASSUME NEW t \in Teams, RegisterRead(r, t) PROVE Agreement'
    <3>1. \A u \in Teams : SameTeam(u)
      BY <2>2 DEF RegisterRead, teamVars, queueVars, SameTeam
    <3>2. StillRegisters(t) /\ version[t] \in Nat
      <4>1. TeamAgrees(t) /\ version[t] \in Nat
        BY DEF Agreement, TypeOK
      <4>2. \A i \in ActiveIds(t) : subs[t][i].version \in Nat
        <5>1. subs[t] \in Seq(Submission)
          BY DEF TypeOK
        <5>2. \A i \in DOMAIN subs[t] : subs[t][i] \in Submission
          BY <5>1
        <5> QED BY <5>2 DEF ActiveIds, Submission
      <4>3. teamState[t] = "PENDING_PLAYER_APPROVAL" => NoneToAnswer(t)
        BY <2>2, <4>1, <4>2 DEF RegisterRead, TeamAgrees, OpenAgrees, NoneToAnswer
      <4> QED BY <2>2, <4>1, <4>3 DEF RegisterRead, StillRegisters, TeamAgrees, OpenAgrees
    <3>3. Others(r) /\ req'[r].pc = "register" /\ req'[r].team = t /\ req'[r].version = version[t]
      BY <2>2, ArriveForms
    <3>4. StillRegisters(t)' /\ version'[t] = version[t]
      BY <3>1, <3>2, SameTeamAgrees DEF SameTeam
    <3>5. RequestAgrees(r)'
      BY <3>2, <3>3, <3>4 DEF RequestAgrees, StillRegisters, NoneToAnswer, ActiveIds
    <3> QED BY <1>2, <2>0, <3>1, <3>3, <3>5
  <2>3. ASSUME NEW t \in Teams, UnregisterRead(r, t) \/ DisqualifyRead(r, t) PROVE Agreement'
    <3>1. \A u \in Teams : SameTeam(u)
      BY <2>3 DEF UnregisterRead, DisqualifyRead, teamVars, queueVars, SameTeam
    <3>2. Others(r) /\ req'[r].pc \in {"unregister", "disqualify"}
      BY <2>3, ArriveForms DEF Told
    <3>3. RequestAgrees(r)'
      BY <3>2 DEF RequestAgrees
    <3> QED BY <1>2, <2>0, <3>1, <3>2, <3>3
  <2>4. ASSUME NEW t \in Teams, StatusRead(r, t) PROVE Agreement'
    BY <2>4 DEF StatusRead, Told
  <2> QED BY <1>5, <2>1, <2>2, <2>3, <2>4 DEF Arrive
<1>6. CASE Sweep
  <2>1. Scheduler \in Handlers /\ (\A u \in Teams : SameTeam(u)) /\ ThenPromote(Scheduler)
    BY <1>6 DEF Sweep, Handlers, teamVars, queueVars, SameTeam
  <2> QED BY <1>2, <2>1, ElsewhereAgrees
<1>7. ASSUME NEW t \in Teams, Members(t) PROVE Agreement'
  BY <1>7, MembersAgree
<1>8. ASSUME NEW t \in Teams, RosterDrift(t) PROVE Agreement'
  BY <1>8 DEF RosterDrift, Told
<1>9. CASE StartCompetition \/ CloseTournament \/ UNCHANGED vars
  <2>1. (\A u \in Teams : SameTeam(u)) /\ req' = req
    BY <1>9 DEF StartCompetition, CloseTournament, vars, teamVars, queueVars, SameTeam
  <2> QED BY <1>3, <2>1
<1> QED BY <1>1, <1>4, <1>5, <1>6, <1>7, <1>8, <1>9 DEF Next

LEMMA InitAgreement == Init => Agreement
<1> SUFFICES ASSUME Init PROVE Agreement
  OBVIOUS
<1>1. \A t \in Teams : ActiveIds(t) = {}
  BY DEF Init, ActiveIds
<1>2. \A r \in Handlers : req[r].pc = "idle"
  BY DEF Init, Idle
<1> QED BY <1>1, <1>2 DEF Init, Agreement, TeamAgrees, OpenAgrees, NoneToAnswer, RequestAgrees

LEMMA AgreementInvariant == Told => (Spec => [](TypeOK /\ RemovalsJustified /\ Agreement))
<1> SUFFICES ASSUME Told PROVE Spec => [](TypeOK /\ RemovalsJustified /\ Agreement)
  OBVIOUS
<1>1. TypeOK /\ RemovalsJustified /\ CountIsConfirmed /\ Agreement /\ [Next]_vars
         => (RemovalsJustified /\ CountIsConfirmed /\ Agreement)'
  <2> SUFFICES ASSUME TypeOK, RemovalsJustified, CountIsConfirmed, Agreement, [Next]_vars
               PROVE  (RemovalsJustified /\ CountIsConfirmed /\ Agreement)'
    OBVIOUS
  <2>1. CountStep /\ "overlap" \notin Env
    BY NextCounts DEF Told
  <2> QED BY <2>1, RemovalsStayJustified, CountStaysExact, NextAgrees
<1> QED BY InitRemovalsJustified, InitAgreement, TypeCorrect, <1>1, PTL DEF Spec

\* The team row, the registration and the waitlist entry of every team tell one
\* story, whichever handlers of different teams interleave, crash or are late.
THEOREM RowsAgree == Told => (Spec => []RegistrationAgrees)
<1> SUFFICES ASSUME Told PROVE Spec => []RegistrationAgrees
  OBVIOUS
<1>1. Agreement => RegistrationAgrees
  BY DEF Agreement, TeamAgrees, RegistrationAgrees
<1> QED BY AgreementInvariant, <1>1, PTL

\* A confirmed team has no open submission its players were still to answer,
\* whether it was confirmed by its owner's call, by the last approval or by a
\* promotion, and whenever an admin turned approvals on or off.
THEOREM ConfirmedHasNoneOpen == Told => (Spec => []NoOpenSubmission)
<1> SUFFICES ASSUME Told PROVE Spec => []NoOpenSubmission
  OBVIOUS
<1>1. Agreement => NoOpenSubmission
  BY DEF Agreement, TeamAgrees, OpenAgrees, NoOpenSubmission
<1> QED BY AgreementInvariant, <1>1, PTL

\* What a step makes of a confirmed team: registering it again, or an answer of
\* its players, does not unsettle it.
LEMMA ConfirmedStaysSettled ==
  ASSUME TypeOK, Agreement, [Next]_vars, NEW t \in Teams,
         teamState[t] = "CONFIRMED"
  PROVE  teamState'[t] \notin {"WAITLISTED", "PENDING_PLAYER_APPROVAL"}
<1> SUFFICES teamState'[t] \in {teamState[t], "CONFIRMED", "FORMING", "ROSTER_CHANGE_REQUIRED"}
  OBVIOUS
<1>a. teamState \in [Teams -> TeamRegistrationState]
  BY DEF TypeOK
<1>b. \A u, id : u \in Teams /\ Finalize(u, id) /\ u # t => teamState'[t] = teamState[t]
  BY <1>a DEF Finalize, FinalizeConfirms, FinalizeWaitlists
<1>1. ASSUME NEW r \in Handlers, RegisterFinalize(r) \/ RegisterSubmit(r)
      PROVE  teamState'[t] = teamState[t]
  <2>1. req[r].pc = "register" /\ req[r].team \in Teams
    BY <1>1 DEF RegisterFinalize, RegisterSubmit, TypeOK, TeamPcs
  <2>2. req[r].team # t
    BY <2>1 DEF Agreement, RequestAgrees, StillRegisters
  <2> QED BY <1>1, <1>a, <1>b, <2>1, <2>2 DEF RegisterFinalize, RegisterSubmit
<1>2. ASSUME NEW u \in Teams, ApproveLast(u) PROVE teamState'[t] = teamState[t]
  BY <1>2, <1>b DEF ApproveLast, Answerable
<1>3. ASSUME NEW r \in Handlers, Promote(r)
      PROVE  teamState'[t] \in {teamState[t], "CONFIRMED"}
  BY <1>3, <1>a DEF Promote
<1>4. ASSUME NEW u \in Teams, Decline(u) \/ CancelRegistrationRequest(u) \/ RosterChange(u)
      PROVE  teamState'[t] \in {teamState[t], "FORMING", "ROSTER_CHANGE_REQUIRED"}
  BY <1>4, <1>a DEF Decline, CancelRegistrationRequest, RosterChange
<1>5. ASSUME NEW r \in Handlers,
             LeaveQueue(r) \/ Unregister(r) \/ Disqualify(r) \/ StatusTeam(r) \/ Invalidate(r)
      PROVE  teamState'[t] \in {teamState[t], "FORMING"}
  BY <1>5, <1>a DEF LeaveQueue, Unregister, Disqualify, StatusTeam, Invalidate
<1>6. ASSUME NEW r \in Handlers,
             \/ StatusWrite(r) \/ StatusDecrement(r) \/ Throw(r) \/ Abort(r)
             \/ PromoteStart(r) \/ PromoteCheck(r) \/ PromotePick(r) \/ PromoteNothing(r)
      PROVE  teamState' = teamState
  BY <1>6 DEF StatusWrite, StatusDecrement, Throw, Abort, PromoteStart, PromoteCheck,
              PromotePick, PromoteNothing, teamVars
<1>7. ASSUME NEW r \in Requests, Arrive(r) PROVE teamState' = teamState
  BY <1>7 DEF Arrive, RegisterRead, UnregisterRead, DisqualifyRead, StatusRead, UpdateTournament,
              teamVars
<1>8. ASSUME \/ Sweep \/ StartCompetition \/ CloseTournament \/ UNCHANGED vars
             \/ \E u \in Teams : RosterDrift(u)
      PROVE  teamState' = teamState
  BY <1>8 DEF Sweep, StartCompetition, CloseTournament, vars, RosterDrift, teamVars
<1> QED BY <1>1, <1>2, <1>3, <1>4, <1>5, <1>6, <1>7, <1>8
        DEF Next, Continue, Promotion, Members

\* A register call for a team that is already confirmed leaves it confirmed, though
\* the state it read can be older than the confirmation.
THEOREM RegisterChangesNothing == Told => (Spec => RegisterIsIdempotent)
<1> SUFFICES ASSUME Told PROVE Spec => RegisterIsIdempotent
  OBVIOUS
<1>1. TypeOK /\ Agreement /\ [Next]_vars
         => [\A t \in Confirmed : teamState[t] = "CONFIRMED" =>
                teamState'[t] \notin {"WAITLISTED", "PENDING_PLAYER_APPROVAL"}]_vars
  BY ConfirmedStaysSettled DEF Confirmed
<1> QED BY AgreementInvariant, <1>1, PTL DEF Spec, RegisterIsIdempotent

-----------------------------------------------------------------------------
(* First in, first out: the entry a promotion takes is the oldest one, when  *)
(* a removed team does not register again (its reused entry would come back  *)
(* to the place it had in the queue).                                        *)

Removed(t) == reg[t].status \in {"CANCELLED", "DISQUALIFIED"}
Listed(t) == \E i \in DOMAIN queue : queue[i] = t

\* A team has an entry once; a removed team does nothing until it registers,
\* which it does not; and what a promotion chose stays the oldest entry for as
\* long as it is WAITING, since entries only join at the end.
QueueAgrees ==
    /\ \A t \in Teams : entry[t] # "NONE" <=> Listed(t)
    /\ \A t \in Teams : Removed(t) => teamState[t] = "FORMING"
    /\ \A r \in Handlers :
          /\ req[r].pc = "register" => ~Removed(req[r].team)
          /\ req[r].pc = "promoteTx" /\ entry[req[r].team] = "WAITING" => Oldest(req[r].team)

\* What a step may do to the queue, ...
QueueStays == entry' = entry /\ queue' = queue
Joins(t) ==
    /\ entry[t] = "NONE"
    /\ entry' = [entry EXCEPT ![t] = "WAITING"] /\ queue' = Append(queue, t)
Leaves(t) ==
    /\ Oldest(t)
    /\ entry' = [entry EXCEPT ![t] = "PROMOTED"] /\ queue' = queue
\* ... to the other rows of a team, and to the requests.
RowsMove ==
    \A u \in Teams :
        \/ reg'[u] = reg[u] /\ teamState'[u] = teamState[u]
        \/ reg'[u].status \notin {"CANCELLED", "DISQUALIFIED"}
        \/ teamState'[u] = "FORMING"
HasRead(r) ==
    \/ req'[r].pc = "register" /\ req'[r].team \in Teams /\ ~Removed(req'[r].team)
    \/ req'[r].pc = "promoteTx" /\ req'[r].team \in Teams /\ Oldest(req'[r].team)
Works ==
    /\ QueueStays \/ \E t \in Teams : Joins(t) \/ Leaves(t)
    /\ RowsMove
    /\ \A r \in Handlers : req'[r] = req[r] \/ req'[r].pc \notin {"register", "promoteTx"}
Reads ==
    /\ QueueStays /\ reg' = reg /\ teamState' = teamState
    /\ \E r \in Handlers : Others(r) /\ HasRead(r)

LEMMA OldestStays ==
  ASSUME TypeOK, QueueStays \/ (\E t \in Teams : Joins(t) \/ Leaves(t)),
         \A t \in Teams : entry[t] = "NONE" => ~Listed(t),
         NEW u \in Teams, Oldest(u), entry'[u] = "WAITING"
  PROVE  Oldest(u)'
<1>1. entry \in [Teams -> WaitlistEntryStatus] /\ queue \in Seq(Teams)
  BY DEF TypeOK
<1>2. PICK i \in DOMAIN queue :
         /\ queue[i] = u /\ entry[u] = "WAITING"
         /\ \A j \in DOMAIN queue : entry[queue[j]] = "WAITING" => i <= j
  BY DEF Oldest
<1>3. CASE QueueStays
  BY <1>2, <1>3 DEF QueueStays, Oldest
<1>4. ASSUME NEW t \in Teams, Leaves(t) PROVE Oldest(u)'
  <2>1. \A j \in DOMAIN queue : entry'[queue[j]] = "WAITING" => entry[queue[j]] = "WAITING"
    BY <1>1, <1>4 DEF Leaves
  <2> QED BY <1>2, <1>4, <2>1 DEF Leaves, Oldest
<1>5. ASSUME NEW t \in Teams, Joins(t) PROVE Oldest(u)'
  <2>1. /\ DOMAIN queue = 1..Len(queue) /\ Len(queue) \in Nat
        /\ DOMAIN queue' = 1..(Len(queue) + 1)
        /\ \A j \in 1..Len(queue) : queue'[j] = queue[j]
    BY <1>1, <1>5 DEF Joins
  <2>2. i \in DOMAIN queue' /\ queue'[i] = u
    BY <1>2, <2>1
  <2>3. ASSUME NEW j \in DOMAIN queue', entry'[queue'[j]] = "WAITING" PROVE i <= j
    <3>1. CASE j \in 1..Len(queue)
      <4>1. queue[j] \in Teams /\ queue'[j] = queue[j]
        BY <1>1, <2>1, <3>1
      <4>2. queue[j] # t
        BY <1>5, <2>1, <3>1 DEF Joins, Listed
      <4> QED BY <1>1, <1>2, <1>5, <2>1, <2>3, <3>1, <4>1, <4>2 DEF Joins
    <3>2. CASE j = Len(queue) + 1
      BY <1>2, <2>1, <3>2
    <3> QED BY <2>1, <3>1, <3>2
  <2> QED BY <2>2, <2>3 DEF Oldest
<1> QED BY <1>3, <1>4, <1>5

\* finalizeRegistration of a team that was never removed, which is neither
\* confirmed nor queued: it joins the queue for the first time, or not at all.
LEMMA FinalizeQueues ==
  ASSUME TypeOK, Agreement, NEW t \in Teams, NEW id, Finalize(t, id),
         teamState[t] \notin {"CONFIRMED", "WAITLISTED"}, ~Removed(t)
  PROVE  (QueueStays \/ Joins(t)) /\ RowsMove
<1>0. TeamAgrees(t)
  BY DEF Agreement
<1>1. entry[t] = "NONE" /\ reg[t].status = "NONE"
  BY <1>0 DEF TypeOK, RegistrationStatus, TeamAgrees, Removed
<1>2. CASE FinalizeConfirms(t, id)
  <2>1. entry' = entry /\ queue' = queue
    BY <1>1, <1>2 DEF FinalizeConfirms, TypeOK
  <2>2. reg' = [reg EXCEPT ![t] = [status |-> "CONFIRMED", slot |-> LowestFreeSlot(maxSlots)]]
        /\ teamState' = [teamState EXCEPT ![t] = "CONFIRMED"]
    BY <1>2 DEF FinalizeConfirms
  <2>3. reg'[t].status = "CONFIRMED"
        /\ \A u \in Teams \ {t} : reg'[u] = reg[u] /\ teamState'[u] = teamState[u]
    BY <2>2 DEF TypeOK
  <2> QED BY <2>1, <2>3 DEF QueueStays, RowsMove
<1>3. CASE FinalizeWaitlists(t)
  <2>1. /\ entry' = [entry EXCEPT ![t] = "WAITING"] /\ queue' = Append(queue, t)
        /\ reg' = reg /\ teamState' = [teamState EXCEPT ![t] = "WAITLISTED"]
    BY <1>1, <1>3 DEF FinalizeWaitlists
  <2>2. \A u \in Teams \ {t} : teamState'[u] = teamState[u]
    BY <2>1 DEF TypeOK
  <2> QED BY <1>1, <2>1, <2>2 DEF Joins, RowsMove
<1> QED BY <1>2, <1>3 DEF Finalize

LEMMA ContinueQueues ==
  ASSUME TypeOK, RemovalsJustified, Agreement, QueueAgrees, Told,
         NEW r \in Handlers, Continue(r)
  PROVE  Works \/ Reads
<1>t. PICK t : t = req[r].team
  OBVIOUS
<1> USE <1>t
<1>a. RequestAgrees(r) /\ RemovalJustified(r)
  BY DEF Agreement, RemovalsJustified
<1>b. req[r].pc \in TeamPcs \cup {"promoteTx", "invalidateTx"} => t \in Teams /\ TeamAgrees(t)
  BY DEF TypeOK, Agreement
<1>c. ASSUME Finish(r) \/ ThenPromote(r) \/ Again(r)
      PROVE  \A h \in Handlers : req'[h] = req[h] \/ req'[h].pc \notin {"register", "promoteTx"}
  BY <1>c, RestartForms DEF Others
<1>1. CASE RegisterFinalize(r)
  <2>1. req[r].pc = "register" /\ Finalize(t, 0) /\ Finish(r)
    BY <1>1 DEF RegisterFinalize
  <2>2. t \in Teams /\ teamState[t] \notin {"CONFIRMED", "WAITLISTED"} /\ ~Removed(t)
    BY <1>a, <1>b, <2>1 DEF TeamPcs, RequestAgrees, StillRegisters, QueueAgrees
  <2>3. (QueueStays \/ Joins(t)) /\ RowsMove
    BY <2>1, <2>2, FinalizeQueues
  <2> QED BY <1>c, <2>1, <2>2, <2>3 DEF Works
<1>2. CASE RegisterSubmit(r)
  <2>1. /\ req[r].pc = "register" /\ Finish(r) /\ QueueStays /\ reg' = reg
        /\ teamState' = [teamState EXCEPT ![t] = "PENDING_PLAYER_APPROVAL"]
    BY <1>2 DEF RegisterSubmit, queueVars, QueueStays
  <2>2. t \in Teams /\ ~Removed(t)
    BY <1>b, <2>1 DEF TeamPcs, QueueAgrees
  <2>3. \A u \in Teams \ {t} : teamState'[u] = teamState[u]
    BY <2>1 DEF TypeOK
  <2>4. RowsMove
    BY <2>1, <2>2, <2>3 DEF RowsMove, Removed
  <2> QED BY <1>c, <2>1, <2>4 DEF Works
<1>3. CASE Unregister(r)
  <2>1. /\ req[r].pc = "unregister" /\ ThenPromote(r) /\ QueueStays
        /\ reg' = [reg EXCEPT ![t].status = "CANCELLED"]
        /\ teamState' = [teamState EXCEPT ![t] = "FORMING"]
    BY <1>3 DEF Unregister, queueVars, QueueStays
  <2>2. t \in Teams
    BY <1>b, <2>1 DEF TeamPcs
  <2>3. teamState'[t] = "FORMING"
        /\ \A u \in Teams \ {t} : reg'[u] = reg[u] /\ teamState'[u] = teamState[u]
    BY <2>1, <2>2 DEF TypeOK
  <2>4. RowsMove
    BY <2>3 DEF RowsMove
  <2> QED BY <1>c, <2>1, <2>4 DEF Works
<1>4. CASE Disqualify(r)
  <2>1. /\ req[r].pc = "disqualify" /\ (ThenPromote(r) \/ Finish(r)) /\ QueueStays
        /\ reg' = [reg EXCEPT ![t].status = "DISQUALIFIED"]
        /\ teamState' = IF req[r].was THEN [teamState EXCEPT ![t] = "FORMING"] ELSE teamState
    BY <1>4 DEF Disqualify, queueVars, QueueStays
  <2>2. /\ t \in Teams /\ reg[t].status # "NONE"
        /\ req[r].was <=> reg[t].status = "CONFIRMED"
    BY <1>a, <1>b, <2>1 DEF TeamPcs, RemovalJustified
  <2>3. ~req[r].was => Removed(t)
    BY <2>2 DEF TypeOK, RegistrationStatus, Removed
  <2>4. teamState'[t] = "FORMING"
        /\ \A u \in Teams \ {t} : reg'[u] = reg[u] /\ teamState'[u] = teamState[u]
    BY <2>1, <2>2, <2>3 DEF TypeOK, QueueAgrees
  <2>5. RowsMove
    BY <2>4 DEF RowsMove
  <2> QED BY <1>c, <2>1, <2>5 DEF Works
<1>5. CASE Promote(r)
  <2>1. /\ req[r].pc = "promoteTx" /\ Again(r) /\ entry[t] = "WAITING"
        /\ entry' = [entry EXCEPT ![t] = "PROMOTED"] /\ queue' = queue
        /\ reg' = [reg EXCEPT ![t] = [status |-> "CONFIRMED", slot |-> LowestFreeSlot(req[r].cap)]]
        /\ teamState' = [teamState EXCEPT ![t] = "CONFIRMED"]
    BY <1>5 DEF Promote
  <2>2. t \in Teams /\ Oldest(t)
    BY <1>b, <2>1 DEF QueueAgrees
  <2>3. reg'[t].status = "CONFIRMED"
        /\ \A u \in Teams \ {t} : reg'[u] = reg[u] /\ teamState'[u] = teamState[u]
    BY <2>1, <2>2 DEF TypeOK
  <2>4. RowsMove /\ Leaves(t)
    BY <2>1, <2>2, <2>3 DEF RowsMove, Leaves
  <2> QED BY <1>c, <2>1, <2>2, <2>4 DEF Works
<1>6. CASE PromoteStart(r) \/ PromoteCheck(r) \/ PromoteNothing(r) \/ Throw(r)
  <2>1. QueueStays /\ RowsMove
    BY <1>6 DEF PromoteStart, PromoteCheck, PromoteNothing, Throw, teamVars, queueVars,
                QueueStays, RowsMove
  <2>2. \A h \in Handlers : req'[h] = req[h] \/ req'[h].pc \notin {"register", "promoteTx"}
    <3>1. CASE PromoteStart(r) /\ ~Finish(r)
      BY <3>1 DEF PromoteStart, TypeOK, RequestRecord
    <3>2. CASE PromoteCheck(r) /\ ~Finish(r)
      BY <3>2, RestartForms DEF PromoteCheck, Others
    <3> QED BY <1>6, <1>c, <3>1, <3>2 DEF PromoteNothing, Throw
  <2> QED BY <2>1, <2>2 DEF Works
<1>7. CASE PromotePick(r)
  <2>1. QueueStays /\ reg' = reg /\ teamState' = teamState
    BY <1>7 DEF PromotePick, teamVars, queueVars, QueueStays
  <2>2. Others(r) /\ (req'[r].pc \notin {"register", "promoteTx"} \/ HasRead(r))
    BY <1>7, PickForms DEF Waiting, HasRead
  <2> QED BY <2>1, <2>2 DEF Reads, Works, RowsMove, Others
<1>8. CASE LeaveQueue(r) \/ Invalidate(r) \/ StatusWrite(r) \/ StatusDecrement(r) \/ StatusTeam(r)
  BY <1>8, <1>a DEF LeaveQueue, Invalidate, StatusWrite, StatusDecrement, StatusTeam,
                    RequestAgrees, RemovalJustified
<1> QED BY <1>1, <1>2, <1>3, <1>4, <1>5, <1>6, <1>7, <1>8 DEF Continue, Promotion

LEMMA MembersQueue ==
  ASSUME TypeOK, Agreement, QueueAgrees, NEW t \in Teams, Members(t)
  PROVE  Works
<1>1. req' = req
  BY DEF Members, ApproveLast, Decline, CancelRegistrationRequest, RosterChange
<1>2. CASE ApproveLast(t)
  <2>1. PICK id \in ActiveIds(t) : Answerable(t, id) /\ Finalize(t, id)
    BY <1>2 DEF ApproveLast
  <2>2. teamState[t] = "PENDING_PLAYER_APPROVAL"
    BY <2>1 DEF Answerable
  <2>3. ~Removed(t)
    BY <2>2 DEF QueueAgrees
  <2> QED BY <1>1, <2>1, <2>2, <2>3, FinalizeQueues DEF Works
<1>3. CASE Decline(t) \/ CancelRegistrationRequest(t) \/ RosterChange(t)
  <2>1. QueueStays /\ reg' = reg
    BY <1>3 DEF Decline, CancelRegistrationRequest, RosterChange, queueVars, QueueStays
  <2>2. \A u \in Teams \ {t} : teamState'[u] = teamState[u]
    BY <1>3 DEF Decline, CancelRegistrationRequest, RosterChange, TypeOK
  <2>3. teamState'[t] = "FORMING" \/ ~Removed(t)
    <3>1. CASE Decline(t)
      BY <3>1 DEF Decline, Answerable, QueueAgrees
    <3>2. CASE ~Decline(t)
      BY <1>3, <3>2 DEF CancelRegistrationRequest, RosterChange, TypeOK
    <3> QED BY <3>1, <3>2
  <2>4. RowsMove
    BY <2>1, <2>2, <2>3 DEF RowsMove, Removed
  <2> QED BY <1>1, <2>1, <2>4 DEF Works
<1> QED BY <1>2, <1>3 DEF Members

LEMMA NextQueues ==
  ASSUME TypeOK, RemovalsJustified, Agreement, QueueAgrees, Told, "rejoin" \notin Env,
         [Next]_vars
  PROVE  Works \/ Reads
<1>1. ASSUME NEW r \in Handlers, Finish(r) \/ ThenPromote(r)
      PROVE  \A h \in Handlers : req'[h] = req[h] \/ req'[h].pc \notin {"register", "promoteTx"}
  BY <1>1, RestartForms DEF Others
<1>2. ASSUME NEW r \in Handlers, Abort(r) PROVE Works
  BY <1>1, <1>2 DEF Abort, teamVars, queueVars, QueueStays, RowsMove, Works
<1>3. ASSUME NEW r \in Requests, Arrive(r) PROVE Works \/ Reads
  <2>0. r \in Handlers
    BY DEF Handlers
  <2>1. CASE UpdateTournament(r)
    BY <1>1, <2>0, <2>1 DEF UpdateTournament, teamVars, queueVars, QueueStays, RowsMove, Works
  <2>2. ASSUME NEW t \in Teams, RegisterRead(r, t) PROVE Reads
    <3>1. QueueStays /\ reg' = reg /\ teamState' = teamState /\ ~Removed(t)
      BY <2>2 DEF RegisterRead, teamVars, queueVars, QueueStays, Removed
    <3>2. Others(r) /\ req'[r].pc = "register" /\ req'[r].team = t
      BY <2>2, ArriveForms
    <3> QED BY <2>0, <3>1, <3>2 DEF Reads, HasRead
  <2>3. ASSUME NEW t \in Teams, UnregisterRead(r, t) \/ DisqualifyRead(r, t) PROVE Works
    <3>1. QueueStays /\ RowsMove
      BY <2>3 DEF UnregisterRead, DisqualifyRead, teamVars, queueVars, QueueStays, RowsMove
    <3>2. Others(r) /\ req'[r].pc \in {"leaveQueue", "unregister", "disqualify"}
      BY <2>3, ArriveForms
    <3> QED BY <2>0, <3>1, <3>2 DEF Works, Others
  <2>4. ASSUME NEW t \in Teams, StatusRead(r, t) PROVE FALSE
    BY <2>4 DEF StatusRead, Told
  <2> QED BY <1>3, <2>1, <2>2, <2>3, <2>4 DEF Arrive
<1>4. CASE Sweep
  BY <1>1, <1>4 DEF Sweep, Handlers, teamVars, queueVars, QueueStays, RowsMove, Works
<1>5. ASSUME NEW t \in Teams, RosterDrift(t) PROVE FALSE
  BY <1>5 DEF RosterDrift, Told
<1>6. CASE StartCompetition \/ CloseTournament \/ UNCHANGED vars
  BY <1>6 DEF StartCompetition, CloseTournament, vars, teamVars, queueVars, QueueStays,
              RowsMove, Works
<1> QED BY <1>2, <1>3, <1>4, <1>5, <1>6, ContinueQueues, MembersQueue DEF Next

\* The rows a step writes are those of one team, and only a removal of that
\* team removes it.
LEMMA QueueStaysAgreed ==
  ASSUME TypeOK, RemovalsJustified, Agreement, QueueAgrees, CountStep, Works \/ Reads
  PROVE  QueueAgrees'
<1>1. QueueStays \/ \E t \in Teams : Joins(t) \/ Leaves(t)
  BY DEF Works, Reads
<1>2. entry \in [Teams -> WaitlistEntryStatus] /\ queue \in Seq(Teams)
  BY DEF TypeOK
<1>3. ASSUME NEW t \in Teams PROVE (entry[t] # "NONE" <=> Listed(t))'
  <2>1. CASE QueueStays
    BY <2>1 DEF QueueStays, QueueAgrees, Listed
  <2>2. ASSUME NEW u \in Teams, Leaves(u) PROVE (entry[t] # "NONE" <=> Listed(t))'
    <3>1. entry[u] = "WAITING" /\ queue' = queue /\ entry' = [entry EXCEPT ![u] = "PROMOTED"]
      BY <2>2 DEF Leaves, Oldest
    <3> QED BY <1>2, <3>1 DEF QueueAgrees, Listed
  <2>3. ASSUME NEW u \in Teams, Joins(u) PROVE (entry[t] # "NONE" <=> Listed(t))'
    <3>1. /\ DOMAIN queue = 1..Len(queue) /\ Len(queue) \in Nat
          /\ DOMAIN queue' = 1..(Len(queue) + 1)
          /\ \A j \in 1..Len(queue) : queue'[j] = queue[j]
          /\ queue'[Len(queue) + 1] = u
      BY <1>2, <2>3 DEF Joins
    <3>2. Listed(t)' <=> Listed(t) \/ t = u
      BY <3>1 DEF Listed
    <3> QED BY <1>2, <2>3, <3>2 DEF Joins, QueueAgrees
  <2> QED BY <1>1, <2>1, <2>2, <2>3
<1>4. ASSUME NEW t \in Teams, Removed(t)' PROVE (teamState[t] = "FORMING")'
  BY <1>4 DEF Works, Reads, RowsMove, Removed, QueueAgrees
<1>5. ASSUME NEW r \in Handlers, (req[r].pc = "register")' PROVE ~Removed(req[r].team)'
  <2>t. PICK t : t = req'[r].team
    OBVIOUS
  <2>1. CASE req'[r] = req[r]
    <3>1. t \in Teams /\ ~Removed(t)
      BY <1>5, <2>t, <2>1 DEF TypeOK, TeamPcs, QueueAgrees
    <3>2. CASE Keeps \/ Inserts
      BY <2>t, <3>1, <3>2 DEF Keeps, Inserts, Removed
    <3>3. ASSUME NEW h \in Handlers, Removes(h) PROVE ~Removed(t)'
      <4>1. h # r
        BY <1>5, <3>3 DEF Removes, GoesOn, TeamPcs
      <4>2. req[h].team # t
        BY <1>5, <2>t, <2>1, <3>3, <4>1 DEF Removes, RemovalsJustified, OneAtATime, TeamPcs
      <4> QED BY <3>1, <3>3, <4>2 DEF Removes, Removed
    <3> QED BY <2>t, <3>2, <3>3 DEF CountStep, Removed
  <2>2. CASE req'[r] # req[r]
    <3>1. reg' = reg /\ HasRead(r)
      BY <1>5, <2>2 DEF Works, Reads, Others
    <3> QED BY <1>5, <3>1 DEF HasRead, Removed
  <2> QED BY <2>1, <2>2
<1>6. ASSUME NEW r \in Handlers, (req[r].pc = "promoteTx" /\ entry[req[r].team] = "WAITING")'
      PROVE  Oldest(req[r].team)'
  <2>t. PICK t : t = req'[r].team
    OBVIOUS
  <2>1. t \in Teams /\ Oldest(t)
    <3>1. CASE req'[r] = req[r]
      <4>1. req[r].pc = "promoteTx" /\ t = req[r].team /\ t \in Teams /\ entry'[t] = "WAITING"
        BY <1>6, <2>t, <3>1 DEF TypeOK
      <4>2. entry[t] # "NONE"
        BY <4>1 DEF Agreement, RequestAgrees, StillPromotes
      <4>3. entry[t] = "WAITING"
        BY <1>1, <1>2, <4>1, <4>2 DEF QueueStays, Joins, Leaves
      <4> QED BY <4>1, <4>3 DEF QueueAgrees
    <3>2. CASE req'[r] # req[r]
      BY <1>6, <2>t, <3>2 DEF Works, Reads, Others, HasRead
    <3> QED BY <3>1, <3>2
  <2>2. entry'[t] = "WAITING"
    BY <1>6, <2>t
  <2>3. Oldest(t)'
    BY <1>1, <2>1, <2>2, OldestStays DEF QueueAgrees
  <2> QED BY <2>t, <2>3 DEF Oldest
<1> QED BY <1>3, <1>4, <1>5, <1>6 DEF QueueAgrees

LEMMA InitQueueAgrees == Init => QueueAgrees
BY DEF Init, Idle, QueueAgrees, Listed, Removed

\* Without the requests that overlap, the admin's rewrites of a status, owners
\* who leave the queue, rosters that decay and removed teams that return, every
\* promotion takes the oldest waiting entry of the moment it commits.
THEOREM PromotionIsFair ==
  Told /\ "rejoin" \notin Env => (Spec => PromotesOldest)
<1> SUFFICES ASSUME Told, "rejoin" \notin Env PROVE Spec => PromotesOldest
  OBVIOUS
<1>1. TypeOK /\ RemovalsJustified /\ Agreement /\ CountIsConfirmed /\ QueueAgrees /\ [Next]_vars
         => (QueueAgrees /\ CountIsConfirmed)'
  <2> SUFFICES ASSUME TypeOK, RemovalsJustified, Agreement, CountIsConfirmed, QueueAgrees,
                      [Next]_vars
               PROVE  (QueueAgrees /\ CountIsConfirmed)'
    OBVIOUS
  <2>1. CountStep
    BY NextCounts DEF Told
  <2>2. Works \/ Reads
    BY NextQueues
  <2> QED BY <2>1, <2>2, QueueStaysAgreed, CountStaysExact
<1>2. TypeOK /\ RemovalsJustified /\ Agreement /\ QueueAgrees /\ [Next]_vars
         => [\A t \in Teams : entry[t] = "WAITING" /\ entry'[t] = "PROMOTED" => Oldest(t)]_vars
  <2> SUFFICES ASSUME TypeOK, RemovalsJustified, Agreement, QueueAgrees, [Next]_vars,
                      NEW t \in Teams, entry[t] = "WAITING", entry'[t] = "PROMOTED"
               PROVE  Oldest(t)
    OBVIOUS
  <2>1. QueueStays \/ \E u \in Teams : Joins(u) \/ Leaves(u)
    BY NextQueues DEF Works, Reads
  <2> QED BY <2>1 DEF QueueStays, Joins, Leaves, TypeOK
<1>3. Spec => [](TypeOK /\ RemovalsJustified /\ Agreement /\ QueueAgrees)
  BY AgreementInvariant, InitRemovalsJustified, InitQueueAgrees, <1>1, PTL DEF Spec
<1> QED BY <1>2, <1>3, PTL DEF Spec, PromotesOldest
=============================================================================
