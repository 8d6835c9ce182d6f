------------------------- MODULE TeamRosters_proofs -------------------------
(***************************************************************************)
(* Proofs about TeamRosters, for any number of players, requests and       *)
(* versions: the captain holds the owner's role and nobody else does, what *)
(* became of a submission is final, rosters fit their limits, approvals    *)
(* name the roster that plays, and in a confirmed team nobody plays who    *)
(* has not approved it, each under the orders of requests it needs.        *)
(***************************************************************************)
EXTENDS TeamRosters, FiniteSetTheorems, TLAPS

Status == [Requests -> Flights]
Answers == [Players -> {"NONE", "PENDING", "APPROVED", "DECLINED"}]
Kinds == {"REGISTRATION", "ROSTER_CHANGE"}

\* What a request in flight carries.
Carries(q, subs) ==
    /\ q.op \in RosterOps => q.version \in 1..MaxVersion /\ q.version < MaxVersion
    /\ q.op = "close" => q.who \in {"CANCELLED", "EXPIRED"} /\ q.id \in DOMAIN subs

TypeInv ==
    /\ captain \in Players \cup {"nobody"} /\ ownerAs \in {"LEADER", "MANAGER"}
    /\ role \in Rosters /\ accepting \in BOOLEAN
    /\ version \in 1..MaxVersion /\ reg \in RegistrationState
    /\ lock \in {"OPEN", "ROUND", "LOCKED"}
    /\ sub \in Seq(Submissions)
    /\ join \in [Players -> {"NONE", "PLAYER", "SUBSTITUTE"}]
    /\ req \in [Requests -> Flights]
    /\ \A r \in Requests : Carries(req[r], sub)

-----------------------------------------------------------------------------
(* Records                                                                   *)

LEMMA FlightFields ==
    ASSUME NEW q \in Flights
    PROVE  /\ q.op \in Operations /\ q.who \in Players \cup {"nobody", "CANCELLED", "EXPIRED"}
           /\ q.by \in Players \cup {"nobody"} /\ q.id \in Nat /\ q.version \in Nat
           /\ q.seen \in Rosters /\ q.main \subseteq Players /\ q.remove \subseteq Players
  BY DEF Flights

LEMMA NoFlight ==
    NoRequest \in Flights /\ NoRequest.op = "none"
  BY DEF NoRequest, Flights, Operations, RosterOps, Rosters

LEMMA SubmissionFields ==
    ASSUME NEW x \in Submissions
    PROVE  /\ x.kind \in Kinds /\ x.version \in 1..MaxVersion /\ x.playing \subseteq Players
           /\ x.remove \subseteq Players /\ x.answer \in Answers /\ x.status \in SubmissionStatus
  BY DEF Submissions, Kinds, Answers

\* A request that begins has read the captain, the version and the roles.
LEMMA FlightOf ==
    ASSUME TypeInv, NEW op \in Operations,
           NEW who \in Players \cup {"nobody", "CANCELLED", "EXPIRED"}, NEW id \in Nat,
           NEW main \in SUBSET Players, NEW remove \in SUBSET Players
    PROVE  LET f == Flight(op, who, id, main, remove)
           IN  /\ f \in Flights /\ f.op = op /\ f.who = who /\ f.id = id /\ f.main = main
               /\ f.remove = remove /\ f.by = captain /\ f.version = version /\ f.seen = role
  <1>1. version \in Nat
    BY RosterAssumption DEF TypeInv
  <1> QED BY <1>1 DEF Flight, Flights, TypeInv

\* The same of a request that closes a submission.
LEMMA ClosingOf ==
    ASSUME TypeInv, NEW as \in {"CANCELLED", "EXPIRED"}, NEW s \in Nat
    PROVE  LET f == Flight("close", as, s, {}, {})
           IN  /\ f \in Flights /\ f.op = "close" /\ f.who = as /\ f.id = s
               /\ f.by = captain /\ f.version = version /\ f.seen = role
  <1>1. version \in Nat
    BY RosterAssumption DEF TypeInv
  <1>2. "close" \in Operations
    BY DEF Operations
  <1> QED BY <1>1, <1>2 DEF Flight, Flights, TypeInv

LEMMA StatusOf ==
    ASSUME NEW x \in Submissions, NEW st \in SubmissionStatus
    PROVE  LET y == [x EXCEPT !.status = st]
           IN  /\ y \in Submissions /\ y.status = st /\ y.kind = x.kind /\ y.version = x.version
               /\ y.playing = x.playing /\ y.remove = x.remove /\ y.answer = x.answer
  BY DEF Submissions

LEMMA Answered ==
    ASSUME NEW x \in Submissions, NEW p \in Players, NEW a \in {"APPROVED", "DECLINED"},
           NEW st \in SubmissionStatus
    PROVE  /\ LET y == [x EXCEPT !.answer[p] = a]
              IN  /\ y \in Submissions /\ y.status = x.status /\ y.kind = x.kind
                  /\ y.version = x.version /\ y.playing = x.playing /\ y.remove = x.remove
           /\ LET y == [x EXCEPT !.answer[p] = a, !.status = st]
              IN  /\ y \in Submissions /\ y.status = st /\ y.kind = x.kind
                  /\ y.version = x.version /\ y.playing = x.playing /\ y.remove = x.remove
  BY DEF Submissions

LEMMA SubsOf ==
    ASSUME TypeInv
    PROVE  /\ sub \in Seq(Submissions) /\ DOMAIN sub \subseteq Nat
           /\ \A s \in DOMAIN sub : sub[s] \in Submissions
  <1>1. sub \in Seq(Submissions)
    BY DEF TypeInv
  <1> QED BY <1>1

\* The submissions a closing leaves: the ones that were active have the new status.
LEMMA Closing ==
    ASSUME TypeInv, NEW st \in SubmissionStatus
    PROVE  /\ Closed(st) \in Seq(Submissions) /\ DOMAIN Closed(st) = DOMAIN sub
           /\ \A s \in DOMAIN sub :
                 /\ Closed(st)[s].kind = sub[s].kind /\ Closed(st)[s].version = sub[s].version
                 /\ Closed(st)[s].playing = sub[s].playing /\ Closed(st)[s].remove = sub[s].remove
                 /\ Closed(st)[s].status = IF sub[s].status = "ACTIVE" THEN st ELSE sub[s].status
  <1>1. sub \in Seq(Submissions) /\ \A s \in DOMAIN sub : sub[s] \in Submissions
    BY DEF TypeInv
  <1>2. \A s \in DOMAIN sub :
            /\ Closed(st)[s] \in Submissions
            /\ Closed(st)[s].kind = sub[s].kind /\ Closed(st)[s].version = sub[s].version
            /\ Closed(st)[s].playing = sub[s].playing /\ Closed(st)[s].remove = sub[s].remove
            /\ Closed(st)[s].status = IF sub[s].status = "ACTIVE" THEN st ELSE sub[s].status
    BY <1>1, StatusOf DEF Closed, Active
  <1>3. DOMAIN Closed(st) = 1..Len(sub) /\ DOMAIN sub = 1..Len(sub) /\ Len(sub) \in Nat
    BY <1>1 DEF Closed
  <1>4. Closed(st) = [s \in 1..Len(sub) |-> Closed(st)[s]]
    BY <1>1 DEF Closed
  <1>5. Closed(st) \in [1..Len(sub) -> Submissions]
    BY <1>2, <1>3, <1>4
  <1> QED BY <1>2, <1>3, <1>5

LEMMA Fields ==
    ASSUME NEW q, NEW subs, NEW more, Carries(q, subs), DOMAIN subs \subseteq DOMAIN more
    PROVE  Carries(q, more)
  BY DEF Carries

\* What handleRosterChange leaves.
LEMMA RosterChanged ==
    ASSUME TypeInv, NEW before, NEW by, NEW newRole, NEW newCaptain,
           HandleRosterChange(before, by, newRole, newCaptain)
    PROVE  /\ \/ UNCHANGED <<version, reg, sub>>
              \/ /\ ~Registered /\ version' = version + 1 /\ reg' = "FORMING"
                 /\ \/ UNCHANGED sub
                    \/ reg # "FORMING" /\ sub' = Closed("SUPERSEDED")
           /\ version' \in 1..MaxVersion /\ reg' \in RegistrationState
           /\ sub' \in Seq(Submissions) /\ DOMAIN sub' = DOMAIN sub
  <1>1. Closed("SUPERSEDED") \in Seq(Submissions) /\ DOMAIN Closed("SUPERSEDED") = DOMAIN sub
    BY Closing DEF SubmissionStatus
  <1> QED BY <1>1, RosterAssumption DEF HandleRosterChange, NewVersion, TypeInv, RegistrationState

-----------------------------------------------------------------------------
(* Type correctness                                                          *)

LEMMA Begins ==
    ASSUME TypeInv, NEW r \in Requests, NEW f \in Flights, Begin(r, f), Carries(f, sub)
    PROVE  /\ UNCHANGED <<captain, ownerAs, role, accepting, version, reg, lock, sub, join>>
           /\ req[r].op = "none" /\ req' \in Status /\ req'[r] = f
           /\ \A s \in Requests \ {r} : req'[s] = req[s]
           /\ \A s \in Requests : Carries(req'[s], sub)
  BY DEF Begin, TypeInv, Status

\* Each of the checks that let a request begin, and what it carries then.
Begun(r, f) == Begin(r, f) /\ f \in Flights /\ Carries(f, sub) /\ f.by = captain
               /\ f.version = version /\ f.seen = role

\* What a request saw that lets a player join, and one that makes somebody captain.
Admitted(p, main) ==
    /\ reg # "WAITLISTED" /\ role[p] = "NONE" /\ (reg = "CONFIRMED" => lock = "OPEN")
    /\ IF p \in main THEN Cardinality(Mains(role)) < MaxMain /\ reg # "CONFIRMED"
                      ELSE Subs(role) = {}
MayLead(p) == role[p] = "SUBSTITUTE" => "subLeads" \in Env

LEMMA ReadBegins ==
    ASSUME TypeInv, NEW r \in Requests, Read(r)
    PROVE  \/ \E p \in Players, f \in Flights :
                  Begun(r, f) /\ f.op = "join" /\ f.who = p /\ Admitted(p, f.main)
           \/ \E p \in Players, f \in Flights :
                  Begun(r, f) /\ f.op = "drop" /\ f.who = p /\ p \in Members \ {captain}
                              /\ MayGo(p)
           \/ \E p \in Players, f \in Flights :
                  Begun(r, f) /\ f.op = "transfer" /\ f.who = p /\ p \in Members \ {captain}
                              /\ ~Registered /\ MayLead(p)
           \/ \E f \in Flights :
                  Begun(r, f) /\ f.op = "roster" /\ PlayingRoster(f.main, {}) /\ ~Registered
           \/ \E f \in Flights :
                  Begun(r, f) /\ f.op = "register" /\ ~Registered /\ f.main = Mains(role)
                              /\ Cardinality(f.main) = MaxMain
           \/ \E f \in Flights :
                  /\ Begun(r, f) /\ f.op = "change" /\ reg = "CONFIRMED" /\ ActiveChanges = {}
                  /\ PlayingRoster(f.main, f.remove) /\ captain \notin f.remove
                  /\ f.remove \cap f.main = {} /\ lock = "OPEN"
           \/ \E f \in Flights :
                  Begun(r, f) /\ f.op = "close" /\ f.id \in ActiveChanges
  <1>0. \A op \in RosterOps : op \in Operations
    BY DEF Operations
  <1>1. ASSUME NEW op \in RosterOps, NEW who \in Players \cup {"nobody"},
               NEW main \in SUBSET Players, NEW remove \in SUBSET Players,
               Begin(r, Flight(op, who, 0, main, remove))
        PROVE  LET f == Flight(op, who, 0, main, remove)
               IN  /\ f \in Flights /\ Begun(r, f) /\ f.op = op /\ f.who = who
                   /\ f.main = main /\ f.remove = remove
    <2> DEFINE f == Flight(op, who, 0, main, remove)
    <2>1. /\ f \in Flights /\ f.op = op /\ f.who = who /\ f.main = main /\ f.remove = remove
          /\ f.by = captain /\ f.version = version /\ f.seen = role
      BY <1>0, FlightOf
    <2>2. Begin(r, f)
      BY <1>1
    <2> HIDE DEF f
    <2>3. Carries(f, sub)
      <3>1. op \in RosterOps /\ op # "close" /\ version \in 1..MaxVersion
        BY DEF RosterOps, TypeInv
      <3>2. version < MaxVersion
        BY <2>1, <2>2, <3>1 DEF Begin
      <3> QED BY <2>1, <3>1, <3>2 DEF Carries
    <2>4. Begun(r, f)
      BY <2>1, <2>2, <2>3 DEF Begun
    <2> QED BY <2>1, <2>4 DEF f
  <1>2. CASE \E p \in Players, wantsSub \in BOOLEAN : JoinRead(r, p, wantsSub)
    <2>1. PICK p \in Players, main \in SUBSET Players :
              Admitted(p, main) /\ Begin(r, Flight("join", p, 0, main, {}))
      <3>1. PICK p \in Players, wantsSub \in BOOLEAN : JoinRead(r, p, wantsSub)
        BY <1>2
      <3>2. PICK as \in JoinRoles(p, wantsSub) :
                Begin(r, Flight("join", p, 0, IF as = "PLAYER" THEN {p} ELSE {}, {}))
        BY <3>1 DEF JoinRead
      <3>3. Admitted(p, IF as = "PLAYER" THEN {p} ELSE {})
        BY <3>2 DEF JoinRoles, Admitted
      <3> QED BY <3>2, <3>3
    <2> QED BY <1>1, <2>1 DEF RosterOps
  <1>3. CASE \E p \in Players : DropRead(r, p)
    <2>1. PICK p \in Players : /\ p \in Members \ {captain} /\ MayGo(p)
                               /\ Begin(r, Flight("drop", p, 0, {}, {}))
      BY <1>3 DEF DropRead
    <2> QED BY <1>1, <2>1 DEF RosterOps
  <1>4. CASE \E p \in Players : TransferRead(r, p)
    <2>1. PICK p \in Players : /\ p \in Members \ {captain} /\ ~Registered /\ MayLead(p)
                               /\ Begin(r, Flight("transfer", p, 0, {}, {}))
      BY <1>4 DEF TransferRead, MayLead
    <2> QED BY <1>1, <2>1 DEF RosterOps
  <1>5. ASSUME NEW main, RosterRead(r, main)
        PROVE  \E f \in Flights :
                   Begun(r, f) /\ f.op = "roster" /\ PlayingRoster(f.main, {}) /\ ~Registered
    <2>1. main \subseteq Players /\ PlayingRoster(main, {}) /\ ~Registered
          /\ Begin(r, Flight("roster", "nobody", 0, main, {}))
      BY <1>5 DEF RosterRead, PlayingRoster, Members
    <2> QED BY <1>1, <2>1 DEF RosterOps
  <1>6. ASSUME NEW main, NEW remove, ChangeRead(r, main, remove)
        PROVE  \E f \in Flights :
                  /\ Begun(r, f) /\ f.op = "change" /\ reg = "CONFIRMED" /\ ActiveChanges = {}
                  /\ PlayingRoster(f.main, f.remove) /\ captain \notin f.remove
                  /\ f.remove \cap f.main = {} /\ lock = "OPEN"
    <2>1. /\ main \subseteq Players /\ remove \subseteq Players /\ reg = "CONFIRMED"
          /\ ActiveChanges = {} /\ PlayingRoster(main, remove) /\ captain \notin remove
          /\ remove \cap main = {} /\ lock = "OPEN" /\ Begin(r, Flight("change", "nobody", 0, main, remove))
      BY <1>6 DEF ChangeRead, PlayingRoster, Members
    <2> QED BY <1>1, <2>1 DEF RosterOps
  <1>7. CASE RegisterRead(r)
    <2>1. /\ Mains(role) \subseteq Players /\ ~Registered /\ Cardinality(Mains(role)) = MaxMain
          /\ Begin(r, Flight("register", "nobody", 0, Mains(role), {}))
      BY <1>7 DEF RegisterRead, Mains
    <2> QED BY <1>1, <2>1 DEF RosterOps
  <1>8. CASE \E as \in {"CANCELLED", "EXPIRED"} : CloseRead(r, as)
    <2>1. PICK as \in {"CANCELLED", "EXPIRED"}, s \in ActiveChanges :
              Begin(r, Flight("close", as, s, {}, {}))
      BY <1>8 DEF CloseRead, OpenChanges
    <2> DEFINE f == Flight("close", as, s, {}, {})
    <2>2. s \in DOMAIN sub /\ s \in Nat
      BY SubsOf DEF ActiveChanges, Active
    <2>3. /\ f \in Flights /\ f.op = "close" /\ f.who = as /\ f.id = s
          /\ f.by = captain /\ f.version = version /\ f.seen = role
      BY <2>2, ClosingOf
    <2>4. Begin(r, f)
      BY <2>1
    <2> HIDE DEF f
    <2>5. Carries(f, sub)
      <3>1. f.op = "close" /\ f.op \notin RosterOps
        BY <2>3 DEF RosterOps
      <3>2. f.who \in {"CANCELLED", "EXPIRED"} /\ f.id \in DOMAIN sub
        BY <2>2, <2>3
      <3> QED BY <3>1, <3>2 DEF Carries
    <2> QED BY <2>1, <2>3, <2>4, <2>5 DEF Begun
  <1> QED BY <1>2, <1>3, <1>4, <1>5, <1>6, <1>7, <1>8 DEF Read

LEMMA Ends ==
    ASSUME TypeInv, NEW r \in Requests, Done(r)
    PROVE  /\ req' \in Status /\ req'[r] = NoRequest
           /\ \A s \in Requests \ {r} : req'[s] = req[s]
           /\ \A s \in Requests : Carries(req'[s], sub)
  <1>1. Carries(NoRequest, sub)
    BY NoFlight DEF Carries, RosterOps
  <1> QED BY <1>1, NoFlight DEF Done, TypeInv, Status

LEMMA RolesAre ==
    ASSUME TypeInv
    PROVE  /\ \A p \in Players : role[p] \in TeamMemberRole \cup {"NONE"}
           /\ Members \subseteq Players /\ OwnerRoleOf \in {"CAPTAIN", "MANAGER"}
           /\ \A p \in Players, to \in TeamMemberRole \cup {"NONE"} : [role EXCEPT ![p] = to] \in Rosters
  BY DEF TypeInv, Rosters, Members, OwnerRoleOf

\* The submission that is handed in.
LEMMA Submitted ==
    ASSUME TypeInv, NEW kind \in Kinds, NEW f \in Flights, f.version \in 1..MaxVersion,
           NEW approvers, NEW before \in Seq(Submissions), Submit(kind, f, approvers, before)
    PROVE  /\ sub' \in Seq(Submissions) /\ DOMAIN sub' = 1..(Len(before) + 1)
           /\ DOMAIN before = 1..Len(before) /\ Len(before) \in Nat
           /\ \A s \in DOMAIN before : sub'[s] = before[s]
           /\ LET x == sub'[Len(before) + 1]
              IN  /\ x.kind = kind /\ x.version = f.version /\ x.playing = f.main
                  /\ x.remove = f.remove /\ x.status = "ACTIVE"
                  /\ \A p \in Players : x.answer[p] = "PENDING" => p \in approvers
  <1> DEFINE x == [kind |-> kind, version |-> f.version, playing |-> f.main,
                   remove |-> f.remove, status |-> "ACTIVE",
                   answer |-> [p \in Players |-> IF p \in approvers THEN "PENDING" ELSE "NONE"]]
  <1>1. x \in Submissions
    BY FlightFields DEF Submissions, Kinds, SubmissionStatus
  <1>2. sub' = Append(before, x)
    BY DEF Submit
  <1>3. /\ x.kind = kind /\ x.version = f.version /\ x.playing = f.main
        /\ x.remove = f.remove /\ x.status = "ACTIVE"
        /\ \A p \in Players : x.answer[p] = "PENDING" => p \in approvers
    OBVIOUS
  <1> HIDE DEF x
  <1> QED BY <1>1, <1>2, <1>3

\* What the steps that are not about requests leave.
LEMMA OtherTypes ==
    ASSUME TypeInv,
           captain' \in Players \cup {"nobody"}, ownerAs' \in {"LEADER", "MANAGER"},
           role' \in Rosters, accepting' \in BOOLEAN, version' \in 1..MaxVersion,
           reg' \in RegistrationState, lock' \in {"OPEN", "ROUND", "LOCKED"},
           sub' \in Seq(Submissions), DOMAIN sub \subseteq DOMAIN sub',
           join' \in [Players -> {"NONE", "PLAYER", "SUBSTITUTE"}],
           req' \in Status, \A r \in Requests : Carries(req'[r], sub)
    PROVE  TypeInv'
  BY Fields DEF TypeInv, Status

\* A roster write: the roles it leaves and the request that ends.
LEMMA RosterWrites ==
    ASSUME TypeInv, NEW r \in Requests, NEW before, NEW by, NEW newRole \in Rosters,
           NEW newCaptain \in Players \cup {"nobody"}, role' = newRole, captain' = newCaptain,
           HandleRosterChange(before, by, newRole, newCaptain), Done(r),
           UNCHANGED <<ownerAs, accepting, lock, join>>
    PROVE  TypeInv'
  <1>1. /\ version' \in 1..MaxVersion /\ reg' \in RegistrationState
        /\ sub' \in Seq(Submissions) /\ DOMAIN sub \subseteq DOMAIN sub'
    BY RosterChanged
  <1>2. req' \in Status /\ \A s \in Requests : Carries(req'[s], sub)
    BY Ends
  <1>3. /\ ownerAs' \in {"LEADER", "MANAGER"} /\ accepting' \in BOOLEAN
        /\ lock' \in {"OPEN", "ROUND", "LOCKED"}
        /\ join' \in [Players -> {"NONE", "PLAYER", "SUBSTITUTE"}]
    BY DEF TypeInv
  <1> QED BY <1>1, <1>2, <1>3, OtherTypes

LEMMA AppliedTypes ==
    ASSUME TypeInv, NEW seen, NEW main, NEW remove
    PROVE  Applied(seen, main, remove) \in Rosters
  <1>1. \A p \in Players : role[p] \in TeamMemberRole \cup {"NONE"}
    BY RolesAre
  <1> QED BY <1>1 DEF Applied, Rosters, TeamMemberRole

LEMMA WriteTypes ==
    ASSUME TypeInv, NEW r \in Requests, Write(r)
    PROVE  TypeInv'
  <1>0. req[r] \in Flights /\ Carries(req[r], sub) /\ role \in Rosters /\ captain \in Players \cup {"nobody"}
    BY DEF TypeInv
  <1>1. CASE JoinWrite(r)
    <2> DEFINE newRole == [role EXCEPT ![req[r].who] = IF req[r].who \in req[r].main THEN "PLAYER"
                                                       ELSE "SUBSTITUTE"]
    <2>1. newRole \in Rosters
      BY <1>0 DEF Rosters, TeamMemberRole
    <2>2. /\ role' = newRole /\ captain' = captain /\ Done(r) /\ UNCHANGED <<ownerAs, accepting, lock, join>>
          /\ HandleRosterChange(Mains(req[r].seen), req[r].by, newRole, captain)
      BY <1>1 DEF JoinWrite
    <2> HIDE DEF newRole
    <2> QED BY <1>0, <2>1, <2>2, RosterWrites
  <1>2. CASE DropWrite(r)
    <2> DEFINE newRole == [role EXCEPT ![req[r].who] = "NONE"]
    <2>1. newRole \in Rosters
      BY <1>0 DEF Rosters
    <2>2. /\ role' = newRole /\ captain' = captain /\ Done(r) /\ UNCHANGED <<ownerAs, accepting, lock, join>>
          /\ HandleRosterChange(Mains(req[r].seen), req[r].by, newRole, captain)
      BY <1>2 DEF DropWrite
    <2> HIDE DEF newRole
    <2> QED BY <1>0, <2>1, <2>2, RosterWrites
  <1>3. CASE TransferWrite(r)
    <2> DEFINE newRole == Transferred(req[r].by, req[r].who)
    <2>1. newRole \in Rosters
      BY <1>0, RolesAre DEF Rosters, Transferred, TeamMemberRole
    <2>2. /\ role' = newRole /\ captain' = req[r].who /\ Done(r)
          /\ UNCHANGED <<ownerAs, accepting, lock, join>>
          /\ HandleRosterChange(Mains(req[r].seen), req[r].by, newRole, req[r].who)
      BY <1>3 DEF TransferWrite
    <2>3. req[r].who \in Players \cup {"nobody"}
      BY <1>3, RolesAre DEF TransferWrite
    <2> HIDE DEF newRole
    <2> QED BY <1>0, <2>1, <2>2, <2>3, RosterWrites
  <1>4. CASE RosterWrite(r)
    <2> DEFINE newRole == [p \in Players |-> Swapped(r, p)]
    <2>1. newRole \in Rosters
      BY <1>0, RolesAre DEF Rosters, Swapped, TeamMemberRole
    <2>2. /\ role' = newRole /\ captain' = captain /\ Done(r) /\ UNCHANGED <<ownerAs, accepting, lock, join>>
          /\ HandleRosterChange(Mains(req[r].seen), req[r].by, newRole, captain)
      BY <1>4 DEF RosterWrite
    <2> HIDE DEF newRole
    <2> QED BY <1>0, <2>1, <2>2, RosterWrites
  <1>5. CASE Throw(r)
    <2>1. Done(r) /\ UNCHANGED <<captain, ownerAs, role, accepting, version, reg, lock, sub, join>>
      BY <1>5 DEF Throw
    <2> QED BY <2>1, Ends, OtherTypes DEF TypeInv
  <1>6. CASE RegisterSubmit(r)
    <2>1. PICK approvers : Submit("REGISTRATION", req[r], approvers, Closed("CANCELLED"))
      BY <1>6 DEF RegisterSubmit
    <2>2. req[r].version \in 1..MaxVersion
      BY <1>0, <1>6 DEF RegisterSubmit, Carries, RosterOps
    <2>3. Closed("CANCELLED") \in Seq(Submissions) /\ DOMAIN Closed("CANCELLED") = DOMAIN sub
      BY Closing DEF SubmissionStatus
    <2>4. sub' \in Seq(Submissions) /\ DOMAIN sub \subseteq DOMAIN sub'
      BY <1>0, <2>1, <2>2, <2>3, Submitted DEF Kinds
    <2>5. /\ Done(r) /\ reg' \in RegistrationState
          /\ UNCHANGED <<captain, ownerAs, role, accepting, version, lock, join>>
      BY <1>6 DEF RegisterSubmit, RegistrationState
    <2> QED BY <2>4, <2>5, Ends, OtherTypes DEF TypeInv
  <1>7. CASE RegisterFinalize(r)
    <2>1. /\ Done(r) /\ reg' \in RegistrationState
          /\ UNCHANGED <<captain, ownerAs, role, accepting, version, lock, sub, join>>
      BY <1>7 DEF RegisterFinalize, RegistrationState
    <2> QED BY <2>1, Ends, OtherTypes DEF TypeInv
  <1>8. CASE ChangeApply(r)
    <2>1. /\ Done(r) /\ role' \in Rosters
          /\ UNCHANGED <<captain, ownerAs, accepting, reg, lock, sub, join>>
      BY <1>8, AppliedTypes DEF ChangeApply
    <2>2. version' \in 1..MaxVersion
      BY <1>0, <1>8, RosterAssumption DEF ChangeApply, Carries, RosterOps
    <2> QED BY <2>1, <2>2, Ends, OtherTypes DEF TypeInv
  <1>9. CASE ChangeSubmit(r)
    <2>1. /\ Submit("ROSTER_CHANGE", req[r], Added(req[r]), sub) /\ sub \in Seq(Submissions)
      BY <1>9, SubsOf DEF ChangeSubmit
    <2>2. req[r].version \in 1..MaxVersion
      BY <1>0, <1>9 DEF ChangeSubmit, Carries, RosterOps
    <2>4. sub' \in Seq(Submissions) /\ DOMAIN sub \subseteq DOMAIN sub'
      BY <1>0, <2>1, <2>2, Submitted DEF Kinds
    <2>5. /\ Done(r) /\ UNCHANGED <<captain, ownerAs, role, accepting, version, reg, lock, join>>
      BY <1>9 DEF ChangeSubmit
    <2> QED BY <2>4, <2>5, Ends, OtherTypes DEF TypeInv
  <1>10. CASE CloseWrite(r)
    <2>1. /\ req[r].who \in SubmissionStatus /\ req[r].id \in DOMAIN sub
          /\ sub' = [sub EXCEPT ![req[r].id] = [sub[req[r].id] EXCEPT !.status = req[r].who]]
      BY <1>0, <1>10 DEF CloseWrite, Carries, SubmissionStatus
    <2>2. [sub[req[r].id] EXCEPT !.status = req[r].who] \in Submissions
      BY <2>1, SubsOf, StatusOf
    <2>4. sub' \in Seq(Submissions) /\ DOMAIN sub \subseteq DOMAIN sub'
      BY <2>1, <2>2, SubsOf
    <2>5. /\ Done(r) /\ UNCHANGED <<captain, ownerAs, role, accepting, version, reg, lock, join>>
      BY <1>10 DEF CloseWrite
    <2> QED BY <2>4, <2>5, Ends, OtherTypes DEF TypeInv
  <1> QED BY <1>1, <1>2, <1>3, <1>4, <1>5, <1>6, <1>7, <1>8, <1>9, <1>10 DEF Write

-----------------------------------------------------------------------------
(* Steps without a request                                                   *)

Quiet == UNCHANGED <<captain, ownerAs, role, accepting, version, reg, sub, req>>

\* Whoever is added to a team by a transaction that has read it, an approved request or an
\* accepted invitation.
AddedAs(p, to) ==
    LET newRole == [role EXCEPT ![p] = to]
    IN  /\ role[p] = "NONE" /\ role' = newRole
        /\ HandleRosterChange(Mains(role), captain, newRole, captain)
        /\ UNCHANGED <<captain, ownerAs, accepting, lock, req>>

LEMMA AddedTypes ==
    ASSUME TypeInv, NEW p \in Players, NEW to \in {"PLAYER", "SUBSTITUTE"}, AddedAs(p, to),
           join' \in [Players -> {"NONE", "PLAYER", "SUBSTITUTE"}]
    PROVE  TypeInv'
  <1>1. to \in TeamMemberRole /\ UNCHANGED <<captain, ownerAs, accepting, lock, req>>
    BY DEF AddedAs, TeamMemberRole
  <1> DEFINE newRole == [role EXCEPT ![p] = to]
  <1>2. newRole \in Rosters
    BY <1>1, RolesAre
  <1>3. role' = newRole /\ HandleRosterChange(Mains(role), captain, newRole, captain)
    BY DEF AddedAs
  <1>4. req' \in Status /\ \A r \in Requests : Carries(req'[r], sub)
    BY <1>1 DEF TypeInv, Status
  <1>5. /\ version' \in 1..MaxVersion /\ reg' \in RegistrationState
        /\ sub' \in Seq(Submissions) /\ DOMAIN sub \subseteq DOMAIN sub'
    BY <1>3, RosterChanged
  <1> HIDE DEF newRole
  <1> QED BY <1>1, <1>2, <1>3, <1>4, <1>5, OtherTypes DEF TypeInv

\* A captain who approves adds the player as he would have joined.
LEMMA ApproveJoinTypes ==
    ASSUME TypeInv, NEW p \in Players, ApproveJoin(p)
    PROVE  TypeInv'
  <1>1. /\ join[p] \in {"PLAYER", "SUBSTITUTE"}
        /\ join' \in [Players -> {"NONE", "PLAYER", "SUBSTITUTE"}]
        /\ UNCHANGED <<captain, ownerAs, accepting, lock, req>>
    BY DEF ApproveJoin, TypeInv
  <1>2. req' \in Status /\ \A r \in Requests : Carries(req'[r], sub)
    BY <1>1 DEF TypeInv, Status
  <1>3. UNCHANGED <<role, version, reg, sub>> \/ AddedAs(p, join[p])
    BY DEF ApproveJoin, AddedAs
  <1>4. CASE UNCHANGED <<role, version, reg, sub>>
    BY <1>1, <1>2, <1>4, OtherTypes DEF TypeInv
  <1> QED BY <1>1, <1>3, <1>4, AddedTypes

\* Whoever accepts a squad's invitation is added as a player.
LEMMA AcceptTypes ==
    ASSUME TypeInv, NEW p \in Players, AcceptInvitation(p)
    PROVE  TypeInv'
  <1>1. AddedAs(p, "PLAYER") /\ UNCHANGED join
    BY DEF AcceptInvitation, AddedAs
  <1>2. join' \in [Players -> {"NONE", "PLAYER", "SUBSTITUTE"}]
    BY <1>1 DEF TypeInv
  <1> QED BY <1>1, <1>2, AddedTypes

LEMMA ApproveTypes ==
    ASSUME TypeInv, NEW p \in Players, NEW s \in DOMAIN sub, Approve(p, s)
    PROVE  TypeInv'
  <1> DEFINE approved == [sub[s] EXCEPT !.answer[p] = "APPROVED"]
             completed == [approved EXCEPT !.status = "COMPLETED"]
  <1>1. approved \in Submissions
    BY SubsOf, Answered DEF SubmissionStatus
  <1>2. completed \in Submissions
    BY <1>1, StatusOf DEF SubmissionStatus
  <1>3. sub' = [sub EXCEPT ![s] = approved] \/ sub' = [sub EXCEPT ![s] = completed]
    BY DEF Approve
  <1> HIDE DEF approved, completed
  <1>4. sub' \in Seq(Submissions) /\ DOMAIN sub \subseteq DOMAIN sub'
    BY <1>1, <1>2, <1>3, SubsOf
  <1>5. /\ UNCHANGED <<captain, ownerAs, accepting, lock, join, req>>
        /\ version' \in 1..MaxVersion /\ reg' \in RegistrationState /\ role' \in Rosters
    BY RosterAssumption, AppliedTypes DEF Approve, TypeInv, RegistrationState
  <1> QED BY <1>4, <1>5, OtherTypes DEF TypeInv, Status

LEMMA DeclineTypes ==
    ASSUME TypeInv, NEW p \in Players, NEW s \in DOMAIN sub, Decline(p, s)
    PROVE  TypeInv'
  <1> DEFINE declined == [sub[s] EXCEPT !.answer[p] = "DECLINED"]
             cancelled == [sub[s] EXCEPT !.answer[p] = "DECLINED", !.status = "CANCELLED"]
  <1>1. declined \in Submissions /\ cancelled \in Submissions
    BY SubsOf, Answered DEF SubmissionStatus
  <1>2. sub' = [sub EXCEPT ![s] = declined] \/ sub' = [sub EXCEPT ![s] = cancelled]
    BY DEF Decline
  <1> HIDE DEF declined, cancelled
  <1>3. sub' \in Seq(Submissions) /\ DOMAIN sub \subseteq DOMAIN sub'
    BY <1>1, <1>2, SubsOf
  <1>4. /\ UNCHANGED <<captain, ownerAs, role, accepting, version, lock, join, req>>
        /\ reg' \in RegistrationState
    BY DEF Decline, TypeInv, RegistrationState
  <1> QED BY <1>3, <1>4, OtherTypes DEF TypeInv, Status

LEMMA OperateTypes ==
    ASSUME TypeInv, Operate
    PROVE  TypeInv'
  <1>0. req \in Status /\ \A r \in Requests : Carries(req[r], sub)
    BY DEF TypeInv, Status
  <1>1. ASSUME NEW r \in Requests, Read(r)
        PROVE  TypeInv'
    <2>1. PICK f \in Flights : Begun(r, f)
      BY <1>1, ReadBegins
    <2>2. /\ UNCHANGED <<captain, ownerAs, role, accepting, version, reg, lock, sub, join>>
          /\ req' \in Status /\ \A s \in Requests : Carries(req'[s], sub)
      BY <2>1, Begins DEF Begun
    <2> QED BY <2>2, OtherTypes DEF TypeInv
  <1>2. CASE CancelRegistration
    <2>1. /\ sub' \in Seq(Submissions) /\ DOMAIN sub \subseteq DOMAIN sub'
          /\ UNCHANGED <<captain, ownerAs, role, accepting, version, lock, join, req>>
          /\ reg' \in RegistrationState
      BY <1>2, Closing DEF CancelRegistration, SubmissionStatus, RegistrationState
    <2> QED BY <1>0, <2>1, OtherTypes DEF TypeInv
  <1>3. CASE Withdraw
    <2>1. /\ sub' \in Seq(Submissions) /\ DOMAIN sub \subseteq DOMAIN sub'
          /\ UNCHANGED <<captain, ownerAs, role, accepting, version, lock, join, req>>
          /\ reg' \in RegistrationState
      BY <1>3, Closing, SubsOf DEF Withdraw, SubmissionStatus, RegistrationState
    <2> QED BY <1>0, <2>1, OtherTypes DEF TypeInv
  <1>4. CASE ToggleSubstitutes \/ Promote \/ LockBegins
    BY <1>4 DEF ToggleSubstitutes, Promote, LockBegins, TypeInv, RegistrationState
  <1>5. ASSUME NEW p \in Players, \/ AnswerJoin(p)
                                 \/ \E wantsSub \in BOOLEAN : JoinAsk(p, wantsSub)
        PROVE  TypeInv'
    <2>1. /\ UNCHANGED <<captain, ownerAs, role, accepting, version, reg, lock, sub, req>>
          /\ join' \in [Players -> {"NONE", "PLAYER", "SUBSTITUTE"}]
      BY <1>5 DEF AnswerJoin, JoinAsk, JoinRoles, TypeInv
    <2> QED BY <1>0, <2>1, OtherTypes DEF TypeInv
  <1>6. ASSUME NEW p \in Players, Answer(p)
        PROVE  TypeInv'
    BY <1>5, <1>6, ApproveJoinTypes, AcceptTypes, ApproveTypes, DeclineTypes DEF Answer
  <1> QED BY <1>1, <1>2, <1>3, <1>4, <1>6, WriteTypes DEF Operate

LEMMA CreateTypes ==
    ASSUME TypeInv, NEW p \in Players, NEW owner \in {"LEADER", "MANAGER"},
           NEW takesSubs \in BOOLEAN, CreateTeam(p, owner, takesSubs)
    PROVE  TypeInv'
  <1>1. role' \in Rosters
    BY DEF CreateTeam, TypeInv, Rosters, TeamMemberRole
  <1> QED BY <1>1 DEF CreateTeam, TypeInv

LEMMA TypesHold == Spec => []TypeInv
  <1>1. Init => TypeInv
    <2> SUFFICES ASSUME Init PROVE TypeInv
      OBVIOUS
    <2>1. \A r \in Requests : req[r] \in Flights /\ Carries(req[r], sub)
      BY NoFlight DEF Init, Carries, RosterOps
    <2>2. req \in [Requests -> Flights] /\ sub \in Seq(Submissions)
      BY <2>1 DEF Init
    <2> QED BY <2>1, <2>2, RosterAssumption DEF Init, TypeInv, Rosters, RegistrationState
  <1>2. TypeInv /\ [Next]_vars => TypeInv'
    <2> SUFFICES ASSUME TypeInv, [Next]_vars PROVE TypeInv'
      OBVIOUS
    <2>1. CASE UNCHANGED vars
      BY <2>1 DEF vars, TypeInv
    <2> QED BY <2>1, OperateTypes, CreateTypes DEF Next, Create
  <1> QED BY <1>1, <1>2, PTL DEF Spec

\* The team, its submissions and the requests keep their types.
THEOREM TypeCorrect == Spec => []TypeOK
  <1>1. TypeInv => TypeOK
    BY SubsOf DEF TypeInv, TypeOK
  <1> QED BY <1>1, TypesHold, PTL

-----------------------------------------------------------------------------
(* The invariant of the owner                                                *)

Places == {"join", "roster", "transfer", "drop"}
Moves == {"change", "drop", "join"}
Holders == {"CONFIRMED", "WAITLISTED"}

\* Before there is a team there is nothing else.
Unborn ==
    /\ role = [p \in Players |-> "NONE"] /\ sub = <<>>
    /\ \A r \in Requests : req[r].op = "none"

\* c holds the role of an owner of the kind o, and nobody else holds one.
Led(c, o, f) ==
    /\ f[c] = IF o = "MANAGER" THEN "MANAGER" ELSE "CAPTAIN"
    /\ \A p \in Players \ {c} : f[p] \notin {"CAPTAIN", "MANAGER"}

\* A roster that plays: a captain is in it, a manager is not, and neither is taken out.
KeepsOwner(c, o, main, remove) == c \notin remove /\ (c \in main <=> o = "LEADER")

\* Which requests run beside each other.
Apart(q, other) ==
    /\ q.op \in Places => other.op \notin Places
    /\ q.op \in Moves => other.op \notin Moves
    /\ q.op = "change" => other.op \notin RosterOps

\* What a request in flight knows of a team with captain c, owner's role o, roles f,
\* version v and state g.
Knows(q, c, o, f, v, g) ==
    /\ q.op # "none" => q.version <= v
    /\ q.op \in {"drop", "transfer"} => q.who \in Players \ {c}
    /\ q.op = "transfer" => q.by = c
    /\ q.op = "roster" => q.seen = f /\ KeepsOwner(c, o, q.main, {})
    /\ q.op = "change" => /\ q.seen = f /\ q.version = v /\ g = "CONFIRMED"
                          /\ KeepsOwner(c, o, q.main, q.remove)
    /\ q.op \in {"roster", "transfer", "register"} => g \notin Holders

\* A submission is not newer than the team, and a change of the current version is one
\* that the owner plays in as before.
Sound(x, c, o, v) ==
    /\ x.version <= v
    /\ x.status = "ACTIVE" /\ x.kind = "ROSTER_CHANGE" /\ x.version = v =>
           KeepsOwner(c, o, x.playing, x.remove)

Alone == \A r, s \in Requests : r # s => Apart(req[r], req[s])
Known == \A r \in Requests : Knows(req[r], captain, ownerAs, role, version, reg)
SoundSubs == \A s \in DOMAIN sub : Sound(sub[s], captain, ownerAs, version)

Inv ==
    /\ captain = "nobody" => Unborn
    /\ captain # "nobody" => Led(captain, ownerAs, role) /\ Alone /\ Known /\ SoundSubs

\* A step that begins no request.
LEMMA NobodyBegins ==
    ASSUME TypeInv, Inv, captain # "nobody", captain' # "nobody",
           Led(captain', ownerAs', role'),
           \A r \in Requests :
               \/ req'[r].op = "none"
               \/ req'[r] = req[r] /\ Knows(req[r], captain', ownerAs', role', version', reg'),
           \A s \in DOMAIN sub' : Sound(sub'[s], captain', ownerAs', version')
    PROVE  Inv'
  <1>1. Known'
    BY DEF Known, Knows
  <1>2. Alone'
    <2> SUFFICES ASSUME NEW r \in Requests, NEW s \in Requests, r # s
                 PROVE  Apart(req'[r], req'[s])
      BY DEF Alone
    <2>1. Apart(req[r], req[s])
      BY DEF Inv, Alone
    <2> QED BY <2>1 DEF Apart, Places, Moves, RosterOps
  <1>3. SoundSubs'
    BY DEF SoundSubs
  <1> QED BY <1>1, <1>2, <1>3 DEF Inv

\* A step of the request r, or of none, that leaves the team as it is.
LEMMA TeamStays ==
    ASSUME TypeInv, Inv, captain # "nobody", UNCHANGED <<captain, ownerAs, role, version, reg>>,
           \A r \in Requests : req'[r].op = "none" \/ req'[r] = req[r],
           \A s \in DOMAIN sub' : Sound(sub'[s], captain, ownerAs, version)
    PROVE  Inv'
  <1>1. \A r \in Requests :
            \/ req'[r].op = "none"
            \/ req'[r] = req[r] /\ Knows(req[r], captain', ownerAs', role', version', reg')
    BY DEF Inv, Known
  <1>2. \A s \in DOMAIN sub' : Sound(sub'[s], captain', ownerAs', version')
    OBVIOUS
  <1>3. Led(captain', ownerAs', role')
    BY DEF Inv
  <1> QED BY <1>1, <1>2, <1>3, NobodyBegins

\* A new version makes every open change an old one.
LEMMA Outdated ==
    ASSUME TypeInv, Inv, captain # "nobody", version' = version + 1,
           sub' \in Seq(Submissions), DOMAIN sub' = DOMAIN sub,
           \A s \in DOMAIN sub : sub'[s].version = sub[s].version
    PROVE  \A s \in DOMAIN sub' : Sound(sub'[s], captain', ownerAs', version')
  <1> SUFFICES ASSUME NEW s \in DOMAIN sub
               PROVE  Sound(sub'[s], captain', ownerAs', version')
    OBVIOUS
  <1>1. sub[s].version <= version
    BY DEF Inv, SoundSubs, Sound
  <1>2. sub[s].version \in Int /\ version \in Int
    BY SubsOf, SubmissionFields, RosterAssumption DEF TypeInv
  <1>3. sub'[s].version <= version' /\ sub'[s].version # version'
    BY <1>1, <1>2
  <1> QED BY <1>3 DEF Sound

\* Joining, leaving, a transfer of the captaincy and a swap, with the version they leave.
LEMMA RosterStep ==
    ASSUME TypeInv, Inv, captain # "nobody",
           NEW before, NEW by, NEW newRole, NEW newCaptain \in Players,
           HandleRosterChange(before, by, newRole, newCaptain),
           role' = newRole, captain' = newCaptain, UNCHANGED ownerAs,
           Led(newCaptain, ownerAs, newRole),
           newCaptain # captain => by = captain /\ ~Registered,
           \A r \in Requests :
               \/ req'[r].op = "none"
               \/ /\ req'[r] = req[r] /\ req[r].op \in {"register", "close", "drop"}
                  /\ req[r].op = "drop" => newCaptain = captain
    PROVE  Inv'
  <1>1. /\ \/ UNCHANGED <<version, reg, sub>> /\ newCaptain = captain
           \/ /\ ~Registered /\ version' = version + 1 /\ reg' = "FORMING"
              /\ (UNCHANGED sub \/ sub' = Closed("SUPERSEDED"))
        /\ sub' \in Seq(Submissions) /\ DOMAIN sub' = DOMAIN sub
    <2>1. sub' \in Seq(Submissions) /\ DOMAIN sub' = DOMAIN sub
      BY RosterChanged
    <2>2. CASE Registered \/ (Mains(newRole) = before /\ newCaptain = by)
      <3>1. UNCHANGED <<version, reg, sub>>
        BY <2>2 DEF HandleRosterChange
      <3> QED BY <2>1, <2>2, <3>1
    <2>3. CASE ~(Registered \/ (Mains(newRole) = before /\ newCaptain = by))
      <3>1. /\ version' = version + 1 /\ reg' = "FORMING"
            /\ (UNCHANGED sub \/ sub' = Closed("SUPERSEDED"))
        BY <2>3 DEF HandleRosterChange, NewVersion
      <3> QED BY <2>1, <2>3, <3>1
    <2> QED BY <2>2, <2>3
  <1>2. \A s \in DOMAIN sub' : Sound(sub'[s], captain', ownerAs', version')
    <2>1. CASE UNCHANGED <<version, reg, sub>> /\ newCaptain = captain
      BY <2>1 DEF Inv, SoundSubs
    <2>2. CASE /\ version' = version + 1
               /\ (UNCHANGED sub \/ sub' = Closed("SUPERSEDED"))
      <3>1. \A s \in DOMAIN sub : sub'[s].version = sub[s].version
        BY <2>2, Closing DEF SubmissionStatus
      <3> QED BY <1>1, <2>2, <3>1, Outdated
    <2> QED BY <1>1, <2>1, <2>2
  <1>3. ASSUME NEW r \in Requests, req[r].op \in {"register", "close", "drop"},
               req[r].op = "drop" => newCaptain = captain
        PROVE  Knows(req[r], captain', ownerAs', role', version', reg')
    <2>1. Knows(req[r], captain, ownerAs, role, version, reg) /\ req[r].version \in Int /\ version \in Int
      BY FlightFields, RosterAssumption DEF Inv, Known, TypeInv
    <2>2. version' = version \/ version' = version + 1
      BY <1>1
    <2>3. reg' = reg \/ reg' = "FORMING"
      BY <1>1
    <2> QED BY <1>3, <2>1, <2>2, <2>3 DEF Knows, Holders
  <1>4. Led(captain', ownerAs', role') /\ captain' # "nobody"
    BY RosterAssumption
  <1> QED BY <1>2, <1>3, <1>4, NobodyBegins

Ordered == Env \cap {"rosterRace", "changeRace", "confirmRace"} = {}

LEMMA ReadKeeps ==
    ASSUME Ordered, TypeInv, Inv, captain # "nobody", NEW r \in Requests, Read(r)
    PROVE  Inv'
  <1>0. "rosterRace" \notin Env /\ "changeRace" \notin Env
    BY DEF Ordered
  <1>1. PICK f \in Flights :
            /\ Begun(r, f) /\ f.op \in RosterOps \cup {"close"}
            /\ f.op \in {"drop", "transfer"} => f.who \in Players \ {captain}
            /\ f.op \in {"roster", "transfer", "register"} => ~Registered
            /\ f.op = "roster" => PlayingRoster(f.main, {})
            /\ f.op = "change" => /\ reg = "CONFIRMED" /\ PlayingRoster(f.main, f.remove)
                                  /\ captain \notin f.remove
    BY ReadBegins, RolesAre DEF RosterOps
  <1>2. /\ UNCHANGED <<captain, ownerAs, role, version, reg, sub>> /\ req'[r] = f
        /\ req[r].op = "none" /\ \A s \in Requests \ {r} : req'[s] = req[s]
        /\ f.by = captain /\ f.version = version /\ f.seen = role
    BY <1>1, Begins DEF Begun
  <1>3. Led(captain, ownerAs, role) /\ Alone /\ Known /\ SoundSubs
    BY DEF Inv
  <1>4. ASSUME NEW main, NEW remove, PlayingRoster(main, remove)
        PROVE  captain \in main <=> ownerAs = "LEADER"
    BY <1>3, <1>4 DEF PlayingRoster, Led, TypeInv
  <1>5. Knows(f, captain, ownerAs, role, version, reg)
    <2>1. version \in Int
      BY RosterAssumption DEF TypeInv
    <2> QED BY <1>1, <1>2, <1>4, <2>1 DEF Knows, KeepsOwner, Registered, Holders
  <1>6. \A s \in Requests \ {r} : Apart(f, req[s]) /\ Apart(req[s], f)
    <2> SUFFICES ASSUME NEW s \in Requests \ {r}
                 PROVE  Apart(f, req[s]) /\ Apart(req[s], f)
      OBVIOUS
    <2>1. f.op \in Places => req[s].op \notin Places
      BY <1>0, <1>1 DEF Begun, Begin, InFlight, Places
    <2>2. f.op \in Moves => req[s].op \notin Moves
      BY <1>0, <1>1 DEF Begun, Begin, InFlight, Moves
    <2>3. Knows(req[s], captain, ownerAs, role, version, reg) /\ req[s].op \in Operations
      BY <1>3, FlightFields DEF Known, TypeInv
    <2>4. f.op = "change" => req[s].op \notin RosterOps
      BY <1>1, <2>2, <2>3 DEF Knows, Holders, RosterOps, Moves
    <2>5. req[s].op = "change" => f.op \notin RosterOps
      BY <1>1, <2>2, <2>3 DEF Knows, Registered, RosterOps, Moves
    <2> QED BY <2>1, <2>2, <2>4, <2>5 DEF Apart
  <1>7. Alone' /\ Known' /\ SoundSubs'
    BY <1>2, <1>3, <1>5, <1>6 DEF Alone, Known, SoundSubs
  <1> QED BY <1>2, <1>3, <1>7 DEF Inv

\* What a write knows of the others.
LEMMA Others ==
    ASSUME TypeInv, Inv, captain # "nobody", NEW r \in Requests
    PROVE  /\ Knows(req[r], captain, ownerAs, role, version, reg)
           /\ req[r].op \in Places => \A s \in Requests \ {r} : req[s].op \notin Places \cup {"change"}
           /\ req[r].op = "change" => \A s \in Requests \ {r} : req[s].op \notin RosterOps
           /\ \A s \in Requests : req[s].op \in Operations
  <1>1. \A s \in Requests : req[s].op \in Operations
    BY FlightFields DEF TypeInv
  <1>2. \A s \in Requests \ {r} : Apart(req[r], req[s]) /\ Apart(req[s], req[r])
    BY DEF Inv, Alone
  <1>3. Knows(req[r], captain, ownerAs, role, version, reg)
    BY DEF Inv, Known
  <1>4. req[r].op \in Places => \A s \in Requests \ {r} : req[s].op \notin Places \cup {"change"}
    BY <1>2 DEF Apart, Places, RosterOps
  <1>5. req[r].op = "change" => \A s \in Requests \ {r} : req[s].op \notin RosterOps
    BY <1>2 DEF Apart
  <1> QED BY <1>1, <1>3, <1>4, <1>5

\* A join, a drop, a transfer or a swap is the only one of them.
LEMMA PlaceWritten ==
    ASSUME TypeInv, Inv, captain # "nobody", NEW r \in Requests, req[r].op \in Places,
           NEW before, NEW newRole, NEW newCaptain \in Players,
           HandleRosterChange(before, req[r].by, newRole, newCaptain),
           role' = newRole, captain' = newCaptain, UNCHANGED ownerAs, Done(r),
           Led(newCaptain, ownerAs, newRole),
           newCaptain # captain => req[r].op = "transfer"
    PROVE  Inv'
  <1>1. \A s \in Requests :
            \/ req'[s].op = "none"
            \/ /\ req'[s] = req[s] /\ req[s].op \in {"register", "close", "drop"}
               /\ req[s].op = "drop" => newCaptain = captain
    BY Ends, NoFlight, Others DEF Places, RosterOps, Operations
  <1>2. newCaptain # captain => req[r].by = captain /\ ~Registered
    BY Others DEF Knows, Holders, Registered
  <1> QED BY <1>1, <1>2, RosterStep

\* Nobody but the captain gets the role of an owner.
LEMMA LedStays ==
    ASSUME TypeInv, captain # "nobody", Led(captain, ownerAs, role), NEW newRole \in Rosters,
           newRole[captain] = role[captain],
           \A p \in Players \ {captain} :
               newRole[p] = role[p] \/ newRole[p] \notin {"CAPTAIN", "MANAGER"}
    PROVE  Led(captain, ownerAs, newRole) /\ captain \in Players
  BY DEF Led, TypeInv

LEMMA PlaceWrites ==
    ASSUME TypeInv, Inv, captain # "nobody", NEW r \in Requests,
           JoinWrite(r) \/ DropWrite(r) \/ TransferWrite(r) \/ RosterWrite(r)
    PROVE  Inv'
  <1>0. /\ Knows(req[r], captain, ownerAs, role, version, reg) /\ Led(captain, ownerAs, role)
        /\ captain \in Players /\ role \in Rosters
    BY Others DEF Inv, TypeInv
  <1>1. CASE JoinWrite(r)
    <2> DEFINE p == req[r].who
               newRole == [role EXCEPT ![p] = IF p \in req[r].main THEN "PLAYER" ELSE "SUBSTITUTE"]
    <2>1. /\ HandleRosterChange(Mains(req[r].seen), req[r].by, newRole, captain)
          /\ role' = newRole /\ captain' = captain /\ UNCHANGED ownerAs /\ Done(r)
          /\ req[r].op \in Places /\ role[p] = "NONE"
      BY <1>1 DEF JoinWrite, Places
    <2>2. newRole \in Rosters
      BY <1>0 DEF Rosters, TeamMemberRole
    <2>3. p # captain
      BY <1>0, <2>1 DEF Led
    <2>4. /\ newRole[captain] = role[captain]
          /\ \A q \in Players \ {captain} :
                 newRole[q] = role[q] \/ newRole[q] \notin {"CAPTAIN", "MANAGER"}
      BY <1>0, <2>3 DEF Rosters
    <2> HIDE DEF newRole
    <2>5. Led(captain, ownerAs, newRole)
      BY <1>0, <2>2, <2>4, LedStays
    <2> QED BY <1>0, <2>1, <2>5, PlaceWritten
  <1>2. CASE DropWrite(r)
    <2> DEFINE p == req[r].who
               newRole == [role EXCEPT ![p] = "NONE"]
    <2>1. /\ HandleRosterChange(Mains(req[r].seen), req[r].by, newRole, captain)
          /\ role' = newRole /\ captain' = captain /\ UNCHANGED ownerAs /\ Done(r)
          /\ req[r].op \in Places /\ req[r].op = "drop"
      BY <1>2 DEF DropWrite, Places
    <2>2. newRole \in Rosters
      BY <1>0 DEF Rosters
    <2>3. p # captain
      BY <1>0, <2>1 DEF Knows
    <2>4. /\ newRole[captain] = role[captain]
          /\ \A q \in Players \ {captain} :
                 newRole[q] = role[q] \/ newRole[q] \notin {"CAPTAIN", "MANAGER"}
      BY <1>0, <2>3 DEF Rosters
    <2> HIDE DEF newRole
    <2>5. Led(captain, ownerAs, newRole)
      BY <1>0, <2>2, <2>4, LedStays
    <2> QED BY <1>0, <2>1, <2>5, PlaceWritten
  <1>3. CASE TransferWrite(r)
    <2> DEFINE new == req[r].who
               newRole == Transferred(req[r].by, new)
    <2>1. /\ HandleRosterChange(Mains(req[r].seen), req[r].by, newRole, new)
          /\ role' = newRole /\ captain' = new /\ UNCHANGED ownerAs /\ Done(r)
          /\ req[r].op \in Places /\ req[r].op = "transfer"
      BY <1>3 DEF TransferWrite, Places
    <2>2. new \in Players \ {captain} /\ req[r].by = captain
      BY <1>0, <2>1 DEF Knows
    <2>3. Led(new, ownerAs, newRole)
      BY <1>0, <2>2 DEF Led, Transferred, Rosters, OwnerRoleOf
    <2> HIDE DEF newRole
    <2> QED BY <2>1, <2>2, <2>3, PlaceWritten
  <1>4. CASE RosterWrite(r)
    <2> DEFINE newRole == [p \in Players |-> Swapped(r, p)]
    <2>1. /\ HandleRosterChange(Mains(req[r].seen), req[r].by, newRole, captain)
          /\ role' = newRole /\ captain' = captain /\ UNCHANGED ownerAs /\ Done(r)
          /\ req[r].op \in Places /\ req[r].op = "roster"
      BY <1>4 DEF RosterWrite, Places
    <2>2. newRole \in Rosters
      BY <1>0, RolesAre DEF Rosters, Swapped, TeamMemberRole
    <2>3. req[r].seen = role
      BY <1>0, <2>1 DEF Knows
    <2>4. /\ newRole[captain] = role[captain]
          /\ \A q \in Players \ {captain} :
                 newRole[q] = role[q] \/ newRole[q] \notin {"CAPTAIN", "MANAGER"}
      BY <1>0, <2>3 DEF Swapped, Led
    <2> HIDE DEF newRole
    <2>5. Led(captain, ownerAs, newRole)
      BY <1>0, <2>2, <2>4, LedStays
    <2> QED BY <1>0, <2>1, <2>5, PlaceWritten
  <1> QED BY <1>1, <1>2, <1>3, <1>4

\* A player who is added leaves the owner's role alone.
LEMMA AddedKeeps ==
    ASSUME Ordered, TypeInv, Inv, captain # "nobody", NEW p \in Players,
           NEW to \in {"PLAYER", "SUBSTITUTE"}, AddedAs(p, to),
           \A s \in Requests : req[s].op \notin {"join", "roster", "transfer", "change"}
    PROVE  Inv'
  <1>0. /\ Led(captain, ownerAs, role) /\ captain \in Players /\ role \in Rosters
        /\ UNCHANGED <<captain, ownerAs, req>>
    BY DEF Inv, TypeInv, AddedAs
  <1> DEFINE newRole == [role EXCEPT ![p] = to]
  <1>1. /\ role' = newRole /\ role[p] = "NONE"
        /\ HandleRosterChange(Mains(role), captain, newRole, captain)
    BY DEF AddedAs
  <1>2. newRole \in Rosters /\ p # captain
    BY <1>0, <1>1 DEF Rosters, TeamMemberRole, Led
  <1>3. /\ newRole[captain] = role[captain]
        /\ \A q \in Players \ {captain} :
               newRole[q] = role[q] \/ newRole[q] \notin {"CAPTAIN", "MANAGER"}
    BY <1>0, <1>2 DEF Rosters
  <1>4. \A s \in Requests :
            \/ req'[s].op = "none"
            \/ /\ req'[s] = req[s] /\ req[s].op \in {"register", "close", "drop"}
               /\ req[s].op = "drop" => captain = captain
    BY <1>0, Others DEF Operations, RosterOps
  <1> HIDE DEF newRole
  <1>5. Led(captain, ownerAs, newRole)
    BY <1>0, <1>2, <1>3, LedStays
  <1>6. captain' = captain /\ UNCHANGED ownerAs
    BY <1>0
  <1> QED BY <1>0, <1>1, <1>4, <1>5, <1>6, RosterStep

LEMMA ApproveJoinKeeps ==
    ASSUME Ordered, TypeInv, Inv, captain # "nobody", NEW p \in Players, ApproveJoin(p)
    PROVE  Inv'
  <1>0. join[p] \in {"PLAYER", "SUBSTITUTE"} /\ UNCHANGED <<captain, ownerAs, req>>
    BY DEF TypeInv, ApproveJoin
  <1>1. CASE UNCHANGED <<role, version, reg, sub>>
    BY <1>0, <1>1, TeamStays DEF Inv, SoundSubs
  <1>2. UNCHANGED <<role, version, reg, sub>> \/ AddedAs(p, join[p])
    BY DEF ApproveJoin, AddedAs
  <1>3. \A s \in Requests : req[s].op \notin {"join", "roster", "transfer", "change"}
    BY Others DEF ApproveJoin, Ordered, InFlight, Knows, Registered
  <1> QED BY <1>0, <1>1, <1>2, <1>3, AddedKeeps

LEMMA AcceptKeeps ==
    ASSUME Ordered, TypeInv, Inv, captain # "nobody", NEW p \in Players, AcceptInvitation(p)
    PROVE  Inv'
  <1>1. AddedAs(p, "PLAYER")
    BY DEF AcceptInvitation, AddedAs
  <1>2. \A s \in Requests : req[s].op \notin {"join", "roster", "transfer", "change"}
    BY DEF AcceptInvitation, Ordered, InFlight
  <1> QED BY <1>1, <1>2, AddedKeeps

\* A change gives nobody the owner's role and leaves it to the owner.
LEMMA AppliedLeads ==
    ASSUME TypeInv, captain # "nobody", Led(captain, ownerAs, role), NEW main, NEW remove,
           KeepsOwner(captain, ownerAs, main, remove)
    PROVE  Led(captain, ownerAs, Applied(role, main, remove))
  <1> DEFINE f == Applied(role, main, remove)
  <1>1. f \in Rosters /\ captain \in Players
    BY AppliedTypes DEF TypeInv
  <1>2. f[captain] = role[captain]
    BY <1>1 DEF Applied, Led, KeepsOwner, TypeInv
  <1>3. \A p \in Players \ {captain} : f[p] = role[p] \/ f[p] \notin {"CAPTAIN", "MANAGER"}
    BY DEF Applied
  <1> HIDE DEF f
  <1>4. Led(captain, ownerAs, f)
    BY <1>1, <1>2, <1>3, LedStays
  <1> QED BY <1>4 DEF f

\* The request that ends is the only one to act on the roster.
LEMMA OnlyClosings ==
    ASSUME TypeInv, Inv, captain # "nobody",
           \A s \in Requests : \/ req'[s].op = "none"
                               \/ req'[s] = req[s] /\ req[s].op \notin RosterOps,
           captain' # "nobody", version' \in {version, version + 1},
           Led(captain', ownerAs', role'),
           \A s \in DOMAIN sub' : Sound(sub'[s], captain', ownerAs', version')
    PROVE  Inv'
  <1>1. ASSUME NEW s \in Requests, req[s].op \notin RosterOps
        PROVE  Knows(req[s], captain', ownerAs', role', version', reg')
    <2>1. Knows(req[s], captain, ownerAs, role, version, reg) /\ req[s].version \in Int /\ version \in Int
      BY FlightFields, RosterAssumption DEF Inv, Known, TypeInv
    <2> QED BY <1>1, <2>1 DEF Knows, RosterOps
  <1> QED BY <1>1, NobodyBegins

LEMMA ChangeApplyKeeps ==
    ASSUME TypeInv, Inv, captain # "nobody", NEW r \in Requests, ChangeApply(r)
    PROVE  Inv'
  <1>1. /\ req[r].op = "change" /\ Done(r) /\ version' = req[r].version + 1
        /\ role' = Applied(req[r].seen, req[r].main, req[r].remove)
        /\ UNCHANGED <<captain, ownerAs, reg, sub>>
    BY DEF ChangeApply
  <1>2. /\ req[r].seen = role /\ req[r].version = version
        /\ KeepsOwner(captain, ownerAs, req[r].main, req[r].remove)
    BY <1>1, Others DEF Knows
  <1>3. Led(captain', ownerAs', role')
    BY <1>1, <1>2, AppliedLeads DEF Inv
  <1>4. \A s \in DOMAIN sub' : Sound(sub'[s], captain', ownerAs', version')
    BY <1>1, <1>2, SubsOf, Outdated
  <1>5. \A s \in Requests : \/ req'[s].op = "none"
                            \/ req'[s] = req[s] /\ req[s].op \notin RosterOps
    BY <1>1, Others, Ends, NoFlight
  <1> QED BY <1>1, <1>2, <1>3, <1>4, <1>5, OnlyClosings

\* Submissions that only change their answers, or are open no longer.
LEMMA SubsStay ==
    ASSUME TypeInv, Inv, captain # "nobody", DOMAIN sub' = DOMAIN sub,
           \A s \in DOMAIN sub :
               /\ sub'[s].version = sub[s].version /\ sub'[s].kind = sub[s].kind
               /\ sub'[s].playing = sub[s].playing /\ sub'[s].remove = sub[s].remove
               /\ sub'[s].status = sub[s].status \/ sub'[s].status # "ACTIVE"
    PROVE  \A s \in DOMAIN sub' : Sound(sub'[s], captain, ownerAs, version)
  BY DEF Inv, SoundSubs, Sound

LEMMA ApproveKeeps ==
    ASSUME Ordered, TypeInv, Inv, captain # "nobody", NEW p \in Players, NEW s \in DOMAIN sub,
           Approve(p, s)
    PROVE  Inv'
  <1> DEFINE approved == [sub[s] EXCEPT !.answer[p] = "APPROVED"]
             completed == [approved EXCEPT !.status = "COMPLETED"]
  <1>0. sub[s] \in Submissions
    BY SubsOf
  <1>1. /\ approved \in Submissions
        /\ approved.version = sub[s].version /\ approved.kind = sub[s].kind
        /\ approved.playing = sub[s].playing /\ approved.remove = sub[s].remove
        /\ approved.status = sub[s].status
    BY <1>0 DEF Submissions
  <1>2. /\ completed \in Submissions
        /\ completed.version = sub[s].version /\ completed.kind = sub[s].kind
        /\ completed.playing = sub[s].playing /\ completed.remove = sub[s].remove
        /\ completed.status = "COMPLETED"
    BY <1>1, StatusOf DEF SubmissionStatus
  <1>3. /\ UNCHANGED <<captain, ownerAs, req>>
        /\ \/ sub' = [sub EXCEPT ![s] = approved] /\ UNCHANGED <<role, version, reg>>
           \/ /\ sub' = [sub EXCEPT ![s] = completed] /\ ~InFlight(RosterOps)
              /\ \/ UNCHANGED <<role, version>>
                 \/ /\ sub[s].kind = "ROSTER_CHANGE" /\ version' = version + 1
                    /\ role' = Applied(role, sub[s].playing, sub[s].remove)
    BY DEF Approve, Ordered
  <1>4. IsCurrent(s)
    BY DEF Approve, CanApprove
  <1> HIDE DEF approved, completed
  <1>5. CASE sub' = [sub EXCEPT ![s] = approved] /\ UNCHANGED <<role, version, reg>>
    <2>1. DOMAIN sub' = DOMAIN sub /\ \A i \in DOMAIN sub :
               /\ sub'[i].version = sub[i].version /\ sub'[i].kind = sub[i].kind
               /\ sub'[i].playing = sub[i].playing /\ sub'[i].remove = sub[i].remove
               /\ sub'[i].status = sub[i].status
      BY <1>1, <1>5, SubsOf
    <2>2. \A i \in DOMAIN sub' : Sound(sub'[i], captain, ownerAs, version)
      BY <2>1, SubsStay
    <2> QED BY <1>3, <1>5, <2>2, TeamStays
  <1>6. CASE sub' = [sub EXCEPT ![s] = completed] /\ ~InFlight(RosterOps)
    <2>1. DOMAIN sub' = DOMAIN sub /\ \A i \in DOMAIN sub :
               /\ sub'[i].version = sub[i].version /\ sub'[i].kind = sub[i].kind
               /\ sub'[i].playing = sub[i].playing /\ sub'[i].remove = sub[i].remove
               /\ sub'[i].status = sub[i].status \/ sub'[i].status # "ACTIVE"
      BY <1>2, <1>6, SubsOf
    <2>2. \A i \in Requests : \/ req'[i].op = "none"
                              \/ req'[i] = req[i] /\ req[i].op \notin RosterOps
      BY <1>3, <1>6 DEF InFlight
    <2>3. sub' \in Seq(Submissions)
      BY <1>2, <1>6, SubsOf
    <2>4. CASE UNCHANGED <<role, version>>
      <3>1. \A i \in DOMAIN sub' : Sound(sub'[i], captain', ownerAs', version')
        BY <1>3, <2>1, <2>4, SubsStay
      <3>2. Led(captain', ownerAs', role')
        BY <1>3, <2>4 DEF Inv
      <3> QED BY <1>3, <2>2, <2>4, <3>1, <3>2, OnlyClosings
    <2>5. CASE /\ sub[s].kind = "ROSTER_CHANGE" /\ version' = version + 1
               /\ role' = Applied(role, sub[s].playing, sub[s].remove)
      <3>1. KeepsOwner(captain, ownerAs, sub[s].playing, sub[s].remove)
        BY <1>4, <2>5 DEF Inv, SoundSubs, Sound, IsCurrent
      <3>2. Led(captain', ownerAs', role')
        BY <1>3, <2>5, <3>1, AppliedLeads DEF Inv
      <3>3. \A i \in DOMAIN sub' : Sound(sub'[i], captain', ownerAs', version')
        BY <2>1, <2>3, <2>5, Outdated
      <3> QED BY <1>3, <2>2, <2>5, <3>2, <3>3, OnlyClosings
    <2> QED BY <1>1, <1>3, <1>6, <2>4, <2>5 DEF Approve, completed, approved
  <1> QED BY <1>3, <1>5, <1>6

LEMMA DeclineKeeps ==
    ASSUME TypeInv, Inv, captain # "nobody", NEW p \in Players, NEW s \in DOMAIN sub, Decline(p, s)
    PROVE  Inv'
  <1> DEFINE declined == [sub[s] EXCEPT !.answer[p] = "DECLINED"]
             cancelled == [sub[s] EXCEPT !.answer[p] = "DECLINED", !.status = "CANCELLED"]
  <1>0. sub[s] \in Submissions
    BY SubsOf
  <1>1. /\ declined.version = sub[s].version /\ declined.kind = sub[s].kind
        /\ declined.playing = sub[s].playing /\ declined.remove = sub[s].remove
        /\ declined.status = sub[s].status
    BY <1>0 DEF Submissions
  <1>11. /\ cancelled.version = sub[s].version /\ cancelled.kind = sub[s].kind
         /\ cancelled.playing = sub[s].playing /\ cancelled.remove = sub[s].remove
         /\ cancelled.status = "CANCELLED"
    BY <1>0 DEF Submissions
  <1>2. /\ UNCHANGED <<captain, ownerAs, role, version, req>>
        /\ sub' = [sub EXCEPT ![s] = declined] \/ sub' = [sub EXCEPT ![s] = cancelled]
        /\ UNCHANGED reg \/ (reg = "PENDING_PLAYER_APPROVAL" /\ reg' = "ROSTER_CHANGE_REQUIRED")
    BY DEF Decline
  <1> HIDE DEF declined, cancelled
  <1>3. DOMAIN sub' = DOMAIN sub /\ \A i \in DOMAIN sub :
             /\ sub'[i].version = sub[i].version /\ sub'[i].kind = sub[i].kind
             /\ sub'[i].playing = sub[i].playing /\ sub'[i].remove = sub[i].remove
             /\ sub'[i].status = sub[i].status \/ sub'[i].status # "ACTIVE"
    BY <1>1, <1>11, <1>2, SubsOf
  <1>4. \A i \in DOMAIN sub' : Sound(sub'[i], captain', ownerAs', version')
    BY <1>2, <1>3, SubsStay
  <1>5. \A r \in Requests : Knows(req[r], captain', ownerAs', role', version', reg')
    BY <1>2, Others DEF Knows, Holders
  <1> QED BY <1>2, <1>4, <1>5, NobodyBegins DEF Inv

LEMMA OtherWrites ==
    ASSUME Ordered, TypeInv, Inv, captain # "nobody", NEW r \in Requests,
           \/ RegisterSubmit(r) \/ RegisterFinalize(r) \/ ChangeSubmit(r) \/ CloseWrite(r) \/ Throw(r)
    PROVE  Inv'
  <1>0. /\ req[r] \in Flights /\ Carries(req[r], sub)
        /\ Knows(req[r], captain, ownerAs, role, version, reg)
        /\ SoundSubs /\ Led(captain, ownerAs, role)
    BY Others DEF TypeInv, Inv
  <1>1. Done(r) => \A s \in Requests : req'[s].op = "none" \/ req'[s] = req[s]
    BY Ends, NoFlight
  <1>2. CASE RegisterSubmit(r)
    <2>1. PICK approvers : Submit("REGISTRATION", req[r], approvers, Closed("CANCELLED"))
      BY <1>2 DEF RegisterSubmit
    <2>2. /\ req[r].op = "register" /\ reg' = "PENDING_PLAYER_APPROVAL" /\ Done(r)
          /\ UNCHANGED <<captain, ownerAs, role, version>>
      BY <1>2 DEF RegisterSubmit
    <2>3. req[r].version \in 1..MaxVersion /\ req[r].version <= version /\ reg \notin Holders
      BY <1>0, <2>2 DEF Carries, RosterOps, Knows
    <2>4. Closed("CANCELLED") \in Seq(Submissions) /\ DOMAIN Closed("CANCELLED") = DOMAIN sub
      BY Closing DEF SubmissionStatus
    <2>5. \A i \in DOMAIN sub' : Sound(sub'[i], captain', ownerAs', version')
      <3>1. \A i \in DOMAIN sub : /\ Closed("CANCELLED")[i].version = sub[i].version
                                  /\ Closed("CANCELLED")[i].status # "ACTIVE"
        BY Closing DEF SubmissionStatus
      <3>2. \A i \in DOMAIN sub : Sound(Closed("CANCELLED")[i], captain, ownerAs, version)
        BY <1>0, <3>1 DEF SoundSubs, Sound
      <3>3. /\ DOMAIN sub' = 1..(Len(Closed("CANCELLED")) + 1)
            /\ DOMAIN sub = 1..Len(Closed("CANCELLED")) /\ Len(Closed("CANCELLED")) \in Nat
            /\ \A i \in DOMAIN sub : sub'[i] = Closed("CANCELLED")[i]
            /\ sub'[Len(Closed("CANCELLED")) + 1].kind = "REGISTRATION"
            /\ sub'[Len(Closed("CANCELLED")) + 1].version = req[r].version
        BY <1>0, <2>1, <2>3, <2>4, Submitted DEF Kinds
      <3>4. Sound(sub'[Len(Closed("CANCELLED")) + 1], captain, ownerAs, version)
        BY <2>3, <3>3 DEF Sound
      <3> QED BY <2>2, <3>2, <3>3, <3>4
    <2>6. \A s \in Requests : Knows(req[s], captain', ownerAs', role', version', reg')
      BY <2>2, <2>3, Others DEF Knows, Holders
    <2> QED BY <1>0, <1>1, <2>2, <2>5, <2>6, NobodyBegins
  <1>3. CASE RegisterFinalize(r)
    <2>1. /\ Done(r) /\ UNCHANGED <<captain, ownerAs, role, version, sub>>
          /\ \A s \in Requests \ {r} : req[s].op \notin RosterOps
      BY <1>3 DEF RegisterFinalize, Ordered
    <2>2. \A s \in Requests : \/ req'[s].op = "none"
                              \/ req'[s] = req[s] /\ req[s].op \notin RosterOps
      BY <2>1, Ends, NoFlight
    <2> QED BY <1>0, <2>1, <2>2, OnlyClosings DEF SoundSubs
  <1>4. CASE ChangeSubmit(r)
    <2>1. /\ Submit("ROSTER_CHANGE", req[r], Added(req[r]), sub) /\ Done(r)
          /\ req[r].op = "change" /\ UNCHANGED <<captain, ownerAs, role, version, reg>>
      BY <1>4 DEF ChangeSubmit
    <2>2. /\ req[r].version \in 1..MaxVersion /\ req[r].version = version
          /\ KeepsOwner(captain, ownerAs, req[r].main, req[r].remove)
      BY <1>0, <2>1 DEF Carries, RosterOps, Knows
    <2>3. /\ DOMAIN sub' = 1..(Len(sub) + 1) /\ DOMAIN sub = 1..Len(sub) /\ Len(sub) \in Nat
          /\ \A i \in DOMAIN sub : sub'[i] = sub[i]
          /\ sub'[Len(sub) + 1].version = req[r].version
          /\ sub'[Len(sub) + 1].playing = req[r].main /\ sub'[Len(sub) + 1].remove = req[r].remove
      BY <1>0, <2>1, <2>2, SubsOf, Submitted DEF Kinds
    <2>4. Sound(sub'[Len(sub) + 1], captain, ownerAs, version)
      BY <2>2, <2>3 DEF Sound
    <2>5. \A i \in DOMAIN sub' : Sound(sub'[i], captain, ownerAs, version)
      BY <1>0, <2>3, <2>4 DEF SoundSubs
    <2> QED BY <1>1, <2>1, <2>5, TeamStays
  <1>5. CASE CloseWrite(r)
    <2> DEFINE x == [sub[req[r].id] EXCEPT !.status = req[r].who]
    <2>1. /\ req[r].who \in {"CANCELLED", "EXPIRED"} /\ req[r].id \in DOMAIN sub /\ Done(r)
          /\ sub' = [sub EXCEPT ![req[r].id] = x]
          /\ UNCHANGED <<captain, ownerAs, role, version, reg>>
      BY <1>0, <1>5 DEF CloseWrite, Carries
    <2>2. /\ x.status \in {"CANCELLED", "EXPIRED"} /\ x.version = sub[req[r].id].version
          /\ x.kind = sub[req[r].id].kind /\ x.playing = sub[req[r].id].playing
          /\ x.remove = sub[req[r].id].remove
      BY <2>1, SubsOf, StatusOf DEF SubmissionStatus
    <2> HIDE DEF x
    <2>3. DOMAIN sub' = DOMAIN sub /\ \A i \in DOMAIN sub :
             /\ sub'[i].version = sub[i].version /\ sub'[i].kind = sub[i].kind
             /\ sub'[i].playing = sub[i].playing /\ sub'[i].remove = sub[i].remove
             /\ sub'[i].status = sub[i].status \/ sub'[i].status # "ACTIVE"
      BY <2>1, <2>2, SubsOf
    <2>4. \A i \in DOMAIN sub' : Sound(sub'[i], captain, ownerAs, version)
      BY <2>3, SubsStay
    <2> QED BY <1>1, <2>1, <2>4, TeamStays
  <1>6. CASE Throw(r)
    BY <1>0, <1>1, <1>6, TeamStays DEF Throw, SoundSubs
  <1> QED BY <1>2, <1>3, <1>4, <1>5, <1>6

\* Cancelling the registration, withdrawing and promoting leave the roster and its version.
LEMMA TeamSteps ==
    ASSUME Ordered, TypeInv, Inv, captain # "nobody",
           CancelRegistration \/ Withdraw \/ Promote \/ ToggleSubstitutes \/ LockBegins
    PROVE  Inv'
  <1>0. UNCHANGED <<captain, ownerAs, role, version, req>>
    BY DEF CancelRegistration, Withdraw, Promote, ToggleSubstitutes, LockBegins
  <1>1. UNCHANGED sub \/ sub' = Closed("CANCELLED")
    BY DEF CancelRegistration, Withdraw, Promote, ToggleSubstitutes, LockBegins
  <1>2. DOMAIN sub' = DOMAIN sub /\ \A s \in DOMAIN sub :
             /\ sub'[s].version = sub[s].version /\ sub'[s].kind = sub[s].kind
             /\ sub'[s].playing = sub[s].playing /\ sub'[s].remove = sub[s].remove
             /\ sub'[s].status = sub[s].status \/ sub'[s].status # "ACTIVE"
    BY <1>1, Closing DEF SubmissionStatus
  <1>3. \A s \in DOMAIN sub' : Sound(sub'[s], captain', ownerAs', version')
    BY <1>0, <1>2, SubsStay
  <1>4. \A r \in Requests : Knows(req[r], captain', ownerAs', role', version', reg')
    <2> SUFFICES ASSUME NEW r \in Requests
                 PROVE  Knows(req[r], captain', ownerAs', role', version', reg')
      OBVIOUS
    <2>1. Knows(req[r], captain, ownerAs, role, version, reg)
      BY Others
    <2>2. CASE CancelRegistration
      BY <1>0, <2>1, <2>2 DEF CancelRegistration, Knows, Holders
    <2>3. CASE Promote
      BY <1>0, <2>1, <2>3 DEF Promote, Knows, Holders
    <2>4. CASE Withdraw
      <3>1. req[r].op \notin RosterOps
        BY <2>4 DEF Withdraw, Ordered, InFlight
      <3> QED BY <1>0, <2>1, <3>1 DEF Knows, RosterOps
    <2>5. CASE UNCHANGED reg
      BY <1>0, <2>1, <2>5
    <2> QED BY <2>2, <2>3, <2>4, <2>5 DEF ToggleSubstitutes, LockBegins
  <1>5. Led(captain', ownerAs', role')
    BY <1>0 DEF Inv
  <1> QED BY <1>0, <1>3, <1>4, <1>5, NobodyBegins

LEMMA AnswerKeeps ==
    ASSUME Ordered, TypeInv, Inv, captain # "nobody", NEW p \in Players, Answer(p)
    PROVE  Inv'
  <1>1. CASE AnswerJoin(p) \/ \E wantsSub \in BOOLEAN : JoinAsk(p, wantsSub)
    <2>1. UNCHANGED <<captain, ownerAs, role, accepting, version, reg, lock, sub, req>>
      BY <1>1 DEF AnswerJoin, JoinAsk
    <2> QED BY <2>1, TeamStays DEF Inv, SoundSubs
  <1> QED BY <1>1, ApproveJoinKeeps, AcceptKeeps, ApproveKeeps, DeclineKeeps DEF Answer

\* The first member is the captain, and nothing is on its way.
LEMMA CreateKeeps ==
    ASSUME TypeInv, Inv, captain = "nobody", Create
    PROVE  Inv'
  <1>1. PICK p \in Players, owner \in {"LEADER", "MANAGER"}, takesSubs \in BOOLEAN :
            CreateTeam(p, owner, takesSubs)
    BY DEF Create
  <1>2. captain' = p /\ ownerAs' = owner /\ p # "nobody" /\ UNCHANGED <<sub, req>>
    BY <1>1, RosterAssumption DEF CreateTeam
  <1>3. Led(p, owner, role')
    BY <1>1 DEF CreateTeam, Led, Inv, Unborn
  <1>4. \A r \in Requests : req'[r].op = "none"
    BY <1>2 DEF Inv, Unborn
  <1>5. DOMAIN sub' = {}
    BY <1>2 DEF Inv, Unborn
  <1>6. Alone' /\ Known'
    BY <1>4 DEF Alone, Known, Apart, Knows, Places, Moves
  <1>7. SoundSubs'
    BY <1>5 DEF SoundSubs
  <1> QED BY <1>2, <1>3, <1>6, <1>7 DEF Inv

LEMMA InvHolds ==
    ASSUME Ordered
    PROVE  Spec => [](TypeInv /\ Inv)
  <1>1. Init => Inv
    BY NoFlight DEF Init, Inv, Unborn
  <1>2. TypeInv /\ Inv /\ [Next]_vars => Inv'
    <2> SUFFICES ASSUME TypeInv, Inv, [Next]_vars
                 PROVE  Inv'
      OBVIOUS
    <2>1. CASE UNCHANGED vars
      <3>1. UNCHANGED <<captain, ownerAs, role, version, reg, sub, req>>
        BY <2>1 DEF vars
      <3> QED BY <3>1 DEF Inv, Unborn, Alone, Known, SoundSubs
    <2>2. CASE captain = "nobody" /\ Create
      BY <2>2, CreateKeeps
    <2>3. CASE captain # "nobody" /\ Operate
      <3>1. ASSUME NEW r \in Requests, Write(r)
            PROVE  Inv'
        BY <2>3, <3>1, PlaceWrites, ChangeApplyKeeps, OtherWrites DEF Write
      <3> QED BY <2>3, <3>1, ReadKeeps, AnswerKeeps, TeamSteps DEF Operate
    <2> QED BY <2>1, <2>2, <2>3 DEF Next
  <1> QED BY <1>1, <1>2, TypesHold, PTL DEF Spec

\* A captain who is one stays the only owner: OwnerHolds while requests that fill places
\* or move the captaincy, changes applied at once and confirmations do not overlap.
THEOREM CaptainLeads ==
    ASSUME Env \cap {"rosterRace", "changeRace", "confirmRace"} = {}
    PROVE  Spec => []OwnerHolds
  <1>1. TypeInv /\ Inv => OwnerHolds
    <2> SUFFICES ASSUME TypeInv, Inv
                 PROVE  OwnerHolds
      OBVIOUS
    <2>1. CASE captain = "nobody"
      BY <2>1, RosterAssumption DEF Inv, Unborn, OwnerHolds
    <2>2. CASE captain # "nobody"
      <3>1. Led(captain, ownerAs, role) /\ captain \in Players
        BY <2>2 DEF Inv, TypeInv
      <3>2. role[captain] \in {"CAPTAIN", "MANAGER"}
        BY <3>1 DEF Led
      <3> QED BY <3>1, <3>2 DEF Led, OwnerHolds
    <2> QED BY <2>1, <2>2
  <1>2. Ordered
    BY DEF Ordered
  <1> QED BY <1>1, <1>2, InvHolds, PTL

-----------------------------------------------------------------------------
(* Outcomes                                                                  *)

Waits == {"PENDING_PLAYER_APPROVAL", "ROSTER_CHANGE_REQUIRED"}
OpenOf(subs) == {s \in DOMAIN subs : subs[s].status = "ACTIVE" /\ subs[s].kind = "ROSTER_CHANGE"}

\* A change waits for a confirmed team, a registration for one without a slot; a closing
\* has found a change that is still open, which no team that waits for approval has.
Pending(q, g, subs) ==
    /\ q.op = "change" => g = "CONFIRMED"
    /\ q.op = "register" => g \notin Holders
    /\ q.op = "close" => q.id \in OpenOf(subs)

OneCloses == \A r, s \in Requests : req[r].op = "close" /\ req[s].op = "close" => r = s

OutcomeInv ==
    /\ \A r \in Requests : Pending(req[r], reg, sub)
    /\ OpenOf(sub) # {} => reg \notin Waits
    /\ OneCloses

Final == \A s \in DOMAIN sub \ Active : sub'[s].status = sub[s].status
Exclusive == Env \cap {"confirmRace", "closeRace"} = {}

\* A step that begins no request.
LEMMA OutcomeKept ==
    ASSUME OutcomeInv,
           \A r \in Requests : \/ req'[r].op = "none"
                               \/ req'[r] = req[r] /\ Pending(req[r], reg', sub'),
           OpenOf(sub') # {} => reg' \notin Waits
    PROVE  OutcomeInv'
  BY DEF OutcomeInv, OneCloses, Pending

\* A step that leaves the submissions as they are and takes no slot away.
LEMMA QuietOutcome ==
    ASSUME OutcomeInv, UNCHANGED <<sub, reg>>,
           \A r \in Requests : req'[r].op = "none" \/ req'[r] = req[r]
    PROVE  OutcomeInv' /\ Final
  <1>1. OutcomeInv'
    BY OutcomeKept DEF OutcomeInv
  <1> QED BY <1>1 DEF Final

\* Closing what is active touches nothing else, and leaves nothing open.
LEMMA ClosingIsFinal ==
    ASSUME TypeInv, NEW st \in SubmissionStatus \ {"ACTIVE"}
    PROVE  /\ \A s \in DOMAIN sub \ Active : Closed(st)[s] = sub[s]
           /\ OpenOf(Closed(st)) = {} /\ DOMAIN Closed(st) = DOMAIN sub
  BY Closing DEF Closed, Active, OpenOf

\* A roster write: the submissions of a team that waits for approval hold no open change.
LEMMA RosterOutcome ==
    ASSUME TypeInv, OutcomeInv, NEW before, NEW by, NEW newRole, NEW newCaptain,
           HandleRosterChange(before, by, newRole, newCaptain),
           \A r \in Requests : req'[r].op = "none" \/ req'[r] = req[r]
    PROVE  OutcomeInv' /\ Final
  <1>1. CASE UNCHANGED <<version, reg, sub>>
    BY <1>1, QuietOutcome
  <1>2. CASE ~Registered /\ reg' = "FORMING" /\ UNCHANGED sub
    <2>1. \A r \in Requests : Pending(req[r], reg', sub')
      BY <1>2 DEF OutcomeInv, Pending, Registered, Holders
    <2>2. OutcomeInv'
      BY <1>2, <2>1, OutcomeKept DEF Waits
    <2> QED BY <1>2, <2>2 DEF Final
  <1>3. CASE ~Registered /\ reg' = "FORMING" /\ reg # "FORMING" /\ sub' = Closed("SUPERSEDED")
    <2>1. reg \in Waits
      BY <1>3 DEF TypeInv, RegistrationState, Registered, Waits
    <2>2. \A r \in Requests : Pending(req[r], reg', sub')
      BY <1>3, <2>1 DEF OutcomeInv, Pending, Registered, Holders
    <2>3. OutcomeInv'
      BY <1>3, <2>2, OutcomeKept DEF Waits
    <2> QED BY <1>3, <2>3, ClosingIsFinal DEF Final, SubmissionStatus
  <1> QED BY <1>1, <1>2, <1>3, RosterChanged

LEMMA ReadOutcome ==
    ASSUME Exclusive, TypeInv, OutcomeInv, NEW r \in Requests, Read(r)
    PROVE  OutcomeInv' /\ Final
  <1>1. PICK f \in Flights :
            /\ Begun(r, f)
            /\ f.op = "change" => reg = "CONFIRMED"
            /\ f.op = "register" => ~Registered
            /\ f.op = "close" => f.id \in ActiveChanges
    BY ReadBegins
  <1>2. /\ UNCHANGED <<reg, sub>> /\ req'[r] = f
        /\ \A s \in Requests \ {r} : req'[s] = req[s]
    BY <1>1, Begins DEF Begun
  <1>3. Pending(f, reg, sub)
    BY <1>1 DEF Pending, Registered, Holders, ActiveChanges, Active, OpenOf
  <1>4. f.op = "close" => \A s \in Requests : req[s].op # "close"
    BY <1>1 DEF Begun, Begin, InFlight, Exclusive
  <1>5. OneCloses'
    BY <1>2, <1>4 DEF OutcomeInv, OneCloses
  <1>6. \A s \in Requests : Pending(req'[s], reg', sub')
    BY <1>2, <1>3 DEF OutcomeInv
  <1>7. OutcomeInv'
    BY <1>2, <1>5, <1>6 DEF OutcomeInv
  <1> QED BY <1>2, <1>7 DEF Final

LEMMA WriteOutcome ==
    ASSUME Exclusive, TypeInv, OutcomeInv, NEW r \in Requests, Write(r)
    PROVE  OutcomeInv' /\ Final
  <1>0. req[r] \in Flights /\ Carries(req[r], sub) /\ Pending(req[r], reg, sub)
    BY DEF TypeInv, OutcomeInv
  <1>1. Done(r) => \A s \in Requests : req'[s].op = "none" \/ req'[s] = req[s]
    BY Ends, NoFlight
  <1>2. CASE JoinWrite(r) \/ DropWrite(r) \/ TransferWrite(r) \/ RosterWrite(r)
    <2>1. Done(r)
      BY <1>2 DEF JoinWrite, DropWrite, TransferWrite, RosterWrite
    <2>2. \E before, by, newRole, newCaptain : HandleRosterChange(before, by, newRole, newCaptain)
      BY <1>2 DEF JoinWrite, DropWrite, TransferWrite, RosterWrite
    <2> QED BY <1>1, <2>1, <2>2, RosterOutcome
  <1>3. CASE Throw(r) \/ ChangeApply(r)
    <2>1. Done(r) /\ UNCHANGED <<sub, reg>>
      BY <1>3 DEF Throw, ChangeApply
    <2> QED BY <1>1, <2>1, QuietOutcome
  <1>4. CASE RegisterSubmit(r)
    <2>1. PICK approvers : Submit("REGISTRATION", req[r], approvers, Closed("CANCELLED"))
      BY <1>4 DEF RegisterSubmit
    <2>2. /\ req[r].op = "register" /\ reg' = "PENDING_PLAYER_APPROVAL" /\ Done(r)
          /\ reg \notin Holders
      BY <1>0, <1>4 DEF RegisterSubmit, Pending
    <2>3. Closed("CANCELLED") \in Seq(Submissions) /\ DOMAIN Closed("CANCELLED") = DOMAIN sub
      BY Closing DEF SubmissionStatus
    <2>4. req[r].version \in 1..MaxVersion
      BY <1>0, <2>2 DEF Carries, RosterOps
    <2>5. /\ DOMAIN sub' = 1..(Len(Closed("CANCELLED")) + 1)
          /\ DOMAIN sub = 1..Len(Closed("CANCELLED")) /\ Len(Closed("CANCELLED")) \in Nat
          /\ \A i \in DOMAIN sub : sub'[i] = Closed("CANCELLED")[i]
          /\ sub'[Len(Closed("CANCELLED")) + 1].kind = "REGISTRATION"
      BY <1>0, <2>1, <2>3, <2>4, Submitted DEF Kinds
    <2>6. OpenOf(sub') = {}
      BY <2>5, ClosingIsFinal DEF OpenOf, SubmissionStatus
    <2>7. \A s \in Requests : req[s].op \notin {"close", "change"}
      BY <1>4, <2>2 DEF RegisterSubmit, Exclusive, InFlight, OutcomeInv, Pending, Holders
    <2>8. \A s \in Requests : Pending(req[s], reg', sub')
      BY <2>2, <2>7 DEF Pending, Holders
    <2>9. OutcomeInv'
      BY <1>1, <2>2, <2>6, <2>8, OutcomeKept
    <2>10. Final
      BY <2>5, ClosingIsFinal DEF Final, SubmissionStatus
    <2> QED BY <2>9, <2>10
  <1>5. CASE RegisterFinalize(r)
    <2>1. /\ Done(r) /\ UNCHANGED sub /\ reg' \in Holders
          /\ \A s \in Requests \ {r} : req[s].op \notin RosterOps
      BY <1>5 DEF RegisterFinalize, Exclusive, Holders
    <2>2. \A s \in Requests \ {r} : Pending(req[s], reg', sub')
      BY <2>1 DEF OutcomeInv, Pending, RosterOps
    <2>3. req'[r].op = "none" /\ \A s \in Requests \ {r} : req'[s] = req[s]
      BY <2>1, Ends, NoFlight
    <2>4. OutcomeInv'
      BY <2>1, <2>2, <2>3, OutcomeKept DEF Waits, Holders
    <2> QED BY <2>1, <2>4 DEF Final
  <1>6. CASE ChangeSubmit(r)
    <2>1. /\ Submit("ROSTER_CHANGE", req[r], Added(req[r]), sub) /\ sub \in Seq(Submissions)
          /\ req[r].op = "change" /\ Done(r) /\ UNCHANGED reg /\ reg = "CONFIRMED"
      BY <1>0, <1>6, SubsOf DEF ChangeSubmit, Pending
    <2>2. req[r].version \in 1..MaxVersion
      BY <1>0, <2>1 DEF Carries, RosterOps
    <2>3. /\ DOMAIN sub' = 1..(Len(sub) + 1) /\ DOMAIN sub = 1..Len(sub) /\ Len(sub) \in Nat
          /\ \A i \in DOMAIN sub : sub'[i] = sub[i]
      BY <1>0, <2>1, <2>2, Submitted DEF Kinds
    <2>4. \A s \in Requests : Pending(req[s], reg', sub')
      BY <2>1, <2>3 DEF OutcomeInv, Pending, OpenOf
    <2>5. OutcomeInv'
      BY <1>1, <2>1, <2>4, OutcomeKept DEF Waits
    <2> QED BY <2>3, <2>5 DEF Final
  <1>7. CASE CloseWrite(r)
    <2>1. /\ req[r].op = "close" /\ req[r].id \in OpenOf(sub) /\ Done(r) /\ UNCHANGED reg
          /\ req[r].who \in {"CANCELLED", "EXPIRED"}
          /\ sub' = [sub EXCEPT ![req[r].id].status = req[r].who]
      BY <1>0, <1>7 DEF CloseWrite, Pending, Carries
    <2>2. /\ DOMAIN sub' = DOMAIN sub /\ req[r].id \in Active
          /\ \A i \in DOMAIN sub \ {req[r].id} : sub'[i] = sub[i]
      BY <2>1 DEF OpenOf, Active
    <2>3. /\ req'[r].op = "none" /\ \A s \in Requests \ {r} : req'[s] = req[s]
          /\ \A s \in Requests \ {r} : req[s].op # "close"
      BY <2>1, Ends, NoFlight DEF OutcomeInv, OneCloses
    <2>4. \A s \in Requests \ {r} : Pending(req[s], reg', sub')
      BY <2>1, <2>3 DEF OutcomeInv, Pending
    <2>5. OpenOf(sub') # {} => OpenOf(sub) # {}
      BY <2>1
    <2>6. OutcomeInv'
      BY <2>1, <2>3, <2>4, <2>5, OutcomeKept DEF OutcomeInv
    <2> QED BY <2>2, <2>6 DEF Final
  <1> QED BY <1>2, <1>3, <1>4, <1>5, <1>6, <1>7 DEF Write

\* A submission that is answered was open, and no closing is under way.
LEMMA AnsweredOutcome ==
    ASSUME TypeInv, OutcomeInv, NEW s \in Active, NEW x \in Submissions, x.kind = sub[s].kind,
           sub' = [sub EXCEPT ![s] = x], UNCHANGED req, ~InFlight({"close"}),
           \A r \in Requests : req[r].op = "change" => reg' = "CONFIRMED",
           \A r \in Requests : req[r].op = "register" => reg' \notin Holders,
           OpenOf(sub) # {} => reg' \notin Waits
    PROVE  OutcomeInv' /\ Final
  <1>1. /\ DOMAIN sub' = DOMAIN sub /\ sub'[s] = x
        /\ \A i \in DOMAIN sub \ {s} : sub'[i] = sub[i]
    BY DEF Active
  <1>2. OpenOf(sub') \subseteq OpenOf(sub)
    BY <1>1 DEF OpenOf, Active
  <1>3. \A r \in Requests : Pending(req[r], reg', sub')
    BY DEF Pending, InFlight
  <1>4. OutcomeInv'
    BY <1>2, <1>3, OutcomeKept
  <1> QED BY <1>1, <1>4 DEF Final

LEMMA AnswerOutcome ==
    ASSUME Exclusive, TypeInv, OutcomeInv, NEW p \in Players, Answer(p)
    PROVE  OutcomeInv' /\ Final
  <1>1. CASE AnswerJoin(p) \/ \E wantsSub \in BOOLEAN : JoinAsk(p, wantsSub)
    <2>1. UNCHANGED <<sub, reg>> /\ UNCHANGED req
      BY <1>1 DEF AnswerJoin, JoinAsk
    <2> QED BY <2>1, QuietOutcome
  <1>2. CASE ApproveJoin(p) \/ AcceptInvitation(p)
    <2>1. /\ UNCHANGED req
          /\ \/ UNCHANGED <<role, version, reg, sub>>
             \/ \E newRole : HandleRosterChange(Mains(role), captain, newRole, captain)
      BY <1>2 DEF ApproveJoin, AcceptInvitation
    <2> QED BY <2>1, QuietOutcome, RosterOutcome
  <1>3. ASSUME NEW s \in DOMAIN sub, Approve(p, s)
        PROVE  OutcomeInv' /\ Final
    <2> DEFINE approved == [sub[s] EXCEPT !.answer[p] = "APPROVED"]
               completed == [approved EXCEPT !.status = "COMPLETED"]
    <2>1. s \in Active /\ sub[s] \in Submissions
      BY <1>3, SubsOf DEF Approve, CanApprove, IsCurrent, Active
    <2>2. approved \in Submissions /\ approved.kind = sub[s].kind
      BY <2>1 DEF Submissions
    <2>3. completed \in Submissions /\ completed.kind = sub[s].kind
      BY <2>2, StatusOf DEF SubmissionStatus
    <2>4. /\ UNCHANGED req /\ ~InFlight({"close"})
          /\ \/ sub' = [sub EXCEPT ![s] = approved] /\ UNCHANGED reg
             \/ /\ sub' = [sub EXCEPT ![s] = completed] /\ ~InFlight(RosterOps)
                /\ UNCHANGED reg \/ reg' \in Holders
      BY <1>3 DEF Approve, Exclusive, Holders
    <2> HIDE DEF approved, completed
    <2>5. CASE sub' = [sub EXCEPT ![s] = approved] /\ UNCHANGED reg
      BY <2>1, <2>2, <2>4, <2>5, AnsweredOutcome DEF OutcomeInv, Pending
    <2>6. CASE /\ sub' = [sub EXCEPT ![s] = completed] /\ ~InFlight(RosterOps)
               /\ UNCHANGED reg \/ reg' \in Holders
      <3>1. \A r \in Requests : req[r].op \notin {"change", "register"}
        BY <2>6 DEF InFlight, RosterOps
      <3>2. OpenOf(sub) # {} => reg' \notin Waits
        BY <2>6 DEF OutcomeInv, Waits, Holders
      <3> QED BY <2>1, <2>3, <2>4, <2>6, <3>1, <3>2, AnsweredOutcome
    <2> QED BY <2>4, <2>5, <2>6
  <1>4. ASSUME NEW s \in DOMAIN sub, Decline(p, s)
        PROVE  OutcomeInv' /\ Final
    <2> DEFINE declined == [sub[s] EXCEPT !.answer[p] = "DECLINED"]
               cancelled == [sub[s] EXCEPT !.answer[p] = "DECLINED", !.status = "CANCELLED"]
    <2>1. s \in Active /\ sub[s] \in Submissions
      BY <1>4, SubsOf DEF Decline, IsCurrent, Active
    <2>2. /\ declined \in Submissions /\ declined.kind = sub[s].kind
      BY <2>1 DEF Submissions
    <2>3. cancelled \in Submissions /\ cancelled.kind = sub[s].kind
      BY <2>1 DEF Submissions, SubmissionStatus
    <2>4. /\ UNCHANGED req /\ ~InFlight({"close"})
          /\ \/ sub' = [sub EXCEPT ![s] = cancelled] /\ UNCHANGED reg
             \/ /\ sub' = [sub EXCEPT ![s] = declined] /\ reg = "PENDING_PLAYER_APPROVAL"
                /\ reg' = "ROSTER_CHANGE_REQUIRED"
      BY <1>4 DEF Decline, Exclusive
    <2> HIDE DEF declined, cancelled
    <2>5. CASE sub' = [sub EXCEPT ![s] = cancelled] /\ UNCHANGED reg
      BY <2>1, <2>3, <2>4, <2>5, AnsweredOutcome DEF OutcomeInv, Pending
    <2>6. CASE /\ sub' = [sub EXCEPT ![s] = declined] /\ reg = "PENDING_PLAYER_APPROVAL"
               /\ reg' = "ROSTER_CHANGE_REQUIRED"
      <3>1. OpenOf(sub) = {} /\ \A r \in Requests : req[r].op # "change"
        BY <2>6 DEF OutcomeInv, Pending, Waits
      <3>2. reg' \notin Holders
        BY <2>6 DEF Holders
      <3> QED BY <2>1, <2>2, <2>4, <2>6, <3>1, <3>2, AnsweredOutcome
    <2> QED BY <2>4, <2>5, <2>6
  <1> QED BY <1>1, <1>2, <1>3, <1>4 DEF Answer

LEMMA TeamOutcome ==
    ASSUME Exclusive, TypeInv, OutcomeInv,
           CancelRegistration \/ Withdraw \/ Promote \/ ToggleSubstitutes \/ LockBegins
    PROVE  OutcomeInv' /\ Final
  <1>0. UNCHANGED req
    BY DEF CancelRegistration, Withdraw, Promote, ToggleSubstitutes, LockBegins
  <1>1. CASE CancelRegistration
    <2>1. reg \in Waits /\ reg' = "FORMING" /\ sub' = Closed("CANCELLED")
      BY <1>1 DEF CancelRegistration, Waits
    <2>2. \A r \in Requests : Pending(req[r], reg', sub')
      BY <2>1 DEF OutcomeInv, Pending, Waits, Holders
    <2>3. OutcomeInv'
      BY <1>0, <2>1, <2>2, OutcomeKept DEF Waits
    <2> QED BY <2>1, <2>3, ClosingIsFinal DEF Final, SubmissionStatus
  <1>2. CASE Withdraw
    <2>1. /\ reg' = "FORMING" /\ (UNCHANGED sub \/ sub' = Closed("CANCELLED"))
          /\ \A r \in Requests : req[r].op \notin {"close", "change", "register"}
      BY <1>2 DEF Withdraw, Exclusive, InFlight, RosterOps
    <2>2. \A r \in Requests : Pending(req[r], reg', sub')
      BY <2>1 DEF Pending
    <2>3. OutcomeInv'
      BY <1>0, <2>1, <2>2, OutcomeKept DEF Waits
    <2> QED BY <2>1, <2>3, ClosingIsFinal DEF Final, SubmissionStatus
  <1>3. CASE Promote
    <2>1. reg = "WAITLISTED" /\ reg' = "CONFIRMED" /\ UNCHANGED sub
      BY <1>3 DEF Promote
    <2>2. \A r \in Requests : Pending(req[r], reg', sub')
      BY <2>1 DEF OutcomeInv, Pending, Holders
    <2>3. OutcomeInv'
      BY <1>0, <2>1, <2>2, OutcomeKept DEF Waits
    <2> QED BY <2>1, <2>3 DEF Final
  <1>4. CASE ToggleSubstitutes \/ LockBegins
    <2>1. UNCHANGED <<sub, reg>>
      BY <1>4 DEF ToggleSubstitutes, LockBegins
    <2> QED BY <1>0, <2>1, QuietOutcome
  <1> QED BY <1>1, <1>2, <1>3, <1>4

\* What became of a submission is final, OutcomesAreFinal, as long as a cancellation or an
\* expiry that found a change open is alone with it until it writes, and no team is
\* confirmed under a request about its roster; roster requests may race each other.
THEOREM OutcomesStay ==
    ASSUME Env \cap {"confirmRace", "closeRace"} = {}
    PROVE  Spec => OutcomesAreFinal
  <1>1. Init => OutcomeInv
    BY NoFlight DEF Init, OutcomeInv, Pending, OneCloses, OpenOf
  <1>2. TypeInv /\ OutcomeInv /\ [Next]_vars => OutcomeInv' /\ [Final]_vars
    <2> SUFFICES ASSUME TypeInv, OutcomeInv, [Next]_vars
                 PROVE  OutcomeInv' /\ [Final]_vars
      OBVIOUS
    <2>1. CASE UNCHANGED vars
      BY <2>1 DEF vars, OutcomeInv, OneCloses
    <2>2. CASE Create
      <3>1. UNCHANGED <<sub, reg>> /\ UNCHANGED req
        BY <2>2 DEF Create, CreateTeam
      <3> QED BY <3>1, QuietOutcome
    <2>3. CASE Operate
      <3>1. Exclusive
        BY DEF Exclusive
      <3> QED BY <2>3, <3>1, ReadOutcome, WriteOutcome, AnswerOutcome, TeamOutcome DEF Operate
    <2> QED BY <2>1, <2>2, <2>3 DEF Next
  <1>3. [Final]_vars => [\A s \in DOMAIN sub \ Active : sub'[s].status = sub[s].status]_vars
    BY DEF Final
  <1> QED BY <1>1, <1>2, <1>3, TypesHold, PTL DEF Spec, OutcomesAreFinal

-----------------------------------------------------------------------------
(* Rosters that fit                                                          *)

Steady == Ordered /\ Env \cap {"subLeads", "uncounted"} = {}

AtMostOne(S) == \A p, q \in S : p = q

\* Players who may play: in the team, and not its manager.
Lineup(main, f) == Cardinality(main) = MaxMain /\ \A p \in main : f[p] \notin {"NONE", "MANAGER"}

Fits ==
    /\ Cardinality(Mains(role)) <= MaxMain /\ AtMostOne(Subs(role))
    /\ Registered => Cardinality(Mains(role)) = MaxMain

\* What a request in flight may still write to a team with roles f, version v and state g:
\* the places it counted are free, the players it lines up are there.
Plans(q, f, v, g) ==
    /\ q.op \in RosterOps => g # "WAITLISTED"
    /\ q.op \in {"join", "transfer"} => q.seen = f
    /\ q.op = "join" => /\ q.who \in Players
                        /\ IF q.who \in q.main
                           THEN Cardinality(Mains(f)) < MaxMain /\ g # "CONFIRMED"
                           ELSE Subs(f) = {}
    /\ q.op = "drop" => /\ \A p \in Players : q.seen[p] \in {"NONE", f[p]}
                        /\ q.seen[q.who] # "NONE"
                        /\ g = "CONFIRMED" => f[q.who] = "SUBSTITUTE"
    /\ q.op = "transfer" => f[q.who] \notin {"NONE", "SUBSTITUTE"}
    /\ q.op \in {"roster", "change"} => Lineup(q.main, f)
    /\ q.op = "roster" => AtMostOne({p \in Players \ q.main : f[p] \notin {"NONE", "MANAGER"}})
    /\ q.op = "change" => q.remove \cap q.main = {}
    /\ q.op = "register" => Cardinality(q.main) = MaxMain /\ (q.version = v => q.main = Mains(f))

\* What a waiting submission of the current version lines up: the team as it is, or the
\* team with one other player, the only one whose answer is awaited.
Stands(x, f, v) ==
    x.status = "ACTIVE" /\ x.version = v =>
        /\ Cardinality(x.playing) = MaxMain
        /\ x.kind = "REGISTRATION" => x.playing = Mains(f)
        /\ x.kind = "ROSTER_CHANGE" =>
              /\ x.remove \cap x.playing = {}
              /\ \E a \in x.playing \ Mains(f) :
                    /\ x.playing \ {a} \subseteq Mains(f)
                    /\ \A p \in Players : x.answer[p] = "PENDING" => p = a

Planned == \A r \in Requests : Plans(req[r], role, version, reg)
Standing == \A s \in DOMAIN sub : Stands(sub[s], role, version)

FitInv ==
    /\ captain = "nobody" => reg = "FORMING"
    /\ captain # "nobody" => Fits /\ Planned /\ Standing

\* In a confirmed team a step makes nobody a player but one who approved a change that
\* all have approved.
Asked == reg = "CONFIRMED" => \A p \in Mains(role') \ Mains(role) : \E s \in Active : Agreed(s, p)

LEMMA SetsAreFinite ==
    ASSUME NEW f
    PROVE  /\ Mains(f) \subseteq Players /\ Subs(f) \subseteq Players
           /\ IsFiniteSet(Mains(f)) /\ Cardinality(Mains(f)) \in Nat
  <1>1. Mains(f) \subseteq Players /\ Subs(f) \subseteq Players
    BY DEF Mains, Subs
  <1>2. IsFiniteSet(Players)
    BY RosterAssumption
  <1>3. IsFiniteSet(Mains(f))
    BY <1>1, <1>2, FS_Subset
  <1> QED BY <1>1, <1>3, FS_CardinalityType

\* The same number of players, one of whom is new: one other plays no more.
LEMMA OneOut ==
    ASSUME NEW S, NEW T, IsFiniteSet(S), IsFiniteSet(T), Cardinality(S) = Cardinality(T),
           NEW a \in T \ S, T \ {a} \subseteq S
    PROVE  AtMostOne(S \ T)
  <1> DEFINE U == T \ {a}
  <1>1. /\ Cardinality(T) \in Nat /\ Cardinality(U) = Cardinality(T) - 1
        /\ IsFiniteSet(U)
    BY FS_CardinalityType, FS_RemoveElement
  <1>2. S \cap U = U /\ S \ T = S \ U
    OBVIOUS
  <1>3. Cardinality(S \ U) = Cardinality(S) - Cardinality(S \cap U) /\ IsFiniteSet(S \ U)
    BY FS_Difference
  <1>4. Cardinality(S \ U) = 1
    BY <1>1, <1>2, <1>3
  <1>5. \E x : S \ U = {x}
    BY <1>3, <1>4, FS_Singleton
  <1> QED BY <1>2, <1>5 DEF AtMostOne

\* Sets of players, of the same number, one within the other.
LEMMA SameSize ==
    ASSUME NEW S, NEW T, IsFiniteSet(S), T \subseteq S, Cardinality(S) = Cardinality(T)
    PROVE  T = S
  BY FS_Subset

\* One role is written.
LEMMA RoleWritten ==
    ASSUME NEW f \in Rosters, NEW p \in Players, NEW to
    PROVE  LET g == [f EXCEPT ![p] = to]
           IN  /\ Mains(g) = IF to \in {"PLAYER", "CAPTAIN"} THEN Mains(f) \cup {p}
                                                             ELSE Mains(f) \ {p}
               /\ Subs(g) = IF to = "SUBSTITUTE" THEN Subs(f) \cup {p} ELSE Subs(f) \ {p}
  BY DEF Mains, Subs, Rosters

\* A request that is not about the roster plans nothing.
LEMMA NoPlans ==
    ASSUME NEW q, q.op \notin RosterOps, NEW f, NEW v, NEW g
    PROVE  Plans(q, f, v, g)
  BY DEF Plans, RosterOps

\* Losing the slot, or keeping the state, disturbs no plan.
LEMMA PlansStay ==
    ASSUME NEW q, NEW f, NEW v, NEW g, Plans(q, f, v, g), NEW h,
           h = g \/ h \notin Holders
    PROVE  Plans(q, f, v, h)
  BY DEF Plans, Holders

\* A step that begins no request.
LEMMA FitsKept ==
    ASSUME captain # "nobody", captain' # "nobody", Fits',
           \A r \in Requests :
               \/ req'[r].op = "none"
               \/ req'[r] = req[r] /\ Plans(req[r], role', version', reg'),
           \A s \in DOMAIN sub' : Stands(sub'[s], role', version')
    PROVE  FitInv'
  <1>1. Planned'
    BY NoPlans DEF Planned, RosterOps
  <1>2. Standing'
    BY DEF Standing
  <1> QED BY <1>1, <1>2 DEF FitInv

\* A step that leaves the roster and its version, and gives no slot.
LEMMA RosterRests ==
    ASSUME FitInv, captain # "nobody", UNCHANGED <<captain, role, version>>,
           reg' = reg \/ reg' \notin Holders,
           \A r \in Requests : req'[r].op = "none" \/ req'[r] = req[r],
           \A s \in DOMAIN sub' : Stands(sub'[s], role, version)
    PROVE  FitInv' /\ Asked
  <1>1. Fits'
    BY DEF FitInv, Fits, Registered, Holders
  <1>2. \A r \in Requests : Plans(req[r], role', version', reg')
    BY PlansStay DEF FitInv, Planned
  <1>3. \A s \in DOMAIN sub' : Stands(sub'[s], role', version')
    OBVIOUS
  <1>4. FitInv'
    BY <1>1, <1>2, <1>3, FitsKept
  <1> QED BY <1>4 DEF Asked

\* Submissions that close, or only lose open questions, stand as they did.
LEMMA SubsStand ==
    ASSUME FitInv, captain # "nobody", TypeInv, DOMAIN sub' = DOMAIN sub,
           \A s \in DOMAIN sub :
               \/ sub'[s].status # "ACTIVE"
               \/ /\ sub'[s].version = sub[s].version /\ sub'[s].kind = sub[s].kind
                  /\ sub'[s].playing = sub[s].playing /\ sub'[s].remove = sub[s].remove
                  /\ sub'[s].status = sub[s].status
                  /\ \A p \in Players : sub'[s].answer[p] = "PENDING" => sub[s].answer[p] = "PENDING"
    PROVE  \A s \in DOMAIN sub' : Stands(sub'[s], role, version)
  <1> SUFFICES ASSUME NEW s \in DOMAIN sub, sub'[s].status = "ACTIVE"
               PROVE  Stands(sub'[s], role, version)
    BY DEF Stands
  <1>1. Stands(sub[s], role, version)
    BY DEF FitInv, Standing
  <1> QED BY <1>1 DEF Stands

\* All waiting submissions are of an older version than the one a change leaves.
LEMMA NoneStands ==
    ASSUME TypeInv, Inv, captain # "nobody", version' = version + 1, DOMAIN sub' = DOMAIN sub,
           \A s \in DOMAIN sub : sub'[s].version = sub[s].version
    PROVE  \A s \in DOMAIN sub' : Stands(sub'[s], role', version')
  <1> SUFFICES ASSUME NEW s \in DOMAIN sub
               PROVE  Stands(sub'[s], role', version')
    OBVIOUS
  <1>1. sub[s].version <= version
    BY DEF Inv, SoundSubs, Sound
  <1>2. sub[s].version \in Int /\ version \in Int
    BY SubsOf, SubmissionFields, RosterAssumption DEF TypeInv
  <1>3. sub'[s].version # version'
    BY <1>1, <1>2
  <1> QED BY <1>3 DEF Stands

LEMMA ReadFits ==
    ASSUME Steady, TypeInv, Inv, FitInv, captain # "nobody", NEW r \in Requests, Read(r)
    PROVE  FitInv' /\ Asked
  <1>1. PICK f \in Flights : Begun(r, f) /\ Plans(f, role, version, reg)
    <2>1. ASSUME NEW p \in Players, NEW f \in Flights, Begun(r, f), f.op = "join", f.who = p,
                 Admitted(p, f.main)
          PROVE  Plans(f, role, version, reg)
      BY <2>1 DEF Begun, Admitted, Plans
    <2>2. ASSUME NEW p \in Players, NEW f \in Flights, Begun(r, f), f.op = "drop", f.who = p,
                 p \in Members \ {captain}, MayGo(p)
          PROVE  Plans(f, role, version, reg)
      BY <2>2 DEF Begun, MayGo, Members, Plans
    <2>3. ASSUME NEW p \in Players, NEW f \in Flights, Begun(r, f), f.op = "transfer", f.who = p,
                 p \in Members \ {captain}, ~Registered, MayLead(p)
          PROVE  Plans(f, role, version, reg)
      BY <2>3 DEF Begun, MayLead, Steady, Members, Registered, Plans
    <2>4. ASSUME NEW f \in Flights, Begun(r, f), f.op = "roster", PlayingRoster(f.main, {}), ~Registered
          PROVE  Plans(f, role, version, reg)
      <3> DEFINE rest == {p \in Players \ f.main : role[p] \notin {"NONE", "MANAGER"}}
      <3>1. Lineup(f.main, role)
        BY <2>4 DEF PlayingRoster, Lineup, Members
      <3>2. rest = {p \in Members \ (f.main \cup {}) : role[p] # "MANAGER"}
        BY DEF Members
      <3>3. Cardinality(rest) <= 1
        <4> DEFINE bench == {p \in Members \ (f.main \cup {}) : role[p] # "MANAGER"}
        <4>1. Cardinality(bench) <= IF accepting THEN 1 ELSE 0
          BY <2>4 DEF PlayingRoster
        <4>2. rest = bench
          BY <3>2
        <4> HIDE DEF rest, bench
        <4>3. Cardinality(rest) <= IF accepting THEN 1 ELSE 0
          BY <4>1, <4>2
        <4>4. IsFiniteSet(rest)
          BY RosterAssumption, FS_Subset DEF rest
        <4> QED BY <4>3, <4>4, FS_CardinalityType
      <3>4. AtMostOne(rest)
        <4>1. IsFiniteSet(rest)
          BY RosterAssumption, FS_Subset
        <4> HIDE DEF rest
        <4>2. Cardinality(rest) \in Nat
          BY <4>1, FS_CardinalityType
        <4>3. Cardinality(rest) = 0 \/ Cardinality(rest) = 1
          BY <3>3, <4>2
        <4> QED BY <4>1, <4>3, FS_EmptySet, FS_Singleton DEF AtMostOne
      <3> HIDE DEF rest
      <3>5. AtMostOne({p \in Players \ f.main : role[p] \notin {"NONE", "MANAGER"}})
        BY <3>4 DEF rest
      <3> QED BY <2>4, <3>1, <3>5 DEF Begun, Registered, Plans
    <2>5. ASSUME NEW f \in Flights, Begun(r, f), f.op = "register", ~Registered,
                 f.main = Mains(role), Cardinality(f.main) = MaxMain
          PROVE  Plans(f, role, version, reg)
      BY <2>5 DEF Registered, Plans
    <2>6. ASSUME NEW f \in Flights, Begun(r, f), f.op = "change", reg = "CONFIRMED",
                 PlayingRoster(f.main, f.remove), f.remove \cap f.main = {}
          PROVE  Plans(f, role, version, reg)
      <3>1. Lineup(f.main, role)
        BY <2>6 DEF PlayingRoster, Lineup, Members
      <3> QED BY <2>6, <3>1 DEF Plans
    <2>7. ASSUME NEW f \in Flights, Begun(r, f), f.op = "close"
          PROVE  Plans(f, role, version, reg)
      BY <2>7, NoPlans DEF RosterOps
    <2> QED BY <2>1, <2>2, <2>3, <2>4, <2>5, <2>6, <2>7, ReadBegins
  <1>2. /\ UNCHANGED <<captain, ownerAs, role, version, reg, sub>> /\ req'[r] = f
        /\ \A s \in Requests \ {r} : req'[s] = req[s]
    BY <1>1, Begins DEF Begun
  <1>3. Planned' /\ Standing' /\ Fits'
    BY <1>1, <1>2 DEF FitInv, Planned, Standing, Fits, Registered
  <1> QED BY <1>2, <1>3 DEF FitInv, Asked

-----------------------------------------------------------------------------
(* The writes of rosters that fit                                            *)

\* A join, a drop, a transfer, a swap or an approved join, of which the version takes note
\* when it changes who plays.
LEMMA PlaceFits ==
    ASSUME TypeInv, Inv, FitInv, captain # "nobody", captain' # "nobody",
           NEW newRole \in Rosters, role' = newRole,
           \/ UNCHANGED <<version, reg, sub>> /\ Mains(newRole) = Mains(role)
           \/ /\ ~Registered /\ version' = version + 1 /\ reg' = "FORMING"
              /\ (UNCHANGED sub \/ sub' = Closed("SUPERSEDED")),
           Cardinality(Mains(newRole)) <= MaxMain, AtMostOne(Subs(newRole)),
           \A r \in Requests :
               \/ req'[r].op = "none"
               \/ req'[r] = req[r] /\ req[r].op \in {"register", "close"}
               \/ /\ req'[r] = req[r] /\ req[r].op = "drop"
                  /\ \A p \in Players : role[p] # "NONE" => newRole[p] = role[p]
    PROVE  FitInv' /\ Asked
  <1>1. Fits'
    BY DEF FitInv, Fits, Registered
  <1>2. ASSUME NEW r \in Requests, req'[r] = req[r], req'[r].op # "none"
        PROVE  Plans(req[r], role', version', reg')
    <2>1. /\ Plans(req[r], role, version, reg) /\ Knows(req[r], captain, ownerAs, role, version, reg)
          /\ req[r].version \in Int /\ version \in Int
      BY FlightFields, RosterAssumption DEF FitInv, Planned, Inv, Known, TypeInv
    <2>2. CASE req[r].op = "close"
      BY <2>2, NoPlans DEF RosterOps
    <2>3. CASE req[r].op = "register"
      <3>1. req[r].version = version' => req[r].main = Mains(newRole)
        BY <2>1, <2>3 DEF Plans, Knows
      <3>2. reg' # "WAITLISTED" /\ Cardinality(req[r].main) = MaxMain
        BY <2>1, <2>3 DEF Plans, RosterOps
      <3> QED BY <2>3, <3>1, <3>2 DEF Plans
    <2>4. CASE req[r].op = "drop" /\ \A p \in Players : role[p] # "NONE" => newRole[p] = role[p]
      <3>1. /\ req[r].who \in Players /\ req[r].seen[req[r].who] # "NONE" /\ reg # "WAITLISTED"
            /\ \A p \in Players : req[r].seen[p] \in {"NONE", role[p]}
            /\ reg = "CONFIRMED" => role[req[r].who] = "SUBSTITUTE"
        BY <2>1, <2>4 DEF Plans, Knows, RosterOps
      <3>2. \A p \in Players : req[r].seen[p] \in {"NONE", newRole[p]}
        BY <2>4, <3>1
      <3>3. reg' # "WAITLISTED" /\ (reg' = "CONFIRMED" => newRole[req[r].who] = "SUBSTITUTE")
        BY <2>4, <3>1
      <3> QED BY <2>4, <3>1, <3>2, <3>3 DEF Plans
    <2> QED BY <1>2, <2>2, <2>3, <2>4
  <1>3. \A s \in DOMAIN sub' : Stands(sub'[s], role', version')
    <2>1. CASE UNCHANGED <<version, reg, sub>> /\ Mains(newRole) = Mains(role)
      BY <2>1 DEF FitInv, Standing, Stands
    <2>2. CASE version' = version + 1 /\ (UNCHANGED sub \/ sub' = Closed("SUPERSEDED"))
      <3>1. DOMAIN sub' = DOMAIN sub /\ \A s \in DOMAIN sub : sub'[s].version = sub[s].version
        BY <2>2, Closing DEF SubmissionStatus
      <3> QED BY <2>2, <3>1, NoneStands
    <2> QED BY <2>1, <2>2
  <1>4. FitInv'
    BY <1>1, <1>2, <1>3, FitsKept
  <1>5. Asked
    BY DEF Asked, Registered
  <1> QED BY <1>4, <1>5

\* handleRosterChange with what was read before: nobody who plays changes unnoticed.
LEMMA Noticed ==
    ASSUME NEW before, NEW by, NEW newRole, NEW newCaptain,
           HandleRosterChange(before, by, newRole, newCaptain),
           Registered => Mains(newRole) = Mains(role),
           Mains(newRole) = before /\ newCaptain = by => Mains(newRole) = Mains(role)
    PROVE  \/ UNCHANGED <<version, reg, sub>> /\ Mains(newRole) = Mains(role)
           \/ /\ ~Registered /\ version' = version + 1 /\ reg' = "FORMING"
              /\ (UNCHANGED sub \/ sub' = Closed("SUPERSEDED"))
  <1>1. CASE Registered \/ (Mains(newRole) = before /\ newCaptain = by)
    <2>1. UNCHANGED <<version, reg, sub>>
      BY <1>1 DEF HandleRosterChange
    <2> QED BY <1>1, <2>1
  <1>2. CASE ~(Registered \/ (Mains(newRole) = before /\ newCaptain = by))
    BY <1>2 DEF HandleRosterChange, NewVersion
  <1> QED BY <1>1, <1>2

\* The requests beside one that fills a place.
LEMMA BesidePlaces ==
    ASSUME TypeInv, Inv, captain # "nobody", NEW r \in Requests, req[r].op \in Places, Done(r)
    PROVE  \A s \in Requests : \/ req'[s].op = "none"
                               \/ req'[s] = req[s] /\ req[s].op \in {"register", "close"}
  BY Ends, NoFlight, Others DEF Places, RosterOps, Operations

\* The place that was counted is still free.
LEMMA JoinFits ==
    ASSUME TypeInv, Inv, FitInv, captain # "nobody", NEW r \in Requests, JoinWrite(r)
    PROVE  FitInv' /\ Asked
  <1> DEFINE p == req[r].who
             newRole == [role EXCEPT ![p] = IF p \in req[r].main THEN "PLAYER" ELSE "SUBSTITUTE"]
  <1>1. /\ HandleRosterChange(Mains(req[r].seen), req[r].by, newRole, captain)
        /\ role' = newRole /\ captain' = captain /\ Done(r)
        /\ req[r].op = "join" /\ role[p] = "NONE"
    BY DEF JoinWrite
  <1>2. /\ Plans(req[r], role, version, reg) /\ Fits /\ role \in Rosters
    BY <1>1 DEF FitInv, Planned, TypeInv
  <1>3. newRole \in Rosters
    BY <1>2 DEF Rosters, TeamMemberRole
  <1>4. /\ p \in Players /\ req[r].seen = role /\ reg # "WAITLISTED"
        /\ IF p \in req[r].main THEN Cardinality(Mains(role)) < MaxMain /\ reg # "CONFIRMED"
                                ELSE Subs(role) = {}
    BY <1>1, <1>2 DEF Plans, RosterOps
  <1>5. /\ Mains(newRole) = IF p \in req[r].main THEN Mains(role) \cup {p} ELSE Mains(role)
        /\ Subs(newRole) = IF p \in req[r].main THEN Subs(role) ELSE {p}
    <2>1. p \notin Mains(role) /\ p \notin Subs(role)
      BY <1>1 DEF Mains, Subs
    <2>2. CASE p \in req[r].main
      <3>1. newRole = [role EXCEPT ![p] = "PLAYER"]
        BY <2>2
      <3> HIDE DEF newRole
      <3>2. Mains(newRole) = Mains(role) \cup {p} /\ Subs(newRole) = Subs(role) \ {p}
        BY <1>2, <1>4, <3>1, RoleWritten
      <3> QED BY <2>1, <2>2, <3>2
    <2>3. CASE p \notin req[r].main
      <3>1. newRole = [role EXCEPT ![p] = "SUBSTITUTE"]
        BY <2>3
      <3> HIDE DEF newRole
      <3>2. Mains(newRole) = Mains(role) \ {p} /\ Subs(newRole) = Subs(role) \cup {p}
        BY <1>2, <1>4, <3>1, RoleWritten
      <3> QED BY <1>4, <2>1, <2>3, <3>2
    <2> QED BY <2>2, <2>3
  <1> HIDE DEF newRole
  <1>6. Cardinality(Mains(newRole)) <= MaxMain
    <2>1. Cardinality(Mains(role)) \in Nat /\ IsFiniteSet(Mains(role)) /\ MaxMain \in Nat
      BY SetsAreFinite, RosterAssumption
    <2>2. CASE p \in req[r].main
      <3>1. p \notin Mains(role) /\ Mains(newRole) = Mains(role) \cup {p}
        BY <1>1, <1>5, <2>2 DEF Mains
      <3>2. Cardinality(Mains(newRole)) = Cardinality(Mains(role)) + 1
        BY <2>1, <3>1, FS_AddElement
      <3> QED BY <1>4, <2>1, <2>2, <3>2
    <2>3. CASE p \notin req[r].main
      BY <1>2, <1>5, <2>3 DEF Fits
    <2> QED BY <2>2, <2>3
  <1>7. AtMostOne(Subs(newRole))
    BY <1>2, <1>5 DEF Fits, AtMostOne
  <1>8. Registered => Mains(newRole) = Mains(role)
    BY <1>4, <1>5 DEF Registered
  <1>9. \/ UNCHANGED <<version, reg, sub>> /\ Mains(newRole) = Mains(role)
        \/ /\ ~Registered /\ version' = version + 1 /\ reg' = "FORMING"
           /\ (UNCHANGED sub \/ sub' = Closed("SUPERSEDED"))
    BY <1>1, <1>4, <1>8, Noticed
  <1> QED BY <1>1, <1>3, <1>6, <1>7, <1>9, BesidePlaces, PlaceFits DEF Places

\* Whoever leaves a team that holds a slot does not play.
LEMMA DropFits ==
    ASSUME TypeInv, Inv, FitInv, captain # "nobody", NEW r \in Requests, DropWrite(r)
    PROVE  FitInv' /\ Asked
  <1> DEFINE p == req[r].who
             newRole == [role EXCEPT ![p] = "NONE"]
  <1>1. /\ HandleRosterChange(Mains(req[r].seen), req[r].by, newRole, captain)
        /\ role' = newRole /\ captain' = captain /\ Done(r)
        /\ req[r].op = "drop" /\ p \in Players
    BY RolesAre DEF DropWrite
  <1>2. Plans(req[r], role, version, reg) /\ Fits /\ role \in Rosters
    BY DEF FitInv, Planned, TypeInv
  <1>3. newRole \in Rosters
    BY <1>1, RolesAre
  <1>4. /\ \A q \in Players : req[r].seen[q] \in {"NONE", role[q]}
        /\ req[r].seen[p] = role[p] /\ reg # "WAITLISTED"
        /\ reg = "CONFIRMED" => role[p] = "SUBSTITUTE"
    BY <1>1, <1>2 DEF Plans, RosterOps
  <1>5. Mains(newRole) = Mains(role) \ {p} /\ Subs(newRole) = Subs(role) \ {p}
    <2>1. newRole = [role EXCEPT ![p] = "NONE"] /\ p \in Players /\ role \in Rosters
      BY <1>1, <1>2
    <2> HIDE DEF newRole, p
    <2> QED BY <2>1, RoleWritten
  <1> HIDE DEF newRole
  <1>6. Registered => Mains(newRole) = Mains(role)
    BY <1>4, <1>5 DEF Registered, Mains
  <1>7. Mains(newRole) = Mains(req[r].seen) => Mains(newRole) = Mains(role)
    BY <1>1, <1>4, <1>5 DEF Mains
  <1>8. Cardinality(Mains(newRole)) <= MaxMain /\ AtMostOne(Subs(newRole))
    <2>1. IsFiniteSet(Mains(role)) /\ Cardinality(Mains(role)) \in Nat
          /\ Cardinality(Mains(newRole)) \in Nat /\ MaxMain \in Nat
      BY SetsAreFinite, RosterAssumption
    <2>2. Cardinality(Mains(newRole)) <= Cardinality(Mains(role))
      BY <1>5, <2>1, FS_Subset
    <2>3. Cardinality(Mains(newRole)) <= MaxMain
      BY <1>2, <2>1, <2>2 DEF Fits
    <2> QED BY <1>2, <1>5, <2>3 DEF Fits, AtMostOne
  <1>9. \/ UNCHANGED <<version, reg, sub>> /\ Mains(newRole) = Mains(role)
        \/ /\ ~Registered /\ version' = version + 1 /\ reg' = "FORMING"
           /\ (UNCHANGED sub \/ sub' = Closed("SUPERSEDED"))
    BY <1>1, <1>6, <1>7, Noticed
  <1> QED BY <1>1, <1>3, <1>8, <1>9, BesidePlaces, PlaceFits DEF Places

\* The captaincy moves between players, or from a manager to a player who then manages.
LEMMA TransferFits ==
    ASSUME TypeInv, Inv, FitInv, captain # "nobody", NEW r \in Requests, TransferWrite(r)
    PROVE  FitInv' /\ Asked
  <1> DEFINE new == req[r].who
             newRole == Transferred(captain, new)
  <1>1. req[r].op = "transfer"
    BY DEF TransferWrite
  <1>2. /\ Plans(req[r], role, version, reg) /\ Fits /\ role \in Rosters
        /\ Led(captain, ownerAs, role) /\ captain \in Players /\ ownerAs \in {"LEADER", "MANAGER"}
    BY DEF FitInv, Planned, Inv, TypeInv
  <1>3. new \in Players \ {captain} /\ req[r].by = captain /\ ~Registered
    BY <1>1, Others DEF Knows, Registered, Holders
  <1>4. /\ HandleRosterChange(Mains(req[r].seen), captain, newRole, new)
        /\ role' = newRole /\ captain' = new /\ Done(r)
    BY <1>3 DEF TransferWrite
  <1>5. role[new] = "PLAYER"
    <2>1. role[new] \notin {"NONE", "SUBSTITUTE", "CAPTAIN", "MANAGER"}
      BY <1>1, <1>2, <1>3 DEF Plans, Led
    <2> QED BY <1>3, <2>1, RolesAre DEF TeamMemberRole
  <1>6. newRole \in Rosters
    BY <1>2, RolesAre DEF Rosters, Transferred, TeamMemberRole
  <1>7. Subs(newRole) = Subs(role)
    BY <1>2, <1>3, <1>5 DEF Subs, Transferred, Led, OwnerRoleOf, Rosters
  <1>8. Mains(newRole) = IF ownerAs = "LEADER" THEN Mains(role)
                                                ELSE (Mains(role) \ {new}) \cup {captain}
    BY <1>2, <1>3, <1>5 DEF Mains, Transferred, Led, OwnerRoleOf, Rosters
  <1> HIDE DEF newRole
  <1>9. Cardinality(Mains(newRole)) <= MaxMain
    <2>1. CASE ownerAs = "LEADER"
      BY <1>2, <1>8, <2>1 DEF Fits
    <2>2. CASE ownerAs # "LEADER"
      <3> DEFINE S == Mains(role) \ {new}
      <3>1. IsFiniteSet(Mains(role)) /\ Cardinality(Mains(role)) \in Nat /\ new \in Mains(role)
        BY <1>3, <1>5, SetsAreFinite DEF Mains
      <3>2. IsFiniteSet(S) /\ Cardinality(S) = Cardinality(Mains(role)) - 1
        BY <3>1, FS_RemoveElement
      <3>3. captain \notin S /\ Mains(newRole) = S \cup {captain}
        BY <1>2, <1>8, <2>2 DEF Led, Mains
      <3> HIDE DEF S
      <3>4. Cardinality(Mains(newRole)) = Cardinality(S) + 1
        BY <3>2, <3>3, FS_AddElement
      <3> QED BY <1>2, <3>1, <3>2, <3>4 DEF Fits
    <2> QED BY <2>1, <2>2
  <1>10. \/ UNCHANGED <<version, reg, sub>> /\ Mains(newRole) = Mains(role)
         \/ /\ ~Registered /\ version' = version + 1 /\ reg' = "FORMING"
            /\ (UNCHANGED sub \/ sub' = Closed("SUPERSEDED"))
    BY <1>3, <1>4, Noticed
  <1>11. captain' # "nobody" /\ AtMostOne(Subs(newRole))
    BY <1>2, <1>3, <1>4, <1>7, RosterAssumption DEF Fits
  <1> QED BY <1>1, <1>4, <1>6, <1>9, <1>10, <1>11, BesidePlaces, PlaceFits DEF Places

\* After a swap the lineup plays, and who is left over is the substitute.
LEMMA SwapFits ==
    ASSUME TypeInv, Inv, FitInv, captain # "nobody", NEW r \in Requests, RosterWrite(r)
    PROVE  FitInv' /\ Asked
  <1> DEFINE newRole == [p \in Players |-> Swapped(r, p)]
             main == req[r].main
             rest == {p \in Players \ main : role[p] \notin {"NONE", "MANAGER"}}
  <1>1. /\ HandleRosterChange(Mains(req[r].seen), req[r].by, newRole, captain)
        /\ role' = newRole /\ captain' = captain /\ Done(r) /\ req[r].op = "roster"
    BY DEF RosterWrite
  <1>2. /\ Fits /\ role \in Rosters /\ Lineup(main, role) /\ AtMostOne(rest)
        /\ Led(captain, ownerAs, role) /\ ownerAs \in {"LEADER", "MANAGER"} /\ main \subseteq Players
    BY <1>1, FlightFields DEF FitInv, Planned, Plans, Inv, TypeInv
  <1>3. req[r].seen = role /\ KeepsOwner(captain, ownerAs, main, {}) /\ ~Registered
    BY <1>1, Others DEF Knows, Registered, Holders
  <1>4. newRole \in Rosters
    BY <1>2, <1>3, RolesAre DEF Rosters, Swapped, TeamMemberRole
  <1>5. ASSUME NEW p \in Players
        PROVE  /\ p \in main <=> newRole[p] \in {"PLAYER", "CAPTAIN"}
               /\ newRole[p] = "SUBSTITUTE" => p \in rest
    <2>1. role[p] \in {"PLAYER", "CAPTAIN", "MANAGER", "SUBSTITUTE", "NONE"}
      BY RolesAre DEF TeamMemberRole
    <2>2. p \in main => role[p] \in {"PLAYER", "CAPTAIN", "SUBSTITUTE"}
      BY <1>2, <2>1 DEF Lineup
    <2>3. p \notin main => role[p] # "CAPTAIN"
      BY <1>2, <1>3 DEF Led, KeepsOwner
    <2>4. newRole[p] = IF role[p] = "SUBSTITUTE" /\ p \in main THEN "PLAYER"
                       ELSE IF role[p] = "PLAYER" /\ p \notin main THEN "SUBSTITUTE" ELSE role[p]
      BY <1>3 DEF Swapped
    <2> QED BY <2>1, <2>2, <2>3, <2>4
  <1>6. Mains(newRole) = main /\ Subs(newRole) \subseteq rest
    BY <1>2, <1>5 DEF Mains, Subs
  <1> HIDE DEF newRole, rest
  <1>7. Cardinality(Mains(newRole)) <= MaxMain /\ AtMostOne(Subs(newRole))
    BY <1>2, <1>6, RosterAssumption DEF Lineup, AtMostOne
  <1>8. \/ UNCHANGED <<version, reg, sub>> /\ Mains(newRole) = Mains(role)
        \/ /\ ~Registered /\ version' = version + 1 /\ reg' = "FORMING"
           /\ (UNCHANGED sub \/ sub' = Closed("SUPERSEDED"))
    BY <1>1, <1>3, Noticed
  <1> QED BY <1>1, <1>4, <1>7, <1>8, BesidePlaces, PlaceFits DEF Places

\* An approved join takes a place that is free when it is approved.
LEMMA AddedFits ==
    ASSUME Steady, TypeInv, Inv, FitInv, captain # "nobody", NEW p \in Players,
           NEW to \in {"PLAYER", "SUBSTITUTE"}, AddedAs(p, to), HasPlace(to), ~Registered,
           ~InFlight({"join", "roster", "transfer"})
    PROVE  FitInv' /\ Asked
  <1> DEFINE newRole == [role EXCEPT ![p] = to]
  <1>0. role \in Rosters /\ Fits /\ UNCHANGED <<captain, req>>
    BY DEF FitInv, TypeInv, AddedAs
  <1>1. /\ role' = newRole /\ role[p] = "NONE"
        /\ HandleRosterChange(Mains(role), captain, newRole, captain)
    BY DEF AddedAs
  <1>2. newRole \in Rosters
    BY <1>0, RolesAre DEF TeamMemberRole
  <1>3. /\ Mains(newRole) = IF to = "PLAYER" THEN Mains(role) \cup {p} ELSE Mains(role) \ {p}
        /\ Subs(newRole) = IF to = "SUBSTITUTE" THEN Subs(role) \cup {p} ELSE Subs(role) \ {p}
    <2>1. newRole = [role EXCEPT ![p] = to]
      OBVIOUS
    <2> HIDE DEF newRole
    <2>2. CASE to = "PLAYER"
      BY <1>0, <2>1, <2>2, RoleWritten
    <2>3. CASE to = "SUBSTITUTE"
      BY <1>0, <2>1, <2>3, RoleWritten
    <2> QED BY <2>2, <2>3
  <1>4. \A q \in Players : role[q] # "NONE" => newRole[q] = role[q]
    BY <1>0, <1>1 DEF Rosters
  <1> HIDE DEF newRole
  <1>5. Cardinality(Mains(newRole)) <= MaxMain
    <2>1. Cardinality(Mains(role)) \in Nat /\ IsFiniteSet(Mains(role)) /\ MaxMain \in Nat
      BY SetsAreFinite, RosterAssumption
    <2>2. p \notin Mains(role)
      BY <1>1 DEF Mains
    <2>3. CASE to = "PLAYER"
      <3>1. Cardinality(Mains(role)) < MaxMain
        BY <2>3 DEF HasPlace
      <3>2. Mains(newRole) = Mains(role) \cup {p}
        BY <1>3, <2>3
      <3>3. Cardinality(Mains(newRole)) = Cardinality(Mains(role)) + 1
        BY <2>1, <2>2, <3>2, FS_AddElement
      <3> QED BY <2>1, <3>1, <3>3
    <2>4. CASE to # "PLAYER"
      <3>1. Mains(newRole) = Mains(role)
        BY <1>3, <2>2, <2>4
      <3> QED BY <1>0, <3>1 DEF Fits
    <2> QED BY <2>3, <2>4
  <1>6. AtMostOne(Subs(newRole))
    BY <1>0, <1>1, <1>3 DEF Fits, AtMostOne, HasPlace
  <1>7. \A s \in Requests : req[s].op \notin {"join", "roster", "transfer", "change"}
    BY <1>0, Others DEF InFlight, Knows, Registered
  <1>8. \A s \in Requests :
             \/ req'[s].op = "none"
             \/ req'[s] = req[s] /\ req[s].op \in {"register", "close"}
             \/ /\ req'[s] = req[s] /\ req[s].op = "drop"
                /\ \A q \in Players : role[q] # "NONE" => newRole[q] = role[q]
    BY <1>0, <1>4, <1>7, Others DEF Operations, RosterOps
  <1>9. \/ UNCHANGED <<version, reg, sub>> /\ Mains(newRole) = Mains(role)
        \/ /\ ~Registered /\ version' = version + 1 /\ reg' = "FORMING"
           /\ (UNCHANGED sub \/ sub' = Closed("SUPERSEDED"))
    BY <1>0, <1>1, Noticed
  <1> QED BY <1>0, <1>1, <1>2, <1>5, <1>6, <1>8, <1>9, PlaceFits

LEMMA ApproveJoinFits ==
    ASSUME Steady, TypeInv, Inv, FitInv, captain # "nobody", NEW p \in Players, ApproveJoin(p)
    PROVE  FitInv' /\ Asked
  <1>0. /\ join[p] \in {"PLAYER", "SUBSTITUTE"} /\ ~Registered /\ UNCHANGED <<captain, req>>
        /\ ~InFlight({"join", "roster", "transfer"})
    BY DEF TypeInv, ApproveJoin, Steady, Ordered
  <1>1. CASE UNCHANGED <<role, version, reg, sub>>
    BY <1>0, <1>1, RosterRests DEF FitInv, Standing
  <1>2. UNCHANGED <<role, version, reg, sub>> \/ (AddedAs(p, join[p]) /\ HasPlace(join[p]))
    BY DEF ApproveJoin, AddedAs
  <1> QED BY <1>0, <1>1, <1>2, AddedFits

\* An invitation that is accepted while a place is free.
LEMMA AcceptFits ==
    ASSUME Steady, TypeInv, Inv, FitInv, captain # "nobody", NEW p \in Players,
           AcceptInvitation(p)
    PROVE  FitInv' /\ Asked
  <1>1. AddedAs(p, "PLAYER")
    BY DEF AcceptInvitation, AddedAs
  <1>2. /\ ~Registered /\ Cardinality(Mains(role)) < MaxMain
        /\ ~InFlight({"join", "roster", "transfer"})
    BY DEF AcceptInvitation, Steady, Ordered, InFlight
  <1> QED BY <1>1, <1>2, AddedFits DEF HasPlace

\* What a change leaves: the lineup plays, and nobody is a substitute who was neither a
\* player nor a substitute before.
LEMMA AppliedRoster ==
    ASSUME TypeInv, NEW main, NEW remove, main \subseteq Players, Lineup(main, role),
           remove \cap main = {}
    PROVE  LET f == Applied(role, main, remove)
           IN  Mains(f) = main /\ Subs(f) \subseteq (Subs(role) \ main) \cup (Mains(role) \ main)
  <1> DEFINE f == Applied(role, main, remove)
  <1>1. ASSUME NEW p \in Players
        PROVE  /\ p \in main <=> f[p] \in {"PLAYER", "CAPTAIN"}
               /\ f[p] = "SUBSTITUTE" => p \notin main /\ role[p] \in {"PLAYER", "CAPTAIN", "SUBSTITUTE"}
    <2>1. role[p] \in {"PLAYER", "CAPTAIN", "MANAGER", "SUBSTITUTE", "NONE"}
      BY RolesAre DEF TeamMemberRole
    <2>2. p \in main => role[p] \in {"PLAYER", "CAPTAIN", "SUBSTITUTE"} /\ p \notin remove
      BY <2>1 DEF Lineup
    <2> DEFINE playing == IF p = captain /\ ownerAs = "LEADER" THEN "CAPTAIN" ELSE "PLAYER"
    <2>3. f[p] = CASE role[p] = "NONE" -> role[p]
                   [] role[p] # "NONE" /\ p \in remove -> "NONE"
                   [] role[p] # "NONE" /\ p \in main /\ role[p] # playing -> playing
                   [] role[p] \in {"PLAYER", "CAPTAIN"} /\ p \notin main \cup remove -> "SUBSTITUTE"
                   [] OTHER -> role[p]
      BY DEF Applied
    <2>4. playing \in {"CAPTAIN", "PLAYER"}
      OBVIOUS
    <2> HIDE DEF f, playing
    <2>5. CASE p \in main
      <3>1. f[p] = IF role[p] # playing THEN playing ELSE role[p]
        BY <2>2, <2>3, <2>5
      <3> QED BY <2>4, <2>5, <3>1
    <2>6. CASE p \notin main
      <3>1. f[p] = IF role[p] = "NONE" \/ p \in remove THEN "NONE"
                   ELSE IF role[p] \in {"PLAYER", "CAPTAIN"} THEN "SUBSTITUTE" ELSE role[p]
        BY <2>3, <2>6
      <3> QED BY <2>1, <2>6, <3>1
    <2> QED BY <2>5, <2>6
  <1> HIDE DEF f
  <1>2. Mains(f) = main /\ Subs(f) \subseteq (Subs(role) \ main) \cup (Mains(role) \ main)
    BY <1>1 DEF Mains, Subs
  <1> QED BY <1>2 DEF f

\* Nobody new plays, and a team that holds its slot lines up as many as play: the same.
LEMMA ChangeApplyFits ==
    ASSUME TypeInv, Inv, FitInv, captain # "nobody", NEW r \in Requests, ChangeApply(r)
    PROVE  /\ FitInv' /\ Asked /\ Mains(role') = Mains(role)
  <1> DEFINE newRole == Applied(role, req[r].main, req[r].remove)
  <1>1. /\ req[r].op = "change" /\ Done(r) /\ version' = req[r].version + 1
        /\ role' = Applied(req[r].seen, req[r].main, req[r].remove)
        /\ UNCHANGED <<captain, reg, sub>> /\ Added(req[r]) = {}
    BY DEF ChangeApply
  <1>2. /\ req[r].seen = role /\ req[r].version = version /\ reg = "CONFIRMED"
        /\ \A s \in Requests \ {r} : req[s].op \notin RosterOps
    BY <1>1, Others DEF Knows
  <1>3. /\ Fits /\ Lineup(req[r].main, role) /\ req[r].remove \cap req[r].main = {}
        /\ req[r].main \subseteq Players
    BY <1>1, FlightFields DEF FitInv, Planned, Plans, TypeInv
  <1>4. req[r].main = Mains(role)
    <2>1. Cardinality(req[r].main) = Cardinality(Mains(role))
      BY <1>2, <1>3 DEF Fits, Registered, Lineup
    <2>2. req[r].main \subseteq Mains(role)
      BY <1>1, <1>2 DEF Added
    <2> QED BY <2>1, <2>2, SetsAreFinite, SameSize
  <1>5. role' = newRole
    BY <1>1, <1>2
  <1>6. Mains(newRole) = Mains(role) /\ Subs(newRole) \subseteq Subs(role)
    BY <1>3, <1>4, AppliedRoster
  <1> HIDE DEF newRole
  <1>7. Fits'
    BY <1>1, <1>3, <1>5, <1>6 DEF Fits, Registered, AtMostOne
  <1>8. \A s \in DOMAIN sub' : Stands(sub'[s], role', version')
    BY <1>1, <1>2, NoneStands
  <1>9. \A s \in Requests : \/ req'[s].op = "none"
                            \/ req'[s] = req[s] /\ Plans(req[s], role', version', reg')
    BY <1>1, <1>2, Ends, NoFlight, NoPlans
  <1>10. FitInv'
    BY <1>1, <1>7, <1>8, <1>9, FitsKept
  <1> QED BY <1>5, <1>6, <1>10 DEF Asked

\* What a registration hands in is the team, unless the team has changed since.
LEMMA RegisterSubmitFits ==
    ASSUME TypeInv, Inv, FitInv, captain # "nobody", NEW r \in Requests, RegisterSubmit(r)
    PROVE  FitInv' /\ Asked
  <1> DEFINE before == Closed("CANCELLED")
  <1>1. PICK approvers : Submit("REGISTRATION", req[r], approvers, before)
    BY DEF RegisterSubmit
  <1>2. /\ req[r].op = "register" /\ reg' = "PENDING_PLAYER_APPROVAL" /\ Done(r)
        /\ UNCHANGED <<captain, role, version>> /\ req[r] \in Flights
    BY DEF RegisterSubmit, TypeInv
  <1>3. /\ Cardinality(req[r].main) = MaxMain
        /\ req[r].version = version => req[r].main = Mains(role)
        /\ req[r].version \in 1..MaxVersion
    BY <1>2 DEF FitInv, Planned, Plans, TypeInv, Carries, RosterOps
  <1>4. /\ before \in Seq(Submissions)
        /\ \A s \in DOMAIN before : before[s].status # "ACTIVE"
    BY Closing DEF SubmissionStatus
  <1> HIDE DEF before
  <1>5. /\ DOMAIN sub' = 1..(Len(before) + 1) /\ DOMAIN before = 1..Len(before) /\ Len(before) \in Nat
        /\ \A s \in DOMAIN before : sub'[s] = before[s]
        /\ sub'[Len(before) + 1].kind = "REGISTRATION"
        /\ sub'[Len(before) + 1].version = req[r].version
        /\ sub'[Len(before) + 1].playing = req[r].main
    BY <1>1, <1>2, <1>3, <1>4, Submitted DEF Kinds
  <1>6. Stands(sub'[Len(before) + 1], role, version)
    BY <1>3, <1>5 DEF Stands
  <1>7. \A s \in DOMAIN before : Stands(sub'[s], role, version)
    BY <1>4, <1>5 DEF Stands
  <1>8. \A s \in DOMAIN sub' : Stands(sub'[s], role, version)
    BY <1>5, <1>6, <1>7
  <1>9. \A s \in Requests : req'[s].op = "none" \/ req'[s] = req[s]
    BY <1>2, Ends, NoFlight
  <1>10. reg' \notin Holders
    BY <1>2 DEF Holders
  <1> QED BY <1>2, <1>8, <1>9, <1>10, RosterRests

\* Only the roster that was read takes the slot.
LEMMA FinalizeFits ==
    ASSUME Steady, TypeInv, Inv, FitInv, captain # "nobody", NEW r \in Requests,
           RegisterFinalize(r)
    PROVE  FitInv' /\ Asked
  <1>1. /\ req[r].op = "register" /\ Done(r) /\ UNCHANGED <<captain, role, version, sub>>
        /\ version = req[r].version /\ \A s \in Requests \ {r} : req[s].op \notin RosterOps
    BY DEF RegisterFinalize, Steady, Ordered
  <1>2. Fits /\ Cardinality(Mains(role)) = MaxMain
    BY <1>1 DEF FitInv, Planned, Plans
  <1>3. Fits'
    BY <1>1, <1>2 DEF Fits
  <1>4. \A s \in DOMAIN sub' : Stands(sub'[s], role', version')
    BY <1>1 DEF FitInv, Standing
  <1>5. \A s \in Requests : \/ req'[s].op = "none"
                            \/ req'[s] = req[s] /\ Plans(req[s], role', version', reg')
    BY <1>1, Ends, NoFlight, NoPlans
  <1>6. FitInv'
    BY <1>1, <1>3, <1>4, <1>5, FitsKept
  <1> QED BY <1>1, <1>6 DEF Asked

\* A change that somebody must approve lines up exactly one player who did not play: the
\* substitute.
LEMMA ChangeSubmitFits ==
    ASSUME TypeInv, Inv, FitInv, captain # "nobody", NEW r \in Requests, ChangeSubmit(r)
    PROVE  FitInv' /\ Asked
  <1>1. /\ Submit("ROSTER_CHANGE", req[r], Added(req[r]), sub) /\ Done(r)
        /\ req[r].op = "change" /\ UNCHANGED <<captain, role, version, reg>>
        /\ Added(req[r]) # {} /\ req[r] \in Flights
    BY DEF ChangeSubmit, TypeInv
  <1>2. /\ req[r].version \in 1..MaxVersion /\ req[r].seen = role
    BY <1>1, Others DEF Knows, TypeInv, Carries, RosterOps
  <1>3. /\ Fits /\ Lineup(req[r].main, role) /\ req[r].remove \cap req[r].main = {}
        /\ req[r].main \subseteq Players
    BY <1>1, FlightFields DEF FitInv, Planned, Plans
  <1>4. /\ DOMAIN sub' = 1..(Len(sub) + 1) /\ DOMAIN sub = 1..Len(sub) /\ Len(sub) \in Nat
        /\ \A i \in DOMAIN sub : sub'[i] = sub[i]
        /\ sub'[Len(sub) + 1].kind = "ROSTER_CHANGE"
        /\ sub'[Len(sub) + 1].playing = req[r].main
        /\ sub'[Len(sub) + 1].remove = req[r].remove
        /\ \A p \in Players : sub'[Len(sub) + 1].answer[p] = "PENDING" => p \in Added(req[r])
    BY <1>1, <1>2, SubsOf, Submitted DEF Kinds
  <1>5. Added(req[r]) = req[r].main \ Mains(role)
    BY <1>2 DEF Added
  <1>6. req[r].main \ Mains(role) \subseteq Subs(role)
    <2>1. \A p \in Players : role[p] \in {"PLAYER", "CAPTAIN", "MANAGER", "SUBSTITUTE", "NONE"}
      BY RolesAre DEF TeamMemberRole
    <2> QED BY <1>3, <2>1 DEF Mains, Subs, Lineup
  <1>7. PICK a : a \in req[r].main \ Mains(role)
    BY <1>1, <1>5
  <1>8. \A p \in req[r].main \ Mains(role) : p = a
    BY <1>3, <1>6, <1>7 DEF Fits, AtMostOne
  <1>9. Stands(sub'[Len(sub) + 1], role, version)
    <2> DEFINE x == sub'[Len(sub) + 1]
    <2>1. /\ a \in x.playing \ Mains(role) /\ x.playing \ {a} \subseteq Mains(role)
          /\ \A p \in Players : x.answer[p] = "PENDING" => p = a
      BY <1>4, <1>5, <1>7, <1>8
    <2>2. x.kind = "ROSTER_CHANGE" /\ Cardinality(x.playing) = MaxMain /\ x.remove \cap x.playing = {}
      BY <1>3, <1>4 DEF Lineup
    <2> HIDE DEF x
    <2>3. Stands(x, role, version)
      BY <2>1, <2>2 DEF Stands
    <2> QED BY <2>3 DEF x
  <1>10. \A s \in DOMAIN sub' : Stands(sub'[s], role, version)
    BY <1>4, <1>9 DEF FitInv, Standing
  <1>11. \A s \in Requests : req'[s].op = "none" \/ req'[s] = req[s]
    BY <1>1, Ends, NoFlight
  <1> QED BY <1>1, <1>10, <1>11, RosterRests

LEMMA CloseFits ==
    ASSUME TypeInv, Inv, FitInv, captain # "nobody", NEW r \in Requests, CloseWrite(r) \/ Throw(r)
    PROVE  FitInv' /\ Asked
  <1>1. Done(r) /\ UNCHANGED <<captain, role, version, reg>>
    BY DEF CloseWrite, Throw
  <1>2. \A s \in Requests : req'[s].op = "none" \/ req'[s] = req[s]
    BY <1>1, Ends, NoFlight
  <1>3. CASE CloseWrite(r)
    <2> DEFINE x == [sub[req[r].id] EXCEPT !.status = req[r].who]
    <2>1. /\ req[r].who \in {"CANCELLED", "EXPIRED"} /\ req[r].id \in DOMAIN sub
          /\ sub' = [sub EXCEPT ![req[r].id] = x]
      BY <1>3 DEF CloseWrite, Carries, TypeInv
    <2>2. x.status # "ACTIVE"
      BY <2>1, SubsOf, StatusOf DEF SubmissionStatus
    <2> HIDE DEF x
    <2>3. DOMAIN sub' = DOMAIN sub /\ \A i \in DOMAIN sub : sub'[i].status # "ACTIVE" \/ sub'[i] = sub[i]
      BY <2>1, <2>2
    <2>4. \A s \in DOMAIN sub' : Stands(sub'[s], role, version)
      BY <2>3, SubsStand
    <2> QED BY <1>1, <1>2, <2>4, RosterRests
  <1>4. CASE Throw(r)
    <2>1. \A s \in DOMAIN sub' : Stands(sub'[s], role, version)
      BY <1>4 DEF Throw, FitInv, Standing
    <2> QED BY <1>1, <1>2, <2>1, RosterRests
  <1> QED BY <1>3, <1>4

\* The last approval of a registration finds the team it names, that of a change puts the
\* player in who gave it and whoever he replaces on the bench.
LEMMA ApproveFits ==
    ASSUME Steady, TypeInv, Inv, FitInv, captain # "nobody", NEW p \in Players,
           NEW s \in DOMAIN sub, Approve(p, s)
    PROVE  FitInv' /\ Asked
  <1> DEFINE approved == [sub[s] EXCEPT !.answer[p] = "APPROVED"]
             completed == [approved EXCEPT !.status = "COMPLETED"]
  <1>0. /\ sub[s] \in Submissions /\ CanApprove(p, s) /\ Fits /\ role \in Rosters
        /\ Led(captain, ownerAs, role) /\ UNCHANGED <<captain, req>>
    BY SubsOf DEF Approve, FitInv, Inv, TypeInv
  <1>1. /\ approved \in Submissions
        /\ approved.version = sub[s].version /\ approved.kind = sub[s].kind
        /\ approved.playing = sub[s].playing /\ approved.remove = sub[s].remove
        /\ approved.status = sub[s].status
        /\ \A q \in Players : approved.answer[q] = IF q = p THEN "APPROVED" ELSE sub[s].answer[q]
    BY <1>0 DEF Submissions
  <1>2. /\ completed.status = "COMPLETED" /\ completed.answer = approved.answer
        /\ completed.version = sub[s].version
    BY <1>1, StatusOf DEF SubmissionStatus
  <1>3. CASE sub' = [sub EXCEPT ![s] = approved] /\ UNCHANGED <<role, version, reg>>
    <2> HIDE DEF approved, completed
    <2>1. /\ DOMAIN sub' = DOMAIN sub /\ sub'[s] = approved
          /\ \A i \in DOMAIN sub \ {s} : sub'[i] = sub[i]
      BY <1>3
    <2>2. \A i \in DOMAIN sub' : Stands(sub'[i], role, version)
      BY <1>1, <2>1, SubsStand
    <2> QED BY <1>0, <1>3, <2>2, RosterRests
  <1>4. CASE /\ sub' = [sub EXCEPT ![s] = completed] /\ AllApproved(p, s) /\ ~InFlight(RosterOps)
    <2> HIDE DEF approved, completed
    <2>1. /\ DOMAIN sub' = DOMAIN sub /\ sub'[s] = completed
          /\ \A i \in DOMAIN sub \ {s} : sub'[i] = sub[i]
      BY <1>4
    <2>2. \A i \in Requests : Plans(req[i], role', version', reg')
      BY <1>4, NoPlans DEF InFlight
    <2>3. CASE /\ sub[s].kind # "ROSTER_CHANGE" /\ UNCHANGED <<role, version>>
      <3>1. sub[s].kind = "REGISTRATION" /\ IsCurrent(s)
        BY <1>0, <2>3, SubmissionFields DEF CanApprove, Kinds
      <3>2. Cardinality(Mains(role)) = MaxMain
        BY <3>1 DEF FitInv, Standing, Stands, IsCurrent
      <3>3. Fits'
        BY <1>0, <2>3, <3>2 DEF Fits
      <3>4. \A i \in DOMAIN sub' : Stands(sub'[i], role, version)
        BY <1>2, <2>1, SubsStand
      <3>5. FitInv'
        BY <1>0, <2>2, <2>3, <3>3, <3>4, RosterAssumption, FitsKept
      <3> QED BY <2>3, <3>5 DEF Asked
    <2>4. CASE /\ sub[s].kind = "ROSTER_CHANGE" /\ version' = version + 1 /\ UNCHANGED reg
               /\ role' = Applied(role, sub[s].playing, sub[s].remove)
      <3> DEFINE main == sub[s].playing
                 remove == sub[s].remove
                 newRole == Applied(role, main, remove)
      <3>1. /\ IsCurrent(s) /\ reg = "CONFIRMED" /\ p \in Members /\ sub[s].answer[p] = "PENDING"
            /\ s \in Active
        BY <1>0, <2>4 DEF CanApprove, IsCurrent, Active
      <3>2. /\ Cardinality(main) = MaxMain /\ remove \cap main = {}
            /\ p \in main \ Mains(role) /\ main \ {p} \subseteq Mains(role)
        <4>1. Stands(sub[s], role, version)
          BY DEF FitInv, Standing
        <4>2. PICK a \in main \ Mains(role) :
                  /\ main \ {a} \subseteq Mains(role)
                  /\ \A q \in Players : sub[s].answer[q] = "PENDING" => q = a
          BY <2>4, <3>1, <4>1 DEF Stands, IsCurrent
        <4>3. p = a
          BY <3>1, <4>2
        <4> QED BY <2>4, <3>1, <4>1, <4>2, <4>3 DEF Stands, IsCurrent
      <3>3. KeepsOwner(captain, ownerAs, main, remove)
        BY <2>4, <3>1 DEF Inv, SoundSubs, Sound, IsCurrent
      <3>4. role[p] = "SUBSTITUTE"
        <4>1. role[p] \in {"PLAYER", "CAPTAIN", "MANAGER", "SUBSTITUTE", "NONE"}
          BY RolesAre DEF TeamMemberRole
        <4>2. role[p] # "NONE" /\ role[p] \notin {"PLAYER", "CAPTAIN"}
          BY <3>1, <3>2 DEF Members, Mains
        <4>3. role[p] # "MANAGER"
          <5>1. p = captain => ownerAs = "LEADER"
            BY <3>2, <3>3 DEF KeepsOwner
          <5> QED BY <1>0, <5>1 DEF Led
        <4> QED BY <4>1, <4>2, <4>3
      <3>5. main \subseteq Players
        BY <1>0, SubmissionFields
      <3>6. Lineup(main, role)
        BY <3>2, <3>4 DEF Lineup, Mains
      <3>7. Mains(newRole) = main /\ Subs(newRole) \subseteq (Subs(role) \ main) \cup (Mains(role) \ main)
        BY <3>2, <3>5, <3>6, AppliedRoster
      <3>8. Subs(role) \subseteq main
        BY <1>0, <3>2, <3>4 DEF Fits, AtMostOne, Subs
      <3>9. AtMostOne(Mains(role) \ main)
        <4>1. IsFiniteSet(main)
          BY <3>5, RosterAssumption, FS_Subset
        <4>2. Cardinality(Mains(role)) = Cardinality(main)
          BY <1>0, <3>1, <3>2 DEF Fits, Registered
        <4> HIDE DEF main
        <4> QED BY <3>2, <4>1, <4>2, SetsAreFinite, OneOut
      <3>10. role' = newRole
        BY <2>4
      <3> HIDE DEF newRole, main
      <3>11. Fits'
        <4>1. AtMostOne(Subs(newRole))
          BY <3>7, <3>8, <3>9 DEF AtMostOne
        <4>2. Cardinality(Mains(newRole)) <= MaxMain /\ Cardinality(Mains(newRole)) = MaxMain
          BY <3>2, <3>7, RosterAssumption
        <4> QED BY <3>10, <4>1, <4>2 DEF Fits
      <3>12. \A i \in DOMAIN sub' : Stands(sub'[i], role', version')
        <4>1. \A i \in DOMAIN sub : sub'[i].version = sub[i].version
          BY <1>2, <2>1
        <4> QED BY <2>1, <2>4, <4>1, NoneStands
      <3>13. FitInv'
        BY <1>0, <2>2, <3>11, <3>12, RosterAssumption, FitsKept
      <3>14. \A q \in Mains(role') \ Mains(role) : Agreed(s, q)
        <4>1. sub'[s].status = "COMPLETED" /\ \A q \in Players : sub'[s].answer[q] \in {"NONE", "APPROVED"}
          BY <1>1, <1>2, <1>4, <2>1 DEF AllApproved
        <4> QED BY <3>7, <3>10, <4>1 DEF Agreed, main
      <3> QED BY <3>1, <3>13, <3>14 DEF Asked
    <2> QED BY <1>4, <2>3, <2>4 DEF Approve, completed, approved
  <1>5. \/ sub' = [sub EXCEPT ![s] = approved] /\ UNCHANGED <<role, version, reg>>
        \/ sub' = [sub EXCEPT ![s] = completed] /\ AllApproved(p, s) /\ ~InFlight(RosterOps)
    BY DEF Approve, Steady, Ordered
  <1> QED BY <1>3, <1>4, <1>5

LEMMA DeclineFits ==
    ASSUME TypeInv, FitInv, captain # "nobody", NEW p \in Players, NEW s \in DOMAIN sub,
           Decline(p, s)
    PROVE  FitInv' /\ Asked
  <1> DEFINE declined == [sub[s] EXCEPT !.answer[p] = "DECLINED"]
             cancelled == [sub[s] EXCEPT !.answer[p] = "DECLINED", !.status = "CANCELLED"]
  <1>0. sub[s] \in Submissions
    BY SubsOf
  <1>1. /\ declined.version = sub[s].version /\ declined.kind = sub[s].kind
        /\ declined.playing = sub[s].playing /\ declined.remove = sub[s].remove
        /\ declined.status = sub[s].status
        /\ \A q \in Players : declined.answer[q] = IF q = p THEN "DECLINED" ELSE sub[s].answer[q]
    BY <1>0 DEF Submissions
  <1>2. cancelled.status # "ACTIVE"
    BY <1>0 DEF Submissions
  <1>3. /\ UNCHANGED <<captain, role, version, req>>
        /\ sub' = [sub EXCEPT ![s] = declined] \/ sub' = [sub EXCEPT ![s] = cancelled]
        /\ reg' = reg \/ reg' \notin Holders
    BY DEF Decline, Holders
  <1> HIDE DEF declined, cancelled
  <1>4. /\ DOMAIN sub' = DOMAIN sub /\ sub'[s] \in {declined, cancelled}
        /\ \A i \in DOMAIN sub \ {s} : sub'[i] = sub[i]
    BY <1>3
  <1>5. \A i \in DOMAIN sub' : Stands(sub'[i], role, version)
    BY <1>1, <1>2, <1>4, SubsStand
  <1> QED BY <1>3, <1>5, RosterRests

LEMMA AnswerFits ==
    ASSUME Steady, TypeInv, Inv, FitInv, captain # "nobody", NEW p \in Players, Answer(p)
    PROVE  FitInv' /\ Asked
  <1>1. CASE AnswerJoin(p) \/ \E wantsSub \in BOOLEAN : JoinAsk(p, wantsSub)
    <2>1. UNCHANGED <<captain, ownerAs, role, accepting, version, reg, lock, sub, req>>
      BY <1>1 DEF AnswerJoin, JoinAsk
    <2> QED BY <2>1, RosterRests DEF FitInv, Standing
  <1> QED BY <1>1, ApproveJoinFits, AcceptFits, ApproveFits, DeclineFits DEF Answer

\* Nothing is on its way about the roster of a team that waits for a slot, and a team that
\* gets one is as it was when it began to wait.
LEMMA TeamFits ==
    ASSUME Steady, TypeInv, FitInv, captain # "nobody",
           CancelRegistration \/ Withdraw \/ Promote \/ ToggleSubstitutes \/ LockBegins
    PROVE  FitInv' /\ Asked
  <1>0. UNCHANGED <<captain, role, version, req>> /\ (UNCHANGED sub \/ sub' = Closed("CANCELLED"))
    BY DEF CancelRegistration, Withdraw, Promote, ToggleSubstitutes, LockBegins
  <1>1. \A s \in DOMAIN sub' : Stands(sub'[s], role, version)
    <2>1. CASE UNCHANGED sub
      BY <2>1 DEF FitInv, Standing
    <2>2. CASE sub' = Closed("CANCELLED")
      BY <2>2, Closing, SubsStand DEF SubmissionStatus
    <2> QED BY <1>0, <2>1, <2>2
  <1>2. CASE reg' = reg \/ reg' \notin Holders
    BY <1>0, <1>1, <1>2, RosterRests
  <1>3. CASE Promote
    <2>1. reg = "WAITLISTED" /\ reg' = "CONFIRMED"
      BY <1>3 DEF Promote
    <2>2. \A r \in Requests : Plans(req[r], role', version', reg')
      <3>1. \A r \in Requests : req[r].op \notin RosterOps
        BY <2>1 DEF FitInv, Planned, Plans
      <3> QED BY <3>1, NoPlans
    <2>3. Fits'
      BY <1>0, <2>1 DEF FitInv, Fits, Registered
    <2>4. FitInv'
      BY <1>0, <1>1, <2>2, <2>3, FitsKept
    <2> QED BY <1>0, <2>4 DEF Asked
  <1>4. reg' = reg \/ reg' \notin Holders \/ Promote
    BY DEF CancelRegistration, Withdraw, ToggleSubstitutes, LockBegins, Holders
  <1> QED BY <1>2, <1>3, <1>4

\* The first member fits where somebody is to play; a manager plays nowhere.
LEMMA CreateFits ==
    ASSUME TypeInv, Inv, FitInv, captain = "nobody", Create
    PROVE  FitInv' /\ Asked
  <1>1. PICK p \in Players, owner \in {"LEADER", "MANAGER"}, takesSubs \in BOOLEAN :
            CreateTeam(p, owner, takesSubs)
    BY DEF Create
  <1>2. captain' = p /\ p # "nobody" /\ UNCHANGED <<reg, sub, req>> /\ reg = "FORMING"
    BY <1>1, RosterAssumption DEF CreateTeam, FitInv
  <1>3. Mains(role') \subseteq {p} /\ Subs(role') = {}
    BY <1>1 DEF CreateTeam, Inv, Unborn, Mains, Subs
  <1>4. Fits'
    <2>1. IsFiniteSet({p}) /\ Cardinality({p}) = 1
      BY FS_Singleton
    <2>2. Cardinality(Mains(role')) <= 1 /\ Cardinality(Mains(role')) \in Nat
      BY <1>3, <2>1, FS_Subset, SetsAreFinite
    <2> QED BY <1>2, <1>3, <2>2, RosterAssumption DEF Fits, AtMostOne, Registered
  <1>5. Planned' /\ Standing'
    <2>1. sub' = <<>> /\ \A r \in Requests : req'[r].op = "none"
      BY <1>2 DEF Inv, Unborn
    <2> QED BY <2>1, NoPlans DEF Planned, Standing, RosterOps
  <1> QED BY <1>2, <1>4, <1>5 DEF FitInv, Asked

LEMMA NextFits ==
    ASSUME Steady, TypeInv, Inv, FitInv, [Next]_vars
    PROVE  FitInv' /\ (Next => Asked)
  <1>1. CASE UNCHANGED vars
    <2>1. UNCHANGED <<captain, role, version, reg, sub, req>>
      BY <1>1 DEF vars
    <2> QED BY <2>1 DEF FitInv, Fits, Planned, Standing, Registered, Asked
  <1>2. CASE captain = "nobody" /\ Create
    BY <1>2, CreateFits
  <1>3. CASE captain # "nobody" /\ Operate
    <2>1. ASSUME NEW r \in Requests, Write(r)
          PROVE  FitInv' /\ Asked
      BY <1>3, <2>1, JoinFits, DropFits, TransferFits, SwapFits, ChangeApplyFits,
         RegisterSubmitFits, FinalizeFits, ChangeSubmitFits, CloseFits DEF Write
    <2> QED BY <1>3, <2>1, ReadFits, AnswerFits, TeamFits DEF Operate
  <1> QED BY <1>1, <1>2, <1>3 DEF Next

LEMMA FitsHold ==
    ASSUME Steady
    PROVE  Spec => [](TypeInv /\ Inv /\ FitInv)
  <1>1. Init => FitInv
    BY DEF Init, FitInv
  <1>2. TypeInv /\ Inv /\ FitInv /\ [Next]_vars => FitInv'
    BY NextFits
  <1>3. Ordered
    BY DEF Steady
  <1> QED BY <1>1, <1>2, <1>3, InvHolds, PTL DEF Spec

\* No more players and no more substitutes than a team has places for, and in a team with
\* a slot as many as must play: RosterFits, under the orders of CaptainLeads and as long
\* as no substitute is made captain and no invitation to a full or registered team accepted.
THEOREM RostersFit ==
    ASSUME Env \cap {"rosterRace", "changeRace", "confirmRace", "subLeads", "uncounted"} = {}
    PROVE  Spec => []RosterFits
  <1>1. TypeInv /\ FitInv /\ Inv => RosterFits
    <2> SUFFICES ASSUME TypeInv, FitInv, Inv
                 PROVE  RosterFits
      OBVIOUS
    <2>1. Fits
      <3>1. CASE captain = "nobody"
        <4>1. Mains(role) = {} /\ Subs(role) = {} /\ reg = "FORMING"
          BY <3>1 DEF FitInv, Inv, Unborn, Mains, Subs
        <4>2. Cardinality(Mains(role)) = 0
          BY <4>1, FS_EmptySet
        <4> QED BY <4>1, <4>2, RosterAssumption DEF Fits, AtMostOne, Registered
      <3>2. CASE captain # "nobody"
        BY <3>2 DEF FitInv
      <3> QED BY <3>1, <3>2
    <2>2. Cardinality(Subs(role)) <= 1
      <3>1. CASE Subs(role) = {}
        BY <3>1, FS_EmptySet
      <3>2. CASE Subs(role) # {}
        <4>1. PICK p : Subs(role) = {p}
          BY <2>1, <3>2 DEF Fits, AtMostOne
        <4>2. Cardinality({p}) = 1
          BY FS_Singleton
        <4> QED BY <4>1, <4>2
      <3> QED BY <3>1, <3>2
    <2> QED BY <2>1, <2>2 DEF Fits, RosterFits
  <1>2. Steady
    BY DEF Steady, Ordered
  <1> QED BY <1>1, <1>2, FitsHold, PTL

\* The approvals that wait are approvals of the roster that plays: ApprovalsMatchRoster,
\* under the same orders.
THEOREM ApprovalsMatch ==
    ASSUME Env \cap {"rosterRace", "changeRace", "confirmRace", "subLeads", "uncounted"} = {}
    PROVE  Spec => []ApprovalsMatchRoster
  <1>1. Inv /\ FitInv => ApprovalsMatchRoster
    <2> SUFFICES ASSUME Inv, FitInv
                 PROVE  ApprovalsMatchRoster
      OBVIOUS
    <2>1. CASE captain = "nobody"
      BY <2>1 DEF Inv, Unborn, ApprovalsMatchRoster, Active
    <2>2. CASE captain # "nobody"
      BY <2>2 DEF FitInv, Standing, Stands, ApprovalsMatchRoster, Active
    <2> QED BY <2>1, <2>2
  <1>2. Steady
    BY DEF Steady, Ordered
  <1> QED BY <1>1, <1>2, FitsHold, PTL

-----------------------------------------------------------------------------
(* The lock                                                                  *)

Unlocked == "lockRace" \notin Env

\* A request about the roster of a confirmed team has seen it open, and it still is.
LockInv == \A r \in Requests : req[r].op \in Moves /\ reg = "CONFIRMED" => lock = "OPEN"

\* A request does not begin, the team is not confirmed and the lock does not begin.
LEMMA LockRests ==
    ASSUME LockInv, UNCHANGED lock, reg' = "CONFIRMED" => reg = "CONFIRMED",
           \A r \in Requests : req'[r].op \in Moves => req'[r] = req[r]
    PROVE  LockInv'
  BY DEF LockInv

LEMMA NextLocks ==
    ASSUME Steady, Unlocked, TypeInv, Inv, FitInv, LockInv, captain # "nobody", Operate
    PROVE  LockInv'
  <1>0. NoRequest.op \notin Moves
    BY NoFlight DEF Moves
  <1>1. ASSUME NEW r \in Requests, Done(r)
        PROVE  \A s \in Requests : req'[s].op \in Moves => req'[s] = req[s]
    BY <1>0, <1>1, Ends
  <1>2. ASSUME NEW r \in Requests, Read(r)
        PROVE  LockInv'
    <2>1. PICK f \in Flights :
              Begun(r, f) /\ (f.op \in Moves /\ reg = "CONFIRMED" => lock = "OPEN")
      BY <1>2, ReadBegins DEF Admitted, MayGo, Moves
    <2>2. /\ UNCHANGED <<reg, lock>> /\ req'[r] = f
          /\ \A s \in Requests \ {r} : req'[s] = req[s]
      BY <2>1, Begins DEF Begun
    <2> QED BY <2>1, <2>2 DEF LockInv
  <1>3. ASSUME NEW r \in Requests, Write(r)
        PROVE  LockInv'
    <2>1. CASE RegisterFinalize(r)
      <3>1. Done(r) /\ \A s \in Requests \ {r} : req[s].op \notin RosterOps
        BY <2>1 DEF RegisterFinalize, Steady, Ordered
      <3>2. \A s \in Requests : req'[s].op \notin Moves
        BY <1>0, <3>1, Ends DEF Moves, RosterOps
      <3> QED BY <3>2 DEF LockInv
    <2>2. CASE ~RegisterFinalize(r)
      <3>1. Done(r) /\ UNCHANGED lock /\ (reg' = "CONFIRMED" => reg = "CONFIRMED")
        BY <1>3, <2>2 DEF Write, JoinWrite, DropWrite, TransferWrite, RosterWrite, Throw,
           RegisterSubmit, ChangeApply, ChangeSubmit, CloseWrite, HandleRosterChange
      <3> QED BY <1>1, <3>1, LockRests
    <2> QED BY <2>1, <2>2
  <1>4. ASSUME NEW p \in Players, Answer(p)
        PROVE  LockInv'
    <2>1. UNCHANGED <<lock, req>>
      BY <1>4 DEF Answer, AnswerJoin, JoinAsk, ApproveJoin, AcceptInvitation, Approve, Decline
    <2>2. CASE reg' = "CONFIRMED" => reg = "CONFIRMED"
      BY <2>1, <2>2, LockRests
    <2>3. CASE \A r \in Requests : req[r].op \notin RosterOps
      <3>1. \A r \in Requests : req'[r].op \notin Moves
        BY <2>1, <2>3 DEF Moves, RosterOps
      <3> QED BY <3>1 DEF LockInv
    <2>4. \/ reg' = "CONFIRMED" => reg = "CONFIRMED"
          \/ \A r \in Requests : req[r].op \notin RosterOps
      BY <1>4 DEF Answer, AnswerJoin, JoinAsk, ApproveJoin, AcceptInvitation, Approve, Decline, HandleRosterChange,
         Steady, Ordered, InFlight
    <2> QED BY <2>2, <2>3, <2>4
  <1>5. CASE Promote \/ LockBegins
    <2>1. UNCHANGED req /\ \A r \in Requests : req[r].op \notin RosterOps
      <3>1. CASE Promote
        BY <3>1 DEF Promote, FitInv, Planned, Plans
      <3>2. CASE LockBegins
        BY <3>2 DEF LockBegins, Unlocked, InFlight
      <3> QED BY <1>5, <3>1, <3>2
    <2>2. \A r \in Requests : req'[r].op \notin Moves
      BY <2>1 DEF Moves, RosterOps
    <2> QED BY <2>2 DEF LockInv
  <1>6. CASE CancelRegistration \/ Withdraw \/ ToggleSubstitutes
    <2>1. UNCHANGED <<lock, req>> /\ (reg' = "CONFIRMED" => reg = "CONFIRMED")
      BY <1>6 DEF CancelRegistration, Withdraw, ToggleSubstitutes
    <2> QED BY <2>1, LockRests
  <1> QED BY <1>2, <1>3, <1>4, <1>5, <1>6 DEF Operate

\* The roster of a confirmed team changes only while the lock has not begun.
LEMMA LockedStays ==
    ASSUME Steady, TypeInv, Inv, LockInv, captain # "nobody", Operate,
           reg = "CONFIRMED", lock = "LOCKED"
    PROVE  UNCHANGED role
  <1>1. ASSUME NEW r \in Requests, Read(r)
        PROVE  UNCHANGED role
    <2>1. PICK f \in Flights : Begun(r, f)
      BY <1>1, ReadBegins
    <2> QED BY <2>1, Begins DEF Begun
  <1>2. ASSUME NEW r \in Requests, Write(r)
        PROVE  UNCHANGED role
    <2>1. req[r].op \notin Moves \cup {"roster", "transfer"}
      BY Others DEF LockInv, Knows, Holders
    <2> QED BY <1>2, <2>1 DEF Write, JoinWrite, DropWrite, TransferWrite, RosterWrite, Throw,
          RegisterSubmit, RegisterFinalize, ChangeApply, ChangeSubmit, CloseWrite, Moves
  <1>3. ASSUME NEW p \in Players, Answer(p)
        PROVE  UNCHANGED role
    BY <1>3 DEF Answer, AnswerJoin, JoinAsk, ApproveJoin, AcceptInvitation, Approve, CanApprove,
       Decline, Registered, Steady
  <1>4. CASE CancelRegistration \/ Withdraw \/ Promote \/ ToggleSubstitutes \/ LockBegins
    BY <1>4 DEF CancelRegistration, Withdraw, Promote, ToggleSubstitutes, LockBegins
  <1> QED BY <1>1, <1>2, <1>3, <1>4 DEF Operate

\* In a confirmed team nobody starts to play who has not approved a change that all have
\* approved, and after the lock nothing changes: NobodyPlaysUnasked, under the same orders
\* and as long as the lock finds no request about the roster on its way.
THEOREM PlaysOnlyWhoAgreed ==
    ASSUME Env \cap {"rosterRace", "changeRace", "confirmRace", "subLeads", "uncounted",
                  "lockRace"} = {}
    PROVE  Spec => NobodyPlaysUnasked
  <1>0. Steady /\ Unlocked
    BY DEF Steady, Ordered, Unlocked
  <1>1. Init => LockInv
    BY NoFlight DEF Init, LockInv, Moves
  <1>2. TypeInv /\ Inv /\ FitInv /\ LockInv /\ [Next]_vars => LockInv'
    <2> SUFFICES ASSUME TypeInv, Inv, FitInv, LockInv, [Next]_vars
                 PROVE  LockInv'
      OBVIOUS
    <2>1. CASE UNCHANGED vars
      <3>1. UNCHANGED <<reg, lock, req>>
        BY <2>1 DEF vars
      <3> QED BY <3>1 DEF LockInv
    <2>2. CASE captain = "nobody" /\ Create
      <3>1. UNCHANGED <<reg, lock, req>>
        BY <2>2 DEF Create, CreateTeam
      <3> QED BY <3>1 DEF LockInv
    <2> QED BY <1>0, <2>1, <2>2, NextLocks DEF Next
  <1>3. TypeInv /\ Inv /\ FitInv /\ LockInv /\ [Next]_vars =>
            [reg = "CONFIRMED" =>
                /\ reg' = "CONFIRMED" =>
                       \A p \in Mains(role') \ Mains(role) : \E s \in Active : Agreed(s, p)
                /\ lock = "LOCKED" => role' = role]_vars
    <2> SUFFICES ASSUME TypeInv, Inv, FitInv, LockInv, Next, reg = "CONFIRMED"
                 PROVE  Asked /\ (lock = "LOCKED" => role' = role)
      BY DEF Asked
    <2>1. captain # "nobody" /\ Operate
      BY DEF FitInv, Next
    <2>2. Asked
      BY <1>0, NextFits
    <2> QED BY <1>0, <2>1, <2>2, LockedStays
  <1> QED BY <1>0, <1>1, <1>2, <1>3, FitsHold, PTL DEF Spec, NobodyPlaysUnasked

=============================================================================
