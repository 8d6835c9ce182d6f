--------------------------- MODULE MCTeams_proofs ---------------------------
(***************************************************************************)
(* Proofs about the persistent squad, for any number of players and        *)
(* requests and any roster size.  The squad is the instance that MCTeams   *)
(* composes with the roster of the tournament's team; what is proved of    *)
(* its own specification holds of the composition as well, since a part    *)
(* that rests stutters.                                                    *)
(***************************************************************************)
EXTENDS MCTeams, FiniteSetTheorems, TLAPS

LEMMA Sizes ==
    /\ IsFiniteSet(Players) /\ "nobody" \notin Players
    /\ MaxMain \in Nat \ {0} /\ MaxSubs \in Nat \ {0}
  BY RosterAssumption, SubsAssumption

\* The cardinality that the instance brings along is the one of FiniteSets.
LEMMA SameCardinality == \A S : Sq!Cardinality(S) = Cardinality(S)
  BY DEF Sq!Cardinality, Cardinality

\* On the variables of each part, a behaviour of the composition is one of that part's own
\* specification: what is proved of the parts holds of the whole that the runs explore.
THEOREM EachPartRuns == SpecAll => Spec /\ Sq!Spec
  <1>1. InitAll => Init /\ Sq!Init
    BY DEF InitAll
  <1>2. [NextAll]_allVars => [Next]_vars
    BY DEF NextAll, allVars, Roster, Squad
  <1>3. [NextAll]_allVars => [Sq!Next]_(Sq!vars)
    BY DEF NextAll, allVars, sqVars, Sq!vars, Roster, Squad, Sq!Next
  <1> QED
    BY <1>1, <1>2, <1>3, PTL DEF SpecAll, Spec, Sq!Spec

-----------------------------------------------------------------------------
(* What a request knows, and types.                                          *)

Request == [pc : {"idle", "write", "sync", "syncWrite"}, op : Sq!Operations, who : Sq!Anyone,
            other : Sq!Anyone, row : Sq!Rows, new : Sq!Rows, full : BOOLEAN]

Writing(r) == sqReq[r].pc = "write"

\* A request about to write is about players, and a row it inserts or changes is one.
Attributed ==
    \A r \in Requests : Writing(r) =>
        /\ sqReq[r].op # "none" /\ sqReq[r].who \in Players
        /\ sqReq[r].op \in {"transfer", "swap"} => sqReq[r].other \in Players
        /\ sqReq[r].op \in {"join", "role"} => sqReq[r].new.role # "NONE"

\* Nothing happens to a squad before it is created.
NotBorn ==
    leader = "nobody" =>
        /\ \A p \in Players : ~Sq!In(p) /\ invitation[p] = "NONE"
        /\ \A r \in Requests : sqReq[r].pc = "idle"
        /\ waitlist = "NONE"

SquadTypeInv == Sq!TypeOK /\ Attributed /\ NotBorn

TeamRows == [Players -> Sq!TeamMemberRole \cup {"NONE"}]

\* Rows, requests and fields of requests.
LEMMA Records ==
    /\ Sq!NoMember \in Sq!Rows /\ Sq!NoRequest \in Request
    /\ Sq!NoRequest.pc = "idle" /\ Sq!NoRequest.op = "none" /\ Sq!NoMember.role = "NONE"
    /\ \A x \in Request : [x EXCEPT !.pc = "sync"] \in Request /\ [x EXCEPT !.pc = "sync"].pc = "sync"
    /\ \A row \in Sq!Rows : row = [role |-> row.role, roster |-> row.roster]
                            /\ row.role \in Sq!SquadRole \cup {"NONE"} /\ row.roster \in Sq!SquadRosterType
    /\ Sq!TypeOK => sqReq \in [Requests -> Request]
  BY DEF Sq!NoMember, Sq!Rows, Sq!NoRequest, Request, Sq!Anyone, Sq!Operations, Sq!SquadRole,
     Sq!SquadRosterType, Sq!TypeOK

\* A read-only step of a request that is idle: it begins, the others stay.
LEMMA BeginShape ==
    ASSUME Sq!TypeOK, NEW r \in Requests, NEW op, NEW who, NEW other, NEW row, NEW new,
           Sq!Begin(r, op, who, other, row, new)
    PROVE  /\ sqReq[r].pc = "idle"
           /\ sqReq' = [sqReq EXCEPT ![r] = [pc |-> "write", op |-> op, who |-> who, other |-> other,
                                             row |-> row, new |-> new, full |-> FALSE]]
           /\ sqReq'[r] = [pc |-> "write", op |-> op, who |-> who, other |-> other,
                           row |-> row, new |-> new, full |-> FALSE]
           /\ \A s \in Requests : s # r => sqReq'[s] = sqReq[s]
           /\ UNCHANGED <<leader, squadOwnerAs, member, live, squadCaptain, team, invitation, waitlist>>
  BY DEF Sq!Begin, Sq!roster, Sq!tournament, Sq!TypeOK

\* A request that ends, or leaves its refresh to do; the others stay.
LEMMA EndShape ==
    ASSUME Sq!TypeOK, NEW r \in Requests, Sq!Done(r) \/ Sq!ThenSync(r)
    PROVE  /\ sqReq' \in [Requests -> Request]
           /\ sqReq'[r].pc \in {"idle", "sync"}
           /\ Sq!Done(r) => sqReq'[r].pc = "idle"
           /\ Sq!ThenSync(r) => sqReq'[r].pc = "sync"
           /\ \A s \in Requests : s # r => sqReq'[s] = sqReq[s]
           /\ \A s \in Requests : Writing(s)' => s # r /\ sqReq'[s] = sqReq[s]
  <1> DEFINE x == [Sq!NoRequest EXCEPT !.pc = "sync"]
  <1>1. x \in Request /\ x.pc = "sync" /\ Sq!NoRequest \in Request /\ Sq!NoRequest.pc = "idle"
    BY Records
  <1>2. sqReq \in [Requests -> Request]
    BY Records
  <1>3. sqReq' = [sqReq EXCEPT ![r] = Sq!NoRequest] \/ sqReq' = [sqReq EXCEPT ![r] = x]
    BY DEF Sq!Done, Sq!ThenSync
  <1>4. (Sq!Done(r) => sqReq'[r] = Sq!NoRequest) /\ (Sq!ThenSync(r) => sqReq'[r] = x)
    BY <1>2 DEF Sq!Done, Sq!ThenSync
  <1> HIDE DEF x
  <1> QED
    BY <1>1, <1>2, <1>3, <1>4 DEF Writing

\* A player leaves: his request and every removal that holds his row's id end.
LEMMA ForgetShape ==
    ASSUME Sq!TypeOK, NEW r \in Requests, NEW p \in Players,
           sqReq' = [Sq!Forget(p) EXCEPT ![r] = [Sq!NoRequest EXCEPT !.pc = "sync"]]
    PROVE  /\ sqReq' \in [Requests -> Request]
           /\ sqReq'[r].pc = "sync"
           /\ \A s \in Requests : s # r => sqReq'[s] = sqReq[s] \/ (sqReq'[s] = Sq!NoRequest /\ Writing(s))
           /\ \A s \in Requests : Writing(s)' => s # r /\ sqReq'[s] = sqReq[s]
                                                 /\ ~(sqReq[s].op = "drop" /\ sqReq[s].who = p)
  <1> DEFINE x == [Sq!NoRequest EXCEPT !.pc = "sync"]
  <1>1. x \in Request /\ x.pc = "sync" /\ Sq!NoRequest \in Request /\ Sq!NoRequest.pc = "idle"
    BY Records
  <1>2. sqReq \in [Requests -> Request]
    BY Records
  <1> HIDE DEF x
  <1>3. sqReq' = [Sq!Forget(p) EXCEPT ![r] = x]
    BY DEF x
  <1>4. Sq!Forget(p) \in [Requests -> Request]
    BY <1>1, <1>2 DEF Sq!Forget
  <1>5. \A s \in Requests : sqReq'[s] = IF s = r THEN x ELSE Sq!Forget(p)[s]
    BY <1>3, <1>4
  <1>6. sqReq' \in [Requests -> Request]
    BY <1>1, <1>3, <1>4
  <1>7. \A s \in Requests : Sq!Forget(p)[s] = IF sqReq[s].op = "drop" /\ sqReq[s].who = p /\ sqReq[s].pc = "write"
                                               THEN Sq!NoRequest ELSE sqReq[s]
    BY DEF Sq!Forget
  <1> QED
    BY <1>1, <1>2, <1>5, <1>6, <1>7 DEF Writing

-----------------------------------------------------------------------------

\* A step in which no request starts to write keeps what is known of requests.
LEMMA NoneStarts ==
    ASSUME SquadTypeInv, sqReq' \in [Requests -> Request],
           \A s \in Requests : Writing(s)' => sqReq'[s] = sqReq[s]
    PROVE  Attributed'
  BY DEF SquadTypeInv, Attributed, Writing

\* The fields of the squad and of its requests, for a request that begins.
LEMMA BeginTyped ==
    ASSUME SquadTypeInv, leader # "nobody", NEW r \in Requests,
           NEW op \in Sq!Operations \ {"none"}, NEW who \in Players, NEW other \in Sq!Anyone,
           NEW row \in Sq!Rows, NEW new \in Sq!Rows,
           op \in {"transfer", "swap"} => other \in Players,
           op \in {"join", "role"} => new.role # "NONE",
           Sq!Begin(r, op, who, other, row, new)
    PROVE  SquadTypeInv'
  <1> DEFINE x == [pc |-> "write", op |-> op, who |-> who, other |-> other,
                   row |-> row, new |-> new, full |-> FALSE]
  <1>1. Sq!TypeOK
    BY DEF SquadTypeInv
  <1>2. x \in Request
    BY DEF Request, Sq!Anyone
  <1>3. sqReq' = [sqReq EXCEPT ![r] = x] /\ sqReq \in [Requests -> Request]
    BY <1>1, Records DEF Sq!Begin
  <1>4. UNCHANGED <<leader, squadOwnerAs, member, live, squadCaptain, team, invitation, waitlist>>
    BY <1>1, BeginShape
  <1>5. sqReq' \in [Requests -> Request]
    BY <1>2, <1>3
  <1>6. Sq!TypeOK'
    BY <1>1, <1>4, <1>5 DEF Sq!TypeOK, Request
  <1>7. sqReq'[r].op = op /\ sqReq'[r].who = who /\ sqReq'[r].other = other /\ sqReq'[r].new = new
    BY <1>3
  <1>8. \A s \in Requests : s # r => sqReq'[s] = sqReq[s]
    BY <1>3
  <1>9. Attributed'
    BY <1>7, <1>8 DEF SquadTypeInv, Attributed, Writing
  <1> QED
    BY <1>4, <1>6, <1>9 DEF SquadTypeInv, NotBorn

\* A step after which requests and rows have their types and no new request writes.
LEMMA StepTyped ==
    ASSUME SquadTypeInv, leader' \in Players, UNCHANGED squadOwnerAs, member' \in [Players -> Sq!Rows],
           live' \in BOOLEAN, squadCaptain' \in Sq!Anyone, team' \in TeamRows,
           invitation' \in [Players -> Sq!InvitationStatus \cup {"NONE"}],
           waitlist' \in {"NONE", "WAITLISTED", "CONFIRMED"},
           sqReq' \in [Requests -> Request], \A s \in Requests : Writing(s)' => sqReq'[s] = sqReq[s]
    PROVE  SquadTypeInv'
  <1>1. Attributed'
    BY NoneStarts
  <1>2. Sq!TypeOK'
    BY DEF SquadTypeInv, Sq!TypeOK, Request, Sq!Anyone, TeamRows
  <1>3. NotBorn'
    BY Sizes DEF NotBorn
  <1> QED
    BY <1>1, <1>2, <1>3 DEF SquadTypeInv

\* Who is in the squad has a row; the owner's role and a row of the team are rows.
LEMMA RowsTyped ==
    ASSUME Sq!TypeOK
    PROVE  /\ \A p \in Players : member[p] \in Sq!Rows /\ Sq!RowOf(p) \in Sq!Rows
           /\ \A as \in Sq!SquadRole, type \in Sq!SquadRosterType :
                 [role |-> as, roster |-> type] \in Sq!Rows
           /\ squadOwnerAs \in Sq!SquadRole /\ "MEMBER" \in Sq!SquadRole
           /\ "MAIN" \in Sq!SquadRosterType /\ "SUBSTITUTE" \in Sq!SquadRosterType
           /\ Sq!NoMember \in Sq!Rows
  BY DEF Sq!TypeOK, Sq!Rows, Sq!RowOf, Sq!SquadRole, Sq!SquadRosterType, Sq!NoMember

LEMMA CreateTyped ==
    ASSUME SquadTypeInv, Sq!Create \/ Sq!SyncTeamToSquad
    PROVE  SquadTypeInv'
  <1>1. Sq!TypeOK
    BY DEF SquadTypeInv
  <1>2. ASSUME NEW p \in Players, Sq!CreateSquad(p)
        PROVE  leader' \in Players /\ UNCHANGED <<squadOwnerAs, Sq!tournament, sqReq>>
               /\ member' \in [Players -> Sq!Rows]
    <2>1. [role |-> squadOwnerAs, roster |-> "MAIN"] \in Sq!Rows
      BY <1>1, RowsTyped
    <2> QED
      BY <1>1, <1>2, <2>1 DEF Sq!CreateSquad, Sq!TypeOK
  <1>3. CASE Sq!SaveSquad
    <2>1. leader' \in Players /\ UNCHANGED <<squadOwnerAs, Sq!tournament, sqReq>>
      BY <1>1, <1>3 DEF Sq!SaveSquad, Sq!TypeOK, Sq!Anyone
    <2>2. member' \in [Players -> Sq!Rows]
      BY <1>1, <1>3, RowsTyped DEF Sq!SaveSquad
    <2> QED
      BY <1>1, <2>1, <2>2, StepTyped, Records DEF Sq!tournament, Sq!TypeOK, TeamRows
  <1>4. CASE Sq!SyncTeamToSquad
    <2>1. leader' \in Players /\ UNCHANGED <<squadOwnerAs, Sq!tournament, sqReq>>
      BY <1>1, <1>4 DEF Sq!SyncTeamToSquad, Sq!TypeOK, Sq!Anyone
    <2>2. PICK new \in SUBSET Players :
              member' = [q \in Players |-> IF q \in new THEN Sq!RowOf(q) ELSE member[q]]
      BY <1>4 DEF Sq!SyncTeamToSquad, Sq!TeamMembers
    <2>3. member' \in [Players -> Sq!Rows]
      BY <1>1, <2>2, RowsTyped
    <2> QED
      BY <1>1, <2>1, <2>3, StepTyped, Records DEF Sq!tournament, Sq!TypeOK, TeamRows
  <1>5. ASSUME NEW p \in Players, Sq!CreateSquad(p) PROVE SquadTypeInv'
    BY <1>1, <1>2, <1>5, StepTyped, Records DEF Sq!tournament, Sq!TypeOK, TeamRows
  <1> QED
    BY <1>3, <1>4, <1>5 DEF Sq!Create

\* A request reads: what it reads is there only once the squad is.
LEMMA ReadTyped ==
    ASSUME SquadTypeInv, NEW r \in Requests,
           Sq!InviteRead(r) \/ \E p \in Players : Sq!Start(r, p)
    PROVE  SquadTypeInv'
  <1>1. Sq!TypeOK /\ NotBorn
    BY DEF SquadTypeInv
  <1>2. /\ Sq!NoMember \in Sq!Rows /\ "nobody" \in Sq!Anyone
        /\ \A p \in Players : member[p] \in Sq!Rows /\ p \in Sq!Anyone
        /\ leader # "nobody" => leader \in Players
    BY <1>1, RowsTyped DEF Sq!Anyone, Sq!TypeOK
  <1>3. (\E p \in Players : Sq!In(p)) \/ (\E p \in Players : invitation[p] = "PENDING")
        => leader # "nobody"
    BY <1>1 DEF NotBorn
  <1>4. \A p \in Players : Sq!Manages(p) => Sq!In(p)
    BY DEF Sq!Manages, Sq!In
  <1>5. CASE Sq!InviteRead(r)
    <2>1. leader # "nobody"
      BY <1>3, <1>4, <1>5 DEF Sq!InviteRead, Sq!Manager
    <2>2. leader \in Players /\ Sq!Begin(r, "invite", leader, "nobody", Sq!NoMember, Sq!NoMember)
      BY <1>2, <1>5, <2>1 DEF Sq!InviteRead
    <2> QED
      BY <1>2, <2>1, <2>2, BeginTyped DEF Sq!Operations
  <1>6. ASSUME NEW p \in Players, Sq!Start(r, p) PROVE SquadTypeInv'
    <2>1. CASE Sq!JoinRead(r, p)
      <3>1. PICK type \in Sq!SquadRosterType :
                Sq!Begin(r, "join", p, "nobody", Sq!NoMember, [role |-> "MEMBER", roster |-> type])
        BY <2>1 DEF Sq!JoinRead
      <3>2. [role |-> "MEMBER", roster |-> type] \in Sq!Rows /\ leader # "nobody"
        BY <1>1, <2>1, RowsTyped DEF Sq!JoinRead
      <3> QED
        BY <1>2, <3>1, <3>2, BeginTyped DEF Sq!Operations
    <2>2. CASE Sq!LeaveRead(r, p) \/ Sq!RemoveRead(r, p)
      <3>1. Sq!Begin(r, "drop", p, "nobody", Sq!NoMember, Sq!NoMember) /\ leader # "nobody"
        BY <1>3, <2>2 DEF Sq!LeaveRead, Sq!RemoveRead, Sq!Removable, Sq!In
      <3> QED
        BY <1>2, <3>1, BeginTyped DEF Sq!Operations
    <2>3. CASE Sq!TransferRead(r, p)
      <3>1. Sq!Begin(r, "transfer", p, leader, member[p], Sq!NoMember) /\ leader \in Players
        BY <1>2, <1>3, <2>3 DEF Sq!TransferRead
      <3> QED
        BY <1>2, <3>1, Sizes, BeginTyped DEF Sq!Operations, Sq!Anyone
    <2>4. ASSUME NEW new \in [role : Sq!SquadRole, roster : Sq!SquadRosterType], Sq!RoleRead(r, p, new)
          PROVE  SquadTypeInv'
      <3>1. Sq!Begin(r, "role", p, "nobody", member[p], new) /\ leader # "nobody"
        BY <1>3, <2>4 DEF Sq!RoleRead
      <3>2. new \in Sq!Rows /\ new.role # "NONE"
        BY DEF Sq!Rows, Sq!SquadRole
      <3> QED
        BY <1>2, <3>1, <3>2, BeginTyped DEF Sq!Operations
    <2>5. ASSUME NEW q \in Players, Sq!SwapRead(r, p, q)
          PROVE  SquadTypeInv'
      <3>1. Sq!Begin(r, "swap", p, q, Sq!NoMember, Sq!NoMember)
        BY <2>5 DEF Sq!SwapRead
      <3>2. Sq!In(q) /\ leader # "nobody"
        BY <1>3, <2>5 DEF Sq!SwapRead, Sq!In
      <3> QED
        BY <1>2, <3>1, <3>2, BeginTyped DEF Sq!Operations
    <2>6. ASSUME NEW op \in {"accept", "reject"}, Sq!AnswerRead(r, p, op)
          PROVE  SquadTypeInv'
      <3>1. PICK o \in {op, "expire"} : Sq!Begin(r, o, p, "nobody", Sq!NoMember, Sq!NoMember)
        BY <2>6 DEF Sq!AnswerRead
      <3>2. leader # "nobody" /\ o \in Sq!Operations \ {"none"} /\ o \notin {"transfer", "swap", "join", "role"}
        BY <1>3, <2>6 DEF Sq!AnswerRead, Sq!Operations
      <3> QED
        BY <1>2, <3>1, <3>2, BeginTyped
    <2> QED
      BY <1>6, <2>1, <2>2, <2>3, <2>4, <2>5, <2>6 DEF Sq!Start
  <1> QED
    BY <1>5, <1>6

\* A request that is under way: its squad exists, and its players are players.
LEMMA UnderWay ==
    ASSUME SquadTypeInv, NEW r \in Requests, sqReq[r].pc # "idle"
    PROVE  /\ leader \in Players /\ Sq!TypeOK
           /\ sqReq[r] \in Request
           /\ sqReq[r].row \in Sq!Rows /\ sqReq[r].new \in Sq!Rows
           /\ Writing(r) => /\ sqReq[r].who \in Players
                            /\ sqReq[r].op \in {"transfer", "swap"} => sqReq[r].other \in Players
                            /\ sqReq[r].op \in {"join", "role"} => sqReq[r].new.role # "NONE"
  <1>1. Sq!TypeOK /\ leader # "nobody"
    BY DEF SquadTypeInv, NotBorn
  <1>2. sqReq[r] \in Request
    BY <1>1, Records
  <1> QED
    BY <1>1, <1>2 DEF SquadTypeInv, Attributed, Sq!TypeOK, Sq!Anyone, Request

LEMMA WriteTyped ==
    ASSUME SquadTypeInv, NEW r \in Requests, Sq!Write(r)
    PROVE  SquadTypeInv'
  <1>1. Writing(r) /\ sqReq[r].pc # "idle"
    BY DEF Sq!Write, Sq!At, Writing, Sq!JoinWrite, Sq!DropWrite, Sq!TransferWrite, Sq!RoleWrite,
       Sq!SwapWrite,
       Sq!InviteWrite, Sq!AcceptWrite, Sq!RejectWrite, Sq!ExpireWrite
  <1>2. /\ leader \in Players /\ Sq!TypeOK /\ sqReq[r].who \in Players
        /\ sqReq[r].new \in Sq!Rows /\ leader \in Sq!Anyone
    BY <1>1, UnderWay DEF Sq!Anyone
  <1>3. /\ squadOwnerAs \in {"LEADER", "MANAGER"} /\ member \in [Players -> Sq!Rows] /\ live \in BOOLEAN
        /\ squadCaptain \in Sq!Anyone /\ team \in TeamRows
        /\ invitation \in [Players -> Sq!InvitationStatus \cup {"NONE"}]
        /\ waitlist \in {"NONE", "WAITLISTED", "CONFIRMED"}
    BY <1>2 DEF Sq!TypeOK, TeamRows
  <1> DEFINE Ends == Sq!Done(r) \/ Sq!ThenSync(r)
  <1>4. Ends => sqReq' \in [Requests -> Request] /\ \A s \in Requests : Writing(s)' => sqReq'[s] = sqReq[s]
    BY <1>2, EndShape
  <1>5. CASE UNCHANGED <<squadOwnerAs, Sq!tournament>> /\ Ends /\ leader' \in Players
             /\ member' \in [Players -> Sq!Rows]
    BY <1>2, <1>3, <1>4, <1>5, StepTyped DEF Sq!tournament
  <1> HIDE DEF Ends
  <1>6. CASE Sq!JoinWrite(r)
    <2>1. member' \in [Players -> Sq!Rows]
      BY <1>2, <1>3, <1>6 DEF Sq!JoinWrite
    <2> QED
      BY <1>2, <1>5, <1>6, <2>1 DEF Sq!JoinWrite, Ends
  <1>7. CASE Sq!TransferWrite(r)
    <2>1. PICK slots \in Sq!TransferSlots(sqReq[r].other, sqReq[r].who, sqReq[r].row) :
              member' = [member EXCEPT ![sqReq[r].other] = [role |-> "MEMBER", roster |-> slots[2]],
                                       ![sqReq[r].who] = [role |-> squadOwnerAs, roster |-> slots[1]]]
      BY <1>7 DEF Sq!TransferWrite
    <2>2. sqReq[r].other \in Players
      BY <1>1, <1>7, UnderWay DEF Sq!TransferWrite, Sq!At
    <2>3. member[sqReq[r].other].roster \in Sq!SquadRosterType /\ member[sqReq[r].who].roster \in Sq!SquadRosterType
      BY <1>2, <1>3, <2>2 DEF Sq!Rows
    <2>4. slots[1] \in Sq!SquadRosterType /\ slots[2] \in Sq!SquadRosterType
      BY <2>1, <2>3 DEF Sq!TransferSlots, Sq!SquadRosterType, Sq!Other
    <2>5. [role |-> "MEMBER", roster |-> slots[2]] \in Sq!Rows /\ [role |-> squadOwnerAs, roster |-> slots[1]] \in Sq!Rows
      BY <1>2, <2>4, RowsTyped
    <2>6. member' \in [Players -> Sq!Rows]
      BY <1>3, <2>1, <2>5
    <2> QED
      BY <1>2, <1>5, <1>7, <2>6 DEF Sq!TransferWrite, Ends
  <1>8. CASE Sq!RoleWrite(r)
    <2> DEFINE x == [role |-> IF sqReq[r].new.role = sqReq[r].row.role THEN member[sqReq[r].who].role ELSE sqReq[r].new.role,
                     roster |-> IF sqReq[r].new.roster = sqReq[r].row.roster THEN member[sqReq[r].who].roster ELSE sqReq[r].new.roster]
    <2>1. member' = [member EXCEPT ![sqReq[r].who] = x]
      BY <1>2, <1>3, <1>8 DEF Sq!RoleWrite
    <2>2. x \in Sq!Rows
      BY <1>2, <1>3 DEF Sq!Rows
    <2>3. member' \in [Players -> Sq!Rows]
      BY <1>3, <2>1, <2>2
    <2> QED
      BY <1>2, <1>5, <1>8, <2>3 DEF Sq!RoleWrite, Ends
  <1>9. CASE Sq!SwapWrite(r)
    <2>1. sqReq[r].other \in Players
      BY <1>1, <1>9, UnderWay DEF Sq!SwapWrite, Sq!At
    <2>2. member' \in [Players -> Sq!Rows]
      BY <1>2, <1>3, <1>9, <2>1 DEF Sq!SwapWrite, Sq!Rows, Sq!SquadRosterType
    <2> QED
      BY <1>2, <1>5, <1>9, <2>2 DEF Sq!SwapWrite, Ends
  <1>10. CASE Sq!DropWrite(r) \/ Sq!RejectWrite(r)
    <2>1. /\ member' = [member EXCEPT ![sqReq[r].who] = Sq!NoMember]
          /\ invitation' = Sq!Rejected(sqReq[r].who)
          /\ sqReq' = [Sq!Forget(sqReq[r].who) EXCEPT ![r] = [Sq!NoRequest EXCEPT !.pc = "sync"]]
          /\ UNCHANGED <<leader, squadOwnerAs, live, squadCaptain, team, waitlist>>
      BY <1>10 DEF Sq!DropWrite, Sq!RejectWrite
    <2>2. member' \in [Players -> Sq!Rows]
      BY <1>3, <2>1, Records
    <2>3. invitation' \in [Players -> Sq!InvitationStatus \cup {"NONE"}]
      BY <1>3, <2>1 DEF Sq!Rejected, Sq!InvitationStatus
    <2>4. sqReq' \in [Requests -> Request] /\ \A s \in Requests : Writing(s)' => sqReq'[s] = sqReq[s]
      BY <1>2, <2>1, ForgetShape
    <2> QED
      BY <1>2, <1>3, <2>1, <2>2, <2>3, <2>4, StepTyped
  <1>11. CASE Sq!InviteWrite(r)
    <2>1. squadCaptain' \in Sq!Anyone /\ team' \in TeamRows
      BY <1>2, <1>3, <1>11 DEF Sq!InviteWrite, Sq!Anyone, TeamRows, Sq!OwnerRoleOf, Sq!TeamMemberRole
    <2>2. invitation' \in [Players -> Sq!InvitationStatus \cup {"NONE"}]
      BY <1>3, <1>11 DEF Sq!InviteWrite, Sq!InvitationStatus
    <2>3. leader' \in Players /\ UNCHANGED <<squadOwnerAs, live>> /\ member' \in [Players -> Sq!Rows]
          /\ waitlist' \in {"NONE", "WAITLISTED", "CONFIRMED"}
      BY <1>2, <1>3, <1>11 DEF Sq!InviteWrite, Sq!roster
    <2> QED
      BY <1>3, <1>4, <1>11, <2>1, <2>2, <2>3, StepTyped DEF Sq!InviteWrite, Ends
  <1>12. CASE Sq!AcceptWrite(r) \/ Sq!ExpireWrite(r)
    <2>1. PICK answer \in Sq!InvitationStatus : Sq!Answer(sqReq[r].who, answer)
      BY <1>12 DEF Sq!AcceptWrite, Sq!ExpireWrite, Sq!InvitationStatus
    <2>2. invitation' \in [Players -> Sq!InvitationStatus \cup {"NONE"}]
      BY <1>2, <1>3, <2>1 DEF Sq!Answer
    <2>3. team' \in TeamRows /\ UNCHANGED <<Sq!roster, live, squadCaptain, waitlist>> /\ Sq!Done(r)
      BY <1>2, <1>3, <1>12 DEF Sq!AcceptWrite, Sq!ExpireWrite, TeamRows, Sq!TeamMemberRole
    <2> QED
      BY <1>2, <1>3, <1>4, <2>2, <2>3, StepTyped DEF Sq!roster, Ends
  <1> QED
    BY <1>6, <1>7, <1>8, <1>9, <1>10, <1>11, <1>12 DEF Sq!Write

LEMMA RefreshTyped ==
    ASSUME SquadTypeInv, NEW r \in Requests, Sq!Throw(r) \/ Sq!SyncRead(r) \/ Sq!SyncWrite(r)
    PROVE  SquadTypeInv'
  <1>1. sqReq[r].pc # "idle"
    BY DEF Sq!Throw, Sq!SyncRead, Sq!SyncWrite
  <1>2. leader \in Players /\ Sq!TypeOK
    BY <1>1, UnderWay
  <1>3. /\ UNCHANGED <<Sq!roster, live, squadCaptain, team, invitation>>
        /\ waitlist' \in {"NONE", "WAITLISTED", "CONFIRMED"}
    BY <1>2 DEF Sq!Throw, Sq!SyncRead, Sq!SyncWrite, Sq!tournament, Sq!TypeOK, Sq!Status
  <1>4. sqReq' \in [Requests -> Request] /\ \A s \in Requests : Writing(s)' => sqReq'[s] = sqReq[s]
    <2>1. CASE Sq!Throw(r) \/ Sq!SyncWrite(r)
      BY <1>2, <2>1, EndShape DEF Sq!Throw, Sq!SyncWrite
    <2>2. CASE Sq!SyncRead(r)
      <3>1. sqReq' = [sqReq EXCEPT ![r].pc = "syncWrite", ![r].full = Sq!MainIsFull] /\ Sq!MainIsFull \in BOOLEAN
        BY <2>2 DEF Sq!SyncRead, Sq!MainIsFull
      <3>2. sqReq \in [Requests -> Request]
        BY <1>2, Records
      <3> QED
        BY <3>1, <3>2 DEF Request, Writing
    <2> QED
      BY <2>1, <2>2
  <1> QED
    BY <1>2, <1>3, <1>4, StepTyped DEF Sq!TypeOK, Sq!roster, TeamRows

\* The steps of no request.
LEMMA OutsideTyped ==
    ASSUME SquadTypeInv, Sq!Expire \/ Sq!TournamentEnds \/ Sq!TeamChanges
    PROVE  SquadTypeInv'
  <1>1. Sq!TypeOK /\ Attributed /\ NotBorn
    BY DEF SquadTypeInv
  <1>2. CASE Sq!Expire
    BY <1>1, <1>2 DEF Sq!Expire, Sq!ExpirePending, SquadTypeInv, Sq!TypeOK, Attributed, NotBorn,
       Writing,
       Sq!InvitationStatus, Sq!roster, Sq!In
  <1>3. CASE Sq!TournamentEnds
    BY <1>1, <1>3 DEF Sq!TournamentEnds, SquadTypeInv, Sq!TypeOK, Attributed, NotBorn, Writing,
       Sq!roster, Sq!In
  <1>4. CASE Sq!TeamChanges
    <2>1. UNCHANGED <<Sq!roster, live, invitation, waitlist, sqReq>> /\ squadCaptain' \in Sq!Anyone
      BY <1>1, <1>4 DEF Sq!TeamChanges, Sq!CreateTeam, Sq!TeamJoins, Sq!TeamLeaves, Sq!TeamTransfers,
         Sq!Anyone, Sq!TypeOK
    <2>2. team' \in [Players -> Sq!TeamMemberRole \cup {"NONE"}]
      BY <1>1, <1>4 DEF Sq!TeamChanges, Sq!CreateTeam, Sq!TeamJoins, Sq!TeamLeaves, Sq!TeamTransfers,
         Sq!OwnerRoleOf, Sq!TeamMemberRole, Sq!TypeOK, Sq!Anyone
    <2>3. Sq!TypeOK'
      BY <1>1, <2>1, <2>2 DEF Sq!TypeOK, Sq!roster
    <2> QED
      BY <1>1, <2>1, <2>3 DEF SquadTypeInv, Attributed, NotBorn, Writing, Sq!roster, Sq!In
  <1> QED
    BY <1>2, <1>3, <1>4

LEMMA SquadTypeStep == SquadTypeInv /\ [Sq!Next]_(Sq!vars) => SquadTypeInv'
  <1> SUFFICES ASSUME SquadTypeInv, [Sq!Next]_(Sq!vars) PROVE SquadTypeInv'
    OBVIOUS
  <1>1. CASE UNCHANGED Sq!vars
    BY <1>1 DEF Sq!vars, SquadTypeInv, Sq!TypeOK, Attributed, NotBorn, Writing, Sq!In
  <1>2. CASE \E r \in Requests : Sq!Operate(r)
    BY <1>2, ReadTyped, WriteTyped, RefreshTyped DEF Sq!Operate, Sq!Continue
  <1> QED
    BY <1>1, <1>2, CreateTyped, OutsideTyped DEF Sq!Next, Sq!SquadSteps

LEMMA SquadTypeInit == Sq!Init => SquadTypeInv
  <1> SUFFICES ASSUME Sq!Init PROVE SquadTypeInv
    OBVIOUS
  <1>1. Sq!TypeOK
    BY Records DEF Sq!Init, Sq!TypeOK, Sq!Anyone, Sq!InvitationStatus, Sq!TeamMemberRole, Request
  <1>2. Attributed /\ NotBorn
    BY Records DEF Sq!Init, Attributed, NotBorn, Writing, Sq!In
  <1> QED
    BY <1>1, <1>2 DEF SquadTypeInv

\* The rows of the squad, its invitations and the requests on their way keep their types.
THEOREM SquadsTyped == Sq!Spec => []Sq!TypeOK
  <1>1. SquadTypeInv => Sq!TypeOK
    BY DEF SquadTypeInv
  <1> QED
    BY <1>1, SquadTypeInit, SquadTypeStep, PTL DEF Sq!Spec

-----------------------------------------------------------------------------
(* The team.                                                                 *)

\* The captain holds the owner's role; before the team has a squad that role is the one the
\* squad will give its owner.  There is one substitute.
TeamInv ==
    /\ squadCaptain # "nobody" =>
          /\ team[squadCaptain] \in {"CAPTAIN", "MANAGER"}
          /\ leader = "nobody" => team[squadCaptain] = Sq!OwnerRoleOf(squadOwnerAs)
    /\ \A p, q \in Players : team[p] = "SUBSTITUTE" /\ team[q] = "SUBSTITUTE" => p = q

LEMMA TeamRests ==
    ASSUME TeamInv, UNCHANGED <<squadCaptain, team, squadOwnerAs>>, leader' = leader \/ leader' # "nobody"
    PROVE  TeamInv'
  BY DEF TeamInv, Sq!OwnerRoleOf

LEMMA TeamStep == SquadTypeInv /\ TeamInv /\ [Sq!Next]_(Sq!vars) => TeamInv'
  <1> SUFFICES ASSUME SquadTypeInv, TeamInv, [Sq!Next]_(Sq!vars) PROVE TeamInv'
    OBVIOUS
  <1>1. /\ Sq!TypeOK /\ team \in TeamRows /\ squadCaptain \in Players \cup {"nobody"}
        /\ squadCaptain # "nobody" => squadCaptain \in Players
    BY Sizes DEF SquadTypeInv, Sq!TypeOK, TeamRows, Sq!Anyone
  <1>2. CASE UNCHANGED Sq!vars
    BY <1>2, TeamRests DEF Sq!vars
  <1>3. CASE Sq!Expire \/ Sq!TournamentEnds
    BY <1>3, TeamRests DEF Sq!Expire, Sq!TournamentEnds, Sq!roster
  <1>4. CASE Sq!Create \/ Sq!SyncTeamToSquad
    <2>1. UNCHANGED <<squadCaptain, team, squadOwnerAs>> /\ (leader' = leader \/ leader' # "nobody")
      BY <1>1, <1>4, Sizes DEF Sq!Create, Sq!CreateSquad, Sq!SaveSquad, Sq!SyncTeamToSquad, Sq!tournament
    <2> QED
      BY <2>1, TeamRests
  <1>5. ASSUME NEW p \in Players, NEW owner \in {"LEADER", "MANAGER"}, Sq!CreateTeam(p, owner)
        PROVE  TeamInv'
    BY <1>1, <1>5 DEF Sq!CreateTeam, TeamInv, TeamRows, Sq!OwnerRoleOf, Sq!roster
  <1>6. ASSUME NEW p \in Players, NEW as \in {"PLAYER", "SUBSTITUTE"}, Sq!TeamJoins(p, as)
        PROVE  TeamInv'
    BY <1>1, <1>6 DEF Sq!TeamJoins, TeamInv, TeamRows, Sq!OwnerRoleOf, Sq!roster
  <1>7. ASSUME NEW p \in Players, Sq!TeamLeaves(p) \/ Sq!TeamTransfers(p)
        PROVE  TeamInv'
    BY <1>1, <1>7 DEF Sq!TeamLeaves, Sq!TeamTransfers, TeamInv, TeamRows, Sq!OwnerRoleOf, Sq!roster
  <1>8. ASSUME NEW r \in Requests, Sq!Operate(r) PROVE TeamInv'
    <2>1. CASE Sq!InviteRead(r) \/ \E p \in Players : Sq!Start(r, p)
      <3>1. UNCHANGED <<Sq!roster, Sq!tournament>>
        BY <2>1 DEF Sq!InviteRead, Sq!Start, Sq!JoinRead, Sq!LeaveRead, Sq!RemoveRead, Sq!TransferRead,
           Sq!RoleRead, Sq!SwapRead, Sq!AnswerRead, Sq!Begin
      <3> QED
        BY <3>1, TeamRests DEF Sq!roster, Sq!tournament
    <2>2. CASE Sq!InviteWrite(r)
      <3>1. sqReq[r].who \in Players /\ leader # "nobody"
        BY <2>2, UnderWay, Sizes DEF Sq!InviteWrite, Sq!At, Writing
      <3> QED
        BY <1>1, <2>2, <3>1 DEF Sq!InviteWrite, TeamInv, TeamRows, Sq!OwnerRoleOf, Sq!roster
    <2>3. CASE Sq!AcceptWrite(r)
      <3>1. sqReq[r].who \in Players
        BY <2>3, UnderWay DEF Sq!AcceptWrite, Sq!At, Writing
      <3> QED
        BY <1>1, <2>3, <3>1 DEF Sq!AcceptWrite, TeamInv, TeamRows, Sq!OwnerRoleOf, Sq!roster, Sq!TeamMembers
    <2>4. CASE Sq!Write(r) /\ ~Sq!InviteWrite(r) /\ ~Sq!AcceptWrite(r)
      <3>1. sqReq[r].pc # "idle" /\ Writing(r)
        BY <2>4 DEF Sq!Write, Sq!At, Writing, Sq!JoinWrite, Sq!DropWrite, Sq!TransferWrite, Sq!RoleWrite,
           Sq!SwapWrite, Sq!RejectWrite, Sq!ExpireWrite
      <3>2. leader' = leader \/ leader' = sqReq[r].who
        BY <2>4 DEF Sq!Write, Sq!JoinWrite, Sq!DropWrite, Sq!TransferWrite, Sq!RoleWrite,
           Sq!SwapWrite, Sq!RejectWrite, Sq!ExpireWrite, Sq!roster
      <3>3. UNCHANGED <<squadCaptain, team, squadOwnerAs>>
        BY <2>4 DEF Sq!Write, Sq!JoinWrite, Sq!DropWrite, Sq!TransferWrite, Sq!RoleWrite,
           Sq!SwapWrite, Sq!RejectWrite, Sq!ExpireWrite, Sq!roster, Sq!tournament
      <3> QED
        BY <3>1, <3>2, <3>3, UnderWay, Sizes, TeamRests
    <2>5. CASE Sq!Throw(r) \/ Sq!SyncRead(r) \/ Sq!SyncWrite(r)
      BY <2>5, TeamRests DEF Sq!Throw, Sq!SyncRead, Sq!SyncWrite, Sq!roster, Sq!tournament
    <2> QED
      BY <1>8, <2>1, <2>2, <2>3, <2>4, <2>5 DEF Sq!Operate, Sq!Continue
  <1> QED
    BY <1>2, <1>3, <1>4, <1>5, <1>6, <1>7, <1>8 DEF Sq!Next, Sq!SquadSteps, Sq!TeamChanges

LEMMA TeamInit == Sq!Init => TeamInv
  BY DEF Sq!Init, TeamInv

-----------------------------------------------------------------------------
(* Counting players.                                                         *)

Plays(p, type) == member[p].role \in {"MEMBER", "LEADER"} /\ member[p].roster = type
One(b) == IF b THEN 1 ELSE 0

LEMMA CountIsNat ==
    ASSUME NEW type, NEW but
    PROVE  /\ IsFiniteSet(Sq!Playing(type, but)) /\ Sq!Count(type, but) \in Nat
           /\ IsFiniteSet(Sq!Playing(type, but)') /\ Sq!Count(type, but)' \in Nat
  BY SameCardinality, Sizes, FS_Subset, FS_CardinalityType DEF Sq!Playing, Sq!Count

\* A player more who is not counted counts for one if he plays.
LEMMA CountWithout ==
    ASSUME NEW type, NEW but, NEW p \in Players \ but
    PROVE  Sq!Count(type, but) = Sq!Count(type, but \cup {p}) + One(Plays(p, type))
  <1>1. CASE Plays(p, type)
    <2>1. p \in Sq!Playing(type, but) /\ Sq!Playing(type, but \cup {p}) = Sq!Playing(type, but) \ {p}
      BY <1>1 DEF Sq!Playing, Plays
    <2>2. Cardinality(Sq!Playing(type, but) \ {p}) = Cardinality(Sq!Playing(type, but)) - 1
      BY <2>1, CountIsNat, FS_RemoveElement
    <2>3. Sq!Count(type, but \cup {p}) = Sq!Count(type, but) - 1 /\ One(Plays(p, type)) = 1
      BY SameCardinality, <1>1, <2>1, <2>2 DEF Sq!Count, One
    <2> QED
      BY <2>3, CountIsNat
  <1>2. CASE ~Plays(p, type)
    <2>1. Sq!Playing(type, but \cup {p}) = Sq!Playing(type, but)
      BY <1>2 DEF Sq!Playing, Plays
    <2> QED
      BY <1>2, <2>1, CountIsNat DEF Sq!Count, One
  <1> QED
    BY <1>1, <1>2

LEMMA CountWithoutAfter ==
    ASSUME NEW type, NEW but, NEW p \in Players \ but
    PROVE  Sq!Count(type, but)' = Sq!Count(type, but \cup {p})' + One(Plays(p, type)')
  <1>1. CASE Plays(p, type)'
    <2>1. p \in Sq!Playing(type, but)' /\ Sq!Playing(type, but \cup {p})' = Sq!Playing(type, but)' \ {p}
      BY <1>1 DEF Sq!Playing, Plays
    <2>2. Cardinality(Sq!Playing(type, but)' \ {p}) = Cardinality(Sq!Playing(type, but)') - 1
      BY <2>1, CountIsNat, FS_RemoveElement
    <2>3. Sq!Count(type, but \cup {p})' = Sq!Count(type, but)' - 1 /\ One(Plays(p, type)') = 1
      BY SameCardinality, <1>1, <2>1, <2>2 DEF Sq!Count, One
    <2> QED
      BY <2>3, CountIsNat
  <1>2. CASE ~Plays(p, type)'
    <2>1. Sq!Playing(type, but \cup {p})' = Sq!Playing(type, but)'
      BY <1>2 DEF Sq!Playing, Plays
    <2> QED
      BY <1>2, <2>1, CountIsNat DEF Sq!Count, One
  <1> QED
    BY <1>1, <1>2

\* Who keeps his row is counted as before.
LEMMA CountStays ==
    ASSUME NEW type, NEW but, \A q \in Players \ but : member'[q] = member[q]
    PROVE  Sq!Count(type, but)' = Sq!Count(type, but)
  BY DEF Sq!Count, Sq!Playing

\* One row changes.
LEMMA OneChanges ==
    ASSUME NEW p \in Players, \A q \in Players : q # p => member'[q] = member[q], NEW type
    PROVE  /\ Sq!Count(type, {p}) \in Nat
           /\ Sq!Count(type, {}) = Sq!Count(type, {p}) + One(Plays(p, type))
           /\ Sq!Count(type, {})' = Sq!Count(type, {p}) + One(Plays(p, type)')
  <1>1. {} \cup {p} = {p} /\ p \in Players \ {}
    OBVIOUS
  <1>2. Sq!Count(type, {}) = Sq!Count(type, {p}) + One(Plays(p, type))
    BY <1>1, CountWithout
  <1>3. Sq!Count(type, {})' = Sq!Count(type, {p})' + One(Plays(p, type)')
    BY <1>1, CountWithoutAfter
  <1>4. Sq!Count(type, {p})' = Sq!Count(type, {p})
    BY CountStays
  <1> QED
    BY <1>2, <1>3, <1>4, CountIsNat

\* Two rows change.
LEMMA TwoChange ==
    ASSUME NEW p \in Players, NEW q \in Players, p # q,
           \A o \in Players \ {p, q} : member'[o] = member[o], NEW type
    PROVE  /\ Sq!Count(type, {p, q}) \in Nat
           /\ Sq!Count(type, {}) = Sq!Count(type, {p, q}) + One(Plays(p, type)) + One(Plays(q, type))
           /\ Sq!Count(type, {p}) = Sq!Count(type, {p, q}) + One(Plays(q, type))
           /\ Sq!Count(type, {})' = Sq!Count(type, {p, q}) + One(Plays(p, type)') + One(Plays(q, type)')
  <1>1. {} \cup {p} = {p} /\ p \in Players \ {} /\ {p} \cup {q} = {p, q} /\ q \in Players \ {p}
    OBVIOUS
  <1>2. Sq!Count(type, {}) = Sq!Count(type, {p}) + One(Plays(p, type))
        /\ Sq!Count(type, {p}) = Sq!Count(type, {p, q}) + One(Plays(q, type))
    BY <1>1, CountWithout
  <1>3. Sq!Count(type, {})' = Sq!Count(type, {p})' + One(Plays(p, type)')
        /\ Sq!Count(type, {p})' = Sq!Count(type, {p, q})' + One(Plays(q, type)')
    BY <1>1, CountWithoutAfter
  <1>4. Sq!Count(type, {p, q})' = Sq!Count(type, {p, q})
    BY CountStays
  <1>5. One(Plays(p, type)) \in Nat /\ One(Plays(q, type)) \in Nat
        /\ One(Plays(p, type)') \in Nat /\ One(Plays(q, type)') \in Nat
    BY DEF One
  <1>6. Sq!Count(type, {p, q}) \in Nat /\ Sq!Count(type, {p}) \in Nat /\ Sq!Count(type, {p})' \in Nat
    BY CountIsNat
  <1> QED
    BY <1>2, <1>3, <1>4, <1>5, <1>6

-----------------------------------------------------------------------------
(* The owner and the limits of the roster.                                   *)

\* Requests that fill slots do not overlap, members do not leave under a transfer, owners
\* do not reject invitations, and members of the team come into the squad where it has
\* places for them, and the captain whose team becomes a squad with them.
NoSquadRace == Env \cap {"rosterRace", "leaveRace", "ownerRejects", "teamReturns", "leaderAway"} = {}

OneSlotOp ==
    \A r, s \in Requests :
        Writing(r) /\ Writing(s) /\ sqReq[r].op \in Sq!SlotOps /\ sqReq[s].op \in Sq!SlotOps => r = s
NoDropUnderTransfer ==
    \A r, s \in Requests : Writing(r) /\ Writing(s) /\ sqReq[r].op = "drop" => sqReq[s].op # "transfer"

\* What a request has read of a row is so unless the player has left since.
StillSo(p, row) == Sq!In(p) => member[p] = row
Knows(op, who, other, row, new) ==
    /\ op = "join" => new.role = "MEMBER" /\ new.roster \in Sq!SquadRosterType /\ Sq!HasRoom(new.roster, {})
    /\ op = "drop" => who # leader
    /\ op = "transfer" => other = leader /\ who # leader /\ StillSo(who, row)
    /\ op = "role" =>
        /\ StillSo(who, row)
        /\ new.role # row.role => row.role # "LEADER" /\ who # leader /\ new.role # "LEADER"
        /\ (new.roster # row.roster /\ row.role = "LEADER") => new.roster = "MAIN"
    /\ op = "swap" =>
        /\ who # other /\ StillSo(who, [role |-> "MEMBER", roster |-> "MAIN"])
        /\ Sq!In(other) => member[other].role \in {"MEMBER", "LEADER"} /\ member[other].roster = "SUBSTITUTE"
KnowsOf(r) == Knows(sqReq[r].op, sqReq[r].who, sqReq[r].other, sqReq[r].row, sqReq[r].new)

LeaderPlays == squadOwnerAs = "LEADER" /\ leader # "nobody" => member[leader].roster = "MAIN"

SquadInv ==
    /\ OneSlotOp /\ NoDropUnderTransfer /\ \A r \in Requests : Writing(r) => KnowsOf(r)
    /\ Sq!OwnerLeads /\ LeaderPlays /\ Sq!RosterWithinLimits

\* The squad stays as it is and no request starts to write.
LEMMA SquadRests ==
    ASSUME SquadInv, UNCHANGED Sq!roster, \A s \in Requests : Writing(s)' => sqReq'[s] = sqReq[s]
    PROVE  SquadInv'
  <1>1. leader' = leader /\ squadOwnerAs' = squadOwnerAs /\ member' = member
    BY DEF Sq!roster
  <1>2. \A s \in Requests : Writing(s)' => Writing(s) /\ sqReq'[s] = sqReq[s]
    BY DEF Writing
  <1>3. OneSlotOp' /\ NoDropUnderTransfer'
    BY <1>2 DEF SquadInv, OneSlotOp, NoDropUnderTransfer
  <1>4. \A s \in Requests : Writing(s)' => KnowsOf(s)'
    BY <1>1, <1>2 DEF SquadInv, KnowsOf, Knows, StillSo, Sq!HasRoom, Sq!Count, Sq!Playing,
       Sq!Capacity, Sq!In
  <1>5. Sq!OwnerLeads' /\ LeaderPlays' /\ Sq!RosterWithinLimits'
    BY <1>1 DEF SquadInv, Sq!OwnerLeads, LeaderPlays, Sq!RosterWithinLimits, Sq!Count,
       Sq!Playing, Sq!Capacity
  <1> QED
    BY <1>3, <1>4, <1>5 DEF SquadInv

\* A request begins with what it has read.
LEMMA SquadReads ==
    ASSUME NoSquadRace, Sq!TypeOK, SquadInv, NEW r \in Requests, NEW op, NEW who, NEW other, NEW row, NEW new,
           Sq!Begin(r, op, who, other, row, new), Knows(op, who, other, row, new)
    PROVE  SquadInv'
  <1>1. leader' = leader /\ squadOwnerAs' = squadOwnerAs /\ member' = member
    BY BeginShape
  <1> DEFINE x == [pc |-> "write", op |-> op, who |-> who, other |-> other,
                   row |-> row, new |-> new, full |-> FALSE]
  <1>a. sqReq'[r] = x /\ \A s \in Requests : s # r => sqReq'[s] = sqReq[s]
    BY BeginShape
  <1>2. /\ sqReq'[r].op = op /\ sqReq'[r].who = who /\ sqReq'[r].other = other /\ sqReq'[r].row = row
        /\ sqReq'[r].new = new
        /\ \A s \in Requests : s # r => sqReq'[s] = sqReq[s]
    BY <1>a
  <1> HIDE DEF x
  <1>3. \A s \in Requests : Writing(s)' => s = r \/ Writing(s)
    BY <1>2 DEF Writing
  <1>4. /\ op \in Sq!SlotOps => \A s \in Requests : ~(sqReq[s].op \in Sq!SlotOps /\ Writing(s))
        /\ op = "drop" => \A s \in Requests : ~(sqReq[s].op = "transfer" /\ Writing(s))
        /\ op = "transfer" => \A s \in Requests : ~(sqReq[s].op = "drop" /\ Writing(s))
    BY DEF NoSquadRace, Sq!Begin, Sq!InFlight, Writing
  <1>5. OneSlotOp'
    BY <1>2, <1>3, <1>4 DEF SquadInv, OneSlotOp, Writing
  <1>6. NoDropUnderTransfer'
    BY <1>2, <1>3, <1>4 DEF SquadInv, NoDropUnderTransfer, Writing
  <1>7. Knows(op, who, other, row, new)'
    BY <1>1 DEF Knows, StillSo, Sq!HasRoom, Sq!Count, Sq!Playing, Sq!Capacity, Sq!In
  <1>8. ASSUME NEW s \in Requests, KnowsOf(s), s # r PROVE KnowsOf(s)'
    <2>1. sqReq'[s] = sqReq[s]
      BY <1>2, <1>8
    <2> QED
      BY <1>1, <1>8, <2>1 DEF KnowsOf, Knows, StillSo, Sq!HasRoom, Sq!Count, Sq!Playing,
         Sq!Capacity, Sq!In
  <1>9. \A s \in Requests : Writing(s)' => KnowsOf(s)'
    BY <1>2, <1>3, <1>7, <1>8 DEF SquadInv, KnowsOf
  <1>10. Sq!OwnerLeads' /\ LeaderPlays' /\ Sq!RosterWithinLimits'
    BY <1>1 DEF SquadInv, Sq!OwnerLeads, LeaderPlays, Sq!RosterWithinLimits, Sq!Count,
       Sq!Playing, Sq!Capacity
  <1> QED
    BY <1>5, <1>6, <1>9, <1>10 DEF SquadInv

\* A request that fills a slot was the only one: after its write what is left to know is
\* who may leave.
LEMMA SlotWritten ==
    ASSUME SquadInv, NEW r \in Requests, Writing(r), sqReq[r].op \in Sq!SlotOps,
           \A s \in Requests : Writing(s)' => s # r /\ sqReq'[s] = sqReq[s],
           leader' = leader \/ sqReq[r].op = "transfer",
           Sq!OwnerLeads', LeaderPlays', Sq!RosterWithinLimits'
    PROVE  SquadInv'
  <1>1. \A s \in Requests : Writing(s)' => s # r /\ Writing(s) /\ sqReq'[s] = sqReq[s] /\ sqReq[s].op \notin Sq!SlotOps
    BY DEF SquadInv, OneSlotOp, Writing
  <1>2. OneSlotOp' /\ NoDropUnderTransfer'
    BY <1>1 DEF OneSlotOp, NoDropUnderTransfer, Sq!SlotOps
  <1>3. \A s \in Requests : Writing(s)' => KnowsOf(s)'
    <2> SUFFICES ASSUME NEW s \in Requests, Writing(s)' PROVE KnowsOf(s)'
      OBVIOUS
    <2>1. sqReq'[s] = sqReq[s] /\ Writing(s) /\ sqReq[s].op \notin {"join", "transfer", "role", "swap"}
      BY <1>1 DEF Sq!SlotOps
    <2>2. sqReq[s].op = "drop" => sqReq[s].who # leader /\ sqReq[r].op # "transfer"
      BY <2>1 DEF SquadInv, KnowsOf, Knows, NoDropUnderTransfer
    <2> QED
      BY <2>1, <2>2 DEF KnowsOf, Knows
  <1> QED
    BY <1>2, <1>3 DEF SquadInv

\* A player who does not own the squad leaves it.
LEMMA SquadLeaves ==
    ASSUME SquadTypeInv, SquadInv, NEW p \in Players, p # leader,
           UNCHANGED <<leader, squadOwnerAs>>, member' = [member EXCEPT ![p] = Sq!NoMember],
           \A s \in Requests : Writing(s)' => sqReq'[s] = sqReq[s]
    PROVE  SquadInv'
  <1>1. /\ \A q \in Players : q # p => member'[q] = member[q]
        /\ member'[p] = Sq!NoMember /\ Sq!NoMember.role = "NONE"
    BY DEF SquadTypeInv, Sq!TypeOK, Sq!NoMember
  <1>2. \A type \in Sq!SquadRosterType : Sq!Count(type, {})' <= Sq!Count(type, {})
                                        /\ Sq!Count(type, {})' \in Nat /\ Sq!Count(type, {}) \in Nat
    <2> SUFFICES ASSUME NEW type \in Sq!SquadRosterType
                 PROVE  Sq!Count(type, {})' <= Sq!Count(type, {})
      BY CountIsNat
    <2>1. ~Plays(p, type)'
      BY <1>1 DEF Plays
    <2>2. Sq!Count(type, {}) = Sq!Count(type, {p}) + One(Plays(p, type)) /\ Sq!Count(type, {p}) \in Nat
          /\ Sq!Count(type, {})' = Sq!Count(type, {p}) + One(Plays(p, type)')
      BY <1>1, OneChanges
    <2>3. One(Plays(p, type)) \in Nat /\ One(Plays(p, type)') = 0
      BY <2>1 DEF One, Plays
    <2> QED
      BY <2>2, <2>3
  <1>3. \A type \in Sq!SquadRosterType : Sq!Capacity(type)' = Sq!Capacity(type) /\ Sq!Capacity(type) \in Nat
    BY Sizes DEF Sq!Capacity
  <1>4. Sq!RosterWithinLimits'
    BY <1>2, <1>3 DEF SquadInv, Sq!RosterWithinLimits
  <1>5. \A s \in Requests : Writing(s)' => Writing(s) /\ sqReq'[s] = sqReq[s]
    BY DEF Writing
  <1>6. OneSlotOp' /\ NoDropUnderTransfer'
    BY <1>5 DEF SquadInv, OneSlotOp, NoDropUnderTransfer
  <1>7. \A type \in Sq!SquadRosterType : Sq!HasRoom(type, {}) => Sq!HasRoom(type, {})'
    BY <1>2, <1>3 DEF Sq!HasRoom
  <1>8. \A q : Sq!In(q)' /\ q \in Players => Sq!In(q) /\ member'[q] = member[q]
    BY <1>1 DEF Sq!In
  <1>9. ASSUME NEW s \in Requests, Writing(s)'
        PROVE  KnowsOf(s)'
    <2>1. /\ KnowsOf(s) /\ sqReq'[s] = sqReq[s] /\ sqReq[s].who \in Players
          /\ sqReq[s].op = "swap" => sqReq[s].other \in Players
      BY <1>5, <1>9 DEF SquadInv, SquadTypeInv, Attributed
    <2> QED
      BY <1>7, <1>8, <1>9, <2>1 DEF KnowsOf, Knows, StillSo
  <1>10. Sq!OwnerLeads' /\ LeaderPlays'
    BY <1>1, Sizes DEF SquadInv, Sq!OwnerLeads, LeaderPlays, SquadTypeInv, Sq!TypeOK, Sq!Anyone
  <1> QED
    BY <1>4, <1>6, <1>9, <1>10 DEF SquadInv

\* The owner has the owner's role, so a MEMBER does not own the squad.
LEMMA MemberIsNotOwner ==
    ASSUME SquadTypeInv, SquadInv, NEW p \in Players, member[p].role = "MEMBER"
    PROVE  p # leader /\ leader # "nobody"
  BY Sizes DEF SquadTypeInv, Sq!TypeOK, NotBorn, SquadInv, Sq!OwnerLeads, Sq!In

LEMMA SquadReadStep ==
    ASSUME NoSquadRace, SquadTypeInv, SquadInv, NEW r \in Requests,
           Sq!InviteRead(r) \/ \E p \in Players : Sq!Start(r, p)
    PROVE  SquadInv'
  <1>1. Sq!TypeOK
    BY DEF SquadTypeInv
  <1>2. \A op, who, other, row, new :
            op \notin {"join", "drop", "transfer", "role", "swap"} => Knows(op, who, other, row, new)
    BY DEF Knows
  <1>3. CASE Sq!InviteRead(r)
    <2>1. Sq!Begin(r, "invite", leader, "nobody", Sq!NoMember, Sq!NoMember)
      BY <1>3 DEF Sq!InviteRead
    <2> QED
      BY <1>1, <1>2, <2>1, SquadReads
  <1>4. ASSUME NEW p \in Players, Sq!Start(r, p) PROVE SquadInv'
    <2>1. CASE Sq!JoinRead(r, p)
      <3>1. PICK type \in Sq!SquadRosterType : Sq!HasRoom(type, {})
                /\ Sq!Begin(r, "join", p, "nobody", Sq!NoMember, [role |-> "MEMBER", roster |-> type])
        BY <2>1 DEF Sq!JoinRead
      <3>2. Knows("join", p, "nobody", Sq!NoMember, [role |-> "MEMBER", roster |-> type])
        BY <3>1 DEF Knows
      <3> QED
        BY <1>1, <3>1, <3>2, SquadReads
    <2>2. CASE Sq!LeaveRead(r, p) \/ Sq!RemoveRead(r, p)
      <3>1. Sq!Begin(r, "drop", p, "nobody", Sq!NoMember, Sq!NoMember) /\ member[p].role = "MEMBER"
        BY <2>2 DEF Sq!LeaveRead, Sq!RemoveRead, Sq!Removable
      <3>2. Knows("drop", p, "nobody", Sq!NoMember, Sq!NoMember)
        BY <3>1, MemberIsNotOwner DEF Knows
      <3> QED
        BY <1>1, <3>1, <3>2, SquadReads
    <2>3. CASE Sq!TransferRead(r, p)
      <3>1. Sq!Begin(r, "transfer", p, leader, member[p], Sq!NoMember) /\ p # leader
        BY <2>3 DEF Sq!TransferRead
      <3>2. Knows("transfer", p, leader, member[p], Sq!NoMember)
        BY <3>1 DEF Knows, StillSo
      <3> QED
        BY <1>1, <3>1, <3>2, SquadReads
    <2>4. ASSUME NEW new \in [role : Sq!SquadRole, roster : Sq!SquadRosterType], Sq!RoleRead(r, p, new)
          PROVE  SquadInv'
      <3>1. Sq!Begin(r, "role", p, "nobody", member[p], new)
        BY <2>4 DEF Sq!RoleRead
      <3>2. Knows("role", p, "nobody", member[p], new)
        BY <2>4 DEF Knows, StillSo, Sq!RoleRead
      <3> QED
        BY <1>1, <3>1, <3>2, SquadReads
    <2>5. ASSUME NEW q \in Players, Sq!SwapRead(r, p, q)
          PROVE  SquadInv'
      <3>1. Sq!Begin(r, "swap", p, q, Sq!NoMember, Sq!NoMember)
        BY <2>5 DEF Sq!SwapRead
      <3>2. Knows("swap", p, q, Sq!NoMember, Sq!NoMember)
        BY <2>5 DEF Knows, StillSo, Sq!SwapRead
      <3> QED
        BY <1>1, <3>1, <3>2, SquadReads
    <2>6. ASSUME NEW op \in {"accept", "reject"}, Sq!AnswerRead(r, p, op)
          PROVE  SquadInv'
      <3>1. PICK o \in {op, "expire"} : Sq!Begin(r, o, p, "nobody", Sq!NoMember, Sq!NoMember)
        BY <2>6 DEF Sq!AnswerRead
      <3>2. Knows(o, p, "nobody", Sq!NoMember, Sq!NoMember)
        BY <1>2
      <3> QED
        BY <1>1, <3>1, <3>2, SquadReads
    <2> QED
      BY <1>4, <2>1, <2>2, <2>3, <2>4, <2>5, <2>6 DEF Sq!Start
  <1> QED
    BY <1>3, <1>4

\* The count in a later transaction: whoever takes a place finds it free.
LEMMA OneFits ==
    ASSUME SquadInv, NEW p \in Players, \A q \in Players : q # p => member'[q] = member[q],
           \A type \in Sq!SquadRosterType :
               Plays(p, type)' => Plays(p, type) \/ Sq!HasRoom(type, {p})
    PROVE  Sq!RosterWithinLimits'
  <1> SUFFICES ASSUME NEW type \in Sq!SquadRosterType PROVE Sq!Count(type, {})' <= Sq!Capacity(type)
    BY DEF Sq!RosterWithinLimits, Sq!Capacity
  <1>1. /\ Sq!Count(type, {}) = Sq!Count(type, {p}) + One(Plays(p, type)) /\ Sq!Count(type, {p}) \in Nat
        /\ Sq!Count(type, {})' = Sq!Count(type, {p}) + One(Plays(p, type)')
    BY OneChanges
  <1>2. Sq!Count(type, {}) <= Sq!Capacity(type) /\ Sq!Capacity(type) \in Nat
    BY Sizes DEF SquadInv, Sq!RosterWithinLimits, Sq!Capacity
  <1>3. CASE ~Plays(p, type)'
    <2>1. One(Plays(p, type)') = 0 /\ One(Plays(p, type)) \in Nat
      BY <1>3 DEF One, Plays
    <2> QED
      BY <1>1, <1>2, <2>1
  <1>4. CASE Plays(p, type)' /\ Plays(p, type)
    <2>1. One(Plays(p, type)') = 1 /\ One(Plays(p, type)) = 1
      BY <1>4 DEF One
    <2> QED
      BY <1>1, <1>2, <2>1
  <1>5. CASE Plays(p, type)' /\ Sq!HasRoom(type, {p})
    <2>1. One(Plays(p, type)') = 1 /\ Sq!Count(type, {p}) < Sq!Capacity(type)
      BY <1>5 DEF One, Sq!HasRoom
    <2> QED
      BY <1>1, <1>2, <2>1
  <1> QED
    BY <1>3, <1>4, <1>5

\* Two rows are written, and at each place as many play as before or one more who fits.
LEMMA TwoFit ==
    ASSUME SquadInv, NEW p \in Players, NEW q \in Players, p # q,
           \A o \in Players \ {p, q} : member'[o] = member[o],
           \A type \in Sq!SquadRosterType :
               \/ One(Plays(p, type)') + One(Plays(q, type)') <= One(Plays(p, type)) + One(Plays(q, type))
               \/ /\ One(Plays(p, type)') + One(Plays(q, type)') <= One(Plays(p, type)) + One(Plays(q, type)) + 1
                  /\ Sq!HasRoom(type, {})
               \/ /\ One(Plays(p, type)') + One(Plays(q, type)') <= One(Plays(q, type)) + 1
                  /\ Sq!HasRoom(type, {p})
    PROVE  Sq!RosterWithinLimits'
  <1> SUFFICES ASSUME NEW type \in Sq!SquadRosterType PROVE Sq!Count(type, {})' <= Sq!Capacity(type)
    BY DEF Sq!RosterWithinLimits, Sq!Capacity
  <1>1. /\ Sq!Count(type, {p, q}) \in Nat
        /\ Sq!Count(type, {}) = Sq!Count(type, {p, q}) + One(Plays(p, type)) + One(Plays(q, type))
        /\ Sq!Count(type, {p}) = Sq!Count(type, {p, q}) + One(Plays(q, type))
        /\ Sq!Count(type, {})' = Sq!Count(type, {p, q}) + One(Plays(p, type)') + One(Plays(q, type)')
    BY TwoChange
  <1>2. Sq!Count(type, {}) <= Sq!Capacity(type) /\ Sq!Capacity(type) \in Nat
    BY Sizes DEF SquadInv, Sq!RosterWithinLimits, Sq!Capacity
  <1>3. One(Plays(p, type)) \in Nat /\ One(Plays(q, type)) \in Nat
        /\ One(Plays(p, type)') \in Nat /\ One(Plays(q, type)') \in Nat
    BY DEF One
  <1>4. /\ Sq!HasRoom(type, {}) => Sq!Count(type, {}) < Sq!Capacity(type)
        /\ Sq!HasRoom(type, {p}) => Sq!Count(type, {p}) < Sq!Capacity(type)
    BY DEF Sq!HasRoom
  <1> QED
    BY <1>1, <1>2, <1>3, <1>4

LEMMA RoomWithout ==
    ASSUME NEW type \in Sq!SquadRosterType, NEW p \in Players, Sq!HasRoom(type, {})
    PROVE  Sq!HasRoom(type, {p})
  <1>1. {} \cup {p} = {p} /\ p \in Players \ {}
    OBVIOUS
  <1>2. Sq!Count(type, {}) = Sq!Count(type, {p}) + One(Plays(p, type))
    BY <1>1, CountWithout
  <1>3. One(Plays(p, type)) \in Nat /\ Sq!Count(type, {p}) \in Nat /\ Sq!Capacity(type) \in Nat
    BY CountIsNat, Sizes DEF One, Sq!Capacity
  <1> QED
    BY <1>2, <1>3 DEF Sq!HasRoom

LEMMA TransferKeeps ==
    ASSUME SquadTypeInv, SquadInv, NEW r \in Requests, Sq!TransferWrite(r)
    PROVE  SquadInv'
  <1> PICK p : p = sqReq[r].who
    OBVIOUS
  <1> PICK q : q = sqReq[r].other
    OBVIOUS
  <1>1. Writing(r) /\ sqReq[r].op = "transfer" /\ sqReq[r].pc # "idle" /\ Sq!In(p) /\ Sq!In(q) /\ Sq!ThenSync(r)
    BY DEF Sq!TransferWrite, Sq!At, Writing
  <1>2. Sq!TypeOK /\ p \in Players /\ q \in Players /\ leader \in Players
    BY <1>1, UnderWay
  <1>3. q = leader /\ p # leader /\ member[p] = sqReq[r].row
    BY <1>1 DEF SquadInv, KnowsOf, Knows, StillSo
  <1>4. PICK slots \in Sq!TransferSlots(q, p, sqReq[r].row) :
            member' = [member EXCEPT ![q] = [role |-> "MEMBER", roster |-> slots[2]],
                                     ![p] = [role |-> squadOwnerAs, roster |-> slots[1]]]
    BY DEF Sq!TransferWrite
  <1>5. leader' = p /\ squadOwnerAs' = squadOwnerAs
    BY DEF Sq!TransferWrite
  <1>6. /\ member'[p] = [role |-> squadOwnerAs, roster |-> slots[1]]
        /\ member'[q] = [role |-> "MEMBER", roster |-> slots[2]]
        /\ \A o \in Players \ {p, q} : member'[o] = member[o]
    BY <1>2, <1>3, <1>4 DEF Sq!TypeOK
  <1>7. /\ member[q].role = squadOwnerAs /\ \A o \in Players : member[o].role = "LEADER" => o = q
        /\ squadOwnerAs = "LEADER" => member[q].roster = "MAIN"
        /\ squadOwnerAs \in {"LEADER", "MANAGER"} /\ leader # "nobody"
        /\ member[p].role \in {"MEMBER", "MANAGER"}
        /\ member[p].roster \in Sq!SquadRosterType /\ member[q].roster \in Sq!SquadRosterType
    BY <1>1, <1>2, <1>3, Sizes DEF SquadInv, Sq!OwnerLeads, LeaderPlays, Sq!TypeOK, Sq!Rows,
       Sq!SquadRole, Sq!In
  <1> DEFINE Fits(type) ==
               \/ One(Plays(p, type)') + One(Plays(q, type)') <= One(Plays(p, type)) + One(Plays(q, type))
               \/ /\ One(Plays(p, type)') + One(Plays(q, type)') <= One(Plays(p, type)) + One(Plays(q, type)) + 1
                  /\ Sq!HasRoom(type, {})
               \/ /\ One(Plays(p, type)') + One(Plays(q, type)') <= One(Plays(q, type)) + 1
                  /\ Sq!HasRoom(type, {p})
  <1>8. /\ \A type \in Sq!SquadRosterType : Fits(type)
        /\ squadOwnerAs = "LEADER" => slots[1] = "MAIN"
    <2>1. CASE squadOwnerAs = "MANAGER"
      <3>1. slots \in {<<member[p].roster, t>> : t \in
                    IF Sq!HasRoom(member[q].roster, {p}) THEN {member[q].roster}
                    ELSE {o \in {Sq!Other(member[q].roster)} : Sq!HasRoom(o, {p})}}
        BY <1>4, <1>7, <2>1 DEF Sq!TransferSlots
      <3>2. Sq!HasRoom(slots[2], {p})
        BY <3>1
      <3>3. ASSUME NEW type \in Sq!SquadRosterType PROVE Fits(type)
        <4>1. One(Plays(p, type)') = 0 /\ One(Plays(p, type)) \in Nat /\ One(Plays(q, type)) \in Nat
          BY <1>6, <2>1 DEF Plays, One
        <4>2. One(Plays(q, type)') = 0 \/ (One(Plays(q, type)') = 1 /\ type = slots[2])
          BY <1>6 DEF Plays, One
        <4> QED
          BY <3>2, <4>1, <4>2
      <3> QED
        BY <2>1, <3>3
    <2>2. CASE squadOwnerAs = "LEADER" /\ (member[p].role = "MANAGER" \/ member[p].roster = "SUBSTITUTE")
      <3>1. \/ slots = <<"MAIN", "MAIN">> /\ Sq!HasRoom("MAIN", {})
            \/ slots = <<"MAIN", "SUBSTITUTE">> /\ Sq!HasRoom("SUBSTITUTE", {})
        BY <1>3, <1>4, <1>7, <2>2 DEF Sq!TransferSlots
      <3>2. slots[1] = "MAIN" /\ slots[2] \in Sq!SquadRosterType
        BY <3>1 DEF Sq!SquadRosterType
      <3>3. /\ One(Plays(p, "MAIN")') = 1 /\ One(Plays(p, "SUBSTITUTE")') = 0
            /\ One(Plays(p, "MAIN")) = 0 /\ One(Plays(p, "SUBSTITUTE")) \in {0, 1}
            /\ One(Plays(q, "MAIN")) = 1 /\ One(Plays(q, "SUBSTITUTE")) = 0
        BY <1>6, <1>7, <2>2, <3>2 DEF One, Plays
      <3>4. CASE slots[2] = "MAIN"
        <4>1. One(Plays(q, "MAIN")') = 1 /\ One(Plays(q, "SUBSTITUTE")') = 0
          BY <1>6, <3>4 DEF One, Plays
        <4> QED
          BY <3>1, <3>2, <3>3, <3>4, <4>1 DEF Sq!SquadRosterType
      <3>5. CASE slots[2] = "SUBSTITUTE"
        <4>1. One(Plays(q, "MAIN")') = 0 /\ One(Plays(q, "SUBSTITUTE")') = 1
          BY <1>6, <3>5 DEF One, Plays
        <4> QED
          BY <3>1, <3>2, <3>3, <3>5, <4>1 DEF Sq!SquadRosterType
      <3> QED
        BY <3>2, <3>4, <3>5 DEF Sq!SquadRosterType
    <2>3. CASE squadOwnerAs = "LEADER" /\ ~(member[p].role = "MANAGER" \/ member[p].roster = "SUBSTITUTE")
      <3>1. slots = <<"MAIN", "MAIN">>
        BY <1>3, <1>4, <1>7, <2>3 DEF Sq!TransferSlots, Sq!SquadRosterType
      <3>2. /\ One(Plays(p, "MAIN")') = 1 /\ One(Plays(p, "SUBSTITUTE")') = 0
            /\ One(Plays(p, "MAIN")) = 1 /\ One(Plays(p, "SUBSTITUTE")) = 0
            /\ One(Plays(q, "MAIN")) = 1 /\ One(Plays(q, "SUBSTITUTE")) = 0
            /\ One(Plays(q, "MAIN")') = 1 /\ One(Plays(q, "SUBSTITUTE")') = 0
        BY <1>6, <1>7, <2>3, <3>1 DEF One, Plays, Sq!SquadRosterType
      <3> QED
        BY <3>1, <3>2 DEF Sq!SquadRosterType
    <2> QED
      BY <1>7, <2>1, <2>2, <2>3
  <1>9. Sq!RosterWithinLimits'
    BY <1>2, <1>3, <1>6, <1>8, TwoFit
  <1>10. Sq!OwnerLeads' /\ LeaderPlays'
    BY <1>2, <1>3, <1>5, <1>6, <1>7, <1>8 DEF Sq!OwnerLeads, LeaderPlays
  <1>11. \A s \in Requests : Writing(s)' => s # r /\ sqReq'[s] = sqReq[s]
    BY <1>1, <1>2, EndShape
  <1> QED
    BY <1>1, <1>9, <1>10, <1>11, SlotWritten DEF Sq!SlotOps

LEMMA SquadWriteStep ==
    ASSUME NoSquadRace, SquadTypeInv, SquadInv, NEW r \in Requests, Sq!Write(r)
    PROVE  SquadInv'
  <1>1. Writing(r) /\ sqReq[r].pc # "idle"
    BY DEF Sq!Write, Sq!At, Writing, Sq!JoinWrite, Sq!DropWrite, Sq!TransferWrite, Sq!RoleWrite,
       Sq!SwapWrite,
       Sq!InviteWrite, Sq!AcceptWrite, Sq!RejectWrite, Sq!ExpireWrite
  <1> PICK p : p = sqReq[r].who
    OBVIOUS
  <1> PICK q : q = sqReq[r].other
    OBVIOUS
  <1>2. /\ leader \in Players /\ leader # "nobody" /\ Sq!TypeOK /\ p \in Players /\ sqReq[r].new \in Sq!Rows
        /\ member[p] \in Sq!Rows /\ KnowsOf(r)
    BY <1>1, UnderWay, Sizes DEF Sq!TypeOK, SquadInv
  <1>3. /\ member[leader].role = squadOwnerAs /\ \A o \in Players : member[o].role = "LEADER" => o = leader
        /\ squadOwnerAs = "LEADER" => member[leader].roster = "MAIN"
        /\ squadOwnerAs \in {"LEADER", "MANAGER"}
    BY <1>2 DEF SquadInv, Sq!OwnerLeads, LeaderPlays, Sq!TypeOK
  <1>4. Sq!Done(r) \/ Sq!ThenSync(r) => \A s \in Requests : Writing(s)' => s # r /\ sqReq'[s] = sqReq[s]
    BY <1>2, EndShape
  <1>5. CASE Sq!JoinWrite(r)
    <2>1. /\ sqReq[r].new.role = "MEMBER" /\ Sq!HasRoom(sqReq[r].new.roster, {}) /\ ~Sq!In(p)
          /\ sqReq[r].new.roster \in Sq!SquadRosterType
      BY <1>2, <1>5 DEF Sq!JoinWrite, Sq!At, KnowsOf, Knows
    <2>2. member'[p] = sqReq[r].new /\ (\A o \in Players : o # p => member'[o] = member[o])
          /\ UNCHANGED <<leader, squadOwnerAs>> /\ Sq!ThenSync(r)
      BY <1>2, <1>5 DEF Sq!JoinWrite, Sq!TypeOK
    <2>3. Sq!HasRoom(sqReq[r].new.roster, {p})
      BY <1>2, <2>1, RoomWithout
    <2>4. Sq!RosterWithinLimits'
      BY <1>2, <2>2, <2>3, OneFits DEF Plays
    <2>5. p # leader
      BY <1>3, <2>1 DEF Sq!In
    <2>6. Sq!OwnerLeads' /\ LeaderPlays'
      BY <1>2, <1>3, <2>1, <2>2, <2>5 DEF Sq!OwnerLeads, LeaderPlays
    <2> QED
      BY <1>1, <1>4, <1>5, <2>2, <2>4, <2>6, SlotWritten DEF Sq!JoinWrite, Sq!At, Sq!SlotOps
  <1>6. CASE Sq!RoleWrite(r)
    <2> PICK row : row = sqReq[r].row
      OBVIOUS
    <2> PICK new : new = sqReq[r].new
      OBVIOUS
    <2>1. /\ member[p] = row /\ Sq!In(p) /\ Sq!RoleFits(p, row, new)
          /\ new.role # row.role => row.role # "LEADER" /\ p # leader /\ new.role # "LEADER"
          /\ (new.roster # row.roster /\ row.role = "LEADER") => new.roster = "MAIN"
      BY <1>2, <1>6 DEF Sq!RoleWrite, Sq!At, KnowsOf, Knows, StillSo
    <2>2. /\ member'[p] = [role |-> new.role, roster |-> new.roster]
          /\ \A o \in Players : o # p => member'[o] = member[o]
      BY <1>2, <1>6, <2>1 DEF Sq!RoleWrite, Sq!TypeOK
    <2>3. UNCHANGED <<leader, squadOwnerAs>> /\ Sq!ThenSync(r)
      BY <1>6 DEF Sq!RoleWrite
    <2>4. \A type \in Sq!SquadRosterType : Plays(p, type)' => Plays(p, type) \/ Sq!HasRoom(type, {p})
      BY <1>2, <2>1, <2>2 DEF Sq!RoleFits, Plays, Sq!Rows, Sq!SquadRole, Sq!In
    <2>5. Sq!RosterWithinLimits'
      BY <1>2, <2>2, <2>4, OneFits
    <2>6. Sq!OwnerLeads' /\ LeaderPlays'
      BY <1>2, <1>3, <2>1, <2>2, <2>3 DEF Sq!OwnerLeads, LeaderPlays
    <2> QED
      BY <1>1, <1>4, <1>6, <2>3, <2>5, <2>6, SlotWritten DEF Sq!RoleWrite, Sq!At, Sq!SlotOps
  <1>7. CASE Sq!SwapWrite(r)
    <2>1. q \in Players
      BY <1>1, <1>7, UnderWay DEF Sq!SwapWrite, Sq!At
    <2>2. /\ p # q /\ member[p] = [role |-> "MEMBER", roster |-> "MAIN"]
          /\ member[q].role \in {"MEMBER", "LEADER"} /\ member[q].roster = "SUBSTITUTE"
      BY <1>2, <1>7 DEF Sq!SwapWrite, Sq!At, KnowsOf, Knows, StillSo
    <2>3. /\ member'[p] = [member[p] EXCEPT !.roster = "SUBSTITUTE"]
          /\ member'[q] = [member[q] EXCEPT !.roster = "MAIN"]
          /\ \A o \in Players \ {p, q} : member'[o] = member[o]
          /\ UNCHANGED <<leader, squadOwnerAs>> /\ Sq!ThenSync(r)
      BY <1>2, <1>7, <2>1, <2>2 DEF Sq!SwapWrite, Sq!TypeOK
    <2>4. /\ member'[p].role = "MEMBER" /\ member'[p].roster = "SUBSTITUTE"
          /\ member'[q].role = member[q].role /\ member'[q].roster = "MAIN"
      BY <1>2, <2>1, <2>2, <2>3 DEF Sq!TypeOK, Sq!Rows
    <2>5. /\ One(Plays(p, "MAIN")') = 0 /\ One(Plays(p, "SUBSTITUTE")') = 1
          /\ One(Plays(p, "MAIN")) = 1 /\ One(Plays(p, "SUBSTITUTE")) = 0
          /\ One(Plays(q, "MAIN")) = 0 /\ One(Plays(q, "SUBSTITUTE")) = 1
          /\ One(Plays(q, "MAIN")') = 1 /\ One(Plays(q, "SUBSTITUTE")') = 0
      BY <2>2, <2>4 DEF One, Plays
    <2>6. \A type \in Sq!SquadRosterType :
              One(Plays(p, type)') + One(Plays(q, type)') <= One(Plays(p, type)) + One(Plays(q, type))
      BY <2>5 DEF Sq!SquadRosterType
    <2>7. Sq!RosterWithinLimits'
      BY <1>2, <2>1, <2>2, <2>3, <2>6, TwoFit
    <2>8. ASSUME NEW o \in Players PROVE member'[o].role = member[o].role
      <3>1. CASE o = p
        BY <2>2, <2>4, <3>1
      <3>2. CASE o = q
        BY <2>4, <3>2
      <3> QED
        BY <2>3, <3>1, <3>2
    <2>9. Sq!OwnerLeads' /\ LeaderPlays'
      BY <1>2, <1>3, <2>1, <2>2, <2>3, <2>4, <2>8 DEF Sq!OwnerLeads, LeaderPlays
    <2> QED
      BY <1>1, <1>4, <1>7, <2>3, <2>7, <2>9, SlotWritten DEF Sq!SwapWrite, Sq!At, Sq!SlotOps
  <1>8. CASE Sq!DropWrite(r) \/ Sq!RejectWrite(r)
    <2>1. p # leader
      BY <1>2, <1>8 DEF Sq!DropWrite, Sq!RejectWrite, Sq!At, KnowsOf, Knows, NoSquadRace
    <2>2. /\ member' = [member EXCEPT ![p] = Sq!NoMember] /\ UNCHANGED <<leader, squadOwnerAs>>
          /\ sqReq' = [Sq!Forget(p) EXCEPT ![r] = [Sq!NoRequest EXCEPT !.pc = "sync"]]
      BY <1>8 DEF Sq!DropWrite, Sq!RejectWrite
    <2>3. \A s \in Requests : Writing(s)' => sqReq'[s] = sqReq[s]
      BY <1>2, <2>2, ForgetShape
    <2> QED
      BY <1>2, <2>1, <2>2, <2>3, SquadLeaves
  <1>9. CASE Sq!InviteWrite(r) \/ Sq!AcceptWrite(r) \/ Sq!ExpireWrite(r)
    BY <1>4, <1>9, SquadRests DEF Sq!InviteWrite, Sq!AcceptWrite, Sq!ExpireWrite
  <1> QED
    BY <1>5, <1>6, <1>7, <1>8, <1>9, TransferKeeps DEF Sq!Write

\* A squad is created with the roster of its first team, or with its owner alone.
LEMMA SquadCreateStep ==
    ASSUME SquadTypeInv, TeamInv, SquadInv, Sq!Create
    PROVE  SquadInv'
  <1>1. /\ Sq!TypeOK /\ \A o \in Players : ~Sq!In(o)
        /\ \A r \in Requests : sqReq[r].pc = "idle"
        /\ squadOwnerAs \in {"LEADER", "MANAGER"}
    BY DEF SquadTypeInv, NotBorn, Sq!Create, Sq!CreateSquad, Sq!SaveSquad, Sq!TypeOK
  <1>2. squadOwnerAs' = squadOwnerAs /\ sqReq' = sqReq
    BY DEF Sq!Create, Sq!CreateSquad, Sq!SaveSquad
  <1>3. \A r \in Requests : ~Writing(r)'
    BY <1>1, <1>2 DEF Writing
  <1>4. OneSlotOp' /\ NoDropUnderTransfer'
    BY <1>3 DEF OneSlotOp, NoDropUnderTransfer
  <1>5. ASSUME NEW p \in Players, Sq!CreateSquad(p)
        PROVE  Sq!OwnerLeads' /\ LeaderPlays' /\ Sq!RosterWithinLimits'
    <2>1. /\ member'[p] = [role |-> squadOwnerAs, roster |-> "MAIN"] /\ leader' = p
          /\ \A o \in Players : o # p => member'[o] = member[o]
      BY <1>1, <1>5 DEF Sq!CreateSquad, Sq!TypeOK
    <2>2. Sq!OwnerLeads' /\ LeaderPlays'
      BY <1>1, <1>2, <2>1 DEF Sq!OwnerLeads, LeaderPlays, Sq!In
    <2>3. \A type \in Sq!SquadRosterType : Plays(p, type)' => type = "MAIN"
      BY <2>1 DEF Plays
    <2>4. Sq!Playing("MAIN", {p}) = {}
      BY <1>1 DEF Sq!Playing, Sq!In
    <2>5. Sq!HasRoom("MAIN", {p})
      BY SameCardinality, <2>4, FS_EmptySet, Sizes DEF Sq!HasRoom, Sq!Count, Sq!Capacity
    <2> QED
      BY <2>1, <2>2, <2>3, <2>5, OneFits
  <1>6. ASSUME Sq!SaveSquad
        PROVE  Sq!OwnerLeads' /\ LeaderPlays' /\ Sq!RosterWithinLimits'
    <2>1. /\ squadCaptain # "nobody" /\ squadCaptain \in Players /\ leader' = squadCaptain
          /\ leader = "nobody" /\ team \in TeamRows
          /\ team[squadCaptain] = Sq!OwnerRoleOf(squadOwnerAs)
          /\ Cardinality(Sq!TeamMains) = MaxMain
      BY SameCardinality, <1>1, <1>6 DEF Sq!SaveSquad, TeamInv, Sq!TypeOK, Sq!Anyone, TeamRows
    <2>2. \A q \in Players : member'[q] = IF q \in Sq!TeamMembers THEN Sq!RowOf(q) ELSE Sq!NoMember
      BY <1>6 DEF Sq!SaveSquad
    <2>3. squadCaptain \in Sq!TeamMembers
      BY <2>1 DEF TeamInv, Sq!TeamMembers
    <2>4. /\ Sq!RowOf(squadCaptain) = [role |-> squadOwnerAs, roster |-> "MAIN"]
          /\ \A q \in Players \ {squadCaptain} : Sq!RowOf(q).role \in {"MANAGER", "MEMBER"}
      BY <1>1, <2>1 DEF Sq!RowOf, Sq!OwnerRoleOf
    <2>5. Sq!OwnerLeads' /\ LeaderPlays'
      BY <1>2, <2>1, <2>2, <2>3, <2>4, Records DEF Sq!OwnerLeads, LeaderPlays
    <2>6. ASSUME NEW q \in Players, NEW type \in Sq!SquadRosterType, Plays(q, type)'
          PROVE  IF type = "SUBSTITUTE" THEN team[q] = "SUBSTITUTE" ELSE q \in Sq!TeamMains
      <3>1. q \in Sq!TeamMembers /\ member'[q] = Sq!RowOf(q)
        BY <2>2, <2>6, Records DEF Plays
      <3>2. /\ (team[q] = "SUBSTITUTE") <=> (type = "SUBSTITUTE")
            /\ team[q] # "MANAGER"
        BY <2>6, <3>1 DEF Plays, Sq!RowOf
      <3>3. team[q] \in Sq!TeamMemberRole
        BY <2>1, <3>1 DEF Sq!TeamMembers, TeamRows
      <3> QED
        BY <3>2, <3>3 DEF Sq!TeamMains, Sq!TeamMemberRole
    <2>7. Sq!Playing("MAIN", {})' \subseteq Sq!TeamMains /\ IsFiniteSet(Sq!TeamMains)
      BY <2>6, Sizes, FS_Subset DEF Sq!Playing, Plays, Sq!TeamMains, Sq!SquadRosterType
    <2>8. Sq!Count("MAIN", {})' <= MaxMain
      BY SameCardinality, <2>1, <2>7, FS_Subset DEF Sq!Count
    <2>9. \A q \in Sq!Playing("SUBSTITUTE", {})' : q \in Players /\ team[q] = "SUBSTITUTE"
      BY <2>6 DEF Sq!Playing, Plays, Sq!SquadRosterType
    <2>10. Cardinality(Sq!Playing("SUBSTITUTE", {})') \in {0, 1}
      <3>1. CASE Sq!Playing("SUBSTITUTE", {})' = {}
        BY <3>1, FS_EmptySet
      <3>2. ASSUME NEW q \in Sq!Playing("SUBSTITUTE", {})' PROVE Sq!Playing("SUBSTITUTE", {})' = {q}
        BY <2>9 DEF TeamInv
      <3>3. \A S : (\E q \in S : S = {q}) => Cardinality(S) = 1
        BY FS_Singleton
      <3> QED
        BY <3>1, <3>2, <3>3
    <2>11. Sq!Count("SUBSTITUTE", {})' <= MaxSubs
      BY SameCardinality, <2>10, CountIsNat, Sizes DEF Sq!Count
    <2> QED
      BY <2>5, <2>8, <2>11 DEF Sq!RosterWithinLimits, Sq!SquadRosterType, Sq!Capacity
  <1>7. Sq!OwnerLeads' /\ LeaderPlays' /\ Sq!RosterWithinLimits'
    BY <1>5, <1>6 DEF Sq!Create
  <1> QED
    BY <1>3, <1>4, <1>7 DEF SquadInv

\* The members of the team who come are counted in the roster that their rows name.
LEMMA ComingCounted ==
    ASSUME Sq!TypeOK, NEW new \in SUBSET Players, \A q \in new : ~Sq!In(q),
           member' = [q \in Players |-> IF q \in new THEN Sq!RowOf(q) ELSE member[q]],
           NEW type \in Sq!SquadRosterType
    PROVE  /\ Sq!Count(type, {})' <= Sq!Count(type, {}) + Cardinality(Sq!Comes(new, type))
           /\ Cardinality(Sq!Comes(new, type)) \in Nat
  <1> DEFINE A == Sq!Playing(type, {})
             C == Sq!Comes(new, type)
  <1>1. Sq!Playing(type, {})' \subseteq A \cup C
    <2>1. \A q \in Players : member'[q] = IF q \in new THEN Sq!RowOf(q) ELSE member[q]
      OBVIOUS
    <2> QED
      BY <2>1 DEF Sq!Playing, Sq!Comes
  <1>2. IsFiniteSet(C) /\ Cardinality(C) \in Nat
    <2>1. C \subseteq Players
      BY DEF Sq!Comes
    <2> QED
      BY <2>1, Sizes, FS_Subset, FS_CardinalityType
  <1>3. IsFiniteSet(A) /\ IsFiniteSet(A \cap C) /\ Cardinality(A) \in Nat /\ Cardinality(A \cap C) \in Nat
    BY <1>2, CountIsNat, FS_Intersection, FS_CardinalityType DEF Sq!Count
  <1>4. IsFiniteSet(A \cup C) /\ Cardinality(A \cup C) = Cardinality(A) + Cardinality(C) - Cardinality(A \cap C)
    BY <1>2, <1>3, FS_Union
  <1>5. Cardinality(Sq!Playing(type, {})') <= Cardinality(A \cup C)
    BY <1>1, <1>4, FS_Subset
  <1>6. Cardinality(Sq!Playing(type, {})') <= Cardinality(A) + Cardinality(C)
    <2>1. Cardinality(Sq!Playing(type, {})') \in Nat
      BY SameCardinality, CountIsNat DEF Sq!Count
    <2> HIDE DEF A, C
    <2> QED
      BY <1>2, <1>3, <1>4, <1>5, <2>1
  <1> QED
    BY SameCardinality, <1>2, <1>6 DEF Sq!Count

\* A squad's row leads only for the captain, who is not among those who come into a squad
\* that exists; a squad that is created has the captain with it.
LEMMA SquadSyncStep ==
    ASSUME NoSquadRace, SquadTypeInv, TeamInv, SquadInv, Sq!SyncTeamToSquad
    PROVE  SquadInv'
  <1>1. PICK away \in SUBSET {q \in Sq!TeamMembers : ~Sq!In(q)} :
            LET new == {q \in Sq!TeamMembers : ~Sq!In(q)} \ away
            IN  /\ leader # "nobody" => squadCaptain \notin new
                /\ ~Sq!InFlight(Sq!SlotOps \cup {"invite"}) /\ Sq!HasRoomFor(new)
                /\ leader = "nobody" => squadCaptain \notin away
                /\ member' = [q \in Players |-> IF q \in new THEN Sq!RowOf(q) ELSE member[q]]
    BY DEF Sq!SyncTeamToSquad, NoSquadRace
  <1> PICK new : new = {q \in Sq!TeamMembers : ~Sq!In(q)} \ away
    OBVIOUS
  <1>2. /\ Sq!TypeOK /\ NotBorn /\ squadCaptain # "nobody" /\ squadCaptain \in Players
        /\ squadOwnerAs \in {"LEADER", "MANAGER"} /\ team \in TeamRows
        /\ new \in SUBSET Players /\ \A q \in new : ~Sq!In(q)
        /\ leader' = (IF leader = "nobody" THEN squadCaptain ELSE leader)
        /\ squadOwnerAs' = squadOwnerAs /\ sqReq' = sqReq
    BY DEF SquadTypeInv, Sq!SyncTeamToSquad, Sq!TypeOK, Sq!Anyone, TeamRows, Sq!TeamMembers
  <1>3. \A q \in Players : member'[q] = IF q \in new THEN Sq!RowOf(q) ELSE member[q]
    BY <1>1
  <1>4. \A q \in Players \ {squadCaptain} : Sq!RowOf(q).role \in {"MANAGER", "MEMBER"}
    BY DEF Sq!RowOf
  <1>5. Sq!OwnerLeads' /\ LeaderPlays'
    <2>1. CASE leader = "nobody"
      <3>1. squadCaptain \in new
        BY <1>1, <1>2, <2>1 DEF NotBorn, TeamInv, Sq!TeamMembers
      <3>2. Sq!RowOf(squadCaptain) = [role |-> squadOwnerAs, roster |-> "MAIN"]
        BY <1>2, <2>1 DEF TeamInv, Sq!RowOf, Sq!OwnerRoleOf
      <3>3. \A q \in Players : ~Sq!In(q)
        BY <1>2, <2>1 DEF NotBorn
      <3> QED
        BY <1>2, <1>3, <1>4, <2>1, <3>1, <3>2, <3>3 DEF Sq!OwnerLeads, LeaderPlays, Sq!In
    <2>2. CASE leader # "nobody"
      <3>1. leader \in Players /\ leader \notin new /\ squadCaptain \notin new /\ leader' = leader
        BY <1>1, <1>2, <2>2 DEF SquadInv, Sq!OwnerLeads, Sq!In, Sq!TypeOK, Sq!Anyone
      <3> QED
        BY <1>2, <1>3, <1>4, <2>2, <3>1 DEF SquadInv, Sq!OwnerLeads, LeaderPlays
    <2> QED
      BY <2>1, <2>2
  <1>6. ASSUME NEW type \in Sq!SquadRosterType PROVE Sq!Count(type, {})' <= Sq!Capacity(type)'
    <2>1. Sq!Count(type, {})' <= Sq!Count(type, {}) + Cardinality(Sq!Comes(new, type))
          /\ Cardinality(Sq!Comes(new, type)) \in Nat
      BY <1>1, <1>2, ComingCounted
    <2>2. Sq!Count(type, {}) + Cardinality(Sq!Comes(new, type)) <= Sq!Capacity(type)
      BY SameCardinality, <1>1 DEF Sq!HasRoomFor
    <2>3. Sq!Count(type, {}) \in Nat /\ Sq!Count(type, {})' \in Nat
      BY CountIsNat
    <2>4. Sq!Capacity(type)' = Sq!Capacity(type) /\ Sq!Capacity(type) \in Nat
      BY Sizes DEF Sq!Capacity
    <2> QED
      BY <2>1, <2>2, <2>3, <2>4
  <1>7. Sq!RosterWithinLimits'
    BY <1>6 DEF Sq!RosterWithinLimits
  <1>8. \A s \in Requests : Writing(s)' => Writing(s) /\ sqReq'[s] = sqReq[s] /\ sqReq[s].op \notin Sq!SlotOps
    BY <1>1, <1>2 DEF Sq!InFlight, Writing
  <1>9. OneSlotOp' /\ NoDropUnderTransfer'
    BY <1>8 DEF SquadInv, OneSlotOp, NoDropUnderTransfer
  <1>10. ASSUME NEW s \in Requests, Writing(s)' PROVE KnowsOf(s)'
    <2>1. KnowsOf(s) /\ sqReq'[s] = sqReq[s] /\ sqReq[s].op \notin {"join", "transfer", "role", "swap"}
      BY <1>8, <1>10 DEF SquadInv, Sq!SlotOps
    <2>2. leader' = leader
      BY <1>2, <1>8, <1>10 DEF NotBorn, Writing
    <2> QED
      BY <2>1, <2>2 DEF KnowsOf, Knows
  <1> QED
    BY <1>5, <1>7, <1>9, <1>10 DEF SquadInv

LEMMA SquadStep ==
    ASSUME NoSquadRace
    PROVE  SquadTypeInv /\ TeamInv /\ SquadInv /\ [Sq!Next]_(Sq!vars) => SquadInv'
  <1> SUFFICES ASSUME SquadTypeInv, TeamInv, SquadInv, [Sq!Next]_(Sq!vars) PROVE SquadInv'
    OBVIOUS
  <1>1. Sq!TypeOK /\ sqReq \in [Requests -> Request]
    BY Records DEF SquadTypeInv
  <1>2. CASE UNCHANGED Sq!vars
    BY <1>2, SquadRests DEF Sq!vars, Sq!roster
  <1>3. ASSUME NEW r \in Requests, Sq!Operate(r) PROVE SquadInv'
    <2>1. CASE Sq!InviteRead(r) \/ \E p \in Players : Sq!Start(r, p)
      BY <2>1, SquadReadStep
    <2>2. CASE Sq!Write(r)
      BY <2>2, SquadWriteStep
    <2>3. CASE Sq!Throw(r) \/ Sq!SyncWrite(r)
      <3>1. \A s \in Requests : Writing(s)' => sqReq'[s] = sqReq[s]
        BY <1>1, <2>3, EndShape DEF Sq!Throw, Sq!SyncWrite
      <3> QED
        BY <2>3, <3>1, SquadRests DEF Sq!Throw, Sq!SyncWrite
    <2>4. CASE Sq!SyncRead(r)
      <3>1. \A s \in Requests : Writing(s)' => sqReq'[s] = sqReq[s]
        BY <1>1, <2>4 DEF Sq!SyncRead, Writing, Request
      <3> QED
        BY <2>4, <3>1, SquadRests DEF Sq!SyncRead
    <2> QED
      BY <1>3, <2>1, <2>2, <2>3, <2>4 DEF Sq!Operate, Sq!Continue
  <1>4. CASE Sq!Expire \/ Sq!TournamentEnds \/ Sq!TeamChanges
    BY <1>4, SquadRests DEF Sq!Expire, Sq!TournamentEnds, Sq!TeamChanges, Sq!CreateTeam, Sq!TeamJoins,
       Sq!TeamLeaves, Sq!TeamTransfers
  <1> QED
    BY <1>2, <1>3, <1>4, SquadCreateStep, SquadSyncStep DEF Sq!Next, Sq!SquadSteps

LEMMA SquadHolds ==
    ASSUME NoSquadRace
    PROVE  Sq!Spec => []SquadInv
  <1>1. Sq!Init => SquadInv
    <2> SUFFICES ASSUME Sq!Init PROVE SquadInv
      OBVIOUS
    <2>1. \A type \in Sq!SquadRosterType : Sq!Playing(type, {}) = {}
      BY Records DEF Sq!Init, Sq!Playing
    <2>2. Sq!RosterWithinLimits
      BY SameCardinality, <2>1, FS_EmptySet, Sizes DEF Sq!RosterWithinLimits, Sq!Count,
         Sq!Capacity
    <2>3. \A r \in Requests : ~Writing(r)
      BY Records DEF Sq!Init, Writing
    <2> QED
      BY <2>2, <2>3 DEF Sq!Init, SquadInv, OneSlotOp, NoDropUnderTransfer, Sq!OwnerLeads,
         LeaderPlays
  <1>2. Sq!Init => SquadTypeInv
    BY SquadTypeInit
  <1> QED
    BY <1>1, <1>2, TeamInit, SquadTypeStep, TeamStep, SquadStep, PTL DEF Sq!Spec

\* If requests that fill slots do not overlap, nobody leaves under a transfer, the owner does not
\* reject an old invitation, members of the team come only where the squad has places for them
\* and the captain is with the team that becomes a squad, then the owner holds the owner's role
\* and nobody else leads, for any roster size and any number of players and requests.
THEOREM OwnerKeepsRole ==
    ASSUME NoSquadRace
    PROVE  (Sq!Spec => []Sq!OwnerLeads) /\ (SpecAll => []OwnerLeads)
  <1>1. SquadInv => Sq!OwnerLeads
    BY DEF SquadInv
  <1>2. Sq!Spec => []Sq!OwnerLeads
    BY <1>1, SquadHolds, PTL
  <1>3. OwnerLeads <=> Sq!OwnerLeads
    BY DEF OwnerLeads
  <1> QED
    BY <1>2, <1>3, EachPartRuns, PTL

\* Under the same hypotheses no squad has more main players or substitutes than places, though
\* some counts are taken before the transaction, refreshes, invitations and answers race, and
\* a squad is created from whatever roster its team has.
THEOREM LimitsHold ==
    ASSUME NoSquadRace
    PROVE  (Sq!Spec => []Sq!RosterWithinLimits) /\ (SpecAll => []RosterWithinLimits)
  <1>1. SquadInv => Sq!RosterWithinLimits
    BY DEF SquadInv
  <1>2. Sq!Spec => []Sq!RosterWithinLimits
    BY <1>1, SquadHolds, PTL
  <1>3. RosterWithinLimits <=> Sq!RosterWithinLimits
    BY DEF RosterWithinLimits
  <1> QED
    BY <1>2, <1>3, EachPartRuns, PTL

-----------------------------------------------------------------------------
(* The waitlist row.                                                         *)

\* Refreshes do not overlap, the squad does not change while it is invited, and no member of
\* the team fills the roster beside the waitlist row.  Requests that change the roster may race each other.
NoSyncRace == Env \cap {"syncRace", "inviteRace", "teamReturns"} = {}

Inviting(r) == sqReq[r].pc = "write" /\ sqReq[r].op = "invite"
InviteAlone ==
    \A r \in Requests : Inviting(r) =>
        Sq!Count("MAIN", {}) = MaxMain /\ \A s \in Requests \ {r} : sqReq[s].pc = "idle"

\* A refresh has yet to count, or the one that has counted is right and what it will not
\* correct is right already.
Synced ==
    \/ \E r \in Requests : sqReq[r].pc = "sync"
    \/ /\ \A r \in Requests : sqReq[r].pc = "syncWrite" => sqReq[r].full = Sq!MainIsFull
       /\ waitlist = Sq!Status(Sq!MainIsFull) \/ \E r \in Requests : sqReq[r].pc = "syncWrite"

SyncInv == InviteAlone /\ (live /\ waitlist # "NONE" => Synced)

\* A request changes the roster and leaves its refresh to do.
LEMMA RefreshLeft ==
    ASSUME SyncInv, NEW r \in Requests, sqReq[r].pc # "idle", ~Inviting(r), sqReq'[r].pc = "sync",
           \A s \in Requests : Writing(s)' => s # r /\ sqReq'[s] = sqReq[s]
    PROVE  SyncInv'
  <1>1. \A s \in Requests : ~Inviting(s)
    BY DEF SyncInv, InviteAlone
  <1>2. \A s \in Requests : ~Inviting(s)'
    BY <1>1 DEF Inviting, Writing
  <1> QED
    BY <1>2 DEF SyncInv, InviteAlone, Synced

\* Roster, row and refreshes stay; requests begin or end.
LEMMA RefreshRests ==
    ASSUME SyncInv, UNCHANGED <<member, waitlist>>, live' = live \/ live' = FALSE,
           \A s \in Requests :
               \/ sqReq'[s] = sqReq[s]
               \/ (sqReq[s].pc \in {"idle", "write"} /\ sqReq'[s].pc \in {"idle", "write"}),
           InviteAlone'
    PROVE  SyncInv'
  <1>1. Sq!MainIsFull' = Sq!MainIsFull
    BY DEF Sq!MainIsFull, Sq!Count, Sq!Playing
  <1>2. \A s \in Requests :
           /\ (sqReq'[s].pc = "sync") <=> (sqReq[s].pc = "sync")
           /\ (sqReq'[s].pc = "syncWrite") <=> (sqReq[s].pc = "syncWrite")
           /\ sqReq[s].pc = "syncWrite" => sqReq'[s].full = sqReq[s].full
    OBVIOUS
  <1>3. Synced => Synced'
    BY <1>1, <1>2 DEF Synced, Sq!Status
  <1> QED
    BY <1>3 DEF SyncInv

LEMMA NoNewInvite ==
    ASSUME InviteAlone, UNCHANGED member,
           \A s \in Requests : sqReq'[s] = sqReq[s] \/ sqReq'[s].pc = "idle"
    PROVE  InviteAlone'
  <1>1. Sq!Count("MAIN", {})' = Sq!Count("MAIN", {})
    BY DEF Sq!Count, Sq!Playing
  <1>2. \A s \in Requests : Inviting(s)' => Inviting(s)
    BY DEF Inviting
  <1> QED
    BY <1>1, <1>2 DEF InviteAlone

LEMMA SyncReads ==
    ASSUME NoSyncRace, Sq!TypeOK, SyncInv, NEW r \in Requests, NEW op, NEW who, NEW other, NEW row, NEW new,
           Sq!Begin(r, op, who, other, row, new), op = "invite" => Sq!Count("MAIN", {}) = MaxMain
    PROVE  SyncInv'
  <1> DEFINE x == [pc |-> "write", op |-> op, who |-> who, other |-> other,
                   row |-> row, new |-> new, full |-> FALSE]
  <1>1. /\ UNCHANGED <<member, waitlist, live>> /\ sqReq[r].pc = "idle"
        /\ sqReq'[r] = x /\ \A s \in Requests : s # r => sqReq'[s] = sqReq[s]
    BY BeginShape
  <1>2. sqReq'[r].pc = "write" /\ sqReq'[r].op = op
    BY <1>1
  <1> HIDE DEF x
  <1>3. \/ op # "invite" /\ \A s \in Requests : ~Inviting(s)
        \/ \A s \in Requests : sqReq[s].pc = "idle"
    BY DEF NoSyncRace, Sq!Begin, Sq!InFlight, Inviting
  <1>4. Sq!Count("MAIN", {})' = Sq!Count("MAIN", {})
    BY <1>1 DEF Sq!Count, Sq!Playing
  <1>5. InviteAlone'
    BY <1>1, <1>2, <1>3, <1>4 DEF InviteAlone, Inviting
  <1> QED
    BY <1>1, <1>2, <1>5, RefreshRests

LEMMA SyncReadStep ==
    ASSUME NoSyncRace, SquadTypeInv, SyncInv, NEW r \in Requests,
           Sq!InviteRead(r) \/ \E p \in Players : Sq!Start(r, p)
    PROVE  SyncInv'
  <1>1. Sq!TypeOK
    BY DEF SquadTypeInv
  <1>2. CASE Sq!InviteRead(r)
    <2>1. Sq!Begin(r, "invite", leader, "nobody", Sq!NoMember, Sq!NoMember) /\ Sq!Count("MAIN", {}) = MaxMain
      BY <1>2 DEF Sq!InviteRead
    <2> QED
      BY <1>1, <2>1, SyncReads
  <1>3. ASSUME NEW p \in Players, Sq!Start(r, p) PROVE SyncInv'
    <2>1. \E op, who, other, row, new : op # "invite" /\ Sq!Begin(r, op, who, other, row, new)
      <3>1. CASE Sq!JoinRead(r, p)
        BY <3>1 DEF Sq!JoinRead
      <3>2. CASE Sq!LeaveRead(r, p) \/ Sq!RemoveRead(r, p)
        BY <3>2 DEF Sq!LeaveRead, Sq!RemoveRead
      <3>3. CASE Sq!TransferRead(r, p)
        BY <3>3 DEF Sq!TransferRead
      <3>4. CASE \E new \in [role : Sq!SquadRole, roster : Sq!SquadRosterType] : Sq!RoleRead(r, p, new)
        BY <3>4 DEF Sq!RoleRead
      <3>5. CASE \E q \in Players : Sq!SwapRead(r, p, q)
        BY <3>5 DEF Sq!SwapRead
      <3>6. CASE \E op \in {"accept", "reject"} : Sq!AnswerRead(r, p, op)
        <4>1. PICK o \in {"accept", "reject", "expire"} : Sq!Begin(r, o, p, "nobody", Sq!NoMember, Sq!NoMember)
          BY <3>6 DEF Sq!AnswerRead
        <4> QED
          BY <4>1
      <3> QED
        BY <1>3, <3>1, <3>2, <3>3, <3>4, <3>5, <3>6 DEF Sq!Start
    <2> QED
      BY <1>1, <2>1, SyncReads
  <1> QED
    BY <1>2, <1>3

LEMMA SyncWriteStep ==
    ASSUME NoSyncRace, SquadTypeInv, SyncInv, NEW r \in Requests, Sq!Write(r)
    PROVE  SyncInv'
  <1>1. Writing(r) /\ sqReq[r].pc # "idle" /\ sqReq[r].pc = "write"
    BY DEF Sq!Write, Sq!At, Writing, Sq!JoinWrite, Sq!DropWrite, Sq!TransferWrite, Sq!RoleWrite,
       Sq!SwapWrite,
       Sq!InviteWrite, Sq!AcceptWrite, Sq!RejectWrite, Sq!ExpireWrite
  <1>2. Sq!TypeOK /\ sqReq[r].who \in Players
    BY <1>1, UnderWay
  <1>3. CASE Sq!JoinWrite(r) \/ Sq!TransferWrite(r) \/ Sq!RoleWrite(r) \/ Sq!SwapWrite(r)
    <2>1. Sq!ThenSync(r) /\ ~Inviting(r)
      BY <1>3 DEF Sq!JoinWrite, Sq!TransferWrite, Sq!RoleWrite, Sq!SwapWrite, Sq!At, Inviting
    <2>2. sqReq'[r].pc = "sync" /\ \A s \in Requests : Writing(s)' => s # r /\ sqReq'[s] = sqReq[s]
      BY <1>2, <2>1, EndShape
    <2> QED
      BY <1>1, <2>1, <2>2, RefreshLeft
  <1>4. CASE Sq!DropWrite(r) \/ Sq!RejectWrite(r)
    <2>1. sqReq' = [Sq!Forget(sqReq[r].who) EXCEPT ![r] = [Sq!NoRequest EXCEPT !.pc = "sync"]] /\ ~Inviting(r)
      BY <1>4 DEF Sq!DropWrite, Sq!RejectWrite, Sq!At, Inviting
    <2>2. sqReq'[r].pc = "sync" /\ \A s \in Requests : Writing(s)' => s # r /\ sqReq'[s] = sqReq[s]
      BY <1>2, <2>1, ForgetShape
    <2> QED
      BY <1>1, <2>1, <2>2, RefreshLeft
  <1>5. CASE Sq!InviteWrite(r)
    <2>1. Inviting(r) /\ Sq!Done(r) /\ waitlist' = "CONFIRMED" /\ member' = member
      BY <1>5 DEF Sq!InviteWrite, Sq!At, Inviting, Sq!roster
    <2>2. sqReq'[r].pc = "idle" /\ \A s \in Requests : s # r => sqReq'[s] = sqReq[s]
      BY <1>2, <2>1, EndShape
    <2>3. Sq!Count("MAIN", {}) = MaxMain /\ \A s \in Requests : sqReq'[s].pc = "idle"
      BY <2>1, <2>2 DEF SyncInv, InviteAlone
    <2>4. Sq!Count("MAIN", {})' = MaxMain
      BY <2>1, <2>3 DEF Sq!Count, Sq!Playing
    <2>5. Sq!MainIsFull'
      BY <2>4, Sizes DEF Sq!MainIsFull
    <2>6. Synced'
      BY <2>1, <2>3, <2>5 DEF Synced, Sq!Status
    <2> QED
      BY <2>3, <2>6 DEF SyncInv, InviteAlone, Inviting
  <1>6. CASE Sq!AcceptWrite(r) \/ Sq!ExpireWrite(r)
    <2>1. Sq!Done(r) /\ UNCHANGED <<member, waitlist, live>>
      BY <1>6 DEF Sq!AcceptWrite, Sq!ExpireWrite, Sq!roster
    <2>2. sqReq'[r].pc = "idle" /\ \A s \in Requests : s # r => sqReq'[s] = sqReq[s]
      BY <1>2, <2>1, EndShape
    <2>3. InviteAlone'
      BY <2>1, <2>2, NoNewInvite DEF SyncInv
    <2> QED
      BY <1>1, <2>1, <2>2, <2>3, RefreshRests
  <1> QED
    BY <1>3, <1>4, <1>5, <1>6 DEF Sq!Write

\* The count and the update of the row.
LEMMA RefreshStep ==
    ASSUME NoSyncRace, SquadTypeInv, SyncInv, NEW r \in Requests, Sq!SyncRead(r) \/ Sq!SyncWrite(r)
    PROVE  SyncInv'
  <1>1. Sq!TypeOK /\ sqReq \in [Requests -> Request]
    BY Records DEF SquadTypeInv
  <1>2. \A s \in Requests : ~Inviting(s)
    BY DEF SyncInv, InviteAlone, Sq!SyncRead, Sq!SyncWrite, Inviting
  <1>3. member' = member /\ live' = live
    BY DEF Sq!SyncRead, Sq!SyncWrite, Sq!roster, Sq!tournament
  <1>4. Sq!MainIsFull' = Sq!MainIsFull /\ Sq!MainIsFull \in BOOLEAN
    BY <1>3 DEF Sq!MainIsFull, Sq!Count, Sq!Playing
  <1>5. CASE Sq!SyncRead(r)
    <2>1. /\ sqReq'[r].pc = "syncWrite" /\ sqReq'[r].full = Sq!MainIsFull
          /\ \A s \in Requests : s # r => sqReq'[s] = sqReq[s]
      BY <1>1, <1>5 DEF Sq!SyncRead, Request
    <2>2. (\A s \in Requests : sqReq[s].pc # "syncWrite") /\ waitlist' = waitlist
      BY <1>5 DEF Sq!SyncRead, NoSyncRace, Sq!tournament
    <2>3. Synced'
      BY <1>4, <2>1, <2>2 DEF Synced
    <2>4. \A s \in Requests : ~Inviting(s)'
      BY <1>2, <2>1 DEF Inviting
    <2> QED
      BY <2>3, <2>4 DEF SyncInv, InviteAlone
  <1>6. CASE Sq!SyncWrite(r)
    <2>1. sqReq'[r].pc = "idle" /\ \A s \in Requests : s # r => sqReq'[s] = sqReq[s]
      BY <1>1, <1>6, EndShape DEF Sq!SyncWrite
    <2>2. \A s \in Requests : ~Inviting(s)'
      BY <1>2, <2>1 DEF Inviting
    <2>3. ASSUME live, waitlist # "NONE" PROVE Synced'
      <3>1. waitlist' = Sq!Status(sqReq[r].full) /\ sqReq[r].pc = "syncWrite" /\ Synced
        BY <1>6, <2>3 DEF Sq!SyncWrite, SyncInv
      <3>2. CASE \E s \in Requests : sqReq[s].pc = "sync"
        BY <2>1, <3>1, <3>2 DEF Synced
      <3>3. CASE ~\E s \in Requests : sqReq[s].pc = "sync"
        <4>1. \A s \in Requests : sqReq[s].pc = "syncWrite" => sqReq[s].full = Sq!MainIsFull
          BY <3>1, <3>3 DEF Synced
        <4>2. waitlist' = Sq!Status(Sq!MainIsFull)
          BY <3>1, <4>1
        <4>3. \A s \in Requests : sqReq'[s].pc = "syncWrite" => sqReq'[s].full = Sq!MainIsFull
          BY <2>1, <4>1
        <4> QED
          BY <1>4, <4>2, <4>3 DEF Synced, Sq!Status
      <3> QED
        BY <3>2, <3>3
    <2>4. waitlist' # "NONE" /\ live' => waitlist # "NONE" /\ live
      BY <1>3, <1>6 DEF Sq!SyncWrite
    <2> QED
      BY <2>2, <2>3, <2>4 DEF SyncInv, InviteAlone
  <1> QED
    BY <1>5, <1>6

LEMMA SyncStep ==
    ASSUME NoSyncRace
    PROVE  SquadTypeInv /\ SyncInv /\ [Sq!Next]_(Sq!vars) => SyncInv'
  <1> SUFFICES ASSUME SquadTypeInv, SyncInv, [Sq!Next]_(Sq!vars) PROVE SyncInv'
    OBVIOUS
  <1>1. Sq!TypeOK /\ InviteAlone
    BY DEF SquadTypeInv, SyncInv
  <1>2. CASE UNCHANGED Sq!vars
    BY <1>1, <1>2, NoNewInvite, RefreshRests DEF Sq!vars
  <1>3. CASE Sq!Expire \/ Sq!TournamentEnds \/ Sq!TeamChanges
    BY <1>1, <1>3, NoNewInvite, RefreshRests DEF Sq!Expire, Sq!TournamentEnds, Sq!roster,
       Sq!TeamChanges, Sq!CreateTeam, Sq!TeamJoins, Sq!TeamLeaves, Sq!TeamTransfers
  <1>4. CASE Sq!Create
    <2>1. UNCHANGED <<Sq!tournament, sqReq>> /\ leader = "nobody"
      BY <1>4 DEF Sq!Create, Sq!CreateSquad, Sq!SaveSquad
    <2>2. waitlist = "NONE" /\ \A s \in Requests : sqReq[s].pc = "idle"
      BY <2>1 DEF SquadTypeInv, NotBorn
    <2> QED
      BY <2>1, <2>2 DEF SyncInv, InviteAlone, Inviting, Sq!tournament
  <1>5. CASE Sq!SyncTeamToSquad
    <2>1. PICK new \in SUBSET Players :
              /\ \A q \in new : ~Sq!In(q)
              /\ ~Sq!InFlight(Sq!SlotOps \cup {"invite"}) /\ Sq!HasRoomFor(new)
              /\ member' = [q \in Players |-> IF q \in new THEN Sq!RowOf(q) ELSE member[q]]
      BY <1>5 DEF Sq!SyncTeamToSquad, Sq!TeamMembers, NoSyncRace
    <2>2. UNCHANGED <<sqReq, waitlist, live>>
      BY <1>5 DEF Sq!SyncTeamToSquad, Sq!tournament
    <2>3. (\A s \in Requests : ~Inviting(s)) /\ (\A s \in Requests : ~Inviting(s)')
      BY <2>1, <2>2 DEF Sq!InFlight, Inviting
    <2>4. ASSUME waitlist # "NONE" PROVE Sq!MainIsFull' = Sq!MainIsFull
      <3>1. Sq!Count("MAIN", {})' <= Sq!Count("MAIN", {}) + Cardinality(Sq!Comes(new, "MAIN"))
            /\ Cardinality(Sq!Comes(new, "MAIN")) \in Nat
        BY <1>1, <2>1, ComingCounted DEF Sq!SquadRosterType
      <3>2. Sq!Count("MAIN", {}) + Cardinality(Sq!Comes(new, "MAIN")) < MaxMain
        BY SameCardinality, <2>1, <2>4 DEF Sq!HasRoomFor
      <3>3. Sq!Count("MAIN", {}) \in Nat /\ Sq!Count("MAIN", {})' \in Nat
        BY CountIsNat
      <3> QED
        BY <3>1, <3>2, <3>3, Sizes DEF Sq!MainIsFull
    <2>5. waitlist # "NONE" /\ Synced => Synced'
      BY <2>2, <2>4 DEF Synced, Sq!Status
    <2> QED
      BY <2>2, <2>3, <2>5 DEF SyncInv, InviteAlone
  <1>6. ASSUME NEW r \in Requests, Sq!Operate(r) PROVE SyncInv'
    <2>1. CASE Sq!InviteRead(r) \/ \E p \in Players : Sq!Start(r, p)
      BY <2>1, SyncReadStep
    <2>2. CASE Sq!Write(r)
      BY <2>2, SyncWriteStep
    <2>3. CASE Sq!Throw(r)
      <3>1. Sq!Done(r) /\ UNCHANGED <<member, waitlist, live>> /\ sqReq[r].pc = "write"
        BY <2>3 DEF Sq!Throw, Sq!roster, Sq!tournament
      <3>2. sqReq'[r].pc = "idle" /\ \A s \in Requests : s # r => sqReq'[s] = sqReq[s]
        BY <1>1, <3>1, EndShape
      <3>3. InviteAlone'
        BY <1>1, <3>1, <3>2, NoNewInvite
      <3> QED
        BY <3>1, <3>2, <3>3, RefreshRests
    <2>4. CASE Sq!SyncRead(r) \/ Sq!SyncWrite(r)
      BY <2>4, RefreshStep
    <2> QED
      BY <1>6, <2>1, <2>2, <2>3, <2>4 DEF Sq!Operate, Sq!Continue
  <1> QED
    BY <1>2, <1>3, <1>4, <1>5, <1>6 DEF Sq!Next, Sq!SquadSteps

\* If refreshes do not overlap, the squad does not change while it is invited and no member of
\* the team fills the roster beside the waitlist row, the waitlist row agrees with the roster
\* whenever no request is on its way, however the requests that change the roster race each
\* other.
THEOREM WaitlistIsTrue ==
    ASSUME NoSyncRace
    PROVE  (Sq!Spec => []Sq!WaitlistAgrees) /\ (SpecAll => []WaitlistAgrees)
  <1>1. Sq!Init => SyncInv
    BY Records DEF Sq!Init, SyncInv, InviteAlone, Inviting
  <1>2. SyncInv => Sq!WaitlistAgrees
    <2> SUFFICES ASSUME SyncInv, live, waitlist # "NONE", \A r \in Requests : sqReq[r].pc = "idle"
                 PROVE  waitlist = Sq!Status(~Sq!HasRoom("MAIN", {}))
      BY DEF Sq!WaitlistAgrees
    <2>1. waitlist = Sq!Status(Sq!MainIsFull)
      BY DEF SyncInv, Synced
    <2>2. Sq!MainIsFull <=> ~Sq!HasRoom("MAIN", {})
      BY CountIsNat, Sizes DEF Sq!MainIsFull, Sq!HasRoom, Sq!Capacity
    <2> QED
      BY <2>1, <2>2 DEF Sq!Status
  <1>3. Sq!Spec => []Sq!WaitlistAgrees
    BY <1>1, <1>2, SquadTypeInit, SquadTypeStep, SyncStep, PTL DEF Sq!Spec
  <1>4. WaitlistAgrees <=> Sq!WaitlistAgrees
    BY DEF WaitlistAgrees
  <1> QED
    BY <1>3, <1>4, EachPartRuns, PTL

-----------------------------------------------------------------------------
(* The answers to invitations.                                               *)

\* An answer is alone with its player: no other answer, no removal and no expiry beside it.
\* Everything else may race.
NoAnswerRace == "answerRace" \notin Env

Answering(r, p) == sqReq[r].pc = "write" /\ sqReq[r].op \in Sq!AnswerOps /\ sqReq[r].who = p
OneAnswer ==
    \A r, s \in Requests, p \in Players : Answering(r, p) /\ Answering(s, p) => r = s
StillPending ==
    \A r \in Requests, p \in Players :
        Answering(r, p) /\ sqReq[r].op \in {"accept", "expire"} => invitation[p] = "PENDING"

AnswerInv == OneAnswer /\ StillPending

ClosedInvitation == {"ACCEPTED", "REJECTED", "EXPIRED"}
ClosedStays == \A p \in Players : invitation[p] \in ClosedInvitation => invitation'[p] = invitation[p]

\* No request starts to answer, and only an answer that ends writes an open invitation.
LEMMA AnswersRest ==
    ASSUME AnswerInv,
           \A s \in Requests : Writing(s)' => sqReq'[s] = sqReq[s],
           \A p \in Players :
               \/ invitation'[p] = invitation[p]
               \/ invitation[p] = "NONE"
               \/ (invitation[p] = "PENDING" /\ \A s \in Requests : ~Answering(s, p)' \/ sqReq[s].op \in {"drop", "reject"})
    PROVE  AnswerInv' /\ ClosedStays
  <1>1. \A s \in Requests, p \in Players : Answering(s, p)' => Answering(s, p) /\ sqReq'[s] = sqReq[s]
    BY DEF Answering, Writing
  <1>2. OneAnswer'
    BY <1>1 DEF AnswerInv, OneAnswer
  <1>3. StillPending'
    <2> SUFFICES ASSUME NEW s \in Requests, NEW p \in Players,
                        Answering(s, p)', sqReq'[s].op \in {"accept", "expire"}
                 PROVE  invitation'[p] = "PENDING"
      BY DEF StillPending
    <2>1. Answering(s, p) /\ sqReq'[s] = sqReq[s] /\ invitation[p] = "PENDING"
      BY <1>1 DEF AnswerInv, StillPending
    <2> QED
      BY <2>1
  <1>4. ClosedStays
    BY DEF ClosedStays, ClosedInvitation
  <1> QED
    BY <1>2, <1>3, <1>4 DEF AnswerInv

\* A request begins; if it answers, nobody else does, and it has found the invitation open.
LEMMA AnswerReads ==
    ASSUME NoAnswerRace, Sq!TypeOK, AnswerInv, NEW r \in Requests,
           NEW op, NEW who, NEW other, NEW row, NEW new, Sq!Begin(r, op, who, other, row, new),
           op \in {"accept", "expire"} => invitation[who] = "PENDING"
    PROVE  AnswerInv' /\ ClosedStays
  <1> DEFINE x == [pc |-> "write", op |-> op, who |-> who, other |-> other,
                   row |-> row, new |-> new, full |-> FALSE]
  <1>1. /\ invitation' = invitation /\ sqReq[r].pc = "idle"
        /\ sqReq'[r] = x /\ \A s \in Requests : s # r => sqReq'[s] = sqReq[s]
    BY BeginShape
  <1>2. sqReq'[r].op = op /\ sqReq'[r].who = who
    BY <1>1
  <1> HIDE DEF x
  <1>3. op \in Sq!AnswerOps => \A s \in Requests : ~Answering(s, who)
    BY DEF NoAnswerRace, Sq!Begin, Answering
  <1>4. \A s \in Requests, p \in Players : Answering(s, p)' =>
            \/ s # r /\ Answering(s, p) /\ sqReq'[s] = sqReq[s]
            \/ s = r /\ p = who /\ op \in Sq!AnswerOps
    BY <1>1, <1>2 DEF Answering
  <1>5. OneAnswer'
    BY <1>3, <1>4 DEF AnswerInv, OneAnswer
  <1>6. StillPending'
    BY <1>1, <1>2, <1>4 DEF AnswerInv, StillPending
  <1> QED
    BY <1>1, <1>5, <1>6 DEF AnswerInv, ClosedStays

LEMMA AnswerReadStep ==
    ASSUME NoAnswerRace, SquadTypeInv, AnswerInv, NEW r \in Requests,
           Sq!InviteRead(r) \/ \E p \in Players : Sq!Start(r, p)
    PROVE  AnswerInv' /\ ClosedStays
  <1>1. Sq!TypeOK
    BY DEF SquadTypeInv
  <1>2. \E op, who, other, row, new :
            /\ Sq!Begin(r, op, who, other, row, new)
            /\ op \in {"accept", "expire"} => invitation[who] = "PENDING"
    <2>1. CASE Sq!InviteRead(r)
      BY <2>1 DEF Sq!InviteRead
    <2>2. ASSUME NEW p \in Players, Sq!Start(r, p)
          PROVE  \E op, who, other, row, new :
                     /\ Sq!Begin(r, op, who, other, row, new)
                     /\ op \in {"accept", "expire"} => invitation[who] = "PENDING"
      <3>1. CASE Sq!JoinRead(r, p)
        BY <3>1 DEF Sq!JoinRead
      <3>2. CASE Sq!LeaveRead(r, p) \/ Sq!RemoveRead(r, p)
        BY <3>2 DEF Sq!LeaveRead, Sq!RemoveRead
      <3>3. CASE Sq!TransferRead(r, p)
        BY <3>3 DEF Sq!TransferRead
      <3>4. CASE \E new \in [role : Sq!SquadRole, roster : Sq!SquadRosterType] : Sq!RoleRead(r, p, new)
        BY <3>4 DEF Sq!RoleRead
      <3>5. CASE \E q \in Players : Sq!SwapRead(r, p, q)
        BY <3>5 DEF Sq!SwapRead
      <3>6. CASE \E op \in {"accept", "reject"} : Sq!AnswerRead(r, p, op)
        <4>1. invitation[p] = "PENDING"
              /\ \E o \in {"accept", "reject", "expire"} : Sq!Begin(r, o, p, "nobody", Sq!NoMember, Sq!NoMember)
          BY <3>6 DEF Sq!AnswerRead
        <4> QED
          BY <4>1
      <3> QED
        BY <2>2, <3>1, <3>2, <3>3, <3>4, <3>5, <3>6 DEF Sq!Start
    <2> QED
      BY <2>1, <2>2
  <1> QED
    BY <1>1, <1>2, AnswerReads

LEMMA AnswerWriteStep ==
    ASSUME NoAnswerRace, SquadTypeInv, AnswerInv, NEW r \in Requests, Sq!Write(r)
    PROVE  AnswerInv' /\ ClosedStays
  <1>1. Writing(r) /\ sqReq[r].pc # "idle" /\ sqReq[r].pc = "write"
    BY DEF Sq!Write, Sq!At, Writing, Sq!JoinWrite, Sq!DropWrite, Sq!TransferWrite, Sq!RoleWrite,
       Sq!SwapWrite,
       Sq!InviteWrite, Sq!AcceptWrite, Sq!RejectWrite, Sq!ExpireWrite
  <1> PICK p : p = sqReq[r].who
    OBVIOUS
  <1>2. Sq!TypeOK /\ p \in Players
    BY <1>1, UnderWay
  <1>3. Sq!Done(r) \/ Sq!ThenSync(r) => \A s \in Requests : Writing(s)' => s # r /\ sqReq'[s] = sqReq[s]
    BY <1>2, EndShape
  <1>4. CASE Sq!JoinWrite(r) \/ Sq!TransferWrite(r) \/ Sq!RoleWrite(r) \/ Sq!SwapWrite(r)
    <2>1. Sq!ThenSync(r) /\ invitation' = invitation
      BY <1>4 DEF Sq!JoinWrite, Sq!TransferWrite, Sq!RoleWrite, Sq!SwapWrite, Sq!tournament
    <2> QED
      BY <1>3, <2>1, AnswersRest
  <1>5. CASE Sq!InviteWrite(r)
    <2>1. Sq!Done(r) /\ \A q \in Players : invitation'[q] = invitation[q] \/ invitation[q] = "NONE"
      BY <1>5 DEF Sq!InviteWrite
    <2> QED
      BY <1>3, <2>1, AnswersRest
  <1>6. ASSUME sqReq[r].op \in Sq!AnswerOps, \A s \in Requests : Writing(s)' => s # r /\ sqReq'[s] = sqReq[s],
              \A q \in Players : invitation'[q] = invitation[q] \/ (q = p /\ invitation[p] = "PENDING")
        PROVE AnswerInv' /\ ClosedStays
    <2>1. Answering(r, p)
      BY <1>1, <1>6 DEF Answering
    <2>2. \A s \in Requests : Answering(s, p)' => s # r /\ Answering(s, p)
      BY <1>6 DEF Answering, Writing
    <2>3. \A s \in Requests : ~Answering(s, p)'
      BY <1>2, <2>1, <2>2 DEF AnswerInv, OneAnswer
    <2> QED
      BY <1>6, <2>3, AnswersRest
  <1>7. CASE Sq!DropWrite(r) \/ Sq!RejectWrite(r)
    <2>1. /\ invitation' = Sq!Rejected(p) /\ sqReq[r].op \in Sq!AnswerOps
          /\ sqReq' = [Sq!Forget(p) EXCEPT ![r] = [Sq!NoRequest EXCEPT !.pc = "sync"]]
      BY <1>7 DEF Sq!DropWrite, Sq!RejectWrite, Sq!At, Sq!AnswerOps
    <2>2. \A s \in Requests : Writing(s)' => s # r /\ sqReq'[s] = sqReq[s]
      BY <1>2, <2>1, ForgetShape
    <2>3. \A q \in Players : invitation'[q] = invitation[q] \/ (q = p /\ invitation[p] = "PENDING")
      BY <1>2, <2>1 DEF Sq!Rejected, Sq!TypeOK
    <2> QED
      BY <1>6, <2>1, <2>2, <2>3
  <1>8. CASE Sq!AcceptWrite(r) \/ Sq!ExpireWrite(r)
    <2>1. /\ Sq!Done(r) /\ sqReq[r].op \in {"accept", "expire"} /\ sqReq[r].op \in Sq!AnswerOps
          /\ \E answer \in Sq!InvitationStatus : Sq!Answer(p, answer)
      BY <1>8 DEF Sq!AcceptWrite, Sq!ExpireWrite, Sq!At, Sq!AnswerOps, Sq!InvitationStatus
    <2>2. invitation[p] = "PENDING"
      BY <1>1, <1>2, <2>1 DEF AnswerInv, StillPending, Answering
    <2>3. \A q \in Players : invitation'[q] = invitation[q] \/ (q = p /\ invitation[p] = "PENDING")
      BY <1>2, <2>1, <2>2 DEF Sq!Answer, Sq!TypeOK
    <2> QED
      BY <1>3, <1>6, <2>1, <2>3
  <1> QED
    BY <1>4, <1>5, <1>7, <1>8 DEF Sq!Write

LEMMA AnswerStep ==
    ASSUME NoAnswerRace
    PROVE  SquadTypeInv /\ AnswerInv /\ [Sq!Next]_(Sq!vars) => AnswerInv' /\ ClosedStays
  <1> SUFFICES ASSUME SquadTypeInv, AnswerInv, [Sq!Next]_(Sq!vars) PROVE AnswerInv' /\ ClosedStays
    OBVIOUS
  <1>1. Sq!TypeOK /\ sqReq \in [Requests -> Request]
    BY Records DEF SquadTypeInv
  <1>2. CASE invitation' = invitation /\ \A s \in Requests : Writing(s)' => sqReq'[s] = sqReq[s]
    BY <1>2, AnswersRest
  <1>3. CASE UNCHANGED Sq!vars
    BY <1>2, <1>3 DEF Sq!vars
  <1>4. CASE Sq!TournamentEnds \/ Sq!SyncTeamToSquad \/ Sq!TeamChanges
    BY <1>2, <1>4 DEF Sq!TournamentEnds, Sq!SyncTeamToSquad, Sq!tournament,
       Sq!TeamChanges, Sq!CreateTeam, Sq!TeamJoins, Sq!TeamLeaves, Sq!TeamTransfers
  <1>5. CASE Sq!Expire
    <2>1. sqReq' = sqReq /\ invitation' = Sq!ExpirePending /\ ~Sq!InFlight({"accept", "reject", "expire"})
      BY <1>5 DEF Sq!Expire, NoAnswerRace
    <2>2. \A p \in Players : invitation'[p] = invitation[p] \/ invitation[p] = "PENDING"
      BY <2>1 DEF Sq!ExpirePending
    <2>3. \A s \in Requests, p \in Players : Answering(s, p)' => sqReq[s].op \in {"drop", "reject"}
      BY <2>1 DEF Sq!InFlight, Answering, Sq!AnswerOps
    <2> QED
      BY <2>1, <2>2, <2>3, AnswersRest
  <1>6. CASE Sq!Create
    BY <1>2, <1>6 DEF Sq!Create, Sq!CreateSquad, Sq!SaveSquad, Sq!tournament
  <1>7. ASSUME NEW r \in Requests, Sq!Operate(r) PROVE AnswerInv' /\ ClosedStays
    <2>1. CASE Sq!InviteRead(r) \/ \E p \in Players : Sq!Start(r, p)
      BY <2>1, AnswerReadStep
    <2>2. CASE Sq!Write(r)
      BY <2>2, AnswerWriteStep
    <2>3. CASE Sq!Throw(r) \/ Sq!SyncWrite(r)
      <3>1. \A s \in Requests : Writing(s)' => sqReq'[s] = sqReq[s]
        BY <1>1, <2>3, EndShape DEF Sq!Throw, Sq!SyncWrite
      <3> QED
        BY <1>2, <2>3, <3>1 DEF Sq!Throw, Sq!SyncWrite, Sq!tournament
    <2>4. CASE Sq!SyncRead(r)
      <3>1. \A s \in Requests : Writing(s)' => sqReq'[s] = sqReq[s]
        BY <1>1, <2>4 DEF Sq!SyncRead, Writing, Request
      <3> QED
        BY <1>2, <2>4, <3>1 DEF Sq!SyncRead, Sq!tournament
    <2> QED
      BY <1>7, <2>1, <2>2, <2>3, <2>4 DEF Sq!Operate, Sq!Continue
  <1> QED
    BY <1>3, <1>4, <1>5, <1>6, <1>7 DEF Sq!Next, Sq!SquadSteps

\* If no answer runs beside another one, the removal of the player or the expiry, an invitation
\* that was answered or has expired keeps its outcome, though the invitation is not read again
\* when the answer is written and every other request races every other.
THEOREM AnswersStay ==
    ASSUME NoAnswerRace
    PROVE  (Sq!Spec => Sq!AnswersAreFinal) /\ (SpecAll => AnswersAreFinal)
  <1>1. Sq!Init => AnswerInv
    BY Records DEF Sq!Init, AnswerInv, OneAnswer, StillPending, Answering
  <1>2. Sq!Spec => [](SquadTypeInv /\ AnswerInv)
    BY <1>1, SquadTypeInit, SquadTypeStep, AnswerStep, PTL DEF Sq!Spec
  <1>3. SquadTypeInv /\ AnswerInv /\ [Sq!Next]_(Sq!vars)
        => \A p \in Players : invitation[p] \in {"ACCEPTED", "REJECTED", "EXPIRED"}
                              => invitation'[p] = invitation[p]
    BY AnswerStep DEF ClosedStays, ClosedInvitation
  <1>4. Sq!Spec => Sq!AnswersAreFinal
    BY <1>2, <1>3, PTL DEF Sq!Spec, Sq!AnswersAreFinal
  <1>5. AnswersAreFinal <=> Sq!AnswersAreFinal
    BY DEF AnswersAreFinal
  <1> QED
    BY <1>4, <1>5, EachPartRuns, PTL
=============================================================================
