--------------------------- MODULE GenericBracket ---------------------------
(***************************************************************************)
(* The bracket of generic-bracket.service.ts, which plays the stages of a  *)
(* saved format plan one after the other.  Generating a stage and          *)
(* finalizing one both read first and write in a transaction of their own. *)
(*                                                                         *)
(* Points, kills and placement points are one number, as in BracketStages. *)
(***************************************************************************)
EXTENDS Integers, FiniteSets, SequencesExt

CONSTANTS
    Teams, Requests,
    Plan,            \* the stages of the plan: [units, groups, q]; the last one is the final
    MaxScore,        \* bound on a score
    Env

EnvBehaviours == {
    "regenerate",    \* a finalized stage, or one whose successor exists, is generated again
    "finalizeRace",  \* two requests finalize one stage beside each other
    "rescore" }      \* scores change while a stage is finalized, or later

VARIABLES
    confirmed,       \* tournamentRegistration rows with status CONFIRMED
    status,          \* tournamentRound rows, one a stage
    row,             \* tournamentGroupTeam rows: [round, group, team, pts]
    qual,            \* roundQualification rows: [round, team, out, copy]
    req              \* requests in flight

vars == <<confirmed, status, row, qual, req>>

Stages == DOMAIN Plan
IsFinal(n) == n = Len(Plan)
NoRequest == [pc |-> "idle", stage |-> 0, teams |-> {}, order |-> <<>>]

Groups(n) == {x.group : x \in {y \in row : y.round = n}}
TeamsOf(n, g) == {x.team : x \in {y \in row : y.round = n /\ y.group = g}}
Pts(n, t) == (CHOOSE x \in row : x.round = n /\ x.team = t).pts
Busy(n) == \E r \in Requests : req[r].pc # "idle" /\ req[r].stage = n

TypeOK ==
    /\ confirmed \subseteq Teams
    /\ status \in [Stages -> {"NONE", "LIVE", "COMPLETED"}]
    /\ \A x \in row : x.round \in Stages /\ x.team \in Teams /\ x.pts \in 0..MaxScore
    /\ \A q \in qual : q.round \in Stages /\ q.team \in Teams /\ q.out \in BOOLEAN
    /\ \A r \in Requests : req[r].pc \in {"idle", "create", "finish"}

Init ==
    /\ confirmed = {} /\ row = {} /\ qual = {}
    /\ status = [n \in Stages |-> "NONE"]
    /\ req = [r \in Requests |-> NoRequest]

\* What the registrations do meanwhile (SlotAllocation).
Register(t) ==
    /\ confirmed' = IF t \in confirmed THEN confirmed \ {t} ELSE confirmed \cup {t}
    /\ UNCHANGED <<status, row, qual, req>>

-----------------------------------------------------------------------------
(* generateStage *)

\* getConfirmedRegistrations: the first of them in the order of their slots.
Confirmed(n) == {ts \in SUBSET confirmed : Cardinality(ts) = Plan[n].units}

\* getPreviousRoundQualifiers: a completed round whose rows, and not whose teams, are as
\* many as the plan says.
Participants(n) ==
    IF n = 1 THEN Confirmed(1)
    ELSE LET in == {q \in qual : q.round = n - 1 /\ ~q.out}
         IN  IF status[n - 1] = "COMPLETED" /\ Cardinality(in) = Plan[n].units
             THEN {{q.team : q \in in}} ELSE {}

GenerateRead(r, n) ==
    /\ req[r].pc = "idle"
    /\ "regenerate" \in Env \/ /\ ~Busy(n) /\ status[n] # "COMPLETED"
                               /\ \A m \in Stages : m > n => status[m] = "NONE" /\ ~Busy(m)
    /\ \E ts \in Participants(n) :
        req' = [req EXCEPT ![r] = [NoRequest EXCEPT !.pc = "create", !.stage = n, !.teams = ts]]
    /\ UNCHANGED <<confirmed, status, row, qual>>

\* createRoundWithGroups; what still holds the old groups throws later on.
GenerateWrite(r) ==
    LET n == req[r].stage
        ts == req[r].teams
        lobby == Plan[n].units \div Plan[n].groups
    IN  /\ req[r].pc = "create"
        /\ \E shuffled \in [ts -> 1..Plan[n].groups] :
            /\ \A g \in 1..Plan[n].groups : Cardinality({t \in ts : shuffled[t] = g}) <= lobby
            /\ row' = {x \in row : x.round # n} \cup
                      {[round |-> n, group |-> shuffled[t], team |-> t, pts |-> 0] : t \in ts}
        /\ status' = [status EXCEPT ![n] = "LIVE"]
        /\ req' = [s \in Requests |->
                      IF s = r \/ (req[s].pc = "finish" /\ req[s].stage = n) THEN NoRequest
                      ELSE req[s]]
        /\ UNCHANGED <<confirmed, qual>>

\* submitGroupScores of the bracket service serves this bracket as well.
SubmitScores(n, g, pts) ==
    /\ "rescore" \in Env \/ (status[n] = "LIVE" /\ ~Busy(n))
    /\ row' = {IF x.round = n /\ x.group = g THEN [x EXCEPT !.pts = pts[x.team]] ELSE x : x \in row}
    /\ UNCHANGED <<confirmed, status, qual, req>>

-----------------------------------------------------------------------------
(* finalizeRound *)

\* Mutant: a round is finalized as often as somebody asks.
MayFinalizeAgain(n) == status[n] # "NONE"

MayFinalize(n) ==
    /\ status[n] \notin {"NONE", "COMPLETED"}
    /\ IsFinal(n) \/ Plan[n].q > 0
    /\ \A q \in qual : q.round # n

\* Teams with equal points keep the order the rows came in.
Sorted(n, g) == {o \in SetToSeqs(TeamsOf(n, g)) :
    \A i, j \in DOMAIN o : i < j => Pts(n, o[i]) >= Pts(n, o[j])}

FinalizeRead(r, n) ==
    /\ req[r].pc = "idle" /\ MayFinalize(n)
    /\ "finalizeRace" \in Env \/ ~Busy(n)
    /\ \E order \in [Groups(n) -> UNION {Sorted(n, g) : g \in Groups(n)}] :
        /\ \A g \in Groups(n) : order[g] \in Sorted(n, g)
        /\ req' = [req EXCEPT ![r] =
                      [NoRequest EXCEPT !.pc = "finish", !.stage = n, !.order = order]]
    /\ UNCHANGED <<confirmed, status, row, qual>>

\* No index keeps a second row of one round and team out.
Qualification(n, t, out) ==
    [round |-> n, team |-> t, out |-> out,
     copy |-> Cardinality({q \in qual : q.round = n /\ q.team = t /\ q.out = out})]

Finished(n) == [status EXCEPT ![n] = "COMPLETED"]

FinalizeWrite(r) ==
    LET n == req[r].stage
        order == req[r].order
    IN  /\ req[r].pc = "finish"
        /\ qual' = qual \cup UNION {{Qualification(n, order[g][i], i > Plan[n].q) :
                                        i \in DOMAIN order[g]} : g \in DOMAIN order}
        /\ status' = Finished(n)
        /\ req' = [req EXCEPT ![r] = NoRequest]
        /\ UNCHANGED <<confirmed, row>>

-----------------------------------------------------------------------------
Next ==
    \/ \E t \in Teams : Register(t)
    \/ \E n \in Stages : \E g \in Groups(n) : \E pts \in [TeamsOf(n, g) -> 0..MaxScore] :
           SubmitScores(n, g, pts)
    \/ \E r \in Requests :
        \/ GenerateWrite(r) \/ FinalizeWrite(r)
        \/ \E n \in Stages : GenerateRead(r, n) \/ FinalizeRead(r, n)

Spec == Init /\ [][Next]_vars

-----------------------------------------------------------------------------
(* Properties *)

Through(n) == {q \in qual : q.round = n /\ ~q.out}

\* A finalized stage lets exactly as many rows through as the next stage of the plan
\* takes (generateStage counts the rows, and one too many blocks the tournament), and
\* those play it, whatever has become of the registrations since.
NextStageFits ==
    \A n \in Stages : ~IsFinal(n) =>
        /\ status[n] = "COMPLETED" => Cardinality(Through(n)) = Plan[n + 1].units
        /\ status[n + 1] # "NONE" =>
               {x.team : x \in {y \in row : y.round = n + 1}} = {q.team : q \in Through(n)}
=============================================================================
