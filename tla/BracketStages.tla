--------------------------- MODULE BracketStages ---------------------------
(***************************************************************************)
(* The fixed bracket of tournament-bracket.service.ts: Round 1, Round 2    *)
(* with its two exits, the wild card, Round 3 and the grand final, with    *)
(* the tie-breakers that pause a round.                                    *)
(*                                                                         *)
(* Advancing a round reads its groups, scores and tie-breakers and writes  *)
(* in a later step; resolving a tie-breaker is an update, a count and an   *)
(* advance.  Points, kills and placement points are one number: the three  *)
(* are only ever compared in one lexicographic order.                      *)
(***************************************************************************)
EXTENDS Integers, FiniteSets, SequencesExt

CONSTANTS
    Teams, Requests,
    G1, G2, G3,              \* groups of each round (8, 4, 3)
    L1,                      \* teams of a group of Round 1 (12)
    K1, A2, B2, K3,          \* cutoffs: 6; 2 and 7; 3
    W,                       \* wild card slots (8)
    Finalists,               \* teams of the grand final (18)
    MaxScore, MaxTies,       \* bounds on a score and on the tie-breakers
    Env

EnvBehaviours == {
    "advanceRace",   \* two requests advance one round beside each other
    "rescore",       \* scores are corrected after a tie was found, or while a round advances
    "resolveAgain",  \* a resolved tie-breaker is resolved again
    "regenerate",    \* Round 3 is generated again after it was completed
    "wildPlaying" }  \* a wild card goes to a team that still plays

None == "none"

ASSUME TeamsAssumption   == IsFiniteSet(Teams) /\ None \notin Teams
ASSUME GroupsAssumption  == {G1, G2, G3, W} \subseteq Nat \ {0}
ASSUME CutoffsAssumption == /\ L1 \in Nat /\ K1 \in 1..L1
                            /\ A2 \in Nat \ {0} /\ B2 \in Nat /\ K3 \in Nat \ {0}
ASSUME BoundsAssumption  == MaxScore \in Nat /\ MaxTies \in Nat
ASSUME EnvAssumption     == Env \subseteq EnvBehaviours

RoundStatus == {"NONE", "LIVE", "TIE_BREAKER_PENDING", "COMPLETED"}
Destination == {"ELIMINATED", "ROUND_2", "ROUND_3", "GRAND_FINAL"}

VARIABLES
    status,          \* tournamentRound rows 1..3, and 4 for the grand final
    row,             \* tournamentGroupTeam rows: [round, group, team, pts]
    qual,            \* roundQualification rows: [round, team, to, manual, copy]
    tie,             \* tournamentTieBreaker rows: [round, group, tied, selected];
                     \* group 0 once its group was deleted
    window, slot,    \* wildCardWindow and wildCardSlot
    req              \* requests in flight

vars == <<status, row, qual, tie, window, slot, req>>
wild == <<window, slot>>

Rounds == 1..4
GroupIds == 1..(G1 + G2 + G3)
NoRequest == [pc |-> "idle", round |-> 0, order |-> <<>>, ties |-> {}]

GroupRows(n, g) == {x \in row : x.round = n /\ x.group = g}
Groups(n) == {x.group : x \in {y \in row : y.round = n}}
TeamsOf(n, g) == {x.team : x \in GroupRows(n, g)}
Pts(n, g, t) == (CHOOSE x \in GroupRows(n, g) : x.team = t).pts

\* What a request carries: the ranking to be written, or the ties it has found.
RequestOK(q) ==
    /\ q = [pc |-> q.pc, round |-> q.round, order |-> q.order, ties |-> q.ties]
    /\ q.pc \in {"idle", "count", "advance", "pause", "write"}
    /\ q.pc # "idle" => q.round \in 1..3
    /\ q.pc = "write" => /\ DOMAIN q.order \subseteq GroupIds
                         /\ \A g \in DOMAIN q.order : q.order[g] \in Seq(Teams)
    /\ q.ties \subseteq ({0} \cup GroupIds) \X SUBSET Teams

TypeOK ==
    /\ status \in [Rounds -> RoundStatus]
    /\ row \subseteq [round : Rounds, group : GroupIds, team : Teams, pts : 0..MaxScore]
    /\ IsFiniteSet(qual)
    /\ \A q \in qual : /\ q.round \in 0..3 /\ q.team \in Teams
                       /\ q.to \in Destination /\ q.manual \in BOOLEAN
    /\ tie \in Seq([round : 1..3, group : {0} \cup GroupIds, tied : SUBSET Teams,
                    selected : Teams \cup {None}])
    /\ window \in {"NONE", "OPEN", "LOCKED"} /\ slot \in [1..W -> Teams \cup {None}]
    /\ DOMAIN req = Requests /\ \A r \in Requests : RequestOK(req[r])

Init ==
    /\ status = [n \in Rounds |-> "NONE"] /\ row = {} /\ qual = {} /\ tie = <<>>
    /\ window = "NONE" /\ slot = [s \in 1..W |-> None]
    /\ req = [r \in Requests |-> NoRequest]

Busy(n) == \E r \in Requests : req[r].pc # "idle" /\ req[r].round = n

-----------------------------------------------------------------------------
(* A round's groups are deleted and created again.  A write that holds the   *)
(* id of a deleted group throws, and a tie-breaker loses its group.          *)

Orphaned(n) == [i \in DOMAIN tie |-> IF tie[i].round = n THEN [tie[i] EXCEPT !.group = 0]
                                     ELSE tie[i]]
Interrupted(n) == [r \in Requests |->
    CASE req[r].round = n /\ req[r].pc = "write" -> NoRequest
      [] req[r].round = n /\ req[r].pc = "pause" ->
             [req[r] EXCEPT !.ties = {<<0, t[2]>> : t \in @}]
      [] OTHER -> req[r]]
Replaced(n, members) ==
    {x \in row : x.round # n}
        \cup {[round |-> n, group |-> m[1], team |-> m[2], pts |-> 0] : m \in members}

\* Mutant: a completed Round 1 is generated again.
NotGeneratedUnlessLive == status[1] # "LIVE"

\* generateRound1: a Round 1 that waits for a tie-breaker is generated again as well.
NotGenerated == status[1] \notin {"LIVE", "COMPLETED"}

GenerateRound1 ==
    /\ NotGenerated
    /\ \E shuffled \in [Teams -> 1..G1] :
        /\ \A g \in 1..G1 : Cardinality({t \in Teams : shuffled[t] = g}) = L1
        /\ row' = Replaced(1, {<<shuffled[t], t>> : t \in Teams})
    /\ status' = [status EXCEPT ![1] = "LIVE"]
    /\ tie' = Orphaned(1) /\ req' = Interrupted(1)
    /\ UNCHANGED <<qual, wild>>

\* Scores are only compared: the lowest one is 0.
Scores(teams) == {pts \in [teams -> 0..MaxScore] : \E t \in teams : pts[t] = 0}

\* submitGroupScores looks at no status.
SubmitScores(n, g, pts) ==
    /\ g \in Groups(n)
    /\ "rescore" \in Env \/ /\ status[n] = "LIVE" /\ ~Busy(n)
                            /\ \A i \in DOMAIN tie : tie[i].round # n
    /\ row' = (row \ GroupRows(n, g)) \cup {[x EXCEPT !.pts = pts[x.team]] : x \in GroupRows(n, g)}
    /\ UNCHANGED <<status, qual, tie, wild, req>>

-----------------------------------------------------------------------------
(* advanceRound1, advanceRound2, advanceRound3                               *)

\* Mutant: fewer points rank higher.
RankedBelow(n, g) == {o \in [1..Cardinality(TeamsOf(n, g)) -> TeamsOf(n, g)] :
    /\ IsInjective(o)
    /\ \A i, j \in DOMAIN o : i < j => Pts(n, g, o[i]) <= Pts(n, g, o[j])}

\* evaluateGroupStandings: equal teams in whatever order the rows come.
Ranked(n, g) == {o \in [1..Cardinality(TeamsOf(n, g)) -> TeamsOf(n, g)] :
    /\ IsInjective(o)
    /\ \A i, j \in DOMAIN o : i < j => Pts(n, g, o[i]) >= Pts(n, g, o[j])}

Cutoffs(n) == CASE n = 1 -> <<K1>> [] n = 2 -> <<A2, A2 + B2>> [] n = 3 -> <<K3>>

TiedWith(n, g, t) == {u \in TeamsOf(n, g) : Pts(n, g, u) = Pts(n, g, t)}
\* Round 2 has two cutoffs: its tie-breakers are told apart by the tied teams.
Resolved(n, g, t) == {i \in DOMAIN tie : /\ tie[i].round = n /\ tie[i].group = g
                                         /\ tie[i].selected # None
                                         /\ n = 2 => t \in tie[i].tied}

\* The selected team moves up to rank k when it stands below; those between move down.
Moved(o, k, t) ==
    LET below == {i \in DOMAIN o : i > k /\ o[i] = t}
    IN  [j \in DOMAIN o |-> IF j = k /\ below # {} THEN t
                           ELSE IF j > k /\ \E i \in below : j <= i THEN o[j - 1]
                           ELSE o[j]]

\* The order after one cutoff, and the teams of a tie that is still to be decided.
Settle(n, g, o, k) ==
    IF k + 1 \notin DOMAIN o \/ Pts(n, g, o[k]) # Pts(n, g, o[k + 1])
    THEN [order |-> o, open |-> {}]
    ELSE LET done == Resolved(n, g, o[k])
         IN  IF done = {} THEN [order |-> o, open |-> TiedWith(n, g, o[k])]
             ELSE [order |-> Moved(o, k, tie[CHOOSE i \in done : \A j \in done : i <= j].selected),
                   open |-> {}]

Standing(n, g, o) ==
    LET first == Settle(n, g, o, Cutoffs(n)[1])
    IN  IF Len(Cutoffs(n)) = 1 \/ first.open # {} THEN first
        ELSE Settle(n, g, first.order, Cutoffs(n)[2])

\* Mutant: the round is advanced whatever its status is.
MayAdvanceAlways(n) == status[n] # "NONE"

MayAdvance(n) == status[n] \notin {"NONE", "COMPLETED"}

\* What the read leads to: nothing, a pause, or the ranking to be written.
AdvanceRead(r, n) ==
    /\ IF req[r].pc = "idle" THEN "advanceRace" \in Env \/ ~Busy(n)
                             ELSE req[r].pc = "advance" /\ req[r].round = n
    /\ IF ~MayAdvance(n)
       THEN req[r].pc = "advance" /\ req' = [req EXCEPT ![r] = NoRequest]
       ELSE \E rank \in [Groups(n) -> UNION {Ranked(n, g) : g \in Groups(n)}] :
            /\ \A g \in Groups(n) : rank[g] \in Ranked(n, g)
            /\ LET out == [g \in Groups(n) |-> Standing(n, g, rank[g])]
                   open == {g \in Groups(n) : out[g].open # {}}
               IN  req' = [req EXCEPT ![r] =
                     IF open # {}
                     THEN [NoRequest EXCEPT !.pc = "pause", !.round = n,
                               !.ties = {<<g, out[g].open>> : g \in
                                  {h \in open : \A i \in DOMAIN tie :
                                       ~(tie[i].round = n /\ tie[i].group = h
                                         /\ tie[i].selected = None)}}]
                     ELSE [NoRequest EXCEPT !.pc = "write", !.round = n,
                               !.order = [g \in Groups(n) |-> out[g].order]]]
    /\ UNCHANGED <<status, row, qual, tie, wild>>

PauseWrite(r) ==
    LET n == req[r].round
        new == SetToSeq({[round |-> n, group |-> t[1], tied |-> t[2], selected |-> None] :
                            t \in req[r].ties})
    IN  /\ req[r].pc = "pause" /\ Len(tie \o new) <= MaxTies
        /\ tie' = tie \o new
        /\ status' = [status EXCEPT ![n] = "TIE_BREAKER_PENDING"]
        /\ req' = [req EXCEPT ![r] = NoRequest]
        /\ UNCHANGED <<row, qual, wild>>

To(n, i) ==
    CASE n = 1 -> IF i <= K1 THEN "ROUND_2" ELSE "ELIMINATED"
      [] n = 2 -> IF i <= A2 THEN "GRAND_FINAL" ELSE IF i <= A2 + B2 THEN "ROUND_3"
                  ELSE "ELIMINATED"
      [] n = 3 -> IF i <= K3 THEN "GRAND_FINAL" ELSE "ELIMINATED"

\* No index keeps a second row of one round and team out.
Qualify(n, t, to, manual) ==
    [round |-> n, team |-> t, to |-> to, manual |-> manual,
     copy |-> Cardinality({q \in qual : q.round = n /\ q.team = t /\ q.to = to
                                        /\ q.manual = manual})]

\* The teams of each rank go round the groups of Round 2, backwards for even ranks.
Snake(order) ==
    {<<IF i % 2 = 1 THEN ((g - 1) % G2) + 1 ELSE G2 - ((g - 1) % G2), order[g][i]>> :
        g \in DOMAIN order, i \in 1..K1}

AdvanceWrite(r) ==
    LET n == req[r].round
        order == req[r].order
    IN  /\ req[r].pc = "write"
        /\ qual' = qual \cup UNION {{Qualify(n, order[g][i], To(n, i), FALSE) :
                                        i \in DOMAIN order[g]} : g \in DOMAIN order}
        /\ IF n = 1
           THEN /\ status' = [status EXCEPT ![1] = "COMPLETED", ![2] = "LIVE"]
                /\ row' = Replaced(2, Snake(order)) /\ tie' = Orphaned(2)
                /\ req' = [Interrupted(2) EXCEPT ![r] = NoRequest]
           ELSE /\ status' = [status EXCEPT ![n] = "COMPLETED"]
                /\ req' = [req EXCEPT ![r] = NoRequest]
                /\ UNCHANGED <<row, tie>>
        /\ UNCHANGED wild

(* resolveTieBreaker *)
ResolveTie(r, i, t) ==
    /\ req[r].pc = "idle" /\ t \in tie[i].tied
    /\ "resolveAgain" \in Env \/ tie[i].selected = None
    /\ "advanceRace" \in Env \/ ~Busy(tie[i].round)
    /\ tie' = [tie EXCEPT ![i].selected = t]
    /\ req' = [req EXCEPT ![r] = [NoRequest EXCEPT !.pc = "count", !.round = tie[i].round]]
    /\ UNCHANGED <<status, row, qual, wild>>

\* Mutant: resolved tie-breakers are counted too.
RemainingAll(n) == {i \in DOMAIN tie : tie[i].round = n}

Remaining(n) == {i \in DOMAIN tie : tie[i].round = n /\ tie[i].selected = None}

CountPending(r) ==
    /\ req[r].pc = "count"
    /\ req' = [req EXCEPT ![r] = IF Remaining(@.round) = {} THEN [@ EXCEPT !.pc = "advance"]
                                 ELSE NoRequest]
    /\ UNCHANGED <<status, row, qual, tie, wild>>

-----------------------------------------------------------------------------
(* The wild card, Round 3 and the grand final                                *)

OpenWildCard ==
    /\ status[1] = "COMPLETED" /\ window' = "OPEN"
    /\ UNCHANGED <<status, row, qual, tie, slot, req>>

CloseWildCard ==
    /\ window # "NONE" /\ window' = "LOCKED"
    /\ UNCHANGED <<status, row, qual, tie, slot, req>>

IsOut(t) == \E q \in qual : q.team = t /\ q.to = "ELIMINATED"

\* Mutant: a team may hold several slots.
SlotFreeForAny(t, s) == TRUE

\* The unique index on the team; a slot that is taken changes hands.
SlotFree(t, s) == \A other \in 1..W : other # s => slot[other] # t

AssignWildCard(t, s) ==
    /\ SlotFree(t, s)
    /\ "wildPlaying" \in Env \/ IsOut(t)
    /\ slot' = [slot EXCEPT ![s] = t]
    /\ window' = IF window = "NONE" THEN "OPEN" ELSE window
    /\ UNCHANGED <<status, row, qual, tie, req>>

RemoveWildCard(s) ==
    /\ window # "NONE" /\ slot' = [slot EXCEPT ![s] = None]
    /\ UNCHANGED <<status, row, qual, tie, window, req>>

Share(i, k, n) == {j \in 1..n : IF k = 0 THEN (j - 1) % G3 = i - 1 ELSE (j - 1) \div k = i - 1}

\* The qualifiers are dealt out in turn, the wild cards in slices of (W + G3 - 1) \div G3.
GenerateRound3 ==
    LET quals == {q \in qual : q.round = 2 /\ q.to = "ROUND_3"}
        from == SetToSeq(quals)
        members == UNION {{<<g, from[j].team>> : j \in Share(g, 0, Len(from))}
                     \cup {<<g, slot[j]>> : j \in Share(g, (W + G3 - 1) \div G3, W)} : g \in 1..G3}
    IN  /\ status[2] = "COMPLETED"
        /\ "regenerate" \in Env \/ status[3] # "COMPLETED"
        /\ \A s \in 1..W : slot[s] # None
        /\ Cardinality(quals) = B2 * G2
        /\ Cardinality(members) = B2 * G2 + W     \* no team twice in a group
        /\ window' = IF window = "OPEN" THEN "LOCKED" ELSE window
        /\ status' = [status EXCEPT ![3] = "LIVE"]
        /\ row' = Replaced(3, members)
        /\ tie' = Orphaned(3) /\ req' = Interrupted(3)
        /\ UNCHANGED <<qual, slot>>

\* With an invited team, or with whom the admin filled in.
AssembleGrandFinal(invited) ==
    LET finalists == invited \cup {q.team : q \in {x \in qual : x.to = "GRAND_FINAL"
                                                         /\ (x.round \in {2, 3} \/ x.manual)}}
    IN  /\ status[2] = "COMPLETED" /\ status[3] = "COMPLETED"
        /\ Cardinality(finalists) = Finalists
        /\ status' = [status EXCEPT ![4] = "LIVE"]
        /\ row' = Replaced(4, {<<1, t>> : t \in finalists})
        /\ UNCHANGED <<qual, tie, wild, req>>

\* The row hangs on Round 3, or before there is one on any round.  Nothing reads on which
\* (it is round 0 here), and nothing reads the row before Round 3 is completed.
FillGrandFinal(t) ==
    /\ status[3] = "COMPLETED"
    /\ \A q \in qual : ~q.manual
    /\ qual' = qual \cup {Qualify(0, t, "GRAND_FINAL", TRUE)}
    /\ UNCHANGED <<status, row, tie, wild, req>>

-----------------------------------------------------------------------------
Next ==
    \/ GenerateRound1 \/ GenerateRound3 \/ OpenWildCard \/ CloseWildCard
    \/ \E n \in 1..3 : \E g \in Groups(n) : \E pts \in Scores(TeamsOf(n, g)) :
           SubmitScores(n, g, pts)
    \/ \E r \in Requests :
        \/ \E n \in 1..3 : AdvanceRead(r, n)
        \/ PauseWrite(r) \/ AdvanceWrite(r) \/ CountPending(r)
        \/ \E i \in DOMAIN tie, t \in Teams : ResolveTie(r, i, t)
    \/ \E t \in Teams :
        \/ FillGrandFinal(t)
        \/ \E s \in 1..W : AssignWildCard(t, s)
    \/ \E s \in 1..W : RemoveWildCard(s)
    \/ \E invited \in {{}} \cup {{t} : t \in Teams} : AssembleGrandFinal(invited)

Spec == Init /\ [][Next]_vars

-----------------------------------------------------------------------------
(* Properties *)

\* A round decides about each team once: nothing but the order of the requests keeps a
\* second roundQualification row of the same round out.
QualifiedOnce ==
    \A p, q \in qual : p.round = q.round /\ p.team = q.team /\ ~p.manual /\ ~q.manual => p = q

Better(to) == CASE to = "ELIMINATED" -> 0 [] to \in {"ROUND_2", "ROUND_3"} -> 1 [] OTHER -> 2
Outcome(n, t) == {Better(q.to) : q \in {x \in qual : x.round = n /\ x.team = t /\ ~x.manual}}

Selected == {i \in DOMAIN tie : tie[i].group # 0 /\ tie[i].selected # None}

\* Nobody gets further than a team of his group with more points, nor than one with as
\* many unless an admin has decided the tie between them, and who was selected advances.
AdvancesOnMerit ==
    \A n \in {m \in 1..3 : status[m] = "COMPLETED"} :
        /\ \A g \in Groups(n) : \A t, u \in TeamsOf(n, g) :
            (\E a \in Outcome(n, t), b \in Outcome(n, u) : a > b) =>
                \/ Pts(n, g, t) > Pts(n, g, u)
                \/ /\ Pts(n, g, t) = Pts(n, g, u)
                   /\ \E i \in Selected : /\ tie[i].round = n /\ tie[i].group = g
                                          /\ {t, u} \subseteq tie[i].tied
        /\ \A i \in Selected :
            tie[i].round = n => \E a \in Outcome(n, tie[i].selected) : a > 0

\* A paused round waits for somebody: the last tie-breaker to be resolved resumes it.
PauseEnds ==
    \A n \in 1..3 : (status[n] = "TIE_BREAKER_PENDING" /\ ~Busy(n)) =>
        \E i \in DOMAIN tie : tie[i].round = n /\ tie[i].selected = None

\* A team plays in one group of a round, also when it comes in through the wild card.
OneGroup == \A x, y \in row : x.round = y.round /\ x.team = y.team => x = y

\* What is completed stays completed: neither a late pause nor a generation reopens it.
StaysCompleted == [][\A n \in 1..3 : status[n] = "COMPLETED" => status'[n] = "COMPLETED"]_vars
=============================================================================
