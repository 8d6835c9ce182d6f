------------------------- MODULE BracketStages_proofs -------------------------
(***************************************************************************)
(* What holds of the fixed bracket for every number of teams, groups,      *)
(* requests and cutoffs.  The proofs rest on one idea: a request that has  *)
(* read a round is the only one about it, so what it decided is still true *)
(* when it writes, and what it decided about is gone when the round's      *)
(* groups are generated again.  Who advances rests on one more: two        *)
(* rankings of the same scores differ only among teams that are level.     *)
(***************************************************************************)
EXTENDS BracketStages, FiniteSetTheorems, TLAPS

-----------------------------------------------------------------------------
(* Rankings *)

\* A ranking of m teams of S, each once.
Ranking(m, S) == {o \in [1..m -> S] : IsInjective(o)}

LEMMA CutoffTypes ==
  ASSUME NEW n \in 1..3
  PROVE  /\ Cutoffs(n)[1] \in Nat \ {0}
         /\ Len(Cutoffs(n)) = IF n = 2 THEN 2 ELSE 1
         /\ n = 2 => Cutoffs(n)[2] \in Nat \ {0}
<1>1. Cutoffs(1) = <<K1>> /\ Cutoffs(2) = <<A2, A2 + B2>> /\ Cutoffs(3) = <<K3>>
  BY DEF Cutoffs
<1>2. K1 \in Nat \ {0} /\ A2 \in Nat \ {0} /\ A2 + B2 \in Nat \ {0} /\ K3 \in Nat \ {0}
  BY CutoffsAssumption
<1> QED BY <1>1, <1>2

\* Moving a team up to rank k shifts those it passes by one.
LEMMA MovedForms ==
  ASSUME NEW m \in Nat, NEW S, NEW o \in Ranking(m, S), NEW k \in Nat \ {0}, NEW t
  PROVE  \/ Moved(o, k, t) = o
         \/ \E i \in 1..m :
              /\ i > k /\ o[i] = t
              /\ Moved(o, k, t) = [j \in 1..m |-> IF j = k THEN o[i]
                                                ELSE IF j > k /\ j <= i THEN o[j - 1] ELSE o[j]]
<1>1. o \in [1..m -> S] /\ DOMAIN o = 1..m
  BY DEF Ranking
<1>2. CASE \E i \in 1..m : i > k /\ o[i] = t
  <2>1. PICK i \in 1..m : i > k /\ o[i] = t
    BY <1>2
  <2>2. {j \in DOMAIN o : j > k /\ o[j] = t} = {i}
    BY <1>1, <2>1 DEF Ranking, IsInjective
  <2>3. Moved(o, k, t) = [j \in 1..m |-> IF j = k THEN o[i]
                                        ELSE IF j > k /\ j <= i THEN o[j - 1] ELSE o[j]]
    BY <1>1, <2>1, <2>2 DEF Moved
  <2> QED BY <2>1, <2>3
<1>3. CASE ~ \E i \in 1..m : i > k /\ o[i] = t
  <2>1. {j \in DOMAIN o : j > k /\ o[j] = t} = {}
    BY <1>1, <1>3
  <2>2. Moved(o, k, t) = [j \in 1..m |-> o[j]]
    BY <1>1, <2>1 DEF Moved
  <2> QED BY <1>1, <2>2
<1> QED BY <1>2, <1>3

LEMMA MovedRanking ==
  ASSUME NEW m \in Nat, NEW S, NEW o \in Ranking(m, S), NEW k \in Nat \ {0}, NEW t
  PROVE  Moved(o, k, t) \in Ranking(m, S)
<1>1. CASE Moved(o, k, t) = o
  BY <1>1
<1>2. ASSUME NEW i \in 1..m, i > k,
             Moved(o, k, t) = [j \in 1..m |-> IF j = k THEN o[i]
                                            ELSE IF j > k /\ j <= i THEN o[j - 1] ELSE o[j]]
      PROVE  Moved(o, k, t) \in Ranking(m, S)
  <2>0. o \in [1..m -> S] /\ \A a, b \in 1..m : o[a] = o[b] => a = b
    BY DEF Ranking, IsInjective
  <2> DEFINE from(j) == IF j = k THEN i ELSE IF j > k /\ j <= i THEN j - 1 ELSE j
  <2>1. \A j \in 1..m : from(j) \in 1..m
    BY <1>2
  <2>2. \A a, b \in 1..m : from(a) = from(b) => a = b
    BY <1>2
  <2>3. Moved(o, k, t) = [j \in 1..m |-> o[from(j)]]
    BY <1>2
  <2>4. \A j \in 1..m : Moved(o, k, t)[j] = o[from(j)]
    BY <2>3
  <2>5. DOMAIN Moved(o, k, t) = 1..m
    BY <2>3
  <2> HIDE DEF from
  <2>6. Moved(o, k, t) \in [1..m -> S]
    BY <2>0, <2>1, <2>3
  <2>7. IsInjective(Moved(o, k, t))
    BY <2>0, <2>1, <2>2, <2>4, <2>5 DEF IsInjective
  <2> QED BY <2>6, <2>7 DEF Ranking
<1> QED BY <1>1, <1>2, MovedForms

LEMMA SettleRanking ==
  ASSUME NEW m \in Nat, NEW S, NEW o \in Ranking(m, S), NEW k \in Nat \ {0}, NEW n, NEW g
  PROVE  Settle(n, g, o, k).order \in Ranking(m, S)
BY MovedRanking DEF Settle

LEMMA StandingRanking ==
  ASSUME NEW n \in 1..3, NEW g, NEW m \in Nat, NEW S, NEW o \in Ranking(m, S)
  PROVE  Standing(n, g, o).order \in Ranking(m, S)
<1>1. Settle(n, g, o, Cutoffs(n)[1]).order \in Ranking(m, S)
  BY CutoffTypes, SettleRanking
<1>2. n = 2 =>
         Settle(n, g, Settle(n, g, o, Cutoffs(n)[1]).order, Cutoffs(n)[2]).order \in Ranking(m, S)
  BY <1>1, CutoffTypes, SettleRanking
<1> QED BY <1>1, <1>2, CutoffTypes DEF Standing

-----------------------------------------------------------------------------
(* Forms of the steps *)

\* A team of a group is a team, and a group has finitely many.
LEMMA GroupTypes ==
  ASSUME TypeOK, NEW n, NEW g
  PROVE  /\ TeamsOf(n, g) \subseteq Teams
         /\ Cardinality(TeamsOf(n, g)) \in Nat
         /\ g \in Groups(n) => g \in GroupIds
         /\ Ranked(n, g) \subseteq Ranking(Cardinality(TeamsOf(n, g)), TeamsOf(n, g))
<1>1. TeamsOf(n, g) \subseteq Teams
  BY DEF TypeOK, TeamsOf, GroupRows
<1>2. Cardinality(TeamsOf(n, g)) \in Nat
  BY <1>1, TeamsAssumption, FS_Subset, FS_CardinalityType
<1>3. g \in Groups(n) => g \in GroupIds
  BY DEF TypeOK, Groups
<1> QED BY <1>1, <1>2, <1>3 DEF Ranked, Ranking

LEMMA TiesAreSets ==
  ASSUME TypeOK, NEW n, NEW g, NEW o
  PROVE  Standing(n, g, o).open \subseteq Teams
<1>1. \A t : TiedWith(n, g, t) \subseteq Teams
  BY GroupTypes DEF TiedWith
<1>2. \A p, k : Settle(n, g, p, k).open \subseteq Teams
  BY <1>1 DEF Settle
<1> QED BY <1>2 DEF Standing

Request(pc, n, order, ties) == [pc |-> pc, round |-> n, order |-> order, ties |-> ties]
Pausing(n, ties) == Request("pause", n, <<>>, ties)
Writing(n, order) == Request("write", n, order, {})
Counting(n) == Request("count", n, <<>>, {})

LEMMA RequestFields ==
  ASSUME NEW pc, NEW n, NEW order, NEW ties, NEW x
  PROVE  LET q == Request(pc, n, order, ties)
         IN  /\ q.pc = pc /\ q.round = n /\ q.order = order /\ q.ties = ties
             /\ [q EXCEPT !.pc = x] = Request(x, n, order, ties)
             /\ [q EXCEPT !.round = x] = Request(pc, x, order, ties)
             /\ [q EXCEPT !.order = x] = Request(pc, n, x, ties)
             /\ [q EXCEPT !.ties = x] = Request(pc, n, order, x)
BY DEF Request

LEMMA RequestRecords ==
  ASSUME NEW n, NEW x
  PROVE  /\ NoRequest = Request("idle", 0, <<>>, {})
         /\ [NoRequest EXCEPT !.pc = "pause", !.round = n, !.ties = x] = Pausing(n, x)
         /\ [NoRequest EXCEPT !.pc = "write", !.round = n, !.order = x] = Writing(n, x)
         /\ [NoRequest EXCEPT !.pc = "count", !.round = n] = Counting(n)
<1>1. NoRequest = Request("idle", 0, <<>>, {})
  BY DEF NoRequest, Request
<1>2. /\ [NoRequest EXCEPT !.pc = "pause"] = Request("pause", 0, <<>>, {})
      /\ [NoRequest EXCEPT !.pc = "write"] = Request("write", 0, <<>>, {})
      /\ [NoRequest EXCEPT !.pc = "count"] = Request("count", 0, <<>>, {})
  BY <1>1, RequestFields
<1>3. \A pc : [Request(pc, 0, <<>>, {}) EXCEPT !.round = n] = Request(pc, n, <<>>, {})
  BY RequestFields
<1>4. /\ [Request("pause", n, <<>>, {}) EXCEPT !.ties = x] = Pausing(n, x)
      /\ [Request("write", n, <<>>, {}) EXCEPT !.order = x] = Writing(n, x)
  BY RequestFields DEF Pausing, Writing
<1> QED BY <1>1, <1>2, <1>3, <1>4 DEF Counting

\* The ties a read of round n finds, given the ranking it read of every group.
Found(n, rank) ==
    {<<g, Standing(n, g, rank[g]).open>> : g \in
        {h \in Groups(n) : /\ Standing(n, h, rank[h]).open # {}
                           /\ \A i \in DOMAIN tie : ~(tie[i].round = n /\ tie[i].group = h
                                                      /\ tie[i].selected = None)}}

\* What a read of round n leads to.
LEMMA ReadForms ==
  ASSUME TypeOK, NEW r \in Requests, NEW n \in 1..3, AdvanceRead(r, n)
  PROVE  \/ ~MayAdvance(n) /\ req' = [req EXCEPT ![r] = NoRequest]
         \/ MayAdvance(n) /\ \E rank \in [Groups(n) -> UNION {Ranked(n, g) : g \in Groups(n)}] :
              /\ \A g \in Groups(n) : rank[g] \in Ranked(n, g)
              /\ \/ /\ \E g \in Groups(n) : Standing(n, g, rank[g]).open # {}
                    /\ req' = [req EXCEPT ![r] = Pausing(n, Found(n, rank))]
                 \/ /\ \A g \in Groups(n) : Standing(n, g, rank[g]).open = {}
                    /\ req' = [req EXCEPT ![r] =
                          Writing(n, [g \in Groups(n) |-> Standing(n, g, rank[g]).order])]
<1>1. CASE ~MayAdvance(n)
  BY <1>1 DEF AdvanceRead
<1>2. CASE MayAdvance(n)
  <2>1. PICK rank \in [Groups(n) -> UNION {Ranked(n, g) : g \in Groups(n)}] :
          /\ \A g \in Groups(n) : rank[g] \in Ranked(n, g)
          /\ LET out == [g \in Groups(n) |-> Standing(n, g, rank[g])]
                 open == {g \in Groups(n) : out[g].open # {}}
             IN  req' = [req EXCEPT ![r] =
                   IF open # {}
                   THEN [NoRequest EXCEPT !.pc = "pause", !.round = n,
                             !.ties = {<<g, out[g].open>> : g \in
                                {h \in open : \A i \in DOMAIN tie :
                                     ~(tie[i].round = n /\ tie[i].group = h
                                       /\ tie[i].selected = None)}}]
                   ELSE [NoRequest EXCEPT !.pc = "write", !.round = n,
                             !.order = [g \in Groups(n) |-> out[g].order]]]
    BY <1>2 DEF AdvanceRead
  <2> DEFINE out == [g \in Groups(n) |-> Standing(n, g, rank[g])]
             open == {g \in Groups(n) : out[g].open # {}}
             ties == {<<g, out[g].open>> : g \in
                        {h \in open : \A i \in DOMAIN tie :
                             ~(tie[i].round = n /\ tie[i].group = h /\ tie[i].selected = None)}}
  <2>2. ties = Found(n, rank)
    BY DEF Found
  <2>3. open # {} <=> \E g \in Groups(n) : Standing(n, g, rank[g]).open # {}
    OBVIOUS
  <2>4. \A x : [NoRequest EXCEPT !.pc = "pause", !.round = n, !.ties = x] = Pausing(n, x)
    BY RequestRecords
  <2>5. \A x : [NoRequest EXCEPT !.pc = "write", !.round = n, !.order = x] = Writing(n, x)
    BY RequestRecords
  <2>6. [g \in Groups(n) |-> out[g].order] = [g \in Groups(n) |-> Standing(n, g, rank[g]).order]
    <3>1. \A g \in Groups(n) : out[g].order = Standing(n, g, rank[g]).order
      OBVIOUS
    <3> QED BY <3>1, Zenon
  <2>7. req' = [req EXCEPT ![r] = IF open # {} THEN Pausing(n, Found(n, rank))
                 ELSE Writing(n, [g \in Groups(n) |-> Standing(n, g, rank[g]).order])]
    <3> HIDE DEF ties
    <3>1. req' = [req EXCEPT ![r] = IF open # {}
                   THEN [NoRequest EXCEPT !.pc = "pause", !.round = n, !.ties = ties]
                   ELSE [NoRequest EXCEPT !.pc = "write", !.round = n,
                             !.order = [g \in Groups(n) |-> out[g].order]]]
      BY <2>1, Zenon DEF ties
    <3> QED BY <2>2, <2>4, <2>5, <2>6, <3>1, Zenon
  <2> QED BY <1>2, <2>1, <2>3, <2>7
<1> QED BY <1>1, <1>2

-----------------------------------------------------------------------------
(* Types *)

\* A request that will write a ranking has ranked whole groups.
OrderRanks(q) ==
    q.pc = "write" => \A g \in DOMAIN q.order :
        \E m \in Nat : q.order[g] \in Ranking(m, Teams) /\ (q.round = 1 => m = L1)
Ranked1 ==
    /\ \A g \in Groups(1) : Cardinality(TeamsOf(1, g)) = L1
    /\ \A r \in Requests : OrderRanks(req[r])

RowRecord == [round : Rounds, group : GroupIds, team : Teams, pts : 0..MaxScore]
TieRecord == [round : 1..3, group : {0} \cup GroupIds, tied : SUBSET Teams,
              selected : Teams \cup {None}]

LEMMA FiniteImage ==
  ASSUME NEW S, IsFiniteSet(S), NEW f, DOMAIN f = S
  PROVE  IsFiniteSet({f[x] : x \in S})
<1> DEFINE h == [x \in S |-> f[x]]
<1>1. h \in Surjection(S, {f[x] : x \in S})
  BY DEF Surjection
<1> QED BY <1>1, FS_Surjection

LEMMA GroupIdsFinite ==
  /\ IsFiniteSet(GroupIds) /\ GroupIds \subseteq Nat \ {0}
  /\ 1..G1 \subseteq GroupIds /\ 1..G2 \subseteq GroupIds /\ 1..G3 \subseteq GroupIds
<1>1. G1 \in Nat \ {0} /\ G2 \in Nat \ {0} /\ G3 \in Nat \ {0}
  BY GroupsAssumption
<1>2. IsFiniteSet(GroupIds)
  BY <1>1, FS_Interval DEF GroupIds
<1> QED BY <1>1, <1>2 DEF GroupIds

LEMMA RankingTypes ==
  ASSUME NEW m \in Nat, NEW S, NEW o \in Ranking(m, S)
  PROVE  o \in Seq(S) /\ DOMAIN o = 1..m /\ Len(o) = m /\ IsInjective(o)
         /\ \A i \in 1..m : o[i] \in S
BY DEF Ranking

\* What is left of the rows after the groups of round n were created again.
LEMMA ReplacedRows ==
  ASSUME row \subseteq RowRecord, NEW n \in Rounds,
         NEW members \in SUBSET (GroupIds \X Teams), row' = Replaced(n, members)
  PROVE  /\ row' \subseteq RowRecord
         /\ \A x \in row' : \/ x \in row /\ x.round # n
                            \/ x.round = n /\ x.pts = 0 /\ <<x.group, x.team>> \in members
         /\ \A k \in Rounds \ {n} : Groups(k)' = Groups(k)
                                    /\ \A g : GroupRows(k, g)' = GroupRows(k, g)
                                              /\ TeamsOf(k, g)' = TeamsOf(k, g)
         /\ \A g : TeamsOf(n, g)' = {t \in Teams : <<g, t>> \in members}
         /\ \A g \in Groups(n)' : \E t \in Teams : <<g, t>> \in members
<1>1. \A m \in members : m[1] \in GroupIds /\ m[2] \in Teams /\ m = <<m[1], m[2]>>
  OBVIOUS
<1>2. 0 \in 0..MaxScore
  BY BoundsAssumption
<1>3. \A x \in row' : \/ x \in row /\ x.round # n
                      \/ \E m \in members : x = [round |-> n, group |-> m[1], team |-> m[2], pts |-> 0]
  BY DEF Replaced
<1>4. \A x \in row : x.round # n => x \in row'
  BY DEF Replaced
<1>5. \A m \in members : [round |-> n, group |-> m[1], team |-> m[2], pts |-> 0] \in row'
  BY DEF Replaced
<1>6. row' \subseteq RowRecord
  BY <1>1, <1>2, <1>3 DEF RowRecord
<1>7. \A x \in row' : \/ x \in row /\ x.round # n
                      \/ x.round = n /\ x.pts = 0 /\ <<x.group, x.team>> \in members
  BY <1>1, <1>3
<1>8. ASSUME NEW k \in Rounds \ {n}
      PROVE  Groups(k)' = Groups(k)
             /\ \A g : GroupRows(k, g)' = GroupRows(k, g) /\ TeamsOf(k, g)' = TeamsOf(k, g)
  <2>1. {x \in row' : x.round = k} = {x \in row : x.round = k}
    BY <1>4, <1>7, <1>8
  <2>2. \A g : GroupRows(k, g)' = GroupRows(k, g)
    BY <2>1 DEF GroupRows
  <2> QED BY <2>1, <2>2 DEF Groups, TeamsOf
<1>9. ASSUME NEW g PROVE TeamsOf(n, g)' = {t \in Teams : <<g, t>> \in members}
  <2>1. \A x \in row' : x.round = n /\ x.group = g => <<g, x.team>> \in members
    BY <1>7
  <2>2. ASSUME NEW t \in Teams, <<g, t>> \in members
        PROVE  \E x \in row' : x.round = n /\ x.group = g /\ x.team = t
    <3>1. [round |-> n, group |-> g, team |-> t, pts |-> 0] \in row'
      BY <1>5, <2>2
    <3> QED BY <3>1
  <2>3. \A x \in row' : x.team \in Teams
    BY <1>6 DEF RowRecord
  <2> QED BY <2>1, <2>2, <2>3 DEF TeamsOf, GroupRows
<1>10. \A g \in Groups(n)' : \E t \in Teams : <<g, t>> \in members
  BY <1>6, <1>7 DEF Groups, RowRecord
<1> QED BY <1>6, <1>7, <1>8, <1>9, <1>10

\* What is left of a request when the groups of round n were created again.
LEMMA InterruptedForms ==
  ASSUME TypeOK, NEW n, NEW h \in Requests
  PROVE  LET q == Interrupted(n)[h]
         IN  /\ RequestOK(q)
             /\ q.pc \in {"idle", req[h].pc}
             /\ q.pc # "idle" => q.round = req[h].round /\ (q.ties = {} <=> req[h].ties = {})
             /\ q.pc = "write" => q = req[h] /\ q.round # n
             /\ q.pc = "idle" \/ (q.pc = req[h].pc /\ q.round = req[h].round)
<1> DEFINE q == Interrupted(n)[h]
<1>1. RequestOK(req[h])
  BY DEF TypeOK
<1>2. RequestOK(NoRequest) /\ NoRequest.pc = "idle"
  <2>1. NoRequest = Request("idle", 0, <<>>, {})
    BY RequestRecords
  <2> QED BY <2>1, RequestFields DEF RequestOK, Request
<1>3. CASE req[h].round = n /\ req[h].pc = "write"
  <2>1. q = NoRequest
    BY <1>3 DEF Interrupted
  <2> QED BY <1>2, <2>1
<1>4. CASE req[h].round = n /\ req[h].pc = "pause"
  <2>1. PICK ties : ties = {<<0, t[2]>> : t \in req[h].ties}
    OBVIOUS
  <2>2. q = [req[h] EXCEPT !.ties = ties]
    BY <1>4, <2>1 DEF Interrupted
  <2>3. req[h] = Request(req[h].pc, req[h].round, req[h].order, req[h].ties)
    BY <1>1 DEF RequestOK, Request
  <2>4. q = Request(req[h].pc, req[h].round, req[h].order, ties)
    BY <2>2, <2>3, RequestFields
  <2>5. ties \subseteq ({0} \cup GroupIds) \X SUBSET Teams /\ (ties = {} <=> req[h].ties = {})
    <3>1. \A t \in req[h].ties : <<0, t[2]>> \in ({0} \cup GroupIds) \X SUBSET Teams
      BY <1>1 DEF RequestOK
    <3> QED BY <2>1, <3>1
  <2>6. /\ q.pc = req[h].pc /\ q.round = req[h].round /\ q.order = req[h].order /\ q.ties = ties
        /\ q = [pc |-> q.pc, round |-> q.round, order |-> q.order, ties |-> q.ties]
    BY <2>4, RequestFields DEF Request
  <2>7. RequestOK(q)
    BY <1>1, <1>4, <2>5, <2>6 DEF RequestOK
  <2> QED BY <1>4, <2>5, <2>6, <2>7
<1>5. CASE ~(req[h].round = n /\ req[h].pc \in {"write", "pause"})
  <2>1. q = req[h]
    BY <1>5 DEF Interrupted
  <2> QED BY <1>1, <1>5, <2>1
<1> QED BY <1>3, <1>4, <1>5

\* A tie-breaker keeps everything but its group when the groups of a round go.
LEMMA OrphanedForms ==
  ASSUME TypeOK, NEW n
  PROVE  /\ Orphaned(n) \in Seq(TieRecord) /\ DOMAIN Orphaned(n) = DOMAIN tie
         /\ \A i \in DOMAIN tie :
              LET x == Orphaned(n)[i]
              IN  /\ x.round = tie[i].round /\ x.tied = tie[i].tied
                  /\ x.selected = tie[i].selected
                  /\ x.group = IF tie[i].round = n THEN 0 ELSE tie[i].group
<1>1. tie \in Seq(TieRecord)
  BY DEF TypeOK, TieRecord
<1>2. DOMAIN Orphaned(n) = DOMAIN tie
  BY DEF Orphaned
<1>3. ASSUME NEW i \in DOMAIN tie
      PROVE  LET x == Orphaned(n)[i]
             IN  /\ x \in TieRecord
                 /\ x.round = tie[i].round /\ x.tied = tie[i].tied
                 /\ x.selected = tie[i].selected
                 /\ x.group = IF tie[i].round = n THEN 0 ELSE tie[i].group
  <2>1. tie[i] \in TieRecord
    BY <1>1
  <2>2. Orphaned(n)[i] = IF tie[i].round = n THEN [tie[i] EXCEPT !.group = 0] ELSE tie[i]
    BY DEF Orphaned
  <2> QED BY <2>1, <2>2 DEF TieRecord
<1>4. Orphaned(n) \in Seq(TieRecord)
  <2>1. DOMAIN tie = 1..Len(tie) /\ Len(tie) \in Nat
    BY <1>1
  <2>2. Orphaned(n) \in [1..Len(tie) -> TieRecord]
    BY <1>2, <1>3, <2>1 DEF Orphaned
  <2> QED BY <2>1, <2>2
<1> QED BY <1>2, <1>3, <1>4

\* Scores change points and nothing else.
LEMMA ScoreRows ==
  ASSUME TypeOK, NEW n \in 1..3, NEW g \in Groups(n), NEW pts \in Scores(TeamsOf(n, g)),
         SubmitScores(n, g, pts)
  PROVE  /\ row' \subseteq RowRecord
         /\ \E f \in [row -> row'] :
              /\ row' = {f[x] : x \in row}
              /\ \A x \in row : /\ f[x].round = x.round /\ f[x].group = x.group
                                /\ f[x].team = x.team
                                /\ x.round # n \/ x.group # g => f[x] = x
                                /\ x.round = n /\ x.group = g => f[x].pts = pts[x.team]
         /\ \A k, h : Groups(k)' = Groups(k) /\ TeamsOf(k, h)' = TeamsOf(k, h)
<1>0. row \subseteq RowRecord
  BY DEF TypeOK, RowRecord
<1> DEFINE f == [x \in row |-> IF x \in GroupRows(n, g) THEN [x EXCEPT !.pts = pts[x.team]] ELSE x]
<1>1. row' = {f[x] : x \in row}
  BY DEF SubmitScores, GroupRows
<1>2. pts \in [TeamsOf(n, g) -> 0..MaxScore]
  BY DEF Scores
<1>3. ASSUME NEW x \in row
      PROVE  /\ f[x] \in RowRecord
             /\ f[x].round = x.round /\ f[x].group = x.group /\ f[x].team = x.team
             /\ x.round # n \/ x.group # g => f[x] = x
             /\ x.round = n /\ x.group = g => f[x].pts = pts[x.team]
  <2>1. x \in RowRecord
    BY <1>0
  <2>2. CASE x \in GroupRows(n, g)
    <3>1. pts[x.team] \in 0..MaxScore
      BY <1>2, <2>2 DEF TeamsOf
    <3>2. f[x] = [x EXCEPT !.pts = pts[x.team]]
      BY <2>2
    <3> QED BY <2>1, <2>2, <3>1, <3>2 DEF RowRecord, GroupRows
  <2>3. CASE x \notin GroupRows(n, g)
    BY <2>1, <2>3 DEF GroupRows
  <2> QED BY <2>2, <2>3
<1>4. f \in [row -> row']
  BY <1>1
<1> HIDE DEF f
<1>5. row' \subseteq RowRecord
  BY <1>1, <1>3
<1>6. ASSUME NEW k, NEW h PROVE Groups(k)' = Groups(k) /\ TeamsOf(k, h)' = TeamsOf(k, h)
  <2>1. \A y \in row' : \E x \in row : y.round = x.round /\ y.group = x.group /\ y.team = x.team
    BY <1>1, <1>3
  <2>2. \A x \in row : \E y \in row' : y.round = x.round /\ y.group = x.group /\ y.team = x.team
    BY <1>1, <1>3
  <2>3. Groups(k)' = Groups(k)
    BY <2>1, <2>2 DEF Groups
  <2>4. TeamsOf(k, h)' = TeamsOf(k, h)
    BY <2>1, <2>2 DEF TeamsOf, GroupRows
  <2> QED BY <2>3, <2>4
<1> QED BY <1>1, <1>3, <1>4, <1>5, <1>6

\* Every finite set has an enumeration.
LEMMA Enumeration ==
  ASSUME NEW S, IsFiniteSet(S)
  PROVE  SetToSeq(S) \in Ranking(Cardinality(S), S) /\ Cardinality(S) \in Nat
         /\ \A x \in S : \E i \in 1..Cardinality(S) : SetToSeq(S)[i] = x
<1>1. Cardinality(S) \in Nat /\ ExistsBijection(1..Cardinality(S), S)
  BY FS_CardinalityType
<1>2. \E f \in [1..Cardinality(S) -> S] : IsInjective(f)
  BY <1>1 DEF ExistsBijection, Bijection, Injection
<1>3. SetToSeq(S) \in Ranking(Cardinality(S), S)
  BY <1>2 DEF SetToSeq, Ranking
<1>4. SetToSeq(S) \in Injection(1..Cardinality(S), S)
  BY <1>3 DEF Ranking, Injection
<1>5. IsFiniteSet(1..Cardinality(S)) /\ Cardinality(1..Cardinality(S)) = Cardinality(S)
  BY <1>1, FS_Interval
<1>6. SetToSeq(S) \in Surjection(1..Cardinality(S), S)
  BY <1>4, <1>5, FS_Injection
<1> QED BY <1>1, <1>3, <1>6 DEF Surjection

Dealt(order, g, i) ==
    <<IF i % 2 = 1 THEN ((g - 1) % G2) + 1 ELSE G2 - ((g - 1) % G2), order[g][i]>>

LEMMA SnakeTypes ==
  ASSUME NEW q, q.pc = "write", q.round = 1, RequestOK(q), OrderRanks(q)
  PROVE  /\ Snake(q.order) = {Dealt(q.order, g, i) : g \in DOMAIN q.order, i \in 1..K1}
         /\ Snake(q.order) \subseteq GroupIds \X Teams
         /\ \A g \in DOMAIN q.order, i \in 1..K1 : q.order[g][i] \in Teams
<1>1. \A g \in DOMAIN q.order : g \in Nat \ {0}
  BY GroupIdsFinite DEF RequestOK
<1>2. ASSUME NEW g \in DOMAIN q.order, NEW i \in 1..K1 PROVE q.order[g][i] \in Teams
  <2>1. q.order[g] \in Ranking(L1, Teams)
    BY DEF OrderRanks
  <2>2. i \in 1..L1 /\ L1 \in Nat
    BY CutoffsAssumption
  <2> QED BY <2>1, <2>2, RankingTypes
<1>3. ASSUME NEW g \in DOMAIN q.order, NEW i \in 1..K1
      PROVE  Dealt(q.order, g, i) \in GroupIds \X Teams
  <2>1. G2 \in Nat \ {0} /\ 1..G2 \subseteq GroupIds
    BY GroupsAssumption, GroupIdsFinite
  <2>2. g - 1 \in Nat
    BY <1>1
  <2>3. (g - 1) % G2 \in 0..(G2 - 1)
    BY <2>1, <2>2
  <2>4. ((g - 1) % G2) + 1 \in 1..G2 /\ G2 - ((g - 1) % G2) \in 1..G2
    BY <2>1, <2>3
  <2> QED BY <1>2, <2>1, <2>4 DEF Dealt
<1>4. Snake(q.order) = {Dealt(q.order, g, i) : g \in DOMAIN q.order, i \in 1..K1}
  BY DEF Snake, Dealt
<1> QED BY <1>2, <1>3, <1>4

\* The groups of Round 3: the teams that came from Round 2, and those with a wild card.
Round3Quals == {q \in qual : q.round = 2 /\ q.to = "ROUND_3"}
WildSize == (W + G3 - 1) \div G3
Round3Members ==
    LET from == SetToSeq(Round3Quals)
    IN  UNION {{<<g, from[j].team>> : j \in Share(g, 0, Len(from))}
           \cup {<<g, slot[j]>> : j \in Share(g, WildSize, W)} : g \in 1..G3}

LEMMA Round3Forms ==
  ASSUME TypeOK, GenerateRound3
  PROVE  /\ \A m \in Round3Members : \E g \in 1..G3 :
              \/ \E j \in 1..Cardinality(Round3Quals) :
                    (j - 1) % G3 = g - 1 /\ m = <<g, SetToSeq(Round3Quals)[j].team>>
              \/ \E j \in 1..W : j \in Share(g, WildSize, W) /\ m = <<g, slot[j]>>
         /\ SetToSeq(Round3Quals) \in Ranking(Cardinality(Round3Quals), Round3Quals)
         /\ Cardinality(Round3Quals) \in Nat
         /\ \A s \in 1..W : slot[s] \in Teams
         /\ Round3Members \subseteq GroupIds \X Teams
         /\ status[2] = "COMPLETED" /\ ("regenerate" \in Env \/ status[3] # "COMPLETED")
         /\ status' = [status EXCEPT ![3] = "LIVE"] /\ row' = Replaced(3, Round3Members)
         /\ tie' = Orphaned(3) /\ req' = Interrupted(3)
         /\ window' \in {window, "LOCKED"} /\ qual' = qual /\ slot' = slot
<1>1. IsFiniteSet(Round3Quals)
  BY FS_Subset DEF TypeOK, Round3Quals
<1>2. /\ SetToSeq(Round3Quals) \in Ranking(Cardinality(Round3Quals), Round3Quals)
      /\ Cardinality(Round3Quals) \in Nat
  BY <1>1, Enumeration
<1>3. PICK from : from = SetToSeq(Round3Quals)
  OBVIOUS
<1>4. Len(from) = Cardinality(Round3Quals) /\ \A j \in 1..Len(from) : from[j] \in Round3Quals
  BY <1>2, <1>3, RankingTypes
<1>5. \A s \in 1..W : slot[s] \in Teams
  BY DEF GenerateRound3, TypeOK
<1>6. ASSUME NEW m \in Round3Members
      PROVE  \E g \in 1..G3 :
              \/ \E j \in 1..Len(from) : (j - 1) % G3 = g - 1 /\ m = <<g, from[j].team>>
              \/ \E j \in 1..W : j \in Share(g, WildSize, W) /\ m = <<g, slot[j]>>
  <2>1. PICK g \in 1..G3 : \/ \E j \in Share(g, 0, Len(from)) : m = <<g, from[j].team>>
                           \/ \E j \in Share(g, WildSize, W) : m = <<g, slot[j]>>
    BY <1>3 DEF Round3Members
  <2>2. \A j \in Share(g, 0, Len(from)) : j \in 1..Len(from) /\ (j - 1) % G3 = g - 1
    BY DEF Share
  <2>3. \A j \in Share(g, WildSize, W) : j \in 1..W
    BY DEF Share
  <2> QED BY <2>1, <2>2, <2>3
<1>7. Round3Members \subseteq GroupIds \X Teams
  <2>1. \A j \in 1..Len(from) : from[j].team \in Teams
    BY <1>4 DEF TypeOK, Round3Quals
  <2> QED BY <1>5, <1>6, <2>1, GroupIdsFinite
<1>8. /\ status' = [status EXCEPT ![3] = "LIVE"] /\ row' = Replaced(3, Round3Members)
      /\ tie' = Orphaned(3) /\ req' = Interrupted(3)
      /\ window' \in {window, "LOCKED"} /\ qual' = qual /\ slot' = slot
      /\ status[2] = "COMPLETED" /\ ("regenerate" \in Env \/ status[3] # "COMPLETED")
  BY DEF GenerateRound3, Round3Members, Round3Quals, WildSize
<1> QED BY <1>2, <1>3, <1>4, <1>5, <1>6, <1>7, <1>8

\* What a read leaves: nothing to do, the ties it found, or a ranking of every group.
LEMMA ReadOutcome ==
  ASSUME TypeOK, NEW r \in Requests, NEW n \in 1..3, AdvanceRead(r, n)
  PROVE  \/ ~MayAdvance(n) /\ req' = [req EXCEPT ![r] = NoRequest]
         \/ /\ MayAdvance(n)
            /\ \E ties \in SUBSET (GroupIds \X SUBSET Teams) :
                 /\ req' = [req EXCEPT ![r] = Pausing(n, ties)]
                 /\ \/ ties # {}
                    \/ \E i \in DOMAIN tie : tie[i].round = n /\ tie[i].selected = None
         \/ /\ MayAdvance(n)
            /\ \E order :
                 /\ req' = [req EXCEPT ![r] = Writing(n, order)]
                 /\ DOMAIN order = Groups(n)
                 /\ \A g \in Groups(n) :
                       order[g] \in Ranking(Cardinality(TeamsOf(n, g)), TeamsOf(n, g))
<1>1. CASE ~MayAdvance(n)
  BY <1>1, ReadForms
<1>2. ASSUME MayAdvance(n),
             NEW rank \in [Groups(n) -> UNION {Ranked(n, g) : g \in Groups(n)}],
             \E g \in Groups(n) : Standing(n, g, rank[g]).open # {},
             req' = [req EXCEPT ![r] = Pausing(n, Found(n, rank))]
      PROVE  \E ties \in SUBSET (GroupIds \X SUBSET Teams) :
               /\ req' = [req EXCEPT ![r] = Pausing(n, ties)]
               /\ \/ ties # {}
                  \/ \E i \in DOMAIN tie : tie[i].round = n /\ tie[i].selected = None
  <2>1. Found(n, rank) \subseteq GroupIds \X SUBSET Teams
    <3>1. \A g \in Groups(n) : g \in GroupIds /\ Standing(n, g, rank[g]).open \subseteq Teams
      BY GroupTypes, TiesAreSets
    <3> QED BY <3>1 DEF Found
  <2>2. \/ Found(n, rank) # {}
        \/ \E i \in DOMAIN tie : tie[i].round = n /\ tie[i].selected = None
    <3>1. PICK g \in Groups(n) : Standing(n, g, rank[g]).open # {}
      BY <1>2
    <3>2. CASE \A i \in DOMAIN tie : ~(tie[i].round = n /\ tie[i].group = g
                                       /\ tie[i].selected = None)
      <4>1. <<g, Standing(n, g, rank[g]).open>> \in Found(n, rank)
        BY <3>1, <3>2 DEF Found
      <4> QED BY <4>1
    <3> QED BY <3>2
  <2> QED BY <1>2, <2>1, <2>2
<1>3. ASSUME MayAdvance(n),
             NEW rank \in [Groups(n) -> UNION {Ranked(n, g) : g \in Groups(n)}],
             \A g \in Groups(n) : rank[g] \in Ranked(n, g),
             req' = [req EXCEPT ![r] =
                       Writing(n, [g \in Groups(n) |-> Standing(n, g, rank[g]).order])]
      PROVE  \E order :
                 /\ req' = [req EXCEPT ![r] = Writing(n, order)]
                 /\ DOMAIN order = Groups(n)
                 /\ \A g \in Groups(n) :
                       order[g] \in Ranking(Cardinality(TeamsOf(n, g)), TeamsOf(n, g))
  <2>1. \A g \in Groups(n) : Standing(n, g, rank[g]).order
                                \in Ranking(Cardinality(TeamsOf(n, g)), TeamsOf(n, g))
    BY <1>3, GroupTypes, StandingRanking
  <2> DEFINE order == [g \in Groups(n) |-> Standing(n, g, rank[g]).order]
  <2>2. req' = [req EXCEPT ![r] = Writing(n, order)]
    BY <1>3
  <2>3. DOMAIN order = Groups(n) /\ \A g \in Groups(n) : order[g] = Standing(n, g, rank[g]).order
    OBVIOUS
  <2>4. \A g \in Groups(n) :
           order[g] \in Ranking(Cardinality(TeamsOf(n, g)), TeamsOf(n, g))
    <3> HIDE DEF order
    <3> QED BY <2>1, <2>3
  <2>5. DOMAIN order = Groups(n)
    BY <2>3
  <2> HIDE DEF order
  <2> WITNESS order
  <2> QED BY <2>2, <2>4, <2>5
<1> QED BY <1>1, <1>2, <1>3, ReadForms

LEMMA SmallerRanking ==
  ASSUME NEW m, NEW S, NEW T, S \subseteq T
  PROVE  Ranking(m, S) \subseteq Ranking(m, T)
BY DEF Ranking

LEMMA ReadShape ==
  ASSUME TypeOK, Ranked1, NEW r \in Requests, NEW n \in 1..3, AdvanceRead(r, n)
  PROVE  \E q : RequestOK(q) /\ OrderRanks(q) /\ req' = [req EXCEPT ![r] = q]
<1>1. CASE req' = [req EXCEPT ![r] = NoRequest]
  <2>1. NoRequest = Request("idle", 0, <<>>, {})
    BY RequestRecords
  <2>2. RequestOK(NoRequest) /\ OrderRanks(NoRequest)
    BY <2>1, RequestFields DEF RequestOK, OrderRanks, Request
  <2> QED BY <1>1, <2>2
<1>2. ASSUME NEW ties \in SUBSET (GroupIds \X SUBSET Teams),
             req' = [req EXCEPT ![r] = Pausing(n, ties)]
      PROVE  \E q : RequestOK(q) /\ OrderRanks(q) /\ req' = [req EXCEPT ![r] = q]
  <2>1. ties \subseteq ({0} \cup GroupIds) \X SUBSET Teams
    OBVIOUS
  <2>2. RequestOK(Pausing(n, ties)) /\ OrderRanks(Pausing(n, ties))
    BY <2>1, RequestFields DEF Pausing, RequestOK, OrderRanks, Request
  <2> QED BY <1>2, <2>2
<1>3. ASSUME NEW order, req' = [req EXCEPT ![r] = Writing(n, order)],
             DOMAIN order = Groups(n),
             \A g \in Groups(n) :
                order[g] \in Ranking(Cardinality(TeamsOf(n, g)), TeamsOf(n, g))
      PROVE  \E q : RequestOK(q) /\ OrderRanks(q) /\ req' = [req EXCEPT ![r] = q]
  <2>1. \A g \in Groups(n) : /\ g \in GroupIds
                             /\ Cardinality(TeamsOf(n, g)) \in Nat
                             /\ order[g] \in Ranking(Cardinality(TeamsOf(n, g)), Teams)
    BY <1>3, GroupTypes, SmallerRanking
  <2>2. \A g \in Groups(n) : order[g] \in Seq(Teams)
    BY <2>1, RankingTypes
  <2>3. \A g \in Groups(n) : n = 1 => Cardinality(TeamsOf(n, g)) = L1
    BY DEF Ranked1
  <2>4. LET q == Writing(n, order)
        IN  q.pc = "write" /\ q.round = n /\ q.order = order /\ q.ties = {}
    BY RequestFields DEF Writing
  <2>5. RequestOK(Writing(n, order))
    BY <1>3, <2>1, <2>2, <2>4 DEF RequestOK, Writing, Request
  <2>6. OrderRanks(Writing(n, order))
    BY <1>3, <2>1, <2>3, <2>4 DEF OrderRanks
  <2> QED BY <1>3, <2>5, <2>6
<1> QED BY <1>1, <1>2, <1>3, ReadOutcome

\* The rows a request qualifies.
Qualified(n, order) ==
    UNION {{Qualify(n, order[g][i], To(n, i), FALSE) : i \in DOMAIN order[g]} : g \in DOMAIN order}

LEMMA QualifyFields ==
  ASSUME NEW n, NEW t, NEW to, NEW manual \in BOOLEAN
  PROVE  /\ Qualify(n, t, to, manual).round = n /\ Qualify(n, t, to, manual).team = t
         /\ Qualify(n, t, to, manual).to = to /\ Qualify(n, t, to, manual).manual = manual
BY DEF Qualify

LEMMA QualifiedTypes ==
  ASSUME NEW q, RequestOK(q), q.pc = "write"
  PROVE  /\ IsFiniteSet(Qualified(q.round, q.order))
         /\ \A x \in Qualified(q.round, q.order) :
              \E g \in DOMAIN q.order : \E i \in DOMAIN q.order[g] :
                 /\ x = Qualify(q.round, q.order[g][i], To(q.round, i), FALSE)
                 /\ x.round = q.round /\ x.team = q.order[g][i] /\ x.team \in Teams
                 /\ x.to = To(q.round, i) /\ x.to \in Destination /\ ~x.manual
<1>1. q.round \in 1..3 /\ DOMAIN q.order \subseteq GroupIds
      /\ \A g \in DOMAIN q.order : q.order[g] \in Seq(Teams)
  BY DEF RequestOK
<1> DEFINE of(g) == {Qualify(q.round, q.order[g][i], To(q.round, i), FALSE) : i \in DOMAIN q.order[g]}
<1>2. ASSUME NEW g \in DOMAIN q.order PROVE IsFiniteSet(of(g))
  <2> DEFINE f == [i \in DOMAIN q.order[g] |-> Qualify(q.round, q.order[g][i], To(q.round, i), FALSE)]
  <2>1. IsFiniteSet(DOMAIN q.order[g])
    <3>1. DOMAIN q.order[g] = 1..Len(q.order[g]) /\ Len(q.order[g]) \in Nat
      BY <1>1
    <3> QED BY <3>1, FS_Interval
  <2>2. of(g) = {f[i] : i \in DOMAIN q.order[g]}
    OBVIOUS
  <2>3. DOMAIN f = DOMAIN q.order[g]
    OBVIOUS
  <2> HIDE DEF f, of
  <2> QED BY <2>1, <2>2, <2>3, FiniteImage
<1>3. IsFiniteSet(Qualified(q.round, q.order))
  <2> DEFINE F == [g \in DOMAIN q.order |-> of(g)]
  <2>1. IsFiniteSet(DOMAIN q.order)
    BY <1>1, GroupIdsFinite, FS_Subset
  <2>2. IsFiniteSet({F[g] : g \in DOMAIN q.order})
    <3>1. DOMAIN F = DOMAIN q.order
      OBVIOUS
    <3> HIDE DEF F
    <3> QED BY <2>1, <3>1, FiniteImage
  <2>3. Qualified(q.round, q.order) = UNION {F[g] : g \in DOMAIN q.order}
    BY DEF Qualified
  <2>4. \A S \in {F[g] : g \in DOMAIN q.order} : IsFiniteSet(S)
    BY <1>2
  <2> HIDE DEF F
  <2> QED BY <2>2, <2>3, <2>4, FS_UNION
<1>4. ASSUME NEW g \in DOMAIN q.order, NEW i \in DOMAIN q.order[g]
      PROVE  LET x == Qualify(q.round, q.order[g][i], To(q.round, i), FALSE)
             IN  /\ x.round = q.round /\ x.team = q.order[g][i] /\ x.team \in Teams
                 /\ x.to = To(q.round, i) /\ x.to \in Destination /\ ~x.manual
  <2>1. q.order[g][i] \in Teams
    BY <1>1
  <2>2. To(q.round, i) \in Destination
    BY <1>1 DEF To, Destination
  <2> QED BY <2>1, <2>2 DEF Qualify
<1>5. ASSUME NEW x \in Qualified(q.round, q.order)
      PROVE  \E g \in DOMAIN q.order : \E i \in DOMAIN q.order[g] :
                 /\ x = Qualify(q.round, q.order[g][i], To(q.round, i), FALSE)
                 /\ x.round = q.round /\ x.team = q.order[g][i] /\ x.team \in Teams
                 /\ x.to = To(q.round, i) /\ x.to \in Destination /\ ~x.manual
  <2>1. PICK g \in DOMAIN q.order :
           \E i \in DOMAIN q.order[g] :
               x = Qualify(q.round, q.order[g][i], To(q.round, i), FALSE)
    BY DEF Qualified
  <2>2. PICK i \in DOMAIN q.order[g] :
           x = Qualify(q.round, q.order[g][i], To(q.round, i), FALSE)
    BY <2>1
  <2> QED BY <1>4, <2>2
<1> QED BY <1>3, <1>5

LEMMA RequestsStep ==
  ASSUME TypeOK, Ranked1, NEW r \in Requests, NEW q, RequestOK(q), OrderRanks(q),
         req' = [req EXCEPT ![r] = q]
  PROVE  /\ DOMAIN req' = Requests
         /\ req'[r] = q /\ \A s \in Requests : s # r => req'[s] = req[s]
         /\ \A s \in Requests : RequestOK(req'[s]) /\ OrderRanks(req'[s])
<1>1. DOMAIN req = Requests /\ \A s \in Requests : RequestOK(req[s]) /\ OrderRanks(req[s])
  BY DEF TypeOK, Ranked1
<1>2. DOMAIN req' = Requests /\ req'[r] = q /\ \A s \in Requests : s # r => req'[s] = req[s]
  BY <1>1
<1> QED BY <1>1, <1>2

LEMMA InterruptedStep ==
  ASSUME TypeOK, Ranked1, NEW n, req' = Interrupted(n)
  PROVE  /\ DOMAIN req' = Requests
         /\ \A s \in Requests : RequestOK(req'[s]) /\ OrderRanks(req'[s])
<1>1. DOMAIN req' = Requests
  BY DEF Interrupted
<1>2. ASSUME NEW s \in Requests
      PROVE  RequestOK(req'[s]) /\ OrderRanks(req'[s])
  <2>1. RequestOK(Interrupted(n)[s])
        /\ (Interrupted(n)[s].pc = "write" => Interrupted(n)[s] = req[s])
    BY InterruptedForms
  <2>2. OrderRanks(req[s])
    BY DEF Ranked1
  <2> QED BY <2>1, <2>2 DEF OrderRanks
<1> QED BY <1>1, <1>2

LEMMA IdleRequest ==
  /\ RequestOK(NoRequest) /\ OrderRanks(NoRequest)
  /\ NoRequest.pc = "idle" /\ NoRequest.round = 0 /\ NoRequest.ties = {}
<1>1. NoRequest = Request("idle", 0, <<>>, {})
  BY RequestRecords
<1>2. NoRequest.pc = "idle" /\ NoRequest.round = 0 /\ NoRequest.ties = {}
  BY <1>1, RequestFields
<1> QED BY <1>1, <1>2, RequestFields DEF RequestOK, OrderRanks, Request

Typed == TypeOK /\ Ranked1

LEMMA Generate1Types ==
  ASSUME Typed, GenerateRound1
  PROVE  Typed'
<1> USE DEF Typed
<1>1. PICK shuffled \in [Teams -> 1..G1] :
         /\ \A g \in 1..G1 : Cardinality({t \in Teams : shuffled[t] = g}) = L1
         /\ row' = Replaced(1, {<<shuffled[t], t>> : t \in Teams})
  BY DEF GenerateRound1
<1> DEFINE members == {<<shuffled[t], t>> : t \in Teams}
<1>2. members \in SUBSET (GroupIds \X Teams) /\ \A m \in members : m[1] \in 1..G1
  BY GroupIdsFinite
<1>3. \A g, t : <<g, t>> \in members <=> t \in Teams /\ g = shuffled[t]
  OBVIOUS
<1>4. row \subseteq RowRecord /\ 1 \in Rounds
  BY DEF TypeOK, RowRecord, Rounds
<1>5. row' = Replaced(1, members)
  BY <1>1
<1> HIDE DEF members
<1>6. /\ row' \subseteq RowRecord
      /\ \A g : TeamsOf(1, g)' = {t \in Teams : <<g, t>> \in members}
      /\ \A g \in Groups(1)' : \E t \in Teams : <<g, t>> \in members
  BY <1>2, <1>4, <1>5, ReplacedRows
<1>7. ASSUME NEW g \in Groups(1)' PROVE Cardinality(TeamsOf(1, g)') = L1
  <2>1. PICK t \in Teams : <<g, t>> \in members
    BY <1>6
  <2>2. g = shuffled[t] /\ g \in 1..G1
    BY <1>3, <2>1
  <2>3. {u \in Teams : <<g, u>> \in members} = {u \in Teams : shuffled[u] = g}
    BY <1>3
  <2>4. TeamsOf(1, g)' = {u \in Teams : shuffled[u] = g}
    BY <1>6, <2>3
  <2> QED BY <1>1, <2>2, <2>4
<1>8. tie' \in Seq(TieRecord)
  BY OrphanedForms DEF GenerateRound1
<1>9. /\ DOMAIN req' = Requests
      /\ \A s \in Requests : RequestOK(req'[s]) /\ OrderRanks(req'[s])
  BY InterruptedStep DEF GenerateRound1
<1>10. status' \in [Rounds -> RoundStatus] /\ UNCHANGED <<qual, wild>>
  BY DEF GenerateRound1, TypeOK, Rounds, RoundStatus
<1>11. TypeOK'
  BY <1>6, <1>8, <1>9, <1>10 DEF TypeOK, RowRecord, TieRecord, wild
<1> QED BY <1>7, <1>9, <1>11 DEF Ranked1

LEMMA Generate3Types ==
  ASSUME Typed, GenerateRound3
  PROVE  Typed'
<1> USE DEF Typed
<1>1. /\ Round3Members \in SUBSET (GroupIds \X Teams)
      /\ status' = [status EXCEPT ![3] = "LIVE"] /\ row' = Replaced(3, Round3Members)
      /\ tie' = Orphaned(3) /\ req' = Interrupted(3)
      /\ window' \in {window, "LOCKED"} /\ qual' = qual /\ slot' = slot
  BY Round3Forms
<1>2. row \subseteq RowRecord /\ 3 \in Rounds /\ 1 \in Rounds \ {3}
  BY DEF TypeOK, RowRecord, Rounds
<1>3. row' \subseteq RowRecord /\ Groups(1)' = Groups(1)
      /\ \A g : TeamsOf(1, g)' = TeamsOf(1, g)
  BY <1>1, <1>2, ReplacedRows
<1>4. tie' \in Seq(TieRecord)
  BY <1>1, OrphanedForms
<1>5. /\ DOMAIN req' = Requests
      /\ \A s \in Requests : RequestOK(req'[s]) /\ OrderRanks(req'[s])
  BY <1>1, InterruptedStep
<1>6. status' \in [Rounds -> RoundStatus]
  BY <1>1 DEF TypeOK, Rounds, RoundStatus
<1>7. TypeOK'
  BY <1>1, <1>3, <1>4, <1>5, <1>6 DEF TypeOK, RowRecord, TieRecord
<1> QED BY <1>3, <1>5, <1>7 DEF Ranked1

LEMMA RowsKept ==
  ASSUME row' = row
  PROVE  \A n, g : /\ Groups(n)' = Groups(n) /\ GroupRows(n, g)' = GroupRows(n, g)
                   /\ TeamsOf(n, g)' = TeamsOf(n, g)
BY DEF Groups, GroupRows, TeamsOf

LEMMA WriteForms ==
  ASSUME NEW r \in Requests, AdvanceWrite(r)
  PROVE  /\ req[r].pc = "write" /\ UNCHANGED wild
         /\ qual' = qual \cup Qualified(req[r].round, req[r].order)
         /\ \/ /\ req[r].round = 1
               /\ status' = [status EXCEPT ![1] = "COMPLETED", ![2] = "LIVE"]
               /\ row' = Replaced(2, Snake(req[r].order)) /\ tie' = Orphaned(2)
               /\ req' = [Interrupted(2) EXCEPT ![r] = NoRequest]
            \/ /\ req[r].round # 1
               /\ status' = [status EXCEPT ![req[r].round] = "COMPLETED"]
               /\ req' = [req EXCEPT ![r] = NoRequest]
               /\ UNCHANGED <<row, tie>>
BY DEF AdvanceWrite, Qualified

LEMMA WriteTypes ==
  ASSUME Typed, NEW r \in Requests, AdvanceWrite(r)
  PROVE  Typed'
<1> USE DEF Typed
<1> DEFINE n == req[r].round
<1> DEFINE order == req[r].order
<1>1. RequestOK(req[r]) /\ OrderRanks(req[r]) /\ req[r].pc = "write" /\ n \in 1..3
  BY WriteForms DEF TypeOK, Ranked1, RequestOK
<1>2. IsFiniteSet(qual')
      /\ \A q \in qual' : /\ q.round \in 0..3 /\ q.team \in Teams
                          /\ q.to \in Destination /\ q.manual \in BOOLEAN
  <2>1. /\ IsFiniteSet(Qualified(n, order))
        /\ \A x \in Qualified(n, order) :
              x.round = n /\ x.team \in Teams /\ x.to \in Destination /\ ~x.manual
    <3>1. ASSUME NEW x \in Qualified(n, order)
          PROVE  x.round = n /\ x.team \in Teams /\ x.to \in Destination /\ ~x.manual
      BY <1>1, QualifiedTypes
    <3>2. IsFiniteSet(Qualified(n, order))
      BY <1>1, QualifiedTypes
    <3> QED BY <3>1, <3>2
  <2>2. qual' = qual \cup Qualified(n, order)
    BY WriteForms
  <2>3. ASSUME NEW x \in Qualified(n, order) PROVE x.manual \in BOOLEAN
    <3>1. PICK g \in DOMAIN order : \E i \in DOMAIN order[g] :
             x = Qualify(n, order[g][i], To(n, i), FALSE)
      BY DEF Qualified
    <3>2. PICK i \in DOMAIN order[g] : x = Qualify(n, order[g][i], To(n, i), FALSE)
      BY <3>1
    <3> QED BY <3>2 DEF Qualify
  <2>4. IsFiniteSet(qual')
    BY <2>1, <2>2, FS_Union DEF TypeOK
  <2>5. \A q \in qual : /\ q.round \in 0..3 /\ q.team \in Teams
                        /\ q.to \in Destination /\ q.manual \in BOOLEAN
    BY DEF TypeOK
  <2> HIDE DEF n, order
  <2> QED BY <1>1, <2>1, <2>2, <2>3, <2>4, <2>5
<1>3. CASE n = 1
  <2>1. Snake(order) \in SUBSET (GroupIds \X Teams)
    BY <1>1, <1>3, SnakeTypes
  <2>2. row \subseteq RowRecord /\ 2 \in Rounds /\ 1 \in Rounds \ {2}
    BY DEF TypeOK, RowRecord, Rounds
  <2>3. row' = Replaced(2, Snake(order)) /\ tie' = Orphaned(2)
        /\ req' = [Interrupted(2) EXCEPT ![r] = NoRequest]
        /\ status' = [status EXCEPT ![1] = "COMPLETED", ![2] = "LIVE"]
    BY <1>3, WriteForms
  <2>4. row' \subseteq RowRecord /\ Groups(1)' = Groups(1)
        /\ \A g : TeamsOf(1, g)' = TeamsOf(1, g)
    BY <2>1, <2>2, <2>3, ReplacedRows
  <2>5. tie' \in Seq(TieRecord)
    BY <2>3, OrphanedForms
  <2>6. ASSUME NEW s \in Requests
        PROVE  RequestOK(req'[s]) /\ OrderRanks(req'[s])
    <3>1. /\ RequestOK(Interrupted(2)[s])
          /\ Interrupted(2)[s].pc = "write" => Interrupted(2)[s] = req[s]
      BY InterruptedForms
    <3>2. OrderRanks(Interrupted(2)[s])
      BY <3>1 DEF OrderRanks, Ranked1
    <3>3. req'[s] = IF s = r THEN NoRequest ELSE Interrupted(2)[s]
      BY <2>3 DEF Interrupted
    <3> QED BY <3>1, <3>2, <3>3, IdleRequest
  <2>7. DOMAIN req' = Requests
    BY <2>3 DEF Interrupted
  <2>8. status' \in [Rounds -> RoundStatus]
    BY <2>3 DEF TypeOK, Rounds, RoundStatus
  <2>9. UNCHANGED wild
    BY WriteForms
  <2>10. TypeOK'
    BY <1>2, <2>4, <2>5, <2>6, <2>7, <2>8, <2>9 DEF TypeOK, RowRecord, TieRecord, wild
  <2> QED BY <2>4, <2>6, <2>10 DEF Ranked1
<1>4. CASE n # 1
  <2>1. /\ status' = [status EXCEPT ![n] = "COMPLETED"]
        /\ req' = [req EXCEPT ![r] = NoRequest]
        /\ row' = row /\ tie' = tie /\ UNCHANGED wild
    BY <1>4, WriteForms
  <2>2. /\ DOMAIN req' = Requests
        /\ \A s \in Requests : RequestOK(req'[s]) /\ OrderRanks(req'[s])
    BY <2>1, IdleRequest, RequestsStep
  <2>3. status' \in [Rounds -> RoundStatus]
    BY <1>1, <2>1 DEF TypeOK, Rounds, RoundStatus
  <2>4. TypeOK'
    BY <1>2, <2>1, <2>2, <2>3 DEF TypeOK, wild
  <2> QED BY <2>1, <2>2, <2>4, RowsKept DEF Ranked1
<1> QED BY <1>3, <1>4

Unresolved(n) == \E i \in DOMAIN tie : tie[i].round = n /\ tie[i].selected = None
NewTie(n, t) == [round |-> n, group |-> t[1], tied |-> t[2], selected |-> None]

LEMMA TiesTyped ==
  ASSUME TypeOK
  PROVE  /\ tie \in Seq(TieRecord) /\ \A i \in DOMAIN tie : tie[i] \in TieRecord
         /\ \A i \in DOMAIN tie : tie[i].round \in 1..3 /\ tie[i].tied \subseteq Teams
<1>1. tie \in Seq(TieRecord)
  BY DEF TypeOK, TieRecord
<1>2. \A i \in DOMAIN tie : tie[i] \in TieRecord
  BY <1>1
<1> QED BY <1>1, <1>2 DEF TieRecord

LEMMA PauseForms ==
  ASSUME Typed, NEW r \in Requests, PauseWrite(r)
  PROVE  LET n == req[r].round
         IN  /\ req[r].pc = "pause" /\ n \in 1..3
             /\ tie' \in Seq(TieRecord) /\ DOMAIN tie \subseteq DOMAIN tie'
             /\ \A i \in DOMAIN tie : tie'[i] = tie[i]
             /\ \A i \in DOMAIN tie' \ DOMAIN tie :
                   \E t \in req[r].ties : tie'[i] = NewTie(n, t)
             /\ \A t \in req[r].ties : \E i \in DOMAIN tie' : tie'[i] = NewTie(n, t)
             /\ \A i, j \in DOMAIN tie' \ DOMAIN tie : tie'[i] = tie'[j] => i = j
             /\ status' = [status EXCEPT ![n] = "TIE_BREAKER_PENDING"]
             /\ req' = [req EXCEPT ![r] = NoRequest]
             /\ UNCHANGED <<row, qual, wild>>
<1> USE DEF Typed
<1> DEFINE n == req[r].round
<1>1. /\ RequestOK(req[r]) /\ req[r].pc = "pause" /\ n \in 1..3
      /\ req[r].ties \in SUBSET (({0} \cup GroupIds) \X SUBSET Teams)
  BY DEF TypeOK, PauseWrite, RequestOK
<1> DEFINE S == {NewTie(n, t) : t \in req[r].ties}
<1>2. S = {[round |-> n, group |-> t[1], tied |-> t[2], selected |-> None] : t \in req[r].ties}
  BY DEF NewTie
<1>3. tie' = tie \o SetToSeq(S)
  BY <1>2 DEF PauseWrite
<1>4. S \subseteq TieRecord
  <2>1. ASSUME NEW t \in req[r].ties PROVE NewTie(n, t) \in TieRecord
    <3>1. t[1] \in {0} \cup GroupIds /\ t[2] \in SUBSET Teams
      BY <1>1
    <3> HIDE DEF n
    <3> QED BY <1>1, <3>1 DEF NewTie, TieRecord
  <2> QED BY <2>1
<1>5. IsFiniteSet(S)
  <2>1. IsFiniteSet(SUBSET Teams)
    BY TeamsAssumption, FS_SUBSET
  <2>2. IsFiniteSet({0} \cup GroupIds)
    BY GroupIdsFinite, FS_AddElement
  <2>3. IsFiniteSet(({0} \cup GroupIds) \X SUBSET Teams)
    BY <2>1, <2>2, FS_Product
  <2>4. IsFiniteSet(req[r].ties)
    BY <1>1, <2>3, FS_Subset
  <2> DEFINE f == [t \in req[r].ties |-> NewTie(n, t)]
  <2>5. S = {f[t] : t \in req[r].ties} /\ DOMAIN f = req[r].ties
    OBVIOUS
  <2> HIDE DEF f, S
  <2> QED BY <2>4, <2>5, FiniteImage
<1> HIDE DEF S
<1>6. PICK m, new : /\ m \in Nat /\ new = SetToSeq(S) /\ new \in Ranking(m, S)
                    /\ \A x \in S : \E i \in 1..m : new[i] = x
  <2>1. /\ SetToSeq(S) \in Ranking(Cardinality(S), S) /\ Cardinality(S) \in Nat
        /\ \A x \in S : \E i \in 1..Cardinality(S) : SetToSeq(S)[i] = x
    BY <1>5, Enumeration
  <2> QED BY <2>1
<1>7. new \in Seq(S) /\ Len(new) = m /\ DOMAIN new = 1..m /\ IsInjective(new)
      /\ \A i \in 1..m : new[i] \in S
  BY <1>6, RankingTypes
<1>8. new \in Seq(TieRecord) /\ tie \in Seq(TieRecord)
  <2>1. \A i \in 1..m : new[i] \in TieRecord
    BY <1>4, <1>7
  <2> QED BY <1>7, <2>1, TiesTyped
<1>9. PICK l \in Nat : l = Len(tie) /\ DOMAIN tie = 1..l
  BY <1>8
<1>10. tie' = tie \o new /\ tie' \in Seq(TieRecord) /\ DOMAIN tie' = 1..(l + m)
  <2>1. tie' = tie \o new
    BY <1>3, <1>6
  <2>2. tie \o new \in Seq(TieRecord) /\ Len(tie \o new) = l + m
    BY <1>7, <1>8, <1>9
  <2> QED BY <1>6, <1>9, <2>1, <2>2
<1>11. \A i \in 1..l : tie'[i] = tie[i]
  BY <1>7, <1>8, <1>9, <1>10
<1>12. \A i \in (l+1)..(l+m) : tie'[i] = new[i - l]
  BY <1>7, <1>8, <1>9, <1>10
<1>13. \A i \in DOMAIN tie' \ DOMAIN tie :
          /\ i - l \in 1..m /\ tie'[i] = new[i - l]
          /\ \E t \in req[r].ties : tie'[i] = NewTie(n, t)
  <2>1. ASSUME NEW i \in DOMAIN tie' \ DOMAIN tie
        PROVE  /\ i - l \in 1..m /\ tie'[i] = new[i - l]
               /\ \E t \in req[r].ties : tie'[i] = NewTie(n, t)
    <3>1. i \in (l+1)..(l+m) /\ i - l \in 1..m
      BY <1>6, <1>9, <1>10
    <3>2. tie'[i] = new[i - l] /\ new[i - l] \in S
      BY <1>7, <1>12, <3>1
    <3> QED BY <3>1, <3>2 DEF S
  <2> QED BY <2>1
<1>14. ASSUME NEW t \in req[r].ties PROVE \E i \in DOMAIN tie' : tie'[i] = NewTie(n, t)
  <2>1. NewTie(n, t) \in S
    BY DEF S
  <2>2. PICK j \in 1..m : new[j] = NewTie(n, t)
    BY <1>6, <2>1
  <2>3. j + l \in (l+1)..(l+m) /\ j + l \in DOMAIN tie' /\ (j + l) - l = j
    BY <1>6, <1>9, <1>10
  <2>4. tie'[j + l] = NewTie(n, t)
    BY <1>12, <2>2, <2>3
  <2> QED BY <2>3, <2>4
<1>15. ASSUME NEW i \in DOMAIN tie' \ DOMAIN tie, NEW j \in DOMAIN tie' \ DOMAIN tie,
              tie'[i] = tie'[j]
       PROVE  i = j
  <2>1. i \in 1..(l + m) /\ j \in 1..(l + m) /\ l \in Nat /\ m \in Nat
    BY <1>6, <1>9, <1>10
  <2>2. i - l \in 1..m /\ j - l \in 1..m /\ new[i - l] = new[j - l]
    BY <1>13, <1>15
  <2>3. i - l = j - l
    BY <1>7, <2>2 DEF IsInjective
  <2> QED BY <2>1, <2>3
<1>16. /\ status' = [status EXCEPT ![n] = "TIE_BREAKER_PENDING"]
       /\ req' = [req EXCEPT ![r] = NoRequest]
       /\ UNCHANGED <<row, qual, wild>>
  BY DEF PauseWrite
<1>17. DOMAIN tie \subseteq DOMAIN tie'
  BY <1>6, <1>9, <1>10
<1> QED BY <1>1, <1>9, <1>10, <1>11, <1>13, <1>14, <1>15, <1>16, <1>17

LEMMA ResolveForms ==
  ASSUME Typed, NEW r \in Requests, NEW i \in DOMAIN tie, NEW t \in Teams, ResolveTie(r, i, t)
  PROVE  /\ req[r].pc = "idle" /\ t \in tie[i].tied /\ tie[i].round \in 1..3
         /\ "resolveAgain" \in Env \/ tie[i].selected = None
         /\ "advanceRace" \in Env \/ ~Busy(tie[i].round)
         /\ tie' \in Seq(TieRecord) /\ DOMAIN tie' = DOMAIN tie
         /\ \A j \in DOMAIN tie :
              /\ tie'[j].round = tie[j].round /\ tie'[j].group = tie[j].group
              /\ tie'[j].tied = tie[j].tied
              /\ tie'[j].selected = IF j = i THEN t ELSE tie[j].selected
         /\ req' = [req EXCEPT ![r] = Counting(tie[i].round)]
         /\ UNCHANGED <<status, row, qual, wild>>
<1>1. tie \in Seq(TieRecord) /\ tie[i] \in TieRecord
  BY TiesTyped DEF Typed
<1>2. tie' = [tie EXCEPT ![i].selected = t]
  BY DEF ResolveTie
<1>3. [tie[i] EXCEPT !.selected = t] \in TieRecord
  BY <1>1 DEF TieRecord
<1>4. tie' = [tie EXCEPT ![i] = [tie[i] EXCEPT !.selected = t]]
  BY <1>2
<1>5. tie' \in Seq(TieRecord) /\ DOMAIN tie' = DOMAIN tie
  BY <1>1, <1>3, <1>4
<1>6. ASSUME NEW j \in DOMAIN tie
      PROVE  /\ tie'[j].round = tie[j].round /\ tie'[j].group = tie[j].group
             /\ tie'[j].tied = tie[j].tied
             /\ tie'[j].selected = IF j = i THEN t ELSE tie[j].selected
  <2>1. tie[j] \in TieRecord
    BY <1>1
  <2> QED BY <1>1, <1>4, <2>1 DEF TieRecord
<1>7. req' = [req EXCEPT ![r] = Counting(tie[i].round)]
  <2>1. [NoRequest EXCEPT !.pc = "count", !.round = tie[i].round] = Counting(tie[i].round)
    BY RequestRecords
  <2> QED BY <2>1 DEF ResolveTie
<1>8. tie[i].round \in 1..3
  BY <1>1 DEF TieRecord
<1> QED BY <1>5, <1>6, <1>7, <1>8 DEF ResolveTie

LEMMA CountForms ==
  ASSUME Typed, NEW r \in Requests, CountPending(r)
  PROVE  /\ req[r].pc = "count" /\ req[r].round \in 1..3
         /\ UNCHANGED <<status, row, qual, tie, wild>>
         /\ \/ /\ ~Unresolved(req[r].round)
               /\ \E q : /\ RequestOK(q) /\ OrderRanks(q) /\ q.pc = "advance"
                         /\ q.round = req[r].round /\ req' = [req EXCEPT ![r] = q]
            \/ Unresolved(req[r].round) /\ req' = [req EXCEPT ![r] = NoRequest]
<1> DEFINE q == [req[r] EXCEPT !.pc = "advance"]
<1>1. RequestOK(req[r]) /\ req[r].pc = "count" /\ req[r].round \in 1..3
  BY DEF Typed, TypeOK, CountPending, RequestOK
<1>2. RequestOK(q) /\ OrderRanks(q) /\ q.pc = "advance" /\ q.round = req[r].round
  BY <1>1 DEF RequestOK, OrderRanks
<1>3. Remaining(req[r].round) = {} <=> ~Unresolved(req[r].round)
  BY DEF Remaining, Unresolved
<1>4. req' = [req EXCEPT ![r] = IF Remaining(req[r].round) = {} THEN q ELSE NoRequest]
  BY DEF CountPending
<1> HIDE DEF q
<1> QED BY <1>1, <1>2, <1>3, <1>4 DEF CountPending

LEMMA PlainTypes ==
  ASSUME Typed, UNCHANGED <<row, tie, req>>,
         status' \in [Rounds -> RoundStatus],
         IsFiniteSet(qual'),
         \A q \in qual' : /\ q.round \in 0..3 /\ q.team \in Teams
                          /\ q.to \in Destination /\ q.manual \in BOOLEAN,
         window' \in {"NONE", "OPEN", "LOCKED"}, slot' \in [1..W -> Teams \cup {None}]
  PROVE  Typed'
<1>1. TypeOK'
  BY DEF Typed, TypeOK
<1> QED BY <1>1, RowsKept DEF Typed, Ranked1

LEMMA RequestTypes ==
  ASSUME Typed, UNCHANGED <<status, row, qual, wild>>, tie' \in Seq(TieRecord),
         DOMAIN req' = Requests,
         \A s \in Requests : RequestOK(req'[s]) /\ OrderRanks(req'[s])
  PROVE  Typed'
<1>1. TypeOK'
  BY DEF Typed, TypeOK, wild, TieRecord
<1> QED BY <1>1, RowsKept DEF Typed, Ranked1

LEMMA CountingTypes ==
  ASSUME NEW n \in 1..3
  PROVE  /\ RequestOK(Counting(n)) /\ OrderRanks(Counting(n))
         /\ Counting(n).pc = "count" /\ Counting(n).round = n /\ Counting(n).ties = {}
<1>1. Counting(n).pc = "count" /\ Counting(n).round = n /\ Counting(n).ties = {}
  BY RequestFields DEF Counting
<1>2. RequestOK(Counting(n))
  BY <1>1 DEF RequestOK, Counting, Request
<1>3. OrderRanks(Counting(n))
  BY <1>1 DEF OrderRanks
<1> QED BY <1>1, <1>2, <1>3

LEMMA PauseTypes ==
  ASSUME Typed, NEW r \in Requests, PauseWrite(r)
  PROVE  Typed'
<1>1. /\ tie' \in Seq(TieRecord) /\ req[r].round \in 1..3
      /\ status' = [status EXCEPT ![req[r].round] = "TIE_BREAKER_PENDING"]
      /\ req' = [req EXCEPT ![r] = NoRequest] /\ UNCHANGED <<row, qual, wild>>
  BY PauseForms
<1>2. /\ DOMAIN req' = Requests
      /\ \A s \in Requests : RequestOK(req'[s]) /\ OrderRanks(req'[s])
  BY <1>1, IdleRequest, RequestsStep DEF Typed
<1>3. status' \in [Rounds -> RoundStatus]
  BY <1>1 DEF Typed, TypeOK, Rounds, RoundStatus
<1>4. TypeOK'
  BY <1>1, <1>2, <1>3 DEF Typed, TypeOK, wild, TieRecord
<1> QED BY <1>1, <1>2, <1>4, RowsKept DEF Typed, Ranked1

LEMMA FillForms ==
  ASSUME Typed, NEW t \in Teams, FillGrandFinal(t)
  PROVE  /\ status[3] = "COMPLETED" /\ UNCHANGED <<status, row, tie, wild, req>>
         /\ IsFiniteSet(qual')
         /\ \E x : /\ qual' = qual \cup {x} /\ x.round = 0 /\ x.team = t
                   /\ x.to = "GRAND_FINAL" /\ x.manual /\ x.manual \in BOOLEAN
         /\ \A q \in qual : ~q.manual
<1> DEFINE x == Qualify(0, t, "GRAND_FINAL", TRUE)
<1>1. x.round = 0 /\ x.team = t /\ x.to = "GRAND_FINAL" /\ x.manual /\ x.manual \in BOOLEAN
  BY DEF Qualify
<1>2. qual' = qual \cup {x}
  BY DEF FillGrandFinal
<1> HIDE DEF x
<1>3. IsFiniteSet(qual')
  BY <1>2, FS_AddElement DEF Typed, TypeOK
<1>4. PICK y : y = x
  OBVIOUS
<1>5. y.round = 0 /\ y.team = t /\ y.to = "GRAND_FINAL" /\ y.manual /\ y.manual \in BOOLEAN /\ qual' = qual \cup {y}
  BY <1>1, <1>2, <1>4
<1> QED BY <1>3, <1>5 DEF FillGrandFinal

LEMMA FillTypes ==
  ASSUME Typed, NEW t \in Teams, FillGrandFinal(t)
  PROVE  Typed'
<1>1. PICK x : qual' = qual \cup {x} /\ x.round = 0 /\ x.team = t
               /\ x.to = "GRAND_FINAL" /\ x.manual /\ x.manual \in BOOLEAN
  BY FillForms
<1>2. IsFiniteSet(qual') /\ UNCHANGED <<status, row, tie, wild, req>>
  BY FillForms
<1>3. \A q \in qual' : /\ q.round \in 0..3 /\ q.team \in Teams
                       /\ q.to \in Destination /\ q.manual \in BOOLEAN
  <2>1. /\ x.round \in 0..3 /\ x.team \in Teams
        /\ x.to \in Destination /\ x.manual \in BOOLEAN
    BY <1>1 DEF Destination
  <2>2. \A q \in qual : /\ q.round \in 0..3 /\ q.team \in Teams
                        /\ q.to \in Destination /\ q.manual \in BOOLEAN
    BY DEF Typed, TypeOK
  <2> QED BY <1>1, <2>1, <2>2
<1> QED BY <1>2, <1>3, PlainTypes DEF Typed, TypeOK, wild

LEMMA GrandFinalForms ==
  ASSUME Typed, NEW invited \in {{}} \cup {{t} : t \in Teams}, AssembleGrandFinal(invited)
  PROVE  \E finalists \in SUBSET Teams :
           /\ row' = Replaced(4, {<<1, t>> : t \in finalists})
           /\ {<<1, t>> : t \in finalists} \in SUBSET (GroupIds \X Teams)
           /\ status' = [status EXCEPT ![4] = "LIVE"]
           /\ UNCHANGED <<qual, tie, wild, req>>
<1> DEFINE finalists == invited \cup {q.team : q \in {x \in qual : x.to = "GRAND_FINAL"
                                                       /\ (x.round \in {2, 3} \/ x.manual)}}
<1>1. finalists \in SUBSET Teams
  BY DEF Typed, TypeOK
<1>2. row' = Replaced(4, {<<1, t>> : t \in finalists})
  BY DEF AssembleGrandFinal
<1>3. status' = [status EXCEPT ![4] = "LIVE"] /\ UNCHANGED <<qual, tie, wild, req>>
  BY DEF AssembleGrandFinal
<1>4. 1 \in GroupIds
  BY GroupIdsFinite, GroupsAssumption
<1> HIDE DEF finalists
<1>5. {<<1, t>> : t \in finalists} \in SUBSET (GroupIds \X Teams)
  BY <1>1, <1>4
<1> QED BY <1>1, <1>2, <1>3, <1>5

LEMMA GrandFinalTypes ==
  ASSUME Typed, NEW invited \in {{}} \cup {{t} : t \in Teams}, AssembleGrandFinal(invited)
  PROVE  Typed'
<1>1. PICK finalists \in SUBSET Teams :
           /\ row' = Replaced(4, {<<1, t>> : t \in finalists})
           /\ {<<1, t>> : t \in finalists} \in SUBSET (GroupIds \X Teams)
           /\ status' = [status EXCEPT ![4] = "LIVE"]
           /\ UNCHANGED <<qual, tie, wild, req>>
  BY GrandFinalForms
<1>2. row \subseteq RowRecord /\ 4 \in Rounds /\ 1 \in Rounds \ {4}
  BY DEF Typed, TypeOK, RowRecord, Rounds
<1>3. /\ row' \subseteq RowRecord /\ Groups(1)' = Groups(1)
      /\ \A g : TeamsOf(1, g)' = TeamsOf(1, g)
  BY <1>1, <1>2, ReplacedRows
<1>4. status' \in [Rounds -> RoundStatus]
  BY <1>1 DEF Typed, TypeOK, Rounds, RoundStatus
<1>5. TypeOK'
  BY <1>1, <1>3, <1>4 DEF Typed, TypeOK, RowRecord, wild
<1> QED BY <1>1, <1>3, <1>5 DEF Typed, Ranked1

LEMMA ScoreTypes ==
  ASSUME Typed, NEW n \in 1..3, NEW g \in Groups(n), NEW pts \in Scores(TeamsOf(n, g)),
         SubmitScores(n, g, pts)
  PROVE  Typed'
<1>1. /\ row' \subseteq RowRecord
      /\ \A k, h : Groups(k)' = Groups(k) /\ TeamsOf(k, h)' = TeamsOf(k, h)
  BY ScoreRows DEF Typed
<1>2. UNCHANGED <<status, qual, tie, wild, req>>
  BY DEF SubmitScores
<1>3. TypeOK'
  BY <1>1, <1>2 DEF Typed, TypeOK, RowRecord, wild
<1> QED BY <1>1, <1>2, <1>3 DEF Typed, Ranked1

LEMMA AssignForms ==
  ASSUME Typed, NEW t \in Teams, NEW s \in 1..W, AssignWildCard(t, s)
  PROVE  /\ SlotFree(t, s) /\ ("wildPlaying" \in Env \/ IsOut(t))
         /\ slot' = [slot EXCEPT ![s] = t] /\ window' \in {"NONE", "OPEN", "LOCKED"}
         /\ UNCHANGED <<status, row, qual, tie, req>>
BY DEF AssignWildCard, Typed, TypeOK

LEMMA WildCardTypes ==
  ASSUME Typed,
         \/ OpenWildCard \/ CloseWildCard
         \/ \E t \in Teams, s \in 1..W : AssignWildCard(t, s)
         \/ \E s \in 1..W : RemoveWildCard(s)
  PROVE  Typed'
<1>1. UNCHANGED <<status, row, qual, tie, req>>
  BY DEF OpenWildCard, CloseWildCard, AssignWildCard, RemoveWildCard
<1>2. window' \in {"NONE", "OPEN", "LOCKED"} /\ slot' \in [1..W -> Teams \cup {None}]
  BY DEF Typed, TypeOK, OpenWildCard, CloseWildCard, AssignWildCard, RemoveWildCard
<1> QED BY <1>1, <1>2, PlainTypes DEF Typed, TypeOK

\* The steps, one by one.
LEMMA Steps ==
  ASSUME [Next]_vars
  PROVE  \/ GenerateRound1 \/ GenerateRound3
         \/ \E n \in 1..3 : \E g \in Groups(n) : \E pts \in Scores(TeamsOf(n, g)) :
               SubmitScores(n, g, pts)
         \/ \E r \in Requests : \E n \in 1..3 : AdvanceRead(r, n)
         \/ \E r \in Requests : PauseWrite(r)
         \/ \E r \in Requests : AdvanceWrite(r)
         \/ \E r \in Requests : CountPending(r)
         \/ \E r \in Requests : \E i \in DOMAIN tie : \E t \in Teams : ResolveTie(r, i, t)
         \/ \E t \in Teams : FillGrandFinal(t)
         \/ \/ OpenWildCard \/ CloseWildCard
            \/ \E t \in Teams, s \in 1..W : AssignWildCard(t, s)
            \/ \E s \in 1..W : RemoveWildCard(s)
         \/ \E invited \in {{}} \cup {{t} : t \in Teams} : AssembleGrandFinal(invited)
         \/ UNCHANGED vars
BY DEF Next

LEMMA TypeStep ==
  ASSUME Typed, [Next]_vars
  PROVE  Typed'
<1>1. ASSUME NEW r \in Requests, NEW n \in 1..3, AdvanceRead(r, n) PROVE Typed'
  <2>1. UNCHANGED <<status, row, qual, tie, wild>>
    BY <1>1 DEF AdvanceRead
  <2>2. PICK q : RequestOK(q) /\ OrderRanks(q) /\ req' = [req EXCEPT ![r] = q]
    BY <1>1, ReadShape DEF Typed
  <2>3. /\ DOMAIN req' = Requests
        /\ \A s \in Requests : RequestOK(req'[s]) /\ OrderRanks(req'[s])
    BY <2>2, RequestsStep DEF Typed
  <2> QED BY <2>1, <2>3, TiesTyped, RequestTypes DEF Typed
<1>2. ASSUME NEW r \in Requests, CountPending(r) PROVE Typed'
  <2>1. PICK q : RequestOK(q) /\ OrderRanks(q) /\ req' = [req EXCEPT ![r] = q]
    BY <1>2, CountForms, IdleRequest
  <2>2. /\ DOMAIN req' = Requests
        /\ \A s \in Requests : RequestOK(req'[s]) /\ OrderRanks(req'[s])
    BY <2>1, RequestsStep DEF Typed
  <2> QED BY <1>2, <2>2, CountForms, TiesTyped, RequestTypes DEF Typed
<1>3. ASSUME NEW r \in Requests, NEW i \in DOMAIN tie, NEW t \in Teams, ResolveTie(r, i, t)
      PROVE  Typed'
  <2>1. /\ tie[i].round \in 1..3 /\ tie' \in Seq(TieRecord)
        /\ req' = [req EXCEPT ![r] = Counting(tie[i].round)]
        /\ UNCHANGED <<status, row, qual, wild>>
    BY <1>3, ResolveForms
  <2>2. /\ DOMAIN req' = Requests
        /\ \A s \in Requests : RequestOK(req'[s]) /\ OrderRanks(req'[s])
    BY <2>1, CountingTypes, RequestsStep DEF Typed
  <2> QED BY <2>1, <2>2, RequestTypes
<1>4. ASSUME UNCHANGED vars PROVE Typed'
  BY <1>4, PlainTypes DEF vars, Typed, TypeOK
<1> QED BY <1>1, <1>2, <1>3, <1>4, Steps, Generate1Types, Generate3Types, WriteTypes, PauseTypes,
           FillTypes, GrandFinalTypes, ScoreTypes, WildCardTypes

LEMMA TypeInit == Init => Typed
<1> SUFFICES ASSUME Init PROVE Typed
  OBVIOUS
<1>1. /\ DOMAIN req = Requests
      /\ \A s \in Requests : req[s] = NoRequest
  BY DEF Init
<1>2. Groups(1) = {}
  BY DEF Init, Groups
<1>3. IsFiniteSet(qual)
  BY FS_EmptySet DEF Init
<1>4. tie \in Seq(TieRecord)
  BY DEF Init
<1>5. TypeOK
  BY <1>1, <1>3, <1>4, IdleRequest DEF Init, TypeOK, RoundStatus, TieRecord
<1> QED BY <1>1, <1>2, <1>5, IdleRequest DEF Typed, Ranked1

\* The values keep their types and a group its size: what every other invariant starts from.
THEOREM TypesKept == Spec => []Typed
<1>1. Typed /\ [Next]_vars => Typed'
  BY TypeStep
<1> QED BY <1>1, TypeInit, PTL DEF Spec

\* Every row, score, tie-breaker and ranking in flight is one the services could have
\* written: in particular what a request carries to its write is a ranking of whole groups.
THEOREM TypeCorrect == Spec => []TypeOK
BY TypesKept, PTL DEF Typed

-----------------------------------------------------------------------------
(* A paused round waits for somebody *)

OneBusy ==
    \A r, s \in Requests :
        req[r].pc # "idle" /\ req[s].pc # "idle" /\ req[r].round = req[s].round => r = s
Awaited ==
    \A n \in 1..3 : status[n] = "TIE_BREAKER_PENDING" => Busy(n) \/ Unresolved(n)
PauseHasReason ==
    \A r \in Requests : \A n \in 1..3 :
        req[r].pc = "pause" /\ req[r].round = n => req[r].ties # {} \/ Unresolved(n)

\* A request that has found a tie still has one to write or one to wait for.
Waiting == Typed /\ OneBusy /\ Awaited /\ PauseHasReason

LEMMA StatusTyped ==
  ASSUME Typed
  PROVE  /\ DOMAIN status = Rounds /\ DOMAIN req = Requests
         /\ \A r \in Requests : RequestOK(req[r]) /\ (req[r].pc # "idle" => req[r].round \in 1..3)
         /\ \A n \in Rounds : status[n] \in RoundStatus
BY DEF Typed, TypeOK, RequestOK

LEMMA OneRequest ==
  ASSUME Typed, NEW r \in Requests, NEW q, req' = [req EXCEPT ![r] = q]
  PROVE  /\ req'[r] = q /\ \A s \in Requests : s # r => req'[s] = req[s]
         /\ q.pc # "idle" => Busy(q.round)'
         /\ \A n : Busy(n) => Busy(n)' \/ (req[r].pc # "idle" /\ req[r].round = n)
BY DEF Busy, Typed, TypeOK

LEMMA OthersInterrupted ==
  ASSUME Typed, NEW n, NEW s \in Requests
  PROVE  /\ Interrupted(n)[s].pc # "idle" => /\ req[s].pc = Interrupted(n)[s].pc
                                             /\ req[s].round = Interrupted(n)[s].round
                                             /\ Interrupted(n)[s].ties = {} <=> req[s].ties = {}
         /\ req[s].round # n => Interrupted(n)[s] = req[s]
<1>1. req[s].round # n => Interrupted(n)[s] = req[s]
  BY DEF Interrupted
<1> QED BY <1>1, InterruptedForms DEF Typed

LEMMA OrphansUnresolved ==
  ASSUME Typed, NEW n, tie' = Orphaned(n), NEW k
  PROVE  Unresolved(k)' <=> Unresolved(k)
<1>1. /\ DOMAIN tie' = DOMAIN tie
      /\ \A i \in DOMAIN tie : tie'[i].round = tie[i].round /\ tie'[i].selected = tie[i].selected
  BY OrphanedForms DEF Typed
<1> QED BY <1>1 DEF Unresolved

\* A step that generates the groups of a round.
LEMMA WaitingGenerated ==
  ASSUME Waiting, Typed', NEW n \in 1..3, tie' = Orphaned(n),
         \A s \in Requests : req'[s] \in {Interrupted(n)[s], NoRequest},
         status'[n] = "LIVE",
         \A k \in 1..3 \ {n} :
             /\ status'[k] \in {status[k], "COMPLETED"}
             /\ status'[k] = "TIE_BREAKER_PENDING" =>
                  \A s \in Requests : req[s].round = k => req'[s] = Interrupted(n)[s]
  PROVE  Waiting'
<1>1. \A s \in Requests :
        req'[s].pc # "idle" => /\ req'[s] = Interrupted(n)[s]
                               /\ req[s].pc = req'[s].pc /\ req[s].round = req'[s].round
                               /\ req'[s].ties = {} <=> req[s].ties = {}
  BY IdleRequest, OthersInterrupted DEF Waiting
<1>2. OneBusy'
  BY <1>1 DEF Waiting, OneBusy
<1>3. \A k : Unresolved(k)' <=> Unresolved(k)
  BY OrphansUnresolved DEF Waiting
<1>4. ASSUME NEW s \in Requests, NEW k \in 1..3, req'[s].pc = "pause", req'[s].round = k
      PROVE  req'[s].ties # {} \/ Unresolved(k)'
  <2>1. req[s].pc = "pause" /\ req[s].round = k
    BY <1>1, <1>4
  <2> QED BY <1>1, <1>3, <1>4, <2>1 DEF Waiting, PauseHasReason
<1>5. ASSUME NEW k \in 1..3, status'[k] = "TIE_BREAKER_PENDING"
      PROVE  Busy(k)' \/ Unresolved(k)'
  <2>1. k # n /\ status[k] = "TIE_BREAKER_PENDING"
    BY <1>5
  <2>2. \A s \in Requests : req[s].round = k => req'[s] = req[s]
    BY <1>5, <2>1, OthersInterrupted DEF Waiting
  <2>3. Busy(k) => Busy(k)'
    BY <2>2 DEF Busy
  <2>4. Busy(k) \/ Unresolved(k)
    BY <2>1 DEF Waiting, Awaited
  <2> QED BY <1>3, <2>3, <2>4
<1> QED BY <1>2, <1>4, <1>5 DEF Waiting, Awaited, PauseHasReason

LEMMA WaitingKept ==
  ASSUME Waiting, Typed', UNCHANGED <<tie, req>>, \A n \in 1..3 : status'[n] = status[n]
  PROVE  Waiting'
<1>1. \A k : (Unresolved(k)' <=> Unresolved(k)) /\ (Busy(k)' <=> Busy(k))
  BY DEF Unresolved, Busy
<1>2. OneBusy' /\ Awaited'
  BY <1>1 DEF Waiting, OneBusy, Awaited
<1>3. PauseHasReason'
  BY DEF Waiting, PauseHasReason, Unresolved
<1> QED BY <1>2, <1>3 DEF Waiting

\* A step of one request: it was alone about its round, and so it is afterwards.
LEMMA WaitingRequest ==
  ASSUME Waiting, Typed', NEW r \in Requests, NEW q, req' = [req EXCEPT ![r] = q],
         NEW n \in 1..3,
         req[r].pc = "idle" => ~Busy(n),
         req[r].pc # "idle" => req[r].round = n,
         q.pc # "idle" => q.round = n,
         \A k \in 1..3 \ {n} : /\ status'[k] \in {status[k], "COMPLETED"}
                               /\ Unresolved(k) => Unresolved(k)',
         \/ Unresolved(n) => Unresolved(n)'
         \/ req[r].pc = "idle" /\ q.pc # "pause",
         q.pc = "pause" => q.ties # {} \/ Unresolved(n)',
         status'[n] = "TIE_BREAKER_PENDING" => q.pc # "idle" \/ Unresolved(n)'
  PROVE  Waiting'
<1>1. /\ req'[r] = q /\ \A s \in Requests : s # r => req'[s] = req[s]
      /\ q.pc # "idle" => Busy(q.round)'
      /\ \A k : Busy(k) => Busy(k)' \/ (req[r].pc # "idle" /\ req[r].round = k)
  BY OneRequest DEF Waiting
<1>2. \A s \in Requests : s # r /\ req[s].pc # "idle" => req[s].round # n
  BY DEF Waiting, OneBusy, Busy
<1>3. OneBusy'
  BY <1>1, <1>2 DEF Waiting, OneBusy
<1>4. Awaited'
  <2>1. ASSUME NEW k \in 1..3 \ {n}, status'[k] = "TIE_BREAKER_PENDING"
        PROVE  Busy(k)' \/ Unresolved(k)'
    BY <1>1, <2>1 DEF Waiting, Awaited
  <2>2. q.pc # "idle" => Busy(n)'
    BY <1>1
  <2> QED BY <2>1, <2>2 DEF Awaited
<1>5. ASSUME NEW s \in Requests, NEW k \in 1..3, req'[s].pc = "pause", req'[s].round = k
      PROVE  req'[s].ties # {} \/ Unresolved(k)'
  <2>1. CASE s = r
    <3>1. req'[s] = q /\ k = n
      BY <1>1, <1>5, <2>1
    <3> QED BY <1>5, <3>1
  <2>2. CASE s # r
    <3>1. req'[s] = req[s] /\ k \in 1..3 \ {n}
      BY <1>1, <1>2, <1>5, <2>2
    <3> QED BY <1>5, <3>1 DEF Waiting, PauseHasReason
  <2> QED BY <2>1, <2>2
<1> QED BY <1>3, <1>4, <1>5 DEF Waiting, PauseHasReason

LEMMA WaitingWrite ==
  ASSUME Waiting, Typed', NEW r \in Requests, AdvanceWrite(r)
  PROVE  Waiting'
<1>1. PICK n \in 1..3 : n = req[r].round
  BY WriteForms DEF Waiting, Typed, TypeOK, RequestOK
<1>2. \A k \in Rounds : k \in DOMAIN status
  BY StatusTyped DEF Waiting
<1>3. CASE n = 1
  <2>1. /\ status' = [status EXCEPT ![1] = "COMPLETED", ![2] = "LIVE"]
        /\ tie' = Orphaned(2) /\ req' = [Interrupted(2) EXCEPT ![r] = NoRequest]
    BY <1>1, <1>3, WriteForms
  <2>2. \A s \in Requests : req'[s] = IF s = r THEN NoRequest ELSE Interrupted(2)[s]
    BY <2>1 DEF Interrupted
  <2>3. /\ status'[2] = "LIVE" /\ status'[1] = "COMPLETED" /\ status'[3] = status[3]
    BY <1>2, <2>1 DEF Rounds
  <2>4. ASSUME NEW k \in 1..3 \ {2}
        PROVE  /\ status'[k] \in {status[k], "COMPLETED"}
               /\ status'[k] = "TIE_BREAKER_PENDING" =>
                    \A s \in Requests : req[s].round = k => req'[s] = Interrupted(2)[s]
    <3>1. k = 1 \/ k = 3
      OBVIOUS
    <3> QED BY <1>1, <1>3, <2>2, <2>3, <3>1
  <2>5. tie' = Orphaned(2) /\ 2 \in 1..3
    BY <2>1
  <2>6. \A s \in Requests : req'[s] \in {Interrupted(2)[s], NoRequest}
    BY <2>2
  <2> QED BY <2>3, <2>4, <2>5, <2>6, WaitingGenerated
<1>4. CASE n # 1
  <2>1. /\ status' = [status EXCEPT ![n] = "COMPLETED"]
        /\ req' = [req EXCEPT ![r] = NoRequest] /\ UNCHANGED <<row, tie>>
    BY <1>1, <1>4, WriteForms
  <2>2. status'[n] = "COMPLETED" /\ \A k \in 1..3 \ {n} : status'[k] = status[k]
    BY <1>2, <2>1 DEF Rounds
  <2>3. \A k : Unresolved(k)' <=> Unresolved(k)
    BY <2>1 DEF Unresolved
  <2>4. req[r].pc # "idle" /\ req[r].round = n
    BY <1>1, WriteForms
  <2>5. PICK q : q.pc = "idle" /\ req' = [req EXCEPT ![r] = q]
    BY <2>1, IdleRequest
  <2> QED BY <2>2, <2>3, <2>4, <2>5, WaitingRequest
<1> QED BY <1>3, <1>4

LEMMA WaitingRead ==
  ASSUME "advanceRace" \notin Env, Waiting, Typed', NEW r \in Requests, NEW n \in 1..3,
         AdvanceRead(r, n)
  PROVE  Waiting'
<1>1. UNCHANGED <<status, tie>>
  BY DEF AdvanceRead, wild
<1>2. /\ req[r].pc = "idle" => ~Busy(n)
      /\ req[r].pc # "idle" => req[r].pc = "advance" /\ req[r].round = n
  BY DEF AdvanceRead
<1>3. \A k : Unresolved(k)' <=> Unresolved(k)
  BY <1>1 DEF Unresolved
<1>4. ASSUME NEW q, req' = [req EXCEPT ![r] = q], q.pc # "idle" => q.round = n,
             q.pc = "pause" => q.ties # {} \/ Unresolved(n),
             status[n] = "TIE_BREAKER_PENDING" => q.pc # "idle"
      PROVE  Waiting'
  BY <1>1, <1>2, <1>3, <1>4, WaitingRequest
<1>5. CASE ~MayAdvance(n) /\ req' = [req EXCEPT ![r] = NoRequest]
  <2>1. status[n] # "TIE_BREAKER_PENDING"
    BY <1>5 DEF MayAdvance
  <2> QED BY <1>4, <1>5, <2>1, IdleRequest
<1>6. ASSUME NEW ties \in SUBSET (GroupIds \X SUBSET Teams),
             req' = [req EXCEPT ![r] = Pausing(n, ties)],
             \/ ties # {}
             \/ \E i \in DOMAIN tie : tie[i].round = n /\ tie[i].selected = None
      PROVE  Waiting'
  <2>1. PICK q : q = Pausing(n, ties)
    OBVIOUS
  <2>2. q.pc = "pause" /\ q.round = n /\ q.ties = ties
    BY <2>1, RequestFields DEF Pausing
  <2>3. q.ties # {} \/ Unresolved(n)
    BY <1>6, <2>2 DEF Unresolved
  <2> QED BY <1>4, <1>6, <2>1, <2>2, <2>3
<1>7. ASSUME NEW order, req' = [req EXCEPT ![r] = Writing(n, order)]
      PROVE  Waiting'
  <2>1. PICK q : q = Writing(n, order)
    OBVIOUS
  <2>2. q.pc = "write" /\ q.round = n
    BY <2>1, RequestFields DEF Writing
  <2> QED BY <1>4, <1>7, <2>1, <2>2
<1> QED BY <1>5, <1>6, <1>7, ReadOutcome DEF Waiting, Typed

LEMMA WaitingPause ==
  ASSUME Waiting, Typed', NEW r \in Requests, PauseWrite(r)
  PROVE  Waiting'
<1>1. PICK n \in 1..3 : n = req[r].round
  BY PauseForms DEF Waiting
<1>2. /\ req[r].pc = "pause" /\ DOMAIN tie \subseteq DOMAIN tie'
      /\ \A i \in DOMAIN tie : tie'[i] = tie[i]
      /\ \A t \in req[r].ties : \E i \in DOMAIN tie' : tie'[i] = NewTie(n, t)
      /\ status' = [status EXCEPT ![n] = "TIE_BREAKER_PENDING"]
      /\ req' = [req EXCEPT ![r] = NoRequest]
  BY <1>1, PauseForms DEF Waiting
<1>3. \A k : Unresolved(k) => Unresolved(k)'
  BY <1>2 DEF Unresolved
<1>4. Unresolved(n)'
  <2>1. req[r].ties # {} \/ Unresolved(n)
    BY <1>1, <1>2 DEF Waiting, PauseHasReason
  <2>2. ASSUME NEW t \in req[r].ties PROVE Unresolved(n)'
    <3>1. PICK i \in DOMAIN tie' : tie'[i] = NewTie(n, t)
      BY <1>2
    <3> QED BY <3>1 DEF Unresolved, NewTie
  <2> QED BY <1>3, <2>1, <2>2
<1>5. \A k \in 1..3 \ {n} : status'[k] = status[k]
  BY <1>2, StatusTyped DEF Waiting, Rounds
<1>6. PICK q : q.pc = "idle" /\ req' = [req EXCEPT ![r] = q]
  BY <1>2, IdleRequest
<1>7. req[r].pc = "pause" /\ req[r].round = n
  BY <1>1, <1>2
<1> QED BY <1>3, <1>4, <1>5, <1>6, <1>7, WaitingRequest

LEMMA WaitingResolve ==
  ASSUME "advanceRace" \notin Env, Waiting, Typed',
         NEW r \in Requests, NEW i \in DOMAIN tie, NEW t \in Teams, ResolveTie(r, i, t)
  PROVE  Waiting'
<1>1. PICK n \in 1..3 : n = tie[i].round
  BY ResolveForms DEF Waiting
<1>2. /\ req[r].pc = "idle" /\ ~Busy(n) /\ DOMAIN tie' = DOMAIN tie
      /\ \A j \in DOMAIN tie :
            /\ tie'[j].round = tie[j].round
            /\ tie'[j].selected = IF j = i THEN t ELSE tie[j].selected
      /\ req' = [req EXCEPT ![r] = Counting(n)] /\ status' = status
  BY <1>1, ResolveForms DEF Waiting
<1>3. \A k \in 1..3 \ {n} : Unresolved(k) => Unresolved(k)'
  BY <1>1, <1>2 DEF Unresolved
<1>4. PICK q : q = Counting(n)
  OBVIOUS
<1>5. q.pc = "count" /\ q.round = n
  BY <1>4, CountingTypes
<1>6. req' = [req EXCEPT ![r] = q]
  BY <1>2, <1>4
<1> QED BY <1>2, <1>3, <1>5, <1>6, WaitingRequest

LEMMA WaitingCount ==
  ASSUME Waiting, Typed', NEW r \in Requests, CountPending(r)
  PROVE  Waiting'
<1>1. PICK n \in 1..3 : n = req[r].round
  BY CountForms DEF Waiting
<1>2. req[r].pc = "count" /\ UNCHANGED <<status, tie>>
  BY CountForms DEF Waiting, wild
<1>3. \A k : Unresolved(k)' <=> Unresolved(k)
  BY <1>2 DEF Unresolved
<1>4. ASSUME NEW q, req' = [req EXCEPT ![r] = q], q.pc = "advance", q.round = n
      PROVE  Waiting'
  BY <1>1, <1>2, <1>3, <1>4, WaitingRequest
<1>5. CASE Unresolved(n) /\ req' = [req EXCEPT ![r] = NoRequest]
  BY <1>1, <1>2, <1>3, <1>5, IdleRequest, WaitingRequest
<1> QED BY <1>1, <1>4, <1>5, CountForms DEF Waiting

LEMMA WaitingStep ==
  ASSUME "advanceRace" \notin Env, Waiting, [Next]_vars
  PROVE  Waiting'
<1>1. Typed'
  BY TypeStep DEF Waiting
<1>2. CASE GenerateRound1
  <2>1. tie' = Orphaned(1) /\ req' = Interrupted(1) /\ status' = [status EXCEPT ![1] = "LIVE"]
    BY <1>2 DEF GenerateRound1
  <2>2. status'[1] = "LIVE" /\ \A k \in 1..3 \ {1} : status'[k] = status[k]
    BY <2>1, StatusTyped DEF Waiting, Rounds
  <2> QED BY <1>1, <2>1, <2>2, WaitingGenerated
<1>3. CASE GenerateRound3
  <2>1. tie' = Orphaned(3) /\ req' = Interrupted(3) /\ status' = [status EXCEPT ![3] = "LIVE"]
    BY <1>3 DEF GenerateRound3
  <2>2. status'[3] = "LIVE" /\ \A k \in 1..3 \ {3} : status'[k] = status[k]
    BY <2>1, StatusTyped DEF Waiting, Rounds
  <2> QED BY <1>1, <2>1, <2>2, WaitingGenerated
<1>4. ASSUME NEW n \in 1..3, NEW g \in Groups(n), NEW pts \in Scores(TeamsOf(n, g)),
             SubmitScores(n, g, pts)
      PROVE  Waiting'
  BY <1>1, <1>4, WaitingKept DEF SubmitScores
<1>5. ASSUME NEW t \in Teams, FillGrandFinal(t) PROVE Waiting'
  BY <1>1, <1>5, WaitingKept DEF FillGrandFinal
<1>6. CASE \/ OpenWildCard \/ CloseWildCard
           \/ \E t \in Teams, s \in 1..W : AssignWildCard(t, s)
           \/ \E s \in 1..W : RemoveWildCard(s)
  <2>1. UNCHANGED <<status, tie, req>>
    BY <1>6 DEF OpenWildCard, CloseWildCard, AssignWildCard, RemoveWildCard
  <2> QED BY <1>1, <2>1, WaitingKept
<1>7. ASSUME NEW invited \in {{}} \cup {{t} : t \in Teams}, AssembleGrandFinal(invited)
      PROVE  Waiting'
  <2>1. status' = [status EXCEPT ![4] = "LIVE"] /\ UNCHANGED <<tie, req>>
    BY <1>7 DEF AssembleGrandFinal
  <2>2. \A k \in 1..3 : status'[k] = status[k]
    BY <2>1, StatusTyped DEF Waiting, Rounds
  <2> QED BY <1>1, <2>1, <2>2, WaitingKept
<1>8. ASSUME UNCHANGED vars PROVE Waiting'
  BY <1>1, <1>8, WaitingKept DEF vars
<1> QED BY <1>1, <1>2, <1>3, <1>4, <1>5, <1>6, <1>7, <1>8, Steps, WaitingRead, WaitingPause,
           WaitingWrite, WaitingCount, WaitingResolve

LEMMA WaitingInit == Init => Waiting
<1> SUFFICES ASSUME Init PROVE Waiting
  OBVIOUS
<1>1. \A r \in Requests : req[r].pc = "idle"
  BY IdleRequest DEF Init
<1>2. \A n \in 1..3 : status[n] = "NONE"
  BY DEF Init, Rounds
<1> QED BY <1>1, <1>2, TypeInit DEF Waiting, OneBusy, Awaited, PauseHasReason

\* A request at work is alone with its round, and a paused round has a reason to be paused.
THEOREM WaitingInvariant ==
  ASSUME "advanceRace" \notin Env
  PROVE  Spec => []Waiting
<1>1. Waiting /\ [Next]_vars => Waiting'
  BY WaitingStep
<1> QED BY <1>1, WaitingInit, PTL DEF Spec

\* A round that is paused, and that no request is working on, has a tie-breaker an admin can
\* still resolve: resolving the last one advances it, however often groups are generated
\* again, scores corrected and ties decided twice in between.
THEOREM PausesEnd ==
  ASSUME "advanceRace" \notin Env
  PROVE  Spec => []PauseEnds
<1>1. Waiting => PauseEnds
  BY DEF Waiting, Awaited, PauseEnds, Unresolved
<1> QED BY <1>1, WaitingInvariant, PTL

-----------------------------------------------------------------------------
(* What is completed stays completed *)

AtWork ==
    \A r \in Requests : \A n \in 1..3 :
        req[r].pc \in {"pause", "write"} /\ req[r].round = n => status[n] \notin {"NONE", "COMPLETED"}
InOrder ==
    /\ status[2] # "NONE" => status[1] = "COMPLETED"
    /\ status[3] # "NONE" => status[2] = "COMPLETED"

\* What a request is about to write is about a round that is still being played, and a round
\* is played when the one before it is completed.
Progress == Waiting /\ AtWork /\ InOrder

Forward == \A n \in 1..3 : status[n] = "COMPLETED" => status'[n] = "COMPLETED"

LEMMA AloneAtWork ==
  ASSUME Progress, NEW r \in Requests, NEW n \in 1..3, req[r].pc \in {"pause", "write"},
         req[r].round = n
  PROVE  /\ status[n] \notin {"NONE", "COMPLETED"}
         /\ \A s \in Requests \ {r} : req[s].pc # "idle" => req[s].round # n
BY DEF Progress, AtWork, Waiting, OneBusy

LEMMA ProgressGenerated ==
  ASSUME Progress, Waiting', NEW n \in {1, 3}, status[n] # "COMPLETED",
         n = 3 => status[2] = "COMPLETED",
         status' = [status EXCEPT ![n] = "LIVE"], req' = Interrupted(n)
  PROVE  Progress' /\ Forward
<1>1. status'[n] = "LIVE" /\ \A k \in 1..3 \ {n} : status'[k] = status[k]
  BY StatusTyped DEF Progress, Waiting, Rounds
<1>2. ASSUME NEW s \in Requests, NEW k \in 1..3, req'[s].pc \in {"pause", "write"},
             req'[s].round = k
      PROVE  status'[k] \notin {"NONE", "COMPLETED"}
  <2>1. req[s].pc = req'[s].pc /\ req[s].round = k
    BY <1>2, OthersInterrupted DEF Progress, Waiting
  <2> QED BY <1>1, <1>2, <2>1 DEF Progress, AtWork
<1>3. InOrder'
  <2>1. CASE n = 1
    BY <1>1, <2>1 DEF Progress, InOrder
  <2>2. CASE n = 3
    BY <1>1, <2>2 DEF Progress, InOrder
  <2> QED BY <2>1, <2>2
<1>4. Forward
  BY <1>1 DEF Forward
<1> QED BY <1>2, <1>3, <1>4 DEF Progress, AtWork

LEMMA ProgressWrite ==
  ASSUME Progress, Waiting', NEW r \in Requests, AdvanceWrite(r)
  PROVE  Progress' /\ Forward
<1>1. PICK n \in 1..3 : n = req[r].round
  BY WriteForms DEF Progress, Waiting, Typed, TypeOK, RequestOK
<1>2. /\ status[n] \notin {"NONE", "COMPLETED"}
      /\ \A s \in Requests \ {r} : req[s].pc # "idle" => req[s].round # n
  BY <1>1, AloneAtWork, WriteForms
<1>3. DOMAIN status = Rounds
  BY StatusTyped DEF Progress, Waiting
<1>4. CASE n = 1
  <2>1. /\ status' = [status EXCEPT ![1] = "COMPLETED", ![2] = "LIVE"]
        /\ req' = [Interrupted(2) EXCEPT ![r] = NoRequest]
    BY <1>1, <1>4, WriteForms
  <2>2. \A s \in Requests : req'[s] = IF s = r THEN NoRequest ELSE Interrupted(2)[s]
    BY <2>1 DEF Interrupted
  <2>3. status'[1] = "COMPLETED" /\ status'[2] = "LIVE" /\ status'[3] = status[3]
    BY <1>3, <2>1 DEF Rounds
  <2>4. status[2] = "NONE" /\ status[3] = "NONE"
    BY <1>2, <1>4 DEF Progress, InOrder
  <2>5. ASSUME NEW s \in Requests, NEW k \in 1..3, req'[s].pc \in {"pause", "write"},
               req'[s].round = k
        PROVE  status'[k] \notin {"NONE", "COMPLETED"}
    <3>1. s # r
      BY <2>2, <2>5, IdleRequest
    <3>2. req[s].pc = req'[s].pc /\ req[s].round = k
      BY <2>2, <2>5, <3>1, OthersInterrupted DEF Progress, Waiting
    <3>3. k # 1 /\ status[k] \notin {"NONE", "COMPLETED"}
      BY <1>2, <1>4, <2>5, <3>1, <3>2 DEF Progress, AtWork
    <3> QED BY <2>3, <3>3
  <2>6. InOrder' /\ Forward
    BY <2>3, <2>4 DEF InOrder, Forward
  <2> QED BY <2>5, <2>6 DEF Progress, AtWork
<1>5. CASE n # 1
  <2>1. /\ status' = [status EXCEPT ![n] = "COMPLETED"]
        /\ req' = [req EXCEPT ![r] = NoRequest]
    BY <1>1, <1>5, WriteForms
  <2>2. status'[n] = "COMPLETED" /\ \A k \in 1..3 \ {n} : status'[k] = status[k]
    BY <1>3, <2>1 DEF Rounds
  <2>3. \A s \in Requests : req'[s] = IF s = r THEN NoRequest ELSE req[s]
    BY <2>1, StatusTyped DEF Progress, Waiting
  <2>4. ASSUME NEW s \in Requests, NEW k \in 1..3, req'[s].pc \in {"pause", "write"},
               req'[s].round = k
        PROVE  status'[k] \notin {"NONE", "COMPLETED"}
    <3>1. s # r /\ req'[s] = req[s]
      BY <2>3, <2>4, IdleRequest
    <3>2. k # n
      BY <1>2, <2>4, <3>1
    <3> QED BY <2>2, <2>4, <3>1, <3>2 DEF Progress, AtWork
  <2>5. InOrder'
    <3>1. CASE n = 2
      BY <1>2, <2>2, <3>1 DEF Progress, InOrder
    <3>2. CASE n = 3
      BY <1>2, <2>2, <3>2 DEF Progress, InOrder
    <3> QED BY <1>5, <3>1, <3>2
  <2>6. Forward
    BY <2>2 DEF Forward
  <2> QED BY <2>4, <2>5, <2>6 DEF Progress, AtWork
<1> QED BY <1>4, <1>5

\* Steps that leave the status of the three rounds alone.
LEMMA ProgressKept ==
  ASSUME Progress, Waiting', \A n \in 1..3 : status'[n] = status[n],
         \A r \in Requests : \/ req'[r] = req[r] \/ req'[r].pc \notin {"pause", "write"}
                             \/ \E n \in 1..3 : req'[r].round = n /\ MayAdvance(n)
  PROVE  Progress' /\ Forward
BY DEF Progress, AtWork, InOrder, Forward, MayAdvance

LEMMA ProgressRead ==
  ASSUME Progress, Waiting', NEW r \in Requests, NEW n \in 1..3, AdvanceRead(r, n)
  PROVE  Progress' /\ Forward
<1>1. status' = status
  BY DEF AdvanceRead
<1>2. \A q : req' = [req EXCEPT ![r] = q] =>
               \A s \in Requests : req'[s] = IF s = r THEN q ELSE req[s]
  BY StatusTyped DEF Progress, Waiting
<1>3. ASSUME NEW q, req' = [req EXCEPT ![r] = q], q.pc = "idle" \/ (q.round = n /\ MayAdvance(n))
      PROVE  Progress' /\ Forward
  <2>1. \A s \in Requests : \/ req'[s] = req[s] \/ req'[s].pc \notin {"pause", "write"}
                            \/ req'[s].round = n /\ MayAdvance(n)
    BY <1>2, <1>3
  <2> QED BY <1>1, <2>1, ProgressKept
<1>4. CASE req' = [req EXCEPT ![r] = NoRequest]
  BY <1>3, <1>4, IdleRequest
<1>5. ASSUME NEW ties, req' = [req EXCEPT ![r] = Pausing(n, ties)], MayAdvance(n)
      PROVE  Progress' /\ Forward
  <2>1. PICK q : q = Pausing(n, ties) /\ q.round = n
    BY RequestFields DEF Pausing
  <2> QED BY <1>3, <1>5, <2>1
<1>6. ASSUME NEW order, req' = [req EXCEPT ![r] = Writing(n, order)], MayAdvance(n)
      PROVE  Progress' /\ Forward
  <2>1. PICK q : q = Writing(n, order) /\ q.round = n
    BY RequestFields DEF Writing
  <2> QED BY <1>3, <1>6, <2>1
<1> QED BY <1>4, <1>5, <1>6, ReadOutcome DEF Progress, Waiting, Typed

LEMMA ProgressPause ==
  ASSUME Progress, Waiting', NEW r \in Requests, PauseWrite(r)
  PROVE  Progress' /\ Forward
<1>1. PICK n \in 1..3 : n = req[r].round
  BY PauseForms DEF Progress, Waiting
<1>2. /\ req[r].pc = "pause" /\ status' = [status EXCEPT ![n] = "TIE_BREAKER_PENDING"]
      /\ req' = [req EXCEPT ![r] = NoRequest]
  BY <1>1, PauseForms DEF Progress, Waiting
<1>3. status[n] \notin {"NONE", "COMPLETED"}
  BY <1>1, <1>2, AloneAtWork
<1>4. status'[n] = "TIE_BREAKER_PENDING" /\ \A k \in 1..3 \ {n} : status'[k] = status[k]
  BY <1>2, StatusTyped DEF Progress, Waiting, Rounds
<1>5. \A s \in Requests : req'[s] = IF s = r THEN NoRequest ELSE req[s]
  BY <1>2, StatusTyped DEF Progress, Waiting
<1>6. AtWork'
  BY <1>4, <1>5, IdleRequest DEF Progress, AtWork
<1>7. Forward
  BY <1>3, <1>4 DEF Forward
<1>8. InOrder'
  <2>1. CASE n = 1
    BY <1>3, <1>4, <2>1 DEF Progress, InOrder
  <2>2. CASE n = 2
    BY <1>3, <1>4, <2>2 DEF Progress, InOrder
  <2>3. CASE n = 3
    BY <1>3, <1>4, <2>3 DEF Progress, InOrder
  <2> QED BY <2>1, <2>2, <2>3
<1> QED BY <1>6, <1>7, <1>8 DEF Progress

LEMMA ProgressStep ==
  ASSUME {"advanceRace", "regenerate"} \cap Env = {}, Progress, [Next]_vars
  PROVE  Progress' /\ Forward
<1>1. Waiting'
  BY WaitingStep DEF Progress
<1>2. CASE GenerateRound1
  BY <1>1, <1>2, ProgressGenerated DEF GenerateRound1, NotGenerated
<1>3. CASE GenerateRound3
  BY <1>1, <1>3, ProgressGenerated DEF GenerateRound3
<1>4. ASSUME UNCHANGED req, \A n \in 1..3 : status'[n] = status[n]
      PROVE  Progress' /\ Forward
  BY <1>1, <1>4, ProgressKept
<1>5. ASSUME NEW invited \in {{}} \cup {{t} : t \in Teams}, AssembleGrandFinal(invited)
      PROVE  Progress' /\ Forward
  <2>1. status' = [status EXCEPT ![4] = "LIVE"] /\ UNCHANGED req
    BY <1>5 DEF AssembleGrandFinal
  <2>2. \A k \in 1..3 : status'[k] = status[k]
    BY <2>1, StatusTyped DEF Progress, Waiting, Rounds
  <2> QED BY <1>4, <2>1, <2>2
<1>6. ASSUME NEW r \in Requests, CountPending(r) PROVE Progress' /\ Forward
  <2>1. status' = status
    BY <1>6 DEF CountPending
  <2>2. PICK q : q.pc \in {"idle", "advance"} /\ req' = [req EXCEPT ![r] = q]
    BY <1>6, CountForms, IdleRequest DEF Progress, Waiting
  <2>3. \A s \in Requests : req'[s] = req[s] \/ req'[s].pc \notin {"pause", "write"}
    BY <2>2, StatusTyped DEF Progress, Waiting
  <2> QED BY <1>1, <2>1, <2>3, ProgressKept
<1>7. ASSUME NEW r \in Requests, NEW i \in DOMAIN tie, NEW t \in Teams, ResolveTie(r, i, t)
      PROVE  Progress' /\ Forward
  <2>1. status' = status
    BY <1>7 DEF ResolveTie
  <2>2. req' = [req EXCEPT ![r] = Counting(tie[i].round)] /\ tie[i].round \in 1..3
    BY <1>7, ResolveForms DEF Progress, Waiting
  <2>3. PICK q : q.pc = "count" /\ req' = [req EXCEPT ![r] = q]
    BY <2>2, CountingTypes
  <2>4. \A s \in Requests : req'[s] = req[s] \/ req'[s].pc \notin {"pause", "write"}
    BY <2>3, StatusTyped DEF Progress, Waiting
  <2> QED BY <1>1, <2>1, <2>4, ProgressKept
<1>8. CASE \/ \E n \in 1..3 : \E g \in Groups(n) : \E pts \in Scores(TeamsOf(n, g)) :
                 SubmitScores(n, g, pts)
           \/ \E t \in Teams : FillGrandFinal(t)
           \/ \/ OpenWildCard \/ CloseWildCard
              \/ \E t \in Teams, s \in 1..W : AssignWildCard(t, s)
              \/ \E s \in 1..W : RemoveWildCard(s)
           \/ UNCHANGED vars
  <2>1. UNCHANGED <<status, req>>
    BY <1>8 DEF SubmitScores, FillGrandFinal, OpenWildCard, CloseWildCard, AssignWildCard,
                RemoveWildCard, vars
  <2> QED BY <1>4, <2>1
<1> QED BY <1>1, <1>2, <1>3, <1>5, <1>6, <1>7, <1>8, Steps, ProgressRead, ProgressPause,
           ProgressWrite

LEMMA ProgressInit == Init => Progress
<1> SUFFICES ASSUME Init PROVE Progress
  OBVIOUS
<1>1. \A r \in Requests : req[r].pc = "idle"
  BY IdleRequest DEF Init
<1>2. \A n \in 1..3 : status[n] = "NONE"
  BY DEF Init, Rounds
<1> QED BY <1>1, <1>2, WaitingInit DEF Progress, AtWork, InOrder

\* What a request decided about a round still stands when it writes, and rounds begin in
\* order: no write finds its round decided, and no generation a later one begun.
THEOREM ProgressInvariant ==
  ASSUME {"advanceRace", "regenerate"} \cap Env = {}
  PROVE  Spec => []Progress
<1>1. Progress /\ [Next]_vars => Progress'
  BY ProgressStep
<1> QED BY <1>1, ProgressInit, PTL DEF Spec

\* Neither a late pause nor a generation reopens a round whose qualifiers are written, when a
\* round is advanced by one request at a time and Round 3 is not generated after its end.
THEOREM CompletedForGood ==
  ASSUME {"advanceRace", "regenerate"} \cap Env = {}
  PROVE  Spec => StaysCompleted
<1>1. Progress /\ [Next]_vars => Forward
  BY ProgressStep
<1>2. [][Forward]_vars => StaysCompleted
  BY PTL DEF StaysCompleted, Forward
<1> QED BY <1>1, <1>2, ProgressInvariant, PTL DEF Spec

-----------------------------------------------------------------------------
(* A team plays once in a round and is decided about once *)

Decided ==
    \A q \in qual : /\ q.manual => q.round = 0 /\ q.to = "GRAND_FINAL"
                    /\ ~q.manual => q.round \in 1..3 /\ status[q.round] = "COMPLETED"
Came(t) == \E q \in qual : q.round = 1 /\ q.team = t /\ q.to = "ROUND_2" /\ ~q.manual
Entrants ==
    /\ \A x \in row : x.round = 2 => Came(x.team)
    /\ \A q \in qual : q.round = 2 => Came(q.team)
Apart(order) ==
    \A g, h \in DOMAIN order : \A i \in DOMAIN order[g] : \A j \in DOMAIN order[h] :
        order[g][i] = order[h][j] => g = h /\ i = j
AllCame(order) == \A g \in DOMAIN order : \A i \in DOMAIN order[g] : Came(order[g][i])
Orders ==
    \A r \in Requests : req[r].pc = "write" => /\ Apart(req[r].order)
                                               /\ req[r].round = 2 => AllCame(req[r].order)
WildCards ==
    /\ \A s \in 1..W : slot[s] # None => IsOut(slot[s])
    /\ \A s, u \in 1..W : slot[s] # None /\ slot[s] = slot[u] => s = u

\* A team of Round 2 came through Round 1, and a wild card is out: so no team enters a round
\* twice, nor does a request decide about one twice.
Seeded == Progress /\ Decided /\ QualifiedOnce /\ OneGroup /\ Entrants /\ Orders /\ WildCards

LEMMA CameGrows ==
  ASSUME qual \subseteq qual', NEW t
  PROVE  /\ Came(t) => Came(t)'
         /\ IsOut(t) => IsOut(t)'
BY DEF Came, IsOut

LEMMA QualsStay ==
  ASSUME Seeded, Forward, qual' = qual
  PROVE  Decided' /\ QualifiedOnce' /\ \A q \in qual' : q.round = 2 => Came(q.team)'
<1>1. Decided'
  BY DEF Seeded, Decided, Forward
<1>2. QualifiedOnce'
  BY DEF Seeded, QualifiedOnce
<1>3. \A t : Came(t) => Came(t)'
  BY CameGrows
<1> QED BY <1>1, <1>2, <1>3 DEF Seeded, Entrants

LEMMA OrdersStay ==
  ASSUME Seeded, qual \subseteq qual',
         \A s \in Requests : req'[s] = req[s] \/ req'[s].pc # "write"
  PROVE  Orders'
<1>1. \A t : Came(t) => Came(t)'
  BY CameGrows
<1>2. ASSUME NEW s \in Requests, req'[s].pc = "write"
      PROVE  /\ Apart(req'[s].order)
             /\ req'[s].round = 2 => \A g \in DOMAIN req'[s].order :
                    \A i \in DOMAIN req'[s].order[g] : Came(req'[s].order[g][i])
  BY <1>2 DEF Seeded, Orders, AllCame
<1>3. ASSUME NEW s \in Requests, req'[s].pc = "write"
      PROVE  /\ Apart(req[s].order)'
             /\ req'[s].round = 2 => AllCame(req[s].order)'
  <2>1. PICK order : order = req'[s].order
    OBVIOUS
  <2>2. Apart(order) /\ (req'[s].round = 2 => \A g \in DOMAIN order :
                              \A i \in DOMAIN order[g] : Came(order[g][i]))
    BY <1>2, <1>3, <2>1
  <2>3. req'[s].round = 2 => \A g \in DOMAIN order : \A i \in DOMAIN order[g] : Came(order[g][i])'
    BY <1>1, <2>2
  <2> QED BY <2>1, <2>2, <2>3 DEF Apart, AllCame
<1> QED BY <1>3 DEF Orders

LEMMA WildCardsStay ==
  ASSUME Seeded, qual \subseteq qual', slot' = slot
  PROVE  WildCards'
<1>1. \A t : IsOut(t) => IsOut(t)'
  BY CameGrows
<1>2. \A s \in 1..W : slot[s] # None => IsOut(slot[s])'
  BY <1>1 DEF Seeded, WildCards
<1> QED BY <1>2 DEF Seeded, WildCards, IsOut

LEMMA RowsStay ==
  ASSUME Seeded, qual \subseteq qual', row' = row
  PROVE  OneGroup' /\ \A x \in row' : x.round = 2 => Came(x.team)'
BY CameGrows DEF Seeded, OneGroup, Entrants

LEMMA RowsReplaced ==
  ASSUME Seeded, NEW n \in Rounds, NEW members \in SUBSET (GroupIds \X Teams),
         row' = Replaced(n, members), qual \subseteq qual',
         \A a, b \in members : a[2] = b[2] => a = b,
         n = 2 => \A m \in members : Came(m[2])'
  PROVE  OneGroup' /\ \A x \in row' : x.round = 2 => Came(x.team)'
<1>1. /\ row \subseteq RowRecord
      /\ row' \subseteq RowRecord
      /\ \A x \in row' : \/ x \in row /\ x.round # n
                         \/ x.round = n /\ x.pts = 0 /\ <<x.group, x.team>> \in members
  BY ReplacedRows DEF Seeded, Progress, Waiting, Typed, TypeOK, RowRecord
<1>2. ASSUME NEW x \in row', NEW y \in row', x.round = y.round, x.team = y.team
      PROVE  x = y
  <2>1. CASE x.round # n
    BY <1>1, <1>2, <2>1 DEF Seeded, OneGroup
  <2>2. CASE x.round = n
    <3>1. <<x.group, x.team>> \in members /\ <<y.group, y.team>> \in members
          /\ x.pts = 0 /\ y.pts = 0
      BY <1>1, <1>2, <2>2
    <3>2. x.group = y.group
      <4>1. <<x.group, x.team>>[2] = <<y.group, y.team>>[2]
        BY <1>2
      <4>2. <<x.group, x.team>> = <<y.group, y.team>>
        BY <3>1, <4>1
      <4> QED BY <4>2
    <3>3. x \in RowRecord /\ y \in RowRecord
      BY <1>1
    <3> QED BY <1>2, <3>1, <3>2, <3>3 DEF RowRecord
  <2> QED BY <2>1, <2>2
<1>3. ASSUME NEW x \in row', x.round = 2
      PROVE  Came(x.team)'
  <2>1. CASE n = 2
    <3>1. <<x.group, x.team>> \in members
      BY <1>1, <1>3, <2>1
    <3>2. PICK m \in members : m = <<x.group, x.team>>
      BY <3>1
    <3>3. Came(m[2])' /\ m[2] = x.team
      BY <2>1, <3>2
    <3>4. PICK t : t = x.team
      OBVIOUS
    <3> QED BY <3>3, <3>4 DEF Came
  <2>2. CASE n # 2
    <3>1. x \in row
      BY <1>1, <1>3, <2>2
    <3> QED BY <1>3, <3>1, CameGrows DEF Seeded, Entrants
  <2> QED BY <2>1, <2>2
<1>4. OneGroup'
  BY <1>2 DEF OneGroup
<1> QED BY <1>3, <1>4

LEMMA Round3Apart ==
  ASSUME "regenerate" \notin Env, Seeded, GenerateRound3
  PROVE  \A a, b \in Round3Members : a[2] = b[2] => a = b
<1>1. /\ \A m \in Round3Members : \E g \in 1..G3 :
            \/ \E j \in 1..Cardinality(Round3Quals) :
                  (j - 1) % G3 = g - 1 /\ m = <<g, SetToSeq(Round3Quals)[j].team>>
            \/ \E j \in 1..W : j \in Share(g, WildSize, W) /\ m = <<g, slot[j]>>
      /\ SetToSeq(Round3Quals) \in Ranking(Cardinality(Round3Quals), Round3Quals)
      /\ Cardinality(Round3Quals) \in Nat
      /\ \A s \in 1..W : slot[s] \in Teams
      /\ status[3] # "COMPLETED"
  BY Round3Forms DEF Seeded, Progress, Waiting, Typed
<1>2. PICK c, from : c \in Nat /\ c = Cardinality(Round3Quals) /\ from = SetToSeq(Round3Quals)
  BY <1>1
<1>3. from \in Ranking(c, Round3Quals)
  BY <1>1, <1>2
<1>4. \A i \in 1..c : from[i] \in Round3Quals
  BY <1>2, <1>3, RankingTypes
<1>5. \A i, j \in 1..c : from[i] = from[j] => i = j
  BY <1>2, <1>3, RankingTypes DEF IsInjective
<1>6. \A q \in Round3Quals : q \in qual /\ q.round = 2 /\ q.to = "ROUND_3" /\ ~q.manual
  BY DEF Round3Quals, Seeded, Decided
<1>7. \A p, q \in Round3Quals : p.team = q.team => p = q
  BY <1>6 DEF Seeded, QualifiedOnce
<1>8. ASSUME NEW q \in Round3Quals PROVE ~IsOut(q.team)
  <2>1. SUFFICES ASSUME NEW p \in qual, p.team = q.team, p.to = "ELIMINATED" PROVE FALSE
    BY DEF IsOut
  <2>2. ~p.manual /\ p.round \in 1..3 /\ status[p.round] = "COMPLETED"
    BY <2>1 DEF Seeded, Decided
  <2>3. CASE p.round = 1
    <3>1. PICK c1 \in qual : c1.round = 1 /\ c1.team = q.team /\ c1.to = "ROUND_2" /\ ~c1.manual
      BY <1>6 DEF Seeded, Entrants, Came
    <3> QED BY <2>1, <2>2, <2>3, <3>1 DEF Seeded, QualifiedOnce
  <2>4. CASE p.round = 2
    BY <1>6, <2>1, <2>2, <2>4 DEF Seeded, QualifiedOnce
  <2>5. CASE p.round = 3
    BY <1>1, <2>2, <2>5
  <2> QED BY <2>2, <2>3, <2>4, <2>5
<1>9. \A s \in 1..W : slot[s] # None /\ IsOut(slot[s])
  BY <1>1, TeamsAssumption DEF Seeded, WildCards
<1>10. ASSUME NEW g \in 1..G3, NEW h \in 1..G3, NEW j \in 1..c, NEW k \in 1..c,
              (j - 1) % G3 = g - 1, (k - 1) % G3 = h - 1, from[j].team = from[k].team
       PROVE  g = h
  <2>1. j = k
    BY <1>4, <1>5, <1>7, <1>10
  <2>2. g \in Int /\ h \in Int /\ g - 1 = h - 1
    BY <1>10, <2>1
  <2> QED BY <2>2
<1>11. ASSUME NEW g \in 1..G3, NEW h \in 1..G3, NEW j \in 1..W, NEW k \in 1..W,
              j \in Share(g, WildSize, W), k \in Share(h, WildSize, W), slot[j] = slot[k]
       PROVE  g = h
  <2>1. j = k
    BY <1>9, <1>11 DEF Seeded, WildCards
  <2>2. g \in Int /\ h \in Int /\ g - 1 = h - 1
    BY <1>11, <2>1 DEF Share
  <2> QED BY <2>2
<1>12. ASSUME NEW j \in 1..c, NEW k \in 1..W PROVE from[j].team # slot[k]
  <2>1. IsOut(slot[k]) /\ from[j] \in Round3Quals
    BY <1>4, <1>9
  <2> QED BY <1>8, <2>1
<1>13. ASSUME NEW a \in Round3Members
       PROVE  \E g \in 1..G3 :
            \/ \E j \in 1..c : (j - 1) % G3 = g - 1 /\ a = <<g, from[j].team>>
            \/ \E j \in 1..W : j \in Share(g, WildSize, W) /\ a = <<g, slot[j]>>
  BY <1>1, <1>2
<1>14. ASSUME NEW a \in Round3Members, NEW b \in Round3Members, a[2] = b[2]
       PROVE  a = b
  <2>1. PICK g \in 1..G3 :
            \/ \E j \in 1..c : (j - 1) % G3 = g - 1 /\ a = <<g, from[j].team>>
            \/ \E j \in 1..W : j \in Share(g, WildSize, W) /\ a = <<g, slot[j]>>
    BY <1>13
  <2>2. PICK h \in 1..G3 :
            \/ \E j \in 1..c : (j - 1) % G3 = h - 1 /\ b = <<h, from[j].team>>
            \/ \E j \in 1..W : j \in Share(h, WildSize, W) /\ b = <<h, slot[j]>>
    BY <1>13
  <2>3. ASSUME NEW j \in 1..c, (j - 1) % G3 = g - 1, a = <<g, from[j].team>> PROVE a = b
    <3>1. b[2] = from[j].team
      BY <1>14, <2>3
    <3>2. PICK k \in 1..c : (k - 1) % G3 = h - 1 /\ b = <<h, from[k].team>>
      BY <1>12, <2>2, <3>1
    <3>3. from[j].team = from[k].team
      BY <3>1, <3>2
    <3>4. g = h
      BY <1>10, <2>3, <3>2, <3>3
    <3> QED BY <2>3, <3>2, <3>3, <3>4
  <2>4. ASSUME NEW j \in 1..W, j \in Share(g, WildSize, W), a = <<g, slot[j]>> PROVE a = b
    <3>1. b[2] = slot[j]
      BY <1>14, <2>4
    <3>2. PICK k \in 1..W : k \in Share(h, WildSize, W) /\ b = <<h, slot[k]>>
      BY <1>12, <2>2, <3>1
    <3>3. slot[j] = slot[k]
      BY <3>1, <3>2
    <3>4. g = h
      BY <1>11, <2>4, <3>2, <3>3
    <3> QED BY <2>4, <3>2, <3>3, <3>4
  <2> QED BY <2>1, <2>3, <2>4
<1> QED BY <1>14

LEMMA SeededGenerate1 ==
  ASSUME Seeded, Progress', Forward, GenerateRound1
  PROVE  Seeded'
<1>1. PICK shuffled \in [Teams -> 1..G1] : row' = Replaced(1, {<<shuffled[t], t>> : t \in Teams})
  BY DEF GenerateRound1
<1> DEFINE members == {<<shuffled[t], t>> : t \in Teams}
<1>2. members \in SUBSET (GroupIds \X Teams)
  BY GroupIdsFinite
<1>3. \A a, b \in members : a[2] = b[2] => a = b
  OBVIOUS
<1>4. row' = Replaced(1, members) /\ 1 \in Rounds
  BY <1>1 DEF Rounds
<1> HIDE DEF members
<1>5. qual' = qual /\ slot' = slot /\ req' = Interrupted(1)
  BY DEF GenerateRound1, wild
<1>6. OneGroup' /\ \A x \in row' : x.round = 2 => Came(x.team)'
  BY <1>2, <1>3, <1>4, <1>5, RowsReplaced
<1>7. \A s \in Requests : req'[s] = req[s] \/ req'[s].pc # "write"
  BY <1>5, InterruptedForms DEF Seeded, Progress, Waiting, Typed
<1> QED BY <1>5, <1>6, <1>7, QualsStay, OrdersStay, WildCardsStay DEF Seeded, Entrants

LEMMA SeededGenerate3 ==
  ASSUME "regenerate" \notin Env, Seeded, Progress', Forward, GenerateRound3
  PROVE  Seeded'
<1>1. /\ Round3Members \in SUBSET (GroupIds \X Teams) /\ row' = Replaced(3, Round3Members)
      /\ qual' = qual /\ slot' = slot /\ req' = Interrupted(3) /\ 3 \in Rounds
  BY Round3Forms DEF Seeded, Progress, Waiting, Typed, Rounds
<1>2. \A a, b \in Round3Members : a[2] = b[2] => a = b
  BY Round3Apart
<1>3. OneGroup' /\ \A x \in row' : x.round = 2 => Came(x.team)'
  BY <1>1, <1>2, RowsReplaced
<1>4. \A s \in Requests : req'[s] = req[s] \/ req'[s].pc # "write"
  BY <1>1, InterruptedForms DEF Seeded, Progress, Waiting, Typed
<1> QED BY <1>1, <1>3, <1>4, QualsStay, OrdersStay, WildCardsStay DEF Seeded, Entrants

LEMMA SeededScores ==
  ASSUME Seeded, Progress', Forward, NEW n \in 1..3, NEW g \in Groups(n),
         NEW pts \in Scores(TeamsOf(n, g)), SubmitScores(n, g, pts)
  PROVE  Seeded'
<1>1. PICK f \in [row -> row'] :
            /\ row' = {f[x] : x \in row}
            /\ \A x \in row : /\ f[x].round = x.round /\ f[x].group = x.group
                              /\ f[x].team = x.team
  BY ScoreRows DEF Seeded, Progress, Waiting, Typed
<1>2. UNCHANGED <<qual, slot, req>>
  BY DEF SubmitScores, wild
<1>3. OneGroup'
  <2>1. ASSUME NEW x \in row', NEW y \in row', x.round = y.round, x.team = y.team
        PROVE  x = y
    <3>1. PICK a \in row : x = f[a]
      BY <1>1
    <3>2. PICK b \in row : y = f[b]
      BY <1>1
    <3>3. a.round = b.round /\ a.team = b.team
      BY <1>1, <2>1, <3>1, <3>2
    <3>4. a = b
      BY <3>3 DEF Seeded, OneGroup
    <3> QED BY <3>1, <3>2, <3>4
  <2> QED BY <2>1 DEF OneGroup
<1>4. ASSUME NEW x \in row', x.round = 2 PROVE Came(x.team)'
  <2>1. PICK a \in row : x = f[a]
    BY <1>1
  <2>2. a.round = 2 /\ a.team = x.team
    BY <1>1, <1>4, <2>1
  <2> QED BY <1>2, <2>2, CameGrows DEF Seeded, Entrants
<1> QED BY <1>2, <1>3, <1>4, QualsStay, OrdersStay, WildCardsStay DEF Seeded, Entrants

LEMMA SeededRead ==
  ASSUME Seeded, Progress', Forward, NEW r \in Requests, NEW n \in 1..3, AdvanceRead(r, n)
  PROVE  Seeded'
<1>1. UNCHANGED <<row, qual, slot>>
  BY DEF AdvanceRead, wild
<1>2. \A q : req' = [req EXCEPT ![r] = q] =>
               \A s \in Requests : req'[s] = IF s = r THEN q ELSE req[s]
  BY StatusTyped DEF Seeded, Progress, Waiting
<1>3. ASSUME Orders' PROVE Seeded'
  <2>1. OneGroup' /\ \A x \in row' : x.round = 2 => Came(x.team)'
    BY <1>1, RowsStay
  <2> QED BY <1>1, <1>3, <2>1, QualsStay, WildCardsStay DEF Seeded, Entrants
<1>4. ASSUME NEW q, req' = [req EXCEPT ![r] = q], q.pc # "write" PROVE Seeded'
  <2>1. \A s \in Requests : req'[s] = req[s] \/ req'[s].pc # "write"
    BY <1>2, <1>4
  <2> QED BY <1>1, <1>3, <2>1, OrdersStay
<1>5. CASE req' = [req EXCEPT ![r] = NoRequest]
  BY <1>4, <1>5, IdleRequest
<1>6. ASSUME NEW ties, req' = [req EXCEPT ![r] = Pausing(n, ties)] PROVE Seeded'
  <2>1. PICK q : q = Pausing(n, ties) /\ q.pc = "pause"
    BY RequestFields DEF Pausing
  <2> QED BY <1>4, <1>6, <2>1
<1>7. ASSUME NEW order, req' = [req EXCEPT ![r] = Writing(n, order)], DOMAIN order = Groups(n),
             \A g \in Groups(n) :
                order[g] \in Ranking(Cardinality(TeamsOf(n, g)), TeamsOf(n, g))
      PROVE  Seeded'
  <2>1. ASSUME NEW g \in Groups(n)
        PROVE  /\ \A i \in DOMAIN order[g] : order[g][i] \in TeamsOf(n, g)
               /\ IsInjective(order[g])
    <3>1. PICK m \in Nat : order[g] \in Ranking(m, TeamsOf(n, g))
      BY <1>7, GroupTypes DEF Seeded, Progress, Waiting, Typed
    <3>2. PICK S, o : S = TeamsOf(n, g) /\ o = order[g]
      OBVIOUS
    <3>3. DOMAIN o = 1..m /\ IsInjective(o) /\ \A i \in 1..m : o[i] \in S
      BY <3>1, <3>2, RankingTypes
    <3> QED BY <3>2, <3>3
  <2>2. \A g, t : t \in TeamsOf(n, g) =>
           \E x \in row : x.round = n /\ x.group = g /\ x.team = t
    BY DEF TeamsOf, GroupRows
  <2>3. Apart(order)
    <3>1. ASSUME NEW g \in DOMAIN order, NEW h \in DOMAIN order, NEW i \in DOMAIN order[g],
                 NEW j \in DOMAIN order[h], order[g][i] = order[h][j]
          PROVE  g = h /\ i = j
      <4>1. PICK x \in row : x.round = n /\ x.group = g /\ x.team = order[g][i]
        BY <1>7, <2>1, <2>2
      <4>2. PICK y \in row : y.round = n /\ y.group = h /\ y.team = order[h][j]
        BY <1>7, <2>1, <2>2
      <4>3. g = h
        BY <3>1, <4>1, <4>2 DEF Seeded, OneGroup
      <4> QED BY <1>7, <2>1, <3>1, <4>3 DEF IsInjective
    <3> QED BY <3>1 DEF Apart
  <2>4. n = 2 => AllCame(order)
    <3>1. ASSUME n = 2, NEW g \in DOMAIN order, NEW i \in DOMAIN order[g]
          PROVE  Came(order[g][i])
      <4>1. PICK x \in row : x.round = n /\ x.group = g /\ x.team = order[g][i]
        BY <1>7, <2>1, <2>2
      <4> QED BY <3>1, <4>1 DEF Seeded, Entrants
    <3> QED BY <3>1 DEF AllCame
  <2>5. PICK q : q = Writing(n, order) /\ q.pc = "write" /\ q.round = n /\ q.order = order
    BY RequestFields DEF Writing
  <2>6. \A s \in Requests : req'[s] = IF s = r THEN q ELSE req[s]
    BY <1>2, <1>7, <2>5
  <2>7. ASSUME NEW s \in Requests, req'[s].pc = "write"
        PROVE  Apart(req[s].order)' /\ (req'[s].round = 2 => AllCame(req[s].order)')
    <3>1. Apart(req'[s].order) /\ (req'[s].round = 2 => AllCame(req'[s].order))
      BY <2>3, <2>4, <2>5, <2>6, <2>7 DEF Seeded, Orders
    <3> QED BY <1>1, <3>1 DEF Apart, AllCame, Came
  <2> QED BY <1>3, <2>7 DEF Orders
<1> QED BY <1>5, <1>6, <1>7, ReadOutcome DEF Seeded, Progress, Waiting, Typed

LEMMA SnakeApart ==
  ASSUME NEW q, q.pc = "write", q.round = 1, RequestOK(q), OrderRanks(q), Apart(q.order),
         NEW a \in Snake(q.order), NEW b \in Snake(q.order), a[2] = b[2]
  PROVE  a = b
<1>1. PICK order : order = q.order
  OBVIOUS
<1>2. /\ Snake(order) = {Dealt(order, g, i) : g \in DOMAIN order, i \in 1..K1}
      /\ \A g \in DOMAIN order : 1..K1 \subseteq DOMAIN order[g]
  <2>1. ASSUME NEW g \in DOMAIN order PROVE 1..K1 \subseteq DOMAIN order[g]
    <3>1. order[g] \in Ranking(L1, Teams) /\ L1 \in Nat /\ K1 \in 1..L1
      BY <1>1, CutoffsAssumption DEF OrderRanks
    <3>2. DOMAIN order[g] = 1..L1
      BY <3>1, RankingTypes
    <3> QED BY <3>1, <3>2
  <2> QED BY <1>1, <2>1, SnakeTypes
<1>3. PICK g \in DOMAIN order : \E i \in 1..K1 : a = Dealt(order, g, i)
  BY <1>1, <1>2
<1>4. PICK i \in 1..K1 : a = Dealt(order, g, i)
  BY <1>3
<1>5. PICK h \in DOMAIN order : \E j \in 1..K1 : b = Dealt(order, h, j)
  BY <1>1, <1>2
<1>6. PICK j \in 1..K1 : b = Dealt(order, h, j)
  BY <1>5
<1>7. a[2] = order[g][i] /\ b[2] = order[h][j]
  BY <1>4, <1>6 DEF Dealt
<1>8. i \in DOMAIN order[g] /\ j \in DOMAIN order[h] /\ order[g][i] = order[h][j] /\ Apart(order)
  BY <1>1, <1>2, <1>7
<1>9. g = h /\ i = j
  BY <1>8 DEF Apart
<1> QED BY <1>4, <1>6, <1>9

LEMMA NewRows ==
  ASSUME Seeded, NEW r \in Requests, AdvanceWrite(r)
  PROVE  LET n == req[r].round
             order == req[r].order
         IN  /\ n \in 1..3 /\ RequestOK(req[r]) /\ OrderRanks(req[r]) /\ Apart(order)
             /\ n = 2 => AllCame(order)
             /\ \A p \in qual' : p \in qual \/
                  \E g \in DOMAIN order : \E i \in DOMAIN order[g] :
                     /\ p = Qualify(n, order[g][i], To(n, i), FALSE)
                     /\ p.round = n /\ p.team = order[g][i] /\ p.to = To(n, i) /\ ~p.manual
             /\ \A g \in DOMAIN order : \A i \in DOMAIN order[g] :
                  Qualify(n, order[g][i], To(n, i), FALSE) \in qual'
<1> DEFINE n == req[r].round
<1> DEFINE order == req[r].order
<1>1. /\ RequestOK(req[r]) /\ OrderRanks(req[r]) /\ req[r].pc = "write" /\ n \in 1..3
      /\ qual' = qual \cup Qualified(n, order)
  BY WriteForms DEF Seeded, Progress, Waiting, Typed, TypeOK, Ranked1, RequestOK
<1>2. Apart(order) /\ (n = 2 => AllCame(order))
  BY <1>1 DEF Seeded, Orders
<1>3. \A g \in DOMAIN order : \A i \in DOMAIN order[g] :
         Qualify(n, order[g][i], To(n, i), FALSE) \in Qualified(n, order)
  <2> HIDE DEF n, order
  <2>1. ASSUME NEW g \in DOMAIN order, NEW i \in DOMAIN order[g]
        PROVE  Qualify(n, order[g][i], To(n, i), FALSE) \in Qualified(n, order)
    <3>1. PICK S : S = {Qualify(n, order[g][k], To(n, k), FALSE) : k \in DOMAIN order[g]}
      OBVIOUS
    <3>2. Qualify(n, order[g][i], To(n, i), FALSE) \in S
      BY <3>1
    <3>3. S \in {{Qualify(n, order[h][k], To(n, k), FALSE) : k \in DOMAIN order[h]}
                  : h \in DOMAIN order}
      BY <3>1
    <3>4. S \subseteq Qualified(n, order)
      BY <3>3 DEF Qualified
    <3> QED BY <3>2, <3>4
  <2> QED BY <2>1
<1>4. \A p \in Qualified(n, order) :
         \E g \in DOMAIN order : \E i \in DOMAIN order[g] :
            /\ p = Qualify(n, order[g][i], To(n, i), FALSE)
            /\ p.round = n /\ p.team = order[g][i] /\ p.to = To(n, i) /\ ~p.manual
  <2>1. \A p \in Qualified(req[r].round, req[r].order) :
           \E g \in DOMAIN req[r].order : \E i \in DOMAIN req[r].order[g] :
              /\ p = Qualify(req[r].round, req[r].order[g][i], To(req[r].round, i), FALSE)
              /\ p.round = req[r].round /\ p.team = req[r].order[g][i] /\ p.team \in Teams
              /\ p.to = To(req[r].round, i) /\ p.to \in Destination /\ ~p.manual
    BY <1>1, QualifiedTypes
  <2> QED BY <2>1
<1> HIDE DEF n, order
<1>5. \A p \in qual' : p \in qual \/ p \in Qualified(n, order)
  BY <1>1
<1>6. \A g \in DOMAIN order : \A i \in DOMAIN order[g] :
         Qualify(n, order[g][i], To(n, i), FALSE) \in qual'
  BY <1>1, <1>3
<1>7. \A p \in qual' : p \in qual \/
         \E g \in DOMAIN order : \E i \in DOMAIN order[g] :
            /\ p = Qualify(n, order[g][i], To(n, i), FALSE)
            /\ p.round = n /\ p.team = order[g][i] /\ p.to = To(n, i) /\ ~p.manual
  BY <1>4, <1>5
<1> QED BY <1>1, <1>2, <1>6, <1>7 DEF n, order

LEMMA SeededWriteQuals ==
  ASSUME Seeded, Progress', Forward, NEW r \in Requests, AdvanceWrite(r)
  PROVE  Decided' /\ QualifiedOnce' /\ \A q \in qual' : q.round = 2 => Came(q.team)'
<1>1. PICK n, order : n \in 1..3 /\ n = req[r].round /\ order = req[r].order
  BY NewRows
<1>2. /\ Apart(order) /\ (n = 2 => AllCame(order))
      /\ \A p \in qual' : p \in qual \/
           \E g \in DOMAIN order : \E i \in DOMAIN order[g] :
              /\ p = Qualify(n, order[g][i], To(n, i), FALSE)
              /\ p.round = n /\ p.team = order[g][i] /\ p.to = To(n, i) /\ ~p.manual
  BY <1>1, NewRows
<1>3. status[n] # "COMPLETED" /\ status'[n] = "COMPLETED"
  <2>1. status[n] # "COMPLETED"
    BY <1>1, AloneAtWork, WriteForms DEF Seeded
  <2>2. DOMAIN status = Rounds
    BY StatusTyped DEF Seeded, Progress, Waiting
  <2>3. status'[n] = "COMPLETED"
    <3>1. CASE n = 1
      <4>1. status' = [status EXCEPT ![1] = "COMPLETED", ![2] = "LIVE"]
        BY <1>1, <3>1, WriteForms
      <4> QED BY <2>2, <3>1, <4>1 DEF Rounds
    <3>2. CASE n # 1
      <4>1. status' = [status EXCEPT ![n] = "COMPLETED"]
        BY <1>1, <3>2, WriteForms
      <4> QED BY <1>1, <2>2, <4>1 DEF Rounds
    <3> QED BY <3>1, <3>2
  <2> QED BY <2>1, <2>3
<1>4. Decided'
  <2>1. ASSUME NEW p \in qual'
        PROVE  /\ p.manual => p.round = 0 /\ p.to = "GRAND_FINAL"
               /\ ~p.manual => p.round \in 1..3 /\ status'[p.round] = "COMPLETED"
    <3>1. CASE p \in qual
      BY <3>1 DEF Seeded, Decided, Forward
    <3>2. CASE p.round = n /\ ~p.manual
      BY <1>1, <1>3, <3>2
    <3> QED BY <1>2, <3>1, <3>2
  <2> QED BY <2>1 DEF Decided
<1>5. \A p \in qual : ~p.manual => p.round # n
  BY <1>3 DEF Seeded, Decided
<1>6. QualifiedOnce'
  <2>1. ASSUME NEW p \in qual', NEW q \in qual', p.round = q.round, p.team = q.team,
               ~p.manual, ~q.manual
        PROVE  p = q
    <3>1. CASE p \in qual /\ q \in qual
      BY <2>1, <3>1 DEF Seeded, QualifiedOnce
    <3>2. CASE ~(p \in qual /\ q \in qual)
      <4>1. p.round = n /\ q.round = n
        BY <1>2, <2>1, <3>2
      <4>2. p \notin qual /\ q \notin qual
        BY <1>5, <2>1, <4>1
      <4>3. PICK g \in DOMAIN order : \E i \in DOMAIN order[g] :
              p = Qualify(n, order[g][i], To(n, i), FALSE) /\ p.team = order[g][i]
        BY <1>2, <4>2
      <4>4. PICK i \in DOMAIN order[g] :
              p = Qualify(n, order[g][i], To(n, i), FALSE) /\ p.team = order[g][i]
        BY <4>3
      <4>5. PICK h \in DOMAIN order : \E j \in DOMAIN order[h] :
              q = Qualify(n, order[h][j], To(n, j), FALSE) /\ q.team = order[h][j]
        BY <1>2, <4>2
      <4>6. PICK j \in DOMAIN order[h] :
              q = Qualify(n, order[h][j], To(n, j), FALSE) /\ q.team = order[h][j]
        BY <4>5
      <4>7. order[g][i] = order[h][j] /\ Apart(order)
        BY <1>2, <2>1, <4>4, <4>6
      <4>8. g = h /\ i = j
        BY <4>7 DEF Apart
      <4> QED BY <4>4, <4>6, <4>8
    <3> QED BY <3>1, <3>2
  <2> QED BY <2>1 DEF QualifiedOnce
<1>7. qual \subseteq qual'
  BY WriteForms
<1>8. ASSUME NEW q \in qual', q.round = 2 PROVE Came(q.team)'
  <2>1. CASE q \in qual
    BY <1>7, <1>8, <2>1, CameGrows DEF Seeded, Entrants
  <2>2. CASE q \notin qual
    <3>1. PICK g \in DOMAIN order : \E i \in DOMAIN order[g] : q.round = n /\ q.team = order[g][i]
      BY <1>2, <2>2
    <3>2. Came(q.team)
      BY <1>2, <1>8, <3>1 DEF AllCame
    <3> QED BY <1>7, <3>2, CameGrows
  <2> QED BY <2>1, <2>2
<1> QED BY <1>4, <1>6, <1>8

LEMMA SeededWrite ==
  ASSUME Seeded, Progress', Forward, NEW r \in Requests, AdvanceWrite(r)
  PROVE  Seeded'
<1>1. PICK n, order : n \in 1..3 /\ n = req[r].round /\ order = req[r].order
  BY NewRows
<1>2. /\ RequestOK(req[r]) /\ OrderRanks(req[r]) /\ req[r].pc = "write" /\ Apart(order)
      /\ \A g \in DOMAIN order : \A i \in DOMAIN order[g] :
            Qualify(n, order[g][i], To(n, i), FALSE) \in qual'
      /\ qual \subseteq qual' /\ slot' = slot
  BY <1>1, NewRows, WriteForms DEF wild
<1>3. CASE n = 1
  <2>1. row' = Replaced(2, Snake(order)) /\ req' = [Interrupted(2) EXCEPT ![r] = NoRequest]
    BY <1>1, <1>3, WriteForms
  <2>2. /\ Snake(order) = {Dealt(order, g, i) : g \in DOMAIN order, i \in 1..K1}
        /\ Snake(order) \in SUBSET (GroupIds \X Teams)
    <3>1. PICK q : q = req[r]
      OBVIOUS
    <3>2. q.pc = "write" /\ q.round = 1 /\ RequestOK(q) /\ OrderRanks(q) /\ q.order = order
      BY <1>1, <1>2, <1>3, <3>1
    <3>3. Snake(q.order) \subseteq GroupIds \X Teams /\ q.order = order
      BY <3>2, SnakeTypes
    <3>4. Snake(order) = {Dealt(order, g, i) : g \in DOMAIN order, i \in 1..K1}
      BY DEF Snake, Dealt
    <3> QED BY <3>3, <3>4
  <2>3. \A a, b \in Snake(order) : a[2] = b[2] => a = b
    <3>1. PICK q : q = req[r]
      OBVIOUS
    <3>2. /\ q.pc = "write" /\ q.round = 1 /\ RequestOK(q) /\ OrderRanks(q) /\ q.order = order
          /\ Apart(q.order)
      BY <1>1, <1>2, <1>3, <3>1
    <3> QED BY <3>2, SnakeApart
  <2>4. ASSUME NEW m \in Snake(order) PROVE Came(m[2])'
    <3>1. PICK g \in DOMAIN order : \E i \in 1..K1 : m = Dealt(order, g, i)
      BY <2>2
    <3>2. PICK i \in 1..K1 : m = Dealt(order, g, i)
      BY <3>1
    <3>3. order[g] \in Ranking(L1, Teams) /\ L1 \in Nat /\ K1 \in 1..L1
      BY <1>1, <1>2, <1>3, CutoffsAssumption DEF OrderRanks
    <3>4. i \in DOMAIN order[g] /\ To(1, i) = "ROUND_2"
      BY <3>3, RankingTypes DEF To
    <3>5. Qualify(1, order[g][i], To(1, i), FALSE) \in qual'
      BY <1>2, <1>3, <3>4
    <3>6. PICK p \in qual' : p.round = 1 /\ p.team = order[g][i] /\ p.to = "ROUND_2" /\ ~p.manual
      BY <3>4, <3>5 DEF Qualify
    <3>7. m[2] = order[g][i]
      BY <3>2 DEF Dealt
    <3>8. PICK t : t = m[2]
      OBVIOUS
    <3> QED BY <3>6, <3>7, <3>8 DEF Came
  <2>5. OneGroup' /\ \A x \in row' : x.round = 2 => Came(x.team)'
    <3>1. 2 \in Rounds
      BY DEF Rounds
    <3> QED BY <1>2, <2>1, <2>2, <2>3, <2>4, <3>1, RowsReplaced
  <2>6. \A s \in Requests : req'[s] = IF s = r THEN NoRequest ELSE Interrupted(2)[s]
    BY <2>1 DEF Interrupted
  <2>7. \A s \in Requests : req'[s] = req[s] \/ req'[s].pc # "write"
    BY <2>6, IdleRequest, InterruptedForms DEF Seeded, Progress, Waiting, Typed
  <2> QED BY <1>2, <2>5, <2>7, SeededWriteQuals, OrdersStay, WildCardsStay DEF Seeded, Entrants
<1>4. CASE n # 1
  <2>1. row' = row /\ req' = [req EXCEPT ![r] = NoRequest]
    BY <1>1, <1>4, WriteForms
  <2>2. \A s \in Requests : req'[s] = req[s] \/ req'[s].pc # "write"
    BY <2>1, IdleRequest, StatusTyped DEF Seeded, Progress, Waiting
  <2>3. OneGroup' /\ \A x \in row' : x.round = 2 => Came(x.team)'
    BY <1>2, <2>1, RowsStay
  <2> QED BY <1>2, <2>2, <2>3, SeededWriteQuals, OrdersStay, WildCardsStay DEF Seeded, Entrants
<1> QED BY <1>3, <1>4

\* Steps that neither qualify nor place a team, and leave the rankings alone.
LEMMA SeededKept ==
  ASSUME Seeded, Progress', Forward, UNCHANGED <<row, qual, slot>>,
         \A s \in Requests : req'[s] = req[s] \/ req'[s].pc # "write"
  PROVE  Seeded'
<1>1. OneGroup' /\ \A x \in row' : x.round = 2 => Came(x.team)'
  BY RowsStay
<1> QED BY <1>1, QualsStay, OrdersStay, WildCardsStay DEF Seeded, Entrants

LEMMA SeededRequests ==
  ASSUME Seeded, Progress', Forward, NEW r \in Requests,
         \/ PauseWrite(r) \/ CountPending(r)
         \/ \E i \in DOMAIN tie : \E t \in Teams : ResolveTie(r, i, t)
  PROVE  Seeded'
<1>1. Typed
  BY DEF Seeded, Progress, Waiting
<1>2. UNCHANGED <<row, qual, slot>>
  BY DEF PauseWrite, CountPending, ResolveTie, wild
<1>3. ASSUME NEW q, req' = [req EXCEPT ![r] = q], q.pc # "write" PROVE Seeded'
  <2>1. \A s \in Requests : req'[s] = req[s] \/ req'[s].pc # "write"
    BY <1>1, <1>3, StatusTyped
  <2> QED BY <1>2, <2>1, SeededKept
<1>4. CASE PauseWrite(r)
  BY <1>1, <1>3, <1>4, PauseForms, IdleRequest
<1>5. CASE CountPending(r)
  <2>1. PICK q : q.pc # "write" /\ req' = [req EXCEPT ![r] = q]
    BY <1>1, <1>5, CountForms, IdleRequest
  <2> QED BY <1>3, <2>1
<1>6. ASSUME NEW i \in DOMAIN tie, NEW t \in Teams, ResolveTie(r, i, t) PROVE Seeded'
  <2>1. req' = [req EXCEPT ![r] = Counting(tie[i].round)] /\ tie[i].round \in 1..3
    BY <1>1, <1>6, ResolveForms
  <2>2. PICK q : q.pc # "write" /\ req' = [req EXCEPT ![r] = q]
    BY <2>1, CountingTypes
  <2> QED BY <1>3, <2>2
<1> QED BY <1>4, <1>5, <1>6

LEMMA SeededFill ==
  ASSUME Seeded, Progress', Forward, NEW t \in Teams, FillGrandFinal(t)
  PROVE  Seeded'
<1>1. PICK x : /\ qual' = qual \cup {x} /\ x.round = 0
               /\ x.to = "GRAND_FINAL" /\ x.manual /\ x.manual \in BOOLEAN
  BY FillForms DEF Seeded, Progress, Waiting
<1>2. UNCHANGED <<status, row, tie, wild, req>>
  BY DEF FillGrandFinal
<1>3. qual \subseteq qual'
  BY <1>1
<1>4. Decided'
  BY <1>1, <1>2 DEF Seeded, Decided
<1>5. QualifiedOnce'
  BY <1>1 DEF Seeded, QualifiedOnce
<1>6. \A q \in qual' : q.round = 2 => Came(q.team)'
  BY <1>1, <1>3, CameGrows DEF Seeded, Entrants
<1>7. OneGroup' /\ \A y \in row' : y.round = 2 => Came(y.team)'
  BY <1>2, <1>3, RowsStay
<1>8. Orders'
  BY <1>2, <1>3, OrdersStay
<1>9. WildCards'
  BY <1>2, <1>3, WildCardsStay DEF wild
<1> QED BY <1>4, <1>5, <1>6, <1>7, <1>8, <1>9 DEF Seeded, Entrants

LEMMA SeededFinal ==
  ASSUME Seeded, Progress', Forward, NEW invited \in {{}} \cup {{t} : t \in Teams},
         AssembleGrandFinal(invited)
  PROVE  Seeded'
<1>1. PICK finalists \in SUBSET Teams :
           /\ row' = Replaced(4, {<<1, t>> : t \in finalists})
           /\ {<<1, t>> : t \in finalists} \in SUBSET (GroupIds \X Teams)
           /\ UNCHANGED <<qual, tie, wild, req>>
  BY GrandFinalForms DEF Seeded, Progress, Waiting
<1>2. \A a, b \in {<<1, t>> : t \in finalists} : a[2] = b[2] => a = b
  OBVIOUS
<1>3. 4 \in Rounds /\ qual \subseteq qual'
  BY <1>1 DEF Rounds
<1>4. OneGroup' /\ \A x \in row' : x.round = 2 => Came(x.team)'
  BY <1>1, <1>2, <1>3, RowsReplaced
<1> QED BY <1>1, <1>4, QualsStay, OrdersStay, WildCardsStay DEF Seeded, Entrants, wild

LEMMA SeededWild ==
  ASSUME "wildPlaying" \notin Env, Seeded, Progress', Forward,
         \/ OpenWildCard \/ CloseWildCard
         \/ \E t \in Teams, s \in 1..W : AssignWildCard(t, s)
         \/ \E s \in 1..W : RemoveWildCard(s)
  PROVE  Seeded'
<1>1. UNCHANGED <<status, row, qual, tie, req>>
  BY DEF OpenWildCard, CloseWildCard, AssignWildCard, RemoveWildCard
<1>2. DOMAIN slot = 1..W
  BY DEF Seeded, Progress, Waiting, Typed, TypeOK
<1>3. WildCards'
  <2>1. CASE OpenWildCard \/ CloseWildCard
    BY <1>1, <2>1, WildCardsStay DEF OpenWildCard, CloseWildCard
  <2>2. ASSUME NEW t \in Teams, NEW s \in 1..W, AssignWildCard(t, s) PROVE WildCards'
    <3>1. IsOut(t) /\ SlotFree(t, s) /\ slot' = [slot EXCEPT ![s] = t]
      BY <2>2 DEF AssignWildCard
    <3>2. \A u \in 1..W : slot'[u] = IF u = s THEN t ELSE slot[u]
      BY <1>2, <3>1
    <3>3. \A u : IsOut(u) => IsOut(u)'
      BY <1>1, CameGrows
    <3>4. ASSUME NEW u \in 1..W, slot'[u] # None PROVE IsOut(slot[u])'
      <4>1. IsOut(slot'[u])
        BY <3>1, <3>2, <3>4 DEF Seeded, WildCards
      <4> QED BY <1>1, <4>1 DEF IsOut
    <3>5. \A u, v \in 1..W : slot'[u] # None /\ slot'[u] = slot'[v] => u = v
      BY <3>1, <3>2 DEF SlotFree, Seeded, WildCards
    <3> QED BY <3>4, <3>5 DEF WildCards
  <2>3. ASSUME NEW s \in 1..W, RemoveWildCard(s) PROVE WildCards'
    <3>1. \A u \in 1..W : slot'[u] = IF u = s THEN None ELSE slot[u]
      BY <1>2, <2>3 DEF RemoveWildCard
    <3>2. ASSUME NEW u \in 1..W, slot'[u] # None PROVE IsOut(slot[u])'
      <4>1. IsOut(slot'[u])
        BY <3>1, <3>2 DEF Seeded, WildCards
      <4> QED BY <1>1, <4>1 DEF IsOut
    <3>3. \A u, v \in 1..W : slot'[u] # None /\ slot'[u] = slot'[v] => u = v
      BY <3>1 DEF Seeded, WildCards
    <3> QED BY <3>2, <3>3 DEF WildCards
  <2> QED BY <2>1, <2>2, <2>3
<1>4. OneGroup' /\ \A y \in row' : y.round = 2 => Came(y.team)'
  BY <1>1, RowsStay
<1> QED BY <1>1, <1>3, <1>4, QualsStay, OrdersStay DEF Seeded, Entrants

Alone == {"advanceRace", "regenerate", "wildPlaying"} \cap Env = {}

LEMMA SeededStep ==
  ASSUME Alone, Seeded, [Next]_vars
  PROVE  Seeded'
<1>1. Progress' /\ Forward
  BY ProgressStep DEF Alone, Seeded
<1>2. "regenerate" \notin Env /\ "wildPlaying" \notin Env
  BY DEF Alone
<1>3. ASSUME UNCHANGED vars PROVE Seeded'
  BY <1>1, <1>3, SeededKept DEF vars
<1> QED BY <1>1, <1>2, <1>3, Steps, SeededGenerate1, SeededGenerate3, SeededScores, SeededRead,
           SeededWrite, SeededRequests, SeededFill, SeededFinal, SeededWild

LEMMA SeededInit == Init => Seeded
<1> SUFFICES ASSUME Init PROVE Seeded
  OBVIOUS
<1>1. \A r \in Requests : req[r].pc = "idle"
  BY IdleRequest DEF Init
<1>2. qual = {} /\ row = {} /\ \A s \in 1..W : slot[s] = None
  BY DEF Init
<1> QED BY <1>1, <1>2, ProgressInit
        DEF Seeded, Decided, QualifiedOnce, OneGroup, Entrants, Orders, WildCards

\* Who plays, who is out and who holds a wild card follow from the qualification rows, and
\* the rankings in flight are about teams that are not decided yet.
THEOREM SeededInvariant ==
  ASSUME Alone
  PROVE  Spec => []Seeded
<1>1. Seeded /\ [Next]_vars => Seeded'
  BY SeededStep
<1> QED BY <1>1, SeededInit, PTL DEF Spec

\* No second roundQualification row of one round is written for a team, although no index
\* keeps it out: by then the round is completed, or the team stands in one group only.
THEOREM DecidedOnce ==
  ASSUME Alone
  PROVE  Spec => []QualifiedOnce
BY SeededInvariant, PTL DEF Seeded

\* A team plays in one group of a round: whoever is dealt into Round 3 from Round 2 is not
\* out, and whoever holds a wild card is.
THEOREM PlaysInOneGroup ==
  ASSUME Alone
  PROVE  Spec => []OneGroup
BY SeededInvariant, PTL DEF Seeded

-----------------------------------------------------------------------------
(* Who advances: what two rankings of the same scores agree on *)

LEMMA PtsTyped ==
  ASSUME TypeOK, NEW n, NEW g, NEW t \in TeamsOf(n, g)
  PROVE  Pts(n, g, t) \in Int
<1>1. PICK x \in GroupRows(n, g) : x.team = t
  BY DEF TeamsOf
<1>2. PICK y : y = CHOOSE z \in GroupRows(n, g) : z.team = t
  OBVIOUS
<1>3. y \in row /\ Pts(n, g, t) = y.pts
  BY <1>1, <1>2 DEF Pts, GroupRows
<1> QED BY <1>3, BoundsAssumption DEF TypeOK

\* The places of a ranking of group g, from the best.
Line(n, g, o, m) ==
    /\ m \in Nat /\ m = Cardinality(TeamsOf(n, g)) /\ DOMAIN o = 1..m
    /\ o \in Ranking(m, TeamsOf(n, g))
    /\ \A i \in 1..m : o[i] \in TeamsOf(n, g) /\ Pts(n, g, o[i]) \in Int
    /\ \A i, j \in 1..m : o[i] = o[j] => i = j
    /\ \A i, j \in 1..m : i <= j => Pts(n, g, o[i]) >= Pts(n, g, o[j])
    /\ \A t \in TeamsOf(n, g) : \E i \in 1..m : o[i] = t

LEMMA RankedForms ==
  ASSUME TypeOK, NEW n, NEW g, NEW o \in Ranked(n, g)
  PROVE  Line(n, g, o, Cardinality(TeamsOf(n, g)))
<1>1. PICK m, S : m = Cardinality(TeamsOf(n, g)) /\ S = TeamsOf(n, g)
  OBVIOUS
<1>2. m \in Nat /\ S \subseteq Teams /\ IsFiniteSet(S) /\ m = Cardinality(S)
  BY <1>1, GroupTypes, TeamsAssumption, FS_Subset
<1>3. o \in Ranking(m, S) /\ \A i, j \in DOMAIN o : i < j => Pts(n, g, o[i]) >= Pts(n, g, o[j])
  BY <1>1 DEF Ranked, Ranking
<1>4. DOMAIN o = 1..m /\ IsInjective(o) /\ \A i \in 1..m : o[i] \in S
  BY <1>2, <1>3, RankingTypes
<1>5. \A i \in 1..m : Pts(n, g, o[i]) \in Int
  BY <1>1, <1>4, PtsTyped
<1>6. \A i, j \in 1..m : i <= j => Pts(n, g, o[i]) >= Pts(n, g, o[j])
  <2>1. ASSUME NEW i \in 1..m, NEW j \in 1..m, i <= j PROVE Pts(n, g, o[i]) >= Pts(n, g, o[j])
    <3>1. CASE i = j
      BY <1>5, <3>1
    <3>2. CASE i # j
      <4>1. i < j
        BY <1>2, <2>1, <3>2
      <4> QED BY <1>3, <1>4, <4>1
    <3> QED BY <3>1, <3>2
  <2> QED BY <2>1
<1>7. o \in Injection(1..m, S)
  BY <1>3 DEF Ranking, Injection
<1>8. IsFiniteSet(1..m) /\ Cardinality(1..m) = m
  BY <1>2, FS_Interval
<1>9. o \in Surjection(1..m, S)
  BY <1>2, <1>7, <1>8, FS_Injection
<1>10. \A t \in S : \E i \in 1..m : o[i] = t
  BY <1>9 DEF Surjection
<1>11. \A i, j \in 1..m : o[i] = o[j] => i = j
  BY <1>4 DEF IsInjective
<1>12. Line(n, g, o, m)
  BY <1>1, <1>2, <1>3, <1>4, <1>5, <1>6, <1>10, <1>11 DEF Line
<1> QED BY <1>1, <1>12

\* The k-th best has as many points in one ranking as in another: the k teams of the one
\* would not fit into the k - 1 places of the other.
LEMMA NoBetter ==
  ASSUME TypeOK, NEW n, NEW g, NEW o \in Ranked(n, g), NEW p \in Ranked(n, g),
         NEW k \in DOMAIN o, Pts(n, g, o[k]) > Pts(n, g, p[k])
  PROVE  FALSE
<1>1. PICK m : Line(n, g, o, m) /\ Line(n, g, p, m)
  BY RankedForms
<1>2. /\ \A i \in 1..m : Pts(n, g, o[i]) \in Int /\ Pts(n, g, p[i]) \in Int
      /\ \A i, j \in 1..m : i <= j => /\ Pts(n, g, o[i]) >= Pts(n, g, o[j])
                                      /\ Pts(n, g, p[i]) >= Pts(n, g, p[j])
      /\ \A i \in 1..m : o[i] \in TeamsOf(n, g)
      /\ \A t \in TeamsOf(n, g) : \E i \in 1..m : p[i] = t
      /\ m \in Nat /\ DOMAIN o = 1..m
  BY <1>1 DEF Line
<1>3. k \in 1..m /\ m \in Nat
  BY <1>2
<1>4. ASSUME NEW i \in 1..k PROVE \E j \in 1..(k - 1) : p[j] = o[i]
  <2>1. i \in 1..m /\ i <= k
    BY <1>2, <1>3
  <2>2. PICK j \in 1..m : p[j] = o[i]
    BY <1>2, <2>1
  <2>3. Pts(n, g, o[i]) >= Pts(n, g, o[k])
    BY <1>2, <1>3, <2>1
  <2>4. Pts(n, g, p[j]) > Pts(n, g, p[k])
    <3>1. Pts(n, g, p[j]) = Pts(n, g, o[i])
      BY <2>2
    <3>2. /\ Pts(n, g, o[i]) \in Int /\ Pts(n, g, o[k]) \in Int /\ Pts(n, g, p[k]) \in Int
      BY <1>2, <1>3, <2>1
    <3> QED BY <2>3, <3>1, <3>2
  <2>5. ~(k <= j)
    <3>1. k <= j => Pts(n, g, p[k]) >= Pts(n, g, p[j])
      BY <1>2, <1>3
    <3>2. Pts(n, g, p[k]) \in Int /\ Pts(n, g, p[j]) \in Int
      BY <1>2, <1>3
    <3> QED BY <2>4, <3>1, <3>2
  <2>6. j \in 1..(k - 1)
    BY <1>3, <2>5
  <2> QED BY <2>2, <2>6
<1> DEFINE f == [i \in 1..k |-> CHOOSE j \in 1..(k - 1) : p[j] = o[i]]
<1>5. f \in [1..k -> 1..(k - 1)] /\ \A i \in 1..k : p[f[i]] = o[i]
  BY <1>4
<1> HIDE DEF f
<1>6. /\ IsFiniteSet(1..k) /\ IsFiniteSet(1..(k - 1))
      /\ Cardinality(1..(k - 1)) < Cardinality(1..k)
  <2>1. k \in Int /\ k - 1 \in Int /\ 1 \in Int /\ k >= 1
    BY <1>3
  <2>2. IsFiniteSet(1..k) /\ Cardinality(1..k) = k
    BY <2>1, FS_Interval
  <2>3. IsFiniteSet(1..(k - 1)) /\ Cardinality(1..(k - 1)) = k - 1
    BY <2>1, FS_Interval
  <2> QED BY <2>1, <2>2, <2>3
<1>7. \E x, y \in 1..k : x # y /\ f[x] = f[y]
  <2>1. PICK S, T : S = 1..k /\ T = 1..(k - 1)
    OBVIOUS
  <2>2. IsFiniteSet(S) /\ IsFiniteSet(T) /\ Cardinality(T) < Cardinality(S) /\ f \in [S -> T]
    BY <1>5, <1>6, <2>1
  <2>3. \E x, y \in S : x # y /\ f[x] = f[y]
    BY <2>2, FS_PigeonHole
  <2> QED BY <2>1, <2>3
<1>8. PICK x \in 1..k : \E y \in 1..k : x # y /\ f[x] = f[y]
  BY <1>7
<1>9. PICK y \in 1..k : x # y /\ f[x] = f[y]
  BY <1>8
<1>10. o[x] = o[y] /\ x \in 1..m /\ y \in 1..m
  <2>1. p[f[x]] = o[x] /\ p[f[y]] = o[y] /\ f[x] = f[y]
    BY <1>5, <1>9
  <2>2. x \in 1..m /\ y \in 1..m
    BY <1>3
  <2> QED BY <2>1, <2>2
<1> QED BY <1>1, <1>9, <1>10 DEF Line

LEMMA SamePlace ==
  ASSUME TypeOK, NEW n, NEW g, NEW o \in Ranked(n, g), NEW p \in Ranked(n, g)
  PROVE  /\ DOMAIN o = DOMAIN p
         /\ \A k \in DOMAIN o : Pts(n, g, o[k]) = Pts(n, g, p[k])
<1>1. DOMAIN o = DOMAIN p
  BY RankedForms DEF Line
<1>2. ASSUME NEW k \in DOMAIN o PROVE Pts(n, g, o[k]) = Pts(n, g, p[k])
  <2>1. Pts(n, g, o[k]) \in Int /\ Pts(n, g, p[k]) \in Int
    <3>1. PICK m : Line(n, g, o, m) /\ Line(n, g, p, m)
      BY RankedForms
    <3> QED BY <3>1 DEF Line
  <2>2. ~(Pts(n, g, o[k]) > Pts(n, g, p[k])) /\ ~(Pts(n, g, p[k]) > Pts(n, g, o[k]))
    BY <1>1, NoBetter
  <2> QED BY <2>1, <2>2
<1> QED BY <1>1, <1>2

\* The selected team has as many points as the one whose place it takes, so the ranking stays one.
LEMMA MovedKeepsRanked ==
  ASSUME TypeOK, NEW n, NEW g, NEW o \in Ranked(n, g), NEW k \in DOMAIN o,
         NEW t \in TeamsOf(n, g), Pts(n, g, t) = Pts(n, g, o[k])
  PROVE  /\ Moved(o, k, t) \in Ranked(n, g)
         /\ \A p \in DOMAIN o : p < k => Moved(o, k, t)[p] = o[p]
         /\ \E p \in DOMAIN o : p <= k /\ Moved(o, k, t)[p] = t
         /\ (\E p \in DOMAIN o : p <= k /\ o[p] = t) => Moved(o, k, t) = o
<1>0. PICK m : Line(n, g, o, m)
  BY RankedForms
<1>1. /\ m \in Nat /\ m = Cardinality(TeamsOf(n, g)) /\ DOMAIN o = 1..m
      /\ o \in Ranking(m, TeamsOf(n, g))
      /\ \A i \in 1..m : o[i] \in TeamsOf(n, g) /\ Pts(n, g, o[i]) \in Int
      /\ \A i, j \in 1..m : o[i] = o[j] => i = j
      /\ \A i, j \in 1..m : i <= j => Pts(n, g, o[i]) >= Pts(n, g, o[j])
      /\ \A u \in TeamsOf(n, g) : \E i \in 1..m : o[i] = u
  BY <1>0 DEF Line
<1>2. k \in 1..m /\ k \in Nat \ {0}
  BY <1>1
<1>3. PICK S : S = TeamsOf(n, g)
  OBVIOUS
<1>4. o \in Ranking(m, S)
  BY <1>1, <1>3
<1>5. PICK new : new = Moved(o, k, t)
  OBVIOUS
<1>6. new \in Ranking(m, S)
  BY <1>1, <1>2, <1>4, <1>5, MovedRanking
<1>7. PICK at \in 1..m : o[at] = t
  BY <1>1
<1>8. CASE at <= k
  <2>1. new = o
    <3>1. \A i \in DOMAIN o : ~(i > k /\ o[i] = t)
      BY <1>1, <1>2, <1>7, <1>8
    <3>2. new = [j \in DOMAIN o |-> o[j]]
      BY <1>5, <3>1 DEF Moved
    <3> QED BY <1>4, <3>2 DEF Ranking
  <2> QED BY <1>1, <1>5, <1>7, <1>8, <2>1
<1>9. CASE at > k
  <2>1. \A i \in DOMAIN o : i > k /\ o[i] = t <=> i = at
    BY <1>1, <1>7, <1>9
  <2>2. \A j \in DOMAIN o : new[j] = IF j = k THEN t
                                     ELSE IF j > k /\ j <= at THEN o[j - 1] ELSE o[j]
    <3>1. {i \in DOMAIN o : i > k /\ o[i] = t} = {at}
      BY <1>1, <2>1
    <3>2. new = [j \in DOMAIN o |-> IF j = k /\ {at} # {} THEN t
                           ELSE IF j > k /\ \E i \in {at} : j <= i THEN o[j - 1]
                           ELSE o[j]]
      BY <1>5, <3>1 DEF Moved
    <3> QED BY <3>2
  <2>3. \A j \in 1..m : Pts(n, g, new[j]) = Pts(n, g, o[j])
    <3>1. ASSUME NEW j \in 1..m PROVE Pts(n, g, new[j]) = Pts(n, g, o[j])
      <4>1. CASE j = k
        <5>1. new[j] = t
          BY <1>1, <2>2, <4>1
        <5> QED BY <4>1, <5>1
      <4>2. CASE j > k /\ j <= at
        <5>0. m \in Nat /\ at \in Int /\ j \in Int /\ DOMAIN o = 1..m /\ j # k
          BY <1>1, <1>2, <4>2
        <5>4. new[j] = o[j - 1]
          BY <2>2, <4>2, <5>0
        <5>1. new[j] = o[j - 1] /\ j - 1 \in 1..m /\ k <= j - 1 /\ j - 1 <= at
          BY <1>2, <4>2, <5>0, <5>4
        <5>2. \A i \in 1..m : k <= i /\ i <= at => Pts(n, g, o[i]) = Pts(n, g, o[k])
          <6>1. ASSUME NEW i \in 1..m, k <= i, i <= at PROVE Pts(n, g, o[i]) = Pts(n, g, o[k])
            <7>1. Pts(n, g, o[k]) >= Pts(n, g, o[i]) /\ Pts(n, g, o[i]) >= Pts(n, g, o[at])
              BY <1>1, <1>2, <6>1
            <7>2. Pts(n, g, o[at]) = Pts(n, g, o[k])
              BY <1>7
            <7>3. Pts(n, g, o[k]) \in Int /\ Pts(n, g, o[i]) \in Int
              BY <1>1, <1>2
            <7> QED BY <7>1, <7>2, <7>3
          <6> QED BY <6>1
        <5>3. Pts(n, g, o[j - 1]) = Pts(n, g, o[k]) /\ Pts(n, g, o[j]) = Pts(n, g, o[k])
          <6>1. k <= j /\ j <= at
            BY <1>2, <4>2, <5>0
          <6>2. Pts(n, g, o[j]) = Pts(n, g, o[k])
            BY <5>2, <6>1
          <6>3. Pts(n, g, o[j - 1]) = Pts(n, g, o[k])
            BY <5>1, <5>2
          <6> QED BY <6>2, <6>3
        <5> QED BY <5>1, <5>3
      <4>3. CASE ~(j = k) /\ ~(j > k /\ j <= at)
        <5>1. new[j] = o[j]
          BY <1>1, <2>2, <4>3
        <5> QED BY <5>1
      <4> QED BY <4>1, <4>2, <4>3
    <3> QED BY <3>1
  <2>4. DOMAIN new = 1..m
    BY <1>1, <1>6, RankingTypes
  <2>5. \A i, j \in DOMAIN new : i < j => Pts(n, g, new[i]) >= Pts(n, g, new[j])
    <3>1. ASSUME NEW i \in 1..m, NEW j \in 1..m, i < j
          PROVE  Pts(n, g, new[i]) >= Pts(n, g, new[j])
      <4>1. Pts(n, g, new[i]) = Pts(n, g, o[i]) /\ Pts(n, g, new[j]) = Pts(n, g, o[j])
        BY <2>3
      <4>2. i <= j
        BY <3>1
      <4> QED BY <1>1, <4>1, <4>2
    <3> QED BY <2>4, <3>1
  <2>6. new \in Ranked(n, g)
    BY <1>1, <1>3, <1>6, <2>5 DEF Ranked, Ranking
  <2>7. \A p \in DOMAIN o : p < k => new[p] = o[p]
    BY <1>1, <1>2, <2>2
  <2>8. new[k] = t /\ k <= k
    BY <1>1, <1>2, <2>2
  <2>9. ~\E p \in DOMAIN o : p <= k /\ o[p] = t
    BY <1>1, <1>2, <1>7, <1>9
  <2> QED BY <1>5, <2>6, <2>7, <2>8, <2>9
<1>10. at <= k \/ at > k
  BY <1>2, <1>7
<1> QED BY <1>8, <1>9, <1>10

\* The cutoffs of a round, and what a place in it is worth.
CutoffSet(n) == {Cutoffs(n)[i] : i \in DOMAIN Cutoffs(n)}
Class(n, p) == Better(To(n, p))

LEMMA CutoffSets ==
  /\ CutoffSet(1) = {K1} /\ CutoffSet(2) = {A2, A2 + B2} /\ CutoffSet(3) = {K3}
  /\ Cutoffs(1) = <<K1>> /\ Cutoffs(2) = <<A2, A2 + B2>> /\ Cutoffs(3) = <<K3>>
  /\ {K1, A2, A2 + B2, K3} \subseteq Nat \ {0} /\ A2 <= A2 + B2
<1>1. Cutoffs(1) = <<K1>> /\ Cutoffs(2) = <<A2, A2 + B2>> /\ Cutoffs(3) = <<K3>>
  BY DEF Cutoffs
<1>2. /\ {<<K1>>[i] : i \in DOMAIN <<K1>>} = {K1}
      /\ {<<K3>>[i] : i \in DOMAIN <<K3>>} = {K3}
      /\ {<<A2, A2 + B2>>[i] : i \in DOMAIN <<A2, A2 + B2>>} = {A2, A2 + B2}
  OBVIOUS
<1>3. {K1, A2, A2 + B2, K3} \subseteq Nat \ {0} /\ A2 <= A2 + B2
  BY CutoffsAssumption
<1> QED BY <1>1, <1>2, <1>3 DEF CutoffSet

LEMMA CutoffTyped ==
  ASSUME NEW n \in 1..3
  PROVE  CutoffSet(n) \subseteq Nat \ {0}
<1>1. n = 1 \/ n = 2 \/ n = 3
  OBVIOUS
<1> QED BY <1>1, CutoffSets

LEMMA Classes ==
  ASSUME NEW n \in 1..3, NEW p \in Nat \ {0}, NEW q \in Nat \ {0}
  PROVE  /\ Class(n, p) > Class(n, q) => \E k \in CutoffSet(n) : p <= k /\ k < q
         /\ (\E k \in CutoffSet(n) : p <= k) => Class(n, p) > 0
<1>1. CASE n = 1
  <2>1. Class(1, p) = (IF p <= K1 THEN 1 ELSE 0) /\ Class(1, q) = (IF q <= K1 THEN 1 ELSE 0)
    BY DEF Class, Better, To
  <2>2. K1 \in Nat /\ CutoffSet(1) = {K1}
    BY CutoffSets
  <2> QED BY <1>1, <2>1, <2>2
<1>2. CASE n = 2
  <2>1. /\ Class(2, p) = (IF p <= A2 THEN 2 ELSE IF p <= A2 + B2 THEN 1 ELSE 0)
        /\ Class(2, q) = (IF q <= A2 THEN 2 ELSE IF q <= A2 + B2 THEN 1 ELSE 0)
    BY DEF Class, Better, To
  <2>2. A2 \in Nat /\ B2 \in Nat /\ CutoffSet(2) = {A2, A2 + B2}
    BY CutoffSets, CutoffsAssumption
  <2> QED BY <1>2, <2>1, <2>2
<1>3. CASE n = 3
  <2>1. Class(3, p) = (IF p <= K3 THEN 2 ELSE 0) /\ Class(3, q) = (IF q <= K3 THEN 2 ELSE 0)
    BY DEF Class, Better, To
  <2>2. K3 \in Nat /\ CutoffSet(3) = {K3}
    BY CutoffSets
  <2> QED BY <1>3, <2>1, <2>2
<1> QED BY <1>1, <1>2, <1>3

TiedAt(n, g, o, k) == k + 1 \in DOMAIN o /\ Pts(n, g, o[k]) = Pts(n, g, o[k + 1])
CutoffTie(n, g, T) ==
    \E k \in CutoffSet(n) : \E o \in Ranked(n, g) :
        TiedAt(n, g, o, k) /\ T = TiedWith(n, g, o[k])
TieOf(i, n, g) == i \in DOMAIN tie /\ tie[i].round = n /\ tie[i].group = g

\* The tie-breakers of a round whose groups still exist: each is between all the teams of its
\* group that are level at a cutoff, and no other one is between the same.
TiesFair(n) ==
    /\ \A i \in DOMAIN tie : tie[i].round = n /\ tie[i].group # 0 =>
          /\ CutoffTie(n, tie[i].group, tie[i].tied)
          /\ tie[i].selected \in tie[i].tied \cup {None}
    /\ \A i, j \in DOMAIN tie :
          /\ tie[i].round = n /\ tie[j].round = n
          /\ tie[i].group # 0 /\ tie[i].group = tie[j].group /\ tie[i].tied = tie[j].tied
          => i = j

\* A ranking nobody can argue with: who is level at a cutoff has been decided between.
Fair(n, g, f) ==
    /\ f \in Ranked(n, g)
    /\ \A k \in CutoffSet(n) : TiedAt(n, g, f, k) =>
          \E i \in DOMAIN tie : /\ TieOf(i, n, g) /\ tie[i].selected # None
                                /\ tie[i].tied = TiedWith(n, g, f[k])
    /\ \A i \in DOMAIN tie : TieOf(i, n, g) =>
          /\ tie[i].selected # None
          /\ \E p \in DOMAIN f : f[p] = tie[i].selected /\ Class(n, p) > 0

LEMMA TiedSame ==
  ASSUME TypeOK, NEW n \in 1..3, NEW g, NEW o \in Ranked(n, g), NEW p \in Ranked(n, g),
         NEW k \in CutoffSet(n), TiedAt(n, g, o, k)
  PROVE  /\ TiedAt(n, g, p, k) /\ TiedWith(n, g, o[k]) = TiedWith(n, g, p[k])
         /\ k \in DOMAIN o /\ k \in DOMAIN p
<1>1. PICK m : Line(n, g, o, m) /\ Line(n, g, p, m)
  BY RankedForms
<1>2. m \in Nat /\ DOMAIN o = 1..m /\ DOMAIN p = 1..m
  BY <1>1 DEF Line
<1>3. k \in Nat \ {0}
  BY CutoffTyped
<1>4. k + 1 \in 1..m /\ k \in 1..m
  BY <1>2, <1>3 DEF TiedAt
<1>5. Pts(n, g, o[k]) = Pts(n, g, p[k]) /\ Pts(n, g, o[k + 1]) = Pts(n, g, p[k + 1])
  BY <1>2, <1>4, SamePlace
<1>6. TiedAt(n, g, p, k)
  BY <1>2, <1>4, <1>5 DEF TiedAt
<1>7. TiedWith(n, g, o[k]) = TiedWith(n, g, p[k])
  BY <1>5 DEF TiedWith
<1> QED BY <1>2, <1>4, <1>6, <1>7

\* Which cutoff a tie is at does not depend on the ranking.
LEMMA CutoffTieAt ==
  ASSUME TypeOK, NEW n \in 1..3, NEW g, NEW T, CutoffTie(n, g, T), NEW o \in Ranked(n, g)
  PROVE  \E k \in CutoffSet(n) : TiedAt(n, g, o, k) /\ T = TiedWith(n, g, o[k])
<1>1. PICK k \in CutoffSet(n) : \E p \in Ranked(n, g) :
           TiedAt(n, g, p, k) /\ T = TiedWith(n, g, p[k])
  BY DEF CutoffTie
<1>2. PICK p \in Ranked(n, g) : TiedAt(n, g, p, k) /\ T = TiedWith(n, g, p[k])
  BY <1>1
<1> QED BY <1>2, TiedSame

\* The tie-breakers that settle a cutoff are those between the teams that are level there.
LEMMA ResolvedAt ==
  ASSUME TypeOK, NEW n \in 1..3, NEW g \in GroupIds, TiesFair(n), NEW o \in Ranked(n, g),
         NEW k \in CutoffSet(n), TiedAt(n, g, o, k)
  PROVE  \A i : i \in Resolved(n, g, o[k]) <=>
            TieOf(i, n, g) /\ tie[i].selected # None /\ tie[i].tied = TiedWith(n, g, o[k])
<1>1. g # 0
  BY GroupIdsFinite
<1>2. k \in DOMAIN o /\ o[k] \in TiedWith(n, g, o[k])
  <2>1. k \in DOMAIN o
    BY TiedSame
  <2>2. o[k] \in TeamsOf(n, g)
    BY <2>1, RankedForms DEF Line
  <2> QED BY <2>1, <2>2 DEF TiedWith
<1>3. ASSUME NEW i, i \in Resolved(n, g, o[k])
      PROVE  TieOf(i, n, g) /\ tie[i].selected # None /\ tie[i].tied = TiedWith(n, g, o[k])
  <2>1. TieOf(i, n, g) /\ tie[i].selected # None /\ (n = 2 => o[k] \in tie[i].tied)
    BY <1>3 DEF Resolved, TieOf
  <2>2. CutoffTie(n, g, tie[i].tied)
    BY <1>1, <2>1 DEF TiesFair, TieOf
  <2>3. PICK l \in CutoffSet(n) : TiedAt(n, g, o, l) /\ tie[i].tied = TiedWith(n, g, o[l])
    BY <2>2, CutoffTieAt
  <2>4. CASE n = 2
    <3>1. Pts(n, g, o[k]) = Pts(n, g, o[l])
      BY <2>1, <2>3, <2>4 DEF TiedWith
    <3> QED BY <2>1, <2>3, <3>1 DEF TiedWith
  <2>5. CASE n # 2
    <3>1. k = l
      <4>1. n = 1 \/ n = 3
        BY <2>5
      <4> QED BY <4>1, CutoffSets
    <3> QED BY <2>1, <2>3, <3>1
  <2> QED BY <2>4, <2>5
<1>4. ASSUME NEW i, TieOf(i, n, g), tie[i].selected # None, tie[i].tied = TiedWith(n, g, o[k])
      PROVE  i \in Resolved(n, g, o[k])
  BY <1>2, <1>4 DEF Resolved, TieOf
<1> QED BY <1>3, <1>4

LEMMA SettleFair ==
  ASSUME TypeOK, NEW n \in 1..3, NEW g \in GroupIds, TiesFair(n), NEW o \in Ranked(n, g),
         NEW k \in CutoffSet(n)
  PROVE  LET s == Settle(n, g, o, k)
         IN  \/ /\ s.open = {} /\ s.order \in Ranked(n, g)
                /\ \A p \in DOMAIN o : p < k => s.order[p] = o[p]
                /\ TiedAt(n, g, o, k) =>
                     \E i \in DOMAIN tie :
                        /\ TieOf(i, n, g) /\ tie[i].selected # None
                        /\ tie[i].tied = TiedWith(n, g, o[k])
                        /\ \E p \in DOMAIN o : p <= k /\ s.order[p] = tie[i].selected
             \/ /\ s.open # {} /\ TiedAt(n, g, o, k) /\ s.open = TiedWith(n, g, o[k])
                /\ ~\E i \in DOMAIN tie : /\ TieOf(i, n, g) /\ tie[i].selected # None
                                          /\ tie[i].tied = s.open
<1> DEFINE s == Settle(n, g, o, k)
<1>1. CASE ~TiedAt(n, g, o, k)
  <2>1. s = [order |-> o, open |-> {}]
    BY <1>1 DEF Settle, TiedAt
  <2> QED BY <1>1, <2>1
<1>2. CASE TiedAt(n, g, o, k)
  <2>0. PICK first : first = CHOOSE i \in Resolved(n, g, o[k]) :
                                \A j \in Resolved(n, g, o[k]) : i <= j
    OBVIOUS
  <2>1. s = IF Resolved(n, g, o[k]) = {} THEN [order |-> o, open |-> TiedWith(n, g, o[k])]
            ELSE [order |-> Moved(o, k, tie[first].selected), open |-> {}]
    BY <1>2, <2>0 DEF Settle, TiedAt
  <2>2. k \in DOMAIN o /\ o[k] \in TiedWith(n, g, o[k])
    <3>1. k \in DOMAIN o
      BY <1>2, TiedSame
    <3>2. o[k] \in TeamsOf(n, g)
      BY <3>1, RankedForms DEF Line
    <3> QED BY <3>1, <3>2 DEF TiedWith
  <2>3. \A i : i \in Resolved(n, g, o[k]) <=>
            TieOf(i, n, g) /\ tie[i].selected # None /\ tie[i].tied = TiedWith(n, g, o[k])
    BY <1>2, ResolvedAt
  <2>4. CASE Resolved(n, g, o[k]) = {}
    <3>1. s.open = TiedWith(n, g, o[k]) /\ s.open # {}
      BY <2>1, <2>2, <2>4
    <3>2. ~\E i \in DOMAIN tie : /\ TieOf(i, n, g) /\ tie[i].selected # None
                                 /\ tie[i].tied = TiedWith(n, g, o[k])
      BY <2>3, <2>4
    <3> QED BY <1>2, <3>1, <3>2
  <2>5. CASE Resolved(n, g, o[k]) # {}
    <3>1. PICK i : i \in Resolved(n, g, o[k])
      BY <2>5
    <3>2. /\ TieOf(i, n, g) /\ i \in DOMAIN tie /\ tie[i].selected # None
          /\ tie[i].tied = TiedWith(n, g, o[k])
      BY <2>3, <3>1 DEF TieOf
    <3>3. g # 0
      BY GroupIdsFinite
    <3>4. ASSUME NEW j \in Resolved(n, g, o[k])
          PROVE  j = i
      <4>1. TieOf(j, n, g) /\ tie[j].tied = TiedWith(n, g, o[k])
        BY <2>3
      <4>2. /\ i \in DOMAIN tie /\ tie[i].round = n /\ tie[i].group = g
            /\ j \in DOMAIN tie /\ tie[j].round = n /\ tie[j].group = g
            /\ tie[i].tied = tie[j].tied
        BY <3>2, <4>1 DEF TieOf
      <4> QED BY <3>3, <4>2 DEF TiesFair
    <3>5. i \in Nat
      <4>1. tie \in Seq(TieRecord)
        BY TiesTyped
      <4>2. DOMAIN tie = 1..Len(tie) /\ Len(tie) \in Nat
        BY <4>1
      <4> QED BY <3>2, <4>2
    <3>6. first = i
      <4>1. Resolved(n, g, o[k]) = {i}
        BY <3>1, <3>4
      <4>2. first = CHOOSE h \in {i} : \A j \in {i} : h <= j
        BY <2>0, <4>1
      <4>3. \A j \in {i} : i <= j
        BY <3>5
      <4> QED BY <4>2, <4>3
    <3>7. PICK t : t = tie[i].selected
      OBVIOUS
    <3>8. s.open = {} /\ s.order = Moved(o, k, t)
      BY <2>1, <2>5, <3>6, <3>7
    <3>9. t \in TeamsOf(n, g) /\ Pts(n, g, t) = Pts(n, g, o[k])
      <4>1. t \in tie[i].tied
        BY <3>2, <3>3, <3>7 DEF TiesFair, TieOf
      <4> QED BY <3>2, <4>1 DEF TiedWith
    <3>10. /\ Moved(o, k, t) \in Ranked(n, g)
           /\ \A p \in DOMAIN o : p < k => Moved(o, k, t)[p] = o[p]
           /\ \E p \in DOMAIN o : p <= k /\ Moved(o, k, t)[p] = t
      BY <2>2, <3>9, MovedKeepsRanked
    <3> QED BY <3>2, <3>7, <3>8, <3>10
  <2> QED BY <2>4, <2>5
<1> QED BY <1>1, <1>2

\* A cutoff where teams are level has been decided, and the selected one stands above it.
Seated(n, g, f, k) ==
    TiedAt(n, g, f, k) =>
        \E i \in DOMAIN tie : /\ TieOf(i, n, g) /\ tie[i].selected # None
                              /\ tie[i].tied = TiedWith(n, g, f[k])
                              /\ \E p \in DOMAIN f : p <= k /\ f[p] = tie[i].selected
\* A tie to be decided: nobody has decided between the same teams.
Undecided(n, g, T) ==
    /\ CutoffTie(n, g, T)
    /\ ~\E i \in DOMAIN tie : TieOf(i, n, g) /\ tie[i].selected # None /\ tie[i].tied = T

LEMMA SettleSeated ==
  ASSUME TypeOK, NEW n \in 1..3, NEW g \in GroupIds, TiesFair(n), NEW o \in Ranked(n, g),
         NEW k \in CutoffSet(n)
  PROVE  LET s == Settle(n, g, o, k)
         IN  \/ /\ s.open = {} /\ s.order \in Ranked(n, g) /\ Seated(n, g, s.order, k)
                /\ \A p \in DOMAIN o : p < k => s.order[p] = o[p]
             \/ s.open # {} /\ Undecided(n, g, s.open)
<1>1. PICK open, f : open = Settle(n, g, o, k).open /\ f = Settle(n, g, o, k).order
  OBVIOUS
<1>2. \/ /\ open = {} /\ f \in Ranked(n, g)
         /\ \A p \in DOMAIN o : p < k => f[p] = o[p]
         /\ TiedAt(n, g, o, k) =>
              \E i \in DOMAIN tie :
                 /\ TieOf(i, n, g) /\ tie[i].selected # None
                 /\ tie[i].tied = TiedWith(n, g, o[k])
                 /\ \E p \in DOMAIN o : p <= k /\ f[p] = tie[i].selected
      \/ /\ open # {} /\ TiedAt(n, g, o, k) /\ open = TiedWith(n, g, o[k])
         /\ ~\E i \in DOMAIN tie : /\ TieOf(i, n, g) /\ tie[i].selected # None
                                   /\ tie[i].tied = open
  BY <1>1, SettleFair
<1>3. CASE open = {}
  <2>1. f \in Ranked(n, g) /\ \A p \in DOMAIN o : p < k => f[p] = o[p]
    BY <1>2, <1>3
  <2>2. ASSUME TiedAt(n, g, f, k)
        PROVE  \E i \in DOMAIN tie : /\ TieOf(i, n, g) /\ tie[i].selected # None
                              /\ tie[i].tied = TiedWith(n, g, f[k])
                              /\ \E p \in DOMAIN f : p <= k /\ f[p] = tie[i].selected
    <3>1. TiedAt(n, g, o, k) /\ TiedWith(n, g, f[k]) = TiedWith(n, g, o[k])
      BY <2>1, <2>2, TiedSame
    <3>2. DOMAIN f = DOMAIN o
      BY <2>1, SamePlace
    <3> QED BY <1>2, <1>3, <3>1, <3>2
  <2>3. Seated(n, g, f, k)
    BY <2>2 DEF Seated
  <2> QED BY <1>1, <1>3, <2>1, <2>3
<1>4. CASE open # {}
  <2>1. CutoffTie(n, g, open)
    BY <1>2, <1>4 DEF CutoffTie
  <2> QED BY <1>1, <1>2, <1>4, <2>1 DEF Undecided
<1> QED BY <1>3, <1>4

LEMMA FairFrom ==
  ASSUME TypeOK, NEW n \in 1..3, NEW g \in GroupIds, TiesFair(n), NEW f \in Ranked(n, g),
         \A k \in CutoffSet(n) : Seated(n, g, f, k)
  PROVE  Fair(n, g, f)
<1>1. g # 0
  BY GroupIdsFinite
<1>2. ASSUME NEW i \in DOMAIN tie, TieOf(i, n, g)
      PROVE  /\ tie[i].selected # None
             /\ \E p \in DOMAIN f : f[p] = tie[i].selected /\ Class(n, p) > 0
  <2>1. CutoffTie(n, g, tie[i].tied)
    BY <1>1, <1>2 DEF TiesFair, TieOf
  <2>2. PICK k \in CutoffSet(n) : TiedAt(n, g, f, k) /\ tie[i].tied = TiedWith(n, g, f[k])
    BY <2>1, CutoffTieAt
  <2>3. PICK j \in DOMAIN tie : /\ TieOf(j, n, g) /\ tie[j].selected # None
                                /\ tie[j].tied = TiedWith(n, g, f[k])
                                /\ \E p \in DOMAIN f : p <= k /\ f[p] = tie[j].selected
    BY <2>2 DEF Seated
  <2>4. /\ tie[i].round = n /\ tie[i].group = g /\ tie[j].round = n /\ tie[j].group = g
        /\ tie[i].tied = tie[j].tied
    BY <1>2, <2>2, <2>3 DEF TieOf
  <2>5. i = j
    BY <1>1, <2>4 DEF TiesFair
  <2>6. PICK p \in DOMAIN f : p <= k /\ f[p] = tie[i].selected
    BY <2>3, <2>5
  <2>7. PICK m : Line(n, g, f, m)
    BY RankedForms
  <2>8. p \in Nat \ {0}
    BY <2>6, <2>7 DEF Line
  <2>9. Class(n, p) > 0
    BY <2>6, <2>8, Classes
  <2> QED BY <2>3, <2>5, <2>6, <2>9
<1>3. ASSUME NEW k \in CutoffSet(n), TiedAt(n, g, f, k)
      PROVE  \E i \in DOMAIN tie : /\ TieOf(i, n, g) /\ tie[i].selected # None
                                   /\ tie[i].tied = TiedWith(n, g, f[k])
  BY <1>3 DEF Seated
<1> QED BY <1>2, <1>3 DEF Fair

LEMMA StandingFair ==
  ASSUME TypeOK, NEW n \in 1..3, NEW g \in GroupIds, TiesFair(n), NEW o \in Ranked(n, g)
  PROVE  LET s == Standing(n, g, o)
         IN  \/ s.open = {} /\ Fair(n, g, s.order)
             \/ s.open # {} /\ Undecided(n, g, s.open)
<1>1. CASE n # 2
  <2>1. n = 1 \/ n = 3
    BY <1>1
  <2>2. PICK k : Cutoffs(n) = <<k>> /\ CutoffSet(n) = {k}
    BY <2>1, CutoffSets
  <2>3. Standing(n, g, o) = Settle(n, g, o, k)
    BY <2>2 DEF Standing
  <2>4. PICK s : s = Settle(n, g, o, k)
    OBVIOUS
  <2>5. \/ s.open = {} /\ s.order \in Ranked(n, g) /\ Seated(n, g, s.order, k)
        \/ s.open # {} /\ Undecided(n, g, s.open)
    BY <2>2, <2>4, SettleSeated
  <2>6. PICK f : f = s.order
    OBVIOUS
  <2>7. f \in Ranked(n, g) /\ Seated(n, g, f, k) => Fair(n, g, f)
    BY <2>2, FairFrom
  <2> QED BY <2>3, <2>4, <2>5, <2>6, <2>7
<1>2. CASE n = 2
  <2>1. PICK k, l : /\ Cutoffs(n) = <<k, l>> /\ CutoffSet(n) = {k, l}
                    /\ k \in Nat /\ l \in Nat /\ k <= l
    BY <1>2, CutoffSets
  <2>2. PICK s : s = Settle(n, g, o, k)
    OBVIOUS
  <2>3. PICK f : f = s.order
    OBVIOUS
  <2>4. \/ s.open = {} /\ f \in Ranked(n, g) /\ Seated(n, g, f, k)
        \/ s.open # {} /\ Undecided(n, g, s.open)
    BY <2>1, <2>2, <2>3, SettleSeated
  <2>5. CASE s.open # {}
    <3>1. Standing(n, g, o) = s
      BY <2>1, <2>2, <2>5 DEF Standing
    <3> QED BY <2>4, <2>5, <3>1
  <2>6. CASE s.open = {}
    <3>1. f \in Ranked(n, g) /\ Seated(n, g, f, k)
      BY <2>4, <2>6
    <3>2. PICK z : z = Settle(n, g, f, l)
      OBVIOUS
    <3>3. Standing(n, g, o) = z
      BY <2>1, <2>2, <2>3, <2>6, <3>2 DEF Standing
    <3>4. PICK h : h = z.order
      OBVIOUS
    <3>5. \/ /\ z.open = {} /\ h \in Ranked(n, g) /\ Seated(n, g, h, l)
             /\ \A p \in DOMAIN f : p < l => h[p] = f[p]
          \/ z.open # {} /\ Undecided(n, g, z.open)
      BY <2>1, <3>1, <3>2, <3>4, SettleSeated
    <3>6. CASE z.open = {}
      <4>1. /\ h \in Ranked(n, g) /\ Seated(n, g, h, l)
            /\ \A p \in DOMAIN f : p < l => h[p] = f[p]
        BY <3>5, <3>6
      <4>2. ASSUME k # l, TiedAt(n, g, h, k)
            PROVE  \E i \in DOMAIN tie : /\ TieOf(i, n, g) /\ tie[i].selected # None
                              /\ tie[i].tied = TiedWith(n, g, h[k])
                              /\ \E p \in DOMAIN h : p <= k /\ h[p] = tie[i].selected
        <5>1. TiedAt(n, g, f, k) /\ TiedWith(n, g, h[k]) = TiedWith(n, g, f[k])
          BY <2>1, <3>1, <4>1, <4>2, TiedSame
        <5>2. PICK i \in DOMAIN tie : /\ TieOf(i, n, g) /\ tie[i].selected # None
                                      /\ tie[i].tied = TiedWith(n, g, f[k])
                                      /\ \E p \in DOMAIN f : p <= k /\ f[p] = tie[i].selected
          BY <3>1, <5>1 DEF Seated
        <5>3. PICK p \in DOMAIN f : p <= k /\ f[p] = tie[i].selected
          BY <5>2
        <5>4. DOMAIN h = DOMAIN f
          BY <3>1, <4>1, SamePlace
        <5>5. p < l
          <6>1. PICK m : Line(n, g, f, m)
            BY <3>1, RankedForms
          <6>2. p \in Nat
            BY <6>1 DEF Line
          <6> QED BY <2>1, <4>2, <5>3, <6>2
        <5>6. h[p] = tie[i].selected
          BY <4>1, <5>3, <5>5
        <5> QED BY <5>1, <5>2, <5>3, <5>4, <5>6
      <4>3. Seated(n, g, h, k)
        <5>1. CASE k = l
          BY <4>1, <5>1
        <5>2. CASE k # l
          BY <4>2, <5>2 DEF Seated
        <5> QED BY <5>1, <5>2
      <4>4. Fair(n, g, h)
        BY <2>1, <4>1, <4>3, FairFrom
      <4> QED BY <3>3, <3>4, <3>6, <4>4
    <3>7. CASE z.open # {}
      BY <3>3, <3>5, <3>7
    <3> QED BY <3>6, <3>7
  <2> QED BY <2>5, <2>6
<1> QED BY <1>1, <1>2

-----------------------------------------------------------------------------
(* Who advances: what a request and a completed round keep *)

FairOrders(n, order) == DOMAIN order = Groups(n) /\ \A g \in DOMAIN order : Fair(n, g, order[g])
Placed(n, t, to) ==
    /\ \E q \in qual : q.round = n /\ q.team = t /\ ~q.manual
    /\ \A q \in qual : q.round = n /\ q.team = t /\ ~q.manual => q.to = to
AllPlaced(n, order) ==
    \A g \in DOMAIN order : \A i \in DOMAIN order[g] : Placed(n, order[g][i], To(n, i))
Settled(n) == \E order : FairOrders(n, order) /\ AllPlaced(n, order)

\* The ties a request is about to write are at a cutoff, and there are none like them.
NewTies(n, ties) ==
    \A t \in ties : t[1] # 0 =>
        /\ CutoffTie(n, t[1], t[2])
        /\ ~\E i \in DOMAIN tie : TieOf(i, n, t[1]) /\ tie[i].tied = t[2]
RequestFair(n, q) ==
    /\ q.pc = "pause" => NewTies(n, q.ties)
    /\ q.pc = "write" => FairOrders(n, q.order)

\* What was decided about a round still fits its scores and its tie-breakers.
Judged(n) ==
    /\ TiesFair(n)
    /\ \A r \in Requests : req[r].round = n => RequestFair(n, req[r])
    /\ status[n] = "COMPLETED" => Settled(n)

LEMMA ScoresSame ==
  ASSUME NEW n, NEW g, GroupRows(n, g)' = GroupRows(n, g)
  PROVE  /\ Ranked(n, g)' = Ranked(n, g)
         /\ \A t : TiedWith(n, g, t)' = TiedWith(n, g, t)
         /\ \A o, k : TiedAt(n, g, o, k)' <=> TiedAt(n, g, o, k)
         /\ \A T : CutoffTie(n, g, T)' <=> CutoffTie(n, g, T)
<1>1. TeamsOf(n, g)' = TeamsOf(n, g) /\ \A t : Pts(n, g, t)' = Pts(n, g, t)
  BY DEF TeamsOf, Pts
<1>2. Ranked(n, g)' = Ranked(n, g)
  BY <1>1 DEF Ranked
<1>3. \A t : TiedWith(n, g, t)' = TiedWith(n, g, t)
  BY <1>1 DEF TiedWith
<1>4. \A o, k : TiedAt(n, g, o, k)' <=> TiedAt(n, g, o, k)
  BY <1>1 DEF TiedAt
<1>5. \A T : CutoffTie(n, g, T)' <=> CutoffTie(n, g, T)
  BY <1>2, <1>3, <1>4 DEF CutoffTie
<1> QED BY <1>2, <1>3, <1>4, <1>5

SameTies(n) ==
    \A i, g : g # 0 =>
        /\ TieOf(i, n, g)' <=> TieOf(i, n, g)
        /\ TieOf(i, n, g) => tie'[i].tied = tie[i].tied /\ tie'[i].selected = tie[i].selected

LEMMA FairSame ==
  ASSUME NEW n, NEW g, g # 0, GroupRows(n, g)' = GroupRows(n, g), SameTies(n), NEW f,
         Fair(n, g, f)
  PROVE  Fair(n, g, f)'
<1>1. /\ Ranked(n, g)' = Ranked(n, g)
      /\ \A t : TiedWith(n, g, t)' = TiedWith(n, g, t)
      /\ \A o, k : TiedAt(n, g, o, k)' <=> TiedAt(n, g, o, k)
  BY ScoresSame
<1>2. \A i : /\ TieOf(i, n, g)' <=> TieOf(i, n, g)
             /\ TieOf(i, n, g) => tie'[i].tied = tie[i].tied /\ tie'[i].selected = tie[i].selected
  BY DEF SameTies
<1>3. (f \in Ranked(n, g))'
  BY <1>1 DEF Fair
<1>4. ASSUME NEW k \in CutoffSet(n), TiedAt(n, g, f, k)'
      PROVE  \E i \in DOMAIN tie' : /\ TieOf(i, n, g)' /\ tie'[i].selected # None
                                    /\ tie'[i].tied = TiedWith(n, g, f[k])'
  <2>1. PICK i \in DOMAIN tie : /\ TieOf(i, n, g) /\ tie[i].selected # None
                                /\ tie[i].tied = TiedWith(n, g, f[k])
    BY <1>1, <1>4 DEF Fair
  <2>2. i \in DOMAIN tie'
    BY <1>2, <2>1 DEF TieOf
  <2> QED BY <1>1, <1>2, <2>1, <2>2
<1>5. ASSUME NEW i \in DOMAIN tie', TieOf(i, n, g)'
      PROVE  /\ tie'[i].selected # None
             /\ \E p \in DOMAIN f : f[p] = tie'[i].selected /\ Class(n, p) > 0
  <2>1. TieOf(i, n, g) /\ i \in DOMAIN tie /\ tie'[i].selected = tie[i].selected
    BY <1>2, <1>5 DEF TieOf
  <2> QED BY <2>1 DEF Fair
<1>6. CutoffSet(n)' = CutoffSet(n) /\ \A p : Class(n, p)' = Class(n, p)
  BY DEF CutoffSet, Cutoffs, Class, Better, To
<1> QED BY <1>3, <1>4, <1>5, <1>6 DEF Fair

LEMMA FairOrdersSame ==
  ASSUME TypeOK, NEW n, Groups(n)' = Groups(n), \A g : GroupRows(n, g)' = GroupRows(n, g),
         SameTies(n), NEW order, FairOrders(n, order)
  PROVE  FairOrders(n, order)'
<1>1. ASSUME NEW g \in DOMAIN order PROVE Fair(n, g, order[g])'
  <2>1. PICK f : f = order[g]
    OBVIOUS
  <2>2. Fair(n, g, f) /\ g # 0
    BY <2>1, GroupTypes, GroupIdsFinite DEF FairOrders
  <2>3. Fair(n, g, f)'
    BY <2>2, FairSame
  <2> QED BY <2>1, <2>3
<1> QED BY <1>1 DEF FairOrders

LEMMA TiesFairSame ==
  ASSUME NEW n, \A g : GroupRows(n, g)' = GroupRows(n, g), SameTies(n), TiesFair(n)
  PROVE  TiesFair(n)'
<1>1. ASSUME NEW i \in DOMAIN tie', tie'[i].round = n, tie'[i].group # 0
      PROVE  /\ TieOf(i, n, tie'[i].group) /\ tie'[i].tied = tie[i].tied
             /\ tie'[i].selected = tie[i].selected
  <2>1. PICK g : g = tie'[i].group
    OBVIOUS
  <2>2. TieOf(i, n, g)'
    BY <1>1, <2>1 DEF TieOf
  <2> QED BY <1>1, <2>1, <2>2 DEF SameTies
<1>2. ASSUME NEW i \in DOMAIN tie', tie'[i].round = n, tie'[i].group # 0
      PROVE  CutoffTie(n, tie[i].group, tie[i].tied)' /\ tie'[i].selected \in tie'[i].tied \cup {None}
  <2>1. PICK g, T : g = tie'[i].group /\ T = tie'[i].tied
    OBVIOUS
  <2>2. i \in DOMAIN tie /\ tie[i].round = n /\ tie[i].group = g /\ tie[i].tied = T
    BY <1>1, <1>2, <2>1 DEF TieOf
  <2>3. CutoffTie(n, g, T) /\ tie[i].selected \in T \cup {None}
    BY <1>2, <2>1, <2>2 DEF TiesFair
  <2>4. CutoffTie(n, g, T)'
    BY <2>3, ScoresSame
  <2> QED BY <1>1, <1>2, <2>1, <2>3, <2>4
<1>3. ASSUME NEW i \in DOMAIN tie', NEW j \in DOMAIN tie', tie'[i].round = n, tie'[j].round = n,
             tie'[i].group # 0, tie'[i].group = tie'[j].group, tie'[i].tied = tie'[j].tied
      PROVE  i = j
  <2>1. /\ i \in DOMAIN tie /\ tie[i].round = n /\ tie[i].group = tie'[i].group
        /\ tie[i].tied = tie'[i].tied
    BY <1>1, <1>3 DEF TieOf
  <2>2. /\ j \in DOMAIN tie /\ tie[j].round = n /\ tie[j].group = tie'[j].group
        /\ tie[j].tied = tie'[j].tied
    BY <1>1, <1>3 DEF TieOf
  <2> QED BY <1>3, <2>1, <2>2 DEF TiesFair
<1> QED BY <1>2, <1>3 DEF TiesFair

LEMMA NewTiesSame ==
  ASSUME NEW n, \A g : GroupRows(n, g)' = GroupRows(n, g), SameTies(n), NEW ties,
         NewTies(n, ties)
  PROVE  NewTies(n, ties)'
<1>1. ASSUME NEW t \in ties, t[1] # 0
      PROVE  /\ CutoffTie(n, t[1], t[2])'
             /\ ~\E i \in DOMAIN tie' : TieOf(i, n, t[1])' /\ tie'[i].tied = t[2]
  <2>1. PICK g, T : g = t[1] /\ T = t[2]
    OBVIOUS
  <2>2. CutoffTie(n, g, T) /\ ~\E i \in DOMAIN tie : TieOf(i, n, g) /\ tie[i].tied = T
    BY <1>1, <2>1 DEF NewTies
  <2>3. CutoffTie(n, g, T)'
    BY <2>2, ScoresSame
  <2>4. ~\E i \in DOMAIN tie' : TieOf(i, n, g)' /\ tie'[i].tied = T
    BY <1>1, <2>1, <2>2 DEF SameTies, TieOf
  <2> QED BY <2>1, <2>3, <2>4
<1> QED BY <1>1 DEF NewTies

SameQuals(n) ==
    \A q : q \in qual' /\ q.round = n /\ ~q.manual <=> q \in qual /\ q.round = n /\ ~q.manual

LEMMA SettledSame ==
  ASSUME TypeOK, NEW n, Groups(n)' = Groups(n), \A g : GroupRows(n, g)' = GroupRows(n, g),
         SameTies(n), SameQuals(n), Settled(n)
  PROVE  Settled(n)'
<1>1. PICK order : FairOrders(n, order) /\ AllPlaced(n, order)
  BY DEF Settled
<1>2. FairOrders(n, order)'
  BY <1>1, FairOrdersSame
<1>3. \A t, to : Placed(n, t, to) => Placed(n, t, to)'
  BY DEF Placed, SameQuals
<1>4. AllPlaced(n, order)'
  <2>1. ASSUME NEW g \in DOMAIN order, NEW i \in DOMAIN order[g]
        PROVE  Placed(n, order[g][i], To(n, i))'
    <3>1. PICK t, to : t = order[g][i] /\ to = To(n, i)
      OBVIOUS
    <3>2. Placed(n, t, to)'
      BY <1>1, <1>3, <3>1 DEF AllPlaced
    <3> QED BY <3>1, <3>2 DEF Placed
  <2> QED BY <2>1 DEF AllPlaced, To
<1> QED BY <1>2, <1>4 DEF Settled

\* A step that leaves the scores, the tie-breakers and the qualifiers of round n alone.
LEMMA JudgedKept ==
  ASSUME TypeOK, NEW n \in 1..3, Judged(n), Groups(n)' = Groups(n),
         \A g : GroupRows(n, g)' = GroupRows(n, g), SameTies(n), SameQuals(n),
         status'[n] = "COMPLETED" => status[n] = "COMPLETED",
         \A s \in Requests : req'[s].round = n =>
             req'[s] = req[s] \/ RequestFair(n, req'[s])
  PROVE  Judged(n)'
<1>1. TiesFair(n)'
  BY TiesFairSame DEF Judged
<1>2. ASSUME NEW s \in Requests, req'[s].round = n PROVE RequestFair(n, req[s])'
  <2>1. PICK q : q = req'[s]
    OBVIOUS
  <2>2. RequestFair(n, q)
    BY <1>2, <2>1 DEF Judged
  <2>3. q.pc = "pause" => NewTies(n, q.ties)'
    BY <2>2, NewTiesSame DEF RequestFair
  <2>4. q.pc = "write" => FairOrders(n, q.order)'
    BY <2>2, FairOrdersSame DEF RequestFair
  <2> QED BY <2>1, <2>3, <2>4 DEF RequestFair
<1>3. status'[n] = "COMPLETED" => Settled(n)'
  BY SettledSame DEF Judged
<1> QED BY <1>1, <1>2, <1>3 DEF Judged

LEMMA Unchanged ==
  ASSUME NEW n
  PROVE  /\ tie' = tie => SameTies(n)
         /\ qual' = qual => SameQuals(n)
         /\ row' = row => Groups(n)' = Groups(n) /\ \A g : GroupRows(n, g)' = GroupRows(n, g)
<1>1. tie' = tie => SameTies(n)
  BY DEF SameTies, TieOf
<1>2. qual' = qual => SameQuals(n)
  BY DEF SameQuals
<1>3. row' = row => Groups(n)' = Groups(n) /\ \A g : GroupRows(n, g)' = GroupRows(n, g)
  BY DEF Groups, GroupRows
<1> QED BY <1>1, <1>2, <1>3

LEMMA OrphansElsewhere ==
  ASSUME TypeOK, NEW n, NEW k, n # k, tie' = Orphaned(k)
  PROVE  SameTies(n)
<1>1. /\ DOMAIN tie' = DOMAIN tie
      /\ \A i \in DOMAIN tie :
            /\ tie'[i].round = tie[i].round /\ tie'[i].tied = tie[i].tied
            /\ tie'[i].selected = tie[i].selected
            /\ tie'[i].group = IF tie[i].round = k THEN 0 ELSE tie[i].group
  BY OrphanedForms
<1> QED BY <1>1 DEF SameTies, TieOf

\* A step of a request that changes nothing but the request.
LEMMA JudgedRequest ==
  ASSUME TypeOK, \A n \in 1..3 : Judged(n), UNCHANGED <<status, row, qual, tie>>,
         \A s \in Requests : \/ req'[s] = req[s]
                             \/ \A n \in 1..3 : req'[s].round = n => RequestFair(n, req'[s])
  PROVE  \A n \in 1..3 : Judged(n)'
<1>1. ASSUME NEW n \in 1..3 PROVE Judged(n)'
  <2>1. /\ SameTies(n) /\ SameQuals(n) /\ Groups(n)' = Groups(n)
        /\ \A g : GroupRows(n, g)' = GroupRows(n, g)
    BY Unchanged
  <2>2. \A s \in Requests : req'[s].round = n => req'[s] = req[s] \/ RequestFair(n, req'[s])
    OBVIOUS
  <2> QED BY <2>1, <2>2, JudgedKept
<1> QED BY <1>1

LEMMA FoundFair ==
  ASSUME TypeOK, NEW n \in 1..3, TiesFair(n), NEW rank,
         \A g \in Groups(n) : rank[g] \in Ranked(n, g)
  PROVE  NewTies(n, Found(n, rank))
<1>1. ASSUME NEW t \in Found(n, rank), t[1] # 0
      PROVE  /\ CutoffTie(n, t[1], t[2])
             /\ ~\E i \in DOMAIN tie : TieOf(i, n, t[1]) /\ tie[i].tied = t[2]
  <2>1. PICK g \in Groups(n) :
           /\ t = <<g, Standing(n, g, rank[g]).open>>
           /\ Standing(n, g, rank[g]).open # {}
           /\ \A i \in DOMAIN tie : ~(tie[i].round = n /\ tie[i].group = g
                                      /\ tie[i].selected = None)
    BY DEF Found
  <2>2. PICK T, o : T = Standing(n, g, o).open /\ o = rank[g]
    OBVIOUS
  <2>3. g \in GroupIds /\ o \in Ranked(n, g)
    BY <2>2, GroupTypes
  <2>4. Undecided(n, g, T)
    BY <2>1, <2>2, <2>3, StandingFair
  <2>5. CutoffTie(n, g, T) /\ ~\E i \in DOMAIN tie : TieOf(i, n, g) /\ tie[i].tied = T
    BY <2>1, <2>4 DEF Undecided, TieOf
  <2>6. t[1] = g /\ t[2] = T
    BY <2>1, <2>2
  <2> QED BY <2>5, <2>6
<1> QED BY <1>1 DEF NewTies

LEMMA JudgedRead ==
  ASSUME TypeOK, \A n \in 1..3 : Judged(n), NEW r \in Requests, NEW m \in 1..3, AdvanceRead(r, m)
  PROVE  \A n \in 1..3 : Judged(n)'
<1>1. UNCHANGED <<status, row, qual, tie>>
  BY DEF AdvanceRead
<1>2. ASSUME NEW q, req' = [req EXCEPT ![r] = q], \A n \in 1..3 : q.round = n => RequestFair(n, q)
      PROVE  \A n \in 1..3 : Judged(n)'
  <2>1. \A s \in Requests : req'[s] = IF s = r THEN q ELSE req[s]
    BY <1>2 DEF TypeOK
  <2>2. \A s \in Requests : \/ req'[s] = req[s]
                            \/ \A n \in 1..3 : req'[s].round = n => RequestFair(n, req'[s])
    BY <1>2, <2>1
  <2> QED BY <1>1, <2>2, JudgedRequest
<1>3. CASE req' = [req EXCEPT ![r] = NoRequest]
  <2>1. PICK q : q = NoRequest /\ q.pc = "idle"
    BY IdleRequest
  <2>2. \A n \in 1..3 : RequestFair(n, q)
    BY <2>1 DEF RequestFair
  <2> QED BY <1>2, <1>3, <2>1, <2>2
<1>4. ASSUME NEW rank, \A g \in Groups(m) : rank[g] \in Ranked(m, g),
             req' = [req EXCEPT ![r] = Pausing(m, Found(m, rank))]
      PROVE  \A n \in 1..3 : Judged(n)'
  <2>1. PICK ties : ties = Found(m, rank)
    OBVIOUS
  <2>2. PICK q : q = Pausing(m, ties) /\ q.pc = "pause" /\ q.round = m /\ q.ties = ties
    BY RequestFields DEF Pausing
  <2>3. NewTies(m, ties)
    BY <1>4, <2>1, FoundFair DEF Judged
  <2>4. \A n \in 1..3 : q.round = n => RequestFair(n, q)
    BY <2>2, <2>3 DEF RequestFair
  <2> QED BY <1>2, <1>4, <2>1, <2>2, <2>4
<1>5. ASSUME NEW rank, \A g \in Groups(m) : rank[g] \in Ranked(m, g),
             \A g \in Groups(m) : Standing(m, g, rank[g]).open = {},
             req' = [req EXCEPT ![r] =
                        Writing(m, [g \in Groups(m) |-> Standing(m, g, rank[g]).order])]
      PROVE  \A n \in 1..3 : Judged(n)'
  <2>1. PICK order : order = [g \in Groups(m) |-> Standing(m, g, rank[g]).order]
    OBVIOUS
  <2>2. PICK q : q = Writing(m, order) /\ q.pc = "write" /\ q.round = m /\ q.order = order
    BY RequestFields DEF Writing
  <2>3. ASSUME NEW g \in Groups(m) PROVE Fair(m, g, order[g])
    <3>1. PICK o : o = rank[g]
      OBVIOUS
    <3>2. order[g] = Standing(m, g, o).order /\ Standing(m, g, o).open = {}
      BY <1>5, <2>1, <3>1
    <3>3. g \in GroupIds /\ o \in Ranked(m, g) /\ TiesFair(m)
      BY <1>5, <3>1, GroupTypes DEF Judged
    <3>4. Fair(m, g, Standing(m, g, o).order)
      BY <3>2, <3>3, StandingFair
    <3> QED BY <3>2, <3>4
  <2>4. FairOrders(m, order)
    BY <2>1, <2>3 DEF FairOrders
  <2>5. \A n \in 1..3 : q.round = n => RequestFair(n, q)
    BY <2>2, <2>4 DEF RequestFair
  <2> QED BY <1>2, <1>5, <2>1, <2>2, <2>5
<1> QED BY <1>3, <1>4, <1>5, ReadForms

\* Generating the groups of a round takes its tie-breakers, its scores and its requests along.
LEMMA JudgedGenerated ==
  ASSUME Typed, \A k \in 1..3 : Judged(k), NEW n \in 1..3, tie' = Orphaned(n),
         status'[n] = "LIVE", \A s \in Requests : req'[s] \in {Interrupted(n)[s], NoRequest}
  PROVE  Judged(n)'
<1>1. TiesFair(n)'
  <2>1. DOMAIN tie' = DOMAIN tie /\ \A i \in DOMAIN tie : tie'[i].round = n => tie'[i].group = 0
    BY OrphanedForms DEF Typed
  <2> QED BY <2>1 DEF TiesFair
<1>2. ASSUME NEW s \in Requests, req'[s].round = n PROVE RequestFair(n, req[s])'
  <2>1. CASE req'[s] = NoRequest
    BY <2>1, IdleRequest DEF RequestFair
  <2>2. CASE req'[s] = Interrupted(n)[s]
    <3>0. TypeOK
      BY DEF Typed
    <3>1. PICK q : q = Interrupted(n)[s] /\ q = req'[s]
      BY <2>2
    <3>2. /\ Interrupted(n)[s].pc = "write" => Interrupted(n)[s].round # n
          /\ Interrupted(n)[s].pc \in {"idle", req[s].pc}
          /\ Interrupted(n)[s].pc # "idle" => Interrupted(n)[s].round = req[s].round
      BY <3>0, InterruptedForms
    <3>3. CASE q.pc = "pause"
      <4>1. \A t \in q.ties : t[1] = 0
        <5>1. req[s].pc = "pause" /\ req[s].round = n
          BY <1>2, <3>1, <3>2, <3>3
        <5>2. PICK ties : ties = {<<0, t[2]>> : t \in req[s].ties}
          OBVIOUS
        <5>3. q = [req[s] EXCEPT !.ties = ties]
          BY <3>1, <5>1, <5>2 DEF Interrupted
        <5>4. req[s] = Request(req[s].pc, req[s].round, req[s].order, req[s].ties)
          BY DEF Typed, TypeOK, RequestOK, Request
        <5>5. q = Request(req[s].pc, req[s].round, req[s].order, ties)
          BY <5>3, <5>4, RequestFields
        <5>6. q.ties = ties
          BY <5>5, RequestFields
        <5> QED BY <5>2, <5>6
      <4>2. NewTies(n, q.ties)'
        BY <4>1 DEF NewTies
      <4> QED BY <3>1, <3>3, <4>2 DEF RequestFair
    <3>4. CASE q.pc # "pause"
      BY <1>2, <3>1, <3>2, <3>4 DEF RequestFair
    <3> QED BY <3>3, <3>4
  <2> QED BY <1>2, <2>1, <2>2
<1> QED BY <1>1, <1>2 DEF Judged

\* The rounds whose groups stay.
LEMMA JudgedBeside ==
  ASSUME Typed, \A k \in 1..3 : Judged(k), NEW n \in 1..3, NEW k \in 1..3 \ {n},
         NEW members \in SUBSET (GroupIds \X Teams), row' = Replaced(n, members),
         tie' = Orphaned(n), SameQuals(k), status'[k] = "COMPLETED" => status[k] = "COMPLETED",
         \A s \in Requests : req'[s] \in {Interrupted(n)[s], NoRequest}
  PROVE  Judged(k)'
<1>1. SameTies(k)
  BY OrphansElsewhere DEF Typed
<1>2. row \subseteq RowRecord /\ n \in Rounds /\ k \in Rounds \ {n}
  BY DEF Typed, TypeOK, RowRecord, Rounds
<1>3. Groups(k)' = Groups(k) /\ \A g : GroupRows(k, g)' = GroupRows(k, g)
  BY <1>2, ReplacedRows
<1>4. ASSUME NEW s \in Requests, req'[s].round = k
      PROVE  req'[s] = req[s]
  <2>1. req'[s] # NoRequest
    BY <1>4, IdleRequest
  <2>2. req'[s] = Interrupted(n)[s]
    BY <2>1
  <2>3. CASE req[s].round = n /\ req[s].pc = "write"
    BY <2>1, <2>2, <2>3 DEF Interrupted
  <2>4. CASE req[s].round = n /\ req[s].pc = "pause"
    <3>1. Interrupted(n)[s].pc # "idle" => Interrupted(n)[s].round = n
      BY <2>4, OthersInterrupted
    <3>2. Interrupted(n)[s].pc = "idle" => FALSE
      <4>1. PICK ties : ties = {<<0, t[2]>> : t \in req[s].ties}
        OBVIOUS
      <4>2. Interrupted(n)[s] = [req[s] EXCEPT !.ties = ties]
        BY <2>4, <4>1 DEF Interrupted
      <4>3. req[s] = Request(req[s].pc, req[s].round, req[s].order, req[s].ties)
        BY DEF Typed, TypeOK, RequestOK, Request
      <4>4. Interrupted(n)[s] = Request(req[s].pc, req[s].round, req[s].order, ties)
        BY <4>2, <4>3, RequestFields
      <4> QED BY <2>4, <4>4, RequestFields
    <3> QED BY <1>4, <2>2, <3>1, <3>2
  <2>5. CASE ~(req[s].round = n /\ req[s].pc \in {"write", "pause"})
    BY <2>2, <2>5 DEF Interrupted
  <2> QED BY <2>3, <2>4, <2>5
<1> QED BY <1>1, <1>3, <1>4, JudgedKept DEF Typed

LEMMA JudgedGenerate1 ==
  ASSUME Typed, \A k \in 1..3 : Judged(k), GenerateRound1
  PROVE  \A k \in 1..3 : Judged(k)'
<1>1. PICK shuffled \in [Teams -> 1..G1] : row' = Replaced(1, {<<shuffled[t], t>> : t \in Teams})
  BY DEF GenerateRound1
<1>2. PICK members : members = {<<shuffled[t], t>> : t \in Teams}
  OBVIOUS
<1>3. members \in SUBSET (GroupIds \X Teams) /\ row' = Replaced(1, members)
  <2>1. \A t \in Teams : shuffled[t] \in GroupIds
    BY GroupIdsFinite
  <2> QED BY <1>1, <1>2, <2>1
<1>4. /\ tie' = Orphaned(1) /\ req' = Interrupted(1) /\ status' = [status EXCEPT ![1] = "LIVE"]
      /\ qual' = qual
  BY DEF GenerateRound1
<1>5. DOMAIN status = Rounds
  BY StatusTyped
<1>6. status'[1] = "LIVE" /\ \A k \in 1..3 \ {1} : status'[k] = status[k]
  BY <1>4, <1>5 DEF Rounds
<1>7. Judged(1)'
  BY <1>4, <1>6, JudgedGenerated
<1>8. ASSUME NEW k \in 1..3 \ {1} PROVE Judged(k)'
  <2>1. SameQuals(k)
    BY <1>4, Unchanged
  <2> QED BY <1>3, <1>4, <1>6, <2>1, JudgedBeside
<1> QED BY <1>7, <1>8

LEMMA JudgedGenerate3 ==
  ASSUME Typed, \A k \in 1..3 : Judged(k), GenerateRound3
  PROVE  \A k \in 1..3 : Judged(k)'
<1>1. /\ Round3Members \in SUBSET (GroupIds \X Teams)
      /\ status' = [status EXCEPT ![3] = "LIVE"] /\ row' = Replaced(3, Round3Members)
      /\ tie' = Orphaned(3) /\ req' = Interrupted(3) /\ qual' = qual
  BY Round3Forms DEF Typed
<1>2. PICK members : members = Round3Members
  OBVIOUS
<1>3. DOMAIN status = Rounds
  BY StatusTyped
<1>4. status'[3] = "LIVE" /\ \A k \in 1..3 \ {3} : status'[k] = status[k]
  BY <1>1, <1>3 DEF Rounds
<1>5. Judged(3)'
  BY <1>1, <1>4, JudgedGenerated
<1>6. ASSUME NEW k \in 1..3 \ {3} PROVE Judged(k)'
  <2>1. SameQuals(k)
    BY <1>1, Unchanged
  <2> QED BY <1>1, <1>2, <1>4, <2>1, JudgedBeside
<1> QED BY <1>5, <1>6

LEMMA JudgedScores ==
  ASSUME "rescore" \notin Env, Typed, \A k \in 1..3 : Judged(k), NEW n \in 1..3,
         NEW g \in Groups(n), NEW pts \in Scores(TeamsOf(n, g)), SubmitScores(n, g, pts)
  PROVE  \A k \in 1..3 : Judged(k)'
<1>1. /\ status[n] = "LIVE" /\ ~Busy(n) /\ \A i \in DOMAIN tie : tie[i].round # n
      /\ UNCHANGED <<status, qual, tie, req>>
  BY DEF SubmitScores
<1>2. Judged(n)'
  <2>1. TiesFair(n)'
    BY <1>1 DEF TiesFair
  <2>2. ASSUME NEW s \in Requests, req'[s].round = n PROVE RequestFair(n, req[s])'
    <3>1. req'[s].pc = "idle"
      BY <1>1, <2>2 DEF Busy
    <3> QED BY <3>1 DEF RequestFair
  <2> QED BY <1>1, <2>1, <2>2 DEF Judged
<1>3. PICK f \in [row -> row'] :
            /\ row' = {f[x] : x \in row}
            /\ \A x \in row : /\ f[x].round = x.round /\ f[x].group = x.group
                              /\ x.round # n \/ x.group # g => f[x] = x
  BY ScoreRows DEF Typed
<1>4. ASSUME NEW k \in 1..3 \ {n} PROVE Judged(k)'
  <2>1. \A x : x \in row' /\ x.round = k <=> x \in row /\ x.round = k
    BY <1>3
  <2>2. \A h : GroupRows(k, h)' = GroupRows(k, h)
    BY <2>1 DEF GroupRows
  <2>3. Groups(k)' = Groups(k)
    BY ScoreRows DEF Typed
  <2>4. SameTies(k) /\ SameQuals(k)
    BY <1>1, Unchanged
  <2> QED BY <1>1, <2>2, <2>3, <2>4, JudgedKept DEF Typed
<1> QED BY <1>2, <1>4

LEMMA JudgedPause ==
  ASSUME Typed, Typed', OneBusy, \A k \in 1..3 : Judged(k), NEW r \in Requests, PauseWrite(r)
  PROVE  \A k \in 1..3 : Judged(k)'
<1>1. PICK n, ties : n \in 1..3 /\ n = req[r].round /\ ties = req[r].ties
  BY PauseForms
<1>2. /\ req[r].pc = "pause"
      /\ DOMAIN tie \subseteq DOMAIN tie' /\ \A i \in DOMAIN tie : tie'[i] = tie[i]
      /\ \A i \in DOMAIN tie' \ DOMAIN tie : \E t \in ties : tie'[i] = NewTie(n, t)
      /\ \A i, j \in DOMAIN tie' \ DOMAIN tie : tie'[i] = tie'[j] => i = j
      /\ status' = [status EXCEPT ![n] = "TIE_BREAKER_PENDING"]
      /\ req' = [req EXCEPT ![r] = NoRequest]
      /\ UNCHANGED <<row, qual>>
  BY <1>1, PauseForms
<1>3. \A s \in Requests : req'[s] = IF s = r THEN NoRequest ELSE req[s]
  BY <1>2, StatusTyped
<1>4. status'[n] = "TIE_BREAKER_PENDING" /\ \A k \in 1..3 \ {n} : status'[k] = status[k]
  BY <1>1, <1>2, StatusTyped DEF Rounds
<1>5. \A i \in DOMAIN tie' \ DOMAIN tie : \E t \in ties :
          /\ tie'[i].round = n /\ tie'[i].group = t[1] /\ tie'[i].tied = t[2]
          /\ tie'[i].selected = None /\ tie'[i] = NewTie(n, t)
  BY <1>2 DEF NewTie
<1>6. TiesFair(n) /\ NewTies(n, ties)
  BY <1>1, <1>2 DEF Judged, RequestFair
<1>7. \A T, g : CutoffTie(n, g, T)' <=> CutoffTie(n, g, T)
  BY <1>2, Unchanged, ScoresSame
<1>8. ASSUME NEW i \in DOMAIN tie', tie'[i].round = n, tie'[i].group # 0
      PROVE  /\ CutoffTie(n, tie[i].group, tie[i].tied)'
             /\ tie'[i].selected \in tie'[i].tied \cup {None}
  <2>1. PICK g, T : g = tie'[i].group /\ T = tie'[i].tied
    OBVIOUS
  <2>2. CutoffTie(n, g, T) /\ tie'[i].selected \in T \cup {None}
    <3>1. CASE i \in DOMAIN tie
      BY <1>2, <1>6, <1>8, <2>1, <3>1 DEF TiesFair
    <3>2. CASE i \notin DOMAIN tie
      <4>1. PICK t \in ties : g = t[1] /\ T = t[2] /\ tie'[i].selected = None
        BY <1>5, <2>1, <3>2
      <4> QED BY <1>6, <1>8, <2>1, <4>1 DEF NewTies
    <3> QED BY <3>1, <3>2
  <2>3. CutoffTie(n, g, T)'
    BY <1>7, <2>2
  <2> QED BY <2>1, <2>2, <2>3
<1>9. ASSUME NEW i \in DOMAIN tie', NEW j \in DOMAIN tie', tie'[i].round = n, tie'[j].round = n,
             tie'[i].group # 0, tie'[i].group = tie'[j].group, tie'[i].tied = tie'[j].tied
      PROVE  i = j
  <2>1. ASSUME NEW a \in DOMAIN tie, NEW b \in DOMAIN tie' \ DOMAIN tie, tie'[a].round = n,
               tie'[a].group # 0, tie'[a].group = tie'[b].group, tie'[a].tied = tie'[b].tied
        PROVE  FALSE
    <3>1. PICK t \in ties : tie'[b].group = t[1] /\ tie'[b].tied = t[2]
      BY <1>5
    <3>2. TieOf(a, n, t[1]) /\ tie[a].tied = t[2] /\ t[1] # 0
      BY <1>2, <2>1, <3>1 DEF TieOf
    <3> QED BY <1>6, <3>2 DEF NewTies
  <2>2. CASE i \in DOMAIN tie /\ j \in DOMAIN tie
    BY <1>2, <1>6, <1>9, <2>2 DEF TiesFair
  <2>3. CASE i \notin DOMAIN tie /\ j \notin DOMAIN tie
    <3>1. PICK t \in ties : tie'[i].group = t[1] /\ tie'[i].tied = t[2] /\ tie'[i] = NewTie(n, t)
      BY <1>5, <2>3
    <3>2. PICK u \in ties : tie'[j].group = u[1] /\ tie'[j].tied = u[2] /\ tie'[j] = NewTie(n, u)
      BY <1>5, <2>3
    <3>3. NewTie(n, t) = NewTie(n, u)
      BY <1>9, <3>1, <3>2 DEF NewTie
    <3> QED BY <1>2, <2>3, <3>1, <3>2, <3>3
  <2> QED BY <1>9, <2>1, <2>2, <2>3
<1>10. TiesFair(n)'
  BY <1>8, <1>9 DEF TiesFair
<1>11. ASSUME NEW s \in Requests, req'[s].round = n PROVE RequestFair(n, req[s])'
  <2>1. req'[s].pc = "idle"
    <3>1. CASE s = r
      BY <1>3, <3>1, IdleRequest
    <3>2. CASE s # r
      BY <1>1, <1>2, <1>3, <1>11, <3>2 DEF OneBusy
    <3> QED BY <3>1, <3>2
  <2> QED BY <2>1 DEF RequestFair
<1>12. Judged(n)'
  BY <1>4, <1>10, <1>11 DEF Judged
<1>13. ASSUME NEW k \in 1..3 \ {n} PROVE Judged(k)'
  <2>1. SameTies(k)
    <3>1. ASSUME NEW i, NEW g
          PROVE  /\ TieOf(i, k, g)' <=> TieOf(i, k, g)
                 /\ TieOf(i, k, g) => tie'[i] = tie[i]
      BY <1>2, <1>5 DEF TieOf
    <3> QED BY <3>1 DEF SameTies
  <2>2. /\ SameQuals(k) /\ Groups(k)' = Groups(k)
        /\ \A g : GroupRows(k, g)' = GroupRows(k, g)
    BY <1>2, Unchanged
  <2>3. \A s \in Requests : req'[s].round = k => req'[s] = req[s]
    BY <1>3, IdleRequest
  <2> QED BY <1>4, <2>1, <2>2, <2>3, JudgedKept DEF Typed
<1> QED BY <1>12, <1>13

LEMMA TieHasGroup ==
  ASSUME Typed, NEW n \in 1..3, TiesFair(n), NEW i \in DOMAIN tie, tie[i].round = n,
         tie[i].group # 0
  PROVE  tie[i].group \in Groups(n)
<1>1. PICK g : g = tie[i].group
  OBVIOUS
<1>2. CutoffTie(n, g, tie[i].tied)
  BY <1>1 DEF TiesFair
<1>3. PICK k \in CutoffSet(n) : \E p \in Ranked(n, g) : TiedAt(n, g, p, k)
  BY <1>2 DEF CutoffTie
<1>4. PICK p \in Ranked(n, g) : TiedAt(n, g, p, k)
  BY <1>3
<1>5. PICK m : Line(n, g, p, m)
  BY <1>4, RankedForms DEF Typed
<1>6. p[k + 1] \in TeamsOf(n, g)
  BY <1>4, <1>5 DEF TiedAt, Line
<1> QED BY <1>1, <1>6 DEF TeamsOf, GroupRows, Groups

\* While a round is completed, its tie-breakers with a group have all been resolved.
LEMMA SettledResolved ==
  ASSUME Typed, NEW n \in 1..3, TiesFair(n), Settled(n), NEW i \in DOMAIN tie, tie[i].round = n,
         tie[i].group # 0
  PROVE  tie[i].selected # None
<1>1. PICK g : g = tie[i].group /\ TieOf(i, n, g) /\ g \in Groups(n)
  BY TieHasGroup DEF TieOf
<1>2. PICK order : FairOrders(n, order)
  BY DEF Settled
<1>3. Fair(n, g, order[g])
  BY <1>1, <1>2 DEF FairOrders
<1> QED BY <1>1, <1>3 DEF Fair

LEMMA JudgedResolve ==
  ASSUME {"advanceRace", "resolveAgain"} \cap Env = {}, Typed, \A k \in 1..3 : Judged(k),
         NEW r \in Requests, NEW i \in DOMAIN tie, NEW t \in Teams, ResolveTie(r, i, t)
  PROVE  \A k \in 1..3 : Judged(k)'
<1>1. PICK n \in 1..3 : n = tie[i].round
  BY ResolveForms
<1>2. /\ t \in tie[i].tied /\ tie[i].selected = None /\ ~Busy(n) /\ DOMAIN tie' = DOMAIN tie
      /\ \A j \in DOMAIN tie :
            /\ tie'[j].round = tie[j].round /\ tie'[j].group = tie[j].group
            /\ tie'[j].tied = tie[j].tied
            /\ tie'[j].selected = IF j = i THEN t ELSE tie[j].selected
      /\ req[r].pc = "idle" /\ req' = [req EXCEPT ![r] = Counting(n)]
      /\ UNCHANGED <<status, row, qual>>
  BY <1>1, ResolveForms
<1>3. \A s \in Requests : req'[s] = IF s = r THEN Counting(n) ELSE req[s]
  BY <1>2, StatusTyped
<1>4. \A k : /\ SameQuals(k) /\ Groups(k)' = Groups(k)
             /\ \A g : GroupRows(k, g)' = GroupRows(k, g)
  BY <1>2, Unchanged
<1>5. ASSUME NEW k, k # n \/ tie[i].group = 0 PROVE SameTies(k)
  BY <1>1, <1>2, <1>5 DEF SameTies, TieOf
<1>6. ASSUME NEW k \in 1..3 \ {n} PROVE Judged(k)'
  <2>1. \A s \in Requests : req'[s].round = k => req'[s] = req[s]
    BY <1>3, CountingTypes
  <2>2. SameTies(k)
    BY <1>5
  <2> QED BY <1>2, <1>4, <2>1, <2>2, JudgedKept DEF Typed
<1>7. Judged(n)'
  <2>1. TiesFair(n)'
    <3>1. TiesFair(n)
      BY DEF Judged
    <3>2. ASSUME NEW j \in DOMAIN tie', tie'[j].round = n, tie'[j].group # 0
          PROVE  /\ CutoffTie(n, tie[j].group, tie[j].tied)'
                 /\ tie'[j].selected \in tie'[j].tied \cup {None}
      <4>1. PICK g, T : g = tie'[j].group /\ T = tie'[j].tied
        OBVIOUS
      <4>2. /\ j \in DOMAIN tie /\ tie[j].round = n /\ tie[j].group = g /\ tie[j].tied = T
            /\ tie'[j].selected = IF j = i THEN t ELSE tie[j].selected
        BY <1>2, <3>2, <4>1
      <4>3. CutoffTie(n, g, T) /\ tie[j].selected \in T \cup {None}
        BY <3>1, <3>2, <4>1, <4>2 DEF TiesFair
      <4>4. CutoffTie(n, g, T)'
        BY <1>4, <4>3, ScoresSame
      <4>5. tie'[j].selected \in T \cup {None}
        BY <1>2, <4>2, <4>3
      <4> QED BY <4>1, <4>4, <4>5
    <3>3. \A j, k \in DOMAIN tie' :
            /\ tie'[j].round = n /\ tie'[k].round = n
            /\ tie'[j].group # 0 /\ tie'[j].group = tie'[k].group /\ tie'[j].tied = tie'[k].tied
            => j = k
      BY <1>2, <3>1 DEF TiesFair
    <3> QED BY <3>2, <3>3 DEF TiesFair
  <2>2. ASSUME NEW s \in Requests, req'[s].round = n PROVE RequestFair(n, req[s])'
    <3>1. req'[s].pc \in {"idle", "count"}
      BY <1>2, <1>3, <2>2, CountingTypes DEF Busy
    <3> QED BY <3>1 DEF RequestFair
  <2>3. ASSUME status'[n] = "COMPLETED" PROVE Settled(n)'
    <3>1. Settled(n) /\ TiesFair(n)
      BY <1>2, <2>3 DEF Judged
    <3>2. tie[i].group = 0
      BY <1>1, <1>2, <3>1, SettledResolved
    <3>3. SameTies(n)
      BY <1>5, <3>2
    <3> QED BY <1>4, <3>1, <3>3, SettledSame DEF Typed
  <2> QED BY <2>1, <2>2, <2>3 DEF Judged
<1> QED BY <1>6, <1>7

LEMMA JudgedCount ==
  ASSUME Typed, \A k \in 1..3 : Judged(k), NEW r \in Requests, CountPending(r)
  PROVE  \A k \in 1..3 : Judged(k)'
<1>1. UNCHANGED <<status, row, qual, tie>>
  BY DEF CountPending
<1>2. PICK q : q.pc \in {"idle", "advance"} /\ req' = [req EXCEPT ![r] = q]
  BY CountForms, IdleRequest
<1>3. \A s \in Requests : req'[s] = IF s = r THEN q ELSE req[s]
  BY <1>2, StatusTyped
<1>4. \A n : RequestFair(n, q)
  BY <1>2 DEF RequestFair
<1>5. \A s \in Requests : \/ req'[s] = req[s]
                          \/ \A n \in 1..3 : req'[s].round = n => RequestFair(n, req'[s])
  BY <1>3, <1>4
<1> QED BY <1>1, <1>5, JudgedRequest DEF Typed

\* What was written about a round is the ranking the request carried.
LEMMA WrittenSettles ==
  ASSUME Seeded, \A k \in 1..3 : Judged(k), NEW r \in Requests, AdvanceWrite(r),
         NEW n \in 1..3, n = req[r].round, Groups(n)' = Groups(n),
         \A g : GroupRows(n, g)' = GroupRows(n, g), SameTies(n)
  PROVE  Settled(n)'
<1>1. PICK order : order = req[r].order
  OBVIOUS
<1>2. /\ req[r].pc = "write" /\ Apart(order)
      /\ \A p \in qual' : p \in qual \/
           \E g \in DOMAIN order : \E i \in DOMAIN order[g] :
              /\ p = Qualify(n, order[g][i], To(n, i), FALSE)
              /\ p.round = n /\ p.team = order[g][i] /\ p.to = To(n, i) /\ ~p.manual
      /\ \A g \in DOMAIN order : \A i \in DOMAIN order[g] :
           Qualify(n, order[g][i], To(n, i), FALSE) \in qual'
  BY <1>1, NewRows, WriteForms
<1>3. FairOrders(n, order)
  BY <1>1, <1>2 DEF Judged, RequestFair
<1>4. FairOrders(n, order)'
  BY <1>3, FairOrdersSame DEF Seeded, Progress, Waiting, Typed
<1>5. \A p \in qual : ~p.manual => p.round # n
  <2>1. status[n] # "COMPLETED"
    BY <1>2, AloneAtWork DEF Seeded
  <2> QED BY <2>1 DEF Seeded, Decided
<1>6. ASSUME NEW g \in DOMAIN order, NEW i \in DOMAIN order[g]
      PROVE  Placed(n, order[g][i], To(n, i))'
  <2>1. PICK p : p = Qualify(n, order[g][i], To(n, i), FALSE)
    OBVIOUS
  <2>2. p \in qual' /\ p.round = n /\ p.team = order[g][i] /\ ~p.manual
    <3>1. p \in qual'
      BY <1>2, <2>1
    <3>2. p.round = n /\ p.team = order[g][i] /\ ~p.manual
      BY <2>1 DEF Qualify
    <3> QED BY <3>1, <3>2
  <2>3. ASSUME NEW q \in qual', q.round = n, q.team = order[g][i], ~q.manual
        PROVE  q.to = To(n, i)
    <3>1. q \notin qual
      BY <1>5, <2>3
    <3>2. PICK h \in DOMAIN order : \E j \in DOMAIN order[h] :
             q.team = order[h][j] /\ q.to = To(n, j)
      BY <1>2, <3>1
    <3>3. PICK j \in DOMAIN order[h] : q.team = order[h][j] /\ q.to = To(n, j)
      BY <3>2
    <3>4. i = j
      <4>1. order[g][i] = order[h][j] /\ Apart(order)
        BY <1>2, <2>3, <3>3
      <4> QED BY <4>1 DEF Apart
    <3> QED BY <3>3, <3>4
  <2> QED BY <2>2, <2>3 DEF Placed, To
<1>7. AllPlaced(n, order)'
  BY <1>6 DEF AllPlaced, To
<1> QED BY <1>4, <1>7 DEF Settled

LEMMA JudgedWrite ==
  ASSUME Seeded, \A k \in 1..3 : Judged(k), NEW r \in Requests, AdvanceWrite(r)
  PROVE  \A k \in 1..3 : Judged(k)'
<1>1. PICK n, order : n \in 1..3 /\ n = req[r].round /\ order = req[r].order
  BY NewRows
<1>2. Typed
  BY DEF Seeded, Progress, Waiting
<1>3. /\ req[r].pc = "write"
      /\ \A s \in Requests \ {r} : req[s].pc # "idle" => req[s].round # n
  BY <1>1, AloneAtWork, WriteForms DEF Seeded
<1>4. DOMAIN status = Rounds /\ DOMAIN req = Requests
  BY <1>2, StatusTyped
<1>5. \A k \in 1..3 \ {n} : SameQuals(k)
  <2>1. \A p \in qual' : p \in qual \/ p.round = n
    BY <1>1, NewRows
  <2>2. qual \subseteq qual'
    BY WriteForms
  <2> QED BY <2>1, <2>2 DEF SameQuals
<1>6. ASSUME Groups(n)' = Groups(n), \A g : GroupRows(n, g)' = GroupRows(n, g), SameTies(n),
             \A s \in Requests : req'[s].round = n => req'[s].pc \notin {"pause", "write"}
      PROVE  Judged(n)'
  <2>1. TiesFair(n)'
    BY <1>1, <1>6, TiesFairSame DEF Judged
  <2>2. ASSUME NEW s \in Requests, req'[s].round = n PROVE RequestFair(n, req[s])'
    BY <1>6, <2>2 DEF RequestFair
  <2>3. Settled(n)'
    BY <1>1, <1>6, WrittenSettles
  <2> QED BY <2>1, <2>2, <2>3 DEF Judged
<1>7. CASE n = 1
  <2>1. /\ status' = [status EXCEPT ![1] = "COMPLETED", ![2] = "LIVE"]
        /\ row' = Replaced(2, Snake(order)) /\ tie' = Orphaned(2)
        /\ req' = [Interrupted(2) EXCEPT ![r] = NoRequest]
    BY <1>1, <1>7, WriteForms
  <2>2. PICK members : members = Snake(order)
    OBVIOUS
  <2>3. members \in SUBSET (GroupIds \X Teams)
    <3>1. PICK q : q = req[r] /\ q.round = 1
      BY <1>1, <1>7
    <3>2. q.pc = "write" /\ RequestOK(q) /\ OrderRanks(q) /\ q.order = order
      BY <1>1, <1>3, <3>1, NewRows
    <3> QED BY <2>2, <3>1, <3>2, SnakeTypes
  <2>4. \A s \in Requests : req'[s] = IF s = r THEN NoRequest ELSE Interrupted(2)[s]
    BY <1>4, <2>1 DEF Interrupted
  <2>5. \A s \in Requests : req'[s] \in {Interrupted(2)[s], NoRequest}
    BY <2>4
  <2>6. status'[2] = "LIVE" /\ status'[3] = status[3]
    BY <1>4, <2>1 DEF Rounds
  <2>7. Judged(2)'
    BY <1>2, <2>1, <2>5, <2>6, JudgedGenerated
  <2>8. Judged(3)'
    <3>1. SameQuals(3)
      BY <1>5, <1>7
    <3>2. 2 \in 1..3 /\ 3 \in 1..3 \ {2} /\ row' = Replaced(2, members) /\ tie' = Orphaned(2)
      BY <2>1, <2>2
    <3> QED BY <1>2, <2>3, <2>5, <2>6, <3>1, <3>2, JudgedBeside
  <2>9. Judged(1)'
    <3>1. row \subseteq RowRecord /\ 2 \in Rounds /\ 1 \in Rounds \ {2}
      BY <1>2 DEF Typed, TypeOK, RowRecord, Rounds
    <3>2. row' = Replaced(2, members)
      BY <2>1, <2>2
    <3>3. Groups(1)' = Groups(1) /\ \A g : GroupRows(1, g)' = GroupRows(1, g)
      BY <2>3, <3>1, <3>2, ReplacedRows
    <3>4. SameTies(1)
      BY <1>2, <2>1, OrphansElsewhere DEF Typed
    <3>5. ASSUME NEW s \in Requests, req'[s].round = 1
          PROVE  req'[s].pc \notin {"pause", "write"}
      <4>1. CASE s = r
        BY <2>4, <4>1, IdleRequest
      <4>2. CASE s # r
        <5>1. req'[s] = Interrupted(2)[s]
          BY <2>4, <4>2
        <5>2. Interrupted(2)[s].pc # "idle" => /\ req[s].pc = Interrupted(2)[s].pc
                                               /\ req[s].round = Interrupted(2)[s].round
          BY <1>2, OthersInterrupted
        <5> QED BY <1>3, <1>7, <3>5, <4>2, <5>1, <5>2
      <4> QED BY <4>1, <4>2
    <3> QED BY <1>6, <1>7, <3>3, <3>4, <3>5
  <2> QED BY <2>7, <2>8, <2>9
<1>8. CASE n # 1
  <2>1. /\ status' = [status EXCEPT ![n] = "COMPLETED"]
        /\ req' = [req EXCEPT ![r] = NoRequest] /\ UNCHANGED <<row, tie>>
    BY <1>1, <1>8, WriteForms
  <2>2. \A s \in Requests : req'[s] = IF s = r THEN NoRequest ELSE req[s]
    BY <1>4, <2>1
  <2>3. \A k \in 1..3 \ {n} : status'[k] = status[k]
    BY <1>4, <2>1 DEF Rounds
  <2>4. \A k : /\ SameTies(k) /\ Groups(k)' = Groups(k)
               /\ \A g : GroupRows(k, g)' = GroupRows(k, g)
    BY <2>1, Unchanged
  <2>5. Judged(n)'
    <3>1. \A s \in Requests : req'[s].round = n => req'[s].pc \notin {"pause", "write"}
      BY <1>3, <2>2, IdleRequest
    <3> QED BY <1>6, <2>4, <3>1
  <2>6. ASSUME NEW k \in 1..3 \ {n} PROVE Judged(k)'
    <3>1. \A s \in Requests : req'[s].round = k => req'[s] = req[s]
      BY <2>2, IdleRequest
    <3> QED BY <1>2, <1>5, <2>3, <2>4, <3>1, JudgedKept DEF Typed
  <2> QED BY <2>5, <2>6
<1> QED BY <1>7, <1>8

\* Steps that neither score nor decide.
LEMMA JudgedPlain ==
  ASSUME Typed, \A k \in 1..3 : Judged(k), UNCHANGED <<tie, req>>,
         \A k \in 1..3 : /\ SameQuals(k) /\ status'[k] = status[k] /\ Groups(k)' = Groups(k)
                         /\ \A g : GroupRows(k, g)' = GroupRows(k, g)
  PROVE  \A k \in 1..3 : Judged(k)'
<1>1. ASSUME NEW k \in 1..3 PROVE Judged(k)'
  <2>1. SameTies(k)
    BY Unchanged
  <2> QED BY <2>1, JudgedKept DEF Typed
<1> QED BY <1>1

LEMMA JudgedFill ==
  ASSUME Typed, \A k \in 1..3 : Judged(k), NEW t \in Teams, FillGrandFinal(t)
  PROVE  \A k \in 1..3 : Judged(k)'
<1>1. PICK x : qual' = qual \cup {x} /\ x.round = 0 /\ x.manual
  BY FillForms
<1>2. UNCHANGED <<status, row, tie, req>>
  BY FillForms
<1>3. \A k \in 1..3 : SameQuals(k)
  BY <1>1 DEF SameQuals
<1> QED BY <1>2, <1>3, Unchanged, JudgedPlain

LEMMA JudgedFinal ==
  ASSUME Typed, \A k \in 1..3 : Judged(k), NEW invited \in {{}} \cup {{t} : t \in Teams},
         AssembleGrandFinal(invited)
  PROVE  \A k \in 1..3 : Judged(k)'
<1>1. PICK finalists \in SUBSET Teams :
           /\ row' = Replaced(4, {<<1, t>> : t \in finalists})
           /\ {<<1, t>> : t \in finalists} \in SUBSET (GroupIds \X Teams)
           /\ status' = [status EXCEPT ![4] = "LIVE"]
           /\ UNCHANGED <<qual, tie, wild, req>>
  BY GrandFinalForms
<1>2. row \subseteq RowRecord /\ 4 \in Rounds /\ \A k \in 1..3 : k \in Rounds \ {4}
  BY DEF Typed, TypeOK, RowRecord, Rounds
<1>3. \A k \in 1..3 : Groups(k)' = Groups(k) /\ \A g : GroupRows(k, g)' = GroupRows(k, g)
  BY <1>1, <1>2, ReplacedRows
<1>4. \A k \in 1..3 : status'[k] = status[k]
  BY <1>1, StatusTyped
<1>5. \A k : SameQuals(k)
  BY <1>1, Unchanged
<1> QED BY <1>1, <1>3, <1>4, <1>5, JudgedPlain

\* Every round is judged by the scores and the ties it was advanced on.
Merit == Seeded /\ \A n \in 1..3 : Judged(n)

LEMMA MeritStep ==
  ASSUME Env = {}, Merit, [Next]_vars
  PROVE  Merit'
<1>1. Seeded' /\ Seeded /\ \A k \in 1..3 : Judged(k)
  BY SeededStep DEF Alone, Merit
<1>2. Typed /\ Typed' /\ OneBusy
  BY <1>1 DEF Seeded, Progress, Waiting
<1>3. CASE \/ OpenWildCard \/ CloseWildCard
           \/ \E t \in Teams, s \in 1..W : AssignWildCard(t, s)
           \/ \E s \in 1..W : RemoveWildCard(s)
           \/ UNCHANGED vars
  <2>1. UNCHANGED <<status, row, qual, tie, req>>
    BY <1>3 DEF OpenWildCard, CloseWildCard, AssignWildCard, RemoveWildCard, vars
  <2>2. \A k \in 1..3 : Judged(k)'
    BY <1>1, <1>2, <2>1, Unchanged, JudgedPlain
  <2> QED BY <1>1, <2>2 DEF Merit
<1>4. ASSUME \A k \in 1..3 : Judged(k)' PROVE Merit'
  BY <1>1, <1>4 DEF Merit
<1>5. TypeOK
  BY <1>2 DEF Typed
<1>6. ASSUME NEW r \in Requests, NEW n \in 1..3, AdvanceRead(r, n) PROVE Merit'
  BY <1>1, <1>4, <1>5, <1>6, JudgedRead
<1>7. ASSUME NEW r \in Requests, PauseWrite(r) PROVE Merit'
  BY <1>1, <1>2, <1>4, <1>7, JudgedPause
<1>8. ASSUME NEW r \in Requests, AdvanceWrite(r) PROVE Merit'
  BY <1>1, <1>4, <1>8, JudgedWrite
<1>9. ASSUME NEW r \in Requests, CountPending(r) PROVE Merit'
  BY <1>1, <1>2, <1>4, <1>9, JudgedCount
<1>10. ASSUME NEW r \in Requests, NEW i \in DOMAIN tie, NEW t \in Teams, ResolveTie(r, i, t)
       PROVE  Merit'
  BY <1>1, <1>2, <1>4, <1>10, JudgedResolve
<1>11. ASSUME NEW n \in 1..3, NEW g \in Groups(n), NEW pts \in Scores(TeamsOf(n, g)),
              SubmitScores(n, g, pts)
       PROVE  Merit'
  BY <1>1, <1>2, <1>4, <1>11, JudgedScores
<1>12. ASSUME NEW t \in Teams, FillGrandFinal(t) PROVE Merit'
  BY <1>1, <1>2, <1>4, <1>12, JudgedFill
<1>13. ASSUME NEW invited \in {{}} \cup {{t} : t \in Teams}, AssembleGrandFinal(invited)
       PROVE  Merit'
  BY <1>1, <1>2, <1>4, <1>13, JudgedFinal
<1>14. CASE GenerateRound1
  BY <1>1, <1>2, <1>4, <1>14, JudgedGenerate1
<1>15. CASE GenerateRound3
  BY <1>1, <1>2, <1>4, <1>15, JudgedGenerate3
<1> QED BY <1>3, <1>6, <1>7, <1>8, <1>9, <1>10, <1>11, <1>12, <1>13, <1>14, <1>15, Steps

LEMMA MeritInit == Init => Merit
<1> SUFFICES ASSUME Init PROVE Merit
  OBVIOUS
<1>1. \A r \in Requests : req[r].pc = "idle"
  BY DEF Init, NoRequest
<1>2. DOMAIN tie = {} /\ \A n \in 1..3 : status[n] = "NONE"
  BY DEF Init, Rounds
<1>3. \A n \in 1..3 : Judged(n)
  BY <1>1, <1>2 DEF Judged, TiesFair, RequestFair
<1> QED BY <1>3, SeededInit DEF Merit

\* Tie-breakers, rankings in flight and completed rounds all agree with the scores.
THEOREM MeritInvariant ==
  ASSUME Env = {}
  PROVE  Spec => []Merit
<1>1. Merit /\ [Next]_vars => Merit'
  BY MeritStep
<1> QED BY <1>1, MeritInit, PTL DEF Spec

\* What a team comes to is what its place in the ranking is worth.
LEMMA OutcomeOf ==
  ASSUME NEW n \in 1..3, NEW t, NEW p, Placed(n, t, To(n, p))
  PROVE  /\ \A a \in Outcome(n, t) : a = Class(n, p)
         /\ Class(n, p) \in Outcome(n, t)
<1>1. \A a \in Outcome(n, t) : a = Class(n, p)
  BY DEF Outcome, Placed, Class
<1>2. PICK q \in qual : q.round = n /\ q.team = t /\ ~q.manual /\ q.to = To(n, p)
  BY DEF Placed
<1>3. Better(q.to) \in Outcome(n, t)
  BY <1>2 DEF Outcome
<1> QED BY <1>1, <1>2, <1>3 DEF Class

LEMMA HigherOnMerit ==
  ASSUME TypeOK, NEW n \in 1..3, NEW g \in GroupIds, NEW f, Fair(n, g, f),
         NEW i \in DOMAIN f, NEW j \in DOMAIN f, Class(n, i) > Class(n, j)
  PROVE  \/ Pts(n, g, f[i]) > Pts(n, g, f[j])
         \/ /\ Pts(n, g, f[i]) = Pts(n, g, f[j])
            /\ \E x \in Selected : /\ tie[x].round = n /\ tie[x].group = g
                                   /\ {f[i], f[j]} \subseteq tie[x].tied
<1>1. f \in Ranked(n, g) /\ g # 0
  BY GroupIdsFinite DEF Fair
<1>2. PICK m : Line(n, g, f, m)
  BY <1>1, RankedForms
<1>3. /\ m \in Nat /\ DOMAIN f = 1..m
      /\ \A a \in 1..m : f[a] \in TeamsOf(n, g) /\ Pts(n, g, f[a]) \in Int
      /\ \A a, b \in 1..m : a <= b => Pts(n, g, f[a]) >= Pts(n, g, f[b])
  BY <1>2 DEF Line
<1>4. i \in 1..m /\ j \in 1..m /\ i \in Nat \ {0} /\ j \in Nat \ {0}
  BY <1>3
<1>5. PICK k \in CutoffSet(n) : i <= k /\ k < j
  BY <1>4, Classes
<1>6. k \in Nat \ {0}
  BY CutoffTyped
<1>7. k \in 1..m /\ k + 1 \in 1..m /\ k <= k + 1 /\ k + 1 <= j
  BY <1>3, <1>4, <1>5, <1>6
<1>8. /\ Pts(n, g, f[i]) >= Pts(n, g, f[k])
      /\ Pts(n, g, f[k]) >= Pts(n, g, f[k + 1])
      /\ Pts(n, g, f[k + 1]) >= Pts(n, g, f[j])
  BY <1>3, <1>4, <1>5, <1>7
<1>9. /\ Pts(n, g, f[i]) \in Int /\ Pts(n, g, f[j]) \in Int
      /\ Pts(n, g, f[k]) \in Int /\ Pts(n, g, f[k + 1]) \in Int
  BY <1>3, <1>4, <1>7
<1>10. CASE Pts(n, g, f[i]) # Pts(n, g, f[j])
  BY <1>8, <1>9, <1>10
<1>11. CASE Pts(n, g, f[i]) = Pts(n, g, f[j])
  <2>1. Pts(n, g, f[k]) = Pts(n, g, f[k + 1]) /\ Pts(n, g, f[i]) = Pts(n, g, f[k])
        /\ Pts(n, g, f[j]) = Pts(n, g, f[k])
    BY <1>8, <1>9, <1>11
  <2>2. TiedAt(n, g, f, k)
    BY <1>3, <1>7, <2>1 DEF TiedAt
  <2>3. PICK x \in DOMAIN tie : /\ TieOf(x, n, g) /\ tie[x].selected # None
                                /\ tie[x].tied = TiedWith(n, g, f[k])
    BY <2>2 DEF Fair
  <2>4. f[i] \in TiedWith(n, g, f[k]) /\ f[j] \in TiedWith(n, g, f[k])
    BY <1>3, <1>4, <2>1 DEF TiedWith
  <2>5. x \in Selected /\ tie[x].round = n /\ tie[x].group = g
    BY <1>1, <2>3 DEF Selected, TieOf
  <2> QED BY <1>11, <2>3, <2>4, <2>5
<1> QED BY <1>10, <1>11

LEMMA SettledOnMerit ==
  ASSUME Typed, NEW n \in 1..3, TiesFair(n), Settled(n)
  PROVE  /\ \A g \in Groups(n) : \A t, u \in TeamsOf(n, g) :
            (\E a \in Outcome(n, t), b \in Outcome(n, u) : a > b) =>
                \/ Pts(n, g, t) > Pts(n, g, u)
                \/ /\ Pts(n, g, t) = Pts(n, g, u)
                   /\ \E i \in Selected : /\ tie[i].round = n /\ tie[i].group = g
                                          /\ {t, u} \subseteq tie[i].tied
         /\ \A i \in Selected :
            tie[i].round = n => \E a \in Outcome(n, tie[i].selected) : a > 0
<1>1. PICK order : FairOrders(n, order) /\ AllPlaced(n, order)
  BY DEF Settled
<1>2. TypeOK
  BY DEF Typed
<1>3. ASSUME NEW g \in Groups(n)
      PROVE  Fair(n, g, order[g]) /\ g \in GroupIds
             /\ \A p \in DOMAIN order[g] : Placed(n, order[g][p], To(n, p))
  BY <1>1, <1>2, GroupTypes DEF FairOrders, AllPlaced
<1>4. ASSUME NEW g \in Groups(n), NEW t \in TeamsOf(n, g), NEW u \in TeamsOf(n, g),
             NEW a \in Outcome(n, t), NEW b \in Outcome(n, u), a > b
      PROVE  \/ Pts(n, g, t) > Pts(n, g, u)
             \/ /\ Pts(n, g, t) = Pts(n, g, u)
                /\ \E i \in Selected : /\ tie[i].round = n /\ tie[i].group = g
                                       /\ {t, u} \subseteq tie[i].tied
  <2>1. PICK f : f = order[g]
    OBVIOUS
  <2>2. /\ Fair(n, g, f) /\ g \in GroupIds
        /\ \A p \in DOMAIN f : Placed(n, f[p], To(n, p))
    BY <1>3, <2>1
  <2>3. PICK m : Line(n, g, f, m)
    BY <1>2, <2>2, RankedForms DEF Fair
  <2>4. PICK i \in DOMAIN f : f[i] = t
    BY <2>3 DEF Line
  <2>5. PICK j \in DOMAIN f : f[j] = u
    BY <2>3 DEF Line
  <2>6. a = Class(n, i) /\ b = Class(n, j)
    BY <2>2, <2>4, <2>5, OutcomeOf
  <2>7. Class(n, i) > Class(n, j)
    BY <1>4, <2>6
  <2> QED BY <1>2, <2>2, <2>4, <2>5, <2>7, HigherOnMerit
<1>5. ASSUME NEW i \in Selected, tie[i].round = n
      PROVE  \E a \in Outcome(n, tie[i].selected) : a > 0
  <2>1. PICK g : g = tie[i].group /\ g \in Groups(n) /\ TieOf(i, n, g)
    BY <1>5, TieHasGroup DEF Selected, TieOf
  <2>2. PICK f : f = order[g]
    OBVIOUS
  <2>3. Fair(n, g, f) /\ \A p \in DOMAIN f : Placed(n, f[p], To(n, p))
    BY <1>3, <2>1, <2>2
  <2>4. PICK p \in DOMAIN f : f[p] = tie[i].selected /\ Class(n, p) > 0
    BY <2>1, <2>3 DEF Fair, TieOf
  <2>5. Class(n, p) \in Outcome(n, tie[i].selected)
    BY <2>3, <2>4, OutcomeOf
  <2> QED BY <2>4, <2>5
<1> QED BY <1>4, <1>5

\* Nobody gets further than a team of his group that is as good, unless an admin has selected
\* him out of the tie they were in; whoever an admin selected advances.  Between the read that
\* ranks a group and the write that qualifies its teams anything may happen to the other
\* rounds, and tie-breakers may be found, resolved and lose their group in any order.
THEOREM MeritDecides ==
  ASSUME Env = {}
  PROVE  Spec => []AdvancesOnMerit
<1>1. Merit => AdvancesOnMerit
  <2>1. SUFFICES ASSUME Merit PROVE AdvancesOnMerit
    OBVIOUS
  <2>2. ASSUME NEW n \in 1..3, status[n] = "COMPLETED"
        PROVE  Typed /\ TiesFair(n) /\ Settled(n)
    BY <2>1, <2>2 DEF Merit, Judged, Seeded, Progress, Waiting
  <2>3. ASSUME NEW n \in {m \in 1..3 : status[m] = "COMPLETED"}
        PROVE  /\ \A g \in Groups(n) : \A t, u \in TeamsOf(n, g) :
                  (\E a \in Outcome(n, t), b \in Outcome(n, u) : a > b) =>
                      \/ Pts(n, g, t) > Pts(n, g, u)
                      \/ /\ Pts(n, g, t) = Pts(n, g, u)
                         /\ \E i \in Selected : /\ tie[i].round = n /\ tie[i].group = g
                                                /\ {t, u} \subseteq tie[i].tied
               /\ \A i \in Selected :
                  tie[i].round = n => \E a \in Outcome(n, tie[i].selected) : a > 0
    <3>1. n \in 1..3 /\ Typed /\ TiesFair(n) /\ Settled(n)
      BY <2>2, <2>3
    <3> QED BY <3>1, SettledOnMerit
  <2> QED BY <2>3 DEF AdvancesOnMerit
<1> QED BY <1>1, MeritInvariant, PTL
=============================================================================
