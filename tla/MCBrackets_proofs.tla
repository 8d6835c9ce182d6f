-------------------------- MODULE MCBrackets_proofs --------------------------
(***************************************************************************)
(* Proofs about the planned bracket, for any plan of full lobbies and any  *)
(* number of teams and requests.  It is the instance that MCBrackets       *)
(* explores beside the eight group bracket; what is proved of its own      *)
(* specification holds of the composition as well, since the bracket that  *)
(* is not played stutters.                                                 *)
(***************************************************************************)
EXTENDS MCBrackets, FunctionTheorems, FiniteSetTheorems, TLAPS

\* The cardinality that the instance brings along is the one of FiniteSets.
LEMMA SameCardinality == \A S : Ge!Cardinality(S) = Cardinality(S)
  BY DEF Ge!Cardinality, Cardinality

\* On the variables of each bracket, a behaviour of the composition is one of that bracket's own
\* specification: what is proved of the brackets holds of the whole that the run explores.
THEOREM EachBracketRuns == SpecAll => Spec /\ Ge!Spec
  <1>1. InitAll => Init /\ Ge!Init
    BY DEF InitAll
  <1>2. [NextAll]_allVars => [Next]_vars
    BY DEF NextAll, allVars, Bracket, Generic
  <1>3. [NextAll]_allVars => [Ge!Next]_(Ge!vars)
    BY DEF NextAll, allVars, geVars, Ge!vars, Bracket, Generic
  <1> QED
    BY <1>1, <1>2, <1>3, PTL DEF SpecAll, Spec, Ge!Spec

-----------------------------------------------------------------------------
(* The plan, and counting.                                                   *)

Lobby(n) == Plan[n].units \div Plan[n].groups

\* Every stage but the final has a next one, which takes what the groups let through.
LEMMA PlanShape ==
    /\ Ge!Stages \subseteq Nat \ {0}
    /\ \A n \in Ge!Stages : /\ Plan[n].units \in Nat /\ Plan[n].groups \in Nat \ {0}
                            /\ Plan[n].q \in Nat /\ Lobby(n) \in Nat \ {0}
                            /\ Plan[n].units = Plan[n].groups * Lobby(n)
                            /\ n + 1 \in Nat
    /\ \A n \in Ge!Stages : ~Ge!IsFinal(n) => /\ n + 1 \in Ge!Stages
                                              /\ Plan[n].q <= Lobby(n)
                                              /\ Plan[n + 1].units = Plan[n].groups * Plan[n].q
    /\ \A n \in Ge!Stages : n > 1 => n - 1 \in Ge!Stages /\ ~Ge!IsFinal(n - 1)
  <1>1. Ge!Stages = 1..Len(Plan) /\ Len(Plan) \in Nat
    BY PlanAssumption DEF Ge!Stages
  <1>2. ASSUME NEW n \in Ge!Stages
        PROVE  /\ Plan[n].units \in Nat \ {0} /\ Plan[n].groups \in Nat \ {0}
               /\ Plan[n].q \in Nat
    <2>1. \A R : Plan \in Seq(R) => Plan[n] \in R
      BY <1>1
    <2>2. Plan[n] \in [units : Nat \ {0}, groups : Nat \ {0}, q : Nat]
      BY <2>1, PlanAssumption
    <2> QED
      BY <2>2
  <1>3. \A a, b \in Nat \ {0} :
            a % b = 0 => a \div b \in Nat \ {0} /\ a = b * (a \div b)
    OBVIOUS
  <1>4. ASSUME NEW n \in Ge!Stages
        PROVE  Lobby(n) \in Nat \ {0} /\ Plan[n].units = Plan[n].groups * Lobby(n)
    BY <1>1, <1>2, <1>3, PlanAssumption DEF Lobby
  <1>5. ASSUME NEW n \in Ge!Stages, ~Ge!IsFinal(n)
        PROVE  /\ n + 1 \in Ge!Stages /\ Plan[n].q <= Lobby(n)
               /\ Plan[n + 1].units = Plan[n].groups * Plan[n].q
    BY <1>1, <1>5, PlanAssumption DEF Lobby, Ge!IsFinal
  <1>6. ASSUME NEW n \in Ge!Stages, n > 1
        PROVE  n - 1 \in Ge!Stages /\ ~Ge!IsFinal(n - 1)
    BY <1>1, <1>6 DEF Ge!IsFinal
  <1> QED
    BY <1>1, <1>2, <1>4, <1>5, <1>6

\* As many pairs as groups times places.
LEMMA PairsCount ==
    ASSUME NEW G \in Nat, NEW k \in Nat
    PROVE  IsFiniteSet((1..G) \X (1..k)) /\ Cardinality((1..G) \X (1..k)) = G * k
  <1>1. IsFiniteSet(1..G) /\ Cardinality(1..G) = G
    BY FS_Interval
  <1>2. IsFiniteSet(1..k) /\ Cardinality(1..k) = k
    BY FS_Interval
  <1>3. /\ IsFiniteSet((1..G) \X (1..k))
        /\ Cardinality((1..G) \X (1..k)) = Cardinality(1..G) * Cardinality(1..k)
    BY ONLY <1>1, <1>2, FS_Product
  <1> QED
    BY <1>1, <1>2, <1>3

\* The teams ts, as many as G groups of L, are put into groups m that hold at most L each.
DealtTo(ts, G, L, f, m) ==
    /\ IsFiniteSet(ts) /\ G \in Nat /\ L \in Nat \ {0}
    /\ Cardinality(ts) = Cardinality((1..G) \X (1..L))
    /\ f \in [ts -> 1..G]
    /\ \A g \in 1..G : /\ m[g] \subseteq ts /\ \A t \in ts : t \in m[g] <=> f[t] = g
                       /\ Cardinality(m[g]) <= L

\* Then they fill all of them.
LEMMA GroupsFill ==
    ASSUME NEW ts, NEW G, NEW L, NEW f, NEW m, DealtTo(ts, G, L, f, m)
    PROVE  \A g \in 1..G : Cardinality(m[g]) = L
  <1> USE DEF DealtTo
  <1> DEFINE n(g) == Cardinality(m[g])
             b == [g \in 1..G |-> CHOOSE h \in Bijection(m[g], 1..n(g)) : TRUE]
             place == [t \in ts |-> <<f[t], b[f[t]][t]>>]
  <1>1. ASSUME NEW g \in 1..G
        PROVE  n(g) \in Nat /\ n(g) <= L /\ b[g] \in Bijection(m[g], 1..n(g))
    <2>1. IsFiniteSet(m[g])
      BY FS_Subset
    <2>2. n(g) \in Nat /\ ExistsBijection(1..n(g), m[g])
      BY <2>1, FS_CardinalityType
    <2>3. ExistsBijection(m[g], 1..n(g))
      BY <2>2, Fun_ExistsBijSymmetric
    <2> QED
      BY <2>2, <2>3 DEF ExistsBijection
  <1> HIDE DEF n, b
  <1>2. \A t \in ts : /\ f[t] \in 1..G /\ t \in m[f[t]]
                      /\ b[f[t]] \in Bijection(m[f[t]], 1..n(f[t]))
                      /\ b[f[t]][t] \in 1..n(f[t])
    BY <1>1 DEF Bijection, Injection, Surjection
  <1>3. place \in Injection(ts, (1..G) \X (1..L))
    <2>1. \A t \in ts : f[t] \in 1..G /\ b[f[t]][t] \in 1..L
      <3>1. TAKE t \in ts
      <3>2. f[t] \in 1..G /\ b[f[t]][t] \in 1..n(f[t])
        BY <1>2
      <3>3. n(f[t]) \in Nat /\ n(f[t]) <= L
        BY <1>1, <3>2
      <3> QED
        BY <3>2, <3>3
    <2>3. place \in [ts -> (1..G) \X (1..L)]
      BY <2>1
    <2>2. ASSUME NEW t \in ts, NEW u \in ts, place[t] = place[u]
          PROVE  t = u
      <3>1. f[t] = f[u] /\ b[f[t]][t] = b[f[t]][u]
        BY <2>2
      <3>2. t \in m[f[t]] /\ u \in m[f[t]] /\ b[f[t]] \in Bijection(m[f[t]], 1..n(f[t]))
        BY <1>2, <3>1
      <3> QED
        BY <3>1, <3>2 DEF Bijection, Injection, IsInjective
    <2> HIDE DEF place
    <2> QED
      BY <2>2, <2>3 DEF Injection, IsInjective
  <1>4. IsFiniteSet((1..G) \X (1..L))
    BY PairsCount
  <1> HIDE DEF place
  <1>5. place \in Surjection(ts, (1..G) \X (1..L))
    BY <1>3, <1>4, FS_Injection
  <1>6. ASSUME NEW g \in 1..G
        PROVE  n(g) = L
    <2>0. <<g, L>> \in (1..G) \X (1..L)
      OBVIOUS
    <2>1. PICK t \in ts : place[t] = <<g, L>>
      BY <1>5, <2>0 DEF Surjection
    <2>2. f[t] = g /\ b[g][t] = L
      BY <2>1 DEF place
    <2>3. L \in 1..n(g)
      BY <1>2, <2>2
    <2>4. n(g) \in Nat /\ n(g) <= L
      BY <1>1
    <2> QED
      BY <2>3, <2>4
  <1> QED
    BY <1>6 DEF n

\* S is what o holds in G groups and k places, no two alike.
ListedOnce(S, o, G, k) ==
    /\ G \in Nat /\ k \in Nat
    /\ \A s \in S : \E g \in 1..G, i \in 1..k : s = o[g][i]
    /\ \A g \in 1..G, i \in 1..k : o[g][i] \in S
    /\ \A g, h \in 1..G : \A i, j \in 1..k : o[g][i] = o[h][j] => g = h /\ i = j

\* Then it has as many elements as there are groups and places.
LEMMA PlacesCount ==
    ASSUME NEW S, NEW o, NEW G, NEW k, ListedOnce(S, o, G, k)
    PROVE  Cardinality(S) = Cardinality((1..G) \X (1..k))
  <1> USE DEF ListedOnce
  <1> DEFINE P == (1..G) \X (1..k)
             row_ == [p \in P |-> o[p[1]][p[2]]]
  <1>1. IsFiniteSet(P)
    BY PairsCount
  <1>2. row_ \in [P -> S]
    OBVIOUS
  <1>3. \A s \in S : \E p \in P : row_[p] = s
    <2>1. ASSUME NEW s \in S
          PROVE  \E p \in P : row_[p] = s
      <3>1. PICK g \in 1..G, i \in 1..k : s = o[g][i]
        OBVIOUS
      <3>2. <<g, i>> \in P /\ row_[<<g, i>>] = s
        BY <3>1
      <3> QED
        BY <3>2
    <2> QED
      BY <2>1
  <1>4. \A p, r \in P : row_[p] = row_[r] => p = r
    <2>1. ASSUME NEW p \in P, NEW r \in P, row_[p] = row_[r]
          PROVE  p = r
      <3>1. p[1] = r[1] /\ p[2] = r[2]
        BY <2>1
      <3> QED
        BY <3>1
    <2> QED
      BY <2>1
  <1>5. row_ \in Surjection(P, S) /\ row_ \in Injection(P, S)
    BY <1>2, <1>3, <1>4 DEF Surjection, Injection, IsInjective
  <1>6. Cardinality(S) = Cardinality(P)
    <2> HIDE DEF P, row_
    <2> QED
      BY <1>1, <1>5, FS_Surjection
  <1> QED
    BY <1>6

-----------------------------------------------------------------------------
(* What a stage is, before, while and after it is played.                    *)

At(r, n) == geReq[r].pc # "idle" /\ geReq[r].stage = n
Playing(n) == UNION {Ge!TeamsOf(n, g) : g \in 1..Plan[n].groups}
Advanced(n) == {q.team : q \in Ge!Through(n)}

StageTypes ==
    /\ confirmed \subseteq Entrants
    /\ geStatus \in [Ge!Stages -> {"NONE", "LIVE", "COMPLETED"}]
    /\ geRow \subseteq [round : Ge!Stages, group : Nat, team : Entrants, pts : 0..MaxScore]
    /\ \A q \in geQual : q.team \in Entrants /\ q.out \in BOOLEAN
    /\ geReq = [r \in Requests |-> geReq[r]]
    /\ \A r \in Requests : /\ geReq[r].pc \in {"idle", "create", "finish"}
                           /\ geReq[r].pc # "idle" => geReq[r].stage \in Ge!Stages

\* One request works on a stage.
OneAStage == \A n \in Ge!Stages : \A r, s \in Requests : At(r, n) /\ At(s, n) => r = s

InOrder == \A n \in Ge!Stages : n > 1 /\ geStatus[n] # "NONE" => geStatus[n - 1] = "COMPLETED"

\* A request about to write groups has the participants, and no later stage has begun.
Creating == \A r \in Requests : \A n \in Ge!Stages : At(r, n) /\ geReq[r].pc = "create" =>
    /\ geStatus[n] # "COMPLETED"
    /\ \A m \in Ge!Stages : m > n => geStatus[m] = "NONE" /\ \A s \in Requests : ~At(s, m)
    /\ geReq[r].teams \subseteq Entrants
    /\ Cardinality(geReq[r].teams) = Plan[n].units
    /\ n > 1 => geStatus[n - 1] = "COMPLETED" /\ geReq[r].teams = Advanced(n - 1)

\* A ranking of every group that places as many teams as a lobby has.
Ranking(n, order) ==
    /\ DOMAIN order = 1..Plan[n].groups
    /\ \A g \in 1..Plan[n].groups :
        /\ order[g] \in [1..Lobby(n) -> Ge!TeamsOf(n, g)]
        /\ \A i, j \in 1..Lobby(n) : i # j => order[g][i] # order[g][j]

\* A request about to write qualifications holds a ranking of a stage that is played.
Finishing == \A r \in Requests : \A n \in Ge!Stages : At(r, n) /\ geReq[r].pc = "finish" =>
    geStatus[n] = "LIVE" /\ Ranking(n, geReq[r].order)

\* The groups of a stage are full and disjoint, and are those who came through.
Dealt(n) ==
    /\ Ge!Groups(n) = 1..Plan[n].groups
    /\ \A g \in 1..Plan[n].groups : Cardinality(Ge!TeamsOf(n, g)) = Lobby(n)
    /\ \A g, h \in 1..Plan[n].groups :
           g # h => Ge!TeamsOf(n, g) \cap Ge!TeamsOf(n, h) = {}
    /\ n > 1 => Playing(n) = Advanced(n - 1)

\* A completed stage lets as many through as its groups and cut say, nobody twice.
Written(n) ==
    /\ ~Ge!IsFinal(n) => Cardinality(Ge!Through(n)) = Plan[n].groups * Plan[n].q
    /\ \A p, q \in Ge!Through(n) : p.team = q.team => p = q

StagesHold == \A n \in Ge!Stages :
    /\ geStatus[n] # "NONE" => Dealt(n)
    /\ geStatus[n] # "COMPLETED" => \A q \in geQual : q.round # n
    /\ geStatus[n] = "COMPLETED" => Written(n)

StageInv == StageTypes /\ OneAStage /\ InOrder /\ Creating /\ Finishing /\ StagesHold

LEMMA StageInit == Ge!Init => StageInv
  <1> SUFFICES ASSUME Ge!Init PROVE StageInv
    OBVIOUS
  <1>1. \A r \in Requests : geReq[r].pc = "idle"
    BY DEF Ge!Init, Ge!NoRequest
  <1>2. StageTypes
    BY <1>1 DEF Ge!Init, StageTypes
  <1>3. OneAStage /\ InOrder /\ Creating /\ Finishing
    <2>1. \A n \in Ge!Stages : n > 1 => n - 1 \in Ge!Stages
      BY PlanShape
    <2> QED
      BY <1>1, <2>1 DEF Ge!Init, OneAStage, InOrder, Creating, Finishing, At
  <1>4. StagesHold
    BY DEF Ge!Init, StagesHold
  <1> QED
    BY <1>2, <1>3, <1>4 DEF StageInv

-----------------------------------------------------------------------------
(* Steps that leave the stages as they are: what a request reads, the        *)
(* registrations, and scores, which change neither groups nor teams.         *)

\* Who plays in which group, and who came through.
SameStages ==
    /\ geStatus' = geStatus /\ geQual' = geQual
    /\ \A n \in Ge!Stages : /\ Ge!Groups(n)' = Ge!Groups(n)
                            /\ \A g : Ge!TeamsOf(n, g)' = Ge!TeamsOf(n, g)

LEMMA StagesStay ==
    ASSUME StageInv, SameStages
    PROVE  /\ InOrder' /\ StagesHold'
           /\ \A n \in Ge!Stages : \A order : Ranking(n, order) => Ranking(n, order)'
           /\ \A n \in Ge!Stages : n > 1 => Advanced(n - 1)' = Advanced(n - 1)
  <1>1. \A n : Ge!Through(n)' = Ge!Through(n)
    BY DEF SameStages, Ge!Through
  <1>2. \A n : Advanced(n)' = Advanced(n)
    BY <1>1 DEF Advanced
  <1>3. \A n \in Ge!Stages : \A g : Ge!TeamsOf(n, g)' = Ge!TeamsOf(n, g)
    BY DEF SameStages
  <1>4. \A n \in Ge!Stages : Playing(n)' = Playing(n)
    BY <1>3 DEF Playing
  <1>5. \A n \in Ge!Stages : Dealt(n) => Dealt(n)'
    BY <1>2, <1>3, <1>4 DEF Dealt, SameStages
  <1>6. \A n \in Ge!Stages : Written(n) => Written(n)'
    BY <1>1 DEF Written
  <1>7. InOrder' /\ StagesHold'
    BY <1>5, <1>6 DEF StageInv, SameStages, InOrder, StagesHold
  <1>8. \A n \in Ge!Stages : \A order : Ranking(n, order) => Ranking(n, order)'
    BY <1>3 DEF Ranking
  <1> QED
    BY <1>2, <1>7, <1>8

LEMMA RequestsStay ==
    ASSUME StageInv, SameStages, geReq' = geReq
    PROVE  OneAStage' /\ Creating' /\ Finishing'
  <1>1. \A r, n : At(r, n)' = At(r, n)
    BY DEF At
  <1>2. OneAStage'
    BY <1>1 DEF StageInv, OneAStage
  <1>3. Creating'
    BY <1>1, StagesStay DEF StageInv, Creating, SameStages
  <1>4. Finishing'
    BY <1>1, StagesStay DEF StageInv, Finishing, SameStages
  <1> QED
    BY <1>2, <1>3, <1>4

LEMMA RegisterStep ==
    ASSUME StageInv, NEW t \in Entrants, Ge!Register(t)
    PROVE  StageInv'
  <1>1. SameStages /\ geReq' = geReq
    BY DEF Ge!Register, SameStages, Ge!Groups, Ge!TeamsOf
  <1>2. StageTypes'
    BY DEF StageInv, StageTypes, Ge!Register
  <1> QED
    BY <1>1, <1>2, StagesStay, RequestsStay DEF StageInv

LEMMA SubmitScoresStep ==
    ASSUME StageInv, NEW n \in Ge!Stages, NEW g \in Ge!Groups(n),
           NEW pts \in [Ge!TeamsOf(n, g) -> 0..MaxScore], Ge!SubmitScores(n, g, pts)
    PROVE  StageInv'
  <1> DEFINE up(x) == IF x.round = n /\ x.group = g THEN [x EXCEPT !.pts = pts[x.team]] ELSE x
  <1>1. geRow' = {up(x) : x \in geRow}
    BY DEF Ge!SubmitScores
  <1>2. ASSUME NEW x \in geRow
        PROVE  /\ up(x) \in [round : Ge!Stages, group : Nat, team : Entrants, pts : 0..MaxScore]
               /\ up(x).round = x.round /\ up(x).group = x.group /\ up(x).team = x.team
    <2>1. x \in [round : Ge!Stages, group : Nat, team : Entrants, pts : 0..MaxScore]
      BY DEF StageInv, StageTypes
    <2>2. CASE x.round = n /\ x.group = g
      <3>1. x.team \in Ge!TeamsOf(n, g)
        BY <2>2 DEF Ge!TeamsOf
      <3>2. pts[x.team] \in 0..MaxScore
        BY <3>1
      <3> QED
        BY <2>1, <2>2, <3>2
    <2> QED
      BY <2>1, <2>2
  <1> HIDE DEF up
  <1>3. geRow' \subseteq [round : Ge!Stages, group : Nat, team : Entrants, pts : 0..MaxScore]
    BY <1>1, <1>2
  <1>4. ASSUME NEW m \in Ge!Stages
        PROVE  Ge!Groups(m)' = Ge!Groups(m) /\ \A h : Ge!TeamsOf(m, h)' = Ge!TeamsOf(m, h)
    BY <1>1, <1>2 DEF Ge!Groups, Ge!TeamsOf
  <1>5. SameStages /\ geReq' = geReq
    BY <1>4 DEF Ge!SubmitScores, SameStages
  <1>6. StageTypes'
    BY <1>3 DEF StageInv, StageTypes, Ge!SubmitScores
  <1> QED
    BY <1>5, <1>6, StagesStay, RequestsStay DEF StageInv

\* A request that has read begins on a stage nobody works on.
LEMMA BeginStep ==
    ASSUME StageInv, NEW r \in Requests, NEW n \in Ge!Stages, NEW v, geReq[r].pc = "idle",
           UNCHANGED <<confirmed, geStatus, geRow, geQual>>,
           geReq' = [geReq EXCEPT ![r] = v],
           \A s \in Requests : ~At(s, n), v.stage = n, v.pc \in {"create", "finish"},
           v.pc = "create" =>
               /\ geStatus[n] # "COMPLETED"
               /\ \A m \in Ge!Stages :
                      m > n => geStatus[m] = "NONE" /\ \A s \in Requests : ~At(s, m)
               /\ v.teams \subseteq Entrants /\ Cardinality(v.teams) = Plan[n].units
               /\ n > 1 => geStatus[n - 1] = "COMPLETED" /\ v.teams = Advanced(n - 1),
           v.pc = "finish" => geStatus[n] = "LIVE" /\ Ranking(n, v.order)
    PROVE  StageInv'
  <1>1. SameStages
    BY DEF SameStages, Ge!Groups, Ge!TeamsOf
  <1>2. geReq' = [s \in Requests |-> geReq'[s]] /\ geReq'[r] = v
        /\ \A s \in Requests : s # r => geReq'[s] = geReq[s]
    BY DEF StageInv, StageTypes
  <1>3. StageTypes'
    BY <1>2 DEF StageInv, StageTypes
  <1>4. \A s \in Requests : \A m \in Ge!Stages :
            At(s, m)' <=> IF s = r THEN m = n ELSE At(s, m)
    BY <1>2 DEF At
  <1>5. OneAStage'
    BY <1>4 DEF StageInv, OneAStage
  <1>6. Creating'
    <2> SUFFICES ASSUME NEW s \in Requests, NEW m \in Ge!Stages, At(s, m)', geReq'[s].pc = "create"
                 PROVE  /\ geStatus[m] # "COMPLETED"
                        /\ \A k \in Ge!Stages :
                               k > m => geStatus[k] = "NONE" /\ \A u \in Requests : ~At(u, k)'
                        /\ geReq'[s].teams \subseteq Entrants
                        /\ Cardinality(geReq'[s].teams) = Plan[m].units
                        /\ m > 1 => /\ geStatus[m - 1] = "COMPLETED"
                                    /\ geReq'[s].teams = Advanced(m - 1)
      BY <1>1, StagesStay DEF Creating, SameStages
    <2>1. CASE s = r
      <3>1. m = n /\ v.pc = "create"
        BY <1>2, <1>4, <2>1
      <3>2. \A k \in Ge!Stages : k > n => k # n
        BY PlanShape
      <3> QED
        BY <1>2, <1>4, <2>1, <3>1, <3>2
    <2>2. CASE s # r
      <3>1. At(s, m) /\ geReq[s].pc = "create" /\ geReq'[s] = geReq[s]
        BY <1>2, <1>4, <2>2
      \* A later stage n would have begun, or its groups be generated before this one is over.
      <3>2. ~(n > m)
        <4> SUFFICES ASSUME n > m PROVE FALSE
          OBVIOUS
        <4>1. geStatus[n] = "NONE" /\ geStatus[m] # "COMPLETED"
          BY <3>1 DEF StageInv, Creating
        <4>2. n > 1 /\ n - 1 \in Ge!Stages /\ n - 1 >= m
          BY PlanShape
        <4>3. v.pc = "create" /\ geStatus[n - 1] = "COMPLETED"
          BY <4>1, <4>2
        <4>4. n - 1 = m \/ geStatus[n - 1] = "NONE"
          BY <3>1, <4>2, PlanShape DEF StageInv, Creating
        <4> QED
          BY <4>1, <4>3, <4>4
      <3>3. \A k \in Ge!Stages : k > m => geStatus[k] = "NONE" /\ \A u \in Requests : ~At(u, k)
        BY <3>1 DEF StageInv, Creating
      <3>4. \A k \in Ge!Stages : k > m => geStatus[k] = "NONE" /\ \A u \in Requests : ~At(u, k)'
        BY <1>4, <3>2, <3>3
      <3> QED
        BY <3>1, <3>4 DEF StageInv, Creating
    <2> QED
      BY <2>1, <2>2
  <1>7. Finishing'
    BY <1>1, <1>2, <1>4, StagesStay DEF StageInv, Finishing, SameStages
  <1> QED
    BY <1>1, <1>3, <1>5, <1>6, <1>7, StagesStay DEF StageInv

-----------------------------------------------------------------------------
(* The steps of generating and finalizing a stage.                           *)

\* No two requests on one stage, and no stage generated again once it was over.
Orderly == "regenerate" \notin Env /\ "finalizeRace" \notin Env

\* As many teams come through as rows do.
LEMMA AdvancedCount ==
    ASSUME StageInv, NEW n \in Ge!Stages, geStatus[n] = "COMPLETED"
    PROVE  /\ Advanced(n) \subseteq Entrants
           /\ IsFiniteSet(Ge!Through(n))
           /\ Cardinality(Advanced(n)) = Cardinality(Ge!Through(n))
  <1> DEFINE f == [q \in Ge!Through(n) |-> q.team]
  <1>1. \A q \in Ge!Through(n) : q.team \in Entrants
    BY DEF StageInv, StageTypes, Ge!Through
  <1>2. \A p, q \in Ge!Through(n) : p.team = q.team => p = q
    BY DEF StageInv, StagesHold, Written
  <1>3. Advanced(n) \subseteq Entrants
    BY <1>1 DEF Advanced
  <1>4. f \in Injection(Ge!Through(n), Entrants)
    BY <1>1, <1>2 DEF Injection, IsInjective
  <1>5. IsFiniteSet(Ge!Through(n))
    BY <1>4, FS_Injection, PlanAssumption
  <1>6. f \in Surjection(Ge!Through(n), Advanced(n)) /\ f \in Injection(Ge!Through(n), Advanced(n))
    BY <1>2 DEF Injection, Surjection, IsInjective, Advanced
  <1> HIDE DEF f
  <1> QED
    BY <1>3, <1>5, <1>6, FS_Surjection

LEMMA GenerateReadStep ==
    ASSUME StageInv, Orderly, NEW r \in Requests, NEW n \in Ge!Stages, Ge!GenerateRead(r, n)
    PROVE  StageInv'
  <1>1. /\ geReq[r].pc = "idle" /\ ~Ge!Busy(n) /\ geStatus[n] # "COMPLETED"
        /\ \A m \in Ge!Stages : m > n => geStatus[m] = "NONE" /\ ~Ge!Busy(m)
        /\ UNCHANGED <<confirmed, geStatus, geRow, geQual>>
    BY DEF Ge!GenerateRead, Orderly
  <1>2. PICK ts \in Ge!Participants(n) :
            geReq' = [geReq EXCEPT ![r] =
                         [Ge!NoRequest EXCEPT !.pc = "create", !.stage = n, !.teams = ts]]
    BY DEF Ge!GenerateRead
  <1>3. \A m : ~Ge!Busy(m) => \A s \in Requests : ~At(s, m)
    BY DEF Ge!Busy, At
  <1>4. /\ ts \subseteq Entrants /\ Cardinality(ts) = Plan[n].units
        /\ n > 1 => geStatus[n - 1] = "COMPLETED" /\ ts = Advanced(n - 1)
    <2>1. CASE n = 1
      <3>1. ts \in SUBSET confirmed /\ Ge!Cardinality(ts) = Plan[1].units
        BY <2>1 DEF Ge!Participants, Ge!Confirmed
      <3> QED
        BY <2>1, <3>1, SameCardinality DEF StageInv, StageTypes
    <2>2. CASE n # 1
      <3>1. n > 1 /\ n - 1 \in Ge!Stages
        BY <2>2, PlanShape
      <3>2. /\ geStatus[n - 1] = "COMPLETED"
            /\ Ge!Cardinality(Ge!Through(n - 1)) = Plan[n].units
            /\ ts = Advanced(n - 1)
        BY <2>2 DEF Ge!Participants, Ge!Through, Advanced
      <3> QED
        BY <3>1, <3>2, AdvancedCount, SameCardinality
    <2> QED
      BY <2>1, <2>2
  <1> DEFINE v == [Ge!NoRequest EXCEPT !.pc = "create", !.stage = n, !.teams = ts]
  <1>5. v.pc = "create" /\ v.stage = n /\ v.teams = ts
    BY DEF Ge!NoRequest
  <1>6. geReq' = [geReq EXCEPT ![r] = v]
    BY <1>2
  <1> HIDE DEF v
  <1> QED
    BY <1>1, <1>3, <1>4, <1>5, <1>6, BeginStep

LEMMA FinalizeReadStep ==
    ASSUME StageInv, Orderly, NEW r \in Requests, NEW n \in Ge!Stages, Ge!FinalizeRead(r, n)
    PROVE  StageInv'
  <1>1. /\ geReq[r].pc = "idle" /\ Ge!MayFinalize(n) /\ ~Ge!Busy(n)
        /\ UNCHANGED <<confirmed, geStatus, geRow, geQual>>
    BY DEF Ge!FinalizeRead, Orderly
  <1>2. PICK order \in [Ge!Groups(n) -> UNION {Ge!Sorted(n, g) : g \in Ge!Groups(n)}] :
            /\ \A g \in Ge!Groups(n) : order[g] \in Ge!Sorted(n, g)
            /\ geReq' = [geReq EXCEPT ![r] =
                            [Ge!NoRequest EXCEPT !.pc = "finish", !.stage = n, !.order = order]]
    BY DEF Ge!FinalizeRead
  <1>3. \A s \in Requests : ~At(s, n)
    BY <1>1 DEF Ge!Busy, At
  <1>4. geStatus[n] = "LIVE" /\ Dealt(n)
    BY <1>1 DEF Ge!MayFinalize, StageInv, StageTypes, StagesHold
  <1>5. Ranking(n, order)
    <2>1. DOMAIN order = 1..Plan[n].groups
      BY <1>4 DEF Dealt
    <2>2. ASSUME NEW g \in 1..Plan[n].groups
          PROVE  /\ order[g] \in [1..Lobby(n) -> Ge!TeamsOf(n, g)]
                 /\ \A i, j \in 1..Lobby(n) : i # j => order[g][i] # order[g][j]
      <3>1. order[g] \in Ge!SetToSeqs(Ge!TeamsOf(n, g))
        BY <1>2, <1>4 DEF Dealt, Ge!Sorted
      <3>2. Ge!Cardinality(Ge!TeamsOf(n, g)) = Lobby(n)
        BY <1>4, SameCardinality DEF Dealt
      <3> QED
        BY <3>1, <3>2 DEF Ge!SetToSeqs
    <2> QED
      BY <2>1, <2>2 DEF Ranking
  <1> DEFINE v == [Ge!NoRequest EXCEPT !.pc = "finish", !.stage = n, !.order = order]
  <1>6. v.pc = "finish" /\ v.stage = n /\ v.order = order
    BY DEF Ge!NoRequest
  <1>7. geReq' = [geReq EXCEPT ![r] = v]
    BY <1>2
  <1> HIDE DEF v
  <1> QED
    BY <1>1, <1>3, <1>4, <1>5, <1>6, <1>7, BeginStep

\* A request that writes leaves its stage; the others work on other stages, as before.
LEMMA WriterLeaves ==
    ASSUME StageInv, NEW r \in Requests, NEW n \in Ge!Stages, At(r, n),
           geReq' = [s \in Requests |-> geReq'[s]],
           geReq'[r] = Ge!NoRequest, \A s \in Requests : s # r => geReq'[s] = geReq[s]
    PROVE  /\ OneAStage'
           /\ \A s \in Requests : \A m \in Ge!Stages :
                  At(s, m)' => At(s, m) /\ s # r /\ m # n /\ geReq'[s] = geReq[s]
           /\ \A s \in Requests : ~At(s, n)'
  <1>1. \A s \in Requests : \A m \in Ge!Stages :
            At(s, m)' => At(s, m) /\ s # r /\ geReq'[s] = geReq[s]
    BY DEF At, Ge!NoRequest
  <1>2. \A s \in Requests : s # r => ~At(s, n)
    BY DEF StageInv, OneAStage
  <1> QED
    BY <1>1, <1>2 DEF StageInv, OneAStage

\* The groups that a request writes are full, and later stages have not begun.
LEMMA GenerateWriteStep ==
    ASSUME StageInv, NEW r \in Requests, Ge!GenerateWrite(r)
    PROVE  StageInv'
  <1>0. PICK n, ts : n = geReq[r].stage /\ ts = geReq[r].teams
    OBVIOUS
  <1> DEFINE G == Plan[n].groups
             R == [round : Ge!Stages, group : Nat, team : Entrants, pts : 0..MaxScore]
  <1>1. n \in Ge!Stages /\ At(r, n) /\ geReq[r].pc = "create"
    BY <1>0 DEF Ge!GenerateWrite, At, StageInv, StageTypes
  <1>2. /\ geStatus[n] # "COMPLETED"
        /\ \A m \in Ge!Stages : m > n => geStatus[m] = "NONE" /\ \A s \in Requests : ~At(s, m)
        /\ ts \subseteq Entrants /\ Cardinality(ts) = Plan[n].units
        /\ n > 1 => geStatus[n - 1] = "COMPLETED" /\ ts = Advanced(n - 1)
    BY <1>0, <1>1 DEF StageInv, Creating
  <1>3. /\ G \in Nat \ {0} /\ Lobby(n) \in Nat \ {0} /\ Plan[n].units = G * Lobby(n)
        /\ n \in Nat \ {0}
    BY <1>1, PlanShape
  <1>4. PICK shuffled \in [ts -> 1..G] :
            /\ \A g \in 1..G : Ge!Cardinality({t \in ts : shuffled[t] = g}) <= Lobby(n)
            /\ geRow' = {x \in geRow : x.round # n} \cup
                        {[round |-> n, group |-> shuffled[t], team |-> t, pts |-> 0] : t \in ts}
    BY <1>0 DEF Ge!GenerateWrite, Lobby
  <1>5. /\ geStatus' = [geStatus EXCEPT ![n] = "LIVE"]
        /\ geReq' = [s \in Requests |->
                        IF s = r \/ (geReq[s].pc = "finish" /\ geReq[s].stage = n)
                        THEN Ge!NoRequest ELSE geReq[s]]
        /\ confirmed' = confirmed /\ geQual' = geQual
    BY <1>0 DEF Ge!GenerateWrite
  <1> HIDE DEF G
  <1>6. \A g \in 1..G : Cardinality({t \in ts : shuffled[t] = g}) = Lobby(n)
    <2> DEFINE dealt == [g \in 1..G |-> {t \in ts : shuffled[t] = g}]
    <2>1. IsFiniteSet(ts)
      BY <1>2, FS_Subset, PlanAssumption
    <2>2. \A g \in 1..G : /\ dealt[g] = {t \in ts : shuffled[t] = g}
                          /\ Cardinality(dealt[g]) <= Lobby(n)
      BY <1>4, SameCardinality
    <2>4. \A g \in 1..G : dealt[g] \subseteq ts /\ \A t \in ts : t \in dealt[g] <=> shuffled[t] = g
      BY <2>2
    <2>3. Cardinality(ts) = Cardinality((1..G) \X (1..Lobby(n)))
      BY <1>2, <1>3, PairsCount
    <2> HIDE DEF dealt
    <2>5. DealtTo(ts, G, Lobby(n), shuffled, dealt)
      BY <1>3, <1>4, <2>1, <2>2, <2>3, <2>4 DEF DealtTo
    <2>6. \A g \in 1..G : Cardinality(dealt[g]) = Lobby(n)
      BY <2>5, GroupsFill
    <2> QED
      BY <2>2, <2>6
  <1>7. /\ \A g : Ge!TeamsOf(n, g)' = {t \in ts : shuffled[t] = g}
        /\ Ge!Groups(n)' = {shuffled[t] : t \in ts}
    <2> DEFINE new(t) == [round |-> n, group |-> shuffled[t], team |-> t, pts |-> 0]
    <2>1. /\ \A y \in geRow' : y.round = n => \E t \in ts : y = new(t)
          /\ \A t \in ts : new(t) \in geRow'
      BY <1>4
    <2>2. \A t : new(t).round = n /\ new(t).group = shuffled[t] /\ new(t).team = t
      OBVIOUS
    <2> HIDE DEF new
    <2>3. ASSUME NEW g
          PROVE  Ge!TeamsOf(n, g)' = {t \in ts : shuffled[t] = g}
      BY <2>1, <2>2 DEF Ge!TeamsOf
    <2>4. Ge!Groups(n)' = {shuffled[t] : t \in ts}
      BY <2>1, <2>2 DEF Ge!Groups
    <2> QED
      BY <2>3, <2>4
  <1>8. \A m : m # n => /\ Ge!Groups(m)' = Ge!Groups(m)
                        /\ \A g : Ge!TeamsOf(m, g)' = Ge!TeamsOf(m, g)
    BY <1>4 DEF Ge!TeamsOf, Ge!Groups
  <1>9. \A m : Ge!Through(m)' = Ge!Through(m) /\ Advanced(m)' = Advanced(m)
    BY <1>5 DEF Ge!Through, Advanced
  <1>10. /\ geStatus'[n] = "LIVE"
         /\ \A m \in Ge!Stages : m # n => geStatus'[m] = geStatus[m]
    BY <1>1, <1>5 DEF StageInv, StageTypes
  <1>11. /\ geReq' = [s \in Requests |-> geReq'[s]] /\ geReq'[r] = Ge!NoRequest
         /\ \A s \in Requests : s # r => geReq'[s] = geReq[s]
    <2>1. \A s \in Requests : s # r => ~At(s, n)
      BY <1>1 DEF StageInv, OneAStage
    <2> QED
      BY <1>5, <2>1 DEF At
  <1>12. /\ OneAStage'
         /\ \A s \in Requests : \A m \in Ge!Stages :
                At(s, m)' => At(s, m) /\ s # r /\ m # n /\ geReq'[s] = geReq[s]
    BY <1>1, <1>11, WriterLeaves
  <1>13. Dealt(n)'
    <2>1. Ge!Groups(n)' = 1..G
      <3>1. \A g \in 1..G : \E t \in ts : shuffled[t] = g
        <4> SUFFICES ASSUME NEW g \in 1..G, {t \in ts : shuffled[t] = g} = {}
                     PROVE  FALSE
          OBVIOUS
        <4>1. Cardinality({t \in ts : shuffled[t] = g}) = 0
          BY FS_EmptySet
        <4> QED
          BY <1>3, <1>6, <4>1
      <3> QED
        BY <1>7, <3>1
    <2>2. Playing(n)' = ts
      BY <1>7 DEF Playing, G
    <2>3. n > 1 => Playing(n)' = Advanced(n - 1)'
      BY <1>2, <1>9, <2>2
    <2>4. \A g \in 1..G : Cardinality(Ge!TeamsOf(n, g)') = Lobby(n)
      BY <1>6, <1>7
    <2>5. \A g, h \in 1..G : g # h => Ge!TeamsOf(n, g)' \cap Ge!TeamsOf(n, h)' = {}
      BY <1>7
    <2> QED
      BY <2>1, <2>3, <2>4, <2>5 DEF Dealt, G
  <1>14. StageTypes'
    <2>1. geRow' \subseteq R
      <3>1. {x \in geRow : x.round # n} \subseteq R
        BY DEF StageInv, StageTypes
      <3>2. \A t \in ts : [round |-> n, group |-> shuffled[t], team |-> t, pts |-> 0] \in R
        BY <1>1, <1>2, <1>3, BoundsAssumption
      <3> QED
        BY <1>4, <3>1, <3>2
    <2>2. geStatus' \in [Ge!Stages -> {"NONE", "LIVE", "COMPLETED"}]
      BY <1>5 DEF StageInv, StageTypes
    <2>3. \A s \in Requests : /\ geReq'[s].pc \in {"idle", "create", "finish"}
                              /\ geReq'[s].pc # "idle" => geReq'[s].stage \in Ge!Stages
      <3>1. Ge!NoRequest.pc = "idle"
        BY DEF Ge!NoRequest
      <3> QED
        BY <1>11, <3>1 DEF StageInv, StageTypes
    <2> QED
      BY <1>5, <1>11, <2>1, <2>2, <2>3 DEF StageInv, StageTypes
  <1>15. InOrder'
    <2> SUFFICES ASSUME NEW m \in Ge!Stages, m > 1, geStatus'[m] # "NONE"
                 PROVE  geStatus'[m - 1] = "COMPLETED"
      BY DEF InOrder
    <2>1. m - 1 \in Ge!Stages
      BY PlanShape
    <2>2. CASE m = n
      <3>1. m - 1 # n
        BY <1>3, <2>2
      <3> QED
        BY <1>2, <1>10, <2>1, <2>2, <3>1
    <2>3. CASE m # n
      <3>1. geStatus[m] # "NONE"
        BY <1>10, <2>3
      <3>2. m - 1 # n
        BY <1>2, <1>3, <3>1, PlanShape
      <3> QED
        BY <1>10, <2>1, <3>1, <3>2 DEF StageInv, InOrder
    <2> QED
      BY <2>2, <2>3
  \* Whoever else is about to write groups would be about an earlier stage, or a later one.
  <1>16. Creating'
    <2> SUFFICES ASSUME NEW s \in Requests, NEW m \in Ge!Stages, At(s, m)', geReq'[s].pc = "create"
                 PROVE  FALSE
      BY DEF Creating
    <2>1. At(s, m) /\ m # n /\ geReq[s].pc = "create"
      BY <1>12
    <2>2. ~(m > n)
      BY <1>2, <2>1
    <2>3. ~(n > m)
      BY <1>1, <2>1 DEF StageInv, Creating
    <2> QED
      BY <1>3, <2>1, <2>2, <2>3, PlanShape
  <1>17. Finishing'
    <2> SUFFICES ASSUME NEW s \in Requests, NEW m \in Ge!Stages, NEW o,
                        At(s, m)', geReq'[s].pc = "finish", o = geReq'[s].order
                 PROVE  geStatus'[m] = "LIVE" /\ Ranking(m, o)'
      BY DEF Finishing
    <2>1. At(s, m) /\ m # n /\ geReq'[s] = geReq[s]
      BY <1>12
    <2>2. geStatus[m] = "LIVE" /\ Ranking(m, o)
      BY <2>1 DEF StageInv, Finishing
    <2> QED
      BY <1>8, <1>10, <2>1, <2>2 DEF Ranking
  <1>18. StagesHold'
    <2>1. ASSUME NEW m \in Ge!Stages, m # n, Dealt(m)
          PROVE  Dealt(m)'
      <3>1. Playing(m)' = Playing(m)
        BY <1>8, <2>1 DEF Playing
      <3> QED
        BY <1>8, <1>9, <2>1, <3>1 DEF Dealt
    <2>2. \A m \in Ge!Stages : Written(m) => Written(m)'
      BY <1>9 DEF Written
    <2> QED
      BY <1>2, <1>5, <1>10, <1>13, <2>1, <2>2 DEF StageInv, StagesHold
  <1> QED
    BY <1>12, <1>14, <1>15, <1>16, <1>17, <1>18 DEF StageInv

\* The rows that a request writes are as many as the next stage takes, one a team.
LEMMA FinalizeWriteStep ==
    ASSUME StageInv, NEW r \in Requests, Ge!FinalizeWrite(r)
    PROVE  StageInv'
  <1>0. PICK n, order : n = geReq[r].stage /\ order = geReq[r].order
    OBVIOUS
  <1> DEFINE G == Plan[n].groups
             q(g, i) == Ge!Qualification(n, order[g][i], i > Plan[n].q)
             new == {q(g, i) : g \in 1..G, i \in 1..Lobby(n)}
  <1>1. n \in Ge!Stages /\ At(r, n) /\ geReq[r].pc = "finish"
    BY <1>0 DEF Ge!FinalizeWrite, At, StageInv, StageTypes
  <1>2. geStatus[n] = "LIVE" /\ Ranking(n, order) /\ Dealt(n) /\ \A p \in geQual : p.round # n
    BY <1>0, <1>1 DEF StageInv, Finishing, StagesHold
  <1>3. /\ G \in Nat \ {0} /\ Lobby(n) \in Nat \ {0} /\ Plan[n].q \in Nat
        /\ ~Ge!IsFinal(n) => Plan[n].q <= Lobby(n)
    BY <1>1, PlanShape
  <1>4. geQual' = geQual \cup new
    <2>1. DOMAIN order = 1..G /\ \A g \in 1..G : DOMAIN order[g] = 1..Lobby(n)
      BY <1>2 DEF Ranking
    <2>2. geQual' = geQual \cup UNION {{q(g, i) : i \in DOMAIN order[g]} : g \in DOMAIN order}
      BY <1>0 DEF Ge!FinalizeWrite
    <2> HIDE DEF q, G
    <2>3. UNION {{q(g, i) : i \in DOMAIN order[g]} : g \in DOMAIN order} = new
      <3>1. ASSUME NEW p \in UNION {{q(g, i) : i \in DOMAIN order[g]} : g \in DOMAIN order}
            PROVE  p \in new
        <4>1. PICK g \in DOMAIN order : p \in {q(g, i) : i \in DOMAIN order[g]}
          OBVIOUS
        <4>2. PICK i \in DOMAIN order[g] : p = q(g, i)
          BY <4>1
        <4>3. g \in 1..G /\ i \in 1..Lobby(n)
          BY <2>1
        <4> QED
          BY <4>2, <4>3
      <3>2. ASSUME NEW g \in 1..G, NEW i \in 1..Lobby(n)
            PROVE  q(g, i) \in UNION {{q(h, j) : j \in DOMAIN order[h]} : h \in DOMAIN order}
        <4>1. g \in DOMAIN order /\ i \in DOMAIN order[g]
          BY <2>1
        <4>2. q(g, i) \in {q(g, j) : j \in DOMAIN order[g]}
          BY <4>1
        <4> QED
          BY <4>1, <4>2
      <3> QED
        BY <3>1, <3>2
    <2> QED
      BY <2>2, <2>3
  <1>5. /\ geStatus' = [geStatus EXCEPT ![n] = "COMPLETED"]
        /\ geReq' = [geReq EXCEPT ![r] = Ge!NoRequest]
        /\ confirmed' = confirmed /\ geRow' = geRow
    BY <1>0 DEF Ge!FinalizeWrite, Ge!Finished
  <1>6. \A g \in 1..G, i \in 1..Lobby(n) :
            /\ order[g][i] \in Ge!TeamsOf(n, g)
            /\ q(g, i).round = n /\ q(g, i).team = order[g][i] /\ q(g, i).out = (i > Plan[n].q)
    BY <1>2 DEF Ranking, Ge!Qualification
  <1>7. \A g, h \in 1..G : \A i, j \in 1..Lobby(n) : order[g][i] = order[h][j] => g = h /\ i = j
    <2> SUFFICES ASSUME NEW g \in 1..G, NEW h \in 1..G,
                        NEW i \in 1..Lobby(n), NEW j \in 1..Lobby(n),
                        order[g][i] = order[h][j]
                 PROVE  g = h /\ i = j
      OBVIOUS
    <2>1. g = h
      BY <1>2, <1>6 DEF Dealt
    <2> QED
      BY <1>2, <2>1 DEF Ranking
  <1> HIDE DEF q, G
  <1>8. \A p \in new : p.round = n
    BY <1>6
  <1>9. \A m : m # n => Ge!Through(m)' = Ge!Through(m) /\ Advanced(m)' = Advanced(m)
    BY <1>4, <1>8 DEF Ge!Through, Advanced
  <1>10. Ge!Through(n)' = {p \in new : ~p.out}
    BY <1>2, <1>4, <1>8 DEF Ge!Through
  <1>11. Written(n)'
    <2>1. ASSUME NEW p \in new, NEW s \in new, p.team = s.team
          PROVE  p = s
      <3>1. PICK g \in 1..G, i \in 1..Lobby(n) : p = q(g, i)
        OBVIOUS
      <3>2. PICK h \in 1..G, j \in 1..Lobby(n) : s = q(h, j)
        OBVIOUS
      <3>3. order[g][i] = order[h][j]
        BY <1>6, <2>1, <3>1, <3>2
      <3>4. g = h /\ i = j
        BY <1>7, <3>3
      <3> QED
        BY <3>1, <3>2, <3>4
    <2>2. ASSUME ~Ge!IsFinal(n)
          PROVE  Cardinality(Ge!Through(n)') = G * Plan[n].q
      <3> DEFINE o == [g \in 1..G |-> [i \in 1..Plan[n].q |-> q(g, i)]]
      <3>1. \A i \in 1..Plan[n].q : i \in 1..Lobby(n) /\ ~(i > Plan[n].q)
        BY <1>3, <2>2
      <3>2. \A i \in 1..Lobby(n) : ~(i > Plan[n].q) => i \in 1..Plan[n].q
        BY <1>3
      <3>3. Ge!Through(n)' = {q(g, i) : g \in 1..G, i \in 1..Plan[n].q}
        <4>1. ASSUME NEW p \in Ge!Through(n)'
              PROVE  p \in {q(g, i) : g \in 1..G, i \in 1..Plan[n].q}
          <5>1. PICK g \in 1..G, i \in 1..Lobby(n) : p = q(g, i) /\ ~p.out
            BY <1>10, <4>1
          <5>2. i \in 1..Plan[n].q
            BY <1>6, <3>2, <5>1
          <5> QED
            BY <5>1, <5>2
        <4>2. ASSUME NEW g \in 1..G, NEW i \in 1..Plan[n].q
              PROVE  q(g, i) \in Ge!Through(n)'
          <5>1. i \in 1..Lobby(n) /\ ~q(g, i).out
            BY <1>6, <3>1
          <5> QED
            BY <1>10, <5>1
        <4> QED
          BY <4>1, <4>2
      <3>4. PICK S : S = Ge!Through(n)'
        OBVIOUS
      <3>7. /\ \A p \in S : \E g \in 1..G, i \in 1..Plan[n].q : p = o[g][i]
            /\ \A g \in 1..G, i \in 1..Plan[n].q : o[g][i] \in S
        <4>1. \A g \in 1..G, i \in 1..Plan[n].q : o[g][i] = q(g, i)
          OBVIOUS
        <4> HIDE DEF o
        <4> QED
          BY <3>3, <3>4, <4>1
      <3>5. \A g, h \in 1..G : \A i, j \in 1..Plan[n].q : o[g][i] = o[h][j] => g = h /\ i = j
        <4> SUFFICES ASSUME NEW g \in 1..G, NEW h \in 1..G,
                            NEW i \in 1..Plan[n].q, NEW j \in 1..Plan[n].q,
                            q(g, i) = q(h, j)
                     PROVE  g = h /\ i = j
          OBVIOUS
        <4>1. i \in 1..Lobby(n) /\ j \in 1..Lobby(n)
          BY <3>1
        <4>2. order[g][i] = order[h][j]
          BY <1>6, <4>1
        <4> QED
          BY <1>7, <4>1, <4>2
      <3> HIDE DEF o
      <3>6. G \in Nat
        BY <1>3
      <3>8. Cardinality(S) = Cardinality((1..G) \X (1..Plan[n].q))
        <4>1. ListedOnce(S, o, G, Plan[n].q)
          BY <1>3, <3>5, <3>6, <3>7 DEF ListedOnce
        <4> QED
          BY <4>1, PlacesCount
      <3> QED
        BY <1>3, <3>4, <3>6, <3>8, PairsCount
    <2>3. \A p, s \in Ge!Through(n)' : p.team = s.team => p = s
      BY <1>10, <2>1
    <2> QED
      BY <2>2, <2>3 DEF Written, G, Ge!IsFinal
  <1>12. \A m : Ge!Groups(m)' = Ge!Groups(m) /\ \A g : Ge!TeamsOf(m, g)' = Ge!TeamsOf(m, g)
    BY <1>5 DEF Ge!Groups, Ge!TeamsOf
  <1>13. /\ geStatus'[n] = "COMPLETED"
         /\ \A m \in Ge!Stages : m # n => geStatus'[m] = geStatus[m]
    BY <1>1, <1>5 DEF StageInv, StageTypes
  <1>14. /\ geReq' = [s \in Requests |-> geReq'[s]] /\ geReq'[r] = Ge!NoRequest
         /\ \A s \in Requests : s # r => geReq'[s] = geReq[s]
    BY <1>5 DEF StageInv, StageTypes
  <1>15. /\ OneAStage'
         /\ \A s \in Requests : \A m \in Ge!Stages :
                At(s, m)' => At(s, m) /\ s # r /\ m # n /\ geReq'[s] = geReq[s]
    BY <1>1, <1>14, WriterLeaves
  <1>16. StageTypes'
    <2>1. \A p \in geQual' : p.team \in Entrants /\ p.out \in BOOLEAN
      <3>1. \A g : Ge!TeamsOf(n, g) \subseteq Entrants
        BY DEF StageInv, StageTypes, Ge!TeamsOf
      <3>2. ASSUME NEW p \in new
            PROVE  p.team \in Entrants /\ p.out \in BOOLEAN
        <4>1. PICK g \in 1..G, i \in 1..Lobby(n) : p = q(g, i)
          OBVIOUS
        <4>2. p.team = order[g][i] /\ order[g][i] \in Ge!TeamsOf(n, g) /\ p.out = (i > Plan[n].q)
          BY <1>6, <4>1
        <4>3. (i > Plan[n].q) \in BOOLEAN
          OBVIOUS
        <4> QED
          BY <3>1, <4>2, <4>3
      <3> QED
        BY <1>4, <3>2 DEF StageInv, StageTypes
    <2>2. geStatus' \in [Ge!Stages -> {"NONE", "LIVE", "COMPLETED"}]
      BY <1>5 DEF StageInv, StageTypes
    <2>3. \A s \in Requests : /\ geReq'[s].pc \in {"idle", "create", "finish"}
                              /\ geReq'[s].pc # "idle" => geReq'[s].stage \in Ge!Stages
      BY <1>14 DEF StageInv, StageTypes, Ge!NoRequest
    <2> QED
      BY <1>5, <1>14, <2>1, <2>2, <2>3 DEF StageInv, StageTypes
  <1>17. InOrder'
    <2>1. \A m \in Ge!Stages : m > 1 => m - 1 \in Ge!Stages
      BY PlanShape
    <2> QED
      BY <1>2, <1>13, <2>1 DEF StageInv, InOrder
  <1>18. Creating'
    <2> SUFFICES ASSUME NEW s \in Requests, NEW m \in Ge!Stages, At(s, m)', geReq'[s].pc = "create"
                 PROVE  /\ geStatus'[m] # "COMPLETED"
                        /\ \A k \in Ge!Stages :
                               k > m => geStatus'[k] = "NONE" /\ \A u \in Requests : ~At(u, k)'
                        /\ geReq'[s].teams \subseteq Entrants
                        /\ Cardinality(geReq'[s].teams) = Plan[m].units
                        /\ m > 1 => /\ geStatus'[m - 1] = "COMPLETED"
                                    /\ geReq'[s].teams = Advanced(m - 1)'
      BY DEF Creating
    <2>1. At(s, m) /\ m # n /\ geReq'[s] = geReq[s] /\ geReq[s].pc = "create"
      BY <1>15
    <2>2. /\ geStatus[m] # "COMPLETED"
          /\ \A k \in Ge!Stages : k > m => geStatus[k] = "NONE" /\ \A u \in Requests : ~At(u, k)
          /\ geReq[s].teams \subseteq Entrants
          /\ Cardinality(geReq[s].teams) = Plan[m].units
          /\ m > 1 => geStatus[m - 1] = "COMPLETED" /\ geReq[s].teams = Advanced(m - 1)
      BY <2>1 DEF StageInv, Creating
    <2>3. \A k \in Ge!Stages : k > m => geStatus'[k] = "NONE" /\ \A u \in Requests : ~At(u, k)'
      BY <1>2, <1>13, <1>15, <2>2
    <2>4. m > 1 => geStatus'[m - 1] = "COMPLETED" /\ geReq'[s].teams = Advanced(m - 1)'
      <3> SUFFICES ASSUME m > 1
                   PROVE  geStatus'[m - 1] = "COMPLETED" /\ geReq'[s].teams = Advanced(m - 1)'
        OBVIOUS
      <3>1. m - 1 \in Ge!Stages /\ m - 1 # n
        BY <1>2, <2>2, PlanShape
      <3> QED
        BY <1>9, <1>13, <2>1, <2>2, <3>1
    <2> QED
      BY <1>13, <2>1, <2>2, <2>3, <2>4
  <1>19. Finishing'
    <2> SUFFICES ASSUME NEW s \in Requests, NEW m \in Ge!Stages, NEW o,
                        At(s, m)', geReq'[s].pc = "finish", o = geReq'[s].order
                 PROVE  geStatus'[m] = "LIVE" /\ Ranking(m, o)'
      BY DEF Finishing
    <2>1. At(s, m) /\ m # n /\ geReq'[s] = geReq[s]
      BY <1>15
    <2>2. geStatus[m] = "LIVE" /\ Ranking(m, o)
      BY <2>1 DEF StageInv, Finishing
    <2> QED
      BY <1>12, <1>13, <2>1, <2>2 DEF Ranking
  <1>20. StagesHold'
    <2>1. ASSUME NEW m \in Ge!Stages, geStatus[m] # "NONE"
          PROVE  Dealt(m)'
      <3>1. Dealt(m)
        BY <2>1 DEF StageInv, StagesHold
      <3>2. Playing(m)' = Playing(m)
        BY <1>12 DEF Playing
      <3>3. m > 1 => m - 1 # n
        BY <1>2, <2>1 DEF StageInv, InOrder
      <3> QED
        BY <1>9, <1>12, <3>1, <3>2, <3>3 DEF Dealt
    <2>2. \A m \in Ge!Stages : m # n /\ Written(m) => Written(m)'
      BY <1>9 DEF Written
    <2>3. \A m \in Ge!Stages :
              m # n /\ (\A p \in geQual : p.round # m) => \A p \in geQual' : p.round # m
      BY <1>4, <1>8
    <2> QED
      BY <1>2, <1>11, <1>13, <2>1, <2>2, <2>3 DEF StageInv, StagesHold
  <1> QED
    BY <1>15, <1>16, <1>17, <1>18, <1>19, <1>20 DEF StageInv

-----------------------------------------------------------------------------
(* The theorems.                                                             *)

LEMMA StageNext == StageInv /\ Orderly /\ [Ge!Next]_(Ge!vars) => StageInv'
  <1> SUFFICES ASSUME StageInv, Orderly, [Ge!Next]_(Ge!vars) PROVE StageInv'
    OBVIOUS
  <1>1. CASE UNCHANGED Ge!vars
    <2>1. SameStages /\ geReq' = geReq /\ confirmed' = confirmed /\ geRow' = geRow
      BY <1>1 DEF Ge!vars, SameStages, Ge!Groups, Ge!TeamsOf
    <2>2. StageTypes'
      BY <2>1 DEF StageInv, StageTypes, SameStages
    <2> QED
      BY <2>1, <2>2, StagesStay, RequestsStay DEF StageInv
  <1>2. ASSUME NEW t \in Entrants, Ge!Register(t) PROVE StageInv'
    BY <1>2, RegisterStep
  <1>3. ASSUME NEW n \in Ge!Stages, NEW g \in Ge!Groups(n),
               NEW pts \in [Ge!TeamsOf(n, g) -> 0..MaxScore], Ge!SubmitScores(n, g, pts)
        PROVE  StageInv'
    BY <1>3, SubmitScoresStep
  <1>4. ASSUME NEW r \in Requests, Ge!GenerateWrite(r) PROVE StageInv'
    BY <1>4, GenerateWriteStep
  <1>5. ASSUME NEW r \in Requests, Ge!FinalizeWrite(r) PROVE StageInv'
    BY <1>5, FinalizeWriteStep
  <1>6. ASSUME NEW r \in Requests, NEW n \in Ge!Stages, Ge!GenerateRead(r, n) PROVE StageInv'
    BY <1>6, GenerateReadStep
  <1>7. ASSUME NEW r \in Requests, NEW n \in Ge!Stages, Ge!FinalizeRead(r, n) PROVE StageInv'
    BY <1>7, FinalizeReadStep
  <1> QED
    BY <1>1, <1>2, <1>3, <1>4, <1>5, <1>6, <1>7 DEF Ge!Next

\* If nobody generates a stage that is over again and a stage is finalized by one request at a
\* time, every stage lets exactly as many teams through as the next one takes, and those play it,
\* for any plan of full lobbies; registrations may change and scores be corrected throughout.
THEOREM StagesFit ==
    ASSUME Orderly
    PROVE  (Ge!Spec => []Ge!NextStageFits) /\ (SpecAll => []NextStageFits)
  <1>1. StageInv => Ge!NextStageFits
    <2> SUFFICES ASSUME StageInv, NEW n \in Ge!Stages, ~Ge!IsFinal(n)
                 PROVE  /\ geStatus[n] = "COMPLETED" =>
                               Ge!Cardinality(Ge!Through(n)) = Plan[n + 1].units
                        /\ geStatus[n + 1] # "NONE" =>
                               {x.team : x \in {y \in geRow : y.round = n + 1}}
                                   = {q.team : q \in Ge!Through(n)}
      BY DEF Ge!NextStageFits
    <2>1. n \in Nat \ {0} /\ n + 1 \in Ge!Stages /\ Plan[n + 1].units = Plan[n].groups * Plan[n].q
      BY PlanShape
    <2>2. geStatus[n] = "COMPLETED" => Ge!Cardinality(Ge!Through(n)) = Plan[n + 1].units
      BY <2>1, SameCardinality DEF StageInv, StagesHold, Written
    <2>3. ASSUME geStatus[n + 1] # "NONE"
          PROVE  {x.team : x \in {y \in geRow : y.round = n + 1}} = {q.team : q \in Ge!Through(n)}
      <3>1. Dealt(n + 1)
        BY <2>1, <2>3 DEF StageInv, StagesHold
      <3>2. n + 1 > 1 /\ (n + 1) - 1 = n
        BY <2>1
      <3>3. Playing(n + 1) = Advanced(n)
        BY <3>1, <3>2 DEF Dealt
      <3>4. Playing(n + 1) = {x.team : x \in {y \in geRow : y.round = n + 1}}
        BY <3>1 DEF Dealt, Playing, Ge!Groups, Ge!TeamsOf
      <3> QED
        BY <3>3, <3>4 DEF Advanced
    <2> QED
      BY <2>2, <2>3
  <1>2. Ge!Spec => []Ge!NextStageFits
    BY <1>1, StageInit, StageNext, PTL DEF Ge!Spec
  <1>3. NextStageFits <=> Ge!NextStageFits
    BY DEF NextStageFits
  <1> QED
    BY <1>2, <1>3, EachBracketRuns, PTL
=============================================================================
