----------------------------- MODULE MCBrackets -----------------------------
(***************************************************************************)
(* The two brackets a tournament can be played with, the eight group       *)
(* bracket, which this module extends, and the planned stages, explored    *)
(* one at a time: active is the bracket that is played, the other rests in *)
(* its initial state. A tournament has one of them, so that they never     *)
(* write the same rows.                                                    *)
(***************************************************************************)
EXTENDS BracketStages, TLC

CONSTANTS
    t1, t2, t3, t4, t5,   \* teams
    r1, r2,               \* requests
    Entrants, Plan,       \* the teams and the stages of a planned bracket
    Parts                 \* the brackets that are played

\* What the path search proposes: full lobbies, and a next stage as large as what the groups
\* let through. Round types have names for five rounds and the final.
ASSUME PlanAssumption ==
    /\ IsFiniteSet(Entrants)
    /\ Plan \in Seq([units : Nat \ {0}, groups : Nat \ {0}, q : Nat]) /\ Len(Plan) <= 6
    /\ \A n \in 1..Len(Plan) : Plan[n].units % Plan[n].groups = 0
    /\ \A n \in 1..(Len(Plan) - 1) : /\ Plan[n].q <= Plan[n].units \div Plan[n].groups
                                     /\ Plan[n + 1].units = Plan[n].groups * Plan[n].q

MCTeams == {t1, t2, t3, t4}
MCRequests == {r1, r2}
MCEntrants == MCTeams \cup {t5}
\* Four units play two groups of two, then one group of two, then the final.
MCPlan == << [units |-> 4, groups |-> 2, q |-> 1],
             [units |-> 2, groups |-> 1, q |-> 1],
             [units |-> 1, groups |-> 1, q |-> 0] >>

VARIABLES
    active,
    confirmed, geStatus, geRow, geQual, geReq

geVars == <<confirmed, geStatus, geRow, geQual, geReq>>
allVars == <<active, vars, geVars>>

Ge == INSTANCE GenericBracket WITH Teams <- Entrants,
          status <- geStatus, row <- geRow, qual <- geQual, req <- geReq

InitAll ==
    /\ active \in Parts
    /\ Init /\ Ge!Init

Bracket == active = "bracket" /\ Next /\ UNCHANGED <<active, geVars>>
Generic == active = "generic" /\ Ge!Next /\ UNCHANGED <<active, vars>>

NextAll == Bracket \/ Generic

SpecAll == InitAll /\ [][NextAll]_allVars

Symmetry == UNION {Permutations(S) : S \in {Teams, Requests}}

-----------------------------------------------------------------------------
\* A finalized stage lets exactly as many rows through as the next stage of the plan
\* takes (generateStage counts the rows, and one too many blocks the tournament), and
\* those play it, whatever has become of the registrations since.
NextStageFits == Ge!NextStageFits
=============================================================================
