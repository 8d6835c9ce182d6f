------------------------- MODULE MCSlotAllocation -------------------------
(* Model values and environments for checking SlotAllocation with TLC.      *)
EXTENDS SlotAllocation, TLC

CONSTANTS t1, t2, t3, r1, r2

TwoTeams == {t1, t2}
ThreeTeams == {t1, t2, t3}
OneRequest == {r1}
TwoRequests == {r1, r2}
TeamSymmetry == Permutations(TwoTeams)
ThreeTeamSymmetry == Permutations(ThreeTeams)
PairSymmetry == Permutations(TwoTeams) \cup Permutations(TwoRequests)

MinusOne == -1

\* Every race of the handlers, at a capacity no admin lowers and with approvals
\* required throughout (SlotsAccounted is proved without that).
NoShrink == EnvBehaviours \ {"shrink", "toggle"}
=============================================================================
