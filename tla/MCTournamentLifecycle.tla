----------------------- MODULE MCTournamentLifecycle -----------------------
(* Model values and environments for checking TournamentLifecycle with TLC. *)
EXTENDS TournamentLifecycle, TLC

CONSTANTS m1, m2, s1, s2, a1, a2

OneMatch == {m1}
TwoMatches == {m1, m2}
OneRun == {s1}
TwoRuns == {s1, s2}
OneAdmin == {a1}
TwoAdmins == {a1, a2}
RunSymmetry == Permutations(TwoRuns)
MatchSymmetry == Permutations(TwoMatches)
=============================================================================
