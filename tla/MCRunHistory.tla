---------------------------- MODULE MCRunHistory ----------------------------
(* Instances of RunHistory for TLC. *)
EXTENDS RunHistory, TLC

CONSTANTS s1, t1, t2, c1, c2

OneSession == {s1}
OneTask == {t1}
TwoTasks == {t1, t2}
OneClient == {c1}
TwoClients == {c1, c2}

Cron == {<<s1, t1>>}
Second == {<<s1, t2>>}
None == {}

ClientSymmetry == Permutations({c1, c2})
=============================================================================
