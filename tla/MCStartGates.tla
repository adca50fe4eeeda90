---------------------------- MODULE MCStartGates ----------------------------
(* Instances of StartGates for TLC. *)
EXTENDS StartGates, TLC

CONSTANTS s1, s2, t1, t2, c1, c2, e1, e2, q1, q2

ThreeTasks == {<<s1, t1>>, <<s1, t2>>, <<s2, t1>>}

\* One task needs two others: one of another session, one of its own.
TwoNeeds == {<<<<s1, t1>>, <<s2, t1>>>>, <<<<s1, t1>>, <<s1, t2>>>>}

CapOne == {[scope |-> NodeWide, limit |-> 1], [scope |-> s1, limit |-> 1]}

OneStarter == {c1}
TwoStarters == {c1, c2}
OneEditor == {e1}
OneQuota == {q1}

StarterSymmetry == Permutations({c1, c2})
=============================================================================
