------------------------------- MODULE MCSignIn -------------------------------
(* Two people, two tabs, two logins.                                         *)
EXTENDS SignIn, TLC

Symmetry == Permutations(People) \union Permutations(Tabs)

(* The behaviours in which no session ends during a removal: every handler   *)
(* finds out who acts.                                                       *)
SteadySpec == Init /\ [][Next /\ \A t \in Tabs : ~tab'[t].blind]_vars
=============================================================================
