----------------------------- MODULE MCSignIn -----------------------------
(* Instances of SignIn for TLC.                                            *)
EXTENDS SignIn, TLC

\* Attempts are interchangeable, and so are links.
SignInSymmetry == Permutations(Attempt) \cup Permutations(Link)

\* Reset links that were ever issued, and second-step tokens that are out, together.
OutBound ==
  Cardinality(challenge) + Cardinality({t \in Link : link[t] # "none"}) <= Cardinality(Link)

\* An attempt is cut short while guesses are counted, of an account that is there.
CutWhileCounted == cancels' > cancels => count > 0 /\ status # "deleted"

LiveSpec == Init /\ [][Next /\ CutWhileCounted]_vars /\ Fairness

SafetySpec == Init /\ [][Next /\ OutBound']_vars
===========================================================================
