----------------------------- MODULE MCSessions -----------------------------
(* Small instances of Sessions for TLC.                                    *)
EXTENDS Sessions, TLC

\* Requests are interchangeable.
RequestSymmetry == Permutations(Request)

\* Two of an outage of the cache, a request cut short and a grace window that ends.
TroublesBound == spent.outage + spent.cancel + clock <= 2

LiveSpec == Init /\ [][Next /\ TroublesBound']_vars /\ Fairness

\* Of several sessions one is rotated, and all but one are dropped from the cache in time.
OneRotated == \A s, t \in Session : signed[s] > 1 /\ signed[t] > 1 => s = t
OneRaced == \A s, t \in raced : s = t

SafetySpec == Init /\ [][Next /\ OneRotated' /\ OneRaced']_vars
=============================================================================
