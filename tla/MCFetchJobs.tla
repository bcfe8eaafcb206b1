----------------------------- MODULE MCFetchJobs -----------------------------
(* Small instances of FetchJobs for TLC. *)
EXTENDS FetchJobs

CONSTANTS moss, ace, tab1, tab2, p1, p2, p3

OneJob  == {moss}
TwoJobs == {moss, ace}
OneTab  == {tab1}
TwoTabs == {tab1, tab2}
TwoPids == {p1, p2}
ThreePids == {p1, p2, p3}

Sym == Permutations(Pids) \cup Permutations(Clients)
=============================================================================
