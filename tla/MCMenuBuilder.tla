---------------------------- MODULE MCMenuBuilder ----------------------------
(* An instance of MenuBuilder for TLC: a list of one link, and a list of a  *)
(* secured action and one for everybody, whose address depends on the       *)
(* request that builds it and which is shown even when disabled.            *)
EXTENDS MenuBuilder, TLC

CONSTANTS r1, r2, main, office, more, home, users, help, p1, p2

MCRequests == {r1, r2}
MCSymmetry == Permutations(MCRequests)
MCLists == {main, office, more}
MCLinks == {home}
MCActions == {users, help}
MCTree == [l \in MCLists |->
    CASE l = main -> <<more, office>> [] l = office -> <<users, help>> [] l = more -> <<home>>]
MCUrls == {p1, p2}
MCAddress == [n \in MCLinks |-> p1]
MCBuild == [n \in MCActions |-> [p \in MCUrls |-> IF n = help THEN p ELSE p2]]
=============================================================================
