--------------------------- MODULE MCNewsPipeline ---------------------------
(* Finite instances of NewsPipeline: the sources list one item twice, or   *)
(* two items once each.  The second instance is of runs that send each     *)
(* item, over a database without errors of its own: it is there for what   *)
(* two items add, a run that inserts one while the other run has collided  *)
(* on the other.                                                           *)
EXTENDS NewsPipeline

VARIABLE listed

AnItem == CHOOSE i \in Items : TRUE
Twice  == [i \in Items |-> IF i = AnItem THEN MaxCopies ELSE 0]
Both   == [i \in Items |-> 1]

MCInit == Init /\ listed \in {Twice, Both}

MCNext ==
    /\ Next
    /\ UNCHANGED listed
    /\ \A r \in Runs, i \in Items : fetched'[r][i] <= listed[i]
    /\ listed = Both =>
          /\ UNCHANGED faults
          /\ \A r \in Runs : pc'[r] \notin {"hold", "digest", "force"}

MCSpec == MCInit /\ [][MCNext]_<<vars, listed>> /\ Fairness
=============================================================================
