----------------------------- MODULE MCSchedule -----------------------------
(* Finite instances of Schedule: the hours of skip_detector.py and of the  *)
(* LaunchAgent.                                                            *)
EXTENDS Schedule

Expected == 9..23
Fired    == {0} \cup 9..23
=============================================================================
