------------------------------ MODULE MCIntake ------------------------------
(* Finite instances of Intake for what the documents say of the router.    *)
EXTENDS Intake

(* The limits of the code: eight items, quotas of 7, 1 and 4.              *)
Quotas == <<7, 1, 4>>

(* Five posts of Hacker News, one more than the quota of its tier, and one *)
(* post by itself.                                                         *)
FivePosts == {<<p, "hackernews">> : p \in Posts}
OnePost   == {<<"post", "hackernews">>}

(* Scaled down: the threshold of a post, and the one it must meet while it *)
(* is young.                                                               *)
Thresholds == [s \in TierThree |-> 2]
NoLimits   == [s \in TierThree |-> 0]
=============================================================================
