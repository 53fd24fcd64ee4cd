---------------------------- MODULE MCJobQueue ----------------------------
(*****************************************************************************)
(* Small instances of JobQueue: an annotation and a title job about one      *)
(* article, and an impact job of another.                                    *)
(*****************************************************************************)
EXTENDS JobQueue, TLC

CONSTANTS ann, imp, tit, c1, c2

MCTaskType == [j \in Jobs |-> CASE j = ann -> "ACTIVE_ANNOTATION"
                                [] j = imp -> "ACTIVE_IMPACT"
                                [] j = tit -> "TITLE_TRANSLATION"]
MCIdRank == [j \in Jobs |-> CASE j = ann -> 2 [] j = imp -> 1 [] j = tit -> 3]
MCLaneOf == [j \in Jobs |-> IF j = tit THEN "CONTRACT_BACKFILL" ELSE "LIVE"]
MCPriorityOf == [j \in Jobs |-> CASE j = ann -> "FAST" [] j = imp -> "NORMAL"
                                  [] j = tit -> "BACKGROUND"]
MCContent == [j \in Jobs |-> IF j = imp THEN c2 ELSE c1]
RequestSymmetry == Permutations(Requests)
LaneSymmetry == Permutations(Workers)
MCPoolOf == [w \in Workers |-> "ROUTINE"]
=============================================================================
