--------------------------- MODULE MCTokenService ---------------------------
(***************************************************************************)
(* TokenService for TLC, on a registry with one profile of every kind: a   *)
(* group of two (one of them the source of the assets), two groups of one  *)
(* that need remote code, and a profile outside the groups.  The group of  *)
(* two stands for GLM or DeepSeek; its source needs no template tokenizer. *)
(* The first thread makes more calls than the second.                      *)
(***************************************************************************)
EXTENDS TokenService

CONSTANTS t1, t2, MaxFirst, MaxSecond,
          glm, glmSource, kimi, kimi3, minimax, glmGroup, kimiGroup, kimi3Group

MCGroupOf == [p \in Profiles |->
                CASE p \in {glm, glmSource} -> glmGroup
                  [] p = kimi -> kimiGroup
                  [] p = kimi3 -> kimi3Group
                  [] p = minimax -> None]
MCGroups == {MCGroupOf[p] : p \in Profiles} \ {None}
MCSourceOf == [g \in MCGroups |->
                CASE g = glmGroup -> glmSource
                  [] g = kimiGroup -> kimi
                  [] g = kimi3Group -> kimi3]
MCBudget == [g \in MCGroups |-> IF g = glmGroup THEN 512 ELSE 256]
MCTemplated == Profiles \ {glmSource}
MCRemote == Profiles \cap {kimi, kimi3}
MCMaxCounts == [t \in Threads |-> IF t = t1 THEN MaxFirst ELSE MaxSecond]
=============================================================================
