------------------------------- MODULE LoopFSM -------------------------------
(***************************************************************************)
(* The pure part of the consilium loop controller                          *)
(* (server/services/consilium/consilium-loop-controller.ts): the states a  *)
(* loop row can be in, the transition table `reduce`, and the decision     *)
(* taken from a review verdict (`decide`, `isAntiStall`).                  *)
(*                                                                         *)
(* The table is kept as a set of edges.  The options of `reduce` that      *)
(* change it are parameters: vbm is verifyBeforeMerge, gated is the loop's *)
(* reviewGate.                                                             *)
(***************************************************************************)
EXTENDS Integers, FiniteSets, Sequences

Terminal == {"converged", "stopped_cap", "escalated", "failed", "cancelled", "stopped"}

Active == {"pending", "building_context", "reviewing", "deciding", "developing",
           "awaiting_merge", "throttled"}

LoopStates == Active \union Terminal

(* "none": the row has not been created. *)
RowStates == LoopStates \union {"none"}

(* A terminal state that carries a verdict to implement, and a gated loop  *)
(* that rests in deciding.                                                 *)
DevelopPromotable(gated) ==
  {"stopped_cap", "converged", "escalated"} \union (IF gated THEN {"deciding"} ELSE {})

-----------------------------------------------------------------------------
(* The transition table.                                                   *)

Edge(from, on, to) == [from |-> from, on |-> on, to |-> to]

(* Events only an operator's command injects. *)
CommandEdges(gated) ==
  {Edge(s, "cancel", "cancelled") : s \in Active} \union
  {Edge(s, "finish", "stopped") : s \in Active} \union
  {Edge(s, "develop_requested", "developing") : s \in DevelopPromotable(gated)} \union
  {Edge("deciding", "rereview_requested", "building_context"),
   Edge("throttled", "retry_review", "building_context"),
   Edge("throttled", "retry_develop", "developing")}

(* Mutant: a clean close-out goes to the merge gate without confirmation. *)
TickEdgesUnconfirmed(vbm) ==
  {Edge("pending", "start", "building_context"),
   Edge("building_context", "context_built", "reviewing"),
   Edge("reviewing", "review_completed", "deciding"),
   Edge("developing", "dev_clean", "awaiting_merge")}

(* Events a tick derives from the row and its child job. *)
TickEdges(vbm) ==
  {Edge("pending", "start", "building_context"),
   Edge("building_context", "context_built", "reviewing"),
   Edge("reviewing", "review_completed", "deciding"),
   Edge("reviewing", "review_failed", "failed"),
   Edge("reviewing", "review_throttled", "throttled"),
   Edge("developing", "dev_limited", "throttled"),
   Edge("developing", "dev_broken", "awaiting_merge"),
   Edge("developing", "dev_clean", IF vbm THEN "building_context" ELSE "awaiting_merge")}

(* The human merge gate: the final ship when the confirmation review comes *)
(* before it, the entry of the next review round otherwise.                *)
MergeEdges(vbm) ==
  {Edge("awaiting_merge", "merge_approved", IF vbm THEN "converged" ELSE "building_context")}

(* What `decide` and the cap check of the tick can make of a verdict. *)
DecideEdges(vbm) ==
  {Edge("deciding", "decided", s) :
     s \in {"converged", "escalated", "developing", "stopped_cap"} \union
           (IF vbm THEN {"awaiting_merge"} ELSE {})}

Edges(vbm, gated) ==
  CommandEdges(gated) \union TickEdges(vbm) \union MergeEdges(vbm) \union DecideEdges(vbm)

(* `reduce` for the events with one successor: the set is empty when the   *)
(* event is a no-op in that state.                                         *)
Reduce(state, event, vbm, gated) ==
  {e.to : e \in {d \in Edges(vbm, gated) : d.from = state /\ d.on = event}}

-----------------------------------------------------------------------------
(* Verdicts and decisions.  A verdict says whether the judge converged and *)
(* how many P0 action points stay open.                                    *)

AntiStallMinRound == 3

(* open P0s failed to decrease over the last three entries of the series *)
IsAntiStall(series, round) ==
  LET n == Len(series)
  IN  /\ round >= AntiStallMinRound
      /\ n >= 3
      /\ series[n] >= series[n - 1]
      /\ series[n - 1] >= series[n - 2]

(* The successor of deciding.  `series` ends with the verdict's own count; *)
(* its length is what `decide` takes for the round.                        *)
Decide(verdict, series, vbm) ==
  IF verdict.conv
    THEN IF vbm /\ Len(series) >= 2 THEN "awaiting_merge" ELSE "converged"
    ELSE IF IsAntiStall(series, Len(series)) THEN "escalated" ELSE "developing"

=============================================================================
