---------------------------- MODULE MCWorkflows ----------------------------
(* The two chains of workflows share nothing: a behaviour is of the events   *)
(* of one pull request through CIPipeline, or of the events of several       *)
(* through ReviewPipeline.                                                   *)
EXTENDS CIPipeline

CONSTANTS PullRequests, MaxReviewEvents,
          MaxUnordered    \* bound: events when post runs may overtake each other

VARIABLES event, step, stopped, uploaded, review
reviewVars == <<event, step, stopped, uploaded, review>>

R == INSTANCE ReviewPipeline
       WITH cancelled <- stopped, artifact <- uploaded, MaxEvents <- MaxReviewEvents

WorkflowsInit == Init /\ R!Init

WorkflowsNext ==
  \/ event = <<>> /\ Next /\ (inOrder \/ head' <= MaxUnordered) /\ UNCHANGED reviewVars
  \/ head = 0 /\ inOrder /\ R!Next /\ UNCHANGED vars

\* Neither chain has a step to take, and so to be fair about, in a behaviour
\* of the other.
WorkflowsSpec == WorkflowsInit /\ [][WorkflowsNext]_<<vars, reviewVars>> /\ Fairness /\ R!Fairness

\* An event that calls for a review leads to one, unless a later event of its
\* own concurrency group comes (review-trigger.yml, review.yml).
ReviewedOrSuperseded == R!ReviewedOrSuperseded
=============================================================================
