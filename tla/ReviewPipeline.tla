--------------------------- MODULE ReviewPipeline ---------------------------
(***************************************************************************)
(* Review Trigger (.github/workflows/review-trigger.yml) and Review        *)
(* (review.yml).  An event starts a trigger run and cancels the one in     *)
(* progress of its concurrency group; a trigger run uploads the number of  *)
(* the pull request when the event calls for a review; every completed     *)
(* trigger run starts a review run.  Scheduling is GitHub's.               *)
(***************************************************************************)
EXTENDS Integers, Sequences

CONSTANTS PullRequests,  \* numbers, from 1 on
          MaxEvents      \* bound: events

\* Events of a person and of a bot, comments that ask for a rerun or not (on
\* whatever issue), and a manual start.
Kinds == {"pull_request_target", "bot_review", "rerun_comment", "comment", "workflow_dispatch"}

VARIABLES event,        \* the events, a trigger run for each
          step,         \* step of each trigger run
          cancelled,    \* trigger runs asked to stop
          artifact,     \* trigger runs that have uploaded the number
          review        \* what became of the review run of each
vars == <<event, step, cancelled, artifact, review>>

Runs == DOMAIN event
DefaultBranch == 0    \* refs/heads/master

Init == event = <<>> /\ step = <<>> /\ cancelled = {} /\ artifact = {} /\ review = <<>>

\* Without a pull_request in the event, the group is that of github.ref.
group(e) == IF e.kind \in {"pull_request_target", "bot_review"} THEN e.pr ELSE DefaultBranch

\* A person's event, unlike a bot's, and a comment with @eth-bot rerun.
WantsReview(e) == e.kind \notin {"bot_review", "comment"}

InProgress(n) == step[n] # "completed"

\* Mutant of Event: only the default branch makes a group.
EventOneGroup(e) ==
  /\ Len(event) < MaxEvents
  /\ event' = Append(event, e) /\ step' = Append(step, "write") /\ review' = Append(review, "none")
  /\ cancelled' = cancelled \cup {n \in Runs : InProgress(n)}
  /\ UNCHANGED artifact

Event(e) ==
  /\ Len(event) < MaxEvents
  /\ event' = Append(event, e) /\ step' = Append(step, "write") /\ review' = Append(review, "none")
  /\ cancelled' = cancelled \cup {n \in Runs : InProgress(n) /\ group(event[n]) = group(e)}
  /\ UNCHANGED artifact

\* The steps that write the number have conditions that exclude each other.
\* One run of a group is in progress at a time.
WritePRNumber(n) ==
  /\ step[n] = "write"
  /\ \A k \in 1 .. n - 1 : group(event[k]) = group(event[n]) => ~InProgress(k)
  /\ step' = [step EXCEPT ![n] = IF WantsReview(event[n]) THEN "save" ELSE "empty"]
  /\ UNCHANGED <<event, cancelled, artifact, review>>

\* if-no-files-found: ignore
SavePRNumber(n) ==
  /\ step[n] \in {"save", "empty"}
  /\ step' = [step EXCEPT ![n] = "completed"]
  /\ artifact' = IF step[n] = "save" THEN artifact \cup {n} ELSE artifact
  /\ review' = [review EXCEPT ![n] = "queued"]
  /\ UNCHANGED <<event, cancelled>>

\* A run asked to stop does so at any step it has not finished.
Cancel(n) ==
  /\ n \in cancelled /\ InProgress(n)
  /\ step' = [step EXCEPT ![n] = "completed"]
  /\ review' = [review EXCEPT ![n] = "queued"]
  /\ UNCHANGED <<event, cancelled, artifact>>

\* Fetch PR Number fails without the artifact; the bot's own failure is ignored.
Review(n) ==
  /\ review[n] = "queued"
  /\ review' = [review EXCEPT ![n] = IF n \in artifact THEN "reviewed" ELSE "failed"]
  /\ UNCHANGED <<event, step, cancelled, artifact>>

RunStep(n) == WritePRNumber(n) \/ SavePRNumber(n) \/ Cancel(n) \/ Review(n)

AllDone ==
  /\ Len(event) = MaxEvents
  /\ \A n \in Runs : review[n] \in {"reviewed", "failed"}
  /\ UNCHANGED vars

Next ==
  \/ \E e \in [kind : Kinds, pr : PullRequests] : Event(e)
  \/ \E n \in Runs : RunStep(n)
  \/ AllDone

\* Runners take every step of every run.
Fairness == \A n \in 1 .. MaxEvents : WF_vars(n \in Runs /\ RunStep(n))

Spec == Init /\ [][Next]_vars /\ Fairness

-----------------------------------------------------------------------------
\* Some later event of the same group, whoever caused it.
Superseded(n) == \E k \in Runs : k > n /\ group(event[k]) = group(event[n])

\* An event that calls for a review leads to one, unless a later event of its
\* own concurrency group comes.
ReviewedOrSuperseded ==
  \A n \in 1 .. MaxEvents :
    n \in Runs /\ WantsReview(event[n])
      ~> n \in Runs /\ (review[n] = "reviewed" \/ Superseded(n))

-----------------------------------------------------------------------------
(* What the workflow is for and the code does otherwise. *)

\* An event that calls for a review leads to a review of its pull request, by
\* its own run or that of a later event.
PullRequestReviewed ==
  \A n \in 1 .. MaxEvents :
    n \in Runs /\ WantsReview(event[n])
      ~> \E k \in Runs : k >= n /\ event[k].pr = event[n].pr /\ review[k] = "reviewed"
=============================================================================
