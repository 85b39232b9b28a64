----------------------------- MODULE CIPipeline -----------------------------
(***************************************************************************)
(* The workflows of one pull request: every event starts a run of          *)
(* Continuous Integration (.github/workflows/ci.yml) and cancels the       *)
(* earlier ones of its concurrency group; every completed run, cancelled   *)
(* ones too, starts a run of Post Continuous Integration (post-ci.yml),    *)
(* which has no group: its steps interleave with those of other runs.      *)
(* The scheduling of runs and jobs is GitHub's.                            *)
(***************************************************************************)
EXTENDS Integers, Sequences, SequencesExt

CONSTANTS Jobs,         \* "save-pr" and jobs that check the proposal
          MaxEvents     \* bound: events of the pull request

ASSUME PipelineAssumption == "save-pr" \in Jobs /\ MaxEvents \in Nat \ {0}

Runs == 1 .. MaxEvents

VARIABLES head,          \* number of events so far, and the newest run
          job,           \* state of each job of each run
          cancelled,     \* runs asked to stop
          artifact,      \* runs whose pull request metadata is uploaded
          completions,   \* completed runs, in the order of completion
          post,          \* step of the post run of each run
          commented,     \* runs whose failure is commented on
          waiting,       \* the pull request has the label w-ci
          inOrder        \* whether completed events are served one by one, in
                         \* order: GitHub's choice, made once
ciVars == <<head, job, cancelled, artifact, completions>>
postVars == <<post, commented, waiting, inOrder>>
vars == <<ciVars, postVars>>

Init ==
  /\ head = 0
  /\ job = [n \in Runs |-> [j \in Jobs |-> "pending"]]
  /\ cancelled = {} /\ artifact = {} /\ completions = <<>>
  /\ post = [n \in Runs |-> "none"]
  /\ commented = {} /\ waiting = FALSE
  /\ inOrder \in BOOLEAN

Completed(n) == Contains(completions, n)
Ended(n) == \A j \in Jobs : job[n][j] \in {"success", "failure", "cancelled"}

conclusion(n) ==
  CASE \E j \in Jobs : job[n][j] = "cancelled" -> "cancelled"
    [] \A j \in Jobs : job[n][j] = "success" -> "success"
    [] OTHER -> "failure"

\* Mutant of PullRequestEvent: the event's own run is among the cancelled.
PullRequestEventCancelsAll ==
  /\ head < MaxEvents
  /\ head' = head + 1
  /\ cancelled' = {n \in 1 .. head + 1 : ~Completed(n)}
  /\ UNCHANGED <<job, artifact, completions, postVars>>

\* cancel-in-progress: whatever of the group has not completed is to stop.
PullRequestEvent ==
  /\ head < MaxEvents
  /\ head' = head + 1
  /\ cancelled' = cancelled \cup {n \in 1 .. head : ~Completed(n)}
  /\ UNCHANGED <<job, artifact, completions, postVars>>

\* Mutant of StartRun: without a concurrency group, a run waits for no other.
StartRunAtOnce(n) ==
  /\ n <= head /\ (\A j \in Jobs : job[n][j] = "pending") /\ n \notin cancelled
  /\ job' = [job EXCEPT ![n] = [j \in Jobs |-> "running"]]
  /\ UNCHANGED <<head, cancelled, artifact, completions, postVars>>

\* One run of the group is in progress at a time.
StartRun(n) ==
  /\ n <= head /\ (\A j \in Jobs : job[n][j] = "pending") /\ n \notin cancelled
  /\ \A k \in 1 .. n - 1 : Completed(k)
  /\ job' = [job EXCEPT ![n] = [j \in Jobs |-> "running"]]
  /\ UNCHANGED <<head, cancelled, artifact, completions, postVars>>

UploadArtifact(n) ==
  /\ job[n]["save-pr"] = "running"
  /\ artifact' = artifact \cup {n}
  /\ UNCHANGED <<head, job, cancelled, completions, postVars>>

\* A job of a run asked to stop may still end by itself.
JobEnds(n, j) ==
  \E outcome \in {"success", "failure", "cancelled"} :
    /\ \/ job[n][j] = "running"
       \/ job[n][j] = "pending" /\ outcome = "cancelled"
    /\ outcome = "cancelled" => n \in cancelled
    /\ j = "save-pr" /\ outcome = "success" => n \in artifact
    /\ job' = [job EXCEPT ![n][j] = outcome]
    /\ UNCHANGED <<head, cancelled, artifact, completions, postVars>>

Complete(n) ==
  /\ n <= head /\ Ended(n) /\ ~Completed(n)
  /\ completions' = Append(completions, n)
  /\ post' = [post EXCEPT ![n] = "queued"]
  /\ UNCHANGED <<head, job, cancelled, artifact, commented, waiting, inOrder>>

-----------------------------------------------------------------------------
PostDone(n) == post[n] \in {"done", "failed"}

\* Mutant of Fetch: only a successful run is looked up for the artifact.
FetchOfSuccess(n) ==
  /\ post[n] = "queued"
  /\ inOrder => \A i \in 1 .. Len(completions) - 1 : completions[i + 1] = n => PostDone(completions[i])
  /\ post' = [post EXCEPT ![n] = IF n \in artifact /\ conclusion(n) = "success"
                                 THEN "comment" ELSE "failed"]
  /\ UNCHANGED <<ciVars, commented, waiting, inOrder>>

\* Fetch PR Number, Save PR Data: without the artifact the run fails here.
Fetch(n) ==
  /\ post[n] = "queued"
  /\ inOrder => \A i \in 1 .. Len(completions) - 1 : completions[i + 1] = n => PostDone(completions[i])
  /\ post' = [post EXCEPT ![n] = IF n \in artifact THEN "comment" ELSE "failed"]
  /\ UNCHANGED <<ciVars, commented, waiting, inOrder>>

AddComment(n) ==
  /\ post[n] = "comment"
  /\ post' = [post EXCEPT ![n] = "label"]
  /\ commented' = IF conclusion(n) = "failure" THEN commented \cup {n} ELSE commented
  /\ UNCHANGED <<ciVars, waiting, inOrder>>

\* Add Waiting Label, Remove Waiting Label
ChangeLabel(n) ==
  /\ post[n] = "label"
  /\ post' = [post EXCEPT ![n] = "done"]
  /\ waiting' = (conclusion(n) = "failure")
  /\ UNCHANGED <<ciVars, commented, inOrder>>

RunStep(n) ==
  \/ StartRun(n) \/ UploadArtifact(n) \/ Complete(n)
  \/ \E j \in Jobs : JobEnds(n, j)

PostStep(n) == Fetch(n) \/ AddComment(n) \/ ChangeLabel(n)

AllDone == (\A n \in 1 .. head : PostDone(n)) /\ UNCHANGED vars

Next == PullRequestEvent \/ (\E n \in Runs : RunStep(n) \/ PostStep(n)) \/ AllDone

\* Runners take every run, and end every job: there is a time limit.
Fairness ==
  \A n \in Runs : /\ WF_vars(StartRun(n)) /\ WF_vars(Complete(n)) /\ WF_vars(PostStep(n))
                  /\ \A j \in Jobs : WF_vars(JobEnds(n, j))

Spec == Init /\ [][Next]_vars /\ Fairness

-----------------------------------------------------------------------------
\* When completed events are served in order and nothing is running, the label
\* tells how the checks of the newest event ended, provided its metadata could
\* be fetched: no cancelled run of an older one has the last word.
LabelTellsHead ==
  inOrder /\ head \in artifact /\ (\A n \in 1 .. head : PostDone(n))
    => (waiting <=> conclusion(head) = "failure")

\* The run of an event ends with a verdict, or a newer event takes its place.
HeadIsJudged ==
  \A n \in Runs : head = n ~> (Completed(n) /\ conclusion(n) # "cancelled") \/ head > n

\* A failure is reported, however the post runs interleave, once the metadata
\* of its pull request is uploaded.
FailureReported ==
  \A n \in Runs : Completed(n) /\ conclusion(n) = "failure" /\ n \in artifact ~> n \in commented
=============================================================================
