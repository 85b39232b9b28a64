--------------------------- MODULE CIPipelineProofs ---------------------------
(***************************************************************************)
(* Why the label of a pull request is that of its newest event when the    *)
(* completed events are served in order: concurrency makes the newest run  *)
(* the last one to complete, and order makes it the last one to be served. *)
(***************************************************************************)
EXTENDS CIPipeline, TLAPS

TypeOK ==
  /\ head \in 0 .. MaxEvents
  /\ job \in [Runs -> [Jobs -> {"pending", "running", "success", "failure", "cancelled"}]]
  /\ cancelled \subseteq {n \in Runs : n < head}
  /\ artifact \subseteq Runs
  /\ completions \in Seq(Runs)
  /\ post \in [Runs -> {"none", "queued", "comment", "label", "done", "failed"}]
  /\ waiting \in BOOLEAN

Started(n) == \E j \in Jobs : job[n][j] # "pending"

\* Runs come into being with their events, and complete when all jobs ended.
Ordered ==
  /\ \A n \in Runs : Started(n) => n <= head
  /\ \A n \in Runs : Completed(n) => n <= head /\ Ended(n)
  /\ head \in Runs /\ Started(head) => \A k \in 1 .. head - 1 : Completed(k)

\* The list of completions has no run twice, and the newest run at its end.
NewestLast ==
  \A i \in 1 .. Len(completions) :
    /\ \A j \in 1 .. Len(completions) : completions[i] = completions[j] => i = j
    /\ completions[i] = head => i = Len(completions)

\* A run is served after all that completed before it.
Served ==
  /\ \A n \in Runs : Completed(n) <=> post[n] # "none"
  /\ \A i, j \in 1 .. Len(completions) :
       i < j /\ post[completions[j]] # "queued" => PostDone(completions[i])

Labelled ==
  /\ \A n \in Runs : post[n] = "failed" => n \notin artifact
  /\ head \in Runs /\ post[head] = "done" => (waiting <=> conclusion(head) = "failure")

Inv == TypeOK /\ Ordered /\ NewestLast /\ Served /\ Labelled

-----------------------------------------------------------------------------

\* Nothing has happened and no label is set.
LEMMA InitKeeps == Init => Inv
<1> SUFFICES ASSUME Init PROVE Inv
  OBVIOUS
<1> USE PipelineAssumption DEF PipelineAssumption, Init, Runs, PostDone, Started, Completed, Contains
<1>1. TypeOK
  <2>1. head \in 0 .. MaxEvents
    OBVIOUS
  <2>2. completions \in Seq(Runs)
    OBVIOUS
  <2>3. waiting \in BOOLEAN
    OBVIOUS
  <2>4. QED BY <2>1, <2>2, <2>3 DEF TypeOK
<1>2. Ordered
  BY DEF Ordered
<1>3. NewestLast
  BY DEF NewestLast
<1>4. Served
  BY DEF Served
<1>5. Labelled
  BY DEF Labelled
<1>6. QED BY <1>1, <1>2, <1>3, <1>4, <1>5 DEF Inv

\* A new event finds no trace of its run.
LEMMA EventKeeps == Inv /\ PullRequestEvent => Inv'
<1> SUFFICES ASSUME Inv, PullRequestEvent PROVE Inv'
  OBVIOUS
<1> USE PipelineAssumption DEF PipelineAssumption, Inv, PullRequestEvent, postVars, Runs, PostDone, Started,
                               Completed, Contains, Ended
<1>1. head + 1 \in Runs /\ head' = head + 1 /\ head \in Nat
  BY DEF TypeOK
<1>2. ~Started(head + 1) /\ ~Completed(head + 1)
  BY <1>1 DEF Ordered
<1>3. TypeOK'
  <2>1. ASSUME NEW n \in cancelled' PROVE n \in Runs /\ n < head'
    <3>1. CASE n \in cancelled
      BY <1>1, <3>1 DEF TypeOK
    <3>2. CASE n \in 1 .. head
      BY <1>1, <3>2
    <3>3. QED BY <2>1, <3>1, <3>2
  <2>2. cancelled' \subseteq {n \in Runs : n < head'}
    BY <2>1
  <2>3. head' \in 0 .. MaxEvents
    BY <1>1 DEF TypeOK
  <2>4. QED BY <2>2, <2>3 DEF TypeOK
<1>4. Ordered'
  BY <1>1, <1>2 DEF Ordered, TypeOK
<1>5. NewestLast'
  BY <1>1, <1>2 DEF NewestLast
<1>6. Served'
  BY DEF Served
<1>7. Labelled'
  BY <1>1, <1>2 DEF Labelled, Served
<1>8. QED BY <1>3, <1>4, <1>5, <1>6, <1>7

\* Jobs and uploads are those of a run that has not completed.
LEMMA JobsKeep ==
  ASSUME Inv, NEW n \in Runs,
         StartRun(n) \/ UploadArtifact(n) \/ \E j \in Jobs : JobEnds(n, j)
  PROVE  Inv'
<1> USE PipelineAssumption DEF PipelineAssumption, Inv
<1>1. ~Completed(n) /\ n <= head
  <2>1. \E j \in Jobs : job[n][j] \in {"pending", "running"}
    BY DEF StartRun, UploadArtifact, JobEnds
  <2>2. ~Completed(n)
    BY <2>1 DEF Ordered, Ended
  <2>3. CASE StartRun(n)
    BY <2>2, <2>3 DEF StartRun
  <2>4. CASE n \in cancelled
    BY <2>2, <2>4 DEF TypeOK, Runs
  <2>5. CASE \E j \in Jobs : job[n][j] = "running"
    BY <2>2, <2>5 DEF Ordered, Started
  <2>6. QED BY <2>3, <2>4, <2>5 DEF UploadArtifact, JobEnds
<1>2. /\ UNCHANGED <<head, cancelled, completions, post, waiting>>
      /\ \A k \in Runs \ {n} : job'[k] = job[k]
      /\ \A k \in Runs \ {n} : k \in artifact' <=> k \in artifact
  BY DEF StartRun, UploadArtifact, JobEnds, postVars, TypeOK
<1>3. TypeOK'
  <2>1. CASE StartRun(n)
    BY <2>1 DEF StartRun, postVars, TypeOK
  <2>2. CASE UploadArtifact(n)
    BY <2>2 DEF UploadArtifact, postVars, TypeOK
  <2>3. ASSUME NEW j \in Jobs, JobEnds(n, j) PROVE TypeOK'
    BY <2>3 DEF JobEnds, postVars, TypeOK
  <2>4. QED BY <2>1, <2>2, <2>3
<1>4. head = n /\ Started(n)' => \A k \in 1 .. n - 1 : Completed(k)
  BY DEF StartRun, UploadArtifact, JobEnds, Ordered, TypeOK, Started
<1>5. Ordered'
  BY <1>1, <1>2, <1>4 DEF Ordered, Started, Completed, Ended
<1>6. NewestLast'
  BY <1>2 DEF NewestLast
<1>7. Served'
  BY <1>2 DEF Served, Completed, PostDone
<1>8. Labelled'
  BY <1>1, <1>2 DEF Labelled, Served, conclusion
<1>9. QED BY <1>3, <1>5, <1>6, <1>7, <1>8

\* A run completes once, and the newest after all others.
LEMMA CompleteKeeps == ASSUME Inv, NEW n \in Runs, Complete(n) PROVE Inv'
<1> USE PipelineAssumption DEF PipelineAssumption, Inv, Complete
<1> DEFINE last == Len(completions) + 1
<1>1. /\ completions' \in Seq(Runs) /\ Len(completions') = last /\ last \in Nat \ {0}
      /\ completions'[last] = n
      /\ \A i \in 1 .. last - 1 : completions'[i] = completions[i] /\ completions[i] \in Runs
  BY DEF TypeOK
<1>2. \A i \in 1 .. last - 1 : completions[i] # n
  BY <1>1 DEF Completed, Contains
<1>3. \A k \in Runs : Completed(k)' <=> Completed(k) \/ k = n
  BY <1>1 DEF Completed, Contains
<1>4. Started(n) /\ head \in Runs
  <2>1. job[n]["save-pr"] # "pending"
    BY DEF Ended
  <2>2. QED BY <2>1 DEF Started, TypeOK, Runs
<1>5. Completed(head) => n = head
  BY <1>4 DEF Ordered, Ended, Started, Completed, Runs
<1>6. TypeOK'
  BY <1>1 DEF TypeOK
<1>7. Ordered'
  <2>1. \A k \in 1 .. head - 1 : k \in Runs
    BY <1>4 DEF Runs
  <2>2. QED BY <1>3, <2>1 DEF Ordered, Started, Ended
<1>8. NewestLast'
  BY <1>1, <1>2, <1>5 DEF NewestLast, Completed, Contains
<1>9. Served'
  <2>1. \A k \in Runs : Completed(k)' <=> post'[k] # "none"
    BY <1>3 DEF Served, TypeOK
  <2>2. ASSUME NEW i \in 1 .. last, NEW j \in 1 .. last, i < j, post'[completions'[j]] # "queued"
        PROVE  post'[completions'[i]] \in {"done", "failed"}
    <3>1. completions'[j] # n
      BY <2>2, <1>1 DEF TypeOK
    <3>2. j \in 1 .. last - 1 /\ i \in 1 .. last - 1
      BY <2>2, <3>1, <1>1
    <3>3. post[completions[j]] # "queued"
      BY <2>2, <3>2, <1>1, <1>2 DEF TypeOK
    <3>4. post[completions[i]] \in {"done", "failed"}
      BY <2>2, <3>2, <3>3 DEF Served, PostDone
    <3>5. QED BY <3>2, <3>4, <1>1, <1>2 DEF TypeOK
  <2>3. QED BY <1>1, <2>1, <2>2 DEF Served, PostDone
<1>10. Labelled'
  BY DEF Labelled, TypeOK, conclusion
<1>11. QED BY <1>6, <1>7, <1>8, <1>9, <1>10

\* The post run of the newest run changes the label after all others.
LEMMA PostKeeps == ASSUME inOrder, Inv, NEW n \in Runs, PostStep(n) PROVE Inv'
<1> USE PipelineAssumption DEF PipelineAssumption, Inv, PostStep, Fetch, AddComment, ChangeLabel, ciVars
<1>1. /\ UNCHANGED ciVars
      /\ post[n] \in {"queued", "comment", "label"} /\ post'[n] \in {"comment", "label", "done", "failed"}
      /\ \A k \in Runs \ {n} : post'[k] = post[k]
  BY DEF TypeOK
<1>2. TypeOK'
  BY DEF TypeOK
<1>3. Ordered'
  BY <1>1 DEF Ordered, Started, Completed, Ended
<1>4. NewestLast'
  BY <1>1 DEF NewestLast
<1>5. \A i, j \in 1 .. Len(completions) :
        i < j /\ completions[j] = n => PostDone(completions[i])
  <2> SUFFICES ASSUME NEW i \in 1 .. Len(completions), NEW j \in 1 .. Len(completions),
                      i < j, completions[j] = n
               PROVE  PostDone(completions[i])
    OBVIOUS
  <2>1. CASE post[n] # "queued"
    BY <2>1 DEF Served
  <2>2. CASE post[n] = "queued"
    <3>1. PostDone(completions[j - 1])
      BY <1>1, <2>2 DEF TypeOK
    <3>2. CASE i < j - 1
      BY <3>1, <3>2 DEF Served, PostDone
    <3>3. QED BY <3>1, <3>2
  <2>3. QED BY <2>1, <2>2
<1>6. Served'
  <2>1. \A k \in Runs : Completed(k)' <=> post'[k] # "none"
    BY <1>1 DEF Served, Completed
  <2>2. \A i, j \in 1 .. Len(completions) :
          i < j /\ post'[completions[j]] # "queued" => PostDone(completions[i])'
    BY <1>1, <1>5 DEF Served, PostDone, TypeOK
  <2>3. QED BY <1>1, <2>1, <2>2 DEF Served
<1>7. n # head /\ head \in Runs => post[head] # "done"
  <2> SUFFICES ASSUME n # head, head \in Runs, post[head] = "done" PROVE FALSE
    OBVIOUS
  <2>1. PICK i \in 1 .. Len(completions) : completions[i] = n
    BY <1>1 DEF Served, Completed, Contains
  <2>2. PICK j \in 1 .. Len(completions) : completions[j] = head
    BY DEF Served, Completed, Contains
  <2>3. i < j
    BY <2>1, <2>2 DEF NewestLast
  <2>4. PostDone(n)
    BY <2>1, <2>2, <2>3 DEF Served
  <2>5. QED BY <1>1, <2>4 DEF PostDone
<1>8. Labelled'
  <2>1. \A k \in Runs : post'[k] = "failed" => k \notin artifact'
    BY <1>1 DEF Labelled, TypeOK
  <2>2. conclusion(head)' = conclusion(head)
    BY <1>1 DEF conclusion
  <2>3. CASE n = head /\ post'[head] = "done"
    BY <1>1, <2>1, <2>2, <2>3 DEF Labelled, TypeOK
  <2>4. CASE n # head
    BY <1>1, <1>7, <2>1, <2>2, <2>4 DEF Labelled
  <2>5. QED BY <1>1, <2>1, <2>3, <2>4 DEF Labelled
<1>9. QED BY <1>2, <1>3, <1>4, <1>6, <1>8

\* A step that changes nothing.
LEMMA StutterKeeps == Inv /\ UNCHANGED vars => Inv'
BY DEF Inv, vars, ciVars, postVars, TypeOK, Ordered, NewestLast, Served, Labelled, Started,
       Completed, Ended, PostDone, conclusion

\* Every step of the workflows, when completed events are served in order.
LEMMA NextKeeps == inOrder /\ Inv /\ [Next]_vars => Inv'
<1> SUFFICES ASSUME inOrder, Inv, [Next]_vars PROVE Inv'
  OBVIOUS
<1>1. CASE PullRequestEvent
  BY <1>1, EventKeeps
<1>2. ASSUME NEW n \in Runs, RunStep(n) PROVE Inv'
  BY <1>2, JobsKeep, CompleteKeeps DEF RunStep
<1>3. ASSUME NEW n \in Runs, PostStep(n) PROVE Inv'
  BY <1>3, PostKeeps
<1>4. CASE UNCHANGED vars
  BY <1>4, StutterKeeps
<1>5. QED BY <1>1, <1>2, <1>3, <1>4 DEF Next, AllDone

\* Once nothing of it is running, a pull request is labelled w-ci exactly when
\* the checks of its newest event failed, provided the metadata of that event
\* was uploaded and completed events are served in order (ci.yml, post-ci.yml).
THEOREM LabelOfNewestEvent == Spec => []LabelTellsHead
<1> DEFINE InvInOrder == inOrder => Inv
<1>1. InvInOrder => LabelTellsHead
  BY DEF Inv, TypeOK, Labelled, LabelTellsHead, PostDone, Runs
<1>2. Init => InvInOrder
  BY InitKeeps
<1>3. InvInOrder /\ [Next]_vars => InvInOrder'
  <2>1. [Next]_vars => inOrder' = inOrder
    BY DEF Next, AllDone, vars, postVars, ciVars, PullRequestEvent, RunStep, PostStep, StartRun,
           UploadArtifact, JobEnds, Complete, Fetch, AddComment, ChangeLabel
  <2>2. QED BY <2>1, NextKeeps
<1>4. QED BY <1>1, <1>2, <1>3, PTL DEF Spec
=============================================================================
