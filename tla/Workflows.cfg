SPECIFICATION WorkflowsSpec
CONSTANTS
  Jobs = {"save-pr", "check"}
  MaxEvents = 3
  PullRequests = {1, 2}
  MaxReviewEvents = 2
  MaxUnordered = 2
INVARIANT LabelTellsHead
PROPERTIES HeadIsJudged FailureReported ReviewedOrSuperseded
