SPECIFICATION FairSpec
CONSTANTS
  Plans <- LongPlans
  MaxReplans = 2
  None = None
INVARIANTS StuckMeansFailed SuccessIsEarned LeaseCoversWork
PROPERTIES ImplementsLifecycle ImplementsPlanExecution CommitsKnownOutcomes RunEnds InterruptedRunResumes
