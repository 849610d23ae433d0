SPECIFICATION Spec
CHECK_DEADLOCK FALSE
CONSTANTS
  plan = plan
  otherPlan = otherPlan
  provider = provider
  Jobs = {1, 2}
  ImageJobs = {2}
  DependsOn <- Chain
  Plans = {plan}
  PlanOf <- OnePlan
  Providers = {provider}
  ProviderOf <- OneProvider
  LegacyJobs = {}
  MaxConcurrency <- Limit1
  ProviderLimit = 1
  MaxTransportRetries = 1
  ExtraCallBudget = 1
  MaxPaidRounds = 1
  ActionKinds = {"regenerate", "await_user"}
  ErrorClasses = {"auth", "retryable"}
  MaxClaims = 4
  MaxActions = 1
  MaxRestarts = 1
  MaxExpiries = 0
  MaxCancels = 0
  MaxLocks = 0
  MaxOverlaps = 0
INVARIANT CandidateComplete
INVARIANT PlanReadyMeansReady
INVARIANT CallLimit
