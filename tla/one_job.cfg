SPECIFICATION Spec
CHECK_DEADLOCK FALSE
CONSTANTS
  plan = plan
  otherPlan = otherPlan
  provider = provider
  Jobs = {1}
  ImageJobs = {1}
  DependsOn <- NoDeps
  Plans = {plan}
  PlanOf <- OnePlan
  Providers = {provider}
  ProviderOf <- OneProvider
  LegacyJobs = {}
  MaxConcurrency <- Limit1
  ProviderLimit = 1
  MaxTransportRetries = 1
  ExtraCallBudget = 1
  MaxPaidRounds = 1
  ActionKinds = {"retry", "regenerate"}
  ErrorClasses = {"auth", "quota", "retryable"}
  MaxClaims = 3
  MaxActions = 1
  MaxRestarts = 1
  MaxExpiries = 0
  MaxCancels = 1
  MaxLocks = 0
  MaxOverlaps = 1
INVARIANT TypeOK
PROPERTY CancelHolds
