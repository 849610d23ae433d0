SPECIFICATION HistorySpec
CHECK_DEADLOCK FALSE
CONSTANTS
  plan = plan
  otherPlan = otherPlan
  provider = provider
  Jobs = {1, 2, 3}
  ImageJobs = {1, 2, 3}
  DependsOn <- NoDeps
  Plans = {plan, otherPlan}
  PlanOf <- TwoPlans
  Providers = {provider}
  ProviderOf <- OneProvider
  LegacyJobs = {1, 2}
  MaxConcurrency <- Limit1
  ProviderLimit = 1
  MaxTransportRetries = 1
  ExtraCallBudget = 1
  MaxPaidRounds = 1
  ActionKinds = {}
  ErrorClasses = {"auth", "retryable"}
  MaxClaims = 3
  MaxActions = 1
  MaxRestarts = 0
  MaxExpiries = 1
  MaxCancels = 0
  MaxLocks = 0
  MaxOverlaps = 0
INVARIANT LeasesWithinLimit
INVARIANT ProviderWithinLimit
PROPERTY NotRepeatedUnasked
