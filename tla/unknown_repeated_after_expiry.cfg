SPECIFICATION Spec
CHECK_DEADLOCK FALSE
CONSTANTS
  plan = plan
  otherPlan = otherPlan
  provider = provider
  Jobs = {1}
  ImageJobs = {1}
  DependsOn <- NoDeps
  Plans = {plan}
  PlanOf <- OnePlan
  Providers = {provider}
  ProviderOf <- OneProvider
  LegacyJobs = {}
  MaxConcurrency <- Limit1
  ProviderLimit = 1
  MaxTransportRetries = 1
  ExtraCallBudget = 1
  MaxPaidRounds = 1
  ActionKinds = {"retry", "regenerate"}
  ErrorClasses = {"retryable"}
  MaxClaims = 4
  MaxActions = 1
  MaxRestarts = 0
  MaxExpiries = 1
  MaxCancels = 0
  MaxLocks = 0
  MaxOverlaps = 0
PROPERTY UnknownNotRepeated
