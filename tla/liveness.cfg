SPECIFICATION FairSpec
CHECK_DEADLOCK FALSE
CONSTANTS
  plan = plan
  otherPlan = otherPlan
  provider = provider
  Jobs = {1, 2}
  ImageJobs = {1, 2}
  DependsOn <- Chain
  Plans = {plan}
  PlanOf <- OnePlan
  Providers = {provider}
  ProviderOf <- OneProvider
  LegacyJobs = {}
  MaxConcurrency <- Limit1
  ProviderLimit = 1
  MaxTransportRetries = 0
  ExtraCallBudget = 1
  MaxPaidRounds = 1
  ActionKinds = {"regenerate"}
  ErrorClasses = {}
  MaxClaims = 3
  MaxActions = 1
  MaxRestarts = 0
  MaxExpiries = 1
  MaxCancels = 0
  MaxLocks = 1
  MaxOverlaps = 0
PROPERTY LeasedSettles
PROPERTY BlockedReturns
