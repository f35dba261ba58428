SPECIFICATION FairSpec
CONSTANTS
  Prios <- PriosSmall
  Delays <- DelaysSmall
INVARIANTS TypeOK NeverResets ReadyXorDelayed HighestReadyRuns
PROPERTIES DelayIsExact TopThreadReturns ImplementsPriorityScheduler
