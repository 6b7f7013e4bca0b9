CONSTANTS
  Cases <- CasesToCheck
CHECK_DEADLOCK FALSE
SPECIFICATION Spec
INVARIANTS HostsExact ListDecides ReceiverAccepts MeaningKept ShownTruly
