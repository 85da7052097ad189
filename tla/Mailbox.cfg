SPECIFICATION FairSpec
CONSTANTS
  Senders = {s1, s2}
  MaxSends = 2
  MaxPolls = 6
  Faults = {"missing", "timeout", "crash"}
INVARIANTS SentIsStored DeliveredInOrder ReadIsDelivered
PROPERTIES SentIsDelivered
CHECK_DEADLOCK FALSE
