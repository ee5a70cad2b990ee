SPECIFICATION FairSpec
CONSTANTS
  r1 = r1  r2 = r2  r3 = r3  r4 = r4  r5 = r5
  d1 = d1  d2 = d2  d3 = d3
  Requests = {r1, r2, r3, r4, r5}
  Deliveries = {d1, d2, d3}
  DeliveryOf <- MCDeliveryOf
  Unreadable = {d3}
INVARIANTS TypeOK OneJobPerDelivery AckMeansQueued
PROPERTIES ImplementsLog EveryRequestEnds
CHECK_DEADLOCK FALSE
