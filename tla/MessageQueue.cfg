CONSTANTS
  Msg = {m1, m2}
  Producers = {p, q}
  Consumers = {c}
  MaxSize = 3
  Cell = {c1, c2, c3, c4}
  NULL = NULL
SPECIFICATION FairSpec
INVARIANTS TypeOK ListOK
PROPERTIES ImplementsFifo CallsReturn Delivered
