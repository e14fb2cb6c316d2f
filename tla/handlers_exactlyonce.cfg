CONSTANTS
  c1 = c1
  c2 = c2
  Null = Null
  Clients <- MCClients
  Publishers = {c1}
  Subscribing = {c2}
  TopicStrs <- MCTopicStrs
  FilterStrs <- MCFilterA
  Wills <- MCWills
  MaxMid = 1
  PeerMids = {1}
  PoolSize = 2
  MaxPub = 1
  MaxConn = 2
  MaxWbuf = 1
  MaxTuples = 1
  AllowAnonymous = TRUE
  PubQoS = {2}
  SubQoS = {2}
  RetainFlags = {FALSE}
  StackGarbage = FALSE
  Faulty = FALSE
SPECIFICATION Spec
INVARIANT ExactlyOnceDelivery
CHECK_DEADLOCK FALSE
