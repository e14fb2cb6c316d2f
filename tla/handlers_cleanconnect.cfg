CONSTANTS
  c1 = c1
  c2 = c2
  Null = Null
  Clients <- MCClients
  Publishers = {c1}
  Subscribing = {c2}
  TopicStrs <- MCTopicStrs
  FilterStrs <- MCFilterA
  Wills <- MCWills
  MaxMid = 1
  PeerMids = {1}
  PoolSize = 1
  MaxPub = 0
  MaxConn = 3
  MaxWbuf = 1
  MaxTuples = 1
  AllowAnonymous = TRUE
  PubQoS = {0}
  SubQoS = {1}
  RetainFlags = {FALSE}
  StackGarbage = FALSE
  Faulty = FALSE
SPECIFICATION Spec
INVARIANT SubscriptionTracked
CHECK_DEADLOCK FALSE
