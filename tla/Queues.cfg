SPECIFICATION QueuesSpec
CONSTANTS
  Caller = {c1, c2, c3}
  Receiver = {0, 1, 2}
  max_messages = 2
  MaxSends = 3
  MAX_EVENTS = 3
  Accepted = 8
  RX_DESC_COUNT = 3
  TX_DESC_COUNT = 3
  DnsServer = "dns"
  OtherIp = {"gateway"}
  Mac = {"a", "b"}
  ArpSlots = 1
  HostName = {"kos", "org"}
  Ids = 8
  MaxPolls = 2
  MaxArrivals = 4
  MaxLookups = 2
INVARIANTS ListConsistent NoOvertaking TakenOnce CloseReleasesCallers
           DeliveredInOrder NeverOvercounted
           RxRingSound TxRingSound AddressedAsLearnt AnswersAsAsked
CHECK_DEADLOCK FALSE
