SPECIFICATION MCFairSpec
CONSTANTS
  Cutoff = 2
  Ids = {7}
  Answers = {"udp", "truncated", "tcp"}
  WorkErrors = {"timeout", "conn", "other", "protocol", "question"}
  MaxTime = 3
  MaxTickets = 8
  MaxFrames = 2
  Exchanges = {e1, e2}
  Conns = {1, 2, 3}
INVARIANTS ReceiptRespectsCutoff NoAdmissionAfterSeal StaleTicketCannotPublish ReceiptAgreesWithExchange NoConnLost NoUnsafeRetry DNSCryptPeersAgree ErrorMeansAllFailed
PROPERTIES ImplementsOneShot UsesReceiptAsSpecified ExchangesEnd FastestIsKept ExchangesReturn
CHECK_DEADLOCK FALSE
