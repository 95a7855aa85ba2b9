SPECIFICATION Spec
CONSTANTS
  r1 = r1
  r2 = r2
  r3 = r3
  q = q
  d = d
  p = p
  NoReq = NoReq
  Reqs <- TwoReqs
  Questions <- OneQuestion
  CustomFor <- OneQuestion
  Reversed <- Nothing
  Kinds <- MCKinds
  Replies <- WaveReplies
  DNSSEC = FALSE
  Optimistic = FALSE
  PendingEnabled = TRUE
INVARIANT AnsweredByOwnUpstreams
