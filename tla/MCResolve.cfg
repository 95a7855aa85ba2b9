SPECIFICATION MCSpec
CONSTANTS
  r1 = r1
  r2 = r2
  r3 = r3
  q = q
  d = d
  p = p
  NoReq = NoReq
  Reqs <- ThreeReqs
  Questions <- MCQuestions
  CustomFor <- MCCustomFor
  Reversed <- MCReversed
  Kinds <- MCKinds
  Replies <- MCReplies
  DNSSEC = TRUE
  Optimistic = TRUE
  PendingEnabled = TRUE
INVARIANTS OneOwnerPerKey AnswersOwnRequest CachesStayApart
PROPERTIES WorkEnds JoinsBeforeRelease LookupKeepsFreshEntries
