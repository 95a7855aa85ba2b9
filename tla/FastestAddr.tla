---------------------------- MODULE FastestAddr ----------------------------
(***************************************************************************)
(* fastip.FastestAddr: one call of ExchangeFastest, which has the replies  *)
(* of all upstreams and looks for the address among them that answers a    *)
(* TCP connection first.  It dials every address that the cache does not   *)
(* know, on all ping ports; the dials go on after the call has returned,   *)
(* and their results go to the cache, which other calls share.             *)
(***************************************************************************)
EXTENDS Integers, Sequences, SequencesExt, FiniteSetsExt

CONSTANTS
  Addrs,      \* addresses, numbered from 1
  Ports,      \* pingPorts
  Latencies   \* the latencies of successful dials, above 0

VARIABLES
  replies,  \* the replies of ExchangeAll, each the set of its addresses
  at,       \* where the call is
  left,     \* the addresses that schedulePings has not met yet
  cache,    \* ipCache
  ping,     \* ping[p]: the goroutine of pingDoTCP for an address and a port
  resCh,    \* the channel of the call
  pr,       \* the fastest cached result, or Unknown
  ret       \* the reply that was chosen, the addresses left in it and why

vars == <<replies, at, left, cache, ping, resCh, pr, ret>>

Pings == Addrs \X Ports

\* Dial results and cache entries are a latency, above zero here, or Failed.
None == -1
Failed == 0
Results == Latencies \union {Failed}

\* A pingResult of an address, or nil.
Unknown == [ip |-> 0, latency |-> 0]

Idle == [pc |-> "idle", result |-> Failed]
ips == UNION ToSet(replies)

Init ==
  /\ replies \in UNION {[1..n -> SUBSET Addrs] : n \in 1..2}
  /\ at = "start"
  /\ left = {}
  /\ cache \in [Addrs -> Results \union {None}]
  /\ ping = [p \in Pings |-> Idle]
  /\ resCh = <<>>
  /\ pr = Unknown
  /\ ret = [reply |-> 0, addrs |-> {}, why |-> Unknown]

-----------------------------------------------------------------------------
(* The call *)

\* prepareReply: the first reply with the address, all others removed from it.
prepareReply(res) ==
  LET i == SelectInSeq(replies, LAMBDA r : res.ip \in r)
  IN  [reply |-> i, addrs |-> replies[i] \intersect {res.ip}, why |-> res]

\* Without an address to prefer the first reply is returned as it is.
FirstReply == [reply |-> 1, addrs |-> replies[1], why |-> Unknown]

Return(res) ==
  /\ at' = "returned"
  /\ ret' = IF res = Unknown THEN FirstReply ELSE prepareReply(res)

\* pingAll with at most one address.
NothingToPing ==
  /\ at = "start"
  /\ \/ ips = {} /\ Return(Unknown)
     \/ \E ip \in ips : ips = {ip} /\ Return([ip |-> ip, latency |-> 0])
  /\ UNCHANGED <<replies, left, cache, ping, resCh, pr>>

PingAll ==
  /\ at = "start"
  /\ \E a, b \in ips : a # b
  /\ at' = "schedule"
  /\ left' = ips
  /\ UNCHANGED <<replies, cache, ping, resCh, pr, ret>>

\* One round of schedulePings, which meets the addresses of the set in any order:
\* an address that is not cached is dialed on all ports, of the cached ones the
\* first with the lowest latency is kept.
SchedulePings(ip) ==
  /\ at = "schedule"
  /\ ip \in left
  /\ left' = left \ {ip}
  /\ ping' = [p \in Pings |->
       IF p[1] = ip /\ cache[ip] = None THEN [pc |-> "dial", result |-> Failed]
       ELSE ping[p]]
  /\ pr' = IF /\ cache[ip] \notin {None, Failed}
              /\ pr = Unknown \/ cache[ip] < pr.latency
             THEN [ip |-> ip, latency |-> cache[ip]]
             ELSE pr
  /\ UNCHANGED <<replies, at, cache, resCh, ret>>

\* Without a dial the cached result is returned, if any.
Scheduled ==
  /\ at = "schedule"
  /\ left = {}
  /\ IF ping = [p \in Pings |-> Idle] THEN Return(pr)
     ELSE at' = "wait" /\ UNCHANGED ret
  /\ UNCHANGED <<replies, left, cache, ping, resCh, pr>>

CachedIgnored(p) == TRUE

\* The first dial that succeeded is worse than the cached result, or not.
IsFaster(p) == pr = Unknown \/ ping[p].result <= pr.latency

\* firstSuccessRes skips the dials that failed.
Receive ==
  /\ at = "wait"
  /\ resCh # <<>>
  /\ LET p == Head(resCh)
     IN  IF ping[p].result = Failed THEN UNCHANGED <<at, ret>>
         ELSE Return(IF IsFaster(p) THEN [ip |-> p[1], latency |-> ping[p].result]
                     ELSE pr)
  /\ resCh' = Tail(resCh)
  /\ UNCHANGED <<replies, left, cache, ping, pr>>

WaitTimesOut ==
  /\ at = "wait"
  /\ Return(pr)
  /\ UNCHANGED <<replies, left, cache, ping, resCh, pr>>

-----------------------------------------------------------------------------
(* The dials *)

Dialed(p) ==
  /\ ping[p].pc = "dial"
  /\ \E result \in Results :
       ping' = [ping EXCEPT ![p] = [pc |-> "send", result |-> result]]
  /\ UNCHANGED <<replies, at, left, cache, resCh, pr, ret>>

\* make(chan *pingResult, ipN*len(f.pingPorts))
Capacity == Cardinality(ips) * Cardinality(Ports)

Send(p) ==
  /\ ping[p].pc = "send"
  /\ Len(resCh) < Capacity
  /\ resCh' = Append(resCh, p)
  /\ ping' = [ping EXCEPT ![p].pc = "store"]
  /\ UNCHANGED <<replies, at, left, cache, pr, ret>>

FailureReplaces(ip, result) ==
  result = Failed \/ cache[ip] \in {None, Failed} \/ cache[ip] > result

\* cacheAddFailure and cacheAddSuccessful: a failure never replaces an entry, a
\* success replaces a failure and a higher latency.
Improves(ip, result) ==
  \/ cache[ip] = None
  \/ result # Failed /\ (cache[ip] = Failed \/ cache[ip] > result)

cacheAdd(ip, result) ==
  cache' = IF Improves(ip, result) THEN [cache EXCEPT ![ip] = result] ELSE cache

Store(p) ==
  /\ ping[p].pc = "store"
  /\ cacheAdd(p[1], ping[p].result)
  /\ ping' = [ping EXCEPT ![p].pc = "ended"]
  /\ UNCHANGED <<replies, at, left, resCh, pr, ret>>

-----------------------------------------------------------------------------
(* The other calls, and the time *)

OtherStores(ip) ==
  /\ \E result \in Results : cacheAdd(ip, result)
  /\ UNCHANGED <<replies, at, left, ping, resCh, pr, ret>>

Expires(ip) ==
  /\ cache[ip] # None
  /\ cache' = [cache EXCEPT ![ip] = None]
  /\ UNCHANGED <<replies, at, left, ping, resCh, pr, ret>>

CallStep ==
  \/ NothingToPing \/ PingAll \/ Scheduled \/ Receive \/ WaitTimesOut
  \/ \E ip \in Addrs : SchedulePings(ip)
PingStep(p) == Dialed(p) \/ Send(p) \/ Store(p)

Next ==
  \/ CallStep
  \/ \E p \in Pings : PingStep(p)
  \/ \E ip \in Addrs : OtherStores(ip) \/ Expires(ip)

Spec == Init /\ [][Next]_vars

-----------------------------------------------------------------------------

TypeOK ==
  /\ at \in {"start", "schedule", "wait", "returned"}
  /\ left \subseteq ips
  /\ cache \in [Addrs -> Results \union {None}]
  /\ ping \in [Pings -> [pc : {"idle", "dial", "send", "store", "ended"},
                         result : Results]]
  /\ resCh \in Seq(Pings)
  /\ pr \in [ip : Addrs, latency : Latencies] \union {Unknown}

\* "The fastest IP address is considered to be the first one successfully dialed
\* and other addresses are removed from the answer": of several addresses, the
\* one left was dialed with success, by this call or as the cache knew, and no
\* cached one was faster; without any, the first reply is complete.
ChosenWasDialed ==
  /\ TypeOK
  /\ at = "returned" =>
       \/ ret.why = Unknown /\ ret.addrs = replies[1] /\ pr = Unknown
       \/ ips = {ret.why.ip}
       \/ /\ ret.addrs = {ret.why.ip}
          /\ pr # Unknown => ret.why.latency <= pr.latency
          /\ \/ ret.why = pr
             \/ \E p \in Pings : p[1] = ret.why.ip /\ ping[p].result = ret.why.latency

\* While an entry of the cache lives it only gets better: the failure of one port,
\* or of a dial of an earlier call that ends late, never hides a success.
CacheImproves ==
  \A ip \in Addrs :
    cache[ip] \in Latencies /\ cache'[ip] # None =>
      cache'[ip] \in Latencies /\ cache'[ip] <= cache[ip]

\* The call has returned and no dial waits to send its result.
HasEnded ==
  at = "returned" /\ \A p \in Pings : ping[p].pc \in {"idle", "ended"}

=============================================================================
