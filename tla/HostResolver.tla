---------------------------- MODULE HostResolver ----------------------------
(***************************************************************************)
(* upstream.CachingResolver over upstream.UpstreamResolver: the addresses  *)
(* of one host, looked up by several callers at a time.  A lookup of       *)
(* network "ip" asks for both address families concurrently and joins what *)
(* they answer; the cache has one entry per host.  An address is           *)
(* represented by the time its record expires.                             *)
(***************************************************************************)
EXTENDS Naturals

CONSTANTS
  Lookups,   \* concurrent calls of LookupNetIP
  Networks,  \* the networks they ask for
  TTLs,      \* the TTLs of records
  MaxTime    \* bound: the clock

VARIABLES
  now,
  cache,    \* CachingResolver.cache[host]
  at,       \* at[l]: the step of lookup l
  network,  \* network[l]: its argument
  began,    \* began[l]: the time it read first
  answer,   \* answer[l][f]: the answer for address family f
  ret       \* ret[l]: the addresses it returned

vars == <<now, cache, at, network, began, answer, ret>>

Families == {"ip4", "ip6"}
Asked(l) == IF network[l] = "ip" THEN Families ELSE {network[l]}

\* minTTL starts at the largest uint32, which no run of the clock reaches.
Never == MaxTime + 1

NoResult == [kind |-> "none", expire |-> 0, addrs |-> {}, isNil |-> TRUE]
Error == [kind |-> "error", expire |-> 0, addrs |-> {}, isNil |-> TRUE]

Init ==
  /\ now = 0
  /\ cache = NoResult
  /\ at = [l \in Lookups |-> "idle"]
  /\ network = [l \in Lookups |-> "ip"]
  /\ began = [l \in Lookups |-> 0]
  /\ answer = [l \in Lookups |-> [f \in Families |-> NoResult]]
  /\ ret = [l \in Lookups |-> {}]

Earliest(ts) == IF ts = {} THEN Never ELSE CHOOSE t \in ts : \A u \in ts : t <= u

-----------------------------------------------------------------------------

Begin(l) ==
  /\ at[l] = "idle"
  /\ at' = [at EXCEPT ![l] = "find"]
  /\ \E n \in Networks : network' = [network EXCEPT ![l] = n]
  /\ began' = [began EXCEPT ![l] = now]
  /\ UNCHANGED <<now, cache, answer, ret>>

\* findCached: a result that is nil is as good as none.
IsCached(l) ==
  cache.kind = "result" /\ ~cache.isNil /\ cache.expire >= began[l]

FindCached(l) ==
  /\ at[l] = "find"
  /\ IF IsCached(l)
       THEN /\ ret' = [ret EXCEPT ![l] = cache.addrs]
            /\ at' = [at EXCEPT ![l] = "returned"]
       ELSE at' = [at EXCEPT ![l] = "ask"] /\ UNCHANGED ret
  /\ UNCHANGED <<now, cache, network, began, answer>>

\* request: the records of the family that the response has, if any.
Request(l, f) ==
  /\ at[l] = "ask"
  /\ f \in Asked(l)
  /\ answer[l][f] = NoResult
  /\ \E ttls \in SUBSET TTLs :
       LET addrs == {now + t : t \in ttls}
       IN  answer' = [answer EXCEPT ![l][f] =
             [kind |-> "result", expire |-> Earliest(addrs), addrs |-> addrs,
              isNil |-> FALSE]]
  /\ UNCHANGED <<now, cache, at, network, began, ret>>

\* The exchange fails, or the response is not one to this request.
RequestFails(l, f) ==
  /\ at[l] = "ask"
  /\ f \in Asked(l)
  /\ answer[l][f] = NoResult
  /\ answer' = [answer EXCEPT ![l][f] = Error]
  /\ UNCHANGED <<now, cache, at, network, began, ret>>

JoinLatest(l) ==
  LET addrs == UNION {answer[l][f].addrs : f \in Asked(l)}
      last == CHOOSE t \in {answer[l][f].expire : f \in Asked(l)} :
                \A f \in Asked(l) : answer[l][f].expire <= t
  IN  [kind |-> "result", expire |-> last, addrs |-> addrs,
       isNil |-> network[l] = "ip" /\ addrs = {}]

\* lookupNetIP: the families' addresses, with the earlier of the expiry times;
\* appending nothing to a nil slice leaves it nil.
Join(l) ==
  LET addrs == UNION {answer[l][f].addrs : f \in Asked(l)}
  IN  [kind |-> "result",
       expire |-> Earliest({answer[l][f].expire : f \in Asked(l)}),
       addrs |-> addrs,
       isNil |-> network[l] = "ip" /\ addrs = {}]

Forget(l) == answer' = [answer EXCEPT ![l] = [f \in Families |-> NoResult]]

\* One family that failed fails the lookup, and nothing is cached.
LookupFails(l) ==
  /\ at[l] = "ask"
  /\ \A f \in Asked(l) : answer[l][f] # NoResult
  /\ \E f \in Asked(l) : answer[l][f] = Error
  /\ at' = [at EXCEPT ![l] = "returned"]
  /\ Forget(l)
  /\ UNCHANGED <<now, cache, network, began, ret>>

\* setCached overwrites what another lookup may have stored meanwhile.
SetCached(l) ==
  /\ at[l] = "ask"
  /\ \A f \in Asked(l) : answer[l][f].kind = "result"
  /\ cache' = Join(l)
  /\ ret' = [ret EXCEPT ![l] = Join(l).addrs]
  /\ at' = [at EXCEPT ![l] = "returned"]
  /\ Forget(l)
  /\ UNCHANGED <<now, network, began>>

Again(l) ==
  /\ at[l] = "returned"
  /\ at' = [at EXCEPT ![l] = "idle"]
  /\ network' = [network EXCEPT ![l] = "ip"]
  /\ ret' = [ret EXCEPT ![l] = {}]
  /\ began' = [began EXCEPT ![l] = 0]
  /\ UNCHANGED <<now, cache, answer>>

Tick ==
  /\ now < MaxTime
  /\ now' = now + 1
  /\ UNCHANGED <<cache, at, network, began, answer, ret>>

-----------------------------------------------------------------------------

LookupStep(l) ==
  \/ FindCached(l) \/ LookupFails(l) \/ SetCached(l)
  \/ \E f \in Families : Request(l, f) \/ RequestFails(l, f)

Next ==
  \/ Tick
  \/ \E l \in Lookups : LookupStep(l) \/ Begin(l) \/ Again(l)

Spec == Init /\ [][Next]_vars

TypeOK ==
  /\ now \in 0..MaxTime
  /\ at \in [Lookups -> {"idle", "find", "ask", "returned"}]
  /\ network \in [Lookups -> Networks \union {"ip"}]
  /\ began \in [Lookups -> 0..MaxTime]
  /\ cache.addrs \subseteq Nat
  /\ \A l \in Lookups :
       ret[l] \subseteq Nat /\ \A f \in Families : answer[l][f].addrs \subseteq Nat

\* No lookup returns an address whose record had expired when it began, whoever
\* stored it and however the two families' answers were joined.
AddressesAreCurrent ==
  TypeOK /\ \A l \in Lookups : \A expire \in ret[l] : expire >= began[l]

=============================================================================
