----------------------------- MODULE RateLimit -----------------------------
(***************************************************************************)
(* The rate limit middleware: a bucket per masked client address, looked   *)
(* up or made under the middleware's mutex and tried after it was          *)
(* released.  A bucket is kept for an hour from its creation, also while   *)
(* it is in use.                                                           *)
(***************************************************************************)
EXTENDS Integers, FiniteSets, Sequences

CONSTANTS
  Sources,     \* where requests come from: a client, and the form of its address
  Subnet,      \* Subnet[c]: the client's address masked to SubnetLenIPv4 or SubnetLenIPv6
  Allowlist,   \* Config.AllowlistAddrs
  Limit,       \* Config.Ratelimit
  Interval,    \* the second of rate.New
  Life,        \* the hour of buckets.Set
  NumRequests, \* bound: UDP requests
  MaxTime      \* bound of the clock

\* An address arrives as it is, with a zone, or as IPv4 mapped to IPv6.
AllSources == [client : DOMAIN Subnet, form : {"plain", "zoned", "mapped"}]
Requests == 1..NumRequests

VARIABLES
  now,
  buckets,  \* middleware.buckets: the limiter of each subnet and its expiry
  times,    \* times[b]: when limiter b last allowed a request, oldest first
  made,     \* made[b]: when limiter b was made
  pc, from, \* a request and its source: a client and the form of its address
  bucket,   \* the limiter that isRatelimited holds
  tried     \* when it was tried

vars == <<now, buckets, times, made, pc, from, bucket, tried>>

None == 0

Init ==
  /\ now = 0 /\ buckets = [k \in {} |-> 0] /\ times = <<>> /\ made = <<>>
  /\ pc = [r \in Requests |-> "none"] /\ from = [r \in Requests |-> [client |-> None]]
  /\ bucket = [r \in Requests |-> None] /\ tried = [r \in Requests |-> -1]

Arrives(r, f) ==
  /\ pc[r] = "none" /\ \A q \in 1..(r - 1) : pc[q] # "none"
  /\ from' = [from EXCEPT ![r] = f]

KeyWithForm(f) == <<Subnet[f.client], f.form>>
\* isRatelimited: the zone is dropped, the address unmapped and masked.
Key(f) == <<Subnet[f.client], "plain">>

Allowlisted(r, f) ==
  /\ Arrives(r, f) /\ f.client \in Allowlist
  /\ pc' = [pc EXCEPT ![r] = "allowed"]
  /\ UNCHANGED <<now, buckets, times, made, bucket, tried>>

\* The cache gives no item that has expired.
Cached(k) == k \in DOMAIN buckets /\ now <= buckets[k].expires

limiterForIP(r, f) ==
  /\ Arrives(r, f) /\ f.client \notin Allowlist
  /\ LET k == Key(f) IN
       IF Cached(k)
       THEN bucket' = [bucket EXCEPT ![r] = buckets[k].limiter] /\ UNCHANGED <<buckets, times, made>>
       ELSE LET b == Len(made) + 1 IN
              /\ bucket' = [bucket EXCEPT ![r] = b]
              /\ buckets' = [j \in DOMAIN buckets \cup {k} |->
                               IF j = k THEN [limiter |-> b, expires |-> now + Life] ELSE buckets[j]]
              /\ times' = Append(times, <<>>) /\ made' = Append(made, now)
  /\ pc' = [pc EXCEPT ![r] = "try"]
  /\ UNCHANGED <<now, tried>>

\* RateLimiter.Try, of the library: the last Limit requests it allowed.
Try(ts) ==
  IF Len(ts) < Limit THEN [ok |-> TRUE, ts |-> Append(ts, now)]
  ELSE IF now - Head(ts) < Interval THEN [ok |-> FALSE, ts |-> ts]
  ELSE [ok |-> TRUE, ts |-> Append(Tail(ts), now)]

isRatelimited(r) ==
  /\ pc[r] = "try"
  /\ LET t == Try(times[bucket[r]]) IN
       /\ times' = [times EXCEPT ![bucket[r]] = t.ts]
       /\ pc' = [pc EXCEPT ![r] = IF t.ok THEN "allowed" ELSE "dropped"]
  /\ tried' = [tried EXCEPT ![r] = now]
  /\ UNCHANGED <<now, buckets, made, from, bucket>>

Tick ==
  /\ now < MaxTime /\ now' = now + 1
  /\ UNCHANGED <<buckets, times, made, pc, from, bucket, tried>>

Next ==
  \/ Tick
  \/ \E r \in Requests :
       isRatelimited(r) \/ \E f \in Sources : Allowlisted(r, f) \/ limiterForIP(r, f)

Spec == Init /\ [][Next]_vars
-----------------------------------------------------------------------------
TypeOK ==
  /\ Sources \subseteq AllSources /\ pc \in [Requests -> {"none", "try", "allowed", "dropped"}]
  /\ \A b \in 1..Len(times) : Len(times[b]) <= Limit
  /\ bucket \in [Requests -> 0..Len(made)]

\* The requests of a subnet that were allowed within an interval that ends at t.
Recent(net, t) ==
  {q \in Requests : /\ pc[q] = "allowed" /\ bucket[q] # None
                    /\ Subnet[from[q].client] = net /\ tried[q] > t - Interval /\ tried[q] <= t}

(***************************************************************************)
(* The rate of a subnet, whatever forms its clients' addresses arrive in:  *)
(* in no interval does a limiter allow more than Limit requests, and a     *)
(* second limiter is made only when the first has lived for Life.  A       *)
(* request is dropped only when Limit of the same subnet were allowed in   *)
(* the interval before it, and never from an address that is exempt.       *)
(***************************************************************************)
RateIsKept ==
  /\ TypeOK
  /\ \A net \in {Subnet[f.client] : f \in Sources}, t \in 0..now :
       Cardinality(Recent(net, t)) <= Limit * Cardinality({bucket[q] : q \in Recent(net, t)})
  /\ \A q, r \in Requests :
       (bucket[q] # None /\ bucket[r] # None /\ Subnet[from[q].client] = Subnet[from[r].client])
       => bucket[q] = bucket[r] \/ made[bucket[q]] > made[bucket[r]] + Life
                               \/ made[bucket[r]] > made[bucket[q]] + Life
  /\ \A r \in Requests : pc[r] = "dropped" =>
       /\ from[r].client \notin Allowlist
       /\ Cardinality(Recent(Subnet[from[r].client], tried[r])) >= Limit
=============================================================================
