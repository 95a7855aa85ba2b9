----------------------------- MODULE SubnetCache -----------------------------
(***************************************************************************)
(* The cache of responses that depend on the client's subnet, for one      *)
(* question: cacheResp chooses the subnet of an answer, cacheSubnet and    *)
(* msgToKeyWithSubnet make the key, getWithSubnet finds the longest        *)
(* prefix that is stored.                                                  *)
(*                                                                         *)
(* Addresses have W6 bits, and W4 bits in their IPv4 form; the IPv6        *)
(* addresses whose first W6 - W4 bits are all ones are the IPv4-mapped     *)
(* ones.  A net.IP is a family and a number; a net.IPNet has an address    *)
(* (or none), and a mask with its number of ones and of bits (or none).    *)
(***************************************************************************)
EXTENDS Integers, FiniteSets

CONSTANTS W4, W6,      \* 0 < W4 < W6
          Requests,    \* the subnets a request's ECS option can have, of IPNets
          MaxEntries   \* capacity; a full cache evicts

VARIABLES cache        \* the entries: key, the addresses the answer was for, age

Nil == [fam |-> 0, n |-> 0]
Addresses == [fam : {4}, n : 0..(2^W4 - 1)] \cup [fam : {6}, n : 0..(2^W6 - 1)]
NoMask == [ones |-> 0, bits |-> 0]
Masks == [ones : 0..W4, bits : {W4}] \cup [ones : 0..W6, bits : {W6}]
IPNets == [ip : Addresses \cup {Nil}, mask : Masks \cup {NoMask}]
NoECS == [ip |-> Nil, mask |-> NoMask]

Mapped(a) == a.fam = 6 /\ a.n \div 2^W4 = 2^(W6 - W4) - 1
To4(a) == IF a.fam = 4 THEN a ELSE IF Mapped(a) THEN [fam |-> 4, n |-> a.n % 2^W4] ELSE Nil
To16(a) ==
  IF a.fam = 4 THEN [fam |-> 6, n |-> a.n + (2^(W6 - W4) - 1) * 2^W4] ELSE a

\* The first ones of a number of width w.
Prefix(n, ones, w) == (n \div 2^(w - ones)) * 2^(w - ones)

\* net.IP.Mask: an IPv4 mask applies to a mapped address, and otherwise the
\* lengths have to agree.
Mask(a, mask) ==
  LET b == IF mask.bits = W4 /\ a.fam = 6 THEN To4(a) ELSE a IN
    IF b = Nil \/ mask.bits # (IF b.fam = 4 THEN W4 ELSE W6) THEN Nil
    ELSE [b EXCEPT !.n = Prefix(@, mask.ones, mask.bits)]

Invalid == [valid |-> FALSE]
Global == [valid |-> TRUE, ones |-> 0, ip |-> Nil]

\* cacheSubnet and the key msgToKeyWithSubnet makes of it: no address for /0.
cacheSubnet(net) ==
  LET ip == IF net.mask.bits = W4 THEN To4(net.ip)
            ELSE IF To4(net.ip) # Nil THEN Nil ELSE To16(net.ip) IN
    IF net.mask = NoMask THEN Global
    ELSE IF ip = Nil THEN Invalid
    ELSE [valid |-> TRUE, ones |-> net.mask.ones,
          ip |-> IF net.mask.ones = 0 THEN Nil ELSE Mask(ip, net.mask)]

ClearsNextBit(a, m) == a
\* Moving from /m+1 to /m clears the last network bit of the key.
ClearBit(a, m) ==
  LET w == IF a.fam = 4 THEN W4 ELSE W6
      bit == 2^(w - 1 - m)
  IN IF (a.n \div bit) % 2 = 1 THEN [a EXCEPT !.n = @ - bit] ELSE a

Entries(k) == {e \in cache : e.key = k}

\* The key at which the loop of getWithSubnet stops.
FoundKey(net) ==
  LET start == cacheSubnet(net)
      walk[m \in 0..W6, ip \in Addresses \cup {Nil}] ==
        LET k == [valid |-> TRUE, ones |-> m, ip |-> ip] IN
          IF Entries(k) # {} \/ m = 0 THEN k
          ELSE walk[m - 1, IF m = 1 THEN Nil ELSE ClearBit(ip, m - 1)]
  IN IF start.valid THEN walk[start.ones, start.ip] ELSE Invalid

\* What getWithSubnet answers with: an entry that is not expired, or nothing.
Found(net) == {e \in Entries(FoundKey(net)) : e.fresh}

Init == cache = {}

\* A Set at capacity evicts another entry.
Put(k, covers) ==
  \E kept \in SUBSET {e \in cache : e.key # k} :
    /\ Cardinality(kept) = IF Cardinality({e \in cache : e.key # k}) >= MaxEntries
                           THEN MaxEntries - 1 ELSE Cardinality({e \in cache : e.key # k})
    /\ cache' = kept \cup {[key |-> k, covers |-> covers, fresh |-> TRUE]}

\* The addresses of both families, as IPv6 numbers, within ip/ones.
Range6(ip, mask) ==
  LET shift == IF mask.bits = W4 THEN W6 - W4 ELSE 0 IN
    {n \in 0..(2^W6 - 1) :
       Prefix(n, mask.ones + shift, W6) = Prefix(To16(ip).n, mask.ones + shift, W6)}

\* RFC 7871, 7.3: the response repeats the subnet of the query.
SameSubnet(req, ecs) ==
  /\ LET a == Mask(ecs.ip, ecs.mask) b == Mask(req.ip, req.mask) IN To16(a) = To16(b)
  /\ ecs.mask.ones = req.mask.ones

ScopeOffByOne(ecs, scope) ==
  IF scope \in 1..ecs.mask.ones
  THEN LET mask == [ecs.mask EXCEPT !.ones = scope - 1] IN [ip |-> Mask(ecs.ip, mask), mask |-> mask]
  ELSE ecs
\* A scope shorter than the source prefix widens the subnet.
Scoped(ecs, scope) ==
  IF scope < ecs.mask.ones
  THEN LET mask == [ecs.mask EXCEPT !.ones = scope] IN [ip |-> Mask(ecs.ip, mask), mask |-> mask]
  ELSE ecs

\* The addresses a server says its answer is for: the scope's bits of the
\* address, and all networks for a scope of zero (RFC 7871, 7.3.1).
Said(ecs, scope) ==
  IF scope = 0 THEN 0..(2^W6 - 1)
  ELSE Range6(ecs.ip, [ecs.mask EXCEPT !.ones = IF scope < @ THEN scope ELSE @])

\* cacheResp for a request with ECS and a response with ECS and a scope.
StoreScoped(req, ecs, scope) ==
  /\ SameSubnet(req, ecs)
  /\ LET key == cacheSubnet(Scoped(ecs, scope)) IN
       key.valid /\ Put(key, Said(ecs, scope))

\* cacheResp when the response has no ECS: the answer is for everyone.
StoreGlobal(req) == Put(cacheSubnet(NoECS), 0..(2^W6 - 1))

\* getWithSubnet deletes the entry it found and could not use.
Get(net) ==
  /\ FoundKey(net).valid
  /\ Entries(FoundKey(net)) # {} /\ Found(net) = {}
  /\ cache' = cache \ Entries(FoundKey(net))

Expire == \E e \in cache : e.fresh /\ cache' = (cache \ {e}) \cup {[e EXCEPT !.fresh = FALSE]}

clearItemsWithSubnet == cache # {} /\ cache' = {}

Next ==
  \/ \E req \in Requests :
       \/ StoreGlobal(req) \/ Get(req)
       \/ \E ecs \in Requests, scope \in 0..W6 : StoreScoped(req, ecs, scope)
  \/ Expire \/ clearItemsWithSubnet

Spec == Init /\ [][Next]_cache
-----------------------------------------------------------------------------
TypeOK ==
  /\ Cardinality(cache) <= MaxEntries
  /\ \A e, f \in cache : e.key = f.key => e = f
  /\ \A e \in cache : e.key.valid /\ e.key.ones \in 0..W6

\* A request whose mask fits its address.
Fits(net) ==
  /\ net.ip # Nil
  /\ net.mask.bits = IF To4(net.ip) # Nil THEN W4 ELSE W6

(***************************************************************************)
(* An answer is only given to clients the server made it for: whatever     *)
(* prefix getWithSubnet stops at, the whole subnet of the request lies     *)
(* within the scope of the answer found there.  A request whose mask does  *)
(* not fit its address finds nothing, not even the entry for everyone      *)
(* (cacheSubnet: invalid masks must never collide with that entry).  And   *)
(* the lookup is a longest-prefix match: no stored entry of the request's  *)
(* family with a longer prefix contains the request's subnet.              *)
(***************************************************************************)
ServedWithinScope ==
  /\ TypeOK
  /\ \A net \in Requests : \A e \in Found(net) : Fits(net) /\ Range6(net.ip, net.mask) \subseteq e.covers
  /\ \A net \in Requests : FoundKey(net).valid =>
       \A e \in cache :
         (e.key.ip.fam = cacheSubnet(net).ip.fam /\ e.key.ones <= net.mask.ones
          /\ Mask(cacheSubnet(net).ip, [net.mask EXCEPT !.ones = e.key.ones]) = e.key.ip)
         => e.key.ones <= FoundKey(net).ones
=============================================================================
