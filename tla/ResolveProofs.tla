---------------------------- MODULE ResolveProofs ----------------------------
(***************************************************************************)
(* Proofs about Resolve, for any set of calls, of questions, of requests   *)
(* and of replies, and with DNSSEC, optimistic caching and the pending     *)
(* requests switched on or off.                                            *)
(***************************************************************************)
EXTENDS Resolve, TLAPS

\* A response that a call made for itself.
Own(r) == (res[r] # NoMsg => res[r].id = r) /\ AsRequested(r)

\* A response and an error that a call was given by the one it waited for.
Joined(r) ==
  /\ result[owner[r]].closed
  /\ res[r] # NoMsg => res[r].id = r /\ res[r].by = result[owner[r]].msg.by
  /\ err[r] = result[owner[r]].err

\* What a cache may hold for a key.
Kept(c, k, m) ==
  /\ m \in Responses /\ m.conf \in Selectable(c, k[1])
  /\ m.cd => c = "global" /\ m.by = NoReq

\* Where a call is says what it has: no response before it asked, an unfiltered
\* one that its cache may hold when it stores, its own or the owner's in the end.
CallOK(r) ==
  /\ pc[r] \in {"wait", "lookup", "drop", "store", "publish", "close"} => cacheWorks(r)
  /\ pc[r] \in {"wait", "publish", "close"} => PendingEnabled
  /\ pc[r] \in {"start", "wait", "lookup", "drop", "ask"} => res[r] = NoMsg
  /\ pc[r] = "store" => res[r].id = r /\ Kept(cacheForContext(r), KeyOf(r), res[r])
  /\ pc[r] \in {"publish", "close", "returned"} /\ owner[r] = NoReq => Own(r)

\* Only waiters and those who have waited have an owner.
JoinOK(r) ==
  /\ pc[r] = "wait" => owner[r] # NoReq
  /\ owner[r] # NoReq => pc[r] \in {"wait", "returned"}
  /\ pc[r] = "returned" /\ owner[r] # NoReq => Joined(r)
  /\ result[r].closed => pc[r] = "returned"

\* A call that is about to delete an entry holds the lock under which it saw it.
DropOK(r) == pc[r] = "drop" => ~Usable(cacheForContext(r), Entry(r))

PendingOK ==
  PendingEnabled =>
    \A k \in Keys : Tracked(k) = IF pending[k] = NoReq THEN {} ELSE {pending[k]}

EntryOK(c, k) ==
  cache[c][k] # NoEntry =>
    cache[c][k].age # "none" /\ Kept(c, k, cache[c][k].msg)

\* Only a call that uses the optimistic cache has an entry refreshed.
Refreshes(r) == r \in Reqs /\ cacheWorks(r) /\ cacheForContext(r) = "global"

RefreshOK(k) ==
  /\ refresh[k].at = "asking" => Refreshes(refresh[k].call) /\ KeyOf(refresh[k].call) = k
  /\ refresh[k].at = "storing" => Kept("global", k, refresh[k].msg)

IInv ==
  /\ TypeOK /\ PendingOK
  /\ \A r \in Reqs : CallOK(r) /\ JoinOK(r) /\ DropOK(r)
  /\ \A c \in Caches, k \in Keys : EntryOK(c, k)
  /\ \A k \in Keys : RefreshOK(k)
  /\ \A r \in spawned : Refreshes(r)

-----------------------------------------------------------------------------
(* The operators on messages *)

Rcodes == {"noerror", "nxdomain", "servfail"}

LEMMA KindTypes ==
  ASSUME TypeOK, NEW r \in Reqs
  PROVE  /\ kind[r].conf \in {"default", "custom", "customNoCache", "private"}
         /\ kind[r].ad \in BOOLEAN /\ kind[r].do \in BOOLEAN /\ kind[r].cd \in BOOLEAN
<1>1. kind[r] \in AllKinds
  BY ResolveAssumption DEF TypeOK
<1> QED BY <1>1 DEF AllKinds

LEMMA KeyTypes ==
  ASSUME TypeOK, NEW r \in Reqs
  PROVE  KeyOf(r) \in Keys /\ cacheForContext(r) \in Caches
<1>1. question[r] \in Questions
  BY DEF TypeOK
<1>2. (kind[r].do \/ DNSSEC) \in BOOLEAN
  OBVIOUS
<1>3. KeyOf(r) \in Keys
  BY Zenon, <1>1, <1>2 DEF KeyOf, Keys
<1> QED BY <1>3 DEF cacheForContext, Caches

\* filterMsg leaves a response whose it is, with AD and DNSSEC records on demand.
LEMMA Filtered ==
  ASSUME TypeOK, NEW r \in Reqs, NEW m \in Responses
  PROVE  /\ filterMsg(m, r) \in Responses
         /\ filterMsg(m, r).id = m.id
         /\ filterMsg(m, r).ad => kind[r].ad \/ kind[r].do
         /\ filterMsg(m, r).sec => kind[r].do
<1> DEFINE f == filterMsg(m, r)
           a == m.ad /\ (kind[r].ad \/ kind[r].do)
           x == m.sec /\ kind[r].do
<1>1. a \in BOOLEAN /\ x \in BOOLEAN
  OBVIOUS
<1>2. f = [m EXCEPT !.ad = a, !.sec = x]
  BY DEF filterMsg
<1> HIDE DEF a, x, f
<1>3. f \in Responses /\ f.id = m.id /\ f.ad = a /\ f.sec = x
  BY Zenon, <1>1, <1>2 DEF Responses
<1> QED BY Zenon, <1>3 DEF a, x, f

LEMMA Unpacked ==
  ASSUME TypeOK, NEW r \in Reqs, NEW m \in Responses
  PROVE  unpackItem(m, r) \in Responses /\ unpackItem(m, r).id = r
BY Zenon, KindTypes DEF unpackItem, Responses

LEMMA Replied ==
  ASSUME TypeOK, NEW r \in Reqs, NEW m \in Responses
  PROVE  /\ SetReply(m, r) \in Responses
         /\ SetReply(m, r).id = r /\ SetReply(m, r).by = m.by
BY Zenon, KindTypes DEF SetReply, Responses

\* A reply comes from the upstreams that selectUpstreams chose, or from the fallbacks.
LEMMA Answered ==
  ASSUME TypeOK, NEW r \in Reqs, NEW reply \in Offered(r), NEW by \in Reqs \cup {NoReq}
  PROVE  /\ Reply(reply, r, by) \in Responses
         /\ Reply(reply, r, by).id = by /\ Reply(reply, r, by).by = by
         /\ Reply(reply, r, by).conf = IF reply.fallback THEN "fallback" ELSE selectUpstreams(r)
<1> DEFINE conf == IF reply.fallback THEN "fallback" ELSE selectUpstreams(r)
<1>1. reply \in AllReplies /\ selectUpstreams(r) # "none"
  BY ResolveAssumption DEF Offered
<1>2. conf \in Sources
  BY <1>1, KindTypes DEF selectUpstreams, Sources
<1>3. Reply(reply, r, by) =
        [id |-> by, rcode |-> reply.rcode, ad |-> reply.ad, sec |-> reply.sec,
         cd |-> reply.cd, keep |-> reply.keep, by |-> by, conf |-> conf]
  BY DEF Reply
<1> HIDE DEF conf
<1>4. /\ Reply(reply, r, by) \in Responses /\ Reply(reply, r, by).conf = conf
      /\ Reply(reply, r, by).id = by /\ Reply(reply, r, by).by = by
  BY <1>1, <1>2, <1>3 DEF Responses, AllReplies
<1> QED BY <1>4 DEF conf

\* What a call that uses a cache is answered, the cache may hold.
LEMMA AnswerKept ==
  ASSUME TypeOK, NEW r \in Reqs, cacheWorks(r), NEW reply \in Offered(r),
         NEW by \in Reqs \cup {NoReq},
         Reply(reply, r, by).cd => cacheForContext(r) = "global" /\ by = NoReq
  PROVE  Kept(cacheForContext(r), KeyOf(r), Reply(reply, r, by))
<1>1. KeyOf(r)[1] = question[r]
  BY DEF KeyOf
<1>2. selectUpstreams(r) # "none" /\ (reply.fallback => selectUpstreams(r) # "private")
  BY DEF Offered
<1>3. (IF reply.fallback THEN "fallback" ELSE selectUpstreams(r))
        \in Selectable(cacheForContext(r), question[r])
  BY <1>2 DEF selectUpstreams, cacheWorks, cacheForContext, Selectable
<1> QED BY <1>1, <1>3, Answered DEF Kept

LEMMA Made ==
  ASSUME TypeOK, NEW r \in Reqs, NEW rcode \in {"servfail", "nxdomain"}
  PROVE  Synthesized(rcode, r) \in Responses /\ Synthesized(rcode, r).id = r
BY KindTypes DEF Synthesized, Responses

-----------------------------------------------------------------------------
(* What a step of one call leaves alone *)

Before == {"lookup", "drop", "ask", "store", "publish"}

\* A call's key, cache and use of the cache are settled when it begins.
LEMMA Settled ==
  ASSUME UNCHANGED <<kind, question>>, NEW r
  PROVE  /\ KeyOf(r)' = KeyOf(r) /\ cacheWorks(r)' = cacheWorks(r)
         /\ cacheForContext(r)' = cacheForContext(r) /\ Refreshes(r)' = Refreshes(r)
BY DEF Refreshes, KeyOf, cacheWorks, cacheForContext

\* The storage is right after a step that moves no call across queue or done.
LEMMA TrackedStay ==
  ASSUME IInv, UNCHANGED <<kind, question, pending>>,
         \A r \in Reqs : cacheWorks(r) => (pc[r] \in Before <=> pc'[r] \in Before)
  PROVE  PendingOK'
<1>1. \A k : Tracked(k)' = Tracked(k)
  BY Settled DEF Tracked, Before
<1> QED BY <1>1 DEF IInv, PendingOK

\* A call that does not move keeps what it has.
LEMMA OthersStay ==
  ASSUME IInv, UNCHANGED <<kind, question>>, NEW s \in Reqs,
         pc'[s] = pc[s], res'[s] = res[s], owner'[s] = owner[s]
  PROVE  CallOK(s)'
BY Settled DEF IInv, CallOK, Own, AsRequested, Kept

\* A refresh stays the refresh of a call that does not change.
LEMMA RefreshesStay ==
  ASSUME IInv, UNCHANGED <<kind, question>>, NEW k \in Keys, refresh'[k] = refresh[k]
  PROVE  RefreshOK(k)'
BY Settled DEF IInv, RefreshOK, Kept

\* Results that have been released do not change, nor what was taken from them.
LEMMA JoinsStay ==
  ASSUME IInv, NEW s \in Reqs,
         pc'[s] = pc[s], res'[s] = res[s], owner'[s] = owner[s], err'[s] = err[s],
         result'[s] = result[s],
         \A o \in Reqs : result[o].closed => result'[o] = result[o]
  PROVE  JoinOK(s)'
<1>1. owner[s] # NoReq => owner[s] \in Reqs
  BY DEF IInv, TypeOK
<1> QED BY <1>1 DEF IInv, JoinOK, Joined

\* A lookup that holds the lock finds its entry as dead as it was.
LEMMA DropsStay ==
  ASSUME IInv, UNCHANGED <<kind, question, cache>>, NEW s \in Reqs, pc'[s] = pc[s]
  PROVE  DropOK(s)'
BY Zenon, Settled DEF IInv, DropOK, Usable, Entry, isOptimistic

\* A step of call r is judged by what it does to that call.
LEMMA OneCallMoves ==
  ASSUME IInv, NEW r \in Reqs, UNCHANGED <<kind, question>>, CallOK(r)', JoinOK(r)',
         \A s \in Reqs \ {r} : /\ pc'[s] = pc[s] /\ res'[s] = res[s] /\ err'[s] = err[s]
                               /\ owner'[s] = owner[s] /\ result'[s] = result[s],
         result[r].closed => result'[r] = result[r]
  PROVE  \A s \in Reqs : CallOK(s)' /\ JoinOK(s)'
<1>1. \A o \in Reqs : result[o].closed => result'[o] = result[o]
  OBVIOUS
<1>2. \A s \in Reqs : CallOK(s)'
  BY OthersStay
<1>3. \A s \in Reqs : JoinOK(s)'
  BY <1>1, JoinsStay
<1> QED BY <1>2, <1>3

\* The same for one that leaves the caches and the refreshes alone.
LEMMA OnlyOneCallMoves ==
  ASSUME IInv, NEW r \in Reqs, TypeOK', UNCHANGED <<kind, question, cache, refresh>>,
         \A s \in spawned' : s \in spawned \/ Refreshes(s),
         PendingOK', CallOK(r)', JoinOK(r)', DropOK(r)',
         \A s \in Reqs \ {r} : /\ pc'[s] = pc[s] /\ res'[s] = res[s] /\ err'[s] = err[s]
                               /\ owner'[s] = owner[s] /\ result'[s] = result[s],
         result[r].closed => result'[r] = result[r]
  PROVE  IInv'
<1>1. \A s \in Reqs : CallOK(s)' /\ JoinOK(s)'
  BY OneCallMoves
<1>2. \A s \in Reqs : DropOK(s)'
  BY DropsStay
<1>3. (\A c \in Caches, k \in Keys : EntryOK(c, k)') /\ (\A k \in Keys : RefreshOK(k)')
  BY RefreshesStay DEF IInv, EntryOK, Kept
<1>4. Keys' = Keys /\ Caches' = Caches
  BY DEF Keys, Caches
<1>5. \A s \in spawned' : Refreshes(s)'
  BY Settled DEF IInv
<1> QED BY <1>1, <1>2, <1>3, <1>4, <1>5 DEF IInv

\* set stores a response that the cache may hold under the write lock.
LEMMA PutKeeps ==
  ASSUME IInv, NEW c \in Caches, NEW k \in Keys, NEW m, Put(c, k, m), Kept(c, k, m),
         UNCHANGED <<kind, question>>, \A s \in Reqs : pc'[s] = "drop" => pc[s] = "drop"
  PROVE  /\ cache' \in [Caches -> [Keys -> [age : {"none", "fresh", "expired", "dead"}, msg : Msgs]]]
         /\ \A d \in Caches, j \in Keys : EntryOK(d, j)'
         /\ \A s \in Reqs : DropOK(s)'
<1>1. TypeOK
  BY DEF IInv
<1>2. CASE UNCHANGED cache
  <2>1. \A s \in Reqs : DropOK(s)'
    BY <1>2, Settled DEF IInv, DropOK, Usable, Entry, isOptimistic
  <2> QED BY <1>1, <1>2, <2>1 DEF IInv, TypeOK, EntryOK, Kept
<1>3. CASE WriteLock(c) /\ cache' = [cache EXCEPT ![c][k] = [age |-> "fresh", msg |-> m]]
  <2>1. cache' \in [Caches -> [Keys -> [age : {"none", "fresh", "expired", "dead"}, msg : Msgs]]]
    BY <1>1, <1>3 DEF TypeOK, Msgs, Kept
  <2>2. \A d \in Caches, j \in Keys :
          cache'[d][j] = IF d = c /\ j = k THEN [age |-> "fresh", msg |-> m] ELSE cache[d][j]
    BY <1>1, <1>3 DEF TypeOK
  <2>3. \A d \in Caches, j \in Keys : EntryOK(d, j)'
    BY <2>2 DEF IInv, EntryOK, Kept
  <2>4. ASSUME NEW s \in Reqs, pc'[s] = "drop"
        PROVE  ~Usable(cacheForContext(s), Entry(s))'
    <3>1. cacheForContext(s) # c /\ cacheForContext(s) \in Caches /\ KeyOf(s) \in Keys
      BY <1>1, <1>3, <2>4, KeyTypes DEF WriteLock
    <3>2. Entry(s)' = Entry(s)
      BY <2>2, <3>1, Settled DEF Entry
    <3> QED BY <2>4, <3>2, Settled DEF IInv, DropOK, Usable, isOptimistic
  <2> QED BY <2>1, <2>3, <2>4 DEF DropOK
<1> QED BY <1>2, <1>3 DEF Put

\* A call that leaves with a response of its own, or with none.
LEMMA Leaving ==
  ASSUME IInv, NEW r \in Reqs, pc[r] \in {"lookup", "ask", "store"}, Leave(r),
         NEW m \in Msgs, res' = [res EXCEPT ![r] = m],
         m # NoMsg => /\ m.id = r
                      /\ m.ad => kind[r].ad \/ kind[r].do
                      /\ m.sec => kind[r].do,
         UNCHANGED <<kind, question, owner, pendingVars>>
  PROVE  /\ PendingOK' /\ CallOK(r)' /\ JoinOK(r)' /\ DropOK(r)'
         /\ pc' \in [Reqs -> {"start", "wait", "lookup", "drop", "ask", "store", "publish", "close", "returned"}]
         /\ res' \in [Reqs -> Msgs]
         /\ \A s \in Reqs \ {r} : pc'[s] = pc[s] /\ res'[s] = res[s]
<1>1. TypeOK /\ CallOK(r) /\ JoinOK(r)
  BY DEF IInv
<1>2. /\ pc' = [pc EXCEPT ![r] = pc'[r]] /\ res'[r] = m
      /\ pc'[r] = IF cacheWorks(r) /\ PendingEnabled THEN "publish" ELSE "returned"
  BY <1>1 DEF Leave, Goto, TypeOK
<1>3. PendingOK'
  <2>1. CASE PendingEnabled
    BY <1>1, <1>2, <2>1, TrackedStay DEF TypeOK, Before, pendingVars
  <2>2. CASE ~PendingEnabled
    BY <2>2 DEF PendingOK
  <2> QED BY <2>1, <2>2
<1>4. CallOK(r)'
  BY <1>1, <1>2, Settled DEF CallOK, Own, AsRequested
<1>5. JoinOK(r)' /\ DropOK(r)'
  BY <1>1, <1>2 DEF JoinOK, DropOK, pendingVars
<1>6. pc' \in [Reqs -> {"start", "wait", "lookup", "drop", "ask", "store", "publish", "close", "returned"}]
  BY <1>1 DEF Leave, Goto, TypeOK
<1>7. res' \in [Reqs -> Msgs] /\ \A s \in Reqs \ {r} : pc'[s] = pc[s] /\ res'[s] = res[s]
  BY <1>1 DEF Leave, Goto, TypeOK
<1> QED BY <1>3, <1>4, <1>5, <1>6, <1>7

-----------------------------------------------------------------------------
(* The steps of a call *)

LEMMA BypassInv == ASSUME IInv, NEW r \in Reqs, Bypass(r) PROVE IInv'
<1>1. TypeOK /\ CallOK(r) /\ JoinOK(r)
  BY DEF IInv
<1>2. TypeOK'
  BY <1>1 DEF Bypass, Goto, TypeOK, pendingVars, refreshVars
<1>3. PendingOK'
  BY TrackedStay, <1>1 DEF Bypass, Goto, TypeOK, pendingVars, Before
<1>4. CallOK(r)' /\ JoinOK(r)' /\ DropOK(r)'
  BY <1>1 DEF Bypass, Goto, TypeOK, CallOK, JoinOK, DropOK, pendingVars
<1> QED BY Zenon, <1>1, <1>2, <1>3, <1>4, OnlyOneCallMoves DEF Bypass, Goto, TypeOK, pendingVars, refreshVars

LEMMA QueueFirstInv == ASSUME IInv, NEW r \in Reqs, QueueFirst(r) PROVE IInv'
<1>1. TypeOK /\ CallOK(r) /\ JoinOK(r) /\ KeyOf(r) \in Keys
  BY KeyTypes DEF IInv
<1>2. TypeOK'
  BY <1>1 DEF QueueFirst, Goto, TypeOK, refreshVars
<1>3. PendingOK'
  <2> SUFFICES ASSUME PendingEnabled, NEW k \in Keys
               PROVE  Tracked(k)' = IF pending'[k] = NoReq THEN {} ELSE {pending'[k]}
    BY DEF PendingOK, Keys
  <2>1. Tracked(k)' = IF k = KeyOf(r) THEN Tracked(k) \cup {r} ELSE Tracked(k)
    BY <1>1, Settled DEF QueueFirst, Goto, TypeOK, Tracked
  <2>2. Tracked(k) = IF pending[k] = NoReq THEN {} ELSE {pending[k]}
    BY DEF IInv, PendingOK
  <2>3. pending[KeyOf(r)] = NoReq /\ pending' = [pending EXCEPT ![KeyOf(r)] = r] /\ r # NoReq
    BY ResolveAssumption DEF QueueFirst, Loaded
  <2>4. CASE k = KeyOf(r)
    BY <1>1, <2>1, <2>2, <2>3, <2>4 DEF TypeOK
  <2>5. CASE k # KeyOf(r)
    BY <1>1, <2>1, <2>2, <2>3, <2>5 DEF TypeOK
  <2> QED BY <2>4, <2>5
<1>4. CallOK(r)' /\ JoinOK(r)' /\ DropOK(r)'
  BY <1>1, Settled DEF QueueFirst, Goto, TypeOK, CallOK, JoinOK, DropOK
<1> QED BY Zenon, <1>1, <1>2, <1>3, <1>4, OnlyOneCallMoves DEF QueueFirst, Goto, TypeOK, refreshVars

LEMMA QueueWaitInv == ASSUME IInv, NEW r \in Reqs, QueueWait(r) PROVE IInv'
<1>1. TypeOK /\ CallOK(r) /\ JoinOK(r) /\ KeyOf(r) \in Keys
  BY KeyTypes DEF IInv
<1>2. TypeOK'
  BY <1>1 DEF QueueWait, Goto, TypeOK, pendingVars, refreshVars
<1>3. PendingOK'
  BY TrackedStay, <1>1 DEF QueueWait, Goto, TypeOK, pendingVars, Before
<1>4. CallOK(r)' /\ JoinOK(r)' /\ DropOK(r)'
  BY <1>1, Settled DEF QueueWait, Loaded, Goto, TypeOK, CallOK, JoinOK, DropOK, pendingVars
<1> QED BY Zenon, <1>1, <1>2, <1>3, <1>4, OnlyOneCallMoves DEF QueueWait, Goto, TypeOK, pendingVars, refreshVars

LEMMA WakeInv == ASSUME IInv, NEW r \in Reqs, Wake(r) PROVE IInv'
<1> DEFINE shared == result[owner[r]]
           m == IF shared.msg = NoMsg THEN NoMsg ELSE SetReply(shared.msg, r)
<1>1. TypeOK /\ CallOK(r) /\ JoinOK(r)
  BY DEF IInv
<1>2. owner[r] \in Reqs /\ shared \in [closed : BOOLEAN, msg : Msgs, err : BOOLEAN]
  BY <1>1 DEF Wake, JoinOK, TypeOK
<1>3. m \in Msgs /\ (m # NoMsg => m.id = r /\ m.by = shared.msg.by)
  BY <1>1, <1>2, Replied DEF Msgs
<1>4. /\ pc[r] = "wait" /\ shared.closed
      /\ res' = [res EXCEPT ![r] = m] /\ err' = [err EXCEPT ![r] = shared.err]
      /\ pc' = [pc EXCEPT ![r] = "returned"]
      /\ UNCHANGED <<kind, question, owner, pending, result, cache, spawned, refresh>>
  BY DEF Wake, Goto, pendingVars, refreshVars
<1> HIDE DEF m
<1>5. TypeOK'
  BY <1>1, <1>2, <1>3, <1>4 DEF TypeOK
<1>6. PendingOK'
  BY TrackedStay, <1>1, <1>4 DEF TypeOK, Before
<1>7. CallOK(r)' /\ JoinOK(r)' /\ DropOK(r)'
  <2>1. res'[r] = m /\ err'[r] = shared.err /\ pc'[r] = "returned"
    BY <1>1, <1>4 DEF TypeOK
  <2>2. owner[r] # NoReq
    BY <1>2, ResolveAssumption
  <2> QED BY <1>1, <1>3, <1>4, <2>1, <2>2 DEF CallOK, JoinOK, Joined, DropOK
<1> QED BY Zenon, <1>1, <1>4, <1>5, <1>6, <1>7, OnlyOneCallMoves DEF TypeOK

LEMMA LookupHitInv == ASSUME IInv, NEW r \in Reqs, LookupHit(r) PROVE IInv'
<1> DEFINE m == filterMsg(unpackItem(Entry(r).msg, r), r)
<1>1. TypeOK /\ KeyOf(r) \in Keys /\ cacheForContext(r) \in Caches
  BY KeyTypes DEF IInv
<1>2. Entry(r).msg \in Responses
  <2>1. Entry(r) # NoEntry
    BY DEF LookupHit, Usable, NoEntry
  <2> QED BY Zenon, <1>1, <2>1 DEF IInv, EntryOK, Entry, Kept
<1>3. m \in Responses /\ m.id = r /\ (m.ad => kind[r].ad \/ kind[r].do) /\ (m.sec => kind[r].do)
  BY <1>1, <1>2, Unpacked, Filtered
<1>4. /\ pc[r] = "lookup" /\ Leave(r) /\ res' = [res EXCEPT ![r] = m]
      /\ spawned' \subseteq Reqs /\ \A s \in spawned' : s \in spawned \/ Refreshes(s)
      /\ UNCHANGED <<kind, question, err, owner, pendingVars, cache, refresh>>
  <2>1. Entry(r).age = "expired" /\ pc[r] = "lookup" => Refreshes(r)
    BY Zenon DEF LookupHit, Usable, isOptimistic, IInv, CallOK, Refreshes
  <2> QED BY <1>1, <2>1 DEF LookupHit, TypeOK
<1> HIDE DEF m
<1>5. m \in Msgs
  BY <1>3 DEF Msgs
<1>6. /\ PendingOK' /\ CallOK(r)' /\ JoinOK(r)' /\ DropOK(r)'
      /\ pc' \in [Reqs -> {"start", "wait", "lookup", "drop", "ask", "store", "publish", "close", "returned"}]
      /\ res' \in [Reqs -> Msgs]
      /\ \A s \in Reqs \ {r} : pc'[s] = pc[s] /\ res'[s] = res[s]
  BY Zenon, <1>3, <1>4, <1>5, Leaving
<1>7. TypeOK'
  BY <1>1, <1>4, <1>6 DEF TypeOK, pendingVars
<1> QED BY <1>4, <1>6, <1>7, OnlyOneCallMoves DEF pendingVars

LEMMA LookupMissInv == ASSUME IInv, NEW r \in Reqs, LookupMiss(r) PROVE IInv'
<1>1. TypeOK /\ CallOK(r) /\ JoinOK(r)
  BY DEF IInv
<1>2. TypeOK'
  BY <1>1 DEF LookupMiss, Goto, TypeOK, pendingVars, refreshVars
<1>3. PendingOK'
  BY TrackedStay, <1>1 DEF LookupMiss, Goto, TypeOK, pendingVars, Before
<1>4. CallOK(r)' /\ JoinOK(r)'
  BY <1>1, Settled DEF LookupMiss, Goto, TypeOK, CallOK, JoinOK, pendingVars
<1>5. DropOK(r)'
  BY Zenon, <1>1, Settled DEF LookupMiss, DropOK, Usable, Entry, isOptimistic
<1> QED BY Zenon, <1>1, <1>2, <1>3, <1>4, <1>5, OnlyOneCallMoves
        DEF LookupMiss, Goto, TypeOK, pendingVars, refreshVars

LEMMA AnswerInv == ASSUME IInv, NEW r \in Reqs, Answer(r) PROVE IInv'
<1>1. TypeOK /\ CallOK(r) /\ JoinOK(r)
  BY DEF IInv
<1>2. PICK reply \in Offered(r) :
        LET m == Reply(reply, r, r) IN
          IF Stores(r, m)
          THEN Goto(r, "store") /\ res' = [res EXCEPT ![r] = m]
          ELSE Leave(r) /\ res' = [res EXCEPT ![r] = filterMsg(m, r)]
  BY DEF Answer
<1> DEFINE m == Reply(reply, r, r)
<1>3. /\ m \in Responses /\ m.id = r
      /\ Stores(r, m) => Kept(cacheForContext(r), KeyOf(r), m)
  BY <1>1, Answered, AnswerKept DEF Stores
<1>4. pc[r] = "ask" /\ UNCHANGED <<kind, question, err, owner, pendingVars, cache, refreshVars>>
  BY DEF Answer
<1>5. \/ Stores(r, m) /\ Goto(r, "store") /\ res' = [res EXCEPT ![r] = m]
      \/ Leave(r) /\ res' = [res EXCEPT ![r] = filterMsg(m, r)]
  BY <1>2
<1> HIDE DEF m
<1>6. CASE Stores(r, m) /\ Goto(r, "store") /\ res' = [res EXCEPT ![r] = m]
  <2>1. TypeOK'
    BY <1>1, <1>3, <1>4, <1>6 DEF Goto, TypeOK, Msgs, pendingVars, refreshVars
  <2>2. PendingOK'
    BY TrackedStay, <1>1, <1>4, <1>6 DEF Goto, TypeOK, pendingVars, Before
  <2>3. CallOK(r)' /\ JoinOK(r)' /\ DropOK(r)'
    <3>1. pc'[r] = "store" /\ res'[r] = m /\ cacheWorks(r)
      BY <1>1, <1>6 DEF Goto, TypeOK, Stores
    <3>2. CallOK(r)'
      BY Zenon, <1>1, <1>3, <1>4, <1>6, <3>1, Settled DEF CallOK, Kept
    <3> QED BY Zenon, <1>1, <1>4, <3>1, <3>2 DEF JoinOK, DropOK, pendingVars
  <2> QED BY Zenon, <1>1, <1>4, <1>6, <2>1, <2>2, <2>3, OnlyOneCallMoves
          DEF Goto, TypeOK, pendingVars, refreshVars
<1>7. CASE Leave(r) /\ res' = [res EXCEPT ![r] = filterMsg(m, r)]
  <2> DEFINE f == filterMsg(m, r)
  <2>1. f \in Responses /\ f.id = r /\ (f.ad => kind[r].ad \/ kind[r].do) /\ (f.sec => kind[r].do)
    BY <1>1, <1>3, Filtered
  <2>2. res' = [res EXCEPT ![r] = f]
    BY <1>7
  <2> HIDE DEF f
  <2>3. f \in Msgs
    BY <2>1 DEF Msgs
  <2>4. /\ PendingOK' /\ CallOK(r)' /\ JoinOK(r)' /\ DropOK(r)'
        /\ pc' \in [Reqs -> {"start", "wait", "lookup", "drop", "ask", "store", "publish", "close", "returned"}]
        /\ res' \in [Reqs -> Msgs]
        /\ \A s \in Reqs \ {r} : pc'[s] = pc[s] /\ res'[s] = res[s]
    BY Zenon, <1>4, <1>7, <2>1, <2>2, <2>3, Leaving
  <2>5. TypeOK'
    BY <1>1, <1>4, <2>4 DEF TypeOK, pendingVars, refreshVars
  <2> QED BY Zenon, <1>4, <2>4, <2>5, OnlyOneCallMoves DEF pendingVars, refreshVars
<1> QED BY <1>5, <1>6, <1>7

LEMMA FailInv == ASSUME IInv, NEW r \in Reqs, Fail(r) PROVE IInv'
<1>1. TypeOK
  BY DEF IInv
<1>2. PICK rcode \in {"servfail", "nxdomain"} :
        res' = [res EXCEPT ![r] = filterMsg(Synthesized(rcode, r), r)]
  BY Zenon DEF Fail, FailureCodes
<1> DEFINE m == filterMsg(Synthesized(rcode, r), r)
<1>3. m \in Responses /\ m.id = r /\ (m.ad => kind[r].ad \/ kind[r].do) /\ (m.sec => kind[r].do)
  BY <1>1, Made, Filtered
<1>4. /\ pc[r] = "ask" /\ Leave(r) /\ res' = [res EXCEPT ![r] = m]
      /\ err' = [err EXCEPT ![r] = TRUE]
      /\ UNCHANGED <<kind, question, owner, pendingVars, cache, refreshVars>>
  BY Zenon, <1>2 DEF Fail
<1> HIDE DEF m
<1>5. m \in Msgs
  BY <1>3 DEF Msgs
<1>6. /\ PendingOK' /\ CallOK(r)' /\ JoinOK(r)' /\ DropOK(r)'
      /\ pc' \in [Reqs -> {"start", "wait", "lookup", "drop", "ask", "store", "publish", "close", "returned"}]
      /\ res' \in [Reqs -> Msgs]
      /\ \A s \in Reqs \ {r} : pc'[s] = pc[s] /\ res'[s] = res[s]
  BY Zenon, <1>3, <1>4, <1>5, Leaving
<1>7. err' \in [Reqs -> BOOLEAN] /\ \A s \in Reqs \ {r} : err'[s] = err[s]
  BY <1>1, <1>4 DEF TypeOK
<1>8. TypeOK'
  BY <1>1, <1>4, <1>6, <1>7 DEF TypeOK, pendingVars, refreshVars
<1> QED BY Zenon, <1>4, <1>6, <1>7, <1>8, OnlyOneCallMoves DEF pendingVars, refreshVars

LEMMA PanicInv == ASSUME IInv, NEW r \in Reqs, Panic(r) PROVE IInv'
<1>1. TypeOK /\ CallOK(r)
  BY DEF IInv
<1>2. /\ pc[r] = "ask" /\ Leave(r) /\ res' = [res EXCEPT ![r] = NoMsg]
      /\ UNCHANGED <<kind, question, err, owner, pendingVars, cache, refreshVars>>
  <2>1. res[r] = NoMsg /\ res \in [Reqs -> Msgs]
    BY <1>1 DEF Panic, CallOK, TypeOK
  <2> QED BY <2>1 DEF Panic
<1>3. NoMsg \in Msgs
  BY DEF Msgs
<1>4. /\ PendingOK' /\ CallOK(r)' /\ JoinOK(r)' /\ DropOK(r)'
      /\ pc' \in [Reqs -> {"start", "wait", "lookup", "drop", "ask", "store", "publish", "close", "returned"}]
      /\ res' \in [Reqs -> Msgs]
      /\ \A s \in Reqs \ {r} : pc'[s] = pc[s] /\ res'[s] = res[s]
  BY Zenon, <1>2, <1>3, Leaving
<1>5. TypeOK'
  BY <1>1, <1>2, <1>4 DEF TypeOK, pendingVars, refreshVars
<1> QED BY Zenon, <1>2, <1>4, <1>5, OnlyOneCallMoves DEF pendingVars, refreshVars

LEMMA StoreInv == ASSUME IInv, NEW r \in Reqs, Store(r) PROVE IInv'
<1> DEFINE m == filterMsg(res[r], r)
<1>1. /\ TypeOK /\ CallOK(r) /\ KeyOf(r) \in Keys /\ cacheForContext(r) \in Caches
  BY KeyTypes DEF IInv
<1>2. res[r] \in Responses /\ res[r].id = r /\ Kept(cacheForContext(r), KeyOf(r), res[r])
  BY <1>1 DEF Store, CallOK, Kept
<1>3. m \in Responses /\ m.id = r /\ (m.ad => kind[r].ad \/ kind[r].do) /\ (m.sec => kind[r].do)
  BY <1>1, <1>2, Filtered
<1>4. /\ pc[r] = "store" /\ Leave(r) /\ res' = [res EXCEPT ![r] = m]
      /\ Put(cacheForContext(r), KeyOf(r), res[r])
      /\ UNCHANGED <<kind, question, err, owner, pendingVars, refreshVars>>
  BY <1>1 DEF Store, TypeOK
<1> HIDE DEF m
<1>5. m \in Msgs
  BY <1>3 DEF Msgs
<1>6. /\ PendingOK' /\ CallOK(r)' /\ JoinOK(r)' /\ DropOK(r)'
      /\ pc' \in [Reqs -> {"start", "wait", "lookup", "drop", "ask", "store", "publish", "close", "returned"}]
      /\ res' \in [Reqs -> Msgs]
      /\ \A s \in Reqs \ {r} : pc'[s] = pc[s] /\ res'[s] = res[s]
  BY Zenon, <1>3, <1>4, <1>5, Leaving
<1>7. \A s \in Reqs : pc'[s] = "drop" => pc[s] = "drop"
  BY <1>1, <1>4 DEF Leave, Goto, TypeOK
<1>8. /\ cache' \in [Caches -> [Keys -> [age : {"none", "fresh", "expired", "dead"}, msg : Msgs]]]
      /\ \A d \in Caches, j \in Keys : EntryOK(d, j)'
      /\ \A s \in Reqs : DropOK(s)'
  BY <1>1, <1>2, <1>4, <1>7, PutKeeps
<1>9. \A s \in Reqs : CallOK(s)' /\ JoinOK(s)'
  BY <1>4, <1>6, OneCallMoves DEF pendingVars
<1>10. TypeOK'
  BY <1>1, <1>4, <1>6, <1>8 DEF TypeOK, pendingVars, refreshVars
<1>11. (\A k \in Keys : RefreshOK(k)') /\ (\A s \in spawned' : Refreshes(s)')
  BY <1>4, RefreshesStay, Settled DEF IInv, refreshVars
<1> QED BY Zenon, <1>6, <1>8, <1>9, <1>10, <1>11 DEF IInv, Keys, Caches

LEMMA DropInv == ASSUME IInv, NEW r \in Reqs, Drop(r) PROVE IInv'
<1>1. /\ TypeOK /\ CallOK(r) /\ JoinOK(r)
      /\ KeyOf(r) \in Keys /\ cacheForContext(r) \in Caches
  BY KeyTypes DEF IInv
<1>2. NoEntry \in [age : {"none", "fresh", "expired", "dead"}, msg : Msgs]
  BY DEF NoEntry, Msgs
<1>3. TypeOK'
  BY <1>1, <1>2 DEF Drop, Goto, TypeOK, pendingVars, refreshVars
<1>4. PendingOK'
  BY TrackedStay, <1>1 DEF Drop, Goto, TypeOK, pendingVars, Before
<1>5. CallOK(r)' /\ JoinOK(r)'
  BY <1>1, Settled DEF Drop, Goto, TypeOK, CallOK, JoinOK, pendingVars
<1>6. \A s \in Reqs : CallOK(s)' /\ JoinOK(s)'
  BY <1>1, <1>5, OneCallMoves DEF Drop, Goto, TypeOK, pendingVars
<1>7. \A c \in Caches, k \in Keys : cache'[c][k] = cache[c][k] \/ cache'[c][k] = NoEntry
  BY <1>1 DEF Drop, TypeOK
<1>8. ASSUME NEW c \in Caches, NEW k \in Keys PROVE EntryOK(c, k)'
  <2>1. EntryOK(c, k) /\ (cache'[c][k] = cache[c][k] \/ cache'[c][k] = NoEntry)
    BY <1>7 DEF IInv
  <2> QED BY <2>1 DEF EntryOK, Kept
<1>9. ASSUME NEW s \in Reqs PROVE DropOK(s)'
  <2>1. Entry(s)' = Entry(s) \/ Entry(s)' = NoEntry
    BY <1>1, <1>7, KeyTypes, Settled DEF Drop, Entry
  <2>2. pc'[s] = "drop" => pc[s] = "drop"
    BY <1>1 DEF Drop, Goto, TypeOK
  <2> QED BY <2>1, <2>2, Settled DEF Drop, IInv, DropOK, Usable, isOptimistic, NoEntry
<1>10. (\A k \in Keys : RefreshOK(k)') /\ (\A s \in spawned' : Refreshes(s)')
  BY RefreshesStay, Settled DEF Drop, IInv, refreshVars
<1> QED BY <1>3, <1>4, <1>6, <1>8, <1>9, <1>10 DEF IInv, Keys, Caches

LEMMA DoneInv == ASSUME IInv, NEW r \in Reqs, done(r) PROVE IInv'
<1>1. TypeOK /\ CallOK(r) /\ JoinOK(r) /\ KeyOf(r) \in Keys
  BY KeyTypes DEF IInv
<1>2. TypeOK'
  <2>1. result' \in [Reqs -> [closed : BOOLEAN, msg : Msgs, err : BOOLEAN]]
    <3> DEFINE own == [result[r] EXCEPT !.msg = res[r], !.err = err[r]]
    <3>1. result[r] \in [closed : BOOLEAN, msg : Msgs, err : BOOLEAN] /\ res[r] \in Msgs /\ err[r] \in BOOLEAN
      BY <1>1 DEF TypeOK
    <3>2. own \in [closed : BOOLEAN, msg : Msgs, err : BOOLEAN]
      BY Zenon, <3>1
    <3>3. result' = [result EXCEPT ![r] = own]
      BY DEF done
    <3> HIDE DEF own
    <3> QED BY <1>1, <3>2, <3>3 DEF TypeOK
  <2>2. pending' \in [Keys -> Reqs \cup {NoReq}]
    BY <1>1 DEF done, TypeOK
  <2>3. pc' = [pc EXCEPT ![r] = "close"]
    BY DEF done, Goto
  <2>4. UNCHANGED <<kind, question, res, err, owner, cache, spawned, refresh>>
    BY DEF done, refreshVars
  <2> QED BY <1>1, <2>1, <2>2, <2>3, <2>4 DEF TypeOK
<1>3. PendingOK'
  <2> SUFFICES ASSUME PendingEnabled, NEW k \in Keys
               PROVE  Tracked(k)' = IF pending'[k] = NoReq THEN {} ELSE {pending'[k]}
    BY DEF PendingOK, Keys
  <2>1. Tracked(k)' = Tracked(k) \ {r}
    BY <1>1, Settled DEF done, Goto, TypeOK, Tracked
  <2>2. Tracked(k) = IF pending[k] = NoReq THEN {} ELSE {pending[k]}
    BY DEF IInv, PendingOK
  <2>3. r \in Tracked(k) <=> k = KeyOf(r)
    BY <1>1 DEF Tracked, done, CallOK
  <2>4. CASE k = KeyOf(r)
    <3>1. pending'[k] = NoReq
      BY <1>1, <2>4 DEF done, TypeOK
    <3>2. Tracked(k) = {r}
      BY <2>2, <2>3, <2>4
    <3> QED BY <2>1, <3>1, <3>2
  <2>5. CASE k # KeyOf(r)
    <3>1. pending'[k] = pending[k]
      BY <1>1, <2>5 DEF done, TypeOK
    <3>2. Tracked(k)' = Tracked(k)
      BY <2>1, <2>3, <2>5
    <3> QED BY <2>2, <3>1, <3>2
  <2> QED BY <2>4, <2>5
<1>4. CallOK(r)' /\ JoinOK(r)' /\ DropOK(r)'
  BY <1>1, Settled DEF done, Goto, TypeOK, CallOK, JoinOK, DropOK, Own, AsRequested
<1> QED BY Zenon, <1>1, <1>2, <1>3, <1>4, OnlyOneCallMoves DEF done, Goto, TypeOK, JoinOK, refreshVars

LEMMA CloseFinishInv == ASSUME IInv, NEW r \in Reqs, CloseFinish(r) PROVE IInv'
<1>1. TypeOK /\ CallOK(r) /\ JoinOK(r)
  BY DEF IInv
<1>2. TypeOK'
  <2>1. result' \in [Reqs -> [closed : BOOLEAN, msg : Msgs, err : BOOLEAN]]
    <3> DEFINE own == [result[r] EXCEPT !.closed = TRUE]
    <3>1. result[r] \in [closed : BOOLEAN, msg : Msgs, err : BOOLEAN]
      BY <1>1 DEF TypeOK
    <3>2. own \in [closed : BOOLEAN, msg : Msgs, err : BOOLEAN]
      BY Zenon, <3>1
    <3>3. result' = [result EXCEPT ![r] = own]
      BY <1>1 DEF CloseFinish, TypeOK
    <3> HIDE DEF own
    <3> QED BY <1>1, <3>2, <3>3 DEF TypeOK
  <2>2. pc' = [pc EXCEPT ![r] = "returned"]
    BY DEF CloseFinish, Goto
  <2>3. UNCHANGED <<kind, question, res, err, owner, pending, cache, spawned, refresh>>
    BY DEF CloseFinish, refreshVars
  <2> QED BY <1>1, <2>1, <2>2, <2>3 DEF TypeOK
<1>3. PendingOK'
  BY TrackedStay, <1>1 DEF CloseFinish, Goto, TypeOK, Before
<1>4. CallOK(r)' /\ JoinOK(r)' /\ DropOK(r)'
  BY <1>1, Settled DEF CloseFinish, Goto, TypeOK, CallOK, JoinOK, DropOK, Own, AsRequested
<1> QED BY Zenon, <1>1, <1>2, <1>3, <1>4, OnlyOneCallMoves DEF CloseFinish, Goto, TypeOK, JoinOK, refreshVars

-----------------------------------------------------------------------------
(* The refreshes and the caches *)

\* A step that leaves the calls and the pending requests alone.
LEMMA CallsRest ==
  ASSUME IInv, UNCHANGED <<callVars, pendingVars>>
  PROVE  PendingOK' /\ \A r \in Reqs : CallOK(r)' /\ JoinOK(r)'
<1>1. PendingOK'
  BY TrackedStay DEF callVars, pendingVars
<1>2. ASSUME NEW r \in Reqs PROVE CallOK(r)' /\ JoinOK(r)'
  BY OthersStay, JoinsStay DEF callVars, pendingVars
<1> QED BY <1>1, <1>2

\* A step of a refresh that leaves the calls and the caches alone.
LEMMA RefreshMoves ==
  ASSUME IInv, UNCHANGED <<callVars, pendingVars, cache>>, spawned' \subseteq spawned,
         NEW k \in Keys, NEW e \in [at : {"idle", "asking", "storing", "leaving"},
                                   call : Reqs \cup {NoReq}, msg : Msgs],
         refresh' = [refresh EXCEPT ![k] = e],
         e.at = "asking" => Refreshes(e.call) /\ KeyOf(e.call) = k,
         e.at = "storing" => Kept("global", k, e.msg)
  PROVE  IInv'
<1>1. TypeOK /\ UNCHANGED <<kind, question>>
  BY DEF IInv, callVars
<1>2. PendingOK' /\ \A r \in Reqs : CallOK(r)' /\ JoinOK(r)' /\ DropOK(r)'
  BY CallsRest, DropsStay DEF callVars
<1>3. \A j \in Keys : refresh'[j] = IF j = k THEN e ELSE refresh[j]
  BY <1>1 DEF TypeOK
<1>4. ASSUME NEW j \in Keys PROVE RefreshOK(j)'
  <2>1. CASE j = k
    BY Zenon, <1>1, <1>3, <2>1, Settled DEF RefreshOK, Kept
  <2>2. CASE j # k
    BY <1>1, <1>3, <2>2, RefreshesStay
  <2> QED BY <2>1, <2>2
<1>5. TypeOK'
  BY <1>1 DEF TypeOK, callVars, pendingVars
<1>6. \A c \in Caches, j \in Keys : EntryOK(c, j)'
  BY Zenon DEF IInv, EntryOK, Kept
<1>7. \A r \in spawned' : Refreshes(r)'
  BY <1>1, Settled DEF IInv
<1> QED BY <1>2, <1>4, <1>5, <1>6, <1>7 DEF IInv, Keys, Caches

LEMMA RefreshStartInv == ASSUME IInv, NEW r \in Reqs, RefreshStart(r) PROVE IInv'
<1> DEFINE e == [at |-> "asking", call |-> r, msg |-> NoMsg]
           k == KeyOf(r)
<1>1. TypeOK /\ k \in Keys /\ Refreshes(r)
  BY KeyTypes DEF IInv, RefreshStart
<1>2. UNCHANGED <<callVars, pendingVars, cache>> /\ spawned' \subseteq spawned
  BY DEF RefreshStart
<1>3. /\ e \in [at : {"idle", "asking", "storing", "leaving"}, call : Reqs \cup {NoReq}, msg : Msgs]
      /\ e.at = "asking" /\ e.call = r
  BY DEF Msgs
<1>4. refresh' = [refresh EXCEPT ![k] = e] \/ refresh' = [refresh EXCEPT ![k] = refresh[k]]
  BY Zenon, <1>1 DEF RefreshStart, TypeOK
<1>5. /\ refresh[k] \in [at : {"idle", "asking", "storing", "leaving"},
                         call : Reqs \cup {NoReq}, msg : Msgs]
      /\ RefreshOK(k)
  BY <1>1 DEF IInv, TypeOK
<1> HIDE DEF e
<1>6. CASE refresh' = [refresh EXCEPT ![k] = e]
  BY Zenon, <1>1, <1>2, <1>3, <1>6, RefreshMoves
<1> HIDE DEF k
<1>7. CASE refresh' = [refresh EXCEPT ![k] = refresh[k]]
  BY Zenon, <1>1, <1>2, <1>5, <1>7, RefreshMoves DEF RefreshOK
<1> QED BY <1>4, <1>6, <1>7

LEMMA RefreshAnswerInv == ASSUME IInv, NEW k \in Keys, RefreshAnswer(k) PROVE IInv'
<1> DEFINE r == refresh[k].call
<1>1. TypeOK /\ Refreshes(r) /\ KeyOf(r) = k
  BY DEF IInv, RefreshOK, RefreshAnswer
<1>2. PICK reply \in Offered(r) :
        refresh' = [refresh EXCEPT ![k] = [at |-> "storing", call |-> NoReq, msg |-> Reply(reply, r, NoReq)]]
  BY Zenon DEF RefreshAnswer
<1> DEFINE m == Reply(reply, r, NoReq)
           e == [at |-> "storing", call |-> NoReq, msg |-> m]
<1>3. Kept("global", k, m)
  BY <1>1, AnswerKept DEF Refreshes
<1>4. refresh' = [refresh EXCEPT ![k] = e]
  BY <1>2
<1> HIDE DEF r, m
<1>5. /\ e \in [at : {"idle", "asking", "storing", "leaving"}, call : Reqs \cup {NoReq}, msg : Msgs]
      /\ e.at = "storing" /\ e.msg = m
  BY <1>3 DEF Msgs, Kept
<1> HIDE DEF e
<1> QED BY Zenon, <1>3, <1>4, <1>5, RefreshMoves DEF RefreshAnswer

\* A refresh that has ended, with a response or not, leaves and gives its key back.
LEMMA IdleTypes ==
  ASSUME NEW at \in {"idle", "leaving"}
  PROVE  /\ [Idle EXCEPT !.at = at] \in [at : {"idle", "asking", "storing", "leaving"},
                                       call : Reqs \cup {NoReq}, msg : Msgs]
         /\ [Idle EXCEPT !.at = at].at = at
BY DEF Idle, Msgs

LEMMA RefreshEndInv ==
  ASSUME IInv, NEW k \in Keys, RefreshFail(k) \/ RefreshLeave(k) PROVE IInv'
<1> DEFINE e == [Idle EXCEPT !.at = "leaving"]
<1>1. refresh' = [refresh EXCEPT ![k] = e] \/ refresh' = [refresh EXCEPT ![k] = Idle]
  BY DEF RefreshFail, RefreshLeave
<1>2. UNCHANGED <<callVars, pendingVars, cache, spawned>>
  BY DEF RefreshFail, RefreshLeave
<1>3. Idle = [Idle EXCEPT !.at = "idle"]
  BY DEF Idle
<1> QED BY <1>1, <1>2, <1>3, IdleTypes, RefreshMoves

LEMMA RefreshStoreInv == ASSUME IInv, NEW k \in Keys, RefreshStore(k) PROVE IInv'
<1>1. TypeOK /\ RefreshOK(k) /\ "global" \in Caches
  BY DEF IInv, Caches
<1>2. PendingOK' /\ \A r \in Reqs : CallOK(r)' /\ JoinOK(r)'
  BY CallsRest DEF RefreshStore
<1>3. Kept("global", k, refresh[k].msg)
  BY <1>1 DEF RefreshStore, RefreshOK
<1>4. /\ cache' \in [Caches -> [Keys -> [age : {"none", "fresh", "expired", "dead"}, msg : Msgs]]]
      /\ \A d \in Caches, j \in Keys : EntryOK(d, j)'
      /\ \A s \in Reqs : DropOK(s)'
  BY <1>1, <1>3, PutKeeps DEF RefreshStore, callVars
<1>5. /\ refresh' \in [Keys -> [at : {"idle", "asking", "storing", "leaving"},
                               call : Reqs \cup {NoReq}, msg : Msgs]]
      /\ \A j \in Keys : RefreshOK(j)'
  <2> DEFINE e == [Idle EXCEPT !.at = "leaving"]
  <2>1. e \in [at : {"idle", "asking", "storing", "leaving"}, call : Reqs \cup {NoReq}, msg : Msgs]
        /\ e.at = "leaving"
    BY IdleTypes
  <2>2. refresh' = [refresh EXCEPT ![k] = e] /\ UNCHANGED <<kind, question>>
    BY DEF RefreshStore, callVars
  <2> HIDE DEF e
  <2>3. \A j \in Keys : refresh'[j] = IF j = k THEN e ELSE refresh[j]
    BY <1>1, <2>2 DEF TypeOK
  <2>4. ASSUME NEW j \in Keys PROVE RefreshOK(j)'
    <3>1. CASE j = k
      BY <2>1, <2>3, <3>1 DEF RefreshOK
    <3>2. CASE j # k
      BY <2>2, <2>3, <3>2, RefreshesStay
    <3> QED BY <3>1, <3>2
  <2> QED BY <1>1, <2>1, <2>2, <2>4 DEF TypeOK
<1>6. TypeOK'
  BY <1>1, <1>4, <1>5 DEF RefreshStore, TypeOK, callVars, pendingVars
<1>7. \A r \in spawned' : Refreshes(r)'
  BY Settled DEF IInv, RefreshStore, callVars
<1> QED BY <1>2, <1>4, <1>5, <1>6, <1>7 DEF IInv, Keys, Caches

\* An entry ages or all entries of a cache go: none becomes usable by it.
LEMMA CacheInv ==
  ASSUME IInv, NEW c \in Caches, ClearCache(c) \/ \E k \in Keys : Age(c, k)
  PROVE  IInv'
<1>1. TypeOK /\ NoEntry \in [age : {"none", "fresh", "expired", "dead"}, msg : Msgs]
  BY DEF IInv, NoEntry, Msgs
<1>2. UNCHANGED <<callVars, pendingVars, refreshVars>>
  BY DEF ClearCache, Age
<1>3. /\ cache' \in [Caches -> [Keys -> [age : {"none", "fresh", "expired", "dead"}, msg : Msgs]]]
      /\ \A d \in Caches, j \in Keys :
           \/ cache'[d][j] = cache[d][j] \/ cache'[d][j] = NoEntry
           \/ /\ cache[d][j].age = "fresh" /\ cache'[d][j].age = "expired"
              /\ cache'[d][j].msg = cache[d][j].msg
           \/ /\ cache[d][j].age = "expired" /\ cache'[d][j].age = "dead"
              /\ cache'[d][j].msg = cache[d][j].msg
  <2>1. CASE ClearCache(c)
    BY <1>1, <2>1 DEF ClearCache, TypeOK
  <2>2. CASE \E k \in Keys : Age(c, k)
    <3>1. PICK k \in Keys : Age(c, k)
      BY <2>2
    <3> DEFINE older == IF cache[c][k].age = "fresh" THEN "expired" ELSE "dead"
    <3>2. cache' = [cache EXCEPT ![c][k].age = older] /\ cache[c][k].age \in {"fresh", "expired"}
      BY <3>1 DEF Age
    <3>3. older \in {"expired", "dead"}
      OBVIOUS
    <3> HIDE DEF older
    <3>4. cache' \in [Caches -> [Keys -> [age : {"none", "fresh", "expired", "dead"}, msg : Msgs]]]
      <4> DEFINE e == [cache[c][k] EXCEPT !.age = older]
      <4>1. cache[c][k] \in [age : {"none", "fresh", "expired", "dead"}, msg : Msgs]
        BY <1>1 DEF TypeOK
      <4>2. e \in [age : {"none", "fresh", "expired", "dead"}, msg : Msgs]
        BY <3>3, <4>1
      <4>3. cache' = [cache EXCEPT ![c][k] = e]
        BY <1>1, <3>2 DEF TypeOK
      <4> HIDE DEF e
      <4> QED BY <1>1, <4>2, <4>3 DEF TypeOK
    <3>5. \A d \in Caches, j \in Keys :
            IF d = c /\ j = k
            THEN cache'[d][j].age = older /\ cache'[d][j].msg = cache[d][j].msg
            ELSE cache'[d][j] = cache[d][j]
      BY <1>1, <3>2 DEF TypeOK
    <3> QED BY <3>2, <3>4, <3>5 DEF older
  <2> QED BY <2>1, <2>2
<1>4. PendingOK' /\ \A r \in Reqs : CallOK(r)' /\ JoinOK(r)'
  BY <1>2, CallsRest
<1>5. ASSUME NEW d \in Caches, NEW j \in Keys PROVE EntryOK(d, j)'
  <2>1. EntryOK(d, j)
    BY DEF IInv
  <2>2. CASE cache'[d][j] = cache[d][j] \/ cache'[d][j] = NoEntry
    BY <2>1, <2>2 DEF EntryOK, Kept
  <2>3. CASE /\ cache[d][j].age \in {"fresh", "expired"} /\ cache'[d][j].age \in {"expired", "dead"}
             /\ cache'[d][j].msg = cache[d][j].msg
    <3>1. cache[d][j] # NoEntry
      <4>1. NoEntry.age = "none"
        BY DEF NoEntry
      <4> QED BY <2>3, <4>1
    <3> QED BY <2>1, <2>3, <3>1 DEF EntryOK, Kept
  <2> QED BY <1>3, <2>2, <2>3
<1>6. ASSUME NEW s \in Reqs PROVE DropOK(s)'
  <2>1. cacheForContext(s) \in Caches /\ KeyOf(s) \in Keys
    BY <1>1, KeyTypes
  <2>2. UNCHANGED <<kind, question, pc>>
    BY <1>2 DEF callVars
  <2>3. Entry(s)' = cache'[cacheForContext(s)][KeyOf(s)]
    BY <2>2, Settled DEF Entry
  <2>4. Usable(cacheForContext(s), Entry(s))' => Usable(cacheForContext(s), Entry(s))
    <3> DEFINE d == cacheForContext(s)
               j == KeyOf(s)
    <3>1. /\ Usable(d, Entry(s))' <=> Usable(d, cache'[d][j])
          /\ Usable(d, Entry(s)) <=> Usable(d, cache[d][j])
      BY Zenon, <2>2, <2>3, Settled DEF Entry, Usable, isOptimistic
    <3> HIDE DEF d, j
    <3>2. \/ cache'[d][j] = cache[d][j] \/ cache'[d][j] = NoEntry
          \/ cache[d][j].age = "fresh" /\ cache'[d][j].age = "expired"
          \/ cache[d][j].age = "expired" /\ cache'[d][j].age = "dead"
      <4>1. d \in Caches /\ j \in Keys
        BY <2>1 DEF d, j
      <4> QED BY <1>3, <4>1
    <3>3. Usable(d, cache'[d][j]) => Usable(d, cache[d][j])
      <4>1. cache'[d][j] = NoEntry => cache'[d][j].age = "none"
        BY DEF NoEntry
      <4> QED BY <3>2, <4>1 DEF Usable
    <3> QED BY <3>1, <3>3 DEF d
  <2> QED BY <2>2, <2>4 DEF IInv, DropOK
<1>7. (\A k \in Keys : RefreshOK(k)') /\ (\A s \in spawned' : Refreshes(s)')
  BY <1>2, RefreshesStay, Settled DEF IInv, callVars, refreshVars
<1>8. TypeOK'
  BY <1>1, <1>2, <1>3 DEF TypeOK, callVars, pendingVars, refreshVars
<1> QED BY <1>4, <1>5, <1>6, <1>7, <1>8 DEF IInv, Keys, Caches

-----------------------------------------------------------------------------
(* The theorems *)

LEMMA InitIInv == Init => IInv
<1> SUFFICES ASSUME Init PROVE IInv
  OBVIOUS
<1>1. NoMsg \in Msgs
  BY DEF Msgs
<1>2. TypeOK
  BY <1>1 DEF Init, TypeOK, NoEntry, Idle
<1>3. PendingOK
  BY DEF Init, PendingOK, Tracked
<1>4. \A r \in Reqs : CallOK(r) /\ JoinOK(r) /\ DropOK(r)
  BY Zenon DEF Init, CallOK, JoinOK, DropOK
<1>5. \A c \in Caches, k \in Keys : EntryOK(c, k)
  BY DEF Init, EntryOK
<1>6. \A k \in Keys : RefreshOK(k)
  BY DEF Init, RefreshOK, Idle
<1>7. \A r \in spawned : Refreshes(r)
  BY Zenon DEF Init
<1> QED BY <1>2, <1>3, <1>4, <1>5, <1>6, <1>7 DEF IInv

LEMMA NextIInv == IInv /\ [Next]_vars => IInv'
<1> SUFFICES ASSUME IInv, [Next]_vars PROVE IInv'
  OBVIOUS
<1>1. ASSUME NEW r \in Reqs, CallStep(r) PROVE IInv'
  BY <1>1, BypassInv, QueueFirstInv, QueueWaitInv, WakeInv, LookupHitInv, LookupMissInv,
     DropInv, AnswerInv, FailInv, PanicInv, StoreInv, DoneInv, CloseFinishInv DEF CallStep
<1>2. ASSUME NEW k \in Keys, RefreshStep(k) PROVE IInv'
  BY <1>2, RefreshStartInv, RefreshAnswerInv, RefreshEndInv, RefreshStoreInv DEF RefreshStep
<1>3. ASSUME NEW c \in Caches, ClearCache(c) \/ \E k \in Keys : Age(c, k) PROVE IInv'
  BY <1>3, CacheInv
<1>4. CASE UNCHANGED vars
  <2>1. UNCHANGED <<callVars, pendingVars, cache, refreshVars>>
    BY <1>4 DEF vars
  <2>2. PendingOK' /\ \A r \in Reqs : CallOK(r)' /\ JoinOK(r)' /\ DropOK(r)'
    BY <2>1, CallsRest, DropsStay DEF callVars
  <2>3. TypeOK'
    BY <2>1 DEF IInv, TypeOK, callVars, pendingVars, refreshVars
  <2>4. /\ \A c \in Caches, k \in Keys : EntryOK(c, k)'
        /\ \A k \in Keys : RefreshOK(k)'
        /\ \A r \in spawned' : Refreshes(r)'
    BY Zenon, <2>1, RefreshesStay, Settled DEF IInv, EntryOK, Kept, callVars, refreshVars
  <2> QED BY <2>2, <2>3, <2>4 DEF IInv, Keys, Caches
<1> QED BY <1>1, <1>2, <1>3, <1>4 DEF Next

LEMMA Invariance == Spec => []IInv
BY InitIInv, NextIInv, PTL DEF Spec

\* However many calls meet, the storage of the pending requests holds exactly the one
\* call per key that is between queue and done, so done always finds its key.
THEOREM OneOwner == Spec => []OneOwnerPerKey
<1>1. IInv => OneOwnerPerKey
  BY DEF IInv, PendingOK, OneOwnerPerKey
<1> QED BY <1>1, Invariance, PTL

\* A response carries the identifier of the request it answers by every path through
\* Resolve, and a call that resolved for itself got AD and DNSSEC records on demand only.
THEOREM OwnAnswers == Spec => []AnswersOwnRequest
<1>1. IInv => AnswersOwnRequest
  BY Zenon DEF IInv, AnswersOwnRequest, CallOK, JoinOK, Own, Joined
<1> QED BY <1>1, Invariance, PTL

\* A cache only ever holds what the calls that use it could have been answered by, be it
\* stored by Resolve or by a refresh, and only a refresh stores a response with CD set.
THEOREM CachesApart == Spec => []CachesStayApart
<1>1. IInv => CachesStayApart
  BY Zenon DEF IInv, CachesStayApart, EntryOK, Kept
<1> QED BY <1>1, Invariance, PTL

\* queue never makes a call wait for a result that has been released already.
THEOREM WaitsForRunning == Spec => JoinsBeforeRelease
<1>1. ASSUME IInv, NEW r \in Reqs, QueueWait(r) PROVE ~result[owner'[r]].closed
  <2>1. KeyOf(r) \in Keys /\ PendingEnabled /\ pending[KeyOf(r)] # NoReq
    BY <1>1, KeyTypes DEF IInv, QueueWait, Loaded
  <2>2. owner'[r] = pending[KeyOf(r)]
    BY <1>1 DEF IInv, TypeOK, QueueWait
  <2>3. owner'[r] \in Tracked(KeyOf(r))
    BY Zenon, <1>1, <2>1, <2>2 DEF IInv, PendingOK
  <2> QED BY <1>1, <2>3 DEF Tracked, IInv, JoinOK
<1>2. IInv /\ [Next]_vars => [\A r \in Reqs : QueueWait(r) => ~result[owner'[r]].closed]_vars
  BY <1>1
<1> QED BY <1>2, Invariance, PTL DEF Spec, JoinsBeforeRelease

\* The read lock that get holds from its Get to its Del keeps a lookup from deleting
\* an entry that was stored after it looked.
THEOREM FreshEntriesStay == Spec => LookupKeepsFreshEntries
<1>1. ASSUME IInv, NEW r \in Reqs, Drop(r) PROVE ~Usable(cacheForContext(r), Entry(r))
  BY <1>1 DEF IInv, DropOK, Drop
<1>2. IInv /\ [Next]_vars => [\A r \in Reqs : Drop(r) => ~Usable(cacheForContext(r), Entry(r))]_vars
  BY <1>1
<1> QED BY <1>2, Invariance, PTL DEF Spec, LookupKeepsFreshEntries
=============================================================================
