------------------------------- MODULE Resolve -------------------------------
(***************************************************************************)
(* Proxy.Resolve with the three pieces of shared state it coordinates:     *)
(* the pending requests (proxy/pending.go), the response caches            *)
(* (proxy/proxycache.go, proxy/cache.go) and the refresher of expired      *)
(* entries (proxy/optimisticresolver.go).                                  *)
(*                                                                         *)
(* Each element of Reqs is one call of Resolve.  A pendingRequest is named *)
(* by the call that stored it.  The upstream is the environment: it        *)
(* answers with a member of Replies, fails, or panics.  Time is the action *)
(* Age: an entry is fresh, then expired, then past the optimistic age.     *)
(* The calls carry no client subnet: subnet keys are the subject of        *)
(* SubnetCache, TTLs of CacheTTL.                                          *)
(***************************************************************************)
EXTENDS Naturals

CONSTANTS Reqs, NoReq,
          Questions,
          CustomFor,        \* the questions that the custom upstreams have one for
          Reversed,         \* the PTR questions for shouldStripDNS64
          Kinds,            \* what a call may be, a subset of AllKinds
          Replies,          \* what an upstream may answer, a subset of AllReplies
          DNSSEC,           \* Config.DNSSECEnabled
          Optimistic,       \* Config.CacheOptimistic
          PendingEnabled    \* Config.PendingRequests.Enabled

\* A call by its CustomUpstreamConfig or RequestedPrivateRDNS, whether its client
\* may use the private upstreams, its AD and DO bits and its CD bit.
AllKinds == [conf : {"default", "custom", "customNoCache", "private"}, local : BOOLEAN,
             ad : BOOLEAN, do : BOOLEAN, cd : BOOLEAN]
\* A response by its code, AD bit, DNSSEC records, CD bit, whether cacheTTL is
\* positive for it, and whether the fallbacks gave it.
AllReplies == [rcode : {"noerror", "nxdomain", "servfail"}, ad : BOOLEAN, sec : BOOLEAN,
               cd : BOOLEAN, keep : BOOLEAN, fallback : BOOLEAN]

ASSUME ResolveAssumption ==
  /\ NoReq \notin Reqs
  /\ Kinds \subseteq AllKinds /\ Replies \subseteq AllReplies
  /\ CustomFor \subseteq Questions /\ Reversed \subseteq Questions
  /\ {DNSSEC, Optimistic, PendingEnabled} \subseteq BOOLEAN

VARIABLES pc, kind, question,  \* the calls: where they are and what they ask
          res, err,            \* DNSContext.Res and what Resolve returns
          owner,               \* the pendingRequest a call waits for
          pending,             \* defaultPendingRequests.storage
          result,              \* the fields of a call's own pendingRequest
          cache,               \* the global cache and the custom one
          spawned,             \* calls whose resolveOnce goroutine has not started
          refresh              \* optimisticResolver.reqs and its goroutine

callVars == <<pc, kind, question, res, err, owner>>
pendingVars == <<pending, result>>
refreshVars == <<spawned, refresh>>
vars == <<callVars, pendingVars, cache, refreshVars>>

Caches == {"global", "custom"}
Keys == Questions \X BOOLEAN
NoMsg == [none |-> TRUE]
Sources == {"default", "custom", "customNoCache", "private", "fallback"}
\* Messages keep whose exchange produced them (by) and with which upstreams.
Responses == [id : Reqs \cup {NoReq}, rcode : {"noerror", "nxdomain", "servfail"},
              ad : BOOLEAN, sec : BOOLEAN, cd : BOOLEAN, keep : BOOLEAN,
              by : Reqs \cup {NoReq}, conf : Sources \cup {"proxy"}]
Msgs == {NoMsg} \cup Responses
NoEntry == [age |-> "none", msg |-> NoMsg]
Idle == [at |-> "idle", call |-> NoReq, msg |-> NoMsg]

\* addDO, then msgToKey: with DNSSECEnabled every cached request asks for DO.
KeyOf(r) == <<question[r], kind[r].do \/ DNSSEC>>

WorksForPrivate(r) == kind[r].conf # "customNoCache" /\ ~kind[r].cd
\* A PTR question of a DNS64 prefix is cached although private upstreams answer it.
cacheWorks(r) == kind[r].conf \in {"default", "custom"} /\ ~kind[r].cd

OneCacheForAll(r) == "global"
cacheForContext(r) == IF kind[r].conf = "custom" THEN "custom" ELSE "global"

\* NewCustomUpstreamConfig never makes an optimistic cache.
isOptimistic(c) == Optimistic /\ c = "global"

FilterRecordsOnly(m, r) == [m EXCEPT !.sec = @ /\ kind[r].do]
filterMsg(m, r) == [m EXCEPT !.ad = @ /\ (kind[r].ad \/ kind[r].do), !.sec = @ /\ kind[r].do]

\* (*dns.Msg).SetReply: the identifier and CD of the request, and code NOERROR.
SetReply(m, r) == [m EXCEPT !.id = r, !.cd = kind[r].cd, !.rcode = "noerror"]

StoredID(m, r) == m
\* unpackItem answers with the stored code, flags and records.
unpackItem(m, r) == [m EXCEPT !.id = r, !.cd = kind[r].cd]

\* The private upstreams are for their clients only; the custom ones are passed
\* over when they have none for the name.
selectUpstreams(r) ==
  IF kind[r].conf = "private" \/ question[r] \in Reversed
  THEN IF kind[r].local THEN "private" ELSE "none"
  ELSE IF question[r] \in CustomFor THEN kind[r].conf ELSE "default"

\* The fallbacks stand in for any upstreams but the private ones.
Offered(r) ==
  {reply \in Replies : /\ selectUpstreams(r) # "none"
                       /\ reply.fallback => selectUpstreams(r) # "private"}

Reply(reply, r, by) ==
  [id |-> by, rcode |-> reply.rcode, ad |-> reply.ad, sec |-> reply.sec,
   cd |-> reply.cd, keep |-> reply.keep, by |-> by,
   conf |-> IF reply.fallback THEN "fallback" ELSE selectUpstreams(r)]

\* The private and the default upstreams may have none for the name.
FailureCodes(r) ==
  {rcode \in {"servfail", "nxdomain"} :
     /\ selectUpstreams(r) = "none" => rcode = "nxdomain"
     /\ selectUpstreams(r) \in {"custom", "customNoCache"} => rcode = "servfail"}

\* NewMsgSERVFAIL and NewMsgNXDOMAIN.
Synthesized(rcode, r) ==
  [id |-> r, rcode |-> rcode, ad |-> FALSE, sec |-> FALSE, cd |-> kind[r].cd,
   keep |-> FALSE, by |-> r, conf |-> "proxy"]

Init ==
  /\ pc = [r \in Reqs |-> "start"]
  /\ kind \in [Reqs -> Kinds] /\ question \in [Reqs -> Questions]
  /\ res = [r \in Reqs |-> NoMsg] /\ err = [r \in Reqs |-> FALSE]
  /\ owner = [r \in Reqs |-> NoReq]
  /\ pending = [k \in Keys |-> NoReq]
  /\ result = [r \in Reqs |-> [closed |-> FALSE, msg |-> NoMsg, err |-> FALSE]]
  /\ cache = [c \in Caches |-> [k \in Keys |-> NoEntry]]
  /\ spawned = {}
  /\ refresh = [k \in Keys |-> Idle]

Goto(r, at) == pc' = [pc EXCEPT ![r] = at]

\* The call goes past the cache: no queue, no done.
Bypass(r) ==
  /\ pc[r] = "start" /\ ~cacheWorks(r)
  /\ Goto(r, "ask")
  /\ UNCHANGED <<kind, question, res, err, owner, pendingVars, cache, refreshVars>>

JoinsNobody(r) == FALSE
\* LoadOrStore finds another call's pendingRequest; emptyPendingRequests never does.
Loaded(r) == PendingEnabled /\ pending[KeyOf(r)] # NoReq

QueueFirst(r) ==
  /\ pc[r] = "start" /\ cacheWorks(r) /\ ~Loaded(r)
  /\ Goto(r, "lookup")
  /\ pending' = IF PendingEnabled THEN [pending EXCEPT ![KeyOf(r)] = r] ELSE pending
  /\ UNCHANGED <<kind, question, res, err, owner, result, cache, refreshVars>>

QueueWait(r) ==
  /\ pc[r] = "start" /\ cacheWorks(r) /\ Loaded(r)
  /\ Goto(r, "wait")
  /\ owner' = [owner EXCEPT ![r] = pending[KeyOf(r)]]
  /\ UNCHANGED <<kind, question, res, err, pendingVars, cache, refreshVars>>

\* finish is closed: the waiter copies the result and returns at once.
Wake(r) ==
  /\ pc[r] = "wait" /\ result[owner[r]].closed
  /\ LET shared == result[owner[r]] IN
       /\ res' = [res EXCEPT ![r] = IF shared.msg = NoMsg THEN NoMsg ELSE SetReply(shared.msg, r)]
       /\ err' = [err EXCEPT ![r] = shared.err]
  /\ Goto(r, "returned")
  /\ UNCHANGED <<kind, question, owner, pendingVars, cache, refreshVars>>

\* A call that is past the queue leaves through done, the others return.
Leave(r) == Goto(r, IF cacheWorks(r) /\ PendingEnabled THEN "publish" ELSE "returned")

Entry(r) == cache[cacheForContext(r)][KeyOf(r)]
Usable(c, e) == e.age = "fresh" \/ (e.age = "expired" /\ isOptimistic(c))

LookupHit(r) ==
  /\ pc[r] = "lookup"
  /\ Usable(cacheForContext(r), Entry(r))
  /\ res' = [res EXCEPT ![r] = filterMsg(unpackItem(Entry(r).msg, r), r)]
  /\ spawned' = IF Entry(r).age = "expired" THEN spawned \cup {r} ELSE spawned
  /\ Leave(r)
  /\ UNCHANGED <<kind, question, err, owner, pendingVars, cache, refresh>>

\* get holds the read lock from Get to Del: "drop" is between the two.
LookupMiss(r) ==
  /\ pc[r] = "lookup"
  /\ ~Usable(cacheForContext(r), Entry(r))
  /\ Goto(r, IF Entry(r) = NoEntry THEN "ask" ELSE "drop")
  /\ UNCHANGED <<kind, question, res, err, owner, pendingVars, cache, refreshVars>>

Drop(r) ==
  /\ pc[r] = "drop"
  /\ cache' = [cache EXCEPT ![cacheForContext(r)][KeyOf(r)] = NoEntry]
  /\ Goto(r, "ask")
  /\ UNCHANGED <<kind, question, res, err, owner, pendingVars, refreshVars>>

StoresUnchecked(r, m) == cacheWorks(r)
\* Resolve caches what came from an upstream and does not have the CD bit.
Stores(r, m) == cacheWorks(r) /\ ~m.cd

\* replyFromUpstream returns with a response.
Answer(r) ==
  /\ pc[r] = "ask"
  /\ \E reply \in Offered(r) :
       LET m == Reply(reply, r, r) IN
         IF Stores(r, m)
         THEN Goto(r, "store") /\ res' = [res EXCEPT ![r] = m]
         ELSE Leave(r) /\ res' = [res EXCEPT ![r] = filterMsg(m, r)]
  /\ UNCHANGED <<kind, question, err, owner, pendingVars, cache, refreshVars>>

\* Every upstream failed, or there is none for the name.
Fail(r) ==
  /\ pc[r] = "ask"
  /\ \E rcode \in FailureCodes(r) :
       res' = [res EXCEPT ![r] = filterMsg(Synthesized(rcode, r), r)]
  /\ err' = [err EXCEPT ![r] = TRUE]
  /\ Leave(r)
  /\ UNCHANGED <<kind, question, owner, pendingVars, cache, refreshVars>>

PanicSkipsDone(r) ==
  /\ pc[r] = "ask"
  /\ Goto(r, "returned")
  /\ UNCHANGED <<kind, question, res, err, owner, pendingVars, cache, refreshVars>>

\* The upstream panics: done is deferred and runs with no response and no error.
Panic(r) ==
  /\ pc[r] = "ask"
  /\ Leave(r)
  /\ UNCHANGED <<kind, question, res, err, owner, pendingVars, cache, refreshVars>>

NoReadLock(c) == TRUE
\* The write lock of set excludes a lookup between its Get and its Del.
WriteLock(c) == \A r \in Reqs : ~(pc[r] = "drop" /\ cacheForContext(r) = c)

Put(c, k, m) ==
  IF m.keep THEN WriteLock(c) /\ cache' = [cache EXCEPT ![c][k] = [age |-> "fresh", msg |-> m]]
            ELSE UNCHANGED cache

\* cacheResp, then filterMsg and scrub on the call's own message.
Store(r) ==
  /\ pc[r] = "store"
  /\ Put(cacheForContext(r), KeyOf(r), res[r])
  /\ res' = [res EXCEPT ![r] = filterMsg(@, r)]
  /\ Leave(r)
  /\ UNCHANGED <<kind, question, err, owner, pendingVars, refreshVars>>

KeepsEntry(r) ==
  /\ pc[r] = "publish"
  /\ result' = [result EXCEPT ![r] = [@ EXCEPT !.msg = res[r], !.err = err[r]]]
  /\ Goto(r, "close")
  /\ UNCHANGED <<kind, question, res, err, owner, pending, cache, refreshVars>>

\* done: the result is written, the entry deleted, then finish is closed.
done(r) ==
  /\ pc[r] = "publish"
  /\ result' = [result EXCEPT ![r] = [@ EXCEPT !.msg = res[r], !.err = err[r]]]
  /\ pending' = [pending EXCEPT ![KeyOf(r)] = NoReq]
  /\ Goto(r, "close")
  /\ UNCHANGED <<kind, question, res, err, owner, cache, refreshVars>>

CloseFinish(r) ==
  /\ pc[r] = "close"
  /\ result' = [result EXCEPT ![r].closed = TRUE]
  /\ Goto(r, "returned")
  /\ UNCHANGED <<kind, question, res, err, owner, pending, cache, refreshVars>>

\* resolveOnce starts with a clone of the call's context: another refresh of the
\* key makes it return.
RefreshStart(r) ==
  /\ r \in spawned
  /\ spawned' = spawned \ {r}
  /\ refresh' = IF refresh[KeyOf(r)] = Idle
                THEN [refresh EXCEPT ![KeyOf(r)] = [at |-> "asking", call |-> r, msg |-> NoMsg]]
                ELSE refresh
  /\ UNCHANGED <<callVars, pendingVars, cache>>

RefreshAnswer(k) ==
  /\ refresh[k].at = "asking"
  /\ \E reply \in Offered(refresh[k].call) :
       refresh' = [refresh EXCEPT ![k] = [at |-> "storing", call |-> NoReq,
                                          msg |-> Reply(reply, refresh[k].call, NoReq)]]
  /\ UNCHANGED <<callVars, pendingVars, cache, spawned>>

FailKeepsSlot(k) ==
  /\ refresh[k].at = "asking"
  /\ refresh' = [refresh EXCEPT ![k] = [Idle EXCEPT !.at = "failed"]]
  /\ UNCHANGED <<callVars, pendingVars, cache, spawned>>

\* The refresh fails or panics; either way the deferred Delete is next.
RefreshFail(k) ==
  /\ refresh[k].at = "asking"
  /\ refresh' = [refresh EXCEPT ![k] = [Idle EXCEPT !.at = "leaving"]]
  /\ UNCHANGED <<callVars, pendingVars, cache, spawned>>

\* cacheResp: a response with the CD bit, which Resolve would not store, is stored.
RefreshStore(k) ==
  /\ refresh[k].at = "storing"
  /\ Put("global", k, refresh[k].msg)
  /\ refresh' = [refresh EXCEPT ![k] = [Idle EXCEPT !.at = "leaving"]]
  /\ UNCHANGED <<callVars, pendingVars, spawned>>

RefreshLeave(k) ==
  /\ refresh[k].at = "leaving"
  /\ refresh' = [refresh EXCEPT ![k] = Idle]
  /\ UNCHANGED <<callVars, pendingVars, cache, spawned>>

\* Time passes for an entry.
Age(c, k) ==
  /\ cache[c][k].age \in {"fresh", "expired"}
  /\ cache' = [cache EXCEPT ![c][k].age = IF @ = "fresh" THEN "expired" ELSE "dead"]
  /\ UNCHANGED <<callVars, pendingVars, refreshVars>>

\* ClearCache of the proxy or of a custom configuration.
ClearCache(c) ==
  /\ WriteLock(c)
  /\ cache' = [cache EXCEPT ![c] = [k \in Keys |-> NoEntry]]
  /\ UNCHANGED <<callVars, pendingVars, refreshVars>>

CallStep(r) ==
  \/ Bypass(r) \/ QueueFirst(r) \/ QueueWait(r) \/ Wake(r)
  \/ LookupHit(r) \/ LookupMiss(r) \/ Drop(r)
  \/ Answer(r) \/ Fail(r) \/ Panic(r) \/ Store(r) \/ done(r) \/ CloseFinish(r)

RefreshStep(k) ==
  \/ \E r \in Reqs : KeyOf(r) = k /\ RefreshStart(r)
  \/ RefreshAnswer(k) \/ RefreshFail(k) \/ RefreshStore(k) \/ RefreshLeave(k)

Next ==
  \/ \E r \in Reqs : CallStep(r)
  \/ \E k \in Keys : RefreshStep(k)
  \/ \E c \in Caches : ClearCache(c) \/ \E k \in Keys : Age(c, k)

\* Goroutines run, and an upstream exchange ends because every upstream has a
\* timeout.  Nothing makes a call arrive, an entry age or a cache be cleared.
Fairness ==
  /\ \A r \in Reqs : WF_vars(pc[r] # "start" /\ CallStep(r))
  /\ \A k \in Keys : WF_vars(RefreshStep(k))

Spec == Init /\ [][Next]_vars /\ Fairness
-----------------------------------------------------------------------------
TypeOK ==
  /\ pc \in [Reqs -> {"start", "wait", "lookup", "drop", "ask", "store", "publish", "close", "returned"}]
  /\ kind \in [Reqs -> Kinds] /\ question \in [Reqs -> Questions]
  /\ res \in [Reqs -> Msgs] /\ err \in [Reqs -> BOOLEAN]
  /\ owner \in [Reqs -> Reqs \cup {NoReq}]
  /\ pending \in [Keys -> Reqs \cup {NoReq}]
  /\ result \in [Reqs -> [closed : BOOLEAN, msg : Msgs, err : BOOLEAN]]
  /\ cache \in [Caches -> [Keys -> [age : {"none", "fresh", "expired", "dead"}, msg : Msgs]]]
  /\ spawned \subseteq Reqs
  /\ refresh \in [Keys -> [at : {"idle", "asking", "storing", "leaving"},
                           call : Reqs \cup {NoReq}, msg : Msgs]]

\* The calls between queue and the Delete of done.
Tracked(k) ==
  {r \in Reqs : /\ pc[r] \in {"lookup", "drop", "ask", "store", "publish"}
                /\ cacheWorks(r) /\ KeyOf(r) = k}

(***************************************************************************)
(* The state has its types, and the storage holds exactly the calls that   *)
(* are between queue and done, at most one for a key: duplicates never     *)
(* reach an upstream together, and done never finds its key missing (the   *)
(* panic at pending.go:118).                                               *)
(***************************************************************************)
OneOwnerPerKey ==
  /\ TypeOK
  /\ PendingEnabled =>
       \A k \in Keys : Tracked(k) = IF pending[k] = NoReq THEN {} ELSE {pending[k]}

(***************************************************************************)
(* A call waits only for a call that is still running: a request that      *)
(* arrives after the result was released starts an exchange of its own     *)
(* instead of being given an old, uncached answer.                         *)
(***************************************************************************)
JoinsBeforeRelease ==
  [][\A r \in Reqs : QueueWait(r) => ~result[owner'[r]].closed]_vars

\* RFC 6840 and RFC 4035 as filterMsg cites them: AD and DNSSEC records only
\* for a request that asked.
AsRequested(r) ==
  res[r] # NoMsg =>
    /\ res[r].ad => kind[r].ad \/ kind[r].do
    /\ res[r].sec => kind[r].do

(***************************************************************************)
(* Whatever path a response takes (upstream, cache, another call's         *)
(* result), it carries the identifier of the request it answers; an error  *)
(* a waiter returns is the error of the call it waited for.  A call that   *)
(* resolves for itself gets AD and DNSSEC records only when it asked for   *)
(* them, although DNSSECEnabled makes it query and cache with DO set on    *)
(* behalf of everyone.                                                     *)
(***************************************************************************)
AnswersOwnRequest ==
  \A r \in Reqs : pc[r] = "returned" =>
    /\ res[r] # NoMsg => res[r].id = r
    /\ owner[r] # NoReq => /\ err[r] = result[owner[r]].err
                           /\ res[r] # NoMsg => res[r].by = result[owner[r]].msg.by
    /\ owner[r] = NoReq => AsRequested(r)

\* Who may answer a question for the calls that use a cache.
Selectable(c, q) ==
  IF q \in Reversed THEN {"private"}
  ELSE {"fallback", IF c = "custom" /\ q \in CustomFor THEN "custom" ELSE "default"}

(***************************************************************************)
(* A cache only ever holds what the calls that use it could have been      *)
(* answered by: the custom upstreams never fill the global cache, the      *)
(* default ones fill the custom cache only with names that the custom ones *)
(* pass over, and the private ones fill either only with the PTR questions *)
(* of the DNS64 prefixes.  Resolve itself never stores a response with the *)
(* CD bit; one in the cache is in the global one and came from a refresh.  *)
(***************************************************************************)
CachesStayApart ==
  \A c \in Caches, k \in Keys : cache[c][k] # NoEntry =>
    /\ cache[c][k].msg.conf \in Selectable(c, k[1])
    /\ cache[c][k].msg.cd => c = "global" /\ cache[c][k].msg.by = NoReq

(***************************************************************************)
(* A lookup that found a dead entry deletes that entry and never a usable  *)
(* one which a concurrent call or refresh stored after the lookup read it. *)
(***************************************************************************)
LookupKeepsFreshEntries ==
  [][\A r \in Reqs : Drop(r) => ~Usable(cacheForContext(r), Entry(r))]_vars

(***************************************************************************)
(* Every call that has begun returns: a waiter is released whether the     *)
(* call it waits for answers from the cache, from an upstream, fails or    *)
(* panics.                                                                 *)
(***************************************************************************)
CallsReturn == \A r \in Reqs : []<>(pc[r] \in {"start", "returned"})

(***************************************************************************)
(* A key never stays marked as being refreshed: after a failed refresh the *)
(* next expired hit can refresh it again.                                  *)
(***************************************************************************)
RefreshEnds == []<>(spawned = {} /\ \A k \in Keys : refresh[k] = Idle)

(***************************************************************************)
(* Whether upstreams answer, fail or panic, every call returns and every   *)
(* refresh gives its key back.                                             *)
(***************************************************************************)
WorkEnds == CallsReturn /\ RefreshEnds

-----------------------------------------------------------------------------
(***************************************************************************)
(* README.md:118: the first query's result is propagated to the others.    *)
(* A waiter that gets a response should get the response code of the call  *)
(* it waited for.                                                          *)
(***************************************************************************)
WaitersGetOwnersRcode ==
  \A r \in Reqs : pc[r] = "returned" /\ owner[r] # NoReq /\ res[r] # NoMsg =>
    res[r].rcode = result[owner[r]].msg.rcode

(***************************************************************************)
(* proxy/dnscontext.go:44: Resolve uses the custom upstreams of a request  *)
(* instead of the default ones, so a request whose custom upstreams have   *)
(* one for the name is never answered by the default ones, nor a request   *)
(* without them by custom ones.  The fallbacks serve both.                 *)
(***************************************************************************)
AnsweredByOwnUpstreams ==
  \A r \in Reqs : pc[r] = "returned" /\ res[r] # NoMsg =>
    res[r].conf \in {selectUpstreams(r), "fallback", "proxy"}
=============================================================================
