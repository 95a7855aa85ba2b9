--------------------------- MODULE ResponseShape ---------------------------
(***************************************************************************)
(* What Proxy.Resolve does to the EDNS record, the DNSSEC records and the  *)
(* length of messages: processECS and addDO change the client's request    *)
(* before it goes to the upstream; filterMsg and scrub make the response   *)
(* one for the client.  Calls share the cache and the pending requests,    *)
(* whose keys have the DO bit, not the size or the transport.              *)
(*                                                                         *)
(* All calls ask the same question from the same public subnet.  A length  *)
(* is that of the packed message; how the calls interleave within these    *)
(* steps, and what else is cached, is the subject of Resolve.              *)
(***************************************************************************)
EXTENDS Naturals, FiniteSetsExt

CONSTANTS Calls, NoCall,
          Confs,      \* Config: records of ecs, dnssec and cache
          Requests,   \* what clients send: records of udp and edns
          Bodies,     \* lengths of answers without DNSSEC records and OPT
          SecLen      \* length of their DNSSEC records

NoEDNS == [size |-> 0, do |-> FALSE, is |-> FALSE]
OPT(size, do) == [size |-> size, do |-> do, is |-> TRUE]
OPTLen == 11
MinMsgSize == 512
MaxMsgSize == 65535
defaultUDPBufSize == 2048

VARIABLES conf, sent,
          pc,
          opt,      \* the OPT record of DNSContext.Req
          flags,    \* udpSize, hasEDNS0 and doBit of DNSContext
          res,      \* DNSContext.Res
          owner,    \* the call whose pendingRequest this one waits for
          pending, cache,
          answered  \* history: the last response that came, by key

callVars == <<conf, sent, pc, opt, flags, res, owner>>
vars == <<callVars, pending, cache, answered>>

NoMsg == [none |-> TRUE]
Message(body, sec, edns) == [body |-> body, sec |-> sec, opt |-> edns, tc |-> FALSE]
Length(m) == m.body + m.sec + (IF m.opt.is THEN OPTLen ELSE 0)

Init ==
  /\ conf \in Confs /\ sent \in [Calls -> Requests]
  /\ pc = [c \in Calls |-> "start"]
  /\ opt = [c \in Calls |-> sent[c].edns]
  /\ flags = [c \in Calls |-> [udpSize |-> 0, hasEDNS0 |-> FALSE, doBit |-> FALSE]]
  /\ res = [c \in Calls |-> NoMsg] /\ owner = [c \in Calls |-> NoCall]
  /\ pending = [do \in BOOLEAN |-> NoCall]
  /\ cache = [do \in BOOLEAN |-> NoMsg] /\ answered = [do \in BOOLEAN |-> NoMsg]

-----------------------------------------------------------------------------
\* setECS adds its option to the record there is, or one of 4096 bytes.
processECS(o) == IF conf.ecs /\ ~o.is THEN OPT(4096, FALSE) ELSE o

\* The flags are calculated once: a size of zero means not yet.
calcFlagsAndSize(f, o) ==
  IF f.udpSize # 0 THEN f
  ELSE IF o.is THEN [udpSize |-> o.size, hasEDNS0 |-> TRUE, doBit |-> o.do]
  ELSE [f EXCEPT !.udpSize = defaultUDPBufSize]

addDO(o) ==
  IF ~conf.dnssec \/ ~conf.cache THEN o
  ELSE IF o.is THEN [o EXCEPT !.do = TRUE] ELSE OPT(defaultUDPBufSize, TRUE)

KeyOf(c) == opt[c].do

\* Resolve up to the queue of the pending requests.
Begin(c) ==
  LET ecs == processECS(opt[c])
      o == addDO(ecs)
  IN  /\ pc[c] = "start"
      /\ opt' = [opt EXCEPT ![c] = o]
      /\ flags' = [flags EXCEPT ![c] = calcFlagsAndSize(@, ecs)]
      /\ IF conf.cache /\ pending[o.do] # NoCall
           THEN /\ pc' = [pc EXCEPT ![c] = "wait"]
                /\ owner' = [owner EXCEPT ![c] = pending[o.do]]
                /\ UNCHANGED pending
           ELSE /\ pc' = [pc EXCEPT ![c] = IF conf.cache THEN "lookup" ELSE "ask"]
                /\ pending' = IF conf.cache THEN [pending EXCEPT ![o.do] = c] ELSE pending
                /\ UNCHANGED owner
      /\ UNCHANGED <<conf, sent, res, cache, answered>>

-----------------------------------------------------------------------------
filterMsg(m, f) == [m EXCEPT !.opt = NoEDNS, !.sec = IF f.doBit THEN @ ELSE 0]

SizeOfClient(c) == IF sent[c].udp THEN Max({MinMsgSize, sent[c].edns.size}) ELSE MaxMsgSize

\* The size in the request as it was forwarded.
dnsSize(c) == IF sent[c].udp THEN Max({MinMsgSize, opt[c].size}) ELSE MaxMsgSize

\* Records are dropped until the rest, with the OPT record, fits: the longest case.
Truncate(m, size) ==
  IF Length(m) <= size THEN m
  ELSE [m EXCEPT !.body = size - (IF m.opt.is THEN OPTLen ELSE 0), !.sec = 0, !.tc = TRUE]

scrub(m, c, calculated) ==
  LET f == calcFlagsAndSize(calculated, opt[c])
      edns == IF f.hasEDNS0 /\ ~m.opt.is THEN [m EXCEPT !.opt = OPT(f.udpSize, f.doBit)] ELSE m
  IN  Truncate(edns, dnsSize(c))

\* filterMsg and scrub, the end of Resolve; done follows unless the cache is off.
Complete(c, m, f) ==
  /\ res' = [res EXCEPT ![c] = scrub(filterMsg(m, f), c, f)]
  /\ pc' = [pc EXCEPT ![c] = IF conf.cache THEN "publish" ELSE "returned"]

replyFromCache(c) ==
  /\ pc[c] = "lookup" /\ cache[KeyOf(c)] # NoMsg
  /\ Complete(c, cache[KeyOf(c)], flags[c])
  /\ UNCHANGED <<conf, sent, opt, flags, owner, pending, cache, answered>>

Miss(c) ==
  /\ pc[c] = "lookup" /\ cache[KeyOf(c)] = NoMsg
  /\ pc' = [pc EXCEPT ![c] = "ask"]
  /\ UNCHANGED <<conf, sent, opt, flags, res, owner, pending, cache, answered>>

CacheCompleted(c, m) == scrub(filterMsg(m, flags[c]), c, flags[c])

\* What cacheResp stores: the response as it came, before it is made the client's.
Stored(c, m) == m

\* The upstream answers the request it was sent, with an OPT record of its own
\* if it was sent one.
Answer(c, body) ==
  LET m == Message(body, IF opt[c].do THEN SecLen ELSE 0,
                   IF opt[c].is THEN OPT(1232, opt[c].do) ELSE NoEDNS)
  IN  /\ pc[c] = "ask"
      /\ answered' = [answered EXCEPT ![KeyOf(c)] = m]
      /\ cache' = IF conf.cache THEN [cache EXCEPT ![KeyOf(c)] = Stored(c, m)] ELSE cache
      /\ Complete(c, m, flags[c])
      /\ UNCHANGED <<conf, sent, opt, flags, owner, pending>>

\* handleExchangeResult: SERVFAIL without an OPT record.  It is cached when it stands
\* for a response that has not one question, not when there was no response.
NoAnswer(c, responded) ==
  LET f == [flags[c] EXCEPT !.hasEDNS0 = FALSE]
      m == Message(Min(Bodies), 0, NoEDNS)
      stored == conf.cache /\ responded
  IN  /\ pc[c] = "ask"
      /\ flags' = [flags EXCEPT ![c] = f]
      /\ answered' = IF stored THEN [answered EXCEPT ![KeyOf(c)] = m] ELSE answered
      /\ cache' = IF stored THEN [cache EXCEPT ![KeyOf(c)] = Stored(c, m)] ELSE cache
      /\ Complete(c, m, f)
      /\ UNCHANGED <<conf, sent, opt, owner, pending>>

Done(c) ==
  /\ pc[c] = "publish"
  /\ pending' = [pending EXCEPT ![KeyOf(c)] = NoCall]
  /\ pc' = [pc EXCEPT ![c] = "returned"]
  /\ UNCHANGED <<conf, sent, opt, flags, res, owner, cache, answered>>

\* The waiter takes a copy of the owner's response as it is.
Wake(c) ==
  /\ pc[c] = "wait" /\ pc[owner[c]] = "returned"
  /\ res' = [res EXCEPT ![c] = res[owner[c]]]
  /\ pc' = [pc EXCEPT ![c] = "returned"]
  /\ UNCHANGED <<conf, sent, opt, flags, owner, pending, cache, answered>>

Next ==
  \E c \in Calls :
    \/ Begin(c) \/ replyFromCache(c) \/ Miss(c) \/ Done(c) \/ Wake(c)
    \/ \E body \in Bodies : Answer(c, body)
    \/ \E responded \in BOOLEAN : NoAnswer(c, responded)

-----------------------------------------------------------------------------
Returned(c) == pc[c] = "returned"

\* A response is cached as it came of the exchange, never as it was cut and filtered for
\* the client whose request fetched it: a client with a large buffer, or one that
\* wants the DNSSEC records, can be answered from it.
CachedWhole == \A do \in BOOLEAN : cache[do] = NoMsg \/ cache[do] = answered[do]

\* A response that Resolve made for this call has the DNSSEC records only on demand
\* and, unless an OPT record was added to the request, its EDNS record and its length
\* are what the client asked for; a call that joined another gets that one's response.
ShapedForClient ==
  \A c \in Calls : Returned(c) /\ owner[c] = NoCall =>
    /\ res[c].sec # 0 => sent[c].edns.do
    /\ sent[c].edns.is \/ ~opt[c].is =>
         /\ res[c].opt.is => sent[c].edns.is
         /\ Length(res[c]) <= SizeOfClient(c)

\* dnscontext.go, on dnsSize: the size "advertised in the requests OPT record".  No
\* client gets more bytes over UDP than it said it can take.
ResponsesFit == \A c \in Calls : Returned(c) => Length(res[c]) <= SizeOfClient(c)
=============================================================================
