------------------------------ MODULE Request ------------------------------
(***************************************************************************)
(* A DNS request on its way through the proxy: what each protocol's        *)
(* handler makes of the bytes, validateRequest, the middlewares of the     *)
(* command, the upstreams that are chosen and asked, DNS64, bogus          *)
(* NXDOMAIN, the fallbacks, and the response that is written.  The cache   *)
(* and the pending requests are the subject of Resolve.                    *)
(*                                                                         *)
(* Requests share the recursion detector.  A private upstream may forward  *)
(* the query back to the proxy, where it is one more request, with the     *)
(* same identifier, that the first one waits for.                          *)
(***************************************************************************)
EXTENDS Integers, FiniteSets

CONSTANTS
  Scenarios,     \* pairs of a configuration, of AllConfs, and of what the clients
                 \* send: a function from slots to AllRequests and NoReq
  MaxSlots,      \* bound: the requests of the clients and of looping upstreams
  RecursionTTL,  \* recursionTTL
  MaxRecent,     \* cachedRecurrentReqNum
  MaxTime        \* bound of the clock

DNSCrypt == {"dnscryptUDP", "dnscryptTCP"}
Protos == {"udp", "tcp", "https", "quic"} \cup DNSCrypt
\* "many": other than one question; "ptr": PTR, SOA or NS of an address in a
\* private network; "ptr64": PTR of an address in a DNS64 prefix.
Questions == {"many", "any", "a", "aaaa", "ptr", "ptr64"}

\* What arrives.  Bytes that do not parse are "garbled" behind a good header and
\* "empty" otherwise; a DNSCrypt client asks for the certificate in a "handshake";
\* the other forms are queries that a protocol refuses.
Forms == {"query", "response", "garbled", "empty",
          "unencrypted", "unauthorized", "method", "mediaType",
          "short", "keepalive", "early", "handshake"}

\* The address of the peer, the one in the headers of an HTTP request, and the
\* upstreams for the name in DNSContext.CustomUpstreamConfig.
AllRequests ==
  [proto : Protos, form : Forms, question : Questions, id : Nat,
   peer : {"private", "public", "trustedProxy"}, header : {"none", "private", "public"},
   custom : {"none", "empty", "some"}]

\* halt: IPv6 is disabled; hosts: the names of the questions are in a hosts file;
\* limited: UDP clients may be over their rate; drops: Config.ResponseHandler may
\* drop requests; defaults: there are upstreams for the name.
AllConfs ==
  [refuseAny : BOOLEAN, private : BOOLEAN, dns64 : BOOLEAN, bogus : BOOLEAN,
   fallbacks : BOOLEAN, halt : BOOLEAN, hosts : BOOLEAN, limited : BOOLEAN,
   drops : BOOLEAN, defaults : BOOLEAN]

VARIABLES
  conf,     \* the configuration, which never changes
  req, pc,  \* the request of a slot, and where its handler is
  res,      \* DNSContext.Res
  asked,    \* the upstreamWithStats of each group: not asked, "ok" or "failed"
  out,      \* what the client sees
  child,    \* the request that an upstream made of this one
  recent,   \* recursionDetector.recentRequests: signatures and their expiry
  now,
  got,      \* history: the response of the upstreams
  sentAt    \* history: when the request was added to recent, -1 before

vars == <<conf, req, pc, res, asked, out, child, recent, now, got, sentAt>>

Slots == 1..MaxSlots
NoReq == [proto |-> "none"]
NoRes == [rcode |-> "none", ans |-> {}, by |-> "none"]
Groups == {"private", "custom", "default", "fallback"}
NotAsked == [g \in Groups |-> "no"]

Question(s) == req[s].question
Msg(rcode, ans, by) == [rcode |-> rcode, ans |-> ans, by |-> by]
ServFail == Msg("servfail", {}, "proxy")
\* A response that Resolve makes beside an error.
Failure(rcode) == Msg(rcode, {}, "failure")

Init ==
  /\ \E sc \in Scenarios : conf = sc[1] /\ req = sc[2]
  /\ pc = [s \in Slots |-> "free"]
  /\ res = [s \in Slots |-> NoRes] /\ out = [s \in Slots |-> "nothing"]
  /\ asked = [s \in Slots |-> NotAsked] /\ child = [s \in Slots |-> 0]
  /\ recent = [x \in {} |-> 0] /\ now = 0
  /\ got = [s \in Slots |-> NoRes] /\ sentAt = [s \in Slots |-> -1]

\* upstreamWithStats.Exchange of an upstream of the group records its outcome.
Exchanged(s, group, outcome) == asked' = [asked EXCEPT ![s][group] = outcome]

Goto(s, at) == pc' = [pc EXCEPT ![s] = at]
Finish(s, with) == Goto(s, "done") /\ out' = [out EXCEPT ![s] = with]

Arrive(s) ==
  /\ pc[s] = "free" /\ req[s] # NoReq
  /\ Goto(s, "read")
  /\ UNCHANGED <<conf, req, res, asked, out, child, recent, now, got, sentAt>>

-----------------------------------------------------------------------------
(* The handlers of the protocols, up to handleDNSRequest *)

\* udpHandlePacket: with a good header, what does not parse is answered FORMERR.
ReadUDP(s) ==
  /\ req[s].proto = "udp"
  /\ CASE req[s].form = "empty" -> Finish(s, "silence") /\ UNCHANGED res
       [] req[s].form = "garbled" ->
            /\ res' = [res EXCEPT ![s] = Msg("formerr", {}, "proxy")]
            /\ Goto(s, "process") /\ UNCHANGED out
       [] OTHER -> Goto(s, "process") /\ UNCHANGED <<res, out>>

\* readDNSReq gives nothing for a message it cannot parse, which ends the connection.
ReadTCP(s) ==
  /\ req[s].proto = "tcp"
  /\ IF req[s].form \in {"empty", "garbled"}
       THEN Finish(s, "closed") ELSE Goto(s, "process") /\ UNCHANGED out
  /\ UNCHANGED res

\* No TCP keepalive, and in early data no transaction but QUERY and NOTIFY.
validQUICMsg(s) == req[s].form \notin {"keepalive", "early"}

\* handleQUICStream: less than a header's bytes end the stream, what does not parse
\* and violations of DoQ the connection.
ReadQUIC(s) ==
  /\ req[s].proto = "quic"
  /\ CASE req[s].form = "short" -> Finish(s, "silence")
       [] req[s].form \in {"empty", "garbled"} \/ ~validQUICMsg(s) -> Finish(s, "closed")
       [] OTHER -> Goto(s, "process") /\ UNCHANGED out
  /\ UNCHANGED res

\* ServeHTTP, checkBasicAuth and newDoHReq.
ReadHTTPS(s) ==
  /\ req[s].proto = "https"
  /\ IF req[s].form \notin {"query", "response"}
       THEN Finish(s, "status") ELSE Goto(s, "process") /\ UNCHANGED out
  /\ UNCHANGED res

decrypt(s) == req[s].form \notin {"garbled", "empty"}
InvalidQuery(s) == req[s].form = "response" \/ Question(s) = "many"

\* The certificate is sent in the clear.
handleHandshake(s) ==
  res' = [res EXCEPT ![s] = Msg("noerror", {"certificate"}, "proxy")] /\ Finish(s, "reply")

\* Without a slot of the semaphore dnsCryptHandler fails, and serveDNS answers.
ServeDNS(s) ==
  \/ Goto(s, "process") /\ UNCHANGED <<res, out>>
  \/ res' = [res EXCEPT ![s] = ServFail] /\ Finish(s, "reply")

ReadDNSCrypt(s, onError) ==
  IF req[s].form = "handshake" THEN handleHandshake(s)
  ELSE IF req[s].form = "short" \/ ~decrypt(s) \/ InvalidQuery(s)
    THEN Finish(s, onError) /\ UNCHANGED res
    ELSE ServeDNS(s)
serveUDPMsg(s) == req[s].proto = "dnscryptUDP" /\ ReadDNSCrypt(s, "silence")
\* The connection is closed after an error.
handleTCPMsg(s) == req[s].proto = "dnscryptTCP" /\ ReadDNSCrypt(s, "closed")

Read(s) ==
  /\ pc[s] = "read"
  /\ ReadUDP(s) \/ ReadTCP(s) \/ ReadQUIC(s) \/ ReadHTTPS(s)
     \/ serveUDPMsg(s) \/ handleTCPMsg(s)
  /\ UNCHANGED <<conf, req, asked, child, recent, now, got, sentAt>>

TrustsEveryHeader(s) == IF req[s].header # "none" THEN req[s].header ELSE req[s].peer
\* DNSContext.Addr: remoteAddr takes the address of the headers, and ServeHTTP
\* keeps it only from a trusted proxy.
Addr(s) ==
  IF req[s].proto = "https" /\ req[s].header # "none" /\ req[s].peer = "trustedProxy"
  THEN req[s].header ELSE req[s].peer

IsPrivateClient(s) == Addr(s) = "private"

-----------------------------------------------------------------------------
(* processDNSRequest *)

\* msgToSignature: the identifier, the type and the name.
Signature(s) == <<req[s].id, Question(s)>>

NeverRecent(s) == FALSE
check(s) == Signature(s) \in DOMAIN recent /\ now < recent[Signature(s)]

\* isForbiddenARPA sets RequestedPrivateRDNS for these.
RequestedPrivateRDNS(s) == Question(s) = "ptr"

\* validateRequest: the code of the response to an invalid request.
validateRequest(s) ==
  IF Question(s) = "many" THEN "formerr"
  ELSE IF conf.refuseAny /\ Question(s) = "any" THEN "notimp"
  ELSE IF check(s) \/ (RequestedPrivateRDNS(s) /\ ~IsPrivateClient(s)) THEN "nxdomain"
  ELSE "none"

\* ErrDrop: nothing is written.  net/http answers for a handler that did not.
Drop(s) == Finish(s, IF req[s].proto = "https" THEN "status" ELSE "silence")

ResponsesDropped(s) ==
  /\ pc[s] = "process" /\ req[s].form = "response"
  /\ Drop(s)
  /\ UNCHANGED <<conf, req, res, asked, child, recent, now, got, sentAt>>

Process(s) ==
  /\ pc[s] = "process" /\ req[s].form # "response"
  /\ IF res[s] # NoRes \/ validateRequest(s) = "none"
       THEN Goto(s, IF res[s] = NoRes THEN "handle" ELSE "respond") /\ UNCHANGED res
       ELSE /\ res' = [res EXCEPT ![s] = Msg(validateRequest(s), {}, "proxy")]
            /\ Goto(s, "respond")
  /\ UNCHANGED <<conf, req, asked, out, child, recent, now, got, sentAt>>

\* The ratelimit middleware is the outermost one and is for UDP only.
RateLimited(s) ==
  /\ pc[s] = "handle" /\ conf.limited /\ req[s].proto = "udp"
  /\ Drop(s)
  /\ UNCHANGED <<conf, req, res, asked, child, recent, now, got, sentAt>>

haltAAAA(s) == IF conf.halt /\ Question(s) = "aaaa" THEN Msg("noerror", {}, "proxy") ELSE NoRes
resolveFromHosts(s) ==
  IF conf.hosts /\ Question(s) # "any" THEN Msg("noerror", {"host"}, "proxy") ELSE NoRes

\* The other middleware answers, or Resolve is called.
Handle(s) ==
  /\ pc[s] = "handle"
  /\ LET own == IF haltAAAA(s) # NoRes THEN haltAAAA(s) ELSE resolveFromHosts(s)
     IN res' = [res EXCEPT ![s] = own] /\ Goto(s, IF own = NoRes THEN "select" ELSE "respond")
  /\ UNCHANGED <<conf, req, asked, out, child, recent, now, got, sentAt>>

-----------------------------------------------------------------------------
(* replyFromUpstream *)

shouldStripDNS64(s) == conf.dns64 /\ Question(s) = "ptr64"
IsPrivate(s) == RequestedPrivateRDNS(s) \/ shouldStripDNS64(s)

UsesPrivate(s) == conf.private /\ IsPrivateClient(s)

FallsThrough(s) ==
  IF IsPrivate(s) /\ UsesPrivate(s) THEN "private"
  ELSE IF req[s].custom = "some" THEN "custom"
  ELSE IF conf.defaults THEN "default" ELSE "none"
\* selectUpstreams: the group that is asked, or "none".
selectUpstreams(s) ==
  IF IsPrivate(s) THEN IF UsesPrivate(s) THEN "private" ELSE "none"
  ELSE IF req[s].custom = "some" THEN "custom"
  ELSE IF conf.defaults THEN "default" ELSE "none"

AddsNothing(s) == UNCHANGED recent
\* recursionDetector.add; a full cache evicts another signature.
add(s) ==
  \E kept \in SUBSET (DOMAIN recent \ {Signature(s)}) :
    /\ Cardinality(kept) =
         LET others == Cardinality(DOMAIN recent \ {Signature(s)})
         IN IF others >= MaxRecent THEN MaxRecent - 1 ELSE others
    /\ recent' = [x \in kept \cup {Signature(s)} |->
                    IF x = Signature(s) THEN now + RecursionTTL ELSE recent[x]]

Select(s) ==
  /\ pc[s] = "select"
  /\ IF selectUpstreams(s) = "none"
       THEN /\ res' = [res EXCEPT ![s] = Failure("nxdomain")]
            /\ Goto(s, "respond") /\ UNCHANGED <<recent, sentAt>>
       ELSE /\ Goto(s, "exchange") /\ UNCHANGED res
            /\ IF IsPrivate(s) THEN add(s) /\ sentAt' = [sentAt EXCEPT ![s] = now]
               ELSE UNCHANGED <<recent, sentAt>>
  /\ UNCHANGED <<conf, req, asked, out, child, now, got>>

\* What an upstream may answer: addresses outside and inside the bogus networks,
\* and IPv6 addresses within a DNS64 prefix.
Answers(question) ==
  CASE question = "a" -> SUBSET {"v4", "bad4"}
    [] question = "aaaa" -> SUBSET {"v6", "bad6", "nat64"}
    [] OTHER -> {{}, {"name"}}
\* "malformed": other than one question in the response.
Replies(question, by) ==
  {Msg("noerror", ans, by) : ans \in Answers(question)}
    \cup {Msg(rcode, {}, by) : rcode \in {"nxdomain", "servfail", "malformed"}}

\* isBogusNXDomain and NewMsgNXDOMAIN.
isBogusNXDomain(m) == conf.bogus /\ m.ans \cap {"bad4", "bad6"} # {}
Unbogused(m) == m
BogusToNXDomain(m) == IF isBogusNXDomain(m) THEN Msg("nxdomain", {}, m.by) ELSE m

\* checkDNS64 filters the answer of a successful response in place, and asks for
\* another when no address is left.
filterNAT64Answers(s, m) ==
  IF conf.dns64 /\ Question(s) = "aaaa" /\ m.rcode = "noerror"
  THEN [m EXCEPT !.ans = @ \ {"nat64"}] ELSE m

SynthesizesAlways(s, m) == conf.dns64 /\ Question(s) = "aaaa" /\ m.rcode # "nxdomain"
checkDNS64(s, m) ==
  conf.dns64 /\ Question(s) = "aaaa" /\ m.rcode # "nxdomain" /\ m.ans = {}

handleExchangeResult(m) ==
  IF m = NoRes THEN Failure("servfail") ELSE IF m.rcode = "malformed" THEN ServFail ELSE m

\* exchangeUpstreams has a response from the group m.by.
Answered(s, m) ==
  LET f == filterNAT64Answers(s, m) IN
    /\ got' = [got EXCEPT ![s] = m]
    /\ Exchanged(s, m.by, "ok")
    /\ IF checkDNS64(s, f)
         THEN res' = [res EXCEPT ![s] = f] /\ Goto(s, "dns64")
         ELSE /\ res' = [res EXCEPT ![s] = handleExchangeResult(BogusToNXDomain(f))]
              /\ Goto(s, "respond")
    /\ UNCHANGED <<conf, req, out, child, recent, now, sentAt>>

Answer(s) ==
  /\ pc[s] = "exchange" /\ child[s] = 0
  /\ \E m \in Replies(Question(s), selectUpstreams(s)) : Answered(s, m)

FallbackForAll(s) == conf.fallbacks
mayFallback(s) == conf.fallbacks /\ ~IsPrivate(s)

WaitsForItself(s) ==
  /\ pc[s] = "exchange" /\ child[s] = 0
  /\ Exchanged(s, selectUpstreams(s), "failed")
  /\ Goto(s, IF mayFallback(s) THEN "fallback" ELSE "respond")
  /\ res' = [res EXCEPT ![s] = IF mayFallback(s) THEN NoRes ELSE handleExchangeResult(NoRes)]
  /\ UNCHANGED <<conf, req, out, child, recent, now, got, sentAt>>
\* Every upstream of the group failed, by a timeout at the latest.
Fail(s) ==
  /\ pc[s] = "exchange"
  /\ Exchanged(s, selectUpstreams(s), "failed")
  /\ Goto(s, IF mayFallback(s) THEN "fallback" ELSE "respond")
  /\ res' = [res EXCEPT ![s] = IF mayFallback(s) THEN NoRes ELSE handleExchangeResult(NoRes)]
  /\ UNCHANGED <<conf, req, out, child, recent, now, got, sentAt>>

\* A private upstream asks the proxy what the proxy asked it.
LoopBack(s, c) ==
  /\ pc[s] = "exchange" /\ selectUpstreams(s) = "private" /\ child[s] = 0
  /\ req[c] = NoReq /\ \A d \in 1..(c - 1) : req[d] # NoReq
  /\ req' = [req EXCEPT ![c] = [req[s] EXCEPT !.proto = "udp", !.peer = "private", !.header = "none"]]
  /\ pc' = [pc EXCEPT ![c] = "read"]
  /\ child' = [child EXCEPT ![s] = c]
  /\ UNCHANGED <<conf, res, asked, out, recent, now, got, sentAt>>

\* It passes on the answer it got.
LoopReturns(s) ==
  /\ pc[s] = "exchange" /\ child[s] # 0
  /\ out[child[s]] = "reply"
  /\ Answered(s, [res[child[s]] EXCEPT !.by = selectUpstreams(s)])

\* performDNS64 asks the same upstreams for A; synthDNS64 replaces the answer by
\* mapped addresses and keeps the code, or leaves the response as it is when there
\* are none.  Synthesized addresses are not compared with the bogus ones, and
\* without them there is nothing in the response to compare.
synthDNS64(s, m) == IF m.ans = {} THEN res[s] ELSE [res[s] EXCEPT !.ans = {"nat64"}]

\* A failure is logged and leaves the first response, but its error replaces the
\* success in the statistics of the upstream.  So may the error of an upstream that
\* answered first and then lost the race for the A records in parallel mode, which
\* its goroutine writes while the statistics are collected.
PerformDNS64(s) ==
  /\ pc[s] = "dns64"
  /\ LET group == selectUpstreams(s) IN
       \/ /\ \E m \in Replies("a", group) :
               res' = [res EXCEPT ![s] = handleExchangeResult(synthDNS64(s, m))]
          /\ \E outcome \in {"ok", "failed"} : Exchanged(s, group, outcome)
       \/ /\ res' = [res EXCEPT ![s] = handleExchangeResult(@)]
          /\ Exchanged(s, group, "failed")
  /\ Goto(s, "respond")
  /\ UNCHANGED <<conf, req, out, child, recent, now, got, sentAt>>

\* A fallback's response is passed on as it is.
Fallback(s) ==
  /\ pc[s] = "fallback"
  /\ \/ /\ \E m \in Replies(Question(s), "fallback") :
             res' = [res EXCEPT ![s] = handleExchangeResult(m)]
        /\ Exchanged(s, "fallback", "ok")
     \/ /\ res' = [res EXCEPT ![s] = handleExchangeResult(NoRes)]
        /\ Exchanged(s, "fallback", "failed")
  /\ Goto(s, "respond")
  /\ UNCHANGED <<conf, req, out, child, recent, now, got, sentAt>>

-----------------------------------------------------------------------------

\* Resolve joins a pending request of the same key whose handler ended without a
\* result.  Requests for private addresses never join one.
JoinsNothing(s) ==
  /\ pc[s] = "select" /\ ~RequestedPrivateRDNS(s)
  /\ Goto(s, "respond")
  /\ UNCHANGED <<conf, req, res, asked, out, child, recent, now, got, sentAt>>

RespondsNothing(m) == IF m = NoRes THEN "silence" ELSE "reply"
respondUDP(m) == IF m = NoRes THEN "silence" ELSE "reply"
respondTCP(m) == IF m = NoRes THEN "closed" ELSE "reply"
respondHTTPS(m) == IF m = NoRes THEN "status" ELSE "reply"
respondQUIC(m) == IF m = NoRes THEN "closed" ELSE "reply"
respondDNSCrypt(m) == IF m = NoRes THEN "silence" ELSE "reply"
\* It answers the error of the handler once more.
serveDNS(m) == IF m.by = "failure" THEN "twice" ELSE respondDNSCrypt(m)

respond(s) ==
  CASE req[s].proto = "udp" -> respondUDP(res[s])
    [] req[s].proto = "tcp" -> respondTCP(res[s])
    [] req[s].proto = "https" -> respondHTTPS(res[s])
    [] req[s].proto = "quic" -> respondQUIC(res[s])
    [] req[s].proto \in DNSCrypt -> serveDNS(res[s])

\* The rest of processDNSRequest: the response handler and respond.
Respond(s) ==
  /\ pc[s] = "respond"
  /\ \/ Finish(s, respond(s))
     \/ conf.drops /\ Drop(s)
  /\ UNCHANGED <<conf, req, res, asked, child, recent, now, got, sentAt>>

\* Time matters to the detector only.
Tick ==
  /\ DOMAIN recent # {} /\ now < MaxTime /\ now' = now + 1
  /\ UNCHANGED <<conf, req, pc, res, asked, out, child, recent, got, sentAt>>

Step(s) ==
  \/ Read(s) \/ ResponsesDropped(s) \/ Process(s) \/ RateLimited(s) \/ Handle(s) \/ Select(s)
  \/ JoinsNothing(s) \/ Answer(s) \/ Fail(s) \/ LoopReturns(s) \/ PerformDNS64(s) \/ Fallback(s)
  \/ Respond(s)

Next ==
  \/ \E s \in Slots : Arrive(s) \/ Step(s)
  \/ \E s, c \in Slots : LoopBack(s, c)
  \/ Tick

\* Handlers run, and every exchange ends because upstreams have timeouts.
Fairness == \A s \in Slots : WF_vars(Step(s))

Spec == Init /\ [][Next]_vars /\ Fairness
-----------------------------------------------------------------------------
TypeOK ==
  /\ conf \in AllConfs
  /\ \A s \in Slots : req[s] \in AllRequests \cup {NoReq} /\ child[s] \in 0..MaxSlots
  /\ pc \in [Slots -> {"free", "read", "process", "handle", "select", "exchange", "dns64",
                       "fallback", "respond", "done"}]
  /\ out \in [Slots -> {"nothing", "reply", "twice", "silence", "closed", "status"}]
  /\ asked \in [Slots -> [Groups -> {"no", "ok", "failed"}]]
  /\ Cardinality(DOMAIN recent) <= MaxRecent

\* The groups that the statistics of a request report, and what of them.
collectQueryStats(s) == {<<g, asked[s][g]>> : g \in {h \in Groups : asked[s][h] # "no"}}

Asks(s, g) == asked[s][g] # "no" \/ (pc[s] = "exchange" /\ selectUpstreams(s) = g)

(***************************************************************************)
(* Config.UsePrivateRDNS: questions about private addresses go to the      *)
(* private upstreams or nowhere, not even to the fallbacks when those      *)
(* fail, and the private upstreams are asked nothing else, and only for    *)
(* clients that are in a private network themselves or are said to be by a *)
(* trusted proxy.                                                          *)
(***************************************************************************)
PrivateStaysPrivate ==
  \A s \in Slots : pc[s] # "free" =>
    /\ IsPrivate(s) => \A g \in Groups \ {"private"} : ~Asks(s, g)
    /\ Asks(s, "private") =>
         /\ IsPrivate(s)
         /\ \/ req[s].peer = "private"
            \/ req[s].peer = "trustedProxy" /\ req[s].header = "private"

(***************************************************************************)
(* Of what the upstreams in use answer, no address of BogusNXDomain and,   *)
(* with DNS64, no address of the NAT64 prefixes reaches a client.  The     *)
(* name's own AAAA are never lost to synthesis: synthesized addresses are  *)
(* served only for a name that exists and has none, and the others are     *)
(* served as they came.  (Fallbacks' responses are passed on as they are.) *)
(***************************************************************************)
AddressesAreFiltered ==
  \A s \in Slots : out[s] = "reply" /\ res[s].by \in Groups \ {"fallback"} =>
    /\ conf.bogus => res[s].ans \cap {"bad4", "bad6"} = {}
    /\ conf.dns64 /\ "nat64" \in res[s].ans =>
         got[s].rcode # "nxdomain" /\ got[s].ans \subseteq {"nat64"}
    /\ res[s].rcode = "noerror" /\ "nat64" \notin res[s].ans =>
         res[s].ans = got[s].ans \ {"nat64"}

Ancestors(s) == {t \in Slots : child[t] = s \/ \E u \in Slots : child[t] = u /\ child[u] = s}
Recently(t) == sentAt[t] # -1 /\ now < sentAt[t] + RecursionTTL

(***************************************************************************)
(* A query that comes back to the proxy within recursionTTL of being sent  *)
(* to a private upstream is not sent again, unless the detector was at its *)
(* limit and has taken in another query since; and the detector cuts only  *)
(* queries of which it has sent one with the same signature in that time.  *)
(***************************************************************************)
LoopsAreCut ==
  [][\A s \in Slots :
       /\ sentAt'[s] # sentAt[s] =>
            \A t \in Ancestors(s) : Recently(t) =>
              \E u \in Slots : /\ sentAt[u] >= sentAt[t] /\ Signature(u) # Signature(t)
                              /\ Cardinality(DOMAIN recent) = MaxRecent
       /\ pc[s] = "process" /\ res'[s].rcode = "nxdomain" /\ IsPrivateClient(s) =>
            \E t \in Slots \ {s} : Recently(t) /\ Signature(t) = Signature(s)]_vars

(***************************************************************************)
(* Every client is told: the only requests that end in silence are         *)
(* responses, those the middlewares drop, streams without a query, and UDP *)
(* and DNSCrypt requests for which there is no response.  Only DNSCrypt    *)
(* clients are answered twice, when the query fails.  QueryStatistics      *)
(* accounts for the answer: the group it came from is not reported as      *)
(* failed, except by a failed DNS64 request, and fallbacks are asked only  *)
(* after the others failed.                                                *)
(***************************************************************************)
OutcomesAreAccounted ==
  \A s \in Slots : pc[s] = "done" =>
    /\ out[s] = "silence" =>
         \/ req[s].form = "response" \/ conf.drops \/ (req[s].proto = "udp" /\ conf.limited)
         \/ req[s].proto = "quic" /\ req[s].form = "short"
         \/ req[s].proto \in {"udp"} \cup DNSCrypt /\ res[s] = NoRes
    /\ out[s] = "twice" => req[s].proto \in DNSCrypt /\ res[s].by = "failure"
    /\ res[s].by \in Groups =>
         \/ <<res[s].by, "ok">> \in collectQueryStats(s)
         \/ conf.dns64 /\ Question(s) = "aaaa" /\ <<res[s].by, "failed">> \in collectQueryStats(s)
    /\ \A x \in collectQueryStats(s) :
         x[1] = "fallback" => \E g \in {"custom", "default"} : <<g, "failed">> \in collectQueryStats(s)

(***************************************************************************)
(* Every request ends, also when upstreams send queries back: a request    *)
(* waits for the one that was made of it no longer than for a timeout.     *)
(***************************************************************************)
RequestsEnd == \A s \in Slots : pc[s] = "read" ~> pc[s] = "done"
=============================================================================
