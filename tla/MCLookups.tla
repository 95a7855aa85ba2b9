----------------------------- MODULE MCLookups -----------------------------
(***************************************************************************)
(* What the proxy decides for a query: how it passes from a client to the  *)
(* upstreams and back (Request), how its EDNS record and the length of the *)
(* response are treated (ResponseShape), how long an item of the response  *)
(* cache lives and what is served of it (CacheTTL), which item a client's  *)
(* subnet finds (SubnetCache), and which upstreams a name selects          *)
(* (UpstreamConfig).  They share no state: a behaviour explores one and    *)
(* leaves the others at their start.                                       *)
(***************************************************************************)
EXTENDS CacheTTL

CONSTANTS TTLValues, W4, W6, MaxEntries, MaxLines
VARIABLES
  part, cache, lines, upstreams, reserved, specified, subOnly, exclusions,
  rConf, req, pc, res, asked, out, child, recent, now, got, sentAt,
  sConf, sent, sPc, opt, flags, sRes, owner, pending, sCache, answered

Sets(types) == {{}} \cup {{[type |-> t, ttl |-> n]} : t \in types, n \in TTLValues}
Delegation == {[type |-> "SOA", ttl |-> 2], [type |-> "NS", ttl |-> 2]}
\* All sections for NOERROR; for the other codes those that cacheTTL looks at.
Complete(rcode, answers, authorities) ==
  [rcode : {rcode}, qtype : {"A"}, truncated : {FALSE}, oneQuestion : {TRUE},
   answer : answers, ns : authorities, extra : {{[type |-> "OPT", ttl |-> 0]}}]
Authorities == Sets({"SOA"}) \cup {{[type |-> "NS", ttl |-> 2]}, Delegation}
Cut == [rcode |-> "noerror", qtype |-> "A", truncated |-> TRUE, oneQuestion |-> TRUE,
        answer |-> {[type |-> "A", ttl |-> 2]}, ns |-> {}, extra |-> {}]
Text == [Cut EXCEPT !.truncated = FALSE, !.qtype = "TXT",
                    !.answer = {[type |-> "TXT", ttl |-> 4]}]
Empty == [Cut EXCEPT !.truncated = FALSE, !.rcode = "servfail", !.answer = {}]
MCMsgs ==
  Complete("noerror", Sets({"A"}), Authorities) \cup
  Complete("nxdomain", {{}, {[type |-> "A", ttl |-> 2]}}, Authorities) \cup
  Complete("servfail", Sets({"A"}), {{}, Delegation}) \cup
  Complete("refused", Sets({"A"}), {{}}) \cup
  {Empty, Text, Cut, [Cut EXCEPT !.truncated = FALSE, !.oneQuestion = FALSE]}

Subnets == INSTANCE SubnetCache WITH Requests <-
  \* Every subnet processECS can produce: the mask has ones, and the address may
  \* be missing, mapped, or of the other family.
  [ip : [fam : {4}, n : 0..(2^W4 - 1)] \cup [fam : {6}, n : 0..(2^W6 - 1)]
                  \cup {[fam |-> 0, n |-> 0]},
            mask : [ones : 1..W4, bits : {W4}] \cup [ones : 1..W6, bits : {W6}]]

\* Three domains below each other; the names below, beside and above them.
MCDomains == {<<"c">>, <<"b", "c">>, <<"a", "b", "c">>}
MCNames == MCDomains \cup {<<>>, <<"x">>, <<"x", "c">>, <<"x", "b", "c">>,
                           <<"x", "a", "b", "c">>}

Ups == INSTANCE UpstreamConfig WITH
         Domains <- MCDomains, Addresses <- {"u1", "u2"}, Names <- MCNames

(***************************************************************************)
(* Requests of every kind and form, with the configurations they tell      *)
(* apart; an upstream that sends queries back has two more slots, and in   *)
(* the last scenarios meets a second client.                               *)
(***************************************************************************)
NoRequest == [proto |-> "none"]
Plain == [proto |-> "udp", form |-> "query", question |-> "a", id |-> 1, peer |-> "public",
          header |-> "none", custom |-> "none"]
Basic == [refuseAny |-> TRUE, private |-> TRUE, dns64 |-> FALSE, bogus |-> TRUE,
          fallbacks |-> TRUE, halt |-> FALSE, hosts |-> FALSE, limited |-> FALSE,
          drops |-> FALSE, defaults |-> TRUE]
Combined == {[Basic EXCEPT !.private = p, !.dns64 = d, !.fallbacks = f] : p, d, f \in BOOLEAN}
Switched == {[Basic EXCEPT !.halt = TRUE, !.dns64 = TRUE], [Basic EXCEPT !.hosts = TRUE],
             [Basic EXCEPT !.limited = TRUE], [Basic EXCEPT !.drops = TRUE],
             [Basic EXCEPT !.defaults = FALSE], [Basic EXCEPT !.refuseAny = FALSE]}
Asked == {[Plain EXCEPT !.question = q, !.peer = p, !.custom = c] :
            q \in {"many", "any", "a", "aaaa", "ptr", "ptr64"}, p \in {"private", "public"},
            c \in {"none", "empty", "some"}}
Proxied == {[Plain EXCEPT !.proto = "https", !.question = q, !.peer = p, !.header = h] :
              q \in {"ptr", "ptr64"}, p \in {"private", "public", "trustedProxy"},
              h \in {"none", "private", "public"}}
Formed ==
  LET forms(proto) ==
        {"query", "response", "garbled"} \cup
          CASE proto = "https" -> {"unencrypted", "unauthorized", "method", "mediaType"}
            [] proto = "quic" -> {"short", "keepalive", "early"}
            [] proto \in {"dnscryptUDP", "dnscryptTCP"} -> {"short", "handshake"}
            [] OTHER -> {"empty"}
  IN UNION {{[Plain EXCEPT !.proto = p, !.form = f] : f \in forms(p)} :
              p \in {"udp", "tcp", "https", "quic", "dnscryptUDP", "dnscryptTCP"}}
Reverse(id) == [Plain EXCEPT !.question = "ptr", !.peer = "private", !.id = id]

First(r) == [s \in 1..3 |-> IF s = 1 THEN r ELSE NoRequest]
MCScenarios ==
  Combined \X {First(r) : r \in Asked} \cup
  {[Basic EXCEPT !.dns64 = TRUE]} \X {First(r) : r \in Proxied} \cup
  {Basic} \X {First(r) : r \in Formed} \cup
  Switched \X {First(r) : r \in {x \in Asked : x.peer = "private" /\ x.custom = "none"}} \cup
  {Basic} \X {[First(Reverse(1)) EXCEPT ![2] = Reverse(id)] : id \in {1, 2}}

Req == INSTANCE Request WITH
         Scenarios <- MCScenarios, MaxSlots <- 3, RecursionTTL <- 1, MaxRecent <- 1,
         MaxTime <- 2, conf <- rConf

(***************************************************************************)
(* Two calls with every combination of transport, DO, and an OPT record    *)
(* that is missing, has no size, or a common one.                          *)
(***************************************************************************)
MCConfs == [ecs : BOOLEAN, dnssec : BOOLEAN, cache : {TRUE}]
             \cup {[ecs |-> FALSE, dnssec |-> TRUE, cache |-> FALSE]}
MCEDNS == {[size |-> 0, do |-> FALSE, is |-> FALSE]}
            \cup [size : {0, 1232}, do : BOOLEAN, is : {TRUE}]
Shape == INSTANCE ResponseShape WITH
           Calls <- {1, 2}, NoCall <- 0, Confs <- MCConfs,
           Requests <- [udp : BOOLEAN, edns : MCEDNS], Bodies <- {100, 1000, 3000}, SecLen <- 600,
           conf <- sConf, pc <- sPc, res <- sRes, cache <- sCache

shapeVars == <<sConf, sent, sPc, opt, flags, sRes, owner, pending, sCache, answered>>
reqVars == <<rConf, req, pc, res, asked, out, child, recent, now, got, sentAt>>
upsVars == <<lines, upstreams, reserved, specified, subOnly, exclusions>>

MCInit ==
  /\ part \in {"ttl", "subnet", "upstreams", "request", "shape"}
  /\ Init /\ Subnets!Init /\ Ups!Init
  /\ part # "ttl" => clock = 0 /\ conf = [min |-> 0, max |-> 0]
  /\ \/ part = "request"
     \/ part # "request" /\ rConf = Basic /\ req = First(Plain)
  /\ Req!Init
  /\ \/ part = "shape"
     \/ /\ part # "shape"
        /\ sConf = [ecs |-> FALSE, dnssec |-> FALSE, cache |-> TRUE]
        /\ sent = [c \in {1, 2} |-> [udp |-> TRUE, edns |-> Shape!NoEDNS]]
  /\ Shape!Init
MCNext ==
  \/ part = "ttl" /\ Next /\ UNCHANGED <<part, cache, upsVars, reqVars, shapeVars>>
  \/ part = "subnet" /\ Subnets!Next /\ UNCHANGED <<part, vars, upsVars, reqVars, shapeVars>>
  \/ part = "upstreams" /\ Ups!Next /\ UNCHANGED <<part, vars, cache, reqVars, shapeVars>>
  \/ part = "request" /\ Req!Next /\ UNCHANGED <<part, vars, cache, upsVars, shapeVars>>
  \/ part = "shape" /\ Shape!Next /\ UNCHANGED <<part, vars, cache, upsVars, reqVars>>
MCSpec ==
  /\ MCInit /\ [][MCNext]_<<part, vars, cache, upsVars, reqVars, shapeVars>>
  /\ Req!Fairness

\* getWithSubnet gives an answer only to subnets that lie within its scope, and
\* the one with the longest prefix.
ServedWithinScope == part = "subnet" => Subnets!ServedWithinScope

\* The maps of UpstreamConfig resolve a name as the most specific of the lines
\* for it says, in whatever order the lines were parsed.
MostSpecificRuleWins == part = "upstreams" => Ups!MostSpecificRuleWins

\* Questions about private addresses stay with the private upstreams, and those
\* with the clients of private networks.
PrivateStaysPrivate == part = "request" => Req!PrivateStaysPrivate

\* No bogus and no foreign NAT64 address is served, and no AAAA of the name's own
\* is lost to DNS64; a response has the DNSSEC and EDNS records and the length that
\* its client asked for, and what is cached is not reduced to that.
ResponsesAreFiltered ==
  CASE part = "request" -> Req!AddressesAreFiltered
    [] part = "shape" -> Shape!CachedWhole /\ Shape!ShapedForClient
    [] OTHER -> TRUE

\* dnscontext.go:204: a response over UDP fits the size that the client advertises.
ResponsesFit == part = "shape" => Shape!ResponsesFit

\* The recursion detector cuts loops, and only those and repeated queries.
LoopsAreCut == Req!LoopsAreCut

\* Every client is told what became of its request, and the statistics account
\* for the answer.
OutcomesAreAccounted == part = "request" => Req!TypeOK /\ Req!OutcomesAreAccounted

\* Every request that the proxy reads comes to an end.
RequestsEnd == Req!RequestsEnd

\* README.md:372: a domain that a line excludes with '#' is resolved with the
\* default upstreams.
ExcludedGoToDefault == part = "upstreams" => Ups!ExcludedGoToDefault
=============================================================================
