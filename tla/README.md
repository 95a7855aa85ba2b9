# Verification of dnsproxy

TLA+ models of dnsproxy (the fork described in `PATCHES.md`), the TLC runs that
check them and the TLAPS proofs about them.  Every definition is translated from
the Go source; `PROJECT.json` maps each one to its lines, lists the hazards of the
code and says which property would catch each of them.

    tlc -workers 2 -config MCResolve.cfg MCResolve       # a run
    tlapm ResolveProofs.tla                              # the proofs of a module

## The system and its parts

dnsproxy accepts DNS queries over UDP, TCP, TLS, QUIC, HTTPS and DNSCrypt
(`proxy/server*.go`, `dnscrypt/server*.go`), runs them through a chain of handlers
(`ratelimit`, `internal/middleware`), resolves them from a cache or from upstream
servers (`proxy/proxy.go`, `cache.go`, `pending.go`, `exchange.go`) and talks to the
upstreams over the same family of protocols (`upstream/*.go`).  It starts, restarts
and shuts down its listeners as a unit.

| part | state it keeps | concurrency | module |
|---|---|---|---|
| **serving** | | | |
| the proxy's servers, `proxy/proxy.go`, `server*.go` | listeners, serving generation, semaphore | loops, handlers, `Start`, `Shutdown` | `ProxyServer` |
| its DNSCrypt servers, `proxy/serverdnscrypt.go` | servers of a generation | `Start` and `Shutdown` under `Proxy.mu`, handlers, TCP connections | `ProxyDNSCrypt` over `ServerRun` |
| DNSCrypt server, `dnscrypt/server*.go` | socket, adopted connections, runs | serving goroutine, handlers, callers of `Shutdown` | `DNSCryptServer`, abstractly `ServerRun` |
| rate limit, `ratelimit` | buckets by subnet, with an expiry | requests between the lookup and `Try` | `RateLimit` |
| **resolving** | | | |
| a request, `proxy/server*.go`, `proxy.go`, `exchange.go`, `dns64.go`, `bogusnxdomain.go`, `recursiondetector.go`, `stats.go`, `internal/middleware` | the request's context; recent private queries | requests that private upstreams send back | `Request` |
| resolution, `proxy/proxy.go`, `proxycache.go`, `pending.go`, `optimisticresolver.go` | pending requests, two caches, refreshes under way | calls of `Resolve`, refresh goroutines | `Resolve` |
| EDNS and length of a response, `proxy/dnscontext.go`, `helpers.go` | the OPT record of the request | calls that meet in the cache and in the pending requests | `ResponseShape` |
| item of the cache, `proxy/cache.go` | expiry and TTLs of a response | the clock | `CacheTTL` |
| subnet keys, `proxy/cache.go` | responses by subnet | none | `SubnetCache` |
| upstreams of a domain, `proxy/upstreams.go` | four maps filled line by line | none | `UpstreamConfig` |
| **asking** | | | |
| receipt of an exchange, `upstream/receipt.go` | one decision per exchange | worker, timer, owner of the group | `ExchangeState`, abstractly `OneShotDecision` |
| plain DNS, `upstream/plain.go`, `response.go` | sockets of one call | with the receipt's other callers | `PlainExchange` |
| DNSCrypt, `upstream/dnscrypt.go`, `dnscrypt/client.go` | one exchange; the certificate exchanges share | with the receipt's other callers; one refresher, `Close` | `DNSCryptExchange`, `DNSCryptCertificate` |
| DNSCrypt messages, `dnscrypt/*.go` | lengths on the wire | client and server | `DNSCryptMessage` |
| DNS over HTTPS, `upstream/doh.go`, `http_work.go` | the shared client; the work of one exchange | exchanges, `Close`, probes, net/http's dials | `DoHClient`, `HTTPWork` |
| DNS over TLS, `upstream/dot.go` | pool of connections | exchanges, `Close` | `DoTPool` |
| DNS over QUIC, `upstream/doq.go` | one shared connection | exchanges, `Close` | `DoQConnection` |
| several servers at once, `upstream/parallel.go`, `proxy/exchange.go`, `proxy/lookup.go`, `internal/bootstrap` | results in a channel | one goroutine per server or address family | `FanOut` |
| bootstrap addresses, `upstream/resolver.go` | cached addresses of a host | lookups, two families each | `HostResolver` |
| fastest address, `fastip` | latencies by address | dials that outlive the call | `FastestAddr` |

### Not modelled

* Parsing: upstream addresses and their options (`upstream/upstream.go`), lines of a
  configuration beyond what their maps hold, flags and files (`internal/cmd`).  They
  are pure functions of strings; a model would repeat the string handling.
* Cryptography and byte layout: sealing, keys and certificates of DNSCrypt as bytes,
  keys and items of the cache as bytes.  The models take "opens or not", lengths and
  the order of preference from them.
* The LRU order of evictions in golibs' cache: an entry may vanish at any time.
* The validation of `Config`, the wiring of the handler chain and the conversion of
  statistics to text (`proxy/config.go`, `constructor.go`, `middleware.go`): each runs
  once, before anything is concurrent.  The order of the middlewares is in `Request`.
* Socket options, address comparisons (`internal/netutil`), QUIC and TLS
  configurations: I/O and library settings.
* Durations in statistics, log messages, panics' stack traces; test helpers.

## Modules and the code

State keeps the source's names (`reserved`, `sealed`, `pending`, `specified`,
`conns`, `refresher` for the token in `refresh`, ...).  A critical section of a mutex
is one step; code outside it is split at every point where another goroutine can be
seen.  The network, the clients and the clock are the environment.

* **`ProxyServer`**: `Start` binds listeners one by one and may fail at each,
  `Shutdown` cancels and closes; sockets, loops and handlers carry the generation
  that made them and share one semaphore across restarts.
* **`ServerRun`** is what `dnscrypt.Server` promises: a run takes messages until it is
  stopped or lost, hands what it took to handlers even after that, as `serveUDPLoop`
  does with a datagram it had read, and ends when they have returned.
  **`DNSCryptServer`** is the server itself, with its `done` channel per run, adopted
  connections and several callers of `Shutdown`, and implements it; its report of a
  lost listener may find no room in the channel and is then dropped.
  **`ProxyDNSCrypt`** uses `ServerRun` for each of the proxy's servers and adds what
  `Start` and `Shutdown` do to them, the slots of `requestsSema` and the reads of
  `started` under `Proxy.mu`.
* **`RateLimit`**: an address loses its zone and its mapping, is masked and finds or
  makes its bucket; the bucket is tried after the mutex was released, and forgotten an
  hour after it was made.
* **`Request`**: what each protocol's reader makes of its bytes, `validateRequest`,
  the middlewares, the choice between custom, private and configured upstreams, the
  exchange, DNS64, bogus NXDOMAIN and NAT64 filters, fallbacks, statistics, the reply.
  A private upstream may forward the query back to the proxy.
* **`Resolve`**: one process per call, from the cache lookup to `done`, and one refresh
  per key. A response is marked with the upstreams that gave it: the private ones for a
  PTR question of a DNS64 prefix, the custom ones for a name they have upstreams for,
  the default ones for any other, or the fallbacks (`selectUpstreams`,
  `replyFromUpstream`). The calls carry no client subnet, so that all are tracked as
  pending; subnets are the subject of `SubnetCache`. A lookup and the deletion of the
  entry it found unusable are two steps under one read lock, which keeps stores out in
  between; the deletion of a pending request and the closing of its channel are two
  that nothing protects. An entry is fresh, expired or past the optimistic age.
* **`ResponseShape`**: `processECS`, `addDO`, `filterMsg` and `scrub` as changes to an
  OPT record, to the presence of DNSSEC records and to lengths.
* **`CacheTTL`**: overrides, `cacheTTL` by kind of response, `pack` and
  `unpackItem`, with a clock in half seconds, since expiry is stored in whole ones.
* **`SubnetCache`**: addresses of `W4` and `W6` bits with mapped addresses, masks
  that fit and masks that do not, keys shortened bit by bit.
* **`UpstreamConfig`**: the maps after each line, and the selection for a name and
  for DS queries, which use the parent's upstreams.
* **`ExchangeState`**: `start`, `reserve`, `reject`, `accept`, `finish`, `Expire`
  and `Abandon` of `upstream/receipt.go`.  Tickets come back late: `reject` and
  `accept` are tried with every ticket ever handed out.  `OneShotDecision` is what
  callers rely on: observe a candidate, decide once.
* **`PlainExchange`** extends it with the worker of `plain.go`: dial, write, read,
  stray and malformed messages, the redial, the TCP continuation of a truncated or
  malformed datagram, the deferred closes and `finish`.  A message is what the code
  asks of it: same identifier, QR, TC, unpacks, question matches.
* **`DNSCryptExchange`** extends it likewise: the certificate's answer and the choice
  among its records, the query over UDP, the continuation over TCP.
  **`DNSCryptCertificate`** is the certificate that exchanges share, and
  **`DNSCryptMessage`** the number of bytes on each leg.
* **`DoHClient`**: `getClient`, `resetClient`, `closeClient`, `Close` and the retry
  loop, with the read/write lock of an HTTP/3 transport, which is released when the
  headers are there: the body is read while others may close the client.  **`HTTPWork`**: the
  admission and the join of the probes, dials and handshakes of one exchange, whose second
  client is created only when the probes of the first have ended (a bound).
* **`DoTPool`**, **`DoQConnection`**: what exchanges share, the retry each of them
  allows, deadlines and `Close`.
* **`FanOut`**: seven callers with one shape (parallel, all, lookup, load balancing,
  consequent, dial, the two address families); the capacity of the channel is the
  code's.
* **`HostResolver`**, **`FastestAddr`**: lookups and dials that end in any order and
  store into a cache others read.

`MCResolve`, `MCLookups`, `MCDoH`, `MCProxyServer` and `MCUpstreams` instantiate them.
Components that share no state are checked by one run: the variable `part` picks the
one that moves, the others stay at a single initial state.  Real compositions are
`PlainExchange` and `DNSCryptExchange` with `ExchangeState`, whose actions they call,
and `ProxyDNSCrypt` with `ServerRun`, in place of which `DNSCryptServer` may stand.

## Runs

Passing runs, with the distinct states TLC visits:

| run | states | what it asks |
|---|---|---|
| `resolve` | 354,080 | three calls of `Resolve` for one question, of five kinds, answered by custom, default, private or fallback upstreams, with refreshes |
| `lookups` | 153,197 | one cache item over time; subnet keys; configurations of three lines; requests of every kind from the client to the reply; the shape of two responses |
| `doh` | 315,913 | two exchanges and two closes over a shared client; one exchange with its probes and dials; lookups of bootstrap addresses |
| `server` | 235,478 | listeners, handlers and slots over restarts; the DNSCrypt server over two runs; the proxy's DNSCrypt servers; the rate limit |
| `upstreams` | 193,151 | the receipt with every order of calls and stale tickets, and inside a plain and a DNSCrypt exchange; DNSCrypt lengths; TLS pool, QUIC connection, certificate; fan-out; fastest address |

The properties, each with the code behaviour it is about:

* `resolve`.  The storage of pending requests holds exactly the calls between
  `queue` and `done`, so duplicates never go upstream together and `done` never
  panics (`OneOwnerPerKey`); nobody joins a request whose result was released
  (`JoinsBeforeRelease`); a cache holds only what the calls that use it could have been
  answered by, so nothing of the custom upstreams is in the global cache, nothing of the
  default ones in the custom cache but for names that the custom ones pass over, and
  nothing private but PTR responses for DNS64 prefixes, and a response with CD set only
  where a refresh stored it (`CachesStayApart`); a response has its request's identifier, and
  AD and DNSSEC records go only to callers that asked, if they resolved for themselves
  (`AnswersOwnRequest`); no lookup deletes a fresh entry (`LookupKeepsFreshEntries`);
  every call and every refresh ends, after failures and panics too (`WorkEnds`).
* `lookups`.  Age plus served TTL stays within the TTL every record had, to the
  second the format drops, and a clock set back cannot overflow a TTL
  (`NoRecordOutlived`); negative answers are cached only with an SOA and never for
  delegations (`NegativesAreAuthoritative`).  A subnet is served only what was meant for
  all of it, from the longest stored prefix (`ServedWithinScope`).  A name is resolved
  as the most specific rule for it says, in whatever order the lines came
  (`MostSpecificRuleWins`, against a definition that looks at the lines and not at the
  maps).  Questions about private addresses stay between private clients and private
  upstreams (`PrivateStaysPrivate`).  No bogus and no foreign NAT64 address is served
  and no AAAA record is lost to DNS64; what is cached is whole, and what is sent has the
  DNSSEC and EDNS records that the client asked for (`ResponsesAreFiltered`).  The
  recursion detector cuts loops and nothing but loops and repeated queries
  (`LoopsAreCut`); every client is told what became of its request and the statistics
  agree (`OutcomesAreAccounted`); every request ends (`RequestsEnd`).
* `doh`.  No client is lost and all closes agree (`NoClientLost`); none is replaced by
  the late failure of a predecessor (`OnlyItsUsersRetireIt`); `Exchange` returns when
  nothing it admitted runs (`ReturnsAlone`, `JoinEnds`); no expired address is returned
  (`AddressesAreCurrent`); exchanges, closes and lookups return (`EveryoneReturns`).
* `server`. Every slot of the semaphore belongs to one running handler, across restarts
  (`SlotsAccounted`); nothing stays bound or running after a shutdown or a failed start
  (`NothingOpenWhileStopped`); reports are failures and failures are reported
  (`ReportsAreFailures`); the DNSCrypt server is a `ServerRun`: its `done` is closed
  when nothing it read is unhandled and no handler runs, and what is handled after
  `Shutdown` was read before (`ImplementsServerRun`); no subnet exceeds its rate within
  the life of a bucket (`RateIsKept`); shutdowns end although clients stay connected
  and silent, and although `Shutdown` waits under `Proxy.mu` for handlers that wait for
  slots (`ShutdownsEnd`).
* `upstreams`.  A published answer was observed by the cutoff and carries the caller's
  identifier (`ReceiptRespectsCutoff`); `Expire` admits nothing more
  (`NoAdmissionAfterSeal`); a rejected or superseded ticket publishes nothing
  (`StaleTicketCannotPublish`); the receipt implements `OneShotDecision`
  (`ImplementsOneShot`).  A plain exchange takes no step with the receipt that the
  receipt's specification does not allow and writes nothing after a timeout, a promise
  of `PATCHES.md` (`UsesReceiptAsSpecified`); what a plain or a DNSCrypt exchange
  returns is what its receipt says unless the group ended it first, and a truncated
  datagram is never the decision (`ReceiptAgreesWithExchange`); both end with no socket
  open, whatever the servers send (`ExchangesEnd`).  DNSCrypt exchanges share the best
  certificate, fetched once, and each side opens what the other sends
  (`DNSCryptPeersAgree`).  Every open connection has an owner (`NoConnLost`); no retry
  after a timeout or a final answer (`NoUnsafeRetry`); an error means that all servers
  failed (`ErrorMeansAllFailed`); a dial that ends late does not hide a success
  (`FastestIsKept`); all exchanges, goroutines and dials end (`ExchangesReturn`).

Runs that find a documented statement violated by the code:

| run | the code | the statement |
|---|---|---|
| `pending_rcode` | a waiter's response goes through `SetReply`, which resets the code to NOERROR (`proxy/pending.go:97`) | README.md:118: the first query's result is propagated to others |
| `pending_custom` | the key of a pending request ignores the upstreams (`proxy/pending.go:75`) | `proxy/dnscontext.go:44`: custom upstreams are used instead of the default ones |
| `excluded_domain` | an excluded domain with a wildcard of its own goes to its parent's upstreams (`proxy/upstreams.go:435`) | README.md:372: `#` means the common servers |
| `quic_slots` | QUIC connections keep a slot while they wait for one per stream (`proxy/serverquic.go:238`) | `proxy/proxy.go:90`, `config.go:180`: slots are for requests being processed |
| `closed_upstream` | an exchange under way puts back or dials a connection after `Close` (`upstream/dot.go:223`, `doq.go`) | `upstream/upstream.go:48`: closes the upstreams properly |
| `dnscrypt_reply_size` | a response that `normalize` lets pass grows by up to 112 bytes and more when it is padded and sealed (`dnscrypt/dns.go:20`) | `dnscrypt/dns.go:18`: "64 should cover all cases" |
| `response_size` | `scrub` takes the size from the OPT record that `addDO` put into the request (`proxy/dnscontext.go:199`) | `proxy/dnscontext.go:204`: the size advertised in the request |

### Bounds

* `resolve`: three calls of one question (an owner, a waiter and one that arrives
  between the release of the result and its storing), each kind of request, a signed
  answer and one of the fallbacks with the CD bit.  The question is a name the custom
  upstreams are for, one they pass over, or a PTR question of a DNS64 prefix.  Calls of
  different questions meet nowhere, and the calls are interchangeable, so their kinds
  are taken in one order.
* `lookups`: TTLs 0, 2 and 4 around overrides of 3 and a SERVFAIL limit of 2; ten
  half seconds outlive any item; addresses of 1 and 3 bits have mapped, plain and
  one-family prefixes; two entries make evictions happen; three lines for three
  nested domains are enough for a rule, its wildcard and an exclusion.  One request of
  every question, peer, protocol and form, with each switch of the configuration on and
  off, and two clients with the same or another identifier where they can meet in the
  recursion detector; two more slots for queries that come back.  Two responses of
  100, 1000 and 3000 bytes lie below, between and above the sizes 512, 1232, 2048 and
  4096 that the code and the clients use.
* `doh`: two exchanges that replace three clients, two closers, two dials, two trips;
  two lookups with TTLs 0 and 1.
* `server`: two slots and two generations with one listener, one with two; two handlers
  and two callers for DNSCrypt; in `ProxyDNSCrypt` one slot for a handler of each of
  two servers and a connection, so that each can be waited for. The rate limit has a
  bucket that outlives an interval and a clock that outlives the bucket.
* `upstreams`: cutoff 2 on a clock of 1..3, so that receipts come before, at and
  after it; two messages per socket (a stray one and the answer) and eight
  reservations, one for each message of the four sockets an exchange can open; three
  certificate records of every defect; lengths on both sides of every limit of padding,
  truncation and framing.  Two exchanges that repeat over three connections, one more
  than they can hold; three servers; two addresses.

### Fairness

Nobody is assumed to call, to connect, to answer well or to give up.  Assumed is
that goroutines which can run do: weak fairness of the worker of a plain or DNSCrypt
exchange, of each call of `Resolve` once begun and of each refresh, of each request
that was read, of the exchanges, probes, dials and lookups of DoH, of the loops,
handlers and calls under way of the servers.  The reads and dials behind these steps
have deadlines in the code (`SetDeadline` in `plain.go`, `dot.go`, `doq.go`, the
client's timeout in `doh.go` and `dnscrypt/client.go`), and a read that fails is one of
their outcomes.  `upstreams` uses strong fairness for the steps of an exchange over a
shared session, because they wait for a mutex or a channel which others take again and
again; Go's mutexes and channels serve waiters in turn.  `quic_slots` adds, to be
fair to the code, that silent clients are disconnected and that the semaphore
serves its waiters in turn; the property fails all the same.

TLC's deadlock check is off where the system really has ends (an exchange that
returned, a proxy that is never started again, a bound that is used up), and says
little about `Resolve`, where `ClearCache` is always possible.  That nobody waits
forever is what the liveness properties state: `WorkEnds`, `RequestsEnd`, `JoinEnds`,
`EveryoneReturns`, `ShutdownsEnd`, `ExchangesEnd` and `ExchangesReturn`.

## Proofs

Eight modules of proofs.  None bounds the instance: the constants are only typed by
the named assumptions of the modules, which TLC evaluates in every run.

**`ExchangeStateProofs`**, for every cutoff, every set of identifiers, answers and
errors, and any number of tickets (`BoundsAssumption`; `ValuesAssumption`: the marks
for "no answer" and "no error" are not among the values): `TypeCorrect`, `DoneOnce`,
`TimelyReceipt`, `ExpireSeals`, `RefusedStaysRefused`, `Finality` (no operation changes
a decision) and `Refinement` (`ExchangeState` implements `OneShotDecision`).  The
invariants are not inductive one by one.  That an accepted answer was in time needs to
know what a reservation holds: `ReservationSound` (a reservation is the latest ticket,
was received by the cutoff, after `start`, and nothing is decided yet).  That a refused
ticket stays refused needs the history of tickets to agree with the counter:
`HistorySound`.  The refinement maps a reservation to a candidate and is proved step by
step under `IInv`: `Expire` without a reservation is the abstract closing and failing in
one step, with one only the closing; `reject` after `Expire` is a failing `Discard`.

**`PlainExchangeProofs`** and **`DNSCryptExchangeProofs`** carry that over to the
exchanges, for any number of messages per socket and of certificate records
(`Suffices`: the receipt may hand out a ticket per message, and its answers and errors
include the exchange's).  `UsesReceipt`: every step of the worker is a step of
`ExchangeState` or leaves it alone, so that all of the above holds inside an exchange.
`ReceiptMatchesReturn`, `TruncatedIsProvisional` and `TimelyCryptReceipt` are about the
outcome.  `PlainInv` and `CryptInv` add to the receipt's invariant how many tickets the
connections so far can have used, that a reservation belongs to the message being
decoded (`Holding`), and that what the receipt published is what the worker is about to
return (`Agreement`); after a timeout the worker is on its way out (`TimeoutEnds`).

**`HTTPWorkProofs`**, for any finite set of dials and any number of clients
(`HTTPWorkAssumption`): `WorkIsJoined`, the WaitGroup counts exactly the probes, dials
and handshakes that run, and none runs once `Exchange` has returned; `JoinAdmitsNothing`,
while the join waits the count only falls, so that `Add` never races `Wait`.  `IInv` adds
that the scope is sealed before the wait begins, which is why a dial that net/http starts
late finds it sealed.

**`ResolveProofs`**, for any calls, questions, kinds of requests and replies, and with
DNSSEC, optimistic caching and pending requests on or off (`ResolveAssumption`):
`OneOwner`, `OwnAnswers`, `CachesApart`, `WaitsForRunning` and `FreshEntriesStay`,
which are five of the six properties of the run. `IInv` says for each place in
`Resolve` what a call has there (`CallOK`: an unfiltered response of upstreams that
`selectUpstreams` or the fallbacks give it before storing, its own in the end), for a
waiter who its owner is and what it was given (`JoinOK`), for a lookup about to delete
that the entry is still the one it saw (`DropOK`, which holds because no store fits
between the two steps of a reader), and for every entry and refresh where it came from
(`EntryOK`, `RefreshOK`).

**`ProxyServerProofs`**, for any listeners, configurations, slots and restarts
(`ServerAssumption`): `SlotsAreAccounted`, `NothingStaysBound`, `OnlyLossesAreReported`.
`IInv` has the count of slots as the cardinality of the live handlers, with one lemma
for a handler that starts and one for a handler that ends (`Takes`, `Releases`); that
only the current generation has sockets (`SocketOK`); and that a loop of the served
generation ends only with a failure in the channel (`LoopOK`).

**`DNSCryptServerProofs`**, for any number of runs, handlers and callers:
`NothingOutlivesShutdown`, `LossReported`, and `Refinement`: `DNSCryptServer` implements
`ServerRun`.  `IInv` ties the serving goroutine to the channel of its run (`RunInv`), the
listening socket to `started` (`SocketInv`) and the way to the report to the loss
(`ReportInv`).

**`CacheTTLProofs`**, for TTLs of any width, any responses and overrides and any clock
(`TTLAssumption`): `RecordsExpire` and `NegativesAreBounded`.  `ItemOK` says that an item
expires `cacheTTL` after the second in which it was stored; `CacheTTLBounds` that this is
no more than any of its records, for which the least of a set of naturals must exist
(`MinIsLeast`, from the library's well-founded `<`); the rest is arithmetic of the half
seconds that `Unix` drops (`UnixTruncates`).

Only model-checked: all liveness (the prover does not do fairness); `SubnetCache` and
`UpstreamConfig`, whose references quantify over prefixes and lines; `Request`,
`ResponseShape`, `RateLimit`, `ProxyDNSCrypt`, `DNSCryptMessage`; and the invariants of
the shared clients, pools, certificates and of the groups of servers.

## Observations

Met while modelling; no document contradicts them, or only a remark that a run of its
own would not be worth:

* pending requests: a waiter gets the AD bit, the DNSSEC records, the EDNS record and
  the length of its owner; only owners are filtered (`proxy/proxy.go:933`);
* the private upstreams' answer to a PTR question of a DNS64 prefix is cached, in the
  cache of the call (`proxy/proxy.go:775`);
* a refresh stores responses with CD set, which `Resolve` itself does not cache, and
  an older refresh may overwrite a newer answer (`optimisticresolver.go:66`);
* at the instant of expiry an item is served with its stored TTLs (`cache.go:687`); an
  empty SERVFAIL is cached for 30 seconds although the comment at `cache.go:517` speaks
  of returning zero; a NODATA response without SOA is cached for types other than A and
  AAAA; `setMinMaxTTL` rewrites the TTL field of OPT records, which holds flags;
* a response with a number of questions other than one becomes a SERVFAIL, which is
  cached;
* with ECS enabled a response has an OPT record that the client did not send, against
  the comment at `dnscontext.go:191`; an OPT record of size 0 makes `scrub` calculate
  the flags again after `addDO` has changed them;
* the recursion detector takes a retransmission within its TTL for a loop;
* DNS64 keeps a non-zero code of the AAAA response (`dns64.go:103`); replies of
  fallbacks and synthesized addresses are not checked for bogus or NAT64 addresses;
* in parallel mode with DNS64 the goroutines that lost go on writing the statistics of
  their wrapped upstream while the second exchange reads them (`stats.go:31`);
* `LookupNetIP` dereferences a nil response if `Resolve` returns neither a response nor
  an error (`lookup.go`);
* an HTTPS request that a handler drops is answered with an empty 200; HTTPS handlers
  take no slot; a DNSCrypt query whose handler fails after it replied is replied to
  twice (`dnscrypt/server.go:305`); a TCP message of 65471 bytes cannot be framed once
  sealed, and `helpers.go:93` advertises 4096 bytes while DNSCrypt's client reads 512;
* the QUIC address validator remembers an address before it has validated it;
* a bucket of the rate limit ends an hour after it was made, also while it is used;
* `Shutdown` closes the upstreams before the DNSCrypt servers are stopped, and a second
  `Start` serves with the closed ones; a failed `Start` shuts the DNSCrypt servers down
  with a context that is cancelled already, so that it does not wait for them; a lost
  listener leaves the proxy started;
* one DoQ exchange's timeout closes the connection others use, and those that had
  dialed it themselves are not retried; `Close` waits for a dial under `connMu`; an
  exchange that holds a retired HTTP/3 client fails with `net.ErrClosed`;
* the key of `CachingResolver` ignores the network, so that addresses of one family
  answer a lookup of the other; `exchangeAsync` does not recover from panics,
  `lookupAsync` does.

## Plan

1. Proofs of the ownership of connections (`DoTPool`, `DoQConnection`), of
   `NoClientLost` (`DoHClient`) and of `CertificateIsShared`.
2. `Request` composed with `Resolve`, which now meet only in the exchange.
3. The LRU order of the caches, for which `SubnetCache` evicts any entry.
