------------------------------- MODULE FanOut -------------------------------
(***************************************************************************)
(* One call that asks several servers for the same thing:                  *)
(*   "parallel"    upstream.ExchangeParallel: the first response wins      *)
(*   "all"         upstream.ExchangeAll: all responses are collected       *)
(*   "lookup"      bootstrap.ParallelResolver.LookupNetIP                  *)
(*   "families"    Proxy.LookupNetIP: the queries for A and for AAAA       *)
(*                 instead of servers, collected unless the context ends   *)
(*   "balance"     Proxy.exchangeUpstreams, load balancing: one after the  *)
(*                 other, in an order drawn at random                      *)
(*   "consequent"  bootstrap.ConsequentResolver.LookupNetIP, in order      *)
(*   "dial"        bootstrap.NewDialContext, in order                      *)
(* The first four start a goroutine per server, which sends its result     *)
(* into a channel and may do so long after the call has returned.          *)
(***************************************************************************)
EXTENDS Naturals, Sequences, FiniteSets

CONSTANT Servers  \* the servers a call may be given, numbered in their order

VARIABLES
  mode,     \* the function that is called
  ups,      \* its servers
  caller,   \* where the call is
  worker,   \* worker[u]: the goroutine of server u
  outcome,  \* outcome[u]: what server u has given
  ch,       \* the channel of the results
  errs,     \* the servers whose result counted as an error
  res,      \* the servers whose response was collected
  ret       \* what the call returned

vars == <<mode, ups, caller, worker, outcome, ch, errs, res, ret>>

Concurrent == {"parallel", "all", "lookup", "families"}
Collects == mode \in {"all", "families"}
Modes == Concurrent \union {"balance", "consequent", "dial"}

\* The two queries of Proxy.LookupNetIP, for A and for AAAA.
Families == {1, 2}

\* lookupIPAddr and lookupAsync make an error of a panic.
Recovers(m) == m \in {"lookup", "families"}

\* A server gives a response, nothing without an error (no message, no
\* addresses), or an error.
OutcomesOf(m) ==
  {"response", "error"}
    \union (IF m = "dial" THEN {} ELSE {"nothing"})
    \union (IF Recovers(m) THEN {"panic"} ELSE {})

NoReturn == [err |-> FALSE, from |-> {}]

Init ==
  /\ mode \in Modes
  /\ ups \in SUBSET Servers
  /\ mode = "balance" => ups # {}
  /\ mode = "families" => ups = Families
  /\ caller = "called"
  /\ worker = [u \in Servers |-> "none"]
  /\ outcome = [u \in Servers |-> "none"]
  /\ ch = <<>>
  /\ errs = {}
  /\ res = {}
  /\ ret = NoReturn

Return(err, from) ==
  /\ caller' = "returned"
  /\ ret' = [err |-> err, from |-> from]

-----------------------------------------------------------------------------

NoServers ==
  /\ caller = "called"
  /\ ups = {}
  /\ Return(TRUE, {})
  /\ UNCHANGED <<mode, ups, worker, outcome, ch, errs, res>>

\* A single server is asked without a goroutine.  ExchangeAll alone takes no
\* message for an error then.
SingleServer ==
  /\ caller = "called"
  /\ Cardinality(ups) = 1
  /\ mode \in Concurrent \union {"balance"}
  /\ \E u \in ups, o \in OutcomesOf(mode) \ {"panic"} :
       /\ outcome' = [outcome EXCEPT ![u] = o]
       /\ IF o = "error" \/ (mode = "all" /\ o = "nothing")
            THEN Return(TRUE, {})
            ELSE Return(FALSE, {u})
  /\ UNCHANGED <<mode, ups, worker, ch, errs, res>>

StartsAll ==
  /\ caller = "called"
  /\ mode \in Concurrent
  /\ Cardinality(ups) > 1
  /\ caller' = "collect"
  /\ worker' = [u \in Servers |-> IF u \in ups THEN "exchange" ELSE "none"]
  /\ UNCHANGED <<mode, ups, outcome, ch, errs, res, ret>>

\* exchangeAsync and lookupAsync: the server answers, fails or panics.
Exchange(u) ==
  /\ worker[u] = "exchange"
  /\ \E o \in OutcomesOf(mode) : outcome' = [outcome EXCEPT ![u] = o]
  /\ worker' = [worker EXCEPT ![u] = "send"]
  /\ UNCHANGED <<mode, ups, caller, ch, errs, res, ret>>

RoomForOne == 1

\* make(chan any, upsNum): nobody receives once the call has returned.
Capacity == Cardinality(ups)

Send(u) ==
  /\ worker[u] = "send"
  /\ Len(ch) < Capacity
  /\ ch' = Append(ch, u)
  /\ worker' = [worker EXCEPT ![u] = "ended"]
  /\ UNCHANGED <<mode, ups, caller, outcome, errs, res, ret>>

SuccessUnlessError(o) ==
  o \in {"response", "nothing"}

\* What the call takes for a success: no message is none for the exchanges, no
\* addresses are one for ParallelResolver.
IsSuccess(o) ==
  \/ o = "response"
  \/ o = "nothing" /\ mode \in {"lookup", "families", "balance"}

IsLast(u) == errs \union res \union {u} = ups

\* What the call returns when it has received the last result: LookupNetIP an
\* error only if it has no address.
ReturnCollected(collected, failed) ==
  LET given == {u \in collected : outcome[u] = "response"}
  IN  IF mode = "families" THEN Return(given = {} /\ failed # {}, given)
                           ELSE Return(failed = ups, collected)

\* receiveAsyncResult in the loop of the call.
ReceivesSuccess ==
  /\ caller = "collect"
  /\ ch # <<>>
  /\ IsSuccess(outcome[Head(ch)])
  /\ ch' = Tail(ch)
  /\ IF Collects
       THEN /\ res' = res \union {Head(ch)}
            /\ IF IsLast(Head(ch)) THEN ReturnCollected(res', errs) ELSE UNCHANGED <<caller, ret>>
       ELSE Return(FALSE, {Head(ch)}) /\ UNCHANGED res
  /\ UNCHANGED <<mode, ups, worker, outcome, errs>>

ReceivesError ==
  /\ caller = "collect"
  /\ ch # <<>>
  /\ ~IsSuccess(outcome[Head(ch)])
  /\ ch' = Tail(ch)
  /\ errs' = errs \union {Head(ch)}
  /\ IF IsLast(Head(ch)) THEN ReturnCollected(res, errs') ELSE UNCHANGED <<caller, ret>>
  /\ UNCHANGED <<mode, ups, worker, outcome, res>>

\* The context of LookupNetIP ends before the results are there.
Canceled ==
  /\ mode = "families" /\ caller # "returned"
  /\ caller' = "canceled"
  /\ UNCHANGED <<mode, ups, worker, outcome, ch, errs, res, ret>>

\* ConsequentResolver and the dialer go by the order they were given.
InOrder(u) == \A v \in ups \ errs : u <= v

\* The weights of load balancing are never zero, so any server may be next.
IsNext(u) ==
  /\ u \in ups \ errs
  /\ mode = "balance" \/ InOrder(u)

\* The next of several servers, one after the other.  ConsequentResolver joins
\* the errors: without any, it returns neither addresses nor an error.
Tries ==
  /\ caller = "called"
  /\ mode \notin Concurrent
  /\ mode = "balance" => Cardinality(ups) > 1
  /\ \E u \in Servers, o \in OutcomesOf(mode) :
       /\ IsNext(u)
       /\ outcome' = [outcome EXCEPT ![u] = o]
       /\ IF IsSuccess(o) THEN Return(FALSE, {u}) /\ UNCHANGED errs
          ELSE /\ errs' = errs \union {u}
               /\ IF errs' = ups
                    THEN Return(\E v \in ups : outcome'[v] = "error", {})
                    ELSE UNCHANGED <<caller, ret>>
  /\ UNCHANGED <<mode, ups, worker, ch, res>>

-----------------------------------------------------------------------------

Next ==
  \/ NoServers \/ SingleServer \/ StartsAll \/ ReceivesSuccess \/ ReceivesError
  \/ Canceled \/ Tries
  \/ \E u \in Servers : Exchange(u) \/ Send(u)

Spec == Init /\ [][Next]_vars

TypeOK ==
  /\ mode \in Modes
  /\ ups \subseteq Servers
  /\ caller \in {"called", "collect", "returned", "canceled"}
  /\ worker \in [Servers -> {"none", "exchange", "send", "ended"}]
  /\ outcome \in [Servers -> {"none", "response", "nothing", "error", "panic"}]
  /\ ch \in Seq(ups)
  /\ errs \subseteq ups
  /\ res \subseteq ups
  /\ ret \in [err : BOOLEAN, from : SUBSET ups]

\* ExchangeParallel "returns an error if all upstreams failed", ExchangeAll
\* "only if all upstreams failed": an error says that every server was asked
\* and none has responded, a success names a server that did not fail, and
\* ExchangeAll returns every response there is.  So does Proxy.LookupNetIP, which
\* "returns both results" although one of the queries may fail.
ErrorMeansAllFailed ==
  /\ TypeOK
  /\ caller = "returned" /\ ret.err =>
       \A u \in ups : outcome[u] \in {"nothing", "error", "panic"}
  /\ caller = "returned" /\ ~ret.err =>
       /\ \A u \in ret.from : outcome[u] \in {"response", "nothing"}
       /\ mode \notin {"consequent", "families"} => ret.from # {}
       /\ Collects => ret.from = {u \in ups : outcome[u] = "response"}

\* The call has returned and so has every goroutine it started: none waits to
\* send a result that nobody receives any more.
HasEnded ==
  caller \in {"returned", "canceled"} /\ \A u \in Servers : worker[u] \in {"none", "ended"}

=============================================================================
