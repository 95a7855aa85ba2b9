--------------------------- MODULE DoQConnection ---------------------------
(***************************************************************************)
(* The one QUIC connection that the exchanges of dnsOverQUIC share.  It is *)
(* dialed under connMu by the first exchange that needs it; an exchange    *)
(* that fails closes the connection it used, and forgets it only if no     *)
(* other exchange has replaced it meanwhile.  A failure over a connection  *)
(* that was there before is followed by a second attempt.                  *)
(***************************************************************************)
EXTENDS Naturals

CONSTANTS Exchanges, Conns

VARIABLES
  shared,   \* dnsOverQUIC.conn, 0 if nil
  mu,       \* the exchange that dials, holding connMu, or 0
  open,     \* the connections this side has not closed
  broken,   \* the open connections that the server has abandoned
  at,       \* at[e]: the step of exchange e
  conn,     \* conn[e]: the connection it uses, or 0
  cached,   \* cached[e]: whether getConnection found that one
  failed,   \* failed[e]: how the last attempt failed
  attempt,  \* attempt[e]: 1 or 2
  isClosed  \* Close has been called

vars == <<shared, mu, open, broken, at, conn, cached, failed, attempt, isClosed>>

Init ==
  /\ shared = 0
  /\ mu = 0
  /\ open = {}
  /\ broken = {}
  /\ at = [e \in Exchanges |-> "idle"]
  /\ conn = [e \in Exchanges |-> 0]
  /\ cached = [e \in Exchanges |-> FALSE]
  /\ failed = [e \in Exchanges |-> "no"]
  /\ attempt = [e \in Exchanges |-> 1]
  /\ isClosed = FALSE

Go(e, step) ==
  at' = [at EXCEPT ![e] = step]

Held == {conn[e] : e \in Exchanges} \ {0}

\* A number for the next connection: the least one that nothing refers to.
IsFresh(c) ==
  LET free == Conns \ (open \union {shared} \union Held)
  IN  c \in free /\ \A d \in free : c <= d

-----------------------------------------------------------------------------

Begin(e) ==
  /\ at[e] = "idle"
  /\ Go(e, "get")
  /\ UNCHANGED <<shared, mu, open, broken, conn, cached, failed, attempt, isClosed>>

\* getConnection: the shared connection, whatever its condition, or a new one.
Get(e) ==
  /\ at[e] = "get"
  /\ mu = 0
  /\ IF shared # 0
       THEN /\ conn' = [conn EXCEPT ![e] = shared]
            /\ cached' = [cached EXCEPT ![e] = TRUE]
            /\ Go(e, "use")
            /\ UNCHANGED mu
       ELSE /\ mu' = e
            /\ cached' = [cached EXCEPT ![e] = FALSE]
            /\ Go(e, "dial")
            /\ UNCHANGED conn
  /\ UNCHANGED <<shared, open, broken, failed, attempt, isClosed>>

Dial(e) ==
  /\ at[e] = "dial"
  /\ \E c \in Conns :
       /\ IsFresh(c)
       /\ open' = open \union {c}
       /\ conn' = [conn EXCEPT ![e] = c]
       /\ shared' = c
  /\ mu' = 0
  /\ Go(e, "use")
  /\ UNCHANGED <<broken, cached, failed, attempt, isClosed>>

DialFails(e) ==
  /\ at[e] = "dial"
  /\ mu' = 0
  /\ Go(e, "failed")
  /\ UNCHANGED <<shared, open, broken, conn, cached, failed, attempt, isClosed>>

\* exchangeQUIC and readMsg read one complete frame and the end of the stream.
Reply(e) ==
  /\ at[e] = "use"
  /\ conn[e] \in open \ broken
  /\ Go(e, "replied")
  /\ conn' = [conn EXCEPT ![e] = 0]
  /\ UNCHANGED <<shared, mu, open, broken, cached, failed, attempt, isClosed>>

\* They fail: with the connection, by the deadline, or as errDoQProtocol.
Fail(e) ==
  /\ at[e] = "use"
  /\ \E f \in {"transport", "timeout"}
                \union (IF conn[e] \in open \ broken THEN {"protocol"} ELSE {}) :
       failed' = [failed EXCEPT ![e] = f]
  /\ Go(e, "retire")
  /\ UNCHANGED <<shared, mu, open, broken, conn, cached, attempt, isClosed>>

MayRetry(e) ==
  attempt[e] = 1 /\ cached[e] /\ failed[e] = "transport"

RetireForgets(e) ==
  /\ at[e] = "retire"
  /\ mu = 0
  /\ open' = open \ {conn[e]}
  /\ broken' = broken \ {conn[e]}
  /\ shared' = 0
  /\ conn' = [conn EXCEPT ![e] = 0]
  /\ IF MayRetry(e)
       THEN Go(e, "get") /\ attempt' = [attempt EXCEPT ![e] = 2]
       ELSE Go(e, "failed") /\ UNCHANGED attempt
  /\ UNCHANGED <<mu, cached, failed, isClosed>>

\* closeConnWithError: the failed connection is closed, and forgotten if it is
\* still the shared one; then comes the second attempt, or the end.
Retire(e) ==
  /\ at[e] = "retire"
  /\ mu = 0
  /\ open' = open \ {conn[e]}
  /\ broken' = broken \ {conn[e]}
  /\ shared' = IF shared = conn[e] THEN 0 ELSE shared
  /\ conn' = [conn EXCEPT ![e] = 0]
  /\ IF MayRetry(e)
       THEN Go(e, "get") /\ attempt' = [attempt EXCEPT ![e] = 2]
       ELSE Go(e, "failed") /\ UNCHANGED attempt
  /\ UNCHANGED <<mu, cached, failed, isClosed>>

\* Close closes the shared connection and leaves it in place.
Close ==
  /\ ~isClosed
  /\ mu = 0
  /\ open' = open \ {shared}
  /\ broken' = broken \ {shared}
  /\ isClosed' = TRUE
  /\ UNCHANGED <<shared, mu, at, conn, cached, failed, attempt>>

-----------------------------------------------------------------------------
(* The environment *)

ServerAbandons(c) ==
  /\ c \in open
  /\ broken' = broken \union {c}
  /\ UNCHANGED <<shared, mu, open, at, conn, cached, failed, attempt, isClosed>>

Again(e) ==
  /\ at[e] \in {"replied", "failed"}
  /\ Go(e, "idle")
  /\ cached' = [cached EXCEPT ![e] = FALSE]
  /\ failed' = [failed EXCEPT ![e] = "no"]
  /\ attempt' = [attempt EXCEPT ![e] = 1]
  /\ UNCHANGED <<shared, mu, open, broken, conn, isClosed>>

ExchangeStep(e) ==
  Get(e) \/ Dial(e) \/ DialFails(e) \/ Reply(e) \/ Fail(e) \/ Retire(e)

Next ==
  \/ Close
  \/ \E e \in Exchanges : ExchangeStep(e) \/ Begin(e) \/ Again(e)
  \/ \E c \in Conns : ServerAbandons(c)

Spec == Init /\ [][Next]_vars

-----------------------------------------------------------------------------

TypeOK ==
  /\ shared \in Conns \union {0}
  /\ mu \in Exchanges \union {0}
  /\ open \subseteq Conns
  /\ broken \subseteq open
  /\ at \in [Exchanges -> {"idle", "get", "dial", "use", "retire", "replied",
                           "failed"}]
  /\ conn \in [Exchanges -> Conns \union {0}]
  /\ cached \in [Exchanges -> BOOLEAN]
  /\ failed \in [Exchanges -> {"no", "transport", "timeout", "protocol"}]
  /\ attempt \in [Exchanges -> 1..2]
  /\ isClosed \in BOOLEAN

\* No connection is lost: the shared connection is the only one that is open,
\* since a late failure closes what it used and cannot make the upstream forget
\* a successor.
ConnsAreOwned ==
  open \subseteq {shared}

\* A query is sent a second time only after a failure in transport of a
\* connection that was there before: neither after a timeout nor after a
\* complete response that breaks the protocol.
RetriesAreSafe ==
  \A e \in Exchanges :
    attempt[e] = 2 /\ at[e] \in {"get", "dial"} => failed[e] = "transport"

\* Once Close was called and the exchanges have returned no connection is open.
ClosedIsClosed ==
  isClosed /\ (\A e \in Exchanges : at[e] \in {"idle", "replied", "failed"})
    => open = {}

=============================================================================
