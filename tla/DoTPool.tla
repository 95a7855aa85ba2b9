------------------------------ MODULE DoTPool ------------------------------
(***************************************************************************)
(* The connection pool of dnsOverTLS.  An exchange takes the connection    *)
(* that was put back last, or dials; a pooled connection may have died     *)
(* meanwhile, so that a failure on one is answered by a single retry over  *)
(* a new connection, unless the failure is the server's final word or the  *)
(* deadline of the exchange has passed.  Close closes the pooled           *)
(* connections while exchanges may still be using others.                  *)
(***************************************************************************)
EXTENDS Naturals, Sequences, SequencesExt

CONSTANTS
  Exchanges,  \* concurrent calls of Exchange
  Conns       \* bound: connections that exist at a time, a set of numbers

VARIABLES
  conns,    \* dnsOverTLS.conns
  open,     \* the connections this side has not closed
  broken,   \* the open connections that the server has abandoned
  at,       \* at[e]: the step of exchange e
  conn,     \* conn[e]: the connection it holds, or 0
  cached,   \* cached[e]: whether that came from the pool
  failed,   \* failed[e]: how its first attempt failed
  late,     \* the exchanges whose deadline has passed
  isClosed  \* Close has been called

vars == <<conns, open, broken, at, conn, cached, failed, late, isClosed>>

Pooled == ToSet(conns)
Held == {conn[e] : e \in Exchanges} \ {0}

\* A number for the next connection: the least one that nothing refers to.
IsFresh(c) ==
  LET free == Conns \ (open \union Pooled \union Held)
  IN  c \in free /\ \A d \in free : c <= d

Init ==
  /\ conns = <<>>
  /\ open = {}
  /\ broken = {}
  /\ at = [e \in Exchanges |-> "idle"]
  /\ conn = [e \in Exchanges |-> 0]
  /\ cached = [e \in Exchanges |-> FALSE]
  /\ failed = [e \in Exchanges |-> "no"]
  /\ late = {}
  /\ isClosed = FALSE

Go(e, step) ==
  at' = [at EXCEPT ![e] = step]

-----------------------------------------------------------------------------

Begin(e) ==
  /\ at[e] = "idle"
  /\ Go(e, "get")
  /\ UNCHANGED <<conns, open, broken, conn, cached, failed, late, isClosed>>

GetKeepsPooled(e) ==
  /\ at[e] = "get"
  /\ IF conns # <<>> /\ Last(conns) \in open
       THEN /\ conn' = [conn EXCEPT ![e] = Last(conns)]
            /\ cached' = [cached EXCEPT ![e] = TRUE]
            /\ Go(e, "use")
       ELSE Go(e, "dial") /\ UNCHANGED <<conn, cached>>
  /\ UNCHANGED <<conns, open, broken, failed, late, isClosed>>

\* The method conn, under connsMu: the last pooled connection is taken; setting
\* the deadline of one that is closed already fails, and then a new connection
\* is dialed, outside the lock.
Get(e) ==
  /\ at[e] = "get"
  /\ conns' = IF conns = <<>> THEN conns ELSE Front(conns)
  /\ IF conns # <<>> /\ Last(conns) \in open
       THEN /\ conn' = [conn EXCEPT ![e] = Last(conns)]
            /\ cached' = [cached EXCEPT ![e] = TRUE]
            /\ Go(e, "use")
       ELSE Go(e, "dial") /\ UNCHANGED <<conn, cached>>
  /\ UNCHANGED <<open, broken, failed, late, isClosed>>

\* tlsDial, with the deadline of the exchange: first and second attempt.
Dial(e) ==
  /\ at[e] \in {"dial", "redial"}
  /\ e \notin late
  /\ \E c \in Conns :
       /\ IsFresh(c)
       /\ open' = open \union {c}
       /\ conn' = [conn EXCEPT ![e] = c]
  /\ Go(e, IF at[e] = "dial" THEN "use" ELSE "reuse")
  /\ UNCHANGED <<conns, broken, cached, failed, late, isClosed>>

DialFails(e) ==
  /\ at[e] \in {"dial", "redial"}
  /\ Go(e, "failed")
  /\ UNCHANGED <<conns, open, broken, conn, cached, failed, late, isClosed>>

\* exchangeWithConn succeeds.
Reply(e) ==
  /\ at[e] \in {"use", "reuse"}
  /\ conn[e] \in open \ broken
  /\ Go(e, "putback")
  /\ UNCHANGED <<conns, open, broken, conn, cached, failed, late, isClosed>>

\* What exchangeWithConn may fail with: any failure of the connection, the
\* deadline, or a complete response that is not an answer (errDNSProtocol).
Failures(e) ==
  {"transport"}
    \union (IF e \in late THEN {"timeout"} ELSE {})
    \union (IF conn[e] \in open \ broken THEN {"protocol"} ELSE {})

Drop(e) ==
  /\ open' = open \ {conn[e]}
  /\ broken' = broken \ {conn[e]}
  /\ conn' = [conn EXCEPT ![e] = 0]

FailRetriesProtocol(e) ==
  /\ at[e] = "use"
  /\ \E f \in Failures(e) :
       /\ failed' = [failed EXCEPT ![e] = f]
       /\ Go(e, IF cached[e] /\ e \notin late THEN "redial" ELSE "failed")
  /\ Drop(e)
  /\ UNCHANGED <<conns, cached, late, isClosed>>

\* The first attempt fails: the connection is closed, and only a pooled one that
\* failed in transport, with time left, is replaced for a second attempt.
Fail(e) ==
  /\ at[e] = "use"
  /\ \E f \in Failures(e) :
       /\ failed' = [failed EXCEPT ![e] = f]
       /\ Go(e, IF cached[e] /\ f # "protocol" /\ e \notin late
                THEN "redial" ELSE "failed")
  /\ Drop(e)
  /\ UNCHANGED <<conns, cached, late, isClosed>>

FailAgain(e) ==
  /\ at[e] = "reuse"
  /\ Go(e, "failed")
  /\ Drop(e)
  /\ UNCHANGED <<conns, cached, failed, late, isClosed>>

PutBack(e) ==
  /\ at[e] = "putback"
  /\ conns' = Append(conns, conn[e])
  /\ conn' = [conn EXCEPT ![e] = 0]
  /\ Go(e, "replied")
  /\ UNCHANGED <<open, broken, cached, failed, late, isClosed>>

Close ==
  /\ ~isClosed
  /\ open' = open \ Pooled
  /\ broken' = broken \ Pooled
  /\ isClosed' = TRUE
  /\ UNCHANGED <<conns, at, conn, cached, failed, late>>

-----------------------------------------------------------------------------
(* The environment *)

DeadlinePasses(e) ==
  /\ at[e] \notin {"idle", "replied", "failed"}
  /\ late' = late \union {e}
  /\ UNCHANGED <<conns, open, broken, at, conn, cached, failed, isClosed>>

ServerAbandons(c) ==
  /\ c \in open
  /\ broken' = broken \union {c}
  /\ UNCHANGED <<conns, open, at, conn, cached, failed, late, isClosed>>

\* The caller makes another exchange.
Again(e) ==
  /\ at[e] \in {"replied", "failed"}
  /\ Go(e, "idle")
  /\ late' = late \ {e}
  /\ cached' = [cached EXCEPT ![e] = FALSE]
  /\ failed' = [failed EXCEPT ![e] = "no"]
  /\ UNCHANGED <<conns, open, broken, conn, isClosed>>

ExchangeStep(e) ==
  \/ Get(e) \/ Dial(e) \/ DialFails(e) \/ Reply(e) \/ Fail(e) \/ FailAgain(e)
  \/ PutBack(e)

Next ==
  \/ Close
  \/ \E e \in Exchanges : ExchangeStep(e) \/ Begin(e) \/ DeadlinePasses(e) \/ Again(e)
  \/ \E c \in Conns : ServerAbandons(c)

Spec == Init /\ [][Next]_vars

-----------------------------------------------------------------------------

TypeOK ==
  /\ conns \in Seq(Conns)
  /\ open \subseteq Conns
  /\ broken \subseteq open
  /\ at \in [Exchanges -> {"idle", "get", "dial", "use", "redial", "reuse",
                           "putback", "replied", "failed"}]
  /\ conn \in [Exchanges -> Conns \union {0}]
  /\ cached \in [Exchanges -> BOOLEAN]
  /\ failed \in [Exchanges -> {"no", "transport", "timeout", "protocol"}]
  /\ late \subseteq Exchanges
  /\ isClosed \in BOOLEAN

\* A connection carries one exchange at a time, so that a reply can only be the
\* reply to the query before it: none is in the pool twice, none is pooled and
\* in use, none is used by two exchanges.  And none is lost: whatever path an
\* exchange takes, a connection left open is in the pool or in use.
ConnsAreOwned ==
  /\ IsInjective(conns)
  /\ Pooled \intersect Held = {}
  /\ \A e, f \in Exchanges : e # f /\ conn[e] # 0 => conn[e] # conn[f]
  /\ open \subseteq Pooled \union Held

\* "Complete protocol rejections never authorize a hidden query replay", "An
\* exchange timeout is also final": the second attempt follows only a pooled
\* connection's failure in transport.
RetriesAreSafe ==
  \A e \in Exchanges :
    at[e] \in {"redial", "reuse"} => cached[e] /\ failed[e] = "transport"

\* "Closer used to close the upstreams properly", with methods "safe for
\* concurrent use": once Close was called and the exchanges have returned no
\* connection is left open.
ClosedIsClosed ==
  isClosed /\ (\A e \in Exchanges : at[e] \in {"idle", "replied", "failed"})
    => open = {}

=============================================================================
