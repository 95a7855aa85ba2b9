--------------------------- MODULE ExchangeState ---------------------------
(***************************************************************************)
(* upstream/receipt.go: the invocation-local owner of one exchange's       *)
(* decision.  Every method runs under the state's mutex, so each is one    *)
(* atomic step.  The protocol worker calls start, reserve, reject, accept  *)
(* and finish; the group that owns the query calls Expire and Abandon from *)
(* other goroutines at any time.                                           *)
(*                                                                         *)
(* A ticket may come back late: the object is checked against callers that *)
(* use any ticket ever handed out.  A decoded response is a member of      *)
(* Answers; the wire identifier it arrives with is not kept, since accept  *)
(* overwrites it in the published copy.                                    *)
(***************************************************************************)
EXTENDS Naturals

CONSTANTS Cutoff,       \* the logical deadline; 0 is time.Time's zero value
          Ids,          \* request identifiers
          Answers,      \* decoded responses
          WorkErrors,   \* errors the protocol code hands to finish
          MaxTime,      \* bound of the clock
          MaxTickets    \* bound of the reservations made

NoErr == "nil"
DeadlineExceeded == "context deadline exceeded"
ErrExchangeAbandoned == "exchange abandoned"
ErrNoReply == "no reply"
NoAnswer == "no response"

ASSUME BoundsAssumption ==
  /\ Cutoff \in Nat /\ MaxTime \in Nat \ {0} /\ MaxTickets \in Nat
  /\ Ids \subseteq Nat
ASSUME ValuesAssumption ==
  /\ NoAnswer \notin Answers
  /\ NoErr \notin WorkErrors

VARIABLES now,          \* time.Now()
          started, original,
          ticket, reserved, received,
          sealed, finished, result,
          closes,       \* how often close(s.done) ran
          expired,      \* history: Expire was called
          sealTicket,   \* history: the last ticket issued before that
          released,     \* history: the tickets given back by reject
          winner        \* history: the ticket whose answer was published

decisionVars == <<result, finished, reserved, closes>>
history == <<expired, sealTicket, released, winner>>
vars == <<now, started, original, ticket, received, sealed, decisionVars, history>>

-----------------------------------------------------------------------------
NoResult == [answer |-> NoAnswer, id |-> 0, at |-> 0, err |-> NoErr]
Failure(e) == [answer |-> NoAnswer, id |-> 0, at |-> 0, err |-> e]
Response(a, i, t) == [answer |-> a, id |-> i, at |-> t, err |-> NoErr]

PastCutoff == Cutoff # 0 /\ now > Cutoff

\* NewExchangeState(Cutoff).
Init ==
  /\ now = 1
  /\ started = FALSE /\ original = 0
  /\ ticket = 0 /\ reserved = FALSE /\ received = 0
  /\ sealed = FALSE /\ finished = FALSE /\ result = NoResult
  /\ closes = 0
  /\ expired = FALSE /\ sealTicket = 0 /\ released = {} /\ winner = 0

\* Conditions with one mistake each, for judging the properties below.
InHandAnyTicket(t) == ~finished /\ reserved
RejectIgnoresSeal == PastCutoff
CutoffIgnored == FALSE

\* completeLocked decides only the first time.
FirstDecision == ~finished

completeLocked(r) ==
  IF FirstDecision
    THEN /\ result' = r /\ finished' = TRUE /\ reserved' = FALSE
         /\ closes' = closes + 1
    ELSE UNCHANGED decisionVars

SealUnlessReserved == sealed \/ ~reserved
SealAlways == TRUE

Expire ==
  /\ sealed' = SealAlways
  /\ expired' = TRUE
  /\ sealTicket' = IF expired THEN sealTicket ELSE ticket
  /\ IF reserved THEN UNCHANGED decisionVars
                 ELSE completeLocked(Failure(DeadlineExceeded))
  /\ UNCHANGED <<now, started, original, ticket, received, released, winner>>

Abandon ==
  /\ completeLocked(Failure(ErrExchangeAbandoned))
  /\ UNCHANGED <<now, started, original, ticket, received, sealed, history>>

\* A second start returns "exchange state reused" and changes nothing.
start(id) ==
  /\ ~started
  /\ started' = TRUE /\ original' = id
  /\ UNCHANGED <<now, ticket, received, sealed, decisionVars, history>>

\* The cutoff as reserveCandidate tests it, with the clock read under the lock.
ObservedTooLate == PastCutoff

AdmissionOpen == ~finished /\ ~sealed /\ ~reserved

reserveCandidate ==
  /\ IF ~AdmissionOpen
       THEN UNCHANGED <<ticket, received, decisionVars>>
       ELSE IF ObservedTooLate
       THEN completeLocked(Failure(DeadlineExceeded)) /\ UNCHANGED <<ticket, received>>
       ELSE /\ ticket' = ticket + 1
            /\ reserved' = TRUE /\ received' = now
            /\ UNCHANGED <<result, finished, closes>>
  /\ UNCHANGED <<now, started, original, sealed, history>>

\* The ticket a reservation step returns to its caller; 0 is "not admitted".
Issued == IF ticket' # ticket THEN ticket' ELSE 0

\* The header facts reserve looks at before it admits a plain DNS message.
Wires == [whole : BOOLEAN, sameId : BOOLEAN, qr : BOOLEAN, tc : BOOLEAN]
TruncationIgnored(w, udp) == w.whole /\ w.sameId /\ w.qr
MayReserve(w, udp) == w.whole /\ w.sameId /\ w.qr /\ ~(udp /\ w.tc)

reserve(w, udp) ==
  IF MayReserve(w, udp) THEN reserveCandidate ELSE UNCHANGED vars

\* accept and reject act only for the holder of the current reservation.
InHand(t) == ~finished /\ reserved /\ t = ticket

\* A refused candidate was the last chance once admission is over.
NothingLeft == sealed \/ PastCutoff

reject(t) ==
  IF ~InHand(t)
    THEN UNCHANGED vars
    ELSE /\ IF NothingLeft
              THEN completeLocked(Failure(DeadlineExceeded))
              ELSE reserved' = FALSE /\ UNCHANGED <<result, finished, closes>>
         /\ released' = released \cup {t}
         /\ UNCHANGED <<now, started, original, ticket, received, sealed, expired, sealTicket, winner>>

accept(t, a) ==
  IF ~InHand(t)
    THEN UNCHANGED vars
    ELSE /\ completeLocked(Response(a, original, received))
         /\ winner' = t
         /\ UNCHANGED <<now, started, original, ticket, received, sealed, expired, sealTicket, released>>

finish(e) ==
  /\ completeLocked(Failure(IF e = NoErr THEN ErrNoReply ELSE e))
  /\ UNCHANGED <<now, started, original, ticket, received, sealed, history>>

Tick ==
  /\ now < MaxTime
  /\ now' = now + 1
  /\ UNCHANGED <<started, original, ticket, received, sealed, decisionVars, history>>

-----------------------------------------------------------------------------
(* Every Exchange starts its state before it touches the network, so the   *)
(* worker's operations come after start; the group's do not wait for it.   *)
Next ==
  \/ Tick
  \/ Expire
  \/ Abandon
  \/ \E id \in Ids : start(id)
  \/ started /\ ticket < MaxTickets /\ \E w \in Wires, udp \in BOOLEAN : reserve(w, udp)
  \/ \E t \in 1 .. ticket : reject(t)
  \/ \E t \in 1 .. ticket, a \in Answers : accept(t, a)
  \/ started /\ \E e \in WorkErrors \cup {NoErr} : finish(e)

Spec == Init /\ [][Next]_vars

-----------------------------------------------------------------------------
Errs == WorkErrors \cup {NoErr, DeadlineExceeded, ErrExchangeAbandoned, ErrNoReply}

Results == [answer : Answers \cup {NoAnswer}, id : Nat, at : Nat, err : Errs]

\* Every field of the state has the type receipt.go gives it.
TypeOK ==
  /\ now \in Nat /\ started \in BOOLEAN /\ original \in Nat
  /\ ticket \in Nat /\ reserved \in BOOLEAN /\ received \in Nat
  /\ sealed \in BOOLEAN /\ finished \in BOOLEAN /\ closes \in {0, 1}
  /\ result \in Results
  /\ expired \in BOOLEAN /\ sealTicket \in Nat /\ released \in SUBSET Nat /\ winner \in Nat

\* Done is closed exactly when a decision is available, and never a second
\* time: closing s.done twice would panic inside completeLocked.
DoneMatchesDecision ==
  /\ closes = IF finished THEN 1 ELSE 0
  /\ finished <=> result.answer # NoAnswer \/ result.err # NoErr

\* A published response carries the caller's identifier and an observation
\* time that respects the cutoff, however long decoding took and whenever
\* Expire came: reserveCandidate reads the clock under the state's lock.
ReceiptRespectsCutoff ==
  result.answer # NoAnswer =>
    /\ result.err = NoErr
    /\ result.id = original
    /\ result.at \in 1 .. now
    /\ Cutoff # 0 => result.at <= Cutoff

\* After Expire the state is decided unless a candidate observed before it is
\* still being decoded: nobody waits on Done for a reply that cannot come.
SealedIsDecided == expired => finished \/ reserved

\* No candidate is admitted after Expire, and the answer of a sealed state
\* comes from the candidate that was in hand when it was sealed.
NoAdmissionAfterSeal ==
  expired => ticket = sealTicket /\ (winner # 0 => winner = sealTicket)

\* An answer is published only under the latest ticket and never under one
\* that reject gave back: a late accept cannot revive a refused candidate.
StaleTicketCannotPublish ==
  winner # 0 =>
    /\ winner = ticket
    /\ winner \notin released
    /\ finished /\ result.answer # NoAnswer

\* Once taken, the decision, the done channel and the reservation never change
\* again, whatever late packet, timer or cleanup error arrives.
DecisionIsFinal == [][finished => UNCHANGED decisionVars]_vars

\* The abstract view: the reservation is the candidate, sealing closes admission.
Abstract == INSTANCE OneShotDecision WITH
  Receipts <- 1 .. MaxTime,
  Failures <- Errs \ {NoErr},
  NoFailure <- NoErr,
  NoCandidate <- 0,
  decision <- [answer |-> result.answer, at |-> result.at, err |-> result.err],
  candidate <- IF reserved THEN received ELSE 0,
  open <- ~sealed

\* receipt.go implements the one-shot decision: each of its steps observes,
\* discards, publishes, fails or closes admission, or leaves all three alone.
ImplementsOneShot == Abstract!Spec
=============================================================================
