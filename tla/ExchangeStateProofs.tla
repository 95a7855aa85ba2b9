------------------------ MODULE ExchangeStateProofs ------------------------
(***************************************************************************)
(* The receipt's invariants for every cutoff, clock bound and set of       *)
(* answers, and that receipt.go implements the one-shot decision.          *)
(***************************************************************************)
EXTENDS ExchangeState, TLAPS

\* What a reservation guarantees while its candidate is being decoded.
ReservationSound ==
  reserved =>
    /\ ~finished
    /\ started
    /\ ticket \notin released
    /\ received \in 1 .. now
    /\ Cutoff # 0 => received <= Cutoff

\* The history variables agree with the state they record.
HistorySound ==
  /\ released \subseteq 1 .. ticket
  /\ ticket # 0 => started
  /\ result.answer # NoAnswer <=> winner # 0
  /\ ~finished => winner = 0 /\ result = NoResult
  /\ now \in 1 .. MaxTime
  /\ reserved => ticket # 0
  /\ sealed <=> expired

\* The inductive invariant: the properties of the runs say nothing about a
\* candidate still being decoded, so they are strengthened by what a
\* reservation guarantees.
IInv ==
  /\ TypeOK
  /\ DoneMatchesDecision
  /\ ReceiptRespectsCutoff
  /\ SealedIsDecided
  /\ NoAdmissionAfterSeal
  /\ StaleTicketCannotPublish
  /\ ReservationSound
  /\ HistorySound

-----------------------------------------------------------------------------
\* The results the operations build are results, with the fields they are
\* built from.
LEMMA ResultFields ==
  /\ NoResult \in Results /\ NoResult.answer = NoAnswer /\ NoResult.err = NoErr
  /\ \A e \in Errs :
       /\ Failure(e) \in Results
       /\ Failure(e).answer = NoAnswer /\ Failure(e).err = e
  /\ \A a \in Answers, i, t \in Nat :
       /\ Response(a, i, t) \in Results
       /\ Response(a, i, t).answer = a /\ Response(a, i, t).id = i
       /\ Response(a, i, t).at = t /\ Response(a, i, t).err = NoErr
<1>1. NoErr \in Errs
  BY DEF Errs
<1>2. QED
  BY <1>1 DEF Results, NoResult, Failure, Response

\* The errors the state itself decides with are errors, and none is nil.
LEMMA OwnErrors ==
  /\ {DeadlineExceeded, ErrExchangeAbandoned, ErrNoReply} \subseteq Errs \ {NoErr}
  /\ WorkErrors \subseteq Errs \ {NoErr}
  BY ValuesAssumption DEF Errs, DeadlineExceeded, ErrExchangeAbandoned, ErrNoReply, NoErr

LEMMA InitIInv == Init => IInv
<1> SUFFICES ASSUME Init PROVE IInv
  OBVIOUS
<1>1. TypeOK
  BY ResultFields DEF Init, TypeOK
<1>2. HistorySound
  BY BoundsAssumption, ResultFields DEF Init, HistorySound
<1>3. QED
  BY <1>1, <1>2, ResultFields
  DEF Init, IInv, DoneMatchesDecision, ReceiptRespectsCutoff, SealedIsDecided,
      NoAdmissionAfterSeal, StaleTicketCannotPublish, ReservationSound

\* Deciding with an error keeps the invariant, whoever decides: completeLocked
\* is the only writer of the decision, and it does nothing the second time.
LEMMA FailureKeepsIInv ==
  ASSUME IInv, NEW e \in Errs \ {NoErr}, completeLocked(Failure(e)),
         UNCHANGED <<now, started, original, ticket, received, winner>>,
         sealed' \in BOOLEAN, expired' \in BOOLEAN, sealTicket' \in Nat, (sealed <=> expired)',
         expired' => ticket = sealTicket' /\ (winner # 0 => winner = sealTicket'),
         released' \subseteq 1 .. ticket, finished => released' = released
  PROVE  IInv'
<1> USE DEF IInv, TypeOK, HistorySound, StaleTicketCannotPublish
<1>1. CASE finished
  <2>1. UNCHANGED <<result, finished, reserved, closes, released>>
    BY <1>1 DEF completeLocked, FirstDecision, decisionVars
  <2>2. QED
    BY <1>1, <2>1 DEF DoneMatchesDecision, ReceiptRespectsCutoff, SealedIsDecided,
       NoAdmissionAfterSeal, ReservationSound
<1>2. CASE ~finished
  <2>1. /\ result' \in Results /\ result'.answer = NoAnswer /\ result'.err # NoErr
        /\ finished' = TRUE /\ reserved' = FALSE /\ closes' = 1 /\ winner = 0
    BY <1>2, ResultFields DEF completeLocked, FirstDecision, DoneMatchesDecision
  <2>2. released' \in SUBSET Nat
    OBVIOUS
  <2>2a. TypeOK'
    BY <2>1, <2>2
  <2>3. HistorySound'
    BY <2>1
  <2>4. QED
    BY <2>1, <2>2a, <2>3 DEF DoneMatchesDecision, ReceiptRespectsCutoff, SealedIsDecided,
       NoAdmissionAfterSeal, ReservationSound
<1>3. QED
  BY <1>1, <1>2

\* A step that leaves the state alone keeps the invariant.
LEMMA StutterKeepsIInv == IInv /\ UNCHANGED vars => IInv'
  BY DEF vars, decisionVars, history, IInv, TypeOK, DoneMatchesDecision,
     ReceiptRespectsCutoff, SealedIsDecided, NoAdmissionAfterSeal,
     StaleTicketCannotPublish, ReservationSound, HistorySound

LEMMA StepIInv == IInv /\ [Next]_vars => IInv'
<1> SUFFICES ASSUME IInv, [Next]_vars PROVE IInv'
  OBVIOUS
<1>a. /\ DeadlineExceeded \in Errs \ {NoErr} /\ ErrExchangeAbandoned \in Errs \ {NoErr}
      /\ ErrNoReply \in Errs \ {NoErr}
  BY OwnErrors
<1>1. CASE Tick
  BY <1>1, BoundsAssumption
  DEF Tick, decisionVars, history, IInv, TypeOK, DoneMatchesDecision, ReceiptRespectsCutoff,
      SealedIsDecided, NoAdmissionAfterSeal, StaleTicketCannotPublish, ReservationSound,
      HistorySound
<1>2. CASE Expire
  <2>1. CASE reserved
    BY <1>2, <2>1
    DEF Expire, SealAlways, decisionVars, IInv, TypeOK, DoneMatchesDecision, ReceiptRespectsCutoff,
        SealedIsDecided, NoAdmissionAfterSeal, StaleTicketCannotPublish, ReservationSound,
        HistorySound
  <2>2. CASE ~reserved
    BY <1>2, <2>2, <1>a, FailureKeepsIInv
    DEF Expire, SealAlways, IInv, TypeOK, NoAdmissionAfterSeal, StaleTicketCannotPublish, HistorySound
  <2>3. QED
    BY <2>1, <2>2
<1>3. CASE Abandon
  BY <1>3, <1>a, FailureKeepsIInv
  DEF Abandon, history, IInv, TypeOK, NoAdmissionAfterSeal, HistorySound
<1>4. ASSUME NEW id \in Ids, start(id) PROVE IInv'
  BY <1>4, BoundsAssumption
  DEF start, decisionVars, history, IInv, TypeOK, DoneMatchesDecision, ReceiptRespectsCutoff,
      SealedIsDecided, NoAdmissionAfterSeal, StaleTicketCannotPublish, ReservationSound,
      HistorySound
<1>5. ASSUME NEW w \in Wires, NEW udp \in BOOLEAN, started, reserve(w, udp) PROVE IInv'
  <2>1. CASE ~MayReserve(w, udp) \/ ~AdmissionOpen
    <3>1. UNCHANGED vars
      BY <1>5, <2>1 DEF reserve, reserveCandidate, vars, decisionVars, history
    <3>2. QED
      BY <3>1, StutterKeepsIInv
  <2>2. CASE MayReserve(w, udp) /\ AdmissionOpen /\ PastCutoff
    <3>1. /\ completeLocked(Failure(DeadlineExceeded))
          /\ UNCHANGED <<now, started, original, ticket, received, sealed, history>>
      BY <1>5, <2>2 DEF reserve, reserveCandidate, ObservedTooLate
    <3>2. QED
      BY <3>1, <1>a, FailureKeepsIInv
      DEF history, IInv, TypeOK, NoAdmissionAfterSeal, HistorySound
  <2>3. CASE MayReserve(w, udp) /\ AdmissionOpen /\ ~PastCutoff
    <3>1. /\ ticket' = ticket + 1 /\ reserved' = TRUE /\ received' = now
          /\ UNCHANGED <<result, finished, closes, now, started, original, sealed, history>>
          /\ ~finished /\ ~sealed /\ (Cutoff # 0 => now <= Cutoff)
      BY <1>5, <2>3, BoundsAssumption
      DEF reserve, reserveCandidate, ObservedTooLate, AdmissionOpen, PastCutoff, IInv, TypeOK
    <3>2. QED
      BY <1>5, <3>1 DEF history, IInv, TypeOK, DoneMatchesDecision, ReceiptRespectsCutoff,
         SealedIsDecided, NoAdmissionAfterSeal, StaleTicketCannotPublish, ReservationSound,
         HistorySound
  <2>4. QED
    BY <2>1, <2>2, <2>3
<1>6. ASSUME NEW t \in 1 .. ticket, reject(t) PROVE IInv'
  <2>1. CASE ~InHand(t)
    BY <1>6, <2>1, StutterKeepsIInv DEF reject
  <2>2. CASE InHand(t) /\ NothingLeft
    <3>1. /\ completeLocked(Failure(DeadlineExceeded))
          /\ UNCHANGED <<now, started, original, ticket, received, winner, sealed, expired, sealTicket>>
          /\ released' = released \cup {t} /\ ~finished
      BY <1>6, <2>2 DEF reject, InHand
    <3>2. released' \subseteq 1 .. ticket
      BY <3>1 DEF IInv, HistorySound
    <3>3. /\ (sealed <=> expired)' /\ sealed' \in BOOLEAN /\ expired' \in BOOLEAN
          /\ sealTicket' \in Nat
          /\ expired' => ticket = sealTicket' /\ (winner # 0 => winner = sealTicket')
      BY <3>1 DEF IInv, TypeOK, NoAdmissionAfterSeal, HistorySound
    <3>4. QED
      BY <3>1, <3>2, <3>3, <1>a, FailureKeepsIInv
  <2>3. CASE InHand(t) /\ ~NothingLeft
    BY <1>6, <2>3 DEF reject, InHand, NothingLeft, IInv, TypeOK, DoneMatchesDecision,
       ReceiptRespectsCutoff, SealedIsDecided, NoAdmissionAfterSeal,
       StaleTicketCannotPublish, ReservationSound, HistorySound
  <2>4. QED
    BY <2>1, <2>2, <2>3
<1>7. ASSUME NEW t \in 1 .. ticket, NEW a \in Answers, accept(t, a) PROVE IInv'
  <2>1. CASE ~InHand(t)
    BY <1>7, <2>1, StutterKeepsIInv DEF accept
  <2>2. CASE InHand(t)
    <3>1. /\ result' \in Results /\ result'.answer = a /\ result'.id = original
          /\ result'.at = received /\ result'.err = NoErr
      BY <1>7, <2>2, ResultFields
      DEF accept, InHand, completeLocked, FirstDecision, IInv, TypeOK
    <3>2. /\ finished' = TRUE /\ reserved' = FALSE /\ closes' = 1 /\ winner' = ticket
          /\ UNCHANGED <<now, started, original, ticket, received, sealed, expired, sealTicket, released>>
          /\ ~finished /\ reserved /\ a # NoAnswer
      BY <1>7, <2>2, ValuesAssumption
      DEF accept, InHand, completeLocked, FirstDecision, IInv, DoneMatchesDecision
    <3>3. QED
      BY <3>1, <3>2 DEF IInv, TypeOK, DoneMatchesDecision, ReceiptRespectsCutoff,
         SealedIsDecided, NoAdmissionAfterSeal, StaleTicketCannotPublish, ReservationSound,
         HistorySound
  <2>3. QED
    BY <2>1, <2>2
<1>8. ASSUME NEW e \in WorkErrors \cup {NoErr}, started, finish(e) PROVE IInv'
  <2>1. (IF e = NoErr THEN ErrNoReply ELSE e) \in Errs \ {NoErr}
    BY <1>a, OwnErrors
  <2>2. QED
    BY <1>8, <2>1, FailureKeepsIInv
    DEF finish, history, IInv, TypeOK, NoAdmissionAfterSeal, HistorySound
<1>9. CASE UNCHANGED vars
  BY <1>9, StutterKeepsIInv
<1>10. QED
  BY <1>1, <1>2, <1>3, <1>4, <1>5, <1>6, <1>7, <1>8, <1>9 DEF Next
-----------------------------------------------------------------------------
\* The strengthened invariant holds in every reachable state.
LEMMA Invariance == Spec => []IInv
<1>1. Init => IInv
  BY InitIInv
<1>2. IInv /\ [Next]_vars => IInv'
  BY StepIInv
<1>3. QED
  BY <1>1, <1>2, PTL DEF Spec

\* Every field of ExchangeState keeps the type receipt.go declares.
THEOREM TypeCorrect == Spec => []TypeOK
<1>1. IInv => TypeOK
  BY DEF IInv
<1>2. QED
  BY <1>1, Invariance, PTL

\* close(s.done) runs once, exactly when the decision is made, so no order of
\* Expire, Abandon, accept and finish panics or leaves Done out of step.
THEOREM DoneOnce == Spec => []DoneMatchesDecision
<1>1. IInv => DoneMatchesDecision
  BY DEF IInv
<1>2. QED
  BY <1>1, Invariance, PTL

\* A published answer was observed by the cutoff and carries the caller's
\* identifier, for every cutoff and every interleaving with the timer.
THEOREM TimelyReceipt == Spec => []ReceiptRespectsCutoff
<1>1. IInv => ReceiptRespectsCutoff
  BY DEF IInv
<1>2. QED
  BY <1>1, Invariance, PTL

\* Expire decides unless a candidate is in hand, and admits nothing after it.
THEOREM ExpireSeals == Spec => [](SealedIsDecided /\ NoAdmissionAfterSeal)
<1>1. IInv => SealedIsDecided /\ NoAdmissionAfterSeal
  BY DEF IInv
<1>2. QED
  BY <1>1, Invariance, PTL

\* A ticket that reject gave back never publishes an answer.
THEOREM RefusedStaysRefused == Spec => []StaleTicketCannotPublish
<1>1. IInv => StaleTicketCannotPublish
  BY DEF IInv
<1>2. QED
  BY <1>1, Invariance, PTL

\* No operation changes a decision that was made: completeLocked acts once and
\* the reservation is gone by then.
THEOREM Finality == Spec => DecisionIsFinal
<1>1. IInv /\ [Next]_vars => [finished => UNCHANGED decisionVars]_vars
  <2> SUFFICES ASSUME IInv, Next, finished PROVE UNCHANGED decisionVars
    BY DEF vars
  <2>1. ~reserved
    BY DEF IInv, ReservationSound
  <2>2. QED
    BY <2>1 DEF Next, Tick, Expire, Abandon, start, reserve, reserveCandidate, AdmissionOpen,
       reject, accept, InHand, finish, completeLocked, FirstDecision, vars
<1>2. QED
  BY <1>1, Invariance, PTL DEF Spec, DecisionIsFinal

-----------------------------------------------------------------------------
\* The three components of the abstract state.
Decided == [answer |-> result.answer, at |-> result.at, err |-> result.err]
Candidate == IF reserved THEN received ELSE 0

\* What the abstract state looks like before a decision, and that deciding
\* with an error is the abstract failure.
LEMMA AbstractValues ==
  /\ result = NoResult => Decided = Abstract!Undecided
  /\ \A e \in Errs : result' = Failure(e) => Decided' = Abstract!Failed(e)
  /\ \A a \in Answers, i, t \in Nat :
       result' = Response(a, i, t) => Decided' = Abstract!Answered(a, t)
  /\ \A e \in Errs \ {NoErr} : Abstract!Failed(e) # Abstract!Undecided
  BY DEF Decided, NoResult, Failure, Response, Abstract!Undecided, Abstract!Failed,
     Abstract!Answered

\* A step that decides with error e, if nothing was decided, is an abstract
\* failure or changes nothing.
LEMMA FailureRefines ==
  ASSUME IInv, NEW e \in Errs \ {NoErr}, completeLocked(Failure(e)),
         UNCHANGED <<received, sealed>>
  PROVE  Abstract!Next \/ UNCHANGED Abstract!absVars
<1>1. CASE finished
  BY <1>1 DEF completeLocked, FirstDecision, decisionVars, Abstract!absVars
<1>2. CASE ~finished
  <2>1. /\ Decided = Abstract!Undecided /\ Decided' = Abstract!Failed(e)
        /\ Candidate' = 0 /\ UNCHANGED sealed
    BY <1>2, AbstractValues
    DEF completeLocked, FirstDecision, IInv, HistorySound, Candidate
  <2>2. Abstract!Fail(e)
    BY <2>1 DEF Abstract!Fail, Decided, Candidate
  <2>3. QED
    BY <2>2 DEF Abstract!Next
<1>3. QED
  BY <1>1, <1>2

\* Every step of receipt.go is a step of the one-shot decision or leaves it alone.
LEMMA StepRefines ==
  IInv /\ [Next]_vars => Abstract!Next \/ UNCHANGED Abstract!absVars
<1> SUFFICES ASSUME IInv, [Next]_vars
             PROVE  Abstract!Next \/ UNCHANGED Abstract!absVars
  OBVIOUS
<1>a. /\ DeadlineExceeded \in Errs \ {NoErr} /\ ErrExchangeAbandoned \in Errs \ {NoErr}
      /\ ErrNoReply \in Errs \ {NoErr}
  BY OwnErrors
<1>b. /\ reserved => received # 0
      /\ finished => Decided # Abstract!Undecided
      /\ ~finished => Decided = Abstract!Undecided
  <2>1. ~finished => Decided = Abstract!Undecided
    BY AbstractValues DEF IInv, HistorySound
  <2>2. finished => Decided.answer # NoAnswer \/ Decided.err # NoErr
    BY DEF IInv, DoneMatchesDecision, Decided
  <2>3. Abstract!Undecided.answer = NoAnswer /\ Abstract!Undecided.err = NoErr
    BY DEF Abstract!Undecided
  <2>4. QED
    BY <2>1, <2>2, <2>3 DEF IInv, ReservationSound, TypeOK
<1>1. CASE Tick
  BY <1>1 DEF Tick, decisionVars, Abstract!absVars
<1>2. CASE Expire
  <2>1. CASE reserved
    <3>1. Abstract!Close
      BY <1>2, <2>1, <1>b DEF Expire, SealAlways, decisionVars, Abstract!Close
    <3>2. QED
      BY <3>1 DEF Abstract!Next
  <2>2. CASE ~reserved /\ finished
    <3>1. Abstract!Close
      BY <1>2, <2>2, <1>b
      DEF Expire, SealAlways, decisionVars, completeLocked, FirstDecision, Abstract!Close, Decided
    <3>2. QED
      BY <3>1 DEF Abstract!Next
  <2>3. CASE ~reserved /\ ~finished
    <3>1. Decided' = Abstract!Failed(DeadlineExceeded) /\ sealed' = TRUE
          /\ reserved' = FALSE
      BY <1>2, <2>3, <1>a, AbstractValues DEF Expire, SealAlways, completeLocked, FirstDecision
    <3>2. Abstract!Close
      BY <3>1, <2>3, <1>a, <1>b DEF Abstract!Close, Decided
    <3>3. QED
      BY <3>2 DEF Abstract!Next
  <2>4. QED
    BY <2>1, <2>2, <2>3
<1>3. CASE Abandon
  BY <1>3, <1>a, FailureRefines DEF Abandon
<1>4. ASSUME NEW id \in Ids, start(id) PROVE UNCHANGED Abstract!absVars
  BY <1>4 DEF start, decisionVars, Abstract!absVars
<1>5. ASSUME NEW w \in Wires, NEW udp \in BOOLEAN, reserve(w, udp)
      PROVE  Abstract!Next \/ UNCHANGED Abstract!absVars
  <2>1. CASE ~MayReserve(w, udp) \/ ~AdmissionOpen
    BY <1>5, <2>1 DEF reserve, reserveCandidate, vars, decisionVars, Abstract!absVars
  <2>2. CASE MayReserve(w, udp) /\ AdmissionOpen /\ PastCutoff
    BY <1>5, <2>2, <1>a, FailureRefines DEF reserve, reserveCandidate, ObservedTooLate
  <2>3. CASE MayReserve(w, udp) /\ AdmissionOpen /\ ~PastCutoff
    <3>1. Abstract!Observe(now)
      BY <1>5, <2>3, <1>b
      DEF reserve, reserveCandidate, ObservedTooLate, AdmissionOpen, Abstract!Observe, Decided
    <3>2. QED
      BY <3>1 DEF Abstract!Next, IInv, HistorySound
  <2>4. QED
    BY <2>1, <2>2, <2>3
<1>6. ASSUME NEW t \in 1 .. ticket, reject(t)
      PROVE  Abstract!Next \/ UNCHANGED Abstract!absVars
  <2>1. CASE ~InHand(t)
    BY <1>6, <2>1 DEF reject, vars, decisionVars, Abstract!absVars
  <2>2. CASE InHand(t) /\ NothingLeft
    BY <1>6, <2>2, <1>a, FailureRefines DEF reject
  <2>3. CASE InHand(t) /\ ~NothingLeft
    <3>1. Abstract!Discard
      BY <1>6, <2>3, <1>b DEF reject, InHand, NothingLeft, Abstract!Discard
    <3>2. QED
      BY <3>1 DEF Abstract!Next
  <2>4. QED
    BY <2>1, <2>2, <2>3
<1>7. ASSUME NEW t \in 1 .. ticket, NEW a \in Answers, accept(t, a)
      PROVE  Abstract!Next \/ UNCHANGED Abstract!absVars
  <2>1. CASE ~InHand(t)
    BY <1>7, <2>1 DEF accept, vars, decisionVars, Abstract!absVars
  <2>2. CASE InHand(t)
    <3>1. /\ Decided' = Abstract!Answered(a, received)
          /\ reserved /\ reserved' = FALSE /\ UNCHANGED sealed
      BY <1>7, <2>2, AbstractValues
      DEF accept, InHand, completeLocked, FirstDecision, IInv, TypeOK
    <3>2. Abstract!Publish(a)
      BY <3>1, <1>b DEF Abstract!Publish, Decided
    <3>3. QED
      BY <3>2 DEF Abstract!Next
  <2>3. QED
    BY <2>1, <2>2
<1>8. ASSUME NEW e \in WorkErrors \cup {NoErr}, finish(e)
      PROVE  Abstract!Next \/ UNCHANGED Abstract!absVars
  <2>1. (IF e = NoErr THEN ErrNoReply ELSE e) \in Errs \ {NoErr}
    BY <1>a, OwnErrors
  <2>2. QED
    BY <1>8, <2>1, FailureRefines DEF finish
<1>9. CASE UNCHANGED vars
  BY <1>9 DEF vars, decisionVars, Abstract!absVars
<1>10. QED
  BY <1>1, <1>2, <1>3, <1>4, <1>5, <1>6, <1>7, <1>8, <1>9 DEF Next

\* receipt.go implements the one-shot decision for every cutoff, every set of
\* answers and every interleaving of the worker with its group.
THEOREM Refinement == Spec => ImplementsOneShot
<1>1. Init => Abstract!Init
  BY DEF Init, NoResult, Abstract!Init, Abstract!Undecided
<1>2. IInv /\ [Next]_vars => [Abstract!Next]_(Abstract!absVars)
  BY StepRefines
<1>3. QED
  BY <1>1, <1>2, Invariance, PTL DEF Spec, ImplementsOneShot, Abstract!Spec
=============================================================================
