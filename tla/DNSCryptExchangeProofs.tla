----------------------- MODULE DNSCryptExchangeProofs -----------------------
(***************************************************************************)
(* A DNSCrypt exchange uses its receipt the way receipt.go means it to be  *)
(* used, and agrees with it on the outcome, for every cutoff, every number *)
(* of records and stray datagrams, and every interleaving with the group.  *)
(***************************************************************************)
EXTENDS DNSCryptExchange, ExchangeStateProofs

\* The receipt's parameters, as an exchange needs them: one reservation for each
\* transport, the labels of the two, the errors of the exchange.
Suffices ==
  /\ MaxTickets >= 2
  /\ {"udp", "tcp"} \subseteq Answers
  /\ {"timeout", "conn", "other", "protocol"} \subseteq WorkErrors

Opening == {"call", "certificate", "fetch", "chosen"}
Asking == {"dial", "write", "read"}
Closing == {"close", "fallback", "finish", "returned"}

WorkerTypes ==
  /\ at \in Opening \cup Asking \cup {"decode"} \cup Closing
  /\ udp \in BOOLEAN /\ held \in Nat /\ dropped \in BOOLEAN
  /\ err \in {Nil, "timeout", "conn", "other", "protocol"}

\* One reservation per transport, made between the call and its return.
TicketsUsed ==
  /\ at # "call" => started
  /\ at \in Opening => udp
  /\ udp => ticket <= 1
  /\ udp /\ at \in Opening \cup Asking => ticket = 0
  /\ at \in Asking => ticket <= 1
  /\ ticket <= 2

\* A reservation belongs to the ciphertext being opened; without one, the receipt
\* is decided or sealed.
Holding ==
  /\ held # 0 => at = "decode" /\ held <= ticket
  /\ reserved => at = "decode" /\ held = ticket
  /\ at = "decode" => reserved \/ finished \/ sealed

\* What the receipt has is what the worker is about to return.
Agreement ==
  /\ result.answer # NoAnswer =>
       at \in Closing /\ resp \in Msgs /\ Final(resp) /\ result.answer = LabelOf(resp)
  /\ at = "close" /\ err = Nil => resp \in Msgs /\ Valid(resp)
  /\ at = "fallback" /\ err = Nil => resp \in Msgs /\ Valid(resp)
  /\ at \in {"finish", "returned"} /\ err = Nil => resp \in Msgs /\ Final(resp)
  /\ at \in Closing /\ resp \in Msgs /\ Final(resp) /\ ~sealed /\ ~dropped /\ ~PastCutoff =>
       result.answer # NoAnswer \/ err # Nil
  /\ finished => sealed \/ dropped \/ PastCutoff \/ result.answer # NoAnswer \/ at = "returned"

\* The inductive invariant of the exchange, on top of the receipt's own.
CryptInv == IInv /\ WorkerTypes /\ TicketsUsed /\ Holding /\ Agreement

-----------------------------------------------------------------------------
\* The exchange starts with a fresh receipt.
LEMMA CryptInitInv == CryptInit => CryptInv
<1> SUFFICES ASSUME CryptInit PROVE CryptInv
  OBVIOUS
<1>1. IInv
  BY InitIInv DEF CryptInit
<1>2. /\ WorkerTypes
      /\ TicketsUsed
      /\ Holding
  <2>1. WorkerTypes
    BY DEF CryptInit, WorkerTypes, Opening, Nil
  <2>2. TicketsUsed
    BY DEF CryptInit, Init, TicketsUsed
  <2>3. Holding
    BY DEF CryptInit, Init, Holding
  <2>4. QED
    BY <2>1, <2>2, <2>3
<1>3. Agreement
  BY ResultFields DEF CryptInit, Init, Agreement, Closing
<1>4. QED
  BY <1>1, <1>2, <1>3 DEF CryptInv

\* Every step of the exchange is a step of the receipt's users, or leaves the
\* receipt alone.
LEMMA CryptStepRefines ==
  ASSUME Suffices, CryptInv, [CryptNext]_exchangeVars
  PROVE  [Next]_vars
<1>1. CASE UNCHANGED exchangeVars
  BY <1>1 DEF exchangeVars, vars
<1>2. CASE ExchangeCall
  BY <1>2 DEF ExchangeCall, Next
<1>3. CASE \/ UseShared \/ NoCertificate \/ FetchCert \/ SkipStray \/ FetchFails
           \/ \E answer \in AnswersOf : ReadAnswer(answer)
           \/ VerifyCert \/ Dial \/ Write \/ ReadError \/ CloseConn \/ Fallback
  BY <1>3 DEF UseShared, NoCertificate, FetchCert, SkipStray, FetchFails, ReadAnswer,
              VerifyCert, Dial, Write, ReadError, CloseConn, Fallback
<1>4. CASE Received
  <2>1. started /\ ticket < MaxTickets
    BY <1>4, BoundsAssumption
    DEF Received, CryptInv, IInv, TypeOK, TicketsUsed, Suffices, Asking
  <2>2. DEFINE w == [whole |-> TRUE, sameId |-> TRUE, qr |-> TRUE, tc |-> FALSE]
  <2>3. w \in Wires /\ MayReserve(w, FALSE)
    BY DEF Wires, MayReserve
  <2>4. reserve(w, FALSE)
    BY <2>3, <1>4 DEF reserve, Received
  <2> HIDE DEF w
  <2>5. QED
    BY <2>1, <2>3, <2>4 DEF Next
<1>5. CASE \E m \in Msgs : Decoded(m)
  <2> PICK m \in Msgs : Decoded(m)
    BY <1>5
  <2>1. CASE held = 0
    BY <2>1 DEF Decoded
  <2>2. CASE held # 0
    <3>1. held \in 1 .. ticket
      BY <2>2 DEF CryptInv, IInv, TypeOK, WorkerTypes, Holding
    <3>2. CASE Final(m)
      <4>1. LabelOf(m) \in Answers
        BY <3>2 DEF LabelOf, Final, Suffices
      <4>2. accept(held, LabelOf(m))
        BY <2>2, <3>2 DEF Decoded
      <4>3. QED
        BY <3>1, <4>1, <4>2 DEF Next
    <3>3. CASE ~Final(m)
      <4>1. reject(held)
        BY <2>2, <3>3 DEF Decoded
      <4>2. QED
        BY <3>1, <4>1 DEF Next
    <3>4. QED
      BY <3>2, <3>3
  <2>3. QED
    BY <2>1, <2>2
<1>6. CASE Finish
  <2>1. started /\ err \in WorkErrors \cup {NoErr}
    BY <1>6 DEF Finish, CryptInv, WorkerTypes, TicketsUsed, Suffices, Nil, NoErr
  <2>2. finish(err)
    BY <1>6 DEF Finish
  <2>3. QED
    BY <2>1, <2>2 DEF Next
<1>7. CASE Others
  BY <1>7 DEF Others, Next
<1>8. QED
  BY <1>1, <1>2, <1>3, <1>4, <1>5, <1>6, <1>7 DEF CryptNext, Worker

-----------------------------------------------------------------------------
\* A step of the worker that fails before there is a reply, or goes on to the next
\* question, and leaves the receipt alone.
LEMMA QuietStep ==
  ASSUME CryptInv, UNCHANGED <<vars, udp, held, dropped>>,
         at \in Opening \cup Asking, at # "call",
         \/ /\ at' \in Asking \/ (at \in Opening /\ at' \in Opening \ {"call"})
            /\ UNCHANGED <<resp, err>>
         \/ /\ at' \in {"close", "finish"} /\ resp' = NoMsg
            /\ err' \in {"timeout", "conn", "other", "protocol"}
  PROVE  WorkerTypes' /\ TicketsUsed' /\ Holding' /\ Agreement'
<1> USE DEF CryptInv, vars, decisionVars, history
<1>1. WorkerTypes'
  BY DEF WorkerTypes, Opening, Asking, Closing, Nil
<1>2. TicketsUsed'
  BY DEF TicketsUsed, Opening, Asking
<1>3. Holding'
  BY DEF Holding, Opening, Asking
<1>4. result.answer = NoAnswer
  BY DEF Agreement, Opening, Asking, Closing
<1>5. Agreement'
  BY <1>4 DEF Agreement, Opening, Asking, Closing, PastCutoff, Nil
<1>6. QED
  BY <1>1, <1>2, <1>3, <1>5

\* The reservation step: only a receipt that is decided or sealed refuses it.
LEMMA ReceivedStep ==
  ASSUME CryptInv, Received
  PROVE  WorkerTypes' /\ TicketsUsed' /\ Holding' /\ Agreement'
<1>1. at = "read" /\ at' = "decode" /\ held' = Issued /\ reserveCandidate
      /\ UNCHANGED <<udp, resp, err, dropped, now, sealed, started>>
  BY DEF Received, reserveCandidate
<1>2. ~reserved /\ result.answer = NoAnswer /\ started
  BY <1>1 DEF CryptInv, Holding, Agreement, TicketsUsed, Closing
<1>3. result'.answer = NoAnswer
  BY <1>1, <1>2, ResultFields, OwnErrors
  DEF reserveCandidate, completeLocked, decisionVars
<1>4. /\ ticket \in Nat /\ (ticket' = ticket \/ ticket' = ticket + 1)
      /\ held' = 0 \/ held' = ticket'
      /\ reserved' => held' = ticket'
      /\ reserved' \/ finished' \/ sealed'
  BY <1>1, <1>2
  DEF reserveCandidate, completeLocked, decisionVars, Issued, AdmissionOpen, FirstDecision,
      CryptInv, IInv, TypeOK
<1>5. WorkerTypes'
  BY <1>1, <1>4 DEF CryptInv, WorkerTypes
<1>6. TicketsUsed'
  BY <1>1, <1>2, <1>4 DEF CryptInv, TicketsUsed, Opening, Asking
<1>7. Holding'
  BY <1>1, <1>4 DEF Holding
<1>8. finished' => finished \/ PastCutoff
  BY <1>1
  DEF reserveCandidate, completeLocked, decisionVars, ObservedTooLate
<1>9. Agreement'
  BY <1>1, <1>2, <1>3, <1>8 DEF CryptInv, Agreement, Closing, PastCutoff
<1>10. QED
  BY <1>5, <1>6, <1>7, <1>9

\* The end of opening: an answer is published exactly when it is returned.
LEMMA DecodedStep ==
  ASSUME CryptInv, NEW m \in Msgs, Decoded(m)
  PROVE  WorkerTypes' /\ TicketsUsed' /\ Holding' /\ Agreement'
<1>1. /\ at = "decode" /\ at' = "close" /\ held' = 0
      /\ UNCHANGED <<udp, dropped, now, sealed, started, ticket>>
  BY DEF Decoded, Fails, accept, reject, vars
<1>2. result.answer = NoAnswer
  BY <1>1 DEF CryptInv, Agreement, Closing
<1>3. \/ Valid(m) /\ resp' = m /\ err' = err
      \/ ~Valid(m) /\ resp' = NoMsg /\ err' = "protocol"
  BY DEF Decoded, Fails
<1>4. reserved => ~finished /\ held = ticket /\ held # 0
  BY DEF CryptInv, IInv, ReservationSound, HistorySound, Holding
<1>5. ~reserved'
  BY <1>4 DEF Decoded, accept, reject, InHand, completeLocked, FirstDecision, vars, decisionVars
<1>6. CASE reserved /\ Final(m)
  <2>1. result' = Response(LabelOf(m), original, received) /\ finished'
    BY <1>4, <1>6 DEF Decoded, accept, InHand, completeLocked, FirstDecision
  <2>2. result'.answer = LabelOf(m) /\ LabelOf(m) # NoAnswer
    BY <2>1 DEF Response, LabelOf, NoAnswer
  <2>3. Agreement'
    BY <1>1, <1>3, <1>6, <2>2 DEF CryptInv, Agreement, Closing, Final, Valid, LabelOf, Nil
  <2>4. QED
    BY <1>1, <1>3, <1>5, <2>3
    DEF CryptInv, WorkerTypes, TicketsUsed, Holding, Opening, Asking, Closing
<1>7. CASE reserved /\ ~Final(m)
  <2>1. result'.answer = NoAnswer /\ (finished' => sealed \/ PastCutoff)
    BY <1>2, <1>4, <1>7, ResultFields, OwnErrors
    DEF Decoded, reject, InHand, completeLocked, FirstDecision, NothingLeft
  <2>2. Agreement'
    BY <1>1, <1>3, <1>7, <2>1 DEF CryptInv, Agreement, Closing, Final, Valid, PastCutoff, Nil
  <2>3. QED
    BY <1>1, <1>3, <1>5, <2>2
    DEF CryptInv, WorkerTypes, TicketsUsed, Holding, Opening, Asking, Closing
<1>8. CASE ~reserved
  <2>1. UNCHANGED vars
    BY <1>8 DEF Decoded, accept, reject, InHand
  <2>2. sealed \/ dropped \/ PastCutoff
    BY <1>1, <1>2, <1>8 DEF CryptInv, Holding, Agreement
  <2>3. result'.answer = NoAnswer /\ (sealed \/ dropped \/ PastCutoff)'
    BY <1>1, <1>2, <2>1, <2>2 DEF PastCutoff, vars, decisionVars
  <2>4. err' = Nil => resp' \in Msgs /\ Valid(resp)'
    BY <1>1, <1>3 DEF Valid, Nil
  <2>5. Agreement'
    BY <1>1, <2>3, <2>4 DEF Agreement
  <2>6. QED
    BY <1>1, <1>3, <1>5, <2>5
    DEF CryptInv, WorkerTypes, TicketsUsed, Holding, Opening, Asking, Closing
<1>9. QED
  BY <1>6, <1>7, <1>8

\* Closing the socket, and the choice between TCP and the end.
LEMMA ClosingStep ==
  ASSUME CryptInv, CloseConn \/ Fallback
  PROVE  WorkerTypes' /\ TicketsUsed' /\ Holding' /\ Agreement'
<1> USE DEF CryptInv, vars, decisionVars, history
<1>1. CASE CloseConn
  <2>1. WorkerTypes' /\ TicketsUsed' /\ Holding'
    BY <1>1 DEF CloseConn, WorkerTypes, TicketsUsed, Holding, Opening, Asking, Closing, Nil
  <2>2. Agreement'
    BY <1>1 DEF CloseConn, Agreement, Closing, Final, Valid, LabelOf, PastCutoff, Nil
  <2>3. QED
    BY <2>1, <2>2
<1>2. CASE Fallback /\ ContinuesOverTCP
  <2>1. ticket <= 1 /\ ~Final(resp)
    BY <1>2 DEF ContinuesOverTCP, TicketsUsed, Final
  <2>2. WorkerTypes' /\ TicketsUsed' /\ Holding'
    BY <1>2, <2>1 DEF Fallback, IInv, TypeOK, WorkerTypes, TicketsUsed, Holding, Opening, Asking, Closing
  <2>3. Agreement'
    BY <1>2, <2>1 DEF Fallback, Agreement, Closing, PastCutoff
  <2>4. QED
    BY <2>2, <2>3
<1>3. CASE Fallback /\ ~ContinuesOverTCP
  <2>1. err = Nil => resp \in Msgs /\ Final(resp)
    BY <1>3 DEF Fallback, ContinuesOverTCP, Agreement, Final
  <2>2. WorkerTypes' /\ TicketsUsed' /\ Holding'
    BY <1>3 DEF Fallback, WorkerTypes, TicketsUsed, Holding, Opening, Asking, Closing
  <2>3. Agreement'
    BY <1>3, <2>1 DEF Fallback, Agreement, Closing, Final, Valid, LabelOf, PastCutoff
  <2>4. QED
    BY <2>2, <2>3
<1>4. QED
  BY <1>1, <1>2, <1>3

\* The return: finish decides what nothing else has decided, never for a reply.
LEMMA FinishStep ==
  ASSUME CryptInv, Finish
  PROVE  WorkerTypes' /\ TicketsUsed' /\ Holding' /\ Agreement'
<1>1. /\ at = "finish" /\ at' = "returned"
      /\ UNCHANGED <<udp, held, resp, err, dropped, now, sealed, started, ticket>>
  BY DEF Finish, finish
<1>2. /\ result.answer # NoAnswer => result' = result
      /\ result.answer = NoAnswer => result'.answer = NoAnswer
      /\ ~reserved'
  <2>1. ~finished => result.answer = NoAnswer
    BY ResultFields DEF CryptInv, IInv, HistorySound
  <2>2. ~reserved
    BY <1>1 DEF CryptInv, Holding
  <2>3. Failure(IF err = NoErr THEN ErrNoReply ELSE err).answer = NoAnswer
    BY DEF Failure
  <2>4. QED
    BY <2>1, <2>2, <2>3 DEF Finish, finish, completeLocked, FirstDecision, decisionVars
<1>3. WorkerTypes' /\ TicketsUsed' /\ Holding'
  BY <1>1, <1>2 DEF CryptInv, WorkerTypes, TicketsUsed, Holding, Opening, Asking, Closing
<1>4. Agreement'
  BY <1>1, <1>2 DEF CryptInv, Agreement, Closing, Final, Valid, LabelOf, PastCutoff
<1>5. QED
  BY <1>3, <1>4

\* The group and the clock decide the receipt or end its admission, never with an
\* answer; the worker does not notice.
LEMMA OthersStep ==
  ASSUME CryptInv, Others
  PROVE  WorkerTypes' /\ TicketsUsed' /\ Holding' /\ Agreement'
<1>1. UNCHANGED <<at, udp, held, resp, err, ticket, started>>
  BY DEF Others, stepVars, Expire, Tick, Abandon
<1>2. /\ result.answer # NoAnswer => result' = result
      /\ result.answer = NoAnswer => result'.answer = NoAnswer
  <2>1. ~finished => result.answer = NoAnswer
    BY ResultFields DEF CryptInv, IInv, HistorySound
  <2>2. \A e : Failure(e).answer = NoAnswer
    BY DEF Failure
  <2>3. QED
    BY <2>1, <2>2
    DEF Others, Expire, Tick, Abandon, completeLocked, FirstDecision, decisionVars
<1>3. /\ sealed => sealed'
      /\ dropped => dropped'
      /\ PastCutoff => PastCutoff'
  BY BoundsAssumption
  DEF Others, Expire, Tick, Abandon, SealAlways, PastCutoff, CryptInv, IInv, TypeOK
<1>4. /\ reserved' => reserved
      /\ reserved \/ finished \/ sealed => reserved' \/ finished' \/ sealed'
      /\ finished' => finished \/ sealed' \/ dropped'
  BY DEF Others, Expire, Tick, Abandon, SealAlways, completeLocked, FirstDecision, decisionVars
<1>5. dropped' \in BOOLEAN
  BY DEF Others, CryptInv, WorkerTypes
<1>6. WorkerTypes' /\ TicketsUsed' /\ Holding'
  BY <1>1, <1>4, <1>5 DEF CryptInv, WorkerTypes, TicketsUsed, Holding
<1>7. Agreement'
  BY <1>1, <1>2, <1>3, <1>4 DEF CryptInv, Agreement, Final, Valid, LabelOf
<1>8. QED
  BY <1>6, <1>7

\* Every step keeps the invariant.
LEMMA CryptStepInv ==
  ASSUME Suffices, CryptInv, [CryptNext]_exchangeVars
  PROVE  CryptInv'
<1>1. IInv'
  BY CryptStepRefines, StepIInv DEF CryptInv
<1>2. WorkerTypes' /\ TicketsUsed' /\ Holding' /\ Agreement'
  <2>1. CASE UNCHANGED exchangeVars
    <3>1. WorkerTypes'
      BY <2>1 DEF exchangeVars, stepVars, vars, CryptInv, WorkerTypes
    <3>2. TicketsUsed'
      BY <2>1 DEF exchangeVars, stepVars, vars, CryptInv, TicketsUsed
    <3>3. Holding'
      BY <2>1 DEF exchangeVars, stepVars, vars, decisionVars, CryptInv, Holding
    <3>4. Agreement'
      <4>1. UNCHANGED <<at, resp, err, result, finished, sealed, dropped, udp, now>>
        BY <2>1 DEF exchangeVars, stepVars, vars, decisionVars
      <4>2. \A m : /\ Final(m)' = Final(m) /\ Valid(m)' = Valid(m) /\ LabelOf(m)' = LabelOf(m)
        BY <4>1 DEF Final, Valid, LabelOf
      <4> QED BY <4>1, <4>2 DEF CryptInv, Agreement, PastCutoff
    <3> QED BY <3>1, <3>2, <3>3, <3>4
  <2>2. CASE ExchangeCall
    <3>1. result.answer = NoAnswer /\ udp /\ ticket = 0
      BY <2>2 DEF ExchangeCall, CryptInv, Agreement, Closing, TicketsUsed, Opening
    <3>2. WorkerTypes' /\ TicketsUsed' /\ Holding'
      <4>1. /\ at = "call" /\ at' = "certificate" /\ started'
            /\ UNCHANGED <<udp, held, err, dropped, ticket, reserved>>
        BY <2>2 DEF ExchangeCall, start, decisionVars
      <4>2. WorkerTypes'
        BY <4>1 DEF CryptInv, WorkerTypes, Opening
      <4>3. TicketsUsed'
        BY <3>1, <4>1 DEF TicketsUsed
      <4>4. Holding'
        BY <4>1 DEF CryptInv, Holding
      <4> QED BY <4>2, <4>3, <4>4
    <3>3. Agreement'
      <4>1. at' = "certificate" /\ at = "call" /\ UNCHANGED <<result, finished, sealed, dropped, now>>
        BY <2>2 DEF ExchangeCall, start, decisionVars
      <4>2. finished => sealed \/ dropped \/ PastCutoff
        BY <3>1, <4>1 DEF CryptInv, Agreement
      <4> QED BY <3>1, <4>1, <4>2 DEF Agreement, Closing, PastCutoff
    <3>4. QED
      BY <3>2, <3>3
  <2>3. CASE \/ UseShared \/ NoCertificate \/ FetchCert \/ SkipStray \/ FetchFails
             \/ \E answer \in AnswersOf : ReadAnswer(answer)
             \/ VerifyCert
    BY <2>3, QuietStep
    DEF UseShared, NoCertificate, FetchCert, SkipStray, FetchFails, ReadAnswer, VerifyCert,
        Fails, IOErrors, Opening, Asking
  <2>4. CASE Dial \/ Write \/ ReadError
    BY <2>4, QuietStep DEF Dial, Write, ReadError, Fails, IOErrors, Opening, Asking
  <2>5. CASE Received
    BY <2>5, ReceivedStep
  <2>6. CASE \E m \in Msgs : Decoded(m)
    BY <2>6, DecodedStep
  <2>7. CASE CloseConn \/ Fallback
    BY <2>7, ClosingStep
  <2>8. CASE Finish
    BY <2>8, FinishStep
  <2>9. CASE Others
    BY <2>9, OthersStep
  <2>10. QED
    BY <2>1, <2>2, <2>3, <2>4, <2>5, <2>6, <2>7, <2>8, <2>9 DEF CryptNext, Worker
<1>3. QED
  BY <1>1, <1>2 DEF CryptInv

-----------------------------------------------------------------------------
\* dnscrypt.go keeps the receipt's protocol: whatever the network and the group do,
\* it starts the receipt once before it reserves, answers each reservation with the
\* ticket it was given, and finishes; so every theorem about receipt.go applies.
THEOREM UsesReceipt ==
  ASSUME Suffices
  PROVE  CryptSpec => Spec
<1>1. CryptInit => CryptInv /\ Init
  BY CryptInitInv DEF CryptInit
<1>2. CryptInv /\ [CryptNext]_exchangeVars => CryptInv' /\ [Next]_vars
  BY CryptStepInv, CryptStepRefines
<1>3. QED
  BY <1>1, <1>2, PTL DEF CryptSpec, Spec

\* The response a DNSCrypt exchange publishes was on the wire before the cutoff and
\* carries the caller's identifier, however long its decryption took.
THEOREM TimelyCryptReceipt ==
  ASSUME Suffices
  PROVE  CryptSpec => []ReceiptRespectsCutoff
<1>1. CryptSpec => Spec
  BY UsesReceipt
<1>2. QED
  BY <1>1, TimelyReceipt, PTL

\* What ExchangeContext returns and what the receipt holds agree: an answer is there
\* only for a reply that passed every check and is no truncated datagram, and such a
\* reply is missing only if the group or the cutoff came first.
THEOREM ReceiptMatchesReturn ==
  ASSUME Suffices
  PROVE  CryptSpec => [](CryptReceiptAgrees /\ ReservedOnlyWhileOpening)
<1>1. CryptInit => CryptInv
  BY CryptInitInv
<1>2. CryptInv /\ [CryptNext]_exchangeVars => CryptInv'
  BY CryptStepInv
<1>3. CryptInv => CryptReceiptAgrees /\ ReservedOnlyWhileOpening
  BY DEF CryptInv, Agreement, Holding, Closing, CryptReceiptAgrees, ReservedOnlyWhileOpening
<1>4. QED
  BY <1>1, <1>2, <1>3, PTL DEF CryptSpec

=============================================================================
