------------------------ MODULE PlainExchangeProofs ------------------------
(***************************************************************************)
(* A plain exchange uses its receipt the way receipt.go means it to be     *)
(* used, agrees with it on the outcome, and treats a timeout as final, for *)
(* every cutoff, every number of messages a socket delivers and every      *)
(* interleaving with the group.                                            *)
(***************************************************************************)
EXTENDS PlainExchange, ExchangeStateProofs

\* The receipt's parameters, as an exchange needs them: a reservation for each
\* message of its four connections, the labels, the errors.
Suffices ==
  /\ MaxFrames \in Nat /\ MaxTickets >= 4 * MaxFrames
  /\ {"udp", "tcp"} \subseteq Answers
  /\ {"timeout", "conn", "other", "protocol", "question"} \subseteq WorkErrors

Before == {"call", "dial", "write", "read", "decode"}
After == {"exchanged", "close", "fallback", "finish", "returned"}

WorkerTypes ==
  /\ pc \in Before \cup After
  /\ conf.net \in {"udp", "tcp"} /\ network \in {"udp", "tcp"}
  /\ network = "udp" => conf.net = "udp"
  /\ redialled \in BOOLEAN /\ abandoned \in BOOLEAN
  /\ frames \in 0 .. MaxFrames /\ held \in Nat
  /\ pc = "decode" => frame \in Frames
  /\ err \in {Nil, "timeout", "conn", "other", "protocol", "question"}

\* The connections the exchange has finished with.
Used == (IF network # conf.net THEN 2 ELSE 0) + (IF redialled THEN 1 ELSE 0)

TicketsUsed ==
  /\ pc # "call" => started
  /\ pc \in {"call", "dial"} => ticket <= Used * MaxFrames
  /\ ticket <= Used * MaxFrames + frames

\* The message being decoded is one that reserve admits.
Admissible(f) == MayReserve(HeaderOf(f), network = "udp")

\* A reservation belongs to the message being decoded; an admissible message has
\* none only if the receipt is decided or sealed.
Holding ==
  /\ held # 0 => pc = "decode" /\ held <= ticket /\ Admissible(frame)
  /\ reserved => pc = "decode" /\ held = ticket
  /\ pc = "decode" /\ Admissible(frame) => reserved \/ finished \/ sealed

\* What the receipt has is what the worker is about to return.
Agreement ==
  /\ result.answer # NoAnswer =>
       /\ pc \in After /\ resp \in Frames /\ Admissible(resp)
       /\ result.answer = LabelOf(network, resp)
       /\ err \in {Nil, "other"} /\ (pc = "exchanged" => err = Nil)
  /\ pc \in After /\ err = Nil => resp \in Frames /\ resp.sameId
  /\ pc \in {"finish", "returned"} /\ err = Nil => ~(network = "udp" /\ resp.tc)
  /\ pc \in After /\ err = Nil /\ Admissible(resp) /\ ~sealed /\ ~abandoned /\ ~PastCutoff =>
       result.answer # NoAnswer
  /\ finished => sealed \/ abandoned \/ PastCutoff \/ result.answer # NoAnswer \/ pc = "returned"

\* After a timeout the worker is on its way out with it.
TimeoutEnds == timedOut => pc \in After /\ err = "timeout" /\ resp = NoFrame

\* The inductive invariant of the exchange, on top of the receipt's own.
PlainInv == IInv /\ WorkerTypes /\ TicketsUsed /\ Holding /\ Agreement /\ TimeoutEnds

-----------------------------------------------------------------------------
\* No message stands for none.
LEMMA NoFrameIsNone == NoFrame \notin Frames
  BY DEF NoFrame, Frames

\* The exchange starts with a fresh receipt.
LEMMA PlainInitInv == ASSUME Suffices PROVE PlainInit => PlainInv
<1> SUFFICES ASSUME PlainInit PROVE PlainInv
  OBVIOUS
<1>1. IInv
  BY InitIInv DEF PlainInit
<1>2. WorkerTypes
  <2>1. conf.net \in {"udp", "tcp"} /\ network = conf.net
    BY DEF PlainInit
  <2>2. redialled \in BOOLEAN /\ abandoned \in BOOLEAN
    BY Zenon DEF PlainInit
  <2>3. QED
    BY <2>1, <2>2 DEF PlainInit, WorkerTypes, Before, Nil, Suffices
<1>3. TicketsUsed
  BY DEF PlainInit, Init, TicketsUsed, Used, Suffices
<1>4. Holding
  BY DEF PlainInit, Init, Holding
<1>5. Agreement
  BY ResultFields DEF PlainInit, Init, Agreement, After
<1>6. TimeoutEnds
  BY DEF PlainInit, TimeoutEnds
<1>7. QED
  BY <1>1, <1>2, <1>3, <1>4, <1>5, <1>6 DEF PlainInv

\* Giving a message back, or publishing it, is a step of the receipt's users.
LEMMA HeldRefines ==
  ASSUME Suffices, PlainInv, pc = "decode",
         Release \/ (IF held = 0 THEN UNCHANGED vars ELSE accept(held, LabelOf(network, frame)))
  PROVE  [Next]_vars
<1>1. CASE held = 0
  BY <1>1 DEF Release
<1>2. CASE held # 0
  <2>1. held \in 1 .. ticket
    BY <1>2 DEF PlainInv, IInv, TypeOK, WorkerTypes, Holding
  <2>2. LabelOf(network, frame) \in Answers
    BY <1>2
    DEF PlainInv, Holding, Admissible, MayReserve, HeaderOf, LabelOf, Suffices, WorkerTypes
  <2>3. QED
    BY <1>2, <2>1, <2>2 DEF Release, Next
<1>3. QED
  BY <1>1, <1>2

\* Every step of the exchange is a step of the receipt's users, or leaves the
\* receipt alone.
LEMMA PlainStepRefines ==
  ASSUME Suffices, PlainInv, [PlainNext]_plainVars
  PROVE  [Next]_vars
<1>1. CASE UNCHANGED plainVars
  BY <1>1 DEF plainVars, vars
<1>2. CASE ExchangeCall
  BY <1>2 DEF ExchangeCall, Next
<1>3. CASE \/ Dial \/ Write \/ ReadError \/ Exchanged \/ CloseConns \/ Fallback
  BY <1>3 DEF Dial, Write, ReadError, Exchanged, CloseConns, Fallback
<1>4. CASE \E f \in Frames : ReadFrame(f)
  <2> PICK f \in Frames : ReadFrame(f)
    BY <1>4
  <2>1. started /\ ticket < MaxTickets
    <3>1. Used \in 0 .. 3
      BY DEF Used
    <3>2. ticket <= 3 * MaxFrames + frames
      BY <3>1 DEF PlainInv, TicketsUsed, WorkerTypes, Suffices, IInv, TypeOK
    <3>3. QED
      BY <3>2, BoundsAssumption
      DEF ReadFrame, PlainInv, TicketsUsed, WorkerTypes, Suffices, IInv, TypeOK
  <2>2. HeaderOf(f) \in Wires
    BY DEF HeaderOf, Wires, Frames
  <2>3. reserve(HeaderOf(f), network = "udp") /\ (network = "udp") \in BOOLEAN
    BY DEF ReadFrame
  <2>4. QED
    BY <2>1, <2>2, <2>3 DEF Next
<1>5. CASE RejectMalformed \/ SkipStray \/ RejectStray \/ RejectQuestion \/ AcceptFrame
  BY <1>5, HeldRefines DEF RejectMalformed, SkipStray, RejectStray, RejectQuestion, AcceptFrame
<1>6. CASE Finish
  <2>1. started /\ err \in WorkErrors \cup {NoErr}
    BY <1>6 DEF Finish, PlainInv, WorkerTypes, TicketsUsed, Suffices, Nil, NoErr
  <2>2. finish(err)
    BY <1>6 DEF Finish
  <2>3. QED
    BY <2>1, <2>2 DEF Next
<1>7. CASE GroupExpire \/ GroupAbandon \/ Clock \/ Returned
  BY <1>7 DEF GroupExpire, GroupAbandon, Clock, Returned, plainVars, vars, Next
<1>8. QED
  BY <1>1, <1>2, <1>3, <1>4, <1>5, <1>6, <1>7 DEF PlainNext, Worker

-----------------------------------------------------------------------------
\* The parts of the invariant that are not the receipt's.
WorkerInv == WorkerTypes /\ TicketsUsed /\ Holding /\ Agreement /\ TimeoutEnds

\* A step before there is a reply: it goes on, or fails without one.
LEMMA QuietStep ==
  ASSUME Suffices, PlainInv, UNCHANGED <<vars, conf, network, redialled, abandoned>>,
         pc \in {"dial", "write", "read"},
         frames' \in 0 .. MaxFrames, frames' = frames \/ pc = "dial",
         \/ Return(NoFrame, Nil, pc') /\ pc' \in {"write", "read"}
         \/ /\ pc' \in {"exchanged", "close"}
            /\ \E e \in IOErrors \cup {"protocol"} : Return(NoFrame, e, pc')
  PROVE  WorkerInv'
<1>1. /\ pc' \in {"write", "read", "exchanged", "close"} /\ held' = 0 /\ resp' = NoFrame
      /\ \/ pc' \in {"write", "read"} /\ err' = Nil
         \/ pc' \in {"exchanged", "close"} /\ err' \in {"timeout", "conn", "other", "protocol"}
      /\ err' \in {Nil, "timeout", "conn", "other", "protocol"}
      /\ timedOut' => timedOut \/ err' = "timeout"
  BY DEF Return, IOErrors
<1>2. ~timedOut /\ ~reserved /\ result.answer = NoAnswer
  BY DEF PlainInv, TimeoutEnds, Holding, Agreement, After
<1>3. WorkerTypes'
  BY <1>1 DEF PlainInv, WorkerTypes, Before, After
<1>4. TicketsUsed'
  <2>1. Used' = Used /\ Used \in Nat
    BY DEF Used
  <2>2. Used * MaxFrames \in Nat
    BY <2>1 DEF Suffices
  <2>3. ticket <= Used * MaxFrames + frames'
    BY <2>2 DEF PlainInv, TicketsUsed, IInv, TypeOK
  <2>4. QED
    BY <1>1, <2>1, <2>3 DEF PlainInv, TicketsUsed, vars
<1>5. Holding'
  BY <1>1, <1>2 DEF Holding, vars, decisionVars
<1>6. Agreement'
  BY <1>1, <1>2 DEF PlainInv, Agreement, After, vars, decisionVars, PastCutoff, Nil
<1>7. TimeoutEnds'
  BY <1>1, <1>2 DEF TimeoutEnds, After, Nil
<1>8. QED
  BY <1>3, <1>4, <1>5, <1>6, <1>7 DEF WorkerInv

\* The reservation step: an admissible message is refused only by a receipt that is
\* decided or sealed.
LEMMA ReadFrameStep ==
  ASSUME Suffices, PlainInv, NEW f \in Frames, ReadFrame(f)
  PROVE  WorkerInv'
<1>1. /\ pc = "read" /\ pc' = "decode" /\ frame' = f /\ held' = Issued
      /\ frames < MaxFrames /\ frames' = frames + 1
      /\ reserve(HeaderOf(f), network = "udp")
      /\ UNCHANGED <<conf, network, redialled, resp, err, timedOut, abandoned, now, sealed, started>>
  BY DEF ReadFrame, reserve, reserveCandidate, vars
<1>2. ~timedOut /\ ~reserved /\ result.answer = NoAnswer /\ started
  BY <1>1 DEF PlainInv, TimeoutEnds, Holding, Agreement, TicketsUsed, After
<1>3. Admissible(f)' <=> MayReserve(HeaderOf(f), network = "udp")
  BY <1>1 DEF Admissible, MayReserve, HeaderOf
<1>4. /\ result'.answer = NoAnswer
      /\ finished' => finished \/ PastCutoff
  BY <1>1, <1>2, ResultFields, OwnErrors
  DEF reserve, reserveCandidate, completeLocked, decisionVars, ObservedTooLate, vars
<1>5. /\ ticket \in Nat /\ (ticket' = ticket \/ ticket' = ticket + 1)
      /\ held' = 0 \/ (held' = ticket' /\ Admissible(f)')
      /\ reserved' => held' = ticket'
      /\ Admissible(f)' => reserved' \/ finished' \/ sealed'
  BY <1>1, <1>2, <1>3
  DEF reserve, reserveCandidate, completeLocked, decisionVars, Issued, AdmissionOpen,
      FirstDecision, vars, PlainInv, IInv, TypeOK
<1>6. WorkerTypes'
  BY <1>1, <1>5 DEF PlainInv, WorkerTypes, Before, Suffices
<1>7. TicketsUsed'
  BY <1>1, <1>2, <1>5 DEF PlainInv, TicketsUsed, Used, WorkerTypes, Suffices
<1>8. Holding'
  BY <1>1, <1>5 DEF Holding, Admissible
<1>9. Agreement'
  BY <1>1, <1>2, <1>4 DEF PlainInv, Agreement, After, PastCutoff
<1>10. TimeoutEnds'
  BY <1>1, <1>2 DEF TimeoutEnds
<1>11. QED
  BY <1>6, <1>7, <1>8, <1>9, <1>10 DEF WorkerInv

\* A message that is not the reply: its reservation is given back, and the worker
\* reads on or fails.
LEMMA RefuseStep ==
  ASSUME PlainInv, RejectMalformed \/ SkipStray \/ RejectStray \/ RejectQuestion
  PROVE  WorkerInv'
<1>1. /\ pc = "decode" /\ Release /\ held' = 0
      /\ UNCHANGED <<conf, network, redialled, frames, abandoned, now, sealed, started, ticket>>
      /\ \/ pc' = "read" /\ UNCHANGED <<resp, err, timedOut>>
         \/ /\ pc' = "exchanged" /\ err' \in {"protocol", "question"}
            /\ timedOut' => timedOut
  BY DEF RejectMalformed, SkipStray, RejectStray, RejectQuestion, Release, reject, Return, vars
<1>2. ~timedOut /\ result.answer = NoAnswer
  BY <1>1 DEF PlainInv, TimeoutEnds, Agreement, After
<1>3. reserved => ~finished /\ held = ticket /\ held # 0
  BY DEF PlainInv, IInv, ReservationSound, HistorySound, Holding
<1>4. /\ ~reserved' /\ result'.answer = NoAnswer
      /\ finished' => finished \/ sealed \/ PastCutoff
  BY <1>1, <1>2, <1>3, ResultFields, OwnErrors
  DEF Release, reject, InHand, completeLocked, FirstDecision, NothingLeft, vars, decisionVars
<1>5. WorkerTypes'
  BY <1>1 DEF PlainInv, WorkerTypes, Before, After
<1>6. TicketsUsed'
  BY <1>1 DEF PlainInv, TicketsUsed, Used
<1>7. Holding'
  BY <1>1, <1>4 DEF Holding
<1>8. Agreement'
  BY <1>1, <1>2, <1>4 DEF PlainInv, Agreement, After, PastCutoff, Nil
<1>9. TimeoutEnds'
  BY <1>1, <1>2 DEF TimeoutEnds
<1>10. QED
  BY <1>5, <1>6, <1>7, <1>8, <1>9 DEF WorkerInv

\* The reply: it is published if the receipt still admits it.
LEMMA AcceptStep ==
  ASSUME PlainInv, AcceptFrame
  PROVE  WorkerInv'
<1>1. /\ pc = "decode" /\ pc' = "exchanged" /\ held' = 0 /\ resp' = frame /\ err' = Nil
      /\ frame \in Frames /\ frame.sameId
      /\ UNCHANGED <<conf, network, redialled, frames, abandoned, now, sealed, started, ticket>>
      /\ timedOut' => timedOut
  BY DEF AcceptFrame, Return, accept, vars, PlainInv, WorkerTypes, Nil
<1>2. ~timedOut /\ result.answer = NoAnswer
  BY <1>1 DEF PlainInv, TimeoutEnds, Agreement, After
<1>3. reserved => ~finished /\ held = ticket /\ held # 0 /\ Admissible(frame)
  BY DEF PlainInv, IInv, ReservationSound, HistorySound, Holding
<1>4. Admissible(resp)' <=> Admissible(frame)
  BY <1>1 DEF Admissible, MayReserve, HeaderOf
<1>5. ~reserved'
  BY <1>3 DEF AcceptFrame, accept, InHand, completeLocked, FirstDecision, vars, decisionVars
<1>6. CASE reserved
  <2>1. result' = Response(LabelOf(network, frame), original, received)
    BY <1>3, <1>6 DEF AcceptFrame, accept, InHand, completeLocked, FirstDecision
  <2>2. result'.answer = LabelOf(network, frame) /\ LabelOf(network, frame) # NoAnswer
    BY <2>1 DEF Response, LabelOf, NoAnswer
  <2>3. LabelOf(network, frame) = LabelOf(network, resp)'
    BY <1>1 DEF LabelOf
  <2>4. Agreement'
    BY <1>1, <1>3, <1>4, <1>6, <2>2, <2>3 DEF Agreement, After
  <2>5. QED
    BY <1>1, <1>2, <1>5, <2>4
    DEF PlainInv, WorkerInv, WorkerTypes, TicketsUsed, Used, Holding, TimeoutEnds, Before, After
<1>7. CASE ~reserved
  <2>1. UNCHANGED vars
    BY <1>7 DEF AcceptFrame, accept, InHand
  <2>2. Admissible(frame) => sealed \/ abandoned \/ PastCutoff
    BY <1>1, <1>2, <1>7 DEF PlainInv, Holding, Agreement
  <2>3. result'.answer = NoAnswer /\ (finished' => finished) /\ PastCutoff' = PastCutoff
    BY <1>1, <1>2, <2>1 DEF PastCutoff, vars, decisionVars
  <2>4. finished => sealed \/ abandoned \/ PastCutoff
    BY <1>1, <1>2 DEF PlainInv, Agreement
  <2>5. Agreement'
    BY <1>1, <1>4, <2>2, <2>3, <2>4 DEF Agreement
  <2>6. QED
    BY <1>1, <1>2, <1>5, <2>5
    DEF PlainInv, WorkerInv, WorkerTypes, TicketsUsed, Used, Holding, TimeoutEnds, Before, After
<1>8. QED
  BY <1>6, <1>7

\* A broken connection is replaced once: before a reply there is no answer to lose.
LEMMA ExchangedStep ==
  ASSUME Suffices, PlainInv, Exchanged
  PROVE  WorkerInv'
<1>1. /\ pc = "exchanged"
      /\ \/ Redials(err) /\ pc' = "dial" /\ redialled' = TRUE
         \/ ~Redials(err) /\ pc' = "close" /\ redialled' = redialled
      /\ UNCHANGED <<vars, conf, network, frames, held, frame, resp, err, timedOut, abandoned>>
  BY DEF Exchanged
<1>2. Redials(err) => err = "conn" /\ ~redialled
  BY DEF Redials, isExpectedConnErr
<1>3. ~reserved /\ held = 0
  BY <1>1 DEF PlainInv, Holding
<1>4. redialled' \in BOOLEAN
  BY <1>1 DEF PlainInv, WorkerTypes
<1>5. WorkerTypes'
  BY <1>1, <1>4 DEF PlainInv, WorkerTypes, Before, After
<1>6. TicketsUsed'
  <2>1. CASE ~Redials(err)
    BY <1>1, <2>1 DEF PlainInv, TicketsUsed, Used, vars
  <2>2. CASE Redials(err)
    <3>1. Used' = Used + 1 /\ Used \in Nat
      BY <1>1, <1>2, <2>2 DEF Used
    <3>2. Used' * MaxFrames = Used * MaxFrames + MaxFrames /\ Used * MaxFrames \in Nat
      BY <3>1 DEF Suffices
    <3>3. ticket <= Used' * MaxFrames /\ frames \in Nat /\ frames <= MaxFrames /\ started
      BY <1>1, <3>2 DEF PlainInv, TicketsUsed, WorkerTypes, Suffices, IInv, TypeOK
    <3>4. QED
      BY <1>1, <3>2, <3>3 DEF TicketsUsed, vars, Suffices, PlainInv, IInv, TypeOK
  <2>3. QED
    BY <2>1, <2>2
<1>7. Holding'
  BY <1>1, <1>3 DEF Holding, vars, decisionVars
<1>8. Agreement'
  BY <1>1, <1>2
  DEF PlainInv, Agreement, After, Admissible, MayReserve, HeaderOf, LabelOf, PastCutoff, Nil,
      vars, decisionVars
<1>9. TimeoutEnds'
  BY <1>1, <1>2 DEF PlainInv, TimeoutEnds, After
<1>10. QED
  BY <1>5, <1>6, <1>7, <1>8, <1>9 DEF WorkerInv

\* Closing the sockets may add an error to a success, and nothing else.
LEMMA CloseStep ==
  ASSUME PlainInv, CloseConns
  PROVE  WorkerInv'
<1>1. /\ pc = "close" /\ pc' = "fallback"
      /\ err' = err \/ (err = Nil /\ err' = "other")
      /\ UNCHANGED <<vars, conf, network, redialled, frames, held, frame, resp, timedOut, abandoned>>
  BY DEF CloseConns
<1>2. WorkerTypes'
  BY <1>1 DEF PlainInv, WorkerTypes, After
<1>3. TicketsUsed'
  BY <1>1 DEF PlainInv, TicketsUsed, Used, vars
<1>4. Holding'
  BY <1>1 DEF PlainInv, Holding, vars, decisionVars
<1>5. Agreement'
  BY <1>1
  DEF PlainInv, Agreement, After, Admissible, MayReserve, HeaderOf, LabelOf, PastCutoff, Nil,
      vars, decisionVars
<1>6. TimeoutEnds'
  BY <1>1 DEF PlainInv, TimeoutEnds, After, Nil
<1>7. QED
  BY <1>2, <1>3, <1>4, <1>5, <1>6 DEF WorkerInv

\* The continuation over TCP: never after a timeout, never with an answer published.
LEMMA FallbackStep ==
  ASSUME Suffices, PlainInv, Fallback
  PROVE  WorkerInv'
<1>1. /\ pc = "fallback" /\ held = 0 /\ ~reserved
      /\ UNCHANGED <<vars, conf, frames, held, frame, timedOut, abandoned>>
  BY DEF Fallback, PlainInv, Holding
<1>2. CASE ContinuesOverTCP
  <2>1. /\ network = "udp" /\ conf.net = "udp" /\ resp # NoFrame
        /\ err = "question" \/ resp.tc
        /\ pc' = "dial" /\ network' = "tcp" /\ redialled' = FALSE /\ err' = Nil
    BY <1>2 DEF Fallback, ContinuesOverTCP
  <2>2. ~timedOut
    BY <2>1 DEF PlainInv, TimeoutEnds
  <2>3. result.answer = NoAnswer
    BY <2>1 DEF PlainInv, Agreement, Admissible, MayReserve, HeaderOf, Nil
  <2>4. redialled' \in BOOLEAN
    BY <2>1
  <2>5. WorkerTypes'
    BY <1>1, <2>1, <2>4 DEF PlainInv, WorkerTypes, Before
  <2>6. TicketsUsed'
    <3>1. Used' = 2 /\ Used \in {0, 1}
      BY <1>1, <2>1 DEF Used
    <3>2. Used * MaxFrames <= MaxFrames /\ Used * MaxFrames \in Nat
      BY <3>1 DEF Suffices
    <3>3. ticket <= 2 * MaxFrames
      BY <3>2 DEF PlainInv, TicketsUsed, WorkerTypes, Suffices, IInv, TypeOK
    <3>4. QED
      BY <1>1, <2>1, <3>1, <3>3
      DEF PlainInv, TicketsUsed, WorkerTypes, vars, Suffices, IInv, TypeOK
  <2>7. Holding'
    BY <1>1, <2>1 DEF Holding, vars, decisionVars
  <2>8. Agreement'
    BY <1>1, <2>1, <2>3 DEF PlainInv, Agreement, After, PastCutoff, vars, decisionVars
  <2>9. TimeoutEnds'
    BY <1>1, <2>2 DEF TimeoutEnds
  <2>10. QED
    BY <2>5, <2>6, <2>7, <2>8, <2>9 DEF WorkerInv
<1>3. CASE ~ContinuesOverTCP
  <2>1. pc' = "finish" /\ UNCHANGED <<network, redialled, resp, err>>
    BY <1>3 DEF Fallback
  <2>2. err = Nil => ~(network = "udp" /\ resp.tc)
    BY <1>1, <1>3, NoFrameIsNone DEF ContinuesOverTCP, PlainInv, Agreement, WorkerTypes, After
  <2>3. WorkerTypes'
    BY <1>1, <2>1 DEF PlainInv, WorkerTypes, After
  <2>4. TicketsUsed'
    BY <1>1, <2>1 DEF PlainInv, TicketsUsed, Used, vars
  <2>5. Holding'
    BY <1>1, <2>1 DEF Holding, vars, decisionVars
  <2>6. Agreement'
    BY <1>1, <2>1, <2>2
    DEF PlainInv, Agreement, After, Admissible, MayReserve, HeaderOf, LabelOf, PastCutoff,
        vars, decisionVars
  <2>7. TimeoutEnds'
    BY <1>1, <2>1 DEF PlainInv, TimeoutEnds, After
  <2>8. QED
    BY <2>3, <2>4, <2>5, <2>6, <2>7 DEF WorkerInv
<1>4. QED
  BY <1>2, <1>3

\* The return: finish decides what nothing else has decided.
LEMMA FinishStep ==
  ASSUME PlainInv, Finish
  PROVE  WorkerInv'
<1>1. /\ pc = "finish" /\ pc' = "returned"
      /\ UNCHANGED <<conf, network, redialled, frames, held, frame, resp, err, timedOut,
                     abandoned, now, sealed, started, ticket>>
  BY DEF Finish, finish
<1>2. /\ result.answer # NoAnswer => result' = result
      /\ result.answer = NoAnswer => result'.answer = NoAnswer
      /\ ~reserved'
  <2>1. ~finished => result.answer = NoAnswer
    BY ResultFields DEF PlainInv, IInv, HistorySound
  <2>2. ~reserved
    BY <1>1 DEF PlainInv, Holding
  <2>3. Failure(IF err = NoErr THEN ErrNoReply ELSE err).answer = NoAnswer
    BY DEF Failure
  <2>4. QED
    BY <2>1, <2>2, <2>3 DEF Finish, finish, completeLocked, FirstDecision, decisionVars
<1>3. WorkerTypes'
  BY <1>1 DEF PlainInv, WorkerTypes, After
<1>4. TicketsUsed'
  BY <1>1 DEF PlainInv, TicketsUsed, Used
<1>5. Holding'
  BY <1>1, <1>2 DEF PlainInv, Holding
<1>6. Agreement'
  BY <1>1, <1>2
  DEF PlainInv, Agreement, After, Admissible, MayReserve, HeaderOf, LabelOf, PastCutoff
<1>7. TimeoutEnds'
  BY <1>1 DEF PlainInv, TimeoutEnds, After
<1>8. QED
  BY <1>3, <1>4, <1>5, <1>6, <1>7 DEF WorkerInv

\* The group and the clock decide the receipt or end its admission, never with an
\* answer; the worker does not notice.
LEMMA OthersStep ==
  ASSUME PlainInv, GroupExpire \/ GroupAbandon \/ Clock
  PROVE  WorkerInv'
<1>1. UNCHANGED <<workVars, ticket, started>>
  BY DEF GroupExpire, GroupAbandon, Clock, Expire, Tick, Abandon
<1>2. /\ result.answer # NoAnswer => result' = result
      /\ result.answer = NoAnswer => result'.answer = NoAnswer
  <2>1. ~finished => result.answer = NoAnswer
    BY ResultFields DEF PlainInv, IInv, HistorySound
  <2>2. \A e : Failure(e).answer = NoAnswer
    BY DEF Failure
  <2>3. QED
    BY <2>1, <2>2
    DEF GroupExpire, GroupAbandon, Clock, Expire, Tick, Abandon, completeLocked, FirstDecision,
        decisionVars
<1>3. /\ sealed => sealed'
      /\ abandoned => abandoned'
      /\ PastCutoff => PastCutoff'
      /\ abandoned' \in BOOLEAN
  <2>1. CASE GroupExpire \/ Clock
    <3>1. now \in Nat /\ Cutoff \in Nat /\ abandoned \in BOOLEAN
      BY BoundsAssumption DEF PlainInv, WorkerTypes, IInv, TypeOK
    <3>2. CASE GroupExpire
      BY <3>1, <3>2 DEF GroupExpire, Expire, SealAlways, PastCutoff
    <3>3. CASE Clock
      BY <3>1, <3>3 DEF Clock, Tick, PastCutoff
    <3> QED BY <2>1, <3>2, <3>3
  <2>2. CASE GroupAbandon
    BY <2>2 DEF GroupAbandon, Abandon, PastCutoff
  <2>3. QED
    BY <2>1, <2>2
<1>4. /\ reserved' => reserved
      /\ reserved \/ finished \/ sealed => reserved' \/ finished' \/ sealed'
      /\ finished' => finished \/ sealed' \/ abandoned'
  BY DEF GroupExpire, GroupAbandon, Clock, Expire, Tick, Abandon, SealAlways, completeLocked,
         FirstDecision, decisionVars
<1>5. WorkerTypes'
  BY <1>1, <1>3 DEF PlainInv, WorkerTypes, workVars
<1>6. TicketsUsed'
  BY <1>1 DEF PlainInv, TicketsUsed, Used, workVars
<1>7. Holding'
  BY <1>1, <1>4 DEF PlainInv, Holding, Admissible, MayReserve, HeaderOf, workVars
<1>8. Agreement'
  BY <1>1, <1>2, <1>3, <1>4
  DEF PlainInv, Agreement, Admissible, MayReserve, HeaderOf, LabelOf, workVars
<1>9. TimeoutEnds'
  BY <1>1 DEF PlainInv, TimeoutEnds, workVars
<1>10. QED
  BY <1>5, <1>6, <1>7, <1>8, <1>9 DEF WorkerInv

\* Exchange is called, or nothing happens.
LEMMA CallStep ==
  ASSUME PlainInv, ExchangeCall
  PROVE  WorkerInv'
<1>1. /\ pc = "call" /\ held' = 0 /\ resp' = NoFrame /\ started'
      /\ \/ pc' = "dial" /\ err' = Nil
         \/ pc' = "finish" /\ err' = "other"
      /\ timedOut' => timedOut
      /\ UNCHANGED <<conf, network, redialled, frames, abandoned, now, sealed, ticket, reserved,
                     finished, result>>
  BY DEF ExchangeCall, start, Return, decisionVars, Nil
<1>2. ~timedOut /\ ~reserved /\ result.answer = NoAnswer
  BY <1>1 DEF PlainInv, TimeoutEnds, Holding, Agreement, After
<1>3. WorkerTypes'
  BY <1>1 DEF PlainInv, WorkerTypes, Before, After, Nil
<1>4. TicketsUsed'
  BY <1>1 DEF PlainInv, TicketsUsed, Used
<1>5. Holding'
  BY <1>1, <1>2 DEF Holding
<1>6. Agreement'
  BY <1>1, <1>2 DEF PlainInv, Agreement, After, PastCutoff, Nil
<1>7. TimeoutEnds'
  BY <1>1, <1>2 DEF TimeoutEnds
<1>8. QED
  BY <1>3, <1>4, <1>5, <1>6, <1>7 DEF WorkerInv

\* Every step keeps the invariant.
LEMMA PlainStepInv ==
  ASSUME Suffices, PlainInv, [PlainNext]_plainVars
  PROVE  PlainInv'
<1>1. IInv'
  BY PlainStepRefines, StepIInv DEF PlainInv
<1>2. WorkerInv'
  <2>1. CASE UNCHANGED plainVars \/ Returned
    <3>1. /\ UNCHANGED <<workVars, abandoned, now, started, ticket, sealed>>
          /\ UNCHANGED <<result, finished, reserved>>
      BY <2>1 DEF Returned, plainVars, vars, decisionVars
    <3>2. \A f : Admissible(f)' = Admissible(f)
      BY <3>1 DEF Admissible, MayReserve, HeaderOf, workVars
    <3>3. WorkerTypes' /\ TimeoutEnds'
      BY <3>1 DEF PlainInv, WorkerTypes, TimeoutEnds, workVars
    <3>4. TicketsUsed'
      BY <3>1 DEF PlainInv, TicketsUsed, Used, workVars
    <3>5. Holding'
      BY <3>1, <3>2 DEF PlainInv, Holding, workVars
    <3>6. Agreement'
      BY <3>1, <3>2 DEF PlainInv, Agreement, LabelOf, PastCutoff, workVars
    <3> QED BY <3>3, <3>4, <3>5, <3>6 DEF WorkerInv
  <2>2. CASE ExchangeCall
    BY <2>2, CallStep
  <2>3. CASE Dial \/ Write \/ ReadError
    <3>1. frames \in 0 .. MaxFrames /\ 0 \in 0 .. MaxFrames
      BY DEF PlainInv, WorkerTypes, Suffices
    <3>2. pc' \in {"write", "read", "exchanged", "close"}
      BY <2>3 DEF Dial, Write, ReadError, Return
    <3>3. QED
      BY <2>3, <3>1, <3>2, QuietStep DEF Dial, Write, ReadError, Return, IOErrors
  <2>4. CASE \E f \in Frames : ReadFrame(f)
    BY <2>4, ReadFrameStep
  <2>5. CASE RejectMalformed \/ SkipStray \/ RejectStray \/ RejectQuestion
    BY <2>5, RefuseStep
  <2>6. CASE AcceptFrame
    BY <2>6, AcceptStep
  <2>7. CASE Exchanged
    BY <2>7, ExchangedStep
  <2>8. CASE CloseConns
    BY <2>8, CloseStep
  <2>9. CASE Fallback
    BY <2>9, FallbackStep
  <2>10. CASE Finish
    BY <2>10, FinishStep
  <2>11. CASE GroupExpire \/ GroupAbandon \/ Clock
    BY <2>11, OthersStep
  <2>12. QED
    BY <2>1, <2>2, <2>3, <2>4, <2>5, <2>6, <2>7, <2>8, <2>9, <2>10, <2>11 DEF PlainNext, Worker
<1>3. QED
  BY <1>1, <1>2 DEF PlainInv, WorkerInv

\* The invariant holds throughout an exchange.
LEMMA PlainInvariance == ASSUME Suffices PROVE PlainSpec => []PlainInv
<1>1. PlainInit => PlainInv
  BY PlainInitInv
<1>2. PlainInv /\ [PlainNext]_plainVars => PlainInv'
  BY PlainStepInv
<1>3. QED
  BY <1>1, <1>2, PTL DEF PlainSpec

-----------------------------------------------------------------------------
\* plain.go keeps the receipt's protocol, so every theorem about receipt.go applies
\* to its exchanges; and after a step of it timed out it writes no other request,
\* on a new connection, over TCP or otherwise.
THEOREM UsesReceipt ==
  ASSUME Suffices
  PROVE  PlainSpec => UsesReceiptAsSpecified
<1>1. PlainInit => Init
  BY DEF PlainInit
<1>2. PlainInv /\ [PlainNext]_plainVars => [Next]_vars
  BY PlainStepRefines
<1>3. PlainInv /\ [PlainNext]_plainVars =>
        [timedOut => ~(pc = "write" /\ pc' = "read")]_plainVars
  BY DEF PlainInv, TimeoutEnds, After
<1>4. QED
  BY <1>1, <1>2, <1>3, PlainInvariance, PTL
  DEF PlainSpec, Spec, UsesReceiptAsSpecified, TimeoutIsFinal

\* The receipt and the return value of Exchange agree: what was published is
\* returned, whatever closing the sockets reports; a success that is returned was
\* published unless the group or the cutoff came first.
THEOREM ReceiptMatchesReturn ==
  ASSUME Suffices
  PROVE  PlainSpec => [](ReceiptAgrees /\ ReservedOnlyWhileDecoding)
<1>1. PlainInv => ReceiptAgrees /\ ReservedOnlyWhileDecoding
  BY NoFrameIsNone
  DEF PlainInv, Agreement, Holding, After, Admissible, MayReserve, HeaderOf, ReceiptAgrees,
      ReservedOnlyWhileDecoding, PastCutoff
<1>2. QED
  BY <1>1, PlainInvariance, PTL

\* A truncated datagram is never the answer, of the receipt or of the call.
THEOREM TruncatedIsProvisional ==
  ASSUME Suffices
  PROVE  PlainSpec => []TruncatedDatagramIsProvisional
<1>1. PlainInv => TruncatedDatagramIsProvisional
  BY DEF PlainInv, Agreement, Admissible, MayReserve, HeaderOf, LabelOf, WorkerTypes, NoAnswer,
         TruncatedDatagramIsProvisional
<1>2. QED
  BY <1>1, PlainInvariance, PTL

=============================================================================
