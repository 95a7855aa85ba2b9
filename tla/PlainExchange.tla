--------------------------- MODULE PlainExchange ---------------------------
(***************************************************************************)
(* upstream/plain.go and upstream/response.go: one plain DNS exchange over *)
(* UDP or TCP, composed with the receipt it reports to (ExchangeState).    *)
(* The worker's calls on the receipt interleave with the group's Expire    *)
(* and Abandon and with the clock.                                         *)
(*                                                                         *)
(* The network is the environment: a dial or a write fails or not, a read  *)
(* fails or yields a complete message.  Of a message the code looks at the *)
(* identifier, QR, TC, whether it unpacks (a TSIG the upstream has no key  *)
(* for counts as a failure to unpack) and whether the question matches.    *)
(***************************************************************************)
EXTENDS ExchangeState

CONSTANTS MaxFrames   \* bound of the messages one socket delivers before its
                      \* deadline: SetDeadline is called once per connection

VARIABLES pc,         \* where the worker is, see the actions
          conf,       \* plainDNS.net and plainDNS.bootstrap
          network,    \* the network dialExchange was called with
          redialled,  \* dialExchange is on its second connection
          frames,     \* messages read from the current socket
          held,       \* the ticket of the message being decoded, 0 if none
          frame,      \* the message being decoded
          resp,       \* what the functions return: a message or NoFrame
          err,
          conns,      \* open sockets
          timedOut,   \* history: an exchange step failed with a timeout
          abandoned   \* history: Abandon was called

workVars == <<pc, conf, network, redialled, frames, held, frame, resp, err, conns, timedOut>>
plainVars == <<vars, workVars, abandoned>>

Nil == "nil"
Frames == [sameId : BOOLEAN, qr : BOOLEAN, tc : BOOLEAN, ok : BOOLEAN, question : BOOLEAN]
NoFrame == [none |-> TRUE]
\* Errors by how the code tells them apart: a timeout, another net.Error or
\* EOF, errDNSProtocol with and without errQuestion, the rest.
Protocol == {"protocol", "question"}
IOErrors == {"timeout", "conn", "other"}
isExpectedConnErr(e) == e = "conn"

\* The label a published answer keeps: where it came from and whether it was a
\* truncated datagram.
LabelOf(net, f) == IF net = "udp" THEN (IF f.tc THEN "truncated" ELSE "udp") ELSE "tcp"

HeaderOf(f) == [whole |-> TRUE, sameId |-> f.sameId, qr |-> f.qr, tc |-> f.tc]

PlainInit ==
  /\ Init
  /\ pc = "call"
  /\ conf \in [net : {"udp", "tcp"}, bootstrap : BOOLEAN]
  /\ network = conf.net /\ redialled = FALSE /\ frames = 0
  /\ held = 0 /\ frame = NoFrame /\ resp = NoFrame /\ err = Nil
  /\ conns = 0 /\ timedOut = FALSE /\ abandoned = FALSE

\* Leave the step's function with response r and error e.
Return(r, e, to) ==
  /\ pc' = to /\ resp' = r /\ err' = e
  /\ timedOut' = (timedOut \/ e = "timeout")
  /\ held' = 0 /\ frame' = NoFrame

ExchangeWithoutStart ==
  /\ pc = "call"
  /\ UNCHANGED vars
  /\ Return(NoFrame, Nil, "dial")
  /\ UNCHANGED <<conf, network, redialled, frames, conns, abandoned>>

\* Exchange begins: the state is claimed, the dialer resolved.
ExchangeCall ==
  /\ pc = "call"
  /\ \E id \in Ids : start(id)
  /\ \/ Return(NoFrame, Nil, "dial")
     \/ Return(NoFrame, "other", "finish")
  /\ UNCHANGED <<conf, network, redialled, frames, conns, abandoned>>

\* dialExchange opens its first or its second connection.
Dial ==
  /\ pc = "dial"
  /\ \/ /\ Return(NoFrame, Nil, "write")
        /\ conns' = conns + 1 /\ frames' = 0
     \/ /\ \E e \in IOErrors : Return(NoFrame, e, "close")
        /\ UNCHANGED <<conns, frames>>
  /\ UNCHANGED <<vars, conf, network, redialled, abandoned>>

\* exchangeWithConn sets the socket deadline and sends the request.
Write ==
  /\ pc = "write"
  /\ \/ Return(NoFrame, Nil, "read")
     \/ \E e \in IOErrors : Return(NoFrame, e, "exchanged")
  /\ UNCHANGED <<vars, conf, network, redialled, frames, conns, abandoned>>

\* readDNSResponse: the read fails, or a complete message is observed and
\* reserved before it is unpacked.
ReadError ==
  /\ pc = "read"
  /\ \E e \in IOErrors \cup {"protocol"} : Return(NoFrame, e, "exchanged")
  /\ UNCHANGED <<vars, conf, network, redialled, frames, conns, abandoned>>

ReadFrame(f) ==
  /\ pc = "read" /\ frames < MaxFrames
  /\ reserve(HeaderOf(f), network = "udp")
  /\ pc' = "decode" /\ frame' = f /\ held' = Issued /\ frames' = frames + 1
  /\ UNCHANGED <<conf, network, redialled, resp, err, conns, timedOut, abandoned>>

\* Give the ticket of the message back; ticket 0 is no ticket.
ReleaseForgotten == UNCHANGED vars
Release == IF held = 0 THEN UNCHANGED vars ELSE reject(held)

RejectMalformed ==
  /\ pc = "decode" /\ ~frame.ok
  /\ Release
  /\ Return(frame, "protocol", "exchanged")
  /\ UNCHANGED <<conf, network, redialled, frames, conns, abandoned>>

\* A stray identifier: a datagram is skipped, a stream is broken.
SkipStray ==
  /\ pc = "decode" /\ frame.ok /\ ~frame.sameId /\ network = "udp"
  /\ Release
  /\ pc' = "read" /\ held' = 0 /\ frame' = NoFrame
  /\ UNCHANGED <<conf, network, redialled, frames, resp, err, conns, timedOut, abandoned>>

RejectStray ==
  /\ pc = "decode" /\ frame.ok /\ ~frame.sameId /\ network = "tcp"
  /\ Release
  /\ Return(frame, "protocol", "exchanged")
  /\ UNCHANGED <<conf, network, redialled, frames, conns, abandoned>>

\* The bootstrap resolver checks the question itself.
checkQuestion == ~conf.bootstrap

AcceptThenCheckQuestion ==
  /\ pc = "decode" /\ frame.ok /\ frame.sameId /\ checkQuestion /\ ~frame.question
  /\ IF held = 0 THEN UNCHANGED vars ELSE accept(held, LabelOf(network, frame))
  /\ Return(frame, "question", "exchanged")
  /\ UNCHANGED <<conf, network, redialled, frames, conns, abandoned>>

RejectQuestion ==
  /\ pc = "decode" /\ frame.ok /\ frame.sameId /\ checkQuestion /\ ~frame.question
  /\ Release
  /\ Return(frame, "question", "exchanged")
  /\ UNCHANGED <<conf, network, redialled, frames, conns, abandoned>>

AcceptFrame ==
  /\ pc = "decode" /\ frame.ok /\ frame.sameId /\ (checkQuestion => frame.question)
  /\ IF held = 0 THEN UNCHANGED vars ELSE accept(held, LabelOf(network, frame))
  /\ Return(frame, Nil, "exchanged")
  /\ UNCHANGED <<conf, network, redialled, frames, conns, abandoned>>

RedialAfterTimeout(e) == ~conf.bootstrap /\ e \in {"conn", "timeout"} /\ ~redialled

\* dialExchange: a broken connection is replaced once, with the same request.
Redials(e) == ~conf.bootstrap /\ isExpectedConnErr(e) /\ ~redialled

Exchanged ==
  /\ pc = "exchanged"
  /\ IF Redials(err)
       THEN pc' = "dial" /\ redialled' = TRUE
       ELSE pc' = "close" /\ UNCHANGED redialled
  /\ UNCHANGED <<vars, conf, network, frames, held, frame, resp, err, conns, timedOut, abandoned>>

\* The deferred closes of dialExchange, each of the socket it was given; a close
\* error joins the result's.
OpenAfterClose == 0

CloseConns ==
  /\ pc = "close"
  /\ conns' = OpenAfterClose
  /\ pc' = "fallback"
  /\ \/ UNCHANGED err
     \/ conns > 0 /\ err = Nil /\ err' = "other"
  /\ UNCHANGED <<vars, conf, network, redialled, frames, held, frame, resp, timedOut, abandoned>>

\* Exchange: a datagram that was truncated, or that answers another question,
\* continues over TCP.  The continuation happens once, since it is a TCP one.
ContinuesOverTCP ==
  /\ network = "udp" /\ conf.net = "udp" /\ resp # NoFrame
  /\ ~(conf.bootstrap /\ err # Nil)
  /\ \/ ~conf.bootstrap /\ err = "question"
     \/ resp.tc

Fallback ==
  /\ pc = "fallback"
  /\ IF ContinuesOverTCP
       THEN /\ pc' = "dial" /\ network' = "tcp" /\ redialled' = FALSE
            /\ resp' = NoFrame /\ err' = Nil
       ELSE /\ pc' = "finish"
            /\ UNCHANGED <<network, redialled, resp, err>>
  /\ UNCHANGED <<vars, conf, frames, held, frame, conns, timedOut, abandoned>>

FinishOnErrorOnly ==
  /\ pc = "finish"
  /\ IF err = Nil THEN UNCHANGED vars ELSE finish(err)
  /\ pc' = "returned"
  /\ UNCHANGED <<conf, network, redialled, frames, held, frame, resp, err, conns, timedOut, abandoned>>

\* The deferred finish: it decides only if nothing was published before.
Finish ==
  /\ pc = "finish"
  /\ finish(err)
  /\ pc' = "returned"
  /\ UNCHANGED <<conf, network, redialled, frames, held, frame, resp, err, conns, timedOut, abandoned>>

\* The group and the clock.
GroupExpire == Expire /\ UNCHANGED <<workVars, abandoned>>
GroupAbandon == Abandon /\ abandoned' = TRUE /\ UNCHANGED workVars
Clock == Tick /\ UNCHANGED <<workVars, abandoned>>

Worker ==
  \/ ExchangeCall \/ Dial \/ Write \/ ReadError
  \/ \E f \in Frames : ReadFrame(f)
  \/ RejectMalformed \/ SkipStray \/ RejectStray \/ RejectQuestion \/ AcceptFrame
  \/ Exchanged \/ CloseConns \/ Fallback \/ Finish

Returned == pc = "returned" /\ UNCHANGED plainVars

PlainNext == Worker \/ GroupExpire \/ GroupAbandon \/ Clock \/ Returned

\* Dials and reads end by themselves: the dialer and the socket have deadlines.
PlainSpec == PlainInit /\ [][PlainNext]_plainVars /\ WF_plainVars(Worker)
-----------------------------------------------------------------------------
\* The worker's program counter and the ticket it holds fit the code.
PlainTypeOK ==
  /\ pc \in {"call", "dial", "write", "read", "decode", "exchanged", "close", "fallback",
             "finish", "returned"}
  /\ conf \in [net : {"udp", "tcp"}, bootstrap : BOOLEAN]
  /\ network \in {"udp", "tcp"} /\ redialled \in BOOLEAN
  /\ frames \in 0 .. MaxFrames /\ held \in 0 .. MaxTickets
  /\ frame \in Frames \cup {NoFrame} /\ resp \in Frames \cup {NoFrame}
  /\ err \in IOErrors \cup Protocol \cup {Nil}
  /\ conns \in 0 .. 2 /\ timedOut \in BOOLEAN /\ abandoned \in BOOLEAN

\* receipt.go, on Expire: a candidate "may not hold admission across another
\* read, a retry or Close".  A reservation exists only while the worker decodes
\* the very message it was made for.
ReservedOnlyWhileDecoding == reserved => pc = "decode" /\ held = ticket

\* A truncated datagram is provisional: neither the receipt nor, when TCP then
\* fails or the group expires, the caller of Exchange ever gets it as the answer.
TruncatedDatagramIsProvisional ==
  /\ result.answer # "truncated"
  /\ pc = "returned" /\ err = Nil /\ conf.net = "udp" /\ network = "udp" => ~resp.tc

\* What the receipt published is what Exchange returns, even if closing the
\* socket fails afterwards; and a reply that Exchange returns as a success was
\* published unless the group or the cutoff ended the exchange before it.
ReceiptAgrees ==
  pc = "returned" =>
    /\ result.answer # NoAnswer => resp # NoFrame /\ LabelOf(network, resp) = result.answer
    /\ err = Nil /\ resp.qr /\ ~sealed /\ ~abandoned /\ ~PastCutoff => result.answer # NoAnswer

\* PATCHES.md: "An exchange timeout is also final".  After a step of the
\* exchange timed out, no further request is written.
TimeoutIsFinal == [][timedOut => ~(pc = "write" /\ pc' = "read")]_plainVars

\* The worker's use of the receipt stays within the receipt's own contract, so
\* everything proved about ExchangeState holds inside the exchange; and a timeout
\* is final for it.
UsesReceiptAsSpecified == Spec /\ TimeoutIsFinal

\* The exchange has its decision, the call has returned, no socket is open.
ExchangeEnded == pc = "returned" /\ finished /\ conns = 0
=============================================================================
