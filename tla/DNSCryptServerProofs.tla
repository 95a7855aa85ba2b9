------------------------ MODULE DNSCryptServerProofs ------------------------
(***************************************************************************)
(* The DNSCrypt server for any number of runs, handlers and callers of     *)
(* Shutdown: it keeps the promise of ServerRun, closes what it opened, and *)
(* reports the loss of its socket and nothing else.                        *)
(***************************************************************************)
EXTENDS DNSCryptServer, TLAPS

\* The types, and that every open connection is one that Shutdown can find.
TypeInv ==
  /\ proto \in {"tcp", "udp"}
  /\ started \in BOOLEAN /\ dropped \in BOOLEAN
  /\ run \in Nat
  /\ finished \subseteq 1..run
  /\ serving \in {"none", "check", "read", "adopt", "spawn", "report", "send", "join"}
  /\ handler \in [Handlers -> {"none", "check", "read", "handle", "close"}]
  /\ open \subseteq tcpConns

\* A run that has not ended has its serving goroutine, and one that has ended has
\* no goroutine at all.
RunInv ==
  /\ serving = "none" <=> run = 0 \/ run \in finished
  /\ serving = "none" => \A h \in Handlers : handler[h] = "none"
  /\ run = 0 => ~started

\* A socket listens while the server is started, until it fails on its own.
SocketInv ==
  /\ started => socket \in {"open", "lost"}
  /\ socket = "open" => started
  /\ socket = "lost" => dropped
  /\ ~started => open = {}

\* The serving goroutine is on its way to report what was lost.
ReportInv ==
  /\ serving = "send" => dropped
  /\ started /\ serving = "report" => dropped
  /\ reported # "no" => dropped
  /\ started /\ serving \in {"join", "none"} => reported # "no"

IInv == TypeInv /\ RunInv /\ SocketInv /\ ReportInv

-----------------------------------------------------------------------------

LEMMA InitInv == Init => IInv
<1> SUFFICES ASSUME Init PROVE IInv
  OBVIOUS
<1>1. TypeInv
  BY DEF Init, TypeInv
<1>2. RunInv
  BY DEF Init, RunInv
<1>3. SocketInv /\ ReportInv
  BY DEF Init, SocketInv, ReportInv
<1>4. QED
  BY <1>1, <1>2, <1>3 DEF IInv

\* The calls of Start and Shutdown, and the environment.
LEMMA CallsKeepInv ==
  ASSUME IInv,
         Start \/ SocketDrops
           \/ \E p \in Callers : Shutdown(p) \/ ShutdownReturns(p) \/ ShutdownGivesUp(p)
  PROVE  IInv'
<1>1. CASE Start
  <2>1. run + 1 \in Nat /\ run + 1 \notin finished /\ finished \subseteq 1..(run + 1)
    BY DEF IInv, TypeInv
  <2>2. TypeInv'
    BY <1>1, <2>1 DEF Start, IInv, TypeInv
  <2>3. RunInv'
    BY <1>1, <2>1 DEF Start, IInv, TypeInv, RunInv
  <2>4. SocketInv' /\ ReportInv'
    BY <1>1 DEF Start, SocketInv, ReportInv
  <2>5. QED
    BY <2>2, <2>3, <2>4 DEF IInv
<1>2. CASE SocketDrops
  BY <1>2 DEF SocketDrops, state, IInv, TypeInv, RunInv, SocketInv, ReportInv
<1>3. ASSUME NEW p \in Callers, Shutdown(p) PROVE IInv'
  BY <1>3 DEF Shutdown, IInv, TypeInv, RunInv, SocketInv, ReportInv
<1>4. ASSUME NEW p \in Callers, ShutdownReturns(p) \/ ShutdownGivesUp(p) PROVE IInv'
  <2>1. UNCHANGED <<proto, state, sock, serving, handler, tcpConns, open, reported>>
    BY <1>4 DEF ShutdownReturns, ShutdownGivesUp
  <2>2. QED
    BY <2>1 DEF state, sock, IInv, TypeInv, RunInv, SocketInv, ReportInv
<1>5. QED
  BY <1>1, <1>2, <1>3, <1>4

\* The serving goroutine.
LEMMA ServingKeepsInv ==
  ASSUME IInv,
         LoopChecks \/ ReadFails \/ ReadTimesOut \/ Accepts \/ Adopts \/ ReadsDatagram
           \/ Spawns \/ IgnoresDatagram \/ ReportChecks \/ ReportSends \/ Finishes
  PROVE  IInv'
<1> USE DEF ServingTo, state, sock, IInv, TypeInv, RunInv, SocketInv, ReportInv
<1>1. CASE LoopChecks
  BY <1>1 DEF LoopChecks
<1>2. CASE ReadFails
  BY <1>2 DEF ReadFails
<1>3. CASE ReadTimesOut
  BY <1>3 DEF ReadTimesOut
<1>4. CASE Accepts
  BY <1>4 DEF Accepts
<1>5. CASE Adopts
  <2>1. CASE ~started
    <3>1. serving = "adopt" /\ serving' = "report"
          /\ UNCHANGED <<proto, state, sock, handler, tcpConns, open, reported>>
      BY <1>5, <2>1 DEF Adopts
    <3>2. QED
      BY <2>1, <3>1
  <2>2. CASE started
    <3>1. PICK h \in Handlers :
            /\ handler' = [handler EXCEPT ![h] = "check"]
            /\ tcpConns' = tcpConns \union {h} /\ open' = open \union {h}
      BY <1>5, <2>2 DEF Adopts
    <3>2. serving = "adopt" /\ serving' = "check"
          /\ UNCHANGED <<proto, state, sock, reported>>
      BY <1>5, <2>2 DEF Adopts
    <3>3. TypeInv'
      BY <3>1, <3>2
    <3>4. RunInv' /\ SocketInv' /\ ReportInv'
      BY <2>2, <3>1, <3>2
    <3>5. QED
      BY <3>3, <3>4
  <2>3. QED
    BY <2>1, <2>2
<1>6. CASE ReadsDatagram
  BY <1>6 DEF ReadsDatagram
<1>7. CASE Spawns
  BY <1>7 DEF Spawns
<1>8. CASE IgnoresDatagram
  BY <1>8 DEF IgnoresDatagram
<1>9. CASE ReportChecks
  BY <1>9 DEF ReportChecks
<1>10. CASE ReportSends
  BY <1>10 DEF ReportSends
<1>11. CASE Finishes
  BY <1>11 DEF Finishes
<1>12. QED
  BY <1>1, <1>2, <1>3, <1>4, <1>5, <1>6, <1>7, <1>8, <1>9, <1>10, <1>11

\* The handlers of connections and datagrams.
LEMMA HandlersKeepInv ==
  ASSUME IInv, NEW h \in Handlers,
         HandlerChecks(h) \/ MessageArrives(h) \/ ConnEnds(h) \/ ClientGivesUp(h)
           \/ Handles(h) \/ Closes(h)
  PROVE  IInv'
<1> USE DEF HandlerTo, state, sock, IInv, TypeInv, RunInv, SocketInv, ReportInv
<1>1. CASE HandlerChecks(h)
  BY <1>1 DEF HandlerChecks
<1>2. CASE MessageArrives(h)
  BY <1>2 DEF MessageArrives
<1>3. CASE ConnEnds(h)
  BY <1>3 DEF ConnEnds
<1>4. CASE ClientGivesUp(h)
  BY <1>4 DEF ClientGivesUp
<1>5. CASE Handles(h)
  BY <1>5 DEF Handles
<1>6. CASE Closes(h)
  BY <1>6 DEF Closes
<1>7. QED
  BY <1>1, <1>2, <1>3, <1>4, <1>5, <1>6

LEMMA Invariance == Spec => []IInv
<1>1. IInv /\ [Next]_vars => IInv'
  <2> SUFFICES ASSUME IInv, [Next]_vars PROVE IInv'
    OBVIOUS
  <2>1. CASE UNCHANGED vars
    BY <2>1 DEF vars, IInv, TypeInv, RunInv, SocketInv, ReportInv
  <2>2. CASE Next
    BY <2>2, CallsKeepInv, ServingKeepsInv, HandlersKeepInv DEF Next, Progress
  <2>3. QED
    BY <2>1, <2>2
<1>2. QED
  BY <1>1, InitInv, PTL DEF Spec

\* Once Shutdown has stopped the server no socket of it is open, neither the one
\* it listened on nor a connection it had adopted, however Accept raced Shutdown.
THEOREM NothingOutlivesShutdown == Spec => []NoConnOutlivesShutdown
<1>1. IInv => NoConnOutlivesShutdown
  BY DEF IInv, SocketInv, NoConnOutlivesShutdown
<1>2. QED
  BY <1>1, Invariance, PTL

\* reportListenerFailure tells the owner that the socket failed if and only if it
\* did so on its own, and before the handlers are waited for.
THEOREM LossReported == Spec => []LossIsReported
<1>1. IInv => LossIsReported
  BY DEF IInv, ReportInv, LossIsReported
<1>2. QED
  BY <1>1, Invariance, PTL

-----------------------------------------------------------------------------
(* The refinement *)

\* A step that keeps the phase, what was taken and the handlers is a stutter.
LEMMA Stutters ==
  ASSUME Phase' = Phase, Taken' = Taken, Working' = Working
  PROVE  UNCHANGED SR!vars
  BY DEF SR!vars

\* A step of the phase alone.
LEMMA PhaseStep ==
  ASSUME NEW to, Phase' = to, Taken' = Taken, Working' = Working
  PROVE  SR!PhaseTo(1, to)
  BY DEF SR!PhaseTo

LEMMA CallsRefine ==
  ASSUME IInv, IInv',
         Start \/ SocketDrops
           \/ \E p \in Callers : Shutdown(p) \/ ShutdownReturns(p) \/ ShutdownGivesUp(p)
  PROVE  SR!Next \/ UNCHANGED SR!vars
<1>1. CASE Start
  <2>1. Phase \in {"idle", "ended"} /\ Phase' = "running" /\ Taken' = Taken /\ Working' = Working
    <3>1. run + 1 # 0 /\ run + 1 \notin finished
      BY DEF IInv, TypeInv
    <3>2. Phase' = "running"
      BY <1>1, <3>1 DEF Start, Phase
    <3>3. QED
      BY <1>1, <3>2 DEF Start, Phase, Taken, Working, IInv, TypeInv, RunInv
  <2>2. SR!Start(1)
    BY <2>1, PhaseStep DEF SR!Start
  <2>3. QED
    BY <2>2 DEF SR!Next
<1>2. CASE SocketDrops
  BY <1>2, Stutters DEF SocketDrops, state, Phase, Taken, Working
<1>3. ASSUME NEW p \in Callers, Shutdown(p) PROVE SR!Next \/ UNCHANGED SR!vars
  <2>1. CASE started /\ run \notin finished
    <3>1. Phase \in {"running", "lost"} /\ Phase' = "stopping" /\ Taken' = Taken /\ Working' = Working
      BY <1>3, <2>1 DEF Shutdown, Phase, Taken, Working, IInv, RunInv
    <3>2. SR!Stop(1)
      BY <3>1, PhaseStep DEF SR!Stop
    <3>3. QED
      BY <3>2 DEF SR!Next
  <2>2. CASE ~started \/ run \in finished
    BY <1>3, <2>2, Stutters DEF Shutdown, Phase, Taken, Working
  <2>3. QED
    BY <2>1, <2>2
<1>4. ASSUME NEW p \in Callers, ShutdownReturns(p) \/ ShutdownGivesUp(p)
      PROVE  UNCHANGED SR!vars
  <2>1. UNCHANGED <<state, serving, handler>>
    BY <1>4 DEF ShutdownReturns, ShutdownGivesUp
  <2>2. QED
    BY <2>1, Stutters DEF state, Phase, Taken, Working
<1>5. QED
  BY <1>1, <1>2, <1>3, <1>4

\* An idle handler gets what the serving goroutine has taken.
LEMMA Admits ==
  ASSUME IInv, NEW h \in Handlers, handler[h] = "none", NEW pc, pc # "none",
         handler' = [handler EXCEPT ![h] = pc], Taken, ~Taken', Phase' = Phase
  PROVE  SR!Next
<1>1. h \notin Working /\ Working' = Working \cup {h}
  BY DEF Working, IInv, TypeInv
<1>2. SR!Admit(1, h)
  BY <1>1 DEF SR!Admit, Taken
<1>3. QED
  BY <1>2 DEF SR!Next

\* What it has taken is dropped.
LEMMA DropsTaken ==
  ASSUME Taken, ~Taken', Phase' = Phase, Working' = Working
  PROVE  SR!Next
<1>1. SR!Drop(1)
  BY DEF SR!Drop, Taken
<1>2. QED
  BY <1>1 DEF SR!Next

LEMMA ServingRefines ==
  ASSUME IInv, IInv',
         LoopChecks \/ ReadFails \/ ReadTimesOut \/ Accepts \/ Adopts \/ ReadsDatagram
           \/ Spawns \/ IgnoresDatagram \/ ReportChecks \/ ReportSends \/ Finishes
  PROVE  SR!Next \/ UNCHANGED SR!vars
<1> USE DEF ServingTo, state
<1>1. CASE LoopChecks \/ ReadTimesOut \/ ReportChecks \/ ReportSends
  <2>1. Phase' = Phase /\ Taken' = Taken /\ Working' = Working
    BY <1>1 DEF LoopChecks, ReadTimesOut, ReportChecks, ReportSends, Phase, Taken, Working
  <2>2. QED
    BY <2>1, Stutters
<1>2. CASE ReadFails
  <2>1. /\ Working' = Working /\ ~Taken /\ ~Taken'
        /\ serving = "read" /\ serving' = "report" /\ UNCHANGED started
    BY <1>2 DEF ReadFails, Taken, Working
  <2>2. CASE started
    <3>1. Phase = "running" /\ Phase' = "lost"
      BY <2>1, <2>2, <1>2 DEF Phase, IInv, RunInv, ReadFails
    <3>2. SR!Lose(1)
      BY <2>1, <3>1, PhaseStep DEF SR!Lose, Taken
    <3>3. QED
      BY <3>2 DEF SR!Next
  <2>3. CASE ~started
    <3>1. Phase' = Phase /\ Taken' = Taken
      BY <2>1, <2>3, <1>2 DEF Phase, ReadFails, Taken
    <3>2. QED
      BY <2>1, <3>1, Stutters
  <2>4. QED
    BY <2>2, <2>3
<1>3. CASE Accepts \/ ReadsDatagram
  <2>1. Phase = "running" /\ Phase' = "running" /\ Working' = Working
    BY <1>3 DEF Accepts, ReadsDatagram, Phase, Working, IInv, RunInv, SocketInv
  <2>2. ~Taken /\ Taken'
    BY <1>3 DEF Accepts, ReadsDatagram, Taken
  <2>3. SR!Take(1)
    BY <2>1, <2>2 DEF SR!Take, Taken
  <2>4. QED
    BY <2>3 DEF SR!Next
<1>4. CASE Adopts
  <2>1. Phase' = Phase /\ Taken /\ ~Taken'
    BY <1>4 DEF Adopts, Phase, Taken
  <2>2. CASE started
    <3>1. PICK h \in Handlers : handler[h] = "none" /\ handler' = [handler EXCEPT ![h] = "check"]
      BY <1>4, <2>2 DEF Adopts
    <3>2. QED
      BY <2>1, <3>1, Admits
  <2>3. CASE ~started
    BY <1>4, <2>1, <2>3, DropsTaken DEF Adopts, Working
  <2>4. QED
    BY <2>2, <2>3
<1>5. CASE Spawns
  <2>1. PICK h \in Handlers : handler[h] = "none" /\ handler' = [handler EXCEPT ![h] = "handle"]
    BY <1>5 DEF Spawns
  <2>2. Phase' = Phase /\ Taken /\ ~Taken'
    BY <1>5 DEF Spawns, Phase, Taken
  <2>3. QED
    BY <2>1, <2>2, Admits
<1>6. CASE IgnoresDatagram
  BY <1>6, DropsTaken DEF IgnoresDatagram, Phase, Taken, Working
<1>7. CASE Finishes
  <2>1. Phase \in {"stopping", "lost"}
    BY <1>7 DEF Finishes, Phase, IInv, RunInv
  <2>2. Phase' = "ended" /\ ~Taken /\ Taken' = Taken /\ Working = {} /\ Working' = Working
    BY <1>7 DEF Finishes, Phase, Taken, Working, IInv, RunInv
  <2>3. SR!End(1)
    BY <2>1, <2>2, PhaseStep DEF SR!End, Taken
  <2>4. QED
    BY <2>3 DEF SR!Next
<1>8. QED
  BY <1>1, <1>2, <1>3, <1>4, <1>5, <1>6, <1>7

LEMMA HandlersRefine ==
  ASSUME IInv, NEW h \in Handlers,
         HandlerChecks(h) \/ MessageArrives(h) \/ ConnEnds(h) \/ ClientGivesUp(h)
           \/ Handles(h) \/ Closes(h)
  PROVE  SR!Next \/ UNCHANGED SR!vars
<1>1. PICK pc : HandlerTo(h, pc)
  BY DEF HandlerChecks, MessageArrives, ConnEnds, ClientGivesUp, Handles, Closes
<1>2. handler[h] # "none"
  BY DEF HandlerChecks, MessageArrives, ConnEnds, ClientGivesUp, Handles, Closes
<1>3. Phase' = Phase /\ Taken' = Taken
  BY <1>1 DEF HandlerTo, state, Phase, Taken
<1>4. CASE pc = "none"
  <2>1. h \in Working /\ Working' = Working \ {h}
    BY <1>1, <1>2, <1>4 DEF HandlerTo, Working, IInv, TypeInv
  <2>2. SR!Finish(1, h)
    BY <1>3, <2>1 DEF SR!Finish
  <2>3. QED
    BY <2>2 DEF SR!Next
<1>5. CASE pc # "none"
  <2>1. Working' = Working
    BY <1>1, <1>2, <1>5 DEF HandlerTo, Working, IInv, TypeInv
  <2>2. QED
    BY <1>3, <2>1, Stutters
<1>6. QED
  BY <1>4, <1>5

\* dnscrypt.Server keeps the promise that the proxy relies on, for any number of
\* runs, handlers and callers of Shutdown: nothing is read or accepted after the
\* server is stopped or has lost its socket, and done is closed only when what was
\* taken before is dealt with and the handlers of the run have returned.
THEOREM Refinement == Spec => ImplementsServerRun
<1>1. Init => SR!Init
  BY DEF Init, SR!Init, Phase, Taken, Working
<1>2. IInv /\ IInv' /\ [Next]_vars => [SR!Next]_(SR!vars)
  <2> SUFFICES ASSUME IInv, IInv', [Next]_vars PROVE SR!Next \/ UNCHANGED SR!vars
    OBVIOUS
  <2>1. CASE UNCHANGED vars
    BY <2>1, Stutters DEF vars, Phase, Taken, Working
  <2>2. CASE Next
    BY <2>2, CallsRefine, ServingRefines, HandlersRefine DEF Next, Progress
  <2>3. QED
    BY <2>1, <2>2
<1>3. QED
  BY <1>1, <1>2, Invariance, PTL DEF Spec, ImplementsServerRun, SR!Spec
=============================================================================
