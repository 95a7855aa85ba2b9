-------------------------- MODULE ProxyServerProofs --------------------------
(***************************************************************************)
(* Proofs about ProxyServer, for any listeners and configurations, any     *)
(* capacity of requestsSema and any number of restarts.                    *)
(***************************************************************************)
EXTENDS ProxyServer, FiniteSetTheorems, TLAPS

\* A slot of requestsSema is held by each live handler and by nobody else.
SlotsOK ==
  /\ used = Cardinality(Live)
  /\ \A t \in Tasks : task[t] = Idle \/ task[t].kind # "idle"

\* The mutex, and the generation whose context is still there.
LifecycleOK ==
  /\ started => op = "none"
  /\ started \/ op # "none" => gen \in Gens
  /\ \A g \in cancelled : g <= gen
  /\ started \/ op = "bind" => gen \notin cancelled

\* Only the current generation has sockets, and only while it is bound, served or closed.
SocketOK(g, l) ==
  /\ g > gen \/ l \notin configured => sock[g][l] = "none"
  /\ g = gen /\ op = "bind" => sock[g][l] \in {"none", "open"}
  /\ g = gen /\ started /\ l \in configured => sock[g][l] \in {"open", "lost"}
  /\ g # gen \/ (op = "none" /\ ~started) => sock[g][l] \in {"none", "closed"}
  /\ sock[g][l] = "lost" => <<g, l>> \in lost

\* A loop runs in a generation that is served or cancelled; it is about to report only
\* what was lost, and it has ended in the served one only after a report.
LoopOK(g, l) ==
  /\ loop[g][l] # "none" => l \in configured /\ (g \in cancelled \/ (started /\ g = gen))
  /\ loop[g][l] \in {"acquire", "last"} => Kinds[l] # "http"
  /\ loop[g][l] = "send" \/ (loop[g][l] = "report" /\ g \notin cancelled) => <<g, l>> \in lost
  /\ started /\ g = gen /\ loop[g][l] \in {"done", "last"} => failures # {}

IInv ==
  /\ TypeOK /\ SlotsOK /\ LifecycleOK /\ failures \subseteq lost
  /\ \A g \in Gens, l \in Listeners : SocketOK(g, l) /\ LoopOK(g, l)

-----------------------------------------------------------------------------
(* The slots *)

LEMMA LiveFinite == IsFiniteSet(Live)
<1>1. IsFiniteSet(Tasks)
  BY ServerAssumption, FS_Interval DEF Tasks
<1>2. Live \in SUBSET Tasks
  BY DEF Live
<1> QED BY <1>1, <1>2, FS_Subset

\* A handler that starts takes one slot.
LEMMA Takes ==
  ASSUME TypeOK, SlotsOK, NEW t, t \notin Live, used < MaxGoroutines,
         Live' = Live \cup {t}, used' = used + 1
  PROVE  used' = Cardinality(Live') /\ used' \in 0..MaxGoroutines
<1>1. Cardinality(Live \cup {t}) = Cardinality(Live) + 1
  BY LiveFinite, FS_AddElement
<1> QED BY <1>1, ServerAssumption DEF TypeOK, SlotsOK

\* A handler that ends gives one back.
LEMMA Releases ==
  ASSUME TypeOK, SlotsOK, NEW t \in Live, Live' = Live \ {t}, used' = used - 1
  PROVE  used' = Cardinality(Live') /\ used' \in 0..MaxGoroutines
<1>1. IsFiniteSet(Live \ {t}) /\ Cardinality(Live \ {t}) = Cardinality(Live) - 1
  BY LiveFinite, FS_RemoveElement
<1>2. Cardinality(Live \ {t}) \in Nat
  BY <1>1, FS_CardinalityType
<1> QED BY <1>1, <1>2, ServerAssumption DEF TypeOK, SlotsOK

\* A step of the handlers is judged by what it does to them.
LEMMA OnlyTasks ==
  ASSUME IInv, UNCHANGED <<lifecycle, sockets, loop, failures>>,
         task' \in [Tasks -> Task], used' \in 0..MaxGoroutines, SlotsOK'
  PROVE  IInv'
<1>1. TypeOK'
  BY DEF IInv, TypeOK, lifecycle, sockets
<1>2. LifecycleOK' /\ (failures \subseteq lost)'
  BY DEF IInv, LifecycleOK, lifecycle, sockets
<1>3. ASSUME NEW g \in Gens, NEW l \in Listeners PROVE SocketOK(g, l)' /\ LoopOK(g, l)'
  <2>1. SocketOK(g, l)'
    BY DEF IInv, SocketOK, lifecycle, sockets
  <2>2. LoopOK(g, l)'
    BY DEF IInv, LoopOK, lifecycle, sockets
  <2> QED BY <2>1, <2>2
<1> QED BY <1>1, <1>2, <1>3 DEF IInv, Gens, Listeners

\* A live handler that moves on stays live.
LEMMA MovesOn ==
  ASSUME IInv, UNCHANGED <<lifecycle, sockets, loop, failures, used>>,
         NEW t \in Tasks, task[t].kind # "idle", NEW x \in Task,
         x.kind = task[t].kind, task' = [task EXCEPT ![t] = x]
  PROVE  IInv'
<1>1. TypeOK /\ SlotsOK
  BY DEF IInv
<1>2. task' \in [Tasks -> Task] /\ \A u \in Tasks : task'[u] = IF u = t THEN x ELSE task[u]
  BY <1>1 DEF TypeOK
<1>3. x # Idle /\ task[t] # Idle
  BY DEF Idle
<1>4. Live' = Live
  BY <1>2, <1>3 DEF Live
<1>5. SlotsOK'
  BY <1>1, <1>2, <1>4 DEF SlotsOK
<1> QED BY <1>1, <1>2, <1>5, OnlyTasks DEF TypeOK

\* The deferred calls of a handler release its own slot and no other.
LEMMA FinishInv ==
  ASSUME IInv, UNCHANGED <<lifecycle, sockets, loop, failures>>,
         NEW t \in Tasks, task[t].kind # "idle", Finish(t)
  PROVE  IInv'
<1>1. TypeOK /\ SlotsOK /\ task \in [Tasks -> Task]
  BY DEF IInv, TypeOK
<1>2. Idle \in Task
  BY ServerAssumption DEF Idle, Task
<1>3. \A u \in Tasks : [task[u] EXCEPT !.of = 0] \in Task /\ [task[u] EXCEPT !.of = 0].kind = task[u].kind
  BY <1>1, ServerAssumption DEF Task
<1>4. \A u \in Tasks : \/ u = t /\ task'[u] = Idle
                       \/ u # t /\ task'[u] = task[u]
                       \/ u # t /\ task[u].of = t /\ task'[u] = [task[u] EXCEPT !.of = 0]
  BY DEF Finish
<1>5. \A u \in Tasks : task'[u] \in Task
  BY <1>1, <1>2, <1>3, <1>4
<1>6. task' = [u \in Tasks |-> task'[u]]
  BY DEF Finish
<1>7. task' \in [Tasks -> Task]
  BY <1>5, <1>6
<1>8. \A u \in Tasks : task[u].of = t => task[u] # Idle
  BY ServerAssumption DEF Idle, Tasks
<1>9. \A u \in Tasks : u # t => (task'[u] = Idle <=> task[u] = Idle) /\ task'[u].kind = task[u].kind
  <2> SUFFICES ASSUME NEW u \in Tasks, u # t
               PROVE  (task'[u] = Idle <=> task[u] = Idle) /\ task'[u].kind = task[u].kind
    OBVIOUS
  <2>1. CASE task'[u] = task[u]
    BY <2>1
  <2>2. CASE task[u].of = t /\ task'[u] = [task[u] EXCEPT !.of = 0]
    <3>1. task[u] # Idle /\ task[u].kind # "idle"
      BY <1>1, <1>8, <2>2 DEF SlotsOK
    <3>2. task'[u].kind = task[u].kind
      BY <1>3, <2>2
    <3> QED BY <3>1, <3>2 DEF Idle
  <2> QED BY <1>4, <2>1, <2>2
<1>10. t \in Live /\ Live' = Live \ {t}
  <2>1. task'[t] = Idle
    BY <1>4
  <2>2. task[t] # Idle
    BY DEF Idle
  <2> QED BY <1>9, <2>1, <2>2 DEF Live
<1>11. used' = Cardinality(Live') /\ used' \in 0..MaxGoroutines
  BY <1>1, <1>10, Releases DEF Finish
<1>12. SlotsOK'
  BY <1>1, <1>4, <1>9, <1>11 DEF SlotsOK
<1> QED BY <1>7, <1>11, <1>12, OnlyTasks

-----------------------------------------------------------------------------
(* The handlers *)

LEMMA TaskMoves ==
  ASSUME IInv, NEW t \in Tasks,
         \/ ConnChecks(t) /\ started
         \/ QueryArrives(t) \/ CancelCloses(t) \/ RequestHandled(t)
  PROVE  IInv'
<1>1. task \in [Tasks -> Task]
  BY DEF IInv, TypeOK
<1>2. task[t].kind # "idle" /\ UNCHANGED <<lifecycle, sockets, loop, failures, used>>
  BY DEF ConnChecks, QueryArrives, CancelCloses, RequestHandled
<1>3. \/ \E pc \in {"read", "handle", "acquire"} : task' = [task EXCEPT ![t].pc = pc]
      \/ task' = [task EXCEPT ![t].open = FALSE]
      \/ \E open \in {task[t].open, FALSE} : task' = [task EXCEPT ![t] = [@ EXCEPT !.pc = "check", !.open = open]]
  BY DEF ConnChecks, QueryArrives, CancelCloses, RequestHandled, TaskTo
<1>4. ASSUME NEW pc \in {"read", "handle", "acquire"}, task' = [task EXCEPT ![t].pc = pc]
      PROVE  IInv'
  <2> DEFINE x == [task[t] EXCEPT !.pc = pc]
  <2>1. x \in Task /\ x.kind = task[t].kind
    BY <1>1 DEF Task
  <2>2. task' = [task EXCEPT ![t] = x]
    BY <1>1, <1>4
  <2> QED BY <1>2, <2>1, <2>2, MovesOn
<1>5. ASSUME task' = [task EXCEPT ![t].open = FALSE]
      PROVE  IInv'
  <2> DEFINE x == [task[t] EXCEPT !.open = FALSE]
  <2>1. x \in Task /\ x.kind = task[t].kind
    BY <1>1 DEF Task
  <2>2. task' = [task EXCEPT ![t] = x]
    BY <1>1, <1>5
  <2> QED BY <1>2, <2>1, <2>2, MovesOn
<1>6. ASSUME NEW open \in {task[t].open, FALSE},
             task' = [task EXCEPT ![t] = [@ EXCEPT !.pc = "check", !.open = open]]
      PROVE  IInv'
  <2> DEFINE x == [task[t] EXCEPT !.pc = "check", !.open = open]
  <2>1. open \in BOOLEAN
    BY <1>1 DEF Task
  <2>2. x \in Task /\ x.kind = task[t].kind
    BY <1>1, <2>1 DEF Task
  <2>3. task' = [task EXCEPT ![t] = x]
    BY <1>6
  <2> QED BY <1>2, <2>2, <2>3, MovesOn
<1> QED BY <1>3, <1>4, <1>5, <1>6

LEMMA TaskEnds ==
  ASSUME IInv, NEW t \in Tasks,
         \/ ConnChecks(t) /\ ~started
         \/ ReadFails(t) \/ ClientGivesUp(t) \/ PacketHandled(t)
         \/ StreamHandled(t) \/ StreamIsCancelled(t)
  PROVE  IInv'
BY FinishInv DEF ConnChecks, ReadFails, ClientGivesUp, PacketHandled, StreamHandled, StreamIsCancelled

\* The stream ends and closes the connection that it belongs to, if that still runs.
LEMMA StreamAbortsInv == ASSUME IInv, NEW t \in Tasks, StreamAborts(t) PROVE IInv'
<1> DEFINE c == task[t].of
           x == [task[c] EXCEPT !.open = FALSE]
<1>1. TypeOK /\ SlotsOK /\ task \in [Tasks -> Task]
  BY DEF IInv, TypeOK
<1>2. c \in Tasks /\ task' = [task EXCEPT ![c].open = FALSE, ![t] = Idle]
  BY <1>1, ServerAssumption DEF StreamAborts, Task, Tasks
<1> HIDE DEF c
<1>3. x \in Task /\ x.kind = task[c].kind /\ (task[c] = Idle => x = Idle)
  <2>1. x \in Task /\ x.kind = task[c].kind
    BY <1>1, <1>2 DEF Task
  <2>2. task[c].open = FALSE => x = task[c]
    BY <1>1, <1>2 DEF Task
  <2>3. Idle.open = FALSE
    BY DEF Idle
  <2> HIDE DEF x
  <2> QED BY <2>1, <2>2, <2>3
<1>4. Idle \in Task
  BY ServerAssumption DEF Idle, Task
<1>5. task' = [[task EXCEPT ![c] = x] EXCEPT ![t] = Idle]
  BY <1>1, <1>2
<1> HIDE DEF x
<1>6. /\ task' \in [Tasks -> Task]
      /\ \A u \in Tasks : task'[u] = IF u = t THEN Idle ELSE IF u = c THEN x ELSE task[u]
  BY <1>1, <1>2, <1>3, <1>4, <1>5
<1>7. t \in Live
  BY DEF StreamAborts, Live, Idle
<1>8. x = Idle <=> task[c] = Idle
  BY <1>1, <1>2, <1>3 DEF SlotsOK, Idle
<1>9. Live' = Live \ {t}
  BY <1>2, <1>6, <1>8 DEF Live
<1>10. used' = Cardinality(Live') /\ used' \in 0..MaxGoroutines
  BY <1>1, <1>7, <1>9, Releases DEF StreamAborts
<1>11. SlotsOK'
  BY <1>1, <1>2, <1>3, <1>6, <1>10 DEF SlotsOK
<1> QED BY <1>6, <1>10, <1>11, OnlyTasks DEF StreamAborts

LEMMA StreamAcquiresInv == ASSUME IInv, NEW t \in Tasks, StreamAcquires(t) PROVE IInv'
<1>1. TypeOK /\ SlotsOK /\ task \in [Tasks -> Task]
  BY DEF IInv, TypeOK
<1>2. PICK u \in Tasks :
        /\ FirstIdle(u)
        /\ task' = [task EXCEPT ![t].pc = "read",
             ![u] = [kind |-> "stream", gen |-> task[t].gen, pc |-> "handle", open |-> TRUE, of |-> t]]
  BY DEF StreamAcquires
<1> DEFINE x == [task[t] EXCEPT !.pc = "read"]
           y == [kind |-> "stream", gen |-> task[t].gen, pc |-> "handle", open |-> TRUE, of |-> t]
<1>3. x \in Task /\ x.kind = "quic" /\ task[t].kind = "quic"
  BY <1>1 DEF StreamAcquires, Task
<1>4. y \in Task /\ y.kind = "stream"
  BY <1>1, ServerAssumption DEF Task, Tasks
<1>5. task' = [[task EXCEPT ![t] = x] EXCEPT ![u] = y]
  BY <1>1, <1>2
<1>6. task[u] = Idle /\ task[t] # Idle /\ x # Idle /\ y # Idle
  BY <1>2, <1>3, <1>4 DEF FirstIdle, Idle
<1> HIDE DEF x, y
<1>7. /\ task' \in [Tasks -> Task]
      /\ \A v \in Tasks : task'[v] = IF v = u THEN y ELSE IF v = t THEN x ELSE task[v]
  BY <1>1, <1>3, <1>4, <1>5
<1>8. u \notin Live /\ Live' = Live \cup {u}
  BY <1>6, <1>7 DEF Live
<1>9. used' = Cardinality(Live') /\ used' \in 0..MaxGoroutines
  BY <1>1, <1>8, Takes DEF StreamAcquires
<1>10. SlotsOK'
  BY <1>1, <1>3, <1>4, <1>7, <1>9 DEF SlotsOK
<1> QED BY <1>7, <1>9, <1>10, OnlyTasks DEF StreamAcquires

-----------------------------------------------------------------------------
(* The listener loops *)

LoopStates == {"none", "check", "read", "acquire", "last", "report", "send", "done"}

\* A step of one loop is judged by where it takes that loop.
LEMMA OneLoopMoves ==
  ASSUME IInv, NEW g \in Gens, NEW l \in Listeners, NEW pc \in LoopStates, LoopTo(g, l, pc),
         UNCHANGED <<lifecycle, sockets>>, failures' \subseteq lost,
         failures # {} => failures' # {},
         LoopOK(g, l)', task' \in [Tasks -> Task], used' \in 0..MaxGoroutines, SlotsOK'
  PROVE  IInv'
<1>1. TypeOK /\ loop \in [Gens -> [Listeners -> LoopStates]]
  BY DEF IInv, TypeOK, LoopStates
<1>2. /\ loop' \in [Gens -> [Listeners -> LoopStates]]
      /\ \A h \in Gens, k \in Listeners : loop'[h][k] = IF h = g /\ k = l THEN pc ELSE loop[h][k]
  BY <1>1 DEF LoopTo
<1>3. UNCHANGED <<configured, started, op, gen, cancelled, sock, lost>>
  BY DEF lifecycle, sockets
<1>4. failures' \subseteq Gens \X Listeners
  BY <1>1 DEF TypeOK
<1>5. TypeOK'
  BY <1>1, <1>2, <1>3, <1>4 DEF TypeOK, LoopStates
<1>6. LifecycleOK' /\ (failures \subseteq lost)'
  BY <1>3 DEF IInv, LifecycleOK
<1>7. ASSUME NEW h \in Gens, NEW k \in Listeners PROVE SocketOK(h, k)' /\ LoopOK(h, k)'
  <2>1. SocketOK(h, k)'
    BY <1>3 DEF IInv, SocketOK
  <2>2. CASE h = g /\ k = l
    BY <2>1, <2>2
  <2>3. CASE ~(h = g /\ k = l)
    <3>1. loop'[h][k] = loop[h][k]
      BY <1>2, <2>3
    <3>2. LoopOK(h, k)
      BY DEF IInv
    <3>3. LoopOK(h, k)'
      BY <1>3, <3>1, <3>2 DEF LoopOK
    <3> QED BY <2>1, <3>3
  <2> QED BY <2>2, <2>3
<1> QED BY <1>5, <1>6, <1>7 DEF IInv, Gens, Listeners

\* What LoopTo makes of the loop itself.
LEMMA LoopGoes ==
  ASSUME TypeOK, NEW g \in Gens, NEW l \in Listeners, NEW pc, LoopTo(g, l, pc)
  PROVE  loop'[g][l] = pc
BY DEF TypeOK, LoopTo

\* The steps that take no slot and send nothing.
LEMMA LoopMoves ==
  ASSUME IInv, NEW g \in Gens, NEW l \in Listeners,
         \/ LoopChecks(g, l) \/ LoopAccepts(g, l) \/ LoopFails(g, l)
         \/ ReportChecks(g, l) \/ LoopIsCancelled(g, l)
  PROVE  IInv'
<1>1. /\ TypeOK /\ SlotsOK /\ LifecycleOK /\ SocketOK(g, l) /\ LoopOK(g, l)
      /\ failures \subseteq lost
  BY DEF IInv
<1>2. UNCHANGED <<lifecycle, sockets, task, used, failures>>
  BY DEF LoopChecks, LoopAccepts, LoopFails, ReportChecks, LoopIsCancelled
<1>3. UNCHANGED <<configured, started, op, gen, cancelled, sock, lost>>
  BY <1>2 DEF lifecycle, sockets
<1>4. task' \in [Tasks -> Task] /\ used' \in 0..MaxGoroutines /\ SlotsOK'
  BY <1>1, <1>2 DEF TypeOK, SlotsOK, Live
<1>5. CASE LoopChecks(g, l)
  <2> DEFINE pc == IF started THEN "read" ELSE "done"
  <2>1. LoopTo(g, l, pc) /\ loop[g][l] = "check" /\ pc \in LoopStates
    BY <1>5 DEF LoopChecks, LoopStates
  <2>2. loop'[g][l] = pc
    BY <1>1, <2>1, LoopGoes
  <2>3. LoopOK(g, l)'
    BY <1>1, <1>2, <1>3, <2>1, <2>2 DEF LoopOK
  <2> QED BY <1>1, <1>2, <1>4, <2>1, <2>3, OneLoopMoves
<1>6. CASE LoopAccepts(g, l)
  <2>1. /\ LoopTo(g, l, "acquire") /\ "acquire" \in LoopStates
        /\ loop[g][l] = "read" /\ Kinds[l] # "http"
    BY <1>6 DEF LoopAccepts, LoopStates
  <2>2. loop'[g][l] = "acquire"
    BY <1>1, <2>1, LoopGoes
  <2>3. LoopOK(g, l)'
    BY <1>1, <1>2, <1>3, <2>1, <2>2 DEF LoopOK
  <2> QED BY <1>1, <1>2, <1>4, <2>1, <2>3, OneLoopMoves
<1>7. CASE LoopFails(g, l)
  <2>1. /\ LoopTo(g, l, "report") /\ "report" \in LoopStates
        /\ loop[g][l] = "read" /\ (sock[g][l] # "open" \/ g \in cancelled)
    BY <1>7 DEF LoopFails, LoopStates
  <2>2. loop'[g][l] = "report"
    BY <1>1, <2>1, LoopGoes
  <2>3. g \notin cancelled => <<g, l>> \in lost
    BY <1>1, <2>1 DEF LoopOK, SocketOK
  <2>4. LoopOK(g, l)'
    BY <1>1, <1>2, <1>3, <2>1, <2>2, <2>3 DEF LoopOK
  <2> QED BY <1>1, <1>2, <1>4, <2>1, <2>4, OneLoopMoves
<1>8. CASE ReportChecks(g, l)
  <2> DEFINE pc == IF g \in cancelled THEN "done" ELSE "send"
  <2>1. LoopTo(g, l, pc) /\ loop[g][l] = "report" /\ pc \in LoopStates
    BY <1>8 DEF ReportChecks, LoopStates
  <2>2. loop'[g][l] = pc
    BY <1>1, <2>1, LoopGoes
  <2>3. LoopOK(g, l)'
    BY <1>1, <1>2, <1>3, <2>1, <2>2 DEF LoopOK, LifecycleOK
  <2> QED BY <1>1, <1>2, <1>4, <2>1, <2>3, OneLoopMoves
<1>9. CASE LoopIsCancelled(g, l)
  <2>1. /\ LoopTo(g, l, "report") /\ "report" \in LoopStates
        /\ loop[g][l] # "none" /\ g \in cancelled
    BY <1>9 DEF LoopIsCancelled, LoopStates
  <2>2. loop'[g][l] = "report"
    BY <1>1, <2>1, LoopGoes
  <2>3. LoopOK(g, l)'
    BY <1>1, <1>2, <1>3, <2>1, <2>2 DEF LoopOK
  <2> QED BY <1>1, <1>2, <1>4, <2>1, <2>3, OneLoopMoves
<1> QED BY <1>5, <1>6, <1>7, <1>8, <1>9

LEMMA ReportSendsInv ==
  ASSUME IInv, NEW g \in Gens, NEW l \in Listeners, ReportSends(g, l)
  PROVE  IInv'
<1>1. TypeOK /\ SlotsOK /\ LoopOK(g, l) /\ failures \subseteq lost
  BY DEF IInv
<1>2. PICK pc \in {"done", "last"} : LoopTo(g, l, pc) /\ (pc = "last" => Kinds[l] = "udp")
  BY DEF ReportSends
<1>3. /\ loop[g][l] = "send" /\ UNCHANGED <<lifecycle, sockets, task, used>>
      /\ failures' = IF failures = {} THEN {<<g, l>>} ELSE failures
  BY DEF ReportSends
<1>4. UNCHANGED <<configured, started, op, gen, cancelled, sock, lost>>
  BY <1>3 DEF lifecycle, sockets
<1>5. task' \in [Tasks -> Task] /\ used' \in 0..MaxGoroutines /\ SlotsOK'
  BY <1>1, <1>3 DEF TypeOK, SlotsOK, Live
<1>6. failures' \subseteq lost /\ failures' # {}
  BY <1>1, <1>3 DEF LoopOK
<1>7. pc \in LoopStates /\ loop'[g][l] = pc
  BY <1>1, <1>2, LoopGoes DEF LoopStates
<1>8. LoopOK(g, l)'
  BY <1>1, <1>2, <1>3, <1>4, <1>6, <1>7 DEF LoopOK
<1> QED BY <1>2, <1>3, <1>5, <1>6, <1>7, <1>8, OneLoopMoves

LEMMA LoopAcquiresInv ==
  ASSUME IInv, NEW g \in Gens, NEW l \in Listeners, LoopAcquires(g, l)
  PROVE  IInv'
<1>1. TypeOK /\ SlotsOK /\ LoopOK(g, l) /\ task \in [Tasks -> Task] /\ failures \subseteq lost
  BY DEF IInv, TypeOK
<1>2. Kinds[l] \in {"udp", "tcp", "quic"}
  BY <1>1, ServerAssumption DEF LoopAcquires, LoopOK, Listeners
<1> DEFINE at == CASE Kinds[l] = "udp" -> "handle"
                   [] Kinds[l] = "tcp" -> "check"
                   [] Kinds[l] = "quic" -> "read"
           x == [kind |-> Kinds[l], gen |-> g, pc |-> at, open |-> TRUE, of |-> 0]
           pc == IF loop[g][l] = "last" THEN "done"
                 ELSE IF Kinds[l] = "udp" THEN "check" ELSE "read"
<1>3. PICK t \in Tasks : FirstIdle(t) /\ task' = [task EXCEPT ![t] = x]
  BY DEF LoopAcquires, Spawn
<1>4. at \in {"handle", "check", "read"}
  BY <1>2
<1>5. /\ pc \in {"done", "check", "read"} /\ (pc = "done" <=> loop[g][l] = "last")
      /\ LoopTo(g, l, pc) /\ UNCHANGED <<lifecycle, sockets, failures>>
  <2>1. LoopTo(g, l, pc) /\ UNCHANGED <<lifecycle, sockets, failures>> /\ loop[g][l] \in {"acquire", "last"}
    BY DEF LoopAcquires
  <2>2. loop[g][l] = "last" => pc = "done"
    BY <1>2
  <2>3. loop[g][l] # "last" => pc \in {"check", "read"}
    BY <1>2
  <2> HIDE DEF pc
  <2> QED BY <2>1, <2>2, <2>3
<1> HIDE DEF at, pc
<1>6. x \in Task /\ x # Idle /\ x.kind # "idle"
  <2>1. x \in Task
    BY <1>2, <1>4, ServerAssumption DEF Task, Gens
  <2>2. x.kind # "idle"
    BY <1>2
  <2> QED BY <2>1, <2>2 DEF Idle
<1> HIDE DEF x
<1>7. task' \in [Tasks -> Task] /\ \A u \in Tasks : task'[u] = IF u = t THEN x ELSE task[u]
  BY <1>1, <1>3, <1>6
<1>8. t \notin Live /\ Live' = Live \cup {t}
  BY <1>3, <1>6, <1>7 DEF Live, FirstIdle
<1>9. used' = Cardinality(Live') /\ used' \in 0..MaxGoroutines
  BY <1>1, <1>8, Takes DEF LoopAcquires
<1>10. SlotsOK'
  BY <1>1, <1>6, <1>7, <1>9 DEF SlotsOK
<1>11. pc \in LoopStates /\ loop'[g][l] = pc
  BY <1>1, <1>5, LoopGoes DEF LoopStates
<1>12. UNCHANGED <<configured, started, op, gen, cancelled, sock, lost>>
  BY <1>5 DEF lifecycle, sockets
<1>13. LoopOK(g, l)'
  BY <1>1, <1>5, <1>11, <1>12 DEF LoopAcquires, LoopOK
<1> QED BY <1>1, <1>5, <1>7, <1>9, <1>10, <1>11, <1>13, OneLoopMoves

-----------------------------------------------------------------------------
(* Start, Shutdown and the sockets *)

SocketStates == {"none", "open", "lost", "closed"}

\* A step of the lifecycle leaves the slots alone.
LEMMA SlotsRest == ASSUME IInv, UNCHANGED <<task, used>> PROVE SlotsOK'
BY DEF IInv, SlotsOK, Live

LEMMA StartBeginsInv == ASSUME IInv, StartBegins PROVE IInv'
<1>1. TypeOK /\ LifecycleOK
  BY DEF IInv
<1>2. /\ op = "none" /\ ~started /\ op' = "bind" /\ gen' = gen + 1 /\ gen < Runs
      /\ UNCHANGED <<configured, started, cancelled, sock, lost, loop, task, used, failures>>
  BY DEF StartBegins, sockets, workers
<1>3. gen' \in Gens /\ gen' \notin cancelled /\ gen' \in 0..Runs
  BY <1>1, <1>2, ServerAssumption DEF TypeOK, LifecycleOK, Gens
<1>4. TypeOK'
  BY <1>1, <1>2, <1>3 DEF TypeOK
<1>5. LifecycleOK'
  <2>1. \A g \in cancelled : g <= gen'
    BY <1>1, <1>2, ServerAssumption DEF TypeOK, LifecycleOK, Gens
  <2> QED BY <1>1, <1>2, <1>3, <2>1 DEF LifecycleOK
<1>6. ASSUME NEW g \in Gens, NEW l \in Listeners PROVE SocketOK(g, l)' /\ LoopOK(g, l)'
  <2>1. SocketOK(g, l) /\ LoopOK(g, l)
    BY DEF IInv
  <2>2. (g > gen' => g > gen) /\ (g = gen' => g > gen)
    BY <1>1, <1>2, ServerAssumption DEF TypeOK, Gens
  <2>3. SocketOK(g, l)'
    BY <1>2, <2>1, <2>2 DEF SocketOK
  <2>4. LoopOK(g, l)'
    BY <1>2, <2>1 DEF LoopOK
  <2> QED BY <2>3, <2>4
<1> QED BY <1>2, <1>4, <1>5, <1>6, SlotsRest DEF IInv, Gens, Listeners

\* Bind, the closing of a listener and the loss of one: one socket of the current
\* generation changes, under the mutex or while the proxy serves.
LEMMA OneSocketMoves ==
  ASSUME IInv, NEW l \in Listeners, NEW to \in SocketStates, gen \in Gens,
         sock' = [sock EXCEPT ![gen][l] = to],
         lost' = lost \/ lost' = lost \cup {<<gen, l>>},
         UNCHANGED <<lifecycle, workers>>,
         SocketOK(gen, l)'
  PROVE  IInv'
<1>1. TypeOK /\ LifecycleOK
  BY DEF IInv
<1>2. UNCHANGED <<configured, started, op, gen, cancelled, loop, task, used, failures>>
  BY DEF lifecycle, workers
<1>3. /\ sock' \in [Gens -> [Listeners -> SocketStates]]
      /\ \A h \in Gens, k \in Listeners : ~(h = gen /\ k = l) => sock'[h][k] = sock[h][k]
  BY <1>1 DEF TypeOK, SocketStates
<1>4. lost \subseteq lost' /\ lost' \subseteq Gens \X Listeners
  BY <1>1 DEF TypeOK
<1>5. TypeOK'
  BY <1>1, <1>2, <1>3, <1>4 DEF TypeOK, SocketStates
<1>6. LifecycleOK' /\ failures' \subseteq lost'
  BY <1>1, <1>2, <1>4 DEF IInv, LifecycleOK
<1>7. ASSUME NEW h \in Gens, NEW k \in Listeners PROVE SocketOK(h, k)' /\ LoopOK(h, k)'
  <2>1. SocketOK(h, k) /\ LoopOK(h, k)
    BY DEF IInv
  <2>2. LoopOK(h, k)'
    BY <1>2, <1>4, <2>1 DEF LoopOK
  <2>3. CASE h = gen /\ k = l
    BY <1>2, <2>2, <2>3
  <2>4. CASE ~(h = gen /\ k = l)
    <3>1. sock'[h][k] = sock[h][k]
      BY <1>3, <2>4
    <3>2. SocketOK(h, k)'
      BY <1>2, <1>4, <2>1, <3>1 DEF SocketOK
    <3> QED BY <2>2, <3>2
  <2> QED BY <2>3, <2>4
<1> QED BY <1>2, <1>5, <1>6, <1>7, SlotsRest DEF IInv, Gens, Listeners

LEMMA SocketMoves ==
  ASSUME IInv, NEW l \in Listeners, Bind(l) \/ CloseListener(l) \/ SocketIsLost(l)
  PROVE  IInv'
<1>1. TypeOK /\ LifecycleOK /\ gen \in Gens
  BY DEF IInv, LifecycleOK, Bind, CloseListener, SocketIsLost
<1>2. SocketOK(gen, l) /\ sock \in [Gens -> [Listeners -> SocketStates]]
  BY <1>1 DEF IInv, TypeOK, SocketStates
<1>3. UNCHANGED <<lifecycle, workers>>
  BY DEF Bind, CloseListener, SocketIsLost
<1>4. UNCHANGED <<configured, started, op, gen>>
  BY <1>3 DEF lifecycle
<1>5. ~(gen > gen)
  BY <1>1, ServerAssumption DEF Gens
<1>6. CASE Bind(l)
  <2>1. /\ op = "bind" /\ l \in configured /\ sock' = [sock EXCEPT ![gen][l] = "open"]
        /\ lost' = lost /\ "open" \in SocketStates
    BY <1>6 DEF Bind, SocketStates
  <2>2. sock'[gen][l] = "open"
    BY <1>1, <1>2, <2>1
  <2>3. SocketOK(gen, l)'
    BY <1>1, <1>4, <1>5, <2>1, <2>2 DEF SocketOK, LifecycleOK
  <2> QED BY <1>1, <1>3, <2>1, <2>3, OneSocketMoves
<1>7. CASE CloseListener(l)
  <2>1. /\ op = "close" /\ l \in configured /\ sock' = [sock EXCEPT ![gen][l] = "closed"]
        /\ lost' = lost /\ "closed" \in SocketStates
    BY <1>7 DEF CloseListener, Unclosed, SocketStates
  <2>2. sock'[gen][l] = "closed"
    BY <1>1, <1>2, <2>1
  <2>3. SocketOK(gen, l)'
    BY <1>1, <1>4, <1>5, <2>1, <2>2 DEF SocketOK, LifecycleOK
  <2> QED BY <1>1, <1>3, <2>1, <2>3, OneSocketMoves
<1>8. CASE SocketIsLost(l)
  <2>1. /\ started /\ sock[gen][l] = "open" /\ sock' = [sock EXCEPT ![gen][l] = "lost"]
        /\ lost' = lost \cup {<<gen, l>>} /\ "lost" \in SocketStates
    BY <1>8 DEF SocketIsLost, SocketStates
  <2>2. sock'[gen][l] = "lost" /\ l \in configured /\ <<gen, l>> \in lost'
    BY <1>1, <1>2, <2>1 DEF SocketOK
  <2>3. SocketOK(gen, l)'
    BY <1>1, <1>4, <1>5, <2>1, <2>2 DEF SocketOK, LifecycleOK
  <2> QED BY <1>1, <1>3, <2>1, <2>3, OneSocketMoves
<1> QED BY <1>6, <1>7, <1>8

\* A Start that fails closes what it has bound.
LEMMA StartFailsInv == ASSUME IInv, StartFails PROVE IInv'
<1>1. TypeOK /\ LifecycleOK /\ sock \in [Gens -> [Listeners -> SocketStates]]
  BY DEF IInv, TypeOK, SocketStates
<1>2. /\ op = "bind" /\ ~started /\ gen \in Gens /\ op' = "none"
      /\ cancelled' = cancelled \cup {gen}
      /\ UNCHANGED <<configured, started, gen, lost, loop, task, used, failures>>
  BY <1>1 DEF StartFails, LifecycleOK, workers
<1>3. /\ sock' \in [Gens -> [Listeners -> SocketStates]]
      /\ \A h \in Gens, k \in Listeners :
           sock'[h][k] = IF h = gen /\ sock[h][k] = "open" THEN "closed" ELSE sock[h][k]
  <2> DEFINE f == [l \in Listeners |-> IF sock[gen][l] = "open" THEN "closed" ELSE sock[gen][l]]
  <2>1. sock' = [sock EXCEPT ![gen] = f]
    BY DEF StartFails
  <2>2. f \in [Listeners -> SocketStates]
    BY <1>1, <1>2 DEF SocketStates
  <2> QED BY <1>1, <1>2, <2>1, <2>2
<1>4. cancelled' \subseteq Gens /\ \A g \in cancelled' : g <= gen
  BY <1>1, <1>2, ServerAssumption DEF TypeOK, LifecycleOK, Gens
<1>5. TypeOK'
  BY <1>1, <1>2, <1>3, <1>4 DEF TypeOK, SocketStates
<1>6. LifecycleOK'
  BY <1>1, <1>2, <1>4 DEF LifecycleOK
<1>7. ASSUME NEW g \in Gens, NEW l \in Listeners PROVE SocketOK(g, l)' /\ LoopOK(g, l)'
  <2>1. SocketOK(g, l) /\ LoopOK(g, l)
    BY DEF IInv
  <2>2. SocketOK(g, l)'
    BY <1>2, <1>3, <2>1 DEF SocketOK
  <2>3. LoopOK(g, l)'
    BY <1>2, <2>1 DEF LoopOK
  <2> QED BY <2>2, <2>3
<1> QED BY <1>2, <1>5, <1>6, <1>7, SlotsRest DEF IInv, Gens, Listeners

LEMMA StartServesInv == ASSUME IInv, StartServes PROVE IInv'
<1>1. TypeOK /\ LifecycleOK /\ loop \in [Gens -> [Listeners -> LoopStates]]
  BY DEF IInv, TypeOK, LoopStates
<1>2. /\ op = "bind" /\ ~started /\ gen \in Gens /\ gen \notin cancelled
      /\ started' = TRUE /\ op' = "none" /\ \A l \in configured : sock[gen][l] = "open"
      /\ UNCHANGED <<configured, gen, cancelled, sock, lost, task, used, failures>>
  BY <1>1 DEF StartServes, LifecycleOK, sockets
<1> DEFINE f == [l \in Listeners |-> IF l \notin configured THEN "none"
                                     ELSE IF Kinds[l] = "udp" THEN "check" ELSE "read"]
<1>3. loop' = [loop EXCEPT ![gen] = f]
  BY DEF StartServes
<1>4. \A l \in Listeners : f[l] \in {"none", "check", "read"} /\ (f[l] # "none" => l \in configured)
  OBVIOUS
<1>5. f \in [Listeners -> {"none", "check", "read"}]
  OBVIOUS
<1> HIDE DEF f
<1>6. /\ loop' \in [Gens -> [Listeners -> LoopStates]]
      /\ \A h \in Gens, k \in Listeners : loop'[h][k] = IF h = gen THEN f[k] ELSE loop[h][k]
  BY <1>1, <1>2, <1>3, <1>4, <1>5 DEF LoopStates
<1>7. TypeOK'
  BY <1>1, <1>2, <1>6 DEF TypeOK, LoopStates
<1>8. LifecycleOK'
  BY <1>1, <1>2 DEF LifecycleOK
<1>9. ASSUME NEW g \in Gens, NEW l \in Listeners PROVE SocketOK(g, l)' /\ LoopOK(g, l)'
  <2>1. SocketOK(g, l) /\ LoopOK(g, l)
    BY DEF IInv
  <2>2. SocketOK(g, l)'
    BY <1>2, <2>1 DEF SocketOK
  <2>3. LoopOK(g, l)'
    <3>1. CASE g = gen
      <4>1. loop'[g][l] = f[l]
        BY <1>6, <3>1
      <4> QED BY <1>2, <1>4, <3>1, <4>1 DEF LoopOK
    <3>2. CASE g # gen
      <4>1. loop'[g][l] = loop[g][l]
        BY <1>6, <3>2
      <4> QED BY <1>2, <2>1, <3>2, <4>1 DEF LoopOK
    <3> QED BY <3>1, <3>2
  <2> QED BY <2>2, <2>3
<1> QED BY <1>2, <1>7, <1>8, <1>9, SlotsRest DEF IInv, Gens, Listeners

LEMMA ShutdownBeginsInv == ASSUME IInv, ShutdownBegins PROVE IInv'
<1>1. TypeOK /\ LifecycleOK
  BY DEF IInv
<1>2. /\ op = "none" /\ started /\ gen \in Gens /\ started' = FALSE /\ op' = "close"
      /\ cancelled' = cancelled \cup {gen}
      /\ UNCHANGED <<configured, gen, sock, lost, loop, task, used, failures>>
  BY <1>1 DEF ShutdownBegins, LifecycleOK, sockets, workers
<1>3. cancelled' \subseteq Gens /\ \A g \in cancelled' : g <= gen
  BY <1>1, <1>2, ServerAssumption DEF TypeOK, LifecycleOK, Gens
<1>4. TypeOK'
  BY <1>1, <1>2, <1>3 DEF TypeOK
<1>5. LifecycleOK'
  BY <1>1, <1>2, <1>3 DEF LifecycleOK
<1>6. ASSUME NEW g \in Gens, NEW l \in Listeners PROVE SocketOK(g, l)' /\ LoopOK(g, l)'
  <2>1. SocketOK(g, l) /\ LoopOK(g, l)
    BY DEF IInv
  <2>2. SocketOK(g, l)'
    BY <1>2, <2>1 DEF SocketOK
  <2>3. LoopOK(g, l)'
    BY <1>2, <2>1 DEF LoopOK
  <2> QED BY <2>2, <2>3
<1> QED BY <1>2, <1>4, <1>5, <1>6, SlotsRest DEF IInv, Gens, Listeners

\* Shutdown returns when every socket of its generation is closed.
LEMMA ShutdownEndsInv == ASSUME IInv, ShutdownEnds PROVE IInv'
<1>1. TypeOK /\ LifecycleOK
  BY DEF IInv
<1>2. /\ op = "close" /\ ~started /\ gen \in Gens /\ op' = "none" /\ Unclosed = {}
      /\ UNCHANGED <<configured, started, gen, cancelled, sock, lost, loop, task, used, failures>>
  BY <1>1 DEF ShutdownEnds, LifecycleOK, sockets, workers
<1>3. TypeOK' /\ LifecycleOK'
  BY <1>1, <1>2 DEF TypeOK, LifecycleOK
<1>4. ASSUME NEW g \in Gens, NEW l \in Listeners PROVE SocketOK(g, l)' /\ LoopOK(g, l)'
  <2>1. SocketOK(g, l) /\ LoopOK(g, l) /\ sock[g][l] \in SocketStates
    BY <1>1 DEF IInv, TypeOK, SocketStates
  <2>2. sock[g][l] \in {"none", "closed"}
    BY <1>2, <2>1 DEF SocketOK, Unclosed, SocketStates
  <2>3. SocketOK(g, l)'
    BY <1>2, <2>1, <2>2 DEF SocketOK
  <2>4. LoopOK(g, l)'
    BY <1>2, <2>1 DEF LoopOK
  <2> QED BY <2>3, <2>4
<1> QED BY <1>2, <1>3, <1>4, SlotsRest DEF IInv, Gens, Listeners

LEMMA OwnerReadsInv == ASSUME IInv, OwnerReads PROVE IInv'
<1>1. TypeOK /\ LifecycleOK
  BY DEF IInv
<1>2. /\ ~started /\ failures' = {}
      /\ UNCHANGED <<configured, started, op, gen, cancelled, sock, lost, loop, task, used>>
  BY DEF OwnerReads, lifecycle, sockets
<1>3. TypeOK' /\ LifecycleOK' /\ failures' \subseteq lost'
  BY <1>1, <1>2 DEF TypeOK, LifecycleOK
<1>4. ASSUME NEW g \in Gens, NEW l \in Listeners PROVE SocketOK(g, l)' /\ LoopOK(g, l)'
  <2>1. SocketOK(g, l) /\ LoopOK(g, l)
    BY DEF IInv
  <2>2. SocketOK(g, l)'
    BY <1>2, <2>1 DEF SocketOK
  <2>3. LoopOK(g, l)'
    BY <1>2, <2>1 DEF LoopOK
  <2> QED BY <2>2, <2>3
<1> QED BY <1>2, <1>3, <1>4, SlotsRest DEF IInv, Gens, Listeners

-----------------------------------------------------------------------------
(* The theorems *)

LEMMA InitIInv == Init => IInv
<1> SUFFICES ASSUME Init PROVE IInv
  OBVIOUS
<1>1. Idle \in Task
  BY ServerAssumption DEF Idle, Task
<1>2. TypeOK
  <2>1. 0 \in 0..MaxGoroutines /\ 0 \in 0..Runs
    BY ServerAssumption
  <2>2. /\ sock \in [Gens -> [Listeners -> SocketStates]]
        /\ loop \in [Gens -> [Listeners -> LoopStates]] /\ task \in [Tasks -> Task]
    BY <1>1 DEF Init, SocketStates, LoopStates
  <2> QED BY <2>1, <2>2 DEF Init, TypeOK, SocketStates, LoopStates
<1>3. SlotsOK
  <2>1. Live = {}
    BY DEF Init, Live
  <2>2. Cardinality(Live) = 0
    BY <2>1, FS_EmptySet
  <2> QED BY <2>2 DEF Init, SlotsOK
<1>4. LifecycleOK /\ failures \subseteq lost
  BY DEF Init, LifecycleOK
<1>5. \A g \in Gens, l \in Listeners : SocketOK(g, l) /\ LoopOK(g, l)
  BY DEF Init, SocketOK, LoopOK
<1> QED BY <1>2, <1>3, <1>4, <1>5 DEF IInv

LEMMA NextIInv == IInv /\ [Next]_vars => IInv'
<1> SUFFICES ASSUME IInv, [Next]_vars PROVE IInv'
  OBVIOUS
<1>1. ASSUME Lifecycle PROVE IInv'
  BY <1>1, StartBeginsInv, StartFailsInv, StartServesInv, ShutdownBeginsInv, ShutdownEndsInv,
     SocketMoves DEF Lifecycle
<1>2. ASSUME Environment PROVE IInv'
  BY <1>2, OwnerReadsInv, SocketMoves, LoopMoves, TaskMoves, TaskEnds, StreamAbortsInv DEF Environment
<1>3. ASSUME NEW g \in Gens, NEW l \in Listeners, LoopSteps(g, l) PROVE IInv'
  BY <1>3, LoopMoves, ReportSendsInv, LoopAcquiresInv DEF LoopSteps
<1>4. ASSUME NEW t \in Tasks, TaskSteps(t) PROVE IInv'
  BY <1>4, TaskMoves, TaskEnds, StreamAcquiresInv DEF TaskSteps
<1>5. CASE UNCHANGED vars
  <2>1. UNCHANGED <<lifecycle, sockets, loop, failures>> /\ UNCHANGED <<task, used>>
    BY <1>5 DEF vars, lifecycle, sockets
  <2>2. task' \in [Tasks -> Task] /\ used' \in 0..MaxGoroutines
    BY <2>1 DEF IInv, TypeOK
  <2> QED BY <2>1, <2>2, SlotsRest, OnlyTasks
<1> QED BY <1>1, <1>2, <1>3, <1>4, <1>5 DEF Next

LEMMA Invariance == Spec => []IInv
BY InitIInv, NextIInv, PTL DEF Spec

\* Whatever listeners and however many restarts there are, the slots of requestsSema
\* that are taken are as many as the handlers that run: Finish releases on every path
\* what Acquire took, so the semaphore is neither drained nor overfilled.
THEOREM SlotsAreAccounted == Spec => []SlotsAccounted
<1>1. IInv => SlotsAccounted
  BY DEF IInv, SlotsOK, SlotsAccounted
<1> QED BY <1>1, Invariance, PTL

\* Neither closeListeners in Shutdown nor Start's deferred function leaves a socket of
\* any generation bound.
THEOREM NothingStaysBound == Spec => []NothingBoundWhileStopped
<1>1. IInv => NothingBoundWhileStopped
  BY DEF IInv, SocketOK, NothingBoundWhileStopped
<1> QED BY <1>1, Invariance, PTL

\* reportListenerFailure sends only for a socket that failed on its own, and a loop of
\* the served generation does not end without a failure in the channel.
THEOREM OnlyLossesAreReported == Spec => []FailuresAreReported
<1>1. ASSUME IInv, started, NEW l \in Listeners, loop[gen][l] = "done" PROVE failures # {}
  <2>1. gen \in Gens
    BY <1>1 DEF IInv, LifecycleOK
  <2> QED BY <1>1, <2>1 DEF IInv, LoopOK
<1>2. IInv => FailuresAreReported
  BY <1>1 DEF IInv, FailuresAreReported
<1> QED BY <1>2, Invariance, PTL
=============================================================================
