----------------------------- MODULE ServerRun -----------------------------
(***************************************************************************)
(* What a dnscrypt.Server promises the proxy: a run takes in no datagram   *)
(* and no connection once it is stopped or has lost its socket, and has    *)
(* ended, which closes the channel done, only when it has dealt with the   *)
(* last one it took and all handlers have returned.  What was taken before *)
(* the stop may still get a handler after it.  DNSCryptServer implements   *)
(* this, and ProxyDNSCrypt relies on it.                                   *)
(***************************************************************************)
CONSTANTS Servers, Handlers

VARIABLES
  phase,    \* phase[s]: "idle" until the first run
  taken,    \* the servers whose serving goroutine holds a datagram or connection
  working   \* working[s]: the handlers that the run has admitted

vars == <<phase, taken, working>>

Init ==
  /\ phase = [s \in Servers |-> "idle"]
  /\ taken = {}
  /\ working = [s \in Servers |-> {}]

PhaseTo(s, to) == phase' = [phase EXCEPT ![s] = to] /\ UNCHANGED <<taken, working>>

Start(s) == phase[s] \in {"idle", "ended"} /\ PhaseTo(s, "running")

\* The serving goroutine reads or accepts one at a time.
Take(s) ==
  /\ phase[s] = "running" /\ s \notin taken
  /\ taken' = taken \cup {s}
  /\ UNCHANGED <<phase, working>>

Admit(s, h) ==
  /\ s \in taken /\ h \notin working[s]
  /\ working' = [working EXCEPT ![s] = @ \cup {h}]
  /\ taken' = taken \ {s}
  /\ UNCHANGED phase

Drop(s) == s \in taken /\ taken' = taken \ {s} /\ UNCHANGED <<phase, working>>

Finish(s, h) ==
  /\ h \in working[s]
  /\ working' = [working EXCEPT ![s] = @ \ {h}]
  /\ UNCHANGED <<phase, taken>>

\* The listening socket fails, and the run takes in nothing more.
Lose(s) == phase[s] = "running" /\ s \notin taken /\ PhaseTo(s, "lost")

Stop(s) == phase[s] \in {"running", "lost"} /\ PhaseTo(s, "stopping")

End(s) ==
  /\ phase[s] \in {"stopping", "lost"} /\ s \notin taken /\ working[s] = {}
  /\ PhaseTo(s, "ended")

Next ==
  \E s \in Servers :
    \/ Start(s) \/ Take(s) \/ Drop(s) \/ Lose(s) \/ Stop(s) \/ End(s)
    \/ \E h \in Handlers : Admit(s, h) \/ Finish(s, h)

Spec == Init /\ [][Next]_vars
=============================================================================
