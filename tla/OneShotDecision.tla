-------------------------- MODULE OneShotDecision --------------------------
(***************************************************************************)
(* What the logical receipt of one upstream exchange promises, without the *)
(* clock, the lock, the tickets or the protocols: one decision, taken once.*)
(* A complete answer is first observed as a candidate and only then        *)
(* decided on; closing admission leaves at most the candidate in hand.     *)
(***************************************************************************)
EXTENDS Naturals

CONSTANTS Receipts,     \* observation times a candidate may carry
          Answers,      \* decoded responses
          Failures,     \* errors a decision may carry
          NoAnswer, NoFailure, NoCandidate

VARIABLES decision, candidate, open

absVars == <<decision, candidate, open>>

Undecided == [answer |-> NoAnswer, at |-> 0, err |-> NoFailure]
Answered(a, t) == [answer |-> a, at |-> t, err |-> NoFailure]
Failed(e) == [answer |-> NoAnswer, at |-> 0, err |-> e]

Init ==
  /\ decision = Undecided
  /\ candidate = NoCandidate
  /\ open = TRUE

\* A complete message is observed while admission is open.
Observe(t) ==
  /\ decision = Undecided /\ candidate = NoCandidate /\ open
  /\ candidate' = t
  /\ UNCHANGED <<decision, open>>

\* The candidate turned out not to be an answer.  With admission closed there
\* is nothing left to wait for, so the exchange fails in the same step.
Discard ==
  /\ candidate # NoCandidate
  /\ candidate' = NoCandidate
  /\ IF open THEN UNCHANGED decision
             ELSE \E e \in Failures : decision' = Failed(e)
  /\ UNCHANGED open

Publish(a) ==
  /\ candidate # NoCandidate
  /\ decision' = Answered(a, candidate)
  /\ candidate' = NoCandidate
  /\ UNCHANGED open

Fail(e) ==
  /\ decision = Undecided
  /\ decision' = Failed(e)
  /\ candidate' = NoCandidate
  /\ UNCHANGED open

\* Admission closes.  Without a candidate in hand this is also the decision.
Close ==
  /\ open' = FALSE
  /\ UNCHANGED candidate
  /\ IF decision = Undecided /\ candidate = NoCandidate
       THEN \E e \in Failures : decision' = Failed(e)
       ELSE UNCHANGED decision

Next ==
  \/ \E t \in Receipts : Observe(t)
  \/ Discard
  \/ \E a \in Answers : Publish(a)
  \/ \E e \in Failures : Fail(e)
  \/ Close

Spec == Init /\ [][Next]_absVars
=============================================================================
