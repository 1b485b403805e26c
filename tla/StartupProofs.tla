---------------------------- MODULE StartupProofs ----------------------------
(***************************************************************************)
(* What module Startup guarantees for every set of requests, every answer  *)
(* of the backend and every number of attempts.                            *)
(***************************************************************************)
EXTENDS Startup, TLAPS

(* The loop is left with the last attempt, and each attempt pauses between *)
(* one second and the cap.                                                 *)
Counted ==
  /\ main \in {"asking", "pausing"} => attempt < MaxAttempts
  /\ PausesBounded

(* The codecs are fetched, then stored, and only then is anything served.  *)
Settled ==
  /\ main = "setting" => fetched \in Codecs
  /\ main \in {"binding", "serving", "stopped"} => cell \in Codecs
  /\ \A r \in Request : request[r] # "none" => main \in {"serving", "stopped"}

IInv == TypeOK /\ Counted /\ Settled

(* Doubling keeps a pause between one second and the cap.                  *)
LEMMA PauseInRange ==
  ASSUME NEW b \in 1 .. MaxBackoff
  PROVE  Doubled(b) \in 1 .. MaxBackoff
  BY BackoffAssumption DEF Doubled

(* One more pause within the cap keeps the sum within the cap per attempt. *)
LEMMA OneMorePause ==
  ASSUME NEW n \in Nat, NEW s \in Nat, NEW b \in 1 .. MaxBackoff,
         n <= s, s <= n * MaxBackoff
  PROVE  /\ s + b \in Nat
         /\ n + 1 <= s + b
         /\ s + b <= (n + 1) * MaxBackoff
<1>1. b \in Nat /\ 1 <= b /\ b <= MaxBackoff /\ MaxBackoff \in Nat
  BY BackoffAssumption
<1>2. (n + 1) * MaxBackoff = n * MaxBackoff + MaxBackoff /\ n * MaxBackoff \in Nat
  BY <1>1
<1> QED
  BY <1>1, <1>2

LEMMA InitIInv == Init => IInv
<1>1. Init => TypeOK
  <2>1. 0 \in 0 .. MaxAttempts /\ 1 \in 1 .. MaxBackoff
    BY AttemptsAssumption, BackoffAssumption
  <2> SUFFICES ASSUME Init PROVE TypeOK
    OBVIOUS
  <2>2. request \in [Request -> {"none", "running", "done", "dropped"}]
    BY DEF Init
  <2>3. TypeOK!1 /\ TypeOK!2 /\ TypeOK!3 /\ TypeOK!4
    BY <2>1 DEF Init, Ended
  <2>4. TypeOK!5 /\ TypeOK!6 /\ TypeOK!7 /\ TypeOK!8
    BY DEF Init
  <2> QED
    BY <2>2, <2>3, <2>4 DEF TypeOK
<1>3. Init => Settled
  BY DEF Init, Settled
<1>2. Init => Counted
  BY AttemptsAssumption, BackoffAssumption DEF Init, Counted, PausesBounded
<1> QED
  BY <1>1, <1>2, <1>3 DEF IInv

\* A pause is the one step that counts.
LEMMA PauseKeeps == IInv /\ Pause => IInv'
<1> SUFFICES ASSUME IInv, Pause PROVE IInv'
  OBVIOUS
<1>1. attempt \in Nat /\ attempt < MaxAttempts /\ slept \in Nat /\ backoff \in 1 .. MaxBackoff
  BY DEF IInv, TypeOK, Counted, Pause
<1>2. attempt <= slept /\ slept <= attempt * MaxBackoff
  BY DEF IInv, Counted, PausesBounded
<1>3. slept' \in Nat /\ attempt' <= slept' /\ slept' <= attempt' * MaxBackoff
  BY <1>1, <1>2, OneMorePause DEF Pause
<1>4. attempt' \in 0 .. MaxAttempts /\ backoff' \in 1 .. MaxBackoff
  BY <1>1, PauseInRange, AttemptsAssumption DEF Pause
<1>5. main' \in {"asking", "exhausted"} /\ UNCHANGED <<fetched, cell, token, grace, request>>
  BY DEF Pause
<1>6. TypeOK'
  BY <1>3, <1>4, <1>5 DEF IInv, TypeOK, Ended
<1>7. (main' = "asking" => attempt' < MaxAttempts) /\ (main' = "exhausted" => attempt' = MaxAttempts)
  BY <1>1, AttemptsAssumption DEF Pause
<1>8. Counted'
  BY <1>3, <1>5, <1>7 DEF Counted, PausesBounded
<1>9. Settled'
  BY <1>5 DEF IInv, Settled, Pause
<1> QED
  BY <1>6, <1>8, <1>9 DEF IInv

\* Every other step leaves the counting alone.
LEMMA OthersKeep == IInv /\ [Next]_vars /\ ~Pause => IInv'
<1> SUFFICES ASSUME IInv, [Next]_vars, ~Pause PROVE IInv'
  OBVIOUS
<1> USE DEF IInv
<1>1. UNCHANGED <<attempt, backoff, slept>> /\ (main' \in {"asking", "pausing"} => main \in {"asking", "pausing"})
      /\ (main' = "exhausted" => main = "exhausted")
  BY DEF Next, CtrlC, Ask, GiveUpAsking, Fetch, FetchFails, SetCodecs, Bind, Accept, Finish,
         BeginGrace, EndGrace, Stop, vars
<1>2. Counted'
  BY <1>1 DEF Counted, PausesBounded
<1>3. TypeOK' /\ Settled'
  <2> USE DEF TypeOK, Settled, Ended
  <2>1. CASE CtrlC
    BY <2>1 DEF CtrlC
  <2>2. CASE Ask
    BY <2>2 DEF Ask, GiveUpAsking, Fetch, FetchFails
  <2>3. CASE SetCodecs
    BY <2>3, UnsetAssumption DEF SetCodecs
  <2>4. CASE Bind
    BY <2>4 DEF Bind
  <2>5. ASSUME NEW r \in Request, Accept(r) \/ Finish(r)
        PROVE  TypeOK' /\ Settled'
    BY <2>5 DEF Accept, Finish
  <2>6. CASE BeginGrace \/ EndGrace
    BY <2>6 DEF BeginGrace, EndGrace
  <2>7. CASE Stop
    BY <2>7 DEF Stop, Dropped, Running
  <2>8. CASE UNCHANGED vars
    BY <2>8 DEF vars
  <2> QED
    BY <2>1, <2>2, <2>3, <2>4, <2>5, <2>6, <2>7, <2>8 DEF Next
<1> QED
  BY <1>2, <1>3

LEMMA Invariance == Spec => []IInv
<1>1. IInv /\ [Next]_vars => IInv'
  BY PauseKeeps, OthersKeep
<1> QED
  BY <1>1, InitIInv, PTL DEF Spec

(* The type invariant.                                                     *)
THEOREM StartupTyped == Spec => []TypeOK
<1>1. IInv => TypeOK
  BY DEF IInv
<1> QED
  BY <1>1, Invariance, PTL

(* Whatever the backend answers and whenever Ctrl+C is pressed, a request  *)
(* is only ever accepted with the codecs of the backend in place.          *)
THEOREM CodecsFirst == Spec => []CodecsBeforeRequests
<1>1. IInv => CodecsBeforeRequests
  BY DEF IInv, Settled, CodecsBeforeRequests
<1> QED
  BY <1>1, Invariance, PTL

(* For any number of attempts and any cap, the pauses stay within one      *)
(* second and the cap for each attempt.                                    *)
THEOREM PausesStayBounded == Spec => []PausesBounded
<1>1. IInv => PausesBounded
  BY DEF IInv, Counted
<1> QED
  BY <1>1, Invariance, PTL
=============================================================================
