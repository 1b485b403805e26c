------------------------------- MODULE Startup -------------------------------
(***************************************************************************)
(* The life of the rzgate process: main.rs, async_main and                 *)
(* get_codecs_with_retry in lib.rs, the OnceCell of bitmask.rs and the     *)
(* HTTP server of server.rs.                                               *)
(*                                                                         *)
(* The process asks the backend for its codecs, again and again with a     *)
(* growing pause, stores them once, binds its port, serves, and ends when  *)
(* the token of main.rs is cancelled, with a grace period for the requests *)
(* that are running.  What a request does is the matter of Connection and  *)
(* Reply: here it runs, and is answered or not.                            *)
(*                                                                         *)
(* axum_server is external: graceful_shutdown stops it from accepting, and *)
(* serve returns when nothing runs or when the grace period is over.       *)
(***************************************************************************)
EXTENDS Naturals

CONSTANTS
  Request,      \* HTTP requests
  Codecs,       \* what the backend may give as codecs
  Unset,        \* the OnceCell before set
  MaxAttempts,  \* max_attempts; 60 in the code
  MaxBackoff    \* max_backoff; 5 seconds in the code

ASSUME UnsetAssumption == Unset \notin Codecs
ASSUME AttemptsAssumption == MaxAttempts \in Nat \ {0}
ASSUME BackoffAssumption == MaxBackoff \in Nat /\ MaxBackoff >= 1

VARIABLES
  main,      \* where async_main is
  attempt,   \* the loop variable of get_codecs_with_retry
  backoff,   \* the next pause in seconds
  slept,     \* history: the seconds spent in pauses
  fetched,   \* the codecs between get_codecs_with_retry and set_codecs
  cell,      \* RATE_FEATURES
  token,     \* the cancellation token
  grace,     \* the grace period: "off", "on", "over"
  request    \* Request -> "none", "running", "done", "dropped"

vars == <<main, attempt, backoff, slept, fetched, cell, token, grace, request>>

Ended == {"stopped", "refused", "exhausted", "crashed"}

TypeOK ==
  /\ main \in {"asking", "pausing", "setting", "binding", "serving"} \cup Ended
  /\ attempt \in 0 .. MaxAttempts
  /\ backoff \in 1 .. MaxBackoff
  /\ slept \in Nat
  /\ fetched \in Codecs \cup {Unset}
  /\ cell \in Codecs \cup {Unset}
  /\ token \in BOOLEAN
  /\ grace \in {"off", "on", "over"}
  /\ request \in [Request -> {"none", "running", "done", "dropped"}]

-----------------------------------------------------------------------------
\* Variant: a backoff without its cap.
DoubledUncapped(b) == 2 * b

\* (backoff * 2).min(max_backoff)
Doubled(b) == IF 2 * b < MaxBackoff THEN 2 * b ELSE MaxBackoff

Init ==
  /\ main = "asking"
  /\ attempt = 0
  /\ backoff = 1
  /\ slept = 0
  /\ fetched = Unset
  /\ cell = Unset
  /\ token = FALSE
  /\ grace = "off"
  /\ request = [r \in Request |-> "none"]

\* Ctrl+C: the task of main.rs cancels the token.
CtrlC ==
  /\ main \notin Ended
  /\ ~token
  /\ token' = TRUE
  /\ UNCHANGED <<main, attempt, backoff, slept, fetched, cell, grace, request>>

-----------------------------------------------------------------------------
(* get_codecs_with_retry: a select between the token and the request        *)

\* Variant: the select waits for the request alone.
GiveUpAskingDeaf == FALSE /\ UNCHANGED vars

GiveUpAsking ==
  /\ main = "asking"
  /\ token
  /\ main' = "refused"
  /\ UNCHANGED <<attempt, backoff, slept, fetched, cell, token, grace, request>>

Fetch ==
  /\ main = "asking"
  /\ \E k \in Codecs : fetched' = k
  /\ main' = "setting"
  /\ UNCHANGED <<attempt, backoff, slept, cell, token, grace, request>>

\* The request fails; the pause is inside the branch and blind to the token.
FetchFails ==
  /\ main = "asking"
  /\ main' = "pausing"
  /\ UNCHANGED <<attempt, backoff, slept, fetched, cell, token, grace, request>>

\* Variant: an attempt is not counted.
PauseUncounted ==
  /\ main = "pausing"
  /\ slept' = slept + backoff
  /\ backoff' = Doubled(backoff)
  /\ main' = IF attempt + 1 < MaxAttempts THEN "asking" ELSE "exhausted"
  /\ UNCHANGED <<attempt, fetched, cell, token, grace, request>>

\* Variant: after each pause the loop begins anew.
PauseStartsAnew ==
  /\ main = "pausing"
  /\ slept' = 0 /\ backoff' = 1 /\ attempt' = 0
  /\ main' = "asking"
  /\ UNCHANGED <<fetched, cell, token, grace, request>>

\* The pause, also after the last attempt, and the next round of the loop.
Pause ==
  /\ main = "pausing"
  /\ slept' = slept + backoff
  /\ backoff' = Doubled(backoff)
  /\ attempt' = attempt + 1
  /\ main' = IF attempt + 1 < MaxAttempts THEN "asking" ELSE "exhausted"
  /\ UNCHANGED <<fetched, cell, token, grace, request>>

-----------------------------------------------------------------------------
\* Variant: the codecs are not stored.
SetCodecsSkipped ==
  /\ main = "setting"
  /\ main' = "binding"
  /\ UNCHANGED <<attempt, backoff, slept, fetched, cell, token, grace, request>>

\* set_codecs: an OnceCell takes a value once.
SetCodecs ==
  /\ main = "setting"
  /\ IF cell = Unset
     THEN cell' = fetched /\ main' = "binding"
     ELSE main' = "refused" /\ UNCHANGED cell
  /\ UNCHANGED <<attempt, backoff, slept, fetched, token, grace, request>>

\* axum_server::bind ... serve; an error is unwrapped, a bad address expected.
Bind ==
  /\ main = "binding"
  /\ main' \in {"serving", "crashed"}
  /\ UNCHANGED <<attempt, backoff, slept, fetched, cell, token, grace, request>>

\* The server hands a request to its route.
Accept(r) ==
  /\ main = "serving"
  /\ grace = "off"
  /\ request[r] = "none"
  /\ request' = [request EXCEPT ![r] = "running"]
  /\ UNCHANGED <<main, attempt, backoff, slept, fetched, cell, token, grace>>

\* A request is over: answered, or its client went away.
Finish(r) ==
  /\ main = "serving"
  /\ request[r] = "running"
  /\ request' = [request EXCEPT ![r] = "done"]
  /\ UNCHANGED <<main, attempt, backoff, slept, fetched, cell, token, grace>>

\* The task of http_server sees the token and calls graceful_shutdown.
BeginGrace ==
  /\ main = "serving"
  /\ token
  /\ grace = "off"
  /\ grace' = "on"
  /\ UNCHANGED <<main, attempt, backoff, slept, fetched, cell, token, request>>

\* The grace period of two seconds passes.
EndGrace ==
  /\ main = "serving"
  /\ grace = "on"
  /\ grace' = "over"
  /\ UNCHANGED <<main, attempt, backoff, slept, fetched, cell, token, request>>

Running == {r \in Request : request[r] = "running"}

MayReturn == grace = "over" \/ (grace = "on" /\ Running = {})

Dropped == [r \in Request |-> IF r \in Running THEN "dropped" ELSE request[r]]

\* serve returns, main returns, and the runtime drops what still runs.
Stop ==
  /\ main = "serving"
  /\ MayReturn
  /\ main' = "stopped"
  /\ request' = Dropped
  /\ UNCHANGED <<attempt, backoff, slept, fetched, cell, token, grace>>

-----------------------------------------------------------------------------
Ask == GiveUpAsking \/ Fetch \/ FetchFails

Next ==
  \/ CtrlC
  \/ Ask \/ Pause \/ SetCodecs \/ Bind
  \/ \E r \in Request : Accept(r) \/ Finish(r)
  \/ BeginGrace \/ EndGrace \/ Stop

Spec == Init /\ [][Next]_vars

(* Timers fire and code that does not wait runs.  The request for the       *)
(* codecs may never be answered, and so may those of clients: see           *)
(* EveryCallResolves of module Connection.                                  *)
Fairness ==
  /\ WF_vars(GiveUpAsking)
  /\ WF_vars(Pause)
  /\ WF_vars(SetCodecs)
  /\ WF_vars(Bind)
  /\ WF_vars(BeginGrace)
  /\ WF_vars(EndGrace)
  /\ WF_vars(Stop)

FairSpec == Spec /\ Fairness

-----------------------------------------------------------------------------
(* Properties                                                              *)

(* No request runs before the codecs are stored: write_rate_features_array  *)
(* in helper.rs "assumes RATE_FEATURES is initialized" and would drop the   *)
(* rate features of an answer without a word.                               *)
CodecsBeforeRequests == \A r \in Request : request[r] # "none" => cell \in Codecs

(* The pauses never add up to more than the cap for each attempt made, and  *)
(* rzgate gives up only after all its attempts: it does not hammer the      *)
(* backend, nor wait longer than max_attempts * max_backoff.                *)
PausesBounded ==
  /\ attempt <= slept /\ slept <= attempt * MaxBackoff
  /\ main = "exhausted" => attempt = MaxAttempts

(* Once Ctrl+C was pressed the process ends, whatever the backend and the   *)
(* clients do: while it asks for codecs, in a pause, or while it serves     *)
(* requests that never end, which the two seconds of graceful_shutdown      *)
(* cut off.                                                                 *)
ShutdownEnds == token ~> (main \in Ended)

(* If the backend always answers or refuses the request for the codecs,     *)
(* start-up comes to a decision.                                            *)
StartupDecides ==
  WF_vars(Ask) => ((main = "asking") ~> (main \in {"serving"} \cup Ended))
=============================================================================
