-------------------------------- MODULE Rpc --------------------------------
(***************************************************************************)
(* What a caller of Handler::execute may rely on, with no connection, no   *)
(* id and no queue in sight: a call is handed to the backend at most once; *)
(* a call that is answered was handed over and receives its own answer; a  *)
(* call that is refused was not handed over and never will be, so that its *)
(* caller may safely try again; a call abandoned by its caller may still   *)
(* be carried out.                                                         *)
(***************************************************************************)
EXTENDS Naturals

CONSTANT Req

VARIABLES
  phase,   \* Req -> "idle", "busy", "ok", "refused", "abandoned"
  copies   \* Req -> how many copies of it the backend may have been handed

rpcVars == <<phase, copies>>

Init ==
  /\ phase = [r \in Req |-> "idle"]
  /\ copies = [r \in Req |-> 0]

Become(r, p) == phase' = [phase EXCEPT ![r] = p] /\ UNCHANGED copies

Submit(r) == phase[r] = "idle" /\ Become(r, "busy")

HandOver(r) ==
  /\ phase[r] \in {"busy", "abandoned"}
  /\ copies[r] = 0
  /\ copies' = [copies EXCEPT ![r] = 1]
  /\ UNCHANGED phase

Answer(r) == phase[r] = "busy" /\ copies[r] = 1 /\ Become(r, "ok")

Refuse(r) == phase[r] = "busy" /\ copies[r] = 0 /\ Become(r, "refused")

Abandon(r) == phase[r] = "busy" /\ Become(r, "abandoned")

Next == \E r \in Req : Submit(r) \/ HandOver(r) \/ Answer(r) \/ Refuse(r) \/ Abandon(r)

Spec == Init /\ [][Next]_rpcVars
=============================================================================
