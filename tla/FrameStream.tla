----------------------------- MODULE FrameStream -----------------------------
(***************************************************************************)
(* What the read loop of a connection may rely on when it asks for the     *)
(* next frame, with no byte, no length and no buffer in sight: frames come *)
(* in the order in which the server sent them, each once, and none before  *)
(* it has arrived whole; a frame is rejected only if something is wrong    *)
(* with it, and only when it is its turn; and the end of the stream is     *)
(* reported only when every frame that arrived whole was handed over.      *)
(* Dispatch, RejectFrame and ReadEof of module Connection take it at that. *)
(***************************************************************************)
EXTENDS Naturals

CONSTANT Frames   \* how many frames the server sends

Index == 1 .. Frames

VARIABLES
  kind,     \* Index -> "good", or what is wrong with it: "magic", "payload"
  arrived,  \* the frames that arrived whole
  ended,    \* the server has closed the stream
  taken,    \* how many frames the read loop was given
  over      \* "no", or why it ended: "eof", "bad"

streamVars == <<kind, arrived, ended, taken, over>>

Init ==
  /\ kind \in [Index -> {"good", "magic", "payload"}]
  /\ arrived = {}
  /\ ended = FALSE
  /\ taken = 0
  /\ over = "no"

\* Some more of the stream arrives, perhaps whole frames, and none ahead of others.
Arrive ==
  /\ ~ended
  /\ arrived' \in SUBSET Index
  /\ arrived \subseteq arrived'
  /\ \A k \in arrived' : 1 .. k \subseteq arrived'
  /\ UNCHANGED <<kind, ended, taken, over>>

End == ~ended /\ ended' = TRUE /\ UNCHANGED <<kind, arrived, taken, over>>

Due == taken + 1

Take ==
  /\ over = "no"
  /\ Due \in arrived /\ kind[Due] = "good"
  /\ taken' = Due
  /\ UNCHANGED <<kind, arrived, ended, over>>

\* A wrong magic byte is seen before the frame is whole.
Reject ==
  /\ over = "no"
  /\ Due \in Index
  /\ kind[Due] = "magic" \/ (kind[Due] = "payload" /\ Due \in arrived)
  /\ over' = "bad"
  /\ UNCHANGED <<kind, arrived, ended, taken>>

Finish ==
  /\ over = "no"
  /\ ended /\ Due \notin arrived
  /\ over' = "eof"
  /\ UNCHANGED <<kind, arrived, ended, taken>>

Next == Arrive \/ End \/ Take \/ Reject \/ Finish

Spec == Init /\ [][Next]_streamVars
=============================================================================
