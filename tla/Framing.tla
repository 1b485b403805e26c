------------------------------- MODULE Framing -------------------------------
(***************************************************************************)
(* How the read loop of a connection cuts the byte stream of the server    *)
(* into frames: drain_frame_async in src/src/protocol/mod.rs, called again *)
(* and again with the same buffer by Connection::connect.                  *)
(*                                                                         *)
(* The bytes themselves are left out.  A stream is a row of frames, frame  *)
(* k at byte Start[k] with a header of nine bytes and Size[k] bytes of     *)
(* payload; the buffer is the stretch of the stream between what was split *)
(* off and what was read.  TCP delivers the stream in pieces of any size   *)
(* and may end it at any byte.                                             *)
(***************************************************************************)
EXTENDS Integers, Sequences

CONSTANTS
  Frames,   \* how many frames the server sends
  Size,     \* 1 .. Frames -> length of the payload
  Start     \* 1 .. Frames + 1 -> where the frame begins, where the stream ends

HeaderLen == 9

\* A payload has a length of status and a field count.
MinPayload == 3

Index == 1 .. Frames

ASSUME FramesAssumption == Frames \in Nat
ASSUME SizeAssumption == Size \in [Index -> Nat]

\* The frames follow each other without a gap.
ASSUME LayoutAssumption ==
  /\ Start \in [1 .. Frames + 1 -> Nat]
  /\ Start[1] = 0
  /\ \A k \in Index : Start[k + 1] = Start[k] + HeaderLen + Size[k]
  /\ \A j, k \in 1 .. Frames + 1 : j < k => Start[j] < Start[k]

(* What drain_frame_async makes of a frame: nothing wrong with it, a wrong  *)
(* magic byte, or a payload that is empty or ends before its field count.   *)
Kinds == {"good", "magic", "payload"}

VARIABLES
  kind,    \* Index -> Kinds: what the server sends
  sent,    \* bytes the server has sent
  ended,   \* the server has closed the stream
  read,    \* bytes read into the buffer so far
  split,   \* bytes split off the buffer so far
  out,     \* the frames given to the read loop
  over     \* "no", or why the read loop ended: "eof", "bad"

vars == <<kind, sent, ended, read, split, out, over>>

TypeOK ==
  /\ kind \in [Index -> Kinds]
  /\ sent \in 0 .. Start[Frames + 1]
  /\ ended \in BOOLEAN
  /\ read \in 0 .. sent
  /\ split \in 0 .. read
  /\ out \in Seq(Index)
  /\ over \in {"no", "eof", "bad"}

-----------------------------------------------------------------------------
Buffered == read - split

\* The frame whose header the parser sees at the front of the buffer.
AtFront(k) == Start[k] = split

\* Variants: a length that forgets the header, one byte too many waited for,
\* a buffer that is cleared after a frame.
WholeWithoutHeader(k) == Buffered >= Size[k]
WholeOffByOne(k) == Buffered > HeaderLen + Size[k]
AfterFrameCleared(k) == read

\* The first loop is over: the header is there.
HeaderRead == Buffered >= HeaderLen

\* The second loop is over: the payload is there too.
Whole(k) == Buffered >= HeaderLen + Size[k]

\* What split_to leaves: the bytes of later frames stay in the buffer.
AfterFrame(k) == split + HeaderLen + Size[k]

Init ==
  /\ kind \in [Index -> Kinds]
  /\ \A k \in Index : kind[k] = "good" => Size[k] >= MinPayload
  /\ sent = 0
  /\ ended = FALSE
  /\ read = 0
  /\ split = 0
  /\ out = <<>>
  /\ over = "no"

\* The server sends some more bytes, or closes the stream where it is.
ServerSend ==
  /\ ~ended
  /\ \E n \in 1 .. Start[Frames + 1] - sent : sent' = sent + n
  /\ UNCHANGED <<kind, ended, read, split, out, over>>

ServerEnd ==
  /\ ~ended
  /\ ended' = TRUE
  /\ UNCHANGED <<kind, sent, read, split, out, over>>

\* One of the two loops is at its read_buf.
Wanting ==
  /\ over = "no"
  /\ ~HeaderRead \/ \E k \in Index : AtFront(k) /\ kind[k] # "magic" /\ ~Whole(k)

\* read_buf returns whatever has arrived.
ReadSome ==
  /\ Wanting
  /\ \E n \in 1 .. sent - read : read' = read + n
  /\ UNCHANGED <<kind, sent, ended, split, out, over>>

\* read_buf returns 0: ShortFrame.
ReadEof ==
  /\ Wanting
  /\ ended
  /\ read = sent
  /\ over' = "eof"
  /\ UNCHANGED <<kind, sent, ended, read, split, out>>

\* MissingMagic, before the payload is waited for.
RejectHeader ==
  /\ over = "no"
  /\ HeaderRead
  /\ \E k \in Index : AtFront(k) /\ kind[k] = "magic"
  /\ over' = "bad"
  /\ UNCHANGED <<kind, sent, ended, read, split, out>>

\* Variant: a frame must have something behind its field count.
TakeFrameStrict ==
  /\ over = "no"
  /\ HeaderRead
  /\ \E k \in Index :
       /\ AtFront(k)
       /\ kind[k] # "magic"
       /\ Whole(k)
       /\ split' = AfterFrame(k)
       /\ IF kind[k] = "good" /\ Size[k] > MinPayload
          THEN out' = Append(out, k) /\ UNCHANGED over
          ELSE over' = "bad" /\ UNCHANGED out
  /\ UNCHANGED <<kind, sent, ended, read>>

\* The frame is split off and handed to the read loop, or found too short.
TakeFrame ==
  /\ over = "no"
  /\ HeaderRead
  /\ \E k \in Index :
       /\ AtFront(k)
       /\ kind[k] # "magic"
       /\ Whole(k)
       /\ split' = AfterFrame(k)
       /\ IF kind[k] = "good"
          THEN out' = Append(out, k) /\ UNCHANGED over
          ELSE over' = "bad" /\ UNCHANGED out
  /\ UNCHANGED <<kind, sent, ended, read>>

ReadLoop == ReadSome \/ ReadEof \/ RejectHeader \/ TakeFrame

Next == ServerSend \/ ServerEnd \/ ReadLoop

Spec == Init /\ [][Next]_vars

\* The read loop runs; the server need not send.
FairSpec == Spec /\ WF_vars(ReadLoop)

-----------------------------------------------------------------------------
(* Properties                                                              *)

(* However the stream is cut into pieces, the frames handed to the read     *)
(* loop are those of the server, each once, in order, and the buffer        *)
(* starts at the next one: the loop never loses its place in the stream.    *)
InStep ==
  /\ \A i \in DOMAIN out : out[i] = i /\ kind[i] = "good"
  /\ over # "bad" => split = Start[Len(out) + 1]

\* The frames that arrived whole, as the server counts.
Arrived == {k \in Index : Start[k] + HeaderLen + Size[k] <= sent}

Stream == INSTANCE FrameStream WITH arrived <- Arrived, taken <- Len(out)

(* In all, the reader of frames is what FrameStream promises: besides the   *)
(* two invariants around this, a frame is never handed over before it is    *)
(* whole, a frame with nothing wrong is never rejected, and the read loop   *)
(* does not end for any other reason.                                       *)
ImplementsStream == Stream!Spec

(* Every frame that arrived whole was handed over when the loop sees the    *)
(* end of the stream: a reply is not lost because the server closed the     *)
(* connection right behind it.                                              *)
NothingLeftBehind ==
  over = "eof" => \A k \in Index : Start[k] + HeaderLen + Size[k] <= sent => k \in DOMAIN out

(* A reply does not wait in the buffer for the next one to arrive.          *)
FramesGetThrough ==
  \A k \in Index :
    (Start[k] + HeaderLen + Size[k] <= sent) ~> (over # "no" \/ k \in DOMAIN out)
=============================================================================
