---------------------------- MODULE FramingProofs ----------------------------
(***************************************************************************)
(* What module Framing guarantees for every row of frames, of any sizes,   *)
(* and every way to cut the stream into pieces; at the end, that it        *)
(* implements FrameStream.                                                 *)
(***************************************************************************)
EXTENDS Framing, SequenceTheorems, TLAPS

(* At the end of the stream the loop has read all there is, and stands in  *)
(* front of a frame that is not whole.                                     *)
AtEnd ==
  over = "eof" =>
    /\ ended
    /\ \A k \in Index : AtFront(k) => sent < Start[k] + HeaderLen + Size[k]

IInv == TypeOK /\ InStep /\ AtEnd

(* Two frames do not begin at the same byte, and the frame at the front is *)
(* the one after those already handed over.                                *)
LEMMA FrontIsNext ==
  ASSUME TypeOK, InStep, over # "bad", NEW k \in Index, AtFront(k)
  PROVE  k = Len(out) + 1
<1>1. Len(out) + 1 \in 1 .. Frames + 1
  <2>1. Len(out) \in Nat
    BY DEF TypeOK
  <2>2. CASE Len(out) = 0
    BY <2>2, FramesAssumption
  <2>3. CASE Len(out) > 0
    <3>1. Len(out) \in DOMAIN out /\ out[Len(out)] \in Index
      BY <2>1, <2>3, ElementOfSeq DEF TypeOK
    <3>2. out[Len(out)] = Len(out)
      BY <3>1 DEF InStep
    <3> QED
      BY <3>1, <3>2, FramesAssumption DEF Index
  <2> QED
    BY <2>1, <2>2, <2>3
<1>2. Start[k] = Start[Len(out) + 1]
  BY DEF AtFront, InStep
<1>3. k \in 1 .. Frames + 1
  BY FramesAssumption DEF Index
<1>4. ~(k < Len(out) + 1) /\ ~(Len(out) + 1 < k)
  BY <1>1, <1>2, <1>3, LayoutAssumption
<1> QED
  BY <1>1, <1>3, <1>4

LEMMA InitIInv == Init => IInv
<1> SUFFICES ASSUME Init PROVE IInv
  OBVIOUS
<1>1. Start[1] = 0 /\ Start[Frames + 1] \in Nat
  BY FramesAssumption, LayoutAssumption
<1>2. out \in Seq(Index) /\ Len(out) = 0 /\ DOMAIN out = {}
  BY EmptySeq DEF Init
<1>3. TypeOK
  <2>1. sent \in 0 .. Start[Frames + 1] /\ read \in 0 .. sent /\ split \in 0 .. read
    BY <1>1 DEF Init
  <2>2. kind \in [Index -> Kinds] /\ ended \in BOOLEAN /\ over \in {"no", "eof", "bad"}
    BY DEF Init
  <2> QED
    BY <1>2, <2>1, <2>2 DEF TypeOK
<1>4. InStep /\ AtEnd
  BY <1>1, <1>2 DEF Init, InStep, AtEnd
<1> QED
  BY <1>3, <1>4 DEF IInv

LEMMA TakeKeeps == IInv /\ TakeFrame => IInv'
<1> SUFFICES ASSUME IInv, TakeFrame PROVE IInv'
  OBVIOUS
<1> USE DEF IInv
<1>1. PICK k \in Index :
        /\ AtFront(k) /\ Whole(k) /\ split' = AfterFrame(k)
        /\ IF kind[k] = "good"
           THEN out' = Append(out, k) /\ UNCHANGED over
           ELSE over' = "bad" /\ UNCHANGED out
  BY DEF TakeFrame
<1>2. over = "no" /\ UNCHANGED <<kind, sent, ended, read>>
  BY DEF TakeFrame
<1>3. k = Len(out) + 1
  BY <1>1, <1>2, FrontIsNext
<1>4. /\ split' = Start[k + 1] /\ Size[k] \in Nat /\ k \in Nat
      /\ k + 1 \in 1 .. Frames + 1
  BY <1>1, LayoutAssumption, SizeAssumption, FramesAssumption DEF AfterFrame, AtFront, Index
<1>5. split' \in 0 .. read'
  BY <1>1, <1>2, <1>4 DEF TypeOK, Whole, AfterFrame, Buffered, HeaderLen
<1>6. CASE kind[k] = "good"
  <2>1. out' = Append(out, k) /\ over' = "no"
    BY <1>1, <1>2, <1>6
  <2>2. /\ out' \in Seq(Index) /\ Len(out') = Len(out) + 1
        /\ DOMAIN out' = 1 .. Len(out) + 1 /\ DOMAIN out = 1 .. Len(out) /\ Len(out) \in Nat
        /\ \A i \in 1 .. Len(out) : out'[i] = out[i]
        /\ out'[Len(out) + 1] = k
    BY <2>1, AppendProperties DEF TypeOK
  <2>3. TypeOK'
    BY <1>2, <1>5, <2>1, <2>2 DEF TypeOK
  <2>4. \A i \in DOMAIN out' : out'[i] = i /\ kind'[i] = "good"
    <3> SUFFICES ASSUME NEW i \in 1 .. Len(out) + 1 PROVE out'[i] = i /\ kind[i] = "good"
      BY <1>2, <2>2
    <3>1. CASE i = Len(out) + 1
      BY <1>3, <1>6, <2>2, <3>1
    <3>2. CASE i \in 1 .. Len(out)
      BY <2>2, <3>2 DEF InStep
    <3> QED
      BY <2>2, <3>1, <3>2
  <2>5. InStep'
    BY <1>3, <1>4, <2>2, <2>4 DEF InStep
  <2> QED
    BY <2>1, <2>3, <2>5 DEF AtEnd
<1>7. CASE kind[k] # "good"
  BY <1>1, <1>2, <1>5, <1>7 DEF TypeOK, InStep, AtEnd
<1> QED
  BY <1>6, <1>7

LEMMA EofKeeps == IInv /\ ReadEof => IInv'
<1> SUFFICES ASSUME IInv, ReadEof PROVE IInv'
  OBVIOUS
<1> USE DEF IInv
<1>1. /\ over = "no" /\ over' = "eof" /\ ended /\ read = sent
      /\ UNCHANGED <<kind, sent, ended, read, split, out>>
  BY DEF ReadEof, Wanting
<1>2. TypeOK' /\ InStep'
  BY <1>1 DEF TypeOK, InStep
<1>3. ASSUME NEW k \in Index, AtFront(k)
      PROVE  sent < Start[k] + HeaderLen + Size[k]
  <2>1. Size[k] \in Nat /\ Start[k] = split /\ sent \in Nat /\ split \in Nat
    BY <1>3, SizeAssumption, LayoutAssumption, FramesAssumption DEF AtFront, TypeOK
  <2>2. CASE ~HeaderRead
    BY <1>1, <2>1, <2>2 DEF HeaderRead, Buffered, HeaderLen
  <2>3. CASE HeaderRead
    <3>1. PICK j \in Index : AtFront(j) /\ ~Whole(j)
      BY <2>3 DEF ReadEof, Wanting
    <3>2. j = k
      BY <1>1, <1>3, <3>1, FrontIsNext
    <3> QED
      BY <1>1, <2>1, <3>1, <3>2 DEF Whole, Buffered, HeaderLen
  <2> QED
    BY <2>2, <2>3
<1>4. AtEnd'
  BY <1>1, <1>3 DEF AtEnd, AtFront
<1> QED
  BY <1>2, <1>4

LEMMA OthersKeep ==
  IInv /\ (ServerSend \/ ServerEnd \/ ReadSome \/ RejectHeader \/ UNCHANGED vars) => IInv'
<1> USE DEF IInv
<1>1. IInv /\ ServerSend => IInv'
  <2> SUFFICES ASSUME IInv, ServerSend PROVE IInv'
    OBVIOUS
  <2>1. Start[Frames + 1] \in Nat
    BY FramesAssumption, LayoutAssumption
  <2>2. TypeOK'
    BY <2>1 DEF ServerSend, TypeOK
  <2> QED
    BY <2>2 DEF ServerSend, InStep, AtEnd
<1>2. IInv /\ ServerEnd => IInv'
  BY DEF ServerEnd, TypeOK, InStep, AtEnd, AtFront
<1>3. IInv /\ ReadSome => IInv'
  BY DEF ReadSome, Wanting, TypeOK, InStep, AtEnd
<1>4. IInv /\ RejectHeader => IInv'
  BY DEF RejectHeader, TypeOK, InStep, AtEnd
<1>5. IInv /\ UNCHANGED vars => IInv'
  BY DEF vars, TypeOK, InStep, AtEnd, AtFront
<1> QED
  BY <1>1, <1>2, <1>3, <1>4, <1>5

LEMMA Invariance == Spec => []IInv
<1>1. IInv /\ [Next]_vars => IInv'
  BY TakeKeeps, EofKeeps, OthersKeep DEF Next, ReadLoop
<1> QED
  BY <1>1, InitIInv, PTL DEF Spec

(* The type invariant.                                                     *)
THEOREM FramingTyped == Spec => []TypeOK
<1>1. IInv => TypeOK
  BY DEF IInv
<1> QED
  BY <1>1, Invariance, PTL

(* For any frames and any pieces, the read loop is handed the frames of    *)
(* the server, each once and in order.                                     *)
THEOREM StaysInStep == Spec => []InStep
<1>1. IInv => InStep
  BY DEF IInv
<1> QED
  BY <1>1, Invariance, PTL

(* For any frames and any pieces, the end of the stream costs no frame     *)
(* that arrived whole.                                                     *)
THEOREM EofLosesNothing == Spec => []NothingLeftBehind
<1>1. IInv => NothingLeftBehind
  <2> SUFFICES ASSUME IInv, over = "eof", NEW k \in Index,
                      Start[k] + HeaderLen + Size[k] <= sent, k \notin DOMAIN out
               PROVE  FALSE
    BY DEF NothingLeftBehind
  <2>1. Len(out) \in Nat /\ DOMAIN out = 1 .. Len(out) /\ k \in Nat /\ k > Len(out) /\ k <= Frames
    BY FramesAssumption DEF IInv, TypeOK, Index
  <2> DEFINE n == Len(out) + 1
  <2>2. n \in Index /\ AtFront(n)
    BY <2>1, FramesAssumption DEF IInv, InStep, AtFront, Index
  <2>3. sent < Start[n] + HeaderLen + Size[n]
    BY <2>2 DEF IInv, AtEnd
  <2>4. Start[n] + HeaderLen + Size[n] = Start[n + 1] /\ Start[k] + HeaderLen + Size[k] = Start[k + 1]
    BY <2>2, LayoutAssumption, SizeAssumption DEF HeaderLen
  <2>5. n + 1 \in 1 .. Frames + 1 /\ k + 1 \in 1 .. Frames + 1 /\ (n = k \/ n + 1 < k + 1)
    BY <2>1, <2>2, FramesAssumption DEF Index
  <2>6. Start[n + 1] <= Start[k + 1] /\ Start[n + 1] \in Nat /\ Start[k + 1] \in Nat /\ sent \in Nat
    BY <2>5, LayoutAssumption DEF IInv, TypeOK
  <2> QED
    BY <2>3, <2>4, <2>6
<1> QED
  BY <1>1, Invariance, PTL

-----------------------------------------------------------------------------
(* The abstract reader of frames                                           *)

(* The frame at the front of the buffer is the one that is due.             *)
LEMMA FrontIsDue ==
  ASSUME IInv, over = "no", NEW k \in Index, AtFront(k) PROVE k = Stream!Due
BY FrontIsNext DEF IInv, Stream!Due

(* More bytes may bring more frames, and lose none.                         *)
LEMMA SendArrives == ASSUME IInv, ServerSend PROVE Stream!Arrive
<1>1. ~ended /\ UNCHANGED <<kind, ended, out, over>> /\ sent' \in Nat /\ sent \in Nat /\ sent < sent'
  BY LayoutAssumption, FramesAssumption DEF ServerSend, IInv, TypeOK
<1>2. Arrived \subseteq Arrived' /\ Arrived' \in SUBSET Stream!Index
  <2>1. \A k \in Index : Start[k] + HeaderLen + Size[k] \in Nat
    BY FramesAssumption, LayoutAssumption, SizeAssumption DEF Index, HeaderLen
  <2> QED
    BY <1>1, <2>1 DEF Arrived, Stream!Index, Index
<1>3. \A k \in Arrived' : 1 .. k \subseteq Arrived'
  <2>1. \A k \in Index : k + 1 \in 1 .. Frames + 1 /\ Start[k] + HeaderLen + Size[k] = Start[k + 1]
    BY FramesAssumption, LayoutAssumption DEF Index
  <2> SUFFICES ASSUME NEW k \in Index, Start[k + 1] <= sent', NEW j \in 1 .. k
               PROVE  j \in Index /\ Start[j + 1] <= sent'
    BY <2>1 DEF Arrived
  <2>2. j \in Index /\ (j + 1 = k + 1 \/ j + 1 < k + 1)
    BY FramesAssumption DEF Index
  <2>3. Start[j + 1] \in Nat /\ Start[k + 1] \in Nat /\ Start[j + 1] <= Start[k + 1]
    BY <2>1, <2>2, LayoutAssumption
  <2> QED
    BY <1>1, <2>2, <2>3
<1> QED
  BY <1>1, <1>2, <1>3 DEF Stream!Arrive

(* A frame that is taken off the buffer has arrived, and is taken or        *)
(* rejected as it deserves.                                                 *)
LEMMA TakeIsDue == ASSUME IInv, TakeFrame PROVE Stream!Take \/ Stream!Reject
<1>1. PICK k \in Index :
        /\ AtFront(k) /\ kind[k] # "magic" /\ Whole(k)
        /\ IF kind[k] = "good"
           THEN out' = Append(out, k) /\ UNCHANGED over
           ELSE over' = "bad" /\ UNCHANGED out
  BY DEF TakeFrame
<1>2. over = "no" /\ UNCHANGED <<kind, sent, ended, read>> /\ Arrived' = Arrived
  BY DEF TakeFrame, Arrived
<1>3. k = Stream!Due /\ k \in Stream!Index /\ kind[k] \in Kinds
  BY <1>1, <1>2, FrontIsDue DEF Stream!Index, Index, IInv, TypeOK
<1>4. k \in Arrived
  <2>1. /\ Start[k] \in Nat /\ Size[k] \in Nat /\ split = Start[k]
        /\ read \in Nat /\ sent \in Nat /\ read <= sent
    BY <1>1, FramesAssumption, LayoutAssumption, SizeAssumption DEF AtFront, Index, IInv, TypeOK
  <2> QED
    BY <1>1, <2>1 DEF Whole, Buffered, HeaderLen, Arrived
<1>5. CASE kind[k] = "good"
  <2>1. Len(out') = Len(out) + 1
    BY <1>1, <1>5, AppendProperties DEF IInv, TypeOK
  <2> QED
    BY <1>1, <1>2, <1>3, <1>4, <1>5, <2>1 DEF Stream!Take, Stream!Due
<1>6. CASE kind[k] # "good"
  BY <1>1, <1>2, <1>3, <1>4, <1>6 DEF Stream!Reject, Kinds
<1> QED
  BY <1>5, <1>6

(* At the end of the stream nothing more is due that has arrived.           *)
LEMMA EofFinishes == ASSUME IInv, ReadEof PROVE Stream!Finish
<1>1. /\ over = "no" /\ over' = "eof" /\ ended
      /\ UNCHANGED <<kind, sent, ended, split, out>> /\ Arrived' = Arrived
  BY DEF ReadEof, Wanting, Arrived
<1>2. ASSUME Stream!Due \in Arrived PROVE FALSE
  <2> DEFINE k == Stream!Due
  <2>1. k \in Index /\ Start[k] + HeaderLen + Size[k] <= sent
    BY <1>2 DEF Arrived
  <2>2. AtFront(k)
    BY <1>1 DEF AtFront, Stream!Due, IInv, InStep
  <2>3. AtEnd'
    BY EofKeeps DEF IInv
  <2>4. sent < Start[k] + HeaderLen + Size[k]
    BY <1>1, <2>1, <2>2, <2>3 DEF AtEnd, AtFront
  <2>5. sent \in Nat /\ Start[k] + HeaderLen + Size[k] \in Nat
    BY <2>1, FramesAssumption, LayoutAssumption, SizeAssumption DEF IInv, TypeOK, Index, HeaderLen
  <2> QED
    BY <2>1, <2>4, <2>5
<1> QED
  BY <1>1, <1>2 DEF Stream!Finish

(* Every step on bytes is one on frames, or none of its business.           *)
LEMMA StreamStep == ASSUME IInv, [Next]_vars PROVE [Stream!Next]_(Stream!streamVars)
<1>1. CASE ServerSend
  BY <1>1, SendArrives DEF Stream!Next
<1>2. CASE ServerEnd
  BY <1>2 DEF ServerEnd, Arrived, Stream!Next, Stream!End
<1>3. CASE ReadSome
  BY <1>3 DEF ReadSome, Arrived, Stream!streamVars
<1>4. CASE ReadEof
  BY <1>4, EofFinishes DEF Stream!Next
<1>5. CASE RejectHeader
  <2>1. PICK k \in Index : AtFront(k) /\ kind[k] = "magic"
    BY <1>5 DEF RejectHeader
  <2>2. /\ over = "no" /\ over' = "bad"
        /\ UNCHANGED <<kind, sent, ended, out>> /\ Arrived' = Arrived
    BY <1>5 DEF RejectHeader, Arrived
  <2>3. k = Stream!Due /\ k \in Stream!Index
    BY <2>1, <2>2, FrontIsDue DEF Stream!Index, Index
  <2> QED
    BY <2>1, <2>2, <2>3 DEF Stream!Next, Stream!Reject
<1>6. CASE TakeFrame
  BY <1>6, TakeIsDue DEF Stream!Next
<1>7. CASE UNCHANGED vars
  BY <1>7 DEF vars, Arrived, Stream!streamVars
<1> QED
  BY <1>1, <1>2, <1>3, <1>4, <1>5, <1>6, <1>7 DEF Next, ReadLoop

(* For any frames and any pieces, drain_frame_async is the reader of frames *)
(* that the read loop takes it for.                                         *)
THEOREM FramingImplementsStream == Spec => ImplementsStream
<1>1. Init => Stream!Init
  <2> SUFFICES ASSUME Init PROVE Stream!Init
    OBVIOUS
  <2>1. Arrived = {}
    <3>1. \A k \in Index : Start[k] \in Nat /\ Size[k] \in Nat
      BY FramesAssumption, LayoutAssumption, SizeAssumption DEF Index
    <3>2. \A k \in Index : ~(Start[k] + HeaderLen + Size[k] <= 0)
      BY <3>1 DEF HeaderLen
    <3> QED
      BY <3>2 DEF Arrived, Init
  <2>2. Len(out) = 0
    BY EmptySeq DEF Init
  <2> QED
    BY <2>1, <2>2 DEF Init, Kinds, Index, Stream!Init, Stream!Index
<1>2. IInv /\ [Next]_vars => [Stream!Next]_(Stream!streamVars)
  BY StreamStep
<1> QED
  BY <1>1, <1>2, Invariance, PTL DEF Spec, ImplementsStream, Stream!Spec
=============================================================================
