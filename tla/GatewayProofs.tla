----------------------------- MODULE GatewayProofs -----------------------------
(***************************************************************************)
(* What module Gateway guarantees for every set of requests, any number of *)
(* fields and ids of any width: of the responses, of the frames and of the *)
(* lists in the responses.                                                 *)
(***************************************************************************)
EXTENDS Gateway, SequenceTheorems, FiniteSetTheorems, TLAPS

Verdicts == {"waiting", "reading", "shown", "error", "invalid", "failed"}

(* The decoder: what it has read so far is in sequence, and one that reads  *)
(* as many fields as it expects has not read more.                          *)
ReadingInv ==
  /\ count \in 0 .. Wrap - 1
  /\ seen \in Seq(Field) /\ Len(seen) <= MaxFields
  /\ verdict = "waiting" => seen = <<>>
  /\ verdict = "reading" => InSequence /\ (decoder \notin Scanning => Len(seen) <= count)
  /\ ShownIsWhole

(* The call: where it stands says what the backend was handed and how far   *)
(* the response is.                                                         *)
CallInv ==
  /\ phase \in [{This} -> {"idle", "busy", "ok", "refused", "abandoned"}]
  /\ copies \in [{This} -> {0, 1}]
  /\ verdict \in Verdicts
  /\ phase[This] = "idle" => copies[This] = 0 /\ verdict \in {"waiting", "failed"}
  /\ phase[This] \in {"busy", "abandoned"} => verdict = "waiting"
  /\ phase[This] = "ok" => copies[This] = 1 /\ verdict # "failed"
  /\ phase[This] = "refused" => copies[This] = 0 /\ verdict = "failed"

(* The frame: while there is one, it is the one of the request.             *)
FrameInv ==
  /\ mode \in Modes
  /\ phase[This] # "ok" => request \in Requests
  /\ frame # NoFrame => phase[This] # "ok" /\ Valid(request) /\ frame = FrameFor(request)

-----------------------------------------------------------------------------
(* Ids modulo their width                                                   *)

(* A number is a multiple of w and a rest, in one way only.                 *)
LEMMA RestIsModulo ==
  ASSUME NEW w \in Nat, w > 0, NEW q \in Int, NEW r \in 0 .. w - 1, NEW n \in Int, n = w * q + r
  PROVE  n % w = r
<1>1. n % w \in 0 .. w - 1 /\ n \div w \in Int
  OBVIOUS
<1>2. n = w * (n \div w) + (n % w)
  OBVIOUS
<1> DEFINE d == q - (n \div w)
<1>3. d \in Int /\ w * d = w * q - w * (n \div w)
  BY <1>1
<1>4. w * d = (n % w) - r
  BY <1>1, <1>2, <1>3
<1> HIDE DEF d
<1>5. d >= 1 => w * d >= w
  BY <1>3
<1>6. d <= -1 => w * d <= -w
  BY <1>3
<1>7. d = 0
  BY <1>1, <1>3, <1>4, <1>5, <1>6
<1> QED
  BY <1>1, <1>3, <1>4, <1>7

(* The id that is due, less one, is the number of fields read, both modulo  *)
(* the width of an id.                                                      *)
LEMMA NextModulo ==
  ASSUME NEW w \in Nat, w >= 2, NEW n \in Nat
  PROVE  (((n + 1) % w) - 1) % w = n % w
<1> DEFINE r == n % w
           q == n \div w
<1>1. r \in 0 .. w - 1 /\ n = w * q + r /\ q \in Int
  OBVIOUS
<1> HIDE DEF r, q
<1>2. CASE r + 1 < w
  <2>1. (n + 1) % w = r + 1
    <3>1. r + 1 \in 0 .. w - 1 /\ n + 1 = w * q + (r + 1) /\ n + 1 \in Int
      BY <1>1, <1>2
    <3> QED
      BY <3>1, <1>1, RestIsModulo
  <2>2. (r + 1) - 1 = r /\ r % w = r
    BY <1>1
  <2> QED
    BY <2>1, <2>2 DEF r
<1>3. CASE r + 1 = w
  <2> DEFINE s == q + 1
             z == 0
  <2>1. w * s = w * q + w
    BY <1>1
  <2>2. n + 1 = w * s + z /\ z \in 0 .. w - 1 /\ s \in Int /\ n + 1 \in Int
    BY <1>1, <1>3, <2>1
  <2> HIDE DEF s, z
  <2>3. (n + 1) % w = z
    BY <2>2, RestIsModulo
  <2>4. (n + 1) % w = 0
    BY <2>3 DEF z
  <2>5. (0 - 1) % w = w - 1
    OBVIOUS
  <2> QED
    BY <1>1, <1>3, <2>4, <2>5 DEF r
<1> QED
  BY <1>1, <1>2, <1>3

(* A number that wraps around at an even one stays even or odd.             *)
LEMMA ParityOfRest ==
  ASSUME NEW w \in Nat, w > 0, w % 2 = 0, NEW n \in Nat
  PROVE  n % 2 = (n % w) % 2
<1> DEFINE r == n % w
           q == n \div w
           h == w \div 2
           p == h * q
<1>1. r \in 0 .. w - 1 /\ n = w * q + r /\ q \in Int
  OBVIOUS
<1>2. h \in Int /\ w = 2 * h
  OBVIOUS
<1>3. p \in Int /\ w * q = 2 * p
  BY <1>1, <1>2
<1> HIDE DEF r, q, h, p
<1>4. n = 2 * p + r
  BY <1>1, <1>3
<1>5. n % 2 = r % 2
  BY <1>1, <1>3, <1>4
<1> QED
  BY <1>5 DEF r

-----------------------------------------------------------------------------
(* The decoder                                                              *)

(* A decoder starts with nothing read.                                      *)
LEMMA NothingInSequence == ASSUME seen = <<>> PROVE InSequence /\ Len(seen) = 0
<1>1. Len(seen) = 0 /\ DOMAIN seen = {}
  OBVIOUS
<1> QED
  BY <1>1 DEF InSequence

(* Steps that leave what was read alone, before the decoder begins or when  *)
(* it gives up.                                                             *)
LEMMA BesideReading ==
  ASSUME ReadingInv, count' \in 0 .. Wrap - 1, UNCHANGED seen,
         verdict = "waiting", verdict' \notin {"reading", "shown"}
  PROVE  ReadingInv'
<1>1. ShownIsWhole'
  BY DEF ShownIsWhole
<1> QED
  BY <1>1 DEF ReadingInv

(* Steps that the decoder has no part in.                                   *)
LEMMA StutterReading == ASSUME ReadingInv, UNCHANGED vars PROVE ReadingInv'
<1>1. UNCHANGED <<decoder, success, count, seen, verdict>>
  BY DEF vars, reply
<1> QED
  BY <1>1 DEF ReadingInv, ShownIsWhole, InSequence, Fits, DayField

(* The count is looked at: a decoder begins with nothing read.              *)
LEMMA BeginReads == ASSUME ReadingInv, BeginReading PROVE ReadingInv'
<1>1. verdict = "waiting" /\ seen = <<>> /\ UNCHANGED <<decoder, success, count, seen>>
  BY DEF BeginReading, ReadingInv, reply
<1>2. InSequence /\ Len(seen) = 0
  BY <1>1, NothingInSequence
<1>3. InSequence'
  BY <1>1 DEF InSequence
<1>4. verdict' = "shown" => count = 0
  BY <1>1 DEF BeginReading, Invalid, Show, Respond
<1>5. verdict' # "waiting"
  BY DEF BeginReading, Invalid, Show, Respond
<1>6. 0 % Wrap = 0
  BY WrapAssumption
<1>7. ShownIsWhole'
  BY <1>1, <1>2, <1>3, <1>4, <1>6 DEF ShownIsWhole
<1> QED
  BY <1>1, <1>2, <1>3, <1>5, <1>7 DEF ReadingInv

(* One more field: its id is the next number, modulo the width of an id.    *)
LEMMA FieldReads == ASSUME ReadingInv, ReadField PROVE ReadingInv'
<1>1. /\ verdict = "reading" /\ Len(seen) < MaxFields
      /\ UNCHANGED <<decoder, success, count>>
      /\ InSequence /\ (decoder \notin Scanning => Len(seen) < count)
  BY DEF ReadField, WantsMore, ReadingInv, reply
<1>2. PICK f \in Field :
        /\ seen' = Append(seen, f)
        /\ verdict' = "reading" => IdFits(f) /\ Fits(Len(seen) + 1, f)
        /\ verdict' \notin {"waiting", "shown"}
  <2>1. PICK f \in Field :
          /\ seen' = Append(seen, f)
          /\ IF ~IdFits(f) \/ ~Fits(Len(seen) + 1, f)
             THEN verdict' = "invalid"
             ELSE verdict' \in {"error", "reading"}
    BY <1>1 DEF ReadField, Invalid, Respond
  <2> QED
    BY <2>1
<1>3. /\ Len(seen) \in Nat /\ MaxFields \in Nat /\ Wrap \in Nat
      /\ DOMAIN seen = 1 .. Len(seen) /\ count \in Nat
  BY WrapAssumption, MaxFieldsAssumption DEF ReadingInv
<1>4. /\ seen' \in Seq(Field) /\ Len(seen') = Len(seen) + 1
      /\ \A i \in 1 .. Len(seen) : seen'[i] = seen[i]
      /\ seen'[Len(seen) + 1] = f
      /\ DOMAIN seen' = 1 .. Len(seen) + 1
  BY <1>2, <1>3, AppendProperties DEF ReadingInv
<1>5. IdFits(f) => f.id = (Len(seen) + 1) % Wrap
  BY <1>1, <1>3 DEF IdFits
<1>6. verdict' = "reading" => InSequence'
  <2> SUFFICES ASSUME verdict' = "reading", NEW i \in 1 .. Len(seen) + 1
               PROVE  (seen[i].id = i % Wrap /\ Fits(i, seen[i]))'
    BY <1>4 DEF InSequence
  <2>1. \A e : e = seen'[i] /\ Fits(i, e) => Fits(i, seen[i])'
    BY <1>1 DEF Fits, Text, ScalarField, DayField, SegmentField, AvailField, CodecsField
  <2>2. CASE i = Len(seen) + 1
    BY <2>1, <2>2, <1>2, <1>4, <1>5
  <2>3. CASE i \in 1 .. Len(seen)
    BY <2>1, <2>3, <1>1, <1>3, <1>4 DEF InSequence
  <2> QED
    BY <2>2, <2>3, <1>3
<1>7. ShownIsWhole'
  BY <1>2 DEF ShownIsWhole
<1>8. Len(seen') <= MaxFields /\ (decoder' \notin Scanning => Len(seen') <= count')
  BY <1>1, <1>3, <1>4
<1> QED
  BY <1>1, <1>2, <1>4, <1>6, <1>7, <1>8 DEF ReadingInv

(* A decoder that scans compares the id that is due with the count: it      *)
(* finds out how many fields it has read, modulo the width of an id.        *)
LEMMA CountedAll ==
  ASSUME ReadingInv PROVE CountMatches <=> Len(seen) % Wrap = count
<1>1. Len(seen) \in Nat /\ Wrap \in Nat /\ Wrap >= 2
  BY WrapAssumption DEF ReadingInv
<1>2. (((Len(seen) + 1) % Wrap) - 1) % Wrap = Len(seen) % Wrap
  BY <1>1, NextModulo
<1> QED
  BY <1>2 DEF CountMatches

\* As many as the header counts are the count, also modulo the width of an id.
LEMMA CountMatching ==
  ASSUME ReadingInv, Len(seen) = count PROVE CountMatches
<1>1. count % Wrap = count
  BY WrapAssumption DEF ReadingInv
<1> QED
  BY <1>1, CountedAll

(* The end: a response is shown only when as many fields were read as the   *)
(* header counts, to a decoder that scans modulo the width of an id.        *)
LEMMA EndCounts ==
  ASSUME ReadingInv, DataEnds \/ AllRead, verdict' = "shown"
  PROVE  IF decoder \in Scanning THEN Len(seen) % Wrap = count ELSE Len(seen) = count
<1>1. CASE DataEnds
  BY <1>1, CountedAll DEF DataEnds, Invalid, Respond
<1>2. CASE AllRead
  BY <1>2, WrapAssumption DEF AllRead, WantsMore, ReadingInv
<1> QED
  BY <1>1, <1>2

\* ... so that what was read is still in sequence and whole.
LEMMA EndReads == ASSUME ReadingInv, DataEnds \/ AllRead PROVE ReadingInv'
<1>1. /\ verdict = "reading" /\ UNCHANGED <<decoder, success, count, seen>>
      /\ InSequence /\ (decoder \notin Scanning => Len(seen) <= count)
      /\ verdict' \in {"shown", "invalid"}
  BY DEF DataEnds, AllRead, ReadingInv, reply, Invalid, Show, Respond
<1>2. verdict' = "shown" =>
        IF decoder \in Scanning THEN Len(seen) % Wrap = count ELSE Len(seen) = count
  BY EndCounts
<1>3. InSequence'
  BY <1>1 DEF InSequence, Fits
<1>4. ShownIsWhole'
  BY <1>1, <1>2, <1>3 DEF ShownIsWhole
<1> QED
  BY <1>1, <1>4 DEF ReadingInv

-----------------------------------------------------------------------------
(* Steps of the gateway                                                     *)

(* No step of the gateway breaks the invariant of the decoder.              *)
LEMMA NextReads ==
  ASSUME ReadingInv, CallInv, [GatewayNext]_gatewayVars PROVE ReadingInv'
<1>1. CASE Refuse
  <2>1. verdict = "waiting" /\ verdict' = "failed" /\ UNCHANGED <<seen, count>>
    BY <1>1 DEF Refuse, Idle, Respond, reply
  <2> QED
    BY <2>1, BesideReading DEF ReadingInv
<1>2. CASE Dispatch
  <2>1. verdict = "waiting" /\ UNCHANGED <<verdict, seen, count>>
    BY <1>2 DEF Dispatch, Idle
  <2> QED
    BY <2>1, BesideReading DEF ReadingInv
<1>3. CASE Deliver \/ ClientGone \/ NewYear \/ UNCHANGED gatewayVars
  BY <1>3, StutterReading DEF Deliver, ClientGone, NewYear, gatewayVars
<1>4. CASE Answered
  <2>1. verdict = "waiting" /\ UNCHANGED <<verdict, seen>> /\ count' \in 0 .. Wrap - 1
    BY <1>4 DEF Answered, Backend!Answer, CallInv
  <2> QED
    BY <2>1, BesideReading
<1>5. CASE CallRefused
  <2>1. verdict = "waiting" /\ verdict' = "failed" /\ UNCHANGED <<seen, count>>
    BY <1>5 DEF CallRefused, ExecuteFails, Respond, reply
  <2> QED
    BY <2>1, BesideReading DEF ReadingInv
<1>6. CASE ShowError
  <2>1. verdict = "waiting" /\ verdict' = "error" /\ UNCHANGED <<seen, count>>
    BY <1>6 DEF ShowError, ErrorReply, Respond, reply
  <2> QED
    BY <2>1, BesideReading DEF ReadingInv
<1>7. CASE Begin
  BY <1>7, BeginReads DEF Begin
<1>8. CASE ReadOn
  BY <1>8, FieldReads DEF ReadOn
<1>9. CASE EndOfData \/ EndOfFields
  BY <1>9, EndReads DEF EndOfData, EndOfFields
<1> QED
  BY <1>1, <1>2, <1>3, <1>4, <1>5, <1>6, <1>7, <1>8, <1>9 DEF GatewayNext

(* What the steps of the decoder do to the verdict.                         *)
LEMMA DecodingKeepsCall ==
  ASSUME CallInv, Decoding, ErrorReply \/ BeginReading \/ ReadField \/ DataEnds \/ AllRead
  PROVE  CallInv'
<1>1. phase[This] = "ok" /\ UNCHANGED <<phase, copies>>
  BY DEF Decoding, calls
<1>2. verdict' \in Verdicts \ {"failed"}
  <2>1. CASE ErrorReply
    BY <2>1 DEF ErrorReply, Respond, Verdicts
  <2>2. CASE BeginReading
    BY <2>2, <1>1 DEF BeginReading, Invalid, Show, Respond, Verdicts, CallInv
  <2>3. CASE ReadField
    BY <2>3, <1>1 DEF ReadField, Invalid, Respond, Verdicts, CallInv
  <2>4. CASE DataEnds \/ AllRead
    BY <2>4 DEF DataEnds, AllRead, Invalid, Show, Respond, Verdicts
  <2> QED
    BY <2>1, <2>2, <2>3, <2>4
<1> QED
  BY <1>1, <1>2 DEF CallInv

(* ... nor that of the call,                                                *)
LEMMA NextKeepsCall ==
  ASSUME CallInv, [GatewayNext]_gatewayVars PROVE CallInv'
<1> USE DEF This
<1>1. CASE Refuse
  BY <1>1 DEF Refuse, Idle, Respond, calls, CallInv, Verdicts
<1>2. CASE Dispatch
  BY <1>2 DEF Dispatch, Idle, Backend!Submit, Backend!Become, CallInv, Verdicts
<1>3. CASE Deliver
  BY <1>3 DEF Deliver, Backend!HandOver, vars, CallInv, Verdicts
<1>4. CASE Answered
  BY <1>4 DEF Answered, Backend!Answer, Backend!Become, CallInv, Verdicts
<1>5. CASE CallRefused
  BY <1>5 DEF CallRefused, Backend!Refuse, Backend!Become, ExecuteFails, Respond, CallInv, Verdicts
<1>6. CASE ClientGone
  BY <1>6 DEF ClientGone, Backend!Abandon, Backend!Become, vars, CallInv, Verdicts
<1>7. CASE ShowError \/ Begin \/ ReadOn \/ EndOfData \/ EndOfFields
  BY <1>7, DecodingKeepsCall DEF ShowError, Begin, ReadOn, EndOfData, EndOfFields
<1>8. CASE NewYear \/ UNCHANGED gatewayVars
  BY <1>8 DEF NewYear, gatewayVars, vars, calls, CallInv
<1> QED
  BY <1>1, <1>2, <1>3, <1>4, <1>5, <1>6, <1>7, <1>8 DEF GatewayNext

(* ... nor that of the frame.                                               *)
LEMMA NextKeepsFrame ==
  ASSUME CallInv, FrameInv, [GatewayNext]_gatewayVars PROVE FrameInv'
<1>1. CASE Dispatch
  <2>1. /\ request \in Requests /\ mode \in Modes /\ UNCHANGED <<mode, request>>
        /\ frame' = FrameFor(request) /\ phase'[This] # "ok" /\ Valid(request)
    BY <1>1 DEF Dispatch, Idle, Backend!Submit, Backend!Become, CallInv, FrameInv, This
  <2>2. FrameFor(request)' = FrameFor(request) /\ (Valid(request)' <=> Valid(request))
    BY <2>1 DEF FrameFor, ProcessorOf, PayloadOf, SegmentOf, Valid, Routed
  <2> QED
    BY <2>1, <2>2 DEF FrameInv
<1>2. CASE Answered
  BY <1>2 DEF Answered, Backend!Answer, Backend!Become, CallInv, FrameInv, This
<1>3. CASE ~Dispatch /\ ~Answered
  <2>1. UNCHANGED <<mode, request, frame>> /\ (phase[This] = "ok" <=> phase'[This] = "ok")
    <3>1. CASE Refuse
      BY <3>1 DEF Refuse, asked, calls
    <3>2. CASE Deliver
      BY <3>2 DEF Deliver, Backend!HandOver, asked
    <3>3. CASE CallRefused
      BY <3>3 DEF CallRefused, Backend!Refuse, Backend!Become, asked, CallInv, This
    <3>4. CASE ClientGone
      BY <3>4 DEF ClientGone, Backend!Abandon, Backend!Become, asked, CallInv, This
    <3>5. CASE ShowError \/ Begin \/ ReadOn \/ EndOfData \/ EndOfFields
      BY <3>5 DEF ShowError, Begin, ReadOn, EndOfData, EndOfFields, Decoding, asked, calls
    <3>6. CASE NewYear \/ UNCHANGED gatewayVars
      BY <3>6 DEF NewYear, gatewayVars, asked, calls
    <3> QED
      BY <1>3, <3>1, <3>2, <3>3, <3>4, <3>5, <3>6 DEF GatewayNext
  <2>2. FrameFor(request)' = FrameFor(request) /\ (Valid(request)' <=> Valid(request))
    BY <2>1 DEF FrameFor, ProcessorOf, PayloadOf, SegmentOf, Valid, Routed
  <2> QED
    BY <2>1, <2>2 DEF FrameInv
<1> QED
  BY <1>1, <1>2, <1>3

(* All three hold in the beginning.                                         *)
LEMMA InitInvs == GatewayInit => ReadingInv /\ CallInv /\ FrameInv
<1> SUFFICES ASSUME GatewayInit PROVE ReadingInv /\ CallInv /\ FrameInv
  OBVIOUS
<1>1. ReadingInv
  <2>1. 0 \in 0 .. Wrap - 1 /\ Len(<<>>) = 0 /\ <<>> \in Seq(Field)
    BY WrapAssumption
  <2> QED
    BY <2>1, MaxFieldsAssumption, WrapAssumption DEF GatewayInit, ReadingInv, ShownIsWhole
<1>2. CallInv
  BY DEF GatewayInit, Backend!Init, CallInv, Verdicts, This
<1>3. FrameInv
  BY DEF GatewayInit, Backend!Init, FrameInv, This
<1> QED
  BY <1>1, <1>2, <1>3

GatewayInv == ReadingInv /\ CallInv /\ FrameInv

(* The three invariants together, on which the theorems rest.               *)
LEMMA Invariant == GatewaySpec => []GatewayInv
<1>1. GatewayInit => GatewayInv
  BY InitInvs DEF GatewayInv
<1>2. GatewayInv /\ [GatewayNext]_gatewayVars => GatewayInv'
  BY NextReads, NextKeepsCall, NextKeepsFrame DEF GatewayInv
<1> QED
  BY <1>1, <1>2, PTL DEF GatewaySpec

-----------------------------------------------------------------------------
(* Theorems                                                                 *)

(* What is shown to a client is the whole reply, for replies of any length  *)
(* and ids of any even width: the decoders of src/src/processor that count  *)
(* their fields show as many as the header says, those that scan as many    *)
(* modulo the width of a u16, which for fewer than 2^16 fields is the same; *)
(* none stops early, passes over a field or shows one out of its place.     *)
THEOREM WholeRepliesShown == GatewaySpec => []ShownIsWhole
<1>1. GatewayInv => ShownIsWhole
  BY DEF GatewayInv, ReadingInv
<1> QED
  BY <1>1, Invariant, PTL

(* An error of rzgate's own means that the backend was not handed the       *)
(* request; any other response, that it was.  It rests on what execute      *)
(* promises, which ConnectionRpcProofs shows of the connections.            *)
THEOREM ResponsesTellFate == GatewaySpec => []AnswerTellsFate
<1>1. GatewayInv => AnswerTellsFate
  BY DEF GatewayInv, CallInv, AnswerTellsFate
<1> QED
  BY <1>1, Invariant, PTL

(* A decoder begins with a count that fits: read backwards, a count that    *)
(* does not fit is not of the documented format.                            *)
LEMMA BadCount ==
  ASSUME ReadingInv, ~CountFits
  PROVE  \/ decoder = "simple" /\ count # 0
         \/ decoder \in {"scalar", "boolean", "codecs"} /\ count # 1
         \/ decoder = "day" /\ count # 5
         \/ decoder = "segments" /\ count % 2 = 1
         \/ decoder = "avail" /\ count # 0 /\ count % 2 = 0
<1>1. count \in Nat
  BY WrapAssumption DEF ReadingInv
<1>2. count % 2 # 0 => count % 2 = 1
  BY <1>1
<1>3. (count - 1) % 2 # 0 => count % 2 = 0
  BY <1>1
<1> QED
  BY <1>2, <1>3 DEF CountFits

(* Every step that gives up on a reply does so for a fault of the reply.    *)
LEMMA NextTakes ==
  ASSUME ReadingInv, CallInv, WellFormedIsTaken, [GatewayNext]_gatewayVars
  PROVE  WellFormedIsTaken'
<1>1. CASE Begin
  <2>1. /\ UNCHANGED <<decoder, success, count, seen, tail>>
        /\ verdict' = "invalid" => ~CountFits
    BY <1>1 DEF Begin, BeginReading, Show, Respond, reply
  <2> QED
    BY <2>1, BadCount DEF WellFormedIsTaken
<1>2. CASE ReadOn
  <2>1. verdict = "reading" /\ UNCHANGED <<decoder, success, count>> /\ Len(seen) < MaxFields
    BY <1>2 DEF ReadOn, ReadField, reply
  <2>2. PICK f \in Field :
          /\ seen' = Append(seen, f)
          /\ verdict' = "invalid" => ~(IdFits(f) /\ Fits(Len(seen) + 1, f))
    BY <1>2, <2>1 DEF ReadOn, ReadField, Invalid, Respond
  <2>3. seen'[Len(seen) + 1] = f /\ Len(seen) + 1 \in DOMAIN seen'
    BY <2>1, <2>2, AppendProperties DEF ReadingInv
  <2>4. f.id = (Len(seen) + 1) % Wrap => IdFits(f)
    BY DEF IdFits
  <2>5. ASSUME InSequence' PROVE f.id = (Len(seen) + 1) % Wrap /\ Fits(Len(seen) + 1, f)
    <3>1. (seen'[Len(seen) + 1]).id = (Len(seen) + 1) % Wrap
      BY <2>3, <2>5 DEF InSequence
    <3>2. \A i \in DOMAIN seen' : Fits(i, seen[i])'
      BY <2>5 DEF InSequence
    <3>3. \A i, e : e = seen'[i] /\ Fits(i, seen[i])' => Fits(i, e)
      BY <2>1 DEF Fits, Text, ScalarField, DayField, SegmentField, AvailField, CodecsField
    <3> QED
      BY <3>1, <3>2, <3>3, <2>3
  <2> QED
    BY <2>2, <2>4, <2>5 DEF WellFormedIsTaken
<1>3. CASE EndOfData
  <2>1. /\ verdict = "reading" /\ UNCHANGED <<decoder, success, count, seen>>
        /\ tail' \in {"end", "scrap", "cut"}
        /\ verdict' = "invalid" => ~(decoder \in Scanning /\ tail' # "cut" /\ CountMatches)
        /\ WantsMore
    BY <1>3 DEF EndOfData, DataEnds, Show, Respond, reply
  <2>2. Len(seen) \in 0 .. MaxFields /\ count \in Nat
    BY WrapAssumption DEF ReadingInv
  <2>3. Len(seen) = count => CountMatches
    BY CountMatching
  <2>4. decoder \notin Scanning => Len(seen) # count
    BY <2>1, <2>2 DEF WantsMore
  <2> QED
    BY <2>1, <2>3, <2>4 DEF WellFormedIsTaken
<1>4. CASE EndOfFields
  <2>1. verdict' = "invalid" => tail' \notin {"unknown", "end"}
    BY <1>4 DEF EndOfFields, AllRead, Show, Respond
  <2> QED
    BY <2>1 DEF WellFormedIsTaken
<1>5. CASE Refuse \/ Dispatch \/ Answered \/ CallRefused \/ ShowError
  <2>1. verdict' # "invalid"
    BY <1>5 DEF Refuse, Dispatch, Idle, Answered, Backend!Answer, CallRefused, ExecuteFails,
                ShowError, ErrorReply, Respond, CallInv
  <2> QED
    BY <2>1 DEF WellFormedIsTaken
<1>6. CASE Deliver \/ ClientGone \/ NewYear \/ UNCHANGED gatewayVars
  <2>1. UNCHANGED <<decoder, success, count, seen, tail, verdict>>
    BY <1>6 DEF Deliver, ClientGone, NewYear, gatewayVars, vars, reply
  <2>2. InSequence' <=> InSequence
    BY <2>1 DEF InSequence, Fits
  <2> QED
    BY <2>1, <2>2 DEF WellFormedIsTaken
<1> QED
  BY <1>1, <1>2, <1>3, <1>4, <1>5, <1>6 DEF GatewayNext

(* A reply of the documented format is never answered with                  *)
(* INVALID_RESPONSE_FORMAT, by any decoder, whatever its length.            *)
THEOREM WellFormedTaken == GatewaySpec => []WellFormedIsTaken
<1>1. GatewayInit => WellFormedIsTaken
  BY DEF GatewayInit, WellFormedIsTaken
<1>2. GatewayInv /\ WellFormedIsTaken /\ [GatewayNext]_gatewayVars => WellFormedIsTaken'
  BY NextTakes DEF GatewayInv
<1> QED
  BY <1>1, <1>2, Invariant, PTL DEF GatewaySpec

(* A router finds its way through a frame exactly if the segment is shorter *)
(* than what the byte for its length can hold, whatever the payload.        *)
LEMMA UnderstoodIff ==
  ASSUME NEW segment, NEW is_write, NEW clrid, NEW payload, segment.len \in Nat
  PROVE  Understood(prepend_router_header(segment, is_write, clrid, payload),
                    segment, is_write, clrid, payload)
           <=> segment.len < Byte
<1> DEFINE f == prepend_router_header(segment, is_write, clrid, payload)
<1>1. /\ f.magic = Router /\ f.segment = segment /\ f.is_write = is_write
      /\ f.segment_len = segment.len % Byte
      /\ f.shard = prepend_header(clrid, payload)
      /\ f.total_len = 1 + segment.len + 1 + (ShardHeader + payload.len)
  BY DEF prepend_router_header, RouterFrame
<1>2. f.shard.payload.len = payload.len
  BY <1>1 DEF prepend_header
<1>3. StaysInStep(f)
  BY <1>1, <1>2 DEF StaysInStep
<1>4. segment.len % Byte = segment.len <=> segment.len < Byte
  BY ByteAssumption
<1>5. FindsShard(f) <=> segment.len < Byte
  BY <1>1, <1>4 DEF FindsShard
<1> HIDE DEF f
<1>6. Understood(f, segment, is_write, clrid, payload) <=> segment.len < Byte
  BY <1>1, <1>3, <1>5 DEF Understood, prepend_header
<1> QED
  BY <1>6 DEF f

(* The router understands every frame of a request whose segment is shorter *)
(* than the byte for its length can hold, and no other, for every set of    *)
(* requests; and every keepalive frame.                                     *)
THEOREM RouterFramesUnderstood == GatewaySpec => []RouterUnderstands
<1>1. ASSUME GatewayInv, mode = "router", frame # NoFrame
      PROVE  Understood(frame, SegmentOf(request), ProcessorOf(request).is_write, CorrId,
                        PayloadOf(request)) <=> SegmentOf(request).len < Byte
  <2>1. request \in Requests /\ Valid(request)
        /\ frame = prepend_router_header(SegmentOf(request), ProcessorOf(request).is_write,
                                         CorrId, PayloadOf(request))
    BY <1>1 DEF GatewayInv, FrameInv, FrameFor
  <2>2. SegmentOf(request).len \in Nat
    <3>1. CASE request.origin = "start"
      BY <3>1 DEF SegmentOf
    <3>2. CASE request.origin # "start"
      <4>1. request.segment.kind = "text" /\ request.origin = "client"
        BY <3>2, <2>1, RequestsAssumption DEF Valid, Routed
      <4>2. request.segment \in Value
        BY <4>1, <2>1, RequestsAssumption
      <4>3. request.segment.v \in Nat
        BY <4>1, <4>2 DEF Value, Kinds
      <4> QED
        BY <3>2, <4>3 DEF SegmentOf
    <3> QED
      BY <3>1, <3>2
  <2> QED
    BY <2>1, <2>2, UnderstoodIff
<1>2. LET segment == [name |-> "__keepalive__", len |-> 13]
          empty == [len |-> 0]
      IN  Understood(build_keepalive_frame(segment, empty), segment, FALSE, 0, empty)
  BY ByteAssumption
     DEF Understood, build_keepalive_frame, RouterFrame, prepend_header, StaysInStep, FindsShard,
         ShardHeader
<1>3. GatewayInv => RouterUnderstands
  BY <1>1, <1>2 DEF RouterUnderstands
<1> QED
  BY <1>3, Invariant, PTL

-----------------------------------------------------------------------------
(* Ordering                                                                 *)

(* The n places of D, each once, by the number there and then by the place: *)
(* at k the one that as many as k come no later than.                       *)
Lists(p, n, D, key) ==
  /\ n \in Nat
  /\ p \in [1 .. n -> D]
  /\ \A i \in D : \E k \in 1 .. n : p[k] = i
  /\ \A i \in D, k \in 1 .. n : p[k] = i <=> Cardinality(UpTo(key, i)) = k
  /\ \A k, l \in 1 .. n :
       k < l => key[p[k]] < key[p[l]] \/ (key[p[k]] = key[p[l]] /\ p[k] < p[l])

(* Places lists every place once, by the number there and then by the place. *)
LEMMA PlacesCounted ==
  ASSUME NEW key, NEW D \in SUBSET Nat, D = DOMAIN key, IsFiniteSet(D),
         \A i \in D : key[i] \in Nat,
         NEW n, n = Cardinality(D), NEW p, p = Places(key)
  PROVE  Lists(p, n, D, key)
<1> DEFINE rank == [i \in D |-> Cardinality(UpTo(key, i))]
<1>1. n \in Nat
  BY FS_CardinalityType
<1>2. ASSUME NEW i \in D
      PROVE  UpTo(key, i) \in SUBSET D /\ i \in UpTo(key, i) /\ IsFiniteSet(UpTo(key, i))
             /\ rank[i] = Cardinality(UpTo(key, i)) /\ rank[i] \in 1 .. n
  <2>1. UpTo(key, i) \in SUBSET D
    BY DEF UpTo
  <2>2. i \in UpTo(key, i)
    BY DEF UpTo
  <2>3. IsFiniteSet(UpTo(key, i)) /\ Cardinality(UpTo(key, i)) <= n
    BY <2>1, FS_Subset
  <2>4. Cardinality(UpTo(key, i)) \in Nat
    BY <2>3, FS_CardinalityType
  <2>5. Cardinality(UpTo(key, i)) # 0
    BY <2>2, <2>3, FS_EmptySet
  <2> QED
    BY <1>1, <2>1, <2>2, <2>3, <2>4, <2>5
<1>3. ASSUME NEW i \in D, NEW j \in D, key[i] < key[j] \/ (key[i] = key[j] /\ i < j)
      PROVE  rank[i] < rank[j]
  <2>1. UpTo(key, i) \in SUBSET UpTo(key, j)
    BY <1>3 DEF UpTo
  <2>2. j \notin UpTo(key, i)
    BY <1>3 DEF UpTo
  <2>3. /\ Cardinality(UpTo(key, i)) <= Cardinality(UpTo(key, j))
        /\ Cardinality(UpTo(key, i)) = Cardinality(UpTo(key, j)) => UpTo(key, i) = UpTo(key, j)
    BY <1>2, <2>1, FS_Subset
  <2>4. rank[i] = Cardinality(UpTo(key, i)) /\ rank[j] = Cardinality(UpTo(key, j))
    OBVIOUS
  <2>5. rank[i] \in Nat /\ rank[j] \in Nat /\ j \in UpTo(key, j)
    BY <1>2, <1>1
  <2> HIDE DEF rank
  <2> QED
    BY <2>2, <2>3, <2>4, <2>5
<1>4. rank \in [D -> 1 .. n]
  BY <1>2
<1>5. ASSUME NEW i \in D, NEW j \in D, i # j PROVE rank[i] # rank[j]
  <2>1. \/ key[i] < key[j] \/ (key[i] = key[j] /\ i < j)
        \/ key[j] < key[i] \/ (key[j] = key[i] /\ j < i)
    BY <1>5
  <2>2. rank[i] \in Nat /\ rank[j] \in Nat
    BY <1>1, <1>2
  <2> HIDE DEF rank
  <2> QED
    BY <1>3, <2>1, <2>2
<1> HIDE DEF rank
<1>6. rank \in Injection(D, 1 .. n)
  BY <1>4, <1>5 DEF Injection, IsInjective
<1>7. IsFiniteSet(1 .. n) /\ Cardinality(1 .. n) = n
  BY <1>1, FS_Interval
<1>8. rank \in Surjection(D, 1 .. n)
  BY <1>6, <1>7, FS_Injection
<1>9. \A k \in 1 .. n : \E i \in D : rank[i] = k
  BY <1>8 DEF Surjection
<1>10. \A i \in D : rank[i] = Cardinality(UpTo(key, i))
  BY DEF rank
<1>11. \A k \in 1 .. n : p[k] \in D /\ rank[p[k]] = k
  <2> SUFFICES ASSUME NEW k \in 1 .. n PROVE p[k] \in D /\ rank[p[k]] = k
    OBVIOUS
  <2>1. p[k] = CHOOSE i \in D : Cardinality(UpTo(key, i)) = k
    BY DEF Places
  <2>2. \E i \in D : Cardinality(UpTo(key, i)) = k
    BY <1>9, <1>10
  <2> QED
    BY <2>1, <2>2, <1>10
<1>12. p \in [1 .. n -> D]
  BY <1>11 DEF Places
<1>13. \A i \in D : \E k \in 1 .. n : p[k] = i
  <2> SUFFICES ASSUME NEW i \in D PROVE p[rank[i]] = i
    BY <1>4
  <2> QED
    BY <1>4, <1>5, <1>11
<1>14. ASSUME NEW k \in 1 .. n, NEW l \in 1 .. n, k < l
       PROVE  key[p[k]] < key[p[l]] \/ (key[p[k]] = key[p[l]] /\ p[k] < p[l])
  <2>1. /\ p[k] \in D /\ p[l] \in D /\ rank[p[k]] = k /\ rank[p[l]] = l
        /\ p[k] \in Nat /\ p[l] \in Nat /\ key[p[k]] \in Nat /\ key[p[l]] \in Nat
    BY <1>11
  <2>2. p[k] # p[l]
    BY <2>1, <1>14
  <2>3. ~(key[p[l]] < key[p[k]] \/ (key[p[l]] = key[p[k]] /\ p[l] < p[k]))
    BY <1>3, <1>14, <2>1
  <2> QED
    BY <2>1, <2>2, <2>3
<1>15. ASSUME NEW i \in D, NEW k \in 1 .. n
       PROVE  p[k] = i <=> Cardinality(UpTo(key, i)) = k
  BY <1>5, <1>10, <1>11
<1> QED
  BY <1>1, <1>12, <1>13, <1>14, <1>15 DEF Lists

(* InOrder lists the members of a finite set from the least on.             *)
LEMMA SetsInOrder ==
  ASSUME NEW S \in SUBSET Nat, IsFiniteSet(S)
  PROVE  LET s == InOrder(S)
         IN  /\ s \in Seq(S) /\ DOMAIN s = 1 .. Len(s)
             /\ \A i \in S : \E k \in DOMAIN s : s[k] = i
             /\ \A k, l \in DOMAIN s : k < l => s[k] < s[l]
<1> DEFINE key == [i \in S |-> i]
           n == Cardinality(S)
           s == InOrder(S)
<1>1. DOMAIN key = S /\ \A i \in S : key[i] = i /\ key[i] \in Nat
  OBVIOUS
<1>2. s = Places(key)
  BY DEF InOrder
<1> HIDE DEF key, n, s
<1>3. /\ n \in Nat
      /\ s \in [1 .. n -> S]
      /\ \A i \in S : \E k \in 1 .. n : s[k] = i
      /\ \A k, l \in 1 .. n :
           k < l => key[s[k]] < key[s[l]] \/ (key[s[k]] = key[s[l]] /\ s[k] < s[l])
  <2>1. n = Cardinality(S)
    BY DEF n
  <2>2. Lists(s, n, S, key)
    BY <1>1, <1>2, <2>1, PlacesCounted
  <2> QED
    BY <2>2 DEF Lists
<1>4. s \in Seq(S) /\ DOMAIN s = 1 .. n /\ Len(s) = n
  BY <1>3
<1>5. ASSUME NEW k \in 1 .. n, NEW l \in 1 .. n, k < l PROVE s[k] < s[l]
  <2>1. s[k] \in S /\ s[l] \in S
    BY <1>3
  <2>2. key[s[k]] < key[s[l]] \/ (key[s[k]] = key[s[l]] /\ s[k] < s[l])
    BY <1>3, <1>5
  <2> QED
    BY <1>1, <2>1, <2>2
<1>6. s \in Seq(S) /\ DOMAIN s = 1 .. Len(s)
      /\ (\A i \in S : \E k \in DOMAIN s : s[k] = i)
      /\ (\A k, l \in DOMAIN s : k < l => s[k] < s[l])
  BY <1>3, <1>4, <1>5
<1> QED
  BY <1>6 DEF s

(* Ascending sorts: nothing is lost and nothing is repeated.                *)
LEMMA SequencesAscend ==
  ASSUME NEW S \in SUBSET Nat, NEW s \in Seq(S)
  PROVE  LET a == Ascending(s)
         IN  /\ a \in Seq(S) /\ Len(a) = Len(s)
             /\ \A k, l \in DOMAIN a : k < l => a[k] <= a[l]
             /\ \A d : Times(a, d) = Times(s, d)
<1> DEFINE a == Ascending(s)
           n == Len(s)
           p == Places(s)
<1>1. n \in Nat /\ DOMAIN s = 1 .. n /\ \A i \in 1 .. n : s[i] \in S /\ s[i] \in Nat
  <2>1. n \in Nat /\ DOMAIN s = 1 .. n
    OBVIOUS
  <2>2. \A i \in 1 .. n : s[i] \in S
    OBVIOUS
  <2> QED
    BY <2>1, <2>2
<1>2. IsFiniteSet(1 .. n) /\ Cardinality(1 .. n) = n
  BY <1>1, FS_Interval
<1> DEFINE D == 1 .. n
           key == s
<1>3. /\ D \in SUBSET Nat /\ D = DOMAIN key /\ \A i \in D : key[i] \in Nat
      /\ IsFiniteSet(D) /\ n = Cardinality(D) /\ p = Places(key)
  BY <1>1, <1>2
<1> HIDE DEF n, p
<1>4. /\ p \in [1 .. n -> 1 .. n]
      /\ \A i \in 1 .. n : \E k \in 1 .. n : p[k] = i
      /\ \A k, l \in 1 .. n : k < l =>
           s[p[k]] < s[p[l]] \/ (s[p[k]] = s[p[l]] /\ p[k] < p[l])
  <2> HIDE DEF D, key
  <2>1. Lists(p, n, D, key)
    BY <1>3, PlacesCounted
  <2> QED
    BY <2>1 DEF Lists, D, key
<1>5. DOMAIN a = 1 .. n /\ \A k \in 1 .. n : a[k] = s[p[k]]
  BY <1>1 DEF Ascending, p
<1> HIDE DEF a
<1>6. ASSUME NEW k \in 1 .. n, NEW l \in 1 .. n, k < l PROVE a[k] <= a[l]
  <2>1. s[p[k]] \in Nat /\ s[p[l]] \in Nat
    BY <1>1, <1>4
  <2>2. s[p[k]] < s[p[l]] \/ s[p[k]] = s[p[l]]
    BY <1>4, <1>6
  <2> QED
    BY <1>5, <2>1, <2>2
<1>7. ASSUME NEW k \in 1 .. n, NEW l \in 1 .. n, p[k] = p[l] PROVE k = l
  <2>1. p[k] \in Nat /\ s[p[k]] \in Nat
    BY <1>1, <1>4
  <2>2. k < l => s[p[k]] < s[p[l]] \/ p[k] < p[l]
    BY <1>4
  <2>3. l < k => s[p[l]] < s[p[k]] \/ p[l] < p[k]
    BY <1>4
  <2> QED
    BY <1>1, <1>7, <2>1, <2>2, <2>3
<1>8. ASSUME NEW d PROVE Times(a, d) = Times(s, d)
  <2> DEFINE A == {k \in 1 .. n : a[k] = d}
             B == {i \in 1 .. n : s[i] = d}
             f == [k \in A |-> p[k]]
  <2>1. f \in [A -> B]
    BY <1>4, <1>5
  <2>2. IsInjective(f)
    BY <1>7 DEF IsInjective
  <2>3. \A i \in B : \E k \in A : f[k] = i
    BY <1>4, <1>5
  <2>4. f \in Bijection(A, B)
    BY <2>1, <2>2, <2>3 DEF Bijection, Injection, Surjection
  <2>5. ExistsBijection(A, B)
    BY <2>4 DEF ExistsBijection
  <2>6. A \in SUBSET (1 .. n)
    OBVIOUS
  <2>7. IsFiniteSet(A)
    BY <1>2, <2>6, FS_Subset
  <2> HIDE DEF A, B
  <2>8. Cardinality(B) = Cardinality(A)
    BY <2>5, <2>7, FS_Bijection
  <2> QED
    BY <2>8, <1>1, <1>5 DEF Times, A, B
<1>9. a \in Seq(S) /\ Len(a) = Len(s)
  <2>1. a = [k \in 1 .. n |-> s[p[k]]]
    BY <1>1 DEF a, p, Ascending
  <2>2. \A k \in 1 .. n : s[p[k]] \in S
    BY <1>1, <1>4
  <2>3. n = Len(s)
    BY DEF n
  <2> QED
    BY <1>1, <2>1, <2>2, <2>3
<1> QED
  BY <1>5, <1>6, <1>8, <1>9 DEF a

-----------------------------------------------------------------------------
(* Lists                                                                    *)

\* How many of n fields name something, and which of them is the k-th to do so.
NamedOf(n) ==
  CASE decoder \in {"ids", "rooms"} -> n
    [] decoder = "segments"         -> (n + 1) \div 2
    [] decoder = "avail"            -> n \div 2
    [] OTHER                        -> 0

PlaceOf(k) ==
  CASE decoder \in {"ids", "rooms"} -> k
    [] decoder = "segments"         -> 2 * k - 1
    [] OTHER                        -> 2 * k

\* What the response lists after the fields read so far.
Listed ==
  IF decoder = "dates"
  THEN \A d \in FieldData :
         Times(items, d) = IF d = 0 THEN 0 ELSE Times([i \in DOMAIN seen |-> seen[i].data], d)
  ELSE /\ Len(items) = NamedOf(Len(seen))
       /\ \A k \in 1 .. Len(items) : items[k] = seen[PlaceOf(k)].data

\* What ListsWhatIsNamed asks of a response that is shown.
AllListed ==
  IF decoder = "dates"
  THEN /\ \A i, j \in DOMAIN items : i < j => items[i] <= items[j]
       /\ \A d \in FieldData : Times(items, d) = IF d = 0 THEN 0 ELSE Times(Names(Len(seen)), d)
  ELSE items = Names(Len(seen))

(* The lists: while the fields are read, what is listed is what the fields  *)
(* so far name, in their order, and the count is one that fits.             *)
ListInv ==
  /\ items \in Seq(FieldData)
  /\ verdict = "waiting" => items = <<>>
  /\ verdict = "reading" => CountFits /\ Listed
  /\ ListsWhatIsNamed

(* One more element in a row is counted once.                               *)
LEMMA TimesCounted ==
  ASSUME NEW n \in Nat, NEW s, NEW t, DOMAIN s = 1 .. n, DOMAIN t = 1 .. n + 1,
         \A i \in 1 .. n : t[i] = s[i], NEW d
  PROVE  Times(s, d) \in Nat /\ Times(t, d) = Times(s, d) + (IF t[n + 1] = d THEN 1 ELSE 0)
<1> DEFINE A == {i \in 1 .. n : s[i] = d}
           B == {i \in 1 .. n + 1 : t[i] = d}
<1>1. B = IF t[n + 1] = d THEN A \cup {n + 1} ELSE A
  <2>1. \A i : i \in 1 .. n + 1 <=> i \in 1 .. n \/ i = n + 1
    OBVIOUS
  <2> QED
    BY <2>1
<1>2. IsFiniteSet(A)
  <2>1. 1 \in Int /\ n \in Int
    OBVIOUS
  <2>2. IsFiniteSet(1 .. n)
    BY <2>1, FS_Interval
  <2>3. A \in SUBSET (1 .. n)
    OBVIOUS
  <2> QED
    BY <2>2, <2>3, FS_Subset
<1>3. n + 1 \notin A
  OBVIOUS
<1> HIDE DEF A, B
<1>4. Cardinality(A) \in Nat
  BY <1>2, FS_CardinalityType
<1>5. Cardinality(A \cup {n + 1}) = Cardinality(A) + 1
  BY <1>2, <1>3, FS_AddElement
<1>6. Times(s, d) = Cardinality(A) /\ Times(t, d) = Cardinality(B)
  BY DEF Times, A, B
<1> QED
  BY <1>1, <1>4, <1>5, <1>6

(* Nothing occurs in nothing.                                               *)
LEMMA TimesOfNothing == ASSUME NEW s, DOMAIN s = {}, NEW d PROVE Times(s, d) = 0
<1>1. {i \in DOMAIN s : s[i] = d} = {}
  OBVIOUS
<1> QED
  BY <1>1, FS_EmptySet DEF Times

(* The field after n others is the next that is listed exactly if it names  *)
(* something.                                                               *)
LEMMA NamedNext ==
  ASSUME NEW n \in Nat, NEW f, decoder # "dates"
  PROVE  /\ NamedOf(n) \in Nat
         /\ \A k \in 1 .. NamedOf(n) : PlaceOf(k) \in 1 .. n
         /\ IF Named(n + 1, f)
            THEN NamedOf(n + 1) = NamedOf(n) + 1 /\ PlaceOf(NamedOf(n) + 1) = n + 1
            ELSE NamedOf(n + 1) = NamedOf(n)
<1>1. CASE decoder \in {"ids", "rooms"}
  BY <1>1 DEF NamedOf, PlaceOf, Named
<1>2. CASE decoder = "segments"
  <2>1. NamedOf(n) = (n + 1) \div 2 /\ NamedOf(n + 1) = (n + 2) \div 2
        /\ (\A k : PlaceOf(k) = 2 * k - 1) /\ (Named(n + 1, f) <=> (n + 1) % 2 = 1)
    BY <1>2 DEF NamedOf, PlaceOf, Named
  <2>2. (n + 1) \div 2 \in Nat /\ \A k \in 1 .. (n + 1) \div 2 : 2 * k - 1 \in 1 .. n
    OBVIOUS
  <2>3. (n + 1) % 2 = 1 => (n + 2) \div 2 = (n + 1) \div 2 + 1 /\ 2 * ((n + 1) \div 2 + 1) - 1 = n + 1
    OBVIOUS
  <2>4. (n + 1) % 2 # 1 => (n + 2) \div 2 = (n + 1) \div 2
    OBVIOUS
  <2> QED
    BY <2>1, <2>2, <2>3, <2>4
<1>3. CASE decoder = "avail"
  <2>1. NamedOf(n) = n \div 2 /\ NamedOf(n + 1) = (n + 1) \div 2
        /\ (\A k : PlaceOf(k) = 2 * k) /\ (Named(n + 1, f) <=> (n + 1) % 2 = 0)
    BY <1>3 DEF NamedOf, PlaceOf, Named
  <2>2. n \div 2 \in Nat /\ \A k \in 1 .. n \div 2 : 2 * k \in 1 .. n
    OBVIOUS
  <2>3. (n + 1) % 2 = 0 => (n + 1) \div 2 = n \div 2 + 1 /\ 2 * (n \div 2 + 1) = n + 1
    OBVIOUS
  <2>4. (n + 1) % 2 # 0 => (n + 1) \div 2 = n \div 2
    OBVIOUS
  <2> QED
    BY <2>1, <2>2, <2>3, <2>4
<1>4. CASE decoder \notin {"ids", "rooms", "segments", "avail"}
  BY <1>4 DEF NamedOf, PlaceOf, Named
<1> QED
  BY <1>1, <1>2, <1>3, <1>4

(* Before the first field nothing is listed, and nothing need be.           *)
LEMMA NothingListed ==
  ASSUME seen = <<>>, items = <<>>
  PROVE  Listed /\ AllListed
<1>1. Len(items) = 0 /\ Len(seen) = 0 /\ DOMAIN items = {} /\ DOMAIN seen = {}
  OBVIOUS
<1>2. \A d : Times(items, d) = 0 /\ Times([i \in DOMAIN seen |-> seen[i].data], d) = 0
  BY <1>1, TimesOfNothing
<1>3. NamedOf(0) = 0
  BY DEF NamedOf
<1>4. Listed
  BY <1>1, <1>2, <1>3 DEF Listed
<1>5. AllListed
  <2>1. 0 \div 2 = 0 /\ 1 .. 0 = {} /\ 1 .. 0 \div 2 = {}
    OBVIOUS
  <2>2. Names(Len(seen)) = <<>>
    BY <1>1, <2>1 DEF Names
  <2>3. \A d : Times(Names(Len(seen)), d) = 0
    BY <1>2, <2>2
  <2> QED
    BY <1>1, <1>2, <2>2, <2>3 DEF AllListed
<1> QED
  BY <1>4, <1>5

(* One more field: what it names is listed behind the others.               *)
LEMMA FieldIsListed ==
  ASSUME ReadingInv, ListInv, ReadField PROVE ListInv'
<1>1. /\ verdict = "reading" /\ UNCHANGED <<decoder, success, count>>
      /\ CountFits /\ Listed /\ items \in Seq(FieldData) /\ seen \in Seq(Field)
  BY DEF ReadField, ListInv, ReadingInv, reply
<1>2. PICK f \in Field :
        /\ seen' = Append(seen, f)
        /\ items' = items \/ items' = Append(items, f.data)
        /\ verdict' \notin {"waiting", "shown"}
        /\ verdict' = "reading" =>
             items' = IF Named(Len(seen) + 1, f) THEN Append(items, f.data) ELSE items
  BY <1>1 DEF ReadField, Invalid, Respond
<1> DEFINE n == Len(seen)
           m == Len(items)
<1>3. /\ n \in Nat /\ m \in Nat /\ DOMAIN seen = 1 .. n /\ DOMAIN items = 1 .. m
      /\ DOMAIN seen' = 1 .. n + 1 /\ Len(seen') = n + 1
      /\ \A i \in 1 .. n : seen'[i] = seen[i]
      /\ seen'[n + 1] = f
  BY <1>1, <1>2, AppendProperties
<1>4. ASSUME items' = Append(items, f.data)
      PROVE  /\ DOMAIN items' = 1 .. m + 1 /\ Len(items') = m + 1
             /\ \A i \in 1 .. m : items'[i] = items[i]
             /\ items'[m + 1] = f.data
  BY <1>1, <1>4 DEF Field
<1>5. items' \in Seq(FieldData)
  <2>1. f.data \in FieldData
    BY DEF Field
  <2> QED
    BY <1>1, <1>2, <2>1, AppendProperties
<1> HIDE DEF n, m
<1>6. CountFits'
  BY <1>1 DEF CountFits
<1>7. ASSUME verdict' = "reading", decoder = "dates" PROVE Listed'
  <2> DEFINE s == [i \in DOMAIN seen |-> seen[i].data]
             t == [i \in DOMAIN seen' |-> seen'[i].data]
  <2>1. n \in Nat /\ DOMAIN s = 1 .. n /\ DOMAIN t = 1 .. n + 1 /\ t[n + 1] = f.data
        /\ \A i \in 1 .. n : t[i] = s[i]
    BY <1>3
  <2> HIDE DEF s, t
  <2>2. ASSUME NEW d
        PROVE  Times(s, d) \in Nat /\ Times(t, d) = Times(s, d) + (IF f.data = d THEN 1 ELSE 0)
    <3>1. Times(s, d) \in Nat /\ Times(t, d) = Times(s, d) + (IF t[n + 1] = d THEN 1 ELSE 0)
      BY <2>1, TimesCounted
    <3> QED
      BY <2>1, <3>1
  <2>3. \A d \in FieldData : Times(items, d) = IF d = 0 THEN 0 ELSE Times(s, d)
    BY <1>1, <1>7 DEF Listed, s
  <2>4. Named(n + 1, f) <=> f.data # 0
    BY <1>7 DEF Named
  <2>5. \A d \in FieldData : Times(items', d) = IF d = 0 THEN 0 ELSE Times(t, d)
    <3>1. CASE f.data = 0
      <4>1. items' = items
        BY <1>2, <1>7, <2>4, <3>1 DEF n
      <4>2. \A d \in FieldData : d # 0 => Times(t, d) = Times(s, d)
        BY <2>2, <3>1
      <4> QED
        BY <2>3, <4>1, <4>2
    <3>2. CASE f.data # 0
      <4>1. items' = Append(items, f.data)
        BY <1>2, <1>7, <2>4, <3>2 DEF n
      <4>2. /\ m \in Nat /\ DOMAIN items = 1 .. m /\ DOMAIN items' = 1 .. m + 1
            /\ items'[m + 1] = f.data /\ \A i \in 1 .. m : items'[i] = items[i]
        BY <1>3, <1>4, <4>1
      <4>3. ASSUME NEW d
            PROVE  Times(items', d) = Times(items, d) + (IF f.data = d THEN 1 ELSE 0)
        BY <4>2, TimesCounted
      <4> QED
        BY <2>2, <2>3, <3>2, <4>3
    <3> QED
      BY <3>1, <3>2
  <2> QED
    BY <1>1, <1>7, <2>5 DEF Listed, t
<1>8. ASSUME verdict' = "reading", decoder # "dates" PROVE Listed'
  <2>1. m = NamedOf(n) /\ \A k \in 1 .. m : items[k] = seen[PlaceOf(k)].data
    BY <1>1, <1>8 DEF Listed, n, m
  <2>2. /\ \A k \in 1 .. m : PlaceOf(k) \in 1 .. n
        /\ IF Named(n + 1, f)
           THEN NamedOf(n + 1) = m + 1 /\ PlaceOf(m + 1) = n + 1
           ELSE NamedOf(n + 1) = m
    BY <1>3, <1>8, <2>1, NamedNext
  <2>3. /\ Len(items') = NamedOf(n + 1)
        /\ \A k \in 1 .. Len(items') : items'[k] = seen'[PlaceOf(k)].data
    <3>1. CASE Named(n + 1, f)
      <4>1. items' = Append(items, f.data)
        BY <1>2, <1>8, <3>1 DEF n
      <4>2. \A k : k \in 1 .. m + 1 => k \in 1 .. m \/ k = m + 1
        BY <1>3
      <4> QED
        BY <1>3, <1>4, <2>1, <2>2, <3>1, <4>1, <4>2
    <3>2. CASE ~Named(n + 1, f)
      <4>1. items' = items /\ Len(items') = m
        BY <1>2, <1>8, <3>2 DEF n, m
      <4> QED
        BY <1>3, <2>1, <2>2, <3>2, <4>1
    <3> QED
      BY <3>1, <3>2
  <2>4. (\A i : NamedOf(i)' = NamedOf(i)) /\ (\A k : PlaceOf(k)' = PlaceOf(k))
    BY <1>1 DEF NamedOf, PlaceOf
  <2> QED
    BY <1>1, <1>3, <1>8, <2>3, <2>4 DEF Listed
<1> QED
  BY <1>2, <1>5, <1>6, <1>7, <1>8 DEF ListInv, ListsWhatIsNamed

(* When all the fields are read, what is listed is what the reply names.    *)
LEMMA AllAreListed ==
  ASSUME ReadingInv, items \in Seq(FieldData), CountFits, Listed,
         Len(seen) = count \/ Len(seen) % Wrap = count
  PROVE  /\ decoder # "dates" => items = Names(Len(seen))
         /\ decoder = "dates" =>
              \A d \in FieldData :
                Times(items, d) = IF d = 0 THEN 0 ELSE Times(Names(Len(seen)), d)
<1> DEFINE n == Len(seen)
<1>1. /\ n \in Nat /\ seen \in Seq(Field) /\ DOMAIN seen = 1 .. n
      /\ DOMAIN items = 1 .. Len(items) /\ Len(items) \in Nat
      /\ count \in Nat /\ Wrap \in Nat /\ Wrap > 0 /\ Wrap % 2 = 0
  BY WrapAssumption DEF ReadingInv
<1>2. n % 2 = count % 2
  BY <1>1, ParityOfRest
<1>3. decoder # "dates" => Len(items) = NamedOf(n)
  BY DEF Listed
<1> HIDE DEF n
<1>4. ASSUME decoder # "dates" PROVE items = Names(n)
  <2>1. Len(items) = NamedOf(n) /\ \A k \in 1 .. Len(items) : items[k] = seen[PlaceOf(k)].data
    BY <1>4, <1>3 DEF Listed
  <2>2. items = [k \in 1 .. Len(items) |-> items[k]]
    BY <1>1
  <2>3. items = [k \in 1 .. NamedOf(n) |-> seen[PlaceOf(k)].data]
    BY <2>1, <2>2
  <2>4. CASE decoder \in {"ids", "rooms"}
    BY <2>3, <2>4 DEF NamedOf, PlaceOf, Names
  <2>5. CASE decoder = "segments"
    <3>1. count % 2 = 0
      BY <2>5 DEF CountFits
    <3>2. (n + 1) \div 2 = n \div 2
      BY <1>1, <1>2, <3>1
    <3> QED
      BY <2>3, <2>5, <3>2 DEF NamedOf, PlaceOf, Names
  <2>6. CASE decoder = "avail"
    BY <2>3, <2>6 DEF NamedOf, PlaceOf, Names
  <2>7. CASE decoder \notin {"ids", "rooms", "segments", "avail"}
    <3>1. Len(items) = 0
      BY <2>1, <2>7 DEF NamedOf
    <3>2. items = <<>>
      BY <3>1, EmptySeq
    <3> QED
      BY <1>4, <2>7, <3>2 DEF Names
  <2> QED
    BY <2>4, <2>5, <2>6, <2>7
<1>5. ASSUME decoder = "dates"
      PROVE  \A d \in FieldData : Times(items, d) = IF d = 0 THEN 0 ELSE Times(Names(n), d)
  <2>1. Names(n) = [i \in DOMAIN seen |-> seen[i].data]
    BY <1>1, <1>5 DEF Names
  <2> QED
    BY <1>5, <2>1 DEF Listed
<1> QED
  BY <1>4, <1>5 DEF n

(* The end: the list is complete, and sorted if it is one of dates.         *)
LEMMA EndIsListed ==
  ASSUME ReadingInv, ListInv, DataEnds \/ AllRead PROVE ListInv'
<1>1. /\ verdict = "reading" /\ UNCHANGED <<decoder, success, count, seen>>
      /\ CountFits /\ Listed /\ items \in Seq(FieldData)
      /\ verdict' \in {"shown", "invalid"}
  BY DEF DataEnds, AllRead, ListInv, reply, Invalid, Show, Respond
<1>2. /\ verdict' = "shown" => Len(seen) = count \/ Len(seen) % Wrap = count
      /\ items' = items \/ (decoder = "dates" /\ items' = Ascending(items))
      /\ verdict' = "shown" /\ decoder = "dates" => items' = Ascending(items)
  <2>1. CASE DataEnds
    BY <2>1, EndCounts DEF DataEnds, Invalid, Respond, FinalItems
  <2>2. CASE AllRead
    BY <2>2, <1>1, EndCounts DEF AllRead, WantsMore, Scanning
  <2> QED
    BY <2>1, <2>2
<1>3. Names(Len(seen))' = Names(Len(seen))
  BY <1>1 DEF Names
<1>4. FieldData \in SUBSET Nat
  BY DEF FieldData
<1>5. /\ Ascending(items) \in Seq(FieldData)
      /\ \A k, l \in DOMAIN Ascending(items) : k < l => Ascending(items)[k] <= Ascending(items)[l]
      /\ \A d : Times(Ascending(items), d) = Times(items, d)
  BY <1>1, <1>4, SequencesAscend
<1>6. items' \in Seq(FieldData)
  BY <1>1, <1>2, <1>5
<1>7. ASSUME verdict' = "shown" PROVE ListsWhatIsNamed'
  <2>1. /\ decoder # "dates" => items = Names(Len(seen))
        /\ decoder = "dates" =>
             \A d \in FieldData : Times(items, d) = IF d = 0 THEN 0 ELSE Times(Names(Len(seen)), d)
    BY <1>1, <1>2, <1>7, AllAreListed
  <2> QED
    BY <1>1, <1>2, <1>3, <1>5, <1>7, <2>1 DEF ListsWhatIsNamed
<1> QED
  BY <1>1, <1>6, <1>7 DEF ListInv, ListsWhatIsNamed

(* Steps beside the reading.                                                *)
LEMMA BesideListing ==
  ASSUME ListInv, UNCHANGED items, verdict' \notin {"reading", "shown"},
         verdict' = "waiting" => verdict = "waiting"
  PROVE  ListInv'
BY DEF ListInv, ListsWhatIsNamed

(* No step of the gateway breaks the invariant of the lists.                *)
LEMMA NextLists ==
  ASSUME ReadingInv, CallInv, ListInv, [GatewayNext]_gatewayVars PROVE ListInv'
<1>1. CASE Refuse
  BY <1>1, BesideListing DEF Refuse, Idle, Respond
<1>2. CASE Dispatch
  BY <1>2, BesideListing DEF Dispatch, Idle
<1>3. CASE Answered
  BY <1>3, BesideListing DEF Answered, Backend!Answer, CallInv
<1>4. CASE CallRefused
  BY <1>4, BesideListing DEF CallRefused, ExecuteFails, Respond
<1>5. CASE ShowError
  BY <1>5, BesideListing DEF ShowError, ErrorReply, Respond
<1>6. CASE Begin
  <2>1. /\ verdict = "waiting" /\ seen = <<>> /\ items = <<>>
        /\ UNCHANGED <<decoder, success, count, seen, items>>
        /\ verdict' \in {"invalid", "shown", "reading"}
        /\ verdict' = "shown" => count = 0
        /\ verdict' = "reading" => CountFits
    BY <1>6 DEF Begin, BeginReading, Invalid, Show, Respond, ReadingInv, ListInv, reply
  <2>2. Listed /\ AllListed
    BY <2>1, NothingListed
  <2>3. (Listed' <=> Listed) /\ (verdict' = "shown" => ListsWhatIsNamed')
    <3>1. Listed' <=> Listed
      BY <2>1 DEF Listed, NamedOf, PlaceOf
    <3>2. Names(Len(seen))' = Names(Len(seen))
      BY <2>1 DEF Names
    <3> QED
      BY <2>1, <2>2, <3>1, <3>2 DEF AllListed, ListsWhatIsNamed
  <2>4. CountFits => CountFits'
    BY <2>1 DEF CountFits
  <2>5. items' \in Seq(FieldData)
    BY <2>1 DEF ListInv
  <2>6. ListsWhatIsNamed'
    BY <2>1, <2>3 DEF ListsWhatIsNamed
  <2> QED
    BY <2>1, <2>2, <2>3, <2>4, <2>5, <2>6 DEF ListInv
<1>7. CASE ReadOn
  BY <1>7, FieldIsListed DEF ReadOn
<1>8. CASE EndOfData \/ EndOfFields
  BY <1>8, EndIsListed DEF EndOfData, EndOfFields
<1>9. CASE Deliver \/ ClientGone \/ NewYear \/ UNCHANGED gatewayVars
  <2>1. UNCHANGED <<decoder, success, count, seen, items, verdict>>
    BY <1>9 DEF Deliver, ClientGone, NewYear, gatewayVars, vars, reply
  <2>2. (CountFits' <=> CountFits) /\ (Listed' <=> Listed) /\ (ListsWhatIsNamed' <=> ListsWhatIsNamed)
    BY <2>1 DEF CountFits, Listed, ListsWhatIsNamed, Names, NamedOf, PlaceOf
  <2> QED
    BY <2>1, <2>2 DEF ListInv
<1> QED
  BY <1>1, <1>2, <1>3, <1>4, <1>5, <1>6, <1>7, <1>8, <1>9 DEF GatewayNext

(* The lists of a response are what the reply names, for replies of any     *)
(* length: none of the decoders that build a list loses, repeats or         *)
(* reorders an entry, and sorting the dates only sorts them.                *)
THEOREM NamesAreListed == GatewaySpec => []ListsWhatIsNamed
<1>1. GatewayInit => ListInv
  BY DEF GatewayInit, ListInv, ListsWhatIsNamed
<1>2. GatewayInv /\ ListInv /\ [GatewayNext]_gatewayVars => ListInv'
  BY NextLists DEF GatewayInv
<1>3. ListInv => ListsWhatIsNamed
  BY DEF ListInv
<1> QED
  BY <1>1, <1>2, <1>3, Invariant, PTL DEF GatewaySpec
=============================================================================
