-------------------------------- MODULE Gateway --------------------------------
(***************************************************************************)
(* A request from its arrival to its response: process of                  *)
(* src/src/processor/base.rs, the validation and the encoding of its       *)
(* command (Command), the frame that execute builds (Encoding), the call   *)
(* of the backend (Rpc, which the connections are shown to implement), the *)
(* decoding of the reply (Reply, Conversions) and the counters of          *)
(* src/src/metrics.rs.                                                     *)
(*                                                                         *)
(* One request is followed.  It comes from a client, or from lib.rs, which *)
(* asks for the rate features.  The call is the only place where a request *)
(* waits: a client that leaves is noticed there and nowhere else.  What    *)
(* was asked is forgotten when the answer is there, since nothing looks at *)
(* it any more.                                                            *)
(***************************************************************************)
EXTENDS Reply, Command, Encoding, Conversions

CONSTANTS
  Requests,     \* what may come in
  StoredDates,  \* dates that a reply may carry
  PackYear,     \* the year in which the backend packs them
  MaxYears,     \* bound: New Years until they are written
  ShortTexts,   \* texts that a backend keeps as short property ids
  RawIds        \* what a reply may carry for a property id

ASSUME YearsAssumption == PackYear \in Nat /\ MaxYears \in Nat

\* The values of JSON, also of the segment: any may be of the wrong kind.
ASSUME RequestsAssumption ==
  \A q \in Requests :
    /\ q.origin \in {"client", "start"}
    /\ q.origin = "client" =>
         /\ q.segment \in Value
         /\ \A name \in DOMAIN q.body.fields : q.body.fields[name] \in Value

\* Dates of the calendar, no further ahead than three bits count.
ASSUME DatesAssumption ==
  \A d \in StoredDates :
    /\ d \in Nat \X Nat \X Nat
    /\ d[1] \in PackYear .. PackYear + 7
    /\ ValidDate(d[1], d[2], d[3])

\* A backend keeps texts of at most fifteen characters as short ids.
ASSUME IdsAssumption ==
  /\ \A text \in ShortTexts : text \in Seq(Printable) /\ Len(text) <= 15
  /\ \A data \in RawIds :
       /\ data \in Seq(0 .. 255)
       /\ Len(data) >= 7 /\ data[7] = Marker =>
            \A i \in DOMAIN data \ {7} : data[i] \in Printable \cup {0}

Modes == {"standalone", "router"}
NoFrame == [magic |-> "none"]
Forgotten == [origin |-> "forgotten"]
This == "call"
CorrId == 1   \* the id of the call; module Connection is about the ids

VARIABLES
  mode,      \* the mode of this gateway
  request,   \* what came in
  frame,     \* what was handed to the connection
  phase,     \* the call, as its caller sees it
  copies,    \* ... and whether the backend was handed it: see Rpc
  counted,   \* what the request added to client_errors and to bytes_sent
  stored,    \* the date that the days of the reply are about
  years,     \* New Years since the backend packed it
  written    \* the date the response has for it

Backend == INSTANCE Rpc WITH Req <- {This}

asked == <<mode, request, frame>>
calls == <<phase, copies>>
dates == <<stored, years, written>>
gatewayVars == <<vars, asked, calls, counted, dates>>

GatewayInit ==
  /\ mode \in Modes
  /\ request \in Requests
  /\ frame = NoFrame
  /\ Backend!Init
  /\ counted = [errors |-> 0, bytes |-> 0]
  /\ stored = NoDate /\ years = 0 /\ written = NoDate
  /\ decoder = "simple" /\ success = FALSE /\ count = 0
  /\ seen = <<>> /\ tail = "unknown" /\ items = <<>>
  /\ verdict = "waiting" /\ code = 0

-----------------------------------------------------------------------------
(* The request                                                              *)

\* The processor that process calls, and the one that lib.rs calls.
ProcessorOf(q) == IF q.origin = "start" THEN GetCodecs ELSE Process[q.command]

\* The root of the request: JSON, a known command, a segment that is a text.
Routed(q) == q.json /\ q.command \in DOMAIN Process /\ q.segment.kind = "text"

Valid(q) == IF q.origin = "start" THEN TRUE ELSE Routed(q) /\ Accepts(Process[q.command], q.body)

\* Where a router sends it: GETSEGMENTS and GETCODECS have names of their own.
SegmentOf(q) ==
  CASE q.origin = "start"          -> [name |-> "__codecs__", len |-> 10]
    [] q.command = "GETSEGMENTS"   -> [name |-> "GETSEGMENTS", len |-> 11]
    [] OTHER                       -> [name |-> "root", len |-> q.segment.v]

PayloadOf(q) == Payload(ProcessorOf(q), IF q.origin = "start" THEN [object |-> TRUE, fields |-> <<>>]
                                        ELSE q.body)

FrameFor(q) ==
  LET p == ProcessorOf(q) IN
    IF mode = "router"
    THEN prepend_router_header(SegmentOf(q), p.is_write, CorrId, PayloadOf(q))
    ELSE prepend_header(CorrId, PayloadOf(q))

Idle == phase[This] = "idle" /\ verdict = "waiting"

Count(e, b) == counted' = [errors |-> counted.errors + e, bytes |-> counted.bytes + b]

\* error_response for a request that does not get as far as execute.
Refuse ==
  /\ Idle
  /\ ~Valid(request)
  /\ Respond("failed", 400)
  /\ Count(1, 0)
  /\ UNCHANGED <<reply, seen, tail, items, asked, calls, dates>>

\* A valid request is encoded and given to execute, which frames it.
Dispatch ==
  /\ Idle
  /\ Valid(request)
  /\ frame' = FrameFor(request)
  /\ decoder' = ProcessorOf(request).decoder
  /\ Backend!Submit(This)
  /\ UNCHANGED <<success, count, seen, tail, items, verdict, code, mode, request, counted, dates>>

-----------------------------------------------------------------------------
(* The call                                                                 *)

\* The frame reaches the backend, perhaps after the client has left.
Deliver ==
  /\ Backend!HandOver(This)
  /\ UNCHANGED <<vars, asked, counted, dates>>

\* The answer arrives; the dates in it were packed in PackYear.
Answered ==
  /\ Backend!Answer(This)
  /\ success' \in BOOLEAN
  /\ count' \in 0 .. Wrap - 1
  /\ stored' \in (IF decoder = "avail" THEN StoredDates ELSE {NoDate})
  /\ request' = Forgotten
  /\ frame' = NoFrame
  /\ UNCHANGED <<decoder, seen, tail, items, verdict, code, mode, counted, years, written>>

\* Variant: execute gives up on a call that may be under way.
CallTimesOut ==
  /\ phase[This] = "busy"
  /\ phase' = [phase EXCEPT ![This] = "refused"]
  /\ ExecuteFails
  /\ Count(IF decoder = "codecs" THEN 0 ELSE 1, 0)
  /\ UNCHANGED <<copies, asked, dates>>

\* execute returns an error.
CallRefused ==
  /\ Backend!Refuse(This)
  /\ ExecuteFails
  /\ Count(IF decoder = "codecs" THEN 0 ELSE 1, 0)
  /\ UNCHANGED <<asked, dates>>

\* The client closes its connection, or a shutdown ends the wait of lib.rs.
ClientGone ==
  /\ Backend!Abandon(This)
  /\ UNCHANGED <<vars, asked, counted, dates>>

-----------------------------------------------------------------------------
(* The response                                                             *)

\* The decoders that add to bytes_sent: not all of them do.
AddsBytes ==
  \/ decoder \in {"simple", "scalar", "boolean", "day", "dates"}
  \/ decoder = "segments" /\ count # 0
  \/ decoder \in {"ids", "rooms"} /\ count = 0

Decoding == phase[This] = "ok" /\ UNCHANGED <<asked, calls, stored, years>>

CountShown == Count(0, IF verdict' = "shown" /\ AddsBytes THEN 1 ELSE 0)

\* handle_non_success_status, and the error of GETCODECS.
ShowError ==
  /\ Decoding
  /\ ErrorReply
  /\ IF decoder = "codecs" THEN UNCHANGED counted ELSE Count(1, 1)
  /\ UNCHANGED written

Begin ==
  /\ Decoding
  /\ BeginReading
  /\ CountShown
  /\ UNCHANGED written

\* The days of a property are sound only if their date can be written.
ReadOn ==
  /\ Decoding
  /\ ReadField
  /\ UNCHANGED counted
  /\ LET f == seen'[Len(seen')]
         date == write_packed_date(Pack(stored, PackYear), PackYear + years)
     IN IF decoder = "avail" /\ f.type = "days" /\ f.data = 1 /\ Len(seen') > 1
        THEN date # NoDate /\ written' = date
        ELSE UNCHANGED written

EndOfData ==
  /\ Decoding
  /\ DataEnds
  /\ CountShown
  /\ UNCHANGED written

EndOfFields ==
  /\ Decoding
  /\ AllRead
  /\ CountShown
  /\ UNCHANGED written

\* New Year, between the packing of the dates and their writing.
NewYear ==
  /\ stored # NoDate
  /\ verdict \in {"waiting", "reading"}
  /\ years < MaxYears
  /\ years' = years + 1
  /\ UNCHANGED <<vars, asked, calls, counted, stored, written>>

GatewayNext ==
  \/ Refuse \/ Dispatch
  \/ Deliver \/ Answered \/ CallRefused \/ ClientGone
  \/ ShowError \/ Begin \/ ReadOn \/ EndOfData \/ EndOfFields
  \/ NewYear

GatewaySpec == GatewayInit /\ [][GatewayNext]_gatewayVars

-----------------------------------------------------------------------------
(* The request bodies of README.md, "Supported Commands": the names in      *)
(* order, and how many of them, the first, must be there.                   *)
Doc(must, names) == [must |-> must, names |-> names]

Documented ==
  [SETPROP          |-> Doc(8, <<"segment", "area", "property_id", "property_type", "category",
                                 "stars", "latitude", "longitude", "amenities">>),
   SEARCHPROP       |-> Doc(1, <<"segment", "area", "type", "stars", "category", "amenities",
                                 "longitude", "latitude", "limit">>),
   SEARCHAVAIL      |-> Doc(2, <<"segment", "room_type", "area", "property_id", "type",
                                 "stars", "category", "amenities", "longitude", "latitude",
                                 "date", "availability", "final_price", "rate_features", "limit">>),
   SETROOMPKG       |-> Doc(3, <<"property_id", "room_type", "date", "availability",
                                 "final_price", "rate_features">>),
   SETROOMAVL       |-> Doc(4, <<"property_id", "room_type", "date", "amount">>),
   INCROOMAVL       |-> Doc(4, <<"property_id", "room_type", "date", "amount">>),
   DECROOMAVL       |-> Doc(4, <<"property_id", "room_type", "date", "amount">>),
   PROPEXIST        |-> Doc(1, <<"property_id">>),
   PROPROOMEXIST    |-> Doc(2, <<"property_id", "room_type">>),
   PROPROOMLIST     |-> Doc(1, <<"property_id">>),
   PROPROOMDATELIST |-> Doc(2, <<"property_id", "room_type">>),
   GETPROPROOMDAY   |-> Doc(3, <<"property_id", "room_type", "date">>),
   DELPROP          |-> Doc(1, <<"property_id">>),
   DELSEGMENT       |-> Doc(1, <<"segment">>),
   DELPROPDAY       |-> Doc(2, <<"property_id", "date">>),
   DELPROPROOM      |-> Doc(2, <<"property_id", "room_type">>),
   DELROOMDAY       |-> Doc(3, <<"property_id", "room_type", "date">>),
   GETSEGMENTS      |-> Doc(0, <<>>)]

\* Commands that change something at the backend.
Writes == {"SETPROP", "SETROOMPKG", "SETROOMAVL", "INCROOMAVL", "DECROOMAVL", "DELPROP",
           "DELSEGMENT", "DELPROPDAY", "DELPROPROOM", "DELROOMDAY"}

NameOf(cmd, id) == Documented[cmd].names[id]

\* Is x a value for this name, by the examples of README.md?
Usable(cmd, name, x) ==
  LET number(low, high) == x.kind = "num" /\ x.v \in low .. high
      decimal(high) == x.kind \in {"num", "real"} /\ (cmd = "SEARCHAVAIL" \/ x.v \in -high .. high)
      texts == x.kind \in {"list", "mixed"} /\ x.v > 0
  IN  CASE name = "stars" -> number(IF cmd = "SEARCHAVAIL" THEN 0 ELSE 1, IF cmd = "SEARCHAVAIL" THEN 255 ELSE 5)
        [] name \in {"availability", "amount"}             -> number(0, 255)
        [] name = "latitude"                               -> decimal(90)
        [] name = "longitude"                              -> decimal(180)
        [] name \in {"final_price", "limit"}               -> x.kind = "num"
        [] name = "date" /\ cmd = "SEARCHAVAIL"            -> texts
        [] name \in {"amenities", "rate_features"}         -> texts
        [] OTHER                                           -> x.kind = "text"

Given(id) == Get(request.body, NameOf(request.command, id))
Known == request.origin = "client" /\ Routed(request)
IdsOf(cmd) == 1 .. Len(Documented[cmd].names)

\* The fields that README.md and the code know by the same name: all but "type" of
\* SEARCHPROP, which search_prop.rs calls "property_type".  See FiltersKept.
Agreed(cmd) == IdsOf(cmd) \ (IF cmd = "SEARCHPROP" THEN {3} ELSE {})

Required(cmd) == 1 .. Documented[cmd].must
Handed == IF frame.magic = Router THEN frame.shard ELSE frame
Carried == {Handed.payload.fields[k].id : k \in DOMAIN Handed.payload.fields}

\* The type of the field for a name, and the length of its data: every command
\* that has a field of this name sends it in this form.
Form(name, x) ==
  CASE name \in {"stars", "availability", "amount"}   -> [type |-> 2, len |-> 1]
    [] name = "final_price"                           -> [type |-> 3, len |-> 4]
    [] name \in {"latitude", "longitude", "limit"}    -> [type |-> 3, len |-> 8]
    [] OTHER -> [type |-> 1, len |-> IF as_array(x) THEN 2 * x.v - 1 ELSE x.v]

\* Are these the data of a field with the value x?
StandsFor(cmd, id, data, x) ==
  LET name == NameOf(cmd, id)
      form == IF Usable(cmd, name, x) THEN Form(name, x) ELSE [type |-> 1, len |-> 0]
  IN  /\ data.type = form.type /\ data.len = form.len
      /\ IF Usable(cmd, name, x)
         THEN data.value = IF name = "final_price" THEN x.v % Word ELSE x.v
         ELSE cmd = "SETPROP" /\ name = "amenities"

(* What the backend is handed is what the client asked for: the command by  *)
(* its own name, flagged as a write exactly if it is one, every required    *)
(* field, every optional one with a usable value, under the id that its     *)
(* place in README.md gives it, ids ascending, with the value that was      *)
(* given, in the type and the length that this name has in every command.   *)
(* Three things are the code's own: final_price is cut to 32 bits, an       *)
(* optional field with a value that cannot be used is dropped without an    *)
(* error, and SETPROP sends its amenities also when there are none.         *)
RequestKept ==
  frame # NoFrame /\ request.origin = "client" =>
    LET cmd == request.command
        fields == Handed.payload.fields
    IN  /\ Handed.payload.cmd_name = cmd
        /\ mode = "router" => (frame.is_write <=> cmd \in Writes)
        /\ Handed.payload.field_count = Len(fields)
        /\ \A j, k \in DOMAIN fields : j < k => fields[j].id < fields[k].id
        /\ Required(cmd) \subseteq Carried /\ Carried \subseteq IdsOf(cmd)
        /\ \A id \in Agreed(cmd) : Usable(cmd, NameOf(cmd, id), Given(id)) => id \in Carried
        /\ \A k \in DOMAIN fields :
             fields[k].id \in Agreed(cmd) =>
               StandsFor(cmd, fields[k].id, fields[k].data, Given(fields[k].id))

(* README.md on its request bodies: a filter that it lists, with a value    *)
(* like its example, is part of what the backend is asked.                  *)
FiltersKept ==
  frame # NoFrame /\ request.origin = "client" =>
    \A id \in IdsOf(request.command) :
      Usable(request.command, NameOf(request.command, id), Given(id)) => id \in Carried

(* A request is refused only for a fault of its own: its root is not as     *)
(* README.md says, a required field cannot be used (an empty text neither,  *)
(* but for the two commands that take one), or the body is no object.       *)
GoodTaken ==
  verdict = "failed" /\ phase[This] = "idle" =>
    \/ ~Known
    \/ ~request.body.object
    \/ \E id \in Required(request.command) :
         \/ ~Usable(request.command, NameOf(request.command, id), Given(id))
         \/ Given(id) = [kind |-> "text", v |-> 0] /\ request.command \notin {"SETPROP", "SEARCHPROP"}

(* A router that reads the frame by its lengths finds the segment, the flag *)
(* and the shard frame where they are, and the next frame behind, exactly   *)
(* if the segment is shorter than what the byte for its length can hold:    *)
(* whatever was validated and encoded is lost when it is not.  The frames   *)
(* of the keepalive task never are.                                         *)
RouterUnderstands ==
  /\ mode = "router" /\ frame # NoFrame =>
       LET q == request
       IN  Understood(frame, SegmentOf(q), ProcessorOf(q).is_write, CorrId, PayloadOf(q))
             <=> SegmentOf(q).len < Byte
  /\ LET segment == [name |-> "__keepalive__", len |-> 13]
         empty == [len |-> 0]
     IN  Understood(build_keepalive_frame(segment, empty), segment, FALSE, 0, empty)

(* What a client may conclude from a response.  A refusal by rzgate itself  *)
(* means that the backend was not handed the request and will not be; any   *)
(* other response, also 500 INVALID_RESPONSE_FORMAT, that it was, so that   *)
(* to send a write again is to do it twice.  The verdict is told by the     *)
(* message of the response: a refusal, and many an error of the backend,    *)
(* have the status 400.                                                     *)
AnswerTellsFate ==
  /\ verdict = "failed" => copies[This] = 0 /\ phase[This] \in {"idle", "refused"}
  /\ verdict \in {"shown", "error", "invalid"} => copies[This] = 1 /\ phase[This] = "ok"

(* README.md, "Metrics": api_client_errors_total counts the "4xx / 5xx      *)
(* responses sent to clients"; here, the 4xx.                               *)
ErrorsCounted == code \in 400 .. 499 => counted.errors = 1

Moved(when, n) == <<when[1] + n, when[2], when[3]>>

(* A date is written as it was stored, but for the New Years since it was   *)
(* packed, which each move it by a year; and it can be written, unless they *)
(* moved a 29th of February to a year that has none, which costs the client *)
(* the whole reply.                                                         *)
DatesShown ==
  stored # NoDate =>
    LET now == Moved(stored, years)
    IN  /\ written # NoDate => \E n \in 0 .. years : written = Moved(stored, n)
        /\ write_packed_date(Pack(stored, PackYear), PackYear + years) =
             IF stored[2] = 2 /\ stored[3] = 29 /\ ~LeapYear(now[1]) THEN NoDate ELSE now

(* What the fields of a reply hold is left out of its states: when one is   *)
(* about to be decoded, it may be anything that a field may hold.           *)
AboutToRead(d) == phase[This] = "ok" /\ verdict = "waiting" /\ success /\ decoder = d

(* A short property id comes back as it was stored, and the two converters  *)
(* of ids, of SEARCHPROP and of SEARCHAVAIL, make the same of any id, so    *)
(* that an id found by one command can be used with another.                *)
IdsKept ==
  AboutToRead("ids") =>
    /\ \A text \in ShortTexts :
         bytes_to_property_id(ShortId(text)) = text /\ write_quoted_property_id(ShortId(text)) = text
    /\ \A data \in RawIds : bytes_to_property_id(data) = write_quoted_property_id(data)
=============================================================================
