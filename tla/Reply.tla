-------------------------------- MODULE Reply --------------------------------
(***************************************************************************)
(* From the result of Handler::execute to the HTTP response: the decoders  *)
(* of src/src/protocol/response.rs and of the modules of src/src/processor *)
(* that have one of their own, and error_response.                         *)
(*                                                                         *)
(* A reply is a status, a field count and fields.  The decoder walks it a  *)
(* field at a time; the model lets the server choose each field when the   *)
(* decoder comes to it, and where the data ends.  A field is its id, its   *)
(* type and its data: for a text the number of the text that is shown for  *)
(* it (0 the empty one), for a number its length in bytes, for a vector of *)
(* days and for the codecs whether it is sound (1) or not.  The header of  *)
(* a reply is whole: drain_frame_async lets no other through (Framing).    *)
(* A frame may hold more fields than sixteen bits count.                   *)
(*                                                                         *)
(* One reply is followed: decoders share nothing but the counters of       *)
(* metrics.rs, which module Gateway adds.                                  *)
(***************************************************************************)
EXTENDS Integers, Sequences, FiniteSets, Ordering

CONSTANTS
  Wrap,       \* ids and counts are counted modulo this; 2^16 in the code (u16)
  MaxFields   \* bound: fields that a decoder reads; nothing in the code bounds them

ASSUME WrapAssumption == Wrap \in Nat /\ Wrap >= 2 /\ Wrap % 2 = 0
ASSUME MaxFieldsAssumption == MaxFields \in Nat

Decoders == {"simple", "scalar", "boolean", "ids", "avail", "day", "dates", "rooms",
             "segments", "codecs"}

FieldTypes == {"text", "u8", "u32", "days", "codecs"}
FieldData == {0, 1, 2, 4}
DataOf == [text |-> {0, 1, 2}, u8 |-> {1, 2}, u32 |-> {2, 4}, days |-> {0, 1}, codecs |-> {0, 1}]
Field ==
  {f \in [id : 0 .. Wrap - 1, type : FieldTypes, data : FieldData] : f.data \in DataOf[f.type]}

VARIABLES
  decoder,   \* the decoder of the command
  success,   \* is the status SUCCESS?
  count,     \* the field count of the header
  seen,      \* the fields looked at so far
  tail,      \* what follows them: "unknown", "end", "scrap", "cut", "more"
  items,     \* what the response will list
  verdict,   \* "waiting", "reading", "shown", "error", "invalid", "failed"
  code       \* the HTTP status, 0 while there is none

reply == <<decoder, success, count>>
vars == <<reply, seen, tail, items, verdict, code>>

Codes == {0, 200, 400, 404, 500, 503, 504}

TypeOK ==
  /\ decoder \in Decoders
  /\ success \in BOOLEAN
  /\ count \in 0 .. Wrap - 1
  /\ seen \in Seq(Field) /\ Len(seen) <= MaxFields
  /\ tail \in {"unknown", "end", "scrap", "cut", "more"}
  /\ items \in Seq(FieldData)
  /\ verdict \in {"waiting", "reading", "shown", "error", "invalid", "failed"}
  /\ code \in Codes

-----------------------------------------------------------------------------
(* The tables of the decoders                                              *)

\* Decoders that read while there is data and compare the count in the end;
\* the others read as many fields as they expect.
Scanning == {"avail", "dates", "rooms", "segments"}

Text(f) == f.type = "text"

ScalarField(f) == f.type = "u8" /\ f.data = 1

DayField(i, f) ==
  \/ i \in {1, 2} /\ Text(f)
  \/ i = 3 /\ ScalarField(f)
  \/ i \in {4, 5} /\ f.type = "u32" /\ f.data = 4

SegmentField(i, f) == IF i % 2 = 1 THEN Text(f) ELSE f.type = "u32" /\ f.data = 4

AvailField(i, f) ==
  \/ i = 1 /\ f.type = "u8" /\ f.data = 2
  \/ i > 1 /\ i % 2 = 0 /\ Text(f)
  \/ i > 1 /\ i % 2 = 1 /\ f.type = "days" /\ f.data = 1

CodecsField(f) == f.type = "codecs" /\ f.data = 1

\* The type and the length that the decoder asks of its i-th field.
Fits(i, f) ==
  CASE decoder \in {"scalar", "boolean"}       -> ScalarField(f)
    [] decoder \in {"ids", "dates", "rooms"}   -> Text(f)
    [] decoder = "day"                         -> DayField(i, f)
    [] decoder = "segments"                    -> SegmentField(i, f)
    [] decoder = "avail"                       -> AvailField(i, f)
    [] decoder = "codecs"                      -> CodecsField(f)
    [] OTHER                                   -> FALSE

\* Does the i-th field name something that the response lists?
Named(i, f) ==
  \/ decoder \in {"ids", "rooms"}
  \/ decoder = "dates" /\ f.data # 0
  \/ decoder = "segments" /\ i % 2 = 1
  \/ decoder = "avail" /\ i % 2 = 0

\* Variant: a count of days before properties that is itself not counted.
CountFitsEven == decoder = "avail" => count % 2 = 0

\* The counts with which a decoder begins to read.
CountFits ==
  CASE decoder = "simple"                          -> count = 0
    [] decoder \in {"scalar", "boolean", "codecs"} -> count = 1
    [] decoder = "day"                             -> count = 5
    [] decoder = "segments"                        -> count % 2 = 0
    [] decoder = "avail"                           -> count = 0 \/ (count - 1) % 2 = 0
    [] OTHER                                       -> TRUE

-----------------------------------------------------------------------------
(* Responses                                                               *)

Respond(v, c) == verdict' = v /\ code' = c

\* Variant: a status that rzgate has no use for.
InvalidBadGateway == Respond("invalid", 502)

\* invalid_response; for the codecs an error to the caller.
Invalid == Respond("invalid", IF decoder = "codecs" THEN 0 ELSE 500)

Show == Respond("shown", IF decoder = "codecs" THEN 0 ELSE 200)

Init ==
  /\ decoder \in Decoders
  /\ success \in BOOLEAN
  /\ count \in 0 .. Wrap - 1
  /\ seen = <<>>
  /\ tail = "unknown"
  /\ items = <<>>
  /\ verdict = "waiting"
  /\ code = 0

\* error_response: always BAD_REQUEST, whatever the error.
ExecuteFails ==
  /\ verdict = "waiting"
  /\ IF decoder = "codecs"
     THEN Respond("failed", 0)
     ELSE Respond("failed", 400)
  /\ UNCHANGED <<reply, seen, tail, items>>

(* A status other than SUCCESS: handle_non_success_status, which looks for  *)
(* a message in the first field and falls back on the status itself.  Four  *)
(* messages have a code of their own.                                       *)
ErrorReply ==
  /\ verdict = "waiting"
  /\ ~success
  /\ IF decoder = "codecs"
     THEN Respond("error", 0)
     ELSE \E c \in (IF count = 0 THEN {400} ELSE {400, 404, 500, 503, 504}) :
            Respond("error", c)
  /\ UNCHANGED <<reply, seen, tail, items>>

\* A status of SUCCESS: the count is looked at.  An empty result is shown.
BeginReading ==
  /\ verdict = "waiting"
  /\ success
  /\ IF ~CountFits THEN Invalid
     ELSE IF count = 0 THEN Show
     ELSE verdict' = "reading" /\ UNCHANGED code
  /\ UNCHANGED <<reply, seen, tail, items>>

\* The id that is due; a u16 that wraps around in the decoders that scan.
IdFits(f) == f.id = (Len(seen) + 1) % Wrap

WantsMore == decoder \in Scanning \/ Len(seen) < count

(* One round: a header is there and its data too.  SEARCHPROP takes a lone  *)
(* text for the message of an error.                                        *)
ReadField ==
  /\ verdict = "reading"
  /\ WantsMore
  /\ Len(seen) < MaxFields
  /\ \E f \in Field :
       /\ f.id \in {(Len(seen) + 1) % Wrap, Len(seen) % Wrap}
       /\ seen' = Append(seen, f)
       /\ IF ~IdFits(f) \/ ~Fits(Len(seen) + 1, f)
          THEN Invalid /\ UNCHANGED items
          ELSE IF decoder = "ids" /\ count = 1
          THEN Respond("error", 400) /\ UNCHANGED items
          ELSE /\ items' = IF Named(Len(seen) + 1, f) THEN Append(items, f.data) ELSE items
               /\ UNCHANGED <<verdict, code>>
  /\ UNCHANGED <<reply, tail>>

\* Variants: a count off by one, dates that are not sorted.
CountMatchesOffByOne == Len(seen) + 1 = count \/ Len(seen) = count
FinalItemsUnsorted == items

\* (expected_id - 1) == field_count, with the id that is due next.
CountMatches == (((Len(seen) + 1) % Wrap) - 1) % Wrap = count

FinalItems == IF decoder = "dates" THEN Ascending(items) ELSE items

(* The data ends where the decoder looks for a field: with nothing left,    *)
(* with fewer bytes than a header, or inside the data of a field.           *)
DataEnds ==
  /\ verdict = "reading"
  /\ WantsMore
  /\ tail' \in {"end", "scrap", "cut"}
  /\ IF decoder \in Scanning /\ tail' # "cut" /\ CountMatches
     THEN Show /\ items' = FinalItems
     ELSE Invalid /\ UNCHANGED items
  /\ UNCHANGED <<reply, seen>>

(* All the fields that were expected are read; only GETPROPROOMDAY looks    *)
(* on.  Its answer would also be invalid without the names of the rate      *)
(* features, which are there before it is asked: CodecsBeforeRequests.      *)
AllRead ==
  /\ verdict = "reading"
  /\ ~WantsMore
  /\ tail' \in {"end", "scrap", "cut", "more"}
  /\ IF decoder = "day" /\ tail' # "end" THEN Invalid ELSE Show
  /\ UNCHANGED <<reply, seen, items>>

Next == ExecuteFails \/ ErrorReply \/ BeginReading \/ ReadField \/ DataEnds \/ AllRead

Spec == Init /\ [][Next]_vars

-----------------------------------------------------------------------------
(* Properties                                                              *)

\* The i-th field has its id, as far as an id counts, and is of its type.
InSequence == \A i \in DOMAIN seen : seen[i].id = i % Wrap /\ Fits(i, seen[i])

(* What is shown to a client is the whole reply: its fields are in the      *)
(* sequence of their ids, each of the type of its place, and there are as   *)
(* many as the header counts: never a part of a reply.  To a decoder that   *)
(* scans, that is as far as sixteen bits tell: field_id and field_count are *)
(* u16 and expected_id wraps around, so that under the count k it also      *)
(* shows replies of k + 65536 fields, of k + 131072, and so on.             *)
ShownIsWhole ==
  verdict = "shown" =>
    /\ InSequence
    /\ IF decoder \in Scanning THEN Len(seen) % Wrap = count ELSE Len(seen) = count

Names(n) ==
  CASE decoder \in {"ids", "rooms", "dates"} -> [i \in 1 .. n |-> seen[i].data]
    [] decoder = "segments"                  -> [i \in 1 .. n \div 2 |-> seen[2 * i - 1].data]
    [] decoder = "avail"                     -> [i \in 1 .. n \div 2 |-> seen[2 * i].data]
    [] OTHER                                 -> <<>>

Times(s, d) == Cardinality({i \in DOMAIN s : s[i] = d})

(* The response lists what the reply names: properties, segments and rooms  *)
(* in the order of the server, dates in order of time and without the empty *)
(* ones, none of them lost or repeated.                                     *)
ListsWhatIsNamed ==
  verdict = "shown" =>
    IF decoder = "dates"
    THEN /\ \A i, j \in DOMAIN items : i < j => items[i] <= items[j]
         /\ \A d \in FieldData : Times(items, d) = IF d = 0 THEN 0 ELSE Times(Names(Len(seen)), d)
    ELSE items = Names(Len(seen))

(* A reply of the format that the decoders document is never turned into    *)
(* INVALID_RESPONSE_FORMAT: a read refused here did happen at the backend.  *)
WellFormedIsTaken ==
  verdict = "invalid" =>
    \/ decoder = "simple" /\ count # 0
    \/ decoder \in {"scalar", "boolean", "codecs"} /\ count # 1
    \/ decoder = "day" /\ count # 5
    \/ decoder = "segments" /\ count % 2 = 1
    \/ decoder = "avail" /\ count # 0 /\ count % 2 = 0
    \/ ~InSequence
    \/ tail \notin {"unknown", "end"}
    \/ tail = "end" /\ Len(seen) # count
=============================================================================
