-------------------------------- MODULE Command --------------------------------
(***************************************************************************)
(* From the body of a command to the payload for the backend: process in   *)
(* src/src/processor/base.rs and the validation and encoding in the        *)
(* modules of src/src/processor, one for each command.                     *)
(*                                                                         *)
(* Each of those modules walks its fields in the same way, so a command is *)
(* the table of its fields: the name the client uses, the test its value   *)
(* has to pass, and whether the command is refused when it does not.  The  *)
(* id of a field in the payload is its place in the table.                 *)
(*                                                                         *)
(* A value of JSON is its kind and a number: the length of a text, a whole *)
(* number from zero on ("num") or any other number in whole units ("real"),*)
(* the number of texts in an array; an array that holds something else too *)
(* is "mixed".                                                             *)
(***************************************************************************)
EXTENDS Integers, Sequences, SequencesExt, Ordering

CONSTANT
  Word   \* a u32 is counted modulo this; 2^32 in the code

ASSUME WordAssumption == Word \in Nat /\ Word > 255

Kinds == {"null", "text", "num", "real", "list", "mixed", "other"}
Value == [kind : Kinds \ {"real"}, v : Nat] \cup [kind : {"real"}, v : Int]
Null == [kind |-> "null", v |-> 0]

\* payload.get(name): a field that is not there is like one that is null, and
\* a body that is no object has none.
Get(body, name) == IF name \in DOMAIN body.fields THEN body.fields[name] ELSE Null

-----------------------------------------------------------------------------
(* The tests                                                                *)

as_u64(x) == x.kind = "num"
as_f64(x) == x.kind \in {"num", "real"}
as_array(x) == x.kind \in {"list", "mixed"}

Passes(test, x) ==
  CASE test = "text"   -> x.kind = "text" /\ x.v # 0
    [] test = "string" -> x.kind = "text"
    [] test = "texts"  -> as_array(x) /\ x.v # 0
    [] test = "stars"  -> as_u64(x) /\ x.v \in 1 .. 5
    [] test = "byte"   -> as_u64(x) /\ x.v <= 255
    [] test = "lat"    -> as_f64(x) /\ x.v \in -90 .. 90
    [] test = "lon"    -> as_f64(x) /\ x.v \in -180 .. 180
    [] test = "real"   -> as_f64(x)
    [] test \in {"price", "limit"} -> as_u64(x)
    [] test = "any"    -> TRUE

\* The texts of an array are joined with commas; none make an empty text.
Joined(x) == [type |-> 1, len |-> IF as_array(x) /\ x.v # 0 THEN 2 * x.v - 1 ELSE 0,
              value |-> IF as_array(x) THEN x.v ELSE 0]

\* Type, length and value of a field: text, u8, u32 or eight bytes.
Data(test, x) ==
  CASE test \in {"text", "string"} -> [type |-> 1, len |-> x.v, value |-> x.v]
    [] test \in {"texts", "any"}   -> Joined(x)
    [] test \in {"stars", "byte"}  -> [type |-> 2, len |-> 1, value |-> x.v]
    [] test = "price"              -> [type |-> 3, len |-> 4, value |-> x.v % Word]
    [] OTHER                       -> [type |-> 3, len |-> 8, value |-> x.v]

-----------------------------------------------------------------------------
(* The commands                                                             *)

Must(name, test) == [name |-> name, test |-> test, must |-> TRUE]
May(name, test) == [name |-> name, test |-> test, must |-> FALSE]

Processor(cmd_name, is_write, decoder, rows) ==
  [cmd_name |-> cmd_name, is_write |-> is_write, decoder |-> decoder, rows |-> rows]

PropertyId == Must("property_id", "text")
RoomType == Must("room_type", "text")
Date == Must("date", "text")
Amount == Must("amount", "byte")

SetProp == Processor("SETPROP", TRUE, "simple",
  <<Must("segment", "string"), Must("area", "string"), Must("property_id", "string"),
    Must("property_type", "string"), Must("category", "string"), Must("stars", "stars"),
    Must("latitude", "lat"), Must("longitude", "lon"), May("amenities", "any")>>)

SearchProp == Processor("SEARCHPROP", FALSE, "ids",
  <<Must("segment", "string"), May("area", "string"), May("property_type", "string"),
    May("stars", "stars"), May("category", "string"), May("amenities", "texts"),
    May("longitude", "lon"), May("latitude", "lat"), May("limit", "limit")>>)

SearchAvail == Processor("SEARCHAVAIL", FALSE, "avail",
  <<Must("segment", "text"), RoomType, May("area", "string"), May("property_id", "string"),
    May("type", "string"), May("stars", "byte"), May("category", "string"),
    May("amenities", "texts"), May("longitude", "real"), May("latitude", "real"),
    May("date", "texts"), May("availability", "byte"), May("final_price", "price"),
    May("rate_features", "texts"), May("limit", "limit")>>)

SetRoomPkg == Processor("SETROOMPKG", TRUE, "simple",
  <<PropertyId, RoomType, Date, May("availability", "byte"), May("final_price", "price"),
    May("rate_features", "texts")>>)

\* Variant: the name of the module it was copied from.
DecRoomAvlCopied == Processor("INCROOMAVL", TRUE, "scalar", <<PropertyId, RoomType, Date, Amount>>)

SetRoomAvl == Processor("SETROOMAVL", TRUE, "scalar", <<PropertyId, RoomType, Date, Amount>>)
IncRoomAvl == Processor("INCROOMAVL", TRUE, "scalar", <<PropertyId, RoomType, Date, Amount>>)
DecRoomAvl == Processor("DECROOMAVL", TRUE, "scalar", <<PropertyId, RoomType, Date, Amount>>)

DelProp == Processor("DELPROP", TRUE, "simple", <<PropertyId>>)
DelPropDay == Processor("DELPROPDAY", TRUE, "simple", <<PropertyId, Date>>)
DelPropRoom == Processor("DELPROPROOM", TRUE, "simple", <<PropertyId, RoomType>>)
DelRoomDay == Processor("DELROOMDAY", TRUE, "simple", <<PropertyId, RoomType, Date>>)
DelSegment == Processor("DELSEGMENT", TRUE, "simple", <<Must("segment", "text")>>)

PropExist == Processor("PROPEXIST", FALSE, "boolean", <<PropertyId>>)
PropRoomExist == Processor("PROPROOMEXIST", FALSE, "boolean", <<PropertyId, RoomType>>)
PropRoomList == Processor("PROPROOMLIST", FALSE, "rooms", <<PropertyId>>)
PropRoomDateList == Processor("PROPROOMDATELIST", FALSE, "dates", <<PropertyId, RoomType>>)
GetPropRoomDay == Processor("GETPROPROOMDAY", FALSE, "day", <<PropertyId, RoomType, Date>>)
GetSegments == Processor("GETSEGMENTS", FALSE, "segments", <<>>)

\* Not a command of clients: the request of lib.rs for the rate features.
GetCodecs == Processor("GETCODECS", FALSE, "codecs", <<>>)

\* The match of process in base.rs.
Process ==
  [SETPROP |-> SetProp, PROPEXIST |-> PropExist, SEARCHPROP |-> SearchProp,
   SETROOMPKG |-> SetRoomPkg, SETROOMAVL |-> SetRoomAvl, INCROOMAVL |-> IncRoomAvl,
   DECROOMAVL |-> DecRoomAvl, DELROOMDAY |-> DelRoomDay, PROPROOMEXIST |-> PropRoomExist,
   GETPROPROOMDAY |-> GetPropRoomDay, PROPROOMDATELIST |-> PropRoomDateList,
   DELPROPROOM |-> DelPropRoom, SEARCHAVAIL |-> SearchAvail, PROPROOMLIST |-> PropRoomList,
   DELPROP |-> DelProp, DELSEGMENT |-> DelSegment, DELPROPDAY |-> DelPropDay,
   GETSEGMENTS |-> GetSegments]

-----------------------------------------------------------------------------
(* Validation and encoding                                                  *)

\* Variant: optional fields are refused too when they are given and unusable.
AcceptsStrict(p, body) ==
  \A i \in DOMAIN p.rows :
    LET x == Get(body, p.rows[i].name) IN
      (p.rows[i].must \/ x # Null) => Passes(p.rows[i].test, x)

\* No field that must be there fails its test; GETSEGMENTS wants an object.
Accepts(p, body) ==
  /\ \A i \in DOMAIN p.rows :
       p.rows[i].must => Passes(p.rows[i].test, Get(body, p.rows[i].name))
  /\ p.cmd_name = "GETSEGMENTS" => body.object

\* The fields that are added, in the order of their ids.
Added(p, body) ==
  InOrder({i \in DOMAIN p.rows : Passes(p.rows[i].test, Get(body, p.rows[i].name))})

\* add_field for the field of the i-th row.
AddField(p, body, i) ==
  [id |-> i, data |-> Data(p.rows[i].test, Get(body, p.rows[i].name))]

\* Length of a name, a count, and the id, type, length and data of each field.
PayloadLen(cmd_name, fields) ==
  FoldSeq(LAMBDA f, n : n + 7 + f.data.len, 1 + Len(cmd_name) + 2, fields)

Payload(p, body) ==
  LET added == Added(p, body)
      fields == [k \in DOMAIN added |-> AddField(p, body, added[k])]
  IN  [cmd_name |-> p.cmd_name, field_count |-> Len(fields), fields |-> fields,
       len |-> PayloadLen(p.cmd_name, fields)]
=============================================================================
