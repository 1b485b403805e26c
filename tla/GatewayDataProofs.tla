---------------------------- MODULE GatewayDataProofs ----------------------------
(***************************************************************************)
(* What module Gateway guarantees of the data that pass through it, for    *)
(* every set of requests and any dates and property ids: what was asked,   *)
(* stored or kept is not lost or changed; and RateFeatures, for any rate   *)
(* features and masks.  At the end, the types.                             *)
(***************************************************************************)
EXTENDS GatewayProofs, RateFeatures

-----------------------------------------------------------------------------
(* The tables of the commands                                               *)

\* The names of fields whose values are no texts.
Numeric == {"stars", "availability", "amount", "latitude", "longitude", "final_price", "limit",
            "amenities", "rate_features"}

\* The tests that suit what README.md says of a field.
Suits(cmd, name, test) ==
  \/ /\ test \in {"text", "string"}
     /\ name \notin Numeric /\ ~(name = "date" /\ cmd = "SEARCHAVAIL")
  \/ /\ test = "texts"
     /\ name \in {"amenities", "rate_features"} \/ (name = "date" /\ cmd = "SEARCHAVAIL")
  \/ test = "any" /\ name = "amenities" /\ cmd = "SETPROP"
  \/ test = "stars" /\ name = "stars" /\ cmd # "SEARCHAVAIL"
  \/ test = "byte" /\ (name \in {"availability", "amount"} \/ (name = "stars" /\ cmd = "SEARCHAVAIL"))
  \/ test = "lat" /\ name = "latitude" /\ cmd # "SEARCHAVAIL"
  \/ test = "lon" /\ name = "longitude" /\ cmd # "SEARCHAVAIL"
  \/ test = "real" /\ name \in {"latitude", "longitude"} /\ cmd = "SEARCHAVAIL"
  \/ test = "price" /\ name = "final_price"
  \/ test = "limit" /\ name = "limit"

\* Must a field be there; is a command a write?
Compulsory(row) == row.must
Writing(p) == p.is_write

\* The rows are the n fields that README.md has for a command, m of them required,
\* and by the same names as far as the two agree.
Documents(cmd, rows, n, m) ==
  /\ n \in Nat /\ m \in 0 .. n
  /\ DOMAIN rows = 1 .. n
  /\ IdsOf(cmd) = 1 .. n /\ Required(cmd) = 1 .. m
  /\ \A i \in 1 .. n : i \in Agreed(cmd) => rows[i].name = NameOf(cmd, i)
  /\ \A i \in 1 .. n : Compulsory(rows[i]) <=> i \in 1 .. m
  /\ \A i \in 1 .. n : Suits(cmd, NameOf(cmd, i), rows[i].test)
  /\ \A i \in 1 .. n : rows[i].test = "text" => i \in 1 .. m /\ cmd \notin {"SETPROP", "SEARCHPROP"}

(* The commands about one property.                                         *)
LEMMA PropertyFields ==
  ASSUME NEW cmd \in {"PROPEXIST", "PROPROOMLIST", "DELPROP"}
  PROVE  Documents(cmd, Process[cmd].rows, 1, 1)
<1> DEFINE rows == Process[cmd].rows
           d == Documented[cmd]
<1>1. rows = <<PropertyId>>
  BY DEF Process, PropExist, PropRoomList, DelProp, Processor
<1>2. d.must = 1 /\ d.names = <<"property_id">>
  BY DEF Documented, Doc
<1> HIDE DEF rows, d
<1>3. \A i \in 1 .. 1 : i \in {1} /\ NameOf(cmd, i) = d.names[i]
  BY DEF NameOf, d
<1>4. Documents(cmd, rows, 1, 1)
  BY <1>1, <1>2, <1>3
     DEF d, Documents, IdsOf, Required, PropertyId, Must, May, Compulsory, Suits, Numeric
<1> QED
  BY <1>4 DEF rows

(* The commands about a room type of a property.                            *)
LEMMA RoomFields ==
  ASSUME NEW cmd \in {"PROPROOMEXIST", "PROPROOMDATELIST", "DELPROPROOM"}
  PROVE  Documents(cmd, Process[cmd].rows, 2, 2)
<1> DEFINE rows == Process[cmd].rows
           d == Documented[cmd]
<1>1. rows = <<PropertyId, RoomType>>
  BY DEF Process, PropRoomExist, PropRoomDateList, DelPropRoom, Processor
<1>2. d.must = 2 /\ d.names = <<"property_id", "room_type">>
  BY DEF Documented, Doc
<1> HIDE DEF rows, d
<1>3. \A i \in 1 .. 2 : i \in {1, 2} /\ NameOf(cmd, i) = d.names[i]
  BY DEF NameOf, d
<1>4. Documents(cmd, rows, 2, 2)
  BY <1>1, <1>2, <1>3
     DEF d, Documents, IdsOf, Required, PropertyId, RoomType, Must, May, Compulsory, Suits, Numeric
<1> QED
  BY <1>4 DEF rows

(* The commands about a day of a room type.                                 *)
LEMMA RoomDayFields ==
  ASSUME NEW cmd \in {"GETPROPROOMDAY", "DELROOMDAY"}
  PROVE  Documents(cmd, Process[cmd].rows, 3, 3)
<1> DEFINE rows == Process[cmd].rows
           d == Documented[cmd]
<1>1. rows = <<PropertyId, RoomType, Date>>
  BY DEF Process, GetPropRoomDay, DelRoomDay, Processor
<1>2. d.must = 3 /\ d.names = <<"property_id", "room_type", "date">>
  BY DEF Documented, Doc
<1> HIDE DEF rows, d
<1>3. \A i \in 1 .. 3 : i \in {1, 2, 3} /\ NameOf(cmd, i) = d.names[i]
  BY DEF NameOf, d
<1>4. Documents(cmd, rows, 3, 3)
  BY <1>1, <1>2, <1>3
     DEF d, Documents, IdsOf, Required, PropertyId, RoomType, Date, Must, May, Compulsory, Suits, Numeric
<1> QED
  BY <1>4 DEF rows

(* The commands that set, add to or take from the rooms of a day.           *)
LEMMA AmountFields ==
  ASSUME NEW cmd \in {"SETROOMAVL", "INCROOMAVL", "DECROOMAVL"}
  PROVE  Documents(cmd, Process[cmd].rows, 4, 4)
<1> DEFINE rows == Process[cmd].rows
           d == Documented[cmd]
<1>1. rows = <<PropertyId, RoomType, Date, Amount>>
  BY DEF Process, SetRoomAvl, IncRoomAvl, DecRoomAvl, Processor
<1>2. d.must = 4 /\ d.names = <<"property_id", "room_type", "date", "amount">>
  BY DEF Documented, Doc
<1> HIDE DEF rows, d
<1>3. \A i \in 1 .. 4 : i \in {1, 2, 3, 4} /\ NameOf(cmd, i) = d.names[i]
  BY DEF NameOf, d
<1>4. Documents(cmd, rows, 4, 4)
  BY <1>1, <1>2, <1>3
     DEF d, Documents, IdsOf, Required, PropertyId, RoomType, Date, Amount, Must, May, Compulsory,
         Suits, Numeric
<1> QED
  BY <1>4 DEF rows

(* DELPROPDAY.                                                              *)
LEMMA DayFields ==
  ASSUME NEW cmd \in {"DELPROPDAY"}
  PROVE  Documents(cmd, Process[cmd].rows, 2, 2)
<1> DEFINE rows == Process[cmd].rows
           d == Documented[cmd]
<1>1. rows = <<PropertyId, Date>>
  BY DEF Process, DelPropDay, Processor
<1>2. d.must = 2 /\ d.names = <<"property_id", "date">>
  BY DEF Documented, Doc
<1> HIDE DEF rows, d
<1>3. \A i \in 1 .. 2 : i \in {1, 2} /\ NameOf(cmd, i) = d.names[i]
  BY DEF NameOf, d
<1>4. Documents(cmd, rows, 2, 2)
  BY <1>1, <1>2, <1>3
     DEF d, Documents, IdsOf, Required, PropertyId, Date, Must, May, Compulsory, Suits, Numeric
<1> QED
  BY <1>4 DEF rows

(* DELSEGMENT.                                                              *)
LEMMA SegmentFields ==
  ASSUME NEW cmd \in {"DELSEGMENT"}
  PROVE  Documents(cmd, Process[cmd].rows, 1, 1)
<1> DEFINE rows == Process[cmd].rows
           d == Documented[cmd]
<1>1. rows = <<Must("segment", "text")>>
  BY DEF Process, DelSegment, Processor
<1>2. d.must = 1 /\ d.names = <<"segment">>
  BY DEF Documented, Doc
<1> HIDE DEF rows, d
<1>3. \A i \in 1 .. 1 : i \in {1} /\ NameOf(cmd, i) = d.names[i]
  BY DEF NameOf, d
<1>4. Documents(cmd, rows, 1, 1)
  BY <1>1, <1>2, <1>3
     DEF d, Documents, IdsOf, Required, Must, May, Compulsory, Suits, Numeric
<1> QED
  BY <1>4 DEF rows

(* GETSEGMENTS.                                                             *)
LEMMA NoFields ==
  ASSUME NEW cmd \in {"GETSEGMENTS"}
  PROVE  Documents(cmd, Process[cmd].rows, 0, 0)
<1> DEFINE rows == Process[cmd].rows
           d == Documented[cmd]
<1>1. rows = <<>>
  BY DEF Process, GetSegments, Processor
<1>2. d.must = 0 /\ d.names = <<>>
  BY DEF Documented, Doc
<1> HIDE DEF rows, d
<1>3. \A i \in 1 .. 0 : i \in {} /\ NameOf(cmd, i) = d.names[i]
  BY DEF NameOf, d
<1>4. Documents(cmd, rows, 0, 0)
  BY <1>1, <1>2, <1>3
     DEF d, Documents, IdsOf, Required, Must, May, Compulsory, Suits, Numeric
<1> QED
  BY <1>4 DEF rows

(* SETPROP.                                                                 *)
LEMMA SetPropFields == Documents("SETPROP", Process["SETPROP"].rows, 9, 8)
<1> DEFINE cmd == "SETPROP"
           rows == Process[cmd].rows
           d == Documented[cmd]
<1>1. rows = SetProp.rows
  BY DEF Process
<1>2. d.must = 8 /\ d.names = <<"segment", "area", "property_id", "property_type", "category", "stars",
                               "latitude", "longitude", "amenities">>
  BY DEF Documented, Doc
<1>3. \A i \in 1 .. 9 : NameOf(cmd, i) = d.names[i]
  BY DEF NameOf
<1>4. IdsOf(cmd) = 1 .. 9 /\ Required(cmd) = 1 .. 8
  BY <1>2 DEF IdsOf, Required
<1> HIDE DEF rows, d
<1>5. \A i \in 1 .. 9 : i \in {1, 2, 3, 4, 5, 6, 7, 8, 9}
  OBVIOUS
<1>6. DOMAIN rows = 1 .. 9
  BY <1>1 DEF SetProp, Processor
<1>7. \A i \in 1 .. 9 : rows[i].name = NameOf(cmd, i)
  BY <1>1, <1>2, <1>3, <1>5 DEF SetProp, Processor, Must, May
<1>8. \A i \in 1 .. 9 : Compulsory(rows[i]) <=> i \in 1 .. 8
  BY <1>1, <1>5 DEF SetProp, Processor, Must, May, Compulsory
<1>9. \A i \in 1 .. 9 : Suits(cmd, NameOf(cmd, i), rows[i].test)
  BY <1>1, <1>2, <1>3, <1>5 DEF SetProp, Processor, Must, May, Suits, Numeric
<1>10. \A i \in 1 .. 9 : rows[i].test = "text" => i \in 1 .. 8 /\ cmd \notin {"SETPROP", "SEARCHPROP"}
  BY <1>1, <1>5 DEF SetProp, Processor, Must, May
<1>11. Documents(cmd, rows, 9, 8)
  BY <1>4, <1>6, <1>7, <1>8, <1>9, <1>10 DEF Documents
<1> QED
  BY <1>11 DEF rows

(* SEARCHPROP, which has another name for its third field.                  *)
LEMMA SearchPropFields == Documents("SEARCHPROP", Process["SEARCHPROP"].rows, 9, 1)
<1> DEFINE cmd == "SEARCHPROP"
           rows == Process[cmd].rows
           d == Documented[cmd]
<1>1. rows = SearchProp.rows
  BY DEF Process
<1>2. d.must = 1 /\ d.names = <<"segment", "area", "type", "stars", "category", "amenities",
                               "longitude", "latitude", "limit">>
  BY DEF Documented, Doc
<1>3. \A i \in 1 .. 9 : NameOf(cmd, i) = d.names[i]
  BY DEF NameOf
<1>4. IdsOf(cmd) = 1 .. 9 /\ Required(cmd) = 1 .. 1 /\ 3 \notin Agreed(cmd)
  BY <1>2 DEF IdsOf, Required, Agreed
<1> HIDE DEF rows, d
<1>5. \A i \in 1 .. 9 : i \in {1, 2, 3, 4, 5, 6, 7, 8, 9}
  OBVIOUS
<1>6. DOMAIN rows = 1 .. 9
  BY <1>1 DEF SearchProp, Processor
<1>7. \A i \in 1 .. 9 : i \in Agreed(cmd) => rows[i].name = NameOf(cmd, i)
  BY <1>1, <1>2, <1>3, <1>4, <1>5 DEF SearchProp, Processor, Must, May
<1>8. \A i \in 1 .. 9 : Compulsory(rows[i]) <=> i \in 1 .. 1
  BY <1>1, <1>5 DEF SearchProp, Processor, Must, May, Compulsory
<1>9. \A i \in 1 .. 9 : Suits(cmd, NameOf(cmd, i), rows[i].test)
  BY <1>1, <1>2, <1>3, <1>5 DEF SearchProp, Processor, Must, May, Suits, Numeric
<1>10. \A i \in 1 .. 9 : rows[i].test = "text" => i \in 1 .. 1 /\ cmd \notin {"SETPROP", "SEARCHPROP"}
  BY <1>1, <1>5 DEF SearchProp, Processor, Must, May
<1>11. Documents(cmd, rows, 9, 1)
  BY <1>4, <1>6, <1>7, <1>8, <1>9, <1>10 DEF Documents
<1> QED
  BY <1>11 DEF rows

(* SEARCHAVAIL.                                                             *)
LEMMA SearchAvailFields == Documents("SEARCHAVAIL", Process["SEARCHAVAIL"].rows, 15, 2)
<1> DEFINE cmd == "SEARCHAVAIL"
           rows == Process[cmd].rows
           d == Documented[cmd]
<1>1. rows = SearchAvail.rows
  BY DEF Process
<1>2. d.must = 2 /\ d.names = <<"segment", "room_type", "area", "property_id", "type", "stars",
                               "category", "amenities", "longitude", "latitude", "date",
                               "availability", "final_price", "rate_features", "limit">>
  BY DEF Documented, Doc
<1>3. \A i \in 1 .. 15 : NameOf(cmd, i) = d.names[i]
  BY DEF NameOf
<1>4. IdsOf(cmd) = 1 .. 15 /\ Required(cmd) = 1 .. 2
  BY <1>2 DEF IdsOf, Required
<1> HIDE DEF rows, d
<1>5. \A i \in 1 .. 15 : i \in {1, 2, 3, 4, 5, 6, 7, 8, 9, 10, 11, 12, 13, 14, 15}
  OBVIOUS
<1>6. DOMAIN rows = 1 .. 15
  BY <1>1 DEF SearchAvail, Processor
<1>7. \A i \in 1 .. 15 : rows[i].name = NameOf(cmd, i)
  BY <1>1, <1>2, <1>3, <1>5 DEF SearchAvail, Processor, RoomType, Must, May
<1>8. \A i \in 1 .. 15 : Compulsory(rows[i]) <=> i \in 1 .. 2
  BY <1>1, <1>5 DEF SearchAvail, Processor, RoomType, Must, May, Compulsory
<1>9. \A i \in 1 .. 15 : Suits(cmd, NameOf(cmd, i), rows[i].test)
  BY <1>1, <1>2, <1>3, <1>5 DEF SearchAvail, Processor, RoomType, Must, May, Suits, Numeric
<1>10. \A i \in 1 .. 15 : rows[i].test = "text" => i \in 1 .. 2 /\ cmd \notin {"SETPROP", "SEARCHPROP"}
  BY <1>1, <1>5 DEF SearchAvail, Processor, RoomType, Must, May
<1>11. Documents(cmd, rows, 15, 2)
  BY <1>4, <1>6, <1>7, <1>8, <1>9, <1>10 DEF Documents
<1> QED
  BY <1>11 DEF rows

(* SETROOMPKG.                                                              *)
LEMMA SetRoomPkgFields == Documents("SETROOMPKG", Process["SETROOMPKG"].rows, 6, 3)
<1> DEFINE cmd == "SETROOMPKG"
           rows == Process[cmd].rows
           d == Documented[cmd]
<1>1. rows = SetRoomPkg.rows
  BY DEF Process
<1>2. d.must = 3 /\ d.names = <<"property_id", "room_type", "date", "availability", "final_price",
                               "rate_features">>
  BY DEF Documented, Doc
<1>3. \A i \in 1 .. 6 : NameOf(cmd, i) = d.names[i]
  BY DEF NameOf
<1>4. IdsOf(cmd) = 1 .. 6 /\ Required(cmd) = 1 .. 3
  BY <1>2 DEF IdsOf, Required
<1> HIDE DEF rows, d
<1>5. \A i \in 1 .. 6 : i \in {1, 2, 3, 4, 5, 6}
  OBVIOUS
<1>6. DOMAIN rows = 1 .. 6
  BY <1>1 DEF SetRoomPkg, Processor
<1>7. \A i \in 1 .. 6 : rows[i].name = NameOf(cmd, i)
  BY <1>1, <1>2, <1>3, <1>5 DEF SetRoomPkg, Processor, PropertyId, RoomType, Date, Must, May
<1>8. \A i \in 1 .. 6 : Compulsory(rows[i]) <=> i \in 1 .. 3
  BY <1>1, <1>5 DEF SetRoomPkg, Processor, PropertyId, RoomType, Date, Must, May, Compulsory
<1>9. \A i \in 1 .. 6 : Suits(cmd, NameOf(cmd, i), rows[i].test)
  BY <1>1, <1>2, <1>3, <1>5 DEF SetRoomPkg, Processor, PropertyId, RoomType, Date, Must, May, Suits, Numeric
<1>10. \A i \in 1 .. 6 : rows[i].test = "text" => i \in 1 .. 3 /\ cmd \notin {"SETPROP", "SEARCHPROP"}
  BY <1>1, <1>5 DEF SetRoomPkg, Processor, PropertyId, RoomType, Date, Must, May
<1>11. Documents(cmd, rows, 6, 3)
  BY <1>4, <1>6, <1>7, <1>8, <1>9, <1>10 DEF Documents
<1> QED
  BY <1>11 DEF rows

(* The dispatch of base.rs goes by the names that the commands themselves   *)
(* have, and exactly those that write are flagged as writes.                *)
LEMMA ProcessorsNamed ==
  ASSUME NEW cmd \in DOMAIN Process
  PROVE  /\ Process[cmd].cmd_name = cmd
         /\ Writing(Process[cmd]) <=> cmd \in Writes
         /\ Process[cmd].decoder \in Decoders
BY DEF Process, SetProp, PropExist, SearchProp, SetRoomPkg, SetRoomAvl, IncRoomAvl, DecRoomAvl,
       DelRoomDay, PropRoomExist, GetPropRoomDay, PropRoomDateList, DelPropRoom, SearchAvail,
       PropRoomList, DelProp, DelSegment, DelPropDay, GetSegments, Processor, Writing, Writes,
       Decoders

(* Together: the table of every command is as README.md has it.             *)
LEMMA EveryCommand ==
  ASSUME NEW cmd \in DOMAIN Process
  PROVE  \E n, m : Documents(cmd, Process[cmd].rows, n, m)
<1>1. \/ cmd \in {"PROPEXIST", "PROPROOMLIST", "DELPROP"}
      \/ cmd \in {"PROPROOMEXIST", "PROPROOMDATELIST", "DELPROPROOM"}
      \/ cmd \in {"GETPROPROOMDAY", "DELROOMDAY"}
      \/ cmd \in {"SETROOMAVL", "INCROOMAVL", "DECROOMAVL"}
      \/ cmd \in {"DELPROPDAY"} \/ cmd \in {"DELSEGMENT"} \/ cmd \in {"GETSEGMENTS"}
      \/ cmd = "SETPROP" \/ cmd = "SEARCHPROP" \/ cmd = "SEARCHAVAIL" \/ cmd = "SETROOMPKG"
  BY DEF Process
<1> QED
  BY <1>1, PropertyFields, RoomFields, RoomDayFields, AmountFields, DayFields, SegmentFields,
     NoFields, SetPropFields, SearchPropFields, SearchAvailFields, SetRoomPkgFields

(* The fields that are required have one name.                              *)
LEMMA RequiredAgreed ==
  ASSUME NEW cmd \in DOMAIN Process, NEW i \in Required(cmd), i \in IdsOf(cmd)
  PROVE  i \in Agreed(cmd)
<1>1. cmd = "SEARCHPROP" => i # 3
  BY DEF Required, Documented, Doc
<1> QED
  BY <1>1 DEF Agreed

(* A test that suits a field takes what can be used, and what it takes is   *)
(* encoded as what it stands for.                                           *)
LEMMA SuitedTests ==
  ASSUME NEW cmd, NEW name, NEW test, Suits(cmd, name, test), NEW x \in Value
  PROVE  /\ Usable(cmd, name, x) =>
              Passes(test, x) \/ (test = "text" /\ x = [kind |-> "text", v |-> 0])
         /\ Passes(test, x) =>
              IF Usable(cmd, name, x)
              THEN Data(test, x).value = IF name = "final_price" THEN x.v % Word ELSE x.v
              ELSE cmd = "SETPROP" /\ name = "amenities" /\ Data(test, x).len = 0
<1>1. x = [kind |-> x.kind, v |-> x.v] /\ x.v \in Int /\ (x.kind # "real" => x.v \in Nat)
  BY DEF Value, Kinds
<1>2. CASE test \in {"text", "string"}
  <2>1. Usable(cmd, name, x) <=> x.kind = "text"
    BY <1>2 DEF Suits, Usable, Numeric
  <2>2. name # "final_price" /\ Data(test, x).value = x.v
    BY <1>2 DEF Suits, Numeric, Data
  <2> QED
    BY <1>1, <1>2, <2>1, <2>2 DEF Passes
<1>3. CASE test = "texts"
  <2>1. Usable(cmd, name, x) <=> x.kind \in {"list", "mixed"} /\ x.v > 0
    BY <1>3 DEF Suits, Usable
  <2>2. as_array(x) => Data(test, x).value = x.v
    BY <1>3 DEF Data, Joined
  <2>3. name # "final_price"
    BY <1>3 DEF Suits
  <2> QED
    BY <1>1, <1>3, <2>1, <2>2, <2>3 DEF Passes, as_array
<1>4. CASE test = "any"
  <2>1. name = "amenities" /\ cmd = "SETPROP"
    BY <1>4 DEF Suits
  <2>2. Usable(cmd, name, x) <=> x.kind \in {"list", "mixed"} /\ x.v > 0
    BY <2>1 DEF Usable
  <2>3. as_array(x) => Data(test, x).value = x.v
    BY <1>4 DEF Data, Joined
  <2>4. ~(as_array(x) /\ x.v # 0) => Data(test, x).len = 0
    BY <1>4 DEF Data, Joined
  <2> QED
    BY <1>1, <1>4, <2>1, <2>2, <2>3, <2>4 DEF Passes, as_array
<1>5. CASE test \in {"stars", "byte"}
  <2>1. name # "final_price" /\ Data(test, x).value = x.v
    BY <1>5 DEF Suits, Data
  <2>2. CASE test = "stars"
    <3>1. name = "stars" /\ cmd # "SEARCHAVAIL"
      BY <2>2 DEF Suits
    <3> QED
      BY <2>1, <2>2, <3>1 DEF Usable, Passes, as_u64
  <2>3. CASE test = "byte" /\ name = "stars"
    <3>1. cmd = "SEARCHAVAIL"
      BY <2>3 DEF Suits
    <3>2. Usable(cmd, name, x) <=> x.kind = "num" /\ x.v \in 0 .. 255
      BY <2>3, <3>1 DEF Usable
    <3> QED
      BY <1>1, <2>1, <2>3, <3>2 DEF Passes, as_u64
  <2>4. CASE test = "byte" /\ name \in {"availability", "amount"}
    <3>1. Usable(cmd, name, x) <=> x.kind = "num" /\ x.v \in 0 .. 255
      BY <2>4 DEF Usable
    <3> QED
      BY <1>1, <2>1, <2>4, <3>1 DEF Passes, as_u64
  <2> QED
    BY <1>5, <2>2, <2>3, <2>4 DEF Suits
<1>6. CASE test \in {"lat", "lon", "real"}
  <2>1. name # "final_price" /\ Data(test, x).value = x.v
    BY <1>6 DEF Suits, Data
  <2>2. Usable(cmd, name, x) <=> Passes(test, x)
    BY <1>1, <1>6 DEF Suits, Usable, Passes, as_f64
  <2> QED
    BY <2>1, <2>2
<1>7. CASE test = "price"
  <2>1. name = "final_price" /\ Data(test, x).value = x.v % Word
    BY <1>7 DEF Suits, Data
  <2>2. Usable(cmd, name, x) <=> Passes(test, x)
    BY <1>7, <2>1 DEF Usable, Passes, as_u64
  <2> QED
    BY <2>1, <2>2
<1>8. CASE test = "limit"
  <2>1. name = "limit" /\ Data(test, x).value = x.v
    BY <1>8 DEF Suits, Data
  <2>2. Usable(cmd, name, x) <=> Passes(test, x)
    BY <1>8, <2>1 DEF Usable, Passes, as_u64
  <2> QED
    BY <2>1, <2>2
<1> QED
  BY <1>2, <1>3, <1>4, <1>5, <1>6, <1>7, <1>8 DEF Suits

(* ... and in the form that fields of its name have.                        *)
LEMMA SuitedForms ==
  ASSUME NEW cmd, NEW name, NEW test, Suits(cmd, name, test), NEW x \in Value, Passes(test, x)
  PROVE  /\ Usable(cmd, name, x) =>
              Data(test, x).type = Form(name, x).type /\ Data(test, x).len = Form(name, x).len
         /\ name = "amenities" => Data(test, x).type = 1
<1>1. CASE test \in {"text", "string"}
  <2>1. x.kind = "text" /\ ~as_array(x)
    BY <1>1 DEF Passes, as_array
  <2>2. Form(name, x).type = 1 /\ Form(name, x).len = x.v
    BY <1>1, <2>1 DEF Suits, Numeric, Form
  <2> QED
    BY <1>1, <2>2 DEF Data
<1>2. CASE test \in {"texts", "any"}
  <2>1. Data(test, x).type = 1
    BY <1>2 DEF Data, Joined
  <2>2. name \in {"amenities", "rate_features", "date"}
    BY <1>2 DEF Suits
  <2>3. Form(name, x).type = 1 /\ (as_array(x) => Form(name, x).len = 2 * x.v - 1)
    BY <2>2 DEF Form
  <2>4. ASSUME Usable(cmd, name, x) PROVE as_array(x) /\ x.v # 0
    <3>1. x.kind \in {"list", "mixed"} /\ x.v > 0
      BY <1>2, <2>4 DEF Suits, Usable
    <3> QED
      BY <3>1 DEF as_array
  <2>5. as_array(x) /\ x.v # 0 => Data(test, x).len = 2 * x.v - 1
    BY <1>2 DEF Data, Joined
  <2> QED
    BY <2>1, <2>3, <2>4, <2>5
<1>3. CASE test \in {"stars", "byte"}
  BY <1>3 DEF Suits, Data, Form
<1>4. CASE test = "price"
  BY <1>4 DEF Suits, Data, Form
<1>5. CASE test \in {"lat", "lon", "real", "limit"}
  BY <1>5 DEF Suits, Data, Form
<1> QED
  BY <1>1, <1>2, <1>3, <1>4, <1>5 DEF Suits

\* What RequestKept asks of the fields for a body.
FieldsKept(cmd, body, fields) ==
  LET carried == {fields[k].id : k \in DOMAIN fields}
      given(id) == Get(body, NameOf(cmd, id))
  IN  /\ \A j, k \in DOMAIN fields : j < k => fields[j].id < fields[k].id
      /\ Required(cmd) \subseteq carried /\ carried \subseteq IdsOf(cmd)
      /\ \A id \in Agreed(cmd) : Usable(cmd, NameOf(cmd, id), given(id)) => id \in carried
      /\ \A k \in DOMAIN fields :
           fields[k].id \in Agreed(cmd) =>
             StandsFor(cmd, fields[k].id, fields[k].data, given(fields[k].id))

\* A body whose fields are values of JSON.
Proper(body) == \A name \in DOMAIN body.fields : body.fields[name] \in Value

(* What is found in a body is a value of JSON, also where nothing is.       *)
LEMMA GetsValues == ASSUME NEW body, Proper(body), NEW name PROVE Get(body, name) \in Value
<1>1. Null \in Value
  BY DEF Null, Value, Kinds
<1> QED
  BY <1>1 DEF Get, Proper

(* Accepts, in the terms of this module.                                    *)
LEMMA AcceptedFields ==
  ASSUME NEW p, NEW body
  PROVE  Accepts(p, body) <=>
           /\ \A i \in DOMAIN p.rows :
                Compulsory(p.rows[i]) => Passes(p.rows[i].test, Get(body, p.rows[i].name))
           /\ p.cmd_name = "GETSEGMENTS" => body.object
BY DEF Accepts, Compulsory

(* The fields of an accepted body are in the payload as RequestKept asks,   *)
(* for every command.                                                       *)
LEMMA FieldsAreKept ==
  ASSUME NEW cmd \in DOMAIN Process, NEW body, Proper(body), Accepts(Process[cmd], body)
  PROVE  LET fields == Payload(Process[cmd], body).fields
         IN  FieldsKept(cmd, body, fields)
<1> DEFINE p == Process[cmd]
           rows == p.rows
           given(i) == Get(body, NameOf(cmd, i))
           S == {i \in DOMAIN rows : Passes(rows[i].test, Get(body, rows[i].name))}
           added == InOrder(S)
           fields == Payload(p, body).fields
<1>1. PICK n, m : Documents(cmd, rows, n, m)
  BY EveryCommand
<1>2. \A i \in DOMAIN rows : Compulsory(rows[i]) => i \in S
  BY AcceptedFields
<1>3. fields = [k \in DOMAIN added |-> AddField(p, body, added[k])]
  BY DEF Payload, Added
<1> HIDE DEF p
<1>4. \A i : AddField(p, body, i) = [id |-> i, data |-> Data(rows[i].test, Get(body, rows[i].name))]
  BY DEF AddField
<1> HIDE DEF fields, rows
<1>5. S \in SUBSET Nat /\ IsFiniteSet(S)
  <2>1. n \in Nat /\ IsFiniteSet(1 .. n)
    BY <1>1, FS_Interval DEF Documents
  <2>2. S \in SUBSET (1 .. n)
    BY <1>1 DEF Documents
  <2> QED
    BY <2>1, <2>2, FS_Subset
<1>6. \A i \in 1 .. n : i \in Agreed(cmd) => (i \in S <=> Passes(rows[i].test, given(i)))
  BY <1>1 DEF Documents
<1>7. S \subseteq 1 .. n
  BY <1>1 DEF Documents
<1> HIDE DEF S
<1>8. /\ added \in Seq(S) /\ DOMAIN added = 1 .. Len(added)
      /\ \A i \in S : \E k \in DOMAIN added : added[k] = i
      /\ \A k, l \in DOMAIN added : k < l => added[k] < added[l]
  BY <1>5, SetsInOrder
<1> HIDE DEF added
<1>9. DOMAIN fields = DOMAIN added
  BY <1>3
<1>10. ASSUME NEW k \in DOMAIN fields
       PROVE  /\ added[k] \in S /\ added[k] \in 1 .. n /\ fields[k].id = added[k]
              /\ added[k] \in Agreed(cmd) =>
                   fields[k].data = Data(rows[added[k]].test, given(added[k]))
  <2>1. added[k] \in S
    BY <1>8, <1>9
  <2>2. added[k] \in 1 .. n
    BY <2>1, <1>7
  <2>3. added[k] \in Agreed(cmd) => rows[added[k]].name = NameOf(cmd, added[k])
    BY <2>2, <1>1 DEF Documents
  <2>4. fields[k] = [id |-> added[k],
                     data |-> Data(rows[added[k]].test, Get(body, rows[added[k]].name))]
    BY <1>3, <1>4, <1>9
  <2> QED
    BY <2>1, <2>2, <2>3, <2>4
<1> DEFINE carried == {fields[k].id : k \in DOMAIN fields}
<1>11. \A i : i \in S <=> i \in carried
  BY <1>8, <1>9, <1>10
<1>12. Required(cmd) = 1 .. m /\ IdsOf(cmd) = 1 .. n /\ m \in 0 .. n /\ n \in Nat
  BY <1>1 DEF Documents
<1>13. Required(cmd) \subseteq carried /\ carried \subseteq IdsOf(cmd)
  <2>1. ASSUME NEW i \in 1 .. m PROVE i \in S
    <3>1. i \in 1 .. n
      BY <1>12
    <3> QED
      BY <3>1, <1>1, <1>2 DEF Documents
  <2> QED
    BY <2>1, <1>7, <1>11, <1>12
<1>14. \A i : given(i) \in Value
  BY GetsValues
<1> HIDE DEF given, carried
<1>15. ASSUME NEW i \in Agreed(cmd), Usable(cmd, NameOf(cmd, i), given(i)) PROVE i \in carried
  <2>1. i \in 1 .. n
    BY <1>12 DEF Agreed
  <2>2. Suits(cmd, NameOf(cmd, i), rows[i].test)
    BY <1>1, <2>1 DEF Documents
  <2>3. CASE Passes(rows[i].test, given(i))
    BY <2>3, <2>1, <1>6, <1>11
  <2>4. CASE rows[i].test = "text"
    BY <2>4, <2>1, <1>1, <1>2, <1>11 DEF Documents
  <2> QED
    BY <2>2, <2>3, <2>4, <1>14, <1>15, SuitedTests
<1>16. ASSUME NEW k \in DOMAIN fields, fields[k].id \in Agreed(cmd)
       PROVE  StandsFor(cmd, fields[k].id, fields[k].data, given(fields[k].id))
  <2> DEFINE i == added[k]
  <2>1. Suits(cmd, NameOf(cmd, i), rows[i].test) /\ Passes(rows[i].test, given(i))
    BY <1>1, <1>6, <1>10, <1>16 DEF Documents
  <2> DEFINE x == given(i)
             data == Data(rows[i].test, x)
             name == NameOf(cmd, i)
  <2>2. x \in Value
    BY <1>14
  <2> HIDE DEF x, data
  <2>3. /\ Usable(cmd, name, x) =>
             /\ data.value = IF name = "final_price" THEN x.v % Word ELSE x.v
             /\ data.type = Form(name, x).type /\ data.len = Form(name, x).len
        /\ ~Usable(cmd, name, x) =>
             cmd = "SETPROP" /\ name = "amenities" /\ data.len = 0 /\ data.type = 1
    BY <2>1, <2>2, SuitedTests, SuitedForms DEF x, data
  <2>4. StandsFor(cmd, i, data, x)
    BY <2>3 DEF StandsFor
  <2> QED
    BY <2>4, <1>10, <1>16 DEF x, data
<1>17. \A j, k \in DOMAIN fields : j < k => fields[j].id < fields[k].id
  BY <1>8, <1>9, <1>10
<1>18. FieldsKept(cmd, body, fields)
  BY <1>12, <1>13, <1>15, <1>16, <1>17 DEF FieldsKept, given, carried
<1> QED
  BY <1>18 DEF fields, p

(* The requests of clients carry values of JSON.                            *)
LEMMA RequestsProper ==
  ASSUME NEW q \in Requests, q.origin = "client"
  PROVE  q.segment \in Value /\ Proper(q.body)
BY RequestsAssumption DEF Proper

(* What the backend is handed is what the client asked for, for every set   *)
(* of requests: no command of src/src/processor loses, changes or misplaces *)
(* a field on its way into the payload, sends one in the form of another,   *)
(* or goes by the name or the flag of another, but for the three things     *)
(* that RequestKept names.  It is about the fields that README.md and the   *)
(* code know by one name: that is not so for "type" of SEARCHPROP, which is *)
(* lost (FiltersKept).                                                      *)
THEOREM RequestsKept == GatewaySpec => []RequestKept
<1>1. ASSUME GatewayInv, frame # NoFrame, request.origin = "client"
      PROVE  LET cmd == request.command
                 fields == Handed.payload.fields
             IN  /\ Handed.payload.cmd_name = cmd
                 /\ mode = "router" => (frame.is_write <=> cmd \in Writes)
                 /\ Handed.payload.field_count = Len(fields)
                 /\ FieldsKept(cmd, request.body, fields)
  <2> DEFINE cmd == request.command
             p == Process[cmd]
             payload == Payload(p, request.body)
  <2>1. /\ mode \in Modes /\ request \in Requests /\ Valid(request) /\ frame = FrameFor(request)
    BY <1>1 DEF GatewayInv, FrameInv
  <2>2. cmd \in DOMAIN Process /\ Accepts(p, request.body)
    BY <1>1, <2>1 DEF Valid, Routed
  <2>3. ProcessorOf(request) = p /\ PayloadOf(request) = payload
    BY <1>1 DEF ProcessorOf, PayloadOf
  <2>4. /\ p.cmd_name = cmd /\ (Writing(p) <=> cmd \in Writes)
        /\ payload.cmd_name = p.cmd_name /\ payload.field_count = Len(payload.fields)
    BY <2>2, ProcessorsNamed DEF Payload
  <2>5. FieldsKept(cmd, request.body, payload.fields)
    BY <1>1, <2>1, <2>2, RequestsProper, FieldsAreKept
  <2> HIDE DEF payload, p
  <2>6. Handed.payload = payload
    <3>1. CASE mode = "router"
      BY <2>1, <2>3, <3>1 DEF FrameFor, prepend_router_header, RouterFrame, prepend_header, Handed, Router
    <3>2. CASE mode = "standalone"
      BY <2>1, <2>3, <3>2 DEF FrameFor, prepend_header, Handed, Router, Shard
    <3> QED
      BY <2>1, <3>1, <3>2 DEF Modes
  <2>7. mode = "router" => frame.is_write = p.is_write
    BY <2>1, <2>3 DEF FrameFor, prepend_router_header, RouterFrame
  <2>8. mode = "router" => (frame.is_write <=> cmd \in Writes)
    BY <2>4, <2>7 DEF Writing
  <2> QED
    BY <2>4, <2>5, <2>6, <2>8
<1>2. GatewayInv => RequestKept
  BY <1>1 DEF RequestKept, FieldsKept, Carried, Given
<1> QED
  BY <1>2, Invariant, PTL

\* What GoodTaken says of a request that is refused.
Faulty(q) ==
  \/ ~(q.origin = "client" /\ Routed(q))
  \/ ~q.body.object
  \/ \E id \in Required(q.command) :
       LET x == Get(q.body, NameOf(q.command, id)) IN
         \/ ~Usable(q.command, NameOf(q.command, id), x)
         \/ x = [kind |-> "text", v |-> 0] /\ q.command \notin {"SETPROP", "SEARCHPROP"}

(* A request that does not pass the validation has a fault.                 *)
LEMMA InvalidIsFaulty ==
  ASSUME NEW q \in Requests, ~Valid(q) PROVE Faulty(q)
<1> DEFINE cmd == q.command
           rows == Process[cmd].rows
           given(i) == Get(q.body, NameOf(cmd, i))
<1> SUFFICES ASSUME q.origin = "client", Routed(q), q.body.object PROVE Faulty(q)
  BY DEF Faulty
<1>1. cmd \in DOMAIN Process /\ ~Accepts(Process[cmd], q.body)
  BY DEF Valid, Routed
<1>2. PICK n, m : Documents(cmd, rows, n, m)
  BY <1>1, EveryCommand
<1>3. PICK i \in DOMAIN rows :
        Compulsory(rows[i]) /\ ~Passes(rows[i].test, Get(q.body, rows[i].name))
  BY <1>1, AcceptedFields
<1> HIDE DEF rows
<1>4. i \in Required(cmd) /\ i \in Agreed(cmd)
  <2>1. i \in Required(cmd) /\ i \in IdsOf(cmd)
    BY <1>2, <1>3 DEF Documents
  <2> QED
    BY <1>1, <2>1, RequiredAgreed
<1>5. /\ i \in Required(cmd) /\ rows[i].name = NameOf(cmd, i)
      /\ Suits(cmd, NameOf(cmd, i), rows[i].test)
      /\ rows[i].test = "text" => cmd \notin {"SETPROP", "SEARCHPROP"}
  BY <1>2, <1>3, <1>4 DEF Documents
<1>6. given(i) \in Value /\ ~Passes(rows[i].test, given(i))
  BY <1>3, <1>5, RequestsProper, GetsValues
<1> HIDE DEF given
<1>7. \/ ~Usable(cmd, NameOf(cmd, i), given(i))
      \/ given(i) = [kind |-> "text", v |-> 0] /\ cmd \notin {"SETPROP", "SEARCHPROP"}
  BY <1>5, <1>6, SuitedTests
<1> QED
  BY <1>5, <1>7 DEF Faulty, given

RefusedInv == verdict = "failed" /\ phase[This] = "idle" => Faulty(request)

(* A request fails without a call only when it is refused.                  *)
LEMMA NextRefuses ==
  ASSUME CallInv, FrameInv, RefusedInv, [GatewayNext]_gatewayVars PROVE RefusedInv'
<1>1. CASE Refuse
  <2>1. Faulty(request) /\ UNCHANGED request
    BY <1>1, InvalidIsFaulty DEF Refuse, Idle, FrameInv, asked
  <2> QED
    BY <2>1 DEF RefusedInv, Faulty, Routed
<1>2. CASE ~Refuse
  <2>1. verdict' = "failed" /\ phase'[This] = "idle" =>
          verdict = "failed" /\ phase[This] = "idle" /\ UNCHANGED request
    <3>1. CASE Dispatch
      BY <3>1 DEF Dispatch, Idle
    <3>2. CASE Deliver \/ NewYear \/ UNCHANGED gatewayVars
      BY <3>2 DEF Deliver, Backend!HandOver, NewYear, gatewayVars, vars, asked, calls
    <3>3. CASE Answered
      BY <3>3 DEF Answered, Backend!Answer, Backend!Become, CallInv, This
    <3>4. CASE CallRefused
      BY <3>4 DEF CallRefused, Backend!Refuse, Backend!Become, CallInv, This
    <3>5. CASE ClientGone
      BY <3>5 DEF ClientGone, Backend!Abandon, Backend!Become, CallInv, This
    <3>6. CASE ShowError \/ Begin \/ ReadOn \/ EndOfData \/ EndOfFields
      BY <3>6 DEF ShowError, Begin, ReadOn, EndOfData, EndOfFields, Decoding, calls
    <3> QED
      BY <1>2, <3>1, <3>2, <3>3, <3>4, <3>5, <3>6 DEF GatewayNext
  <2> QED
    BY <2>1 DEF RefusedInv, Faulty, Routed
<1> QED
  BY <1>1, <1>2

(* rzgate refuses a request by itself only for a fault of the request, for  *)
(* every set of requests: the validation of no command of src/src/processor *)
(* turns down what README.md lets a client send.                            *)
THEOREM GoodRequestsTaken == GatewaySpec => []GoodTaken
<1>1. GatewayInit => RefusedInv
  BY DEF GatewayInit, RefusedInv
<1>2. GatewayInv /\ RefusedInv /\ [GatewayNext]_gatewayVars => RefusedInv'
  BY NextRefuses DEF GatewayInv
<1>3. RefusedInv => GoodTaken
  BY DEF RefusedInv, Faulty, GoodTaken, Known, Given
<1> QED
  BY <1>1, <1>2, <1>3, Invariant, PTL DEF GatewaySpec

-----------------------------------------------------------------------------
(* Dates                                                                    *)

\* A date that a reply may carry.
Stored(d) ==
  /\ d = <<d[1], d[2], d[3]>>
  /\ d[1] \in PackYear .. PackYear + 7
  /\ ValidDate(d[1], d[2], d[3])

(* What is packed is what is unpacked, in three, four and five bits.        *)
LEMMA Unpacked ==
  ASSUME NEW d, Stored(d)
  PROVE  LET packed == Pack(d, PackYear)
         IN  /\ YearOffset(packed) = d[1] - PackYear
             /\ Month(packed) = d[2] /\ Day(packed) = d[3]
<1> DEFINE y == d[1] - PackYear
           m == d[2] - 1
           a == d[3] - 1
           packed == Pack(d, PackYear)
<1>1. y \in 0 .. 7 /\ m \in 0 .. 11 /\ a \in 0 .. 30 /\ PackYear \in Nat
      /\ d[1] \in Int /\ d[2] \in Int /\ d[3] \in Int
  BY YearsAssumption DEF Stored, ValidDate
<1>2. packed = y * 512 + m * 32 + a
  BY <1>1 DEF Pack
<1> HIDE DEF y, m, a, packed
<1>3. packed % 32 = a /\ packed \div 32 = y * 16 + m
  BY <1>1, <1>2
<1>4. (y * 16 + m) % 16 = m
  BY <1>1
<1>5. packed \div 512 = y /\ y % 8 = y
  BY <1>1, <1>2
<1>6. YearOffset(packed) = y /\ Month(packed) = m + 1 /\ Day(packed) = a + 1
  BY <1>3, <1>4, <1>5 DEF YearOffset, Month, Day
<1>7. m + 1 = d[2] /\ a + 1 = d[3]
  BY <1>1 DEF m, a
<1> QED
  BY <1>6, <1>7 DEF y, packed

(* A packed date is written n years later, but for a 29th of February that  *)
(* is none.                                                                 *)
LEMMA WrittenDates ==
  ASSUME NEW d, Stored(d), NEW n \in Nat
  PROVE  write_packed_date(Pack(d, PackYear), PackYear + n) =
           IF d[2] = 2 /\ d[3] = 29 /\ ~LeapYear(d[1] + n) THEN NoDate ELSE Moved(d, n)
<1> DEFINE packed == Pack(d, PackYear)
<1>1. PackYear + n + YearOffset(packed) = d[1] + n /\ Month(packed) = d[2] /\ Day(packed) = d[3]
  BY Unpacked, YearsAssumption DEF Stored
<1> HIDE DEF packed
<1>2. write_packed_date(packed, PackYear + n) =
        IF ValidDate(d[1] + n, d[2], d[3]) THEN Moved(d, n) ELSE NoDate
  BY <1>1 DEF write_packed_date, Moved
<1>3. ValidDate(d[1] + n, d[2], d[3]) <=> ~(d[2] = 2 /\ d[3] = 29 /\ ~LeapYear(d[1] + n))
  BY DEF Stored, ValidDate
<1> QED
  BY <1>2, <1>3 DEF packed

(* The dates: there is one only while a reply to SEARCHAVAIL is decoded, and *)
(* what is written for it is the date moved by some of the New Years so far. *)
DatesInv ==
  /\ years \in Nat
  /\ stored # NoDate => Stored(stored)
  /\ phase[This] # "ok" => stored = NoDate
  /\ phase[This] = "ok" /\ decoder = "avail" => stored # NoDate
  /\ written # NoDate => stored # NoDate /\ \E n \in 0 .. years : written = Moved(stored, n)

(* No step of the gateway breaks the invariant of the dates.                *)
LEMMA NextKeepsDates ==
  ASSUME CallInv, DatesInv, [GatewayNext]_gatewayVars PROVE DatesInv'
<1>1. CASE Answered
  <2>1. /\ phase[This] = "busy" /\ phase'[This] = "ok" /\ UNCHANGED <<decoder, written, years>>
        /\ stored' \in (IF decoder = "avail" THEN StoredDates ELSE {NoDate})
    BY <1>1 DEF Answered, Backend!Answer, Backend!Become, CallInv, This
  <2>2. written = NoDate
    BY <2>1 DEF DatesInv
  <2>3. \A d \in StoredDates : d # NoDate /\ Stored(d)
    BY DatesAssumption DEF Stored, NoDate
  <2> QED
    BY <2>1, <2>2, <2>3 DEF DatesInv, Stored
<1>2. CASE ReadOn
  <2>1. phase[This] = "ok" /\ UNCHANGED <<phase, decoder, stored, years>>
    BY <1>2 DEF ReadOn, Decoding, ReadField, reply, calls
  <2>2. \/ UNCHANGED written
        \/ /\ decoder = "avail" /\ written' # NoDate
           /\ written' = write_packed_date(Pack(stored, PackYear), PackYear + years)
    BY <1>2 DEF ReadOn
  <2>3. ASSUME decoder = "avail", written' # NoDate,
               written' = write_packed_date(Pack(stored, PackYear), PackYear + years)
        PROVE  stored # NoDate /\ years \in 0 .. years /\ written' = Moved(stored, years)
    BY <2>1, <2>3, WrittenDates DEF DatesInv
  <2> QED
    BY <2>1, <2>2, <2>3 DEF DatesInv, Stored, Moved
<1>3. CASE NewYear
  <2>1. /\ UNCHANGED <<phase, decoder, stored, written>> /\ years' = years + 1
    BY <1>3 DEF NewYear, vars, reply, calls
  <2>2. years' \in Nat /\ \A n \in 0 .. years : n \in 0 .. years'
    BY <2>1 DEF DatesInv
  <2> QED
    BY <2>1, <2>2 DEF DatesInv, Stored, Moved
<1>4. CASE ~Answered /\ ~ReadOn /\ ~NewYear
  <2>1. /\ UNCHANGED <<stored, years, written>>
        /\ phase'[This] = "ok" <=> phase[This] = "ok"
        /\ phase[This] = "ok" => UNCHANGED decoder
    <3>1. CASE Refuse
      BY <3>1 DEF Refuse, calls, dates, reply
    <3>2. CASE Dispatch
      BY <3>2 DEF Dispatch, Idle, Backend!Submit, Backend!Become, dates, CallInv, This
    <3>3. CASE Deliver \/ ClientGone
      BY <3>3 DEF Deliver, ClientGone, Backend!HandOver, Backend!Abandon, Backend!Become,
                  dates, vars, reply, CallInv, This
    <3>4. CASE CallRefused
      BY <3>4 DEF CallRefused, Backend!Refuse, Backend!Become, dates, CallInv, This
    <3>5. CASE ShowError \/ Begin \/ EndOfData \/ EndOfFields
      BY <3>5 DEF ShowError, Begin, EndOfData, EndOfFields, Decoding, calls,
                  ErrorReply, BeginReading, DataEnds, AllRead, reply
    <3>6. CASE UNCHANGED gatewayVars
      BY <3>6 DEF gatewayVars, vars, reply, calls, dates
    <3> QED
      BY <1>4, <3>1, <3>2, <3>3, <3>4, <3>5, <3>6 DEF GatewayNext
  <2> QED
    BY <2>1 DEF DatesInv, Stored, Moved
<1> QED
  BY <1>1, <1>2, <1>3, <1>4

(* A date of a reply is written as it was stored but for the New Years that *)
(* passed, whatever the date within the eight years that the backend can    *)
(* pack and however often the clock passes a New Year: helper.rs loses no   *)
(* bit of it.                                                               *)
THEOREM DatesAreShown == GatewaySpec => []DatesShown
<1>1. GatewayInit => DatesInv
  BY DEF GatewayInit, DatesInv, Backend!Init, This
<1>2. GatewayInv /\ DatesInv /\ [GatewayNext]_gatewayVars => DatesInv'
  BY NextKeepsDates DEF GatewayInv
<1>3. DatesInv => DatesShown
  <2> SUFFICES ASSUME DatesInv, stored # NoDate
               PROVE  /\ written # NoDate => \E n \in 0 .. years : written = Moved(stored, n)
                      /\ write_packed_date(Pack(stored, PackYear), PackYear + years) =
                           IF stored[2] = 2 /\ stored[3] = 29 /\ ~LeapYear(Moved(stored, years)[1])
                           THEN NoDate ELSE Moved(stored, years)
    BY DEF DatesShown
  <2>1. Stored(stored) /\ years \in Nat
    BY DEF DatesInv
  <2>2. Moved(stored, years)[1] = stored[1] + years
    BY DEF Moved
  <2>3. written # NoDate => \E n \in 0 .. years : written = Moved(stored, n)
    BY DEF DatesInv
  <2> QED
    BY <2>1, <2>2, <2>3, WrittenDates
<1> QED
  BY <1>1, <1>2, <1>3, Invariant, PTL DEF GatewaySpec

-----------------------------------------------------------------------------
(* Property ids                                                             *)

\* A row of n bytes.
Row(s, n) == s \in Seq(Nat) /\ Len(s) = n

(* A row is a function ...                                                  *)
LEMMA RowsAre ==
  ASSUME NEW n \in Nat, NEW s PROVE Row(s, n) <=> s \in [1 .. n -> Nat]
<1>1. ASSUME Row(s, n) PROVE s \in [1 .. n -> Nat]
  BY <1>1, LenProperties DEF Row
<1>2. ASSUME s \in [1 .. n -> Nat] PROVE Row(s, n)
  BY <1>2 DEF Row
<1> QED
  BY <1>1, <1>2

(* ... and known by its elements.                                           *)
LEMMA RowsEqual ==
  ASSUME NEW n \in Nat, NEW s, NEW t, Row(s, n), Row(t, n), \A i \in 1 .. n : s[i] = t[i]
  PROVE  s = t
BY SeqEqual DEF Row

\* A row of m bytes with one of n bytes behind it.
Join(u, s, m, t, n) ==
  /\ Row(u, m + n)
  /\ \A i \in 1 .. m : u[i] = s[i]
  /\ \A i \in 1 .. n : u[m + i] = t[i]

(* Rows that are joined are behind each other.                              *)
LEMMA RowsJoined ==
  ASSUME NEW m \in Nat, NEW n \in Nat, NEW s, NEW t, Row(s, m), Row(t, n)
  PROVE  Join(s \o t, s, m, t, n)
<1>1. /\ s \o t \in Seq(Nat) /\ Len(s \o t) = m + n
      /\ \A i \in 1 .. m + n : (s \o t)[i] = IF i <= m THEN s[i] ELSE t[i - m]
  BY ConcatProperties DEF Row
<1>2. \A i \in 1 .. m : i \in 1 .. m + n /\ i <= m
  OBVIOUS
<1>3. \A i \in 1 .. n : m + i \in 1 .. m + n /\ ~(m + i <= m) /\ (m + i) - m = i
  OBVIOUS
<1>4. \A i \in 1 .. n : (s \o t)[m + i] = t[i]
  BY <1>1, <1>3
<1> QED
  BY <1>1, <1>2, <1>4 DEF Row, Join

(* A part of a row, from a to b.                                            *)
LEMMA RowsCut ==
  ASSUME NEW n \in Nat, NEW s, Row(s, n), NEW a \in 1 .. n + 1, NEW b \in 0 .. n, a <= b + 1
  PROVE  /\ Row(SubSeq(s, a, b), b - a + 1)
         /\ \A i \in 1 .. b - a + 1 : SubSeq(s, a, b)[i] = s[a + i - 1]
<1>1. \A i \in a .. b : s[i] \in Nat
  BY RowsAre
<1>2. /\ SubSeq(s, a, b) \in Seq(Nat)
      /\ Len(SubSeq(s, a, b)) = IF a <= b THEN b - a + 1 ELSE 0
      /\ \A i \in 1 .. b - a + 1 : SubSeq(s, a, b)[i] = s[a + i - 1]
  <2>1. a \in Int /\ b \in Int
    OBVIOUS
  <2> QED
    BY <1>1, <2>1, SubSeqProperties
<1>3. ~(a <= b) => b - a + 1 = 0
  OBVIOUS
<1> QED
  BY <1>2, <1>3 DEF Row

(* What stands before the first zero of a row, or the whole row.            *)
LEMMA ZerosEnd ==
  ASSUME NEW k \in Nat, NEW s, Row(s, k), NEW n \in 0 .. k, \A i \in 1 .. n : s[i] # 0,
         n < k => s[n + 1] = 0
  PROVE  Row(BeforeZero(s), n) /\ \A i \in 1 .. n : BeforeZero(s)[i] = s[i]
<1> DEFINE I == {i \in 1 .. k : s[i] = 0}
           zero == SelectInSeq(s, LAMBDA b : b = 0)
<1>1. zero = IF I # {} THEN Min(I) ELSE 0
  BY DEF SelectInSeq, Row
<1>2. BeforeZero(s) = IF zero = 0 THEN s ELSE SubSeq(s, 1, zero - 1)
  BY DEF BeforeZero
<1> HIDE DEF zero
<1>4. CASE n = k
  <2>1. I = {}
    BY <1>4
  <2> QED
    BY <1>1, <1>2, <1>4, <2>1
<1>5. CASE n < k
  <2>1. n + 1 \in I /\ \A i \in I : n + 1 <= i
    BY <1>5
  <2>2. I \subseteq Nat /\ n + 1 \in Nat
    OBVIOUS
  <2> HIDE DEF I
  <2>3. Min(I) \in I /\ \A i \in I : Min(I) <= i
    <3>1. \E x \in I : \A y \in I : x <= y
      BY <2>1
    <3> QED
      BY <3>1 DEF Min
  <2>4. Min(I) \in Nat /\ n + 1 <= Min(I) /\ Min(I) <= n + 1
    BY <2>1, <2>2, <2>3
  <2>5. Min(I) = n + 1
    BY <2>2, <2>4
  <2>6. BeforeZero(s) = SubSeq(s, 1, n)
    BY <1>1, <1>2, <2>1, <2>5
  <2>7. /\ Row(SubSeq(s, 1, n), n - 1 + 1)
        /\ \A i \in 1 .. n - 1 + 1 : SubSeq(s, 1, n)[i] = s[1 + i - 1]
    <3>1. 1 \in 1 .. k + 1 /\ 1 <= n + 1
      OBVIOUS
    <3> QED
      BY <3>1, RowsCut
  <2>8. n - 1 + 1 = n /\ \A i \in 1 .. n : 1 + i - 1 = i
    OBVIOUS
  <2> QED
    BY <2>6, <2>7, <2>8
<1> QED
  BY <1>4, <1>5

(* A text of at most fifteen characters, in the sixteen bytes of an id.     *)
LEMMA ShortIds ==
  ASSUME NEW m \in 0 .. 15, NEW text, Row(text, m)
  PROVE  LET short == ShortId(text)
         IN  /\ Row(short, 16) /\ short[7] = Marker
             /\ \A i \in 1 .. 6 : short[i] = IF i <= m THEN text[i] ELSE 0
             /\ \A i \in 7 .. 15 : short[i + 1] = IF i <= m THEN text[i] ELSE 0
<1> DEFINE zeros == Zeros(15 - m)
           padded == text \o zeros
           left == SubSeq(padded, 1, 6)
           right == SubSeq(padded, 7, 15)
           start == left \o <<Marker>>
           short == start \o right
<1>1. Row(zeros, 15 - m) /\ \A i \in 1 .. 15 - m : zeros[i] = 0
  <2>1. zeros \in [1 .. 15 - m -> Nat] /\ 15 - m \in Nat /\ \A i \in 1 .. 15 - m : zeros[i] = 0
    BY DEF Zeros
  <2> QED
    BY <2>1, RowsAre
<1> HIDE DEF zeros
<1>2. Row(padded, 15) /\ \A i \in 1 .. 15 : padded[i] = IF i <= m THEN text[i] ELSE 0
  <2>1. m \in Nat /\ 15 - m \in Nat /\ m + (15 - m) = 15
    OBVIOUS
  <2>2. /\ Row(padded, m + (15 - m))
        /\ \A i \in 1 .. m : padded[i] = text[i]
        /\ \A i \in 1 .. 15 - m : padded[m + i] = zeros[i]
    <3>1. Join(padded, text, m, zeros, 15 - m)
      BY <1>1, <2>1, RowsJoined
    <3> HIDE DEF padded
    <3> QED
      BY <3>1 DEF Join
  <2> HIDE DEF padded
  <2>3. ASSUME NEW i \in 1 .. 15 PROVE padded[i] = IF i <= m THEN text[i] ELSE 0
    <3>1. CASE i <= m
      BY <2>2, <3>1
    <3>2. CASE i > m
      <4>1. i - m \in 1 .. 15 - m /\ m + (i - m) = i
        BY <3>2
      <4> QED
        BY <1>1, <2>2, <3>2, <4>1
    <3> QED
      BY <3>1, <3>2
  <2> QED
    BY <2>1, <2>2, <2>3
<1> HIDE DEF padded
<1>3. Row(left, 6) /\ \A i \in 1 .. 6 : left[i] = padded[i]
  <2>1. Row(left, 6 - 1 + 1) /\ \A i \in 1 .. 6 - 1 + 1 : left[i] = padded[1 + i - 1]
    BY <1>2, RowsCut
  <2> QED
    BY <2>1
<1>4. Row(right, 9) /\ \A i \in 1 .. 9 : right[i] = padded[i + 6]
  <2>1. Row(right, 15 - 7 + 1) /\ \A i \in 1 .. 15 - 7 + 1 : right[i] = padded[7 + i - 1]
    BY <1>2, RowsCut
  <2> QED
    BY <2>1
<1> HIDE DEF left, right
<1>5. Row(<<Marker>>, 1) /\ <<Marker>>[1] = Marker
  BY DEF Row, Marker
<1>6. /\ Row(start, 7) /\ start[7] = Marker /\ \A i \in 1 .. 6 : start[i] = left[i]
  <2>1. /\ Row(start, 6 + 1) /\ \A i \in 1 .. 6 : start[i] = left[i]
        /\ \A i \in 1 .. 1 : start[6 + i] = <<Marker>>[i]
    <3>1. Join(start, left, 6, <<Marker>>, 1)
      BY <1>3, <1>5, RowsJoined
    <3> HIDE DEF start
    <3> QED
      BY <3>1 DEF Join
  <2> HIDE DEF start
  <2>2. 1 \in 1 .. 1 /\ 6 + 1 = 7
    OBVIOUS
  <2>3. start[6 + 1] = <<Marker>>[1]
    BY <2>1, <2>2
  <2> QED
    BY <1>5, <2>1, <2>2, <2>3
<1> HIDE DEF start
<1>7. /\ Row(short, 16)
      /\ \A i \in 1 .. 7 : short[i] = start[i]
      /\ \A i \in 1 .. 9 : short[7 + i] = right[i]
  <2>1. /\ Row(short, 7 + 9)
        /\ \A i \in 1 .. 7 : short[i] = start[i]
        /\ \A i \in 1 .. 9 : short[7 + i] = right[i]
    <3>1. Join(short, start, 7, right, 9)
      BY <1>4, <1>6, RowsJoined
    <3> HIDE DEF short
    <3> QED
      BY <3>1 DEF Join
  <2> HIDE DEF short
  <2> QED
    BY <2>1
<1>8. short = ShortId(text)
  <2>1. Len(text) = m
    BY DEF Row
  <2> QED
    BY <2>1 DEF short, start, left, right, padded, zeros, ShortId
<1> HIDE DEF short
<1>9. \A i \in 1 .. 6 : short[i] = padded[i]
  BY <1>3, <1>6, <1>7
<1>10. ASSUME NEW i \in 7 .. 15 PROVE short[i + 1] = padded[i]
  <2>1. i - 6 \in 1 .. 9 /\ 7 + (i - 6) = i + 1 /\ (i - 6) + 6 = i
    OBVIOUS
  <2> QED
    BY <1>4, <1>7, <2>1
<1>11. short[7] = Marker
  BY <1>6, <1>7
<1> QED
  BY <1>2, <1>7, <1>8, <1>9, <1>10, <1>11

(* A text comes back from its short id.                                     *)
LEMMA ShortIdsRead ==
  ASSUME NEW m \in 0 .. 15, NEW text, Row(text, m), \A i \in 1 .. m : text[i] # 0
  PROVE  bytes_to_property_id(ShortId(text)) = text
<1> DEFINE short == ShortId(text)
           left == SubSeq(short, 1, 6)
           right == SubSeq(short, 8, 16)
           l == IF m < 6 THEN m ELSE 6
           r == IF m < 6 THEN 0 ELSE m - 6
           a == BeforeZero(left)
           b == BeforeZero(right)
           both == a \o b
<1>1. /\ Row(short, 16) /\ short[7] = Marker
      /\ \A i \in 1 .. 6 : short[i] = IF i <= m THEN text[i] ELSE 0
      /\ \A i \in 7 .. 15 : short[i + 1] = IF i <= m THEN text[i] ELSE 0
  BY ShortIds
<1>2. bytes_to_property_id(short) = a \o b
  <2>1. Len(short) = 16
    BY <1>1 DEF Row
  <2> HIDE DEF short
  <2> QED
    BY <1>1, <2>1 DEF bytes_to_property_id
<1> HIDE DEF short
<1>3. Row(left, 6) /\ \A i \in 1 .. 6 : left[i] = IF i <= m THEN text[i] ELSE 0
  <2>1. Row(left, 6 - 1 + 1) /\ \A i \in 1 .. 6 - 1 + 1 : left[i] = short[1 + i - 1]
    BY <1>1, RowsCut
  <2> QED
    BY <1>1, <2>1
<1>4. Row(right, 9) /\ \A i \in 1 .. 9 : right[i] = IF i + 6 <= m THEN text[i + 6] ELSE 0
  <2>1. Row(right, 16 - 8 + 1) /\ \A i \in 1 .. 16 - 8 + 1 : right[i] = short[8 + i - 1]
    BY <1>1, RowsCut
  <2>2. \A i \in 1 .. 9 : i + 6 \in 7 .. 15 /\ (i + 6) + 1 = 8 + i - 1
    OBVIOUS
  <2> HIDE DEF right
  <2> QED
    BY <1>1, <2>1, <2>2
<1> HIDE DEF left, right
<1>5. /\ l \in 0 .. 6 /\ r \in 0 .. 9 /\ l + r = m
      /\ (l < 6 => l + 1 > m) /\ (r < 9 => (r + 1) + 6 > m) /\ (r # 0 => l = 6)
  OBVIOUS
<1>6. (\A i \in 1 .. l : i \in 1 .. m) /\ (\A i \in 1 .. r : i + 6 \in 1 .. m)
  OBVIOUS
<1> HIDE DEF l, r
<1>7. Row(a, l) /\ \A i \in 1 .. l : a[i] = text[i]
  <2>1. \A i \in 1 .. l : left[i] = text[i] /\ left[i] # 0
    BY <1>3, <1>5, <1>6
  <2>2. l < 6 => left[l + 1] = 0
    BY <1>3, <1>5
  <2>3. Row(a, l) /\ \A i \in 1 .. l : a[i] = left[i]
    BY <1>3, <1>5, <2>1, <2>2, ZerosEnd
  <2> QED
    BY <2>1, <2>3
<1>8. Row(b, r) /\ \A i \in 1 .. r : b[i] = text[i + 6]
  <2>1. \A i \in 1 .. r : right[i] = text[i + 6] /\ right[i] # 0
    BY <1>4, <1>5, <1>6
  <2>2. r < 9 => right[r + 1] = 0
    BY <1>4, <1>5
  <2>3. Row(b, r) /\ \A i \in 1 .. r : b[i] = right[i]
    BY <1>4, <1>5, <2>1, <2>2, ZerosEnd
  <2> QED
    BY <2>1, <2>3
<1> HIDE DEF a, b
<1>9. /\ Row(both, l + r)
      /\ \A i \in 1 .. l : both[i] = a[i]
      /\ \A i \in 1 .. r : both[l + i] = b[i]
  <2>1. l \in Nat /\ r \in Nat
    BY <1>5
  <2> QED
    <3>1. Join(both, a, l, b, r)
      BY <1>7, <1>8, <2>1, RowsJoined
    <3> HIDE DEF both
    <3> QED
      BY <3>1 DEF Join
<1> HIDE DEF both
<1>10. ASSUME NEW i \in 1 .. m PROVE both[i] = text[i]
  <2>1. CASE i <= l
    <3>1. i \in 1 .. l
      BY <2>1, <1>5
    <3> QED
      BY <3>1, <1>7, <1>9
  <2>2. CASE i > l
    <3>1. l = 6 /\ i - l \in 1 .. r /\ l + (i - l) = i /\ (i - l) + 6 = i
      BY <2>2, <1>5
    <3> QED
      BY <3>1, <1>8, <1>9
  <2> QED
    BY <2>1, <2>2, <1>5
<1>11. both = text
  <2>1. m \in Nat /\ Row(both, m)
    BY <1>5, <1>9
  <2> QED
    BY <1>10, <2>1, RowsEqual
<1> QED
  BY <1>2, <1>11 DEF short, both

(* The two converters make the same of an id.                               *)
LEMMA ConvertersAgree ==
  ASSUME NEW n \in Nat, NEW data, Row(data, n)
  PROVE  bytes_to_property_id(data) = write_quoted_property_id(data)
<1>0. Len(data) = n
  BY DEF Row
<1>1. CASE n < 7
  BY <1>0, <1>1 DEF bytes_to_property_id, write_quoted_property_id
<1>2. CASE n >= 7 /\ data[7] = Marker
  <2> DEFINE left == BeforeZero(SubSeq(data, 1, 6))
             right == BeforeZero(SubSeq(data, 8, n))
  <2>1. bytes_to_property_id(data) = left \o right
    BY <1>0, <1>2 DEF bytes_to_property_id
  <2>2. write_quoted_property_id(data) = IF n >= 8 THEN left \o right ELSE left \o <<>>
    <3> DEFINE rest == IF Len(data) >= 8 THEN BeforeZero(SubSeq(data, 8, Len(data))) ELSE <<>>
    <3>1. write_quoted_property_id(data) = left \o rest
      <4>1. ~(Len(data) < 7) /\ data[7] = Marker
        BY <1>0, <1>2
      <4> HIDE DEF rest
      <4> QED
        BY <4>1 DEF write_quoted_property_id, rest
    <3>2. rest = IF n >= 8 THEN right ELSE <<>>
      BY <1>0
    <3> HIDE DEF rest, left, right
    <3> QED
      BY <3>1, <3>2
  <2>3. ASSUME ~(n >= 8) PROVE right = <<>>
    <3> DEFINE none == SubSeq(data, 8, n)
    <3>1. Row(none, 0)
      <4>1. n = 7 /\ 8 \in 1 .. n + 1 /\ n \in 0 .. n /\ 8 <= n + 1 /\ n - 8 + 1 = 0
        BY <1>2, <2>3
      <4>2. Row(SubSeq(data, 8, n), n - 8 + 1)
        BY <4>1, RowsCut
      <4> QED
        BY <4>1, <4>2
    <3> HIDE DEF none
    <3>2. Row(BeforeZero(none), 0)
      <4>1. 0 \in Nat /\ 0 \in 0 .. 0 /\ \A i \in 1 .. 0 : none[i] # 0
        OBVIOUS
      <4> QED
        BY <3>1, <4>1, ZerosEnd
    <3> QED
      BY <3>2, EmptySeq DEF Row, none
  <2> HIDE DEF left, right
  <2> QED
    BY <2>1, <2>2, <2>3
<1>3. CASE n >= 7 /\ data[7] # Marker
  <2> DEFINE zeros == Zeros(16)
             long == data \o zeros
             first == SubSeq(long, 1, 16)
             padded == [i \in 1 .. 16 |-> IF i <= n THEN data[i] ELSE 0]
  <2>1. Row(zeros, 16) /\ \A i \in 1 .. 16 : zeros[i] = 0
    <3>1. zeros \in [1 .. 16 -> Nat] /\ \A i \in 1 .. 16 : zeros[i] = 0
      BY DEF Zeros
    <3> QED
      BY <3>1, RowsAre
  <2> HIDE DEF zeros
  <2>2. /\ Row(long, n + 16)
        /\ \A i \in 1 .. n : long[i] = data[i]
        /\ \A i \in 1 .. 16 : long[n + i] = zeros[i]
    <3>1. Join(long, data, n, zeros, 16)
      BY <2>1, RowsJoined
    <3> HIDE DEF long
    <3> QED
      BY <3>1 DEF Join
  <2> HIDE DEF long
  <2>3. Row(first, 16) /\ \A i \in 1 .. 16 : first[i] = long[i]
    <3>1. n + 16 \in Nat /\ 1 \in 1 .. (n + 16) + 1 /\ 16 \in 0 .. n + 16
      OBVIOUS
    <3>2. Row(first, 16 - 1 + 1) /\ \A i \in 1 .. 16 - 1 + 1 : first[i] = long[1 + i - 1]
      BY <2>2, <3>1, RowsCut
    <3> QED
      BY <3>2
  <2> HIDE DEF first
  <2>4. ASSUME NEW i \in 1 .. 16 PROVE first[i] = padded[i] /\ padded[i] \in Nat
    <3>1. padded[i] = IF i <= n THEN data[i] ELSE 0
      OBVIOUS
    <3> HIDE DEF padded
    <3>2. CASE i <= n
      <4>1. i \in 1 .. n
        BY <3>2
      <4>2. data[i] \in Nat
        BY <4>1, RowsAre
      <4> QED
        BY <2>2, <2>3, <3>1, <3>2, <4>1, <4>2
    <3>3. CASE i > n
      <4>1. i - n \in 1 .. 16 /\ n + (i - n) = i
        BY <3>3
      <4> QED
        BY <2>1, <2>2, <2>3, <3>1, <3>3, <4>1
    <3> QED
      BY <3>2, <3>3
  <2>5. padded \in [1 .. 16 -> Nat]
    BY <2>4
  <2> HIDE DEF padded
  <2>6. first = padded
    <3>1. Row(padded, 16) /\ 16 \in Nat
      BY <2>5, RowsAre
    <3>2. \A i \in 1 .. 16 : first[i] = padded[i]
      BY <2>4
    <3> QED
      BY <2>3, <3>1, <3>2, RowsEqual
  <2>7. bytes_to_property_id(data) = IF data[7] \div 16 \in Versions THEN first ELSE <<>>
    BY <1>0, <1>3 DEF bytes_to_property_id, first, long, zeros
  <2>8. write_quoted_property_id(data) = IF data[7] \div 16 \in Versions THEN padded ELSE <<>>
    BY <1>0, <1>3 DEF write_quoted_property_id, padded
  <2> QED
    BY <2>6, <2>7, <2>8
<1> QED
  BY <1>1, <1>2, <1>3

(* A short property id comes back as it was stored, whatever its characters *)
(* and wherever the marker splits it, and both converters of helper.rs make *)
(* the same of every id, also of one that is cut short or too long.         *)
THEOREM IdsAreKept == GatewaySpec => []IdsKept
<1>1. ASSUME NEW text \in ShortTexts
      PROVE  /\ bytes_to_property_id(ShortId(text)) = text
             /\ write_quoted_property_id(ShortId(text)) = text
  <2>1. text \in Seq(Printable) /\ Len(text) <= 15
    BY IdsAssumption
  <2>2. PICK m \in Nat : m = Len(text)
    BY <2>1, LenProperties
  <2>3. text \in [1 .. m -> Printable]
    BY <2>1, <2>2, LenProperties
  <2>4. \A i \in 1 .. m : text[i] \in Nat /\ text[i] # 0
    <3>1. \A c \in Printable : c \in Nat /\ c # 0
      BY DEF Printable
    <3> QED
      BY <2>3, <3>1
  <2>5. Row(text, m)
    BY <2>2, <2>3, <2>4, RowsAre
  <2>6. m <= 15 => m \in 0 .. 15
    OBVIOUS
  <2>7. m \in 0 .. 15
    BY <2>1, <2>2, <2>6
  <2>8. Row(ShortId(text), 16)
    BY <2>5, <2>7, ShortIds
  <2> QED
    BY <2>4, <2>5, <2>7, <2>8, ShortIdsRead, ConvertersAgree
<1>2. ASSUME NEW data \in RawIds
      PROVE  bytes_to_property_id(data) = write_quoted_property_id(data)
  <2>1. data \in Seq(0 .. 255)
    BY IdsAssumption
  <2>2. PICK n \in Nat : n = Len(data)
    BY <2>1, LenProperties
  <2>3. data \in [1 .. n -> 0 .. 255]
    BY <2>1, <2>2, LenProperties
  <2>4. Row(data, n)
    <3>1. \A c \in 0 .. 255 : c \in Nat
      OBVIOUS
    <3>2. data \in [1 .. n -> Nat]
      BY <2>3, <3>1
    <3> QED
      BY <3>2, RowsAre
  <2> QED
    BY <2>4, ConvertersAgree
<1>3. IdsKept
  BY <1>1, <1>2 DEF IdsKept
<1> QED
  BY <1>3, PTL

-----------------------------------------------------------------------------
(* Rate features                                                            *)

\* The features that come first and whose bits are set: of n of them.
BitsOf(n) == {p \in 1 .. n : p - 1 \in mask}
MarkedOf(n) == [k \in DOMAIN InOrder(BitsOf(n)) |-> features[InOrder(BitsOf(n))[k]]]

(* Two loops that have been through some of the features have listed those  *)
(* of them whose bits are set, and the bit of the second is the one that    *)
(* its number of rounds stands for.                                         *)
LoopsInv ==
  /\ FeaturesTyped
  /\ index <= Len(features) /\ strings = MarkedOf(index)
  /\ walked <= Len(features) /\ array = MarkedOf(walked)
  /\ bit = Shifted(walked)

(* A number above those of a set comes last in its order.                   *)
LEMMA GreatestIsLast ==
  ASSUME NEW S \in SUBSET Nat, IsFiniteSet(S), NEW x \in Nat, \A i \in S : i < x
  PROVE  InOrder(S \cup {x}) = Append(InOrder(S), x)
<1> DEFINE T == S \cup {x}
           n == Cardinality(S)
           m == Cardinality(T)
           s == InOrder(S)
           t == InOrder(T)
           below == [i \in S |-> i]
           upto == [i \in T |-> i]
<1>1. n \in Nat /\ IsFiniteSet(T) /\ m = n + 1 /\ T \in SUBSET Nat
  <2>1. x \notin S
    OBVIOUS
  <2> QED
    BY <2>1, FS_AddElement, FS_CardinalityType
<1>2. /\ DOMAIN below = S /\ \A i \in S : below[i] = i /\ below[i] \in Nat
      /\ DOMAIN upto = T /\ \A i \in T : upto[i] = i /\ upto[i] \in Nat
  OBVIOUS
<1>3. s = Places(below) /\ t = Places(upto)
  BY DEF InOrder
<1>4. \A i \in S : UpTo(upto, i) = UpTo(below, i)
  BY DEF UpTo
<1>5. UpTo(upto, x) = T
  <2>1. \A i \in T : i <= x
    OBVIOUS
  <2>2. x \in T
    OBVIOUS
  <2> HIDE DEF T, upto
  <2>3. \A j \in T : upto[j] < upto[x] \/ (upto[j] = upto[x] /\ j <= x)
    <3>1. \A j \in T : j \in Nat /\ upto[j] = j /\ upto[x] = x /\ j <= x
      BY <1>1, <1>2, <2>1, <2>2
    <3> QED
      BY <3>1
  <2> QED
    BY <1>2, <2>3 DEF UpTo
<1> HIDE DEF T, n, m, s, t, below, upto
<1>6. Lists(s, n, S, below)
  <2>1. n = Cardinality(S)
    BY DEF n
  <2> QED
    BY <1>2, <1>3, <2>1, PlacesCounted
<1>7. Lists(t, m, T, upto)
  <2>1. m = Cardinality(T)
    BY DEF m
  <2> QED
    BY <1>1, <1>2, <1>3, <2>1, PlacesCounted
<1>8. /\ s \in [1 .. n -> S]
      /\ \A i \in S, k \in 1 .. n : s[k] = i <=> Cardinality(UpTo(below, i)) = k
  BY <1>6 DEF Lists
<1>9. /\ t \in [1 .. n + 1 -> T]
      /\ \A i \in T, k \in 1 .. n + 1 : t[k] = i <=> Cardinality(UpTo(upto, i)) = k
  BY <1>1, <1>7 DEF Lists
<1>10. t[n + 1] = x
  <2>1. x \in T /\ n + 1 \in 1 .. n + 1 /\ Cardinality(UpTo(upto, x)) = n + 1
    BY <1>1, <1>5 DEF T, m
  <2> QED
    BY <1>9, <2>1
<1>11. ASSUME NEW k \in 1 .. n PROVE t[k] = s[k]
  <2>1. s[k] \in S /\ s[k] \in T /\ k \in 1 .. n + 1
    BY <1>1, <1>8 DEF T
  <2>2. Cardinality(UpTo(upto, s[k])) = k
    BY <1>4, <1>8, <2>1
  <2> QED
    BY <1>9, <2>1, <2>2
<1>12. s \in Seq(S) /\ Len(s) = n
  BY <1>1, <1>8
<1>13. Append(s, x) = [k \in 1 .. n + 1 |-> IF k = n + 1 THEN x ELSE s[k]]
  <2>1. s \in Seq(Nat)
    <3>1. \A k \in 1 .. n : s[k] \in Nat
      BY <1>8
    <3>2. s \in [1 .. n -> Nat]
      BY <1>8, <3>1
    <3> QED
      BY <1>1, <3>2
  <2>2. /\ Append(s, x) \in Seq(Nat) /\ Len(Append(s, x)) = n + 1
        /\ \A k \in 1 .. n : Append(s, x)[k] = s[k]
        /\ Append(s, x)[n + 1] = x
    BY <1>12, <2>1, AppendProperties
  <2>3. Append(s, x) \in [1 .. n + 1 -> Nat]
    BY <2>2, LenProperties
  <2>4. \A k \in 1 .. n + 1 : k = n + 1 \/ k \in 1 .. n
    BY <1>1
  <2> QED
    BY <2>2, <2>3, <2>4
<1>14. t = Append(s, x)
  BY <1>1, <1>9, <1>10, <1>11, <1>13
<1> QED
  BY <1>14 DEF s, t, T

(* A round adds the feature of its bit, if that is set, and no other.       *)
LEMMA MarkedNext ==
  ASSUME FeaturesTyped, NEW n \in Nat, n < Len(features)
  PROVE  /\ MarkedOf(n) \in Seq(Feature)
         /\ MarkedOf(n + 1) = IF n \in mask THEN Append(MarkedOf(n), features[n + 1]) ELSE MarkedOf(n)
<1> DEFINE S == BitsOf(n)
           s == InOrder(S)
           x == n + 1
<1>1. S \in SUBSET Nat /\ S \in SUBSET (1 .. n)
  BY DEF BitsOf
<1>2. IsFiniteSet(S)
  <2>1. IsFiniteSet(1 .. n)
    BY FS_Interval
  <2> QED
    BY <1>1, <2>1, FS_Subset
<1>3. features \in Seq(Feature) /\ \A p \in 1 .. x : features[p] \in Feature
  <2>1. features \in Seq(Feature)
    BY ListsAssumption DEF FeaturesTyped
  <2> QED
    BY <2>1
<1>4. BitsOf(x) = IF n \in mask THEN S \cup {x} ELSE S
  <2>1. \A p : p \in 1 .. x <=> p \in 1 .. n \/ p = x
    OBVIOUS
  <2> QED
    BY <2>1 DEF BitsOf
<1> HIDE DEF S
<1>5. s \in Seq(S) /\ DOMAIN s = 1 .. Len(s)
  BY <1>1, <1>2, SetsInOrder
<1>6. InOrder(S \cup {x}) = Append(s, x)
  <2>1. \A i \in S : i < x
    BY <1>1
  <2> QED
    BY <1>1, <1>2, <2>1, GreatestIsLast
<1>7. MarkedOf(n) = [k \in DOMAIN s |-> features[s[k]]]
  BY DEF MarkedOf, S
<1> HIDE DEF s
<1>8. PICK m \in Nat : m = Len(s)
  BY <1>5, LenProperties
<1>9. DOMAIN s = 1 .. m /\ \A k \in 1 .. m : s[k] \in 1 .. x
  <2>1. \A k \in 1 .. m : s[k] \in S
    BY <1>5, <1>8
  <2>2. \A i \in S : i \in 1 .. x
    BY <1>1
  <2> QED
    BY <1>5, <1>8, <2>1, <2>2
<1>10. MarkedOf(n) \in [1 .. m -> Feature]
  BY <1>3, <1>7, <1>9
<1>11. MarkedOf(n) \in Seq(Feature) /\ Len(MarkedOf(n)) = m
  BY <1>8, <1>10
<1>12. CASE n \in mask
  <2> DEFINE t == Append(s, x)
  <2>1. DOMAIN t = 1 .. m + 1 /\ \A k \in 1 .. m + 1 : t[k] = IF k = m + 1 THEN x ELSE s[k]
    BY <1>5, <1>8
  <2>2. MarkedOf(x) = [k \in DOMAIN t |-> features[t[k]]]
    BY <1>4, <1>6, <1>12 DEF MarkedOf
  <2> HIDE DEF t
  <2>3. MarkedOf(x) = [k \in 1 .. m + 1 |-> IF k = m + 1 THEN features[x] ELSE features[s[k]]]
    BY <2>1, <2>2
  <2>4. Append(MarkedOf(n), features[x])
          = [k \in 1 .. m + 1 |-> IF k = m + 1 THEN features[x] ELSE MarkedOf(n)[k]]
    BY <1>11
  <2>5. \A k \in 1 .. m : MarkedOf(n)[k] = features[s[k]]
    BY <1>7, <1>9
  <2>6. MarkedOf(x) = Append(MarkedOf(n), features[x])
    BY <1>8, <2>3, <2>4, <2>5
  <2> QED
    BY <1>11, <1>12, <2>6
<1>13. CASE n \notin mask
  <2>1. MarkedOf(x) = MarkedOf(n)
    BY <1>4, <1>13 DEF MarkedOf, S
  <2> QED
    BY <1>11, <1>13, <2>1
<1> QED
  BY <1>12, <1>13

(* Nothing is listed of no features.                                        *)
LEMMA NothingMarked == MarkedOf(0) = <<>>
<1>1. BitsOf(0) = {}
  BY DEF BitsOf
<1>2. IsFiniteSet({}) /\ Cardinality({}) = 0
  BY FS_EmptySet
<1>3. InOrder({}) \in Seq({}) /\ DOMAIN InOrder({}) = 1 .. Len(InOrder({}))
  BY <1>2, SetsInOrder
<1>4. DOMAIN InOrder({}) = {}
  BY <1>3
<1>5. MarkedOf(0) = [k \in 1 .. 0 |-> features[InOrder({})[k]]]
  <2>1. DOMAIN InOrder({}) = 1 .. 0
    BY <1>4
  <2>2. MarkedOf(0) = [k \in DOMAIN InOrder({}) |-> features[InOrder({})[k]]]
    BY <1>1 DEF MarkedOf
  <2> QED
    BY <2>1, <2>2
<1> QED
  BY <1>5

(* Every round keeps what the loops have listed.                            *)
LEMMA NextRound ==
  ASSUME LoopsInv, [FeaturesNext]_featureVars PROVE LoopsInv'
<1>1. mask \in SUBSET Positions /\ WordBits \in Nat /\ MaskBits \in 0 .. WordBits
  BY BitsAssumption DEF LoopsInv, FeaturesTyped
<1>2. features \in Seq(Feature) /\ Len(features) \in Nat
  BY ListsAssumption DEF LoopsInv, FeaturesTyped
<1>3. \A n \in Nat : mask \cap Shifted(n) # {} <=> n \in mask
  BY <1>1 DEF Shifted
<1>4. \A n \in Nat : ShiftedUp(Shifted(n)) = Shifted(n + 1)
  BY <1>1 DEF Shifted, ShiftedUp, Positions
<1>5. CASE StringsRound
  <2>1. /\ index \in Nat /\ index < Len(features) /\ index < MaskBits /\ index' = index + 1
        /\ strings' = IF index \in mask THEN Append(strings, features[index + 1]) ELSE strings
        /\ UNCHANGED <<features, mask, walked, bit, array>>
    BY <1>1, <1>3, <1>5 DEF StringsRound, StringsWalk, Extended, LoopsInv, FeaturesTyped
  <2>2. strings' = MarkedOf(index + 1) /\ features[index + 1] \in Feature
    BY <1>2, <2>1, MarkedNext DEF LoopsInv
  <2>3. MarkedOf(index + 1) = MarkedOf(index)' /\ MarkedOf(walked)' = MarkedOf(walked)
    BY <2>1 DEF MarkedOf, BitsOf
  <2>4. strings' \in Seq(Feature)
    BY <2>1, <2>2, AppendProperties DEF LoopsInv, FeaturesTyped
  <2>5. FeaturesTyped'
    BY <1>1, <2>1, <2>4 DEF LoopsInv, FeaturesTyped, Positions
  <2>6. index' <= Len(features') /\ walked' <= Len(features') /\ bit' = Shifted(walked)'
    BY <1>2, <2>1 DEF LoopsInv, Shifted, Positions
  <2>7. strings' = MarkedOf(index)' /\ array' = MarkedOf(walked)'
    BY <2>1, <2>2, <2>3 DEF LoopsInv
  <2> QED
    BY <2>5, <2>6, <2>7 DEF LoopsInv
<1>6. CASE ArrayRound
  <2>0. walked \in Nat /\ bit = Shifted(walked)
    BY <1>1 DEF LoopsInv, FeaturesTyped
  <2>1. /\ walked \in Nat /\ walked < Len(features) /\ walked < MaskBits /\ walked' = walked + 1
        /\ array' = IF walked \in mask THEN Append(array, features[walked + 1]) ELSE array
        /\ bit' = Shifted(walked + 1)
        /\ UNCHANGED <<features, mask, index, strings>>
    BY <1>3, <1>4, <1>6, <2>0 DEF ArrayRound, ArrayWalk, Extended
  <2>2. array' = MarkedOf(walked + 1) /\ features[walked + 1] \in Feature
    BY <1>2, <2>1, MarkedNext DEF LoopsInv
  <2>3. MarkedOf(walked + 1) = MarkedOf(walked)' /\ MarkedOf(index)' = MarkedOf(index)
    BY <2>1 DEF MarkedOf, BitsOf
  <2>4. array' \in Seq(Feature)
    BY <2>1, <2>2, AppendProperties DEF LoopsInv, FeaturesTyped
  <2>5. FeaturesTyped'
    BY <1>1, <2>1, <2>4 DEF LoopsInv, FeaturesTyped, Positions, Shifted
  <2>6. index' <= Len(features') /\ walked' <= Len(features') /\ bit' = Shifted(walked)'
    BY <1>2, <2>1 DEF LoopsInv, Shifted, Positions
  <2>7. strings' = MarkedOf(index)' /\ array' = MarkedOf(walked)'
    BY <2>1, <2>2, <2>3 DEF LoopsInv
  <2> QED
    BY <2>5, <2>6, <2>7 DEF LoopsInv
<1>7. CASE UNCHANGED featureVars
  BY <1>7 DEF featureVars, LoopsInv, FeaturesTyped, MarkedOf, BitsOf, Positions, Shifted
<1> QED
  BY <1>5, <1>6, <1>7 DEF FeaturesNext

(* What the loops have listed is so in every state.                         *)
LEMMA LoopsInvariant == FeaturesSpec => []LoopsInv
<1>1. FeaturesInit => LoopsInv
  <2> SUFFICES ASSUME FeaturesInit PROVE LoopsInv
    OBVIOUS
  <2>1. features \in Seq(Feature) /\ Len(features) \in Nat
    BY ListsAssumption DEF FeaturesInit
  <2>2. WordBits \in Nat /\ MaskBits \in 0 .. WordBits /\ 0 \in 0 .. MaskBits
    BY BitsAssumption
  <2>3. <<>> \in Seq(Feature)
    OBVIOUS
  <2>4. FeaturesTyped
    BY <2>2, <2>3 DEF FeaturesInit, FeaturesTyped, Shifted
  <2> QED
    BY <2>1, <2>4, NothingMarked DEF FeaturesInit, LoopsInv
<1> QED
  BY <1>1, NextRound, PTL DEF FeaturesSpec

(* The loops never leave their ranges: no bit beyond the word is looked at. *)
THEOREM LoopsTyped == FeaturesSpec => []FeaturesTyped
<1>1. LoopsInv => FeaturesTyped
  BY DEF LoopsInv
<1> QED
  BY <1>1, LoopsInvariant, PTL

(* For any features and any mask, GETPROPROOMDAY and SEARCHAVAIL show the   *)
(* features whose bits are set, each once and in order.                     *)
THEOREM RateFeaturesAgree == FeaturesSpec => []FeaturesAgree
<1>1. LoopsInv => FeaturesAgree
  <2> SUFFICES ASSUME LoopsInv PROVE FeaturesAgree
    OBVIOUS
  <2>1. /\ DOMAIN features = 1 .. Len(features) /\ Len(features) \in Nat
        /\ MaskBits \in Nat /\ index \in 0 .. MaskBits /\ walked \in 0 .. MaskBits
    BY ListsAssumption, BitsAssumption DEF LoopsInv, FeaturesTyped
  <2>2. ASSUME NEW n \in 0 .. MaskBits, n <= Len(features), ~(n < MaskBits /\ n < Len(features))
        PROVE  MarkedOf(n) = Marked
    <3>1. BitsOf(n) = {p \in DOMAIN features : p <= MaskBits /\ p - 1 \in mask}
      BY <2>1, <2>2 DEF BitsOf
    <3> QED
      BY <3>1 DEF MarkedOf, Marked
  <2>3. ~StringsWalk => strings = Marked
    BY <2>1, <2>2 DEF StringsWalk, LoopsInv
  <2>4. ~ArrayWalk => array = Marked
    BY <2>1, <2>2 DEF ArrayWalk, LoopsInv
  <2> QED
    BY <2>3, <2>4 DEF FeaturesAgree
<1> QED
  BY <1>1, LoopsInvariant, PTL

-----------------------------------------------------------------------------
(* Types                                                                    *)

\* What TypeOK adds to the invariants above.
TypesInv ==
  /\ decoder \in Decoders
  /\ success \in BOOLEAN
  /\ tail \in {"unknown", "end", "scrap", "cut", "more"}
  /\ code \in Codes

(* No step of the gateway gives a variable a value of another type.         *)
LEMMA NextTyped ==
  ASSUME FrameInv, TypesInv, [GatewayNext]_gatewayVars PROVE TypesInv'
<1>1. CASE Dispatch
  <2>1. request \in Requests /\ Valid(request)
    BY <1>1 DEF Dispatch, Idle, FrameInv
  <2>2. ProcessorOf(request).decoder \in Decoders
    <3>1. CASE request.origin = "start"
      BY <3>1 DEF ProcessorOf, GetCodecs, Processor, Decoders
    <3>2. CASE request.origin # "start"
      BY <2>1, <3>2, ProcessorsNamed DEF ProcessorOf, Valid, Routed
    <3> QED
      BY <3>1, <3>2
  <2> QED
    BY <1>1, <2>2 DEF Dispatch, TypesInv
<1>2. CASE Refuse \/ CallRefused \/ ShowError
  <2>1. UNCHANGED <<decoder, success, tail>> /\ code' \in Codes
    BY <1>2 DEF Refuse, CallRefused, ShowError, ExecuteFails, ErrorReply, Respond, reply, Codes
  <2> QED
    BY <2>1 DEF TypesInv
<1>3. CASE Answered
  BY <1>3 DEF Answered, TypesInv
<1>4. CASE Begin \/ ReadOn
  <2>1. UNCHANGED <<decoder, success, tail>> /\ (code' \in Codes \/ UNCHANGED code)
    BY <1>4 DEF Begin, ReadOn, BeginReading, ReadField, Invalid, Show, Respond, reply, Codes
  <2> QED
    BY <2>1 DEF TypesInv
<1>5. CASE EndOfData \/ EndOfFields
  <2>1. /\ UNCHANGED <<decoder, success>> /\ code' \in Codes
        /\ tail' \in {"unknown", "end", "scrap", "cut", "more"}
    BY <1>5 DEF EndOfData, EndOfFields, DataEnds, AllRead, Invalid, Show, Respond, reply, Codes
  <2> QED
    BY <2>1 DEF TypesInv
<1>6. CASE Deliver \/ ClientGone \/ NewYear \/ UNCHANGED gatewayVars
  <2>1. UNCHANGED <<decoder, success, tail, code>>
    BY <1>6 DEF Deliver, ClientGone, NewYear, gatewayVars, vars, reply
  <2> QED
    BY <2>1 DEF TypesInv
<1> QED
  BY <1>1, <1>2, <1>3, <1>4, <1>5, <1>6 DEF GatewayNext

(* The variables keep their types: every status is one that rzgate has, and *)
(* every count and every field is one that a reply can carry.               *)
THEOREM GatewayTyped == GatewaySpec => []TypeOK
<1>1. GatewayInit => TypesInv
  <2> SUFFICES ASSUME GatewayInit PROVE TypesInv
    OBVIOUS
  <2>1. decoder = "simple" /\ tail = "unknown" /\ code = 0
    BY DEF GatewayInit
  <2>2. success \in BOOLEAN
    BY DEF GatewayInit
  <2> QED
    BY <2>1, <2>2 DEF TypesInv, Decoders, Codes
<1>2. GatewayInv /\ TypesInv /\ [GatewayNext]_gatewayVars => TypesInv'
  BY NextTyped DEF GatewayInv
<1>3. GatewayInit => ListInv
  BY DEF GatewayInit, ListInv, ListsWhatIsNamed
<1>4. GatewayInv /\ ListInv /\ [GatewayNext]_gatewayVars => ListInv'
  BY NextLists DEF GatewayInv
<1>5. GatewayInv /\ TypesInv /\ ListInv => TypeOK
  BY DEF GatewayInv, ReadingInv, CallInv, TypesInv, ListInv, TypeOK, Verdicts
<1> QED
  BY <1>1, <1>2, <1>3, <1>4, <1>5, Invariant, PTL DEF GatewaySpec
=============================================================================
