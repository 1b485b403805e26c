------------------------------- MODULE MCGateway -------------------------------
(***************************************************************************)
(* An instance of Gateway for TLC: the requests that come in, and the      *)
(* functions of Conversions on small inputs.  RateFeatures is composed     *)
(* with it: the names of the features are those that the request of lib.rs *)
(* for them has brought, and masks are converted once it has.              *)
(***************************************************************************)
EXTENDS Gateway, RateFeatures

CONSTANTS breakfast, refundable, member, flexible

Text5 == [kind |-> "text", v |-> 5]

\* A value that passes the test of a row.
Sound(row) ==
  CASE row.test \in {"text", "string"} -> Text5
    [] row.test \in {"texts", "any"}   -> [kind |-> "list", v |-> 2]
    [] row.test = "stars"              -> [kind |-> "num", v |-> 4]
    [] row.test \in {"lat", "real"}    -> [kind |-> "real", v |-> 25]
    [] row.test = "lon"                -> [kind |-> "real", v |-> 120]
    [] OTHER                           -> [kind |-> "num", v |-> 7]

\* Values around the bounds of the tests, and of the wrong kinds.
Values ==
  [kind : {"num"}, v : {0, 1, 5, 6, 255, 256, Word + 5}]
  \cup [kind : {"real"}, v : {-91, -90, 90, 91, 180, 181}]
  \cup [kind : {"text"}, v : {0, 5}] \cup [kind : {"list", "mixed"}, v : {0, 2}]
  \cup [kind : {"null", "other"}, v : {0}]

NamesOf(cmd) ==
  {Process[cmd].rows[i].name : i \in DOMAIN Process[cmd].rows}
  \cup {Documented[cmd].names[i] : i \in DOMAIN Documented[cmd].names}

RowNamed(cmd, name) ==
  IF \E i \in DOMAIN Process[cmd].rows : Process[cmd].rows[i].name = name
  THEN Process[cmd].rows[CHOOSE i \in DOMAIN Process[cmd].rows : Process[cmd].rows[i].name = name]
  ELSE May(name, "string")

Full(cmd) == [name \in NamesOf(cmd) |-> Sound(RowNamed(cmd, name))]

\* All the fields of a command, one of them omitted and one with any value.
Bodies(cmd) ==
  LET full == Full(cmd)
      names == NamesOf(cmd)
  IN  {[object |-> TRUE, fields |-> [full EXCEPT ![a] = Null, ![b] = x]] :
         a, b \in names, x \in Values}
      \cup {[object |-> TRUE, fields |-> full], [object |-> FALSE, fields |-> <<>>]}

FromClient(json, command, segment, body) ==
  [origin |-> "client", json |-> json, command |-> command, segment |-> segment, body |-> body]

Segments == [kind : {"text"}, v : {0, 5, Byte - 1, Byte}] \cup {Null, [kind |-> "num", v |-> 5]}

AnyBody == [object |-> TRUE, fields |-> <<>>]

AllRequests ==
  UNION {{FromClient(TRUE, cmd, Text5, body) : body \in Bodies(cmd)} : cmd \in DOMAIN Process}
  \cup {FromClient(TRUE, cmd, segment, [object |-> TRUE, fields |-> Full(cmd)]) :
          cmd \in DOMAIN Process, segment \in Segments}
  \cup {FromClient(FALSE, "SETPROP", Text5, AnyBody), FromClient(TRUE, "none", Text5, AnyBody),
        [origin |-> "start"]}

Days == {<<PackYear, 1, 1>>, <<PackYear, 12, 31>>, <<PackYear + 1, 2, 29>>, <<PackYear + 5, 2, 29>>,
         <<PackYear + 4, 4, 30>>, <<PackYear + 7, 2, 28>>}

\* Short ids of every length; the seventh byte of one may look like a version.
TextsToFifteen == {[i \in 1 .. n |-> IF i = k THEN 112 ELSE 31 + i] : n \in 0 .. 15, k \in 0 .. 15}

\* Ids that are cut short, that have zeros, or that are of any version.
IdsToSeventeen ==
  {[i \in 1 .. n |-> IF i = 7 THEN seventh ELSE IF i = zero THEN 0 ELSE 60 + i] :
     n \in {0, 6, 7, 8, 15, 16, 17}, seventh \in {0, 16, 96, 112, 128, 240, 241}, zero \in 0 .. 17}

\* The request bodies of README.md with all their fields, and no others.
AsDocumented(cmd) ==
  FromClient(TRUE, cmd, Text5,
    [object |-> TRUE,
     fields |-> [name \in {Documented[cmd].names[i] : i \in DOMAIN Documented[cmd].names} |->
                   Sound(RowNamed(cmd, name))]])

DocumentedRequests == {AsDocumented(cmd) : cmd \in DOMAIN Process}
OneSearch == {AsDocumented("SEARCHPROP")}

\* As many features as bits that are looked at, fewer and more, one name twice.
MCFeature == {breakfast, refundable, member, flexible}
MCLists ==
  {<<>>, <<breakfast>>, <<refundable, breakfast, refundable>>,
   <<breakfast, member, flexible, refundable>>,
   <<member, breakfast, flexible, refundable, breakfast>>}

-----------------------------------------------------------------------------
HaveFeatures == decoder = "codecs" /\ verdict = "shown"

MCInit ==
  /\ GatewayInit
  /\ FeaturesInit
  /\ request.origin # "start" => features = <<>> /\ mask = {}

MCNext ==
  \/ GatewayNext /\ UNCHANGED featureVars
  \/ HaveFeatures /\ FeaturesNext /\ UNCHANGED gatewayVars

MCSpec == MCInit /\ [][MCNext]_<<gatewayVars, featureVars>>
=============================================================================
