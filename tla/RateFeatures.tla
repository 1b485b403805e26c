---------------------------- MODULE RateFeatures ----------------------------
(***************************************************************************)
(* The two converters of rate masks in src/src/helper.rs:                  *)
(* bitmask_to_rate_feature_strings, for GETPROPROOMDAY, and                *)
(* write_rate_features_array, for SEARCHAVAIL.  Each is a loop over the    *)
(* rate features of bitmask.rs, with a way of its own to come to the next  *)
(* bit.  Both run here on the same mask, a round of either at a time.      *)
(*                                                                         *)
(* A u32 is the set of its bits that are one, counted from zero: & is \cap *)
(* and << moves every bit up, the highest ones out of the word.  The       *)
(* features are there: CodecsBeforeRequests of module Startup.  How they   *)
(* are quoted and separated is left out.                                   *)
(***************************************************************************)
EXTENDS Ordering

CONSTANTS
  Feature,       \* names of rate features
  FeatureLists,  \* lists of them that a backend may give as its codecs
  WordBits,      \* bits of a u32; 32 in the code
  MaskBits       \* bits of a mask that are looked at; 24 in the code

ASSUME ListsAssumption == FeatureLists \subseteq Seq(Feature)
ASSUME BitsAssumption == WordBits \in Nat /\ MaskBits \in 0 .. WordBits

Positions == 0 .. WordBits - 1

VARIABLES
  features,  \* RATE_FEATURES
  mask,      \* what the reply holds
  index,     \* i of the first loop
  strings,   \* its list
  walked,    \* the features that the second loop has been through
  bit,       \* its bit
  array      \* its list

featureVars == <<features, mask, index, strings, walked, bit, array>>

FeaturesTyped ==
  /\ features \in FeatureLists
  /\ mask \in SUBSET Positions
  /\ index \in 0 .. MaskBits /\ strings \in Seq(Feature)
  /\ walked \in 0 .. MaskBits /\ array \in Seq(Feature)
  /\ bit \in SUBSET Positions

-----------------------------------------------------------------------------
\* 1 << n, and n << 1.
Shifted(n) == {n} \cap Positions
ShiftedUp(word) == {b + 1 : b \in word} \cap Positions

FeaturesInit ==
  /\ features \in FeatureLists
  /\ mask \in SUBSET Positions
  /\ index = 0 /\ strings = <<>>
  /\ walked = 0 /\ bit = Shifted(0) /\ array = <<>>

\* What a round makes of a list: the feature is added if its bit is set.
Extended(list, feature, test) ==
  IF mask \cap test # {} THEN Append(list, feature) ELSE list

\* Variant: a range that includes its end.
StringsWalkFar == index <= MaskBits /\ index < Len(features)

\* for i in 0..24, with a break at the end of the features.
StringsWalk == index < MaskBits /\ index < Len(features)

StringsRound ==
  /\ StringsWalk
  /\ strings' = Extended(strings, features[index + 1], Shifted(index))
  /\ index' = index + 1
  /\ UNCHANGED <<features, mask, walked, bit, array>>

\* for feature in features.iter().take(24)
ArrayWalk == walked < Len(features) /\ walked < MaskBits

\* Variant: the bit moves up only when a feature was written.
ArrayRoundStalls ==
  /\ ArrayWalk
  /\ array' = Extended(array, features[walked + 1], bit)
  /\ bit' = IF mask \cap bit # {} THEN ShiftedUp(bit) ELSE bit
  /\ walked' = walked + 1
  /\ UNCHANGED <<features, mask, index, strings>>

ArrayRound ==
  /\ ArrayWalk
  /\ array' = Extended(array, features[walked + 1], bit)
  /\ bit' = ShiftedUp(bit)
  /\ walked' = walked + 1
  /\ UNCHANGED <<features, mask, index, strings>>

FeaturesNext == StringsRound \/ ArrayRound

FeaturesSpec == FeaturesInit /\ [][FeaturesNext]_featureVars

-----------------------------------------------------------------------------
\* The features whose bits are set in the mask, in the order of the codecs.
Marked ==
  LET set == InOrder({p \in DOMAIN features : p <= MaskBits /\ p - 1 \in mask})
  IN  [k \in DOMAIN set |-> features[set[k]]]

(* A mask means the same features whichever command shows it: both loops    *)
(* end with the features whose bits are set, each once, in the order of the *)
(* codecs, also when there are more features than bits or fewer, and when   *)
(* the mask has bits that stand for no feature.                             *)
FeaturesAgree ==
  /\ ~StringsWalk => strings = Marked
  /\ ~ArrayWalk => array = Marked
=============================================================================
