---------------------------- MODULE MCAudioRoute ----------------------------
(* Two paths, nested or not, over an integer control of two values, an enum,   *)
(* and a byte control of any length up to two.  The values of the byte control *)
(* differ in their first byte: a prefix of the last value is not sent.         *)
EXTENDS AudioRoute, TLC

CONSTANTS int, enum, tlv
MCControls == {int, enum, tlv}
MCKind == (int :> "int") @@ (enum :> "enum") @@ (tlv :> "tlv")
MCNumValues == (int :> 2) @@ (enum :> 1) @@ (tlv :> 2)
MCMixerStart == (int :> <<0, 1>>) @@ (enum :> <<0>>) @@ (tlv :> <<0, 1>>)
MCCtlTags == {[ctl |-> int,  index |-> 0, values |-> <<1, 1>>],
              [ctl |-> int,  index |-> 2, values |-> <<2>>],
              [ctl |-> enum, index |-> 0, values |-> <<1>>],
              [ctl |-> enum, index |-> 2, values |-> <<1>>],
              [ctl |-> tlv,  index |-> 0, values |-> <<1>>],
              [ctl |-> tlv,  index |-> 0, values |-> <<2, 1>>]}
=============================================================================
