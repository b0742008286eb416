----------------------------- MODULE PartsProofs -----------------------------
(***************************************************************************)
(* What is proved of each part holds in the specification that has them    *)
(* all: the run of the parts and the theorems about them are about the     *)
(* same behaviours.                                                        *)
(***************************************************************************)
EXTENDS Parts, ClientProofs, SharedProofs, HeapProofs, ProtocolProofs

\* A step of one part is a step of it, or leaves it as it is.
LEMMA StepsOfParts ==
  ASSUME [Next]_parts
  PROVE  /\ [WNext]_wVars /\ [FNext]_fVars /\ [TNext]_tVars /\ [BNext]_bVars
         /\ [ANext]_aVars /\ [LNext]_lVars /\ [PNext]_pVars /\ [RNext]_rVars
BY DEF Next, parts

\* A behaviour of the parts is one of each part.
LEMMA EachPart ==
  Spec => WSpec /\ FSpec /\ TSpec /\ BSpec /\ ASpec /\ LSpec /\ PSpec /\ RSpec
<1>1. Init => /\ WInit /\ FInit /\ TInit /\ BInit /\ AInit /\ LInit /\ PInit /\ RInit
  BY DEF Init
<1> QED
  BY <1>1, StepsOfParts, PTL DEF Spec, WSpec, FSpec, TSpec, BSpec, ASpec, LSpec, PSpec, RSpec

\* The variables of every part keep their types, whatever the constants of the parts;
\* those of Framing while no SSL_read returns -1, as none does in the run, whose records
\* arrive whole (WholeRecordsAreRead).
THEOREM PartsTypes == Spec /\ [][~FReadFails]_fVars => []PartsTypeOK
<1>1. /\ WTypeOK /\ FTypeOK /\ TTypeOK /\ BTypeOK /\ ATypeOK /\ LTypeOK /\ PTypeOK /\ RTypeOK
      => PartsTypeOK
  BY DEF PartsTypeOK
<1>2. FSpec /\ [][~FReadFails]_fVars => []FTypeOK
  BY FramingTypes, PTL
<1> QED
  BY <1>1, <1>2, EachPart, WireTypes, TimerTypes, BalancerTypes, SignInTypes, LogTypes,
     PoolTypes, ReactorTypes, PTL
=============================================================================
