------------------------ MODULE ProcessAndTabProofs ------------------------
(***************************************************************************)
(* What the process and the tab keep, each in its memory, they keep beside *)
(* each other: a step of the whole is one of a single part, or a stutter   *)
(* of it, so that whatever is proved of a part holds of the whole.         *)
(***************************************************************************)
EXTENDS MCProcessAndTab, ProcessMemoryProofs, AccountPrefsProofs, PreviewFlowProofs

(* Every part behaves as it does alone. *)
THEOREM EachPartAlone == Spec => LimitsSpec /\ SlotsSpec /\ RoomSpec /\ PrefsSpec /\ PreviewSpec
  <1>1. Init => LimitsInit /\ SlotsInit /\ RoomInit /\ PrefsInit /\ PreviewInit
    BY DEF Init
  <1>2. ASSUME [Next]_partVars
        PROVE  /\ [LimitsNext]_limitVars /\ [SlotsNext]_slotVars /\ [RoomNext]_roomVars
               /\ [PrefsNext]_prefVars /\ [PreviewNext]_previewVars
    <2>1. CASE Limits
      BY <2>1 DEF Limits
    <2>2. CASE Slot
      BY <2>2 DEF Slot
    <2>3. CASE Room
      BY <2>3 DEF Room
    <2>4. CASE Prefers
      BY <2>4 DEF Prefers
    <2>5. CASE Previews
      BY <2>5 DEF Previews
    <2>6. CASE UNCHANGED partVars
      BY <2>6 DEF partVars
    <2>7. QED
      BY <1>2, <2>1, <2>2, <2>3, <2>4, <2>5, <2>6 DEF Next
  <1>3. QED
    BY <1>1, <1>2, PTL DEF Spec, LimitsSpec, SlotsSpec, RoomSpec, PrefsSpec, PreviewSpec

(* rate-limit.ts, slots.ts, snapshots.ts, account-prefs.ts and preview-flow.ts: every part keeps to its types, so that
   no count goes below nothing, no room beyond the total, and nothing is both set and removed. *)
THEOREM PartsKeepTypes == Spec => []PartsTypeOK
  <1>1. LimitsInv => LimitsTypeOK
    BY DEF LimitsInv
  <1>2. SlotsInv => SlotsTypeOK
    BY DEF SlotsInv
  <1>3. SlotsSpec => []SlotsInv
    BY InitSlots, NextSlots, PTL DEF SlotsSpec
  <1>4. LimitsTypeOK /\ SlotsTypeOK /\ RoomTypeOK /\ PrefsTypeOK /\ PreviewTypeOK => PartsTypeOK
    BY DEF PartsTypeOK
  <1>5. QED
    BY <1>1, <1>2, <1>3, <1>4, EachPartAlone, LimitsInvariance, RoomIsKept, PrefsKeepTypes, PreviewTypes, PTL
=============================================================================
