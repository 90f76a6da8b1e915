-------------------------- MODULE MCProcessAndTab --------------------------
(* Small instances for TLC of what one API process counts in its memory, and of what one browser tab keeps. They *)
(* share nothing, so a behaviour is one of a single part. *)
EXTENDS LoginLimits, ImportSlots, SnapshotRoom, AccountPrefs, MCPreviewFlow

VARIABLE part

partVars == <<limitVars, slotVars, roomVars, prefVars, previewVars, part>>

Init ==
    /\ LimitsInit /\ SlotsInit /\ RoomInit /\ PrefsInit /\ PreviewInit
    /\ part \in {"limits", "slots", "room", "prefs", "preview"}

Limits == part = "limits" /\ LimitsNext /\ UNCHANGED <<slotVars, roomVars, prefVars, previewVars, part>>
Slot == part = "slots" /\ SlotsNext /\ UNCHANGED <<limitVars, roomVars, prefVars, previewVars, part>>
Room == part = "room" /\ RoomNext /\ UNCHANGED <<limitVars, slotVars, prefVars, previewVars, part>>
Prefers == part = "prefs" /\ PrefsNext /\ UNCHANGED <<limitVars, slotVars, roomVars, previewVars, part>>
Previews == part = "preview" /\ PreviewNext /\ UNCHANGED <<limitVars, slotVars, roomVars, prefVars, part>>

Next == Limits \/ Slot \/ Room \/ Prefers \/ Previews
Spec == Init /\ [][Next]_partVars
LiveSpec == Spec /\ SlotsFairness /\ PreviewFairness

\* Every part keeps to its types: no count below nothing, no room beyond the total, nothing both set and removed.
PartsTypeOK == LimitsTypeOK /\ SlotsTypeOK /\ RoomTypeOK /\ PrefsTypeOK /\ PreviewTypeOK
=============================================================================
