----------------------------- MODULE MCSyncCopy -----------------------------
(***************************************************************************)
(* A small copy: one entity in each family, and room for one message in    *)
(* each queue and in the buffer.                                           *)
(***************************************************************************)
EXTENDS SyncCopy

CONSTANTS lamp, song, device, playback

MCFamilyOf == [e \in Entities |-> IF e = lamp THEN device ELSE playback]
=============================================================================
