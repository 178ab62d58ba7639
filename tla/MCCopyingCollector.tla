------------------------- MODULE MCCopyingCollector -------------------------
(***************************************************************************)
(* CopyingCollector for TLC: every heap of three objects, each with an     *)
(* inherited reference, one inside a struct and one of its own, under      *)
(* every choice of two slots and of the objects that native code refers    *)
(* to, with a static field of either kind.                                 *)
(***************************************************************************)
EXTENDS CopyingCollector

MCFieldKinds == <<"inherited", "struct", "object">>
MCSlotKinds == <<"object", "struct", "object">>
=============================================================================
