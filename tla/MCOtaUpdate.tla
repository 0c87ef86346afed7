---------------------------- MODULE MCOtaUpdate -----------------------------
(* Two attempts at a two-block image, so that an attempt can meet what the *)
(* one before it left on the device, in the queue and on the link.         *)
EXTENDS OtaUpdate

CONSTANTS b1, b2, t1, t2

MCBlocks  == {b1, b2}
MCFactory == <<b2>>
MCNew     == <<b1, b2>>
MCImages  == {MCFactory, MCNew}
MCBoots   == {MCFactory, MCNew}
MCTasks   == {t1, t2}
MCRelease == [t \in MCTasks |-> MCNew]
=============================================================================
