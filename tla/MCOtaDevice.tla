---------------------------- MODULE MCOtaDevice -----------------------------
(* OtaDevice on two block contents and five images: the factory image, one *)
(* good and one bad update, an empty download and one that does not fit.   *)
EXTENDS OtaDevice

CONSTANTS b1, b2

MCBlocks  == {b1, b2}
MCFactory == <<b1>>
MCGood    == <<b1, b2>>
MCBad     == <<b2, b1>>
MCImages  == {MCFactory, MCGood, MCBad, <<>>, <<b1, b1, b1>>}
MCBoots   == {MCFactory, MCGood}
=============================================================================
