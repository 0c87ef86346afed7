---------------------------- MODULE MCPageCycle -----------------------------
(* Four pages, of which 1 is deprecated as the System page is.  Orders are *)
(* those the Pages pane sends (every page but the deprecated one, or none) *)
(* and the form of protocol.md, which lists the deprecated id.             *)
EXTENDS PageCycle

MCMasks     == {{}, {1}, {2, 3}, {0, 1, 2, 3}}
MCOrders    == {<<>>, <<3, 2, 0>>, <<0, 2, 1, 3>>}
MCIntervals == {1, 4}
MCStored    == {Defaults, [Defaults EXCEPT !.mask = {1, 2, 3}, !.interval = 9]}
=============================================================================
