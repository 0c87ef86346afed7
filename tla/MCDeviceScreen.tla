--------------------------- MODULE MCDeviceScreen ---------------------------
(* Every page of the device, jumps between two of them, frames with empty, *)
(* short and overlong lists, a few looks, and elements hidden before.      *)
EXTENDS DeviceScreen

MCFrames == {[n |-> 1, rich |-> TRUE], [n |-> 9, rich |-> TRUE]}

MCEarlier == {<<"ai.claude", "tips.top_cpu">>}

MCLooks == {[Factory EXCEPT !.title = FALSE], [Factory EXCEPT !.rotation = 1, !.scale = 0]}
=============================================================================
