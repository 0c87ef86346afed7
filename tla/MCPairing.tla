----------------------------- MODULE MCPairing ------------------------------
(* Two pairing sessions, two entries of a code, two token slots.  Three    *)
(* mints leave one to another host.                                        *)
EXTENDS Pairing
=============================================================================
