---------------------------- MODULE MCSupervisor ----------------------------
(* Three processes may live or lie unreported at once; two transport modes *)
(* stand for the three.                                                    *)
EXTENDS Supervisor
=============================================================================
