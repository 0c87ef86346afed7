---------------------------- MODULE MCPetInstall ----------------------------
(* Two installs of two pets of two blocks; the slug of the second is longer *)
(* than what the device keeps of it.                                       *)
EXTENDS PetInstall

CONSTANTS t1, t2

MCTasks == {t1, t2}
MCPets  == {"p", "q"}
MCNames == {"p", "q", "k"}
MCKept  == [n \in MCNames |-> IF n = "q" THEN "k" ELSE n]
MCSize  == [p \in MCPets |-> 2]
MCSlugs == [pet : MCPets, url : {FALSE}]
MCAsks  == [pet : {"p"}, url : BOOLEAN]
=============================================================================
