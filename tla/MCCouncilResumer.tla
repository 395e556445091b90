--------------------------- MODULE MCCouncilResumer ---------------------------
(* Two processes of one platform: as in the code, both write the same holder   *)
(* id, "resumer@" and the platform's name, into the lease.                     *)
EXTENDS CouncilResumer

SameHolder == [c \in Clients |-> CHOOSE h \in HolderIds : TRUE]
=============================================================================
