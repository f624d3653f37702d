---------------------------- MODULE MC_BundleStore ----------------------------
(* Two writing nodes and a reader, for model checking BundleStore on the     *)
(* back end of the configuration file and on an SMB share, which may leave a *)
(* torn pointer; the initial state chooses one.                              *)
EXTENDS BundleStore

CONSTANTS n1, n2

HashRanks == [w \in Writer |-> IF w = n1 THEN 1 ELSE 2]

VARIABLE share

Smb == INSTANCE BundleStore WITH Backend <- "smb"

MCInit == Init /\ share \in {Backend, "smb"}

MCNext ==
    /\ \/ share = Backend /\ Next
       \/ share = "smb" /\ Smb!Next
    /\ UNCHANGED share

MCSpec == MCInit /\ [][MCNext]_<<vars, share>>

=============================================================================
