------------------------ MODULE MCStorageAuthority ------------------------
(***************************************************************************)
(* Two pid slots and two leases on a filesystem of four blocks and two     *)
(* inodes: enough for two writers to compete for the last block, for a pid *)
(* to be reused while its old lease is still in state.json, and for other  *)
(* users to take more than the headroom.                                   *)
(***************************************************************************)
EXTENDS StorageAuthority

MCCapacity == [bytes |-> 4, inodes |-> 2]
MCHeadroom == [k \in Kind |-> 1]
MCDemand == {[bytes |-> 1, inodes |-> 1], [bytes |-> 2, inodes |-> 0]}
MCMaxForeign == [bytes |-> 2, inodes |-> 0]
===========================================================================
