-------------------------- MODULE MCDecryptShmem --------------------------
(***************************************************************************)
(* Instances of DecryptShmem for TLC.  Blocks are interchangeable, and so  *)
(* are the channels where none of them is singled out by a constant.       *)
(***************************************************************************)
EXTENDS DecryptShmem, TLC

BlocksAlike == Permutations(Block)
AllAlike == BlocksAlike \cup Permutations(Worker)
=============================================================================
