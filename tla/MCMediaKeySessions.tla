------------------------ MODULE MCMediaKeySessions ------------------------
(***************************************************************************)
(* Instances of MediaKeySessions for TLC.  Browsers, addresses and callback *)
(* slots are interchangeable, so the runs that check only invariants use    *)
(* their permutations as symmetry.                                          *)
(***************************************************************************)
EXTENDS MediaKeySessions, TLC

AddrAndSlot == Permutations(Addr) \cup Permutations(Slot)
AllAlike == AddrAndSlot \cup Permutations(Client)
=============================================================================
