------------------------------- MODULE DiskMC -------------------------------
(* Instances of Disk for TLC.                                              *)
EXTENDS Disk

None == [kind |-> "none", start |-> 0, logical |-> <<>>]
Primary(at) == [kind |-> "primary", start |-> at, logical |-> <<>>]
Extended(at, l) == [kind |-> "extended", start |-> at, logical |-> l]
At(t, b) == [table |-> t, start |-> b]

(* Two plain partitions; then, as on the image, the root device hd2a in an *)
(* extended one, here with two more behind it; then one with a partition    *)
(* more than are kept.                                                     *)
SomeDrives ==
  { <<Primary(2), None>>,
    <<Primary(2), Extended(10, <<At(10, 11), At(20, 22), At(25, 26)>>)>>,
    <<Extended(4, <<At(4, 6), At(9, 10), At(14, 16), At(20, 21)>>), Extended(30, <<At(30, 31)>>)>> }
=============================================================================
