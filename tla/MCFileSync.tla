----------------------------- MODULE MCFileSync -----------------------------
(* Values for checking FileSync: a machine with a template and two disks.  *)
(* Template 300 does not exist, and no intent expresses "efi".             *)
EXTENDS FileSync

MCLiterals ==
  [name |-> {Name, "other"}, protection |-> {"true", "false"}, bios |-> {"", "ovmf", "efi"},
   started |-> {"true", "false"}, cores |-> {1, 2}, vm_id |-> {100, 200, 300},
   interface |-> {2, 3}, size |-> {1, 2}, node_name |-> {"n1"}, ssd |-> {"true", "false"}]

MCTemplates == [t1 |-> 100, t2 |-> 200]

MCFirst ==
  [vm |-> <<[name |-> Name, protection |-> None, bios |-> "", started |-> "running"]>>,
   cpu |-> <<[cores |-> 1]>>, clone |-> <<[vm_id |-> "t1"]>>,
   disk |-> <<[size |-> 1, ssd |-> "false"], [size |-> 1, ssd |-> "false"]>>]
=============================================================================
