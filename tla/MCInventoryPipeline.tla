---- MODULE MCInventoryPipeline ----
(* Instances of InventoryPipeline for TLC. *)
EXTENDS InventoryPipeline, TLC

CONSTANTS ram1, ram1b, ram2, ram3, twin1, twin2, disk1, disk2, bare, pc, lab

(* Modules in slot A or B, ram1b being ram1 put into the other slot and ram3 *)
(* one that gives the same slot as ram2; twins, of one model and size but    *)
(* different makers, without serial number and slot; disks without a slot;   *)
(* and a part nothing is known about.                                        *)
PartKeys == (ram1 :> "k1" @@ ram1b :> "k1" @@ ram2 :> "k2" @@ ram3 :> "k5"
             @@ twin1 :> "k6" @@ twin2 :> "k6"
             @@ disk1 :> "k3" @@ disk2 :> "k4" @@ bare :> Nothing)
PartSlots == (ram1 :> "A" @@ ram1b :> "B" @@ ram2 :> "A" @@ ram3 :> "A"
              @@ twin1 :> Nothing @@ twin2 :> Nothing
              @@ disk1 :> Nothing @@ disk2 :> Nothing @@ bare :> Nothing)

Says(parts, complete, host, serial) ==
    [parts |-> parts, complete |-> complete, host |-> host, serial |-> serial]

(* A computer with twins; two modules that give the slot of the one they     *)
(* replaced, and a twin gone; a module moved and a disk replaced, on a       *)
(* renamed computer; a disk gone and a bare part come, with another          *)
(* mainboard; and a partial inventory.                                       *)
SomeInventories ==
    {Says({ram1, disk1, twin1, twin2}, TRUE, pc, 1),
     Says({ram2, ram3, disk1, twin1}, TRUE, pc, 1),
     Says({ram1b, disk2}, TRUE, lab, 1), Says({ram1, bare}, TRUE, pc, 2),
     Says({ram1}, FALSE, pc, 1)}

(* One part that comes and goes.                                             *)
FewInventories ==
    {Says({}, TRUE, pc, 1), Says({ram1}, TRUE, pc, 1), Says({ram1}, TRUE, lab, 2),
     Says({}, FALSE, pc, 1)}
====
