------------------------------- MODULE MCPic -------------------------------
(* Instances of Pic for TLC: who raises which line, and what the guest     *)
(* program writes to each controller.                                      *)
EXTENDS Pic

\* fully nested: two devices beside the cascade, two on the slave
NestedDevices == [master |-> {0, 3}, slave |-> {0, 1}]
NestedOps == [master |-> {"mask", "eoi"},
              slave  |-> {"mask", "eoi", "specific eoi"}]
NestedMasks == {{}, {0}, {2}}

\* every command on the master, special mask on the slave
ModesDevices == [master |-> {0, 1}, slave |-> {0}]
ModesOps == [master |-> Ops, slave  |-> {"special", "eoi"}]
ModesMasks == {{}, {0}}

\* the only special mode is auto-EOI, on the master
AutoEoiOps == [master |-> {"icw", "auto eoi", "eoi"}, slave |-> {"eoi"}]

\* a card configured for IRQ 2 (Sound Blaster mixer register 80h, Ultrasound)
Irq2Devices == [master |-> {0, Cascade}, slave |-> {0}]
EoiOnly == [chip \in Chips |-> {"eoi"}]

\* ICW1 of a PC (cascaded, ICW4 follows), of a lone 8259, of one without ICW4
PcInit == {[single |-> FALSE, icw4 |-> TRUE]}
AnyInit == [single : BOOLEAN, icw4 : BOOLEAN]
=============================================================================
