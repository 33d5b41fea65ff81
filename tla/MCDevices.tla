----------------------------- MODULE MCDevices ------------------------------
(* Model checking of the device drivers and of address spaces.  A          *)
(* behaviour runs one of them and leaves the others as they begin: their   *)
(* data are their own, and what they share, the states of tasks and the    *)
(* keys of the two keyboards, is in each module that uses it.              *)
EXTENDS Xhci, MCFat, Disk, MCAml, MCVmm, Keyboard, Mouse

VARIABLE part  \* the module that runs

rest == <<xhciVars, fatVars, diskVars, amlVars, vmmVars, keyboardVars, mouseVars>>

MCAttached == << <<"kbd", "msc">>, <<"msc", "none">> >>

MCInit ==
  /\ part \in {"xhci", "fat", "disk", "aml", "vmm", "keyboard", "mouse"}
  /\ IF part # "fat" THEN img = Blank ELSE TRUE
  /\ IF part # "aml" THEN firmware = NoFirmware ELSE TRUE
  /\ IF part # "mouse" THEN g_intellimouse = FALSE ELSE TRUE
  /\ XhciInit /\ FatInit /\ DiskInit /\ AmlInit /\ VmmInit /\ KeyboardInit /\ MouseInit

MCNext ==
  /\ UNCHANGED part
  /\ \/ part = "xhci" /\ XhciNext /\ UNCHANGED <<fatVars, diskVars, amlVars, vmmVars, keyboardVars, mouseVars>>
     \/ part = "fat" /\ FatNext /\ UNCHANGED <<xhciVars, diskVars, amlVars, vmmVars, keyboardVars, mouseVars>>
     \/ part = "disk" /\ DiskNext /\ UNCHANGED <<xhciVars, fatVars, amlVars, vmmVars, keyboardVars, mouseVars>>
     \/ part = "aml" /\ AmlNext /\ UNCHANGED <<xhciVars, fatVars, diskVars, vmmVars, keyboardVars, mouseVars>>
     \/ part = "vmm" /\ VmmNext /\ UNCHANGED <<xhciVars, fatVars, diskVars, amlVars, keyboardVars, mouseVars>>
     \/ part = "keyboard" /\ ~raced /\ KeyboardNext /\ UNCHANGED <<xhciVars, fatVars, diskVars, amlVars, vmmVars, mouseVars>>
     \/ part = "mouse" /\ MouseNext /\ UNCHANGED <<xhciVars, fatVars, diskVars, amlVars, vmmVars, keyboardVars>>

MCSpec == MCInit /\ [][MCNext]_<<part, rest>>
=============================================================================
