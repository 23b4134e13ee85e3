------------------------------ MODULE MCGadget ------------------------------
(***************************************************************************)
(* The gadget of kvm_hid.py's main(): one configuration, the HID function  *)
(* in its own process, the mass storage function in the kernel.            *)
(***************************************************************************)
EXTENDS Gadget

KvmLayout == <<"g", "g/0x409", "c.1", "c.1/0x409", "ffs.usb0", "mass_storage.usb1">>
KvmKind ==
    [d \in {KvmLayout[k] : k \in 1 .. 6} |->
        CASE d = "g" -> "gadget"
          [] d \in {"g/0x409", "c.1/0x409"} -> "lang"
          [] d = "c.1" -> "config"
          [] d = "ffs.usb0" -> "ffs"
          [] OTHER -> "kernel"]
KvmParent ==
    [d \in {KvmLayout[k] : k \in 1 .. 6} |-> IF d = "c.1/0x409" THEN "c.1" ELSE "g"]
KvmConfig == [f \in {"ffs.usb0", "mass_storage.usb1"} |-> "c.1"]
=============================================================================
