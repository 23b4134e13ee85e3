--------------------------- MODULE ImageOwnership ---------------------------
(***************************************************************************)
(* What the board promises of /opt/kvm/storage.img: the disk image has at  *)
(* most one owner.  The target owns it while the gadget exposes it; the    *)
(* board may take it only when nobody owns it, and gives it back before    *)
(* the target sees it again.                                               *)
(***************************************************************************)
VARIABLE owner

OwnerInit == owner = "none"

Expose == owner = "none"   /\ owner' = "target"
Detach == owner = "target" /\ owner' = "none"
Mount  == owner = "none"   /\ owner' = "board"
Unmount == owner = "board" /\ owner' = "none"

OwnerNext == Expose \/ Detach \/ Mount \/ Unmount

OwnerSpec == OwnerInit /\ [][OwnerNext]_owner
=============================================================================
