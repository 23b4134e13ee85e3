-------------------------------- MODULE Wire --------------------------------
(***************************************************************************)
(* The UDP path between the preview application (PC1) and the board: the   *)
(* two packet kinds of main.cpp, sendto on one side and what the network   *)
(* may do to the datagrams.  The position and the wheel count of a mouse   *)
(* packet, and the slot a key sits in, are abstracted: both packets carry  *)
(* the whole state of their device, and only which modifiers, keys and     *)
(* buttons are down matters here.                                          *)
(***************************************************************************)
EXTENDS Naturals, Sequences

CONSTANTS
    Keys,      \* HID usages of the keys that can be forwarded
    Mods,      \* modifier bits
    Buttons,   \* mouse buttons
    Left,      \* the left button, the one that drags
    Esc, Hot,  \* the ESC key and F9, the key of the grab hotkey
    HotMods,   \* Ctrl+Alt+Shift
    MaxNet,    \* bound: datagrams under way at once
    Faults     \* what may go wrong in a behaviour, a subset of FaultKinds

FaultKinds ==
    { "loss",      \* a datagram is lost
      "reorder",   \* two datagrams overtake each other
      "restart",   \* the gadget daemon or the USB connection goes away
      "full",      \* the target polls slower than reports are submitted
      "thread",    \* CreateThread fails
      "track",     \* TrackMouseEvent fails
      "steal",     \* the window loses the mouse capture (UAC, task switch)
      "reentry" }  \* the user takes control again while a grab still signals

ASSUME WireAssumption ==
    /\ MaxNet \in Nat /\ MaxNet > 1
    /\ Faults \subseteq FaultKinds
    /\ Left \in Buttons
    /\ Esc \in Keys /\ Hot \in Keys /\ Esc # Hot
    /\ HotMods \subseteq Mods

VARIABLE net   \* datagrams under way, oldest first

KbPacket(m, k)    == [kind |-> "kb", mods |-> m, keys |-> k]
\* grab: sent by a GrabWorker (a ghost field: the real packet does not say).
MousePacket(b, g) == [kind |-> "mouse", btns |-> b, grab |-> g]

Packet == [kind : {"kb"}, mods : SUBSET Mods, keys : SUBSET Keys]
          \cup [kind : {"mouse"}, btns : SUBSET Buttons, grab : BOOLEAN]

\* KvmSend of one packet, and of the two packets of ReleaseAllInput.
Send(p)        == Len(net) < MaxNet /\ net' = Append(net, p)
SendTwo(p, q)  == Len(net) + 1 < MaxNet /\ net' = Append(Append(net, p), q)

\* The network loses a datagram.
Lose ==
    /\ "loss" \in Faults
    /\ \E i \in 1 .. Len(net) :
          net' = SubSeq(net, 1, i - 1) \o SubSeq(net, i + 1, Len(net))

\* A datagram overtakes the one before it.
Overtake ==
    /\ "reorder" \in Faults
    /\ \E i \in 1 .. Len(net) - 1 :
          net' = [j \in DOMAIN net |->
                    CASE j = i     -> net[i + 1]
                      [] j = i + 1 -> net[i]
                      [] OTHER     -> net[j]]
=============================================================================
