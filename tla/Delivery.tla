------------------------------ MODULE Delivery ------------------------------
(***************************************************************************)
(* Files on their way from PC1 to the target: kvm-drop.ps1 (one process    *)
(* per drop, started by DropWorker of main.cpp), the daemon kvm-sync.ps1,  *)
(* what their scripts do on the board, and Do-Forward of the target's      *)
(* agent.  A directory maps names to contents.                             *)
(*                                                                         *)
(* A script on the board is one step: while it runs the target has no      *)
(* drive, and ShareImage models its inside.  A call to the board that      *)
(* fails ends a PowerShell script when it prints anything on stderr, since *)
(* "Stop" is set and stderr redirected; one that fails in silence goes     *)
(* unnoticed where nobody looks at the exit status.                        *)
(***************************************************************************)
EXTENDS Naturals, FiniteSets

CONSTANTS
    Names,      \* names of files
    Drops,      \* drops by the user; the files of drop d have the content d
    MaxVersion, \* files written into the folder share; the n-th has the content n
    None,       \* no such file
    Torn        \* a file that is not complete

ASSUME DeliveryAssumption ==
    /\ MaxVersion \in Nat /\ None # Torn
    /\ {None, Torn} \cap (Nat \cup Drops) = {} /\ Nat \cap Drops = {}
    /\ None \notin Names \X (Nat \cup Drops \cup {Torn})

Versions == 1 .. MaxVersion
Contents == Versions \cup Drops \cup {None, Torn}
Empty == [n \in Names |-> None]
Listed(dir) == {n \in Names : dir[n] # None}
Over(old, new) == [n \in Names |-> IF new[n] # None THEN new[n] ELSE old[n]]

VARIABLES
    drops,     \* kvm-drop.ps1: where each is, its files and those yet to copy
    inbox,     \* /opt/kvm/inbox
    dropDir,   \* D:\_drop
    seen,      \* $seen of the agent: files of _drop it has copied
    forwarding, \* the file Do-Forward is copying, or None
    desktop,   \* the target's Desktop
    share,     \* the folder share on PC1
    written,   \* files written into it so far
    known,     \* $known
    lastSeen,  \* $lastSeen
    sync,      \* kvm-sync.ps1: where it is, the files to push as scanned, those yet to copy
    drive,     \* D:\
    \* history
    arrived,   \* files copied to the Desktop
    skipped,   \* files kvm-sync.ps1 found when it started, not on the drive
    mishaps    \* what has gone wrong without anybody noticing

dropVars == <<drops, dropDir>>
agentVars == <<seen, forwarding, desktop, arrived>>
syncVars == <<share, written, known, lastSeen, sync, drive, skipped>>
deliveryVars == <<dropVars, agentVars, syncVars, inbox, mishaps>>

Mishaps == {"unnoticed", "inbox", "revout", "cp", "hurry", "redo"}

DeliveryTypes ==
    /\ drops \in [Drops -> [at : {"idle", "clear", "copy", "run", "ok", "failed"},
                            files : SUBSET Names, left : SUBSET Names]]
    /\ sync \in [at : {"off", "sleep", "clear", "copy", "run"},
                 files : [Names -> Contents], left : SUBSET Names]
    /\ {inbox, dropDir, desktop, share, known, lastSeen, drive} \subseteq [Names -> Contents]
    /\ {seen, arrived, skipped} \subseteq SUBSET (Names \X Contents)
    /\ forwarding \in (Names \X Contents) \cup {None}
    /\ written \in 0 .. MaxVersion /\ mishaps \subseteq Mishaps

DeliveryInit ==
    /\ drops = [d \in Drops |-> [at |-> "idle", files |-> {}, left |-> {}]]
    /\ sync = [at |-> "off", files |-> Empty, left |-> {}]
    /\ inbox = Empty /\ dropDir = Empty /\ desktop = Empty /\ drive = Empty
    /\ share = Empty /\ written = 0 /\ known = Empty /\ lastSeen = Empty
    /\ seen = {} /\ forwarding = None /\ arrived = {} /\ skipped = {} /\ mishaps = {}

Running(d) == drops[d].at \in {"clear", "copy", "run"}
Pushing == sync.at \in {"clear", "copy", "run"}

-----------------------------------------------------------------------------
(* kvm-drop.ps1                                                            *)

\* WM_DROPFILES: every drop gets a process of its own, whatever else runs.
UserDrops(d, files) ==
    /\ drops[d].at = "idle" /\ files # {}
    /\ drops' = [drops EXCEPT ![d] = [at |-> "clear", files |-> files, left |-> files]]
    /\ mishaps' = IF Pushing \/ \E e \in Drops : Running(e) THEN mishaps \cup {"inbox"} ELSE mishaps
    /\ UNCHANGED <<dropDir, agentVars, syncVars, inbox>>

\* The next line of the script.
DropGoes(d, at) == drops' = [drops EXCEPT ![d].at = at]

\* ssh rm -rf inbox; its exit status is not looked at.
DropClears(d) ==
    /\ drops[d].at = "clear" /\ DropGoes(d, "copy")
    /\ \/ inbox' = Empty /\ UNCHANGED mishaps
       \/ UNCHANGED inbox /\ mishaps' = mishaps \cup {"unnoticed"}
    /\ UNCHANGED <<dropDir, agentVars, syncVars>>

\* A script that copies file after file, when it is through with n.
Past(script, n, next) ==
    [script EXCEPT !.left = @ \ {n}, !.at = IF script.left = {n} THEN next ELSE @]

\* What a copy that fails leaves behind.
Broken(dir, n) == {dir, [dir EXCEPT ![n] = Torn]}

\* scp of one file, counted whatever became of it.
DropCopies(d, n) ==
    /\ drops[d].at = "copy" /\ n \in drops[d].left
    /\ drops' = [drops EXCEPT ![d] = Past(@, n, "run")]
    /\ \/ inbox' = [inbox EXCEPT ![n] = d] /\ UNCHANGED mishaps
       \/ inbox' \in Broken(inbox, n) /\ mishaps' = mishaps \cup {"unnoticed"}
    /\ UNCHANGED <<dropDir, agentVars, syncVars>>

\* Variant: the script goes on.
DropFailsOn(d) ==
    /\ drops[d].at = "copy" /\ \E n \in drops[d].left :
          /\ inbox' \in Broken(inbox, n)
          /\ drops' = [drops EXCEPT ![d] = Past(@, n, "run")]
    /\ UNCHANGED <<dropDir, agentVars, syncVars, mishaps>>

\* A call fails and says so, which ends the script.  kvm-drop.sh may refuse (a
\* file or all of them too large), or fail before it touches _drop.
DropFails(d) ==
    /\ Running(d) /\ DropGoes(d, "failed")
    /\ \/ UNCHANGED inbox
       \/ drops[d].at = "copy" /\ \E n \in drops[d].left : inbox' \in Broken(inbox, n)
    /\ UNCHANGED <<dropDir, agentVars, syncVars, mishaps>>

\* Files of _drop that have not arrived, and those that have but that a
\* restarted agent copies again.
Waiting == {n \in Listed(dropDir) : <<n, dropDir[n]>> \notin arrived}
Again == {n \in Listed(dropDir) : <<n, dropDir[n]>> \in arrived \ seen}

\* kvm-drop.sh: _drop is emptied and the inbox copied there.  Under set -e a
\* copy that fails ends it, with what it has copied so far; and whatever it
\* prints on stderr makes kvm-drop.ps1 report a failure.
DropRuns(d) ==
    /\ drops[d].at = "run"
    /\ \E lost \in SUBSET Listed(inbox), torn \in SUBSET Listed(inbox) :
          /\ Cardinality(torn) <= 1 /\ torn \subseteq lost
          /\ dropDir' = [n \in Names |-> IF n \in torn THEN Torn
                                         ELSE IF n \in lost THEN None ELSE inbox[n]]
          /\ \/ lost = {} /\ DropGoes(d, "ok")
             \/ DropGoes(d, "failed")
          /\ mishaps' = mishaps \cup (IF lost # {} THEN {"cp"} ELSE {})
                                \cup (IF Waiting # {} THEN {"hurry"} ELSE {})
                                \cup (IF Again # {} THEN {"redo"} ELSE {})
    /\ UNCHANGED <<agentVars, syncVars, inbox>>

-----------------------------------------------------------------------------
(* Do-Forward of agent.ps1                                                 *)

\* Variant: files are told apart by their names only.
IsSeenByName(n) == \E c \in Contents : <<n, c>> \in seen

\* The key is made of name, length and time; a copy has a time of its own.
IsSeen(n) == <<n, dropDir[n]>> \in seen

\* The copy to the Desktop begins.
ForwardStarts(n) ==
    /\ forwarding = None /\ dropDir[n] # None /\ ~IsSeen(n)
    /\ forwarding' = <<n, dropDir[n]>>
    /\ desktop' = [desktop EXCEPT ![n] = Torn]
    /\ UNCHANGED <<seen, arrived, dropVars, syncVars, inbox, mishaps>>

\* It is complete.
Forwarded(n) ==
    /\ forwarding # None /\ forwarding[1] = n /\ forwarding' = None
    /\ desktop' = [desktop EXCEPT ![n] = forwarding[2]]
    /\ seen' = seen \cup {forwarding} /\ arrived' = arrived \cup {forwarding}
    /\ UNCHANGED <<dropVars, syncVars, inbox, mishaps>>

\* Variant: a copy that fails leaves what it has written, and counts as done.
ForwardFailsSeen(n) ==
    /\ forwarding # None /\ forwarding[1] = n /\ forwarding' = None
    /\ seen' = seen \cup {forwarding}
    /\ UNCHANGED <<desktop, arrived, dropVars, syncVars, inbox, mishaps>>

\* The exception is swallowed; a copy that was begun leaves no file.
ForwardFails(n) ==
    /\ forwarding # None /\ forwarding[1] = n /\ forwarding' = None
    /\ desktop' = [desktop EXCEPT ![n] = None]
    /\ UNCHANGED <<seen, arrived, dropVars, syncVars, inbox, mishaps>>

\* The target restarts, and with it the agent: of a copy under way half a file
\* stays.
AgentForgets ==
    /\ seen' = {} /\ forwarding' = None
    /\ UNCHANGED <<desktop, arrived, dropVars, syncVars, inbox, mishaps>>

-----------------------------------------------------------------------------
(* kvm-sync.ps1                                                            *)

\* A file is written into the folder: it grows, then is complete.
UserWrites(n) ==
    /\ written < MaxVersion
    /\ \/ share[n] # Torn /\ share' = [share EXCEPT ![n] = Torn] /\ UNCHANGED written
       \/ share[n] = Torn /\ share' = [share EXCEPT ![n] = written + 1] /\ written' = written + 1
    /\ UNCHANGED <<known, lastSeen, sync, drive, skipped, dropVars, agentVars, inbox, mishaps>>

\* Complete files of the folder that are not on the drive.
Missing == {n \in Names : share[n] \in Versions /\ drive[n] # share[n]}

\* The daemon starts: what it finds in the folder counts as pushed.
SyncStarts ==
    /\ sync.at = "off" /\ sync' = [sync EXCEPT !.at = "sleep"]
    /\ known' = share /\ lastSeen' = share
    /\ skipped' = skipped \cup {<<n, share[n]>> : n \in Missing}
    /\ UNCHANGED <<share, written, drive, dropVars, agentVars, inbox, mishaps>>

\* Ctrl+C, or PC1 goes down: a call under way may have begun or done its work.
SyncStops ==
    /\ sync.at # "off" /\ sync' = [at |-> "off", files |-> Empty, left |-> {}]
    /\ known' = Empty /\ lastSeen' = Empty
    /\ \/ UNCHANGED <<inbox, drive>>
       \/ sync.at = "clear" /\ inbox' = Empty /\ UNCHANGED drive
       \/ sync.at = "copy" /\ UNCHANGED drive /\ \E n \in sync.left : inbox' \in Broken(inbox, n)
       \/ sync.at = "run" /\ drive' = Over(drive, inbox) /\ UNCHANGED inbox
    /\ UNCHANGED <<share, written, skipped, dropVars, agentVars, mishaps>>

\* Files that look as in the last scan and other than when pushed.  A file that
\* is still growing looks different at each scan.
Changed == {n \in Listed(share) : known[n] # share[n] /\ lastSeen[n] = share[n] /\ share[n] # Torn}

\* Push-Changed, every 1.5 s.
Scan ==
    /\ sync.at = "sleep" /\ lastSeen' = share
    /\ \/ Changed = {} /\ UNCHANGED <<sync, mishaps>>
       \/ /\ Changed # {}
          /\ sync' = [at |-> "clear", left |-> Changed,
                      files |-> [n \in Names |-> IF n \in Changed THEN share[n] ELSE None]]
          /\ mishaps' = IF \E d \in Drops : Running(d) THEN mishaps \cup {"inbox"} ELSE mishaps
    /\ UNCHANGED <<share, written, known, drive, skipped, dropVars, agentVars, inbox>>

SyncGoes(at) == sync' = [sync EXCEPT !.at = at]

\* The same inbox as the drops'.
SyncClears ==
    /\ sync.at = "clear" /\ SyncGoes("copy")
    /\ inbox' = Empty
    /\ UNCHANGED <<share, written, known, lastSeen, drive, skipped, dropVars, agentVars, mishaps>>

\* What is copied is the file as it is now.
SyncCopies(n) ==
    /\ sync.at = "copy" /\ n \in sync.left
    /\ sync' = Past(sync, n, "run")
    /\ inbox' = [inbox EXCEPT ![n] = share[n]]
    /\ UNCHANGED <<share, written, known, lastSeen, drive, skipped, dropVars, agentVars, mishaps>>

\* Variant: what the folder holds by now is known.
KnownNowAfterPush == [n \in Names |-> IF sync.files[n] # None THEN share[n] ELSE known[n]]

\* What is known afterwards is what the scan saw.
KnownAfterPush == Over(known, sync.files)

\* A call fails in silence.
SyncUnnoticed ==
    /\ mishaps' = mishaps \cup {"unnoticed"}
    /\ \/ sync.at = "clear" /\ SyncGoes("copy") /\ UNCHANGED <<inbox, known>>
       \/ /\ sync.at = "copy" /\ UNCHANGED known
          /\ \E n \in sync.left :
                inbox' \in Broken(inbox, n) /\ sync' = Past(sync, n, "run")
       \/ sync.at = "run" /\ SyncGoes("sleep") /\ known' = KnownAfterPush /\ UNCHANGED inbox
    /\ UNCHANGED <<share, written, lastSeen, drive, skipped, dropVars, agentVars>>

\* A call fails and says so: the loop catches that, and the next scan finds the
\* files changed still.
SyncFails ==
    /\ Pushing /\ SyncGoes("sleep")
    /\ \/ UNCHANGED inbox
       \/ sync.at = "copy" /\ \E n \in sync.left : inbox' \in Broken(inbox, n)
    /\ UNCHANGED <<share, written, known, lastSeen, drive, skipped, dropVars, agentVars, mishaps>>

\* kvm-share.sh sync: the inbox is copied into the root of the drive.
SyncRuns ==
    /\ sync.at = "run" /\ SyncGoes("sleep")
    /\ drive' = Over(drive, inbox) /\ known' = KnownAfterPush
    /\ UNCHANGED <<share, written, lastSeen, skipped, dropVars, agentVars, inbox, mishaps>>

\* Errors of its copy are discarded; and what it prints on stderr keeps the
\* files from being known.
SyncRunsBadly ==
    /\ sync.at = "run" /\ SyncGoes("sleep")
    /\ \/ /\ mishaps' = mishaps \cup {"cp"}
          /\ \E n \in Listed(inbox) : drive' \in Broken(Over(drive, [inbox EXCEPT ![n] = None]), n)
          /\ known' = KnownAfterPush
       \/ drive' = Over(drive, inbox) /\ UNCHANGED <<known, mishaps>>
    /\ UNCHANGED <<share, written, lastSeen, skipped, dropVars, agentVars, inbox>>

-----------------------------------------------------------------------------
DropStep(d) ==
    \/ DropClears(d) \/ (\E n \in Names : DropCopies(d, n))
    \/ DropFails(d) \/ DropRuns(d)

ForwardStep == \E n \in Names : ForwardStarts(n) \/ Forwarded(n) \/ ForwardFails(n)

SyncStep ==
    \/ SyncStarts \/ SyncStops \/ Scan \/ SyncClears \/ (\E n \in Names : SyncCopies(n))
    \/ SyncUnnoticed \/ SyncFails \/ SyncRuns \/ SyncRunsBadly

-----------------------------------------------------------------------------
(* Properties                                                              *)

Without(kinds) == mishaps \cap kinds = {}

\* A complete file the daemon will not push again is on the drive as it is in
\* the folder, unless the daemon found it there when it started: "last value
\* successfully pushed" (kvm-sync.ps1:29), and what the next lines enter besides.
PushedOrSkipped ==
    Without({"unnoticed", "inbox", "cp"}) =>
        \A n \in Names : share[n] \in Versions /\ known[n] = share[n] =>
            drive[n] = share[n] \/ <<n, share[n]>> \in skipped

\* "OK: dropped n file(s) -> target Desktop" (kvm-drop.ps1:28): what a drop has
\* reported is on the Desktop, has been there, or waits for the agent.
DropKept ==
    Without({"unnoticed", "inbox", "hurry"}) =>
        \A d \in Drops : drops[d].at = "ok" =>
            \A n \in drops[d].files : <<n, d>> \in arrived \/ dropDir[n] = d

\* Half a file on the target's Desktop is being copied or will be copied again,
\* whatever calls fail, and although the agent may be killed in mid-copy.
WholeOnDesktop ==
    Without({"unnoticed", "inbox", "cp", "hurry", "redo"}) =>
        \A n \in Names : desktop[n] = Torn =>
            \/ forwarding # None /\ forwarding[1] = n
            \/ dropDir[n] # None /\ ~IsSeen(n)

\* What a drop has reported gets to the Desktop, file by file.
DropArrives ==
    \A d \in Drops, n \in Names :
        drops[d].at = "ok" /\ n \in drops[d].files ~>
            <<n, d>> \in arrived \/ ~Without({"unnoticed", "inbox", "hurry"})

\* A file that is left alone while the daemon runs is on the drive in the end,
\* however often pushing it has failed, unless the daemon found it there when it
\* started.
PushedInTheEnd ==
    \A n \in Names :
        <>[](share[n] \in Versions /\ sync.at # "off") =>
            <>[](drive[n] = share[n] \/ <<n, share[n]>> \in skipped
                                     \/ ~Without({"unnoticed", "inbox", "cp"}))
=============================================================================
