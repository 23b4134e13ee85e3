-------------------------- MODULE InputSyncProofs --------------------------
(***************************************************************************)
(* What TLAPS proves of what the target of KvmInput will hold, for any     *)
(* sets of keys, buttons and worker threads and any queue bounds: without  *)
(* losses it ends up with what the application believes it holds, and a    *)
(* drag-out cancels the target's drag before it releases the button.  What *)
(* was lost is made good once control has come and gone again.             *)
(***************************************************************************)
EXTENDS KvmInputProofs

\* Nothing is lost, nothing overtaken, and threads can be created.
Reliable == Faults \cap {"loss", "reorder", "restart", "full", "thread"} = {}

\* The user leaves a grab that signals alone.
Patient == "reentry" \notin Faults

-----------------------------------------------------------------------------
(* The reports under way                                                   *)

\* A queue q in front of a target that holds tm and tk, or tb, ends with m and
\* ks, or b.
KbSays(q, tm, tk, m, ks) ==
    /\ (\A i \in DOMAIN q : q[i].kind # "kb") => tm = m /\ tk = ks
    /\ \A i \in DOMAIN q :
          q[i].kind = "kb" /\ (\A j \in DOMAIN q : q[j].kind = "kb" => j <= i)
            => q[i].mods = m /\ q[i].keys = ks
BtSays(q, tb, b) ==
    /\ (\A i \in DOMAIN q : q[i].kind # "mouse") => tb = b
    /\ \A i \in DOMAIN q :
          q[i].kind = "mouse" /\ (\A j \in DOMAIN q : q[j].kind = "mouse" => j <= i)
            => q[i].btns = b

\* KeyboardWillBe and ButtonsWillBe are that of Reports.
LEMMA KbMeans ==
  /\ \A m, ks : KeyboardWillBe(m, ks) <=> KbSays(Reports, tmods, tkeys, m, ks)
  /\ KeyboardWillBe(mods, keys)' <=> KbSays(Reports', tmods', tkeys', mods', keys')
  /\ KeyboardWillBe({}, {})' <=> KbSays(Reports', tmods', tkeys', {}, {})
  BY DEF KeyboardWillBe, KbSays, OfKind, LastReport

\* What the buttons will be, read off the queue's last mouse report.
LEMMA BtMeans ==
  /\ \A b : ButtonsWillBe(b) <=> BtSays(Reports, tbtns, b)
  /\ ButtonsWillBe(btns)' <=> BtSays(Reports', tbtns', btns')
  /\ ButtonsWillBe({})' <=> BtSays(Reports', tbtns', {})
  BY DEF ButtonsWillBe, BtSays, OfKind, LastReport

\* A report sent last is what the target will hold of its device ...
LEMMA KbSent ==
  ASSUME NEW q \in Seq(Packet), NEW p \in Packet, p.kind = "kb", NEW tm, NEW tk
  PROVE  KbSays(Append(q, p), tm, tk, p.mods, p.keys)
<1>1. /\ DOMAIN Append(q, p) = 1 .. Len(q) + 1 /\ Len(q) \in Nat
      /\ Append(q, p)[Len(q) + 1] = p
  OBVIOUS
<1>2. QED  BY <1>1 DEF KbSays

\* A mouse report sent decides them.
LEMMA BtSent ==
  ASSUME NEW q \in Seq(Packet), NEW p \in Packet, p.kind = "mouse", NEW tb
  PROVE  BtSays(Append(q, p), tb, p.btns)
<1>1. /\ DOMAIN Append(q, p) = 1 .. Len(q) + 1 /\ Len(q) \in Nat
      /\ Append(q, p)[Len(q) + 1] = p
  OBVIOUS
<1>2. QED  BY <1>1 DEF BtSays

\* ... and changes nothing for the other one.
LEMMA KbOther ==
  ASSUME NEW q \in Seq(Packet), NEW p \in Packet, p.kind # "kb", NEW tm, NEW tk, NEW m, NEW ks,
         KbSays(q, tm, tk, m, ks)
  PROVE  KbSays(Append(q, p), tm, tk, m, ks)
<1>1. /\ DOMAIN Append(q, p) = 1 .. Len(q) + 1 /\ Len(q) \in Nat /\ DOMAIN q = 1 .. Len(q)
      /\ Append(q, p)[Len(q) + 1] = p
      /\ \A i \in 1 .. Len(q) : Append(q, p)[i] = q[i]
  OBVIOUS
<1>2. \A i \in DOMAIN Append(q, p) : Append(q, p)[i].kind = "kb" => i \in DOMAIN q /\ Append(q, p)[i] = q[i]
  BY <1>1
<1>3. \A i \in DOMAIN q : i \in DOMAIN Append(q, p) /\ Append(q, p)[i] = q[i]
  BY <1>1
<1>4. QED  BY <1>2, <1>3 DEF KbSays

\* A keyboard report does not touch them.
LEMMA BtOther ==
  ASSUME NEW q \in Seq(Packet), NEW p \in Packet, p.kind # "mouse", NEW tb, NEW b,
         BtSays(q, tb, b)
  PROVE  BtSays(Append(q, p), tb, b)
<1>1. /\ DOMAIN Append(q, p) = 1 .. Len(q) + 1 /\ Len(q) \in Nat /\ DOMAIN q = 1 .. Len(q)
      /\ Append(q, p)[Len(q) + 1] = p
      /\ \A i \in 1 .. Len(q) : Append(q, p)[i] = q[i]
  OBVIOUS
<1>2. \A i \in DOMAIN Append(q, p) : Append(q, p)[i].kind = "mouse" => i \in DOMAIN q /\ Append(q, p)[i] = q[i]
  BY <1>1
<1>3. \A i \in DOMAIN q : i \in DOMAIN Append(q, p) /\ Append(q, p)[i] = q[i]
  BY <1>1
<1>4. QED  BY <1>2, <1>3 DEF BtSays

\* Nor does polling the oldest one.
LEMMA KbPolled ==
  ASSUME NEW q \in Seq(Packet), q # <<>>, NEW tm, NEW tk, NEW tm2, NEW tk2, NEW m, NEW ks,
         q[1].kind = "kb" => tm2 = q[1].mods /\ tk2 = q[1].keys,
         q[1].kind # "kb" => tm2 = tm /\ tk2 = tk,
         KbSays(q, tm, tk, m, ks)
  PROVE  KbSays(Tail(q), tm2, tk2, m, ks)
<1>1. /\ Len(q) \in Nat \ {0} /\ DOMAIN q = 1 .. Len(q) /\ DOMAIN Tail(q) = 1 .. Len(q) - 1
      /\ \A i \in 1 .. Len(q) - 1 : Tail(q)[i] = q[i+1]
  BY HeadTailProperties
<1>2. \A j \in DOMAIN q : j = 1 \/ (j - 1 \in DOMAIN Tail(q) /\ Tail(q)[j-1] = q[j])
  BY <1>1
<1>3. \A i \in DOMAIN Tail(q) : i \in Nat /\ i + 1 \in DOMAIN q /\ Tail(q)[i] = q[i+1]
  BY <1>1
<1>4. ASSUME \A i \in DOMAIN Tail(q) : Tail(q)[i].kind # "kb" PROVE tm2 = m /\ tk2 = ks
  <2>1. CASE q[1].kind = "kb"
    <3>1. 1 \in DOMAIN q /\ 1 <= 1
      BY <1>1
    <3>2. \A j \in DOMAIN q : q[j].kind = "kb" => j = 1
      BY <1>2, <1>4
    <3>3. QED  BY <2>1, <3>1, <3>2 DEF KbSays
  <2>2. CASE q[1].kind # "kb"
    <3>1. \A j \in DOMAIN q : q[j].kind # "kb"
      BY <1>2, <1>4, <2>2
    <3>2. QED  BY <2>2, <3>1 DEF KbSays
  <2>3. QED  BY <2>1, <2>2
<1>5. ASSUME NEW i \in DOMAIN Tail(q), Tail(q)[i].kind = "kb",
             \A j \in DOMAIN Tail(q) : Tail(q)[j].kind = "kb" => j <= i
      PROVE  Tail(q)[i].mods = m /\ Tail(q)[i].keys = ks
  <2>1. ASSUME NEW j \in DOMAIN q, q[j].kind = "kb" PROVE j <= i + 1
    <3>1. i \in Nat /\ j \in Nat
      BY <1>1, <1>3
    <3>2. j = 1 \/ j - 1 <= i
      BY <1>2, <1>5, <2>1
    <3>3. QED  BY <3>1, <3>2
  <2>2. QED  BY <1>3, <1>5, <2>1 DEF KbSays
<1>6. QED  BY <1>4, <1>5 DEF KbSays

\* Polling the oldest report does not change what they will be.
LEMMA BtPolled ==
  ASSUME NEW q \in Seq(Packet), q # <<>>, NEW tb, NEW tb2, NEW b,
         q[1].kind = "mouse" => tb2 = q[1].btns,
         q[1].kind # "mouse" => tb2 = tb,
         BtSays(q, tb, b)
  PROVE  BtSays(Tail(q), tb2, b)
<1>1. /\ Len(q) \in Nat \ {0} /\ DOMAIN q = 1 .. Len(q) /\ DOMAIN Tail(q) = 1 .. Len(q) - 1
      /\ \A i \in 1 .. Len(q) - 1 : Tail(q)[i] = q[i+1]
  BY HeadTailProperties
<1>2. \A j \in DOMAIN q : j = 1 \/ (j - 1 \in DOMAIN Tail(q) /\ Tail(q)[j-1] = q[j])
  BY <1>1
<1>3. \A i \in DOMAIN Tail(q) : i \in Nat /\ i + 1 \in DOMAIN q /\ Tail(q)[i] = q[i+1]
  BY <1>1
<1>4. ASSUME \A i \in DOMAIN Tail(q) : Tail(q)[i].kind # "mouse" PROVE tb2 = b
  <2>1. CASE q[1].kind = "mouse"
    <3>1. 1 \in DOMAIN q /\ 1 <= 1
      BY <1>1
    <3>2. \A j \in DOMAIN q : q[j].kind = "mouse" => j = 1
      BY <1>2, <1>4
    <3>3. QED  BY <2>1, <3>1, <3>2 DEF BtSays
  <2>2. CASE q[1].kind # "mouse"
    <3>1. \A j \in DOMAIN q : q[j].kind # "mouse"
      BY <1>2, <1>4, <2>2
    <3>2. QED  BY <2>2, <3>1 DEF BtSays
  <2>3. QED  BY <2>1, <2>2
<1>5. ASSUME NEW i \in DOMAIN Tail(q), Tail(q)[i].kind = "mouse",
             \A j \in DOMAIN Tail(q) : Tail(q)[j].kind = "mouse" => j <= i
      PROVE  Tail(q)[i].btns = b
  <2>1. ASSUME NEW j \in DOMAIN q, q[j].kind = "mouse" PROVE j <= i + 1
    <3>1. i \in Nat /\ j \in Nat
      BY <1>1, <1>3
    <3>2. j = 1 \/ j - 1 <= i
      BY <1>2, <1>5, <2>1
    <3>3. QED  BY <3>1, <3>2
  <2>2. QED  BY <1>3, <1>5, <2>1 DEF BtSays
<1>6. QED  BY <1>4, <1>5 DEF BtSays

-----------------------------------------------------------------------------
(* What the steps do to the reports under way                              *)

\* A sent packet is the last report ...
LEMMA SendAppends ==
  ASSUME TypeOK, UNCHANGED aio, NEW p \in Packet, Send(p)
  PROVE  Reports' = Append(Reports, p)
<1>1. aio \in Seq(Packet) /\ net \in Seq(Packet)
  BY DEF TypeOK, DaemonTypeOK
<1>2. net' = net \o <<p>> /\ Append(aio \o net, p) = (aio \o net) \o <<p>>
  BY <1>1, AppendIsConcat, ConcatProperties DEF Send
<1>3. <<p>> \in Seq(Packet)
  OBVIOUS
<1>4. QED  BY <1>1, <1>2, <1>3, ConcatAssociative DEF Reports

\* ReleaseAllInput's two datagrams go to the end of the queue.
LEMMA SendTwoAppends ==
  ASSUME TypeOK, UNCHANGED aio, NEW p \in Packet, NEW q \in Packet, SendTwo(p, q)
  PROVE  Reports' = Append(Append(Reports, p), q)
<1>1. aio \in Seq(Packet) /\ net \in Seq(Packet) /\ <<p>> \in Seq(Packet) /\ <<q>> \in Seq(Packet)
  BY DEF TypeOK, DaemonTypeOK
<1>2. net \o <<p>> \in Seq(Packet) /\ aio \o net \in Seq(Packet) /\ (aio \o net) \o <<p>> \in Seq(Packet)
  BY <1>1, ConcatProperties
<1>3. net' = (net \o <<p>>) \o <<q>>
  BY <1>1, <1>2, AppendIsConcat DEF SendTwo
<1>4. aio \o net' = ((aio \o net) \o <<p>>) \o <<q>>
  BY <1>1, <1>2, <1>3, ConcatAssociative
<1>5. Append(Append(aio \o net, p), q) = ((aio \o net) \o <<p>>) \o <<q>>
  BY <1>1, <1>2, AppendIsConcat
<1>6. QED  BY <1>4, <1>5 DEF Reports

\* ... which the daemon only passes on, unless it drops it ...
LEMMA ReceiveKeeps ==
  ASSUME [~Mishap]_vars, TypeOK, Receive
  PROVE  Reports' = Reports
<1>1. aio \in Seq(Packet) /\ net \in Seq(Packet) /\ net # <<>>
  BY DEF TypeOK, DaemonTypeOK, Receive
<1>2. aio' = Append(aio, Head(net)) /\ net' = Tail(net)
  <2>1. net' = Tail(net) /\ Len(net') < Len(net)
    BY <1>1 DEF Receive
  <2>2. aio' # aio
    BY <2>1 DEF Mishap, vars
  <2>3. QED  BY <2>1, <2>2 DEF Receive, Submit, SubmitAIO
<1>3. Head(net) \in Packet /\ Tail(net) \in Seq(Packet) /\ <<Head(net)>> \in Seq(Packet)
  BY <1>1
<1>4. <<Head(net)>> \o Tail(net) = net
  BY <1>1
<1>5. aio' = aio \o <<Head(net)>>
  BY <1>1, <1>2, <1>3, AppendIsConcat
<1>6. QED  BY <1>1, <1>2, <1>3, <1>4, <1>5, ConcatAssociative DEF Reports

\* ... and the target takes in order.
LEMMA PollTakes ==
  ASSUME TypeOK, Poll
  PROVE  /\ Reports \in Seq(Packet) /\ Reports # <<>> /\ Reports' = Tail(Reports)
         /\ Reports[1] = Head(aio) /\ Head(aio) \in Packet
<1>1. aio \in Seq(Packet) /\ net \in Seq(Packet) /\ aio # <<>> /\ net' = net /\ aio' = Tail(aio)
  BY DEF TypeOK, DaemonTypeOK, Poll
<1>2. Head(aio) \in Packet /\ Tail(aio) \in Seq(Packet) /\ Len(aio) \in Nat \ {0} /\ Head(aio) = aio[1]
  BY <1>1
<1>3. aio \o net \in Seq(Packet) /\ Len(aio \o net) = Len(aio) + Len(net) /\ (aio \o net)[1] = aio[1]
  BY <1>1, <1>2, ConcatProperties
<1>4. aio \o net # <<>> /\ Tail(aio) \o net = Tail(aio \o net)
  BY <1>1, <1>2, <1>3
<1>5. QED  BY <1>1, <1>2, <1>3, <1>4 DEF Reports

\* The reports under way are packets.
LEMMA ReportsType == TypeOK => Reports \in Seq(Packet)
  BY ConcatProperties DEF TypeOK, DaemonTypeOK, Reports

\* Polling changes nothing of what the target will hold.
LEMMA PollKeeps ==
  ASSUME TypeOK, Poll
  PROVE  /\ \A m, ks : KbSays(Reports, tmods, tkeys, m, ks) => KbSays(Reports', tmods', tkeys', m, ks)
         /\ \A b : BtSays(Reports, tbtns, b) => BtSays(Reports', tbtns', b)
<1>1. /\ Reports \in Seq(Packet) /\ Reports # <<>> /\ Reports' = Tail(Reports)
      /\ Reports[1] = Head(aio)
  BY PollTakes
<1>2. /\ Reports[1].kind = "kb" => tmods' = Reports[1].mods /\ tkeys' = Reports[1].keys
      /\ Reports[1].kind # "kb" => tmods' = tmods /\ tkeys' = tkeys
      /\ Reports[1].kind = "mouse" => tbtns' = Reports[1].btns
      /\ Reports[1].kind # "mouse" => tbtns' = tbtns
  <2>1. /\ Head(aio).kind = "kb" => tmods' = Head(aio).mods /\ tkeys' = Head(aio).keys
        /\ Head(aio).kind # "kb" => tmods' = tmods /\ tkeys' = tkeys
        /\ Head(aio).kind = "mouse" => tbtns' = Head(aio).btns
        /\ Head(aio).kind # "mouse" => tbtns' = tbtns
    BY DEF Poll
  <2>2. QED  BY <1>1, <2>1
<1>3. QED  BY <1>1, <1>2, KbPolled, BtPolled

\* What the network does to the datagrams is a mishap, or nothing.
LEMMA NetworkKeeps ==
  ASSUME [~Mishap]_vars, TypeOK, NetworkStep
  PROVE  UNCHANGED vars
<1>1. net \in Seq(Packet) /\ UNCHANGED <<previewVars, daemonVars, targetVars>> /\ UNCHANGED aio
  BY DEF TypeOK, NetworkStep, daemonVars
<1>2. CASE Lose
  <2>1. Len(net') < Len(net)
    BY <1>1, <1>2, LoseType
  <2>2. QED  BY <1>1, <2>1 DEF Mishap, vars
<1>3. CASE Overtake
  <2>1. Len(net') = Len(net)
    BY <1>1, <1>3, OvertakeType
  <2>2. net' = net
    BY <2>1 DEF Mishap, vars
  <2>3. QED  BY <1>1, <2>2 DEF vars
<1>4. QED  BY <1>2, <1>3 DEF NetworkStep

\* Whatever the daemon, the target and the network do short of a mishap, what
\* the target will hold stays.
LEMMA DaemonKeeps ==
  ASSUME [~Mishap]_vars, TypeOK, up, enabled, DaemonStep \/ NetworkStep
  PROVE  /\ UNCHANGED <<up, enabled, previewVars>>
         /\ \A m, ks : KbSays(Reports, tmods, tkeys, m, ks) => KbSays(Reports', tmods', tkeys', m, ks)
         /\ \A b : BtSays(Reports, tbtns, b) => BtSays(Reports', tbtns', b)
<1>1. CASE UNCHANGED vars
  <2>1. UNCHANGED <<up, enabled, previewVars, aio, net, tmods, tkeys, tbtns>>
    BY <1>1 DEF vars, daemonVars, targetVars
  <2>2. QED  BY <2>1 DEF Reports
<1>2. CASE DaemonStep /\ ~UNCHANGED vars
  <2>1. UNCHANGED previewVars
    BY <1>2 DEF DaemonStep
  <2>2. CASE Receive
    <3>1. Reports' = Reports
      BY <2>2, ReceiveKeeps
    <3>2. UNCHANGED <<up, enabled, targetVars>>
      BY <2>2 DEF Receive
    <3>3. QED  BY <2>1, <3>1, <3>2 DEF targetVars
  <2>3. CASE Poll
    <3>1. UNCHANGED <<up, enabled>>
      BY <2>3 DEF Poll
    <3>2. QED  BY <2>1, <2>3, <3>1, PollKeeps
  <2>4. enabled'
    BY <1>2 DEF Mishap
  <2>5. ~Disable /\ ~Enable /\ ~Stop /\ ~Start
    BY <2>4 DEF Disable, Enable, Stop, Start
  <2>6. QED  BY <1>2, <2>2, <2>3, <2>5 DEF DaemonStep, DaemonNext
<1>3. QED  BY <1>1, <1>2, NetworkKeeps

\* A keyboard packet, a mouse packet and ReleaseAllInput.
LEMMA KbPacketSays ==
  ASSUME TypeOK, UNCHANGED <<daemonVars, targetVars>>,
         NEW m \in SUBSET Mods, NEW ks \in SUBSET Keys, Send(KbPacket(m, ks))
  PROVE  /\ KbSays(Reports', tmods', tkeys', m, ks)
         /\ \A b : BtSays(Reports, tbtns, b) => BtSays(Reports', tbtns', b)
<1> DEFINE p == KbPacket(m, ks)
<1>1. p \in Packet /\ p.kind = "kb" /\ p.mods = m /\ p.keys = ks
  BY PacketTypes DEF KbPacket
<1> HIDE DEF p
<1>2. Reports' = Append(Reports, p) /\ Reports \in Seq(Packet)
  BY <1>1, SendAppends, ReportsType DEF daemonVars, p
<1>3. UNCHANGED <<tmods, tkeys, tbtns>>
  BY DEF targetVars
<1>4. KbSays(Append(Reports, p), tmods, tkeys, p.mods, p.keys)
  BY <1>1, <1>2, KbSent
<1>5. \A b : BtSays(Reports, tbtns, b) => BtSays(Append(Reports, p), tbtns, b)
  BY <1>1, <1>2, BtOther
<1>6. QED  BY <1>1, <1>2, <1>3, <1>4, <1>5

\* A mouse packet sent decides the buttons and leaves the keys.
LEMMA MousePacketSays ==
  ASSUME TypeOK, UNCHANGED <<daemonVars, targetVars>>,
         NEW b \in SUBSET Buttons, NEW g \in BOOLEAN, Send(MousePacket(b, g))
  PROVE  /\ BtSays(Reports', tbtns', b)
         /\ \A m, ks : KbSays(Reports, tmods, tkeys, m, ks) => KbSays(Reports', tmods', tkeys', m, ks)
<1> DEFINE p == MousePacket(b, g)
<1>1. p \in Packet /\ p.kind = "mouse" /\ p.btns = b
  BY PacketTypes DEF MousePacket
<1> HIDE DEF p
<1>2. Reports' = Append(Reports, p) /\ Reports \in Seq(Packet)
  BY <1>1, SendAppends, ReportsType DEF daemonVars, p
<1>3. UNCHANGED <<tmods, tkeys, tbtns>>
  BY DEF targetVars
<1>4. BtSays(Append(Reports, p), tbtns, p.btns)
  BY <1>1, <1>2, BtSent
<1>5. \A m, ks : KbSays(Reports, tmods, tkeys, m, ks) => KbSays(Append(Reports, p), tmods, tkeys, m, ks)
  BY <1>1, <1>2, KbOther
<1>6. QED  BY <1>1, <1>2, <1>3, <1>4, <1>5

\* ReleaseAllInput decides both: nothing held.
LEMMA ReleaseSays ==
  ASSUME TypeOK, UNCHANGED <<daemonVars, targetVars>>, ReleaseAllInput
  PROVE  KbSays(Reports', tmods', tkeys', {}, {}) /\ BtSays(Reports', tbtns', {})
<1> DEFINE p == KbPacket({}, {})  q == MousePacket({}, FALSE)  r == Append(Reports, p)
<1>1. /\ p \in Packet /\ p.kind = "kb" /\ p.mods = {} /\ p.keys = {}
      /\ q \in Packet /\ q.kind = "mouse" /\ q.btns = {}
  BY PacketTypes DEF KbPacket, MousePacket
<1>2. SendTwo(p, q)
  BY DEF ReleaseAllInput
<1> HIDE DEF p, q, r
<1>3. Reports' = Append(r, q)
  BY <1>1, <1>2, SendTwoAppends DEF daemonVars, r
<1>4. r \in Seq(Packet)
  BY <1>1, ReportsType, AppendProperties DEF r
<1>5. KbSays(r, tmods, tkeys, {}, {})
  BY <1>1, ReportsType, KbSent DEF r
<1>6. KbSays(Append(r, q), tmods, tkeys, {}, {}) /\ BtSays(Append(r, q), tbtns, {})
  BY <1>1, <1>4, <1>5, KbOther, BtSent
<1>7. QED  BY <1>3, <1>6 DEF targetVars

-----------------------------------------------------------------------------
(* ReleasedAfterControl                                                    *)

\* With control off the buttons are about to be released, or a GrabWorker has
\* still to release them; and the keys are, once every GrabWorker is through.
\* A worker's last packet releases the keys it holds, and all others with them.
HandInv ==
    /\ up /\ enabled
    /\ ~capture /\ ~Signalling => KbSays(Reports, tmods, tkeys, {}, {})
    /\ ~capture => \/ BtSays(Reports, tbtns, {})
                   \/ \E w \in Workers : worker[w] \in {"esc", "escUp", "mUp"}

\* Initially nothing is under way and nothing is held.
LEMMA HandInit == Init => HandInv
<1> SUFFICES ASSUME Init PROVE HandInv
  OBVIOUS
<1>1. Reports = <<>> /\ DOMAIN Reports = {}
  BY DEF Init, DaemonInit, Reports
<1>2. QED  BY <1>1 DEF Init, DaemonInit, HandInv, KbSays, BtSays

\* One packet of a GrabWorker.
LEMMA HandWorker ==
  ASSUME TypeOK, HandInv, UNCHANGED <<daemonVars, targetVars>>, NEW w \in Workers, GrabWorker(w)
  PROVE  HandInv'
<1>1. /\ worker \in [Workers -> WorkerStep] /\ UNCHANGED <<up, enabled, capture>>
      /\ {} \in SUBSET Mods /\ {} \in SUBSET Keys /\ {} \in SUBSET Buttons /\ TRUE \in BOOLEAN
  BY DEF TypeOK, PreviewTypeOK, daemonVars, GrabWorker, WorkerSend, uiVars
<1>2. \A v \in Workers \ {w} : worker'[v] = worker[v]
  BY <1>1 DEF GrabWorker, WorkerSend
<1>3. CASE worker'[w] \in {"escUp", "mUp"}
  BY <1>1, <1>3 DEF HandInv, Signalling
<1>4. CASE WorkerSend(w, "mUp", MousePacket({}, TRUE), "hkDown")
  <2>1. worker'[w] = "hkDown"
    BY <1>1, <1>4 DEF WorkerSend
  <2>2. BtSays(Reports', tbtns', {})
    BY <1>1, <1>4, MousePacketSays DEF WorkerSend
  <2>3. QED  BY <1>1, <2>1, <2>2 DEF HandInv, Signalling
<1>5. CASE WorkerSend(w, "hkDown", KbPacket(HotMods, {Hot}), "hkUp")
  <2>1. worker[w] = "hkDown" /\ worker'[w] = "hkUp"
    BY <1>1, <1>5 DEF WorkerSend
  <2>2. BtSays(Reports, tbtns, {}) => BtSays(Reports', tbtns', {})
    <3>1. HotMods \in SUBSET Mods /\ {Hot} \in SUBSET Keys
      BY WireAssumption
    <3>2. QED  BY <1>5, <3>1, KbPacketSays DEF WorkerSend
  <2>3. QED  BY <1>1, <1>2, <2>1, <2>2 DEF HandInv, Signalling
<1>6. CASE WorkerSend(w, "hkUp", KbPacket({}, {}), "idle")
  <2>1. worker[w] = "hkUp"
    BY <1>6 DEF WorkerSend
  <2>2. /\ KbSays(Reports', tmods', tkeys', {}, {})
        /\ BtSays(Reports, tbtns, {}) => BtSays(Reports', tbtns', {})
    BY <1>1, <1>6, KbPacketSays DEF WorkerSend
  <2>3. QED  BY <1>1, <1>2, <2>1, <2>2 DEF HandInv
<1>7. QED  BY <1>1, <1>3, <1>4, <1>5, <1>6 DEF GrabWorker, WorkerSend

\* A step that ends without control and is no worker's: the end of control, or
\* one of the window system.
LEMMA HandPreview ==
  ASSUME [~Mishap]_vars, TypeOK, HandInv, PreviewStep
  PROVE  HandInv'
<1>1. /\ worker \in [Workers -> WorkerStep] /\ UNCHANGED <<daemonVars, targetVars>>
      /\ up' /\ enabled' /\ UNCHANGED <<aio, tmods, tkeys, tbtns>>
  BY DEF TypeOK, PreviewTypeOK, PreviewStep, HandInv, daemonVars, targetVars
<1>2. CASE UNCHANGED <<net, worker, capture>>
  BY <1>1, <1>2 DEF HandInv, Reports, Signalling
<1>3. CASE capture'
  BY <1>1, <1>3 DEF HandInv
<1>4. CASE StartReverseGrab
  <2>1. capture /\ ~capture' /\ UNCHANGED net
    BY <1>4 DEF StartReverseGrab
  <2>2. worker' # worker
    BY <2>1 DEF Mishap, vars, previewVars, uiVars
  <2>3. PICK w \in Workers : worker' = [worker EXCEPT ![w] = "esc"]
    BY <1>4, <2>2 DEF StartReverseGrab
  <2>4. worker'[w] = "esc"
    BY <1>1, <2>3
  <2>5. QED  BY <1>1, <2>4 DEF HandInv, Signalling
<1>5. CASE MouseLeave
  <2>1. CASE ReleaseAllInput
    BY <1>1, <2>1, ReleaseSays DEF HandInv
  <2>2. QED  BY <1>2, <1>5, <2>1 DEF MouseLeave, EndCapture
<1>6. CASE \E w \in Workers : GrabWorker(w)
  BY <1>1, <1>6, HandWorker
<1>7. CASE PointerCrosses \/ PostLeave \/ LoseMouseCapture
  BY <1>2, <1>7 DEF PointerCrosses, PostLeave, LoseMouseCapture, uiVars
<1>8. CASE UserStep /\ ~StartReverseGrab
  BY <1>3, <1>8 DEF UserStep, BeginCapture, MouseMove, MouseWheel, ForwardKey, ButtonDown, ButtonUp, previewVars, uiVars
<1>9. QED  BY <1>4, <1>5, <1>6, <1>7, <1>8 DEF PreviewStep, PreviewNext

\* Steps without a mishap keep HandInv.
LEMMA HandStep ==
  ASSUME [~Mishap]_vars, TypeOK, HandInv, [Next]_vars
  PROVE  HandInv'
<1>1. CASE PreviewStep
  BY <1>1, HandPreview
<1>2. CASE DaemonStep \/ NetworkStep
  <2>1. UNCHANGED <<up, enabled, worker, capture>>
    BY <1>2, DaemonKeeps DEF HandInv, previewVars, uiVars
  <2>2. /\ KbSays(Reports, tmods, tkeys, {}, {}) => KbSays(Reports', tmods', tkeys', {}, {})
        /\ BtSays(Reports, tbtns, {}) => BtSays(Reports', tbtns', {})
    BY <1>2, DaemonKeeps DEF HandInv
  <2>3. QED  BY <2>1, <2>2 DEF HandInv, Signalling
<1>3. CASE UNCHANGED vars
  <2>1. UNCHANGED <<up, enabled, worker, capture, aio, net, tmods, tkeys, tbtns>>
    BY <1>3 DEF vars, previewVars, uiVars, daemonVars, targetVars
  <2>2. QED  BY <2>1 DEF HandInv, Reports, Signalling
<1>4. QED  BY <1>1, <1>2, <1>3 DEF Next

\* HandInv says of the target what ReleasedAfterControl does.
LEMMA HandMeans == HandInv => ReleasedAfterControl
<1> SUFFICES ASSUME HandInv, ~capture, ~Signalling
             PROVE  KeyboardWillBe({}, {}) /\ ButtonsWillBe({})
  BY DEF ReleasedAfterControl
<1>1. KbSays(Reports, tmods, tkeys, {}, {}) /\ BtSays(Reports, tbtns, {})
  BY DEF HandInv, Signalling
<1>2. QED  BY <1>1, KbMeans, BtMeans

\* HandInv holds as long as there is no mishap.
LEMMA HandInvariant == Spec /\ [][~Mishap]_vars => []HandInv
<1>1. TypeOK /\ HandInv /\ [Next]_vars /\ [~Mishap]_vars => HandInv'
  BY HandStep
<1>2. QED  BY <1>1, HandInit, Typing, PTL DEF Spec

\* EndCapture and GrabWorker, whatever may go wrong: until it does, control off
\* and no grab signalling mean that the target is about to hold nothing, however
\* many workers' packets were sent among the window's.
THEOREM ReleasedUnharmed == Spec /\ [][~Mishap]_vars => []ReleasedAfterControl
  BY HandInvariant, HandMeans, PTL

-----------------------------------------------------------------------------
(* InSync                                                                  *)

\* Without control the program believes that nothing is held; with it nobody
\* else sends, and what it believes is what it has sent.
MatchInv ==
    /\ ~capture => mods = {} /\ keys = {} /\ btns = {}
    /\ capture => /\ ~Signalling
                  /\ KbSays(Reports, tmods, tkeys, mods, keys)
                  /\ BtSays(Reports, tbtns, btns)

\* The input forwarded under control.
LEMMA MatchForwards ==
  ASSUME TypeOK, TypeOK', MatchInv, PreviewStep, capture,
         MouseMove \/ MouseWheel \/ ForwardKey \/ \E b \in Buttons : ButtonDown(b) \/ ButtonUp(b)
  PROVE  MatchInv'
<1>1. /\ UNCHANGED <<daemonVars, targetVars>> /\ UNCHANGED <<aio, tmods, tkeys, tbtns>>
      /\ UNCHANGED <<capture, worker>> /\ FALSE \in BOOLEAN
      /\ mods' \in SUBSET Mods /\ keys' \in SUBSET Keys /\ btns' \in SUBSET Buttons
  BY DEF PreviewStep, daemonVars, targetVars, MouseMove, MouseWheel, ForwardKey, ButtonDown, ButtonUp,
     previewVars, uiVars, TypeOK, PreviewTypeOK
<1>2. capture' /\ ~Signalling'
  BY <1>1 DEF MatchInv, Signalling
<1>3. CASE UNCHANGED <<mods, keys, btns, net>>
  BY <1>1, <1>2, <1>3 DEF MatchInv, Reports
<1>4. CASE SendMouse /\ UNCHANGED <<mods, keys>>
  <2>1. BtSays(Reports', tbtns', btns') /\ KbSays(Reports', tmods', tkeys', mods, keys)
    BY <1>1, <1>4, MousePacketSays DEF MatchInv, SendMouse
  <2>2. QED  BY <1>2, <1>4, <2>1 DEF MatchInv
<1>5. CASE SendKeyboard /\ UNCHANGED btns
  <2>1. KbSays(Reports', tmods', tkeys', mods', keys') /\ BtSays(Reports', tbtns', btns)
    BY <1>1, <1>5, KbPacketSays DEF MatchInv, SendKeyboard
  <2>2. QED  BY <1>2, <1>5, <2>1 DEF MatchInv
<1>6. QED
  BY <1>3, <1>4, <1>5 DEF MouseMove, MouseWheel, ForwardKey, ButtonDown, ButtonUp, previewVars, uiVars

\* MatchInv: the steps of the application.
LEMMA MatchPreview ==
  ASSUME Patient, TypeOK, TypeOK', MatchInv, PreviewStep
  PROVE  MatchInv'
<1>1. UNCHANGED <<daemonVars, targetVars>> /\ UNCHANGED <<aio, tmods, tkeys, tbtns>>
  BY DEF PreviewStep, daemonVars, targetVars
<1>2. CASE UNCHANGED <<net, worker, uiVars>>
  BY <1>1, <1>2 DEF MatchInv, Reports, Signalling, uiVars
<1>3. CASE BeginCapture
  <2>1. ~Signalling' /\ ReleaseAllInput
    BY <1>3 DEF BeginCapture, Patient, Signalling
  <2>2. mods' = {} /\ keys' = {} /\ btns' = {} /\ capture'
    BY <1>3, <2>1 DEF ReleaseAllInput, BeginCapture
  <2>3. KbSays(Reports', tmods', tkeys', {}, {}) /\ BtSays(Reports', tbtns', {})
    BY <1>1, <2>1, ReleaseSays
  <2>4. QED  BY <2>1, <2>2, <2>3 DEF MatchInv
<1>4. CASE StartReverseGrab
  BY <1>4 DEF StartReverseGrab, MatchInv
<1>5. CASE MouseLeave
  <2>1. CASE capture /\ ~capture' /\ ReleaseAllInput
    BY <2>1 DEF ReleaseAllInput, MatchInv
  <2>2. CASE UNCHANGED <<capture, mods, keys, btns>> /\ ~capture
    BY <2>2 DEF MatchInv
  <2>3. QED  BY <1>5, <2>1, <2>2 DEF MouseLeave, EndCapture
<1>6. CASE \E w \in Workers : GrabWorker(w)
  <2>1. Signalling /\ UNCHANGED uiVars
    BY <1>6 DEF GrabWorker, WorkerSend, Signalling
  <2>2. QED  BY <2>1 DEF MatchInv, uiVars
<1>7. CASE PointerCrosses \/ PostLeave \/ LoseMouseCapture
  BY <1>2, <1>7 DEF PointerCrosses, PostLeave, LoseMouseCapture
<1>8. CASE MouseMove \/ MouseWheel \/ ForwardKey \/ \E b \in Buttons : ButtonDown(b) \/ ButtonUp(b)
  <2>1. capture
    BY <1>8 DEF MouseMove, MouseWheel, ForwardKey, ButtonDown, ButtonUp
  <2>2. QED  BY <1>8, <2>1, MatchForwards
<1>9. QED  BY <1>3, <1>4, <1>5, <1>6, <1>7, <1>8 DEF PreviewStep, PreviewNext, UserStep

\* Steps without a mishap keep MatchInv.
LEMMA MatchStep ==
  ASSUME [~Mishap]_vars, Patient, TypeOK, TypeOK', HandInv, MatchInv, [Next]_vars
  PROVE  MatchInv'
<1>1. CASE PreviewStep
  BY <1>1, MatchPreview
<1>2. CASE DaemonStep \/ NetworkStep
  <2>1. UNCHANGED <<worker, uiVars>>
    BY <1>2, DaemonKeeps DEF HandInv, previewVars
  <2>2. /\ KbSays(Reports, tmods, tkeys, mods, keys) => KbSays(Reports', tmods', tkeys', mods, keys)
        /\ BtSays(Reports, tbtns, btns) => BtSays(Reports', tbtns', btns)
    BY <1>2, DaemonKeeps DEF HandInv
  <2>3. QED  BY <2>1, <2>2 DEF MatchInv, Signalling, uiVars
<1>3. CASE UNCHANGED vars
  <2>1. UNCHANGED <<worker, uiVars, aio, net, tmods, tkeys, tbtns>>
    BY <1>3 DEF vars, previewVars, daemonVars, targetVars
  <2>2. QED  BY <2>1 DEF MatchInv, Reports, Signalling, uiVars
<1>4. QED  BY <1>1, <1>2, <1>3 DEF Next

\* MatchInv says of the target what InSync does.
LEMMA MatchMeans == HandInv /\ MatchInv => InSync
<1> SUFFICES ASSUME HandInv, MatchInv, ~Signalling
             PROVE  KeyboardWillBe(mods, keys) /\ ButtonsWillBe(btns)
  BY DEF InSync
<1>1. KbSays(Reports, tmods, tkeys, mods, keys) /\ BtSays(Reports, tbtns, btns)
  BY DEF HandInv, MatchInv, Signalling
<1>2. QED  BY <1>1, KbMeans, BtMeans

\* MatchInv holds with a patient user, as long as there is no mishap.
LEMMA MatchInvariant == ASSUME Patient PROVE Spec /\ [][~Mishap]_vars => []MatchInv
<1>1. Init => MatchInv
  BY DEF Init, PreviewInit, MatchInv
<1>2. TypeOK /\ TypeOK' /\ HandInv /\ MatchInv /\ [Next]_vars /\ [~Mishap]_vars => MatchInv'
  BY MatchStep
<1>3. QED  BY <1>1, <1>2, HandInvariant, Typing, PTL DEF Spec

\* g_mods, g_keys and g_btns against the reports, for a user who lets a grab
\* signal: until something is lost the target ends up holding exactly what the
\* program believes.
THEOREM SynchronizedUnharmed == ASSUME Patient PROVE Spec /\ [][~Mishap]_vars => []InSync
  BY HandInvariant, MatchInvariant, MatchMeans, PTL

-----------------------------------------------------------------------------
(* NoStrayDrop                                                             *)

\* No mouse packet that presses the left button.
NoPress(p) == p.kind = "mouse" => Left \notin p.btns

\* When the i-th report of q gets to a target whose drag is d, that drag is
\* over: it is not live and no press comes first, or ESC comes after the last.
CancelledBy(q, d, i) ==
    \/ d # "live" /\ \A k \in 1 .. i-1 : NoPress(q[k])
    \/ \E j \in 1 .. i-1 :
          /\ q[j].kind = "kb" /\ Esc \in q[j].keys
          /\ \A k \in j+1 .. i-1 : NoPress(q[k])

GrabsCancelled(q, d) ==
    \A i \in DOMAIN q : q[i].kind = "mouse" /\ q[i].grab => CancelledBy(q, d, i)

\* Every button-up of a GrabWorker comes after its ESC, and so will that of one
\* that has sent ESC.
CancelInv ==
    /\ GrabsCancelled(Reports, drag)
    /\ (\E w \in Workers : worker[w] \in {"escUp", "mUp"}) => CancelledBy(Reports, drag, Len(Reports) + 1)

\* A report behind the i-th one does not matter to it.
LEMMA CancelledStays ==
  ASSUME NEW q \in Seq(Packet), NEW p \in Packet, NEW d, NEW i \in 1 .. Len(q) + 1, CancelledBy(q, d, i)
  PROVE  CancelledBy(Append(q, p), d, i)
<1>1. \A k \in 1 .. i-1 : k \in 1 .. Len(q) /\ Append(q, p)[k] = q[k]
  OBVIOUS
<1>2. \A j \in 1 .. i-1 : \A k \in j+1 .. i-1 : k \in 1 .. i-1
  OBVIOUS
<1>3. QED  BY <1>1, <1>2 DEF CancelledBy

\* Where the grabs' packets are in a queue that grows at its end.
LEMMA GrabsStay ==
  ASSUME NEW q \in Seq(Packet), NEW p \in Packet, NEW d, GrabsCancelled(q, d),
         p.kind = "mouse" /\ p.grab => CancelledBy(q, d, Len(q) + 1)
  PROVE  GrabsCancelled(Append(q, p), d)
<1> SUFFICES ASSUME NEW i \in DOMAIN Append(q, p), Append(q, p)[i].kind = "mouse", Append(q, p)[i].grab
             PROVE  CancelledBy(Append(q, p), d, i)
  BY DEF GrabsCancelled
<1>1. i \in 1 .. Len(q) + 1 /\ Len(q) \in Nat /\ DOMAIN q = 1 .. Len(q)
  OBVIOUS
<1>2. CASE i = Len(q) + 1
  <2>1. Append(q, p)[i] = p
    BY <1>2
  <2>2. QED  BY <1>1, <1>2, <2>1, CancelledStays
<1>3. CASE i \in 1 .. Len(q)
  <2>1. Append(q, p)[i] = q[i]
    BY <1>3
  <2>2. CancelledBy(q, d, i)
    BY <1>1, <1>3, <2>1 DEF GrabsCancelled
  <2>3. QED  BY <1>1, <2>2, CancelledStays
<1>4. QED  BY <1>1, <1>2, <1>3

\* A packet that does not press leaves a drag cancelled, and ESC cancels it.
LEMMA CancelledOn ==
  ASSUME NEW q \in Seq(Packet), NEW p \in Packet, NEW d, NoPress(p),
         CancelledBy(q, d, Len(q) + 1) \/ (p.kind = "kb" /\ Esc \in p.keys)
  PROVE  CancelledBy(Append(q, p), d, Len(Append(q, p)) + 1)
<1>1. /\ Len(q) \in Nat /\ Len(Append(q, p)) + 1 = Len(q) + 2
      /\ Append(q, p)[Len(q) + 1] = p
      /\ \A k \in 1 .. Len(q) : Append(q, p)[k] = q[k]
  OBVIOUS
<1>2. CASE p.kind = "kb" /\ Esc \in p.keys
  <2>1. Len(q) + 1 \in 1 .. (Len(q) + 2) - 1 /\ \A k \in (Len(q) + 1) + 1 .. (Len(q) + 2) - 1 : FALSE
    BY <1>1
  <2>2. QED  BY <1>1, <1>2, <2>1 DEF CancelledBy
<1>3. CASE d # "live" /\ \A k \in 1 .. (Len(q) + 1) - 1 : NoPress(q[k])
  <2>1. ASSUME NEW k \in 1 .. (Len(q) + 2) - 1 PROVE NoPress(Append(q, p)[k])
    <3>1. k = Len(q) + 1 \/ (k \in 1 .. Len(q) /\ k \in 1 .. (Len(q) + 1) - 1)
      BY <1>1, <2>1
    <3>2. QED  BY <1>1, <1>3, <3>1
  <2>2. QED  BY <1>1, <1>3, <2>1 DEF CancelledBy
<1>4. CASE \E j \in 1 .. (Len(q) + 1) - 1 :
             /\ q[j].kind = "kb" /\ Esc \in q[j].keys
             /\ \A k \in j+1 .. (Len(q) + 1) - 1 : NoPress(q[k])
  <2>1. PICK j \in 1 .. (Len(q) + 1) - 1 :
             /\ q[j].kind = "kb" /\ Esc \in q[j].keys
             /\ \A k \in j+1 .. (Len(q) + 1) - 1 : NoPress(q[k])
    BY <1>4
  <2>2. j \in 1 .. Len(q) /\ j \in 1 .. (Len(q) + 2) - 1 /\ Append(q, p)[j] = q[j]
    BY <1>1
  <2>3. ASSUME NEW k \in j+1 .. (Len(q) + 2) - 1 PROVE NoPress(Append(q, p)[k])
    <3>1. k = Len(q) + 1 \/ (k \in 1 .. Len(q) /\ k \in j+1 .. (Len(q) + 1) - 1)
      BY <1>1, <2>2, <2>3
    <3>2. QED  BY <1>1, <2>1, <3>1
  <2>4. QED  BY <1>1, <2>1, <2>2, <2>3 DEF CancelledBy
<1>5. QED  BY <1>2, <1>3, <1>4 DEF CancelledBy

\* Polling brings every report one closer.
LEMMA CancelledPolled ==
  ASSUME NEW q \in Seq(Packet), q # <<>>, NEW d, NEW e, NEW i \in 1 .. Len(q), CancelledBy(q, d, i + 1),
         d # "live" /\ NoPress(q[1]) => e # "live",
         q[1].kind = "kb" /\ Esc \in q[1].keys => e # "live"
  PROVE  CancelledBy(Tail(q), e, i)
<1>1. /\ Len(q) \in Nat \ {0} /\ i \in Nat /\ (i + 1) - 1 = i
      /\ \A k \in 1 .. i-1 : Tail(q)[k] = q[k+1] /\ k + 1 \in 1 .. i /\ k + 1 \in 2 .. i
  BY HeadTailProperties
<1>2. CASE d # "live" /\ \A k \in 1 .. i : NoPress(q[k])
  <2>1. 1 \in 1 .. i
    BY <1>1
  <2>2. QED  BY <1>1, <1>2, <2>1 DEF CancelledBy
<1>3. CASE \E j \in 1 .. i :
             /\ q[j].kind = "kb" /\ Esc \in q[j].keys
             /\ \A k \in j+1 .. i : NoPress(q[k])
  <2>1. PICK j \in 1 .. i :
             /\ q[j].kind = "kb" /\ Esc \in q[j].keys
             /\ \A k \in j+1 .. i : NoPress(q[k])
    BY <1>3
  <2>2. CASE j = 1
    <3>1. \A k \in 2 .. i : NoPress(q[k])
      BY <2>1, <2>2
    <3>2. QED  BY <1>1, <2>1, <2>2, <3>1 DEF CancelledBy
  <2>3. CASE j # 1
    <3>1. j - 1 \in 1 .. i-1 /\ Tail(q)[j-1] = q[j]
      <4>1. j - 1 \in 1 .. i-1 /\ (j - 1) + 1 = j
        BY <1>1, <2>3
      <4>2. QED  BY <1>1, <4>1
    <3>2. ASSUME NEW k \in (j-1)+1 .. i-1 PROVE NoPress(Tail(q)[k])
      <4>1. k \in 1 .. i-1 /\ k + 1 \in j+1 .. i
        BY <1>1, <2>3, <3>2
      <4>2. QED  BY <1>1, <2>1, <4>1
    <3>3. QED  BY <2>1, <3>1, <3>2 DEF CancelledBy
  <2>4. QED  BY <2>2, <2>3
<1>4. QED  BY <1>1, <1>2, <1>3 DEF CancelledBy

\* The target's drag when it polls.
LEMMA CancelPoll ==
  ASSUME TypeOK, CancelInv, Poll, UNCHANGED worker
  PROVE  CancelInv'
<1> DEFINE q == Reports
<1>1. /\ q \in Seq(Packet) /\ q # <<>> /\ Reports' = Tail(q) /\ q[1] = Head(aio) /\ q[1] \in Packet
  BY PollTakes
<1>2. /\ q[1].kind = "mouse" => drag' = DragAfter(q[1].btns)
      /\ q[1].kind = "kb" => drag' = IF Esc \in q[1].keys /\ drag = "live" THEN "cancelled" ELSE drag
      /\ q[1].kind \in {"kb", "mouse"}
  <2>1. q[1].kind \in {"kb", "mouse"}
    BY <1>1 DEF Packet
  <2>2. QED  BY <1>1, <2>1 DEF Poll
<1> HIDE DEF q
<1>3. /\ drag # "live" /\ NoPress(q[1]) => drag' # "live"
      /\ q[1].kind = "kb" /\ Esc \in q[1].keys => drag' # "live"
  BY <1>2 DEF NoPress, DragAfter
<1>4. /\ Len(q) \in Nat \ {0} /\ Len(Tail(q)) + 1 = Len(q)
      /\ \A i \in DOMAIN Tail(q) : /\ i + 1 \in DOMAIN q /\ Tail(q)[i] = q[i+1]
                                   /\ i \in 1 .. Len(q)
  BY <1>1, HeadTailProperties
<1>5. GrabsCancelled(Tail(q), drag')
  <2> SUFFICES ASSUME NEW i \in DOMAIN Tail(q), Tail(q)[i].kind = "mouse", Tail(q)[i].grab
               PROVE  CancelledBy(Tail(q), drag', i)
    BY DEF GrabsCancelled
  <2>1. CancelledBy(q, drag, i + 1)
    BY <1>4 DEF CancelInv, GrabsCancelled, q
  <2>2. QED  BY <1>1, <1>3, <1>4, <2>1, CancelledPolled
<1>6. ASSUME CancelledBy(q, drag, Len(q) + 1) PROVE CancelledBy(Tail(q), drag', Len(Tail(q)) + 1)
  <2>1. Len(q) \in 1 .. Len(q)
    BY <1>4
  <2>2. CancelledBy(Tail(q), drag', Len(q))
    BY <1>1, <1>3, <1>6, <2>1, CancelledPolled
  <2>3. QED  BY <1>4, <2>2
<1>7. QED  BY <1>1, <1>5, <1>6 DEF CancelInv, q

\* What a controlling window sends is no worker's, and no worker is signalling.
LEMMA CancelWindow ==
  ASSUME TypeOK, CancelInv, UNCHANGED <<daemonVars, targetVars>>, ~Signalling',
         \/ UNCHANGED net
         \/ \E p \in Packet : Send(p) /\ ~(p.kind = "mouse" /\ p.grab)
         \/ ReleaseAllInput
  PROVE  CancelInv'
<1>1. Reports \in Seq(Packet) /\ GrabsCancelled(Reports, drag) /\ drag' = drag /\ UNCHANGED aio
  BY ReportsType DEF CancelInv, targetVars, daemonVars
<1>2. ~(\E w \in Workers : worker'[w] \in {"escUp", "mUp"})
  BY DEF Signalling
<1>3. CASE UNCHANGED net
  BY <1>1, <1>2, <1>3 DEF CancelInv, Reports
<1>4. CASE \E p \in Packet : Send(p) /\ ~(p.kind = "mouse" /\ p.grab)
  <2>1. PICK p \in Packet : Send(p) /\ ~(p.kind = "mouse" /\ p.grab)
    BY <1>4
  <2>2. Reports' = Append(Reports, p)
    BY <1>1, <2>1, SendAppends
  <2>3. QED  BY <1>1, <1>2, <2>1, <2>2, GrabsStay DEF CancelInv
<1>5. CASE ReleaseAllInput
  <2> DEFINE p == KbPacket({}, {})  q == MousePacket({}, FALSE)  r == Append(Reports, p)
  <2>1. /\ p \in Packet /\ p.kind = "kb" /\ q \in Packet /\ ~q.grab
    BY PacketTypes DEF KbPacket, MousePacket
  <2>2. SendTwo(p, q)
    BY <1>5 DEF ReleaseAllInput
  <2> HIDE DEF p, q, r
  <2>3. Reports' = Append(r, q) /\ r \in Seq(Packet)
    BY <1>1, <2>1, <2>2, SendTwoAppends, AppendProperties DEF r
  <2>4. GrabsCancelled(r, drag)
    BY <1>1, <2>1, GrabsStay DEF r
  <2>5. GrabsCancelled(Append(r, q), drag)
    BY <2>1, <2>3, <2>4, GrabsStay
  <2>6. QED  BY <1>1, <1>2, <2>3, <2>5 DEF CancelInv
<1>6. QED  BY <1>3, <1>4, <1>5

\* A GrabWorker sends its button-up after ESC, and no worker presses.
LEMMA CancelWorker ==
  ASSUME TypeOK, CancelInv, UNCHANGED <<daemonVars, targetVars>>, NEW w \in Workers, GrabWorker(w)
  PROVE  CancelInv'
<1>1. /\ Reports \in Seq(Packet) /\ GrabsCancelled(Reports, drag) /\ drag' = drag /\ UNCHANGED aio
      /\ worker \in [Workers -> WorkerStep]
  BY ReportsType DEF CancelInv, targetVars, daemonVars, TypeOK, PreviewTypeOK
<1>2. \A v \in Workers \ {w} : worker'[v] = worker[v]
  BY <1>1 DEF GrabWorker, WorkerSend
<1>3. ASSUME NEW p \in Packet, Send(p), NoPress(p),
             p.kind = "mouse" /\ p.grab => worker[w] = "mUp",
             \/ p.kind = "kb" /\ Esc \in p.keys
             \/ worker'[w] \in {"escUp", "mUp"} => worker[w] \in {"escUp", "mUp"}
      PROVE  CancelInv'
  <2>1. Reports' = Append(Reports, p)
    BY <1>1, <1>3, SendAppends
  <2>2. GrabsCancelled(Append(Reports, p), drag)
    BY <1>1, <1>3, GrabsStay DEF CancelInv
  <2>3. ASSUME NEW v \in Workers, worker'[v] \in {"escUp", "mUp"}
        PROVE  CancelledBy(Append(Reports, p), drag, Len(Append(Reports, p)) + 1)
    <3>1. CASE p.kind = "kb" /\ Esc \in p.keys
      BY <1>1, <1>3, <3>1, CancelledOn
    <3>2. CASE worker'[w] \in {"escUp", "mUp"} => worker[w] \in {"escUp", "mUp"}
      <4>1. worker[v] \in {"escUp", "mUp"} \/ worker[w] \in {"escUp", "mUp"}
        BY <1>2, <2>3, <3>2
      <4>2. CancelledBy(Reports, drag, Len(Reports) + 1)
        BY <4>1 DEF CancelInv
      <4>3. QED  BY <1>1, <1>3, <4>2, CancelledOn
    <3>3. QED  BY <1>3, <3>1, <3>2
  <2>4. QED  BY <1>1, <2>1, <2>2, <2>3 DEF CancelInv
<1>4. /\ KbPacket({}, {Esc}) \in Packet /\ KbPacket({}, {}) \in Packet
      /\ KbPacket(HotMods, {Hot}) \in Packet /\ MousePacket({}, TRUE) \in Packet
      /\ \A m, ks : KbPacket(m, ks).kind = "kb" /\ KbPacket(m, ks).keys = ks /\ NoPress(KbPacket(m, ks))
      /\ MousePacket({}, TRUE).kind = "mouse" /\ NoPress(MousePacket({}, TRUE))
  BY PacketTypes, WireAssumption DEF KbPacket, MousePacket, NoPress
<1>5. CASE WorkerSend(w, "esc", KbPacket({}, {Esc}), "escUp")
  BY <1>3, <1>4, <1>5 DEF WorkerSend
<1>6. CASE WorkerSend(w, "escUp", KbPacket({}, {}), "mUp")
  BY <1>3, <1>4, <1>6 DEF WorkerSend
<1>7. CASE WorkerSend(w, "mUp", MousePacket({}, TRUE), "hkDown")
  BY <1>3, <1>4, <1>7 DEF WorkerSend
<1>8. CASE WorkerSend(w, "hkDown", KbPacket(HotMods, {Hot}), "hkUp")
  <2>1. worker'[w] = "hkUp"
    BY <1>1, <1>8 DEF WorkerSend
  <2>2. QED  BY <1>3, <1>4, <1>8, <2>1 DEF WorkerSend
<1>9. CASE WorkerSend(w, "hkUp", KbPacket({}, {}), "idle")
  <2>1. worker'[w] = "idle"
    BY <1>1, <1>9 DEF WorkerSend
  <2>2. QED  BY <1>3, <1>4, <1>9, <2>1 DEF WorkerSend
<1>10. QED  BY <1>5, <1>6, <1>7, <1>8, <1>9 DEF GrabWorker

\* CancelInv: the steps of the application.
LEMMA CancelPreview ==
  ASSUME Patient, TypeOK, TypeOK', MatchInv, MatchInv', CancelInv, PreviewStep
  PROVE  CancelInv'
<1>1. /\ UNCHANGED <<daemonVars, targetVars>> /\ UNCHANGED <<aio, drag>>
      /\ worker \in [Workers -> WorkerStep] /\ FALSE \in BOOLEAN
      /\ mods' \in SUBSET Mods /\ keys' \in SUBSET Keys /\ btns' \in SUBSET Buttons
  BY DEF PreviewStep, daemonVars, targetVars, TypeOK, PreviewTypeOK
<1>2. CASE UNCHANGED <<net, worker>>
  BY <1>1, <1>2 DEF CancelInv, Reports
<1>3. CASE \E w \in Workers : GrabWorker(w)
  BY <1>1, <1>3, CancelWorker
<1>4. CASE PointerCrosses \/ PostLeave \/ LoseMouseCapture
  BY <1>2, <1>4 DEF PointerCrosses, PostLeave, LoseMouseCapture
<1>5. CASE BeginCapture
  <2>1. ~Signalling' /\ ReleaseAllInput
    BY <1>5 DEF BeginCapture, Patient, Signalling
  <2>2. QED  BY <1>1, <2>1, CancelWindow
<1>6. CASE StartReverseGrab
  <2>1. UNCHANGED net /\ ~Signalling
    BY <1>6 DEF StartReverseGrab, MatchInv
  <2>2. ~(\E w \in Workers : worker'[w] \in {"escUp", "mUp"})
    BY <1>1, <1>6, <2>1 DEF StartReverseGrab, Signalling
  <2>3. QED  BY <1>1, <2>1, <2>2 DEF CancelInv, Reports
<1>7. CASE MouseLeave
  <2>1. CASE capture /\ ReleaseAllInput
    <3>1. ~Signalling'
      BY <1>7, <2>1 DEF MouseLeave, MatchInv, Signalling
    <3>2. QED  BY <1>1, <2>1, <3>1, CancelWindow
  <2>2. QED  BY <1>2, <1>7, <2>1 DEF MouseLeave, EndCapture
<1>8. CASE MouseMove \/ MouseWheel \/ ForwardKey \/ \E b \in Buttons : ButtonDown(b) \/ ButtonUp(b)
  <2>1. capture /\ UNCHANGED worker
    BY <1>8 DEF MouseMove, MouseWheel, ForwardKey, ButtonDown, ButtonUp, previewVars
  <2>2. ~Signalling'
    BY <2>1 DEF MatchInv, Signalling
  <2>3. UNCHANGED net \/ SendMouse \/ SendKeyboard
    BY <1>8 DEF MouseMove, MouseWheel, ForwardKey, ButtonDown, ButtonUp
  <2>4. /\ MousePacket(btns', FALSE) \in Packet /\ ~MousePacket(btns', FALSE).grab
        /\ KbPacket(mods', keys') \in Packet /\ KbPacket(mods', keys').kind = "kb"
    BY <1>1, PacketTypes DEF MousePacket, KbPacket
  <2>5. QED  BY <1>1, <2>2, <2>3, <2>4, CancelWindow DEF SendMouse, SendKeyboard
<1>9. QED  BY <1>3, <1>4, <1>5, <1>6, <1>7, <1>8 DEF PreviewStep, PreviewNext, UserStep

\* Steps without a mishap keep CancelInv.
LEMMA CancelStep ==
  ASSUME [~Mishap]_vars, Patient, TypeOK, TypeOK', HandInv, MatchInv, MatchInv', CancelInv, [Next]_vars
  PROVE  CancelInv'
<1>1. CASE PreviewStep
  BY <1>1, CancelPreview
<1>2. CASE DaemonStep /\ ~UNCHANGED vars
  <2>1. UNCHANGED worker /\ up /\ enabled
    BY <1>2, DaemonKeeps DEF HandInv, previewVars
  <2>2. CASE Receive
    <3>1. Reports' = Reports /\ UNCHANGED drag
      BY <2>1, <2>2, ReceiveKeeps DEF Receive, targetVars
    <3>2. QED  BY <2>1, <3>1 DEF CancelInv
  <2>3. CASE Poll
    BY <2>1, <2>3, CancelPoll
  <2>4. enabled'
    BY <1>2 DEF Mishap
  <2>5. ~Disable /\ ~Enable /\ ~Stop /\ ~Start
    BY <2>1, <2>4 DEF Disable, Enable, Stop, Start
  <2>6. QED  BY <1>2, <2>2, <2>3, <2>5 DEF DaemonStep, DaemonNext
<1>3. CASE UNCHANGED vars
  <2>1. UNCHANGED <<worker, aio, net, drag>>
    BY <1>3 DEF vars, previewVars, daemonVars, targetVars
  <2>2. QED  BY <2>1 DEF CancelInv, Reports
<1>4. QED  BY <1>1, <1>2, <1>3, NetworkKeeps DEF Next

\* CancelInv holds with a patient user, as long as there is no mishap.
LEMMA CancelInvariant == ASSUME Patient PROVE Spec /\ [][~Mishap]_vars => []CancelInv
<1>1. Init => CancelInv
  <2> SUFFICES ASSUME Init PROVE CancelInv
    OBVIOUS
  <2>1. Reports = <<>> /\ DOMAIN Reports = {} /\ worker = [w \in Workers |-> "idle"]
    BY DEF Init, DaemonInit, PreviewInit, Reports
  <2>2. QED  BY <2>1 DEF CancelInv, GrabsCancelled
<1>2. TypeOK /\ TypeOK' /\ HandInv /\ MatchInv /\ MatchInv' /\ CancelInv /\ [Next]_vars /\ [~Mishap]_vars
        => CancelInv'
  BY CancelStep
<1>3. QED  BY <1>1, <1>2, HandInvariant, MatchInvariant, Typing, PTL DEF Spec

\* The drag that the oldest report would release is cancelled.
LEMMA CancelMeans ==
  TypeOK /\ CancelInv =>
    (aio # <<>> /\ aio' = Tail(aio) /\ Head(aio).kind = "mouse" /\ Head(aio).grab => drag # "live")
<1> SUFFICES ASSUME TypeOK, CancelInv, aio # <<>>, Head(aio).kind = "mouse", Head(aio).grab
             PROVE  drag # "live"
  OBVIOUS
<1>1. /\ aio \in Seq(Packet) /\ net \in Seq(Packet) /\ Len(aio) \in Nat \ {0} /\ Head(aio) = aio[1]
  BY DEF TypeOK, DaemonTypeOK
<1>2. 1 \in DOMAIN Reports /\ Reports[1] = Head(aio)
  BY <1>1, ConcatProperties DEF Reports
<1>3. CancelledBy(Reports, drag, 1)
  BY <1>2 DEF CancelInv, GrabsCancelled
<1>4. 1 .. 1-1 = {}
  OBVIOUS
<1>5. QED  BY <1>3, <1>4 DEF CancelledBy

\* GrabWorker: "the worker sends ESC + button-up itself, in the right order"
\* (main.cpp:784): for any number of grabs of a user who lets them signal, and
\* until something is lost or overtaken, no drag is live when the button-up of
\* a grab reaches the target.
THEOREM CancelledUnharmed == ASSUME Patient PROVE Spec /\ [][~Mishap]_vars => NoStrayDrop
  BY CancelInvariant, CancelMeans, Typing, PTL DEF NoStrayDrop

-----------------------------------------------------------------------------
(* Where nothing can go wrong                                              *)

\* net grows by the two datagrams of ReleaseAllInput ...
LEMMA ReleaseGrows ==
  ASSUME TypeOK, ReleaseAllInput
  PROVE  Len(net') > Len(net)
<1>1. KbPacket({}, {}) \in Packet /\ MousePacket({}, FALSE) \in Packet /\ net \in Seq(Packet)
  BY PacketTypes DEF TypeOK
<1>2. Append(net, KbPacket({}, {})) \in Seq(Packet) /\ Len(Append(net, KbPacket({}, {}))) = Len(net) + 1
  BY <1>1
<1>3. Len(Append(Append(net, KbPacket({}, {})), MousePacket({}, FALSE))) = Len(net) + 2
  BY <1>1, <1>2
<1>4. QED  BY <1>1, <1>3 DEF ReleaseAllInput, SendTwo

\* ... and by whatever else the application sends.
LEMMA SendsGrow ==
  ASSUME TypeOK, PreviewStep
  PROVE  net' = net \/ Len(net') > Len(net)
<1>1. net \in Seq(Packet) /\ Len(net) \in Nat
  BY DEF TypeOK
<1>2. ASSUME NEW p, Send(p) PROVE Len(net') > Len(net)
  BY <1>1, <1>2 DEF Send
<1>3. ReleaseAllInput => Len(net') > Len(net)
  BY ReleaseGrows
<1>4. CASE BeginCapture \/ MouseLeave
  BY <1>3, <1>4 DEF BeginCapture, MouseLeave, EndCapture
<1>5. CASE MouseMove \/ MouseWheel \/ ForwardKey \/ \E b \in Buttons : ButtonDown(b) \/ ButtonUp(b)
  BY <1>2, <1>5 DEF MouseMove, MouseWheel, ForwardKey, ButtonDown, ButtonUp, SendMouse, SendKeyboard
<1>6. CASE \E w \in Workers : GrabWorker(w)
  BY <1>2, <1>6 DEF GrabWorker, WorkerSend
<1>7. CASE StartReverseGrab \/ PointerCrosses \/ PostLeave \/ LoseMouseCapture
  BY <1>7 DEF StartReverseGrab, PointerCrosses, PostLeave, LoseMouseCapture
<1>8. QED  BY <1>4, <1>5, <1>6, <1>7 DEF PreviewStep, PreviewNext, UserStep

\* Control ends with a report or a GrabWorker, if threads can be created.
LEMMA EndsHandOver ==
  ASSUME Reliable, TypeOK, PreviewStep, capture, ~capture'
  PROVE  ~UNCHANGED <<net, worker>>
<1>1. CASE StartReverseGrab
  <2>1. PICK w \in Workers : worker[w] = "idle" /\ worker' = [worker EXCEPT ![w] = "esc"]
    BY <1>1 DEF StartReverseGrab, Reliable
  <2>2. worker'[w] = "esc"
    BY <2>1 DEF TypeOK, PreviewTypeOK
  <2>3. QED  BY <2>1, <2>2
<1>2. CASE MouseLeave
  <2>1. ReleaseAllInput
    BY <1>2 DEF MouseLeave, EndCapture
  <2>2. Len(net') > Len(net)
    BY <2>1, ReleaseGrows
  <2>3. net \in Seq(Packet)
    BY DEF TypeOK
  <2>4. QED  BY <2>2, <2>3
<1>3. ~(BeginCapture \/ MouseMove \/ MouseWheel \/ ForwardKey)
  BY DEF BeginCapture, MouseMove, MouseWheel, ForwardKey, previewVars, uiVars
<1>4. ~\E b \in Buttons : ButtonDown(b) \/ ButtonUp(b)
  BY DEF ButtonDown, ButtonUp
<1>5. ~\E w \in Workers : GrabWorker(w)
  BY DEF GrabWorker, WorkerSend, uiVars
<1>6. ~(PointerCrosses \/ PostLeave \/ LoseMouseCapture)
  BY DEF PointerCrosses, PostLeave, LoseMouseCapture, uiVars
<1>7. QED  BY <1>1, <1>2, <1>3, <1>4, <1>5, <1>6 DEF PreviewStep, PreviewNext, UserStep

\* No step of the application loses anything.
LEMMA PreviewReliable ==
  ASSUME Reliable, TypeOK, TypeOK', up, enabled, PreviewStep
  PROVE  ~Mishap /\ up' /\ enabled'
<1>1. Len(net) \in Nat /\ Len(net') \in Nat /\ up' /\ enabled'
  BY DEF TypeOK, PreviewStep, daemonVars
<1>2. ~(Len(net') < Len(net)) /\ ~(Len(net') = Len(net) /\ net' # net)
  BY <1>1, SendsGrow
<1>3. ~(capture /\ ~capture' /\ UNCHANGED <<net, worker>>)
  BY EndsHandOver
<1>4. QED  BY <1>1, <1>2, <1>3 DEF Mishap

\* Nor does one of the daemon or the target.
LEMMA DaemonReliable ==
  ASSUME Reliable, TypeOK, up, enabled, DaemonStep
  PROVE  ~Mishap /\ up' /\ enabled'
<1>1. capture' = capture /\ aio \in Seq(Packet) /\ net \in Seq(Packet)
  BY DEF DaemonStep, previewVars, uiVars, TypeOK, DaemonTypeOK
<1>2. CASE Receive
  <2>1. aio' = Append(aio, Head(net)) /\ UNCHANGED <<up, enabled>> /\ net' = Tail(net) /\ net # <<>>
    BY <1>2 DEF Receive, Reliable, EndpointReady, Submit, SubmitAIO
  <2>2. aio' # aio /\ Len(net') # Len(net)
    BY <1>1, <2>1
  <2>3. QED  BY <1>1, <2>1, <2>2 DEF Mishap
<1>3. CASE Poll
  <2>1. net' = net /\ UNCHANGED <<up, enabled>>
    BY <1>3 DEF Poll
  <2>2. ~(Len(net) < Len(net))
    BY <1>1
  <2>3. QED  BY <1>1, <2>1, <2>2 DEF Mishap
<1>4. ~Disable /\ ~Enable /\ ~Stop /\ ~Start
  BY DEF Disable, Enable, Stop, Start, Reliable
<1>5. QED  BY <1>2, <1>3, <1>4 DEF DaemonStep, DaemonNext

\* Mishap is what the faults are about: without "loss", "reorder", "restart",
\* "full" and "thread" there is none.
THEOREM NoMishaps == ASSUME Reliable PROVE Spec => [][~Mishap]_vars
<1>1. Init => up /\ enabled
  BY DEF Init, DaemonInit
<1>2. TypeOK /\ TypeOK' /\ up /\ enabled /\ [Next]_vars => [~Mishap]_vars /\ up' /\ enabled'
  <2> SUFFICES ASSUME TypeOK, TypeOK', up, enabled, [Next]_vars
               PROVE  [~Mishap]_vars /\ up' /\ enabled'
    OBVIOUS
  <2>1. ~NetworkStep
    BY DEF NetworkStep, Lose, Overtake, Reliable
  <2>2. CASE UNCHANGED vars
    BY <2>2 DEF vars, daemonVars
  <2>3. QED  BY <2>1, <2>2, PreviewReliable, DaemonReliable DEF Next
<1>3. QED  BY <1>1, <1>2, Typing, PTL DEF Spec

\* EndCapture and GrabWorker: with control off and no grab signalling the target
\* is about to hold nothing, as long as no datagram can be lost and threads can
\* be created.
THEOREM Released == ASSUME Reliable PROVE Spec => []ReleasedAfterControl
  BY NoMishaps, ReleasedUnharmed, PTL

\* g_mods, g_keys and g_btns are what the target ends up holding, if moreover the
\* user lets a grab signal.
THEOREM Synchronized == ASSUME Reliable, Patient PROVE Spec => []InSync
  BY NoMishaps, SynchronizedUnharmed, PTL

\* GrabWorker cancels the target's drag before it releases the button, on the
\* same conditions.
THEOREM Cancelled == ASSUME Reliable, Patient PROVE Spec => NoStrayDrop
  BY NoMishaps, CancelledUnharmed, PTL

-----------------------------------------------------------------------------
(* What a mishap leaves behind does not last                               *)

\* The function is configured only while the daemon runs.
LEMMA EnabledUp == Spec => [](enabled => up)
<1>1. Init => (enabled => up)
  BY DEF Init, DaemonInit
<1>2. (enabled => up) /\ [Next]_vars => (enabled => up)'
  <2> SUFFICES ASSUME enabled => up, [Next]_vars PROVE (enabled => up)'
    OBVIOUS
  <2>1. CASE UNCHANGED <<up, enabled>>
    BY <2>1
  <2>2. CASE Disable \/ Enable \/ Stop \/ Start
    BY <2>2 DEF Disable, Enable, Stop, Start
  <2>3. QED
    BY <2>1, <2>2 DEF Next, PreviewStep, DaemonStep, DaemonNext, NetworkStep, Receive, Poll, vars, daemonVars
<1>3. QED  BY <1>1, <1>2, PTL DEF Spec

\* Only BeginCapture takes control.
LEMMA OnlyBegins ==
  ASSUME [Next]_vars, ~capture, capture'
  PROVE  BeginCapture /\ PreviewStep
<1>1. ~(DaemonStep \/ NetworkStep \/ UNCHANGED vars)
  BY DEF DaemonStep, NetworkStep, vars, previewVars, uiVars
<1>2. ~(MouseMove \/ MouseWheel \/ ForwardKey \/ StartReverseGrab \/ MouseLeave)
  BY DEF MouseMove, MouseWheel, ForwardKey, StartReverseGrab, MouseLeave, EndCapture
<1>3. ~\E b \in Buttons : ButtonDown(b) \/ ButtonUp(b)
  BY DEF ButtonDown, ButtonUp
<1>4. ~\E w \in Workers : GrabWorker(w)
  BY DEF GrabWorker, WorkerSend, uiVars
<1>5. ~(PointerCrosses \/ PostLeave \/ LoseMouseCapture)
  BY DEF PointerCrosses, PostLeave, LoseMouseCapture, uiVars
<1>6. QED  BY <1>1, <1>2, <1>3, <1>4, <1>5 DEF Next, PreviewStep, PreviewNext, UserStep

\* Taking control establishes HandInv, whatever was lost before.
LEMMA BeginHand ==
  ASSUME [~Mishap]_vars, enabled => up, [Next]_vars, ~capture, capture'
  PROVE  HandInv'
<1>1. UNCHANGED <<up, enabled>> /\ enabled'
  BY OnlyBegins DEF PreviewStep, daemonVars, Mishap, vars, previewVars, uiVars
<1>2. QED  BY <1>1 DEF HandInv

\* And MatchInv, if the user has let the grabs signal.
LEMMA BeginMatch ==
  ASSUME Patient, TypeOK, [Next]_vars, ~capture, capture'
  PROVE  MatchInv'
<1>1. BeginCapture /\ UNCHANGED <<daemonVars, targetVars>>
  BY OnlyBegins DEF PreviewStep
<1>2. ~Signalling' /\ ReleaseAllInput /\ mods' = {} /\ keys' = {} /\ btns' = {}
  BY <1>1 DEF BeginCapture, Patient, Signalling, ReleaseAllInput
<1>3. KbSays(Reports', tmods', tkeys', {}, {}) /\ BtSays(Reports', tbtns', {})
  BY <1>1, <1>2, ReleaseSays
<1>4. QED  BY <1>2, <1>3 DEF MatchInv

\* ReleaseAllInput at both ends of control repairs what was lost, whatever that
\* was: once nothing more is lost and control has come and gone again, control
\* off means for good that the target is about to hold nothing.
THEOREM Recovery == Spec => Recovers
<1>1. TypeOK /\ HandInv /\ [Next]_vars /\ [~Mishap]_vars => HandInv'
  BY HandStep
<1>2. (enabled => up) /\ [Next]_vars /\ [~Mishap]_vars /\ ~capture /\ capture' => HandInv'
  BY BeginHand
<1>3. QED  BY <1>1, <1>2, HandMeans, EnabledUp, Typing, PTL DEF Spec, Recovers

\* And for a user who lets a grab signal, the target holds again what g_mods,
\* g_keys and g_btns say.
THEOREM Resynchronized ==
  ASSUME Patient
  PROVE  Spec => (<>[][~Mishap]_vars /\ []<>capture /\ []<>~capture => <>[]InSync)
<1>1. TypeOK /\ HandInv /\ [Next]_vars /\ [~Mishap]_vars => HandInv'
  BY HandStep
<1>2. (enabled => up) /\ [Next]_vars /\ [~Mishap]_vars /\ ~capture /\ capture' => HandInv'
  BY BeginHand
<1>3. TypeOK /\ TypeOK' /\ HandInv /\ MatchInv /\ [Next]_vars /\ [~Mishap]_vars => MatchInv'
  BY MatchStep
<1>4. TypeOK /\ [Next]_vars /\ ~capture /\ capture' => MatchInv'
  BY BeginMatch
<1>5. QED  BY <1>1, <1>2, <1>3, <1>4, MatchMeans, EnabledUp, Typing, PTL DEF Spec

\* With nothing under way and no grab signalling no drag can be dropped astray.
LEMMA CancelEmpty ==
  ASSUME Reports = <<>>, ~Signalling
  PROVE  CancelInv
<1>1. DOMAIN Reports = {}
  OBVIOUS
<1>2. QED  BY <1>1 DEF CancelInv, GrabsCancelled, Signalling

\* A button-up whose ESC was lost is the last one to go astray: it does no more
\* harm once nothing is lost any more, control has come and gone again and
\* everything under way has been delivered.
THEOREM DragsCancelledAgain ==
  ASSUME Patient
  PROVE  Spec => (/\ <>[][~Mishap]_vars /\ []<>capture /\ []<>~capture
                  /\ []<>(Reports = <<>> /\ ~Signalling)
                  => <>NoStrayDrop)
<1>1. TypeOK /\ HandInv /\ [Next]_vars /\ [~Mishap]_vars => HandInv'
  BY HandStep
<1>2. (enabled => up) /\ [Next]_vars /\ [~Mishap]_vars /\ ~capture /\ capture' => HandInv'
  BY BeginHand
<1>3. TypeOK /\ TypeOK' /\ HandInv /\ MatchInv /\ [Next]_vars /\ [~Mishap]_vars => MatchInv'
  BY MatchStep
<1>4. TypeOK /\ [Next]_vars /\ ~capture /\ capture' => MatchInv'
  BY BeginMatch
<1>5. TypeOK /\ TypeOK' /\ HandInv /\ MatchInv /\ MatchInv' /\ CancelInv /\ [Next]_vars /\ [~Mishap]_vars
        => CancelInv'
  BY CancelStep
<1>6. Reports = <<>> /\ ~Signalling => CancelInv
  BY CancelEmpty
<1>7. QED
  BY <1>1, <1>2, <1>3, <1>4, <1>5, <1>6, CancelMeans, EnabledUp, Typing, PTL DEF Spec, NoStrayDrop

-----------------------------------------------------------------------------
(* Nothing held in the end                                                 *)

\* Everything has been delivered, and no grab signals.
Drained == Reports = <<>> /\ ~Signalling

\* Then the target holds nothing, with control off.
LEMMA DrainedMeans ==
  ASSUME ReleasedAfterControl, ~capture, Drained
  PROVE  tmods = {} /\ tkeys = {} /\ tbtns = {}
<1>1. DOMAIN Reports = {}
  BY DEF Drained
<1>2. QED  BY <1>1 DEF Drained, ReleasedAfterControl, KeyboardWillBe, ButtonsWillBe, OfKind

\* And nobody sends any more until control is taken again.
LEMMA DrainedStays ==
  ASSUME TypeOK, TypeOK', [Next]_vars, ~capture, ~capture', Drained
  PROVE  Drained' /\ UNCHANGED <<tmods, tkeys, tbtns>>
<1>1. aio = <<>> /\ net = <<>>
  BY DEF TypeOK, DaemonTypeOK, Drained, Reports
<1>2. CASE UNCHANGED <<net, aio, worker, tmods, tkeys, tbtns>>
  BY <1>2 DEF Drained, Reports, Signalling
<1>3. ~(BeginCapture \/ MouseMove \/ MouseWheel \/ ForwardKey \/ StartReverseGrab)
      /\ ~(\E b \in Buttons : ButtonDown(b) \/ ButtonUp(b))
  BY DEF BeginCapture, MouseMove, MouseWheel, ForwardKey, StartReverseGrab, ButtonDown, ButtonUp
<1>4. ~\E w \in Workers : GrabWorker(w)
  BY DEF GrabWorker, WorkerSend, Drained, Signalling
<1>5. CASE PreviewStep
  BY <1>2, <1>3, <1>4, <1>5
     DEF PreviewStep, PreviewNext, UserStep, MouseLeave, EndCapture, PointerCrosses, PostLeave,
         LoseMouseCapture, daemonVars, targetVars
<1>6. CASE DaemonStep
  BY <1>1, <1>2, <1>6
     DEF DaemonStep, DaemonNext, Receive, Poll, Disable, Enable, Stop, Start, targetVars, previewVars
<1>7. CASE NetworkStep
  BY <1>1, <1>2, <1>7 DEF NetworkStep, Lose, Overtake, daemonVars, targetVars, previewVars
<1>8. CASE UNCHANGED vars
  BY <1>2, <1>8 DEF vars, previewVars, daemonVars, targetVars
<1>9. QED  BY <1>5, <1>6, <1>7, <1>8 DEF Next

\* EndCapture and GrabWorker: if nothing is lost, and what is under way is
\* delivered and grabs finish once control is off for good, the target is left
\* with nothing held.  That queues drain and grabs finish is what the fairness
\* of the workers, of Receive and of Poll is for.
THEOREM ReleasedAtLast ==
  Spec /\ [][~Mishap]_vars /\ (<>[]~capture => []<>Drained) => ReleasedInTheEnd
<1>1. ReleasedAfterControl /\ ~capture /\ Drained => tmods = {} /\ tkeys = {} /\ tbtns = {}
  BY DrainedMeans
<1>2. TypeOK /\ TypeOK' /\ [Next]_vars /\ ~capture /\ ~capture' /\ Drained => Drained'
  BY DrainedStays
<1>3. QED  BY <1>1, <1>2, ReleasedUnharmed, Typing, PTL DEF Spec, ReleasedInTheEnd
=============================================================================
