--------------------------- MODULE ChatSyncProofs ---------------------------
(***************************************************************************)
(* What ChatSync guarantees for every number of devices, every host and    *)
(* every bound: until a step falls into one of the windows of the code,    *)
(* the cursors are honest, the checkpoint holds what was pruned, a device  *)
(* that reports to have caught up has, and the whole implements ChatLog;   *)
(* no queued edit is lost, windows or not.                                 *)
(*                                                                         *)
(* The argument is about what is in flight.  While the room serves a       *)
(* socket, each row is in the document behind it or in a frame on its way, *)
(* and no frame that raises the cursor overtakes a row it would pass       *)
(* (Flowing).  A dead socket keeps nothing in flight, so the next session  *)
(* starts from the document alone, and asks for what that lacks.           *)
(***************************************************************************)
EXTENDS ChatSync, SequenceTheorems, FiniteSetTheorems, TLAPS

-----------------------------------------------------------------------------
(* The inductive invariant. *)

IsSeq(q) == \E S : q \in Seq(S)

\* The shapes the proof needs: elements of the queues may be anything.
DocShape ==
    /\ DOMAIN doc = Devices /\ DOMAIN mine = Devices /\ DOMAIN cursor = Devices
    /\ DOMAIN opened = Devices /\ DOMAIN resumed = Devices /\ DOMAIN conn = Devices
    /\ DOMAIN pending = Devices /\ \A c \in Devices : IsSeq(pending[c])

DiskShape ==
    /\ DOMAIN saving = Devices
    /\ DOMAIN disk = Devices /\ \A c \in Devices : DOMAIN disk[c] = {"ops", "cursor"}

WireShape ==
    /\ DOMAIN srv = Devices /\ DOMAIN up = Devices
    /\ DOMAIN down = Devices /\ DOMAIN stray = Devices
    /\ \A c \in Devices : IsSeq(up[c]) /\ IsSeq(down[c]) /\ IsSeq(stray[c])

\* The state frame of the handshake is still there when the checkpoint arrives.
Fetching == \A c \in Devices : conn[c] = "fetch" => down[c] # << >>

Shapes == IsSeq(log) /\ DocShape /\ DiskShape /\ WireShape /\ Fetching /\ "at" \in DOMAIN job

\* ops has every row of log l up to n, and l has reached n.
Held(l, ops, n) == n \in 0..Len(l) /\ \A s \in 1..n : l[s].ops \subseteq ops

\* The checkpoint, those on their way, and the one being made hold what they cover.
Covered ==
    /\ Held(log, ckpt.ops, floor) /\ (~ckpt.there => floor = 0)
    /\ \A p \in posts : Held(log, p.ops, p.covered)
    /\ job.at = "read" => conn[Host] # "off" /\ Held(log, doc[Host], job.covered)

\* The document in memory, the one on disk and the one being saved.
Stored(c) ==
    /\ Held(log, doc[c], cursor[c]) /\ Held(log, disk[c].ops, disk[c].cursor)
    /\ conn[c] # "off" => Held(log, doc[c], opened[c])
    /\ disk[c].ops \subseteq doc[c]
    /\ saving[c].on => conn[c] # "off" /\ disk[c].ops \subseteq saving[c].ops
                       /\ saving[c].ops \subseteq doc[c]
    /\ conn[c] = "off" => doc[c] = disk[c].ops /\ ~resumed[c]

\* What device c sends, or sent while it was resumed, it holds.
Own(c) ==
    /\ \A k \in 1..Len(pending[c]) : pending[c][k].ops \subseteq doc[c]
    /\ \A k \in 1..Len(up[c]) : up[c][k].t = "push" => up[c][k].batch.ops \subseteq doc[c]
    /\ resumed[c] => \A s \in 1..Len(log) : log[s].dev = c => log[s].ops \subseteq doc[c]

\* Row s is among the first n frames of q.
Arriving(q, n, s) == \E j \in 1..n : q[j].t = "row" /\ q[j].seq = s

\* Device c is served rows of log l: it has ops, and frames q are on their way to it.
Flowing(l, c, ops, q) ==
    /\ \A s \in 1..Len(l) : l[s].ops \subseteq ops \/ Arriving(q, Len(q), s)
    /\ \A k \in 1..Len(q) :
         /\ q[k].t \in {"row", "ack"} =>
              /\ q[k].seq \in 1..Len(l)
              /\ \A s \in 1..q[k].seq : l[s].ops \subseteq ops \/ Arriving(q, k, s)
         /\ q[k].t = "row" => q[k].ops = l[q[k].seq].ops
         /\ q[k].t = "done" =>
              \A s \in 1..Len(l) : l[s].dev = c => l[s].ops \subseteq ops \/ Arriving(q, k, s)

\* Where a session is: both ends agree.
Dialling(c) == srv[c] = "new" /\ up[c] = <<[t |-> "hello"]>> /\ down[c] = << >>
Greeted(c)  == srv[c] = "greeted" /\ up[c] = << >> /\ down[c] = <<StateFrame>>
Asking(c)   ==
    /\ srv[c] = "greeted" /\ down[c] = << >>
    /\ Held(log, doc[c], floor)
    /\ \E n \in 0..Len(log) : Held(log, doc[c], n) /\ up[c] = <<RowsReq(n, resumed[c])>>
Served(c)   == srv[c] = "served" /\ Flowing(log, c, doc[c], down[c])

Session(c) ==
    /\ conn[c] \in {"off", "down", "hello", "fetch", "backfill", "live"}
    /\ conn[c] \in {"off", "down"} => srv[c] = "new" /\ up[c] = << >> /\ down[c] = << >>
    /\ conn[c] = "hello" => Dialling(c) \/ Greeted(c)
    /\ conn[c] = "fetch" => Greeted(c) /\ ckpt.there
    /\ conn[c] = "backfill" => Asking(c) \/ (Served(c) /\ up[c] = << >>)
    /\ conn[c] = "live" => Served(c) /\ \A k \in 1..Len(up[c]) : up[c][k].t = "push"

Local(c) == Stored(c) /\ Own(c) /\ Session(c)

\* Every import was complete.
NothingParked == parked = [c \in Devices |-> {}]

SyncInv ==
    /\ Shapes
    /\ Sound => Covered /\ NothingParked /\ \A c \in Devices : Local(c)

-----------------------------------------------------------------------------
(* Sequences. *)

\* What concatenation, a prefix, the tail and an append consist of.
LEMMA JoinFacts ==
    ASSUME NEW a, IsSeq(a), NEW b, IsSeq(b)
    PROVE  /\ IsSeq(a \o b) /\ Len(a \o b) = Len(a) + Len(b) /\ Len(a) \in Nat /\ Len(b) \in Nat
           /\ \A i \in 1..Len(a) : (a \o b)[i] = a[i] /\ i \in 1..Len(a \o b)
           /\ \A i \in 1..Len(a \o b) :
                 i > Len(a) => i - Len(a) \in 1..Len(b) /\ (a \o b)[i] = b[i - Len(a)]
<1>1. PICK S : a \in Seq(S)
  BY DEF IsSeq
<1>2. PICK T : b \in Seq(T)
  BY DEF IsSeq
<1>3. a \in Seq(S \cup T) /\ b \in Seq(S \cup T)
  BY <1>1, <1>2
<1>4. /\ a \o b \in Seq(S \cup T) /\ Len(a \o b) = Len(a) + Len(b) /\ Len(a) \in Nat /\ Len(b) \in Nat
      /\ \A i \in 1..Len(a) + Len(b) : (a \o b)[i] = IF i <= Len(a) THEN a[i] ELSE b[i - Len(a)]
  BY <1>3, ConcatProperties
<1>5. QED
  BY <1>4 DEF IsSeq

LEMMA PrefixFacts ==
    ASSUME NEW q, IsSeq(q), NEW k \in 0..Len(q)
    PROVE  /\ IsSeq(SubSeq(q, 1, k)) /\ Len(SubSeq(q, 1, k)) = k
           /\ \A i \in 1..k : SubSeq(q, 1, k)[i] = q[i]
<1>1. PICK S : q \in Seq(S)
  BY DEF IsSeq
<1>2. /\ SubSeq(q, 1, k) \in Seq(S) /\ Len(SubSeq(q, 1, k)) = k
      /\ \A i \in 1..k : SubSeq(q, 1, k)[i] = q[i]
  BY <1>1
<1>3. QED
  BY <1>2 DEF IsSeq

LEMMA TailFacts ==
    ASSUME NEW q, IsSeq(q), q # << >>
    PROVE  /\ Head(q) = q[1] /\ Len(q) \in Nat \ {0}
           /\ IsSeq(Tail(q)) /\ Len(Tail(q)) = Len(q) - 1
           /\ \A i \in 1..Len(Tail(q)) : Tail(q)[i] = q[i + 1] /\ i + 1 \in 1..Len(q)
<1>1. PICK S : q \in Seq(S)
  BY DEF IsSeq
<1>2. /\ Head(q) = q[1] /\ Len(q) \in Nat \ {0}
      /\ Tail(q) \in Seq(S) /\ Len(Tail(q)) = Len(q) - 1
      /\ \A i \in 1..Len(Tail(q)) : Tail(q)[i] = q[i + 1] /\ i + 1 \in 1..Len(q)
  BY <1>1
<1>3. QED
  BY <1>2 DEF IsSeq

LEMMA TailElements ==
    ASSUME NEW q, IsSeq(q), q # << >>
    PROVE  \A k \in 1..Len(Tail(q)) : \E j \in 1..Len(q) : Tail(q)[k] = q[j]
<1> DEFINE p == Tail(q)
<1>1. \A i \in 1..Len(p) : p[i] = q[i + 1] /\ i + 1 \in 1..Len(q)
  BY TailFacts
<1> HIDE DEF p
<1>2. \A k \in 1..Len(p) : \E j \in 1..Len(q) : p[k] = q[j]
  BY <1>1
<1>3. QED
  BY <1>2 DEF p

LEMMA AppendFacts ==
    ASSUME NEW q, IsSeq(q), NEW e
    PROVE  /\ IsSeq(Append(q, e)) /\ Len(Append(q, e)) = Len(q) + 1 /\ Len(q) \in Nat
           /\ Append(q, e)[Len(q) + 1] = e
           /\ \A i \in 1..Len(q) : Append(q, e)[i] = q[i] /\ i \in 1..Len(Append(q, e))
<1>1. PICK S : q \in Seq(S)
  BY DEF IsSeq
<1>2. q \in Seq(S \cup {e}) /\ e \in S \cup {e}
  BY <1>1
<1>3. /\ Append(q, e) \in Seq(S \cup {e}) /\ Len(Append(q, e)) = Len(q) + 1 /\ Len(q) \in Nat
      /\ Append(q, e)[Len(q) + 1] = e
      /\ \A i \in 1..Len(q) : Append(q, e)[i] = q[i]
  BY <1>2, AppendProperties
<1>4. QED
  BY <1>3 DEF IsSeq

LEMMA SmallSeqs ==
    /\ IsSeq(<< >>) /\ Len(<< >>) = 0
    /\ \A e : IsSeq(<<e>>) /\ Len(<<e>>) = 1 /\ <<e>>[1] = e /\ Head(<<e>>) = e /\ Tail(<<e>>) = << >>
<1>1. << >> \in Seq({}) /\ Len(<< >>) = 0
  OBVIOUS
<1>2. ASSUME NEW e
      PROVE  <<e>> \in Seq({e}) /\ Len(<<e>>) = 1 /\ <<e>>[1] = e /\ Head(<<e>>) = e /\ Tail(<<e>>) = << >>
  OBVIOUS
<1>3. QED
  BY <1>1, <1>2 DEF IsSeq

LEMMA SeqLen ==
    ASSUME NEW q, IsSeq(q)
    PROVE  Len(q) \in Nat /\ DOMAIN q = 1..Len(q) /\ (Len(q) = 0 <=> q = << >>)
<1>1. PICK S : q \in Seq(S)
  BY DEF IsSeq
<1>2. QED
  BY <1>1

\* A queue of batches becomes a queue of frames, in order (push_pending).
LEMMA PushesFacts ==
    ASSUME NEW q, IsSeq(q)
    PROVE  /\ IsSeq(Pushes(q)) /\ Len(Pushes(q)) = Len(q)
           /\ \A k \in 1..Len(q) : Pushes(q)[k] = PushFrame(q[k])
<1>1. DOMAIN q = 1..Len(q) /\ Len(q) \in Nat
  BY SeqLen
<1> DEFINE S == {PushFrame(q[k]) : k \in 1..Len(q)}
<1>2. Pushes(q) = [k \in 1..Len(q) |-> PushFrame(q[k])]
  BY <1>1 DEF Pushes
<1>3. Pushes(q) \in Seq(S) /\ Len(Pushes(q)) = Len(q)
  BY <1>1, <1>2
<1>4. QED
  BY <1>2, <1>3 DEF IsSeq

\* A backfill sends every row it selects, in order (rowsAfter).
LEMMA AscendingFacts ==
    ASSUME IsSeq(log), NEW S, S \subseteq 1..Len(log), NEW q \in Ascending(S)
    PROVE  /\ Cardinality(S) \in Nat /\ DOMAIN q = 1..Cardinality(S)
           /\ \A k \in DOMAIN q : q[k] \in S
           /\ \A s \in S : \E k \in DOMAIN q : q[k] = s
           /\ \A i, j \in DOMAIN q : q[i] <= q[j] => i <= j
<1> DEFINE n == Cardinality(S)
           D == 1..n
<1>1. Len(log) \in Nat
  BY SeqLen
<1>2. IsFiniteSet(S) /\ n \in Nat
  <2>1. IsFiniteSet(1..Len(log))
    BY <1>1, FS_Interval
  <2>2. IsFiniteSet(S)
    BY <2>1, FS_Subset
  <2>3. QED
    BY <2>2, FS_CardinalityType
<1> HIDE DEF n
<1>3. q \in [D -> S] /\ \A i, j \in D : i < j => q[i] < q[j]
  BY DEF Ascending, n
<1>4. \A k \in D : q[k] \in Nat
  <2>1. \A s \in S : s \in Nat
    BY <1>1
  <2>2. QED
    BY <1>3, <2>1
<1>5. \A i, j \in D : q[i] <= q[j] => i <= j
  BY <1>2, <1>3, <1>4
<1>6. \A i, j \in D : q[i] = q[j] => i = j
  BY <1>2, <1>4, <1>5
<1>7. IsFiniteSet(D) /\ Cardinality(D) = n
  BY <1>2, FS_Interval
<1>8. q \in Injection(D, S)
  BY <1>3, <1>6 DEF Injection, IsInjective
<1>9. q \in Surjection(D, S)
  BY <1>2, <1>7, <1>8, FS_Injection DEF n
<1>10. QED
  BY <1>2, <1>3, <1>5, <1>9 DEF Surjection, n

\* The frames it sends.
RowFrames(q) == [k \in DOMAIN q |-> RowFrame(q[k], log[q[k]].ops)]

LEMMA RowFramesFacts ==
    ASSUME NEW q, NEW n \in Nat, DOMAIN q = 1..n
    PROVE  /\ IsSeq(RowFrames(q)) /\ Len(RowFrames(q)) = n
           /\ \A k \in 1..n : RowFrames(q)[k] = RowFrame(q[k], log[q[k]].ops)
<1> DEFINE S == {RowFrame(q[k], log[q[k]].ops) : k \in 1..n}
<1>1. RowFrames(q) = [k \in 1..n |-> RowFrame(q[k], log[q[k]].ops)]
  BY DEF RowFrames
<1>2. RowFrames(q) \in Seq(S) /\ Len(RowFrames(q)) = n
  BY <1>1
<1>3. QED
  BY <1>1, <1>2 DEF IsSeq

\* The queue without one batch (Retire).
LEMMA RetireFacts ==
    ASSUME NEW q, IsSeq(q), NEW id, NEW p, p = Retire(q, id)
    PROVE  /\ IsSeq(p)
           /\ \A i \in 1..Len(p) : \E j \in 1..Len(q) : p[i] = q[j]
           /\ \A j \in 1..Len(q) : q[j].id = id \/ \E i \in 1..Len(p) : p[i] = q[j]
<1>1. CASE \E k \in DOMAIN q : q[k].id = id
  <2> DEFINE k == CHOOSE k \in DOMAIN q : q[k].id = id
  <2>1. k \in 1..Len(q) /\ q[k].id = id /\ Len(q) \in Nat
    BY <1>1, SeqLen
  <2>2. p = SubSeq(q, 1, k - 1) \o SubSeq(q, k + 1, Len(q))
    BY <1>1 DEF Retire, RemoveAt
  <2> HIDE DEF k
  <2> DEFINE a == SubSeq(q, 1, k - 1)
             b == SubSeq(q, k + 1, Len(q))
  <2>3. PICK S : q \in Seq(S)
    BY DEF IsSeq
  <2>4. /\ a \in Seq(S) /\ Len(a) = k - 1
        /\ \A i \in 1..Len(a) : a[i] = q[i]
    BY <2>1, <2>3
  <2>5. /\ b \in Seq(S) /\ Len(b) = Len(q) - k
        /\ \A i \in 1..Len(b) : b[i] = q[i + k]
    BY <2>1, <2>3
  <2>6. p = a \o b /\ IsSeq(a) /\ IsSeq(b)
    BY <2>2, <2>4, <2>5 DEF IsSeq
  <2> HIDE DEF a, b
  <2>7. /\ IsSeq(p) /\ Len(p) = Len(a) + Len(b) /\ Len(a) \in Nat /\ Len(b) \in Nat
        /\ \A i \in 1..Len(a) : p[i] = a[i] /\ i \in 1..Len(p)
        /\ \A i \in 1..Len(p) : i > Len(a) => i - Len(a) \in 1..Len(b) /\ p[i] = b[i - Len(a)]
    <3>1. /\ IsSeq(a \o b) /\ Len(a \o b) = Len(a) + Len(b) /\ Len(a) \in Nat /\ Len(b) \in Nat
          /\ \A i \in 1..Len(a) : (a \o b)[i] = a[i] /\ i \in 1..Len(a \o b)
          /\ \A i \in 1..Len(a \o b) :
                i > Len(a) => i - Len(a) \in 1..Len(b) /\ (a \o b)[i] = b[i - Len(a)]
      BY <2>6, JoinFacts, Zenon
    <3>2. QED
      BY <3>1, <2>6, Zenon
  <2>8. ASSUME NEW i \in 1..Len(p) PROVE \E j \in 1..Len(q) : p[i] = q[j]
    <3>1. CASE i <= Len(a)
      <4>1. p[i] = q[i] /\ i \in 1..Len(q)
        BY <3>1, <2>1, <2>4, <2>7
      <4>2. QED
        BY <4>1
    <3>2. CASE ~(i <= Len(a))
      <4>1. p[i] = q[i + 1] /\ i + 1 \in 1..Len(q)
        BY <3>2, <2>1, <2>4, <2>5, <2>7
      <4>2. QED
        BY <4>1
    <3>3. QED
      BY <3>1, <3>2
  <2>9. ASSUME NEW j \in 1..Len(q), q[j].id # id PROVE \E i \in 1..Len(p) : p[i] = q[j]
    <3>1. CASE j < k
      <4>1. j \in 1..Len(p) /\ p[j] = q[j]
        BY <3>1, <2>1, <2>4, <2>7
      <4>2. QED
        BY <4>1
    <3>2. CASE j > k
      <4>1. j - k \in 1..Len(b) /\ j - 1 \in 1..Len(p) /\ j - 1 > Len(a) /\ j - 1 - Len(a) = j - k
        BY <3>2, <2>1, <2>4, <2>5, <2>7
      <4>2. p[j - 1] = b[j - k] /\ b[j - k] = q[j]
        BY <4>1, <2>1, <2>4, <2>5, <2>7
      <4>3. QED
        BY <4>1, <4>2
    <3>3. QED
      BY <3>1, <3>2, <2>1, <2>9
  <2>10. QED
    BY <2>7, <2>8, <2>9
<1>2. CASE ~\E k \in DOMAIN q : q[k].id = id
  BY <1>2 DEF Retire
<1>3. QED
  BY <1>1, <1>2

\* Queue p has every batch of q but id.
Others(q, id, p) == \A j \in 1..Len(q) : q[j].id = id \/ \E i \in 1..Len(p) : p[i] = q[j]

LEMMA RetireOthers ==
    ASSUME NEW q, IsSeq(q), NEW id, NEW p, p = Retire(q, id)
    PROVE  Others(q, id, p)
BY RetireFacts DEF Others

-----------------------------------------------------------------------------
(* Every action keeps the shapes. *)

LEMMA ShapesInit == Init => Shapes
<1> SUFFICES ASSUME Init PROVE Shapes
  OBVIOUS
<1>1. DocShape
  BY SmallSeqs DEF Init, DocShape
<1>2. DiskShape
  BY DEF Init, DiskShape
<1>3. WireShape
  BY SmallSeqs DEF Init, WireShape
<1>4. IsSeq(log) /\ "at" \in DOMAIN job
  BY SmallSeqs DEF Init, Idle
<1>5. Fetching
  BY DEF Init, Fetching
<1>6. QED
  BY <1>1, <1>2, <1>3, <1>4, <1>5 DEF Shapes

LEMMA CutShape ==
    ASSUME WireShape, NEW c \in Devices, Cut(c)
    PROVE  WireShape'
<1>1. PICK k \in 0..Len(up[c]) :
          /\ \A i \in 1..k : up[c][i].t = "push"
          /\ stray' = [stray EXCEPT ![c] = @ \o SubSeq(up[c], 1, k)]
  BY DEF Cut
<1>2. IsSeq(stray[c] \o SubSeq(up[c], 1, k))
  BY JoinFacts, PrefixFacts DEF WireShape
<1>3. QED
  BY <1>1, <1>2, SmallSeqs DEF Cut, WireShape

\* Actions of the device.
LEMMA DeviceShapes ==
    ASSUME Shapes, NEW c \in Devices,
           Edit(c) \/ SaveExport(c) \/ SaveWrite(c) \/ Crash(c) \/ Boot(c) \/ Dial(c) \/ Disconnect(c)
    PROVE  Shapes'
<1> USE DEF Shapes
<1>1. CASE Edit(c)
  <2>1. \A e : IsSeq(Append(pending[c], e))
    BY AppendFacts DEF DocShape
  <2>2. DOMAIN pending' = Devices /\ \A d \in Devices : IsSeq(pending'[d])
    <3>1. pending' = pending
          \/ pending' = [pending EXCEPT
                 ![c] = Append(pending[c], [id |-> batches + 1, ops |-> {made + 1}])]
      BY <1>1 DEF Edit
    <3>2. QED
      BY <3>1, <2>1 DEF DocShape
  <2>3. DOMAIN mine' = Devices /\ DOMAIN doc' = Devices
    BY <1>1 DEF Edit, DocShape
  <2>4. DocShape' /\ Fetching'
    BY <1>1, <2>2, <2>3 DEF Edit, DocShape, Fetching, wire
  <2>5. QED
    BY <1>1, <2>4 DEF Edit, DiskShape, WireShape, room, wire, store, post
<1>2. CASE SaveExport(c)
  BY <1>2 DEF SaveExport, DocShape, DiskShape, WireShape, Fetching, room, client, wire, post, meta, past
<1>3. CASE SaveWrite(c)
  BY <1>3 DEF SaveWrite, DocShape, DiskShape, WireShape, Fetching, room, client, wire, post, meta, past
<1>4. CASE Crash(c)
  <2>1. WireShape'
    BY <1>4, CutShape DEF Crash
  <2>2. DocShape' /\ DiskShape'
    BY <1>4, SmallSeqs DEF Crash, DocShape, DiskShape
  <2>3. IsSeq(log') /\ "at" \in DOMAIN job' /\ Fetching'
    BY <1>4 DEF Crash, Cut, Idle, room, Fetching, DocShape, WireShape
  <2>4. QED
    BY <2>1, <2>2, <2>3
<1>5. CASE Boot(c)
  <2>1. DocShape' /\ Fetching'
    BY <1>5, SmallSeqs DEF Boot, DocShape, Fetching, wire
  <2>2. QED
    BY <1>5, <2>1 DEF Boot, DiskShape, WireShape, room, wire, store, post
<1>6. CASE Dial(c)
  BY <1>6, SmallSeqs
  DEF Dial, DocShape, DiskShape, WireShape, Fetching, room, client, store, post, meta, past
<1>7. CASE Disconnect(c)
  <2>1. WireShape'
    BY <1>7, CutShape DEF Disconnect
  <2>2. DocShape' /\ Fetching'
    BY <1>7 DEF Disconnect, Cut, DocShape, WireShape, Fetching
  <2>3. QED
    BY <1>7, <2>1, <2>2 DEF Disconnect, DiskShape, room, store, post
<1>8. QED
  BY <1>1, <1>2, <1>3, <1>4, <1>5, <1>6, <1>7

\* Actions of the client's session: frames are taken, requests are sent.
LEMMA SessionShapes ==
    ASSUME Shapes, NEW c \in Devices,
           OnState(c) \/ Fetch(c) \/ OnRow(c) \/ OnDone(c) \/ OnAck(c) \/ OnError(c)
           \/ Nudge(c) \/ PushHead(c)
    PROVE  Shapes'
<1> USE DEF Shapes
<1>1. down[c] # << >> => IsSeq(Tail(down[c]))
  BY TailFacts DEF WireShape
<1>2. \A e : IsSeq(Append(up[c], e))
  BY AppendFacts DEF WireShape
<1>3. IsSeq(up[c] \o Pushes(pending[c]))
  BY JoinFacts, PushesFacts DEF WireShape, DocShape
<1>4. IsSeq(up[c] \o HeadBatch(pending[c]))
  BY JoinFacts, SmallSeqs DEF WireShape, HeadBatch
<1>5. CASE OnState(c)
  <2>1. DOMAIN up' = Devices /\ \A d \in Devices : IsSeq(up'[d])
    <3>1. up' = up
          \/ up' = [up EXCEPT
                 ![c] = Append(up[c], RowsReq(RowsAfter(c, Head(down[c])), resumed[c]))]
      BY <1>5 DEF OnState
    <3>2. IsSeq(Append(up[c], RowsReq(RowsAfter(c, Head(down[c])), resumed[c])))
      BY <1>2
    <3>3. QED
      BY <3>1, <3>2 DEF WireShape
  <2>2. DOMAIN down' = Devices /\ \A d \in Devices : IsSeq(down'[d])
    <3>1. down' = down \/ (down[c] # << >> /\ down' = [down EXCEPT ![c] = Tail(down[c])])
      BY <1>5 DEF OnState, Frame
    <3>2. QED
      BY <1>1, <3>1 DEF WireShape
  <2>3. DocShape'
    BY <1>5 DEF OnState, DocShape, meta, past
  <2>4. Fetching'
    BY <1>5 DEF OnState, Frame, Fetching, WireShape, DocShape
  <2>5. QED
    BY <1>5, <2>1, <2>2, <2>3, <2>4 DEF OnState, WireShape, DiskShape, room, store, post
<1>6. CASE Fetch(c)
  <2>1. down[c] # << >>
    BY <1>6 DEF Fetch, Fetching
  <2>2. WireShape' /\ Fetching'
    BY <1>6, <1>1, <1>2, <2>1 DEF Fetch, WireShape, DocShape, Fetching
  <2>3. DocShape' /\ DiskShape'
    BY <1>6 DEF Fetch, Import, Persist, DocShape, DiskShape, meta, past
  <2>4. QED
    BY <1>6, <2>2, <2>3 DEF Fetch, room, post
<1>7. CASE OnRow(c)
  <2>1. WireShape' /\ Fetching'
    BY <1>7, <1>1 DEF OnRow, Reading, Frame, WireShape, Fetching
  <2>2. DocShape' /\ DiskShape'
    BY <1>7 DEF OnRow, Import, Persist, DocShape, DiskShape, meta, past
  <2>3. QED
    BY <1>7, <2>1, <2>2 DEF OnRow, room, post
<1>8. CASE OnDone(c)
  <2>1. WireShape'
    BY <1>8, <1>1, <1>3 DEF OnDone, Frame, WireShape
  <2>2. DocShape' /\ Fetching'
    BY <1>8 DEF OnDone, DocShape, WireShape, Fetching, meta, past
  <2>3. QED
    BY <1>8, <2>1, <2>2 DEF OnDone, DiskShape, room, store, post
<1>9. CASE OnAck(c)
  <2>1. WireShape' /\ Fetching'
    BY <1>9, <1>1 DEF OnAck, Reading, Frame, WireShape, Fetching
  <2>2. IsSeq(Retire(pending[c], Head(down[c]).batch))
    BY RetireFacts DEF DocShape
  <2>3. DocShape'
    BY <1>9, <2>2 DEF OnAck, DocShape, meta, past
  <2>4. DiskShape'
    BY <1>9 DEF OnAck, Persist, DiskShape
  <2>5. QED
    BY <1>9, <2>1, <2>3, <2>4 DEF OnAck, room, post
<1>10. CASE OnError(c)
  <2>1. WireShape' /\ Fetching'
    BY <1>10, <1>1 DEF OnError, Reading, Frame, WireShape, Fetching
  <2>2. QED
    BY <1>10, <2>1 DEF OnError, DocShape, DiskShape, room, store, post, meta, past
<1>11. CASE Nudge(c)
  BY <1>11, <1>3 DEF Nudge, DocShape, DiskShape, WireShape, Fetching, room, store, post, meta, past
<1>12. CASE PushHead(c)
  BY <1>12, <1>4 DEF PushHead, DocShape, DiskShape, WireShape, Fetching, room, store, post, meta, past
<1>13. QED
  BY <1>5, <1>6, <1>7, <1>8, <1>9, <1>10, <1>11, <1>12

\* What a row costs the wires: a frame for each ready socket, an ack for the sender.
LEMMA ApplyShape ==
    ASSUME IsSeq(log), WireShape, NEW c, NEW b, NEW sender, ApplyPush(c, b, sender)
    PROVE  /\ IsSeq(log')
           /\ DOMAIN down' = Devices
           /\ \A d \in Devices : IsSeq(down'[d]) /\ (down[d] # << >> => down'[d] # << >>)
<1> DEFINE Kept(d) == \/ down'[d] = down[d]
                      \/ \E e : down'[d] = Append(down[d], e)
<1>1. DOMAIN down' = Devices /\ \A d \in Devices : Kept(d)
  <2>1. CASE Originals(b) = {}
    BY <2>1 DEF ApplyPush
  <2>2. CASE Originals(b) # {}
    BY <2>2 DEF ApplyPush
  <2>3. QED
    BY <2>1, <2>2
<1>2. ASSUME NEW d \in Devices, Kept(d)
      PROVE  IsSeq(down'[d]) /\ (down[d] # << >> => down'[d] # << >>)
  <2>1. CASE down'[d] = down[d]
    BY <2>1 DEF WireShape
  <2>2. CASE \E e : down'[d] = Append(down[d], e)
    <3>1. PICK e : down'[d] = Append(down[d], e)
      BY <2>2
    <3>2. IsSeq(down'[d]) /\ Len(down'[d]) = Len(down[d]) + 1 /\ Len(down[d]) \in Nat
      BY <3>1, AppendFacts DEF WireShape
    <3>3. QED
      BY <3>2, SmallSeqs
  <2>3. QED
    BY <1>2, <2>1, <2>2
<1> HIDE DEF Kept
<1>3. IsSeq(log')
  <2>1. log' = log \/ log' = Append(log, Row(c, b))
    BY DEF ApplyPush
  <2>2. IsSeq(Append(log, Row(c, b)))
    BY AppendFacts
  <2>3. QED
    BY <2>1, <2>2
<1>4. QED
  BY <1>1, <1>2, <1>3

\* A frame for one device.
LEMMA DownShape ==
    ASSUME WireShape, NEW c \in Devices, NEW q, IsSeq(q), q # << >>, down' = [down EXCEPT ![c] = q]
    PROVE  /\ DOMAIN down' = Devices
           /\ \A d \in Devices : IsSeq(down'[d]) /\ (down[d] # << >> => down'[d] # << >>)
BY DEF WireShape

LEMMA RoomShapes ==
    ASSUME Shapes, NEW c \in Devices, Room(c)
    PROVE  Shapes'
<1> USE DEF Shapes
<1>1. up[c] # << >> => IsSeq(Tail(up[c]))
  BY TailFacts DEF WireShape
<1>2. \A e : IsSeq(Append(down[c], e)) /\ Append(down[c], e) # << >>
  <2>1. ASSUME NEW e PROVE IsSeq(Append(down[c], e)) /\ Append(down[c], e) # << >>
    <3>1. IsSeq(Append(down[c], e)) /\ Len(Append(down[c], e)) = Len(down[c]) + 1 /\ Len(down[c]) \in Nat
      BY AppendFacts DEF WireShape
    <3>2. QED
      BY <3>1, SmallSeqs
  <2>2. QED
    BY <2>1
<1> DEFINE Grown == /\ DOMAIN down' = Devices
                    /\ \A d \in Devices : IsSeq(down'[d]) /\ (down[d] # << >> => down'[d] # << >>)
<1>3. ASSUME Grown, UNCHANGED conn PROVE Fetching'
  BY <1>3 DEF Fetching
<1>4. CASE HandleHello(c)
  <2>1. down' = [down EXCEPT ![c] = Append(down[c], StateFrame)]
    BY <1>4 DEF HandleHello
  <2>2. Grown
    BY <2>1, <1>2, DownShape
  <2> HIDE DEF Grown
  <2>3. DOMAIN up' = Devices /\ DOMAIN srv' = Devices /\ \A d \in Devices : IsSeq(up'[d])
    BY <1>4, <1>1 DEF HandleHello, Arrived, WireShape
  <2>4. WireShape' /\ Fetching'
    BY <1>4, <1>3, <2>2, <2>3 DEF HandleHello, WireShape, Grown
  <2>5. QED
    BY <1>4, <2>4 DEF HandleHello, DocShape, DiskShape, room, client, store, post, meta, past
<1>5. CASE HandleRowsReq(c)
  <2>1. PICK q \in Ascending(Backfill(c, Head(up[c]))) :
            down' = [down EXCEPT ![c] =
                Append(@ \o [k \in DOMAIN q |-> RowFrame(q[k], log[q[k]].ops)], DoneFrame)]
    BY <1>5 DEF HandleRowsReq
  <2> DEFINE p == down[c] \o RowFrames(q)
  <2>2. down' = [down EXCEPT ![c] = Append(p, DoneFrame)]
    BY <2>1 DEF RowFrames
  <2>3. IsSeq(RowFrames(q))
    <3>1. Backfill(c, Head(up[c])) \subseteq 1..Len(log)
      BY DEF Backfill, Retained, HeadSeq
    <3>2. QED
      BY <3>1, AscendingFacts, RowFramesFacts
  <2>4. IsSeq(p)
    BY <2>3, JoinFacts DEF WireShape
  <2> HIDE DEF p
  <2>5. IsSeq(Append(p, DoneFrame)) /\ Append(p, DoneFrame) # << >>
    <3>1. IsSeq(Append(p, DoneFrame)) /\ Len(Append(p, DoneFrame)) = Len(p) + 1 /\ Len(p) \in Nat
      BY <2>4, AppendFacts
    <3>2. QED
      BY <3>1, SmallSeqs
  <2>6. Grown
    BY <2>2, <2>5, DownShape
  <2> HIDE DEF Grown
  <2>7. DOMAIN up' = Devices /\ DOMAIN srv' = Devices /\ \A d \in Devices : IsSeq(up'[d])
    BY <1>5, <1>1 DEF HandleRowsReq, Arrived, WireShape
  <2>8. WireShape' /\ Fetching'
    BY <1>5, <1>3, <2>6, <2>7 DEF HandleRowsReq, WireShape, Grown
  <2>9. QED
    BY <1>5, <2>8 DEF HandleRowsReq, DocShape, DiskShape, room, client, store, post, meta, past
<1>6. CASE HandlePush(c)
  <2>1. Grown /\ IsSeq(log')
    BY <1>6, ApplyShape DEF HandlePush
  <2> HIDE DEF Grown
  <2>2. DOMAIN up' = Devices /\ \A d \in Devices : IsSeq(up'[d])
    BY <1>6, <1>1 DEF HandlePush, Arrived, WireShape
  <2>3. WireShape' /\ Fetching'
    BY <1>6, <1>3, <2>1, <2>2 DEF HandlePush, WireShape, Grown
  <2>4. QED
    BY <1>6, <2>1, <2>3 DEF HandlePush, DocShape, DiskShape, client, store, post, meta, past
<1>7. CASE RefusePush(c)
  <2>1. down' = [down EXCEPT ![c] = Append(down[c], Error(Head(up[c]).batch.id, "quota"))]
    BY <1>7 DEF RefusePush
  <2>2. Grown
    BY <2>1, <1>2, DownShape
  <2> HIDE DEF Grown
  <2>3. DOMAIN up' = Devices /\ \A d \in Devices : IsSeq(up'[d])
    BY <1>7, <1>1 DEF RefusePush, Arrived, WireShape
  <2>4. WireShape' /\ Fetching'
    BY <1>7, <1>3, <2>2, <2>3 DEF RefusePush, WireShape, Grown
  <2>5. QED
    BY <1>7, <2>4 DEF RefusePush, DocShape, DiskShape, room, client, store, post
<1>8. CASE HandleStray(c)
  <2>1. Grown /\ IsSeq(log')
    BY <1>8, ApplyShape DEF HandleStray
  <2> HIDE DEF Grown
  <2>2. DOMAIN stray' = Devices /\ \A d \in Devices : IsSeq(stray'[d])
    BY <1>8, TailFacts DEF HandleStray, WireShape
  <2>3. WireShape' /\ Fetching'
    BY <1>8, <1>3, <2>1, <2>2 DEF HandleStray, WireShape, Grown
  <2>4. QED
    BY <1>8, <2>1, <2>3 DEF HandleStray, DocShape, DiskShape, client, store, post, meta, past
<1>9. QED
  BY <1>4, <1>5, <1>6, <1>7, <1>8 DEF Room

LEMMA ShapesStep == Shapes /\ [Next]_vars => Shapes'
<1> SUFFICES ASSUME Shapes, [Next]_vars PROVE Shapes'
  OBVIOUS
<1>1. ASSUME NEW c \in Devices, Device(c) PROVE Shapes'
  BY <1>1, DeviceShapes, SessionShapes DEF Device
<1>2. ASSUME NEW c \in Devices, Room(c) PROVE Shapes'
  BY <1>2, RoomShapes
<1>3. CASE Checkpoint
  <2>1. UNCHANGED <<log, client, wire, store, conn, mine>>
    BY <1>3 DEF Checkpoint, StartCheckpoint, Export, LosePost, CommitCheckpoint, room, meta, past
  <2>2. "at" \in DOMAIN job'
    BY <1>3 DEF Shapes, Checkpoint, StartCheckpoint, Export, LosePost, CommitCheckpoint, Answered, Idle
  <2>3. QED
    BY <2>1, <2>2 DEF Shapes, DocShape, DiskShape, WireShape, Fetching, client, wire, store
<1>4. CASE Reset
  BY <1>4, SmallSeqs
  DEF Reset, Shapes, DocShape, DiskShape, WireShape, Fetching, client, store, post
<1>5. CASE UNCHANGED vars
  BY <1>5
  DEF vars, room, client, wire, store, post, meta, past, Shapes, DocShape, DiskShape, WireShape, Fetching
<1>6. QED
  BY <1>1, <1>2, <1>3, <1>4, <1>5 DEF Next

-----------------------------------------------------------------------------
(* What is held stays held; what flows keeps flowing. *)

\* Log m is log l, perhaps with another row.
Extends(l, m) == Len(l) \in Nat /\ Len(m) \in Nat /\ Len(l) <= Len(m)
                 /\ \A s \in 1..Len(l) : m[s] = l[s]

LEMMA ExtendsSame ==
    ASSUME NEW l, IsSeq(l)
    PROVE  Extends(l, l) /\ \A r : Extends(l, Append(l, r)) /\ Len(Append(l, r)) = Len(l) + 1
                                   /\ Append(l, r)[Len(l) + 1] = r
<1>1. Extends(l, l)
  BY SeqLen DEF Extends
<1>2. ASSUME NEW r
      PROVE  Extends(l, Append(l, r)) /\ Len(Append(l, r)) = Len(l) + 1 /\ Append(l, r)[Len(l) + 1] = r
  <2>1. /\ Len(Append(l, r)) = Len(l) + 1 /\ Len(l) \in Nat
        /\ Append(l, r)[Len(l) + 1] = r
        /\ \A i \in 1..Len(l) : Append(l, r)[i] = l[i]
    BY AppendFacts
  <2>2. QED
    BY <2>1 DEF Extends
<1>3. QED
  BY <1>1, <1>2

LEMMA HeldMore ==
    ASSUME NEW l, NEW m, Extends(l, m), NEW ops, NEW more, ops \subseteq more, NEW n, Held(l, ops, n)
    PROVE  Held(m, more, n)
BY DEF Held, Extends

\* A frame is taken, and applied if it is a row.
LEMMA FlowTail ==
    ASSUME NEW l, NEW c, NEW ops, NEW q, IsSeq(q), q # << >>, Flowing(l, c, ops, q), IsSeq(l),
           NEW more, ops \subseteq more, Head(q).t = "row" => Head(q).ops \subseteq more
    PROVE  Flowing(l, c, more, Tail(q))
<1> DEFINE p == Tail(q)
<1>1. /\ Head(q) = q[1] /\ Len(q) \in Nat \ {0} /\ Len(p) = Len(q) - 1
      /\ \A i \in 1..Len(p) : p[i] = q[i + 1] /\ i + 1 \in 1..Len(q)
  BY TailFacts
<1> HIDE DEF p
<1>2. ASSUME NEW k \in 1..Len(q), NEW s, l[s].ops \subseteq ops \/ Arriving(q, k, s)
      PROVE  l[s].ops \subseteq more \/ Arriving(p, k - 1, s)
  <2>1. CASE Arriving(q, k, s)
    <3>1. PICK j \in 1..k : q[j].t = "row" /\ q[j].seq = s
      BY <2>1 DEF Arriving
    <3>2. CASE j = 1
      <4>1. q[1].ops = l[s].ops
        BY <3>1, <3>2, <1>1 DEF Flowing
      <4>2. QED
        BY <4>1, <3>1, <3>2, <1>1
    <3>3. CASE j # 1
      <4>1. j - 1 \in 1..(k - 1) /\ j - 1 \in 1..Len(p) /\ p[j - 1] = q[j]
        BY <3>3, <1>1
      <4>2. QED
        BY <3>1, <4>1 DEF Arriving
    <3>4. QED
      BY <3>2, <3>3
  <2>2. QED
    BY <1>2, <2>1
<1>3. ASSUME NEW s \in 1..Len(l) PROVE l[s].ops \subseteq more \/ Arriving(p, Len(p), s)
  <2>1. l[s].ops \subseteq ops \/ Arriving(q, Len(q), s)
    BY DEF Flowing
  <2>2. QED
    BY <1>1, <1>2, <2>1
<1>4. ASSUME NEW k \in 1..Len(p)
      PROVE  /\ p[k].t \in {"row", "ack"} =>
                  /\ p[k].seq \in 1..Len(l)
                  /\ \A s \in 1..p[k].seq : l[s].ops \subseteq more \/ Arriving(p, k, s)
             /\ p[k].t = "row" => p[k].ops = l[p[k].seq].ops
             /\ p[k].t = "done" =>
                  \A s \in 1..Len(l) : l[s].dev = c => l[s].ops \subseteq more \/ Arriving(p, k, s)
  <2>1. p[k] = q[k + 1] /\ k + 1 \in 1..Len(q) /\ (k + 1) - 1 = k
    BY <1>1
  <2>2. /\ q[k + 1].t \in {"row", "ack"} =>
             /\ q[k + 1].seq \in 1..Len(l)
             /\ \A s \in 1..q[k + 1].seq : l[s].ops \subseteq ops \/ Arriving(q, k + 1, s)
        /\ q[k + 1].t = "row" => q[k + 1].ops = l[q[k + 1].seq].ops
        /\ q[k + 1].t = "done" =>
             \A s \in 1..Len(l) : l[s].dev = c => l[s].ops \subseteq ops \/ Arriving(q, k + 1, s)
    BY <2>1 DEF Flowing
  <2>3. \A s : l[s].ops \subseteq ops \/ Arriving(q, k + 1, s)
               => l[s].ops \subseteq more \/ Arriving(p, k, s)
    BY <1>2, <2>1
  <2>4. QED
    BY <2>1, <2>2, <2>3
<1>5. QED
  BY <1>3, <1>4 DEF Flowing, p

\* The room sends a frame, and perhaps has another row.
LEMMA FlowAppend ==
    ASSUME NEW l, NEW m, Extends(l, m), NEW c, NEW ops, NEW q, IsSeq(q), Flowing(l, c, ops, q), NEW e,
           e.t \in {"row", "ack"} => e.seq \in 1..Len(m),
           e.t = "row" => e.ops = m[e.seq].ops,
           \A s \in 1..Len(m) : s > Len(l) =>
               \/ m[s].ops \subseteq ops
               \/ e.t = "row" /\ e.seq = s /\ m[s].dev # c
    PROVE  Flowing(m, c, ops, Append(q, e))
<1> DEFINE p == Append(q, e)
<1>1. /\ Len(p) = Len(q) + 1 /\ Len(q) \in Nat /\ p[Len(q) + 1] = e
      /\ \A i \in 1..Len(q) : p[i] = q[i] /\ i \in 1..Len(p)
  BY AppendFacts
<1> HIDE DEF p
<1>2. ASSUME NEW k \in 1..Len(q), NEW n \in 1..Len(p), k <= n, NEW s, Arriving(q, k, s)
      PROVE  Arriving(p, n, s)
  BY <1>1, <1>2 DEF Arriving
<1>3. ASSUME NEW s \in 1..Len(m) PROVE m[s].ops \subseteq ops \/ Arriving(p, Len(p), s)
  <2>1. CASE s > Len(l)
    <3>1. CASE e.t = "row" /\ e.seq = s
      BY <3>1, <1>1 DEF Arriving
    <3>2. QED
      BY <2>1, <3>1
  <2>2. CASE ~(s > Len(l))
    <3>1. s \in 1..Len(l) /\ m[s] = l[s]
      BY <2>2 DEF Extends
    <3>2. CASE Arriving(q, Len(q), s)
      <4>1. Len(q) \in 1..Len(q)
        BY <3>2, <1>1 DEF Arriving
      <4>2. QED
        BY <4>1, <3>2, <1>1, <1>2
    <3>3. QED
      BY <3>1, <3>2 DEF Flowing
  <2>3. QED
    BY <2>1, <2>2
<1>4. ASSUME NEW k \in 1..Len(p)
      PROVE  /\ p[k].t \in {"row", "ack"} =>
                  /\ p[k].seq \in 1..Len(m)
                  /\ \A s \in 1..p[k].seq : m[s].ops \subseteq ops \/ Arriving(p, k, s)
             /\ p[k].t = "row" => p[k].ops = m[p[k].seq].ops
             /\ p[k].t = "done" =>
                  \A s \in 1..Len(m) : m[s].dev = c => m[s].ops \subseteq ops \/ Arriving(p, k, s)
  <2>1. CASE k = Len(p)
    <3>1. p[k] = e
      BY <2>1, <1>1
    <3>2. QED
      BY <2>1, <3>1, <1>3
  <2>2. CASE k # Len(p)
    <3>1. k \in 1..Len(q) /\ p[k] = q[k]
      BY <2>2, <1>1
    <3>2. \A s : Arriving(q, k, s) => Arriving(p, k, s)
      BY <3>1, <1>2
    <3>3. \A s \in 1..Len(l) : s \in 1..Len(m) /\ m[s] = l[s]
      BY DEF Extends
    <3>4. q[k].t \in {"row", "ack"} =>
              /\ q[k].seq \in 1..Len(l)
              /\ \A s \in 1..q[k].seq : s \in 1..Len(l)
                     /\ (l[s].ops \subseteq ops \/ Arriving(q, k, s))
      BY <3>1 DEF Flowing, Extends
    <3>5. q[k].t = "row" => q[k].ops = l[q[k].seq].ops
      BY <3>1 DEF Flowing
    <3>6. ASSUME q[k].t = "done", NEW s \in 1..Len(m), m[s].dev = c
          PROVE  m[s].ops \subseteq ops \/ Arriving(p, k, s)
      <4>1. CASE s > Len(l)
        BY <4>1, <3>6
      <4>2. CASE ~(s > Len(l))
        <5>1. s \in 1..Len(l)
          BY <4>2 DEF Extends
        <5>2. QED
          BY <5>1, <3>1, <3>2, <3>3, <3>6 DEF Flowing
      <4>3. QED
        BY <4>1, <4>2
    <3>7. QED
      BY <3>1, <3>2, <3>3, <3>4, <3>5, <3>6
  <2>3. QED
    BY <2>1, <2>2
<1>5. QED
  BY <1>3, <1>4 DEF Flowing, p

\* A document with more in it.
LEMMA FlowMore ==
    ASSUME NEW l, NEW c, NEW ops, NEW q, Flowing(l, c, ops, q), NEW more, ops \subseteq more
    PROVE  Flowing(l, c, more, q)
BY DEF Flowing

LEMMA HeldGrow ==
    ASSUME NEW l, NEW ops, NEW more, ops \subseteq more, NEW n, Held(l, ops, n)
    PROVE  Held(l, more, n)
BY DEF Held

-----------------------------------------------------------------------------
(* What one device does leaves the rest of the invariant alone. *)

\* All that Local(d) says of device d.
View(d) == <<doc[d], cursor[d], opened[d], resumed[d], pending[d], disk[d], saving[d],
             conn[d], srv[d], up[d], down[d]>>

LEMMA Elsewhere ==
    ASSUME NEW d \in Devices, Local(d), UNCHANGED <<room, View(d)>>
    PROVE  Local(d)'
<1> USE DEF View, room
<1>1. Stored(d)'
  BY DEF Local, Stored
<1>2. Own(d)'
  BY DEF Local, Own
<1>3. Session(d)'
  BY DEF Local, Session, Dialling, Greeted, StateFrame, HeadSeq, Asking, RowsReq, Served
<1>4. QED
  BY <1>1, <1>2, <1>3 DEF Local

LEMMA CoveredKept ==
    ASSUME Covered, UNCHANGED <<room, posts>>, job' = job \/ job' = Idle,
           job'.at = "read" => conn'[Host] # "off" /\ doc[Host] \subseteq doc'[Host]
    PROVE  Covered'
<1>1. Held(log, ckpt.ops, floor)' /\ (~ckpt.there => floor = 0)'
      /\ (\A p \in posts : Held(log, p.ops, p.covered))'
  BY DEF Covered, room
<1>2. CASE job' = job
  <2>1. job.at = "read" => Held(log, doc'[Host], job.covered)
    BY <1>2, HeldGrow DEF Covered
  <2>2. QED
    BY <1>1, <1>2, <2>1 DEF Covered, room
<1>3. CASE job' = Idle
  BY <1>1, <1>3 DEF Covered, Idle
<1>4. QED
  BY <1>2, <1>3

Synced == Covered /\ \A c \in Devices : Local(c)

\* A step of device c that leaves the room alone.
LEMMA DeviceStep ==
    ASSUME Synced, NEW c \in Devices, UNCHANGED <<room, posts>>,
           \A d \in Devices : d # c => UNCHANGED View(d),
           job' = job \/ job' = Idle,
           c = Host /\ job'.at = "read" => conn'[c] # "off",
           doc[c] \subseteq doc'[c] \/ job' = Idle \/ c # Host,
           Local(c)'
    PROVE  Synced'
<1>1. ASSUME NEW d \in Devices PROVE Local(d)'
  <2>1. CASE d = c
    BY <2>1
  <2>2. CASE d # c
    BY <2>2, Elsewhere DEF Synced
  <2>3. QED
    BY <2>1, <2>2
<1>2. job'.at = "read" => conn'[Host] # "off" /\ doc[Host] \subseteq doc'[Host]
  <2>1. CASE c = Host
    BY <2>1 DEF Idle
  <2>2. CASE c # Host
    <3>1. conn'[Host] = conn[Host] /\ doc'[Host] = doc[Host]
      BY <2>2, ChatAssumption DEF View
    <3>2. QED
      BY <3>1 DEF Synced, Covered, Idle
  <2>3. QED
    BY <2>1, <2>2
<1>3. Covered'
  BY <1>2, CoveredKept DEF Synced
<1>4. QED
  BY <1>1, <1>3 DEF Synced

\* A device that only learns more stays where its session is.
LEMMA SessionMore ==
    ASSUME NEW c \in Devices, Session(c), UNCHANGED room, doc[c] \subseteq doc'[c],
           UNCHANGED <<resumed[c], conn[c], srv[c], up[c], down[c]>>
    PROVE  Session(c)'
<1>1. Dialling(c) => Dialling(c)'
  BY DEF Dialling
<1>2. Greeted(c) => Greeted(c)'
  BY DEF Greeted, StateFrame, HeadSeq, room
<1>3. Served(c) => Served(c)'
  BY FlowMore DEF Served, room
<1>4. Asking(c) => Asking(c)'
  BY HeldGrow DEF Asking, RowsReq, room
<1>5. QED
  BY <1>1, <1>2, <1>3, <1>4 DEF Session, room

-----------------------------------------------------------------------------
(* Edits, saves and crashes. *)

LEMMA EditKeeps ==
    ASSUME Shapes, Synced, NEW c \in Devices, Edit(c)
    PROVE  Synced'
<1> USE DEF Shapes, DocShape
<1>1. Local(c)
  BY DEF Synced
<1>2. doc[c] \subseteq doc'[c] /\ made + 1 \in doc'[c]
  BY DEF Edit
<1>3. UNCHANGED <<room, wire, store, conn, post, cursor, opened, resumed>>
  BY DEF Edit
<1>4. Stored(c)'
  BY <1>1, <1>2, <1>3, HeldGrow DEF Local, Stored, room, store, Edit
<1>5. \A k \in 1..Len(pending'[c]) : pending'[c][k].ops \subseteq doc'[c]
  <2>1. pending' = pending
        \/ pending' = [pending EXCEPT ![c] = Append(pending[c], [id |-> batches + 1, ops |-> {made + 1}])]
    BY DEF Edit
  <2> DEFINE e == [id |-> batches + 1, ops |-> {made + 1}]
             q == Append(pending[c], e)
  <2>2. /\ Len(q) = Len(pending[c]) + 1 /\ Len(pending[c]) \in Nat
        /\ q[Len(pending[c]) + 1] = e
        /\ \A i \in 1..Len(pending[c]) : q[i] = pending[c][i]
    BY AppendFacts
  <2>3. e.ops = {made + 1} /\ (pending'[c] = pending[c] \/ pending'[c] = q)
    BY <2>1
  <2> HIDE DEF q, e
  <2>4. QED
    BY <1>1, <1>2, <2>2, <2>3 DEF Local, Own
<1>6. Own(c)'
  BY <1>1, <1>2, <1>3, <1>5 DEF Local, Own, room, wire
<1>7. Session(c)'
  BY <1>1, <1>2, <1>3, SessionMore DEF Local, wire
<1>8. \A d \in Devices : d # c => UNCHANGED View(d)
  BY <1>3 DEF Edit, View, wire, store
<1>9. Local(c)'
  BY <1>4, <1>6, <1>7 DEF Local
<1>10. QED
  BY <1>2, <1>3, <1>8, <1>9, DeviceStep DEF post, Edit, Synced, Covered

LEMMA SaveKeeps ==
    ASSUME Shapes, Synced, NEW c \in Devices, SaveExport(c) \/ SaveWrite(c)
    PROVE  Synced'
<1> USE DEF Shapes, DocShape, DiskShape
<1>1. Local(c)
  BY DEF Synced
<1>2. UNCHANGED <<room, client, wire, conn, post>>
  BY DEF SaveExport, SaveWrite
<1>3. Stored(c)'
  <2>1. CASE SaveExport(c)
    BY <2>1, <1>1, <1>2 DEF SaveExport, Local, Stored, room, client
  <2>2. CASE SaveWrite(c)
    <3>1. Held(log, saving[c].ops, disk[c].cursor)
      BY <2>2, <1>1, HeldGrow DEF SaveWrite, Local, Stored
    <3>2. disk'[c].ops = saving[c].ops /\ disk'[c].cursor = disk[c].cursor /\ ~saving'[c].on
      BY <2>2 DEF SaveWrite, NotSaving
    <3>3. QED
      BY <2>2, <1>1, <1>2, <3>1, <3>2 DEF SaveWrite, Local, Stored, room, client
  <2>3. QED
    BY <2>1, <2>2
<1>4. Own(c)'
  BY <1>1, <1>2 DEF Local, Own, room, client, wire
<1>5. Session(c)'
  BY <1>1, <1>2, SessionMore DEF Local, client, wire
<1>6. \A d \in Devices : d # c => UNCHANGED View(d)
  BY <1>2 DEF SaveExport, SaveWrite, View, client, wire
<1>7. Local(c)'
  BY <1>3, <1>4, <1>5 DEF Local
<1>8. QED
  BY <1>2, <1>6, <1>7, DeviceStep DEF post, client, Synced, Covered

LEMMA CrashKeeps ==
    ASSUME Shapes, Synced, NEW c \in Devices, Crash(c)
    PROVE  Synced'
<1> USE DEF Shapes, DocShape, DiskShape, WireShape
<1>1. Local(c)
  BY DEF Synced
<1>2. /\ UNCHANGED <<room, disk, posts>> /\ conn'[c] = "off" /\ ~resumed'[c] /\ ~saving'[c].on
      /\ doc'[c] = disk[c].ops /\ cursor'[c] = disk[c].cursor /\ pending'[c] = << >>
      /\ srv'[c] = "new" /\ up'[c] = << >> /\ down'[c] = << >>
  BY DEF Crash, Cut, NotSaving
<1>3. Stored(c)'
  BY <1>1, <1>2 DEF Local, Stored, room
<1>4. Own(c)'
  BY <1>2, SmallSeqs DEF Own
<1>5. Session(c)'
  BY <1>2 DEF Session
<1>6. \A d \in Devices : d # c => UNCHANGED View(d)
  BY DEF Crash, Cut, View
<1>7. Local(c)'
  BY <1>3, <1>4, <1>5 DEF Local
<1>8. (job' = job \/ job' = Idle) /\ (c = Host => job' = Idle)
  BY DEF Crash
<1>9. QED
  BY <1>2, <1>6, <1>7, <1>8, DeviceStep DEF Idle

LEMMA BootKeeps ==
    ASSUME Shapes, Synced, NEW c \in Devices, Boot(c)
    PROVE  Synced'
<1> USE DEF Shapes, DocShape
<1>1. Local(c)
  BY DEF Synced
<1>2. /\ UNCHANGED <<room, doc, cursor, resumed, wire, store, post>> /\ conn[c] = "off"
      /\ conn'[c] = "down" /\ opened'[c] = disk[c].cursor
  BY DEF Boot
<1>3. Stored(c)'
  BY <1>1, <1>2 DEF Local, Stored, room, store
<1>4. Own(c)'
  <2>1. pending'[c] = pending[c] \/ pending'[c] = <<[id |-> batches + 1, ops |-> disk[c].ops]>>
    BY DEF Boot
  <2>2. \A k \in 1..Len(pending'[c]) : pending'[c][k].ops \subseteq doc[c]
    <3>1. CASE pending'[c] = pending[c]
      BY <3>1, <1>1 DEF Local, Own
    <3>2. CASE pending'[c] = <<[id |-> batches + 1, ops |-> disk[c].ops]>>
      <4>1. \A k \in 1..Len(pending'[c]) : k = 1
        BY <3>2, SmallSeqs
      <4>2. pending'[c][1].ops = disk[c].ops
        BY <3>2, SmallSeqs
      <4>3. QED
        BY <4>1, <4>2, <1>1, <1>2 DEF Local, Stored
    <3>3. QED
      BY <2>1, <3>1, <3>2
  <2>3. QED
    BY <1>1, <1>2, <2>2 DEF Local, Own, room, wire
<1>5. Session(c)'
  BY <1>1, <1>2 DEF Local, Session, wire
<1>6. \A d \in Devices : d # c => UNCHANGED View(d)
  BY <1>2 DEF Boot, View, wire, store
<1>7. Local(c)'
  BY <1>3, <1>4, <1>5 DEF Local
<1>8. QED
  BY <1>2, <1>6, <1>7, DeviceStep DEF post

LEMMA DialKeeps ==
    ASSUME Shapes, Synced, NEW c \in Devices, Dial(c)
    PROVE  Synced'
<1> USE DEF Shapes, DocShape, WireShape
<1>1. Local(c)
  BY DEF Synced
<1>2. /\ UNCHANGED <<room, client, srv, down, store, post>> /\ conn[c] = "down"
      /\ conn'[c] = "hello" /\ up'[c] = <<[t |-> "hello"]>>
  BY DEF Dial
<1>3. Stored(c)'
  BY <1>1, <1>2 DEF Local, Stored, room, client, store
<1>4. Own(c)'
  <2>1. \A k \in 1..Len(up'[c]) : up'[c][k].t # "push"
    BY <1>2, SmallSeqs
  <2>2. QED
    BY <1>1, <1>2, <2>1 DEF Local, Own, room, client
<1>5. Session(c)'
  BY <1>1, <1>2 DEF Local, Session, Dialling
<1>6. \A d \in Devices : d # c => UNCHANGED View(d)
  BY <1>2 DEF Dial, View, client, store
<1>7. Local(c)'
  BY <1>3, <1>4, <1>5 DEF Local
<1>8. QED
  BY <1>2, <1>6, <1>7, DeviceStep DEF post, client

LEMMA DisconnectKeeps ==
    ASSUME Shapes, Synced, NEW c \in Devices, Disconnect(c)
    PROVE  Synced'
<1> USE DEF Shapes, DocShape, WireShape
<1>1. Local(c)
  BY DEF Synced
<1>2. /\ UNCHANGED <<room, doc, pending, resumed, opened, store, post>>
      /\ conn[c] # "off" /\ conn'[c] = "down" /\ cursor'[c] \in {cursor[c], opened[c]}
      /\ srv'[c] = "new" /\ up'[c] = << >> /\ down'[c] = << >>
  BY DEF Disconnect, Cut
<1>3. Stored(c)'
  BY <1>1, <1>2 DEF Local, Stored, room, store
<1>4. Own(c)'
  BY <1>1, <1>2, SmallSeqs DEF Local, Own, room
<1>5. Session(c)'
  BY <1>2 DEF Session
<1>6. \A d \in Devices : d # c => UNCHANGED View(d)
  BY <1>2 DEF Disconnect, Cut, View, store
<1>7. Local(c)'
  BY <1>3, <1>4, <1>5 DEF Local
<1>8. QED
  BY <1>2, <1>6, <1>7, DeviceStep DEF post

-----------------------------------------------------------------------------
(* The client reads a frame. *)

\* Once the frame at the head is applied the document holds what the cursor passes.
LEMMA HeadHeld ==
    ASSUME NEW l, IsSeq(l), NEW c, NEW ops, NEW q, IsSeq(q), q # << >>, Flowing(l, c, ops, q),
           Head(q).t \in {"row", "ack"},
           NEW more, ops \subseteq more, Head(q).t = "row" => Head(q).ops \subseteq more
    PROVE  Held(l, more, Head(q).seq)
<1>1. Head(q) = q[1] /\ 1 \in 1..Len(q) /\ Len(l) \in Nat
  BY TailFacts, SeqLen
<1>2. q[1].seq \in 1..Len(l) /\ \A s \in 1..q[1].seq : l[s].ops \subseteq ops \/ Arriving(q, 1, s)
  BY <1>1 DEF Flowing
<1>3. \A s : Arriving(q, 1, s) => q[1].t = "row" /\ q[1].seq = s
  BY DEF Arriving
<1>4. q[1].t = "row" => q[1].ops = l[q[1].seq].ops
  BY <1>1 DEF Flowing
<1>5. QED
  BY <1>1, <1>2, <1>3, <1>4 DEF Held

LEMMA HeldLarger ==
    ASSUME NEW l, NEW ops, NEW m, Held(l, ops, m), NEW n, Held(l, ops, n)
    PROVE  Held(l, ops, Larger(m, n))
BY DEF Held, Larger

\* A socket with a frame of the backfill or after on it is being served.
LEMMA ReadingServed ==
    ASSUME NEW c, Session(c), Reading(c), down[c] # << >>
    PROVE  /\ Served(c) /\ \A k \in 1..Len(up[c]) : up[c][k].t = "push"
           /\ conn[c] = "backfill" => up[c] = << >>
BY SmallSeqs DEF Session, Reading, Asking

LEMMA OnStateKeeps ==
    ASSUME Shapes, Synced, NEW c \in Devices, OnState(c)
    PROVE  Synced'
<1> USE DEF Shapes, DocShape, WireShape
<1> DEFINE f == Head(down[c])
           n == RowsAfter(c, f)
<1>1. Local(c)
  BY DEF Synced
<1>2. /\ UNCHANGED <<room, doc, pending, resumed, opened, srv, store, post>>
      /\ conn[c] = "hello" /\ down[c] # << >>
  BY DEF OnState, Frame
<1>3. Greeted(c)
  BY <1>1, <1>2 DEF Local, Session, Dialling
<1>4. f = StateFrame /\ Tail(down[c]) = << >>
  BY <1>3, SmallSeqs DEF Greeted
<1>5. f.t = "state" /\ f.head = Len(log) /\ f.seq = floor /\ f.ckpt = ckpt
  BY <1>4 DEF StateFrame, HeadSeq
<1> HIDE DEF f
<1>6. \A d \in Devices : d # c => UNCHANGED View(d)
  BY <1>2 DEF OnState, View, store
<1>7. CASE ~ckpt.there \/ ckpt.ops \subseteq doc[c]
  <2>1. Held(log, doc[c], cursor[c]) /\ Held(log, doc[c], floor)
    <3>1. Held(log, ckpt.ops, floor) /\ (~ckpt.there => floor = 0)
      BY DEF Synced, Covered
    <3>2. Held(log, doc[c], cursor[c])
      BY <1>1 DEF Local, Stored
    <3>3. CASE ~ckpt.there
      BY <3>1, <3>2, <3>3 DEF Held
    <3>4. CASE ckpt.there
      BY <1>7, <3>1, <3>2, <3>4, HeldGrow
    <3>5. QED
      BY <3>3, <3>4
  <2>2. Held(log, doc[c], n)
    <3>1. FreshCursor(c, f) = cursor[c]
      BY <1>5, <2>1 DEF FreshCursor, Held
    <3>2. QED
      BY <1>5, <2>1, <3>1, HeldLarger DEF RowsAfter
  <2>3. n \in 0..Len(log)
    BY <2>2 DEF Held
  <2>4. /\ cursor'[c] \in {n, cursor[c]} /\ up'[c] = <<RowsReq(n, resumed[c])>>
        /\ down'[c] = << >> /\ conn'[c] = "backfill"
    <3>1. /\ cursor' = [cursor EXCEPT ![c] = IF n < cursor[c] THEN n ELSE cursor[c]]
          /\ up' = [up EXCEPT ![c] = Append(up[c], RowsReq(n, resumed[c]))]
          /\ down' = [down EXCEPT ![c] = Tail(down[c])]
          /\ conn' = [conn EXCEPT ![c] = "backfill"]
      BY <1>5, <1>7 DEF OnState, Contained, f
    <3>2. up[c] = << >> /\ Append(<< >>, RowsReq(n, resumed[c])) = <<RowsReq(n, resumed[c])>>
      BY <1>3 DEF Greeted
    <3>3. QED
      BY <1>4, <3>1, <3>2
  <2> HIDE DEF n
  <2>5. Stored(c)'
    BY <1>1, <1>2, <2>2, <2>4 DEF Local, Stored, room, store
  <2>6. Own(c)'
    <3>1. \A k \in 1..Len(up'[c]) : up'[c][k].t # "push"
      <4>1. \A k \in 1..Len(up'[c]) : up'[c][k] = RowsReq(n, resumed[c])
        BY <2>4, SmallSeqs
      <4>2. QED
        BY <4>1 DEF RowsReq
    <3>2. QED
      BY <1>1, <1>2, <3>1 DEF Local, Own, room
  <2>7. Asking(c)'
    BY <1>2, <1>3, <2>1, <2>2, <2>3, <2>4 DEF Asking, Greeted, RowsReq, room
  <2>8. Session(c)'
    BY <2>4, <2>7 DEF Session
  <2>9. Local(c)'
    BY <2>5, <2>6, <2>8 DEF Local
  <2>10. QED
    BY <1>2, <1>6, <2>4, <2>9, DeviceStep DEF post
<1>8. CASE ~(~ckpt.there \/ ckpt.ops \subseteq doc[c])
  <2>1. conn'[c] = "fetch" /\ UNCHANGED <<cursor, up, down>>
    BY <1>5, <1>8 DEF OnState, Contained, f
  <2>2. Stored(c)'
    BY <1>1, <1>2, <2>1 DEF Local, Stored, room, store
  <2>3. Own(c)'
    BY <1>1, <1>2, <2>1 DEF Local, Own, room
  <2>4. Greeted(c)'
    BY <1>2, <1>3, <2>1 DEF Greeted, StateFrame, HeadSeq, room
  <2>5. Session(c)'
    BY <1>2, <1>8, <2>1, <2>4 DEF Session, room
  <2>6. Local(c)'
    BY <2>2, <2>3, <2>5 DEF Local
  <2>7. QED
    BY <1>2, <1>6, <2>1, <2>6, DeviceStep DEF post
<1>9. QED
  BY <1>7, <1>8

\* An import that falls into no window: all of it is in the document.
LEMMA ImportWhole ==
    ASSUME NothingParked, DOMAIN doc = Devices, NEW c \in Devices, NEW ops, Import(c, ops),
           raced' = {}
    PROVE  doc' = [doc EXCEPT ![c] = doc[c] \cup ops] /\ ~saving[c].on /\ NothingParked'
<1> DEFINE all == doc[c] \cup parked[c] \cup ops
<1>1. /\ doc' = [doc EXCEPT ![c] = Whole(all)] /\ parked' = [parked EXCEPT ![c] = all \ Whole(all)]
      /\ ~saving[c].on /\ parked'[c] = {}
  BY DEF Import, Into
<1>2. all = doc[c] \cup ops
  BY DEF NothingParked
<1>3. Whole(all) \subseteq all
  BY DEF Whole
<1> HIDE DEF all
<1>4. all \ Whole(all) = {}
  BY <1>1 DEF NothingParked
<1>5. Whole(all) = all
  BY <1>3, <1>4
<1>6. NothingParked'
  BY <1>1, <1>4 DEF NothingParked
<1>7. QED
  BY <1>1, <1>2, <1>5, <1>6

LEMMA FetchKeeps ==
    ASSUME raced' = {}, NothingParked, Shapes, Synced, NEW c \in Devices, Fetch(c)
    PROVE  Synced'
<1> USE DEF Shapes, DocShape, DiskShape, WireShape
<1> DEFINE f == Head(down[c])
           d == doc[c] \cup ckpt.ops
<1>1. Local(c) /\ Import(c, ckpt.ops)
  BY DEF Synced, Fetch
<1>0. doc' = [doc EXCEPT ![c] = d] /\ ~saving[c].on
  BY <1>1, ImportWhole
<1>2. /\ UNCHANGED <<room, pending, resumed, opened, srv, saving, post>> /\ conn[c] = "fetch"
      /\ doc'[c] = d /\ cursor'[c] = f.seq /\ conn'[c] = "backfill"
      /\ up'[c] = Append(up[c], RowsReq(f.seq, resumed[c])) /\ down'[c] = Tail(down[c])
  BY <1>0 DEF Fetch
<1>3. ~saving[c].on /\ disk'[c] = [ops |-> d, cursor |-> f.seq]
  BY <1>0, <1>2 DEF Fetch, Persist
<1>4. Greeted(c)
  BY <1>1, <1>2 DEF Local, Session
<1>5. f.seq = floor /\ down'[c] = << >>
  BY <1>2, <1>4, SmallSeqs DEF Greeted, StateFrame
<1> HIDE DEF f
<1>6. up'[c] = <<RowsReq(floor, resumed[c])>>
  BY <1>2, <1>4, <1>5 DEF Greeted
<1>7. Held(log, d, floor) /\ doc[c] \subseteq d
  BY HeldGrow DEF Synced, Covered
<1> HIDE DEF d
<1>8. \A k \in Devices : k # c => UNCHANGED View(k)
  BY <1>0, <1>2 DEF Fetch, Persist, View
<1>9. Stored(c)'
  BY <1>1, <1>2, <1>3, <1>5, <1>7, HeldGrow DEF Local, Stored, room
<1>10. Own(c)'
  <2>1. \A k \in 1..Len(up'[c]) : up'[c][k].t # "push"
    <3>1. \A k \in 1..Len(up'[c]) : up'[c][k] = RowsReq(floor, resumed[c])
      BY <1>6, SmallSeqs
    <3>2. QED
      BY <3>1 DEF RowsReq
  <2>2. QED
    BY <1>1, <1>2, <1>7, <2>1 DEF Local, Own, room
<1>11. Asking(c)'
  <2>1. floor \in 0..Len(log)
    BY <1>7 DEF Held
  <2>2. QED
    BY <1>2, <1>4, <1>5, <1>6, <1>7, <2>1 DEF Asking, Greeted, RowsReq, room
<1>12. Session(c)'
  BY <1>2, <1>11 DEF Session
<1>13. Local(c)'
  BY <1>9, <1>10, <1>12 DEF Local
<1>14. QED
  BY <1>2, <1>7, <1>8, <1>13, DeviceStep DEF post

LEMMA OnRowKeeps ==
    ASSUME raced' = {}, NothingParked, Shapes, Synced, NEW c \in Devices, OnRow(c)
    PROVE  Synced'
<1> USE DEF Shapes, DocShape, DiskShape, WireShape
<1> DEFINE f == Head(down[c])
           d == doc[c] \cup f.ops
<1>1. Local(c) /\ Import(c, f.ops)
  BY DEF Synced, OnRow
<1>0. doc' = [doc EXCEPT ![c] = d] /\ ~saving[c].on
  BY <1>1, ImportWhole
<1>2. /\ UNCHANGED <<room, pending, resumed, opened, srv, up, conn, saving, post>>
      /\ Reading(c) /\ down[c] # << >> /\ f.t = "row"
      /\ doc'[c] = d /\ cursor'[c] = Larger(cursor[c], f.seq) /\ down'[c] = Tail(down[c])
  BY <1>0 DEF OnRow, Frame
<1>3. ~saving[c].on /\ disk'[c] = [ops |-> d, cursor |-> f.seq]
  BY <1>0, <1>2 DEF OnRow, Persist
<1>4. Served(c)
  BY <1>1, <1>2, ReadingServed DEF Local
<1>5. Held(log, d, f.seq)
  BY <1>2, <1>4, HeadHeld DEF Served
<1>6. Flowing(log, c, d, Tail(down[c]))
  BY <1>2, <1>4, FlowTail DEF Served
<1>7. doc[c] \subseteq d
  OBVIOUS
<1> HIDE DEF f, d
<1>8. \A k \in Devices : k # c => UNCHANGED View(k)
  BY <1>0, <1>2 DEF OnRow, Persist, View
<1>9. Stored(c)'
  <2>1. Held(log, d, cursor'[c])
    <3>1. Held(log, d, cursor[c])
      BY <1>1, <1>7, HeldGrow DEF Local, Stored
    <3>2. QED
      BY <1>2, <1>5, <3>1, HeldLarger
  <2>2. conn[c] # "off" => Held(log, d, opened[c])
    BY <1>1, <1>7, HeldGrow DEF Local, Stored
  <2>3. QED
    BY <1>2, <1>3, <1>5, <2>1, <2>2 DEF Stored, Reading, room
<1>10. Own(c)'
  BY <1>1, <1>2, <1>7 DEF Local, Own, room
<1>11. Served(c)'
  BY <1>2, <1>4, <1>6 DEF Served, room
<1>12. Session(c)'
  BY <1>1, <1>2, <1>11, ReadingServed DEF Local, Session, Reading
<1>13. Local(c)'
  BY <1>9, <1>10, <1>12 DEF Local
<1>14. QED
  BY <1>2, <1>7, <1>8, <1>13, DeviceStep DEF post, Reading

\* A queue is pushed behind what is already on its way.
LEMMA PushesOwn ==
    ASSUME NEW u, IsSeq(u), NEW q, IsSeq(q), NEW ops,
           \A k \in 1..Len(u) : u[k].t = "push" /\ u[k].batch.ops \subseteq ops,
           \A k \in 1..Len(q) : q[k].ops \subseteq ops
    PROVE  \A k \in 1..Len(u \o Pushes(q)) :
               (u \o Pushes(q))[k].t = "push" /\ (u \o Pushes(q))[k].batch.ops \subseteq ops
<1> DEFINE p == Pushes(q)
           r == u \o p
<1>1. IsSeq(p) /\ Len(p) = Len(q) /\ \A k \in 1..Len(q) : p[k] = PushFrame(q[k])
  BY PushesFacts
<1> HIDE DEF p
<1>2. /\ Len(u) \in Nat /\ Len(p) \in Nat /\ Len(r) = Len(u) + Len(p)
      /\ \A i \in 1..Len(u) : r[i] = u[i]
      /\ \A i \in 1..Len(r) : i > Len(u) => i - Len(u) \in 1..Len(p) /\ r[i] = p[i - Len(u)]
  BY <1>1, JoinFacts
<1> HIDE DEF r
<1>3. ASSUME NEW k \in 1..Len(r) PROVE r[k].t = "push" /\ r[k].batch.ops \subseteq ops
  <2>1. CASE k <= Len(u)
    BY <2>1, <1>2
  <2>2. CASE ~(k <= Len(u))
    <3>1. k - Len(u) \in 1..Len(p) /\ r[k] = p[k - Len(u)]
      BY <2>2, <1>2
    <3>2. r[k] = PushFrame(q[k - Len(u)]) /\ q[k - Len(u)].ops \subseteq ops
      BY <3>1, <1>1
    <3>3. QED
      BY <3>2 DEF PushFrame
  <2>3. QED
    BY <2>1, <2>2
<1>4. QED
  BY <1>3 DEF r, p

LEMMA OnDoneKeeps ==
    ASSUME Shapes, Synced, NEW c \in Devices, OnDone(c)
    PROVE  Synced'
<1> USE DEF Shapes, DocShape, WireShape
<1>1. Local(c)
  BY DEF Synced
<1>2. /\ UNCHANGED <<room, doc, cursor, pending, opened, srv, store, post>>
      /\ conn[c] = "backfill" /\ down[c] # << >> /\ Head(down[c]).t = "done"
      /\ conn'[c] = "live" /\ down'[c] = Tail(down[c]) /\ resumed'[c]
      /\ up'[c] \in {up[c], up[c] \o Pushes(pending[c])}
  BY DEF OnDone, Frame
<1>3. Served(c) /\ up[c] = << >>
  BY <1>1, <1>2, ReadingServed DEF Local, Reading
<1>4. \A s \in 1..Len(log) : log[s].dev = c => log[s].ops \subseteq doc[c]
  <2>1. Head(down[c]) = down[c][1] /\ 1 \in 1..Len(down[c])
    BY <1>2, TailFacts
  <2>2. \A s : ~Arriving(down[c], 1, s)
    BY <1>2, <2>1 DEF Arriving
  <2>3. QED
    BY <1>2, <1>3, <2>1, <2>2 DEF Served, Flowing
<1>5. Stored(c)'
  BY <1>1, <1>2 DEF Local, Stored, room, store
<1>6. \A k \in 1..Len(up'[c]) : up'[c][k].t = "push" /\ up'[c][k].batch.ops \subseteq doc[c]
  <2>1. \A k \in 1..Len(pending[c]) : pending[c][k].ops \subseteq doc[c]
    BY <1>1 DEF Local, Own
  <2>2. \A k \in 1..Len(up[c]) : up[c][k].t = "push" /\ up[c][k].batch.ops \subseteq doc[c]
    BY <1>3, SmallSeqs
  <2>3. CASE up'[c] = up[c]
    BY <2>2, <2>3
  <2>4. CASE up'[c] = up[c] \o Pushes(pending[c])
    <3>1. IsSeq(up[c]) /\ IsSeq(pending[c])
      OBVIOUS
    <3>2. \A k \in 1..Len(up[c] \o Pushes(pending[c])) :
              /\ (up[c] \o Pushes(pending[c]))[k].t = "push"
              /\ (up[c] \o Pushes(pending[c]))[k].batch.ops \subseteq doc[c]
      BY <2>1, <2>2, <3>1, PushesOwn
    <3>3. QED
      BY <2>4, <3>2
  <2>5. QED
    BY <1>2, <2>3, <2>4
<1>7. Own(c)'
  BY <1>1, <1>2, <1>4, <1>6 DEF Local, Own, room
<1>8. Flowing(log, c, doc[c], Tail(down[c]))
  BY <1>2, <1>3, FlowTail DEF Served
<1>9. Session(c)'
  BY <1>2, <1>3, <1>6, <1>8 DEF Session, Served, room
<1>10. \A d \in Devices : d # c => UNCHANGED View(d)
  BY <1>2 DEF OnDone, View, store
<1>11. Local(c)'
  BY <1>5, <1>7, <1>9 DEF Local
<1>12. QED
  BY <1>2, <1>10, <1>11, DeviceStep DEF post

LEMMA OnAckKeeps ==
    ASSUME raced' = {}, Shapes, Synced, NEW c \in Devices, OnAck(c)
    PROVE  Synced'
<1> USE DEF Shapes, DocShape, DiskShape, WireShape
<1> DEFINE f == Head(down[c])
           q == Retire(pending[c], f.batch)
<1>1. Local(c)
  BY DEF Synced
<1>2. /\ UNCHANGED <<room, doc, resumed, opened, srv, up, conn, saving, post>>
      /\ Reading(c) /\ down[c] # << >> /\ f.t = "ack"
      /\ cursor'[c] = Larger(cursor[c], f.seq) /\ down'[c] = Tail(down[c]) /\ pending'[c] = q
  BY DEF OnAck, Frame
<1>3. ~saving[c].on /\ disk'[c] = [ops |-> doc[c], cursor |-> cursor'[c]]
  BY DEF OnAck, Persist, Into
<1>4. Served(c)
  BY <1>1, <1>2, ReadingServed DEF Local
<1>5. Held(log, doc[c], f.seq)
  BY <1>2, <1>4, HeadHeld DEF Served
<1>6. Flowing(log, c, doc[c], Tail(down[c]))
  BY <1>2, <1>4, FlowTail DEF Served
<1>7. \A i \in 1..Len(q) : \E j \in 1..Len(pending[c]) : q[i] = pending[c][j]
  BY RetireFacts
<1> HIDE DEF f, q
<1>8. \A k \in Devices : k # c => UNCHANGED View(k)
  BY <1>2 DEF OnAck, Persist, View
<1>9. Stored(c)'
  <2>1. Held(log, doc[c], cursor'[c])
    BY <1>1, <1>2, <1>5, HeldLarger DEF Local, Stored
  <2>2. QED
    BY <1>1, <1>2, <1>3, <2>1 DEF Local, Stored, Reading, room
<1>10. Own(c)'
  BY <1>1, <1>2, <1>7 DEF Local, Own, room
<1>11. Served(c)'
  BY <1>2, <1>4, <1>6 DEF Served, room
<1>12. Session(c)'
  BY <1>1, <1>2, <1>11, ReadingServed DEF Local, Session, Reading
<1>13. Local(c)'
  BY <1>9, <1>10, <1>12 DEF Local
<1>14. QED
  BY <1>2, <1>8, <1>13, DeviceStep DEF post, Reading

LEMMA OnErrorKeeps ==
    ASSUME Shapes, Synced, NEW c \in Devices, OnError(c)
    PROVE  Synced'
<1> USE DEF Shapes, DocShape, WireShape
<1>1. Local(c)
  BY DEF Synced
<1>2. /\ UNCHANGED <<room, doc, cursor, pending, resumed, opened, srv, up, store, conn, post>>
      /\ Reading(c) /\ down[c] # << >> /\ Head(down[c]).t = "error" /\ down'[c] = Tail(down[c])
  BY DEF OnError, Frame
<1>3. Served(c)
  BY <1>1, <1>2, ReadingServed DEF Local
<1>4. Stored(c)' /\ Own(c)'
  BY <1>1, <1>2 DEF Local, Stored, Own, room, store
<1>5. Flowing(log, c, doc[c], Tail(down[c]))
  BY <1>2, <1>3, FlowTail DEF Served
<1>6. Served(c)'
  BY <1>2, <1>3, <1>5 DEF Served, room
<1>7. Session(c)'
  BY <1>1, <1>2, <1>6, ReadingServed DEF Local, Session, Reading
<1>8. \A d \in Devices : d # c => UNCHANGED View(d)
  BY <1>2 DEF OnError, View, store
<1>9. Local(c)'
  BY <1>4, <1>7 DEF Local
<1>10. QED
  BY <1>2, <1>8, <1>9, DeviceStep DEF post, Reading

LEMMA PushKeeps ==
    ASSUME Shapes, Synced, NEW c \in Devices, Nudge(c) \/ PushHead(c)
    PROVE  Synced'
<1> USE DEF Shapes, DocShape, WireShape
<1>1. Local(c)
  BY DEF Synced
<1>2. /\ UNCHANGED <<room, doc, cursor, pending, resumed, opened, srv, down, store, conn, post>>
      /\ conn[c] = "live" /\ up'[c] \in {up[c] \o Pushes(pending[c]), up[c] \o HeadBatch(pending[c])}
  BY DEF Nudge, PushHead
<1>3. /\ Served(c) /\ \A k \in 1..Len(up[c]) : up[c][k].t = "push" /\ up[c][k].batch.ops \subseteq doc[c]
      /\ \A k \in 1..Len(pending[c]) : pending[c][k].ops \subseteq doc[c]
  BY <1>1, <1>2 DEF Local, Session, Own
<1>4. PICK q : /\ IsSeq(q) /\ \A k \in 1..Len(q) : q[k].ops \subseteq doc[c]
               /\ up'[c] = up[c] \o Pushes(q)
  <2>1. CASE up'[c] = up[c] \o Pushes(pending[c])
    BY <1>3, <2>1
  <2>2. CASE up'[c] = up[c] \o HeadBatch(pending[c])
    <3>1. CASE pending[c] = << >>
      <4>1. HeadBatch(pending[c]) = Pushes(pending[c])
        BY <3>1 DEF HeadBatch, Pushes
      <4>2. QED
        BY <1>3, <2>2, <4>1
    <3>2. CASE pending[c] # << >>
      <4> DEFINE b == pending[c][1]
      <4>1. b.ops \subseteq doc[c]
        BY <1>3, <3>2, TailFacts
      <4> HIDE DEF b
      <4>2. HeadBatch(pending[c]) = <<PushFrame(b)>>
        BY <3>2 DEF HeadBatch, b
      <4>3. Pushes(<<b>>) = <<PushFrame(b)>>
        BY DEF Pushes
      <4>4. IsSeq(<<b>>) /\ \A k \in 1..Len(<<b>>) : <<b>>[k].ops \subseteq doc[c]
        BY <4>1, SmallSeqs
      <4>5. QED
        BY <2>2, <4>2, <4>3, <4>4
    <3>3. QED
      BY <3>1, <3>2
  <2>3. QED
    BY <1>2, <2>1, <2>2
<1>5. \A k \in 1..Len(up'[c]) : up'[c][k].t = "push" /\ up'[c][k].batch.ops \subseteq doc[c]
  <2>1. \A k \in 1..Len(up[c] \o Pushes(q)) :
            /\ (up[c] \o Pushes(q))[k].t = "push"
            /\ (up[c] \o Pushes(q))[k].batch.ops \subseteq doc[c]
    BY <1>3, <1>4, PushesOwn
  <2>2. QED
    BY <1>4, <2>1
<1>6. Stored(c)' /\ Own(c)'
  BY <1>1, <1>2, <1>5 DEF Local, Stored, Own, room, store
<1>7. Session(c)'
  BY <1>2, <1>3, <1>5 DEF Session, Served, room
<1>8. \A d \in Devices : d # c => UNCHANGED View(d)
  BY <1>2 DEF Nudge, PushHead, View, store
<1>9. Local(c)'
  BY <1>6, <1>7 DEF Local
<1>10. QED
  BY <1>2, <1>8, <1>9, DeviceStep DEF post

-----------------------------------------------------------------------------
(* Checkpoints and the room. *)

LEMMA CheckpointKeeps ==
    ASSUME raced' = {}, Shapes, Synced, Checkpoint
    PROVE  Synced'
<1>1. UNCHANGED <<log, client, wire, store, conn>>
  BY DEF Checkpoint, StartCheckpoint, Export, LosePost, CommitCheckpoint, room
<1>2. ASSUME UNCHANGED <<floor, ckpt>> \/ ~Joining, NEW d \in Devices PROVE Local(d)'
  <2>1. Local(d)
    BY DEF Synced
  <2>2. Stored(d)' /\ Own(d)'
    BY <1>1, <2>1 DEF Local, Stored, Own, client, store, wire
  <2>3. Served(d) => Served(d)'
    BY <1>1 DEF Served, client, wire
  <2>4. Dialling(d) => Dialling(d)'
    BY <1>1 DEF Dialling, wire
  <2>5. CASE ~Joining
    <3>1. ~Greeted(d) /\ ~Asking(d)
      BY <2>5 DEF Joining, Greeted, Asking
    <3>2. Session(d)'
      BY <1>1, <2>1, <2>3, <2>4, <3>1 DEF Local, Session, client, wire
    <3>3. QED
      BY <2>2, <3>2 DEF Local
  <2>6. CASE UNCHANGED <<floor, ckpt>>
    BY <1>1, <2>6, Elsewhere DEF Synced, room, View, client, wire, store
  <2>7. QED
    BY <1>2, <2>5, <2>6
<1>3. CASE StartCheckpoint
  <2>1. /\ UNCHANGED <<floor, ckpt, posts>> /\ job'.at = "read" /\ job'.covered = cursor[Host]
        /\ conn[Host] # "off"
    BY <1>3 DEF StartCheckpoint, Coverage, room
  <2>2. Held(log, doc[Host], cursor[Host])
    BY ChatAssumption DEF Synced, Local, Stored
  <2>3. Covered'
    BY <1>1, <2>1, <2>2 DEF Synced, Covered, client
  <2>4. QED
    BY <1>2, <2>1, <2>3 DEF Synced
<1>4. CASE Export
  <2>1. /\ UNCHANGED <<floor, ckpt>> /\ job.at = "read" /\ job'.at = "sent"
        /\ posts' = posts \cup {[covered |-> job.covered, ops |-> doc[Host], n |-> job.n]}
    BY <1>4 DEF Export, room, Shapes
  <2>2. Held(log, doc[Host], job.covered)
    BY <2>1 DEF Synced, Covered
  <2>3. Covered'
    BY <1>1, <2>1, <2>2 DEF Synced, Covered
  <2>4. QED
    BY <1>2, <2>1, <2>3 DEF Synced
<1>5. ASSUME NEW p \in posts, LosePost(p) PROVE Synced'
  <2>1. UNCHANGED <<floor, ckpt>> /\ posts' \subseteq posts /\ job' \in {job, Idle}
    BY <1>5 DEF LosePost, Answered, room
  <2>2. Covered'
    BY <1>1, <2>1 DEF Synced, Covered, client, Idle
  <2>3. QED
    BY <1>2, <2>1, <2>2 DEF Synced
<1>6. ASSUME NEW p \in posts, CommitCheckpoint(p) PROVE Synced'
  <2>1. posts' \subseteq posts /\ job' \in {job, Idle} /\ (UNCHANGED <<floor, ckpt>> \/ ~Joining)
    BY <1>6 DEF CommitCheckpoint, Answered, Into
  <2>2. UNCHANGED <<floor, ckpt>> \/ (ckpt'.there /\ ckpt'.ops = p.ops /\ floor' = p.covered)
    BY <1>6 DEF CommitCheckpoint
  <2>3. Held(log, p.ops, p.covered)
    BY DEF Synced, Covered
  <2>4. Held(log, ckpt'.ops, floor') /\ (~ckpt'.there => floor' = 0)
    BY <2>2, <2>3 DEF Synced, Covered
  <2>5. Covered'
    BY <1>1, <2>1, <2>4 DEF Synced, Covered, client, Idle
  <2>6. QED
    BY <1>2, <2>1, <2>5 DEF Synced
<1>7. QED
  BY <1>3, <1>4, <1>5, <1>6 DEF Checkpoint

\* What the room reads tells it where the session is.
LEMMA ArrivedFrom ==
    ASSUME Shapes, NEW c \in Devices, Session(c), up[c] # << >>
    PROVE  /\ Head(up[c]).t = "hello" => conn[c] = "hello" /\ Dialling(c)
           /\ Head(up[c]).t = "rowsReq" => conn[c] = "backfill" /\ Asking(c)
           /\ Head(up[c]).t = "push" => conn[c] = "live" /\ Served(c)
<1>1. Dialling(c) => Head(up[c]).t = "hello"
  BY SmallSeqs DEF Dialling
<1>2. Asking(c) => Head(up[c]).t = "rowsReq"
  BY SmallSeqs DEF Asking, RowsReq
<1>3. ASSUME conn[c] = "live" PROVE Head(up[c]).t = "push" /\ Served(c)
  <2>1. Head(up[c]) = up[c][1] /\ 1 \in 1..Len(up[c])
    BY TailFacts DEF Shapes, WireShape
  <2>2. QED
    BY <1>3, <2>1 DEF Session
<1>4. QED
  BY <1>1, <1>2, <1>3 DEF Session, Greeted

LEMMA HelloKeeps ==
    ASSUME Shapes, Synced, NEW c \in Devices, HandleHello(c)
    PROVE  Synced'
<1> USE DEF Shapes, DocShape, WireShape
<1>1. Local(c)
  BY DEF Synced
<1>2. /\ UNCHANGED <<room, client, store, conn, post>> /\ up[c] # << >> /\ Head(up[c]).t = "hello"
      /\ srv'[c] = "greeted" /\ up'[c] = Tail(up[c]) /\ down'[c] = Append(down[c], StateFrame)
  BY DEF HandleHello, Arrived
<1>3. conn[c] = "hello" /\ Dialling(c)
  BY <1>1, <1>2, ArrivedFrom DEF Local
<1>4. up'[c] = << >> /\ down'[c] = <<StateFrame>>
  BY <1>2, <1>3, SmallSeqs DEF Dialling
<1>5. StateFrame' = StateFrame
  BY <1>2 DEF StateFrame, HeadSeq, room
<1>6. Greeted(c)'
  BY <1>2, <1>4, <1>5 DEF Greeted
<1>7. Stored(c)'
  BY <1>1, <1>2 DEF Local, Stored, room, client, store
<1>8. Own(c)'
  BY <1>1, <1>2, <1>4, SmallSeqs DEF Local, Own, room, client
<1>9. Session(c)'
  BY <1>2, <1>3, <1>6 DEF Session
<1>10. \A d \in Devices : d # c => UNCHANGED View(d)
  BY <1>2 DEF HandleHello, View, client, store
<1>11. Local(c)'
  BY <1>7, <1>8, <1>9 DEF Local
<1>12. QED
  BY <1>2, <1>3, <1>10, <1>11, DeviceStep DEF post, client

\* What a backfill sends completes what the device has: its own rows, those up to
\* its cursor, and those the checkpoint covers are there already.
LEMMA BackfillFlows ==
    ASSUME IsSeq(log), NEW c, NEW ops, Held(log, ops, floor), NEW n, Held(log, ops, n), NEW own,
           own => \A s \in 1..Len(log) : log[s].dev = c => log[s].ops \subseteq ops,
           NEW q \in Ascending(Backfill(c, RowsReq(n, own)))
    PROVE  IsSeq(RowFrames(q)) /\ Flowing(log, c, ops, Append(RowFrames(q), DoneFrame))
<1> DEFINE S == Backfill(c, RowsReq(n, own))
           r == RowFrames(q)
           p == Append(r, DoneFrame)
           m == Cardinality(S)
<1>1. S \subseteq 1..Len(log)
  BY DEF Backfill, Retained, HeadSeq
<1>2. \A s \in 1..Len(log) : s \in S \/ log[s].ops \subseteq ops
  BY SeqLen DEF Backfill, Retained, HeadSeq, RowsReq, Held
<1>3. /\ m \in Nat /\ DOMAIN q = 1..m
      /\ \A k \in DOMAIN q : q[k] \in S
      /\ \A s \in S : \E k \in DOMAIN q : q[k] = s
      /\ \A i, j \in DOMAIN q : q[i] <= q[j] => i <= j
  <2>1. q \in Ascending(S)
    OBVIOUS
  <2> HIDE DEF S
  <2>2. QED
    BY <1>1, <2>1, AscendingFacts
<1> HIDE DEF S, m
<1>4. IsSeq(r) /\ Len(r) = m /\ \A k \in 1..m : r[k] = RowFrame(q[k], log[q[k]].ops)
  BY <1>3, RowFramesFacts
<1>5. /\ Len(p) = m + 1 /\ p[m + 1] = DoneFrame
      /\ \A k \in 1..m : p[k] = RowFrame(q[k], log[q[k]].ops)
  <2> HIDE DEF r
  <2>1. /\ Len(p) = Len(r) + 1 /\ p[Len(r) + 1] = DoneFrame
        /\ \A i \in 1..Len(r) : p[i] = r[i]
    BY <1>4, AppendFacts
  <2> HIDE DEF p
  <2>2. QED
    BY <1>4, <2>1
<1> HIDE DEF r, p
<1>6. \A k \in 1..m : p[k].t = "row" /\ p[k].seq = q[k] /\ p[k].ops = log[q[k]].ops
  <2>1. \A s, o : RowFrame(s, o).t = "row" /\ RowFrame(s, o).seq = s /\ RowFrame(s, o).ops = o
    BY DEF RowFrame
  <2>2. QED
    BY <1>5, <2>1
<1>7. p[m + 1].t = "done"
  BY <1>5 DEF DoneFrame
<1>8. ASSUME NEW s \in 1..Len(log), ~(log[s].ops \subseteq ops)
      PROVE  \E j \in 1..m : q[j] = s /\ p[j].t = "row" /\ p[j].seq = s
  <2>1. PICK j \in 1..m : q[j] = s
    BY <1>2, <1>3, <1>8
  <2>2. QED
    BY <1>6, <2>1
<1>9. ASSUME NEW s \in 1..Len(log)
      PROVE  log[s].ops \subseteq ops \/ Arriving(p, m + 1, s)
  BY <1>3, <1>8 DEF Arriving
<1>10. ASSUME NEW k \in 1..m, NEW s \in 1..q[k]
       PROVE  log[s].ops \subseteq ops \/ Arriving(p, k, s)
  <2>1. s \in 1..Len(log) /\ q[k] \in 1..Len(log)
    <3>1. q[k] \in 1..Len(log) /\ Len(log) \in Nat
      BY <1>1, <1>3, SeqLen
    <3>2. QED
      BY <3>1
  <2>2. SUFFICES ASSUME ~(log[s].ops \subseteq ops) PROVE Arriving(p, k, s)
    OBVIOUS
  <2>3. PICK j \in 1..m : q[j] = s /\ p[j].t = "row" /\ p[j].seq = s
    BY <1>8, <2>1, <2>2
  <2>4. j \in 1..k
    BY <1>3, <2>1, <2>3
  <2>5. QED
    BY <2>3, <2>4 DEF Arriving
<1>11. ASSUME NEW k \in 1..Len(p)
       PROVE  /\ p[k].t \in {"row", "ack"} =>
                   /\ p[k].seq \in 1..Len(log)
                   /\ \A s \in 1..p[k].seq : log[s].ops \subseteq ops \/ Arriving(p, k, s)
              /\ p[k].t = "row" => p[k].ops = log[p[k].seq].ops
              /\ p[k].t = "done" =>
                   \A s \in 1..Len(log) : log[s].dev = c => log[s].ops \subseteq ops \/ Arriving(p, k, s)
  <2>1. CASE k = m + 1
    BY <1>7, <1>9, <2>1
  <2>2. CASE k # m + 1
    <3>1. k \in 1..m
      BY <1>3, <1>5, <2>2
    <3>2. p[k].t = "row" /\ p[k].seq = q[k] /\ p[k].ops = log[q[k]].ops /\ q[k] \in 1..Len(log)
      BY <1>1, <1>3, <1>6, <3>1
    <3>3. QED
      BY <1>10, <3>1, <3>2
  <2>3. QED
    BY <2>1, <2>2
<1>12. Flowing(log, c, ops, p)
  BY <1>5, <1>9, <1>11 DEF Flowing
<1>13. QED
  BY <1>4, <1>12 DEF r, p

LEMMA RowsReqKeeps ==
    ASSUME Shapes, Synced, NEW c \in Devices, HandleRowsReq(c)
    PROVE  Synced'
<1> USE DEF Shapes, DocShape, WireShape
<1>1. Local(c)
  BY DEF Synced
<1>2. PICK q \in Ascending(Backfill(c, Head(up[c]))) :
          /\ UNCHANGED <<room, client, store, conn, post>> /\ up[c] # << >> /\ Head(up[c]).t = "rowsReq"
          /\ srv' = [srv EXCEPT ![c] = "served"] /\ up' = [up EXCEPT ![c] = Tail(up[c])]
          /\ down' = [down EXCEPT ![c] = Append(down[c] \o RowFrames(q), DoneFrame)]
  BY DEF HandleRowsReq, Arrived, RowFrames
<1>3. conn[c] = "backfill" /\ Asking(c)
  BY <1>1, <1>2, ArrivedFrom DEF Local
<1>4. PICK n \in 0..Len(log) : Held(log, doc[c], n) /\ up[c] = <<RowsReq(n, resumed[c])>>
  BY <1>3 DEF Asking
<1>5. Head(up[c]) = RowsReq(n, resumed[c]) /\ Tail(up[c]) = << >>
  BY <1>4, SmallSeqs
<1>6. q \in Ascending(Backfill(c, RowsReq(n, resumed[c])))
  BY <1>2, <1>5
<1>7. IsSeq(RowFrames(q)) /\ Flowing(log, c, doc[c], Append(RowFrames(q), DoneFrame))
  <2>1. Held(log, doc[c], floor)
    BY <1>3 DEF Asking
  <2>2. resumed[c] => \A s \in 1..Len(log) : log[s].dev = c => log[s].ops \subseteq doc[c]
    BY <1>1 DEF Local, Own
  <2>3. QED
    BY <1>4, <1>6, <2>1, <2>2, BackfillFlows
<1>8. down[c] \o RowFrames(q) = RowFrames(q)
  <2> DEFINE r == RowFrames(q)
  <2>1. IsSeq(r) /\ down[c] = << >>
    BY <1>3, <1>7 DEF Asking
  <2> HIDE DEF r
  <2>2. PICK S : r \in Seq(S)
    BY <2>1 DEF IsSeq
  <2>3. << >> \o r = r
    BY <2>2
  <2>4. QED
    BY <2>1, <2>3 DEF r
<1>9. srv'[c] = "served" /\ up'[c] = << >> /\ down'[c] = Append(RowFrames(q), DoneFrame)
  BY <1>2, <1>5, <1>8
<1>10. Served(c)'
  BY <1>2, <1>7, <1>9 DEF Served, room, client
<1>11. Stored(c)'
  BY <1>1, <1>2 DEF Local, Stored, room, client, store
<1>12. Own(c)'
  BY <1>1, <1>2, <1>9, SmallSeqs DEF Local, Own, room, client
<1>13. Session(c)'
  BY <1>2, <1>3, <1>9, <1>10 DEF Session
<1>14. \A d \in Devices : d # c => UNCHANGED View(d)
  BY <1>2 DEF View, client, store
<1>15. Local(c)'
  BY <1>11, <1>12, <1>13 DEF Local
<1>16. QED
  BY <1>2, <1>3, <1>14, <1>15, DeviceStep DEF post, client

LEMMA RefuseKeeps ==
    ASSUME Shapes, Synced, NEW c \in Devices, RefusePush(c)
    PROVE  Synced'
<1> USE DEF Shapes, DocShape, WireShape
<1> DEFINE e == Error(Head(up[c]).batch.id, "quota")
<1>1. Local(c)
  BY DEF Synced
<1>2. /\ UNCHANGED <<room, client, srv, store, conn, post>> /\ up[c] # << >> /\ Head(up[c]).t = "push"
      /\ up'[c] = Tail(up[c]) /\ down'[c] = Append(down[c], e)
  BY DEF RefusePush, Arrived
<1>3. conn[c] = "live" /\ Served(c)
  BY <1>1, <1>2, ArrivedFrom DEF Local
<1>4. e.t = "error"
  BY DEF Error
<1> HIDE DEF e
<1>5. Flowing(log, c, doc[c], Append(down[c], e))
  <2>1. Extends(log, log) /\ IsSeq(down[c])
    BY ExtendsSame
  <2>2. Flowing(log, c, doc[c], down[c])
    BY <1>3 DEF Served
  <2>3. ~(e.t \in {"row", "ack"}) /\ e.t # "row" /\ \A s \in 1..Len(log) : ~(s > Len(log))
    BY <1>4, SeqLen
  <2>4. QED
    BY <2>1, <2>2, <2>3, FlowAppend
<1>6. Served(c)'
  BY <1>2, <1>3, <1>5 DEF Served, room, client
<1>7. \A k \in 1..Len(up'[c]) : \E j \in 1..Len(up[c]) : up'[c][k] = up[c][j]
  <2>1. IsSeq(up[c]) /\ up[c] # << >> /\ up'[c] = Tail(up[c])
    BY <1>2
  <2>2. \A k \in 1..Len(Tail(up[c])) : \E j \in 1..Len(up[c]) : Tail(up[c])[k] = up[c][j]
    BY <2>1, TailElements, Zenon
  <2>3. QED
    BY <2>1, <2>2, Zenon
<1>8. Stored(c)'
  BY <1>1, <1>2 DEF Local, Stored, room, client, store
<1>9. Own(c)'
  BY <1>1, <1>2, <1>7 DEF Local, Own, room, client
<1>10. Session(c)'
  BY <1>1, <1>2, <1>3, <1>6, <1>7 DEF Local, Session
<1>11. \A d \in Devices : d # c => UNCHANGED View(d)
  BY <1>2 DEF RefusePush, View, client, store
<1>12. Local(c)'
  BY <1>8, <1>9, <1>10 DEF Local
<1>13. QED
  BY <1>2, <1>3, <1>11, <1>12, DeviceStep DEF post, client

\* A batch is applied, of a live socket or of a dead one.  Whoever is served is sent
\* the row or has it.
LEMMA ApplyKeeps ==
    ASSUME raced' = {}, Shapes, Synced, NEW c \in Devices, NEW b, NEW sender, ApplyPush(c, b, sender),
           UNCHANGED <<floor, ckpt, client, srv, store, conn, post>>,
           sender = {} \/ (sender = {c} /\ Served(c) /\ b.ops \subseteq doc[c]),
           NEW d \in Devices,
           \A k \in 1..Len(up'[d]) : \E j \in 1..Len(up[d]) : up'[d][k] = up[d][j],
           up'[d] = up[d] \/ conn[d] = "live"
    PROVE  Local(d)'
<1> USE DEF Shapes, DocShape, WireShape
<1>1. Local(d)
  BY DEF Synced
<1>2. \/ /\ log' = Append(log, Row(c, b)) /\ ~Joining
         /\ b.ops \subseteq doc[c] \/ (~resumed[c] /\ srv[c] # "served")
      \/ log' = log /\ Originals(b) # {}
  BY DEF ApplyPush, InTime, Into
<1>3. Extends(log, log')
  <2>1. Extends(log, log) /\ Extends(log, Append(log, Row(c, b)))
    BY ExtendsSame
  <2>2. QED
    BY <1>2, <2>1
<1>4. \A s \in 1..Len(log') : s > Len(log) => s = Len(log) + 1 /\ log'[s].dev = c /\ log'[s].ops = b.ops
  <2>1. Row(c, b).dev = c /\ Row(c, b).ops = b.ops
    BY DEF Row
  <2>2. QED
    BY <1>2, <2>1, ExtendsSame, SeqLen
<1>5. Stored(d)'
  BY <1>1, <1>3, HeldMore DEF Local, Stored, client, store
<1>6. Own(d)'
  <2>1. ASSUME resumed[d], NEW s \in 1..Len(log'), log'[s].dev = d PROVE log'[s].ops \subseteq doc[d]
    <3>1. CASE s > Len(log)
      <4>1. d = c /\ log'[s].ops = b.ops
        BY <1>4, <2>1, <3>1
      <4>2. log' # log
        BY <2>1, <3>1, SeqLen
      <4>3. QED
        BY <1>2, <2>1, <4>1, <4>2
    <3>2. CASE ~(s > Len(log))
      BY <1>1, <1>3, <2>1, <3>2 DEF Local, Own, Extends
    <3>3. QED
      BY <3>1, <3>2
  <2>2. QED
    BY <1>1, <2>1 DEF Local, Own, client
<1>7. /\ d \in sender => \E e : /\ down'[d] = Append(down[d], e) /\ e.t = "ack"
                                /\ e.seq \in 1..Len(log')
      /\ d \notin sender => \/ down'[d] = down[d] /\ (log' = log \/ ~Ready(d))
                            \/ /\ down'[d] = Append(down[d], RowFrame(Len(log) + 1, b.ops)) /\ Ready(d)
                               /\ log' = Append(log, Row(c, b))
  <2>1. CASE Originals(b) = {}
    <3>1. /\ log' = Append(log, Row(c, b))
          /\ down'[d] = IF d \in sender THEN Append(down[d], Ack(b.id, Len(log) + 1))
                        ELSE IF Ready(d) THEN Append(down[d], RowFrame(Len(log) + 1, b.ops))
                        ELSE down[d]
      BY <2>1 DEF ApplyPush, AppendedSeq, HeadSeq
    <3>2. \A id, s : Ack(id, s).t = "ack" /\ Ack(id, s).seq = s
      BY DEF Ack
    <3>3. Len(log) + 1 \in 1..Len(log')
      BY <3>1, ExtendsSame, SeqLen
    <3>4. QED
      BY <3>1, <3>2, <3>3
  <2>2. CASE Originals(b) # {}
    <3> DEFINE s == CHOOSE s \in Originals(b) : TRUE
    <3>1. s \in 1..Len(log)
      BY <2>2 DEF Originals, Retained, HeadSeq
    <3>2. log' = log /\ down'[d] = IF d \in sender THEN Append(down[d], Ack(b.id, s)) ELSE down[d]
      BY <2>2 DEF ApplyPush
    <3> HIDE DEF s
    <3>3. \A id, n : Ack(id, n).t = "ack" /\ Ack(id, n).seq = n
      BY DEF Ack
    <3>4. QED
      BY <3>1, <3>2, <3>3
  <2>3. QED
    BY <2>1, <2>2
<1>8. Served(d) => Served(d)'
  <2>1. SUFFICES ASSUME Served(d) PROVE Flowing(log', d, doc[d], down'[d])
    BY DEF Served, client
  <2>2. Flowing(log, d, doc[d], down[d]) /\ Ready(d) /\ IsSeq(down[d])
    BY <2>1 DEF Served, Ready
  <2>3. CASE d \in sender
    <3>1. d = c /\ b.ops \subseteq doc[d]
      BY <2>1, <2>3 DEF Served
    <3>2. PICK e : down'[d] = Append(down[d], e) /\ e.t = "ack" /\ e.seq \in 1..Len(log')
      BY <1>7, <2>3
    <3>3. \A s \in 1..Len(log') : s > Len(log) => log'[s].ops \subseteq doc[d]
      BY <1>4, <3>1
    <3>4. Flowing(log', d, doc[d], Append(down[d], e))
      BY <1>3, <2>2, <3>2, <3>3, FlowAppend
    <3>5. QED
      BY <3>2, <3>4
  <2>4. CASE d \notin sender /\ log' = log /\ down'[d] = down[d]
    BY <2>2, <2>4
  <2>5. CASE d \notin sender /\ log' = Append(log, Row(c, b))
             /\ down'[d] = Append(down[d], RowFrame(Len(log) + 1, b.ops))
    <3> DEFINE e == RowFrame(Len(log) + 1, b.ops)
    <3>1. e.t = "row" /\ e.seq = Len(log) + 1 /\ e.ops = b.ops
      BY DEF RowFrame
    <3>2. down'[d] = Append(down[d], e)
      BY <2>5
    <3> HIDE DEF e
    <3>3. e.seq \in 1..Len(log') /\ e.ops = log'[e.seq].ops
      <4>1. Len(log') = Len(log) + 1 /\ Len(log) \in Nat
        BY <2>5, ExtendsSame, SeqLen
      <4>2. QED
        BY <1>4, <3>1, <4>1
    <3>4. ASSUME NEW s \in 1..Len(log'), s > Len(log)
          PROVE  log'[s].ops \subseteq doc[d] \/ (e.t = "row" /\ e.seq = s /\ log'[s].dev # d)
      <4>1. s = Len(log) + 1 /\ log'[s].dev = c /\ log'[s].ops = b.ops
        BY <1>4, <3>4
      <4>0. log' # log
        BY <3>4, SeqLen
      <4>2. CASE d = c
        BY <1>2, <2>1, <4>0, <4>1, <4>2 DEF Served
      <4>3. CASE d # c
        BY <3>1, <4>1, <4>3
      <4>4. QED
        BY <4>2, <4>3
    <3>5. Flowing(log', d, doc[d], Append(down[d], e))
      BY <1>3, <2>2, <3>1, <3>3, <3>4, FlowAppend
    <3>6. QED
      BY <3>2, <3>5
  <2>6. QED
    BY <1>7, <2>2, <2>3, <2>4, <2>5
<1>9. Session(d)'
  <2>1. CASE Served(d)
    <3>1. Served(d)'
      BY <1>8, <2>1
    <3>2. conn[d] \in {"backfill", "live"}
      BY <1>1, <2>1 DEF Local, Session, Served, Dialling, Greeted
    <3>3. conn[d] = "backfill" => up'[d] = << >>
      BY <1>1, <2>1, <3>2 DEF Local, Session, Asking, Served
    <3>4. conn[d] = "live" => \A k \in 1..Len(up'[d]) : up'[d][k].t = "push"
      BY <1>1 DEF Local, Session
    <3>5. QED
      BY <3>1, <3>2, <3>3, <3>4 DEF Session
  <2>2. CASE ~Served(d)
    <3>1. UNCHANGED <<srv[d], up[d], resumed[d], doc[d], conn[d]>> /\ conn[d] # "live"
      BY <1>1, <2>2 DEF Local, Session, client
    <3>2. UNCHANGED down[d]
      <4>1. d \notin sender
        BY <2>2
      <4>2. CASE log' = log
        <5>1. ~Ready(d) \/ srv[d] = "greeted"
          BY <1>1, <2>2 DEF Local, Session, Dialling, Greeted, Asking, Served, Ready
        <5>2. QED
          BY <1>7, <4>1, <4>2, ExtendsSame, SeqLen
      <4>3. CASE log' # log
        <5>1. ~Ready(d)
          BY <1>1, <1>2, <2>2, <4>3
          DEF Local, Session, Dialling, Greeted, Asking, Served, Ready, Joining
        <5>2. QED
          BY <1>7, <4>1, <5>1
      <4>4. QED
        BY <4>2, <4>3
    <3>3. srv[d] # "greeted" \/ log' = log
      BY <1>2 DEF Joining
    <3>4. Dialling(d) => Dialling(d)'
      BY <3>1, <3>2 DEF Dialling
    <3>5. Greeted(d) => Greeted(d)'
      BY <3>1, <3>2, <3>3 DEF Greeted, StateFrame, HeadSeq
    <3>6. Asking(d) => Asking(d)'
      BY <3>1, <3>2, <3>3 DEF Asking, RowsReq
    <3>7. QED
      BY <1>1, <2>2, <3>1, <3>2, <3>4, <3>5, <3>6 DEF Local, Session
  <2>3. QED
    BY <2>1, <2>2
<1>10. QED
  BY <1>5, <1>6, <1>9 DEF Local

LEMMA BatchKeeps ==
    ASSUME raced' = {}, Shapes, Synced, NEW c \in Devices, HandlePush(c) \/ HandleStray(c)
    PROVE  Synced'
<1> USE DEF Shapes, DocShape, WireShape
<1>1. PICK b, sender :
          /\ ApplyPush(c, b, sender) /\ UNCHANGED <<floor, ckpt, client, srv, store, conn, post>>
          /\ sender = {} \/ (sender = {c} /\ Served(c) /\ b.ops \subseteq doc[c])
  <2>1. CASE HandlePush(c)
    <3>1. Local(c) /\ up[c] # << >> /\ Head(up[c]).t = "push"
      BY <2>1 DEF HandlePush, Arrived, Synced
    <3>2. Head(up[c]) = up[c][1] /\ 1 \in 1..Len(up[c])
      BY <3>1, TailFacts
    <3>3. Served(c)
      BY <3>1, ArrivedFrom DEF Local
    <3>4. Head(up[c]).batch.ops \subseteq doc[c]
      BY <3>1, <3>2 DEF Local, Own
    <3>5. ApplyPush(c, Head(up[c]).batch, {c}) /\ UNCHANGED <<floor, ckpt, client, srv, store, conn, post>>
      BY <2>1 DEF HandlePush
    <3>6. QED
      BY <3>3, <3>4, <3>5
  <2>2. CASE HandleStray(c)
    BY <2>2 DEF HandleStray
  <2>3. QED
    BY <2>1, <2>2
<1>2. ASSUME NEW d \in Devices
      PROVE  /\ \A k \in 1..Len(up'[d]) : \E j \in 1..Len(up[d]) : up'[d][k] = up[d][j]
             /\ up'[d] = up[d] \/ conn[d] = "live"
  <2>1. CASE up'[d] = up[d]
    BY <2>1
  <2>2. CASE HandlePush(c) /\ d = c
    <3>1. Local(c) /\ up[c] # << >> /\ Head(up[c]).t = "push" /\ up'[c] = Tail(up[c])
      BY <2>2 DEF HandlePush, Arrived, Synced
    <3>2. conn[c] = "live"
      BY <3>1, ArrivedFrom DEF Local
    <3>3. IsSeq(up[c])
      OBVIOUS
    <3>4. \A k \in 1..Len(Tail(up[c])) : \E j \in 1..Len(up[c]) : Tail(up[c])[k] = up[c][j]
      BY <3>1, <3>3, TailElements, Zenon
    <3>5. \A k \in 1..Len(up'[c]) : \E j \in 1..Len(up[c]) : up'[c][k] = up[c][j]
      BY <3>1, <3>4, Zenon
    <3>6. d = c
      BY <2>2
    <3>7. QED
      BY <3>2, <3>5, <3>6, Zenon
  <2>3. QED
    BY <2>1, <2>2 DEF HandlePush, HandleStray
<1>3. \A d \in Devices : Local(d)'
  BY <1>1, <1>2, ApplyKeeps
<1>4. Extends(log, log')
  <2>1. Extends(log, log) /\ Extends(log, Append(log, Row(c, b)))
    BY ExtendsSame
  <2>2. QED
    BY <1>1, <2>1 DEF ApplyPush
<1>5. Covered'
  <2>1. Held(log', ckpt.ops, floor) /\ \A p \in posts : Held(log', p.ops, p.covered)
    BY <1>4, HeldMore DEF Synced, Covered
  <2>2. job.at = "read" => conn[Host] # "off" /\ Held(log', doc[Host], job.covered)
    BY <1>4, HeldMore DEF Synced, Covered
  <2>3. QED
    BY <1>1, <2>1, <2>2 DEF Synced, Covered, client, post
<1>6. QED
  BY <1>3, <1>5 DEF Synced

-----------------------------------------------------------------------------
(* The invariant, and what follows from it. *)

LEMMA SyncInit == Init => SyncInv
<1> SUFFICES ASSUME Init PROVE SyncInv
  OBVIOUS
<1>1. Shapes
  BY ShapesInit
<1>2. Held(log, {}, 0)
  BY SmallSeqs DEF Init, Held
<1>3. Covered
  BY <1>2 DEF Init, Covered, NoCheckpoint, Idle
<1>4. ASSUME NEW c \in Devices PROVE Local(c)
  <2>1. Stored(c)
    BY <1>2 DEF Init, Stored, NotSaving
  <2>2. Own(c)
    BY SmallSeqs DEF Init, Own
  <2>3. Session(c)
    BY DEF Init, Session
  <2>4. QED
    BY <2>1, <2>2, <2>3 DEF Local
<1>5. NothingParked
  BY DEF Init, NothingParked
<1>6. QED
  BY <1>1, <1>3, <1>4, <1>5 DEF SyncInv

\* Nothing takes a wipe back.
LEMMA WipedStays == [Next]_vars /\ wiped => wiped'
<1> USE DEF meta, past
<1>1. ASSUME NEW c \in Devices, Device(c) PROVE wiped' = wiped
  BY <1>1
  DEF Device, Edit, SaveExport, SaveWrite, Crash, Boot, Dial, Disconnect, OnState, Fetch, OnRow, OnDone,
      OnAck, OnError, Nudge, PushHead
<1>2. ASSUME NEW c \in Devices, Room(c) PROVE wiped' = wiped
  BY <1>2 DEF Room, HandleHello, HandleRowsReq, HandlePush, RefusePush, HandleStray
<1>3. Checkpoint => wiped' = wiped
  BY DEF Checkpoint, StartCheckpoint, Export, LosePost, CommitCheckpoint
<1>4. Reset => wiped' = TRUE
  BY DEF Reset
<1>5. UNCHANGED vars => wiped' = wiped
  BY DEF vars
<1>6. QED
  BY <1>1, <1>2, <1>3, <1>4, <1>5 DEF Next

\* Nor what fell into a window.
LEMMA RacedGrows == [Next]_vars => raced \subseteq raced'
<1>1. ASSUME NEW c \in Devices, Device(c) PROVE raced \subseteq raced'
  BY <1>1
  DEF Device, Edit, SaveExport, SaveWrite, Crash, Boot, Dial, Disconnect, OnState, Fetch, OnRow, OnDone,
      OnAck, OnError, Nudge, PushHead, Import, meta
<1>2. ASSUME NEW c \in Devices, Room(c) PROVE raced \subseteq raced'
  BY <1>2
  DEF Room, HandleHello, HandleRowsReq, HandlePush, RefusePush, HandleStray, ApplyPush, meta
<1>3. Checkpoint => raced \subseteq raced'
  BY DEF Checkpoint, StartCheckpoint, Export, LosePost, CommitCheckpoint, meta
<1>4. Reset \/ UNCHANGED vars => raced \subseteq raced'
  BY DEF Reset, vars, meta
<1>5. QED
  BY <1>1, <1>2, <1>3, <1>4 DEF Next

LEMMA SoundBefore == [Next]_vars /\ Sound' => Sound
BY WipedStays, RacedGrows DEF Sound

LEMMA ParkedStep ==
    ASSUME Shapes, NothingParked, raced' = {}, [Next]_vars
    PROVE  NothingParked'
<1>1. ASSUME NEW c \in Devices, Device(c) PROVE NothingParked'
  <2>1. CASE Fetch(c) \/ OnRow(c)
    <3>1. PICK ops : Import(c, ops)
      BY <2>1 DEF Fetch, OnRow
    <3>2. QED
      BY <3>1, ImportWhole DEF Shapes, DocShape
  <2>2. CASE Crash(c)
    BY <2>2 DEF Crash, NothingParked
  <2>3. CASE ~(Fetch(c) \/ OnRow(c) \/ Crash(c))
    <3>1. parked' = parked
      BY <1>1, <2>3
      DEF Device, Edit, SaveExport, SaveWrite, Boot, Dial, Disconnect, OnState, OnDone, OnAck, OnError,
          Nudge, PushHead, client
    <3>2. QED
      BY <3>1 DEF NothingParked
  <2>4. QED
    BY <2>1, <2>2, <2>3
<1>2. ASSUME NEW c \in Devices, Room(c) PROVE parked' = parked
  BY <1>2 DEF Room, HandleHello, HandleRowsReq, HandlePush, RefusePush, HandleStray, client
<1>3. Checkpoint \/ Reset \/ UNCHANGED vars => parked' = parked
  BY DEF Checkpoint, StartCheckpoint, Export, LosePost, CommitCheckpoint, Reset, vars, client
<1>4. parked' = parked => NothingParked'
  BY DEF NothingParked
<1>5. QED
  BY <1>1, <1>2, <1>3, <1>4 DEF Next

LEMMA SyncStep == SyncInv /\ [Next]_vars => SyncInv'
<1> SUFFICES ASSUME SyncInv, [Next]_vars PROVE SyncInv'
  OBVIOUS
<1>1. Shapes /\ Shapes'
  BY ShapesStep DEF SyncInv
<1>2. SUFFICES ASSUME Sound' PROVE Synced' /\ NothingParked'
  BY <1>1 DEF SyncInv, Synced
<1>3. Synced /\ NothingParked /\ raced' = {} /\ ~wiped'
  BY <1>2, SoundBefore DEF SyncInv, Synced, Sound
<1>0. NothingParked'
  BY <1>1, <1>3, ParkedStep
<1> SUFFICES Synced'
  BY <1>0
<1>4. ASSUME NEW c \in Devices, Device(c) PROVE Synced'
  BY <1>1, <1>3, <1>4, EditKeeps, SaveKeeps, CrashKeeps, BootKeeps, DialKeeps, DisconnectKeeps,
     OnStateKeeps, FetchKeeps, OnRowKeeps, OnDoneKeeps, OnAckKeeps, OnErrorKeeps, PushKeeps
  DEF Device
<1>5. ASSUME NEW c \in Devices, Room(c) PROVE Synced'
  BY <1>1, <1>3, <1>5, HelloKeeps, RowsReqKeeps, BatchKeeps, RefuseKeeps DEF Room
<1>6. CASE Checkpoint
  BY <1>1, <1>3, <1>6, CheckpointKeeps
<1>7. CASE Reset
  BY <1>3, <1>7 DEF Reset
<1>8. CASE UNCHANGED vars
  <2>1. UNCHANGED <<room, posts, job>> /\ \A d \in Devices : UNCHANGED View(d)
    BY <1>8 DEF vars, room, client, wire, store, post, View
  <2>2. \A d \in Devices : Local(d)'
    BY <1>3, <2>1, Elsewhere DEF Synced
  <2>3. Covered'
    BY <1>3, <2>1, <1>8, CoveredKept DEF Synced, Covered, vars, client
  <2>4. QED
    BY <2>2, <2>3 DEF Synced
<1>9. QED
  BY <1>4, <1>5, <1>6, <1>7, <1>8 DEF Next

(* In every reachable state the shapes hold, and until a wipe or a step that falls into a
   window of the code, the sessions, the stores and what is in flight agree with the room's log (chat-room.ts,
   chat_client.rs, chat2_host.rs). *)
THEOREM SyncInvariant == Spec => []SyncInv
<1>1. Init => SyncInv
  BY SyncInit
<1>2. SyncInv /\ [Next]_vars => SyncInv'
  BY SyncStep
<1>3. QED
  BY <1>1, <1>2, PTL DEF Spec

(* What is pruned is in the checkpoint, for any number of devices and rows, whatever
   crashes and delays separate reading the cursor, exporting and committing
   (spawn_chat2_checkpoint, commitCheckpoint). *)
THEOREM RecoverableHolds == Spec => []Recoverable
<1>1. ASSUME SyncInv PROVE Recoverable
  <2>1. SUFFICES ASSUME Sound, NEW s \in 1..HeadSeq PROVE log[s].ops \subseteq Content
    BY DEF Recoverable, LogOps
  <2>2. Held(log, ckpt.ops, floor) /\ Len(log) \in Nat
    BY <1>1, <2>1, SeqLen DEF SyncInv, Covered, Shapes
  <2>3. CASE s > floor
    BY <2>3 DEF Content, Retained
  <2>4. CASE ~(s > floor)
    BY <2>2, <2>4 DEF Content, Held, HeadSeq
  <2>5. QED
    BY <2>3, <2>4
<1>2. QED
  BY <1>1, SyncInvariant, PTL

(* A document, in memory or on disk, holds every row up to its cursor, through saves,
   crashes, refetched checkpoints and rows that pass each other (persist_with_cursor,
   plan_catch_up, handle_frame). *)
THEOREM CursorHonestHolds == Spec => []CursorHonest
<1>1. ASSUME SyncInv PROVE CursorHonest
  BY <1>1 DEF SyncInv, CursorHonest, HoldsUpTo, Local, Stored, Held
<1>2. QED
  BY <1>1, SyncInvariant, PTL

(* A client that finished its backfill and has read what it was sent has every row of the
   room, pruned rows and rows of its own dead sockets included (handle_frame, rowsAfter). *)
THEOREM CaughtUpHolds == Spec => []CaughtUp
<1>1. ASSUME SyncInv PROVE CaughtUp
  <2>1. SUFFICES ASSUME Sound, NEW c \in Devices, conn[c] = "live", down[c] = << >>,
                        NEW s \in 1..Len(log)
                 PROVE  log[s].ops \subseteq doc[c]
    BY DEF CaughtUp, AllCaughtUp, LogOps, HeadSeq
  <2>2. Flowing(log, c, doc[c], down[c])
    BY <1>1, <2>1 DEF SyncInv, Local, Session, Served
  <2>3. ~Arriving(down[c], Len(down[c]), s)
    BY <2>1, SmallSeqs DEF Arriving
  <2>4. QED
    BY <2>2, <2>3 DEF Flowing
<1>2. QED
  BY <1>1, SyncInvariant, PTL

-----------------------------------------------------------------------------
(* No queued edit is lost, races or not: what a batch id stands for never changes, and
   an id is acked only if its row is in the log. *)

\* A batch by its id and what is in it, wherever it is.
Key(b)       == <<b.id, b.ops>>
Keys(q)      == {Key(q[k]) : k \in 1..Len(q)}
PushKeys(u)  == {Key(u[k].batch) : k \in {i \in 1..Len(u) : u[i].t = "push"}}
StrayKeys(w) == {Key(w[k].batch) : k \in 1..Len(w)}
RowKeys(l)   == {<<l[s].batch, l[s].ops>> : s \in 1..Len(l)}

KeysOf(c) == Keys(pending[c]) \cup PushKeys(up[c]) \cup StrayKeys(stray[c])
Minted    == RowKeys(log) \cup UNION {KeysOf(c) : c \in Devices}

\* Batch id is in log l.
Logged(l, id) == \E s \in 1..Len(l) : l[s].batch = id

\* A batch that holds operation o is in log l or in queue q.
Safe(l, q, o) == \/ \E s \in 1..Len(l) : o \in l[s].ops
                 \/ \E k \in 1..Len(q) : o \in q[k].ops

MintInv ==
    /\ batches \in Nat
    /\ \A x \in Minted : x[1] \in 1..batches
    /\ \A x, y \in Minted : x[1] = y[1] => x[2] = y[2]

AckInv(c) == \A k \in 1..Len(down[c]) : down[c][k].t = "ack" => Logged(log, down[c][k].batch)

EditInv ==
    /\ Shapes /\ MintInv
    /\ ~wiped => \A c \in Devices : AckInv(c) /\ \A o \in mine[c] : Safe(log, pending[c], o)

\* What the queues and frames of a step hold is what was held before.
LEMMA KeysFacts ==
    ASSUME NEW q, IsSeq(q)
    PROVE  /\ Keys(<< >>) = {} /\ PushKeys(<< >>) = {} /\ StrayKeys(<< >>) = {}
           /\ \A e : Keys(<<e>>) = {Key(e)} /\ Keys(Append(q, e)) \subseteq Keys(q) \cup {Key(e)}
           /\ \A id : Keys(Retire(q, id)) \subseteq Keys(q)
           /\ PushKeys(Pushes(q)) \subseteq Keys(q)
<1>1. Keys(<< >>) = {} /\ PushKeys(<< >>) = {} /\ StrayKeys(<< >>) = {}
  BY SmallSeqs DEF Keys, PushKeys, StrayKeys
<1>2. ASSUME NEW e PROVE Keys(<<e>>) = {Key(e)} /\ Keys(Append(q, e)) \subseteq Keys(q) \cup {Key(e)}
  <2>1. Len(<<e>>) = 1 /\ <<e>>[1] = e
    BY SmallSeqs
  <2>2. Keys(<<e>>) = {Key(e)}
    BY <2>1 DEF Keys
  <2> DEFINE p == Append(q, e)
  <2>3. Len(p) = Len(q) + 1 /\ Len(q) \in Nat /\ p[Len(q) + 1] = e /\ \A i \in 1..Len(q) : p[i] = q[i]
    BY AppendFacts
  <2> HIDE DEF p
  <2>4. \A i \in 1..Len(p) : p[i] = e \/ \E j \in 1..Len(q) : p[i] = q[j]
    BY <2>3
  <2>5. QED
    BY <2>2, <2>4 DEF Keys, p
<1>3. ASSUME NEW id PROVE Keys(Retire(q, id)) \subseteq Keys(q)
  <2> DEFINE p == Retire(q, id)
  <2>1. \A i \in 1..Len(p) : \E j \in 1..Len(q) : p[i] = q[j]
    BY RetireFacts
  <2> HIDE DEF p
  <2>2. QED
    BY <2>1 DEF Keys, p
<1>4. PushKeys(Pushes(q)) \subseteq Keys(q)
  <2> DEFINE p == Pushes(q)
  <2>1. Len(p) = Len(q) /\ \A k \in 1..Len(q) : p[k] = PushFrame(q[k])
    BY PushesFacts
  <2> HIDE DEF p
  <2>2. \A k \in 1..Len(p) : p[k].batch = q[k]
    <3>1. \A b : PushFrame(b).batch = b
      BY DEF PushFrame
    <3>2. QED
      BY <2>1, <3>1
  <2>3. QED
    BY <2>1, <2>2 DEF Keys, PushKeys, p
<1>5. QED
  BY <1>1, <1>2, <1>3, <1>4

LEMMA PushKeysFacts ==
    ASSUME NEW u, IsSeq(u)
    PROVE  /\ \A e : e.t # "push" => PushKeys(Append(u, e)) \subseteq PushKeys(u) /\ PushKeys(<<e>>) = {}
           /\ u # << >> => PushKeys(Tail(u)) \subseteq PushKeys(u)
           /\ \A q : IsSeq(q) => PushKeys(u \o Pushes(q)) \subseteq PushKeys(u) \cup Keys(q)
<1>1. ASSUME NEW e, e.t # "push"
      PROVE  PushKeys(Append(u, e)) \subseteq PushKeys(u) /\ PushKeys(<<e>>) = {}
  <2>1. Len(<<e>>) = 1 /\ <<e>>[1] = e
    BY SmallSeqs
  <2>2. PushKeys(<<e>>) = {}
    BY <1>1, <2>1 DEF PushKeys
  <2> DEFINE p == Append(u, e)
  <2>3. Len(p) = Len(u) + 1 /\ Len(u) \in Nat /\ p[Len(u) + 1] = e /\ \A i \in 1..Len(u) : p[i] = u[i]
    BY AppendFacts
  <2> HIDE DEF p
  <2>4. \A i \in 1..Len(p) : p[i] = e \/ (i \in 1..Len(u) /\ p[i] = u[i])
    BY <2>3
  <2>5. QED
    BY <1>1, <2>2, <2>4 DEF PushKeys, p
<1>2. ASSUME u # << >> PROVE PushKeys(Tail(u)) \subseteq PushKeys(u)
  <2> DEFINE p == Tail(u)
  <2>1. \A i \in 1..Len(p) : p[i] = u[i + 1] /\ i + 1 \in 1..Len(u)
    BY <1>2, TailFacts
  <2> HIDE DEF p
  <2>2. QED
    BY <2>1 DEF PushKeys, p
<1>3. ASSUME NEW q, IsSeq(q) PROVE PushKeys(u \o Pushes(q)) \subseteq PushKeys(u) \cup Keys(q)
  <2> DEFINE p == Pushes(q)
             r == u \o p
  <2>1. IsSeq(p) /\ Len(p) = Len(q) /\ \A k \in 1..Len(q) : p[k] = PushFrame(q[k])
    BY <1>3, PushesFacts
  <2> HIDE DEF p
  <2>2. \A k \in 1..Len(q) : p[k].batch = q[k]
    <3>1. \A b : PushFrame(b).batch = b
      BY DEF PushFrame
    <3>2. QED
      BY <2>1, <3>1
  <2>3. /\ Len(u) \in Nat /\ Len(r) = Len(u) + Len(p) /\ Len(p) \in Nat
        /\ \A i \in 1..Len(u) : r[i] = u[i]
        /\ \A i \in 1..Len(r) : i > Len(u) => i - Len(u) \in 1..Len(p) /\ r[i] = p[i - Len(u)]
    BY <2>1, JoinFacts
  <2> HIDE DEF r
  <2>4. \A i \in 1..Len(r) : \/ i \in 1..Len(u) /\ r[i] = u[i]
                             \/ \E j \in 1..Len(q) : r[i].batch = q[j]
    BY <2>1, <2>2, <2>3
  <2>5. QED
    BY <2>4 DEF Keys, PushKeys, r, p
<1>4. QED
  BY <1>1, <1>2, <1>3

LEMMA StrayKeysFacts ==
    ASSUME NEW w, IsSeq(w)
    PROVE  /\ w # << >> => StrayKeys(Tail(w)) \subseteq StrayKeys(w) /\ Key(Head(w).batch) \in StrayKeys(w)
           /\ \A u : IsSeq(u) => \A k \in 0..Len(u) :
                (\A i \in 1..k : u[i].t = "push")
                => StrayKeys(w \o SubSeq(u, 1, k)) \subseteq StrayKeys(w) \cup PushKeys(u)
<1>1. ASSUME w # << >>
      PROVE  StrayKeys(Tail(w)) \subseteq StrayKeys(w) /\ Key(Head(w).batch) \in StrayKeys(w)
  <2> DEFINE p == Tail(w)
  <2>1. /\ \A i \in 1..Len(p) : p[i] = w[i + 1] /\ i + 1 \in 1..Len(w)
        /\ Head(w) = w[1] /\ 1 \in 1..Len(w)
    BY <1>1, TailFacts
  <2> HIDE DEF p
  <2>2. QED
    BY <2>1 DEF StrayKeys, p
<1>2. ASSUME NEW u, IsSeq(u), NEW k \in 0..Len(u), \A i \in 1..k : u[i].t = "push"
      PROVE  StrayKeys(w \o SubSeq(u, 1, k)) \subseteq StrayKeys(w) \cup PushKeys(u)
  <2> DEFINE p == SubSeq(u, 1, k)
             r == w \o p
  <2>1. IsSeq(p) /\ Len(p) = k /\ \A i \in 1..k : p[i] = u[i]
    BY <1>2, PrefixFacts
  <2> HIDE DEF p
  <2>2. /\ Len(w) \in Nat /\ Len(r) = Len(w) + Len(p) /\ Len(p) \in Nat
        /\ \A i \in 1..Len(w) : r[i] = w[i]
        /\ \A i \in 1..Len(r) : i > Len(w) => i - Len(w) \in 1..Len(p) /\ r[i] = p[i - Len(w)]
    BY <2>1, JoinFacts
  <2> HIDE DEF r
  <2>3. \A i \in 1..Len(r) : \/ i \in 1..Len(w) /\ r[i] = w[i]
                             \/ \E j \in 1..Len(u) : r[i] = u[j] /\ u[j].t = "push"
    <3>1. \A j \in 1..k : j \in 1..Len(u)
      BY <1>2, SeqLen
    <3>2. QED
      BY <1>2, <2>1, <2>2, <3>1
  <2>4. ASSUME NEW x \in StrayKeys(r) PROVE x \in StrayKeys(w) \cup PushKeys(u)
    <3>1. PICK i \in 1..Len(r) : x = Key(r[i].batch)
      BY DEF StrayKeys
    <3>2. CASE i \in 1..Len(w) /\ r[i] = w[i]
      BY <3>1, <3>2 DEF StrayKeys
    <3>3. ASSUME NEW j \in 1..Len(u), r[i] = u[j], u[j].t = "push" PROVE x \in PushKeys(u)
      BY <3>1, <3>3 DEF PushKeys
    <3>4. QED
      BY <2>3, <3>2, <3>3
  <2>5. QED
    BY <2>4 DEF r, p
<1>3. QED
  BY <1>1, <1>2

\* K is empty, or has one fresh id, for a new operation or a document read from disk.
Fresh(K) == \/ batches' = batches /\ K = {}
            \/ /\ batches' = batches + 1
               /\ \E o : /\ K = {<<batches + 1, o>>} /\ o # {}
                         /\ \/ made' = made + 1 /\ o = {made'}
                            \/ \E c \in Devices : o = disk[c].ops

LEMMA MintedUnion ==
    ASSUME NEW c \in Devices, \A d \in Devices : d # c => KeysOf(d)' = KeysOf(d),
           NEW K, KeysOf(c)' \subseteq KeysOf(c) \cup K,
           RowKeys(log') \subseteq RowKeys(log) \cup KeysOf(c)
    PROVE  Minted' \subseteq Minted \cup K
<1>1. \A d \in Devices : KeysOf(d)' \subseteq Minted \cup K
  BY DEF Minted
<1>2. RowKeys(log') \subseteq Minted
  BY DEF Minted
<1>3. QED
  BY <1>1, <1>2 DEF Minted

LEMMA CutKeys ==
    ASSUME Shapes, NEW c \in Devices, Cut(c)
    PROVE  PushKeys(up'[c]) \cup StrayKeys(stray'[c]) \subseteq PushKeys(up[c]) \cup StrayKeys(stray[c])
<1> USE DEF Shapes, WireShape
<1>1. PICK k \in 0..Len(up[c]) : (\A i \in 1..k : up[c][i].t = "push")
                                 /\ stray'[c] = stray[c] \o SubSeq(up[c], 1, k)
  BY DEF Cut
<1>2. StrayKeys(stray'[c]) \subseteq StrayKeys(stray[c]) \cup PushKeys(up[c])
  BY <1>1, StrayKeysFacts
<1>3. up'[c] = << >>
  BY DEF Cut
<1>4. PushKeys(up'[c]) = {}
  BY <1>3, SmallSeqs, KeysFacts
<1>5. QED
  BY <1>2, <1>4

LEMMA DeviceKeys ==
    ASSUME Shapes, NEW c \in Devices, Device(c)
    PROVE  \E K : Fresh(K) /\ Minted' \subseteq Minted \cup K
<1> USE DEF Shapes, DocShape, WireShape
<1>1. /\ log' = log
      /\ \A d \in Devices : d # c => pending'[d] = pending[d] /\ up'[d] = up[d] /\ stray'[d] = stray[d]
  <2>1. CASE Edit(c) \/ SaveExport(c) \/ SaveWrite(c) \/ Boot(c) \/ OnRow(c) \/ OnAck(c) \/ OnError(c)
    BY <2>1 DEF Edit, SaveExport, SaveWrite, Boot, OnRow, OnAck, OnError, room, client, wire
  <2>2. CASE Crash(c) \/ Disconnect(c)
    BY <2>2 DEF Crash, Disconnect, Cut, room
  <2>3. CASE Dial(c) \/ OnState(c) \/ Fetch(c) \/ OnDone(c) \/ Nudge(c) \/ PushHead(c)
    BY <2>3 DEF Dial, OnState, Fetch, OnDone, Nudge, PushHead, room, client
  <2>4. QED
    BY <2>1, <2>2, <2>3 DEF Device
<1>2. \A d \in Devices : d # c => KeysOf(d)' = KeysOf(d)
  BY <1>1 DEF KeysOf
<1>3. SUFFICES \E K : Fresh(K) /\ KeysOf(c)' \subseteq KeysOf(c) \cup K
  <2>1. ASSUME NEW K, KeysOf(c)' \subseteq KeysOf(c) \cup K PROVE Minted' \subseteq Minted \cup K
    BY <1>1, <1>2, <2>1, MintedUnion
  <2>2. QED
    BY <2>1
<1>4. ASSUME batches' = batches, KeysOf(c)' \subseteq KeysOf(c)
      PROVE  \E K : Fresh(K) /\ KeysOf(c)' \subseteq KeysOf(c) \cup K
  <2>1. Fresh({})
    BY <1>4 DEF Fresh
  <2>2. QED
    BY <1>4, <2>1
<1>5. CASE UNCHANGED <<pending, up, stray, batches>>
  BY <1>4, <1>5 DEF KeysOf
<1>6. CASE Edit(c)
  <2>1. UNCHANGED <<up, stray>>
    BY <1>6 DEF Edit, wire
  <2> DEFINE e == [id |-> batches + 1, ops |-> {made + 1}]
  <2>2. \/ UNCHANGED <<pending, batches>>
        \/ pending'[c] = Append(pending[c], e) /\ batches' = batches + 1
    BY <1>6 DEF Edit
  <2>3. CASE UNCHANGED <<pending, batches>>
    BY <1>5, <2>1, <2>3
  <2>4. CASE pending'[c] = Append(pending[c], e) /\ batches' = batches + 1
    <3>1. Fresh({<<batches + 1, {made + 1}>>})
      BY <1>6, <2>4 DEF Edit, Fresh
    <3>2. Key(e) = <<batches + 1, {made + 1}>>
      BY DEF Key
    <3> HIDE DEF e
    <3>3. Keys(pending'[c]) \subseteq Keys(pending[c]) \cup {Key(e)}
      BY <2>4, KeysFacts
    <3>4. KeysOf(c)' \subseteq KeysOf(c) \cup {<<batches + 1, {made + 1}>>}
      BY <2>1, <3>2, <3>3 DEF KeysOf
    <3>5. QED
      BY <3>1, <3>4
  <2>5. QED
    BY <2>2, <2>3, <2>4
<1>7. CASE Boot(c)
  <2>1. UNCHANGED <<up, stray>>
    BY <1>7 DEF Boot, wire
  <2> DEFINE e == [id |-> batches + 1, ops |-> disk[c].ops]
  <2>2. \/ UNCHANGED <<pending, batches>>
        \/ pending'[c] = <<e>> /\ batches' = batches + 1 /\ disk[c].ops # {}
    BY <1>7 DEF Boot
  <2>3. CASE UNCHANGED <<pending, batches>>
    BY <1>5, <2>1, <2>3
  <2>4. CASE pending'[c] = <<e>> /\ batches' = batches + 1 /\ disk[c].ops # {}
    <3>1. Fresh({<<batches + 1, disk[c].ops>>})
      BY <2>4 DEF Fresh
    <3>2. Key(e) = <<batches + 1, disk[c].ops>>
      BY DEF Key
    <3> HIDE DEF e
    <3>3. Keys(pending'[c]) = {Key(e)}
      BY <2>4, KeysFacts
    <3>4. KeysOf(c)' \subseteq KeysOf(c) \cup {<<batches + 1, disk[c].ops>>}
      BY <2>1, <3>2, <3>3 DEF KeysOf
    <3>5. QED
      BY <3>1, <3>4
  <2>5. QED
    BY <2>2, <2>3, <2>4
<1>8. CASE Crash(c) \/ Disconnect(c)
  <2>1. batches' = batches /\ Cut(c) /\ (pending'[c] = << >> \/ pending'[c] = pending[c])
    BY <1>8 DEF Crash, Disconnect
  <2>2. Keys(pending'[c]) \subseteq Keys(pending[c])
    BY <2>1, SmallSeqs, KeysFacts
  <2>3. KeysOf(c)' \subseteq KeysOf(c)
    BY <2>1, <2>2, CutKeys DEF KeysOf
  <2>4. QED
    BY <1>4, <2>1, <2>3
<1>9. CASE Dial(c) \/ OnState(c) \/ Fetch(c)
  <2>1. /\ UNCHANGED <<pending, stray, batches>>
        /\ \/ up'[c] = up[c]
           \/ up'[c] = <<[t |-> "hello"]>>
           \/ \E n : up'[c] = Append(up[c], RowsReq(n, resumed[c]))
    BY <1>9 DEF Dial, OnState, Fetch, client, meta, past
  <2>2. \A n, own : RowsReq(n, own).t # "push"
    BY DEF RowsReq
  <2>3. PushKeys(up'[c]) \subseteq PushKeys(up[c])
    <3> DEFINE h == [t |-> "hello"]
    <3>1. h.t # "push"
      OBVIOUS
    <3> HIDE DEF h
    <3>2. PushKeys(<<h>>) = {}
      BY <3>1, PushKeysFacts
    <3>3. ASSUME NEW n PROVE PushKeys(Append(up[c], RowsReq(n, resumed[c]))) \subseteq PushKeys(up[c])
      <4> DEFINE e == RowsReq(n, resumed[c])
      <4>1. e.t # "push"
        BY <2>2
      <4> HIDE DEF e
      <4>2. PushKeys(Append(up[c], e)) \subseteq PushKeys(up[c])
        BY <4>1, PushKeysFacts
      <4>3. QED
        BY <4>2 DEF e
    <3>4. QED
      BY <2>1, <3>2, <3>3 DEF h
  <2>4. QED
    BY <1>4, <2>1, <2>3 DEF KeysOf
<1>10. CASE OnDone(c) \/ Nudge(c) \/ PushHead(c)
  <2>1. /\ UNCHANGED <<pending, stray, batches>>
        /\ \/ up'[c] = up[c]
           \/ up'[c] = up[c] \o Pushes(pending[c])
           \/ up'[c] = up[c] \o HeadBatch(pending[c])
    BY <1>10 DEF OnDone, Nudge, PushHead, meta, past
  <2>2. PICK q : HeadBatch(pending[c]) = Pushes(q) /\ IsSeq(q) /\ Keys(q) \subseteq Keys(pending[c])
    <3>1. CASE pending[c] = << >>
      <4>1. HeadBatch(pending[c]) = Pushes(pending[c])
        BY <3>1 DEF HeadBatch, Pushes
      <4>2. QED
        BY <4>1
    <3>2. CASE pending[c] # << >>
      <4> DEFINE b == pending[c][1]
      <4>1. Key(b) \in Keys(pending[c])
        <5>1. 1 \in 1..Len(pending[c])
          BY <3>2, TailFacts
        <5>2. QED
          BY <5>1 DEF Keys
      <4> HIDE DEF b
      <4>2. HeadBatch(pending[c]) = <<PushFrame(b)>>
        BY <3>2 DEF HeadBatch, b
      <4>3. Pushes(<<b>>) = <<PushFrame(b)>>
        BY DEF Pushes
      <4>4. IsSeq(<<b>>) /\ Keys(<<b>>) = {Key(b)}
        BY SmallSeqs, KeysFacts
      <4>5. QED
        BY <4>1, <4>2, <4>3, <4>4
    <3>3. QED
      BY <3>1, <3>2
  <2>3. PushKeys(up[c] \o Pushes(pending[c])) \subseteq PushKeys(up[c]) \cup Keys(pending[c])
    BY PushKeysFacts
  <2>4. PushKeys(up[c] \o Pushes(q)) \subseteq PushKeys(up[c]) \cup Keys(q)
    BY <2>2, PushKeysFacts
  <2>5. PushKeys(up'[c]) \subseteq PushKeys(up[c]) \cup Keys(pending[c])
    BY <2>1, <2>2, <2>3, <2>4
  <2>6. KeysOf(c)' \subseteq KeysOf(c)
    BY <2>1, <2>5 DEF KeysOf
  <2>7. QED
    BY <1>4, <2>1, <2>6
<1>11. CASE OnAck(c)
  <2>1. UNCHANGED <<up, stray, batches>> /\ pending'[c] = Retire(pending[c], Head(down[c]).batch)
    BY <1>11 DEF OnAck, meta, past
  <2>2. Keys(pending'[c]) \subseteq Keys(pending[c])
    BY <2>1, KeysFacts
  <2>3. QED
    BY <1>4, <2>1, <2>2 DEF KeysOf
<1>12. SaveExport(c) \/ SaveWrite(c) \/ OnRow(c) \/ OnError(c) => UNCHANGED <<pending, up, stray, batches>>
  BY DEF SaveExport, SaveWrite, OnRow, OnError, client, wire, meta, past
<1>13. QED
  BY <1>5, <1>6, <1>7, <1>8, <1>9, <1>10, <1>11, <1>12 DEF Device

LEMMA RoomKeys ==
    ASSUME Shapes, NEW c \in Devices, Room(c)
    PROVE  Minted' \subseteq Minted /\ batches' = batches
<1> USE DEF Shapes, DocShape, WireShape
<1>1. /\ UNCHANGED <<pending, batches>>
      /\ \A d \in Devices : d # c => up'[d] = up[d] /\ stray'[d] = stray[d]
  BY DEF Room, HandleHello, HandleRowsReq, HandlePush, RefusePush, HandleStray, client, wire, meta, past
<1>2. \A d \in Devices : d # c => KeysOf(d)' = KeysOf(d)
  BY <1>1 DEF KeysOf
<1>3. SUFFICES KeysOf(c)' \subseteq KeysOf(c) /\ RowKeys(log') \subseteq RowKeys(log) \cup KeysOf(c)
  <2>1. ASSUME KeysOf(c)' \subseteq KeysOf(c) \cup {}, RowKeys(log') \subseteq RowKeys(log) \cup KeysOf(c)
        PROVE  Minted' \subseteq Minted \cup {}
    BY <1>2, <2>1, MintedUnion
  <2>2. QED
    BY <1>1, <2>1
<1>4. up[c] # << >> => PushKeys(Tail(up[c])) \subseteq PushKeys(up[c])
  BY PushKeysFacts
<1>5. ASSUME NEW b, NEW sender, ApplyPush(c, b, sender), Key(b) \in KeysOf(c)
      PROVE  RowKeys(log') \subseteq RowKeys(log) \cup KeysOf(c)
  <2> DEFINE r == Row(c, b)
  <2>1. <<r.batch, r.ops>> = Key(b)
    BY DEF Row, Key
  <2>2. log' = log \/ log' = Append(log, r)
    BY <1>5 DEF ApplyPush
  <2> HIDE DEF r
  <2>3. /\ Len(Append(log, r)) = Len(log) + 1 /\ Len(log) \in Nat /\ Append(log, r)[Len(log) + 1] = r
        /\ \A s \in 1..Len(log) : Append(log, r)[s] = log[s]
    BY AppendFacts
  <2>4. \A s \in 1..Len(log') : (s \in 1..Len(log) /\ log'[s] = log[s]) \/ log'[s] = r
    BY <2>2, <2>3
  <2>5. QED
    BY <1>5, <2>1, <2>4 DEF RowKeys
<1>6. CASE HandleHello(c) \/ HandleRowsReq(c) \/ RefusePush(c)
  <2>1. UNCHANGED <<log, stray>> /\ up[c] # << >> /\ up'[c] = Tail(up[c])
    BY <1>6 DEF HandleHello, HandleRowsReq, RefusePush, Arrived, room
  <2>2. QED
    BY <1>1, <1>4, <2>1 DEF KeysOf
<1>7. CASE HandlePush(c)
  <2>1. /\ UNCHANGED stray /\ up[c] # << >> /\ Head(up[c]).t = "push" /\ up'[c] = Tail(up[c])
        /\ ApplyPush(c, Head(up[c]).batch, {c})
    BY <1>7 DEF HandlePush, Arrived
  <2>2. Head(up[c]) = up[c][1] /\ 1 \in 1..Len(up[c])
    BY <2>1, TailFacts
  <2>3. Key(Head(up[c]).batch) \in PushKeys(up[c])
    BY <2>1, <2>2 DEF PushKeys
  <2>4. RowKeys(log') \subseteq RowKeys(log) \cup KeysOf(c)
    BY <1>5, <2>1, <2>3 DEF KeysOf
  <2>5. QED
    BY <1>1, <1>4, <2>1, <2>4 DEF KeysOf
<1>8. CASE HandleStray(c)
  <2>1. /\ UNCHANGED up /\ stray[c] # << >> /\ stray'[c] = Tail(stray[c])
        /\ ApplyPush(c, Head(stray[c]).batch, {})
    BY <1>8 DEF HandleStray
  <2>2. StrayKeys(stray'[c]) \subseteq StrayKeys(stray[c]) /\ Key(Head(stray[c]).batch) \in StrayKeys(stray[c])
    BY <2>1, StrayKeysFacts
  <2>3. RowKeys(log') \subseteq RowKeys(log) \cup KeysOf(c)
    BY <1>5, <2>1, <2>2 DEF KeysOf
  <2>4. QED
    BY <1>1, <2>1, <2>2, <2>3 DEF KeysOf
<1>9. QED
  BY <1>6, <1>7, <1>8 DEF Room

LEMMA MintedStep ==
    ASSUME Shapes, [Next]_vars
    PROVE  \E K : Fresh(K) /\ Minted' \subseteq Minted \cup K
<1>1. ASSUME NEW c \in Devices, Device(c) PROVE \E K : Fresh(K) /\ Minted' \subseteq Minted \cup K
  BY <1>1, DeviceKeys
<1>2. ASSUME Minted' \subseteq Minted, batches' = batches
      PROVE  \E K : Fresh(K) /\ Minted' \subseteq Minted \cup K
  <2>1. Fresh({})
    BY <1>2 DEF Fresh
  <2>2. QED
    BY <1>2, <2>1
<1>3. ASSUME NEW c \in Devices, Room(c) PROVE \E K : Fresh(K) /\ Minted' \subseteq Minted \cup K
  BY <1>2, <1>3, RoomKeys
<1>4. CASE Checkpoint \/ Reset \/ UNCHANGED vars
  <2>1. UNCHANGED <<pending, up, stray, batches>> /\ (log' = log \/ log' = << >>)
    BY <1>4 DEF Checkpoint, StartCheckpoint, Export, LosePost, CommitCheckpoint, Reset, vars,
                room, client, wire, meta, past
  <2>2. RowKeys(<< >>) = {}
    BY SmallSeqs DEF RowKeys
  <2>3. Minted' \subseteq Minted
    BY <2>1, <2>2 DEF Minted, KeysOf
  <2>4. QED
    BY <1>2, <2>1, <2>3
<1>5. QED
  BY <1>1, <1>3, <1>4 DEF Next

LEMMA MintKept ==
    ASSUME Shapes, MintInv, [Next]_vars
    PROVE  MintInv'
<1>1. PICK K : Fresh(K) /\ Minted' \subseteq Minted \cup K
  BY MintedStep
<1>2. CASE batches' = batches /\ K = {}
  BY <1>1, <1>2 DEF MintInv
<1>3. CASE batches' = batches + 1 /\ \E o : K = {<<batches + 1, o>>}
  <2>1. PICK o : K = {<<batches + 1, o>>}
    BY <1>3
  <2>2. batches \in Nat /\ \A x \in Minted : x[1] \in 1..batches
    BY DEF MintInv
  <2>3. \A x \in Minted' : x \in Minted \/ (x[1] = batches + 1 /\ x[2] = o)
    BY <1>1, <2>1
  <2>4. \A x \in Minted' : x[1] \in 1..(batches + 1)
    BY <2>2, <2>3
  <2>5. \A x, y \in Minted' : x[1] = y[1] => x[2] = y[2]
    BY <2>2, <2>3 DEF MintInv
  <2>6. QED
    BY <1>3, <2>2, <2>4, <2>5 DEF MintInv
<1>4. QED
  BY <1>1, <1>2, <1>3 DEF Fresh

\* Acks in flight stay good: a device only takes frames.
LEMMA DeviceAcks ==
    ASSUME Shapes, NEW c \in Devices, Device(c), NEW d \in Devices, AckInv(d)
    PROVE  AckInv(d)'
<1> USE DEF Shapes, WireShape
<1>1. /\ log' = log
      /\ down'[d] = down[d] \/ down'[d] = << >> \/ (down[d] # << >> /\ down'[d] = Tail(down[d]))
  <2>1. CASE Crash(c) \/ Disconnect(c)
    BY <2>1 DEF Crash, Disconnect, Cut, room
  <2>2. CASE Fetch(c)
    BY <2>2 DEF Fetch, Fetching, room
  <2>3. CASE Edit(c) \/ SaveExport(c) \/ SaveWrite(c) \/ Boot(c) \/ Dial(c) \/ Nudge(c) \/ PushHead(c)
    BY <2>3 DEF Edit, SaveExport, SaveWrite, Boot, Dial, Nudge, PushHead, room, wire
  <2>4. CASE OnState(c) \/ OnRow(c) \/ OnDone(c) \/ OnAck(c) \/ OnError(c)
    BY <2>4 DEF OnState, OnRow, OnDone, OnAck, OnError, Frame, room
  <2>5. QED
    BY <2>1, <2>2, <2>3, <2>4 DEF Device
<1>2. CASE down'[d] = down[d]
  BY <1>1, <1>2 DEF AckInv
<1>3. CASE down'[d] = << >>
  BY <1>3, SmallSeqs DEF AckInv
<1>4. CASE down[d] # << >> /\ down'[d] = Tail(down[d])
  BY <1>1, <1>4, TailFacts DEF AckInv
<1>5. QED
  BY <1>1, <1>2, <1>3, <1>4

LEMMA LoggedMore ==
    ASSUME NEW l, NEW m, Extends(l, m)
    PROVE  /\ \A id : Logged(l, id) => Logged(m, id)
           /\ \A q, o : Safe(l, q, o) => Safe(m, q, o)
<1>1. \A s \in 1..Len(l) : s \in 1..Len(m) /\ m[s] = l[s]
  BY DEF Extends
<1>2. QED
  BY <1>1 DEF Logged, Safe

\* The room sends frames that are no acks, or the ack of a row it has.
LEMMA RoomAcks ==
    ASSUME Shapes, NEW c \in Devices, Room(c), NEW d \in Devices, AckInv(d)
    PROVE  Extends(log, log') /\ AckInv(d)'
<1> USE DEF Shapes, WireShape
<1>1. Extends(log, log) /\ \A r : Extends(log, Append(log, r))
  BY ExtendsSame
<1>2. ASSUME Extends(log, log'),
             NEW e, e.t = "ack" => Logged(log', e.batch), down'[d] \in {down[d], Append(down[d], e)}
      PROVE  AckInv(d)'
  <2>1. \A k \in 1..Len(down[d]) : down[d][k].t = "ack" => Logged(log', down[d][k].batch)
    BY <1>2, LoggedMore DEF AckInv
  <2>2. CASE down'[d] = down[d]
    BY <2>1, <2>2 DEF AckInv
  <2>3. CASE down'[d] = Append(down[d], e)
    <3>1. /\ Len(down'[d]) = Len(down[d]) + 1 /\ Len(down[d]) \in Nat
          /\ down'[d][Len(down[d]) + 1] = e
          /\ \A i \in 1..Len(down[d]) : down'[d][i] = down[d][i]
      BY <2>3, AppendFacts
    <3>2. \A k \in 1..Len(down'[d]) : down'[d][k] = e \/ (k \in 1..Len(down[d]) /\ down'[d][k] = down[d][k])
      BY <3>1
    <3>3. QED
      BY <1>2, <2>1, <3>2 DEF AckInv
  <2>4. QED
    BY <1>2, <2>2, <2>3
<1>3. CASE HandleHello(c)
  <2>1. log' = log /\ down'[d] \in {down[d], Append(down[d], StateFrame)} /\ StateFrame.t # "ack"
    BY <1>3 DEF HandleHello, room, StateFrame
  <2>2. QED
    BY <1>1, <1>2, <2>1
<1>4. CASE HandleRowsReq(c)
  <2>1. PICK q \in Ascending(Backfill(c, Head(up[c]))) :
            down' = [down EXCEPT ![c] = Append(down[c] \o RowFrames(q), DoneFrame)]
    BY <1>4 DEF HandleRowsReq, RowFrames
  <2>2. log' = log
    BY <1>4 DEF HandleRowsReq, room
  <2> DEFINE r == RowFrames(q)
             p == down[c] \o r
             w == Append(p, DoneFrame)
  <2>3. PICK m \in Nat : IsSeq(r) /\ Len(r) = m /\ \A k \in 1..m : r[k].t = "row"
    <3>1. Backfill(c, Head(up[c])) \subseteq 1..Len(log)
      BY DEF Backfill, Retained, HeadSeq
    <3>2. PICK m \in Nat : DOMAIN q = 1..m
      BY <3>1, AscendingFacts
    <3>3. IsSeq(r) /\ Len(r) = m /\ \A k \in 1..m : r[k] = RowFrame(q[k], log[q[k]].ops)
      BY <3>2, RowFramesFacts
    <3> HIDE DEF r
    <3>4. \A s, o : RowFrame(s, o).t = "row"
      BY DEF RowFrame
    <3>5. QED
      BY <3>3, <3>4
  <2> HIDE DEF r
  <2>4. IsSeq(p) /\ \A k \in 1..Len(p) : p[k].t = "row" \/ (k \in 1..Len(down[c]) /\ p[k] = down[c][k])
    <3>1. /\ IsSeq(p) /\ Len(p) = Len(down[c]) + Len(r) /\ Len(down[c]) \in Nat
          /\ \A i \in 1..Len(down[c]) : p[i] = down[c][i]
          /\ \A i \in 1..Len(p) : i > Len(down[c]) => i - Len(down[c]) \in 1..Len(r) /\ p[i] = r[i - Len(down[c])]
      BY <2>3, JoinFacts
    <3> HIDE DEF p
    <3>2. QED
      BY <2>3, <3>1
  <2> HIDE DEF p
  <2>5. \A k \in 1..Len(w) : w[k] = DoneFrame \/ (k \in 1..Len(p) /\ w[k] = p[k])
    <3>1. /\ Len(w) = Len(p) + 1 /\ Len(p) \in Nat /\ w[Len(p) + 1] = DoneFrame
          /\ \A i \in 1..Len(p) : w[i] = p[i]
      BY <2>4, AppendFacts
    <3> HIDE DEF w
    <3>2. QED
      BY <3>1
  <2> HIDE DEF w
  <2>6. DoneFrame.t = "done"
    BY DEF DoneFrame
  <2>7. CASE d = c
    <3>1. down'[d] = w
      BY <2>1, <2>7 DEF w, p, r
    <3>2. \A k \in 1..Len(w) : w[k].t = "ack" => k \in 1..Len(down[d]) /\ w[k] = down[d][k]
      BY <2>4, <2>5, <2>6, <2>7
    <3>3. QED
      BY <1>1, <2>2, <3>1, <3>2 DEF AckInv
  <2>8. CASE d # c
    BY <1>1, <2>1, <2>2, <2>8 DEF AckInv
  <2>9. QED
    BY <2>7, <2>8
<1>5. CASE RefusePush(c)
  <2> DEFINE e == Error(Head(up[c]).batch.id, "quota")
  <2>1. log' = log /\ down'[d] \in {down[d], Append(down[d], e)}
    BY <1>5 DEF RefusePush, room
  <2>2. e.t # "ack"
    BY DEF Error
  <2> HIDE DEF e
  <2>3. QED
    BY <1>1, <1>2, <2>1, <2>2
<1>6. ASSUME NEW b, NEW sender, ApplyPush(c, b, sender)
      PROVE  Extends(log, log') /\ AckInv(d)'
  <2>1. \A id, s : Ack(id, s).t = "ack" /\ Ack(id, s).batch = id
    BY DEF Ack
  <2>2. \A s, o : RowFrame(s, o).t = "row"
    BY DEF RowFrame
  <2>3. CASE Originals(b) = {}
    <3>1. log' = Append(log, Row(c, b))
      BY <1>6, <2>3 DEF ApplyPush
    <3>2. Logged(log', b.id)
      <4>1. Len(log) + 1 \in 1..Len(log') /\ log'[Len(log) + 1] = Row(c, b)
        BY <3>1, ExtendsSame, SeqLen
      <4>2. Row(c, b).batch = b.id
        BY DEF Row
      <4>3. QED
        BY <4>1, <4>2 DEF Logged
    <3>3. \/ down'[d] = down[d]
          \/ \E s : down'[d] = Append(down[d], Ack(b.id, s))
          \/ \E s, o : down'[d] = Append(down[d], RowFrame(s, o))
      BY <1>6, <2>3 DEF ApplyPush
    <3>4. PICK e : (e.t = "ack" => Logged(log', e.batch)) /\ down'[d] \in {down[d], Append(down[d], e)}
      <4>1. CASE down'[d] = down[d]
        BY <2>2, <4>1
      <4>2. CASE \E s : down'[d] = Append(down[d], Ack(b.id, s))
        BY <2>1, <3>2, <4>2
      <4>3. CASE \E s, o : down'[d] = Append(down[d], RowFrame(s, o))
        BY <2>2, <4>3
      <4>4. QED
        BY <3>3, <4>1, <4>2, <4>3
    <3>5. Extends(log, log')
      BY <1>1, <3>1
    <3>6. QED
      BY <1>2, <3>4, <3>5
  <2>4. CASE Originals(b) # {}
    <3> DEFINE s == CHOOSE s \in Originals(b) : TRUE
               e == Ack(b.id, s)
    <3>1. log' = log /\ down'[d] \in {down[d], Append(down[d], e)}
      BY <1>6, <2>4 DEF ApplyPush
    <3>2. e.batch = b.id
      BY <2>1
    <3>3. Logged(log, b.id)
      BY <2>4 DEF Originals, Retained, HeadSeq, Logged
    <3> HIDE DEF e
    <3>4. QED
      BY <1>1, <1>2, <3>1, <3>2, <3>3
  <2>5. QED
    BY <2>3, <2>4
<1>7. CASE HandlePush(c) \/ HandleStray(c)
  BY <1>6, <1>7 DEF HandlePush, HandleStray
<1>8. QED
  BY <1>1, <1>3, <1>4, <1>5, <1>7 DEF Room, HandleHello, HandleRowsReq, RefusePush, room

\* What a device queued stays in its queue until it is in the log.
LEMMA DeviceMine ==
    ASSUME Shapes, MintInv, NEW c \in Devices, Device(c), AckInv(c),
           NEW d \in Devices, \A o \in mine[d] : Safe(log, pending[d], o)
    PROVE  \A o \in mine'[d] : Safe(log', pending'[d], o)
<1> USE DEF Shapes, DocShape, WireShape
<1>1. UNCHANGED log /\ (d # c => UNCHANGED <<mine[d], pending[d]>>)
  <2>1. CASE Edit(c) \/ SaveExport(c) \/ SaveWrite(c) \/ Crash(c) \/ Boot(c)
    BY <2>1 DEF Edit, SaveExport, SaveWrite, Crash, Boot, room, client, meta, past
  <2>2. CASE Dial(c) \/ Disconnect(c) \/ OnState(c) \/ Fetch(c) \/ OnRow(c)
    BY <2>2 DEF Dial, Disconnect, OnState, Fetch, OnRow, room, client, meta, past
  <2>3. CASE OnDone(c) \/ OnAck(c) \/ OnError(c) \/ Nudge(c) \/ PushHead(c)
    BY <2>3 DEF OnDone, OnAck, OnError, Nudge, PushHead, room, client, meta, past
  <2>4. QED
    BY <2>1, <2>2, <2>3 DEF Device
<1>2. CASE UNCHANGED <<mine[d], pending[d]>>
  BY <1>1, <1>2
<1>3. CASE d = c /\ Edit(c)
  <2> DEFINE e == [id |-> batches + 1, ops |-> {made + 1}]
  <2>1. \/ UNCHANGED <<mine[d], pending[d]>>
        \/ mine'[c] = mine[c] \cup {made + 1} /\ pending'[c] = Append(pending[c], e)
    BY <1>3 DEF Edit
  <2>2. CASE mine'[c] = mine[c] \cup {made + 1} /\ pending'[c] = Append(pending[c], e)
    <3>1. made + 1 \in e.ops
      OBVIOUS
    <3> HIDE DEF e
    <3>2. /\ Len(pending'[c]) = Len(pending[c]) + 1 /\ Len(pending[c]) \in Nat
          /\ pending'[c][Len(pending[c]) + 1] = e
          /\ \A i \in 1..Len(pending[c]) : pending'[c][i] = pending[c][i] /\ i \in 1..Len(pending'[c])
      BY <2>2, AppendFacts
    <3>3. Len(pending[c]) + 1 \in 1..Len(pending'[c])
      BY <3>2
    <3>4. \A o : Safe(log, pending[c], o) => Safe(log, pending'[c], o)
      BY <3>2 DEF Safe
    <3>5. Safe(log, pending'[c], made + 1)
      BY <3>1, <3>2, <3>3 DEF Safe
    <3>6. QED
      BY <1>1, <1>3, <2>2, <3>4, <3>5
  <2>3. QED
    BY <1>2, <2>1, <2>2
<1>4. CASE d = c /\ Boot(c)
  <2> DEFINE e == [id |-> batches + 1, ops |-> disk[c].ops]
  <2>1. \/ UNCHANGED <<mine[d], pending[d]>>
        \/ mine'[c] = disk[c].ops /\ pending'[c] = <<e>>
    BY <1>4 DEF Boot
  <2>2. CASE mine'[c] = disk[c].ops /\ pending'[c] = <<e>>
    <3>1. e.ops = disk[c].ops
      OBVIOUS
    <3> HIDE DEF e
    <3>2. Len(pending'[c]) = 1 /\ pending'[c][1] = e
      BY <2>2, SmallSeqs
    <3>3. 1 \in 1..Len(pending'[c])
      BY <3>2
    <3>4. QED
      BY <1>4, <2>2, <3>1, <3>2, <3>3 DEF Safe
  <2>3. QED
    BY <1>2, <2>1, <2>2
<1>5. CASE d = c /\ Crash(c)
  BY <1>5 DEF Crash
<1>6. CASE d = c /\ OnAck(c)
  <2> DEFINE id == Head(down[c]).batch
  <2>1. UNCHANGED mine /\ pending'[c] = Retire(pending[c], id) /\ down[c] # << >> /\ Head(down[c]).t = "ack"
    BY <1>6 DEF OnAck, Frame, meta, past
  <2>2. Logged(log, id)
    <3>1. Head(down[c]) = down[c][1] /\ 1 \in 1..Len(down[c])
      BY <2>1, TailFacts
    <3>2. QED
      BY <2>1, <3>1 DEF AckInv
  <2> HIDE DEF id
  <2>3. \A j \in 1..Len(pending[c]) :
            pending[c][j].id = id \/ \E i \in 1..Len(pending'[c]) : pending'[c][i] = pending[c][j]
    <3>1. IsSeq(pending[c]) /\ pending'[c] = Retire(pending[c], id)
      BY <2>1
    <3>2. Others(pending[c], id, pending'[c])
      BY <3>1, RetireOthers
    <3>3. QED
      BY <3>2 DEF Others
  <2>4. ASSUME NEW j \in 1..Len(pending[c]), pending[c][j].id = id, NEW o \in pending[c][j].ops
        PROVE  \E s \in 1..Len(log) : o \in log[s].ops
    <3>1. PICK s \in 1..Len(log) : log[s].batch = id
      BY <2>2 DEF Logged
    <3>2. <<id, pending[c][j].ops>> \in Minted
      BY <2>4 DEF Minted, KeysOf, Keys, Key
    <3>3. <<id, log[s].ops>> \in Minted
      BY <3>1 DEF Minted, RowKeys
    <3>4. pending[c][j].ops = log[s].ops
      BY <3>2, <3>3 DEF MintInv
    <3>5. QED
      BY <2>4, <3>4
  <2>5. \A o : Safe(log, pending[c], o) => Safe(log, pending'[c], o)
    BY <2>3, <2>4 DEF Safe
  <2>6. QED
    BY <1>1, <1>6, <2>1, <2>5
<1>7. SaveExport(c) \/ SaveWrite(c) \/ Dial(c) \/ Disconnect(c) \/ OnState(c) \/ Fetch(c) \/ OnRow(c)
      \/ OnDone(c) \/ OnError(c) \/ Nudge(c) \/ PushHead(c) => UNCHANGED <<mine, pending>>
  BY DEF SaveExport, SaveWrite, Dial, Disconnect, OnState, Fetch, OnRow, OnDone, OnError, Nudge, PushHead,
         client, meta, past
<1>8. QED
  BY <1>1, <1>2, <1>3, <1>4, <1>5, <1>6, <1>7 DEF Device

LEMMA EditStep == EditInv /\ [Next]_vars => EditInv'
<1> SUFFICES ASSUME EditInv, [Next]_vars PROVE EditInv'
  OBVIOUS
<1>1. Shapes /\ MintInv /\ Shapes' /\ MintInv'
  BY ShapesStep, MintKept DEF EditInv
<1>2. SUFFICES ASSUME ~wiped', NEW d \in Devices
               PROVE  AckInv(d)' /\ \A o \in mine'[d] : Safe(log', pending'[d], o)
  BY <1>1 DEF EditInv
<1>3. \A c \in Devices : AckInv(c) /\ \A o \in mine[c] : Safe(log, pending[c], o)
  BY <1>2, WipedStays DEF EditInv
<1>4. ASSUME NEW c \in Devices, Device(c)
      PROVE  AckInv(d)' /\ \A o \in mine'[d] : Safe(log', pending'[d], o)
  <2>1. AckInv(d)'
    BY <1>1, <1>3, <1>4, DeviceAcks
  <2>2. \A o \in mine'[d] : Safe(log', pending'[d], o)
    BY <1>1, <1>3, <1>4, DeviceMine
  <2>3. QED
    BY <2>1, <2>2
<1>5. ASSUME NEW c \in Devices, Room(c)
      PROVE  AckInv(d)' /\ \A o \in mine'[d] : Safe(log', pending'[d], o)
  <2>1. Extends(log, log') /\ AckInv(d)'
    BY <1>1, <1>3, <1>5, RoomAcks
  <2>2. UNCHANGED <<mine, pending>>
    BY <1>5 DEF Room, HandleHello, HandleRowsReq, HandlePush, RefusePush, HandleStray, client, meta, past
  <2>3. QED
    BY <1>3, <2>1, <2>2, LoggedMore
<1>6. CASE Checkpoint \/ UNCHANGED vars
  <2>1. UNCHANGED <<log, down, mine, pending>>
    BY <1>6 DEF Checkpoint, StartCheckpoint, Export, LosePost, CommitCheckpoint, vars, room, client, wire, meta, past
  <2>2. QED
    BY <1>3, <2>1 DEF AckInv
<1>7. CASE Reset
  BY <1>2, <1>7 DEF Reset
<1>8. QED
  BY <1>4, <1>5, <1>6, <1>7 DEF Next

LEMMA EditInit == Init => EditInv
<1> SUFFICES ASSUME Init PROVE EditInv
  OBVIOUS
<1>1. Shapes
  BY ShapesInit
<1>2. Keys(<< >>) = {} /\ PushKeys(<< >>) = {} /\ StrayKeys(<< >>) = {} /\ RowKeys(<< >>) = {}
  BY SmallSeqs, KeysFacts DEF RowKeys
<1>3. Minted = {}
  <2>1. \A c \in Devices : KeysOf(c) = {}
    BY <1>2 DEF Init, KeysOf
  <2>2. QED
    BY <1>2, <2>1 DEF Init, Minted
<1>4. MintInv
  BY <1>3 DEF Init, MintInv
<1>5. \A c \in Devices : AckInv(c) /\ mine[c] = {}
  BY SmallSeqs DEF Init, AckInv
<1>6. QED
  BY <1>1, <1>4, <1>5 DEF EditInv

(* An operation a running engine queued is in its queue or in the room's log, whatever is
   lost, repeated, refused or raced (push_pending, handle_frame, handlePush). *)
THEOREM NoEditLostHolds == Spec => []NoEditLost
<1>1. Init => EditInv
  BY EditInit
<1>2. EditInv /\ [Next]_vars => EditInv'
  BY EditStep
<1>3. ASSUME EditInv PROVE NoEditLost
  <2>1. SUFFICES ASSUME ~wiped, NEW c \in Devices, NEW o \in mine[c]
                 PROVE  o \in LogOps \/ \E k \in DOMAIN pending[c] : o \in pending[c][k].ops
    BY DEF NoEditLost
  <2>2. Safe(log, pending[c], o)
    BY <1>3, <2>1 DEF EditInv
  <2>3. DOMAIN pending[c] = 1..Len(pending[c])
    BY <1>3, SeqLen DEF EditInv, Shapes, DocShape
  <2>4. QED
    BY <2>2, <2>3 DEF Safe, LogOps, HeadSeq
<1>4. QED
  BY <1>1, <1>2, <1>3, PTL DEF Spec

-----------------------------------------------------------------------------
(* The refinement of ChatLog: its entries are the rows' operations, its positions the
   cursors. *)

RowOps(l) == [s \in 1..Len(l) |-> l[s].ops]

\* While nothing is wiped, all of a row can be read: pruned rows from the checkpoint.
LEMMA ReadableFacts ==
    ASSUME NEW l, IsSeq(l), NEW ops, NEW n, Held(l, ops, n)
    PROVE  [s \in 1..Len(l) |->
               l[s].ops \cap (ops \cup UNION {l[r].ops : r \in {k \in 1..Len(l) : k > n}})] = RowOps(l)
<1> DEFINE all == ops \cup UNION {l[r].ops : r \in {k \in 1..Len(l) : k > n}}
<1>1. ASSUME NEW s \in 1..Len(l) PROVE l[s].ops \cap all = l[s].ops
  <2>1. CASE s > n
    BY <2>1
  <2>2. CASE ~(s > n)
    <3>1. Len(l) \in Nat /\ n \in 0..Len(l) /\ \A r \in 1..n : l[r].ops \subseteq ops
      BY SeqLen DEF Held
    <3>2. s \in 1..n
      BY <2>2, <3>1
    <3>3. l[s].ops \subseteq ops
      BY <3>1, <3>2
    <3>4. QED
      BY <3>3
  <2>3. QED
    BY <2>1, <2>2
<1> HIDE DEF all
<1>2. [s \in 1..Len(l) |-> l[s].ops \cap all] = [s \in 1..Len(l) |-> l[s].ops]
  BY <1>1
<1>3. QED
  BY <1>2 DEF RowOps, all

LEMMA RowOpsFacts ==
    ASSUME NEW l, IsSeq(l)
    PROVE  /\ Len(RowOps(l)) = Len(l) /\ \A s \in 1..Len(l) : RowOps(l)[s] = l[s].ops
           /\ \A r : RowOps(Append(l, r)) = Append(RowOps(l), r.ops)
<1>1. Len(l) \in Nat
  BY SeqLen
<1> DEFINE S == {l[s].ops : s \in 1..Len(l)}
<1>2. RowOps(l) \in Seq(S) /\ Len(RowOps(l)) = Len(l) /\ \A s \in 1..Len(l) : RowOps(l)[s] = l[s].ops
  BY <1>1 DEF RowOps
<1>3. ASSUME NEW r PROVE RowOps(Append(l, r)) = Append(RowOps(l), r.ops)
  <2> DEFINE m == Append(l, r)
             n == Len(l)
             a == RowOps(l)
  <2>1. Len(m) = n + 1 /\ m[n + 1] = r /\ \A s \in 1..n : m[s] = l[s]
    BY AppendFacts
  <2>2. RowOps(m) = [s \in 1..(n + 1) |-> IF s = n + 1 THEN r.ops ELSE l[s].ops]
    <3>1. RowOps(m) = [s \in 1..(n + 1) |-> m[s].ops]
      BY <2>1 DEF RowOps
    <3>2. \A s \in 1..(n + 1) : m[s].ops = IF s = n + 1 THEN r.ops ELSE l[s].ops
      BY <1>1, <2>1
    <3> HIDE DEF m
    <3>3. QED
      BY <3>1, <3>2
  <2>3. IsSeq(a) /\ Len(a) = n /\ \A s \in 1..n : a[s] = l[s].ops
    BY <1>2 DEF IsSeq
  <2> HIDE DEF a, m
  <2>4. PICK T : Append(a, r.ops) \in Seq(T)
    BY <2>3, AppendFacts DEF IsSeq
  <2>5. /\ Len(Append(a, r.ops)) = n + 1 /\ Append(a, r.ops)[n + 1] = r.ops
        /\ \A s \in 1..n : Append(a, r.ops)[s] = l[s].ops
    BY <2>3, AppendFacts
  <2>6. Append(a, r.ops) = [s \in 1..(n + 1) |-> Append(a, r.ops)[s]]
    BY <2>4, <2>5
  <2>7. \A s \in 1..(n + 1) : Append(a, r.ops)[s] = IF s = n + 1 THEN r.ops ELSE l[s].ops
    BY <1>1, <2>5
  <2>8. QED
    BY <2>2, <2>6, <2>7 DEF a, m
<1>4. QED
  BY <1>2, <1>3

OfDevices(f) == f = [c \in Devices |-> f[c]]

\* Every operation there is was made; a batch is not empty.
OpsInv ==
    /\ made \in Nat /\ wiped \in BOOLEAN
    /\ Sound => /\ OfDevices(doc) /\ OfDevices(cursor)
                /\ \A c \in Devices : doc[c] \subseteq Ops
                /\ ckpt.ops \subseteq Ops /\ \A p \in posts : p.ops \subseteq Ops
                /\ \A x \in Minted : x[2] # {} /\ x[2] \subseteq Ops

\* Document and cursor of device c become d and n; those of the others stay.
Moved(c, d, n) ==
    /\ doc' = [doc EXCEPT ![c] = d] \/ (doc' = doc /\ d = doc[c])
    /\ cursor' = [cursor EXCEPT ![c] = n] \/ (cursor' = cursor /\ n = cursor[c])

\* A device edits, or goes on or back to another document and cursor.
LEMMA DeviceMoves ==
    ASSUME SyncInv, OpsInv, Sound, raced' = {}, NEW c \in Devices, Device(c)
    PROVE  /\ UNCHANGED <<log, floor, ckpt, posts, wiped>>
           /\ \/ /\ made' = made + 1 /\ cursor' = cursor
                 /\ doc' = [doc EXCEPT ![c] = @ \cup {made + 1}]
              \/ /\ made' = made
                 /\ \E d, n : /\ Moved(c, d, n) /\ d \subseteq Ops
                              /\ doc[c] \subseteq d \/ d \subseteq doc[c]
<1> USE DEF Shapes, DocShape, WireShape
<1>1. Shapes /\ Local(c) /\ NothingParked /\ doc[c] \subseteq Ops /\ ckpt.ops \subseteq Ops
  BY DEF SyncInv, OpsInv
<1>2. UNCHANGED <<log, floor, ckpt, posts, wiped>>
  BY DEF Device, Edit, SaveExport, SaveWrite, Crash, Boot, Dial, Disconnect, OnState, Fetch, OnRow,
         OnDone, OnAck, OnError, Nudge, PushHead, room, post, meta, past
<1>3. CASE Edit(c)
  BY <1>2, <1>3 DEF Edit
<1> DEFINE Goal == /\ made' = made
                   /\ \E d, n : /\ Moved(c, d, n) /\ d \subseteq Ops
                                /\ doc[c] \subseteq d \/ d \subseteq doc[c]
<1>4. ASSUME made' = made, NEW d, d \subseteq Ops, doc[c] \subseteq d \/ d \subseteq doc[c],
             NEW n, Moved(c, d, n)
      PROVE  Goal
  BY <1>4
<1>5. CASE SaveExport(c) \/ SaveWrite(c) \/ Boot(c) \/ Dial(c) \/ OnDone(c) \/ OnError(c) \/ Nudge(c)
           \/ PushHead(c)
  <2>1. UNCHANGED <<made, doc, cursor>>
    BY <1>5 DEF SaveExport, SaveWrite, Boot, Dial, OnDone, OnError, Nudge, PushHead, client, meta, past
  <2>2. Moved(c, doc[c], cursor[c])
    BY <2>1 DEF Moved
  <2>3. QED
    BY <1>1, <1>2, <1>4, <2>1, <2>2
<1>6. CASE Crash(c)
  <2>1. made' = made /\ doc' = [doc EXCEPT ![c] = disk[c].ops] /\ cursor' = [cursor EXCEPT ![c] = disk[c].cursor]
    BY <1>6 DEF Crash
  <2>2. Moved(c, disk[c].ops, disk[c].cursor)
    BY <2>1 DEF Moved
  <2>3. disk[c].ops \subseteq doc[c]
    BY <1>1 DEF Local, Stored
  <2>4. QED
    BY <1>1, <1>2, <1>4, <2>1, <2>2, <2>3
<1>7. CASE Disconnect(c) \/ OnState(c) \/ OnAck(c)
  <2>1. made' = made /\ doc' = doc /\ \E n : cursor' = [cursor EXCEPT ![c] = n] \/ (cursor' = cursor /\ n = cursor[c])
    BY <1>7 DEF Disconnect, OnState, OnAck, meta, past
  <2>2. PICK n : Moved(c, doc[c], n)
    BY <2>1 DEF Moved
  <2>3. QED
    BY <1>1, <1>2, <1>4, <2>1, <2>2
<1>8. CASE Fetch(c)
  <2>1. /\ made' = made /\ doc' = [doc EXCEPT ![c] = doc[c] \cup ckpt.ops]
        /\ cursor' = [cursor EXCEPT ![c] = Head(down[c]).seq]
    BY <1>1, <1>8, ImportWhole DEF Fetch, meta, past
  <2>2. Moved(c, doc[c] \cup ckpt.ops, Head(down[c]).seq)
    BY <2>1 DEF Moved
  <2>3. QED
    BY <1>1, <1>2, <1>4, <2>1, <2>2
<1>9. CASE OnRow(c)
  <2> DEFINE f == Head(down[c])
             n == Larger(cursor[c], f.seq)
  <2>1. /\ made' = made /\ doc' = [doc EXCEPT ![c] = doc[c] \cup f.ops]
        /\ cursor' = [cursor EXCEPT ![c] = n] /\ Reading(c) /\ down[c] # << >> /\ f.t = "row"
    BY <1>1, <1>9, ImportWhole DEF OnRow, Frame, meta, past
  <2>2. Moved(c, doc[c] \cup f.ops, n)
    BY <2>1 DEF Moved
  <2>3. f.ops \subseteq Ops
    <3>1. f = down[c][1] /\ 1 \in 1..Len(down[c])
      BY <1>1, <2>1, TailFacts
    <3>2. f.seq \in 1..Len(log) /\ f.ops = log[f.seq].ops
      BY <1>1, <2>1, <3>1, ReadingServed DEF Local, Served, Flowing
    <3>3. <<log[f.seq].batch, log[f.seq].ops>> \in Minted
      BY <3>2 DEF Minted, RowKeys
    <3>4. QED
      BY <3>2, <3>3 DEF OpsInv
  <2> HIDE DEF f, n
  <2>4. QED
    BY <1>1, <1>2, <1>4, <2>1, <2>2, <2>3
<1>10. QED
  BY <1>3, <1>5, <1>6, <1>7, <1>8, <1>9 DEF Device

LEMMA OpsStep == SyncInv /\ OpsInv /\ [Next]_vars => OpsInv'
<1> SUFFICES ASSUME SyncInv, OpsInv, [Next]_vars PROVE OpsInv'
  OBVIOUS
<1>1. made \in Nat /\ wiped \in BOOLEAN
  BY DEF OpsInv
<1>2. made' \in Nat /\ wiped' \in BOOLEAN /\ Ops \subseteq Ops' /\ (wiped => wiped')
  <2>1. (made' = made \/ made' = made + 1) /\ (wiped' = wiped \/ wiped' = TRUE)
    <3>1. ASSUME NEW c \in Devices, Device(c) \/ Room(c)
          PROVE  (made' = made \/ made' = made + 1) /\ wiped' = wiped
      BY <3>1
      DEF Device, Edit, SaveExport, SaveWrite, Crash, Boot, Dial, Disconnect, OnState, Fetch, OnRow, OnDone,
          OnAck, OnError, Nudge, PushHead, Room, HandleHello, HandleRowsReq, HandlePush, RefusePush,
          HandleStray, meta, past
    <3>2. Checkpoint \/ UNCHANGED vars => UNCHANGED <<made, wiped>>
      BY DEF Checkpoint, StartCheckpoint, Export, LosePost, CommitCheckpoint, vars, meta, past
    <3>3. Reset => made' = made /\ wiped' = TRUE
      BY DEF Reset
    <3>4. QED
      BY <3>1, <3>2, <3>3 DEF Next
  <2>2. made' \in Nat /\ Ops \subseteq Ops'
    BY <1>1, <2>1 DEF Ops
  <2>3. wiped' \in BOOLEAN /\ (wiped => wiped')
    <3>1. CASE wiped' = wiped
      BY <1>1, <3>1
    <3>2. CASE wiped' = TRUE
      BY <3>2
    <3>3. QED
      BY <2>1, <3>1, <3>2
  <2>4. QED
    BY <2>2, <2>3
<1>3. SUFFICES ASSUME Sound'
               PROVE  /\ OfDevices(doc') /\ OfDevices(cursor')
                      /\ \A c \in Devices : doc'[c] \subseteq Ops'
                      /\ ckpt'.ops \subseteq Ops' /\ \A p \in posts' : p.ops \subseteq Ops'
                      /\ \A x \in Minted' : x[2] # {} /\ x[2] \subseteq Ops'
  BY <1>2 DEF OpsInv, OfDevices
<1>4. /\ Sound /\ raced' = {} /\ ~wiped' /\ OfDevices(doc) /\ OfDevices(cursor)
      /\ \A c \in Devices : doc[c] \subseteq Ops /\ disk[c].ops \subseteq Ops
      /\ ckpt.ops \subseteq Ops /\ \A p \in posts : p.ops \subseteq Ops
      /\ \A x \in Minted : x[2] # {} /\ x[2] \subseteq Ops
  BY <1>3, SoundBefore DEF OpsInv, SyncInv, Local, Stored, Sound
<1>5. \A x \in Minted' : x[2] # {} /\ x[2] \subseteq Ops'
  <2>1. PICK K : Fresh(K) /\ Minted' \subseteq Minted \cup K
    BY MintedStep DEF SyncInv
  <2>2. \A x \in K : x[2] # {} /\ x[2] \subseteq Ops'
    <3>1. CASE K = {}
      BY <3>1
    <3>2. ASSUME NEW o, K = {<<batches + 1, o>>}, o # {},
                 (made' = made + 1 /\ o = {made'}) \/ \E c \in Devices : o = disk[c].ops
          PROVE  \A x \in K : x[2] # {} /\ x[2] \subseteq Ops'
      <4>1. o \subseteq Ops'
        <5>1. CASE made' = made + 1 /\ o = {made'}
          BY <1>1, <5>1 DEF Ops
        <5>2. CASE \E c \in Devices : o = disk[c].ops
          BY <1>2, <1>4, <5>2
        <5>3. QED
          BY <3>2, <5>1, <5>2
      <4>2. QED
        BY <3>2, <4>1
    <3>3. QED
      BY <2>1, <3>1, <3>2 DEF Fresh
  <2>3. QED
    BY <1>2, <1>4, <2>1, <2>2
<1>6. ASSUME NEW c \in Devices, Device(c)
      PROVE  /\ OfDevices(doc') /\ OfDevices(cursor')
             /\ \A d \in Devices : doc'[d] \subseteq Ops'
             /\ ckpt'.ops \subseteq Ops' /\ \A p \in posts' : p.ops \subseteq Ops'
  <2>1. DOMAIN doc = Devices /\ made + 1 \in 1..(made + 1)
    BY <1>1 DEF SyncInv, Shapes, DocShape
  <2>2. UNCHANGED <<ckpt, posts>>
    BY <1>4, <1>6, DeviceMoves
  <2>3. \/ made' = made + 1 /\ doc' = [doc EXCEPT ![c] = doc[c] \cup {made + 1}] /\ cursor' = cursor
        \/ \E d, n : Moved(c, d, n) /\ d \subseteq Ops
    BY <1>4, <1>6, DeviceMoves
  <2>4. CASE made' = made + 1 /\ doc' = [doc EXCEPT ![c] = doc[c] \cup {made + 1}] /\ cursor' = cursor
    <3>1. made + 1 \in Ops'
      BY <2>1, <2>4 DEF Ops
    <3>2. OfDevices(doc') /\ OfDevices(cursor')
      BY <1>4, <2>1, <2>4 DEF OfDevices
    <3>3. QED
      BY <1>2, <1>4, <2>1, <2>2, <2>4, <3>1, <3>2
  <2>5. CASE \E d, n : Moved(c, d, n) /\ d \subseteq Ops
    <3>1. OfDevices(doc') /\ OfDevices(cursor')
      BY <1>4, <2>1, <2>5 DEF Moved, OfDevices
    <3>2. QED
      BY <1>2, <1>4, <2>1, <2>2, <2>5, <3>1 DEF Moved
  <2>6. QED
    BY <2>3, <2>4, <2>5
<1>7. ASSUME NEW c \in Devices, Room(c)
      PROVE  /\ OfDevices(doc') /\ OfDevices(cursor')
             /\ \A d \in Devices : doc'[d] \subseteq Ops'
             /\ ckpt'.ops \subseteq Ops' /\ \A p \in posts' : p.ops \subseteq Ops'
  <2>1. UNCHANGED <<doc, cursor, ckpt, posts>>
    BY <1>7 DEF Room, HandleHello, HandleRowsReq, HandlePush, RefusePush, HandleStray, room, client, post
  <2>2. QED
    BY <1>2, <1>4, <2>1
<1>8. CASE Checkpoint
  <2>1. doc' = doc /\ cursor' = cursor
    BY <1>8 DEF Checkpoint, StartCheckpoint, Export, LosePost, CommitCheckpoint, client
  <2>2. \A p \in posts' : p \in posts \/ p.ops = doc[Host]
    BY <1>8 DEF Checkpoint, StartCheckpoint, Export, LosePost, CommitCheckpoint
  <2>3. ckpt' = ckpt \/ \E p \in posts : ckpt'.ops = p.ops
    BY <1>8 DEF Checkpoint, StartCheckpoint, Export, LosePost, CommitCheckpoint, room
  <2>4. QED
    BY <1>2, <1>4, <1>5, <2>1, <2>2, <2>3, ChatAssumption
<1>9. CASE Reset
  BY <1>4, <1>9 DEF Reset
<1>10. CASE UNCHANGED vars
  BY <1>2, <1>4, <1>5, <1>10 DEF vars, room, client, post
<1>11. QED
  BY <1>5, <1>6, <1>7, <1>8, <1>9, <1>10 DEF Next

LEMMA OpsInit == Init => OpsInv
<1> SUFFICES ASSUME Init PROVE OpsInv
  OBVIOUS
<1>1. Minted = {}
  <2>1. /\ Keys(<< >>) = {} /\ PushKeys(<< >>) = {} /\ StrayKeys(<< >>) = {} /\ RowKeys(<< >>) = {}
    BY SmallSeqs, KeysFacts DEF RowKeys
  <2>2. \A c \in Devices : KeysOf(c) = {}
    BY <2>1 DEF Init, KeysOf
  <2>3. QED
    BY <2>1, <2>2 DEF Init, Minted
<1>2. OfDevices(doc) /\ OfDevices(cursor) /\ \A c \in Devices : doc[c] = {}
  BY DEF Init, OfDevices
<1>3. QED
  BY <1>1, <1>2 DEF Init, OpsInv, NoCheckpoint

\* What ChatLog sees of a step.
LEMMA SameEntries ==
    ASSUME SyncInv, Sound
    PROVE  Readable = RowOps(log)
BY ReadableFacts DEF SyncInv, Shapes, Covered, Readable, Content, Retained, HeadSeq

LEMMA RefineStep ==
    ASSUME SyncInv, OpsInv, [Next]_vars, SyncInv', OpsInv'
    PROVE  [Promise!Next]_(Promise!vars)
<1>1. CASE ~Sound'
  <2>1. (~Sound)' = TRUE
    BY <1>1
  <2>2. QED
    BY <2>1 DEF Promise!Next
<1>2. CASE Sound'
  <2>1. Sound /\ raced' = {} /\ ~wiped'
    BY <1>2, SoundBefore DEF Sound
  <2>2. (~Sound)' = ~Sound
    BY <1>2, <2>1
  <2>3. Readable = RowOps(log) /\ IsSeq(log) /\ Len(Readable) = Len(log)
        /\ \A s \in 1..Len(log) : Readable[s] = log[s].ops
    <3>1. IsSeq(log)
      BY DEF SyncInv, Shapes
    <3>2. Readable = RowOps(log)
      BY <2>1, SameEntries
    <3>3. QED
      BY <3>1, <3>2, RowOpsFacts
  <2>4. Readable' = RowOps(log')
    BY <1>2, ReadableFacts DEF SyncInv, Shapes, Covered, Readable, Content, Retained, HeadSeq
  <2>5. OfDevices(doc) /\ OfDevices(cursor) /\ made \in Nat
    BY <2>1 DEF OpsInv
  <2>6. ASSUME UNCHANGED <<made, log, doc, cursor>> PROVE UNCHANGED Promise!vars
    BY <2>2, <2>3, <2>4, <2>6 DEF Promise!vars, Ops
  <2>7. ASSUME NEW c \in Devices, Device(c) PROVE [Promise!Next]_(Promise!vars)
    <3>1. log' = log /\ Readable' = Readable
      BY <2>1, <2>3, <2>4, <2>7, DeviceMoves
    <3>2. CASE made' = made + 1 /\ cursor' = cursor /\ doc' = [doc EXCEPT ![c] = @ \cup {made + 1}]
      <4>1. Ops \subseteq Ops' /\ Ops' \ Ops = {made + 1}
        BY <2>5, <3>2 DEF Ops
      <4>2. Promise!Edit(c)
        BY <2>2, <3>1, <3>2, <4>1 DEF Promise!Edit
      <4>3. QED
        BY <2>1, <4>2 DEF Promise!Next
    <3>3. ASSUME made' = made, NEW d, NEW n, Moved(c, d, n), d \subseteq Ops,
                 doc[c] \subseteq d \/ d \subseteq doc[c]
          PROVE  [Promise!Next]_(Promise!vars)
      <4>1. doc' = [doc EXCEPT ![c] = d] /\ cursor' = [cursor EXCEPT ![c] = n] /\ doc'[c] = d /\ cursor'[c] = n
        BY <2>5, <3>3 DEF Moved, OfDevices
      <4>2. Held(log, d, n)
        BY <1>2, <3>1, <4>1 DEF SyncInv, Local, Stored
      <4>3. n \in 0..Len(Readable) /\ Promise!Holds(d, n)
        BY <2>3, <4>2, SeqLen DEF Held, Promise!Holds
      <4>4. Promise!Move(c)
        BY <2>2, <3>1, <3>3, <4>1, <4>3 DEF Promise!Move, Ops
      <4>5. QED
        BY <2>1, <4>4 DEF Promise!Next
    <3>4. QED
      BY <2>1, <2>7, <3>2, <3>3, DeviceMoves
  <2>8. ASSUME NEW c \in Devices, Room(c) PROVE [Promise!Next]_(Promise!vars)
    <3>1. UNCHANGED <<made, doc, cursor>>
      BY <2>8 DEF Room, HandleHello, HandleRowsReq, HandlePush, RefusePush, HandleStray, client, meta, past
    <3>2. log' = log \/ \E b : log' = Append(log, Row(c, b))
      BY <2>8 DEF Room, HandleHello, HandleRowsReq, HandlePush, RefusePush, HandleStray, ApplyPush, room
    <3>3. CASE log' = log
      BY <2>6, <3>1, <3>3
    <3>4. ASSUME NEW r, log' = Append(log, r) PROVE [Promise!Next]_(Promise!vars)
      <4>1. Readable' = Append(Readable, r.ops)
        BY <2>3, <2>4, <3>4, RowOpsFacts
      <4>2. r.ops # {} /\ r.ops \subseteq Ops
        <5>1. Len(log) + 1 \in 1..Len(log') /\ log'[Len(log) + 1] = r
          BY <2>3, <3>4, ExtendsSame, SeqLen
        <5>2. <<r.batch, r.ops>> \in Minted'
          BY <5>1 DEF Minted, RowKeys
        <5>3. QED
          BY <1>2, <3>1, <5>2 DEF OpsInv, Ops
      <4>3. Ops # {} /\ r.ops \in (SUBSET Ops) \ {{}}
        BY <4>2
      <4>4. Promise!Store
        BY <2>2, <3>1, <4>1, <4>3 DEF Promise!Store, Ops
      <4>5. QED
        BY <2>1, <4>4 DEF Promise!Next
    <3>5. QED
      BY <3>2, <3>3, <3>4
  <2>9. CASE Checkpoint \/ UNCHANGED vars
    <3>1. UNCHANGED <<made, log, doc, cursor>>
      BY <2>9 DEF Checkpoint, StartCheckpoint, Export, LosePost, CommitCheckpoint, vars, room, client, meta, past
    <3>2. QED
      BY <2>6, <3>1
  <2>10. CASE Reset
    BY <2>1, <2>10 DEF Reset
  <2>11. QED
    BY <2>7, <2>8, <2>9, <2>10 DEF Next
<1>3. QED
  BY <1>1, <1>2

(* Queues, sockets, checkpoints, pruning, saves and crashes implement the append-only log
   of ChatLog: its entries never change and no position passes one its document lacks
   (chat-room.ts, chat_client.rs, chat2_host.rs). *)
THEOREM ChatLogImplemented == Spec => ImplementsChatLog
<1>1. Init => SyncInv /\ OpsInv
  BY SyncInit, OpsInit
<1>2. SyncInv /\ OpsInv /\ [Next]_vars => (SyncInv /\ OpsInv)'
  BY SyncStep, OpsStep
<1>3. Init => Promise!Init
  <2> SUFFICES ASSUME Init PROVE Promise!Init
    OBVIOUS
  <2>1. Ops = {}
    BY DEF Init, Ops
  <2>2. Readable = << >>
    <3>1. HeadSeq = 0
      BY DEF Init, HeadSeq
    <3>2. QED
      BY <3>1 DEF Readable
  <2>3. (~Sound) = FALSE
    BY DEF Init, Sound
  <2>4. QED
    BY <2>1, <2>2, <2>3 DEF Init, Promise!Init
<1>4. SyncInv /\ OpsInv /\ [Next]_vars /\ (SyncInv /\ OpsInv)' => [Promise!Next]_(Promise!vars)
  BY RefineStep
<1>5. QED
  BY <1>1, <1>2, <1>3, <1>4, PTL DEF Spec, ImplementsChatLog, Promise!Spec
=============================================================================
