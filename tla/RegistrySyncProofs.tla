------------------------- MODULE RegistrySyncProofs -------------------------
(***************************************************************************)
(* NoFalseReset, CursorHonest, QuietAgree, WriteNotLost and NoFlicker for  *)
(* any number of devices, rows and fields, any bound on writes,            *)
(* disconnects, crashes and purges, and whatever the wall clocks do,       *)
(* unless an operator wiped the room; and NoResurrection while moreover    *)
(* nothing was purged.                                                     *)
(*                                                                         *)
(* "cursor <= seq" alone is not inductive.  A cursor is raised by frames,  *)
(* so every frame on its way to a device must carry a seq the room has     *)
(* reached; the branch is chosen when the state frame is READ, so a state  *)
(* frame on its way to a device in its handshake must still be at or above *)
(* that device's cursor, which holds because nothing raises the cursor     *)
(* between the hello and its answer, and a new socket starts with no       *)
(* frames of the old one.                                                  *)
(*                                                                         *)
(* An honest cursor is not inductive either: what makes it honest after    *)
(* the next frame is in that frame.  The invariant (Believes) says that    *)
(* the replica would be honest after every prefix of the frames on their   *)
(* way to it.  A push of the room keeps that, because what it changes gets *)
(* a seq past all of them, and adds a frame that brings the last of these  *)
(* replicas up to date (Served).                                           *)
(*                                                                         *)
(* That no write is lost is a property of every batch id a device has      *)
(* issued, so its invariant is a ledger (Ledger): the room has settled the *)
(* batch or it is pending, in memory and, up to the clock the disk holds,  *)
(* in the pending set on disk too (Kept); a batch is acked only once the   *)
(* room has settled it (AcksTrue); one id names one batch wherever it      *)
(* lies (Single).  A merge settles an update only where the room knows the *)
(* row, so a batch must come after what makes its row known (Founded), in  *)
(* the queue and on every socket.  And a crash brings back old copies of   *)
(* rows, which the device seeds from: its copies are never newer than the  *)
(* room's (Below) unless the row was deleted since (Outlived), hence every *)
(* seed loses.                                                             *)
(*                                                                         *)
(* An ack changes nothing a device shows if the batch it retires is the    *)
(* eldest of the queue and changes nothing the replica holds when the ack  *)
(* is read.  Batches go out, are acked and are retired in the order they   *)
(* were minted (InTurn); and along the trail of Believes, the replica      *)
(* before an ack is one that has seen the merge of its batch (Foretold).   *)
(***************************************************************************)
EXTENDS RegistrySync, SequenceTheorems, FiniteSetTheorems, WellFoundedInduction, TLAPS

IsSeq(s) == \E F : s \in Seq(F)

\* A replica, as far as its cursor is concerned.
DocKeys == {"auth", "cursor", "tick", "pending"}
IsDoc(d) == d = [x \in DocKeys |-> d[x]] /\ d.cursor \in Nat

\* Every frame of s carries a seq up to n.
FramesUpTo(s, n) ==
    IsSeq(s) /\ \A k \in 1..Len(s) : s[k].seq \in Nat /\ s[k].seq <= n

\* Every state frame of s is at or above n.
StatesFrom(s, n) == \A k \in 1..Len(s) : s[k].t = "state" => s[k].seq >= n

Functions ==
    /\ doc = [c \in Clients |-> doc[c]] /\ saved = [c \in Clients |-> saved[c]]
    /\ srv = [c \in Clients |-> srv[c]] /\ conn = [c \in Clients |-> conn[c]]
    /\ up = [c \in Clients |-> up[c]] /\ down = [c \in Clients |-> down[c]]

CursorsUpTo(c) ==
    /\ IsDoc(doc[c]) /\ doc[c].cursor <= seq
    /\ IsDoc(saved[c]) /\ saved[c].cursor <= seq

\* A device without a socket has nothing in flight.
Offline(c) ==
    conn[c] \notin {"hello", "joined"} => up[c] = << >> /\ down[c] = << >> /\ srv[c] # "ready"

Handshake(c) == conn[c] = "hello" => StatesFrom(down[c], doc[c].cursor)

ClientOK(c) == CursorsUpTo(c) /\ FramesUpTo(down[c], seq) /\ Offline(c) /\ Handshake(c)

Core == seq \in Nat /\ Functions /\ (\A c \in Clients : ClientOK(c)) /\ reseeded = {}

SyncInv == wiped \in BOOLEAN /\ (~wiped => Core)

-----------------------------------------------------------------------------
(* Sequences of frames. *)

LEMMA EmptyFrames == ASSUME NEW n, NEW m PROVE FramesUpTo(<< >>, n) /\ StatesFrom(<< >>, m)
  BY DEF FramesUpTo, StatesFrom, IsSeq

LEMMA AppendFrames ==
    ASSUME NEW s, NEW e, NEW n \in Nat, NEW m \in Nat, FramesUpTo(s, n),
           e.seq \in Nat, e.seq <= n
    PROVE  /\ FramesUpTo(Append(s, e), n)
           /\ StatesFrom(s, m) /\ (e.t = "state" => e.seq >= m) => StatesFrom(Append(s, e), m)
  <1>1. PICK F : s \in Seq(F)
    BY DEF FramesUpTo, IsSeq
  <1>2. s \in Seq(F \cup {e})
    BY <1>1
  <1>3. /\ Append(s, e) \in Seq(F \cup {e})
        /\ Len(Append(s, e)) = Len(s) + 1
        /\ \A k \in 1..Len(s) : Append(s, e)[k] = s[k]
        /\ Append(s, e)[Len(s) + 1] = e
        /\ Len(s) \in Nat
    BY <1>2
  <1>4. \A k \in 1..Len(s) + 1 : k \in 1..Len(s) \/ k = Len(s) + 1
    BY <1>3
  <1>5. IsSeq(Append(s, e))
    BY <1>3 DEF IsSeq
  <1>6. FramesUpTo(Append(s, e), n)
    BY <1>3, <1>4, <1>5 DEF FramesUpTo
  <1> QED BY <1>3, <1>4, <1>6 DEF StatesFrom

LEMMA TailFrames ==
    ASSUME NEW s, NEW n \in Nat, NEW m \in Nat, FramesUpTo(s, n), s # << >>
    PROVE  /\ FramesUpTo(Tail(s), n)
           /\ StatesFrom(s, m) => StatesFrom(Tail(s), m)
           /\ Head(s).seq \in Nat /\ Head(s).seq <= n
           /\ StatesFrom(s, m) /\ Head(s).t = "state" => Head(s).seq >= m
  <1>1. PICK F : s \in Seq(F)
    BY DEF FramesUpTo, IsSeq
  <1>2. /\ Tail(s) \in Seq(F) /\ Head(s) = s[1] /\ Len(s) \in Nat /\ Len(s) >= 1
        /\ Len(Tail(s)) = Len(s) - 1
        /\ \A k \in 1..Len(s) - 1 : Tail(s)[k] = s[k + 1]
    BY <1>1
  <1>3. 1 \in 1..Len(s) /\ \A k \in 1..Len(s) - 1 : k + 1 \in 1..Len(s)
    BY <1>2
  <1>4. IsSeq(Tail(s))
    BY <1>2 DEF IsSeq
  <1>5. FramesUpTo(Tail(s), n)
    BY <1>2, <1>3, <1>4 DEF FramesUpTo
  <1>6. Head(s).seq \in Nat /\ Head(s).seq <= n
    BY <1>2, <1>3 DEF FramesUpTo
  <1> QED BY <1>2, <1>3, <1>5, <1>6 DEF StatesFrom

(* Frames the room has reached stay reached. *)
LEMMA MoreFrames ==
    ASSUME NEW s, NEW n \in Nat, NEW m \in Nat, n <= m, FramesUpTo(s, n)
    PROVE  FramesUpTo(s, m)
  BY DEF FramesUpTo

LEMMA ConcatFrames ==
    ASSUME NEW s, NEW u, NEW n \in Nat, NEW m \in Nat, FramesUpTo(s, n), FramesUpTo(u, n)
    PROVE  /\ FramesUpTo(s \o u, n)
           /\ StatesFrom(s, m) /\ StatesFrom(u, m) => StatesFrom(s \o u, m)
  <1>1. PICK F : s \in Seq(F)
    BY DEF FramesUpTo, IsSeq
  <1>2. PICK G : u \in Seq(G)
    BY DEF FramesUpTo, IsSeq
  <1>3. s \in Seq(F \cup G) /\ u \in Seq(F \cup G)
    BY <1>1, <1>2
  <1>4. /\ s \o u \in Seq(F \cup G)
        /\ Len(s) \in Nat /\ Len(u) \in Nat /\ Len(s \o u) = Len(s) + Len(u)
        /\ \A k \in 1..Len(s) + Len(u) :
               (s \o u)[k] = IF k <= Len(s) THEN s[k] ELSE u[k - Len(s)]
    BY <1>3
  <1>5. \A k \in 1..Len(s) + Len(u) :
            \/ k \in 1..Len(s) /\ (s \o u)[k] = s[k]
            \/ k - Len(s) \in 1..Len(u) /\ (s \o u)[k] = u[k - Len(s)]
    BY <1>4
  <1>6. IsSeq(s \o u)
    BY <1>4 DEF IsSeq
  <1>7. FramesUpTo(s \o u, n)
    BY <1>4, <1>5, <1>6 DEF FramesUpTo
  <1> QED BY <1>4, <1>5, <1>7 DEF StatesFrom

LEMMA OneFrame ==
    ASSUME NEW e, NEW n \in Nat, NEW m, e.seq \in Nat, e.seq <= n, e.t # "state"
    PROVE  FramesUpTo(<<e>>, n) /\ StatesFrom(<<e>>, m)
  <1>1. <<e>> \in Seq({e}) /\ Len(<<e>>) = 1 /\ <<e>>[1] = e
    OBVIOUS
  <1>2. IsSeq(<<e>>)
    BY <1>1 DEF IsSeq
  <1> QED BY <1>1, <1>2 DEF FramesUpTo, StatesFrom

(* What a push sends: no state frame, nothing above the room's next seq. *)
LEMMA AnswersUpTo ==
    ASSUME NEW k, NEW b, NEW acked, seq \in Nat, NEW m \in Nat
    PROVE  /\ AnsweredSeq(b) \in Nat /\ AnsweredSeq(b) >= seq
           /\ FramesUpTo(Answers(k, b, acked), AnsweredSeq(b))
           /\ StatesFrom(Answers(k, b, acked), m)
           /\ srv[k] # "ready" /\ k \notin acked => Answers(k, b, acked) = << >>
  <1>1. AnsweredSeq(b) \in Nat /\ AnsweredSeq(b) >= seq
    BY DEF AnsweredSeq
  <1> DEFINE r == RowsFrame(AnsweredSeq(b), Merged(b), Touched(b))
             a == Ack(b.id, AnsweredSeq(b))
  <1>2. /\ r.seq = AnsweredSeq(b) /\ r.t # "state"
        /\ a.seq = AnsweredSeq(b) /\ a.t # "state"
    BY DEF RowsFrame, Ack
  <1>3. FramesUpTo(<<r>>, AnsweredSeq(b)) /\ StatesFrom(<<r>>, m)
    BY <1>1, <1>2, OneFrame
  <1>4. FramesUpTo(<<a>>, AnsweredSeq(b)) /\ StatesFrom(<<a>>, m)
    BY <1>1, <1>2, OneFrame
  <1>5. Broadcast(k, b) \in {<< >>, <<r>>} /\ (srv[k] # "ready" => Broadcast(k, b) = << >>)
    BY DEF Broadcast
  <1>6. Acked(k, b, acked) \in {<< >>, <<a>>} /\ (k \notin acked => Acked(k, b, acked) = << >>)
    BY DEF Acked
  <1> HIDE DEF r, a
  <1>7. /\ FramesUpTo(Broadcast(k, b), AnsweredSeq(b)) /\ StatesFrom(Broadcast(k, b), m)
    BY <1>3, <1>5, EmptyFrames
  <1>8. /\ FramesUpTo(Acked(k, b, acked), AnsweredSeq(b)) /\ StatesFrom(Acked(k, b, acked), m)
    BY <1>4, <1>6, EmptyFrames
  <1>9. << >> \o << >> = << >>
    OBVIOUS
  <1> QED BY <1>1, <1>5, <1>6, <1>7, <1>8, <1>9, ConcatFrames DEF Answers

-----------------------------------------------------------------------------
(* Replicas. *)

LEMMA KeepCursor ==
    ASSUME NEW d, IsDoc(d)
    PROVE  /\ IsDoc(MarkDisconnected(d)) /\ MarkDisconnected(d).cursor = d.cursor
           /\ IsDoc(Snapshot(d)) /\ Snapshot(d).cursor = d.cursor
           /\ IsDoc(TakePushable(d)) /\ TakePushable(d).cursor = d.cursor
           /\ \A t, h, ops : /\ IsDoc(EnqueueOps(d, t, h, ops))
                             /\ EnqueueOps(d, t, h, ops).cursor = d.cursor
  <1>1. /\ IsDoc(MarkDisconnected(d)) /\ MarkDisconnected(d).cursor = d.cursor
    BY DEF MarkDisconnected, IsDoc, DocKeys
  <1>2. /\ IsDoc(TakePushable(d)) /\ TakePushable(d).cursor = d.cursor
    BY DEF TakePushable, IsDoc, DocKeys
  <1>3. ASSUME NEW t, NEW h, NEW ops
        PROVE  /\ IsDoc(EnqueueOps(d, t, h, ops))
               /\ EnqueueOps(d, t, h, ops).cursor = d.cursor
    BY DEF EnqueueOps, IsDoc, DocKeys
  <1> QED BY <1>1, <1>2, <1>3 DEF Snapshot

LEMMA RaiseCursor ==
    ASSUME NEW d, IsDoc(d), NEW f, f.seq \in Nat, NEW n \in Nat, f.seq <= n, d.cursor <= n
    PROVE  /\ IsDoc(ApplyRows(d, f)) /\ ApplyRows(d, f).cursor <= n
           /\ IsDoc(AckBatch(d, f)) /\ AckBatch(d, f).cursor <= n
           /\ \A t, h : IsDoc(ApplyState(d, f, t, h)) /\ ApplyState(d, f, t, h).cursor <= n
  <1> DEFINE m == IF f.seq > d.cursor THEN f.seq ELSE d.cursor
  <1>0. m \in Nat /\ m <= n
    BY DEF IsDoc
  <1>1. IsDoc(ApplyRows(d, f)) /\ ApplyRows(d, f).cursor <= n
    <2> DEFINE a == PutAuthoritative(d.auth, f.rows)
    <2>1. ApplyRows(d, f) = [d EXCEPT !.auth = a, !.cursor = m]
      BY DEF ApplyRows
    <2> HIDE DEF a, m
    <2> QED BY <1>0, <2>1 DEF IsDoc, DocKeys
  <1>2. IsDoc(AckBatch(d, f)) /\ AckBatch(d, f).cursor <= n
    <2> DEFINE p == Entries(d.pending, {k \in DOMAIN d.pending : d.pending[k].id # f.batch})
    <2>1. AckBatch(d, f) = [d EXCEPT !.pending = p, !.cursor = m]
      BY DEF AckBatch
    <2> HIDE DEF p, m
    <2> QED BY <1>0, <2>1 DEF IsDoc, DocKeys
  <1>3. ASSUME NEW t, NEW h
        PROVE  IsDoc(ApplyState(d, f, t, h)) /\ ApplyState(d, f, t, h).cursor <= n
    <2> DEFINE e == [d EXCEPT !.auth = StateAuth(d, f), !.cursor = f.seq]
    <2>1. IsDoc(e) /\ e.cursor = f.seq
      BY DEF IsDoc, DocKeys
    <2> HIDE DEF e
    <2>2. ApplyState(d, f, t, h) = e \/ \E ops : ApplyState(d, f, t, h) = EnqueueOps(e, t, h, ops)
      BY DEF ApplyState, e
    <2> QED BY <2>1, <2>2, KeepCursor
  <1> QED BY <1>1, <1>2, <1>3

LEMMA FreshDoc == IsDoc(NewDoc) /\ NewDoc.cursor = 0
  BY DEF NewDoc, IsDoc, DocKeys

-----------------------------------------------------------------------------
LEMMA SyncInit == Init => SyncInv
  <1> SUFFICES ASSUME Init PROVE SyncInv
    OBVIOUS
  <1>1. wiped = FALSE
    BY DEF Init
  <1>2. seq \in Nat /\ Functions /\ reseeded = {}
    BY DEF Init, Functions
  <1>3. ASSUME NEW c \in Clients PROVE ClientOK(c)
    <2>1. /\ doc[c] = NewDoc /\ saved[c] = NewDoc /\ conn[c] = "off" /\ srv[c] = "new"
          /\ up[c] = << >> /\ down[c] = << >> /\ seq = 0
      BY <1>3 DEF Init
    <2> QED BY <2>1, FreshDoc, EmptyFrames
          DEF ClientOK, CursorsUpTo, Offline, Handshake
  <1> QED BY <1>1, <1>2, <1>3 DEF SyncInv, Core

(* A step of device c that leaves the room and the other devices alone. *)
LEMMA Elsewhere ==
    ASSUME Core, NEW c \in Clients, UNCHANGED <<seq, reseeded>>, Functions', ClientOK(c)',
           \A k \in Clients : k # c => /\ doc'[k] = doc[k] /\ saved'[k] = saved[k]
                                       /\ conn'[k] = conn[k] /\ srv'[k] = srv[k]
                                       /\ up'[k] = up[k] /\ down'[k] = down[k]
    PROVE  Core'
  <1>1. ASSUME NEW k \in Clients, k # c PROVE ClientOK(k)'
    BY <1>1 DEF Core, ClientOK, CursorsUpTo, Offline, Handshake
  <1> QED BY <1>1 DEF Core

(* A write only queues: the cursor stays. *)
LEMMA WriteStep ==
    ASSUME Core, NEW c \in Clients, NEW t, NEW ops, Write(c, t, ops) PROVE Core'
  <1> DEFINE e == EnqueueOps(doc[c], t, Hlc(c, t), ops)
  <1>1. /\ doc' = [doc EXCEPT ![c] = e]
        /\ UNCHANGED <<seq, srv, saved, conn, up, down, reseeded>>
    BY DEF Write, Mint, room
  <1>2. IsDoc(e) /\ e.cursor = doc[c].cursor
    BY KeepCursor DEF Core, ClientOK, CursorsUpTo
  <1> HIDE DEF e
  <1>3. doc'[c] = e /\ Functions' /\ \A k \in Clients : k # c => doc'[k] = doc[k]
    BY <1>1 DEF Core, Functions
  <1>4. ClientOK(c)'
    BY <1>1, <1>2, <1>3 DEF Core, ClientOK, CursorsUpTo, Offline, Handshake
  <1> QED BY <1>1, <1>3, <1>4, Elsewhere

LEMMA SaveStep == ASSUME Core, NEW c \in Clients, Save(c) PROVE Core'
  <1> DEFINE e == Snapshot(doc[c])
  <1>1. /\ saved' = [saved EXCEPT ![c] = e]
        /\ UNCHANGED <<seq, srv, doc, conn, up, down, reseeded>>
    BY DEF Save, room
  <1>2. IsDoc(e) /\ e.cursor = doc[c].cursor
    BY KeepCursor DEF Core, ClientOK, CursorsUpTo
  <1> HIDE DEF e
  <1>3. saved'[c] = e /\ Functions' /\ \A k \in Clients : k # c => saved'[k] = saved[k]
    BY <1>1 DEF Core, Functions
  <1>4. ClientOK(c)'
    BY <1>1, <1>2, <1>3 DEF Core, ClientOK, CursorsUpTo, Offline, Handshake
  <1> QED BY <1>1, <1>3, <1>4, Elsewhere

(* The engine boots from its snapshot, without a socket. *)
LEMMA BootStep == ASSUME Core, NEW c \in Clients, Boot(c) PROVE Core'
  <1>1. PICK t, ops : doc' = [doc EXCEPT ![c] = EnqueueOps(saved[c], t, Hlc(c, t), ops)]
    BY DEF Boot, Mint
  <1> DEFINE e == EnqueueOps(saved[c], t, Hlc(c, t), ops)
  <1>2. /\ doc' = [doc EXCEPT ![c] = e] /\ saved' = [saved EXCEPT ![c] = doc'[c]]
        /\ conn[c] = "off" /\ conn' = [conn EXCEPT ![c] = "down"]
        /\ UNCHANGED <<seq, srv, up, down, reseeded>>
    BY <1>1 DEF Boot, room
  <1>3. IsDoc(e) /\ e.cursor = saved[c].cursor
    BY KeepCursor DEF Core, ClientOK, CursorsUpTo
  <1> HIDE DEF e
  <1>4. /\ doc'[c] = e /\ saved'[c] = e /\ conn'[c] = "down" /\ Functions'
        /\ \A k \in Clients : k # c => /\ doc'[k] = doc[k] /\ saved'[k] = saved[k]
                                       /\ conn'[k] = conn[k]
    BY <1>2 DEF Core, Functions
  <1>5. ClientOK(c)'
    BY <1>2, <1>3, <1>4 DEF Core, ClientOK, CursorsUpTo, Offline, Handshake
  <1> QED BY <1>2, <1>4, <1>5, Elsewhere

(* A dead socket takes its frames along: a crash, then a disconnect. *)
LEMMA CutStep ==
    ASSUME Core, NEW c \in Clients, NEW e, NEW v, Cut(c),
           doc' = [doc EXCEPT ![c] = e], IsDoc(e), e.cursor <= seq,
           conn' = [conn EXCEPT ![c] = v], v \in {"off", "down"},
           UNCHANGED <<seq, saved, reseeded>>
    PROVE  Core'
  <1>1. /\ doc'[c] = e /\ conn'[c] = v /\ up'[c] = << >> /\ down'[c] = << >> /\ srv'[c] = "new"
        /\ Functions'
        /\ \A k \in Clients : k # c => /\ doc'[k] = doc[k] /\ conn'[k] = conn[k]
                                       /\ srv'[k] = srv[k] /\ up'[k] = up[k] /\ down'[k] = down[k]
    BY DEF Core, Functions, Cut
  <1>2. ClientOK(c)'
    BY <1>1, EmptyFrames DEF Core, ClientOK, CursorsUpTo, Offline, Handshake
  <1> QED BY <1>1, <1>2, Elsewhere

LEMMA CrashStep == ASSUME Core, NEW c \in Clients, Crash(c) PROVE Core'
  <1>1. IsDoc(saved[c]) /\ saved[c].cursor <= seq
    BY DEF Core, ClientOK, CursorsUpTo
  <1> QED BY <1>1, CutStep DEF Crash, room

LEMMA DisconnectStep == ASSUME Core, NEW c \in Clients, Disconnect(c) PROVE Core'
  <1>1. IsDoc(doc[c]) /\ doc[c].cursor <= seq
    BY DEF Core, ClientOK, CursorsUpTo
  <1>2. IsDoc(MarkDisconnected(doc[c])) /\ MarkDisconnected(doc[c]).cursor <= seq
    BY <1>1, KeepCursor
  <1> QED BY <1>2, CutStep DEF Disconnect, room

(* A new socket starts with no frames of the old one. *)
LEMMA DialStep == ASSUME Core, NEW c \in Clients, Dial(c) PROVE Core'
  <1>1. /\ conn[c] = "down" /\ conn' = [conn EXCEPT ![c] = "hello"]
        /\ up' = [up EXCEPT ![c] = <<Hello(doc[c].cursor)>>]
        /\ UNCHANGED <<seq, srv, doc, saved, down, reseeded>>
    BY DEF Dial, room
  <1>2. conn'[c] = "hello" /\ Functions' /\ \A k \in Clients : k # c => conn'[k] = conn[k] /\ up'[k] = up[k]
    BY <1>1 DEF Core, Functions
  <1>3. down[c] = << >>
    BY <1>1 DEF Core, ClientOK, Offline
  <1>4. ClientOK(c)'
    BY <1>1, <1>2, <1>3, EmptyFrames DEF Core, ClientOK, CursorsUpTo, Offline, Handshake
  <1> QED BY <1>1, <1>2, <1>4, Elsewhere

(* A device with a socket reads a frame and may push. *)
LEMMA ReadStep ==
    ASSUME Core, NEW c \in Clients, down[c] # << >>, down'[c] = Tail(down[c]),
           conn'[c] = "joined", IsDoc(doc'[c]), doc'[c].cursor <= seq,
           UNCHANGED <<seq, srv, saved, reseeded>>, Functions',
           \A k \in Clients : k # c => /\ doc'[k] = doc[k] /\ conn'[k] = conn[k]
                                       /\ up'[k] = up[k] /\ down'[k] = down[k]
    PROVE  Core'
  <1>1. FramesUpTo(Tail(down[c]), seq)
    BY TailFrames DEF Core, ClientOK
  <1>2. ClientOK(c)'
    BY <1>1 DEF Core, ClientOK, CursorsUpTo, Offline, Handshake
  <1> QED BY <1>2, Elsewhere

(* What a device may rely on when it reads its first frame. *)
LEMMA HeadUpTo ==
    ASSUME Core, NEW c \in Clients, down[c] # << >>
    PROVE  /\ IsDoc(doc[c]) /\ doc[c].cursor <= seq /\ seq \in Nat
           /\ Head(down[c]).seq \in Nat /\ Head(down[c]).seq <= seq
           /\ conn[c] = "hello" /\ Head(down[c]).t = "state" =>
                  Head(down[c]).seq >= doc[c].cursor
  <1>1. IsDoc(doc[c]) /\ doc[c].cursor <= seq /\ seq \in Nat /\ FramesUpTo(down[c], seq)
    BY DEF Core, ClientOK, CursorsUpTo
  <1>2. doc[c].cursor \in Nat
    BY <1>1 DEF IsDoc
  <1>3. conn[c] = "hello" => StatesFrom(down[c], doc[c].cursor)
    BY DEF Core, ClientOK, Handshake
  <1> QED BY <1>1, <1>2, <1>3, TailFrames

LEMMA OnRowsStep == ASSUME Core, NEW c \in Clients, OnRows(c) \/ OnAck(c) PROVE Core'
  <1> DEFINE f == Head(down[c])
  <1>1. down[c] # << >> /\ conn[c] = "joined"
    BY DEF OnRows, OnAck, Frame
  <1>2. PICK e : /\ doc' = [doc EXCEPT ![c] = e]
                 /\ e = ApplyRows(doc[c], f) \/ e = AckBatch(doc[c], f)
    BY DEF OnRows, OnAck
  <1>3. IsDoc(e) /\ e.cursor <= seq
    BY <1>1, <1>2, HeadUpTo, RaiseCursor
  <1>4. /\ down' = [down EXCEPT ![c] = Tail(down[c])]
        /\ UNCHANGED <<seq, srv, saved, conn, up, reseeded>>
    BY DEF OnRows, OnAck, room
  <1>5. /\ doc'[c] = e /\ down'[c] = Tail(down[c]) /\ Functions'
        /\ \A k \in Clients : k # c => doc'[k] = doc[k] /\ down'[k] = down[k]
    BY <1>2, <1>4 DEF Core, Functions
  <1> QED BY <1>1, <1>3, <1>4, <1>5, ReadStep

(* The handshake: the state frame is not behind the replica. *)
LEMMA OnStateStep == ASSUME Core, NEW c \in Clients, OnState(c) PROVE Core'
  <1> DEFINE f == Head(down[c])
  <1>1. down[c] # << >> /\ conn[c] = "hello" /\ f.t = "state"
    BY DEF OnState, Frame
  <1>2. f.seq \in Nat /\ doc[c].cursor \in Nat /\ f.seq >= doc[c].cursor
    BY <1>1, HeadUpTo DEF IsDoc
  <1>3. ~ServerBehind(doc[c], f)
    BY <1>2 DEF ServerBehind
  <1>4. reseeded' = reseeded
    BY <1>3 DEF OnState
  <1>5. PICK t : LET d == ApplyState(doc[c], f, t, Hlc(c, t))
                 IN  /\ doc' = [doc EXCEPT ![c] = TakePushable(d)]
                     /\ up' = [up EXCEPT ![c] = @ \o Pushes(d)]
    BY DEF OnState
  <1> DEFINE d == ApplyState(doc[c], f, t, Hlc(c, t))
  <1>6. IsDoc(d) /\ d.cursor <= seq
    BY <1>1, HeadUpTo, RaiseCursor
  <1>7. /\ doc' = [doc EXCEPT ![c] = TakePushable(d)] /\ up' = [up EXCEPT ![c] = up[c] \o Pushes(d)]
    BY <1>5
  <1> HIDE DEF d
  <1>8. IsDoc(TakePushable(d)) /\ TakePushable(d).cursor <= seq
    BY <1>6, KeepCursor
  <1>9. /\ down' = [down EXCEPT ![c] = Tail(down[c])]
        /\ conn' = [conn EXCEPT ![c] = "joined"]
        /\ UNCHANGED <<seq, srv, saved>>
    BY DEF OnState, room
  <1>10. /\ doc'[c] = TakePushable(d) /\ down'[c] = Tail(down[c]) /\ conn'[c] = "joined"
         /\ Functions'
         /\ \A k \in Clients : k # c => /\ doc'[k] = doc[k] /\ conn'[k] = conn[k]
                                        /\ up'[k] = up[k] /\ down'[k] = down[k]
    BY <1>7, <1>9 DEF Core, Functions
  <1> QED BY <1>1, <1>4, <1>8, <1>9, <1>10, ReadStep

LEMMA PushPendingStep == ASSUME Core, NEW c \in Clients, PushPending(c) PROVE Core'
  <1> DEFINE e == TakePushable(doc[c])
  <1>1. /\ conn[c] = "joined" /\ doc' = [doc EXCEPT ![c] = e]
        /\ up' = [up EXCEPT ![c] = @ \o Pushes(doc[c])]
        /\ UNCHANGED <<seq, srv, saved, conn, down, reseeded>>
    BY DEF PushPending, room
  <1>2. IsDoc(e) /\ e.cursor = doc[c].cursor
    BY KeepCursor DEF Core, ClientOK, CursorsUpTo
  <1> HIDE DEF e
  <1>3. doc'[c] = e /\ Functions' /\ \A k \in Clients : k # c => doc'[k] = doc[k] /\ up'[k] = up[k]
    BY <1>1 DEF Core, Functions
  <1>4. ClientOK(c)'
    BY <1>1, <1>2, <1>3 DEF Core, ClientOK, CursorsUpTo, Offline, Handshake
  <1> QED BY <1>1, <1>3, <1>4, Elsewhere

(* The answer to a hello carries the room's seq, and no cursor is above it. *)
LEMMA HelloStep == ASSUME Core, NEW c \in Clients, HandleHello(c) PROVE Core'
  <1> DEFINE cursor == Head(up[c]).cursor
             full   == NeedsFull(cursor)
             f == StateFrame(seq, full, gcFloor, rows, RowsSince(IF full THEN 0 ELSE cursor))
  <1>0. f.seq = seq /\ f.t = "state"
    BY DEF StateFrame
  <1>1. down' = [down EXCEPT ![c] = Append(down[c], f)]
    BY DEF HandleHello
  <1> HIDE DEF f
  <1>2. /\ up[c] # << >> /\ up' = [up EXCEPT ![c] = Tail(@)]
        /\ srv' = [srv EXCEPT ![c] = "ready"]
        /\ UNCHANGED <<seq, doc, saved, conn, reseeded>>
    BY DEF HandleHello, Arrived, room
  <1>3. /\ down'[c] = Append(down[c], f) /\ Functions'
        /\ \A k \in Clients : k # c => srv'[k] = srv[k] /\ up'[k] = up[k] /\ down'[k] = down[k]
    BY <1>1, <1>2 DEF Core, Functions
  <1>4. conn[c] \in {"hello", "joined"}
    BY <1>2 DEF Core, ClientOK, Offline
  <1>5. /\ FramesUpTo(down[c], seq) /\ seq \in Nat /\ doc[c].cursor \in Nat
        /\ doc[c].cursor <= seq
    BY DEF Core, ClientOK, CursorsUpTo, IsDoc
  <1>6. /\ FramesUpTo(down'[c], seq)
        /\ StatesFrom(down[c], doc[c].cursor) => StatesFrom(down'[c], doc[c].cursor)
    BY <1>0, <1>3, <1>5, AppendFrames
  <1>7. ClientOK(c)'
    BY <1>2, <1>3, <1>4, <1>6 DEF Core, ClientOK, CursorsUpTo, Offline, Handshake
  <1> QED BY <1>2, <1>3, <1>7, Elsewhere

(* A push may raise the seq; what it sends is at most the new one. *)
LEMMA ApplyPushStep ==
    ASSUME Core, NEW b, NEW acked, ApplyPush(b, acked),
           \A k \in Clients : k \in acked => srv[k] = "ready",
           up' = [c \in Clients |-> up'[c]],
           \A k \in Clients : up[k] = << >> => up'[k] = << >>,
           UNCHANGED <<srv, doc, saved, conn, reseeded>>
    PROVE  Core'
  <1>1. seq \in Nat /\ seq' = AnsweredSeq(b)
    BY DEF Core, ApplyPush, AnsweredSeq
  <1>2. seq' \in Nat /\ seq' >= seq
    BY <1>1, AnswersUpTo
  <1>3. ASSUME NEW k \in Clients PROVE ClientOK(k)'
    <2>1. down'[k] = down[k] \o Answers(k, b, acked)
      BY DEF ApplyPush
    <2>2. FramesUpTo(down[k], seq) /\ IsDoc(doc[k]) /\ doc[k].cursor \in Nat
      BY DEF Core, ClientOK, CursorsUpTo, IsDoc
    <2>3. FramesUpTo(down[k], seq')
      BY <1>1, <1>2, <2>2, MoreFrames
    <2>4. /\ FramesUpTo(Answers(k, b, acked), seq')
          /\ StatesFrom(Answers(k, b, acked), doc[k].cursor)
          /\ srv[k] # "ready" => Answers(k, b, acked) = << >>
      BY <1>1, <2>2, AnswersUpTo
    <2>5. /\ FramesUpTo(down'[k], seq')
          /\ StatesFrom(down[k], doc[k].cursor) => StatesFrom(down'[k], doc[k].cursor)
      BY <1>2, <2>1, <2>2, <2>3, <2>4, ConcatFrames
    <2>6. conn[k] \notin {"hello", "joined"} => down'[k] = << >>
      <3>1. << >> \o << >> = << >>
        OBVIOUS
      <3> QED BY <2>1, <2>4, <3>1 DEF Core, ClientOK, Offline
    <2>7. CursorsUpTo(k)'
      <3>1. CursorsUpTo(k) /\ doc' = doc /\ saved' = saved /\ seq \in Nat
        BY DEF Core, ClientOK
      <3>2. IsDoc(doc[k])' /\ IsDoc(saved[k])' /\ doc'[k].cursor = doc[k].cursor
        BY <3>1 DEF CursorsUpTo, IsDoc
      <3> QED BY <1>2, <3>1, <3>2 DEF CursorsUpTo, IsDoc
    <2>8. /\ Offline(k) /\ Handshake(k)
          /\ conn' = conn /\ srv' = srv /\ doc' = doc /\ (up[k] = << >> => up'[k] = << >>)
      BY DEF Core, ClientOK
    <2>9. Offline(k)'
      BY <2>6, <2>8 DEF Offline
    <2>10. Handshake(k)'
      BY <2>5, <2>8 DEF Handshake
    <2> QED BY <2>5, <2>7, <2>9, <2>10 DEF ClientOK
  <1>4. Functions'
    BY DEF Core, Functions, ApplyPush
  <1> QED BY <1>2, <1>3, <1>4 DEF Core

LEMMA PushStep == ASSUME Core, NEW c \in Clients, HandlePush(c) \/ HandleStray(c) PROVE Core'
  <1>1. CASE HandlePush(c)
    <2>1. /\ srv[c] = "ready" /\ up[c] # << >> /\ up' = [up EXCEPT ![c] = Tail(@)]
          /\ ApplyPush(Head(up[c]).batch, {c})
          /\ UNCHANGED <<srv, doc, saved, conn, reseeded>>
      BY <1>1 DEF HandlePush, Arrived
    <2>2. up' = [k \in Clients |-> up'[k]] /\ \A k \in Clients : k # c => up'[k] = up[k]
      BY <2>1 DEF Core, Functions
    <2>3. \A k \in Clients : k \in {c} => srv[k] = "ready"
      BY <2>1
    <2>4. \A k \in Clients : up[k] = << >> => up'[k] = << >>
      BY <2>1, <2>2
    <2> QED BY <2>1, <2>2, <2>3, <2>4, ApplyPushStep
  <1>2. CASE HandleStray(c)
    <2>1. ApplyPush(Head(stray[c]).batch, {}) /\ UNCHANGED <<srv, doc, saved, conn, up, reseeded>>
      BY <1>2 DEF HandleStray
    <2> QED BY <2>1, ApplyPushStep DEF Core, Functions
  <1> QED BY <1>1, <1>2

-----------------------------------------------------------------------------
(* Only the operator wipes the room. *)
LEMMA WipedStep == ASSUME [Next]_vars PROVE (Reset /\ wiped' = TRUE) \/ (~Reset /\ UNCHANGED wiped)
  <1>1. ASSUME NEW c \in Clients, Device(c) PROVE UNCHANGED wiped
    BY <1>1 DEF Device, Upsert, Update, Cascade, Write, Save, Boot, Crash, Dial, Disconnect,
                OnState, OnRows, OnAck, PushPending, room
  <1>2. ASSUME NEW c \in Clients, Room(c) PROVE UNCHANGED wiped
    BY <1>2 DEF Room, HandleHello, HandlePush, HandleStray, room
  <1>3. Alarm \/ UNCHANGED vars => UNCHANGED wiped
    BY DEF Alarm, vars
  <1>4. Reset => wiped' = TRUE
    BY DEF Reset
  <1>5. Next \/ UNCHANGED vars => Reset \/ UNCHANGED wiped
    BY <1>1, <1>2, <1>3 DEF Next
  <1> QED BY <1>4, <1>5

LEMMA SyncStep == ASSUME SyncInv, [Next]_vars PROVE SyncInv'
  <1>0. wiped' \in BOOLEAN /\ (~wiped' => ~wiped /\ ~Reset)
    BY WipedStep DEF SyncInv, Reset
  <1> SUFFICES ASSUME ~wiped' PROVE Core'
    BY <1>0 DEF SyncInv
  <1>1. Core /\ ~Reset
    BY <1>0 DEF SyncInv
  <1>2. ASSUME NEW c \in Clients, Device(c) PROVE Core'
    <2>1. CASE Upsert(c) \/ Update(c) \/ Cascade(c)
      BY <1>1, <2>1, WriteStep DEF Upsert, Update, Cascade
    <2> QED BY <1>1, <1>2, <2>1, SaveStep, BootStep, CrashStep, DialStep, DisconnectStep,
               OnStateStep, OnRowsStep, PushPendingStep DEF Device
  <1>3. ASSUME NEW c \in Clients, Room(c) PROVE Core'
    BY <1>1, <1>3, HelloStep, PushStep DEF Room
  <1>4. ASSUME UNCHANGED <<seq, srv, doc, saved, conn, up, down, reseeded>> PROVE Core'
    BY <1>1, <1>4 DEF Core, Functions, ClientOK, CursorsUpTo, Offline, Handshake
  <1>5. Alarm \/ UNCHANGED vars => UNCHANGED <<seq, srv, doc, saved, conn, up, down, reseeded>>
    BY DEF Alarm, vars
  <1> QED BY <1>1, <1>2, <1>3, <1>4, <1>5 DEF Next

(* No cursor is ever ahead of a room nobody wiped, and no device takes its
   room for one that lost state (apply_state's server_behind branch), for any
   number of devices, crashes, disconnects and purges. *)
THEOREM NoFalseResetHolds == Spec => []NoFalseReset
  <1>1. SyncInv => NoFalseReset
    BY DEF SyncInv, Core, ClientOK, CursorsUpTo, NoFalseReset
  <1> QED BY <1>1, SyncInit, SyncStep, PTL DEF Spec

-----------------------------------------------------------------------------
(* What a device will have seen of the room once it has read k frames.     *)

RowKeys  == {"st", "seq", "del", "clk", "has"}
IsRow(r) == r = NoRow \/ (r = [x \in RowKeys |-> r[x]] /\ r.st \in {"live", "dead"})

\* HonestDoc, of a room with table T and floor g and a replica with rows a and
\* cursor n.
Honest(T, g, a, n) ==
    \A i \in Ids :
        /\ IsRow(a[i])
        /\ T[i].st # "none" /\ T[i].seq <= n => a[i] = T[i]
        /\ T[i].st = "none" /\ g <= n => a[i].st # "live"

\* The rows of a replica after a frame.
After(a, f) ==
    IF f.t = "ack" THEN a
    ELSE IF f.t = "state" /\ f.full THEN f.rows
    ELSE PutAuthoritative(a, f.rows)

\* The cursor after k frames of s, and after all of them.
Seen(n, s, k) == IF k = 0 THEN n ELSE s[k].seq
Latest(n, s)    == Seen(n, s, Len(s))

\* A: the rows of a replica after each prefix of s, which moves its cursor on.
Trail(a, n, s, A) ==
    /\ A[0] = a
    /\ \A k \in 1..Len(s) : /\ A[k] = After(A[k - 1], s[k])
                            /\ Seen(n, s, k - 1) <= Seen(n, s, k)

\* The replica is honest now and after every frame on its way.
Believes(T, g, a, n, s) ==
    /\ IsSeq(s)
    /\ \E A : Trail(a, n, s, A) /\ \A k \in 0..Len(s) : Honest(T, g, A[k], Seen(n, s, k))

Table ==
    /\ rows = [i \in Ids |-> rows[i]]
    /\ \A i \in Ids : IsRow(rows[i]) /\ (rows[i].st # "none" => rows[i].seq \in 1..seq)
    /\ gcFloor \in Nat /\ gcFloor <= seq

\* A hello is the first frame of its socket, and its cursor is still the device's.
Greeting(c) ==
    /\ IsSeq(up[c])
    /\ \A k \in 1..Len(up[c]) : up[c][k].t = "hello" =>
           k = 1 /\ conn[c] = "hello" /\ srv[c] = "new" /\ up[c][k].cursor = doc[c].cursor

\* A ready socket carries everything up to the room's seq.
Served(c) ==
    IF srv[c] = "ready" THEN Latest(doc[c].cursor, down[c]) = seq
    ELSE srv[c] = "new" /\ down[c] = << >>

Informed(c) ==
    /\ Believes(rows, gcFloor, doc[c].auth, doc[c].cursor, down[c])
    /\ Honest(rows, gcFloor, saved[c].auth, saved[c].cursor)
    /\ IsSeq(doc[c].pending) /\ IsSeq(saved[c].pending)
    /\ Served(c) /\ Greeting(c)

Honesty == Table /\ \A c \in Clients : Informed(c)

HonestInv == SyncInv /\ (~wiped => Honesty)

-----------------------------------------------------------------------------
(* Trails. *)

LEMMA NoTrail == ASSUME NEW T, NEW g, NEW a, NEW n, Honest(T, g, a, n) PROVE Believes(T, g, a, n, << >>)
  <1> DEFINE A == [k \in {0} |-> a]
  <1>1. A[0] = a /\ Len(<< >>) = 0 /\ IsSeq(<< >>)
    BY DEF IsSeq
  <1>2. Trail(a, n, << >>, A)
    BY <1>1 DEF Trail
  <1>3. \A k \in 0..0 : Honest(T, g, A[k], Seen(n, << >>, k))
    <2>1. Honest(T, g, A[0], Seen(n, << >>, 0))
      BY <1>1 DEF Seen
    <2>2. \A k \in 0..0 : k = 0
      OBVIOUS
    <2> QED BY <2>1, <2>2
  <1> HIDE DEF A
  <1> QED BY <1>1, <1>2, <1>3 DEF Believes

LEMMA TrailNow == ASSUME NEW T, NEW g, NEW a, NEW n, NEW s, Believes(T, g, a, n, s) PROVE Honest(T, g, a, n)
  <1>1. PICK A : Trail(a, n, s, A) /\ \A k \in 0..Len(s) : Honest(T, g, A[k], Seen(n, s, k))
    BY DEF Believes
  <1>2. Len(s) \in Nat
    BY DEF Believes, IsSeq
  <1>3. 0 \in 0..Len(s) /\ A[0] = a /\ Seen(n, s, 0) = n
    BY <1>1, <1>2 DEF Trail, Seen
  <1>4. Honest(T, g, A[0], Seen(n, s, 0))
    BY <1>1, <1>3
  <1> QED BY <1>3, <1>4

(* The frame is read. *)
LEMMA TrailTail ==
    ASSUME NEW T, NEW g, NEW a, NEW n, NEW s, Believes(T, g, a, n, s), s # << >>
    PROVE  /\ Believes(T, g, After(a, Head(s)), Head(s).seq, Tail(s))
           /\ Head(s).seq >= n \/ Head(s).seq \notin Nat \/ n \notin Nat
           /\ Latest(Head(s).seq, Tail(s)) = Latest(n, s)
  <1>1. PICK A : Trail(a, n, s, A) /\ \A k \in 0..Len(s) : Honest(T, g, A[k], Seen(n, s, k))
    BY DEF Believes
  <1>2. PICK F : s \in Seq(F)
    BY DEF Believes, IsSeq
  <1> DEFINE t == Tail(s)
             m == Head(s).seq
             B == [k \in 0..Len(t) |-> A[k + 1]]
  <1>3. /\ t \in Seq(F) /\ Head(s) = s[1] /\ Len(s) \in Nat /\ Len(s) >= 1
        /\ Len(t) = Len(s) - 1
        /\ \A k \in 1..Len(s) - 1 : t[k] = s[k + 1]
    BY <1>2
  <1>4. \A k \in 0..Len(t) : Seen(m, t, k) = Seen(n, s, k + 1)
    BY <1>3 DEF Seen
  <1>5. IsSeq(t)
    BY <1>3 DEF IsSeq
  <1> HIDE DEF t, m
  <1>6. \A k \in 0..Len(t) : k + 1 \in 0..Len(s) /\ k + 1 \in 1..Len(s) /\ B[k] = A[k + 1] /\ k \in Nat
    BY <1>3
  <1> HIDE DEF B
  <1>7. \A k \in 0..Len(t) : Honest(T, g, B[k], Seen(m, t, k))
    BY <1>1, <1>4, <1>6
  <1>8. Trail(After(a, Head(s)), m, t, B)
    <2>1. B[0] = After(a, Head(s))
      <3>1. 0 \in 0..Len(t) /\ 1 \in 1..Len(s) /\ B[0] = A[0 + 1] /\ 0 + 1 = 1 /\ 1 - 1 = 0
        BY <1>3, <1>6
      <3> QED BY <1>1, <1>3, <3>1 DEF Trail
    <2>2. ASSUME NEW k \in 1..Len(t)
          PROVE  B[k] = After(B[k - 1], t[k]) /\ Seen(m, t, k - 1) <= Seen(m, t, k)
      <3>1. /\ k \in 0..Len(t) /\ k - 1 \in 0..Len(t) /\ (k - 1) + 1 = k /\ (k + 1) - 1 = k
            /\ k + 1 \in 1..Len(s) /\ t[k] = s[k + 1]
        BY <1>3
      <3>2. B[k] = A[k + 1] /\ B[k - 1] = A[k]
        BY <1>6, <3>1
      <3>3. Seen(m, t, k) = Seen(n, s, k + 1) /\ Seen(m, t, k - 1) = Seen(n, s, k)
        BY <1>4, <3>1
      <3>4. A[k + 1] = After(A[(k + 1) - 1], s[k + 1]) /\ Seen(n, s, (k + 1) - 1) <= Seen(n, s, k + 1)
        BY <1>1, <3>1 DEF Trail
      <3> QED BY <3>1, <3>2, <3>3, <3>4
    <2> QED BY <2>1, <2>2 DEF Trail
  <1>9. Believes(T, g, After(a, Head(s)), m, t)
    BY <1>5, <1>7, <1>8 DEF Believes
  <1>10. m >= n \/ m \notin Nat \/ n \notin Nat
    <2>1. 1 \in 1..Len(s) /\ 1 - 1 = 0
      BY <1>3
    <2>2. Seen(n, s, 0) <= Seen(n, s, 1)
      BY <1>1, <2>1 DEF Trail
    <2> QED BY <1>3, <2>2 DEF Seen, m
  <1>11. Latest(m, t) = Latest(n, s)
    <2>1. Len(t) \in 0..Len(t) /\ Len(t) + 1 = Len(s)
      BY <1>3
    <2> QED BY <1>4, <2>1 DEF Latest
  <1> QED BY <1>9, <1>10, <1>11 DEF m, t

(* A frame that keeps an up-to-date replica honest is sent. *)
LEMMA TrailAppend ==
    ASSUME NEW T, NEW g, NEW a, NEW n, NEW s, NEW e, Believes(T, g, a, n, s), Latest(n, s) <= e.seq,
           \A x : Honest(T, g, x, Latest(n, s)) => Honest(T, g, After(x, e), e.seq)
    PROVE  Believes(T, g, a, n, Append(s, e)) /\ Latest(n, Append(s, e)) = e.seq
  <1>1. PICK A : Trail(a, n, s, A) /\ \A k \in 0..Len(s) : Honest(T, g, A[k], Seen(n, s, k))
    BY DEF Believes
  <1>2. PICK F : s \in Seq(F)
    BY DEF Believes, IsSeq
  <1> DEFINE t == Append(s, e)
             l == Len(s)
             B == [k \in 0..l + 1 |-> IF k \in 0..l THEN A[k] ELSE After(A[l], e)]
  <1>3. s \in Seq(F \cup {e})
    BY <1>2
  <1>4. /\ t \in Seq(F \cup {e}) /\ l \in Nat /\ Len(t) = l + 1
        /\ \A k \in 1..l : t[k] = s[k]
        /\ t[l + 1] = e
    BY <1>3
  <1>5. IsSeq(t)
    BY <1>4 DEF IsSeq
  <1> HIDE DEF t
  <1>6. /\ \A k \in 0..l : Seen(n, t, k) = Seen(n, s, k)
        /\ Seen(n, t, l + 1) = e.seq /\ Seen(n, s, l) = Latest(n, s)
    BY <1>4 DEF Seen, Latest
  <1>7. Trail(a, n, s, A) /\ (\A k \in 0..l : Honest(T, g, A[k], Seen(n, s, k))) /\ Honest(T, g, A[l], Latest(n, s))
    BY <1>1, <1>4, <1>6
  <1> HIDE DEF l
  <1>8. /\ \A k \in 0..l : B[k] = A[k]
        /\ B[l + 1] = After(A[l], e)
    BY <1>4
  <1> HIDE DEF B
  <1>9. \A k \in 0..l + 1 : k \in 0..l \/ k = l + 1
    BY <1>4
  <1>10. ASSUME NEW k \in 0..Len(t) PROVE Honest(T, g, B[k], Seen(n, t, k))
    <2>1. CASE k \in 0..l
      BY <1>6, <1>7, <1>8, <2>1
    <2>2. CASE k = l + 1
      BY <1>6, <1>7, <1>8, <2>2
    <2> QED BY <1>4, <1>9, <2>1, <2>2
  <1>11. ASSUME NEW k \in 1..Len(t)
         PROVE  B[k] = After(B[k - 1], t[k]) /\ Seen(n, t, k - 1) <= Seen(n, t, k)
    <2>1. CASE k = l + 1
      <3>1. k - 1 = l /\ l \in 0..l
        BY <1>4, <2>1
      <3> QED BY <1>4, <1>6, <1>8, <2>1, <3>1
    <2>2. CASE k # l + 1
      <3>1. k \in 1..l /\ k \in 0..l /\ k - 1 \in 0..l
        BY <1>4, <2>2
      <3>2. A[k] = After(A[k - 1], s[k]) /\ Seen(n, s, k - 1) <= Seen(n, s, k)
        BY <1>7, <3>1 DEF Trail, l
      <3> QED BY <1>4, <1>6, <1>8, <3>1, <3>2
    <2> QED BY <2>1, <2>2
  <1>12. B[0] = a
    BY <1>4, <1>7, <1>8 DEF Trail
  <1>13. Trail(a, n, t, B)
    BY <1>11, <1>12 DEF Trail
  <1>14. Believes(T, g, a, n, t)
    BY <1>5, <1>10, <1>13 DEF Believes
  <1>15. Latest(n, t) = e.seq
    BY <1>4, <1>6 DEF Latest
  <1> QED BY <1>14, <1>15 DEF t

(* What the room does to replicas that were honest, it does to trails. *)
LEMMA TrailKept ==
    ASSUME NEW T, NEW g, NEW U, NEW h, NEW a, NEW n \in Nat, NEW s, Believes(T, g, a, n, s),
           NEW m \in Nat, n <= m, FramesUpTo(s, m),
           \A x : \A k \in 0..m : Honest(T, g, x, k) => Honest(U, h, x, k)
    PROVE  Believes(U, h, a, n, s)
  <1>1. PICK A : Trail(a, n, s, A) /\ \A k \in 0..Len(s) : Honest(T, g, A[k], Seen(n, s, k))
    BY DEF Believes
  <1>2. Len(s) \in Nat /\ IsSeq(s)
    BY DEF Believes, IsSeq
  <1>3. \A k \in 0..Len(s) : Seen(n, s, k) \in 0..m
    BY <1>2 DEF FramesUpTo, Seen
  <1>4. \A k \in 0..Len(s) : Honest(U, h, A[k], Seen(n, s, k))
    BY <1>1, <1>3
  <1> QED BY <1>1, <1>2, <1>4 DEF Believes

-----------------------------------------------------------------------------
(* The room. *)

(* A row an op changes is there, with the seq it was stamped with. *)
LEMMA StampedRow ==
    ASSUME NEW r, IsRow(r), NEW op, Changes(r, op), NEW n
    PROVE  LET x == [ApplyOp(r, op) EXCEPT !.seq = n]
           IN  IsRow(x) /\ x.st \in {"live", "dead"} /\ x.seq = n
  <1>1. r = [x \in RowKeys |-> r[x]]
    BY DEF IsRow, NoRow, RowKeys
  <1> DEFINE y == ApplyOp(r, op)
  <1>2. y = [x \in RowKeys |-> y[x]] /\ y.st \in {"live", "dead"}
    <2>1. CASE op.op = "delete"
      <3>1. y = Tombstone(r, op.hlc)
        BY <2>1 DEF ApplyOp
      <3> QED BY <1>1, <3>1 DEF Tombstone, RowKeys
    <2>2. CASE op.op # "delete"
      <3>1. y = Written(r, op)
        BY <2>2 DEF ApplyOp
      <3> DEFINE w == Winning(r, op)
                 clk == [f \in Fields |-> IF f \in w THEN ClockFor(op, f) ELSE r.clk[f]]
                 has == (r.has \ w) \cup (w \cap op.put)
      <3>2. Written(r, op) = [r EXCEPT !.st = "live", !.clk = clk, !.has = has]
        BY DEF Written
      <3> HIDE DEF clk, has, y
      <3>3. y = [r EXCEPT !.st = "live", !.clk = clk, !.has = has]
        BY <3>1, <3>2
      <3> QED BY <1>1, <3>3 DEF RowKeys
    <2> QED BY <2>1, <2>2
  <1> HIDE DEF y
  <1>3. LET x == [y EXCEPT !.seq = n] IN IsRow(x) /\ x.st \in {"live", "dead"} /\ x.seq = n
    BY <1>2 DEF IsRow, RowKeys
  <1> QED BY <1>3 DEF y

LEMMA MergedRows ==
    ASSUME Table, seq \in Nat, NEW b, NEW i \in Ids
    PROVE  /\ IsRow(Merged(b)[i])
           /\ i \in Touched(b) => Merged(b)[i].st \in {"live", "dead"} /\ Merged(b)[i].seq = seq + 1
           /\ i \notin Touched(b) => Merged(b)[i] = rows[i]
  <1>1. IsRow(rows[i]) /\ (i \in Touched(b) <=> Changes(rows[i], b.ops[i]))
    BY DEF Table, Touched
  <1>2. Merged(b)[i] = IF i \in Touched(b) THEN [ApplyOp(rows[i], b.ops[i]) EXCEPT !.seq = seq + 1]
                       ELSE rows[i]
    BY DEF Merged
  <1>3. CASE i \in Touched(b)
    BY <1>1, <1>2, <1>3, StampedRow
  <1> QED BY <1>1, <1>2, <1>3

(* A push leaves every replica honest: what it changes is past every cursor. *)
LEMMA PushHonest ==
    ASSUME Table, seq \in Nat, NEW b, rows' = Merged(b), UNCHANGED gcFloor,
           seq' = IF Touched(b) = {} THEN seq ELSE seq + 1
    PROVE  /\ Table'
           /\ \A x : \A k \in 0..seq : Honest(rows, gcFloor, x, k) => Honest(rows', gcFloor', x, k)
  <1>1. ASSUME NEW i \in Ids
        PROVE  IsRow(rows'[i]) /\ (rows'[i].st # "none" => rows'[i].seq \in 1..seq')
    <2>1. /\ IsRow(rows'[i])
          /\ i \in Touched(b) => rows'[i].seq = seq + 1 /\ seq' = seq + 1
          /\ i \notin Touched(b) => rows'[i] = rows[i]
      BY MergedRows
    <2>2. rows[i].st # "none" => rows[i].seq \in 1..seq
      BY DEF Table
    <2> QED BY <2>1, <2>2
  <1>2. rows' = [i \in Ids |-> rows'[i]]
    BY DEF Merged
  <1>3. Table'
    BY <1>1, <1>2 DEF Table, IsRow
  <1>4. ASSUME NEW x, NEW k \in 0..seq, Honest(rows, gcFloor, x, k), NEW i \in Ids
        PROVE  /\ IsRow(x[i])
               /\ rows'[i].st # "none" /\ rows'[i].seq <= k => x[i] = rows'[i]
               /\ rows'[i].st = "none" /\ gcFloor' <= k => x[i].st # "live"
    <2>1. /\ i \in Touched(b) => rows'[i].st # "none" /\ rows'[i].seq = seq + 1
          /\ i \notin Touched(b) => rows'[i] = rows[i]
      BY MergedRows
    <2> QED BY <1>4, <2>1 DEF Honest
  <1> QED BY <1>3, <1>4 DEF Honest

(* The merged rows bring a replica that had seen everything up to date. *)
LEMMA BroadcastHonest ==
    ASSUME Table, seq \in Nat, NEW b, NEW T, T = Merged(b), Touched(b) # {},
           NEW x, Honest(T, gcFloor, x, seq), NEW e,
           e = RowsFrame(AnsweredSeq(b), Merged(b), Touched(b))
    PROVE  \A m : Honest(T, gcFloor, After(x, e), m)
  <1>1. e.t = "rows" /\ \A i \in Ids : e.rows[i] = IF i \in Touched(b) THEN T[i] ELSE NoRow
    BY DEF RowsFrame, Carried
  <1> DEFINE y == After(x, e)
  <1>2. \A i \in Ids : y[i] = IF e.rows[i].st # "none" THEN e.rows[i] ELSE x[i]
    BY <1>1 DEF After, PutAuthoritative
  <1> HIDE DEF y
  <1>3. ASSUME NEW i \in Ids
        PROVE  /\ IsRow(y[i])
               /\ T[i].st # "none" => y[i] = T[i]
               /\ T[i].st = "none" => y[i].st # "live"
    <2>1. CASE i \in Touched(b)
      BY <1>1, <1>2, <2>1, MergedRows
    <2>2. CASE i \notin Touched(b)
      <3>1. T[i] = rows[i] /\ y[i] = x[i]
        BY <1>1, <1>2, <2>2, MergedRows DEF NoRow
      <3>2. (rows[i].st # "none" => rows[i].seq <= seq) /\ gcFloor <= seq
        BY DEF Table
      <3> QED BY <3>1, <3>2 DEF Honest
    <2> QED BY <2>1, <2>2
  <1>4. \A m : Honest(T, gcFloor, y, m)
    BY <1>3 DEF Honest
  <1> QED BY <1>4 DEF y

LEMMA MaxOf ==
    ASSUME NEW n \in Nat, NEW S \in SUBSET (0..n), S # {}
    PROVE  Max(S) \in S /\ \A y \in S : y <= Max(S)
  <1> DEFINE D == {n - x : x \in S}
             R == OpToRel(<, Nat)
  <1>0. \A x \in S : x \in Nat /\ x <= n /\ n - x \in Nat /\ n - x \in D
    OBVIOUS
  <1>1. D \subseteq Nat /\ D # {}
    BY <1>0
  <1>2. PICK d \in D : \A y \in D : ~(<<y, d>> \in R)
    <2> HIDE DEF R, D
    <2>1. IsWellFoundedOn(R, Nat)
      BY NatLessThanWellFounded DEF R
    <2> QED BY <1>1, <2>1, WFMin
  <1>3. \A y \in D : ~(y < d)
    BY <1>1, <1>2 DEF OpToRel
  <1>4. PICK m \in S : d = n - m
    OBVIOUS
  <1>5. \A y \in S : m >= y
    <2> HIDE DEF D
    <2> TAKE y \in S
    <2>1. ~(n - y < n - m) /\ y \in Nat /\ m \in Nat
      BY <1>0, <1>3, <1>4
    <2> QED BY <2>1
  <1>6. Max(S) = CHOOSE x \in S : \A y \in S : x >= y
    BY DEF Max
  <1>7. Max(S) \in S /\ \A y \in S : Max(S) >= y
    BY <1>5, <1>6
  <1> QED BY <1>7

(* A purge leaves every replica honest: the floor is past what was purged. *)
LEMMA PurgeHonest ==
    ASSUME Table, seq \in Nat, NEW S \in SUBSET Ids, \A i \in S : rows[i].st = "dead", Purge(S),
           UNCHANGED seq
    PROVE  /\ Table'
           /\ \A x : \A k \in 0..seq : Honest(rows, gcFloor, x, k) => Honest(rows', gcFloor', x, k)
  <1> DEFINE Q == {gcFloor} \cup {rows[i].seq : i \in S}
  <1>1. Q \in SUBSET (0..seq) /\ Q # {} /\ gcFloor \in Q /\ \A i \in S : rows[i].seq \in Q
    BY DEF Table
  <1>2. gcFloor' = Max(Q) /\ rows' = [i \in Ids |-> IF i \in S THEN NoRow ELSE rows[i]]
    BY DEF Purge
  <1> HIDE DEF Q
  <1>3. gcFloor' \in 0..seq /\ gcFloor <= gcFloor' /\ \A i \in S : rows[i].seq <= gcFloor'
    BY <1>1, <1>2, MaxOf
  <1>4. Table'
    <2>1. ASSUME NEW i \in Ids
          PROVE  IsRow(rows'[i]) /\ (rows'[i].st # "none" => rows'[i].seq \in 1..seq)
      <3>1. IsRow(rows[i]) /\ (rows[i].st # "none" => rows[i].seq \in 1..seq)
        BY DEF Table
      <3>2. rows'[i] = NoRow \/ rows'[i] = rows[i]
        BY <1>2
      <3>3. IsRow(NoRow) /\ NoRow.st = "none"
        BY DEF IsRow, NoRow
      <3> QED BY <3>1, <3>2, <3>3
    <2>2. \A i \in Ids : IsRow(rows[i])' /\ (rows'[i].st # "none" => rows'[i].seq \in 1..seq')
      BY <2>1 DEF IsRow
    <2>3. rows' = [i \in Ids |-> rows'[i]]
      BY <1>2
    <2> QED BY <1>3, <2>2, <2>3 DEF Table
  <1>5. ASSUME NEW x, NEW k \in 0..seq, Honest(rows, gcFloor, x, k), NEW i \in Ids
        PROVE  /\ IsRow(x[i])
               /\ rows'[i].st # "none" /\ rows'[i].seq <= k => x[i] = rows'[i]
               /\ rows'[i].st = "none" /\ gcFloor' <= k => x[i].st # "live"
    <2>1. /\ IsRow(x[i])
          /\ rows[i].st # "none" /\ rows[i].seq <= k => x[i] = rows[i]
          /\ rows[i].st = "none" /\ gcFloor <= k => x[i].st # "live"
      BY <1>5 DEF Honest
    <2>2. gcFloor \in Nat /\ gcFloor' \in Nat /\ (rows[i].st # "none" => rows[i].seq \in Nat)
      BY <1>3 DEF Table
    <2>3. CASE i \in S
      BY <1>2, <1>3, <2>1, <2>2, <2>3 DEF NoRow
    <2>4. CASE i \notin S
      BY <1>2, <1>3, <2>1, <2>2, <2>4
    <2> QED BY <2>3, <2>4
  <1> QED BY <1>4, <1>5 DEF Honest

(* The answer to a hello: the whole table for a cursor it cannot serve, or what
   changed since. *)
LEMMA HelloHonest ==
    ASSUME Table, seq \in Nat, NEW a, NEW n \in Nat, n <= seq, Honest(rows, gcFloor, a, n),
           NEW full, full = NeedsFull(n), NEW e,
           e = StateFrame(seq, full, gcFloor, rows, RowsSince(IF full THEN 0 ELSE n))
    PROVE  \A m : Honest(rows, gcFloor, After(a, e), m)
  <1> DEFINE y == After(a, e)
             z == IF full THEN 0 ELSE n
  <1>1. /\ e.t = "state" /\ e.full = full
        /\ \A i \in Ids : e.rows[i] = IF i \in RowsSince(z) THEN rows[i] ELSE NoRow
        /\ e.rows = [i \in Ids |-> IF i \in RowsSince(z) THEN rows[i] ELSE NoRow]
    BY DEF StateFrame, Carried
  <1>2. \A i \in Ids : y[i] = IF full \/ e.rows[i].st # "none" THEN e.rows[i] ELSE a[i]
    BY <1>1 DEF After, PutAuthoritative
  <1>3. ~full => gcFloor <= n
    <2>1. ~NeedsFull(n) => gcFloor <= n
      BY DEF NeedsFull, Table
    <2> QED BY <2>1
  <1>4. full \in BOOLEAN
    BY DEF NeedsFull
  <1> HIDE DEF y
  <1>5. ASSUME NEW i \in Ids
        PROVE  /\ IsRow(y[i])
               /\ rows[i].st # "none" => y[i] = rows[i]
               /\ rows[i].st = "none" => y[i].st # "live"
    <2>1. /\ IsRow(a[i]) /\ IsRow(rows[i])
          /\ rows[i].st # "none" /\ rows[i].seq <= n => a[i] = rows[i]
          /\ rows[i].st = "none" /\ gcFloor <= n => a[i].st # "live"
          /\ rows[i].st # "none" => rows[i].seq \in 1..seq
      BY DEF Honest, Table
    <2>2. i \in RowsSince(z) <=> rows[i].st # "none" /\ rows[i].seq > z
      BY DEF RowsSince
    <2>3. CASE full
      <3>1. y[i] = e.rows[i] /\ z = 0
        BY <1>2, <2>3
      <3>2. i \in RowsSince(z) <=> rows[i].st # "none"
        BY <2>1, <2>2, <3>1
      <3>3. y[i] = IF rows[i].st # "none" THEN rows[i] ELSE NoRow
        BY <1>1, <3>1, <3>2
      <3> QED BY <2>1, <3>3 DEF NoRow, IsRow
    <2>4. CASE ~full
      BY <1>1, <1>2, <1>3, <2>1, <2>2, <2>4 DEF NoRow
    <2> QED BY <1>4, <2>3, <2>4
  <1>6. \A m : Honest(rows, gcFloor, y, m)
    BY <1>5 DEF Honest
  <1> QED BY <1>6 DEF y

-----------------------------------------------------------------------------
(* Replicas and queues. *)

LEMMA EntriesSeq ==
    ASSUME NEW s, IsSeq(s), NEW P \in SUBSET (DOMAIN s)
    PROVE  /\ Cardinality(P) \in Nat
           /\ Entries(s, P) = [n \in 1..Cardinality(P) |-> s[Nth(P, n)]]
           /\ IsSeq(Entries(s, P)) /\ Len(Entries(s, P)) = Cardinality(P)
  <1>1. DOMAIN s = 1..Len(s) /\ Len(s) \in Nat
    BY DEF IsSeq
  <1>2. Cardinality(P) \in Nat
    <2>1. IsFiniteSet(1..Len(s))
      BY <1>1, FS_Interval
    <2>2. IsFiniteSet(P)
      BY <1>1, <2>1, FS_Subset
    <2> QED BY <2>2, FS_CardinalityType
  <1> DEFINE m == Cardinality(P)
             F == {s[Nth(P, n)] : n \in 1..m}
  <1>3. Entries(s, P) = [n \in 1..m |-> s[Nth(P, n)]]
    BY DEF Entries
  <1>4. \A n \in 1..m : s[Nth(P, n)] \in F
    OBVIOUS
  <1> HIDE DEF F, m
  <1>5. [n \in 1..m |-> s[Nth(P, n)]] \in Seq(F) /\ Len([n \in 1..m |-> s[Nth(P, n)]]) = m
    BY <1>2, <1>4 DEF m
  <1> QED BY <1>2, <1>3, <1>5 DEF IsSeq, m

(* What push_pending sends are pushes. *)
LEMMA OnlyPushes ==
    ASSUME NEW d, IsSeq(d.pending)
    PROVE  IsSeq(Pushes(d)) /\ \A k \in 1..Len(Pushes(d)) : Pushes(d)[k].t = "push"
  <1> DEFINE P == {k \in DOMAIN d.pending : ~d.pending[k].sent}
             q == ToPush(d)
             m == Cardinality(P)
             F == {PushFrame(q[k]) : k \in 1..m}
  <1>1. m \in Nat /\ q = [n \in 1..m |-> d.pending[Nth(P, n)]]
    <2>1. P \in SUBSET (DOMAIN d.pending) /\ q = Entries(d.pending, P)
      BY DEF ToPush
    <2> HIDE DEF P, q
    <2> QED BY <2>1, EntriesSeq
  <1>2. DOMAIN q = 1..m
    BY <1>1
  <1>3. Pushes(d) = [k \in 1..m |-> PushFrame(q[k])]
    BY <1>2 DEF Pushes
  <1>4. \A k \in 1..m : PushFrame(q[k]) \in F /\ PushFrame(q[k]).t = "push"
    BY DEF PushFrame
  <1> DEFINE u == [k \in 1..m |-> PushFrame(q[k])]
  <1>5. \A k \in 1..m : u[k] \in F /\ u[k].t = "push"
    BY <1>4
  <1>6. u = [k \in 1..m |-> u[k]]
    OBVIOUS
  <1> HIDE DEF q, m, F, u
  <1>7. u \in Seq(F) /\ Len(u) = m
    BY <1>1, <1>5, <1>6
  <1>8. Pushes(d) = u
    BY <1>3 DEF u
  <1> QED BY <1>5, <1>7, <1>8 DEF IsSeq

(* The queue of a replica stays a queue, and only frames change its rows. *)
LEMMA KeepRows ==
    ASSUME NEW d, IsDoc(d), IsSeq(d.pending)
    PROVE  /\ MarkDisconnected(d).auth = d.auth /\ IsSeq(MarkDisconnected(d).pending)
           /\ Snapshot(d).auth = d.auth /\ IsSeq(Snapshot(d).pending)
           /\ TakePushable(d).auth = d.auth /\ IsSeq(TakePushable(d).pending)
           /\ \A t, h, ops : /\ EnqueueOps(d, t, h, ops).auth = d.auth
                             /\ IsSeq(EnqueueOps(d, t, h, ops).pending)
  <1> DEFINE p == d.pending
  <1>1. PICK F : p \in Seq(F)
    BY DEF IsSeq
  <1>2. DOMAIN p = 1..Len(p) /\ Len(p) \in Nat
    BY <1>1
  <1>3. ASSUME NEW v \in BOOLEAN PROVE IsSeq([k \in DOMAIN p |-> [p[k] EXCEPT !.sent = v]])
    <2> DEFINE G == {[p[k] EXCEPT !.sent = v] : k \in 1..Len(p)}
    <2>1. \A k \in 1..Len(p) : [p[k] EXCEPT !.sent = v] \in G
      OBVIOUS
    <2> HIDE DEF G
    <2>2. [k \in 1..Len(p) |-> [p[k] EXCEPT !.sent = v]] \in Seq(G)
      BY <1>2, <2>1
    <2> QED BY <1>2, <2>2 DEF IsSeq
  <1>4. MarkDisconnected(d).auth = d.auth /\ IsSeq(MarkDisconnected(d).pending)
    <2> DEFINE q == [k \in DOMAIN p |-> [p[k] EXCEPT !.sent = FALSE]]
    <2>1. MarkDisconnected(d) = [d EXCEPT !.pending = q]
      BY DEF MarkDisconnected
    <2>2. IsSeq(q)
      BY <1>3
    <2> HIDE DEF q
    <2> QED BY <2>1, <2>2 DEF IsDoc, DocKeys
  <1>5. TakePushable(d).auth = d.auth /\ IsSeq(TakePushable(d).pending)
    <2> DEFINE q == [k \in DOMAIN p |-> [p[k] EXCEPT !.sent = TRUE]]
    <2>1. TakePushable(d) = [d EXCEPT !.pending = q]
      BY DEF TakePushable
    <2>2. IsSeq(q)
      BY <1>3
    <2> HIDE DEF q
    <2> QED BY <2>1, <2>2 DEF IsDoc, DocKeys
  <1>6. ASSUME NEW t, NEW h, NEW ops
        PROVE  EnqueueOps(d, t, h, ops).auth = d.auth /\ IsSeq(EnqueueOps(d, t, h, ops).pending)
    <2> DEFINE b == [id |-> h, ops |-> ops, sent |-> FALSE]
               q == Append(p, b)
    <2>1. EnqueueOps(d, t, h, ops) = [d EXCEPT !.tick = t, !.pending = q]
      BY DEF EnqueueOps
    <2> HIDE DEF b
    <2>2. p \in Seq(F \cup {b})
      BY <1>1
    <2>3. IsSeq(q)
      BY <2>2 DEF IsSeq
    <2> HIDE DEF q
    <2> QED BY <2>1, <2>3 DEF IsDoc, DocKeys
  <1> QED BY <1>4, <1>5, <1>6 DEF Snapshot

(* What a replica becomes when it reads a frame it expects. *)
LEMMA ReadFrame ==
    ASSUME NEW d, IsDoc(d), IsSeq(d.pending), NEW f, f.seq \in Nat, f.seq >= d.cursor
    PROVE  /\ f.t = "rows" => /\ ApplyRows(d, f).auth = After(d.auth, f)
                              /\ ApplyRows(d, f).cursor = f.seq
                              /\ IsSeq(ApplyRows(d, f).pending)
           /\ f.t = "ack" =>  /\ AckBatch(d, f).auth = After(d.auth, f)
                              /\ AckBatch(d, f).cursor = f.seq
                              /\ IsSeq(AckBatch(d, f).pending)
           /\ f.t = "state" => \A t, h : /\ ApplyState(d, f, t, h).auth = After(d.auth, f)
                                         /\ ApplyState(d, f, t, h).cursor = f.seq
                                         /\ IsSeq(ApplyState(d, f, t, h).pending)
  <1> DEFINE m == IF f.seq > d.cursor THEN f.seq ELSE d.cursor
  <1>1. m = f.seq
    BY DEF IsDoc
  <1> HIDE DEF m
  <1>2. ASSUME f.t = "rows"
        PROVE  /\ ApplyRows(d, f).auth = After(d.auth, f) /\ ApplyRows(d, f).cursor = f.seq
               /\ IsSeq(ApplyRows(d, f).pending)
    <2> DEFINE a == PutAuthoritative(d.auth, f.rows)
    <2>1. ApplyRows(d, f) = [d EXCEPT !.auth = a, !.cursor = m] /\ After(d.auth, f) = a
      BY <1>2 DEF ApplyRows, After, m
    <2> HIDE DEF a
    <2> QED BY <1>1, <2>1 DEF IsDoc, DocKeys
  <1>3. ASSUME f.t = "ack"
        PROVE  /\ AckBatch(d, f).auth = After(d.auth, f) /\ AckBatch(d, f).cursor = f.seq
               /\ IsSeq(AckBatch(d, f).pending)
    <2> DEFINE P == {k \in DOMAIN d.pending : d.pending[k].id # f.batch}
               q == Entries(d.pending, P)
    <2>1. AckBatch(d, f) = [d EXCEPT !.pending = q, !.cursor = m] /\ After(d.auth, f) = d.auth
      BY <1>3 DEF AckBatch, After, m
    <2>2. IsSeq(q)
      BY EntriesSeq
    <2> HIDE DEF q
    <2> QED BY <1>1, <2>1, <2>2 DEF IsDoc, DocKeys
  <1>4. ASSUME f.t = "state", NEW t, NEW h
        PROVE  /\ ApplyState(d, f, t, h).auth = After(d.auth, f) /\ ApplyState(d, f, t, h).cursor = f.seq
               /\ IsSeq(ApplyState(d, f, t, h).pending)
    <2> DEFINE e == [d EXCEPT !.auth = StateAuth(d, f), !.cursor = f.seq]
    <2>1. ~ServerBehind(d, f)
      BY DEF ServerBehind, IsDoc
    <2>2. StateAuth(d, f) = After(d.auth, f)
      BY <1>4, <2>1 DEF StateAuth, After
    <2>3. IsDoc(e) /\ e.auth = After(d.auth, f) /\ e.cursor = f.seq /\ IsSeq(e.pending)
      BY <2>2 DEF IsDoc, DocKeys
    <2>4. ApplyState(d, f, t, h) = e \/ \E ops : ApplyState(d, f, t, h) = EnqueueOps(e, t, h, ops)
      BY DEF ApplyState
    <2> HIDE DEF e
    <2>5. CASE ApplyState(d, f, t, h) = e
      BY <2>3, <2>5
    <2>6. ASSUME NEW ops, ApplyState(d, f, t, h) = EnqueueOps(e, t, h, ops)
          PROVE  /\ ApplyState(d, f, t, h).auth = After(d.auth, f)
                 /\ ApplyState(d, f, t, h).cursor = f.seq
                 /\ IsSeq(ApplyState(d, f, t, h).pending)
      <3>1. EnqueueOps(e, t, h, ops).auth = e.auth /\ IsSeq(EnqueueOps(e, t, h, ops).pending)
        BY <2>3, KeepRows
      <3>2. EnqueueOps(e, t, h, ops).cursor = e.cursor
        BY <2>3, KeepCursor
      <3> QED BY <2>3, <2>6, <3>1, <3>2
    <2> QED BY <2>4, <2>5, <2>6
  <1> QED BY <1>2, <1>3, <1>4

-----------------------------------------------------------------------------
LEMMA HonestInit == Init => HonestInv
  <1> SUFFICES ASSUME Init PROVE HonestInv
    OBVIOUS
  <1>1. /\ rows = [i \in Ids |-> NoRow] /\ seq = 0 /\ gcFloor = 0
        /\ NoRow.st = "none" /\ \A i \in Ids : IsRow(NoRow)
    BY DEF Init, IsRow, NoRow
  <1>2. Table
    BY <1>1 DEF Table
  <1>3. ASSUME NEW c \in Clients PROVE Informed(c)
    <2>1. /\ doc[c] = NewDoc /\ saved[c] = NewDoc /\ srv[c] = "new"
          /\ up[c] = << >> /\ down[c] = << >>
      BY DEF Init
    <2>2. NewDoc.auth = [i \in Ids |-> NoRow] /\ NewDoc.cursor = 0 /\ NewDoc.pending = << >>
      BY DEF NewDoc
    <2>3. Honest(rows, gcFloor, NewDoc.auth, NewDoc.cursor)
      BY <1>1, <2>2 DEF Honest
    <2>4. IsSeq(<< >>) /\ Len(<< >>) = 0
      BY DEF IsSeq
    <2> QED BY <2>1, <2>2, <2>3, <2>4, NoTrail DEF Informed, Served, Greeting
  <1> QED BY <1>2, <1>3, SyncInit DEF HonestInv, Honesty

(* A step of device c that leaves the room and the other devices alone. *)
LEMMA ElsewhereHonest ==
    ASSUME Honesty, NEW c \in Clients, UNCHANGED <<rows, seq, gcFloor>>, Informed(c)',
           \A k \in Clients : k # c => /\ doc'[k] = doc[k] /\ saved'[k] = saved[k]
                                       /\ conn'[k] = conn[k] /\ srv'[k] = srv[k]
                                       /\ up'[k] = up[k] /\ down'[k] = down[k]
    PROVE  Honesty'
  <1>1. Table'
    BY DEF Honesty, Table
  <1>2. ASSUME NEW k \in Clients, k # c PROVE Informed(k)'
    BY <1>2 DEF Honesty, Informed, Served, Greeting
  <1> QED BY <1>1, <1>2 DEF Honesty

(* A step that only changes the queue of batches. *)
LEMMA QueueHonest ==
    ASSUME Core, Honesty, NEW c \in Clients, NEW e, doc' = [doc EXCEPT ![c] = e],
           e.auth = doc[c].auth, e.cursor = doc[c].cursor, IsSeq(e.pending),
           UNCHANGED <<rows, seq, gcFloor, srv, saved, conn, up, down>>
    PROVE  Honesty'
  <1>1. doc'[c] = e /\ \A k \in Clients : k # c => doc'[k] = doc[k]
    BY DEF Core, Functions
  <1>2. Informed(c)'
    BY <1>1 DEF Honesty, Informed, Served, Greeting
  <1> QED BY <1>1, <1>2, ElsewhereHonest

LEMMA WriteHonest ==
    ASSUME Core, Honesty, NEW c \in Clients, NEW t, NEW ops, Write(c, t, ops) PROVE Honesty'
  <1> DEFINE e == EnqueueOps(doc[c], t, Hlc(c, t), ops)
  <1>1. doc' = [doc EXCEPT ![c] = e] /\ UNCHANGED <<rows, seq, gcFloor, srv, saved, conn, up, down>>
    BY DEF Write, Mint, room
  <1>2. e.auth = doc[c].auth /\ e.cursor = doc[c].cursor /\ IsSeq(e.pending)
    BY KeepRows, KeepCursor DEF Core, ClientOK, CursorsUpTo, Honesty, Informed
  <1> HIDE DEF e
  <1> QED BY <1>1, <1>2, QueueHonest

LEMMA SaveHonest == ASSUME Core, Honesty, NEW c \in Clients, Save(c) PROVE Honesty'
  <1> DEFINE e == Snapshot(doc[c])
  <1>1. /\ saved' = [saved EXCEPT ![c] = e]
        /\ UNCHANGED <<rows, seq, gcFloor, srv, doc, conn, up, down>>
    BY DEF Save, room
  <1>2. e.auth = doc[c].auth /\ e.cursor = doc[c].cursor /\ IsSeq(e.pending)
    BY KeepRows, KeepCursor DEF Core, ClientOK, CursorsUpTo, Honesty, Informed
  <1>3. Honest(rows, gcFloor, doc[c].auth, doc[c].cursor)
    BY TrailNow DEF Honesty, Informed
  <1> HIDE DEF e
  <1>4. saved'[c] = e /\ \A k \in Clients : k # c => saved'[k] = saved[k]
    BY <1>1 DEF Core, Functions
  <1>5. Informed(c)'
    BY <1>1, <1>2, <1>3, <1>4 DEF Honesty, Informed, Served, Greeting
  <1> QED BY <1>1, <1>4, <1>5, ElsewhereHonest

(* The engine starts over from its snapshot. *)
LEMMA BootHonest == ASSUME Core, Honesty, NEW c \in Clients, Boot(c) PROVE Honesty'
  <1>1. PICK t, ops : doc' = [doc EXCEPT ![c] = EnqueueOps(saved[c], t, Hlc(c, t), ops)]
    BY DEF Boot, Mint
  <1> DEFINE e == EnqueueOps(saved[c], t, Hlc(c, t), ops)
  <1>2. /\ doc' = [doc EXCEPT ![c] = e] /\ saved' = [saved EXCEPT ![c] = doc'[c]]
        /\ conn[c] = "off" /\ conn' = [conn EXCEPT ![c] = "down"]
        /\ UNCHANGED <<rows, seq, gcFloor, srv, up, down>>
    BY <1>1 DEF Boot, room
  <1>3. e.auth = saved[c].auth /\ e.cursor = saved[c].cursor /\ IsSeq(e.pending)
    <2>1. IsDoc(saved[c]) /\ IsSeq(saved[c].pending)
      BY DEF Core, ClientOK, CursorsUpTo, Honesty, Informed
    <2>2. \A u, h, o : EnqueueOps(saved[c], u, h, o).cursor = saved[c].cursor
      BY <2>1, KeepCursor
    <2>3. \A u, h, o : /\ EnqueueOps(saved[c], u, h, o).auth = saved[c].auth
                       /\ IsSeq(EnqueueOps(saved[c], u, h, o).pending)
      BY <2>1, KeepRows
    <2> QED BY <2>2, <2>3
  <1>4. up[c] = << >> /\ down[c] = << >> /\ srv[c] = "new" /\ Honest(rows, gcFloor, saved[c].auth, saved[c].cursor)
    BY <1>2 DEF Core, ClientOK, Offline, Honesty, Informed, Served
  <1>5. Believes(rows, gcFloor, e.auth, e.cursor, << >>)
    BY <1>3, <1>4, NoTrail
  <1> HIDE DEF e
  <1>6. /\ doc'[c] = e /\ saved'[c] = e /\ conn'[c] = "down"
        /\ \A k \in Clients : k # c => /\ doc'[k] = doc[k] /\ saved'[k] = saved[k]
                                       /\ conn'[k] = conn[k]
    BY <1>2 DEF Core, Functions
  <1>7. IsSeq(<< >>) /\ Len(<< >>) = 0
    BY DEF IsSeq
  <1>8. Informed(c)'
    BY <1>2, <1>3, <1>4, <1>5, <1>6, <1>7 DEF Informed, Served, Greeting
  <1> QED BY <1>2, <1>6, <1>8, ElsewhereHonest

(* A dead socket takes its frames along. *)
LEMMA CutHonest ==
    ASSUME Core, Honesty, NEW c \in Clients, NEW e, NEW v, Cut(c),
           doc' = [doc EXCEPT ![c] = e], IsSeq(e.pending), Honest(rows, gcFloor, e.auth, e.cursor),
           conn' = [conn EXCEPT ![c] = v], UNCHANGED <<rows, seq, gcFloor, saved>>
    PROVE  Honesty'
  <1>1. /\ doc'[c] = e /\ conn'[c] = v /\ up'[c] = << >> /\ down'[c] = << >> /\ srv'[c] = "new"
        /\ \A k \in Clients : k # c => /\ doc'[k] = doc[k] /\ conn'[k] = conn[k]
                                       /\ srv'[k] = srv[k] /\ up'[k] = up[k] /\ down'[k] = down[k]
    BY DEF Core, Functions, Cut
  <1>2. Believes(rows, gcFloor, e.auth, e.cursor, << >>)
    BY NoTrail
  <1>3. IsSeq(<< >>) /\ Len(<< >>) = 0
    BY DEF IsSeq
  <1>4. Informed(c)'
    BY <1>1, <1>2, <1>3 DEF Honesty, Informed, Served, Greeting
  <1> QED BY <1>1, <1>4, ElsewhereHonest

LEMMA CrashHonest == ASSUME Core, Honesty, NEW c \in Clients, Crash(c) PROVE Honesty'
  <1>1. IsSeq(saved[c].pending) /\ Honest(rows, gcFloor, saved[c].auth, saved[c].cursor)
    BY DEF Honesty, Informed
  <1> QED BY <1>1, CutHonest DEF Crash, room

LEMMA DisconnectHonest == ASSUME Core, Honesty, NEW c \in Clients, Disconnect(c) PROVE Honesty'
  <1> DEFINE e == MarkDisconnected(doc[c])
  <1>1. e.auth = doc[c].auth /\ e.cursor = doc[c].cursor /\ IsSeq(e.pending)
    BY KeepRows, KeepCursor DEF Core, ClientOK, CursorsUpTo, Honesty, Informed
  <1>2. Honest(rows, gcFloor, e.auth, e.cursor)
    BY <1>1, TrailNow DEF Honesty, Informed
  <1> QED BY <1>1, <1>2, CutHonest DEF Disconnect, room

(* A hello carries the cursor of its device, and a device has one socket. *)
LEMMA DialHonest == ASSUME Core, Honesty, NEW c \in Clients, Dial(c) PROVE Honesty'
  <1> DEFINE h == Hello(doc[c].cursor)
  <1>1. /\ conn[c] = "down" /\ conn' = [conn EXCEPT ![c] = "hello"]
        /\ up' = [up EXCEPT ![c] = <<h>>]
        /\ UNCHANGED <<rows, seq, gcFloor, srv, doc, saved, down>>
    BY DEF Dial, room
  <1>2. h.cursor = doc[c].cursor
    BY DEF Hello
  <1> HIDE DEF h
  <1>3. /\ conn'[c] = "hello" /\ up'[c] = <<h>>
        /\ \A k \in Clients : k # c => conn'[k] = conn[k] /\ up'[k] = up[k]
    BY <1>1 DEF Core, Functions
  <1>4. srv[c] = "new"
    BY <1>1 DEF Core, ClientOK, Offline, Honesty, Informed, Served
  <1>5. <<h>> \in Seq({h}) /\ Len(<<h>>) = 1 /\ <<h>>[1] = h /\ \A k \in 1..1 : k = 1
    OBVIOUS
  <1>6. IsSeq(<<h>>)
    BY <1>5 DEF IsSeq
  <1>7. Greeting(c)'
    BY <1>1, <1>2, <1>3, <1>4, <1>5, <1>6 DEF Greeting
  <1>8. Informed(c)'
    BY <1>1, <1>3, <1>7 DEF Honesty, Informed, Served
  <1> QED BY <1>1, <1>3, <1>8, ElsewhereHonest

\* A socket whose hello the room has read.
NoHello(s) == IsSeq(s) /\ \A k \in 1..Len(s) : s[k].t # "hello"

LEMMA MorePushes ==
    ASSUME NEW s, NoHello(s), NEW d, IsSeq(d.pending)
    PROVE  NoHello(s \o Pushes(d))
  <1> DEFINE u == Pushes(d)
  <1>1. IsSeq(u) /\ \A k \in 1..Len(u) : u[k].t # "hello"
    BY OnlyPushes
  <1> HIDE DEF u
  <1>2. PICK F : s \in Seq(F)
    BY DEF NoHello, IsSeq
  <1>3. PICK G : u \in Seq(G)
    BY <1>1 DEF IsSeq
  <1>4. s \in Seq(F \cup G) /\ u \in Seq(F \cup G)
    BY <1>2, <1>3
  <1>5. /\ s \o u \in Seq(F \cup G)
        /\ Len(s) \in Nat /\ Len(u) \in Nat /\ Len(s \o u) = Len(s) + Len(u)
        /\ \A k \in 1..Len(s) + Len(u) :
               (s \o u)[k] = IF k <= Len(s) THEN s[k] ELSE u[k - Len(s)]
    BY <1>4
  <1>6. \A k \in 1..Len(s) + Len(u) :
            \/ k \in 1..Len(s) /\ (s \o u)[k] = s[k]
            \/ k - Len(s) \in 1..Len(u) /\ (s \o u)[k] = u[k - Len(s)]
    BY <1>5
  <1>7. NoHello(s \o u)
    BY <1>1, <1>5, <1>6 DEF NoHello, IsSeq
  <1> QED BY <1>7 DEF u

LEMMA Greeted ==
    ASSUME Honesty, NEW c \in Clients, conn[c] # "hello" \/ srv[c] # "new"
    PROVE  NoHello(up[c])
  BY DEF Honesty, Informed, Greeting, NoHello

(* A device reads a frame it expects: the next prefix of its trail. *)
LEMMA ReadHonest ==
    ASSUME Core, Honesty, NEW c \in Clients, down[c] # << >>, down'[c] = Tail(down[c]),
           doc'[c].auth = After(doc[c].auth, Head(down[c])),
           doc'[c].cursor = Head(down[c]).seq, IsSeq(doc'[c].pending), NoHello(up'[c]),
           UNCHANGED <<rows, seq, gcFloor, srv, saved>>,
           \A k \in Clients : k # c => /\ doc'[k] = doc[k] /\ conn'[k] = conn[k]
                                       /\ up'[k] = up[k] /\ down'[k] = down[k]
    PROVE  Honesty'
  <1>1. Believes(rows, gcFloor, doc[c].auth, doc[c].cursor, down[c]) /\ srv[c] = "ready"
        /\ Latest(doc[c].cursor, down[c]) = seq
    BY DEF Honesty, Informed, Served
  <1>2. /\ Believes(rows, gcFloor, doc'[c].auth, doc'[c].cursor, down'[c])
        /\ Latest(doc'[c].cursor, down'[c]) = seq
    BY <1>1, TrailTail
  <1>3. Informed(c)'
    BY <1>1, <1>2 DEF Honesty, Informed, Served, Greeting, NoHello
  <1> QED BY <1>3, ElsewhereHonest

(* The first frame of a queue is never behind the replica. *)
LEMMA HeadAhead ==
    ASSUME Core, Honesty, NEW c \in Clients, down[c] # << >>
    PROVE  /\ Head(down[c]).seq \in Nat /\ Head(down[c]).seq >= doc[c].cursor
           /\ IsDoc(doc[c]) /\ IsSeq(doc[c].pending) /\ srv[c] = "ready"
  <1>1. Believes(rows, gcFloor, doc[c].auth, doc[c].cursor, down[c]) /\ srv[c] = "ready"
    BY DEF Honesty, Informed, Served
  <1>2. Head(down[c]).seq \in Nat /\ IsDoc(doc[c]) /\ doc[c].cursor \in Nat
    BY HeadUpTo DEF IsDoc
  <1> QED BY <1>1, <1>2, TrailTail DEF Honesty, Informed

LEMMA OnRowsHonest ==
    ASSUME Core, Honesty, NEW c \in Clients, OnRows(c) \/ OnAck(c) PROVE Honesty'
  <1> DEFINE f == Head(down[c])
  <1>1. down[c] # << >>
    BY DEF OnRows, OnAck, Frame
  <1>2. PICK e : /\ doc' = [doc EXCEPT ![c] = e]
                 /\ \/ f.t = "rows" /\ e = ApplyRows(doc[c], f)
                    \/ f.t = "ack" /\ e = AckBatch(doc[c], f)
    BY DEF OnRows, OnAck, Frame
  <1>3. e.auth = After(doc[c].auth, f) /\ e.cursor = f.seq /\ IsSeq(e.pending)
    BY <1>1, <1>2, HeadAhead, ReadFrame
  <1>4. /\ down' = [down EXCEPT ![c] = Tail(down[c])]
        /\ UNCHANGED <<rows, seq, gcFloor, srv, saved, conn, up>>
    BY DEF OnRows, OnAck, room
  <1>5. /\ doc'[c] = e /\ down'[c] = Tail(down[c])
        /\ \A k \in Clients : k # c => doc'[k] = doc[k] /\ down'[k] = down[k]
    BY <1>2, <1>4 DEF Core, Functions
  <1>6. NoHello(up'[c])
    <2>1. NoHello(up[c])
      BY <1>1, HeadAhead, Greeted
    <2> QED BY <1>4, <2>1
  <1> QED BY <1>1, <1>3, <1>4, <1>5, <1>6, ReadHonest

LEMMA OnStateHonest == ASSUME Core, Honesty, NEW c \in Clients, OnState(c) PROVE Honesty'
  <1> DEFINE f == Head(down[c])
  <1>1. down[c] # << >> /\ f.t = "state"
    BY DEF OnState, Frame
  <1>2. PICK t : LET d == ApplyState(doc[c], f, t, Hlc(c, t))
                 IN  /\ doc' = [doc EXCEPT ![c] = TakePushable(d)]
                     /\ up' = [up EXCEPT ![c] = @ \o Pushes(d)]
    BY DEF OnState
  <1> DEFINE d == ApplyState(doc[c], f, t, Hlc(c, t))
  <1>3. d.auth = After(doc[c].auth, f) /\ d.cursor = f.seq /\ IsSeq(d.pending) /\ IsDoc(d)
    <2>1. IsDoc(d)
      BY <1>1, HeadUpTo, RaiseCursor
    <2> QED BY <1>1, <2>1, HeadAhead, ReadFrame
  <1>4. /\ doc' = [doc EXCEPT ![c] = TakePushable(d)] /\ up' = [up EXCEPT ![c] = up[c] \o Pushes(d)]
    BY <1>2
  <1> HIDE DEF d
  <1>5. /\ TakePushable(d).auth = d.auth /\ TakePushable(d).cursor = d.cursor
        /\ IsSeq(TakePushable(d).pending)
    BY <1>3, KeepRows, KeepCursor
  <1>6. /\ down' = [down EXCEPT ![c] = Tail(down[c])]
        /\ conn' = [conn EXCEPT ![c] = "joined"]
        /\ UNCHANGED <<rows, seq, gcFloor, srv, saved>>
    BY DEF OnState, room
  <1>7. /\ doc'[c] = TakePushable(d) /\ down'[c] = Tail(down[c]) /\ up'[c] = up[c] \o Pushes(d)
        /\ \A k \in Clients : k # c => /\ doc'[k] = doc[k] /\ conn'[k] = conn[k]
                                       /\ up'[k] = up[k] /\ down'[k] = down[k]
    BY <1>4, <1>6 DEF Core, Functions
  <1>8. NoHello(up'[c])
    <2>1. NoHello(up[c])
      BY <1>1, HeadAhead, Greeted
    <2> QED BY <1>3, <1>7, <2>1, MorePushes
  <1>9. doc'[c].auth = After(doc[c].auth, f) /\ doc'[c].cursor = f.seq /\ IsSeq(doc'[c].pending)
    BY <1>3, <1>5, <1>7
  <1> QED BY <1>1, <1>6, <1>7, <1>8, <1>9, ReadHonest

LEMMA PushPendingHonest ==
    ASSUME Core, Honesty, NEW c \in Clients, PushPending(c) PROVE Honesty'
  <1> DEFINE e == TakePushable(doc[c])
  <1>1. /\ conn[c] = "joined" /\ doc' = [doc EXCEPT ![c] = e]
        /\ up' = [up EXCEPT ![c] = up[c] \o Pushes(doc[c])]
        /\ UNCHANGED <<rows, seq, gcFloor, srv, saved, conn, down>>
    BY DEF PushPending, room
  <1>2. e.auth = doc[c].auth /\ e.cursor = doc[c].cursor /\ IsSeq(e.pending) /\ IsSeq(doc[c].pending)
    BY KeepRows, KeepCursor DEF Core, ClientOK, CursorsUpTo, Honesty, Informed
  <1> HIDE DEF e
  <1>3. /\ doc'[c] = e /\ up'[c] = up[c] \o Pushes(doc[c])
        /\ \A k \in Clients : k # c => doc'[k] = doc[k] /\ up'[k] = up[k]
    BY <1>1 DEF Core, Functions
  <1>4. NoHello(up[c])
    BY <1>1, Greeted
  <1>5. NoHello(up'[c])
    BY <1>2, <1>3, <1>4, MorePushes
  <1>6. Informed(c)'
    BY <1>1, <1>2, <1>3, <1>5 DEF Honesty, Informed, Served, Greeting, NoHello
  <1> QED BY <1>1, <1>3, <1>6, ElsewhereHonest

(* The room answers the hello of a socket, the first thing it sends on it. *)
LEMMA HelloFrameHonest == ASSUME Core, Honesty, NEW c \in Clients, HandleHello(c) PROVE Honesty'
  <1> DEFINE cursor == Head(up[c]).cursor
             full   == NeedsFull(cursor)
             f == StateFrame(seq, full, gcFloor, rows, RowsSince(IF full THEN 0 ELSE cursor))
  <1>1. down' = [down EXCEPT ![c] = Append(down[c], f)]
    BY DEF HandleHello
  <1>2. /\ up[c] # << >> /\ Head(up[c]).t = "hello" /\ up' = [up EXCEPT ![c] = Tail(@)]
        /\ srv' = [srv EXCEPT ![c] = "ready"]
        /\ UNCHANGED <<rows, seq, gcFloor, doc, saved, conn>>
    BY DEF HandleHello, Arrived, room
  <1>3. PICK F : up[c] \in Seq(F)
    BY DEF Honesty, Informed, Greeting, IsSeq
  <1>4. /\ Head(up[c]) = up[c][1] /\ 1 \in 1..Len(up[c]) /\ Tail(up[c]) \in Seq(F)
        /\ \A k \in 1..Len(Tail(up[c])) :
              Tail(up[c])[k] = up[c][k + 1] /\ k + 1 \in 1..Len(up[c]) /\ k + 1 # 1
    BY <1>2, <1>3
  <1>5. /\ srv[c] = "new" /\ cursor = doc[c].cursor /\ down[c] = << >>
        /\ NoHello(Tail(up[c]))
    BY <1>2, <1>4 DEF Honesty, Informed, Greeting, Served, NoHello, IsSeq
  <1>6. /\ Table /\ seq \in Nat /\ doc[c].cursor \in Nat /\ doc[c].cursor <= seq
        /\ Believes(rows, gcFloor, doc[c].auth, doc[c].cursor, << >>)
    BY <1>5 DEF Core, ClientOK, CursorsUpTo, IsDoc, Honesty, Informed
  <1>7. f.seq = seq
    BY DEF StateFrame
  <1>8. ASSUME NEW x, Honest(rows, gcFloor, x, doc[c].cursor)
        PROVE  Honest(rows, gcFloor, After(x, f), f.seq)
    <2> HIDE DEF f
    <2>1. f = StateFrame(seq, full, gcFloor, rows, RowsSince(IF full THEN 0 ELSE cursor))
      BY DEF f
    <2> HIDE DEF full, cursor
    <2>2. full = NeedsFull(doc[c].cursor) /\ cursor = doc[c].cursor
      BY <1>5 DEF full
    <2> QED BY <1>6, <1>8, <2>1, <2>2, HelloHonest
  <1> HIDE DEF f, full, cursor
  <1>9. Latest(doc[c].cursor, << >>) = doc[c].cursor
    <2>1. Len(<< >>) = 0
      OBVIOUS
    <2> QED BY <2>1 DEF Latest, Seen
  <1>10. /\ Believes(rows, gcFloor, doc[c].auth, doc[c].cursor, Append(<< >>, f))
         /\ Latest(doc[c].cursor, Append(<< >>, f)) = seq
    <2> DEFINE n == doc[c].cursor
               a == doc[c].auth
               s == << >>
    <2>1. Believes(rows, gcFloor, a, n, s) /\ Latest(n, s) = n /\ n <= f.seq
      BY <1>6, <1>7, <1>9
    <2>2. \A x : Honest(rows, gcFloor, x, n) => Honest(rows, gcFloor, After(x, f), f.seq)
      BY <1>8
    <2> HIDE DEF n, a, s
    <2>3. \A x : Honest(rows, gcFloor, x, Latest(n, s)) => Honest(rows, gcFloor, After(x, f), f.seq)
      BY <2>1, <2>2
    <2>4. Believes(rows, gcFloor, a, n, Append(s, f)) /\ Latest(n, Append(s, f)) = f.seq
      BY <2>1, <2>3, TrailAppend
    <2> QED BY <1>7, <2>4 DEF n, a, s
  <1>11. /\ down'[c] = Append(<< >>, f) /\ up'[c] = Tail(up[c]) /\ srv'[c] = "ready"
         /\ \A k \in Clients : k # c => srv'[k] = srv[k] /\ up'[k] = up[k] /\ down'[k] = down[k]
    BY <1>1, <1>2, <1>5 DEF Core, Functions
  <1>12. Informed(c)'
    <2>1. Greeting(c)'
      BY <1>5, <1>11 DEF Greeting, NoHello
    <2>2. /\ Believes(rows, gcFloor, doc[c].auth, doc[c].cursor, down[c])' /\ Served(c)'
      BY <1>2, <1>10, <1>11 DEF Served
    <2> QED BY <1>2, <2>1, <2>2 DEF Honesty, Informed
  <1> QED BY <1>2, <1>11, <1>12, ElsewhereHonest

LEMMA FramesInOrder ==
    ASSUME NEW s, IsSeq(s), NEW r, NEW a
    PROVE  /\ s \o (<< >> \o << >>) = s
           /\ s \o (<< >> \o <<a>>) = Append(s, a)
           /\ s \o (<<r>> \o << >>) = Append(s, r)
           /\ s \o (<<r>> \o <<a>>) = Append(Append(s, r), a)
  <1>1. PICK F : s \in Seq(F)
    BY DEF IsSeq
  <1>2. s \in Seq(F \cup {r, a})
    BY <1>1
  <1> DEFINE S == F \cup {r, a}
  <1>3. s \in Seq(S) /\ <<r>> \in Seq(S) /\ <<a>> \in Seq(S) /\ << >> \in Seq(S) /\ r \in S /\ a \in S
    BY <1>2
  <1> HIDE DEF S
  <1>4. s \o << >> = s /\ << >> \o << >> = << >> /\ << >> \o <<a>> = <<a>> /\ <<r>> \o << >> = <<r>>
    BY <1>3, ConcatEmptySeq
  <1>5. s \o <<a>> = Append(s, a) /\ s \o <<r>> = Append(s, r) /\ Append(s, r) \in Seq(S)
    BY <1>3, AppendIsConcat
  <1>6. Append(s, r) \o <<a>> = Append(Append(s, r), a)
    BY <1>3, <1>5, AppendIsConcat
  <1>7. s \o (<<r>> \o <<a>>) = (s \o <<r>>) \o <<a>>
    BY <1>3, ConcatAssociative
  <1> QED BY <1>4, <1>5, <1>6, <1>7

(* What a push sends to a device keeps it honest and up to date. *)
LEMMA AnsweredHonest ==
    ASSUME Core, Honesty, NEW b, NEW acked, ApplyPush(b, acked), UNCHANGED gcFloor,
           NEW k \in Clients, k \in acked => srv[k] = "ready"
    PROVE  /\ Believes(rows', gcFloor', doc[k].auth, doc[k].cursor, down'[k])
           /\ srv[k] = "ready" => Latest(doc[k].cursor, down'[k]) = seq'
           /\ srv[k] # "ready" => down'[k] = << >>
  <1> DEFINE a == doc[k].auth
             n == doc[k].cursor
             s == down[k]
             r == RowsFrame(AnsweredSeq(b), Merged(b), Touched(b))
             q == Ack(b.id, AnsweredSeq(b))
  <1>1. /\ Table /\ seq \in Nat /\ n \in Nat /\ n <= seq /\ FramesUpTo(s, seq) /\ IsSeq(s)
        /\ Believes(rows, gcFloor, a, n, s)
    BY DEF Core, ClientOK, CursorsUpTo, IsDoc, Honesty, Informed, FramesUpTo
  <1>2. /\ rows' = Merged(b) /\ seq' = AnsweredSeq(b) /\ gcFloor' = gcFloor
        /\ seq' = IF Touched(b) = {} THEN seq ELSE seq + 1
        /\ down'[k] = s \o (Broadcast(k, b) \o Acked(k, b, acked))
    BY DEF ApplyPush, AnsweredSeq, Answers
  <1>3. \A x : \A m \in 0..seq : Honest(rows, gcFloor, x, m) => Honest(rows', gcFloor', x, m)
    BY <1>1, <1>2, PushHonest
  <1>4. Believes(rows', gcFloor', a, n, s)
    BY <1>1, <1>3, TrailKept
  <1>5. /\ Broadcast(k, b) = IF Touched(b) # {} /\ srv[k] = "ready" THEN <<r>> ELSE << >>
        /\ Acked(k, b, acked) = IF k \in acked THEN <<q>> ELSE << >>
    BY DEF Broadcast, Acked
  <1>6. r.seq = seq' /\ q.seq = seq' /\ q.t = "ack" /\ r.t = "rows"
    BY <1>2 DEF RowsFrame, Ack
  <1>7. \A x, m : After(x, q) = x
    BY <1>6 DEF After
  <1>8. srv[k] = "ready" => Latest(n, s) = seq
    BY DEF Honesty, Informed, Served
  <1>9. srv[k] # "ready" => s = << >>
    BY DEF Honesty, Informed, Served
  <1>10. seq' \in Nat /\ seq <= seq'
    BY <1>1, <1>2
  \* after the broadcast the device has seen everything
  <1>11. ASSUME srv[k] = "ready", Touched(b) # {}
         PROVE  /\ Believes(rows', gcFloor', a, n, Append(s, r))
                /\ Latest(n, Append(s, r)) = seq' /\ IsSeq(Append(s, r))
    <2>1. ASSUME NEW x, Honest(rows', gcFloor', x, Latest(n, s))
          PROVE  Honest(rows', gcFloor', After(x, r), r.seq)
      <3> HIDE DEF r
      <3>1. r = RowsFrame(AnsweredSeq(b), Merged(b), Touched(b))
        BY DEF r
      <3>2. Honest(rows', gcFloor, x, seq)
        BY <1>2, <1>8, <1>11, <2>1
      <3>3. \A m : Honest(rows', gcFloor, After(x, r), m)
        BY <1>1, <1>2, <1>11, <3>1, <3>2, BroadcastHonest
      <3> QED BY <1>2, <3>3
    <2> HIDE DEF r, a, n, s
    <2>2. Latest(n, s) <= r.seq
      BY <1>6, <1>8, <1>10, <1>11
    <2>3. Believes(rows', gcFloor', a, n, Append(s, r)) /\ Latest(n, Append(s, r)) = r.seq
      BY <1>4, <2>1, <2>2, TrailAppend
    <2> QED BY <1>6, <2>3 DEF Believes
  <1>12. ASSUME NEW t, Believes(rows', gcFloor', a, n, t), Latest(n, t) = seq'
         PROVE  Believes(rows', gcFloor', a, n, Append(t, q)) /\ Latest(n, Append(t, q)) = seq'
    <2> HIDE DEF q, a, n
    <2>1. \A x : Honest(rows', gcFloor', x, Latest(n, t)) => Honest(rows', gcFloor', After(x, q), q.seq)
      BY <1>6, <1>7, <1>12
    <2>2. Latest(n, t) <= q.seq
      BY <1>6, <1>10, <1>12
    <2>3. Believes(rows', gcFloor', a, n, Append(t, q)) /\ Latest(n, Append(t, q)) = q.seq
      BY <1>12, <2>1, <2>2, TrailAppend
    <2> QED BY <1>6, <2>3
  <1>13. \/ down'[k] = s /\ k \notin acked /\ (srv[k] # "ready" \/ Touched(b) = {})
         \/ down'[k] = Append(s, q) /\ k \in acked /\ Touched(b) = {}
         \/ down'[k] = Append(s, r) /\ srv[k] = "ready" /\ Touched(b) # {}
         \/ down'[k] = Append(Append(s, r), q) /\ srv[k] = "ready" /\ Touched(b) # {}
    <2>1. /\ s \o (<< >> \o << >>) = s
          /\ s \o (<< >> \o <<q>>) = Append(s, q)
          /\ s \o (<<r>> \o << >>) = Append(s, r)
          /\ s \o (<<r>> \o <<q>>) = Append(Append(s, r), q)
      BY <1>1, FramesInOrder
    <2> HIDE DEF r, q, s
    <2> QED BY <1>2, <1>5, <2>1
  <1> HIDE DEF a, n, s, r, q
  <1>14. CASE down'[k] = s /\ k \notin acked /\ (srv[k] # "ready" \/ Touched(b) = {})
    BY <1>2, <1>4, <1>8, <1>9, <1>14 DEF a, n
  <1>15. CASE down'[k] = Append(s, q) /\ k \in acked /\ Touched(b) = {}
    <2>1. Latest(n, s) = seq' /\ srv[k] = "ready"
      BY <1>2, <1>8, <1>15
    <2> QED BY <1>4, <1>12, <1>15, <2>1 DEF a, n
  <1>16. CASE down'[k] = Append(s, r) /\ srv[k] = "ready" /\ Touched(b) # {}
    BY <1>11, <1>16 DEF a, n
  <1>17. CASE down'[k] = Append(Append(s, r), q) /\ srv[k] = "ready" /\ Touched(b) # {}
    BY <1>11, <1>12, <1>17 DEF a, n
  <1> QED BY <1>13, <1>14, <1>15, <1>16, <1>17

LEMMA SavedUpTo == ASSUME Core, NEW k \in Clients PROVE saved[k].cursor \in 0..seq
  <1>1. saved[k].cursor \in Nat /\ saved[k].cursor <= seq /\ seq \in Nat
    BY DEF Core, ClientOK, CursorsUpTo, IsDoc
  <1> QED BY <1>1

(* A push reaches every device, whoever sent it. *)
LEMMA PushAnswered ==
    ASSUME Core, Honesty, NEW b, NEW acked, ApplyPush(b, acked), UNCHANGED <<gcFloor, srv, doc, saved, conn>>,
           \A k \in Clients : k \in acked => srv[k] = "ready",
           \A k \in Clients : Greeting(k)'
    PROVE  Honesty'
  <1>1. Table' /\ \A x : \A m \in 0..seq : Honest(rows, gcFloor, x, m) => Honest(rows', gcFloor', x, m)
    BY PushHonest DEF Core, Honesty, ApplyPush
  <1>2. ASSUME NEW k \in Clients PROVE Informed(k)'
    <2>1. /\ Believes(rows', gcFloor', doc[k].auth, doc[k].cursor, down'[k])
          /\ srv[k] = "ready" => Latest(doc[k].cursor, down'[k]) = seq'
          /\ srv[k] # "ready" => down'[k] = << >>
      BY AnsweredHonest
    <2>2. Believes(rows, gcFloor, doc[k].auth, doc[k].cursor, down[k])'
      BY <2>1
    <2>3. Served(k)'
      BY <2>1 DEF Honesty, Informed, Served
    <2>4. Honest(rows, gcFloor, saved[k].auth, saved[k].cursor)'
      <3>1. saved[k].cursor \in 0..seq /\ Honest(rows, gcFloor, saved[k].auth, saved[k].cursor)
        BY SavedUpTo DEF Honesty, Informed
      <3>2. Honest(rows', gcFloor', saved[k].auth, saved[k].cursor)
        BY <1>1, <3>1
      <3> QED BY <3>2
    <2>5. IsSeq(doc[k].pending)' /\ IsSeq(saved[k].pending)'
      BY DEF Honesty, Informed
    <2> QED BY <2>2, <2>3, <2>4, <2>5 DEF Informed
  <1> QED BY <1>1, <1>2 DEF Honesty

LEMMA PushStepHonest ==
    ASSUME Core, Honesty, NEW c \in Clients, HandlePush(c) \/ HandleStray(c) PROVE Honesty'
  <1>1. CASE HandlePush(c)
    <2>1. /\ srv[c] = "ready" /\ up[c] # << >> /\ up' = [up EXCEPT ![c] = Tail(@)]
          /\ ApplyPush(Head(up[c]).batch, {c})
          /\ UNCHANGED <<gcFloor, srv, doc, saved, conn>>
      BY <1>1 DEF HandlePush, Arrived
    <2>2. up'[c] = Tail(up[c]) /\ \A k \in Clients : k # c => up'[k] = up[k]
      BY <2>1 DEF Core, Functions
    <2>3. Greeting(c)'
      <3>1. NoHello(up[c])
        BY <2>1, Greeted
      <3>2. PICK F : up[c] \in Seq(F)
        BY <3>1 DEF NoHello, IsSeq
      <3>3. /\ Tail(up[c]) \in Seq(F)
            /\ \A k \in 1..Len(Tail(up[c])) : Tail(up[c])[k] = up[c][k + 1] /\ k + 1 \in 1..Len(up[c])
        BY <2>1, <3>2
      <3>4. NoHello(up'[c])
        BY <2>2, <3>1, <3>3 DEF NoHello, IsSeq
      <3> QED BY <3>4 DEF Greeting, NoHello
    <2>4. \A k \in Clients : Greeting(k)'
      BY <2>1, <2>2, <2>3 DEF Honesty, Informed, Greeting
    <2>5. \A k \in Clients : k \in {c} => srv[k] = "ready"
      BY <2>1
    <2> QED BY <2>1, <2>4, <2>5, PushAnswered
  <1>2. CASE HandleStray(c)
    <2>1. ApplyPush(Head(stray[c]).batch, {}) /\ UNCHANGED <<gcFloor, srv, doc, saved, conn, up>>
      BY <1>2 DEF HandleStray
    <2>2. \A k \in Clients : Greeting(k)'
      BY <2>1 DEF Honesty, Informed, Greeting
    <2> QED BY <2>1, <2>2, PushAnswered
  <1> QED BY <1>1, <1>2

(* The purge raises the floor past what it deletes: a cursor below it gets the
   whole table, and one at or above it has read the tombstones. *)
LEMMA AlarmHonest == ASSUME Core, Honesty, Alarm PROVE Honesty'
  <1>1. PICK S \in SUBSET Ids : Purge(S) /\ \A i \in S : rows[i].st = "dead"
    BY DEF Alarm
  <1>2. UNCHANGED <<seq, srv, doc, saved, conn, up, down>> /\ seq \in Nat
    BY DEF Alarm, Core
  <1>3. Table' /\ \A x : \A m \in 0..seq : Honest(rows, gcFloor, x, m) => Honest(rows', gcFloor', x, m)
    BY <1>1, <1>2, PurgeHonest DEF Honesty
  <1>4. ASSUME NEW k \in Clients PROVE Informed(k)'
    <2>1. /\ doc[k].cursor \in Nat /\ doc[k].cursor <= seq /\ FramesUpTo(down[k], seq)
          /\ saved[k].cursor \in 0..seq /\ Informed(k)
      BY SavedUpTo DEF Core, ClientOK, CursorsUpTo, IsDoc, Honesty
    <2>2. Believes(rows', gcFloor', doc[k].auth, doc[k].cursor, down[k])
      BY <1>2, <1>3, <2>1, TrailKept DEF Informed
    <2>3. Honest(rows', gcFloor', saved[k].auth, saved[k].cursor)
      BY <1>3, <2>1 DEF Informed
    <2>4. Believes(rows, gcFloor, doc[k].auth, doc[k].cursor, down[k])'
      BY <1>2, <2>2
    <2>5. Honest(rows, gcFloor, saved[k].auth, saved[k].cursor)'
      BY <1>2, <2>3
    <2> QED BY <1>2, <2>1, <2>4, <2>5 DEF Informed, Served, Greeting
  <1> QED BY <1>3, <1>4 DEF Honesty

LEMMA HonestStep == ASSUME HonestInv, [Next]_vars PROVE HonestInv'
  <1>1. SyncInv'
    BY SyncStep DEF HonestInv
  <1>2. wiped' \in BOOLEAN /\ (~wiped' => ~wiped /\ ~Reset)
    BY WipedStep DEF HonestInv, SyncInv, Reset
  <1> SUFFICES ASSUME ~wiped' PROVE Honesty'
    BY <1>1 DEF HonestInv
  <1>3. Core /\ Honesty /\ ~Reset
    BY <1>2 DEF HonestInv, SyncInv
  <1>4. ASSUME NEW c \in Clients, Device(c) PROVE Honesty'
    <2>1. CASE Upsert(c) \/ Update(c) \/ Cascade(c)
      BY <1>3, <2>1, WriteHonest DEF Upsert, Update, Cascade
    <2> QED BY <1>3, <1>4, <2>1, SaveHonest, BootHonest, CrashHonest, DialHonest, DisconnectHonest,
               OnStateHonest, OnRowsHonest, PushPendingHonest DEF Device
  <1>5. ASSUME NEW c \in Clients, Room(c) PROVE Honesty'
    BY <1>3, <1>5, HelloFrameHonest, PushStepHonest DEF Room
  <1>6. Alarm => Honesty'
    BY <1>3, AlarmHonest
  <1>7. UNCHANGED vars => Honesty'
    BY <1>3 DEF vars, Honesty, Table, Informed, Served, Greeting
  <1> QED BY <1>3, <1>4, <1>5, <1>6, <1>7 DEF Next

(* A cursor is honest, in memory and on disk, for any number of devices, rows,
   writes, disconnects, crashes and purges: whatever the room holds at or below
   it the replica holds, and a row purged below it is not shown as live.  A
   delta since the cursor is then all a reconnect needs (handleHello). *)
THEOREM CursorHonestHolds == Spec => []CursorHonest
  <1>1. HonestInv => CursorHonest
    <2> SUFFICES ASSUME HonestInv, ~wiped, NEW c \in Clients PROVE HonestDoc(doc[c]) /\ HonestDoc(saved[c])
      BY DEF CursorHonest
    <2>1. Honest(rows, gcFloor, doc[c].auth, doc[c].cursor)
      BY TrailNow DEF HonestInv, Honesty, Informed
    <2>2. Honest(rows, gcFloor, saved[c].auth, saved[c].cursor)
      BY DEF HonestInv, Honesty, Informed
    <2> QED BY <2>1, <2>2 DEF HonestDoc, Honest
  <1> QED BY <1>1, HonestInit, HonestStep, PTL DEF Spec

(* Once nothing is in flight in a room nobody wiped, every device holds the
   room's table and shows no row the room lacks: a ready socket has carried
   everything up to the room's seq, so an empty queue is a cursor at it. *)
THEOREM QuietAgreeHolds == Spec => [](~wiped => QuietAgree)
  <1>1. HonestInv => (~wiped => QuietAgree)
    <2> SUFFICES ASSUME HonestInv, ~wiped, Quiet, NEW c \in Clients, NEW i \in Ids
                 PROVE  doc[c].auth[i] = rows[i] \/ (rows[i].st = "none" /\ doc[c].auth[i].st = "dead")
      BY DEF QuietAgree, Agree
    <2>1. Table /\ Informed(c) /\ seq \in Nat /\ srv[c] = "ready" /\ down[c] = << >>
      BY DEF HonestInv, SyncInv, Core, Honesty, Quiet
    <2>2. doc[c].cursor = seq
      <3>1. Len(<< >>) = 0
        OBVIOUS
      <3> QED BY <2>1, <3>1 DEF Informed, Served, Latest, Seen
    <2>3. Honest(rows, gcFloor, doc[c].auth, seq)
      BY <2>1, <2>2, TrailNow DEF Informed
    <2>4. /\ IsRow(doc[c].auth[i]) /\ IsRow(rows[i])
          /\ rows[i].st # "none" => doc[c].auth[i] = rows[i]
          /\ rows[i].st = "none" => doc[c].auth[i].st # "live"
      BY <2>1, <2>3 DEF Honest, Table
    <2> QED BY <2>4 DEF IsRow, NoRow
  <1> QED BY <1>1, HonestInit, HonestStep, PTL DEF Spec

-----------------------------------------------------------------------------
(* One row of the room and the newest delete of it the room accepted, k.    *)

RowOK(r, k) ==
    /\ r \in Rows /\ k \in Nat
    /\ r.del <= k
    /\ r.st = "none" => r.del = NoClock
    /\ r.st = "dead" => r.del # NoClock
    /\ r.st # "live" => \A f \in Fields : r.clk[f] = NoClock

\* The room holds the row or has deleted it.
Known(r, k) == r.st # "none" \/ k # NoClock

\* Absorbed, of one row.
Settled(r, k, op) ==
    \/ op.hlc <= k
    \/ op.op = "update" /\ k # NoClock
    \/ /\ op.op # "delete" /\ r.st = "live"
       /\ \A f \in op.put \cup op.cut : ~HlcNewer(ClockFor(op, f), r.clk[f])
    \/ op.op = "delete" /\ r.st = "live" /\ ~NewerThanRow(op.hlc, r)

\* An op a device may push: one the typed API mints, or a seed of a deleted row.
Proper(k, op) ==
    /\ op \in Ops
    /\ \/ op.op = "delete"
       \/ op.ovr = Unclocked /\ (op.op = "upsert" => op.put \cup op.cut # {})
       \/ op.hlc <= k

\* x is a copy of the row the room once held.
Below(x, r, k) ==
    x.st # "none" =>
        /\ x \in Rows /\ Known(r, k)
        /\ x.st = "dead" => x.del # NoClock
        /\ x.del <= k
        /\ \A f \in Fields : x.clk[f] <= k \/ (r.st = "live" /\ x.clk[f] <= r.clk[f])

\* x is a copy of a row that was deleted since.
Outlived(x, k) ==
    x.st # "none" => /\ x \in Rows /\ k # NoClock /\ (x.st = "dead" => x.del # NoClock)
                     /\ x.del <= k /\ \A f \in Fields : x.clk[f] <= k

MergedRow(r, op, n) == IF Changes(r, op) THEN [ApplyOp(r, op) EXCEPT !.seq = n] ELSE r
MergedKill(r, k, op) == IF Changes(r, op) /\ op.op = "delete" /\ op.hlc > k THEN op.hlc ELSE k

\* What a step of the room does to a row.
RowStep(r, k, s, j) ==
    \/ s = r /\ j = k
    \/ \E op \in Ops, n \in Nat : s = MergedRow(r, op, n) /\ j = MergedKill(r, k, op)
    \/ r.st = "dead" /\ s = NoRow /\ j = k

LEMMA OpFields ==
    ASSUME NEW op \in Ops
    PROVE  /\ op.op \in {"upsert", "update", "delete"} /\ op.put \subseteq Fields /\ op.cut \subseteq Fields
           /\ op.hlc \in Nat /\ op.hlc # 0
           /\ \A f \in Fields : op.ovr[f] \in Nat /\ ClockFor(op, f) \in Nat
           /\ op.ovr = Unclocked => \A f \in Fields : ClockFor(op, f) = op.hlc
  <1>1. /\ op.op \in {"upsert", "update", "delete"} /\ op.put \subseteq Fields /\ op.cut \subseteq Fields
        /\ op.hlc \in Nat /\ op.hlc # 0 /\ op.ovr \in [Fields -> Nat]
    BY DEF Ops, Clocks
  <1>2. \A f \in Fields : ClockFor(op, f) = IF op.ovr[f] = 0 THEN op.hlc ELSE op.ovr[f]
    BY DEF ClockFor, NoClock
  <1> QED BY <1>1, <1>2 DEF Unclocked, NoClock

LEMMA RowFields ==
    ASSUME NEW r \in Rows
    PROVE  /\ r.st \in {"none", "live", "dead"} /\ r.seq \in Nat /\ r.del \in Nat
           /\ \A f \in Fields : r.clk[f] \in Nat
  BY DEF Rows, Clocks

(* The row after a delete that beats it. *)
LEMMA Deleted ==
    ASSUME NEW r \in Rows, NEW op \in Ops, op.op = "delete", Changes(r, op), NEW n \in Nat
    PROVE  LET s == MergedRow(r, op, n)
           IN  /\ s \in Rows /\ s.st = "dead" /\ s.del = op.hlc
               /\ \A f \in Fields : s.clk[f] = NoClock
               /\ r.st = "dead" => op.hlc > r.del
               /\ r.st = "live" => op.hlc > r.del /\ \A f \in Fields : op.hlc > r.clk[f]
  <1> DEFINE s == MergedRow(r, op, n)
  <1>1. s = [[r EXCEPT !.st = "dead", !.del = op.hlc, !.clk = Unclocked, !.has = {}] EXCEPT !.seq = n]
    BY DEF MergedRow, ApplyOp, Tombstone
  <1>2. Unclocked \in Clocks /\ \A f \in Fields : Unclocked[f] = NoClock
    BY DEF Unclocked, Clocks, NoClock
  <1>3. op.hlc \in Nat
    BY OpFields
  <1>4. s \in Rows /\ s.st = "dead" /\ s.del = op.hlc /\ s.clk = Unclocked
    BY <1>1, <1>2, <1>3 DEF Rows
  <1>5. DeleteBeats(r, op)
    BY DEF Changes
  <1>6. /\ r.st = "dead" => op.hlc > r.del
        /\ r.st = "live" => op.hlc > r.del /\ \A f \in Fields : op.hlc > r.clk[f]
    BY <1>5 DEF DeleteBeats, HlcNewer, NewerThanRow
  <1> QED BY <1>2, <1>4, <1>6

(* The row after a write that lands on it. *)
LEMMA Landed ==
    ASSUME NEW r \in Rows, NEW op \in Ops, op.op # "delete", Changes(r, op), NEW n \in Nat
    PROVE  LET s == MergedRow(r, op, n)
           IN  /\ s \in Rows /\ s.st = "live" /\ s.del = r.del
               /\ \A f \in Fields : s.clk[f] >= r.clk[f]
               /\ \A f \in op.put \cup op.cut : s.clk[f] >= ClockFor(op, f)
               /\ r.st = "dead" => op.op = "upsert" /\ op.hlc > r.del
               /\ r.st = "none" => op.op = "upsert"
  <1> DEFINE s == MergedRow(r, op, n)
             w == Winning(r, op)
             clk == [f \in Fields |-> IF f \in w THEN ClockFor(op, f) ELSE r.clk[f]]
             has == (r.has \ w) \cup (w \cap op.put)
  <1>1. s = [[r EXCEPT !.st = "live", !.clk = clk, !.has = has] EXCEPT !.seq = n]
    BY DEF MergedRow, ApplyOp, Written
  <1>2. /\ op.put \subseteq Fields /\ op.cut \subseteq Fields /\ \A f \in Fields : ClockFor(op, f) \in Nat
        /\ \A f \in Fields : r.clk[f] \in Nat
    BY OpFields, RowFields
  <1>3. w \subseteq Fields /\ r.has \subseteq Fields
    BY <1>2 DEF Winning, Rows
  <1>4. clk \in Clocks /\ has \in SUBSET Fields
    BY <1>2, <1>3 DEF Clocks
  <1>5. \A f \in Fields : clk[f] = IF f \in w THEN ClockFor(op, f) ELSE r.clk[f]
    OBVIOUS
  <1>6. \A f \in Fields : f \in w <=> f \in op.put \cup op.cut /\ ClockFor(op, f) > r.clk[f]
    BY <1>2 DEF Winning, HlcNewer
  <1> HIDE DEF clk, has, w
  <1>7. s \in Rows /\ s.st = "live" /\ s.del = r.del /\ s.clk = clk
    BY <1>1, <1>4 DEF Rows
  <1>8. /\ \A f \in Fields : clk[f] >= r.clk[f]
        /\ \A f \in op.put \cup op.cut : clk[f] >= ClockFor(op, f)
    BY <1>2, <1>5, <1>6
  <1>9. WriteLands(r, op)
    BY DEF Changes
  <1>10. /\ r.st = "dead" => op.op = "upsert" /\ op.hlc > r.del
         /\ r.st = "none" => op.op = "upsert"
    BY <1>9 DEF WriteLands, HlcNewer
  <1> QED BY <1>7, <1>8, <1>10

(* The room's rows stay well formed, its newest delete is never older, and it
   never forgets that it knew a row. *)
LEMMA RowStepOK ==
    ASSUME NEW r, NEW k, RowOK(r, k), NEW s, NEW j, RowStep(r, k, s, j)
    PROVE  RowOK(s, j) /\ k <= j /\ (Known(r, k) => Known(s, j))
  <1>1. r \in Rows /\ k \in Nat /\ r.del \in Nat
    BY RowFields DEF RowOK
  <1>2. CASE s = r /\ j = k
    BY <1>1, <1>2
  <1>3. CASE r.st = "dead" /\ s = NoRow /\ j = k
    <2>1. NoRow \in Rows /\ NoRow.st = "none" /\ NoRow.del = 0 /\ \A f \in Fields : NoRow.clk[f] = 0
      BY DEF NoRow, Rows, Clocks, Unclocked, NoClock
    <2> QED BY <1>1, <1>3, <2>1 DEF RowOK, Known, NoClock
  <1>4. ASSUME NEW op \in Ops, NEW n \in Nat, s = MergedRow(r, op, n), j = MergedKill(r, k, op)
        PROVE  RowOK(s, j) /\ k <= j /\ (Known(r, k) => Known(s, j))
    <2>1. op.hlc \in Nat /\ op.hlc # 0
      BY OpFields
    <2>2. CASE ~Changes(r, op)
      BY <1>1, <1>4, <2>2 DEF MergedRow, MergedKill
    <2>3. CASE Changes(r, op) /\ op.op = "delete"
      <3>1. /\ s \in Rows /\ s.st = "dead" /\ s.del = op.hlc
            /\ \A f \in Fields : s.clk[f] = NoClock
        BY <1>1, <1>4, <2>3, Deleted
      <3>2. j = IF op.hlc > k THEN op.hlc ELSE k
        BY <1>4, <2>3 DEF MergedKill
      <3> QED BY <1>1, <2>1, <3>1, <3>2 DEF RowOK, Known, NoClock
    <2>4. CASE Changes(r, op) /\ op.op # "delete"
      <3>1. s \in Rows /\ s.st = "live" /\ s.del = r.del /\ j = k
        BY <1>1, <1>4, <2>4, Landed DEF MergedKill
      <3> QED BY <1>1, <3>1 DEF RowOK, Known
    <2> QED BY <2>2, <2>3, <2>4
  <1> QED BY <1>2, <1>3, <1>4 DEF RowStep

(* What the room has merged, or beaten, stays so. *)
LEMMA SettledStays ==
    ASSUME NEW r, NEW k, RowOK(r, k), NEW s, NEW j, RowStep(r, k, s, j),
           NEW o, Proper(k, o), Settled(r, k, o)
    PROVE  Settled(s, j, o)
  <1>1. /\ r \in Rows /\ k \in Nat /\ r.del \in Nat /\ \A f \in Fields : r.clk[f] \in Nat
        /\ RowOK(s, j) /\ j \in Nat /\ k <= j
    BY RowFields, RowStepOK DEF RowOK
  <1>2. /\ o \in Ops /\ o.hlc \in Nat /\ o.hlc # 0 /\ o.put \cup o.cut \subseteq Fields
        /\ o.op \in {"upsert", "update", "delete"}
        /\ \A f \in Fields : ClockFor(o, f) \in Nat
        /\ o.ovr = Unclocked => \A f \in Fields : ClockFor(o, f) = o.hlc
    BY OpFields DEF Proper
  <1>3. CASE o.hlc <= k
    BY <1>1, <1>2, <1>3 DEF Settled
  <1>4. CASE o.op = "update" /\ k # NoClock
    BY <1>1, <1>4 DEF Settled, NoClock
  <1>5. CASE /\ ~(o.hlc <= k) /\ o.op # "delete" /\ r.st = "live"
             /\ \A f \in o.put \cup o.cut : ~HlcNewer(ClockFor(o, f), r.clk[f])
    <2>1. CASE s = r /\ j = k
      BY <2>1
    <2>2. ASSUME NEW op \in Ops, NEW n \in Nat, s = MergedRow(r, op, n), j = MergedKill(r, k, op)
          PROVE  Settled(s, j, o)
      <3>1. CASE ~Changes(r, op)
        BY <2>2, <3>1 DEF MergedRow, MergedKill
      <3>2. CASE Changes(r, op) /\ op.op = "delete"
        <4>1. op.hlc \in Nat /\ op.hlc # 0 /\ \A f \in Fields : op.hlc > r.clk[f]
          BY <1>1, <1>5, <2>2, <3>2, Deleted, OpFields
        <4>2. j = IF op.hlc > k THEN op.hlc ELSE k
          BY <2>2, <3>2 DEF MergedKill
        <4>3. j >= op.hlc /\ j # 0
          BY <1>1, <4>1, <4>2
        <4>4. CASE o.op = "update"
          BY <4>3, <4>4 DEF Settled, NoClock
        <4>5. CASE o.op = "upsert"
          <5>1. o.ovr = Unclocked /\ o.put \cup o.cut # {}
            BY <1>5, <4>5 DEF Proper
          <5>2. PICK f \in o.put \cup o.cut : TRUE
            BY <5>1
          <5>3. ClockFor(o, f) = o.hlc /\ f \in Fields /\ ~(o.hlc > r.clk[f])
            BY <1>2, <1>5, <5>1, <5>2 DEF HlcNewer
          <5>4. o.hlc <= j
            BY <1>1, <1>2, <4>1, <4>3, <5>3
          <5> QED BY <5>4 DEF Settled
        <4> QED BY <1>2, <1>5, <4>4, <4>5
      <3>3. CASE Changes(r, op) /\ op.op # "delete"
        <4>1. s.st = "live" /\ s \in Rows /\ \A f \in Fields : s.clk[f] >= r.clk[f]
          BY <1>1, <2>2, <3>3, Landed
        <4>2. \A f \in Fields : s.clk[f] \in Nat
          BY <4>1, RowFields
        <4>3. \A f \in o.put \cup o.cut : ~HlcNewer(ClockFor(o, f), s.clk[f])
          BY <1>1, <1>2, <1>5, <4>1, <4>2 DEF HlcNewer
        <4> QED BY <1>5, <4>1, <4>3 DEF Settled
      <3> QED BY <3>1, <3>2, <3>3
    <2> QED BY <1>5, <2>1, <2>2 DEF RowStep
  <1>6. CASE o.op = "delete" /\ r.st = "live" /\ ~NewerThanRow(o.hlc, r)
    <2>0. o.hlc <= r.del \/ \E f \in Fields : o.hlc <= r.clk[f]
      BY <1>1, <1>2, <1>6 DEF NewerThanRow, HlcNewer
    <2>1. CASE s = r /\ j = k
      BY <2>1
    <2>2. ASSUME NEW op \in Ops, NEW n \in Nat, s = MergedRow(r, op, n), j = MergedKill(r, k, op)
          PROVE  Settled(s, j, o)
      <3>1. CASE ~Changes(r, op)
        BY <2>2, <3>1 DEF MergedRow, MergedKill
      <3>2. CASE Changes(r, op) /\ op.op = "delete"
        <4>1. op.hlc \in Nat /\ op.hlc > r.del /\ \A f \in Fields : op.hlc > r.clk[f]
          BY <1>1, <1>6, <2>2, <3>2, Deleted, OpFields
        <4>2. j = IF op.hlc > k THEN op.hlc ELSE k
          BY <2>2, <3>2 DEF MergedKill
        <4>3. o.hlc <= op.hlc
          BY <1>1, <1>2, <2>0, <4>1
        <4>4. o.hlc <= j
          BY <1>1, <1>2, <4>1, <4>2, <4>3
        <4> QED BY <4>4 DEF Settled
      <3>3. CASE Changes(r, op) /\ op.op # "delete"
        <4>1. s.st = "live" /\ s \in Rows /\ s.del = r.del /\ \A f \in Fields : s.clk[f] >= r.clk[f]
          BY <1>1, <2>2, <3>3, Landed
        <4>2. \A f \in Fields : s.clk[f] \in Nat
          BY <4>1, RowFields
        <4>3. ~NewerThanRow(o.hlc, s)
          BY <1>1, <1>2, <2>0, <4>1, <4>2 DEF NewerThanRow, HlcNewer
        <4> QED BY <1>6, <4>1, <4>3 DEF Settled
      <3> QED BY <3>1, <3>2, <3>3
    <2> QED BY <1>6, <2>1, <2>2 DEF RowStep
  <1> QED BY <1>3, <1>4, <1>5, <1>6 DEF Settled

(* An op the room merges is settled, an update only if the room knows the row. *)
LEMMA MergeSettles ==
    ASSUME NEW r, NEW k, RowOK(r, k), NEW op, Proper(k, op), NEW n \in Nat,
           op.op = "update" => Known(r, k)
    PROVE  LET s == MergedRow(r, op, n)
               j == MergedKill(r, k, op)
           IN  Settled(s, j, op) /\ (op.op # "update" => Known(s, j))
  <1> DEFINE s == MergedRow(r, op, n)
             j == MergedKill(r, k, op)
  <1>1. /\ r \in Rows /\ k \in Nat /\ r.del \in Nat /\ r.st \in {"none", "live", "dead"}
        /\ \A f \in Fields : r.clk[f] \in Nat
    BY RowFields DEF RowOK
  <1>2. /\ op \in Ops /\ op.hlc \in Nat /\ op.hlc # 0 /\ op.put \cup op.cut \subseteq Fields
        /\ op.op \in {"upsert", "update", "delete"}
        /\ \A f \in Fields : ClockFor(op, f) \in Nat
    BY OpFields DEF Proper
  <1>3. CASE op.op = "delete" /\ Changes(r, op)
    <2>1. s.st = "dead"
      BY <1>1, <1>2, <1>3, Deleted
    <2>2. j = IF op.hlc > k THEN op.hlc ELSE k
      BY <1>3 DEF MergedKill
    <2>3. op.hlc <= j
      BY <1>1, <1>2, <2>2
    <2> QED BY <2>1, <2>3 DEF Settled, Known
  <1>4. CASE op.op = "delete" /\ ~Changes(r, op)
    <2>1. s = r /\ j = k
      BY <1>4 DEF MergedRow, MergedKill
    <2>2. ~DeleteBeats(r, op)
      BY <1>4 DEF Changes
    <2>3. CASE r.st = "dead"
      <3>1. op.hlc <= k
        BY <1>1, <1>2, <2>2, <2>3 DEF DeleteBeats, HlcNewer, RowOK
      <3> QED BY <2>1, <2>3, <3>1 DEF Settled, Known
    <2>4. CASE r.st = "live"
      BY <1>4, <2>1, <2>2, <2>4 DEF DeleteBeats, Settled, Known
    <2> QED BY <1>1, <2>2, <2>3, <2>4 DEF DeleteBeats
  <1>5. CASE op.op # "delete" /\ Changes(r, op)
    <2>1. /\ s \in Rows /\ s.st = "live" /\ j = k
          /\ \A f \in op.put \cup op.cut : s.clk[f] >= ClockFor(op, f)
      BY <1>1, <1>2, <1>5, Landed DEF MergedKill
    <2>2. \A f \in Fields : s.clk[f] \in Nat
      BY <2>1, RowFields
    <2> HIDE DEF s, j
    <2>3. \A f \in op.put \cup op.cut : ~HlcNewer(ClockFor(op, f), s.clk[f])
      BY <1>2, <2>1, <2>2 DEF HlcNewer
    <2>4. Settled(s, j, op) /\ (op.op # "update" => Known(s, j))
      BY <1>5, <2>1, <2>3 DEF Settled, Known
    <2> QED BY <2>4 DEF s, j
  <1>6. CASE op.op # "delete" /\ ~Changes(r, op)
    <2>1. s = r /\ j = k
      BY <1>6 DEF MergedRow, MergedKill
    <2>2. ~WriteLands(r, op) \/ (r.st = "live" /\ Winning(r, op) = {})
      BY <1>6 DEF Changes
    <2>3. CASE r.st = "live"
      <3>1. \A f \in op.put \cup op.cut : ~HlcNewer(ClockFor(op, f), r.clk[f])
        BY <2>2, <2>3 DEF WriteLands, Winning
      <3> QED BY <1>6, <2>1, <2>3, <3>1 DEF Settled, Known
    <2>4. CASE op.op = "update" /\ r.st # "live"
      <3>1. k # NoClock
        BY <1>1, <2>4 DEF Known, RowOK, NoClock
      <3> QED BY <2>1, <2>4, <3>1 DEF Settled
    <2>5. CASE op.op = "upsert" /\ r.st # "live"
      <3>1. r.st = "dead" /\ op.hlc <= r.del
        BY <1>1, <1>2, <2>2, <2>5 DEF WriteLands, HlcNewer
      <3>2. op.hlc <= k
        BY <1>1, <1>2, <3>1 DEF RowOK
      <3> QED BY <2>1, <2>5, <3>1, <3>2 DEF Settled, Known
    <2> QED BY <1>2, <1>6, <2>3, <2>4, <2>5
  <1> QED BY <1>3, <1>4, <1>5, <1>6

LEMMA ProperStays ==
    ASSUME NEW k \in Nat, NEW j \in Nat, k <= j, NEW op, Proper(k, op)
    PROVE  Proper(j, op)
  <1>1. op.hlc \in Nat
    BY OpFields DEF Proper
  <1> QED BY <1>1 DEF Proper

LEMMA KnownOnce ==
    ASSUME NEW r, NEW k \in Nat, NEW op, Proper(k, op), Settled(r, k, op)
    PROVE  Known(r, k)
  <1>1. op.hlc \in Nat /\ op.hlc # 0
    BY OpFields DEF Proper
  <1> QED BY <1>1 DEF Settled, Known, NoClock

(* What was a copy of a row stays below what the room makes of it. *)
LEMMA BelowStays ==
    ASSUME NEW r, NEW k, RowOK(r, k), NEW s, NEW j, RowStep(r, k, s, j), NEW x, Below(x, r, k)
    PROVE  Below(x, s, j)
  <1> SUFFICES ASSUME x.st # "none" PROVE Below(x, s, j)
    BY DEF Below
  <1>1. /\ r \in Rows /\ k \in Nat /\ r.del \in Nat /\ \A f \in Fields : r.clk[f] \in Nat
        /\ RowOK(s, j) /\ j \in Nat /\ k <= j /\ s \in Rows /\ Known(s, j)
    BY RowFields, RowStepOK DEF RowOK, Below
  <1>2. /\ x \in Rows /\ x.del \in Nat /\ x.del <= k /\ \A f \in Fields : x.clk[f] \in Nat
        /\ \A f \in Fields : x.clk[f] <= k \/ (r.st = "live" /\ x.clk[f] <= r.clk[f])
    BY RowFields DEF Below
  <1>3. ASSUME NEW f \in Fields PROVE x.clk[f] <= j \/ (s.st = "live" /\ x.clk[f] <= s.clk[f])
    <2>1. CASE x.clk[f] <= k
      BY <1>1, <1>2, <2>1
    <2>2. CASE r.st = "live" /\ x.clk[f] <= r.clk[f]
      <3>1. CASE s = r /\ j = k
        BY <2>2, <3>1
      <3>2. ASSUME NEW op \in Ops, NEW n \in Nat, s = MergedRow(r, op, n), j = MergedKill(r, k, op)
            PROVE  x.clk[f] <= j \/ (s.st = "live" /\ x.clk[f] <= s.clk[f])
        <4>1. CASE ~Changes(r, op)
          BY <2>2, <3>2, <4>1 DEF MergedRow, MergedKill
        <4>2. CASE Changes(r, op) /\ op.op = "delete"
          <5>1. op.hlc \in Nat /\ op.hlc > r.clk[f]
            BY <1>1, <2>2, <3>2, <4>2, Deleted, OpFields
          <5>2. j = IF op.hlc > k THEN op.hlc ELSE k
            BY <3>2, <4>2 DEF MergedKill
          <5> QED BY <1>1, <1>2, <2>2, <5>1, <5>2
        <4>3. CASE Changes(r, op) /\ op.op # "delete"
          <5>1. s.st = "live" /\ s.clk[f] >= r.clk[f] /\ s.clk[f] \in Nat
            BY <1>1, <3>2, <4>3, Landed, RowFields
          <5> QED BY <1>1, <1>2, <2>2, <5>1
        <4> QED BY <4>1, <4>2, <4>3
      <3> QED BY <2>2, <3>1, <3>2 DEF RowStep
    <2> QED BY <1>2, <2>1, <2>2
  <1>4. x.del <= j
    BY <1>1, <1>2
  <1> QED BY <1>1, <1>2, <1>3, <1>4 DEF Below

LEMMA BelowItself == ASSUME NEW r, NEW k, RowOK(r, k) PROVE Below(r, r, k)
  <1>1. k \in Nat /\ r \in Rows /\ r.st \in {"none", "live", "dead"} /\ \A f \in Fields : r.clk[f] \in Nat
    BY RowFields DEF RowOK
  <1> QED BY <1>1 DEF Below, RowOK, Known, NoClock

LEMMA BelowGone ==
    ASSUME NEW x, NEW r, NEW k \in Nat, Below(x, r, k), r.st = "none"
    PROVE  Outlived(x, k)
  BY DEF Below, Outlived, Known

LEMMA OutlivedStays ==
    ASSUME NEW x, NEW k \in Nat, NEW j \in Nat, k <= j, Outlived(x, k)
    PROVE  Outlived(x, j)
  <1>1. x.st # "none" => x.del \in Nat /\ \A f \in Fields : x.clk[f] \in Nat
    BY RowFields DEF Outlived
  <1> QED BY <1>1 DEF Outlived, NoClock

(* The seed of a row that was deleted is beaten by that delete. *)
LEMMA SeedBeaten ==
    ASSUME NEW x, NEW k \in Nat, Outlived(x, k), x.st # "none"
    PROVE  Proper(k, SeedOp(x)) /\ SeedOp(x).hlc <= k /\ SeedOp(x).op # "update"
  <1>1. /\ x \in Rows /\ x.del \in Nat /\ x.clk \in Clocks /\ x.has \subseteq Fields
        /\ \A f \in Fields : x.clk[f] \in Nat
        /\ x.del <= k /\ k # 0 /\ (x.st = "dead" => x.del # 0) /\ \A f \in Fields : x.clk[f] <= k
    BY RowFields DEF Outlived, Rows, NoClock
  <1>2. CASE x.st = "dead"
    <2> DEFINE o == [op |-> "delete", put |-> {}, cut |-> {}, hlc |-> x.del, ovr |-> Unclocked]
    <2>1. SeedOp(x) = o
      BY <1>2 DEF SeedOp
    <2>2. Unclocked \in Clocks
      BY DEF Unclocked, Clocks, NoClock
    <2>3. o \in Ops
      BY <1>1, <1>2, <2>2 DEF Ops
    <2> QED BY <1>1, <2>1, <2>3 DEF Proper
  <1>3. CASE x.st # "dead"
    <2> DEFINE m == MaxClock(x)
               h == IF m = NoClock THEN SeedClock ELSE m
               o == [op |-> "upsert", put |-> x.has, cut |-> {}, hlc |-> h, ovr |-> x.clk]
               S == {x.del} \cup {x.clk[f] : f \in Fields}
    <2>1. SeedOp(x) = o
      BY <1>3 DEF SeedOp
    <2>2. S \in SUBSET (0..k) /\ S # {}
      BY <1>1
    <2>3. Max(S) \in S
      BY <2>2, MaxOf
    <2>4. m \in 0..k
      BY <2>2, <2>3 DEF MaxClock
    <2>5. h \in Nat /\ h # 0 /\ h <= k
      BY <1>1, <2>4 DEF NoClock, SeedClock
    <2> HIDE DEF h
    <2>6. o \in Ops
      BY <1>1, <2>5 DEF Ops
    <2> QED BY <2>1, <2>5, <2>6 DEF Proper
  <1> QED BY <1>2, <1>3

-----------------------------------------------------------------------------
(* Queues of batches. *)

\* Batches that create a row, or say something of one that must be there.
Grounds(ops, i) == ops[i].op # "update"
Loose(ops, i)   == ops[i].op = "update" /\ ops[i].put \cup ops[i].cut # {}

\* Of the first n batches of Q, the updates come after what made their rows.
Founded(T, K, n, Q) ==
    \A k \in 1..n : \A i \in Ids :
        Loose(Q[k], i) => Known(T[i], K[i]) \/ \E m \in 1..(k - 1) : Grounds(Q[m], i)

Queued(p) == [k \in 1..Len(p) |-> p[k].ops]
Pushed(s) == [k \in 1..Len(s) |-> IF s[k].t = "push" THEN s[k].batch.ops ELSE NoOps(0)]

Entered(p) ==
    /\ IsSeq(p)
    /\ \A k \in 1..Len(p) : p[k] = [id |-> p[k].id, ops |-> p[k].ops, sent |-> p[k].sent]

\* What a device may still push or account for.
Bare(b) == [id |-> b.id, ops |-> b.ops]
Mine(d, s, U, A) ==
    {Bare(b) : b \in A}
    \cup {Bare(d.pending[k]) : k \in 1..Len(d.pending)}
    \cup {Bare(s.pending[k]) : k \in 1..Len(s.pending)}
    \cup {Bare(U[k].batch) : k \in {j \in 1..Len(U) : U[j].t = "push"}}

Numbered(M, h) == \A x \in M : x.id \in Nat /\ x.id <= h
Single(M) == \A x, y \in M : x.id = y.id => x.ops = y.ops
Decent(K, ops) == \A i \in Ids : Proper(K[i], ops[i])
SettledIn(T, K, ops) == \A i \in Mentioned(ops) : Settled(T[i], K[i], ops[i])

\* Every batch of A up to h is in p, or the room has dealt with it.
Kept(T, K, A, p, h) ==
    \A b \in A : b.id <= h => (\E k \in 1..Len(p) : p[k].id = b.id) \/ SettledIn(T, K, b.ops)

\* The room has dealt with what it acks.
AcksTrue(T, K, M, D, h) ==
    \A k \in 1..Len(D) : D[k].t = "ack" =>
        /\ D[k].batch \in Nat /\ D[k].batch <= h
        /\ \A x \in M : x.id = D[k].batch => SettledIn(T, K, x.ops)

Copies(T, K, a) == \A i \in Ids : Below(a[i], T[i], K[i])
CopiesSent(T, K, D) == \A k \in 1..Len(D) : D[k].t # "ack" => Copies(T, K, D[k].rows)

\* A row a full table lacks was deleted since the device held it.
Gaps(K, a, D) ==
    \A k \in 1..Len(D) : D[k].t = "state" /\ D[k].full =>
        \A i \in Ids : D[k].rows[i].st = "none" => Outlived(a[i], K[i])

\* The rows a batch in flight makes are known, or the push is on its way.
InFlight(T, K, p, U) ==
    \A k \in 1..Len(p) : p[k].sent => \A i \in Ids : Grounds(p[k].ops, i) =>
        Known(T[i], K[i]) \/ \E m \in 1..Len(U) : U[m].t = "push" /\ Grounds(U[m].batch.ops, i)

Ledger(T, K, c, v, d, s, U, D, Z, A) ==
    LET M == Mine(d, s, U, A)
    IN  /\ d.tick \in Nat /\ s.tick \in Nat /\ s.tick <= d.tick
        /\ Entered(d.pending) /\ Entered(s.pending)
        /\ \A k \in 1..Len(s.pending) : s.pending[k].sent = FALSE
        /\ v = "off" => d = s
        /\ Numbered(M, Hlc(c, d.tick)) /\ Single(M) /\ \A x \in M : Decent(K, x.ops)
        /\ \A k \in 1..Len(s.pending) : s.pending[k].id <= Hlc(c, s.tick)
        /\ Kept(T, K, A, d.pending, Hlc(c, d.tick)) /\ Kept(T, K, A, s.pending, Hlc(c, s.tick))
        /\ AcksTrue(T, K, M, D, Hlc(c, d.tick))
        /\ Copies(T, K, d.auth) /\ Copies(T, K, s.auth) /\ CopiesSent(T, K, D)
        /\ v = "hello" => Gaps(K, d.auth, D)
        /\ Founded(T, K, Len(d.pending), Queued(d.pending))
        /\ Founded(T, K, Len(s.pending), Queued(s.pending))
        /\ Founded(T, K, Len(U), Pushed(U))
        /\ IsSeq(Z) /\ Founded(T, K, Len(Z), Pushed(Z))
        /\ \A k \in 1..Len(Z) : Z[k].t = "push" /\ Decent(K, Z[k].batch.ops)
        /\ InFlight(T, K, d.pending, U)

LedgerOf(c) == Ledger(rows, killed, c, conn[c], doc[c], saved[c], up[c], down[c], stray[c], issued[c] \ lost[c])

Ledgers ==
    /\ left \in Budget
    /\ stray = [c \in Clients |-> stray[c]]
    /\ issued = [c \in Clients |-> issued[c]] /\ lost = [c \in Clients |-> lost[c]]
    /\ killed = [i \in Ids |-> killed[i]] /\ \A i \in Ids : RowOK(rows[i], killed[i])
    /\ \A c \in Clients : LedgerOf(c)

LedgerInv == HonestInv /\ (~wiped => Ledgers)

-----------------------------------------------------------------------------
(* The places P of a queue of m, in order. *)
LEMMA NthOf ==
    ASSUME NEW m \in Nat, NEW P \in SUBSET (1..m)
    PROVE  /\ Cardinality(P) \in Nat
           /\ \A n \in 1..Cardinality(P) : Nth(P, n) \in P
           /\ \A k \in P : \E n \in 1..Cardinality(P) : Nth(P, n) = k
           /\ \A x, y \in 1..Cardinality(P) : x < y => Nth(P, x) < Nth(P, y)
  <1> DEFINE B(k) == {j \in P : j < k}
             n == Cardinality(P)
             R == [k \in P |-> Cardinality(B(k))]
  <1>1. IsFiniteSet(P) /\ n \in Nat
    <2>1. IsFiniteSet(1..m)
      BY FS_Interval
    <2> QED BY <2>1, FS_Subset, FS_CardinalityType
  <1>2. \A k \in P : k \in Nat /\ IsFiniteSet(B(k)) /\ Cardinality(B(k)) \in Nat /\ B(k) \in SUBSET P
    <2> TAKE k \in P
    <2>1. B(k) \in SUBSET P
      OBVIOUS
    <2> HIDE DEF B
    <2>2. IsFiniteSet(B(k)) /\ Cardinality(B(k)) \in Nat
      BY <1>1, <2>1, FS_Subset, FS_CardinalityType
    <2> QED BY <2>1, <2>2
  <1>3. \A k \in P : R[k] = Cardinality(B(k)) /\ R[k] \in Nat
    BY <1>2
  <1>4. ASSUME NEW k \in P, NEW l \in P, k < l PROVE R[k] < R[l]
    <2>0. m \in Nat /\ \A j \in P : j \in Nat
      OBVIOUS
    <2>1. B(k) \cup {k} \in SUBSET B(l) /\ k \notin B(k)
      <3>1. \A j \in B(k) : j \in P /\ j < l
        <4> TAKE j \in B(k)
        <4>1. j \in P /\ j < k /\ j \in Nat /\ k \in Nat /\ l \in Nat
          BY <2>0
        <4> QED BY <1>4, <4>1
      <3>2. ~(k < k)
        BY <2>0
      <3> QED BY <1>4, <3>1, <3>2
    <2> HIDE DEF B
    <2>2. IsFiniteSet(B(k) \cup {k}) /\ Cardinality(B(k) \cup {k}) = Cardinality(B(k)) + 1
      BY <1>2, <2>1, FS_AddElement
    <2>3. Cardinality(B(k) \cup {k}) <= Cardinality(B(l))
      BY <1>2, <2>1, FS_Subset
    <2> QED BY <1>2, <1>3, <2>2, <2>3
  <1>5. ASSUME NEW k \in P PROVE R[k] \in 0..n - 1
    <2>1. B(k) \cup {k} \in SUBSET P /\ k \notin B(k)
      BY <1>2
    <2> HIDE DEF B
    <2>2. IsFiniteSet(B(k) \cup {k}) /\ Cardinality(B(k) \cup {k}) = Cardinality(B(k)) + 1
      BY <1>2, <2>1, FS_AddElement
    <2>3. Cardinality(B(k) \cup {k}) <= n
      BY <1>1, <2>1, FS_Subset
    <2> QED BY <1>1, <1>2, <1>3, <2>2, <2>3
  <1>6. R = [k \in P |-> R[k]]
    OBVIOUS
  <1>7. \A k, l \in P : R[k] = R[l] => k = l
    <2> TAKE k, l \in P
    <2>1. k < l \/ l < k \/ k = l
      BY <1>2
    <2>2. k < l => R[k] < R[l]
      BY <1>4
    <2>3. l < k => R[l] < R[k]
      BY <1>4
    <2> HIDE DEF R
    <2>4. R[k] \in Nat /\ R[l] \in Nat
      BY <1>3 DEF R
    <2> QED BY <2>1, <2>2, <2>3, <2>4
  <1>8. \A x \in 1..n : Nth(P, x) = CHOOSE k \in P : R[k] = x - 1
    BY <1>3 DEF Nth
  <1>9. R \in [P -> 0..n - 1]
    BY <1>5
  <1> HIDE DEF R, B
  <1>10. \A y \in 0..n - 1 : \E k \in P : R[k] = y
    <2>1. R \in Injection(P, 0..n - 1)
      BY <1>7, <1>9 DEF Injection, IsInjective
    <2>2. IsFiniteSet(0..n - 1) /\ Cardinality(0..n - 1) = n
      <3>1. n \in Nat /\ 0 \in Int /\ n - 1 \in Int
        BY <1>1
      <3>2. IsFiniteSet(0..n - 1) /\ Cardinality(0..n - 1) = IF 0 > n - 1 THEN 0 ELSE (n - 1) - 0 + 1
        BY <3>1, FS_Interval
      <3> QED BY <3>1, <3>2
    <2>3. R \in Surjection(P, 0..n - 1)
      BY <2>1, <2>2, FS_Injection
    <2> QED BY <2>3 DEF Surjection
  <1>11. \A x \in 1..n : Nth(P, x) \in P /\ R[Nth(P, x)] = x - 1
    <2> TAKE x \in 1..n
    <2>1. \E k \in P : R[k] = x - 1
      BY <1>1, <1>10
    <2> QED BY <1>8, <2>1
  <1>12. ASSUME NEW k \in P PROVE \E x \in 1..n : Nth(P, x) = k
    <2>1. R[k] + 1 \in 1..n /\ (R[k] + 1) - 1 = R[k]
      BY <1>1, <1>5
    <2> QED BY <1>7, <1>11, <2>1
  <1>13. ASSUME NEW x \in 1..n, NEW y \in 1..n, x < y PROVE Nth(P, x) < Nth(P, y)
    <2> DEFINE k == Nth(P, x)
               l == Nth(P, y)
    <2>1. k \in P /\ l \in P /\ R[k] = x - 1 /\ R[l] = y - 1
      BY <1>11
    <2> HIDE DEF k, l
    <2>2. k < l \/ l < k \/ k = l
      BY <1>2, <2>1
    <2>3. l < k => R[l] < R[k]
      BY <1>4, <2>1
    <2> QED BY <1>1, <1>13, <2>1, <2>2, <2>3 DEF k, l
  <1> QED BY <1>1, <1>11, <1>12, <1>13

\* f: a row after each of the ops Q.
Overlaid(f, a, Q, n) == f = [k \in 0..n |-> IF k = 0 THEN a ELSE ApplyOp(f[k - 1], Q[k])]

(* The rows of a recursive overlay exist. *)
LEMMA OverlayRows == ASSUME NEW a, NEW Q, NEW n \in Nat PROVE \E f : Overlaid(f, a, Q, n)
  <1> DEFINE Has(l) == \E f : f = [k \in 0..l |-> IF k = 0 THEN a ELSE ApplyOp(f[k - 1], Q[k])]
             D == {l \in Nat : ~Has(l)}
             R == OpToRel(<, Nat)
  <1> SUFFICES ASSUME n \in D PROVE FALSE
    BY DEF Overlaid
  <1>1. PICK l \in D : \A y \in D : ~(<<y, l>> \in R)
    <2> HIDE DEF R, D
    <2>1. IsWellFoundedOn(R, Nat)
      BY NatLessThanWellFounded DEF R
    <2>2. D \subseteq Nat
      BY DEF D
    <2> QED BY <2>1, <2>2, WFMin
  <1>2. l \in Nat /\ ~Has(l) /\ \A y \in D : ~(y < l)
    BY <1>1 DEF OpToRel
  <1>3. CASE l = 0
    <2> DEFINE f == [k \in 0..0 |-> a]
    <2>1. f = [k \in 0..0 |-> IF k = 0 THEN a ELSE ApplyOp(f[k - 1], Q[k])]
      <3>1. \A k \in 0..0 : k = 0
        OBVIOUS
      <3> QED BY <3>1
    <2> QED BY <1>2, <1>3, <2>1
  <1>4. CASE l # 0
    <2>1. l - 1 \in Nat /\ l - 1 < l
      BY <1>2, <1>4
    <2>2. Has(l - 1)
      BY <1>2, <2>1
    <2>3. PICK g : g = [k \in 0..l - 1 |-> IF k = 0 THEN a ELSE ApplyOp(g[k - 1], Q[k])]
      BY <2>2
    <2> DEFINE f == [k \in 0..l |-> IF k = l THEN ApplyOp(g[l - 1], Q[l]) ELSE g[k]]
    <2>4. \A k \in 0..l : f[k] = IF k = l THEN ApplyOp(g[l - 1], Q[l]) ELSE g[k]
      OBVIOUS
    <2>5. \A k \in 0..l - 1 : g[k] = IF k = 0 THEN a ELSE ApplyOp(g[k - 1], Q[k])
      BY <2>3
    <2>6. f = [k \in 0..l |-> f[k]]
      OBVIOUS
    <2> HIDE DEF f
    <2>7. ASSUME NEW k \in 0..l PROVE f[k] = IF k = 0 THEN a ELSE ApplyOp(f[k - 1], Q[k])
      <3>1. CASE k = l
        <4>1. k # 0 /\ k - 1 \in 0..l /\ k - 1 # l
          BY <1>2, <1>4, <3>1
        <4> QED BY <2>4, <3>1, <4>1
      <3>2. CASE k # l
        <4>1. k \in 0..l - 1 /\ (k # 0 => k - 1 \in 0..l /\ k - 1 # l)
          BY <1>2, <3>2
        <4>2. f[k] = g[k] /\ (k # 0 => f[k - 1] = g[k - 1])
          BY <2>4, <3>2, <4>1
        <4> QED BY <2>5, <4>1, <4>2
      <3> QED BY <3>1, <3>2
    <2>8. f = [k \in 0..l |-> IF k = 0 THEN a ELSE ApplyOp(f[k - 1], Q[k])]
      BY <2>6, <2>7
    <2> QED BY <1>2, <2>8
  <1> QED BY <1>3, <1>4

\* A row a device shows, op by op.
LEMMA OverlayIs ==
    ASSUME NEW d, NEW i \in Ids, IsSeq(d.pending)
    PROVE  \E f : /\ Overlay(d, i) = f[Len(d.pending)] /\ f[0] = d.auth[i]
                  /\ \A k \in 1..Len(d.pending) : f[k] = ApplyOp(f[k - 1], d.pending[k].ops[i])
  <1> DEFINE n == Len(d.pending)
             a == d.auth[i]
             Q == [k \in 1..n |-> d.pending[k].ops[i]]
             Fun(f) == f = [k \in 0..n |-> IF k = 0 THEN a ELSE ApplyOp(f[k - 1], d.pending[k].ops[i])]
             row == CHOOSE f : Fun(f)
  <1>1. Overlay(d, i) = row[n]
    BY DEF Overlay
  <1>2. n \in Nat
    BY DEF IsSeq
  <1>3. \E f : Fun(f)
    <2>1. PICK f : f = [k \in 0..n |-> IF k = 0 THEN a ELSE ApplyOp(f[k - 1], Q[k])]
      <3> HIDE DEF n, a, Q
      <3>1. PICK f : Overlaid(f, a, Q, n)
        BY <1>2, OverlayRows
      <3> QED BY <3>1 DEF Overlaid
    <2>2. \A k \in 0..n : k # 0 => Q[k] = d.pending[k].ops[i]
      BY <1>2
    <2> HIDE DEF Q
    <2>3. Fun(f)
      BY <2>1, <2>2
    <2> QED BY <2>3
  <1>4. Fun(row)
    BY <1>3
  <1>5. \A k \in 0..n : row[k] = IF k = 0 THEN a ELSE ApplyOp(row[k - 1], d.pending[k].ops[i])
    BY <1>4
  <1> HIDE DEF row
  <1>6. row[0] = a
    BY <1>2, <1>5
  <1>7. \A k \in 1..n : row[k] = ApplyOp(row[k - 1], d.pending[k].ops[i])
    BY <1>2, <1>5
  <1> QED BY <1>1, <1>6, <1>7

(* A row is shown only if the device holds it or a queued batch makes it:
   an update brings nothing back (apply_op on an absent row). *)
LEMMA ShownRow ==
    ASSUME NEW d, NEW i \in Ids, IsSeq(d.pending), Overlay(d, i).st = "live", d.auth[i].st = "none"
    PROVE  \E k \in 1..Len(d.pending) : Grounds(d.pending[k].ops, i)
  <1> DEFINE n == Len(d.pending)
             a == d.auth[i]
  <1>1. n \in Nat
    BY DEF IsSeq
  <1>2. PICK row : /\ Overlay(d, i) = row[n] /\ row[0] = a
                   /\ \A k \in 1..n : row[k] = ApplyOp(row[k - 1], d.pending[k].ops[i])
    BY OverlayIs
  <1> SUFFICES ASSUME \A k \in 1..n : d.pending[k].ops[i].op = "update" PROVE FALSE
    BY DEF Grounds
  <1> DEFINE D == {k \in Nat : k \in 0..n /\ row[k].st # "none"}
             R == OpToRel(<, Nat)
  <1>3. n \in D
    BY <1>1, <1>2
  <1>4. PICK l \in D : \A y \in D : ~(<<y, l>> \in R)
    <2> HIDE DEF R
    <2>1. IsWellFoundedOn(R, Nat)
      BY NatLessThanWellFounded DEF R
    <2>2. D \subseteq Nat
      OBVIOUS
    <2> HIDE DEF D
    <2> QED BY <1>3, <2>1, <2>2, WFMin
  <1>5. l \in 0..n /\ row[l].st # "none" /\ \A y \in D : ~(y < l)
    BY <1>4 DEF OpToRel
  <1>6. l # 0
    BY <1>2, <1>5
  <1>7. l - 1 \in 0..n /\ l - 1 \in Nat /\ l - 1 < l /\ l \in 1..n
    BY <1>1, <1>5, <1>6
  <1>8. row[l - 1].st = "none"
    BY <1>5, <1>7
  <1>9. row[l] = ApplyOp(row[l - 1], d.pending[l].ops[i]) /\ d.pending[l].ops[i].op = "update"
    BY <1>2, <1>5, <1>6, <1>7
  <1> DEFINE q == row[l - 1]
             o == d.pending[l].ops[i]
  <1> HIDE DEF q, o
  <1>10. q.st = "none" /\ o.op = "update" /\ row[l] = ApplyOp(q, o)
    BY <1>8, <1>9 DEF q, o
  <1>11. ~WriteLands(q, o)
    BY <1>10 DEF WriteLands
  <1>12. ApplyOp(q, o) = q
    BY <1>10, <1>11 DEF ApplyOp, Changes
  <1> QED BY <1>5, <1>10, <1>12

-----------------------------------------------------------------------------
(* Founded queues. *)

(* Some of the batches, in order: what is left out made no row, or one the
   room knows, or comes last. *)
LEMMA FoundedPart ==
    ASSUME NEW T, NEW K, NEW n \in Nat, NEW Q, Founded(T, K, n, Q), NEW m \in Nat, NEW g, NEW O,
           \A x \in 1..m : g[x] \in 1..n /\ O[x] = Q[g[x]],
           \A x, y \in 1..m : x < y => g[x] < g[y],
           \A k \in 1..n : \/ \E x \in 1..m : g[x] = k
                           \/ \A i \in Ids : Grounds(Q[k], i) => Known(T[i], K[i])
                           \/ \A x \in 1..m : g[x] < k
    PROVE  Founded(T, K, m, O)
  <1> SUFFICES ASSUME NEW x \in 1..m, NEW i \in Ids, Loose(O[x], i), ~Known(T[i], K[i])
               PROVE  \E y \in 1..(x - 1) : Grounds(O[y], i)
    BY DEF Founded
  <1>1. g[x] \in 1..n /\ Loose(Q[g[x]], i)
    OBVIOUS
  <1>2. PICK k \in 1..(g[x] - 1) : Grounds(Q[k], i)
    BY <1>1 DEF Founded
  <1>3. k \in 1..n /\ k < g[x]
    BY <1>1
  <1>4. PICK y \in 1..m : g[y] = k
    BY <1>1, <1>2, <1>3
  <1>5. y < x \/ x < y \/ x = y
    OBVIOUS
  <1>6. x < y => g[x] < g[y]
    OBVIOUS
  <1>7. y < x
    BY <1>1, <1>3, <1>4, <1>5, <1>6
  <1>8. y \in 1..(x - 1) /\ O[y] = Q[k]
    BY <1>4, <1>7
  <1> QED BY <1>2, <1>8

(* More batches behind a queue. *)
LEMMA FoundedMore ==
    ASSUME NEW T, NEW K, NEW n \in Nat, NEW Q, Founded(T, K, n, Q), NEW m \in Nat, NEW O, NEW W,
           \A k \in 1..n : W[k] = Q[k],
           \A k \in 1..m : W[n + k] = O[k],
           \A k \in 1..m : \A i \in Ids : Loose(O[k], i) =>
               \/ Known(T[i], K[i])
               \/ \E j \in 1..(k - 1) : Grounds(O[j], i)
               \/ \E j \in 1..n : Grounds(Q[j], i)
    PROVE  Founded(T, K, n + m, W)
  <1> SUFFICES ASSUME NEW k \in 1..n + m, NEW i \in Ids, Loose(W[k], i), ~Known(T[i], K[i])
               PROVE  \E j \in 1..(k - 1) : Grounds(W[j], i)
    BY DEF Founded
  <1>1. CASE k \in 1..n
    <2>1. PICK j \in 1..(k - 1) : Grounds(Q[j], i)
      BY <1>1 DEF Founded
    <2>2. j \in 1..n
      BY <1>1
    <2> QED BY <2>1, <2>2
  <1>2. CASE k \notin 1..n
    <2>1. k - n \in 1..m /\ W[k] = O[k - n]
      <3>1. k - n \in 1..m /\ n + (k - n) = k
        BY <1>2
      <3> QED BY <3>1
    <2>2. CASE \E j \in 1..(k - n - 1) : Grounds(O[j], i)
      <3>1. PICK j \in 1..(k - n - 1) : Grounds(O[j], i)
        BY <2>2
      <3>2. j \in 1..m /\ n + j \in 1..(k - 1)
        BY <2>1
      <3> QED BY <3>1, <3>2
    <2>3. CASE \E j \in 1..n : Grounds(Q[j], i)
      <3>1. \A j \in 1..n : j \in 1..(k - 1)
        BY <1>2
      <3> QED BY <2>3, <3>1
    <2> QED BY <2>1, <2>2, <2>3
  <1> QED BY <1>1, <1>2

(* All but the first, which made no row the room does not know. *)
LEMMA FoundedRest ==
    ASSUME NEW T, NEW K, NEW n \in Nat, n # 0, NEW Q, Founded(T, K, n, Q), NEW O,
           \A k \in 1..(n - 1) : O[k] = Q[k + 1],
           \A i \in Ids : Grounds(Q[1], i) => Known(T[i], K[i])
    PROVE  Founded(T, K, n - 1, O)
  <1> SUFFICES ASSUME NEW k \in 1..(n - 1), NEW i \in Ids, Loose(O[k], i), ~Known(T[i], K[i])
               PROVE  \E j \in 1..(k - 1) : Grounds(O[j], i)
    BY DEF Founded
  <1>1. k + 1 \in 1..n /\ Loose(Q[k + 1], i)
    OBVIOUS
  <1>2. PICK j \in 1..((k + 1) - 1) : Grounds(Q[j], i)
    BY <1>1 DEF Founded
  <1>3. j # 1
    BY <1>2
  <1>4. j - 1 \in 1..(k - 1) /\ j - 1 \in 1..(n - 1) /\ (j - 1) + 1 = j
    BY <1>3
  <1> QED BY <1>2, <1>4

-----------------------------------------------------------------------------
(* What a step of the room leaves true of every device. *)

RoomStep(T, K, S, J) == \A i \in Ids : RowOK(T[i], K[i]) /\ RowStep(T[i], K[i], S[i], J[i])

LEMMA RoomKeeps ==
    ASSUME NEW T, NEW K, NEW S, NEW J, RoomStep(T, K, S, J)
    PROVE  \A i \in Ids : /\ RowOK(S[i], J[i]) /\ K[i] \in Nat /\ J[i] \in Nat /\ K[i] <= J[i]
                          /\ Known(T[i], K[i]) => Known(S[i], J[i])
  <1> TAKE i \in Ids
  <1>1. RowOK(T[i], K[i]) /\ RowStep(T[i], K[i], S[i], J[i])
    BY DEF RoomStep
  <1> QED BY <1>1, RowStepOK DEF RowOK

LEMMA DecentStays ==
    ASSUME NEW T, NEW K, NEW S, NEW J, RoomStep(T, K, S, J), NEW ops, Decent(K, ops)
    PROVE  Decent(J, ops)
  BY RoomKeeps, ProperStays DEF Decent

LEMMA SettledInStays ==
    ASSUME NEW T, NEW K, NEW S, NEW J, RoomStep(T, K, S, J), NEW ops, Decent(K, ops), SettledIn(T, K, ops)
    PROVE  SettledIn(S, J, ops)
  <1> SUFFICES ASSUME NEW i \in Mentioned(ops) PROVE Settled(S[i], J[i], ops[i])
    BY DEF SettledIn
  <1>1. i \in Ids
    BY DEF Mentioned
  <1>2. RowOK(T[i], K[i]) /\ RowStep(T[i], K[i], S[i], J[i]) /\ Proper(K[i], ops[i]) /\ Settled(T[i], K[i], ops[i])
    BY <1>1 DEF RoomStep, Decent, SettledIn
  <1> QED BY <1>2, SettledStays

LEMMA FoundedStays ==
    ASSUME NEW T, NEW K, NEW S, NEW J, RoomStep(T, K, S, J), NEW n, NEW Q, Founded(T, K, n, Q)
    PROVE  Founded(S, J, n, Q)
  BY RoomKeeps DEF Founded

LEMMA CopiesStay ==
    ASSUME NEW T, NEW K, NEW S, NEW J, RoomStep(T, K, S, J), NEW a, Copies(T, K, a)
    PROVE  Copies(S, J, a)
  <1> SUFFICES ASSUME NEW i \in Ids PROVE Below(a[i], S[i], J[i])
    BY DEF Copies
  <1>1. RowOK(T[i], K[i]) /\ RowStep(T[i], K[i], S[i], J[i]) /\ Below(a[i], T[i], K[i])
    BY DEF RoomStep, Copies
  <1> QED BY <1>1, BelowStays

LEMMA GapsStay ==
    ASSUME NEW T, NEW K, NEW S, NEW J, RoomStep(T, K, S, J), NEW a, NEW D, Gaps(K, a, D)
    PROVE  Gaps(J, a, D)
  BY RoomKeeps, OutlivedStays DEF Gaps

LEMMA LedgerStays ==
    ASSUME NEW T, NEW K, NEW S, NEW J, RoomStep(T, K, S, J),
           NEW c, NEW v, NEW d, NEW s, NEW U, NEW D, NEW Z, NEW A, Ledger(T, K, c, v, d, s, U, D, Z, A)
    PROVE  Ledger(S, J, c, v, d, s, U, D, Z, A)
  <1> DEFINE M == Mine(d, s, U, A)
  <1>1. \A x \in M : Decent(K, x.ops)
    BY DEF Ledger
  <1>2. \A x \in M : Decent(J, x.ops) /\ (SettledIn(T, K, x.ops) => SettledIn(S, J, x.ops))
    BY <1>1, DecentStays, SettledInStays
  <1>3. \A b \in A : SettledIn(T, K, b.ops) => SettledIn(S, J, b.ops)
    <2> TAKE b \in A
    <2>1. Bare(b) \in M /\ Bare(b).ops = b.ops
      BY DEF Mine, Bare
    <2> HIDE DEF M
    <2> QED BY <1>2, <2>1
  <1> HIDE DEF M
  <1>4. \A p, h : Kept(T, K, A, p, h) => Kept(S, J, A, p, h)
    BY <1>3 DEF Kept
  <1>5. \A h : AcksTrue(T, K, M, D, h) => AcksTrue(S, J, M, D, h)
    BY <1>2 DEF AcksTrue
  <1>6. \A a : Copies(T, K, a) => Copies(S, J, a)
    BY CopiesStay
  <1>7. CopiesSent(T, K, D) => CopiesSent(S, J, D)
    BY <1>6 DEF CopiesSent
  <1>8. Gaps(K, d.auth, D) => Gaps(J, d.auth, D)
    BY GapsStay
  <1>9. \A n, Q : Founded(T, K, n, Q) => Founded(S, J, n, Q)
    BY FoundedStays
  <1>10. \A ops : Decent(K, ops) => Decent(J, ops)
    BY DecentStays
  <1>11. InFlight(T, K, d.pending, U) => InFlight(S, J, d.pending, U)
    BY RoomKeeps DEF InFlight
  <1> QED BY <1>2, <1>4, <1>5, <1>6, <1>7, <1>8, <1>9, <1>10, <1>11 DEF Ledger, M

-----------------------------------------------------------------------------
(* Clocks and queues. *)

LEMMA HlcOrder ==
    ASSUME NEW c \in Clients, NEW t \in Nat, NEW u \in Nat
    PROVE  /\ Hlc(c, t) \in Nat /\ Hlc(c, t) # 0
           /\ t < u => Hlc(c, t) < Hlc(c, u)
           /\ t <= u => Hlc(c, t) <= Hlc(c, u)
  <1>1. N \in Nat /\ c \in Nat /\ c >= 1
    BY SyncAssumption DEF Clients
  <1> DEFINE w == N + 1
  <1>2. w \in Nat /\ w >= 1 /\ Hlc(c, t) = t * w + c /\ Hlc(c, u) = u * w + c
    BY <1>1 DEF Hlc
  <1> HIDE DEF w
  <1>3. t * w \in Nat /\ u * w \in Nat
    BY <1>2
  <1>4. ASSUME t < u PROVE t * w < u * w
    <2> DEFINE e == u - t
    <2>1. e \in Nat /\ e >= 1 /\ u = t + e
      BY <1>4
    <2> HIDE DEF e
    <2>2. u * w = t * w + e * w
      BY <1>2, <2>1
    <2>3. e * w >= 1 /\ e * w \in Nat
      BY <1>2, <2>1
    <2> QED BY <1>3, <2>2, <2>3
  <1>5. t <= u => t < u \/ t = u
    OBVIOUS
  <1> QED BY <1>1, <1>2, <1>3, <1>4, <1>5

LEMMA EntriesOf ==
    ASSUME NEW s, IsSeq(s), NEW P \in SUBSET (1..Len(s))
    PROVE  LET q == Entries(s, P)
           IN  /\ IsSeq(q) /\ Len(q) \in Nat
               /\ \A x \in 1..Len(q) : Nth(P, x) \in P /\ q[x] = s[Nth(P, x)]
               /\ \A k \in P : \E x \in 1..Len(q) : Nth(P, x) = k
               /\ \A x, y \in 1..Len(q) : x < y => Nth(P, x) < Nth(P, y)
  <1>1. Len(s) \in Nat /\ DOMAIN s = 1..Len(s)
    BY DEF IsSeq
  <1>2. /\ Cardinality(P) \in Nat /\ Entries(s, P) = [n \in 1..Cardinality(P) |-> s[Nth(P, n)]]
        /\ IsSeq(Entries(s, P)) /\ Len(Entries(s, P)) = Cardinality(P)
    BY <1>1, EntriesSeq
  <1>3. /\ \A n \in 1..Cardinality(P) : Nth(P, n) \in P
        /\ \A k \in P : \E n \in 1..Cardinality(P) : Nth(P, n) = k
        /\ \A x, y \in 1..Cardinality(P) : x < y => Nth(P, x) < Nth(P, y)
    BY <1>1, NthOf
  <1> DEFINE q == Entries(s, P)
  <1>4. \A x \in 1..Cardinality(P) : q[x] = s[Nth(P, x)]
    BY <1>2
  <1> HIDE DEF q
  <1> QED BY <1>2, <1>3, <1>4 DEF q

LEMMA SeqAppend ==
    ASSUME NEW s, IsSeq(s), NEW e
    PROVE  /\ IsSeq(Append(s, e)) /\ Len(s) \in Nat /\ Len(Append(s, e)) = Len(s) + 1
           /\ \A k \in 1..Len(s) : Append(s, e)[k] = s[k]
           /\ Append(s, e)[Len(s) + 1] = e
  <1>1. PICK F : s \in Seq(F)
    BY DEF IsSeq
  <1>2. s \in Seq(F \cup {e})
    BY <1>1
  <1>3. Append(s, e) \in Seq(F \cup {e})
    BY <1>2
  <1> QED BY <1>2, <1>3 DEF IsSeq

LEMMA SeqTail ==
    ASSUME NEW s, IsSeq(s), s # << >>
    PROVE  /\ IsSeq(Tail(s)) /\ Len(s) \in Nat /\ Len(s) # 0 /\ Len(Tail(s)) = Len(s) - 1
           /\ \A k \in 1..(Len(s) - 1) : Tail(s)[k] = s[k + 1]
           /\ Head(s) = s[1] /\ 1 \in 1..Len(s)
  <1>1. PICK F : s \in Seq(F)
    BY DEF IsSeq
  <1>2. Tail(s) \in Seq(F) /\ Len(s) \in Nat /\ Len(s) # 0
    BY <1>1
  <1> QED BY <1>1, <1>2 DEF IsSeq

LEMMA SeqConcat ==
    ASSUME NEW s, IsSeq(s), NEW u, IsSeq(u)
    PROVE  /\ IsSeq(s \o u) /\ Len(s) \in Nat /\ Len(u) \in Nat /\ Len(s \o u) = Len(s) + Len(u)
           /\ \A k \in 1..Len(s) : (s \o u)[k] = s[k]
           /\ \A k \in 1..Len(u) : (s \o u)[Len(s) + k] = u[k]
           /\ \A k \in 1..Len(s) + Len(u) : k \in 1..Len(s) \/ \E j \in 1..Len(u) : k = Len(s) + j
  <1>1. PICK F : s \in Seq(F)
    BY DEF IsSeq
  <1>2. PICK G : u \in Seq(G)
    BY DEF IsSeq
  <1>3. s \in Seq(F \cup G) /\ u \in Seq(F \cup G)
    BY <1>1, <1>2
  <1>4. /\ s \o u \in Seq(F \cup G)
        /\ Len(s) \in Nat /\ Len(u) \in Nat /\ Len(s \o u) = Len(s) + Len(u)
        /\ \A k \in 1..Len(s) + Len(u) :
               (s \o u)[k] = IF k <= Len(s) THEN s[k] ELSE u[k - Len(s)]
    BY <1>3
  <1>5. \A k \in 1..Len(s) : k \in 1..Len(s) + Len(u) /\ k <= Len(s)
    BY <1>4
  <1>6. \A k \in 1..Len(u) : /\ Len(s) + k \in 1..Len(s) + Len(u) /\ ~(Len(s) + k <= Len(s))
                             /\ (Len(s) + k) - Len(s) = k
    BY <1>4
  <1>7. \A k \in 1..Len(s) + Len(u) : k \in 1..Len(s) \/ \E j \in 1..Len(u) : k = Len(s) + j
    <2> TAKE k \in 1..Len(s) + Len(u)
    <2>1. k \in 1..Len(s) \/ (k - Len(s) \in 1..Len(u) /\ k = Len(s) + (k - Len(s)))
      BY <1>4
    <2> QED BY <2>1
  <1>8. IsSeq(s \o u)
    BY <1>4 DEF IsSeq
  <1>9. \A k \in 1..Len(s) : (s \o u)[k] = s[k]
    BY <1>4, <1>5
  <1>10. \A k \in 1..Len(u) : (s \o u)[Len(s) + k] = u[k]
    BY <1>4, <1>6
  <1> QED BY <1>4, <1>7, <1>8, <1>9, <1>10

\* The first m places of P are all of P, in order.
Chosen(P, m) ==
    /\ m \in Nat
    /\ \A x \in 1..m : Nth(P, x) \in P
    /\ \A k \in P : \E x \in 1..m : Nth(P, x) = k
    /\ \A x, y \in 1..m : x < y => Nth(P, x) < Nth(P, y)

LEMMA EnqueueOf ==
    ASSUME NEW d, IsDoc(d), Entered(d.pending), NEW t, NEW h, NEW ops
    PROVE  LET e == EnqueueOps(d, t, h, ops)
               n == Len(d.pending)
           IN  /\ IsDoc(e) /\ e.auth = d.auth /\ e.tick = t /\ Entered(e.pending)
               /\ n \in Nat /\ Len(e.pending) = n + 1
               /\ \A k \in 1..n : e.pending[k] = d.pending[k]
               /\ e.pending[n + 1] = [id |-> h, ops |-> ops, sent |-> FALSE]
  <1> DEFINE b == [id |-> h, ops |-> ops, sent |-> FALSE]
             p == d.pending
             q == Append(p, b)
             e == EnqueueOps(d, t, h, ops)
  <1>1. e = [d EXCEPT !.tick = t, !.pending = q]
    BY DEF EnqueueOps
  <1>2. IsSeq(p) /\ \A k \in 1..Len(p) : p[k] = [id |-> p[k].id, ops |-> p[k].ops, sent |-> p[k].sent]
    BY DEF Entered
  <1>3. b = [id |-> b.id, ops |-> b.ops, sent |-> b.sent]
    OBVIOUS
  <1> HIDE DEF b, p
  <1>4. /\ IsSeq(q) /\ Len(p) \in Nat /\ Len(q) = Len(p) + 1
        /\ \A k \in 1..Len(p) : q[k] = p[k]
        /\ q[Len(p) + 1] = b
    BY <1>2, SeqAppend
  <1> HIDE DEF q
  <1>5. e.auth = d.auth /\ e.tick = t /\ e.pending = q
    BY <1>1 DEF IsDoc, DocKeys
  <1>6. IsDoc(e)
    BY KeepCursor
  <1>7. \A k \in 1..Len(q) : k \in 1..Len(p) \/ k = Len(p) + 1
    BY <1>4
  <1>8. Entered(q)
    BY <1>2, <1>3, <1>4, <1>7 DEF Entered
  <1> HIDE DEF e
  <1>9. /\ IsDoc(e) /\ e.auth = d.auth /\ e.tick = t /\ Entered(e.pending)
        /\ Len(p) \in Nat /\ Len(e.pending) = Len(p) + 1
        /\ \A k \in 1..Len(p) : e.pending[k] = p[k]
        /\ e.pending[Len(p) + 1] = b
    BY <1>4, <1>5, <1>6, <1>8
  <1> QED BY <1>9 DEF e, p, b

\* The same batches, all in flight or none.
Marked(p, v) == [k \in DOMAIN p |-> [p[k] EXCEPT !.sent = v]]

LEMMA MarkedOf ==
    ASSUME NEW p, Entered(p), NEW v \in BOOLEAN
    PROVE  LET q == Marked(p, v)
           IN  /\ Entered(q) /\ Len(q) = Len(p) /\ Len(q) \in Nat
               /\ \A k \in 1..Len(q) : q[k].id = p[k].id /\ q[k].ops = p[k].ops /\ q[k].sent = v
  <1> DEFINE G == {[p[k] EXCEPT !.sent = v] : k \in 1..Len(p)}
             q == Marked(p, v)
  <1>0. q = [k \in DOMAIN p |-> [p[k] EXCEPT !.sent = v]]
    BY DEF Marked
  <1>1. /\ DOMAIN p = 1..Len(p) /\ Len(p) \in Nat
        /\ \A k \in 1..Len(p) : p[k] = [id |-> p[k].id, ops |-> p[k].ops, sent |-> p[k].sent]
    BY DEF Entered, IsSeq
  <1>2. \A k \in 1..Len(p) : q[k] = [p[k] EXCEPT !.sent = v] /\ q[k] \in G
    BY <1>0, <1>1
  <1>3. q = [k \in 1..Len(p) |-> q[k]]
    BY <1>0, <1>1
  <1> HIDE DEF G, q
  <1>4. q \in Seq(G) /\ Len(q) = Len(p)
    BY <1>1, <1>2, <1>3
  <1>5. \A k \in 1..Len(p) : /\ q[k].id = p[k].id /\ q[k].ops = p[k].ops /\ q[k].sent = v
                             /\ q[k] = [id |-> q[k].id, ops |-> q[k].ops, sent |-> q[k].sent]
    BY <1>1, <1>2
  <1>6. Entered(q)
    BY <1>4, <1>5 DEF Entered, IsSeq
  <1> QED BY <1>1, <1>4, <1>5, <1>6 DEF q

LEMMA DisconnectedOf ==
    ASSUME NEW d, IsDoc(d), Entered(d.pending)
    PROVE  LET e == MarkDisconnected(d)
           IN  /\ IsDoc(e) /\ e.auth = d.auth /\ e.tick = d.tick /\ Entered(e.pending)
               /\ Len(e.pending) = Len(d.pending) /\ Len(e.pending) \in Nat
               /\ \A k \in 1..Len(e.pending) : /\ e.pending[k].id = d.pending[k].id
                                               /\ e.pending[k].ops = d.pending[k].ops
                                               /\ e.pending[k].sent = FALSE
  <1> DEFINE q == Marked(d.pending, FALSE)
             e == MarkDisconnected(d)
  <1>1. e = [d EXCEPT !.pending = q]
    BY DEF MarkDisconnected, Marked
  <1>2. /\ Entered(q) /\ Len(q) = Len(d.pending) /\ Len(q) \in Nat
        /\ \A k \in 1..Len(q) : q[k].id = d.pending[k].id /\ q[k].ops = d.pending[k].ops /\ q[k].sent = FALSE
    BY MarkedOf
  <1> HIDE DEF q
  <1>3. e.auth = d.auth /\ e.tick = d.tick /\ e.pending = q
    BY <1>1 DEF IsDoc, DocKeys
  <1>4. IsDoc(e)
    BY KeepCursor
  <1> HIDE DEF e
  <1> QED BY <1>2, <1>3, <1>4 DEF e

LEMMA TakenOf ==
    ASSUME NEW d, IsDoc(d), Entered(d.pending)
    PROVE  LET e == TakePushable(d)
           IN  /\ IsDoc(e) /\ e.auth = d.auth /\ e.tick = d.tick /\ Entered(e.pending)
               /\ Len(e.pending) = Len(d.pending) /\ Len(e.pending) \in Nat
               /\ \A k \in 1..Len(e.pending) : /\ e.pending[k].id = d.pending[k].id
                                               /\ e.pending[k].ops = d.pending[k].ops
  <1> DEFINE q == Marked(d.pending, TRUE)
             e == TakePushable(d)
  <1>1. e = [d EXCEPT !.pending = q]
    BY DEF TakePushable, Marked
  <1>2. /\ Entered(q) /\ Len(q) = Len(d.pending) /\ Len(q) \in Nat
        /\ \A k \in 1..Len(q) : q[k].id = d.pending[k].id /\ q[k].ops = d.pending[k].ops /\ q[k].sent = TRUE
    BY MarkedOf
  <1> HIDE DEF q
  <1>3. e.auth = d.auth /\ e.tick = d.tick /\ e.pending = q
    BY <1>1 DEF IsDoc, DocKeys
  <1>4. IsDoc(e)
    BY KeepCursor
  <1> HIDE DEF e
  <1> QED BY <1>2, <1>3, <1>4 DEF e

\* The places of a queue that are not in flight.
Waiting(p) == {k \in 1..Len(p) : ~p[k].sent}

LEMMA PushesOf ==
    ASSUME NEW d, Entered(d.pending)
    PROVE  LET q == Pushes(d)
               P == Waiting(d.pending)
           IN  /\ IsSeq(q) /\ Chosen(P, Len(q))
               /\ \A x \in 1..Len(q) : q[x] = PushFrame(d.pending[Nth(P, x)])
  <1> DEFINE p == d.pending
             P == Waiting(p)
             w == Entries(p, P)
             q == Pushes(d)
  <1>1. IsSeq(p) /\ DOMAIN p = 1..Len(p) /\ P \in SUBSET (1..Len(p))
    BY DEF Entered, IsSeq, Waiting
  <1>2. ToPush(d) = w
    <2>1. P = {k \in DOMAIN p : ~p[k].sent}
      BY <1>1 DEF Waiting
    <2> QED BY <2>1 DEF ToPush
  <1> HIDE DEF p, P
  <1>3. /\ IsSeq(w) /\ Len(w) \in Nat /\ Chosen(P, Len(w))
        /\ \A x \in 1..Len(w) : w[x] = p[Nth(P, x)]
    BY <1>1, EntriesOf DEF Chosen
  <1>4. DOMAIN w = 1..Len(w)
    BY <1>3 DEF IsSeq
  <1> HIDE DEF w
  <1> DEFINE G == {PushFrame(w[k]) : k \in 1..Len(w)}
  <1>5. q = [k \in 1..Len(w) |-> PushFrame(w[k])]
    BY <1>2, <1>4 DEF Pushes
  <1>6. \A k \in 1..Len(w) : PushFrame(w[k]) \in G
    OBVIOUS
  <1> HIDE DEF q, G
  <1>7. /\ q \in Seq(G) /\ Len(q) = Len(w)
        /\ \A x \in 1..Len(q) : q[x] = PushFrame(w[x])
    BY <1>3, <1>5, <1>6
  <1>8. IsSeq(q) /\ Chosen(P, Len(q)) /\ \A x \in 1..Len(q) : q[x] = PushFrame(p[Nth(P, x)])
    BY <1>3, <1>7 DEF IsSeq
  <1> QED BY <1>8 DEF p, P, q

\* The places of a queue that hold another batch.
Unacked(p, x) == {k \in 1..Len(p) : p[k].id # x}

LEMMA AckedOf ==
    ASSUME NEW d, IsDoc(d), Entered(d.pending), NEW f
    PROVE  LET e == AckBatch(d, f)
               P == Unacked(d.pending, f.batch)
           IN  /\ e.auth = d.auth /\ e.tick = d.tick /\ Entered(e.pending)
               /\ Chosen(P, Len(e.pending))
               /\ \A x \in 1..Len(e.pending) : e.pending[x] = d.pending[Nth(P, x)]
  <1> DEFINE p == d.pending
             P == Unacked(p, f.batch)
             q == Entries(p, P)
             m == IF f.seq > d.cursor THEN f.seq ELSE d.cursor
             e == AckBatch(d, f)
  <1>1. /\ IsSeq(p) /\ DOMAIN p = 1..Len(p)
        /\ \A k \in 1..Len(p) : p[k] = [id |-> p[k].id, ops |-> p[k].ops, sent |-> p[k].sent]
    BY DEF Entered, IsSeq
  <1>2. e = [d EXCEPT !.pending = q, !.cursor = m]
    <2>1. P = {k \in DOMAIN p : p[k].id # f.batch}
      BY <1>1 DEF Unacked
    <2> QED BY <2>1 DEF AckBatch
  <1>3. P \in SUBSET (1..Len(p))
    BY DEF Unacked
  <1> HIDE DEF p, P, m
  <1>4. /\ IsSeq(q) /\ Chosen(P, Len(q))
        /\ \A x \in 1..Len(q) : Nth(P, x) \in P /\ q[x] = p[Nth(P, x)]
    BY <1>1, <1>3, EntriesOf DEF Chosen
  <1> HIDE DEF q
  <1>5. Entered(q)
    BY <1>1, <1>3, <1>4 DEF Entered
  <1>6. e.auth = d.auth /\ e.tick = d.tick /\ e.pending = q
    BY <1>2 DEF IsDoc, DocKeys
  <1> HIDE DEF e
  <1>7. /\ e.auth = d.auth /\ e.tick = d.tick /\ Entered(e.pending)
        /\ Chosen(P, Len(e.pending))
        /\ \A x \in 1..Len(e.pending) : e.pending[x] = p[Nth(P, x)]
    BY <1>4, <1>5, <1>6
  <1> QED BY <1>7 DEF p, P, e

-----------------------------------------------------------------------------
(* What each step of a device leaves true of its own batches. *)

(* Fewer batches, or the same, are as well accounted for. *)
LEMMA FewerMine ==
    ASSUME NEW T, NEW K, NEW M, NEW W, W \subseteq M
    PROVE  /\ \A h : Numbered(M, h) => Numbered(W, h)
           /\ Single(M) => Single(W)
           /\ (\A x \in M : Decent(K, x.ops)) => \A x \in W : Decent(K, x.ops)
           /\ \A D, h : AcksTrue(T, K, M, D, h) => AcksTrue(T, K, W, D, h)
  BY DEF Numbered, Single, AcksTrue

LEMMA MineOf ==
    ASSUME NEW d, NEW s, NEW U, NEW A
    PROVE  \A x : x \in Mine(d, s, U, A) <=>
               \/ \E b \in A : x = Bare(b)
               \/ \E k \in 1..Len(d.pending) : x = Bare(d.pending[k])
               \/ \E k \in 1..Len(s.pending) : x = Bare(s.pending[k])
               \/ \E k \in 1..Len(U) : U[k].t = "push" /\ x = Bare(U[k].batch)
  BY DEF Mine

LEMMA LedgerMint ==
    ASSUME NEW T, NEW K, NEW c \in Clients, NEW v, v # "off", NEW d, NEW s, NEW U, NEW D, NEW Z, NEW A,
           Ledger(T, K, c, v, d, s, U, D, Z, A), IsDoc(d),
           NEW t \in Nat, t > d.tick, NEW ops, Decent(K, ops),
           \A i \in Ids : Loose(ops, i) =>
               Known(T[i], K[i]) \/ \E k \in 1..Len(d.pending) : Grounds(d.pending[k].ops, i),
           NEW B, B \subseteq A \cup {[id |-> Hlc(c, t), ops |-> ops]}
    PROVE  Ledger(T, K, c, v, EnqueueOps(d, t, Hlc(c, t), ops), s, U, D, Z, B)
  <1> DEFINE h == Hlc(c, t)
             g == Hlc(c, d.tick)
             w == [id |-> h, ops |-> ops]
             e == EnqueueOps(d, t, h, ops)
             M == Mine(d, s, U, A)
             M2 == Mine(e, s, U, B)
             l == Len(d.pending)
  <1>1. /\ d.tick \in Nat /\ s.tick \in Nat /\ s.tick <= d.tick
        /\ Entered(d.pending) /\ Entered(s.pending)
        /\ \A k \in 1..Len(s.pending) : s.pending[k].sent = FALSE
        /\ \A k \in 1..Len(s.pending) : s.pending[k].id <= Hlc(c, s.tick)
        /\ Numbered(M, g) /\ Single(M) /\ \A x \in M : Decent(K, x.ops)
        /\ Kept(T, K, A, d.pending, g) /\ Kept(T, K, A, s.pending, Hlc(c, s.tick))
        /\ AcksTrue(T, K, M, D, g)
        /\ Founded(T, K, l, Queued(d.pending))
        /\ InFlight(T, K, d.pending, U)
    BY DEF Ledger
  <1>2. /\ e.auth = d.auth /\ e.tick = t /\ Entered(e.pending)
        /\ l \in Nat /\ Len(e.pending) = l + 1
        /\ \A k \in 1..l : e.pending[k] = d.pending[k]
        /\ e.pending[l + 1] = [id |-> h, ops |-> ops, sent |-> FALSE]
    BY <1>1, EnqueueOf
  <1>3. /\ g \in Nat /\ h \in Nat /\ g < h /\ Hlc(c, s.tick) \in Nat /\ Hlc(c, s.tick) <= g
        /\ Hlc(c, s.tick) < h
    BY <1>1, HlcOrder
  <1> HIDE DEF e, h, g, M, M2, l
  <1>4. \A k \in 1..l + 1 : k \in 1..l \/ k = l + 1
    BY <1>2
  <1>5. w.id = h /\ w.ops = ops /\ Bare(w) = w /\ Bare(e.pending[l + 1]) = w
    BY <1>2 DEF Bare
  <1>6. \A x \in M2 : x \in M \/ x = w
    <2> TAKE x \in M2
    <2>1. CASE \E b \in B : x = Bare(b)
      <3>1. PICK b \in B : x = Bare(b)
        BY <2>1
      <3>2. b \in A \/ b = w
        BY DEF h
      <3> QED BY <1>5, <3>1, <3>2, MineOf DEF M
    <2>2. CASE \E k \in 1..Len(e.pending) : x = Bare(e.pending[k])
      BY <1>2, <1>4, <1>5, <2>2, MineOf DEF M, l
    <2>3. CASE (\E k \in 1..Len(s.pending) : x = Bare(s.pending[k]))
                 \/ \E k \in 1..Len(U) : U[k].t = "push" /\ x = Bare(U[k].batch)
      BY <2>3, MineOf DEF M
    <2> QED BY <2>1, <2>2, <2>3, MineOf DEF M2
  <1>7. \A b \in B : b = w \/ (b \in A /\ b.id \in Nat /\ b.id <= g)
    <2> TAKE b \in B
    <2>1. b \in A \/ b = w
      BY DEF h
    <2>2. b \in A => Bare(b) \in M /\ Bare(b).id = b.id
      BY MineOf DEF Bare, M
    <2> QED BY <1>1, <2>1, <2>2 DEF Numbered
  <1> HIDE DEF w
  <1>8. /\ Numbered(M2, h) /\ Single(M2) /\ \A x \in M2 : Decent(K, x.ops)
    <2>1. \A x \in M : x.id \in Nat /\ x.id <= g
      BY <1>1 DEF Numbered
    <2>2. Numbered(M2, h)
      BY <1>3, <1>5, <1>6, <2>1 DEF Numbered
    <2>3. Single(M2)
      BY <1>1, <1>3, <1>5, <1>6, <2>1 DEF Single
    <2> QED BY <1>1, <1>5, <1>6, <2>2, <2>3
  <1>9. Kept(T, K, B, e.pending, h)
    <2> SUFFICES ASSUME NEW b \in B
                 PROVE (\E k \in 1..Len(e.pending) : e.pending[k].id = b.id) \/ SettledIn(T, K, b.ops)
      BY DEF Kept
    <2>1. CASE b = w
      <3>1. l + 1 \in 1..Len(e.pending)
        BY <1>2
      <3> QED BY <1>2, <1>5, <2>1, <3>1
    <2>2. CASE b \in A /\ b.id \in Nat /\ b.id <= g
      <3>1. (\E k \in 1..l : d.pending[k].id = b.id) \/ SettledIn(T, K, b.ops)
        BY <1>1, <2>2 DEF Kept, l
      <3>2. \A k \in 1..l : k \in 1..Len(e.pending)
        BY <1>2
      <3> QED BY <1>2, <3>1, <3>2
    <2> QED BY <1>7, <2>1, <2>2
  <1>10. Kept(T, K, B, s.pending, Hlc(c, s.tick))
    <2> SUFFICES ASSUME NEW b \in B, b.id <= Hlc(c, s.tick)
                 PROVE (\E k \in 1..Len(s.pending) : s.pending[k].id = b.id) \/ SettledIn(T, K, b.ops)
      BY DEF Kept
    <2>1. b # w
      BY <1>3, <1>5
    <2> QED BY <1>1, <1>7, <2>1 DEF Kept
  <1>11. AcksTrue(T, K, M2, D, h)
    BY <1>1, <1>3, <1>5, <1>6 DEF AcksTrue
  <1>12. Founded(T, K, Len(e.pending), Queued(e.pending))
    <2> DEFINE m == 1
               Q == Queued(d.pending)
               O == [k \in 1..m |-> ops]
               W == Queued(e.pending)
    <2>1. /\ \A k \in 1..l : Q[k] = d.pending[k].ops
          /\ \A k \in 1..l + 1 : W[k] = e.pending[k].ops
          /\ \A k \in 1..m : O[k] = ops /\ k = 1
      BY <1>2 DEF Queued, l
    <2>2. \A k \in 1..l : W[k] = Q[k] /\ k \in 1..l + 1
      BY <1>2, <2>1
    <2>3. \A k \in 1..m : W[l + k] = O[k]
      BY <1>2, <2>1
    <2>4. \A k \in 1..m : \A i \in Ids : Loose(O[k], i) =>
               \/ Known(T[i], K[i])
               \/ \E j \in 1..(k - 1) : Grounds(O[j], i)
               \/ \E j \in 1..l : Grounds(Q[j], i)
      BY <2>1 DEF l
    <2>7. m \in Nat
      OBVIOUS
    <2> HIDE DEF Q, O, W, m
    <2>5. Founded(T, K, l, Q)
      BY <1>1 DEF Q
    <2>6. Founded(T, K, l + m, W)
      BY <1>2, <2>2, <2>3, <2>4, <2>5, <2>7, FoundedMore
    <2> QED BY <1>2, <2>6 DEF W, m
  <1>13. InFlight(T, K, e.pending, U)
    <2>1. \A k \in 1..Len(e.pending) : e.pending[k].sent => k \in 1..l /\ e.pending[k] = d.pending[k]
      BY <1>2, <1>4
    <2> QED BY <1>1, <2>1 DEF InFlight, l
  <1>14. e.tick \in Nat /\ s.tick <= e.tick
    BY <1>1, <1>2
  <1>15. Ledger(T, K, c, v, e, s, U, D, Z, B)
    <2>1. h = Hlc(c, e.tick)
      BY <1>2 DEF h
    <2>2. /\ Copies(T, K, d.auth) /\ Copies(T, K, s.auth) /\ CopiesSent(T, K, D)
          /\ v = "hello" => Gaps(K, d.auth, D)
          /\ Founded(T, K, Len(s.pending), Queued(s.pending))
          /\ Founded(T, K, Len(U), Pushed(U))
          /\ IsSeq(Z) /\ Founded(T, K, Len(Z), Pushed(Z))
          /\ \A k \in 1..Len(Z) : Z[k].t = "push" /\ Decent(K, Z[k].batch.ops)
      BY DEF Ledger
    <2> QED BY <1>1, <1>2, <1>8, <1>9, <1>10, <1>11, <1>12, <1>13, <1>14, <2>1, <2>2 DEF Ledger, M2
  <1> QED BY <1>15 DEF e, h

(* A rows or state frame is read: the replica holds copies of the room's rows. *)
LEMMA LedgerRead ==
    ASSUME NEW T, NEW K, NEW c, NEW v, NEW d, NEW s, NEW U, NEW D, NEW Z, NEW A,
           Ledger(T, K, c, v, d, s, U, D, Z, A), IsSeq(D), D # << >>, Head(D).t # "ack",
           NEW e, e.auth = After(d.auth, Head(D)), e.tick = d.tick, e.pending = d.pending,
           NEW w, w \notin {"off", "hello"}
    PROVE  Ledger(T, K, c, w, e, s, U, Tail(D), Z, A)
  <1> DEFINE f == Head(D)
  <1>1. /\ Len(D) \in Nat /\ Len(D) # 0 /\ Len(Tail(D)) = Len(D) - 1
        /\ \A k \in 1..(Len(D) - 1) : Tail(D)[k] = D[k + 1] /\ k + 1 \in 1..Len(D)
        /\ f = D[1] /\ 1 \in 1..Len(D)
    BY SeqTail
  <1>2. Mine(e, s, U, A) = Mine(d, s, U, A)
    BY DEF Mine
  <1>3. CopiesSent(T, K, D) /\ Copies(T, K, d.auth)
    BY DEF Ledger
  <1>4. Copies(T, K, f.rows)
    BY <1>1, <1>3 DEF CopiesSent
  <1> HIDE DEF f
  <1>5. Copies(T, K, After(d.auth, f))
    BY <1>3, <1>4 DEF Copies, After, PutAuthoritative
  <1>6. CopiesSent(T, K, Tail(D))
    BY <1>1, <1>3 DEF CopiesSent
  <1>7. \A M, h : AcksTrue(T, K, M, D, h) => AcksTrue(T, K, M, Tail(D), h)
    BY <1>1 DEF AcksTrue
  <1> QED BY <1>2, <1>5, <1>6, <1>7 DEF Ledger, f

(* An ack is read: the room has dealt with the batch it retires. *)
LEMMA LedgerAck ==
    ASSUME NEW T, NEW K, NEW c, NEW v, NEW d, NEW s, NEW U, NEW D, NEW Z, NEW A,
           Ledger(T, K, c, v, d, s, U, D, Z, A), \A i \in Ids : K[i] \in Nat, IsDoc(d),
           IsSeq(D), D # << >>, Head(D).t = "ack",
           NEW w, w \notin {"off", "hello"}
    PROVE  Ledger(T, K, c, w, AckBatch(d, Head(D)), s, U, Tail(D), Z, A)
  <1> DEFINE f == Head(D)
             e == AckBatch(d, f)
             p == d.pending
             q == e.pending
             P == Unacked(p, f.batch)
             M == Mine(d, s, U, A)
             M2 == Mine(e, s, U, A)
             h == Hlc(c, d.tick)
  <1>1. /\ Len(D) \in Nat /\ Len(D) # 0 /\ Len(Tail(D)) = Len(D) - 1
        /\ \A k \in 1..(Len(D) - 1) : Tail(D)[k] = D[k + 1] /\ k + 1 \in 1..Len(D)
        /\ f = D[1] /\ 1 \in 1..Len(D)
    BY SeqTail
  <1>2. /\ Entered(p) /\ Numbered(M, h) /\ Single(M) /\ \A x \in M : Decent(K, x.ops)
        /\ Kept(T, K, A, p, h) /\ AcksTrue(T, K, M, D, h) /\ CopiesSent(T, K, D)
        /\ Founded(T, K, Len(p), Queued(p)) /\ InFlight(T, K, p, U)
    BY DEF Ledger
  <1>3. /\ e.auth = d.auth /\ e.tick = d.tick /\ Entered(q) /\ Chosen(P, Len(q))
        /\ \A x \in 1..Len(q) : q[x] = p[Nth(P, x)]
    BY <1>2, AckedOf
  <1>4. Len(p) \in Nat
    BY <1>2 DEF Entered, IsSeq
  <1>5. \A k \in P : k \in 1..Len(p)
    BY DEF Unacked
  <1>6. \A k \in 1..Len(p) : k \in P \/ p[k].id = f.batch
    BY DEF Unacked
  <1>7. \A k \in 1..Len(p) : Bare(p[k]) \in M /\ Bare(p[k]).id = p[k].id /\ Bare(p[k]).ops = p[k].ops
    BY MineOf DEF Bare
  <1>8. \A b \in A : Bare(b) \in M /\ Bare(b).id = b.id /\ Bare(b).ops = b.ops
    BY MineOf DEF Bare
  <1>9. \A x \in M : x.id = f.batch => SettledIn(T, K, x.ops)
    BY <1>1, <1>2 DEF AcksTrue
  <1> HIDE DEF f, e, P, M, M2, h
  <1>10. M2 \subseteq M
    <2> SUFFICES ASSUME NEW x \in M2 PROVE x \in M
      OBVIOUS
    <2>1. CASE \E k \in 1..Len(q) : x = Bare(q[k])
      <3>1. PICK k \in 1..Len(q) : x = Bare(q[k])
        BY <2>1
      <3>2. Nth(P, k) \in P /\ q[k] = p[Nth(P, k)]
        BY <1>3 DEF Chosen
      <3> QED BY <1>5, <1>7, <3>1, <3>2
    <2>2. CASE \/ \E b \in A : x = Bare(b)
               \/ \E k \in 1..Len(s.pending) : x = Bare(s.pending[k])
               \/ \E k \in 1..Len(U) : U[k].t = "push" /\ x = Bare(U[k].batch)
      BY <2>2, MineOf DEF M
    <2> QED BY <2>1, <2>2, MineOf DEF M2
  <1>11. Kept(T, K, A, q, h)
    <2> SUFFICES ASSUME NEW b \in A, b.id <= h
                 PROVE (\E k \in 1..Len(q) : q[k].id = b.id) \/ SettledIn(T, K, b.ops)
      BY DEF Kept
    <2>1. (\E k \in 1..Len(p) : p[k].id = b.id) \/ SettledIn(T, K, b.ops)
      BY <1>2 DEF Kept
    <2>2. ASSUME NEW k \in 1..Len(p), p[k].id = b.id
          PROVE (\E x \in 1..Len(q) : q[x].id = b.id) \/ SettledIn(T, K, b.ops)
      <3>1. CASE k \in P
        <4>1. PICK x \in 1..Len(q) : Nth(P, x) = k
          BY <1>3, <3>1 DEF Chosen
        <4> QED BY <1>3, <2>2, <4>1
      <3>2. CASE p[k].id = f.batch
        BY <1>8, <1>9, <2>2, <3>2
      <3> QED BY <1>6, <3>1, <3>2
    <2> QED BY <2>1, <2>2
  <1>12. ASSUME NEW k \in 1..Len(p), p[k].id = f.batch, NEW i \in Ids, Grounds(p[k].ops, i)
         PROVE  Known(T[i], K[i])
    <2>1. SettledIn(T, K, p[k].ops) /\ Decent(K, p[k].ops)
      BY <1>2, <1>7, <1>9, <1>12
    <2>2. i \in Mentioned(p[k].ops)
      BY <1>12 DEF Grounds, Mentioned
    <2>3. Settled(T[i], K[i], p[k].ops[i]) /\ Proper(K[i], p[k].ops[i]) /\ K[i] \in Nat
      BY <2>1, <2>2 DEF SettledIn, Decent
    <2> QED BY <2>3, KnownOnce
  <1>13. Founded(T, K, Len(q), Queued(q))
    <2> DEFINE g == [x \in 1..Len(q) |-> Nth(P, x)]
               Q == Queued(p)
               O == Queued(q)
    <2>1. /\ \A k \in 1..Len(p) : Q[k] = p[k].ops
          /\ \A x \in 1..Len(q) : O[x] = q[x].ops /\ g[x] = Nth(P, x)
      BY DEF Queued
    <2>2. Len(q) \in Nat
      BY <1>3 DEF Chosen
    <2>3. ASSUME NEW x \in 1..Len(q) PROVE g[x] \in 1..Len(p) /\ O[x] = Q[g[x]]
      <3>1. Nth(P, x) \in P /\ q[x] = p[Nth(P, x)]
        BY <1>3 DEF Chosen
      <3>2. Nth(P, x) \in 1..Len(p)
        BY <1>5, <3>1
      <3>3. Q[Nth(P, x)] = p[Nth(P, x)].ops /\ O[x] = q[x].ops /\ g[x] = Nth(P, x)
        BY <2>1, <3>2
      <3> QED BY <3>1, <3>2, <3>3
    <2>4. \A x, y \in 1..Len(q) : x < y => g[x] < g[y]
      BY <1>3, <2>1 DEF Chosen
    <2>5. \A k \in 1..Len(p) : \/ \E x \in 1..Len(q) : g[x] = k
                               \/ \A i \in Ids : Grounds(Q[k], i) => Known(T[i], K[i])
                               \/ \A x \in 1..Len(q) : g[x] < k
      <3> TAKE k \in 1..Len(p)
      <3>1. CASE k \in P
        BY <1>3, <2>1, <3>1 DEF Chosen
      <3>2. CASE p[k].id = f.batch
        BY <1>12, <2>1, <3>2
      <3> QED BY <1>6, <3>1, <3>2
    <2>6. Founded(T, K, Len(p), Q)
      BY <1>2
    <2> DEFINE n == Len(p)
               m == Len(q)
    <2> HIDE DEF g, Q, O, n, m
    <2>7. Founded(T, K, m, O)
      BY <1>4, <2>2, <2>3, <2>4, <2>5, <2>6, FoundedPart DEF n, m
    <2> QED BY <2>7 DEF O, m
  <1>14. InFlight(T, K, q, U)
    <2>1. \A x \in 1..Len(q) : \E k \in 1..Len(p) : q[x] = p[k]
      BY <1>3, <1>5 DEF Chosen
    <2> QED BY <1>2, <2>1 DEF InFlight
  <1>15. CopiesSent(T, K, Tail(D)) /\ AcksTrue(T, K, M2, Tail(D), h)
    <2>1. AcksTrue(T, K, M2, D, h)
      BY <1>2, <1>10, FewerMine
    <2> QED BY <1>1, <1>2, <2>1 DEF CopiesSent, AcksTrue
  <1>16. Numbered(M2, h) /\ Single(M2) /\ \A x \in M2 : Decent(K, x.ops)
    BY <1>2, <1>10, FewerMine
  <1>17. Ledger(T, K, c, w, e, s, U, Tail(D), Z, A)
    BY <1>3, <1>11, <1>13, <1>14, <1>15, <1>16 DEF Ledger, M2, h
  <1> QED BY <1>17 DEF e, f

(* What is not in flight is pushed, in order: what its updates need was sent
   before, is sent with them, or is known. *)
LEMMA LedgerPush ==
    ASSUME NEW T, NEW K, NEW c, NEW v, v # "off", NEW d, NEW s, NEW U, NEW D, NEW Z, NEW A,
           Ledger(T, K, c, v, d, s, U, D, Z, A), IsDoc(d), IsSeq(U)
    PROVE  Ledger(T, K, c, v, TakePushable(d), s, U \o Pushes(d), D, Z, A)
  <1> DEFINE e == TakePushable(d)
             p == d.pending
             q == e.pending
             P == Waiting(p)
             X == Pushes(d)
             W == U \o X
             M == Mine(d, s, U, A)
             M2 == Mine(e, s, W, A)
             h == Hlc(c, d.tick)
             n == Len(U)
             m == Len(X)
  <1>1. /\ Entered(p) /\ Numbered(M, h) /\ Single(M) /\ \A x \in M : Decent(K, x.ops)
        /\ Kept(T, K, A, p, h) /\ AcksTrue(T, K, M, D, h)
        /\ Founded(T, K, Len(p), Queued(p)) /\ Founded(T, K, n, Pushed(U)) /\ InFlight(T, K, p, U)
    BY DEF Ledger
  <1>2. /\ e.auth = d.auth /\ e.tick = d.tick /\ Entered(q)
        /\ Len(q) = Len(p) /\ Len(q) \in Nat
        /\ \A k \in 1..Len(q) : q[k].id = p[k].id /\ q[k].ops = p[k].ops
    BY <1>1, TakenOf
  <1>3. /\ IsSeq(X) /\ Chosen(P, m)
        /\ \A x \in 1..m : X[x] = PushFrame(p[Nth(P, x)])
    BY <1>1, PushesOf
  <1>4. /\ IsSeq(W) /\ n \in Nat /\ m \in Nat /\ Len(W) = n + m
        /\ \A k \in 1..n : W[k] = U[k]
        /\ \A k \in 1..m : W[n + k] = X[k]
        /\ \A k \in 1..n + m : k \in 1..n \/ \E j \in 1..m : k = n + j
    BY <1>3, SeqConcat
  <1>5. /\ \A k \in P : k \in 1..Len(p)
        /\ \A k \in 1..Len(p) : k \in P \/ p[k].sent
    BY DEF Waiting
  <1>6. ASSUME NEW x \in 1..m
        PROVE  /\ Nth(P, x) \in P /\ Nth(P, x) \in 1..Len(p)
               /\ X[x].t = "push" /\ X[x].batch = Bare(p[Nth(P, x)])
    <2>1. Nth(P, x) \in P /\ Nth(P, x) \in 1..Len(p)
      BY <1>3, <1>5 DEF Chosen
    <2> DEFINE b == p[Nth(P, x)]
    <2>2. X[x] = PushFrame(b)
      BY <1>3
    <2> HIDE DEF b, X
    <2>3. X[x].t = "push" /\ X[x].batch = Bare(b)
      BY <2>2 DEF PushFrame, Bare
    <2> QED BY <2>1, <2>3 DEF b
  <1>7. \A k \in 1..Len(p) : /\ Bare(p[k]) \in M /\ Bare(p[k]).ops = p[k].ops
                             /\ Bare(q[k]) = Bare(p[k]) /\ Bare(Bare(p[k])) = Bare(p[k])
    BY <1>2, MineOf DEF Bare
  <1> HIDE DEF e, p, P, X, W, M, M2, h, n, m
  <1>8. M2 \subseteq M
    <2> SUFFICES ASSUME NEW x \in M2 PROVE x \in M
      OBVIOUS
    <2>1. CASE \E k \in 1..Len(q) : x = Bare(q[k])
      BY <1>2, <1>7, <2>1
    <2>2. CASE \E k \in 1..Len(W) : W[k].t = "push" /\ x = Bare(W[k].batch)
      <3>1. PICK k \in 1..Len(W) : W[k].t = "push" /\ x = Bare(W[k].batch)
        BY <2>2
      <3>2. CASE k \in 1..n
        BY <1>4, <3>1, <3>2, MineOf DEF M, n
      <3>3. CASE \E j \in 1..m : k = n + j
        <4>1. PICK j \in 1..m : k = n + j
          BY <3>3
        <4>2. W[k].batch = Bare(p[Nth(P, j)]) /\ Nth(P, j) \in 1..Len(p)
          BY <1>4, <1>6, <4>1
        <4> DEFINE y == Bare(p[Nth(P, j)])
        <4>3. Bare(y) = y /\ y \in M
          BY <1>7, <4>2
        <4> HIDE DEF y
        <4>4. x = y
          BY <3>1, <4>2, <4>3 DEF y
        <4> QED BY <4>3, <4>4
      <3> QED BY <1>4, <3>2, <3>3
    <2>3. CASE \/ \E b \in A : x = Bare(b)
               \/ \E k \in 1..Len(s.pending) : x = Bare(s.pending[k])
      BY <2>3, MineOf DEF M
    <2> QED BY <2>1, <2>2, <2>3, MineOf DEF M2
  <1>9. Kept(T, K, A, q, h)
    BY <1>1, <1>2 DEF Kept
  <1>10. Founded(T, K, Len(q), Queued(q))
    <2>1. Queued(q) = Queued(p)
      BY <1>2 DEF Queued
    <2> QED BY <1>1, <1>2, <2>1
  <1>11. ASSUME NEW k \in 1..Len(p), NEW i \in Ids, Grounds(p[k].ops, i)
         PROVE  \/ Known(T[i], K[i])
                \/ \E j \in 1..n : U[j].t = "push" /\ Grounds(U[j].batch.ops, i)
                \/ \E x \in 1..m : Nth(P, x) = k
    BY <1>1, <1>3, <1>5, <1>11 DEF InFlight, Chosen, n
  <1>12. Founded(T, K, Len(W), Pushed(W))
    <2> DEFINE Q == Pushed(U)
               O == [x \in 1..m |-> p[Nth(P, x)].ops]
               V == Pushed(W)
    <2>1. /\ \A k \in 1..n : Q[k] = IF U[k].t = "push" THEN U[k].batch.ops ELSE NoOps(0)
          /\ \A k \in 1..Len(W) : V[k] = IF W[k].t = "push" THEN W[k].batch.ops ELSE NoOps(0)
          /\ \A x \in 1..m : O[x] = p[Nth(P, x)].ops
      BY DEF Pushed, n
    <2> HIDE DEF Q, O, V
    <2>2. \A k \in 1..n : V[k] = Q[k]
      <3>1. \A k \in 1..n : k \in 1..Len(W)
        BY <1>4
      <3> QED BY <1>4, <2>1, <3>1
    <2>3. ASSUME NEW k \in 1..m PROVE V[n + k] = O[k]
      <3>1. n + k \in 1..Len(W) /\ W[n + k] = X[k]
        BY <1>4
      <3>2. W[n + k].t = "push" /\ W[n + k].batch.ops = p[Nth(P, k)].ops
        BY <1>6, <1>7, <3>1
      <3> QED BY <2>1, <3>1, <3>2
    <2>4. ASSUME NEW k \in 1..m, NEW i \in Ids, Loose(O[k], i), ~Known(T[i], K[i]),
                 ~\E j \in 1..n : Grounds(Q[j], i)
          PROVE  \E j \in 1..(k - 1) : Grounds(O[j], i)
      <3>1. Nth(P, k) \in 1..Len(p) /\ Loose(Queued(p)[Nth(P, k)], i)
        BY <1>6, <2>1, <2>4 DEF Queued
      <3>2. PICK j \in 1..(Nth(P, k) - 1) : Grounds(Queued(p)[j], i)
        BY <1>1, <2>4, <3>1 DEF Founded
      <3>3. j \in 1..Len(p) /\ j < Nth(P, k)
        BY <1>2, <3>1
      <3>4. Grounds(p[j].ops, i)
        BY <3>2, <3>3 DEF Queued
      <3>5. ~\E x \in 1..n : U[x].t = "push" /\ Grounds(U[x].batch.ops, i)
        BY <2>1, <2>4
      <3>6. PICK x \in 1..m : Nth(P, x) = j
        BY <1>11, <2>4, <3>3, <3>4, <3>5
      <3>7. x < k
        <4>1. x < k \/ k < x \/ k = x
          BY <1>4
        <4>2. k < x => Nth(P, k) < Nth(P, x)
          BY <1>3 DEF Chosen
        <4> QED BY <1>6, <3>1, <3>3, <3>6, <4>1, <4>2
      <3>8. x \in 1..(k - 1) /\ Grounds(O[x], i)
        BY <1>4, <2>1, <3>4, <3>6, <3>7
      <3> QED BY <3>8
    <2>5. Founded(T, K, n, Q)
      BY <1>1 DEF Q
    <2>6. Founded(T, K, n + m, V)
      BY <1>4, <2>2, <2>3, <2>4, <2>5, FoundedMore
    <2> QED BY <1>4, <2>6 DEF V
  <1>13. InFlight(T, K, q, W)
    <2> SUFFICES ASSUME NEW k \in 1..Len(q), NEW i \in Ids, Grounds(q[k].ops, i), ~Known(T[i], K[i])
                 PROVE  \E x \in 1..Len(W) : W[x].t = "push" /\ Grounds(W[x].batch.ops, i)
      BY DEF InFlight
    <2>1. k \in 1..Len(p) /\ Grounds(p[k].ops, i)
      BY <1>2
    <2>2. CASE \E j \in 1..n : U[j].t = "push" /\ Grounds(U[j].batch.ops, i)
      <3>1. PICK j \in 1..n : U[j].t = "push" /\ Grounds(U[j].batch.ops, i)
        BY <2>2
      <3>2. j \in 1..Len(W) /\ W[j] = U[j]
        BY <1>4
      <3> QED BY <3>1, <3>2
    <2>3. CASE \E x \in 1..m : Nth(P, x) = k
      <3>1. PICK x \in 1..m : Nth(P, x) = k
        BY <2>3
      <3>2. n + x \in 1..Len(W) /\ W[n + x] = X[x]
        BY <1>4
      <3>3. X[x].t = "push" /\ X[x].batch.ops = p[k].ops
        BY <1>6, <1>7, <2>1, <3>1
      <3> QED BY <2>1, <3>2, <3>3
    <2> QED BY <1>11, <2>1, <2>2, <2>3
  <1>14. AcksTrue(T, K, M2, D, h) /\ Numbered(M2, h) /\ Single(M2) /\ \A x \in M2 : Decent(K, x.ops)
    BY <1>1, <1>8, FewerMine
  <1>15. Ledger(T, K, c, v, e, s, W, D, Z, A)
    BY <1>2, <1>9, <1>10, <1>12, <1>13, <1>14 DEF Ledger, M2, h
  <1> QED BY <1>15 DEF e, W, X

\* The pushes among the first k frames of a socket.
PushesUpTo(U, k) == {j \in 1..k : U[j].t = "push"}

(* The room may still read the pushes of any prefix of a dead socket. *)
LEMMA PrefixFounded ==
    ASSUME NEW T, NEW K, NEW U, IsSeq(U), Founded(T, K, Len(U), Pushed(U)), NEW k \in 0..Len(U)
    PROVE  LET V == Entries(U, PushesUpTo(U, k))
           IN  /\ IsSeq(V) /\ Founded(T, K, Len(V), Pushed(V))
               /\ \A x \in 1..Len(V) : \E j \in 1..Len(U) : U[j].t = "push" /\ V[x] = U[j]
  <1> DEFINE P == PushesUpTo(U, k)
             V == Entries(U, P)
             n == Len(U)
             m == Len(V)
  <1>1. n \in Nat /\ \A j \in 1..k : j \in 1..n /\ j \in Nat
    BY DEF IsSeq
  <1>2. P \in SUBSET (1..Len(U)) /\ \A j \in P : j \in 1..n /\ j <= k /\ U[j].t = "push"
    BY <1>1 DEF PushesUpTo
  <1>3. \A j \in 1..n : j \in P \/ U[j].t # "push" \/ j > k
    BY <1>1 DEF PushesUpTo
  <1> HIDE DEF P, V
  <1>4. /\ IsSeq(V) /\ m \in Nat
        /\ \A x \in 1..m : Nth(P, x) \in P /\ V[x] = U[Nth(P, x)]
        /\ \A j \in P : \E x \in 1..m : Nth(P, x) = j
        /\ \A x, y \in 1..m : x < y => Nth(P, x) < Nth(P, y)
    BY <1>2, EntriesOf DEF V
  <1> HIDE DEF n, m
  <1>5. \A x \in 1..m : \E j \in 1..n : U[j].t = "push" /\ V[x] = U[j]
    BY <1>2, <1>4
  <1> DEFINE g == [x \in 1..m |-> Nth(P, x)]
             Q == Pushed(U)
             O == Pushed(V)
  <1>6. /\ \A j \in 1..n : Q[j] = IF U[j].t = "push" THEN U[j].batch.ops ELSE NoOps(0)
        /\ \A x \in 1..m : O[x] = IF V[x].t = "push" THEN V[x].batch.ops ELSE NoOps(0)
        /\ \A x \in 1..m : g[x] = Nth(P, x)
    BY DEF Pushed, n, m
  <1> HIDE DEF g, Q, O
  <1>7. ASSUME NEW x \in 1..m PROVE g[x] \in 1..n /\ O[x] = Q[g[x]]
    <2>1. g[x] \in P /\ g[x] \in 1..n /\ V[x] = U[g[x]]
      BY <1>2, <1>4, <1>6
    <2>2. U[g[x]].t = "push" /\ V[x].t = "push"
      BY <1>2, <2>1
    <2> QED BY <1>6, <2>1, <2>2
  <1>8. \A x, y \in 1..m : x < y => g[x] < g[y]
    BY <1>4, <1>6
  <1>9. \A j \in 1..n : \/ \E x \in 1..m : g[x] = j
                        \/ \A i \in Ids : Grounds(Q[j], i) => Known(T[i], K[i])
                        \/ \A x \in 1..m : g[x] < j
    <2> TAKE j \in 1..n
    <2>1. CASE j \in P
      BY <1>4, <1>6, <2>1
    <2>2. CASE U[j].t # "push"
      <3>1. Q[j] = NoOps(0)
        BY <1>6, <2>2
      <3>2. \A i \in Ids : ~Grounds(Q[j], i)
        BY <3>1 DEF Grounds, NoOps, Op
      <3> QED BY <3>2
    <2>3. CASE j > k
      <3>1. \A x \in 1..m : g[x] \in 1..n /\ g[x] <= k
        BY <1>2, <1>4, <1>6
      <3> QED BY <1>1, <2>3, <3>1
    <2> QED BY <1>3, <2>1, <2>2, <2>3
  <1>10. Founded(T, K, n, Q)
    BY DEF Q, n
  <1>11. Founded(T, K, m, O)
    BY <1>1, <1>4, <1>7, <1>8, <1>9, <1>10, FoundedPart
  <1> QED BY <1>4, <1>5, <1>11 DEF P, V, n, m, O

(* A socket dies: the batches in flight wait again, and what the room still
   reads of them comes after what it was to read before. *)
LEMMA LedgerCut ==
    ASSUME NEW T, NEW K, NEW c, NEW v, v # "off", NEW d, NEW s, NEW U, NEW D, NEW Z, NEW A,
           Ledger(T, K, c, v, d, s, U, D, Z, A), IsDoc(d), IsSeq(U), NEW k \in 0..Len(U)
    PROVE  Ledger(T, K, c, "down", MarkDisconnected(d), s, << >>, << >>,
                  Z \o Entries(U, PushesUpTo(U, k)), A)
  <1> DEFINE e == MarkDisconnected(d)
             p == d.pending
             q == e.pending
             V == Entries(U, PushesUpTo(U, k))
             Y == Z \o V
             M == Mine(d, s, U, A)
             E == << >>
             M2 == Mine(e, s, E, A)
             h == Hlc(c, d.tick)
  <1>1. /\ Entered(p) /\ Numbered(M, h) /\ Single(M) /\ \A x \in M : Decent(K, x.ops)
        /\ Kept(T, K, A, p, h)
        /\ Founded(T, K, Len(p), Queued(p)) /\ Founded(T, K, Len(U), Pushed(U))
        /\ IsSeq(Z) /\ Founded(T, K, Len(Z), Pushed(Z))
        /\ \A x \in 1..Len(Z) : Z[x].t = "push" /\ Decent(K, Z[x].batch.ops)
    BY DEF Ledger
  <1>2. /\ e.auth = d.auth /\ e.tick = d.tick /\ Entered(q)
        /\ Len(q) = Len(p) /\ Len(q) \in Nat
        /\ \A x \in 1..Len(q) : q[x].id = p[x].id /\ q[x].ops = p[x].ops /\ q[x].sent = FALSE
    BY <1>1, DisconnectedOf
  <1>3. /\ IsSeq(V) /\ Founded(T, K, Len(V), Pushed(V))
        /\ \A x \in 1..Len(V) : \E j \in 1..Len(U) : U[j].t = "push" /\ V[x] = U[j]
    BY <1>1, PrefixFounded
  <1>4. Len(E) = 0
    OBVIOUS
  <1> HIDE DEF e, p, V, Y, M, E, M2, h
  <1>5. M2 \subseteq M
    <2> SUFFICES ASSUME NEW x \in M2 PROVE x \in M
      OBVIOUS
    <2>1. CASE \E j \in 1..Len(q) : x = Bare(q[j])
      <3>1. PICK j \in 1..Len(q) : x = Bare(q[j])
        BY <2>1
      <3>2. x = Bare(p[j]) /\ j \in 1..Len(p)
        BY <1>2, <3>1 DEF Bare
      <3> QED BY <3>2, MineOf DEF M, p
    <2>2. CASE \/ \E b \in A : x = Bare(b)
               \/ \E j \in 1..Len(s.pending) : x = Bare(s.pending[j])
      BY <2>2, MineOf DEF M
    <2>3. ~\E j \in 1..Len(E) : E[j].t = "push" /\ x = Bare(E[j].batch)
      BY <1>4
    <2> QED BY <2>1, <2>2, <2>3, MineOf DEF M2
  <1>6. Kept(T, K, A, q, h)
    BY <1>1, <1>2 DEF Kept
  <1>7. Founded(T, K, Len(q), Queued(q))
    <2>1. Queued(q) = Queued(p)
      BY <1>2 DEF Queued
    <2> QED BY <1>1, <1>2, <2>1
  <1>8. ASSUME NEW x \in 1..Len(V) PROVE V[x].t = "push" /\ Decent(K, V[x].batch.ops)
    <2>1. PICK j \in 1..Len(U) : U[j].t = "push" /\ V[x] = U[j]
      BY <1>3
    <2>2. Bare(V[x].batch) \in M
      BY <2>1, MineOf DEF M
    <2> QED BY <1>1, <2>1, <2>2 DEF Bare
  <1>9. /\ IsSeq(Y) /\ Len(Z) \in Nat /\ Len(V) \in Nat /\ Len(Y) = Len(Z) + Len(V)
        /\ \A x \in 1..Len(Z) : Y[x] = Z[x]
        /\ \A x \in 1..Len(V) : Y[Len(Z) + x] = V[x]
        /\ \A x \in 1..Len(Z) + Len(V) : x \in 1..Len(Z) \/ \E j \in 1..Len(V) : x = Len(Z) + j
    BY <1>1, <1>3, SeqConcat DEF Y
  <1>10. \A x \in 1..Len(Y) : Y[x].t = "push" /\ Decent(K, Y[x].batch.ops)
    <2> TAKE x \in 1..Len(Y)
    <2>1. CASE x \in 1..Len(Z)
      BY <1>1, <1>9, <2>1
    <2>2. CASE \E j \in 1..Len(V) : x = Len(Z) + j
      BY <1>8, <1>9, <2>2
    <2> QED BY <1>9, <2>1, <2>2
  <1>11. Founded(T, K, Len(Y), Pushed(Y))
    <2> DEFINE n == Len(Z)
               m == Len(V)
               Q == Pushed(Z)
               O == Pushed(V)
               W == Pushed(Y)
    <2>1. /\ \A x \in 1..n : Q[x] = IF Z[x].t = "push" THEN Z[x].batch.ops ELSE NoOps(0)
          /\ \A x \in 1..m : O[x] = IF V[x].t = "push" THEN V[x].batch.ops ELSE NoOps(0)
          /\ \A x \in 1..n + m : W[x] = IF Y[x].t = "push" THEN Y[x].batch.ops ELSE NoOps(0)
      BY <1>9 DEF Pushed
    <2>2. /\ n \in Nat /\ m \in Nat
          /\ \A x \in 1..n : Y[x] = Z[x] /\ x \in 1..n + m
          /\ \A x \in 1..m : Y[n + x] = V[x] /\ n + x \in 1..n + m
      BY <1>9
    <2>3. Founded(T, K, n, Q) /\ Founded(T, K, m, O)
      BY <1>1, <1>3
    <2> HIDE DEF n, m, Q, O, W
    <2>4. /\ \A x \in 1..n : W[x] = Q[x]
          /\ \A x \in 1..m : W[n + x] = O[x]
      <3>1. ASSUME NEW x \in 1..n PROVE W[x] = Q[x]
        BY <2>1, <2>2
      <3>2. ASSUME NEW x \in 1..m PROVE W[n + x] = O[x]
        BY <2>1, <2>2
      <3> QED BY <3>1, <3>2
    <2>5. \A x \in 1..m : \A i \in Ids : Loose(O[x], i) =>
               \/ Known(T[i], K[i])
               \/ \E j \in 1..(x - 1) : Grounds(O[j], i)
               \/ \E j \in 1..n : Grounds(Q[j], i)
      BY <2>3 DEF Founded
    <2>6. Founded(T, K, n + m, W)
      BY <2>2, <2>3, <2>4, <2>5, FoundedMore
    <2> QED BY <1>9, <2>6 DEF n, m, W
  <1>12. InFlight(T, K, q, E)
    BY <1>2 DEF InFlight
  <1>13. AcksTrue(T, K, M2, E, h) /\ CopiesSent(T, K, E) /\ Founded(T, K, Len(E), Pushed(E))
    BY <1>4 DEF AcksTrue, CopiesSent, Founded
  <1>14. Numbered(M2, h) /\ Single(M2) /\ \A x \in M2 : Decent(K, x.ops)
    BY <1>1, <1>5, FewerMine
  <1>15. Ledger(T, K, c, "down", e, s, E, E, Y, A)
    BY <1>2, <1>6, <1>7, <1>9, <1>10, <1>11, <1>12, <1>13, <1>14 DEF Ledger, M2, h
  <1> QED BY <1>15 DEF e, E, Y, V

(* A crash: the device is what it saved, and the batches it minted since are
   gone. *)
LEMMA LedgerBack ==
    ASSUME NEW T, NEW K, NEW c, NEW v, NEW d, NEW s, NEW Z, NEW A,
           Ledger(T, K, c, v, d, s, << >>, << >>, Z, A),
           NEW B, \A b \in B : b \in A /\ (b.id \in Nat => b.id <= Hlc(c, s.tick))
    PROVE  Ledger(T, K, c, "off", s, s, << >>, << >>, Z, B)
  <1> DEFINE E == << >>
             M == Mine(d, s, E, A)
             M2 == Mine(s, s, E, B)
             h == Hlc(c, d.tick)
             g == Hlc(c, s.tick)
  <1>1. /\ Numbered(M, h) /\ Single(M) /\ \A x \in M : Decent(K, x.ops)
        /\ Kept(T, K, A, s.pending, g) /\ s.tick \in Nat
        /\ Entered(s.pending) /\ \A k \in 1..Len(s.pending) : s.pending[k].id <= g
        /\ \A k \in 1..Len(s.pending) : s.pending[k].sent = FALSE
    BY DEF Ledger
  <1>2. Len(E) = 0
    OBVIOUS
  <1> HIDE DEF E, M, M2, h, g
  <1>3. ASSUME NEW x \in M2 PROVE x \in M /\ x.id \in Nat /\ x.id <= g
    <2>1. CASE \E b \in B : x = Bare(b)
      <3>1. PICK b \in B : x = Bare(b)
        BY <2>1
      <3>2. x \in M /\ x.id = b.id
        BY <3>1, MineOf DEF M, Bare
      <3>3. x.id \in Nat
        BY <1>1, <3>2 DEF Numbered
      <3> QED BY <3>1, <3>2, <3>3 DEF g
    <2>2. CASE \E k \in 1..Len(s.pending) : x = Bare(s.pending[k])
      <3>1. PICK k \in 1..Len(s.pending) : x = Bare(s.pending[k])
        BY <2>2
      <3>2. x \in M /\ x.id = s.pending[k].id
        BY <3>1, MineOf DEF M, Bare
      <3> QED BY <1>1, <3>2 DEF Numbered
    <2>3. ~\E k \in 1..Len(E) : E[k].t = "push" /\ x = Bare(E[k].batch)
      BY <1>2
    <2> QED BY <2>1, <2>2, <2>3, MineOf DEF M2
  <1>4. Numbered(M2, g) /\ Single(M2) /\ \A x \in M2 : Decent(K, x.ops)
    BY <1>1, <1>3 DEF Numbered, Single
  <1>5. Kept(T, K, B, s.pending, g)
    BY <1>1 DEF Kept
  <1>6. InFlight(T, K, s.pending, E)
    BY <1>1 DEF InFlight
  <1>7. AcksTrue(T, K, M2, E, g) /\ CopiesSent(T, K, E) /\ Founded(T, K, Len(E), Pushed(E))
    BY <1>2 DEF AcksTrue, CopiesSent, Founded
  <1>8. s.tick <= s.tick
    BY <1>1
  <1>9. Ledger(T, K, c, "off", s, s, E, E, Z, B)
    BY <1>1, <1>4, <1>5, <1>6, <1>7, <1>8 DEF Ledger, M2, g
  <1> QED BY <1>9 DEF E

(* A snapshot: the batches of the replica, all to be sent again. *)
LEMMA LedgerSave ==
    ASSUME NEW T, NEW K, NEW c, NEW v, v # "off", NEW d, NEW s, NEW U, NEW D, NEW Z, NEW A,
           Ledger(T, K, c, v, d, s, U, D, Z, A),
           NEW e, e.auth = d.auth, e.tick = d.tick, Entered(e.pending), Len(e.pending) = Len(d.pending),
           \A k \in 1..Len(e.pending) : /\ e.pending[k].id = d.pending[k].id
                                        /\ e.pending[k].ops = d.pending[k].ops
                                        /\ e.pending[k].sent = FALSE
    PROVE  Ledger(T, K, c, v, d, e, U, D, Z, A)
  <1> DEFINE p == d.pending
             q == e.pending
             M == Mine(d, s, U, A)
             M2 == Mine(d, e, U, A)
             h == Hlc(c, d.tick)
  <1>1. /\ d.tick \in Nat /\ Entered(p) /\ Numbered(M, h) /\ Single(M) /\ \A x \in M : Decent(K, x.ops)
        /\ Kept(T, K, A, p, h) /\ AcksTrue(T, K, M, D, h)
        /\ Founded(T, K, Len(p), Queued(p)) /\ Copies(T, K, d.auth)
    BY DEF Ledger
  <1>2. /\ Entered(q) /\ Len(q) = Len(p)
        /\ \A x \in 1..Len(q) : q[x].id = p[x].id /\ q[x].ops = p[x].ops /\ q[x].sent = FALSE
    OBVIOUS
  <1> HIDE DEF p, q, M, M2, h
  <1>3. \A k \in 1..Len(q) : Bare(q[k]) = Bare(p[k]) /\ Bare(p[k]) \in M /\ Bare(p[k]).id = q[k].id
    BY <1>2, MineOf DEF Bare, M, p
  <1>4. M2 \subseteq M
    <2> SUFFICES ASSUME NEW x \in M2 PROVE x \in M
      OBVIOUS
    <2>1. CASE \E j \in 1..Len(q) : x = Bare(q[j])
      BY <1>3, <2>1
    <2>2. CASE \/ \E b \in A : x = Bare(b)
               \/ \E j \in 1..Len(p) : x = Bare(p[j])
               \/ \E j \in 1..Len(U) : U[j].t = "push" /\ x = Bare(U[j].batch)
      BY <2>2, MineOf DEF M, p
    <2> QED BY <2>1, <2>2, MineOf DEF M2, p, q
  <1>5. Kept(T, K, A, q, h)
    BY <1>1, <1>2 DEF Kept
  <1>6. Founded(T, K, Len(q), Queued(q))
    <2>1. Queued(q) = Queued(p)
      BY <1>2 DEF Queued
    <2> QED BY <1>1, <1>2, <2>1
  <1>7. \A k \in 1..Len(q) : q[k].id <= h
    BY <1>1, <1>3 DEF Numbered
  <1>8. AcksTrue(T, K, M2, D, h) /\ Numbered(M2, h) /\ Single(M2) /\ \A x \in M2 : Decent(K, x.ops)
    BY <1>1, <1>4, FewerMine
  <1> QED BY <1>1, <1>2, <1>5, <1>6, <1>7, <1>8 DEF Ledger, M2, h, p, q

(* The engine starts, without a socket. *)
LEMMA LedgerStart ==
    ASSUME NEW T, NEW K, NEW c, NEW v, NEW d, NEW s, NEW U, NEW D, NEW Z, NEW A,
           Ledger(T, K, c, v, d, s, U, D, Z, A)
    PROVE  Ledger(T, K, c, "down", d, s, U, D, Z, A)
  BY DEF Ledger

(* A new socket: a hello, and nothing in either direction. *)
LEMMA LedgerDial ==
    ASSUME NEW T, NEW K, NEW c, NEW v, NEW d, NEW s, NEW Z, NEW A,
           Ledger(T, K, c, v, d, s, << >>, << >>, Z, A), NEW n
    PROVE  Ledger(T, K, c, "hello", d, s, <<Hello(n)>>, << >>, Z, A)
  <1> DEFINE E == << >>
             W == <<Hello(n)>>
  <1>1. Len(E) = 0 /\ Len(W) = 1 /\ W[1].t = "hello"
    BY DEF Hello
  <1>2. \A k \in 1..Len(W) : W[k].t # "push"
    BY <1>1
  <1> HIDE DEF E, W
  <1>3. Mine(d, s, W, A) = Mine(d, s, E, A)
    <2>1. \A x : x \in Mine(d, s, W, A) <=> x \in Mine(d, s, E, A)
      BY <1>1, <1>2, MineOf
    <2> QED BY <2>1
  <1>4. \A x \in 1..Len(W) : \A i \in Ids : ~Loose(Pushed(W)[x], i)
    <2> TAKE x \in 1..Len(W)
    <2>1. Pushed(W)[x] = NoOps(0)
      BY <1>2 DEF Pushed
    <2> QED BY <2>1 DEF Loose, NoOps, Op
  <1>5. Founded(T, K, Len(W), Pushed(W))
    BY <1>4 DEF Founded
  <1>6. InFlight(T, K, d.pending, E) => InFlight(T, K, d.pending, W)
    BY <1>1 DEF InFlight
  <1>7. Gaps(K, d.auth, E)
    BY <1>1 DEF Gaps
  <1>8. Ledger(T, K, c, v, d, s, E, E, Z, A)
    BY DEF E
  <1>9. Ledger(T, K, c, "hello", d, s, W, E, Z, A)
    BY <1>3, <1>5, <1>6, <1>7, <1>8 DEF Ledger
  <1> QED BY <1>9 DEF E, W

(* The room sends a frame: an ack of what it has dealt with, or rows it holds. *)
LEMMA LedgerSent ==
    ASSUME NEW T, NEW K, NEW c, NEW v, NEW d, NEW s, NEW U, NEW D, NEW Z, NEW A,
           Ledger(T, K, c, v, d, s, U, D, Z, A), IsSeq(D), NEW f,
           f.t = "ack" => /\ f.batch \in Nat /\ f.batch <= Hlc(c, d.tick)
                          /\ \A x \in Mine(d, s, U, A) : x.id = f.batch => SettledIn(T, K, x.ops),
           f.t # "ack" => Copies(T, K, f.rows),
           v = "hello" /\ f.t = "state" /\ f.full =>
               \A i \in Ids : f.rows[i].st = "none" => Outlived(d.auth[i], K[i])
    PROVE  Ledger(T, K, c, v, d, s, U, Append(D, f), Z, A)
  <1> DEFINE E == Append(D, f)
             M == Mine(d, s, U, A)
             h == Hlc(c, d.tick)
  <1>1. /\ Len(D) \in Nat /\ Len(E) = Len(D) + 1
        /\ \A k \in 1..Len(D) : E[k] = D[k]
        /\ E[Len(D) + 1] = f
    BY SeqAppend
  <1>2. AcksTrue(T, K, M, D, h) /\ CopiesSent(T, K, D) /\ (v = "hello" => Gaps(K, d.auth, D))
    BY DEF Ledger
  <1>3. f.t = "ack" => /\ f.batch \in Nat /\ f.batch <= h
                       /\ \A x \in M : x.id = f.batch => SettledIn(T, K, x.ops)
    OBVIOUS
  <1> HIDE DEF E, M, h
  <1>4. \A k \in 1..Len(E) : (k \in 1..Len(D) /\ E[k] = D[k]) \/ E[k] = f
    BY <1>1
  <1>5. AcksTrue(T, K, M, E, h)
    BY <1>2, <1>3, <1>4 DEF AcksTrue
  <1>6. CopiesSent(T, K, E)
    BY <1>2, <1>4 DEF CopiesSent
  <1>7. v = "hello" => Gaps(K, d.auth, E)
    BY <1>2, <1>4 DEF Gaps
  <1>8. Ledger(T, K, c, v, d, s, U, E, Z, A)
    BY <1>5, <1>6, <1>7 DEF Ledger, M, h
  <1> QED BY <1>8 DEF E

(* The room has read a frame of the device: the rows a push makes are known. *)
LEMMA LedgerHeard ==
    ASSUME NEW T, NEW K, NEW c, NEW v, NEW d, NEW s, NEW U, NEW D, NEW Z, NEW A,
           Ledger(T, K, c, v, d, s, U, D, Z, A), IsSeq(U), U # << >>,
           Head(U).t = "push" => \A i \in Ids : Grounds(Head(U).batch.ops, i) => Known(T[i], K[i])
    PROVE  Ledger(T, K, c, v, d, s, Tail(U), D, Z, A)
  <1> DEFINE W == Tail(U)
             p == d.pending
             M == Mine(d, s, U, A)
             M2 == Mine(d, s, W, A)
             h == Hlc(c, d.tick)
             n == Len(U)
             Q == Pushed(U)
             O == Pushed(W)
  <1>1. /\ IsSeq(W) /\ n \in Nat /\ n # 0 /\ Len(W) = n - 1
        /\ \A k \in 1..(n - 1) : W[k] = U[k + 1]
        /\ Head(U) = U[1] /\ 1 \in 1..n
    BY SeqTail
  <1>2. /\ Numbered(M, h) /\ Single(M) /\ \A x \in M : Decent(K, x.ops)
        /\ AcksTrue(T, K, M, D, h) /\ Founded(T, K, n, Q) /\ InFlight(T, K, p, U)
    BY DEF Ledger
  <1>3. /\ \A k \in 1..n : Q[k] = IF U[k].t = "push" THEN U[k].batch.ops ELSE NoOps(0)
        /\ \A k \in 1..Len(W) : O[k] = IF W[k].t = "push" THEN W[k].batch.ops ELSE NoOps(0)
    BY DEF Pushed
  <1>4. U[1].t = "push" => \A i \in Ids : Grounds(U[1].batch.ops, i) => Known(T[i], K[i])
    BY <1>1
  <1>5. M2 \subseteq M
    <2> SUFFICES ASSUME NEW x \in M2 PROVE x \in M
      OBVIOUS
    <2> HIDE DEF W, M, M2, n
    <2>1. \A k \in 1..Len(W) : W[k] = U[k + 1] /\ k + 1 \in 1..n
      BY <1>1
    <2> QED BY <2>1, MineOf DEF M2, M, n
  <1> HIDE DEF W, M, M2, h, n, Q, O, p
  <1>6. Founded(T, K, Len(W), O)
    <2>1. \A k \in 1..(n - 1) : k + 1 \in 1..n
      BY <1>1
    <2>2. \A k \in 1..(n - 1) : O[k] = Q[k + 1]
      BY <1>1, <1>3, <2>1
    <2>3. \A i \in Ids : Grounds(Q[1], i) => Known(T[i], K[i])
      <3>1. CASE U[1].t = "push"
        BY <1>1, <1>3, <1>4, <3>1
      <3>2. CASE U[1].t # "push"
        <4>1. Q[1] = NoOps(0)
          BY <1>1, <1>3, <3>2
        <4> QED BY <4>1 DEF Grounds, NoOps, Op
      <3> QED BY <3>1, <3>2
    <2>4. Founded(T, K, n - 1, O)
      BY <1>1, <1>2, <2>2, <2>3, FoundedRest
    <2> QED BY <1>1, <2>4
  <1>7. InFlight(T, K, p, W)
    <2> SUFFICES ASSUME NEW k \in 1..Len(p), p[k].sent, NEW i \in Ids, Grounds(p[k].ops, i), ~Known(T[i], K[i])
                 PROVE  \E x \in 1..Len(W) : W[x].t = "push" /\ Grounds(W[x].batch.ops, i)
      BY DEF InFlight
    <2>1. PICK m \in 1..n : U[m].t = "push" /\ Grounds(U[m].batch.ops, i)
      BY <1>2 DEF InFlight, n
    <2>2. m # 1
      BY <1>4, <2>1
    <2>3. m - 1 \in 1..Len(W) /\ m - 1 \in 1..(n - 1) /\ (m - 1) + 1 = m
      BY <1>1, <2>2
    <2>4. W[m - 1] = U[m]
      BY <1>1, <2>3
    <2> QED BY <2>1, <2>3, <2>4
  <1>8. AcksTrue(T, K, M2, D, h) /\ Numbered(M2, h) /\ Single(M2) /\ \A x \in M2 : Decent(K, x.ops)
    BY <1>2, <1>5, FewerMine
  <1>9. Ledger(T, K, c, v, d, s, W, D, Z, A)
    BY <1>6, <1>7, <1>8 DEF Ledger, M2, h, p, O
  <1> QED BY <1>9 DEF W

(* The room has read a push of a dead socket. *)
LEMMA LedgerStray ==
    ASSUME NEW T, NEW K, NEW c, NEW v, NEW d, NEW s, NEW U, NEW D, NEW Z, NEW A,
           Ledger(T, K, c, v, d, s, U, D, Z, A), Z # << >>,
           \A i \in Ids : Grounds(Head(Z).batch.ops, i) => Known(T[i], K[i])
    PROVE  Ledger(T, K, c, v, d, s, U, D, Tail(Z), A)
  <1> DEFINE W == Tail(Z)
             n == Len(Z)
             Q == Pushed(Z)
             O == Pushed(W)
  <1>1. /\ IsSeq(Z) /\ Founded(T, K, n, Q)
        /\ \A k \in 1..n : Z[k].t = "push" /\ Decent(K, Z[k].batch.ops)
    BY DEF Ledger
  <1>2. /\ IsSeq(W) /\ n \in Nat /\ n # 0 /\ Len(W) = n - 1
        /\ \A k \in 1..(n - 1) : W[k] = Z[k + 1]
        /\ Head(Z) = Z[1] /\ 1 \in 1..n
    BY <1>1, SeqTail
  <1>3. /\ \A k \in 1..n : Q[k] = IF Z[k].t = "push" THEN Z[k].batch.ops ELSE NoOps(0)
        /\ \A k \in 1..Len(W) : O[k] = IF W[k].t = "push" THEN W[k].batch.ops ELSE NoOps(0)
    BY DEF Pushed
  <1>4. \A i \in Ids : Grounds(Z[1].batch.ops, i) => Known(T[i], K[i])
    BY <1>2
  <1> HIDE DEF W, n, Q, O
  <1>5. \A k \in 1..(n - 1) : k + 1 \in 1..n
    BY <1>2
  <1>6. \A k \in 1..(n - 1) : O[k] = Q[k + 1]
    BY <1>2, <1>3, <1>5
  <1>7. Q[1] = Z[1].batch.ops
    BY <1>1, <1>2, <1>3
  <1>8. Founded(T, K, n - 1, O)
    <2>1. \A i \in Ids : Grounds(Q[1], i) => Known(T[i], K[i])
      BY <1>4, <1>7
    <2> QED BY <1>1, <1>2, <1>6, <2>1, FoundedRest
  <1>9. \A k \in 1..Len(W) : W[k].t = "push" /\ Decent(K, W[k].batch.ops)
    BY <1>1, <1>2, <1>5
  <1>10. Founded(T, K, Len(W), O)
    BY <1>2, <1>8
  <1>11. Ledger(T, K, c, v, d, s, U, D, W, A)
    BY <1>2, <1>9, <1>10 DEF Ledger, O
  <1> QED BY <1>11 DEF W

-----------------------------------------------------------------------------
(* The steps of a device. *)

LEMMA LedgerFacts ==
    ASSUME Ledgers, NEW c \in Clients
    PROVE  /\ LedgerOf(c) /\ Entered(doc[c].pending) /\ Entered(saved[c].pending)
           /\ doc[c].tick \in Nat /\ (conn[c] = "off" => doc[c] = saved[c])
           /\ \A i \in Ids : RowOK(rows[i], killed[i]) /\ killed[i] \in Nat
           /\ left.ticks[c] \in Nat
  <1>1. LedgerOf(c) /\ \A i \in Ids : RowOK(rows[i], killed[i])
    BY DEF Ledgers
  <1>2. /\ Entered(doc[c].pending) /\ Entered(saved[c].pending)
        /\ doc[c].tick \in Nat /\ (conn[c] = "off" => doc[c] = saved[c])
    BY <1>1 DEF LedgerOf, Ledger
  <1>3. left.ticks[c] \in Nat
    BY DEF Ledgers, Budget
  <1> QED BY <1>1, <1>2, <1>3 DEF RowOK

LEMMA SocketFacts ==
    ASSUME Core, Honesty, NEW c \in Clients
    PROVE  IsDoc(doc[c]) /\ IsDoc(saved[c]) /\ IsSeq(up[c]) /\ IsSeq(down[c])
  BY DEF Core, ClientOK, CursorsUpTo, FramesUpTo, Honesty, Informed, Greeting

\* The bounds shrink and stay bounds.
LEMMA Spent ==
    ASSUME left \in Budget
    PROVE  /\ left.writes > 0 => [left EXCEPT !.writes = @ - 1] \in Budget
           /\ left.drops > 0 => [left EXCEPT !.drops = @ - 1] \in Budget
           /\ left.crashes > 0 => [left EXCEPT !.crashes = @ - 1] \in Budget
           /\ left.gcs > 0 => [left EXCEPT !.gcs = @ - 1] \in Budget
  BY DEF Budget

(* A step of device c that leaves the room and the other devices alone. *)
LEMMA LedgerElsewhere ==
    ASSUME Ledgers, NEW c \in Clients, UNCHANGED <<rows, killed>>, left' \in Budget, LedgerOf(c)',
           stray' = [k \in Clients |-> stray'[k]],
           issued' = [k \in Clients |-> issued'[k]], lost' = [k \in Clients |-> lost'[k]],
           \A k \in Clients : k # c => /\ doc'[k] = doc[k] /\ saved'[k] = saved[k] /\ conn'[k] = conn[k]
                                       /\ up'[k] = up[k] /\ down'[k] = down[k] /\ stray'[k] = stray[k]
                                       /\ issued'[k] = issued[k] /\ lost'[k] = lost[k]
    PROVE  Ledgers'
  <1>1. ASSUME NEW k \in Clients, k # c PROVE LedgerOf(k)'
    <2>1. LedgerOf(k)
      BY DEF Ledgers
    <2> QED BY <1>1, <2>1 DEF LedgerOf
  <1> QED BY <1>1 DEF Ledgers

\* The ops the typed API mints.
LEMMA MintedProper ==
    ASSUME NEW k, NEW kind \in {"upsert", "update", "delete"}, NEW put \in SUBSET Fields, NEW cut \in SUBSET Fields,
           NEW h \in Nat, h # 0, kind = "upsert" => put \cup cut # {}
    PROVE  Proper(k, Op(kind, put, cut, h))
  <1>1. Unclocked \in Clocks
    BY DEF Unclocked, Clocks, NoClock
  <1>2. Op(kind, put, cut, h) \in Ops
    BY <1>1 DEF Op, Ops
  <1> QED BY <1>2 DEF Proper, Op

LEMMA WriteLedger ==
    ASSUME Core, Honesty, Ledgers, NEW c \in Clients, NEW t \in Nat, NEW ops, Write(c, t, ops),
           Decent(killed, ops),
           \A i \in Ids : Loose(ops, i) =>
               \/ Known(rows[i], killed[i])
               \/ \E k \in 1..Len(doc[c].pending) : Grounds(doc[c].pending[k].ops, i)
    PROVE  Ledgers'
  <1> DEFINE e == EnqueueOps(doc[c], t, Hlc(c, t), ops)
             A == issued[c] \ lost[c]
             w == [id |-> Hlc(c, t), ops |-> ops]
             B == (issued[c] \cup {w}) \ lost[c]
  <1>1. /\ doc' = [doc EXCEPT ![c] = e] /\ issued' = [issued EXCEPT ![c] = issued[c] \cup {w}]
        /\ UNCHANGED <<rows, killed, saved, conn, up, down, stray, lost>>
        /\ conn[c] # "off" /\ t > doc[c].tick
        /\ left.writes > 0 /\ left' = [left EXCEPT !.writes = @ - 1]
    BY DEF Write, Mint, Mintable, room
  <1>2. /\ doc = [k \in Clients |-> doc[k]] /\ issued = [k \in Clients |-> issued[k]]
        /\ stray = [k \in Clients |-> stray[k]] /\ lost = [k \in Clients |-> lost[k]] /\ left \in Budget
    BY DEF Core, Functions, Ledgers
  <1>3. IsDoc(doc[c]) /\ LedgerOf(c)
    BY SocketFacts, LedgerFacts
  <1>4. Ledger(rows, killed, c, conn[c], doc[c], saved[c], up[c], down[c], stray[c], A)
    BY <1>3 DEF LedgerOf
  <1>5. B \subseteq A \cup {[id |-> Hlc(c, t), ops |-> ops]}
    OBVIOUS
  <1>6. left' \in Budget
    BY <1>1, <1>2, Spent
  <1> HIDE DEF A, B
  <1>7. Ledger(rows, killed, c, conn[c], e, saved[c], up[c], down[c], stray[c], B)
    BY <1>1, <1>3, <1>4, <1>5, LedgerMint
  <1> HIDE DEF e, w
  <1>8. /\ doc'[c] = e /\ issued'[c] = issued[c] \cup {w}
        /\ issued' = [k \in Clients |-> issued'[k]]
        /\ \A k \in Clients : k # c => doc'[k] = doc[k] /\ issued'[k] = issued[k]
    BY <1>1, <1>2
  <1>9. LedgerOf(c)'
    BY <1>1, <1>7, <1>8 DEF LedgerOf, B
  <1> QED BY <1>1, <1>2, <1>6, <1>8, <1>9, LedgerElsewhere

\* A row is shown only if the room knows it or will.
LEMMA ShownKnown ==
    ASSUME Ledgers, NEW c \in Clients, NEW i \in Ids, RowExists(doc[c], i)
    PROVE  \/ Known(rows[i], killed[i])
           \/ \E k \in 1..Len(doc[c].pending) : Grounds(doc[c].pending[k].ops, i)
  <1>1. IsSeq(doc[c].pending) /\ LedgerOf(c)
    BY LedgerFacts DEF Entered
  <1>2. Below(doc[c].auth[i], rows[i], killed[i])
    BY <1>1 DEF LedgerOf, Ledger, Copies
  <1>3. CASE doc[c].auth[i].st = "none"
    BY <1>1, <1>3, ShownRow DEF RowExists
  <1>4. CASE doc[c].auth[i].st # "none"
    BY <1>2, <1>4 DEF Below
  <1> QED BY <1>3, <1>4

LEMMA UpsertLedger == ASSUME Core, Honesty, Ledgers, NEW c \in Clients, Upsert(c) PROVE Ledgers'
  <1>1. PICK t \in 1..left.ticks[c], i \in Ids, put \in SUBSET Fields, cut \in SUBSET Fields :
            /\ put # {}
            /\ Write(c, t, [NoOps(Hlc(c, t)) EXCEPT ![i] = Op("upsert", put, cut, Hlc(c, t))])
    BY DEF Upsert
  <1>2. t \in Nat /\ Hlc(c, t) \in Nat /\ Hlc(c, t) # 0
    BY LedgerFacts, HlcOrder
  <1> DEFINE h == Hlc(c, t)
             ops == [NoOps(h) EXCEPT ![i] = Op("upsert", put, cut, h)]
  <1>3. \A j \in Ids : ops[j] = IF j = i THEN Op("upsert", put, cut, h) ELSE Op("update", {}, {}, h)
    BY DEF NoOps
  <1>4. Write(c, t, ops)
    BY <1>1
  <1>5. h \in Nat /\ h # 0
    BY <1>2
  <1> HIDE DEF ops, h
  <1>6. \A k : Proper(k, Op("upsert", put, cut, h)) /\ Proper(k, Op("update", {}, {}, h))
    BY <1>1, <1>5, MintedProper
  <1>7. Decent(killed, ops)
    BY <1>3, <1>6 DEF Decent
  <1>8. \A j \in Ids : ~Loose(ops, j)
    BY <1>3 DEF Loose, Op
  <1> QED BY <1>2, <1>4, <1>7, <1>8, WriteLedger

LEMMA UpdateLedger == ASSUME Core, Honesty, Ledgers, NEW c \in Clients, Update(c) PROVE Ledgers'
  <1>1. PICK t \in 1..left.ticks[c], i \in Ids, put \in SUBSET Fields, cut \in SUBSET Fields :
            /\ Write(c, t, [NoOps(Hlc(c, t)) EXCEPT ![i] = Op("update", put, cut, Hlc(c, t))])
            /\ RowExists(doc[c], i)
    BY DEF Update
  <1>2. t \in Nat /\ Hlc(c, t) \in Nat /\ Hlc(c, t) # 0
    BY LedgerFacts, HlcOrder
  <1> DEFINE h == Hlc(c, t)
             ops == [NoOps(h) EXCEPT ![i] = Op("update", put, cut, h)]
  <1>3. \A j \in Ids : ops[j] = IF j = i THEN Op("update", put, cut, h) ELSE Op("update", {}, {}, h)
    BY DEF NoOps
  <1>4. Write(c, t, ops)
    BY <1>1
  <1>5. h \in Nat /\ h # 0
    BY <1>2
  <1> HIDE DEF ops, h
  <1>6. \A k : Proper(k, Op("update", put, cut, h)) /\ Proper(k, Op("update", {}, {}, h))
    BY <1>5, MintedProper
  <1>7. Decent(killed, ops)
    BY <1>3, <1>6 DEF Decent
  <1>8. \A j \in Ids : Loose(ops, j) => j = i
    BY <1>3 DEF Loose, Op
  <1> QED BY <1>1, <1>2, <1>4, <1>7, <1>8, ShownKnown, WriteLedger

LEMMA CascadeLedger == ASSUME Core, Honesty, Ledgers, NEW c \in Clients, Cascade(c) PROVE Ledgers'
  <1>1. PICK t \in 1..left.ticks[c], D \in SUBSET Ids, U \in SUBSET Ids :
            /\ Write(c, t, [i \in Ids |->
                    IF i \in D THEN Op("delete", {}, {}, Hlc(c, t))
                    ELSE IF i \in U THEN Op("update", Fields, {}, Hlc(c, t))
                    ELSE NoOps(Hlc(c, t))[i]])
            /\ \A i \in U : RowExists(doc[c], i)
    BY DEF Cascade
  <1>2. t \in Nat /\ Hlc(c, t) \in Nat /\ Hlc(c, t) # 0
    BY LedgerFacts, HlcOrder
  <1> DEFINE h == Hlc(c, t)
             ops == [i \in Ids |-> IF i \in D THEN Op("delete", {}, {}, h)
                                   ELSE IF i \in U THEN Op("update", Fields, {}, h)
                                   ELSE NoOps(h)[i]]
  <1>3. \A i \in Ids : ops[i] = IF i \in D THEN Op("delete", {}, {}, h)
                                ELSE IF i \in U THEN Op("update", Fields, {}, h)
                                ELSE Op("update", {}, {}, h)
    BY DEF NoOps
  <1>4. Write(c, t, ops)
    BY <1>1
  <1>5. h \in Nat /\ h # 0
    BY <1>2
  <1> HIDE DEF ops, h
  <1>6. \A k : /\ Proper(k, Op("delete", {}, {}, h)) /\ Proper(k, Op("update", Fields, {}, h))
               /\ Proper(k, Op("update", {}, {}, h))
    BY <1>5, MintedProper
  <1>7. Decent(killed, ops)
    BY <1>3, <1>6 DEF Decent
  <1>8. \A i \in Ids : Loose(ops, i) => i \in U
    BY <1>3 DEF Loose, Op
  <1> QED BY <1>1, <1>2, <1>4, <1>7, <1>8, ShownKnown, WriteLedger

LEMMA SaveLedger == ASSUME Core, Honesty, Ledgers, NEW c \in Clients, Save(c) PROVE Ledgers'
  <1> DEFINE d == doc[c]
             e == Snapshot(d)
             A == issued[c] \ lost[c]
  <1>1. /\ saved' = [saved EXCEPT ![c] = e] /\ conn[c] # "off"
        /\ UNCHANGED <<rows, killed, doc, conn, up, down, stray, issued, lost, left>>
    BY DEF Save, room
  <1>2. /\ saved = [k \in Clients |-> saved[k]] /\ issued = [k \in Clients |-> issued[k]]
        /\ stray = [k \in Clients |-> stray[k]] /\ lost = [k \in Clients |-> lost[k]] /\ left \in Budget
    BY DEF Core, Functions, Ledgers
  <1>3. IsDoc(d) /\ Entered(d.pending) /\ LedgerOf(c)
    BY SocketFacts, LedgerFacts
  <1>4. /\ e.auth = d.auth /\ e.tick = d.tick /\ Entered(e.pending) /\ Len(e.pending) = Len(d.pending)
        /\ \A k \in 1..Len(e.pending) : /\ e.pending[k].id = d.pending[k].id
                                        /\ e.pending[k].ops = d.pending[k].ops
                                        /\ e.pending[k].sent = FALSE
    BY <1>3, DisconnectedOf DEF Snapshot
  <1>5. Ledger(rows, killed, c, conn[c], d, saved[c], up[c], down[c], stray[c], A)
    BY <1>3 DEF LedgerOf
  <1> HIDE DEF d, e, A
  <1>6. Ledger(rows, killed, c, conn[c], d, e, up[c], down[c], stray[c], A)
    BY <1>1, <1>4, <1>5, LedgerSave
  <1>7. saved'[c] = e /\ \A k \in Clients : k # c => saved'[k] = saved[k]
    BY <1>1, <1>2
  <1>8. LedgerOf(c)'
    BY <1>1, <1>6, <1>7 DEF LedgerOf, A, d
  <1> QED BY <1>1, <1>2, <1>7, <1>8, LedgerElsewhere

(* The engine starts from its snapshot, upserts its device row and saves. *)
LEMMA BootLedger == ASSUME Core, Honesty, Ledgers, NEW c \in Clients, Boot(c) PROVE Ledgers'
  <1>1. PICK t \in 1..left.ticks[c] :
            /\ Mintable(c, t)
            /\ Mint(c, t, saved[c],
                   [NoOps(Hlc(c, t)) EXCEPT ![DeviceRow[c]] = Op("upsert", Fields, {}, Hlc(c, t))])
    BY DEF Boot
  <1>2. t \in Nat /\ Hlc(c, t) \in Nat /\ Hlc(c, t) # 0
    BY LedgerFacts, HlcOrder
  <1> DEFINE h == Hlc(c, t)
             r == DeviceRow[c]
             ops == [NoOps(h) EXCEPT ![r] = Op("upsert", Fields, {}, h)]
             s == saved[c]
             e == EnqueueOps(s, t, h, ops)
             A == issued[c] \ lost[c]
             w == [id |-> h, ops |-> ops]
             B == (issued[c] \cup {w}) \ lost[c]
             n == Len(s.pending)
  <1>3. /\ doc' = [doc EXCEPT ![c] = e] /\ saved' = [saved EXCEPT ![c] = doc'[c]]
        /\ issued' = [issued EXCEPT ![c] = issued[c] \cup {w}]
        /\ conn[c] = "off" /\ conn' = [conn EXCEPT ![c] = "down"] /\ t > doc[c].tick
        /\ UNCHANGED <<rows, killed, up, down, stray, lost, left>>
    BY <1>1 DEF Boot, Mint, Mintable, room
  <1>4. doc[c] = s /\ IsDoc(s) /\ Entered(s.pending) /\ LedgerOf(c)
    BY <1>3, SocketFacts, LedgerFacts
  <1>5. /\ doc = [k \in Clients |-> doc[k]] /\ issued = [k \in Clients |-> issued[k]]
        /\ saved = [k \in Clients |-> saved[k]] /\ conn = [k \in Clients |-> conn[k]]
        /\ stray = [k \in Clients |-> stray[k]] /\ lost = [k \in Clients |-> lost[k]] /\ left \in Budget
    BY DEF Core, Functions, Ledgers
  <1>6. Ledger(rows, killed, c, "down", s, s, up[c], down[c], stray[c], A)
    BY <1>4, LedgerStart DEF LedgerOf
  <1>7. \A j \in Ids : ops[j] = IF j = r THEN Op("upsert", Fields, {}, h) ELSE Op("update", {}, {}, h)
    BY DEF NoOps
  <1>8. \A j \in 1..n : s.pending[j].sent = FALSE
    BY <1>6 DEF Ledger
  <1>9. t > s.tick
    BY <1>3, <1>4
  <1>10. B \subseteq A \cup {[id |-> Hlc(c, t), ops |-> ops]}
    OBVIOUS
  <1>11. h \in Nat /\ h # 0
    BY <1>2
  <1> HIDE DEF ops, r, A, B
  <1>12. Decent(killed, ops)
    <2>1. {} \in SUBSET Fields /\ Fields \in SUBSET Fields /\ Fields \cup {} # {}
      BY SyncAssumption
    <2> HIDE DEF h
    <2>2. \A k : Proper(k, Op("upsert", Fields, {}, h)) /\ Proper(k, Op("update", {}, {}, h))
      BY <1>11, <2>1, MintedProper
    <2> QED BY <1>7, <2>2 DEF Decent
  <1>13. \A j \in Ids : ~Loose(ops, j)
    BY <1>7 DEF Loose, Op
  <1>14. Ledger(rows, killed, c, "down", e, s, up[c], down[c], stray[c], B)
    <2> DEFINE d == s
    <2> HIDE DEF s
    <2> QED BY <1>2, <1>4, <1>6, <1>9, <1>10, <1>12, <1>13, LedgerMint
  <1>15. /\ Entered(e.pending) /\ n \in Nat /\ Len(e.pending) = n + 1
         /\ \A k \in 1..n : e.pending[k] = s.pending[k]
         /\ e.pending[n + 1] = [id |-> h, ops |-> ops, sent |-> FALSE]
    <2> HIDE DEF s, h
    <2> QED BY <1>4, EnqueueOf
  <1> HIDE DEF e, s, n, w, h
  <1>16. \A k \in 1..Len(e.pending) : e.pending[k].sent = FALSE
    <2>1. \A k \in 1..Len(e.pending) : k \in 1..n \/ k = n + 1
      BY <1>15
    <2> QED BY <1>8, <1>15, <2>1
  <1>17. Ledger(rows, killed, c, "down", e, e, up[c], down[c], stray[c], B)
    BY <1>14, <1>15, <1>16, LedgerSave
  <1>18. /\ doc'[c] = e /\ saved'[c] = e /\ issued'[c] = issued[c] \cup {w} /\ conn'[c] = "down"
         /\ issued' = [k \in Clients |-> issued'[k]]
         /\ \A k \in Clients : k # c => /\ doc'[k] = doc[k] /\ saved'[k] = saved[k]
                                        /\ issued'[k] = issued[k] /\ conn'[k] = conn[k]
    BY <1>3, <1>5
  <1>19. LedgerOf(c)'
    BY <1>3, <1>17, <1>18 DEF LedgerOf, B
  <1> QED BY <1>3, <1>5, <1>18, <1>19, LedgerElsewhere

(* A socket dies: the ledger of its device, still up, after the cut. *)
LEMMA CutLedger ==
    ASSUME Core, Honesty, Ledgers, NEW c \in Clients, conn[c] # "off", Cut(c)
    PROVE  /\ up'[c] = << >> /\ down'[c] = << >>
           /\ \A k \in Clients : k # c => up'[k] = up[k] /\ down'[k] = down[k] /\ stray'[k] = stray[k]
           /\ stray' = [k \in Clients |-> stray'[k]]
           /\ Ledger(rows, killed, c, "down", MarkDisconnected(doc[c]), saved[c], << >>, << >>, stray'[c],
                     issued[c] \ lost[c])
  <1>1. PICK k \in 0..Len(up[c]) :
            stray' = [stray EXCEPT ![c] = @ \o Entries(up[c], {j \in 1..k : up[c][j].t = "push"})]
    BY DEF Cut
  <1> DEFINE Z == stray[c] \o Entries(up[c], PushesUpTo(up[c], k))
             A == issued[c] \ lost[c]
  <1>2. /\ stray' = [stray EXCEPT ![c] = Z]
        /\ up' = [up EXCEPT ![c] = << >>] /\ down' = [down EXCEPT ![c] = << >>]
    BY <1>1 DEF Cut, PushesUpTo
  <1>3. /\ up = [j \in Clients |-> up[j]] /\ down = [j \in Clients |-> down[j]]
        /\ stray = [j \in Clients |-> stray[j]]
    BY DEF Core, Functions, Ledgers
  <1>4. IsDoc(doc[c]) /\ IsSeq(up[c])
    BY SocketFacts
  <1>5. Ledger(rows, killed, c, conn[c], doc[c], saved[c], up[c], down[c], stray[c], A)
    BY LedgerFacts DEF LedgerOf
  <1> HIDE DEF A
  <1>6. Ledger(rows, killed, c, "down", MarkDisconnected(doc[c]), saved[c], << >>, << >>, Z, A)
    BY <1>4, <1>5, LedgerCut
  <1> HIDE DEF Z
  <1> QED BY <1>2, <1>3, <1>6 DEF A

LEMMA DisconnectLedger == ASSUME Core, Honesty, Ledgers, NEW c \in Clients, Disconnect(c) PROVE Ledgers'
  <1>1. /\ doc' = [doc EXCEPT ![c] = MarkDisconnected(doc[c])] /\ conn' = [conn EXCEPT ![c] = "down"]
        /\ conn[c] # "off" /\ Cut(c)
        /\ UNCHANGED <<rows, killed, saved, issued, lost>>
    BY DEF Disconnect, room
  <1>2. /\ doc = [k \in Clients |-> doc[k]] /\ conn = [k \in Clients |-> conn[k]]
        /\ issued = [k \in Clients |-> issued[k]] /\ lost = [k \in Clients |-> lost[k]] /\ left \in Budget
    BY DEF Core, Functions, Ledgers
  <1>3. left' \in Budget
    BY <1>2, Spent DEF Disconnect
  <1>4. /\ doc'[c] = MarkDisconnected(doc[c]) /\ conn'[c] = "down"
        /\ \A k \in Clients : k # c => doc'[k] = doc[k] /\ conn'[k] = conn[k]
    BY <1>1, <1>2
  <1>5. LedgerOf(c)'
    BY <1>1, <1>4, CutLedger DEF LedgerOf
  <1> QED BY <1>1, <1>2, <1>3, <1>4, <1>5, CutLedger, LedgerElsewhere

LEMMA CrashLedger == ASSUME Core, Honesty, Ledgers, NEW c \in Clients, Crash(c) PROVE Ledgers'
  <1> DEFINE A == issued[c] \ lost[c]
             L == lost[c] \cup {b \in issued[c] : b.id > Hlc(c, saved[c].tick)}
             B == issued[c] \ L
  <1>1. /\ doc' = [doc EXCEPT ![c] = saved[c]] /\ conn' = [conn EXCEPT ![c] = "off"]
        /\ lost' = [lost EXCEPT ![c] = L]
        /\ conn[c] # "off" /\ Cut(c)
        /\ left.crashes > 0 /\ left' = [left EXCEPT !.crashes = @ - 1]
        /\ UNCHANGED <<rows, killed, saved, issued>>
    BY DEF Crash, room
  <1>2. /\ doc = [k \in Clients |-> doc[k]] /\ conn = [k \in Clients |-> conn[k]]
        /\ issued = [k \in Clients |-> issued[k]] /\ lost = [k \in Clients |-> lost[k]] /\ left \in Budget
    BY DEF Core, Functions, Ledgers
  <1>3. left' \in Budget
    BY <1>1, <1>2, Spent
  <1>4. \A b \in B : b \in A /\ (b.id \in Nat => b.id <= Hlc(c, saved[c].tick))
    <2>1. saved[c].tick \in Nat
      BY LedgerFacts DEF LedgerOf, Ledger
    <2>2. Hlc(c, saved[c].tick) \in Nat
      BY <2>1, HlcOrder
    <2> QED BY <2>2
  <1> HIDE DEF A, B, L
  <1>5. Ledger(rows, killed, c, "down", MarkDisconnected(doc[c]), saved[c], << >>, << >>, stray'[c], A)
    BY <1>1, CutLedger DEF A
  <1>6. Ledger(rows, killed, c, "off", saved[c], saved[c], << >>, << >>, stray'[c], B)
    BY <1>4, <1>5, LedgerBack
  <1>7. /\ doc'[c] = saved[c] /\ conn'[c] = "off" /\ lost'[c] = L
        /\ lost' = [k \in Clients |-> lost'[k]]
        /\ \A k \in Clients : k # c => doc'[k] = doc[k] /\ conn'[k] = conn[k] /\ lost'[k] = lost[k]
    BY <1>1, <1>2
  <1>8. /\ up'[c] = << >> /\ down'[c] = << >> /\ stray' = [k \in Clients |-> stray'[k]]
        /\ \A k \in Clients : k # c => up'[k] = up[k] /\ down'[k] = down[k] /\ stray'[k] = stray[k]
    BY <1>1, CutLedger
  <1>9. LedgerOf(c)'
    BY <1>1, <1>6, <1>7, <1>8 DEF LedgerOf, B
  <1>10. \A k \in Clients : k # c =>
            /\ doc'[k] = doc[k] /\ saved'[k] = saved[k] /\ conn'[k] = conn[k]
            /\ up'[k] = up[k] /\ down'[k] = down[k] /\ stray'[k] = stray[k]
            /\ issued'[k] = issued[k] /\ lost'[k] = lost[k]
    BY <1>1, <1>7, <1>8
  <1>11. issued' = [k \in Clients |-> issued'[k]] /\ UNCHANGED <<rows, killed>>
    BY <1>1, <1>2
  <1> QED BY <1>3, <1>7, <1>8, <1>9, <1>10, <1>11, LedgerElsewhere

LEMMA DialLedger == ASSUME Core, Honesty, Ledgers, NEW c \in Clients, Dial(c) PROVE Ledgers'
  <1> DEFINE A == issued[c] \ lost[c]
             w == <<Hello(doc[c].cursor)>>
  <1>1. /\ conn[c] = "down" /\ conn' = [conn EXCEPT ![c] = "hello"]
        /\ up' = [up EXCEPT ![c] = w]
        /\ UNCHANGED <<rows, killed, doc, saved, down, stray, issued, lost, left>>
    BY DEF Dial, room
  <1>2. /\ up = [k \in Clients |-> up[k]] /\ conn = [k \in Clients |-> conn[k]]
        /\ stray = [k \in Clients |-> stray[k]]
        /\ issued = [k \in Clients |-> issued[k]] /\ lost = [k \in Clients |-> lost[k]] /\ left \in Budget
    BY DEF Core, Functions, Ledgers
  <1>3. up[c] = << >> /\ down[c] = << >>
    BY <1>1 DEF Core, ClientOK, Offline
  <1>4. Ledger(rows, killed, c, "down", doc[c], saved[c], << >>, << >>, stray[c], A)
    BY <1>1, <1>3, LedgerFacts DEF LedgerOf
  <1> HIDE DEF A
  <1>5. Ledger(rows, killed, c, "hello", doc[c], saved[c], w, << >>, stray[c], A)
    BY <1>4, LedgerDial
  <1> HIDE DEF w
  <1>6. /\ up'[c] = w /\ conn'[c] = "hello"
        /\ \A k \in Clients : k # c => up'[k] = up[k] /\ conn'[k] = conn[k]
    BY <1>1, <1>2
  <1>7. LedgerOf(c)'
    BY <1>1, <1>3, <1>5, <1>6 DEF LedgerOf, A
  <1> QED BY <1>1, <1>2, <1>6, <1>7, LedgerElsewhere

LEMMA PushPendingLedger == ASSUME Core, Honesty, Ledgers, NEW c \in Clients, PushPending(c) PROVE Ledgers'
  <1> DEFINE A == issued[c] \ lost[c]
             e == TakePushable(doc[c])
             w == up[c] \o Pushes(doc[c])
  <1>1. /\ conn[c] = "joined" /\ doc' = [doc EXCEPT ![c] = e] /\ up' = [up EXCEPT ![c] = w]
        /\ UNCHANGED <<rows, killed, saved, conn, down, stray, issued, lost, left>>
    BY DEF PushPending, room
  <1>2. /\ up = [k \in Clients |-> up[k]] /\ doc = [k \in Clients |-> doc[k]]
        /\ stray = [k \in Clients |-> stray[k]]
        /\ issued = [k \in Clients |-> issued[k]] /\ lost = [k \in Clients |-> lost[k]] /\ left \in Budget
    BY DEF Core, Functions, Ledgers
  <1>3. IsDoc(doc[c]) /\ IsSeq(up[c]) /\ conn[c] # "off"
    BY <1>1, SocketFacts
  <1>4. Ledger(rows, killed, c, conn[c], doc[c], saved[c], up[c], down[c], stray[c], A)
    BY LedgerFacts DEF LedgerOf
  <1> HIDE DEF A
  <1>5. Ledger(rows, killed, c, conn[c], e, saved[c], w, down[c], stray[c], A)
    BY <1>3, <1>4, LedgerPush
  <1> HIDE DEF e, w
  <1>6. /\ up'[c] = w /\ doc'[c] = e
        /\ \A k \in Clients : k # c => up'[k] = up[k] /\ doc'[k] = doc[k]
    BY <1>1, <1>2
  <1>7. LedgerOf(c)'
    BY <1>1, <1>5, <1>6 DEF LedgerOf, A
  <1> QED BY <1>1, <1>2, <1>6, <1>7, LedgerElsewhere

LEMMA OnRowsLedger == ASSUME Core, Honesty, Ledgers, NEW c \in Clients, OnRows(c) \/ OnAck(c) PROVE Ledgers'
  <1> DEFINE A == issued[c] \ lost[c]
             d == doc[c]
             f == Head(down[c])
  <1>1. PICK e : /\ doc' = [doc EXCEPT ![c] = e]
                 /\ \/ e = ApplyRows(d, f) /\ f.t = "rows"
                    \/ e = AckBatch(d, f) /\ f.t = "ack"
    BY DEF OnRows, OnAck, Frame
  <1>2. /\ conn[c] = "joined" /\ down[c] # << >> /\ down' = [down EXCEPT ![c] = Tail(down[c])]
        /\ UNCHANGED <<rows, killed, saved, conn, up, stray, issued, lost, left>>
    BY DEF OnRows, OnAck, Frame, room
  <1>3. /\ down = [k \in Clients |-> down[k]] /\ doc = [k \in Clients |-> doc[k]]
        /\ stray = [k \in Clients |-> stray[k]]
        /\ issued = [k \in Clients |-> issued[k]] /\ lost = [k \in Clients |-> lost[k]] /\ left \in Budget
    BY DEF Core, Functions, Ledgers
  <1>4. /\ IsDoc(d) /\ IsSeq(d.pending) /\ IsSeq(down[c]) /\ f.seq \in Nat /\ f.seq >= d.cursor
    BY <1>2, SocketFacts, HeadAhead
  <1>5. /\ Ledger(rows, killed, c, conn[c], d, saved[c], up[c], down[c], stray[c], A)
        /\ \A i \in Ids : killed[i] \in Nat
    BY LedgerFacts DEF LedgerOf
  <1> DEFINE w == Tail(down[c])
  <1>6. Ledger(rows, killed, c, conn[c], e, saved[c], up[c], w, stray[c], A)
    <2>1. CASE e = ApplyRows(d, f) /\ f.t = "rows"
      <3>1. e.auth = After(d.auth, f)
        BY <1>4, <2>1, ReadFrame
      <3>2. e.tick = d.tick /\ e.pending = d.pending
        BY <1>4, <2>1 DEF ApplyRows, IsDoc, DocKeys
      <3> HIDE DEF A, d
      <3> QED BY <1>2, <1>4, <1>5, <2>1, <3>1, <3>2, LedgerRead
    <2>2. CASE e = AckBatch(d, f) /\ f.t = "ack"
      <3> HIDE DEF A, d
      <3> QED BY <1>2, <1>4, <1>5, <2>2, LedgerAck
    <2> QED BY <1>1, <2>1, <2>2
  <1> HIDE DEF A, d, f, w
  <1>7. /\ down'[c] = w /\ doc'[c] = e
        /\ \A k \in Clients : k # c => down'[k] = down[k] /\ doc'[k] = doc[k]
    BY <1>1, <1>2, <1>3 DEF w
  <1>8. LedgerOf(c)'
    BY <1>2, <1>6, <1>7 DEF LedgerOf, A
  <1> QED BY <1>1, <1>2, <1>3, <1>7, <1>8, LedgerElsewhere

(* The rows apply_state re-seeds were deleted since: the delete beats them. *)
LEMMA SeedsBeaten ==
    ASSUME NEW d, NEW f, NEW K, \A i \in Ids : K[i] \in Nat, ~ServerBehind(d, f), NEW h \in Nat, h # 0,
           f.full => \A i \in Ids : f.rows[i].st = "none" => Outlived(d.auth[i], K[i])
    PROVE  /\ Decent(K, SeedOps(d, Seeds(d, f), h))
           /\ \A i \in Ids : ~Loose(SeedOps(d, Seeds(d, f), h), i)
  <1> DEFINE S == Seeds(d, f)
             ops == SeedOps(d, S, h)
  <1>1. \A i \in Ids : i \in S => f.full /\ d.auth[i].st # "none" /\ f.rows[i].st = "none"
    BY DEF Seeds
  <1>2. \A i \in Ids : ops[i] = IF i \in S THEN SeedOp(d.auth[i]) ELSE Op("update", {}, {}, h)
    BY DEF SeedOps, NoOps
  <1> HIDE DEF S, ops
  <1>3. \A i \in Ids : i \in S => Proper(K[i], SeedOp(d.auth[i])) /\ SeedOp(d.auth[i]).op # "update"
    BY <1>1, SeedBeaten
  <1>4. \A k : Proper(k, Op("update", {}, {}, h))
    BY MintedProper
  <1>5. Decent(K, ops)
    BY <1>2, <1>3, <1>4 DEF Decent
  <1>6. \A i \in Ids : ~Loose(ops, i)
    BY <1>2, <1>3 DEF Loose, Op
  <1> QED BY <1>5, <1>6 DEF S, ops

LEMMA OnStateLedger == ASSUME Core, Honesty, Ledgers, NEW c \in Clients, OnState(c) PROVE Ledgers'
  <1> DEFINE A == issued[c] \ lost[c]
             d == doc[c]
             f == Head(down[c])
             S == Seeds(d, f)
             e == [d EXCEPT !.auth = StateAuth(d, f), !.cursor = f.seq]
             W(t) == [id |-> Hlc(c, t), ops |-> SeedOps(d, S, Hlc(c, t))]
  <1>1. /\ conn[c] = "hello" /\ down[c] # << >> /\ f.t = "state"
        /\ conn' = [conn EXCEPT ![c] = "joined"] /\ down' = [down EXCEPT ![c] = Tail(down[c])]
        /\ UNCHANGED <<rows, killed, saved, stray, lost, left>>
    BY DEF OnState, Frame, room
  <1>2. PICK t : LET x == ApplyState(d, f, t, Hlc(c, t))
                 IN  /\ doc' = [doc EXCEPT ![c] = TakePushable(x)]
                     /\ up' = [up EXCEPT ![c] = up[c] \o Pushes(x)]
                     /\ \/ S = {} /\ UNCHANGED issued
                        \/ /\ S # {} /\ t \in 1..left.ticks[c] /\ Mintable(c, t)
                           /\ issued' = [issued EXCEPT ![c] = issued[c] \cup {W(t)}]
    BY DEF OnState
  <1>3. /\ down = [k \in Clients |-> down[k]] /\ doc = [k \in Clients |-> doc[k]]
        /\ up = [k \in Clients |-> up[k]] /\ conn = [k \in Clients |-> conn[k]]
        /\ stray = [k \in Clients |-> stray[k]]
        /\ issued = [k \in Clients |-> issued[k]] /\ lost = [k \in Clients |-> lost[k]] /\ left \in Budget
    BY DEF Core, Functions, Ledgers
  <1>4. /\ IsDoc(d) /\ IsSeq(d.pending) /\ IsSeq(down[c]) /\ IsSeq(up[c])
        /\ f.seq \in Nat /\ f.seq >= d.cursor /\ d.cursor \in Nat
    BY <1>1, SocketFacts, HeadAhead DEF IsDoc
  <1>5. /\ Ledger(rows, killed, c, "hello", d, saved[c], up[c], down[c], stray[c], A)
        /\ \A i \in Ids : killed[i] \in Nat
    BY <1>1, LedgerFacts DEF LedgerOf
  <1>6. ~ServerBehind(d, f)
    BY <1>4 DEF ServerBehind
  <1>7. /\ IsDoc(e) /\ e.auth = After(d.auth, f) /\ e.tick = d.tick /\ e.pending = d.pending
    <2>1. StateAuth(d, f) = After(d.auth, f)
      BY <1>1, <1>6 DEF StateAuth, After
    <2> QED BY <1>4, <2>1 DEF IsDoc, DocKeys
  <1>8. f.full => \A i \in Ids : f.rows[i].st = "none" => Outlived(d.auth[i], killed[i])
    <2>1. Gaps(killed, d.auth, down[c])
      BY <1>5 DEF Ledger
    <2>2. f = down[c][1] /\ 1 \in 1..Len(down[c])
      BY <1>1, <1>4, SeqTail
    <2> QED BY <1>1, <2>1, <2>2 DEF Gaps
  <1> DEFINE w == Tail(down[c])
             x == ApplyState(d, f, t, Hlc(c, t))
             B == issued'[c] \ lost[c]
  <1>9. Ledger(rows, killed, c, "joined", e, saved[c], up[c], w, stray[c], A)
    <2> HIDE DEF e, A, d
    <2> QED BY <1>1, <1>4, <1>5, <1>7, LedgerRead
  <1>10. IsDoc(x) /\ Ledger(rows, killed, c, "joined", x, saved[c], up[c], w, stray[c], B)
    <2>1. CASE S = {} /\ UNCHANGED issued
      <3>1. x = e /\ B = A
        BY <2>1 DEF ApplyState
      <3> QED BY <1>7, <1>9, <3>1
    <2>2. CASE S # {} /\ t \in 1..left.ticks[c] /\ Mintable(c, t)
               /\ issued' = [issued EXCEPT ![c] = issued[c] \cup {W(t)}]
      <3>1. t \in Nat /\ Hlc(c, t) \in Nat /\ Hlc(c, t) # 0 /\ t > d.tick
        BY <2>2, LedgerFacts, HlcOrder DEF Mintable
      <3> DEFINE h == Hlc(c, t)
                 ops == SeedOps(d, S, h)
      <3>2. x = EnqueueOps(e, t, h, ops)
        BY <2>2 DEF ApplyState
      <3>3. B \subseteq A \cup {[id |-> h, ops |-> ops]}
        BY <1>3, <2>2
      <3>4. Decent(killed, ops) /\ \A i \in Ids : ~Loose(ops, i)
        <4> HIDE DEF d, f, h
        <4> QED BY <1>5, <1>6, <1>8, <3>1, SeedsBeaten DEF h
      <3>5. t > e.tick
        BY <1>7, <3>1
      <3> HIDE DEF ops, e, A, B, w
      <3>6. Ledger(rows, killed, c, "joined", EnqueueOps(e, t, Hlc(c, t), ops), saved[c], up[c], w, stray[c], B)
        BY <1>7, <1>9, <3>1, <3>3, <3>4, <3>5, LedgerMint
      <3>7. IsDoc(EnqueueOps(e, t, Hlc(c, t), ops))
        BY <1>7, KeepCursor
      <3> QED BY <3>2, <3>6, <3>7
    <2> QED BY <1>2, <2>1, <2>2
  <1> DEFINE y == TakePushable(x)
             u == up[c] \o Pushes(x)
  <1> HIDE DEF x, w, A, B
  <1>11. Ledger(rows, killed, c, "joined", y, saved[c], u, w, stray[c], B)
    BY <1>4, <1>10, LedgerPush
  <1>12. doc' = [doc EXCEPT ![c] = y] /\ up' = [up EXCEPT ![c] = u]
    BY <1>2 DEF x
  <1> HIDE DEF y, u
  <1>13. /\ down'[c] = w /\ doc'[c] = y /\ up'[c] = u /\ conn'[c] = "joined"
         /\ \A k \in Clients : k # c => /\ down'[k] = down[k] /\ doc'[k] = doc[k]
                                        /\ up'[k] = up[k] /\ conn'[k] = conn[k]
    BY <1>1, <1>3, <1>12 DEF w
  <1>14. issued' = [k \in Clients |-> issued'[k]] /\ \A k \in Clients : k # c => issued'[k] = issued[k]
    BY <1>2, <1>3
  <1>15. LedgerOf(c)'
    BY <1>1, <1>11, <1>13 DEF LedgerOf, B
  <1> QED BY <1>1, <1>3, <1>13, <1>14, <1>15, LedgerElsewhere

-----------------------------------------------------------------------------
(* The steps of the room. *)

(* The answer to a hello: copies of the room's rows, and a full table lacks
   only rows the room lacks. *)
LEMMA HelloLedger == ASSUME Core, Honesty, Ledgers, NEW c \in Clients, HandleHello(c) PROVE Ledgers'
  <1> DEFINE A == issued[c] \ lost[c]
             n == Head(up[c]).cursor
             full == NeedsFull(n)
             R == RowsSince(IF full THEN 0 ELSE n)
             f == StateFrame(seq, full, gcFloor, rows, R)
             D == Append(down[c], f)
             w == Tail(up[c])
  <1>1. /\ up[c] # << >> /\ Head(up[c]).t = "hello"
        /\ down' = [down EXCEPT ![c] = D] /\ up' = [up EXCEPT ![c] = w]
        /\ UNCHANGED <<rows, killed, doc, saved, conn, stray, issued, lost, left>>
    BY DEF HandleHello, Arrived, room
  <1>2. /\ down = [k \in Clients |-> down[k]] /\ up = [k \in Clients |-> up[k]]
        /\ stray = [k \in Clients |-> stray[k]]
        /\ issued = [k \in Clients |-> issued[k]] /\ lost = [k \in Clients |-> lost[k]] /\ left \in Budget
    BY DEF Core, Functions, Ledgers
  <1>3. IsSeq(up[c]) /\ IsSeq(down[c])
    BY SocketFacts
  <1>4. /\ Ledger(rows, killed, c, conn[c], doc[c], saved[c], up[c], down[c], stray[c], A)
        /\ \A i \in Ids : RowOK(rows[i], killed[i]) /\ killed[i] \in Nat
    BY LedgerFacts DEF LedgerOf
  <1>5. f.t = "state" /\ f.full = full /\ \A i \in Ids : f.rows[i] = IF i \in R THEN rows[i] ELSE NoRow
    BY DEF StateFrame, Carried
  <1>6. full => \A i \in Ids : rows[i].st # "none" => i \in R
    BY DEF Honesty, Table, RowsSince
  <1>7. Copies(rows, killed, doc[c].auth)
    BY <1>4 DEF Ledger
  <1> HIDE DEF A, n, full, R, f
  <1>8. Copies(rows, killed, f.rows)
    <2> SUFFICES ASSUME NEW i \in Ids PROVE Below(f.rows[i], rows[i], killed[i])
      BY DEF Copies
    <2>1. CASE i \in R
      BY <1>4, <1>5, <2>1, BelowItself
    <2>2. CASE i \notin R
      BY <1>5, <2>2 DEF Below, NoRow
    <2> QED BY <2>1, <2>2
  <1>9. f.full => \A i \in Ids : f.rows[i].st = "none" => Outlived(doc[c].auth[i], killed[i])
    <2> SUFFICES ASSUME full, NEW i \in Ids, f.rows[i].st = "none" PROVE Outlived(doc[c].auth[i], killed[i])
      BY <1>5
    <2>1. rows[i].st = "none"
      BY <1>5, <1>6
    <2>2. Below(doc[c].auth[i], rows[i], killed[i])
      BY <1>7 DEF Copies
    <2> QED BY <1>4, <2>1, <2>2, BelowGone
  <1>10. Ledger(rows, killed, c, conn[c], doc[c], saved[c], up[c], D, stray[c], A)
    BY <1>3, <1>4, <1>5, <1>8, <1>9, LedgerSent
  <1> HIDE DEF D
  <1>11. Ledger(rows, killed, c, conn[c], doc[c], saved[c], w, D, stray[c], A)
    BY <1>1, <1>3, <1>10, LedgerHeard
  <1> HIDE DEF w
  <1>12. /\ down'[c] = D /\ up'[c] = w
         /\ \A k \in Clients : k # c => down'[k] = down[k] /\ up'[k] = up[k]
    BY <1>1, <1>2
  <1>13. LedgerOf(c)'
    BY <1>1, <1>11, <1>12 DEF LedgerOf, A
  <1> QED BY <1>1, <1>2, <1>12, <1>13, LedgerElsewhere

(* A batch is merged: row by row, a step of the room. *)
LEMMA PushRoom ==
    ASSUME Core, Honesty, Ledgers, NEW b, NEW acked, ApplyPush(b, acked), Decent(killed, b.ops)
    PROVE  /\ RoomStep(rows, killed, rows', killed')
           /\ killed' = [i \in Ids |-> killed'[i]]
           /\ \A i \in Ids : /\ rows'[i] = MergedRow(rows[i], b.ops[i], seq + 1)
                             /\ killed'[i] = MergedKill(rows[i], killed[i], b.ops[i])
  <1>1. /\ rows' = Merged(b)
        /\ killed' = [i \in Ids |-> IF i \in Touched(b) /\ b.ops[i].op = "delete" /\ b.ops[i].hlc > killed[i]
                                     THEN b.ops[i].hlc ELSE killed[i]]
    BY DEF ApplyPush
  <1>2. \A i \in Ids : i \in Touched(b) <=> Changes(rows[i], b.ops[i])
    BY DEF Touched
  <1>3. \A i \in Ids : /\ rows'[i] = MergedRow(rows[i], b.ops[i], seq + 1)
                       /\ killed'[i] = MergedKill(rows[i], killed[i], b.ops[i])
    <2> TAKE i \in Ids
    <2>1. Merged(b)[i] = IF i \in Touched(b) THEN [ApplyOp(rows[i], b.ops[i]) EXCEPT !.seq = seq + 1]
                         ELSE rows[i]
      BY DEF Merged
    <2>2. rows'[i] = MergedRow(rows[i], b.ops[i], seq + 1)
      BY <1>1, <1>2, <2>1 DEF MergedRow
    <2>3. killed'[i] = MergedKill(rows[i], killed[i], b.ops[i])
      BY <1>1, <1>2 DEF MergedKill
    <2> QED BY <2>2, <2>3
  <1>4. killed' = [i \in Ids |-> killed'[i]]
    BY <1>1
  <1>5. ASSUME NEW i \in Ids PROVE RowOK(rows[i], killed[i]) /\ RowStep(rows[i], killed[i], rows'[i], killed'[i])
    <2>1. RowOK(rows[i], killed[i]) /\ b.ops[i] \in Ops /\ seq + 1 \in Nat
      BY DEF Ledgers, Decent, Proper, Core
    <2>2. \E op \in Ops, n \in Nat : /\ rows'[i] = MergedRow(rows[i], op, n)
                                     /\ killed'[i] = MergedKill(rows[i], killed[i], op)
      BY <1>3, <2>1
    <2> QED BY <2>1, <2>2 DEF RowStep
  <1>6. RoomStep(rows, killed, rows', killed')
    BY <1>5 DEF RoomStep
  <1> QED BY <1>3, <1>4, <1>6

(* What the room has merged is settled. *)
LEMMA PushSettles ==
    ASSUME Core, Honesty, Ledgers, NEW b, NEW acked, ApplyPush(b, acked), Decent(killed, b.ops),
           \A i \in Ids : Loose(b.ops, i) => Known(rows[i], killed[i])
    PROVE  /\ SettledIn(rows', killed', b.ops)
           /\ \A i \in Ids : Grounds(b.ops, i) => Known(rows'[i], killed'[i])
  <1>1. ASSUME NEW i \in Mentioned(b.ops)
        PROVE  /\ i \in Ids /\ Settled(rows'[i], killed'[i], b.ops[i])
               /\ Grounds(b.ops, i) => Known(rows'[i], killed'[i])
    <2>1. i \in Ids /\ (b.ops[i].op = "update" => Loose(b.ops, i))
      BY DEF Mentioned, Loose
    <2>2. RowOK(rows[i], killed[i]) /\ Proper(killed[i], b.ops[i]) /\ seq + 1 \in Nat
      BY <2>1 DEF Ledgers, Decent, Core
    <2>3. b.ops[i].op = "update" => Known(rows[i], killed[i])
      BY <2>1
    <2>4. /\ rows'[i] = MergedRow(rows[i], b.ops[i], seq + 1)
          /\ killed'[i] = MergedKill(rows[i], killed[i], b.ops[i])
      BY <2>1, PushRoom
    <2> DEFINE o == b.ops[i]
               n == seq + 1
               r == rows[i]
               k == killed[i]
    <2> HIDE DEF o, n, r, k
    <2>5. Settled(MergedRow(r, o, n), MergedKill(r, k, o), o)
          /\ (o.op # "update" => Known(MergedRow(r, o, n), MergedKill(r, k, o)))
      BY <2>2, <2>3, MergeSettles DEF o, n, r, k
    <2> QED BY <2>1, <2>4, <2>5 DEF o, n, r, k, Grounds
  <1>2. \A i \in Ids : Grounds(b.ops, i) => i \in Mentioned(b.ops)
    BY DEF Grounds, Mentioned
  <1> QED BY <1>1, <1>2 DEF SettledIn

(* What a push leaves true of device k: the rows it is sent are the room's, and
   if it is acked the room has dealt with the batch. *)
LEMMA PushSent ==
    ASSUME Core, Honesty, Ledgers, NEW b, NEW acked, ApplyPush(b, acked), Decent(killed, b.ops),
           \A i \in Ids : Loose(b.ops, i) => Known(rows[i], killed[i]),
           NEW k \in Clients, k \in acked => up[k] # << >> /\ Head(up[k]).t = "push" /\ Head(up[k]).batch = b
    PROVE  Ledger(rows', killed', k, conn[k], doc[k], saved[k], up[k], down'[k], stray[k],
                  issued[k] \ lost[k])
  <1> DEFINE A == issued[k] \ lost[k]
             T == rows'
             K == killed'
             x == RowsFrame(AnsweredSeq(b), Merged(b), Touched(b))
             a == Ack(b.id, AnsweredSeq(b))
             D == down[k]
             M == Mine(doc[k], saved[k], up[k], A)
             Sent(E) == Ledger(T, K, k, conn[k], doc[k], saved[k], up[k], E, stray[k], A)
  <1>1. /\ RoomStep(rows, killed, T, K) /\ \A i \in Ids : RowOK(T[i], K[i])
        /\ SettledIn(T, K, b.ops)
    BY PushRoom, RoomKeeps, PushSettles
  <1>2. /\ down'[k] = D \o Answers(k, b, acked) /\ IsSeq(D) /\ IsSeq(up[k]) /\ T = Merged(b)
    BY SocketFacts DEF ApplyPush
  <1>3. Ledger(rows, killed, k, conn[k], doc[k], saved[k], up[k], D, stray[k], A)
    BY LedgerFacts DEF LedgerOf
  <1>4. x.t = "rows" /\ \A i \in Ids : x.rows[i] = IF i \in Touched(b) THEN T[i] ELSE NoRow
    BY <1>2 DEF RowsFrame, Carried
  <1>5. a.t = "ack" /\ a.batch = b.id
    BY DEF Ack
  <1>6. Broadcast(k, b) \in {<< >>, <<x>>}
    BY DEF Broadcast
  <1>7. Acked(k, b, acked) = IF k \in acked THEN <<a>> ELSE << >>
    BY DEF Acked
  <1> HIDE DEF x, a, T, K, A
  <1>8. Sent(D)
    BY <1>1, <1>3, LedgerStays
  <1>9. Copies(T, K, x.rows)
    <2> SUFFICES ASSUME NEW i \in Ids PROVE Below(x.rows[i], T[i], K[i])
      BY DEF Copies
    <2>1. CASE i \in Touched(b)
      BY <1>1, <1>4, <2>1, BelowItself
    <2>2. CASE i \notin Touched(b)
      BY <1>4, <2>2 DEF Below, NoRow
    <2> QED BY <2>1, <2>2
  <1>10. ASSUME NEW E, IsSeq(E), Sent(E) PROVE Sent(Append(E, x)) /\ IsSeq(Append(E, x))
    <2>1. x.t # "ack" /\ x.t # "state"
      BY <1>4
    <2> QED BY <1>9, <1>10, <2>1, LedgerSent, SeqAppend
  <1>11. ASSUME k \in acked, NEW E, IsSeq(E), Sent(E) PROVE Sent(Append(E, a))
    <2> DEFINE U == up[k]
               u == Bare(b)
    <2>1. U[1].t = "push" /\ U[1].batch = b /\ 1 \in 1..Len(U)
      BY <1>2, <1>11, SeqTail
    <2>2. u.id = b.id /\ u.ops = b.ops
      BY DEF Bare
    <2>3. u \in M
      BY <2>1, MineOf
    <2>4. Numbered(M, Hlc(k, doc[k].tick)) /\ Single(M)
      BY <1>8 DEF Ledger
    <2> HIDE DEF M, u, U
    <2>5. b.id \in Nat /\ b.id <= Hlc(k, doc[k].tick)
      BY <2>2, <2>3, <2>4 DEF Numbered
    <2>6. \A y \in M : y.id = b.id => SettledIn(T, K, y.ops)
      BY <1>1, <2>2, <2>3, <2>4 DEF Single
    <2>7. /\ a.batch \in Nat /\ a.batch <= Hlc(k, doc[k].tick)
          /\ \A y \in Mine(doc[k], saved[k], up[k], A) : y.id = a.batch => SettledIn(T, K, y.ops)
      BY <1>5, <2>5, <2>6 DEF M
    <2>8. a.t # "state"
      BY <1>5
    <2> QED BY <1>5, <1>11, <2>7, <2>8, LedgerSent
  <1>12. Sent(down'[k])
    <2>1. down'[k] = D \o (Broadcast(k, b) \o Acked(k, b, acked))
      BY <1>2 DEF Answers
    <2> HIDE DEF Sent, D
    <2>2. /\ D \o (<< >> \o << >>) = D
          /\ D \o (<< >> \o <<a>>) = Append(D, a)
          /\ D \o (<<x>> \o << >>) = Append(D, x)
          /\ D \o (<<x>> \o <<a>>) = Append(Append(D, x), a)
      BY <1>2, FramesInOrder
    <2>3. CASE Broadcast(k, b) = << >>
      BY <1>2, <1>7, <1>8, <1>11, <2>1, <2>2, <2>3
    <2>4. CASE Broadcast(k, b) = <<x>>
      <3>1. Sent(Append(D, x)) /\ IsSeq(Append(D, x))
        BY <1>2, <1>8, <1>10
      <3> QED BY <1>7, <1>11, <2>1, <2>2, <2>4, <3>1
    <2> QED BY <1>6, <2>3, <2>4
  <1> QED BY <1>12 DEF T, K, A

(* The push the room reads next: its updates are of rows the room knows. *)
LEMMA HeadPush ==
    ASSUME Core, Honesty, Ledgers, NEW c \in Clients, up[c] # << >>, Head(up[c]).t = "push"
    PROVE  LET b == Head(up[c]).batch
           IN  Decent(killed, b.ops) /\ \A i \in Ids : Loose(b.ops, i) => Known(rows[i], killed[i])
  <1> DEFINE b == Head(up[c]).batch
  <1>1. IsSeq(up[c]) /\ up[c][1] = Head(up[c]) /\ 1 \in 1..Len(up[c])
    BY SocketFacts, SeqTail
  <1>2. Ledger(rows, killed, c, conn[c], doc[c], saved[c], up[c], down[c], stray[c], issued[c] \ lost[c])
    BY LedgerFacts DEF LedgerOf
  <1>3. Decent(killed, b.ops)
    <2>1. Bare(up[c][1].batch) \in Mine(doc[c], saved[c], up[c], issued[c] \ lost[c])
      BY <1>1, MineOf
    <2>2. Decent(killed, Bare(up[c][1].batch).ops)
      BY <1>2, <2>1 DEF Ledger
    <2> QED BY <1>1, <2>2 DEF Bare
  <1>4. \A i \in Ids : Loose(b.ops, i) => Known(rows[i], killed[i])
    <2> TAKE i \in Ids
    <2>1. Founded(rows, killed, Len(up[c]), Pushed(up[c]))
      BY <1>2 DEF Ledger
    <2>2. Pushed(up[c])[1] = b.ops
      BY <1>1 DEF Pushed
    <2>3. ~\E m \in 1..(1 - 1) : Grounds(Pushed(up[c])[m], i)
      OBVIOUS
    <2> QED BY <1>1, <2>1, <2>2, <2>3 DEF Founded
  <1> QED BY <1>3, <1>4

LEMMA HeadStray ==
    ASSUME Ledgers, NEW c \in Clients, stray[c] # << >>
    PROVE  LET b == Head(stray[c]).batch
           IN  Decent(killed, b.ops) /\ \A i \in Ids : Loose(b.ops, i) => Known(rows[i], killed[i])
  <1> DEFINE b == Head(stray[c]).batch
  <1>1. /\ IsSeq(stray[c]) /\ Founded(rows, killed, Len(stray[c]), Pushed(stray[c]))
        /\ \A k \in 1..Len(stray[c]) : stray[c][k].t = "push" /\ Decent(killed, stray[c][k].batch.ops)
    BY LedgerFacts DEF LedgerOf, Ledger
  <1>2. stray[c][1] = Head(stray[c]) /\ 1 \in 1..Len(stray[c])
    BY <1>1, SeqTail
  <1>3. Decent(killed, b.ops)
    BY <1>1, <1>2
  <1>4. \A i \in Ids : Loose(b.ops, i) => Known(rows[i], killed[i])
    <2> TAKE i \in Ids
    <2>1. Pushed(stray[c])[1] = b.ops
      BY <1>1, <1>2 DEF Pushed
    <2>2. ~\E m \in 1..(1 - 1) : Grounds(Pushed(stray[c])[m], i)
      OBVIOUS
    <2> QED BY <1>1, <1>2, <2>1, <2>2 DEF Founded
  <1> QED BY <1>3, <1>4

LEMMA HandlePushLedger == ASSUME Core, Honesty, Ledgers, NEW c \in Clients, HandlePush(c) PROVE Ledgers'
  <1> DEFINE b == Head(up[c]).batch
             w == Tail(up[c])
  <1>1. /\ up[c] # << >> /\ Head(up[c]).t = "push" /\ srv[c] = "ready"
        /\ ApplyPush(b, {c}) /\ up' = [up EXCEPT ![c] = w]
        /\ UNCHANGED <<doc, saved, conn, stray, issued, lost, left>>
    BY DEF HandlePush, Arrived
  <1>2. /\ up = [k \in Clients |-> up[k]]
        /\ stray = [k \in Clients |-> stray[k]]
        /\ issued = [k \in Clients |-> issued[k]] /\ lost = [k \in Clients |-> lost[k]] /\ left \in Budget
    BY DEF Core, Functions, Ledgers
  <1>3. IsSeq(up[c])
    BY SocketFacts
  <1>4. Decent(killed, b.ops) /\ \A i \in Ids : Loose(b.ops, i) => Known(rows[i], killed[i])
    BY <1>1, HeadPush
  <1>5. \A i \in Ids : Grounds(b.ops, i) => Known(rows'[i], killed'[i])
    BY <1>1, <1>4, PushSettles
  <1>6. ASSUME NEW k \in Clients
        PROVE  Ledger(rows', killed', k, conn[k], doc[k], saved[k], up[k], down'[k], stray[k], issued[k] \ lost[k])
    <2>1. k \in {c} => up[k] # << >> /\ Head(up[k]).t = "push" /\ Head(up[k]).batch = b
      BY <1>1
    <2> QED BY <1>1, <1>4, <2>1, PushSent
  <1>7. Ledger(rows', killed', c, conn[c], doc[c], saved[c], w, down'[c], stray[c], issued[c] \ lost[c])
    <2> DEFINE T == rows'
               K == killed'
               D == down'[c]
    <2>1. Ledger(T, K, c, conn[c], doc[c], saved[c], up[c], D, stray[c], issued[c] \ lost[c])
      BY <1>6
    <2>2. \A i \in Ids : Grounds(Head(up[c]).batch.ops, i) => Known(T[i], K[i])
      BY <1>5
    <2> HIDE DEF T, K, D
    <2>3. Ledger(T, K, c, conn[c], doc[c], saved[c], w, D, stray[c], issued[c] \ lost[c])
      BY <1>1, <1>3, <2>1, <2>2, LedgerHeard
    <2> QED BY <2>3 DEF T, K, D
  <1>8. up'[c] = w /\ \A k \in Clients : k # c => up'[k] = up[k]
    BY <1>1, <1>2
  <1>9. ASSUME NEW k \in Clients PROVE LedgerOf(k)'
    <2>1. CASE k = c
      BY <1>1, <1>7, <1>8, <2>1 DEF LedgerOf
    <2>2. CASE k # c
      BY <1>1, <1>6, <1>8, <2>2 DEF LedgerOf
    <2> QED BY <2>1, <2>2
  <1>10. killed' = [i \in Ids |-> killed'[i]] /\ \A i \in Ids : RowOK(rows'[i], killed'[i])
    BY <1>1, <1>4, PushRoom, RoomKeeps
  <1> QED BY <1>1, <1>2, <1>9, <1>10 DEF Ledgers

LEMMA HandleStrayLedger == ASSUME Core, Honesty, Ledgers, NEW c \in Clients, HandleStray(c) PROVE Ledgers'
  <1> DEFINE b == Head(stray[c]).batch
             w == Tail(stray[c])
  <1>1. /\ stray[c] # << >>
        /\ ApplyPush(b, {}) /\ stray' = [stray EXCEPT ![c] = w]
        /\ UNCHANGED <<doc, saved, conn, up, issued, lost, left>>
    BY DEF HandleStray
  <1>2. /\ stray = [k \in Clients |-> stray[k]]
        /\ issued = [k \in Clients |-> issued[k]] /\ lost = [k \in Clients |-> lost[k]] /\ left \in Budget
    BY DEF Ledgers
  <1>3. Decent(killed, b.ops) /\ \A i \in Ids : Loose(b.ops, i) => Known(rows[i], killed[i])
    BY <1>1, HeadStray
  <1>4. \A i \in Ids : Grounds(b.ops, i) => Known(rows'[i], killed'[i])
    BY <1>1, <1>3, PushSettles
  <1>5. ASSUME NEW k \in Clients
        PROVE  Ledger(rows', killed', k, conn[k], doc[k], saved[k], up[k], down'[k], stray[k], issued[k] \ lost[k])
    <2>1. k \notin {}
      OBVIOUS
    <2> QED BY <1>1, <1>3, <2>1, PushSent
  <1>6. Ledger(rows', killed', c, conn[c], doc[c], saved[c], up[c], down'[c], w, issued[c] \ lost[c])
    <2> DEFINE T == rows'
               K == killed'
               D == down'[c]
    <2>1. Ledger(T, K, c, conn[c], doc[c], saved[c], up[c], D, stray[c], issued[c] \ lost[c])
      BY <1>5
    <2>2. \A i \in Ids : Grounds(Head(stray[c]).batch.ops, i) => Known(T[i], K[i])
      BY <1>4
    <2> HIDE DEF T, K, D
    <2>3. Ledger(T, K, c, conn[c], doc[c], saved[c], up[c], D, w, issued[c] \ lost[c])
      BY <1>1, <2>1, <2>2, LedgerStray
    <2> QED BY <2>3 DEF T, K, D
  <1>7. /\ stray'[c] = w /\ stray' = [k \in Clients |-> stray'[k]]
         /\ \A k \in Clients : k # c => stray'[k] = stray[k]
    BY <1>1, <1>2
  <1>8. ASSUME NEW k \in Clients PROVE LedgerOf(k)'
    <2>1. CASE k = c
      BY <1>1, <1>6, <1>7, <2>1 DEF LedgerOf
    <2>2. CASE k # c
      BY <1>1, <1>5, <1>7, <2>2 DEF LedgerOf
    <2> QED BY <2>1, <2>2
  <1>9. killed' = [i \in Ids |-> killed'[i]] /\ \A i \in Ids : RowOK(rows'[i], killed'[i])
    BY <1>1, <1>3, PushRoom, RoomKeeps
  <1> QED BY <1>1, <1>2, <1>7, <1>8, <1>9 DEF Ledgers

(* A purge takes tombstones only, and forgets no delete. *)
LEMMA AlarmLedger == ASSUME Core, Honesty, Ledgers, Alarm PROVE Ledgers'
  <1>1. PICK S \in SUBSET Ids : /\ \A i \in S : rows[i].st = "dead"
                                /\ rows' = [i \in Ids |-> IF i \in S THEN NoRow ELSE rows[i]]
    <2>1. PICK j \in Ids : Purge({i \in Ids : rows[i].st = "dead" /\ rows[i].del <= rows[j].del})
      BY DEF Alarm
    <2> DEFINE S == {i \in Ids : rows[i].st = "dead" /\ rows[i].del <= rows[j].del}
    <2>2. S \in SUBSET Ids /\ \A i \in S : rows[i].st = "dead"
      OBVIOUS
    <2>3. rows' = [i \in Ids |-> IF i \in S THEN NoRow ELSE rows[i]]
      BY <2>1 DEF Purge
    <2> QED BY <2>2, <2>3
  <1>2. /\ UNCHANGED <<killed, doc, saved, conn, up, down, stray, issued, lost>>
        /\ left.gcs > 0 /\ left' = [left EXCEPT !.gcs = @ - 1]
    BY DEF Alarm
  <1>3. RoomStep(rows, killed, rows', killed')
    <2> SUFFICES ASSUME NEW i \in Ids
                 PROVE  RowOK(rows[i], killed[i]) /\ RowStep(rows[i], killed[i], rows'[i], killed'[i])
      BY DEF RoomStep
    <2>1. RowOK(rows[i], killed[i])
      BY DEF Ledgers
    <2>2. (rows[i].st = "dead" /\ rows'[i] = NoRow) \/ rows'[i] = rows[i]
      BY <1>1
    <2>3. killed'[i] = killed[i]
      BY <1>2
    <2> QED BY <2>1, <2>2, <2>3 DEF RowStep
  <1>4. left' \in Budget
    BY <1>2, Spent DEF Ledgers
  <1>5. ASSUME NEW k \in Clients PROVE LedgerOf(k)'
    <2> DEFINE T == rows'
               K == killed'
               A == issued[k] \ lost[k]
    <2>1. Ledger(rows, killed, k, conn[k], doc[k], saved[k], up[k], down[k], stray[k], A)
      BY LedgerFacts DEF LedgerOf
    <2>2. RoomStep(rows, killed, T, K)
      BY <1>3
    <2> HIDE DEF T, K, A
    <2>3. Ledger(T, K, k, conn[k], doc[k], saved[k], up[k], down[k], stray[k], A)
      BY <2>1, <2>2, LedgerStays
    <2> QED BY <1>2, <2>3 DEF T, K, A, LedgerOf
  <1>6. killed' = [i \in Ids |-> killed'[i]] /\ \A i \in Ids : RowOK(rows'[i], killed'[i])
    BY <1>2, <1>3, RoomKeeps DEF Ledgers
  <1> QED BY <1>2, <1>4, <1>5, <1>6 DEF Ledgers

-----------------------------------------------------------------------------
LEMMA LedgerInit == Init => LedgerInv
  <1> SUFFICES ASSUME Init PROVE LedgerInv
    OBVIOUS
  <1>1. HonestInv
    BY HonestInit
  <1>2. /\ rows = [i \in Ids |-> NoRow] /\ killed = [i \in Ids |-> NoClock]
        /\ doc = [c \in Clients |-> NewDoc] /\ saved = doc /\ conn = [c \in Clients |-> "off"]
        /\ up = [c \in Clients |-> << >>] /\ down = up /\ stray = up
        /\ issued = [c \in Clients |-> {}] /\ lost = issued
    BY DEF Init
  <1>3. left \in Budget
    BY SyncAssumption DEF Init
  <1>4. \A i \in Ids : RowOK(rows[i], killed[i])
    <2>1. NoRow \in Rows
      BY DEF NoRow, Rows, Clocks, Unclocked, NoClock
    <2> QED BY <1>2, <2>1 DEF RowOK, NoRow, NoClock, Unclocked
  <1>5. ASSUME NEW c \in Clients PROVE LedgerOf(c)
    <2> DEFINE E == << >>
               d == NewDoc
               A == {}
               M == Mine(d, d, E, A)
               h == Hlc(c, 0)
    <2>1. /\ doc[c] = d /\ saved[c] = d /\ conn[c] = "off" /\ up[c] = E /\ down[c] = E /\ stray[c] = E
          /\ issued[c] \ lost[c] = A
      BY <1>2
    <2>2. Len(E) = 0 /\ IsSeq(E)
      <3>1. E \in Seq({})
        OBVIOUS
      <3> QED BY <3>1 DEF IsSeq
    <2>3. d.tick = 0 /\ d.pending = E /\ \A i \in Ids : d.auth[i] = NoRow
      BY DEF NewDoc
    <2> HIDE DEF E, d, M, h
    <2>4. Entered(E)
      BY <2>2 DEF Entered
    <2>5. \A x : x \notin M
      BY <2>2, <2>3, MineOf DEF M
    <2>6. Numbered(M, h) /\ Single(M) /\ (\A x \in M : Decent(killed, x.ops)) /\ AcksTrue(rows, killed, M, E, h)
      BY <2>2, <2>5 DEF Numbered, Single, AcksTrue
    <2>7. Kept(rows, killed, A, E, h)
      BY DEF Kept
    <2>8. Copies(rows, killed, d.auth)
      BY <2>3 DEF Copies, Below, NoRow
    <2>9. CopiesSent(rows, killed, E) /\ InFlight(rows, killed, E, E)
      BY <2>2 DEF CopiesSent, InFlight
    <2>10. Founded(rows, killed, Len(E), Pushed(E)) /\ Founded(rows, killed, Len(E), Queued(E))
      BY <2>2 DEF Founded
    <2>11. Ledger(rows, killed, c, "off", d, d, E, E, E, A)
      BY <2>2, <2>3, <2>4, <2>6, <2>7, <2>8, <2>9, <2>10 DEF Ledger, M, h
    <2> QED BY <2>1, <2>11 DEF LedgerOf
  <1>6. Ledgers
    BY <1>2, <1>3, <1>4, <1>5 DEF Ledgers
  <1> QED BY <1>1, <1>6 DEF LedgerInv

LEMMA LedgerStep == ASSUME LedgerInv, [Next]_vars PROVE LedgerInv'
  <1>1. HonestInv'
    BY HonestStep DEF LedgerInv
  <1> SUFFICES ASSUME ~wiped' PROVE Ledgers'
    BY <1>1 DEF LedgerInv
  <1>2. ~Reset /\ UNCHANGED wiped
    BY WipedStep
  <1>3. Core /\ Honesty /\ Ledgers
    BY <1>2 DEF LedgerInv, HonestInv, SyncInv
  <1>4. CASE UNCHANGED vars
    BY <1>3, <1>4 DEF vars, Ledgers, LedgerOf
  <1>5. CASE Alarm
    BY <1>3, <1>5, AlarmLedger
  <1>6. ASSUME NEW c \in Clients, Device(c) PROVE Ledgers'
    BY <1>3, <1>6, UpsertLedger, UpdateLedger, CascadeLedger, SaveLedger, BootLedger, CrashLedger,
       DialLedger, DisconnectLedger, OnStateLedger, OnRowsLedger, PushPendingLedger DEF Device
  <1>7. ASSUME NEW c \in Clients, Room(c) PROVE Ledgers'
    BY <1>3, <1>7, HelloLedger, HandlePushLedger, HandleStrayLedger DEF Room
  <1> QED BY <1>2, <1>4, <1>5, <1>6, <1>7 DEF Next

(* No write is lost, for any number of devices, rows, writes, disconnects,
   crashes and purges, and whatever the wall clocks do, unless an operator
   wiped the room: a batch that survived the crashes of its device is pending,
   or the room has merged it or something that beats it. *)
THEOREM WriteNotLostHolds == Spec => []WriteNotLost
  <1>1. LedgerInv => WriteNotLost
    <2> SUFFICES ASSUME LedgerInv, ~wiped, NEW c \in Clients, NEW b \in issued[c] \ lost[c]
                 PROVE  \/ \E k \in DOMAIN doc[c].pending : doc[c].pending[k].id = b.id
                        \/ \A i \in Mentioned(b.ops) : Absorbed(i, b.ops[i])
      BY DEF WriteNotLost
    <2> DEFINE A == issued[c] \ lost[c]
               M == Mine(doc[c], saved[c], up[c], A)
               h == Hlc(c, doc[c].tick)
    <2>1. Ledgers
      BY DEF LedgerInv
    <2>2. /\ Kept(rows, killed, A, doc[c].pending, h) /\ Numbered(M, h) /\ Entered(doc[c].pending)
      BY <2>1 DEF Ledgers, LedgerOf, Ledger
    <2>3. Bare(b) \in M /\ Bare(b).id = b.id
      BY MineOf DEF Bare
    <2> HIDE DEF M, h
    <2>4. b.id <= h
      BY <2>2, <2>3 DEF Numbered
    <2>5. (\E k \in 1..Len(doc[c].pending) : doc[c].pending[k].id = b.id) \/ SettledIn(rows, killed, b.ops)
      BY <2>2, <2>4 DEF Kept
    <2>6. DOMAIN doc[c].pending = 1..Len(doc[c].pending)
      BY <2>2 DEF Entered, IsSeq
    <2>7. SettledIn(rows, killed, b.ops) => \A i \in Mentioned(b.ops) : Absorbed(i, b.ops[i])
      BY DEF SettledIn, Settled, Absorbed
    <2> QED BY <2>5, <2>6, <2>7
  <1>2. LedgerInv /\ [Next]_vars => LedgerInv'
    BY LedgerStep
  <1> QED BY <1>1, <1>2, LedgerInit, PTL DEF Spec

-----------------------------------------------------------------------------
(* A row nobody purged: its tombstone clock is the newest delete of it the room
   accepted, and a write newer than that delete is what made it live again. *)
Final(r, k) ==
    /\ r.st = "none" => k = NoClock
    /\ r.st # "none" => r.del = k
    /\ r.st = "live" /\ k # NoClock => \E f \in Fields : r.clk[f] > k

Finals == \A i \in Ids : Final(rows[i], killed[i])

FinalInv == LedgerInv /\ (~wiped /\ gcFloor = 0 => Finals)

LEMMA FinalMerge ==
    ASSUME NEW r, NEW k, RowOK(r, k), Final(r, k), NEW op, Proper(k, op), NEW n \in Nat
    PROVE  Final(MergedRow(r, op, n), MergedKill(r, k, op))
  <1> DEFINE s == MergedRow(r, op, n)
             j == MergedKill(r, k, op)
  <1>1. /\ r \in Rows /\ k \in Nat /\ r.del \in Nat /\ r.st \in {"none", "live", "dead"}
        /\ \A f \in Fields : r.clk[f] \in Nat
        /\ r.st = "none" => r.del = NoClock
    BY RowFields DEF RowOK
  <1>2. /\ op \in Ops /\ op.hlc \in Nat /\ op.hlc # 0 /\ op.put \cup op.cut \subseteq Fields
        /\ op.op \in {"upsert", "update", "delete"}
        /\ op.ovr = Unclocked => \A f \in Fields : ClockFor(op, f) = op.hlc
    BY OpFields DEF Proper
  <1>3. CASE ~Changes(r, op)
    BY <1>3 DEF MergedRow, MergedKill
  <1>4. CASE Changes(r, op) /\ op.op = "delete"
    <2>1. /\ s.st = "dead" /\ s.del = op.hlc
          /\ r.st # "none" => op.hlc > r.del
      BY <1>1, <1>2, <1>4, Deleted
    <2>2. op.hlc > k
      BY <1>1, <1>2, <2>1 DEF Final, NoClock
    <2>3. j = op.hlc
      BY <1>4, <2>2 DEF MergedKill
    <2> QED BY <2>1, <2>3 DEF Final
  <1>5. CASE Changes(r, op) /\ op.op # "delete"
    <2>1. /\ s \in Rows /\ s.st = "live" /\ s.del = r.del
          /\ \A f \in Fields : s.clk[f] >= r.clk[f]
          /\ \A f \in op.put \cup op.cut : s.clk[f] >= ClockFor(op, f)
          /\ r.st = "dead" => op.op = "upsert" /\ op.hlc > r.del
      BY <1>1, <1>2, <1>5, Landed
    <2>2. j = k /\ s.del = k
      BY <1>1, <1>5, <2>1 DEF MergedKill, Final
    <2> HIDE DEF s, j
    <2>3. \A f \in Fields : s.clk[f] \in Nat
      BY <2>1, RowFields
    <2>4. ASSUME k # NoClock PROVE \E f \in Fields : s.clk[f] > k
      <3>1. CASE r.st = "live"
        BY <1>1, <2>1, <2>3, <2>4, <3>1 DEF Final
      <3>2. CASE r.st = "dead"
        <4>1. op.op = "upsert" /\ op.hlc > k
          BY <2>1, <3>2 DEF Final
        <4>2. op.ovr = Unclocked /\ op.put \cup op.cut # {}
          BY <1>1, <1>2, <4>1 DEF Proper
        <4>3. PICK f \in op.put \cup op.cut : TRUE
          BY <4>2
        <4>4. f \in Fields /\ s.clk[f] >= op.hlc
          BY <1>2, <2>1, <4>2
        <4> QED BY <1>1, <1>2, <2>3, <4>1, <4>4
      <3> QED BY <1>1, <2>4, <3>1, <3>2 DEF Final
    <2>5. Final(s, j)
      BY <2>1, <2>2, <2>4 DEF Final
    <2> QED BY <2>5 DEF s, j
  <1> QED BY <1>3, <1>4, <1>5

LEMMA PushFinal ==
    ASSUME Core, Honesty, Ledgers, NEW b, NEW acked, ApplyPush(b, acked), Decent(killed, b.ops), Finals
    PROVE  Finals'
  <1> SUFFICES ASSUME NEW i \in Ids PROVE Final(rows'[i], killed'[i])
    BY DEF Finals
  <1>1. RowOK(rows[i], killed[i]) /\ Final(rows[i], killed[i]) /\ Proper(killed[i], b.ops[i]) /\ seq + 1 \in Nat
    BY DEF Ledgers, Finals, Decent, Core
  <1>2. /\ rows'[i] = MergedRow(rows[i], b.ops[i], seq + 1)
        /\ killed'[i] = MergedKill(rows[i], killed[i], b.ops[i])
    BY PushRoom
  <1> DEFINE n == seq + 1
  <1> HIDE DEF n
  <1>3. Final(MergedRow(rows[i], b.ops[i], n), MergedKill(rows[i], killed[i], b.ops[i]))
    BY <1>1, FinalMerge DEF n
  <1> QED BY <1>2, <1>3 DEF n

(* A purge is never forgotten: it raises the floor above zero for good. *)
LEMMA PurgeRaises == ASSUME Core, Honesty, Ledgers, Alarm PROVE gcFloor' # 0
  <1>1. PICK j \in Ids : /\ rows[j].st = "dead"
                         /\ Purge({i \in Ids : rows[i].st = "dead" /\ rows[i].del <= rows[j].del})
    BY DEF Alarm
  <1> DEFINE S == {i \in Ids : rows[i].st = "dead" /\ rows[i].del <= rows[j].del}
             Q == {gcFloor} \cup {rows[i].seq : i \in S}
  <1>2. gcFloor' = Max(Q)
    BY <1>1 DEF Purge
  <1>3. j \in S
    <2>1. rows[j].del <= rows[j].del
      BY RowFields DEF Ledgers, RowOK
    <2> QED BY <1>1, <2>1
  <1>4. \A i \in S : rows[i].seq \in 1..seq
    BY DEF Honesty, Table
  <1>5. seq \in Nat /\ gcFloor \in 0..seq
    BY DEF Core, Honesty, Table
  <1> HIDE DEF S
  <1>6. Q \in SUBSET (0..seq) /\ Q # {} /\ rows[j].seq \in Q /\ rows[j].seq # 0
    BY <1>3, <1>4, <1>5
  <1> HIDE DEF Q
  <1>7. Max(Q) \in Q /\ rows[j].seq <= Max(Q)
    BY <1>5, <1>6, MaxOf
  <1> DEFINE m == Max(Q)
             n == rows[j].seq
  <1>8. m = gcFloor' /\ m \in 0..seq /\ n \in 0..seq /\ n # 0 /\ n <= m
    BY <1>2, <1>6, <1>7
  <1> HIDE DEF m, n
  <1>9. m # 0
    BY <1>5, <1>8
  <1> QED BY <1>8, <1>9

LEMMA FinalStep == ASSUME FinalInv, [Next]_vars PROVE FinalInv'
  <1>1. LedgerInv'
    BY LedgerStep DEF FinalInv
  <1> SUFFICES ASSUME ~wiped', gcFloor' = 0 PROVE Finals'
    BY <1>1 DEF FinalInv
  <1>2. ~Reset /\ UNCHANGED wiped
    BY WipedStep
  <1>3. Core /\ Honesty /\ Ledgers
    BY <1>2 DEF FinalInv, LedgerInv, HonestInv, SyncInv
  <1>4. CASE UNCHANGED <<rows, killed, gcFloor>>
    BY <1>2, <1>4 DEF FinalInv, Finals
  <1>5. CASE UNCHANGED vars
    BY <1>4, <1>5 DEF vars
  <1>6. CASE Alarm
    BY <1>3, <1>6, PurgeRaises
  <1>7. ASSUME NEW c \in Clients, Device(c) PROVE Finals'
    <2>1. UNCHANGED <<rows, killed, gcFloor>>
      BY <1>7 DEF Device, Upsert, Update, Cascade, Write, Save, Boot, Crash, Dial, Disconnect,
                  OnState, OnRows, OnAck, PushPending, room
    <2> QED BY <1>4, <2>1
  <1>8. ASSUME NEW c \in Clients, Room(c) PROVE Finals'
    <2>1. CASE HandleHello(c)
      BY <1>4, <2>1 DEF HandleHello, room
    <2>2. CASE HandlePush(c)
      <3>1. ApplyPush(Head(up[c]).batch, {c}) /\ UNCHANGED gcFloor /\ up[c] # << >> /\ Head(up[c]).t = "push"
        BY <2>2 DEF HandlePush, Arrived
      <3>2. Finals
        BY <1>2, <3>1 DEF FinalInv
      <3> QED BY <1>3, <3>1, <3>2, HeadPush, PushFinal
    <2>3. CASE HandleStray(c)
      <3>1. ApplyPush(Head(stray[c]).batch, {}) /\ UNCHANGED gcFloor /\ stray[c] # << >>
        BY <2>3 DEF HandleStray
      <3>2. Finals
        BY <1>2, <3>1 DEF FinalInv
      <3> QED BY <1>3, <3>1, <3>2, HeadStray, PushFinal
    <2> QED BY <1>8, <2>1, <2>2, <2>3 DEF Room
  <1> QED BY <1>2, <1>5, <1>6, <1>7, <1>8 DEF Next

(* A delete the room accepted is final for everything older, whoever pushes it
   again or late and after any disconnect or crash, as long as no tombstone was
   purged and the room was not wiped.  After a purge it is not (the violation
   of the run gc_revive). *)
THEOREM NoResurrectionUnpurged == Spec => [](~wiped /\ gcFloor = 0 => NoResurrection)
  <1>1. Init => FinalInv
    <2> SUFFICES ASSUME Init PROVE FinalInv
      OBVIOUS
    <2>1. \A i \in Ids : rows[i] = NoRow /\ killed[i] = NoClock
      BY DEF Init
    <2>2. Finals
      BY <2>1 DEF Finals, Final, NoRow
    <2> QED BY <2>2, LedgerInit DEF FinalInv
  <1>2. FinalInv /\ [Next]_vars => FinalInv'
    BY FinalStep
  <1>3. FinalInv => (~wiped /\ gcFloor = 0 => NoResurrection)
    BY DEF FinalInv, Finals, Final, NoResurrection
  <1> QED BY <1>1, <1>2, <1>3, PTL DEF Spec

-----------------------------------------------------------------------------
(* Pending batches leave in order: pushed, acked and retired in the order they
   were minted, and when an ack is read the replica holds what it is for. *)

PushedIn(U, n, x) == \E m \in 1..n : U[m].t = "push" /\ U[m].batch.id = x
AckedIn(D, n, x)  == \E m \in 1..n : D[m].t = "ack" /\ D[m].batch = x

Rising(p) ==
    \A j \in 1..Len(p) : p[j].id \in Nat /\ \A k \in 1..Len(p) : j < k => p[j].id < p[k].id

\* A batch in flight is on the wire, and its elders before it.
InTurn(p, U, D) ==
    /\ \A j \in 1..Len(p) : p[j].sent => PushedIn(U, Len(U), p[j].id) \/ AckedIn(D, Len(D), p[j].id)
    /\ \A k \in 1..Len(U) : U[k].t = "push" => \A j \in 1..Len(p) : p[j].id < U[k].batch.id =>
           PushedIn(U, k - 1, p[j].id) \/ AckedIn(D, Len(D), p[j].id)
    /\ \A k \in 1..Len(D) : D[k].t = "ack" => \A j \in 1..Len(p) : p[j].id < D[k].batch =>
           AckedIn(D, k - 1, p[j].id)

\* When an ack is read, its batch changes nothing the replica holds.
Idle(r, ops) == \A i \in Ids : ~Changes(r[i], ops[i])
Foretold(a, n, D, p) ==
    \A A : Trail(a, n, D, A) => \A k \in 1..Len(D) : D[k].t = "ack" =>
        \A j \in 1..Len(p) : p[j].id = D[k].batch => Idle(A[k - 1], p[j].ops)

Turn(v, d, s, U, D) ==
    /\ Rising(d.pending) /\ Rising(s.pending)
    /\ v # "joined" => /\ \A k \in 1..Len(U) : U[k].t # "push"
                       /\ \A k \in 1..Len(D) : D[k].t # "ack"
    /\ InTurn(d.pending, U, D)
    /\ Foretold(d.auth, d.cursor, D, d.pending)

TurnOf(c) == Turn(conn[c], doc[c], saved[c], up[c], down[c])
Turns == \A c \in Clients : TurnOf(c)

TurnInv == LedgerInv /\ (~wiped => Turns)

(* Two trails agree. *)
LEMMA OneTrail ==
    ASSUME NEW a, NEW n, NEW s, IsSeq(s), NEW A, Trail(a, n, s, A), NEW B, Trail(a, n, s, B)
    PROVE  \A k \in 0..Len(s) : A[k] = B[k]
  <1> DEFINE D == {k \in Nat : k \in 0..Len(s) /\ A[k] # B[k]}
             R == OpToRel(<, Nat)
  <1> SUFFICES ASSUME NEW x \in D PROVE FALSE
    BY DEF IsSeq
  <1>1. PICK l \in D : \A y \in D : ~(<<y, l>> \in R)
    <2> HIDE DEF R
    <2>1. IsWellFoundedOn(R, Nat)
      BY NatLessThanWellFounded DEF R
    <2>2. D \subseteq Nat /\ x \in D
      OBVIOUS
    <2> HIDE DEF D
    <2> QED BY <2>1, <2>2, WFMin
  <1>2. l \in Nat /\ l \in 0..Len(s) /\ A[l] # B[l] /\ \A y \in D : ~(y < l)
    BY <1>1 DEF OpToRel
  <1>3. A[0] = a /\ B[0] = a /\ Len(s) \in Nat
    BY DEF Trail, IsSeq
  <1>4. l - 1 \in Nat /\ l - 1 \in 0..Len(s) /\ l \in 1..Len(s) /\ l - 1 < l
    BY <1>2, <1>3
  <1>5. A[l - 1] = B[l - 1]
    BY <1>2, <1>4
  <1>6. A[l] = After(A[l - 1], s[l]) /\ B[l] = After(B[l - 1], s[l])
    BY <1>4 DEF Trail
  <1> QED BY <1>2, <1>5, <1>6

(* A trail of a longer queue is one of its beginning. *)
LEMMA TrailShort ==
    ASSUME NEW a, NEW n, NEW s, IsSeq(s), NEW e, NEW A, Trail(a, n, Append(s, e), A)
    PROVE  Trail(a, n, s, A)
  <1> DEFINE t == Append(s, e)
  <1>1. /\ Len(s) \in Nat /\ Len(t) = Len(s) + 1
        /\ \A k \in 1..Len(s) : t[k] = s[k]
    BY SeqAppend
  <1> HIDE DEF t
  <1>2. Trail(a, n, t, A)
    BY DEF t
  <1>3. ASSUME NEW k \in 1..Len(s)
        PROVE  A[k] = After(A[k - 1], s[k]) /\ Seen(n, s, k - 1) <= Seen(n, s, k)
    <2>1. k \in 1..Len(t) /\ t[k] = s[k] /\ (k - 1 # 0 => k - 1 \in 1..Len(s))
      BY <1>1
    <2>2. A[k] = After(A[k - 1], t[k]) /\ Seen(n, t, k - 1) <= Seen(n, t, k)
      BY <1>2, <2>1 DEF Trail
    <2>3. Seen(n, t, k) = Seen(n, s, k) /\ Seen(n, t, k - 1) = Seen(n, s, k - 1)
      BY <1>1, <2>1 DEF Seen
    <2> QED BY <2>1, <2>2, <2>3
  <1> QED BY <1>2, <1>3 DEF Trail

(* A trail of what is left once a frame was read, with the replica before it. *)
LEMMA TrailLong ==
    ASSUME NEW a, NEW n, NEW s, IsSeq(s), s # << >>, n <= Head(s).seq,
           NEW B, Trail(After(a, Head(s)), Head(s).seq, Tail(s), B)
    PROVE  LET A == [k \in 0..Len(s) |-> IF k = 0 THEN a ELSE B[k - 1]] IN Trail(a, n, s, A)
  <1> DEFINE A == [k \in 0..Len(s) |-> IF k = 0 THEN a ELSE B[k - 1]]
             t == Tail(s)
             m == Head(s).seq
  <1>1. /\ Len(s) \in Nat /\ Len(s) # 0 /\ Len(t) = Len(s) - 1
        /\ \A k \in 1..(Len(s) - 1) : t[k] = s[k + 1]
        /\ Head(s) = s[1]
    BY SeqTail
  <1>2. B[0] = After(a, s[1]) /\ m = s[1].seq
        /\ \A k \in 1..Len(t) : B[k] = After(B[k - 1], t[k]) /\ Seen(m, t, k - 1) <= Seen(m, t, k)
    BY <1>1 DEF Trail
  <1>3. A[0] = a /\ \A k \in 1..Len(s) : A[k] = B[k - 1]
    BY <1>1
  <1> HIDE DEF A, t, m
  <1>4. ASSUME NEW k \in 1..Len(s)
        PROVE  A[k] = After(A[k - 1], s[k]) /\ Seen(n, s, k - 1) <= Seen(n, s, k)
    <2>1. CASE k = 1
      <3>1. A[1] = B[0] /\ A[1 - 1] = a /\ 1 - 1 = 0
        BY <1>3, <2>1
      <3>2. Seen(n, s, 0) = n /\ Seen(n, s, 1) = m
        BY <1>2 DEF Seen
      <3> QED BY <1>2, <2>1, <3>1, <3>2 DEF m
    <2>2. CASE k # 1
      <3>1. /\ k - 1 \in 1..Len(t) /\ k - 1 \in 1..Len(s) /\ k - 1 \in 1..(Len(s) - 1) /\ (k - 1) + 1 = k
            /\ k - 1 # 0 /\ k # 0
        BY <1>1, <2>2
      <3>2. A[k] = B[k - 1] /\ A[k - 1] = B[(k - 1) - 1] /\ t[k - 1] = s[k]
        BY <1>1, <1>3, <3>1
      <3>3. B[k - 1] = After(B[(k - 1) - 1], t[k - 1]) /\ Seen(m, t, (k - 1) - 1) <= Seen(m, t, k - 1)
        BY <1>2, <3>1
      <3>4. Seen(m, t, k - 1) = Seen(n, s, k)
        BY <3>1, <3>2 DEF Seen
      <3>5. Seen(m, t, (k - 1) - 1) = Seen(n, s, k - 1)
        <4>1. CASE k - 1 = 1
          BY <1>2, <4>1 DEF Seen
        <4>2. CASE k - 1 # 1
          <5>1. (k - 1) - 1 \in 1..(Len(s) - 1) /\ ((k - 1) - 1) + 1 = k - 1 /\ (k - 1) - 1 # 0
            BY <3>1, <4>2
          <5> QED BY <1>1, <3>1, <5>1 DEF Seen
        <4> QED BY <4>1, <4>2
      <3> QED BY <3>2, <3>3, <3>4, <3>5
    <2> QED BY <2>1, <2>2
  <1>5. Trail(a, n, s, A)
    BY <1>3, <1>4 DEF Trail
  <1> QED BY <1>5 DEF A

-----------------------------------------------------------------------------
(* What the steps of a device leave true of its queue. *)

(* No socket, or one that has only said hello, and nothing in flight. *)
LEMMA TurnIdle ==
    ASSUME NEW v, NEW d, NEW s, NEW U, Rising(d.pending), Rising(s.pending),
           \A j \in 1..Len(d.pending) : d.pending[j].sent = FALSE,
           \A k \in 1..Len(U) : U[k].t # "push"
    PROVE  Turn(v, d, s, U, << >>)
  <1>1. Len(<< >>) = 0 /\ \A k \in 1..0 : FALSE
    OBVIOUS
  <1>2. InTurn(d.pending, U, << >>)
    BY <1>1 DEF InTurn
  <1>3. Foretold(d.auth, d.cursor, << >>, d.pending)
    BY <1>1 DEF Foretold
  <1> QED BY <1>1, <1>2, <1>3 DEF Turn

LEMMA TurnSaved ==
    ASSUME NEW v, NEW d, NEW s, NEW U, NEW D, Turn(v, d, s, U, D), NEW x, Rising(x.pending)
    PROVE  Turn(v, d, x, U, D)
  BY DEF Turn

\* The same ids in the same order.
LEMMA RisingSame ==
    ASSUME NEW p, NEW q, Rising(p), Len(q) = Len(p), \A k \in 1..Len(q) : q[k].id = p[k].id
    PROVE  Rising(q)
  BY DEF Rising

(* A batch is minted with an id above all that is pending or on the wire. *)
LEMMA TurnMint ==
    ASSUME NEW T, NEW K, NEW c \in Clients, NEW w, NEW v, NEW d, NEW s, NEW U, NEW D, NEW Z, NEW A,
           Ledger(T, K, c, w, d, s, U, D, Z, A), IsDoc(d), Turn(v, d, s, U, D),
           NEW t \in Nat, t > d.tick, NEW ops
    PROVE  Turn(v, EnqueueOps(d, t, Hlc(c, t), ops), s, U, D)
  <1> DEFINE h == Hlc(c, t)
             g == Hlc(c, d.tick)
             e == EnqueueOps(d, t, h, ops)
             p == d.pending
             q == e.pending
             l == Len(p)
             M == Mine(d, s, U, A)
  <1>1. /\ d.tick \in Nat /\ Entered(p) /\ Numbered(M, g) /\ AcksTrue(T, K, M, D, g)
    BY DEF Ledger
  <1>2. /\ e.auth = d.auth /\ l \in Nat /\ Len(q) = l + 1
        /\ \A k \in 1..l : q[k] = p[k]
        /\ q[l + 1].id = h /\ q[l + 1].sent = FALSE
    <2>1. /\ e.auth = d.auth /\ l \in Nat /\ Len(q) = l + 1
          /\ \A k \in 1..l : q[k] = p[k]
          /\ q[l + 1] = [id |-> h, ops |-> ops, sent |-> FALSE]
      BY <1>1, EnqueueOf
    <2> QED BY <2>1
  <1>3. e.cursor = d.cursor
    BY KeepCursor
  <1>4. g \in Nat /\ h \in Nat /\ g < h
    BY <1>1, HlcOrder
  <1>5. \A j \in 1..l : p[j].id \in Nat /\ p[j].id < h
    <2> TAKE j \in 1..l
    <2>1. Bare(p[j]) \in M /\ Bare(p[j]).id = p[j].id
      BY MineOf DEF Bare
    <2>2. p[j].id \in Nat /\ p[j].id <= g
      BY <1>1, <2>1 DEF Numbered
    <2> QED BY <1>4, <2>2
  <1>6. \A k \in 1..Len(U) : U[k].t = "push" => ~(h < U[k].batch.id)
    <2> SUFFICES ASSUME NEW k \in 1..Len(U), U[k].t = "push" PROVE ~(h < U[k].batch.id)
      OBVIOUS
    <2>1. Bare(U[k].batch) \in M /\ Bare(U[k].batch).id = U[k].batch.id
      BY MineOf DEF Bare
    <2>2. U[k].batch.id \in Nat /\ U[k].batch.id <= g
      BY <1>1, <2>1 DEF Numbered
    <2> QED BY <1>4, <2>2
  <1>7. \A k \in 1..Len(D) : D[k].t = "ack" => ~(h < D[k].batch) /\ h # D[k].batch
    <2> SUFFICES ASSUME NEW k \in 1..Len(D), D[k].t = "ack" PROVE ~(h < D[k].batch) /\ h # D[k].batch
      OBVIOUS
    <2>1. D[k].batch \in Nat /\ D[k].batch <= g
      BY <1>1 DEF AcksTrue
    <2> QED BY <1>4, <2>1
  <1>8. Rising(p) /\ InTurn(p, U, D) /\ Foretold(d.auth, d.cursor, D, p)
    BY DEF Turn
  <1> HIDE DEF e, p, q, l, h, g, M
  <1>9. \A k \in 1..Len(q) : k = l + 1 \/ k \in 1..l
    BY <1>2
  <1>10. Rising(q)
    <2> SUFFICES ASSUME NEW j \in 1..Len(q)
                 PROVE  q[j].id \in Nat /\ \A k \in 1..Len(q) : j < k => q[j].id < q[k].id
      BY DEF Rising
    <2>1. CASE j = l + 1
      <3>1. \A k \in 1..Len(q) : ~(j < k)
        BY <1>2, <2>1
      <3> QED BY <1>2, <1>4, <2>1, <3>1
    <2>2. CASE j \in 1..l
      <3> SUFFICES ASSUME NEW k \in 1..Len(q), j < k PROVE q[j].id < q[k].id
        BY <1>2, <1>5, <2>2
      <3>1. CASE k = l + 1
        BY <1>2, <1>5, <2>2, <3>1
      <3>2. CASE k \in 1..l
        BY <1>2, <1>8, <2>2, <3>2 DEF Rising, l
      <3> QED BY <1>9, <3>1, <3>2
    <2> QED BY <1>9, <2>1, <2>2
  <1>11. InTurn(q, U, D)
    <2>1. ASSUME NEW j \in 1..Len(q), q[j].sent
          PROVE  PushedIn(U, Len(U), q[j].id) \/ AckedIn(D, Len(D), q[j].id)
      BY <1>2, <1>8, <1>9, <2>1 DEF InTurn, l
    <2>2. ASSUME NEW k \in 1..Len(U), U[k].t = "push", NEW j \in 1..Len(q), q[j].id < U[k].batch.id
          PROVE  PushedIn(U, k - 1, q[j].id) \/ AckedIn(D, Len(D), q[j].id)
      <3>1. j \in 1..l
        BY <1>2, <1>6, <1>9, <2>2
      <3> QED BY <1>2, <1>8, <2>2, <3>1 DEF InTurn, l
    <2>3. ASSUME NEW k \in 1..Len(D), D[k].t = "ack", NEW j \in 1..Len(q), q[j].id < D[k].batch
          PROVE  AckedIn(D, k - 1, q[j].id)
      <3>1. j \in 1..l
        BY <1>2, <1>7, <1>9, <2>3
      <3> QED BY <1>2, <1>8, <2>3, <3>1 DEF InTurn, l
    <2> QED BY <2>1, <2>2, <2>3 DEF InTurn
  <1>12. Foretold(d.auth, d.cursor, D, q)
    <2> SUFFICES ASSUME NEW B, Trail(d.auth, d.cursor, D, B), NEW k \in 1..Len(D), D[k].t = "ack",
                        NEW j \in 1..Len(q), q[j].id = D[k].batch
                 PROVE  Idle(B[k - 1], q[j].ops)
      BY DEF Foretold
    <2>1. j \in 1..l
      BY <1>2, <1>7, <1>9
    <2> QED BY <1>2, <1>8, <2>1 DEF Foretold, l
  <1>13. Turn(v, e, s, U, D)
    BY <1>2, <1>3, <1>10, <1>11, <1>12 DEF Turn, q
  <1> QED BY <1>13 DEF e, h

(* Everything not in flight is pushed, in order. *)
LEMMA TurnPush ==
    ASSUME NEW v, NEW d, NEW s, NEW U, NEW D, Turn(v, d, s, U, D), IsDoc(d), Entered(d.pending), IsSeq(U)
    PROVE  Turn("joined", TakePushable(d), s, U \o Pushes(d), D)
  <1> DEFINE e == TakePushable(d)
             p == d.pending
             q == e.pending
             P == Waiting(p)
             V == Pushes(d)
             W == U \o V
             n == Len(U)
             m == Len(V)
  <1>1. /\ e.auth = d.auth /\ Len(q) = Len(p) /\ Len(q) \in Nat
        /\ \A k \in 1..Len(q) : q[k].id = p[k].id /\ q[k].ops = p[k].ops
    BY TakenOf
  <1>2. e.cursor = d.cursor
    BY KeepCursor
  <1>3. IsSeq(V) /\ Chosen(P, m) /\ \A x \in 1..m : V[x] = PushFrame(p[Nth(P, x)])
    BY PushesOf
  <1>4. Rising(p) /\ Rising(s.pending) /\ InTurn(p, U, D) /\ Foretold(d.auth, d.cursor, D, p)
    BY DEF Turn
  <1> HIDE DEF e, p, q, V
  <1>5. /\ n \in Nat /\ m \in Nat /\ Len(W) = n + m
        /\ \A k \in 1..n : W[k] = U[k]
        /\ \A k \in 1..m : W[n + k] = V[k]
        /\ \A k \in 1..n + m : k \in 1..n \/ \E j \in 1..m : k = n + j
    <2>1. IsSeq(U) /\ IsSeq(V)
      BY <1>3
    <2> QED BY <2>1, SeqConcat
  <1> HIDE DEF W, P, n, m
  <1>6. \A x \in 1..m : /\ Nth(P, x) \in 1..Len(p)
                        /\ V[x].t = "push" /\ V[x].batch.id = p[Nth(P, x)].id
    <2> TAKE x \in 1..m
    <2>1. Nth(P, x) \in P /\ V[x] = PushFrame(p[Nth(P, x)])
      BY <1>3 DEF Chosen
    <2>2. Nth(P, x) \in 1..Len(p)
      BY <2>1 DEF Waiting, P
    <2> QED BY <2>1, <2>2 DEF PushFrame
  \* A batch of the queue is on the wire already or among the new pushes.
  <1>7. ASSUME NEW j \in 1..Len(p), ~(PushedIn(U, n, p[j].id) \/ AckedIn(D, Len(D), p[j].id))
        PROVE  \E x \in 1..m : Nth(P, x) = j
    <2>1. ~p[j].sent
      BY <1>4, <1>7 DEF InTurn, n
    <2>2. j \in P
      BY <2>1 DEF P, Waiting
    <2> QED BY <1>3, <2>2 DEF Chosen
  <1>8. \A x : \A k \in 1..n + m : PushedIn(U, n, x) /\ n < k => PushedIn(W, k - 1, x)
    <2> SUFFICES ASSUME NEW x, NEW k \in 1..n + m, PushedIn(U, n, x), n < k PROVE PushedIn(W, k - 1, x)
      OBVIOUS
    <2>1. PICK i \in 1..n : U[i].t = "push" /\ U[i].batch.id = x
      BY DEF PushedIn
    <2>2. i \in 1..(k - 1) /\ W[i] = U[i]
      BY <1>5
    <2> QED BY <2>1, <2>2 DEF PushedIn
  <1>9. ASSUME NEW j \in 1..Len(q) PROVE PushedIn(W, Len(W), q[j].id) \/ AckedIn(D, Len(D), q[j].id)
    <2>1. CASE PushedIn(U, n, q[j].id)
      <3>1. PICK i \in 1..n : U[i].t = "push" /\ U[i].batch.id = q[j].id
        BY <2>1 DEF PushedIn
      <3>2. i \in 1..Len(W) /\ W[i] = U[i]
        BY <1>5
      <3> QED BY <3>1, <3>2 DEF PushedIn
    <2>2. CASE ~(PushedIn(U, n, q[j].id) \/ AckedIn(D, Len(D), q[j].id))
      <3>1. PICK x \in 1..m : Nth(P, x) = j
        BY <1>1, <1>7, <2>2
      <3>2. n + x \in 1..Len(W) /\ W[n + x] = V[x]
        BY <1>5
      <3>3. W[n + x].t = "push" /\ W[n + x].batch.id = q[j].id
        BY <1>1, <1>6, <3>1, <3>2
      <3> QED BY <3>2, <3>3 DEF PushedIn
    <2> QED BY <2>1, <2>2
  <1>10. ASSUME NEW k \in 1..Len(W), W[k].t = "push", NEW j \in 1..Len(q), q[j].id < W[k].batch.id
         PROVE  PushedIn(W, k - 1, q[j].id) \/ AckedIn(D, Len(D), q[j].id)
    <2>1. CASE k \in 1..n
      <3>1. PushedIn(U, k - 1, p[j].id) \/ AckedIn(D, Len(D), p[j].id)
        BY <1>1, <1>4, <1>5, <1>10, <2>1 DEF InTurn, n
      <3>2. ASSUME PushedIn(U, k - 1, p[j].id) PROVE PushedIn(W, k - 1, p[j].id)
        <4>1. PICK i \in 1..(k - 1) : U[i].t = "push" /\ U[i].batch.id = p[j].id
          BY <3>2 DEF PushedIn
        <4>2. W[i] = U[i]
          BY <1>5, <2>1
        <4> QED BY <4>1, <4>2 DEF PushedIn
      <3> QED BY <1>1, <3>1, <3>2
    <2>2. CASE \E y \in 1..m : k = n + y
      <3>1. PICK y \in 1..m : k = n + y
        BY <2>2
      <3>2. W[k].batch.id = p[Nth(P, y)].id /\ Nth(P, y) \in 1..Len(p)
        BY <1>5, <1>6, <3>1
      <3>3. n < k /\ k \in 1..n + m
        BY <1>5, <3>1
      <3>4. CASE PushedIn(U, n, q[j].id)
        BY <1>8, <3>3, <3>4
      <3>5. CASE ~(PushedIn(U, n, q[j].id) \/ AckedIn(D, Len(D), q[j].id))
        <4>1. PICK x \in 1..m : Nth(P, x) = j
          BY <1>1, <1>7, <3>5
        <4>2. p[Nth(P, x)].id < p[Nth(P, y)].id
          BY <1>1, <1>10, <3>2, <4>1
        <4>3. x < y
          <5>1. x < y \/ x = y \/ y < x
            OBVIOUS
          <5>2. y < x => p[Nth(P, y)].id < p[Nth(P, x)].id
            BY <1>3, <1>4, <1>6 DEF Chosen, Rising
          <5>3. p[Nth(P, x)].id \in Nat /\ p[Nth(P, y)].id \in Nat
            BY <1>4, <1>6 DEF Rising
          <5> QED BY <4>2, <5>1, <5>2, <5>3
        <4>4. n + x \in 1..(k - 1) /\ W[n + x] = V[x]
          BY <1>5, <3>1, <4>3
        <4>5. W[n + x].t = "push" /\ W[n + x].batch.id = q[j].id
          BY <1>1, <1>6, <4>1, <4>4
        <4> QED BY <4>4, <4>5 DEF PushedIn
      <3> QED BY <3>4, <3>5
    <2> QED BY <1>5, <2>1, <2>2
  <1>11. InTurn(q, W, D)
    <2>1. \A k \in 1..Len(D) : D[k].t = "ack" => \A j \in 1..Len(q) : q[j].id < D[k].batch =>
              AckedIn(D, k - 1, q[j].id)
      BY <1>1, <1>4 DEF InTurn
    <2> QED BY <1>9, <1>10, <2>1 DEF InTurn
  <1>12. Rising(q)
    BY <1>1, <1>4, RisingSame
  <1>13. Foretold(e.auth, e.cursor, D, q)
    BY <1>1, <1>2, <1>4 DEF Foretold
  <1>14. Turn("joined", e, s, W, D)
    BY <1>4, <1>11, <1>12, <1>13 DEF Turn, q
  <1> QED BY <1>14 DEF e, W, V

(* A frame that is no ack is read. *)
LEMMA TurnRead ==
    ASSUME NEW v, NEW d, NEW s, NEW U, NEW D, Turn(v, d, s, U, D), IsSeq(D), D # << >>,
           Head(D).t # "ack", d.cursor <= Head(D).seq,
           NEW e, e.auth = After(d.auth, Head(D)), e.cursor = Head(D).seq, e.pending = d.pending
    PROVE  Turn(v, e, s, U, Tail(D))
  <1> DEFINE f == Head(D)
             E == Tail(D)
             p == d.pending
             a == d.auth
             n == d.cursor
  <1>1. /\ Len(D) \in Nat /\ Len(D) # 0 /\ Len(E) = Len(D) - 1
        /\ \A k \in 1..(Len(D) - 1) : E[k] = D[k + 1]
        /\ f = D[1]
    BY SeqTail
  <1>2. /\ Rising(p) /\ Rising(s.pending) /\ InTurn(p, U, D) /\ Foretold(a, n, D, p)
        /\ v # "joined" => (\A k \in 1..Len(U) : U[k].t # "push") /\ (\A k \in 1..Len(D) : D[k].t # "ack")
    BY DEF Turn
  <1>3. \A A : Trail(After(a, f), f.seq, E, A) =>
            Trail(a, n, D, [k \in 0..Len(D) |-> IF k = 0 THEN a ELSE A[k - 1]])
    BY TrailLong
  <1>4. e.auth = After(a, f) /\ e.cursor = f.seq /\ e.pending = p
    OBVIOUS
  <1> HIDE DEF E, p, a, n, f
  <1>5. \A k \in 1..Len(E) : k + 1 \in 1..Len(D) /\ E[k] = D[k + 1] /\ k \in Nat
    BY <1>1
  <1>6. \A x, k : k \in 1..Len(E) + 1 /\ AckedIn(D, k, x) => AckedIn(E, k - 1, x)
    <2> SUFFICES ASSUME NEW x, NEW k \in 1..Len(E) + 1, AckedIn(D, k, x) PROVE AckedIn(E, k - 1, x)
      OBVIOUS
    <2>1. PICK m \in 1..k : D[m].t = "ack" /\ D[m].batch = x
      BY DEF AckedIn
    <2>2. m # 1
      BY <1>1, <2>1 DEF f
    <2>3. m - 1 \in 1..(k - 1) /\ m - 1 \in 1..Len(E) /\ (m - 1) + 1 = m
      BY <1>1, <2>2
    <2>4. E[m - 1] = D[m]
      BY <1>5, <2>3
    <2> QED BY <2>1, <2>3, <2>4 DEF AckedIn
  <1>7. \A x : AckedIn(D, Len(D), x) => AckedIn(E, Len(E), x)
    <2>1. Len(D) \in 1..Len(E) + 1 /\ Len(D) - 1 = Len(E)
      BY <1>1
    <2> QED BY <1>6, <2>1
  <1>8. InTurn(p, U, E)
    <2>1. ASSUME NEW k \in 1..Len(E), E[k].t = "ack", NEW j \in 1..Len(p), p[j].id < E[k].batch
          PROVE  AckedIn(E, k - 1, p[j].id)
      <3>1. AckedIn(D, (k + 1) - 1, p[j].id)
        BY <1>2, <1>5, <2>1 DEF InTurn
      <3>2. k \in 1..Len(E) + 1 /\ (k + 1) - 1 = k
        BY <1>1
      <3> QED BY <1>6, <3>1, <3>2
    <2> QED BY <1>2, <1>7, <2>1 DEF InTurn
  <1>9. Foretold(After(a, f), f.seq, E, p)
    <2> SUFFICES ASSUME NEW B, Trail(After(a, f), f.seq, E, B), NEW k \in 1..Len(E), E[k].t = "ack",
                        NEW j \in 1..Len(p), p[j].id = E[k].batch
                 PROVE  Idle(B[k - 1], p[j].ops)
      BY DEF Foretold
    <2> DEFINE A == [x \in 0..Len(D) |-> IF x = 0 THEN a ELSE B[x - 1]]
    <2>1. Trail(a, n, D, A)
      BY <1>3
    <2>2. k \in 0..Len(D) /\ k # 0 /\ (k + 1) - 1 = k
      BY <1>1
    <2>3. A[(k + 1) - 1] = B[k - 1]
      BY <2>2
    <2> HIDE DEF A
    <2>4. Idle(A[(k + 1) - 1], p[j].ops)
      BY <1>2, <1>5, <2>1 DEF Foretold
    <2> QED BY <2>3, <2>4
  <1>10. v # "joined" => \A k \in 1..Len(E) : E[k].t # "ack"
    BY <1>2, <1>5
  <1>11. Turn(v, e, s, U, E)
    BY <1>2, <1>4, <1>8, <1>9, <1>10 DEF Turn
  <1> QED BY <1>11 DEF E

(* An ack is read, and the batch it names is the eldest of the queue. *)
LEMMA Eldest ==
    ASSUME NEW v, NEW d, NEW s, NEW U, NEW D, Turn(v, d, s, U, D), IsSeq(D), D # << >>, Head(D).t = "ack",
           Head(D).batch \in Nat, IsSeq(d.pending), NEW A, Trail(d.auth, d.cursor, D, A)
    PROVE  \A j \in 1..Len(d.pending) :
               /\ j # 1 => d.pending[j].id # Head(D).batch
               /\ d.pending[j].id = Head(D).batch => Idle(d.auth, d.pending[j].ops)
  <1> DEFINE p == d.pending
             b == Head(D).batch
  <1>1. Len(p) \in Nat /\ Head(D) = D[1] /\ 1 \in 1..Len(D) /\ 1 - 1 = 0
    BY SeqTail DEF IsSeq
  <1>2. Rising(p) /\ InTurn(p, U, D) /\ Foretold(d.auth, d.cursor, D, p) /\ A[0] = d.auth
    BY DEF Turn, Trail
  <1>3. b = D[1].batch /\ D[1].t = "ack"
    BY <1>1
  <1> HIDE DEF p, b
  <1>4. \A j \in 1..Len(p) : ~(p[j].id < b)
    <2> SUFFICES ASSUME NEW j \in 1..Len(p), p[j].id < b PROVE FALSE
      OBVIOUS
    <2>1. AckedIn(D, 1 - 1, p[j].id)
      BY <1>1, <1>2, <1>3 DEF InTurn
    <2> QED BY <2>1 DEF AckedIn
  <1>5. ASSUME NEW j \in 1..Len(p), j # 1 PROVE p[j].id # b
    <2>1. 1 \in 1..Len(p) /\ 1 < j
      BY <1>1, <1>5
    <2>2. p[1].id < p[j].id
      BY <1>2, <2>1 DEF Rising
    <2> QED BY <1>4, <2>1, <2>2
  <1>6. ASSUME NEW j \in 1..Len(p), p[j].id = b PROVE Idle(d.auth, p[j].ops)
    BY <1>1, <1>2, <1>3, <1>6 DEF Foretold
  <1> QED BY <1>5, <1>6 DEF p, b

LEMMA TurnAck ==
    ASSUME NEW v, NEW d, NEW s, NEW U, NEW D, Turn(v, d, s, U, D), IsSeq(D), D # << >>,
           Head(D).t = "ack", d.cursor <= Head(D).seq, IsDoc(d), Entered(d.pending),
           AckBatch(d, Head(D)).cursor = Head(D).seq
    PROVE  Turn(v, AckBatch(d, Head(D)), s, U, Tail(D))
  <1> DEFINE f == Head(D)
             E == Tail(D)
             p == d.pending
             a == d.auth
             n == d.cursor
             e == AckBatch(d, f)
             q == e.pending
             P == Unacked(p, f.batch)
  <1>1. /\ Len(D) \in Nat /\ Len(D) # 0 /\ Len(E) = Len(D) - 1
        /\ \A k \in 1..(Len(D) - 1) : E[k] = D[k + 1]
        /\ f = D[1]
    BY SeqTail
  <1>2. /\ Rising(p) /\ Rising(s.pending) /\ InTurn(p, U, D) /\ Foretold(a, n, D, p)
        /\ v # "joined" => (\A k \in 1..Len(U) : U[k].t # "push") /\ (\A k \in 1..Len(D) : D[k].t # "ack")
    BY DEF Turn
  <1>3. After(a, f) = a
    BY DEF After
  <1>4. \A A : Trail(a, f.seq, E, A) => Trail(a, n, D, [k \in 0..Len(D) |-> IF k = 0 THEN a ELSE A[k - 1]])
    BY <1>3, TrailLong
  <1>5. /\ e.auth = a /\ IsSeq(q) /\ Chosen(P, Len(q))
        /\ \A x \in 1..Len(q) : q[x] = p[Nth(P, x)]
    BY AckedOf DEF Entered
  <1>6. e.cursor = f.seq /\ f.t = "ack"
    OBVIOUS
  <1> HIDE DEF E, p, a, n, f, e, q
  <1>7. \A x \in 1..Len(q) : Nth(P, x) \in 1..Len(p) /\ q[x] = p[Nth(P, x)] /\ q[x].id # f.batch
    BY <1>5 DEF Chosen, Unacked
  <1> HIDE DEF P
  <1>8. Rising(q)
    <2> SUFFICES ASSUME NEW j \in 1..Len(q)
                 PROVE  q[j].id \in Nat /\ \A k \in 1..Len(q) : j < k => q[j].id < q[k].id
      BY DEF Rising
    <2>1. q[j].id \in Nat
      BY <1>2, <1>7 DEF Rising
    <2>2. ASSUME NEW k \in 1..Len(q), j < k PROVE q[j].id < q[k].id
      <3>1. Nth(P, j) < Nth(P, k)
        BY <1>5, <2>2 DEF Chosen
      <3> QED BY <1>2, <1>7, <3>1 DEF Rising
    <2> QED BY <2>1, <2>2
  <1>9. \A k \in 1..Len(E) : k + 1 \in 1..Len(D) /\ E[k] = D[k + 1] /\ k \in Nat
    BY <1>1
  <1>10. \A x, k : k \in 1..Len(E) + 1 /\ x # f.batch /\ AckedIn(D, k, x) => AckedIn(E, k - 1, x)
    <2> SUFFICES ASSUME NEW x, NEW k \in 1..Len(E) + 1, x # f.batch, AckedIn(D, k, x)
                 PROVE  AckedIn(E, k - 1, x)
      OBVIOUS
    <2>1. PICK m \in 1..k : D[m].t = "ack" /\ D[m].batch = x
      BY DEF AckedIn
    <2>2. m # 1
      BY <1>1, <2>1
    <2>3. m - 1 \in 1..(k - 1) /\ m - 1 \in 1..Len(E) /\ (m - 1) + 1 = m
      BY <1>1, <2>2
    <2>4. E[m - 1] = D[m]
      BY <1>9, <2>3
    <2> QED BY <2>1, <2>3, <2>4 DEF AckedIn
  <1>11. \A x : x # f.batch /\ AckedIn(D, Len(D), x) => AckedIn(E, Len(E), x)
    <2>1. Len(D) \in 1..Len(E) + 1 /\ Len(D) - 1 = Len(E)
      BY <1>1
    <2> QED BY <1>10, <2>1
  <1>12. InTurn(q, U, E)
    <2>1. ASSUME NEW j \in 1..Len(q), q[j].sent
          PROVE  PushedIn(U, Len(U), q[j].id) \/ AckedIn(E, Len(E), q[j].id)
      BY <1>2, <1>7, <1>11, <2>1 DEF InTurn
    <2>2. ASSUME NEW k \in 1..Len(U), U[k].t = "push", NEW j \in 1..Len(q), q[j].id < U[k].batch.id
          PROVE  PushedIn(U, k - 1, q[j].id) \/ AckedIn(E, Len(E), q[j].id)
      BY <1>2, <1>7, <1>11, <2>2 DEF InTurn
    <2>3. ASSUME NEW k \in 1..Len(E), E[k].t = "ack", NEW j \in 1..Len(q), q[j].id < E[k].batch
          PROVE  AckedIn(E, k - 1, q[j].id)
      <3>1. AckedIn(D, (k + 1) - 1, q[j].id)
        BY <1>2, <1>7, <1>9, <2>3 DEF InTurn
      <3>2. k \in 1..Len(E) + 1 /\ (k + 1) - 1 = k
        BY <1>1
      <3> QED BY <1>7, <1>10, <3>1, <3>2
    <2> QED BY <2>1, <2>2, <2>3 DEF InTurn
  <1>13. Foretold(a, f.seq, E, q)
    <2> SUFFICES ASSUME NEW B, Trail(a, f.seq, E, B), NEW k \in 1..Len(E), E[k].t = "ack",
                        NEW j \in 1..Len(q), q[j].id = E[k].batch
                 PROVE  Idle(B[k - 1], q[j].ops)
      BY DEF Foretold
    <2> DEFINE A == [x \in 0..Len(D) |-> IF x = 0 THEN a ELSE B[x - 1]]
    <2>1. Trail(a, n, D, A)
      BY <1>4
    <2>2. k \in 0..Len(D) /\ k # 0 /\ (k + 1) - 1 = k
      BY <1>1
    <2>3. A[(k + 1) - 1] = B[k - 1]
      BY <2>2
    <2> HIDE DEF A
    <2>4. Idle(A[(k + 1) - 1], q[j].ops)
      BY <1>2, <1>7, <1>9, <2>1 DEF Foretold
    <2> QED BY <2>3, <2>4
  <1>14. v # "joined" => \A k \in 1..Len(E) : E[k].t # "ack"
    BY <1>2, <1>9
  <1>15. Turn(v, e, s, U, E)
    BY <1>2, <1>5, <1>6, <1>8, <1>12, <1>13, <1>14 DEF Turn, q
  <1> QED BY <1>15 DEF E, e, f

-----------------------------------------------------------------------------
(* What the room sends and hears. *)

LEMMA TurnSent ==
    ASSUME NEW v, NEW d, NEW s, NEW U, NEW D, Turn(v, d, s, U, D), IsSeq(D), NEW f, f.t # "ack"
    PROVE  Turn(v, d, s, U, Append(D, f))
  <1> DEFINE E == Append(D, f)
             p == d.pending
             a == d.auth
             n == d.cursor
  <1>1. /\ Len(D) \in Nat /\ Len(E) = Len(D) + 1
        /\ \A k \in 1..Len(D) : E[k] = D[k]
        /\ E[Len(D) + 1] = f
    BY SeqAppend
  <1>2. /\ Rising(p) /\ Rising(s.pending) /\ InTurn(p, U, D) /\ Foretold(a, n, D, p)
        /\ v # "joined" => (\A k \in 1..Len(U) : U[k].t # "push") /\ (\A k \in 1..Len(D) : D[k].t # "ack")
    BY DEF Turn
  <1>3. \A A : Trail(a, n, E, A) => Trail(a, n, D, A)
    BY TrailShort
  <1> HIDE DEF E, p, a, n
  <1>4. \A k \in 1..Len(E) : E[k].t = "ack" => k \in 1..Len(D) /\ E[k] = D[k]
    BY <1>1
  <1>5. \A k, x : k \in 0..Len(D) /\ AckedIn(D, k, x) => AckedIn(E, k, x)
    BY <1>1 DEF AckedIn
  <1>6. \A x : AckedIn(D, Len(D), x) => AckedIn(E, Len(E), x)
    BY <1>1 DEF AckedIn
  <1>7. InTurn(p, U, E)
    <2>1. ASSUME NEW k \in 1..Len(E), E[k].t = "ack", NEW j \in 1..Len(p), p[j].id < E[k].batch
          PROVE  AckedIn(E, k - 1, p[j].id)
      <3>1. AckedIn(D, k - 1, p[j].id) /\ k \in 1..Len(D)
        BY <1>2, <1>4, <2>1 DEF InTurn
      <3>2. k - 1 \in 0..Len(D)
        BY <1>1, <3>1
      <3> QED BY <1>5, <3>1, <3>2
    <2> QED BY <1>2, <1>6, <2>1 DEF InTurn
  <1>8. Foretold(a, n, E, p)
    BY <1>2, <1>3, <1>4 DEF Foretold
  <1>9. v # "joined" => \A k \in 1..Len(E) : E[k].t # "ack"
    BY <1>2, <1>4
  <1>10. Turn(v, d, s, U, E)
    BY <1>2, <1>7, <1>8, <1>9 DEF Turn, p, a, n
  <1> QED BY <1>10 DEF E

\* A hello is heard.
LEMMA TurnGreeted ==
    ASSUME NEW v, NEW d, NEW s, NEW U, NEW D, Turn(v, d, s, U, D), v # "joined", IsSeq(U), U # << >>
    PROVE  Turn(v, d, s, Tail(U), D)
  <1> DEFINE W == Tail(U)
  <1>1. \A k \in 1..Len(U) : U[k].t # "push"
    BY DEF Turn
  <1>2. Len(W) = Len(U) - 1 /\ Len(U) \in Nat /\ \A k \in 1..(Len(U) - 1) : W[k] = U[k + 1]
    BY SeqTail
  <1> HIDE DEF W
  <1>3. \A k \in 1..Len(W) : k + 1 \in 1..Len(U) /\ W[k] = U[k + 1]
    BY <1>2
  <1>4. \A k \in 1..Len(W) : W[k].t # "push"
    BY <1>1, <1>3
  <1>5. \A x : ~PushedIn(U, Len(U), x)
    BY <1>1 DEF PushedIn
  <1>6. InTurn(d.pending, W, D)
    BY <1>4, <1>5 DEF InTurn, Turn
  <1>7. Turn(v, d, s, W, D)
    BY <1>4, <1>6 DEF Turn
  <1> QED BY <1>7 DEF W

(* A push is heard and acked, and its ack comes after what it brought. *)
LEMMA TurnAcked ==
    ASSUME NEW v, NEW d, NEW s, NEW U, NEW D, Turn(v, d, s, U, D), v = "joined", IsSeq(U), U # << >>,
           Head(U).t = "push", IsSeq(D), NEW f, f.t = "ack", f.batch = Head(U).batch.id,
           \A A : Trail(d.auth, d.cursor, Append(D, f), A) =>
               \A j \in 1..Len(d.pending) : d.pending[j].id = f.batch => Idle(A[Len(D)], d.pending[j].ops)
    PROVE  Turn(v, d, s, Tail(U), Append(D, f))
  <1> DEFINE E == Append(D, f)
             W == Tail(U)
             p == d.pending
             a == d.auth
             n == d.cursor
  <1>1. /\ Len(D) \in Nat /\ Len(E) = Len(D) + 1
        /\ \A k \in 1..Len(D) : E[k] = D[k]
        /\ E[Len(D) + 1] = f
    BY SeqAppend
  <1>2. Rising(p) /\ Rising(s.pending) /\ InTurn(p, U, D) /\ Foretold(a, n, D, p)
    BY DEF Turn
  <1>3. \A A : Trail(a, n, E, A) => Trail(a, n, D, A)
    BY TrailShort
  <1>4. /\ Len(U) \in Nat /\ Len(U) # 0 /\ Len(W) = Len(U) - 1
        /\ \A k \in 1..(Len(U) - 1) : W[k] = U[k + 1]
        /\ Head(U) = U[1]
    BY SeqTail
  <1>5. \A A : Trail(a, n, E, A) =>
            \A j \in 1..Len(p) : p[j].id = f.batch => Idle(A[Len(D)], p[j].ops)
    OBVIOUS
  <1>6. U[1].t = "push" /\ U[1].batch.id = f.batch /\ f.t = "ack"
    BY <1>4
  <1> HIDE DEF E, W, p, a, n
  <1>7. \A k \in 1..Len(E) : k = Len(D) + 1 \/ k \in 1..Len(D)
    BY <1>1
  <1>8. \A k, x : k \in 0..Len(D) /\ AckedIn(D, k, x) => AckedIn(E, k, x)
    BY <1>1 DEF AckedIn
  <1>9. \A x : AckedIn(D, Len(D), x) => AckedIn(E, Len(E), x)
    BY <1>1 DEF AckedIn
  <1>10. AckedIn(E, Len(E), f.batch)
    <2>1. Len(D) + 1 \in 1..Len(E)
      BY <1>1
    <2> QED BY <1>1, <1>6, <2>1 DEF AckedIn
  <1>11. \A k \in 1..Len(W) : k + 1 \in 1..Len(U) /\ W[k] = U[k + 1] /\ k \in Nat
    BY <1>4
  <1>12. \A k, x : k \in 1..Len(U) /\ PushedIn(U, k, x) => x = f.batch \/ PushedIn(W, k - 1, x)
    <2> SUFFICES ASSUME NEW x, NEW k \in 1..Len(U), PushedIn(U, k, x), x # f.batch
                 PROVE  PushedIn(W, k - 1, x)
      OBVIOUS
    <2>1. PICK m \in 1..k : U[m].t = "push" /\ U[m].batch.id = x
      BY DEF PushedIn
    <2>2. m # 1
      BY <1>6, <2>1
    <2>3. m - 1 \in 1..(k - 1) /\ m - 1 \in 1..Len(W) /\ (m - 1) + 1 = m
      BY <1>4, <2>2
    <2>4. W[m - 1] = U[m]
      BY <1>11, <2>3
    <2> QED BY <2>1, <2>3, <2>4 DEF PushedIn
  <1>13. ASSUME NEW j \in 1..Len(p), p[j].sent
         PROVE  PushedIn(W, Len(W), p[j].id) \/ AckedIn(E, Len(E), p[j].id)
    <2>1. PushedIn(U, Len(U), p[j].id) \/ AckedIn(D, Len(D), p[j].id)
      BY <1>2, <1>13 DEF InTurn
    <2>2. Len(U) \in 1..Len(U) /\ Len(U) - 1 = Len(W)
      BY <1>4
    <2> QED BY <1>9, <1>10, <1>12, <2>1, <2>2
  <1>14. ASSUME NEW k \in 1..Len(W), W[k].t = "push", NEW j \in 1..Len(p), p[j].id < W[k].batch.id
         PROVE  PushedIn(W, k - 1, p[j].id) \/ AckedIn(E, Len(E), p[j].id)
    <2>1. k + 1 \in 1..Len(U) /\ (k + 1) - 1 = k /\ k \in 1..Len(U)
      BY <1>4
    <2>2. PushedIn(U, k, p[j].id) \/ AckedIn(D, Len(D), p[j].id)
      BY <1>2, <1>11, <1>14, <2>1 DEF InTurn
    <2> QED BY <1>9, <1>10, <1>12, <2>1, <2>2
  <1>15. ASSUME NEW k \in 1..Len(E), E[k].t = "ack", NEW j \in 1..Len(p), p[j].id < E[k].batch
         PROVE  AckedIn(E, k - 1, p[j].id)
    <2>1. CASE k \in 1..Len(D)
      <3>1. AckedIn(D, k - 1, p[j].id) /\ k - 1 \in 0..Len(D)
        BY <1>1, <1>2, <1>15, <2>1 DEF InTurn
      <3> QED BY <1>8, <3>1
    <2>2. CASE k = Len(D) + 1
      <3>1. 1 \in 1..Len(U) /\ p[j].id < U[1].batch.id /\ U[1].t = "push"
        BY <1>1, <1>4, <1>6, <1>15, <2>2
      <3>2. PushedIn(U, 1 - 1, p[j].id) \/ AckedIn(D, Len(D), p[j].id)
        BY <1>2, <3>1 DEF InTurn
      <3>3. ~PushedIn(U, 1 - 1, p[j].id)
        BY DEF PushedIn
      <3>4. k - 1 = Len(D) /\ Len(D) \in 0..Len(D)
        BY <1>1, <2>2
      <3> QED BY <1>8, <3>2, <3>3, <3>4
    <2> QED BY <1>7, <2>1, <2>2
  <1>16. InTurn(p, W, E)
    BY <1>13, <1>14, <1>15 DEF InTurn
  <1>17. Foretold(a, n, E, p)
    <2> SUFFICES ASSUME NEW A, Trail(a, n, E, A), NEW k \in 1..Len(E), E[k].t = "ack",
                        NEW j \in 1..Len(p), p[j].id = E[k].batch
                 PROVE  Idle(A[k - 1], p[j].ops)
      BY DEF Foretold
    <2>1. CASE k \in 1..Len(D)
      BY <1>1, <1>2, <1>3, <2>1 DEF Foretold
    <2>2. CASE k = Len(D) + 1
      <3>1. k - 1 = Len(D) /\ E[k] = f
        BY <1>1, <2>2
      <3> QED BY <1>5, <3>1
    <2> QED BY <1>7, <2>1, <2>2
  <1>18. Turn(v, d, s, W, E)
    BY <1>2, <1>16, <1>17 DEF Turn, p, a, n
  <1> QED BY <1>18 DEF E, W

-----------------------------------------------------------------------------
(* The steps of a device. *)

\* A hello goes out on a new socket.
LEMMA TurnDialled ==
    ASSUME NEW d, NEW s, Turn("down", d, s, << >>, << >>), NEW h, h.t # "push"
    PROVE  Turn("hello", d, s, <<h>>, << >>)
  <1>1. Len(<< >>) = 0 /\ Len(<<h>>) = 1 /\ <<h>>[1] = h /\ (\A k \in 1..0 : FALSE) /\ \A k \in 1..1 : k = 1
    OBVIOUS
  <1>2. \A k \in 1..Len(<<h>>) : <<h>>[k].t # "push"
    BY <1>1
  <1>3. Rising(d.pending) /\ Rising(s.pending) /\ InTurn(d.pending, << >>, << >>)
    BY DEF Turn
  <1>4. \A x, j : ~PushedIn(<< >>, Len(<< >>), x) /\ ~AckedIn(<< >>, Len(<< >>), x)
    BY <1>1 DEF PushedIn, AckedIn
  <1>5. InTurn(d.pending, <<h>>, << >>)
    BY <1>1, <1>2, <1>3, <1>4 DEF InTurn
  <1>6. Foretold(d.auth, d.cursor, << >>, d.pending)
    BY <1>1 DEF Foretold
  <1> QED BY <1>1, <1>2, <1>3, <1>5, <1>6 DEF Turn

(* A step of device c that leaves the other devices alone. *)
LEMMA TurnElsewhere ==
    ASSUME Turns, NEW c \in Clients, TurnOf(c)',
           \A k \in Clients : k # c => /\ doc'[k] = doc[k] /\ saved'[k] = saved[k] /\ conn'[k] = conn[k]
                                       /\ up'[k] = up[k] /\ down'[k] = down[k]
    PROVE  Turns'
  BY DEF Turns, TurnOf

LEMMA WriteTurn ==
    ASSUME Core, Honesty, Ledgers, Turns, NEW c \in Clients, NEW t \in Nat, NEW ops, Write(c, t, ops)
    PROVE  Turns'
  <1> DEFINE e == EnqueueOps(doc[c], t, Hlc(c, t), ops)
             A == issued[c] \ lost[c]
  <1>1. /\ doc' = [doc EXCEPT ![c] = e] /\ UNCHANGED <<saved, conn, up, down>> /\ t > doc[c].tick
    BY DEF Write, Mint, Mintable
  <1>2. doc = [k \in Clients |-> doc[k]]
    BY DEF Core, Functions
  <1>3. IsDoc(doc[c]) /\ Turn(conn[c], doc[c], saved[c], up[c], down[c])
    BY SocketFacts DEF Turns, TurnOf
  <1>4. Ledger(rows, killed, c, conn[c], doc[c], saved[c], up[c], down[c], stray[c], A)
    BY LedgerFacts DEF LedgerOf
  <1> HIDE DEF A
  <1>5. Turn(conn[c], e, saved[c], up[c], down[c])
    BY <1>1, <1>3, <1>4, TurnMint
  <1> HIDE DEF e
  <1>6. doc'[c] = e /\ \A k \in Clients : k # c => doc'[k] = doc[k]
    BY <1>1, <1>2
  <1>7. TurnOf(c)'
    BY <1>1, <1>5, <1>6 DEF TurnOf
  <1> QED BY <1>1, <1>6, <1>7, TurnElsewhere

LEMMA SaveTurn == ASSUME Core, Honesty, Ledgers, Turns, NEW c \in Clients, Save(c) PROVE Turns'
  <1> DEFINE e == Snapshot(doc[c])
  <1>1. saved' = [saved EXCEPT ![c] = e] /\ UNCHANGED <<doc, conn, up, down>>
    BY DEF Save
  <1>2. saved = [k \in Clients |-> saved[k]]
    BY DEF Core, Functions
  <1>3. IsDoc(doc[c]) /\ Entered(doc[c].pending) /\ Turn(conn[c], doc[c], saved[c], up[c], down[c])
    BY SocketFacts, LedgerFacts DEF Turns, TurnOf
  <1>4. /\ Len(e.pending) = Len(doc[c].pending)
        /\ \A k \in 1..Len(e.pending) : e.pending[k].id = doc[c].pending[k].id
    BY <1>3, DisconnectedOf DEF Snapshot
  <1> HIDE DEF e
  <1>5. Rising(e.pending)
    BY <1>3, <1>4, RisingSame DEF Turn
  <1>6. Turn(conn[c], doc[c], e, up[c], down[c])
    BY <1>3, <1>5, TurnSaved
  <1>7. saved'[c] = e /\ \A k \in Clients : k # c => saved'[k] = saved[k]
    BY <1>1, <1>2
  <1>8. TurnOf(c)'
    BY <1>1, <1>6, <1>7 DEF TurnOf
  <1> QED BY <1>1, <1>7, <1>8, TurnElsewhere

LEMMA BootTurn == ASSUME Core, Honesty, Ledgers, Turns, NEW c \in Clients, Boot(c) PROVE Turns'
  <1>1. PICK t \in 1..left.ticks[c] :
            /\ Mintable(c, t)
            /\ Mint(c, t, saved[c],
                   [NoOps(Hlc(c, t)) EXCEPT ![DeviceRow[c]] = Op("upsert", Fields, {}, Hlc(c, t))])
    BY DEF Boot
  <1>2. t \in Nat
    BY LedgerFacts
  <1> DEFINE ops == [NoOps(Hlc(c, t)) EXCEPT ![DeviceRow[c]] = Op("upsert", Fields, {}, Hlc(c, t))]
             e == EnqueueOps(saved[c], t, Hlc(c, t), ops)
             A == issued[c] \ lost[c]
  <1>3. /\ doc' = [doc EXCEPT ![c] = e] /\ saved' = [saved EXCEPT ![c] = doc'[c]]
        /\ conn[c] = "off" /\ conn' = [conn EXCEPT ![c] = "down"] /\ t > doc[c].tick
        /\ UNCHANGED <<up, down>>
    BY <1>1 DEF Boot, Mint, Mintable
  <1>4. /\ doc = [k \in Clients |-> doc[k]] /\ saved = [k \in Clients |-> saved[k]]
        /\ conn = [k \in Clients |-> conn[k]]
    BY DEF Core, Functions
  <1>5. doc[c] = saved[c] /\ IsDoc(doc[c]) /\ Turn("off", doc[c], saved[c], up[c], down[c])
    BY <1>3, SocketFacts, LedgerFacts DEF Turns, TurnOf
  <1>6. Ledger(rows, killed, c, "off", doc[c], saved[c], up[c], down[c], stray[c], A)
    BY <1>3, LedgerFacts DEF LedgerOf
  <1>7. e = EnqueueOps(doc[c], t, Hlc(c, t), ops)
    BY <1>5
  <1> HIDE DEF A, ops
  <1>8. Turn("off", EnqueueOps(doc[c], t, Hlc(c, t), ops), saved[c], up[c], down[c])
    BY <1>2, <1>3, <1>5, <1>6, TurnMint
  <1> HIDE DEF e
  <1>9. Turn("off", e, saved[c], up[c], down[c])
    BY <1>7, <1>8
  <1>10. Turn("down", e, e, up[c], down[c])
    BY <1>9 DEF Turn
  <1>11. /\ doc'[c] = e /\ saved'[c] = e /\ conn'[c] = "down"
         /\ \A k \in Clients : k # c => doc'[k] = doc[k] /\ saved'[k] = saved[k] /\ conn'[k] = conn[k]
    BY <1>3, <1>4
  <1>12. TurnOf(c)'
    BY <1>3, <1>10, <1>11 DEF TurnOf
  <1> QED BY <1>3, <1>11, <1>12, TurnElsewhere

LEMMA CrashTurn == ASSUME Core, Honesty, Ledgers, Turns, NEW c \in Clients, Crash(c) PROVE Turns'
  <1>1. /\ doc' = [doc EXCEPT ![c] = saved[c]] /\ conn' = [conn EXCEPT ![c] = "off"]
        /\ conn[c] # "off" /\ Cut(c) /\ UNCHANGED saved
    BY DEF Crash
  <1>2. doc = [k \in Clients |-> doc[k]] /\ conn = [k \in Clients |-> conn[k]]
    BY DEF Core, Functions
  <1>3. /\ up'[c] = << >> /\ down'[c] = << >>
        /\ \A k \in Clients : k # c => up'[k] = up[k] /\ down'[k] = down[k]
    BY <1>1, CutLedger
  <1>4. /\ doc'[c] = saved[c] /\ conn'[c] = "off"
        /\ \A k \in Clients : k # c => doc'[k] = doc[k] /\ conn'[k] = conn[k]
    BY <1>1, <1>2
  <1>5. Rising(saved[c].pending)
    BY DEF Turns, TurnOf, Turn
  <1>6. \A j \in 1..Len(saved[c].pending) : saved[c].pending[j].sent = FALSE
    BY LedgerFacts DEF LedgerOf, Ledger
  <1>7. \A k \in 1..Len(<< >>) : << >>[k].t # "push"
    OBVIOUS
  <1>8. Turn("off", saved[c], saved[c], << >>, << >>)
    BY <1>5, <1>6, <1>7, TurnIdle
  <1>9. TurnOf(c)'
    BY <1>1, <1>3, <1>4, <1>8 DEF TurnOf
  <1> QED BY <1>1, <1>3, <1>4, <1>9, TurnElsewhere

LEMMA DisconnectTurn == ASSUME Core, Honesty, Ledgers, Turns, NEW c \in Clients, Disconnect(c) PROVE Turns'
  <1> DEFINE e == MarkDisconnected(doc[c])
  <1>1. /\ doc' = [doc EXCEPT ![c] = e] /\ conn' = [conn EXCEPT ![c] = "down"]
        /\ conn[c] # "off" /\ Cut(c) /\ UNCHANGED saved
    BY DEF Disconnect
  <1>2. doc = [k \in Clients |-> doc[k]] /\ conn = [k \in Clients |-> conn[k]]
    BY DEF Core, Functions
  <1>3. /\ up'[c] = << >> /\ down'[c] = << >>
        /\ \A k \in Clients : k # c => up'[k] = up[k] /\ down'[k] = down[k]
    BY <1>1, CutLedger
  <1>4. IsDoc(doc[c]) /\ Entered(doc[c].pending) /\ Rising(doc[c].pending) /\ Rising(saved[c].pending)
    BY SocketFacts, LedgerFacts DEF Turns, TurnOf, Turn
  <1>5. /\ Len(e.pending) = Len(doc[c].pending)
        /\ \A k \in 1..Len(e.pending) : e.pending[k].id = doc[c].pending[k].id /\ e.pending[k].sent = FALSE
    BY <1>4, DisconnectedOf
  <1> HIDE DEF e
  <1>6. Rising(e.pending)
    BY <1>4, <1>5, RisingSame
  <1>7. \A k \in 1..Len(<< >>) : << >>[k].t # "push"
    OBVIOUS
  <1>8. Turn("down", e, saved[c], << >>, << >>)
    BY <1>4, <1>5, <1>6, <1>7, TurnIdle
  <1>9. /\ doc'[c] = e /\ conn'[c] = "down"
        /\ \A k \in Clients : k # c => doc'[k] = doc[k] /\ conn'[k] = conn[k]
    BY <1>1, <1>2
  <1>10. TurnOf(c)'
    BY <1>1, <1>3, <1>8, <1>9 DEF TurnOf
  <1> QED BY <1>1, <1>3, <1>9, <1>10, TurnElsewhere

LEMMA DialTurn == ASSUME Core, Honesty, Ledgers, Turns, NEW c \in Clients, Dial(c) PROVE Turns'
  <1> DEFINE h == Hello(doc[c].cursor)
  <1>1. /\ conn[c] = "down" /\ conn' = [conn EXCEPT ![c] = "hello"] /\ up' = [up EXCEPT ![c] = <<h>>]
        /\ UNCHANGED <<doc, saved, down>>
    BY DEF Dial
  <1>2. up = [k \in Clients |-> up[k]] /\ conn = [k \in Clients |-> conn[k]]
    BY DEF Core, Functions
  <1>3. up[c] = << >> /\ down[c] = << >>
    BY <1>1 DEF Core, ClientOK, Offline
  <1>4. Turn("down", doc[c], saved[c], << >>, << >>)
    BY <1>1, <1>3 DEF Turns, TurnOf
  <1>5. h.t # "push"
    BY DEF Hello
  <1> HIDE DEF h
  <1>6. Turn("hello", doc[c], saved[c], <<h>>, << >>)
    BY <1>4, <1>5, TurnDialled
  <1>7. /\ up'[c] = <<h>> /\ conn'[c] = "hello"
        /\ \A k \in Clients : k # c => up'[k] = up[k] /\ conn'[k] = conn[k]
    BY <1>1, <1>2
  <1>8. TurnOf(c)'
    BY <1>1, <1>3, <1>6, <1>7 DEF TurnOf
  <1> QED BY <1>1, <1>7, <1>8, TurnElsewhere

LEMMA PushPendingTurn == ASSUME Core, Honesty, Ledgers, Turns, NEW c \in Clients, PushPending(c) PROVE Turns'
  <1> DEFINE e == TakePushable(doc[c])
             w == up[c] \o Pushes(doc[c])
  <1>1. /\ conn[c] = "joined" /\ doc' = [doc EXCEPT ![c] = e] /\ up' = [up EXCEPT ![c] = w]
        /\ UNCHANGED <<saved, conn, down>>
    BY DEF PushPending
  <1>2. up = [k \in Clients |-> up[k]] /\ doc = [k \in Clients |-> doc[k]]
    BY DEF Core, Functions
  <1>3. /\ IsDoc(doc[c]) /\ IsSeq(up[c]) /\ Entered(doc[c].pending)
        /\ Turn("joined", doc[c], saved[c], up[c], down[c])
    BY <1>1, SocketFacts, LedgerFacts DEF Turns, TurnOf
  <1>4. Turn("joined", e, saved[c], w, down[c])
    BY <1>3, TurnPush
  <1> HIDE DEF e, w
  <1>5. /\ up'[c] = w /\ doc'[c] = e
        /\ \A k \in Clients : k # c => up'[k] = up[k] /\ doc'[k] = doc[k]
    BY <1>1, <1>2
  <1>6. TurnOf(c)'
    BY <1>1, <1>4, <1>5 DEF TurnOf
  <1> QED BY <1>1, <1>5, <1>6, TurnElsewhere

LEMMA OnRowsTurn ==
    ASSUME Core, Honesty, Ledgers, Turns, NEW c \in Clients, OnRows(c) \/ OnAck(c) PROVE Turns'
  <1> DEFINE d == doc[c]
             f == Head(down[c])
             w == Tail(down[c])
  <1>1. PICK e : /\ doc' = [doc EXCEPT ![c] = e]
                 /\ \/ e = ApplyRows(d, f) /\ f.t = "rows"
                    \/ e = AckBatch(d, f) /\ f.t = "ack"
    BY DEF OnRows, OnAck, Frame
  <1>2. /\ conn[c] = "joined" /\ down[c] # << >> /\ down' = [down EXCEPT ![c] = w]
        /\ UNCHANGED <<saved, conn, up>>
    BY DEF OnRows, OnAck, Frame
  <1>3. down = [k \in Clients |-> down[k]] /\ doc = [k \in Clients |-> doc[k]]
    BY DEF Core, Functions
  <1>4. /\ IsDoc(d) /\ IsSeq(d.pending) /\ Entered(d.pending) /\ IsSeq(down[c])
        /\ f.seq \in Nat /\ f.seq >= d.cursor /\ d.cursor \in Nat
    BY <1>2, SocketFacts, HeadAhead, LedgerFacts DEF IsDoc
  <1>5. Turn(conn[c], d, saved[c], up[c], down[c])
    BY DEF Turns, TurnOf
  <1>6. Turn(conn[c], e, saved[c], up[c], w)
    <2>1. CASE e = ApplyRows(d, f) /\ f.t = "rows"
      <3>1. e.auth = After(d.auth, f) /\ e.cursor = f.seq
        BY <1>4, <2>1, ReadFrame
      <3>2. e.pending = d.pending
        BY <1>4, <2>1 DEF ApplyRows, IsDoc, DocKeys
      <3> HIDE DEF d
      <3> QED BY <1>2, <1>4, <1>5, <2>1, <3>1, <3>2, TurnRead
    <2>2. CASE e = AckBatch(d, f) /\ f.t = "ack"
      <3>1. AckBatch(d, f).cursor = f.seq
        BY <1>4, <2>2, ReadFrame
      <3> HIDE DEF d
      <3> QED BY <1>2, <1>4, <1>5, <2>2, <3>1, TurnAck
    <2> QED BY <1>1, <2>1, <2>2
  <1> HIDE DEF d, f, w
  <1>7. /\ down'[c] = w /\ doc'[c] = e
        /\ \A k \in Clients : k # c => down'[k] = down[k] /\ doc'[k] = doc[k]
    BY <1>1, <1>2, <1>3
  <1>8. TurnOf(c)'
    BY <1>2, <1>6, <1>7 DEF TurnOf
  <1> QED BY <1>2, <1>7, <1>8, TurnElsewhere

LEMMA OnStateTurn == ASSUME Core, Honesty, Ledgers, Turns, NEW c \in Clients, OnState(c) PROVE Turns'
  <1> DEFINE A == issued[c] \ lost[c]
             d == doc[c]
             f == Head(down[c])
             S == Seeds(d, f)
             e == [d EXCEPT !.auth = StateAuth(d, f), !.cursor = f.seq]
             w == Tail(down[c])
  <1>1. /\ conn[c] = "hello" /\ down[c] # << >> /\ f.t = "state"
        /\ conn' = [conn EXCEPT ![c] = "joined"] /\ down' = [down EXCEPT ![c] = w]
        /\ UNCHANGED saved
    BY DEF OnState, Frame
  <1>2. PICK t : LET x == ApplyState(d, f, t, Hlc(c, t))
                 IN  /\ doc' = [doc EXCEPT ![c] = TakePushable(x)]
                     /\ up' = [up EXCEPT ![c] = up[c] \o Pushes(x)]
                     /\ \/ S = {}
                        \/ S # {} /\ t \in 1..left.ticks[c] /\ Mintable(c, t)
    BY DEF OnState
  <1>3. /\ down = [k \in Clients |-> down[k]] /\ doc = [k \in Clients |-> doc[k]]
        /\ up = [k \in Clients |-> up[k]] /\ conn = [k \in Clients |-> conn[k]]
    BY DEF Core, Functions
  <1>4. /\ IsDoc(d) /\ Entered(d.pending) /\ IsSeq(down[c]) /\ IsSeq(up[c])
        /\ f.seq \in Nat /\ f.seq >= d.cursor /\ d.cursor \in Nat
    BY <1>1, SocketFacts, HeadAhead, LedgerFacts DEF IsDoc
  <1>5. /\ Ledger(rows, killed, c, "hello", d, saved[c], up[c], down[c], stray[c], A)
        /\ Turn("hello", d, saved[c], up[c], down[c])
        /\ \A i \in Ids : killed[i] \in Nat
    BY <1>1, LedgerFacts DEF LedgerOf, Turns, TurnOf
  <1>6. ~ServerBehind(d, f)
    BY <1>4 DEF ServerBehind
  <1>7. /\ IsDoc(e) /\ e.auth = After(d.auth, f) /\ e.tick = d.tick /\ e.pending = d.pending
        /\ e.cursor = f.seq
    <2>1. StateAuth(d, f) = After(d.auth, f)
      BY <1>1, <1>6 DEF StateAuth, After
    <2> QED BY <1>4, <2>1 DEF IsDoc, DocKeys
  <1> DEFINE x == ApplyState(d, f, t, Hlc(c, t))
  <1>8. Ledger(rows, killed, c, "joined", e, saved[c], up[c], w, stray[c], A)
    <2> HIDE DEF e, A, d
    <2> QED BY <1>1, <1>4, <1>5, <1>7, LedgerRead
  <1>9. Turn("hello", e, saved[c], up[c], w)
    <2>1. f.t # "ack"
      BY <1>1
    <2> HIDE DEF e, d
    <2> QED BY <1>1, <1>4, <1>5, <1>7, <2>1, TurnRead
  <1>10. IsDoc(x) /\ Entered(x.pending) /\ Turn("hello", x, saved[c], up[c], w)
    <2>1. CASE S = {}
      <3>1. x = e
        BY <2>1 DEF ApplyState
      <3> QED BY <1>4, <1>7, <1>9, <3>1
    <2>2. CASE S # {} /\ t \in 1..left.ticks[c] /\ Mintable(c, t)
      <3>1. t \in Nat /\ t > d.tick
        BY <2>2, LedgerFacts DEF Mintable
      <3> DEFINE ops == SeedOps(d, S, Hlc(c, t))
      <3>2. x = EnqueueOps(e, t, Hlc(c, t), ops)
        BY <2>2 DEF ApplyState
      <3>3. t > e.tick /\ Entered(e.pending)
        BY <1>4, <1>7, <3>1
      <3> HIDE DEF ops, e, w, A
      <3>4. Turn("hello", EnqueueOps(e, t, Hlc(c, t), ops), saved[c], up[c], w)
        BY <1>7, <1>8, <1>9, <3>1, <3>3, TurnMint
      <3>5. IsDoc(EnqueueOps(e, t, Hlc(c, t), ops)) /\ Entered(EnqueueOps(e, t, Hlc(c, t), ops).pending)
        BY <1>7, <3>3, EnqueueOf
      <3> QED BY <3>2, <3>4, <3>5
    <2> QED BY <1>2, <2>1, <2>2
  <1> DEFINE y == TakePushable(x)
             u == up[c] \o Pushes(x)
  <1> HIDE DEF x, w, A
  <1>11. Turn("joined", y, saved[c], u, w)
    BY <1>4, <1>10, TurnPush
  <1>12. doc' = [doc EXCEPT ![c] = y] /\ up' = [up EXCEPT ![c] = u]
    BY <1>2 DEF x
  <1> HIDE DEF y, u
  <1>13. /\ down'[c] = w /\ doc'[c] = y /\ up'[c] = u /\ conn'[c] = "joined"
         /\ \A k \in Clients : k # c => /\ down'[k] = down[k] /\ doc'[k] = doc[k]
                                        /\ up'[k] = up[k] /\ conn'[k] = conn[k]
    BY <1>1, <1>3, <1>12
  <1>14. TurnOf(c)'
    BY <1>1, <1>11, <1>13 DEF TurnOf
  <1> QED BY <1>1, <1>13, <1>14, TurnElsewhere

-----------------------------------------------------------------------------
(* The steps of the room. *)

LEMMA HelloTurn == ASSUME Core, Honesty, Ledgers, Turns, NEW c \in Clients, HandleHello(c) PROVE Turns'
  <1> DEFINE w == Tail(up[c])
  <1>1. PICK f : f.t # "ack" /\ down' = [down EXCEPT ![c] = Append(down[c], f)]
    <2> DEFINE n == Head(up[c]).cursor
               full == NeedsFull(n)
               f == StateFrame(seq, full, gcFloor, rows, RowsSince(IF full THEN 0 ELSE n))
    <2>1. down' = [down EXCEPT ![c] = Append(down[c], f)]
      BY DEF HandleHello
    <2>2. f.t # "ack"
      BY DEF StateFrame
    <2> QED BY <2>1, <2>2
  <1>2. /\ up[c] # << >> /\ Head(up[c]).t = "hello" /\ up' = [up EXCEPT ![c] = w]
        /\ UNCHANGED <<doc, saved, conn>>
    BY DEF HandleHello, Arrived
  <1>3. down = [k \in Clients |-> down[k]] /\ up = [k \in Clients |-> up[k]]
    BY DEF Core, Functions
  <1>4. IsSeq(up[c]) /\ IsSeq(down[c])
    BY SocketFacts
  <1>5. conn[c] # "joined"
    <2>1. up[c][1].t = "hello" /\ 1 \in 1..Len(up[c])
      BY <1>2, <1>4, SeqTail
    <2> QED BY <2>1 DEF Honesty, Informed, Greeting
  <1>6. Turn(conn[c], doc[c], saved[c], up[c], down[c])
    BY DEF Turns, TurnOf
  <1>7. Turn(conn[c], doc[c], saved[c], w, down[c])
    BY <1>2, <1>4, <1>5, <1>6, TurnGreeted
  <1> DEFINE D == Append(down[c], f)
  <1> HIDE DEF w
  <1>8. Turn(conn[c], doc[c], saved[c], w, D)
    BY <1>1, <1>4, <1>7, TurnSent
  <1> HIDE DEF D
  <1>9. /\ down'[c] = D /\ up'[c] = w
        /\ \A k \in Clients : k # c => down'[k] = down[k] /\ up'[k] = up[k]
    BY <1>1, <1>2, <1>3 DEF D
  <1>10. TurnOf(c)'
    BY <1>2, <1>8, <1>9 DEF TurnOf
  <1> QED BY <1>2, <1>9, <1>10, TurnElsewhere

(* What a push sends: rows if it changed any, then the ack. *)
LEMMA TurnAnswered ==
    ASSUME Core, Honesty, Turns, NEW b, NEW acked, ApplyPush(b, acked), NEW k \in Clients
    PROVE  \E E : /\ IsSeq(E) /\ Turn(conn[k], doc[k], saved[k], up[k], E)
                  /\ down'[k] = IF k \in acked THEN Append(E, Ack(b.id, AnsweredSeq(b))) ELSE E
  <1> DEFINE r == RowsFrame(AnsweredSeq(b), Merged(b), Touched(b))
             q == Ack(b.id, AnsweredSeq(b))
             D == down[k]
  <1>1. down'[k] = D \o (Broadcast(k, b) \o Acked(k, b, acked))
    BY DEF ApplyPush, Answers
  <1>2. Broadcast(k, b) \in {<< >>, <<r>>}
    BY DEF Broadcast
  <1>3. Acked(k, b, acked) = IF k \in acked THEN <<q>> ELSE << >>
    BY DEF Acked
  <1>4. r.t # "ack"
    BY DEF RowsFrame
  <1>5. IsSeq(D) /\ Turn(conn[k], doc[k], saved[k], up[k], D)
    BY SocketFacts DEF Turns, TurnOf
  <1> HIDE DEF r, q, D
  <1>6. /\ D \o (<< >> \o << >>) = D
        /\ D \o (<< >> \o <<q>>) = Append(D, q)
        /\ D \o (<<r>> \o << >>) = Append(D, r)
        /\ D \o (<<r>> \o <<q>>) = Append(Append(D, r), q)
    BY <1>5, FramesInOrder
  <1>7. IsSeq(Append(D, r)) /\ Turn(conn[k], doc[k], saved[k], up[k], Append(D, r))
    BY <1>4, <1>5, TurnSent, SeqAppend
  <1>8. CASE Broadcast(k, b) = << >>
    <2>1. down'[k] = IF k \in acked THEN Append(D, q) ELSE D
      BY <1>1, <1>3, <1>6, <1>8
    <2> QED BY <1>5, <2>1 DEF q
  <1>9. CASE Broadcast(k, b) = <<r>>
    <2>1. down'[k] = IF k \in acked THEN Append(Append(D, r), q) ELSE Append(D, r)
      BY <1>1, <1>3, <1>6, <1>9
    <2> QED BY <1>7, <2>1 DEF q
  <1> QED BY <1>2, <1>8, <1>9

\* A batch changes nothing of a row that has it.
LEMMA MergedIdle ==
    ASSUME NEW r \in Rows, NEW op \in Ops, NEW n \in Nat, NEW x,
           LET s == MergedRow(r, op, n)
           IN  (s.st # "none" => x = s) /\ (s.st = "none" => x.st # "live")
    PROVE  ~Changes(x, op)
  <1> DEFINE s == MergedRow(r, op, n)
  <1>1. (s.st # "none" => x = s) /\ (s.st = "none" => x.st # "live")
    OBVIOUS
  <1>2. op.hlc \in Nat /\ op.op \in {"upsert", "update", "delete"} /\ op.put \cup op.cut \subseteq Fields
        /\ \A f \in Fields : ClockFor(op, f) \in Nat
    BY OpFields
  <1>3. CASE Changes(r, op) /\ op.op = "delete"
    <2>1. s.st = "dead" /\ s.del = op.hlc
      BY <1>3, Deleted
    <2> HIDE DEF s
    <2>2. ~DeleteBeats(x, op)
      BY <1>1, <1>2, <2>1 DEF DeleteBeats, HlcNewer
    <2> QED BY <1>3, <2>2 DEF Changes
  <1>4. CASE Changes(r, op) /\ op.op # "delete"
    <2>1. s \in Rows /\ s.st = "live" /\ \A f \in op.put \cup op.cut : s.clk[f] >= ClockFor(op, f)
      BY <1>4, Landed
    <2>2. \A f \in Fields : s.clk[f] \in Nat
      BY <2>1, RowFields
    <2> HIDE DEF s
    <2>3. Winning(x, op) = {} /\ x.st = "live"
      BY <1>1, <1>2, <2>1, <2>2 DEF Winning, HlcNewer
    <2> QED BY <1>4, <2>3 DEF Changes
  <1>5. CASE ~Changes(r, op)
    <2>1. s = r
      BY <1>5 DEF MergedRow
    <2>2. CASE r.st # "none"
      BY <1>1, <1>5, <2>1, <2>2
    <2>3. CASE r.st = "none"
      <3>1. op.op = "update"
        BY <1>2, <1>5, <2>3 DEF Changes, DeleteBeats, WriteLands
      <3>2. x.st # "live"
        BY <1>1, <2>1, <2>3
      <3> QED BY <3>1, <3>2 DEF Changes, WriteLands
    <2> QED BY <2>2, <2>3
  <1> QED BY <1>3, <1>4, <1>5

(* A replica that has seen all the room has, once the room merged a batch. *)
LEMMA AckedIdle ==
    ASSUME Core, Honesty, Ledgers, NEW b, NEW acked, ApplyPush(b, acked), UNCHANGED gcFloor,
           Decent(killed, b.ops), NEW x, Honest(rows', gcFloor', x, seq')
    PROVE  Idle(x, b.ops)
  <1>1. Table'
    BY PushHonest DEF Core, Honesty, ApplyPush
  <1> SUFFICES ASSUME NEW i \in Ids PROVE ~Changes(x[i], b.ops[i])
    BY DEF Idle
  <1>2. rows[i] \in Rows /\ b.ops[i] \in Ops /\ seq + 1 \in Nat
    BY DEF Ledgers, RowOK, Decent, Proper, Core
  <1>3. rows'[i] = MergedRow(rows[i], b.ops[i], seq + 1)
    BY PushRoom
  <1>4. (rows'[i].st # "none" => x[i] = rows'[i]) /\ (rows'[i].st = "none" => x[i].st # "live")
    <2>1. /\ gcFloor' <= seq' /\ gcFloor' \in Nat
          /\ rows'[i].st # "none" => rows'[i].seq \in 1..seq'
      BY <1>1 DEF Table
    <2>2. rows'[i].st # "none" => rows'[i].seq <= seq'
      BY <2>1
    <2> QED BY <2>1, <2>2 DEF Honest
  <1> DEFINE y == x[i]
             o == b.ops[i]
             r == rows[i]
             n == seq + 1
  <1>5. r \in Rows /\ o \in Ops /\ n \in Nat
        /\ LET s == MergedRow(r, o, n) IN (s.st # "none" => y = s) /\ (s.st = "none" => y.st # "live")
    BY <1>2, <1>3, <1>4
  <1> HIDE DEF y, o, r, n
  <1>6. ~Changes(y, o)
    BY <1>5, MergedIdle
  <1> QED BY <1>6 DEF y, o

LEMMA HandlePushTurn == ASSUME Core, Honesty, Ledgers, Turns, NEW c \in Clients, HandlePush(c) PROVE Turns'
  <1> DEFINE b == Head(up[c]).batch
             w == Tail(up[c])
             q == Ack(b.id, AnsweredSeq(b))
             A == issued[c] \ lost[c]
             M == Mine(doc[c], saved[c], up[c], A)
             p == doc[c].pending
  <1>1. /\ up[c] # << >> /\ Head(up[c]).t = "push" /\ srv[c] = "ready"
        /\ ApplyPush(b, {c}) /\ up' = [up EXCEPT ![c] = w]
        /\ UNCHANGED <<doc, saved, conn, gcFloor>>
    BY DEF HandlePush, Arrived
  <1>2. up = [k \in Clients |-> up[k]]
    BY DEF Core, Functions
  <1>3. IsSeq(up[c]) /\ up[c][1] = Head(up[c]) /\ 1 \in 1..Len(up[c])
    BY <1>1, SocketFacts, SeqTail
  <1>4. conn[c] = "joined"
    BY <1>1, <1>3 DEF Turns, TurnOf, Turn
  <1>5. Decent(killed, b.ops)
    BY <1>1, HeadPush
  <1>6. up'[c] = w /\ \A k \in Clients : k # c => up'[k] = up[k]
    BY <1>1, <1>2
  \* the batch the room heard is the one the device queued
  <1>7. \A j \in 1..Len(p) : p[j].id = b.id => p[j].ops = b.ops
    <2> SUFFICES ASSUME NEW j \in 1..Len(p), p[j].id = b.id PROVE p[j].ops = b.ops
      OBVIOUS
    <2>1. Bare(p[j]) \in M
      BY MineOf
    <2>2. Bare(up[c][1].batch) \in M
      BY <1>1, <1>3, MineOf
    <2>3. Single(M)
      BY LedgerFacts DEF LedgerOf, Ledger
    <2>4. Bare(p[j]).id = p[j].id /\ Bare(p[j]).ops = p[j].ops /\ Bare(b).id = b.id /\ Bare(b).ops = b.ops
      BY DEF Bare
    <2> HIDE DEF M, p, b
    <2>5. Bare(b) \in M
      BY <1>3, <2>2 DEF b
    <2> QED BY <2>1, <2>3, <2>4, <2>5 DEF Single
  <1>8. ASSUME NEW k \in Clients, k # c PROVE TurnOf(k)'
    <2>1. PICK E : /\ Turn(conn[k], doc[k], saved[k], up[k], E)
                   /\ down'[k] = IF k \in {c} THEN Append(E, q) ELSE E
      BY <1>1, TurnAnswered
    <2>2. down'[k] = E
      BY <1>8, <2>1
    <2> QED BY <1>1, <1>6, <1>8, <2>1, <2>2 DEF TurnOf
  <1>9. PICK E : /\ IsSeq(E) /\ Turn(conn[c], doc[c], saved[c], up[c], E)
                 /\ down'[c] = IF c \in {c} THEN Append(E, q) ELSE E
    BY <1>1, TurnAnswered
  <1>10. down'[c] = Append(E, q) /\ q.t = "ack" /\ q.batch = b.id
    BY <1>9 DEF Ack
  <1>11. /\ Believes(rows', gcFloor', doc[c].auth, doc[c].cursor, down'[c])
         /\ Latest(doc[c].cursor, down'[c]) = seq'
    <2>1. c \in {c} => srv[c] = "ready"
      BY <1>1
    <2> QED BY <1>1, <2>1, AnsweredHonest
  <1>12. ASSUME NEW x, Honest(rows', gcFloor', x, seq') PROVE Idle(x, b.ops)
    BY <1>1, <1>5, <1>12, AckedIdle
  <1>13. ASSUME NEW B, Trail(doc[c].auth, doc[c].cursor, Append(E, q), B)
         PROVE  Idle(B[Len(E)], b.ops)
    <2> DEFINE a == doc[c].auth
               n == doc[c].cursor
               s == Append(E, q)
    <2>1. Len(E) \in Nat /\ Len(s) = Len(E) + 1 /\ s[Len(E) + 1] = q /\ IsSeq(s)
      BY <1>9, SeqAppend
    <2> HIDE DEF q, s, a, n
    <2>2. Believes(rows', gcFloor', a, n, s) /\ Seen(n, s, Len(s)) = seq' /\ Trail(a, n, s, B)
      BY <1>10, <1>11, <1>13 DEF s, a, n, Latest
    <2>3. PICK C : Trail(a, n, s, C) /\ \A k \in 0..Len(s) : Honest(rows', gcFloor', C[k], Seen(n, s, k))
      BY <2>2 DEF Believes
    <2>4. Len(s) \in 0..Len(s) /\ Len(s) \in 1..Len(s) /\ Len(E) \in 0..Len(s) /\ Len(s) - 1 = Len(E)
      BY <2>1
    <2>5. C[Len(s)] = After(C[Len(E)], q)
      BY <2>1, <2>3, <2>4 DEF Trail
    <2>6. C[Len(s)] = C[Len(E)]
      BY <1>10, <2>5 DEF After
    <2>7. B[Len(E)] = C[Len(E)]
      BY <2>1, <2>2, <2>3, <2>4, OneTrail
    <2>8. Honest(rows', gcFloor', B[Len(E)], seq')
      BY <2>2, <2>3, <2>4, <2>6, <2>7
    <2> QED BY <1>12, <2>8
  <1> HIDE DEF w, q, M, A
  <1>14. \A B : Trail(doc[c].auth, doc[c].cursor, Append(E, q), B) =>
             \A j \in 1..Len(doc[c].pending) :
                 doc[c].pending[j].id = q.batch => Idle(B[Len(E)], doc[c].pending[j].ops)
    BY <1>7, <1>10, <1>13
  <1> DEFINE v == conn[c]
             d == doc[c]
             s == saved[c]
             U == up[c]
  <1>15. q.batch = Head(U).batch.id /\ Turn(v, d, s, U, E) /\ v = "joined" /\ IsSeq(U) /\ U # << >>
         /\ Head(U).t = "push"
    BY <1>1, <1>3, <1>4, <1>9, <1>10
  <1>16. \A B : Trail(d.auth, d.cursor, Append(E, q), B) =>
             \A j \in 1..Len(d.pending) : d.pending[j].id = q.batch => Idle(B[Len(E)], d.pending[j].ops)
    BY <1>14
  <1> HIDE DEF v, d, s, U
  <1>17. Turn(v, d, s, Tail(U), Append(E, q))
    BY <1>9, <1>10, <1>15, <1>16, TurnAcked
  <1>18. TurnOf(c)'
    BY <1>1, <1>6, <1>10, <1>17 DEF TurnOf, v, d, s, U, w
  <1> QED BY <1>8, <1>18 DEF Turns

LEMMA HandleStrayTurn == ASSUME Core, Honesty, Ledgers, Turns, NEW c \in Clients, HandleStray(c) PROVE Turns'
  <1> DEFINE b == Head(stray[c]).batch
  <1>1. ApplyPush(b, {}) /\ UNCHANGED <<doc, saved, conn, up>>
    BY DEF HandleStray
  <1> SUFFICES ASSUME NEW k \in Clients PROVE TurnOf(k)'
    BY DEF Turns
  <1>2. PICK E : /\ Turn(conn[k], doc[k], saved[k], up[k], E)
                 /\ down'[k] = IF k \in {} THEN Append(E, Ack(b.id, AnsweredSeq(b))) ELSE E
    BY <1>1, TurnAnswered
  <1>3. down'[k] = E
    BY <1>2
  <1> QED BY <1>1, <1>2, <1>3 DEF TurnOf

-----------------------------------------------------------------------------
LEMMA TurnInit == Init => TurnInv
  <1> SUFFICES ASSUME Init PROVE TurnInv
    OBVIOUS
  <1>1. LedgerInv
    BY LedgerInit
  <1>2. ASSUME NEW c \in Clients PROVE TurnOf(c)
    <2>1. /\ doc[c] = NewDoc /\ saved[c] = NewDoc /\ up[c] = << >> /\ down[c] = << >>
      BY DEF Init
    <2>2. NewDoc.pending = << >> /\ Len(<< >>) = 0 /\ \A k \in 1..0 : FALSE
      BY DEF NewDoc
    <2>3. Rising(NewDoc.pending)
      BY <2>2 DEF Rising
    <2>4. \A j \in 1..Len(NewDoc.pending) : NewDoc.pending[j].sent = FALSE
      BY <2>2
    <2>5. \A k \in 1..Len(<< >>) : << >>[k].t # "push"
      OBVIOUS
    <2>6. Turn(conn[c], NewDoc, NewDoc, << >>, << >>)
      BY <2>3, <2>4, <2>5, TurnIdle
    <2> QED BY <2>1, <2>6 DEF TurnOf
  <1> QED BY <1>1, <1>2 DEF TurnInv, Turns

LEMMA TurnStep == ASSUME TurnInv, [Next]_vars PROVE TurnInv'
  <1>1. LedgerInv'
    BY LedgerStep DEF TurnInv
  <1> SUFFICES ASSUME ~wiped' PROVE Turns'
    BY <1>1 DEF TurnInv
  <1>2. ~Reset /\ UNCHANGED wiped
    BY WipedStep
  <1>3. Core /\ Honesty /\ Ledgers /\ Turns
    BY <1>2 DEF TurnInv, LedgerInv, HonestInv, SyncInv
  <1>4. CASE UNCHANGED vars
    BY <1>3, <1>4 DEF vars, Turns, TurnOf
  <1>5. CASE Alarm
    BY <1>3, <1>5 DEF Alarm, Turns, TurnOf
  <1>6. ASSUME NEW c \in Clients, Device(c) PROVE Turns'
    <2>1. ASSUME Upsert(c) \/ Update(c) \/ Cascade(c) PROVE Turns'
      <3>1. PICK t \in 1..left.ticks[c] : \E ops : Write(c, t, ops)
        BY <2>1 DEF Upsert, Update, Cascade
      <3>2. t \in Nat
        BY <1>3, LedgerFacts
      <3> QED BY <1>3, <3>1, <3>2, WriteTurn
    <2> QED BY <1>3, <1>6, <2>1, SaveTurn, BootTurn, CrashTurn, DialTurn, DisconnectTurn, OnStateTurn,
               OnRowsTurn, PushPendingTurn DEF Device
  <1>7. ASSUME NEW c \in Clients, Room(c) PROVE Turns'
    BY <1>3, <1>7, HelloTurn, HandlePushTurn, HandleStrayTurn DEF Room
  <1> QED BY <1>2, <1>4, <1>5, <1>6, <1>7 DEF Next

-----------------------------------------------------------------------------
(* What a device shows. *)

\* The places of a queue but its first l, in order.
LEMMA ChosenRest ==
    ASSUME NEW n \in Nat, NEW l \in Nat, l <= n, NEW m, Chosen((l + 1)..n, m)
    PROVE  m = n - l /\ \A x \in 1..m : Nth((l + 1)..n, x) = x + l
  <1> DEFINE P == (l + 1)..n
  <1>1. \A k \in P : {j \in P : j < k} = (l + 1)..(k - 1)
    OBVIOUS
  <1>2. \A k \in P : Cardinality((l + 1)..(k - 1)) = k - 1 - l
    <2> TAKE k \in P
    <2>1. Cardinality((l + 1)..(k - 1)) = IF l + 1 > k - 1 THEN 0 ELSE (k - 1) - (l + 1) + 1
      BY FS_Interval
    <2> QED BY <2>1
  <1>3. \A x \in 1..(n - l) : Nth(P, x) = x + l
    <2> TAKE x \in 1..(n - l)
    <2>1. Nth(P, x) = CHOOSE k \in P : Cardinality({j \in P : j < k}) = x - 1
      BY DEF Nth
    <2>2. \A k \in P : Cardinality({j \in P : j < k}) = k - 1 - l
      BY <1>1, <1>2
    <2>3. x + l \in P /\ \A k \in P : k - 1 - l = x - 1 <=> k = x + l
      OBVIOUS
    <2> HIDE DEF P
    <2> QED BY <2>1, <2>2, <2>3
  <1>4. /\ m \in Nat /\ \A x \in 1..m : Nth(P, x) \in P
        /\ \A k \in P : \E x \in 1..m : Nth(P, x) = k
        /\ \A x, y \in 1..m : x < y => Nth(P, x) < Nth(P, y)
    BY DEF Chosen
  <1>5. \A k : k \in P <=> k \in Int /\ l + 1 <= k /\ k <= n
    OBVIOUS
  <1> HIDE DEF P
  <1>6. ~(m > n - l)
    <2> SUFFICES ASSUME m > n - l PROVE FALSE
      OBVIOUS
    <2>1. n - l + 1 \in 1..m /\ Nth(P, n - l + 1) \in P
      BY <1>4
    <2>2. CASE n = l
      BY <1>5, <2>1, <2>2
    <2>3. CASE n # l
      <3>1. n - l \in 1..m /\ n - l \in 1..(n - l) /\ n - l < n - l + 1
        BY <1>4, <2>3
      <3>2. Nth(P, n - l) < Nth(P, n - l + 1)
        BY <1>4, <2>1, <3>1
      <3>3. Nth(P, n - l) = n
        BY <1>3, <3>1
      <3> QED BY <1>5, <2>1, <3>2, <3>3
    <2> QED BY <2>2, <2>3
  <1>7. ~(m < n - l)
    <2> SUFFICES ASSUME m < n - l PROVE FALSE
      OBVIOUS
    <2>1. n \in P
      BY <1>4, <1>5
    <2>2. PICK x \in 1..m : Nth(P, x) = n
      BY <1>4, <2>1
    <2>3. x \in 1..(n - l)
      BY <1>4
    <2> QED BY <1>3, <1>4, <2>2, <2>3
  <1>8. m = n - l
    BY <1>4, <1>6, <1>7
  <1> QED BY <1>3, <1>8 DEF P

(* A device shows the same rows without its eldest batch if that batch changes
   nothing of what it holds. *)
LEMMA ShownAcked ==
    ASSUME NEW d, IsDoc(d), Entered(d.pending), NEW f, NEW i \in Ids,
           \A j \in 1..Len(d.pending) : j # 1 => d.pending[j].id # f.batch,
           \A j \in 1..Len(d.pending) : d.pending[j].id = f.batch => ~Changes(d.auth[i], d.pending[j].ops[i])
    PROVE  Overlay(AckBatch(d, f), i) = Overlay(d, i)
  <1> DEFINE e == AckBatch(d, f)
             p == d.pending
             q == e.pending
             n == Len(p)
             m == Len(q)
             P == Unacked(p, f.batch)
             l == IF n # 0 /\ p[1].id = f.batch THEN 1 ELSE 0
  <1>1. /\ e.auth = d.auth /\ IsSeq(q) /\ Chosen(P, m) /\ \A x \in 1..m : q[x] = p[Nth(P, x)]
    BY AckedOf DEF Entered
  <1>2. IsSeq(p) /\ n \in Nat
    BY DEF Entered, IsSeq
  <1>3. l \in {0, 1} /\ l <= n
    BY <1>2
  <1>4. P = (l + 1)..n
    <2>1. \A k \in 1..n : p[k].id # f.batch <=> k >= l + 1
      <3> TAKE k \in 1..n
      <3>1. CASE k = 1
        BY <1>2, <3>1
      <3>2. CASE k # 1
        BY <1>2, <3>2
      <3> QED BY <3>1, <3>2
    <2>2. \A k : k \in (l + 1)..n <=> k \in 1..n /\ k >= l + 1
      BY <1>2, <1>3
    <2>3. \A k : k \in P <=> k \in 1..n /\ p[k].id # f.batch
      BY DEF Unacked
    <2> HIDE DEF P, l, n
    <2> QED BY <2>1, <2>2, <2>3
  <1>5. l = 1 => 1 \in 1..n /\ ~Changes(d.auth[i], p[1].ops[i])
    BY <1>2
  <1>6. PICK g : /\ Overlay(d, i) = g[n] /\ g[0] = d.auth[i]
                 /\ \A k \in 1..n : g[k] = ApplyOp(g[k - 1], p[k].ops[i])
    BY <1>2, OverlayIs
  <1> HIDE DEF P, l, n, p
  <1>7. PICK h : /\ Overlay(e, i) = h[m] /\ h[0] = d.auth[i]
                 /\ \A k \in 1..m : h[k] = ApplyOp(h[k - 1], q[k].ops[i])
    <2> HIDE DEF e
    <2> QED BY <1>1, OverlayIs
  <1>8. m = n - l /\ \A x \in 1..m : Nth(P, x) = x + l
    <2> HIDE DEF m
    <2>1. Chosen((l + 1)..n, m) /\ l \in Nat
      BY <1>1, <1>3, <1>4
    <2> QED BY <1>2, <1>3, <1>4, <2>1, ChosenRest
  <1> HIDE DEF m, q, e
  <1>9. g[l] = d.auth[i]
    <2>1. CASE l = 0
      BY <1>6, <2>1
    <2>2. CASE l = 1
      <3>1. g[1] = ApplyOp(g[1 - 1], p[1].ops[i]) /\ 1 - 1 = 0
        BY <1>5, <1>6, <2>2
      <3> QED BY <1>5, <1>6, <2>2, <3>1 DEF ApplyOp
    <2> QED BY <1>3, <2>1, <2>2
  <1> DEFINE D == {k \in Nat : k \in 0..m /\ h[k] # g[k + l]}
             R == OpToRel(<, Nat)
  <1>10. D = {}
    <2> SUFFICES ASSUME NEW z \in D PROVE FALSE
      OBVIOUS
    <2>1. PICK x \in D : \A y \in D : ~(<<y, x>> \in R)
      <3> HIDE DEF R
      <3>1. IsWellFoundedOn(R, Nat)
        BY NatLessThanWellFounded DEF R
      <3>2. D \subseteq Nat /\ z \in D
        OBVIOUS
      <3> HIDE DEF D
      <3> QED BY <3>1, <3>2, WFMin
    <2>2. x \in Nat /\ x \in 0..m /\ h[x] # g[x + l] /\ \A y \in D : ~(y < x)
      BY <2>1 DEF OpToRel
    <2>3. x # 0
      BY <1>3, <1>6, <1>7, <1>9, <2>2
    <2>4. x - 1 \in Nat /\ x - 1 \in 0..m /\ x - 1 < x /\ x \in 1..m /\ x + l \in 1..n
          /\ (x - 1) + l = (x + l) - 1
      BY <1>2, <1>3, <1>8, <2>2, <2>3
    <2>5. h[x - 1] = g[(x - 1) + l]
      BY <2>2, <2>4
    <2>6. q[x] = p[x + l]
      BY <1>1, <1>8, <2>4
    <2>7. h[x] = ApplyOp(h[x - 1], q[x].ops[i]) /\ g[x + l] = ApplyOp(g[(x + l) - 1], p[x + l].ops[i])
      BY <1>6, <1>7, <2>4
    <2> QED BY <2>2, <2>4, <2>5, <2>6, <2>7
  <1>11. m \in Nat /\ m + l = n
    BY <1>2, <1>3, <1>8
  <1>12. h[m] = g[m + l]
    BY <1>10, <1>11
  <1>13. Overlay(e, i) = Overlay(d, i)
    BY <1>6, <1>7, <1>11, <1>12
  <1> QED BY <1>13 DEF e

(* "Rows go out BEFORE the ack ... no between-frames flicker window"
   (handlePush), for any number of devices, rows, writes, disconnects, crashes
   and purges: as long as nobody wipes the room, retiring an acked batch
   changes nothing of what its device shows. *)
THEOREM NoFlickerUnwiped == Spec /\ [](~wiped) => NoFlicker
  <1> DEFINE Steady ==
          \A c \in Clients : OnAck(c) => \A i \in Ids :
              LET v == Overlay(doc[c], i)
                  w == Overlay(doc'[c], i)
              IN  /\ v.st = w.st
                  /\ \A f \in Fields : v.clk[f] > v.del => v.clk[f] = w.clk[f]
  <1>1. TurnInv /\ ~wiped => Steady
    <2> SUFFICES ASSUME TurnInv, ~wiped, NEW c \in Clients, OnAck(c), NEW i \in Ids
                 PROVE  Overlay(doc'[c], i) = Overlay(doc[c], i)
      OBVIOUS
    <2> DEFINE f == Head(down[c])
               d == doc[c]
    <2>1. Core /\ Honesty /\ Ledgers /\ Turns
      BY DEF TurnInv, LedgerInv, HonestInv, SyncInv
    <2>2. /\ down[c] # << >> /\ f.t = "ack" /\ doc'[c] = AckBatch(d, f)
      BY <2>1 DEF OnAck, Frame, Core, Functions
    <2>3. /\ IsDoc(d) /\ Entered(d.pending) /\ IsSeq(d.pending) /\ IsSeq(down[c])
          /\ Turn(conn[c], d, saved[c], up[c], down[c])
      BY <2>1, SocketFacts, LedgerFacts DEF Turns, TurnOf, Entered
    <2>4. f.batch \in Nat
      <3>1. f = down[c][1] /\ 1 \in 1..Len(down[c])
        BY <2>2, <2>3, SeqTail
      <3>2. AcksTrue(rows, killed, Mine(d, saved[c], up[c], issued[c] \ lost[c]), down[c], Hlc(c, d.tick))
        BY <2>1, LedgerFacts DEF LedgerOf, Ledger
      <3> QED BY <2>2, <3>1, <3>2 DEF AcksTrue
    <2>5. PICK A : Trail(d.auth, d.cursor, down[c], A)
      BY <2>1 DEF Honesty, Informed, Believes
    <2>6. \A j \in 1..Len(d.pending) : /\ j # 1 => d.pending[j].id # f.batch
                                       /\ d.pending[j].id = f.batch => Idle(d.auth, d.pending[j].ops)
      <3> HIDE DEF d
      <3> QED BY <2>2, <2>3, <2>4, <2>5, Eldest
    <2>7. \A j \in 1..Len(d.pending) : d.pending[j].id = f.batch => ~Changes(d.auth[i], d.pending[j].ops[i])
      BY <2>6 DEF Idle
    <2> HIDE DEF d, f
    <2>8. Overlay(AckBatch(d, f), i) = Overlay(d, i)
      BY <2>3, <2>6, <2>7, ShownAcked
    <2> QED BY <2>2, <2>8 DEF d
  <1>2. NoFlicker <=> [][Steady]_vars
    BY DEF NoFlicker
  <1> HIDE DEF Steady
  <1> QED BY <1>1, <1>2, TurnInit, TurnStep, PTL DEF Spec
=============================================================================
