------------------------- MODULE DeviceRelayProofs -------------------------
(***************************************************************************)
(* ServersReaped, NeverPinned, OfflineTold and NudgeAccounted for every   *)
(* set of callers, calls and chats and every bound.  The invariant is     *)
(* about the queue of frames to the session: a client that is gone has    *)
(* the word of it BEHIND every request of its own, or the host would make *)
(* it a new server after dropping the old one; and the room reaches the   *)
(* session whenever it is up, because it is the youngest socket listed.   *)
(***************************************************************************)
EXTENDS DeviceRelay, Integers, SequenceTheorems, TLAPS

IsSeq(q) == \E F : q \in Seq(F)

(* The word that c is gone is in q, behind position i.                    *)
GoneBehind(q, i, c) == \E j \in DOMAIN q : j > i /\ q[j] = GoneFrame(c)

Backed(q, i, c) == c \in members \/ GoneBehind(q, i, c)

HostUp == session # 0 /\ session \notin broken

Wires ==
  /\ toHost = [s \in Sessions |-> toHost[s]]
  /\ \A s \in Sessions : IsSeq(toHost[s]) /\ (s # session => toHost[s] = <<>>)
  /\ IsSeq(queue)

Sockets ==
  /\ last \in Nat /\ last <= MaxSessions
  /\ session # 0 => session = last
  /\ listed \subseteq 1 .. last /\ broken \subseteq 1 .. last
  /\ HostUp => session \in listed \cap fresh
  /\ session = 0 => servers = {} /\ running = {}

(* What the session serves, and what it has been sent, by conn.           *)
Served ==
  HostUp => LET q == toHost[session]
            IN  /\ \A c \in servers : Backed(q, 0, c)
                /\ \A i \in DOMAIN q : q[i].kind = "rpc" => Backed(q, i, q[i].conn)

(* A client whose end is up is listed, and calls are given such clients.  *)
Linked ==
  /\ link = [c \in Conns |-> link[c]]
  /\ \A c \in Conns : link[c] \in {"probing", "open"} => c \in members
  /\ cached = [b \in Callers |-> cached[b]]
  /\ \A b \in Callers : cached[b] \in Conns \cup {NoConn}
  /\ status = [k \in Calls |-> status[k]] /\ via = [k \in Calls |-> via[k]]
  /\ \A k \in Calls : status[k] = "ready" => via[k] \in Conns

RelayInv == Wires /\ Sockets /\ Served /\ Linked

---------------------------------------------------------------------------
(* The frames are told apart by their kinds.                              *)
LEMMA FrameFields ==
  ASSUME NEW c, NEW k, NEW h
  PROVE  /\ RpcFrame(c, k).kind = "rpc" /\ RpcFrame(c, k).conn = c
         /\ GoneFrame(c).kind = "gone" /\ GoneFrame(c).conn = c
         /\ NudgeFrame(h).kind = "nudge"
  BY DEF RpcFrame, GoneFrame, NudgeFrame

(* A frame more, at the end.                                              *)
LEMMA OneMore ==
  ASSUME NEW q, IsSeq(q), NEW m, NEW p, p = q \o <<m>>
  PROVE  /\ IsSeq(p)
         /\ DOMAIN q = 1 .. Len(q) /\ Len(q) \in Nat
         /\ DOMAIN p = 1 .. Len(q) + 1
         /\ \A i \in DOMAIN q : p[i] = q[i]
         /\ p[Len(q) + 1] = m
  <1>1. PICK F : q \in Seq(F)
    BY DEF IsSeq
  <1> DEFINE G == F \cup {m}
  <1>2. q \in Seq(G)
    BY <1>1, SeqMonotonic
  <1>3. <<m>> \in Seq(G) /\ Len(<<m>>) = 1 /\ <<m>>[1] = m
    OBVIOUS
  <1> HIDE DEF G
  <1>4. /\ p \in Seq(G) /\ Len(p) = Len(q) + 1
        /\ \A i \in 1 .. Len(q) + 1 : p[i] = IF i <= Len(q) THEN q[i] ELSE <<m>>[i - Len(q)]
    BY <1>2, <1>3, ConcatProperties
  <1>5. Len(q) \in Nat /\ DOMAIN q = 1 .. Len(q) /\ DOMAIN p = 1 .. Len(p)
    BY <1>2, <1>4, LenProperties
  <1>6. IsSeq(p)
    BY <1>4 DEF IsSeq
  <1>7. \A i \in DOMAIN q : p[i] = q[i]
    BY <1>4, <1>5
  <1>8. p[Len(q) + 1] = m
    <2>1. ~(Len(q) + 1 <= Len(q)) /\ Len(q) + 1 - Len(q) = 1 /\ Len(q) + 1 \in 1 .. Len(q) + 1
      BY <1>5
    <2> QED BY <1>3, <1>4, <2>1
  <1> QED BY <1>4, <1>5, <1>6, <1>7, <1>8

(* The first frame taken off.                                             *)
LEMMA OneLess ==
  ASSUME NEW q, IsSeq(q), q # <<>>
  PROVE  /\ IsSeq(Tail(q)) /\ Len(q) \in Nat /\ 1 \in DOMAIN q /\ Head(q) = q[1]
         /\ DOMAIN q = 1 .. Len(q) /\ DOMAIN Tail(q) = 1 .. Len(q) - 1
         /\ \A i \in 1 .. Len(q) - 1 : Tail(q)[i] = q[i + 1]
  <1>1. PICK F : q \in Seq(F)
    BY DEF IsSeq
  <1>2. /\ Tail(q) \in Seq(F) /\ Len(Tail(q)) = Len(q) - 1
        /\ \A i \in 1 .. Len(Tail(q)) : Tail(q)[i] = q[i + 1]
    BY <1>1, HeadTailProperties
  <1>3. Len(q) \in Nat /\ DOMAIN q = 1 .. Len(q) /\ DOMAIN Tail(q) = 1 .. Len(Tail(q))
    BY <1>1, <1>2, LenProperties
  <1>4. Len(q) # 0
    BY <1>1
  <1> QED BY <1>1, <1>2, <1>3, <1>4 DEF IsSeq

---------------------------------------------------------------------------
LEMMA RelayInit == Init => RelayInv
  <1> SUFFICES ASSUME Init PROVE RelayInv
    OBVIOUS
  <1>1. IsSeq(<<>>)
    <2>1. <<>> \in Seq({})
      OBVIOUS
    <2> QED BY <2>1 DEF IsSeq
  <1>2. Wires /\ Sockets /\ Served
    BY <1>1, RelayAssumption DEF Init, Wires, Sockets, Served, HostUp, Sessions
  <1>3. Linked
    BY DEF Init, Linked
  <1> QED BY <1>2, <1>3 DEF RelayInv

(* While the host is up, the room routes to its session.                  *)
LEMMA Routed ==
  ASSUME RelayInv, HostUp
  PROVE  /\ LiveHost({}) = session /\ Reaches(session)
         /\ session \in Sessions /\ IsSeq(toHost[session])
  <1>1. session \in Sessions /\ session \in listed \cap fresh /\ last \in Nat
        /\ session = last /\ listed \subseteq 1 .. last
    BY RelayAssumption DEF RelayInv, Sockets, HostUp, Sessions
  <1> DEFINE alive == (listed \cap fresh) \ {}
  <1>2. session \in alive /\ \A y \in alive : y \in Int /\ session >= y
    BY <1>1
  <1>3. \A x \in alive : (\A y \in alive : x >= y) => x = session
    BY <1>2
  <1>4. (CHOOSE x \in alive : \A y \in alive : x >= y) = session
    BY <1>2, <1>3
  <1>5. LiveHost({}) = session
    BY <1>2, <1>4 DEF LiveHost, Max
  <1> QED BY <1>1, <1>5 DEF Reaches, HostUp, RelayInv, Wires

(* What a frame more does to the wires, whether it arrives or not.        *)
LEMMA SentOn ==
  ASSUME RelayInv, NEW m, UNCHANGED <<session, broken>>,
         \/ toHost' = IF Reaches(LiveHost({})) THEN ToHost(LiveHost({}), <<m>>) ELSE toHost
         \/ HostUp /\ toHost' = ToHost(session, <<m>>)
  PROVE  /\ toHost' = [s \in Sessions |-> toHost'[s]]
         /\ \A s \in Sessions : IsSeq(toHost'[s]) /\ (s # session => toHost'[s] = <<>>)
         /\ HostUp => toHost'[session] = toHost[session] \o <<m>>
  <1>1. CASE HostUp
    <2>1. /\ LiveHost({}) = session /\ Reaches(session)
          /\ session \in Sessions /\ IsSeq(toHost[session])
      BY <1>1, Routed
    <2>2. toHost' = [toHost EXCEPT ![session] = @ \o <<m>>]
      BY <2>1 DEF ToHost
    <2>3. /\ toHost'[session] = toHost[session] \o <<m>>
          /\ \A s \in Sessions : s # session => toHost'[s] = toHost[s]
          /\ toHost' = [s \in Sessions |-> toHost'[s]]
      BY <2>1, <2>2 DEF RelayInv, Wires
    <2>4. IsSeq(toHost'[session])
      <3> DEFINE p == toHost'[session]
                 q == toHost[session]
      <3>1. IsSeq(q) /\ p = q \o <<m>>
        BY <2>1, <2>3
      <3> HIDE DEF p, q
      <3>2. IsSeq(p)
        BY <3>1, OneMore
      <3> QED BY <3>2 DEF p
    <2> QED BY <2>3, <2>4 DEF RelayInv, Wires
  <1>2. CASE ~HostUp
    <2>1. toHost' = toHost
      BY <1>2 DEF Reaches, HostUp
    <2> QED BY <1>2, <2>1 DEF RelayInv, Wires
  <1> QED BY <1>1, <1>2

(* Word of a gone client stays behind the frames it is behind.            *)
LEMMA StaysBehind ==
  ASSUME NEW q, IsSeq(q), NEW m, NEW p, p = q \o <<m>>, NEW i, NEW c, GoneBehind(q, i, c)
  PROVE  GoneBehind(p, i, c)
  <1>1. PICK j \in DOMAIN q : j > i /\ q[j] = GoneFrame(c)
    BY DEF GoneBehind
  <1>2. DOMAIN q = 1 .. Len(q) /\ Len(q) \in Nat /\ DOMAIN p = 1 .. Len(q) + 1 /\ p[j] = q[j]
    BY <1>1, OneMore
  <1> QED BY <1>1, <1>2 DEF GoneBehind

(* Sending a frame keeps Served, if the frame's own client is backed and
   no client leaves but one the frame gives word of.                      *)
LEMMA SendServes ==
  ASSUME RelayInv, HostUp, NEW m, UNCHANGED <<session, broken, servers>>,
         toHost'[session] = toHost[session] \o <<m>>,
         m.kind = "rpc" => m.conn \in members',
         \A c \in members \ members' : m = GoneFrame(c)
  PROVE  Served'
  <1> DEFINE q == toHost[session]
             p == toHost'[session]
  <1>1. IsSeq(q) /\ p = q \o <<m>>
    BY Routed
  <1> HIDE DEF p, q
  <1>2. /\ DOMAIN q = 1 .. Len(q) /\ Len(q) \in Nat /\ DOMAIN p = 1 .. Len(q) + 1
        /\ \A i \in DOMAIN q : p[i] = q[i]
        /\ p[Len(q) + 1] = m
    BY <1>1, OneMore
  <1>3. ASSUME NEW i \in 0 .. Len(q), NEW c, Backed(q, i, c)
        PROVE  c \in members' \/ GoneBehind(p, i, c)
    <2>1. CASE c \in members /\ c \notin members'
      <3>1. p[Len(q) + 1] = GoneFrame(c) /\ Len(q) + 1 > i /\ Len(q) + 1 \in DOMAIN p
        BY <1>2, <2>1
      <3> QED BY <3>1 DEF GoneBehind
    <2>2. CASE c \notin members
      BY <1>1, <1>3, <2>2, StaysBehind DEF Backed
    <2> QED BY <2>1, <2>2
  <1>4. ASSUME NEW c \in servers PROVE c \in members' \/ GoneBehind(p, 0, c)
    <2>1. Backed(q, 0, c) /\ 0 \in 0 .. Len(q)
      BY <1>2 DEF RelayInv, Served, q
    <2> QED BY <1>3, <2>1
  <1>5. ASSUME NEW i \in DOMAIN p, p[i].kind = "rpc"
        PROVE  p[i].conn \in members' \/ GoneBehind(p, i, p[i].conn)
    <2>1. CASE i \in DOMAIN q
      <3>1. Backed(q, i, p[i].conn) /\ i \in 0 .. Len(q)
        BY <1>2, <1>5, <2>1 DEF RelayInv, Served, q
      <3> QED BY <1>3, <3>1
    <2>2. CASE i = Len(q) + 1
      BY <1>2, <1>5, <2>2
    <2> QED BY <1>2, <2>1, <2>2
  <1> QED BY <1>4, <1>5 DEF Served, Backed, GoneBehind, p

---------------------------------------------------------------------------
(* Steps that leave the host, the room and the wires to the host alone.   *)
LEMMA QuietHost ==
  ASSUME RelayInv, UNCHANGED <<room, host, toHost>>
  PROVE  Wires' /\ Sockets' /\ Served'
  BY DEF RelayInv, room, host, Wires, Sockets, Served, HostUp, Backed, GoneBehind, IsSeq

(* Steps that leave the callers alone.                                    *)
LEMMA QuietCallers ==
  ASSUME RelayInv, UNCHANGED <<members, caller>>
  PROVE  Linked'
  BY DEF RelayInv, caller, Linked

LEMMA DownKeepsLinked ==
  ASSUME RelayInv, NEW c, LinkDown(c), UNCHANGED <<members, via>>,
         status' = [k \in Calls |-> status'[k]],
         \A k \in Calls : status'[k] = "ready" => status[k] = "ready"
  PROVE  Linked'
  BY DEF RelayInv, Linked, LinkDown

(* A session that is gone has no frames, no servers and no requests.      *)
LEMMA Ended ==
  ASSUME RelayInv, session # 0, session' = 0 \/ (session' = session /\ session \in broken'),
         toHost' = [toHost EXCEPT ![session] = <<>>], UNCHANGED <<queue, last, listed>>,
         session' = 0 => servers' = {} /\ running' = {},
         broken' \subseteq broken \cup {session}
  PROVE  Wires' /\ Sockets' /\ Served'
  <1>1. session \in Sessions
    BY RelayAssumption DEF RelayInv, Sockets, Sessions
  <1>2. IsSeq(<<>>)
    <2>1. <<>> \in Seq({})
      OBVIOUS
    <2> QED BY <2>1 DEF IsSeq
  <1>3. Wires'
    <2>1. toHost' = [s \in Sessions |-> toHost'[s]] /\ toHost'[session] = <<>>
      BY <1>1 DEF RelayInv, Wires
    <2>2. ASSUME NEW s \in Sessions
          PROVE  IsSeq(toHost'[s]) /\ (s # session' => toHost'[s] = <<>>)
      <3>1. CASE s = session
        BY <1>2, <2>1, <3>1
      <3>2. CASE s # session
        <4>1. toHost'[s] = toHost[s] /\ IsSeq(toHost[s]) /\ toHost[s] = <<>>
          BY <3>2 DEF RelayInv, Wires
        <4> QED BY <4>1
      <3> QED BY <3>1, <3>2
    <2> QED BY <2>1, <2>2 DEF RelayInv, Wires, IsSeq
  <1> QED BY <1>3 DEF RelayInv, Sockets, Served, HostUp

LEMMA JoinStep == ASSUME RelayInv, HostJoin PROVE RelayInv'
  <1> DEFINE s == last + 1
             f == [i \in DOMAIN queue |-> NudgeFrame(queue[i])]
  <1>1. s \in Sessions /\ toHost[s] = <<>> /\ last \in Nat
    BY RelayAssumption DEF RelayInv, Wires, Sockets, HostJoin, Sessions
  <1>2. PICK Q : queue \in Seq(Q)
    BY DEF RelayInv, Wires, IsSeq
  <1>3. DOMAIN queue = 1 .. Len(queue) /\ Len(queue) \in Nat
    BY <1>2, LenProperties
  <1> DEFINE F == {NudgeFrame(h) : h \in Q}
  <1>4. f \in Seq(F) /\ DOMAIN f = DOMAIN queue
    <2>1. \A i \in 1 .. Len(queue) : queue[i] \in Q
      BY <1>2, <1>3
    <2>2. \A i \in 1 .. Len(queue) : f[i] \in F
      BY <1>3, <2>1
    <2>3. f \in [1 .. Len(queue) -> F]
      BY <1>3, <2>2
    <2> QED BY <1>3, <2>3, SeqDef
  <1>5. toHost' = [toHost EXCEPT ![s] = f]
    <2>1. <<>> \o f = f
      BY <1>4, ConcatEmptySeq
    <2>2. toHost' = [toHost EXCEPT ![s] = toHost[s] \o f]
      BY DEF HostJoin, ToHost
    <2> QED BY <1>1, <2>1, <2>2
  <1>6. \A i \in DOMAIN f : f[i].kind = "nudge"
    BY <1>4, FrameFields
  <1>7. IsSeq(f) /\ IsSeq(<<>>)
    <2>1. <<>> \in Seq({})
      OBVIOUS
    <2> QED BY <1>4, <2>1 DEF IsSeq
  <1> HIDE DEF f, F
  <1>8. Wires'
    <2>1. toHost' = [t \in Sessions |-> toHost'[t]]
      BY <1>5 DEF RelayInv, Wires
    <2>2. ASSUME NEW t \in Sessions
          PROVE  IsSeq(toHost'[t]) /\ (t # session' => toHost'[t] = <<>>)
      <3>1. CASE t = s
        <4>1. toHost'[t] = f /\ session' = t
          BY <1>1, <1>5, <3>1 DEF RelayInv, Wires, HostJoin
        <4> QED BY <1>7, <4>1
      <3>2. CASE t # s
        <4>1. toHost'[t] = toHost[t] /\ t # session
          BY <1>1, <1>5, <3>2, RelayAssumption DEF RelayInv, Wires, HostJoin, Sessions
        <4> QED BY <4>1 DEF RelayInv, Wires
      <3> QED BY <3>1, <3>2
    <2>3. queue' = <<>>
      BY DEF HostJoin
    <2> QED BY <1>7, <2>1, <2>2, <2>3 DEF Wires, IsSeq
  <1>9. Sockets'
    <2>1. last' = s /\ session' = s /\ listed' = listed \cup {s}
          /\ fresh' = fresh \cup {s} /\ broken' = broken
      BY DEF HostJoin
    <2>2. last \in Nat /\ s \in Nat /\ s # 0 /\ s <= MaxSessions
          /\ listed \subseteq 1 .. last /\ broken \subseteq 1 .. last
      BY <1>1, RelayAssumption DEF RelayInv, Sockets, HostJoin
    <2>3. listed' \subseteq 1 .. s /\ broken' \subseteq 1 .. s
      BY <2>1, <2>2
    <2> QED BY <2>1, <2>2, <2>3 DEF Sockets, HostUp
  <1>10. Served'
    <2>1. servers' = {} /\ session' = s /\ toHost'[s] = f
      BY <1>1, <1>5 DEF RelayInv, Wires, Sockets, HostJoin
    <2>2. "nudge" # "rpc"
      OBVIOUS
    <2>3. \A i \in DOMAIN toHost'[session'] : toHost'[session'][i].kind # "rpc"
      BY <1>6, <2>1, <2>2
    <2> QED BY <2>1, <2>3 DEF Served
  <1>11. Linked'
    BY QuietCallers DEF HostJoin
  <1> QED BY <1>8, <1>9, <1>10, <1>11 DEF RelayInv

LEMMA LossStep == ASSUME RelayInv, Cut \/ LeaseEnds \/ HostLeaves PROVE RelayInv'
  <1>1. session # 0
    BY RelayAssumption DEF RelayInv, Sockets, Cut, LeaseEnds, HostLeaves
  <1>2. Wires' /\ Sockets' /\ Served'
    BY <1>1, Ended DEF Cut, LeaseEnds, HostLeaves, EndSession, room
  <1>3. Linked'
    BY QuietCallers DEF Cut, LeaseEnds, HostLeaves, EndSession, room
  <1> QED BY <1>2, <1>3 DEF RelayInv

(* Taking the first frame: what was behind it is still behind what was    *)
(* behind it, and the first frame is no longer owed anything.             *)
LEMMA TakeStep == ASSUME RelayInv, HostTakes PROVE RelayInv'
  <1> DEFINE q == toHost[session]
             m == Head(q)
  <1>1. HostUp /\ session \in Sessions /\ IsSeq(q) /\ q # <<>>
    BY Routed DEF HostTakes, Reaches, HostUp
  <1>2. /\ IsSeq(Tail(q)) /\ Len(q) \in Nat /\ 1 \in DOMAIN q /\ m = q[1]
        /\ DOMAIN q = 1 .. Len(q) /\ DOMAIN Tail(q) = 1 .. Len(q) - 1
        /\ \A i \in 1 .. Len(q) - 1 : Tail(q)[i] = q[i + 1]
    BY <1>1, OneLess
  <1>3. toHost' = [toHost EXCEPT ![session] = Tail(q)] /\ UNCHANGED <<room, session, last, broken>>
    BY DEF HostTakes
  <1>4. toHost'[session'] = Tail(q)
    BY <1>1, <1>3 DEF RelayInv, Wires
  <1>5. Wires'
    <2>1. toHost' = [t \in Sessions |-> toHost'[t]]
      BY <1>3 DEF RelayInv, Wires
    <2>2. \A t \in Sessions : t # session => toHost'[t] = toHost[t]
      BY <1>3 DEF RelayInv, Wires
    <2> QED BY <1>2, <1>3, <1>4, <2>1, <2>2 DEF RelayInv, Wires, IsSeq, room
  <1>6. Sockets'
    BY <1>1, <1>3 DEF RelayInv, Sockets, HostUp, room
  <1>7. Linked'
    BY QuietCallers DEF HostTakes, room
  <1>8. ASSUME NEW i \in 0 .. Len(q) - 1, NEW c, Backed(q, i + 1, c)
        PROVE  c \in members \/ GoneBehind(Tail(q), i, c)
    <2>1. CASE c \in members
      BY <2>1
    <2>2. CASE GoneBehind(q, i + 1, c)
      <3>1. PICK j \in DOMAIN q : j > i + 1 /\ q[j] = GoneFrame(c)
        BY <2>2 DEF GoneBehind
      <3>2. j - 1 \in DOMAIN Tail(q) /\ j - 1 > i /\ Tail(q)[j - 1] = q[j]
        BY <1>2, <3>1
      <3> QED BY <3>1, <3>2 DEF GoneBehind
    <2> QED BY <1>8, <2>1, <2>2 DEF Backed
  <1>13. ASSUME NEW c, Backed(q, 1, c) PROVE c \in members \/ GoneBehind(Tail(q), 0, c)
    <2>1. 0 \in 0 .. Len(q) - 1 /\ 0 + 1 = 1
      BY <1>2
    <2>2. Backed(q, 0 + 1, c)
      BY <1>13, <2>1
    <2> QED BY <1>8, <2>1, <2>2
  (* A server is still backed, unless the frame taken says it is gone.    *)
  <1>9. ASSUME NEW c, Backed(q, 0, c), ~(m.kind = "gone" /\ m.conn = c)
        PROVE  c \in members \/ GoneBehind(Tail(q), 0, c)
    <2>1. m # GoneFrame(c)
      BY <1>9, FrameFields
    <2>2. Backed(q, 1, c)
      BY <1>2, <1>9, <2>1 DEF Backed, GoneBehind
    <2> QED BY <1>13, <2>2
  <1>10. ASSUME NEW c \in servers' PROVE c \in members \/ GoneBehind(Tail(q), 0, c)
    <2>1. CASE m.kind = "rpc"
      <3>1. c \in servers \/ c = m.conn
        BY <1>10, <2>1 DEF HostTakes
      <3>2. CASE c \in servers
        <4>1. Backed(q, 0, c) /\ m.kind # "gone"
          BY <1>1, <2>1, <3>2 DEF RelayInv, Served
        <4> QED BY <1>9, <4>1
      <3>3. CASE c = m.conn
        <4>1. Backed(q, 1, c)
          BY <1>1, <1>2, <2>1, <3>3 DEF RelayInv, Served
        <4> QED BY <1>13, <4>1
      <3> QED BY <3>1, <3>2, <3>3
    <2>2. CASE m.kind = "gone"
      <3>1. c \in servers /\ c # m.conn
        BY <1>10, <2>2 DEF HostTakes
      <3> QED BY <1>1, <1>9, <3>1 DEF RelayInv, Served
    <2>3. CASE m.kind = "nudge"
      <3>1. c \in servers
        BY <1>10, <2>3 DEF HostTakes
      <3> QED BY <1>1, <1>9, <2>3, <3>1 DEF RelayInv, Served
    <2> QED BY <2>1, <2>2, <2>3 DEF HostTakes
  <1>11. ASSUME NEW i \in DOMAIN Tail(q), Tail(q)[i].kind = "rpc"
         PROVE  Tail(q)[i].conn \in members \/ GoneBehind(Tail(q), i, Tail(q)[i].conn)
    <2>1. i + 1 \in DOMAIN q /\ Tail(q)[i] = q[i + 1] /\ i \in 0 .. Len(q) - 1
      BY <1>2
    <2>2. Backed(q, i + 1, Tail(q)[i].conn)
      BY <1>1, <1>11, <2>1 DEF RelayInv, Served
    <2> QED BY <1>8, <2>1, <2>2
  <1>12. Served'
    <2>1. UNCHANGED members
      BY <1>3 DEF room
    <2> HIDE DEF q
    <2> QED BY <1>4, <1>10, <1>11, <2>1 DEF Served, Backed, GoneBehind
  <1> QED BY <1>5, <1>6, <1>7, <1>12 DEF RelayInv

LEMMA ReplyStep == ASSUME RelayInv, NEW r \in running, Reply(r) PROVE RelayInv'
  <1>1. session # 0 /\ UNCHANGED <<room, session, last, broken, servers, caller>>
    BY DEF Reply, RelayInv, Sockets
  <1>2. Sockets' /\ Linked'
    BY <1>1, QuietCallers DEF RelayInv, Sockets, HostUp, room
  <1>3. CASE UNCHANGED toHost
    BY <1>1, <1>2, <1>3 DEF RelayInv, Wires, Served, HostUp, Backed, GoneBehind, IsSeq, room
  <1>4. CASE HostUp /\ toHost' = ToHost(session, <<GoneFrame(r[1])>>)
    <2> DEFINE m == GoneFrame(r[1])
    <2>1. m.kind # "rpc"
      BY FrameFields
    <2> HIDE DEF m
    <2>2. /\ toHost' = [s \in Sessions |-> toHost'[s]]
          /\ \A s \in Sessions : IsSeq(toHost'[s]) /\ (s # session => toHost'[s] = <<>>)
          /\ toHost'[session] = toHost[session] \o <<m>>
      BY <1>1, <1>4, SentOn DEF m
    <2>3. Wires'
      BY <1>1, <2>2 DEF RelayInv, Wires, IsSeq, room
    <2>4. Served'
      BY <1>1, <1>4, <2>1, <2>2, SendServes DEF room
    <2> QED BY <1>2, <2>3, <2>4 DEF RelayInv
  <1> QED BY <1>1, <1>3, <1>4 DEF Reply, HostUp

(* The queue of nudges stays a sequence, and the newest is in it.         *)
LEMMA WithoutIsSeq == ASSUME IsSeq(queue), NEW h PROVE IsSeq(Without(queue, h))
  <1>1. PICK Q : queue \in Seq(Q)
    BY DEF IsSeq
  <1>2. Len(queue) \in Nat /\ DOMAIN queue = 1 .. Len(queue)
    BY <1>1, LenProperties
  <1>3. \A i \in 1 .. Len(queue) : queue[i] \in Q
    BY <1>1, <1>2
  <1> DEFINE at == {i \in DOMAIN queue : queue[i] = h}
             n == CHOOSE i \in at : TRUE
  <1>4. CASE at = {}
    BY <1>4 DEF Without
  <1>5. CASE at # {}
    <2>1. n \in 1 .. Len(queue)
      BY <1>2, <1>5
    <2>2. Without(queue, h) = RemoveAt(queue, n)
      BY <1>5 DEF Without
    <2> HIDE DEF n
    <2>3. SubSeq(queue, 1, n - 1) \in Seq(Q) /\ SubSeq(queue, n + 1, Len(queue)) \in Seq(Q)
      BY <1>2, <1>3, <2>1, SubSeqProperties
    <2>4. RemoveAt(queue, n) \in Seq(Q)
      BY <2>3, ConcatProperties DEF RemoveAt
    <2> QED BY <2>2, <2>4 DEF IsSeq
  <1> QED BY <1>4, <1>5

LEMMA QueuedIsSeq ==
  ASSUME IsSeq(queue), NEW h
  PROVE  IsSeq(Queued(h)) /\ h \in Range(Queued(h))
  <1> DEFINE w == Without(queue, h)
             a == Append(w, h)
  <1>1. PICK Q : w \in Seq(Q)
    BY WithoutIsSeq DEF IsSeq
  <1> DEFINE G == Q \cup {h}
  <1>2. w \in Seq(G) /\ h \in G
    BY <1>1, SeqMonotonic
  <1> HIDE DEF G, w
  <1>3. /\ a \in Seq(G) /\ a # <<>> /\ Len(a) = Len(w) + 1 /\ a[Len(w) + 1] = h
        /\ Len(w) \in Nat /\ DOMAIN a = 1 .. Len(a)
    BY <1>2, AppendProperties, LenProperties
  <1>4. Queued(h) = IF Len(a) > MaxPending THEN Tail(a) ELSE a
    BY DEF Queued, w
  <1> HIDE DEF a
  <1>5. CASE Len(a) > MaxPending
    <2>1. Len(w) \in 1 .. Len(w)
      BY <1>3, <1>5, RelayAssumption
    <2>2. /\ Tail(a) \in Seq(G) /\ Len(Tail(a)) = Len(w)
          /\ Tail(a)[Len(w)] = h /\ DOMAIN Tail(a) = 1 .. Len(w)
      BY <1>3, <2>1, HeadTailProperties, LenProperties
    <2> QED BY <1>4, <1>5, <2>1, <2>2 DEF IsSeq, Range
  <1>6. CASE ~(Len(a) > MaxPending)
    <2>1. Len(w) + 1 \in DOMAIN a
      BY <1>3
    <2> QED BY <1>3, <1>4, <1>6, <2>1 DEF IsSeq, Range
  <1> QED BY <1>5, <1>6

(* A frame sent by the room: the wires and what is served.                *)
LEMMA RoomSends ==
  ASSUME RelayInv, NEW m, UNCHANGED host,
         toHost' = IF Reaches(LiveHost({})) THEN ToHost(LiveHost({}), <<m>>) ELSE toHost,
         IsSeq(queue'), UNCHANGED <<listed, fresh>>,
         m.kind = "rpc" => m.conn \in members',
         \A c \in members \ members' : m = GoneFrame(c)
  PROVE  Wires' /\ Sockets' /\ Served'
  <1>1. /\ toHost' = [s \in Sessions |-> toHost'[s]]
        /\ \A s \in Sessions : IsSeq(toHost'[s]) /\ (s # session => toHost'[s] = <<>>)
        /\ HostUp => toHost'[session] = toHost[session] \o <<m>>
    BY SentOn DEF host
  <1>2. Wires'
    BY <1>1 DEF Wires, IsSeq, host
  <1>3. Sockets'
    BY DEF RelayInv, Sockets, HostUp, host
  <1>4. Served'
    <2>1. CASE HostUp
      BY <1>1, <2>1, SendServes DEF host
    <2>2. CASE ~HostUp
      BY <2>2 DEF Served, HostUp, host
    <2> QED BY <2>1, <2>2
  <1> QED BY <1>2, <1>3, <1>4

LEMMA RoomStepKeeps ==
  ASSUME RelayInv,
         \/ \E s : Age(s) \/ HostClosed(s)
         \/ \E c \in Conns : ClientClosed(c)
         \/ \E h : Nudge(h)
  PROVE  RelayInv'
  <1>1. ASSUME NEW s, Age(s) \/ HostClosed(s) PROVE RelayInv'
    <2>1. UNCHANGED <<queue, members, host, toHost, caller>> /\ listed' \subseteq listed
          /\ (HostUp => session \in listed' \cap fresh')
      BY <1>1 DEF Age, HostClosed, RelayInv, Sockets, HostUp
    <2>2. Wires'
      BY <2>1 DEF RelayInv, host, Wires, IsSeq
    <2>3. Sockets'
      BY <2>1 DEF RelayInv, host, Sockets, HostUp
    <2>4. Served'
      BY <2>1 DEF RelayInv, host, Served, HostUp, Backed, GoneBehind
    <2> QED BY <2>1, <2>2, <2>3, <2>4, QuietCallers DEF RelayInv
  <1>2. ASSUME NEW c \in Conns, ClientClosed(c) PROVE RelayInv'
    <2> DEFINE m == GoneFrame(c)
    <2>1. m.kind # "rpc" /\ m = GoneFrame(c)
      BY FrameFields
    <2>2. toHost' = IF Reaches(LiveHost({})) THEN ToHost(LiveHost({}), <<m>>) ELSE toHost
      BY <1>2 DEF ClientClosed
    <2>4. /\ UNCHANGED <<host, listed, fresh>> /\ IsSeq(queue')
          /\ \A d \in members \ members' : m = GoneFrame(d)
      BY <1>2 DEF ClientClosed, RelayInv, Wires
    <2> HIDE DEF m
    <2>5. Wires' /\ Sockets' /\ Served'
      BY <2>1, <2>2, <2>4, RoomSends
    <2>3. Linked'
      BY <1>2 DEF ClientClosed, RelayInv, Linked, caller
    <2> QED BY <2>5, <2>3 DEF RelayInv
  <1>3. ASSUME NEW h, Nudge(h) PROVE RelayInv'
    <2> DEFINE m == NudgeFrame(h)
    <2>1. m.kind # "rpc"
      BY FrameFields
    <2>2. IsSeq(queue')
      BY <1>3, QueuedIsSeq DEF Nudge, RelayInv, Wires
    <2>3. toHost' = IF Reaches(LiveHost({})) THEN ToHost(LiveHost({}), <<m>>) ELSE toHost
      BY <1>3 DEF Nudge, Reaches
    <2> HIDE DEF m
    <2>4. Wires' /\ Sockets' /\ Served'
      BY <1>3, <2>1, <2>2, <2>3, RoomSends DEF Nudge
    <2>5. Linked'
      BY <1>3, QuietCallers DEF Nudge
    <2> QED BY <2>4, <2>5 DEF RelayInv
  <1> QED BY <1>1, <1>2, <1>3

(* The frame of a client whose end is up, a member from now on.           *)
LEMMA ClientSends ==
  ASSUME RelayInv, NEW c, NEW k, FromClient(c, k), c \in members',
         members \subseteq members', UNCHANGED <<listed, fresh, queue, host>>
  PROVE  Wires' /\ Sockets' /\ Served'
  <1> DEFINE m == RpcFrame(c, k)
  <1>1. m.conn = c
    BY FrameFields
  <1>2. toHost' = IF Reaches(LiveHost({})) THEN ToHost(LiveHost({}), <<m>>) ELSE toHost
    BY DEF FromClient
  <1>3. IsSeq(queue')
    BY DEF RelayInv, Wires
  <1> HIDE DEF m
  <1> QED BY <1>1, <1>2, <1>3, RoomSends

LEMMA CallerStepKeeps ==
  ASSUME RelayInv,
         \/ \E k \in Calls : Ask(k) \/ TakeLock(k) \/ Send(k) \/ Invalidate(k)
         \/ \E b \in Callers : Dial(b) \/ GiveUp(b) \/ CoolOff(b)
         \/ \E c \in Conns : ClientTakes(c) \/ ProbeTimeout(c) \/ LinkLost(c)
  PROVE  RelayInv'
  <1> USE RelayAssumption
  <1>1. ASSUME NEW k \in Calls, Ask(k) \/ TakeLock(k) PROVE RelayInv'
    <2>1. Wires' /\ Sockets' /\ Served'
      BY <1>1, QuietHost DEF Ask, TakeLock
    <2>2. Linked'
      <3>1. By[k] \in Callers
        OBVIOUS
      <3>2. OpenLink(By[k]) => cached[By[k]] \in Conns
        BY <3>1 DEF OpenLink, RelayInv, Linked
      <3>3. UNCHANGED <<members, link, cached>>
        BY <1>1 DEF Ask, TakeLock, room
      <3>4. /\ status' = [n \in Calls |-> status'[n]] /\ via' = [n \in Calls |-> via'[n]]
            /\ \A n \in Calls : status'[n] = "ready" => via'[n] \in Conns
        BY <1>1, <3>2 DEF Ask, TakeLock, RelayInv, Linked
      <3> QED BY <3>3, <3>4 DEF RelayInv, Linked
    <2> QED BY <2>1, <2>2 DEF RelayInv
  <1>2. ASSUME NEW k \in Calls, Send(k) PROVE RelayInv'
    <2>1. UNCHANGED <<room, host, link, cached, via>>
      BY <1>2 DEF Send
    <2>2. Wires' /\ Sockets' /\ Served'
      <3>1. CASE UNCHANGED toHost
        BY <2>1, <3>1, QuietHost
      <3>2. CASE link[via[k]] = "open" /\ FromClient(via[k], k)
        <4>1. via[k] \in Conns
          BY <1>2 DEF Send, RelayInv, Linked
        <4>2. via[k] \in members'
          BY <2>1, <3>2, <4>1 DEF RelayInv, Linked, room
        <4> QED BY <2>1, <3>2, <4>2, ClientSends DEF room
      <3> QED BY <1>2, <3>1, <3>2 DEF Send
    <2>3. Linked'
      BY <1>2, <2>1 DEF Send, RelayInv, Linked, room
    <2> QED BY <2>2, <2>3 DEF RelayInv
  <1>3. ASSUME NEW k \in Calls, Invalidate(k) PROVE RelayInv'
    <2>1. Wires' /\ Sockets' /\ Served'
      BY <1>3, QuietHost DEF Invalidate
    <2>2. CASE cached[By[k]] = NoConn
      <3>1. Linked'
        BY <1>3, <2>2 DEF Invalidate, RelayInv, Linked, room
      <3> QED BY <2>1, <3>1 DEF RelayInv
    <2>3. CASE cached[By[k]] # NoConn
      <3>1. LinkDown(cached[By[k]]) /\ UNCHANGED <<members, via>>
        BY <1>3, <2>3 DEF Invalidate, room
      <3>2. status' = [n \in Calls |-> status'[n]]
            /\ \A n \in Calls : status'[n] = "ready" => status[n] = "ready"
        BY <1>3, <2>3 DEF Invalidate, Failing
      <3>3. Linked'
        BY <3>1, <3>2, DownKeepsLinked
      <3> QED BY <2>1, <3>3 DEF RelayInv
    <2> QED BY <2>2, <2>3
  <1>4. ASSUME NEW b \in Callers, Dial(b) PROVE RelayInv'
    <2> DEFINE c == <<holder[b], tries[b] + 1>>
    <2>1. /\ link' = [link EXCEPT ![c] = "probing"] /\ members' = members \cup {c}
          /\ FromClient(c, NoCall)
          /\ UNCHANGED <<listed, fresh, queue, host, cached, status, via>>
      BY <1>4 DEF Dial
    <2> HIDE DEF c
    <2>2. Wires' /\ Sockets' /\ Served'
      BY <2>1, ClientSends
    <2>3. Linked'
      BY <2>1 DEF RelayInv, Linked
    <2> QED BY <2>2, <2>3 DEF RelayInv
  <1>5. ASSUME NEW b \in Callers, GiveUp(b) \/ CoolOff(b) PROVE RelayInv'
    <2>1. Wires' /\ Sockets' /\ Served'
      BY <1>5, QuietHost DEF GiveUp, CoolOff
    <2>2. Linked'
      BY <1>5 DEF GiveUp, CoolOff, RelayInv, Linked, room
    <2> QED BY <2>1, <2>2 DEF RelayInv
  <1>6. ASSUME NEW c \in Conns, ProbeTimeout(c) \/ LinkLost(c) PROVE RelayInv'
    <2>1. Wires' /\ Sockets' /\ Served'
      BY <1>6, QuietHost DEF ProbeTimeout, LinkLost
    <2>2. LinkDown(c) /\ UNCHANGED <<members, via>>
      BY <1>6 DEF ProbeTimeout, LinkLost, room
    <2>3. status' = [n \in Calls |-> status'[n]]
          /\ \A n \in Calls : status'[n] = "ready" => status[n] = "ready"
      BY <1>6 DEF ProbeTimeout, LinkLost, Failing, RelayInv, Linked
    <2>4. Linked'
      BY <2>2, <2>3, DownKeepsLinked
    <2> QED BY <2>1, <2>4 DEF RelayInv
  <1>7. ASSUME NEW c \in Conns, ClientTakes(c) PROVE RelayInv'
    <2>1. Wires' /\ Sockets' /\ Served'
      BY <1>7, QuietHost DEF ClientTakes
    <2>2. UNCHANGED members /\ link[c] \in {"probing", "open"} /\ c \in members
      BY <1>7 DEF ClientTakes, room, RelayInv, Linked
    <2>3. CASE LinkDown(c) /\ status' = Failing(c) /\ UNCHANGED via
      <3>1. status' = [n \in Calls |-> status'[n]]
            /\ \A n \in Calls : status'[n] = "ready" => status[n] = "ready"
        BY <2>3 DEF Failing
      <3>2. Linked'
        BY <2>2, <2>3, <3>1, DownKeepsLinked
      <3> QED BY <2>1, <3>2 DEF RelayInv
    <2>4. CASE Connected(c)
      <3>1. Linked'
        BY <2>2, <2>4 DEF Connected, RelayInv, Linked
      <3> QED BY <2>1, <3>1 DEF RelayInv
    <2>5. CASE /\ \E k \in Calls : status' = [status EXCEPT ![k] = "answered"]
               /\ UNCHANGED <<link, cached, via>>
      <3>1. Linked'
        BY <2>2, <2>5 DEF RelayInv, Linked
      <3> QED BY <2>1, <3>1 DEF RelayInv
    <2> QED BY <1>7, <2>3, <2>4, <2>5 DEF ClientTakes
  <1> QED BY <1>1, <1>2, <1>3, <1>4, <1>5, <1>6, <1>7

---------------------------------------------------------------------------
LEMMA RelayStep == ASSUME RelayInv, [Next]_vars PROVE RelayInv'
  <1>1. CASE HostStep
    BY <1>1, JoinStep, LossStep, TakeStep, ReplyStep DEF HostStep
  <1>2. CASE CallerStep
    BY <1>2, CallerStepKeeps DEF CallerStep
  <1>3. CASE RoomStep
    BY <1>3, RoomStepKeeps DEF RoomStep
  <1>4. CASE Fault
    BY <1>4, LossStep, RoomStepKeeps, CallerStepKeeps DEF Fault
  <1>5. CASE Other
    BY <1>5, RoomStepKeeps, CallerStepKeeps DEF Other
  <1>6. CASE UNCHANGED vars
    <2>1. UNCHANGED <<room, host, toHost, members, caller>>
      BY <1>6 DEF vars, room
    <2> QED BY <2>1, QuietHost, QuietCallers DEF RelayInv
  <1> QED BY <1>1, <1>2, <1>3, <1>4, <1>5, <1>6 DEF Next

THEOREM RelayInvariant == Spec => []RelayInv
  BY RelayInit, RelayStep, PTL DEF Spec

(* No virtual connection outlives its client unnoticed (webSocketClose,
   handle_host_frame, host_session).                                      *)
THEOREM ServersReapedHolds == Spec => []ServersReaped
  <1>1. RelayInv => ServersReaped
    <2> SUFFICES ASSUME RelayInv, NEW c \in servers
                 PROVE  \/ c \in members \/ session \in broken
                        \/ \E i \in DOMAIN toHost[session] : toHost[session][i] = GoneFrame(c)
      BY DEF ServersReaped
    <2>1. session # 0
      BY DEF RelayInv, Sockets
    <2> QED BY <2>1 DEF RelayInv, Served, HostUp, Backed, GoneBehind
  <1> QED BY <1>1, RelayInvariant, PTL

(* A call goes out by Send alone.                                         *)
LEMMA OnlySend ==
  ASSUME RelayInv, Next, NEW k \in Calls, status[k] = "ready", status'[k] = "pending"
  PROVE  Send(k)
  <1>1. status = [n \in Calls |-> status[n]]
    BY DEF RelayInv, Linked
  <1>2. ~UNCHANGED status
    OBVIOUS
  <1>3. CASE HostStep \/ RoomStep \/ Cut \/ HostLeaves
             \/ (\E s \in broken : HostClosed(s))
    BY <1>2, <1>3 DEF HostStep, HostJoin, LeaseEnds, HostTakes, Reply, RoomStep, HostClosed,
                      ClientClosed, Cut, HostLeaves, caller
  <1>4. CASE Other
    BY <1>1, <1>2, <1>4 DEF Other, Age, Nudge, Ask, CoolOff, caller
  <1>5. ASSUME NEW c \in Conns, LinkLost(c) \/ ClientTakes(c) \/ ProbeTimeout(c) PROVE FALSE
    BY <1>1, <1>2, <1>5 DEF LinkLost, ClientTakes, ProbeTimeout, Failing, Connected
  <1>6. ASSUME NEW n \in Calls, TakeLock(n) \/ Invalidate(n) PROVE FALSE
    <2>1. \A c : Failing(c)[k] = "ready"
      BY DEF Failing
    <2>2. \A c : [Failing(c) EXCEPT ![n] = "failed"][k] \in {"ready", "failed"}
      BY <2>1 DEF Failing
    <2> QED BY <1>1, <1>2, <1>6, <2>1, <2>2 DEF TakeLock, Invalidate
  <1>7. ASSUME NEW b \in Callers, Dial(b) \/ GiveUp(b) PROVE FALSE
    BY <1>1, <1>2, <1>7 DEF Dial, GiveUp
  <1>8. ASSUME NEW n \in Calls, n # k, Send(n) PROVE FALSE
    BY <1>1, <1>8 DEF Send
  <1> QED BY <1>3, <1>4, <1>5, <1>6, <1>7, <1>8 DEF Next, CallerStep, Fault

LEMMA SentOnTyped == Spec => [](DOMAIN sentOn = Calls)
  <1>1. Init => DOMAIN sentOn = Calls
    BY DEF Init
  <1>2. DOMAIN sentOn = Calls /\ [Next]_vars => (DOMAIN sentOn = Calls)'
    <2> SUFFICES ASSUME DOMAIN sentOn = Calls, [Next]_vars PROVE DOMAIN sentOn' = Calls
      OBVIOUS
    <2>1. ASSUME NEW k \in Calls, Send(k) PROVE DOMAIN sentOn' = Calls
      BY <2>1 DEF Send
    <2>2. CASE ~(\E k \in Calls : Send(k))
      <3>1. UNCHANGED sentOn
        BY <2>2 DEF Next, vars, HostStep, CallerStep, RoomStep, Fault, Other, HostJoin,
             LeaseEnds, HostTakes, Reply, TakeLock, Invalidate, Dial, GiveUp, ClientTakes,
             ProbeTimeout, HostClosed, ClientClosed, Cut, HostLeaves, LinkLost, Age, Nudge,
             Ask, CoolOff
      <3> QED BY <3>1
    <2> QED BY <2>1, <2>2
  <1> QED BY <1>1, <1>2, PTL DEF Spec

(* While the host's socket is up the room forwards every request to it,
   whatever corpses of earlier ones it still lists (pickLiveHost).        *)
THEOREM NeverPinnedHolds == Spec => NeverPinned
  <1>1. RelayInv /\ DOMAIN sentOn = Calls /\ [Next]_vars =>
          [\A k \in Calls : (status[k] = "ready" /\ status'[k] = "pending" /\ Reaches(session))
                             => sentOn'[k] = session]_vars
    <2> SUFFICES ASSUME RelayInv, DOMAIN sentOn = Calls, Next, NEW k \in Calls,
                        status[k] = "ready", status'[k] = "pending", Reaches(session)
                 PROVE  sentOn'[k] = session
      OBVIOUS
    <2>1. Send(k)
      BY OnlySend
    <2>2. link[via[k]] = "open" => sentOn' = [sentOn EXCEPT ![k] = LiveHost({})]
      BY <2>1 DEF Send
    <2>3. link[via[k]] = "open"
      BY <2>1 DEF Send, RelayInv, Linked
    <2>4. LiveHost({}) = session
      BY Routed DEF HostUp, Reaches
    <2> QED BY <2>2, <2>3, <2>4
  <1> QED BY <1>1, RelayInvariant, SentOnTyped, PTL DEF Spec, NeverPinned

---------------------------------------------------------------------------
(* OfflineTold.  The notice is on the client's wire from the step that    *)
(* leaves the room without a host, or that dials one without, and the     *)
(* client takes it off only by closing its link.                          *)

Carries(q, f) == \E i \in DOMAIN q : q[i] = f

Noticed(q) == Carries(q, LinkNotice)

Up(c) == link[c] \in {"probing", "open"}

(* The wires to the room's members.                                       *)
Downs ==
  /\ down = [c \in Conns |-> down[c]] /\ \A c \in Conns : IsSeq(down[c])
  /\ members \subseteq Conns

(* The dial lock and its attempts.                                        *)
Dialing ==
  /\ holder = [b \in Callers |-> holder[b]]
  /\ \A b \in Callers : holder[b] \in Calls \cup {NoCall}
  /\ tries = [b \in Callers |-> tries[b]]
  /\ \A b \in Callers : tries[b] \in 0 .. MaxDials

ToldInv == RelayInv /\ Downs /\ Dialing /\ OfflineTold

LEMMA EmptyIsSeq == IsSeq(<<>>)
  <1>1. <<>> \in Seq({})
    OBVIOUS
  <1> QED BY <1>1 DEF IsSeq

LEMMA Appended == ASSUME NEW q, IsSeq(q), NEW m PROVE Append(q, m) = q \o <<m>>
  <1>1. PICK F : q \in Seq(F)
    BY DEF IsSeq
  <1> DEFINE G == F \cup {m}
  <1>2. q \in Seq(G) /\ m \in G
    BY <1>1, SeqMonotonic
  <1> HIDE DEF G
  <1> QED BY <1>2, AppendIsConcat

(* One frame more keeps what the wire carries, and is carried itself.     *)
LEMMA CarriesOn ==
  ASSUME NEW q, IsSeq(q), NEW m, NEW p, p = q \o <<m>>, NEW f
  PROVE  IsSeq(p) /\ (Carries(q, f) \/ m = f => Carries(p, f))
  <1>1. IsSeq(p)
    BY OneMore
  <1>2. /\ DOMAIN q = 1 .. Len(q) /\ Len(q) \in Nat
        /\ DOMAIN p = 1 .. Len(q) + 1
        /\ \A i \in DOMAIN q : p[i] = q[i]
        /\ p[Len(q) + 1] = m
    BY OneMore
  <1>3. Len(q) + 1 \in DOMAIN p /\ \A i \in DOMAIN q : i \in DOMAIN p
    BY <1>2
  <1> QED BY <1>1, <1>2, <1>3 DEF Carries

(* One frame taken off leaves every other one.                            *)
LEMMA CarriesBehind ==
  ASSUME NEW q, IsSeq(q), q # <<>>, NEW f, Head(q) # f
  PROVE  IsSeq(Tail(q)) /\ (Carries(q, f) => Carries(Tail(q), f))
  <1>1. /\ IsSeq(Tail(q)) /\ Len(q) \in Nat /\ Head(q) = q[1]
        /\ DOMAIN q = 1 .. Len(q) /\ DOMAIN Tail(q) = 1 .. Len(q) - 1
        /\ \A i \in 1 .. Len(q) - 1 : Tail(q)[i] = q[i + 1]
    BY OneLess
  <1>2. ASSUME NEW i \in DOMAIN q, q[i] = f PROVE Carries(Tail(q), f)
    <2>1. i # 1
      BY <1>1, <1>2
    <2>2. i - 1 \in 1 .. Len(q) - 1 /\ i - 1 + 1 = i
      BY <1>1, <2>1
    <2>3. Tail(q)[i - 1] = f
      BY <1>1, <1>2, <2>2
    <2> QED BY <1>1, <2>2, <2>3 DEF Carries
  <1> QED BY <1>1, <1>2 DEF Carries

LEMMA ReplyIsNoNotice == ASSUME NEW k PROVE ReplyFrame(k) # LinkNotice
  <1>1. ReplyFrame(k).kind = "reply" /\ LinkNotice.kind = "relay" /\ "reply" # "relay"
    BY DEF ReplyFrame, LinkNotice
  <1> QED BY <1>1

(* With no socket listed there is no live host.                           *)
LEMMA NobodyLive == ASSUME NEW S, listed \subseteq S PROVE LiveHost(S) = 0
  BY DEF LiveHost

(* A step that clears no notice and raises no link.                       *)
LEMMA StillTold ==
  ASSUME ToldInv, listed' = {} => listed = {}, members' \subseteq members,
         down' = [c \in Conns |-> down'[c]], \A c \in Conns : IsSeq(down'[c]),
         \A c \in Conns : link'[c] \in {"probing", "open"} =>
                            Up(c) /\ (Noticed(down[c]) => Noticed(down'[c]))
  PROVE  Downs' /\ OfflineTold'
  <1>1. Downs'
    BY DEF ToldInv, Downs, IsSeq
  <1>2. OfflineTold'
    BY <1>1 DEF ToldInv, Downs, OfflineTold, Noticed, Carries, Up
  <1> QED BY <1>1, <1>2

(* ... as one that leaves the links and their wires alone.                *)
LEMMA DownsAlone ==
  ASSUME ToldInv, listed' = {} => listed = {}, members' \subseteq members,
         UNCHANGED <<down, link>>
  PROVE  Downs' /\ OfflineTold'
  BY DEF ToldInv, Downs, OfflineTold, IsSeq

(* ... as one that ends a link.                                           *)
LEMMA DownTold ==
  ASSUME ToldInv, NEW d \in Conns, LinkDown(d), UNCHANGED <<listed, members>>
  PROVE  Downs' /\ OfflineTold'
  <1>1. /\ down' = [down EXCEPT ![d] = <<>>] /\ link' = [link EXCEPT ![d] = "closed"]
        /\ down = [c \in Conns |-> down[c]] /\ link = [c \in Conns |-> link[c]]
        /\ \A c \in Conns : IsSeq(down[c])
    BY DEF LinkDown, ToldInv, Downs, RelayInv, Linked
  <1>2. /\ link'[d] = "closed" /\ down'[d] = <<>>
        /\ \A c \in Conns \ {d} : link'[c] = link[c] /\ down'[c] = down[c]
        /\ down' = [c \in Conns |-> down'[c]]
    BY <1>1
  <1>3. \A c \in Conns : IsSeq(down'[c])
    BY <1>1, <1>2, EmptyIsSeq
  <1> QED BY <1>2, <1>3, StillTold DEF Up

(* ... as one that puts a frame on one wire, which must be the notice if
   nobody is behind the room and the link is new.                         *)
LEMMA FrameTold ==
  ASSUME ToldInv, NEW d \in Conns, NEW m, listed' = listed,
         members' \subseteq members \cup {d},
         down' = [down EXCEPT ![d] = Append(@, m)],
         \A c \in Conns \ {d} : link'[c] = link[c],
         listed = {} /\ link'[d] \in {"probing", "open"} =>
            m = LinkNotice \/ (Up(d) /\ d \in members)
  PROVE  Downs' /\ OfflineTold'
  <1>1. /\ down' = [c \in Conns |-> down'[c]] /\ members' \subseteq Conns
        /\ \A c \in Conns \ {d} : down'[c] = down[c]
        /\ down'[d] = Append(down[d], m) /\ IsSeq(down[d])
    BY DEF ToldInv, Downs
  <1>2. down'[d] = down[d] \o <<m>>
    BY <1>1, Appended
  <1>3. IsSeq(down'[d]) /\ (Noticed(down[d]) \/ m = LinkNotice => Noticed(down'[d]))
    BY <1>1, <1>2, CarriesOn DEF Noticed
  <1>4. Downs'
    BY <1>1, <1>3 DEF ToldInv, Downs, IsSeq
  <1>5. ASSUME listed' = {}, NEW c \in members', link'[c] \in {"probing", "open"}
        PROVE  Noticed(down'[c])
    <2>1. CASE c = d
      BY <1>3, <1>5, <2>1 DEF ToldInv, OfflineTold, Noticed, Carries, Up
    <2>2. CASE c # d
      BY <1>1, <1>5, <2>2 DEF ToldInv, OfflineTold, Noticed, Carries
    <2> QED BY <2>1, <2>2
  <1>6. OfflineTold'
    BY <1>5 DEF OfflineTold, Noticed, Carries
  <1> QED BY <1>4, <1>6

(* The room hears of the last host socket: everybody is told.             *)
LEMMA ClosedTold == ASSUME ToldInv, NEW s, HostClosed(s) PROVE Downs' /\ OfflineTold'
  <1>1. UNCHANGED <<members, link>> /\ listed' = listed \ {s}
    BY DEF HostClosed, caller
  <1>2. CASE LiveHost({s}) # 0
    <2>1. listed' # {}
      BY <1>1, <1>2 DEF LiveHost
    <2>2. down' = down
      BY <1>2 DEF HostClosed
    <2> QED BY <1>1, <2>1, <2>2, DownsAlone
  <1>3. CASE LiveHost({s}) = 0
    <2>1. down' = [c \in Conns |-> IF c \in members THEN Told(c, LinkNotice) ELSE down[c]]
      BY <1>3 DEF HostClosed
    <2>2. \A c \in Conns : IsSeq(down[c])
      BY DEF ToldInv, Downs
    <2>3. ASSUME NEW c \in Conns
          PROVE  IsSeq(down'[c]) /\ (c \in members /\ Up(c) => Noticed(down'[c]))
      <3>1. CASE c \in members /\ Up(c)
        <4>1. down'[c] = Append(down[c], LinkNotice)
          BY <2>1, <3>1 DEF Told, Up
        <4>2. down'[c] = down[c] \o <<LinkNotice>>
          BY <2>2, <4>1, Appended
        <4> QED BY <2>2, <4>2, CarriesOn DEF Noticed
      <3>2. CASE ~(c \in members /\ Up(c))
        <4>1. down'[c] = down[c]
          BY <2>1, <3>2 DEF Told, Up
        <4> QED BY <2>2, <3>2, <4>1
      <3> QED BY <3>1, <3>2
    <2>4. Downs'
      BY <1>1, <2>1, <2>3 DEF ToldInv, Downs, IsSeq
    <2>5. OfflineTold'
      BY <1>1, <2>3 DEF ToldInv, Downs, OfflineTold, Noticed, Carries, Up
    <2> QED BY <2>4, <2>5
  <1> QED BY <1>2, <1>3

(* A frame of the client c: it is bounced if nobody is behind the room.   *)
LEMMA SentTold ==
  ASSUME ToldInv, NEW d \in Conns, NEW k, FromClient(d, k), listed' = listed,
         members' \subseteq members \cup {d}, \A c \in Conns \ {d} : link'[c] = link[c]
  PROVE  Downs' /\ OfflineTold'
  <1>1. CASE LiveHost({}) = 0
    <2>1. down' = [down EXCEPT ![d] = Append(@, LinkNotice)]
      BY <1>1 DEF FromClient
    <2> QED BY <2>1, FrameTold
  <1>2. CASE LiveHost({}) # 0
    <2>1. down' = down /\ listed # {}
      BY <1>2 DEF FromClient, LiveHost
    <2> QED BY <2>1 DEF ToldInv, Downs, OfflineTold, IsSeq
  <1> QED BY <1>1, <1>2

(* ... as one that takes a reply off a wire.                              *)
LEMMA TakenTold ==
  ASSUME ToldInv, NEW d \in Conns, Up(d), down[d] # <<>>, NEW k,
         Head(down[d]) = ReplyFrame(k), UNCHANGED <<listed, members>>,
         down' = [down EXCEPT ![d] = Tail(@)], \A c \in Conns \ {d} : link'[c] = link[c]
  PROVE  Downs' /\ OfflineTold'
  <1>1. /\ down' = [c \in Conns |-> down'[c]]
        /\ \A c \in Conns \ {d} : down'[c] = down[c]
        /\ down'[d] = Tail(down[d])
        /\ \A c \in Conns : IsSeq(down[c])
    BY DEF ToldInv, Downs
  <1>2. IsSeq(Tail(down[d])) /\ (Noticed(down[d]) => Noticed(Tail(down[d])))
    <2>1. Head(down[d]) # LinkNotice
      BY ReplyIsNoNotice
    <2> QED BY <1>1, <2>1, CarriesBehind DEF Noticed
  <1>3. ASSUME NEW c \in Conns
        PROVE  /\ IsSeq(down'[c])
               /\ link'[c] \in {"probing", "open"} =>
                    Up(c) /\ (Noticed(down[c]) => Noticed(down'[c]))
    <2>1. CASE c = d
      BY <1>1, <1>2, <2>1
    <2>2. CASE c # d
      BY <1>1, <2>2 DEF Up
    <2> QED BY <2>1, <2>2
  <1> QED BY <1>1, <1>3, StillTold

LEMMA DialingStep == ASSUME RelayInv, Dialing, [Next]_vars PROVE Dialing'
  <1> USE RelayAssumption
  <1>1. ASSUME NEW k \in Calls, TakeLock(k) PROVE Dialing'
    BY <1>1 DEF Dialing, TakeLock
  <1>2. ASSUME NEW b \in Callers, Dial(b) PROVE Dialing'
    <2>1. holder' = holder /\ tries' = [tries EXCEPT ![b] = tries[b] + 1]
          /\ tries[b] < MaxDials /\ tries[b] \in 0 .. MaxDials
      BY <1>2 DEF Dialing, Dial
    <2>2. tries[b] + 1 \in 0 .. MaxDials
      BY <2>1
    <2> QED BY <2>1, <2>2 DEF Dialing
  <1>3. ASSUME NEW b \in Callers, GiveUp(b) PROVE Dialing'
    BY <1>3 DEF Dialing, GiveUp
  <1>4. ASSUME NEW c \in Conns, ClientTakes(c) PROVE Dialing'
    BY <1>4 DEF Dialing, ClientTakes, Connected, LinkDown
  <1>5. CASE ~(\/ \E k \in Calls : TakeLock(k)
               \/ \E b \in Callers : Dial(b) \/ GiveUp(b)
               \/ \E c \in Conns : ClientTakes(c))
    <2>1. UNCHANGED <<holder, tries>>
      BY <1>5 DEF Next, vars, caller, HostStep, CallerStep, RoomStep, Fault, Other, HostJoin,
         LeaseEnds, HostTakes, Reply, Send, Invalidate, ProbeTimeout, HostClosed,
         ClientClosed, Cut, HostLeaves, LinkLost, Age, Nudge, Ask, CoolOff
    <2> QED BY <2>1 DEF Dialing
  <1> QED BY <1>1, <1>2, <1>3, <1>4, <1>5

(* A reply of the host, to a client the room lists.                       *)
LEMMA ReplyTold == ASSUME ToldInv, NEW r, Reply(r) PROVE Downs' /\ OfflineTold'
  <1>1. UNCHANGED <<listed, members, link>>
    BY DEF Reply, room, caller
  <1>2. CASE down' = down
    BY <1>1, <1>2, DownsAlone
  <1>3. CASE /\ r[1] \in members
             /\ down' = [down EXCEPT ![r[1]] = Told(r[1], ReplyFrame(r[2]))]
    <2>1. r[1] \in Conns
      BY <1>3 DEF ToldInv, Downs
    <2>2. CASE Up(r[1])
      <3>1. down' = [down EXCEPT ![r[1]] = Append(@, ReplyFrame(r[2]))]
        BY <1>3, <2>2 DEF Told, Up
      <3> QED BY <1>1, <1>3, <2>1, <2>2, <3>1, FrameTold
    <2>3. CASE ~Up(r[1])
      <3>1. down' = down
        BY <1>3, <2>1, <2>3 DEF Told, Up, ToldInv, Downs
      <3> QED BY <1>1, <3>1, DownsAlone
    <2> QED BY <2>2, <2>3
  <1> QED BY <1>2, <1>3 DEF Reply

LEMMA ToldStep == ASSUME ToldInv, [Next]_vars PROVE ToldInv'
  <1> USE RelayAssumption
  <1>1. RelayInv' /\ Dialing'
    BY RelayStep, DialingStep DEF ToldInv
  <1>2. ASSUME \/ HostJoin \/ LeaseEnds \/ HostTakes \/ Cut \/ HostLeaves
               \/ \E s \in Sessions : Age(s)
               \/ \E c \in Conns : ClientClosed(c)
               \/ \E h \in Chats : Nudge(h)
               \/ \E k \in Calls : Ask(k) \/ TakeLock(k)
               \/ \E b \in Callers : GiveUp(b) \/ CoolOff(b)
               \/ UNCHANGED vars
        PROVE  Downs' /\ OfflineTold'
    <2>1. UNCHANGED <<down, link>> /\ (listed' = {} => listed = {}) /\ members' \subseteq members
      BY <1>2 DEF HostJoin, LeaseEnds, HostTakes, Cut, HostLeaves, Age, ClientClosed, Nudge,
           Ask, TakeLock, GiveUp, CoolOff, vars, room, caller
    <2> QED BY <2>1, DownsAlone
  <1>3. ASSUME NEW c \in Conns, LinkDown(c), UNCHANGED <<listed, members>>
        PROVE  Downs' /\ OfflineTold'
    BY <1>3, DownTold
  <1>4. ASSUME NEW c \in Conns, ProbeTimeout(c) \/ LinkLost(c) PROVE Downs' /\ OfflineTold'
    BY <1>3, <1>4 DEF ProbeTimeout, LinkLost, room
  <1>5. ASSUME NEW c \in Conns, ClientTakes(c) PROVE Downs' /\ OfflineTold'
    <2>1. Up(c) /\ down[c] # <<>> /\ UNCHANGED <<listed, members>>
      BY <1>5 DEF ClientTakes, Up, room
    <2>2. CASE LinkDown(c)
      BY <1>3, <2>1, <2>2
    <2>3. ASSUME NEW k, Head(down[c]) = ReplyFrame(k), down' = [down EXCEPT ![c] = Tail(@)],
                 link' = [link EXCEPT ![c] = "open"] \/ link' = link
          PROVE  Downs' /\ OfflineTold'
      <3>1. \A d \in Conns \ {c} : link'[d] = link[d]
        BY <2>3 DEF ToldInv, RelayInv, Linked
      <3> QED BY <2>1, <2>3, <3>1, TakenTold
    <2> QED BY <1>5, <2>2, <2>3 DEF ClientTakes, Connected
  <1>6. ASSUME NEW k \in Calls, Invalidate(k) PROVE Downs' /\ OfflineTold'
    <2>1. cached[By[k]] \in Conns \cup {NoConn}
      BY DEF ToldInv, RelayInv, Linked
    <2>2. CASE cached[By[k]] = NoConn
      BY <1>6, <2>2, DownsAlone DEF Invalidate, room
    <2>3. CASE cached[By[k]] # NoConn
      BY <1>3, <1>6, <2>1, <2>3 DEF Invalidate, room
    <2> QED BY <2>2, <2>3
  <1>7. ASSUME NEW k \in Calls, Send(k) PROVE Downs' /\ OfflineTold'
    <2>1. UNCHANGED <<listed, members, link>> /\ via[k] \in Conns
      BY <1>7 DEF Send, room, ToldInv, RelayInv, Linked
    <2>2. CASE FromClient(via[k], k)
      BY <2>1, <2>2, SentTold
    <2>3. CASE down' = down
      BY <2>1, <2>3, DownsAlone
    <2> QED BY <1>7, <2>2, <2>3 DEF Send
  <1>8. ASSUME NEW b \in Callers, Dial(b) PROVE Downs' /\ OfflineTold'
    <2> DEFINE c == <<holder[b], tries[b] + 1>>
    <2>1. holder[b] \in Calls /\ tries[b] + 1 \in 1 .. MaxDials
      BY <1>8 DEF Dial, AttemptOver, ToldInv, Dialing
    <2>2. c \in Conns
      BY <2>1 DEF Conns
    <2>3. /\ link' = [link EXCEPT ![c] = "probing"] /\ members' = members \cup {c}
          /\ FromClient(c, NoCall) /\ listed' = listed
      BY <1>8 DEF Dial
    <2> HIDE DEF c
    <2>4. \A d \in Conns \ {c} : link'[d] = link[d]
      BY <2>3 DEF ToldInv, RelayInv, Linked
    <2> QED BY <2>2, <2>3, <2>4, SentTold
  <1>9. Downs' /\ OfflineTold'
    BY <1>2, <1>4, <1>5, <1>6, <1>7, <1>8, ClosedTold, ReplyTold
       DEF Next, HostStep, CallerStep, RoomStep, Fault, Other
  <1> QED BY <1>1, <1>9 DEF ToldInv

(* A client of a device with nobody home has been told so, or will find
   the notice on its wire (webSocketClose, webSocketMessage).             *)
THEOREM OfflineToldHolds == Spec => []OfflineTold
  <1>1. Init => ToldInv
    <2> SUFFICES ASSUME Init PROVE ToldInv
      OBVIOUS
    <2>1. Downs /\ Dialing /\ OfflineTold
      BY EmptyIsSeq, RelayAssumption DEF Init, Downs, Dialing, OfflineTold
    <2> QED BY <2>1, RelayInit DEF ToldInv
  <1>2. ToldInv /\ [Next]_vars => ToldInv'
    BY ToldStep
  <1>3. ToldInv => OfflineTold
    BY DEF ToldInv
  <1> QED BY <1>1, <1>2, <1>3, PTL DEF Spec

---------------------------------------------------------------------------
(* NudgeAccounted.  A nudge is followed from the room's queue to the wire *)
(* of the session that joins, and from there to the host or to the wires  *)
(* that died.                                                             *)

Flying(h) == session # 0 /\ Carries(toHost[session], NudgeFrame(h))

Accounted == \A h \in due : h \in Range(queue) \cup swallowed \/ Flying(h)

AccountInv == RelayInv /\ due \subseteq Chats /\ Accounted

LEMMA InFlight ==
  ASSUME NEW h \in Chats, NEW s
  PROVE  h \in NudgesInFlight(s) <=> Carries(toHost[s], NudgeFrame(h))
  BY DEF NudgesInFlight, Carries

(* A step that leaves the nudges where they are.                          *)
LEMMA NudgesAlone ==
  ASSUME AccountInv, UNCHANGED <<queue, session, toHost, due, swallowed>>
  PROVE  due' \subseteq Chats /\ Accounted'
  BY DEF AccountInv, Accounted, Flying

(* ... or puts a frame behind them.                                       *)
LEMMA FrameAccounted ==
  ASSUME AccountInv, NEW m, UNCHANGED <<session, broken>>,
         \/ toHost' = IF Reaches(LiveHost({})) THEN ToHost(LiveHost({}), <<m>>) ELSE toHost
         \/ HostUp /\ toHost' = ToHost(session, <<m>>)
  PROVE  /\ \A h : Flying(h) => Flying(h)'
         /\ HostUp => \A h : m = NudgeFrame(h) => Flying(h)'
  <1> USE DEF AccountInv
  <1>1. CASE HostUp
    <2>1. toHost'[session] = toHost[session] \o <<m>> /\ session' = session
      BY <1>1, SentOn
    <2>2. IsSeq(toHost[session])
      BY <1>1, Routed
    <2>3. ASSUME NEW h, Carries(toHost[session], NudgeFrame(h)) \/ m = NudgeFrame(h)
          PROVE  Carries(toHost'[session], NudgeFrame(h))
      BY <2>1, <2>2, <2>3, CarriesOn
    <2> QED BY <1>1, <2>1, <2>3 DEF Flying, HostUp, Carries
  <1>2. CASE ~HostUp
    <2>1. toHost' = toHost
      BY <1>2 DEF Reaches, HostUp
    <2> QED BY <1>2, <2>1 DEF Flying, Carries
  <1> QED BY <1>1, <1>2

LEMMA FrameBehind ==
  ASSUME AccountInv, NEW m, UNCHANGED <<session, broken, queue, nudges>>,
         \/ toHost' = IF Reaches(LiveHost({})) THEN ToHost(LiveHost({}), <<m>>) ELSE toHost
         \/ HostUp /\ toHost' = ToHost(session, <<m>>)
  PROVE  due' \subseteq Chats /\ Accounted'
  <1>1. \A h : Flying(h) => Flying(h)'
    BY FrameAccounted
  <1> QED BY <1>1 DEF AccountInv, Accounted, nudges

(* The session that joins is sent what was queued.                        *)
LEMMA JoinAccounted == ASSUME AccountInv, HostJoin PROVE due' \subseteq Chats /\ Accounted'
  <1> DEFINE s == last + 1
             f == [i \in DOMAIN queue |-> NudgeFrame(queue[i])]
  <1>1. s \in Sessions /\ s # 0 /\ toHost[s] = <<>> /\ session = 0
    BY RelayAssumption DEF AccountInv, RelayInv, Wires, Sockets, HostJoin, Sessions
  <1>2. toHost'[s] = f /\ session' = s
    <2>1. toHost' = [toHost EXCEPT ![s] = <<>> \o f] /\ session' = s
      BY <1>1 DEF HostJoin, ToHost
    <2>2. <<>> \o f = f
      <3>1. PICK Q : queue \in Seq(Q)
        BY DEF AccountInv, RelayInv, Wires, IsSeq
      <3> DEFINE F == {NudgeFrame(h) : h \in Q}
      <3>2. Len(queue) \in Nat /\ DOMAIN queue = 1 .. Len(queue)
        BY <3>1, LenProperties
      <3>3. \A i \in 1 .. Len(queue) : queue[i] \in Q
        BY <3>1, <3>2
      <3>4. f \in [1 .. Len(queue) -> F]
        BY <3>2, <3>3
      <3> HIDE DEF f, F
      <3>5. f \in Seq(F)
        BY <3>2, <3>4, SeqDef
      <3> QED BY <3>5, ConcatEmptySeq
    <2> HIDE DEF f
    <2> QED BY <1>1, <2>1, <2>2 DEF AccountInv, RelayInv, Wires
  <1>3. ASSUME NEW h \in Range(queue) PROVE Flying(h)'
    <2>1. PICK i \in DOMAIN queue : queue[i] = h
      BY DEF Range
    <2>2. i \in DOMAIN f /\ f[i] = NudgeFrame(h)
      BY <2>1
    <2> HIDE DEF f
    <2> QED BY <1>1, <1>2, <2>2 DEF Flying, Carries
  <1>4. UNCHANGED <<due, swallowed>>
    BY DEF HostJoin, nudges
  <1>5. \A h : ~Flying(h)
    BY <1>1 DEF Flying
  <1> QED BY <1>3, <1>4, <1>5 DEF AccountInv, Accounted

(* Those on a socket that dies, or is closed, are counted as lost.        *)
LEMMA LossAccounted ==
  ASSUME AccountInv, Cut \/ LeaseEnds \/ HostLeaves
  PROVE  due' \subseteq Chats /\ Accounted'
  <1>1. swallowed' = swallowed \cup NudgesInFlight(session) /\ UNCHANGED <<queue, due>>
    BY DEF Cut, LeaseEnds, HostLeaves, EndSession, room
  <1>2. \A h \in due : Flying(h) => h \in NudgesInFlight(session)
    BY InFlight DEF AccountInv, Flying
  <1> QED BY <1>1, <1>2 DEF AccountInv, Accounted

(* The host opens the chat it was nudged about; the others stay behind.   *)
LEMMA TakeAccounted == ASSUME AccountInv, HostTakes PROVE due' \subseteq Chats /\ Accounted'
  <1> DEFINE q == toHost[session]
             m == Head(q)
  <1>1. session # 0 /\ session \in Sessions /\ IsSeq(q) /\ q # <<>>
    BY Routed DEF AccountInv, HostTakes, Reaches, HostUp
  <1>2. toHost'[session] = Tail(q) /\ session' = session /\ queue' = queue
    BY <1>1 DEF HostTakes, AccountInv, RelayInv, Wires, room
  <1>3. ASSUME NEW h \in due', NudgeFrame(h) # m, swallowed \ {m.chat} \subseteq swallowed',
               h # m.chat \/ swallowed' = swallowed, due' \subseteq due
        PROVE  h \in Range(queue') \cup swallowed' \/ Flying(h)'
    <2>1. Carries(q, NudgeFrame(h)) => Carries(Tail(q), NudgeFrame(h))
      BY <1>1, <1>3, CarriesBehind
    <2>2. h \in Range(queue) \cup swallowed \/ Carries(q, NudgeFrame(h))
      BY <1>3 DEF AccountInv, Accounted, Flying
    <2> QED BY <1>1, <1>2, <1>3, <2>1, <2>2 DEF Flying
  <1>4. CASE m.kind \in {"rpc", "gone"} /\ UNCHANGED nudges
    <2>1. \A h : NudgeFrame(h) # m
      BY <1>4, FrameFields
    <2> QED BY <1>3, <1>4, <2>1 DEF Accounted, AccountInv, nudges
  <1>5. CASE due' = due \ {m.chat} /\ swallowed' = swallowed \ {m.chat}
    <2>1. \A h : NudgeFrame(h) = m => h = m.chat
      BY DEF NudgeFrame
    <2> QED BY <1>3, <1>5, <2>1 DEF Accounted, AccountInv
  <1> QED BY <1>4, <1>5 DEF HostTakes

(* A new nudge: on its way, into a dead socket, or the newest queued; what
   a full queue drops for it is counted.                                  *)
LEMMA NudgeStep ==
  ASSUME AccountInv, NEW h \in Chats, Nudge(h)
  PROVE  due' \subseteq Chats /\ Accounted'
  <1> DEFINE s == LiveHost({})
  <1>1. due' = due \cup {h} /\ UNCHANGED host
    BY DEF Nudge
  <1>2. CASE s # 0
    <2>1. /\ toHost' = IF Reaches(s) THEN ToHost(s, <<NudgeFrame(h)>>) ELSE toHost
          /\ swallowed' = IF Reaches(s) THEN swallowed ELSE swallowed \cup {h}
          /\ queue' = queue
      BY <1>2 DEF Nudge
    <2>2. /\ \A g : Flying(g) => Flying(g)'
          /\ HostUp => Flying(h)'
      <3> DEFINE m == NudgeFrame(h)
      <3>1. toHost' = IF Reaches(LiveHost({})) THEN ToHost(LiveHost({}), <<m>>) ELSE toHost
        BY <2>1
      <3>2. m = NudgeFrame(h) /\ UNCHANGED <<session, broken>>
        BY <1>1 DEF host
      <3> HIDE DEF m
      <3>3. \A g : Flying(g) => Flying(g)'
        BY <3>1, <3>2, FrameAccounted
      <3>4. HostUp => \A g : m = NudgeFrame(g) => Flying(g)'
        BY <3>1, <3>2, FrameAccounted
      <3> QED BY <3>2, <3>3, <3>4
    <2>3. Reaches(s) => HostUp
      BY DEF Reaches, HostUp
    <2> QED BY <1>1, <2>1, <2>2, <2>3 DEF AccountInv, Accounted
  <1>3. CASE s = 0
    <2>1. /\ queue' = Queued(h) /\ toHost' = toHost
          /\ swallowed' = (swallowed \ {h}) \cup (Range(queue) \ Range(Queued(h)))
      BY <1>3 DEF Nudge
    <2>2. h \in Range(Queued(h))
      BY QueuedIsSeq DEF AccountInv, RelayInv, Wires
    <2>3. \A g : Flying(g) => Flying(g)'
      BY <1>1, <2>1 DEF Flying, host
    <2> QED BY <1>1, <2>1, <2>2, <2>3 DEF AccountInv, Accounted
  <1> QED BY <1>2, <1>3

LEMMA AccountStep == ASSUME AccountInv, [Next]_vars PROVE AccountInv'
  <1>1. RelayInv'
    BY RelayStep DEF AccountInv
  <1>2. ASSUME \/ \E s : Age(s) \/ HostClosed(s)
               \/ \E k \in Calls : Ask(k) \/ TakeLock(k) \/ Invalidate(k)
               \/ \E b \in Callers : GiveUp(b) \/ CoolOff(b)
               \/ \E c \in Conns : ClientTakes(c) \/ ProbeTimeout(c) \/ LinkLost(c)
               \/ UNCHANGED vars
        PROVE  due' \subseteq Chats /\ Accounted'
    <2>1. UNCHANGED <<queue, session, toHost, due, swallowed>>
      BY <1>2 DEF Age, HostClosed, Ask, TakeLock, Invalidate, GiveUp, CoolOff, ClientTakes,
           ProbeTimeout, LinkLost, vars, room, host, nudges
    <2> QED BY <2>1, NudgesAlone
  <1>3. ASSUME NEW r \in running, Reply(r) PROVE due' \subseteq Chats /\ Accounted'
    <2>1. session # 0 /\ UNCHANGED <<session, broken, queue, due, swallowed, nudges>>
      BY <1>3 DEF Reply, AccountInv, RelayInv, Sockets, room, nudges
    <2>2. CASE UNCHANGED toHost
      BY <2>1, <2>2, NudgesAlone
    <2>3. CASE HostUp /\ toHost' = ToHost(session, <<GoneFrame(r[1])>>)
      BY <2>1, <2>3, FrameBehind
    <2> QED BY <1>3, <2>1, <2>2, <2>3 DEF Reply, HostUp
  <1>4. ASSUME NEW c \in Conns, ClientClosed(c) PROVE due' \subseteq Chats /\ Accounted'
    <2>1. UNCHANGED <<session, broken, queue, nudges>>
      BY <1>4 DEF ClientClosed, host
    <2>2. toHost' = IF Reaches(LiveHost({})) THEN ToHost(LiveHost({}), <<GoneFrame(c)>>)
                    ELSE toHost
      BY <1>4 DEF ClientClosed
    <2> QED BY <2>1, <2>2, FrameBehind
  <1>5. ASSUME NEW c, NEW k, FromClient(c, k), UNCHANGED <<session, broken, queue, nudges>>
        PROVE  due' \subseteq Chats /\ Accounted'
    <2>1. toHost' = IF Reaches(LiveHost({})) THEN ToHost(LiveHost({}), <<RpcFrame(c, k)>>)
                    ELSE toHost
      BY <1>5 DEF FromClient
    <2> QED BY <1>5, <2>1, FrameBehind
  <1>6. ASSUME NEW b \in Callers, Dial(b) PROVE due' \subseteq Chats /\ Accounted'
    BY <1>5, <1>6 DEF Dial, host
  <1>7. ASSUME NEW k \in Calls, Send(k) PROVE due' \subseteq Chats /\ Accounted'
    <2>1. UNCHANGED <<session, broken, queue, due, swallowed, nudges>>
      BY <1>7 DEF Send, room, host, nudges
    <2> QED BY <1>5, <1>7, <2>1, NudgesAlone DEF Send
  <1>8. due' \subseteq Chats /\ Accounted'
    BY <1>2, <1>3, <1>4, <1>6, <1>7, JoinAccounted, LossAccounted, TakeAccounted, NudgeStep
       DEF Next, HostStep, CallerStep, RoomStep, Fault, Other
  <1> QED BY <1>1, <1>8 DEF AccountInv

(* No nudge is lost but to a dead socket or a full queue (pending_nudges,
   join_host, handle_host_frame).                                         *)
THEOREM NudgeAccountedHolds == Spec => []NudgeAccounted
  <1>1. Init => AccountInv
    <2> SUFFICES ASSUME Init PROVE AccountInv
      OBVIOUS
    <2> QED BY RelayInit DEF Init, AccountInv, Accounted
  <1>2. AccountInv /\ [Next]_vars => AccountInv'
    BY AccountStep
  <1>3. AccountInv => NudgeAccounted
    BY InFlight DEF AccountInv, Accounted, Flying, NudgeAccounted
  <1> QED BY <1>1, <1>2, <1>3, PTL DEF Spec
=============================================================================
