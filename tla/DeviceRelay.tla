---------------------------- MODULE DeviceRelay ----------------------------
(***************************************************************************)
(* The relay between one device (the host) and the devices that call it:  *)
(* the DeviceRoom Durable Object (edge/src/device-room.ts), the host end  *)
(* (crates/rpc/src/device_room.rs, HostRelay) that serves RPC over one    *)
(* socket, and the callers' LinkCache and DeviceLink with the RpcClient   *)
(* on top (crates/rpc/src/client.rs, engine rpc.rs `forward`).            *)
(*                                                                         *)
(* A host socket is a SESSION, numbered in the order of joining; a client *)
(* socket is a CONN, named by the call that dialed it and the attempt (in *)
(* the code a fresh uuid per dial).  A frame from a socket's end to the   *)
(* room is handled as it is sent; frames FROM the room wait on the wire   *)
(* of their socket.  Sockets may die silently: the host notices by its    *)
(* 40 s silence lease, the room stops routing to a socket after 75 s and  *)
(* may see its close late or never.  Tokens, the owner check, the sidecar *)
(* slots and server streams are left out (README).                        *)
(***************************************************************************)
EXTENDS Naturals, Sequences, SequencesExt, FiniteSets, FiniteSetsExt

CONSTANTS Callers,      \* devices that call the host, one LinkCache each
          Calls,        \* the RPC calls they make
          By,           \* the caller of each call
          Chats,        \* chats the host is nudged about
          MaxDials,     \* DIAL_ATTEMPTS
          MaxPending,   \* NUDGE_MAX_PENDING
          MaxSessions,  \* bound: host sessions
          Budgets,      \* bound: the faults, nudges and calls of a behaviour
          NoCall

Sessions == 1 .. MaxSessions
Conns == Calls \X (1 .. MaxDials)
NoConn == <<NoCall, 0>>
Budget == [cuts : Nat, leaves : Nat, losses : Nat, posts : Nat,
           asks : SUBSET Calls]

ASSUME RelayAssumption ==
  /\ By \in [Calls -> Callers] /\ NoCall \notin Calls
  /\ MaxDials \in Nat \ {0} /\ MaxPending \in Nat \ {0}
  /\ MaxSessions \in Nat \ {0} /\ Budgets \subseteq Budget

VARIABLES
  \* the room
  listed,     \* host sockets the runtime reports as connected
  fresh,      \* those that proved themselves alive within HOST_LIVENESS_MS
  queue,      \* pending_nudges, oldest first
  members,    \* client sockets
  \* the host
  session,    \* the session being served, 0 between two
  last,       \* sessions joined so far
  broken,     \* sessions whose socket died silently
  servers,    \* conns with a virtual connection in this session
  running,    \* requests being served: <<conn, call>>, NoCall for the probe
  \* frames sent by the room and not yet received
  toHost, down,
  \* the callers
  link,       \* Conns -> "none" | "probing" | "open" | "closed"
  cached,     \* LinkCache.links
  holder,     \* the call that holds the per-device dial lock
  tries,      \* dial attempts the holder has made
  cooling,    \* callers in the cooldown of a failed dial
  status,     \* the calls
  via,        \* the conn whose client a call was given
  \* history
  sentOn,     \* the session a request was routed to
  orphans,    \* calls whose session was closed with a successor in place
  due,        \* chats nudged and not opened since
  swallowed,  \* of those, the ones sent into a dead socket or dropped
  left

room == <<listed, fresh, queue, members>>
host == <<session, last, broken, servers, running>>
caller == <<link, cached, holder, tries, cooling, status, via>>
nudges == <<due, swallowed>>
vars == <<room, host, toHost, down, caller, sentOn, orphans, nudges, left>>

---------------------------------------------------------------------------
(* Frames                                                                  *)

RpcFrame(c, k) == [kind |-> "rpc", conn |-> c, call |-> k]
GoneFrame(c) == [kind |-> "gone", conn |-> c]
NudgeFrame(h) == [kind |-> "nudge", chat |-> h]
ReplyFrame(k) == [kind |-> "reply", call |-> k]
LinkNotice == [kind |-> "relay"]    \* host_offline or host_closed

\* Mutant: the first socket listed, as before the liveness window.
OldestHost(excluded) ==
  LET alive == listed \ excluded
  IN  IF alive = {} THEN 0 ELSE Min(alive)

(* liveHost / pickLiveHost: the freshest host socket, if it is inside the
   liveness window.  A session joins after its predecessor sent its last
   ping, so the freshest is the youngest.                                 *)
LiveHost(excluded) ==
  LET alive == (listed \cap fresh) \ excluded
  IN  IF alive = {} THEN 0 ELSE Max(alive)

(* A frame put on a host socket arrives only if both its ends are up.     *)
Reaches(s) == s # 0 /\ s = session /\ s \notin broken

ToHost(s, frames) == [toHost EXCEPT ![s] = @ \o frames]

Init ==
  /\ listed = {} /\ fresh = {} /\ queue = <<>> /\ members = {}
  /\ session = 0 /\ last = 0 /\ broken = {} /\ servers = {} /\ running = {}
  /\ toHost = [s \in Sessions |-> <<>>] /\ down = [c \in Conns |-> <<>>]
  /\ link = [c \in Conns |-> "none"]
  /\ cached = [b \in Callers |-> NoConn] /\ holder = [b \in Callers |-> NoCall]
  /\ tries = [b \in Callers |-> 0] /\ cooling = {}
  /\ status = [k \in Calls |-> "idle"] /\ via = [k \in Calls |-> NoConn]
  /\ sentOn = [k \in Calls |-> 0] /\ orphans = {}
  /\ due = {} /\ swallowed = {}
  /\ left \in Budgets

---------------------------------------------------------------------------
(* The host                                                                *)

(* /ws?role=host: the predecessors are told to close, the queued nudges
   are sent on the new socket and forgotten.                              *)
HostJoin ==
  /\ session = 0 /\ last < MaxSessions
  /\ LET s == last + 1
     IN  /\ session' = s /\ last' = s
         /\ listed' = listed \cup {s} /\ fresh' = fresh \cup {s}
         /\ toHost' = ToHost(s, [i \in DOMAIN queue |-> NudgeFrame(queue[i])])
  /\ queue' = <<>>
  /\ UNCHANGED <<members, broken, servers, running, down, caller, sentOn,
                 orphans, nudges, left>>

(* The nudges on the wire of the session.                                 *)
NudgesInFlight(s) == {h \in Chats : \E i \in DOMAIN toHost[s] :
                                       toHost[s][i] = NudgeFrame(h)}

(* The socket dies without either end being told.                         *)
Cut ==
  /\ session # 0 /\ session \notin broken /\ left.cuts > 0
  /\ broken' = broken \cup {session}
  /\ swallowed' = swallowed \cup NudgesInFlight(session)
  /\ toHost' = [toHost EXCEPT ![session] = <<>>]
  /\ left' = [left EXCEPT !.cuts = @ - 1]
  /\ UNCHANGED <<room, session, last, servers, running, down, caller, sentOn,
                 orphans, due>>

(* The end of host_session: dropping the virtual connections aborts every
   request they serve.                                                    *)
EndSession ==
  /\ session' = 0 /\ servers' = {} /\ running' = {}
  /\ swallowed' = swallowed \cup NudgesInFlight(session)
  /\ toHost' = [toHost EXCEPT ![session] = <<>>]

\* Mutant: no lease, the close event is waited for.
LeaseEndsWaits ==
  /\ session \in broken /\ session \notin listed
  /\ EndSession
  /\ UNCHANGED <<room, last, broken, down, caller, sentOn, orphans, due, left>>

(* Nothing received for SILENCE_LEASE, or the keepalive cannot be sent.   *)
LeaseEnds ==
  /\ session \in broken
  /\ EndSession
  /\ UNCHANGED <<room, last, broken, down, caller, sentOn, orphans, due, left>>

(* A restart, a sign-out, or a close by the relay.                        *)
HostLeaves ==
  /\ session # 0 /\ session \notin broken /\ left.leaves > 0
  /\ EndSession
  /\ left' = [left EXCEPT !.leaves = @ - 1]
  /\ UNCHANGED <<room, last, broken, down, caller, sentOn, orphans, due>>

(* handle_host_frame: a request goes to its conn's server, made on the
   first one; word of a gone client drops the server and its requests; a
   nudge opens the chat.                                                  *)
HostTakes ==
  /\ Reaches(session) /\ toHost[session] # <<>>
  /\ toHost' = [toHost EXCEPT ![session] = Tail(@)]
  /\ LET m == Head(toHost[session])
     IN  \/ /\ m.kind = "rpc"
            /\ servers' = servers \cup {m.conn}
            /\ running' = running \cup {<<m.conn, m.call>>}
            /\ UNCHANGED nudges
         \/ /\ m.kind = "gone"
            /\ servers' = servers \ {m.conn}
            /\ running' = {r \in running : r[1] # m.conn}
            /\ UNCHANGED nudges
         \/ /\ m.kind = "nudge"
            /\ due' = due \ {m.chat}
            /\ swallowed' = swallowed \ {m.chat}
            /\ UNCHANGED <<servers, running>>
  /\ UNCHANGED <<room, session, last, broken, down, caller, sentOn, orphans, left>>

(* The room hands a frame to a client whose end is still up.              *)
Told(c, m) == IF link[c] \in {"probing", "open"} THEN Append(down[c], m) ELSE down[c]

(* A request is done: its reply goes out on the session's socket and the
   room routes it by `to`, or bounces client_gone.                        *)
Reply(r) ==
  /\ r \in running
  /\ running' = running \ {r}
  /\ IF session \in broken
       THEN UNCHANGED <<toHost, down>>
       ELSE IF r[1] \in members
              THEN /\ down' = [down EXCEPT ![r[1]] = Told(r[1], ReplyFrame(r[2]))]
                   /\ UNCHANGED toHost
              ELSE /\ toHost' = ToHost(session, <<GoneFrame(r[1])>>)
                   /\ UNCHANGED down
  /\ UNCHANGED <<room, session, last, broken, servers, caller, sentOn, orphans,
                 nudges, left>>

---------------------------------------------------------------------------
(* The room                                                                *)

(* HOST_LIVENESS_MS (75 s) without a ping.  The host's own lease is 40 s:
   its end of the socket is gone by then.                                 *)
Age(s) ==
  /\ s \in fresh /\ s # session
  /\ fresh' = fresh \ {s}
  /\ UNCHANGED <<listed, queue, members, host, toHost, down, caller, sentOn,
                 orphans, nudges, left>>

(* The call is out and its answer is not back.                            *)
Awaits(k, s) == status[k] = "pending" /\ sentOn[k] = s

\* Mutant: the closing socket counts as a live host.
HostClosedCountsItself(s) ==
  /\ s \in listed /\ (s # session \/ s \in broken)
  /\ listed' = listed \ {s} /\ fresh' = fresh \ {s}
  /\ IF LiveHost({}) = 0
       THEN /\ down' = [c \in Conns |-> IF c \in members THEN Told(c, LinkNotice)
                                        ELSE down[c]]
            /\ UNCHANGED orphans
       ELSE /\ orphans' = orphans \cup {k \in Calls : Awaits(k, s)}
            /\ UNCHANGED down
  /\ UNCHANGED <<queue, members, host, toHost, caller, sentOn, nudges, left>>

(* webSocketClose of a host socket: every client is told, unless another
   host socket is live.                                                   *)
HostClosed(s) ==
  /\ s \in listed /\ (s # session \/ s \in broken)
  /\ listed' = listed \ {s} /\ fresh' = fresh \ {s}
  /\ IF LiveHost({s}) = 0
       THEN /\ down' = [c \in Conns |-> IF c \in members THEN Told(c, LinkNotice)
                                        ELSE down[c]]
            /\ UNCHANGED orphans
       ELSE /\ orphans' = orphans \cup {k \in Calls : Awaits(k, s)}
            /\ UNCHANGED down
  /\ UNCHANGED <<queue, members, host, toHost, caller, sentOn, nudges, left>>

\* Mutant: the host is not told that a client went away.
ClientClosedSilently(c) ==
  /\ c \in members /\ link[c] = "closed"
  /\ members' = members \ {c}
  /\ UNCHANGED <<listed, fresh, queue, host, toHost, down, caller, sentOn, orphans,
                 nudges, left>>

(* webSocketClose of a client socket: the live host drops its server.     *)
ClientClosed(c) ==
  /\ c \in members /\ link[c] = "closed"
  /\ members' = members \ {c}
  /\ LET s == LiveHost({})
     IN  toHost' = IF Reaches(s) THEN ToHost(s, <<GoneFrame(c)>>) ELSE toHost
  /\ UNCHANGED <<listed, fresh, queue, host, down, caller, sentOn, orphans,
                 nudges, left>>

Without(q, h) ==
  LET at == {i \in DOMAIN q : q[i] = h}
  IN  IF at = {} THEN q ELSE RemoveAt(q, CHOOSE i \in at : TRUE)

\* Mutant: a full queue drops the newcomer.
QueuedOldest(h) ==
  IF Len(queue) = MaxPending THEN queue ELSE Append(Without(queue, h), h)

(* A nudge for an offline host: at most one per chat, the newest
   MaxPending of them.                                                    *)
Queued(h) ==
  LET all == Append(Without(queue, h), h)
  IN  IF Len(all) > MaxPending THEN Tail(all) ELSE all

(* POST /nudge: delivered to a live host, otherwise queued.               *)
Nudge(h) ==
  /\ left.posts > 0
  /\ left' = [left EXCEPT !.posts = @ - 1]
  /\ due' = due \cup {h}
  /\ LET s == LiveHost({})
     IN  IF s # 0
           THEN /\ toHost' = IF Reaches(s) THEN ToHost(s, <<NudgeFrame(h)>>) ELSE toHost
                /\ swallowed' = IF Reaches(s) THEN swallowed ELSE swallowed \cup {h}
                /\ UNCHANGED queue
           ELSE /\ queue' = Queued(h)
                /\ swallowed' = (swallowed \ {h}) \cup (Range(queue) \ Range(Queued(h)))
                /\ UNCHANGED toHost
  /\ UNCHANGED <<listed, fresh, members, host, down, caller, sentOn, orphans>>

(* webSocketMessage of a client: forwarded to the live host with `from`,
   or bounced host_offline.                                               *)
FromClient(c, k) ==
  LET s == LiveHost({})
  IN  /\ toHost' = IF Reaches(s) THEN ToHost(s, <<RpcFrame(c, k)>>) ELSE toHost
      /\ down' = IF s = 0 THEN [down EXCEPT ![c] = Append(@, LinkNotice)] ELSE down

---------------------------------------------------------------------------
(* The callers                                                             *)

OpenLink(b) == cached[b] # NoConn /\ link[cached[b]] = "open"

(* LinkCache::client, the fast path: a cached link that is not closed.    *)
Ask(k) ==
  /\ status[k] = "idle" /\ k \in left.asks
  /\ LET b == By[k]
     IN  IF OpenLink(b)
           THEN /\ status' = [status EXCEPT ![k] = "ready"]
                /\ via' = [via EXCEPT ![k] = cached[b]]
           ELSE /\ status' = [status EXCEPT ![k] = "wants"]
                /\ UNCHANGED via
  /\ UNCHANGED <<room, host, toHost, down, link, cached, holder, tries, cooling,
                 sentOn, orphans, nudges, left>>

(* ... and under the dial lock: the link another call dialed meanwhile, a
   refusal during the cooldown, or the lock is kept for dialing.          *)
TakeLock(k) ==
  LET b == By[k]
  IN  /\ status[k] = "wants" /\ holder[b] = NoCall
      /\ IF OpenLink(b)
           THEN /\ status' = [status EXCEPT ![k] = "ready"]
                /\ via' = [via EXCEPT ![k] = cached[b]]
                /\ UNCHANGED <<holder, tries>>
           ELSE IF b \in cooling
             THEN /\ status' = [status EXCEPT ![k] = "failed"]
                  /\ UNCHANGED <<via, holder, tries>>
             ELSE /\ holder' = [holder EXCEPT ![b] = k]
                  /\ tries' = [tries EXCEPT ![b] = 0]
                  /\ UNCHANGED <<status, via>>
      /\ UNCHANGED <<room, host, toHost, down, link, cached, cooling, sentOn,
                     orphans, nudges, left>>

(* The attempt the holder is at has failed, or none was made.             *)
AttemptOver(b) ==
  /\ holder[b] # NoCall
  /\ tries[b] > 0 => link[<<holder[b], tries[b]>>] = "closed"

(* LinkCache::dial: join the room as a client and send the readiness
   probe.                                                                 *)
Dial(b) ==
  /\ AttemptOver(b) /\ tries[b] < MaxDials
  /\ tries' = [tries EXCEPT ![b] = @ + 1]
  /\ LET c == <<holder[b], tries[b] + 1>>
     IN  /\ link' = [link EXCEPT ![c] = "probing"]
         /\ members' = members \cup {c}
         /\ FromClient(c, NoCall)
  /\ UNCHANGED <<listed, fresh, queue, host, cached, holder, cooling, status, via,
                 sentOn, orphans, nudges, left>>

\* Mutant: the dial lock outlives a failed dial.
GiveUpLocked(b) ==
  /\ AttemptOver(b) /\ tries[b] = MaxDials
  /\ status' = [status EXCEPT ![holder[b]] = "failed"]
  /\ cooling' = cooling \cup {b}
  /\ UNCHANGED <<room, host, toHost, down, link, cached, holder, tries, via, sentOn,
                 orphans, nudges, left>>

(* The attempts are exhausted: one failure on the cooldown curve.         *)
GiveUp(b) ==
  /\ AttemptOver(b) /\ tries[b] = MaxDials
  /\ status' = [status EXCEPT ![holder[b]] = "failed"]
  /\ holder' = [holder EXCEPT ![b] = NoCall]
  /\ cooling' = cooling \cup {b}
  /\ UNCHANGED <<room, host, toHost, down, link, cached, tries, via, sentOn,
                 orphans, nudges, left>>

(* The end of a link's pump: the reader fails the pending calls with
   Closed, the evictor drops the link from the cache if it is still the
   cached one.                                                            *)
LinkDown(c) ==
  /\ link' = [link EXCEPT ![c] = "closed"]
  /\ cached' = [b \in Callers |-> IF cached[b] = c THEN NoConn ELSE cached[b]]
  /\ down' = [down EXCEPT ![c] = <<>>]

(* The pending calls of a link that fail when it goes down.               *)
Failing(c) == [k \in Calls |-> IF status[k] = "pending" /\ via[k] = c THEN "closed"
                               ELSE status[k]]

(* A probe's reply: the link is cached, the cooldown forgotten, the dial
   lock released and the client returned.                                 *)
Connected(c) ==
  LET b == By[c[1]]
  IN  /\ link' = [link EXCEPT ![c] = "open"]
      /\ cached' = [cached EXCEPT ![b] = c]
      /\ holder' = [holder EXCEPT ![b] = NoCall]
      /\ cooling' = cooling \ {b}
      /\ status' = [status EXCEPT ![c[1]] = "ready"]
      /\ via' = [via EXCEPT ![c[1]] = c]
      /\ down' = [down EXCEPT ![c] = Tail(@)]

(* The link's pump and the client's reader take a frame: a notice of the
   room ends the link, the probe's reply establishes it.                  *)
ClientTakes(c) ==
  /\ link[c] \in {"probing", "open"} /\ down[c] # <<>>
  /\ LET m == Head(down[c])
     IN  \/ /\ m = LinkNotice
            /\ LinkDown(c)
            /\ status' = Failing(c)
            /\ UNCHANGED <<holder, cooling, via>>
         \/ m = ReplyFrame(NoCall) /\ Connected(c)
         \/ \E k \in Calls :
              /\ m = ReplyFrame(k)
              /\ status' = [status EXCEPT ![k] = "answered"]
              /\ down' = [down EXCEPT ![c] = Tail(@)]
              /\ UNCHANGED <<link, cached, holder, cooling, via>>
  /\ UNCHANGED <<room, host, toHost, tries, sentOn, orphans, nudges, left>>

(* The readiness probe was lost and probe_timeout (10 s) drops the link; a
   host too slow for it is counted with the losses below.                 *)
ProbeTimeout(c) ==
  /\ link[c] = "probing" /\ down[c] = <<>> /\ <<c, NoCall>> \notin running
  /\ session # 0 => RpcFrame(c, NoCall) \notin Range(toHost[session])
  /\ LinkDown(c)
  /\ UNCHANGED <<room, host, toHost, holder, tries, cooling, status, via, sentOn,
                 orphans, nudges, left>>

(* A client socket is lost, or falls silent past its lease, or a wake
   from suspend clears the cache, or a slow probe times out.              *)
LinkLost(c) ==
  /\ link[c] \in {"probing", "open"} /\ left.losses > 0
  /\ left' = [left EXCEPT !.losses = @ - 1]
  /\ LinkDown(c)
  /\ status' = Failing(c)
  /\ UNCHANGED <<room, host, toHost, holder, tries, cooling, via, sentOn,
                 orphans, nudges>>

(* RpcClient::call: the call is registered and its frame sent; on a link
   that is down meanwhile the send fails with Closed.                     *)
Send(k) ==
  /\ status[k] = "ready"
  /\ IF link[via[k]] = "open"
       THEN /\ status' = [status EXCEPT ![k] = "pending"]
            /\ FromClient(via[k], k)
            /\ sentOn' = [sentOn EXCEPT ![k] = LiveHost({})]
       ELSE /\ status' = [status EXCEPT ![k] = "closed"]
            /\ UNCHANGED <<toHost, down, sentOn>>
  /\ UNCHANGED <<room, host, link, cached, holder, tries, cooling, via, orphans,
                 nudges, left>>

(* `forward`, after a call failed with Closed: whatever link is cached by
   now is dropped, and dropping it ends it.                               *)
Invalidate(k) ==
  /\ status[k] = "closed"
  /\ LET c == cached[By[k]]
     IN  IF c = NoConn
           THEN /\ status' = [status EXCEPT ![k] = "failed"]
                /\ UNCHANGED <<link, cached, down>>
           ELSE /\ LinkDown(c)
                /\ status' = [Failing(c) EXCEPT ![k] = "failed"]
  /\ UNCHANGED <<room, host, toHost, holder, tries, cooling, via, sentOn,
                 orphans, nudges, left>>

(* The backoff ends, or a presence heartbeat, a wake or new credentials
   clear it.                                                              *)
CoolOff(b) ==
  /\ b \in cooling
  /\ cooling' = cooling \ {b}
  /\ UNCHANGED <<room, host, toHost, down, link, cached, holder, tries, status,
                 via, sentOn, orphans, nudges, left>>

---------------------------------------------------------------------------
HostStep == HostJoin \/ LeaseEnds \/ HostTakes \/ (\E r \in running : Reply(r))

CallerStep ==
  \/ \E k \in Calls : TakeLock(k) \/ Send(k) \/ Invalidate(k)
  \/ \E b \in Callers : Dial(b) \/ GiveUp(b)
  \/ \E c \in Conns : ClientTakes(c) \/ ProbeTimeout(c)

(* The room hears of a socket whose other end closed it; of one that died
   silently it may hear at any time, or never.                            *)
RoomStep ==
  \/ \E s \in Sessions \ broken : HostClosed(s)
  \/ \E c \in Conns : ClientClosed(c)

Fault ==
  \/ Cut \/ HostLeaves
  \/ \E s \in broken : HostClosed(s)
  \/ \E c \in Conns : LinkLost(c)

Other ==
  \/ \E s \in Sessions : Age(s)
  \/ \E h \in Chats : Nudge(h)
  \/ \E k \in Calls : Ask(k)
  \/ \E b \in Callers : CoolOff(b)

Next == HostStep \/ CallerStep \/ RoomStep \/ Fault \/ Other

Spec == Init /\ [][Next]_vars

(* The supervisor, the sockets' readers, the timers and the room's close
   events of sockets that were closed all run on their own; faults,
   silently dead sockets, nudges and new calls are promised nothing.      *)
FairSpec == Spec /\ WF_vars(HostStep) /\ WF_vars(CallerStep) /\ WF_vars(RoomStep)

---------------------------------------------------------------------------
(* Properties                                                              *)

(* Every variable has its type: frames, links, calls and the dial lock.   *)
TypeOK ==
  /\ listed \subseteq Sessions /\ fresh \subseteq listed
  /\ queue \in Seq(Chats) /\ Len(queue) <= MaxPending /\ IsInjective(queue)
  /\ members \subseteq Conns /\ servers \subseteq Conns
  /\ session \in 0 .. last /\ last <= MaxSessions /\ broken \subseteq 1 .. last
  /\ \A r \in running : r[1] \in servers /\ r[2] \in {NoCall} \cup Calls
  /\ \A s \in Sessions : s # session => toHost[s] = <<>>
  /\ link \in [Conns -> {"none", "probing", "open", "closed"}]
  /\ cached \in [Callers -> Conns \cup {NoConn}]
  /\ holder \in [Callers -> Calls \cup {NoCall}] /\ cooling \subseteq Callers
  /\ tries \in [Callers -> 0 .. MaxDials]
  /\ status \in [Calls -> {"idle", "wants", "ready", "pending", "closed",
                          "answered", "failed"}]
  /\ \A k \in Calls : status[k] = "pending" => link[via[k]] = "open"

(* No server outlives its client: a virtual connection the host serves
   (with its terminals and streams) belongs to a client the room still
   lists, or the word that the client is gone is on its way to it, or the
   host's socket is dead and takes them all with it
   (device-room.ts webSocketClose and the client_gone bounce).            *)
ServersReaped ==
  \A c \in servers :
    \/ c \in members \/ session \in broken
    \/ \E i \in DOMAIN toHost[session] : toHost[session][i] = GoneFrame(c)

(* A client whose device has no host socket left has been told so: no
   open link, and no dial, waits on a room with nobody behind it
   (webSocketClose's host_closed and the host_offline bounce).            *)
OfflineTold ==
  listed = {} =>
    \A c \in members :
      link[c] \in {"probing", "open"} =>
        \E i \in DOMAIN down[c] : down[c][i] = LinkNotice

(* A nudged chat the host has not opened is queued in the room or on the
   wire of a session that is up; the only nudges lost are those put on a
   socket that died, or dropped from a full queue.                        *)
NudgeAccounted ==
  \A h \in due :
    h \in Range(queue) \cup swallowed \/ (session # 0 /\ h \in NudgesInFlight(session))

(* "Durable: queued in the DO while the host is offline, replayed on its
   next join, so a command sent to a chat the host hasn't warm-opened is
   never stranded" (device-room.ts): unless the queue overflowed, the
   nudge is queued, on its way or has been handled.                       *)
NeverStranded ==
  \A h \in due : h \in Range(queue) \/ (session # 0 /\ h \in NudgesInFlight(session))

(* While the host's socket is up every request is routed to it, never to
   the corpse of an earlier one and never bounced: what picking the first
   listed socket got wrong (comment on HOST_LIVENESS_MS).                 *)
NeverPinned ==
  [][\A k \in Calls : (status[k] = "ready" /\ status'[k] = "pending" /\ Reaches(session))
                         => sentOn'[k] = session]_vars

(* A call whose session went away behind its back: with the successor
   already in place nobody tells the client, and the close of a silently
   dead socket may never come.                                            *)
Unheard(k) ==
  k \in orphans \/ (sentOn[k] \in listed /\ sentOn[k] \in broken)

Over(k) == status[k] \in {"answered", "failed"}

(* Every call comes to an end, through dials, probes, cooldown, the
   losses of either socket and the restarts of the host, except for those
   whose session was replaced or died unheard (RpcClient::call has no
   timeout of its own).                                                   *)
Settles == \A k \in Calls : status[k] # "idle" ~> (Over(k) \/ Unheard(k))

(* The device comes back: once the faults cease its newest session is up
   and is the one the room routes to.                                     *)
ComesBack == <>[](session # 0 /\ session \notin broken /\ LiveHost({}) = session)
=============================================================================
