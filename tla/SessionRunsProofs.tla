------------------------- MODULE SessionRunsProofs --------------------------
(***************************************************************************)
(* Proofs about the runs of a chat, for any number of messages, runs,      *)
(* crashes and faults.  Every interleaving of the code is in: the theorems *)
(* say which windows have to be gone through before a property can fail.   *)
(* RunsInMap, StatusBacked and AwaitingAnswerable hold until a dispatch    *)
(* overtakes another one or a run outlives the wait of an interrupt,       *)
(* StreamsSettle until, besides, a command runs while boot recovery looks  *)
(* at the chat, and SteerKept until, besides the first two, steers are     *)
(* entered in another order than they are sent or a caller looks for its   *)
(* run between the claim of its ledger and its removal.  Nothing is said   *)
(* of what happens after that; what a window costs, the runs of TLC show.  *)
(*                                                                         *)
(* None of them is inductive.  A dispatch replaces a run in three steps, so*)
(* RunsInMap needs to know what each caller between them may rely on:      *)
(* the map is empty once the old run has settled, and no second caller is  *)
(* between the steps.  That there is one run is then what keeps the        *)
(* journal honest: the end of a turn closes it for the only run that can   *)
(* have an open entry in the transcript.  Delivery rests on the ledger of  *)
(* the live run following its agent: what is confirmed at a boundary is    *)
(* the oldest entry, and the agent has begun that message (Aligned).       *)
(***************************************************************************)
EXTENDS SessionRuns, SequenceTheorems, FiniteSetTheorems, TLAPS

\* So far no caller overtook one that was about to insert a run, and every interrupted
\* run was gone within the wait of its caller.
Settling == Unraced({"insert", "slow"})

\* So far no command ran between boot recovery's look for a live run and its work.
Recovering == "boot" \notin raced

\* So far no steer was sent while another one was not in the ledger yet.
Ordered == "order" \notin raced

\* So far no caller looked for its run between the claim of its ledger and its removal.
Claimed == "claim" \notin raced

Busy    == {"starting", "turn", "parked", "leaving"}
Owning  == {"stop", "wait", "fresh"}   \* of a caller that is to insert a run
Seeking == Owning \cup {"look"}

\* What the proofs need of a run.
RunShape(d) ==
    /\ "phase" \in DOMAIN d /\ "text" \in DOMAIN d /\ "final" \in DOMAIN d
    /\ d.final \in {"idle", "errored"}

CallShape(c) ==
    /\ "pc" \in DOMAIN c /\ "run" \in DOMAIN c /\ "msgs" \in DOMAIN c
    /\ "kind" \in DOMAIN c /\ "retry" \in DOMAIN c
    /\ c.pc \in {"sent", "logged"} => c.run \in RunIds

Shape ==
    /\ live \in 0..MaxRuns /\ started \in Nat
    /\ DOMAIN run = RunIds /\ \A r \in RunIds : RunShape(run[r])
    /\ DOMAIN call = Callers /\ \A p \in Callers : CallShape(call[p])

\* What a caller that replaces a run may rely on.
Handover ==
    /\ \A p, q \in Callers : call[p].pc \in Owning /\ call[q].pc \in Owning => p = q
    /\ \A p \in Callers :
          /\ call[p].pc = "fresh" => live = 0
          /\ call[p].pc = "wait" => live \in {0, call[p].run}

\* A busy status without a run is backed by a caller that looks for one.
Backed ==
    status \in {"working", "awaiting"} =>
        live # 0 \/ \E p \in Callers : call[p].pc \in Seeking

\* Before recovery is done nothing runs.
Asleep ==
    boot \in {"down", "scan"} =>
        /\ \A r \in RunIds : run[r].phase \notin Busy
        /\ \A p \in Callers : call[p].pc \in {"idle", "done"}

\* Output in a turn has opened the journal; an open entry is of such a turn.
Journalled ==
    /\ \A r \in RunIds : run[r].phase \in {"starting", "turn"} /\ run[r].text => journal = "open"
    /\ \A r \in writing :
          /\ r \in RunIds /\ journal = "open"
          /\ (run[r].phase = "turn" /\ run[r].text) \/ boot \in {"down", "scan"}

IInv == Shape /\ InMap /\ Handover /\ Backed
SInv == IInv /\ Asleep /\ Journalled

-----------------------------------------------------------------------------
(* What was raced stays so. *)

LEMMA RacedGrows == [Next]_vars => raced \subseteq raced'
  <1> SUFFICES ASSUME [Next]_vars PROVE raced \subseteq raced'
    OBVIOUS
  <1>1. CASE UNCHANGED vars
    BY <1>1 DEF vars
  <1>2. ASSUME NEW m \in Msgs, Issue(m) PROVE raced \subseteq raced'
    BY <1>2 DEF Issue, Through
  <1>3. ASSUME NEW p \in Callers, CallStep(p) PROVE raced \subseteq raced'
    <2>1. CASE Send(p)  BY <2>1 DEF Send, Through
    <2>2. CASE Refused(p)  BY <2>2 DEF Refused, Through
    <2>3. CASE Check(p)  BY <2>3 DEF Check, Through
    <2>4. CASE Settle(p)  BY <2>4 DEF Settle, Through
    <2>5. CASE Log(p) \/ Stop(p) \/ Launch(p)  BY <2>5 DEF Log, Stop, Launch
    <2> QED BY <1>3, <2>1, <2>2, <2>3, <2>4, <2>5 DEF CallStep
  <1>4. ASSUME NEW r \in RunIds, AgentStep(r) \/ AgentFault(r) PROVE raced' = raced
    BY <1>4 DEF AgentStep, AgentFault, Begin, Turn, EndTurn, Speak, Ask, Die, Wake, Forget
  <1>5. ASSUME NEW r \in RunIds, RunTask(r) PROVE raced' = raced
    BY <1>5 DEF RunTask, Spawn, NoStart, SeeCancel, Deadline, Bridge, ReadStarted, ReadText,
                ReadSteered, ReadDone, ReadEnd, Flush, Quiesce, GateOpens, Reap, Leave, DoneFrame
  <1>6. CASE Interrupt \/ RespondInput \/ Crash \/ Boot \/ Recover \/ Revive
    BY <1>6 DEF Interrupt, RespondInput, Crash, Boot, Recover, Revive
  <1>7. CASE Next
    BY <1>2, <1>3, <1>4, <1>5, <1>6, <1>7 DEF Next
  <1> QED BY <1>1, <1>7

(* A step after which none of some windows was gone through comes after none was. *)
LEMMA StillUnraced ==
    ASSUME NEW windows, [Next]_vars, Unraced(windows)'
    PROVE  Unraced(windows)
  BY RacedGrows DEF Unraced

-----------------------------------------------------------------------------
(* Steps that start no run. *)

NoneStarts ==
    /\ started' = started
    /\ DOMAIN run' = RunIds
    /\ \A q \in RunIds : RunShape(run'[q]) /\ (run'[q].phase \in Busy => run[q].phase \in Busy)

(* A step of a run task or an agent that leaves the run in the map and the
   callers alone. *)
LEMMA WorkStep ==
    ASSUME IInv, NoneStarts, UNCHANGED <<live, call>>,
           status' = status \/ live # 0 \/ status' \notin {"working", "awaiting"}
    PROVE  IInv'
  BY DEF IInv, NoneStarts, Shape, InMap, Handover, Backed, Busy

(* The removal of a run, with what it hands on. *)
LEMMA GoneStep ==
    ASSUME IInv, NEW r \in RunIds, NEW d, NEW st, NEW next, NEW again,
           Gone(r, d, st, next, again), UNCHANGED started,
           run[r].phase \in Busy, RunShape(d),
           st \notin {"working", "awaiting"} \/ next # <<>>
    PROVE  IInv'
  <1> USE DEF IInv
  <1> DEFINE e == [d EXCEPT !.phase = "ended", !.agent = "down", !.box = <<>>,
                            !.stream = <<>>, !.bus = <<>>, !.pending = FALSE]
  <1>1. RunShape(e) /\ e.phase = "ended"
    BY DEF RunShape
  <1>2. run' = [run EXCEPT ![r] = e] /\ live' = 0 /\ live = r
    BY DEF Gone, Owns, InMap, Busy
  <1> HIDE DEF e
  <1>3. r \in Callers /\ r # 0
    BY RunsAssumption DEF Callers, RunIds
  <1>4. CallShape(Dispatch(next, again)) /\ Dispatch(next, again).pc = "look"
    BY DEF Dispatch, NoCall, CallShape
  <1>5. /\ DOMAIN call' = Callers
        /\ \A p \in Callers : call'[p] = call[p] \/ (p = r /\ call'[p] = Dispatch(next, again))
        /\ next # <<>> => call'[r] = Dispatch(next, again)
    BY <1>3 DEF Gone, Shape
  <1>6. Shape'
    BY <1>1, <1>2, <1>4, <1>5, RunsAssumption DEF Shape, RunIds
  <1>7. InMap'
    BY <1>1, <1>2 DEF InMap, Shape
  <1>8. Handover'
    BY <1>2, <1>4, <1>5 DEF Handover, Owning
  <1>9. Backed'
    BY <1>2, <1>3, <1>4, <1>5 DEF Backed, Seeking, Gone
  <1> QED BY <1>6, <1>7, <1>8, <1>9

-----------------------------------------------------------------------------
(* The agent and the user. *)

LEMMA AgentSteps ==
    ASSUME IInv, NEW r \in RunIds, AgentStep(r) \/ AgentFault(r)
    PROVE  IInv'
  <1>1. NoneStarts /\ UNCHANGED <<live, call, status>>
    <2> USE DEF IInv, Shape, RunShape, NoneStarts
    <2>1. CASE Begin(r)  BY <2>1 DEF Begin, record
    <2>2. CASE Turn(r)  BY <2>2 DEF Turn, record
    <2>3. CASE EndTurn(r)  BY <2>3 DEF EndTurn, record
    <2>4. CASE Speak(r)  BY <2>4 DEF Speak, record
    <2>5. CASE Ask(r)  BY <2>5 DEF Ask, record
    <2>6. CASE Die(r)  BY <2>6 DEF Die, record
    <2>7. CASE Wake(r)  BY <2>7 DEF Wake, record
    <2>8. CASE Forget(r)  BY <2>8 DEF Forget, record
    <2> QED BY <2>1, <2>2, <2>3, <2>4, <2>5, <2>6, <2>7, <2>8 DEF AgentStep, AgentFault
  <1> QED BY <1>1, WorkStep

LEMMA UserSteps ==
    ASSUME IInv, Interrupt \/ RespondInput
    PROVE  IInv'
  <1>1. live \in RunIds
    BY RunsAssumption DEF IInv, Shape, Interrupt, RespondInput, RunIds
  <1>2. NoneStarts /\ UNCHANGED <<live, call, status>>
    <2> USE <1>1 DEF IInv, Shape, RunShape, NoneStarts
    <2>1. CASE Interrupt  BY <2>1 DEF Interrupt, Cancelled, record
    <2>2. CASE RespondInput  BY <2>2 DEF RespondInput, record
    <2> QED BY <2>1, <2>2
  <1> QED BY <1>2, WorkStep

-----------------------------------------------------------------------------
(* The run task. *)

LEMMA ClaimStep ==
    ASSUME IInv, NEW r \in RunIds, NEW d, NEW st, Claim(r, d, st), UNCHANGED started,
           run[r].phase \in Busy, RunShape(d), st \in {"idle", "errored"}
    PROVE  IInv'
  <1>1. NoneStarts
    BY DEF Claim, IInv, Shape, RunShape, NoneStarts
  <1> QED BY <1>1, WorkStep DEF Claim

LEMMA DoneStep ==
    ASSUME IInv, NEW r \in RunIds, NEW d, NEW kind, Done(r, d, kind), UNCHANGED started,
           InLoop(r), RunShape(d)
    PROVE  IInv'
  <1>1. run[r].phase \in Busy
    BY DEF InLoop, Busy
  <1>2. RunShape(Unasked(r, d))
    BY DEF RunShape, Unasked
  <1>3. CASE \E again : Gone(r, d, status, <<d.first>>, again)
    BY <1>1, <1>3, GoneStep
  <1>4. CASE Complete(r, Unasked(r, d))
    <2>1. NoneStarts /\ UNCHANGED <<live, call>> /\ status' = "idle"
      BY <1>1, <1>2, <1>4 DEF Complete, Park, IInv, Shape, RunShape, NoneStarts, Busy
    <2> QED BY <2>1, WorkStep
  <1>5. CASE \E st \in {"idle", "errored"} : Claim(r, Unasked(r, d), st)
    BY <1>1, <1>2, <1>5, ClaimStep
  <1> QED BY <1>3, <1>4, <1>5 DEF Done

LEMMA RunTasks ==
    ASSUME IInv, NEW r \in RunIds, RunTask(r)
    PROVE  IInv'
  <1>1. RunShape(run[r]) /\ RunShape(Popped(r))
    BY DEF IInv, Shape, RunShape, Popped
  <1>2. CASE Spawn(r) \/ SeeCancel(r) \/ Flush(r) \/ GateOpens(r)
    <2>1. NoneStarts /\ UNCHANGED <<live, call, status>>
      BY <1>2 DEF Spawn, SeeCancel, Flush, GateOpens, IInv, Shape, RunShape, NoneStarts, Busy,
                  chat, record
    <2> QED BY <2>1, WorkStep
  <1>3. CASE NoStart(r)
    BY <1>1, <1>3, GoneStep DEF NoStart, Busy
  <1>4. CASE Deadline(r)
    BY <1>1, <1>4, DoneStep DEF Deadline, DoneFrame
  <1>5. CASE Bridge(r)
    <2>1. InLoop(r) /\ UNCHANGED <<live, call, started>>
      BY <1>5 DEF Bridge
    <2>2. \E d : RunShape(d) /\ d.phase = run[r].phase /\ run' = [run EXCEPT ![r] = d]
      BY <1>1, <1>5 DEF Bridge, RunShape
    <2>3. NoneStarts
      BY <2>1, <2>2 DEF IInv, Shape, NoneStarts
    <2>4. live # 0
      BY <2>1, RunsAssumption DEF InLoop, IInv, InMap, RunIds
    <2> QED BY <2>1, <2>3, <2>4, WorkStep
  <1>6. CASE ReadStarted(r) \/ ReadText(r) \/ ReadSteered(r)
    <2>1. InLoop(r) /\ UNCHANGED <<live, call, started>>
      BY <1>6 DEF ReadStarted, ReadText, ReadSteered, Reads, Next1
    <2>2. live # 0
      BY <2>1, RunsAssumption DEF InLoop, IInv, InMap, RunIds
    <2>3. \E d : RunShape(d) /\ run' = [run EXCEPT ![r] = d]
      <3>1. CASE ReadStarted(r)  BY <1>1, <3>1 DEF ReadStarted, RunShape
      <3>2. CASE ReadText(r)  BY <1>1, <3>2 DEF ReadText, RunShape
      <3>3. CASE ReadSteered(r)  BY <1>1, <3>3 DEF ReadSteered, RunShape
      <3> QED BY <1>6, <3>1, <3>2, <3>3
    <2>4. NoneStarts
      BY <2>1, <2>3 DEF IInv, Shape, NoneStarts, InLoop, Busy
    <2> QED BY <2>1, <2>2, <2>4, WorkStep
  <1>7. CASE ReadDone(r)
    BY <1>1, <1>7, DoneStep DEF ReadDone, Next1, DoneFrame
  <1>8. CASE ReadEnd(r)
    <2>1. InLoop(r) /\ run[r].phase \in Busy /\ UNCHANGED started
      BY <1>8 DEF ReadEnd, Next1, DoneFrame, InLoop, Busy
    <2> QED BY <1>1, <1>8, <2>1, ClaimStep, DoneStep DEF ReadEnd
  <1>9. CASE Quiesce(r)
    <2>1. NoneStarts /\ UNCHANGED <<live, call>> /\ status' = "idle"
      BY <1>1, <1>9 DEF Quiesce, Park, IInv, Shape, RunShape, NoneStarts, Busy
    <2> QED BY <2>1, WorkStep
  <1>10. CASE Reap(r)
    <2>1. run[r].phase \in Busy /\ RunShape([run[r] EXCEPT !.cancel = TRUE]) /\ UNCHANGED started
      BY <1>1, <1>10 DEF Reap, Busy, DoneFrame, RunShape
    <2> QED BY <1>10, <2>1, ClaimStep DEF Reap
  <1>11. CASE Leave(r)
    <2>1. RunShape([run[r] EXCEPT !.claim = <<>>]) /\ run[r].phase \in Busy /\ UNCHANGED started
      BY <1>1, <1>11 DEF RunShape, Leave, Busy
    <2>2. run[r].final \notin {"working", "awaiting"}
      BY <1>1 DEF RunShape
    <2> QED BY <1>11, <2>1, <2>2, GoneStep DEF Leave
  <1> QED BY <1>2, <1>3, <1>4, <1>5, <1>6, <1>7, <1>8, <1>9, <1>10, <1>11 DEF RunTask

-----------------------------------------------------------------------------
(* The callers. *)

(* A caller moves on and no run starts. *)
LEMMA CallerStep ==
    ASSUME IInv, NoneStarts, UNCHANGED live,
           NEW p \in Callers, NEW c, call' = [call EXCEPT ![p] = c], CallShape(c),
           c.pc \in Owning =>
              call[p].pc \in Owning \/ \A q \in Callers \ {p} : call[q].pc \notin Owning,
           c.pc = "fresh" => live = 0,
           c.pc = "wait" => live \in {0, c.run},
           \/ live # 0 \/ c.pc \in Seeking \/ status' \notin {"working", "awaiting"}
           \/ status' = status /\ call[p].pc \notin Seeking
    PROVE  IInv'
  <1> USE DEF IInv
  <1>1. DOMAIN call' = Callers /\ call'[p] = c /\ \A q \in Callers \ {p} : call'[q] = call[q]
    BY DEF Shape
  <1>2. Shape'
    BY <1>1 DEF Shape, NoneStarts
  <1>3. InMap'
    BY DEF InMap, NoneStarts, Busy, Shape
  <1>4. Handover'
    BY <1>1 DEF Handover
  <1>5. Backed'
    BY <1>1 DEF Backed
  <1> QED BY <1>2, <1>3, <1>4, <1>5

LEMMA ReturnedShape ==
    ASSUME NEW p \in Callers, CallShape(call[p])
    PROVE  CallShape(Returned(p)) /\ Returned(p).pc \in {"look", "done"}
  BY DEF CallShape, Returned, Dispatch, NoCall

LEMMA IssueStep ==
    ASSUME IInv, NEW m \in Msgs, Issue(m)
    PROVE  IInv'
  <1>1. m \in Callers /\ NoneStarts /\ UNCHANGED <<live, status>>
    BY DEF Issue, Callers, NoneStarts, IInv, Shape, record
  <1>2. PICK kind \in {"run", "steer"} :
            call' = [call EXCEPT ![m] = [Dispatch(<<m>>, FALSE) EXCEPT !.kind = kind]]
    BY DEF Issue
  <1> DEFINE c == [Dispatch(<<m>>, FALSE) EXCEPT !.kind = kind]
  <1>3. CallShape(c) /\ c.pc = "look"
    BY DEF CallShape, Dispatch, NoCall
  <1>4. call' = [call EXCEPT ![m] = c]
    BY <1>2
  <1> HIDE DEF c
  <1> QED BY <1>1, <1>3, <1>4, CallerStep DEF Owning, Seeking

LEMMA StartStep ==
    ASSUME IInv, NEW p \in Callers, Launch(p)
    PROVE  IInv'
  <1> USE DEF IInv
  <1> DEFINE n == started + 1
             d == NewRun(Head(call[p].msgs), call[p].retry, known)
  <1>1. n \in RunIds /\ n # 0 /\ live = 0 /\ call[p].pc = "fresh"
    BY RunsAssumption DEF Launch, Shape, Handover, RunIds
  <1>2. RunShape(d)
    BY DEF RunShape, NewRun
  <1>3. /\ live' = n /\ started' = n /\ status' = "working"
        /\ run' = [run EXCEPT ![n] = d] /\ call' = [call EXCEPT ![p] = Returned(p)]
    BY DEF Launch
  <1>4. CallShape(Returned(p)) /\ Returned(p).pc \notin Owning \cup {"sent", "logged"}
    BY ReturnedShape DEF Shape, Owning
  <1> HIDE DEF n, d
  <1>5. /\ DOMAIN call' = Callers /\ call'[p] = Returned(p)
        /\ \A q \in Callers \ {p} : call'[q] = call[q]
    BY <1>3 DEF Shape
  <1>6. Shape'
    BY <1>1, <1>2, <1>3, <1>4, <1>5 DEF Shape, RunIds
  <1>7. InMap'
    BY <1>1, <1>3, RunsAssumption DEF InMap, Shape, RunIds
  <1>8. Handover'
    BY <1>1, <1>4, <1>5 DEF Handover, Owning
  <1>9. Backed'
    BY <1>1, <1>3 DEF Backed
  <1> QED BY <1>6, <1>7, <1>8, <1>9

LEMMA CallSteps ==
    ASSUME IInv, Settling', NEW p \in Callers, CallStep(p)
    PROVE  IInv'
  <1> USE DEF IInv
  <1>1. CallShape(call[p])
    BY DEF Shape
  <1>2. Alone(p) => \A q \in Callers \ {p} : call[q].pc \notin Owning
    BY DEF Alone, Owning
  <1>3. UNCHANGED <<started, run>> => NoneStarts
    BY DEF NoneStarts, Shape
  <1>4. CASE Send(p)
    <2> DEFINE c == [call[p] EXCEPT !.pc = "sent", !.run = live]
    <2>1. live \in RunIds /\ live # 0
      BY <1>4, RunsAssumption DEF Send, Shape, RunIds
    <2>2. NoneStarts /\ UNCHANGED live
      BY <1>4, <2>1 DEF Send, NoneStarts, Shape, RunShape
    <2>3. CallShape(c) /\ c.pc = "sent" /\ call' = [call EXCEPT ![p] = c]
      BY <1>1, <1>4, <2>1 DEF Send, CallShape, Shape
    <2> HIDE DEF c
    <2> QED BY <2>1, <2>2, <2>3, CallerStep DEF Owning
  <1>5. CASE Refused(p)
    <2>1. NoneStarts /\ UNCHANGED <<live, status>>
      BY <1>3, <1>5 DEF Refused, record
    <2>2. CASE call[p].kind = "steer" /\ call' = [call EXCEPT ![p].kind = "run"]
      <3> DEFINE c == [call[p] EXCEPT !.kind = "run"]
      <3>1. CallShape(c) /\ c.pc = "look" /\ call' = [call EXCEPT ![p] = c]
        BY <1>1, <1>5, <2>2 DEF Refused, CallShape, Shape
      <3> HIDE DEF c
      <3> QED BY <2>1, <3>1, CallerStep DEF Owning, Seeking
    <2>3. CASE /\ Alone(p)
               /\ call' = [call EXCEPT ![p].pc = IF live = 0 THEN "fresh" ELSE "stop"]
      <3> DEFINE c == [call[p] EXCEPT !.pc = IF live = 0 THEN "fresh" ELSE "stop"]
      <3>1. /\ CallShape(c) /\ call' = [call EXCEPT ![p] = c]
            /\ c.pc \in {"fresh", "stop"} /\ (c.pc = "fresh" => live = 0)
        BY <1>1, <2>3 DEF CallShape, Shape
      <3> HIDE DEF c
      <3> QED BY <1>2, <2>1, <2>3, <3>1, CallerStep DEF Owning, Seeking
    <2> QED BY <1>5, <2>2, <2>3 DEF Refused, Through, Settling, Unraced
  <1>6. CASE Log(p)
    <2> DEFINE c == [call[p] EXCEPT !.pc = "logged"]
    <2>1. NoneStarts /\ UNCHANGED <<live, status>>
      BY <1>1, <1>6 DEF Log, NoneStarts, Shape, RunShape, CallShape
    <2>2. CallShape(c) /\ c.pc = "logged" /\ call' = [call EXCEPT ![p] = c] /\ call[p].pc = "sent"
      BY <1>1, <1>6 DEF Log, CallShape, Shape
    <2> HIDE DEF c
    <2> QED BY <2>1, <2>2, CallerStep DEF Owning, Seeking
  <1>7. CASE Check(p)
    <2> DEFINE r == call[p].run
               m == Head(call[p].msgs)
               c == [call[p] EXCEPT !.pc = IF call[p].kind = "steer" THEN "look" ELSE "stop",
                                    !.kind = "run"]
    <2>1. r \in RunIds /\ r # 0 /\ UNCHANGED <<live, started>> /\ call[p].pc = "logged"
      BY <1>1, <1>7, RunsAssumption DEF Check, CallShape, RunIds
    <2>2. CASE /\ live = r /\ status' = "working"
               /\ call' = [call EXCEPT ![p] = Returned(p)] /\ UNCHANGED run
      <3>1. CallShape(Returned(p)) /\ Returned(p).pc \notin Owning
        BY <1>1, ReturnedShape DEF Owning
      <3>2. Returned(p).pc \in {"look", "done"} /\ live # 0 /\ NoneStarts
        BY <1>1, <1>3, <2>1, <2>2, ReturnedShape
      <3> QED BY <2>1, <2>2, <3>1, <3>2, CallerStep
    <2>3. CASE /\ call[p].kind = "steer" \/ Alone(p)
               /\ \E l : run' = [run EXCEPT ![r].ledger = l]
               /\ call' = [call EXCEPT ![p] = c] /\ UNCHANGED status
      <3>1. NoneStarts
        BY <2>1, <2>3 DEF NoneStarts, Shape, RunShape
      <3>2. CallShape(c) /\ c.pc = IF call[p].kind = "steer" THEN "look" ELSE "stop"
        BY <1>1 DEF CallShape
      <3> HIDE DEF c
      <3> QED BY <1>2, <2>1, <2>3, <3>1, <3>2, CallerStep DEF Seeking, Owning
    <2>4. CASE /\ call' = [call EXCEPT ![p] = Returned(p)] /\ UNCHANGED <<run, status>>
      <3>1. CallShape(Returned(p)) /\ Returned(p).pc \in {"look", "done"}
        BY <1>1, ReturnedShape
      <3> QED BY <1>3, <2>1, <2>4, <3>1, CallerStep DEF Seeking, Owning
    <2> QED
      <3>1. /\ call' = [call EXCEPT ![p].pc = IF call[p].kind = "steer" THEN "look" ELSE "stop",
                                    ![p].kind = "run"]
            => call' = [call EXCEPT ![p] = c]
        BY DEF Shape
      <3> QED BY <1>7, <2>2, <2>3, <2>4, <3>1 DEF Check, Through, Settling, Unraced
  <1>8. CASE Stop(p)
    <2>1. CASE live = 0
      <3> DEFINE c == [call[p] EXCEPT !.pc = "fresh"]
      <3>1. NoneStarts /\ UNCHANGED <<live, status>>
        BY <1>3, <1>8, <2>1 DEF Stop, record
      <3>2. CallShape(c) /\ c.pc = "fresh" /\ call' = [call EXCEPT ![p] = c] /\ call[p].pc = "stop"
        BY <1>1, <1>8, <2>1 DEF Stop, CallShape, Shape
      <3> HIDE DEF c
      <3> QED BY <2>1, <3>1, <3>2, CallerStep DEF Owning, Seeking
    <2>2. CASE live # 0
      <3> DEFINE c == [call[p] EXCEPT !.pc = "wait", !.run = live]
      <3>1. NoneStarts /\ UNCHANGED <<live, status>>
        <4>1. live \in RunIds
          BY <2>2, RunsAssumption DEF Shape, RunIds
        <4>2. /\ run' = [run EXCEPT ![live] = Cancelled(run[live])]
              /\ UNCHANGED <<live, status, started>>
          BY <1>8, <2>2 DEF Stop, record
        <4>3. RunShape(Cancelled(run[live])) /\ Cancelled(run[live]).phase = run[live].phase
          BY <4>1 DEF Shape, RunShape, Cancelled
        <4> QED BY <4>1, <4>2, <4>3 DEF NoneStarts, Shape
      <3>2. /\ CallShape(c) /\ c.pc = "wait" /\ c.run = live
            /\ call' = [call EXCEPT ![p] = c] /\ call[p].pc = "stop"
        BY <1>1, <1>8, <2>2 DEF Stop, CallShape, Shape
      <3> HIDE DEF c
      <3> QED BY <2>2, <3>1, <3>2, CallerStep DEF Owning, Seeking
    <2> QED BY <2>1, <2>2
  <1>9. CASE Settle(p)
    <2> DEFINE c == [call[p] EXCEPT !.pc = "fresh"]
    <2>1. NoneStarts /\ UNCHANGED <<live, status>>
      BY <1>3, <1>9 DEF Settle, record
    <2>2. live = 0
      BY <1>9 DEF Settle, Through, Settling, Unraced, Handover
    <2>3. CallShape(c) /\ c.pc = "fresh" /\ call' = [call EXCEPT ![p] = c] /\ call[p].pc = "wait"
      BY <1>1, <1>9 DEF Settle, CallShape, Shape
    <2> HIDE DEF c
    <2> QED BY <2>1, <2>2, <2>3, CallerStep DEF Owning, Seeking
  <1> QED BY <1>4, <1>5, <1>6, <1>7, <1>8, <1>9, StartStep DEF CallStep

-----------------------------------------------------------------------------
(* Crash and recovery. *)

LEMMA CrashStep ==
    ASSUME IInv, Crash
    PROVE  /\ IInv' /\ Asleep'
           /\ \A r \in RunIds : run'[r].phase \in {"unborn", "ended"} /\ ~run'[r].text
  <1>1. /\ live' = 0 /\ UNCHANGED started /\ status' = "none" /\ boot' = "down"
        /\ DOMAIN run' = RunIds /\ DOMAIN call' = Callers
    BY DEF Crash
  <1>2. RunShape(Unborn) /\ Unborn.phase = "unborn" /\ ~Unborn.text
    BY DEF RunShape, Unborn, NewRun
  <1>3. \A r \in RunIds :
           RunShape(run'[r]) /\ run'[r].phase \in {"unborn", "ended"} /\ ~run'[r].text
    BY <1>2 DEF Crash, RunShape
  <1>4. \A p \in Callers : CallShape(call'[p]) /\ call'[p].pc \in {"idle", "done"}
    BY DEF Crash, CallShape, NoCall
  <1>5. Shape'
    BY <1>1, <1>3, <1>4, RunsAssumption DEF Shape, IInv
  <1>6. InMap' /\ Handover' /\ Backed' /\ Asleep'
    BY <1>1, <1>3, <1>4 DEF InMap, Handover, Backed, Asleep, Busy, Owning
  <1> QED BY <1>3, <1>5, <1>6 DEF IInv

LEMMA BootSteps ==
    ASSUME IInv, Boot \/ Recover \/ Revive
    PROVE  IInv'
  <1>1. 0 \in Callers
    BY RunsAssumption DEF Callers
  <1>2. NoneStarts /\ UNCHANGED <<live, run>>
    BY DEF IInv, Shape, NoneStarts, Boot, Recover, Revive, chat, record
  <1>3. CASE UNCHANGED call /\ (UNCHANGED status \/ status' = "idle")
    BY <1>2, <1>3, WorkStep
  <1>4. CASE \E l : call' = [call EXCEPT ![0].msgs = l] /\ status' = "idle"
    <2> PICK l : call' = [call EXCEPT ![0].msgs = l]
      BY <1>4
    <2> DEFINE c == [call[0] EXCEPT !.msgs = l]
    <2>1. /\ call' = [call EXCEPT ![0] = c] /\ CallShape(c)
          /\ c.pc = call[0].pc /\ c.run = call[0].run
      BY <1>1 DEF IInv, Shape, CallShape
    <2> HIDE DEF c
    <2> QED BY <1>1, <1>2, <1>4, <2>1, CallerStep DEF IInv, Handover
  <1>5. CASE Revive
    <2> DEFINE c == Dispatch(call[0].msgs, FALSE)
    <2>1. call' = [call EXCEPT ![0] = c] /\ CallShape(c) /\ c.pc = "look" /\ UNCHANGED status
      BY <1>1, <1>5 DEF Revive, IInv, Shape, CallShape, Dispatch, NoCall
    <2> HIDE DEF c
    <2> QED BY <1>1, <1>2, <2>1, CallerStep DEF Seeking, Owning
  <1>6. CASE Boot
    BY <1>3, <1>6 DEF Boot, chat, record
  <1>7. CASE Recover
    BY <1>3, <1>4, <1>7 DEF Recover
  <1> QED BY <1>5, <1>6, <1>7

-----------------------------------------------------------------------------
(* One runtime, backed by a run. *)

LEMMA RunsInit == Init => IInv
  <1> SUFFICES ASSUME Init PROVE IInv
    OBVIOUS
  <1>1. RunShape(Unborn) /\ Unborn.phase = "unborn"
    BY DEF RunShape, Unborn, NewRun
  <1>2. CallShape(NoCall) /\ NoCall.pc = "idle"
    BY DEF CallShape, NoCall
  <1>3. Shape
    BY <1>1, <1>2, RunsAssumption DEF Init, Shape
  <1>4. InMap /\ Handover /\ Backed
    BY <1>1, <1>2 DEF Init, InMap, Handover, Backed, Owning
  <1> QED BY <1>3, <1>4 DEF IInv

LEMMA RunsStep ==
    ASSUME IInv, [Next]_vars, Settling'
    PROVE  IInv'
  <1>1. CASE UNCHANGED vars
    BY <1>1 DEF vars, chat, record, IInv, Shape, InMap, Handover, Backed
  <1>2. CASE Next
    BY <1>2, IssueStep, CallSteps, AgentSteps, RunTasks, UserSteps, CrashStep, BootSteps DEF Next
  <1> QED BY <1>1, <1>2

(* The invariant of the theorems below holds in every behaviour. *)
THEOREM RunsInvariant == Spec => [](Settling => IInv)
  <1>1. Init => (Settling => IInv)
    BY RunsInit
  <1>2. (Settling => IInv) /\ [Next]_vars => (Settling => IInv)'
    BY RunsStep, StillUnraced DEF Settling
  <1> QED BY <1>1, <1>2, PTL DEF Spec

(* A run that has not ended is the one in the map, whatever dies, is interrupted, handed
   on or recovered, until a caller overtakes another one between the lookup and the
   insert of dispatch, or a run outlives the wait of an interrupt. *)
THEOREM RunsInMapHolds == Spec => []RunsInMap
  <1>1. (Settling => IInv) => RunsInMap
    BY DEF IInv, Settling, RunsInMap
  <1> QED BY <1>1, RunsInvariant, PTL

(* A session shows Working or AwaitingInput only while a run, or a caller that
   will find or start one, is behind it (set_status in drive_run). *)
THEOREM StatusBackedHolds == Spec => []StatusBacked
  <1>1. (Settling => IInv) => StatusBacked
    BY DEF IInv, Backed, Settling, StatusBacked, Seeking, Owning
  <1> QED BY <1>1, RunsInvariant, PTL

-----------------------------------------------------------------------------
(* The journal and the open entries of the transcript. *)

(* The journal stays or is opened. *)
LEMMA OpenStep ==
    ASSUME SInv, UNCHANGED boot, journal' = journal \/ journal' = "open",
           \A q \in RunIds : run'[q].phase \in {"starting", "turn"} /\ run'[q].text =>
              journal' = "open" \/ (run[q].phase \in {"starting", "turn"} /\ run[q].text),
           \A q \in writing' :
              /\ q \in RunIds
              /\ q \in writing \/ journal' = "open"
              /\ \/ run'[q].phase = "turn" /\ run'[q].text
                 \/ q \in writing /\ ~(run[q].phase = "turn" /\ run[q].text)
    PROVE  Journalled'
  BY DEF SInv, Journalled

(* The run that ends its turn is the only one that can have an open entry. *)
LEMMA CloseStep ==
    ASSUME SInv, UNCHANGED boot, NEW r \in RunIds, run[r].phase \in Busy,
           \A q \in RunIds \ {r} : run'[q] = run[q],
           run'[r].phase \notin {"starting", "turn"},
           writing' = writing \ {r} \/ (writing' = writing /\ run[r].phase # "turn")
    PROVE  Journalled'
  <1>1. boot \notin {"down", "scan"}
    BY DEF SInv, Asleep
  <1>2. \A q \in RunIds \ {r} : run[q].phase \notin {"starting", "turn"}
    BY DEF SInv, IInv, InMap, Busy
  <1>3. writing' = {}
    BY <1>1, <1>2 DEF SInv, Journalled
  <1> QED BY <1>2, <1>3 DEF Journalled

(* A step that leaves the phase of every run and its fold alone. *)
LEMMA SamePhase ==
    ASSUME SInv, UNCHANGED <<boot, writing>>, journal' = journal \/ journal' = "open",
           \A q \in RunIds : run'[q].phase = run[q].phase /\ run'[q].text = run[q].text
    PROVE  Journalled'
  BY OpenStep DEF SInv, Journalled

LEMMA AgentJournal ==
    ASSUME SInv, NEW r \in RunIds, AgentStep(r) \/ AgentFault(r)
    PROVE  Asleep' /\ Journalled'
  <1>1. /\ \A q \in RunIds : run'[q].phase = run[q].phase /\ run'[q].text = run[q].text
        /\ UNCHANGED <<boot, writing, journal, call>>
    <2> USE DEF SInv, IInv, Shape, RunShape
    <2>1. CASE Begin(r)  BY <2>1 DEF Begin, record
    <2>2. CASE Turn(r)  BY <2>2 DEF Turn, record
    <2>3. CASE EndTurn(r)  BY <2>3 DEF EndTurn, record
    <2>4. CASE Speak(r)  BY <2>4 DEF Speak, record
    <2>5. CASE Ask(r)  BY <2>5 DEF Ask, record
    <2>6. CASE Die(r)  BY <2>6 DEF Die, record
    <2>7. CASE Wake(r)  BY <2>7 DEF Wake, record
    <2>8. CASE Forget(r)  BY <2>8 DEF Forget, record
    <2> QED BY <2>1, <2>2, <2>3, <2>4, <2>5, <2>6, <2>7, <2>8 DEF AgentStep, AgentFault
  <1>2. Asleep'
    BY <1>1 DEF SInv, Asleep
  <1> QED BY <1>1, <1>2, SamePhase

LEMMA UserJournal ==
    ASSUME SInv, Interrupt \/ RespondInput
    PROVE  Asleep' /\ Journalled'
  <1>1. live \in RunIds
    BY RunsAssumption DEF SInv, IInv, Shape, Interrupt, RespondInput, RunIds
  <1>2. /\ \A q \in RunIds : run'[q].phase = run[q].phase /\ run'[q].text = run[q].text
        /\ UNCHANGED <<boot, writing, journal, call>>
    <2> USE <1>1 DEF SInv, IInv, Shape, RunShape
    <2>1. CASE Interrupt  BY <2>1 DEF Interrupt, Cancelled, record
    <2>2. CASE RespondInput  BY <2>2 DEF RespondInput, record
    <2> QED BY <2>1, <2>2
  <1>3. Asleep'
    BY <1>2 DEF SInv, Asleep
  <1> QED BY <1>2, <1>3, SamePhase

(* The callers touch a ledger, a mailbox, or start a run with an empty fold. *)
LEMMA CallJournal ==
    ASSUME SInv, NEW p \in Callers, CallStep(p)
    PROVE  Asleep' /\ Journalled'
  <1>1. /\ call[p].pc \notin {"idle", "done"}
        /\ UNCHANGED <<boot, writing, journal>>
    BY DEF CallStep, Send, Refused, Log, Check, Stop, Settle, Launch, record
  <1>2. Asleep'
    BY <1>1 DEF SInv, Asleep
  <1>3. \A q \in RunIds :
           \/ run'[q].phase = run[q].phase /\ run'[q].text = run[q].text
           \/ run'[q].phase = "starting" /\ ~run'[q].text /\ run[q].phase # "turn"
    <2> USE DEF SInv, IInv, Shape, RunShape
    <2>1. CASE UNCHANGED run
      BY <2>1
    <2>2. CASE \E r \in RunIds : \E l : \/ run' = [run EXCEPT ![r].box = l]
                                       \/ run' = [run EXCEPT ![r].ledger = l]
      BY <2>2
    <2>3. CASE Stop(p)
      <3>1. live # 0 => live \in RunIds
        BY RunsAssumption DEF RunIds
      <3>2. CASE live # 0
        <4>1. run' = [run EXCEPT ![live] = Cancelled(run[live])]
          BY <2>3, <3>2 DEF Stop
        <4>2. /\ Cancelled(run[live]).phase = run[live].phase
              /\ Cancelled(run[live]).text = run[live].text
          BY <3>1, <3>2 DEF Cancelled
        <4> QED BY <4>1, <4>2
      <3> QED BY <2>1, <2>3, <3>2 DEF Stop
    <2>4. CASE Launch(p)
      <3>1. started + 1 \in RunIds /\ live = 0
        BY <2>4, RunsAssumption DEF Launch, RunIds, Handover
      <3>2. \E d : d.phase = "starting" /\ ~d.text /\ run' = [run EXCEPT ![started + 1] = d]
        BY <2>4 DEF Launch, NewRun
      <3>3. run[started + 1].phase # "turn"
        BY <3>1, RunsAssumption DEF InMap, RunIds
      <3> QED BY <3>1, <3>2, <3>3
    <2>5. CASE Send(p)
      <3>1. live \in RunIds
        BY <2>5, RunsAssumption DEF Send, RunIds
      <3> QED BY <2>2, <2>5, <3>1 DEF Send
    <2>6. CASE Log(p)
      <3>1. \E r \in RunIds : \E l : run' = [run EXCEPT ![r].ledger = l]
        BY <2>6 DEF Log, CallShape
      <3> QED BY <2>2, <3>1
    <2>7. CASE Check(p)
      <3>1. UNCHANGED run \/ \E r \in RunIds : \E l : run' = [run EXCEPT ![r].ledger = l]
        BY <2>7 DEF Check, CallShape
      <3> QED BY <2>1, <2>2, <3>1
    <2> QED BY <2>1, <2>3, <2>4, <2>5, <2>6, <2>7 DEF CallStep, Refused, Settle
  <1>4. Journalled'
    <2>1. \A q \in RunIds : run[q].phase = "turn" =>
             run'[q].phase = "turn" /\ run'[q].text = run[q].text
      BY <1>3
    <2>2. \A q \in RunIds : run'[q].phase \in {"starting", "turn"} /\ run'[q].text =>
             run[q].phase \in {"starting", "turn"} /\ run[q].text
      BY <1>3
    <2> QED BY <1>1, <2>1, <2>2, OpenStep DEF SInv, Journalled
  <1> QED BY <1>2, <1>4

(* The end of a turn, of a run, or of a start. *)
LEMMA ExitJournal ==
    ASSUME SInv, UNCHANGED boot, NEW r \in RunIds, run[r].phase \in Busy,
           NEW d, run' = [run EXCEPT ![r] = d], d.phase \notin {"starting", "turn"},
           writing' = writing \ {r} \/ (writing' = writing /\ run[r].phase # "turn")
    PROVE  Journalled'
  <1>1. run'[r].phase \notin {"starting", "turn"} /\ \A q \in RunIds \ {r} : run'[q] = run[q]
    BY DEF SInv, IInv, Shape
  <1> QED BY <1>1, CloseStep

LEMMA GoneJournal ==
    ASSUME SInv, UNCHANGED boot, NEW r \in RunIds, run[r].phase \in Busy,
           NEW d, NEW st, NEW next, NEW again, Gone(r, d, st, next, again), RunShape(d),
           UNCHANGED writing, run[r].phase # "turn"
    PROVE  Journalled'
  <1>1. \E e : e.phase \notin {"starting", "turn"} /\ run' = [run EXCEPT ![r] = e]
    BY DEF Gone, RunShape
  <1> QED BY <1>1, ExitJournal

LEMMA ClaimJournal ==
    ASSUME SInv, UNCHANGED boot, NEW r \in RunIds, run[r].phase \in Busy,
           NEW d, NEW st, Claim(r, d, st), RunShape(d),
           writing' = writing \ {r} \/ (writing' = writing /\ run[r].phase # "turn")
    PROVE  Journalled'
  <1> DEFINE next == IF d.interrupted THEN <<>> ELSE Orphans(r, d)
             out  == [d EXCEPT !.ledger = IF Owns(r) THEN <<>> ELSE @]
             e    == [out EXCEPT !.phase = "leaving", !.claim = next, !.final = st]
  <1>1. run' = [run EXCEPT ![r] = e]
    BY DEF Claim
  <1>2. e.phase = "leaving"
    BY DEF RunShape
  <1> HIDE DEF e
  <1> QED BY <1>1, <1>2, ExitJournal

(* A run that is dispatched again has streamed nothing, so it has no open entry. *)
LEMMA DoneJournal ==
    ASSUME SInv, UNCHANGED boot, NEW r \in RunIds, NEW d, NEW kind, Done(r, d, kind),
           InLoop(r), RunShape(d), d.text = run[r].text
    PROVE  Journalled'
  <1>1. run[r].phase \in Busy
    BY DEF InLoop, Busy
  <1>2. RunShape(Unasked(r, d))
    BY DEF RunShape, Unasked
  <1>3. CASE /\ ~d.text /\ UNCHANGED writing
             /\ \E again : Gone(r, d, status, <<d.first>>, again)
    <2>1. r \notin writing
      BY <1>1, <1>3 DEF SInv, Journalled, Asleep
    <2>2. writing' = writing \ {r}
      BY <1>3, <2>1
    <2>3. \E e : e.phase \notin {"starting", "turn"} /\ run' = [run EXCEPT ![r] = e]
      BY <1>3 DEF Gone, RunShape
    <2> QED BY <1>1, <2>2, <2>3, ExitJournal
  <1>4. CASE writing' = writing \ {r} /\ Complete(r, Unasked(r, d))
    <2>1. Park(Unasked(r, d)).phase = "parked"
      BY <1>2 DEF Park, RunShape
    <2> QED BY <1>1, <1>4, <2>1, ExitJournal DEF Complete
  <1>5. CASE writing' = writing \ {r} /\ \E st : Claim(r, Unasked(r, d), st)
    BY <1>1, <1>2, <1>5, ClaimJournal
  <1> QED BY <1>3, <1>4, <1>5 DEF Done, Finished

(* The fold of one run fills up, and the journal is opened. *)
LEMMA FillJournal ==
    ASSUME SInv, UNCHANGED <<boot, writing>>, NEW r \in RunIds,
           \A q \in RunIds \ {r} : run'[q] = run[q],
           journal' = "open", run'[r].text,
           run'[r].phase = run[r].phase \/ run'[r].phase = "turn"
    PROVE  Journalled'
  <1>1. writing \subseteq RunIds
    BY DEF SInv, Journalled
  <1>2. ASSUME NEW q \in writing
        PROVE  (run'[q].phase = "turn" /\ run'[q].text) \/ boot \in {"down", "scan"}
    <2>1. CASE q = r
      BY <2>1 DEF SInv, Journalled
    <2>2. CASE q # r
      BY <1>1, <2>2 DEF SInv, Journalled
    <2> QED BY <2>1, <2>2
  <1> QED BY <1>1, <1>2 DEF Journalled

LEMMA RunJournal ==
    ASSUME SInv, NEW r \in RunIds, RunTask(r)
    PROVE  Asleep' /\ Journalled'
  <1>1. run[r].phase \in Busy /\ UNCHANGED boot
    BY DEF RunTask, Spawn, NoStart, SeeCancel, Deadline, Bridge, ReadStarted, ReadText,
           ReadSteered, ReadDone, ReadEnd, Flush, Quiesce, GateOpens, Reap, Leave, Reads,
           Next1, InLoop, Busy, DoneFrame
  <1>2. Asleep'
    BY <1>1 DEF SInv, Asleep
  <1>3. RunShape(run[r]) /\ RunShape(Popped(r)) /\ Popped(r).text = run[r].text
    BY DEF SInv, IInv, Shape, RunShape, Popped
  <1>4. CASE SeeCancel(r) \/ GateOpens(r)
    <2>1. /\ \A q \in RunIds : run'[q].phase = run[q].phase /\ run'[q].text = run[q].text
          /\ UNCHANGED <<writing, journal>>
      BY <1>3, <1>4 DEF SeeCancel, GateOpens, SInv, IInv, Shape, RunShape, record
    <2> QED BY <1>1, <1>2, <2>1, SamePhase
  <1>5. CASE Spawn(r)
    <2>1. /\ \A q \in RunIds : /\ run'[q].text = run[q].text
                               /\ run'[q].phase = run[q].phase
                                  \/ (run[q].phase = "starting" /\ run'[q].phase = "turn")
          /\ UNCHANGED <<writing, journal>>
      BY <1>3, <1>5 DEF Spawn, SInv, IInv, Shape, RunShape, record
    <2> QED BY <1>1, <1>2, <2>1, OpenStep DEF SInv, Journalled
  <1>6. CASE Bridge(r)
    <2> DEFINE d == [run[r] EXCEPT !.bus = Tail(@)]
    <2>0. /\ "phase" \in DOMAIN d /\ d.phase = run[r].phase
          /\ "text" \in DOMAIN d /\ d.text = run[r].text
      BY <1>3 DEF RunShape
    <2>1. \/ /\ run' = [run EXCEPT ![r] = [d EXCEPT !.text = TRUE, !.asked = TRUE]]
             /\ journal' = "open"
          \/ /\ \/ run' = [run EXCEPT ![r] = [d EXCEPT !.pending = FALSE]]
                \/ run' = [run EXCEPT ![r] = [d EXCEPT !.asked = FALSE]]
                \/ run' = [run EXCEPT ![r] = d]
             /\ journal' = journal \/ journal' = "open"
      BY <1>6 DEF Bridge
    <2> HIDE DEF d
    <2>2. UNCHANGED writing
      BY <1>6 DEF Bridge
    <2>3. /\ run'[r].phase = run[r].phase /\ \A q \in RunIds \ {r} : run'[q] = run[q]
          /\ \/ run'[r].text = run[r].text /\ (journal' = journal \/ journal' = "open")
             \/ run'[r].text = TRUE /\ journal' = "open"
      BY <2>0, <2>1 DEF SInv, IInv, Shape
    <2>4. CASE run'[r].text = run[r].text /\ (journal' = journal \/ journal' = "open")
      BY <1>1, <1>2, <2>2, <2>3, <2>4, SamePhase
    <2>5. CASE run'[r].text = TRUE /\ journal' = "open"
      BY <1>1, <1>2, <2>2, <2>3, <2>5, FillJournal
    <2> QED BY <2>3, <2>4, <2>5
  <1>7. CASE ReadStarted(r)
    <2>1. \E d : /\ run' = [run EXCEPT ![r] = d]
                /\ d.phase = run[r].phase /\ d.text = run[r].text
      BY <1>3, <1>7 DEF ReadStarted, RunShape, Popped
    <2>2. UNCHANGED writing /\ (journal' = journal \/ journal' = "open")
      BY <1>7 DEF ReadStarted
    <2> QED BY <1>1, <1>2, <2>1, <2>2, SamePhase DEF SInv, IInv, Shape
  <1>8. CASE ReadText(r)
    <2>1. CASE run[r].phase = "parked" /\ run[r].gate
      <3>1. /\ run' = [run EXCEPT ![r] = Popped(r)] /\ Popped(r).phase = run[r].phase
            /\ UNCHANGED <<writing, journal>>
        BY <1>3, <1>8, <2>1 DEF ReadText, RunShape, Popped
      <3> QED BY <1>1, <1>2, <1>3, <3>1, SamePhase DEF SInv, IInv, Shape
    <2>2. CASE ~(run[r].phase = "parked" /\ run[r].gate)
      <3> DEFINE d == [Popped(r) EXCEPT !.phase = "turn", !.text = TRUE]
      <3>1. run' = [run EXCEPT ![r] = d]
        BY <1>8, <2>2 DEF ReadText
      <3>2. d.phase = "turn" /\ d.text = TRUE
        BY <1>3 DEF RunShape
      <3>3. UNCHANGED writing /\ journal' = "open"
        BY <1>8, <2>2 DEF ReadText
      <3> HIDE DEF d
      <3>4. /\ \A q \in RunIds \ {r} : run'[q] = run[q]
            /\ run'[r].phase = "turn" /\ run'[r].text
        BY <3>1, <3>2 DEF SInv, IInv, Shape
      <3> QED BY <1>1, <1>2, <3>3, <3>4, FillJournal
    <2> QED BY <2>1, <2>2
  <1>9. CASE ReadSteered(r)
    <2>1. /\ run'[r].phase = "turn" /\ ~run'[r].text
          /\ \A q \in RunIds \ {r} : run'[q] = run[q]
      BY <1>3, <1>9 DEF ReadSteered, RunShape, SInv, IInv, Shape
    <2>2. writing' = writing \ {r} /\ journal' = "open"
      BY <1>9 DEF ReadSteered, Finished
    <2>3. \A q \in writing' : q \in RunIds \ {r} /\ q \in writing /\ run'[q] = run[q]
      BY <2>1, <2>2 DEF SInv, Journalled
    <2>4. Journalled'
      BY <1>1, <2>2, <2>3 DEF SInv, Journalled
    <2> QED BY <1>2, <2>4
  <1>10. CASE Flush(r)
    <2>1. journal = "open" /\ UNCHANGED <<run, journal>> /\ writing' = writing \cup {r}
      BY <1>10 DEF Flush, chat, SInv, Journalled
    <2>2. run[r].phase = "turn" /\ run[r].text
      BY <1>10 DEF Flush
    <2> QED BY <1>1, <1>2, <2>1, <2>2, OpenStep DEF SInv, Journalled
  <1>11. CASE Quiesce(r)
    <2>1. \E d : d.phase \notin {"starting", "turn"} /\ run' = [run EXCEPT ![r] = d]
      BY <1>3, <1>11 DEF Quiesce, Park, RunShape
    <2> QED BY <1>1, <1>2, <1>11, <2>1, ExitJournal DEF Quiesce, Finished
  <1>12. CASE NoStart(r)
    BY <1>1, <1>2, <1>3, <1>12, GoneJournal DEF NoStart
  <1>13. CASE Leave(r)
    <2>1. RunShape([run[r] EXCEPT !.claim = <<>>])
      BY <1>3 DEF RunShape
    <2> QED BY <1>1, <1>2, <1>13, <2>1, GoneJournal DEF Leave
  <1>14. CASE Reap(r)
    <2>1. RunShape([run[r] EXCEPT !.cancel = TRUE])
      BY <1>3 DEF RunShape
    <2> QED BY <1>1, <1>2, <1>14, <2>1, ClaimJournal DEF Reap
  <1>15. CASE Deadline(r)
    BY <1>1, <1>2, <1>3, <1>15, DoneJournal DEF Deadline
  <1>16. CASE ReadDone(r)
    BY <1>1, <1>2, <1>3, <1>16, DoneJournal DEF ReadDone, Next1
  <1>17. CASE ReadEnd(r)
    <2>1. InLoop(r)
      BY <1>17 DEF ReadEnd, Next1
    <2> QED BY <1>1, <1>2, <1>3, <1>17, <2>1, ClaimJournal, DoneJournal DEF ReadEnd
  <1> QED BY <1>4, <1>5, <1>6, <1>7, <1>8, <1>9, <1>10, <1>11, <1>12, <1>13, <1>14, <1>15,
             <1>16, <1>17 DEF RunTask

LEMMA RecoveryJournal ==
    ASSUME SInv, Boot \/ Recover \/ Revive
    PROVE  Asleep' /\ Journalled'
  <1>1. CASE Boot
    BY <1>1 DEF Boot, chat, record, SInv, Asleep, Journalled
  <1>2. CASE Recover
    <2>1. \A r \in RunIds : run[r].phase \notin {"starting", "turn"}
      BY <1>2 DEF Recover, SInv, Asleep, Busy
    <2>2. boot' \notin {"down", "scan"} /\ UNCHANGED run /\ writing' = {}
      BY <1>2 DEF Recover
    <2> QED BY <2>1, <2>2 DEF Asleep, Journalled
  <1>3. CASE Revive
    BY <1>3 DEF Revive, SInv, Asleep, Journalled
  <1> QED BY <1>1, <1>2, <1>3

LEMMA JournalStep ==
    ASSUME SInv, [Next]_vars, Settling', Recovering'
    PROVE  SInv'
  <1> SUFFICES Asleep' /\ Journalled'
    BY RunsStep DEF SInv
  <1>1. CASE UNCHANGED vars
    BY <1>1 DEF vars, chat, record, SInv, Asleep, Journalled
  <1>2. ASSUME NEW m \in Msgs, Issue(m) PROVE Asleep' /\ Journalled'
    <2>1. boot \notin {"down", "scan"} /\ UNCHANGED <<boot, run, writing, journal>>
      BY <1>2 DEF Issue, Through, Recovering, record
    <2> QED BY <2>1 DEF SInv, Asleep, Journalled
  <1>3. CASE Crash
    <2>1. /\ Asleep'
          /\ \A r \in RunIds : run'[r].phase \in {"unborn", "ended"}
      BY <1>3, CrashStep DEF SInv
    <2>2. boot' = "down" /\ UNCHANGED <<journal, writing>>
      BY <1>3 DEF Crash
    <2> QED BY <2>1, <2>2 DEF SInv, Journalled
  <1>4. CASE Next
    BY <1>2, <1>3, <1>4, CallJournal, AgentJournal, RunJournal, UserJournal, RecoveryJournal
       DEF Next
  <1> QED BY <1>1, <1>4

(* An open entry of the transcript has a run in its turn that will settle it, or an
   open journal by which boot recovery finds it (finish_segment, recover_stale). *)
THEOREM StreamsSettleHolds == Spec => []StreamsSettle
  <1> DEFINE J == Settling /\ Recovering => SInv
  <1>1. Init => J
    <2> SUFFICES ASSUME Init PROVE SInv
      OBVIOUS
    <2>1. ~Unborn.text
      BY DEF Unborn, NewRun
    <2> QED BY <2>1, RunsInit DEF Init, SInv, Asleep, Journalled
  <1>2. J /\ [Next]_vars => J'
    BY JournalStep, RacedGrows DEF Settling, Recovering, Unraced
  <1>3. J => StreamsSettle
    BY DEF SInv, Journalled, StreamsSettle, Settling, Recovering, Unraced
  <1> HIDE DEF J
  <1> QED BY <1>1, <1>2, <1>3, PTL DEF Spec

-----------------------------------------------------------------------------
(* Questions. *)

\* The fields a question goes through.
AskShape(d) ==
    /\ "asked" \in DOMAIN d /\ "pending" \in DOMAIN d /\ "cancel" \in DOMAIN d
    /\ "interrupted" \in DOMAIN d /\ "bus" \in DOMAIN d /\ d.bus \in Seq({"asked", "answered"})

\* The turn has shown its question, and the answer, its announcement or the
\* cancellation is still to come; or the turn is over.
Asking(d) ==
    /\ d.text
    /\ \/ d.phase = "leaving"
       \/ /\ d.phase = "turn" /\ d.asked
          /\ d.pending \/ d.cancel \/ \E i \in DOMAIN d.bus : d.bus[i] = "answered"

AInv ==
    /\ IInv
    /\ \A r \in RunIds : AskShape(run[r])
    /\ status = "awaiting" => live # 0 /\ Asking(run[live])

(* A step that leaves the map alone and every question as it was. *)
LEMMA AskedStep ==
    ASSUME AInv, DOMAIN run' = RunIds, UNCHANGED live,
           \A q \in RunIds : AskShape(run'[q]) /\ (Asking(run[q]) => Asking(run'[q])),
           status' = status \/ status' # "awaiting"
    PROVE  /\ \A r \in RunIds : AskShape(run'[r])
           /\ status' = "awaiting" => live' # 0 /\ Asking(run'[live'])
  <1>1. live # 0 => live \in RunIds
    BY RunsAssumption DEF AInv, IInv, Shape, RunIds
  <1> QED BY <1>1 DEF AInv

(* A step of one run that leaves its question as it was. *)
LEMMA AskedRun ==
    ASSUME AInv, NEW r \in RunIds, NEW d, run' = [run EXCEPT ![r] = d],
           AskShape(d), Asking(run[r]) => Asking(d)
    PROVE  /\ \A q \in RunIds : AskShape(run'[q]) /\ (Asking(run[q]) => Asking(run'[q]))
           /\ DOMAIN run' = RunIds
  BY DEF AInv, IInv, Shape

(* What is on the bus stays there but for its head. *)
LEMMA AnswerStays ==
    ASSUME NEW bus \in Seq({"asked", "answered"})
    PROVE  /\ \A e \in {"asked", "answered"} :
                 /\ Append(bus, e) \in Seq({"asked", "answered"})
                 /\ (e = "answered" \/ \E i \in DOMAIN bus : bus[i] = "answered")
                    => \E i \in DOMAIN Append(bus, e) : Append(bus, e)[i] = "answered"
           /\ bus # <<>> =>
                 /\ Tail(bus) \in Seq({"asked", "answered"})
                 /\ Head(bus) # "answered" /\ (\E i \in DOMAIN bus : bus[i] = "answered")
                    => \E i \in DOMAIN Tail(bus) : Tail(bus)[i] = "answered"
  <1>1. ASSUME NEW e \in {"asked", "answered"}
        PROVE  /\ Append(bus, e) \in Seq({"asked", "answered"})
               /\ (e = "answered" \/ \E i \in DOMAIN bus : bus[i] = "answered")
                  => \E i \in DOMAIN Append(bus, e) : Append(bus, e)[i] = "answered"
    <2>1. Append(bus, e) \in Seq({"asked", "answered"}) /\ Len(Append(bus, e)) = Len(bus) + 1
      BY <1>1
    <2>2. CASE e = "answered"
      <3>1. Len(bus) + 1 \in DOMAIN Append(bus, e) /\ Append(bus, e)[Len(bus) + 1] = e
        BY <2>1
      <3> QED BY <2>1, <2>2, <3>1
    <2>3. ASSUME NEW i \in DOMAIN bus, bus[i] = "answered"
          PROVE  i \in DOMAIN Append(bus, e) /\ Append(bus, e)[i] = "answered"
      BY <2>1, <2>3
    <2> QED BY <2>1, <2>2, <2>3
  <1>2. ASSUME bus # <<>>
        PROVE  /\ Tail(bus) \in Seq({"asked", "answered"})
               /\ Head(bus) # "answered" /\ (\E i \in DOMAIN bus : bus[i] = "answered")
                  => \E i \in DOMAIN Tail(bus) : Tail(bus)[i] = "answered"
    <2>1. Tail(bus) \in Seq({"asked", "answered"}) /\ Len(Tail(bus)) = Len(bus) - 1
      BY <1>2
    <2>2. ASSUME NEW i \in DOMAIN bus, bus[i] = "answered", Head(bus) # "answered"
          PROVE  i - 1 \in DOMAIN Tail(bus) /\ Tail(bus)[i - 1] = "answered"
      BY <1>2, <2>1, <2>2
    <2> QED BY <2>1, <2>2
  <1> QED BY <1>1, <1>2
LEMMA AskAgent ==
    ASSUME AInv, NEW r \in RunIds, AgentStep(r) \/ AgentFault(r)
    PROVE  AInv'
  <1>1. IInv'
    BY AgentSteps DEF AInv
  <1>2. /\ \A q \in RunIds : AskShape(run'[q]) /\ (Asking(run[q]) => Asking(run'[q]))
        /\ DOMAIN run' = RunIds /\ UNCHANGED <<live, status>>
    <2> USE DEF AInv, IInv, Shape, RunShape, AskShape, Asking
    <2>1. CASE Begin(r)  BY <2>1 DEF Begin, record
    <2>2. CASE Turn(r)  BY <2>2 DEF Turn, record
    <2>3. CASE EndTurn(r)  BY <2>3 DEF EndTurn, record
    <2>4. CASE Speak(r)  BY <2>4 DEF Speak, record
    <2>5. CASE Ask(r)
      <3> DEFINE bus == Append(run[r].bus, "asked")
                 d == [run[r] EXCEPT !.pending = TRUE, !.bus = bus]
      <3>1. bus \in Seq({"asked", "answered"})
        BY AnswerStays
      <3> HIDE DEF bus
      <3>2. run' = [run EXCEPT ![r] = d]
        BY <2>5 DEF Ask, bus
      <3>3. AskShape(d) /\ (Asking(run[r]) => Asking(d))
        BY <3>1
      <3> HIDE DEF d
      <3> QED BY <2>5, <3>2, <3>3 DEF Ask, record
    <2>6. CASE Die(r)  BY <2>6 DEF Die, record
    <2>7. CASE Wake(r)  BY <2>7 DEF Wake, record
    <2>8. CASE Forget(r)  BY <2>8 DEF Forget, record
    <2> QED BY <2>1, <2>2, <2>3, <2>4, <2>5, <2>6, <2>7, <2>8 DEF AgentStep, AgentFault
  <1> QED BY <1>1, <1>2, AskedStep DEF AInv

LEMMA AskUser ==
    ASSUME AInv, Interrupt \/ RespondInput
    PROVE  AInv'
  <1>1. live \in RunIds
    BY RunsAssumption DEF AInv, IInv, Shape, Interrupt, RespondInput, RunIds
  <1>2. IInv'
    BY UserSteps DEF AInv
  <1>3. /\ \A q \in RunIds : AskShape(run'[q]) /\ (Asking(run[q]) => Asking(run'[q]))
        /\ DOMAIN run' = RunIds /\ UNCHANGED <<live, status>>
    <2> USE <1>1 DEF AInv, IInv, Shape, RunShape, AskShape, Asking
    <2>1. CASE Interrupt  BY <2>1 DEF Interrupt, Cancelled, record
    <2>2. CASE RespondInput
      <3> DEFINE bus == Append(run[live].bus, "answered")
                 d == [run[live] EXCEPT !.pending = FALSE, !.bus = bus]
      <3>1. bus \in Seq({"asked", "answered"}) /\ \E i \in DOMAIN bus : bus[i] = "answered"
        BY AnswerStays
      <3> HIDE DEF bus
      <3>2. run' = [run EXCEPT ![live] = d]
        BY <2>2 DEF RespondInput, bus
      <3>3. AskShape(d) /\ (Asking(run[live]) => Asking(d))
        BY <3>1
      <3> HIDE DEF d
      <3> QED BY <2>2, <3>2, <3>3 DEF RespondInput, record
    <2> QED BY <2>1, <2>2
  <1> QED BY <1>2, <1>3, AskedStep DEF AInv
LEMMA AskCalls ==
    ASSUME AInv, Settling', NEW p \in Callers, CallStep(p)
    PROVE  AInv'
  <1>1. IInv'
    BY CallSteps DEF AInv
  <1>2. CallShape(call[p]) /\ (live # 0 => live \in RunIds)
    BY RunsAssumption DEF AInv, IInv, Shape, RunIds
  <1> USE DEF AInv, IInv, Shape, RunShape, AskShape, Asking
  <1>3. CASE UNCHANGED <<live, run>> /\ (UNCHANGED status \/ status' = "working")
    BY <1>1, <1>3
  <1>4. CASE /\ \E q \in RunIds : \E l : \/ run' = [run EXCEPT ![q].box = l]
                                         \/ run' = [run EXCEPT ![q].ledger = l]
             /\ UNCHANGED <<live, status>>
    <2>1. PICK q \in RunIds : \E l : \/ run' = [run EXCEPT ![q].box = l]
                                      \/ run' = [run EXCEPT ![q].ledger = l]
      BY <1>4
    <2>2. \E d : run' = [run EXCEPT ![q] = d] /\ AskShape(d) /\ (Asking(run[q]) => Asking(d))
      BY <2>1
    <2>3. /\ \A x \in RunIds : AskShape(run'[x]) /\ (Asking(run[x]) => Asking(run'[x]))
          /\ DOMAIN run' = RunIds
      BY <2>2, AskedRun
    <2> QED BY <1>1, <1>4, <2>3, AskedStep
  <1>5. CASE Send(p)
    BY <1>2, <1>4, <1>5 DEF Send, record
  <1>6. CASE Refused(p) \/ Settle(p)
    BY <1>3, <1>6 DEF Refused, Settle, record
  <1>7. CASE Log(p)
    BY <1>2, <1>4, <1>7 DEF Log, CallShape
  <1>8. CASE Check(p)
    <2>1. CASE UNCHANGED run /\ (UNCHANGED status \/ status' = "working")
      BY <1>3, <1>8, <2>1 DEF Check
    <2>2. CASE /\ \E l : run' = [run EXCEPT ![call[p].run].ledger = l]
               /\ call[p].run \in RunIds /\ UNCHANGED status
      BY <1>4, <1>8, <2>2 DEF Check
    <2>3. call[p].run \in RunIds
      BY <1>2, <1>8 DEF Check, CallShape
    <2> QED BY <1>8, <2>1, <2>2, <2>3 DEF Check
  <1>9. CASE Stop(p)
    <2>1. CASE live = 0
      BY <1>3, <1>9, <2>1 DEF Stop, record
    <2>2. CASE live # 0
      <3>1. run' = [run EXCEPT ![live] = Cancelled(run[live])] /\ UNCHANGED <<live, status>>
        BY <1>9, <2>2 DEF Stop, record
      <3>2. /\ AskShape(Cancelled(run[live]))
            /\ Asking(run[live]) => Asking(Cancelled(run[live]))
        BY <1>2, <2>2 DEF Cancelled
      <3>3. \A q \in RunIds : AskShape(run'[q]) /\ (Asking(run[q]) => Asking(run'[q]))
        BY <3>1, <3>2
      <3> QED BY <1>1, <3>1, <3>3, AskedStep
    <2> QED BY <2>1, <2>2
  <1>10. CASE Launch(p)
    <2> DEFINE d == NewRun(Head(call[p].msgs), call[p].retry, known)
    <2>1. AskShape(d)
      BY DEF NewRun
    <2>2. run' = [run EXCEPT ![started + 1] = d] /\ status' = "working"
      BY <1>10 DEF Launch
    <2> HIDE DEF d
    <2>3. \A q \in RunIds : AskShape(run'[q])
      BY <2>1, <2>2
    <2> QED BY <1>1, <2>2, <2>3
  <1> QED BY <1>5, <1>6, <1>7, <1>8, <1>9, <1>10 DEF CallStep

(* A run that leaves a turn, or ends, takes the status along. *)
LEMMA AskGone ==
    ASSUME AInv, IInv', NEW r \in RunIds, NEW d, NEW st, NEW next, NEW again,
           Gone(r, d, st, next, again), AskShape(d), st # "awaiting"
    PROVE  AInv'
  <1> DEFINE e == [d EXCEPT !.phase = "ended", !.agent = "down", !.box = <<>>,
                            !.stream = <<>>, !.bus = <<>>, !.pending = FALSE]
  <1>1. AskShape(e)
    BY DEF AskShape
  <1>2. run' = [run EXCEPT ![r] = e] /\ status' = st
    BY DEF Gone
  <1> HIDE DEF e
  <1>3. \A q \in RunIds : AskShape(run'[q])
    BY <1>1, <1>2 DEF AInv, IInv, Shape
  <1> QED BY <1>2, <1>3 DEF AInv

LEMMA AskClaim ==
    ASSUME AInv, IInv', NEW r \in RunIds, NEW d, NEW st, Claim(r, d, st),
           RunShape(d), AskShape(d), Asking(run[r]) => d.text
    PROVE  AInv'
  <1> DEFINE next == IF d.interrupted THEN <<>> ELSE Orphans(r, d)
             out  == [d EXCEPT !.ledger = IF Owns(r) THEN <<>> ELSE @]
             e    == [out EXCEPT !.phase = "leaving", !.claim = next, !.final = st]
  <1>1. run' = [run EXCEPT ![r] = e] /\ UNCHANGED <<live, status>>
    BY DEF Claim
  <1>2. AskShape(e) /\ (Asking(run[r]) => Asking(e))
    BY DEF AskShape, RunShape, Asking
  <1> HIDE DEF e
  <1>3. /\ \A q \in RunIds : AskShape(run'[q]) /\ (Asking(run[q]) => Asking(run'[q]))
        /\ DOMAIN run' = RunIds
    BY <1>1, <1>2 DEF AInv, IInv, Shape
  <1> QED BY <1>1, <1>3, AskedStep DEF AInv

LEMMA AskDone ==
    ASSUME AInv, IInv', NEW r \in RunIds, NEW d, NEW kind, Done(r, d, kind), InLoop(r),
           RunShape(d), AskShape(d), d.text = run[r].text
    PROVE  AInv'
  <1>1. live = r
    BY DEF AInv, IInv, InMap, InLoop
  <1>2. RunShape(Unasked(r, d)) /\ AskShape(Unasked(r, d)) /\ Unasked(r, d).text = d.text
    BY DEF RunShape, AskShape, Unasked
  <1>3. CASE ~d.text /\ \E again : Gone(r, d, status, <<d.first>>, again)
    <2>1. status # "awaiting"
      BY <1>1, <1>3 DEF AInv, Asking
    <2> QED BY <1>3, <2>1, AskGone
  <1>4. CASE Complete(r, Unasked(r, d))
    <2>1. AskShape(Park(Unasked(r, d)))
      BY <1>2 DEF AskShape, Park
    <2>2. \A q \in RunIds : AskShape(run'[q])
      BY <1>4, <2>1 DEF Complete, AInv, IInv, Shape
    <2> QED BY <1>4, <2>2 DEF Complete, AInv
  <1>5. CASE \E st : Claim(r, Unasked(r, d), st)
    BY <1>2, <1>5, AskClaim DEF Asking
  <1> QED BY <1>3, <1>4, <1>5 DEF Done

LEMMA AskRuns ==
    ASSUME AInv, NEW r \in RunIds, RunTask(r)
    PROVE  AInv'
  <1>1. IInv'
    BY RunTasks DEF AInv
  <1>2. /\ RunShape(run[r]) /\ AskShape(run[r])
        /\ RunShape(Popped(r)) /\ AskShape(Popped(r)) /\ Popped(r).text = run[r].text
    BY DEF AInv, IInv, Shape, RunShape, AskShape, Popped
  <1>3. run[r].phase \in Busy => live = r
    BY DEF AInv, IInv, InMap, Busy
  <1>4. CASE Spawn(r) \/ SeeCancel(r) \/ GateOpens(r) \/ Flush(r)
    <2>1. /\ \A q \in RunIds : AskShape(run'[q]) /\ (Asking(run[q]) => Asking(run'[q]))
          /\ DOMAIN run' = RunIds /\ UNCHANGED <<live, status>>
      <3> USE DEF chat, record, AInv, IInv, Shape, RunShape, AskShape, Asking
      <3>1. CASE Spawn(r)  BY <3>1 DEF Spawn
      <3>2. CASE SeeCancel(r)  BY <3>2 DEF SeeCancel
      <3>3. CASE GateOpens(r)  BY <3>3 DEF GateOpens
      <3>4. CASE Flush(r)  BY <3>4 DEF Flush
      <3> QED BY <1>4, <3>1, <3>2, <3>3, <3>4
    <2> QED BY <1>1, <2>1, AskedStep DEF AInv
  <1>5. CASE NoStart(r)
    BY <1>1, <1>2, <1>5, AskGone DEF NoStart
  <1>6. CASE Leave(r)
    <2>1. AskShape([run[r] EXCEPT !.claim = <<>>])
      BY <1>2 DEF AskShape
    <2> QED BY <1>1, <1>2, <1>6, <2>1, AskGone DEF Leave, RunShape
  <1>7. CASE Deadline(r)
    BY <1>1, <1>2, <1>7, AskDone DEF Deadline
  <1>8. CASE ReadDone(r)
    BY <1>1, <1>2, <1>8, AskDone DEF ReadDone, Next1
  <1>9. CASE ReadEnd(r)
    BY <1>1, <1>2, <1>9, AskDone, AskClaim DEF ReadEnd, Next1, Asking
  <1>10. CASE Reap(r)
    <2>1. LET d == [run[r] EXCEPT !.cancel = TRUE]
          IN  RunShape(d) /\ AskShape(d) /\ d.text = run[r].text
      BY <1>2 DEF RunShape, AskShape
    <2> QED BY <1>1, <1>10, <2>1, AskClaim DEF Reap, Asking
  <1>11. CASE Quiesce(r) \/ ReadSteered(r)
    <2>1. \E d : run' = [run EXCEPT ![r] = d] /\ AskShape(d)
      <3>1. CASE Quiesce(r)
        <4> DEFINE d == [Park(run[r]) EXCEPT !.saw = run[r].saw]
        <4>1. run' = [run EXCEPT ![r] = d]
          BY <3>1 DEF Quiesce
        <4>2. AskShape(d)
          BY <1>2 DEF Park, AskShape
        <4> QED BY <4>1, <4>2
      <3>2. CASE ReadSteered(r)
        <4> DEFINE l == IF Owns(r) /\ run[r].ledger # <<>> THEN Tail(run[r].ledger) ELSE run[r].ledger
                   d == [Popped(r) EXCEPT !.phase = "turn", !.text = FALSE, !.asked = FALSE,
                                          !.ledger = l]
        <4>1. run' = [run EXCEPT ![r] = d]
          BY <3>2 DEF ReadSteered, Popped, AInv, IInv, Shape
        <4>2. AskShape(d)
          BY <1>2 DEF AskShape
        <4> QED BY <4>1, <4>2
      <3> QED BY <1>11, <3>1, <3>2
    <2>2. \A q \in RunIds : AskShape(run'[q])
      BY <2>1 DEF AInv, IInv, Shape
    <2> QED BY <1>1, <1>11, <2>2 DEF Quiesce, ReadSteered, AInv
  <1>12. CASE ReadStarted(r)
    <2>1. PICK d : /\ run' = [run EXCEPT ![r] = d] /\ AskShape(d)
                   /\ Asking(run[r]) => Asking(d)
      <3> DEFINE d == Popped(r)
                 e == [Popped(r) EXCEPT !.saw = TRUE]
      <3>1. run' = [run EXCEPT ![r] = d] \/ run' = [run EXCEPT ![r] = e]
        BY <1>12 DEF ReadStarted
      <3>2. AskShape(d) /\ (Asking(run[r]) => Asking(d))
        BY <1>2 DEF Popped, AskShape, RunShape, Asking
      <3>3. AskShape(e) /\ (Asking(run[r]) => Asking(e))
        BY <1>2 DEF Popped, AskShape, RunShape, Asking
      <3> HIDE DEF d, e
      <3> QED BY <3>1, <3>2, <3>3
    <2>2. /\ \A q \in RunIds : AskShape(run'[q]) /\ (Asking(run[q]) => Asking(run'[q]))
          /\ DOMAIN run' = RunIds
      BY <2>1, AskedRun
    <2> QED BY <1>1, <1>12, <2>2, AskedStep DEF ReadStarted, AInv
  <1>13. CASE ReadText(r)
    <2>1. PICK d : /\ run' = [run EXCEPT ![r] = d] /\ AskShape(d)
                   /\ Asking(run[r]) => Asking(d)
      <3> DEFINE d == Popped(r)
                 e == [Popped(r) EXCEPT !.phase = "turn", !.text = TRUE]
      <3>1. run' = [run EXCEPT ![r] = d] \/ run' = [run EXCEPT ![r] = e]
        BY <1>13 DEF ReadText
      <3>2. AskShape(d) /\ (Asking(run[r]) => Asking(d))
        BY <1>2 DEF Popped, AskShape, RunShape, Asking
      <3>3. AskShape(e) /\ (Asking(run[r]) => Asking(e))
        <4>1. run[r].phase # "leaving"
          BY <1>13 DEF ReadText, Reads, Next1, InLoop
        <4> QED BY <1>2, <4>1 DEF Popped, AskShape, RunShape, Asking
      <3> HIDE DEF d, e
      <3> QED BY <3>1, <3>2, <3>3
    <2>2. /\ \A q \in RunIds : AskShape(run'[q]) /\ (Asking(run[q]) => Asking(run'[q]))
          /\ DOMAIN run' = RunIds
      BY <2>1, AskedRun
    <2> QED BY <1>1, <1>13, <2>2, AskedStep DEF ReadText, AInv
  <1>14. CASE Bridge(r)
    <2> DEFINE bus == Tail(run[r].bus)
               d == [run[r] EXCEPT !.bus = bus]
    <2>1. /\ bus \in Seq({"asked", "answered"})
          /\ Head(run[r].bus) # "answered" /\ (\E i \in DOMAIN run[r].bus : run[r].bus[i] = "answered")
             => \E i \in DOMAIN bus : bus[i] = "answered"
      BY <1>2, <1>14, AnswerStays DEF Bridge, AskShape
    <2>2. /\ InLoop(r) /\ UNCHANGED live
          /\ \/ /\ run[r].phase # "parked" /\ run[r].pending
                /\ run' = [run EXCEPT ![r] = [d EXCEPT !.text = TRUE, !.asked = TRUE]]
             \/ /\ run[r].phase = "parked" /\ UNCHANGED status
                /\ run' = [run EXCEPT ![r] = [d EXCEPT !.pending = FALSE]]
             \/ /\ status' = "working"
                /\ run' = [run EXCEPT ![r] = [d EXCEPT !.asked = FALSE]]
             \/ /\ run' = [run EXCEPT ![r] = d] /\ UNCHANGED status
                /\ Head(run[r].bus) # "answered" \/ run[r].phase = "parked"
      BY <1>14 DEF Bridge
    <2> HIDE DEF bus
    <2> USE DEF RunShape, AskShape, Asking
    <2>3. CASE /\ run[r].phase # "parked" /\ run[r].pending
               /\ run' = [run EXCEPT ![r] = [d EXCEPT !.text = TRUE, !.asked = TRUE]]
      <3> DEFINE e == [d EXCEPT !.text = TRUE, !.asked = TRUE]
      <3>1. AskShape(e) /\ Asking(e)
        BY <1>2, <2>1, <2>2, <2>3 DEF InLoop
      <3> HIDE DEF e
      <3> QED BY <1>1, <1>3, <2>2, <2>3, <3>1, RunsAssumption
              DEF AInv, IInv, Shape, RunIds, InLoop, Busy, e
    <2>4. CASE /\ status' = "working"
               /\ run' = [run EXCEPT ![r] = [d EXCEPT !.asked = FALSE]]
      <3> DEFINE e == [d EXCEPT !.asked = FALSE]
      <3>1. AskShape(e)
        BY <1>2, <2>1
      <3> HIDE DEF e
      <3> QED BY <1>1, <2>4, <3>1 DEF AInv, IInv, Shape, e
    <2>5. CASE /\ run[r].phase = "parked" /\ UNCHANGED status
               /\ run' = [run EXCEPT ![r] = [d EXCEPT !.pending = FALSE]]
      <3> DEFINE e == [d EXCEPT !.pending = FALSE]
      <3>1. AskShape(e) /\ ~Asking(run[r])
        BY <1>2, <2>1, <2>5
      <3> HIDE DEF e
      <3>2. \A q \in RunIds : AskShape(run'[q]) /\ (Asking(run[q]) => Asking(run'[q]))
        BY <2>5, <3>1 DEF AInv, IInv, Shape, e
      <3> QED BY <1>1, <2>2, <2>5, <3>2, AskedStep DEF AInv, IInv, Shape
    <2>6. CASE /\ run' = [run EXCEPT ![r] = d] /\ UNCHANGED status
               /\ Head(run[r].bus) # "answered" \/ run[r].phase = "parked"
      <3>1. AskShape(d) /\ (Asking(run[r]) => Asking(d))
        BY <1>2, <2>1, <2>6
      <3> HIDE DEF d
      <3>2. \A q \in RunIds : AskShape(run'[q]) /\ (Asking(run[q]) => Asking(run'[q]))
        BY <2>6, <3>1 DEF AInv, IInv, Shape, d
      <3> QED BY <1>1, <2>2, <2>6, <3>2, AskedStep DEF AInv, IInv, Shape
    <2> QED BY <2>2, <2>3, <2>4, <2>5, <2>6
  <1> QED BY <1>4, <1>5, <1>6, <1>7, <1>8, <1>9, <1>10, <1>11, <1>12, <1>13, <1>14 DEF RunTask
LEMMA AskRecovery ==
    ASSUME AInv, Crash \/ Boot \/ Recover \/ Revive
    PROVE  AInv'
  <1>1. IInv'
    BY CrashStep, BootSteps DEF AInv
  <1>2. CASE Crash
    <2>1. AskShape([Unborn EXCEPT !.phase = "ended"]) /\ AskShape([Unborn EXCEPT !.phase = @])
      BY DEF Unborn, NewRun, AskShape
    <2>2. \A r \in RunIds : AskShape(run'[r])
      BY <1>2, <2>1 DEF Crash
    <2> QED BY <1>1, <1>2, <2>2 DEF Crash, AInv
  <1>3. CASE Boot \/ Recover \/ Revive
    BY <1>1, <1>3 DEF Boot, Recover, Revive, chat, record, AInv
  <1> QED BY <1>2, <1>3

LEMMA AskStep ==
    ASSUME AInv, [Next]_vars, Settling'
    PROVE  AInv'
  <1>1. CASE UNCHANGED vars
    BY <1>1, RunsStep DEF vars, chat, record, AInv
  <1>2. ASSUME NEW m \in Msgs, Issue(m) PROVE AInv'
    BY <1>2, IssueStep DEF Issue, record, AInv
  <1>3. CASE Next
    BY <1>2, <1>3, AskCalls, AskAgent, AskRuns, AskUser, AskRecovery DEF Next
  <1> QED BY <1>1, <1>3

(* A session that awaits input has a run with a question whose answer can still reach
   the agent, or that is cancelled, or is past its end (request_input, respond_input). *)
THEOREM AwaitingAnswerableHolds == Spec => []AwaitingAnswerable
  <1> DEFINE J == Settling => AInv
  <1>1. Init => J
    <2> SUFFICES ASSUME Init PROVE AInv
      OBVIOUS
    <2>1. AskShape(Unborn)
      BY DEF Unborn, NewRun, AskShape
    <2> QED BY <2>1, RunsInit DEF Init, AInv
  <1>2. J /\ [Next]_vars => J'
    BY AskStep, StillUnraced DEF Settling
  <1>3. J => AwaitingAnswerable
    BY DEF AInv, Asking, Settling, AwaitingAnswerable
  <1> HIDE DEF J
  <1> QED BY <1>1, <1>2, <1>3, PTL DEF Spec

-----------------------------------------------------------------------------
(* Messages: what the proof of delivery needs of runs and callers. *)

Carrying == {"starting", "turn", "parked"}   \* a run that takes messages
Marks    == {"started", "text", "done", "fail"}

\* Its mailbox is open.
Mailed(d) == d.phase = "starting" \/ d.agent # "down"

RunWired(d) ==
    /\ {"phase", "first", "agent", "box", "ledger", "stream", "claim"} \subseteq DOMAIN d
    /\ d.box \in Seq(Msgs) /\ d.ledger \in Seq(Msgs) /\ d.claim \in Seq(Msgs)
    /\ d.stream \in Seq(Events)
    /\ d.phase \in Busy => d.first \in Msgs
    /\ d.phase = "starting" => d.agent = "down"

CallWired(p) ==
    /\ call[p].msgs \in Seq(Msgs)
    /\ call[p].pc \notin {"idle", "done"} => call[p].msgs # <<>>
    /\ call[p].pc \in {"sent", "logged"} => call[p].run \in 1..started
    /\ p # 0 /\ call[p].pc = "idle" => call[p].msgs = <<>>

\* A run spawns its caller at its end; recovery has its one call to make.
Spawned ==
    /\ \A r \in RunIds : call[r].pc # "idle" => r <= started /\ run[r].phase \notin Busy
    /\ boot # "up" => call[0].pc = "idle"
    /\ boot \in {"down", "scan"} => call[0].msgs = <<>>
    /\ boot = "resume" => call[0].msgs # <<>>

Wired ==
    /\ \A r \in RunIds : RunWired(run[r])
    /\ \A p \in Callers : CallWired(p)
    /\ Spawned
    /\ live <= started /\ (live # 0 => run[live].phase \in Busy)
    /\ posted \in Seq(Msgs)
    /\ \A p, q \in Callers : call[p].pc = "sent" /\ call[q].pc = "sent" => p = q

WInv == IInv /\ Wired

-----------------------------------------------------------------------------
(* What a step of a run does to messages. *)

Learned == taken \subseteq taken' /\ excused \subseteq excused' /\ dropped \subseteq dropped'

OneRun(r) ==
    /\ DOMAIN run' = RunIds /\ \A q \in RunIds \ {r} : run'[q] = run[q]
    /\ RunWired(run'[r]) /\ UNCHANGED <<started, boot, posted>> /\ Learned

\* The agent takes the next message, or the mailbox stays as it is or closes, and
\* at most a mark is added to the stream or its head is read.
Ahead(d, e, tk) ==
    \/ /\ d.box # <<>> /\ e.box = Tail(d.box) /\ Mailed(d)
       /\ e.stream = Append(d.stream, Head(d.box)) /\ Head(d.box) \in tk
    \/ /\ Mailed(e) => Mailed(d) /\ e.box = d.box
       /\ \/ e.stream = d.stream
          \/ \E x \in Marks : e.stream = Append(d.stream, x)
          \/ d.stream # <<>> /\ e.stream = Tail(d.stream)

\* It goes on with the messages it has.
Works(r) ==
    /\ OneRun(r) /\ UNCHANGED <<live, call>>
    /\ run'[r].first = run[r].first /\ run'[r].ledger = run[r].ledger
    /\ run'[r].claim = run[r].claim
    /\ \/ run'[r].phase = run[r].phase
       \/ {run[r].phase, run'[r].phase} \subseteq Carrying
    /\ Ahead(run[r], run'[r], taken')

\* It reads the boundary of a message.
Steers(r) ==
    /\ OneRun(r) /\ UNCHANGED <<live, call>> /\ live = r
    /\ {run[r].phase, run'[r].phase} \subseteq Carrying
    /\ run'[r].first = run[r].first /\ run'[r].claim = run[r].claim
    /\ run'[r].box = run[r].box /\ run'[r].agent = run[r].agent
    /\ Mailed(run'[r]) => Mailed(run[r])
    /\ run[r].stream # <<>> /\ Head(run[r].stream) \in Msgs
    /\ run'[r].stream = Tail(run[r].stream)
    /\ run'[r].ledger = IF run[r].ledger # <<>> THEN Tail(run[r].ledger) ELSE run[r].ledger

\* It claims its ledger.
Claims(r) ==
    /\ OneRun(r) /\ UNCHANGED <<live, call>> /\ live = r
    /\ run[r].phase \in Carrying /\ run'[r].phase = "leaving"
    /\ run[r].first \in taken \cup excused'
    /\ \A i \in DOMAIN run[r].ledger :
          run[r].ledger[i] \in excused' \/ run'[r].claim = run[r].ledger

\* It leaves the map, and what it carried is settled or handed on.
Ends(r) ==
    /\ OneRun(r) /\ live = r /\ live' = 0
    /\ run[r].phase \in Busy /\ run'[r].phase \notin Busy /\ run'[r].ledger = run[r].ledger
    /\ \E next \in Seq(Msgs), again \in BOOLEAN :
          /\ call' = IF next = <<>> THEN call ELSE [call EXCEPT ![r] = Dispatch(next, again)]
          /\ run[r].phase \in Carrying =>
                /\ run[r].first \in excused' \/ next = <<run[r].first>>
                /\ \A i \in DOMAIN run[r].ledger : run[r].ledger[i] \in dropped'
          /\ run[r].phase = "leaving" => next = run[r].claim

LEMMA WiredSeqs ==
    ASSUME NEW S, NEW q \in Seq(S)
    PROVE  /\ \A m \in S : Append(q, m) \in Seq(S) /\ Append(q, m) # <<>>
           /\ q # <<>> => Head(q) \in S /\ Tail(q) \in Seq(S)
  <1>1. ASSUME NEW m \in S PROVE Append(q, m) \in Seq(S) /\ Append(q, m) # <<>>
    <2>1. Append(q, m) \in Seq(S) /\ Len(Append(q, m)) = Len(q) + 1 /\ Len(q) \in Nat
      OBVIOUS
    <2> QED BY <2>1
  <1>2. q # <<>> => Head(q) \in S /\ Tail(q) \in Seq(S)
    OBVIOUS
  <1> QED BY <1>1, <1>2

LEMMA AgentMoves ==
    ASSUME WInv, NEW r \in RunIds, AgentStep(r) \/ AgentFault(r)
    PROVE  Works(r)
  <1>1. RunWired(run[r]) /\ DOMAIN run = RunIds
    BY DEF WInv, Wired, IInv, Shape
  <1>2. /\ \A m \in Marks \cup Msgs : Append(run[r].stream, m) \in Seq(Events)
        /\ run[r].box # <<>> => Head(run[r].box) \in Msgs /\ Tail(run[r].box) \in Seq(Msgs)
    BY <1>1, WiredSeqs DEF RunWired, Marks, Events
  <1> USE DEF Works, OneRun, Learned, Ahead, RunWired, Mailed, record, history, Marks
  <1>3. CASE Begin(r)  BY <1>1, <1>2, <1>3 DEF Begin, Emit
  <1>4. CASE Turn(r)  BY <1>1, <1>2, <1>4 DEF Turn, Emit
  <1>5. CASE EndTurn(r)  BY <1>1, <1>2, <1>5 DEF EndTurn, Emit
  <1>6. CASE Speak(r)  BY <1>1, <1>2, <1>6 DEF Speak, Emit
  <1>7. CASE Ask(r)  BY <1>1, <1>7 DEF Ask
  <1>8. CASE Wake(r)  BY <1>1, <1>2, <1>8 DEF Wake, Emit
  <1>9. CASE Forget(r)  BY <1>1, <1>9 DEF Forget
  <1>10. CASE Die(r)
    <2>1. /\ run[r].stream \o <<>> = run[r].stream
          /\ run[r].stream \o <<"fail">> = Append(run[r].stream, "fail")
          /\ <<>> \in Seq(Msgs)
      BY <1>1
    <2>2. Append(run[r].stream, "fail") \in Seq(Events)
      BY <1>2
    <2>3. \E s : /\ s = run[r].stream \/ s = Append(run[r].stream, "fail")
                /\ run' = [run EXCEPT ![r].agent = "down", ![r].stream = s, ![r].box = <<>>]
      BY <1>10, <2>1 DEF Die
    <2>4. /\ UNCHANGED <<live, call, started, boot, posted>> /\ Learned /\ run[r].agent # "down"
      BY <1>10 DEF Die
    <2> QED BY <1>1, <2>1, <2>2, <2>3, <2>4
  <1> QED BY <1>3, <1>4, <1>5, <1>6, <1>7, <1>8, <1>9, <1>10 DEF AgentStep, AgentFault

LEMMA UserMoves ==
    ASSUME WInv, Interrupt \/ RespondInput
    PROVE  live \in RunIds /\ Works(live)
  <1>1. live \in RunIds
    BY RunsAssumption DEF WInv, IInv, Shape, Interrupt, RespondInput, RunIds
  <1>2. RunWired(run[live]) /\ DOMAIN run = RunIds
    BY <1>1 DEF WInv, Wired, IInv, Shape
  <1> USE DEF Works, OneRun, Learned, Ahead, RunWired, Mailed, record, history
  <1>3. CASE Interrupt
    BY <1>1, <1>2, <1>3 DEF Interrupt, Cancelled
  <1>4. CASE RespondInput
    BY <1>1, <1>2, <1>4 DEF RespondInput
  <1> QED BY <1>1, <1>3, <1>4

\* What a run is when it ends its turn: itself, or without the head of its stream.
SameMessages(r, d) ==
    /\ RunWired(d) /\ d.first = run[r].first /\ d.ledger = run[r].ledger
    /\ d.claim = run[r].claim /\ d.box = run[r].box /\ d.agent = run[r].agent
    /\ d.phase = run[r].phase
    /\ d.stream = run[r].stream \/ (run[r].stream # <<>> /\ d.stream = Tail(run[r].stream))

LEMMA Reading ==
    ASSUME WInv, NEW r \in RunIds
    PROVE  /\ SameMessages(r, run[r]) /\ SameMessages(r, [run[r] EXCEPT !.cancel = TRUE])
           /\ run[r].stream # <<>> => SameMessages(r, Popped(r))
           /\ run[r].phase \in Busy => live = r /\ r \in Callers /\ call[r].pc = "idle" /\ call[r].msgs = <<>>
  <1>1. RunWired(run[r])
    BY DEF WInv, Wired
  <1>2. SameMessages(r, run[r]) /\ SameMessages(r, [run[r] EXCEPT !.cancel = TRUE])
    BY <1>1 DEF SameMessages, RunWired
  <1>3. run[r].stream # <<>> => SameMessages(r, Popped(r))
    BY <1>1, WiredSeqs DEF SameMessages, RunWired, Popped
  <1>4. run[r].phase \in Busy => live = r /\ r \in Callers /\ call[r].pc = "idle" /\ call[r].msgs = <<>>
    BY RunsAssumption DEF WInv, IInv, InMap, Busy, Wired, Spawned, CallWired, Callers, RunIds
  <1> QED BY <1>2, <1>3, <1>4

(* Gone, for a run that hands on next. *)
LEMMA GoneMoves ==
    ASSUME WInv, NEW r \in RunIds, run[r].phase \in Busy, NEW d,
           RunWired(d), d.phase = run[r].phase, d.ledger = run[r].ledger,
           NEW st, NEW next \in Seq(Msgs), NEW again \in BOOLEAN, Gone(r, d, st, next, again),
           UNCHANGED <<started, boot, posted>>, Learned,
           run[r].phase \in Carrying =>
                /\ run[r].first \in excused' \/ next = <<run[r].first>>
                /\ \A i \in DOMAIN run[r].ledger : run[r].ledger[i] \in dropped',
           run[r].phase = "leaving" => next = run[r].claim
    PROVE  Ends(r)
  <1> DEFINE e == [d EXCEPT !.phase = "ended", !.agent = "down", !.box = <<>>,
                            !.stream = <<>>, !.bus = <<>>, !.pending = FALSE]
  <1>1. RunWired(e) /\ e.phase = "ended" /\ e.ledger = run[r].ledger
    BY DEF RunWired, Busy
  <1>2. /\ run' = [run EXCEPT ![r] = e] /\ live = r /\ live' = 0
        /\ call' = IF next = <<>> THEN call ELSE [call EXCEPT ![r] = Dispatch(next, again)]
    BY Reading DEF Gone, Owns
  <1> HIDE DEF e
  <1>3. OneRun(r) /\ run'[r].phase \notin Busy /\ run'[r].ledger = run[r].ledger
    BY <1>1, <1>2 DEF OneRun, WInv, IInv, Shape, Busy
  <1> QED BY <1>2, <1>3 DEF Ends

LEMMA ClaimMoves ==
    ASSUME WInv, NEW r \in RunIds, run[r].phase \in Carrying, NEW d, SameMessages(r, d), NEW st,
           Claim(r, d, st), UNCHANGED <<started, boot, posted, taken, dropped>>
    PROVE  Claims(r)
  <1> DEFINE next == IF d.interrupted THEN <<>> ELSE d.ledger
             e == [d EXCEPT !.ledger = <<>>, !.phase = "leaving", !.claim = next, !.final = st]
  <1>1. live = r
    BY Reading DEF Busy, Carrying
  <1>2. /\ run' = [run EXCEPT ![r] = [[d EXCEPT !.ledger = <<>>] EXCEPT !.phase = "leaving",
                                                            !.claim = next, !.final = st]]
        /\ excused' = excused \cup ({d.first} \ taken)
                              \cup (IF d.interrupted THEN ToSet(d.ledger) ELSE {})
        /\ UNCHANGED <<live, call>>
    BY <1>1 DEF Claim, Orphans, Owns
  <1>3. run' = [run EXCEPT ![r] = e]
    BY <1>2
  <1>4. next \in Seq(Msgs) /\ (next = run[r].ledger \/ d.interrupted)
    BY DEF SameMessages, RunWired
  <1> HIDE DEF next
  <1>5. /\ RunWired(e) /\ e.phase = "leaving" /\ e.claim = next
    BY <1>4 DEF SameMessages, RunWired, Busy, Carrying
  <1> HIDE DEF e
  <1>6. OneRun(r) /\ run'[r] = e
    BY <1>2, <1>3, <1>5 DEF OneRun, Learned, WInv, IInv, Shape
  <1>7. run[r].first \in taken \cup excused'
    BY <1>2 DEF SameMessages
  <1>8. \A i \in DOMAIN run[r].ledger :
          run[r].ledger[i] \in excused' \/ run'[r].claim = run[r].ledger
    BY <1>2, <1>4, <1>5, <1>6 DEF SameMessages, ToSet
  <1> QED BY <1>1, <1>2, <1>5, <1>6, <1>7, <1>8 DEF Claims

LEMMA DoneMoves ==
    ASSUME WInv, NEW r \in RunIds, InLoop(r), NEW d, SameMessages(r, d), NEW kind, Done(r, d, kind),
           UNCHANGED <<started, boot, posted, taken>>
    PROVE  Works(r) \/ Claims(r) \/ Ends(r)
  <1>1. run[r].phase \in Busy /\ run[r].phase \in Carrying
    BY DEF InLoop, Busy, Carrying
  <1>2. SameMessages(r, Unasked(r, d))
    BY DEF SameMessages, RunWired, Unasked
  <1>3. CASE Gone(r, d, status, <<d.first>>, TRUE) /\ UNCHANGED excused
             /\ dropped' = dropped \cup ToSet(d.ledger)
    <2>1. <<d.first>> \in Seq(Msgs) /\ d.first = run[r].first
      BY <1>1 DEF SameMessages, RunWired
    <2>2. Learned /\ \A i \in DOMAIN run[r].ledger : run[r].ledger[i] \in dropped'
      BY <1>3 DEF Learned, SameMessages, ToSet
    <2> DEFINE next == <<d.first>>
    <2>3. RunWired(d) /\ d.phase = run[r].phase /\ d.ledger = run[r].ledger
      BY DEF SameMessages
    <2>4. run[r].phase # "leaving" /\ next = <<run[r].first>> /\ next \in Seq(Msgs)
      BY <2>1 DEF InLoop
    <2>5. Gone(r, d, status, next, TRUE)
      BY <1>3
    <2> HIDE DEF next
    <2> QED BY <1>1, <2>2, <2>3, <2>4, <2>5, GoneMoves
  <1>4. CASE Complete(r, Unasked(r, d)) /\ UNCHANGED dropped
    <2> DEFINE u == Unasked(r, d)
               e == Park(u)
    <2>1. /\ SameMessages(r, e) \/ e.phase = "parked"
          /\ RunWired(e) /\ e.phase = "parked" /\ e.first = run[r].first
          /\ e.ledger = run[r].ledger /\ e.claim = run[r].claim /\ e.box = run[r].box
          /\ e.agent = run[r].agent
          /\ e.stream = run[r].stream \/ (run[r].stream # <<>> /\ e.stream = Tail(run[r].stream))
      BY <1>1, <1>2 DEF Park, SameMessages, RunWired, Busy
    <2>2. run' = [run EXCEPT ![r] = e] /\ UNCHANGED <<live, call, excused>>
      BY <1>4 DEF Complete
    <2> HIDE DEF e
    <2>3. run'[r] = e /\ OneRun(r)
      BY <1>4, <2>1, <2>2 DEF OneRun, Learned, WInv, IInv, Shape
    <2>4. Ahead(run[r], e, taken')
      BY <2>1 DEF Ahead, Mailed
    <2>5. {run[r].phase, e.phase} \subseteq Carrying
      BY <1>1, <2>1 DEF Carrying
    <2> QED BY <2>1, <2>2, <2>3, <2>4, <2>5 DEF Works
  <1>5. CASE (\E st : Claim(r, Unasked(r, d), st)) /\ UNCHANGED dropped
    BY <1>1, <1>2, <1>5, ClaimMoves
  <1> QED BY <1>3, <1>4, <1>5 DEF Done

LEMMA RunMoves ==
    ASSUME WInv, NEW r \in RunIds, RunTask(r)
    PROVE  Works(r) \/ Steers(r) \/ Claims(r) \/ Ends(r)
  <1>1. RunWired(run[r]) /\ DOMAIN run = RunIds
    BY DEF WInv, Wired, IInv, Shape
  <1>2. run[r].stream # <<>> => Tail(run[r].stream) \in Seq(Events)
    BY <1>1, WiredSeqs DEF RunWired
  <1>3. CASE Spawn(r) \/ SeeCancel(r) \/ Flush(r) \/ GateOpens(r)
    <2> USE <1>1 DEF history, Works, OneRun, Learned, Ahead, RunWired, Mailed
    <2>1. CASE Spawn(r)  BY <2>1 DEF Spawn, record, Busy, Carrying
    <2>2. CASE SeeCancel(r)  BY <2>2 DEF SeeCancel, record
    <2>3. CASE Flush(r)  BY <2>3 DEF Flush, chat
    <2>4. CASE GateOpens(r)  BY <2>4 DEF GateOpens, record
    <2> QED BY <1>3, <2>1, <2>2, <2>3, <2>4
  <1>4. CASE Bridge(r)
    <2> DEFINE d == [run[r] EXCEPT !.bus = Tail(@)]
    <2>0. UNCHANGED <<live, call, started, boot, posted>> /\ Learned
      BY <1>4 DEF Bridge, history, Learned
    <2>1. \/ run' = [run EXCEPT ![r] = [d EXCEPT !.text = TRUE, !.asked = TRUE]]
          \/ run' = [run EXCEPT ![r] = [d EXCEPT !.pending = FALSE]]
          \/ run' = [run EXCEPT ![r] = [d EXCEPT !.asked = FALSE]]
          \/ run' = [run EXCEPT ![r] = d]
      BY <1>4 DEF Bridge
    <2>2. /\ SameMessages(r, d) /\ d.stream = run[r].stream
      BY <1>1 DEF SameMessages, RunWired
    <2> HIDE DEF d
    <2>3. /\ SameMessages(r, run'[r]) /\ run'[r].stream = run[r].stream
          /\ DOMAIN run' = RunIds /\ \A q \in RunIds \ {r} : run'[q] = run[q]
      BY <1>1, <2>1, <2>2 DEF SameMessages, RunWired
    <2> QED BY <2>0, <2>3 DEF Works, OneRun, Ahead, SameMessages, Mailed
  <1>5. CASE ReadStarted(r) \/ ReadText(r)
    <2> DEFINE d == Popped(r)
    <2>0. UNCHANGED <<live, call, started, boot, posted>> /\ Learned /\ run[r].stream # <<>>
          /\ run[r].phase \in Carrying
      BY <1>5 DEF ReadStarted, ReadText, Reads, Next1, InLoop, Carrying, history, Learned
    <2>1. \/ run' = [run EXCEPT ![r] = d]
          \/ run' = [run EXCEPT ![r] = [d EXCEPT !.saw = TRUE]]
          \/ run' = [run EXCEPT ![r] = [d EXCEPT !.phase = "turn", !.text = TRUE]]
      BY <1>5 DEF ReadStarted, ReadText
    <2>2. SameMessages(r, d) /\ d.stream = Tail(run[r].stream)
      BY <1>1, <2>0, Reading DEF Popped, RunWired
    <2> HIDE DEF d
    <2>3. /\ RunWired(run'[r]) /\ run'[r].first = run[r].first /\ run'[r].ledger = run[r].ledger
          /\ run'[r].claim = run[r].claim /\ run'[r].box = run[r].box
          /\ run'[r].agent = run[r].agent /\ run'[r].stream = Tail(run[r].stream)
          /\ run'[r].phase \in {"turn", run[r].phase}
          /\ DOMAIN run' = RunIds /\ \A q \in RunIds \ {r} : run'[q] = run[q]
      BY <1>1, <2>0, <2>1, <2>2 DEF SameMessages, RunWired, Busy, Carrying
    <2>4. run[r].phase # "starting"
      BY <1>5 DEF ReadStarted, ReadText, Reads, Next1, InLoop
    <2> QED BY <2>0, <2>3, <2>4 DEF Works, OneRun, Ahead, Mailed, Carrying
  <1>6. CASE ReadSteered(r)
    <2>0. /\ UNCHANGED <<live, call, started, boot, posted>> /\ Learned
          /\ run[r].stream # <<>> /\ Head(run[r].stream) \in Msgs
          /\ run[r].phase \in {"turn", "parked"}
      BY <1>6 DEF ReadSteered, Reads, Next1, InLoop, history, Learned
    <2>1. live = r
      BY <2>0, Reading DEF Busy
    <2> DEFINE l == IF run[r].ledger # <<>> THEN Tail(run[r].ledger) ELSE run[r].ledger
               d == Popped(r)
               e == [d EXCEPT !.phase = "turn", !.text = FALSE, !.asked = FALSE, !.ledger = l]
    <2>2. run' = [run EXCEPT ![r] = e]
      <3>1. Popped(r).ledger = run[r].ledger
        BY <1>1 DEF Popped, RunWired
      <3> QED BY <1>6, <2>1, <3>1 DEF ReadSteered, Owns
    <2>3. l \in Seq(Msgs)
      BY <1>1, WiredSeqs DEF RunWired
    <2>4. SameMessages(r, d) /\ d.stream = Tail(run[r].stream)
      BY <1>1, <2>0, Reading DEF Popped, RunWired
    <2> HIDE DEF d, l
    <2>5. /\ RunWired(e) /\ e.phase = "turn" /\ e.first = run[r].first /\ e.claim = run[r].claim
          /\ e.box = run[r].box /\ e.agent = run[r].agent /\ e.stream = Tail(run[r].stream)
          /\ e.ledger = l
      BY <2>0, <2>3, <2>4 DEF SameMessages, RunWired, Busy
    <2> HIDE DEF e
    <2>6. run'[r] = e /\ OneRun(r)
      BY <1>1, <2>0, <2>2, <2>5 DEF OneRun
    <2> QED BY <2>0, <2>1, <2>5, <2>6 DEF Steers, Mailed, Carrying, l
  <1>7. CASE Quiesce(r)
    <2> DEFINE e == [Park(run[r]) EXCEPT !.saw = run[r].saw]
    <2>1. run' = [run EXCEPT ![r] = e] /\ UNCHANGED <<live, call, started, boot, posted>> /\ Learned
          /\ run[r].phase = "turn"
      BY <1>7 DEF Quiesce, history, Learned
    <2>2. /\ RunWired(e) /\ e.phase = "parked" /\ e.first = run[r].first /\ e.claim = run[r].claim
          /\ e.box = run[r].box /\ e.agent = run[r].agent /\ e.stream = run[r].stream
          /\ e.ledger = run[r].ledger
      BY <1>1, <2>1 DEF Park, RunWired, Busy
    <2> HIDE DEF e
    <2>3. run'[r] = e /\ OneRun(r)
      BY <1>1, <2>1, <2>2 DEF OneRun
    <2> QED BY <2>1, <2>2, <2>3 DEF Works, Ahead, Mailed, Carrying
  <1>8. CASE NoStart(r)
    <2>1. /\ UNCHANGED <<started, boot, posted>> /\ Learned /\ run[r].phase = "starting"
          /\ Gone(r, run[r], "errored", <<>>, FALSE) /\ run[r].first \in excused'
          /\ \A i \in DOMAIN run[r].ledger : run[r].ledger[i] \in dropped'
      BY <1>8 DEF NoStart, Learned, ToSet
    <2>2. <<>> \in Seq(Msgs) /\ run[r].phase \in Busy
      BY <2>1 DEF Busy
    <2> QED BY <1>1, <2>1, <2>2, GoneMoves
  <1>9. CASE Leave(r)
    <2> DEFINE d == [run[r] EXCEPT !.claim = <<>>]
    <2>1. /\ UNCHANGED <<started, boot, posted>> /\ Learned /\ run[r].phase = "leaving"
          /\ Gone(r, d, run[r].final, run[r].claim, FALSE)
      BY <1>9 DEF Leave, Learned, history
    <2>2. RunWired(d) /\ d.phase = run[r].phase /\ d.ledger = run[r].ledger /\ run[r].claim \in Seq(Msgs)
      BY <1>1 DEF RunWired
    <2>3. run[r].phase \in Busy /\ run[r].phase \notin Carrying
      BY <2>1 DEF Busy, Carrying
    <2> HIDE DEF d
    <2> QED BY <2>1, <2>2, <2>3, GoneMoves
  <1>10. CASE Reap(r)
    <2>1. run[r].phase \in Carrying /\ Claim(r, [run[r] EXCEPT !.cancel = TRUE], "idle")
          /\ UNCHANGED <<started, boot, posted, taken, dropped>>
      BY <1>10 DEF Reap, DoneFrame, Carrying
    <2>2. SameMessages(r, [run[r] EXCEPT !.cancel = TRUE])
      BY Reading
    <2> QED BY <2>1, <2>2, ClaimMoves
  <1>11. CASE Deadline(r)
    BY <1>11, Reading, DoneMoves DEF Deadline, DoneFrame
  <1>12. CASE ReadDone(r)
    BY <1>12, Reading, DoneMoves DEF ReadDone, Next1, DoneFrame
  <1>13. CASE ReadEnd(r)
    <2>1. InLoop(r) /\ run[r].phase \in Carrying /\ UNCHANGED <<started, boot, posted, taken>>
          /\ SameMessages(r, run[r])
      BY <1>13, Reading DEF ReadEnd, Next1, InLoop, DoneFrame, Carrying
    <2>2. CASE Claim(r, run[r], "idle") /\ UNCHANGED dropped
      BY <2>1, <2>2, ClaimMoves
    <2>3. CASE \E kind : Done(r, run[r], kind)
      BY <2>1, <2>3, DoneMoves
    <2> QED BY <1>13, <2>2, <2>3 DEF ReadEnd
  <1> QED BY <1>3, <1>4, <1>5, <1>6, <1>7, <1>8, <1>9, <1>10, <1>11, <1>12, <1>13 DEF RunTask

-----------------------------------------------------------------------------
(* The shapes are kept. *)

LEMMA WiredStays ==
    ASSUME WInv, NEW r \in RunIds, OneRun(r), UNCHANGED <<live, call>>,
           run[r].phase \in Busy <=> run'[r].phase \in Busy
    PROVE  Wired'
  <1>1. \A q \in RunIds : RunWired(run'[q]) /\ (run'[q].phase \in Busy <=> run[q].phase \in Busy)
    BY DEF OneRun, WInv, Wired
  <1>2. live # 0 => live \in RunIds
    BY RunsAssumption DEF WInv, IInv, Shape, RunIds
  <1>3. \A p \in Callers : CallWired(p)'
    BY DEF OneRun, WInv, Wired, CallWired
  <1> QED BY <1>1, <1>2, <1>3 DEF OneRun, WInv, Wired, Spawned

LEMMA WiredEnds ==
    ASSUME WInv, NEW r \in RunIds, Ends(r)
    PROVE  Wired'
  <1>1. PICK next \in Seq(Msgs), again \in BOOLEAN :
           call' = IF next = <<>> THEN call ELSE [call EXCEPT ![r] = Dispatch(next, again)]
    BY DEF Ends
  <1>2. /\ run[r].phase \in Busy /\ run'[r].phase \notin Busy /\ live = r /\ live' = 0
        /\ \A q \in RunIds \ {r} : run'[q] = run[q]
        /\ RunWired(run'[r]) /\ UNCHANGED <<started, boot, posted>>
    BY DEF Ends, OneRun
  <1>3. r \in Callers /\ r # 0 /\ 0 \in Callers
    BY RunsAssumption DEF Callers, RunIds
  <1>4. /\ \A p \in Callers \ {r} : call'[p] = call[p]
        /\ call'[r] = call[r] \/ (next # <<>> /\ call'[r] = Dispatch(next, again))
    BY <1>1, <1>3 DEF WInv, IInv, Shape
  <1>5. CallWired(r)'
    BY <1>2, <1>3, <1>4 DEF WInv, Wired, CallWired, Dispatch, NoCall
  <1>6. \A p \in Callers : CallWired(p)'
    BY <1>2, <1>4, <1>5 DEF WInv, Wired, CallWired
  <1>7. Spawned'
    BY <1>2, <1>3, <1>4, RunsAssumption DEF WInv, Wired, Spawned, Callers, RunIds
  <1>8. call'[r].pc = "sent" => call[r].pc = "sent"
    BY <1>4 DEF Dispatch, NoCall
  <1>9. \A p, q \in Callers : call'[p].pc = "sent" /\ call'[q].pc = "sent" => p = q
    BY <1>4, <1>8 DEF WInv, Wired
  <1>10. 0 <= started
    BY DEF WInv, IInv, Shape
  <1> QED BY <1>2, <1>6, <1>7, <1>9, <1>10 DEF WInv, Wired

LEMMA WiredRuns ==
    ASSUME WInv, NEW r \in RunIds, Works(r) \/ Steers(r) \/ Claims(r) \/ Ends(r)
    PROVE  Wired'
  <1>1. CASE Works(r) \/ Steers(r) \/ Claims(r)
    BY <1>1, WiredStays DEF Works, Steers, Claims, Busy, Carrying
  <1> QED BY <1>1, WiredEnds

CallTyped(c) ==
    /\ c.msgs \in Seq(Msgs) /\ (c.pc # "done" => c.msgs # <<>>) /\ c.pc # "idle"
    /\ c.pc \in {"sent", "logged"} => c.run \in 1..started

(* A caller moves on. *)
LEMMA WiredCall ==
    ASSUME WInv, NEW p \in Callers, call[p].pc # "idle",
           NEW c, call' = [call EXCEPT ![p] = c], CallTyped(c),
           c.pc = "sent" => \A q \in Callers \ {p} : call[q].pc # "sent",
           \A q \in RunIds : RunWired(run'[q]) /\ run'[q].phase = run[q].phase,
           UNCHANGED <<live, started, boot>>, posted' \in Seq(Msgs)
    PROVE  Wired'
  <1>1. call'[p] = c /\ \A q \in Callers \ {p} : call'[q] = call[q]
    BY DEF WInv, IInv, Shape
  <1>2. live # 0 => live \in RunIds
    BY RunsAssumption DEF WInv, IInv, Shape, RunIds
  <1>3. \A q \in Callers : CallWired(q)'
    BY <1>1 DEF WInv, Wired, CallWired, CallTyped
  <1>4. Spawned'
    BY <1>1, RunsAssumption DEF WInv, Wired, Spawned, Callers, RunIds
  <1>5. \A q, s \in Callers : call'[q].pc = "sent" /\ call'[s].pc = "sent" => q = s
    BY <1>1 DEF WInv, Wired
  <1> QED BY <1>2, <1>3, <1>4, <1>5 DEF WInv, Wired

LEMMA ReturnedTyped ==
    ASSUME WInv, NEW p \in Callers, call[p].pc \notin {"idle", "done"}
    PROVE  /\ CallTyped(Returned(p)) /\ Returned(p).pc \in {"look", "done"}
           /\ Head(call[p].msgs) \in Msgs
  <1>1. call[p].msgs \in Seq(Msgs) /\ call[p].msgs # <<>> /\ CallShape(call[p])
    BY DEF WInv, Wired, CallWired, IInv, Shape
  <1>2. CASE Len(call[p].msgs) > 1
    <2>1. Tail(call[p].msgs) \in Seq(Msgs) /\ Len(Tail(call[p].msgs)) = Len(call[p].msgs) - 1
      BY <1>1
    <2>2. Tail(call[p].msgs) # <<>>
      <3> DEFINE t == Tail(call[p].msgs)
      <3>1. Len(t) > 0
        BY <1>1, <1>2, <2>1
      <3>2. ASSUME NEW q, Len(q) > 0 PROVE q # <<>>
        BY <3>2
      <3> QED BY <3>1, <3>2
    <2> QED BY <1>1, <1>2, <2>1, <2>2 DEF CallTyped, Returned, Dispatch, NoCall
  <1>3. CASE ~(Len(call[p].msgs) > 1)
    <2> DEFINE c == [call[p] EXCEPT !.pc = "done", !.msgs = <<>>]
    <2>1. Returned(p) = c
      BY <1>3 DEF Returned
    <2>2. c.pc = "done" /\ c.msgs = <<>> /\ <<>> \in Seq(Msgs)
      BY <1>1 DEF CallShape
    <2> HIDE DEF c
    <2> QED BY <1>1, <2>1, <2>2 DEF CallTyped
  <1>4. Head(call[p].msgs) \in Msgs
    BY <1>1
  <1> QED BY <1>2, <1>3, <1>4

(* retain keeps every entry but those of m. *)
LEMMA WithoutKeeps ==
    ASSUME NEW ledger \in Seq(Msgs), NEW m, NEW l \in Without(ledger, m)
    PROVE  /\ l \in Seq(Msgs)
           /\ \A i \in DOMAIN ledger : ledger[i] # m => \E j \in DOMAIN l : l[j] = ledger[i]
  <1> DEFINE kept == {i \in DOMAIN ledger : ledger[i] # m}
             n == Cardinality(kept)
             D == 1..n
  <1>1. IsFiniteSet(kept) /\ n \in Nat
    <2>1. IsFiniteSet(1..Len(ledger)) /\ kept \in SUBSET (1..Len(ledger))
      BY FS_Interval
    <2>2. IsFiniteSet(kept)
      BY <2>1, FS_Subset
    <2> QED BY <2>2, FS_CardinalityType
  <1>2. kept \subseteq Nat /\ \A i \in kept : ledger[i] \in Msgs
    OBVIOUS
  <1>3. \E at \in [D -> kept] : l = [j \in D |-> ledger[at[j]]]
                               /\ \A i, j \in D : i < j => at[i] < at[j]
    BY DEF Without
  <1> HIDE DEF n
  <1>4. PICK at \in [D -> kept] : /\ l = [j \in D |-> ledger[at[j]]]
                                  /\ \A i, j \in D : i < j => at[i] < at[j]
    BY <1>3
  <1> HIDE DEF kept
  <1>5. \A i, j \in D : at[i] = at[j] => i = j
    <2>1. \A i \in D : i \in Nat /\ at[i] \in kept
      BY <1>1, <1>4
    <2>2. \A i \in D : at[i] \in Nat
      BY <1>2, <2>1
    <2> QED BY <1>4, <2>1, <2>2
  <1>6. IsFiniteSet(D) /\ Cardinality(D) = n
    BY <1>1, FS_Interval
  <1>7. at \in Injection(D, kept)
    BY <1>5 DEF Injection, IsInjective
  <1>8. at \in Surjection(D, kept)
    BY <1>1, <1>6, <1>7, FS_Injection DEF n
  <1>9. DOMAIN l = D /\ \A j \in D : l[j] \in Msgs
    BY <1>2, <1>4
  <1>10. l \in Seq(Msgs)
    BY <1>1, <1>4, <1>9
  <1>11. ASSUME NEW i \in DOMAIN ledger, ledger[i] # m
         PROVE  \E j \in DOMAIN l : l[j] = ledger[i]
    <2>1. i \in kept
      BY <1>11 DEF kept
    <2>2. \E j \in D : at[j] = i
      BY <1>8, <2>1 DEF Surjection
    <2> QED BY <1>4, <1>9, <2>2
  <1> QED BY <1>10, <1>11

(* Of the run it touches a caller changes the mailbox, the ledger or the cancel. *)
LEMMA WiredTouch ==
    ASSUME WInv, NEW r \in RunIds, NEW q \in Seq(Msgs),
           \/ run' = [run EXCEPT ![r].box = q] \/ run' = [run EXCEPT ![r].ledger = q]
           \/ run' = [run EXCEPT ![r] = Cancelled(run[r])]
    PROVE  \A s \in RunIds : RunWired(run'[s]) /\ run'[s].phase = run[s].phase
  <1>1. RunWired(run[r]) /\ DOMAIN run = RunIds /\ \A s \in RunIds : RunWired(run[s])
    BY DEF WInv, Wired, IInv, Shape
  <1> DEFINE e == run'[r]
  <1>2. RunWired(e) /\ e.phase = run[r].phase /\ \A s \in RunIds \ {r} : run'[s] = run[s]
    <2>1. CASE run' = [run EXCEPT ![r].box = q]
      BY <1>1, <2>1 DEF RunWired
    <2>2. CASE run' = [run EXCEPT ![r].ledger = q]
      BY <1>1, <2>2 DEF RunWired
    <2>3. CASE run' = [run EXCEPT ![r] = Cancelled(run[r])]
      BY <1>1, <2>3 DEF RunWired, Cancelled
    <2> QED BY <2>1, <2>2, <2>3
  <1> QED BY <1>1, <1>2

LEMMA PostKeeps ==
    ASSUME WInv, NEW m \in Msgs, Post(m)
    PROVE  posted' \in Seq(Msgs)
  BY WiredSeqs DEF WInv, Wired, Post

LEMMA WiredCalls ==
    ASSUME WInv, Ordered', NEW p \in Callers, CallStep(p), ~Launch(p)
    PROVE  Wired'
  <1>1. /\ call[p].pc \notin {"idle", "done"} /\ UNCHANGED <<live, started, boot>>
        /\ DOMAIN call = Callers /\ DOMAIN run = RunIds /\ CallShape(call[p])
    BY DEF CallStep, Send, Refused, Log, Check, Stop, Settle, WInv, IInv, Shape, record
  <1>2. /\ call[p].msgs \in Seq(Msgs) /\ call[p].msgs # <<>> /\ Head(call[p].msgs) \in Msgs
        /\ CallTyped(call[p]) /\ CallTyped(Returned(p)) /\ Returned(p).pc \in {"look", "done"}
    BY <1>1, ReturnedTyped DEF WInv, Wired, CallWired, CallTyped
  <1>3. \A r \in RunIds : RunWired(run[r])
    BY DEF WInv, Wired
  <1>4. posted \in Seq(Msgs)
    BY DEF WInv, Wired
  <1>5. CASE Send(p)
    <2> DEFINE c == [call[p] EXCEPT !.pc = "sent", !.run = live]
               b == Append(run[live].box, Head(call[p].msgs))
    <2>1. live \in RunIds /\ live \in 1..started
      BY <1>5, RunsAssumption DEF Send, WInv, Wired, IInv, Shape, RunIds
    <2>2. b \in Seq(Msgs)
      BY <1>2, <1>3, <2>1, WiredSeqs DEF RunWired
    <2>3. CallTyped(c) /\ c.pc = "sent"
      BY <1>1, <1>2, <2>1 DEF CallShape, CallTyped
    <2>4. call' = [call EXCEPT ![p] = c] /\ run' = [run EXCEPT ![live].box = b]
          /\ (\A q \in Callers : call[q].pc # "sent") /\ UNCHANGED posted
      BY <1>1, <1>5 DEF Send, Through, Ordered, record
    <2> HIDE DEF b, c
    <2>5. \A s \in RunIds : RunWired(run'[s]) /\ run'[s].phase = run[s].phase
      BY <2>1, <2>2, <2>4, WiredTouch
    <2> QED BY <1>1, <1>4, <2>3, <2>4, <2>5, WiredCall
  <1>6. CASE UNCHANGED <<run, posted>> /\ \E c : CallTyped(c) /\ c.pc # "sent"
                                               /\ call' = [call EXCEPT ![p] = c]
    BY <1>1, <1>3, <1>4, <1>6, WiredCall
  <1>7. CASE Refused(p)
    <2> DEFINE c == [call[p] EXCEPT !.kind = "run"]
               d == [call[p] EXCEPT !.pc = IF live = 0 THEN "fresh" ELSE "stop"]
    <2>1. CallTyped(c) /\ c.pc # "sent" /\ CallTyped(d) /\ d.pc # "sent"
      BY <1>1, <1>2, <1>7 DEF Refused, CallShape, CallTyped
    <2>2. (call' = [call EXCEPT ![p] = c] \/ call' = [call EXCEPT ![p] = d]) /\ UNCHANGED <<run, posted>>
      BY <1>1, <1>7 DEF Refused, record
    <2> HIDE DEF c, d
    <2> QED BY <1>6, <2>1, <2>2
  <1>8. CASE Log(p)
    <2> DEFINE c == [call[p] EXCEPT !.pc = "logged"]
               r == call[p].run
               l == Append(run[r].ledger, Head(call[p].msgs))
    <2>1. r \in RunIds
      BY <1>1, <1>8 DEF Log, CallShape
    <2>2. l \in Seq(Msgs)
      BY <1>2, <1>3, <2>1, WiredSeqs DEF RunWired
    <2>3. CallTyped(c) /\ c.pc = "logged"
      BY <1>1, <1>2, <1>8 DEF Log, CallShape, CallTyped
    <2>4. call' = [call EXCEPT ![p] = c] /\ run' = [run EXCEPT ![r].ledger = l]
          /\ Post(Head(call[p].msgs))
      BY <1>1, <1>8 DEF Log
    <2>5. posted' \in Seq(Msgs)
      BY <1>2, <2>4, PostKeeps
    <2> HIDE DEF l, c, r
    <2>6. \A s \in RunIds : RunWired(run'[s]) /\ run'[s].phase = run[s].phase
      BY <2>1, <2>2, <2>4, WiredTouch
    <2> QED BY <1>1, <2>3, <2>4, <2>5, <2>6, WiredCall
  <1>9. CASE Check(p)
    <2> DEFINE r == call[p].run
               m == Head(call[p].msgs)
               c == [call[p] EXCEPT !.pc = IF call[p].kind = "steer" THEN "look" ELSE "stop",
                                    !.kind = "run"]
    <2>1. CASE call' = [call EXCEPT ![p] = Returned(p)] /\ UNCHANGED run
      BY <1>2, <1>6, <1>9, <2>1 DEF Check
    <2>2. CASE /\ \E l \in Without(run[r].ledger, m) : run' = [run EXCEPT ![r].ledger = l]
               /\ call' = [call EXCEPT ![p] = c]
      <3>1. r \in RunIds
        BY <1>1, <1>9 DEF Check, CallShape
      <3>2. PICK l \in Without(run[r].ledger, m) : run' = [run EXCEPT ![r].ledger = l]
        BY <2>2
      <3>3. l \in Seq(Msgs)
        BY <1>3, <3>1, WithoutKeeps DEF RunWired
      <3>4. \A s \in RunIds : RunWired(run'[s]) /\ run'[s].phase = run[s].phase
        BY <3>1, <3>2, <3>3, WiredTouch
      <3>5. CallTyped(c) /\ c.pc # "sent"
        BY <1>1, <1>2 DEF CallShape, CallTyped
      <3>6. UNCHANGED posted
        BY <1>9 DEF Check
      <3> HIDE DEF c
      <3> QED BY <1>1, <1>4, <2>2, <3>4, <3>5, <3>6, WiredCall
    <2>3. call' = [call EXCEPT ![p].pc = IF call[p].kind = "steer" THEN "look" ELSE "stop",
                               ![p].kind = "run"]
          => call' = [call EXCEPT ![p] = c]
      BY <1>1
    <2> QED BY <1>9, <2>1, <2>2, <2>3 DEF Check
  <1>10. CASE Stop(p)
    <2>1. CASE live = 0
      <3> DEFINE c == [call[p] EXCEPT !.pc = "fresh"]
      <3>1. CallTyped(c) /\ c.pc # "sent"
        BY <1>1, <1>2 DEF CallShape, CallTyped
      <3>2. call' = [call EXCEPT ![p] = c] /\ UNCHANGED <<run, posted>>
        BY <1>1, <1>10, <2>1 DEF Stop, record
      <3> HIDE DEF c
      <3> QED BY <1>6, <3>1, <3>2
    <2>2. CASE live # 0
      <3> DEFINE c == [call[p] EXCEPT !.pc = "wait", !.run = live]
      <3>1. CallTyped(c) /\ c.pc = "wait"
        BY <1>1, <1>2 DEF CallShape, CallTyped
      <3>2. /\ call' = [call EXCEPT ![p] = c] /\ UNCHANGED posted
            /\ run' = [run EXCEPT ![live] = Cancelled(run[live])]
        BY <1>1, <1>10, <2>2 DEF Stop, record
      <3>3. live \in RunIds
        BY <2>2, RunsAssumption DEF WInv, IInv, Shape, RunIds
      <3>4. \A s \in RunIds : RunWired(run'[s]) /\ run'[s].phase = run[s].phase
        BY <1>2, <3>2, <3>3, WiredTouch
      <3> HIDE DEF c
      <3> QED BY <1>1, <1>4, <3>1, <3>2, <3>4, WiredCall
    <2> QED BY <2>1, <2>2
  <1>11. CASE Settle(p)
    <2> DEFINE c == [call[p] EXCEPT !.pc = "fresh"]
    <2>1. CallTyped(c) /\ c.pc # "sent"
      BY <1>1, <1>2 DEF CallShape, CallTyped
    <2>2. call' = [call EXCEPT ![p] = c] /\ UNCHANGED <<run, posted>>
      BY <1>1, <1>11 DEF Settle, record
    <2> HIDE DEF c
    <2> QED BY <1>6, <2>1, <2>2
  <1> QED BY <1>5, <1>7, <1>8, <1>9, <1>10, <1>11 DEF CallStep

LEMMA WiredLaunch ==
    ASSUME WInv, NEW p \in Callers, Launch(p)
    PROVE  Wired'
  <1> DEFINE n == started + 1
             d == NewRun(Head(call[p].msgs), call[p].retry, known)
  <1>1. n \in RunIds /\ live = 0 /\ call[p].pc = "fresh" /\ call[p].pc \notin {"idle", "done"}
    BY RunsAssumption DEF Launch, WInv, IInv, Shape, Handover, RunIds
  <1>2. /\ Head(call[p].msgs) \in Msgs /\ CallTyped(Returned(p))
        /\ Returned(p).pc \in {"look", "done"}
    BY <1>1, ReturnedTyped
  <1>3. RunWired(d) /\ d.phase = "starting"
    BY <1>2 DEF RunWired, NewRun
  <1>4. /\ live' = n /\ started' = n /\ run' = [run EXCEPT ![n] = d] /\ UNCHANGED boot
        /\ call' = [call EXCEPT ![p] = Returned(p)] /\ Post(Head(call[p].msgs))
    BY DEF Launch
  <1>5. posted' \in Seq(Msgs)
    BY <1>2, <1>4, PostKeeps
  <1> HIDE DEF d, n
  <1>6. /\ run'[n] = d /\ \A q \in RunIds \ {n} : run'[q] = run[q]
        /\ call'[p] = Returned(p) /\ \A q \in Callers \ {p} : call'[q] = call[q]
    BY <1>1, <1>4 DEF WInv, IInv, Shape
  <1>7. started \in Nat /\ started' = started + 1
    BY <1>4 DEF WInv, IInv, Shape, n
  <1>8. \A q \in Callers : CallWired(q)'
    BY <1>2, <1>6, <1>7 DEF WInv, Wired, CallWired, CallTyped
  <1>9. call[n].pc = "idle" /\ n \in Callers /\ n # p /\ n # 0 /\ 0 \in Callers
    BY <1>1, <1>7, RunsAssumption DEF WInv, Wired, Spawned, n, Callers, RunIds
  <1>10. Spawned'
    <2>1. \A r \in RunIds : call'[r].pc # "idle" => r <= started' /\ run'[r].phase \notin Busy
      <3> SUFFICES ASSUME NEW r \in RunIds, call'[r].pc # "idle"
                   PROVE  r <= started' /\ run'[r].phase \notin Busy
        OBVIOUS
      <3>1. r \in Callers /\ r \in Nat
        BY DEF RunIds, Callers
      <3>2. r # n /\ call[r].pc # "idle"
        BY <1>1, <1>6, <1>9, <3>1
      <3> QED BY <1>6, <1>7, <3>1, <3>2 DEF WInv, Wired, Spawned
    <2>2. \/ boot = "up"
          \/ call'[0] = call[0]
      BY <1>1, <1>6, <1>9 DEF WInv, Wired, Spawned
    <2> QED BY <1>4, <2>1, <2>2 DEF WInv, Wired, Spawned
  <1>11. \A r \in RunIds : RunWired(run'[r])
    BY <1>3, <1>6 DEF WInv, Wired
  <1>12. \A q, s \in Callers : call'[q].pc = "sent" /\ call'[s].pc = "sent" => q = s
    BY <1>2, <1>6 DEF WInv, Wired
  <1>13. live' <= started' /\ run'[live'].phase \in Busy
    BY <1>3, <1>4, <1>6, <1>7 DEF Busy, n
  <1> QED BY <1>5, <1>8, <1>10, <1>11, <1>12, <1>13 DEF Wired

LEMMA WiredIssue ==
    ASSUME WInv, NEW m \in Msgs, Issue(m)
    PROVE  Wired'
  <1>1. m \in Callers /\ m \notin RunIds /\ m # 0 /\ 0 \in Callers
    BY RunsAssumption DEF Callers, RunIds
  <1>2. PICK kind \in {"run", "steer"} :
            call' = [call EXCEPT ![m] = [Dispatch(<<m>>, FALSE) EXCEPT !.kind = kind]]
    BY DEF Issue
  <1>3. UNCHANGED <<live, run, started, boot, posted>>
    BY DEF Issue, record
  <1>4. /\ call'[m].pc = "look" /\ call'[m].msgs = <<m>>
        /\ \A q \in Callers \ {m} : call'[q] = call[q]
    BY <1>1, <1>2 DEF WInv, IInv, Shape, Dispatch, NoCall
  <1>5. <<m>> \in Seq(Msgs) /\ <<m>> # <<>>
    OBVIOUS
  <1>6. \A q \in Callers : CallWired(q)'
    BY <1>1, <1>3, <1>4, <1>5 DEF WInv, Wired, CallWired
  <1>7. Spawned'
    BY <1>1, <1>3, <1>4 DEF WInv, Wired, Spawned, Callers, RunIds
  <1> QED BY <1>3, <1>4, <1>6, <1>7 DEF WInv, Wired

LEMMA WiredRecovery ==
    ASSUME WInv, Crash \/ Boot \/ Recover \/ Revive
    PROVE  Wired'
  <1>1. 0 \in Callers /\ DOMAIN call = Callers /\ 0 \notin RunIds /\ RunIds \subseteq Callers
    BY RunsAssumption DEF Callers, RunIds, WInv, IInv, Shape
  <1>2. CASE Crash
    <2>1. /\ \A p \in Callers : call'[p].pc \in {"idle", "done"} /\ call'[p].msgs = <<>>
          /\ \A r \in RunIds : call'[r].pc = "idle"
          /\ call'[0].pc = "idle"
      BY <1>1, <1>2, RunsAssumption DEF Crash, NoCall, RunIds
    <2>2. \A r \in RunIds : RunWired(run'[r])
      <3>1. /\ RunWired([Unborn EXCEPT !.phase = "ended"])
            /\ RunWired([Unborn EXCEPT !.phase = "unborn"]) /\ Unborn.phase = "unborn"
        BY DEF Unborn, NewRun, RunWired, Busy
      <3> QED BY <1>2, <3>1 DEF Crash
    <2>3. /\ live' = 0 /\ UNCHANGED <<started, posted>> /\ boot' = "down" /\ 0 <= started
      BY <1>2 DEF Crash, WInv, IInv, Shape
    <2>4. <<>> \in Seq(Msgs)
      OBVIOUS
    <2>5. \A p \in Callers : CallWired(p)'
      BY <2>1, <2>4 DEF CallWired
    <2>6. Spawned'
      BY <1>1, <2>1, <2>3 DEF Spawned
    <2>7. \A p, q \in Callers : call'[p].pc = "sent" /\ call'[q].pc = "sent" => p = q
      BY <2>1
    <2> QED BY <2>2, <2>3, <2>5, <2>6, <2>7 DEF WInv, Wired
  <1>3. CASE Boot
    BY <1>1, <1>3 DEF Boot, chat, record, WInv, Wired, CallWired, Spawned
  <1>4. CASE Recover
    <2>1. /\ call[0].pc = "idle" /\ UNCHANGED <<live, run, started, posted>>
      BY <1>4 DEF Recover, WInv, Wired, Spawned
    <2>2. posted # <<>> => <<Last(posted)>> \in Seq(Msgs) /\ <<Last(posted)>> # <<>>
      <3>1. posted # <<>> => Last(posted) \in Msgs
        BY DEF Last, WInv, Wired
      <3> QED BY <3>1
    <2>3. CASE boot' = "resume" /\ posted # <<>> /\ call' = [call EXCEPT ![0].msgs = <<Last(posted)>>]
      <3>1. /\ call'[0].msgs = <<Last(posted)>> /\ call'[0].pc = "idle"
            /\ \A p \in Callers \ {0} : call'[p] = call[p]
        BY <1>1, <2>1, <2>3 DEF WInv, IInv, Shape, CallShape
      <3>2. \A p \in Callers : CallWired(p)'
        BY <2>1, <2>2, <2>3, <3>1 DEF WInv, Wired, CallWired
      <3>3. Spawned'
        BY <1>1, <2>1, <2>2, <2>3, <3>1 DEF WInv, Wired, Spawned
      <3> QED BY <2>1, <3>1, <3>2, <3>3 DEF WInv, Wired
    <2>4. CASE boot' = "up" /\ UNCHANGED call
      BY <2>1, <2>4 DEF WInv, Wired, CallWired, Spawned
    <2> QED BY <1>4, <2>3, <2>4 DEF Recover
  <1>5. CASE Revive
    <2>1. /\ UNCHANGED <<live, run, started, posted>> /\ boot' = "up" /\ call[0].msgs # <<>>
      BY <1>5 DEF Revive, WInv, Wired, Spawned
    <2>2. /\ call'[0].msgs = call[0].msgs /\ call'[0].pc = "look"
          /\ \A p \in Callers \ {0} : call'[p] = call[p]
      BY <1>1, <1>5 DEF Revive, Dispatch, NoCall
    <2>3. \A p \in Callers : CallWired(p)'
      BY <2>1, <2>2 DEF WInv, Wired, CallWired
    <2>4. Spawned'
      BY <1>1, <2>1, <2>2 DEF WInv, Wired, Spawned
    <2> QED BY <2>1, <2>2, <2>3, <2>4 DEF WInv, Wired
  <1> QED BY <1>2, <1>3, <1>4, <1>5

LEMMA WiredInit == Init => WInv
  <1> SUFFICES ASSUME Init PROVE Wired
    BY RunsInit DEF WInv
  <1>1. RunWired(Unborn) /\ Unborn.phase = "unborn" /\ <<>> \in Seq(Msgs)
    BY DEF Unborn, NewRun, RunWired, Busy
  <1>2. NoCall.pc = "idle" /\ NoCall.msgs = <<>>
    BY DEF NoCall
  <1>3. 0 \in Callers /\ RunIds \subseteq Callers
    BY RunsAssumption DEF Callers, RunIds
  <1>4. /\ \A r \in RunIds : run[r] = Unborn
        /\ \A p \in Callers : call[p] = NoCall
        /\ live = 0 /\ started = 0 /\ posted = <<>> /\ boot = "up"
    BY DEF Init
  <1> HIDE DEF Init
  <1>5. \A p \in Callers : CallWired(p)
    BY <1>1, <1>2, <1>4 DEF CallWired
  <1>6. Spawned
    BY <1>1, <1>2, <1>3, <1>4 DEF Spawned, Busy
  <1> QED BY <1>1, <1>2, <1>4, <1>5, <1>6 DEF Wired

LEMMA WiredStep ==
    ASSUME WInv, [Next]_vars, Settling', Ordered'
    PROVE  WInv'
  <1> SUFFICES Wired'
    BY RunsStep DEF WInv
  <1>1. CASE UNCHANGED vars
    BY <1>1 DEF vars, chat, record, WInv, Wired, CallWired, Spawned
  <1>2. ASSUME NEW p \in Callers, CallStep(p) PROVE Wired'
    BY <1>2, WiredCalls, WiredLaunch
  <1>3. ASSUME NEW r \in RunIds, AgentStep(r) \/ AgentFault(r) \/ RunTask(r) PROVE Wired'
    BY <1>3, AgentMoves, RunMoves, WiredRuns
  <1>4. CASE Interrupt \/ RespondInput
    BY <1>4, UserMoves, WiredRuns
  <1>5. CASE Next
    BY <1>2, <1>3, <1>4, <1>5, WiredIssue, WiredRecovery DEF Next
  <1> QED BY <1>1, <1>5

-----------------------------------------------------------------------------
(* The ledger follows the agent: what it began is at the front, in order, and has
   its boundary in the stream; what is in the mailbox is at the back. *)

\* The boundaries in a stream.
Boundaries(q) == Cardinality({i \in DOMAIN q : q[i] \in Msgs})

LEMMA BoundaryCount ==
    ASSUME NEW q \in Seq(Events)
    PROVE  IsFiniteSet({i \in DOMAIN q : q[i] \in Msgs}) /\ Boundaries(q) \in Nat
  <1> DEFINE S == {i \in DOMAIN q : q[i] \in Msgs}
  <1>1. IsFiniteSet(1..Len(q)) /\ S \in SUBSET (1..Len(q))
    BY FS_Interval
  <1>2. IsFiniteSet(S)
    BY <1>1, FS_Subset
  <1> QED BY <1>2, FS_CardinalityType DEF Boundaries

LEMMA BoundaryAdded ==
    ASSUME NEW q \in Seq(Events)
    PROVE  /\ \A x \in Marks : Boundaries(Append(q, x)) = Boundaries(q)
           /\ \A m \in Msgs : Boundaries(Append(q, m)) = Boundaries(q) + 1
  <1> DEFINE S == {i \in DOMAIN q : q[i] \in Msgs}
  <1>1. IsFiniteSet(S) /\ Boundaries(q) = Cardinality(S)
    BY BoundaryCount DEF Boundaries
  <1>2. ASSUME NEW x \in Marks PROVE Boundaries(Append(q, x)) = Boundaries(q)
    <2>1. {i \in DOMAIN Append(q, x) : Append(q, x)[i] \in Msgs} = S
      BY <1>2, RunsAssumption DEF Marks
    <2> QED BY <2>1 DEF Boundaries
  <1>3. ASSUME NEW m \in Msgs PROVE Boundaries(Append(q, m)) = Boundaries(q) + 1
    <2>1. {i \in DOMAIN Append(q, m) : Append(q, m)[i] \in Msgs} = S \cup {Len(q) + 1}
      BY <1>3
    <2>2. Len(q) + 1 \notin S
      OBVIOUS
    <2> HIDE DEF S
    <2>3. Cardinality(S \cup {Len(q) + 1}) = Cardinality(S) + 1
      BY <1>1, <2>2, FS_AddElement
    <2> QED BY <1>1, <2>1, <2>3 DEF Boundaries
  <1> QED BY <1>2, <1>3

LEMMA BoundaryRead ==
    ASSUME NEW q \in Seq(Events), q # <<>>
    PROVE  /\ Boundaries(Tail(q)) <= Boundaries(q)
           /\ Head(q) \in Msgs => Boundaries(q) >= 1 /\ Boundaries(Tail(q)) <= Boundaries(q) - 1
  <1> DEFINE S == {i \in DOMAIN q : q[i] \in Msgs}
             T == {i \in DOMAIN Tail(q) : Tail(q)[i] \in Msgs}
             f == [i \in T |-> i + 1]
  <1>1. IsFiniteSet(S) /\ Boundaries(q) = Cardinality(S) /\ Boundaries(q) \in Nat
    BY BoundaryCount DEF Boundaries
  <1>2. Tail(q) \in Seq(Events) /\ Len(Tail(q)) = Len(q) - 1
    OBVIOUS
  <1>3. Boundaries(Tail(q)) = Cardinality(T) /\ Boundaries(Tail(q)) \in Nat
    BY <1>2, BoundaryCount DEF Boundaries
  <1>4. \A i \in T : i \in Nat /\ i + 1 \in S \ {1}
    BY <1>2
  <1>5. Head(q) \in Msgs <=> 1 \in S
    OBVIOUS
  <1> HIDE DEF S, T
  <1>6. f \in Injection(T, S \ {1})
    BY <1>4 DEF Injection, IsInjective
  <1>7. /\ IsFiniteSet(S \ {1})
        /\ Cardinality(S \ {1}) = IF 1 \in S THEN Cardinality(S) - 1 ELSE Cardinality(S)
    BY <1>1, FS_RemoveElement
  <1>8. Cardinality(T) <= Cardinality(S \ {1})
    BY <1>6, <1>7, FS_Injection
  <1>9. IsFiniteSet(S \ {1}) => Cardinality(S \ {1}) \in Nat
    BY FS_CardinalityType
  <1> QED BY <1>1, <1>3, <1>5, <1>7, <1>8, <1>9

\* q: the messages run d has accepted and not confirmed, tk: those that were begun.
Lined(q, d, tk) ==
    \E n \in 0..Len(q) :
        /\ Boundaries(d.stream) <= n
        /\ \A i \in 1..n : q[i] \in tk
        /\ Mailed(d) => /\ n + Len(d.box) = Len(q)
                        /\ \A j \in 1..Len(d.box) : q[n + j] = d.box[j]

LEMMA LinedAhead ==
    ASSUME NEW q \in Seq(Msgs), NEW d, NEW e, NEW S, NEW T, S \subseteq T,
           RunWired(d), Lined(q, d, S), Ahead(d, e, T)
    PROVE  Lined(q, e, T)
  <1>1. PICK n \in 0..Len(q) :
           /\ Boundaries(d.stream) <= n
           /\ \A i \in 1..n : q[i] \in S
           /\ Mailed(d) => /\ n + Len(d.box) = Len(q)
                           /\ \A j \in 1..Len(d.box) : q[n + j] = d.box[j]
    BY DEF Lined
  <1>2. d.stream \in Seq(Events) /\ Boundaries(d.stream) \in Nat /\ d.box \in Seq(Msgs)
    BY BoundaryCount DEF RunWired
  <1>3. CASE /\ d.box # <<>> /\ e.box = Tail(d.box) /\ Mailed(d)
             /\ e.stream = Append(d.stream, Head(d.box)) /\ Head(d.box) \in T
    <2>1. /\ Len(e.box) = Len(d.box) - 1 /\ Len(d.box) >= 1 /\ Head(d.box) = d.box[1]
          /\ \A j \in 1..Len(e.box) : e.box[j] = d.box[j + 1]
          /\ Head(d.box) \in Msgs /\ Len(d.box) \in Nat
      BY <1>2, <1>3
    <2>2. n + 1 \in 0..Len(q) /\ q[n + 1] = Head(d.box)
      BY <1>1, <1>3, <2>1
    <2>3. Boundaries(e.stream) <= n + 1
      BY <1>1, <1>2, <1>3, <2>1, BoundaryAdded
    <2>4. \A i \in 1..(n + 1) : q[i] \in T
      BY <1>1, <1>3, <2>2
    <2>5. (n + 1) + Len(e.box) = Len(q)
      <3>1. n + Len(d.box) = Len(q) /\ n \in Nat
        BY <1>1, <1>3
      <3> DEFINE a == Len(d.box)
                 b == Len(e.box)
                 c == Len(q)
      <3>2. a \in Nat /\ b = a - 1 /\ n + a = c /\ n \in Nat
        BY <2>1, <3>1
      <3> HIDE DEF a, b, c
      <3>3. (n + 1) + b = c
        BY <3>2
      <3> QED BY <3>3 DEF b, c
    <2>6. ASSUME NEW j \in 1..Len(e.box) PROVE q[(n + 1) + j] = e.box[j]
      <3>1. j + 1 \in 1..Len(d.box) /\ (n + 1) + j = n + (j + 1)
        BY <1>1, <2>1
      <3> QED BY <1>1, <1>3, <2>1, <3>1
    <2> QED BY <2>2, <2>3, <2>4, <2>5, <2>6 DEF Lined
  <1>4. CASE /\ Mailed(e) => Mailed(d) /\ e.box = d.box
             /\ \/ e.stream = d.stream
                \/ \E x \in Marks : e.stream = Append(d.stream, x)
                \/ d.stream # <<>> /\ e.stream = Tail(d.stream)
    <2>1. Boundaries(e.stream) <= n
      <3>1. CASE e.stream = d.stream
        BY <1>1, <3>1
      <3>2. CASE \E x \in Marks : e.stream = Append(d.stream, x)
        BY <1>1, <1>2, <3>2, BoundaryAdded
      <3>3. CASE d.stream # <<>> /\ e.stream = Tail(d.stream)
        <4>1. Boundaries(e.stream) \in Nat
          BY <1>2, <3>3, BoundaryCount, WiredSeqs
        <4>2. Boundaries(e.stream) <= Boundaries(d.stream)
          BY <1>2, <3>3, BoundaryRead
        <4> QED BY <1>1, <1>2, <4>1, <4>2
      <3> QED BY <1>4, <3>1, <3>2, <3>3
    <2> QED BY <1>1, <1>4, <2>1 DEF Lined
  <1> QED BY <1>3, <1>4 DEF Ahead

(* A message goes into the mailbox, and is expected in the ledger. *)
LEMMA LinedSend ==
    ASSUME NEW q \in Seq(Msgs), NEW m \in Msgs, NEW d, NEW e, NEW S, RunWired(d), Lined(q, d, S),
           e.stream = d.stream, e.box = Append(d.box, m), Mailed(e) => Mailed(d)
    PROVE  Lined(Append(q, m), e, S)
  <1>1. PICK n \in 0..Len(q) :
           /\ Boundaries(d.stream) <= n
           /\ \A i \in 1..n : q[i] \in S
           /\ Mailed(d) => /\ n + Len(d.box) = Len(q)
                           /\ \A j \in 1..Len(d.box) : q[n + j] = d.box[j]
    BY DEF Lined
  <1> DEFINE p == Append(q, m)
  <1>2. Len(p) = Len(q) + 1 /\ p[Len(q) + 1] = m /\ \A i \in 1..Len(q) : p[i] = q[i]
    OBVIOUS
  <1>3. /\ d.box \in Seq(Msgs) /\ Len(d.box) \in Nat
        /\ Len(e.box) = Len(d.box) + 1 /\ e.box[Len(d.box) + 1] = m
        /\ \A j \in 1..Len(d.box) : e.box[j] = d.box[j]
    BY DEF RunWired
  <1> HIDE DEF p
  <1>4. n \in 0..Len(p) /\ \A i \in 1..n : p[i] \in S
    BY <1>1, <1>2
  <1>5. ASSUME Mailed(e)
        PROVE  n + Len(e.box) = Len(p) /\ \A j \in 1..Len(e.box) : p[n + j] = e.box[j]
    <2>1. n + Len(d.box) = Len(q) /\ \A j \in 1..Len(d.box) : q[n + j] = d.box[j]
      BY <1>1, <1>5
    <2>2. n + Len(e.box) = Len(p)
      <3> DEFINE a == Len(d.box)
                 b == Len(e.box)
                 c == Len(q)
      <3>2. a \in Nat /\ b = a + 1 /\ n + a = c /\ n \in Nat
        BY <1>3, <2>1
      <3> HIDE DEF a, b, c
      <3>3. n + b = c + 1
        BY <3>2
      <3> QED BY <1>2, <3>3 DEF b, c
    <2>3. ASSUME NEW j \in 1..Len(e.box) PROVE p[n + j] = e.box[j]
      <3>1. CASE j = Len(d.box) + 1
        <4>1. n + j = Len(q) + 1
          <5> DEFINE a == Len(d.box)
                     c == Len(q)
          <5>1. a \in Nat /\ n + a = c /\ n \in Nat /\ j = a + 1
            BY <1>3, <2>1, <3>1
          <5> HIDE DEF a, c
          <5>2. n + j = c + 1
            BY <5>1
          <5> QED BY <5>2 DEF c
        <4> QED BY <1>2, <1>3, <3>1, <4>1
      <3>2. CASE j \in 1..Len(d.box)
        <4>1. n + j \in 1..Len(q)
          BY <1>3, <2>1, <3>2
        <4> QED BY <1>2, <1>3, <2>1, <3>2, <4>1
      <3> QED BY <1>3, <3>1, <3>2
    <2> QED BY <2>2, <2>3
  <1>6. Boundaries(e.stream) <= n
    BY <1>1
  <1> QED BY <1>4, <1>5, <1>6 DEF Lined, p

(* The boundary of the oldest message is read: an agent has begun that message. *)
LEMMA LinedSteer ==
    ASSUME NEW q \in Seq(Msgs), NEW d, NEW e, NEW S, RunWired(d), Lined(q, d, S),
           d.stream # <<>>, Head(d.stream) \in Msgs, e.stream = Tail(d.stream),
           e.box = d.box, Mailed(e) => Mailed(d)
    PROVE  /\ q # <<>> /\ Head(q) \in S
           /\ Lined(q, e, S) /\ Lined(Tail(q), e, S)
  <1>1. PICK n \in 0..Len(q) :
           /\ Boundaries(d.stream) <= n
           /\ \A i \in 1..n : q[i] \in S
           /\ Mailed(d) => /\ n + Len(d.box) = Len(q)
                           /\ \A j \in 1..Len(d.box) : q[n + j] = d.box[j]
    BY DEF Lined
  <1>2. /\ Boundaries(d.stream) \in Nat /\ Boundaries(e.stream) \in Nat
        /\ Boundaries(d.stream) >= 1 /\ Boundaries(e.stream) <= Boundaries(d.stream) - 1
    BY BoundaryCount, BoundaryRead, WiredSeqs DEF RunWired
  <1>3. n >= 1 /\ Len(q) >= 1 /\ n \in Nat /\ Len(q) \in Nat
    BY <1>1, <1>2
  <1>4. q # <<>> /\ Head(q) = q[1]
    BY <1>3
  <1>5. Head(q) \in S
    BY <1>1, <1>3, <1>4
  <1>6. Lined(q, e, S)
    <2>1. Boundaries(e.stream) <= n
      BY <1>1, <1>2
    <2> QED BY <1>1, <2>1 DEF Lined
  <1>7. Lined(Tail(q), e, S)
    <2> DEFINE t == Tail(q)
    <2>1. Len(t) = Len(q) - 1 /\ \A i \in 1..Len(t) : t[i] = q[i + 1]
      BY <1>4
    <2> HIDE DEF t
    <2>2. n - 1 \in 0..Len(t) /\ Boundaries(e.stream) <= n - 1
      BY <1>1, <1>2, <1>3, <2>1
    <2>3. ASSUME NEW i \in 1..(n - 1) PROVE t[i] \in S
      <3>1. i \in 1..Len(t) /\ i + 1 \in 1..n
        BY <1>1, <1>3, <2>1
      <3> QED BY <1>1, <2>1, <3>1
    <2>4. ASSUME Mailed(e)
          PROVE  (n - 1) + Len(e.box) = Len(t) /\ \A j \in 1..Len(e.box) : t[(n - 1) + j] = e.box[j]
      <3>1. n + Len(d.box) = Len(q) /\ \A j \in 1..Len(d.box) : q[n + j] = d.box[j]
        BY <1>1, <2>4
      <3>2. Len(d.box) \in Nat
        BY DEF RunWired
      <3>3. ASSUME NEW j \in 1..Len(e.box) PROVE t[(n - 1) + j] = e.box[j]
        <4>1. (n - 1) + j \in 1..Len(t) /\ ((n - 1) + j) + 1 = n + j
          BY <1>3, <2>1, <3>1, <3>2
        <4> QED BY <2>1, <3>1, <4>1
      <3> QED BY <1>3, <2>1, <3>1, <3>2, <3>3
    <2> QED BY <2>2, <2>3, <2>4 DEF Lined, t
  <1> QED BY <1>4, <1>5, <1>6, <1>7

\* The callers that have sent a message to the live run and not entered it yet.
ToLive   == {p \in Callers : call[p].pc = "sent" /\ call[p].run = live}
Unlogged == IF ToLive = {} THEN {<<>>} ELSE {<<Head(call[p].msgs)>> : p \in ToLive}

Aligned ==
    live # 0 /\ run[live].phase \in Carrying =>
        \A u \in Unlogged : Lined(run[live].ledger \o u, run[live], taken)

LInv == WInv /\ Aligned

LEMMA UnloggedSeq ==
    ASSUME WInv
    PROVE  Unlogged # {} /\ \A u \in Unlogged : u \in Seq(Msgs)
  <1>1. \A p \in ToLive : Head(call[p].msgs) \in Msgs
    BY ReturnedTyped DEF ToLive
  <1>2. \A m \in Msgs : <<m>> \in Seq(Msgs)
    OBVIOUS
  <1>3. CASE ToLive = {}
    BY <1>3 DEF Unlogged
  <1>4. CASE ToLive # {}
    <2>1. Unlogged = {<<Head(call[p].msgs)>> : p \in ToLive}
      BY <1>4 DEF Unlogged
    <2>2. Unlogged # {}
      BY <1>4, <2>1
    <2>3. \A u \in Unlogged : u \in Seq(Msgs)
      BY <1>1, <1>2, <2>1
    <2> QED BY <2>2, <2>3
  <1> QED BY <1>3, <1>4

LEMMA LiveRun ==
    ASSUME WInv, live # 0
    PROVE  live \in RunIds /\ RunWired(run[live])
  BY RunsAssumption DEF WInv, Wired, IInv, Shape, RunIds

(* What follows the oldest entry, with more entries after it. *)
LEMMA TailConcat ==
    ASSUME NEW S, NEW q \in Seq(S), q # <<>>, NEW u \in Seq(S)
    PROVE  Tail(q) \o u = Tail(q \o u)
  <1> DEFINE t == Tail(q)
             c == q \o u
  <1>1. /\ t \in Seq(S) /\ Len(t) = Len(q) - 1
        /\ \A i \in 1..Len(t) : t[i] = q[i + 1]
    BY HeadTailProperties
  <1>2. /\ c \in Seq(S) /\ Len(c) = Len(q) + Len(u)
        /\ \A i \in 1..Len(q) + Len(u) : c[i] = IF i <= Len(q) THEN q[i] ELSE u[i - Len(q)]
    BY ConcatProperties
  <1>3. Len(q) \in Nat /\ Len(q) # 0 /\ Len(u) \in Nat
    OBVIOUS
  <1> HIDE DEF t, c
  <1>4. /\ t \o u \in Seq(S) /\ Len(t \o u) = Len(t) + Len(u)
        /\ \A i \in 1..Len(t) + Len(u) : (t \o u)[i] = IF i <= Len(t) THEN t[i] ELSE u[i - Len(t)]
    BY <1>1, ConcatProperties
  <1>5. c # <<>>
    BY <1>2, <1>3
  <1>6. /\ Tail(c) \in Seq(S) /\ Len(Tail(c)) = Len(c) - 1
        /\ \A i \in 1..Len(Tail(c)) : Tail(c)[i] = c[i + 1]
    BY <1>2, <1>5, HeadTailProperties
  <1> DEFINE a == t \o u
             b == Tail(c)
  <1>7. Len(a) = Len(q) + Len(u) - 1 /\ Len(b) = Len(q) + Len(u) - 1
    BY <1>1, <1>2, <1>3, <1>4, <1>6
  <1>8. a \in Seq(S) /\ b \in Seq(S)
    BY <1>4, <1>6
  <1>9. ASSUME NEW i \in 1..Len(a) PROVE a[i] = b[i]
    <2>1. b[i] = c[i + 1] /\ i + 1 \in 1..Len(q) + Len(u) /\ i \in 1..Len(t) + Len(u)
      BY <1>1, <1>3, <1>4, <1>6, <1>7
    <2>2. CASE i <= Len(t)
      <3>1. a[i] = t[i] /\ t[i] = q[i + 1] /\ i + 1 <= Len(q)
        BY <1>1, <1>3, <1>4, <2>1, <2>2
      <3> QED BY <1>2, <2>1, <3>1
    <2>3. CASE ~(i <= Len(t))
      <3>1. a[i] = u[i - Len(t)] /\ i - Len(t) = (i + 1) - Len(q) /\ ~(i + 1 <= Len(q))
        BY <1>1, <1>3, <1>4, <2>1, <2>3
      <3> QED BY <1>2, <2>1, <3>1
    <2> QED BY <2>2, <2>3
  <1> HIDE DEF a, b
  <1>10. a = b
    BY <1>7, <1>8, <1>9, SeqEqual
  <1> QED BY <1>10 DEF a, b, t, c

(* The live run has what it had, and the callers have sent it what they had. *)
LEMMA AlignedStays ==
    ASSUME LInv, UNCHANGED live, Unlogged' = Unlogged, taken \subseteq taken',
           live # 0 /\ run'[live].phase \in Carrying =>
              /\ run[live].phase \in Carrying /\ run'[live].ledger = run[live].ledger
              /\ Ahead(run[live], run'[live], taken')
    PROVE  Aligned'
  <1> SUFFICES ASSUME live # 0, run'[live].phase \in Carrying, NEW u \in Unlogged
               PROVE  Lined(run'[live].ledger \o u, run'[live], taken')
    BY DEF Aligned
  <1>1. RunWired(run[live]) /\ run[live].ledger \o u \in Seq(Msgs)
    <2>1. RunWired(run[live])
      BY LiveRun DEF LInv
    <2>2. u \in Seq(Msgs) /\ run[live].ledger \in Seq(Msgs)
      BY <2>1, UnloggedSeq DEF LInv, RunWired
    <2> QED BY <2>1, <2>2
  <1>2. Lined(run[live].ledger \o u, run[live], taken)
    BY DEF LInv, Aligned
  <1> QED BY <1>1, <1>2, LinedAhead

LEMMA StillAhead ==
    ASSUME NEW d, NEW e, NEW tk, e.box = d.box, e.stream = d.stream, Mailed(e) => Mailed(d)
    PROVE  Ahead(d, e, tk)
  BY DEF Ahead

LEMMA AlignedRuns ==
    ASSUME LInv, NEW r \in RunIds, Works(r) \/ Steers(r) \/ Claims(r) \/ Ends(r)
    PROVE  Aligned'
  <1>1. UNCHANGED call /\ UNCHANGED live => Unlogged' = Unlogged
    BY DEF Unlogged, ToLive
  <1>2. CASE Works(r)
    <2>1. CASE live = r
      BY <1>1, <1>2, <2>1, AlignedStays DEF Works, OneRun, Learned
    <2>2. CASE live # r
      <3>1. live # 0 => run'[live] = run[live]
        BY <1>2, <2>2, LiveRun DEF Works, OneRun, LInv
      <3>2. live # 0 => Ahead(run[live], run'[live], taken')
        BY <3>1, StillAhead
      <3> QED BY <1>1, <1>2, <3>1, <3>2, AlignedStays DEF Works, OneRun, Learned
    <2> QED BY <2>1, <2>2
  <1>3. CASE Steers(r)
    <2>1. /\ live = r /\ UNCHANGED <<live, call>> /\ taken \subseteq taken' /\ r # 0
          /\ run[r].phase \in Carrying
      BY <1>3, RunsAssumption DEF Steers, OneRun, Learned, RunIds
    <2> SUFFICES ASSUME NEW u \in Unlogged
                 PROVE  Lined(run'[r].ledger \o u, run'[r], taken')
      BY <1>1, <2>1 DEF Aligned
    <2> DEFINE q == run[r].ledger \o u
    <2>2. RunWired(run[r]) /\ RunWired(run'[r]) /\ u \in Seq(Msgs) /\ run[r].ledger \in Seq(Msgs)
      BY <1>3, <2>1, LiveRun, UnloggedSeq DEF LInv, Steers, OneRun, RunWired
    <2>3. q \in Seq(Msgs)
      BY <2>2
    <2>4. Lined(q, run[r], taken)
      BY <2>1 DEF LInv, Aligned
    <2>5. Lined(q, run'[r], taken) /\ Lined(Tail(q), run'[r], taken)
      BY <1>3, <2>2, <2>3, <2>4, LinedSteer DEF Steers
    <2>6. run'[r].ledger \o u \in {q, Tail(q)}
      <3>1. CASE run[r].ledger = <<>>
        BY <1>3, <3>1 DEF Steers
      <3>2. CASE run[r].ledger # <<>>
        <4>1. run'[r].ledger = Tail(run[r].ledger)
          BY <1>3, <3>2 DEF Steers
        <4>2. Tail(run[r].ledger) \o u = Tail(q)
          BY <2>2, <3>2, TailConcat
        <4> QED BY <4>1, <4>2
      <3> QED BY <3>1, <3>2
    <2>7. Lined(run'[r].ledger \o u, run'[r], taken)
      BY <2>5, <2>6
    <2> QED BY <2>1, <2>7 DEF Lined
  <1>4. CASE Claims(r) \/ Ends(r)
    BY <1>4 DEF Claims, Ends, Aligned, Carrying
  <1> QED BY <1>2, <1>3, <1>4

(* A caller that has not sent to the live run moves on, and does not send. *)
LEMMA UnloggedStays ==
    ASSUME WInv, UNCHANGED live, NEW p \in Callers, NEW c, call' = [call EXCEPT ![p] = c],
           call[p].pc # "sent" \/ call[p].run # live, c.pc # "sent"
    PROVE  Unlogged' = Unlogged
  <1>1. call'[p] = c /\ \A q \in Callers \ {p} : call'[q] = call[q]
    BY DEF WInv, IInv, Shape
  <1>2. ToLive' = ToLive /\ \A q \in ToLive : call'[q] = call[q]
    BY <1>1 DEF ToLive
  <1>3. {<<Head(call'[q].msgs)>> : q \in ToLive'} = {<<Head(call[q].msgs)>> : q \in ToLive}
    BY <1>2
  <1> QED BY <1>2, <1>3 DEF Unlogged

LEMMA OneMore ==
    ASSUME NEW S, NEW q \in Seq(S), NEW m \in S
    PROVE  /\ q \o <<>> = q /\ Append(q, m) = q \o <<m>> /\ q \o <<m>> \in Seq(S)
           /\ Append(q, m) \o <<>> = q \o <<m>>
  <1>1. Append(q, m) \in Seq(S) /\ \A s \in Seq(S) : s \o <<>> = s
    OBVIOUS
  <1>2. Append(q, m) = q \o <<m>>
    OBVIOUS
  <1> QED BY <1>1, <1>2

LEMMA AlignedSend ==
    ASSUME LInv, Ordered', NEW p \in Callers, Send(p)
    PROVE  Aligned'
  <1> DEFINE m == Head(call[p].msgs)
             l == run[live].ledger
  <1>1. /\ live \in RunIds /\ RunWired(run[live]) /\ DOMAIN run = RunIds /\ live # 0
        /\ DOMAIN call = Callers /\ CallShape(call[p])
    BY LiveRun DEF Send, LInv, WInv, IInv, Shape
  <1>2. m \in Msgs /\ l \in Seq(Msgs)
    BY <1>1, ReturnedTyped DEF Send, LInv, RunWired
  <1>0. \A q \in Callers : call[q].pc # "sent"
    BY DEF Send, Through, Ordered
  <1>3. Unlogged = {<<>>}
    BY <1>0 DEF ToLive, Unlogged
  <1>4. Unlogged' = {<<m>>}
    <2>1. ToLive' = {p} /\ call'[p].msgs = call[p].msgs
      BY <1>0, <1>1 DEF Send, ToLive, CallShape
    <2> QED BY <2>1 DEF Unlogged
  <1>5. /\ run'[live].phase = run[live].phase /\ run'[live].agent = run[live].agent
        /\ run'[live].ledger = l /\ run'[live].stream = run[live].stream
        /\ run'[live].box = Append(run[live].box, m) /\ UNCHANGED <<live, taken>>
    BY <1>1 DEF Send, RunWired, history
  <1> SUFFICES ASSUME run[live].phase \in Carrying
               PROVE  Lined(l \o <<m>>, run'[live], taken)
    BY <1>4, <1>5 DEF Aligned
  <1>6. Lined(l \o <<>>, run[live], taken)
    BY <1>1, <1>3 DEF LInv, Aligned
  <1> HIDE DEF m, l
  <1>7. l \o <<>> = l /\ Append(l, m) = l \o <<m>>
    BY <1>2
  <1>8. Lined(Append(l, m), run'[live], taken)
    BY <1>1, <1>2, <1>5, <1>6, <1>7, LinedSend DEF Mailed
  <1> QED BY <1>7, <1>8

LEMMA AlignedLog ==
    ASSUME LInv, NEW p \in Callers, Log(p)
    PROVE  Aligned'
  <1> DEFINE m == Head(call[p].msgs)
             r == call[p].run
             c == [call[p] EXCEPT !.pc = "logged"]
  <1>1. /\ DOMAIN run = RunIds /\ DOMAIN call = Callers /\ CallShape(call[p]) /\ r \in RunIds
        /\ RunWired(run[r])
    BY DEF Log, LInv, WInv, Wired, IInv, Shape, CallShape
  <1>2. m \in Msgs /\ run[r].ledger \in Seq(Msgs)
    BY <1>1, ReturnedTyped DEF Log, LInv, RunWired
  <1>3. /\ run' = [run EXCEPT ![r].ledger = Append(run[r].ledger, m)]
        /\ call' = [call EXCEPT ![p] = c] /\ c.pc = "logged" /\ UNCHANGED <<live, taken>>
        /\ call[p].pc = "sent"
    BY <1>1 DEF Log, CallShape, history
  <1> HIDE DEF c
  <1>4. CASE live # r
    <2>1. Unlogged' = Unlogged
      BY <1>3, <1>4, UnloggedStays DEF LInv
    <2>2. live # 0 => run'[live] = run[live]
      BY <1>1, <1>3, <1>4, LiveRun DEF LInv
    <2>3. live # 0 => Ahead(run[live], run'[live], taken')
      BY <2>2, StillAhead
    <2> QED BY <1>3, <2>1, <2>2, <2>3, AlignedStays
  <1>5. CASE live = r
    <2> DEFINE l == run[r].ledger
    <2>1. ToLive = {p}
      BY <1>3, <1>5 DEF ToLive, LInv, WInv, Wired
    <2>2. Unlogged = {<<m>>}
      BY <2>1 DEF Unlogged
    <2>3. ToLive' = {}
      BY <1>1, <1>3, <2>1 DEF ToLive
    <2>4. Unlogged' = {<<>>}
      BY <2>3 DEF Unlogged
    <2>5. /\ run'[r].phase = run[r].phase /\ run'[r].agent = run[r].agent
          /\ run'[r].ledger = Append(l, m) /\ run'[r].stream = run[r].stream
          /\ run'[r].box = run[r].box
      BY <1>1, <1>3 DEF RunWired
    <2> SUFFICES ASSUME run[r].phase \in Carrying
                 PROVE  Lined(Append(l, m) \o <<>>, run'[r], taken)
      BY <1>3, <1>5, <2>4, <2>5 DEF Aligned
    <2>6. Lined(l \o <<m>>, run[r], taken)
      BY <1>1, <1>5, <2>2, RunsAssumption DEF LInv, Aligned, RunIds
    <2>7. Ahead(run[r], run'[r], taken)
      BY <2>5, StillAhead DEF Mailed
    <2> HIDE DEF l, m
    <2>8. Append(l, m) \o <<>> = l \o <<m>> /\ l \o <<m>> \in Seq(Msgs)
      BY <1>2, OneMore DEF l
    <2>9. Lined(l \o <<m>>, run'[r], taken)
      BY <1>1, <2>6, <2>7, <2>8, LinedAhead DEF m
    <2> QED BY <2>8, <2>9 DEF m, l
  <1> QED BY <1>4, <1>5

-----------------------------------------------------------------------------
(* What a step of a caller does to messages. *)

SameRun(d, e) ==
    /\ e.phase = d.phase /\ e.first = d.first /\ e.agent = d.agent /\ e.box = d.box
    /\ e.ledger = d.ledger /\ e.stream = d.stream /\ e.claim = d.claim

\* It gets nearer to sending or starting a run.
Seeks(p) ==
    /\ call[p].pc \in Seeking /\ \A r \in RunIds : SameRun(run[r], run'[r])
    /\ \E c : call' = [call EXCEPT ![p] = c] /\ c.msgs = call[p].msgs /\ c.pc \in Seeking

\* It is done with its first message: a run has it, or had it and settled it.
Returns(p) ==
    /\ call[p].pc = "logged" /\ UNCHANGED run
    /\ call' = [call EXCEPT ![p] = Returned(p)]
    /\ \/ live = call[p].run /\ (Claimed' => run[live].phase # "leaving")
       \/ live # call[p].run /\ Head(call[p].msgs) \notin ToSet(run[call[p].run].ledger)

\* It takes its message back from a run that is gone.
Retakes(p) ==
    LET r == call[p].run
        m == Head(call[p].msgs)
    IN  /\ call[p].pc = "logged" /\ live # r /\ r \in RunIds
        /\ \E l \in Without(run[r].ledger, m) : run' = [run EXCEPT ![r].ledger = l]
        /\ \E c : /\ call' = [call EXCEPT ![p] = c] /\ c.msgs = call[p].msgs
                  /\ c.pc \in {"look", "stop"}

LEMMA CallMoves ==
    ASSUME WInv, NEW p \in Callers, CallStep(p)
    PROVE  /\ call[p].pc \notin {"idle", "done"}
           /\ Send(p) \/ Log(p) \/ Launch(p) \/ Seeks(p) \/ Returns(p) \/ Retakes(p)
           /\ ~Launch(p) => UNCHANGED <<live, started, boot, history>>
  <1>1. /\ DOMAIN call = Callers /\ DOMAIN run = RunIds /\ CallShape(call[p])
        /\ \A r \in RunIds : RunWired(run[r])
    BY DEF WInv, Wired, IInv, Shape
  <1>2. call[p].pc \notin {"idle", "done"}
    BY DEF CallStep, Send, Refused, Log, Check, Stop, Settle, Launch
  <1>3. ~Launch(p) => UNCHANGED <<live, started, boot, history>>
    BY DEF CallStep, Send, Refused, Log, Check, Stop, Settle, history
  <1>4. ASSUME Refused(p) \/ Settle(p) PROVE Seeks(p)
    <2>1. UNCHANGED run
      BY <1>4 DEF Refused, Settle
    <2>2. call[p].pc \in Seeking /\ \A r \in RunIds : SameRun(run[r], run'[r])
      BY <1>4, <2>1 DEF SameRun, Refused, Settle, Seeking, Owning
    <2> DEFINE c == [call[p] EXCEPT !.kind = "run"]
               d == [call[p] EXCEPT !.pc = IF live = 0 THEN "fresh" ELSE "stop"]
               e == [call[p] EXCEPT !.pc = "fresh"]
    <2>3. /\ d.msgs = call[p].msgs /\ d.pc \in Seeking
          /\ e.msgs = call[p].msgs /\ e.pc \in Seeking
          /\ c.msgs = call[p].msgs /\ c.pc = call[p].pc
      BY <1>1 DEF CallShape, Seeking, Owning
    <2>4. \/ call' = [call EXCEPT ![p] = c] /\ call[p].pc = "look"
          \/ call' = [call EXCEPT ![p] = d]
          \/ call' = [call EXCEPT ![p] = e]
      BY <1>1, <1>4 DEF Refused, Settle
    <2> HIDE DEF c, d, e
    <2> QED BY <2>2, <2>3, <2>4 DEF Seeks, Seeking
  <1>5. ASSUME Stop(p) PROVE Seeks(p)
    <2>1. \A r \in RunIds : SameRun(run[r], run'[r])
      <3>1. CASE live = 0
        BY <1>5, <3>1 DEF Stop, SameRun
      <3>2. CASE live # 0
        <4>1. live \in RunIds /\ run' = [run EXCEPT ![live] = Cancelled(run[live])]
          BY <1>5, <3>2, LiveRun DEF Stop
        <4>2. SameRun(run[live], Cancelled(run[live]))
          BY <1>1, <4>1 DEF Cancelled, RunWired, SameRun
        <4>3. \A r \in RunIds : SameRun(run[r], run[r])
          BY DEF SameRun
        <4> QED BY <1>1, <4>1, <4>2, <4>3
      <3> QED BY <3>1, <3>2
    <2> DEFINE c == [call[p] EXCEPT !.pc = "fresh"]
               d == [call[p] EXCEPT !.pc = "wait", !.run = live]
    <2>2. /\ d.msgs = call[p].msgs /\ d.pc \in Seeking
          /\ c.msgs = call[p].msgs /\ c.pc \in Seeking /\ call[p].pc \in Seeking
      BY <1>1, <1>5 DEF CallShape, Seeking, Owning, Stop
    <2>3. call' = [call EXCEPT ![p] = c] \/ call' = [call EXCEPT ![p] = d]
      BY <1>1, <1>5 DEF Stop
    <2> HIDE DEF c, d
    <2> QED BY <2>1, <2>2, <2>3 DEF Seeks
  <1>6. ASSUME Check(p) PROVE Returns(p) \/ Retakes(p)
    <2> DEFINE r == call[p].run
               m == Head(call[p].msgs)
               c == [call[p] EXCEPT !.pc = IF call[p].kind = "steer" THEN "look" ELSE "stop",
                                    !.kind = "run"]
    <2>1. call[p].pc = "logged" /\ r \in RunIds
      BY <1>1, <1>6 DEF Check, CallShape
    <2>2. c.msgs = call[p].msgs /\ c.pc \in {"look", "stop"}
      BY <1>1 DEF CallShape
    <2>3. CASE call' = [call EXCEPT ![p] = Returned(p)]
               /\ UNCHANGED run
               /\ \/ live = r /\ (Claimed' => run[live].phase # "leaving")
                  \/ live # r /\ m \notin ToSet(run[r].ledger)
      BY <2>1, <2>3 DEF Returns
    <2>4. CASE /\ live # r /\ \E l \in Without(run[r].ledger, m) : run' = [run EXCEPT ![r].ledger = l]
               /\ call' = [call EXCEPT ![p] = c]
      <3> HIDE DEF c
      <3> QED BY <2>1, <2>2, <2>4 DEF Retakes
    <2>5. call' = [call EXCEPT ![p].pc = IF call[p].kind = "steer" THEN "look" ELSE "stop",
                               ![p].kind = "run"]
          => call' = [call EXCEPT ![p] = c]
      BY <1>1
    <2> HIDE DEF c
    <2>6. \/ /\ live = r /\ (Claimed' => run[live].phase # "leaving")
             /\ call' = [call EXCEPT ![p] = Returned(p)] /\ UNCHANGED run
          \/ /\ live # r /\ \E l \in Without(run[r].ledger, m) : run' = [run EXCEPT ![r].ledger = l]
             /\ call' = [call EXCEPT ![p].pc = IF call[p].kind = "steer" THEN "look" ELSE "stop",
                                     ![p].kind = "run"]
          \/ /\ live # r /\ m \notin ToSet(run[r].ledger)
             /\ call' = [call EXCEPT ![p] = Returned(p)] /\ UNCHANGED run
      BY <1>6 DEF Check, Through, Claimed
    <2> QED BY <2>3, <2>4, <2>5, <2>6
  <1> QED BY <1>2, <1>3, <1>4, <1>5, <1>6 DEF CallStep

LEMMA AlignedCalls ==
    ASSUME LInv, Ordered', NEW p \in Callers, CallStep(p), ~Launch(p)
    PROVE  Aligned'
  <1>1. /\ UNCHANGED <<live, taken>>
        /\ Send(p) \/ Log(p) \/ Seeks(p) \/ Returns(p) \/ Retakes(p)
    BY CallMoves DEF LInv, history
  <1>2. ASSUME NEW c, call' = [call EXCEPT ![p] = c], c.pc # "sent",
               call[p].pc # "sent", live # 0 => SameRun(run[live], run'[live])
        PROVE  Aligned'
    <2>1. Unlogged' = Unlogged
      BY <1>1, <1>2, UnloggedStays DEF LInv
    <2>2. live # 0 => Ahead(run[live], run'[live], taken')
      BY <1>2, StillAhead DEF SameRun, Mailed
    <2> QED BY <1>1, <1>2, <2>1, <2>2, AlignedStays DEF SameRun
  <1>3. \A r \in RunIds : SameRun(run[r], run[r])
    BY DEF SameRun
  <1>4. CASE Seeks(p)
    <2>1. PICK c : call' = [call EXCEPT ![p] = c] /\ c.pc \in Seeking
      BY <1>4 DEF Seeks
    <2>2. c.pc # "sent" /\ call[p].pc # "sent"
      BY <1>4, <2>1 DEF Seeks, Seeking, Owning
    <2>3. live # 0 => SameRun(run[live], run'[live])
      BY <1>4, LiveRun DEF Seeks, LInv
    <2> QED BY <1>2, <2>1, <2>2, <2>3
  <1>5. CASE Returns(p)
    <2>1. call[p].pc = "logged" /\ Returned(p).pc # "sent"
      BY <1>5, ReturnedTyped DEF Returns, LInv
    <2>2. live # 0 => SameRun(run[live], run'[live])
      BY <1>3, <1>5, LiveRun DEF Returns, LInv
    <2>3. call' = [call EXCEPT ![p] = Returned(p)]
      BY <1>5 DEF Returns
    <2> QED BY <1>2, <2>1, <2>2, <2>3
  <1>6. CASE Retakes(p)
    <2>1. PICK c : call' = [call EXCEPT ![p] = c] /\ c.pc \in {"look", "stop"}
      BY <1>6 DEF Retakes
    <2>2. c.pc # "sent" /\ call[p].pc # "sent"
      BY <1>6, <2>1 DEF Retakes
    <2>3. live # 0 => SameRun(run[live], run'[live])
      <3>1. live # 0 => live \in RunIds
        BY LiveRun DEF LInv
      <3>2. live # 0 => run'[live] = run[live]
        BY <1>6, <3>1 DEF Retakes, LInv, WInv, IInv, Shape
      <3> QED BY <3>2 DEF SameRun
    <2> QED BY <1>2, <2>1, <2>2, <2>3
  <1> QED BY <1>1, <1>4, <1>5, <1>6, AlignedSend, AlignedLog

LEMMA AlignedLaunch ==
    ASSUME LInv, NEW p \in Callers, Launch(p)
    PROVE  Aligned'
  <1> DEFINE n == started + 1
             d == NewRun(Head(call[p].msgs), call[p].retry, known)
  <1>1. /\ n \in RunIds /\ call[p].pc \notin {"idle", "done"} /\ started \in Nat
        /\ DOMAIN run = RunIds /\ DOMAIN call = Callers
    BY RunsAssumption DEF Launch, LInv, WInv, IInv, Shape, RunIds
  <1>2. /\ live' = n /\ run'[n] = d /\ call' = [call EXCEPT ![p] = Returned(p)]
        /\ UNCHANGED taken
    BY <1>1 DEF Launch, history
  <1>3. Returned(p).pc # "sent"
    BY <1>1, ReturnedTyped DEF LInv
  <1>4. ToLive' = {}
    <2> SUFFICES ASSUME NEW q \in Callers, call'[q].pc = "sent", call'[q].run = n
                 PROVE  FALSE
      BY <1>2 DEF ToLive
    <2>1. q # p /\ call'[q] = call[q]
      BY <1>1, <1>2, <1>3
    <2>2. call[q].run \in 1..started
      BY <2>1 DEF LInv, WInv, Wired, CallWired
    <2> QED BY <1>1, <2>1, <2>2
  <1>5. Unlogged' = {<<>>}
    BY <1>4 DEF Unlogged
  <1>6. /\ d.ledger = <<>> /\ d.box = <<>> /\ d.stream = <<>>
    BY DEF NewRun
  <1> HIDE DEF d, n
  <1>7. Lined(<<>> \o <<>>, d, taken')
    <2>1. Boundaries(<<>>) = 0
      <3>1. {i \in DOMAIN <<>> : <<>>[i] \in Msgs} = {}
        OBVIOUS
      <3> QED BY <3>1, FS_EmptySet DEF Boundaries
    <2>2. <<>> \o <<>> = <<>> /\ Len(<<>>) = 0
      OBVIOUS
    <2>3. /\ 0 \in 0..Len(<<>>) /\ 1..Len(<<>>) = {} /\ 1..0 = {} /\ 0 + Len(<<>>) = Len(<<>>)
          /\ 0 <= 0
      BY <2>2
    <2> QED BY <1>6, <2>1, <2>2, <2>3 DEF Lined
  <1> QED BY <1>2, <1>5, <1>6, <1>7 DEF Aligned

LEMMA AlignedStep ==
    ASSUME LInv, [Next]_vars, Settling', Ordered'
    PROVE  LInv'
  <1> SUFFICES Aligned'
    BY WiredStep DEF LInv
  <1>1. CASE UNCHANGED vars
    BY <1>1 DEF vars, chat, history, LInv, Aligned, Unlogged, ToLive
  <1>2. ASSUME NEW p \in Callers, CallStep(p) PROVE Aligned'
    BY <1>2, AlignedCalls, AlignedLaunch
  <1>3. ASSUME NEW r \in RunIds, AgentStep(r) \/ AgentFault(r) \/ RunTask(r) PROVE Aligned'
    BY <1>3, AgentMoves, RunMoves, AlignedRuns DEF LInv
  <1>4. CASE Interrupt \/ RespondInput
    BY <1>4, UserMoves, AlignedRuns DEF LInv
  <1>5. ASSUME UNCHANGED <<live, run, taken>>, NEW p \in Callers, NEW c,
               call' = [call EXCEPT ![p] = c], call[p].pc = "idle", c.pc # "sent"
        PROVE  Aligned'
    <2>1. Unlogged' = Unlogged
      BY <1>5, UnloggedStays DEF LInv
    <2> QED BY <1>5, <2>1 DEF LInv, Aligned
  <1>6. ASSUME NEW m \in Msgs, Issue(m) PROVE Aligned'
    <2>1. PICK kind \in {"run", "steer"} :
              call' = [call EXCEPT ![m] = [Dispatch(<<m>>, FALSE) EXCEPT !.kind = kind]]
      BY <1>6 DEF Issue
    <2> DEFINE c == [Dispatch(<<m>>, FALSE) EXCEPT !.kind = kind]
    <2>2. c.pc # "sent" /\ m \in Callers
      BY DEF Dispatch, NoCall, Callers
    <2>3. call' = [call EXCEPT ![m] = c]
      BY <2>1
    <2> HIDE DEF c
    <2>4. UNCHANGED <<live, run, taken>> /\ call[m].pc = "idle"
      BY <1>6 DEF Issue, history
    <2> QED BY <1>5, <2>2, <2>3, <2>4
  <1>7. 0 \in Callers
    BY RunsAssumption DEF Callers
  <1>8. CASE Crash
    BY <1>8 DEF Crash, Aligned
  <1>9. CASE Boot
    BY <1>9 DEF Boot, chat, history, LInv, Aligned, Unlogged, ToLive
  <1>10. CASE Recover
    <2>1. /\ UNCHANGED <<live, run, taken>> /\ call[0].pc = "idle" /\ CallShape(call[0])
      BY <1>7, <1>10 DEF Recover, history, LInv, WInv, Wired, Spawned, IInv, Shape
    <2> DEFINE c == [call[0] EXCEPT !.msgs = <<Last(posted)>>]
    <2>2. c.pc # "sent"
      BY <2>1 DEF CallShape
    <2>3. call' = [call EXCEPT ![0] = c] \/ UNCHANGED call
      BY <1>10 DEF Recover
    <2> HIDE DEF c
    <2>4. CASE UNCHANGED call
      BY <2>1, <2>4 DEF LInv, Aligned, Unlogged, ToLive
    <2> QED BY <1>5, <1>7, <2>1, <2>2, <2>3, <2>4
  <1>11. CASE Revive
    <2>1. /\ UNCHANGED <<live, run, taken>> /\ call[0].pc = "idle"
          /\ call' = [call EXCEPT ![0] = Dispatch(call[0].msgs, FALSE)]
      BY <1>11 DEF Revive, LInv, WInv, Wired, Spawned
    <2>2. Dispatch(call[0].msgs, FALSE).pc # "sent"
      BY DEF Dispatch, NoCall
    <2> QED BY <1>5, <1>7, <2>1, <2>2
  <1>12. CASE Next
    BY <1>2, <1>3, <1>4, <1>6, <1>8, <1>9, <1>10, <1>11, <1>12 DEF Next
  <1> QED BY <1>1, <1>12

-----------------------------------------------------------------------------
(* Where a message is, from the moment its command is run. *)

Resolved(m) == m \in taken \cup excused \cup dropped

\* The live run has it, or is about to hand it on.
Aboard(m) ==
    /\ live # 0
    /\ \/ /\ run[live].phase \in Carrying
          /\ m = run[live].first \/ m \in ToSet(run[live].ledger)
       \/ run[live].phase = "leaving" /\ m \in ToSet(run[live].claim)

\* A caller whose run is gone with its message: it has only to return.
Stale(p) ==
    /\ call[p].pc = "logged" /\ live # call[p].run
    /\ Head(call[p].msgs) \notin ToSet(run[call[p].run].ledger)

\* A caller that will bring m to a run.
Firm(p, m) == \E i \in DOMAIN call[p].msgs : call[p].msgs[i] = m /\ (i = 1 => ~Stale(p))

Brought(m) == Resolved(m) \/ Aboard(m) \/ \E p \in Callers : Firm(p, m)

\* What a caller has entered in the ledger of the live run is there, claimed or settled.
Entered ==
    \A p \in Callers :
        LET m == Head(call[p].msgs) IN
        call[p].pc = "logged" /\ live = call[p].run =>
            \/ Resolved(m) \/ m \in ToSet(run[live].ledger)
            \/ run[live].phase = "leaving" /\ m \in ToSet(run[live].claim)

Followed == \A m \in Msgs : call[m].pc # "idle" => Brought(m)

MInv == LInv /\ Entered /\ Followed

LEMMA ToSetTail ==
    ASSUME NEW S, NEW q \in Seq(S), q # <<>>, NEW m \in ToSet(q)
    PROVE  m = Head(q) \/ m \in ToSet(Tail(q))
  <1>1. PICK i \in 1..Len(q) : q[i] = m
    BY DEF ToSet
  <1>2. CASE i = 1
    BY <1>1, <1>2
  <1>3. CASE i # 1
    <2>1. i - 1 \in 1..Len(Tail(q)) /\ Tail(q)[i - 1] = m /\ DOMAIN Tail(q) = 1..Len(Tail(q))
      BY <1>1, <1>3
    <2> QED BY <2>1 DEF ToSet
  <1> QED BY <1>2, <1>3

(* The message at the front of the ledger has been begun when its boundary is read. *)
LEMMA SteeredTaken ==
    ASSUME LInv, NEW r \in RunIds, Steers(r), NEW m \in ToSet(run[r].ledger)
    PROVE  m \in taken \/ m \in ToSet(run'[r].ledger)
  <1> DEFINE l == run[r].ledger
  <1>1. /\ live = r /\ r # 0 /\ run[r].phase \in Carrying
        /\ RunWired(run[r]) /\ l \in Seq(Msgs)
    BY LiveRun, RunsAssumption DEF Steers, RunIds, LInv, RunWired
  <1>2. PICK u \in Unlogged : u \in Seq(Msgs)
    BY UnloggedSeq DEF LInv
  <1>3. Lined(l \o u, run[r], taken)
    BY <1>1 DEF LInv, Aligned
  <1>4. l \o u \in Seq(Msgs)
    BY <1>1, <1>2
  <1>5. Head(l \o u) \in taken
    <2>1. Mailed(run'[r]) => Mailed(run[r])
      BY DEF Steers
    <2> QED BY <1>1, <1>3, <1>4, <2>1, LinedSteer DEF Steers
  <1> HIDE DEF l
  <1>6. CASE l # <<>>
    <2>1. Head(l \o u) = Head(l)
      BY <1>1, <1>2, <1>6
    <2>2. run'[r].ledger = Tail(l)
      BY <1>6 DEF Steers, l
    <2> QED BY <1>1, <1>5, <1>6, <2>1, <2>2, ToSetTail DEF l
  <1>7. CASE l = <<>>
    BY <1>7 DEF Steers, l
  <1> QED BY <1>6, <1>7

(* A step of a run that leaves the callers alone. *)
LEMMA FollowedStays ==
    ASSUME MInv, NEW r \in RunIds, Works(r) \/ Steers(r) \/ Claims(r)
    PROVE  Entered' /\ Followed'
  <1>1. /\ UNCHANGED <<live, call>> /\ Learned /\ r # 0
        /\ \A q \in RunIds \ {r} : run'[q] = run[q]
    BY RunsAssumption DEF Works, Steers, Claims, OneRun, RunIds
  <1>2. \A m : Resolved(m) => Resolved(m)'
    BY <1>1 DEF Resolved, Learned
  <1>3. \A p \in Callers : call[p].pc = "logged" => call[p].run \in RunIds
    BY DEF MInv, LInv, WInv, IInv, Shape, CallShape
  <1>4. \A p \in Callers : Stale(p)' => Stale(p)
    <2>1. CASE Works(r)
      BY <1>1, <1>3, <2>1 DEF Works, Stale
    <2>2. CASE live = r
      BY <1>1, <1>3, <2>2 DEF Stale
    <2> QED BY <2>1, <2>2 DEF Steers, Claims
  <1>5. \A p \in Callers : \A m : Firm(p, m) => Firm(p, m)'
    BY <1>1, <1>4 DEF Firm
  <1>6. ASSUME NEW m \in ToSet(run[r].ledger), live = r
        PROVE  \/ Resolved(m)' \/ m \in ToSet(run'[r].ledger)
               \/ run'[r].phase = "leaving" /\ m \in ToSet(run'[r].claim)
    <2>1. CASE Works(r)
      BY <1>6, <2>1 DEF Works
    <2>2. CASE Steers(r)
      BY <1>1, <1>2, <1>6, <2>2, SteeredTaken DEF Resolved, MInv
    <2>3. CASE Claims(r)
      BY <1>6, <2>3 DEF Claims, Resolved, ToSet
    <2> QED BY <2>1, <2>2, <2>3
  <1>7. \A m : Aboard(m) => Aboard(m)' \/ Resolved(m)'
    <2> SUFFICES ASSUME NEW m, Aboard(m) PROVE Aboard(m)' \/ Resolved(m)'
      OBVIOUS
    <2>1. CASE live # r
      <3>1. run'[live] = run[live]
        BY <1>1, <2>1, LiveRun DEF Aboard, MInv, LInv
      <3> QED BY <1>1, <3>1 DEF Aboard
    <2>2. CASE live = r /\ Works(r)
      BY <1>1, <2>2 DEF Aboard, Works, Carrying
    <2>3. CASE live = r /\ Steers(r)
      <3>1. run[r].phase \in Carrying /\ run'[r].phase \in Carrying /\ run'[r].first = run[r].first
            /\ run[r].phase # "leaving" /\ run'[r].phase # "leaving"
        BY <2>3 DEF Steers, Carrying
      <3> QED BY <1>1, <1>6, <2>3, <3>1 DEF Aboard
    <2>4. CASE live = r /\ Claims(r)
      <3>1. /\ run[r].phase \in Carrying /\ run'[r].phase = "leaving" /\ run[r].phase # "leaving"
            /\ run[r].first \in taken \cup excused'
        BY <2>4 DEF Claims, Carrying
      <3>2. CASE m = run[r].first
        BY <1>1, <3>1, <3>2 DEF Resolved, Learned
      <3>3. CASE m \in ToSet(run[r].ledger)
        BY <2>4, <3>1, <3>3 DEF Claims, Aboard, Resolved, ToSet
      <3> QED BY <2>4, <3>1, <3>2, <3>3 DEF Aboard
    <2> QED BY <2>1, <2>2, <2>3, <2>4
  <1>8. Followed'
    BY <1>1, <1>2, <1>5, <1>7 DEF Followed, Brought, MInv
  <1>9. Entered'
    <2> SUFFICES ASSUME NEW p \in Callers, call[p].pc = "logged", live = call[p].run,
                        NEW m, m = Head(call[p].msgs)
                 PROVE  \/ Resolved(m)' \/ m \in ToSet(run'[live].ledger)
                        \/ run'[live].phase = "leaving" /\ m \in ToSet(run'[live].claim)
      BY <1>1 DEF Entered
    <2>1. \/ Resolved(m) \/ m \in ToSet(run[live].ledger)
          \/ run[live].phase = "leaving" /\ m \in ToSet(run[live].claim)
      BY DEF MInv, Entered
    <2>2. CASE live # r
      BY <1>1, <1>2, <1>3, <2>1, <2>2
    <2>3. CASE live = r
      <3>1. CASE run[live].phase = "leaving" /\ m \in ToSet(run[live].claim)
        BY <2>3, <3>1 DEF Works, Steers, Claims, Carrying
      <3> QED BY <1>2, <1>6, <2>1, <2>3, <3>1
    <2> QED BY <2>2, <2>3
  <1> QED BY <1>8, <1>9

(* A run that leaves the map. *)
LEMMA FollowedEnds ==
    ASSUME MInv, NEW r \in RunIds, Ends(r)
    PROVE  Entered' /\ Followed'
  <1>1. PICK next \in Seq(Msgs), again \in BOOLEAN :
           /\ call' = IF next = <<>> THEN call ELSE [call EXCEPT ![r] = Dispatch(next, again)]
           /\ run[r].phase \in Carrying =>
                 /\ run[r].first \in excused' \/ next = <<run[r].first>>
                 /\ \A i \in DOMAIN run[r].ledger : run[r].ledger[i] \in dropped'
           /\ run[r].phase = "leaving" => next = run[r].claim
    BY DEF Ends
  <1>2. /\ live = r /\ live' = 0 /\ Learned /\ run'[r].ledger = run[r].ledger
        /\ \A q \in RunIds \ {r} : run'[q] = run[q]
    BY DEF Ends, OneRun
  <1>3. /\ r \in Callers /\ r # 0 /\ call[r].pc = "idle" /\ call[r].msgs = <<>>
        /\ \A p \in Callers : call[p].pc = "logged" => call[p].run \in RunIds
    <2>1. WInv /\ run[r].phase \in Busy /\ r # 0
      BY RunsAssumption DEF Ends, MInv, LInv, RunIds
    <2>2. \A p \in Callers : call[p].pc = "logged" => call[p].run \in RunIds
      BY <2>1 DEF WInv, IInv, Shape, CallShape
    <2> QED BY <2>1, <2>2, Reading
  <1>4. /\ \A p \in Callers \ {r} : call'[p] = call[p]
        /\ call'[r] = call[r] \/ call'[r].pc = "look"
        /\ next # <<>> => call'[r].msgs = next
        /\ \A p \in Callers : call'[p].pc = "idle" => call[p].pc = "idle"
    BY <1>1, <1>3 DEF MInv, LInv, WInv, IInv, Shape, Dispatch, NoCall
  <1>5. \A m : Resolved(m) => Resolved(m)'
    BY <1>2 DEF Resolved, Learned
  <1>6. \A m \in ToSet(next) : Firm(r, m)'
    <2> SUFFICES ASSUME NEW m \in ToSet(next) PROVE Firm(r, m)'
      OBVIOUS
    <2>1. PICK i \in DOMAIN next : next[i] = m
      BY DEF ToSet
    <2>2. next # <<>>
      BY <2>1
    <2>3. ~Stale(r)'
      BY <1>3, <1>4 DEF Stale
    <2> QED BY <1>4, <2>1, <2>2, <2>3 DEF Firm
  <1>7. \A m : Aboard(m) => Resolved(m)' \/ Firm(r, m)'
    <2> SUFFICES ASSUME NEW m, Aboard(m) PROVE Resolved(m)' \/ Firm(r, m)'
      OBVIOUS
    <2>1. CASE run[r].phase \in Carrying /\ m = run[r].first
      <3>1. CASE next = <<m>>
        <4>1. m \in ToSet(next)
          BY <3>1 DEF ToSet
        <4> QED BY <1>6, <4>1
      <3> QED BY <1>1, <2>1, <3>1 DEF Resolved
    <2>2. CASE run[r].phase \in Carrying /\ m \in ToSet(run[r].ledger)
      BY <1>1, <2>2 DEF Resolved, ToSet
    <2>3. CASE run[r].phase = "leaving" /\ m \in ToSet(run[r].claim)
      BY <1>1, <1>6, <2>3
    <2> QED BY <1>2, <2>1, <2>2, <2>3 DEF Aboard
  <1>8. ASSUME NEW p \in Callers, Stale(p)', NEW m, m = Head(call'[p].msgs)
        PROVE  Stale(p) \/ Resolved(m)' \/ Firm(r, m)'
    <2>1. p # r /\ call'[p] = call[p] /\ call[p].pc = "logged" /\ call[p].run \in RunIds
      BY <1>3, <1>4, <1>8 DEF Stale
    <2>2. m \notin ToSet(run[call[p].run].ledger)
      BY <1>2, <1>8, <2>1 DEF Stale
    <2>3. CASE call[p].run # r
      BY <1>2, <1>8, <2>1, <2>2, <2>3 DEF Stale
    <2>4. CASE call[p].run = r
      <3>1. Resolved(m) \/ (run[r].phase = "leaving" /\ m \in ToSet(run[r].claim))
        BY <1>2, <1>8, <2>1, <2>2, <2>4 DEF MInv, Entered
      <3> QED BY <1>1, <1>5, <1>6, <3>1
    <2> QED BY <2>3, <2>4
  <1>9. \A p \in Callers : \A m : Firm(p, m) => Resolved(m)' \/ \E q \in Callers : Firm(q, m)'
    <2> SUFFICES ASSUME NEW p \in Callers, NEW m, Firm(p, m)
                 PROVE  Resolved(m)' \/ \E q \in Callers : Firm(q, m)'
      OBVIOUS
    <2>1. PICK i \in DOMAIN call[p].msgs : call[p].msgs[i] = m /\ (i = 1 => ~Stale(p))
      BY DEF Firm
    <2>2. p # r
      BY <1>3, <2>1
    <2>3. call'[p] = call[p]
      BY <1>4, <2>2
    <2>4. CASE i = 1 /\ Stale(p)'
      <3>1. m = Head(call'[p].msgs)
        BY <2>1, <2>3, <2>4 DEF MInv, LInv, WInv, Wired, CallWired
      <3> QED BY <1>3, <1>8, <2>1, <2>4, <3>1
    <2>5. CASE ~(i = 1 /\ Stale(p)')
      BY <2>1, <2>3, <2>5 DEF Firm
    <2> QED BY <2>4, <2>5
  <1>10. Followed'
    <2> SUFFICES ASSUME NEW m \in Msgs, call'[m].pc # "idle" PROVE Brought(m)'
      BY DEF Followed
    <2>1. m \in Callers /\ m # r /\ call[m].pc # "idle"
      BY <1>3, <1>4, RunsAssumption DEF Callers, RunIds
    <2>2. Brought(m)
      BY <2>1 DEF MInv, Followed
    <2> QED BY <1>3, <1>5, <1>7, <1>9, <2>2 DEF Brought
  <1>11. Entered'
    <2> SUFFICES ASSUME NEW p \in Callers, call'[p].pc = "logged", call'[p].run = 0
                 PROVE  FALSE
      BY <1>2 DEF Entered
    <2>1. call'[p] = call[p]
      BY <1>3, <1>4
    <2> QED BY <1>3, <2>1, RunsAssumption DEF RunIds
  <1> QED BY <1>10, <1>11

(* Returning, a caller leaves its first message behind, and brings the others. *)
LEMMA ReturnKeeps ==
    ASSUME WInv, NEW p \in Callers, call[p].pc \notin {"idle", "done"}
    PROVE  /\ Returned(p).pc \in {"look", "done"}
           /\ \A i \in DOMAIN call[p].msgs :
                 i # 1 => \E j \in DOMAIN Returned(p).msgs : Returned(p).msgs[j] = call[p].msgs[i]
  <1> DEFINE q == call[p].msgs
  <1>1. q \in Seq(Msgs) /\ q # <<>> /\ Returned(p).pc \in {"look", "done"}
    BY ReturnedTyped DEF WInv, Wired, CallWired
  <1> HIDE DEF q
  <1>2. CASE Len(q) > 1
    <2>1. Returned(p).msgs = Tail(q)
      BY <1>2 DEF Returned, Dispatch, NoCall, q
    <2>2. \A i \in DOMAIN q : i # 1 => i - 1 \in DOMAIN Tail(q) /\ Tail(q)[i - 1] = q[i]
      BY <1>1
    <2> QED BY <1>1, <2>1, <2>2 DEF q
  <1>3. CASE ~(Len(q) > 1)
    <2>1. \A i \in DOMAIN q : i = 1
      BY <1>1, <1>3
    <2> QED BY <1>1, <2>1 DEF q
  <1> QED BY <1>2, <1>3

(* A caller moves on and the live run keeps what it has. *)
LEMMA FollowedCall ==
    ASSUME MInv, UNCHANGED live, Learned, NEW p \in Callers, NEW c,
           call' = [call EXCEPT ![p] = c],
           live # 0 =>
              /\ run'[live].phase = run[live].phase /\ run'[live].first = run[live].first
              /\ run'[live].claim = run[live].claim
              /\ ToSet(run[live].ledger) \subseteq ToSet(run'[live].ledger),
           \A q \in Callers \ {p} : Stale(q)' =>
              Stale(q) \/ \E m : m = Head(call[q].msgs) /\ Firm(p, m)',
           \A m : Firm(p, m) => Resolved(m) \/ Aboard(m) \/ Firm(p, m)',
           c.pc = "logged" /\ live = c.run => Head(c.msgs) \in ToSet(run'[live].ledger),
           p \in Msgs /\ call[p].pc = "idle" => Firm(p, p)'
    PROVE  Entered' /\ Followed'
  <1>1. call'[p] = c /\ \A q \in Callers \ {p} : call'[q] = call[q]
    BY DEF MInv, LInv, WInv, IInv, Shape
  <1>2. \A m : Resolved(m) => Resolved(m)'
    BY DEF Resolved, Learned
  <1>3. \A m : Aboard(m) => Aboard(m)'
    BY DEF Aboard
  <1>4. ASSUME NEW q \in Callers \ {p}, NEW m, Firm(q, m)
        PROVE  \E s \in Callers : Firm(s, m)'
    <2>1. PICK i \in DOMAIN call[q].msgs : call[q].msgs[i] = m /\ (i = 1 => ~Stale(q))
      BY <1>4 DEF Firm
    <2>2. call'[q] = call[q]
      BY <1>1
    <2>3. CASE i = 1 /\ Stale(q)'
      <3>1. m = Head(call[q].msgs)
        BY <2>1, <2>3 DEF MInv, LInv, WInv, Wired, CallWired
      <3> QED BY <2>1, <2>3, <3>1
    <2>4. CASE ~(i = 1 /\ Stale(q)')
      BY <2>1, <2>2, <2>4 DEF Firm
    <2> QED BY <2>3, <2>4
  <1>5. \A m : Brought(m) => Brought(m)'
    <2> SUFFICES ASSUME NEW m, Brought(m) PROVE Brought(m)'
      OBVIOUS
    <2>1. Resolved(m)' \/ Aboard(m)' \/ \E s \in Callers : Firm(s, m)'
      BY <1>2, <1>3, <1>4 DEF Brought
    <2> QED BY <2>1 DEF Brought
  <1>6. Followed'
    <2> SUFFICES ASSUME NEW m \in Msgs, call'[m].pc # "idle" PROVE Brought(m)'
      BY DEF Followed
    <2>1. m \in Callers
      BY DEF Callers
    <2>2. CASE call[m].pc = "idle"
      <3>1. m = p
        BY <1>1, <2>1, <2>2
      <3>2. Firm(p, m)'
        BY <2>2, <3>1
      <3> QED BY <3>2 DEF Brought
    <2>3. CASE call[m].pc # "idle"
      BY <1>5, <2>3 DEF MInv, Followed
    <2> QED BY <2>2, <2>3
  <1>7. Entered'
    <2> SUFFICES ASSUME NEW q \in Callers, call'[q].pc = "logged", live = call'[q].run,
                        NEW m, m = Head(call'[q].msgs)
                 PROVE  \/ Resolved(m)' \/ m \in ToSet(run'[live].ledger)
                        \/ run'[live].phase = "leaving" /\ m \in ToSet(run'[live].claim)
      BY DEF Entered
    <2>1. CASE q = p
      BY <1>1, <2>1
    <2>2. CASE q # p
      <3>1. call'[q] = call[q] /\ live # 0
        BY <1>1, <2>2, RunsAssumption DEF MInv, LInv, WInv, IInv, Shape, CallShape, RunIds
      <3>2. \/ Resolved(m) \/ m \in ToSet(run[live].ledger)
            \/ run[live].phase = "leaving" /\ m \in ToSet(run[live].claim)
        BY <3>1 DEF MInv, Entered
      <3> QED BY <1>2, <3>1, <3>2
    <2> QED BY <2>1, <2>2
  <1> QED BY <1>6, <1>7

(* The same for a caller that keeps its messages while no ledger loses any. *)
LEMMA FollowedKeeps ==
    ASSUME MInv, UNCHANGED live, Learned, NEW p \in Callers, NEW c,
           call' = [call EXCEPT ![p] = c], call[p].pc # "idle", c.msgs = call[p].msgs,
           \A r \in RunIds :
              /\ run'[r].phase = run[r].phase /\ run'[r].first = run[r].first
              /\ run'[r].claim = run[r].claim
              /\ ToSet(run[r].ledger) \subseteq ToSet(run'[r].ledger),
           c.pc = "logged" => c.run \in RunIds /\ Head(c.msgs) \in ToSet(run'[c.run].ledger)
    PROVE  Entered' /\ Followed'
  <1>1. call'[p] = c /\ \A q \in Callers \ {p} : call'[q] = call[q]
    BY DEF MInv, LInv, WInv, IInv, Shape
  <1>2. \A q \in Callers \ {p} : Stale(q)' => Stale(q)
    BY <1>1 DEF Stale, MInv, LInv, WInv, IInv, Shape, CallShape
  <1>3. ~Stale(p)'
    BY <1>1 DEF Stale
  <1>4. \A m : Firm(p, m) => Firm(p, m)'
    BY <1>1, <1>3 DEF Firm
  <1>5. live # 0 => live \in RunIds
    BY LiveRun DEF MInv, LInv
  <1> QED BY <1>2, <1>4, <1>5, FollowedCall

LEMMA FollowedReturns ==
    ASSUME MInv, Claimed', UNCHANGED <<live, history>>, NEW p \in Callers, Returns(p)
    PROVE  Entered' /\ Followed'
  <1> DEFINE c == Returned(p)
  <1>1. /\ call' = [call EXCEPT ![p] = c] /\ UNCHANGED run /\ call[p].pc = "logged" /\ WInv
        /\ call[p].run \in RunIds
    BY DEF Returns, MInv, LInv, WInv, IInv, Shape, CallShape
  <1>2. /\ c.pc \in {"look", "done"}
        /\ \A i \in DOMAIN call[p].msgs :
              i # 1 => \E j \in DOMAIN c.msgs : c.msgs[j] = call[p].msgs[i]
    BY <1>1, ReturnKeeps
  <1> HIDE DEF c
  <1>3. call'[p] = c /\ \A q \in Callers \ {p} : call'[q] = call[q]
    BY <1>1 DEF WInv, IInv, Shape
  <1>4. \A q \in Callers \ {p} : Stale(q)' => Stale(q)
    BY <1>1, <1>3 DEF Stale
  <1>5. ~Stale(p)'
    BY <1>2, <1>3 DEF Stale
  <1>6. ASSUME NEW m, Firm(p, m) PROVE Resolved(m) \/ Aboard(m) \/ Firm(p, m)'
    <2>1. PICK i \in DOMAIN call[p].msgs : call[p].msgs[i] = m /\ (i = 1 => ~Stale(p))
      BY <1>6 DEF Firm
    <2>2. CASE i # 1
      BY <1>2, <1>3, <1>5, <2>1, <2>2 DEF Firm
    <2>3. CASE i = 1
      <3>1. m = Head(call[p].msgs)
        BY <1>1, <2>1, <2>3 DEF WInv, Wired, CallWired
      <3>2. live = call[p].run /\ live # 0 /\ live \in RunIds
        BY <1>1, <2>1, <2>3, RunsAssumption DEF Returns, Stale, RunIds
      <3>3. run[live].phase \in Carrying
        BY <3>2 DEF Returns, MInv, LInv, WInv, Wired, Busy, Carrying
      <3>4. Resolved(m) \/ m \in ToSet(run[live].ledger)
        BY <1>1, <3>1, <3>2, <3>3 DEF MInv, Entered, Carrying
      <3> QED BY <3>2, <3>3, <3>4 DEF Aboard
    <2> QED BY <2>2, <2>3
  <1>7. Learned
    BY DEF Learned, history
  <1>8. c.pc # "logged" /\ call[p].pc # "idle"
    BY <1>1, <1>2
  <1> QED BY <1>1, <1>4, <1>6, <1>7, <1>8, FollowedCall

LEMMA FollowedRetakes ==
    ASSUME MInv, UNCHANGED <<live, history>>, NEW p \in Callers, Retakes(p)
    PROVE  Entered' /\ Followed'
  <1> DEFINE r == call[p].run
  <1>0. PICK m : m = Head(call[p].msgs)
    OBVIOUS
  <1>1. PICK c : call' = [call EXCEPT ![p] = c] /\ c.msgs = call[p].msgs /\ c.pc \in {"look", "stop"}
    BY DEF Retakes
  <1>2. PICK l \in Without(run[r].ledger, m) : run' = [run EXCEPT ![r].ledger = l]
    BY <1>0 DEF Retakes
  <1>3. call[p].pc = "logged" /\ live # r /\ r \in RunIds
    BY DEF Retakes
  <1>4. /\ call'[p] = c /\ \A q \in Callers \ {p} : call'[q] = call[q]
        /\ \A q \in Callers : call[q].pc = "logged" => call[q].run \in RunIds
        /\ \A q \in RunIds \ {r} : run'[q] = run[q]
    BY <1>1, <1>2, <1>3 DEF MInv, LInv, WInv, IInv, Shape, CallShape
  <1>5. run[r].ledger \in Seq(Msgs) /\ run'[r].ledger = l
    BY <1>2, <1>3 DEF MInv, LInv, WInv, Wired, RunWired, IInv, Shape
  <1>6. \A i \in DOMAIN run[r].ledger :
           run[r].ledger[i] # m => \E j \in DOMAIN l : l[j] = run[r].ledger[i]
    BY <1>2, <1>5, WithoutKeeps
  <1>7. ~Stale(p)'
    BY <1>1, <1>4 DEF Stale
  <1>8. \A n : Firm(p, n) => Firm(p, n)'
    BY <1>1, <1>4, <1>7 DEF Firm
  <1>9. Firm(p, m)'
    <2>1. call[p].msgs \in Seq(Msgs) /\ call[p].msgs # <<>>
      BY <1>3 DEF MInv, LInv, WInv, Wired, CallWired
    <2>2. 1 \in DOMAIN call[p].msgs /\ call[p].msgs[1] = m
      BY <1>0, <2>1
    <2> QED BY <1>1, <1>4, <1>7, <2>2 DEF Firm
  <1>10. ASSUME NEW q \in Callers \ {p}, Stale(q)'
         PROVE  Stale(q) \/ \E n : n = Head(call[q].msgs) /\ Firm(p, n)'
    <2>1. /\ call'[q] = call[q] /\ call[q].pc = "logged" /\ call[q].run \in RunIds
          /\ Head(call[q].msgs) \notin ToSet(run'[call[q].run].ledger) /\ live # call[q].run
      BY <1>4, <1>10 DEF Stale
    <2>2. CASE call[q].run # r
      BY <1>4, <2>1, <2>2 DEF Stale
    <2>3. CASE call[q].run = r
      <3>1. CASE Head(call[q].msgs) = m
        BY <1>9, <3>1
      <3>2. CASE Head(call[q].msgs) # m
        <4>1. Head(call[q].msgs) \notin ToSet(run[r].ledger)
          <5> SUFFICES ASSUME NEW i \in DOMAIN run[r].ledger,
                              run[r].ledger[i] = Head(call[q].msgs)
                       PROVE  Head(call[q].msgs) \in ToSet(run'[r].ledger)
            BY <2>1, <2>3 DEF ToSet
          <5>1. PICK j \in DOMAIN l : l[j] = Head(call[q].msgs)
            BY <1>6, <3>2
          <5> QED BY <1>5, <5>1 DEF ToSet
        <4> QED BY <2>1, <2>3, <4>1 DEF Stale
      <3> QED BY <3>1, <3>2
    <2> QED BY <2>2, <2>3
  <1>11. live # 0 => run'[live] = run[live]
    BY <1>3, <1>4, LiveRun DEF MInv, LInv
  <1>12. Learned /\ c.pc # "logged" /\ call[p].pc # "idle"
    BY <1>1, <1>3 DEF Learned, history
  <1> QED BY <1>1, <1>8, <1>10, <1>11, <1>12, FollowedCall

LEMMA FollowedCalls ==
    ASSUME MInv, Claimed', NEW p \in Callers, CallStep(p), ~Launch(p)
    PROVE  Entered' /\ Followed'
  <1>1. /\ UNCHANGED <<live, history>> /\ call[p].pc # "idle"
        /\ Send(p) \/ Log(p) \/ Seeks(p) \/ Returns(p) \/ Retakes(p)
    BY CallMoves DEF MInv, LInv
  <1>2. /\ DOMAIN call = Callers /\ DOMAIN run = RunIds /\ CallShape(call[p]) /\ Learned
        /\ \A r \in RunIds : RunWired(run[r])
    BY <1>1 DEF MInv, LInv, WInv, Wired, IInv, Shape, Learned, history
  <1>3. CASE Seeks(p)
    <2>1. PICK c : call' = [call EXCEPT ![p] = c] /\ c.msgs = call[p].msgs /\ c.pc \in Seeking
      BY <1>3 DEF Seeks
    <2>2. c.pc # "logged"
      BY <2>1 DEF Seeking, Owning
    <2>3. \A r \in RunIds :
              /\ run'[r].phase = run[r].phase /\ run'[r].first = run[r].first
              /\ run'[r].claim = run[r].claim
              /\ ToSet(run[r].ledger) \subseteq ToSet(run'[r].ledger)
      BY <1>3 DEF Seeks, SameRun
    <2> QED BY <1>1, <1>2, <2>1, <2>2, <2>3, FollowedKeeps
  <1>4. CASE Send(p)
    <2> DEFINE c == [call[p] EXCEPT !.pc = "sent", !.run = live]
    <2>1. call' = [call EXCEPT ![p] = c] /\ c.msgs = call[p].msgs /\ c.pc = "sent"
      BY <1>2, <1>4 DEF Send, CallShape
    <2>2. \A r \in RunIds :
              /\ run'[r].phase = run[r].phase /\ run'[r].first = run[r].first
              /\ run'[r].claim = run[r].claim
              /\ ToSet(run[r].ledger) \subseteq ToSet(run'[r].ledger)
      BY <1>2, <1>4 DEF Send, RunWired
    <2> HIDE DEF c
    <2> QED BY <1>1, <1>2, <2>1, <2>2, FollowedKeeps
  <1>5. CASE Log(p)
    <2> DEFINE c == [call[p] EXCEPT !.pc = "logged"]
               m == Head(call[p].msgs)
               s == call[p].run
               l == Append(run[s].ledger, m)
    <2>1. /\ call' = [call EXCEPT ![p] = c] /\ c.msgs = call[p].msgs /\ c.pc = "logged"
          /\ c.run = s /\ s \in RunIds /\ run' = [run EXCEPT ![s].ledger = l]
      BY <1>2, <1>5 DEF Log, CallShape
    <2>2. ToSet(run[s].ledger) \subseteq ToSet(l) /\ m \in ToSet(l)
      <3>1. run[s].ledger \in Seq(Msgs)
        BY <1>2, <2>1 DEF RunWired
      <3>2. \A q \in Seq(Msgs) : ToSet(q) \subseteq ToSet(Append(q, m)) /\ m \in ToSet(Append(q, m))
        <4> SUFFICES ASSUME NEW q \in Seq(Msgs)
                     PROVE  ToSet(q) \subseteq ToSet(Append(q, m)) /\ m \in ToSet(Append(q, m))
          OBVIOUS
        <4> DEFINE a == Append(q, m)
        <4>1. /\ DOMAIN a = 1..(Len(q) + 1) /\ a[Len(q) + 1] = m /\ Len(q) \in Nat
              /\ DOMAIN q = 1..Len(q) /\ \A i \in 1..Len(q) : a[i] = q[i]
          OBVIOUS
        <4> HIDE DEF a
        <4>2. Len(q) + 1 \in DOMAIN a /\ \A i \in DOMAIN q : i \in DOMAIN a /\ a[i] = q[i]
          BY <4>1
        <4>3. ToSet(q) \subseteq ToSet(a) /\ m \in ToSet(a)
          BY <4>1, <4>2 DEF ToSet
        <4> QED BY <4>3 DEF a
      <3> QED BY <3>1, <3>2
    <2> HIDE DEF c, l
    <2>3. \A r \in RunIds :
              /\ run'[r].phase = run[r].phase /\ run'[r].first = run[r].first
              /\ run'[r].claim = run[r].claim
              /\ run'[r].ledger = IF r = s THEN l ELSE run[r].ledger
      BY <1>2, <2>1 DEF RunWired
    <2>4. \A r \in RunIds : ToSet(run[r].ledger) \subseteq ToSet(run'[r].ledger)
      BY <2>2, <2>3
    <2>5. Head(c.msgs) \in ToSet(run'[c.run].ledger)
      BY <2>1, <2>2, <2>3
    <2> QED BY <1>1, <1>2, <2>1, <2>3, <2>4, <2>5, FollowedKeeps
  <1> QED BY <1>1, <1>3, <1>4, <1>5, FollowedReturns, FollowedRetakes

(* The message of a fresh run goes aboard. *)
LEMMA FollowedLaunch ==
    ASSUME MInv, NEW p \in Callers, Launch(p)
    PROVE  Entered' /\ Followed'
  <1> DEFINE n == started + 1
             c == Returned(p)
             d == NewRun(Head(call[p].msgs), call[p].retry, known)
  <1>1. /\ n \in RunIds /\ n # 0 /\ call[p].pc = "fresh" /\ live = 0 /\ started \in Nat /\ WInv
        /\ DOMAIN run = RunIds /\ DOMAIN call = Callers
        /\ \A q \in Callers : call[q].pc = "logged" => call[q].run \in 1..started
    <2>1. WInv /\ call[p].pc = "fresh" /\ started < MaxRuns
      BY DEF Launch, MInv, LInv
    <2>2. started \in Nat /\ live = 0 /\ DOMAIN run = RunIds /\ DOMAIN call = Callers
      BY <2>1 DEF WInv, IInv, Shape, Handover
    <2>3. n \in RunIds /\ n # 0
      BY <2>1, <2>2, RunsAssumption DEF RunIds
    <2>4. \A q \in Callers : call[q].pc = "logged" => call[q].run \in 1..started
      BY <2>1 DEF WInv, Wired, CallWired
    <2> QED BY <2>1, <2>2, <2>3, <2>4
  <1>2. /\ live' = n /\ run' = [run EXCEPT ![n] = d] /\ call' = [call EXCEPT ![p] = c]
        /\ UNCHANGED history
    BY DEF Launch
  <1>3. /\ c.pc \in {"look", "done"}
        /\ \A i \in DOMAIN call[p].msgs :
              i # 1 => \E j \in DOMAIN c.msgs : c.msgs[j] = call[p].msgs[i]
    BY <1>1, ReturnKeeps
  <1>4. d.phase = "starting" /\ d.first = Head(call[p].msgs)
    BY DEF NewRun
  <1>5. \A q \in Callers : call[q].pc = "logged" => call[q].run \in RunIds \ {n}
    <2>1. \A r \in 1..started : r \in RunIds \ {n}
      BY <1>1, RunsAssumption DEF RunIds
    <2> QED BY <1>1, <2>1
  <1> HIDE DEF c, d, n
  <1>6. /\ call'[p] = c /\ \A q \in Callers \ {p} : call'[q] = call[q]
        /\ run'[n] = d /\ \A r \in RunIds \ {n} : run'[r] = run[r]
    BY <1>1, <1>2
  <1>7. \A q \in Callers \ {p} : Stale(q)' => Stale(q)
    BY <1>1, <1>2, <1>5, <1>6, RunsAssumption DEF Stale, RunIds
  <1>8. ~Stale(p)'
    BY <1>3, <1>6 DEF Stale
  <1>9. \A m : Resolved(m) => Resolved(m)'
    BY <1>2 DEF Resolved, history
  <1>10. \A m : ~Aboard(m)
    BY <1>1 DEF Aboard
  <1>11. ASSUME NEW q \in Callers, NEW m, Firm(q, m)
         PROVE  Aboard(m)' \/ Firm(q, m)'
    <2>1. PICK i \in DOMAIN call[q].msgs : call[q].msgs[i] = m /\ (i = 1 => ~Stale(q))
      BY <1>11 DEF Firm
    <2>2. CASE q # p
      BY <1>6, <1>7, <2>1, <2>2 DEF Firm
    <2>3. CASE q = p /\ i = 1
      <3>1. m = d.first
        BY <1>1, <1>4, <2>1, <2>3 DEF WInv, Wired, CallWired
      <3> QED BY <1>1, <1>2, <1>4, <1>6, <3>1 DEF Aboard, Carrying
    <2>4. CASE q = p /\ i # 1
      BY <1>3, <1>6, <1>8, <2>1, <2>4 DEF Firm
    <2> QED BY <2>2, <2>3, <2>4
  <1>12. Followed'
    <2> SUFFICES ASSUME NEW m \in Msgs, call'[m].pc # "idle" PROVE Brought(m)'
      BY DEF Followed
    <2>1. call[m].pc # "idle"
      BY <1>1, <1>6 DEF Callers
    <2>2. Brought(m)
      BY <2>1 DEF MInv, Followed
    <2> QED BY <1>9, <1>10, <1>11, <2>2 DEF Brought
  <1>13. Entered'
    <2> SUFFICES ASSUME NEW q \in Callers, call'[q].pc = "logged", n = call'[q].run
                 PROVE  FALSE
      BY <1>2 DEF Entered
    <2>1. call'[q] = call[q]
      BY <1>3, <1>6
    <2> QED BY <1>5, <2>1
  <1> QED BY <1>12, <1>13

LEMMA FollowedIssue ==
    ASSUME MInv, NEW m \in Msgs, Issue(m)
    PROVE  Entered' /\ Followed'
  <1>1. PICK kind \in {"run", "steer"} :
            call' = [call EXCEPT ![m] = [Dispatch(<<m>>, FALSE) EXCEPT !.kind = kind]]
    BY DEF Issue
  <1> DEFINE c == [Dispatch(<<m>>, FALSE) EXCEPT !.kind = kind]
  <1>2. /\ m \in Callers /\ m # 0 /\ call[m].pc = "idle" /\ UNCHANGED <<live, run, history>>
        /\ c.pc = "look" /\ c.msgs = <<m>> /\ call' = [call EXCEPT ![m] = c]
    <2>1. m \in Callers /\ m # 0 /\ call[m].pc = "idle" /\ UNCHANGED <<live, run, history>>
      BY RunsAssumption DEF Issue, Callers
    <2>2. c.pc = "look" /\ c.msgs = <<m>>
      BY DEF Dispatch, NoCall
    <2>3. call' = [call EXCEPT ![m] = c]
      BY <1>1
    <2> QED BY <2>1, <2>2, <2>3
  <1> HIDE DEF c
  <1>3. /\ call'[m] = c /\ \A q \in Callers \ {m} : call'[q] = call[q]
        /\ call[m].msgs = <<>>
    BY <1>2 DEF MInv, LInv, WInv, Wired, CallWired, IInv, Shape
  <1>4. Firm(m, m)'
    <2>1. ~Stale(m)' /\ 1 \in DOMAIN <<m>> /\ <<m>>[1] = m
      BY <1>2, <1>3 DEF Stale
    <2> QED BY <1>2, <1>3, <2>1 DEF Firm
  <1>5. \A q \in Callers \ {m} : Stale(q)' => Stale(q)
    BY <1>2, <1>3 DEF Stale
  <1>6. \A n : ~Firm(m, n)
    BY <1>3 DEF Firm
  <1>7. Learned
    BY <1>2 DEF Learned, history
  <1> QED BY <1>2, <1>4, <1>5, <1>6, <1>7, FollowedCall

LEMMA FollowedRecovery ==
    ASSUME MInv, Crash \/ Boot \/ Recover \/ Revive
    PROVE  Entered' /\ Followed'
  <1>1. 0 \in Callers /\ 0 \notin Msgs /\ DOMAIN call = Callers /\ CallShape(call[0])
    BY RunsAssumption DEF Callers, MInv, LInv, WInv, IInv, Shape
  <1>2. CASE Crash
    <2>1. \A p \in Callers : call'[p].pc \in {"idle", "done"}
      BY <1>2 DEF Crash, NoCall
    <2>2. \A m \in Msgs : call'[m].pc # "idle" => Resolved(m)'
      BY <1>2 DEF Crash, NoCall, Callers, Resolved
    <2> QED BY <2>1, <2>2 DEF Entered, Followed, Brought
  <1>3. CASE Boot
    BY <1>3 DEF Boot, chat, history, MInv, Entered, Followed, Brought, Resolved, Aboard, Firm, Stale
  <1>4. ASSUME UNCHANGED <<live, run, history>>, NEW c, call' = [call EXCEPT ![0] = c],
               call[0].pc = "idle", c.pc # "logged",
               call[0].msgs = <<>> \/ c.msgs = call[0].msgs
        PROVE  Entered' /\ Followed'
    <2>1. call'[0] = c /\ \A q \in Callers \ {0} : call'[q] = call[q]
      BY <1>1, <1>4
    <2>2. \A q \in Callers \ {0} : Stale(q)' => Stale(q)
      BY <1>4, <2>1 DEF Stale
    <2>3. ~Stale(0)'
      BY <1>4, <2>1 DEF Stale
    <2>4. \A n : Firm(0, n) => Firm(0, n)'
      BY <1>4, <2>1, <2>3 DEF Firm
    <2>5. Learned
      BY <1>4 DEF Learned, history
    <2> QED BY <1>1, <1>4, <2>2, <2>4, <2>5, FollowedCall
  <1>5. CASE Recover
    <2> DEFINE c == [call[0] EXCEPT !.msgs = <<Last(posted)>>]
    <2>1. /\ UNCHANGED <<live, run, history>> /\ call[0].pc = "idle" /\ call[0].msgs = <<>>
          /\ call' = [call EXCEPT ![0] = c] \/ UNCHANGED call
      BY <1>5 DEF Recover, MInv, LInv, WInv, Wired, Spawned
    <2>2. c.pc = "idle"
      BY <1>1, <2>1 DEF CallShape
    <2> HIDE DEF c
    <2>3. CASE UNCHANGED call
      BY <2>1, <2>3
         DEF history, MInv, Entered, Followed, Brought, Resolved, Aboard, Firm, Stale
    <2> QED BY <1>4, <2>1, <2>2, <2>3
  <1>6. CASE Revive
    <2> DEFINE c == Dispatch(call[0].msgs, FALSE)
    <2>1. /\ UNCHANGED <<live, run, history>> /\ call[0].pc = "idle"
          /\ call' = [call EXCEPT ![0] = c]
      BY <1>6 DEF Revive, history, MInv, LInv, WInv, Wired, Spawned
    <2>2. c.pc = "look" /\ c.msgs = call[0].msgs
      BY DEF Dispatch, NoCall
    <2> HIDE DEF c
    <2> QED BY <1>4, <2>1, <2>2
  <1> QED BY <1>2, <1>3, <1>5, <1>6

LEMMA FollowedStep ==
    ASSUME MInv, [Next]_vars, Settling', Ordered', Claimed'
    PROVE  MInv'
  <1> SUFFICES Entered' /\ Followed'
    BY AlignedStep DEF MInv
  <1>1. CASE UNCHANGED vars
    BY <1>1 DEF vars, chat, history, MInv, Entered, Followed, Brought, Resolved, Aboard, Firm, Stale
  <1>2. ASSUME NEW p \in Callers, CallStep(p) PROVE Entered' /\ Followed'
    BY <1>2, FollowedCalls, FollowedLaunch
  <1>3. ASSUME NEW r \in RunIds, AgentStep(r) \/ AgentFault(r) \/ RunTask(r)
        PROVE  Entered' /\ Followed'
    BY <1>3, AgentMoves, RunMoves, FollowedStays, FollowedEnds DEF MInv, LInv
  <1>4. CASE Interrupt \/ RespondInput
    BY <1>4, UserMoves, FollowedStays DEF MInv, LInv
  <1>5. CASE Next
    BY <1>2, <1>3, <1>4, <1>5, FollowedIssue, FollowedRecovery DEF Next
  <1> QED BY <1>1, <1>5

(* An accepted message reaches an agent, or is on its way to one, or was stopped,
   failed in sight of the user, or was lost with a run in start-up: whatever the
   agents and the user do, and however often the engine crashes. *)
THEOREM SteerKeptHolds == Spec => []SteerKept
  <1> DEFINE J == Settling /\ Ordered /\ Claimed => MInv
  <1>1. Init => J
    <2> SUFFICES ASSUME Init PROVE Aligned /\ Entered /\ Followed
      BY WiredInit DEF MInv, LInv
    <2>1. \A p \in Callers : call[p].pc = "idle"
      BY DEF Init, NoCall
    <2> QED BY <2>1 DEF Init, Aligned, Entered, Followed, Callers
  <1>2. J /\ [Next]_vars => J'
    BY FollowedStep, RacedGrows DEF Settling, Ordered, Claimed, Unraced
  <1>3. MInv => SteerDelivered
    <2> SUFFICES ASSUME MInv, NEW m \in Msgs, call[m].pc = "done"
                 PROVE  m \in taken \cup excused \cup dropped \/ Carried(m)
      BY DEF SteerDelivered
    <2>1. Brought(m)
      BY DEF MInv, Followed
    <2>2. CASE Aboard(m)
      <3>1. live \in RunIds
        BY <2>2, LiveRun DEF Aboard, MInv, LInv
      <3> QED BY <2>2, <3>1 DEF Aboard, Carrying, Carried, Owns
    <2>3. CASE \E p \in Callers : Firm(p, m)
      BY <2>3 DEF Firm, Carried, ToSet
    <2> QED BY <2>1, <2>2, <2>3 DEF Brought, Resolved
  <1>4. J => SteerKept
    BY <1>3 DEF SteerKept, Settling, Ordered, Claimed, Unraced
  <1> HIDE DEF J
  <1> QED BY <1>1, <1>2, <1>4, PTL DEF Spec
=============================================================================
