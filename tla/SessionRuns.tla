---------------------------- MODULE SessionRuns ----------------------------
(***************************************************************************)
(* The runs of one chat (crates/engine/src/sessions.rs and run_journal.rs):*)
(* how a message reaches an agent.  A message is dispatched or steered by  *)
(* the command executor; a live run takes it into its mailbox, otherwise a *)
(* run is started for it.  A run parks between turns and ends when its     *)
(* agent dies, on an interrupt, or when it was idle for too long; accepted *)
(* messages its agent never began are dispatched again.  After a restart   *)
(* of the engine the crashed turn is picked up from the journal.           *)
(*                                                                         *)
(* A step is what happens between two lock acquisitions or awaits: callers *)
(* (the executor and the tasks the engine spawns), the run tasks, the      *)
(* agents and crashes interleave.  Every agent the engine ships takes      *)
(* steering (acp/mod.rs), so a run without a mailbox is left out.          *)
(*                                                                         *)
(* The agent is external: it takes messages in order, reports a boundary   *)
(* for each, may die at any time and may forget to report the end of a     *)
(* turn.  Timers (the grace period of an interrupt, the idle reaper, the   *)
(* quiesce window) may expire whenever they are armed.                     *)
(*                                                                         *)
(* Left out: the fold's parts, titles, sidebars, resume ids and their cwd, *)
(* and failures to resolve a harness (reported to the caller).             *)
(***************************************************************************)
EXTENDS Integers, Sequences, FiniteSets, SequencesExt

CONSTANTS
    Msgs,       \* user messages
    MaxRuns,    \* bound: runs that are ever started
    MaxResume,  \* MAX_AUTO_RESUME
    Budgets     \* bounds: what may happen in a behaviour, one record per scenario

\* Messages, interrupts, engine crashes, agents that fail to start, agents that die,
\* quiesce windows that expire, questions, turns an agent starts by itself.
Budget == [msgs : Nat, stops : Nat, crashes : Nat, noStarts : Nat, deaths : Nat, quiets : Nat,
           asks : Nat, wakes : Nat]

ASSUME RunsAssumption ==
    /\ MaxRuns \in Nat \ {0} /\ MaxResume \in Nat
    /\ Msgs \cap (0..MaxRuns) = {}
    /\ Msgs \cap {"started", "text", "done", "fail"} = {}
    /\ Budgets \subseteq Budget

RunIds  == 1..MaxRuns
Callers == Msgs \cup (0..MaxRuns)   \* the executor's calls; boot recovery; what run r spawned

VARIABLES
    live,     \* Inner.runs: the chat's live run, 0 if none
    run,      \* the run tasks
    call,     \* the callers of dispatch and steer
    started,  \* how many runs were ever started
    status,   \* the chat's session status
    known,    \* a harness session is remembered, so a dispatch injects a resume id
    journal,  \* the last event of the run journal: "empty", "open" or "closed" (Done)
    attempts, \* the resume ledger beside the journal
    posted,   \* user messages in the transcript
    writing,  \* runs with a streaming entry in the transcript
    boot,     \* the engine: "down", "scan", "resume" or "up"
    taken,    \* history: messages an agent began
    excused,  \* history: messages that were stopped or failed in sight of the user
    dropped,  \* history: messages whose run died in start-up
    lost,     \* history: output of a turn was discarded
    raced,    \* history: the windows between two steps that another step went through
              \*   "claim":  a caller looked for its run between the exit's claim of the
              \*             ledger and the removal of the run
              \*   "insert": a caller found no run to send to while another one was
              \*             about to insert one
              \*   "order":  a steer was sent while another one was not in the ledger yet
              \*   "slow":   the wait of an interrupt was over and the run was not
              \*   "boot":   a command ran between recovery's look for a live run and its work
    left      \* what remains of the bounds

chat    == <<live, run, call, started>>
record  == <<status, known, journal, attempts, posted, writing>>
history == <<taken, excused, dropped, lost>>
vars    == <<chat, record, boot, history, raced, left>>

-----------------------------------------------------------------------------
(* Data. *)

Phases == {"unborn", "starting", "turn", "parked", "leaving", "ended"}
Events == {"started", "text", "done", "fail"} \cup Msgs   \* a message: its Steered boundary

NewRun(m, again, resume) ==
    [phase |-> "starting", first |-> m, agent |-> "down",
     box |-> <<>>, ledger |-> <<>>,         \* mailbox and agent's queue; routed_steers
     stream |-> <<>>, bus |-> <<>>,         \* events of the agent; of the input bridge
     pending |-> FALSE,                     \* pending_inputs holds a resolver
     cancel |-> FALSE, interrupted |-> FALSE,
     retry |-> again, resumed |-> resume,   \* startup_retry, resume_injected
     saw |-> FALSE, text |-> FALSE, asked |-> FALSE, \* session seen; fold; unresolved question
     gate |-> FALSE,                        \* inside RESUME_GATE
     claim |-> <<>>, final |-> "idle"]      \* of an exit: orphans, final status

Unborn == [NewRun(CHOOSE m \in Msgs : TRUE, FALSE, FALSE) EXCEPT !.phase = "unborn"]
NoCall == [pc |-> "idle", kind |-> "run", run |-> 0, msgs |-> <<>>, retry |-> FALSE]

InLoop(r) == run[r].phase \in {"turn", "parked"}
MailboxOpen(r) == run[r].phase = "starting" \/ run[r].agent # "down"

\* Interrupting or ending a turn answers a parked question with nothing.
Cancelled(d) == [d EXCEPT !.pending = FALSE, !.cancel = TRUE]

\* The step goes through window w if cond.
Through(w, cond) == raced' = IF cond THEN raced \cup {w} ELSE raced

Dispatch(msgs, again) == [NoCall EXCEPT !.pc = "look", !.msgs = msgs, !.retry = again]

-----------------------------------------------------------------------------
(* Callers: dispatch and steer. *)

\* The executor runs the command of message m; it runs one command at a time.
Issue(m) ==
    /\ boot # "down" /\ call[m].pc = "idle" /\ left.msgs > 0
    /\ \A q \in Msgs : call[q].pc \in {"idle", "done"}
    /\ \E kind \in {"run", "steer"} :
          call' = [call EXCEPT ![m] = [Dispatch(<<m>>, FALSE) EXCEPT !.kind = kind]]
    /\ left' = [left EXCEPT !.msgs = @ - 1]
    /\ Through("boot", boot = "scan")
    /\ UNCHANGED <<live, run, started, record, boot, history>>

\* The call succeeded: an orphan drain goes on to the next message.
Returned(p) == IF Len(call[p].msgs) > 1
               THEN Dispatch(Tail(call[p].msgs), FALSE)
               ELSE [call[p] EXCEPT !.pc = "done", !.msgs = <<>>]

Post(m) == posted' = IF m \in ToSet(posted) THEN posted ELSE Append(posted, m)

\* No other caller is about to replace or insert a run.
Alone(p) == \A q \in Callers \ {p} : call[q].pc \notin {"stop", "wait", "fresh"}

\* Look up the live run and send to its mailbox.
Send(p) ==
    /\ call[p].pc = "look" /\ live # 0 /\ MailboxOpen(live)
    /\ run' = [run EXCEPT ![live].box = Append(@, Head(call[p].msgs))]
    /\ call' = [call EXCEPT ![p].pc = "sent", ![p].run = live]
    /\ Through("order", \E q \in Callers : call[q].pc = "sent")
    /\ UNCHANGED <<live, started, record, boot, history, left>>

\* No run, or its mailbox is closed.  A steer is reported NotSteerable, and the
\* executor dispatches it; a dispatch replaces the run.
Refused(p) ==
    /\ call[p].pc = "look" /\ (live # 0 => ~MailboxOpen(live))
    /\ \/ /\ call[p].kind = "steer"
          /\ call' = [call EXCEPT ![p].kind = "run"]
          /\ UNCHANGED raced
       \/ /\ call[p].kind = "run"
          /\ call' = [call EXCEPT ![p].pc = IF live = 0 THEN "fresh" ELSE "stop"]
          /\ Through("insert", ~Alone(p))
    /\ UNCHANGED <<live, run, started, record, boot, history, left>>

\* Sent: enter the message in the ledger and in the transcript.
Log(p) ==
    LET m == Head(call[p].msgs) IN
    /\ call[p].pc = "sent"
    /\ run' = [run EXCEPT ![call[p].run].ledger = Append(@, m)]
    /\ call' = [call EXCEPT ![p].pc = "logged"]
    /\ Post(m)
    /\ UNCHANGED <<live, started, status, known, journal, attempts, writing, boot, history, raced, left>>

\* retain: the ledger without the entries of m, in order.
Without(ledger, m) ==
    LET kept == {i \in DOMAIN ledger : ledger[i] # m}
        n    == Cardinality(kept)
    IN  {[j \in 1..n |-> ledger[at[j]]] :
            at \in {f \in [1..n -> kept] : \A i, j \in 1..n : i < j => f[i] < f[j]}}

\* Mutant: a message taken back is reported as accepted.
CheckDrops(p) ==
    /\ call[p].pc = "logged"
    /\ IF live = call[p].run
       THEN status' = "working" /\ UNCHANGED run
       ELSE /\ run' = [run EXCEPT ![call[p].run].ledger =
                          SelectSeq(@, LAMBDA x : x # Head(call[p].msgs))]
            /\ UNCHANGED status
    /\ call' = [call EXCEPT ![p] = Returned(p)]
    /\ UNCHANGED <<live, started, known, journal, attempts, posted, writing, boot, history, raced, left>>

\* Is the run still there?  If it is gone and its exit did not claim the
\* message, take it back: a dispatch replaces the run, a steer is NotSteerable.
Check(p) ==
    LET r == call[p].run
        m == Head(call[p].msgs)
    IN  /\ call[p].pc = "logged"
        /\ \/ /\ live = r
              /\ status' = "working"
              /\ call' = [call EXCEPT ![p] = Returned(p)]
              /\ Through("claim", run[r].phase = "leaving")
              /\ UNCHANGED run
           \/ /\ live # r /\ m \in ToSet(run[r].ledger)
              /\ \E l \in Without(run[r].ledger, m) : run' = [run EXCEPT ![r].ledger = l]
              /\ call' = [call EXCEPT ![p].pc = IF call[p].kind = "steer" THEN "look" ELSE "stop",
                                      ![p].kind = "run"]
              /\ Through("insert", call[p].kind # "steer" /\ ~Alone(p))
              /\ UNCHANGED status
           \/ /\ live # r /\ m \notin ToSet(run[r].ledger)
              /\ call' = [call EXCEPT ![p] = Returned(p)]
              /\ UNCHANGED <<run, status, raced>>
        /\ UNCHANGED <<live, started, known, journal, attempts, posted, writing, boot, history, left>>

\* Mutant: the run is cancelled and not waited for.
StopUnsettled(p) ==
    /\ call[p].pc = "stop"
    /\ call' = [call EXCEPT ![p].pc = "fresh"]
    /\ run' = IF live = 0 THEN run ELSE [run EXCEPT ![live] = Cancelled(@)]
    /\ UNCHANGED <<live, started, record, boot, history, raced, left>>

\* interrupt, from a dispatch: cancel the live run and wait until it settles, but no
\* longer than 5 s, whatever it is doing (its own grace of 3 s starts with its stream).
Stop(p) ==
    /\ call[p].pc = "stop"
    /\ IF live = 0
       THEN /\ call' = [call EXCEPT ![p].pc = "fresh"]
            /\ UNCHANGED run
       ELSE /\ run' = [run EXCEPT ![live] = Cancelled(@)]
            /\ call' = [call EXCEPT ![p].pc = "wait", ![p].run = live]
    /\ UNCHANGED <<live, started, record, boot, history, raced, left>>

Settle(p) ==
    /\ call[p].pc = "wait"
    /\ call' = [call EXCEPT ![p].pc = "fresh"]
    /\ Through("slow", live = call[p].run)
    /\ UNCHANGED <<live, run, started, record, boot, history, left>>

\* A fresh run: it replaces whatever the map holds.
Launch(p) ==
    LET m == Head(call[p].msgs) IN
    /\ call[p].pc = "fresh" /\ started < MaxRuns
    /\ started' = started + 1 /\ live' = started + 1
    /\ run' = [run EXCEPT ![started + 1] = NewRun(m, call[p].retry, known)]
    /\ call' = [call EXCEPT ![p] = Returned(p)]
    /\ Post(m)
    /\ status' = "working"
    /\ UNCHANGED <<known, journal, attempts, writing, boot, history, raced, left>>

\* The user interrupts the chat, or answers a question.
Interrupt ==
    /\ left.stops > 0 /\ live # 0
    /\ run' = [run EXCEPT ![live] = Cancelled(@)]
    /\ left' = [left EXCEPT !.stops = @ - 1]
    /\ UNCHANGED <<live, call, started, record, boot, history, raced>>

\* Mutant: the answer is not announced.
RespondSilently ==
    /\ live # 0 /\ run[live].pending
    /\ run' = [run EXCEPT ![live].pending = FALSE]
    /\ UNCHANGED <<live, call, started, record, boot, history, raced, left>>

RespondInput ==
    /\ live # 0 /\ run[live].pending
    /\ run' = [run EXCEPT ![live].pending = FALSE, ![live].bus = Append(@, "answered")]
    /\ UNCHANGED <<live, call, started, record, boot, history, raced, left>>

-----------------------------------------------------------------------------
(* The agent (external). *)

Emit(r, e) == Append(run[r].stream, e)

\* harness.run returned a stream; the session starts and the first prompt runs.
Spawn(r) ==
    /\ run[r].phase = "starting"
    /\ run' = [run EXCEPT ![r].phase = "turn", ![r].agent = "up"]
    /\ UNCHANGED <<live, call, started, record, boot, history, raced, left>>

Begin(r) ==
    /\ run[r].agent = "up" /\ ~run[r].cancel
    /\ run' = [run EXCEPT ![r].agent = "busy", ![r].stream = Emit(r, "started")]
    /\ taken' = taken \cup {run[r].first}
    /\ UNCHANGED <<live, call, started, record, boot, excused, dropped, lost, raced, left>>

Speak(r) ==
    /\ run[r].agent = "busy" /\ ~run[r].pending /\ run[r].stream = <<>> /\ ~run[r].text
    /\ run' = [run EXCEPT ![r].stream = Emit(r, "text")]
    /\ UNCHANGED <<live, call, started, record, boot, history, raced, left>>

\* A question of the agent: request_input parks the resolver and sends the event.
Ask(r) ==
    /\ run[r].agent \in {"busy", "idle"} /\ ~run[r].pending /\ left.asks > 0
    /\ run' = [run EXCEPT ![r].pending = TRUE, ![r].bus = Append(@, "asked")]
    /\ left' = [left EXCEPT !.asks = @ - 1]
    /\ UNCHANGED <<live, call, started, record, boot, history, raced>>

\* The next message of the mailbox, at a boundary or between turns.
Turn(r) ==
    /\ run[r].agent \in {"busy", "idle"} /\ ~run[r].cancel /\ run[r].box # <<>>
    /\ run' = [run EXCEPT ![r].agent = "busy", ![r].box = Tail(@),
                          ![r].stream = Emit(r, Head(run[r].box))]
    /\ taken' = taken \cup {Head(run[r].box)}
    /\ UNCHANGED <<live, call, started, record, boot, excused, dropped, lost, raced, left>>

\* The turn ends.  A self-continued turn has no end to report (see Wake).
EndTurn(r) ==
    /\ run[r].agent = "busy" /\ ~run[r].pending
    /\ run' = [run EXCEPT ![r].agent = "idle", ![r].stream = Emit(r, "done")]
    /\ UNCHANGED <<live, call, started, record, boot, history, raced, left>>

\* The agent dies: with an error, or its stream just ends.  Queued messages are discarded.
Die(r) ==
    /\ run[r].agent # "down" /\ (run[r].cancel \/ left.deaths > 0)
    /\ \E e \in {<<>>, <<"fail">>} :
          run' = [run EXCEPT ![r].agent = "down", ![r].stream = @ \o e, ![r].box = <<>>]
    /\ left' = IF run[r].cancel THEN left ELSE [left EXCEPT !.deaths = @ - 1]
    /\ UNCHANGED <<live, call, started, record, boot, history, raced>>

\* A background task wakes the agent; no end of this turn is ever reported.  That is
\* a round trip after the turn before it, so past the resume gate.
Wake(r) ==
    /\ run[r].agent = "idle" /\ run[r].phase = "parked" /\ left.wakes > 0
    /\ run' = [run EXCEPT ![r].stream = Emit(r, "text"), ![r].gate = FALSE]
    /\ left' = [left EXCEPT !.wakes = @ - 1]
    /\ UNCHANGED <<live, call, started, record, boot, history, raced>>

\* The adapter loses the end of a turn.
Forget(r) ==
    /\ run[r].agent = "busy" /\ ~run[r].pending /\ left.quiets > 0
    /\ run' = [run EXCEPT ![r].agent = "idle"]
    /\ left' = [left EXCEPT !.quiets = @ - 1]
    /\ UNCHANGED <<live, call, started, record, boot, history, raced>>

-----------------------------------------------------------------------------
(* The run task (drive_run). *)

Owns(r) == live = r   \* runs.get(chat).filter(run_id)

\* Mutant: the status is left as it was.
GoneUnsettled(r, d, st, next, again) ==
    /\ run' = [run EXCEPT ![r] = [d EXCEPT !.phase = "ended", !.agent = "down", !.box = <<>>,
                                           !.stream = <<>>, !.bus = <<>>, !.pending = FALSE]]
    /\ live' = IF Owns(r) THEN 0 ELSE live
    /\ call' = IF next = <<>> THEN call ELSE [call EXCEPT ![r] = Dispatch(next, again)]
    /\ UNCHANGED status

\* remove_run, the final status, and the task that dispatches what is handed on.
Gone(r, d, st, next, again) ==
    /\ run' = [run EXCEPT ![r] = [d EXCEPT !.phase = "ended", !.agent = "down", !.box = <<>>,
                                           !.stream = <<>>, !.bus = <<>>, !.pending = FALSE]]
    /\ live' = IF Owns(r) THEN 0 ELSE live
    /\ status' = st
    /\ call' = IF next = <<>> THEN call ELSE [call EXCEPT ![r] = Dispatch(next, again)]

\* harness.run fails: the ledger is not looked at.
NoStart(r) ==
    /\ run[r].phase = "starting" /\ left.noStarts > 0
    /\ journal' = "closed"
    /\ Gone(r, run[r], "errored", <<>>, FALSE)
    /\ excused' = excused \cup {run[r].first}
    /\ dropped' = dropped \cup ToSet(run[r].ledger)
    /\ left' = [left EXCEPT !.noStarts = @ - 1]
    /\ UNCHANGED <<started, known, attempts, posted, writing, boot, taken, lost, raced>>

\* Mutant: the streaming entry is left open.
FinishedNot(r) == writing

\* finish_segment.
Finished(r) == writing \ {r}

\* Mutant: the ledger is not looked at.
OrphansForgotten(r, d) == <<>>

\* The exit claims the ledger of a run that is still in the map; an interrupted
\* run hands nothing on.
Orphans(r, d) == IF Owns(r) THEN d.ledger ELSE <<>>

Claim(r, d, st) ==
    LET orphans == Orphans(r, d)
        next    == IF d.interrupted THEN <<>> ELSE orphans
        out     == [d EXCEPT !.ledger = IF Owns(r) THEN <<>> ELSE @]
    IN  /\ excused' = excused \cup ({d.first} \ taken)
                       \cup (IF d.interrupted THEN ToSet(orphans) ELSE {})
        /\ run' = [run EXCEPT ![r] = [out EXCEPT !.phase = "leaving", !.claim = next, !.final = st]]
        /\ UNCHANGED <<live, status, call>>

Leave(r) ==
    /\ run[r].phase = "leaving"
    /\ Gone(r, [run[r] EXCEPT !.claim = <<>>], run[r].final, run[r].claim, FALSE)
    /\ UNCHANGED <<started, known, journal, attempts, posted, writing, boot, history, raced, left>>

\* Mutant: the grace deadline is not armed.
SeeCancelUnarmed(r) == FALSE

\* The engine-side cancel arms the grace deadline.
SeeCancel(r) ==
    /\ InLoop(r) /\ run[r].cancel /\ ~run[r].interrupted
    /\ run' = [run EXCEPT ![r].interrupted = TRUE]
    /\ UNCHANGED <<live, call, started, record, boot, history, raced, left>>

\* Between turns: the fold is cleared, and what comes within a second is a tail.
Park(d) == [d EXCEPT !.phase = "parked", !.text = FALSE, !.asked = FALSE, !.saw = TRUE, !.gate = TRUE]

\* The questions of a turn that is over are answered with nothing.
Unasked(r, d) == [d EXCEPT !.pending = IF Owns(r) THEN FALSE ELSE @]

Complete(r, d) ==
    /\ run' = [run EXCEPT ![r] = Park(d)]
    /\ status' = "idle"
    /\ attempts' = 0
    /\ UNCHANGED <<live, call, excused>>

\* A Done, of any origin.  A run that dies before its session starts, with a resume
\* id and nothing streamed, is dispatched once more; the ledger is not looked at.
Done(r, d, kind) ==
    IF d.resumed /\ ~d.retry /\ ~d.saw /\ ~d.text /\ ~d.interrupted /\ kind = "fail"
    THEN /\ Gone(r, d, status, <<d.first>>, TRUE)
         /\ dropped' = dropped \cup ToSet(d.ledger)
         /\ UNCHANGED <<journal, attempts, writing, excused>>
    ELSE /\ journal' = "closed"
         /\ writing' = Finished(r)
         /\ IF kind = "done" /\ ~d.interrupted
            THEN Complete(r, Unasked(r, d))
            ELSE /\ Claim(r, Unasked(r, d), IF kind = "fail" THEN "errored" ELSE "idle")
                 /\ attempts' = IF kind = "done" THEN 0 ELSE attempts
         /\ UNCHANGED dropped

DoneFrame == <<started, known, posted, boot, taken, lost, raced, left>>

Deadline(r) ==
    /\ InLoop(r) /\ run[r].interrupted
    /\ Done(r, run[r], "interrupted")
    /\ UNCHANGED DoneFrame

\* The idle reaper.
Reap(r) ==
    /\ run[r].phase = "parked"
    /\ Claim(r, [run[r] EXCEPT !.cancel = TRUE], "idle")
    /\ UNCHANGED <<DoneFrame, journal, attempts, writing, dropped>>

\* The input bridge: only a question of the live run with its resolver still there counts;
\* between turns a question is declined and an answer ignored.
Bridge(r) ==
    LET d == [run[r] EXCEPT !.bus = Tail(@)]
        parked   == run[r].phase = "parked"
        asked    == Head(run[r].bus) = "asked" /\ Owns(r) /\ run[r].pending
        answered == Head(run[r].bus) = "answered" /\ ~parked
    IN  /\ InLoop(r) /\ ~(run[r].cancel /\ ~run[r].interrupted) /\ run[r].bus # <<>>
        /\ \/ /\ asked /\ ~parked
              /\ run' = [run EXCEPT ![r] = [d EXCEPT !.text = TRUE, !.asked = TRUE]]
              /\ status' = "awaiting" /\ journal' = "open"
           \/ /\ asked /\ parked
              /\ run' = [run EXCEPT ![r] = [d EXCEPT !.pending = FALSE]]
              /\ UNCHANGED <<status, journal>>
           \/ /\ answered
              /\ run' = [run EXCEPT ![r] = [d EXCEPT !.asked = FALSE]]
              /\ status' = "working" /\ journal' = "open"
           \/ /\ ~asked /\ ~answered
              /\ run' = [run EXCEPT ![r] = d]
              /\ UNCHANGED <<status, journal>>
        /\ UNCHANGED <<live, call, started, known, attempts, posted, writing, boot, history, raced, left>>

\* The head of the agent's stream.  The engine's own events come first.
Next1(r) == InLoop(r) /\ ~(run[r].cancel /\ ~run[r].interrupted) /\ run[r].bus = <<>>
Popped(r) == [run[r] EXCEPT !.stream = Tail(@)]
Reads(r, e) == Next1(r) /\ run[r].stream # <<>> /\ Head(run[r].stream) = e

\* SessionStarted: the resume id is remembered.
ReadStarted(r) ==
    /\ Reads(r, "started")
    /\ IF run[r].phase = "parked"
       THEN /\ run' = [run EXCEPT ![r] = Popped(r)]
            /\ UNCHANGED <<known, journal>>
       ELSE /\ run' = [run EXCEPT ![r] = [Popped(r) EXCEPT !.saw = TRUE]]
            /\ known' = TRUE /\ journal' = "open"
    /\ UNCHANGED <<live, call, started, status, attempts, posted, writing, boot, history, raced, left>>

\* Output.  Between turns it resumes the run, or is taken for a tail and dropped.
ReadText(r) ==
    /\ Reads(r, "text")
    /\ IF run[r].phase = "parked" /\ run[r].gate
       THEN /\ run' = [run EXCEPT ![r] = Popped(r)]
            /\ lost' = TRUE
            /\ UNCHANGED <<status, journal>>
       ELSE /\ run' = [run EXCEPT ![r] = [Popped(r) EXCEPT !.phase = "turn", !.text = TRUE]]
            /\ status' = IF run[r].phase = "parked" THEN "working" ELSE status
            /\ journal' = "open"
            /\ UNCHANGED lost
    /\ UNCHANGED <<live, call, started, known, attempts, posted, writing, boot,
                   taken, excused, dropped, raced, left>>

\* Steered: a new segment; the oldest message of the ledger is confirmed.
ReadSteered(r) ==
    /\ \E m \in Msgs : Reads(r, m)
    /\ run' = [run EXCEPT ![r] =
                [Popped(r) EXCEPT !.phase = "turn", !.text = FALSE, !.asked = FALSE,
                                  !.ledger = IF Owns(r) /\ @ # <<>> THEN Tail(@) ELSE @]]
    /\ writing' = Finished(r)
    /\ status' = "working" /\ journal' = "open"
    /\ UNCHANGED <<live, call, started, known, attempts, posted, boot, history, raced, left>>

ReadDone(r) ==
    /\ Next1(r) /\ run[r].stream # <<>> /\ Head(run[r].stream) \in {"done", "fail"}
    /\ Done(r, Popped(r), Head(run[r].stream))
    /\ UNCHANGED DoneFrame

\* The stream ends: quietly between turns, otherwise a Done is made up.
ReadEnd(r) ==
    /\ Next1(r) /\ run[r].stream = <<>> /\ run[r].agent = "down"
    /\ IF run[r].phase = "parked" /\ ~run[r].interrupted
       THEN /\ Claim(r, run[r], "idle")
            /\ UNCHANGED <<journal, attempts, writing, dropped>>
       ELSE Done(r, run[r], IF run[r].interrupted THEN "interrupted" ELSE "fail")
    /\ UNCHANGED DoneFrame

\* The commit of a segment's first parts to the transcript.
Flush(r) ==
    /\ run[r].phase = "turn" /\ run[r].text /\ r \notin writing
    /\ writing' = writing \cup {r}
    /\ UNCHANGED <<chat, status, known, journal, attempts, posted, boot, history, raced, left>>

\* Mutant: the watchdog waits for output.
QuiesceAfterOutput(r) ==
    /\ run[r].phase = "turn" /\ run[r].text /\ Next1(r) /\ ~run[r].interrupted
    /\ run[r].stream = <<>> /\ run[r].agent # "down" /\ ~run[r].asked
    /\ run[r].agent = "idle" \/ left.quiets > 0
    /\ run' = [run EXCEPT ![r] = [Park(@) EXCEPT !.saw = run[r].saw]]
    /\ writing' = Finished(r)
    /\ status' = "idle"
    /\ left' = IF run[r].agent = "idle" THEN left ELSE [left EXCEPT !.quiets = @ - 1]
    /\ UNCHANGED <<live, call, started, known, journal, attempts, posted, boot, history, raced>>

\* The quiesce watchdog: silence after output with nothing in flight parks the run.
Quiesce(r) ==
    /\ run[r].phase = "turn" /\ Next1(r) /\ ~run[r].interrupted
    /\ run[r].stream = <<>> /\ run[r].agent # "down" /\ ~run[r].asked
    /\ run[r].agent = "idle" \/ left.quiets > 0
    /\ run' = [run EXCEPT ![r] = [Park(@) EXCEPT !.saw = run[r].saw]]
    /\ writing' = Finished(r)
    /\ status' = "idle"
    /\ left' = IF run[r].agent = "idle" THEN left ELSE [left EXCEPT !.quiets = @ - 1]
    /\ UNCHANGED <<live, call, started, known, journal, attempts, posted, boot, history, raced>>

\* A second after parking.
GateOpens(r) ==
    /\ run[r].phase = "parked" /\ run[r].gate
    /\ run' = [run EXCEPT ![r].gate = FALSE]
    /\ UNCHANGED <<live, call, started, record, boot, history, raced, left>>

-----------------------------------------------------------------------------
(* Crash and boot recovery. *)

Crash ==
    /\ boot # "down" /\ left.crashes > 0
    /\ boot' = "down" /\ live' = 0 /\ status' = "none"
    /\ run' = [r \in RunIds |-> [Unborn EXCEPT !.phase = IF r <= started THEN "ended" ELSE @]]
    /\ call' = [p \in Callers |-> [NoCall EXCEPT !.pc = IF p \in Msgs /\ call[p].pc # "idle"
                                                        THEN "done" ELSE "idle"]]
    /\ excused' = excused \cup {m \in Msgs : call[m].pc # "idle"}
    /\ left' = [left EXCEPT !.crashes = @ - 1]
    /\ UNCHANGED <<started, known, journal, attempts, posted, writing, taken, dropped, lost, raced>>

Boot ==
    /\ boot = "down"
    /\ boot' = IF journal = "open" THEN "scan" ELSE "up"
    /\ UNCHANGED <<chat, record, history, raced, left>>

\* recover_stale: close the journal and the streaming entries.  A turn that had begun
\* to stream, less than 12 h ago, is revived while the budget lasts.
Recover ==
    /\ boot = "scan"
    /\ \E fresh \in BOOLEAN :
          /\ fresh => writing # {}
          /\ LET will == fresh /\ posted # <<>> /\ attempts < MaxResume IN
             /\ boot' = IF will THEN "resume" ELSE "up"
             /\ call' = IF will THEN [call EXCEPT ![0].msgs = <<Last(posted)>>] ELSE call
    /\ journal' = "closed" /\ writing' = {} /\ status' = "idle"
    /\ UNCHANGED <<live, run, started, known, attempts, posted, history, raced, left>>

\* The attempt is noted, then the last message is dispatched under its id.
Revive ==
    /\ boot = "resume" /\ boot' = "up"
    /\ attempts' = attempts + 1
    /\ call' = [call EXCEPT ![0] = Dispatch(@.msgs, FALSE)]
    /\ UNCHANGED <<live, run, started, status, known, journal, posted, writing,
                   taken, excused, dropped, lost, raced, left>>

-----------------------------------------------------------------------------
Init ==
    /\ live = 0 /\ started = 0
    /\ run = [r \in RunIds |-> Unborn]
    /\ call = [p \in Callers |-> NoCall]
    /\ status = "none" /\ known \in BOOLEAN /\ journal = "empty" /\ attempts = 0
    /\ posted = <<>> /\ writing = {} /\ boot = "up"
    /\ taken = {} /\ excused = {} /\ dropped = {} /\ lost = FALSE /\ raced = {}
    /\ left \in Budgets

CallStep(p) == Send(p) \/ Refused(p) \/ Log(p) \/ Check(p) \/ Stop(p) \/ Settle(p) \/ Launch(p)

AgentStep(r) == Begin(r) \/ Turn(r) \/ EndTurn(r)

AgentFault(r) == Speak(r) \/ Ask(r) \/ Die(r) \/ Wake(r) \/ Forget(r)

RunTask(r) ==
    \/ Spawn(r) \/ NoStart(r) \/ SeeCancel(r) \/ Deadline(r) \/ Bridge(r)
    \/ ReadStarted(r) \/ ReadText(r) \/ ReadSteered(r) \/ ReadDone(r) \/ ReadEnd(r)
    \/ Flush(r) \/ Quiesce(r) \/ GateOpens(r) \/ Reap(r) \/ Leave(r)

Next ==
    \/ \E m \in Msgs : Issue(m)
    \/ \E p \in Callers : CallStep(p)
    \/ \E r \in RunIds : AgentStep(r) \/ AgentFault(r) \/ RunTask(r)
    \/ Interrupt \/ RespondInput
    \/ Crash \/ Boot \/ Recover \/ Revive

Spec == Init /\ [][Next]_vars

\* Threads are scheduled, timers expire, harness.run returns, and an agent with a
\* prompt takes it and ends its turn (or loses the end of it).  Messages, questions,
\* answers, interrupts, deaths and crashes need not happen.  Fairness to the callers,
\* the run tasks and the agents as three groups suffices.
Fairness ==
    /\ WF_vars(\E p \in Callers : CallStep(p))
    /\ WF_vars(\E r \in RunIds : RunTask(r))
    /\ WF_vars(\E r \in RunIds : AgentStep(r))
    /\ WF_vars(Boot \/ Recover \/ Revive)

FairSpec == Spec /\ Fairness

-----------------------------------------------------------------------------
(* Properties.  Where a property does not survive a race of the code, it is stated of *)
(* the behaviours in which no step went through the windows that break it.            *)

Unraced(windows) == raced \cap windows = {}

\* Every variable stays in its set; the map holds no run that has ended.
TypeOK ==
    /\ live \in 0..MaxRuns /\ started \in 0..MaxRuns
    /\ live # 0 => run[live].phase \notin {"unborn", "ended"}
    /\ \A r \in RunIds :
          /\ run[r].phase \in Phases /\ run[r].first \in Msgs
          /\ run[r].agent \in {"down", "up", "busy", "idle"}
          /\ run[r].stream \in Seq(Events) /\ run[r].bus \in Seq({"asked", "answered"})
          /\ run[r].box \in Seq(Msgs) /\ run[r].ledger \in Seq(Msgs) /\ run[r].claim \in Seq(Msgs)
    /\ \A p \in Callers :
          /\ call[p].pc \in {"idle", "look", "sent", "logged", "stop", "wait", "fresh", "done"}
          /\ call[p].msgs \in Seq(Msgs) /\ call[p].run \in 0..MaxRuns
    /\ status \in {"none", "idle", "working", "awaiting", "errored"}
    /\ journal \in {"empty", "open", "closed"} /\ known \in BOOLEAN /\ attempts \in Nat
    /\ posted \in Seq(Msgs) /\ writing \subseteq RunIds
    /\ boot \in {"down", "scan", "resume", "up"}
    /\ taken \cup excused \cup dropped \subseteq Msgs /\ lost \in BOOLEAN
    /\ raced \subseteq {"claim", "insert", "order", "slow", "boot"}

\* Someone will still bring message m to an agent.
Carried(m) ==
    \/ \E p \in Callers : m \in ToSet(call[p].msgs)
    \/ \E r \in RunIds :
          \/ run[r].phase \in {"starting", "turn", "parked"}
             /\ (m = run[r].first \/ (Owns(r) /\ m \in ToSet(run[r].ledger)))
          \/ run[r].phase = "leaving" /\ m \in ToSet(run[r].claim)

\* A message whose command succeeded was begun by an agent, or is carried to one, or
\* was stopped, failed in sight of the user, or was lost with a run in start-up.
SteerDelivered ==
    \A m \in Msgs : call[m].pc = "done" => m \in taken \cup excused \cup dropped \/ Carried(m)

\* The same without the exception: "an accepted message can never silently evaporate
\* from a transcript that shows it as sent" (RunHandle.routed_steers).
NeverEvaporates ==
    \A m \in Msgs : call[m].pc = "done" => m \in taken \cup excused \/ Carried(m)

\* Whatever agents, interrupts, the reaper and crashes do, SteerDelivered fails only after
\* a step went through one of four windows.
SteerKept == Unraced({"claim", "insert", "order", "slow"}) => SteerDelivered

\* An agent of the run is at work for the chat, or is being started.
Drives(r) == run[r].phase = "starting" \/ (InLoop(r) /\ run[r].agent # "down")

\* dispatch: "any live run is interrupted first - never two runtimes driving one chat".
OneRuntime == \A r, q \in RunIds : Drives(r) /\ Drives(q) => r = q

\* A run is the one in the map until it has ended, so that a message, an interrupt or an
\* answer finds it.  It takes a caller that overtakes another one, or a run that outlives
\* the wait of an interrupt, to have one beside it.
InMap == \A r \in RunIds : run[r].phase \in {"starting", "turn", "parked", "leaving"} => live = r

RunsInMap == Unraced({"insert", "slow"}) => InMap

\* A session shows Working or AwaitingInput only while a run or a task of the engine is
\* behind it; otherwise it would spin for ever.
StatusBacked ==
    Unraced({"insert", "slow"}) /\ status \in {"working", "awaiting"} =>
        live # 0 \/ \E p \in Callers : call[p].pc \notin {"idle", "done"}

\* AwaitingInput: the answer reaches the agent, or the turn is being cancelled, or the
\* run is past its end and about to set its final status.
AwaitingAnswerable ==
    Unraced({"insert", "slow"}) /\ status = "awaiting" =>
        /\ live # 0
        /\ \/ run[live].pending \/ run[live].cancel \/ run[live].bus # <<>>
           \/ run[live].phase = "leaving"

\* A streaming entry of the transcript has a run in its turn that will settle it, or a
\* journal by which boot recovery will find it.
StreamsSettle ==
    Unraced({"insert", "slow", "boot"}) =>
        \A r \in writing :
            run[r].phase = "turn" \/ boot = "scan" \/ (boot = "down" /\ journal = "open")

\* "nothing is lost" when the quiesce watchdog trips by mistake (drive_run).
NothingLost == ~lost

\* Every message of the transcript reaches an agent, or is excused as above; a message
\* that SteerKept lets go may never do.
Answered ==
    []<>(\/ ~Unraced({"claim", "insert", "order", "slow"})
         \/ \A m \in ToSet(posted) : m \in taken \cup excused \cup dropped)

\* Interrupted runs end.
InterruptSettles == []<>(\A r \in RunIds : run[r].cancel => run[r].phase = "ended")

\* In the end the session is idle, or waits for an answer of the user.
ComesToRest == <>[](status \notin {"working", "awaiting"} \/ (live # 0 /\ run[live].pending))
=============================================================================
