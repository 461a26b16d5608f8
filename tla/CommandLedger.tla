--------------------------- MODULE CommandLedger ---------------------------
(***************************************************************************)
(* The command plane of one chat on its host: entries any device queued in *)
(* the chat document (crates/doc/src/commands.rs), drained by the doc host *)
(* (crates/engine/src/doc_host.rs, drain_commands) against the durable     *)
(* processed_commands table (crates/sync/src/store.rs).                    *)
(*                                                                         *)
(* Two tasks drain the same chat: its chat_task, woken by every document   *)
(* change, and the kick that set_sessions spawns for documents opened      *)
(* before the executor was wired.  A drain is a sequence of steps (find,   *)
(* evaluate, mark, execute, resolve); tasks and crashes interleave between *)
(* any two.  The document is saved behind a debounce, the table is not.    *)
(* The drains may overlap and a lookup in the table may fail; contended    *)
(* records the commands that either of the two let through once too often. *)
(*                                                                         *)
(* What a command does to the sessions engine is the one fact that it ran. *)
(* The device is the host of the chat throughout; the composer's cancel is *)
(* left out because nothing calls it (can_composer_cancel has no caller).  *)
(***************************************************************************)
EXTENDS Naturals, Sequences, SequencesExt

CONSTANTS
    Cmds,        \* command ids
    Kind,        \* Kind[c]: "run", "steer", "interrupt" or "respondInput"
    IssuedAt,    \* IssuedAt[c]: issued_at
    Stale,       \* the interrupts whose based_on turn is past and not current
    Expiring,    \* bound: the commands whose expiry may pass
    MaxFaults,   \* bound: failed reads and writes of the document and of the table
    MaxCrashes   \* bound: engine crashes

Drains == {"task", "kick"}

ASSUME LedgerAssumption ==
    /\ Kind \in [Cmds -> {"run", "steer", "interrupt", "respondInput"}]
    /\ IssuedAt \in [Cmds -> Nat]
    /\ Stale \subseteq {c \in Cmds : Kind[c] = "interrupt"}
    /\ MaxFaults \in Nat /\ MaxCrashes \in Nat

VARIABLES
    log,        \* the document's commands, in document order
    status,     \* their status; "absent" before they are queued
    disk,       \* <<log, status>> of the last snapshot
    expired,    \* commands whose expiry has passed
    processed,  \* processed_commands
    wired,      \* the sessions engine is set (set_sessions)
    wake,       \* chat_task's changed flag
    pc,         \* per drain: the step it is at and what it has read
    ran,        \* history: how often each command had its effect
    contended,  \* history: commands a drain let through although another drain
                \* had, or although they were processed (a failed lookup)
    faults,     \* failed reads and writes so far
    crashes     \* engine crashes so far

vars ==
    <<log, status, disk, expired, processed, wired, wake, pc, ran, contended, faults, crashes>>

Outcomes == {"applied", "rejected", "expired", "superseded"}
NoCmd == [at |-> "idle"]

-----------------------------------------------------------------------------
\* What is_processed answers: a lookup that fails counts as "not processed".
Known == IF faults < MaxFaults THEN SUBSET processed ELSE {processed}

Lookup(known) == faults' = IF known = processed THEN faults ELSE faults + 1

\* find: the first pending entry this pass has neither skipped nor processed.
Eligible(c, skipped, known) == status[c] = "pending" /\ c \notin skipped /\ c \notin known

First(k, skipped, known) ==
    /\ Eligible(log[k], skipped, known)
    /\ \A j \in 1..k - 1 : ~Eligible(log[j], skipped, known)

\* evaluate_command's supersession rule, on the entries read by find.
NewerPending(c) ==
    \E o \in Range(log) : /\ o # c /\ Kind[o] = Kind[c] /\ status[o] = "pending"
                          /\ IssuedAt[o] > IssuedAt[c]

(* evaluate_command: dedupe, expiry, supersession, moot interrupts. *)
Disposition(c, newer, known) ==
    IF c \in known THEN "skip"
    ELSE IF c \in expired THEN "expired"
    ELSE IF Kind[c] \in {"steer", "interrupt"} /\ newer THEN "superseded"
    ELSE IF c \in Stale THEN "superseded"
    ELSE "execute"

-----------------------------------------------------------------------------
(* The document. *)

\* queue_command, here or on another device: the merge puts it anywhere.
Insert(s, k, c) == SubSeq(s, 1, k - 1) \o <<c>> \o SubSeq(s, k, Len(s))

Queue(c) ==
    /\ status[c] = "absent"
    /\ \E k \in 1..Len(log) + 1 : log' = Insert(log, k, c)
    /\ status' = [status EXCEPT ![c] = "pending"]
    /\ wake' = TRUE
    /\ UNCHANGED <<disk, expired, processed, wired, pc, ran, contended, faults, crashes>>

\* effective_expiry passes.
Expire(c) ==
    /\ c \in Expiring \ expired
    /\ expired' = expired \cup {c}
    /\ UNCHANGED <<log, status, disk, processed, wired, wake, pc, ran, contended, faults, crashes>>

\* save_snapshot: the debounce, flush_all, or the chat sink with each row it
\* applies, so at any point of a drain; none after the last crash.
Save ==
    /\ crashes < MaxCrashes
    /\ disk # <<log, status>>
    /\ disk' = <<log, status>>
    /\ UNCHANGED <<log, status, expired, processed, wired, wake, pc, ran, contended, faults, crashes>>

\* The engine dies and starts again: the document is its snapshot (a queued
\* command the snapshot lacks is delivered again by its issuer), the executor
\* is not wired yet, and chat_task does its initial pass.
Crash ==
    /\ crashes < MaxCrashes
    /\ crashes' = crashes + 1
    /\ log' = disk[1] /\ status' = disk[2]
    /\ wired' = FALSE
    /\ wake' = TRUE
    /\ pc' = [d \in Drains |-> NoCmd]
    /\ UNCHANGED <<disk, expired, processed, ran, contended, faults>>

-----------------------------------------------------------------------------
(* A drain. *)

\* Mutation: the kick is forgotten.
KickedNot == pc

Kicked == [pc EXCEPT !["kick"] = [at |-> "find", skipped |-> {}]]

\* set_sessions fills the slot, then drains every open document.
Wire ==
    /\ ~wired /\ pc["kick"].at = "idle"
    /\ wired' = TRUE
    /\ pc' = Kicked
    /\ UNCHANGED <<log, status, disk, expired, processed, wake, ran, contended, faults, crashes>>

\* chat_task: changed() fires; without an executor the drain returns at once.
Wake ==
    /\ wake /\ pc["task"].at = "idle"
    /\ wake' = FALSE
    /\ pc' = IF wired THEN [pc EXCEPT !["task"] = [at |-> "find", skipped |-> {}]] ELSE pc
    /\ UNCHANGED <<log, status, disk, expired, processed, wired, ran, contended, faults, crashes>>

\* read_commands and the search.
FindNext(d) ==
    /\ pc[d].at = "find"
    /\ \E known \in Known :
       /\ Lookup(known)
       /\ \/ /\ \A k \in DOMAIN log : ~Eligible(log[k], pc[d].skipped, known)
             /\ pc' = [pc EXCEPT ![d] = NoCmd]
          \/ \E k \in DOMAIN log :
               /\ First(k, pc[d].skipped, known)
               /\ pc' = [pc EXCEPT ![d] = [at |-> "evaluate", cmd |-> log[k],
                                           skipped |-> @.skipped, newer |-> NewerPending(log[k])]]
    /\ UNCHANGED <<log, status, disk, expired, processed, wired, wake, ran, contended, crashes>>

\* Another drain has let c through and not marked it yet.
LetThrough(d, c) ==
    \E e \in Drains \ {d} : pc[e].at = "mark" /\ pc[e].cmd = c /\ pc[e].disp # "skip"

Evaluate(d) ==
    /\ pc[d].at = "evaluate"
    /\ \E known \in Known :
         LET c == pc[d].cmd
             disp == Disposition(c, pc[d].newer, known)
         IN  /\ Lookup(known)
             /\ pc' = [pc EXCEPT ![d] = [at |-> "mark", cmd |-> c, skipped |-> @.skipped,
                                         disp |-> disp]]
             /\ contended' = IF disp # "skip" /\ (c \in processed \/ LetThrough(d, c))
                             THEN contended \cup {c} ELSE contended
    /\ UNCHANGED <<log, status, disk, expired, processed, wired, wake, ran, crashes>>

\* Mutation: the mark is left for later.
MarkedLater(c) == processed

\* mark_processed: INSERT OR IGNORE.
Marked(c) == processed \cup {c}

\* Mark before executing; drain_commands does not look at whether this call
\* claimed the command.
Mark(d) ==
    /\ pc[d].at = "mark"
    /\ processed' = Marked(pc[d].cmd)
    /\ pc' = [pc EXCEPT ![d] =
           IF @.disp = "skip" THEN [at |-> "find", skipped |-> @.skipped \cup {@.cmd}]
           ELSE IF @.disp = "execute"
           THEN [at |-> "execute", cmd |-> @.cmd, skipped |-> @.skipped]
           ELSE [at |-> "resolve", cmd |-> @.cmd, skipped |-> @.skipped, outcome |-> @.disp]]
    /\ UNCHANGED <<log, status, disk, expired, wired, wake, ran, contended, faults, crashes>>

\* execute: applied, or rejected: by the executor, which then did nothing, or
\* for an error met on the way, before or after the command had its effect.
Execute(d) ==
    /\ pc[d].at = "execute"
    /\ \E o \in {"applied", "rejected"}, effect \in BOOLEAN :
         /\ o = "applied" => effect
         /\ ran' = [ran EXCEPT ![pc[d].cmd] = IF effect THEN @ + 1 ELSE @]
         /\ pc' = [pc EXCEPT ![d] = [at |-> "resolve", cmd |-> @.cmd,
                                     skipped |-> @.skipped, outcome |-> o]]
    /\ UNCHANGED <<log, status, disk, expired, processed, wired, wake, contended, faults, crashes>>

\* resolve_command: the outcome is a document change like any other.
Resolve(d) ==
    /\ pc[d].at = "resolve"
    /\ status' = [status EXCEPT ![pc[d].cmd] = pc[d].outcome]
    /\ wake' = TRUE
    /\ pc' = [pc EXCEPT ![d] = [at |-> "find", skipped |-> @.skipped]]
    /\ UNCHANGED <<log, disk, expired, processed, wired, ran, contended, faults, crashes>>

\* set_command_status fails: logged, and the command stays pending.
Unresolved(d) ==
    /\ pc[d].at = "resolve"
    /\ faults < MaxFaults
    /\ faults' = faults + 1
    /\ pc' = [pc EXCEPT ![d] = [at |-> "find", skipped |-> @.skipped]]
    /\ UNCHANGED <<log, status, disk, expired, processed, wired, wake, ran, contended, crashes>>

\* read_commands or mark_processed fails: the drain is over until the next wake.
Halt(d) ==
    /\ pc[d].at \in {"find", "mark"}
    /\ faults < MaxFaults
    /\ faults' = faults + 1
    /\ pc' = [pc EXCEPT ![d] = NoCmd]
    /\ UNCHANGED <<log, status, disk, expired, processed, wired, wake, ran, contended, crashes>>

Drain(d) == FindNext(d) \/ Evaluate(d) \/ Mark(d) \/ Execute(d) \/ Resolve(d)

Init ==
    /\ log = << >>
    /\ status = [c \in Cmds |-> "absent"]
    /\ disk = <<log, status>>
    /\ expired = {}
    /\ processed = {}
    /\ wired = FALSE
    /\ wake = TRUE
    /\ pc = [d \in Drains |-> NoCmd]
    /\ ran = [c \in Cmds |-> 0]
    /\ contended = {}
    /\ faults = 0
    /\ crashes = 0

Next ==
    \/ \E c \in Cmds : Queue(c) \/ Expire(c)
    \/ \E d \in Drains : Drain(d) \/ Unresolved(d) \/ Halt(d)
    \/ Save \/ Crash \/ Wire \/ Wake

Spec == Init /\ [][Next]_vars

\* The engine wires its executor at assembly, and both tasks keep running.
FairSpec == Spec /\ WF_vars(Wire) /\ WF_vars(Wake) /\ \A d \in Drains : WF_vars(Drain(d))

-----------------------------------------------------------------------------
(* A drain holds a queued command, and the log lists each queued command once. *)
PcOK(p) ==
    \/ p = NoCmd
    \/ p \in [at : {"find"}, skipped : SUBSET Cmds]
    \/ p \in [at : {"evaluate"}, cmd : Cmds, skipped : SUBSET Cmds, newer : BOOLEAN]
    \/ p \in [at : {"mark"}, cmd : Cmds, skipped : SUBSET Cmds,
              disp : {"skip", "expired", "superseded", "execute"}]
    \/ p \in [at : {"execute"}, cmd : Cmds, skipped : SUBSET Cmds]
    \/ p \in [at : {"resolve"}, cmd : Cmds, skipped : SUBSET Cmds, outcome : Outcomes]

Statuses == [Cmds -> {"absent", "pending"} \cup Outcomes]

TypeOK ==
    /\ log \in Seq(Cmds) /\ status \in Statuses
    /\ disk \in Seq(Cmds) \X Statuses
    /\ \A c \in Cmds : (status[c] # "absent") = (c \in Range(log))
    /\ expired \subseteq Cmds /\ processed \subseteq Cmds
    /\ wired \in BOOLEAN /\ wake \in BOOLEAN
    /\ pc = [d \in Drains |-> pc[d]] /\ \A d \in Drains : PcOK(pc[d])
    /\ ran \in [Cmds -> Nat] /\ contended \subseteq Cmds /\ faults \in Nat /\ crashes \in Nat

(* "a crash mid-execution must never double-run a command" (drain_commands):
   wherever the engine crashes, whatever the crash takes back from the document
   and however the two drains interleave, a command runs twice only if both let
   it through before either marked it, or a lookup of it failed. *)
AtMostOnce == \A c \in Cmds \ contended : ran[c] <= 1

(* The outcome a composer reads is what happened: a command reported applied
   ran, and one reported expired or superseded never did unless it was let
   through twice.  (One reported rejected may have run: an error can come late.) *)
OutcomeHonest ==
    \A c \in Cmds :
        /\ status[c] = "applied" => ran[c] > 0
        /\ status[c] \in {"expired", "superseded"} => ran[c] = 0 \/ c \in contended

(* As long as the engine and its store stay up every queued command with a
   drain still to come gets an outcome, also one queued before the executor was
   wired ("the set_sessions kick re-drains"). *)
EveryCommandSettles ==
    \A c \in Cmds :
        (/\ status[c] = "pending" /\ c \notin processed
         /\ wake /\ crashes = MaxCrashes /\ faults = MaxFaults) ~> (status[c] # "pending")
=============================================================================
