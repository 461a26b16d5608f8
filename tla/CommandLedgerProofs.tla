------------------------ MODULE CommandLedgerProofs -------------------------
(***************************************************************************)
(* Proofs about the command plane, for every set of commands and any       *)
(* number of crashes and failed reads and writes, with drains that overlap *)
(* as they like.                                                           *)
(*                                                                         *)
(* AtMostOnce is not inductive: it needs the order "mark, then execute",   *)
(* and that a command no drain let through once too often is in the hands  *)
(* of one drain at most.  The invariant follows such a command through its *)
(* drain: not processed until the mark of the drain that will execute it,  *)
(* processed and not yet run from the mark to the execution, and processed *)
(* for ever after.  The outcomes on the snapshot obey the same facts as    *)
(* those in memory, so a crash that takes outcomes back does no harm.      *)
(***************************************************************************)
EXTENDS CommandLedger, SequenceTheorems, TLAPS

Refused == {"expired", "superseded"}

\* A drain has c in its hands: it let c through and has not resolved it.
Holds(p, c) ==
    \/ p.at = "mark" /\ p.cmd = c /\ p.disp # "skip"
    \/ p.at \in {"execute", "resolve"} /\ p.cmd = c

TypeInv ==
    /\ pc = [d \in Drains |-> pc[d]] /\ \A d \in Drains : PcOK(pc[d])
    /\ log \in Seq(Cmds)
    /\ processed \subseteq Cmds
    /\ ran \in [Cmds -> Nat]
    /\ contended \subseteq Cmds
    /\ status \in Statuses
    /\ disk = <<disk[1], disk[2]>> /\ disk[1] \in Seq(Cmds) /\ disk[2] \in Statuses

\* A command in the hands of two drains was let through twice.
OneHolder ==
    \A c \in Cmds \ contended : \A d, e \in Drains :
        Holds(pc[d], c) /\ Holds(pc[e], c) => d = e

\* A command that ran is processed, and ran once.
RanOnce ==
    \A c \in Cmds : /\ ran[c] > 0 => c \in processed
                    /\ c \notin contended => ran[c] <= 1

\* What a drain knows of its command at each step.
Knows(p) ==
    /\ p.at = "mark" /\ p.disp = "skip" => p.cmd \in processed
    /\ p.at \in {"execute", "resolve"} => p.cmd \in processed
    /\ p.at = "resolve" /\ p.outcome = "applied" => ran[p.cmd] > 0
    /\ p.at = "mark" /\ p.disp # "skip" /\ p.cmd \notin contended => p.cmd \notin processed
    /\ p.at = "execute" /\ p.cmd \notin contended =>
           /\ ran[p.cmd] = 0
           /\ status[p.cmd] \notin Refused
           /\ disk[2][p.cmd] \notin Refused
    /\ p.at = "resolve" /\ p.outcome \in Refused /\ p.cmd \notin contended => ran[p.cmd] = 0

DrainKnows == \A d \in Drains : Knows(pc[d])

\* What an outcome, in memory or on disk, says of the command.
Honest(st) ==
    \A c \in Cmds : /\ st[c] = "applied" => ran[c] > 0
                    /\ st[c] \in Refused => c \in processed
                    /\ st[c] \in Refused /\ c \notin contended => ran[c] = 0

LedgerInv == TypeInv /\ OneHolder /\ RanOnce /\ DrainKnows /\ Honest(status) /\ Honest(disk[2])

-----------------------------------------------------------------------------
LEMMA LedgerInit == Init => LedgerInv
  BY DEF Init, LedgerInv, TypeInv, OneHolder, Holds, RanOnce, DrainKnows, Knows, Honest, PcOK,
         NoCmd, Statuses, Refused, Drains

(* A command merged into the log leaves a log of commands. *)
LEMMA InsertType ==
    ASSUME NEW s \in Seq(Cmds), NEW k \in 1..Len(s) + 1, NEW c \in Cmds
    PROVE  Insert(s, k, c) \in Seq(Cmds)
  <1>1. SubSeq(s, 1, k - 1) \in Seq(Cmds)
    BY SubSeqProperties
  <1>2. SubSeq(s, k, Len(s)) \in Seq(Cmds)
    BY SubSeqProperties
  <1> QED BY <1>1, <1>2 DEF Insert

(* A step of one drain to a well-formed record keeps every record so. *)
LEMMA OneDrain ==
    ASSUME TypeInv, NEW d \in Drains, NEW q, PcOK(q), pc' = [pc EXCEPT ![d] = q]
    PROVE  /\ pc' = [e \in Drains |-> pc'[e]]
           /\ \A e \in Drains : PcOK(pc'[e])
           /\ pc'[d] = q
           /\ \A e \in Drains : e # d => pc'[e] = pc[e]
  BY DEF TypeInv

(* A drain that is not idle has a well-formed record. *)
LEMMA Busy ==
    ASSUME TypeInv, NEW d \in Drains, pc[d].at # "idle"
    PROVE  /\ PcOK(pc[d])
           /\ pc[d].skipped \subseteq Cmds
           /\ pc[d].at \in {"evaluate", "mark", "execute", "resolve"} => pc[d].cmd \in Cmds
           /\ pc[d].at = "evaluate" => pc[d].newer \in BOOLEAN
           /\ pc[d].at = "mark" => pc[d].disp \in {"skip", "expired", "superseded", "execute"}
           /\ pc[d].at = "resolve" => pc[d].outcome \in Outcomes
  <1>1. PcOK(pc[d])
    BY DEF TypeInv
  <1>2. pc[d] # NoCmd
    BY DEF NoCmd
  <1> QED BY <1>1, <1>2 DEF PcOK

(* A step that lets go of the drain's command, and changes no history. *)
LEMMA LetGo ==
    ASSUME LedgerInv, NEW d \in Drains, NEW q, PcOK(q), q.at \in {"idle", "find", "evaluate"},
           pc' = [pc EXCEPT ![d] = q],
           UNCHANGED <<log, status, disk, processed, ran, contended>>
    PROVE  LedgerInv'
  <1>1. pc'[d] = q /\ \A e \in Drains : e # d => pc'[e] = pc[e]
    BY OneDrain DEF LedgerInv
  <1>2. TypeInv'
    BY OneDrain DEF LedgerInv, TypeInv
  <1>3. \A c : ~Holds(q, c)
    BY DEF Holds
  <1>4. OneHolder'
    BY <1>1, <1>3 DEF LedgerInv, OneHolder, Holds
  <1>5. DrainKnows'
    BY <1>1 DEF LedgerInv, DrainKnows, Knows
  <1> QED BY <1>2, <1>4, <1>5 DEF LedgerInv, RanOnce, Honest

(* evaluate_command on a command, whatever the lookup says: the other drain
   holds it, or it is processed, only if it becomes contended. *)
LEMMA EvaluateStep ==
    ASSUME LedgerInv, NEW d \in Drains, Evaluate(d)
    PROVE  LedgerInv'
  <1> DEFINE c == pc[d].cmd
  <1>1. PICK known \in Known :
          LET disp == Disposition(c, pc[d].newer, known)
          IN  /\ pc' = [pc EXCEPT ![d] = [at |-> "mark", cmd |-> c, skipped |-> @.skipped,
                                          disp |-> disp]]
              /\ contended' = IF disp # "skip" /\ (c \in processed \/ LetThrough(d, c))
                              THEN contended \cup {c} ELSE contended
    BY DEF Evaluate
  <1> DEFINE disp == Disposition(c, pc[d].newer, known)
             q == [at |-> "mark", cmd |-> c, skipped |-> pc[d].skipped, disp |-> disp]
  <1>2. c \in Cmds /\ pc[d].skipped \subseteq Cmds
    BY Busy DEF LedgerInv, Evaluate
  <1>3. disp \in {"skip", "expired", "superseded", "execute"}
    BY DEF Disposition
  <1>13. disp = "skip" => c \in processed
    BY DEF Disposition, Known
  <1>4. PcOK(q) /\ q.at = "mark" /\ q.cmd = c /\ q.disp = disp
    BY <1>2, <1>3 DEF PcOK
  <1>5. pc' = [pc EXCEPT ![d] = q]
    BY <1>1
  <1>6. /\ contended \subseteq contended'
        /\ contended' \subseteq Cmds
        /\ disp # "skip" /\ c \notin contended' => c \notin processed /\ ~LetThrough(d, c)
    BY <1>1, <1>2 DEF LedgerInv, TypeInv
  <1> HIDE DEF q, disp, c
  <1>7. pc'[d] = q /\ \A e \in Drains : e # d => pc'[e] = pc[e]
    BY <1>4, <1>5, OneDrain DEF LedgerInv
  <1>8. UNCHANGED <<log, status, disk, processed, ran>>
    BY DEF Evaluate
  <1>9. TypeInv'
    BY <1>4, <1>5, <1>6, <1>8, OneDrain DEF LedgerInv, TypeInv
  <1>10. \A e \in Drains \ {d}, x \in Cmds \ contended' :
           ~(Holds(pc'[d], x) /\ Holds(pc'[e], x))
    <2> SUFFICES ASSUME NEW e \in Drains \ {d}, NEW x \in Cmds \ contended',
                        Holds(q, x), Holds(pc[e], x)
                 PROVE  FALSE
      BY <1>7
    <2>1. x = c /\ disp # "skip"
      BY <1>4 DEF Holds
    <2>2. c \notin processed /\ ~LetThrough(d, c)
      BY <2>1, <1>6
    <2>3. pc[e].at = "mark" => LetThrough(d, c)
      BY <2>1 DEF Holds, LetThrough
    <2>4. pc[e].at \in {"execute", "resolve"} => c \in processed
      BY <2>1 DEF Holds, LedgerInv, DrainKnows, Knows
    <2> QED BY <2>2, <2>3, <2>4 DEF Holds
  <1>11. OneHolder'
    <2> SUFFICES ASSUME NEW x \in Cmds \ contended', NEW a \in Drains, NEW b \in Drains,
                        Holds(pc'[a], x), Holds(pc'[b], x)
                 PROVE  a = b
      BY DEF OneHolder
    <2>1. CASE a # d /\ b # d
      BY <2>1, <1>6, <1>7 DEF LedgerInv, OneHolder
    <2> QED BY <2>1, <1>10
  <1>12. DrainKnows'
    <2> SUFFICES ASSUME NEW e \in Drains PROVE Knows(pc[e])'
      BY DEF DrainKnows
    <2>1. CASE e = d
      BY <2>1, <1>3, <1>4, <1>6, <1>7, <1>8, <1>13 DEF Knows
    <2>2. CASE e # d
      BY <2>2, <1>6, <1>7, <1>8 DEF LedgerInv, DrainKnows, Knows
    <2> QED BY <2>1, <2>2
  <1> QED BY <1>6, <1>8, <1>9, <1>11, <1>12 DEF LedgerInv, RanOnce, Honest

(* The mark of a command that is not contended: no other drain marks it. *)
LEMMA MarkStep ==
    ASSUME LedgerInv, NEW d \in Drains, Mark(d)
    PROVE  LedgerInv'
  <1> DEFINE p == pc[d]
  <1>1. /\ UNCHANGED <<log, status, disk, ran, contended>>
        /\ processed' = processed \cup {p.cmd}
    BY DEF Mark, Marked
  <1>2. /\ p.cmd \in Cmds /\ p.skipped \subseteq Cmds /\ p.at = "mark"
        /\ p.disp \in {"skip", "expired", "superseded", "execute"}
    BY Busy DEF LedgerInv, Mark
  <1>3. p.disp # "skip" /\ p.cmd \notin contended =>
          /\ p.cmd \notin processed /\ ran[p.cmd] = 0
          /\ status[p.cmd] \notin Refused /\ disk[2][p.cmd] \notin Refused
    BY <1>2 DEF LedgerInv, TypeInv, DrainKnows, Knows, RanOnce, Honest
  <1> DEFINE q == IF p.disp = "skip" THEN [at |-> "find", skipped |-> p.skipped \cup {p.cmd}]
                  ELSE IF p.disp = "execute"
                  THEN [at |-> "execute", cmd |-> p.cmd, skipped |-> p.skipped]
                  ELSE [at |-> "resolve", cmd |-> p.cmd, skipped |-> p.skipped,
                        outcome |-> p.disp]
  <1>5. pc' = [pc EXCEPT ![d] = q]
    BY DEF Mark
  <1>6. /\ PcOK(q)
        /\ \/ q.at = "find"
           \/ q.at = "execute" /\ q.cmd = p.cmd /\ p.disp # "skip"
           \/ /\ q.at = "resolve" /\ q.cmd = p.cmd /\ p.disp # "skip"
              /\ q.outcome \in Refused
    BY <1>2 DEF PcOK, Outcomes, Refused
  <1> HIDE DEF q
  <1>7. pc'[d] = q /\ \A e \in Drains : e # d => pc'[e] = pc[e]
    BY <1>5, <1>6, OneDrain DEF LedgerInv
  <1>8. TypeInv'
    BY <1>1, <1>2, <1>5, <1>6, OneDrain DEF LedgerInv, TypeInv
  <1>9. \A c \in Cmds : Holds(q, c) => Holds(p, c)
    BY <1>2, <1>6 DEF Holds
  <1> HIDE DEF p
  <1>10. OneHolder'
    <2> SUFFICES ASSUME NEW x \in Cmds \ contended, NEW a \in Drains, NEW b \in Drains,
                        Holds(pc'[a], x), Holds(pc'[b], x)
                 PROVE  a = b
      BY <1>1 DEF OneHolder
    <2>1. Holds(pc[a], x) /\ Holds(pc[b], x)
      BY <1>7, <1>9 DEF p
    <2> QED BY <2>1 DEF LedgerInv, OneHolder
  <1>11. DrainKnows'
    <2> SUFFICES ASSUME NEW e \in Drains PROVE Knows(pc[e])'
      BY DEF DrainKnows
    <2>1. CASE e = d
      BY <2>1, <1>1, <1>3, <1>6, <1>7 DEF Knows, Refused
    <2>2. CASE e # d
      <3>1. Knows(pc[e])
        BY DEF LedgerInv, DrainKnows
      <3>2. ASSUME pc[e].at = "mark", pc[e].disp # "skip", pc[e].cmd \notin contended
            PROVE  pc[e].cmd # p.cmd \/ pc[e].cmd \in processed \/ p.disp = "skip"
        <4> SUFFICES ASSUME pc[e].cmd = p.cmd, p.disp # "skip" PROVE FALSE
          OBVIOUS
        <4>1. Holds(pc[e], p.cmd) /\ Holds(p, p.cmd) /\ p.cmd \in Cmds \ contended
          BY <3>2, <1>2 DEF Holds
        <4> QED BY <4>1, <2>2 DEF LedgerInv, OneHolder, p
      <3>3. p.disp = "skip" => p.cmd \in processed
        <4>1. Knows(pc[d])
          BY DEF LedgerInv, DrainKnows
        <4> QED BY <4>1, <1>2 DEF Knows, p
      <3> QED BY <2>2, <3>1, <3>2, <3>3, <1>1, <1>7 DEF Knows
    <2> QED BY <2>1, <2>2
  <1> QED BY <1>1, <1>8, <1>10, <1>11 DEF LedgerInv, RanOnce, Honest

(* The command has its effect: it is processed, and had none before. *)
LEMMA ExecuteStep ==
    ASSUME LedgerInv, NEW d \in Drains, Execute(d)
    PROVE  LedgerInv'
  <1> DEFINE p == pc[d]
  <1>1. PICK o \in {"applied", "rejected"}, effect \in BOOLEAN :
          /\ o = "applied" => effect
          /\ ran' = [ran EXCEPT ![p.cmd] = IF effect THEN @ + 1 ELSE @]
          /\ pc' = [pc EXCEPT ![d] = [at |-> "resolve", cmd |-> p.cmd,
                                      skipped |-> p.skipped, outcome |-> o]]
    BY DEF Execute
  <1>2. UNCHANGED <<log, status, disk, processed, contended>>
    BY DEF Execute
  <1>3. /\ p.at = "execute" /\ p.cmd \in Cmds /\ p.skipped \subseteq Cmds /\ p.cmd \in processed
        /\ p.cmd \notin contended => /\ ran[p.cmd] = 0
                                     /\ status[p.cmd] \notin Refused
                                     /\ disk[2][p.cmd] \notin Refused
    BY Busy DEF LedgerInv, Execute, DrainKnows, Knows
  <1> DEFINE q == [at |-> "resolve", cmd |-> p.cmd, skipped |-> p.skipped, outcome |-> o]
  <1>4. PcOK(q) /\ q.at = "resolve" /\ q.cmd = p.cmd /\ q.outcome = o /\ o \notin Refused
    BY <1>3 DEF PcOK, Outcomes, Refused
  <1>5. pc' = [pc EXCEPT ![d] = q]
    BY <1>1
  <1> HIDE DEF q
  <1>6. ran \in [Cmds -> Nat]
    BY DEF LedgerInv, TypeInv
  <1>7. /\ ran' \in [Cmds -> Nat]
        /\ ran'[p.cmd] >= ran[p.cmd] /\ ran'[p.cmd] <= ran[p.cmd] + 1
        /\ o = "applied" => ran'[p.cmd] > 0
        /\ \A c \in Cmds : c # p.cmd => ran'[c] = ran[c]
    BY <1>1, <1>3, <1>6
  <1>8. pc'[d] = q /\ \A e \in Drains : e # d => pc'[e] = pc[e]
    BY <1>4, <1>5, OneDrain DEF LedgerInv
  <1>9. TypeInv'
    BY <1>2, <1>4, <1>5, <1>7, OneDrain DEF LedgerInv, TypeInv
  <1>10. \A c : Holds(q, c) => Holds(p, c)
    BY <1>3, <1>4 DEF Holds
  <1>11. OneHolder'
    <2> SUFFICES ASSUME NEW x \in Cmds \ contended, NEW a \in Drains, NEW b \in Drains,
                        Holds(pc'[a], x), Holds(pc'[b], x)
                 PROVE  a = b
      BY <1>2 DEF OneHolder
    <2>1. Holds(pc[a], x) /\ Holds(pc[b], x)
      BY <1>8, <1>10
    <2> QED BY <2>1 DEF LedgerInv, OneHolder
  <1>12. DrainKnows'
    <2> SUFFICES ASSUME NEW e \in Drains PROVE Knows(pc[e])'
      BY DEF DrainKnows
    <2>1. CASE e = d
      BY <2>1, <1>2, <1>3, <1>4, <1>7, <1>8 DEF Knows, Refused
    <2>2. CASE e # d
      <3>1. Knows(pc[e]) /\ pc'[e] = pc[e]
        BY <1>8, <2>2 DEF LedgerInv, DrainKnows
      <3>2. pc[e].at \in {"execute", "resolve"} => pc[e].cmd \in Cmds
        BY Busy DEF LedgerInv
      <3>3. pc[e].at \in {"execute", "resolve"} /\ pc[e].cmd \notin contended =>
              pc[e].cmd # p.cmd
        <4> SUFFICES ASSUME pc[e].at \in {"execute", "resolve"}, pc[e].cmd \notin contended,
                            pc[e].cmd = p.cmd
                     PROVE  FALSE
          OBVIOUS
        <4>1. Holds(pc[e], p.cmd) /\ Holds(pc[d], p.cmd) /\ p.cmd \in Cmds \ contended
          BY <1>3 DEF Holds
        <4> QED BY <4>1, <2>2 DEF LedgerInv, OneHolder
      <3>4. pc[e].at \in {"execute", "resolve"} => ran'[pc[e].cmd] >= ran[pc[e].cmd]
        BY <1>6, <1>7, <3>2
      <3>5. pc[e].at \in {"execute", "resolve"} /\ pc[e].cmd \notin contended =>
              ran'[pc[e].cmd] = ran[pc[e].cmd]
        BY <1>7, <3>2, <3>3
      <3>6. pc[e].at \in {"execute", "resolve"} =>
              ran[pc[e].cmd] \in Nat /\ ran'[pc[e].cmd] \in Nat
        BY <1>6, <1>7, <3>2
      <3> HIDE DEF p
      <3> QED BY <3>1, <3>4, <3>5, <3>6, <1>2 DEF Knows
    <2> QED BY <2>1, <2>2
  <1>13. RanOnce'
    <2> SUFFICES ASSUME NEW c \in Cmds
                 PROVE  /\ ran'[c] > 0 => c \in processed
                        /\ c \notin contended => ran'[c] <= 1
      BY <1>2 DEF RanOnce
    <2>1. CASE c = p.cmd
      BY <2>1, <1>3, <1>6, <1>7
    <2>2. CASE c # p.cmd
      BY <2>2, <1>7 DEF LedgerInv, RanOnce
    <2> QED BY <2>1, <2>2
  <1>14. ASSUME NEW st, Honest(st), p.cmd \notin contended => st[p.cmd] \notin Refused
         PROVE  \A c \in Cmds : /\ st[c] = "applied" => ran'[c] > 0
                                /\ st[c] \in Refused => c \in processed
                                /\ st[c] \in Refused /\ c \notin contended => ran'[c] = 0
    <2> TAKE c \in Cmds
    <2>1. ran[c] \in Nat /\ ran'[c] \in Nat
      BY <1>6, <1>7
    <2>2. CASE c = p.cmd
      BY <2>1, <2>2, <1>3, <1>7, <1>14 DEF Honest
    <2>3. CASE c # p.cmd
      BY <2>3, <1>7, <1>14 DEF Honest
    <2> QED BY <2>2, <2>3
  <1>15. Honest(status)' /\ Honest(disk[2])'
    <2>1. Honest(status) /\ Honest(disk[2])
      BY DEF LedgerInv
    <2> HIDE DEF p
    <2> QED BY <2>1, <1>14, <1>3, <1>2 DEF Honest
  <1> QED BY <1>9, <1>11, <1>12, <1>13, <1>15 DEF LedgerInv

(* The outcome written is what the drain knows of the command. *)
LEMMA ResolveStep ==
    ASSUME LedgerInv, NEW d \in Drains, Resolve(d)
    PROVE  LedgerInv'
  <1> DEFINE p == pc[d]
             q == [at |-> "find", skipped |-> p.skipped]
  <1>1. /\ UNCHANGED <<log, disk, processed, ran, contended>>
        /\ status' = [status EXCEPT ![p.cmd] = p.outcome]
        /\ pc' = [pc EXCEPT ![d] = q]
    BY DEF Resolve
  <1>2. /\ p.at = "resolve" /\ p.cmd \in Cmds /\ p.outcome \in Outcomes
        /\ p.skipped \subseteq Cmds
    BY Busy DEF LedgerInv, Resolve
  <1>3. PcOK(q) /\ q.at = "find"
    BY <1>2 DEF PcOK
  <1>4. /\ p.cmd \in processed
        /\ p.outcome = "applied" => ran[p.cmd] > 0
        /\ p.outcome \in Refused /\ p.cmd \notin contended => ran[p.cmd] = 0
    BY <1>2 DEF LedgerInv, DrainKnows, Knows
  <1> HIDE DEF q
  <1>5. pc'[d] = q /\ \A e \in Drains : e # d => pc'[e] = pc[e]
    BY <1>1, <1>3, OneDrain DEF LedgerInv
  <1>6. status' \in Statuses
    BY <1>1, <1>2 DEF LedgerInv, TypeInv, Statuses
  <1>7. TypeInv'
    BY <1>1, <1>3, <1>6, OneDrain DEF LedgerInv, TypeInv
  <1>8. \A c : ~Holds(q, c)
    BY <1>3 DEF Holds
  <1>9. OneHolder'
    BY <1>1, <1>5, <1>8 DEF LedgerInv, OneHolder
  <1>10. status' = [c \in Cmds |-> IF c = p.cmd THEN p.outcome ELSE status[c]]
    BY <1>1, <1>2 DEF LedgerInv, TypeInv, Statuses
  <1>11. DrainKnows'
    <2> SUFFICES ASSUME NEW e \in Drains PROVE Knows(pc[e])'
      BY DEF DrainKnows
    <2>1. CASE e = d
      BY <2>1, <1>3, <1>5 DEF Knows
    <2>2. CASE e # d
      <3>1. Knows(pc[e]) /\ pc'[e] = pc[e]
        BY <1>5, <2>2 DEF LedgerInv, DrainKnows
      <3>2. pc[e].at = "execute" => pc[e].cmd \in Cmds
        BY Busy DEF LedgerInv
      <3>3. pc[e].at = "execute" /\ pc[e].cmd \notin contended => pc[e].cmd # p.cmd
        <4> SUFFICES ASSUME pc[e].at = "execute", pc[e].cmd \notin contended, pc[e].cmd = p.cmd
                     PROVE  FALSE
          OBVIOUS
        <4>1. Holds(pc[e], p.cmd) /\ Holds(pc[d], p.cmd) /\ p.cmd \in Cmds \ contended
          BY <1>2 DEF Holds
        <4> QED BY <4>1, <2>2 DEF LedgerInv, OneHolder
      <3>4. pc[e].at = "execute" /\ pc[e].cmd \notin contended =>
              status'[pc[e].cmd] = status[pc[e].cmd]
        BY <1>10, <3>2, <3>3
      <3> HIDE DEF p
      <3> QED BY <3>1, <3>4, <1>1 DEF Knows
    <2> QED BY <2>1, <2>2
  <1>12. Honest(status)'
    <2> HIDE DEF p
    <2> QED BY <1>1, <1>4, <1>10 DEF LedgerInv, Honest
  <1> QED BY <1>1, <1>7, <1>9, <1>11, <1>12 DEF LedgerInv, RanOnce, Honest

LEMMA LedgerStep ==
    ASSUME LedgerInv, [Next]_vars
    PROVE  LedgerInv'
  <1>1. CASE UNCHANGED vars
    BY <1>1 DEF vars, LedgerInv, TypeInv, OneHolder, RanOnce, DrainKnows, Knows, Honest
  <1>2. ASSUME NEW c \in Cmds, Queue(c) PROVE LedgerInv'
    <2>1. log' \in Seq(Cmds)
      BY <1>2, InsertType DEF Queue, LedgerInv, TypeInv
    <2>2. /\ UNCHANGED <<disk, processed, pc, ran, contended>>
          /\ status' = [status EXCEPT ![c] = "pending"]
      BY <1>2 DEF Queue
    <2>3. status' = [x \in Cmds |-> IF x = c THEN "pending" ELSE status[x]]
      BY <2>2 DEF LedgerInv, TypeInv, Statuses
    <2>4. TypeInv'
      BY <2>1, <2>2, <2>3 DEF LedgerInv, TypeInv, Statuses
    <2>5. \A x \in Cmds : status'[x] = status[x] \/ status'[x] = "pending"
      BY <2>3
    <2>6. DrainKnows'
      <3> SUFFICES ASSUME NEW e \in Drains PROVE Knows(pc[e])'
        BY <2>2 DEF DrainKnows
      <3>1. Knows(pc[e])
        BY DEF LedgerInv, DrainKnows
      <3>2. pc[e].at = "execute" => pc[e].cmd \in Cmds
        BY Busy DEF LedgerInv
      <3> QED BY <2>2, <2>5, <3>1, <3>2 DEF Knows, Refused
    <2>7. Honest(status)' /\ Honest(disk[2])'
      BY <2>2, <2>5 DEF LedgerInv, Honest, Refused
    <2> QED BY <2>2, <2>4, <2>6, <2>7 DEF LedgerInv, OneHolder, RanOnce
  <1>3. ASSUME NEW c \in Cmds, Expire(c) PROVE LedgerInv'
    BY <1>3 DEF Expire, LedgerInv, TypeInv, OneHolder, RanOnce, DrainKnows, Knows, Honest
  <1>4. CASE Save
    <2>1. disk' = <<log, status>> /\ UNCHANGED <<log, status, processed, pc, ran, contended>>
      BY <1>4 DEF Save
    <2>2. DrainKnows'
      BY <2>1 DEF LedgerInv, DrainKnows, Knows
    <2> QED BY <2>1, <2>2 DEF LedgerInv, TypeInv, OneHolder, RanOnce, Honest
  <1>5. CASE Crash
    <2>1. \A d \in Drains : pc'[d] = NoCmd
      BY <1>5 DEF Crash
    <2>2. OneHolder' /\ DrainKnows'
      BY <2>1 DEF OneHolder, Holds, DrainKnows, Knows, NoCmd
    <2> QED BY <1>5, <2>2 DEF Crash, LedgerInv, TypeInv, RanOnce, Honest, PcOK
  <1>6. ASSUME NEW d \in Drains, pc' = [pc EXCEPT ![d] = [at |-> "find", skipped |-> {}]],
               UNCHANGED <<log, status, disk, processed, ran, contended>>
        PROVE  LedgerInv'
    <2> DEFINE q == [at |-> "find", skipped |-> {}]
    <2>1. PcOK(q) /\ q.at = "find"
      BY DEF PcOK
    <2> HIDE DEF q
    <2> QED BY <1>6, <2>1, LetGo DEF q
  <1>7. CASE Wire
    BY <1>6, <1>7 DEF Wire, Kicked, Drains
  <1>8. CASE Wake
    <2>1. UNCHANGED <<log, status, disk, processed, ran, contended>>
      BY <1>8 DEF Wake
    <2>2. CASE pc' = pc
      BY <2>1, <2>2 DEF LedgerInv, TypeInv, OneHolder, RanOnce, DrainKnows, Knows, Honest
    <2> QED BY <1>6, <1>8, <2>1, <2>2 DEF Wake, Drains
  <1>9. ASSUME NEW d \in Drains, Drain(d) \/ Unresolved(d) \/ Halt(d) PROVE LedgerInv'
    <2> DEFINE p == pc[d]
    <2>1. PcOK(p) /\ p.skipped \subseteq Cmds
      BY <1>9, Busy DEF LedgerInv, Drain, FindNext, Evaluate, Mark, Execute, Resolve,
                        Unresolved, Halt
    <2>2. PcOK(NoCmd) /\ NoCmd.at = "idle"
      BY DEF PcOK, NoCmd
    <2>3. CASE FindNext(d)
      <3>1. UNCHANGED <<log, status, disk, processed, ran, contended>>
        BY <2>3 DEF FindNext
      <3>2. CASE pc' = [pc EXCEPT ![d] = NoCmd]
        BY <3>1, <3>2, <2>2, LetGo
      <3>3. ASSUME NEW k \in DOMAIN log,
                   pc' = [pc EXCEPT ![d] = [at |-> "evaluate", cmd |-> log[k],
                                            skipped |-> p.skipped, newer |-> NewerPending(log[k])]]
            PROVE  LedgerInv'
        <4> DEFINE q == [at |-> "evaluate", cmd |-> log[k], skipped |-> p.skipped,
                         newer |-> NewerPending(log[k])]
        <4>0. NewerPending(log[k]) \in BOOLEAN
          BY DEF NewerPending
        <4>1. PcOK(q) /\ q.at = "evaluate"
          BY <2>1, <4>0 DEF PcOK, LedgerInv, TypeInv
        <4> HIDE DEF q
        <4>2. pc' = [pc EXCEPT ![d] = q]
          BY <3>3 DEF q
        <4> QED BY <3>1, <4>1, <4>2, LetGo
      <3> QED BY <2>3, <3>2, <3>3 DEF FindNext
    <2>4. CASE Unresolved(d)
      <3> DEFINE q == [at |-> "find", skipped |-> p.skipped]
      <3>1. PcOK(q) /\ q.at = "find"
        BY <2>1 DEF PcOK
      <3>2. pc' = [pc EXCEPT ![d] = q] /\ UNCHANGED <<log, status, disk, processed, ran, contended>>
        BY <2>4 DEF Unresolved
      <3> HIDE DEF q
      <3> QED BY <3>1, <3>2, LetGo
    <2>5. CASE Halt(d)
      BY <2>2, <2>5, LetGo DEF Halt
    <2> QED BY <1>9, <2>3, <2>4, <2>5, EvaluateStep, MarkStep, ExecuteStep, ResolveStep DEF Drain
  <1> QED BY <1>1, <1>2, <1>3, <1>4, <1>5, <1>7, <1>8, <1>9 DEF Next

(* The inductive invariant holds, for every set of commands. *)
THEOREM LedgerInvariant == Spec => []LedgerInv
  BY LedgerInit, LedgerStep, PTL DEF Spec

(* A command runs twice only if two drains let it through before either marked
   it, or a lookup of it failed, whatever crashes take back from the document
   (drain_commands, mark_processed). *)
THEOREM AtMostOnceHolds == Spec => []AtMostOnce
  <1>1. LedgerInv => AtMostOnce
    BY DEF LedgerInv, RanOnce, AtMostOnce
  <1> QED BY <1>1, LedgerInvariant, PTL

(* The outcome a composer reads is what happened (resolve_command). *)
THEOREM OutcomeHonestHolds == Spec => []OutcomeHonest
  <1>1. LedgerInv => OutcomeHonest
    BY DEF LedgerInv, Honest, Refused, OutcomeHonest
  <1> QED BY <1>1, LedgerInvariant, PTL
=============================================================================
