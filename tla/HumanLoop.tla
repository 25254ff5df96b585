------------------------------- MODULE HumanLoop -------------------------------
(***************************************************************************)
(* The human in the factory brain's loop: the mailbox                      *)
(* (lib/agent-factory-v3/brain/mailbox.ts) through which the inject route  *)
(* reaches a running brain, the turn loop of the conductor (conductor.ts)  *)
(* with its three parking gates, and the tools that make it park.          *)
(*                                                                         *)
(* What a turn of the model does is open: it may call any tools, chat, be  *)
(* nudged on, stop or throw.  Turns of one conversation share its context, *)
(* so what a run was waiting for outlives the run.                         *)
(***************************************************************************)
EXTENDS Naturals, Sequences, SequencesExt

CONSTANTS
  Msgs,          \* messages the user may inject, each once
  Says,          \* what they may say
  MaxTurns,      \* MAX_TURNS
  MaxCalls,      \* bound: tool calls in one turn
  MaxTicks,      \* PARK_MAX_TICKS
  MaxFollowUps,  \* bound: further runs of the conversation
  MaxFaults      \* bound: mailbox statements that fail

\* Steering, the decisions on test cases and on boundary events, and a decision on
\* boundary events whose JSON does not parse.
Kinds == {"steer", "run_cases", "redo_cases", "classify", "scrambled"}

ASSUME LoopAssumption ==
  /\ Says \subseteq Kinds
  /\ {MaxTurns, MaxCalls, MaxTicks, MaxFollowUps, MaxFaults} \subseteq Nat

VARIABLES
  at,        \* where the conductor stands
  gate,      \* the gate it drains the mailbox for, "none" at a turn boundary
  turn, calls, ticks,
  waiting,   \* gates whose awaiting flag is set in ctx
  cases,     \* ctx.testCases is set
  approved,  \* the gate's last decision on these cases was to run them
  expired,   \* a park of the test-case gate has timed out
  deployed,  \* for each sandbox deployment that went out: were its cases approved
  aborted,   \* the abort signal of this run
  db, mem,   \* the mailbox: unconsumed rows, and the in-process fallback
  picked,    \* rows selected by the drain under way
  kind,      \* kind[m]: what message m says, "unsent" before
  heard,     \* heard[m]: what the conductor took message m for
  followUps, faults

vars == <<at, gate, turn, calls, ticks, waiting, cases, approved, expired,
          deployed, aborted, db, mem, picked, kind, heard, followUps, faults>>
loop == <<turn, calls, cases, deployed, aborted, followUps>>
ctx  == <<waiting, cases, approved, expired, deployed>>
box  == <<db, mem, picked, heard>>

Gates     == {"test", "boundary", "ask"}
Decisions == [test |-> {"run_cases", "redo_cases"}, boundary |-> {"classify"}, ask |-> {}]
Roles     == {"directive", "decision", "answer", "ignored"}

Fault == faults < MaxFaults /\ faults' = faults + 1

-----------------------------------------------------------------------------
(* The mailbox *)

\* POST inject: the row is inserted, or the fallback takes the message because
\* the insert failed (perhaps after it was committed).  Nothing asks whether
\* the run is still there.
Inject(m) ==
  /\ kind[m] = "unsent"
  /\ \E k \in Says : kind' = [kind EXCEPT ![m] = k]
  /\ \/ db' = Append(db, m) /\ UNCHANGED <<mem, faults>>
     \/ Fault /\ mem' = Append(mem, m) /\ (UNCHANGED db \/ db' = Append(db, m))
  /\ UNCHANGED <<at, gate, ticks, approved, expired, waiting, picked, heard>>
  /\ UNCHANGED loop

-----------------------------------------------------------------------------
(* The gates *)

NextGate_OnlyTest(W) == IF "test" \in W THEN "test" ELSE "none"

\* The gates are looked at in this order; "none" is the turn boundary.
NextGate(W) == IF "test" \in W THEN "test"
               ELSE IF "boundary" \in W THEN "boundary"
               ELSE IF "ask" \in W THEN "ask" ELSE "none"

\* What the gate at hand takes the i-th drained message for.
Role(texts, i) ==
  CASE gate = "ask"  -> IF i = 1 THEN "answer" ELSE "ignored"
    [] gate = "boundary" /\ kind[texts[i]] = "scrambled" -> "ignored"
    [] gate # "none" /\ kind[texts[i]] \in Decisions[gate] -> "decision"
    [] OTHER -> "directive"

Indices(texts, role) == {i \in 1 .. Len(texts) : Role(texts, i) = role}

Expired == ticks >= MaxTicks

Approves_AnyDecision(texts) == TRUE

\* At the test-case gate the last decision counts, and a time-out approves.
Approves(texts) ==
  LET decisions == Indices(texts, "decision")
  IN \/ decisions = {}
     \/ \E i \in decisions : /\ \A j \in decisions : j <= i
                             /\ kind[texts[i]] = "run_cases"

Poll_UncountedAtAsk ==
  /\ at' = "top"
  /\ ticks' = IF gate = "ask" THEN ticks ELSE ticks + 1
  /\ UNCHANGED <<gate, waiting, approved, expired>>

\* No decision yet: the gate will be polled again after a pause.
Poll ==
  /\ at' = "top"
  /\ ticks' = ticks + 1
  /\ UNCHANGED <<gate, waiting, approved, expired>>

\* The conductor deals with what it drained: all of it at a turn boundary; at a
\* gate it goes on to the next one, or polls again.
Deal(texts) ==
  LET settled == Indices(texts, "decision") \cup Indices(texts, "answer") # {}
      others  == waiting \ {gate}
  IN /\ heard' = [m \in Msgs |->
                    heard[m] \cup {Role(texts, i) : i \in {j \in 1 .. Len(texts) : texts[j] = m}}]
     /\ \/ /\ gate = "none"
           /\ at' = "model"
           /\ UNCHANGED <<gate, ticks, waiting, approved, expired>>
        \/ /\ gate # "none"
           /\ settled \/ Expired
           /\ waiting' = others
           /\ gate' = NextGate(others)
           /\ at' = "select"
           /\ ticks' = 0
           /\ approved' = IF gate = "test" THEN Approves(texts) ELSE approved
           /\ expired' = (expired \/ (gate = "test" /\ ~settled))
        \/ /\ gate # "none"
           /\ ~settled /\ ~Expired
           /\ Poll

\* drainHumanMsgs selects the unconsumed rows and then, in a statement of its
\* own, marks all unconsumed rows consumed.  If a statement fails, the drain
\* goes on with the in-process messages alone.
Select ==
  /\ at = "select"
  /\ \/ /\ db # <<>>
        /\ picked' = db
        /\ at' = "update"
        /\ UNCHANGED <<gate, ticks, waiting, approved, expired, db, mem, heard, faults>>
     \/ /\ (db = <<>> /\ UNCHANGED faults) \/ Fault
        /\ Deal(mem)
        /\ mem' = <<>>
        /\ UNCHANGED <<db, picked>>
  /\ UNCHANGED <<kind>> /\ UNCHANGED loop

Update_NotConsumed ==
  /\ at = "update"
  /\ picked' = <<>>
  /\ mem' = <<>>
  /\ \/ Deal(picked \o mem) /\ UNCHANGED <<db, faults>>
     \/ Fault /\ Deal(mem) /\ (UNCHANGED db \/ db' = <<>>)
  /\ UNCHANGED <<kind>> /\ UNCHANGED loop

Update ==
  /\ at = "update"
  /\ picked' = <<>>
  /\ mem' = <<>>
  /\ \/ db' = <<>> /\ Deal(picked \o mem) /\ UNCHANGED faults
     \/ Fault /\ Deal(mem) /\ (UNCHANGED db \/ db' = <<>>)
  /\ UNCHANGED <<kind>> /\ UNCHANGED loop

-----------------------------------------------------------------------------
(* The turn loop *)

Top_OneTurnTooMany ==
  /\ at = "top"
  /\ IF aborted \/ turn > MaxTurns
     THEN at' = "cleanup" /\ UNCHANGED gate
     ELSE at' = "select" /\ gate' = NextGate(waiting)
  /\ UNCHANGED <<ticks, waiting, approved, expired, kind, faults>>
  /\ UNCHANGED loop /\ UNCHANGED box

\* The head of the loop.  A park does not use up a turn.
Top ==
  /\ at = "top"
  /\ IF aborted \/ turn >= MaxTurns
     THEN at' = "cleanup" /\ UNCHANGED gate
     ELSE at' = "select" /\ gate' = NextGate(waiting)
  /\ UNCHANGED <<ticks, waiting, approved, expired, kind, faults>>
  /\ UNCHANGED loop /\ UNCHANGED box

\* The model streams a turn: tool calls, talk (after which the loop ends or the
\* brain is nudged to go on), or an exception.  An aborted call throws.
Model ==
  /\ at = "model"
  /\ \/ at' = "tools" /\ UNCHANGED turn
     \/ at' = "top" /\ turn' = turn + 1
     \/ at' = "cleanup" /\ UNCHANGED turn
  /\ UNCHANGED <<gate, calls, ticks, aborted, kind, followUps, faults>>
  /\ UNCHANGED ctx /\ UNCHANGED box

\* generate_test_cases, and sandbox_run while there are no test cases: propose
\* cases and park.
Propose ==
  /\ cases' = TRUE
  /\ waiting' = waiting \cup {"test"}
  /\ approved' = FALSE
  /\ UNCHANGED deployed

\* sandbox_run.  A call that is refused (no agents yet, the budget of runs used
\* up) or whose deployment fails changes nothing here, like a call of any other
\* tool, and is left out.
Sandbox ==
  IF ~cases /\ "test" \notin waiting THEN Propose
  ELSE deployed' = deployed \cup {approved} /\ UNCHANGED <<cases, waiting, approved>>

\* One tool call of the turn; each is awaited.
Tool ==
  /\ at = "tools"
  /\ calls < MaxCalls
  /\ calls' = calls + 1
  /\ \/ Propose
     \/ Sandbox
     \/ \E g \in {"boundary", "ask"} :
          waiting' = waiting \cup {g} /\ UNCHANGED <<cases, approved, deployed>>
  /\ UNCHANGED <<at, gate, turn, ticks, expired, aborted, kind, followUps, faults>>
  /\ UNCHANGED box

\* The turn is over; a finish call that was let through ends the loop.
EndTurn ==
  /\ at = "tools"
  /\ calls' = 0
  /\ \/ at' = "top" /\ turn' = turn + 1
     \/ at' = "cleanup" /\ UNCHANGED turn
  /\ UNCHANGED <<gate, ticks, aborted, kind, followUps, faults>>
  /\ UNCHANGED ctx /\ UNCHANGED box

\* disposeMailbox, and the conversation saved with the context as it stands.
Cleanup ==
  /\ at = "cleanup"
  /\ at' = "over"
  /\ mem' = <<>>
  /\ \/ db' = <<>> /\ UNCHANGED faults
     \/ Fault /\ UNCHANGED db
  /\ UNCHANGED <<gate, ticks, waiting, approved, expired, picked, kind, heard>>
  /\ UNCHANGED loop

Abort ==
  /\ at # "over"
  /\ ~aborted
  /\ aborted' = TRUE
  /\ UNCHANGED <<at, gate, turn, calls, ticks, kind, followUps, faults>>
  /\ UNCHANGED ctx /\ UNCHANGED box

\* The user continues the conversation: a new run with a mailbox of its own and
\* the saved context.
FollowUp ==
  /\ at = "over"
  /\ followUps < MaxFollowUps
  /\ followUps' = followUps + 1
  /\ at' = "top"
  /\ turn' = 0 /\ ticks' = 0 /\ aborted' = FALSE
  /\ db' = <<>> /\ mem' = <<>>
  /\ UNCHANGED <<gate, calls, picked, kind, heard, faults>> /\ UNCHANGED ctx

Init ==
  /\ at = "top"
  /\ gate = "none"
  /\ turn = 0 /\ calls = 0 /\ ticks = 0
  /\ waiting = {}
  /\ cases = FALSE /\ approved = FALSE /\ expired = FALSE
  /\ deployed = {}
  /\ aborted = FALSE
  /\ db = <<>> /\ mem = <<>> /\ picked = <<>>
  /\ kind = [m \in Msgs |-> "unsent"]
  /\ heard = [m \in Msgs |-> {}]
  /\ followUps = 0
  /\ faults = 0

Conduct == Top \/ Select \/ Update \/ Model \/ Tool \/ EndTurn \/ Cleanup

Next == (\E m \in Msgs : Inject(m)) \/ Conduct \/ Abort \/ FollowUp

Spec == Init /\ [][Next]_vars

\* Model calls, tools and database statements return.
LiveSpec == Spec /\ WF_vars(Conduct)

-----------------------------------------------------------------------------
(* Properties *)

\* Types of the variables.
TypeOK ==
  /\ at \in {"top", "select", "update", "model", "tools", "cleanup", "over"}
  /\ gate \in Gates \cup {"none"}
  /\ turn \in 0 .. MaxTurns
  /\ calls \in 0 .. MaxCalls
  /\ ticks \in 0 .. MaxTicks
  /\ waiting \subseteq Gates
  /\ {cases, approved, expired, aborted} \subseteq BOOLEAN
  /\ deployed \subseteq BOOLEAN
  /\ db \in Seq(Msgs) /\ mem \in Seq(Msgs) /\ picked \in Seq(Msgs)
  /\ kind \in [Msgs -> Kinds \cup {"unsent"}]
  /\ heard \in [Msgs -> SUBSET Roles]
  /\ followUps \in 0 .. MaxFollowUps
  /\ faults \in 0 .. MaxFaults

\* The model is never asked for a turn while a question to the user is open,
\* however many questions one turn of tools, or an earlier run, has left.
NoTurnWhileAsking == at = "model" => waiting = {}

\* Test cases count as approved only by the user's own decision to run them, or
\* by the time-out; no steering message or answer to another question does it.
OnlyTheUserApproves ==
  approved => expired \/ \E m \in Msgs : kind[m] = "run_cases" /\ "decision" \in heard[m]

\* A message the conductor has acted on is out of the mailbox, unless one of
\* the statements failed: it is not acted on again.
ActedOnOnce ==
  faults = 0 => \A m \in Msgs : heard[m] # {} => ~Contains(db \o mem \o picked, m)

\* A run never hangs: with nobody answering, a park ends by its time-out, and
\* parks do not stretch the turn limit for ever.
RunEnds == at # "over" ~> at = "over"

\* mailbox.ts:41: a drain takes all queued messages: one that left the mailbox
\* while the run was on, with every statement succeeding, was taken.
DrainTakesAll ==
  at # "over" /\ faults = 0 /\ followUps = 0 =>
    \A m \in Msgs : kind[m] # "unsent" /\ ~Contains(db \o mem, m) => heard[m] # {}

\* tools/index.ts:899-903: a sandbox deployment goes out only once the test
\* cases it fires have been approved.
DeploysAreApproved == FALSE \notin deployed
=============================================================================
