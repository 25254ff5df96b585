------------------------------- MODULE HumanGate -------------------------------
(***************************************************************************)
(* One case of the ontology agent chain (server/inngest/domains/energy):   *)
(* the agents' common handler (make-agent.ts) with its claim, its human    *)
(* gate and its emissions, the in-process claims (run-state.ts), and the   *)
(* operators' decisions (human-decision.ts), which resolve the gate's card *)
(* and wake the chain.  The cards are rows of AlertRows.                   *)
(*                                                                         *)
(* The case starts with its forecast.  Agents that pass events straight    *)
(* along are one agent here: "suggest" stands for generateSuggestion to    *)
(* triageScheme, "archive" for postToEMS to archiveCase.  The branch       *)
(* agents (risk, revision, market) are off, as they are by default, and    *)
(* interpretData, re-entered by a review like generateSuggestion, is left  *)
(* out.                                                                    *)
(***************************************************************************)
EXTENDS AlertRows, Sequences

CONSTANTS
  Deciders,   \* decision requests that may be under way at a time
  MaxDepth,   \* MAX_CHAIN_DEPTH
  MaxLosses,  \* bound: how often the claims are lost
  MaxFaults   \* bound: statements and sends that fail

VARIABLES
  status,   \* WorkflowRun.status of the case
  claimed,  \* agents that hold the claim of this case
  losses,   \* how often the claims have been lost while the case was on
  runs,     \* the function runs on their way, each named by the agents that led to it
  decision, \* decision[d]: the decision request d is working on
  touched,  \* gates whose latest card somebody has been working on
  faults

caseVars == <<claimed, losses, runs>>
vars == <<status, firing, resolved, claimed, losses, runs, decision,
          touched, faults>>

Agents   == {"suggest", "manualConfirm", "finalizePlan", "archive"}
Gates    == {"manualConfirm", "finalizePlan"}
Verdicts == {"adopt", "redo"}
Stages   == {"queued", "ready", "notify", "suspend", "register", "wait",
             "woken", "releaseSuggest", "releaseConfirm", "emit",
             "delete", "flip", "fail"}

ASSUME GateAssumption ==
  /\ {MaxDepth, MaxLosses, MaxFaults} \subseteq Nat
  /\ AlertKeys = Gates

Agent(p) == p[Len(p)]
At(p, stage) == p \in DOMAIN runs /\ runs[p].at = stage
WaitsAt(g) == {p \in DOMAIN runs : Agent(p) = g /\ runs[p].at = "wait"}

Fault == faults < MaxFaults /\ faults' = faults + 1

-----------------------------------------------------------------------------
(* The event graph *)

\* The event a run emits, given the decision at its gate ("none": it had none).
Emitted(a, say) ==
  CASE a = "suggest"       -> "ROUTING_DECIDED"
    [] a = "manualConfirm" -> IF say = "redo" THEN "FORECAST_COMPLETED"
                                              ELSE "MANUAL_REVIEW_DECIDED"
    [] OTHER               -> IF say = "redo" THEN "FORECAST_COMPLETED"
                                              ELSE "PLAN_FINALIZED"

Consumers == [FORECAST_COMPLETED    |-> {"suggest"},
              ROUTING_DECIDED       |-> {"manualConfirm"},
              MANUAL_REVIEW_DECIDED |-> {"suggest", "finalizePlan"},
              PLAN_FINALIZED        |-> {"archive"}]

Started_NoDepthCap(p) ==
  {Append(p, a) : a \in Consumers[Emitted(Agent(p), runs[p].say)]}

\* The runs that p's event starts.  A run beyond the depth cap ends at once.
Started(p) ==
  IF Len(p) > MaxDepth THEN {}
  ELSE {Append(p, a) : a \in Consumers[Emitted(Agent(p), runs[p].say)]}

-----------------------------------------------------------------------------
(* The handler *)

Goto(p, stage) == runs' = [runs EXCEPT ![p].at = stage]

Finish(p) == runs' = [q \in DOMAIN runs \ {p} |-> runs[q]]

EmitAndFinish(p) ==
  runs' = [q \in (DOMAIN runs \ {p}) \cup Started(p) |->
             IF q \in DOMAIN runs THEN runs[q] ELSE [at |-> "queued", say |-> "none"]]

\* step.sendEvent; handlers are not retried, so a failing send ends the run
\* without its event.
Send(p) ==
  \/ EmitAndFinish(p) /\ UNCHANGED faults
  \/ Fault /\ Finish(p)

Claim_Unchecked(p) ==
  /\ At(p, "queued")
  /\ claimed' = claimed \cup {Agent(p)}
  /\ Goto(p, "ready") \/ Finish(p)
  /\ UNCHANGED <<status, firing, resolved, losses, decision, touched, faults>>

\* claimOnce, then isAgentActive: an agent that is not deployed keeps the claim.
Claim(p) ==
  /\ At(p, "queued")
  /\ \/ /\ Agent(p) \in claimed
        /\ Finish(p)
        /\ UNCHANGED claimed
     \/ /\ Agent(p) \notin claimed
        /\ claimed' = claimed \cup {Agent(p)}
        /\ Goto(p, "ready") \/ Finish(p)
  /\ UNCHANGED <<status, firing, resolved, losses, decision, touched, faults>>

\* The agent's behaviour: an ordinary agent emits; a gate agent emits, skips
\* (risk first) or asks for its gate.
Compute(p) ==
  /\ At(p, "ready")
  /\ Agent(p) # "archive"
  /\ \/ Send(p)
     \/ Agent(p) = "manualConfirm" /\ Finish(p) /\ UNCHANGED faults
     \/ Agent(p) \in Gates /\ Goto(p, "notify") /\ UNCHANGED faults
  /\ UNCHANGED <<status, firing, resolved, claimed, losses, decision, touched>>

\* setRunStatus, whose failure is swallowed.
SetStatus(s) ==
  \/ status' = s /\ UNCHANGED faults
  \/ Fault /\ UNCHANGED status

\* archiveCase is the terminal action.
Complete(p) ==
  /\ At(p, "ready")
  /\ Agent(p) = "archive"
  /\ SetStatus("completed")
  /\ Finish(p)
  /\ UNCHANGED <<firing, resolved, claimed, losses, decision, touched>>

\* Somebody is at work on the cards of gate g.
Resolving(g) ==
  \/ \E d \in Deciders : decision[d].at \in {"delete", "flip"} /\ decision[d].gate = g
  \/ \E p \in DOMAIN runs : Agent(p) = g /\ runs[p].at \in {"delete", "flip"}

\* notify-gate: the card; a failing write is swallowed.
Notify(p) ==
  /\ At(p, "notify")
  /\ Goto(p, "suspend")
  /\ \/ Record(Agent(p)) /\ UNCHANGED faults
     \/ Fault /\ UNCHANGED alerts
  /\ touched' = IF Resolving(Agent(p)) THEN touched \cup {Agent(p)}
                                       ELSE touched \ {Agent(p)}
  /\ UNCHANGED <<status, claimed, losses, decision>>

\* mark-suspended
Suspend(p) ==
  /\ At(p, "suspend")
  /\ SetStatus("suspended")
  /\ Goto(p, "register")
  /\ UNCHANGED <<firing, resolved, claimed, losses, decision, touched>>

\* waitForEvent is registered: only decisions sent from now on wake the run.
Register(p) ==
  /\ At(p, "register")
  /\ Goto(p, "wait")
  /\ UNCHANGED <<status, firing, resolved, claimed, losses, decision, touched, faults>>

\* mark-running, and the route of the decision.
Resume(p) ==
  /\ At(p, "woken")
  /\ SetStatus("running")
  /\ Goto(p, IF runs[p].say = "redo" THEN "releaseSuggest" ELSE "emit")
  /\ UNCHANGED <<firing, resolved, claimed, losses, decision, touched>>

\* REGEN_CLAIMS are released one step at a time; finalizePlan is not among them.
Release(p) ==
  /\ \/ /\ At(p, "releaseSuggest")
        /\ claimed' = claimed \ {"suggest"}
        /\ Goto(p, "releaseConfirm")
     \/ /\ At(p, "releaseConfirm")
        /\ claimed' = claimed \ {"manualConfirm"}
        /\ Goto(p, "emit")
  /\ UNCHANGED <<status, firing, resolved, losses, decision, touched, faults>>

Emit(p) ==
  /\ At(p, "emit")
  /\ Send(p)
  /\ UNCHANGED <<status, firing, resolved, claimed, losses, decision, touched>>

Expire_Never(p) == FALSE /\ UNCHANGED vars

\* Thirty days without a decision.
Expire(p) ==
  /\ At(p, "wait")
  /\ Goto(p, "delete")
  /\ touched' = touched \cup {Agent(p)}
  /\ UNCHANGED <<status, firing, resolved, claimed, losses, decision, faults>>

CleanUp_LogOnly(p) ==
  /\ At(p, "delete")
  /\ Finish(p)
  /\ UNCHANGED <<status, firing, resolved, claimed, losses, decision, touched, faults>>

\* gate-timeout-cleanup: the card is resolved by two statements, a failure of
\* which is swallowed, and the run fails.
CleanUp(p) ==
  /\ \/ /\ At(p, "delete")
        /\ \/ DeleteResolved(Agent(p)) /\ Goto(p, "flip") /\ UNCHANGED faults
           \/ Fault /\ Goto(p, "fail") /\ UNCHANGED alerts
        /\ UNCHANGED status
     \/ /\ At(p, "flip")
        /\ Goto(p, "fail")
        /\ \/ FlipFiring(Agent(p)) /\ UNCHANGED faults
           \/ Fault /\ UNCHANGED alerts
        /\ UNCHANGED status
     \/ /\ At(p, "fail")
        /\ SetStatus("failed")
        /\ Finish(p)
        /\ UNCHANGED alerts
  /\ UNCHANGED <<claimed, losses, decision, touched>>

\* The claims are kept in the process: a restart loses them, the seed of
\* another case clears them, and so does one claim too many.
Forget ==
  /\ claimed # {}
  /\ losses < MaxLosses
  /\ claimed' = {}
  /\ losses' = losses + 1
  /\ UNCHANGED <<status, firing, resolved, runs, decision, touched, faults>>

-----------------------------------------------------------------------------
(* The operators' decisions *)

NoDecision == [at |-> "idle", gate |-> "none"]

\* A decision is submitted on a card; nothing asks whether it is still firing.
\* What it says is chosen where it is first used, in SendDecision.
Decide(d) ==
  /\ decision[d] = NoDecision
  /\ \E g \in firing \cup resolved :
       /\ decision' = [decision EXCEPT ![d] = [at |-> "delete", gate |-> g]]
       /\ touched' = touched \cup {g}
  /\ UNCHANGED <<status, firing, resolved, faults>> /\ UNCHANGED caseVars

Step(d, stage) == decision' = [decision EXCEPT ![d].at = stage]

\* resolveHumanDecision, the cards: two statements, a failure ends neither the
\* request nor the resume.
ResolveCards(d) ==
  /\ \/ /\ decision[d].at = "delete"
        /\ \/ DeleteResolved(decision[d].gate) /\ Step(d, "flip") /\ UNCHANGED faults
           \/ Fault /\ Step(d, "send") /\ UNCHANGED alerts
     \/ /\ decision[d].at = "flip"
        /\ Step(d, "send")
        /\ \/ FlipFiring(decision[d].gate) /\ UNCHANGED faults
           \/ Fault /\ UNCHANGED alerts
  /\ UNCHANGED <<status, touched>> /\ UNCHANGED caseVars

\* The decision event wakes every run that waits at the gate, if there is one.
SendDecision(d) ==
  /\ decision[d].at = "send"
  /\ decision' = [decision EXCEPT ![d] = NoDecision]
  /\ \/ /\ \E say \in Verdicts :
             runs' = [p \in DOMAIN runs |->
                        IF p \in WaitsAt(decision[d].gate)
                        THEN [at |-> "woken", say |-> say] ELSE runs[p]]
        /\ UNCHANGED faults
     \/ Fault /\ UNCHANGED runs
  /\ UNCHANGED <<status, firing, resolved, touched, claimed, losses>>

-----------------------------------------------------------------------------

Init ==
  /\ AlertsInit
  /\ status = "running"
  /\ claimed = {}
  /\ losses = 0
  /\ runs = [p \in {<<"suggest">>} |-> [at |-> "queued", say |-> "none"]]
  /\ decision = [d \in Deciders |-> NoDecision]
  /\ touched = {}
  /\ faults = 0

Handle(p) ==
  \/ Claim(p) \/ Compute(p) \/ Complete(p) \/ Notify(p) \/ Suspend(p) \/ Register(p)
  \/ Resume(p) \/ Release(p) \/ Emit(p) \/ Expire(p) \/ CleanUp(p)

Handlers == \E p \in DOMAIN runs : Handle(p)

DecisionStep(d) == ResolveCards(d) \/ SendDecision(d)

Next ==
  \/ Handlers
  \/ \E d \in Deciders : Decide(d) \/ DecisionStep(d)
  \/ Forget

Spec == Init /\ [][Next]_vars

\* Inngest runs every step of a run sooner or later, and a wait for 30 days ends.
LiveSpec == Spec /\ WF_vars(Handlers)

-----------------------------------------------------------------------------
(* Properties *)

\* Types of the variables, and the depth cap.
TypeOK ==
  /\ AlertTypes
  /\ status \in {"running", "suspended", "completed", "failed"}
  /\ claimed \subseteq Agents
  /\ losses \in 0 .. MaxLosses
  /\ \A p \in DOMAIN runs :
       /\ p \in Seq(Agents) /\ Len(p) \in 1 .. MaxDepth + 1
       /\ runs[p] \in [at : Stages, say : Verdicts \cup {"none"}]
  /\ decision \in [Deciders -> [at : {"idle", "delete", "flip", "send"},
                                gate : Gates \cup {"none"}]]
  /\ touched \subseteq Gates
  /\ faults \in 0 .. MaxFaults

\* As long as the process keeps its claims, one decision never answers two
\* openings of a gate: at most one run waits there, however often the operators
\* send the case back and whatever re-entry events do.
OneWaiterPerGate ==
  losses = 0 => \A g \in Gates : \A p, q \in WaitsAt(g) : p = q

\* A run shown as suspended has a run of the chain behind it that will take it
\* out of suspension again; no time-out, decision or second opening leaves it
\* behind, unless a statement failed.
SuspendedHasWaiter ==
  status = "suspended" /\ faults = 0 =>
    \E p \in DOMAIN runs : runs[p].at \in {"register", "wait", "woken", "delete", "flip", "fail"}

\* A run that waits for a human has its card in front of the operators until one
\* of them, or a time-out, has dealt with it: re-opening a gate whose earlier card
\* was resolved does not lose the new one.
CardWhileUndecided ==
  faults = 0 => \A g \in Gates : WaitsAt(g) # {} /\ g \notin touched => g \in firing

\* The chain comes to its end, by the depth cap and the time-outs, whatever the
\* operators decide and however often the claims are lost.
ChainEnds == <>(runs = <<>>)
=============================================================================
