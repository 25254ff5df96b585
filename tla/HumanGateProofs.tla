---------------------------- MODULE HumanGateProofs ----------------------------
(***************************************************************************)
(* Theorems about HumanGate, for any number of decision requests, any      *)
(* depth cap, and any number of lost claims and failing statements.        *)
(***************************************************************************)
EXTENDS HumanGate, TLAPS

RunStates == [at : Stages, say : Verdicts \cup {"none"}]

-----------------------------------------------------------------------------
(* The inductive invariant *)

\* Only gate agents get past "ready"; claims are released for a "redo" only.
RunInv ==
  \A p \in DOMAIN runs :
    /\ p \in Seq(Agents) /\ Len(p) \in 1 .. MaxDepth + 1
    /\ runs[p] \in RunStates
    /\ runs[p].at \notin {"queued", "ready"} => Agent(p) \in Gates
    /\ runs[p].at \in {"releaseSuggest", "releaseConfirm"} => runs[p].say = "redo"

StateTypes ==
  /\ AlertTypes
  /\ status \in {"running", "suspended", "completed", "failed"}
  /\ claimed \subseteq Agents
  /\ losses \in 0 .. MaxLosses
  /\ decision \in [Deciders -> [at : {"idle", "delete", "flip", "send"},
                                gate : Gates \cup {"none"}]]
  /\ touched \subseteq Gates
  /\ faults \in 0 .. MaxFaults

\* A run that has claimed its agent and has not released manualConfirm's claim.
Busy(p) == runs[p].at # "queued" /\ ~(runs[p].at = "emit" /\ runs[p].say = "redo")

\* A run of finalizePlan that may still come to release manualConfirm's claim.
Open(p) == Busy(p) \/ (runs[p].at = "queued" /\ "finalizePlan" \notin claimed)

\* Who may be at work at a gate: one run, which holds the claim, and no run of
\* manualConfirm while one of finalizePlan can still release its claim.
ClaimInv ==
  losses = 0 =>
    /\ \A p, q \in DOMAIN runs :
         Agent(p) \in Gates /\ Agent(q) = Agent(p) /\ Busy(p) /\ Busy(q) => p = q
    /\ \A p \in DOMAIN runs : Agent(p) \in Gates /\ Busy(p) => Agent(p) \in claimed
    /\ \A p \in DOMAIN runs :
         Agent(p) = "finalizePlan" /\ Open(p) =>
           /\ "manualConfirm" \in claimed
           /\ \A q \in DOMAIN runs : Agent(q) = "manualConfirm" => ~Busy(q)

\* Whoever works on a card has touched it, and an untouched card stays.
CardInv ==
  /\ \A d \in Deciders : decision[d].at \in {"delete", "flip"} => decision[d].gate \in touched
  /\ \A p \in DOMAIN runs : runs[p].at \in {"delete", "flip"} => Agent(p) \in touched
  /\ faults = 0 =>
       \A p \in DOMAIN runs :
         runs[p].at \in {"suspend", "register", "wait"} /\ Agent(p) \notin touched =>
           Agent(p) \in firing

Inv == RunInv /\ StateTypes /\ ClaimInv /\ CardInv /\ SuspendedHasWaiter

LEMMA InitInv == Init => Inv
<1> SUFFICES ASSUME Init PROVE Inv
  OBVIOUS
<1>1. /\ DOMAIN runs = {<<"suggest">>}
      /\ \A p \in DOMAIN runs : runs[p] = [at |-> "queued", say |-> "none"]
  BY DEF Init
<1>2. /\ <<"suggest">> \in Seq(Agents) /\ Len(<<"suggest">>) = 1
      /\ Agent(<<"suggest">>) = "suggest"
  BY DEF Agents, Agent
<1>3. RunInv
  <2>1. 1 \in 1 .. MaxDepth + 1
    BY GateAssumption
  <2>2. [at |-> "queued", say |-> "none"] \in RunStates
    BY DEF RunStates, Stages
  <2>3. SUFFICES ASSUME NEW p \in DOMAIN runs
                 PROVE  /\ p \in Seq(Agents) /\ Len(p) \in 1 .. MaxDepth + 1
                        /\ runs[p] \in RunStates /\ runs[p].at = "queued"
    BY DEF RunInv
  <2>4. p = <<"suggest">> /\ runs[p] = [at |-> "queued", say |-> "none"]
    BY <1>1
  <2>5. QED BY <1>2, <2>1, <2>2, <2>4
<1>4. StateTypes
  <2>1. NoDecision \in [at : {"idle", "delete", "flip", "send"}, gate : Gates \cup {"none"}]
    BY DEF NoDecision
  <2>2. QED BY <2>1, GateAssumption DEF Init, AlertsInit, StateTypes, AlertTypes
<1>5. ClaimInv /\ CardInv /\ SuspendedHasWaiter
  BY <1>1, <1>2 DEF Init, ClaimInv, CardInv, SuspendedHasWaiter, Gates, NoDecision
<1>6. QED BY <1>3, <1>4, <1>5 DEF Inv

-----------------------------------------------------------------------------
(* What a step does to the runs *)

LEMMA GotoEffect ==
  ASSUME RunInv, NEW p \in DOMAIN runs, NEW s \in Stages, Goto(p, s)
  PROVE  /\ DOMAIN runs' = DOMAIN runs
         /\ runs'[p].at = s /\ runs'[p].say = runs[p].say /\ runs'[p] \in RunStates
         /\ \A q \in DOMAIN runs : q # p => runs'[q] = runs[q]
<1>1. runs[p] \in RunStates
  BY DEF RunInv
<1>2. runs' = [runs EXCEPT ![p] = [runs[p] EXCEPT !.at = s]]
  BY DEF Goto
<1>3. [runs[p] EXCEPT !.at = s] = [at |-> s, say |-> runs[p].say]
  BY <1>1 DEF RunStates
<1>4. QED BY <1>1, <1>2, <1>3 DEF RunStates

LEMMA StartedEffect ==
  ASSUME RunInv, NEW p \in DOMAIN runs, NEW q \in Started(p)
  PROVE  /\ q \in Seq(Agents) /\ Len(q) \in 1 .. MaxDepth + 1 /\ q # p
         /\ Agent(q) = "finalizePlan" =>
              Agent(p) = "manualConfirm" /\ runs[p].say # "redo"
<1>1. p \in Seq(Agents) /\ Len(p) \in 1 .. MaxDepth + 1 /\ MaxDepth \in Nat /\ ~(Len(p) > MaxDepth)
  BY GateAssumption DEF RunInv, Started
<1>2. PICK a \in Consumers[Emitted(Agent(p), runs[p].say)] : q = Append(p, a)
  BY <1>1 DEF Started
<1>3. Agent(p) \in Agents
  BY <1>1 DEF Agent
<1>4. a \in Agents /\ (a = "finalizePlan" => Agent(p) = "manualConfirm" /\ runs[p].say # "redo")
  BY <1>2, <1>3 DEF Emitted, Consumers, Agents
<1>5. q \in Seq(Agents) /\ Len(q) = Len(p) + 1 /\ q[Len(p) + 1] = a
  BY <1>1, <1>2, <1>4
<1>6. QED BY <1>1, <1>4, <1>5 DEF Agent

LEMMA EmitEffect ==
  ASSUME RunInv, NEW p \in DOMAIN runs, EmitAndFinish(p)
  PROVE  /\ p \notin DOMAIN runs'
         /\ DOMAIN runs' = (DOMAIN runs \ {p}) \cup Started(p)
         /\ \A q \in DOMAIN runs' :
              \/ q \in DOMAIN runs /\ q # p /\ runs'[q] = runs[q]
              \/ q \in Started(p) /\ runs'[q] = [at |-> "queued", say |-> "none"]
<1>1. p \notin Started(p)
  BY StartedEffect
<1>2. QED BY <1>1 DEF EmitAndFinish

LEMMA FinishEffect ==
  ASSUME NEW p \in DOMAIN runs, Finish(p)
  PROVE  /\ DOMAIN runs' = DOMAIN runs \ {p}
         /\ \A q \in DOMAIN runs' : q \in DOMAIN runs /\ q # p /\ runs'[q] = runs[q]
  BY DEF Finish

\* A run that has its claim goes on, without releasing manualConfirm's.
LEMMA Moves ==
  ASSUME RunInv, ClaimInv, NEW p \in DOMAIN runs, NEW s \in Stages \ {"queued", "ready"},
         Goto(p, s), runs[p].at \notin {"queued", "emit"}, Agent(p) \in Gates,
         s = "emit" => runs[p].say # "redo",
         s \in {"releaseSuggest", "releaseConfirm"} => runs[p].say = "redo",
         \A g \in Gates : g \in claimed' <=> g \in claimed, losses' = losses
  PROVE  RunInv' /\ ClaimInv'
<1>1. /\ DOMAIN runs' = DOMAIN runs
      /\ runs'[p].at = s /\ runs'[p].say = runs[p].say /\ runs'[p] \in RunStates
      /\ \A q \in DOMAIN runs : q # p => runs'[q] = runs[q]
  BY GotoEffect
<1>2. RunInv'
  BY <1>1 DEF RunInv, Agent
<1>3. \A q \in DOMAIN runs : Busy(q)' <=> Busy(q)
  BY <1>1 DEF Busy
<1>4. \A q \in DOMAIN runs : Open(q)' => Open(q)
  BY <1>1, <1>3 DEF Open, Gates
<1>5. ClaimInv'
  BY <1>1, <1>3, <1>4 DEF ClaimInv, Agent, Gates
<1>6. QED BY <1>2, <1>5

LEMMA Finishes ==
  ASSUME RunInv, ClaimInv, NEW p \in DOMAIN runs, Finish(p), claimed \subseteq claimed',
         losses' = losses
  PROVE  RunInv' /\ ClaimInv'
<1>1. /\ DOMAIN runs' = DOMAIN runs \ {p}
      /\ \A q \in DOMAIN runs' : q \in DOMAIN runs /\ q # p /\ runs'[q] = runs[q]
  BY FinishEffect
<1>2. RunInv'
  BY <1>1 DEF RunInv, Agent
<1>3. \A q \in DOMAIN runs' : (Busy(q)' <=> Busy(q)) /\ (Open(q)' => Open(q))
  BY <1>1 DEF Busy, Open
<1>4. ClaimInv'
  BY <1>1, <1>3 DEF ClaimInv, Agent
<1>5. QED BY <1>2, <1>4

LEMMA Emits ==
  ASSUME RunInv, ClaimInv, NEW p \in DOMAIN runs, EmitAndFinish(p),
         runs[p].at \in {"ready", "emit"}, UNCHANGED <<claimed, losses>>
  PROVE  RunInv' /\ ClaimInv'
<1>1. /\ \A q \in DOMAIN runs' :
           \/ q \in DOMAIN runs /\ q # p /\ runs'[q] = runs[q]
           \/ q \in Started(p) /\ runs'[q] = [at |-> "queued", say |-> "none"]
  BY EmitEffect
<1>2. [at |-> "queued", say |-> "none"] \in RunStates
  BY DEF RunStates, Stages
<1>3. RunInv'
  <2>1. SUFFICES ASSUME NEW q \in DOMAIN runs'
        PROVE /\ q \in Seq(Agents) /\ Len(q) \in 1 .. MaxDepth + 1
              /\ runs'[q] \in RunStates
              /\ runs'[q].at \notin {"queued", "ready"} => Agent(q) \in Gates
              /\ runs'[q].at \in {"releaseSuggest", "releaseConfirm"} => runs'[q].say = "redo"
    BY DEF RunInv, Agent
  <2>2. CASE q \in DOMAIN runs /\ q # p /\ runs'[q] = runs[q]
    BY <2>2 DEF RunInv
  <2>3. CASE q \in Started(p) /\ runs'[q] = [at |-> "queued", say |-> "none"]
    BY <2>3, <1>2, StartedEffect
  <2>4. QED BY <1>1, <2>2, <2>3
<1>4. \A q \in DOMAIN runs' :
        Busy(q)' => q \in DOMAIN runs /\ q # p /\ Busy(q)
  BY <1>1 DEF Busy
<1>5. SUFFICES ASSUME losses = 0 PROVE ClaimInv'
  BY <1>3 DEF ClaimInv
<1>6. \A q \in DOMAIN runs' : Agent(q) = "finalizePlan" /\ Open(q)' =>
        /\ "manualConfirm" \in claimed
        /\ \A r \in DOMAIN runs' : Agent(r) = "manualConfirm" => ~Busy(r)'
  <2>1. SUFFICES ASSUME NEW q \in DOMAIN runs', Agent(q) = "finalizePlan", Open(q)'
                 PROVE  /\ "manualConfirm" \in claimed
                        /\ \A r \in DOMAIN runs' : Agent(r) = "manualConfirm" => ~Busy(r)'
    OBVIOUS
  <2>2. CASE q \in DOMAIN runs /\ q # p /\ runs'[q] = runs[q]
    <3>1. Open(q)
      BY <2>1, <2>2 DEF Open, Busy
    <3>2. QED BY <1>4, <1>5, <2>1, <2>2, <3>1 DEF ClaimInv
  <2>3. CASE q \in Started(p)
    <3>1. Agent(p) = "manualConfirm" /\ Busy(p)
      BY <2>1, <2>3, StartedEffect DEF Busy
    <3>2. QED BY <1>4, <1>5, <3>1 DEF ClaimInv, Gates
  <2>4. QED BY <1>1, <2>2, <2>3
<1>7. ClaimInv'
  BY <1>4, <1>5, <1>6 DEF ClaimInv, Agent
<1>8. QED BY <1>3, <1>7

LEMMA Claims ==
  ASSUME RunInv, ClaimInv, NEW p \in DOMAIN runs, runs[p].at = "queued", Goto(p, "ready"),
         Agent(p) \notin claimed, claimed' = claimed \cup {Agent(p)}, losses' = losses
  PROVE  RunInv' /\ ClaimInv'
<1>1. /\ DOMAIN runs' = DOMAIN runs
      /\ runs'[p].at = "ready" /\ runs'[p] \in RunStates
      /\ \A q \in DOMAIN runs : q # p => runs'[q] = runs[q]
  BY GotoEffect DEF Stages
<1>2. RunInv'
  BY <1>1 DEF RunInv, Agent
<1>3. \A q \in DOMAIN runs : Busy(q)' => q = p \/ Busy(q)
  BY <1>1 DEF Busy
<1>4. \A q \in DOMAIN runs : Open(q)' /\ Agent(q) = "finalizePlan" => Open(q)
  BY <1>1 DEF Open, Busy
<1>5. ClaimInv'
  BY <1>1, <1>3, <1>4 DEF ClaimInv, Agent, Gates
<1>6. QED BY <1>2, <1>5

LEMMA Releases ==
  ASSUME RunInv, ClaimInv, NEW p \in DOMAIN runs, runs[p].at = "releaseConfirm", Goto(p, "emit"),
         claimed' = claimed \ {"manualConfirm"}, losses' = losses
  PROVE  RunInv' /\ ClaimInv'
<1>1. /\ DOMAIN runs' = DOMAIN runs
      /\ runs'[p].at = "emit" /\ runs'[p].say = "redo" /\ runs'[p] \in RunStates
      /\ \A q \in DOMAIN runs : q # p => runs'[q] = runs[q]
      /\ Agent(p) \in Gates /\ Busy(p)
  BY GotoEffect DEF Stages, RunInv, Busy
<1>2. RunInv'
  BY <1>1 DEF RunInv, Agent
<1>3. \A q \in DOMAIN runs : Busy(q)' => q # p /\ Busy(q)
  BY <1>1 DEF Busy
<1>4. \A q \in DOMAIN runs : Open(q)' => q # p /\ Open(q)
  BY <1>1, <1>3 DEF Open
<1>5. SUFFICES ASSUME losses = 0 PROVE ClaimInv'
  BY <1>2 DEF ClaimInv
<1>6. \A q \in DOMAIN runs : Agent(q) = "manualConfirm" => ~Busy(q)'
  <2>1. CASE Agent(p) = "manualConfirm"
    BY <1>1, <1>3, <1>5, <2>1 DEF ClaimInv
  <2>2. CASE Agent(p) = "finalizePlan"
    BY <1>1, <1>3, <1>5, <2>2 DEF ClaimInv, Open
  <2>3. QED BY <1>1, <2>1, <2>2 DEF Gates
<1>7. \A q \in DOMAIN runs : Agent(q) = "finalizePlan" => ~Open(q)'
  <2>1. SUFFICES ASSUME NEW q \in DOMAIN runs, Agent(q) = "finalizePlan", q # p, Open(q)
                 PROVE  FALSE
    BY <1>4
  <2>2. CASE Agent(p) = "manualConfirm"
    BY <1>1, <1>5, <2>1, <2>2 DEF ClaimInv
  <2>3. CASE Agent(p) = "finalizePlan"
    BY <1>1, <1>5, <2>1, <2>3 DEF ClaimInv, Open, Gates
  <2>4. QED BY <1>1, <2>2, <2>3 DEF Gates
<1>8. ClaimInv'
  BY <1>1, <1>3, <1>5, <1>6, <1>7 DEF ClaimInv, Agent, Gates
<1>9. QED BY <1>2, <1>8

-----------------------------------------------------------------------------
(* The steps *)

LEMMA ClaimStep ==
  ASSUME Inv, NEW p \in DOMAIN runs, Claim(p)
  PROVE  Inv'
<1>0. /\ RunInv /\ ClaimInv /\ StateTypes /\ CardInv /\ SuspendedHasWaiter
      /\ runs[p].at = "queued" /\ losses' = losses
      /\ UNCHANGED <<status, firing, resolved, losses, decision, touched, faults>>
  BY DEF Inv, Claim, At
<1>1. Agent(p) \in Agents
  BY <1>0 DEF RunInv, Agent
<1>2. RunInv' /\ ClaimInv' /\ claimed' \subseteq Agents
  <2>1. CASE Finish(p) /\ claimed' \in {claimed, claimed \cup {Agent(p)}}
    BY <1>0, <1>1, <2>1, Finishes DEF StateTypes
  <2>2. CASE Goto(p, "ready") /\ Agent(p) \notin claimed /\ claimed' = claimed \cup {Agent(p)}
    BY <1>0, <1>1, <2>2, Claims DEF StateTypes
  <2>3. QED BY <2>1, <2>2 DEF Claim
<1>3. StateTypes'
  BY <1>0, <1>2 DEF StateTypes, AlertTypes
<1>4. /\ \A q \in DOMAIN runs' : q \in DOMAIN runs
      /\ \A q \in DOMAIN runs' : runs'[q] = runs[q] \/ runs'[q].at = "ready"
      /\ \A q \in DOMAIN runs : runs[q].at # "queued" => q \in DOMAIN runs' /\ runs'[q] = runs[q]
  <2>1. CASE Finish(p)
    BY <1>0, <2>1, FinishEffect
  <2>2. CASE Goto(p, "ready")
    BY <1>0, <2>2, GotoEffect DEF Stages
  <2>3. QED BY <2>1, <2>2 DEF Claim
<1>5. CardInv' /\ SuspendedHasWaiter'
  BY <1>0, <1>4 DEF CardInv, SuspendedHasWaiter, Agent
<1>6. QED BY <1>2, <1>3, <1>5 DEF Inv

\* An emission takes away a run that nobody waits for.
LEMMA Emission ==
  ASSUME Inv, NEW p \in DOMAIN runs, EmitAndFinish(p), runs[p].at \in {"ready", "emit"},
         UNCHANGED <<status, firing, resolved, claimed, losses, decision, touched, faults>>
  PROVE  Inv'
<1>0. RunInv /\ ClaimInv /\ StateTypes /\ CardInv /\ SuspendedHasWaiter
  BY DEF Inv
<1>1. RunInv' /\ ClaimInv'
  BY <1>0, Emits
<1>2. StateTypes'
  BY <1>0 DEF StateTypes, AlertTypes
<1>3. /\ \A q \in DOMAIN runs' :
           (q \in DOMAIN runs /\ runs'[q] = runs[q]) \/ runs'[q].at = "queued"
      /\ \A q \in DOMAIN runs : q # p => q \in DOMAIN runs' /\ runs'[q] = runs[q]
  <2>1. DOMAIN runs' = (DOMAIN runs \ {p}) \cup Started(p)
        /\ \A q \in DOMAIN runs' :
             \/ q \in DOMAIN runs /\ q # p /\ runs'[q] = runs[q]
             \/ q \in Started(p) /\ runs'[q] = [at |-> "queued", say |-> "none"]
    BY <1>0, EmitEffect
  <2>2. \A q \in DOMAIN runs : q # p => runs'[q] = runs[q]
    BY <2>1 DEF EmitAndFinish
  <2>3. QED BY <2>1, <2>2
<1>4. CardInv' /\ SuspendedHasWaiter'
  BY <1>0, <1>3 DEF CardInv, SuspendedHasWaiter, Agent
<1>5. QED BY <1>1, <1>2, <1>4 DEF Inv

\* Nor does a send that fails.
LEMMA Sending ==
  ASSUME Inv, NEW p \in DOMAIN runs, Send(p), runs[p].at \in {"ready", "emit"},
         UNCHANGED <<status, firing, resolved, claimed, losses, decision, touched>>
  PROVE  Inv'
<1>0. RunInv /\ ClaimInv /\ StateTypes /\ CardInv /\ SuspendedHasWaiter
  BY DEF Inv
<1>1. CASE EmitAndFinish(p) /\ UNCHANGED faults
  BY <1>1, Emission
<1>2. CASE Fault /\ Finish(p)
  <2>1. faults' \in 0 .. MaxFaults /\ faults' # 0
    BY <1>0, <1>2, GateAssumption DEF StateTypes, Fault
  <2>2. RunInv' /\ ClaimInv'
    BY <1>0, <1>2, Finishes
  <2>3. StateTypes'
    BY <1>0, <2>1 DEF StateTypes, AlertTypes
  <2>4. CardInv' /\ SuspendedHasWaiter'
    BY <1>0, <1>2, <2>1, FinishEffect DEF CardInv, SuspendedHasWaiter, Agent
  <2>5. QED BY <2>2, <2>3, <2>4 DEF Inv
<1>3. QED BY <1>1, <1>2 DEF Send

LEMMA ComputeStep ==
  ASSUME Inv, NEW p \in DOMAIN runs, Compute(p)
  PROVE  Inv'
<1>0. /\ RunInv /\ ClaimInv /\ StateTypes /\ CardInv /\ SuspendedHasWaiter
      /\ runs[p].at = "ready"
      /\ UNCHANGED <<status, firing, resolved, claimed, losses, decision, touched>>
  BY DEF Inv, Compute, At
<1>1. CASE Send(p)
  BY <1>0, <1>1, Sending
<1>2. ASSUME UNCHANGED faults PROVE StateTypes'
  BY <1>0, <1>2 DEF StateTypes, AlertTypes
<1>3. CASE Finish(p) /\ UNCHANGED faults
  <2>1. RunInv' /\ ClaimInv'
    BY <1>0, <1>3, Finishes
  <2>2. CardInv' /\ SuspendedHasWaiter'
    BY <1>0, <1>3, FinishEffect DEF CardInv, SuspendedHasWaiter, Agent
  <2>3. QED BY <1>2, <1>3, <2>1, <2>2 DEF Inv
<1>4. CASE Agent(p) \in Gates /\ Goto(p, "notify") /\ UNCHANGED faults
  <2>1. RunInv' /\ ClaimInv'
    BY <1>0, <1>4, Moves DEF Stages
  <2>2. CardInv' /\ SuspendedHasWaiter'
    BY <1>0, <1>4, GotoEffect DEF CardInv, SuspendedHasWaiter, Agent, Stages
  <2>3. QED BY <1>2, <1>4, <2>1, <2>2 DEF Inv
<1>5. QED BY <1>1, <1>3, <1>4 DEF Compute

LEMMA StatusSet ==
  ASSUME StateTypes, NEW s \in {"running", "suspended", "completed", "failed"}, SetStatus(s)
  PROVE  /\ status' \in {"running", "suspended", "completed", "failed"}
         /\ faults' \in 0 .. MaxFaults
         /\ faults' = 0 => faults = 0 /\ status' = s
<1>1. faults \in Nat /\ MaxFaults \in Nat
  BY GateAssumption DEF StateTypes
<1>2. QED BY <1>1 DEF StateTypes, SetStatus, Fault

LEMMA CompleteStep ==
  ASSUME Inv, NEW p \in DOMAIN runs, Complete(p)
  PROVE  Inv'
<1>0. /\ RunInv /\ ClaimInv /\ StateTypes /\ CardInv
      /\ SetStatus("completed") /\ Finish(p)
      /\ UNCHANGED <<firing, resolved, claimed, losses, decision, touched>>
  BY DEF Inv, Complete
<1>1. RunInv' /\ ClaimInv'
  BY <1>0, Finishes
<1>2. /\ status' \in {"running", "suspended", "completed", "failed"}
      /\ faults' \in 0 .. MaxFaults
      /\ faults' = 0 => faults = 0 /\ status' = "completed"
  BY <1>0, StatusSet
<1>3. StateTypes' /\ CardInv' /\ SuspendedHasWaiter'
  BY <1>0, <1>2, FinishEffect DEF StateTypes, AlertTypes, CardInv, SuspendedHasWaiter, Agent
<1>4. QED BY <1>1, <1>3 DEF Inv

LEMMA NotifyStep ==
  ASSUME Inv, NEW p \in DOMAIN runs, Notify(p)
  PROVE  Inv'
<1>0. /\ RunInv /\ ClaimInv /\ StateTypes /\ CardInv /\ SuspendedHasWaiter
      /\ runs[p].at = "notify" /\ Goto(p, "suspend")
      /\ (Record(Agent(p)) /\ UNCHANGED faults) \/ (Fault /\ UNCHANGED alerts)
      /\ touched' = IF Resolving(Agent(p)) THEN touched \cup {Agent(p)}
                                           ELSE touched \ {Agent(p)}
      /\ UNCHANGED <<status, claimed, losses, decision>>
  BY DEF Inv, Notify, At
<1>1. Agent(p) \in Gates /\ faults \in Nat /\ MaxFaults \in Nat /\ faults' \in Nat
  BY <1>0, GateAssumption DEF RunInv, StateTypes, Fault
<1>2. RunInv' /\ ClaimInv'
  BY <1>0, <1>1, Moves DEF Stages
<1>3. /\ DOMAIN runs' = DOMAIN runs /\ runs'[p].at = "suspend"
      /\ \A q \in DOMAIN runs : q # p => runs'[q] = runs[q]
  BY <1>0, GotoEffect DEF Stages
<1>4. /\ faults' \in 0 .. MaxFaults /\ firing \subseteq firing'
      /\ firing' \subseteq AlertKeys /\ resolved' \subseteq AlertKeys
      /\ faults' = 0 => faults = 0 /\ Agent(p) \in firing'
  BY <1>0, <1>1, GateAssumption DEF Record, Fault, alerts, StateTypes, AlertTypes
<1>5. StateTypes'
  BY <1>0, <1>1, <1>4 DEF StateTypes, AlertTypes
<1>6. /\ \A d \in Deciders : decision[d].at \in {"delete", "flip"} => decision[d].gate \in touched'
      /\ \A q \in DOMAIN runs : runs[q].at \in {"delete", "flip"} => Agent(q) \in touched'
  BY <1>0 DEF CardInv, Resolving
<1>7. CardInv'
  <2>1. \A q \in DOMAIN runs' :
          runs'[q].at \in {"delete", "flip"} => Agent(q) \in touched'
    BY <1>3, <1>6
  <2>2. ASSUME faults' = 0, NEW q \in DOMAIN runs',
               runs'[q].at \in {"suspend", "register", "wait"}, Agent(q) \notin touched'
        PROVE  Agent(q) \in firing'
    <3>1. CASE Agent(q) = Agent(p)
      BY <1>4, <2>2, <3>1
    <3>2. CASE Agent(q) # Agent(p)
      BY <1>0, <1>3, <1>4, <2>2, <3>2 DEF CardInv
    <3>3. QED BY <3>1, <3>2
  <2>3. QED BY <1>0, <1>6, <2>1, <2>2 DEF CardInv, Agent
<1>8. SuspendedHasWaiter'
  BY <1>0, <1>3, <1>4 DEF SuspendedHasWaiter
<1>9. QED BY <1>2, <1>5, <1>7, <1>8 DEF Inv

\* A gate's run goes on from stage to stage, and the cards stay as they are.
LEMMA Stage ==
  ASSUME Inv, NEW p \in DOMAIN runs, NEW s \in Stages \ {"queued", "ready", "delete", "flip"},
         Goto(p, s), runs[p].at \notin {"queued", "emit"}, Agent(p) \in Gates,
         s = "emit" => runs[p].say # "redo",
         s \in {"releaseSuggest", "releaseConfirm"} => runs[p].say = "redo",
         s \in {"suspend", "register", "wait"} => runs[p].at \in {"suspend", "register", "wait"},
         claimed' = claimed, UNCHANGED <<firing, resolved, losses, decision, touched>>,
         status' \in {"running", "suspended", "completed", "failed"},
         faults' \in 0 .. MaxFaults, faults' = 0 => faults = 0,
         status' = "suspended" /\ faults' = 0 =>
           \/ s \in {"register", "wait", "woken", "fail"}
           \/ status = "suspended" /\ runs[p].at \notin {"register", "wait", "woken", "delete", "flip", "fail"}
  PROVE  Inv'
<1>0. RunInv /\ ClaimInv /\ StateTypes /\ CardInv /\ SuspendedHasWaiter
  BY DEF Inv
<1>1. RunInv' /\ ClaimInv'
  BY <1>0, Moves
<1>2. /\ DOMAIN runs' = DOMAIN runs /\ runs'[p].at = s
      /\ \A q \in DOMAIN runs : q # p => runs'[q] = runs[q]
  BY <1>0, GotoEffect
<1>3. StateTypes'
  BY <1>0 DEF StateTypes, AlertTypes
<1>4. CardInv'
  BY <1>0, <1>2 DEF CardInv, Agent
<1>5. SuspendedHasWaiter'
  BY <1>0, <1>2 DEF SuspendedHasWaiter
<1>6. QED BY <1>1, <1>3, <1>4, <1>5 DEF Inv

LEMMA SuspendStep ==
  ASSUME Inv, NEW p \in DOMAIN runs, Suspend(p)
  PROVE  Inv'
<1>1. runs[p].at = "suspend" /\ Agent(p) \in Gates
  BY DEF Suspend, At, Inv, RunInv
<1>2. /\ status' \in {"running", "suspended", "completed", "failed"}
      /\ faults' \in 0 .. MaxFaults
      /\ faults' = 0 => faults = 0 /\ status' = "suspended"
  BY StatusSet DEF Suspend, Inv
<1>3. QED BY <1>1, <1>2, Stage DEF Suspend, Stages

LEMMA RegisterStep ==
  ASSUME Inv, NEW p \in DOMAIN runs, Register(p)
  PROVE  Inv'
<1>1. runs[p].at = "register" /\ Agent(p) \in Gates
  BY DEF Register, At, Inv, RunInv
<1>2. faults' \in 0 .. MaxFaults /\ status' \in {"running", "suspended", "completed", "failed"}
  BY DEF Register, Inv, StateTypes
<1>3. QED BY <1>1, <1>2, Stage DEF Register, Stages

LEMMA ResumeStep ==
  ASSUME Inv, NEW p \in DOMAIN runs, Resume(p)
  PROVE  Inv'
<1>1. runs[p].at = "woken" /\ Agent(p) \in Gates
  BY DEF Resume, At, Inv, RunInv
<1>2. /\ status' \in {"running", "suspended", "completed", "failed"}
      /\ faults' \in 0 .. MaxFaults
      /\ faults' = 0 => faults = 0 /\ status' = "running"
  BY StatusSet DEF Resume, Inv
<1>3. CASE runs[p].say = "redo"
  BY <1>1, <1>2, <1>3, Stage DEF Resume, Stages
<1>4. CASE runs[p].say # "redo"
  BY <1>1, <1>2, <1>4, Stage DEF Resume, Stages
<1>5. QED BY <1>3, <1>4

LEMMA ReleaseStep ==
  ASSUME Inv, NEW p \in DOMAIN runs, Release(p)
  PROVE  Inv'
<1>0. /\ RunInv /\ ClaimInv /\ StateTypes /\ CardInv /\ SuspendedHasWaiter
      /\ runs[p].at \in {"releaseSuggest", "releaseConfirm"}
      /\ claimed' \subseteq claimed
      /\ UNCHANGED <<status, firing, resolved, losses, decision, touched, faults>>
  BY DEF Inv, Release, At
<1>1. Agent(p) \in Gates /\ runs[p].say = "redo"
  BY <1>0 DEF RunInv
<1>2. StateTypes'
  BY <1>0 DEF StateTypes, AlertTypes
<1>3. CASE At(p, "releaseSuggest") /\ claimed' = claimed \ {"suggest"} /\ Goto(p, "releaseConfirm")
  <2>1. runs[p].at = "releaseSuggest" /\ \A g \in Gates : g \in claimed' <=> g \in claimed
    BY <1>3 DEF At, Gates
  <2>2. RunInv' /\ ClaimInv'
    BY <1>0, <1>1, <1>3, <2>1, Moves DEF Stages
  <2>3. CardInv' /\ SuspendedHasWaiter'
    BY <1>0, <1>3, <2>1, GotoEffect DEF CardInv, SuspendedHasWaiter, Agent, Stages
  <2>4. QED BY <1>2, <2>2, <2>3 DEF Inv
<1>4. CASE At(p, "releaseConfirm") /\ claimed' = claimed \ {"manualConfirm"} /\ Goto(p, "emit")
  <2>1. runs[p].at = "releaseConfirm"
    BY <1>4 DEF At
  <2>2. RunInv' /\ ClaimInv'
    BY <1>0, <1>4, <2>1, Releases
  <2>3. CardInv' /\ SuspendedHasWaiter'
    BY <1>0, <1>4, <2>1, GotoEffect DEF CardInv, SuspendedHasWaiter, Agent, Stages
  <2>4. QED BY <1>2, <2>2, <2>3 DEF Inv
<1>5. QED BY <1>3, <1>4 DEF Release

LEMMA EmitStep ==
  ASSUME Inv, NEW p \in DOMAIN runs, Emit(p)
  PROVE  Inv'
  BY Sending DEF Emit, At

LEMMA ExpireStep ==
  ASSUME Inv, NEW p \in DOMAIN runs, Expire(p)
  PROVE  Inv'
<1>0. /\ RunInv /\ ClaimInv /\ StateTypes /\ CardInv /\ SuspendedHasWaiter
      /\ runs[p].at = "wait" /\ Goto(p, "delete") /\ touched' = touched \cup {Agent(p)}
      /\ UNCHANGED <<status, firing, resolved, claimed, losses, decision, faults>>
  BY DEF Inv, Expire, At
<1>1. Agent(p) \in Gates
  BY <1>0 DEF RunInv
<1>2. RunInv' /\ ClaimInv'
  BY <1>0, <1>1, Moves DEF Stages
<1>3. StateTypes'
  BY <1>0, <1>1 DEF StateTypes, AlertTypes
<1>4. CardInv' /\ SuspendedHasWaiter'
  BY <1>0, GotoEffect DEF CardInv, SuspendedHasWaiter, Agent, Stages
<1>5. QED BY <1>2, <1>3, <1>4 DEF Inv

\* What resolving the card of gate g does to the alert rows.
LEMMA ResolveEffect ==
  ASSUME StateTypes, NEW g, DeleteResolved(g) \/ FlipFiring(g) \/ UNCHANGED alerts
  PROVE  AlertTypes' /\ firing \ {g} \subseteq firing'
  BY DEF StateTypes, AlertTypes, DeleteResolved, FlipFiring, alerts

LEMMA FaultEffect ==
  ASSUME StateTypes, Fault \/ UNCHANGED faults
  PROVE  faults' \in 0 .. MaxFaults /\ (faults' = 0 => faults = 0 /\ ~Fault)
<1>1. faults \in Nat /\ MaxFaults \in Nat
  BY GateAssumption DEF StateTypes
<1>2. QED BY <1>1 DEF StateTypes, Fault

LEMMA CleanUpStep ==
  ASSUME Inv, NEW p \in DOMAIN runs, CleanUp(p)
  PROVE  Inv'
<1>0. /\ RunInv /\ ClaimInv /\ StateTypes /\ CardInv /\ SuspendedHasWaiter
      /\ runs[p].at \in {"delete", "flip", "fail"}
      /\ UNCHANGED <<claimed, losses, decision, touched>>
  BY DEF Inv, CleanUp, At
<1>1. Agent(p) \in Gates
  BY <1>0 DEF RunInv
<1>2. ASSUME NEW s \in {"flip", "fail"}, Goto(p, s), runs[p].at \in {"delete", "flip"},
             DeleteResolved(Agent(p)) \/ FlipFiring(Agent(p)) \/ UNCHANGED alerts,
             Fault \/ UNCHANGED faults, status' = status
      PROVE  Inv'
  <2>1. RunInv' /\ ClaimInv'
    BY <1>0, <1>1, <1>2, Moves DEF Stages
  <2>2. /\ AlertTypes' /\ firing \ {Agent(p)} \subseteq firing'
        /\ faults' \in 0 .. MaxFaults /\ (faults' = 0 => faults = 0)
    BY <1>0, <1>2, ResolveEffect, FaultEffect
  <2>3. StateTypes'
    BY <1>0, <1>2, <2>2 DEF StateTypes
  <2>4. /\ DOMAIN runs' = DOMAIN runs /\ runs'[p].at = s
        /\ \A q \in DOMAIN runs : q # p => runs'[q] = runs[q]
    BY <1>0, <1>2, GotoEffect DEF Stages
  <2>5. Agent(p) \in touched
    BY <1>0, <1>2 DEF CardInv
  <2>6. CardInv' /\ SuspendedHasWaiter'
    BY <1>0, <1>2, <2>2, <2>4, <2>5 DEF CardInv, SuspendedHasWaiter, Agent
  <2>7. QED BY <2>1, <2>3, <2>6 DEF Inv
<1>3. CASE At(p, "delete")
  <2>1. runs[p].at = "delete" /\ status' = status
    BY <1>3 DEF At, CleanUp
  <2>2. CASE DeleteResolved(Agent(p)) /\ Goto(p, "flip") /\ UNCHANGED faults
    BY <1>2, <2>1, <2>2
  <2>3. CASE Fault /\ Goto(p, "fail") /\ UNCHANGED alerts
    BY <1>2, <2>1, <2>3
  <2>4. QED BY <1>3, <2>2, <2>3 DEF CleanUp, At
<1>4. CASE At(p, "flip")
  <2>1. runs[p].at = "flip" /\ status' = status /\ Goto(p, "fail")
        /\ ((FlipFiring(Agent(p)) /\ UNCHANGED faults) \/ (Fault /\ UNCHANGED alerts))
    BY <1>4 DEF At, CleanUp
  <2>2. QED BY <1>2, <2>1
<1>5. CASE At(p, "fail")
  <2>1. SetStatus("failed") /\ Finish(p) /\ UNCHANGED alerts
    BY <1>5 DEF At, CleanUp
  <2>2. RunInv' /\ ClaimInv'
    BY <1>0, <2>1, Finishes
  <2>3. /\ status' \in {"running", "suspended", "completed", "failed"}
        /\ faults' \in 0 .. MaxFaults
        /\ faults' = 0 => faults = 0 /\ status' = "failed"
    BY <1>0, <2>1, StatusSet
  <2>4. StateTypes' /\ CardInv' /\ SuspendedHasWaiter'
    BY <1>0, <2>1, <2>3, FinishEffect
    DEF StateTypes, AlertTypes, alerts, CardInv, SuspendedHasWaiter, Agent
  <2>5. QED BY <2>2, <2>4 DEF Inv
<1>6. QED BY <1>3, <1>4, <1>5 DEF CleanUp

LEMMA HandleStep ==
  ASSUME Inv, NEW p \in DOMAIN runs, Handle(p)
  PROVE  Inv'
  BY ClaimStep, ComputeStep, CompleteStep, NotifyStep, SuspendStep, RegisterStep,
     ResumeStep, ReleaseStep, EmitStep, ExpireStep, CleanUpStep
  DEF Handle

LEMMA ForgetStep ==
  ASSUME Inv, Forget
  PROVE  Inv'
<1>0. /\ RunInv /\ StateTypes /\ CardInv /\ SuspendedHasWaiter
      /\ losses < MaxLosses /\ losses' = losses + 1 /\ claimed' = {}
      /\ UNCHANGED <<status, firing, resolved, runs, decision, touched, faults>>
  BY DEF Inv, Forget
<1>1. losses' \in 0 .. MaxLosses /\ losses' # 0
  BY <1>0, GateAssumption DEF StateTypes
<1>2. QED
  BY <1>0, <1>1
  DEF Inv, RunInv, StateTypes, AlertTypes, ClaimInv, CardInv, SuspendedHasWaiter, Agent

LEMMA DecideStep ==
  ASSUME Inv, NEW d \in Deciders, Decide(d)
  PROVE  Inv'
<1>0. /\ RunInv /\ ClaimInv /\ StateTypes /\ CardInv /\ SuspendedHasWaiter
      /\ UNCHANGED <<status, firing, resolved, faults, claimed, losses, runs>>
  BY DEF Inv, Decide, caseVars
<1>1. PICK g \in firing \cup resolved :
        /\ decision' = [decision EXCEPT ![d] = [at |-> "delete", gate |-> g]]
        /\ touched' = touched \cup {g}
  BY DEF Decide
<1>2. g \in Gates
  BY <1>0, GateAssumption DEF StateTypes, AlertTypes
<1>3. RunInv' /\ ClaimInv'
  BY <1>0 DEF RunInv, ClaimInv, Busy, Open, Agent
<1>4. StateTypes'
  BY <1>0, <1>1, <1>2 DEF StateTypes, AlertTypes
<1>5. CardInv'
  <2>1. \A c \in Deciders : decision'[c].at \in {"delete", "flip"} => decision'[c].gate \in touched'
    BY <1>0, <1>1 DEF CardInv, StateTypes
  <2>2. QED BY <1>0, <1>1, <2>1 DEF CardInv, Agent
<1>6. SuspendedHasWaiter'
  BY <1>0 DEF SuspendedHasWaiter
<1>7. QED BY <1>3, <1>4, <1>5, <1>6 DEF Inv

LEMMA ResolveStep ==
  ASSUME Inv, NEW d \in Deciders, ResolveCards(d)
  PROVE  Inv'
<1>0. /\ RunInv /\ ClaimInv /\ StateTypes /\ CardInv /\ SuspendedHasWaiter
      /\ UNCHANGED <<status, touched, claimed, losses, runs>>
      /\ decision[d].at \in {"delete", "flip"}
  BY DEF Inv, ResolveCards, caseVars
<1> DEFINE g == decision[d].gate
<1>1. /\ \E s \in {"flip", "send"} : decision' = [decision EXCEPT ![d].at = s]
      /\ DeleteResolved(g) \/ FlipFiring(g) \/ UNCHANGED alerts
      /\ Fault \/ UNCHANGED faults
  BY DEF ResolveCards, Step
<1>2. /\ AlertTypes' /\ firing \ {g} \subseteq firing'
      /\ faults' \in 0 .. MaxFaults /\ (faults' = 0 => faults = 0)
  BY <1>0, <1>1, ResolveEffect, FaultEffect
<1>3. g \in touched
  BY <1>0 DEF CardInv
<1>4. /\ decision' \in [Deciders -> [at : {"idle", "delete", "flip", "send"},
                                     gate : Gates \cup {"none"}]]
      /\ \A c \in Deciders : decision'[c].gate = decision[c].gate
      /\ \A c \in Deciders : c # d => decision'[c] = decision[c]
  BY <1>0, <1>1 DEF StateTypes
<1>5. RunInv' /\ ClaimInv'
  BY <1>0 DEF RunInv, ClaimInv, Busy, Open, Agent
<1>6. StateTypes'
  BY <1>0, <1>2, <1>4 DEF StateTypes
<1> HIDE DEF g
<1>7. CardInv'
  <2>1. \A c \in Deciders : decision'[c].at \in {"delete", "flip"} => decision'[c].gate \in touched'
    <3>1. decision'[d].gate \in touched'
      BY <1>0, <1>3, <1>4 DEF g
    <3>2. QED BY <1>0, <1>4, <3>1 DEF CardInv
  <2>2. QED BY <1>0, <1>2, <1>3, <2>1 DEF CardInv, Agent
<1>8. SuspendedHasWaiter'
  BY <1>0, <1>2 DEF SuspendedHasWaiter
<1>9. QED BY <1>5, <1>6, <1>7, <1>8 DEF Inv

LEMMA SendStep ==
  ASSUME Inv, NEW d \in Deciders, SendDecision(d)
  PROVE  Inv'
<1>0. /\ RunInv /\ ClaimInv /\ StateTypes /\ CardInv /\ SuspendedHasWaiter
      /\ decision' = [decision EXCEPT ![d] = NoDecision]
      /\ UNCHANGED <<status, firing, resolved, touched, claimed, losses>>
      /\ Fault \/ UNCHANGED faults
  BY DEF Inv, SendDecision
<1>1. faults' \in 0 .. MaxFaults /\ (faults' = 0 => faults = 0)
  BY <1>0, FaultEffect
<1>2. /\ decision' \in [Deciders -> [at : {"idle", "delete", "flip", "send"},
                                     gate : Gates \cup {"none"}]]
      /\ \A c \in Deciders : c # d => decision'[c] = decision[c]
      /\ decision'[d].at = "idle"
  BY <1>0 DEF StateTypes, NoDecision
<1>3. StateTypes'
  BY <1>0, <1>1, <1>2 DEF StateTypes, AlertTypes
<1>4. /\ DOMAIN runs' = DOMAIN runs
      /\ \A p \in DOMAIN runs :
           \/ runs'[p] = runs[p]
           \/ /\ runs[p].at = "wait" /\ runs'[p].at = "woken"
              /\ runs'[p] \in RunStates
  <2>1. CASE UNCHANGED runs
    BY <2>1
  <2>2. CASE \E say \in Verdicts :
               runs' = [p \in DOMAIN runs |->
                          IF p \in WaitsAt(decision[d].gate)
                          THEN [at |-> "woken", say |-> say] ELSE runs[p]]
    BY <2>2 DEF WaitsAt, RunStates, Stages
  <2>3. QED BY <2>1, <2>2 DEF SendDecision
<1>5. RunInv'
  BY <1>0, <1>4 DEF RunInv, Agent
<1>6. \A p \in DOMAIN runs : (Busy(p)' <=> Busy(p)) /\ (Open(p)' <=> Open(p))
  BY <1>0, <1>4 DEF Busy, Open
<1>7. ClaimInv'
  BY <1>0, <1>4, <1>6 DEF ClaimInv, Agent
<1>8. CardInv'
  BY <1>0, <1>1, <1>2, <1>4 DEF CardInv, Agent
<1>9. SuspendedHasWaiter'
  BY <1>0, <1>1, <1>4 DEF SuspendedHasWaiter
<1>10. QED BY <1>3, <1>5, <1>7, <1>8, <1>9 DEF Inv

LEMMA NextInv == Inv /\ [Next]_vars => Inv'
<1> SUFFICES ASSUME Inv, [Next]_vars PROVE Inv'
  OBVIOUS
<1>1. CASE UNCHANGED vars
  BY <1>1
  DEF vars, Inv, RunInv, StateTypes, AlertTypes, ClaimInv, Busy, Open, CardInv,
      SuspendedHasWaiter, Agent
<1>2. CASE Handlers
  BY <1>2, HandleStep DEF Handlers
<1>3. CASE \E d \in Deciders : Decide(d) \/ DecisionStep(d)
  BY <1>3, DecideStep, ResolveStep, SendStep DEF DecisionStep
<1>4. QED BY <1>1, <1>2, <1>3, ForgetStep DEF Next

LEMMA SpecInv == Spec => []Inv
  BY InitInv, NextInv, PTL DEF Spec

-----------------------------------------------------------------------------
(* The theorems *)

\* The types are right, and no run of a case is deeper than the cap.
THEOREM TypeCorrect == Spec => []TypeOK
<1>1. Inv => TypeOK
  BY DEF Inv, RunInv, RunStates, StateTypes, TypeOK
<1>2. QED BY <1>1, SpecInv, PTL

\* While the claims are kept, one run at most waits at a gate, although a "redo" at
\* either gate releases the claims of the agents before it.
THEOREM OneDecisionAtATime == Spec => []OneWaiterPerGate
<1>1. Inv => OneWaiterPerGate
  BY DEF Inv, ClaimInv, OneWaiterPerGate, WaitsAt, Busy
<1>2. QED BY <1>1, SpecInv, PTL

\* Unless a statement fails, a suspended case has a run that will end that.
THEOREM NobodyLeftSuspended == Spec => []SuspendedHasWaiter
<1>1. Inv => SuspendedHasWaiter
  BY DEF Inv
<1>2. QED BY <1>1, SpecInv, PTL

\* Unless a statement fails, an undecided gate shows its card.
THEOREM CardIsShown == Spec => []CardWhileUndecided
<1>1. Inv => CardWhileUndecided
  BY DEF Inv, CardInv, CardWhileUndecided, WaitsAt
<1>2. QED BY <1>1, SpecInv, PTL
-----------------------------------------------------------------------------
(* How a case ends *)

\* The stages a run still has before it, at most.
StageLeft(s) == CASE s = "queued" -> 9 [] s = "ready" -> 8 [] s = "notify" -> 7
                  [] s = "suspend" -> 6 [] s = "register" -> 5 [] s = "wait" -> 4
                  [] s \in {"woken", "delete"} -> 3
                  [] s \in {"flip", "releaseSuggest"} -> 2
                  [] s \in {"fail", "releaseConfirm"} -> 1
                  [] OTHER -> 0

\* p is q, or one of the runs that led to q.
LedTo(p, q) == Len(p) <= Len(q) /\ \A i \in 1 .. Len(p) : q[i] = p[i]

\* A run and one it led to are not on their way at the same time.
NoRunBesideItsCause == \A p, q \in DOMAIN runs : LedTo(p, q) => p = q

\* What the measure of the whole case needs: a run on its way goes on to a later
\* stage or leaves, the runs that appear take the place of the one that led to
\* them, and every step of a handler changes something.
ChainWindsDown ==
  /\ \A p \in DOMAIN runs \cap DOMAIN runs' :
       runs'[p] = runs[p] \/ StageLeft(runs'[p].at) < StageLeft(runs[p].at)
  /\ \A q \in DOMAIN runs' \ DOMAIN runs :
       /\ Len(q) <= MaxDepth + 1
       /\ \E p \in DOMAIN runs \ DOMAIN runs' : \E a \in Agents : q = Append(p, a)
  /\ Handlers => runs' # runs

LEMMA ChildOf ==
  ASSUME RunInv, NEW p \in DOMAIN runs, NEW q \in Started(p)
  PROVE  /\ p \in Seq(Agents) /\ Len(p) \in Nat /\ Len(q) = Len(p) + 1
         /\ \A i \in 1 .. Len(p) : q[i] = p[i]
         /\ \E a \in Agents : q = Append(p, a) /\ q[Len(p) + 1] = a
         /\ Len(q) <= MaxDepth + 1
<1>1. p \in Seq(Agents) /\ Len(p) \in 1 .. MaxDepth + 1 /\ MaxDepth \in Nat /\ ~(Len(p) > MaxDepth)
  BY GateAssumption DEF RunInv, Started
<1>2. PICK a \in Consumers[Emitted(Agent(p), runs[p].say)] : q = Append(p, a)
  BY <1>1 DEF Started
<1>3. Agent(p) \in Agents
  BY <1>1 DEF Agent
<1>4. a \in Agents
  BY <1>2, <1>3 DEF Emitted, Consumers, Agents
<1>5. /\ Len(q) = Len(p) + 1 /\ q[Len(p) + 1] = a
      /\ \A i \in 1 .. Len(p) : q[i] = p[i]
  BY <1>1, <1>2, <1>4
<1>6. QED BY <1>1, <1>2, <1>4, <1>5

\* What a handler may do with its run.
LEMMA HandleMoves ==
  ASSUME RunInv, NEW p \in DOMAIN runs, Handle(p)
  PROVE  \/ \E s \in Stages : Goto(p, s) /\ StageLeft(s) < StageLeft(runs[p].at)
         \/ Finish(p)
         \/ EmitAndFinish(p)
<1> USE DEF StageLeft, At, Stages
<1>1. CASE Claim(p)
  BY <1>1 DEF Claim
<1>2. CASE Compute(p)
  BY <1>2 DEF Compute, Send
<1>3. CASE Complete(p)
  BY <1>3 DEF Complete
<1>4. CASE Notify(p)
  BY <1>4 DEF Notify
<1>5. CASE Suspend(p)
  BY <1>5 DEF Suspend
<1>6. CASE Register(p)
  BY <1>6 DEF Register
<1>7. CASE Resume(p)
  BY <1>7 DEF Resume
<1>8. CASE Release(p)
  BY <1>8 DEF Release
<1>9. CASE Emit(p)
  BY <1>9 DEF Emit, Send
<1>10. CASE Expire(p)
  BY <1>10 DEF Expire
<1>11. CASE CleanUp(p)
  BY <1>11 DEF CleanUp
<1>12. QED
  BY <1>1, <1>2, <1>3, <1>4, <1>5, <1>6, <1>7, <1>8, <1>9, <1>10, <1>11 DEF Handle

\* A handler's step winds the case down.
LEMMA HandleWindsDown ==
  ASSUME RunInv, NEW p \in DOMAIN runs, Handle(p)
  PROVE  ChainWindsDown
<1>0. runs[p] \in RunStates
  BY DEF RunInv
<1>1. ASSUME NEW s \in Stages, Goto(p, s), StageLeft(s) < StageLeft(runs[p].at)
      PROVE  ChainWindsDown
  <2>1. /\ DOMAIN runs' = DOMAIN runs /\ runs'[p].at = s
        /\ \A q \in DOMAIN runs : q # p => runs'[q] = runs[q]
    BY <1>1, GotoEffect
  <2>2. StageLeft(runs[p].at) \in Nat
    BY DEF StageLeft
  <2>3. runs'[p].at # runs[p].at
    BY <1>1, <2>1, <2>2
  <2>4. QED BY <1>1, <2>1, <2>3 DEF ChainWindsDown
<1>2. CASE Finish(p)
  BY <1>2, FinishEffect DEF ChainWindsDown
<1>3. CASE EmitAndFinish(p)
  <2>1. /\ p \notin DOMAIN runs'
        /\ \A q \in DOMAIN runs' :
             \/ q \in DOMAIN runs /\ runs'[q] = runs[q]
             \/ q \in Started(p)
        /\ DOMAIN runs' = (DOMAIN runs \ {p}) \cup Started(p)
    BY <1>3, EmitEffect
  <2>2. \A q \in DOMAIN runs \cap DOMAIN runs' : runs'[q] = runs[q]
    BY <1>3 DEF EmitAndFinish
  <2>3. \A q \in Started(p) : Len(q) <= MaxDepth + 1 /\ \E a \in Agents : q = Append(p, a)
    BY ChildOf
  <2>4. QED BY <2>1, <2>2, <2>3 DEF ChainWindsDown
<1>4. QED BY <1>1, <1>2, <1>3, HandleMoves

LEMMA NextWindsDown == RunInv /\ [Next]_vars => [ChainWindsDown]_vars
<1> SUFFICES ASSUME RunInv, Next PROVE ChainWindsDown \/ UNCHANGED vars
  OBVIOUS
<1>1. CASE Handlers
  BY <1>1, HandleWindsDown DEF Handlers
<1>2. CASE ~Handlers /\ UNCHANGED runs
  BY <1>2 DEF ChainWindsDown
<1>3. ASSUME NEW d \in Deciders, SendDecision(d), ~Handlers, ~UNCHANGED runs PROVE ChainWindsDown
  <2>1. PICK say \in Verdicts :
          runs' = [p \in DOMAIN runs |->
                     IF p \in WaitsAt(decision[d].gate)
                     THEN [at |-> "woken", say |-> say] ELSE runs[p]]
    BY <1>3 DEF SendDecision
  <2>2. DOMAIN runs' = DOMAIN runs
    BY <2>1
  <2>3. ASSUME NEW p \in DOMAIN runs
        PROVE  runs'[p] = runs[p] \/ StageLeft(runs'[p].at) < StageLeft(runs[p].at)
    <3>1. CASE p \in WaitsAt(decision[d].gate)
      <4>1. runs[p].at = "wait" /\ runs'[p].at = "woken"
        BY <2>1, <3>1 DEF WaitsAt
      <4>2. QED BY <4>1 DEF StageLeft
    <3>2. CASE p \notin WaitsAt(decision[d].gate)
      BY <2>1, <3>2
    <3>3. QED BY <3>1, <3>2
  <2>4. QED BY <1>3, <2>2, <2>3 DEF ChainWindsDown
<1>4. Handlers \/ UNCHANGED runs \/ \E d \in Deciders : SendDecision(d)
  BY DEF Next, Decide, DecisionStep, ResolveCards, Forget, caseVars
<1>5. QED BY <1>1, <1>2, <1>3, <1>4

\* The new runs are beside nobody they led to, and nobody that led to them.
LEMMA LinesNext == RunInv /\ NoRunBesideItsCause /\ [Next]_vars => NoRunBesideItsCause'
<1> SUFFICES ASSUME RunInv, NoRunBesideItsCause, [Next]_vars PROVE NoRunBesideItsCause'
  OBVIOUS
<1>1. CASE DOMAIN runs' \subseteq DOMAIN runs
  BY <1>1 DEF NoRunBesideItsCause
<1>2. ASSUME NEW p \in DOMAIN runs, EmitAndFinish(p) PROVE NoRunBesideItsCause'
  <2>0. p \in Seq(Agents)
    BY DEF RunInv
  <2>1. DOMAIN runs' = (DOMAIN runs \ {p}) \cup Started(p) /\ Len(p) \in Nat
    <3>1. Len(p) \in Nat
      BY <2>0
    <3>2. QED BY <1>2, <3>1, EmitEffect
  <2>2. ASSUME NEW q \in DOMAIN runs, q # p, NEW r \in Started(p) PROVE ~LedTo(q, r) /\ ~LedTo(r, q)
    <3>1. /\ Len(r) = Len(p) + 1 /\ \A i \in 1 .. Len(p) : r[i] = p[i]
      BY ChildOf
    <3>2. ~LedTo(p, q) /\ ~LedTo(q, p) /\ Len(q) \in Nat
      BY <2>2 DEF NoRunBesideItsCause, RunInv
    <3>3. LedTo(r, q) => LedTo(p, q)
      BY <2>1, <3>1, <3>2 DEF LedTo
    <3>4. LedTo(q, r) => LedTo(q, p) \/ LedTo(p, q)
      <4>1. CASE Len(q) <= Len(p)
        BY <2>1, <3>1, <3>2, <4>1 DEF LedTo
      <4>2. CASE Len(q) = Len(p) + 1
        BY <2>1, <3>1, <3>2, <4>2 DEF LedTo
      <4>3. CASE Len(q) > Len(p) + 1
        BY <2>1, <3>1, <3>2, <4>3 DEF LedTo
      <4>4. QED BY <2>1, <3>2, <4>1, <4>2, <4>3
    <3>5. QED BY <3>2, <3>3, <3>4
  <2>3. ASSUME NEW q \in Started(p), NEW r \in Started(p), LedTo(q, r) PROVE q = r
    <3>1. PICK a \in Agents : q = Append(p, a) /\ q[Len(p) + 1] = a
      BY ChildOf
    <3>2. PICK b \in Agents : r = Append(p, b) /\ r[Len(p) + 1] = b
      BY ChildOf
    <3>3. Len(q) = Len(p) + 1
      BY ChildOf
    <3>4. a = b
      BY <2>1, <2>3, <3>1, <3>2, <3>3 DEF LedTo
    <3>5. QED BY <3>1, <3>2, <3>4
  <2>4. \A q, r \in DOMAIN runs' : LedTo(q, r) => q = r
    BY <2>1, <2>2, <2>3 DEF NoRunBesideItsCause
  <2>5. QED BY <2>4 DEF NoRunBesideItsCause, LedTo
<1>3. ASSUME NEW p \in DOMAIN runs, Handle(p) PROVE NoRunBesideItsCause'
  BY <1>1, <1>2, <1>3, HandleMoves, GotoEffect, FinishEffect
<1>4. CASE UNCHANGED runs \/ \E d \in Deciders : SendDecision(d)
  BY <1>1, <1>4 DEF SendDecision
<1>5. UNCHANGED runs \/ Handlers \/ \E d \in Deciders : SendDecision(d)
  BY DEF Next, Decide, DecisionStep, ResolveCards, Forget, caseVars, vars
<1>6. QED BY <1>3, <1>4, <1>5 DEF Handlers

\* The chain grows only by replacing a run with its direct consequences, so a run
\* never coexists with one it led to, and no name is given to two runs at a time.
THEOREM RunsReplaceTheirCause == Spec => []NoRunBesideItsCause
<1>1. Init => NoRunBesideItsCause
  BY DEF Init, NoRunBesideItsCause
<1>2. Inv => RunInv
  BY DEF Inv
<1>3. QED BY <1>1, <1>2, LinesNext, SpecInv, PTL DEF Spec

\* ChainEnds, but for the handlers being scheduled: whatever the operators decide
\* and however often the claims are lost, a run only goes on, or is replaced by
\* deeper runs, no deeper than the cap.
THEOREM CaseWindsDown == Spec => [][ChainWindsDown]_vars
<1>1. Inv => RunInv
  BY DEF Inv
<1>2. QED BY <1>1, NextWindsDown, SpecInv, PTL DEF Spec
=============================================================================
