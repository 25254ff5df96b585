---------------------------- MODULE HumanLoopProofs ----------------------------
(***************************************************************************)
(* Theorems about HumanLoop, for any messages, any limits on turns, parks  *)
(* and tool calls, and any number of further runs and failing statements.  *)
(***************************************************************************)
EXTENDS HumanLoop, FiniteSets, FiniteSetTheorems, SequenceTheorems, TLAPS

\* A turn is begun only below the limit.
TurnInv == at \in {"select", "update", "model", "tools"} => turn < MaxTurns

\* At the turn boundary, and in the turn, no question is open.
AskInv == (at \in {"select", "update"} /\ gate = "none") \/ at = "model" => waiting = {}

\* A message in the mailbox, or acted on, has been sent; not both, unless a
\* statement has failed.
BoxInv ==
  /\ at # "update" => picked = <<>>
  /\ \A m \in Msgs :
       /\ heard[m] # {} => kind[m] # "unsent"
       /\ Contains(db, m) \/ Contains(mem, m) \/ Contains(picked, m) => kind[m] # "unsent"
       /\ faults = 0 /\ heard[m] # {} =>
            ~Contains(db, m) /\ ~Contains(mem, m) /\ ~Contains(picked, m)

Inv == TypeOK /\ TurnInv /\ AskInv /\ OnlyTheUserApproves /\ BoxInv

-----------------------------------------------------------------------------
(* Messages in a sequence *)

LEMMA ContainsNothing == \A m : ~Contains(<<>>, m)
  BY DEF Contains

LEMMA ContainsAppend ==
  ASSUME NEW s \in Seq(Msgs), NEW x \in Msgs, NEW m
  PROVE  Contains(Append(s, x), m) <=> Contains(s, m) \/ m = x
<1>1. /\ Len(Append(s, x)) = Len(s) + 1 /\ Len(s) \in Nat
      /\ \A i \in 1 .. Len(s) : Append(s, x)[i] = s[i]
      /\ Append(s, x)[Len(s) + 1] = x
  OBVIOUS
<1>2. \A i \in 1 .. Len(s) + 1 : i \in 1 .. Len(s) \/ i = Len(s) + 1
  BY <1>1
<1>3. QED BY <1>1, <1>2 DEF Contains

LEMMA ContainsCat ==
  ASSUME NEW s \in Seq(Msgs), NEW t \in Seq(Msgs), NEW m
  PROVE  /\ s \o t \in Seq(Msgs)
         /\ Contains(s \o t, m) <=> Contains(s, m) \/ Contains(t, m)
<1>1. /\ s \o t \in Seq(Msgs)
      /\ Len(s \o t) = Len(s) + Len(t)
      /\ \A i \in 1 .. Len(s) : (s \o t)[i] = s[i]
      /\ \A i \in 1 .. Len(t) : (s \o t)[Len(s) + i] = t[i]
      /\ Len(s) \in Nat /\ Len(t) \in Nat
  OBVIOUS
<1>2. ASSUME NEW i \in 1 .. Len(s) + Len(t), (s \o t)[i] = m
      PROVE  Contains(s, m) \/ Contains(t, m)
  <2>1. CASE i \in 1 .. Len(s)
    BY <1>1, <1>2, <2>1 DEF Contains
  <2>2. CASE i \notin 1 .. Len(s)
    <3>1. i - Len(s) \in 1 .. Len(t) /\ i = Len(s) + (i - Len(s))
      BY <1>1, <2>2
    <3>2. QED BY <1>1, <1>2, <3>1 DEF Contains
  <2>3. QED BY <2>1, <2>2
<1>3. ASSUME NEW i \in 1 .. Len(t), t[i] = m PROVE Contains(s \o t, m)
  BY <1>1, <1>3 DEF Contains
<1>4. ASSUME NEW i \in 1 .. Len(s), s[i] = m PROVE Contains(s \o t, m)
  BY <1>1, <1>4 DEF Contains
<1>5. QED BY <1>1, <1>2, <1>3, <1>4 DEF Contains

-----------------------------------------------------------------------------
(* The mailbox is dealt with *)

LEMMA NextGateOf ==
  ASSUME NEW W \in SUBSET Gates
  PROVE  /\ NextGate(W) \in Gates \cup {"none"}
         /\ NextGate(W) = "none" => W = {}
  BY DEF NextGate, Gates

LEMMA RoleTyped ==
  ASSUME NEW texts, NEW i
  PROVE  Role(texts, i) \in Roles
  BY DEF Role, Roles

\* What dealing with the mailbox does to the types, the turn and the gate.
LEMMA DealControl ==
  ASSUME Inv, at \in {"select", "update"}, NEW texts \in Seq(Msgs), Deal(texts)
  PROVE  /\ at' \in {"model", "select", "top"}
         /\ gate' \in Gates \cup {"none"} /\ ticks' \in 0 .. MaxTicks
         /\ waiting' \subseteq Gates
         /\ approved' \in BOOLEAN /\ expired' \in BOOLEAN
         /\ heard' \in [Msgs -> SUBSET Roles]
         /\ (at' = "select" /\ gate' = "none") \/ at' = "model" => waiting' = {}
<1>0. /\ TypeOK /\ AskInv
      /\ {approved, expired} \subseteq BOOLEAN /\ ticks \in 0 .. MaxTicks
      /\ waiting \subseteq Gates /\ gate \in Gates \cup {"none"}
  BY DEF Inv, TypeOK
<1>1. heard' \in [Msgs -> SUBSET Roles]
  BY <1>0, RoleTyped DEF Deal, TypeOK
<1> DEFINE settled == Indices(texts, "decision") \cup Indices(texts, "answer") # {}
           others  == waiting \ {gate}
<1>2. CASE /\ gate = "none" /\ at' = "model"
           /\ UNCHANGED <<gate, ticks, waiting, approved, expired>>
  BY <1>0, <1>1, <1>2 DEF AskInv
<1>3. CASE /\ gate # "none"
           /\ waiting' = others /\ gate' = NextGate(others) /\ at' = "select" /\ ticks' = 0
           /\ approved' = IF gate = "test" THEN Approves(texts) ELSE approved
           /\ expired' = (expired \/ (gate = "test" /\ ~settled))
  <2>1. others \in SUBSET Gates
    BY <1>0
  <2>2. gate' \in Gates \cup {"none"} /\ (gate' = "none" => waiting' = {}) /\ waiting' \subseteq Gates
    BY <1>3, <2>1, NextGateOf
  <2>3. Approves(texts) \in BOOLEAN
    BY DEF Approves
  <2>4. approved' \in BOOLEAN
    BY <1>0, <1>3, <2>3
  <2>5. expired' \in BOOLEAN
    BY <1>0, <1>3
  <2>6. ticks' \in 0 .. MaxTicks
    BY <1>3, LoopAssumption
  <2>7. QED BY <1>1, <1>3, <2>2, <2>4, <2>5, <2>6
<1>4. CASE /\ gate # "none" /\ ~Expired /\ Poll
  <2>1. ticks' \in 0 .. MaxTicks
    BY <1>0, <1>4, LoopAssumption DEF Expired, Poll
  <2>2. QED BY <1>0, <1>1, <1>4, <2>1 DEF Poll
<1>5. QED BY <1>2, <1>3, <1>4 DEF Deal

\* Approval comes from the decision, or the time-out.
LEMMA DealApproves ==
  ASSUME Inv, NEW texts \in Seq(Msgs), Deal(texts), UNCHANGED kind
  PROVE  OnlyTheUserApproves'
<1>0. TypeOK /\ OnlyTheUserApproves
  BY DEF Inv
<1>1. \A m \in Msgs :
        /\ heard[m] \subseteq heard'[m]
        /\ \A i \in 1 .. Len(texts) : texts[i] = m => Role(texts, i) \in heard'[m]
  BY <1>0 DEF Deal, TypeOK
<1>2. CASE UNCHANGED <<approved, expired>>
  BY <1>0, <1>1, <1>2 DEF OnlyTheUserApproves
<1> DEFINE settled == Indices(texts, "decision") \cup Indices(texts, "answer") # {}
<1>3. CASE /\ approved' = IF gate = "test" THEN Approves(texts) ELSE approved
           /\ expired' = (expired \/ (gate = "test" /\ ~settled))
  <2>1. CASE gate # "test"
    BY <1>0, <1>1, <1>3, <2>1 DEF OnlyTheUserApproves
  <2>2. CASE gate = "test"
    <3>1. Indices(texts, "answer") = {}
      BY <2>2 DEF Indices, Role
    <3>2. CASE Indices(texts, "decision") = {}
      BY <1>3, <2>2, <3>1, <3>2 DEF OnlyTheUserApproves
    <3>3. ASSUME approved', Indices(texts, "decision") # {}
          PROVE  \E m \in Msgs : kind[m] = "run_cases" /\ "decision" \in heard'[m]
      <4>1. PICK i \in Indices(texts, "decision") : kind[texts[i]] = "run_cases"
        BY <1>3, <2>2, <3>3 DEF Approves
      <4>2. i \in 1 .. Len(texts) /\ Role(texts, i) = "decision" /\ texts[i] \in Msgs
        BY <4>1 DEF Indices
      <4>3. QED BY <1>1, <4>1, <4>2
    <3>4. QED BY <3>2, <3>3 DEF OnlyTheUserApproves
  <2>3. QED BY <2>1, <2>2
<1>4. QED BY <1>2, <1>3 DEF Deal, Poll

\* Only what has been taken from the mailbox is acted on.
LEMMA DealHears ==
  ASSUME Inv, NEW texts \in Seq(Msgs), Deal(texts), NEW m \in Msgs, heard'[m] # heard[m]
  PROVE  Contains(texts, m)
<1>1. heard'[m] = heard[m] \cup {Role(texts, i) : i \in {j \in 1 .. Len(texts) : texts[j] = m}}
  BY DEF Deal
<1>2. QED BY <1>1 DEF Contains, Inv, TypeOK

-----------------------------------------------------------------------------
(* The steps *)

LEMMA InitInv == Init => Inv
<1> SUFFICES ASSUME Init PROVE Inv
  OBVIOUS
<1>1. {0} \subseteq (0 .. MaxTurns) \cap (0 .. MaxCalls) \cap (0 .. MaxTicks)
                  \cap (0 .. MaxFollowUps) \cap (0 .. MaxFaults)
  BY LoopAssumption
<1>2. db \in Seq(Msgs) /\ mem \in Seq(Msgs) /\ picked \in Seq(Msgs)
  BY DEF Init
<1>3. TypeOK
  BY <1>1, <1>2 DEF Init, TypeOK
<1>4. TurnInv /\ AskInv /\ OnlyTheUserApproves
  BY DEF Init, TurnInv, AskInv, OnlyTheUserApproves
<1>5. BoxInv
  BY ContainsNothing DEF Init, BoxInv
<1>6. QED BY <1>3, <1>4, <1>5 DEF Inv

LEMMA InjectInv ==
  ASSUME Inv, NEW m \in Msgs, Inject(m)
  PROVE  Inv'
<1>0. TypeOK
  BY DEF Inv
<1>1. PICK k \in Kinds : kind' = [kind EXCEPT ![m] = k]
  BY LoopAssumption DEF Inject
<1>2. /\ kind[m] = "unsent" /\ db' \in {db, Append(db, m)} /\ mem' \in {mem, Append(mem, m)}
      /\ UNCHANGED <<at, gate, ticks, approved, expired, waiting, picked, heard>>
      /\ UNCHANGED <<turn, calls, cases, deployed, aborted, followUps>>
  BY DEF Inject, loop
<1>3. faults' \in 0 .. MaxFaults
  BY <1>0, LoopAssumption DEF Inject, Fault, TypeOK
<1>4. kind' \in [Msgs -> Kinds \cup {"unsent"}] /\ db' \in Seq(Msgs) /\ mem' \in Seq(Msgs)
  <2>1. kind' \in [Msgs -> Kinds \cup {"unsent"}]
    BY <1>0, <1>1 DEF TypeOK
  <2>2. db \in Seq(Msgs) /\ mem \in Seq(Msgs)
    BY <1>0 DEF TypeOK
  <2>3. Append(db, m) \in Seq(Msgs) /\ Append(mem, m) \in Seq(Msgs)
    BY <2>2
  <2>4. QED BY <1>2, <2>1, <2>2, <2>3
<1>5. TypeOK'
  BY <1>0, <1>2, <1>3, <1>4 DEF TypeOK
<1>6. kind'[m] # "unsent" /\ \A x \in Msgs \ {m} : kind'[x] = kind[x]
  BY <1>0, <1>1 DEF TypeOK, Kinds
<1>7. TurnInv' /\ AskInv'
  BY <1>2 DEF Inv, TurnInv, AskInv
<1>8. OnlyTheUserApproves'
  BY <1>2, <1>6 DEF Inv, OnlyTheUserApproves
<1>9. \A x \in Msgs : /\ Contains(db', x) => Contains(db, x) \/ x = m
                      /\ Contains(mem', x) => Contains(mem, x) \/ x = m
  BY <1>0, <1>2, ContainsAppend DEF TypeOK
<1>10. faults' = 0 => faults = 0
  BY <1>0 DEF Inject, Fault, TypeOK
<1>11. BoxInv'
  <2>1. BoxInv
    BY DEF Inv
  <2>2. heard[m] = {}
    BY <1>0, <1>2, <2>1 DEF BoxInv, TypeOK
  <2>3. QED BY <1>2, <1>6, <1>9, <1>10, <2>1, <2>2 DEF BoxInv
<1>12. QED BY <1>5, <1>7, <1>8, <1>11 DEF Inv

\* A drain that ends: what it found is dealt with, and out of the mailbox, or a
\* statement has failed.
LEMMA DrainInv ==
  ASSUME Inv, at \in {"select", "update"}, NEW texts \in Seq(Msgs), Deal(texts),
         \A m \in Msgs : Contains(texts, m) => Contains(mem, m) \/ Contains(picked, m),
         db' \in {db, <<>>}, mem' = <<>>, picked' = <<>>,
         faults' \in 0 .. MaxFaults, faults' = 0 => faults = 0 /\ db' = <<>>,
         UNCHANGED <<kind, turn, calls, cases, deployed, aborted, followUps>>
  PROVE  Inv'
<1>0. TypeOK /\ BoxInv
  BY DEF Inv
<1>1. /\ at' \in {"model", "select", "top"}
      /\ gate' \in Gates \cup {"none"} /\ ticks' \in 0 .. MaxTicks
      /\ waiting' \subseteq Gates
      /\ approved' \in BOOLEAN /\ expired' \in BOOLEAN
      /\ heard' \in [Msgs -> SUBSET Roles]
      /\ (at' = "select" /\ gate' = "none") \/ at' = "model" => waiting' = {}
  BY DealControl
<1>2. <<>> \in Seq(Msgs)
  OBVIOUS
<1>3. db' \in Seq(Msgs) /\ mem' \in Seq(Msgs) /\ picked' \in Seq(Msgs)
  BY <1>0, <1>2 DEF TypeOK
<1>4. {cases', aborted', approved', expired'} \subseteq BOOLEAN
  BY <1>0, <1>1 DEF TypeOK
<1>5. TypeOK'
  BY <1>0, <1>1, <1>3, <1>4 DEF TypeOK
<1>6. TurnInv'
  BY <1>1 DEF Inv, TurnInv
<1>7. AskInv'
  BY <1>1 DEF AskInv
<1>8. OnlyTheUserApproves'
  BY DealApproves
<1>9. \A m \in Msgs : heard'[m] # {} => kind[m] # "unsent"
  BY <1>0, DealHears DEF BoxInv
<1>10. BoxInv'
  <2>1. \A m : ~Contains(mem', m) /\ ~Contains(picked', m)
    BY ContainsNothing
  <2>2. \A m \in Msgs : /\ Contains(db', m) => Contains(db, m)
                        /\ faults' = 0 => ~Contains(db', m)
    BY ContainsNothing
  <2>3. QED BY <1>0, <1>9, <2>1, <2>2 DEF BoxInv
<1>11. QED BY <1>5, <1>6, <1>7, <1>8, <1>10 DEF Inv

LEMMA SelectInv ==
  ASSUME Inv, Select
  PROVE  Inv'
<1>0. TypeOK /\ BoxInv /\ at = "select"
  BY DEF Inv, Select
<1>1. picked = <<>> /\ mem \in Seq(Msgs)
  BY <1>0 DEF BoxInv, TypeOK
<1>2. UNCHANGED <<kind, turn, calls, cases, deployed, aborted, followUps>>
  BY DEF Select, loop
<1>3. CASE /\ picked' = db /\ at' = "update"
           /\ UNCHANGED <<gate, ticks, waiting, approved, expired, db, mem, heard, faults>>
  <2>1. TypeOK'
    BY <1>0, <1>2, <1>3 DEF TypeOK
  <2>2. TurnInv' /\ AskInv' /\ OnlyTheUserApproves'
    BY <1>0, <1>2, <1>3 DEF Inv, TurnInv, AskInv, OnlyTheUserApproves
  <2>3. BoxInv'
    BY <1>0, <1>2, <1>3 DEF BoxInv
  <2>4. QED BY <2>1, <2>2, <2>3 DEF Inv
<1>4. CASE /\ (db = <<>> /\ UNCHANGED faults) \/ Fault
           /\ Deal(mem) /\ mem' = <<>> /\ UNCHANGED <<db, picked>>
  <2>1. faults' \in 0 .. MaxFaults /\ (faults' = 0 => faults = 0 /\ db' = <<>>)
    BY <1>0, <1>4, LoopAssumption DEF Fault, TypeOK
  <2>2. QED BY <1>0, <1>1, <1>2, <1>4, <2>1, DrainInv
<1>5. QED BY <1>3, <1>4 DEF Select

LEMMA UpdateInv ==
  ASSUME Inv, Update
  PROVE  Inv'
<1>0. TypeOK /\ at = "update" /\ picked' = <<>> /\ mem' = <<>>
  BY DEF Inv, Update
<1>1. mem \in Seq(Msgs) /\ picked \in Seq(Msgs)
  BY <1>0 DEF TypeOK
<1>2. UNCHANGED <<kind, turn, calls, cases, deployed, aborted, followUps>>
  BY DEF Update, loop
<1>3. CASE db' = <<>> /\ Deal(picked \o mem) /\ UNCHANGED faults
  <2>1. picked \o mem \in Seq(Msgs)
        /\ \A m : Contains(picked \o mem, m) => Contains(mem, m) \/ Contains(picked, m)
    BY <1>1, ContainsCat
  <2>2. faults' \in 0 .. MaxFaults
    BY <1>0, <1>3 DEF TypeOK
  <2>3. QED BY <1>0, <1>2, <1>3, <2>1, <2>2, DrainInv
<1>4. CASE Fault /\ Deal(mem) /\ (UNCHANGED db \/ db' = <<>>)
  <2>1. faults' \in 0 .. MaxFaults /\ faults' # 0
    BY <1>0, <1>4, LoopAssumption DEF Fault, TypeOK
  <2>2. QED BY <1>0, <1>1, <1>2, <1>4, <2>1, DrainInv
<1>5. QED BY <1>3, <1>4 DEF Update

\* A step that leaves the mailbox alone.
LEMMA LoopStep ==
  ASSUME Inv, UNCHANGED <<db, mem, picked, heard, kind, faults>>,
         picked = <<>> \/ at' = "update",
         at' \in {"top", "select", "update", "model", "tools", "cleanup", "over"},
         gate' \in Gates \cup {"none"},
         turn' \in 0 .. MaxTurns, calls' \in 0 .. MaxCalls, ticks' \in 0 .. MaxTicks,
         waiting' \subseteq Gates, {cases', approved', expired', aborted'} \subseteq BOOLEAN,
         deployed' \subseteq BOOLEAN, followUps' \in 0 .. MaxFollowUps,
         TurnInv', AskInv', approved' => approved, expired => expired'
  PROVE  Inv'
<1>1. TypeOK'
  BY DEF Inv, TypeOK
<1>2. OnlyTheUserApproves'
  BY DEF Inv, OnlyTheUserApproves
<1>3. BoxInv'
  BY DEF Inv, BoxInv
<1>4. QED BY <1>1, <1>2, <1>3 DEF Inv

\* The other steps of the conductor, the stop, and a further run.
LEMMA TurnsInv ==
  ASSUME Inv, Top \/ Model \/ Tool \/ EndTurn \/ Abort
  PROVE  Inv'
<1>0. /\ TypeOK /\ TurnInv /\ AskInv
      /\ turn \in 0 .. MaxTurns /\ calls \in 0 .. MaxCalls /\ ticks \in 0 .. MaxTicks
      /\ waiting \subseteq Gates /\ gate \in Gates \cup {"none"}
      /\ {cases, approved, expired, aborted} \subseteq BOOLEAN /\ deployed \subseteq BOOLEAN
      /\ followUps \in 0 .. MaxFollowUps
      /\ at \in {"top", "select", "update", "model", "tools", "cleanup", "over"}
      /\ at # "update" => picked = <<>>
  BY DEF Inv, TypeOK, BoxInv
<1>1. UNCHANGED <<db, mem, picked, heard, kind, faults, followUps>>
  BY DEF Top, Model, Tool, EndTurn, Abort, box, loop
<1>2. CASE Top
  <2>1. /\ at = "top" /\ UNCHANGED <<turn, calls, ticks, waiting, cases, approved, expired,
                                    deployed, aborted>>
        /\ \/ at' = "cleanup" /\ UNCHANGED gate
           \/ at' = "select" /\ gate' = NextGate(waiting) /\ turn < MaxTurns
    BY <1>0, <1>2, LoopAssumption DEF Top, loop
  <2>2. gate' \in Gates \cup {"none"}
    BY <1>0, <2>1, NextGateOf
  <2>3. TurnInv' /\ AskInv'
    BY <1>0, <2>1, NextGateOf DEF TurnInv, AskInv
  <2>4. QED BY <1>0, <1>1, <2>1, <2>2, <2>3, LoopStep
<1>3. CASE Model
  <2>1. /\ at = "model" /\ UNCHANGED <<gate, calls, ticks, waiting, cases, approved, expired,
                                      deployed, aborted>>
        /\ \/ at' \in {"tools", "cleanup"} /\ UNCHANGED turn
           \/ at' = "top" /\ turn' = turn + 1
    BY <1>3 DEF Model, ctx
  <2>2. turn' \in 0 .. MaxTurns
    BY <1>0, <2>1, LoopAssumption DEF TurnInv
  <2>3. TurnInv' /\ AskInv'
    BY <1>0, <2>1 DEF TurnInv, AskInv
  <2>4. QED BY <1>0, <1>1, <2>1, <2>2, <2>3, LoopStep
<1>4. CASE Tool
  <2>1. /\ at = "tools" /\ calls < MaxCalls /\ calls' = calls + 1
        /\ UNCHANGED <<at, gate, turn, ticks, expired, aborted>>
    BY <1>4 DEF Tool
  <2>2. calls' \in 0 .. MaxCalls
    BY <1>0, <2>1, LoopAssumption
  <2>3. /\ waiting' \subseteq Gates /\ (approved' => approved) /\ approved' \in BOOLEAN
        /\ cases' \in BOOLEAN /\ deployed' \subseteq BOOLEAN
    <3>1. CASE Propose
      BY <1>0, <3>1 DEF Propose, Gates
    <3>2. CASE deployed' = deployed \cup {approved} /\ UNCHANGED <<cases, waiting, approved>>
      BY <1>0, <3>2
    <3>3. CASE \E g \in {"boundary", "ask"} :
                 waiting' = waiting \cup {g} /\ UNCHANGED <<cases, approved, deployed>>
      BY <1>0, <3>3 DEF Gates
    <3>4. QED BY <1>4, <3>1, <3>2, <3>3 DEF Tool, Sandbox
  <2>4. TurnInv' /\ AskInv'
    BY <1>0, <2>1 DEF TurnInv, AskInv
  <2>5. QED BY <1>0, <1>1, <2>1, <2>2, <2>3, <2>4, LoopStep
<1>5. CASE EndTurn
  <2>1. /\ at = "tools" /\ calls' = 0
        /\ UNCHANGED <<gate, ticks, waiting, cases, approved, expired, deployed, aborted>>
        /\ \/ at' = "cleanup" /\ UNCHANGED turn
           \/ at' = "top" /\ turn' = turn + 1
    BY <1>5 DEF EndTurn, ctx
  <2>2. turn' \in 0 .. MaxTurns /\ calls' \in 0 .. MaxCalls
    BY <1>0, <2>1, LoopAssumption DEF TurnInv
  <2>3. TurnInv' /\ AskInv'
    BY <1>0, <2>1 DEF TurnInv, AskInv
  <2>4. QED BY <1>0, <1>1, <2>1, <2>2, <2>3, LoopStep
<1>6. CASE Abort
  <2>1. /\ aborted' = TRUE
        /\ UNCHANGED <<at, gate, turn, calls, ticks, waiting, cases, approved, expired, deployed>>
    BY <1>6 DEF Abort, ctx
  <2>2. TurnInv' /\ AskInv'
    BY <1>0, <2>1 DEF TurnInv, AskInv
  <2>3. QED BY <1>0, <1>1, <2>1, <2>2, LoopStep
<1>7. QED BY <1>2, <1>3, <1>4, <1>5, <1>6

LEMMA EndsInv ==
  ASSUME Inv, Cleanup \/ FollowUp
  PROVE  Inv'
<1>0. TypeOK /\ BoxInv
  BY DEF Inv
<1>1. /\ at \in {"cleanup", "over"} /\ at' \in {"over", "top"} /\ mem' = <<>>
      /\ db' \in {db, <<>>} /\ UNCHANGED <<gate, calls, picked, kind, heard>>
      /\ UNCHANGED <<waiting, cases, approved, expired, deployed>>
  BY DEF Cleanup, FollowUp, loop, ctx
<1>2. /\ turn' \in 0 .. MaxTurns /\ ticks' \in 0 .. MaxTicks
      /\ followUps' \in 0 .. MaxFollowUps /\ aborted' \in BOOLEAN
      /\ faults' \in 0 .. MaxFaults /\ (faults' = 0 => faults = 0)
  <2>1. CASE Cleanup
    BY <1>0, <2>1, LoopAssumption DEF Cleanup, Fault, TypeOK, loop
  <2>2. CASE FollowUp
    <3>1. turn' = 0 /\ ticks' = 0 /\ aborted' = FALSE /\ UNCHANGED faults
          /\ followUps < MaxFollowUps /\ followUps' = followUps + 1
      BY <2>2 DEF FollowUp
    <3>2. followUps \in 0 .. MaxFollowUps /\ faults \in 0 .. MaxFaults
      BY <1>0 DEF TypeOK
    <3>3. MaxTurns \in Nat /\ MaxTicks \in Nat /\ MaxFollowUps \in Nat
      BY LoopAssumption
    <3>4. turn' \in 0 .. MaxTurns /\ ticks' \in 0 .. MaxTicks
      BY <3>1, <3>3
    <3>5. followUps' \in 0 .. MaxFollowUps
      BY <3>1, <3>2, <3>3
    <3>6. aborted' \in BOOLEAN
      BY <3>1
    <3>7. faults' \in 0 .. MaxFaults /\ (faults' = 0 => faults = 0)
      BY <3>1, <3>2
    <3>8. QED BY <3>4, <3>5, <3>6, <3>7
  <2>3. QED BY <2>1, <2>2
<1>3. <<>> \in Seq(Msgs)
  OBVIOUS
<1>4. db' \in Seq(Msgs) /\ mem' \in Seq(Msgs) /\ picked' \in Seq(Msgs)
  BY <1>0, <1>1, <1>3 DEF TypeOK
<1>5. {cases', approved', expired', aborted'} \subseteq BOOLEAN
  BY <1>0, <1>1, <1>2 DEF TypeOK
<1>6. TypeOK'
  BY <1>0, <1>1, <1>2, <1>4, <1>5 DEF TypeOK
<1>7. TurnInv' /\ AskInv'
  BY <1>1 DEF TurnInv, AskInv
<1>8. OnlyTheUserApproves'
  BY <1>1 DEF Inv, OnlyTheUserApproves
<1>9. BoxInv'
  <2>1. \A m : /\ ~Contains(mem', m) /\ (Contains(db', m) => Contains(db, m))
               /\ Contains(picked', m) => Contains(picked, m)
    BY <1>1, ContainsNothing
  <2>2. picked' = <<>>
    BY <1>0, <1>1 DEF BoxInv
  <2>3. QED BY <1>0, <1>1, <1>2, <2>1, <2>2 DEF BoxInv
<1>10. QED BY <1>6, <1>7, <1>8, <1>9 DEF Inv

LEMMA NextInv == Inv /\ [Next]_vars => Inv'
<1> SUFFICES ASSUME Inv, [Next]_vars PROVE Inv'
  OBVIOUS
<1>1. CASE UNCHANGED vars
  BY <1>1 DEF vars, Inv, TypeOK, TurnInv, AskInv, OnlyTheUserApproves, BoxInv
<1>2. CASE \E m \in Msgs : Inject(m)
  BY <1>2, InjectInv
<1>3. CASE Conduct
  BY <1>3, SelectInv, UpdateInv, TurnsInv, EndsInv DEF Conduct
<1>4. CASE Abort \/ FollowUp
  BY <1>4, TurnsInv, EndsInv
<1>5. QED BY <1>1, <1>2, <1>3, <1>4 DEF Next

LEMMA SpecInv == Spec => []Inv
  BY InitInv, NextInv, PTL DEF Spec

-----------------------------------------------------------------------------
(* How a run ends *)

\* What is left of a run, most significant first: its turns, the part of the
\* turn, the gates still to pass, the polls left at the gate, and the place in
\* that part.
GateRank(g) == CASE g = "test" -> 3 [] g = "boundary" -> 2 [] g = "ask" -> 1 [] OTHER -> 0
Parking == at \in {"top", "select", "update"}
Phase == IF Parking THEN 2 ELSE IF at \in {"model", "tools"} THEN 1 ELSE 0
GatesLeft == IF Parking THEN GateRank(NextGate(waiting)) ELSE 0
TicksLeft == IF Parking THEN MaxTicks - ticks ELSE 0
Place == CASE at = "top" -> 3 [] at = "select" -> 2 [] at = "update" -> 1
           [] at = "model" -> MaxCalls + 1 [] at = "tools" -> MaxCalls - calls
           [] at = "cleanup" -> 1 [] OTHER -> 0
Rank == <<MaxTurns - turn, Phase, GatesLeft, TicksLeft, Place>>

\* The lexicographic order.
Before(a, b) == \E i \in 1 .. 5 : a[i] < b[i] /\ \A j \in 1 .. i - 1 : a[j] = b[j]

\* The mailbox is drained for the first gate that waits.
GateInv == at \in {"select", "update"} => gate = NextGate(waiting)

LEMMA LeftTyped ==
  ASSUME TypeOK
  PROVE  /\ MaxTurns - turn \in Nat /\ Phase \in 0 .. 2 /\ GatesLeft \in 0 .. 3
         /\ TicksLeft \in Nat /\ Place \in Nat
<1>1. /\ turn \in 0 .. MaxTurns /\ calls \in 0 .. MaxCalls /\ ticks \in 0 .. MaxTicks
      /\ MaxTurns \in Nat /\ MaxCalls \in Nat /\ MaxTicks \in Nat
      /\ at \in {"top", "select", "update", "model", "tools", "cleanup", "over"}
  BY LoopAssumption DEF TypeOK
<1>2. MaxTurns - turn \in Nat /\ Phase \in 0 .. 2 /\ TicksLeft \in Nat
  BY <1>1 DEF Phase, TicksLeft
<1>3. GatesLeft \in 0 .. 3
  BY DEF GatesLeft, GateRank
<1>4. Place \in Nat
  BY <1>1 DEF Place
<1>5. QED BY <1>2, <1>3, <1>4

LEMMA Lexicographic ==
  ASSUME NEW a \in [1 .. 5 -> Nat], NEW b \in [1 .. 5 -> Nat],
         \/ a[1] < b[1]
         \/ a[1] = b[1] /\ a[2] < b[2]
         \/ a[1] = b[1] /\ a[2] = b[2] /\ a[3] < b[3]
         \/ a[1] = b[1] /\ a[2] = b[2] /\ a[3] = b[3] /\ a[4] < b[4]
         \/ a[1] = b[1] /\ a[2] = b[2] /\ a[3] = b[3] /\ a[4] = b[4] /\ a[5] < b[5]
  PROVE  Before(a, b)
<1>1. 1 .. 1 - 1 = {} /\ 1 .. 2 - 1 = {1} /\ 1 .. 3 - 1 = {1, 2}
      /\ 1 .. 4 - 1 = {1, 2, 3} /\ 1 .. 5 - 1 = {1, 2, 3, 4}
  OBVIOUS
<1>2. CASE a[1] < b[1]
  BY <1>1, <1>2 DEF Before
<1>3. CASE a[1] = b[1] /\ a[2] < b[2]
  BY <1>1, <1>3 DEF Before
<1>4. CASE a[1] = b[1] /\ a[2] = b[2] /\ a[3] < b[3]
  BY <1>1, <1>4 DEF Before
<1>5. CASE a[1] = b[1] /\ a[2] = b[2] /\ a[3] = b[3] /\ a[4] < b[4]
  BY <1>1, <1>5 DEF Before
<1>6. CASE a[1] = b[1] /\ a[2] = b[2] /\ a[3] = b[3] /\ a[4] = b[4] /\ a[5] < b[5]
  BY <1>1, <1>6 DEF Before
<1>7. QED BY <1>2, <1>3, <1>4, <1>5, <1>6

LEMMA RankTyped == TypeOK => Rank \in [1 .. 5 -> Nat]
  BY LeftTyped DEF Rank

LEMMA Fewer ==
  ASSUME NEW n \in Nat, NEW a \in Nat, NEW b \in Nat, a > b
  PROVE  n - a < n - b
  OBVIOUS

\* A step brings the run nearer to its end.
LEMMA Nearer ==
  ASSUME TypeOK, TypeOK',
         \/ turn' > turn
         \/ UNCHANGED turn /\ Phase' < Phase
         \/ UNCHANGED <<turn, Phase>> /\ GatesLeft' < GatesLeft
         \/ UNCHANGED <<turn, Phase, GatesLeft>> /\ TicksLeft' < TicksLeft
         \/ UNCHANGED <<turn, Phase, GatesLeft, TicksLeft>> /\ Place' < Place
  PROVE  Before(Rank', Rank)
<1>0. TypeOK' => (Rank \in [1 .. 5 -> Nat])'
  BY RankTyped, PTL
<1>1. Rank \in [1 .. 5 -> Nat] /\ Rank' \in [1 .. 5 -> Nat]
  BY <1>0, RankTyped
<1>2. turn \in Nat /\ turn' \in Nat /\ MaxTurns \in Nat
  BY LoopAssumption DEF TypeOK
<1>3. /\ Rank[1] = MaxTurns - turn /\ Rank[2] = Phase /\ Rank[3] = GatesLeft
      /\ Rank[4] = TicksLeft /\ Rank[5] = Place
  BY DEF Rank
<1>4. /\ Rank'[1] = MaxTurns - turn' /\ Rank'[2] = Phase' /\ Rank'[3] = GatesLeft'
      /\ Rank'[4] = TicksLeft' /\ Rank'[5] = Place'
  BY DEF Rank
<1>5. turn' > turn => MaxTurns - turn' < MaxTurns - turn
  BY <1>2, Fewer
<1>6. QED BY <1>1, <1>3, <1>4, <1>5, Lexicographic

LEMMA GateNext == TypeOK /\ GateInv /\ [Next]_vars => GateInv'
<1> SUFFICES ASSUME TypeOK, GateInv, [Next]_vars PROVE GateInv'
  OBVIOUS
<1>1. CASE UNCHANGED <<at, gate, waiting>> \/ at' \notin {"select", "update"}
  BY <1>1 DEF GateInv
<1>2. CASE Top
  BY <1>2 DEF Top, GateInv
<1>3. ASSUME NEW texts, Deal(texts) PROVE GateInv'
  BY <1>3 DEF Deal, Poll, GateInv
<1>4. CASE Select
  BY <1>3, <1>4 DEF Select, GateInv
<1>5. CASE Update
  BY <1>3, <1>5 DEF Update
<1>6. CASE Model \/ EndTurn \/ Cleanup \/ Abort \/ FollowUp \/ \E m \in Msgs : Inject(m)
  BY <1>1, <1>6 DEF Model, EndTurn, Cleanup, Abort, FollowUp, Inject, ctx
<1>7. CASE Tool
  BY <1>7 DEF Tool, GateInv
<1>8. CASE UNCHANGED vars
  BY <1>1, <1>8 DEF vars
<1>9. QED BY <1>2, <1>4, <1>5, <1>6, <1>7, <1>8 DEF Next, Conduct

\* Dealing with what was drained passes the gate, uses up a poll, or begins the
\* turn.
LEMMA DealNearer ==
  ASSUME TypeOK, TypeOK', GateInv, at \in {"select", "update"}, NEW texts, Deal(texts),
         UNCHANGED turn
  PROVE  Before(Rank', Rank)
<1>0. /\ waiting \subseteq Gates /\ ticks \in 0 .. MaxTicks /\ MaxTicks \in Nat
      /\ gate = NextGate(waiting)
  BY LoopAssumption DEF TypeOK, GateInv
<1>1. CASE gate = "none" /\ at' = "model"
  BY <1>1, Nearer DEF Phase, Parking
<1>2. CASE gate # "none" /\ waiting' = waiting \ {gate} /\ at' = "select"
  <2>1. GateRank(NextGate(waiting')) < GateRank(NextGate(waiting))
    BY <1>0, <1>2 DEF NextGate, GateRank
  <2>2. Phase' = Phase /\ GatesLeft' < GatesLeft
    BY <1>2, <2>1 DEF Phase, GatesLeft, Parking
  <2>3. QED BY <2>2, Nearer
<1>3. CASE ~Expired /\ Poll
  <2>1. ticks < MaxTicks /\ ticks' = ticks + 1 /\ at' = "top" /\ waiting' = waiting
    BY <1>0, <1>3 DEF Expired, Poll
  <2>2. Phase' = Phase /\ GatesLeft' = GatesLeft
    BY <2>1 DEF Phase, GatesLeft, Parking
  <2>3. ticks \in Nat /\ ticks' \in Nat /\ ticks' > ticks
    BY <1>0, <2>1
  <2>4. MaxTicks - ticks' < MaxTicks - ticks
    BY <1>0, <2>3, Fewer
  <2>5. TicksLeft' < TicksLeft
    BY <2>1, <2>4 DEF TicksLeft, Parking
  <2>6. QED BY <2>2, <2>5, Nearer
<1>4. QED BY <1>1, <1>2, <1>3 DEF Deal

LEMMA ConductNearer ==
  ASSUME TypeOK, TypeOK', GateInv, Conduct
  PROVE  Before(Rank', Rank)
<1>0. /\ turn \in Nat /\ calls \in 0 .. MaxCalls /\ MaxCalls \in Nat
  BY LoopAssumption DEF TypeOK
<1>1. CASE Top
  <2>1. at = "top" /\ UNCHANGED <<turn, ticks, waiting>> /\ at' \in {"cleanup", "select"}
    BY <1>1 DEF Top, loop
  <2>2. CASE at' = "cleanup"
    BY <2>1, <2>2, Nearer DEF Phase, Parking
  <2>3. CASE at' = "select"
    <3>1. UNCHANGED <<Phase, GatesLeft, TicksLeft>> /\ Place' < Place
      BY <2>1, <2>3 DEF Phase, GatesLeft, TicksLeft, Place, Parking
    <3>2. QED BY <2>1, <3>1, Nearer
  <2>4. QED BY <2>1, <2>2, <2>3
<1>2. CASE Select
  <2>1. at = "select" /\ UNCHANGED turn
    BY <1>2 DEF Select, loop
  <2>2. CASE at' = "update" /\ UNCHANGED <<gate, ticks, waiting>>
    <3>1. UNCHANGED <<Phase, GatesLeft, TicksLeft>> /\ Place' < Place
      BY <2>1, <2>2 DEF Phase, GatesLeft, TicksLeft, Place, Parking
    <3>2. QED BY <2>1, <3>1, Nearer
  <2>3. CASE Deal(mem)
    BY <2>1, <2>3, DealNearer
  <2>4. QED BY <1>2, <2>2, <2>3 DEF Select
<1>3. CASE Update
  <2>1. at = "update" /\ UNCHANGED turn /\ \E texts : Deal(texts)
    BY <1>3 DEF Update, loop
  <2>2. QED BY <2>1, DealNearer
<1>4. CASE Model
  <2>1. at = "model" /\ UNCHANGED calls
        /\ ((at' \in {"tools", "cleanup"} /\ UNCHANGED turn) \/ turn' = turn + 1)
    BY <1>4 DEF Model
  <2>2. CASE at' = "tools" /\ UNCHANGED turn
    <3>1. UNCHANGED <<Phase, GatesLeft, TicksLeft>> /\ Place' < Place
      BY <1>0, <2>1, <2>2 DEF Phase, GatesLeft, TicksLeft, Place, Parking
    <3>2. QED BY <2>2, <3>1, Nearer
  <2>3. CASE turn' = turn + 1
    BY <1>0, <2>3, Nearer
  <2>4. CASE at' = "cleanup" /\ UNCHANGED turn
    BY <2>1, <2>4, Nearer DEF Phase, Parking
  <2>5. QED BY <2>1, <2>2, <2>3, <2>4
<1>5. CASE Tool
  <2>1. at = "tools" /\ at' = "tools" /\ UNCHANGED turn /\ calls' = calls + 1 /\ calls < MaxCalls
    BY <1>5 DEF Tool
  <2>2. UNCHANGED <<Phase, GatesLeft, TicksLeft>> /\ Place' < Place
    BY <1>0, <2>1 DEF Phase, GatesLeft, TicksLeft, Place, Parking
  <2>3. QED BY <2>1, <2>2, Nearer
<1>6. CASE EndTurn
  <2>1. at = "tools" /\ (turn' = turn + 1 \/ (at' = "cleanup" /\ UNCHANGED turn))
    BY <1>6 DEF EndTurn
  <2>2. CASE turn' = turn + 1
    BY <1>0, <2>2, Nearer
  <2>3. CASE at' = "cleanup" /\ UNCHANGED turn
    BY <2>1, <2>3, Nearer DEF Phase, Parking
  <2>4. QED BY <2>1, <2>2, <2>3
<1>7. CASE Cleanup
  <2>1. at = "cleanup" /\ at' = "over" /\ UNCHANGED turn
    BY <1>7 DEF Cleanup, loop
  <2>2. UNCHANGED <<Phase, GatesLeft, TicksLeft>> /\ Place' < Place
    BY <2>1 DEF Phase, GatesLeft, TicksLeft, Place, Parking
  <2>3. QED BY <2>1, <2>2, Nearer
<1>8. QED BY <1>1, <1>2, <1>3, <1>4, <1>5, <1>6, <1>7 DEF Conduct

-----------------------------------------------------------------------------
(* What the two violated promises do hold of *)

\* What was drained is heard.
LEMMA DealTakes ==
  ASSUME TypeOK, NEW texts \in Seq(Msgs), Deal(texts), NEW m \in Msgs
  PROVE  /\ heard[m] \subseteq heard'[m]
         /\ \A i \in 1 .. Len(texts) : texts[i] = m => Role(texts, i) \in heard'[m]
         /\ Contains(texts, m) => heard'[m] # {}
<1>1. heard'[m] = heard[m] \cup {Role(texts, i) : i \in {j \in 1 .. Len(texts) : texts[j] = m}}
  BY DEF Deal
<1>2. /\ heard[m] \subseteq heard'[m]
      /\ \A i \in 1 .. Len(texts) : texts[i] = m => Role(texts, i) \in heard'[m]
  BY <1>1
<1>3. QED BY <1>2 DEF Contains

\* With every statement succeeding, a message that leaves the mailbox unheard
\* came between the two statements of a drain, or to a run that was ending.
LostBetween ==
  \A m \in Msgs :
    faults' = 0 /\ Contains(db \o mem, m) /\ ~Contains(db' \o mem', m) =>
      \/ heard'[m] # {}
      \/ at = "update" /\ ~Contains(picked, m)
      \/ at \in {"cleanup", "over"}

LEMMA LostNext == Inv /\ [Next]_vars => LostBetween
<1> SUFFICES ASSUME Inv, [Next]_vars, NEW m \in Msgs, faults' = 0,
                    Contains(db \o mem, m), ~Contains(db' \o mem', m),
                    at \notin {"cleanup", "over"}
             PROVE  heard'[m] # {} \/ (at = "update" /\ ~Contains(picked, m))
  BY DEF LostBetween
<1>0. /\ TypeOK /\ faults \in Nat
      /\ db \in Seq(Msgs) /\ mem \in Seq(Msgs) /\ picked \in Seq(Msgs)
  BY LoopAssumption DEF Inv, TypeOK
<1>1. ~Fault
  BY <1>0 DEF Fault
<1>2. Contains(db, m) \/ Contains(mem, m)
  BY <1>0, ContainsCat
<1>3. ~UNCHANGED <<db, mem>>
  OBVIOUS
<1>4. ASSUME NEW x \in Msgs, Inject(x) PROVE FALSE
  <2>1. db' = Append(db, x) /\ UNCHANGED mem
    BY <1>1, <1>4 DEF Inject
  <2>2. Append(db, x) \in Seq(Msgs) /\ (Contains(db, m) => Contains(Append(db, x), m))
    BY <1>0, ContainsAppend
  <2>3. QED BY <1>0, <1>2, <2>1, <2>2, ContainsCat
<1>5. CASE Select
  <2>1. db = <<>> /\ Deal(mem)
    BY <1>1, <1>3, <1>5 DEF Select
  <2>2. Contains(mem, m)
    BY <1>2, <2>1, ContainsNothing
  <2>3. QED BY <1>0, <2>1, <2>2, DealTakes
<1>6. CASE Update
  <2>1. at = "update" /\ Deal(picked \o mem)
    BY <1>1, <1>6 DEF Update
  <2>2. CASE Contains(mem, m) \/ Contains(picked, m)
    <3>1. picked \o mem \in Seq(Msgs) /\ Contains(picked \o mem, m)
      BY <1>0, <2>2, ContainsCat
    <3>2. QED BY <1>0, <2>1, <3>1, DealTakes
  <2>3. QED BY <2>1, <2>2
<1>7. CASE Top \/ Model \/ Tool \/ EndTurn \/ Abort \/ Cleanup \/ FollowUp \/ UNCHANGED vars
  BY <1>3, <1>7 DEF Top, Model, Tool, EndTurn, Abort, Cleanup, FollowUp, box, vars
<1>8. QED BY <1>4, <1>5, <1>6, <1>7 DEF Next, Conduct

\* A set of indices that is not empty has a last one.
LEMMA LastIndex ==
  ASSUME NEW n \in Nat, NEW D \in SUBSET (1 .. n), D # {}
  PROVE  \E i \in D : \A j \in D : j <= i
<1> DEFINE Above(i) == {j \in D : j > i}
           T == {Above(i) : i \in D}
<1>1. IsFiniteSet(D)
  <2>1. IsFiniteSet(1 .. n)
    BY FS_Interval
  <2>2. QED BY <2>1, FS_Subset
<1>2. \A i \in D : Above(i) \in FiniteSubsetsOf(D)
  BY <1>1, FS_Subset DEF FiniteSubsetsOf
<1>3. T \subseteq FiniteSubsetsOf(D) /\ T # {}
  BY <1>2
<1>4. PICK A \in T : \A B \in T : <<B, A>> \notin StrictSubsetOrdering(D)
  <2> HIDE DEF T
  <2>1. IsWellFoundedOn(StrictSubsetOrdering(D), FiniteSubsetsOf(D))
    BY FS_StrictSubsetOrderingWellFounded
  <2>2. QED BY <1>3, <2>1, WFMin
<1>5. PICK i \in D : A = Above(i)
  BY <1>4
<1>6. ASSUME NEW j \in D, j > i PROVE FALSE
  <2>1. Above(j) \in T /\ Above(j) \in SUBSET D /\ Above(i) \in SUBSET D
    OBVIOUS
  <2>2. Above(j) \subseteq Above(i) /\ Above(j) # Above(i)
    <3>1. \A k \in D : k \in Nat
      OBVIOUS
    <3>2. \A k \in D : k > j => k > i
      BY <1>6, <3>1
    <3>3. j \in Above(i) /\ j \notin Above(j)
      BY <1>6, <3>1
    <3>4. QED BY <3>2, <3>3
  <2>3. <<Above(j), Above(i)>> \in StrictSubsetOrdering(D)
    BY <2>1, <2>2 DEF StrictSubsetOrdering
  <2>4. QED BY <1>4, <1>5, <2>1, <2>3
<1>7. \A j \in D : j <= i
  BY <1>6
<1>8. QED BY <1>7

\* Cases that are not approved wait for the user, who may also have had them
\* made anew.
RedoAsked == \E m \in Msgs : kind[m] = "redo_cases" /\ "decision" \in heard[m]
RedoInv == cases /\ ~approved => "test" \in waiting \/ RedoAsked

LEMMA DealRedo ==
  ASSUME Inv, RedoInv, NEW texts \in Seq(Msgs), Deal(texts), UNCHANGED <<kind, cases>>
  PROVE  RedoInv'
<1>0. TypeOK
  BY DEF Inv
<1>1. RedoAsked => RedoAsked'
  BY <1>0, DealTakes DEF RedoAsked
<1>2. CASE UNCHANGED <<waiting, approved>>
  BY <1>1, <1>2 DEF RedoInv
<1>3. CASE /\ gate # "none" /\ waiting' = waiting \ {gate}
           /\ approved' = IF gate = "test" THEN Approves(texts) ELSE approved
  <2>1. CASE gate # "test"
    BY <1>1, <1>3, <2>1 DEF RedoInv
  <2>2. CASE gate = "test" /\ ~approved'
    <3>1. Indices(texts, "decision") # {} /\ Indices(texts, "decision") \in SUBSET (1 .. Len(texts))
      BY <1>3, <2>2 DEF Approves, Indices
    <3>2. Len(texts) \in Nat
      OBVIOUS
    <3>3. PICK i \in Indices(texts, "decision") : \A j \in Indices(texts, "decision") : j <= i
      <4> HIDE DEF Indices
      <4>1. QED BY <3>1, <3>2, LastIndex
    <3>4. kind[texts[i]] # "run_cases"
      BY <1>3, <2>2, <3>3 DEF Approves
    <3>5. i \in 1 .. Len(texts) /\ Role(texts, i) = "decision" /\ texts[i] \in Msgs
      BY <3>3 DEF Indices
    <3>6. kind[texts[i]] = "redo_cases"
      BY <2>2, <3>4, <3>5 DEF Role, Decisions
    <3>7. RedoAsked'
      BY <1>0, <3>5, <3>6, DealTakes DEF RedoAsked
    <3>8. QED BY <3>7 DEF RedoInv
  <2>3. QED BY <2>1, <2>2 DEF RedoInv
<1>4. QED BY <1>2, <1>3 DEF Deal, Poll

LEMMA RedoNext == Inv /\ RedoInv /\ [Next]_vars => RedoInv'
<1> SUFFICES ASSUME Inv, RedoInv, [Next]_vars PROVE RedoInv'
  OBVIOUS
<1>0. TypeOK /\ mem \in Seq(Msgs) /\ picked \in Seq(Msgs)
  BY DEF Inv, TypeOK
<1>1. ASSUME NEW m \in Msgs, Inject(m) PROVE RedoInv'
  <2>1. UNCHANGED <<heard, cases, approved, waiting>> /\ kind[m] = "unsent"
        /\ \A x \in Msgs \ {m} : kind'[x] = kind[x]
    BY <1>0, <1>1 DEF Inject, loop, TypeOK
  <2>2. QED BY <2>1 DEF RedoInv, RedoAsked
<1>2. CASE UNCHANGED <<heard, kind, cases, approved, waiting>>
  BY <1>2 DEF RedoInv, RedoAsked
<1>3. CASE Select
  BY <1>0, <1>2, <1>3, DealRedo DEF Select, loop
<1>4. CASE Update
  <2>1. picked \o mem \in Seq(Msgs)
    BY <1>0, ContainsCat
  <2>2. QED BY <1>0, <1>4, <2>1, DealRedo DEF Update, loop
<1>5. CASE Tool
  <2>1. UNCHANGED <<heard, kind>>
    BY <1>5 DEF Tool, box
  <2>2. CASE Propose
    BY <2>2 DEF Propose, RedoInv
  <2>3. CASE UNCHANGED <<cases, waiting, approved>>
    BY <1>2, <2>1, <2>3
  <2>4. CASE \E g \in {"boundary", "ask"} :
               waiting' = waiting \cup {g} /\ UNCHANGED <<cases, approved, deployed>>
    BY <2>1, <2>4 DEF RedoInv, RedoAsked
  <2>5. QED BY <1>5, <2>2, <2>3, <2>4 DEF Tool, Sandbox
<1>6. CASE Top \/ Model \/ EndTurn \/ Cleanup \/ Abort \/ FollowUp \/ UNCHANGED vars
  BY <1>2, <1>6 DEF Top, Model, EndTurn, Cleanup, Abort, FollowUp, box, ctx, loop, vars
<1>7. QED BY <1>1, <1>3, <1>4, <1>5, <1>6 DEF Next, Conduct

\* A deployment that goes out unapproved goes out in the very turn in which the
\* cases were proposed, before the question is put, or after the user asked for
\* other cases.
EarlyOrRedone == deployed' # deployed => approved \/ "test" \in waiting \/ RedoAsked

LEMMA DeployNext == RedoInv /\ [Next]_vars => EarlyOrRedone
<1> SUFFICES ASSUME RedoInv, [Next]_vars, deployed' # deployed
             PROVE  approved \/ "test" \in waiting \/ RedoAsked
  BY DEF EarlyOrRedone
<1>1. CASE Tool
  <2>1. cases \/ "test" \in waiting
    BY <1>1 DEF Tool, Sandbox, Propose
  <2>2. QED BY <2>1 DEF RedoInv
<1>2. UNCHANGED deployed \/ Tool
  BY DEF Next, Conduct, Inject, Top, Select, Update, Model, EndTurn, Cleanup, Abort, FollowUp,
         ctx, loop, vars
<1>3. QED BY <1>1, <1>2

-----------------------------------------------------------------------------
(* The theorems *)

\* The types are right, and the turn limit and the time-out of a park are kept.
THEOREM TypeCorrect == Spec => []TypeOK
<1>1. Inv => TypeOK
  BY DEF Inv
<1>2. QED BY <1>1, SpecInv, PTL

\* The model has no turn while a question to the user is open.
THEOREM AsksFirst == Spec => []NoTurnWhileAsking
<1>1. Inv => NoTurnWhileAsking
  BY DEF Inv, AskInv, NoTurnWhileAsking
<1>2. QED BY <1>1, SpecInv, PTL

\* Nothing but the user's decision, or the time-out, approves test cases.
THEOREM ApprovalIsTheUsers == Spec => []OnlyTheUserApproves
<1>1. Inv => OnlyTheUserApproves
  BY DEF Inv
<1>2. QED BY <1>1, SpecInv, PTL

\* Without failures, a message that was acted on is not acted on again.
THEOREM MessagesOnce == Spec => []ActedOnOnce
<1>1. ASSUME Inv, faults = 0, NEW m \in Msgs, heard[m] # {}
      PROVE  ~Contains(db \o mem \o picked, m)
  <2>1. db \in Seq(Msgs) /\ mem \in Seq(Msgs) /\ picked \in Seq(Msgs)
    BY <1>1 DEF Inv, TypeOK
  <2>2. ~Contains(db, m) /\ ~Contains(mem, m) /\ ~Contains(picked, m)
    BY <1>1 DEF Inv, BoxInv
  <2>3. db \o mem \in Seq(Msgs) /\ ~Contains(db \o mem, m)
    BY <2>1, <2>2, ContainsCat
  <2>4. QED BY <2>1, <2>2, <2>3, ContainsCat
<1>2. Inv => ActedOnOnce
  BY <1>1 DEF ActedOnOnce
<1>3. QED BY <1>2, SpecInv, PTL

\* RunEnds, but for the conductor being scheduled: every one of its steps brings
\* the run nearer to its end, and no message or stop puts the end off.  Ranks are
\* tuples of naturals and their order is lexicographic, so a run has only so
\* many steps, parks and time-outs included.
RunWindsDown ==
  /\ Rank \in [1 .. 5 -> Nat]
  /\ Conduct => Before(Rank', Rank)
  /\ Abort \/ (\E m \in Msgs : Inject(m)) => Rank' = Rank

\* A run winds down, whatever is said to it meanwhile: what RunEnds rests on.
THEOREM RunsWindDown == Spec => [][RunWindsDown]_vars
<1>1. Init => GateInv
  BY DEF Init, GateInv
<1>2. ASSUME TypeOK, TypeOK', GateInv, Next PROVE RunWindsDown
  <2>1. Rank \in [1 .. 5 -> Nat]
    BY <1>2, RankTyped
  <2>2. Conduct => Before(Rank', Rank)
    BY <1>2, ConductNearer
  <2>3. Abort \/ (\E m \in Msgs : Inject(m)) => UNCHANGED <<at, turn, waiting, ticks, calls>>
    BY DEF Abort, Inject, ctx, loop
  <2>4. UNCHANGED <<at, turn, waiting, ticks, calls>> => Rank' = Rank
    BY DEF Rank, Phase, GatesLeft, TicksLeft, Place, Parking
  <2>5. QED BY <2>1, <2>2, <2>3, <2>4 DEF RunWindsDown
<1>3. Inv => TypeOK
  BY DEF Inv
<1>4. QED BY <1>1, <1>2, <1>3, GateNext, SpecInv, PTL DEF Spec

\* The exact gap in the drain: while a run is on and no statement fails, the
\* only message that can leave the mailbox unheard is one inserted after the
\* drain selected its rows and before it marked all rows consumed.
THEOREM LostOnlyInBetween == Spec => [][LostBetween]_vars
  BY LostNext, SpecInv, PTL DEF Spec

\* The exact gap in the approval of deployments: an unapproved deployment goes
\* out only before the question about its cases is put, in the turn of tools that
\* proposed them, or once the user has asked for cases to be made anew.
THEOREM DeploysEarlyOrRedone == Spec => [][EarlyOrRedone]_vars
<1>1. Init => RedoInv
  BY DEF Init, RedoInv
<1>2. QED BY <1>1, RedoNext, DeployNext, SpecInv, PTL DEF Spec
=============================================================================
