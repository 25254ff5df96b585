-------------------------- MODULE EventGatewayProofs --------------------------
(***************************************************************************)
(* Theorems about EventGateway, for any number of calls and keys, any set  *)
(* of modes, and any number of failures and restarts.                      *)
(***************************************************************************)
EXTENDS EventGateway, TLAPS

-----------------------------------------------------------------------------
(* Type correctness *)

\* The server starts in a well-typed state.
LEMMA InitTypeOK == Init => TypeOK
  BY GatewayAssumption DEF Init, TypeOK

\* The ids publish sends under are ids of the bus.
LEMMA KeysTyped ==
  ASSUME TypeOK, NEW c \in Calls
  PROVE  /\ IdempotencyKey(c) \in ({"key"} \X Keys) \cup ({"event", "uuid"} \X Calls)
         /\ FallbackKey(c) \in ({"key"} \X Keys) \cup ({"event", "uuid"} \X Calls)
  BY DEF TypeOK, IdempotencyKey, FallbackKey

\* inngest.send keeps the bus well typed.
LEMMA LandTyped ==
  ASSUME TypeOK, NEW c \in Calls, NEW body \in {"raw", "validated"},
         NEW id \in ({"key"} \X Keys) \cup ({"event", "uuid"} \X Calls),
         Land(c, id, body)
  PROVE  bus' \subseteq [id : ({"key"} \X Keys) \cup ({"event", "uuid"} \X Calls),
                         call : Calls, body : {"raw", "validated"}]
  BY DEF TypeOK, Land

\* A row write keeps the table, the counters and the flag well typed.
LEMMA InsertTyped ==
  ASSUME TypeOK, NEW c \in Calls, NEW s \in Statuses,
         NEW l \in {"send", "nack", "audit"}, InsertRow(c, s, l)
  PROVE  /\ pc' \in [Calls -> InFlight \cup {"idle", "done", "lost"}]
         /\ res' = res
         /\ rows' \subseteq [id : Calls, ext : Keys \cup {NoKey}, status : Statuses]
         /\ emState' \in {"healthy", "degraded"}
         /\ faults' \in 0 .. MaxFaults
  BY GatewayAssumption DEF TypeOK, InsertRow, Throw, Goto, Fault, Row, InFlight

\* Every await of em.publish keeps the types.
LEMMA StepTypeOK ==
  ASSUME TypeOK, NEW c \in Calls, Step(c)
  PROVE  TypeOK'
<1> USE GatewayAssumption
<1>1. CASE Bypass(c)
  <2>1. bus' \subseteq [id : ({"key"} \X Keys) \cup ({"event", "uuid"} \X Calls),
                        call : Calls, body : {"raw", "validated"}]
    BY <1>1, KeysTyped, LandTyped DEF Bypass, TypeOK
  <2>2. QED BY <1>1, <2>1 DEF Bypass, TypeOK, Answer, Fault, InFlight, Results
<1>2. CASE Parse(c)
  BY <1>2 DEF Parse, TypeOK, Goto, Route, InFlight, Verdicts
<1>3. CASE WritePassthrough(c)
  BY <1>3, InsertTyped DEF WritePassthrough, TypeOK, Statuses
<1>4. CASE WriteRejected(c)
  BY <1>4, InsertTyped DEF WriteRejected, TypeOK, Statuses
<1>5. CASE Nack(c)
  BY <1>5 DEF Nack, TypeOK, Answer, Fault, InFlight, Results
<1>6. CASE Lookup(c)
  BY <1>6 DEF Lookup, TypeOK, Answer, Goto, Throw, Fault, InFlight, Results
<1>7. CASE WriteAccepted(c)
  BY <1>7, InsertTyped DEF WriteAccepted, TypeOK, Statuses
<1>8. CASE WriteAudit(c)
  BY <1>8 DEF WriteAudit, TypeOK, Goto, Fault, InFlight
<1>9. CASE Send(c)
  <2>1. bus' \subseteq [id : ({"key"} \X Keys) \cup ({"event", "uuid"} \X Calls),
                        call : Calls, body : {"raw", "validated"}]
    BY <1>9, KeysTyped, LandTyped DEF Send, TypeOK
  <2>2. QED
    BY <1>9, <2>1 DEF Send, TypeOK, Answer, Goto, Throw, Fault, InFlight, Results
<1>10. CASE RawSend(c)
  <2>1. bus' \subseteq [id : ({"key"} \X Keys) \cup ({"event", "uuid"} \X Calls),
                        call : Calls, body : {"raw", "validated"}]
    BY <1>10, KeysTyped, LandTyped DEF RawSend, TypeOK
  <2>2. QED BY <1>10, <2>1 DEF RawSend, TypeOK, Answer, Fault, InFlight, Results
<1>11. QED
  BY <1>1, <1>2, <1>3, <1>4, <1>5, <1>6, <1>7, <1>8, <1>9, <1>10 DEF Step

\* So does every step of the gateway.
LEMMA NextTypeOK == TypeOK /\ [Next]_vars => TypeOK'
<1> USE GatewayAssumption
<1> SUFFICES ASSUME TypeOK, [Next]_vars PROVE TypeOK'
  OBVIOUS
<1>1. ASSUME NEW c \in Calls, Submit(c) \/ Replay(c) PROVE TypeOK'
  <2>1. \E k \in Keys \cup {NoKey}, e \in BOOLEAN : Begin(c, k, e)
    BY <1>1 DEF Submit, Replay
  <2>2. PICK k \in Keys \cup {NoKey}, e \in BOOLEAN : Begin(c, k, e)
    BY <2>1
  <2>3. /\ pc' \in [Calls -> InFlight \cup {"idle", "done", "lost"}]
        /\ ext' \in [Calls -> Keys \cup {NoKey}]
        /\ emit' \in [Calls -> BOOLEAN]
    BY <2>2 DEF Begin, Goto, TypeOK, InFlight
  <2>4. QED BY <2>2, <2>3 DEF Begin, Goto, TypeOK
<1>2. ASSUME NEW c \in Calls, Step(c) PROVE TypeOK'
  BY <1>2, StepTypeOK
<1>3. CASE ProbeStart
  BY <1>3 DEF ProbeStart, TypeOK
<1>4. CASE ProbeEnd
  BY <1>4 DEF ProbeEnd, TypeOK, Fault
<1>5. CASE Restart
  BY <1>5 DEF Restart, TypeOK
<1>6. CASE UNCHANGED vars
  BY <1>6 DEF vars, TypeOK
<1>7. QED
  BY <1>1, <1>2, <1>3, <1>4, <1>5, <1>6 DEF Next

\* Every variable keeps its type, for every value of the constants.
THEOREM TypeCorrect == Spec => []TypeOK
  BY InitTypeOK, NextTypeOK, PTL DEF Spec

-----------------------------------------------------------------------------
(* The inductive invariant *)

\* Calls that hold, or have just tried to write, an EventInstance row.
RowHolders == {"nack", "audit", "send", "raw", "done", "lost"}

\* A row names the call that wrote it and the external id of that call.
RowsSigned == \A r \in rows : r.ext = ext[r.id] /\ pc[r.id] \in RowHolders

\* One row per call and one per external id: the primary key and the unique index.
RowsUnique ==
  \A r, s \in rows : r.id = s.id \/ (r.ext # NoKey /\ r.ext = s.ext) => r = s

\* A call has an answer exactly when it is done.
AnsweredWhenDone == \A c \in Calls : pc[c] = "done" <=> res[c] # "none"

HasRow(c, S) == \E r \in rows : r.id = c /\ r.status \in S

\* The steps after a write run on the row that was written.
StepsHaveRows ==
  \A c \in Calls :
    /\ pc[c] \in {"audit", "send"} => HasRow(c, Forwarded)
    /\ pc[c] = "nack" => HasRow(c, {"rejected_schema"})

\* A verdict, or an EVENT_REJECTED, goes with the row that records it.
VerdictsHaveRows ==
  \A c \in Calls :
    /\ res[c] \in {"accepted", "passthrough"} => HasRow(c, Forwarded)
    /\ res[c] \in {"schema", "no_schema"} => HasRow(c, {"rejected_schema"})
    /\ c \in nacks => HasRow(c, {"rejected_schema"})

\* A forwarded answer has its message; only the fallback uses a fresh id.
AnswersHaveMessages ==
  \A c \in Calls :
    /\ res[c] \in {"accepted", "passthrough"} => OnBus(IdempotencyKey(c))
    /\ OnBus(<<"uuid", c>>) => res[c] = "em_degraded"

\* Enforced schemas: past the schema check, the verdict was "ok".
StrictVerdict ==
  mode = "strict" =>
    \A c \in Calls : /\ pc[c] # "pass"
                     /\ pc[c] \in {"lookup", "accept", "audit", "send"} => verdict[c] = "ok"

IInv ==
  /\ TypeOK
  /\ RowsSigned /\ RowsUnique
  /\ AnsweredWhenDone
  /\ StepsHaveRows /\ VerdictsHaveRows
  /\ AnswersHaveMessages
  /\ NoSilentLoss
  /\ StrictVerdict
  /\ EnforcedModeValidates

\* At the start there are no rows, messages or answers to account for.
LEMMA InitIInv == Init => IInv
  BY InitTypeOK DEF Init, IInv, RowsSigned, RowsUnique, AnsweredWhenDone,
     StepsHaveRows, VerdictsHaveRows, AnswersHaveMessages, NoSilentLoss,
     StrictVerdict, EnforcedModeValidates, OnBus

\* What the bus accepts, it keeps, and it accepts one message at most.
LEMMA LandEffect ==
  ASSUME NEW c, NEW id, NEW body, Land(c, id, body)
  PROVE  /\ bus \subseteq bus'
         /\ OnBus(id)'
         /\ \A i : OnBus(i)' => OnBus(i) \/ i = id
         /\ \A m \in bus' : m \in bus \/ (m.call = c /\ m.body = body)
<1>1. CASE OnBus(id)
  BY <1>1 DEF Land, OnBus
<1>2. CASE ~OnBus(id)
  <2> DEFINE new == [id |-> id, call |-> c, body |-> body]
  <2>1. bus' = bus \cup {new}
    BY <1>2 DEF Land
  <2>2. new.id = id /\ new.call = c /\ new.body = body
    OBVIOUS
  <2> HIDE DEF new
  <2>3. QED BY <2>1, <2>2 DEF OnBus
<1>3. QED BY <1>1, <1>2

\* Step 0 answers em_degraded, which promises nothing.
LEMMA BypassIInv ==
  ASSUME IInv, NEW c \in Calls, Bypass(c)
  PROVE  IInv'
<1> USE DEF IInv, Bypass, Answer
<1>1. TypeOK'
  BY StepTypeOK DEF Step
<1>2. \A i : OnBus(i) => OnBus(i)'
  BY LandEffect DEF OnBus
<1>3. \A i : OnBus(i)' => OnBus(i) \/ i = FallbackKey(c)
  BY LandEffect DEF OnBus
<1>4. \A m \in bus' : m \in bus \/ (m.call = c /\ m.body = "raw")
  BY LandEffect
<1>5. RowsSigned' /\ RowsUnique'
  BY DEF RowsSigned, RowsUnique, RowHolders, TypeOK
<1>6. AnsweredWhenDone'
  BY DEF AnsweredWhenDone, TypeOK
<1>7. StepsHaveRows' /\ VerdictsHaveRows'
  BY DEF StepsHaveRows, VerdictsHaveRows, HasRow, TypeOK
<1>8. AnswersHaveMessages'
  BY <1>2, <1>3 DEF AnswersHaveMessages, IdempotencyKey, FallbackKey, TypeOK, AnsweredWhenDone
<1>9. NoSilentLoss'
  BY <1>2 DEF NoSilentLoss, IdempotencyKey, TypeOK
<1>10. StrictVerdict' /\ EnforcedModeValidates'
  BY <1>4 DEF StrictVerdict, EnforcedModeValidates, TypeOK
<1>11. QED
  BY <1>1, <1>5, <1>6, <1>7, <1>8, <1>9, <1>10

\* The schema check writes nothing; in strict mode it lets only "ok" through.
LEMMA ParseIInv ==
  ASSUME IInv, NEW c \in Calls, Parse(c)
  PROVE  IInv'
<1> USE DEF IInv, Parse, Goto
<1>1. TypeOK'
  BY StepTypeOK DEF Step
<1>2. PICK v \in Verdicts : /\ verdict' = [verdict EXCEPT ![c] = v]
                            /\ pc' = [pc EXCEPT ![c] = Route(c, v)]
  OBVIOUS
<1>3. Route(c, v) \in {"pass", "reject", "lookup", "accept"}
  BY <1>2 DEF Route, Verdicts
<1>4. mode = "strict" => /\ Route(c, v) # "pass"
                         /\ Route(c, v) \in {"lookup", "accept"} => v = "ok"
  BY <1>2 DEF Route, Verdicts
<1>5. RowsSigned' /\ RowsUnique'
  BY <1>2 DEF RowsSigned, RowsUnique, RowHolders, TypeOK
<1>6. AnsweredWhenDone'
  BY <1>2, <1>3 DEF AnsweredWhenDone, TypeOK
<1>7. StepsHaveRows' /\ VerdictsHaveRows'
  BY <1>2, <1>3 DEF StepsHaveRows, VerdictsHaveRows, HasRow, TypeOK
<1>8. AnswersHaveMessages'
  BY DEF AnswersHaveMessages, IdempotencyKey, OnBus
<1>9. NoSilentLoss'
  BY <1>2 DEF NoSilentLoss, IdempotencyKey, OnBus, TypeOK
<1>10. StrictVerdict'
  <2>1. pc'[c] = Route(c, v) /\ verdict'[c] = v
    BY <1>2 DEF TypeOK
  <2>2. \A d \in Calls : d # c => pc'[d] = pc[d] /\ verdict'[d] = verdict[d]
    BY <1>2 DEF TypeOK
  <2>3. QED BY <1>3, <1>4, <2>1, <2>2 DEF StrictVerdict
<1>11. EnforcedModeValidates'
  BY DEF EnforcedModeValidates
<1>12. QED
  BY <1>1, <1>5, <1>6, <1>7, <1>8, <1>9, <1>10, <1>11

\* What EventInstance.create changes: it adds the row of c, or fails.
LEMMA InsertEffect ==
  ASSUME TypeOK, NEW c \in Calls, NEW s \in Statuses, NEW l, InsertRow(c, s, l)
  PROVE  /\ res' = res
         /\ \/ pc' = [pc EXCEPT ![c] = l] /\ rows' = rows \cup {Row(c, s)}
            \/ /\ pc' = [pc EXCEPT ![c] = "raw"]
               /\ rows' = rows \/ rows' = rows \cup {Row(c, s)}
         /\ rows' = rows \/ ~ExtTaken(ext[c])
  BY DEF InsertRow, Goto, Throw

\* The three writers differ in the status they write and the step that follows.
LEMMA InsertIInv ==
  ASSUME IInv, TypeOK', NEW c \in Calls, NEW s \in Statuses,
         NEW l \in {"send", "nack", "audit"},
         l = "nack" <=> s = "rejected_schema",
         InsertRow(c, s, l),
         pc[c] \in {"pass", "reject", "accept"},
         mode = "strict" /\ l # "nack" => verdict[c] = "ok",
         UNCHANGED <<mode, ext, verdict, bus, nacks>>
  PROVE  IInv'
<1> USE DEF IInv
<1> DEFINE new == Row(c, s)
<1>0. new.id = c /\ new.ext = ext[c] /\ new.status = s
  BY DEF Row
<1>1. /\ res' = res
      /\ pc' = [pc EXCEPT ![c] = pc'[c]] /\ pc'[c] \in {l, "raw"}
      /\ rows' = rows \/ rows' = rows \cup {new}
      /\ pc'[c] = l => new \in rows'
      /\ rows' = rows \/ ~ExtTaken(ext[c])
  BY InsertEffect DEF TypeOK
<1> HIDE DEF new
<1>2. \A r \in rows : r.id # c
  BY DEF RowsSigned, RowHolders
<1>3. RowsSigned'
  BY <1>0, <1>1 DEF RowsSigned, RowHolders, TypeOK
<1>4. RowsUnique'
  BY <1>0, <1>1, <1>2 DEF RowsUnique, RowsSigned, ExtTaken, TypeOK
<1>5. AnsweredWhenDone'
  BY <1>1 DEF AnsweredWhenDone, TypeOK
<1>6. rows \subseteq rows'
  BY <1>1
<1>7. StepsHaveRows'
  BY <1>0, <1>1, <1>6 DEF StepsHaveRows, HasRow, Statuses, Forwarded, TypeOK
<1>8. VerdictsHaveRows'
  BY <1>1, <1>6 DEF VerdictsHaveRows, HasRow
<1>9. AnswersHaveMessages'
  BY <1>1 DEF AnswersHaveMessages, IdempotencyKey, OnBus
<1>10. NoSilentLoss'
  <2> SUFFICES ASSUME NEW r \in rows', r.status \in Forwarded,
                      ~OnBus(IdempotencyKey(r.id))
               PROVE  \/ pc'[r.id] \in {"audit", "send", "raw", "lost"}
                      \/ res[r.id] = "em_degraded"
    BY <1>1 DEF NoSilentLoss, IdempotencyKey, OnBus
  <2>1. CASE r = new
    BY <1>0, <1>1, <2>1 DEF Forwarded
  <2>2. CASE r \in rows
    BY <1>1, <1>2, <2>2 DEF NoSilentLoss, TypeOK
  <2>3. QED BY <1>1, <2>1, <2>2
<1>11. StrictVerdict' /\ EnforcedModeValidates'
  BY <1>1 DEF StrictVerdict, EnforcedModeValidates, TypeOK
<1>12. QED
  BY <1>3, <1>4, <1>5, <1>7, <1>8, <1>9, <1>10, <1>11

\* The passthrough, the rejected and the accepted row.
LEMMA WritesIInv ==
  ASSUME IInv, NEW c \in Calls,
         WritePassthrough(c) \/ WriteRejected(c) \/ WriteAccepted(c)
  PROVE  IInv'
<1>1. TypeOK'
  BY StepTypeOK DEF Step, IInv
<1>2. CASE WritePassthrough(c)
  <2>1. mode # "strict"
    BY <1>2 DEF WritePassthrough, IInv, StrictVerdict
  <2>2. QED BY <1>1, <1>2, <2>1, InsertIInv DEF WritePassthrough, Statuses
<1>3. CASE WriteRejected(c)
  BY <1>1, <1>3, InsertIInv DEF WriteRejected, Statuses
<1>4. CASE WriteAccepted(c)
  <2>1. mode = "strict" => verdict[c] = "ok"
    BY <1>4 DEF WriteAccepted, IInv, StrictVerdict
  <2>2. QED BY <1>1, <1>4, <2>1, InsertIInv DEF WriteAccepted, Statuses
<1>5. QED BY <1>2, <1>3, <1>4

\* The rejection emitter answers on the rejected row.
LEMMA NackIInv ==
  ASSUME IInv, NEW c \in Calls, Nack(c)
  PROVE  IInv'
<1> USE DEF IInv, Nack, Answer
<1>1. TypeOK'
  BY StepTypeOK DEF Step
<1>2. HasRow(c, {"rejected_schema"})
  BY DEF StepsHaveRows
<1>3. RowsSigned' /\ RowsUnique'
  BY DEF RowsSigned, RowsUnique, RowHolders, TypeOK
<1>4. AnsweredWhenDone'
  BY DEF AnsweredWhenDone, TypeOK
<1>5. StepsHaveRows' /\ VerdictsHaveRows'
  BY <1>2 DEF StepsHaveRows, VerdictsHaveRows, HasRow, TypeOK
<1>6. AnswersHaveMessages'
  BY DEF AnswersHaveMessages, IdempotencyKey, OnBus, TypeOK, AnsweredWhenDone
<1>7. NoSilentLoss'
  BY <1>2 DEF NoSilentLoss, IdempotencyKey, OnBus, TypeOK, HasRow, RowsUnique, Forwarded
<1>8. StrictVerdict' /\ EnforcedModeValidates'
  BY DEF StrictVerdict, EnforcedModeValidates, TypeOK, AnsweredWhenDone
<1>9. QED
  BY <1>1, <1>3, <1>4, <1>5, <1>6, <1>7, <1>8

\* The dedup read answers duplicate, which promises nothing.
LEMMA LookupIInv ==
  ASSUME IInv, NEW c \in Calls, Lookup(c)
  PROVE  IInv'
<1> USE DEF IInv, Lookup, Answer, Goto, Throw
<1>1. TypeOK'
  BY StepTypeOK DEF Step
<1>2. /\ pc' = [pc EXCEPT ![c] = pc'[c]]
      /\ \/ pc'[c] = "done" /\ res' = [res EXCEPT ![c] = "duplicate"]
         \/ pc'[c] \in {"accept", "raw"} /\ res' = res
  BY DEF TypeOK
<1>3. RowsSigned' /\ RowsUnique'
  BY <1>2 DEF RowsSigned, RowsUnique, RowHolders, TypeOK
<1>4. AnsweredWhenDone'
  BY <1>2 DEF AnsweredWhenDone, TypeOK
<1>5. StepsHaveRows' /\ VerdictsHaveRows'
  BY <1>2 DEF StepsHaveRows, VerdictsHaveRows, HasRow, TypeOK
<1>6. AnswersHaveMessages'
  BY <1>2 DEF AnswersHaveMessages, IdempotencyKey, OnBus, TypeOK, AnsweredWhenDone
<1>7. NoSilentLoss'
  BY <1>2 DEF NoSilentLoss, IdempotencyKey, OnBus, TypeOK, RowsSigned, RowHolders
<1>8. StrictVerdict' /\ EnforcedModeValidates'
  BY <1>2 DEF StrictVerdict, EnforcedModeValidates, TypeOK, AnsweredWhenDone
<1>9. QED
  BY <1>1, <1>3, <1>4, <1>5, <1>6, <1>7, <1>8

\* The audit row is best effort and changes nothing else.
LEMMA WriteAuditIInv ==
  ASSUME IInv, NEW c \in Calls, WriteAudit(c)
  PROVE  IInv'
<1> USE DEF IInv, WriteAudit, Goto
<1>1. TypeOK'
  BY StepTypeOK DEF Step
<1>2. RowsSigned' /\ RowsUnique'
  BY DEF RowsSigned, RowsUnique, RowHolders, TypeOK
<1>3. AnsweredWhenDone'
  BY DEF AnsweredWhenDone, TypeOK
<1>4. StepsHaveRows' /\ VerdictsHaveRows'
  BY DEF StepsHaveRows, VerdictsHaveRows, HasRow, TypeOK
<1>5. AnswersHaveMessages'
  BY DEF AnswersHaveMessages, IdempotencyKey, OnBus
<1>6. NoSilentLoss'
  BY DEF NoSilentLoss, IdempotencyKey, OnBus, TypeOK
<1>7. StrictVerdict' /\ EnforcedModeValidates'
  BY DEF StrictVerdict, EnforcedModeValidates, TypeOK
<1>8. QED
  BY <1>1, <1>2, <1>3, <1>4, <1>5, <1>6, <1>7

\* The send earns the answer: the message is on the bus when it is given.
LEMMA SendIInv ==
  ASSUME IInv, NEW c \in Calls, Send(c)
  PROVE  IInv'
<1> USE DEF IInv
<1> DEFINE body == IF verdict[c] = "ok" THEN "validated" ELSE "raw"
           path == IF mode = "passthrough" /\ verdict[c] # "ok"
                   THEN "passthrough" ELSE "accepted"
<1>1. TypeOK'
  BY StepTypeOK DEF Step
<1>2. /\ pc[c] = "send"
      /\ UNCHANGED <<mode, ext, verdict, rows, nacks>>
      /\ \/ /\ Land(c, IdempotencyKey(c), body)
            /\ pc' = [pc EXCEPT ![c] = "done"] /\ res' = [res EXCEPT ![c] = path]
         \/ /\ pc' = [pc EXCEPT ![c] = "raw"] /\ res' = res
            /\ bus' = bus \/ Land(c, IdempotencyKey(c), body)
  BY DEF Send, Answer, Goto, Throw
<1>3. path \in {"passthrough", "accepted"} /\ (mode = "strict" => body = "validated")
  BY <1>2 DEF StrictVerdict
<1>4. /\ \A i : OnBus(i) => OnBus(i)'
      /\ \A i : OnBus(i)' => OnBus(i) \/ i = IdempotencyKey(c)
      /\ \A m \in bus' : m \in bus \/ (m.call = c /\ m.body = body)
      /\ pc'[c] = "done" => OnBus(IdempotencyKey(c))'
  <2>1. CASE Land(c, IdempotencyKey(c), body)
    <3>1. bus \subseteq bus' /\ \E m \in bus' : m.id = IdempotencyKey(c)
      BY <1>2, <2>1, LandEffect DEF OnBus, IdempotencyKey
    <3>2. \A i : OnBus(i)' => OnBus(i) \/ i = IdempotencyKey(c)
      BY <2>1, LandEffect
    <3>3. \A m \in bus' : m \in bus \/ (m.call = c /\ m.body = body)
      BY <2>1, LandEffect
    <3>4. QED BY <1>2, <3>1, <3>2, <3>3 DEF OnBus, IdempotencyKey
  <2>2. CASE bus' = bus /\ pc' = [pc EXCEPT ![c] = "raw"]
    BY <2>2 DEF OnBus, TypeOK
  <2>3. QED BY <1>2, <2>1, <2>2
<1> HIDE DEF body, path
<1>5. HasRow(c, Forwarded)
  BY <1>2 DEF StepsHaveRows
<1>6. RowsSigned' /\ RowsUnique'
  BY <1>2 DEF RowsSigned, RowsUnique, RowHolders, TypeOK
<1>7. AnsweredWhenDone'
  BY <1>2, <1>3 DEF AnsweredWhenDone, TypeOK
<1>8. StepsHaveRows' /\ VerdictsHaveRows'
  BY <1>2, <1>3, <1>5 DEF StepsHaveRows, VerdictsHaveRows, HasRow, TypeOK
<1>9. AnswersHaveMessages'
  BY ZenonT(40), <1>2, <1>3, <1>4 DEF AnswersHaveMessages, IdempotencyKey, TypeOK, AnsweredWhenDone
<1>10. NoSilentLoss'
  <2> SUFFICES ASSUME NEW r \in rows, r.status \in Forwarded,
                      ~OnBus(IdempotencyKey(r.id))'
               PROVE  \/ pc'[r.id] \in {"audit", "send", "raw", "lost"}
                      \/ res'[r.id] = "em_degraded"
    BY <1>2 DEF NoSilentLoss
  <2>1. ~OnBus(IdempotencyKey(r.id)) /\ r.id \in Calls
    BY <1>2, <1>4 DEF IdempotencyKey, TypeOK
  <2>2. CASE r.id = c
    BY <1>2, <1>4, <2>2 DEF IdempotencyKey, TypeOK
  <2>3. CASE r.id # c
    BY <1>2, <2>1, <2>3 DEF NoSilentLoss, TypeOK
  <2>4. QED BY <2>2, <2>3
<1>11. StrictVerdict' /\ EnforcedModeValidates'
  <2>1. StrictVerdict'
    BY <1>2 DEF StrictVerdict, TypeOK
  <2>2. \A m \in bus' : mode = "strict" /\ m.body = "raw" => m \in bus
    BY <1>3, <1>4
  <2>3. \A d \in Calls : res[d] = "em_degraded" => res'[d] = "em_degraded"
    BY <1>2 DEF AnsweredWhenDone, TypeOK
  <2>4. QED BY <1>2, <2>1, <2>2, <2>3 DEF EnforcedModeValidates, TypeOK
<1>12. QED
  BY <1>1, <1>6, <1>7, <1>8, <1>9, <1>10, <1>11

\* The fallback may send, and answers em_degraded in any case.
LEMMA RawSendIInv ==
  ASSUME IInv, NEW c \in Calls, RawSend(c)
  PROVE  IInv'
<1> USE DEF IInv, RawSend, Answer
<1>1. TypeOK'
  BY StepTypeOK DEF Step
<1>2. /\ \A i : OnBus(i) => OnBus(i)'
      /\ \A i : OnBus(i)' => OnBus(i) \/ i = FallbackKey(c)
      /\ \A m \in bus' : m \in bus \/ (m.call = c /\ m.body = "raw")
  BY LandEffect DEF OnBus
<1>3. RowsSigned' /\ RowsUnique'
  BY DEF RowsSigned, RowsUnique, RowHolders, TypeOK
<1>4. AnsweredWhenDone'
  BY DEF AnsweredWhenDone, TypeOK
<1>5. StepsHaveRows' /\ VerdictsHaveRows'
  BY DEF StepsHaveRows, VerdictsHaveRows, HasRow, TypeOK
<1>6. AnswersHaveMessages'
  BY <1>2 DEF AnswersHaveMessages, IdempotencyKey, FallbackKey, TypeOK, AnsweredWhenDone
<1>7. NoSilentLoss'
  BY <1>2 DEF NoSilentLoss, IdempotencyKey, TypeOK
<1>8. StrictVerdict' /\ EnforcedModeValidates'
  BY <1>2 DEF StrictVerdict, EnforcedModeValidates, TypeOK
<1>9. QED
  BY <1>1, <1>3, <1>4, <1>5, <1>6, <1>7, <1>8

\* A new call has no row, no message and no answer yet.
LEMMA BeginIInv ==
  ASSUME IInv, TypeOK', NEW c \in Calls, NEW k, NEW e, Begin(c, k, e)
  PROVE  IInv'
<1> USE DEF IInv, Begin, Goto
<1>1. \A r \in rows : r.id # c /\ r.id \in Calls
  BY DEF RowsSigned, RowHolders, TypeOK
<1>2. res[c] = "none" /\ c \notin nacks /\ ~OnBus(<<"uuid", c>>)
  BY <1>1 DEF AnsweredWhenDone, VerdictsHaveRows, HasRow, AnswersHaveMessages
<1>3. RowsSigned' /\ RowsUnique'
  BY <1>1 DEF RowsSigned, RowsUnique, RowHolders, TypeOK
<1>4. AnsweredWhenDone'
  BY DEF AnsweredWhenDone, TypeOK
<1>5. StepsHaveRows' /\ VerdictsHaveRows'
  BY DEF StepsHaveRows, VerdictsHaveRows, HasRow, TypeOK
<1>6. AnswersHaveMessages'
  BY <1>2 DEF AnswersHaveMessages, IdempotencyKey, OnBus, TypeOK
<1>7. NoSilentLoss'
  BY <1>1 DEF NoSilentLoss, IdempotencyKey, OnBus, TypeOK
<1>8. StrictVerdict' /\ EnforcedModeValidates'
  BY DEF StrictVerdict, EnforcedModeValidates, TypeOK
<1>9. QED
  BY <1>3, <1>4, <1>5, <1>6, <1>7, <1>8

\* A restart loses calls in flight; their rows stay accounted for as lost.
LEMMA RestartIInv ==
  ASSUME IInv, TypeOK', Restart
  PROVE  IInv'
<1> USE DEF IInv, Restart, InFlight
<1>1. RowsSigned' /\ RowsUnique'
  BY DEF RowsSigned, RowsUnique, RowHolders, TypeOK
<1>2. AnsweredWhenDone'
  BY DEF AnsweredWhenDone, TypeOK
<1>3. StepsHaveRows' /\ VerdictsHaveRows'
  BY DEF StepsHaveRows, VerdictsHaveRows, HasRow, TypeOK
<1>4. AnswersHaveMessages'
  BY DEF AnswersHaveMessages, IdempotencyKey, OnBus
<1>5. NoSilentLoss'
  BY DEF NoSilentLoss, IdempotencyKey, OnBus, TypeOK
<1>6. StrictVerdict' /\ EnforcedModeValidates'
  BY DEF StrictVerdict, EnforcedModeValidates, TypeOK
<1>7. QED
  BY <1>1, <1>2, <1>3, <1>4, <1>5, <1>6

\* The variables the inductive invariant depends on besides TypeOK.
LEMMA FrameIInv ==
  ASSUME IInv, TypeOK', UNCHANGED <<mode, pc, ext, verdict, res, rows, bus, nacks>>
  PROVE  IInv'
  BY DEF IInv, RowsSigned, RowsUnique, AnsweredWhenDone, StepsHaveRows,
     VerdictsHaveRows, HasRow, AnswersHaveMessages, NoSilentLoss, OnBus,
     IdempotencyKey, StrictVerdict, EnforcedModeValidates

\* Every step of the gateway preserves the invariant.
LEMMA NextIInv == IInv /\ [Next]_vars => IInv'
<1> SUFFICES ASSUME IInv, [Next]_vars PROVE IInv'
  OBVIOUS
<1>1. TypeOK'
  BY NextTypeOK DEF IInv
<1>2. ASSUME NEW c \in Calls, Submit(c) \/ Replay(c) PROVE IInv'
  BY <1>1, <1>2, BeginIInv DEF Submit, Replay
<1>3. ASSUME NEW c \in Calls, Step(c) PROVE IInv'
  BY <1>3, BypassIInv, ParseIInv, WritesIInv, NackIInv, LookupIInv,
     WriteAuditIInv, SendIInv, RawSendIInv DEF Step
<1>4. CASE ProbeStart
  BY <1>1, <1>4, FrameIInv DEF ProbeStart
<1>5. CASE ProbeEnd
  BY <1>1, <1>5, FrameIInv DEF ProbeEnd
<1>6. CASE Restart
  BY <1>1, <1>6, RestartIInv
<1>7. CASE UNCHANGED vars
  BY <1>1, <1>7, FrameIInv DEF vars
<1>8. QED
  BY <1>2, <1>3, <1>4, <1>5, <1>6, <1>7 DEF Next

\* The inductive invariant holds at all times, whatever fails or restarts.
THEOREM Invariance == Spec => []IInv
  BY InitIInv, NextIInv, PTL DEF Spec

-----------------------------------------------------------------------------
(* The properties *)

\* Two verdicts on one external id would need two rows with that id.
LEMMA IInvVerdicts == IInv => OneVerdictPerKey
<1> SUFFICES ASSUME IInv, NEW c \in Calls, NEW d \in Calls,
                    c # d, ext[c] # NoKey, ext[c] = ext[d],
                    \/ res[c] \in Results \ {"duplicate", "em_degraded"}
                    \/ c \in nacks,
                    \/ res[d] \in Results \ {"duplicate", "em_degraded"}
                    \/ d \in nacks
             PROVE  FALSE
  BY DEF OneVerdictPerKey
<1>1. \A x \in {c, d} : \E r \in rows : r.id = x
  BY DEF IInv, VerdictsHaveRows, HasRow, Results
<1>2. PICK r \in rows : r.id = c
  BY <1>1
<1>3. PICK s \in rows : s.id = d
  BY <1>1
<1>4. r.ext = ext[c] /\ s.ext = ext[d]
  BY <1>2, <1>3 DEF IInv, RowsSigned
<1>5. r = s
  BY <1>4 DEF IInv, RowsUnique
<1>6. QED BY <1>2, <1>3, <1>5

\* A caller told "accepted" can rely on the event: for any interleaving,
\* failures and restarts it is recorded and on the bus, once.
THEOREM Delivery == Spec => []AcceptedIsDelivered
<1>1. IInv => AcceptedIsDelivered
  BY DEF IInv, AcceptedIsDelivered, AnswersHaveMessages, VerdictsHaveRows, HasRow
<1>2. QED BY <1>1, Invariance, PTL

\* At most one call per external id gets a verdict, at most one is NACKed.
THEOREM VerdictUniqueness == Spec => []OneVerdictPerKey
  BY IInvVerdicts, Invariance, PTL

\* A recorded event missing from the bus has a call to answer for it.
THEOREM LossIsReported == Spec => []NoSilentLoss
<1>1. IInv => NoSilentLoss
  BY DEF IInv
<1>2. QED BY <1>1, Invariance, PTL

\* With schemas enforced, unvalidated payloads pass only through the fallback.
THEOREM Enforcement == Spec => []EnforcedModeValidates
<1>1. IInv => EnforcedModeValidates
  BY DEF IInv
<1>2. QED BY <1>1, Invariance, PTL

\* Only a call without an answer adds to the bus.
LEMMA SendersAreUnanswered ==
  ASSUME IInv, NEW c \in Calls, NEW id, NEW body, Land(c, id, body), pc[c] # "done"
  PROVE  bus \subseteq bus' /\ \A m \in bus' \ bus : res[m.call] = "none"
<1>1. bus \subseteq bus' /\ \A m \in bus' : m \in bus \/ m.call = c
  BY LandEffect
<1>2. res[c] = "none"
  BY DEF IInv, AnsweredWhenDone
<1>3. QED BY <1>1, <1>2

\* No await of a call removes a row or a message.
LEMMA StepAppends ==
  ASSUME IInv, NEW c \in Calls, Step(c)
  PROVE  rows \subseteq rows' /\ bus \subseteq bus'
         /\ \A m \in bus' \ bus : res[m.call] = "none"
<1>1. CASE Bypass(c)
  BY <1>1, SendersAreUnanswered DEF Bypass
<1>2. CASE Send(c)
  BY <1>2, SendersAreUnanswered DEF Send
<1>3. CASE RawSend(c)
  BY <1>3, SendersAreUnanswered DEF RawSend
<1>4. CASE WritePassthrough(c) \/ WriteRejected(c) \/ WriteAccepted(c)
  BY <1>4 DEF WritePassthrough, WriteRejected, WriteAccepted, InsertRow
<1>5. CASE Parse(c) \/ Nack(c) \/ Lookup(c) \/ WriteAudit(c)
  BY <1>5 DEF Parse, Nack, Lookup, WriteAudit
<1>6. QED BY <1>1, <1>2, <1>3, <1>4, <1>5 DEF Step

\* Rows and messages are never changed or taken back, and a call that has been
\* answered adds no message any more, whatever fails under it.
THEOREM AppendOnly == Spec => HistoryIsAppendOnly
<1>1. IInv /\ [Next]_vars => [ /\ rows \subseteq rows'
                              /\ bus \subseteq bus'
                              /\ \A m \in bus' \ bus : res[m.call] = "none" ]_vars
  <2> SUFFICES ASSUME IInv, Next
               PROVE  /\ rows \subseteq rows' /\ bus \subseteq bus'
                      /\ \A m \in bus' \ bus : res[m.call] = "none"
    OBVIOUS
  <2>1. ASSUME NEW c \in Calls, Submit(c) \/ Replay(c) PROVE UNCHANGED <<rows, bus>>
    BY <2>1 DEF Submit, Replay, Begin
  <2>2. CASE ProbeStart \/ ProbeEnd \/ Restart
    BY <2>2 DEF ProbeStart, ProbeEnd, Restart
  <2>3. QED BY <2>1, <2>2, StepAppends DEF Next
<1>2. QED BY <1>1, Invariance, PTL DEF Spec, HistoryIsAppendOnly

-----------------------------------------------------------------------------
(* The gateway implements PublishContract *)

Ids == {m.id : m \in bus}

\* The bus of the contract is the set of ids on the gateway's bus.
LEMMA IdsOnBus == \A id : id \in Ids <=> OnBus(id)
  BY DEF Ids, OnBus

\* A send adds its id to the contract's bus.
LEMMA LandIds ==
  ASSUME NEW c, NEW id, NEW body, Land(c, id, body)
  PROVE  Ids' = Ids \cup {id}
<1>1. \A i : i \in Ids' <=> OnBus(i)'
  BY DEF Ids, OnBus
<1>2. \A i : OnBus(i)' <=> OnBus(i) \/ i = id
  <2>1. bus \subseteq bus' /\ OnBus(id)' /\ \A i : OnBus(i)' => OnBus(i) \/ i = id
    BY LandEffect
  <2>2. QED BY <2>1 DEF OnBus
<1>3. QED BY <1>1, <1>2, IdsOnBus

\* No other call with the external id of a call that holds a row has a verdict.
LEMMA RowHolderIsFirst ==
  ASSUME IInv, NEW c \in Calls, HasRow(c, Statuses)
  PROVE  Promise!FirstVerdict(c)
<1> SUFFICES ASSUME NEW d \in Calls, d # c, ext[c] # NoKey, ext[d] = ext[c],
                    res[d] \in {"accepted", "passthrough", "schema", "no_schema"}
             PROVE  FALSE
  BY DEF Promise!FirstVerdict, Promise!Definitive
<1>1. PICK r \in rows : r.id = c
  BY DEF HasRow
<1>2. PICK s \in rows : s.id = d
  BY DEF IInv, VerdictsHaveRows, HasRow
<1>3. r = s
  BY <1>1, <1>2 DEF IInv, RowsSigned, RowsUnique
<1>4. QED BY <1>1, <1>2, <1>3

\* A step that leaves a call open, its answer and the bus alone is invisible.
LEMMA Invisible ==
  ASSUME UNCHANGED <<ext, res, bus>>, {d \in Calls : pc'[d] # "idle"} = {d \in Calls : pc[d] # "idle"}
  PROVE  UNCHANGED Promise!contractVars
  BY DEF Promise!contractVars

\* A step that sends, answers, or both, on behalf of one open call.
LEMMA Acting ==
  ASSUME IInv, NEW c \in Calls, pc[c] \notin {"idle", "done"}, pc'[c] # "idle",
         pc' = [pc EXCEPT ![c] = pc'[c]], ext' = ext,
         Ids' = Ids \/ \E id \in Promise!Ids(c) : Ids' = Ids \cup {id},
         \/ res' = res
         \/ \E r \in Promise!Answers : Promise!MayAnswer(c, r) /\ res' = [res EXCEPT ![c] = r]
  PROVE  Promise!Act(c)
<1>1. {d \in Calls : pc'[d] # "idle"} = {d \in Calls : pc[d] # "idle"}
  BY DEF IInv, TypeOK
<1>2. res[c] = "none"
  BY DEF IInv, AnsweredWhenDone
<1>3. QED BY <1>1, <1>2 DEF Promise!Act, Ids

\* Gateway and contract agree on the ids of a call.
LEMMA IdsAgree ==
  ASSUME NEW c
  PROVE  /\ Promise!MainId(c) = IdempotencyKey(c)
         /\ IdempotencyKey(c) \in Promise!Ids(c) /\ FallbackKey(c) \in Promise!Ids(c)
  BY DEF Promise!MainId, Promise!Ids, IdempotencyKey, FallbackKey

\* A call of em.publish opens a call of the contract.
LEMMA BeginOpens ==
  ASSUME IInv, NEW c \in Calls, NEW k \in Keys \cup {NoKey}, NEW e, Begin(c, k, e)
  PROVE  Promise!Open(c)
<1>1. {d \in Calls : pc'[d] # "idle"} = {d \in Calls : pc[d] # "idle"} \cup {c}
  BY DEF Begin, Goto, IInv, TypeOK
<1>2. QED BY <1>1 DEF Promise!Open, Begin, Goto

\* Step 0 and the catch act under the fallback id.
LEMMA FallbackActs ==
  ASSUME IInv, NEW c \in Calls, Bypass(c) \/ RawSend(c)
  PROVE  Promise!Act(c)
<1>1. /\ pc[c] \notin {"idle", "done"} /\ ext' = ext
      /\ pc' = [pc EXCEPT ![c] = "done"]
      /\ res' = [res EXCEPT ![c] = "em_degraded"]
      /\ bus' = bus \/ Land(c, FallbackKey(c), "raw")
  BY DEF Bypass, RawSend, Answer
<1>2. Ids' = Ids \/ Ids' = Ids \cup {FallbackKey(c)}
  BY <1>1, LandIds DEF Ids
<1>3. "em_degraded" \in Promise!Answers /\ Promise!MayAnswer(c, "em_degraded")
  BY DEF Promise!Answers, Promise!MayAnswer, Promise!Forwarded, Promise!Definitive
<1>4. pc'[c] = "done"
  BY <1>1 DEF IInv, TypeOK
<1>5. QED BY <1>1, <1>2, <1>3, <1>4, IdsAgree, Acting

\* A rejection is the first verdict on its external id.
LEMMA NackActs ==
  ASSUME IInv, NEW c \in Calls, Nack(c)
  PROVE  Promise!Act(c)
<1>1. PICK r \in {"schema", "no_schema"} : res' = [res EXCEPT ![c] = r]
  BY DEF Nack, Answer
<1>2. Promise!FirstVerdict(c)
  BY RowHolderIsFirst DEF Nack, IInv, StepsHaveRows, HasRow, Statuses
<1>3. r \in Promise!Answers /\ Promise!MayAnswer(c, r)
  BY <1>1, <1>2 DEF Promise!Answers, Promise!MayAnswer, Promise!Forwarded, Promise!Definitive
<1>4. pc' = [pc EXCEPT ![c] = "done"] /\ pc'[c] = "done"
  BY DEF Nack, Answer, IInv, TypeOK
<1>5. Ids' = Ids /\ ext' = ext /\ pc[c] = "nack"
  BY DEF Nack, Ids
<1>6. QED BY <1>1, <1>3, <1>4, <1>5, Acting

\* The send acts: message, then answer, or a failed try.
LEMMA SendActs ==
  ASSUME IInv, NEW c \in Calls, Send(c)
  PROVE  Promise!Act(c)
<1> DEFINE body == IF verdict[c] = "ok" THEN "validated" ELSE "raw"
<1>1. pc[c] = "send" /\ pc[c] \notin {"idle", "done"} /\ ext' = ext
  BY DEF Send
<1>2. PICK r \in {"passthrough", "accepted"} :
        \/ /\ Land(c, IdempotencyKey(c), body)
           /\ pc' = [pc EXCEPT ![c] = "done"] /\ res' = [res EXCEPT ![c] = r]
        \/ /\ pc' = [pc EXCEPT ![c] = "raw"] /\ res' = res
           /\ bus' = bus \/ Land(c, IdempotencyKey(c), body)
  BY DEF Send, Answer, Goto, Throw
<1> HIDE DEF body
<1>3. pc' = [pc EXCEPT ![c] = pc'[c]] /\ pc'[c] # "idle"
  BY <1>2 DEF IInv, TypeOK
<1>4. CASE /\ Land(c, IdempotencyKey(c), body)
           /\ res' = [res EXCEPT ![c] = r]
  <2>1. Ids' = Ids \cup {IdempotencyKey(c)}
    BY <1>4, LandIds
  <2>2. Promise!FirstVerdict(c)
    BY <1>1, RowHolderIsFirst DEF IInv, StepsHaveRows, HasRow, Statuses, Forwarded
  <2>3. r \in Promise!Answers /\ Promise!MayAnswer(c, r)
    BY <2>1, <2>2, IdsAgree DEF Promise!Answers, Promise!MayAnswer, Promise!Definitive, Ids
  <2>4. QED BY <1>1, <1>3, <1>4, <2>1, <2>3, IdsAgree, Acting
<1>5. CASE res' = res /\ (bus' = bus \/ Land(c, IdempotencyKey(c), body))
  <2>1. Ids' = Ids \/ Ids' = Ids \cup {IdempotencyKey(c)}
    BY <1>5, LandIds DEF Ids
  <2>2. QED BY <1>1, <1>3, <1>5, <2>1, IdsAgree, Acting
<1>6. QED BY <1>2, <1>4, <1>5

\* The dedup read answers duplicate or goes on.
LEMMA LookupActs ==
  ASSUME IInv, NEW c \in Calls, Lookup(c)
  PROVE  Promise!Act(c)
<1>1. Ids' = Ids /\ ext' = ext /\ pc[c] = "lookup"
  BY DEF Lookup, Ids
<1>2. pc' = [pc EXCEPT ![c] = pc'[c]] /\ pc'[c] # "idle"
  BY DEF Lookup, Answer, Goto, Throw, IInv, TypeOK
<1>3. res' = res \/ res' = [res EXCEPT ![c] = "duplicate"]
  BY DEF Lookup, Answer, Goto, Throw
<1>4. "duplicate" \in Promise!Answers /\ Promise!MayAnswer(c, "duplicate")
  BY DEF Promise!Answers, Promise!MayAnswer, Promise!Forwarded, Promise!Definitive
<1>5. QED BY <1>1, <1>2, <1>3, <1>4, Acting

\* Schema check and row writes are not visible to callers or the bus.
LEMMA QuietSteps ==
  ASSUME IInv, NEW c \in Calls,
         Parse(c) \/ WritePassthrough(c) \/ WriteRejected(c) \/ WriteAccepted(c) \/ WriteAudit(c)
  PROVE  UNCHANGED Promise!contractVars
<1>1. UNCHANGED <<ext, res, bus>>
  BY DEF Parse, WritePassthrough, WriteRejected, WriteAccepted, WriteAudit,
         InsertRow, Goto, Throw
<1>2. pc' = [pc EXCEPT ![c] = pc'[c]] /\ pc'[c] # "idle" /\ pc[c] # "idle"
  <2>1. CASE Parse(c)
    <3>1. PICK v \in Verdicts : pc' = [pc EXCEPT ![c] = Route(c, v)]
      BY <2>1 DEF Parse, Goto
    <3>2. Route(c, v) # "idle"
      BY DEF Route
    <3>3. QED BY <2>1, <3>1, <3>2 DEF Parse, IInv, TypeOK
  <2>2. CASE WritePassthrough(c)
    BY <2>2 DEF WritePassthrough, InsertRow, Goto, Throw, IInv, TypeOK
  <2>3. CASE WriteRejected(c)
    BY <2>3 DEF WriteRejected, InsertRow, Goto, Throw, IInv, TypeOK
  <2>4. CASE WriteAccepted(c)
    BY <2>4 DEF WriteAccepted, InsertRow, Goto, Throw, IInv, TypeOK
  <2>5. CASE WriteAudit(c)
    BY <2>5 DEF WriteAudit, Goto, IInv, TypeOK
  <2>6. QED BY <2>1, <2>2, <2>3, <2>4, <2>5
<1>3. {d \in Calls : pc'[d] # "idle"} = {d \in Calls : pc[d] # "idle"}
  BY <1>2 DEF IInv, TypeOK
<1>4. QED BY <1>1, <1>3, Invisible

\* Every step maps to a step of the contract or to a stutter.
LEMMA StepSimulates == IInv /\ [Next]_vars => [Promise!Next]_(Promise!contractVars)
<1> SUFFICES ASSUME IInv, [Next]_vars PROVE [Promise!Next]_(Promise!contractVars)
  OBVIOUS
<1>1. ASSUME NEW c \in Calls, Submit(c) \/ Replay(c) PROVE Promise!Next
  BY <1>1, BeginOpens DEF Submit, Replay, Promise!Next
<1>2. ASSUME NEW c \in Calls, Step(c)
      PROVE  Promise!Next \/ UNCHANGED Promise!contractVars
  BY <1>2, FallbackActs, NackActs, SendActs, LookupActs, QuietSteps
     DEF Step, Promise!Next
<1>3. CASE ProbeStart \/ ProbeEnd
  BY <1>3, Invisible DEF ProbeStart, ProbeEnd
<1>4. CASE Restart
  <2>1. {d \in Calls : pc'[d] # "idle"} = {d \in Calls : pc[d] # "idle"}
    BY <1>4 DEF Restart, InFlight, IInv, TypeOK
  <2>2. QED BY <1>4, <2>1, Invisible DEF Restart
<1>5. CASE UNCHANGED vars
  BY <1>5, Invisible DEF vars
<1>6. QED BY <1>1, <1>2, <1>3, <1>4, <1>5 DEF Next

\* The gateway starts where the contract starts.
LEMMA InitSimulates == Init => Promise!Init
  BY DEF Init, Promise!Init

\* Whatever fails and however calls interleave, callers and bus see a
\* behaviour of PublishContract.
THEOREM Refinement == Spec => ContractHolds
  BY InitSimulates, StepSimulates, Invariance, PTL
     DEF Spec, ContractHolds, Promise!Contract
-----------------------------------------------------------------------------
(* How a call ends *)

\* The awaits a call still has before it, at most.
Left(p) == CASE p = "parse" -> 6
             [] p = "lookup" -> 5
             [] p \in {"accept", "pass", "reject"} -> 4
             [] p = "audit" -> 3
             [] p \in {"send", "nack"} -> 2
             [] p \in {"raw", "bypass"} -> 1
             [] OTHER -> 0

\* EveryCallAnswered, but for the call being scheduled.
CallsMoveOn ==
  \A c \in Calls :
    /\ Step(c) => Left(pc'[c]) < Left(pc[c])
    /\ pc[c] \in InFlight /\ ~Step(c) => pc'[c] \in {pc[c], "lost"}

\* An await that returns takes its call forward, and no other call with it.
LEMMA StepAdvances ==
  ASSUME TypeOK, NEW c \in Calls, Step(c)
  PROVE  /\ \E l : pc' = [pc EXCEPT ![c] = l]
         /\ pc'[c] # "idle" /\ Left(pc'[c]) < Left(pc[c])
<1> USE DEF TypeOK, Left, Goto, Answer, Throw
<1>1. CASE Bypass(c)
  <2>1. pc[c] = "bypass" /\ pc' = [pc EXCEPT ![c] = "done"]
    BY <1>1 DEF Bypass
  <2>2. \E l : pc' = [pc EXCEPT ![c] = l]
    BY <2>1
  <2>3. pc'[c] # "idle" /\ Left(pc'[c]) < Left(pc[c])
    BY <2>1
  <2>4. QED BY <2>2, <2>3
<1>2. CASE Parse(c)
  <2>1. PICK v \in Verdicts : pc' = [pc EXCEPT ![c] = Route(c, v)]
    BY <1>2 DEF Parse
  <2>2. Route(c, v) \in {"pass", "reject", "lookup", "accept"}
    BY DEF Route, Verdicts
  <2>3. pc[c] = "parse"
    BY <1>2 DEF Parse
  <2>4. Left(Route(c, v)) < Left(pc[c])
    BY <2>2, <2>3
  <2>5. QED BY <2>1, <2>2, <2>4
<1>3. CASE WritePassthrough(c)
  BY <1>3 DEF WritePassthrough, InsertRow
<1>4. CASE WriteRejected(c)
  BY <1>4 DEF WriteRejected, InsertRow
<1>5. CASE Nack(c)
  <2>1. pc[c] = "nack" /\ pc' = [pc EXCEPT ![c] = "done"]
    BY <1>5 DEF Nack
  <2>2. \E l : pc' = [pc EXCEPT ![c] = l]
    BY <2>1
  <2>3. pc'[c] # "idle" /\ Left(pc'[c]) < Left(pc[c])
    BY <2>1
  <2>4. QED BY <2>2, <2>3
<1>6. CASE Lookup(c)
  BY <1>6 DEF Lookup
<1>7. CASE WriteAccepted(c)
  BY <1>7 DEF WriteAccepted, InsertRow
<1>8. CASE WriteAudit(c)
  <2>1. pc[c] = "audit" /\ pc' = [pc EXCEPT ![c] = "send"]
    BY <1>8 DEF WriteAudit
  <2>2. \E l : pc' = [pc EXCEPT ![c] = l]
    BY <2>1
  <2>3. pc'[c] # "idle" /\ Left(pc'[c]) < Left(pc[c])
    BY <2>1
  <2>4. QED BY <2>2, <2>3
<1>9. CASE Send(c)
  BY <1>9 DEF Send
<1>10. CASE RawSend(c)
  <2>1. pc[c] = "raw" /\ pc' = [pc EXCEPT ![c] = "done"]
    BY <1>10 DEF RawSend
  <2>2. \E l : pc' = [pc EXCEPT ![c] = l]
    BY <2>1
  <2>3. pc'[c] # "idle" /\ Left(pc'[c]) < Left(pc[c])
    BY <2>1
  <2>4. QED BY <2>2, <2>3
<1>11. QED
  BY <1>1, <1>2, <1>3, <1>4, <1>5, <1>6, <1>7, <1>8, <1>9, <1>10 DEF Step

LEMMA NextMovesOn == TypeOK /\ [Next]_vars => CallsMoveOn
<1> SUFFICES ASSUME TypeOK, [Next]_vars, NEW c \in Calls
             PROVE  /\ Step(c) => Left(pc'[c]) < Left(pc[c])
                    /\ pc[c] \in InFlight /\ ~Step(c) => pc'[c] \in {pc[c], "lost"}
  BY DEF CallsMoveOn
<1>1. pc \in [Calls -> InFlight \cup {"idle", "done", "lost"}]
  BY DEF TypeOK
<1>2. Step(c) => Left(pc'[c]) < Left(pc[c])
  BY <1>1, StepAdvances
<1>3. ASSUME pc[c] \in InFlight, ~Step(c) PROVE pc'[c] \in {pc[c], "lost"}
  <2>1. ASSUME NEW d \in Calls, Step(d) PROVE pc'[c] = pc[c]
    BY <1>1, <1>3, <2>1, StepAdvances
  <2>2. ASSUME NEW d \in Calls, Submit(d) \/ Replay(d) PROVE pc'[c] = pc[c]
    <3>1. pc[d] = "idle" /\ \E l : pc' = [pc EXCEPT ![d] = l]
      BY <2>2 DEF Submit, Replay, Begin, Goto
    <3>2. d # c
      BY <1>3, <3>1 DEF InFlight
    <3>3. QED BY <1>1, <3>1, <3>2
  <2>3. CASE Restart
    BY <2>3 DEF Restart
  <2>4. CASE ProbeStart \/ ProbeEnd \/ UNCHANGED vars
    BY <2>4 DEF ProbeStart, ProbeEnd, vars
  <2>5. QED BY <2>1, <2>2, <2>3, <2>4 DEF Next
<1>4. QED BY <1>2, <1>3

\* Every await that returns brings its call nearer to the answer, six awaits at
\* most, and nothing but a restart can take it off its way.
THEOREM CallsEnd == Spec => [][CallsMoveOn]_vars
  BY NextMovesOn, TypeCorrect, PTL DEF Spec

-----------------------------------------------------------------------------
(* What the violated claim does hold of *)

\* A message went out from a call that recorded its event as forwarded, or raw
\* from the fallback.
MessagesSigned ==
  \A m \in bus :
    \/ m.body = "raw" /\ res[m.call] = "em_degraded"
    \/ \E r \in rows : /\ r.id = m.call /\ r.status \in Forwarded
                       /\ \A k \in Keys : m.id = <<"key", k>> => r.ext = k

\* A payload the gateway rejected is on the bus only raw, from a call that
\* found EM degraded and told its caller so.
RejectedOnlyRaw ==
  \A r \in rows : r.status = "rejected_schema" /\ r.ext # NoKey =>
    \A m \in bus : m.id = <<"key", r.ext>> => m.body = "raw" /\ res[m.call] = "em_degraded"

\* The message itself, where the bus takes it.
LEMMA LandMessage ==
  ASSUME NEW c, NEW id, NEW body, Land(c, id, body)
  PROVE  \A m \in bus' : m \in bus \/ (m.id = id /\ m.call = c /\ m.body = body)
  BY DEF Land

LEMMA SignedNext == IInv /\ MessagesSigned /\ [Next]_vars => MessagesSigned'
<1> SUFFICES ASSUME IInv, MessagesSigned, [Next]_vars PROVE MessagesSigned'
  OBVIOUS
<1>0. TypeOK /\ IInv'
  BY NextIInv DEF IInv
<1>1. rows \subseteq rows' /\ \A c \in Calls : res[c] = "em_degraded" => res'[c] = "em_degraded"
  <2>1. rows \subseteq rows'
    BY StepAppends DEF Next, Submit, Replay, Begin, ProbeStart, ProbeEnd, Restart, vars
  <2>2. ASSUME NEW c \in Calls, res[c] = "em_degraded" PROVE res'[c] = "em_degraded"
    <3>1. pc[c] = "done"
      BY <2>2 DEF IInv, AnsweredWhenDone
    <3>2. ASSUME NEW d \in Calls, Step(d) PROVE res'[c] = res[c]
      <4>1. Left(pc[d]) > 0
        <5>1. Left(pc'[d]) < Left(pc[d])
          BY <1>0, <3>2, StepAdvances
        <5>2. Left(pc'[d]) \in Nat /\ Left(pc[d]) \in Nat
          BY DEF Left
        <5>3. QED BY <5>1, <5>2
      <4>2. d # c
        BY <3>1, <4>1 DEF Left
      <4>3. res' = res \/ \E a : res' = [res EXCEPT ![d] = a]
        BY <3>2 DEF Step, Bypass, Parse, WritePassthrough, WriteRejected, Nack, Lookup,
           WriteAccepted, WriteAudit, Send, RawSend, InsertRow, Throw, Goto, Answer
      <4>4. QED BY <1>0, <4>2, <4>3 DEF TypeOK
    <3>3. (\E d \in Calls : Submit(d) \/ Replay(d)) \/ ProbeStart \/ ProbeEnd \/ Restart
            \/ UNCHANGED vars => UNCHANGED res
      BY DEF Submit, Replay, Begin, Goto, ProbeStart, ProbeEnd, Restart, vars
    <3>4. QED BY <2>2, <3>2, <3>3 DEF Next
  <2>3. QED BY <2>1, <2>2
<1>2. ASSUME NEW m \in bus
      PROVE  \/ m.body = "raw" /\ res'[m.call] = "em_degraded"
             \/ \E r \in rows' : /\ r.id = m.call /\ r.status \in Forwarded
                                 /\ \A k \in Keys : m.id = <<"key", k>> => r.ext = k
  <2>1. m.call \in Calls
    BY <1>0 DEF TypeOK
  <2>2. QED BY <1>1, <1>2, <2>1 DEF MessagesSigned
<1>3. CASE bus' = bus
  BY <1>2, <1>3 DEF MessagesSigned
<1>4. ASSUME NEW c \in Calls, Bypass(c) \/ RawSend(c) PROVE MessagesSigned'
  <2>1. \A m \in bus' : m \in bus \/ (m.call = c /\ m.body = "raw")
    BY <1>4, LandMessage DEF Bypass, RawSend
  <2>2. res'[c] = "em_degraded"
    BY <1>0, <1>4 DEF Bypass, RawSend, Answer, TypeOK
  <2>3. QED BY <1>2, <2>1, <2>2 DEF MessagesSigned
<1>5. ASSUME NEW c \in Calls, Send(c) PROVE MessagesSigned'
  <2>1. \A m \in bus' : m \in bus \/ (m.call = c /\ m.id = IdempotencyKey(c))
    BY <1>5, LandMessage DEF Send
  <2>2. PICK r \in rows : r.id = c /\ r.status \in Forwarded
    BY <1>5 DEF Send, IInv, StepsHaveRows, HasRow
  <2>3. r.ext = ext[c] /\ r \in rows'
    BY <1>1, <2>2 DEF IInv, RowsSigned
  <2>4. \A k \in Keys : IdempotencyKey(c) = <<"key", k>> => r.ext = k
    BY <2>3 DEF IdempotencyKey
  <2>5. QED BY <1>2, <2>1, <2>2, <2>3, <2>4 DEF MessagesSigned
<1>6. bus' = bus \/ \E c \in Calls : Bypass(c) \/ RawSend(c) \/ Send(c)
  BY DEF Next, Submit, Replay, Begin, ProbeStart, ProbeEnd, Restart, Step, Parse,
     WritePassthrough, WriteRejected, Nack, Lookup, WriteAccepted, WriteAudit, vars
<1>7. QED BY <1>3, <1>4, <1>5, <1>6

\* The exact gap in "a rejected payload is not forwarded": only a call that found
\* EM degraded, or failed on the row, sends it, raw, and answers em_degraded.
THEOREM RejectedGoesOutOnlyRaw == Spec => []RejectedOnlyRaw
<1>1. ASSUME IInv, MessagesSigned, NEW r \in rows, r.status = "rejected_schema", r.ext # NoKey,
             NEW m \in bus, m.id = <<"key", r.ext>>
      PROVE  m.body = "raw" /\ res[m.call] = "em_degraded"
  <2>1. r.ext \in Keys
    BY <1>1 DEF IInv, TypeOK
  <2>2. ASSUME NEW s \in rows, s.status \in Forwarded, s.ext = r.ext PROVE FALSE
    <3>1. s = r
      BY <1>1, <2>2 DEF IInv, RowsUnique
    <3>2. QED BY <1>1, <2>2, <3>1 DEF Forwarded
  <2>3. QED BY <1>1, <2>1, <2>2 DEF MessagesSigned
<1>2. IInv /\ MessagesSigned => RejectedOnlyRaw
  BY <1>1 DEF RejectedOnlyRaw
<1>3. Init => MessagesSigned
  BY DEF Init, MessagesSigned
<1>4. QED BY <1>2, <1>3, Invariance, SignedNext, PTL DEF Spec

-----------------------------------------------------------------------------
(* Why the gateway degrades *)

\* Two calls carry one external id.
Raced ==
  \E c, d \in Calls : /\ c # d /\ ext[c] # NoKey /\ ext[c] = ext[d]
                      /\ pc[c] # "idle" /\ pc[d] # "idle"

\* While nothing has failed, EM is not degraded, and no caller is sent to the
\* fallback, unless two calls carry one external id.
DegradedHasCause ==
  emState = "degraded" \/ (\E c \in Calls : pc[c] \in {"raw", "bypass"} \/ res[c] = "em_degraded")
    => faults > 0 \/ Raced

\* A taken external id belongs to another call's row.
LEMMA TakenIsRaced ==
  ASSUME IInv, NEW c \in Calls, pc[c] \in {"pass", "reject", "accept"}, ExtTaken(ext[c])
  PROVE  Raced
<1>1. PICK r \in rows : r.ext = ext[c] /\ ext[c] # NoKey
  BY DEF ExtTaken
<1>2. r.id \in Calls /\ r.ext = ext[r.id] /\ pc[r.id] \in RowHolders
  BY DEF IInv, TypeOK, RowsSigned
<1>3. r.id # c /\ pc[r.id] # "idle" /\ pc[c] # "idle"
  BY <1>2 DEF RowHolders
<1>4. QED BY <1>1, <1>2, <1>3 DEF Raced

\* A call that raced has raced for good.
LEMMA RacedStays == TypeOK /\ Raced /\ [Next]_vars => Raced'
<1> SUFFICES ASSUME TypeOK, [Next]_vars, NEW c \in Calls, pc[c] # "idle"
             PROVE  pc'[c] # "idle" /\ ext'[c] = ext[c]
  BY DEF Raced
<1>1. ASSUME NEW d \in Calls, Step(d) PROVE pc'[c] # "idle" /\ ext'[c] = ext[c]
  <2>1. UNCHANGED ext
    BY <1>1 DEF Step, Bypass, Parse, WritePassthrough, WriteRejected, Nack, Lookup,
       WriteAccepted, WriteAudit, Send, RawSend
  <2>2. pc'[d] # "idle" /\ \E l : pc' = [pc EXCEPT ![d] = l]
    BY <1>1, StepAdvances
  <2>3. QED BY <2>1, <2>2 DEF TypeOK
<1>2. ASSUME NEW d \in Calls, Submit(d) \/ Replay(d) PROVE pc'[c] # "idle" /\ ext'[c] = ext[c]
  BY <1>2 DEF Submit, Replay, Begin, Goto, TypeOK
<1>3. CASE Restart
  BY <1>3 DEF Restart, TypeOK
<1>4. CASE ProbeStart \/ ProbeEnd \/ UNCHANGED vars
  BY <1>4 DEF ProbeStart, ProbeEnd, vars
<1>5. QED BY <1>1, <1>2, <1>3, <1>4 DEF Next
\* Nobody is at, or was sent to, the fallback.
Sound ==
  /\ emState = "healthy"
  /\ \A c \in Calls : pc[c] \notin {"raw", "bypass"} /\ res[c] # "em_degraded"

\* A step without a fault or a shared external id does not lead there.
LEMMA StepSound ==
  ASSUME IInv, Sound, ~Raced, faults' = faults, NEW c \in Calls, Step(c)
  PROVE  Sound'
<1>0. TypeOK /\ ~Fault /\ emState = "healthy" /\ pc[c] \notin {"raw", "bypass"}
  BY DEF IInv, TypeOK, Fault, Sound
<1>1. \A x : pc[x] \in {"pass", "reject", "accept"} /\ x = c => ~ExtTaken(ext[x])
  BY TakenIsRaced
<1>2. /\ emState' = "healthy"
      /\ \/ \E l : /\ pc' = [pc EXCEPT ![c] = l] /\ l \notin {"raw", "bypass"}
                   /\ res' = res
         \/ \E a : /\ pc' = [pc EXCEPT ![c] = "done"]
                   /\ res' = [res EXCEPT ![c] = a] /\ a # "em_degraded"
  <2>1. CASE Bypass(c) \/ RawSend(c)
    BY <1>0, <2>1 DEF Bypass, RawSend
  <2>2. CASE Parse(c)
    <3>1. PICK v \in Verdicts : pc' = [pc EXCEPT ![c] = Route(c, v)] /\ res' = res
      BY <2>2 DEF Parse, Goto
    <3>2. Route(c, v) \notin {"raw", "bypass"}
      BY DEF Route, Verdicts
    <3>3. emState' = "healthy"
      BY <1>0, <2>2 DEF Parse
    <3>4. QED BY <3>1, <3>2, <3>3
  <2>3. CASE WritePassthrough(c) \/ WriteRejected(c) \/ WriteAccepted(c)
    <3>1. ~ExtTaken(ext[c])
      BY <1>1, <2>3 DEF WritePassthrough, WriteRejected, WriteAccepted
    <3>2. \E l \in {"send", "nack", "audit"} :
             pc' = [pc EXCEPT ![c] = l] /\ res' = res /\ emState' = emState
      BY <1>0, <2>3, <3>1 DEF WritePassthrough, WriteRejected, WriteAccepted, InsertRow, Goto
    <3>3. QED BY <1>0, <3>2
  <2>4. CASE Nack(c)
    BY <1>0, <2>4 DEF Nack, Answer
  <2>5. CASE Lookup(c)
    BY <1>0, <2>5 DEF Lookup, Answer, Goto
  <2>6. CASE WriteAudit(c)
    <3>1. \E l \in {"send"} : pc' = [pc EXCEPT ![c] = l] /\ res' = res /\ emState' = emState
      BY <2>6 DEF WriteAudit, Goto
    <3>2. QED BY <1>0, <3>1
  <2>7. CASE Send(c)
    BY <1>0, <2>7 DEF Send, Answer
  <2>8. QED BY <2>1, <2>2, <2>3, <2>4, <2>5, <2>6, <2>7 DEF Step
<1>3. QED BY <1>0, <1>2 DEF Sound, TypeOK

LEMMA CauseNext == IInv /\ DegradedHasCause /\ [Next]_vars => DegradedHasCause'
<1> SUFFICES ASSUME IInv, DegradedHasCause, [Next]_vars, ~(faults' > 0), ~Raced'
             PROVE  Sound'
  <2>1. Sound' => DegradedHasCause'
    BY DEF Sound, DegradedHasCause
  <2>2. (faults > 0)' \/ Raced' => DegradedHasCause'
    BY DEF DegradedHasCause
  <2>3. QED BY <2>1, <2>2
<1>1. TypeOK /\ TypeOK'
  BY NextTypeOK DEF IInv
<1>2. faults' = 0 /\ faults' >= faults /\ faults \in Nat
  <2>1. faults \in Nat /\ faults' \in Nat
    BY <1>1, GatewayAssumption DEF TypeOK
  <2>2. faults' = faults \/ faults' = faults + 1
    BY DEF Next, Submit, Replay, Begin, ProbeStart, ProbeEnd, Restart, Step, Bypass, Parse,
       WritePassthrough, WriteRejected, Nack, Lookup, WriteAccepted, WriteAudit, Send, RawSend,
       InsertRow, Fault, vars
  <2>3. QED BY <2>1, <2>2
<1>3. faults = 0 /\ faults' = faults /\ ~Raced
  BY <1>1, <1>2, RacedStays
<1>4. Sound
  <2>1. emState \in {"healthy", "degraded"}
    BY <1>1 DEF TypeOK
  <2>2. QED BY <1>3, <2>1 DEF Sound, DegradedHasCause
<1>5. ASSUME NEW c \in Calls, Step(c) PROVE Sound'
  BY <1>3, <1>4, <1>5, StepSound
<1>6. ASSUME NEW c \in Calls, Submit(c) \/ Replay(c) PROVE Sound'
  BY <1>1, <1>4, <1>6 DEF Submit, Replay, Begin, Goto, Sound, TypeOK
<1>7. CASE Restart
  BY <1>1, <1>4, <1>7 DEF Restart, Sound
<1>8. CASE ProbeStart \/ ProbeEnd \/ UNCHANGED vars
  BY <1>4, <1>8 DEF ProbeStart, ProbeEnd, Sound, vars
<1>9. QED BY <1>5, <1>6, <1>7, <1>8 DEF Next

\* EM degrades, and a caller is told em_degraded, only after a failure of the
\* database or the bus, or when two calls carry one external id.
THEOREM DegradesForCause == Spec => []DegradedHasCause
<1>1. Init => DegradedHasCause
  BY DEF Init, DegradedHasCause
<1>2. QED BY <1>1, CauseNext, Invariance, PTL DEF Spec
=============================================================================
