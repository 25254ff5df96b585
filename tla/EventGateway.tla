---------------------------- MODULE EventGateway ----------------------------
(***************************************************************************)
(* The event-manager gateway em.publish (server/em/publish.ts) with the    *)
(* EventInstance table (persistence.ts), the EVENT_REJECTED emitter        *)
(* (rejection.ts) and the process-wide degraded flag (degraded-mode.ts).   *)
(*                                                                         *)
(* One action per await: every call of em.publish is a process that other  *)
(* calls, the health probe, a failing database or bus, and a restart of    *)
(* the server may overtake between any two of its steps.                   *)
(*                                                                         *)
(* A payload is abstracted to the verdict tryParse gives on it; the        *)
(* verdict of a redelivered event may differ, because the definition may   *)
(* have been synced in between.                                            *)
(***************************************************************************)
EXTENDS Naturals, FiniteSets

CONSTANTS
  Calls,       \* invocations of em.publish, each used once
  Keys,        \* external event ids
  NoKey,       \* no external event id was passed
  Modes,       \* the modes EM_PASSTHROUGH / EM_STRICT_SCHEMA may select
  MaxFaults,   \* bound: database or bus operations that fail
  MaxRestarts  \* bound: restarts of the server process

ASSUME GatewayAssumption ==
  /\ NoKey \notin Keys
  /\ Modes \subseteq {"passthrough", "strict", "legacy"}
  /\ MaxFaults \in Nat
  /\ MaxRestarts \in Nat

VARIABLES
  mode,      \* the mode of the process environment, fixed at start
  pc,        \* pc[c]: the await call c stands at
  ext,       \* ext[c]: its externalEventId
  emit,      \* emit[c]: its emitRejectionOnFailure
  verdict,   \* verdict[c]: what tryParse found
  res,       \* res[c]: the PublishResult, "none" until the call returns
  rows,      \* EventInstance rows (database)
  audits,    \* calls with an AuditLog row (database)
  bus,       \* messages the Inngest bus has accepted
  nacks,     \* calls whose EVENT_REJECTED the bus has accepted
  emState,   \* degraded-mode _state (in memory)
  probe,     \* the health route: "idle" or in its database self-test
  faults,    \* operations that have failed
  restarts   \* restarts so far

vars == <<mode, pc, ext, emit, verdict, res, rows, audits, bus, nacks,
          emState, probe, faults, restarts>>

Verdicts  == {"ok", "no_schema", "mismatch"}
Statuses  == {"accepted", "accepted_passthrough", "rejected_schema"}
Forwarded == {"accepted", "accepted_passthrough"}
Results   == {"accepted", "passthrough", "schema", "no_schema", "duplicate",
              "em_degraded"}
InFlight  == {"bypass", "parse", "pass", "reject", "nack", "lookup", "accept",
              "audit", "send", "raw"}

-----------------------------------------------------------------------------
(* The database and the bus *)

Row(c, s) == [id |-> c, ext |-> ext[c], status |-> s]

\* Mutant: only forwarded rows count as taken.
ExtTaken_ForwardedOnly(k) ==
  k # NoKey /\ \E r \in rows : r.ext = k /\ r.status \in Forwarded

\* external_event_id is UNIQUE; NULLs never conflict.
ExtTaken(k) == k # NoKey /\ \E r \in rows : r.ext = k

IdempotencyKey(c) == IF ext[c] # NoKey THEN <<"key", ext[c]>> ELSE <<"event", c>>
FallbackKey(c)    == IF ext[c] # NoKey THEN <<"key", ext[c]>> ELSE <<"uuid", c>>

OnBus(id) == \E m \in bus : m.id = id

\* The bus drops a message whose id it has already accepted.
Land(c, id, body) ==
  bus' = IF OnBus(id) THEN bus
         ELSE bus \cup {[id |-> id, call |-> c, body |-> body]}

Fault == faults < MaxFaults /\ faults' = faults + 1

-----------------------------------------------------------------------------
(* Control flow of a call *)

Goto(c, label) == pc' = [pc EXCEPT ![c] = label] /\ UNCHANGED res

Answer(c, r) ==
  /\ pc'  = [pc EXCEPT ![c] = "done"]
  /\ res' = [res EXCEPT ![c] = r]

\* publishInner threw: degradedMode.activate, then the raw send.
Throw(c) == Goto(c, "raw") /\ emState' = "degraded"

\* Mutant: the row is upserted by its external id instead of created.
InsertRow_Upsert(c, status, next) ==
  /\ rows' = {r \in rows : r.ext = NoKey \/ r.ext # ext[c]} \cup {Row(c, status)}
  /\ Goto(c, next)
  /\ UNCHANGED <<emState, faults>>

\* prisma.eventInstance.create: it succeeds, violates the unique index, or
\* fails with or without having been committed.
InsertRow(c, status, next) ==
  \/ /\ ~ExtTaken(ext[c])
     /\ rows' = rows \cup {Row(c, status)}
     /\ Goto(c, next)
     /\ UNCHANGED <<emState, faults>>
  \/ /\ ExtTaken(ext[c])
     /\ Throw(c)
     /\ UNCHANGED <<rows, faults>>
  \/ /\ Fault
     /\ Throw(c)
     /\ \/ UNCHANGED rows
        \/ ~ExtTaken(ext[c]) /\ rows' = rows \cup {Row(c, status)}

-----------------------------------------------------------------------------
(* Actions of a call *)

Begin(c, k, e) ==
  /\ pc[c] = "idle"
  /\ ext'  = [ext EXCEPT ![c] = k]
  /\ emit' = [emit EXCEPT ![c] = e]
  /\ Goto(c, IF emState = "degraded" THEN "bypass" ELSE "parse")
  /\ UNCHANGED <<mode, verdict, rows, audits, bus, nacks, emState, probe,
                 faults, restarts>>

\* A publisher: the bridge, an agent, or one of the HTTP publish routes.
Submit(c) == \E k \in Keys \cup {NoKey} : Begin(c, k, TRUE)

\* POST /api/em/event-instances/:id/replay of an existing row, whatever its
\* status, without an external id.
Replay(c) == rows # {} /\ Begin(c, NoKey, FALSE)

\* Step 0 of a call made while EM is degraded.
Bypass(c) ==
  /\ pc[c] = "bypass"
  /\ \/ Land(c, FallbackKey(c), "raw") /\ UNCHANGED <<emState, faults>>
     \/ Fault /\ emState' = "degraded" /\ (UNCHANGED bus \/ Land(c, FallbackKey(c), "raw"))
  /\ Answer(c, "em_degraded")
  /\ UNCHANGED <<mode, ext, emit, verdict, rows, audits, nacks, probe, restarts>>

\* Mutants: a schema error nobody handles; strict mode forgets missing schemas.
Route_Unhandled(c, v) ==
  CASE v # "ok" /\ mode = "passthrough" -> "pass"
    [] v # "ok" /\ mode # "passthrough" -> v
    [] OTHER -> IF ext[c] # NoKey THEN "lookup" ELSE "accept"
Route_NoSchemaPasses(c, v) ==
  CASE v # "ok" /\ mode = "passthrough"       -> "pass"
    [] v = "mismatch" /\ mode # "passthrough" -> "reject"
    [] OTHER -> IF ext[c] # NoKey THEN "lookup" ELSE "accept"

\* Where publishInner continues once it knows the verdict.
Route(c, v) ==
  CASE v # "ok" /\ mode = "passthrough"     -> "pass"
    [] v = "mismatch" /\ mode # "passthrough" -> "reject"
    [] v = "no_schema" /\ mode = "strict"   -> "reject"
    [] OTHER -> IF ext[c] # NoKey THEN "lookup" ELSE "accept"

\* Steps 1 and 2. A database failure inside the registry falls back to the
\* built-in schemas, so it never throws.
Parse(c) ==
  /\ pc[c] = "parse"
  /\ \E v \in Verdicts : /\ verdict' = [verdict EXCEPT ![c] = v]
                         /\ Goto(c, Route(c, v))
  /\ UNCHANGED <<mode, ext, emit, rows, audits, bus, nacks, emState, probe,
                 faults, restarts>>

WritePassthrough(c) ==
  /\ pc[c] = "pass"
  /\ InsertRow(c, "accepted_passthrough", "send")
  /\ UNCHANGED <<mode, ext, emit, verdict, audits, bus, nacks, probe, restarts>>

WriteRejected(c) ==
  /\ pc[c] = "reject"
  /\ InsertRow(c, "rejected_schema", "nack")
  /\ UNCHANGED <<mode, ext, emit, verdict, audits, bus, nacks, probe, restarts>>

\* Mutant: a caller that wants no EVENT_REJECTED is never answered.
Nack_OnlyWhenEmitting(c) ==
  /\ pc[c] = "nack"
  /\ emit[c]
  /\ nacks' = nacks \cup {c}
  /\ Answer(c, IF verdict[c] = "no_schema" THEN "no_schema" ELSE "schema")
  /\ UNCHANGED <<mode, ext, emit, verdict, rows, audits, bus, emState, probe,
                 faults, restarts>>

\* emitRejection never throws: its own row and its send are best effort.
Nack(c) ==
  /\ pc[c] = "nack"
  /\ \/ emit[c] /\ nacks' = nacks \cup {c} /\ UNCHANGED faults
     \/ emit[c] /\ Fault /\ UNCHANGED nacks
     \/ ~emit[c] /\ UNCHANGED <<nacks, faults>>
  /\ Answer(c, IF verdict[c] = "no_schema" THEN "no_schema" ELSE "schema")
  /\ UNCHANGED <<mode, ext, emit, verdict, rows, audits, bus, emState, probe,
                 restarts>>

\* Mutant: a duplicate is answered like the call that was accepted.
Lookup_AcceptsDuplicate(c) ==
  /\ pc[c] = "lookup"
  /\ IF ExtTaken(ext[c]) THEN Answer(c, "accepted") ELSE Goto(c, "accept")
  /\ UNCHANGED <<mode, ext, emit, verdict, rows, audits, bus, nacks, emState,
                 probe, faults, restarts>>

\* Step 3: a row of any status makes the call a duplicate.
Lookup(c) ==
  /\ pc[c] = "lookup"
  /\ \/ ExtTaken(ext[c])  /\ Answer(c, "duplicate") /\ UNCHANGED <<emState, faults>>
     \/ ~ExtTaken(ext[c]) /\ Goto(c, "accept")      /\ UNCHANGED <<emState, faults>>
     \/ Fault /\ Throw(c)
  /\ UNCHANGED <<mode, ext, emit, verdict, rows, audits, bus, nacks, probe, restarts>>

\* Step 4.
WriteAccepted(c) ==
  /\ pc[c] = "accept"
  /\ InsertRow(c, "accepted", "audit")
  /\ UNCHANGED <<mode, ext, emit, verdict, audits, bus, nacks, probe, restarts>>

WriteAudit(c) ==
  /\ pc[c] = "audit"
  /\ \/ audits' = audits \cup {c} /\ UNCHANGED faults
     \/ Fault /\ UNCHANGED audits
  /\ Goto(c, "send")
  /\ UNCHANGED <<mode, ext, emit, verdict, rows, bus, nacks, emState, probe, restarts>>

\* Mutant: the send is not awaited, and its failure not noticed.
Send_FireAndForget(c) ==
  /\ pc[c] = "send"
  /\ \/ Land(c, IdempotencyKey(c), "validated") /\ UNCHANGED faults
     \/ Fault /\ UNCHANGED bus
  /\ Answer(c, "accepted")
  /\ UNCHANGED <<mode, ext, emit, verdict, rows, audits, nacks, emState, probe,
                 restarts>>

\* Step 5, on the passthrough and on the validated path.
Send(c) ==
  LET body == IF verdict[c] = "ok" THEN "validated" ELSE "raw"
      path == IF mode = "passthrough" /\ verdict[c] # "ok"
              THEN "passthrough" ELSE "accepted"
  IN /\ pc[c] = "send"
     /\ \/ Land(c, IdempotencyKey(c), body) /\ Answer(c, path)
           /\ UNCHANGED <<emState, faults>>
        \/ Fault /\ Throw(c) /\ (UNCHANGED bus \/ Land(c, IdempotencyKey(c), body))
     /\ UNCHANGED <<mode, ext, emit, verdict, rows, audits, nacks, probe, restarts>>

\* Mutant: the fallback reports a conflict on the unique index as a duplicate.
RawSend_Duplicate(c) ==
  /\ pc[c] = "raw"
  /\ \/ Land(c, FallbackKey(c), "raw") /\ UNCHANGED faults
     \/ Fault /\ UNCHANGED bus
  /\ Answer(c, IF ExtTaken(ext[c]) THEN "duplicate" ELSE "em_degraded")
  /\ UNCHANGED <<mode, ext, emit, verdict, rows, audits, nacks, emState, probe,
                 restarts>>

\* The catch of publish: forward the raw payload, swallow a failure.
RawSend(c) ==
  /\ pc[c] = "raw"
  /\ \/ Land(c, FallbackKey(c), "raw") /\ UNCHANGED faults
     \/ Fault /\ UNCHANGED bus
  /\ Answer(c, "em_degraded")
  /\ UNCHANGED <<mode, ext, emit, verdict, rows, audits, nacks, emState, probe,
                 restarts>>

Step(c) ==
  \/ Bypass(c) \/ Parse(c) \/ WritePassthrough(c) \/ WriteRejected(c) \/ Nack(c)
  \/ Lookup(c) \/ WriteAccepted(c) \/ WriteAudit(c) \/ Send(c) \/ RawSend(c)

-----------------------------------------------------------------------------
(* The health route and the process *)

\* GET /api/em/health with Neo4j reachable: recoverIfPossible starts its
\* database self-test only when the flag is set.
ProbeStart ==
  /\ probe = "idle"
  /\ emState = "degraded"
  /\ probe' = "reading"
  /\ UNCHANGED <<mode, pc, ext, emit, verdict, res, rows, audits, bus, nacks,
                 emState, faults, restarts>>

\* Mutant: a successful self-test leaves the flag alone.
ProbeEnd_KeepsFlag ==
  /\ probe = "reading"
  /\ probe' = "idle"
  /\ UNCHANGED <<mode, pc, ext, emit, verdict, res, rows, audits, bus, nacks,
                 emState, faults, restarts>>

\* The self-test read returned: the flag is cleared whatever happened since.
ProbeEnd ==
  /\ probe = "reading"
  /\ probe' = "idle"
  /\ \/ emState' = "healthy" /\ UNCHANGED faults
     \/ Fault /\ UNCHANGED emState
  /\ UNCHANGED <<mode, pc, ext, emit, verdict, res, rows, audits, bus, nacks,
                 restarts>>

\* The server restarts: calls in flight vanish, the flag is a module variable.
Restart ==
  /\ restarts < MaxRestarts
  /\ restarts' = restarts + 1
  /\ pc' = [c \in Calls |-> IF pc[c] \in InFlight THEN "lost" ELSE pc[c]]
  /\ emState' = "healthy"
  /\ probe' = "idle"
  /\ UNCHANGED <<mode, ext, emit, verdict, res, rows, audits, bus, nacks, faults>>

Init ==
  /\ mode \in Modes
  /\ pc      = [c \in Calls |-> "idle"]
  /\ ext     = [c \in Calls |-> NoKey]
  /\ emit    = [c \in Calls |-> TRUE]
  /\ verdict = [c \in Calls |-> "none"]
  /\ res     = [c \in Calls |-> "none"]
  /\ rows    = {}
  /\ audits  = {}
  /\ bus     = {}
  /\ nacks   = {}
  /\ emState = "healthy"
  /\ probe   = "idle"
  /\ faults  = 0
  /\ restarts = 0

Next ==
  \/ \E c \in Calls : Submit(c) \/ Replay(c) \/ Step(c)
  \/ ProbeStart \/ ProbeEnd
  \/ Restart

Spec == Init /\ [][Next]_vars

\* A call in flight keeps running until the process dies, and while EM is
\* degraded the console keeps polling the health route (every 30 s,
\* lib/api/em-health.ts), with Neo4j reachable.
Fairness ==
  /\ \A c \in Calls : WF_vars(Step(c))
  /\ WF_vars(ProbeStart) /\ WF_vars(ProbeEnd)

LiveSpec == Spec /\ Fairness

-----------------------------------------------------------------------------
(* Properties *)

\* Types of the variables.
TypeOK ==
  /\ mode \in {"passthrough", "strict", "legacy"}
  /\ pc \in [Calls -> InFlight \cup {"idle", "done", "lost"}]
  /\ ext \in [Calls -> Keys \cup {NoKey}]
  /\ emit \in [Calls -> BOOLEAN]
  /\ verdict \in [Calls -> Verdicts \cup {"none"}]
  /\ res \in [Calls -> Results \cup {"none"}]
  /\ rows \subseteq [id : Calls, ext : Keys \cup {NoKey}, status : Statuses]
  /\ audits \subseteq Calls
  /\ bus \subseteq [id : ({"key"} \X Keys) \cup ({"event", "uuid"} \X Calls),
                    call : Calls, body : {"raw", "validated"}]
  /\ nacks \subseteq Calls
  /\ emState \in {"healthy", "degraded"}
  /\ probe \in {"idle", "reading"}
  /\ faults \in 0 .. MaxFaults
  /\ restarts \in 0 .. MaxRestarts

\* A caller told "accepted" can rely on the event: it is on the bus under its
\* own id, recorded with the status that matches the answer, and the fallback
\* has not sent it a second time under another id.
AcceptedIsDelivered ==
  \A c \in Calls : res[c] \in {"accepted", "passthrough"} =>
    /\ OnBus(IdempotencyKey(c))
    /\ ext[c] = NoKey => ~OnBus(<<"uuid", c>>)
    /\ \E r \in rows : r.id = c /\ r.status \in Forwarded

\* However calls carrying one external id interleave, fail or are repeated,
\* at most one of them is told a verdict (accepted, passthrough, rejected) and
\* at most one EVENT_REJECTED goes back to the publisher.
OneVerdictPerKey ==
  \A c, d \in Calls : c # d /\ ext[c] # NoKey /\ ext[c] = ext[d] =>
    ~( /\ res[c] \in Results \ {"duplicate", "em_degraded"} \/ c \in nacks
       /\ res[d] \in Results \ {"duplicate", "em_degraded"} \/ d \in nacks )

\* A recorded event that never reached the bus is not silently lost: the call
\* that recorded it is still working on it, was cut off by a restart, or has
\* told its caller em_degraded.
NoSilentLoss ==
  \A r \in rows : r.status \in Forwarded /\ ~OnBus(IdempotencyKey(r.id)) =>
    \/ pc[r.id] \in {"audit", "send", "raw", "lost"}
    \/ res[r.id] = "em_degraded"

\* With schemas enforced, an unvalidated payload reaches the bus only through
\* the fallback, and the call that sent it never reports success.
EnforcedModeValidates ==
  mode = "strict" =>
    \A m \in bus : m.body = "raw" => res[m.call] = "em_degraded"

\* A row is written once and never changed, and what the bus accepted under an
\* id is never replaced: the audit trail can be trusted after any failure.
HistoryIsAppendOnly ==
  [][ /\ rows \subseteq rows'
      /\ bus \subseteq bus'
      /\ \A m \in bus' \ bus : res[m.call] = "none" ]_vars

\* em.publish always returns: a call never hangs, whatever fails under it,
\* unless the process dies.
EveryCallAnswered ==
  \A c \in Calls : pc[c] \in InFlight ~> (res[c] # "none" \/ pc[c] = "lost")

\* Degraded mode is not for ever once the dependencies work again.
DegradedEnds == (emState = "degraded") ~> (emState = "healthy")

\* publish.test.ts:118-121: a payload the gateway rejected is not forwarded.
RejectedStaysOffBus ==
  \A r \in rows : r.status = "rejected_schema" /\ r.ext # NoKey
                    => ~OnBus(<<"key", r.ext>>)

\* publish.ts:136-138: the caller that sees em_degraded can retry; if the
\* retry is then dropped as a duplicate, the event must have been forwarded,
\* or be about to be.
RetryIsNotDropped ==
  \A c \in Calls : res[c] = "duplicate" =>
    \A r \in rows : r.ext = ext[c] /\ r.status \in Forwarded =>
      OnBus(<<"key", r.ext>>) \/ pc[r.id] \in InFlight

\* The promise the gateway implements.
Promise == INSTANCE PublishContract WITH
             opened <- {c \in Calls : pc[c] # "idle"},
             key    <- ext,
             answer <- res,
             bus    <- {m.id : m \in bus}

ContractHolds == Promise!Contract
=============================================================================
